---------------------------- MODULE IntakeProofs ----------------------------
(***************************************************************************)
(* Proofs about Intake, for every number of requests, projects and images  *)
(* and whatever the clients send: what projects show can be asked about,   *)
(* what can be asked about is on disk, projects only grow, and an upload   *)
(* in chunks is assembled from what its session was told.                  *)
(***************************************************************************)
EXTENDS Intake, SequenceTheorems, TLAPS

Entry == [kind : Kinds, image : Contents \cup {NoImage}, verdict : Verdict]

Held == {Absent, Blank, Torn} \cup {Whole(v) : v \in Verdict}

Places == {"idle", "read", "extract", "prepare", "dump", "rename", "prepared", "raised"}

OverSlots(f) == f = [u \in Slots |-> f[u]]

Shapes ==
  /\ disk \in [Projects -> [state : {"unborn", "live", "deleted", "torn"}, files : Seq(Entry)]]
  /\ images \in [Contents -> Verdict]
  /\ metadata \in [Contents -> Held] /\ temp \in [Contents -> Held]
  /\ at \in [Slots -> Places]
  /\ OverSlots(req) /\ OverSlots(prep)

(* What a request consists of. Only the files of a batch are a list of     *)
(* which a part may be left; the content of an assembled one may be any.   *)
ReqOK(u) ==
  /\ req[u] = [via |-> req[u].via, target |-> req[u].target,
               files |-> req[u].files, next |-> req[u].next]
  /\ req[u].via = "batch" =>
       req[u].target \in Projects /\ req[u].files \in Seq(File) /\ req[u].next \in DOMAIN req[u].files
  /\ at[u] \in {"read", "extract"} => req[u].via = "batch"
  /\ at[u] = "prepare" => Current(u).modality \in Modalities

(* A thread is at its file, or has gone on, or its file is another's now;  *)
(* with the verdict it will answer, which is never that on an unknown one. *)
PrepOK(u) ==
  /\ prep[u].verdict \in Verdict
  /\ at[u] \in {"idle", "read", "extract", "prepare"} => prep[u] = NoPrep
  /\ prep[u].image # NoImage => prep[u].verdict.modality \in Modalities
  /\ req[u].via = "batch" => prep[u].image \in Contents \cup {NoImage}
  /\ at[u] \in {"dump", "rename"} /\ prep[u].image \in Contents =>
       temp[prep[u].image] # Absent \/ metadata[prep[u].image] # Absent
  /\ at[u] \in {"prepared", "raised"} /\ prep[u].image \in Contents =>
       metadata[prep[u].image] # Absent

SlotOK(u) == ReqOK(u) /\ PrepOK(u)

(* An entry that names an image has a verdict on it, and the image its     *)
(* metadata, whether or not the process runs.                              *)
EntryOK(e) ==
  e.image # NoImage => e.verdict.modality \in Modalities /\ metadata[e.image] # Absent

DiskOK == \A p \in Projects : \A i \in DOMAIN disk[p].files : EntryOK(disk[p].files[i])

ImagesOK == \A c \in Contents : images[c] # NoVerdict => metadata[c] # Absent

IInv == Shapes /\ (\A u \in Slots : SlotOK(u)) /\ DiskOK /\ ImagesOK /\ ProjectImagesQueryable

-----------------------------------------------------------------------------
(* What the steps of threads never do: metadata, once there, goes, or a    *)
(* temporary file goes without leaving metadata.                           *)
FilesKept ==
  \A c \in Contents :
    /\ metadata[c] # Absent => metadata'[c] # Absent
    /\ temp[c] # Absent => temp'[c] # Absent \/ metadata'[c] # Absent

ImagesKept == \A c \in Contents : images[c] # NoVerdict => images'[c] # NoVerdict

LEMMA FilesDiffer ==
  /\ Absent \in Held /\ Blank \in Held /\ Torn \in Held
  /\ Blank # Absent /\ Torn # Absent
  /\ \A v \in Verdict : Whole(v) \in Held /\ Whole(v) # Absent
BY DEF Held, Absent, Blank, Torn, Whole

LEMMA OpenTempKeeps ==
  ASSUME Shapes, NEW t \in Slots, NEW image, NEW v, OpenTemp(t, image, v)
  PROVE  /\ FilesKept /\ metadata' \in [Contents -> Held] /\ temp' \in [Contents -> Held]
         /\ OverSlots(prep)' /\ prep'[t] = [image |-> image, verdict |-> v]
         /\ \A w \in Slots \ {t} : prep'[w] = prep[w]
         /\ image \in Contents => temp'[image] # Absent
BY FilesDiffer DEF OpenTemp, Shapes, FilesKept, OverSlots

LEMMA DumpKeeps ==
  ASSUME Shapes, NEW t \in Slots, prep[t].verdict \in Verdict, Dump(t)
  PROVE  /\ FilesKept /\ metadata' \in [Contents -> Held] /\ temp' \in [Contents -> Held]
         /\ prep' = prep
<1>1. PICK file \in {Whole(prep[t].verdict), Torn} :
        /\ temp' = temp \/ temp' = [temp EXCEPT ![Image(t)] = file]
        /\ metadata' = metadata \/ metadata' = [metadata EXCEPT ![Image(t)] = file]
  BY DEF Dump, Written
<1>2. file \in Held /\ file # Absent
  BY <1>1, FilesDiffer
<1>3. prep' = prep
  BY DEF Dump
<1> QED
  BY <1>1, <1>2, <1>3 DEF Shapes, FilesKept

LEMMA ReplaceKeeps ==
  ASSUME Shapes, NEW t \in Slots, Replace(t)
  PROVE  /\ FilesKept /\ metadata' \in [Contents -> Held] /\ temp' \in [Contents -> Held]
         /\ prep' = prep
         /\ Image(t) \in Contents => metadata'[Image(t)] # Absent
BY FilesDiffer DEF Replace, Shapes, FilesKept

(* The rest of the requests, and what is recorded, survive such a step.    *)
LEMMA OthersKept ==
  ASSUME NEW w \in Slots, SlotOK(w), FilesKept,
         at'[w] = at[w], req'[w] = req[w], prep'[w] = prep[w]
  PROVE  SlotOK(w)'
BY DEF SlotOK, ReqOK, PrepOK, FilesKept, Current

LEMMA DiskKept ==
  ASSUME Shapes, DiskOK, FilesKept, UNCHANGED disk
  PROVE  DiskOK'
<1> SUFFICES ASSUME NEW p \in Projects, NEW i \in DOMAIN disk[p].files
             PROVE  EntryOK(disk[p].files[i])'
  BY DEF DiskOK
<1>1. disk[p].files[i] \in Entry /\ EntryOK(disk[p].files[i])
  BY DEF Shapes, DiskOK
<1> QED
  BY <1>1 DEF EntryOK, Entry, FilesKept

LEMMA QueryableKept ==
  ASSUME Shapes, ProjectImagesQueryable, ImagesKept, UNCHANGED <<disk, up>>
  PROVE  ProjectImagesQueryable'
<1> SUFFICES ASSUME up, NEW p \in Projects, Store!IsLive(p), NEW i \in DOMAIN disk[p].files,
                    disk[p].files[i].image # NoImage
             PROVE  images'[disk[p].files[i].image] # NoVerdict
  BY DEF ProjectImagesQueryable, Store!IsLive
<1>1. disk[p].files[i] \in Entry
  BY DEF Shapes
<1> QED
  BY <1>1 DEF ProjectImagesQueryable, ImagesKept, Entry

-----------------------------------------------------------------------------
(* Adding a file leaves the others of the project where they are.          *)
LEMMA AppendKeeps ==
  ASSUME NEW q \in Seq(Entry), NEW e \in Entry
  PROVE  /\ Append(q, e) \in Seq(Entry) /\ Store!IsPrefix(q, Append(q, e))
         /\ \A i \in DOMAIN Append(q, e) :
              Append(q, e)[i] = e \/ \E k \in DOMAIN q : Append(q, e)[i] = q[k]
<1> DEFINE r == Append(q, e)
<1>1. /\ r \in Seq(Entry) /\ Len(r) = Len(q) + 1
      /\ \A i \in 1..Len(q) : r[i] = q[i]
      /\ r[Len(q) + 1] = e
  BY AppendProperties
<1>2. /\ Len(q) \in Nat /\ DOMAIN q = 1..Len(q) /\ DOMAIN r = 1..(Len(q) + 1)
  BY <1>1, LenProperties
<1> HIDE DEF r
<1>3. \A i \in DOMAIN r : r[i] = e \/ \E k \in DOMAIN q : r[i] = q[k]
  BY <1>1, <1>2
<1>4. Store!IsPrefix(q, r)
  <2>1. SubSeq(q, 1, Len(q)) = q
    BY SubSeqFull
  <2>2. /\ SubSeq(r, 1, Len(q)) \in Seq(Entry) /\ Len(SubSeq(r, 1, Len(q))) = Len(q)
        /\ \A i \in 1..Len(q) : SubSeq(r, 1, Len(q))[i] = r[i]
    BY <1>1, <1>2, SubSeqProperties
  <2>3. SubSeq(r, 1, Len(q)) = q
    BY <1>1, <2>2, SeqEqual
  <2> QED
    BY <1>1, <1>2, <2>1, <2>3 DEF Store!IsPrefix
<1> QED
  BY <1>1, <1>3, <1>4 DEF r

LEMMA AddFileEffect ==
  ASSUME Shapes, NEW p \in Projects, NEW e \in Entry, Store!AddFile(p, e)
  PROVE  /\ disk' \in [Projects -> [state : {"unborn", "live", "deleted", "torn"}, files : Seq(Entry)]]
         /\ disk[p].state = "live" /\ disk'[p].state = "live"
         /\ Store!IsPrefix(disk[p].files, disk'[p].files)
         /\ \A i \in DOMAIN disk'[p].files :
              \/ disk'[p].files[i] = e
              \/ \E k \in DOMAIN disk[p].files : disk'[p].files[i] = disk[p].files[k]
         /\ \A q \in Projects \ {p} : disk'[q] = disk[q]
<1>1. disk[p] \in [state : {"unborn", "live", "deleted", "torn"}, files : Seq(Entry)]
  BY DEF Shapes
<1>2. disk[p].state = "live" /\ disk' = [disk EXCEPT ![p].files = Append(@, e)]
  BY DEF Store!AddFile, Store!IsLive
<1>3. /\ Append(disk[p].files, e) \in Seq(Entry)
      /\ Store!IsPrefix(disk[p].files, Append(disk[p].files, e))
      /\ \A i \in DOMAIN Append(disk[p].files, e) :
           \/ Append(disk[p].files, e)[i] = e
           \/ \E k \in DOMAIN disk[p].files : Append(disk[p].files, e)[i] = disk[p].files[k]
  BY <1>1, AppendKeeps
<1>4. disk'[p].files = Append(disk[p].files, e) /\ disk'[p].state = "live"
  BY <1>1, <1>2 DEF Shapes
<1>5. \A q \in Projects \ {p} : disk'[q] = disk[q]
  BY <1>2 DEF Shapes
<1>6. disk' \in [Projects -> [state : {"unborn", "live", "deleted", "torn"}, files : Seq(Entry)]]
  BY <1>2, <1>3 DEF Shapes
<1> QED
  BY <1>2, <1>3, <1>4, <1>5, <1>6

(* A request that is answered, and one that goes on to its next file.      *)
LEMMA RespondEffect ==
  ASSUME Shapes, NEW u \in Slots, Respond(u)
  PROVE  /\ at' \in [Slots -> Places] /\ OverSlots(req)'
         /\ at'[u] = "idle" /\ ReqOK(u)' /\ req'[u].via = "none"
         /\ \A w \in Slots \ {u} : at'[w] = at[w] /\ req'[w] = req[w]
BY DEF Respond, Goto, Shapes, Places, OverSlots, ReqOK, NoReq

LEMMA NextFileEffect ==
  ASSUME Shapes, NEW u \in Slots, ReqOK(u), req[u].via = "batch", NextFile(u)
  PROVE  /\ at' \in [Slots -> Places] /\ OverSlots(req)'
         /\ at'[u] \in {"idle", "read"} /\ ReqOK(u)'
         /\ \A w \in Slots \ {u} : at'[w] = at[w] /\ req'[w] = req[w]
<1>1. CASE req[u].next < Len(req[u].files)
  <2>1. /\ at' = [at EXCEPT ![u] = "read"] /\ req' = [req EXCEPT ![u].next = @ + 1]
    BY <1>1 DEF NextFile, Goto
  <2>2. /\ req'[u].via = req[u].via /\ req'[u].target = req[u].target
        /\ req'[u].files = req[u].files /\ req'[u].next = req[u].next + 1
        /\ req'[u] = [via |-> req'[u].via, target |-> req'[u].target,
                      files |-> req'[u].files, next |-> req'[u].next]
    BY <2>1 DEF ReqOK, Shapes, OverSlots
  <2>3. req[u].next + 1 \in DOMAIN req[u].files
    <3>1. /\ req[u].files \in Seq(File) /\ req[u].next \in DOMAIN req[u].files
      BY DEF ReqOK
    <3>2. Len(req[u].files) \in Nat /\ DOMAIN req[u].files = 1..Len(req[u].files)
      BY <3>1, LenProperties
    <3> QED
      BY <1>1, <3>1, <3>2
  <2>4. at' \in [Slots -> Places] /\ at'[u] = "read"
    BY <2>1 DEF Shapes, Places
  <2>5. ReqOK(u)'
    BY <2>2, <2>3, <2>4 DEF ReqOK
  <2> QED
    BY <2>1, <2>4, <2>5 DEF Shapes, OverSlots
<1>2. CASE ~(req[u].next < Len(req[u].files))
  BY <1>2, RespondEffect DEF NextFile
<1> QED
  BY <1>1, <1>2

(* A file is recorded with what is said of it, or the request fails.       *)
LEMMA RecordFileOK ==
  ASSUME Shapes, DiskOK, NEW u \in Slots, ReqOK(u), req[u].via = "batch", FilesKept,
         NEW image \in Contents \cup {NoImage}, NEW v \in Verdict,
         image # NoImage => v.modality \in Modalities /\ metadata[image] # Absent,
         RecordFile(u, image, v)
  PROVE  /\ disk' \in [Projects -> [state : {"unborn", "live", "deleted", "torn"}, files : Seq(Entry)]]
         /\ DiskOK'
         /\ \A p \in Projects : \A i \in DOMAIN disk'[p].files :
              \/ disk'[p].files[i].image = image
              \/ /\ disk'[p].state = disk[p].state
                 /\ \E k \in DOMAIN disk[p].files : disk'[p].files[i] = disk[p].files[k]
         /\ at' \in [Slots -> Places] /\ OverSlots(req)'
         /\ at'[u] \in {"idle", "read"} /\ ReqOK(u)'
         /\ \A w \in Slots \ {u} : at'[w] = at[w] /\ req'[w] = req[w]
<1> DEFINE e == [kind |-> Current(u).kind, image |-> image, verdict |-> v]
           p == req[u].target
           noted(x) == x.image # NoImage =>
                         x.verdict.modality \in Modalities /\ metadata'[x.image] # Absent
<1>1. p \in Projects /\ e \in Entry
  <2>1. /\ p \in Projects /\ req[u].files \in Seq(File) /\ req[u].next \in DOMAIN req[u].files
    BY DEF ReqOK
  <2>2. Current(u) \in File
    BY <2>1 DEF Current
  <2> QED
    BY <2>1, <2>2 DEF File, Entry
<1>2. CASE Store!AddFile(p, e) /\ NextFile(u)
  <2>1. /\ disk' \in [Projects -> [state : {"unborn", "live", "deleted", "torn"}, files : Seq(Entry)]]
        /\ disk[p].state = "live" /\ disk'[p].state = "live"
        /\ \A i \in DOMAIN disk'[p].files :
             \/ disk'[p].files[i] = e
             \/ \E k \in DOMAIN disk[p].files : disk'[p].files[i] = disk[p].files[k]
        /\ \A q \in Projects \ {p} : disk'[q] = disk[q]
    BY <1>1, <1>2, AddFileEffect
  <2>2. e.image = image /\ e.verdict = v
    OBVIOUS
  <2> HIDE DEF e, p
  <2>3. \A q \in Projects : \A i \in DOMAIN disk'[q].files :
          \/ disk'[q].files[i] = e
          \/ /\ disk'[q].state = disk[q].state
             /\ \E k \in DOMAIN disk[q].files : disk'[q].files[i] = disk[q].files[k]
    BY <2>1
  <2>4. noted(e)
    BY <1>1, <2>2 DEF FilesKept
  <2>5. ASSUME NEW q \in Projects, NEW k \in DOMAIN disk[q].files
        PROVE  noted(disk[q].files[k])
    <3>1. disk[q].files[k] \in Entry /\ EntryOK(disk[q].files[k])
      BY DEF Shapes, DiskOK
    <3> QED
      BY <3>1 DEF EntryOK, Entry, FilesKept
  <2> HIDE DEF noted
  <2>7. \A q \in Projects : \A i \in DOMAIN disk'[q].files : noted(disk'[q].files[i])
    BY <2>3, <2>4, <2>5
  <2>6. DiskOK'
    BY <2>7 DEF DiskOK, EntryOK, noted
  <2> QED
    BY <1>2, <2>1, <2>2, <2>3, <2>6, NextFileEffect
<1>3. CASE ~Store!IsLive(p) /\ Respond(u) /\ UNCHANGED disk
  <2>1. DiskOK'
    BY <1>3, DiskKept
  <2> QED
    BY <1>3, <2>1, RespondEffect DEF Shapes
<1> QED
  BY <1>2, <1>3 DEF RecordFile

-----------------------------------------------------------------------------
(* A step of request u: the others are as they were, and so is what they   *)
(* rest on.                                                                *)
LEMMA StepOK ==
  ASSUME IInv, NEW u \in Slots, FilesKept,
         Shapes', SlotOK(u)', DiskOK', ImagesOK', ProjectImagesQueryable',
         \A w \in Slots \ {u} : at'[w] = at[w] /\ req'[w] = req[w] /\ prep'[w] = prep[w]
  PROVE  IInv'
<1>1. \A w \in Slots : SlotOK(w)'
  <2> SUFFICES ASSUME NEW w \in Slots PROVE SlotOK(w)'
    OBVIOUS
  <2>1. CASE w = u
    BY <2>1
  <2>2. CASE w # u
    BY <2>2, OthersKept DEF IInv
  <2> QED
    BY <2>1, <2>2
<1> QED
  BY <1>1 DEF IInv

(* One that touches neither a project nor the image store.                 *)
LEMMA QuietOK ==
  ASSUME IInv, NEW u \in Slots, FilesKept, UNCHANGED <<disk, images, up>>,
         metadata' \in [Contents -> Held], temp' \in [Contents -> Held],
         at' \in [Slots -> Places], OverSlots(req)', OverSlots(prep)', SlotOK(u)',
         \A w \in Slots \ {u} : at'[w] = at[w] /\ req'[w] = req[w] /\ prep'[w] = prep[w]
  PROVE  IInv'
<1>1. Shapes'
  BY DEF IInv, Shapes
<1>2. DiskOK'
  BY DiskKept DEF IInv
<1>3. ImagesOK'
  BY DEF IInv, ImagesOK, FilesKept
<1>4. ProjectImagesQueryable'
  BY QueryableKept DEF IInv, ImagesKept
<1> QED
  BY <1>1, <1>2, <1>3, <1>4, StepOK

LEMMA AcceptEffect ==
  ASSUME Shapes, NEW u \in Slots, NEW via, NEW target, NEW files, NEW place \in Places,
         Accept(u, via, target, files, place)
  PROVE  /\ at[u] = "idle" /\ at' \in [Slots -> Places] /\ OverSlots(req)' /\ at'[u] = place
         /\ req'[u] = [via |-> via, target |-> target, files |-> files, next |-> 1]
         /\ \A w \in Slots \ {u} : at'[w] = at[w] /\ req'[w] = req[w]
BY DEF Accept, Goto, Shapes, OverSlots

LEMMA UploadLastChunkOK ==
  ASSUME IInv, NEW u \in Slots, UploadLastChunk(u) PROVE IInv'
<1>1. PICK r \in ChunkRequests :
        Accept(u, "chunks", AssembledAs[r.id],
               << [kind |-> "other", content |-> NoImage, modality |-> r.modality] >>, "prepare")
  BY DEF UploadLastChunk
<1>2. r.modality \in Modalities
  BY RequestsAssumption DEF ChunkRequest
<1>3. /\ at[u] = "idle" /\ at' \in [Slots -> Places] /\ OverSlots(req)' /\ at'[u] = "prepare"
      /\ req'[u] = [via |-> "chunks", target |-> AssembledAs[r.id],
                    files |-> << [kind |-> "other", content |-> NoImage,
                                  modality |-> r.modality] >>, next |-> 1]
      /\ \A w \in Slots \ {u} : at'[w] = at[w] /\ req'[w] = req[w]
  BY <1>1, AcceptEffect DEF IInv, Places
<1>4. ReqOK(u)'
  BY <1>2, <1>3 DEF ReqOK, Current
<1>5. FilesKept /\ UNCHANGED <<preparedVars, disk, images, up>>
  BY DEF UploadLastChunk, FilesKept, preparedVars, Accept
<1>6. PrepOK(u)'
  BY <1>3, <1>5 DEF IInv, SlotOK, PrepOK, preparedVars
<1> QED
  BY <1>3, <1>4, <1>5, <1>6, QuietOK DEF IInv, Shapes, SlotOK, preparedVars, OverSlots

LEMMA UploadWholeOK ==
  ASSUME IInv, NEW u \in Slots, UploadWhole(u) PROVE IInv'
<1>1. PICK f \in Uploads : Accept(u, "whole", "none", <<f>>, "prepare")
  BY DEF UploadWhole
<1>2. f.modality \in Modalities
  BY RequestsAssumption DEF File
<1>3. /\ at[u] = "idle" /\ at' \in [Slots -> Places] /\ OverSlots(req)' /\ at'[u] = "prepare"
      /\ req'[u] = [via |-> "whole", target |-> "none", files |-> <<f>>, next |-> 1]
      /\ \A w \in Slots \ {u} : at'[w] = at[w] /\ req'[w] = req[w]
  BY <1>1, AcceptEffect DEF IInv, Places
<1>4. ReqOK(u)'
  BY <1>2, <1>3 DEF ReqOK, Current
<1>5. FilesKept /\ UNCHANGED <<preparedVars, disk, images, up>>
  BY DEF UploadWhole, FilesKept, preparedVars, Accept
<1>6. PrepOK(u)'
  BY <1>3, <1>5 DEF IInv, SlotOK, PrepOK, preparedVars
<1> QED
  BY <1>3, <1>4, <1>5, <1>6, QuietOK DEF IInv, Shapes, SlotOK, preparedVars, OverSlots

LEMMA UploadBatchOK ==
  ASSUME IInv, NEW u \in Slots, UploadBatch(u) PROVE IInv'
<1>1. PICK p \in Projects, files \in Batches : Accept(u, "batch", p, files, "read")
  BY DEF UploadBatch
<1>2. files \in Seq(File) /\ 1 \in DOMAIN files
  <2>1. files \in Seq(File) /\ files # <<>>
    BY RequestsAssumption
  <2> QED
    BY <2>1, EmptySeq, LenProperties
<1>3. /\ at[u] = "idle" /\ at' \in [Slots -> Places] /\ OverSlots(req)' /\ at'[u] = "read"
      /\ req'[u] = [via |-> "batch", target |-> p, files |-> files, next |-> 1]
      /\ \A w \in Slots \ {u} : at'[w] = at[w] /\ req'[w] = req[w]
  BY <1>1, AcceptEffect DEF IInv, Places
<1>4. ReqOK(u)'
  BY <1>2, <1>3 DEF ReqOK
<1>5. FilesKept /\ UNCHANGED <<preparedVars, disk, images, up>>
  BY DEF UploadBatch, FilesKept, preparedVars, Accept
<1>6. PrepOK(u)'
  BY <1>3, <1>5 DEF IInv, SlotOK, PrepOK, preparedVars, NoPrep
<1> QED
  BY <1>3, <1>4, <1>5, <1>6, QuietOK DEF IInv, Shapes, SlotOK, preparedVars, OverSlots

LEMMA ReadTooBigOK ==
  ASSUME IInv, NEW u \in Slots, ReadTooBig(u) PROVE IInv'
<1>1. /\ at' \in [Slots -> Places] /\ OverSlots(req)'
      /\ at'[u] = "idle" /\ ReqOK(u)' /\ req'[u].via = "none"
      /\ \A w \in Slots \ {u} : at'[w] = at[w] /\ req'[w] = req[w]
  BY RespondEffect DEF ReadTooBig, IInv
<1>2. at[u] = "read" /\ FilesKept /\ UNCHANGED <<preparedVars, disk, images, up>>
  BY DEF ReadTooBig, FilesKept, preparedVars
<1>3. PrepOK(u)'
  BY <1>1, <1>2 DEF IInv, SlotOK, PrepOK, preparedVars, NoPrep
<1> QED
  BY <1>1, <1>2, <1>3, QuietOK DEF IInv, Shapes, SlotOK, preparedVars, OverSlots

(* A file that is recorded without an image.                               *)
LEMMA RecordNoneOK ==
  ASSUME IInv, NEW u \in Slots, at[u] \in {"read", "extract"},
         RecordFile(u, NoImage, NoVerdict), UNCHANGED <<preparedVars, images, up>>
  PROVE  IInv'
<1>1. /\ Shapes /\ SlotOK(u) /\ DiskOK /\ ImagesOK /\ ProjectImagesQueryable
      /\ req[u].via = "batch" /\ prep[u] = NoPrep
  BY DEF IInv, SlotOK, ReqOK, PrepOK
<1>2. FilesKept /\ ReqOK(u) /\ NoVerdict \in Verdict
  BY <1>1 DEF FilesKept, preparedVars, SlotOK, NoVerdict, Verdict, Errors
<1>3. /\ disk' \in [Projects -> [state : {"unborn", "live", "deleted", "torn"}, files : Seq(Entry)]]
      /\ DiskOK'
      /\ \A p \in Projects : \A i \in DOMAIN disk'[p].files :
           \/ disk'[p].files[i].image = NoImage
           \/ /\ disk'[p].state = disk[p].state
              /\ \E k \in DOMAIN disk[p].files : disk'[p].files[i] = disk[p].files[k]
      /\ at' \in [Slots -> Places] /\ OverSlots(req)'
      /\ at'[u] \in {"idle", "read"} /\ ReqOK(u)'
      /\ \A w \in Slots \ {u} : at'[w] = at[w] /\ req'[w] = req[w]
  BY <1>1, <1>2, RecordFileOK
<1>4. PrepOK(u)'
  BY <1>1, <1>2, <1>3 DEF PrepOK, preparedVars, NoPrep
<1>5. ProjectImagesQueryable'
  BY <1>1, <1>3 DEF ProjectImagesQueryable, Store!IsLive
<1>6. Shapes' /\ ImagesOK'
  BY <1>1, <1>3 DEF Shapes, ImagesOK, preparedVars, OverSlots
<1> QED
  BY <1>2, <1>3, <1>4, <1>5, <1>6, StepOK DEF SlotOK, preparedVars

LEMMA CurrentIsFile ==
  ASSUME NEW u \in Slots, req[u].files \in Seq(File), req[u].next \in DOMAIN req[u].files
  PROVE  Current(u).modality \in Modalities /\ Current(u).content \in Contents
<1>1. Current(u) \in File
  BY DEF Current
<1> QED
  BY <1>1 DEF File

LEMMA ReadFileOK ==
  ASSUME IInv, NEW u \in Slots, ReadFile(u) PROVE IInv'
<1>1. at[u] = "read" /\ FilesKept /\ UNCHANGED <<preparedVars, images, up>>
  BY DEF ReadFile, FilesKept, preparedVars
<1>2. \/ \E place \in {"prepare", "extract"} : Goto(u, place) /\ UNCHANGED <<disk, req>>
      \/ RecordFile(u, NoImage, NoVerdict)
  BY DEF ReadFile
<1>3. ASSUME NEW place \in {"prepare", "extract"}, Goto(u, place), UNCHANGED <<disk, req>>
      PROVE  IInv'
  <2>1. /\ req[u].via = "batch" /\ req[u].files \in Seq(File) /\ req[u].next \in DOMAIN req[u].files
    BY <1>1 DEF IInv, SlotOK, ReqOK
  <2>2. Current(u).modality \in Modalities
    BY <2>1, CurrentIsFile
  <2>3. at' \in [Slots -> Places] /\ at'[u] = place /\ \A w \in Slots \ {u} : at'[w] = at[w]
    BY <1>3 DEF Goto, IInv, Shapes, Places
  <2>4. SlotOK(u)'
    BY <1>1, <1>3, <2>1, <2>2, <2>3 DEF IInv, SlotOK, ReqOK, PrepOK, Current, preparedVars
  <2> QED
    BY <1>1, <1>3, <2>3, <2>4, QuietOK DEF IInv, Shapes, preparedVars, OverSlots
<1>4. CASE RecordFile(u, NoImage, NoVerdict)
  BY <1>1, <1>4, RecordNoneOK
<1> QED
  BY <1>2, <1>3, <1>4

LEMMA ExtractedOK ==
  ASSUME IInv, NEW u \in Slots, Extracted(u) PROVE IInv'
BY RecordNoneOK DEF Extracted

LEMMA ExamineOK ==
  ASSUME IInv, NEW u \in Slots, Examine(u) PROVE IInv'
<1>1. PICK v \in Verdicts(Content(u), Current(u).kind = "image", Current(u).modality) :
        OpenTemp(u, Content(u), v)
  BY DEF Examine
<1>2. /\ at[u] = "prepare" /\ Goto(u, "dump") /\ UNCHANGED <<disk, images, req, up>>
      /\ Shapes /\ ReqOK(u) /\ PrepOK(u)
  BY DEF Examine, IInv, SlotOK
<1>3. v \in Verdict /\ v.modality \in Modalities
  BY <1>2 DEF Verdicts, Verdict, ReqOK
<1>4. /\ FilesKept /\ metadata' \in [Contents -> Held] /\ temp' \in [Contents -> Held]
      /\ OverSlots(prep)' /\ prep'[u] = [image |-> Content(u), verdict |-> v]
      /\ \A w \in Slots \ {u} : prep'[w] = prep[w]
      /\ Content(u) \in Contents => temp'[Content(u)] # Absent
  BY <1>1, <1>2, OpenTempKeeps
<1>5. at' \in [Slots -> Places] /\ at'[u] = "dump" /\ \A w \in Slots \ {u} : at'[w] = at[w]
  BY <1>2 DEF Goto, Shapes, Places
<1>6. req[u].via = "batch" => Content(u) \in Contents
  <2> SUFFICES ASSUME req[u].via = "batch" PROVE Current(u).content \in Contents
    BY DEF Content
  <2>1. /\ req[u].files \in Seq(File) /\ req[u].next \in DOMAIN req[u].files
    BY <1>2 DEF ReqOK
  <2> QED
    BY <2>1, CurrentIsFile
<1>7. ReqOK(u)'
  BY <1>2, <1>5 DEF ReqOK
<1>8. PrepOK(u)'
  BY <1>2, <1>3, <1>4, <1>5, <1>6 DEF PrepOK
<1> QED
  BY <1>2, <1>4, <1>5, <1>7, <1>8, QuietOK DEF Shapes, SlotOK, OverSlots

LEMMA ExamineNothingOK ==
  ASSUME IInv, NEW u \in Slots, ExamineNothing(u) PROVE IInv'
<1>1. /\ at[u] = "prepare" /\ Goto(u, "prepared") /\ FilesKept
      /\ UNCHANGED <<preparedVars, disk, images, req, up>>
      /\ Shapes /\ ReqOK(u) /\ PrepOK(u)
  BY DEF ExamineNothing, IInv, SlotOK, FilesKept, preparedVars
<1>2. at' \in [Slots -> Places] /\ at'[u] = "prepared" /\ \A w \in Slots \ {u} : at'[w] = at[w]
  BY <1>1 DEF Goto, Shapes, Places
<1>3. NoImage \notin Contents
  BY ContentsAssumption DEF NoImage
<1>4. SlotOK(u)'
  BY <1>1, <1>2, <1>3 DEF SlotOK, ReqOK, PrepOK, preparedVars, NoPrep
<1> QED
  BY <1>1, <1>2, <1>4, QuietOK DEF Shapes, preparedVars, OverSlots

LEMMA SaveMetadataOK ==
  ASSUME IInv, NEW u \in Slots, SaveMetadata(u) PROVE IInv'
<1>1. /\ at[u] = "dump" /\ Dump(u) /\ Goto(u, "rename")
      /\ UNCHANGED <<disk, images, req, up>>
      /\ Shapes /\ ReqOK(u) /\ PrepOK(u)
  BY DEF SaveMetadata, IInv, SlotOK
<1>2. /\ FilesKept /\ metadata' \in [Contents -> Held] /\ temp' \in [Contents -> Held]
      /\ prep' = prep
  BY <1>1, DumpKeeps DEF PrepOK
<1>3. at' \in [Slots -> Places] /\ at'[u] = "rename" /\ \A w \in Slots \ {u} : at'[w] = at[w]
  BY <1>1 DEF Goto, Shapes, Places
<1>4. SlotOK(u)'
  BY <1>1, <1>2, <1>3 DEF SlotOK, ReqOK, PrepOK, FilesKept
<1> QED
  BY <1>1, <1>2, <1>3, <1>4, QuietOK DEF Shapes, OverSlots

LEMMA RenameMetadataOK ==
  ASSUME IInv, NEW u \in Slots, RenameMetadata(u) PROVE IInv'
<1>1. /\ at[u] = "rename" /\ UNCHANGED <<disk, images, req, up>>
      /\ Shapes /\ ReqOK(u) /\ PrepOK(u)
  BY DEF RenameMetadata, IInv, SlotOK
<1>2. CASE Replace(u) /\ Goto(u, "prepared")
  <2>1. /\ FilesKept /\ metadata' \in [Contents -> Held] /\ temp' \in [Contents -> Held]
        /\ prep' = prep
        /\ Image(u) \in Contents => metadata'[Image(u)] # Absent
    BY <1>1, <1>2, ReplaceKeeps
  <2>2. at' \in [Slots -> Places] /\ at'[u] = "prepared" /\ \A w \in Slots \ {u} : at'[w] = at[w]
    BY <1>1, <1>2 DEF Goto, Shapes, Places
  <2>3. SlotOK(u)'
    BY <1>1, <2>1, <2>2 DEF SlotOK, ReqOK, PrepOK, Image
  <2> QED
    BY <1>1, <2>1, <2>2, <2>3, QuietOK DEF Shapes, OverSlots
<1>3. CASE ReplaceRaises(u) /\ Goto(u, "raised")
  <2>1. UNCHANGED preparedVars /\ FilesKept /\ temp[prep[u].image] = Absent
    BY <1>3 DEF ReplaceRaises, FilesKept, preparedVars, Image
  <2>2. at' \in [Slots -> Places] /\ at'[u] = "raised" /\ \A w \in Slots \ {u} : at'[w] = at[w]
    BY <1>1, <1>3 DEF Goto, Shapes, Places
  <2>3. SlotOK(u)'
    BY <1>1, <2>1, <2>2 DEF SlotOK, ReqOK, PrepOK, preparedVars
  <2> QED
    BY <1>1, <2>1, <2>2, <2>3, QuietOK DEF Shapes, preparedVars, OverSlots
<1> QED
  BY <1>2, <1>3 DEF RenameMetadata

(* The image store is given the image before its file is recorded.         *)
LEMMA FinishOK ==
  ASSUME IInv, NEW u \in Slots, at[u] \in {"prepared", "raised"},
         NEW image, NEW v \in Verdict, Finish(u, image, v),
         image # NoImage => v.modality \in Modalities,
         req[u].via = "batch" => image \in Contents \cup {NoImage},
         image \in Contents => metadata[image] # Absent /\ images'[image] # NoVerdict,
         images' \in [Contents -> Verdict], ImagesKept, ImagesOK'
  PROVE  IInv'
<1>1. /\ Shapes /\ SlotOK(u) /\ DiskOK /\ ProjectImagesQueryable
      /\ UNCHANGED <<metadata, temp, up>> /\ prep' = [prep EXCEPT ![u] = NoPrep]
      /\ FilesKept
  BY DEF IInv, Finish, Forget, FilesKept
<1>2. /\ disk' \in [Projects -> [state : {"unborn", "live", "deleted", "torn"}, files : Seq(Entry)]]
      /\ DiskOK'
      /\ \A p \in Projects : \A i \in DOMAIN disk'[p].files :
           \/ disk'[p].files[i].image = image
           \/ /\ disk'[p].state = disk[p].state
              /\ \E k \in DOMAIN disk[p].files : disk'[p].files[i] = disk[p].files[k]
      /\ at' \in [Slots -> Places] /\ OverSlots(req)'
      /\ at'[u] \in {"idle", "read"} /\ ReqOK(u)'
      /\ \A w \in Slots \ {u} : at'[w] = at[w] /\ req'[w] = req[w]
  <2>1. CASE req[u].via = "batch"
    BY <1>1, <2>1, RecordFileOK DEF Finish, SlotOK
  <2>2. CASE req[u].via # "batch"
    <3>1. Respond(u) /\ UNCHANGED disk
      BY <2>2 DEF Finish
    <3>2. DiskOK'
      BY <1>1, <3>1, DiskKept
    <3> QED
      BY <1>1, <3>1, <3>2, RespondEffect DEF Shapes
  <2> QED
    BY <2>1, <2>2
<1>3. /\ OverSlots(prep)' /\ prep'[u] = NoPrep
      /\ \A w \in Slots \ {u} : prep'[w] = prep[w]
  BY <1>1 DEF Shapes, OverSlots
<1>4. PrepOK(u)'
  BY <1>2, <1>3 DEF PrepOK, NoPrep, NoVerdict, Verdict, Errors
<1>5. ProjectImagesQueryable'
  <2> SUFFICES ASSUME up, NEW p \in Projects, disk'[p].state = "live",
                      NEW i \in DOMAIN disk'[p].files, disk'[p].files[i].image # NoImage
               PROVE  images'[disk'[p].files[i].image] # NoVerdict
    BY <1>1 DEF ProjectImagesQueryable, Store!IsLive
  <2>1. disk'[p].files[i].image \in Contents
    <3>1. disk'[p].files[i] \in Entry
      BY <1>2
    <3> QED
      BY <3>1 DEF Entry
  <2>2. CASE disk'[p].files[i].image = image
    BY <2>1, <2>2
  <2>3. CASE \E k \in DOMAIN disk[p].files :
               disk[p].state = "live" /\ disk'[p].files[i] = disk[p].files[k]
    <3>1. images[disk'[p].files[i].image] # NoVerdict
      BY <1>1, <2>3 DEF ProjectImagesQueryable, Store!IsLive
    <3> QED
      BY <2>1, <3>1 DEF ImagesKept
  <2> QED
    BY <1>2, <2>2, <2>3
<1>6. Shapes'
  BY <1>1, <1>2, <1>3 DEF Shapes
<1> QED
  BY <1>1, <1>2, <1>3, <1>4, <1>5, <1>6, StepOK DEF SlotOK

LEMMA PreparedOK ==
  ASSUME IInv, NEW u \in Slots, Prepared(u) PROVE IInv'
<1>1. /\ at[u] = "prepared" /\ PutImage(u) /\ Finish(u, Image(u), prep[u].verdict)
      /\ Shapes /\ ImagesOK /\ PrepOK(u) /\ UNCHANGED metadata
  BY DEF Prepared, IInv, SlotOK, Finish, Forget
<1>2. Image(u) # NoImage => prep[u].verdict # NoVerdict
  BY <1>1, ModalitiesAssumption DEF PrepOK, Image, NoVerdict
<1>3. NoImage \notin Contents
  BY ContentsAssumption DEF NoImage
<1>4. /\ images' \in [Contents -> Verdict]
      /\ \A c \in Contents : images'[c] = IF c = Image(u) THEN prep[u].verdict ELSE images[c]
  <2>1. prep[u].verdict \in Verdict
    BY <1>1 DEF PrepOK
  <2>2. CASE Known(u)
    BY <1>1, <2>1, <2>2 DEF PutImage, Shapes
  <2>3. CASE ~Known(u)
    BY <1>1, <1>3, <2>3 DEF PutImage, Shapes, Known
  <2> QED
    BY <2>2, <2>3
<1>5. ImagesKept
  BY <1>2, <1>3, <1>4 DEF ImagesKept
<1>6. Image(u) \in Contents => metadata[Image(u)] # Absent /\ images'[Image(u)] # NoVerdict
  BY <1>1, <1>2, <1>3, <1>4 DEF PrepOK, Image
<1>7. ImagesOK'
  BY <1>1, <1>4, <1>6 DEF ImagesOK
<1>8. /\ prep[u].verdict \in Verdict
      /\ Image(u) # NoImage => prep[u].verdict.modality \in Modalities
      /\ req[u].via = "batch" => Image(u) \in Contents \cup {NoImage}
  BY <1>1 DEF PrepOK, Image
<1> QED
  BY <1>1, <1>4, <1>5, <1>6, <1>7, <1>8, FinishOK

LEMMA PrepareRaisedOK ==
  ASSUME IInv, NEW u \in Slots, PrepareRaised(u) PROVE IInv'
<1>1. /\ at[u] = "raised" /\ Finish(u, NoImage, NoVerdict) /\ UNCHANGED <<images, metadata>>
      /\ Shapes /\ ImagesOK
  BY DEF PrepareRaised, IInv, Finish, Forget
<1>2. NoImage \notin Contents /\ NoVerdict \in Verdict
  BY ContentsAssumption DEF NoImage, NoVerdict, Verdict, Errors
<1>3. images' \in [Contents -> Verdict] /\ ImagesKept /\ ImagesOK'
  BY <1>1 DEF Shapes, ImagesKept, ImagesOK
<1> QED
  BY <1>1, <1>2, <1>3, FinishOK

-----------------------------------------------------------------------------
(* A project comes, goes or is torn, and holds no file.                    *)
EmptiedProject ==
  \E p \in Projects, s \in {"live", "deleted", "torn"} :
    disk' = [disk EXCEPT ![p] = [state |-> s, files |-> <<>>]]

LEMMA EmptiedOK ==
  ASSUME Shapes, DiskOK, UNCHANGED metadata, EmptiedProject \/ UNCHANGED disk
  PROVE  /\ disk' \in [Projects -> [state : {"unborn", "live", "deleted", "torn"}, files : Seq(Entry)]]
         /\ DiskOK'
         /\ \A p \in Projects : disk'[p] = disk[p] \/ disk'[p].files = <<>>
<1> DEFINE noted(x) == x.image # NoImage =>
                         x.verdict.modality \in Modalities /\ metadata'[x.image] # Absent
<1>1. /\ disk' \in [Projects -> [state : {"unborn", "live", "deleted", "torn"}, files : Seq(Entry)]]
      /\ \A q \in Projects : disk'[q] = disk[q] \/ disk'[q].files = <<>>
  <2>1. CASE UNCHANGED disk
    BY <2>1 DEF Shapes
  <2>2. CASE EmptiedProject
    <3>1. PICK p \in Projects, s \in {"live", "deleted", "torn"} :
            disk' = [disk EXCEPT ![p] = [state |-> s, files |-> <<>>]]
      BY <2>2 DEF EmptiedProject
    <3>2. <<>> \in Seq(Entry)
      BY EmptySeq
    <3>3. [state |-> s, files |-> <<>>] \in
            [state : {"unborn", "live", "deleted", "torn"}, files : Seq(Entry)]
      BY <3>1, <3>2
    <3>4. disk' \in [Projects -> [state : {"unborn", "live", "deleted", "torn"}, files : Seq(Entry)]]
      BY <3>1, <3>3 DEF Shapes
    <3>5. \A q \in Projects : disk'[q] = disk[q] \/ disk'[q].files = <<>>
      BY <3>1 DEF Shapes
    <3> QED
      BY <3>4, <3>5
  <2> QED
    BY <2>1, <2>2
<1>2. \A q \in Projects : \A i \in DOMAIN disk[q].files : noted(disk[q].files[i])
  BY DEF DiskOK, EntryOK
<1> HIDE DEF noted
<1>3. \A q \in Projects : \A i \in DOMAIN disk'[q].files : noted(disk'[q].files[i])
  BY <1>1, <1>2, EmptySeq
<1>4. DiskOK'
  BY <1>3 DEF DiskOK, EntryOK, noted
<1> QED
  BY <1>1, <1>4

LEMMA ProjectsOK ==
  ASSUME IInv, EmptiedProject, UNCHANGED <<preparedVars, images, at, req, up>>
  PROVE  IInv'
<1>1. /\ Shapes /\ DiskOK /\ ImagesOK /\ ProjectImagesQueryable /\ \A w \in Slots : SlotOK(w)
      /\ FilesKept /\ UNCHANGED <<metadata, temp, prep>>
  BY DEF IInv, FilesKept, preparedVars
<1>2. /\ disk' \in [Projects -> [state : {"unborn", "live", "deleted", "torn"}, files : Seq(Entry)]]
      /\ DiskOK'
      /\ \A p \in Projects : disk'[p] = disk[p] \/ disk'[p].files = <<>>
  BY <1>1, EmptiedOK
<1>3. \A w \in Slots : SlotOK(w)'
  BY <1>1, OthersKept
<1>4. ProjectImagesQueryable'
  BY <1>1, <1>2, EmptySeq DEF ProjectImagesQueryable, Store!IsLive
<1> QED
  BY <1>1, <1>2, <1>3, <1>4 DEF IInv, Shapes, ImagesOK, OverSlots

LEMMA CrashOK ==
  ASSUME IInv, Crash PROVE IInv'
<1>1. /\ Shapes /\ DiskOK /\ ~up' /\ UNCHANGED <<metadata, temp>>
      /\ prep' = [t \in Slots |-> NoPrep] /\ at' = [u \in Slots |-> "idle"]
      /\ req' = [u \in Slots |-> NoReq] /\ images' = [c \in Contents |-> NoVerdict]
      /\ EmptiedProject \/ UNCHANGED disk
  BY DEF IInv, Crash, ThreadsLost, EmptiedProject, Store!DieSaving
<1>2. disk' \in [Projects -> [state : {"unborn", "live", "deleted", "torn"}, files : Seq(Entry)]] /\ DiskOK'
  BY <1>1, EmptiedOK
<1>3. \A u \in Slots : SlotOK(u)'
  BY <1>1 DEF SlotOK, ReqOK, PrepOK, NoReq, NoPrep, NoVerdict, Verdict, Errors
<1>4. ImagesOK' /\ ProjectImagesQueryable'
  BY <1>1 DEF ImagesOK, ProjectImagesQueryable
<1>5. Shapes'
  BY <1>1, <1>2 DEF Shapes, OverSlots, Places, NoVerdict, Verdict, Errors
<1> QED
  BY <1>2, <1>3, <1>4, <1>5 DEF IInv

(* What the projects say of an image is a verdict on it, and its metadata  *)
(* is there: a restart brings back what is shown, and nothing else.        *)
LEMMA RestartOK ==
  ASSUME IInv, Restart PROVE IInv'
<1>1. /\ Shapes /\ DiskOK /\ (\A w \in Slots : SlotOK(w)) /\ FilesKept
      /\ UNCHANGED <<metadata, temp, prep, disk, at, req>>
      /\ images' \in [Contents -> Verdict]
      /\ \A c \in Contents : images'[c] = NoVerdict \/ images'[c] \in Recorded(c)
      /\ \A c \in Contents : Recorded(c) # {} => images'[c] \in Recorded(c)
  BY DEF IInv, Restart, FilesKept, preparedVars, requestVars
<1>2. ASSUME NEW p \in Projects, NEW i \in DOMAIN disk[p].files, disk[p].files[i].image # NoImage
      PROVE  /\ disk[p].files[i].image \in Contents /\ disk[p].files[i].verdict \in Verdict
             /\ disk[p].files[i].verdict # NoVerdict /\ metadata[disk[p].files[i].image] # Absent
  <2>1. disk[p].files[i] \in Entry /\ EntryOK(disk[p].files[i])
    BY <1>1 DEF Shapes, DiskOK
  <2> QED
    BY <1>2, <2>1, ModalitiesAssumption DEF Entry, EntryOK, NoVerdict
<1>3. ASSUME NEW c \in Contents, NEW v \in Recorded(c) PROVE v # NoVerdict /\ metadata[c] # Absent
  <2>1. PICK p \in Projects : \E i \in DOMAIN disk[p].files :
          disk[p].files[i].image = c /\ disk[p].files[i].verdict = v
    BY DEF Recorded
  <2> QED
    BY <1>2, <2>1, ContentsAssumption DEF NoImage
<1>4. ImagesOK'
  BY <1>1, <1>3 DEF ImagesOK
<1>5. ProjectImagesQueryable'
  <2> SUFFICES ASSUME NEW p \in Projects, disk[p].state = "live", NEW i \in DOMAIN disk[p].files,
                      disk[p].files[i].image # NoImage
               PROVE  images'[disk[p].files[i].image] # NoVerdict
    BY <1>1 DEF ProjectImagesQueryable, Store!IsLive
  <2> DEFINE c == disk[p].files[i].image
  <2>1. c \in Contents /\ disk[p].files[i].verdict \in Recorded(c)
    BY <1>2 DEF Recorded, Store!IsLive
  <2> QED
    BY <1>1, <1>3, <2>1
<1>6. \A w \in Slots : SlotOK(w)'
  BY <1>1, OthersKept
<1>7. Shapes' /\ DiskOK'
  BY <1>1, DiskKept DEF Shapes, OverSlots
<1> QED
  BY <1>4, <1>5, <1>6, <1>7 DEF IInv

LEMMA InitOK ==
  Init => IInv
<1> SUFFICES ASSUME Init PROVE IInv
  OBVIOUS
<1>1. /\ metadata = [c \in Contents |-> Absent] /\ temp = [c \in Contents |-> Absent]
      /\ prep = [t \in Slots |-> NoPrep] /\ disk = [p \in Projects |-> Store!Unborn]
      /\ images = [c \in Contents |-> NoVerdict]
      /\ at = [u \in Slots |-> "idle"] /\ req = [u \in Slots |-> NoReq]
  BY DEF Init, PreparedInit, Store!ProjectsInit
<1>2. /\ \A p \in Projects : disk[p].files = <<>>
      /\ disk \in [Projects -> [state : {"unborn", "live", "deleted", "torn"}, files : Seq(Entry)]]
  BY <1>1, EmptySeq DEF Store!Unborn
<1>3. \A u \in Slots : SlotOK(u)
  BY <1>1 DEF SlotOK, ReqOK, PrepOK, NoReq, NoPrep, NoVerdict, Verdict, Errors
<1>4. DiskOK /\ ImagesOK /\ ProjectImagesQueryable
  BY <1>1, <1>2, EmptySeq DEF DiskOK, ImagesOK, ProjectImagesQueryable
<1>5. Shapes
  BY <1>1, <1>2, FilesDiffer DEF Shapes, OverSlots, Places, NoVerdict, Verdict, Errors
<1> QED
  BY <1>3, <1>4, <1>5 DEF IInv

LEMMA RequestOK ==
  ASSUME IInv, NEW u \in Slots, Request(u) \/ Work(u) PROVE IInv'
<1>1. CASE UploadLastChunk(u)
  BY <1>1, UploadLastChunkOK
<1>2. CASE UploadWhole(u)
  BY <1>2, UploadWholeOK
<1>3. CASE UploadBatch(u)
  BY <1>3, UploadBatchOK
<1>4. CASE ReadTooBig(u)
  BY <1>4, ReadTooBigOK
<1>5. CASE ReadFile(u)
  BY <1>5, ReadFileOK
<1>6. CASE Extracted(u)
  BY <1>6, ExtractedOK
<1>7. CASE Examine(u)
  BY <1>7, ExamineOK
<1>8. CASE ExamineNothing(u)
  BY <1>8, ExamineNothingOK
<1>9. CASE SaveMetadata(u)
  BY <1>9, SaveMetadataOK
<1>10. CASE RenameMetadata(u)
  BY <1>10, RenameMetadataOK
<1>11. CASE Prepared(u)
  BY <1>11, PreparedOK
<1>12. CASE PrepareRaised(u)
  BY <1>12, PrepareRaisedOK
<1> QED
  BY <1>1, <1>2, <1>3, <1>4, <1>5, <1>6, <1>7, <1>8, <1>9, <1>10, <1>11, <1>12
     DEF Request, Work

LEMMA NextOK ==
  IInv /\ [Next]_vars => IInv'
<1> SUFFICES ASSUME IInv, [Next]_vars PROVE IInv'
  OBVIOUS
<1>1. CASE \E u \in Slots : Request(u) \/ Work(u)
  BY <1>1, RequestOK
<1>2. CASE UNCHANGED <<preparedVars, disk, images, at, req, up>>
  BY <1>2 DEF IInv, Shapes, SlotOK, ReqOK, PrepOK, DiskOK, EntryOK, ImagesOK, OverSlots,
     ProjectImagesQueryable, Store!IsLive, preparedVars, Current
<1>3. CASE UploadChunk
  BY <1>2, <1>3 DEF UploadChunk, requestVars
<1>4. CASE CreateProject
  BY <1>4, ProjectsOK DEF CreateProject, requestVars, Store!Create, EmptiedProject
<1>5. CASE DeleteProject
  BY <1>5, ProjectsOK DEF DeleteProject, Store!Delete, EmptiedProject
<1>6. CASE Crash
  BY <1>6, CrashOK
<1>7. CASE Restart
  BY <1>7, RestartOK
<1>8. CASE UNCHANGED vars
  BY <1>2, <1>8 DEF vars, requestVars
<1> QED
  BY <1>1, <1>3, <1>4, <1>5, <1>6, <1>7, <1>8 DEF Next

-----------------------------------------------------------------------------
(* IInv is an invariant: what requests, threads, projects and images agree *)
(* on at every step, crashes and restarts included.                        *)
THEOREM InvariantHolds == Spec => []IInv
BY InitOK, NextOK, PTL DEF Spec

(* Every image a project shows can be asked about whenever the process     *)
(* runs (main.py:616-626).                                                 *)
THEOREM QueryableSafe == Spec => []ProjectImagesQueryable
<1>1. IInv => ProjectImagesQueryable
  BY DEF IInv
<1> QED
  BY <1>1, InvariantHolds, PTL

-----------------------------------------------------------------------------
(* Whose the files of an image are. A thread that none has come beside has *)
(* them to itself: the temporary file is the one it opened, then the one   *)
(* it wrote. Only a thread between opening and closing holds a file.       *)
WriterOK(u) ==
  /\ handle[u] # "closed" => at[u] = "dump"
  /\ at[u] \in {"dump", "rename"} => prep[u].image \in Contents
  /\ at[u] \in {"dump", "rename"} /\ u \notin mingled =>
       /\ \A w \in Slots : at[w] \in {"dump", "rename"} /\ prep[w].image = prep[u].image => w = u
       /\ at[u] = "dump" => handle[u] = "temp" /\ temp[prep[u].image] = Blank
       /\ at[u] = "rename" => temp[prep[u].image] = Whole(prep[u].verdict)

(* What such a thread has renamed is whole, and nobody writes to it.       *)
MetadataOK(c) ==
  c \notin doubtful =>
    /\ metadata[c] = Absent \/ metadata[c].what = "whole"
    /\ \A w \in Slots : prep[w].image = c => handle[w] # "final"

FilesInv ==
  /\ OverSlots(handle)
  /\ \A u \in Slots : WriterOK(u)
  /\ \A c \in Contents : MetadataOK(c)

LEMMA WholeIsWhole ==
  ASSUME NEW v PROVE Whole(v).what = "whole" /\ Whole(v) # Absent /\ Blank # Whole(v)
BY DEF Whole, Absent, Blank

(* A step of u that is not its thread's, before or after the files.        *)
LEMMA AsideKeeps ==
  ASSUME FilesInv, NEW u \in Slots, UNCHANGED <<metadata, temp, handle, mingled, doubtful>>,
         at[u] \notin {"dump", "rename"}, at'[u] \notin {"dump", "rename"},
         prep'[u] = prep[u] \/ prep'[u] = NoPrep,
         \A w \in Slots \ {u} : at'[w] = at[w] /\ prep'[w] = prep[w]
  PROVE  FilesInv'
<1>1. handle[u] = "closed"
  BY DEF FilesInv, WriterOK
<1>2. ASSUME NEW w \in Slots PROVE WriterOK(w)'
  <2>1. CASE w = u
    BY <1>1, <2>1 DEF WriterOK
  <2>2. CASE w # u
    BY <2>2 DEF FilesInv, WriterOK
  <2> QED BY <2>1, <2>2
<1>3. ASSUME NEW c \in Contents PROVE MetadataOK(c)'
  BY <1>1 DEF FilesInv, MetadataOK
<1> QED BY <1>2, <1>3 DEF FilesInv, OverSlots

LEMMA ExamineFiles ==
  ASSUME IInv, FilesInv, NEW u \in Slots, Examine(u) PROVE FilesInv'
<1>1. PICK c, v : c = Content(u) /\ OpenTemp(u, c, v)
  BY DEF Examine
<1>2. /\ at[u] = "prepare" /\ at' = [at EXCEPT ![u] = "dump"] /\ c \in Contents
      /\ mingled' = IF Writers(c) = {} THEN mingled ELSE mingled \cup Writers(c) \cup {u}
      /\ prep' = [prep EXCEPT ![u] = [image |-> c, verdict |-> v]]
      /\ temp' = [temp EXCEPT ![c] = Blank] /\ handle' = [handle EXCEPT ![u] = "temp"]
      /\ metadata' = metadata /\ doubtful' = doubtful
  BY <1>1 DEF Examine, Goto, OpenTemp
<1>3. /\ at'[u] = "dump" /\ prep'[u].image = c /\ handle'[u] = "temp" /\ temp'[c] = Blank
      /\ \A w \in Slots \ {u} : at'[w] = at[w] /\ prep'[w] = prep[w] /\ handle'[w] = handle[w]
      /\ \A d \in Contents \ {c} : temp'[d] = temp[d]
      /\ OverSlots(handle)'
  BY <1>2 DEF IInv, Shapes, FilesInv, OverSlots
<1>4. \A w \in Slots : w \in Writers(c) <=> at[w] \in {"dump", "rename"} /\ prep[w].image = c
  BY DEF Writers, Image
<1>5. WriterOK(u)'
  <2>1. u \notin mingled' => \A w \in Slots \ {u} : ~(at[w] \in {"dump", "rename"} /\ prep[w].image = c)
    BY <1>2, <1>4
  <2> QED BY <1>2, <1>3, <2>1 DEF WriterOK
<1>6. ASSUME NEW w \in Slots \ {u} PROVE WriterOK(w)'
  <2>1. CASE at[w] \in {"dump", "rename"} /\ prep[w].image = c
    <3>1. w \in mingled'
      BY <1>2, <1>4, <2>1
    <3> QED BY <1>3, <3>1 DEF FilesInv, WriterOK
  <2>2. CASE ~(at[w] \in {"dump", "rename"} /\ prep[w].image = c)
    <3>1. w \notin mingled' => w \notin mingled
      BY <1>2
    <3> QED BY <1>3, <2>2, <3>1 DEF FilesInv, WriterOK
  <2> QED BY <2>1, <2>2
<1>7. ASSUME NEW d \in Contents PROVE MetadataOK(d)'
  BY <1>2, <1>3 DEF FilesInv, MetadataOK
<1> QED BY <1>3, <1>5, <1>6, <1>7 DEF FilesInv

LEMMA DumpFiles ==
  ASSUME IInv, FilesInv, NEW u \in Slots, SaveMetadata(u) PROVE FilesInv'
<1>1. PICK c, h, v : c = prep[u].image /\ h = handle[u] /\ v = prep[u].verdict
  OBVIOUS
<1>2. /\ at[u] = "dump" /\ at' = [at EXCEPT ![u] = "rename"] /\ UNCHANGED <<prep, mingled, doubtful>>
      /\ handle' = [handle EXCEPT ![u] = "closed"]
      /\ \E file \in Written(IF h = "final" THEN metadata[c] ELSE temp[c], v) :
           /\ temp' = IF h = "temp" THEN [temp EXCEPT ![c] = file] ELSE temp
           /\ metadata' = IF h = "final" THEN [metadata EXCEPT ![c] = file] ELSE metadata
  BY <1>1 DEF SaveMetadata, Goto, Dump, Image, historyVars
<1>3. /\ c \in Contents /\ at'[u] = "rename" /\ handle'[u] = "closed"
      /\ \A w \in Slots \ {u} : at'[w] = at[w] /\ handle'[w] = handle[w]
      /\ \A d \in Contents \ {c} : temp'[d] = temp[d] /\ metadata'[d] = metadata[d]
      /\ OverSlots(handle)'
  BY <1>1, <1>2 DEF IInv, Shapes, FilesInv, WriterOK, OverSlots
<1>4. WriterOK(u)'
  <2>1. u \notin mingled => h = "temp" /\ temp[c] = Blank
    BY <1>1, <1>2 DEF FilesInv, WriterOK
  <2>2. u \notin mingled => temp'[c] = Whole(v)
    BY <1>2, <1>3, <2>1 DEF Written, IInv, Shapes
  <2> QED BY <1>1, <1>2, <1>3, <2>2 DEF FilesInv, WriterOK
<1>5. ASSUME NEW w \in Slots \ {u} PROVE WriterOK(w)'
  <2>1. CASE at[w] \in {"dump", "rename"} /\ prep[w].image = c
    <3>1. w \in mingled
      BY <1>1, <1>2, <2>1 DEF FilesInv, WriterOK
    <3> QED BY <1>2, <1>3, <3>1 DEF FilesInv, WriterOK
  <2>2. CASE ~(at[w] \in {"dump", "rename"} /\ prep[w].image = c)
    BY <1>1, <1>2, <1>3, <2>2 DEF FilesInv, WriterOK
  <2> QED BY <2>1, <2>2
<1>6. ASSUME NEW d \in Contents PROVE MetadataOK(d)'
  <2>1. CASE d # c
    BY <1>2, <1>3, <2>1 DEF FilesInv, MetadataOK
  <2>2. CASE d = c /\ c \notin doubtful
    <3>1. h # "final"
      BY <1>1, <1>3, <2>2 DEF FilesInv, MetadataOK
    <3> QED BY <1>2, <1>3, <2>2, <3>1 DEF FilesInv, MetadataOK
  <2>3. CASE d = c /\ c \in doubtful
    BY <1>2, <2>3 DEF MetadataOK
  <2> QED BY <2>1, <2>2, <2>3
<1> QED BY <1>3, <1>4, <1>5, <1>6 DEF FilesInv

LEMMA ReplaceFiles ==
  ASSUME IInv, FilesInv, NEW u \in Slots, RenameMetadata(u), Replace(u) PROVE FilesInv'
<1>1. PICK c : c = prep[u].image
  OBVIOUS
<1>2. /\ at[u] = "rename" /\ at' = [at EXCEPT ![u] = "prepared"] /\ prep' = prep
      /\ mingled' = mingled \ {u}
      /\ doubtful' = IF u \in mingled THEN doubtful \cup {c} ELSE doubtful \ {c}
      /\ metadata' = [metadata EXCEPT ![c] = temp[c]] /\ temp' = [temp EXCEPT ![c] = Absent]
      /\ handle' = [w \in Slots |-> CASE prep[w].image = c /\ handle[w] = "temp"  -> "final"
                                     [] prep[w].image = c /\ handle[w] = "final" -> "unlinked"
                                     [] OTHER -> handle[w]]
  BY <1>1 DEF RenameMetadata, Replace, ReplaceRaises, Goto, Image
<1>3. /\ c \in Contents /\ at'[u] = "prepared" /\ metadata'[c] = temp[c]
      /\ \A w \in Slots \ {u} : at'[w] = at[w]
      /\ \A d \in Contents \ {c} : temp'[d] = temp[d] /\ metadata'[d] = metadata[d]
      /\ \A w \in Slots : /\ handle[w] = "closed" => handle'[w] = "closed"
                          /\ prep[w].image # c => handle'[w] = handle[w]
      /\ handle[u] = "closed" /\ OverSlots(handle)'
  BY <1>1, <1>2 DEF IInv, Shapes, FilesInv, WriterOK, OverSlots
<1>4. WriterOK(u)'
  BY <1>3 DEF WriterOK
<1>5. ASSUME NEW w \in Slots \ {u} PROVE WriterOK(w)'
  <2>1. CASE at[w] \in {"dump", "rename"} /\ prep[w].image = c
    <3>1. w \in mingled
      BY <1>1, <1>2, <2>1 DEF FilesInv, WriterOK
    <3> QED BY <1>2, <1>3, <3>1 DEF FilesInv, WriterOK
  <2>2. CASE ~(at[w] \in {"dump", "rename"} /\ prep[w].image = c)
    BY <1>2, <1>3, <2>2 DEF FilesInv, WriterOK
  <2> QED BY <2>1, <2>2
<1>6. ASSUME NEW d \in Contents PROVE MetadataOK(d)'
  <2>1. CASE d # c
    BY <1>2, <1>3, <2>1 DEF FilesInv, MetadataOK
  <2>2. CASE d = c /\ u \notin mingled
    <3>1. /\ temp[c] = Whole(prep[u].verdict)
          /\ \A w \in Slots : prep[w].image = c => handle[w] = "closed"
      BY <1>1, <1>2, <1>3, <2>2 DEF FilesInv, WriterOK
    <3> QED BY <1>2, <1>3, <2>2, <3>1, WholeIsWhole DEF MetadataOK
  <2>3. CASE d = c /\ u \in mingled
    BY <1>2, <2>3 DEF MetadataOK
  <2> QED BY <2>1, <2>2, <2>3
<1> QED BY <1>3, <1>4, <1>5, <1>6 DEF FilesInv

LEMMA RaisesFiles ==
  ASSUME IInv, FilesInv, NEW u \in Slots, RenameMetadata(u), ReplaceRaises(u) PROVE FilesInv'
<1>1. /\ at[u] = "rename" /\ at' = [at EXCEPT ![u] = at'[u]] /\ at'[u] \in {"prepared", "raised"}
      /\ mingled' = mingled \ {u} /\ UNCHANGED <<metadata, temp, prep, handle>>
      /\ doubtful' = doubtful
  BY DEF RenameMetadata, Replace, ReplaceRaises, Goto, preparedVars, IInv, Shapes
<1>2. handle[u] = "closed" /\ \A w \in Slots \ {u} : at'[w] = at[w]
  BY <1>1 DEF FilesInv, WriterOK, IInv, Shapes
<1>3. WriterOK(u)'
  BY <1>1, <1>2 DEF WriterOK
<1>4. ASSUME NEW w \in Slots \ {u} PROVE WriterOK(w)'
  BY <1>1, <1>2 DEF FilesInv, WriterOK
<1>5. ASSUME NEW d \in Contents PROVE MetadataOK(d)'
  BY <1>1 DEF FilesInv, MetadataOK
<1> QED BY <1>1, <1>3, <1>4, <1>5 DEF FilesInv, OverSlots

(* What the other steps of a request leave alone.                          *)
LEMMA AsideSteps ==
  ASSUME IInv, NEW u \in Slots, Request(u) \/ Work(u),
         ~Examine(u), ~SaveMetadata(u), ~RenameMetadata(u)
  PROVE  /\ UNCHANGED <<metadata, temp, handle, mingled, doubtful>>
         /\ at[u] \notin {"dump", "rename"} /\ at'[u] \notin {"dump", "rename"}
         /\ prep'[u] = prep[u] \/ prep'[u] = NoPrep
         /\ \A w \in Slots \ {u} : at'[w] = at[w] /\ prep'[w] = prep[w]
<1>1. ASSUME NEW image, NEW v, RecordFile(u, image, v) \/ Respond(u)
      PROVE  /\ at'[u] \notin {"dump", "rename"} /\ \A w \in Slots \ {u} : at'[w] = at[w]
  BY <1>1 DEF RecordFile, Respond, NextFile, Goto, IInv, Shapes
<1>2. CASE UploadLastChunk(u) \/ UploadWhole(u) \/ UploadBatch(u)
  BY <1>2 DEF UploadLastChunk, UploadWhole, UploadBatch, Accept, Goto, IInv, Shapes,
     preparedVars, historyVars
<1>3. CASE ReadTooBig(u) \/ Extracted(u)
  BY <1>1, <1>3 DEF ReadTooBig, Extracted, preparedVars, historyVars
<1>4. CASE ReadFile(u)
  <2>1. \/ \E place \in {"prepare", "extract"} : Goto(u, place)
        \/ RecordFile(u, NoImage, NoVerdict)
    BY <1>4 DEF ReadFile
  <2> QED BY <1>1, <1>4, <2>1 DEF ReadFile, Goto, IInv, Shapes, preparedVars, historyVars
<1>5. CASE ExamineNothing(u)
  BY <1>5 DEF ExamineNothing, Goto, IInv, Shapes, preparedVars, historyVars
<1>6. ASSUME NEW image, NEW v, Finish(u, image, v), at[u] \in {"prepared", "raised"}
      PROVE  /\ UNCHANGED <<metadata, temp, handle, mingled, doubtful>>
             /\ at[u] \notin {"dump", "rename"} /\ at'[u] \notin {"dump", "rename"}
             /\ prep'[u] = NoPrep
             /\ \A w \in Slots \ {u} : at'[w] = at[w] /\ prep'[w] = prep[w]
  <2>1. /\ RecordFile(u, image, v) \/ Respond(u)
        /\ prep' = [prep EXCEPT ![u] = NoPrep] /\ UNCHANGED <<metadata, temp, handle, mingled, doubtful>>
    BY <1>6 DEF Finish, Forget, historyVars
  <2> QED BY <1>1, <1>6, <2>1 DEF IInv, Shapes, OverSlots
<1>7. CASE Prepared(u) \/ PrepareRaised(u)
  BY <1>6, <1>7 DEF Prepared, PrepareRaised
<1> QED BY <1>2, <1>3, <1>4, <1>5, <1>7 DEF Request, Work

LEMMA FilesNext ==
  ASSUME IInv, FilesInv, [Next]_vars PROVE FilesInv'
<1>1. CASE UNCHANGED <<metadata, temp, handle, mingled, doubtful, at, prep>>
  BY <1>1 DEF FilesInv, WriterOK, MetadataOK, OverSlots
<1>2. ASSUME NEW u \in Slots, Request(u) \/ Work(u) PROVE FilesInv'
  <2>1. CASE RenameMetadata(u)
    BY <2>1, ReplaceFiles, RaisesFiles DEF RenameMetadata
  <2>2. CASE Examine(u)
    BY <2>2, ExamineFiles
  <2>3. CASE SaveMetadata(u)
    BY <2>3, DumpFiles
  <2>4. CASE ~Examine(u) /\ ~SaveMetadata(u) /\ ~RenameMetadata(u)
    BY <1>2, <2>4, AsideSteps, AsideKeeps
  <2> QED BY <2>1, <2>2, <2>3, <2>4
<1>3. CASE Crash
  <2>1. /\ prep' = [t \in Slots |-> NoPrep] /\ handle' = [t \in Slots |-> "closed"]
        /\ at' = [u \in Slots |-> "idle"] /\ metadata' = metadata /\ doubtful' = doubtful
    BY <1>3 DEF Crash, ThreadsLost
  <2>2. \A u \in Slots : at'[u] = "idle" /\ handle'[u] = "closed"
    BY <2>1
  <2>3. OverSlots(handle)' /\ (\A u \in Slots : WriterOK(u)')
    BY <2>1, <2>2 DEF OverSlots, WriterOK
  <2>4. \A c \in Contents : MetadataOK(c)'
    BY <2>1, <2>2 DEF FilesInv, MetadataOK
  <2> QED BY <2>3, <2>4 DEF FilesInv
<1>4. CASE UploadChunk \/ CreateProject \/ DeleteProject \/ Restart \/ UNCHANGED vars
  BY <1>1, <1>4 DEF UploadChunk, CreateProject, DeleteProject, Restart, vars, preparedVars,
     requestVars, historyVars
<1> QED BY <1>2, <1>3, <1>4 DEF Next

LEMMA FilesInit ==
  Init => FilesInv
<1> SUFFICES ASSUME Init PROVE FilesInv
  OBVIOUS
<1>1. /\ handle = [t \in Slots |-> "closed"] /\ at = [u \in Slots |-> "idle"]
      /\ metadata = [c \in Contents |-> Absent]
  BY DEF Init, PreparedInit
<1> QED BY <1>1 DEF FilesInv, WriterOK, MetadataOK, OverSlots

(* A known image has a metadata.json, and a whole one unless two threads   *)
(* wrote it at once, whichever of the threads that prepare the same        *)
(* content renames the file they share, and whatever a crash cuts short    *)
(* (preprocessing/store.py:72-79).                                         *)
THEOREM MetadataSafe == Spec => []MetadataOfKnownImages
<1>1. IInv /\ FilesInv => MetadataOfKnownImages
  BY DEF IInv, SlotOK, PrepOK, ImagesOK, FilesInv, MetadataOK, MetadataOfKnownImages, Image
<1>2. IInv /\ FilesInv /\ [Next]_vars => FilesInv'
  BY FilesNext
<1> QED
  BY <1>1, <1>2, FilesInit, InvariantHolds, PTL DEF Spec

-----------------------------------------------------------------------------
(* What a step may do to a project, see ProjectsOnlyGrow.                  *)
GrowsOnly ==
  \A p \in Projects :
    /\ Store!IsLive(p) =>
         \/ disk'[p].state = "live" /\ Store!IsPrefix(disk[p].files, disk'[p].files)
         \/ disk'[p].state \in {"deleted", "torn"}
    /\ disk[p].state \in {"deleted", "torn"} => disk'[p] = disk[p]

LEMMA UnchangedGrows ==
  ASSUME Shapes, NEW p \in Projects, disk'[p] = disk[p]
  PROVE  Store!IsLive(p) =>
           disk'[p].state = "live" /\ Store!IsPrefix(disk[p].files, disk'[p].files)
<1>1. disk[p].files \in Seq(Entry)
  BY DEF Shapes
<1>2. /\ SubSeq(disk[p].files, 1, Len(disk[p].files)) = disk[p].files
      /\ Len(disk[p].files) \in Nat
  BY <1>1, SubSeqFull, LenProperties
<1> QED
  BY <1>2 DEF Store!IsPrefix, Store!IsLive

LEMMA RecordGrows ==
  ASSUME IInv, NEW u \in Slots, ReqOK(u), req[u].via = "batch",
         NEW image \in Contents \cup {NoImage}, NEW v \in Verdict, RecordFile(u, image, v)
  PROVE  GrowsOnly
<1> DEFINE e == [kind |-> Current(u).kind, image |-> image, verdict |-> v]
           p == req[u].target
<1>1. CASE UNCHANGED disk
  BY <1>1, UnchangedGrows DEF GrowsOnly, IInv
<1>2. CASE Store!AddFile(p, e)
  <2>1. p \in Projects /\ e \in Entry
    <3>1. /\ p \in Projects /\ req[u].files \in Seq(File) /\ req[u].next \in DOMAIN req[u].files
      BY DEF ReqOK
    <3>2. Current(u) \in File
      BY <3>1 DEF Current
    <3> QED
      BY <3>1, <3>2 DEF File, Entry
  <2> HIDE DEF e, p
  <2>2. /\ disk[p].state = "live" /\ disk'[p].state = "live"
        /\ Store!IsPrefix(disk[p].files, disk'[p].files)
        /\ \A q \in Projects \ {p} : disk'[q] = disk[q]
    BY <1>2, <2>1, AddFileEffect DEF IInv
  <2> QED
    BY <2>1, <2>2, UnchangedGrows DEF GrowsOnly, IInv
<1> QED
  BY <1>1, <1>2 DEF RecordFile

LEMMA NextGrows ==
  ASSUME IInv, Next PROVE GrowsOnly
<1>1. CASE UNCHANGED disk
  BY <1>1, UnchangedGrows DEF GrowsOnly, IInv
<1>2. ASSUME NEW u \in Slots, ReadFile(u) \/ Extracted(u) PROVE GrowsOnly
  <2>1. /\ req[u].via = "batch" /\ ReqOK(u) /\ NoVerdict \in Verdict
    BY <1>2 DEF ReadFile, Extracted, IInv, SlotOK, ReqOK, NoVerdict, Verdict, Errors
  <2>2. UNCHANGED disk \/ RecordFile(u, NoImage, NoVerdict)
    BY <1>2 DEF ReadFile, Extracted
  <2> QED
    BY <1>1, <2>1, <2>2, RecordGrows
<1>3. ASSUME NEW u \in Slots, NEW image, NEW v \in Verdict, Finish(u, image, v),
             req[u].via = "batch" => image \in Contents \cup {NoImage}
      PROVE  GrowsOnly
  BY <1>1, <1>3, RecordGrows DEF Finish, IInv, SlotOK
<1>4. ASSUME NEW u \in Slots, Prepared(u) PROVE GrowsOnly
  BY <1>3, <1>4 DEF Prepared, IInv, SlotOK, PrepOK, Image
<1>5. ASSUME NEW u \in Slots, PrepareRaised(u) PROVE GrowsOnly
  BY <1>3, <1>5 DEF PrepareRaised, NoVerdict, Verdict, Errors
<1>6. ASSUME NEW p \in Projects, Store!Create(p) \/ Store!Delete(p) \/ Store!DieSaving(p)
      PROVE  GrowsOnly
  <2>1. \A q \in Projects \ {p} : disk'[q] = disk[q]
    BY <1>6 DEF Store!Create, Store!Delete, Store!DieSaving, IInv, Shapes
  <2>2. /\ disk[p].state \in {"unborn", "live"}
        /\ disk[p].state = "live" => disk'[p].state \in {"deleted", "torn"}
    BY <1>6 DEF Store!Create, Store!Delete, Store!DieSaving, Store!IsLive, IInv, Shapes
  <2> QED
    BY <2>1, <2>2, UnchangedGrows DEF GrowsOnly, IInv, Store!IsLive
<1>7. ASSUME NEW u \in Slots, Request(u) \/ Work(u) PROVE GrowsOnly
  BY <1>1, <1>2, <1>4, <1>5, <1>7
     DEF Request, Work, UploadLastChunk, UploadWhole, UploadBatch, ReadTooBig, Examine,
         ExamineNothing, SaveMetadata, RenameMetadata
<1> QED
  BY <1>1, <1>6, <1>7 DEF Next, UploadChunk, CreateProject, DeleteProject, Crash, Restart

(* Who ends a project, see ProjectsOnlyGrow.                               *)
EndedRightly ==
  \A p \in Projects : disk'[p] # disk[p] =>
    /\ disk'[p].state = "torn" => up /\ ~up'
    /\ disk'[p].state = "deleted" => p \notin folders'

LEMMA RecordEnds ==
  ASSUME IInv, NEW u \in Slots, ReqOK(u), req[u].via = "batch", NEW image, NEW v,
         RecordFile(u, image, v)
  PROVE  EndedRightly
<1>1. CASE UNCHANGED disk
  BY <1>1 DEF EndedRightly
<1>2. CASE Store!AddFile(req[u].target, [kind |-> Current(u).kind, image |-> image, verdict |-> v])
  <2>1. /\ req[u].target \in Projects /\ disk[req[u].target].state = "live"
        /\ disk'[req[u].target].state = "live"
        /\ \A q \in Projects \ {req[u].target} : disk'[q] = disk[q]
    BY <1>2 DEF Store!AddFile, Store!IsLive, ReqOK, IInv, Shapes
  <2> QED BY <2>1 DEF EndedRightly
<1> QED BY <1>1, <1>2 DEF RecordFile

LEMMA NextEnds ==
  ASSUME IInv, Next PROVE EndedRightly
<1>1. CASE UNCHANGED disk
  BY <1>1 DEF EndedRightly
<1>2. ASSUME NEW u \in Slots, ReadFile(u) \/ Extracted(u) PROVE EndedRightly
  <2>1. req[u].via = "batch" /\ ReqOK(u)
    BY <1>2 DEF ReadFile, Extracted, IInv, SlotOK, ReqOK
  <2>2. UNCHANGED disk \/ RecordFile(u, NoImage, NoVerdict)
    BY <1>2 DEF ReadFile, Extracted
  <2> QED BY <1>1, <2>1, <2>2, RecordEnds
<1>3. ASSUME NEW u \in Slots, NEW image, NEW v, Finish(u, image, v) PROVE EndedRightly
  BY <1>1, <1>3, RecordEnds DEF Finish, IInv, SlotOK
<1>4. ASSUME NEW u \in Slots, Prepared(u) \/ PrepareRaised(u) PROVE EndedRightly
  BY <1>3, <1>4 DEF Prepared, PrepareRaised
<1>5. ASSUME NEW u \in Slots, Request(u) \/ Work(u) PROVE EndedRightly
  BY <1>1, <1>2, <1>4, <1>5
     DEF Request, Work, UploadLastChunk, UploadWhole, UploadBatch, ReadTooBig, Examine,
         ExamineNothing, SaveMetadata, RenameMetadata
<1>6. CASE CreateProject
  <2>1. PICK p \in Projects : Store!Create(p)
    BY <1>6 DEF CreateProject
  <2> QED BY <2>1 DEF Store!Create, EndedRightly, IInv, Shapes
<1>7. CASE DeleteProject
  <2>1. PICK p \in Projects : Store!Delete(p) /\ folders' = folders \ {p}
    BY <1>7 DEF DeleteProject
  <2> QED BY <2>1 DEF Store!Delete, EndedRightly, IInv, Shapes
<1>8. CASE Crash
  <2>1. up /\ ~up' /\ (UNCHANGED disk \/ \E p \in Projects : Store!DieSaving(p))
    BY <1>8 DEF Crash
  <2>2. ASSUME NEW p \in Projects, Store!DieSaving(p) PROVE EndedRightly
    BY <2>1, <2>2 DEF Store!DieSaving, EndedRightly, IInv, Shapes
  <2> QED BY <1>1, <2>1, <2>2
<1> QED
  BY <1>1, <1>5, <1>6, <1>7, <1>8 DEF Next, UploadChunk, Restart

(* No upload loses or moves another's file, a deleted project stays        *)
(* deleted, and only a crash tears one (projects/store.py:70-96).          *)
THEOREM ProjectsGrow == Spec => ProjectsOnlyGrow
<1>1. IInv /\ [Next]_vars => [GrowsOnly]_disk
  BY NextGrows DEF vars
<1>2. IInv /\ [Next]_vars => [EndedRightly]_vars
  BY NextEnds
<1> QED
  BY <1>1, <1>2, InvariantHolds, PTL
     DEF Spec, ProjectsOnlyGrow, Store!ProjectsOnlyGrow, GrowsOnly, EndedRightly

-----------------------------------------------------------------------------
(* The lemmas about sums. What they say of the ladder is not used.         *)
Facts == INSTANCE OperatorProofs WITH
  Models <- {}, Quantization <- <<>>, CrossModels <- {}, Images <- {}, Requests <- {}

LEMMA SameSums ==
  ASSUME NEW f
  PROVE  SumFunction(f) = Facts!SumFunctionOnSet(f, DOMAIN f)
BY DEF SumFunction, SumFunctionOnSet, FoldFunctionOnSet, MapThenFoldSet,
       Facts!SumFunctionOnSet, Facts!FoldFunctionOnSet, Facts!MapThenFoldSet

(* An open session has on disk what it was told and knows how long each    *)
(* chunk of it is. Other files may lie there, of a session lost.           *)
OpenSession(id) ==
  /\ sessions[id] = [total |-> sessions[id].total, sizes |-> sessions[id].sizes]
  /\ sessions[id].total \in 2..MaxTotal
  /\ DOMAIN sessions[id].sizes \subseteq 0..sessions[id].total-1
  /\ DOMAIN told[id] = DOMAIN sessions[id].sizes
  /\ \A i \in DOMAIN told[id] :
       /\ told[id][i] \in Chunks
       /\ chunkFiles[id][i] = told[id][i]
       /\ sessions[id].sizes[i] = Size[told[id][i]]

SessionOK(id) == (sessions[id] = NoSession /\ told[id] = Nothing) \/ OpenSession(id)

SessionShapes ==
  /\ sessions = [id \in UploadIds |-> sessions[id]]
  /\ told = [id \in UploadIds |-> told[id]]
  /\ assembled = [name \in AssembledFiles |-> assembled[name]]
  /\ chunkFiles = [id \in UploadIds |-> [i \in Indices |-> chunkFiles[id][i]]]

SessionInv == SessionShapes /\ \A id \in UploadIds : SessionOK(id)

(* What a request finds: an open session, or one it has just opened.       *)
Found(id, s, t) ==
  /\ s = [total |-> s.total, sizes |-> s.sizes]
  /\ s.total \in 2..MaxTotal
  /\ DOMAIN s.sizes \subseteq 0..s.total-1
  /\ DOMAIN t = DOMAIN s.sizes
  /\ \A i \in DOMAIN t :
       /\ t[i] \in Chunks /\ chunkFiles[id][i] = t[i] /\ s.sizes[i] = Size[t[i]]

LEMMA SessionFound ==
  ASSUME SessionInv, NEW id \in UploadIds, NEW total \in 2..MaxTotal
  PROVE  Found(id, Session(id, total), told[id])
<1>1. CASE IsOpen(id)
  <2>1. OpenSession(id)
    BY <1>1 DEF SessionInv, SessionOK, IsOpen, NoSession
  <2> QED BY <1>1, <2>1 DEF OpenSession, Found, Session
<1>2. CASE ~IsOpen(id)
  <2>1. ~OpenSession(id)
    BY <1>2, MaxTotalAssumption DEF OpenSession, IsOpen
  <2>2. told[id] = Nothing
    BY <2>1 DEF SessionInv, SessionOK
  <2>3. Session(id, total) = [total |-> total, sizes |-> Nothing]
    BY <1>2 DEF Session
  <2> QED BY <2>2, <2>3 DEF Found, Nothing
<1> QED BY <1>1, <1>2

(* With the chunk put to it, sizes, files and history still agree.         *)
Stored(id, s, t, i, data) ==
  /\ chunkFiles' = [k \in UploadIds |-> [j \in Indices |-> chunkFiles'[k][j]]]
  /\ \A k \in UploadIds \ {id} : chunkFiles'[k] = chunkFiles[k]
  /\ DOMAIN Put(t, i, data) = DOMAIN t \cup {i}
  /\ DOMAIN SizesWith(s, i, data) = DOMAIN t \cup {i}
  /\ \A j \in DOMAIN t \cup {i} :
       /\ Put(t, i, data)[j] \in Chunks
       /\ chunkFiles'[id][j] = Put(t, i, data)[j]
       /\ SizesWith(s, i, data)[j] = Size[Put(t, i, data)[j]]

LEMMA ChunkStored ==
  ASSUME SessionShapes, NEW id \in UploadIds, NEW s, NEW t, Found(id, s, t),
         NEW i \in 0..s.total-1, NEW data \in Chunks,
         chunkFiles' = [chunkFiles EXCEPT ![id][i] = data]
  PROVE  Stored(id, s, t, i, data)
<1>1. i \in Indices /\ DOMAIN s.sizes = DOMAIN t /\ DOMAIN t \subseteq Indices
  BY MaxTotalAssumption DEF Found, Indices
<1>2. /\ chunkFiles'[id] = [chunkFiles[id] EXCEPT ![i] = data]
      /\ chunkFiles' = [k \in UploadIds |-> IF k = id THEN [chunkFiles[id] EXCEPT ![i] = data] ELSE chunkFiles[k]]
  BY DEF SessionShapes
<1>3. chunkFiles[id] = [j \in Indices |-> chunkFiles[id][j]]
  BY DEF SessionShapes
<1>4. \A k \in UploadIds \ {id} : chunkFiles'[k] = chunkFiles[k] /\ chunkFiles[k] = [j \in Indices |-> chunkFiles[k][j]]
  BY <1>2 DEF SessionShapes
<1>5. \A j \in Indices : chunkFiles'[id][j] = IF j = i THEN data ELSE chunkFiles[id][j]
  BY <1>2, <1>3
<1>6. chunkFiles' = [k \in UploadIds |-> [j \in Indices |-> chunkFiles'[k][j]]]
  <2>1. chunkFiles'[id] = [j \in Indices |-> chunkFiles'[id][j]]
    BY <1>2, <1>3
  <2>2. \A k \in UploadIds : chunkFiles'[k] = [j \in Indices |-> chunkFiles'[k][j]]
    BY <1>4, <2>1
  <2> QED BY <1>2, <2>2
<1>7. /\ DOMAIN Put(t, i, data) = DOMAIN t \cup {i}
      /\ \A j \in DOMAIN t \cup {i} : Put(t, i, data)[j] = IF j = i THEN data ELSE t[j]
  BY DEF Put
<1>8. /\ DOMAIN SizesWith(s, i, data) = DOMAIN t \cup {i}
      /\ \A j \in DOMAIN t \cup {i} : SizesWith(s, i, data)[j] = IF j = i THEN Size[data] ELSE s.sizes[j]
  BY <1>1 DEF SizesWith, Put
<1>9. ASSUME NEW j \in DOMAIN t \cup {i}
      PROVE  /\ Put(t, i, data)[j] \in Chunks
             /\ chunkFiles'[id][j] = Put(t, i, data)[j]
             /\ SizesWith(s, i, data)[j] = Size[Put(t, i, data)[j]]
  <2>1. CASE j = i
    BY <1>1, <1>5, <1>7, <1>8, <2>1
  <2>2. CASE j # i
    <3>1. j \in DOMAIN t /\ j \in Indices
      BY <1>1, <2>2
    <3>2. t[j] \in Chunks /\ chunkFiles[id][j] = t[j] /\ s.sizes[j] = Size[t[j]]
      BY <3>1 DEF Found
    <3> QED BY <1>5, <1>7, <1>8, <2>2, <3>1, <3>2
  <2> QED BY <2>1, <2>2
<1> QED BY <1>4, <1>6, <1>7, <1>8, <1>9 DEF Stored

LEMMA RefuseKeeps ==
  ASSUME SessionInv, NEW id \in UploadIds, NEW i, NEW total \in 2..MaxTotal, NEW data,
         RefuseChunk(id, i, total, data)
  PROVE  SessionInv' /\ assembled' = assembled
<1> DEFINE s == Session(id, total)
<1>1. Found(id, s, told[id])
  BY SessionFound
<1>2. /\ sessions' = [sessions EXCEPT ![id] = s] /\ told' = told
      /\ chunkFiles' = chunkFiles /\ assembled' = assembled
  BY DEF RefuseChunk
<1> HIDE DEF s
<1>3. SessionShapes' /\ sessions'[id] = s
  BY <1>2 DEF SessionInv, SessionShapes
<1>4. \A k \in UploadIds \ {id} : sessions'[k] = sessions[k] /\ told'[k] = told[k]
  BY <1>2 DEF SessionInv, SessionShapes
<1>5. SessionOK(id)'
  BY <1>1, <1>2, <1>3 DEF SessionOK, OpenSession, Found
<1>6. ASSUME NEW k \in UploadIds \ {id} PROVE SessionOK(k)'
  BY <1>2, <1>4 DEF SessionInv, SessionOK, OpenSession
<1> QED BY <1>2, <1>3, <1>5, <1>6 DEF SessionInv

LEMMA KeepKeeps ==
  ASSUME SessionInv, NEW id \in UploadIds, NEW i, NEW total \in 2..MaxTotal, NEW data \in Chunks,
         KeepChunk(id, i, total, data)
  PROVE  SessionInv' /\ assembled' = assembled
<1>0. PICK s, t : s = Session(id, total) /\ t = told[id]
  OBVIOUS
<1>1. Found(id, s, t)
  BY <1>0, SessionFound
<1>2. /\ i \in 0..s.total-1
      /\ chunkFiles' = [chunkFiles EXCEPT ![id][i] = data]
      /\ sessions' = [sessions EXCEPT ![id] = [s EXCEPT !.sizes = SizesWith(s, i, data)]]
      /\ told' = [told EXCEPT ![id] = Put(t, i, data)]
      /\ assembled' = assembled
  BY <1>0 DEF KeepChunk, Accepts
<1>3. PICK z, p : z = SizesWith(s, i, data) /\ p = Put(t, i, data)
  OBVIOUS
<1>4. /\ chunkFiles' = [k \in UploadIds |-> [j \in Indices |-> chunkFiles'[k][j]]]
      /\ \A k \in UploadIds \ {id} : chunkFiles'[k] = chunkFiles[k]
      /\ DOMAIN p = DOMAIN t \cup {i} /\ DOMAIN z = DOMAIN t \cup {i}
      /\ \A j \in DOMAIN t \cup {i} :
           p[j] \in Chunks /\ chunkFiles'[id][j] = p[j] /\ z[j] = Size[p[j]]
  <2>1. /\ SessionShapes /\ i \in 0..s.total-1 /\ chunkFiles' = [chunkFiles EXCEPT ![id][i] = data]
    BY <1>2 DEF SessionInv
  <2>2. Stored(id, s, t, i, data)
    BY <1>1, <2>1, ChunkStored
  <2> QED BY <1>3, <2>2 DEF Stored
<1>5. SessionShapes' /\ sessions'[id] = [s EXCEPT !.sizes = z] /\ told'[id] = p
  BY <1>2, <1>3, <1>4 DEF SessionInv, SessionShapes
<1>6. \A k \in UploadIds \ {id} : sessions'[k] = sessions[k] /\ told'[k] = told[k]
  BY <1>2 DEF SessionInv, SessionShapes
<1>7. sessions'[id] = [total |-> s.total, sizes |-> z] /\ s.total \in 2..MaxTotal
      /\ DOMAIN t \subseteq 0..s.total-1
  BY <1>1, <1>5 DEF Found
<1>8. SessionOK(id)'
  BY <1>2, <1>4, <1>5, <1>7 DEF SessionOK, OpenSession
<1>9. ASSUME NEW k \in UploadIds \ {id} PROVE SessionOK(k)'
  BY <1>4, <1>6 DEF SessionInv, SessionOK, OpenSession
<1> QED BY <1>2, <1>5, <1>8, <1>9 DEF SessionInv

(* The chunks in order are as long as the sizes the session has noted.     *)
LEMMA AssembledLength ==
  ASSUME NEW n \in Nat, NEW z, DOMAIN z = 0..n-1, NEW content, DOMAIN content = 1..n,
         \A k \in 1..n : content[k] \in Chunks /\ z[k - 1] = Size[content[k]]
  PROVE  Length(content) = Total(z)
<1> DEFINE g == [k \in DOMAIN content |-> Size[content[k]]]
<1>1. ASSUME NEW k \in 1..n PROVE g[k] = z[k - 1] /\ z[k - 1] \in Int
  <2>1. g[k] = Size[content[k]] /\ z[k - 1] = Size[content[k]] /\ content[k] \in Chunks
    OBVIOUS
  <2> QED BY <2>1, SizeAssumption
<1>2. DOMAIN g = 1..n
  OBVIOUS
<1>3. Length(content) = SumFunction(g)
  BY DEF Length
<1> HIDE DEF g
<1>4. Facts!SumFunctionOnSet(g, 1..n) = Facts!SumFunctionOnSet(z, 0..n-1)
  BY <1>1, Facts!SumShifts
<1> QED BY <1>2, <1>3, <1>4, SameSums DEF Total

LEMMA CompleteKeeps ==
  ASSUME SessionInv, NEW id \in UploadIds, NEW i, NEW total \in 2..MaxTotal, NEW data \in Chunks,
         CompleteUpload(id, i, total, data)
  PROVE  /\ SessionInv' /\ ~IsOpen(id)' /\ i \in Indices /\ SentWhole(id, i, data)
         /\ \A name \in AssembledFiles \ {AssembledAs[id]} : assembled'[name] = assembled[name]
<1>0. PICK s, t : s = Session(id, total) /\ t = told[id]
  OBVIOUS
<1>1. Found(id, s, t)
  BY <1>0, SessionFound
<1>2. /\ i \in 0..s.total-1
      /\ Total(SizesWith(s, i, data)) <= SizeLimit
      /\ DOMAIN s.sizes \cup {i} = 0..s.total-1
      /\ chunkFiles' = [chunkFiles EXCEPT ![id][i] = data]
      /\ sessions' = [sessions EXCEPT ![id] = NoSession]
      /\ told' = [told EXCEPT ![id] = Nothing]
      /\ assembled' = [assembled EXCEPT ![AssembledAs[id]] = [k \in 1..s.total |-> chunkFiles'[id][k - 1]]]
  BY <1>0 DEF CompleteUpload, Accepts, Completes, SizesWith
<1>3. PICK z, p : z = SizesWith(s, i, data) /\ p = Put(t, i, data)
  OBVIOUS
<1>4. /\ chunkFiles' = [k \in UploadIds |-> [j \in Indices |-> chunkFiles'[k][j]]]
      /\ \A k \in UploadIds \ {id} : chunkFiles'[k] = chunkFiles[k]
      /\ DOMAIN p = DOMAIN t \cup {i} /\ DOMAIN z = DOMAIN t \cup {i}
      /\ \A j \in DOMAIN t \cup {i} :
           p[j] \in Chunks /\ chunkFiles'[id][j] = p[j] /\ z[j] = Size[p[j]]
  <2>1. /\ SessionShapes /\ i \in 0..s.total-1 /\ chunkFiles' = [chunkFiles EXCEPT ![id][i] = data]
    BY <1>2 DEF SessionInv
  <2>2. Stored(id, s, t, i, data)
    BY <1>1, <2>1, ChunkStored
  <2> QED BY <1>3, <2>2 DEF Stored
<1>5. PICK n : n = s.total
  OBVIOUS
<1>6. n \in Nat /\ DOMAIN t \cup {i} = 0..n-1
  BY <1>1, <1>2, <1>5, MaxTotalAssumption DEF Found
<1>7. PICK c : c = [k \in 1..n |-> chunkFiles'[id][k - 1]]
  OBVIOUS
<1>8. /\ SessionShapes' /\ sessions'[id] = NoSession /\ told'[id] = Nothing
      /\ assembled'[AssembledAs[id]] = c
      /\ \A name \in AssembledFiles \ {AssembledAs[id]} : assembled'[name] = assembled[name]
  <2>1. AssembledAs[id] \in AssembledFiles
    BY DEF AssembledFiles
  <2> QED BY <1>2, <1>4, <1>5, <1>7, <2>1 DEF SessionInv, SessionShapes
<1>9. \A k \in UploadIds \ {id} : sessions'[k] = sessions[k] /\ told'[k] = told[k]
  BY <1>2 DEF SessionInv, SessionShapes
<1>10. \A k \in UploadIds \ {id} : SessionOK(k)'
  <2> TAKE k \in UploadIds \ {id}
  <2>1. /\ sessions'[k] = sessions[k] /\ told'[k] = told[k] /\ chunkFiles'[k] = chunkFiles[k]
        /\ SessionOK(k)
    BY <1>4, <1>9 DEF SessionInv
  <2> QED BY <2>1 DEF SessionInv, SessionOK, OpenSession
<1>11. SessionInv'
  BY <1>8, <1>10 DEF SessionInv, SessionOK
<1>12. /\ DOMAIN c = 1..n
       /\ \A k \in 1..n : c[k] = p[k - 1] /\ c[k] \in Chunks /\ z[k - 1] = Size[c[k]]
  <2>1. \A k \in 1..n : k - 1 \in 0..n-1
    BY <1>6
  <2> QED BY <1>4, <1>6, <1>7, <2>1
<1>13. Len(c) = n
  <2>1. c \in Seq(Chunks)
    BY <1>6, <1>7, <1>12
  <2> QED BY <1>6, <1>12, <2>1, LenProperties
<1>14. Length(c) <= SizeLimit
  <2>1. Length(c) = Total(z)
    <3>1. DOMAIN z = 0..n-1 /\ DOMAIN c = 1..n
      BY <1>4, <1>6, <1>12
    <3>2. \A k \in 1..n : c[k] \in Chunks /\ z[k - 1] = Size[c[k]]
      BY <1>12
    <3> QED BY <1>6, <3>1, <3>2, AssembledLength
  <2> QED BY <1>2, <1>3, <2>1
<1>15. DOMAIN p = 0..n-1 /\ \A j \in 0..n-1 : c[j + 1] = p[j]
  <2>1. \A j \in 0..n-1 : j + 1 \in 1..n /\ (j + 1) - 1 = j
    BY <1>6
  <2> QED BY <1>4, <1>6, <1>12, <2>1
<1>16. SentWhole(id, i, data)
  BY <1>0, <1>3, <1>8, <1>13, <1>14, <1>15 DEF SentWhole
<1>17. ~IsOpen(id)' /\ i \in Indices
  BY <1>1, <1>2, <1>8, MaxTotalAssumption DEF IsOpen, NoSession, Found, Indices
<1> QED BY <1>8, <1>11, <1>16, <1>17

(* See AssembledAsSent. *)
NewlySent ==
  \A name \in AssembledFiles : assembled'[name] # assembled[name] =>
    \E id \in UploadIds, i \in Indices, data \in Chunks :
      AssembledAs[id] = name /\ ~IsOpen(id)' /\ SentWhole(id, i, data)

LEMMA SessionStep ==
  ASSUME SessionInv, [Next]_vars
  PROVE  SessionInv' /\ NewlySent
<1>1. CASE UNCHANGED sessionVars
  BY <1>1 DEF SessionInv, SessionShapes, SessionOK, OpenSession, sessionVars, NewlySent
<1>2. ASSUME NEW r \in ChunkRequests
      PROVE  r.id \in UploadIds /\ r.total \in 2..MaxTotal /\ r.data \in Chunks
  BY RequestsAssumption DEF ChunkRequest
<1>3. CASE UploadChunk
  <2>1. PICK r \in ChunkRequests :
          \/ RefuseChunk(r.id, r.index, r.total, r.data)
          \/ KeepChunk(r.id, r.index, r.total, r.data)
    BY <1>3 DEF UploadChunk
  <2>2. PICK id, i, total, data : id = r.id /\ i = r.index /\ total = r.total /\ data = r.data
    OBVIOUS
  <2>3. id \in UploadIds /\ total \in 2..MaxTotal /\ data \in Chunks
    BY <1>2, <2>2
  <2>4. RefuseChunk(id, i, total, data) \/ KeepChunk(id, i, total, data)
    BY <2>1, <2>2
  <2> QED BY <2>3, <2>4, RefuseKeeps, KeepKeeps DEF NewlySent
<1>4. ASSUME NEW u \in Slots, UploadLastChunk(u)
      PROVE  SessionInv' /\ NewlySent
  <2>1. PICK r \in ChunkRequests : CompleteUpload(r.id, r.index, r.total, r.data)
    BY <1>4 DEF UploadLastChunk
  <2>2. PICK id, i, total, data : id = r.id /\ i = r.index /\ total = r.total /\ data = r.data
    OBVIOUS
  <2>3. id \in UploadIds /\ total \in 2..MaxTotal /\ data \in Chunks
    BY <1>2, <2>2
  <2>4. CompleteUpload(id, i, total, data)
    BY <2>1, <2>2
  <2>5. /\ SessionInv' /\ ~IsOpen(id)' /\ i \in Indices /\ SentWhole(id, i, data)
        /\ \A name \in AssembledFiles \ {AssembledAs[id]} : assembled'[name] = assembled[name]
    BY <2>3, <2>4, CompleteKeeps
  <2> QED BY <2>3, <2>5 DEF NewlySent
<1>5. CASE SessionsLost
  <2>1. /\ sessions' = [id \in UploadIds |-> NoSession] /\ told' = [id \in UploadIds |-> Nothing]
        /\ chunkFiles' = chunkFiles /\ assembled' = assembled
    BY <1>5 DEF SessionsLost
  <2> QED BY <2>1 DEF SessionInv, SessionShapes, SessionOK, NewlySent
<1>6. ASSUME NEW u \in Slots, (Request(u) /\ ~UploadLastChunk(u)) \/ Work(u)
      PROVE  UNCHANGED sessionVars
  BY <1>6 DEF Request, Work, UploadWhole, UploadBatch, ReadTooBig, ReadFile, Extracted, Examine,
     ExamineNothing, SaveMetadata, RenameMetadata, Prepared, PrepareRaised, Finish
<1> QED
  BY <1>1, <1>3, <1>4, <1>5, <1>6 DEF Next, CreateProject, DeleteProject, Crash, Restart, vars

LEMMA SessionInit ==
  Init => SessionInv
BY DEF Init, SessionsInit, SessionInv, SessionShapes, SessionOK

(* Whatever chunks come, in whichever order and however often, and however *)
(* often the process dies between them: what is assembled is what the one  *)
(* session acknowledged, and no longer than the limit (store.py:55-73).    *)
THEOREM UploadsSafe == Spec => AssembledAsSent
<1>1. SessionInv /\ [Next]_vars => SessionInv'
  BY SessionStep
<1>2. SessionInv /\ [Next]_vars =>
        [NewlySent]_sessionVars
  BY SessionStep
<1> QED
  BY <1>1, <1>2, SessionInit, PTL DEF Spec, AssembledAsSent, NewlySent
=============================================================================
