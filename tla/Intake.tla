------------------------------- MODULE Intake -------------------------------
(***************************************************************************)
(* How files come in: the upload and project endpoints of                  *)
(* backend/api/main.py, over the chunk sessions, the preparation of images *)
(* in worker threads, the image store in memory and the projects on disk.  *)
(* One step is one turn of the event loop or one step of a thread. The     *)
(* process may die at any time and is started again.                       *)
(***************************************************************************)
EXTENDS ChunkSessions, PreparedImages, FiniteSets

CONSTANTS
  Projects,
  ChunkRequests,  \* chunk uploads clients may send
  Uploads,        \* files clients may upload whole, see File
  Batches,        \* sequences of files clients may upload to a project
  MaxFiles        \* a project with as many files is sent no more (a bound of the model)

(* How a file is treated: an image with a declared modality is prepared;   *)
(* of other known formats a thread extracts metadata; the rest, images     *)
(* without a modality included, is only stored. One beyond the size limit  *)
(* is refused.                                                             *)
Kinds == {"image", "other", "unknown", "toobig"}
File == [kind : Kinds, content : Contents, modality : Modalities]

ChunkRequest == [id : UploadIds, index : Int, total : 2..MaxTotal,
                 data : Chunks, modality : Modalities]

ASSUME RequestsAssumption ==
  /\ ChunkRequests \subseteq ChunkRequest
  /\ Uploads \subseteq File
  /\ Batches \subseteq Seq(File) /\ <<>> \notin Batches
ASSUME MaxFilesAssumption == MaxFiles \in Nat

VARIABLES
  disk,    \* see ProjectStore
  images,  \* image_store: images[c], NoVerdict for an unknown image
  folders, \* the projects whose directory of uploaded files holds any
  stored,  \* the batch requests whose current file is still in that directory
  at,      \* at[u]: where request u is
  req,     \* req[u]: its parameters and locals
  up,      \* the process runs
  mingled, \* history: the requests beside whose thread another has written the same files
  doubtful \* history: the images whose metadata.json such a thread renamed last

Store == INSTANCE ProjectStore

requestVars == <<at, req, stored>>
historyVars == <<mingled, doubtful>>
vars == <<sessionVars, preparedVars, disk, images, folders, requestVars, up, historyVars>>

NoFile == [kind |-> "unknown", content |-> NoImage, modality |-> "unknown"]
NoReq == [via |-> "none", target |-> "none", files |-> <<>>, next |-> 1]

Init ==
  /\ SessionsInit /\ PreparedInit /\ Store!ProjectsInit
  /\ images  = [c \in Contents |-> NoVerdict]
  /\ folders = {}
  /\ stored  = {}
  /\ at      = [u \in Slots |-> "idle"]
  /\ req     = [u \in Slots |-> NoReq]
  /\ up      = TRUE
  /\ mingled = {} /\ doubtful = {}

Goto(u, place) == at' = [at EXCEPT ![u] = place]

(* A request is answered, with a result or an error. *)
Respond(u) ==
  /\ Goto(u, "idle")
  /\ req' = [req EXCEPT ![u] = NoReq]
  /\ stored' = stored \ {u}

Accept(u, via, target, files, place) ==
  /\ up /\ at[u] = "idle"
  /\ Goto(u, place)
  /\ req' = [req EXCEPT ![u] = [via |-> via, target |-> target, files |-> files, next |-> 1]]
  /\ UNCHANGED stored

-----------------------------------------------------------------------------
(* POST /api/upload. *)

(* A chunk that does not complete its upload is answered in one turn. *)
UploadChunk ==
  /\ up
  /\ \E r \in ChunkRequests :
       \/ RefuseChunk(r.id, r.index, r.total, r.data)
       \/ KeepChunk(r.id, r.index, r.total, r.data)
  /\ UNCHANGED <<preparedVars, disk, images, folders, requestVars, up, historyVars>>

(* The last one is answered for the assembled file, whose name ends in     *)
(* ".assembled", and with the modality of its own request.                 *)
UploadLastChunk(u) ==
  /\ \E r \in ChunkRequests :
       /\ CompleteUpload(r.id, r.index, r.total, r.data)
       /\ Accept(u, "chunks", AssembledAs[r.id],
                 << [kind |-> "other", content |-> NoImage,
                     modality |-> r.modality] >>, "prepare")
  /\ UNCHANGED <<preparedVars, disk, images, folders, up, historyVars>>

UploadWhole(u) ==
  /\ \E f \in Uploads :
       /\ f.kind # "toobig"
       /\ Accept(u, "whole", "none", <<f>>, "prepare")
  /\ UNCHANGED <<sessionVars, preparedVars, disk, images, folders, up, historyVars>>

-----------------------------------------------------------------------------
(* POST /api/projects/{id}/files. *)

UploadBatch(u) ==
  /\ \E p \in Projects, files \in Batches :
       /\ Store!IsLive(p) /\ Len(disk[p].files) < MaxFiles
       /\ Accept(u, "batch", p, files, "read")
  /\ UNCHANGED <<sessionVars, preparedVars, disk, images, folders, up, historyVars>>

Current(u) == req[u].files[req[u].next]

NextFile(u) ==
  IF req[u].next < Len(req[u].files)
  THEN /\ Goto(u, "read")
       /\ req' = [req EXCEPT ![u].next = @ + 1]
       /\ UNCHANGED stored
  ELSE Respond(u)

(* Slip: the project is written back as it was when the request came, and  *)
(* with it come the files added meanwhile or the project deleted meanwhile.*)
RecordFileAnyway(u, image, v) ==
  /\ disk' = [disk EXCEPT ![req[u].target] =
       [state |-> "live",
        files |-> Append(@.files, [kind |-> Current(u).kind, image |-> image, verdict |-> v])]]
  /\ NextFile(u)

(* add_file raises KeyError, and the request fails, if the project was     *)
(* deleted meanwhile.                                                      *)
RecordFile(u, image, v) ==
  \/ /\ Store!AddFile(req[u].target,
                      [kind |-> Current(u).kind, image |-> image, verdict |-> v])
     /\ NextFile(u)
  \/ /\ ~Store!IsLive(req[u].target)
     /\ Respond(u)
     /\ UNCHANGED disk

(* A file has been read. The directory is made if it is not there. *)
ReadTooBig(u) ==
  /\ at[u] = "read" /\ Current(u).kind = "toobig"
  /\ Respond(u)
  /\ UNCHANGED <<sessionVars, preparedVars, disk, images, folders, up, historyVars>>

ReadFile(u) ==
  /\ at[u] = "read" /\ Current(u).kind # "toobig"
  /\ folders' = folders \cup {req[u].target}
  /\ CASE Current(u).kind = "image" ->
            Goto(u, "prepare") /\ stored' = stored \cup {u} /\ UNCHANGED <<disk, req>>
       [] Current(u).kind = "other" ->
            Goto(u, "extract") /\ stored' = stored \cup {u} /\ UNCHANGED <<disk, req>>
       [] OTHER -> RecordFile(u, NoImage, NoVerdict)
  /\ UNCHANGED <<sessionVars, preparedVars, images, up, historyVars>>

(* Extraction has answered or raised; either way the file is recorded. *)
Extracted(u) ==
  /\ at[u] = "extract"
  /\ RecordFile(u, NoImage, NoVerdict)
  /\ UNCHANGED <<sessionVars, preparedVars, images, folders, up, historyVars>>

-----------------------------------------------------------------------------
(* validate_and_prepare in a thread. *)

Content(u) == IF req[u].via = "chunks" THEN assembled[req[u].target] ELSE Current(u).content

FileThere(u) == req[u].via = "batch" => u \in stored

(* The threads that are about to write, or to rename, the files of c.      *)
Writers(c) == {w \in Slots : at[w] \in {"dump", "rename"} /\ Image(w) = c}

(* The file is read; its metadata.json is begun. *)
Examine(u) ==
  /\ at[u] = "prepare" /\ FileThere(u) /\ Content(u) \in Contents
  /\ \E v \in Verdicts(Content(u), Current(u).kind = "image", Current(u).modality) :
       OpenTemp(u, Content(u), v)
  /\ Goto(u, "dump")
  /\ LET others == Writers(Content(u)) IN
     mingled' = IF others = {} THEN mingled ELSE mingled \cup others \cup {u}
  /\ UNCHANGED <<sessionVars, disk, images, folders, req, stored, up, doubtful>>

(* The file went with its project: the answer is for an image named after  *)
(* the path, which nobody will ask for. Or what was assembled is none of   *)
(* the contents that are followed.                                         *)
ExamineNothing(u) ==
  /\ at[u] = "prepare" /\ ~(FileThere(u) /\ Content(u) \in Contents)
  /\ Goto(u, "prepared")
  /\ UNCHANGED <<sessionVars, preparedVars, disk, images, folders, req, stored, up, historyVars>>

SaveMetadata(u) ==
  /\ at[u] = "dump" /\ Dump(u) /\ Goto(u, "rename")
  /\ UNCHANGED <<sessionVars, disk, images, folders, req, stored, up, historyVars>>

RenameMetadata(u) ==
  /\ at[u] = "rename"
  /\ \/ /\ Replace(u) /\ Goto(u, "prepared")
        /\ doubtful' = IF u \in mingled THEN doubtful \cup {Image(u)} ELSE doubtful \ {Image(u)}
     \/ ReplaceRaises(u) /\ Goto(u, "raised") /\ UNCHANGED doubtful
  /\ mingled' = mingled \ {u}
  /\ UNCHANGED <<sessionVars, disk, images, folders, req, stored, up>>

-----------------------------------------------------------------------------
(* The request goes on once its thread has answered or raised. *)

Known(u) == Image(u) # NoImage

PutImage(u) ==
  IF Known(u) THEN images' = [images EXCEPT ![Image(u)] = prep[u].verdict] ELSE UNCHANGED images

Forget(u) == prep' = [prep EXCEPT ![u] = NoPrep] /\ UNCHANGED <<metadata, temp, handle>>

Finish(u, image, v) ==
  /\ IF req[u].via = "batch" THEN RecordFile(u, image, v) ELSE Respond(u) /\ UNCHANGED disk
  /\ Forget(u)
  /\ UNCHANGED <<sessionVars, folders, up, historyVars>>

Prepared(u) ==
  /\ at[u] = "prepared"
  /\ PutImage(u)
  /\ Finish(u, Image(u), prep[u].verdict)

(* A warning on the project's file, or 422. *)
PrepareRaised(u) ==
  /\ at[u] = "raised"
  /\ Finish(u, NoImage, NoVerdict)
  /\ UNCHANGED images

-----------------------------------------------------------------------------
CreateProject ==
  /\ up
  /\ \E p \in Projects : Store!Create(p)
  /\ UNCHANGED <<sessionVars, preparedVars, images, folders, requestVars, up, historyVars>>

(* delete_project removes the files it finds. *)
DeleteProject ==
  /\ up
  /\ \E p \in Projects :
       /\ Store!Delete(p)
       /\ folders' = folders \ {p}
       /\ stored' = {u \in stored : req[u].target # p}
  /\ UNCHANGED <<sessionVars, preparedVars, images, at, req, up, historyVars>>

Crash ==
  /\ up /\ up' = FALSE
  /\ UNCHANGED disk \/ \E p \in Projects : Store!DieSaving(p)
  /\ SessionsLost /\ ThreadsLost
  /\ images' = [c \in Contents |-> NoVerdict]
  /\ stored' = {}
  /\ at' = [u \in Slots |-> "idle"]
  /\ req' = [u \in Slots |-> NoReq]
  /\ mingled' = {}
  /\ UNCHANGED <<folders, doubtful>>

(* What the readable projects say of image c. *)
Recorded(c) ==
  {v \in Verdict : \E p \in Projects :
     Store!IsLive(p) /\ \E i \in DOMAIN disk[p].files :
       disk[p].files[i].image = c /\ disk[p].files[i].verdict = v}

(* Slip: only valid images are brought back. *)
RestartValidOnly ==
  /\ ~up /\ up' = TRUE
  /\ images' \in [Contents -> Verdict]
  /\ \A c \in Contents :
       LET found == {v \in Recorded(c) : v.errors = "none"} IN
       IF found = {} THEN images'[c] = NoVerdict ELSE images'[c] \in found
  /\ UNCHANGED <<sessionVars, preparedVars, disk, folders, requestVars, historyVars>>

(* main.py:620-626. Of several records of an image the one read last       *)
(* stays: which one depends on when the projects were changed.             *)
Restart ==
  /\ ~up /\ up' = TRUE
  /\ images' \in [Contents -> Verdict]
  /\ \A c \in Contents :
       IF Recorded(c) = {} THEN images'[c] = NoVerdict ELSE images'[c] \in Recorded(c)
  /\ UNCHANGED <<sessionVars, preparedVars, disk, folders, requestVars, historyVars>>

Request(u) ==
  UploadLastChunk(u) \/ UploadWhole(u) \/ UploadBatch(u)

Work(u) ==
  \/ ReadTooBig(u) \/ ReadFile(u) \/ Extracted(u)
  \/ Examine(u) \/ ExamineNothing(u) \/ SaveMetadata(u) \/ RenameMetadata(u)
  \/ Prepared(u) \/ PrepareRaised(u)

Next ==
  \/ \E u \in Slots : Request(u) \/ Work(u)
  \/ UploadChunk \/ CreateProject \/ DeleteProject
  \/ Crash \/ Restart

Spec == Init /\ [][Next]_vars

-----------------------------------------------------------------------------
(* What ProjectStore says of the files of a project, and who may end them: *)
(* only the death of the process tears a project, and only delete_project, *)
(* which empties the folder first, deletes one; no upload, however late,   *)
(* does either (projects/store.py:31-36, :83-96, main.py:667-679).         *)
ProjectsOnlyGrow ==
  /\ Store!ProjectsOnlyGrow
  /\ [][\A p \in Projects : disk'[p] # disk[p] =>
          /\ disk'[p].state = "torn" => up /\ ~up'
          /\ disk'[p].state = "deleted" => p \notin folders']_vars

(* Whenever the process runs, also after a crash and a restart, every      *)
(* image a project shows can be asked about: POST /api/query finds it in   *)
(* the image store (main.py:616-626).                                      *)
ProjectImagesQueryable ==
  up => \A p \in Projects : Store!IsLive(p) =>
          \A i \in DOMAIN disk[p].files :
            disk[p].files[i].image # NoImage => images[disk[p].files[i].image] # NoVerdict

(* An image the store knows can be prepared for a job: its metadata.json   *)
(* is there, and whole, unless two threads prepared the image at once.     *)
(* Then it may be blank or torn, but not gone, though one of them fails    *)
(* over the file they share; and one thread that prepares the image alone  *)
(* makes it whole again. A crash between opening and renaming spoils       *)
(* nothing (preprocessing/store.py:72-85).                                 *)
MetadataOfKnownImages ==
  \A c \in Contents :
    \/ images[c] # NoVerdict
    \/ \E u \in Slots : at[u] \in {"prepared", "raised"} /\ Image(u) = c
    => metadata[c] # Absent /\ (metadata[c].what = "whole" \/ c \in doubtful)

-----------------------------------------------------------------------------
(* What the documents say and the code does not do.                        *)

(* "a crash mid-write never leaves a truncated/corrupt JSON file behind"   *)
(* (preprocessing/store.py:74-75).                                         *)
CrashTearsNoMetadata ==
  ~up => \A c \in Contents : metadata[c].what \in {"absent", "whole"}
=============================================================================
