--------------------------- MODULE ChunkSessions ---------------------------
(***************************************************************************)
(* backend/agent/store.py: UploadSession and UploadSessionStore, and the   *)
(* files they keep under CHUNK_DIR. A session lives in memory, its chunk   *)
(* files and the assembled file on disk: they outlive it.                  *)
(***************************************************************************)
EXTENDS Integers, Sequences, Functions

CONSTANTS
  UploadIds,   \* the upload_ids clients pick
  AssembledAs, \* AssembledAs[id]: the name of its assembled file, see AssembledFiles
  Chunks,      \* what the body of a chunk may be
  Size,        \* Size[c]: its length
  SizeLimit,   \* MAX_FILE_SIZE_BYTES
  MaxTotal     \* largest total_chunks (a bound of the model)

ASSUME SizeAssumption == Size \in [Chunks -> Nat]
ASSUME SizeLimitAssumption == SizeLimit \in Nat
ASSUME MaxTotalAssumption == MaxTotal \in Nat

VARIABLES
  sessions,    \* sessions[id]: total_chunks and chunk_sizes, whose keys are `received`
  chunkFiles,  \* chunkFiles[id][i]: what the file of chunk i holds
  assembled,   \* assembled[name]: what the ".assembled" file of that name holds
  told         \* history: told[id][i], the last body for chunk i that the open session accepted

sessionVars == <<sessions, chunkFiles, assembled, told>>

Indices == 0..MaxTotal-1
NoChunk == "no chunk"
Nothing == <<>>          \* a function with no argument; as a file, an absent one
NoSession == [total |-> 0, sizes |-> Nothing]

(* with_suffix(".assembled") replaces what follows the last dot of an id:  *)
(* ids that differ only there ("scan.1", "scan.2") share one file, although*)
(* their sessions and their chunk files are apart.                         *)
AssembledFiles == {AssembledAs[id] : id \in UploadIds}

SessionsInit ==
  /\ sessions   = [id \in UploadIds |-> NoSession]
  /\ chunkFiles = [id \in UploadIds |-> [i \in Indices |-> NoChunk]]
  /\ assembled  = [name \in AssembledFiles |-> Nothing]
  /\ told       = [id \in UploadIds |-> Nothing]

(* get_or_create: total_chunks of a later request for the id is ignored. *)
IsOpen(id) == sessions[id].total > 0
Session(id, total) == IF IsOpen(id) THEN sessions[id] ELSE [total |-> total, sizes |-> Nothing]
Put(f, i, x) == [k \in DOMAIN f \cup {i} |-> IF k = i THEN x ELSE f[k]]

SizesWith(s, i, data) == Put(s.sizes, i, Size[data])

Total(sizes) == SumFunction(sizes)

(* write_chunk raises otherwise. *)
Accepts(s, i, data) ==
  /\ i \in 0..s.total-1
  /\ Total(Put(s.sizes, i, Size[data])) <= SizeLimit

(* Slip: a chunk whose file is on disk counts as received. *)
CompletesOnDisk(id, s, i) ==
  \A k \in 0..s.total-1 : k = i \/ chunkFiles[id][k] # NoChunk

(* is_complete, once chunk i is written. *)
Completes(id, s, i) == DOMAIN s.sizes \cup {i} = 0..s.total-1

(* A request that write_chunk refuses leaves the session it has opened. *)
RefuseChunk(id, i, total, data) ==
  LET s == Session(id, total) IN
  /\ ~Accepts(s, i, data)
  /\ sessions' = [sessions EXCEPT ![id] = s]
  /\ UNCHANGED <<chunkFiles, assembled, told>>

KeepChunk(id, i, total, data) ==
  LET s == Session(id, total) IN
  /\ Accepts(s, i, data) /\ ~Completes(id, s, i)
  /\ chunkFiles' = [chunkFiles EXCEPT ![id][i] = data]
  /\ sessions' = [sessions EXCEPT ![id] = [s EXCEPT !.sizes = SizesWith(s, i, data)]]
  /\ told' = [told EXCEPT ![id] = Put(@, i, data)]
  /\ UNCHANGED assembled

(* The last chunk: assemble, then discard, in the same turn. *)
CompleteUpload(id, i, total, data) ==
  LET s == Session(id, total) IN
  /\ Accepts(s, i, data) /\ Completes(id, s, i)
  /\ chunkFiles' = [chunkFiles EXCEPT ![id][i] = data]
  /\ assembled' = [assembled EXCEPT ![AssembledAs[id]] = [k \in 1..s.total |-> chunkFiles'[id][k - 1]]]
  /\ sessions' = [sessions EXCEPT ![id] = NoSession]
  /\ told' = [told EXCEPT ![id] = Nothing]

(* The process dies: the files stay. *)
SessionsLost ==
  /\ sessions' = [id \in UploadIds |-> NoSession]
  /\ told' = [id \in UploadIds |-> Nothing]
  /\ UNCHANGED <<chunkFiles, assembled>>

Length(content) == SumFunction([k \in DOMAIN content |-> Size[content[k]]])

(* What the session was told before, and chunk i last. *)
SentWhole(id, i, data) ==
  LET content == assembled'[AssembledAs[id]]
      sent    == Put(told[id], i, data)
  IN /\ DOMAIN sent = 0..Len(content)-1
     /\ \A k \in DOMAIN sent : content[k + 1] = sent[k]
     /\ Length(content) <= SizeLimit

(* An upload is assembled from chunks that one session acknowledged, the   *)
(* one that ends with it, each in its place and in the version sent last,  *)
(* however they were repeated, reordered or cut short by a restart, and    *)
(* never beyond the size limit (store.py:55-73, "Resumable chunked         *)
(* handling"). What is read from the file later may be another upload's.   *)
AssembledAsSent ==
  [][\A name \in AssembledFiles : assembled'[name] # assembled[name] =>
       \E id \in UploadIds, i \in Indices, data \in Chunks :
         AssembledAs[id] = name /\ ~IsOpen(id)' /\ SentWhole(id, i, data)]_sessionVars
=============================================================================
