--------------------------- MODULE PreparedImages ---------------------------
(***************************************************************************)
(* backend/preprocessing/validation.py (validate_and_prepare) and store.py *)
(* (_atomic_write_json), executed by threads of one process. An image is   *)
(* identified by its content; its metadata.json and the one temporary file *)
(* beside it are shared by all threads that prepare the same content.      *)
(*                                                                         *)
(* A file is what its name leads to; a thread that has it open goes on     *)
(* writing to it under whatever name, or none, it has by then.             *)
(***************************************************************************)
EXTENDS Integers, Sequences

CONSTANTS
  Slots,       \* the requests, and threads, that may be in progress at once
  Contents,    \* the contents of uploaded files, non-empty sequences
  Readable,    \* those that are rasters
  Flaky,       \* those on which the preparation may fail all the same
  Modalities

ASSUME ReadableAssumption == Flaky \subseteq Readable /\ Readable \subseteq Contents
ASSUME ContentsAssumption == <<>> \notin Contents
ASSUME ModalitiesAssumption == "unknown" \notin Modalities

VARIABLES
  metadata,  \* metadata[c]: what metadata.json of image c holds
  temp,      \* temp[c]: what metadata.json.tmp holds
  prep,      \* prep[t]: the image thread t prepares, and its verdict on it
  handle     \* handle[t]: where the file thread t has opened for writing is now

preparedVars == <<metadata, temp, prep, handle>>

(* validation_errors; an image is valid if there are none. *)
Errors == {"none", "extension", "unreadable"}
Verdict == [modality : Modalities \cup {"unknown"}, errors : Errors]
NoVerdict == [modality |-> "unknown", errors |-> "unreadable"]

NoImage == <<>>
NoPrep == [image |-> NoImage, verdict |-> NoVerdict]

(* A blank file has been truncated and not written to yet. *)
Absent == [what |-> "absent", verdict |-> NoVerdict]
Blank  == [what |-> "blank",  verdict |-> NoVerdict]
Torn   == [what |-> "torn",   verdict |-> NoVerdict]
Whole(v) == [what |-> "whole", verdict |-> v]

PreparedInit ==
  /\ metadata = [c \in Contents |-> Absent]
  /\ temp     = [c \in Contents |-> Absent]
  /\ prep     = [t \in Slots |-> NoPrep]
  /\ handle   = [t \in Slots |-> "closed"]

(* What validate_and_prepare may find: a name it does not support comes    *)
(* first; then the probe, the pixel cap and the conversion, which can fail *)
(* on a raster, too (a timeout, a full disk).                              *)
Verdicts(content, supported, modality) ==
  {v \in [modality : {modality}, errors : Errors] :
     /\ v.errors = "extension" <=> ~supported
     /\ v.errors = "none" => content \in Readable
     /\ v.errors = "unreadable" => content \notin Readable \ Flaky}

(* Slip: metadata.json itself is rewritten. *)
OpenInPlace(t, image, v) ==
  /\ prep' = [prep EXCEPT ![t] = [image |-> image, verdict |-> v]]
  /\ metadata' = [metadata EXCEPT ![image] = Blank]
  /\ handle' = [handle EXCEPT ![t] = "final"]
  /\ UNCHANGED temp

(* open(tmp_path, "w"): truncates what other threads may have open. *)
OpenTemp(t, image, v) ==
  /\ prep' = [prep EXCEPT ![t] = [image |-> image, verdict |-> v]]
  /\ temp' = [temp EXCEPT ![image] = Blank]
  /\ handle' = [handle EXCEPT ![t] = "temp"]
  /\ UNCHANGED metadata

(* Writing from the start of a file: what it held may reach beyond. *)
Written(file, v) ==
  IF file = Blank \/ file = Whole(v) THEN {Whole(v)} ELSE {Whole(v), Torn}

Image(t) == prep[t].image

(* json.dump, which reaches the file when it is closed. *)
Dump(t) ==
  /\ handle[t] # "closed"
  /\ handle' = [handle EXCEPT ![t] = "closed"]
  /\ \E file \in Written(IF handle[t] = "final" THEN metadata[Image(t)] ELSE temp[Image(t)],
                         prep[t].verdict) :
       /\ temp' = IF handle[t] = "temp" THEN [temp EXCEPT ![Image(t)] = file] ELSE temp
       /\ metadata' = IF handle[t] = "final"
                      THEN [metadata EXCEPT ![Image(t)] = file] ELSE metadata
  /\ UNCHANGED prep

(* os.replace(tmp_path, path): the files move under those that have them   *)
(* open.                                                                   *)
Replace(t) ==
  /\ temp[Image(t)] # Absent
  /\ metadata' = [metadata EXCEPT ![Image(t)] = temp[Image(t)]]
  /\ temp' = [temp EXCEPT ![Image(t)] = Absent]
  /\ handle' = [w \in Slots |->
       CASE Image(w) = Image(t) /\ handle[w] = "temp"  -> "final"
         [] Image(w) = Image(t) /\ handle[w] = "final" -> "unlinked"
         [] OTHER -> handle[w]]
  /\ UNCHANGED prep

(* Another thread has renamed the file meanwhile: FileNotFoundError. *)
ReplaceRaises(t) ==
  /\ temp[Image(t)] = Absent
  /\ UNCHANGED preparedVars

(* The threads die with the process; the files stay. *)
ThreadsLost ==
  /\ prep' = [t \in Slots |-> NoPrep]
  /\ handle' = [t \in Slots |-> "closed"]
  /\ UNCHANGED <<metadata, temp>>
=============================================================================
