---------------------------- MODULE ProjectStore ----------------------------
(***************************************************************************)
(* backend/projects/store.py: one JSON file per project, rewritten as a    *)
(* whole and in place by every change. A rename changes nothing that is    *)
(* modelled, except that it, too, rewrites the file.                       *)
(***************************************************************************)
EXTENDS Integers, Sequences, SequencesExt

CONSTANT Projects  \* project_ids, each given to one project only

VARIABLE disk   \* disk[p]: the project's file, and the entries it holds

Unborn == [state |-> "unborn", files |-> <<>>]

ProjectsInit == disk = [p \in Projects |-> Unborn]

(* get() answers a project: the file is there and parses. (A torn file     *)
(* makes it raise, and every request for the project fails.)               *)
IsLive(p) == disk[p].state = "live"

Create(p) ==
  /\ disk[p].state = "unborn"
  /\ disk' = [disk EXCEPT ![p] = [state |-> "live", files |-> <<>>]]

(* add_file reads the project and writes it back within one turn. *)
AddFile(p, entry) ==
  /\ IsLive(p)
  /\ disk' = [disk EXCEPT ![p].files = Append(@, entry)]

Delete(p) ==
  /\ IsLive(p)
  /\ disk' = [disk EXCEPT ![p] = [state |-> "deleted", files |-> <<>>]]

(* The process dies; a save that was being written leaves a torn file.     *)
(* A save of any project may be: a rename asks for one at any time.        *)
DieSaving(p) ==
  /\ disk[p].state \in {"unborn", "live"}
  /\ disk' = [disk EXCEPT ![p] = [state |-> "torn", files |-> <<>>]]

-----------------------------------------------------------------------------
(* Whatever requests for a project interleave, no file that was added is   *)
(* lost or moved, and a deleted project stays deleted, although uploads to *)
(* it that began before go on (projects/store.py:70-96, main.py:714-778).  *)
(* A torn file, which only a crash leaves, stays torn.                     *)
ProjectsOnlyGrow ==
  [][\A p \in Projects :
       /\ IsLive(p) => \/ disk'[p].state = "live" /\ IsPrefix(disk[p].files, disk'[p].files)
                       \/ disk'[p].state \in {"deleted", "torn"}
       /\ disk[p].state \in {"deleted", "torn"} => disk'[p] = disk[p]]_disk
=============================================================================
