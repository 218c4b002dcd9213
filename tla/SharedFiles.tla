---------------------------- MODULE SharedFiles ----------------------------
(***************************************************************************)
(* Files that threads write in place, with no temporary name and no lock,  *)
(* and that others may read meanwhile: Python's and GDAL's open(path, "w") *)
(* truncates, closing completes.                                           *)
(***************************************************************************)
CONSTANTS Paths, Absent, Opened, Mixed, Torn

VARIABLES
  holds,    \* holds[p]: what is in the file, one of the above if it is not whole
  writing   \* writing[p]: who has it open for writing, and what they write

FilesInit ==
  /\ holds   = [p \in Paths |-> Absent]
  /\ writing = [p \in Paths |-> {}]

Whole(p) == holds[p] \notin {Absent, Opened, Mixed, Torn}
Exists(p) == holds[p] # Absent

OpenFile(p, w, content) ==
  /\ writing' = [writing EXCEPT ![p] = @ \cup {<<w, content>>}]
  /\ holds' = [holds EXCEPT ![p] =
       IF \E h \in writing[p] : h[2] # content THEN Mixed
       ELSE IF holds[p] = Mixed /\ writing[p] # {} THEN Mixed ELSE Opened]

(* Writers of the same bytes do each other no harm; writers of different   *)
(* ones leave the last one's, or a mixture.                                *)
CloseFile(p, w, content) ==
  /\ writing' = [writing EXCEPT ![p] = @ \ {<<w, content>>}]
  /\ IF writing[p] # {<<w, content>>} THEN UNCHANGED holds
     ELSE \E end \in IF holds[p] = Mixed THEN {content, Torn} ELSE {content} :
            holds' = [holds EXCEPT ![p] = end]

(* The process dies: what was open stays as it is. *)
FilesAfterCrash ==
  /\ writing' = [p \in Paths |-> {}]
  /\ holds' = [p \in Paths |-> IF holds[p] \in {Opened, Mixed} THEN Torn ELSE holds[p]]
=============================================================================
