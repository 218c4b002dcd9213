---------------------------- MODULE MCArtifacts ----------------------------
(* Instances of Artifacts for TLC. *)
EXTENDS Artifacts, TLC

CONSTANTS A, B, C, D

Compare2(b, a, n) == [before |-> b, after |-> a, cells |-> n]
(* Two share the image after, two the image before, and A with B has no    *)
(* image in common with C and D.                                           *)
SomePairs == {Compare2(A, B, 1), Compare2(C, B, 2), Compare2(C, D, 1)}

(* Jobs and thumbnails have no file in common but the prepared images,     *)
(* which both only read: they need not run side by side.                   *)
Thumbnail(i) == Rendered("thumbnail", i)
JobsOrThumbnails ==
  \/ \A j \in Jobs : at[j] = "none"
  \/ /\ \A i \in Viewed : ~Exists(Thumbnail(i))
     /\ \A r \in Requests : req[r].kind # "thumbnail"

(* One fault at a time: an image uploaded again, or a crash. *)
OneFault == again = {} \/ ~crashed

Symmetry == Permutations(Jobs) \cup Permutations(Requests)
=============================================================================
