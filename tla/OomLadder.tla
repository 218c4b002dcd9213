----------------------------- MODULE OomLadder ------------------------------
(***************************************************************************)
(* One caller of run_inference (backend/model_registry/inference.py), one  *)
(* call after the other. What a batch does to the memory is left open.     *)
(***************************************************************************)
EXTENDS Ladder

VARIABLE ladder

Init == ladder = Idle

Start(r) ==
  /\ ladder.status # "running"
  /\ ladder' = NewLadder(r)

BatchOk ==
  /\ ladder.status = "running" /\ Left(ladder) > 0
  /\ Accepted(ladder, Batch(ladder))
  /\ ladder' = Processed(ladder)

BatchOom ==
  /\ ladder.status = "running" /\ Left(ladder) > 0
  /\ OutOfMemory(ladder, ladder')

BatchRaises ==
  /\ ladder.status = "running" /\ Left(ladder) > 0
  /\ \/ ladder' = Raised(ladder, "model_error")
     \/ /\ ~Accepted(ladder, Batch(ladder))
        /\ ladder' = Raised(ladder, "adapter_error")

Finish ==
  /\ ladder.status = "running" /\ Left(ladder) = 0
  /\ ladder' = Ended(ladder)

Next == (\E r \in Requests : Start(r)) \/ BatchOk \/ BatchOom \/ BatchRaises \/ Finish

Spec == Init /\ [][Next]_ladder

=============================================================================
