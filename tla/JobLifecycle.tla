---------------------------- MODULE JobLifecycle ----------------------------
(***************************************************************************)
(* What JobQueue promises to a client of the HTTP API, and nothing about   *)
(* how it does it: the life of a job record as GET /api/jobs/{id} shows    *)
(* it, and the effect of a cancellation that POST /api/jobs/{id}/cancel    *)
(* has acknowledged.                                                       *)
(***************************************************************************)
CONSTANT Jobs

VARIABLES
  status,   \* status[j]: what the record of job j says ("absent" before it exists)
  acked     \* acked[j]: some cancel request for j was answered "cancelled": true

vars == <<status, acked>>

Terminal == {"done", "failed", "cancelled"}

Statuses == {"absent", "queued", "running"} \cup Terminal

Init ==
  /\ status = [j \in Jobs |-> "absent"]
  /\ acked  = [j \in Jobs |-> FALSE]

Submit(j) ==
  /\ status[j] = "absent"
  /\ status' = [status EXCEPT ![j] = "queued"]
  /\ UNCHANGED acked

(* Only a job that is still alive can be promised a cancellation. *)
AckCancel(j) ==
  /\ status[j] \in {"queued", "running"}
  /\ acked' = [acked EXCEPT ![j] = TRUE]
  /\ UNCHANGED status

Run(j) ==
  /\ status[j] = "queued"
  /\ ~acked[j]
  /\ status' = [status EXCEPT ![j] = "running"]
  /\ UNCHANGED acked

(* An outcome is delivered only while no cancellation has been promised.   *)
Finish(j, outcome) ==
  /\ status[j] \in {"queued", "running"}
  /\ ~acked[j]
  /\ status' = [status EXCEPT ![j] = outcome]
  /\ UNCHANGED acked

Abort(j) ==
  /\ status[j] \in {"queued", "running"}
  /\ acked[j]
  /\ status' = [status EXCEPT ![j] = "cancelled"]
  /\ UNCHANGED acked

Progress(j) ==
  \/ Run(j)
  \/ \E outcome \in {"done", "failed"} : Finish(j, outcome)
  \/ Abort(j)

Next == \E j \in Jobs : Submit(j) \/ AckCancel(j) \/ Progress(j)

Safety == Init /\ [][Next]_vars

(* Every job that exists comes to an end: Run can be taken once only, so   *)
(* weak fairness of the three together ends in Finish or Abort.            *)
Spec == Safety /\ \A j \in Jobs : WF_vars(Progress(j))
=============================================================================
