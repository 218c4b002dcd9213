------------------------------ MODULE JobQueue ------------------------------
(***************************************************************************)
(* backend/agent/queue.py (JobQueue, JobRecord), backend/agent/planner.py  *)
(* (Planner.execute) and backend/agent/trace.py (Trace.stage), with the    *)
(* wiring of backend/api/main.py: every call into the preprocessing,       *)
(* inference and evidence packages runs in a worker thread                 *)
(* (asyncio.to_thread), and one asyncio.Semaphore gates inference.         *)
(*                                                                         *)
(* One step of the model is one uninterrupted turn of the event loop (a    *)
(* coroutine runs from one await to the next), one HTTP request handled,   *)
(* or one event in the thread pool.                                        *)
(***************************************************************************)
EXTENDS Integers, Sequences, FiniteSets, SequencesExt

CONSTANTS
  Jobs,          \* identities of the jobs that may be submitted
  Requests,      \* the requests a client may submit, see Request
  MaxInference,  \* max_concurrent_inference
  Workers        \* threads in the event loop's default executor

ASSUME MaxInferenceAssumption == MaxInference \in Nat \ {0}
ASSUME WorkersAssumption      == Workers \in Nat \ {0}
ASSUME JobsAssumption         == IsFiniteSet(Jobs)

Modes == {"FAST", "DEEP", "RESEARCH"}

(* What the planner tells apart in a request: the class of task the intent *)
(* classifier gives it, how many images it names, the web-search toggle,   *)
(* the mode, and whether the query carries one of the signals              *)
(* should_search_web looks for. The classifier gives a supported task to   *)
(* one image or to two, and a cross-image task to two only                 *)
(* (intent.py:81-107).                                                     *)
Request ==
  {r \in [task   : {"unsupported", "single", "cross"},
          images : Nat,
          web    : BOOLEAN,
          mode   : Modes,
          signal : BOOLEAN] :
     /\ r.task = "single" => r.images = 1
     /\ r.task = "cross"  => r.images = 2}

ASSUME RequestsAssumption == Requests \subseteq Request

NoRequest == [task |-> "unsupported", images |-> 0, web |-> FALSE,
              mode |-> "DEEP", signal |-> FALSE]

VARIABLES
  (* JobRecord *)
  status, progress, result, error, trace,
  (* the arguments and locals of _run and execute *)
  request, coreg, tiled, evidence,
  (* the asyncio task: where it is suspended, and whether cancel() was     *)
  (* called on it while it was alive                                       *)
  pc, acked,
  (* the call the job last issued: which, and how far it is                *)
  callStage, callState,
  (* the asyncio.Semaphore *)
  gateValue, waiters, fut

record  == <<status, progress, result, error, trace>>
planner == <<request, coreg, tiled, evidence>>
calls   == <<callStage, callState>>
gate    == <<gateValue, waiters, fut>>
vars    == <<record, planner, pc, acked, calls, gate>>

Terminal == {"done", "failed", "cancelled"}

Stages == {"coregistration_check", "tiling", "inference", "web_search",
           "response_generation"}

Evidences == {"none", "coreg_refusal", "preprocess_refusal", "inference",
              "inference_search_failed"}

(* A call is queued for a thread, running in one, or has answered.         *)
Answers == {"ok", "misaligned", "error"}

Lines == {"classifying intent", "classified", "done", "failed", "cancelled"}

Futures == {"none", "pending", "granted", "cancelled"}

RecordTypes ==
  /\ status   \in [Jobs -> {"absent", "queued", "running"} \cup Terminal]
  /\ progress \in [Jobs -> Seq(Lines)]
  /\ result   \in [Jobs -> Evidences \cup {"unsupported"}]
  /\ error    \in [Jobs -> BOOLEAN]   \* whether record.error is set
  /\ trace    \in [Jobs -> Seq(Stages \X {"success", "failed"})]

PlannerTypes ==
  /\ request  \in [Jobs -> Request]
  /\ coreg    \in [Jobs -> {"unchecked", "aligned", "misaligned"}]
  /\ tiled    \in [Jobs -> Nat]
  /\ evidence \in [Jobs -> Evidences]

TaskTypes ==
  /\ pc        \in [Jobs -> {"none", "created", "gate", "returned", "raised", "over"}
                            \cup Stages]
  /\ acked     \in [Jobs -> BOOLEAN]
  /\ callStage \in [Jobs -> Stages \cup {"none"}]
  /\ callState \in [Jobs -> {"idle", "pending", "running"} \cup Answers]

GateTypes ==
  /\ gateValue \in Nat
  /\ waiters   \in Seq(Jobs)
  /\ fut       \in [Jobs -> Futures]

TypeOK == RecordTypes /\ PlannerTypes /\ TaskTypes /\ GateTypes

Init ==
  /\ status    = [j \in Jobs |-> "absent"]
  /\ progress  = [j \in Jobs |-> <<>>]
  /\ result    = [j \in Jobs |-> "none"]
  /\ error     = [j \in Jobs |-> FALSE]
  /\ trace     = [j \in Jobs |-> <<>>]
  /\ request   = [j \in Jobs |-> NoRequest]
  /\ coreg     = [j \in Jobs |-> "unchecked"]
  /\ tiled     = [j \in Jobs |-> 0]
  /\ evidence  = [j \in Jobs |-> "none"]
  /\ pc        = [j \in Jobs |-> "none"]
  /\ acked     = [j \in Jobs |-> FALSE]
  /\ callStage = [j \in Jobs |-> "none"]
  /\ callState = [j \in Jobs |-> "idle"]
  /\ gateValue = MaxInference
  /\ waiters   = <<>>
  /\ fut       = [j \in Jobs |-> "none"]

-----------------------------------------------------------------------------
(* Where the control of a request goes.                                    *)

(* planner.py:136: the co-registration gate applies. *)
Gated(r) == r.task = "cross" /\ r.images = 2

(* planner.py:190-196: the web is searched. *)
Searches(r) == r.web /\ r.mode # "FAST" /\ (r.mode = "RESEARCH" \/ r.signal)

-----------------------------------------------------------------------------
(* JobRecord and Trace. *)

Log(j, entry) == progress' = [progress EXCEPT ![j] = Append(@, entry)]

(* Trace.stage on leaving the block normally or by an Exception. *)
Traced(j, stage, outcome) ==
  trace' = [trace EXCEPT ![j] = Append(@, <<stage, outcome>>)]

-----------------------------------------------------------------------------
(* Calls. A thread is asked for the call; the web search is awaited on the *)
(* event loop itself and needs none.                                       *)

Call(j, stage) ==
  /\ pc' = [pc EXCEPT ![j] = stage]
  /\ callStage' = [callStage EXCEPT ![j] = stage]
  /\ callState' = [callState EXCEPT
                     ![j] = IF stage = "web_search" THEN "running" ELSE "pending"]

(* The task leaves its current await for a state in which it awaits no call. *)
LeaveCall(j, next) ==
  /\ pc' = [pc EXCEPT ![j] = next]
  /\ callStage' = [callStage EXCEPT ![j] = "none"]
  /\ callState' = [callState EXCEPT ![j] = "idle"]

-----------------------------------------------------------------------------
(* asyncio.Semaphore (CPython 3.12). *)

Pending(f) == {j \in Jobs : f[j] = "pending"}

(* Slip: the fast path looks at the value alone, so that a newcomer can    *)
(* take a permit past the tasks in the queue.                              *)
LockedByValueOnly == gateValue = 0

(* Slip: the fast path looks at the queue alone. *)
LockedByQueueOnly == \E i \in DOMAIN waiters : fut[waiters[i]] # "cancelled"

Locked == \/ gateValue = 0
          \/ \E i \in DOMAIN waiters : fut[waiters[i]] # "cancelled"

Before(q, i, j) == \E m, n \in DOMAIN q : m < n /\ q[m] = i /\ q[n] = j

(* Of the futures of f that still wait, resolve the first ones in queue    *)
(* order q: as many as the value v and the limit allow.                    *)
WakeUp(v, q, f, limit) ==
  \E W \in SUBSET Pending(f) :
    LET most == IF limit < v THEN limit ELSE v IN
    /\ Cardinality(W) <= most
    /\ W # Pending(f) => Cardinality(W) = most
    /\ \A j \in W, i \in Pending(f) : Before(q, i, j) => i \in W
    /\ fut' = [j \in Jobs |-> IF j \in W THEN "granted" ELSE f[j]]
    /\ gateValue' = v - Cardinality(W)

(* release(): _wake_up_next resolves one future at most. *)
Release == WakeUp(gateValue + 1, waiters, fut, 1) /\ UNCHANGED waiters

Place(q, j) == CHOOSE i \in DOMAIN q : q[i] = j

Without(q, j) == RemoveAt(q, Place(q, j))

(* What acquire() does on leaving its await with value v: drop the future, *)
(* then wake as many of the others as are allowed.                         *)
LeaveQueue(j, v) ==
  /\ waiters' = Without(waiters, j)
  /\ WakeUp(v, Without(waiters, j), [fut EXCEPT ![j] = "none"], v)

-----------------------------------------------------------------------------
(* JobQueue.submit: the record and the task are created in one turn. *)
Submit(j, r) ==
  /\ status[j] = "absent"
  /\ status' = [status EXCEPT ![j] = "queued"]
  /\ request' = [request EXCEPT ![j] = r]
  /\ pc' = [pc EXCEPT ![j] = "created"]
  /\ UNCHANGED <<progress, result, error, trace, coreg, tiled, evidence, acked,
                 calls, gate>>

(* Slip: the task is asked, the record is not. *)
CancellableByTask(j) ==
  /\ status[j] # "absent"
  /\ pc[j] \notin {"raised", "over"}

(* JobQueue.cancel answers TRUE exactly when this holds. *)
Cancellable(j) ==
  /\ status[j] \in {"queued", "running"}
  /\ pc[j] \notin {"returned", "raised", "over"}

(* task.cancel(): a future the task still waits for is cancelled at once,  *)
(* and with it a call no thread has begun and the web search, which runs   *)
(* in the task itself; a thread that has begun goes on. The CancelledError *)
(* reaches the coroutine in the task's next turn.                          *)
Cancel(j) ==
  /\ Cancellable(j)
  /\ acked' = [acked EXCEPT ![j] = TRUE]
  /\ fut' = [fut EXCEPT ![j] = IF @ = "pending" THEN "cancelled" ELSE @]
  /\ callState' = [callState EXCEPT
        ![j] = IF @ = "pending" \/ (@ = "running" /\ callStage[j] = "web_search")
               THEN "idle" ELSE @]
  /\ UNCHANGED <<record, planner, pc, callStage, gateValue, waiters>>

-----------------------------------------------------------------------------
(* The thread pool. *)

RunningThreads ==
  {j \in Jobs : callState[j] = "running" /\ callStage[j] # "web_search"}

StartCall(j) ==
  /\ callState[j] = "pending"
  /\ Cardinality(RunningThreads) < Workers
  /\ callState' = [callState EXCEPT ![j] = "running"]
  /\ UNCHANGED <<record, planner, pc, acked, callStage, gate>>

(* The call ends: its answer completes the future the task waits for, or   *)
(* is dropped when a cancellation has already taken that future away.      *)
ReturnCall(j, answer) ==
  /\ callState[j] = "running"
  /\ answer = "misaligned" => callStage[j] = "coregistration_check"
  /\ callState' = [callState EXCEPT ![j] = IF acked[j] THEN "idle" ELSE answer]
  /\ UNCHANGED <<record, planner, pc, acked, callStage, gate>>

-----------------------------------------------------------------------------
(* The end of a task. *)

(* _run returns normally: a result and "done". *)
Complete(j, res) ==
  /\ result' = [result EXCEPT ![j] = res]
  /\ status' = [status EXCEPT ![j] = "done"]
  /\ UNCHANGED error

(* _run's "except Exception". *)
Fail(j) ==
  /\ status' = [status EXCEPT ![j] = "failed"]
  /\ error' = [error EXCEPT ![j] = TRUE]
  /\ Log(j, "failed")
  /\ LeaveCall(j, "returned")
  /\ UNCHANGED result

(* Slip: the done callback marks every task cancelled that was asked to    *)
(* stop or not.                                                            *)
OnTaskDoneForAll(j) ==
  /\ pc[j] \in {"returned", "raised"}
  /\ pc' = [pc EXCEPT ![j] = "over"]
  /\ status' = [status EXCEPT ![j] = "cancelled"]
  /\ progress' = [progress EXCEPT ![j] = Append(@, "cancelled")]
  /\ UNCHANGED <<result, error, trace, planner, acked, calls, gate>>

(* Slip: the done callback adds its line though _run has added it, and     *)
(* leaves the status to _run.                                              *)
OnTaskDoneLineOnly(j) ==
  /\ pc[j] \in {"returned", "raised"}
  /\ pc' = [pc EXCEPT ![j] = "over"]
  /\ progress' = IF pc[j] = "raised"
                 THEN [progress EXCEPT ![j] = Append(@, "cancelled")] ELSE progress
  /\ UNCHANGED <<status, result, error, trace, planner, acked, calls, gate>>

(* _on_task_done, in a turn of its own after the task has ended. *)
OnTaskDone(j) ==
  /\ pc[j] \in {"returned", "raised"}
  /\ pc' = [pc EXCEPT ![j] = "over"]
  /\ IF pc[j] = "raised"
     THEN /\ status' = [status EXCEPT ![j] = "cancelled"]
          /\ progress' = [progress EXCEPT
               ![j] = IF @ # <<>> /\ @[Len(@)] = "cancelled" THEN @
                      ELSE Append(@, "cancelled")]
     ELSE UNCHANGED <<status, progress>>
  /\ UNCHANGED <<result, error, trace, planner, acked, calls, gate>>

-----------------------------------------------------------------------------
(* Inference behind the gate (planner.py:157-168). *)

(* acquire() succeeds at once, and run_inference is called. *)
AcquireNow(j) ==
  /\ ~Locked
  /\ gateValue' = gateValue - 1
  /\ Call(j, "inference")
  /\ UNCHANGED <<waiters, fut>>

WaitTurn(j) ==
  /\ Locked
  /\ waiters' = Append(waiters, j)
  /\ fut' = [fut EXCEPT ![j] = "pending"]
  /\ LeaveCall(j, "gate")
  /\ UNCHANGED gateValue

ReachGate(j) == AcquireNow(j) \/ WaitTurn(j)

-----------------------------------------------------------------------------
(* The turns of a task. The first turn of a cancelled task throws before   *)
(* any line of _run: the record is not touched.                            *)
StartCancelled(j) ==
  /\ pc[j] = "created" /\ acked[j]
  /\ pc' = [pc EXCEPT ![j] = "raised"]
  /\ UNCHANGED <<record, planner, acked, calls, gate>>

(* An unsupported task is answered in the first turn, with no stage at all. *)
StartUnsupported(j) ==
  /\ pc[j] = "created" /\ ~acked[j]
  /\ request[j].task = "unsupported"
  /\ Complete(j, "unsupported")
  /\ progress' = [progress EXCEPT
                    ![j] = @ \o <<"classifying intent", "classified", "done">>]
  /\ pc' = [pc EXCEPT ![j] = "returned"]
  /\ UNCHANGED <<trace, planner, acked, calls, gate>>

StartPlan(j) ==
  /\ pc[j] = "created" /\ ~acked[j]
  /\ request[j].task # "unsupported"
  /\ status' = [status EXCEPT ![j] = "running"]
  /\ progress' = [progress EXCEPT ![j] = @ \o <<"classifying intent", "classified">>]
  /\ IF Gated(request[j])
     THEN Call(j, "coregistration_check")
     ELSE Call(j, "tiling")
  /\ UNCHANGED <<result, error, trace, planner, acked, gate>>

(* Slip: the answer is taken though the task was cancelled meanwhile. *)
AnsweredThoughCancelled(j, stage, answer) ==
  /\ pc[j] = stage
  /\ callState[j] = answer

(* A task whose call has answered, and that was not cancelled meanwhile.   *)
Answered(j, stage, answer) ==
  /\ pc[j] = stage
  /\ ~acked[j]
  /\ callState[j] = answer

CoregAligned(j) ==
  /\ Answered(j, "coregistration_check", "ok")
  /\ coreg' = [coreg EXCEPT ![j] = "aligned"]
  /\ Traced(j, "coregistration_check", "success")
  /\ Call(j, "tiling")
  /\ UNCHANGED <<status, progress, result, error, request, tiled, evidence, acked, gate>>

(* Slip: the refusal is noted, and the plan goes on. *)
CoregRefusedGoesOn(j) ==
  /\ Answered(j, "coregistration_check", "misaligned")
  /\ coreg' = [coreg EXCEPT ![j] = "misaligned"]
  /\ evidence' = [evidence EXCEPT ![j] = "coreg_refusal"]
  /\ Traced(j, "coregistration_check", "success")
  /\ Call(j, "tiling")
  /\ UNCHANGED <<status, progress, result, error, request, tiled, acked, gate>>

(* planner.py:139-142: the refusal is answered without tiles or inference. *)
CoregRefused(j) ==
  /\ Answered(j, "coregistration_check", "misaligned")
  /\ coreg' = [coreg EXCEPT ![j] = "misaligned"]
  /\ evidence' = [evidence EXCEPT ![j] = "coreg_refusal"]
  /\ Traced(j, "coregistration_check", "success")
  /\ Call(j, "response_generation")
  /\ UNCHANGED <<status, progress, result, error, request, tiled, acked, gate>>

(* One image is tiled per call, in the order of the request. *)
TileNext(j) ==
  /\ Answered(j, "tiling", "ok")
  /\ tiled' = [tiled EXCEPT ![j] = @ + 1]
  /\ IF tiled[j] + 1 < request[j].images
     THEN /\ Call(j, "tiling")
          /\ UNCHANGED <<trace, gate>>
     ELSE /\ Traced(j, "tiling", "success")
          /\ ReachGate(j)
  /\ UNCHANGED <<status, progress, result, error, request, coreg, evidence, acked>>

(* Slip: tiling's exceptions are not caught by the planner. *)
TilingFailedFailsJob(j) ==
  /\ Answered(j, "tiling", "error")
  /\ Traced(j, "tiling", "failed")
  /\ Fail(j)
  /\ UNCHANGED <<planner, acked, gate>>

(* planner.py:149-155: tiling's exceptions become a refusal, not a failure. *)
TilingFailed(j) ==
  /\ Answered(j, "tiling", "error")
  /\ evidence' = [evidence EXCEPT ![j] = "preprocess_refusal"]
  /\ Traced(j, "tiling", "failed")
  /\ Call(j, "response_generation")
  /\ UNCHANGED <<status, progress, result, error, request, coreg, tiled, acked, gate>>

(* The gate's turn comes: acquire() returns and run_inference is called.   *)
GateGranted(j) ==
  /\ pc[j] = "gate" /\ ~acked[j]
  /\ fut[j] = "granted"
  /\ LeaveQueue(j, gateValue)
  /\ Call(j, "inference")
  /\ UNCHANGED <<record, planner, acked>>

(* Slip: the inference block is not traced. *)
InferenceDoneUntraced(j) ==
  /\ Answered(j, "inference", "ok")
  /\ evidence' = [evidence EXCEPT ![j] = "inference"]
  /\ Release
  /\ Call(j, IF Searches(request[j]) THEN "web_search" ELSE "response_generation")
  /\ UNCHANGED <<status, progress, result, error, trace, request, coreg, tiled, acked>>

(* The gate is released, then the stage is traced, then the web is         *)
(* searched if the request asks for it.                                    *)
InferenceDone(j) ==
  /\ Answered(j, "inference", "ok")
  /\ evidence' = [evidence EXCEPT ![j] = "inference"]
  /\ Release
  /\ Traced(j, "inference", "success")
  /\ Call(j, IF Searches(request[j]) THEN "web_search" ELSE "response_generation")
  /\ UNCHANGED <<status, progress, result, error, request, coreg, tiled, acked>>

(* planner.py:197-201: a failed search is a warning on the evidence. *)
SearchDone(j) ==
  /\ \/ Answered(j, "web_search", "ok") /\ UNCHANGED evidence
     \/ /\ Answered(j, "web_search", "error")
        /\ evidence' = [evidence EXCEPT ![j] = "inference_search_failed"]
  /\ Traced(j, "web_search", "success")
  /\ Call(j, "response_generation")
  /\ UNCHANGED <<status, progress, result, error, request, coreg, tiled, acked, gate>>

Respond(j) ==
  /\ Answered(j, "response_generation", "ok")
  /\ Traced(j, "response_generation", "success")
  /\ Complete(j, evidence[j])
  /\ Log(j, "done")
  /\ LeaveCall(j, "returned")
  /\ UNCHANGED <<planner, acked, gate>>

(* Every other exception leaves the planner and fails the job. An          *)
(* exception of run_inference releases the gate on its way out.            *)
StageFailed(j) ==
  \E stage \in {"coregistration_check", "inference", "response_generation"} :
    /\ Answered(j, stage, "error")
    /\ Traced(j, stage, "failed")
    /\ Fail(j)
    /\ IF stage = "inference" THEN Release ELSE UNCHANGED gate
    /\ UNCHANGED <<planner, acked>>

(* Slip: a granted turn is not given back when its task is cancelled. *)
ThrowCancelledKeepsTurn(j) ==
  /\ pc[j] \in Stages \cup {"gate"}
  /\ acked[j]
  /\ pc' = [pc EXCEPT ![j] = "raised"]
  /\ Log(j, "cancelled")
  /\ CASE pc[j] = "inference" -> Release
       [] pc[j] = "gate" -> LeaveQueue(j, gateValue)
       [] OTHER -> UNCHANGED gate
  /\ callState' = [callState EXCEPT ![j] = IF @ \in Answers THEN "idle" ELSE @]
  /\ UNCHANGED <<status, result, error, trace, planner, acked, callStage>>

(* Slip: the gate is released by the normal exit only. *)
ThrowCancelledKeepsGate(j) ==
  /\ pc[j] \in Stages \cup {"gate"}
  /\ acked[j]
  /\ pc' = [pc EXCEPT ![j] = "raised"]
  /\ Log(j, "cancelled")
  /\ IF pc[j] = "gate"
     THEN LeaveQueue(j, IF fut[j] = "granted" THEN gateValue + 1 ELSE gateValue)
     ELSE UNCHANGED gate
  /\ callState' = [callState EXCEPT ![j] = IF @ \in Answers THEN "idle" ELSE @]
  /\ UNCHANGED <<status, result, error, trace, planner, acked, callStage>>

(* The CancelledError is thrown at the await the task is suspended at. It  *)
(* passes every "except Exception" and Trace.stage; a place in the gate's  *)
(* queue, a turn already granted, or the gate itself is given back.        *)
ThrowCancelled(j) ==
  /\ pc[j] \in Stages \cup {"gate"}
  /\ acked[j]
  /\ pc' = [pc EXCEPT ![j] = "raised"]
  /\ Log(j, "cancelled")
  /\ CASE pc[j] = "inference" -> Release
       [] pc[j] = "gate" ->
            LeaveQueue(j, IF fut[j] = "granted" THEN gateValue + 1 ELSE gateValue)
       [] OTHER -> UNCHANGED gate
  /\ callState' = [callState EXCEPT ![j] = IF @ \in Answers THEN "idle" ELSE @]
  /\ UNCHANGED <<status, result, error, trace, planner, acked, callStage>>

-----------------------------------------------------------------------------
(* A turn of the event loop for j, once its task is ready to run. *)
Turn(j) ==
  \/ StartCancelled(j)
  \/ StartUnsupported(j)
  \/ StartPlan(j)
  \/ CoregAligned(j)
  \/ CoregRefused(j)
  \/ TileNext(j)
  \/ TilingFailed(j)
  \/ GateGranted(j)
  \/ InferenceDone(j)
  \/ SearchDone(j)
  \/ Respond(j)
  \/ StageFailed(j)
  \/ ThrowCancelled(j)
  \/ OnTaskDone(j)

Return(j) == \E answer \in Answers : ReturnCall(j, answer)

Next ==
  \E j \in Jobs :
    \/ \E r \in Requests : Submit(j, r)
    \/ Cancel(j)
    \/ StartCall(j)
    \/ Return(j)
    \/ Turn(j)

(* The event loop runs every ready task, the pool runs every queued call   *)
(* while a thread is free, and every call ends. Clients need do nothing.   *)
Fairness ==
  \A j \in Jobs : WF_vars(StartCall(j)) /\ WF_vars(Return(j)) /\ WF_vars(Turn(j))

Spec == Init /\ [][Next]_vars /\ Fairness

-----------------------------------------------------------------------------
(* Safety.                                                                 *)

InGate == {j \in Jobs : pc[j] = "inference"}
GrantedTurn == {j \in Jobs : fut[j] = "granted"}

(* No permit of the inference gate is ever lost or made up: those free,    *)
(* those granted to a task that has not run yet and those of the tasks     *)
(* inside the gate are max_concurrent_inference in all, whatever is        *)
(* cancelled and whenever (planner.py:158, Semaphore.acquire/release).     *)
GateAccounting ==
  gateValue + Cardinality(GrantedTurn) + Cardinality(InGate) = MaxInference

(* Nobody waits at a free gate: while a permit is free, a task that is     *)
(* still queued is preceded by one whose turn is granted and that will     *)
(* pass the wake-up on.                                                    *)
NoLostWakeup ==
  gateValue > 0 /\ Pending(fut) # {} => GrantedTurn # {}

(* "two simultaneous requests must queue": turns are granted in the order  *)
(* in which the tasks came to the gate, cancelled ones skipped.            *)
GrantsInOrder ==
  \A j \in GrantedTurn, i \in Pending(fut) : ~Before(waiters, i, j)

(* The inference gate as planner.py:157 relies on it: no permit is lost,   *)
(* nobody is forgotten at it and nobody is preferred.                      *)
GateIsFair == GateAccounting /\ NoLostWakeup /\ GrantsInOrder

(* An acknowledged cancellation is kept: the job is never reported done or *)
(* failed afterwards, and has no result, even when its last call answered  *)
(* before the CancelledError reached it (queue.py:93-121).                 *)
AckHonoured ==
  \A j \in Jobs : acked[j] => status[j] \notin {"done", "failed"} /\ result[j] = "none"

LastOf(q) == q[Len(q)]

(* What GET /api/jobs/{id} shows is consistent in every turn: the status,  *)
(* the last line of progress and the presence of a result and of an error  *)
(* agree, and a task that is over has a terminal record.                   *)
RecordConsistent ==
  \A j \in Jobs :
    /\ status[j] = "done" <=> result[j] # "none"
    /\ status[j] = "failed" <=> error[j]
    /\ status[j] \in Terminal => progress[j] # <<>> /\ LastOf(progress[j]) = status[j]
    /\ status[j] = "cancelled" => pc[j] = "over" /\ acked[j]
    /\ pc[j] \in {"returned", "over"} => status[j] \in Terminal

(* Cross-image inference never runs on a pair that was not found aligned,  *)
(* and a refused pair is never answered with evidence of inference         *)
(* (planner.py:136-142).                                                   *)
NoInferenceUnlessAligned ==
  \A j \in Jobs :
    /\ callStage[j] = "inference" /\ Gated(request[j]) => coreg[j] = "aligned"
    /\ coreg[j] = "misaligned" => result[j] \in {"none", "coreg_refusal"}

(* Inference is asked for only when every image of the request was tiled.  *)
(* The planner hands over all_tiles as one batch (planner.py:144-168).     *)
InferenceSeesEveryImage ==
  \A j \in Jobs : callStage[j] = "inference" => tiled[j] = request[j].images

(* The two together: what the planner has prepared when it infers          *)
(* (planner.py:122-178).                                                   *)
InferenceIsPrepared == NoInferenceUnlessAligned /\ InferenceSeesEveryImage

(* A job fails only by the stages the planner does not guard: tiling's and *)
(* the search's exceptions never fail it (planner.py:101-109, 170-178),    *)
(* and the trace names the stage that did.                                 *)
FailureIsTraced ==
  \A j \in Jobs : status[j] = "failed" =>
    /\ trace[j] # <<>>
    /\ LastOf(trace[j])[2] = "failed"
    /\ LastOf(trace[j])[1] \in {"coregistration_check", "inference", "response_generation"}

(* The trace of a job that is done tells how it was answered: without any  *)
(* stage if unsupported, and otherwise response_generation succeeded last, *)
(* after a successful inference unless the answer is a refusal.            *)
TraceExplainsAnswer ==
  \A j \in Jobs : status[j] = "done" =>
    IF result[j] = "unsupported" THEN trace[j] = <<>>
    ELSE /\ trace[j] # <<>>
         /\ LastOf(trace[j]) = <<"response_generation", "success">>
         /\ result[j] \in {"inference", "inference_search_failed"} <=>
              \E i \in DOMAIN trace[j] : trace[j][i] = <<"inference", "success">>

-----------------------------------------------------------------------------
(* What a step may never do.                                               *)

(* A terminal record is final: neither a late answer of a thread, nor a    *)
(* second Stop, nor the done callback changes what a client has read.      *)
TerminalIsFinal ==
  [][\A j \in Jobs : status[j] \in Terminal =>
       /\ status'[j] = status[j]
       /\ result'[j] = result[j] /\ error'[j] = error[j]
       /\ progress'[j] = progress[j]
       /\ trace'[j] = trace[j]]_vars

(* No task overtakes another at the gate: one that enters while another    *)
(* was and stays in the queue, its turn granted or not, had its own turn   *)
(* granted.                                                                *)
NoOvertaking ==
  [][\A i, j \in Jobs :
       /\ fut[i] \in {"pending", "granted"} /\ fut'[i] \in {"pending", "granted"}
       /\ pc[j] # "inference" /\ pc'[j] = "inference"
       => fut[j] = "granted"]_vars

-----------------------------------------------------------------------------
(* Progress, under Fairness.                                               *)

(* Every submitted job ends, and its record says so. *)
EveryJobEnds ==
  \A j \in Jobs : status[j] = "queued" ~> status[j] \in Terminal

-----------------------------------------------------------------------------
(* The queue implements the life cycle it promises.                        *)
Lifecycle == INSTANCE JobLifecycle

ImplementsLifecycle == Lifecycle!Spec

-----------------------------------------------------------------------------
(* What the documents say and the code does not do.                        *)

(* "two simultaneous requests must queue, never collide" (queue.py:5-6):   *)
(* at most max_concurrent_inference calls of run_inference execute.        *)
InferenceNeverCollides ==
  Cardinality({j \in RunningThreads : callStage[j] = "inference"}) <= MaxInference
=============================================================================
