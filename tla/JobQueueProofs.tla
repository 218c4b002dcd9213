--------------------------- MODULE JobQueueProofs ---------------------------
(***************************************************************************)
(* Theorems about JobQueue, for every set of jobs and requests, any number *)
(* of permits and any number of threads.                                   *)
(***************************************************************************)
EXTENDS JobQueue, FiniteSetTheorems, SequenceTheorems, TLAPS

(* The queue of the semaphore holds exactly the tasks suspended in         *)
(* acquire(), each once, and a future is cancelled only with its task.     *)
QueueOK ==
  /\ \A j \in Jobs : pc[j] = "gate" <=> \E i \in DOMAIN waiters : waiters[i] = j
  /\ \A m, n \in DOMAIN waiters : waiters[m] = waiters[n] => m = n
  /\ \A j \in Jobs : pc[j] = "gate" <=> fut[j] # "none"
  /\ \A j \in Jobs : fut[j] = "cancelled" => acked[j]
  /\ \A j \in Jobs : acked[j] => fut[j] # "pending"

-----------------------------------------------------------------------------
(* The queue without one of its members: a sequence of the others, in the  *)
(* same order.                                                             *)
LEMMA WithoutMember ==
  ASSUME NEW q \in Seq(Jobs), NEW p \in DOMAIN q,
         \A m, n \in DOMAIN q : q[m] = q[n] => m = n
  PROVE  /\ Without(q, q[p]) \in Seq(Jobs)
         /\ Len(Without(q, q[p])) = Len(q) - 1
         /\ \A i \in 1..(Len(q) - 1) :
              Without(q, q[p])[i] = IF i < p THEN q[i] ELSE q[i + 1]
<1>1. Place(q, q[p]) = p
  BY DEF Place
<1>2. Without(q, q[p]) = SubSeq(q, 1, p - 1) \o SubSeq(q, p + 1, Len(q))
  BY <1>1 DEF Without, RemoveAt
<1>3. p \in 1..Len(q) /\ Len(q) \in Nat
  BY LenProperties
<1> DEFINE a == SubSeq(q, 1, p - 1)
           b == SubSeq(q, p + 1, Len(q))
<1>4. /\ a \in Seq(Jobs) /\ Len(a) = p - 1
      /\ \A i \in 1..(p - 1) : a[i] = q[i]
  BY <1>3, SubSeqProperties
<1>5. /\ b \in Seq(Jobs) /\ Len(b) = Len(q) - p
      /\ \A i \in 1..(Len(q) - p) : b[i] = q[p + i]
  BY <1>3, SubSeqProperties
<1>6. /\ a \o b \in Seq(Jobs)
      /\ Len(a \o b) = Len(a) + Len(b)
      /\ \A i \in 1..(Len(a) + Len(b)) :
           (a \o b)[i] = IF i <= Len(a) THEN a[i] ELSE b[i - Len(a)]
  BY <1>4, <1>5, ConcatProperties, ZenonT(60)
<1> HIDE DEF a, b
<1>7. Len(a \o b) = Len(q) - 1
  BY <1>3, <1>4, <1>5, <1>6
<1>8. ASSUME NEW i \in 1..(Len(q) - 1)
      PROVE  (a \o b)[i] = IF i < p THEN q[i] ELSE q[i + 1]
  <2>1. (a \o b)[i] = IF i <= p - 1 THEN a[i] ELSE b[i - (p - 1)]
    <3>1. i \in 1..(Len(a) + Len(b)) /\ Len(a) = p - 1
      BY <1>3, <1>4, <1>5
    <3>2. QED BY <1>6, <3>1
  <2>2. CASE i < p
    BY <1>3, <1>4, <2>1, <2>2
  <2>3. CASE i >= p
    <3>1. i - (p - 1) \in 1..(Len(q) - p)
      BY <1>3, <2>3
    <3>2. b[i - (p - 1)] = q[p + (i - (p - 1))]
      BY <1>5, <3>1
    <3>3. p + (i - (p - 1)) = i + 1 /\ ~(i <= p - 1) /\ ~(i < p)
      BY <1>3, <2>3
    <3>4. (a \o b)[i] = b[i - (p - 1)]
      BY <2>1, <3>3
    <3>5. QED BY <3>2, <3>3, <3>4
  <2>4. i < p \/ i >= p
    BY <1>3
  <2>5. QED BY <2>2, <2>3, <2>4
<1>9. QED
  BY <1>2, <1>6, <1>7, <1>8 DEF a, b

(* Who is in the queue without j, and in which order. *)
LEMMA WithoutOrder ==
  ASSUME NEW q \in Seq(Jobs), NEW j \in Jobs,
         \A m, n \in DOMAIN q : q[m] = q[n] => m = n,
         \E p \in DOMAIN q : q[p] = j
  PROVE  /\ Without(q, j) \in Seq(Jobs)
         /\ \A m, n \in DOMAIN Without(q, j) :
              Without(q, j)[m] = Without(q, j)[n] => m = n
         /\ \A k : (\E i \in DOMAIN Without(q, j) : Without(q, j)[i] = k)
                   <=> k # j /\ \E i \in DOMAIN q : q[i] = k
         /\ \A k, l : Before(Without(q, j), k, l) => Before(q, k, l)
<1> PICK p \in DOMAIN q : q[p] = j
  OBVIOUS
<1> DEFINE w == Without(q, j)
<1>1. /\ w \in Seq(Jobs) /\ Len(w) = Len(q) - 1
      /\ \A i \in 1..(Len(q) - 1) : w[i] = IF i < p THEN q[i] ELSE q[i + 1]
  BY WithoutMember
<1> HIDE DEF w
<1>2. DOMAIN q = 1..Len(q) /\ DOMAIN w = 1..(Len(q) - 1) /\ Len(q) \in Nat
  BY <1>1, LenProperties
<1>3. \A m, n \in DOMAIN w : w[m] = w[n] => m = n
  BY <1>1, <1>2, SMTT(30)
<1>4. ASSUME NEW k
      PROVE  (\E i \in DOMAIN w : w[i] = k) <=> k # j /\ \E i \in DOMAIN q : q[i] = k
  <2>1. ASSUME NEW i \in DOMAIN w, w[i] = k
        PROVE  k # j /\ \E n \in DOMAIN q : q[n] = k
    BY <1>1, <1>2, <2>1
  <2>2. ASSUME NEW i \in DOMAIN q, q[i] = k, k # j
        PROVE  \E n \in DOMAIN w : w[n] = k
    <3>1. CASE i < p
      <4>1. i \in DOMAIN w /\ w[i] = k
        BY <1>1, <1>2, <2>2, <3>1
      <4>2. QED BY <4>1
    <3>2. CASE i > p
      <4>1. i - 1 \in DOMAIN w /\ w[i - 1] = k
        BY <1>1, <1>2, <2>2, <3>2
      <4>2. QED BY <4>1
    <3>3. QED BY <1>2, <2>2, <3>1, <3>2
  <2>3. QED BY <2>1, <2>2
<1>5. ASSUME NEW k, NEW l, Before(w, k, l)
      PROVE  Before(q, k, l)
  <2>1. PICK m \in DOMAIN w, n \in DOMAIN w : m < n /\ w[m] = k /\ w[n] = l
    BY <1>5 DEF Before
  <2> DEFINE up(i) == IF i < p THEN i ELSE i + 1
  <2>2. /\ up(m) \in DOMAIN q /\ up(n) \in DOMAIN q /\ up(m) < up(n)
        /\ q[up(m)] = k /\ q[up(n)] = l
    BY <1>1, <1>2, <2>1
  <2>3. QED BY <2>2 DEF Before
<1>6. QED
  BY <1>1, <1>3, <1>4, <1>5 DEF w

-----------------------------------------------------------------------------
(* Sets of jobs have a cardinality, those of the gate among them. *)
LEMMA FiniteJobs ==
  ASSUME NEW S \in SUBSET Jobs
  PROVE  IsFiniteSet(S) /\ Cardinality(S) \in Nat
BY JobsAssumption, FS_Subset, FS_CardinalityType

(* What waking the first waiters does to the permits and to the futures.   *)
LEMMA WakeUpEffect ==
  ASSUME NEW v \in Nat, NEW q, NEW f \in [Jobs -> Futures], NEW limit \in Nat,
         WakeUp(v, q, f, limit)
  PROVE  /\ gateValue' \in Nat
         /\ fut' \in [Jobs -> Futures]
         /\ \A j \in Jobs : f[j] # "pending" => fut'[j] = f[j]
         /\ \A j \in Jobs : f[j] = "pending" => fut'[j] \in {"pending", "granted"}
         /\ \A i, j \in Jobs :
              f[j] = "pending" /\ fut'[j] = "granted" /\ fut'[i] = "pending"
              => ~Before(q, i, j)
         /\ gateValue' + Cardinality({j \in Jobs : fut'[j] = "granted"})
              = v + Cardinality({j \in Jobs : f[j] = "granted"})
         /\ (\E i \in Jobs : fut'[i] = "pending") /\ limit = v => gateValue' = 0
         /\ (\E i \in Jobs : fut'[i] = "pending") /\ limit > 0 /\ v > 0
              => \E j \in Jobs : fut'[j] = "granted"
<1> DEFINE most == IF limit < v THEN limit ELSE v
<1>1. PICK W \in SUBSET Pending(f) :
        /\ Cardinality(W) <= most
        /\ W # Pending(f) => Cardinality(W) = most
        /\ \A j \in W, i \in Pending(f) : Before(q, i, j) => i \in W
        /\ fut' = [j \in Jobs |-> IF j \in W THEN "granted" ELSE f[j]]
        /\ gateValue' = v - Cardinality(W)
  BY DEF WakeUp
<1> DEFINE G == {j \in Jobs : f[j] = "granted"}
           H == {j \in Jobs : fut'[j] = "granted"}
<1>2. /\ W \subseteq Jobs /\ G \subseteq Jobs
      /\ IsFiniteSet(W) /\ Cardinality(W) \in Nat
      /\ IsFiniteSet(G) /\ Cardinality(G) \in Nat
  BY <1>1, FiniteJobs DEF Pending
<1>3. gateValue' \in Nat /\ fut' \in [Jobs -> Futures]
  BY <1>1, <1>2 DEF Futures
<1>4. H = G \cup W /\ G \cap W = {}
  BY <1>1, <1>2 DEF Pending
<1> HIDE DEF G, H
<1>5. Cardinality(G \cup W) = Cardinality(G) + Cardinality(W)
  <2>1. Cardinality(G \cup W) = Cardinality(G) + Cardinality(W) - Cardinality(G \cap W)
    BY <1>2, FS_Union
  <2>2. Cardinality(G \cap W) = 0
    BY <1>4, FS_EmptySet
  <2>3. QED BY <1>2, <2>1, <2>2
<1>6. gateValue' + Cardinality(H) = v + Cardinality(G)
  BY <1>1, <1>2, <1>4, <1>5
<1>7. ASSUME NEW i \in Jobs, fut'[i] = "pending"
      PROVE  i \in Pending(f) /\ W # Pending(f) /\ Cardinality(W) = most
  BY <1>1, <1>2, <1>7 DEF Pending
<1>8. (\E i \in Jobs : fut'[i] = "pending") /\ limit = v => gateValue' = 0
  BY <1>1, <1>2, <1>7
<1>9. ASSUME NEW i \in Jobs, fut'[i] = "pending", limit > 0, v > 0
      PROVE  \E j \in Jobs : fut'[j] = "granted"
  <2>1. Cardinality(W) > 0
    BY <1>7, <1>9
  <2>2. W # {}
    BY <2>1, FS_EmptySet
  <2>3. QED BY <1>1, <1>2, <2>2
<1>10. ASSUME NEW i \in Jobs, NEW j \in Jobs,
              f[j] = "pending", fut'[j] = "granted", fut'[i] = "pending"
       PROVE  ~Before(q, i, j)
  <2>1. j \in W /\ i \in Pending(f) /\ i \notin W
    BY <1>1, <1>10 DEF Pending
  <2>2. QED BY <1>1, <2>1
<1>11. /\ \A j \in Jobs : f[j] # "pending" => fut'[j] = f[j]
       /\ \A j \in Jobs : f[j] = "pending" => fut'[j] \in {"pending", "granted"}
  BY <1>1, <1>2 DEF Pending
<1>12. QED
  BY <1>3, <1>6, <1>8, <1>9, <1>10, <1>11 DEF G, H

-----------------------------------------------------------------------------
(* The gate's variables keep their types through each of its operations.   *)
LEMMA ReleaseTypes ==
  ASSUME TypeOK, Release
  PROVE  GateTypes'
<1>1. gateValue + 1 \in Nat /\ fut \in [Jobs -> Futures] /\ 1 \in Nat
  BY DEF TypeOK, GateTypes
<1>2. gateValue' \in Nat /\ fut' \in [Jobs -> Futures]
  BY <1>1, WakeUpEffect DEF Release
<1>3. QED BY <1>2 DEF Release, GateTypes, TypeOK

(* A task that leaves the queue leaves the gate well typed. *)
LEMMA LeaveQueueTypes ==
  ASSUME TypeOK, QueueOK, NEW j \in Jobs, pc[j] = "gate", NEW v \in Nat,
         LeaveQueue(j, v)
  PROVE  GateTypes'
<1>1. Without(waiters, j) \in Seq(Jobs)
  BY WithoutOrder DEF TypeOK, GateTypes, QueueOK
<1>2. [fut EXCEPT ![j] = "none"] \in [Jobs -> Futures]
  BY DEF TypeOK, GateTypes, Futures
<1>3. gateValue' \in Nat /\ fut' \in [Jobs -> Futures]
  BY <1>2, WakeUpEffect DEF LeaveQueue
<1>4. QED BY <1>1, <1>3 DEF LeaveQueue, GateTypes

(* A task that comes to the gate leaves it well typed. *)
LEMMA ReachGateTypes ==
  ASSUME TypeOK, NEW j \in Jobs, ReachGate(j)
  PROVE  /\ GateTypes'
         /\ pc' \in [Jobs -> {"none", "created", "gate", "returned", "raised", "over"}
                             \cup Stages]
         /\ callStage' \in [Jobs -> Stages \cup {"none"}]
         /\ callState' \in [Jobs -> {"idle", "pending", "running"} \cup Answers]
<1>1. CASE AcquireNow(j)
  <2>1. gateValue - 1 \in Nat
    BY <1>1 DEF AcquireNow, Locked, TypeOK, GateTypes
  <2>2. QED
    BY <1>1, <2>1 DEF AcquireNow, Call, TypeOK, TaskTypes, GateTypes, Stages
<1>2. CASE WaitTurn(j)
  <2>1. waiters' \in Seq(Jobs)
    BY <1>2, AppendProperties DEF WaitTurn, TypeOK, GateTypes
  <2>2. QED
    BY <1>2, <2>1 DEF WaitTurn, LeaveCall, TypeOK, TaskTypes, GateTypes, Futures
<1>3. QED BY <1>1, <1>2 DEF ReachGate

(* A record gains a line of progress, a trace a step. *)
LEMMA LogTypes ==
  ASSUME TypeOK, NEW j \in Jobs, NEW line \in Lines, Log(j, line)
  PROVE  progress' \in [Jobs -> Seq(Lines)]
<1>1. progress \in [Jobs -> Seq(Lines)]
  BY DEF TypeOK, RecordTypes
<1>2. Append(progress[j], line) \in Seq(Lines)
  BY <1>1, AppendProperties
<1>3. QED BY <1>1, <1>2 DEF Log

(* A trace gains a step of a stage. *)
LEMMA TracedTypes ==
  ASSUME TypeOK, NEW j \in Jobs, NEW stage \in Stages,
         NEW outcome \in {"success", "failed"}, Traced(j, stage, outcome)
  PROVE  trace' \in [Jobs -> Seq(Stages \X {"success", "failed"})]
<1>1. trace \in [Jobs -> Seq(Stages \X {"success", "failed"})]
  BY DEF TypeOK, RecordTypes
<1>2. Append(trace[j], <<stage, outcome>>) \in Seq(Stages \X {"success", "failed"})
  BY <1>1, AppendProperties
<1>3. QED BY <1>1, <1>2 DEF Traced

(* Every step keeps every variable in its type. *)
LEMMA TypeStep ==
  ASSUME TypeOK, QueueOK, [Next]_vars
  PROVE  TypeOK'
<1> USE DEF record, planner, calls, gate, RecordTypes, PlannerTypes, TaskTypes, GateTypes
<1>1. ASSUME NEW j \in Jobs, NEW r \in Requests, Submit(j, r)
      PROVE  TypeOK'
  BY <1>1, RequestsAssumption DEF Submit, TypeOK
<1>2. ASSUME NEW j \in Jobs, Cancel(j)
      PROVE  TypeOK'
  BY <1>2 DEF Cancel, TypeOK, Futures
<1>3. ASSUME NEW j \in Jobs, StartCall(j)
      PROVE  TypeOK'
  BY <1>3 DEF StartCall, TypeOK
<1>4. ASSUME NEW j \in Jobs, NEW answer \in Answers, ReturnCall(j, answer)
      PROVE  TypeOK'
  BY <1>4 DEF ReturnCall, TypeOK
<1>5. ASSUME NEW j \in Jobs, StartCancelled(j)
      PROVE  TypeOK'
  BY <1>5 DEF StartCancelled, TypeOK
<1>6. ASSUME NEW j \in Jobs, StartUnsupported(j)
      PROVE  TypeOK'
  <2> DEFINE new == <<"classifying intent", "classified", "done">>
  <2>0. progress[j] \in Seq(Lines)
    BY DEF TypeOK
  <2>1. new \in Seq(Lines)
    BY DEF Lines
  <2> HIDE DEF new
  <2>2. progress[j] \o new \in Seq(Lines)
    BY <2>0, <2>1, ConcatProperties
  <2>3. QED BY <1>6, <2>2 DEF new, StartUnsupported, Complete, TypeOK, Terminal
<1>7. ASSUME NEW j \in Jobs, StartPlan(j)
      PROVE  TypeOK'
  <2> DEFINE new == <<"classifying intent", "classified">>
  <2>0. progress[j] \in Seq(Lines)
    BY DEF TypeOK
  <2>1. new \in Seq(Lines)
    BY DEF Lines
  <2> HIDE DEF new
  <2>a. progress[j] \o new \in Seq(Lines)
    BY <2>0, <2>1, ConcatProperties
  <2>2. progress' \in [Jobs -> Seq(Lines)] /\ status' \in [Jobs -> {"absent", "queued", "running"} \cup Terminal]
    BY <1>7, <2>a DEF StartPlan, TypeOK, new
  <2>3. QED
    BY <1>7, <2>2, ZenonT(60) DEF StartPlan, Call, TypeOK, Stages
<1>8. ASSUME NEW j \in Jobs, CoregAligned(j)
      PROVE  TypeOK'
  <2>1. trace' \in [Jobs -> Seq(Stages \X {"success", "failed"})]
    BY <1>8, TracedTypes DEF CoregAligned, Stages
  <2>2. QED BY <1>8, <2>1 DEF CoregAligned, Call, TypeOK, Stages
<1>9. ASSUME NEW j \in Jobs, CoregRefused(j)
      PROVE  TypeOK'
  <2>1. trace' \in [Jobs -> Seq(Stages \X {"success", "failed"})]
    BY <1>9, TracedTypes DEF CoregRefused, Stages
  <2>2. QED BY <1>9, <2>1 DEF CoregRefused, Call, TypeOK, Stages, Evidences
<1>10. ASSUME NEW j \in Jobs, TileNext(j)
       PROVE  TypeOK'
  <2>0. tiled[j] + 1 \in Nat
    BY DEF TypeOK, PlannerTypes
  <2>1. tiled' \in [Jobs -> Nat]
    BY <1>10, <2>0 DEF TileNext, TypeOK, PlannerTypes
  <2>2. CASE tiled[j] + 1 < request[j].images
    BY <1>10, <2>1, <2>2 DEF TileNext, Call, TypeOK, Stages
  <2>3. CASE ~(tiled[j] + 1 < request[j].images)
    <3>1. trace' \in [Jobs -> Seq(Stages \X {"success", "failed"})]
      BY <1>10, <2>3, TracedTypes DEF TileNext, Stages
    <3>2. ReachGate(j)
      BY <1>10, <2>3 DEF TileNext
    <3>3. QED
      BY <1>10, <2>1, <3>1, <3>2, ReachGateTypes DEF TileNext, TypeOK
  <2>4. QED BY <2>2, <2>3
<1>11. ASSUME NEW j \in Jobs, TilingFailed(j)
       PROVE  TypeOK'
  <2>1. trace' \in [Jobs -> Seq(Stages \X {"success", "failed"})]
    BY <1>11, TracedTypes DEF TilingFailed, Stages
  <2>2. QED BY <1>11, <2>1 DEF TilingFailed, Call, TypeOK, Stages, Evidences
<1>12. ASSUME NEW j \in Jobs, GateGranted(j)
       PROVE  TypeOK'
  <2>1. GateTypes'
    BY <1>12, LeaveQueueTypes DEF GateGranted, TypeOK
  <2>2. QED BY <1>12, <2>1 DEF GateGranted, Call, TypeOK, Stages
<1>13. ASSUME NEW j \in Jobs, InferenceDone(j)
       PROVE  TypeOK'
  <2>1. trace' \in [Jobs -> Seq(Stages \X {"success", "failed"})]
    BY <1>13, TracedTypes DEF InferenceDone, Stages
  <2>2. GateTypes'
    BY <1>13, ReleaseTypes DEF InferenceDone
  <2>3. QED
    BY <1>13, <2>1, <2>2
    DEF InferenceDone, Call, TypeOK, Stages, Evidences
<1>14. ASSUME NEW j \in Jobs, SearchDone(j)
       PROVE  TypeOK'
  <2>1. trace' \in [Jobs -> Seq(Stages \X {"success", "failed"})]
    BY <1>14, TracedTypes DEF SearchDone, Stages
  <2>2. QED BY <1>14, <2>1 DEF SearchDone, Call, TypeOK, Stages, Evidences
<1>15. ASSUME NEW j \in Jobs, Respond(j)
       PROVE  TypeOK'
  <2>1. trace' \in [Jobs -> Seq(Stages \X {"success", "failed"})]
    BY <1>15, TracedTypes DEF Respond, Stages
  <2>2. progress' \in [Jobs -> Seq(Lines)]
    BY <1>15, LogTypes DEF Respond, Lines
  <2>3. QED
    BY <1>15, <2>1, <2>2
    DEF Respond, Complete, LeaveCall, TypeOK, Evidences, Terminal
<1>16. ASSUME NEW j \in Jobs, StageFailed(j)
       PROVE  TypeOK'
  <2>1. PICK stage \in {"coregistration_check", "inference", "response_generation"} :
          /\ Traced(j, stage, "failed")
          /\ Fail(j)
          /\ IF stage = "inference" THEN Release ELSE UNCHANGED gate
          /\ UNCHANGED <<planner, acked>>
    BY <1>16 DEF StageFailed
  <2>2. trace' \in [Jobs -> Seq(Stages \X {"success", "failed"})]
    BY <2>1, TracedTypes DEF Stages
  <2>3. progress' \in [Jobs -> Seq(Lines)]
    BY <2>1, LogTypes DEF Fail, Lines
  <2>4. GateTypes'
    BY <2>1, ReleaseTypes DEF TypeOK
  <2>5. QED
    BY <2>1, <2>2, <2>3, <2>4 DEF Fail, LeaveCall, TypeOK, Terminal
<1>17. ASSUME NEW j \in Jobs, ThrowCancelled(j)
       PROVE  TypeOK'
  <2>1. progress' \in [Jobs -> Seq(Lines)]
    BY <1>17, LogTypes DEF ThrowCancelled, Lines
  <2>2. GateTypes'
    <3>1. CASE pc[j] = "inference"
      BY <1>17, <3>1, ReleaseTypes DEF ThrowCancelled
    <3>2. CASE pc[j] = "gate"
      <4>1. gateValue \in Nat /\ gateValue + 1 \in Nat
        BY DEF TypeOK
      <4>2. \E v \in Nat : LeaveQueue(j, v)
        BY <1>17, <3>2, <4>1 DEF ThrowCancelled
      <4>3. QED BY <3>2, <4>2, LeaveQueueTypes
    <3>3. CASE pc[j] # "inference" /\ pc[j] # "gate"
      BY <1>17, <3>3 DEF ThrowCancelled, TypeOK
    <3>4. QED BY <3>1, <3>2, <3>3
  <2>3. pc' \in [Jobs -> {"none", "created", "gate", "returned", "raised", "over"} \cup Stages]
    BY <1>17 DEF ThrowCancelled, TypeOK
  <2>4. callState' \in [Jobs -> {"idle", "pending", "running"} \cup Answers]
    BY <1>17 DEF ThrowCancelled, TypeOK
  <2>5. UNCHANGED <<status, result, error, trace, planner, acked, callStage>>
    BY <1>17 DEF ThrowCancelled
  <2>6. QED
    BY <2>1, <2>2, <2>3, <2>4, <2>5 DEF TypeOK
<1>18. ASSUME NEW j \in Jobs, OnTaskDone(j)
       PROVE  TypeOK'
  <2>1. progress[j] \in Seq(Lines)
    BY DEF TypeOK, RecordTypes
  <2>2. Append(progress[j], "cancelled") \in Seq(Lines)
    BY <2>1, AppendProperties DEF Lines
  <2>3. progress' \in [Jobs -> Seq(Lines)]
    <3>1. \/ progress' = progress
          \/ progress' = [progress EXCEPT ![j] = progress[j]]
          \/ progress' = [progress EXCEPT ![j] = Append(progress[j], "cancelled")]
      BY <1>18 DEF OnTaskDone
    <3>2. QED BY <2>1, <2>2, <3>1, ZenonT(60) DEF TypeOK
  <2>4. QED BY <1>18, <2>3 DEF OnTaskDone, TypeOK, Terminal
<1>19. CASE UNCHANGED vars
  BY <1>19 DEF vars, TypeOK
<1>20. QED
  BY <1>1, <1>2, <1>3, <1>4, <1>5, <1>6, <1>7, <1>8, <1>9, <1>10, <1>11, <1>12,
     <1>13, <1>14, <1>15, <1>16, <1>17, <1>18, <1>19
  DEF Next, Turn, Return

-----------------------------------------------------------------------------
(* The inference gate.                                                     *)
GateInv == QueueOK /\ GateAccounting /\ NoLostWakeup /\ GrantsInOrder

(* A step that neither touches the semaphore nor moves a task to or from   *)
(* it preserves the invariant.                                             *)
LEMMA GateFrame ==
  ASSUME GateInv, UNCHANGED gate, UNCHANGED acked,
         \A k \in Jobs : /\ pc'[k] = "gate" <=> pc[k] = "gate"
                         /\ pc'[k] = "inference" <=> pc[k] = "inference"
  PROVE  GateInv'
<1>1. /\ gateValue' = gateValue /\ waiters' = waiters /\ fut' = fut
  BY DEF gate
<1>2. InGate' = InGate /\ GrantedTurn' = GrantedTurn /\ Pending(fut)' = Pending(fut)
  BY <1>1 DEF InGate, GrantedTurn, Pending
<1>3. QueueOK'
  BY <1>1 DEF GateInv, QueueOK
<1>4. GateAccounting'
  BY <1>1, <1>2 DEF GateInv, GateAccounting
<1>5. NoLostWakeup' /\ GrantsInOrder'
  BY <1>1, <1>2 DEF GateInv, NoLostWakeup, GrantsInOrder, Before
<1>6. QED BY <1>3, <1>4, <1>5 DEF GateInv

(* Only the members of the gate's set differ by one task. *)
LEMMA GateLeft ==
  ASSUME NEW j \in Jobs, pc[j] = "inference", pc'[j] # "inference",
         \A k \in Jobs \ {j} : pc'[k] = pc[k]
  PROVE  Cardinality(InGate') = Cardinality(InGate) - 1
<1>1. InGate' = InGate \ {j} /\ j \in InGate
  BY DEF InGate
<1>2. IsFiniteSet(InGate)
  BY FiniteJobs DEF InGate
<1>3. QED BY <1>1, <1>2, FS_RemoveElement

(* A task enters the gate: it is one more. *)
LEMMA GateEntered ==
  ASSUME NEW j \in Jobs, pc[j] # "inference", pc'[j] = "inference",
         \A k \in Jobs \ {j} : pc'[k] = pc[k]
  PROVE  Cardinality(InGate') = Cardinality(InGate) + 1
<1>1. InGate' = InGate \cup {j} /\ j \notin InGate
  BY DEF InGate
<1>2. IsFiniteSet(InGate)
  BY FiniteJobs DEF InGate
<1>3. QED BY <1>1, <1>2, FS_AddElement

(* The sets the accounting counts are finite, their sizes are numbers. *)
LEMMA GateCounts ==
  /\ Cardinality(InGate) \in Nat
  /\ Cardinality(GrantedTurn) \in Nat
  /\ MaxInference \in Nat \ {0}
<1>1. InGate \in SUBSET Jobs /\ GrantedTurn \in SUBSET Jobs
  BY DEF InGate, GrantedTurn
<1>2. QED BY <1>1, FiniteJobs, MaxInferenceAssumption

(* release() by a task inside the gate keeps the permits accounted for. *)
LEMMA ReleaseInv ==
  ASSUME TypeOK, GateInv, UNCHANGED acked, Release,
         NEW j \in Jobs, pc[j] = "inference", pc'[j] \notin {"gate", "inference"},
         \A k \in Jobs \ {j} : pc'[k] = pc[k]
  PROVE  GateInv'
<1>1. gateValue \in Nat /\ gateValue + 1 \in Nat /\ fut \in [Jobs -> Futures]
  BY DEF TypeOK, GateTypes
<1>2. waiters' = waiters /\ WakeUp(gateValue + 1, waiters, fut, 1)
  BY DEF Release
<1>3. /\ gateValue' \in Nat
      /\ fut' \in [Jobs -> Futures]
      /\ \A i \in Jobs : fut[i] # "pending" => fut'[i] = fut[i]
      /\ \A i \in Jobs : fut[i] = "pending" => fut'[i] \in {"pending", "granted"}
      /\ \A i, k \in Jobs :
           fut[k] = "pending" /\ fut'[k] = "granted" /\ fut'[i] = "pending"
           => ~Before(waiters, i, k)
      /\ gateValue' + Cardinality({k \in Jobs : fut'[k] = "granted"})
           = gateValue + 1 + Cardinality({k \in Jobs : fut[k] = "granted"})
      /\ (\E i \in Jobs : fut'[i] = "pending") => \E k \in Jobs : fut'[k] = "granted"
  <2>1. 1 \in Nat /\ 1 > 0 /\ gateValue + 1 > 0
    BY <1>1
  <2>2. QED BY <1>1, <1>2, <2>1, WakeUpEffect
<1>4. QueueOK'
  BY <1>1, <1>2, <1>3 DEF GateInv, QueueOK
<1>5. GateAccounting'
  <2>1. gateValue' + Cardinality(GrantedTurn') = gateValue + 1 + Cardinality(GrantedTurn)
    BY <1>3 DEF GrantedTurn
  <2>2. Cardinality(GrantedTurn') \in Nat
    BY FiniteJobs DEF GrantedTurn
  <2>3. Cardinality(InGate') = Cardinality(InGate) - 1
    BY GateLeft
  <2>4. QED BY <1>1, <1>3, <2>1, <2>2, <2>3, GateCounts DEF GateInv, GateAccounting
<1>6. NoLostWakeup'
  BY <1>3 DEF NoLostWakeup, Pending, GrantedTurn
<1>7. GrantsInOrder'
  BY <1>1, <1>2, <1>3 DEF GateInv, GrantsInOrder, GrantedTurn, Pending, Before
<1>8. QED BY <1>4, <1>5, <1>6, <1>7 DEF GateInv

(* A task leaves acquire(), by its turn or by a CancelledError, with v     *)
(* permits free before the others are woken.                               *)
LEMMA LeaveQueueEffect ==
  ASSUME TypeOK, GateInv, UNCHANGED acked, NEW v \in Nat,
         NEW j \in Jobs, pc[j] = "gate", pc'[j] # "gate",
         \A k \in Jobs \ {j} : pc'[k] = pc[k],
         LeaveQueue(j, v)
  PROVE  /\ QueueOK' /\ NoLostWakeup' /\ GrantsInOrder'
         /\ gateValue' \in Nat
         /\ gateValue' + Cardinality(GrantedTurn')
              = v + Cardinality(GrantedTurn \ {j})
<1> DEFINE f == [fut EXCEPT ![j] = "none"]
<1>1. /\ waiters \in Seq(Jobs) /\ fut \in [Jobs -> Futures]
      /\ f \in [Jobs -> Futures] /\ f[j] = "none"
      /\ \A k \in Jobs \ {j} : f[k] = fut[k]
  BY DEF TypeOK, GateTypes, Futures
<1>2. {k \in Jobs : f[k] = "granted"} = GrantedTurn \ {j}
  BY <1>1 DEF GrantedTurn
<1>3. /\ waiters' = Without(waiters, j)
      /\ WakeUp(v, Without(waiters, j), f, v)
  BY DEF LeaveQueue
<1>4. \E p \in DOMAIN waiters : waiters[p] = j
  BY DEF GateInv, QueueOK
<1> DEFINE w == Without(waiters, j)
<1>5a. /\ \A m, n \in DOMAIN w : w[m] = w[n] => m = n
       /\ \A k : (\E i \in DOMAIN w : w[i] = k)
                 <=> k # j /\ \E i \in DOMAIN waiters : waiters[i] = k
       /\ \A k, l : Before(w, k, l) => Before(waiters, k, l)
  <2>1. \A m, n \in DOMAIN waiters : waiters[m] = waiters[n] => m = n
    BY DEF GateInv, QueueOK
  <2>2. QED BY <1>1, <1>4, <2>1, WithoutOrder
<1> HIDE DEF w
<1>5. /\ \A m, n \in DOMAIN waiters' : waiters'[m] = waiters'[n] => m = n
      /\ \A k : (\E i \in DOMAIN waiters' : waiters'[i] = k)
                <=> k # j /\ \E i \in DOMAIN waiters : waiters[i] = k
      /\ \A k, l : Before(waiters', k, l) => Before(waiters, k, l)
  BY <1>3, <1>5a DEF w
<1> HIDE DEF f
<1>6. /\ gateValue' \in Nat
      /\ fut' \in [Jobs -> Futures]
      /\ \A i \in Jobs : f[i] # "pending" => fut'[i] = f[i]
      /\ \A i \in Jobs : f[i] = "pending" => fut'[i] \in {"pending", "granted"}
      /\ \A i, k \in Jobs :
           f[k] = "pending" /\ fut'[k] = "granted" /\ fut'[i] = "pending"
           => ~Before(waiters', i, k)
      /\ gateValue' + Cardinality({k \in Jobs : fut'[k] = "granted"})
           = v + Cardinality({k \in Jobs : f[k] = "granted"})
      /\ (\E i \in Jobs : fut'[i] = "pending") => gateValue' = 0
  BY <1>1, <1>3, WakeUpEffect
<1>7. QueueOK'
  <2>1. \A k \in Jobs : pc'[k] = "gate" <=> \E i \in DOMAIN waiters' : waiters'[i] = k
    BY <1>5 DEF GateInv, QueueOK
  <2>2. \A k \in Jobs : (fut'[k] = "none" <=> f[k] = "none")
                       /\ (fut'[k] = "cancelled" => f[k] = "cancelled")
                       /\ (fut'[k] = "pending" => f[k] = "pending")
    BY <1>1, <1>6
  <2>3. \A k \in Jobs : pc'[k] = "gate" <=> fut'[k] # "none"
    BY <1>1, <2>2 DEF GateInv, QueueOK
  <2>4. \A k \in Jobs : /\ fut'[k] = "cancelled" => acked'[k]
                        /\ acked'[k] => fut'[k] # "pending"
    BY <1>1, <2>2 DEF GateInv, QueueOK
  <2>5. QED BY <1>5, <2>1, <2>3, <2>4 DEF QueueOK
<1>8. NoLostWakeup'
  BY <1>6 DEF NoLostWakeup, Pending, GrantedTurn
<1>9. GrantsInOrder'
  <2>1. ASSUME NEW k \in GrantedTurn', NEW i \in Pending(fut)'
        PROVE  ~Before(waiters', i, k)
    <3>1. fut'[k] = "granted" /\ fut'[i] = "pending" /\ k \in Jobs /\ i \in Jobs
      BY <2>1 DEF GrantedTurn, Pending
    <3>2. CASE f[k] = "pending"
      BY <1>6, <3>1, <3>2
    <3>3. CASE f[k] # "pending"
      <4>1. k # j /\ i # j /\ fut[k] = "granted" /\ fut[i] = "pending"
        BY <1>1, <1>6, <3>1, <3>3
      <4>2. ~Before(waiters, i, k)
        BY <3>1, <4>1 DEF GateInv, GrantsInOrder, GrantedTurn, Pending
      <4>3. QED BY <1>5, <4>2
    <3>4. QED BY <3>2, <3>3
  <2>2. QED BY <2>1 DEF GrantsInOrder
<1>10. gateValue' + Cardinality(GrantedTurn') = v + Cardinality(GrantedTurn \ {j})
  BY <1>2, <1>6 DEF GrantedTurn
<1>11. QED BY <1>6, <1>7, <1>8, <1>9, <1>10

(* What leaves the granted turns when j is taken out. *)
LEMMA GrantedWithout ==
  ASSUME NEW j \in Jobs
  PROVE  Cardinality(GrantedTurn \ {j})
           = IF fut[j] = "granted" THEN Cardinality(GrantedTurn) - 1
             ELSE Cardinality(GrantedTurn)
<1>1. IsFiniteSet(GrantedTurn) /\ (j \in GrantedTurn <=> fut[j] = "granted")
  BY FiniteJobs DEF GrantedTurn
<1>2. QED BY <1>1, FS_RemoveElement

(* acquire() keeps the permits accounted for, at once or by waiting. *)
LEMMA ReachGateInv ==
  ASSUME TypeOK, GateInv, UNCHANGED acked,
         NEW j \in Jobs, pc[j] \notin {"gate", "inference"}, ~acked[j], ReachGate(j)
  PROVE  GateInv'
<1>1. CASE AcquireNow(j)
  <2>1. /\ pc'[j] = "inference" /\ \A k \in Jobs \ {j} : pc'[k] = pc[k]
        /\ gateValue' = gateValue - 1 /\ waiters' = waiters /\ fut' = fut
        /\ ~Locked
    BY <1>1 DEF AcquireNow, Call, TypeOK, TaskTypes
  <2>2. Pending(fut) = {}
    BY <2>1 DEF Locked, GateInv, QueueOK, Pending
  <2>3. gateValue \in Nat /\ GrantedTurn' = GrantedTurn /\ Pending(fut)' = Pending(fut)
    BY <2>1 DEF TypeOK, GateTypes, GrantedTurn, Pending
  <2>4. QueueOK'
    BY <2>1 DEF GateInv, QueueOK
  <2>5. GateAccounting'
    BY <2>1, <2>3, GateEntered, GateCounts DEF GateInv, GateAccounting
  <2>6. NoLostWakeup' /\ GrantsInOrder'
    BY <2>2, <2>3 DEF NoLostWakeup, GrantsInOrder
  <2>7. QED BY <2>4, <2>5, <2>6 DEF GateInv
<1>2. CASE WaitTurn(j)
  <2>1. /\ pc'[j] = "gate" /\ \A k \in Jobs \ {j} : pc'[k] = pc[k]
        /\ gateValue' = gateValue /\ waiters' = Append(waiters, j)
        /\ fut'[j] = "pending" /\ \A k \in Jobs \ {j} : fut'[k] = fut[k]
        /\ Locked
    BY <1>2 DEF WaitTurn, LeaveCall, TypeOK, TaskTypes, GateTypes
  <2>2. /\ waiters \in Seq(Jobs) /\ Len(waiters) \in Nat
        /\ DOMAIN waiters = 1..Len(waiters)
        /\ DOMAIN waiters' = 1..(Len(waiters) + 1)
        /\ waiters'[Len(waiters) + 1] = j
        /\ \A i \in 1..Len(waiters) : waiters'[i] = waiters[i]
    BY <2>1, AppendProperties, LenProperties DEF TypeOK, GateTypes
  <2>3. fut[j] = "none" /\ \A i \in DOMAIN waiters : waiters[i] # j
    BY DEF GateInv, QueueOK
  <2>4. QueueOK'
    <3>1. \A k \in Jobs : pc'[k] = "gate" <=> \E i \in DOMAIN waiters' : waiters'[i] = k
      <4>1. ASSUME NEW k \in Jobs
            PROVE  (\E i \in DOMAIN waiters' : waiters'[i] = k)
                   <=> k = j \/ \E i \in DOMAIN waiters : waiters[i] = k
        BY <2>2
      <4>2. QED BY <2>1, <4>1 DEF GateInv, QueueOK
    <3>2. \A m, n \in DOMAIN waiters' : waiters'[m] = waiters'[n] => m = n
      BY <2>2, <2>3 DEF GateInv, QueueOK
    <3>3. \A k \in Jobs : pc'[k] = "gate" <=> fut'[k] # "none"
      BY <2>1 DEF GateInv, QueueOK
    <3>4. \A k \in Jobs : /\ fut'[k] = "cancelled" => acked'[k]
                          /\ acked'[k] => fut'[k] # "pending"
      BY <2>1 DEF GateInv, QueueOK
    <3>5. QED BY <3>1, <3>2, <3>3, <3>4 DEF QueueOK
  <2>5. GrantedTurn' = GrantedTurn /\ InGate' = InGate /\ Pending(fut)' = Pending(fut) \cup {j}
    BY <2>1, <2>3 DEF GrantedTurn, InGate, Pending
  <2>6. GateAccounting'
    BY <2>1, <2>5 DEF GateInv, GateAccounting
  <2>7. NoLostWakeup'
    <3>1. SUFFICES ASSUME gateValue > 0
                   PROVE  GrantedTurn # {}
      BY <2>1, <2>5 DEF NoLostWakeup
    <3>2. PICK i \in DOMAIN waiters : fut[waiters[i]] # "cancelled"
      BY <2>1, <3>1 DEF Locked
    <3>3. waiters[i] \in Jobs
      BY <2>2
    <3>4. fut[waiters[i]] \in {"pending", "granted"}
      BY <3>2, <3>3 DEF GateInv, QueueOK, TypeOK, GateTypes, Futures
    <3>5. QED
      BY <3>1, <3>3, <3>4 DEF GateInv, NoLostWakeup, GrantedTurn, Pending
  <2>8. GrantsInOrder'
    <3>1. ASSUME NEW k \in GrantedTurn, NEW i \in Pending(fut) \cup {j},
                 Before(waiters', i, k)
          PROVE  FALSE
      <4>1. PICK m \in DOMAIN waiters', n \in DOMAIN waiters' :
              m < n /\ waiters'[m] = i /\ waiters'[n] = k
        BY <3>1 DEF Before
      <4>2. k # j
        BY <2>3, <3>1 DEF GrantedTurn
      <4>3. n \in DOMAIN waiters /\ m \in DOMAIN waiters
        BY <2>2, <4>1, <4>2
      <4>4. waiters[m] = i /\ waiters[n] = k
        BY <2>2, <4>1, <4>3
      <4>5. i # j /\ Before(waiters, i, k)
        BY <2>3, <4>1, <4>3, <4>4 DEF Before
      <4>6. QED BY <3>1, <4>5 DEF GateInv, GrantsInOrder
    <3>2. QED BY <2>5, <3>1 DEF GrantsInOrder
  <2>9. QED BY <2>4, <2>6, <2>7, <2>8 DEF GateInv
<1>3. QED BY <1>1, <1>2 DEF ReachGate

-----------------------------------------------------------------------------
(* Each action of a job leaves everything of the other jobs but their      *)
(* futures alone.                                                          *)
OthersKept(j) ==
  \A k \in Jobs \ {j} :
    /\ status'[k] = status[k] /\ progress'[k] = progress[k]
    /\ result'[k] = result[k] /\ error'[k] = error[k] /\ trace'[k] = trace[k]
    /\ request'[k] = request[k] /\ coreg'[k] = coreg[k]
    /\ tiled'[k] = tiled[k] /\ evidence'[k] = evidence[k]
    /\ pc'[k] = pc[k] /\ acked'[k] = acked[k]
    /\ callStage'[k] = callStage[k] /\ callState'[k] = callState[k]

Step(j) ==
  \/ \E r \in Requests : Submit(j, r)
  \/ Cancel(j)
  \/ StartCall(j)
  \/ Return(j)
  \/ Turn(j)

(* A step of j touches the record, the plan and the calls of j only. *)
LEMMA StepKeepsOthers ==
  ASSUME TypeOK, NEW j \in Jobs, Step(j)
  PROVE  OthersKept(j)
<1> USE DEF TypeOK, RecordTypes, PlannerTypes, TaskTypes, record, planner, calls, OthersKept
<1>1. ASSUME NEW r \in Requests, Submit(j, r) PROVE OthersKept(j)
  BY <1>1 DEF Submit
<1>2. CASE Cancel(j)  BY <1>2 DEF Cancel
<1>3. CASE StartCall(j)  BY <1>3 DEF StartCall
<1>4. CASE Return(j)  BY <1>4 DEF Return, ReturnCall
<1>5. CASE StartCancelled(j)  BY <1>5 DEF StartCancelled
<1>6. CASE StartUnsupported(j)  BY <1>6 DEF StartUnsupported, Complete
<1>7. CASE StartPlan(j)
  <2>1. UNCHANGED <<result, error, planner, acked>> /\ \A k \in Jobs \ {j} :
          status'[k] = status[k] /\ progress'[k] = progress[k]
    BY <1>7 DEF StartPlan
  <2>2. \A k \in Jobs \ {j} : /\ trace'[k] = trace[k] /\ pc'[k] = pc[k]
                              /\ callStage'[k] = callStage[k] /\ callState'[k] = callState[k]
    BY <1>7 DEF StartPlan, Call
  <2>3. QED BY <2>1, <2>2
<1>8. CASE CoregAligned(j)  BY <1>8 DEF CoregAligned, Traced, Call
<1>9. CASE CoregRefused(j)  BY <1>9 DEF CoregRefused, Traced, Call
<1>10. CASE TileNext(j)
  BY <1>10 DEF TileNext, Call, Traced, ReachGate, AcquireNow, WaitTurn, LeaveCall
<1>11. CASE TilingFailed(j)  BY <1>11 DEF TilingFailed, Traced, Call
<1>12. CASE GateGranted(j)  BY <1>12 DEF GateGranted, Call
<1>13. CASE InferenceDone(j)  BY <1>13 DEF InferenceDone, Traced, Call
<1>14. CASE SearchDone(j)  BY <1>14 DEF SearchDone, Traced, Call
<1>15. CASE Respond(j)  BY <1>15 DEF Respond, Traced, Complete, Log, LeaveCall
<1>16. CASE StageFailed(j)  BY <1>16 DEF StageFailed, Traced, Fail, Log, LeaveCall
<1>17. CASE ThrowCancelled(j)  BY <1>17 DEF ThrowCancelled, Log
<1>18. CASE OnTaskDone(j)  BY <1>18 DEF OnTaskDone
<1>19. QED
  BY <1>1, <1>2, <1>3, <1>4, <1>5, <1>6, <1>7, <1>8, <1>9, <1>10, <1>11, <1>12,
     <1>13, <1>14, <1>15, <1>16, <1>17, <1>18
  DEF Step, Turn

(* What the record of a job says, in terms of where its task is. *)
RecordFits(j) ==
  /\ pc[j] = "none" <=> status[j] = "absent"
  /\ pc[j] = "none" => ~acked[j]
  /\ pc[j] \in {"none", "created"} => result[j] = "none" /\ trace[j] = <<>>
  /\ pc[j] = "created" => status[j] = "queued"
  /\ pc[j] \in Stages \cup {"gate"} => status[j] = "running"
  /\ pc[j] = "returned" => status[j] \in {"done", "failed"} /\ ~acked[j]
  /\ pc[j] = "raised" => status[j] \in {"queued", "running"} /\ acked[j]
  /\ pc[j] = "over" => status[j] \in Terminal /\ (acked[j] <=> status[j] = "cancelled")
  /\ status[j] = "done" <=> result[j] # "none"
  /\ status[j] = "failed" <=> error[j]
  /\ status[j] \in Terminal => progress[j] # <<>> /\ LastOf(progress[j]) = status[j]

(* What the locals of the planner say, in terms of where its task is and   *)
(* which call it issued last.                                              *)
PlanFits(j) ==
  /\ pc[j] \in {"none", "created", "gate", "returned"} => callStage[j] = "none"
  /\ pc[j] \in Stages => callStage[j] = pc[j]
  /\ pc[j] \in {"none", "created", "coregistration_check"} => tiled[j] = 0
  /\ pc[j] \in {"none", "created", "coregistration_check"} => coreg[j] = "unchecked"
  /\ pc[j] = "coregistration_check" => Gated(request[j])
  /\ pc[j] \in {"tiling", "gate", "inference", "web_search"} /\ Gated(request[j])
       => coreg[j] = "aligned"
  /\ callStage[j] = "inference" /\ Gated(request[j]) => coreg[j] = "aligned"
  /\ pc[j] = "tiling" => tiled[j] < request[j].images
  /\ pc[j] = "gate" => tiled[j] = request[j].images
  /\ callStage[j] = "inference" => tiled[j] = request[j].images
  /\ pc[j] \in {"web_search", "response_generation"} => evidence[j] # "none"
  /\ coreg[j] = "misaligned" =>
       /\ pc[j] \in {"response_generation", "returned", "raised", "over"}
       /\ evidence[j] = "coreg_refusal"
       /\ result[j] \in {"none", "coreg_refusal"}

JobInv == \A j \in Jobs : RecordFits(j) /\ PlanFits(j)

(* What was appended is last. *)
LEMMA AppendLast ==
  ASSUME NEW S, NEW q \in Seq(S), NEW e \in S
  PROVE  Append(q, e) # <<>> /\ LastOf(Append(q, e)) = e
BY AppendProperties, LenProperties, EmptySeq DEF LastOf

(* A list of three is a sequence. *)
LEMMA ThreeInSeq ==
  ASSUME NEW S, NEW x \in S, NEW y \in S, NEW z \in S
  PROVE  <<x, y, z>> \in Seq(S)
OBVIOUS

(* The lines the first turn adds end as the status says. *)
LEMMA FirstTurnLines ==
  ASSUME NEW q \in Seq(Lines)
  PROVE  LET new == <<"classifying intent", "classified", "done">>
         IN  q \o new # <<>> /\ LastOf(q \o new) = "done"
<1> DEFINE new == <<"classifying intent", "classified", "done">>
<1>1. new \in Seq(Lines)
  <2>1. "classifying intent" \in Lines /\ "classified" \in Lines /\ "done" \in Lines
    BY DEF Lines
  <2>2. QED BY <2>1, ThreeInSeq
<1>2. Len(new) = 3 /\ new[3] = "done"
  OBVIOUS
<1> HIDE DEF new
<1>3. Len(q) \in Nat
  BY LenProperties
<1> DEFINE r == q \o new
<1>4. /\ r \in Seq(Lines) /\ Len(r) = Len(q) + 3
      /\ \A i \in 1..(Len(q) + 3) : r[i] = IF i <= Len(q) THEN q[i] ELSE new[i - Len(q)]
  <2>1. /\ r \in Seq(Lines) /\ Len(r) = Len(q) + Len(new)
        /\ \A i \in 1..(Len(q) + Len(new)) :
             r[i] = IF i <= Len(q) THEN q[i] ELSE new[i - Len(q)]
    BY <1>1, ConcatProperties
  <2>2. QED BY <1>2, <2>1
<1> HIDE DEF r
<1>5. r[Len(q) + 3] = new[3]
  <2>1. Len(q) + 3 \in 1..(Len(q) + 3) /\ ~(Len(q) + 3 <= Len(q))
        /\ Len(q) + 3 - Len(q) = 3
    BY <1>3
  <2>2. QED BY <1>4, <2>1
<1>6. r # <<>> /\ LastOf(r) = "done"
  BY <1>2, <1>3, <1>4, <1>5, EmptySeq DEF LastOf
<1>7. QED BY <1>6 DEF r, new

(* Every step of j keeps its record and its plan consistent. *)
LEMMA JobStep ==
  ASSUME TypeOK, JobInv, [Next]_vars
  PROVE  JobInv'
<1>1. CASE UNCHANGED vars
  BY <1>1 DEF vars, record, planner, calls, JobInv, RecordFits, PlanFits
<1> SUFFICES ASSUME NEW j \in Jobs, Step(j) PROVE JobInv'
  BY <1>1 DEF Next, Step
<1>2. OthersKept(j)
  BY StepKeepsOthers
<1>3. \A k \in Jobs \ {j} : RecordFits(k)' /\ PlanFits(k)'
  BY <1>2 DEF OthersKept, JobInv, RecordFits, PlanFits
<1> SUFFICES RecordFits(j)' /\ PlanFits(j)'
  BY <1>3 DEF JobInv
<1>4. RecordFits(j) /\ PlanFits(j)
  BY DEF JobInv
<1> USE DEF record, planner, calls, TypeOK, RecordTypes, PlannerTypes, TaskTypes
<1>5. CASE \E r \in Requests : Submit(j, r)
  BY <1>4, <1>5 DEF Submit, RecordFits, PlanFits, Stages, Terminal
<1>6. CASE Cancel(j)
  BY <1>4, <1>6 DEF Cancel, Cancellable, RecordFits, PlanFits
<1>7. CASE StartCall(j) \/ Return(j)
  BY <1>4, <1>7 DEF StartCall, Return, ReturnCall, RecordFits, PlanFits
<1>8. CASE StartCancelled(j)
  BY <1>4, <1>8 DEF StartCancelled, RecordFits, PlanFits, Stages, Terminal
<1>9. CASE StartUnsupported(j)
  <2> DEFINE new == <<"classifying intent", "classified", "done">>
  <2>3. progress[j] \o new # <<>> /\ LastOf(progress[j] \o new) = "done"
    BY FirstTurnLines
  <2>4. progress'[j] = progress[j] \o new
    BY <1>9 DEF StartUnsupported, new
  <2>5. QED
    BY <1>4, <1>9, <2>3, <2>4
    DEF StartUnsupported, Complete, RecordFits, PlanFits, Stages, Terminal
<1>10. CASE StartPlan(j)
  <2>1. /\ pc[j] = "created" /\ ~acked[j] /\ status'[j] = "running"
        /\ UNCHANGED <<result, error, planner, acked>>
    BY <1>10 DEF StartPlan
  <2>2. \/ Gated(request[j]) /\ pc'[j] = "coregistration_check" /\ callStage'[j] = pc'[j]
        \/ /\ ~Gated(request[j])
           /\ pc'[j] = "tiling" /\ callStage'[j] = pc'[j]
    <3>1. CASE Gated(request[j])
      <4>1. /\ pc' = [pc EXCEPT ![j] = "coregistration_check"]
            /\ callStage' = [callStage EXCEPT ![j] = "coregistration_check"]
        BY <1>10, <3>1 DEF StartPlan, Call
      <4>2. pc'[j] = "coregistration_check" /\ callStage'[j] = "coregistration_check"
        BY <4>1
      <4>3. QED BY <3>1, <4>2
    <3>2. CASE ~Gated(request[j])
      <4>1. /\ pc' = [pc EXCEPT ![j] = "tiling"]
            /\ callStage' = [callStage EXCEPT ![j] = "tiling"]
        BY <1>10, <3>2 DEF StartPlan, Call
      <4>2. pc'[j] = "tiling" /\ callStage'[j] = "tiling"
        BY <4>1
      <4>3. QED BY <3>2, <4>2
    <3>3. QED BY <3>1, <3>2
  <2>3. request[j].images \in Nat /\ request[j].images > 0
    <3>1. request[j] \in Request /\ request[j].task # "unsupported"
      BY <1>10 DEF StartPlan
    <3>2. QED BY <3>1 DEF Request
  <2>4. RecordFits(j)'
    BY <1>4, <2>1, <2>2 DEF RecordFits, Stages, Terminal
  <2>5. PlanFits(j)'
    <3>1. /\ request' = request /\ coreg' = coreg /\ tiled' = tiled /\ result' = result
          /\ evidence' = evidence
      BY <2>1
    <3>2. tiled[j] = 0 /\ coreg[j] = "unchecked"
      BY <1>4, <2>1 DEF PlanFits
    <3>3. CASE Gated(request[j]) /\ pc'[j] = "coregistration_check" /\ callStage'[j] = pc'[j]
      BY <3>1, <3>2, <3>3 DEF PlanFits, Stages
    <3>4. CASE ~Gated(request[j]) /\ pc'[j] = "tiling" /\ callStage'[j] = pc'[j]
      BY <2>3, <3>1, <3>2, <3>4 DEF PlanFits, Stages
    <3>5. QED BY <2>2, <3>3, <3>4
  <2>6. QED BY <2>4, <2>5
<1>11. CASE CoregAligned(j)
  BY <1>4, <1>11
  DEF CoregAligned, Answered, Call, RecordFits, PlanFits, Stages, Gated, Terminal
<1>12. CASE CoregRefused(j)
  BY <1>4, <1>12
  DEF CoregRefused, Answered, Call, RecordFits, PlanFits, Stages, Gated, Terminal
<1>13. CASE TileNext(j)
  <2>1. /\ pc[j] = "tiling" /\ ~acked[j] /\ tiled'[j] = tiled[j] + 1
        /\ UNCHANGED <<status, progress, result, error, request, coreg, evidence, acked>>
    BY <1>13 DEF TileNext, Answered
  <2>2. \/ /\ tiled[j] + 1 < request[j].images
           /\ pc'[j] = "tiling" /\ callStage'[j] = pc'[j]
        \/ /\ ~(tiled[j] + 1 < request[j].images)
           /\ \/ pc'[j] = "inference" /\ callStage'[j] = pc'[j]
              \/ pc'[j] = "gate" /\ callStage'[j] = "none"
    BY <1>13 DEF TileNext, Call, ReachGate, AcquireNow, WaitTurn, LeaveCall
  <2>3. request[j].images \in Nat /\ tiled[j] \in Nat
    BY DEF Request
  <2>4. RecordFits(j)'
    BY <1>4, <2>1, <2>2 DEF RecordFits, Stages, Terminal
  <2>5. PlanFits(j)'
    BY <1>4, <2>1, <2>2, <2>3 DEF PlanFits, Stages
  <2>6. QED BY <2>4, <2>5
<1>14. CASE TilingFailed(j)
  BY <1>4, <1>14
  DEF TilingFailed, Answered, Call, RecordFits, PlanFits, Stages, Terminal
<1>15. CASE GateGranted(j)
  BY <1>4, <1>15 DEF GateGranted, Call, RecordFits, PlanFits, Stages, Terminal
<1>16. CASE InferenceDone(j)
  BY <1>4, <1>16
  DEF InferenceDone, Answered, Call, RecordFits, PlanFits, Stages, Terminal
<1>17. CASE SearchDone(j)
  BY <1>4, <1>17
  DEF SearchDone, Answered, Call, RecordFits, PlanFits, Stages, Terminal
<1>18. CASE Respond(j)
  <2>1. progress'[j] # <<>> /\ LastOf(progress'[j]) = "done"
    <3>1. progress'[j] = Append(progress[j], "done") /\ progress[j] \in Seq(Lines)
      BY <1>18 DEF Respond, Log
    <3>2. "done" \in Lines
      BY DEF Lines
    <3>3. /\ Append(progress[j], "done") # <<>>
          /\ LastOf(Append(progress[j], "done")) = "done"
      BY <3>1, <3>2, AppendLast
    <3>4. QED BY <3>1, <3>3
  <2>2. QED
    BY <1>4, <1>18, <2>1
    DEF Respond, Answered, Complete, LeaveCall, RecordFits, PlanFits, Stages, Terminal
<1>19. CASE StageFailed(j)
  <2>1. progress'[j] # <<>> /\ LastOf(progress'[j]) = "failed"
    <3>1. progress'[j] = Append(progress[j], "failed") /\ progress[j] \in Seq(Lines)
      BY <1>19 DEF StageFailed, Fail, Log
    <3>2. "failed" \in Lines
      BY DEF Lines
    <3>3. /\ Append(progress[j], "failed") # <<>>
          /\ LastOf(Append(progress[j], "failed")) = "failed"
      BY <3>1, <3>2, AppendLast
    <3>4. QED BY <3>1, <3>3
  <2>2. QED
    BY <1>4, <1>19, <2>1
    DEF StageFailed, Answered, Fail, LeaveCall, RecordFits, PlanFits, Stages, Terminal
<1>20. CASE ThrowCancelled(j)
  BY <1>4, <1>20 DEF ThrowCancelled, RecordFits, PlanFits, Stages, Terminal
<1>21. CASE OnTaskDone(j)
  <2>1. pc[j] = "raised" =>
          progress'[j] # <<>> /\ LastOf(progress'[j]) = "cancelled"
    <3>1. ASSUME pc[j] = "raised", progress[j] # <<>>, LastOf(progress[j]) = "cancelled"
          PROVE  progress'[j] = progress[j]
      BY <1>21, <3>1 DEF OnTaskDone, LastOf
    <3>2. ASSUME pc[j] = "raised", ~(progress[j] # <<>> /\ LastOf(progress[j]) = "cancelled")
          PROVE  progress'[j] = Append(progress[j], "cancelled")
      BY <1>21, <3>2 DEF OnTaskDone, LastOf
    <3>3. progress[j] \in Seq(Lines) /\ "cancelled" \in Lines
      BY DEF Lines
    <3>4. Append(progress[j], "cancelled") # <<>>
          /\ LastOf(Append(progress[j], "cancelled")) = "cancelled"
      BY <3>3, AppendLast
    <3>5. QED BY <3>1, <3>2, <3>4
  <2>2. QED
    BY <1>4, <1>21, <2>1 DEF OnTaskDone, RecordFits, PlanFits, Stages, Terminal
<1>22. QED
  BY <1>5, <1>6, <1>7, <1>8, <1>9, <1>10, <1>11, <1>12, <1>13, <1>14, <1>15, <1>16,
     <1>17, <1>18, <1>19, <1>20, <1>21
  DEF Step, Turn

(* Every step keeps the gate invariant. *)
LEMMA GateStep ==
  ASSUME TypeOK, JobInv, GateInv, [Next]_vars
  PROVE  GateInv'
<1>1. CASE UNCHANGED vars
  BY <1>1, GateFrame DEF vars
<1> SUFFICES ASSUME NEW j \in Jobs, Step(j) PROVE GateInv'
  BY <1>1 DEF Next, Step
<1> USE DEF TypeOK, TaskTypes
<1>2. OthersKept(j)
  BY StepKeepsOthers
<1>3. \A k \in Jobs \ {j} : pc'[k] = pc[k]
  BY <1>2 DEF OthersKept
<1>4. CASE Cancel(j)
  <2>1. /\ pc' = pc /\ gateValue' = gateValue /\ waiters' = waiters
        /\ acked' = [acked EXCEPT ![j] = TRUE]
        /\ \A k \in Jobs : fut'[k] = IF k = j /\ fut[j] = "pending" THEN "cancelled"
                                     ELSE fut[k]
    BY <1>4 DEF Cancel, GateTypes
  <2>2. /\ InGate' = InGate /\ GrantedTurn' = GrantedTurn
        /\ Pending(fut)' = Pending(fut) \ {j}
    BY <2>1 DEF InGate, GrantedTurn, Pending
  <2>3. QueueOK'
    BY <2>1 DEF GateInv, QueueOK
  <2>4. GateAccounting' /\ NoLostWakeup'
    BY <2>1, <2>2 DEF GateInv, GateAccounting, NoLostWakeup
  <2>5. GrantsInOrder'
    BY <2>1, <2>2 DEF GateInv, GrantsInOrder, Before
  <2>6. QED BY <2>3, <2>4, <2>5 DEF GateInv
<1>5. CASE StartPlan(j)
  <2>1. pc[j] = "created" /\ ~acked[j] /\ UNCHANGED acked
    BY <1>5 DEF StartPlan
  <2>2. UNCHANGED gate /\ pc'[j] \in {"coregistration_check", "tiling"}
    BY <1>5 DEF StartPlan, Call
  <2>3. QED BY <1>3, <2>1, <2>2, GateFrame
<1>6. CASE TileNext(j)
  <2>1. pc[j] = "tiling" /\ ~acked[j] /\ UNCHANGED acked
    BY <1>6 DEF TileNext, Answered
  <2>2. CASE tiled[j] + 1 < request[j].images
    <3>1. UNCHANGED gate /\ pc'[j] = "tiling"
      BY <1>6, <2>2 DEF TileNext, Call
    <3>2. QED BY <1>3, <2>1, <3>1, GateFrame
  <2>3. CASE ReachGate(j)
    BY <2>1, <2>3, ReachGateInv
  <2>4. QED BY <1>6, <2>2, <2>3 DEF TileNext
<1>7. CASE GateGranted(j)
  <2>1. /\ pc[j] = "gate" /\ pc'[j] = "inference" /\ UNCHANGED acked
        /\ fut[j] = "granted" /\ gateValue \in Nat /\ LeaveQueue(j, gateValue)
    BY <1>7 DEF GateGranted, Call, GateTypes
  <2>2. /\ QueueOK' /\ NoLostWakeup' /\ GrantsInOrder' /\ gateValue' \in Nat
        /\ gateValue' + Cardinality(GrantedTurn')
             = gateValue + Cardinality(GrantedTurn) - 1
    BY <1>3, <2>1, LeaveQueueEffect, GrantedWithout, GateCounts
  <2>3. Cardinality(InGate') = Cardinality(InGate) + 1
    BY <1>3, <2>1, GateEntered
  <2>4. Cardinality(GrantedTurn') \in Nat
    BY FiniteJobs DEF GrantedTurn
  <2>5. GateAccounting'
    BY <2>1, <2>2, <2>3, <2>4, GateCounts DEF GateInv, GateAccounting
  <2>6. QED BY <2>2, <2>5 DEF GateInv
<1>8. CASE InferenceDone(j)
  <2>1. /\ pc[j] = "inference" /\ pc'[j] \notin {"gate", "inference"}
        /\ UNCHANGED acked /\ Release
    BY <1>8 DEF InferenceDone, Answered, Call
  <2>2. QED BY <1>3, <2>1, ReleaseInv
<1>9. CASE StageFailed(j)
  <2>1. PICK stage \in {"coregistration_check", "inference", "response_generation"} :
          /\ pc[j] = stage
          /\ Fail(j)
          /\ IF stage = "inference" THEN Release ELSE UNCHANGED gate
          /\ UNCHANGED acked
    BY <1>9 DEF StageFailed, Answered
  <2>2. pc'[j] = "returned"
    BY <2>1 DEF Fail, LeaveCall
  <2>3. CASE stage = "inference"
    BY <1>3, <2>1, <2>2, <2>3, ReleaseInv
  <2>4. CASE stage # "inference"
    <3>1. UNCHANGED gate /\ pc[j] \notin {"gate", "inference"}
      BY <2>1, <2>4
    <3>2. QED BY <1>3, <2>1, <2>2, <3>1, GateFrame
  <2>5. QED BY <2>3, <2>4
<1>10. CASE ThrowCancelled(j)
  <2>1. pc'[j] = "raised" /\ acked[j] /\ UNCHANGED acked
    BY <1>10 DEF ThrowCancelled
  <2>2. CASE pc[j] = "inference"
    <3>1. Release
      BY <1>10, <2>2 DEF ThrowCancelled
    <3>2. QED BY <1>3, <2>1, <2>2, <3>1, ReleaseInv
  <2>3. CASE pc[j] = "gate"
    <3> DEFINE v == IF fut[j] = "granted" THEN gateValue + 1 ELSE gateValue
    <3>1. gateValue \in Nat /\ v \in Nat
      BY DEF GateTypes
    <3>2. LeaveQueue(j, v)
      BY <1>10, <2>3 DEF ThrowCancelled
    <3>3. /\ QueueOK' /\ NoLostWakeup' /\ GrantsInOrder' /\ gateValue' \in Nat
          /\ gateValue' + Cardinality(GrantedTurn') = v + Cardinality(GrantedTurn \ {j})
      <4> HIDE DEF v
      <4>1. QED BY <1>3, <2>1, <2>3, <3>1, <3>2, LeaveQueueEffect
    <3>4. v + Cardinality(GrantedTurn \ {j}) = gateValue + Cardinality(GrantedTurn)
      <4>1. CASE fut[j] = "granted"
        BY <3>1, <4>1, GrantedWithout, GateCounts
      <4>2. CASE fut[j] # "granted"
        BY <3>1, <4>2, GrantedWithout, GateCounts
      <4>3. QED BY <4>1, <4>2
    <3>5. InGate' = InGate
      BY <1>3, <2>1, <2>3 DEF InGate
    <3>6. GateAccounting'
      BY <3>3, <3>4, <3>5 DEF GateInv, GateAccounting
    <3>7. QED BY <3>3, <3>6 DEF GateInv
  <2>4. CASE pc[j] \notin {"gate", "inference"}
    <3>1. UNCHANGED gate
      BY <1>10, <2>4 DEF ThrowCancelled
    <3>2. QED BY <1>3, <2>1, <2>4, <3>1, GateFrame
  <2>5. QED BY <2>2, <2>3, <2>4
<1>11. CASE \/ \E r \in Requests : Submit(j, r)
            \/ StartCall(j) \/ Return(j)
            \/ StartCancelled(j) \/ StartUnsupported(j)
            \/ CoregAligned(j) \/ CoregRefused(j) \/ TilingFailed(j)
            \/ SearchDone(j) \/ Respond(j) \/ OnTaskDone(j)
  <2>1. UNCHANGED gate /\ UNCHANGED acked
    BY <1>11
    DEF Submit, StartCall, Return, ReturnCall, StartCancelled, StartUnsupported,
        CoregAligned, CoregRefused, TilingFailed, SearchDone, Respond, OnTaskDone
  <2>2. pc'[j] = pc[j] \/ {pc[j], pc'[j]} \cap {"gate", "inference"} = {}
    <3>1. CASE \E r \in Requests : Submit(j, r)
      <4>1. pc'[j] = "created"
        BY <3>1 DEF Submit
      <4>2. pc[j] \notin {"gate", "inference"}
        BY <3>1
        DEF Submit, JobInv, RecordFits
      <4>3. QED BY <4>1, <4>2
    <3>2. CASE StartCall(j) \/ Return(j)
      BY <3>2 DEF StartCall, Return, ReturnCall
    <3>3. CASE StartCancelled(j) \/ StartUnsupported(j) \/ OnTaskDone(j)
      BY <3>3 DEF StartCancelled, StartUnsupported, OnTaskDone
    <3>4. CASE CoregAligned(j) \/ CoregRefused(j) \/ TilingFailed(j)
      BY <3>4 DEF CoregAligned, CoregRefused, TilingFailed, Answered, Call
    <3>5. CASE SearchDone(j) \/ Respond(j)
      BY <3>5 DEF SearchDone, Respond, Answered, Call, LeaveCall
    <3>6. QED BY <1>11, <3>1, <3>2, <3>3, <3>4, <3>5
  <2>3. QED BY <1>3, <2>1, <2>2, GateFrame
<1>12. QED
  BY <1>4, <1>5, <1>6, <1>7, <1>8, <1>9, <1>10, <1>11 DEF Step, Turn

-----------------------------------------------------------------------------
(* The inductive invariant. TypeOK alone is not inductive: taking a task   *)
(* out of the queue keeps the queue's type only if the task is in it.      *)
IInv == TypeOK /\ JobInv /\ GateInv

(* The inductive invariant holds at the start. *)
LEMMA InitInv == Init => IInv
<1> SUFFICES ASSUME Init PROVE IInv
  OBVIOUS
<1>1. TypeOK
  <2>1. RecordTypes
    BY DEF Init, RecordTypes, Terminal, Evidences
  <2>2. PlannerTypes
    BY DEF Init, PlannerTypes, Request, NoRequest, Modes, Evidences
  <2>3. TaskTypes /\ GateTypes
    BY MaxInferenceAssumption DEF Init, TaskTypes, GateTypes, Futures
  <2>4. QED BY <2>1, <2>2, <2>3 DEF TypeOK
<1>2. JobInv
  BY DEF Init, JobInv, RecordFits, PlanFits, Terminal, Stages
<1>3. QueueOK
  BY DEF Init, QueueOK
<1>4. GrantedTurn = {} /\ InGate = {} /\ Pending(fut) = {}
  BY DEF Init, GrantedTurn, InGate, Pending
<1>5. GateAccounting
  BY <1>4, FS_EmptySet, MaxInferenceAssumption DEF Init, GateAccounting
<1>6. NoLostWakeup /\ GrantsInOrder
  BY <1>4 DEF NoLostWakeup, GrantsInOrder
<1>7. QED BY <1>1, <1>2, <1>3, <1>5, <1>6 DEF IInv, GateInv

(* The queue part of the gate invariant. *)
LEMMA QueueFromGate == GateInv => QueueOK
BY DEF GateInv

(* The inductive invariant is preserved by every step. *)
LEMMA InductiveStep == IInv /\ [Next]_vars => IInv'
BY TypeStep, JobStep, GateStep, QueueFromGate DEF IInv

(* The inductive invariant holds in every reachable state of JobQueue,     *)
(* for any number of jobs, permits and threads.                            *)
THEOREM InvariantHolds == Spec => []IInv
BY InitInv, InductiveStep, PTL DEF Spec

(* JobRecord, the planner's locals, the tasks, the calls and the semaphore *)
(* keep their types whatever is submitted and cancelled.                   *)
THEOREM TypeCorrect == Spec => []TypeOK
<1>1. IInv => TypeOK
  BY DEF IInv
<1>2. QED BY <1>1, InvariantHolds, PTL

(* The inference gate never loses a permit, never leaves a task waiting    *)
(* while it is free, and grants turns in order of arrival, under every     *)
(* interleaving of arrivals, cancellations and releases.                   *)
THEOREM GateSafe == Spec => []GateIsFair
<1>1. IInv => GateIsFair
  BY DEF IInv, GateInv, GateIsFair
<1>2. QED BY <1>1, InvariantHolds, PTL

(* A cancellation that was acknowledged is kept (JobQueue.cancel, _run and *)
(* _on_task_done together).                                                *)
THEOREM AckSafe == Spec => []AckHonoured
<1>1. IInv => AckHonoured
  <2> SUFFICES ASSUME IInv, NEW j \in Jobs, acked[j]
               PROVE  status[j] \notin {"done", "failed"} /\ result[j] = "none"
    BY DEF AckHonoured
  <2>1. RecordFits(j) /\ TaskTypes
    BY DEF IInv, JobInv, TypeOK
  <2>2. pc[j] \notin {"none", "returned"}
    BY <2>1 DEF RecordFits
  <2>3. pc[j] \in {"created", "gate", "raised", "over"} \cup Stages
    BY <2>1, <2>2 DEF TaskTypes
  <2>4. status[j] \in {"queued", "running", "cancelled"}
    BY <2>1, <2>3 DEF RecordFits
  <2>5. QED BY <2>1, <2>4 DEF RecordFits
<1>2. QED BY <1>1, InvariantHolds, PTL

(* What a client polls is consistent in every turn of the event loop.      *)
THEOREM RecordSafe == Spec => []RecordConsistent
<1>1. IInv => RecordConsistent
  <2> SUFFICES ASSUME IInv, NEW j \in Jobs
               PROVE  /\ status[j] = "done" <=> result[j] # "none"
                      /\ status[j] = "failed" <=> error[j]
                      /\ status[j] \in Terminal =>
                           progress[j] # <<>> /\ LastOf(progress[j]) = status[j]
                      /\ status[j] = "cancelled" => pc[j] = "over" /\ acked[j]
                      /\ pc[j] \in {"returned", "over"} => status[j] \in Terminal
    BY DEF RecordConsistent
  <2>1. RecordFits(j) /\ TaskTypes
    BY DEF IInv, JobInv, TypeOK
  <2>2. pc[j] \in {"none", "created", "gate", "returned", "raised", "over"} \cup Stages
    BY <2>1 DEF TaskTypes
  <2>3. status[j] = "cancelled" => pc[j] = "over"
    BY <2>1, <2>2 DEF RecordFits
  <2>4. QED BY <2>1, <2>3 DEF RecordFits, Terminal
<1>2. QED BY <1>1, InvariantHolds, PTL

(* The planner's co-registration gate holds, and inference sees all images *)
(* of the request or is not asked for.                                     *)
THEOREM PlanSafe == Spec => []InferenceIsPrepared
<1>1. IInv => InferenceIsPrepared
  BY DEF IInv, JobInv, PlanFits, InferenceIsPrepared, NoInferenceUnlessAligned,
         InferenceSeesEveryImage
<1>2. QED BY <1>1, InvariantHolds, PTL

-----------------------------------------------------------------------------
(* What a step does to the two things a client of the API relies on.       *)
LEMMA StepOnLife ==
  ASSUME IInv, NEW j \in Jobs, Step(j)
  PROVE  \/ Lifecycle!Submit(j)
         \/ Lifecycle!AckCancel(j)
         \/ Lifecycle!Progress(j)
         \/ UNCHANGED <<status, acked>>
<1> USE DEF record, planner, calls
<1>1. RecordFits(j) /\ TaskTypes
  BY DEF IInv, JobInv, TypeOK
<1>2. CASE \E r \in Requests : Submit(j, r)
  BY <1>2 DEF Submit, Lifecycle!Submit
<1>3. CASE Cancel(j)
  BY <1>3 DEF Cancel, Cancellable, Lifecycle!AckCancel
<1>4. CASE StartCall(j) \/ Return(j)
  BY <1>4 DEF StartCall, Return, ReturnCall
<1>5. CASE StartCancelled(j)
  BY <1>5 DEF StartCancelled
<1>6. CASE StartUnsupported(j)
  <2>1. Lifecycle!Finish(j, "done")
    BY <1>1, <1>6 DEF StartUnsupported, Complete, RecordFits, Lifecycle!Finish
  <2>2. QED BY <2>1 DEF Lifecycle!Progress
<1>7. CASE StartPlan(j)
  <2>1. Lifecycle!Run(j)
    BY <1>1, <1>7 DEF StartPlan, RecordFits, Lifecycle!Run
  <2>2. QED BY <2>1 DEF Lifecycle!Progress
<1>8. CASE \/ CoregAligned(j) \/ CoregRefused(j) \/ TileNext(j) \/ TilingFailed(j)
           \/ GateGranted(j) \/ InferenceDone(j) \/ SearchDone(j) \/ ThrowCancelled(j)
  BY <1>8 DEF CoregAligned, CoregRefused, TileNext, TilingFailed, GateGranted,
              InferenceDone, SearchDone, ThrowCancelled
<1>9. CASE Respond(j)
  <2>1. Lifecycle!Finish(j, "done")
    BY <1>1, <1>9
    DEF Respond, Answered, Complete, RecordFits, Stages, Lifecycle!Finish
  <2>2. QED BY <2>1 DEF Lifecycle!Progress
<1>10. CASE StageFailed(j)
  <2>1. Lifecycle!Finish(j, "failed")
    BY <1>1, <1>10
    DEF StageFailed, Answered, Fail, RecordFits, Stages, Lifecycle!Finish
  <2>2. QED BY <2>1 DEF Lifecycle!Progress
<1>11. CASE OnTaskDone(j)
  <2>1. CASE pc[j] = "raised"
    <3>1. Lifecycle!Abort(j)
      BY <1>1, <1>11, <2>1 DEF OnTaskDone, RecordFits, Lifecycle!Abort
    <3>2. QED BY <3>1 DEF Lifecycle!Progress
  <2>2. CASE pc[j] # "raised"
    BY <1>11, <2>2 DEF OnTaskDone
  <2>3. QED BY <2>1, <2>2
<1>12. QED
  BY <1>2, <1>3, <1>4, <1>5, <1>6, <1>7, <1>8, <1>9, <1>10, <1>11 DEF Step, Turn

(* Every behaviour of the queue is, as far as its clients can tell, one    *)
(* the life cycle allows.                                                  *)
THEOREM Refinement == Spec => Lifecycle!Safety
<1>1. Init => Lifecycle!Init
  BY DEF Init, Lifecycle!Init
<1>2. IInv /\ [Next]_vars => [Lifecycle!Next]_<<status, acked>>
  <2> SUFFICES ASSUME IInv, [Next]_vars PROVE [Lifecycle!Next]_<<status, acked>>
    OBVIOUS
  <2>1. CASE UNCHANGED vars
    BY <2>1 DEF vars, record
  <2>2. CASE Next
    <3>1. PICK j \in Jobs : Step(j)
      BY <2>2 DEF Next, Step
    <3>2. QED BY <3>1, StepOnLife DEF Lifecycle!Next
  <2>3. QED BY <2>1, <2>2
<1>3. QED
  BY <1>1, <1>2, InvariantHolds, PTL DEF Spec, Lifecycle!Safety, Lifecycle!vars

(* A record that says done, failed or cancelled never changes again.       *)
THEOREM TerminalFinal == Spec => TerminalIsFinal
<1> DEFINE Kept(j) == /\ status'[j] = status[j]
                      /\ result'[j] = result[j] /\ error'[j] = error[j]
                      /\ progress'[j] = progress[j] /\ trace'[j] = trace[j]
<1>1. ASSUME IInv, [Next]_vars, NEW j \in Jobs, status[j] \in Terminal
      PROVE  Kept(j)
  <2>1. RecordFits(j) /\ TaskTypes /\ TypeOK
    BY <1>1 DEF IInv, JobInv, TypeOK
  <2>2. pc[j] \in {"returned", "over"}
    BY <1>1, <2>1 DEF RecordFits, TaskTypes, Terminal
  <2>3. CASE UNCHANGED vars
    BY <2>3 DEF vars, record
  <2>4. ASSUME NEW i \in Jobs, Step(i), i # j
        PROVE  Kept(j)
    <3>1. OthersKept(i)
      BY <2>1, <2>4, StepKeepsOthers
    <3>2. QED BY <2>4, <3>1 DEF OthersKept
  <2>5. CASE Step(j)
    <3>1. \/ StartCall(j) \/ Return(j) \/ OnTaskDone(j)
      BY <1>1, <2>2, <2>5
      DEF Step, Turn, Submit, Cancel, Cancellable, StartCancelled, StartUnsupported,
          StartPlan, CoregAligned, CoregRefused, TileNext, TilingFailed, GateGranted,
          InferenceDone, SearchDone, Respond, StageFailed, ThrowCancelled, Answered,
          Terminal, Stages
    <3>2. CASE StartCall(j) \/ Return(j)
      BY <3>2 DEF StartCall, Return, ReturnCall, record
    <3>3. CASE OnTaskDone(j)
      BY <2>2, <3>3 DEF OnTaskDone
    <3>4. QED BY <3>1, <3>2, <3>3
  <2>6. QED BY <1>1, <2>3, <2>4, <2>5 DEF Next, Step
<1>2. IInv /\ [Next]_vars =>
        [\A j \in Jobs : status[j] \in Terminal =>
           /\ status'[j] = status[j]
           /\ result'[j] = result[j] /\ error'[j] = error[j]
           /\ progress'[j] = progress[j]
           /\ trace'[j] = trace[j]]_vars
  BY <1>1
<1>3. QED BY <1>2, InvariantHolds, PTL DEF Spec, TerminalIsFinal

(* No newcomer slips past the tasks that wait for their turn: the fast     *)
(* path of acquire() is closed while one of them is in the queue.          *)
THEOREM NobodyOvertakes == Spec => NoOvertaking
<1>1. ASSUME IInv, [Next]_vars, NEW i \in Jobs, NEW j \in Jobs,
             fut[i] \in {"pending", "granted"},
             pc[j] # "inference", pc'[j] = "inference"
      PROVE  fut[j] = "granted"
  <2>1. TypeOK /\ QueueOK
    BY <1>1 DEF IInv, GateInv
  <2>2. ~UNCHANGED vars
    BY <1>1 DEF vars
  <2>3. PICK k \in Jobs : Step(k)
    BY <1>1, <2>2 DEF Next, Step
  <2>4. k = j
    BY <1>1, <2>1, <2>3, StepKeepsOthers DEF OthersKept
  <2>5. Locked
    <3>1. PICK n \in DOMAIN waiters : waiters[n] = i
      BY <1>1, <2>1 DEF QueueOK
    <3>2. fut[waiters[n]] # "cancelled"
      BY <1>1, <3>1
    <3>3. QED BY <3>2 DEF Locked
  <2>6. TileNext(j) \/ GateGranted(j)
    <3>1. pc \in [Jobs -> {"none", "created", "gate", "returned", "raised", "over"} \cup Stages]
      BY <2>1 DEF TypeOK, TaskTypes
    <3>2. ~StartPlan(j)
      <4>1. ASSUME StartPlan(j) PROVE pc'[j] \in {"coregistration_check", "tiling"}
        BY <3>1, <4>1 DEF StartPlan, Call
      <4>2. QED BY <1>1, <4>1
    <3>3. QED
      BY <1>1, <2>3, <2>4, <3>1, <3>2
      DEF Step, Turn, Submit, Cancel, StartCall, Return, ReturnCall, StartCancelled,
          StartUnsupported, CoregAligned, CoregRefused, TilingFailed,
          InferenceDone, SearchDone, Respond, StageFailed, ThrowCancelled, OnTaskDone,
          Call, Fail, LeaveCall
  <2>7. CASE TileNext(j)
    <3>1. ~AcquireNow(j)
      BY <2>5 DEF AcquireNow
    <3>2. pc'[j] \in {"tiling", "gate"}
      BY <2>1, <2>7, <3>1 DEF TileNext, ReachGate, WaitTurn, Call, LeaveCall, TypeOK, TaskTypes
    <3>3. QED BY <1>1, <3>2
  <2>8. CASE GateGranted(j)
    BY <2>8 DEF GateGranted
  <2>9. QED BY <2>6, <2>7, <2>8
<1>2. IInv /\ [Next]_vars =>
        [\A i, j \in Jobs :
           /\ fut[i] \in {"pending", "granted"} /\ fut'[i] \in {"pending", "granted"}
           /\ pc[j] # "inference" /\ pc'[j] = "inference"
           => fut[j] = "granted"]_vars
  BY <1>1
<1>3. QED BY <1>2, InvariantHolds, PTL DEF Spec, NoOvertaking

-----------------------------------------------------------------------------
(* The trace, in terms of what the job has got.                            *)
Inferred == {"inference", "inference_search_failed"}

TracesInference(j) == \E i \in DOMAIN trace[j] : trace[j][i] = <<"inference", "success">>

(* No evidence before inference or a refusal, and inference's evidence     *)
(* goes with its entry in the trace; a record that has ended has the trace *)
(* of its end.                                                             *)
TraceFits(j) ==
  /\ pc[j] \in {"none", "created", "coregistration_check", "tiling", "gate", "inference"}
       => evidence[j] = "none"
  /\ pc[j] = "web_search" => evidence[j] \in Inferred
  /\ evidence[j] \in Inferred <=> TracesInference(j)
  /\ status[j] = "failed" =>
       /\ trace[j] # <<>>
       /\ LastOf(trace[j])[2] = "failed"
       /\ LastOf(trace[j])[1] \in {"coregistration_check", "inference", "response_generation"}
  /\ status[j] = "done" /\ result[j] = "unsupported" => trace[j] = <<>>
  /\ status[j] = "done" /\ result[j] # "unsupported" =>
       /\ trace[j] # <<>>
       /\ LastOf(trace[j]) = <<"response_generation", "success">>
       /\ result[j] = evidence[j]

TraceInv == \A j \in Jobs : TraceFits(j)

(* What is in a sequence with one more entry. *)
LEMMA AppendHolds ==
  ASSUME NEW S, NEW q \in Seq(S), NEW e \in S, NEW x
  PROVE  (\E i \in DOMAIN Append(q, e) : Append(q, e)[i] = x)
           <=> e = x \/ \E i \in DOMAIN q : q[i] = x
<1>1. /\ Append(q, e) \in Seq(S) /\ Len(Append(q, e)) = Len(q) + 1
      /\ \A i \in 1..Len(q) : Append(q, e)[i] = q[i]
      /\ Append(q, e)[Len(q) + 1] = e
  BY AppendProperties
<1>2. DOMAIN q = 1..Len(q) /\ DOMAIN Append(q, e) = 1..(Len(q) + 1) /\ Len(q) \in Nat
  BY <1>1, LenProperties
<1>3. ASSUME NEW i \in 1..(Len(q) + 1), Append(q, e)[i] = x
      PROVE  e = x \/ \E n \in 1..Len(q) : q[n] = x
  <2>1. i = Len(q) + 1 \/ i \in 1..Len(q)
    BY <1>2
  <2>2. QED BY <1>1, <1>3, <2>1
<1>4. Len(q) + 1 \in 1..(Len(q) + 1) /\ 1..Len(q) \subseteq 1..(Len(q) + 1)
  BY <1>2
<1>5. QED BY <1>1, <1>2, <1>3, <1>4

(* What one more entry makes of the trace of j.                            *)
LEMMA TracedEffect ==
  ASSUME TypeOK, NEW j \in Jobs, NEW stage \in Stages, NEW outcome \in {"success", "failed"},
         Traced(j, stage, outcome)
  PROVE  /\ trace'[j] # <<>> /\ LastOf(trace'[j]) = <<stage, outcome>>
         /\ TracesInference(j)' <=>
              TracesInference(j) \/ (stage = "inference" /\ outcome = "success")
<1> DEFINE e == <<stage, outcome>>
<1>1. trace[j] \in Seq(Stages \X {"success", "failed"}) /\ e \in Stages \X {"success", "failed"}
  BY DEF TypeOK, RecordTypes
<1>2. trace'[j] = Append(trace[j], e)
  BY DEF Traced, TypeOK, RecordTypes
<1>3. e = <<"inference", "success">> <=> stage = "inference" /\ outcome = "success"
  OBVIOUS
<1> HIDE DEF e
<1>4. Append(trace[j], e) # <<>> /\ LastOf(Append(trace[j], e)) = e
  BY <1>1, AppendLast
<1>5. TracesInference(j)' <=> e = <<"inference", "success">> \/ TracesInference(j)
  <2> DEFINE S == Stages \X {"success", "failed"}
             q == trace[j]
             x == <<"inference", "success">>
  <2>1. q \in Seq(S) /\ e \in S
    BY <1>1
  <2>2. trace'[j] = Append(q, e)
    BY <1>2
  <2> HIDE DEF S, q, x
  <2>3. (\E i \in DOMAIN Append(q, e) : Append(q, e)[i] = x) <=> e = x \/ \E i \in DOMAIN q : q[i] = x
    BY <2>1, AppendHolds
  <2>4. QED BY <2>2, <2>3 DEF TracesInference, q, x
<1>6. QED BY <1>2, <1>3, <1>4, <1>5 DEF e

(* Every step of j keeps its trace in line with its record.                *)
LEMMA TraceStep ==
  ASSUME TypeOK, JobInv, TraceInv, [Next]_vars
  PROVE  TraceInv'
<1>1. CASE UNCHANGED vars
  BY <1>1 DEF vars, record, planner, TraceInv, TraceFits, TracesInference
<1> SUFFICES ASSUME NEW j \in Jobs, Step(j) PROVE TraceInv'
  BY <1>1 DEF Next, Step
<1>2. OthersKept(j)
  BY StepKeepsOthers
<1>3. \A k \in Jobs \ {j} : TraceFits(k)'
  <2> SUFFICES ASSUME NEW k \in Jobs \ {j} PROVE TraceFits(k)'
    OBVIOUS
  <2>1. /\ status'[k] = status[k] /\ result'[k] = result[k] /\ trace'[k] = trace[k]
        /\ evidence'[k] = evidence[k] /\ pc'[k] = pc[k]
    BY <1>2 DEF OthersKept
  <2>2. TraceFits(k)
    BY DEF TraceInv
  <2>3. TracesInference(k)' <=> TracesInference(k)
    BY <2>1 DEF TracesInference
  <2>4. QED BY <2>1, <2>2, <2>3 DEF TraceFits
<1> SUFFICES TraceFits(j)'
  BY <1>3 DEF TraceInv
<1>4. TraceFits(j) /\ RecordFits(j)
  BY DEF JobInv, TraceInv
<1>5. /\ status \in [Jobs -> {"absent", "queued", "running"} \cup Terminal]
      /\ result \in [Jobs -> Evidences \cup {"unsupported"}]
      /\ evidence \in [Jobs -> Evidences]
      /\ pc \in [Jobs -> {"none", "created", "gate", "returned", "raised", "over"} \cup Stages]
  BY DEF TypeOK, RecordTypes, PlannerTypes, TaskTypes
<1>6. pc[j] \in Stages \cup {"gate"} => status[j] = "running"
  BY <1>4 DEF RecordFits
<1> USE DEF record, planner
<1>7. ASSUME UNCHANGED <<trace, evidence, result>>, status'[j] = status[j],
             pc'[j] = pc[j] \/ pc'[j] \in {"returned", "raised", "over"}
      PROVE  TraceFits(j)'
  <2>1. /\ trace'[j] = trace[j] /\ evidence'[j] = evidence[j] /\ result'[j] = result[j]
        /\ TracesInference(j)' <=> TracesInference(j)
    BY <1>7 DEF TracesInference
  <2>2. CASE pc'[j] = pc[j]
    BY <1>4, <1>7, <2>1, <2>2 DEF TraceFits
  <2>3. CASE pc'[j] \in {"returned", "raised", "over"}
    BY <1>4, <1>7, <2>1, <2>3 DEF TraceFits
  <2>4. QED BY <1>7, <2>2, <2>3
<1>8. CASE \E r \in Requests : Submit(j, r)
  <2>1. /\ UNCHANGED <<trace, evidence, result>> /\ status'[j] = "queued"
        /\ pc[j] = "none" /\ pc'[j] = "created"
    BY <1>4, <1>5, <1>8 DEF Submit, RecordFits
  <2>2. (TracesInference(j)' <=> TracesInference(j)) /\ evidence[j] = "none"
    BY <1>4, <2>1 DEF TracesInference, TraceFits
  <2>3. QED BY <1>4, <2>1, <2>2 DEF TraceFits
<1>9. CASE Cancel(j) \/ StartCall(j) \/ Return(j) \/ StartCancelled(j) \/ ThrowCancelled(j)
  BY <1>5, <1>7, <1>9 DEF Cancel, StartCall, Return, ReturnCall, StartCancelled, ThrowCancelled
<1>10. CASE OnTaskDone(j)
  <2>1. UNCHANGED <<trace, evidence, result>> /\ pc'[j] = "over"
        /\ (status'[j] = status[j] \/ status'[j] = "cancelled")
    BY <1>5, <1>10 DEF OnTaskDone
  <2>2. TracesInference(j)' <=> TracesInference(j)
    BY <2>1 DEF TracesInference
  <2>3. QED BY <1>4, <2>1, <2>2 DEF TraceFits
<1>11. CASE StartUnsupported(j)
  <2>1. /\ UNCHANGED <<trace, evidence>> /\ pc[j] = "created" /\ pc'[j] = "returned"
        /\ status'[j] = "done" /\ result'[j] = "unsupported"
    BY <1>5, <1>11 DEF StartUnsupported, Complete
  <2>2. trace[j] = <<>>
    BY <1>4, <2>1 DEF RecordFits
  <2>3. TracesInference(j)' <=> TracesInference(j)
    BY <2>1 DEF TracesInference
  <2>4. QED BY <1>4, <2>1, <2>2, <2>3 DEF TraceFits
<1>12. CASE StartPlan(j)
  <2>1. /\ UNCHANGED <<trace, evidence, result>> /\ pc[j] = "created"
        /\ status'[j] = "running" /\ pc'[j] # "web_search"
    BY <1>5, <1>12 DEF StartPlan, Call
  <2>2. evidence[j] = "none" /\ (TracesInference(j)' <=> TracesInference(j))
    BY <1>4, <2>1 DEF TracesInference, TraceFits
  <2>3. QED BY <1>4, <2>1, <2>2 DEF TraceFits
<1>13. CASE CoregAligned(j)
  <2>1. /\ UNCHANGED <<status, evidence>> /\ pc[j] = "coregistration_check" /\ pc'[j] = "tiling"
        /\ Traced(j, "coregistration_check", "success")
    BY <1>5, <1>13 DEF CoregAligned, Answered, Call
  <2>2. TracesInference(j)' <=> TracesInference(j)
    BY <2>1, TracedEffect DEF Stages
  <2>3. QED BY <1>4, <1>6, <2>1, <2>2 DEF TraceFits, Stages
<1>14. CASE CoregRefused(j)
  <2>1. /\ UNCHANGED status /\ pc[j] = "coregistration_check" /\ pc'[j] = "response_generation"
        /\ evidence'[j] = "coreg_refusal" /\ Traced(j, "coregistration_check", "success")
    BY <1>5, <1>14 DEF CoregRefused, Answered, Call
  <2>2. TracesInference(j)' <=> TracesInference(j)
    BY <2>1, TracedEffect DEF Stages
  <2>3. QED BY <1>4, <1>6, <2>1, <2>2 DEF TraceFits, Stages, Inferred
<1>15. CASE TileNext(j)
  <2>1. /\ UNCHANGED <<status, evidence>> /\ pc[j] = "tiling"
        /\ pc'[j] \in {"tiling", "gate", "inference"}
    BY <1>5, <1>15 DEF TileNext, Answered, Call, ReachGate, AcquireNow, WaitTurn, LeaveCall
  <2>2. UNCHANGED trace \/ Traced(j, "tiling", "success")
    BY <1>15 DEF TileNext
  <2>3. TracesInference(j)' <=> TracesInference(j)
    <3>1. CASE UNCHANGED trace
      BY <3>1 DEF TracesInference
    <3>2. CASE Traced(j, "tiling", "success")
      BY <3>2, TracedEffect DEF Stages
    <3>3. QED BY <2>2, <3>1, <3>2
  <2>4. QED BY <1>4, <1>6, <2>1, <2>3 DEF TraceFits, Stages
<1>16. CASE TilingFailed(j)
  <2>1. /\ UNCHANGED status /\ pc[j] = "tiling" /\ pc'[j] = "response_generation"
        /\ evidence'[j] = "preprocess_refusal" /\ Traced(j, "tiling", "failed")
    BY <1>5, <1>16 DEF TilingFailed, Answered, Call
  <2>2. TracesInference(j)' <=> TracesInference(j)
    BY <2>1, TracedEffect DEF Stages
  <2>3. QED BY <1>4, <1>6, <2>1, <2>2 DEF TraceFits, Stages, Inferred
<1>17. CASE GateGranted(j)
  <2>1. UNCHANGED <<trace, evidence, status>> /\ pc[j] = "gate" /\ pc'[j] = "inference"
    BY <1>5, <1>17 DEF GateGranted, Call
  <2>2. TracesInference(j)' <=> TracesInference(j)
    BY <2>1 DEF TracesInference
  <2>3. QED BY <1>4, <1>6, <2>1, <2>2 DEF TraceFits
<1>18. CASE InferenceDone(j)
  <2>1. /\ UNCHANGED status /\ pc[j] = "inference"
        /\ pc'[j] \in {"web_search", "response_generation"}
        /\ evidence'[j] = "inference" /\ Traced(j, "inference", "success")
    BY <1>5, <1>18 DEF InferenceDone, Answered, Call
  <2>2. TracesInference(j)'
    BY <2>1, TracedEffect DEF Stages
  <2>3. QED BY <1>6, <2>1, <2>2 DEF TraceFits, Stages, Inferred
<1>19. CASE SearchDone(j)
  <2>1. /\ UNCHANGED status /\ pc[j] = "web_search" /\ pc'[j] = "response_generation"
        /\ evidence'[j] = evidence[j] \/ evidence'[j] = "inference_search_failed"
        /\ Traced(j, "web_search", "success")
    BY <1>5, <1>19 DEF SearchDone, Answered, Call
  <2>2. TracesInference(j)' <=> TracesInference(j)
    BY <2>1, TracedEffect DEF Stages
  <2>3. QED BY <1>4, <1>6, <2>1, <2>2 DEF TraceFits, Stages, Inferred
<1>20. CASE Respond(j)
  <2>1. /\ UNCHANGED evidence /\ pc'[j] = "returned"
        /\ status'[j] = "done" /\ result'[j] = evidence[j]
        /\ Traced(j, "response_generation", "success")
    BY <1>5, <1>20 DEF Respond, Complete, LeaveCall
  <2>2. /\ TracesInference(j)' <=> TracesInference(j)
        /\ trace'[j] # <<>> /\ LastOf(trace'[j]) = <<"response_generation", "success">>
    BY <2>1, TracedEffect DEF Stages
  <2>3. result'[j] # "unsupported"
    BY <1>5, <2>1 DEF Evidences
  <2>4. QED BY <1>4, <2>1, <2>2, <2>3 DEF TraceFits
<1>21. CASE StageFailed(j)
  <2>1. PICK stage \in {"coregistration_check", "inference", "response_generation"} :
          Traced(j, stage, "failed") /\ Fail(j)
    BY <1>21 DEF StageFailed
  <2>2. UNCHANGED evidence /\ status'[j] = "failed" /\ pc'[j] = "returned"
    BY <1>5, <1>21 DEF StageFailed, Fail, LeaveCall
  <2>3. /\ TracesInference(j)' <=> TracesInference(j)
        /\ trace'[j] # <<>> /\ LastOf(trace'[j]) = <<stage, "failed">>
    BY <2>1, TracedEffect DEF Stages
  <2>4. LastOf(trace'[j])[1] = stage /\ LastOf(trace'[j])[2] = "failed"
    BY <2>3
  <2>5. QED BY <1>4, <2>1, <2>2, <2>3, <2>4 DEF TraceFits
<1>22. QED
  BY <1>8, <1>9, <1>10, <1>11, <1>12, <1>13, <1>14, <1>15, <1>16, <1>17, <1>18, <1>19,
     <1>20, <1>21
  DEF Step, Turn

LEMMA InitTrace == Init => TraceInv
BY DEF Init, TraceInv, TraceFits, TracesInference, Inferred

(* The trace fits the record in every reachable state.                     *)
LEMMA TraceHolds == Spec => []TraceInv
<1>1. IInv /\ TraceInv /\ [Next]_vars => TraceInv'
  BY TraceStep DEF IInv
<1>2. QED BY <1>1, InitTrace, InvariantHolds, PTL DEF Spec

(* A job fails by an unguarded stage only, and its trace names the stage.  *)
THEOREM FailureSafe == Spec => []FailureIsTraced
<1>1. TraceInv => FailureIsTraced
  BY DEF TraceInv, TraceFits, FailureIsTraced
<1>2. QED BY <1>1, TraceHolds, PTL

(* The trace of a finished job says how its answer came about.             *)
THEOREM TraceSafe == Spec => []TraceExplainsAnswer
<1>1. TraceInv => TraceExplainsAnswer
  BY DEF TraceInv, TraceFits, TraceExplainsAnswer, TracesInference, Inferred
<1>2. QED BY <1>1, TraceHolds, PTL
=============================================================================
