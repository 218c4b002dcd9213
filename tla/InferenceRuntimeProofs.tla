----------------------- MODULE InferenceRuntimeProofs -----------------------
(***************************************************************************)
(* Proofs about InferenceRuntime, for any number of threads: whatever the  *)
(* threads do to the loader they share, each of them runs the ladder.      *)
(***************************************************************************)
EXTENDS InferenceRuntime, OperatorProofs

(* Where a thread is in the loop and what its ladder says agree. *)
ThreadInv(t) ==
  /\ LadderInv(ladder[t])
  /\ at[t] # "idle" <=> ladder[t].status = "running"
  /\ at[t] \notin {"idle", "loop"} => Left(ladder[t]) > 0

CallPlaces == {"idle", "loop", "stale", "load", "evict", "choose", "unload", "insert", "use"}

(* LadderInv alone does not say that a thread that answers a batch has one *)
(* to answer: the place in process_batch has to be tied to the loop.       *)
RInv ==
  /\ ladder \in [Threads -> {Idle} \cup LadderRecord]
  /\ at \in [Threads -> CallPlaces]
  /\ \A t \in Threads : ThreadInv(t)

(* What a step of the ladder of t does to the ladder. *)
LadderMoves(t) ==
  /\ LadderInv(ladder'[t])
  /\ Call(t)!Next
  /\ ladder[t].status = "running" /\ ladder'[t].status = "running"
       => Descends(ladder[t], ladder'[t])

(* The invariant in one thread, from what its step did to the ladder and   *)
(* to its place.                                                           *)
LEMMA ThreadMoves ==
  ASSUME RInv, NEW t \in Threads, NEW next, NEW place \in CallPlaces,
         Step(t, next), Goto(t, place), LadderInv(next),
         place # "idle" <=> next.status = "running",
         place \notin {"idle", "loop"} => Left(next) > 0
  PROVE  /\ RInv'
         /\ ladder'[t] = next
         /\ \A u \in Threads \ {t} : ladder'[u] = ladder[u]
<1>1. next \in {Idle} \cup LadderRecord
  BY DEF LadderInv
<1>2. /\ ladder' \in [Threads -> {Idle} \cup LadderRecord]
      /\ ladder'[t] = next
      /\ \A u \in Threads \ {t} : ladder'[u] = ladder[u]
  BY <1>1 DEF Step, RInv
<1>3. /\ at' \in [Threads -> CallPlaces]
      /\ at'[t] = place
      /\ \A u \in Threads \ {t} : at'[u] = at[u]
  BY DEF Goto, RInv
<1>4. ASSUME NEW u \in Threads PROVE ThreadInv(u)'
  <2>1. CASE u = t
    BY <1>2, <1>3, <2>1 DEF ThreadInv
  <2>2. CASE u # t
    <3>1. ThreadInv(u)
      BY DEF RInv
    <3>2. ladder'[u] = ladder[u] /\ at'[u] = at[u]
      BY <1>2, <1>3, <2>2
    <3>3. QED BY <3>1, <3>2 DEF ThreadInv
  <2>3. QED BY <2>1, <2>2
<1>5. QED BY <1>2, <1>3, <1>4 DEF RInv

(* The same for a step that leaves the ladder alone. *)
LEMMA PlaceMoves ==
  ASSUME RInv, NEW t \in Threads, NEW place \in CallPlaces \ {"idle", "loop"},
         UNCHANGED ladder, Goto(t, place), at[t] # "idle", Left(ladder[t]) > 0
  PROVE  RInv'
<1>1. /\ at' \in [Threads -> CallPlaces]
      /\ at'[t] = place
      /\ \A u \in Threads \ {t} : at'[u] = at[u]
  BY DEF Goto, RInv
<1>2. ASSUME NEW u \in Threads PROVE ThreadInv(u)'
  <2>1. ThreadInv(u)
    BY DEF RInv
  <2>2. CASE u = t
    BY <1>1, <2>1, <2>2 DEF ThreadInv
  <2>3. CASE u # t
    BY <1>1, <2>1, <2>3 DEF ThreadInv
  <2>4. QED BY <2>2, <2>3
<1>3. QED BY <1>1, <1>2 DEF RInv

(* Each step is one step of one ladder, or of none. *)
LEMMA RuntimeStep ==
  ASSUME RInv, [Next]_vars
  PROVE  /\ RInv'
         /\ \A t \in Threads : LadderMoves(t) \/ UNCHANGED ladder[t]
<1>a. ASSUME NEW t \in Threads PROVE ThreadInv(t)
  BY DEF RInv
<1>b. ASSUME NEW t \in Threads, LadderMoves(t),
             \A u \in Threads \ {t} : ladder'[u] = ladder[u]
      PROVE  \A u \in Threads : LadderMoves(u) \/ UNCHANGED ladder[u]
  BY <1>b
<1>1. ASSUME NEW t \in Threads, NEW r \in Requests, RunInference(t, r)
      PROVE  RInv' /\ \A u \in Threads : LadderMoves(u) \/ UNCHANGED ladder[u]
  <2>1. LadderInv(NewLadder(r)) /\ NewLadder(r).status = "running"
    BY NewLadderInv, RegistryAssumption DEF NewLadder
  <2>2. /\ RInv' /\ ladder'[t] = NewLadder(r)
        /\ \A u \in Threads \ {t} : ladder'[u] = ladder[u]
    BY <1>1, <2>1, ThreadMoves DEF RunInference, CallPlaces
  <2>3. ladder[t].status # "running"
    BY <1>1, <1>a DEF RunInference, ThreadInv
  <2>4. LadderMoves(t)
    BY <2>1, <2>2, <2>3 DEF LadderMoves, Call!Next, Call!Start, Call!NewLadder, NewLadder
  <2>5. QED BY <1>b, <2>2, <2>4
<1>2. ASSUME NEW t \in Threads, \/ GetHit(t) \/ GetMiss(t) \/ DropStale(t) \/ LookAtBudget(t)
                              \/ ChooseVictim(t) \/ Evict(t) \/ Insert(t)
      PROVE  RInv' /\ \A u \in Threads : LadderMoves(u) \/ UNCHANGED ladder[u]
  <2>1. UNCHANGED ladder
    BY <1>2 DEF GetHit, GetMiss, DropStale, LookAtBudget, ChooseVictim, Evict, Insert
  <2>2. at[t] # "idle" /\ Left(ladder[t]) > 0
    BY <1>2, <1>a
    DEF GetHit, GetMiss, DropStale, LookAtBudget, ChooseVictim, Evict, Insert, Inserted,
        Turning, ThreadInv
  <2>3. \E place \in CallPlaces \ {"idle", "loop"} : Goto(t, place)
    BY <1>2 DEF GetHit, GetMiss, DropStale, LookAtBudget, ChooseVictim, Evict, Insert, CallPlaces
  <2>4. PICK place \in CallPlaces \ {"idle", "loop"} : Goto(t, place)
    BY <2>3
  <2>5. RInv'
    BY <2>1, <2>2, <2>4, PlaceMoves
  <2>6. QED BY <2>1, <2>5
<1>3. ASSUME NEW t \in Threads, Raises(t) \/ Collides(t)
      PROVE  RInv' /\ \A u \in Threads : LadderMoves(u) \/ UNCHANGED ladder[u]
  <2>1. PICK cause \in {"model_error", "adapter_error"} :
          /\ Step(t, Raised(ladder[t], cause))
          /\ cause = "adapter_error" => ~Accepted(ladder[t], Batch(ladder[t]))
    BY <1>3 DEF Raises, Collides
  <2>2. ladder[t].status = "running" /\ Left(ladder[t]) > 0 /\ LadderInv(ladder[t])
    BY <1>3, <1>a DEF Raises, Collides, Inserted, ThreadInv
  <2>3. /\ LadderInv(Raised(ladder[t], cause))
        /\ Raised(ladder[t], cause).status # "running"
    BY <2>2, RaisedInv
  <2>5. /\ RInv' /\ ladder'[t] = Raised(ladder[t], cause)
        /\ \A u \in Threads \ {t} : ladder'[u] = ladder[u]
    BY <1>3, <2>1, <2>3, ThreadMoves DEF Raises, Collides, CallPlaces
  <2>6. LadderMoves(t)
    BY <2>1, <2>2, <2>3, <2>5
    DEF LadderMoves, Call!Next, Call!BatchRaises, Call!Raised, Call!Left, Call!Accepted,
        Call!Batch, Call!BatchEnd, Call!ImagesOf, Raised, Left, Accepted, Batch,
        BatchEnd, ImagesOf
  <2>7. QED BY <1>b, <2>5, <2>6
<1>5. ASSUME NEW t \in Threads, RunsOut(t)
      PROVE  RInv' /\ \A u \in Threads : LadderMoves(u) \/ UNCHANGED ladder[u]
  <2>1. PICK next : OutOfMemory(ladder[t], next) /\ Step(t, next)
    BY <1>5 DEF RunsOut
  <2>2. ladder[t].status = "running" /\ Left(ladder[t]) > 0 /\ LadderInv(ladder[t])
    BY <1>5, <1>a DEF RunsOut, ThreadInv
  <2>3. LadderInv(next) /\ Descends(ladder[t], next)
    BY <2>1, <2>2, OutOfMemoryInv
  <2>4. next.status = "running"
    <3>1. ladder[t] \in LadderRecord
      BY <2>2, RunningIsRecord
    <3>2. QED
      BY <2>1, <2>2, <3>1
      DEF OutOfMemory, Shrunk, SteppedDown, TileDropped, LadderRecord
  <2>5. /\ RInv' /\ ladder'[t] = next
        /\ \A u \in Threads \ {t} : ladder'[u] = ladder[u]
    BY <1>5, <2>1, <2>3, <2>4, ThreadMoves DEF RunsOut, CallPlaces
  <2>6. LadderMoves(t)
    BY <2>1, <2>2, <2>3, <2>5
    DEF LadderMoves, Call!Next, Call!BatchOom, Call!OutOfMemory, Call!Left,
        Call!Shrunk, Call!SteppedDown, Call!TileDropped, Call!LastTier, Call!NextTier,
        OutOfMemory, Left, Shrunk, SteppedDown, TileDropped, LastTier, NextTier
  <2>7. QED BY <1>b, <2>5, <2>6
<1>7. ASSUME NEW t \in Threads, UseOk(t)
      PROVE  RInv' /\ \A u \in Threads : LadderMoves(u) \/ UNCHANGED ladder[u]
  <2>2. ladder[t].status = "running" /\ Left(ladder[t]) > 0 /\ LadderInv(ladder[t])
    BY <1>7, <1>a DEF UseOk, ThreadInv
  <2>3. /\ LadderInv(Processed(ladder[t]))
        /\ Left(Processed(ladder[t])) < Left(ladder[t])
    BY <2>2, ProcessedInv
  <2>4. Processed(ladder[t]).status = "running"
    <3>1. ladder[t] \in LadderRecord
      BY <2>2, RunningIsRecord
    <3>2. QED BY <2>2, <3>1 DEF Processed, LadderRecord
  <2>5. /\ RInv' /\ ladder'[t] = Processed(ladder[t])
        /\ \A u \in Threads \ {t} : ladder'[u] = ladder[u]
    BY <1>7, <2>3, <2>4, ThreadMoves DEF UseOk, CallPlaces
  <2>6. Descends(ladder[t], ladder'[t])
    BY <2>3, <2>5 DEF Descends
  <2>7. Call(t)!BatchOk
    BY <1>7, <2>2, <2>5
    DEF UseOk, Call!BatchOk, Call!Processed, Call!Left, Call!Accepted, Call!Batch,
        Call!BatchEnd, Call!ImagesOf, Processed, Left, Accepted, Batch, BatchEnd, ImagesOf
  <2>8. LadderMoves(t)
    BY <2>3, <2>5, <2>6, <2>7 DEF LadderMoves, Call!Next
  <2>9. QED BY <1>b, <2>5, <2>8
<1>8. ASSUME NEW t \in Threads, Return(t)
      PROVE  RInv' /\ \A u \in Threads : LadderMoves(u) \/ UNCHANGED ladder[u]
  <2>2. ladder[t].status = "running" /\ Left(ladder[t]) = 0 /\ LadderInv(ladder[t])
    BY <1>8, <1>a DEF Return, ThreadInv
  <2>3. LadderInv(Ended(ladder[t])) /\ Ended(ladder[t]).status # "running"
    BY <2>2, EndedInv
  <2>5. /\ RInv' /\ ladder'[t] = Ended(ladder[t])
        /\ \A u \in Threads \ {t} : ladder'[u] = ladder[u]
    BY <1>8, <2>3, ThreadMoves DEF Return, CallPlaces
  <2>6. LadderMoves(t)
    BY <2>2, <2>3, <2>5
    DEF LadderMoves, Call!Next, Call!Finish, Call!Ended, Call!Left, Ended, Left
  <2>7. QED BY <1>b, <2>5, <2>6
<1>9. CASE UNCHANGED vars
  <2>1. ladder' = ladder /\ at' = at
    BY <1>9 DEF vars
  <2>2. QED BY <2>1 DEF RInv, ThreadInv
<1>10. QED
  BY <1>1, <1>2, <1>3, <1>5, <1>7, <1>8, <1>9 DEF Next, Proceed

(* The inductive invariant holds in every state. *)
THEOREM InvariantHolds == Spec => []RInv
<1>1. Init => RInv
  BY DEF Init, RInv, ThreadInv, LadderInv, Idle, CallPlaces
<1>2. RInv /\ [Next]_vars => RInv'
  BY RuntimeStep
<1>3. QED BY <1>1, <1>2, PTL DEF Spec

(* The locals of every thread's loop keep their types: in particular, the  *)
(* batch size never becomes zero.                                          *)
THEOREM TypeCorrect == Spec => [](\A t \in Threads : LadderTyped(ladder[t]))
<1>1. RInv => \A t \in Threads : LadderTyped(ladder[t])
  BY InvImplies DEF RInv, ThreadInv
<1>2. QED BY <1>1, InvariantHolds, PTL

(* Each tile of each call is answered for once or dropped, with any number *)
(* of threads interfering through the loader.                              *)
THEOREM TilesSafe == Spec => []EveryCallAccountsForTiles
<1>1. RInv => EveryCallAccountsForTiles
  BY InvImplies DEF RInv, ThreadInv, EveryCallAccountsForTiles
<1>2. QED BY <1>1, InvariantHolds, PTL

(* No tile is given up early, and no answer that lost something is without *)
(* a warning, in any thread.                                               *)
THEOREM LossSafe == Spec => []EveryLossIsLastResort
<1>1. RInv => EveryLossIsLastResort
  BY InvImplies DEF RInv, ThreadInv, EveryLossIsLastResort
<1>2. QED BY <1>1, InvariantHolds, PTL

(* Every thread implements OomLadder. *)
THEOREM Refinement == Spec => RunsTheLadder
<1>1. Init => \A t \in Threads : Call(t)!Init
  BY DEF Init, Call!Init, Call!Idle, Idle
<1>2. RInv /\ [Next]_vars =>
        [\A t \in Threads : Call(t)!Next \/ UNCHANGED ladder[t]]_vars
  BY RuntimeStep DEF LadderMoves
<1>3. QED BY <1>1, <1>2, InvariantHolds, PTL DEF Spec, RunsTheLadder

(* Every turn of every thread's loop descends, so that every call of       *)
(* run_inference comes to an end.                                          *)
THEOREM LoopsEnd == Spec => EveryLoopDescends
<1>1. RInv /\ [Next]_vars =>
        [\A t \in Threads :
           ladder[t].status = "running" /\ ladder'[t].status = "running"
             /\ ladder'[t] # ladder[t]
           => Descends(ladder[t], ladder'[t])]_vars
  BY RuntimeStep DEF LadderMoves
<1>2. QED BY <1>1, InvariantHolds, PTL DEF Spec, EveryLoopDescends

-----------------------------------------------------------------------------
(* The loader the threads share. Its copies are in the order in which get()*)
(* gave them: only then are the oldest of them those not used for longest. *)
Ordered(list) ==
  /\ list \in Seq(LoadedModel)
  /\ \A i \in 1..Len(list) : list[i].name \in Range(recent)
  /\ \A i, k \in 1..Len(list) : i < k => /\ list[i].name # list[k].name
                                         /\ UsedBefore(list[i].name, list[k].name)

LoaderInv ==
  /\ recent \in Seq(Models)
  /\ Ordered(resident)

(* What thread t has seen of the loader holds still, unless others have    *)
(* done what `overtaken` says.                                             *)
SeenRoom(t) == at[t] = "insert" /\ "filled" \notin overtaken[t] => RoomFor(Tier(t))

SeenNoRoom(t) ==
  at[t] \in {"choose", "unload"} /\ "freed" \notin overtaken[t] =>
    ~Fits(Range(resident), Tier(t))

SeenOldest(t) ==
  at[t] = "unload" =>
    /\ victim[t] \in Range(recent)
    /\ "touched" \notin overtaken[t] =>
         \A n \in Names(resident) \ {victim[t]} : UsedBefore(victim[t], n)

SeenInv(t) == SeenRoom(t) /\ SeenNoRoom(t) /\ SeenOldest(t)

(* The order of the copies does not say what a thread may do to them: that *)
(* is in what each thread has seen.                                        *)
SInv ==
  /\ LoaderInv
  /\ victim \in [Threads -> Models \cup {NoVictim}]
  /\ \A t \in Threads : SeenInv(t)

(* What copies take of the memory, one more included.                      *)
LEMMA VramHolds ==
  ASSUME NEW S \in SUBSET LoadedModel, IsFiniteSet(S)
  PROVE  /\ VramUsed(S) \in Nat
         /\ \A T \in SUBSET S : VramUsed(T) \in Nat /\ VramUsed(T) <= VramUsed(S)
         /\ VramUsed({}) = 0
         /\ \A c \in LoadedModel : VramUsed(S \cup {c}) <= VramUsed(S) + Vram[c.quant]
<1> DEFINE f == [c \in LoadedModel |-> Vram[c.quant]]
<1>0. \A c \in LoadedModel : f[c] = Vram[c.quant] /\ f[c] \in Nat
  BY VramAssumption DEF LoadedModel
<1>1. \A T \in SUBSET LoadedModel : VramUsed(T) = SumFunctionOnSet(f, T)
  BY DEF VramUsed
<1> HIDE DEF f
<1>2. VramUsed({}) = 0
  BY <1>1, SumOfNone
<1>3. \A x \in S : f[x] \in Nat
  BY <1>0
<1>4. ASSUME NEW T \in SUBSET S PROVE VramUsed(T) \in Nat /\ VramUsed(S) \in Nat /\ VramUsed(T) <= VramUsed(S)
  BY <1>1, <1>3, SumGrows
<1>5. ASSUME NEW c \in LoadedModel PROVE VramUsed(S \cup {c}) <= VramUsed(S) + Vram[c.quant]
  <2>1. CASE c \in S
    <3>1. S \cup {c} = S
      BY <2>1
    <3>2. VramUsed(S \cup {c}) = VramUsed(S)
      BY <3>1
    <3> QED BY <1>0, <1>4, <3>2
  <2>2. CASE c \notin S
    <3>1. PICK U : U = S \cup {c}
      OBVIOUS
    <3>2. U \ {c} = S /\ c \in U /\ U \in SUBSET LoadedModel
      BY <2>2, <3>1
    <3>3. IsFiniteSet(U)
      BY <3>1, FS_AddElement
    <3>4. \A x \in U : f[x] \in Int
      BY <1>0, <3>2
    <3>5. SumFunctionOnSet(f, U) = f[c] + SumFunctionOnSet(f, U \ {c})
      BY <3>2, <3>3, <3>4, SumTakesAny
    <3>6. VramUsed(U) = f[c] + VramUsed(S)
      BY <1>1, <3>2, <3>5
    <3> QED BY <1>0, <1>4, <3>1, <3>6
  <2> QED BY <2>1, <2>2
<1> QED BY <1>2, <1>4, <1>5

(* Some of the copies, in their order.                                     *)
LEMMA OrderedSublist ==
  ASSUME NEW list, Ordered(list), NEW I \in SUBSET (1..Len(list)),
         NEW sub, sub = ElementsAt(list, I)
  PROVE  /\ Ordered(sub)
         /\ Range(sub) = {list[i] : i \in I}
         /\ Range(sub) \in SUBSET Range(list)
         /\ I = {} => sub = <<>>
         /\ Len(list) = 1 => sub = <<>> \/ Len(sub) = 1
<1>1. list \in Seq(LoadedModel) /\ Len(list) \in Nat /\ DOMAIN list = 1..Len(list)
  BY LenProperties DEF Ordered
<1>2. sub \in Seq(LoadedModel) /\ Len(sub) \in Nat /\ DOMAIN sub = 1..Len(sub)
  BY <1>1, SublistPicks, LenProperties
<1>3. PICK pos : Picks(pos, sub, list, I)
  BY <1>1, SublistPicks
<1>4. \A p \in 1..Len(sub) : pos[p] \in I /\ pos[p] \in 1..Len(list) /\ sub[p] = list[pos[p]]
  BY <1>3 DEF Picks
<1>5. \A p, q \in 1..Len(sub) : p < q => pos[p] < pos[q]
  BY <1>3 DEF Picks
<1>6. \A i \in I : \E p \in 1..Len(sub) : pos[p] = i
  BY <1>3 DEF Picks
<1>7. Ordered(sub)
  BY <1>2, <1>4, <1>5 DEF Ordered
<1>8. Range(sub) = {list[i] : i \in I} /\ Range(list) = {list[i] : i \in 1..Len(list)}
  <2>1. Range(sub) = {sub[p] : p \in 1..Len(sub)} /\ Range(list) = {list[i] : i \in 1..Len(list)}
    BY <1>1, <1>2 DEF Range
  <2>2. ASSUME NEW x \in {list[i] : i \in I} PROVE x \in {sub[p] : p \in 1..Len(sub)}
    <3>1. PICK i \in I : x = list[i]
      OBVIOUS
    <3>2. PICK p \in 1..Len(sub) : pos[p] = i
      BY <1>6
    <3> QED BY <1>4, <3>1, <3>2
  <2>3. ASSUME NEW p \in 1..Len(sub) PROVE sub[p] \in {list[i] : i \in I}
    BY <1>4
  <2> QED BY <2>1, <2>2, <2>3
<1>9. ASSUME I = {} PROVE sub = <<>>
  <2>1. Len(sub) = 0
    BY <1>2, <1>4, <1>9
  <2> QED BY <1>2, <2>1, EmptySeq
<1>10. ASSUME Len(list) = 1 PROVE sub = <<>> \/ Len(sub) = 1
  <2>1. ~(Len(sub) > 1)
    <3>1. SUFFICES ASSUME Len(sub) > 1 PROVE FALSE
      OBVIOUS
    <3>2. 1 \in 1..Len(sub) /\ 2 \in 1..Len(sub)
      BY <1>2, <3>1
    <3>3. pos[1] \in 1..1 /\ pos[2] \in 1..1 /\ pos[1] < pos[2]
      BY <1>4, <1>5, <1>10, <3>2
    <3> QED BY <3>3
  <2>2. Len(sub) = 0 => sub = <<>>
    BY <1>2, EmptySeq
  <2> QED BY <1>2, <2>1, <2>2
<1> QED BY <1>7, <1>8, <1>9, <1>10

(* A model that get() gives becomes the most recently used.                *)
LEMMA UseMoves ==
  ASSUME recent \in Seq(Models), NEW m \in Models,
         recent' = Append(ElementsAt(recent, {i \in DOMAIN recent : recent[i] # m}), m)
  PROVE  /\ recent' \in Seq(Models)
         /\ Range(recent)' = Range(recent) \cup {m}
         /\ \A a, b \in Models \ {m} : UsedBefore(a, b) => UsedBefore(a, b)'
         /\ \A a \in Range(recent) \ {m} : UsedBefore(a, m)'
<1>1. PICK n \in Nat : n = Len(recent) /\ DOMAIN recent = 1..n
  BY LenProperties
<1>2. PICK I \in SUBSET (1..n) : I = {i \in DOMAIN recent : recent[i] # m}
  BY <1>1
<1>3. PICK sub : sub = ElementsAt(recent, I)
  OBVIOUS
<1>4. sub \in Seq(Models) /\ Len(sub) \in Nat /\ \E pos : Picks(pos, sub, recent, I)
  BY <1>1, <1>3, SublistPicks
<1>5. PICK pos : Picks(pos, sub, recent, I)
  BY <1>4
<1>6. /\ \A p \in 1..Len(sub) : pos[p] \in I /\ sub[p] = recent[pos[p]]
      /\ \A p, q \in 1..Len(sub) : p < q => pos[p] < pos[q]
      /\ \A i \in I : \E p \in 1..Len(sub) : pos[p] = i
  BY <1>5 DEF Picks
<1>7. recent' = Append(sub, m)
  BY <1>2, <1>3
<1>8. /\ recent' \in Seq(Models) /\ DOMAIN recent' = 1..(Len(sub) + 1)
      /\ \A p \in 1..Len(sub) : recent'[p] = sub[p]
      /\ recent'[Len(sub) + 1] = m
  <2>1. PICK more : more = Append(sub, m)
    OBVIOUS
  <2>2. /\ more \in Seq(Models) /\ Len(more) = Len(sub) + 1
        /\ \A p \in 1..Len(sub) : more[p] = sub[p]
        /\ more[Len(sub) + 1] = m
    BY <1>4, <2>1, AppendProperties
  <2>3. DOMAIN more = 1..(Len(sub) + 1)
    BY <2>2, LenProperties
  <2> QED BY <1>7, <2>1, <2>2, <2>3
<1>9. \A i \in 1..n : recent[i] # m <=> i \in I
  BY <1>1, <1>2
<1>a. \A p \in 1..Len(sub) : p \in DOMAIN recent' /\ p < Len(sub) + 1
  BY <1>4, <1>8
<1>e. ASSUME NEW i \in I
      PROVE  \E p \in 1..Len(sub) : /\ pos[p] = i /\ recent'[p] = recent[i]
                                    /\ p \in DOMAIN recent' /\ p < Len(sub) + 1
  <2>1. PICK p \in 1..Len(sub) : pos[p] = i
    BY <1>6
  <2>2. recent'[p] = recent[i]
    BY <1>6, <1>8, <2>1
  <2> QED BY <1>a, <2>1, <2>2
<1>f. Range(recent)' = {recent'[p] : p \in 1..(Len(sub) + 1)} /\ Range(recent) = {recent[i] : i \in 1..n}
  BY <1>1, <1>8 DEF Range
<1>g. Len(sub) + 1 \in 1..(Len(sub) + 1) /\ 1..Len(sub) \in SUBSET (1..(Len(sub) + 1))
  BY <1>4
<1>b. Range(recent)' = Range(recent) \cup {m}
  <2>1. ASSUME NEW x \in Range(recent)' PROVE x \in Range(recent) \cup {m}
    <3>1. PICK p \in 1..(Len(sub) + 1) : x = recent'[p]
      BY <1>f
    <3>2. CASE p \in 1..Len(sub)
      <4>1. pos[p] \in 1..n /\ x = recent[pos[p]]
        BY <1>6, <1>8, <3>1, <3>2
      <4> QED BY <1>f, <4>1
    <3>3. CASE p = Len(sub) + 1
      BY <1>8, <3>1, <3>3
    <3>4. p \in 1..Len(sub) \/ p = Len(sub) + 1
      BY <1>4
    <3> QED BY <3>2, <3>3, <3>4
  <2>2. ASSUME NEW x \in Range(recent) \cup {m} PROVE x \in Range(recent)'
    <3>1. CASE x = m
      BY <1>8, <1>f, <1>g, <3>1
    <3>2. CASE x # m
      <4>1. PICK i \in 1..n : x = recent[i]
        BY <1>f, <3>2
      <4>2. PICK p \in 1..Len(sub) : recent'[p] = recent[i]
        BY <1>9, <1>e, <3>2, <4>1
      <4> QED BY <1>f, <1>g, <4>1, <4>2
    <3> QED BY <3>1, <3>2
  <2> QED BY <2>1, <2>2
<1>c. ASSUME NEW a \in Models \ {m}, NEW b \in Models \ {m}, UsedBefore(a, b)
      PROVE  UsedBefore(a, b)'
  <2>1. PICK i \in 1..n, k \in 1..n : i < k /\ recent[i] = a /\ recent[k] = b
    BY <1>1, <1>c DEF UsedBefore
  <2>2. i \in I /\ k \in I
    BY <1>9, <2>1
  <2>3. PICK p \in 1..Len(sub), q \in 1..Len(sub) :
          /\ pos[p] = i /\ recent'[p] = a /\ p \in DOMAIN recent'
          /\ pos[q] = k /\ recent'[q] = b /\ q \in DOMAIN recent'
    BY <1>e, <2>1, <2>2
  <2>4. p < q
    <3>1. ~(q < p) /\ p # q
      BY <1>6, <2>1, <2>3
    <3> QED BY <1>4, <3>1
  <2> QED BY <2>3, <2>4 DEF UsedBefore
<1>d. ASSUME NEW a \in Range(recent) \ {m} PROVE UsedBefore(a, m)'
  <2>1. PICK i \in 1..n : a = recent[i]
    BY <1>f
  <2>2. PICK p \in 1..Len(sub) : recent'[p] = a /\ p \in DOMAIN recent' /\ p < Len(sub) + 1
    BY <1>9, <1>e, <2>1
  <2>3. Len(sub) + 1 \in DOMAIN recent'
    BY <1>4, <1>8
  <2> QED BY <1>8, <2>2, <2>3 DEF UsedBefore
<1> QED BY <1>8, <1>b, <1>c, <1>d

(* The copies of the other models.                                         *)
LEMMA OthersHold ==
  ASSUME NEW list, Ordered(list), NEW m, NEW sub, sub = Others(list, m)
  PROVE  /\ Ordered(sub) /\ Range(sub) \in SUBSET Range(list)
         /\ \A i \in 1..Len(sub) : sub[i].name # m
         /\ \A c \in Range(list) : c.name # m => c \in Range(sub)
         /\ (\A i \in 1..Len(list) : list[i].name = m) => sub = <<>>
         /\ Len(list) = 1 => sub = <<>> \/ Len(sub) = 1
<1>1. DOMAIN list = 1..Len(list) /\ Range(list) = {list[i] : i \in 1..Len(list)}
  BY LenProperties DEF Ordered, Range
<1>2. PICK I \in SUBSET (1..Len(list)) : I = {i \in DOMAIN list : list[i].name # m}
  BY <1>1
<1>3. sub = ElementsAt(list, I)
  BY <1>2 DEF Others
<1>4. /\ Ordered(sub) /\ Range(sub) = {list[i] : i \in I} /\ Range(sub) \in SUBSET Range(list)
      /\ I = {} => sub = <<>>
      /\ Len(list) = 1 => sub = <<>> \/ Len(sub) = 1
  BY <1>3, OrderedSublist
<1>5. \A i \in 1..Len(sub) : sub[i] \in Range(sub)
  <2>1. DOMAIN sub = 1..Len(sub)
    BY <1>4, LenProperties DEF Ordered
  <2> QED BY <2>1 DEF Range
<1>6. \A i \in 1..Len(list) : i \in I <=> list[i].name # m
  BY <1>1, <1>2
<1>7. \A i \in 1..Len(sub) : sub[i].name # m
  BY <1>4, <1>5, <1>6
<1>8. (\A i \in 1..Len(list) : list[i].name = m) => I = {}
  BY <1>6
<1> QED BY <1>1, <1>4, <1>6, <1>7, <1>8

(* A copy becomes the last of the list when get() gives its model.         *)
LEMMA LastUsed ==
  ASSUME recent \in Seq(Models), NEW list, Ordered(list), NEW c \in LoadedModel, NEW m \in Models,
         c.name = m, \A i \in 1..Len(list) : list[i].name # m,
         recent' = Append(ElementsAt(recent, {i \in DOMAIN recent : recent[i] # m}), m),
         resident' = Append(list, c)
  PROVE  /\ recent' \in Seq(Models) /\ Ordered(resident)'
         /\ Range(resident)' = Range(list) \cup {c}
         /\ Len(resident') = Len(list) + 1 /\ resident'[Len(resident')] = c
<1>1. /\ recent' \in Seq(Models)
      /\ Range(recent)' = Range(recent) \cup {m}
      /\ \A a, b \in Models \ {m} : UsedBefore(a, b) => UsedBefore(a, b)'
      /\ \A a \in Range(recent) \ {m} : UsedBefore(a, m)'
  BY UseMoves
<1>2. PICK n \in Nat : n = Len(list) /\ DOMAIN list = 1..n /\ list \in Seq(LoadedModel)
  BY LenProperties DEF Ordered
<1>3. /\ resident' \in Seq(LoadedModel) /\ Len(resident') = n + 1 /\ DOMAIN resident' = 1..(n + 1)
      /\ \A i \in 1..n : resident'[i] = list[i]
      /\ resident'[n + 1] = c
  <2>1. PICK more : more = Append(list, c)
    OBVIOUS
  <2>2. /\ more \in Seq(LoadedModel) /\ Len(more) = n + 1
        /\ \A i \in 1..n : more[i] = list[i]
        /\ more[n + 1] = c
    BY <1>2, <2>1, AppendProperties
  <2>3. DOMAIN more = 1..(n + 1)
    BY <2>2, LenProperties
  <2> QED BY <2>1, <2>2, <2>3
<1>4. \A i \in 1..n : list[i] \in LoadedModel /\ list[i].name \in Models \ {m}
  <2>1. \A i \in 1..n : list[i] \in LoadedModel
    BY <1>2, ElementOfSeq
  <2>2. \A d \in LoadedModel : d.name \in Models
    BY DEF LoadedModel
  <2> QED BY <1>2, <2>1, <2>2
<1>5. /\ \A i \in 1..n : list[i].name \in Range(recent)
      /\ \A i, k \in 1..n : i < k => list[i].name # list[k].name /\ UsedBefore(list[i].name, list[k].name)
  BY <1>2 DEF Ordered
<1>6. \A i \in 1..(n + 1) : i \in 1..n \/ i = n + 1
  OBVIOUS
<1>7. \A i \in 1..(n + 1) : resident'[i].name \in Range(recent)'
  BY <1>1, <1>3, <1>5, <1>6
<1>8. ASSUME NEW i \in 1..(n + 1), NEW k \in 1..(n + 1), i < k
      PROVE  /\ resident'[i].name # resident'[k].name
             /\ UsedBefore(resident[i].name, resident[k].name)'
  <2>1. i \in 1..n
    BY <1>8
  <2>2. CASE k \in 1..n
    <3>1. resident'[i] = list[i] /\ resident'[k] = list[k]
      BY <1>3, <2>1, <2>2
    <3>2. PICK a, b : a = list[i].name /\ b = list[k].name
      OBVIOUS
    <3>3. a # b /\ UsedBefore(a, b)'
      BY <1>1, <1>4, <1>5, <1>8, <2>1, <2>2, <3>2
    <3> QED BY <3>1, <3>2, <3>3
  <2>3. CASE k = n + 1
    <3>1. resident'[i] = list[i] /\ resident'[k] = c
      BY <1>3, <2>1, <2>3
    <3>2. PICK a : a = list[i].name
      OBVIOUS
    <3>3. a # m /\ UsedBefore(a, m)'
      BY <1>1, <1>4, <1>5, <2>1, <3>2
    <3> QED BY <3>1, <3>2, <3>3
  <2> QED BY <1>6, <2>2, <2>3
<1>9. Ordered(resident)'
  BY <1>3, <1>7, <1>8 DEF Ordered
<1>10. Range(resident)' = Range(list) \cup {c}
  <2>1. Range(resident)' = {resident'[i] : i \in 1..(n + 1)} /\ Range(list) = {list[i] : i \in 1..n}
    BY <1>2, <1>3 DEF Range
  <2>2. n + 1 \in 1..(n + 1) /\ 1..n \in SUBSET (1..(n + 1))
    OBVIOUS
  <2>3. /\ resident'[n + 1] = c /\ \A i \in 1..n : resident'[i] = list[i]
        /\ \A i \in 1..(n + 1) : i \in 1..n \/ i = n + 1
    BY <1>3, <1>6
  <2>4. ASSUME NEW x \in Range(resident)' PROVE x \in Range(list) \cup {c}
    <3>1. PICK i \in 1..(n + 1) : x = resident'[i]
      BY <2>1, <2>4
    <3> QED BY <2>1, <2>3, <3>1
  <2>5. ASSUME NEW x \in Range(list) \cup {c} PROVE x \in Range(resident)'
    <3>1. CASE x = c
      BY <2>1, <2>2, <2>3, <3>1
    <3>2. CASE x \in Range(list)
      <4>1. PICK i \in 1..n : x = list[i]
        BY <2>1, <3>2
      <4>2. i \in 1..(n + 1) /\ x = resident'[i]
        BY <2>2, <2>3, <4>1
      <4> QED BY <2>1, <4>2
    <3> QED BY <2>5, <3>1, <3>2
  <2> QED BY <2>4, <2>5
<1> QED BY <1>1, <1>2, <1>3, <1>9, <1>10

(* The copies in memory are finitely many, and the sums over them numbers. *)
LEMMA ResidentHolds ==
  ASSUME NEW list, Ordered(list)
  PROVE  /\ Range(list) \in SUBSET LoadedModel /\ IsFiniteSet(Range(list))
         /\ Range(list) = {list[i] : i \in 1..Len(list)}
         /\ Len(list) \in Nat /\ DOMAIN list = 1..Len(list) /\ Range(<<>>) = {}
<1>1. PICK n \in Nat : n = Len(list) /\ DOMAIN list = 1..n /\ \A i \in 1..n : list[i] \in LoadedModel
  BY LenProperties, ElementOfSeq DEF Ordered
<1>2. Range(list) = {list[i] : i \in 1..n}
  BY <1>1 DEF Range
<1>3. IsFiniteSet({list[i] : i \in 1..n})
  <2>1. IsFiniteSet(1..n)
    BY FS_Interval
  <2>2. PICK f : f = [i \in 1..n |-> list[i]]
    OBVIOUS
  <2>3. f \in Surjection(1..n, {list[i] : i \in 1..n})
    BY <2>2 DEF Surjection
  <2> QED BY <2>1, <2>3, FS_Surjection
<1>4. Range(<<>>) = {}
  BY DEF Range
<1> QED BY <1>1, <1>2, <1>3, <1>4

(* get() found a copy that serves.                                         *)
LEMMA TouchKeeps ==
  ASSUME LoaderInv, NEW m \in Models, NEW q, Touch(m, q), Used(m)
  PROVE  /\ LoaderInv' /\ Range(resident)' = Range(resident)
         /\ Len(resident) = 1 => Len(resident') = 1
<1>1. recent \in Seq(Models) /\ Ordered(resident)
  BY DEF LoaderInv
<1>2. PICK set : set = Range(resident) /\ set \in SUBSET LoadedModel
  BY <1>1, ResidentHolds
<1>3. PICK c : c = Copy(m)
  OBVIOUS
<1>4. c \in set /\ c.name = m
  <2>1. \E d \in Range(resident) : d.name = m
    BY DEF Touch, Cached, Serves, Range
  <2> QED BY <1>2, <1>3, <2>1 DEF Copy
<1>5. PICK sub : sub = Others(resident, m)
  OBVIOUS
<1>6. /\ Ordered(sub) /\ Range(sub) \in SUBSET set
      /\ \A i \in 1..Len(sub) : sub[i].name # m
      /\ \A d \in set : d.name # m => d \in Range(sub)
      /\ (\A i \in 1..Len(resident) : resident[i].name = m) => sub = <<>>
  BY <1>1, <1>2, <1>5, OthersHold
<1>7. c \in LoadedModel /\ resident' = Append(sub, c)
  BY <1>2, <1>3, <1>4, <1>5 DEF Touch
<1>8. recent' = Append(ElementsAt(recent, {i \in DOMAIN recent : recent[i] # m}), m)
  BY DEF Used
<1>9. /\ recent' \in Seq(Models) /\ Ordered(resident)'
      /\ Range(resident)' = Range(sub) \cup {c}
      /\ Len(resident') = Len(sub) + 1
  BY <1>1, <1>4, <1>6, <1>7, <1>8, LastUsed, ZenonT(60)
<1>10. ASSUME NEW d \in set, d.name = m PROVE d = c
  <2>1. set = {resident[i] : i \in 1..Len(resident)} /\ Len(resident) \in Nat
    BY <1>1, <1>2, ResidentHolds
  <2>2. PICK i \in 1..Len(resident), k \in 1..Len(resident) : d = resident[i] /\ c = resident[k]
    BY <1>4, <2>1
  <2>3. ~(i < k) /\ ~(k < i)
    BY <1>1, <1>4, <1>10, <2>2 DEF Ordered
  <2>4. i = k
    BY <2>3
  <2> QED BY <2>2, <2>4
<1>11. Range(resident)' = set
  BY <1>4, <1>6, <1>9, <1>10
<1>12. ASSUME Len(resident) = 1 PROVE Len(resident') = 1
  <2>1. set = {resident[i] : i \in 1..1}
    BY <1>1, <1>2, <1>12, ResidentHolds
  <2>2. set = {resident[1]}
    BY <2>1
  <2>3. \A i \in 1..Len(resident) : resident[i].name = m
    BY <1>4, <1>12, <2>2
  <2>4. sub = <<>>
    BY <1>6, <2>3
  <2> QED BY <1>9, <2>4
<1> QED BY <1>2, <1>9, <1>11, <1>12 DEF LoaderInv

(* unload(), be it of a copy at another tier or of a victim.               *)
LEMMA UnloadKeeps ==
  ASSUME LoaderInv, NEW m, Unload(m), UNCHANGED recent
  PROVE  /\ LoaderInv' /\ Range(resident)' \in SUBSET Range(resident)
         /\ Names(resident) \ Names(resident') \in SUBSET {m}
         /\ m \notin Names(resident) => Range(resident)' = Range(resident)
         /\ Len(resident) = 1 => resident' = <<>> \/ Len(resident') = 1
<1>1. recent \in Seq(Models) /\ Ordered(resident)
  BY DEF LoaderInv
<1>2. PICK set : set = Range(resident)
  OBVIOUS
<1>3. PICK sub : sub = Others(resident, m)
  OBVIOUS
<1>4. /\ Ordered(sub) /\ Range(sub) \in SUBSET set
      /\ \A c \in set : c.name # m => c \in Range(sub)
      /\ Len(resident) = 1 => sub = <<>> \/ Len(sub) = 1
  BY <1>1, <1>2, <1>3, OthersHold
<1>5. resident' = sub
  BY <1>3 DEF Unload
<1>6. Ordered(resident)'
  BY <1>4, <1>5 DEF Ordered, UsedBefore
<1>7. Names(resident) \ Names(resident') \in SUBSET {m}
  BY <1>2, <1>4, <1>5 DEF Names
<1>8. m \notin Names(resident) => Range(sub) = set
  BY <1>2, <1>4 DEF Names
<1>9. Range(resident)' = Range(sub)
  BY <1>5
<1> QED BY <1>1, <1>2, <1>4, <1>5, <1>6, <1>7, <1>8, <1>9 DEF LoaderInv

(* The end of _load: the newcomer is the last. If there is room for it,    *)
(* the copies are within the budget, or it is alone.                       *)
LEMMA InstallKeeps ==
  ASSUME LoaderInv, NEW m \in Models, NEW q \in Quants, Install(m, q), Used(m)
  PROVE  /\ LoaderInv' /\ Names(resident') = Names(resident) \cup {m}
         /\ m \notin Names(resident) => Range(resident) \in SUBSET Range(resident)'
         /\ RoomFor(q) => ~OverBudget'
<1>1. recent \in Seq(Models) /\ Ordered(resident)
  BY DEF LoaderInv
<1>2. PICK sub : sub = Others(resident, m)
  OBVIOUS
<1>3. PICK set : set = Range(resident) /\ set \in SUBSET LoadedModel /\ IsFiniteSet(set)
  BY <1>1, ResidentHolds
<1>4. /\ Ordered(sub) /\ Range(sub) \in SUBSET set
      /\ \A i \in 1..Len(sub) : sub[i].name # m
      /\ \A c \in set : c.name # m => c \in Range(sub)
      /\ (\A i \in 1..Len(resident) : resident[i].name = m) => sub = <<>>
  BY <1>1, <1>2, <1>3, OthersHold
<1>5. PICK c : c = [name |-> m, quant |-> q]
  OBVIOUS
<1>6. c \in LoadedModel /\ c.name = m /\ c.quant = q /\ resident' = Append(sub, c)
  BY <1>2, <1>5 DEF Install, LoadedModel
<1>7. recent' = Append(ElementsAt(recent, {i \in DOMAIN recent : recent[i] # m}), m)
  BY DEF Used
<1>8. /\ recent' \in Seq(Models) /\ Ordered(resident)'
      /\ Range(resident)' = Range(sub) \cup {c}
      /\ Len(resident') = Len(sub) + 1
  BY <1>1, <1>4, <1>6, <1>7, LastUsed, ZenonT(60)
<1>9. Names(resident') = Names(resident) \cup {m}
  <2>1. Names(resident') = {d.name : d \in Range(sub) \cup {c}} /\ Names(resident) = {d.name : d \in set}
    BY <1>3, <1>8 DEF Names
  <2>2. \A d \in set : d.name # m => d \in Range(sub)
    BY <1>4
  <2>3. \A d \in Range(sub) : d \in set
    BY <1>4
  <2> QED BY <1>6, <2>1, <2>2, <2>3
<1>10. m \notin Names(resident) => set \in SUBSET Range(resident)'
  BY <1>3, <1>4, <1>8 DEF Names
<1>11. ASSUME RoomFor(q) PROVE ~OverBudget'
  <2>1. CASE resident = <<>>
    <3>1. sub = <<>>
      BY <1>4, <2>1
    <3>2. Len(resident') = 1
      BY <1>8, <3>1
    <3> QED BY <3>2 DEF OverBudget
  <2>2. CASE Fits(set, q)
    <3>1. PICK s : s = Range(sub) /\ s \in SUBSET LoadedModel /\ IsFiniteSet(s)
      BY <1>4, ResidentHolds
    <3>2. VramUsed(s) \in Nat /\ VramUsed(s \cup {c}) <= VramUsed(s) + Vram[q]
      <4>1. VramUsed(s) \in Nat /\ VramUsed(s \cup {c}) <= VramUsed(s) + Vram[c.quant]
        BY <1>6, <3>1, VramHolds
      <4> QED BY <1>6, <4>1
    <3>3. VramUsed(set) \in Nat /\ VramUsed(s) <= VramUsed(set)
      BY <1>3, <1>4, <3>1, VramHolds
    <3>4. VramUsed(set) + Vram[q] <= Budget
      BY <2>2 DEF Fits
    <3>5. VramUsed(s \cup {c}) \in Nat
      <4>1. IsFiniteSet(s \cup {c}) /\ s \cup {c} \in SUBSET LoadedModel
        BY <1>6, <3>1, FS_AddElement
      <4> QED BY <4>1, VramHolds
    <3>6. Vram[q] \in Nat
      BY VramAssumption
    <3>7. ~(VramUsed(s \cup {c}) > Budget)
      BY <3>2, <3>3, <3>4, <3>5, <3>6, BudgetAssumption
    <3>8. Range(resident)' = s \cup {c}
      BY <1>8, <3>1
    <3> QED BY <3>7, <3>8 DEF OverBudget, VramUsed
  <2> QED BY <1>3, <1>11, <2>1, <2>2 DEF RoomFor
<1> QED BY <1>3, <1>8, <1>9, <1>10, <1>11 DEF LoaderInv

(* Without an insertion the budget is not exceeded anew.                   *)
LEMMA LessFits ==
  ASSUME LoaderInv, LoaderInv', Range(resident)' \in SUBSET Range(resident),
         Len(resident) = 1 => resident' = <<>> \/ Len(resident') = 1
  PROVE  /\ OverBudget' => OverBudget
         /\ \A q \in Quants : RoomFor(q) => RoomFor(q)'
<1>1. Ordered(resident) /\ Ordered(resident)'
  BY DEF LoaderInv
<1>2. PICK set : set = Range(resident) /\ set \in SUBSET LoadedModel /\ IsFiniteSet(set)
  BY <1>1, ResidentHolds
<1>3. PICK now : now = Range(resident)' /\ now \in SUBSET set
  BY <1>2
<1>4. VramUsed(now) \in Nat /\ VramUsed(set) \in Nat /\ VramUsed(now) <= VramUsed(set) /\ VramUsed({}) = 0
  BY <1>2, <1>3, VramHolds
<1>5. VramUsed(Range(resident))' = VramUsed(now) /\ VramUsed(Range(resident)) = VramUsed(set)
  BY <1>2, <1>3 DEF VramUsed
<1>6. Len(resident) \in Nat /\ Len(<<>>) = 0 /\ (Len(resident) = 0 => resident = <<>>)
  BY <1>1, EmptySeq, ResidentHolds DEF Ordered
<1>7. resident = <<>> => set = {} /\ now = {}
  BY <1>1, <1>2, <1>3, ResidentHolds
<1>8. ASSUME OverBudget' PROVE OverBudget
  <2>1. VramUsed(now) > Budget /\ Len(resident') > 1
    BY <1>5, <1>8 DEF OverBudget
  <2>2. VramUsed(set) > Budget
    BY <1>4, <2>1, BudgetAssumption
  <2>3. Len(resident) # 0
    <3>1. SUFFICES ASSUME Len(resident) = 0 PROVE FALSE
      OBVIOUS
    <3>2. set = {}
      BY <1>6, <1>7, <3>1
    <3>3. VramUsed(set) = 0
      BY <1>4, <3>2
    <3> QED BY <2>2, <3>3, BudgetAssumption
  <2>4. PICK n \in Nat, k \in Nat : n = Len(resident) /\ k = Len(resident')
    BY <1>1, LenProperties DEF Ordered
  <2>5. resident' = <<>> => k = 0
    BY <1>6, <2>4
  <2>6. n # 0 /\ k > 1 /\ (n = 1 => k = 0 \/ k = 1)
    BY <2>1, <2>3, <2>4, <2>5
  <2>7. n > 1
    BY <2>6
  <2> QED BY <1>5, <2>2, <2>4, <2>7 DEF OverBudget
<1>9. ASSUME NEW q \in Quants, RoomFor(q) PROVE RoomFor(q)'
  <2>1. CASE resident = <<>>
    <3>1. \A i \in 1..Len(resident') : resident'[i] \in now
      <4>1. DOMAIN resident' = 1..Len(resident')
        BY <1>1, LenProperties DEF Ordered
      <4> QED BY <1>3, <4>1 DEF Range
    <3>2. Len(resident') \in Nat /\ resident' \in Seq(LoadedModel)
      BY <1>1, LenProperties DEF Ordered
    <3>3. Len(resident') = 0
      <4>1. 1 \notin 1..Len(resident')
        BY <1>7, <2>1, <3>1
      <4> QED BY <3>2, <4>1
    <3>4. resident' = <<>>
      BY <3>2, <3>3, EmptySeq
    <3> QED BY <3>4 DEF RoomFor
  <2>2. CASE Fits(set, q)
    <3>1. VramUsed(set) + Vram[q] <= Budget /\ Vram[q] \in Nat
      BY <2>2, VramAssumption DEF Fits
    <3>2. VramUsed(now) + Vram[q] <= Budget
      BY <1>4, <3>1, BudgetAssumption
    <3>3. Fits(Range(resident), q)'
      BY <1>5, <3>2 DEF Fits
    <3> QED BY <3>3 DEF RoomFor
  <2> QED BY <1>2, <1>9, <2>1, <2>2 DEF RoomFor
<1> QED BY <1>8, <1>9

(* More copies do not make room.                                           *)
LEMMA MoreFillsUp ==
  ASSUME LoaderInv, LoaderInv', Range(resident) \in SUBSET Range(resident)',
         NEW q \in Quants, ~Fits(Range(resident), q)
  PROVE  ~Fits(Range(resident), q)'
<1>1. Ordered(resident) /\ Ordered(resident)'
  BY DEF LoaderInv
<1>2. PICK now : now = Range(resident)'
  OBVIOUS
<1>3. now \in SUBSET LoadedModel /\ IsFiniteSet(now)
  <2>1. /\ resident' \in Seq(LoadedModel) /\ Range(resident') = now
        /\ \A i \in 1..Len(resident') : resident'[i] \in LoadedModel
        /\ DOMAIN resident' = 1..Len(resident') /\ Len(resident') \in Nat
    BY <1>1, <1>2, LenProperties, ElementOfSeq DEF Ordered
  <2>2. now = {resident'[i] : i \in 1..Len(resident')}
    BY <2>1 DEF Range
  <2>3. PICK f : f = [i \in 1..Len(resident') |-> resident'[i]]
    OBVIOUS
  <2>4. f \in Surjection(1..Len(resident'), now)
    BY <2>2, <2>3 DEF Surjection
  <2>5. IsFiniteSet(1..Len(resident'))
    BY <2>1, FS_Interval
  <2>6. IsFiniteSet(now)
    BY <2>4, <2>5, FS_Surjection
  <2> QED BY <2>1, <2>2, <2>6
<1>4. PICK set : set = Range(resident) /\ set \in SUBSET now
  BY <1>2
<1>5. VramUsed(now) \in Nat /\ VramUsed(set) \in Nat /\ VramUsed(set) <= VramUsed(now)
  BY <1>3, <1>4, VramHolds
<1>6. ~(VramUsed(set) + Vram[q] <= Budget) /\ Vram[q] \in Nat
  BY <1>4, VramAssumption DEF Fits
<1>7. ~(VramUsed(now) + Vram[q] <= Budget)
  BY <1>5, <1>6, BudgetAssumption
<1> QED BY <1>2, <1>7 DEF Fits, VramUsed

(* What thread u has seen, while another thread does something.            *)
Alone(t) ==
  \A u \in Threads \ {t} :
    at'[u] = at[u] /\ ladder'[u] = ladder[u] /\ victim'[u] = victim[u]

LEMMA OnlyOneMoves ==
  ASSUME RInv, SInv, NEW t \in Threads, (\E r \in Requests : RunInference(t, r)) \/ Proceed(t)
  PROVE  /\ Alone(t)
         /\ victim' \in [Threads -> Models \cup {NoVictim}]
<1>1. /\ ladder \in [Threads -> {Idle} \cup LadderRecord] /\ at \in [Threads -> CallPlaces]
      /\ victim \in [Threads -> Models \cup {NoVictim}]
  BY DEF RInv, SInv
<1>2. \E place : Goto(t, place)
  BY DEF Proceed, RunInference, GetHit, GetMiss, DropStale, LookAtBudget, ChooseVictim,
         Evict, Insert, Collides, RunsOut, Raises, UseOk, Return
<1>3. \A u \in Threads \ {t} : at'[u] = at[u]
  BY <1>1, <1>2 DEF Goto
<1>4. UNCHANGED ladder \/ \E next : Step(t, next)
  BY DEF Proceed, RunInference, GetHit, GetMiss, DropStale, LookAtBudget, ChooseVictim,
         Evict, Insert, Collides, RunsOut, Raises, UseOk, Return
<1>5. \A u \in Threads \ {t} : ladder'[u] = ladder[u]
  BY <1>1, <1>4 DEF Step
<1>6. \/ UNCHANGED victim
      \/ victim' = [victim EXCEPT ![t] = NoVictim]
      \/ victim' = [victim EXCEPT ![t] = Oldest] /\ Oldest \in Models
  <2>1. ASSUME ChooseVictim(t) PROVE Oldest \in Models
    <3>1. resident \in Seq(LoadedModel) /\ resident # <<>>
      BY <2>1 DEF ChooseVictim, SInv, LoaderInv, Ordered
    <3>2. Head(resident) \in LoadedModel
      BY <3>1
    <3> QED BY <3>2 DEF Oldest, LoadedModel
  <2> QED
    BY <2>1
    DEF Proceed, RunInference, GetHit, GetMiss, DropStale, LookAtBudget, ChooseVictim,
        Evict, Insert, Inserted, Collides, RunsOut, Raises, UseOk, Return
<1>7. /\ \A u \in Threads \ {t} : victim'[u] = victim[u]
      /\ victim' \in [Threads -> Models \cup {NoVictim}]
  BY <1>1, <1>6
<1> QED BY <1>3, <1>5, <1>7 DEF Alone

LEMMA DeedsSeen ==
  ASSUME NEW t \in Threads, NEW m, NEW deeds, Overtakes(t, m, deeds),
         NEW u \in Threads \ {t}, HasLooked(u)
  PROVE  \A d : d \in overtaken'[u] <=>
                  d \in overtaken[u] \/ (d \in deeds /\ (d = "touched" => victim[u] = m))
BY DEF Overtakes

(* What u has seen holds still, if what it has not been told of is so.     *)
LEMMA ViewKept ==
  ASSUME RInv, LoaderInv, LoaderInv', NEW u \in Threads, SeenInv(u),
         at'[u] = at[u], ladder'[u] = ladder[u], victim'[u] = victim[u],
         HasLooked(u) =>
           /\ \A d \in overtaken[u] : d \in overtaken'[u]
           /\ "filled" \notin overtaken'[u] => \A q \in Quants : RoomFor(q) => RoomFor(q)'
           /\ "freed" \notin overtaken'[u] => Range(resident) \in SUBSET Range(resident)'
           /\ Range(recent) \in SUBSET Range(recent)'
           /\ "touched" \notin overtaken'[u] =>
                \A n \in Names(resident') \ {victim[u]} :
                  \/ n \in Names(resident) /\ (UsedBefore(victim[u], n) => UsedBefore(victim[u], n)')
                  \/ victim[u] \in Range(recent) => UsedBefore(victim[u], n)'
  PROVE  SeenInv(u)'
<1>1. CASE ~HasLooked(u)
  BY <1>1 DEF HasLooked, SeenInv, SeenRoom, SeenNoRoom, SeenOldest
<1>2. CASE HasLooked(u)
  <2>1. Tier(u) \in Quants /\ Tier(u)' = Tier(u)
    <3>1. ladder[u] \in LadderRecord
      BY <1>2, RunningIsRecord DEF RInv, ThreadInv, HasLooked
    <3> QED BY <3>1 DEF Tier, LadderRecord
  <2>2. PICK q \in Quants : q = Tier(u) /\ q = Tier(u)'
    BY <2>1
  <2>3. SeenRoom(u)'
    <3>1. SUFFICES ASSUME at[u] = "insert", "filled" \notin overtaken'[u] PROVE RoomFor(Tier(u))'
      BY DEF SeenRoom
    <3>2. RoomFor(q)
      BY <1>2, <2>2, <3>1 DEF SeenInv, SeenRoom
    <3>3. RoomFor(q)'
      BY <1>2, <3>1, <3>2
    <3> QED BY <2>2, <3>3 DEF RoomFor, Fits
  <2>4. SeenNoRoom(u)'
    <3>1. SUFFICES ASSUME at[u] \in {"choose", "unload"}, "freed" \notin overtaken'[u]
                   PROVE  ~Fits(Range(resident), Tier(u))'
      BY DEF SeenNoRoom
    <3>2. ~Fits(Range(resident), q)
      BY <1>2, <2>2, <3>1 DEF SeenInv, SeenNoRoom
    <3>3. ~Fits(Range(resident), q)'
      BY <1>2, <3>1, <3>2, MoreFillsUp
    <3> QED BY <2>2, <3>3 DEF Fits
  <2>5. SeenOldest(u)'
    <3>1. SUFFICES ASSUME at[u] = "unload"
                   PROVE  /\ victim[u] \in Range(recent)'
                          /\ "touched" \notin overtaken'[u] =>
                               \A n \in Names(resident') \ {victim[u]} : UsedBefore(victim[u], n)'
      BY DEF SeenOldest, UsedBefore
    <3>2. /\ victim[u] \in Range(recent)
          /\ "touched" \notin overtaken[u] =>
               \A n \in Names(resident) \ {victim[u]} : UsedBefore(victim[u], n)
      BY <3>1 DEF SeenInv, SeenOldest
    <3> QED BY <1>2, <3>2
  <2> QED BY <2>3, <2>4, <2>5 DEF SeenInv
<1> QED BY <1>1, <1>2

(* What a step does to the loader, in each of the four ways there are.     *)
LEMMA NothingSeen ==
  ASSUME RInv, SInv, NEW t \in Threads, Alone(t), UNCHANGED <<resident, recent>>,
         \A u \in Threads \ {t} : HasLooked(u) => overtaken'[u] = overtaken[u]
  PROVE  /\ LoaderInv' /\ \A u \in Threads \ {t} : SeenInv(u)'
         /\ OverBudget' => OverBudget
         /\ Names(resident) \ Names(resident') = {}
<1>1. LoaderInv /\ LoaderInv'
  BY DEF SInv, LoaderInv, Ordered, UsedBefore
<1>2. ASSUME NEW u \in Threads \ {t} PROVE SeenInv(u)'
  <2>1. SeenInv(u)
    BY DEF SInv
  <2>2. at'[u] = at[u] /\ ladder'[u] = ladder[u] /\ victim'[u] = victim[u]
    BY DEF Alone
  <2>3. \A q \in Quants : RoomFor(q) => RoomFor(q)'
    BY DEF RoomFor, Fits
  <2>4. ASSUME NEW n \in Names(resident')
        PROVE  n \in Names(resident) /\ (UsedBefore(victim[u], n) => UsedBefore(victim[u], n)')
    BY <2>2 DEF UsedBefore
  <2> QED BY <1>1, <2>1, <2>2, <2>3, <2>4, ViewKept
<1> QED BY <1>1, <1>2 DEF OverBudget

LEMMA TouchSeen ==
  ASSUME RInv, SInv, NEW t \in Threads, Alone(t), NEW m \in Models, NEW q, Touch(m, q), Used(m),
         Overtakes(t, m, {"touched"})
  PROVE  /\ LoaderInv' /\ \A u \in Threads \ {t} : SeenInv(u)'
         /\ OverBudget' => OverBudget
         /\ Names(resident) \ Names(resident') = {}
<1>1. /\ LoaderInv /\ LoaderInv' /\ Range(resident)' = Range(resident)
      /\ Len(resident) = 1 => Len(resident') = 1
  BY TouchKeeps DEF SInv
<1>2. /\ OverBudget' => OverBudget
      /\ \A r \in Quants : RoomFor(r) => RoomFor(r)'
  BY <1>1, LessFits
<1>3. Names(resident') = Names(resident) /\ Names(resident) \in SUBSET Models
  <2>1. Range(resident) \in SUBSET LoadedModel
    BY <1>1, ResidentHolds DEF LoaderInv
  <2> QED BY <1>1, <2>1 DEF Names, LoadedModel
<1>4. /\ Range(recent)' = Range(recent) \cup {m}
      /\ \A a, b \in Models \ {m} : UsedBefore(a, b) => UsedBefore(a, b)'
      /\ \A a \in Range(recent) \ {m} : UsedBefore(a, m)'
  <2>1. recent \in Seq(Models) /\ recent' = Append(ElementsAt(recent, {i \in DOMAIN recent : recent[i] # m}), m)
    BY DEF SInv, LoaderInv, Used
  <2> QED BY <2>1, UseMoves
<1>5. ASSUME NEW u \in Threads \ {t} PROVE SeenInv(u)'
  <2>1. SeenInv(u)
    BY DEF SInv
  <2>2. at'[u] = at[u] /\ ladder'[u] = ladder[u] /\ victim'[u] = victim[u]
    BY DEF Alone
  <2>3. ASSUME HasLooked(u)
        PROVE  \A d : d \in overtaken'[u] <=>
                 d \in overtaken[u] \/ (d = "touched" /\ victim[u] = m)
    BY <2>3, DeedsSeen
  <2>4. ASSUME HasLooked(u), "touched" \notin overtaken'[u], NEW n \in Names(resident') \ {victim[u]}
        PROVE  \/ n \in Names(resident) /\ (UsedBefore(victim[u], n) => UsedBefore(victim[u], n)')
               \/ victim[u] \in Range(recent) => UsedBefore(victim[u], n)'
    <3>0. PICK v : v = victim[u] /\ v = victim'[u]
      BY <2>2
    <3>1. v # m /\ n \in Names(resident) /\ n \in Models
      BY <1>3, <2>3, <2>4, <3>0
    <3>2. ASSUME n = m, v \in Range(recent) PROVE UsedBefore(v, n)'
      BY <1>4, <3>1, <3>2
    <3>3. ASSUME n # m, v \in Models, UsedBefore(v, n) PROVE UsedBefore(v, n)'
      BY <1>4, <3>1, <3>3
    <3>4. ASSUME v \notin Models PROVE v \notin Range(recent)
      <4>1. Range(recent) \in SUBSET Models
        BY ElementOfSeq, LenProperties DEF SInv, LoaderInv, Range
      <4> QED BY <3>4, <4>1
    <3> QED BY <3>0, <3>1, <3>2, <3>3, <3>4
  <2> QED BY <1>1, <1>2, <1>4, <2>1, <2>2, <2>3, <2>4, ViewKept
<1> QED BY <1>1, <1>2, <1>3, <1>5

LEMMA UnloadSeen ==
  ASSUME RInv, SInv, NEW t \in Threads, Alone(t), NEW m, Unload(m), UNCHANGED recent,
         Overtakes(t, m, Freed(m))
  PROVE  /\ LoaderInv' /\ \A u \in Threads \ {t} : SeenInv(u)'
         /\ OverBudget' => OverBudget
         /\ Names(resident) \ Names(resident') \in SUBSET {m}
<1>1. /\ LoaderInv /\ LoaderInv' /\ Range(resident)' \in SUBSET Range(resident)
      /\ Names(resident) \ Names(resident') \in SUBSET {m}
      /\ m \notin Names(resident) => Range(resident)' = Range(resident)
      /\ Len(resident) = 1 => resident' = <<>> \/ Len(resident') = 1
  BY UnloadKeeps DEF SInv
<1>2. /\ OverBudget' => OverBudget
      /\ \A r \in Quants : RoomFor(r) => RoomFor(r)'
  BY <1>1, LessFits
<1>3. Names(resident') \in SUBSET Names(resident)
  BY <1>1 DEF Names
<1>5. ASSUME NEW u \in Threads \ {t} PROVE SeenInv(u)'
  <2>1. SeenInv(u)
    BY DEF SInv
  <2>2. at'[u] = at[u] /\ ladder'[u] = ladder[u] /\ victim'[u] = victim[u]
    BY DEF Alone
  <2>3. ASSUME HasLooked(u)
        PROVE  /\ \A d \in overtaken[u] : d \in overtaken'[u]
               /\ m \in Names(resident) => "freed" \in overtaken'[u]
    <3>1. PICK deeds : deeds = Freed(m) /\ Overtakes(t, m, deeds)
      OBVIOUS
    <3>2. m \in Names(resident) => "freed" \in deeds
      BY <3>1 DEF Freed
    <3> QED BY <2>3, <3>1, <3>2, DeedsSeen
  <2>4. ASSUME NEW n \in Names(resident')
        PROVE  n \in Names(resident) /\ (UsedBefore(victim[u], n) => UsedBefore(victim[u], n)')
    BY <1>3, <2>2 DEF UsedBefore
  <2> QED BY <1>1, <1>2, <2>1, <2>2, <2>3, <2>4, ViewKept
<1> QED BY <1>1, <1>2, <1>5

LEMMA InsertSeen ==
  ASSUME RInv, SInv, NEW t \in Threads, Alone(t), Inserted(t)
  PROVE  /\ LoaderInv' /\ \A u \in Threads \ {t} : SeenInv(u)'
         /\ "filled" \notin overtaken[t] => ~OverBudget'
         /\ Names(resident) \ Names(resident') = {}
<1>1. Entry(t) \in Models /\ Tier(t) \in Quants
  <2>1. ladder[t] \in LadderRecord
    BY RunningIsRecord DEF RInv, ThreadInv, Inserted
  <2> QED BY <2>1, RegistryAssumption DEF Entry, Tier, LadderRecord, RegistryServes, Request
<1>2. PICK m \in Models, q \in Quants : m = Entry(t) /\ q = Tier(t)
  BY <1>1
<1>3. /\ Install(m, q) /\ Used(m)
      /\ Overtakes(t, m, {"touched", "filled"} \cup Freed(m))
  BY <1>2 DEF Inserted
<1>4. /\ LoaderInv /\ LoaderInv' /\ Names(resident') = Names(resident) \cup {m}
      /\ m \notin Names(resident) => Range(resident) \in SUBSET Range(resident)'
      /\ RoomFor(q) => ~OverBudget'
  BY <1>3, InstallKeeps DEF SInv
<1>5. "filled" \notin overtaken[t] => RoomFor(q)
  <2>1. at[t] = "insert" /\ SeenRoom(t)
    BY DEF Inserted, SInv, SeenInv
  <2> QED BY <1>2, <2>1 DEF SeenRoom
<1>6. /\ Range(recent)' = Range(recent) \cup {m}
      /\ \A a, b \in Models \ {m} : UsedBefore(a, b) => UsedBefore(a, b)'
      /\ \A a \in Range(recent) \ {m} : UsedBefore(a, m)'
      /\ Range(recent) \in SUBSET Models
  <2>1. recent \in Seq(Models) /\ recent' = Append(ElementsAt(recent, {i \in DOMAIN recent : recent[i] # m}), m)
    BY <1>3 DEF SInv, LoaderInv, Used
  <2>2. Range(recent) \in SUBSET Models
    BY <2>1, ElementOfSeq, LenProperties DEF Range
  <2> QED BY <2>1, <2>2, UseMoves
<1>7. Names(resident) \in SUBSET Models
  <2>1. Range(resident) \in SUBSET LoadedModel
    BY <1>4, ResidentHolds DEF LoaderInv
  <2> QED BY <2>1 DEF Names, LoadedModel
<1>8. ASSUME NEW u \in Threads \ {t} PROVE SeenInv(u)'
  <2>1. SeenInv(u)
    BY DEF SInv
  <2>2. at'[u] = at[u] /\ ladder'[u] = ladder[u] /\ victim'[u] = victim[u]
    BY DEF Alone
  <2>3. ASSUME HasLooked(u)
        PROVE  /\ \A d \in overtaken[u] : d \in overtaken'[u]
               /\ "filled" \in overtaken'[u]
               /\ victim[u] = m => "touched" \in overtaken'[u]
               /\ m \in Names(resident) => "freed" \in overtaken'[u]
    <3>1. PICK deeds : deeds = {"touched", "filled"} \cup Freed(m) /\ Overtakes(t, m, deeds)
      BY <1>3
    <3>2. "touched" \in deeds /\ "filled" \in deeds /\ (m \in Names(resident) => "freed" \in deeds)
      BY <3>1 DEF Freed
    <3> QED BY <2>3, <3>1, <3>2, DeedsSeen
  <2>4. ASSUME HasLooked(u), "touched" \notin overtaken'[u], NEW n \in Names(resident') \ {victim[u]}
        PROVE  \/ n \in Names(resident) /\ (UsedBefore(victim[u], n) => UsedBefore(victim[u], n)')
               \/ victim[u] \in Range(recent) => UsedBefore(victim[u], n)'
    <3>0. PICK v : v = victim[u] /\ v = victim'[u]
      BY <2>2
    <3>1. v # m
      BY <2>3, <2>4, <3>0
    <3>2. ASSUME n = m, v \in Range(recent) PROVE UsedBefore(v, n)'
      BY <1>6, <3>1, <3>2
    <3>3. ASSUME n # m PROVE n \in Names(resident) /\ n \in Models
      BY <1>4, <1>7, <2>4, <3>3
    <3>4. ASSUME n # m, v \in Models, UsedBefore(v, n) PROVE UsedBefore(v, n)'
      BY <1>6, <3>1, <3>3, <3>4
    <3>5. v \notin Models => v \notin Range(recent)
      BY <1>6
    <3> QED BY <3>0, <3>2, <3>3, <3>4, <3>5
  <2> QED BY <1>4, <1>6, <2>1, <2>2, <2>3, <2>4, ViewKept
<1>9. Names(resident) \ Names(resident') = {}
  BY <1>4
<1> QED BY <1>4, <1>5, <1>8, <1>9

(* What the thread that moves has seen itself, when it has moved.          *)
LEMMA MoverSees ==
  ASSUME RInv, SInv, NEW t \in Threads, (\E r \in Requests : RunInference(t, r)) \/ Proceed(t)
  PROVE  SeenInv(t)'
<1>1. at \in [Threads -> CallPlaces] /\ ThreadInv(t) /\ SeenInv(t) /\ LoaderInv
      /\ victim \in [Threads -> Models \cup {NoVictim}]
  BY DEF RInv, SInv
<1>2. CASE LookAtBudget(t)
  <2>1. UNCHANGED <<ladder, resident, recent, overtaken>>
        /\ at'[t] = IF RoomFor(Tier(t)) THEN "insert" ELSE "choose"
    BY <1>1, <1>2 DEF LookAtBudget, Goto
  <2>2. CASE RoomFor(Tier(t))
    <3>1. RoomFor(Tier(t))'
      BY <2>1, <2>2 DEF RoomFor, Fits, Tier
    <3> QED BY <2>1, <2>2, <3>1 DEF SeenInv, SeenRoom, SeenNoRoom, SeenOldest
  <2>3. CASE ~RoomFor(Tier(t))
    <3>1. ~Fits(Range(resident), Tier(t))'
      BY <2>1, <2>3 DEF RoomFor, Fits, Tier
    <3> QED BY <2>1, <2>3, <3>1 DEF SeenInv, SeenRoom, SeenNoRoom, SeenOldest
  <2> QED BY <2>2, <2>3
<1>3. CASE ChooseVictim(t)
  <2>1. /\ UNCHANGED <<ladder, resident, recent, overtaken>> /\ at[t] = "choose" /\ at'[t] = "unload"
        /\ victim'[t] = Oldest /\ resident # <<>>
    BY <1>1, <1>3 DEF ChooseVictim, Goto
  <2>2. /\ "freed" \notin overtaken[t] => ~Fits(Range(resident), Tier(t))
    BY <1>1, <2>1 DEF SeenInv, SeenNoRoom
  <2>3. SeenNoRoom(t)'
    BY <2>1, <2>2 DEF SeenNoRoom, Fits, Tier
  <2>4. /\ resident \in Seq(LoadedModel) /\ Len(resident) \in Nat /\ Ordered(resident)
        /\ Range(resident) = {resident[i] : i \in 1..Len(resident)}
    BY <1>1, ResidentHolds DEF LoaderInv, Ordered
  <2>5. Len(resident) # 0
    BY <2>1, <2>4, EmptySeq
  <2>6. 1 \in 1..Len(resident) /\ Oldest = resident[1].name
    BY <2>4, <2>5 DEF Oldest
  <2>7. Oldest \in Range(recent)
    BY <2>4, <2>6 DEF Ordered
  <2>8. ASSUME NEW n \in Names(resident) \ {Oldest} PROVE UsedBefore(Oldest, n)
    <3>1. PICK i \in 1..Len(resident) : n = resident[i].name
      BY <2>4 DEF Names
    <3>2. 1 < i
      BY <2>6, <3>1
    <3> QED BY <2>4, <2>6, <3>1, <3>2 DEF Ordered
  <2>9. SeenOldest(t)'
    <3>0. PICK v : v = Oldest /\ v = victim'[t]
      BY <2>1
    <3>1. ASSUME NEW n \in Names(resident) \ {v} PROVE UsedBefore(v, n)'
      <4>1. UsedBefore(v, n)
        BY <2>8, <3>0
      <4> QED BY <2>1, <4>1 DEF UsedBefore
    <3>2. Names(resident') = Names(resident) /\ Range(recent') = Range(recent)
      BY <2>1
    <3>3. \A n \in Names(resident') \ {v} : UsedBefore(v, n)'
      BY <3>1, <3>2
    <3>4. v \in Range(recent')
      BY <2>7, <3>0, <3>2
    <3>5. \A n \in Names(resident') \ {victim'[t]} : UsedBefore(victim[t], n)'
      BY <3>0, <3>3 DEF UsedBefore
    <3> QED BY <3>0, <3>4, <3>5 DEF SeenOldest
  <2> QED BY <2>1, <2>3, <2>9 DEF SeenInv, SeenRoom
<1>4. CASE ~LookAtBudget(t) /\ ~ChooseVictim(t)
  <2>1. \E place \in {"idle", "loop", "stale", "load", "evict", "use"} : Goto(t, place)
    BY <1>4
    DEF Proceed, RunInference, GetHit, GetMiss, DropStale, Evict, Insert, Collides, RunsOut,
        Raises, UseOk, Return
  <2>2. at'[t] \in {"idle", "loop", "stale", "load", "evict", "use"}
    BY <1>1, <2>1 DEF Goto
  <2> QED BY <2>2 DEF SeenInv, SeenRoom, SeenNoRoom, SeenOldest
<1> QED BY <1>2, <1>3, <1>4

RightlyGone(m) ==
  \E t \in Threads :
    /\ at'[t] # at[t]
    /\ \/ at[t] = "stale" /\ Entry(t) = m
       \/ at[t] = "unload" /\ victim[t] = m /\ EvictsRightly(t)

InsertionsFit ==
  /\ \A t \in Threads : Inserts(t) /\ "filled" \notin overtaken[t] => ~OverBudget'
  /\ OverBudget' /\ ~OverBudget => \E t \in Threads : Inserts(t)

(* The loader in each step of the threads that share it.                   *)
LEMMA LoaderStep ==
  ASSUME RInv, SInv, [Next]_vars
  PROVE  /\ SInv'
         /\ InsertionsFit
         /\ \A m \in Names(resident) \ Names(resident') : RightlyGone(m)
<1>1. CASE UNCHANGED vars
  <2>1. SInv'
    BY <1>1
    DEF vars, SInv, LoaderInv, Ordered, UsedBefore, SeenInv, SeenRoom, SeenNoRoom, SeenOldest,
        RoomFor, Fits, Tier
  <2> QED BY <1>1, <2>1 DEF vars, InsertionsFit, Inserts, OverBudget
<1>2. ASSUME NEW t \in Threads, (\E r \in Requests : RunInference(t, r)) \/ Proceed(t)
      PROVE  /\ SInv'
             /\ InsertionsFit
             /\ \A m \in Names(resident) \ Names(resident') : RightlyGone(m)
  <2>1. /\ Alone(t) /\ victim' \in [Threads -> Models \cup {NoVictim}] /\ SeenInv(t)'
    BY <1>2, OnlyOneMoves, MoverSees
  <2>2. at \in [Threads -> CallPlaces] /\ LoaderInv /\ ThreadInv(t) /\ SeenInv(t)
    BY DEF RInv, SInv
  <2>3. ASSUME LoaderInv', \A u \in Threads \ {t} : SeenInv(u)' PROVE SInv'
    <3>1. \A u \in Threads : SeenInv(u)'
      BY <2>1, <2>3
    <3> QED BY <2>1, <2>3, <3>1 DEF SInv
  <2>4. ASSUME OverBudget' => OverBudget, at[t] # "insert" PROVE InsertionsFit
    <3>1. \A u \in Threads : ~Inserts(u)
      BY <2>1, <2>4 DEF Alone, Inserts
    <3> QED BY <2>4, <3>1 DEF InsertionsFit
  <2>5. CASE GetHit(t)
    <3>1. PICK m, q : m = Entry(t) /\ q = Tier(t)
      OBVIOUS
    <3>2. m \in Models
      <4>1. ladder[t] \in LadderRecord
        BY <2>2, <2>5, RunningIsRecord DEF ThreadInv, GetHit, Turning
      <4> QED BY <3>1, <4>1 DEF Entry, LadderRecord, Request
    <3>3. Touch(m, q) /\ Used(m) /\ Overtakes(t, m, {"touched"}) /\ at[t] # "insert"
      BY <2>5, <3>1 DEF GetHit, Turning
    <3> QED BY <2>1, <2>3, <2>4, <3>2, <3>3, TouchSeen
  <2>6. CASE DropStale(t) \/ Evict(t)
    <3>1. PICK m : m = IF at[t] = "stale" THEN Entry(t) ELSE victim[t]
      OBVIOUS
    <3>2. /\ Unload(m) /\ UNCHANGED recent /\ Overtakes(t, m, Freed(m)) /\ at[t] \in {"stale", "unload"}
      BY <2>6, <3>1 DEF DropStale, Evict
    <3>3. at'[t] # at[t]
      BY <2>2, <2>6 DEF DropStale, Evict, Goto
    <3>4. /\ LoaderInv' /\ \A u \in Threads \ {t} : SeenInv(u)'
          /\ OverBudget' => OverBudget
          /\ Names(resident) \ Names(resident') \in SUBSET {m}
      BY <2>1, <3>2, UnloadSeen
    <3>5. at[t] = "unload" => EvictsRightly(t)
      BY <2>2 DEF SeenInv, SeenNoRoom, SeenOldest, EvictsRightly
    <3>6. RightlyGone(m)
      BY <3>1, <3>2, <3>3, <3>5 DEF RightlyGone
    <3> QED BY <2>3, <2>4, <3>2, <3>4, <3>6
  <2>7. CASE Inserted(t)
    <3>1. /\ LoaderInv' /\ \A u \in Threads \ {t} : SeenInv(u)'
          /\ "filled" \notin overtaken[t] => ~OverBudget'
          /\ Names(resident) \ Names(resident') = {}
      BY <2>1, <2>7, InsertSeen
    <3>2. at[t] = "insert" /\ at'[t] # "insert"
      <4>1. at[t] = "insert"
        BY <2>7 DEF Inserted
      <4>2. Insert(t) \/ Collides(t)
        BY <1>2, <4>1
        DEF Proceed, RunInference, GetHit, GetMiss, DropStale, LookAtBudget, ChooseVictim, Evict,
            RunsOut, Raises, UseOk, Return, Turning
      <4> QED BY <2>2, <4>1, <4>2 DEF Insert, Collides, Goto
    <3>3. \A u \in Threads : Inserts(u) <=> u = t
      BY <2>1, <3>2 DEF Alone, Inserts
    <3> QED BY <2>3, <3>1, <3>3 DEF InsertionsFit
  <2>8. CASE ~GetHit(t) /\ ~DropStale(t) /\ ~Evict(t) /\ ~Inserted(t)
    <3>1. /\ UNCHANGED <<resident, recent>> /\ at[t] # "insert"
          /\ UNCHANGED overtaken \/ Overtakes(t, Entry(t), {})
      BY <1>2, <2>8
      DEF Proceed, RunInference, GetMiss, LookAtBudget, ChooseVictim, Insert, Collides, RunsOut,
          Raises, UseOk, Return, Turning
    <3>2. ASSUME NEW u \in Threads \ {t}, HasLooked(u) PROVE overtaken'[u] = overtaken[u]
      BY <3>1, <3>2 DEF Overtakes
    <3>3. /\ LoaderInv' /\ \A u \in Threads \ {t} : SeenInv(u)'
          /\ OverBudget' => OverBudget
          /\ Names(resident) \ Names(resident') = {}
      BY <2>1, <3>1, <3>2, NothingSeen
    <3> QED BY <2>3, <2>4, <3>1, <3>3
  <2> QED BY <2>5, <2>6, <2>7, <2>8
<1> QED BY <1>1, <1>2 DEF Next

(* What the loader holds is in the order of its use, and what each thread  *)
(* has read of it is so still, unless others are known to have changed it. *)
THEOREM LoaderHolds == Spec => []SInv
<1>1. Init => SInv
  <2>1. SUFFICES ASSUME Init PROVE SInv
    OBVIOUS
  <2>2. resident = <<>> /\ recent = <<>> /\ Len(<<>>) = 0
    BY <2>1 DEF Init, LoaderInit
  <2>3. LoaderInv
    BY <2>2 DEF LoaderInv, Ordered
  <2>4. \A t \in Threads : at[t] = "idle" /\ victim[t] = NoVictim
    BY <2>1 DEF Init
  <2>5. victim \in [Threads -> Models \cup {NoVictim}]
    BY <2>1 DEF Init
  <2> QED BY <2>3, <2>4, <2>5 DEF SInv, SeenInv, SeenRoom, SeenNoRoom, SeenOldest
<1>2. RInv /\ SInv /\ [Next]_vars => SInv'
  BY LoaderStep
<1>3. QED BY <1>1, <1>2, InvariantHolds, PTL DEF Spec

(* However many threads load, touch and evict at once, an insertion that no*)
(* other overtook leaves the copies within the budget, and only insertions *)
(* ever take them over it.                                                 *)
THEOREM BudgetSafe == Spec => ResidentWithinBudget
<1>1. RInv /\ SInv /\ [Next]_vars => [InsertionsFit]_vars
  BY LoaderStep
<1>2. QED
  BY <1>1, InvariantHolds, LoaderHolds, PTL DEF Spec, ResidentWithinBudget, InsertionsFit

(* However many threads do so at once, a model leaves the memory only      *)
(* because it is asked for at another tier, or as the one used least       *)
(* recently, for a copy that does not fit; exactly which deeds of others   *)
(* may have made the choice old is in EvictsRightly.                       *)
THEOREM EvictionSafe == Spec => EvictsOldestOnly
<1>1. RInv /\ SInv /\ [Next]_vars
        => [\A m \in Names(resident) \ Names(resident') : RightlyGone(m)]_vars
  BY LoaderStep
<1>2. QED
  BY <1>1, InvariantHolds, LoaderHolds, PTL DEF Spec, EvictsOldestOnly, RightlyGone
=============================================================================
