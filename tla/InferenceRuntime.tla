-------------------------- MODULE InferenceRuntime --------------------------
(***************************************************************************)
(* Calls of InferenceEngine.run_inference in worker threads: each runs its *)
(* own OOM ladder, and all of them share one ModelLoader, which takes no   *)
(* lock (backend/model_registry/inference.py and loader.py). The gate of   *)
(* JobQueue lets one call in at a time, but a cancelled job's call goes on *)
(* in its thread while the next one starts: Threads may be two.            *)
(*                                                                         *)
(* No lock is held between any two looks at the loader, so the threads may *)
(* take turns there: get() and _load are cut wherever what a thread has    *)
(* read of `_resident` can be old when it acts on it.                      *)
(***************************************************************************)
EXTENDS ModelLoader

CONSTANT Threads

VARIABLES
  ladder,    \* ladder[t]: the locals of _run_with_oom_ladder in thread t
  at,        \* at[t]: where thread t is in process_batch
  victim,    \* victim[t]: victim_name in _evict_lru_until_fits
  recent,    \* history: the models in the order in which they were last used
  overtaken  \* history: what the others have done since t looked at the budget

vars == <<ladder, resident, at, victim, recent, overtaken>>

Entry(t) == ladder[t].request.entry
Tier(t)  == ladder[t].quant

Step(t, next) == ladder' = [ladder EXCEPT ![t] = next]
Goto(t, place) == at' = [at EXCEPT ![t] = place]

NoVictim == "no victim"

(* The thread acts on what it has seen of the loader. *)
HasLooked(t) == at[t] \in {"choose", "unload", "insert"}

(* Thread t does this to m in the loader. Of a touch, only who has chosen  *)
(* m as its victim takes note.                                             *)
Overtakes(t, m, deeds) ==
  overtaken' = [u \in Threads |->
                  IF u = t \/ ~HasLooked(u) THEN {}
                  ELSE overtaken[u] \cup {d \in deeds : d = "touched" => victim[u] = m}]

Freed(m) == {d \in {"freed"} : m \in Names(resident)}

Used(m) == recent' = Append(ElementsAt(recent, {i \in DOMAIN recent : recent[i] # m}), m)

Init ==
  /\ ladder = [t \in Threads |-> Idle]
  /\ at     = [t \in Threads |-> "idle"]
  /\ victim = [t \in Threads |-> NoVictim]
  /\ recent = <<>>
  /\ overtaken = [t \in Threads |-> {}]
  /\ LoaderInit

RunInference(t, r) ==
  /\ at[t] = "idle"
  /\ Step(t, NewLadder(r))
  /\ Goto(t, "loop")
  /\ UNCHANGED <<resident, victim, recent, overtaken>>

(* The loop turns while tiles are left. *)
Turning(t) == at[t] = "loop" /\ Left(ladder[t]) > 0

GetHit(t) ==
  /\ Turning(t)
  /\ Touch(Entry(t), Tier(t))
  /\ Used(Entry(t))
  /\ Overtakes(t, Entry(t), {"touched"})
  /\ Goto(t, "use")
  /\ UNCHANGED <<ladder, victim>>

(* No copy, or one at another tier, which is to go before the factory is   *)
(* called.                                                                 *)
GetMiss(t) ==
  /\ Turning(t)
  /\ ~Cached(Entry(t), Tier(t))
  /\ Goto(t, IF Entry(t) \in Names(resident) THEN "stale" ELSE "load")
  /\ UNCHANGED <<ladder, resident, victim, recent, overtaken>>

DropStale(t) ==
  /\ at[t] = "stale"
  /\ Unload(Entry(t))
  /\ Overtakes(t, Entry(t), Freed(Entry(t)))
  /\ Goto(t, "load")
  /\ UNCHANGED <<ladder, victim, recent>>

(* At once when the factory has returned, and after each eviction. *)
LookAtBudget(t) ==
  /\ at[t] \in {"load", "evict"}
  /\ Goto(t, IF RoomFor(Tier(t)) THEN "insert" ELSE "choose")
  /\ UNCHANGED <<ladder, resident, victim, recent, overtaken>>

ChooseVictim(t) ==
  /\ at[t] = "choose" /\ resident # <<>>
  /\ victim' = [victim EXCEPT ![t] = Oldest]
  /\ Goto(t, "unload")
  /\ UNCHANGED <<ladder, resident, recent, overtaken>>

(* Slip: one eviction, where the code has a loop. *)
EvictOnce(t) ==
  /\ at[t] = "unload"
  /\ Unload(victim[t])
  /\ Overtakes(t, victim[t], Freed(victim[t]))
  /\ victim' = [victim EXCEPT ![t] = NoVictim]
  /\ Goto(t, "insert")
  /\ UNCHANGED <<ladder, recent>>

Evict(t) ==
  /\ at[t] = "unload"
  /\ Unload(victim[t])
  /\ Overtakes(t, victim[t], Freed(victim[t]))
  /\ victim' = [victim EXCEPT ![t] = NoVictim]
  /\ Goto(t, "evict")
  /\ UNCHANGED <<ladder, recent>>

Inserted(t) ==
  /\ at[t] = "insert"
  /\ Install(Entry(t), Tier(t))
  /\ Used(Entry(t))
  /\ Overtakes(t, Entry(t), {"touched", "filled"} \cup Freed(Entry(t)))
  /\ UNCHANGED victim

Insert(t) == Inserted(t) /\ Goto(t, "use") /\ UNCHANGED ladder

(* Thread t is about to change how many names there are.                   *)
ChangesSize(t, names) ==
  \/ at[t] = "stale" /\ Entry(t) \in names
  \/ at[t] = "unload" /\ victim[t] \in names
  \/ at[t] = "insert" /\ Entry(t) \notin names

(* vram_used_mb and min() go through `_resident` while another thread adds *)
(* to it or takes from it ("dictionary changed size during iteration"), or *)
(* min() finds it empty: the call ends with that exception. vram_used_mb   *)
(* is called once more when the copy is in, for the log.                   *)
Collides(t) ==
  /\ \/ /\ at[t] \in {"load", "evict", "choose"}
        /\ resident # <<>>
        /\ \E u \in Threads \ {t} : ChangesSize(u, Names(resident))
        /\ UNCHANGED <<resident, victim, recent>>
        /\ Overtakes(t, Entry(t), {})
     \/ /\ at[t] = "choose" /\ resident = <<>>
        /\ UNCHANGED <<resident, victim, recent>>
        /\ Overtakes(t, Entry(t), {})
     \/ /\ Inserted(t)
        /\ \E u \in Threads \ {t} : ChangesSize(u, Names(resident'))
  /\ Step(t, Raised(ladder[t], "model_error"))
  /\ Goto(t, "idle")

(* The factory, or the model on a batch its adapter accepts, runs out of   *)
(* memory.                                                                 *)
RunsOut(t) ==
  /\ \/ at[t] = "load"
     \/ at[t] = "use" /\ Accepted(ladder[t], Batch(ladder[t]))
  /\ \E next \in {Shrunk(ladder[t]), SteppedDown(ladder[t]), TileDropped(ladder[t])} :
       OutOfMemory(ladder[t], next) /\ Step(t, next)
  /\ Goto(t, "loop")
  /\ UNCHANGED <<resident, victim, recent, overtaken>>

(* The factory, the adapter or the model raises anything else: the call    *)
(* ends with that exception.                                               *)
Raises(t) ==
  /\ \/ at[t] = "load" /\ Step(t, Raised(ladder[t], "model_error"))
     \/ /\ at[t] = "use"
        /\ Step(t, Raised(ladder[t],
                          IF Accepted(ladder[t], Batch(ladder[t]))
                          THEN "model_error" ELSE "adapter_error"))
  /\ Goto(t, "idle")
  /\ UNCHANGED <<resident, victim, recent, overtaken>>

UseOk(t) ==
  /\ at[t] = "use"
  /\ Accepted(ladder[t], Batch(ladder[t]))
  /\ Step(t, Processed(ladder[t]))
  /\ Goto(t, "loop")
  /\ UNCHANGED <<resident, victim, recent, overtaken>>

(* Slip: the call returns with the first batch that gives evidence. *)
ReturnFirst(t) ==
  /\ at[t] = "loop" /\ (Left(ladder[t]) = 0 \/ ladder[t].partial # <<>>)
  /\ Step(t, Ended(ladder[t]))
  /\ Goto(t, "idle")
  /\ UNCHANGED <<resident, victim, recent, overtaken>>

Return(t) ==
  /\ at[t] = "loop" /\ Left(ladder[t]) = 0
  /\ Step(t, Ended(ladder[t]))
  /\ Goto(t, "idle")
  /\ UNCHANGED <<resident, victim, recent, overtaken>>

Proceed(t) ==
  \/ GetHit(t) \/ GetMiss(t) \/ DropStale(t) \/ LookAtBudget(t)
  \/ ChooseVictim(t) \/ Evict(t) \/ Insert(t) \/ Collides(t)
  \/ RunsOut(t) \/ Raises(t) \/ UseOk(t) \/ Return(t)

Next == \E t \in Threads : (\E r \in Requests : RunInference(t, r)) \/ Proceed(t)

Spec == Init /\ [][Next]_vars

-----------------------------------------------------------------------------
Call(t) == INSTANCE OomLadder WITH ladder <- ladder[t]

(* In each thread, each tile is answered for once or dropped; see Ladder. *)
EveryCallAccountsForTiles == \A t \in Threads : TilesAccounted(ladder[t])

(* In each thread, a tile is given up last, and no answer is silently less *)
(* than was asked for; see Ladder.                                         *)
EveryLossIsLastResort == \A t \in Threads : LossIsLastResort(ladder[t])

(* Each thread, whatever the others do to the loader, runs the ladder.     *)
RunsTheLadder ==
  /\ \A t \in Threads : Call(t)!Init
  /\ [][\A t \in Threads : Call(t)!Next \/ UNCHANGED ladder[t]]_vars

UsedBefore(m, n) ==
  \E i, k \in DOMAIN recent : i < k /\ recent[i] = m /\ recent[k] = n

Inserts(t) == at[t] = "insert" /\ at'[t] # "insert"

(* "evicts least-recently-used models when a new load would exceed         *)
(* vram_budget_mb" (loader.py:83-85): a load that nobody's copy overtook   *)
(* between its last look at the budget and its insertion leaves the copies *)
(* within the budget, unless one alone exceeds it, even if they were not   *)
(* before; and nothing but an insertion takes them over it. Two threads    *)
(* that both look before either inserts do exceed it.                      *)
ResidentWithinBudget ==
  [][/\ \A t \in Threads : Inserts(t) /\ "filled" \notin overtaken[t] => ~OverBudget'
     /\ OverBudget' /\ ~OverBudget => \E t \in Threads : Inserts(t)]_vars

(* Thread t may unload its victim, if what it has seen still holds: all    *)
(* other models were used later, unless the victim itself was used since   *)
(* it was chosen, and the new copy does not fit, unless another thread has *)
(* made room since.                                                        *)
EvictsRightly(t) ==
  /\ "touched" \notin overtaken[t] =>
       \A n \in Names(resident) \ {victim[t]} : UsedBefore(victim[t], n)
  /\ "freed" \notin overtaken[t] => ~Fits(Range(resident), Tier(t))

(* A model leaves the memory only when a thread asks for it at another     *)
(* tier, or as the one used least recently, to make room (loader.py:110-112*)
(* and 149-152), however many other threads use the loader meanwhile.      *)
EvictsOldestOnly ==
  [][\A m \in Names(resident) \ Names(resident') :
       \E t \in Threads :
         /\ at'[t] # at[t]
         /\ \/ at[t] = "stale" /\ Entry(t) = m
            \/ at[t] = "unload" /\ victim[t] = m /\ EvictsRightly(t)]_vars

(* "always terminates" (inference.py:80-82): each turn of a thread's loop  *)
(* descends in the tiles left, the tier or the batch size, whatever the    *)
(* other threads do to the loader meanwhile.                               *)
EveryLoopDescends ==
  [][\A t \in Threads :
       ladder[t].status = "running" /\ ladder'[t].status = "running"
         /\ ladder'[t] # ladder[t]
       => Descends(ladder[t], ladder'[t])]_vars

-----------------------------------------------------------------------------
(* What the documents say and the code does not do.                        *)

(* "Never raises for OOM (non-OOM exceptions propagate)"                   *)
(* (inference.py:79): an adapter that takes the whole request does not     *)
(* make the call raise.                                                    *)
NeverRaisesForOom ==
  \A t \in Threads :
    ladder[t].status = "adapter_error" =>
      ~Accepted(ladder[t], [Batch(ladder[t]) EXCEPT
                              !.first = 1, !.last = Len(ladder[t].request.tiles)])

=============================================================================
