---------------------------- MODULE ModelLoader ----------------------------
(***************************************************************************)
(* backend/model_registry/loader.py: ModelLoader. `_resident` is kept in   *)
(* the order of `last_used`, oldest first, which is all that the access    *)
(* counter is read for. Its operations are the steps get() consists of;    *)
(* the modules that call the loader take them one by one.                  *)
(***************************************************************************)
EXTENDS Ladder, Sublists, Functions

CONSTANTS
  Vram,    \* Vram[q]: footprint of a copy at tier q (_estimate_vram_mb)
  Budget   \* vram_budget_mb

ASSUME RegistryAssumption == RegistryServes
ASSUME VramAssumption ==
  /\ Vram \in [Quants -> Nat \ {0}]
  /\ Vram["4bit"] <= Vram["8bit"] /\ Vram["8bit"] <= Vram["none"]
ASSUME BudgetAssumption == Budget \in Nat

LoadedModel == [name : Models, quant : Quants]

VARIABLE resident   \* the LoadedModels in memory, least recently used first

LoaderInit == resident = <<>>

Names(copies) == {c.name : c \in Range(copies)}

(* Of a set of copies; `_resident` has one for each name at most.          *)
VramUsed(copies) == SumFunctionOnSet([c \in LoadedModel |-> Vram[c.quant]], copies)

Copy(m) == CHOOSE c \in Range(resident) : c.name = m

Others(copies, m) == ElementsAt(copies, {i \in DOMAIN copies : copies[i].name # m})

(* A copy serves a call that names no tier, or its own. get() names none   *)
(* when the tier it wants is the registry's.                               *)
Serves(c, m, q) == c.name = m /\ (q = Quantization[m] \/ c.quant = q)

Cached(m, q) == \E i \in DOMAIN resident : Serves(resident[i], m, q)

(* Slip: last_used is set when a copy is loaded, not when it is used. *)
TouchKeepsAge(m, q) == Cached(m, q) /\ UNCHANGED resident

(* get(), the copy is there: it becomes the most recently used. Were the   *)
(* copy taken away between its look-up and the new last_used, nobody would *)
(* see that last_used: the two are one step.                               *)
Touch(m, q) ==
  /\ Cached(m, q)
  /\ resident' = Append(Others(resident, m), Copy(m))

(* The pop of unload(), which does nothing if the name is gone already.    *)
Unload(m) == resident' = Others(resident, m)

(* The condition of the loop in _evict_lru_until_fits turned round, and    *)
(* whom the loop evicts.                                                   *)
Fits(copies, q) == VramUsed(copies) + Vram[q] <= Budget

RoomFor(q) == resident = <<>> \/ Fits(Range(resident), q)

Oldest == Head(resident).name

(* The end of _load. A copy another thread has put there meanwhile is      *)
(* replaced.                                                               *)
Install(m, q) ==
  resident' = Append(Others(resident, m), [name |-> m, quant |-> q])

-----------------------------------------------------------------------------
(* One copy may exceed the budget alone ("loading anyway (best effort)",   *)
(* loader.py:123-128); several together should not.                        *)
OverBudget == VramUsed(Range(resident)) > Budget /\ Len(resident) > 1
=============================================================================
