------------------------------ MODULE SlotPool ------------------------------
(***************************************************************************)
(* What the task board promises about its concurrency cap, said without    *)
(* tasks, executions or sessions: holders occupy slots; a step may release *)
(* and grant several slots at once (one settle hands its slot to several   *)
(* waiting children); a step that grants any slot leaves no more than cap  *)
(* holders; lowering the cap evicts nobody.                                *)
(***************************************************************************)
EXTENDS Integers, FiniteSets

CONSTANTS Holder,    \* who can occupy a slot
          CapInputs  \* the caps a setting may choose

VARIABLES busy,      \* the holders occupying a slot
          cap        \* the ceiling the next grant sees

vars == <<busy, cap>>

Init ==
  /\ busy = {}
  /\ cap \in CapInputs

(* One step of the board: some holders leave, others enter, and entering   *)
(* is allowed only up to the cap.                                          *)
Turnover(leaving, entering) ==
  /\ leaving \subseteq busy
  /\ entering \cap busy = {}
  /\ busy' = (busy \ leaving) \cup entering
  /\ entering # {} => Cardinality(busy') =< cap
  /\ UNCHANGED cap

SetCap(c) ==
  /\ cap' = c
  /\ UNCHANGED busy

Next ==
  \/ \E leaving \in SUBSET Holder, entering \in SUBSET Holder : Turnover(leaving, entering)
  \/ \E c \in CapInputs : SetCap(c)

Spec == Init /\ [][Next]_vars
=============================================================================
