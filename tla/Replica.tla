------------------------------- MODULE Replica -------------------------------
(***************************************************************************)
(* What a tab promises of the ledger it shows, said without requests,      *)
(* queues or events: a copy is replaced by a whole state its origin has    *)
(* had, and by none that is older than it; the origin may move on, lose    *)
(* states and start over as often as it likes.  A copy may be taken for    *)
(* one of another origin at the same revision, and be replaced again.      *)
(***************************************************************************)
EXTENDS Naturals

CONSTANT State       \* what an origin can be in: records with an id and a rev

VARIABLES past,      \* the states there have been
          copy

vars == <<past, copy>>

(* What the copy starts as belongs to no origin.                           *)
Init ==
  /\ past \subseteq State /\ copy \in State
  /\ \A state \in past : state.id # copy.id

OriginMoves ==
  /\ past \subseteq past' /\ past' \subseteq State
  /\ UNCHANGED copy

Older(state) == state.id = copy.id /\ state.rev < copy.rev
Adopt(state) == ~Older(state) /\ copy' = state /\ UNCHANGED past

Relabel(state) == state.rev = copy.rev /\ copy' = [copy EXCEPT !.id = state.id] /\ UNCHANGED past

Next == OriginMoves \/ \E state \in past : Adopt(state) \/ Relabel(state)

Spec == Init /\ [][Next]_vars
=============================================================================
