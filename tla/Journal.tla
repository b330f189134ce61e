------------------------------- MODULE Journal -------------------------------
(***************************************************************************)
(* What the board's file promises its users, said without memory, locks,   *)
(* caches or crashes: what is written of one ledger only grows, what is    *)
(* acknowledged is written, a file that cannot be read is set aside whole, *)
(* and what begins after it is another ledger.  Nothing is promised once   *)
(* two writers have met.                                                   *)
(***************************************************************************)
EXTENDS Naturals

CONSTANTS Action,    \* what users ask for, each known by its request
          Nothing

VARIABLES file,      \* the ledger that is written: id, revision, effects, readable
          kept,      \* the files set aside
          answered,  \* what was acknowledged, and by which ledger
          trusted    \* one writer has followed another

vars == <<file, kept, answered, trusted>>

Ledger == [id : Nat, rev : Nat, done : [Action -> Nat], readable : BOOLEAN]

Init ==
  /\ file # Nothing => file \in Ledger /\ file.done = [a \in Action |-> 0]
  /\ kept = {} /\ answered = {} /\ trusted = TRUE

(* A ledger without an id is given one when it is first written again, and *)
(* answers nothing before.                                                 *)
Continues(new, old) ==
  /\ old.id \in {0, new.id} /\ old.rev <= new.rev
  /\ \A a \in Action : old.done[a] <= new.done[a]

Acknowledges(new) ==
  /\ answered \subseteq answered' /\ (answered' # answered => new.id # 0)
  /\ answered' \ answered \subseteq {<<new.id, a>> : a \in {b \in Action : new.done[b] > 0}}

Write ==
  /\ file # Nothing /\ file' \in Ledger
  /\ Continues(file', file) /\ Acknowledges(file')
  /\ file' = file \/ file'.readable
  /\ UNCHANGED kept

Spoil ==
  /\ file # Nothing /\ file' = [file EXCEPT !.readable = FALSE]
  /\ UNCHANGED <<kept, answered>>

SetAside ==
  /\ file # Nothing /\ ~file.readable /\ file' = Nothing
  /\ kept' = kept \cup {file} /\ UNCHANGED answered

Begin ==
  /\ file = Nothing /\ file' \in Ledger
  /\ file'.done = [a \in Action |-> 0] /\ \A old \in kept : old.id # file'.id
  /\ UNCHANGED <<kept, answered>>

Next == ~trusted' \/ (trusted /\ UNCHANGED trusted /\ (Write \/ Spoil \/ SetAside \/ Begin))

Spec == Init /\ [][Next]_vars
=============================================================================
