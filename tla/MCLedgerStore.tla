--------------------------- MODULE MCLedgerStore ---------------------------
(* Instances of LedgerStore for TLC.                                       *)
EXTENDS LedgerStore

CONSTANTS h1, h2, h3

NewDirectory == {NoDoc}
AnyDirectory == {NoDoc, OldDoc(2, "yes"), OldDoc(2, "rows"), OldDoc(3, "yes")}

(* Three starts meet at the lock over an empty ledger; what the files go   *)
(* through takes a first start and a second.  Behaviours past a stolen lock*)
(* are cut: there is nothing left to promise.                              *)
TwoOrEmpty ==
  /\ InTurn
  /\ clock = 0 \/ damages = 0
  /\ \/ \E h \in Host : pc[h] = "unborn"
     \/ clock = 0 /\ damages = 0 /\ answered = {} /\ \A h \in Host : mem[h] # NoDoc => Total(mem[h]) = 0

AnyHost == Permutations(Host)
=============================================================================
