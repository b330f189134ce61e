---------------------------- MODULE BoardReplica ----------------------------
(***************************************************************************)
(* BoardClient with a record of every state the Host's ledger has had, and *)
(* what the tab's copy of it promises.                                     *)
(***************************************************************************)
EXTENDS BoardClient

VARIABLE past   \* history: what the Host would have answered, at any time

replicaVars == <<clientVars, past>>

ReplicaInit == ClientInit /\ past = {Snapshot(host)}
ReplicaNext == ClientNext /\ past' = past \cup {Snapshot(host')}

ReplicaSpec == ReplicaInit /\ [][ReplicaNext]_replicaVars
FairReplicaSpec == ReplicaSpec /\ ClientFairness

(* Whatever times out, fails to be written, is lost in a restart or starts *)
(* over, the tab shows a whole state the Host's ledger has had, and never  *)
(* returns to an older one of the same ledger (acceptRemote); only a frame *)
(* of another ledger at the same revision is taken for its own (643).      *)
Copy == INSTANCE Replica WITH State <- Shown, copy <- view
ShowsTheLedger == Copy!Spec
=============================================================================
