----------------------------- MODULE LedgerLock -----------------------------
(***************************************************************************)
(* The single-owner lock of the ledger directory (acquireLock and dispose  *)
(* of src/src/host-ledger.ts): starts of the Host that meet at the file    *)
(* ledger-v2.lock, one step per system call, with crashes in between.      *)
(*                                                                         *)
(* A Host is one start of the program and is used once; a restart is       *)
(* another Host.  A lock file is known by the Host that created it; its    *)
(* owner record is written by a later call, so it may be missing.          *)
(***************************************************************************)
EXTENDS Naturals, FiniteSets

CONSTANTS
  Host,       \* the starts of the program
  NoHost,
  Unprobed    \* the Hosts whose own start time could not be read

ASSUME LockAssumption == NoHost \notin Host /\ Unprobed \subseteq Host

VARIABLES
  lock,       \* the lock file
  pc,         \* where each Host is
  attempt,    \* its loop counter
  seen,       \* the owner record it has read
  os,         \* what the process table says of its pid
  mishap      \* history: which of the exceptional events have happened

lockVars == <<lock, pc, attempt, seen, os, mishap>>

LockFile == [by: Host, written: BOOLEAN]
NoFile == [by |-> NoHost, written |-> FALSE]

Stage == {"unborn", "opening", "writing", "reading", "judging", "removing",
          "loading", "fresh", "up", "committing", "disposing", "unlinking", "stopped", "dead"}
(* dead: no process has the pid, or a zombie has, which processState tells *)
(* from a live one; reused: an unrelated process has it.                   *)
PidState == {"none", "alive", "dead", "reused"}
Mishap == {"race", "late", "failed", "evicted"}

LockTypeOK ==
  /\ lock \in LockFile \cup {NoFile}
  /\ pc \in [Host -> Stage] /\ attempt \in [Host -> 0..2]
  /\ seen \in [Host -> Host \cup {NoHost}] /\ os \in [Host -> PidState]
  /\ mishap \subseteq Mishap

LockInit ==
  /\ lock = NoFile
  /\ pc = [h \in Host |-> "unborn"] /\ attempt = [h \in Host |-> 0]
  /\ seen = [h \in Host |-> NoHost] /\ os = [h \in Host |-> "none"]
  /\ mishap = {}

(* The Hosts whose constructor has the lock and that have not given it up. *)
Owns(h) == pc[h] \in {"loading", "fresh", "up", "committing", "disposing", "unlinking"}

Goto(h, stage) == pc' = [pc EXCEPT ![h] = stage]

-----------------------------------------------------------------------------
(* acquireLock                                                             *)

Start(h) ==
  /\ pc[h] = "unborn"
  /\ Goto(h, "opening") /\ os' = [os EXCEPT ![h] = "alive"]
  /\ UNCHANGED <<lock, attempt, seen, mishap>>

(* open(wx): creates the file or fails because there is one.               *)
OpenExclusive(h) ==
  /\ pc[h] = "opening"
  /\ IF lock = NoFile
     THEN lock' = [by |-> h, written |-> FALSE] /\ Goto(h, "writing")
     ELSE UNCHANGED lock /\ Goto(h, "reading")
  /\ UNCHANGED <<attempt, seen, os, mishap>>

(* The record goes to the open file, which may no longer be the lock file. *)
WriteOwner(h) ==
  /\ pc[h] = "writing"
  /\ lock' = IF lock.by = h THEN [by |-> h, written |-> TRUE] ELSE lock
  /\ Goto(h, "loading")
  /\ UNCHANGED <<attempt, seen, os, mishap>>

(* The write or its fsync throws: the constructor ends and leaves the file.*)
WriteOwnerFails(h) ==
  /\ pc[h] = "writing"
  /\ lock' \in IF lock.by = h THEN {lock, [by |-> h, written |-> TRUE]} ELSE {lock}
  /\ Goto(h, "stopped")
  /\ UNCHANGED <<attempt, seen, os, mishap>>

(* A file without a record, or gone by now, is "unreadable": refused.      *)
ReadOwner(h) ==
  /\ pc[h] = "reading"
  /\ IF lock.written
     THEN seen' = [seen EXCEPT ![h] = lock.by] /\ Goto(h, "judging")
     ELSE UNCHANGED seen /\ Goto(h, "stopped")
  /\ UNCHANGED <<lock, attempt, os, mishap>>

ProcessIsAlive(h) == os[h] \in {"alive", "reused"}

(* Mutant: an owner that recorded no start time is taken for gone. *)
StaleReuseUnproven(owner) == owner \in Unprobed \/ os[owner] = "reused"

(* Whether the live process of the recorded pid is proved to be another    *)
(* one.  Without a recorded start time the age of the file decides; a file *)
(* that has disappeared counts as old.  A probe that fails proves nothing. *)
StaleReuse(owner) ==
  IF owner \notin Unprobed THEN os[owner] = "reused"
  ELSE os[owner] = "reused" \/ lock = NoFile

JudgeOwner(h) ==
  /\ pc[h] = "judging"
  /\ \E probed \in BOOLEAN :
       LET owner == seen[h] IN
       IF ProcessIsAlive(owner) /\ ~(probed /\ StaleReuse(owner))
       THEN Goto(h, "stopped") /\ seen' = [seen EXCEPT ![h] = NoHost]
       ELSE Goto(h, "removing") /\ UNCHANGED seen
  /\ UNCHANGED <<lock, attempt, os, mishap>>

(* unlink takes whatever file is there now; a missing one is ignored.      *)
RemoveStale(h) ==
  /\ pc[h] = "removing"
  /\ lock' = NoFile
  /\ mishap' = IF lock \in {NoFile, [by |-> seen[h], written |-> TRUE]}
               THEN mishap ELSE mishap \cup {"race"}
  /\ attempt' = [attempt EXCEPT ![h] = @ + 1]
  /\ seen' = [seen EXCEPT ![h] = NoHost]
  /\ Goto(h, IF attempt[h] = 0 THEN "opening" ELSE "stopped")
  /\ UNCHANGED os

-----------------------------------------------------------------------------
(* dispose, and the end of a process                                       *)

(* Only a file that carries this Host's token is removed.                  *)
ReadOwnToken(h) ==
  /\ pc[h] = "disposing"
  /\ Goto(h, IF lock = [by |-> h, written |-> TRUE] THEN "unlinking" ELSE "stopped")
  /\ UNCHANGED <<lock, attempt, seen, os, mishap>>

UnlinkOwn(h) ==
  /\ pc[h] = "unlinking"
  /\ lock' = NoFile
  /\ mishap' = IF lock \in {NoFile, [by |-> h, written |-> TRUE]}
               THEN mishap ELSE mishap \cup {"race"}
  /\ Goto(h, "stopped")
  /\ UNCHANGED <<attempt, seen, os>>

(* The pid may go to an unrelated process at once.                         *)
Crash(h) ==
  /\ os[h] = "alive"
  /\ Goto(h, "dead")
  /\ \E state \in {"dead", "reused"} : os' = [os EXCEPT ![h] = state]
  /\ attempt' = [attempt EXCEPT ![h] = 0] /\ seen' = [seen EXCEPT ![h] = NoHost]
  /\ UNCHANGED <<lock, mishap>>

(* What the refusal asks of the user: remove the file when no Host runs.   *)
RemoveByHand ==
  /\ lock # NoFile /\ \A h \in Host : os[h] # "alive"
  /\ lock' = NoFile
  /\ UNCHANGED <<pc, attempt, seen, os, mishap>>

LockStep(h) ==
  \/ OpenExclusive(h) \/ WriteOwner(h) \/ WriteOwnerFails(h) \/ ReadOwner(h)
  \/ JudgeOwner(h) \/ RemoveStale(h) \/ ReadOwnToken(h) \/ UnlinkOwn(h)

-----------------------------------------------------------------------------
(* Properties                                                              *)

(* Two Hosts own the ledger at once only after an unlink has taken a file  *)
(* other than the one its caller had judged (host-ledger.ts 1114): the     *)
(* empty file, zombies, reused pids, failed probes and a crash at any call *)
(* never let a second owner in by themselves.                              *)
OneOwner ==
  "race" \notin mishap => \A g, h \in Host : Owns(g) /\ Owns(h) => g = h
=============================================================================
