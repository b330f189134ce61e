------------------------- MODULE LedgerStoreProofs -------------------------
(***************************************************************************)
(* Theorems about LedgerLock and LedgerStore: one owner, and what its      *)
(* files keep, for any number of starts, requests and crashes.             *)
(***************************************************************************)
EXTENDS LedgerStore, SequenceTheorems, TLAPS

-----------------------------------------------------------------------------
(* The lock                                                                *)

Ended(h) == pc[h] \in {"stopped", "dead"}
Past(h)  == Owns(h) \/ Ended(h)

AliveIffRunning == \A h \in Host : os[h] = "alive" <=> pc[h] \notin {"unborn", "dead"}
TriesLeft       == \A h \in Host : attempt[h] = 2 => Ended(h)

(* A record is of a Host that has got past writing it.                     *)
RecordsTrue ==
  /\ lock # NoFile => pc[lock.by] = "writing" \/ Past(lock.by)
  /\ lock.written => Past(lock.by)
  /\ \A h \in Host : pc[h] \in {"judging", "removing"} => seen[h] \in Host /\ Past(seen[h])

(* A Host that took the lock finds its own file there; a record is removed *)
(* once its Host has ended.                                                *)
FileIsOwners ==
  "race" \notin mishap =>
    \A h \in Host :
      /\ pc[h] = "writing" => lock = [by |-> h, written |-> FALSE]
      /\ Owns(h) => lock = [by |-> h, written |-> TRUE]
      /\ pc[h] = "removing" => Ended(seen[h])

LockInv == LockTypeOK /\ AliveIffRunning /\ TriesLeft /\ RecordsTrue /\ FileIsOwners

LEMMA LockInvOneOwner == LockInv => OneOwner
BY LockAssumption DEF LockInv, FileIsOwners, OneOwner

LEMMA InitLock == LockInit => LockInv
<1> SUFFICES ASSUME LockInit PROVE LockInv OBVIOUS
<1>1. LockTypeOK
  BY DEF LockInit, LockTypeOK, Stage, PidState, Mishap
<1>2. AliveIffRunning /\ TriesLeft
  BY DEF LockInit, AliveIffRunning, TriesLeft
<1>3. RecordsTrue /\ FileIsOwners
  BY DEF LockInit, RecordsTrue, FileIsOwners, NoFile, Owns
<1> QED BY <1>1, <1>2, <1>3 DEF LockInv

(* Where each Host is after a step of one of them.                         *)
LEMMA StageMoves ==
  ASSUME LockTypeOK, NEW h \in Host, NEW stage \in Stage, Goto(h, stage)
  PROVE  /\ pc' \in [Host -> Stage] /\ pc'[h] = stage
         /\ \A g \in Host \ {h} : pc'[g] = pc[g]
BY DEF LockTypeOK, Goto

LEMMA RecordsStay ==
  ASSUME LockTypeOK, RecordsTrue, lock' = lock \/ lock' = NoFile,
         \A g \in Host :
           /\ Past(g) => Past(g)'
           /\ pc[g] = "writing" => pc'[g] = "writing" \/ Past(g)'
           /\ pc'[g] \in {"judging", "removing"} => pc[g] \in {"judging", "removing"} /\ seen'[g] = seen[g]
  PROVE  RecordsTrue'
<1>1. ~NoFile.written
  BY DEF NoFile
<1>2. lock # NoFile => lock.by \in Host
  BY DEF LockTypeOK, LockFile
<1>3. lock' # NoFile => lock' = lock /\ (pc'[lock'.by] = "writing" \/ Past(lock.by)')
  BY <1>2 DEF RecordsTrue
<1>4. lock'.written => Past(lock.by)'
  BY <1>1, <1>2 DEF RecordsTrue
<1>5. \A g \in Host : pc'[g] \in {"judging", "removing"} => seen'[g] \in Host /\ Past(seen[g])'
  BY DEF RecordsTrue
<1> QED BY <1>3, <1>4, <1>5 DEF RecordsTrue

LEMMA StartKeeps == ASSUME LockInv, NEW h \in Host, Start(h) PROVE LockInv'
<1>1. /\ pc'[h] = "opening" /\ pc' \in [Host -> Stage] /\ \A g \in Host \ {h} : pc'[g] = pc[g]
  BY StageMoves DEF LockInv, Start, Stage
<1>2. os'[h] = "alive" /\ os' \in [Host -> PidState] /\ \A g \in Host \ {h} : os'[g] = os[g]
  BY DEF LockInv, LockTypeOK, Start, PidState
<1>3. LockTypeOK'
  BY <1>1, <1>2 DEF LockInv, LockTypeOK, Start
<1>4. AliveIffRunning' /\ TriesLeft'
  BY <1>1, <1>2 DEF LockInv, AliveIffRunning, TriesLeft, Ended, Start
<1>5. \A g \in Host : (Past(g) <=> Past(g)') /\ (Owns(g) <=> Owns(g)') /\ (Ended(g) <=> Ended(g)')
  BY <1>1 DEF Start, Past, Owns, Ended
<1>6. RecordsTrue' /\ FileIsOwners'
  BY <1>1, <1>5, LockAssumption DEF LockInv, LockTypeOK, LockFile, NoFile, RecordsTrue, FileIsOwners, Start
<1> QED BY <1>3, <1>4, <1>6 DEF LockInv

LEMMA OpenKeeps == ASSUME LockInv, NEW h \in Host, OpenExclusive(h) PROVE LockInv'
<1>1. PICK stage \in {"writing", "reading"} : Goto(h, stage)
  BY DEF OpenExclusive
<1>2. /\ pc'[h] = stage /\ pc' \in [Host -> Stage] /\ \A g \in Host \ {h} : pc'[g] = pc[g]
  BY <1>1, StageMoves DEF LockInv, Stage
<1>3. LockTypeOK'
  <2>1. [by |-> h, written |-> FALSE] \in LockFile
    BY DEF LockFile
  <2>2. lock' \in LockFile \cup {NoFile}
    BY <2>1 DEF LockInv, LockTypeOK, OpenExclusive
  <2> QED BY <1>2, <2>2 DEF LockInv, LockTypeOK, OpenExclusive
<1>4. AliveIffRunning' /\ TriesLeft'
  BY <1>2 DEF LockInv, AliveIffRunning, TriesLeft, Ended, OpenExclusive
<1>5. \A g \in Host : (Past(g) <=> Past(g)') /\ (Owns(g) <=> Owns(g)') /\ (Ended(g) <=> Ended(g)')
  BY <1>2 DEF OpenExclusive, Past, Owns, Ended
<1>6. CASE lock = NoFile
  <2>1. lock' = [by |-> h, written |-> FALSE] /\ pc'[h] = "writing"
    BY <1>2, <1>6, StageMoves DEF OpenExclusive, Goto, LockInv, LockTypeOK
  <2>2. RecordsTrue'
    BY <1>2, <1>5, <2>1 DEF LockInv, RecordsTrue, OpenExclusive
  <2>3. \A g \in Host, b \in BOOLEAN : lock # [by |-> g, written |-> b]
    BY <1>6, LockAssumption DEF NoFile
  <2>4. "race" \notin mishap => \A g \in Host : pc[g] # "writing" /\ ~Owns(g)
    BY <2>3 DEF LockInv, FileIsOwners
  <2>5. FileIsOwners'
    BY <1>2, <1>5, <2>1, <2>4 DEF LockInv, RecordsTrue, FileIsOwners, OpenExclusive
  <2> QED BY <1>3, <1>4, <2>2, <2>5 DEF LockInv
<1>7. CASE lock # NoFile
  <2>1. lock' = lock /\ pc'[h] = "reading"
    BY <1>2, <1>7 DEF OpenExclusive, Goto, LockInv, LockTypeOK
  <2>2. RecordsTrue' /\ FileIsOwners'
    BY <1>2, <1>5, <2>1, <1>7 DEF LockInv, LockTypeOK, LockFile, RecordsTrue, FileIsOwners, OpenExclusive
  <2> QED BY <1>3, <1>4, <2>2 DEF LockInv
<1> QED BY <1>6, <1>7

(* The record is written, or the write throws, before or after it took     *)
(* effect.                                                                 *)
LEMMA WriteKeeps ==
  ASSUME LockInv, NEW h \in Host, WriteOwner(h) \/ WriteOwnerFails(h)
  PROVE  LockInv'
<1> DEFINE filled == [by |-> h, written |-> TRUE]
<1>1. PICK stage \in {"loading", "stopped"} :
        /\ Goto(h, stage)
        /\ stage = "loading" => lock' = IF lock.by = h THEN filled ELSE lock
        /\ lock' \in IF lock.by = h THEN {lock, filled} ELSE {lock}
  BY DEF WriteOwner, WriteOwnerFails
<1>2. pc[h] = "writing" /\ UNCHANGED <<attempt, seen, os, mishap>>
  BY DEF WriteOwner, WriteOwnerFails
<1>3. /\ pc'[h] = stage /\ pc' \in [Host -> Stage] /\ \A g \in Host \ {h} : pc'[g] = pc[g]
  BY <1>1, StageMoves DEF LockInv, Stage
<1>4. filled \in LockFile /\ (lock.by = h => lock \in LockFile)
  BY LockAssumption DEF LockInv, LockTypeOK, LockFile, NoFile
<1>5. LockTypeOK'
  <2>1. lock' = lock \/ (lock' = filled /\ lock.by = h)
    BY <1>1
  <2>2. lock' \in LockFile \cup {NoFile}
    BY <1>4, <2>1 DEF LockInv, LockTypeOK
  <2> QED BY <1>2, <1>3, <2>2 DEF LockInv, LockTypeOK
<1>6. AliveIffRunning' /\ TriesLeft'
  BY <1>2, <1>3 DEF LockInv, AliveIffRunning, TriesLeft, Ended
<1>7. \A g \in Host : (Past(g) => Past(g)') /\ (Ended(g) => Ended(g)')
  BY <1>2, <1>3 DEF Past, Owns, Ended
<1>8. Past(h)' /\ \A g \in Host \ {h} : Owns(g)' => Owns(g)
  BY <1>3 DEF Past, Owns, Ended
<1>9. RecordsTrue'
  <2>1. lock'.by = lock.by /\ (lock.by # h => lock' = lock) /\ (lock' = NoFile <=> lock = NoFile)
    BY <1>1, <1>4, LockAssumption DEF NoFile
  <2>2. lock # NoFile => lock.by \in Host
    BY DEF LockInv, LockTypeOK, LockFile
  <2>3. ~NoFile.written
    BY DEF NoFile
  <2>4. \A g \in Host \ {h} : pc[g] = "writing" => pc'[g] = "writing"
    BY <1>3
  <2>5. \A g \in Host : pc'[g] \in {"judging", "removing"} => pc[g] \in {"judging", "removing"}
    BY <1>3
  <2> QED BY <1>2, <1>7, <1>8, <2>1, <2>2, <2>3, <2>4, <2>5 DEF LockInv, RecordsTrue
<1>10. FileIsOwners'
  <2>1. ASSUME "race" \notin mishap PROVE lock = [by |-> h, written |-> FALSE]
    BY <1>2, <2>1 DEF LockInv, FileIsOwners
  <2>2. ASSUME "race" \notin mishap, NEW g \in Host \ {h} PROVE pc[g] # "writing" /\ ~Owns(g)
    BY <2>1, <2>2 DEF LockInv, FileIsOwners
  <2>3. ASSUME "race" \notin mishap, Owns(h)' PROVE lock' = filled
    BY <1>1, <1>3, <2>1, <2>3 DEF Owns
  <2>4. ASSUME "race" \notin mishap, NEW g \in Host, pc'[g] = "removing" PROVE Ended(seen[g])'
    BY <1>2, <1>3, <1>7, <2>4 DEF LockInv, FileIsOwners, RecordsTrue
  <2> QED BY <1>2, <1>3, <1>4, <1>8, <2>1, <2>2, <2>3, <2>4 DEF FileIsOwners
<1> QED BY <1>5, <1>6, <1>9, <1>10 DEF LockInv

LEMMA ReadKeeps == ASSUME LockInv, NEW h \in Host, ReadOwner(h) PROVE LockInv'
<1>1. PICK stage \in {"judging", "stopped"} : Goto(h, stage)
  BY DEF ReadOwner
<1>2. /\ pc'[h] = stage /\ pc' \in [Host -> Stage] /\ \A g \in Host \ {h} : pc'[g] = pc[g]
  BY <1>1, StageMoves DEF LockInv, Stage
<1>3. \/ stage = "stopped" /\ seen' = seen
      \/ stage = "judging" /\ lock.written /\ seen' = [seen EXCEPT ![h] = lock.by]
  BY <1>1, <1>2 DEF ReadOwner, Goto, LockInv, LockTypeOK
<1>4. lock.written => lock.by \in Host
  BY DEF LockInv, LockTypeOK, LockFile, NoFile
<1>5. LockTypeOK'
  BY <1>2, <1>3, <1>4 DEF LockInv, LockTypeOK, ReadOwner
<1>6. AliveIffRunning' /\ TriesLeft'
  BY <1>2 DEF LockInv, AliveIffRunning, TriesLeft, Ended, ReadOwner
<1>7. \A g \in Host : (Past(g) => Past(g)') /\ (Owns(g) <=> Owns(g)') /\ (Ended(g) => Ended(g)')
  BY <1>2 DEF ReadOwner, Past, Owns, Ended
<1>8. RecordsTrue'
  BY <1>2, <1>3, <1>4, <1>7 DEF LockInv, LockTypeOK, LockFile, RecordsTrue, ReadOwner
<1>9. FileIsOwners'
  BY <1>2, <1>3, <1>7 DEF LockInv, LockTypeOK, FileIsOwners, RecordsTrue, ReadOwner
<1> QED BY <1>5, <1>6, <1>8, <1>9 DEF LockInv

LEMMA JudgeKeeps == ASSUME LockInv, NEW h \in Host, JudgeOwner(h) PROVE LockInv'
<1> DEFINE owner == seen[h]
<1>1. owner \in Host /\ Past(owner)
  BY DEF LockInv, RecordsTrue, JudgeOwner
<1>2. PICK stage \in {"removing", "stopped"} : Goto(h, stage)
  BY DEF JudgeOwner
<1>3. /\ pc'[h] = stage /\ pc' \in [Host -> Stage] /\ \A g \in Host \ {h} : pc'[g] = pc[g]
  BY <1>2, StageMoves DEF LockInv, Stage
<1>4. \/ stage = "stopped" /\ seen' = [seen EXCEPT ![h] = NoHost]
      \/ stage = "removing" /\ seen' = seen /\ (~ProcessIsAlive(owner) \/ StaleReuse(owner))
  BY <1>2, <1>3 DEF JudgeOwner, Goto, LockInv, LockTypeOK
<1>5. LockTypeOK'
  BY <1>3, <1>4 DEF LockInv, LockTypeOK, JudgeOwner
<1>6. AliveIffRunning' /\ TriesLeft'
  BY <1>3 DEF LockInv, AliveIffRunning, TriesLeft, Ended, JudgeOwner
<1>7. \A g \in Host : (Past(g) => Past(g)') /\ (Owns(g) <=> Owns(g)') /\ (Ended(g) => Ended(g)')
  BY <1>3 DEF JudgeOwner, Past, Owns, Ended
<1>8. RecordsTrue'
  BY <1>1, <1>3, <1>4, <1>7 DEF LockInv, LockTypeOK, LockFile, NoFile, RecordsTrue, JudgeOwner
<1>9. "race" \notin mishap /\ (~ProcessIsAlive(owner) \/ StaleReuse(owner)) => Ended(owner)
  BY <1>1 DEF LockInv, AliveIffRunning, FileIsOwners, ProcessIsAlive, StaleReuse, Past, Owns, Ended, NoFile
<1>10. ASSUME NEW g \in Host, "race" \notin mishap, pc'[g] = "removing" PROVE Ended(seen[g])'
  <2>1. CASE g = h
    BY <1>1, <1>3, <1>4, <1>7, <1>9, <1>10, <2>1
  <2>2. CASE g # h
    <3>1. pc[g] = "removing" /\ seen'[g] = seen[g]
      BY <1>3, <1>4, <1>10, <2>2 DEF LockInv, LockTypeOK
    <3>2. seen[g] \in Host /\ Ended(seen[g])
      BY <1>10, <3>1 DEF LockInv, RecordsTrue, FileIsOwners
    <3> QED BY <1>7, <3>1, <3>2
  <2> QED BY <2>1, <2>2
<1>11. FileIsOwners'
  BY <1>3, <1>7, <1>10 DEF LockInv, FileIsOwners, JudgeOwner
<1> QED BY <1>5, <1>6, <1>8, <1>11 DEF LockInv

(* An unlink: of nothing, of the file of the judged Host, or the race.     *)
LEMMA RemoveKeeps == ASSUME LockInv, NEW h \in Host, RemoveStale(h) PROVE LockInv'
<1>1. PICK stage \in {"opening", "stopped"} :
        Goto(h, stage) /\ (stage = "opening" => attempt[h] = 0)
  BY DEF RemoveStale
<1>2. /\ pc'[h] = stage /\ pc' \in [Host -> Stage] /\ \A g \in Host \ {h} : pc'[g] = pc[g]
  BY <1>1, StageMoves DEF LockInv, Stage
<1>3. attempt[h] \in 0..1
  BY DEF LockInv, LockTypeOK, TriesLeft, RemoveStale, Ended
<1>4. attempt' \in [Host -> 0..2]
  BY <1>3 DEF LockInv, LockTypeOK, RemoveStale
<1>5. seen' \in [Host -> Host \cup {NoHost}] /\ mishap' \subseteq Mishap
  BY DEF LockInv, LockTypeOK, RemoveStale, Mishap
<1>6. LockTypeOK'
  BY <1>2, <1>4, <1>5 DEF LockInv, LockTypeOK, RemoveStale
<1>7. AliveIffRunning'
  BY <1>2 DEF LockInv, AliveIffRunning, RemoveStale
<1>8. TriesLeft'
  BY <1>1, <1>2 DEF LockInv, LockTypeOK, TriesLeft, Ended, RemoveStale
<1>9. \A g \in Host : (Past(g) => Past(g)') /\ (Owns(g) <=> Owns(g)') /\ (Ended(g) => Ended(g)')
  BY <1>2 DEF RemoveStale, Past, Owns, Ended
<1>10. lock' = NoFile /\ ~NoFile.written
  BY DEF RemoveStale, NoFile
<1>11. \A g \in Host \ {h} : seen'[g] = seen[g]
  BY DEF RemoveStale, LockInv, LockTypeOK
<1>12. RecordsTrue'
  BY <1>2, <1>9, <1>10, <1>11 DEF LockInv, RecordsTrue
<1>13. ASSUME "race" \notin mishap' PROVE "race" \notin mishap /\ lock \in {NoFile, [by |-> seen[h], written |-> TRUE]}
  BY <1>13 DEF RemoveStale
<1>14. ASSUME "race" \notin mishap', NEW g \in Host PROVE pc[g] # "writing" /\ ~Owns(g)
  <2>1. Ended(seen[h])
    BY <1>13, <1>14 DEF LockInv, FileIsOwners, RemoveStale
  <2>2. lock = NoFile \/ lock = [by |-> seen[h], written |-> TRUE]
    BY <1>13, <1>14
  <2>3. NoFile # [by |-> g, written |-> TRUE] /\ NoFile # [by |-> g, written |-> FALSE]
    BY LockAssumption DEF NoFile
  <2>4. [by |-> seen[h], written |-> TRUE] # [by |-> g, written |-> FALSE]
    OBVIOUS
  <2>5. [by |-> seen[h], written |-> TRUE] = [by |-> g, written |-> TRUE] => g = seen[h]
    OBVIOUS
  <2>6. pc[g] = "writing" => lock = [by |-> g, written |-> FALSE]
    BY <1>13, <1>14 DEF LockInv, FileIsOwners
  <2>7. Owns(g) => lock = [by |-> g, written |-> TRUE]
    BY <1>13, <1>14 DEF LockInv, FileIsOwners
  <2>8. Owns(g) => g # seen[h]
    BY <2>1 DEF Owns, Ended
  <2> QED BY <2>2, <2>3, <2>4, <2>5, <2>6, <2>7, <2>8
<1>15. FileIsOwners'
  BY <1>2, <1>9, <1>11, <1>13, <1>14 DEF LockInv, FileIsOwners, RecordsTrue
<1> QED BY <1>6, <1>7, <1>8, <1>12, <1>15 DEF LockInv

LEMMA ReadTokenKeeps == ASSUME LockInv, NEW h \in Host, ReadOwnToken(h) PROVE LockInv'
<1>1. PICK stage \in {"unlinking", "stopped"} : Goto(h, stage)
  BY DEF ReadOwnToken
<1>2. /\ pc'[h] = stage /\ pc' \in [Host -> Stage] /\ \A g \in Host \ {h} : pc'[g] = pc[g]
  BY <1>1, StageMoves DEF LockInv, Stage
<1>3. LockTypeOK'
  BY <1>2 DEF LockInv, LockTypeOK, ReadOwnToken
<1>4. AliveIffRunning' /\ TriesLeft'
  BY <1>2 DEF LockInv, AliveIffRunning, TriesLeft, Ended, ReadOwnToken
<1>5. \A g \in Host : (Past(g) => Past(g)') /\ (Owns(g)' => Owns(g)) /\ (Ended(g) => Ended(g)')
  BY <1>2 DEF ReadOwnToken, Past, Owns, Ended
<1>6. RecordsTrue'
  BY <1>2, <1>5 DEF LockInv, LockTypeOK, LockFile, NoFile, RecordsTrue, ReadOwnToken
<1>7. FileIsOwners'
  BY <1>2, <1>5 DEF LockInv, FileIsOwners, RecordsTrue, ReadOwnToken
<1> QED BY <1>3, <1>4, <1>6, <1>7 DEF LockInv

LEMMA UnlinkKeeps == ASSUME LockInv, NEW h \in Host, UnlinkOwn(h) PROVE LockInv'
<1>1. /\ pc'[h] = "stopped" /\ pc' \in [Host -> Stage] /\ \A g \in Host \ {h} : pc'[g] = pc[g]
  BY StageMoves DEF LockInv, Stage, UnlinkOwn
<1>2. LockTypeOK'
  BY <1>1 DEF LockInv, LockTypeOK, UnlinkOwn, Mishap
<1>3. AliveIffRunning' /\ TriesLeft'
  BY <1>1 DEF LockInv, AliveIffRunning, TriesLeft, Ended, UnlinkOwn
<1>4. \A g \in Host : (Past(g) => Past(g)') /\ (Owns(g)' => Owns(g)) /\ (Ended(g) => Ended(g)')
  BY <1>1 DEF Past, Owns, Ended
<1>5. lock' = NoFile /\ ~NoFile.written
  BY DEF UnlinkOwn, NoFile
<1>6. RecordsTrue'
  BY <1>1, <1>4, <1>5 DEF LockInv, RecordsTrue, UnlinkOwn
<1>7. ASSUME "race" \notin mishap PROVE lock = [by |-> h, written |-> TRUE]
  BY <1>7 DEF LockInv, FileIsOwners, Owns, UnlinkOwn
<1>8. ASSUME "race" \notin mishap, NEW g \in Host \ {h} PROVE pc[g] # "writing" /\ ~Owns(g)
  BY <1>7, <1>8 DEF LockInv, FileIsOwners
<1>9. "race" \notin mishap' => "race" \notin mishap
  BY DEF UnlinkOwn
<1>10. ~Owns(h)'
  BY <1>1 DEF Owns
<1>11. FileIsOwners'
  BY <1>1, <1>4, <1>8, <1>9, <1>10 DEF LockInv, FileIsOwners, RecordsTrue, UnlinkOwn
<1> QED BY <1>2, <1>3, <1>6, <1>11 DEF LockInv

LEMMA CrashKeeps == ASSUME LockInv, NEW h \in Host, Crash(h) PROVE LockInv'
<1>1. /\ pc'[h] = "dead" /\ pc' \in [Host -> Stage] /\ \A g \in Host \ {h} : pc'[g] = pc[g]
  BY StageMoves DEF LockInv, Stage, Crash
<1>2. os' \in [Host -> PidState] /\ os'[h] # "alive" /\ \A g \in Host \ {h} : os'[g] = os[g]
  BY DEF LockInv, LockTypeOK, PidState, Crash
<1>3. attempt' \in [Host -> 0..2] /\ seen' \in [Host -> Host \cup {NoHost}]
  BY DEF LockInv, LockTypeOK, Crash
<1>4. LockTypeOK'
  BY <1>1, <1>2, <1>3 DEF LockInv, LockTypeOK, Crash
<1>5. AliveIffRunning'
  BY <1>1, <1>2 DEF LockInv, AliveIffRunning
<1>6. \A g \in Host \ {h} : attempt'[g] = attempt[g] /\ seen'[g] = seen[g]
  BY DEF LockInv, LockTypeOK, Crash
<1>7. TriesLeft'
  BY <1>1, <1>6 DEF LockInv, TriesLeft, Ended
<1>8. \A g \in Host : (Past(g) => Past(g)') /\ (Owns(g)' => Owns(g)) /\ (Ended(g) => Ended(g)')
  BY <1>1 DEF Past, Owns, Ended
<1>9. RecordsTrue'
  BY <1>1, <1>6, <1>8, RecordsStay DEF LockInv, Past, Ended, Crash
<1>10. FileIsOwners'
  BY <1>1, <1>6, <1>8 DEF LockInv, FileIsOwners, RecordsTrue, Crash
<1> QED BY <1>4, <1>5, <1>7, <1>9, <1>10 DEF LockInv

LEMMA ByHandKeeps == ASSUME LockInv, RemoveByHand PROVE LockInv'
<1>1. \A h \in Host : pc[h] \in {"unborn", "dead"}
  BY DEF LockInv, AliveIffRunning, RemoveByHand
<1>2. lock' = NoFile /\ ~NoFile.written /\ UNCHANGED <<pc, attempt, seen, os, mishap>>
  BY DEF RemoveByHand, NoFile
<1>3. \A h \in Host : (Past(h) <=> Past(h)') /\ (Owns(h) <=> Owns(h)') /\ (Ended(h) <=> Ended(h)')
  BY <1>2 DEF Past, Owns, Ended
<1>4. RecordsTrue' /\ FileIsOwners'
  BY <1>1, <1>2 DEF RecordsTrue, FileIsOwners, Owns
<1> QED BY <1>2, <1>3, <1>4 DEF LockInv, LockTypeOK, AliveIffRunning, TriesLeft, Ended

(* A Host that has the lock goes on without touching it, or none moves.    *)
LEMMA OwnerGoesOn ==
  ASSUME LockInv, NEW h \in Host, UNCHANGED <<lock, attempt, seen, os>>,
         UNCHANGED pc \/ (Owns(h) /\ \E stage \in {"fresh", "up", "committing", "disposing"} : Goto(h, stage)),
         mishap' = mishap \/ \E m \in Mishap \ {"race"} : mishap' = mishap \cup {m}
  PROVE  LockInv'
<1>1. /\ pc' \in [Host -> Stage] /\ \A g \in Host \ {h} : pc'[g] = pc[g]
      /\ \/ pc'[h] = pc[h]
         \/ Owns(h) /\ pc'[h] \in {"fresh", "up", "committing", "disposing"}
  BY StageMoves DEF LockInv, LockTypeOK, Stage
<1>2. pc'[h] = pc[h] \/ (Owns(h) /\ Owns(h)' /\ pc'[h] \notin {"unborn", "writing", "dead", "removing", "judging"})
  BY <1>1 DEF Owns
<1>3. LockTypeOK'
  BY <1>1 DEF LockInv, LockTypeOK
<1>4. AliveIffRunning' /\ TriesLeft'
  BY <1>1, <1>2 DEF LockInv, AliveIffRunning, TriesLeft, Ended, Owns
<1>5. \A g \in Host : (Past(g) <=> Past(g)') /\ (Owns(g) <=> Owns(g)') /\ (Ended(g) <=> Ended(g)')
  BY <1>1, <1>2 DEF Past, Owns, Ended
<1>6. RecordsTrue'
  BY <1>1, <1>2, <1>5, RecordsStay DEF LockInv, Past
<1>7. FileIsOwners'
  BY <1>1, <1>2, <1>5 DEF LockInv, FileIsOwners, RecordsTrue
<1> QED BY <1>3, <1>4, <1>6, <1>7 DEF LockInv

-----------------------------------------------------------------------------
(* The documents                                                           *)

Loaded(h) == pc[h] \in {"fresh", "up", "committing"}

(* A fingerprint is kept of what has taken effect, and of nothing else.    *)
DocOK(doc) ==
  /\ doc \in Document /\ doc.id <= ids /\ doc.tick <= clock /\ Len(doc.recent) <= CacheLimit
  /\ \A i \in 1..Len(doc.recent) : doc.done[doc.recent[i][1]] > 0

(* The request whose commit is under way is the newest in the document.    *)
Pending(h) ==
  \E r \in RequestId :
    request[h] = <<r>> /\ mem[h].recent # <<>> /\ mem[h].recent[Len(mem[h].recent)][1] = r

DocsSound ==
  /\ disk = NoDoc \/ DocOK(disk)
  /\ mem \in [Host -> Document \cup {NoDoc}]
  /\ \A h \in Host : mem[h] = NoDoc \/ (DocOK(mem[h]) /\ mem[h].sound = "yes" /\ mem[h].id > 0)
  /\ \A h \in Host : Loaded(h) => mem[h] # NoDoc
  /\ request \in [Host -> {<<>>} \cup {<<r>> : r \in RequestId}]
  /\ \A h \in Host : pc[h] = "committing" => Pending(h)
  /\ quarantine \subseteq Document
  /\ ids \in 0..MaxIds /\ clock \in 0..MaxTicks /\ damages \in 0..MaxDamage /\ sidecar \in 0..clock
  /\ answered \subseteq (1..MaxIds) \X RequestId
  /\ shown \in [id : 0..ids, rev : Nat]

Once(doc) == \A r \in RequestId : doc.done[r] <= 1 /\ (doc.done[r] > 0 => Cached(doc, r))

(* What the document of a Host has of the file it was loaded from.         *)
Extends(doc) ==
  disk # NoDoc => disk.id \in {0, doc.id} /\ \A r \in RequestId : doc.done[r] >= disk.done[r]
(* What it has told a client, or may, has reached the file.                *)
Flushed(h) ==
  pc[h] # "fresh" =>
    /\ disk # NoDoc /\ disk.id = mem[h].id
    /\ damages = 0 => disk.sound = "yes"
    /\ \A i \in 1..Len(mem[h].recent) :
         (pc[h] = "committing" /\ i = Len(mem[h].recent)) \/ disk.done[mem[h].recent[i][1]] > 0
Abreast(h) ==
  Clean({"failed"}) =>
    /\ pc[h] = "up" => mem[h].rev = disk.rev
    /\ mem[h].id = shown.id => mem[h].rev >= shown.rev
Ticking(doc) ==
  damages = 0 => doc.tick >= sidecar /\ (disk # NoDoc => doc.tick >= disk.tick)

Leads(h) ==
  /\ Extends(mem[h]) /\ Flushed(h) /\ Abreast(h) /\ Ticking(mem[h])
  /\ Clean({"failed", "evicted"}) => Once(mem[h])
MemoryLeads == \A h \in Host : Loaded(h) => Leads(h)

FileKeeps ==
  /\ AcknowledgedKept
  /\ damages = 0 /\ ~(disk # NoDoc /\ disk.sound = "yes") => sidecar = 0
  /\ Clean({"failed"}) /\ disk # NoDoc /\ disk.id = shown.id => disk.rev >= shown.rev
  /\ Clean({"failed", "evicted"}) /\ disk # NoDoc => Once(disk)

StoreInv == DocsSound /\ (InTurn => MemoryLeads /\ FileKeeps)

(* The fingerprints: what adding one, taking one back and trimming keep.   *)
Entry == RequestId \X Fingerprint

Remembered(recent, r, f, new) ==
  /\ new \in Seq(Entry) /\ Len(new) \in 1..CacheLimit /\ new[Len(new)] = <<r, f>>
  /\ \A i \in 1..Len(new) - 1 : \E j \in 1..Len(recent) : new[i] = recent[j]
  /\ Len(recent) < CacheLimit =>
       Len(new) = Len(recent) + 1 /\ \A j \in 1..Len(recent) : new[j] = recent[j]
Forgotten(recent, r, new) ==
  /\ new \in Seq(Entry) /\ Len(new) = Len(recent) - 1
  /\ \E k \in 1..Len(recent) :
       /\ recent[k][1] = r
       /\ \A i \in 1..Len(new) : \E j \in 1..Len(recent) \ {k} : new[i] = recent[j]
       /\ \A j \in 1..Len(recent) \ {k} : \E i \in 1..Len(new) : new[i] = recent[j]

LEMMA RememberSound ==
  ASSUME NEW recent \in Seq(Entry), Len(recent) <= CacheLimit, NEW r \in RequestId, NEW f \in Fingerprint
  PROVE  Remembered(recent, r, f, Remember(recent, r, f))
<1> SUFFICES ASSUME NEW new, new = Remember(recent, r, f)
             PROVE  /\ new \in Seq(Entry) /\ Len(new) \in 1..CacheLimit /\ new[Len(new)] = <<r, f>>
                    /\ \A i \in 1..Len(new) - 1 : \E j \in 1..Len(recent) : new[i] = recent[j]
                    /\ Len(recent) < CacheLimit =>
                         Len(new) = Len(recent) + 1 /\ \A j \in 1..Len(recent) : new[j] = recent[j]
  BY DEF Remembered
<1> DEFINE longer == Append(recent, <<r, f>>)
<1>1. <<r, f>> \in Entry /\ CacheLimit \in Nat \ {0}
  BY StoreAssumption DEF Entry
<1>2. /\ longer \in Seq(Entry) /\ longer # <<>> /\ Len(longer) = Len(recent) + 1
      /\ \A i \in 1..Len(recent) : longer[i] = recent[i]
      /\ longer[Len(recent) + 1] = <<r, f>>
  BY <1>1, AppendProperties
<1>3. Len(recent) \in Nat
  BY LenProperties
<1> HIDE DEF longer
<1>4. CASE Len(longer) > CacheLimit
  <2>1. new = Tail(longer)
    BY <1>4 DEF Remember, longer
  <2>2. /\ Tail(longer) \in Seq(Entry) /\ Len(Tail(longer)) = Len(longer) - 1
        /\ \A i \in 1..Len(Tail(longer)) : Tail(longer)[i] = longer[i + 1]
    BY <1>2, HeadTailProperties
  <2>3. Len(recent) = CacheLimit /\ Len(new) = CacheLimit
    BY <1>1, <1>2, <1>3, <1>4, <2>1, <2>2
  <2>4. new[CacheLimit] = <<r, f>>
    <3>1. CacheLimit \in 1..Len(Tail(longer))
      BY <1>1, <2>1, <2>3
    <3>2. new[CacheLimit] = longer[CacheLimit + 1]
      BY <2>1, <2>2, <3>1
    <3> QED BY <1>2, <2>3, <3>2
  <2>5. ASSUME NEW i \in 1..Len(new) - 1 PROVE \E j \in 1..Len(recent) : new[i] = recent[j]
    <3>1. i \in 1..Len(Tail(longer)) /\ i + 1 \in 1..Len(recent)
      BY <1>1, <2>1, <2>3
    <3>2. new[i] = longer[i + 1] /\ longer[i + 1] = recent[i + 1]
      BY <1>2, <2>1, <2>2, <3>1
    <3> QED BY <3>1, <3>2
  <2>6. new \in Seq(Entry) /\ Len(new) \in 1..CacheLimit /\ new[Len(new)] = <<r, f>>
    BY <1>1, <2>1, <2>2, <2>3, <2>4
  <2>7. ~(Len(recent) < CacheLimit)
    BY <1>1, <2>3
  <2> QED BY <2>5, <2>6, <2>7
<1>5. CASE Len(longer) =< CacheLimit
  <2>1. new = longer
    BY <1>1, <1>2, <1>3, <1>5 DEF Remember, longer
  <2>2. Len(new) \in 1..CacheLimit /\ new \in Seq(Entry) /\ new[Len(new)] = <<r, f>>
    BY <1>1, <1>2, <1>3, <1>5, <2>1
  <2>3. Len(new) = Len(recent) + 1 /\ Len(new) - 1 = Len(recent) /\ \A j \in 1..Len(recent) : new[j] = recent[j]
    BY <1>2, <1>3, <2>1
  <2>4. \A i \in 1..Len(new) - 1 : \E j \in 1..Len(recent) : new[i] = recent[j]
    BY <1>3, <2>3
  <2> QED BY <2>2, <2>3, <2>4
<1>6. Len(longer) > CacheLimit \/ Len(longer) =< CacheLimit
  BY <1>1, <1>2, <1>3
<1> QED BY <1>4, <1>5, <1>6

LEMMA ForgetSound ==
  ASSUME NEW recent \in Seq(Entry), NEW r, \E i \in 1..Len(recent) : recent[i][1] = r
  PROVE  Forgotten(recent, r, Forget(recent, r))
<1> SUFFICES ASSUME NEW new, new = Forget(recent, r)
             PROVE  Forgotten(recent, r, new)
  OBVIOUS
<1> DEFINE k == CHOOSE i \in 1..Len(recent) : recent[i][1] = r
           n == Len(recent)
           before == SubSeq(recent, 1, k - 1)
           after == SubSeq(recent, k + 1, n)
<1>1. k \in 1..n /\ recent[k][1] = r
  OBVIOUS
<1>2. n \in Nat /\ \A i \in 1..n : recent[i] \in Entry
  BY LenProperties, ElementOfSeq
<1>6. new = before \o after
  BY DEF Forget, RemoveAt
<1> HIDE DEF k
<1>3. /\ before \in Seq(Entry) /\ Len(before) = k - 1 /\ \A i \in 1..k - 1 : before[i] = recent[i]
  <2>1. \A i \in 1..k - 1 : recent[i] \in Entry
    BY <1>1, <1>2
  <2>2. 1 \in Int /\ k - 1 \in Int /\ (1 =< k - 1 \/ k - 1 = 0)
    BY <1>1, <1>2
  <2> QED BY <1>1, <1>2, <2>1, <2>2, SubSeqProperties
<1>4. /\ after \in Seq(Entry) /\ Len(after) = n - k /\ \A i \in 1..n - k : after[i] = recent[k + i]
  <2>1. \A i \in k + 1..n : recent[i] \in Entry
    BY <1>1, <1>2
  <2>2. k + 1 \in Int /\ n \in Int
    BY <1>1, <1>2
  <2>3. /\ after \in Seq(Entry)
        /\ Len(after) = IF k + 1 <= n THEN n - (k + 1) + 1 ELSE 0
        /\ \A i \in 1..n - (k + 1) + 1 : after[i] = recent[k + 1 + i - 1]
    BY <2>1, <2>2, SubSeqProperties
  <2> QED BY <1>1, <1>2, <2>3
<1> HIDE DEF before, after
<1>5. /\ new \in Seq(Entry) /\ Len(new) = n - 1
      /\ \A i \in 1..n - 1 : new[i] = IF i < k THEN recent[i] ELSE recent[i + 1]
  <2>1. /\ Len(new) = Len(before) + Len(after) /\ new \in Seq(Entry)
        /\ \A i \in 1..Len(before) + Len(after) :
             new[i] = IF i =< Len(before) THEN before[i] ELSE after[i - Len(before)]
    BY <1>3, <1>4, <1>6, ConcatProperties
  <2>2. ASSUME NEW i \in 1..n - 1 PROVE new[i] = IF i < k THEN recent[i] ELSE recent[i + 1]
    <3>1. i \in 1..Len(before) + Len(after)
      BY <1>1, <1>2, <1>3, <1>4
    <3>2. new[i] = IF i =< Len(before) THEN before[i] ELSE after[i - Len(before)]
      BY <2>1, <3>1
    <3>3. CASE i < k
      <4>1. i \in 1..k - 1 /\ i =< Len(before)
        BY <1>1, <1>2, <1>3, <3>3
      <4> QED BY <1>3, <3>2, <3>3, <4>1
    <3>4. CASE ~(i < k)
      <4>1. i - (k - 1) \in 1..n - k /\ k + (i - (k - 1)) = i + 1 /\ ~(i =< k - 1)
        BY <1>1, <1>2, <3>4
      <4>2. after[i - (k - 1)] = recent[i + 1]
        BY <1>4, <4>1
      <4> QED BY <1>3, <3>2, <3>4, <4>1, <4>2
    <3> QED BY <3>3, <3>4
  <2> QED BY <1>1, <1>2, <1>3, <1>4, <2>1, <2>2
<1> HIDE DEF n
<1>7. ASSUME NEW i \in 1..Len(new) PROVE \E j \in 1..n \ {k} : new[i] = recent[j]
  <2>1. CASE i < k
    <3>1. i \in 1..n \ {k} /\ new[i] = recent[i]
      BY <1>1, <1>2, <1>5, <2>1
    <3> QED BY <3>1
  <2>2. CASE ~(i < k)
    <3>1. i + 1 \in 1..n \ {k} /\ new[i] = recent[i + 1]
      BY <1>1, <1>2, <1>5, <2>2
    <3> QED BY <3>1
  <2> QED BY <2>1, <2>2
<1>8. ASSUME NEW j \in 1..n \ {k} PROVE \E i \in 1..Len(new) : new[i] = recent[j]
  <2>1. CASE j < k
    <3>1. j \in 1..Len(new) /\ new[j] = recent[j]
      BY <1>1, <1>2, <1>5, <2>1
    <3> QED BY <3>1
  <2>2. CASE ~(j < k)
    <3>1. j - 1 \in 1..Len(new) /\ new[j - 1] = recent[j]
      BY <1>1, <1>2, <1>5, <2>2
    <3> QED BY <3>1
  <2> QED BY <2>1, <2>2
<1> QED BY <1>1, <1>5, <1>7, <1>8 DEF n, Forgotten

LEMMA LastOfSound ==
  ASSUME NEW recent \in Seq(Entry)
  PROVE  /\ LastOf(recent) \in Seq(Entry) /\ Len(LastOf(recent)) <= CacheLimit
         /\ Len(recent) <= CacheLimit => LastOf(recent) = recent
<1>1. CacheLimit \in Nat \ {0} /\ Len(recent) \in Nat /\ \A i \in 1..Len(recent) : recent[i] \in Entry
  BY StoreAssumption, LenProperties, ElementOfSeq
<1>2. CASE Len(recent) <= CacheLimit
  BY <1>2 DEF LastOf
<1>3. CASE ~(Len(recent) <= CacheLimit)
  <2> DEFINE m == Len(recent) - CacheLimit + 1
  <2>1. LastOf(recent) = SubSeq(recent, m, Len(recent))
    BY <1>3 DEF LastOf
  <2>2. m \in Int /\ Len(recent) \in Int /\ m <= Len(recent) /\ Len(recent) - m + 1 = CacheLimit
        /\ \A i \in m..Len(recent) : recent[i] \in Entry
    BY <1>1, <1>3
  <2>3. SubSeq(recent, m, Len(recent)) \in Seq(Entry) /\ Len(SubSeq(recent, m, Len(recent))) = CacheLimit
    BY <2>2, SubSeqProperties
  <2> QED BY <1>1, <1>3, <2>1, <2>3
<1> QED BY <1>2, <1>3

LEMMA IsNoDocument == \A doc \in Document : doc # NoDoc /\ doc.recent \in Seq(Entry)
BY DEF Document, NoDoc, Entry

LEMMA MishapsStay ==
  ASSUME mishap \subseteq mishap'
  PROVE  /\ InTurn' => InTurn
         /\ Clean({"failed"})' => Clean({"failed"})
         /\ Clean({"failed", "evicted"})' => Clean({"failed", "evicted"})
BY DEF InTurn, Clean

LEMMA Alone ==
  ASSUME LockInv, InTurn, NEW h \in Host, Owns(h)
  PROVE  \A g \in Host : Loaded(g) => g = h
BY LockInvOneOwner DEF InTurn, Clean, OneOwner, Loaded, Owns

(* A step of one Host: what the others have is as it was.                  *)
LEMMA DocsStay ==
  ASSUME DocsSound, NEW h \in Host,
         mem' \in [Host -> Document \cup {NoDoc}],
         request' \in [Host -> {<<>>} \cup {<<r>> : r \in RequestId}],
         \A g \in Host \ {h} : pc'[g] = pc[g] /\ mem'[g] = mem[g] /\ request'[g] = request[g],
         ids' \in ids..MaxIds, clock' \in clock..MaxTicks, damages' \in 0..MaxDamage, sidecar' \in 0..clock',
         quarantine' \subseteq Document, answered' \subseteq (1..MaxIds) \X RequestId,
         shown' \in [id : 0..ids', rev : Nat],
         disk' = NoDoc \/ DocOK(disk)',
         mem'[h] = NoDoc \/ (DocOK(mem[h])' /\ mem'[h].sound = "yes" /\ mem'[h].id > 0),
         Loaded(h)' => mem'[h] # NoDoc, pc'[h] = "committing" => Pending(h)'
  PROVE  DocsSound'
<1>1. ASSUME NEW g \in Host \ {h}, mem[g] # NoDoc
      PROVE  DocOK(mem[g])' /\ mem'[g].sound = "yes" /\ mem'[g].id > 0
  <2>1. mem'[g] = mem[g] /\ DocOK(mem[g]) /\ mem[g].sound = "yes" /\ mem[g].id > 0
    BY <1>1 DEF DocsSound
  <2>2. mem[g].id \in Nat /\ mem[g].tick \in Nat
    <3>1. mem[g] \in Document
      BY <2>1 DEF DocOK
    <3> QED BY <3>1 DEF Document
  <2>3. ids \in 0..MaxIds /\ clock \in 0..MaxTicks /\ MaxIds \in Nat /\ MaxTicks \in Nat
    BY StoreAssumption DEF DocsSound
  <2>4. ids \in Nat /\ clock \in Nat /\ ids' \in Nat /\ clock' \in Nat /\ ids' >= ids /\ clock' >= clock
    BY <2>3
  <2>5. /\ mem[g] \in Document /\ mem[g].id <= ids /\ mem[g].tick <= clock /\ Len(mem[g].recent) <= CacheLimit
        /\ \A i \in 1..Len(mem[g].recent) : mem[g].done[mem[g].recent[i][1]] > 0
    BY <2>1 DEF DocOK
  <2>6. mem[g].id <= ids' /\ mem[g].tick <= clock'
    <3> DEFINE id == mem[g].id
               tick == mem[g].tick
    <3>1. id \in Nat /\ tick \in Nat /\ id <= ids /\ tick <= clock
      BY <2>2, <2>5
    <3> HIDE DEF id, tick
    <3>2. id <= ids' /\ tick <= clock'
      BY <2>4, <3>1
    <3> QED BY <3>2 DEF id, tick
  <2>7. DocOK(mem[g])'
    <3> DEFINE doc == mem'[g]
    <3>1. /\ doc \in Document /\ doc.id <= ids' /\ doc.tick <= clock' /\ Len(doc.recent) <= CacheLimit
          /\ \A i \in 1..Len(doc.recent) : doc.done[doc.recent[i][1]] > 0
      BY <2>1, <2>5, <2>6
    <3> HIDE DEF doc
    <3> QED BY <3>1 DEF DocOK, doc
  <2> QED BY <2>1, <2>7
<1>2. \A g \in Host : Loaded(g)' => mem'[g] # NoDoc
  BY DEF DocsSound, Loaded
<1>3. \A g \in Host : pc'[g] = "committing" => Pending(g)'
  <2>1. ASSUME NEW g \in Host \ {h}, pc'[g] = "committing" PROVE Pending(g)'
    <3>1. Pending(g) /\ mem'[g] = mem[g] /\ request'[g] = request[g]
      BY <2>1 DEF DocsSound
    <3> QED BY <3>1 DEF Pending
  <2> QED BY <2>1
<1>4. ids' \in 0..MaxIds /\ clock' \in 0..MaxTicks
  BY StoreAssumption DEF DocsSound
<1>5. \A g \in Host : mem'[g] = NoDoc \/ (DocOK(mem[g])' /\ mem'[g].sound = "yes" /\ mem'[g].id > 0)
  BY <1>1
<1> QED BY <1>2, <1>3, <1>4, <1>5 DEF DocsSound

LEMMA FileStays ==
  ASSUME FileKeeps, mishap \subseteq mishap', InTurn',
         UNCHANGED <<disk, quarantine, answered, damages, sidecar, shown>>
  PROVE  FileKeeps'
<1>1. InTurn /\ (Clean({"failed"})' => Clean({"failed"})) /\ (Clean({"failed", "evicted"})' => Clean({"failed", "evicted"}))
  BY MishapsStay
<1>2. AcknowledgedKept'
  BY <1>1 DEF FileKeeps, AcknowledgedKept
<1>3. Once(disk) => Once(disk)'
  BY DEF Once, Cached
<1> QED BY <1>1, <1>2, <1>3 DEF FileKeeps

LEMMA OthersLead ==
  ASSUME MemoryLeads, mishap \subseteq mishap', UNCHANGED <<disk, damages, sidecar, shown>>,
         NEW g \in Host, Loaded(g)', pc'[g] = pc[g], mem'[g] = mem[g]
  PROVE  Leads(g)'
<1>1. Leads(g)
  BY DEF MemoryLeads, Loaded
<1>2. (Clean({"failed"})' => Clean({"failed"})) /\ (Clean({"failed", "evicted"})' => Clean({"failed", "evicted"}))
  BY MishapsStay
<1>3. Extends(mem[g])' /\ Ticking(mem[g])'
  BY <1>1 DEF Leads, Extends, Ticking
<1>4. Flushed(g)'
  BY <1>1 DEF Leads, Flushed
<1>5. Abreast(g)'
  BY <1>1, <1>2 DEF Leads, Abreast
<1>6. Once(mem[g]) => Once(mem[g])'
  BY DEF Once, Cached
<1> QED BY <1>1, <1>2, <1>3, <1>4, <1>5, <1>6 DEF Leads

(* The owner's step: only its own document and the file are in question.   *)
LEMMA OwnersStep ==
  ASSUME LockInv, StoreInv, NEW h \in Host, Owns(h), \A g \in Host \ {h} : pc'[g] = pc[g],
         mishap \subseteq mishap', DocsSound', InTurn' => (Loaded(h)' => Leads(h)') /\ FileKeeps'
  PROVE  StoreInv'
<1> SUFFICES ASSUME InTurn' PROVE MemoryLeads'
  BY DEF StoreInv
<1>1. \A g \in Host : Loaded(g) => g = h
  BY Alone, MishapsStay
<1> QED BY <1>1 DEF MemoryLeads, Loaded

(* Nothing of the store moves.                                             *)
LEMMA QuietKeeps ==
  ASSUME StoreInv, UNCHANGED storeVars, mishap \subseteq mishap',
         \A g \in Host : Loaded(g)' => pc'[g] = pc[g]
  PROVE  StoreInv'
<1>1. DocsSound'
  <2>1. \A g \in Host : (Loaded(g)' => Loaded(g)) /\ (pc'[g] = "committing" => pc[g] = "committing")
    BY DEF Loaded
  <2> QED BY <2>1 DEF StoreInv, DocsSound, DocOK, Pending, storeVars
<1>2. ASSUME InTurn' PROVE MemoryLeads' /\ FileKeeps'
  <2>1. MemoryLeads /\ FileKeeps
    BY <1>2, MishapsStay DEF StoreInv
  <2>2. FileKeeps'
    BY <1>2, <2>1, FileStays DEF storeVars
  <2>3. MemoryLeads'
    BY <2>1, OthersLead DEF storeVars, MemoryLeads
  <2> QED BY <2>2, <2>3
<1> QED BY <1>1, <1>2 DEF StoreInv

(* The document of a Host is gone: its process ended, or was not started.  *)
LEMMA ForgottenKeeps ==
  ASSUME StoreInv, NEW h \in Host, mem' = [mem EXCEPT ![h] = NoDoc],
         request' = request \/ request' = [request EXCEPT ![h] = <<>>],
         UNCHANGED <<disk, sidecar, quarantine, ids, clock, damages, answered, shown, mishap>>,
         ~Loaded(h)', \A g \in Host \ {h} : pc'[g] = pc[g]
  PROVE  StoreInv'
<1>1. /\ mem' \in [Host -> Document \cup {NoDoc}] /\ mem'[h] = NoDoc
      /\ \A g \in Host \ {h} : mem'[g] = mem[g] /\ request'[g] = request[g]
      /\ request' \in [Host -> {<<>>} \cup {<<r>> : r \in RequestId}]
  BY DEF StoreInv, DocsSound
<1>2. DocsSound'
  <2>1. ids' \in ids..MaxIds /\ clock' \in clock..MaxTicks
    BY StoreAssumption DEF StoreInv, DocsSound
  <2>2. disk' = NoDoc \/ DocOK(disk)'
    BY DEF StoreInv, DocsSound, DocOK
  <2>3. pc'[h] # "committing"
    BY DEF Loaded
  <2>4. /\ damages' \in 0..MaxDamage /\ sidecar' \in 0..clock' /\ quarantine' \subseteq Document
        /\ answered' \subseteq (1..MaxIds) \X RequestId /\ shown' \in [id : 0..ids', rev : Nat]
    BY DEF StoreInv, DocsSound
  <2> QED BY <1>1, <2>1, <2>2, <2>3, <2>4, DocsStay DEF StoreInv
<1>3. ASSUME InTurn' PROVE MemoryLeads' /\ FileKeeps'
  <2>1. MemoryLeads /\ FileKeeps
    BY <1>3, MishapsStay DEF StoreInv
  <2>2. FileKeeps'
    BY <1>3, <2>1, FileStays
  <2>3. ASSUME NEW g \in Host, Loaded(g)' PROVE Leads(g)'
    BY <1>1, <2>1, <2>3, OthersLead
  <2> QED BY <2>2, <2>3 DEF MemoryLeads
<1> QED BY <1>2, <1>3 DEF StoreInv

-----------------------------------------------------------------------------
(* The steps of the owner                                                  *)

LEMMA LoadedDocument ==
  ASSUME StoreInv, NEW h \in Host, Loaded(h)
  PROVE  /\ Owns(h) /\ mem[h] # NoDoc /\ DocOK(mem[h]) /\ mem[h] \in Document
         /\ mem[h].sound = "yes" /\ mem[h].id \in 1..ids /\ ids \in Nat /\ MaxIds \in Nat
         /\ mem[h].recent \in Seq(Entry) /\ Len(mem[h].recent) \in 0..CacheLimit
         /\ mem[h].done \in [RequestId -> Nat] /\ mem[h].rev \in Nat
         /\ mem[h].tick \in 0..clock /\ clock \in Nat
         /\ \A i \in 1..Len(mem[h].recent) : mem[h].recent[i] \in Entry /\ mem[h].recent[i][1] \in RequestId
<1>1. mem[h] # NoDoc /\ DocOK(mem[h]) /\ mem[h].sound = "yes" /\ mem[h].id > 0 /\ Owns(h)
  BY DEF StoreInv, DocsSound, Loaded, Owns
<1>2. ids \in Nat /\ clock \in Nat /\ MaxIds \in Nat /\ CacheLimit \in Nat
  BY StoreAssumption DEF StoreInv, DocsSound
<1>3. mem[h] \in Document /\ mem[h].recent \in Seq(Entry)
  BY <1>1, IsNoDocument DEF DocOK
<1>4. Len(mem[h].recent) \in Nat /\ \A i \in 1..Len(mem[h].recent) : mem[h].recent[i] \in Entry
  BY <1>3, LenProperties, ElementOfSeq
<1>5. \A e \in Entry : e[1] \in RequestId
  BY DEF Entry
<1>6. mem[h].id \in 0..MaxIds /\ mem[h].tick \in 0..MaxTicks /\ mem[h].rev \in Nat /\ mem[h].done \in [RequestId -> Nat]
  BY <1>3 DEF Document
<1>7. mem[h].id <= ids /\ mem[h].tick <= clock /\ Len(mem[h].recent) <= CacheLimit
  BY <1>1 DEF DocOK
<1> QED BY <1>1, <1>2, <1>3, <1>4, <1>5, <1>6, <1>7

(* The document of the owner has all that the file it replaces had.        *)
LEMMA OverwriteKeeps ==
  ASSUME StoreInv, InTurn, NEW h \in Host, Loaded(h), Leads(h), FileKeeps,
         NEW id \in 0..MaxIds, NEW r \in RequestId, <<id, r>> \in answered
  PROVE  \E doc \in quarantine \cup {mem[h]} : doc # NoDoc /\ doc.id = id /\ doc.done[r] > 0
<1>1. PICK doc \in quarantine \cup {disk} : doc # NoDoc /\ doc.id = id /\ doc.done[r] > 0
  BY DEF FileKeeps, AcknowledgedKept
<1>2. id \in 1..MaxIds
  BY DEF StoreInv, DocsSound
<1>3. CASE doc = disk
  <2>1. disk.id \in {0, mem[h].id} /\ mem[h].done[r] >= disk.done[r]
    BY <1>1, <1>3 DEF Leads, Extends
  <2>2. disk.done[r] \in Nat
    BY <1>1, <1>3 DEF StoreInv, DocsSound, DocOK, Document
  <2>3. mem[h].id = id /\ mem[h].done[r] > 0
    BY <1>1, <1>2, <1>3, <2>1, <2>2, LoadedDocument
  <2> QED BY <2>3, LoadedDocument
<1> QED BY <1>1, <1>3

LEMMA FirstCommitKeeps ==
  ASSUME LockInv, StoreInv, NEW h \in Host, FirstCommit(h)
  PROVE  StoreInv'
<1>1. Owns(h) /\ Loaded(h) /\ mem[h] # NoDoc /\ pc[h] = "fresh"
  BY DEF FirstCommit, Owns, Loaded, StoreInv, DocsSound
<1>2. DocOK(mem[h]) /\ mem[h].sound = "yes" /\ mem[h].id > 0
  BY <1>1, LoadedDocument
<1>3. disk' = mem[h] /\ disk' # NoDoc /\ mem' = mem /\ mishap' = mishap
  BY <1>1 DEF FirstCommit
<1>4. pc'[h] = "up" /\ \A g \in Host \ {h} : pc'[g] = pc[g]
  BY StageMoves DEF FirstCommit, LockInv, Stage
<1>5. DocsSound'
  <2>1. ids' \in ids..MaxIds /\ clock' \in clock..MaxTicks
    BY StoreAssumption DEF StoreInv, DocsSound, FirstCommit
  <2>2. DocOK(disk)' /\ DocOK(mem[h])'
    BY <1>2, <1>3 DEF DocOK, FirstCommit
  <2>3. /\ mem' \in [Host -> Document \cup {NoDoc}] /\ request' \in [Host -> {<<>>} \cup {<<r>> : r \in RequestId}]
        /\ \A g \in Host \ {h} : mem'[g] = mem[g] /\ request'[g] = request[g]
        /\ damages' \in 0..MaxDamage /\ sidecar' \in 0..clock' /\ quarantine' \subseteq Document
        /\ answered' \subseteq (1..MaxIds) \X RequestId /\ shown' \in [id : 0..ids', rev : Nat]
    BY DEF StoreInv, DocsSound, FirstCommit
  <2> QED BY <1>1, <1>2, <1>3, <1>4, <2>1, <2>2, <2>3, DocsStay DEF StoreInv
<1>6. ASSUME InTurn' PROVE Leads(h)' /\ FileKeeps'
  <2>1. MemoryLeads /\ FileKeeps /\ Leads(h)
    BY <1>1, <1>6, MishapsStay DEF StoreInv, MemoryLeads, FirstCommit
  <2>2. mem[h] \in Document /\ \A r \in RequestId : mem[h].done[r] \in Nat
    BY <1>2 DEF DocOK, Document
  <2>3. Extends(mem[h])'
    BY <1>3, <2>2 DEF Extends
  <2>4. Flushed(h)'
    BY <1>2, <1>3 DEF Flushed, DocOK
  <2>5. Abreast(h)'
    BY <1>3, <1>4, <2>1 DEF Leads, Abreast, FirstCommit, Clean
  <2>6. Ticking(mem[h])'
    BY <1>3, <2>1, <2>2 DEF Leads, Ticking, FirstCommit, Document
  <2>7. Clean({"failed", "evicted"})' => Once(mem[h])' /\ Once(disk)'
    BY <1>3, <2>1 DEF Leads, Once, Cached, Clean
  <2>8. AcknowledgedKept'
    BY <1>1, <1>3, <1>6, <2>1, OverwriteKeeps, MishapsStay DEF AcknowledgedKept, FirstCommit
  <2>9. FileKeeps'
    BY <1>2, <1>3, <2>1, <2>5, <2>7, <2>8 DEF FileKeeps, Leads, Abreast, FirstCommit, Clean
  <2> QED BY <2>3, <2>4, <2>5, <2>6, <2>7, <2>9 DEF Leads
<1> QED BY <1>1, <1>3, <1>4, <1>5, <1>6, OwnersStep

(* A Host reads the file, or sets it aside and begins another ledger.      *)
LEMMA LoadKeeps ==
  ASSUME LockInv, StoreInv, NEW h \in Host, Load(h)
  PROVE  StoreInv'
<1>1. Owns(h) /\ pc[h] = "loading" /\ mishap' = mishap
  BY DEF Load, Owns
<1>2. /\ pc'[h] = "fresh" /\ \A g \in Host \ {h} : pc'[g] = pc[g]
      /\ UNCHANGED <<sidecar, request, clock, damages, answered, shown>>
  BY StageMoves DEF Load, LockInv, Stage
<1>3. /\ ids \in Nat /\ MaxIds \in Nat /\ clock \in Nat /\ sidecar \in Nat /\ sidecar <= clock
      /\ shown.id \in 0..ids /\ ids <= MaxIds
  BY StoreAssumption DEF StoreInv, DocsSound
<1>4. /\ request' \in [Host -> {<<>>} \cup {<<r>> : r \in RequestId}]
      /\ damages' \in 0..MaxDamage /\ sidecar' \in 0..clock' /\ clock' \in clock..MaxTicks
      /\ answered' \subseteq (1..MaxIds) \X RequestId /\ pc'[h] # "committing"
      /\ \A g \in Host \ {h} : request'[g] = request[g]
  BY <1>2, StoreAssumption DEF StoreInv, DocsSound
<1>5. InTurn' => InTurn /\ MemoryLeads /\ FileKeeps
  BY <1>1, MishapsStay DEF StoreInv
<1>6. CASE disk = NoDoc \/ Unreadable
  <2> DEFINE doc == EmptyDoc(FreshId)
  <2>1. /\ mem' = [mem EXCEPT ![h] = doc] /\ ids' = ids + 1 /\ ids + 1 <= MaxIds /\ disk' = NoDoc
        /\ quarantine' = IF Unreadable THEN quarantine \cup {disk} ELSE quarantine
    BY <1>6 DEF Load, FreshId
  <2>2. /\ doc.ver = 4 /\ doc.sound = "yes" /\ doc.id = ids + 1 /\ doc.rev = 0 /\ doc.recent = <<>> /\ doc.tick = 0
        /\ doc.done = [r \in RequestId |-> 0]
    BY DEF EmptyDoc, FreshId, NoEffects
  <2>3. doc \in Document
    BY <1>3, <2>1, StoreAssumption DEF EmptyDoc, FreshId, NoEffects, Document
  <2> HIDE DEF doc
  <2>4. Len(doc.recent) = 0
    BY <2>2
  <2>5. /\ mem' \in [Host -> Document \cup {NoDoc}] /\ mem'[h] = doc /\ doc # NoDoc
        /\ \A g \in Host \ {h} : mem'[g] = mem[g]
    BY <2>1, <2>3, IsNoDocument DEF StoreInv, DocsSound
  <2>6. DocOK(mem[h])' /\ mem'[h].sound = "yes" /\ mem'[h].id > 0
    BY <1>2, <1>3, <2>1, <2>2, <2>3, <2>4, <2>5, StoreAssumption DEF DocOK
  <2>7. quarantine' \subseteq Document /\ ids' \in ids..MaxIds /\ shown' \in [id : 0..ids', rev : Nat]
    <3>1. Unreadable => disk \in Document
      BY DEF Unreadable, StoreInv, DocsSound, DocOK
    <3>2. shown \in [id : 0..ids, rev : Nat] /\ 0..ids \subseteq 0..ids'
      BY <1>3, <2>1 DEF StoreInv, DocsSound
    <3> QED BY <1>2, <1>3, <2>1, <3>1, <3>2 DEF StoreInv, DocsSound
  <2>8. DocsSound'
    BY <1>2, <1>4, <2>1, <2>5, <2>6, <2>7, DocsStay DEF StoreInv
  <2>9. ASSUME InTurn' PROVE Leads(h)' /\ FileKeeps'
    <3>1. Extends(mem[h])' /\ Flushed(h)'
      BY <1>2, <2>1 DEF Extends, Flushed
    <3>2. damages = 0 => sidecar = 0
      BY <1>5, <1>6, <2>9 DEF FileKeeps, Unreadable
    <3>3. Ticking(mem[h])'
      BY <1>2, <2>1, <2>2, <2>5, <3>2 DEF Ticking
    <3>4. Abreast(h)'
      BY <1>2, <1>3, <2>2, <2>5 DEF Abreast
    <3>5. Once(mem[h])'
      BY <2>2, <2>5 DEF Once
    <3>6. AcknowledgedKept'
      <4> SUFFICES ASSUME NEW id \in 0..MaxIds, NEW r \in RequestId, <<id, r>> \in answered
                   PROVE  \E d \in quarantine' \cup {disk'} : d # NoDoc /\ d.id = id /\ d.done[r] > 0
        BY <1>2 DEF AcknowledgedKept
      <4>1. PICK d \in quarantine \cup {disk} : d # NoDoc /\ d.id = id /\ d.done[r] > 0
        BY <1>5, <2>9, MishapsStay DEF FileKeeps, AcknowledgedKept
      <4>2. d \in quarantine'
        BY <1>6, <2>1, <4>1
      <4> QED BY <4>1, <4>2
    <3> QED BY <1>2, <2>1, <3>1, <3>2, <3>3, <3>4, <3>5, <3>6 DEF Leads, FileKeeps
  <2> QED BY <1>1, <1>2, <2>8, <2>9, OwnersStep
<1>7. CASE disk # NoDoc /\ ~Unreadable
  <2>1. PICK repairs \in 0..1 : mem' = [mem EXCEPT ![h] = [Normalized(disk) EXCEPT !.rev = @ + repairs]]
    BY <1>7 DEF Load
  <2> DEFINE doc == [Normalized(disk) EXCEPT !.rev = @ + repairs]
  <2>2. DocOK(disk) /\ disk \in Document /\ disk.sound = "yes" /\ disk.recent \in Seq(Entry)
    BY <1>7, IsNoDocument DEF Load, StoreInv, DocsSound, DocOK
  <2>3. disk.id \in 0..MaxIds /\ disk.tick \in 0..MaxTicks /\ disk.rev \in Nat /\ disk.done \in [RequestId -> Nat]
    BY <2>2 DEF Document
  <2>4. /\ ids' = IF disk.id = 0 THEN ids + 1 ELSE ids
        /\ disk.id = 0 => ids + 1 <= MaxIds
        /\ UNCHANGED <<disk, quarantine>>
    BY <1>7 DEF Load, FreshId
  <2>5. Len(disk.recent) <= CacheLimit /\ disk.id <= ids /\ disk.tick <= clock
    BY <2>2 DEF DocOK
  <2>6. LastOf(disk.recent) = disk.recent
    BY <2>2, <2>5, LastOfSound
  <2>7. /\ doc.sound = "yes" /\ doc.done = disk.done /\ doc.recent = disk.recent
        /\ doc.rev = disk.rev + repairs
        /\ doc.id = IF disk.id = 0 THEN ids + 1 ELSE disk.id
        /\ doc.tick = IF disk.tick >= sidecar THEN disk.tick ELSE sidecar
    BY <2>2, <2>6 DEF Normalized, FreshId, Document
  <2>8. doc \in Document
    <3>1. sidecar \in 0..MaxTicks
      BY <1>3, <1>4, StoreAssumption DEF StoreInv, DocsSound
    <3>2. (IF disk.tick >= sidecar THEN disk.tick ELSE sidecar) \in 0..MaxTicks
      BY <2>3, <3>1
    <3>3. (IF disk.id = 0 THEN ids + 1 ELSE disk.id) \in 0..MaxIds
      BY <1>3, <2>3, <2>4
    <3>4. disk.rev + repairs \in Nat
      BY <2>3
    <3> DEFINE new == Normalized(disk)
    <3>5. new.rev = disk.rev
      BY <2>2 DEF Normalized, Document
    <3>6. new \in Document
      <4> DEFINE tick == IF disk.tick >= sidecar THEN disk.tick ELSE sidecar
                 id == IF disk.id = 0 THEN ids + 1 ELSE disk.id
      <4>1. tick \in 0..MaxTicks /\ id \in 0..MaxIds /\ disk.recent \in Seq(RequestId \X Fingerprint)
        BY <2>2, <3>2, <3>3 DEF Entry
      <4>2. new = [disk EXCEPT !.ver = 4, !.id = id, !.tick = tick, !.recent = disk.recent]
        BY <2>6 DEF Normalized, FreshId
      <4> HIDE DEF new, tick, id
      <4>3. [disk EXCEPT !.ver = 4] \in Document
        BY <2>2 DEF Document
      <4>4. [disk EXCEPT !.ver = 4, !.id = id] \in Document
        BY <4>1, <4>3 DEF Document
      <4>5. [disk EXCEPT !.ver = 4, !.id = id, !.tick = tick] \in Document
        BY <4>1, <4>4 DEF Document
      <4>6. [disk EXCEPT !.ver = 4, !.id = id, !.tick = tick, !.recent = disk.recent] \in Document
        BY <4>1, <4>5 DEF Document
      <4> QED BY <4>2, <4>6
    <3> HIDE DEF new
    <3>7. [new EXCEPT !.rev = @ + repairs] \in Document
      BY <2>3, <3>4, <3>5, <3>6 DEF Document
    <3> QED BY <3>7 DEF new
  <2> HIDE DEF doc
  <2>9. /\ mem' \in [Host -> Document \cup {NoDoc}] /\ mem'[h] = doc /\ doc # NoDoc
        /\ \A g \in Host \ {h} : mem'[g] = mem[g]
    BY <2>1, <2>8, IsNoDocument DEF StoreInv, DocsSound, doc
  <2>10. DocOK(mem[h])' /\ mem'[h].sound = "yes" /\ mem'[h].id > 0
    <3>1. doc.id <= ids' /\ doc.id > 0 /\ doc.tick <= clock'
      BY <1>2, <1>3, <2>3, <2>4, <2>5, <2>7
    <3> QED BY <2>2, <2>7, <2>8, <2>9, <3>1 DEF DocOK
  <2>11. /\ quarantine' \subseteq Document /\ ids' \in ids..MaxIds /\ shown' \in [id : 0..ids', rev : Nat]
         /\ DocOK(disk)'
    <3>1. ids' \in ids..MaxIds
      BY <1>3, <2>4
    <3>2. shown \in [id : 0..ids, rev : Nat] /\ 0..ids \subseteq 0..ids'
      BY <1>3, <3>1 DEF StoreInv, DocsSound
    <3>3. DocOK(disk)'
      BY <1>2, <1>3, <2>2, <2>3, <2>4, <2>5, <3>1 DEF DocOK
    <3> QED BY <1>2, <2>4, <3>1, <3>2, <3>3 DEF StoreInv, DocsSound
  <2>12. DocsSound'
    BY <1>2, <1>4, <2>9, <2>10, <2>11, DocsStay DEF StoreInv
  <2>13. ASSUME InTurn' PROVE Leads(h)' /\ FileKeeps'
    <3>1. Extends(mem[h])'
      BY <2>3, <2>4, <2>7, <2>9 DEF Extends
    <3>2. Flushed(h)'
      BY <1>2 DEF Flushed
    <3>3. Ticking(mem[h])'
      BY <1>2, <1>3, <2>3, <2>4, <2>7, <2>9 DEF Ticking
    <3>4. Abreast(h)'
      <4>1. ASSUME Clean({"failed"}), doc.id = shown.id PROVE doc.rev >= shown.rev
        <5>1. disk.id = shown.id
          BY <1>3, <2>7, <4>1
        <5>2. disk.rev >= shown.rev
          BY <1>5, <1>7, <2>13, <4>1, <5>1 DEF FileKeeps
        <5>3. shown.rev \in Nat
          BY DEF StoreInv, DocsSound
        <5> QED BY <2>3, <2>7, <5>2, <5>3
      <4>2. Clean({"failed"})' => Clean({"failed"})
        BY <1>1 DEF Clean
      <4> QED BY <1>2, <2>9, <4>1, <4>2 DEF Abreast
    <3>5. Clean({"failed", "evicted"})' => Once(mem[h])'
      <4>1. Clean({"failed", "evicted"})' => Once(disk)
        BY <1>1, <1>5, <1>7, <2>13 DEF FileKeeps, Clean
      <4> QED BY <2>7, <2>9, <4>1 DEF Once, Cached
    <3>6. FileKeeps'
      BY <1>1, <1>2, <1>5, <2>4, <2>13, FileStays
    <3> QED BY <3>1, <3>2, <3>3, <3>4, <3>5, <3>6 DEF Leads
  <2> QED BY <1>1, <1>2, <2>12, <2>13, OwnersStep
<1> QED BY <1>6, <1>7

(* What a step leaves alone is as it must be.                              *)
LEMMA FieldsStay ==
  ASSUME DocsSound
  PROVE  /\ UNCHANGED request => request' \in [Host -> {<<>>} \cup {<<r>> : r \in RequestId}]
         /\ UNCHANGED ids => ids' \in ids..MaxIds
         /\ UNCHANGED clock => clock' \in clock..MaxTicks
         /\ UNCHANGED damages => damages' \in 0..MaxDamage
         /\ UNCHANGED <<sidecar, clock>> => sidecar' \in 0..clock'
         /\ UNCHANGED quarantine => quarantine' \subseteq Document
         /\ UNCHANGED answered => answered' \subseteq (1..MaxIds) \X RequestId
         /\ UNCHANGED <<ids, shown>> => shown' \in [id : 0..ids', rev : Nat]
         /\ UNCHANGED <<disk, ids>> /\ clock' \in clock..MaxTicks => disk' = NoDoc \/ DocOK(disk)'
<1>1. ids \in 0..MaxIds /\ clock \in 0..MaxTicks /\ MaxIds \in Nat /\ MaxTicks \in Nat
  BY StoreAssumption DEF DocsSound
<1>2. ASSUME UNCHANGED <<disk, ids>>, clock' \in clock..MaxTicks, disk # NoDoc PROVE DocOK(disk)'
  <2>1. DocOK(disk) /\ disk.tick \in Nat
    BY <1>2, StoreAssumption DEF DocsSound, DocOK, Document
  <2> QED BY <1>1, <1>2, <2>1 DEF DocOK
<1> QED BY <1>1, <1>2 DEF DocsSound

LEMMA RepeatKeeps ==
  ASSUME LockInv, StoreInv, NEW h \in Host, NEW r \in RequestId, NEW f \in Fingerprint, Repeat(h, r, f)
  PROVE  StoreInv'
<1>1. /\ Loaded(h) /\ pc[h] = "up" /\ UNCHANGED <<pc, mishap, mem, disk, sidecar, quarantine, ids, clock, damages, shown, request>>
      /\ answered' = answered \cup {<<mem[h].id, r>>}
  BY DEF Repeat, Loaded, lockVars
<1>2. mem[h].id \in 1..MaxIds /\ Owns(h)
  BY <1>1, LoadedDocument DEF StoreInv, DocsSound
<1>3. DocsSound'
  <2>1. answered' \subseteq (1..MaxIds) \X RequestId
    BY <1>1, <1>2 DEF StoreInv, DocsSound
  <2> QED BY <1>1, <2>1 DEF StoreInv, DocsSound, Loaded, DocOK, Pending
<1>4. ASSUME InTurn' PROVE Leads(h)' /\ FileKeeps'
  <2>1. InTurn /\ MemoryLeads /\ FileKeeps /\ Leads(h)
    BY <1>1, <1>4, MishapsStay DEF StoreInv, MemoryLeads
  <2>2. Leads(h)'
    BY <1>1, <2>1, OthersLead DEF Loaded
  <2>3. disk # NoDoc /\ disk.id = mem[h].id /\ disk.done[r] > 0
    <3>1. PICK i \in 1..Len(mem[h].recent) : mem[h].recent[i] = <<r, f>>
      BY DEF Repeat
    <3> QED BY <1>1, <2>1, <3>1 DEF Leads, Flushed
  <2>4. AcknowledgedKept'
    BY <1>1, <2>1, <2>3 DEF FileKeeps, AcknowledgedKept
  <2> QED BY <1>1, <2>1, <2>2, <2>4 DEF FileKeeps, Clean, Once, Cached
<1> QED BY <1>1, <1>2, <1>3, <1>4, OwnersStep

LEMMA StateKeeps ==
  ASSUME LockInv, StoreInv, NEW h \in Host, State(h)
  PROVE  StoreInv'
<1>1. /\ Loaded(h) /\ pc[h] = "up" /\ UNCHANGED <<pc, mishap, mem, disk, sidecar, quarantine, ids, clock, damages, answered, request>>
      /\ shown' = [id |-> mem[h].id, rev |-> mem[h].rev]
  BY DEF State, Loaded, lockVars
<1>2. mem[h].id \in 0..ids /\ mem[h].rev \in Nat /\ Owns(h)
  BY <1>1, LoadedDocument
<1>3. DocsSound'
  BY <1>1, <1>2 DEF StoreInv, DocsSound, Loaded, DocOK, Pending
<1>4. ASSUME InTurn' PROVE Leads(h)' /\ FileKeeps'
  <2>1. InTurn /\ MemoryLeads /\ FileKeeps /\ Leads(h)
    BY <1>1, <1>4, MishapsStay DEF StoreInv, MemoryLeads
  <2>2. Abreast(h)'
    BY <1>1, <1>2, <2>1 DEF Leads, Abreast, Clean
  <2>3. Clean({"failed"}) => disk.rev >= mem[h].rev
    BY <1>1, <1>2, <2>1 DEF Leads, Abreast
  <2>4. AcknowledgedKept'
    BY <1>1, <2>1 DEF FileKeeps, AcknowledgedKept
  <2>5. FileKeeps'
    BY <1>1, <2>1, <2>3, <2>4 DEF FileKeeps, Clean, Once, Cached
  <2>6. Leads(h)'
    BY <1>1, <2>1, <2>2 DEF Leads, Extends, Flushed, Ticking, Clean, Once, Cached
  <2> QED BY <2>5, <2>6
<1> QED BY <1>1, <1>2, <1>3, <1>4, OwnersStep

LEMMA HeartbeatKeeps ==
  ASSUME LockInv, StoreInv, NEW h \in Host, Heartbeat(h)
  PROVE  StoreInv'
<1>1. /\ Loaded(h) /\ pc[h] = "up" /\ UNCHANGED <<pc, mishap, disk, quarantine, ids, damages, answered, shown, request>>
      /\ clock < MaxTicks /\ clock' = clock + 1 /\ sidecar' \in {sidecar, clock + 1}
      /\ mem' = [mem EXCEPT ![h].tick = clock + 1]
  BY DEF Heartbeat, SidecarWritten, Loaded, lockVars
<1>2. /\ Owns(h) /\ mem[h] \in Document /\ clock \in Nat /\ MaxTicks \in Nat
      /\ mem[h].id \in 1..ids /\ sidecar \in 0..clock
  BY <1>1, LoadedDocument, StoreAssumption DEF StoreInv, DocsSound
<1>3. /\ mem'[h] = [mem[h] EXCEPT !.tick = clock + 1] /\ \A g \in Host \ {h} : mem'[g] = mem[g]
  BY <1>1 DEF StoreInv, DocsSound
<1>4. /\ mem'[h].id = mem[h].id /\ mem'[h].rev = mem[h].rev /\ mem'[h].done = mem[h].done
      /\ mem'[h].recent = mem[h].recent /\ mem'[h].sound = mem[h].sound /\ mem'[h].tick = clock + 1
  BY <1>2, <1>3 DEF Document
<1>5. mem'[h] \in Document
  <2>1. clock + 1 \in 0..MaxTicks
    BY <1>1, <1>2
  <2> QED BY <1>2, <1>3, <2>1 DEF Document
<1>6. DocsSound'
  <2>1. DocOK(mem[h])' /\ mem'[h].sound = "yes" /\ mem'[h].id > 0 /\ mem'[h] # NoDoc
    <3>1. mem'[h].id > 0 /\ mem'[h].sound = "yes" /\ mem'[h] # NoDoc
      BY <1>1, <1>4, <1>5, LoadedDocument, IsNoDocument
    <3>2. mem'[h].tick <= clock'
      BY <1>1, <1>2, <1>4
    <3> QED BY <1>1, <1>4, <1>5, <3>1, <3>2, LoadedDocument DEF DocOK
  <2>2. mem' \in [Host -> Document \cup {NoDoc}]
    BY <1>1, <1>5 DEF StoreInv, DocsSound
  <2>3. clock' \in clock..MaxTicks /\ sidecar' \in 0..clock'
    BY <1>1, <1>2
  <2> QED BY <1>1, <1>3, <2>1, <2>2, <2>3, FieldsStay, DocsStay DEF StoreInv
<1>7. ASSUME InTurn' PROVE Leads(h)' /\ FileKeeps'
  <2>1. InTurn /\ MemoryLeads /\ FileKeeps /\ Leads(h)
    BY <1>1, <1>7, MishapsStay DEF StoreInv, MemoryLeads
  <2>2. Extends(mem[h])' /\ Flushed(h)' /\ Abreast(h)'
    BY <1>1, <1>4, <2>1 DEF Leads, Extends, Flushed, Abreast, Clean
  <2>3. Ticking(mem[h])'
    <3>1. disk # NoDoc => disk.tick \in Nat /\ disk.tick <= clock
      BY StoreAssumption DEF StoreInv, DocsSound, DocOK, Document
    <3> QED BY <1>1, <1>2, <1>4, <3>1 DEF Ticking
  <2>4. Clean({"failed", "evicted"})' => Once(mem[h])'
    BY <1>1, <1>4, <2>1 DEF Leads, Once, Cached, Clean
  <2>5. AcknowledgedKept'
    BY <1>1, <2>1 DEF FileKeeps, AcknowledgedKept
  <2>6. damages = 0 => disk # NoDoc /\ disk.sound = "yes"
    BY <1>1, <2>1 DEF Leads, Flushed
  <2>7. FileKeeps'
    BY <1>1, <2>1, <2>5, <2>6 DEF FileKeeps, Clean, Once, Cached
  <2> QED BY <2>2, <2>3, <2>4, <2>7 DEF Leads
<1> QED BY <1>1, <1>2, <1>6, <1>7, OwnersStep

LEMMA ApplyKeeps ==
  ASSUME LockInv, StoreInv, NEW h \in Host, NEW r \in RequestId, NEW f \in Fingerprint, Apply(h, r, f)
  PROVE  StoreInv'
<1> DEFINE old == mem[h].recent
           new == Remember(old, r, f)
<1>1. /\ Loaded(h) /\ pc[h] = "up" /\ ~Cached(mem[h], r)
      /\ UNCHANGED <<disk, sidecar, quarantine, ids, clock, damages, answered, shown>>
      /\ mem' = [mem EXCEPT ![h].recent = new, ![h].done[r] = @ + 1, ![h].rev = @ + 1]
      /\ mishap' = IF Evicts(mem[h]) THEN mishap \cup {"evicted"} ELSE mishap
      /\ request' = [request EXCEPT ![h] = <<r>>]
  BY DEF Apply, Loaded
<1>2. pc'[h] = "committing" /\ \A g \in Host \ {h} : pc'[g] = pc[g]
  BY StageMoves DEF Apply, LockInv, Stage
<1>3. /\ Owns(h) /\ DocOK(mem[h]) /\ mem[h] \in Document /\ mem[h].sound = "yes" /\ mem[h].id \in 1..ids
      /\ old \in Seq(Entry) /\ Len(old) \in 0..CacheLimit /\ mem[h].done \in [RequestId -> Nat] /\ mem[h].rev \in Nat
      /\ CacheLimit \in Nat /\ \A i \in 1..Len(old) : old[i][1] \in RequestId
  BY <1>1, LoadedDocument, StoreAssumption
<1>4. /\ new \in Seq(Entry) /\ Len(new) \in 1..CacheLimit /\ new[Len(new)] = <<r, f>>
      /\ \A i \in 1..Len(new) - 1 : \E j \in 1..Len(old) : new[i] = old[j]
      /\ Len(old) < CacheLimit =>
           Len(new) = Len(old) + 1 /\ \A j \in 1..Len(old) : new[j] = old[j]
  <2>1. Remembered(old, r, f, new)
    BY <1>3, RememberSound
  <2> HIDE DEF new
  <2> QED BY <2>1 DEF Remembered
<1> HIDE DEF new
<1> DEFINE done == [mem[h].done EXCEPT ![r] = @ + 1]
<1>5. /\ mem'[h] = [mem[h] EXCEPT !.recent = new, !.done = done, !.rev = mem[h].rev + 1]
      /\ \A g \in Host \ {h} : mem'[g] = mem[g]
  BY <1>1, <1>3 DEF StoreInv, DocsSound, Document
<1>6. /\ mem'[h].recent = new /\ mem'[h].rev = mem[h].rev + 1 /\ mem'[h].id = mem[h].id
      /\ mem'[h].done = done
      /\ mem'[h].sound = mem[h].sound /\ mem'[h].tick = mem[h].tick
  BY <1>3, <1>5 DEF Document
<1>7. /\ \A q \in RequestId \ {r} : mem'[h].done[q] = mem[h].done[q]
      /\ mem'[h].done[r] = mem[h].done[r] + 1
      /\ \A q \in RequestId : mem'[h].done[q] \in Nat /\ mem'[h].done[q] >= mem[h].done[q]
  BY <1>3, <1>6
<1>8. mem'[h] \in Document
  <2>1. [mem[h] EXCEPT !.recent = new] \in Document
    BY <1>3, <1>4 DEF Document, Entry
  <2>2. done \in [RequestId -> Nat]
    BY <1>3
  <2> HIDE DEF done
  <2>3. [mem[h] EXCEPT !.recent = new, !.done = done] \in Document
    BY <1>3, <2>1, <2>2 DEF Document
  <2>4. mem[h].rev + 1 \in Nat
    BY <1>3
  <2>5. [mem[h] EXCEPT !.recent = new, !.done = done, !.rev = mem[h].rev + 1] \in Document
    BY <2>3, <2>4 DEF Document
  <2> QED BY <1>5, <2>5
<1>9. \A i \in 1..Len(new) : new[i][1] \in RequestId /\ mem'[h].done[new[i][1]] > 0
  <2> SUFFICES ASSUME NEW i \in 1..Len(new) PROVE new[i][1] \in RequestId /\ mem'[h].done[new[i][1]] > 0
    OBVIOUS
  <2>1. CASE i = Len(new)
    BY <1>3, <1>4, <1>7, <2>1
  <2>2. CASE i # Len(new)
    <3>1. PICK j \in 1..Len(old) : new[i] = old[j]
      BY <1>4, <2>2
    <3>2. old[j][1] \in RequestId /\ mem[h].done[old[j][1]] > 0
      BY <1>3 DEF DocOK
    <3>3. mem'[h].done[old[j][1]] >= mem[h].done[old[j][1]] /\ mem'[h].done[old[j][1]] \in Nat /\ mem[h].done[old[j][1]] \in Nat
      BY <1>3, <1>7, <3>2
    <3> QED BY <3>1, <3>2, <3>3
  <2> QED BY <2>1, <2>2
<1>10. DocsSound'
  <2>1. DocOK(mem[h])' /\ mem'[h].sound = "yes" /\ mem'[h].id > 0 /\ mem'[h] # NoDoc
    <3>1. Len(new) <= CacheLimit /\ mem'[h].id > 0
      BY <1>3, <1>4, <1>6
    <3>2. mem'[h].id <= ids' /\ mem'[h].tick <= clock'
      BY <1>1, <1>3, <1>6 DEF DocOK
    <3> QED BY <1>3, <1>6, <1>8, <1>9, <3>1, <3>2, IsNoDocument DEF DocOK
  <2>2. mem' \in [Host -> Document \cup {NoDoc}]
    BY <1>1, <1>5, <1>8 DEF StoreInv, DocsSound
  <2>3. /\ request'[h] = <<r>> /\ \A g \in Host \ {h} : request'[g] = request[g]
        /\ request' \in [Host -> {<<>>} \cup {<<q>> : q \in RequestId}]
    BY <1>1 DEF StoreInv, DocsSound
  <2>4. Pending(h)'
    <3>1. new # <<>> /\ new[Len(new)][1] = r
      BY <1>4
    <3> QED BY <1>6, <2>3, <3>1 DEF Pending
  <2> QED BY <1>1, <1>2, <1>5, <2>1, <2>2, <2>3, <2>4, FieldsStay, DocsStay DEF StoreInv
<1>11. mishap \subseteq mishap'
  BY <1>1
<1>12. ASSUME InTurn' PROVE Leads(h)' /\ FileKeeps'
  <2>1. InTurn /\ MemoryLeads /\ FileKeeps /\ Leads(h)
    BY <1>1, <1>11, <1>12, MishapsStay DEF StoreInv, MemoryLeads
  <2>2. Extends(mem[h])'
    <3> SUFFICES ASSUME disk # NoDoc PROVE disk.id \in {0, mem'[h].id} /\ \A q \in RequestId : mem'[h].done[q] >= disk.done[q]
      BY <1>1 DEF Extends
    <3>1. disk.id \in {0, mem[h].id} /\ \A q \in RequestId : mem[h].done[q] >= disk.done[q]
      BY <2>1 DEF Leads, Extends
    <3>2. \A q \in RequestId : disk.done[q] \in Nat
      BY DEF StoreInv, DocsSound, DocOK, Document
    <3> QED BY <1>3, <1>6, <1>7, <3>1, <3>2
  <2>3. Flushed(h)'
    <3>1. /\ disk # NoDoc /\ disk.id = mem[h].id /\ (damages = 0 => disk.sound = "yes")
          /\ \A j \in 1..Len(old) : disk.done[old[j][1]] > 0
      BY <1>1, <2>1 DEF Leads, Flushed
    <3>2. ASSUME NEW i \in 1..Len(new), i # Len(new) PROVE disk.done[new[i][1]] > 0
      <4>1. i \in 1..Len(new) - 1
        BY <1>3, <1>4, <3>2
      <4> QED BY <1>4, <3>1, <4>1
    <3> QED BY <1>1, <1>2, <1>6, <3>1, <3>2 DEF Flushed
  <2>4. Abreast(h)'
    <3>1. Clean({"failed"})' => Clean({"failed"})
      BY <1>11, MishapsStay
    <3>2. shown.rev \in Nat
      BY DEF StoreInv, DocsSound
    <3> QED BY <1>1, <1>2, <1>3, <1>6, <2>1, <3>1, <3>2 DEF Leads, Abreast
  <2>5. Ticking(mem[h])'
    BY <1>1, <1>6, <2>1 DEF Leads, Ticking
  <2>6. ASSUME Clean({"failed", "evicted"})' PROVE Once(mem[h])'
    <3>9. ~Evicts(mem[h])
      BY <1>1, <2>6 DEF Clean
    <3>1. Once(mem[h]) /\ Len(old) < CacheLimit
      BY <1>3, <1>11, <2>1, <2>6, <3>9, MishapsStay DEF Leads, Evicts
    <3>2. Len(new) = Len(old) + 1 /\ Len(old) \in Nat /\ \A j \in 1..Len(old) : new[j] = old[j]
      BY <1>3, <1>4, <3>1
    <3>3. ASSUME NEW q \in RequestId PROVE mem'[h].done[q] <= 1 /\ (mem'[h].done[q] > 0 => Cached(mem[h], q)')
      <4>1. CASE q = r
        <5>1. mem[h].done[r] = 0
          BY <1>1, <1>3, <3>1 DEF Once
        <5>2. Cached(mem[h], r)'
          BY <1>4, <1>6, <3>2 DEF Cached
        <5> QED BY <1>7, <4>1, <5>1, <5>2
      <4>2. CASE q # r
        <5>1. mem'[h].done[q] = mem[h].done[q] /\ mem[h].done[q] <= 1
          BY <1>7, <3>1, <4>2 DEF Once
        <5>2. ASSUME mem[h].done[q] > 0 PROVE Cached(mem[h], q)'
          <6>1. PICK j \in 1..Len(old) : old[j][1] = q
            BY <3>1, <5>2 DEF Once, Cached
          <6>2. j \in 1..Len(new) /\ new[j][1] = q
            BY <3>2, <6>1
          <6> QED BY <1>6, <6>2 DEF Cached
        <5> QED BY <5>1, <5>2
      <4> QED BY <4>1, <4>2
    <3> QED BY <3>3 DEF Once
  <2>7. FileKeeps'
    BY <1>1, <1>11, <1>12, <2>1, FileStays
  <2> QED BY <2>2, <2>3, <2>4, <2>5, <2>6, <2>7 DEF Leads
<1> QED BY <1>2, <1>3, <1>10, <1>11, <1>12, OwnersStep

(* The fingerprints of a document shrink, and the rest of it stays.        *)
LEMMA ShrunkDocument ==
  ASSUME LockInv, StoreInv, NEW h \in Host, Loaded(h), NEW new \in Seq(Entry),
         mem' = [mem EXCEPT ![h].recent = new], Len(new) <= CacheLimit,
         \A i \in 1..Len(new) : \E j \in 1..Len(mem[h].recent) : new[i] = mem[h].recent[j],
         request' = request \/ request' = [request EXCEPT ![h] = <<>>],
         pc'[h] = "up", \A g \in Host \ {h} : pc'[g] = pc[g],
         UNCHANGED <<disk, sidecar, quarantine, ids, clock, damages, answered, shown>>
  PROVE  /\ DocsSound' /\ mem'[h].recent = new
         /\ mem'[h].id = mem[h].id /\ mem'[h].rev = mem[h].rev /\ mem'[h].done = mem[h].done
         /\ mem'[h].tick = mem[h].tick
<1>1. /\ DocOK(mem[h]) /\ mem[h] \in Document /\ mem[h].sound = "yes" /\ mem[h].id \in 1..ids
      /\ \A i \in 1..Len(mem[h].recent) : mem[h].recent[i][1] \in RequestId
  BY LoadedDocument
<1>2. mem'[h] = [mem[h] EXCEPT !.recent = new] /\ \A g \in Host \ {h} : mem'[g] = mem[g]
  BY DEF StoreInv, DocsSound
<1>3. /\ mem'[h].recent = new /\ mem'[h].id = mem[h].id /\ mem'[h].rev = mem[h].rev
      /\ mem'[h].done = mem[h].done /\ mem'[h].tick = mem[h].tick /\ mem'[h].sound = mem[h].sound
      /\ mem'[h] \in Document
  <2>1. new \in Seq(RequestId \X Fingerprint)
    BY DEF Entry
  <2>2. [mem[h] EXCEPT !.recent = new] \in Document
    BY <1>1, <2>1 DEF Document
  <2>3. LET after == [mem[h] EXCEPT !.recent = new] IN
        /\ after.recent = new /\ after.id = mem[h].id /\ after.rev = mem[h].rev
        /\ after.done = mem[h].done /\ after.tick = mem[h].tick /\ after.sound = mem[h].sound
    BY <1>1 DEF Document
  <2> QED BY <1>2, <2>2, <2>3
<1>4. \A i \in 1..Len(new) : mem[h].done[new[i][1]] > 0
  BY <1>1 DEF DocOK
<1>5. DocOK(mem[h])' /\ mem'[h].sound = "yes" /\ mem'[h].id > 0 /\ mem'[h] # NoDoc
  <2>1. mem[h].id > 0
    BY <1>1
  <2> QED BY <1>1, <1>3, <1>4, <2>1, IsNoDocument DEF DocOK
<1>6. /\ mem' \in [Host -> Document \cup {NoDoc}]
      /\ request' \in [Host -> {<<>>} \cup {<<q>> : q \in RequestId}]
      /\ \A g \in Host \ {h} : request'[g] = request[g]
  BY <1>2, <1>3 DEF StoreInv, DocsSound
<1>7. DocsSound'
  BY <1>2, <1>5, <1>6, FieldsStay, DocsStay DEF StoreInv
<1> QED BY <1>3, <1>7

LEMMA RefuseKeeps ==
  ASSUME LockInv, StoreInv, NEW h \in Host, NEW r \in RequestId, NEW f \in Fingerprint, Refuse(h, r, f)
  PROVE  StoreInv'
<1> DEFINE old == mem[h].recent
           longer == Remember(old, r, f)
           new == Forget(longer, r)
<1>1. /\ Loaded(h) /\ pc[h] = "up" /\ ~Cached(mem[h], r) /\ pc' = pc /\ request' = request
      /\ UNCHANGED <<disk, sidecar, quarantine, ids, clock, damages, answered, shown>>
      /\ mem' = [mem EXCEPT ![h].recent = new]
      /\ mishap' = IF Evicts(mem[h]) THEN mishap \cup {"evicted"} ELSE mishap
  BY DEF Refuse, Loaded
<1>2. /\ Owns(h) /\ old \in Seq(Entry) /\ Len(old) \in 0..CacheLimit /\ CacheLimit \in Nat
  BY <1>1, LoadedDocument, StoreAssumption
<1>3. /\ longer \in Seq(Entry) /\ Len(longer) \in 1..CacheLimit /\ longer[Len(longer)] = <<r, f>>
      /\ \A i \in 1..Len(longer) - 1 : \E j \in 1..Len(old) : longer[i] = old[j]
      /\ Len(old) < CacheLimit =>
           Len(longer) = Len(old) + 1 /\ \A j \in 1..Len(old) : longer[j] = old[j]
  <2>1. Remembered(old, r, f, longer)
    BY <1>2, RememberSound
  <2> HIDE DEF longer
  <2> QED BY <2>1 DEF Remembered
<1> HIDE DEF longer
<1>4. \E i \in 1..Len(longer) : longer[i][1] = r
  BY <1>3
<1>5. /\ new \in Seq(Entry) /\ Len(new) = Len(longer) - 1
      /\ \E k \in 1..Len(longer) :
           /\ longer[k][1] = r
           /\ \A i \in 1..Len(new) : \E j \in 1..Len(longer) \ {k} : new[i] = longer[j]
           /\ \A j \in 1..Len(longer) \ {k} : \E i \in 1..Len(new) : new[i] = longer[j]
  <2>1. Forgotten(longer, r, new)
    BY <1>3, <1>4, ForgetSound
  <2> HIDE DEF new
  <2> QED BY <2>1 DEF Forgotten
<1> HIDE DEF new
<1>6. PICK k \in 1..Len(longer) :
           /\ longer[k][1] = r
           /\ \A i \in 1..Len(new) : \E j \in 1..Len(longer) \ {k} : new[i] = longer[j]
           /\ \A j \in 1..Len(longer) \ {k} : \E i \in 1..Len(new) : new[i] = longer[j]
  BY <1>5
<1>7. k = Len(longer)
  <2> SUFFICES ASSUME k # Len(longer) PROVE FALSE
    OBVIOUS
  <2>9. k \in 1..Len(longer) - 1
    BY <1>2, <1>3
  <2>1. PICK j \in 1..Len(old) : longer[k] = old[j]
    BY <1>3, <2>9
  <2> QED BY <1>1, <1>6, <2>1 DEF Cached
<1>8. \A i \in 1..Len(new) : \E j \in 1..Len(old) : new[i] = old[j]
  <2> SUFFICES ASSUME NEW i \in 1..Len(new) PROVE \E j \in 1..Len(old) : new[i] = old[j]
    OBVIOUS
  <2>1. PICK j \in 1..Len(longer) \ {k} : new[i] = longer[j]
    BY <1>6
  <2>2. j \in 1..Len(longer) - 1
    BY <1>3, <1>7
  <2> QED BY <1>3, <2>1, <2>2
<1>9. Len(new) <= CacheLimit
  BY <1>2, <1>3, <1>5
<1>10. /\ DocsSound' /\ mem'[h].recent = new
       /\ mem'[h].id = mem[h].id /\ mem'[h].rev = mem[h].rev /\ mem'[h].done = mem[h].done
       /\ mem'[h].tick = mem[h].tick
  BY <1>1, <1>5, <1>8, <1>9, ShrunkDocument
<1>11. mishap \subseteq mishap'
  BY <1>1
<1>12. ASSUME InTurn' PROVE Leads(h)' /\ FileKeeps'
  <2>1. InTurn /\ MemoryLeads /\ FileKeeps /\ Leads(h)
    BY <1>1, <1>11, <1>12, MishapsStay DEF StoreInv, MemoryLeads
  <2>2. Extends(mem[h])' /\ Ticking(mem[h])'
    BY <1>1, <1>10, <2>1 DEF Leads, Extends, Ticking
  <2>3. Flushed(h)'
    <3>1. /\ disk # NoDoc /\ disk.id = mem[h].id /\ (damages = 0 => disk.sound = "yes")
          /\ \A j \in 1..Len(old) : disk.done[old[j][1]] > 0
      BY <1>1, <2>1 DEF Leads, Flushed
    <3>2. \A i \in 1..Len(new) : disk.done[new[i][1]] > 0
      BY <1>8, <3>1
    <3> QED BY <1>1, <1>10, <3>1, <3>2 DEF Flushed
  <2>4. Abreast(h)'
    BY <1>1, <1>10, <1>11, <2>1, MishapsStay DEF Leads, Abreast
  <2>5. ASSUME Clean({"failed", "evicted"})' PROVE Once(mem[h])'
    <3>9. ~Evicts(mem[h])
      BY <1>1, <2>5 DEF Clean
    <3>1. Once(mem[h]) /\ Len(old) < CacheLimit
      BY <1>2, <1>11, <2>1, <2>5, <3>9, MishapsStay DEF Leads, Evicts
    <3>2. ASSUME NEW q \in RequestId, Cached(mem[h], q) PROVE Cached(mem[h], q)'
      <4>1. PICK j \in 1..Len(old) : old[j][1] = q
        BY <3>2 DEF Cached
      <4>2. j \in 1..Len(longer) \ {k} /\ longer[j] = old[j]
        BY <1>2, <1>3, <1>7, <3>1
      <4>3. PICK i \in 1..Len(new) : new[i] = longer[j]
        BY <1>6, <4>2
      <4> QED BY <1>10, <4>1, <4>2, <4>3 DEF Cached
    <3> QED BY <1>10, <3>1, <3>2 DEF Once
  <2>6. FileKeeps'
    BY <1>1, <1>11, <1>12, <2>1, FileStays
  <2> QED BY <2>2, <2>3, <2>4, <2>5, <2>6 DEF Leads
<1> QED BY <1>1, <1>2, <1>10, <1>11, <1>12, OwnersStep

(* The rename puts the document in the file, and the request is answered.  *)
LEMMA CommitDoneKeeps ==
  ASSUME LockInv, StoreInv, NEW h \in Host, CommitDone(h)
  PROVE  StoreInv'
<1> DEFINE last == Len(mem[h].recent)
<1>1. Loaded(h) /\ pc[h] = "committing"
  BY DEF CommitDone, Loaded
<1>2. /\ Owns(h) /\ DocOK(mem[h]) /\ mem[h] \in Document /\ mem[h].sound = "yes" /\ mem[h].id \in 1..ids
      /\ mem[h] # NoDoc /\ mem[h].rev \in Nat /\ last \in Nat
      /\ mem[h].recent \in Seq(Entry)
  BY <1>1, LoadedDocument
<1>3. PICK r \in RequestId : request[h] = <<r>> /\ mem[h].recent # <<>> /\ mem[h].recent[last][1] = r
  BY <1>1 DEF StoreInv, DocsSound, Pending
<1>4. mem[h].done[r] > 0
  <2>1. last \in 1..last
    BY <1>2, <1>3, EmptySeq
  <2> QED BY <1>2, <1>3, <2>1 DEF DocOK
<1>5. /\ disk' = mem[h] /\ mem' = mem /\ answered' = answered \cup {<<mem[h].id, r>>}
      /\ request' = [request EXCEPT ![h] = <<>>]
      /\ UNCHANGED <<mishap, sidecar, quarantine, ids, clock, damages, shown>>
  BY <1>3 DEF CommitDone
<1>6. pc'[h] = "up" /\ \A g \in Host \ {h} : pc'[g] = pc[g]
  BY StageMoves DEF CommitDone, LockInv, Stage
<1>7. DocsSound'
  <2>1. DocOK(disk)' /\ DocOK(mem[h])'
    BY <1>2, <1>5 DEF DocOK
  <2>2. mem[h].id \in 1..MaxIds /\ mem[h].id > 0
    BY <1>2, StoreAssumption DEF StoreInv, DocsSound
  <2>3. /\ mem' \in [Host -> Document \cup {NoDoc}]
        /\ request' \in [Host -> {<<>>} \cup {<<q>> : q \in RequestId}]
        /\ \A g \in Host \ {h} : mem'[g] = mem[g] /\ request'[g] = request[g]
        /\ answered' \subseteq (1..MaxIds) \X RequestId
    BY <1>5, <2>2 DEF StoreInv, DocsSound
  <2> QED BY <1>2, <1>5, <1>6, <2>1, <2>2, <2>3, FieldsStay, DocsStay DEF StoreInv
<1>8. ASSUME InTurn' PROVE Leads(h)' /\ FileKeeps'
  <2>1. InTurn /\ MemoryLeads /\ FileKeeps /\ Leads(h)
    BY <1>1, <1>5, <1>8, MishapsStay DEF StoreInv, MemoryLeads
  <2>2. \A q \in RequestId : mem[h].done[q] \in Nat
    BY <1>2 DEF Document
  <2>3. Extends(mem[h])' /\ Flushed(h)'
    BY <1>2, <1>5, <2>2 DEF Extends, Flushed, DocOK
  <2>4. Abreast(h)'
    BY <1>5, <1>6, <2>1 DEF Leads, Abreast, Clean
  <2>5. Ticking(mem[h])'
    BY <1>2, <1>5, <2>1 DEF Leads, Ticking, Document
  <2>6. Clean({"failed", "evicted"})' => Once(mem[h])' /\ Once(disk)'
    BY <1>5, <2>1 DEF Leads, Once, Cached, Clean
  <2>7. AcknowledgedKept'
    <3> SUFFICES ASSUME NEW id \in 0..MaxIds, NEW q \in RequestId, <<id, q>> \in answered'
                 PROVE  \E doc \in quarantine' \cup {disk'} : doc # NoDoc /\ doc.id = id /\ doc.done[q] > 0
      BY DEF AcknowledgedKept
    <3>1. CASE <<id, q>> \in answered
      BY <1>1, <1>5, <2>1, <3>1, OverwriteKeeps
    <3>2. CASE <<id, q>> = <<mem[h].id, r>>
      BY <1>2, <1>4, <1>5, <3>2
    <3> QED BY <1>5, <3>1, <3>2
  <2>8. FileKeeps'
    BY <1>2, <1>5, <2>1, <2>4, <2>6, <2>7 DEF FileKeeps, Leads, Abreast, Clean
  <2> QED BY <2>3, <2>4, <2>5, <2>6, <2>8 DEF Leads
<1> QED BY <1>2, <1>5, <1>6, <1>7, <1>8, OwnersStep

(* The write failed: the change stays in memory only, the fingerprint not. *)
LEMMA CommitFailsKeeps ==
  ASSUME LockInv, StoreInv, NEW h \in Host, CommitFails(h)
  PROVE  StoreInv'
<1> DEFINE old == mem[h].recent
<1>1. Loaded(h) /\ pc[h] = "committing"
  BY DEF CommitFails, Loaded
<1>2. /\ Owns(h) /\ old \in Seq(Entry) /\ Len(old) \in 0..CacheLimit /\ CacheLimit \in Nat
      /\ \A i \in 1..Len(old) : old[i][1] \in RequestId
  BY <1>1, LoadedDocument, StoreAssumption
<1>3. PICK r \in RequestId : request[h] = <<r>> /\ old # <<>> /\ old[Len(old)][1] = r
  BY <1>1 DEF StoreInv, DocsSound, Pending
<1> DEFINE new == Forget(old, r)
<1>4. Len(old) \in 1..Len(old)
  BY <1>2, <1>3, EmptySeq
<1>5. /\ mem' = [mem EXCEPT ![h].recent = new] /\ request' = [request EXCEPT ![h] = <<>>]
      /\ mishap' = mishap \cup {"failed"}
      /\ UNCHANGED <<disk, sidecar, quarantine, ids, clock, damages, answered, shown>>
  BY <1>3 DEF CommitFails
<1>6. pc'[h] = "up" /\ \A g \in Host \ {h} : pc'[g] = pc[g]
  BY StageMoves DEF CommitFails, LockInv, Stage
<1>7. Forgotten(old, r, new)
  BY <1>2, <1>3, <1>4, ForgetSound
<1> HIDE DEF new
<1>8. PICK k \in 1..Len(old) :
        old[k][1] = r /\ \A i \in 1..Len(new) : \E j \in 1..Len(old) \ {k} : new[i] = old[j]
  BY <1>7 DEF Forgotten
<1>9. /\ DocsSound' /\ mem'[h].recent = new
      /\ mem'[h].id = mem[h].id /\ mem'[h].rev = mem[h].rev /\ mem'[h].done = mem[h].done
      /\ mem'[h].tick = mem[h].tick
  <2>1. new \in Seq(Entry) /\ Len(new) <= CacheLimit
    BY <1>2, <1>7 DEF Forgotten
  <2>2. \A i \in 1..Len(new) : \E j \in 1..Len(old) : new[i] = old[j]
    BY <1>8
  <2> QED BY <1>1, <1>5, <1>6, <2>1, <2>2, ShrunkDocument
<1>10. ASSUME InTurn' PROVE Leads(h)' /\ FileKeeps'
  <2>1. InTurn /\ MemoryLeads /\ FileKeeps /\ Leads(h)
    BY <1>1, <1>5, <1>10, MishapsStay DEF StoreInv, MemoryLeads
  <2>2. Extends(mem[h])' /\ Ticking(mem[h])'
    BY <1>5, <1>9, <2>1 DEF Leads, Extends, Ticking
  <2>3. Flushed(h)'
    <3>1. /\ disk # NoDoc /\ disk.id = mem[h].id /\ (damages = 0 => disk.sound = "yes")
          /\ \A j \in 1..Len(old) : j = Len(old) \/ disk.done[old[j][1]] > 0
      BY <1>1, <2>1 DEF Leads, Flushed
    <3>2. ASSUME NEW i \in 1..Len(new) PROVE disk.done[new[i][1]] > 0
      <4>1. PICK j \in 1..Len(old) \ {k} : new[i] = old[j]
        BY <1>8
      <4>2. CASE j # Len(old)
        BY <3>1, <4>1, <4>2
      <4>3. CASE j = Len(old)
        BY <1>3, <1>8, <3>1, <4>1, <4>3
      <4> QED BY <4>2, <4>3
    <3> QED BY <1>5, <1>9, <3>1, <3>2 DEF Flushed
  <2>4. ~Clean({"failed"})' /\ ~Clean({"failed", "evicted"})'
    BY <1>5 DEF Clean
  <2>5. Abreast(h)'
    BY <2>4 DEF Abreast
  <2>6. FileKeeps'
    BY <1>5, <1>10, <2>1, FileStays
  <2> QED BY <2>2, <2>3, <2>4, <2>5, <2>6 DEF Leads
<1> QED BY <1>2, <1>5, <1>6, <1>9, <1>10, OwnersStep

-----------------------------------------------------------------------------
(* The steps of others                                                     *)

LEMMA LateCommitKeeps ==
  ASSUME LockInv, StoreInv, NEW h \in Host, LateCommit(h)
  PROVE  StoreInv'
<1>1. /\ pc[h] = "stopped" /\ mem[h] # NoDoc /\ mem' = [mem EXCEPT ![h].rev = @ + 1] /\ disk' = mem'[h]
      /\ mishap' = mishap \cup {"late"} /\ pc' = pc
      /\ UNCHANGED <<sidecar, quarantine, request, ids, clock, damages, answered, shown>>
  BY DEF LateCommit
<1>2. ~InTurn'
  BY <1>1 DEF InTurn, Clean
<1>3. DocOK(mem[h]) /\ mem[h] \in Document /\ mem[h].sound = "yes" /\ mem[h].id > 0 /\ mem[h].rev \in Nat
  BY <1>1 DEF StoreInv, DocsSound, DocOK, Document
<1>4. mem'[h] = [mem[h] EXCEPT !.rev = mem[h].rev + 1] /\ \A g \in Host \ {h} : mem'[g] = mem[g]
  BY <1>1 DEF StoreInv, DocsSound
<1>5. /\ mem'[h].id = mem[h].id /\ mem'[h].tick = mem[h].tick /\ mem'[h].recent = mem[h].recent
      /\ mem'[h].done = mem[h].done /\ mem'[h].sound = mem[h].sound
  BY <1>3, <1>4 DEF Document
<1>6. mem'[h] \in Document /\ mem'[h] # NoDoc
  <2>1. mem[h].rev + 1 \in Nat
    BY <1>3
  <2>2. [mem[h] EXCEPT !.rev = mem[h].rev + 1] \in Document
    BY <1>3, <2>1 DEF Document
  <2> QED BY <1>4, <2>2, IsNoDocument
<1>7. DocOK(mem[h])' /\ DocOK(disk)'
  BY <1>1, <1>3, <1>5, <1>6 DEF DocOK
<1>8. DocsSound'
  <2>1. mem' \in [Host -> Document \cup {NoDoc}]
    BY <1>1, <1>4, <1>6 DEF StoreInv, DocsSound
  <2>2. pc'[h] # "committing"
    BY <1>1
  <2>3. \A g \in Host \ {h} : pc'[g] = pc[g] /\ mem'[g] = mem[g] /\ request'[g] = request[g]
    BY <1>1, <1>4
  <2> QED BY <1>1, <1>3, <1>5, <1>6, <1>7, <2>1, <2>2, <2>3, FieldsStay, DocsStay DEF StoreInv
<1> QED BY <1>2, <1>8 DEF StoreInv

LEMMA DamageKeeps ==
  ASSUME StoreInv, Damage
  PROVE  StoreInv'
<1>1. /\ disk # NoDoc /\ disk' = [disk EXCEPT !.sound = "text"] /\ damages' = damages + 1 /\ damages < MaxDamage
      /\ UNCHANGED <<pc, mishap, sidecar, quarantine, mem, request, ids, clock, answered, shown>>
  BY DEF Damage, lockVars
<1>2. DocOK(disk) /\ disk \in Document /\ damages \in Nat /\ MaxDamage \in Nat
  BY <1>1, StoreAssumption DEF StoreInv, DocsSound, DocOK
<1>3. /\ disk'.id = disk.id /\ disk'.rev = disk.rev /\ disk'.done = disk.done /\ disk'.recent = disk.recent
      /\ disk'.tick = disk.tick
  BY <1>1, <1>2 DEF Document
<1>4. disk' \in Document /\ disk' # NoDoc
  <2>1. [disk EXCEPT !.sound = "text"] \in Document
    BY <1>2 DEF Document
  <2> QED BY <1>1, <2>1, IsNoDocument
<1>5. DocOK(disk)'
  BY <1>1, <1>2, <1>3, <1>4 DEF DocOK
<1>6. damages' \in 0..MaxDamage /\ damages' # 0
  BY <1>1, <1>2
<1>7. DocsSound'
  <2>1. \A h \in Host : (Loaded(h)' <=> Loaded(h)) /\ (Pending(h) => Pending(h)') /\ (DocOK(mem[h]) => DocOK(mem[h])')
    BY <1>1 DEF Loaded, Pending, DocOK
  <2> QED BY <1>1, <1>5, <1>6, <2>1 DEF StoreInv, DocsSound
<1>8. ASSUME InTurn' PROVE MemoryLeads' /\ FileKeeps'
  <2>1. InTurn /\ MemoryLeads /\ FileKeeps
    BY <1>1, <1>8, MishapsStay DEF StoreInv
  <2>2. ASSUME NEW h \in Host, Loaded(h)' PROVE Leads(h)'
    <3>1. Leads(h)
      BY <1>1, <2>1, <2>2 DEF MemoryLeads, Loaded
    <3>2. Extends(mem[h])' /\ Flushed(h)' /\ Abreast(h)' /\ Ticking(mem[h])'
      BY <1>1, <1>3, <1>4, <1>6, <3>1 DEF Leads, Extends, Flushed, Abreast, Ticking, Clean
    <3>3. Clean({"failed", "evicted"})' => Once(mem[h])'
      BY <1>1, <3>1 DEF Leads, Once, Cached, Clean
    <3> QED BY <3>2, <3>3 DEF Leads
  <2>3. AcknowledgedKept'
    <3> SUFFICES ASSUME NEW id \in 0..MaxIds, NEW r \in RequestId, <<id, r>> \in answered
                 PROVE  \E doc \in quarantine' \cup {disk'} : doc # NoDoc /\ doc.id = id /\ doc.done[r] > 0
      BY <1>1 DEF AcknowledgedKept
    <3>1. PICK doc \in quarantine \cup {disk} : doc # NoDoc /\ doc.id = id /\ doc.done[r] > 0
      BY <2>1 DEF FileKeeps, AcknowledgedKept
    <3> QED BY <1>1, <1>3, <1>4, <3>1
  <2>4. Clean({"failed", "evicted"})' => Once(disk)'
    BY <1>1, <1>3, <2>1 DEF FileKeeps, Once, Cached, Clean
  <2> QED BY <1>1, <1>3, <1>6, <2>1, <2>2, <2>3, <2>4 DEF MemoryLeads, FileKeeps, Clean
<1> QED BY <1>7, <1>8 DEF StoreInv

LEMMA LockStepKeeps ==
  ASSUME LockInv, StoreInv, NEW h \in Host, Start(h) \/ LockStep(h), UNCHANGED storeVars
  PROVE  StoreInv'
<1>1. mishap \subseteq mishap'
  BY DEF Start, LockStep, OpenExclusive, WriteOwner, WriteOwnerFails, ReadOwner, JudgeOwner,
         RemoveStale, ReadOwnToken, UnlinkOwn
<1>2. \E stage \in {"opening", "writing", "reading", "loading", "stopped", "judging", "removing", "unlinking"} :
        Goto(h, stage)
  BY DEF Start, LockStep, OpenExclusive, WriteOwner, WriteOwnerFails, ReadOwner, JudgeOwner,
         RemoveStale, ReadOwnToken, UnlinkOwn
<1>3. \A g \in Host : Loaded(g)' => pc'[g] = pc[g]
  BY <1>2, StageMoves DEF LockInv, Stage, Loaded
<1> QED BY <1>1, <1>3, QuietKeeps

-----------------------------------------------------------------------------
(* Every behaviour                                                         *)

StoreIInv == LockInv /\ StoreInv

LEMMA InitStore == StoreInit => StoreIInv
<1> SUFFICES ASSUME StoreInit PROVE StoreIInv
  OBVIOUS
<1>1. LockInv
  BY InitLock DEF StoreInit
<1>2. /\ {MaxIds, CacheLimit, MaxTicks, MaxDamage, 0, 1} \subseteq Nat /\ MaxIds >= 1 /\ CacheLimit >= 1
  BY StoreAssumption
<1>3. ASSUME disk # NoDoc
      PROVE  /\ disk \in Document /\ disk.id \in {0, 1} /\ disk.tick = 0 /\ disk.recent = <<>> /\ disk.rev = 0
             /\ \A r \in RequestId : disk.done[r] = 0
  <2>1. PICK ver \in 2..3, sound \in {"yes", "text", "rows"} : disk = OldDoc(ver, sound)
    BY <1>3, StoreAssumption DEF StoreInit
  <2> DEFINE id == IF ver = 2 THEN 0 ELSE 1
  <2>2. EmptyDoc(id) \in Document /\ EmptyDoc(id).id = id
    BY <1>2 DEF EmptyDoc, NoEffects, Document
  <2>3. disk = [EmptyDoc(id) EXCEPT !.ver = ver, !.sound = sound]
    BY <2>1 DEF OldDoc
  <2>4. [EmptyDoc(id) EXCEPT !.ver = ver, !.sound = sound] \in Document
    <3> DEFINE empty == EmptyDoc(id)
    <3>1. empty \in Document /\ ver \in 2..4
      BY <2>2
    <3> HIDE DEF empty
    <3>2. [empty EXCEPT !.ver = ver] \in Document
      BY <3>1 DEF Document
    <3>3. [empty EXCEPT !.ver = ver, !.sound = sound] \in Document
      BY <3>2 DEF Document
    <3> QED BY <3>3 DEF empty
  <2>5. disk.id = id /\ disk.tick = 0 /\ disk.recent = <<>> /\ disk.rev = 0 /\ disk.done = NoEffects
    BY <2>3 DEF EmptyDoc
  <2> QED BY <2>3, <2>4, <2>5 DEF NoEffects
<1>4. ids = IF disk = NoDoc THEN 0 ELSE disk.id
  BY DEF StoreInit
<1>5. DocsSound
  <2>1. \A h \in Host : pc[h] = "unborn" /\ mem[h] = NoDoc /\ request[h] = <<>>
    BY DEF StoreInit, LockInit
  <2>2. ids \in 0..MaxIds
    BY <1>2, <1>3, <1>4
  <2>3. disk # NoDoc => DocOK(disk)
    <3>1. Len(<<>>) = 0
      OBVIOUS
    <3> QED BY <1>2, <1>3, <1>4, <3>1 DEF DocOK, StoreInit
  <2>4. mem \in [Host -> Document \cup {NoDoc}] /\ request \in [Host -> {<<>>} \cup {<<r>> : r \in RequestId}]
    BY DEF StoreInit
  <2> QED BY <1>2, <2>1, <2>2, <2>3, <2>4 DEF DocsSound, Loaded, StoreInit
<1>6. MemoryLeads
  BY DEF MemoryLeads, Loaded, StoreInit, LockInit
<1>7. FileKeeps
  <2>1. AcknowledgedKept /\ sidecar = 0 /\ shown.rev = 0
    BY DEF AcknowledgedKept, StoreInit
  <2>2. disk # NoDoc => Once(disk) /\ disk.rev >= shown.rev
    BY <1>3, <2>1 DEF Once
  <2> QED BY <2>1, <2>2 DEF FileKeeps
<1> QED BY <1>1, <1>5, <1>6, <1>7 DEF StoreIInv, StoreInv

LEMMA NextStore == StoreIInv /\ [StoreNext]_allVars => StoreIInv'
<1> SUFFICES ASSUME LockInv, StoreInv, [StoreNext]_allVars PROVE LockInv' /\ StoreInv'
  BY DEF StoreIInv
<1>1. ASSUME UNCHANGED allVars PROVE LockInv' /\ StoreInv'
  <2>1. StoreInv'
    BY <1>1, QuietKeeps DEF allVars, lockVars
  <2>2. UNCHANGED <<lock, pc, attempt, seen, os, mishap>>
    BY <1>1 DEF allVars, lockVars
  <2>3. LockInv'
    BY <2>2 DEF LockInv, LockTypeOK, AliveIffRunning, TriesLeft, RecordsTrue, FileIsOwners, Past, Owns, Ended
  <2> QED BY <2>1, <2>3
<1>2. ASSUME NEW h \in Host, Start(h) \/ LockStep(h), UNCHANGED storeVars PROVE LockInv' /\ StoreInv'
  BY <1>2, StartKeeps, OpenKeeps, WriteKeeps, ReadKeeps, JudgeKeeps, RemoveKeeps, ReadTokenKeeps, UnlinkKeeps,
     LockStepKeeps DEF LockStep
<1>3. ASSUME NEW h \in Host, MigrationFails(h) \/ Dispose(h) PROVE LockInv' /\ StoreInv'
  <2>1. Goto(h, "disposing") /\ Owns(h) /\ UNCHANGED <<lock, attempt, seen, os, mishap, storeVars>>
    BY <1>3 DEF MigrationFails, Dispose, Owns
  <2>2. LockInv'
    BY <2>1, OwnerGoesOn
  <2>3. \A g \in Host : Loaded(g)' => pc'[g] = pc[g]
    BY <2>1, StageMoves DEF LockInv, Stage, Loaded
  <2> QED BY <2>1, <2>2, <2>3, QuietKeeps
<1>4. ASSUME NEW h \in Host, Load(h) \/ FirstCommit(h) \/ CommitDone(h) PROVE LockInv' /\ StoreInv'
  <2>1. LockInv'
    BY <1>4, OwnerGoesOn DEF Load, FirstCommit, CommitDone, Owns
  <2> QED BY <1>4, <2>1, LoadKeeps, FirstCommitKeeps, CommitDoneKeeps
<1>5. ASSUME NEW h \in Host, FirstCommitFails(h) PROVE LockInv' /\ StoreInv'
  <2>1. LockInv'
    BY <1>5, OwnerGoesOn DEF FirstCommitFails, Owns
  <2>2. ~Loaded(h)' /\ \A g \in Host \ {h} : pc'[g] = pc[g]
    BY <1>5, StageMoves DEF FirstCommitFails, LockInv, Stage, Loaded
  <2> QED BY <1>5, <2>1, <2>2, ForgottenKeeps DEF FirstCommitFails
<1>6. ASSUME NEW h \in Host, NEW r \in RequestId, NEW f \in Fingerprint, Repeat(h, r, f) \/ Refuse(h, r, f) \/ Apply(h, r, f)
      PROVE  LockInv' /\ StoreInv'
  <2>1. CASE Repeat(h, r, f)
    BY <2>1, RepeatKeeps, OwnerGoesOn DEF Repeat, lockVars
  <2>2. CASE Refuse(h, r, f)
    BY <2>2, RefuseKeeps, OwnerGoesOn DEF Refuse, Mishap
  <2>3. CASE Apply(h, r, f)
    BY <2>3, ApplyKeeps, OwnerGoesOn DEF Apply, Mishap, Owns
  <2> QED BY <1>6, <2>1, <2>2, <2>3
<1>7. ASSUME NEW h \in Host, CommitFails(h) \/ Heartbeat(h) \/ State(h) \/ LateCommit(h)
      PROVE  LockInv' /\ StoreInv'
  <2>1. CASE CommitFails(h)
    BY <2>1, CommitFailsKeeps, OwnerGoesOn DEF CommitFails, Mishap, Owns
  <2>2. CASE Heartbeat(h)
    BY <2>2, HeartbeatKeeps, OwnerGoesOn DEF Heartbeat, lockVars
  <2>3. CASE State(h)
    BY <2>3, StateKeeps, OwnerGoesOn DEF State, lockVars
  <2>4. CASE LateCommit(h)
    BY <2>4, LateCommitKeeps, OwnerGoesOn DEF LateCommit, Mishap
  <2> QED BY <1>7, <2>1, <2>2, <2>3, <2>4
<1>8. ASSUME NEW h \in Host, CrashHost(h) PROVE LockInv' /\ StoreInv'
  <2>1. LockInv'
    BY <1>8, CrashKeeps DEF CrashHost
  <2>2. ~Loaded(h)' /\ \A g \in Host \ {h} : pc'[g] = pc[g]
    BY <1>8, StageMoves DEF CrashHost, Crash, LockInv, Stage, Loaded
  <2> QED BY <1>8, <2>1, <2>2, ForgottenKeeps DEF CrashHost, Crash
<1>9. ASSUME RemoveByHand, UNCHANGED storeVars PROVE LockInv' /\ StoreInv'
  BY <1>9, ByHandKeeps, QuietKeeps DEF RemoveByHand
<1>10. ASSUME Damage PROVE LockInv' /\ StoreInv'
  <2>1. UNCHANGED <<lock, pc, attempt, seen, os, mishap>>
    BY <1>10 DEF Damage, lockVars
  <2>2. LockInv'
    BY <2>1 DEF LockInv, LockTypeOK, AliveIffRunning, TriesLeft, RecordsTrue, FileIsOwners, Past, Owns, Ended
  <2> QED BY <1>10, <2>2, DamageKeeps
<1> QED BY <1>1, <1>2, <1>3, <1>4, <1>5, <1>6, <1>7, <1>8, <1>9, <1>10 DEF StoreNext, StoreStep

(* Lock, memory and file agree in every reachable state.                   *)
THEOREM StoreInvariance == StoreSpec => []StoreIInv
BY InitStore, NextStore, PTL DEF StoreSpec

(* No second Host gets into the directory but by the unlink of a lock that *)
(* was taken over since it was judged: not through an empty lock file, a   *)
(* reused pid, a failed probe, or a crash at any system call.              *)
THEOREM OneHostOwns == StoreSpec => []OneOwner
<1>1. StoreIInv => OneOwner
  BY LockInvOneOwner DEF StoreIInv
<1> QED BY <1>1, StoreInvariance, PTL

(* An acknowledged action is in the file or in one set aside whole.        *)
THEOREM AnswersAreDurable == StoreSpec => []AcknowledgedKept
<1>1. StoreIInv => AcknowledgedKept
  BY DEF StoreIInv, StoreInv, FileKeeps, AcknowledgedKept
<1> QED BY <1>1, StoreInvariance, PTL

(* A request sent again acts once, as long as no write has failed and no   *)
(* fingerprint was pushed out of the cache.                                *)
THEOREM RetriesAreIdempotent == StoreSpec => []RetryActsOnce
<1>1. ASSUME StoreIInv PROVE RetryActsOnce
  <2>1. \A h \in Host : Serving(h) => Loaded(h)
    BY DEF Serving, Loaded
  <2> QED BY <1>1, <2>1 DEF StoreIInv, StoreInv, MemoryLeads, Leads, Once, RetryActsOnce
<1> QED BY <1>1, StoreInvariance, PTL

(* The files and the memory have their types, and no restart forgets a     *)
(* heartbeat that reached the document or the side file.                   *)
THEOREM FilesAreSound == StoreSpec => []FilesSound
<1>1. ASSUME StoreIInv PROVE FilesSound
  <2>1. StoreTypeOK
    <3>1. ASSUME NEW h \in Host PROVE mem[h] \in Document \cup {NoDoc} /\ Len(request[h]) <= 1
      <4>1. request[h] = <<>> \/ \E r \in RequestId : request[h] = <<r>>
        BY <1>1 DEF StoreIInv, StoreInv, DocsSound
      <4>2. Len(<<>>) = 0 /\ \A r \in RequestId : Len(<<r>>) = 1
        OBVIOUS
      <4>3. Len(request[h]) \in {0, 1}
        BY <4>1, <4>2
      <4>4. \A n \in {0, 1} : n <= 1
        OBVIOUS
      <4>5. mem[h] \in Document \cup {NoDoc}
        BY <1>1 DEF StoreIInv, StoreInv, DocsSound
      <4> QED BY <4>3, <4>5, <4>4
    <3>2. sidecar \in 0..MaxTicks
      BY <1>1, StoreAssumption DEF StoreIInv, StoreInv, DocsSound
    <3> QED BY <1>1, <3>1, <3>2 DEF StoreIInv, LockInv, StoreInv, DocsSound, DocOK, StoreTypeOK
  <2>2. HeartbeatKept
    <3>1. ASSUME InTurn, damages = 0, NEW h \in Host, Serving(h)
          PROVE  mem[h].tick >= sidecar /\ mem[h].tick >= disk.tick
      <4>1. Leads(h) /\ pc[h] # "fresh"
        BY <1>1, <3>1 DEF StoreIInv, StoreInv, MemoryLeads, Serving, Loaded
      <4> QED BY <3>1, <4>1 DEF Leads, Flushed, Ticking
    <3> QED BY <3>1 DEF HeartbeatKept
  <2> QED BY <2>1, <2>2 DEF FilesSound
<1> QED BY <1>1, StoreInvariance, PTL

(* Under one ledger id, what clients are shown never goes back.            *)
THEOREM RevisionsMoveForward == StoreSpec => RevisionForward
<1>1. ASSUME StoreIInv, [StoreNext]_allVars
      PROVE  [InTurn /\ Clean({"failed"}) /\ shown'.id = shown.id => shown'.rev >= shown.rev]_shown
  <2> SUFFICES ASSUME InTurn, Clean({"failed"}), shown'.id = shown.id, shown' # shown
               PROVE  shown'.rev >= shown.rev
    OBVIOUS
  <2>1. PICK h \in Host : State(h)
    <3> SUFFICES ASSUME \A h \in Host : ~State(h) PROVE shown' = shown
      OBVIOUS
    <3>1. ASSUME NEW h \in Host, StoreStep(h) PROVE shown' = shown
      <4>1. CASE MigrationFails(h) \/ Load(h) \/ FirstCommit(h) \/ FirstCommitFails(h)
        BY <4>1 DEF MigrationFails, Load, FirstCommit, FirstCommitFails, storeVars
      <4>2. CASE \E r \in RequestId, f \in Fingerprint : Repeat(h, r, f) \/ Refuse(h, r, f) \/ Apply(h, r, f)
        BY <4>2 DEF Repeat, Refuse, Apply
      <4>3. CASE CommitDone(h) \/ CommitFails(h) \/ Heartbeat(h) \/ Dispose(h) \/ LateCommit(h)
        BY <4>3 DEF CommitDone, CommitFails, Heartbeat, Dispose, LateCommit, storeVars
      <4> QED BY <3>1, <4>1, <4>2, <4>3 DEF StoreStep
    <3>2. ASSUME Damage \/ \E h \in Host : CrashHost(h) PROVE shown' = shown
      BY <3>2 DEF Damage, CrashHost
    <3>3. UNCHANGED storeVars => shown' = shown
      BY DEF storeVars
    <3> QED BY <1>1, <3>1, <3>2, <3>3 DEF StoreNext, allVars
  <2>2. Abreast(h) /\ pc[h] = "up"
    BY <1>1, <2>1 DEF State, Loaded, StoreIInv, StoreInv, MemoryLeads, Leads
  <2> QED BY <2>1, <2>2 DEF State, Abreast
<1> QED BY <1>1, StoreInvariance, PTL DEF StoreSpec, RevisionForward

-----------------------------------------------------------------------------
(* The file as a journal                                                   *)

(* The owner is about to begin a ledger, or to go on with the written one. *)
BeginsOrGoesOn(h) ==
  IF disk = NoDoc THEN mem[h].done = NoEffects /\ \A doc \in quarantine : doc.id # mem[h].id
  ELSE mem[h].rev >= disk.rev

SetAsideKnown == \A doc \in quarantine : doc.id <= ids

JournalInv == SetAsideKnown /\ (InTurn => \A h \in Host : Loaded(h) => BeginsOrGoesOn(h))

LEMMA WrittenNothing == Written(NoDoc) = NoDoc
BY DEF Written

LEMMA WrittenFields ==
  ASSUME NEW doc \in Document
  PROVE  /\ Written(doc) = [id |-> doc.id, rev |-> doc.rev, done |-> doc.done, readable |-> doc.sound # "text"]
         /\ Written(doc) # NoDoc
         /\ Written(doc).id = doc.id /\ Written(doc).rev = doc.rev /\ Written(doc).done = doc.done
         /\ Written(doc).readable <=> doc.sound # "text"
         /\ Written(doc) \in Durable!Ledger
<1>1. Written(doc) = [id |-> doc.id, rev |-> doc.rev, done |-> doc.done, readable |-> doc.sound # "text"]
  BY IsNoDocument DEF Written
<1>2. "id" \in DOMAIN Written(doc) /\ "id" \notin DOMAIN NoDoc
  BY <1>1 DEF NoDoc
<1>3. Written(doc) # NoDoc
  BY <1>2
<1>4. Written(doc).id = doc.id /\ Written(doc).rev = doc.rev /\ Written(doc).done = doc.done
  BY <1>1
<1>5. Written(doc).readable = (doc.sound # "text")
  BY <1>1
<1>6. Written(doc) \in Durable!Ledger
  <2>1. doc.id \in Nat /\ doc.rev \in Nat /\ doc.done \in [RequestId -> Nat]
    BY StoreAssumption DEF Document
  <2>2. (doc.sound # "text") \in BOOLEAN
    OBVIOUS
  <2> QED BY <1>1, <2>1, <2>2 DEF Durable!Ledger
<1> QED BY <1>1, <1>3, <1>4, <1>5, <1>6

(* Steps that leave the file and what was set aside as they are.           *)
LEMMA StillBegins ==
  ASSUME StoreInv, JournalInv, mishap \subseteq mishap', UNCHANGED <<disk, quarantine>>, ids' \in ids..MaxIds,
         \A g \in Host : Loaded(g)' =>
           /\ Loaded(g) /\ mem'[g].rev \in Nat /\ mem'[g].rev >= mem[g].rev /\ mem'[g].id = mem[g].id
           /\ disk = NoDoc => mem'[g].done = mem[g].done
  PROVE  JournalInv'
<1>1. ids \in Nat /\ ids' \in Nat /\ ids' >= ids
  BY StoreAssumption DEF StoreInv, DocsSound
<1>2. SetAsideKnown'
  <2>1. ASSUME NEW doc \in quarantine PROVE doc.id <= ids'
    <3> DEFINE id == doc.id
    <3>1. id \in Nat /\ id <= ids
      BY <2>1, StoreAssumption DEF StoreInv, DocsSound, JournalInv, SetAsideKnown, Document
    <3> HIDE DEF id
    <3>2. id <= ids'
      BY <1>1, <3>1
    <3> QED BY <3>2 DEF id
  <2> QED BY <2>1 DEF SetAsideKnown
<1>3. ASSUME InTurn', NEW g \in Host, Loaded(g)' PROVE BeginsOrGoesOn(g)'
  <2>1. Loaded(g) /\ BeginsOrGoesOn(g)
    BY <1>3, MishapsStay DEF JournalInv
  <2>2. CASE disk = NoDoc
    BY <1>3, <2>1, <2>2 DEF BeginsOrGoesOn
  <2>3. CASE disk # NoDoc
    <3> DEFINE before == mem[g].rev
               after == mem'[g].rev
               written == disk.rev
    <3>1. before \in Nat /\ after \in Nat /\ written \in Nat /\ after >= before /\ before >= written
      BY <1>3, <2>1, <2>3, LoadedDocument DEF BeginsOrGoesOn, StoreInv, DocsSound, DocOK, Document
    <3> HIDE DEF before, after, written
    <3>2. after >= written
      BY <3>1
    <3> QED BY <2>3, <3>2 DEF after, written, BeginsOrGoesOn
  <2> QED BY <2>2, <2>3
<1> QED BY <1>2, <1>3 DEF JournalInv

(* What a load sets aside has an older id than the ledger that begins.     *)
LEMMA LoadBegins ==
  ASSUME LockInv, StoreInv, JournalInv, NEW h \in Host, Load(h)
  PROVE  JournalInv'
<1>1. /\ Owns(h) /\ mishap' = mishap /\ pc[h] = "loading" /\ pc'[h] = "fresh"
      /\ \A g \in Host \ {h} : pc'[g] = pc[g]
  BY StageMoves DEF Load, Owns, LockInv, Stage
<1>2. ids \in Nat /\ \A doc \in quarantine : doc.id \in Nat /\ doc.id <= ids
  BY StoreAssumption DEF StoreInv, DocsSound, JournalInv, SetAsideKnown, Document
<1>3. InTurn' => \A g \in Host : Loaded(g)' => g = h
  BY <1>1, Alone, MishapsStay DEF Loaded
<1>4. CASE disk = NoDoc \/ Unreadable
  <2>1. /\ mem' = [mem EXCEPT ![h] = EmptyDoc(ids + 1)] /\ ids' = ids + 1 /\ disk' = NoDoc
        /\ quarantine' = IF Unreadable THEN quarantine \cup {disk} ELSE quarantine
    BY <1>4 DEF Load, FreshId
  <2>2. Unreadable => disk.id \in Nat /\ disk.id <= ids
    BY StoreAssumption DEF Unreadable, StoreInv, DocsSound, DocOK, Document
  <2>3. \A doc \in quarantine' : doc.id \in Nat /\ doc.id <= ids
    BY <1>2, <2>1, <2>2
  <2>4. \A doc \in quarantine' : doc.id <= ids' /\ doc.id # ids + 1
    <3> SUFFICES ASSUME NEW doc \in quarantine' PROVE doc.id <= ids' /\ doc.id # ids + 1
      OBVIOUS
    <3> DEFINE id == doc.id
    <3>1. id \in Nat /\ id <= ids
      BY <2>3
    <3> HIDE DEF id
    <3>2. id <= ids' /\ id # ids + 1
      BY <1>2, <2>1, <3>1
    <3> QED BY <3>2 DEF id
  <2>5. mem'[h] = EmptyDoc(ids + 1)
    BY <2>1 DEF StoreInv, DocsSound
  <2>6. mem'[h].id = ids + 1 /\ mem'[h].done = NoEffects
    BY <2>5 DEF EmptyDoc
  <2>7. BeginsOrGoesOn(h)'
    BY <2>1, <2>4, <2>6 DEF BeginsOrGoesOn
  <2> QED BY <1>3, <2>4, <2>7 DEF JournalInv, SetAsideKnown
<1>5. CASE ~(disk = NoDoc \/ Unreadable)
  <2>1. PICK repairs \in 0..1 : mem' = [mem EXCEPT ![h] = [Normalized(disk) EXCEPT !.rev = @ + repairs]]
    BY <1>5 DEF Load
  <2>2. UNCHANGED <<disk, quarantine>> /\ (ids' = ids \/ ids' = ids + 1)
    BY <1>5 DEF Load, FreshId
  <2>3. disk \in Document /\ disk.rev \in Nat
    BY <1>5 DEF StoreInv, DocsSound, DocOK, Document
  <2>4. Normalized(disk).rev = disk.rev /\ "rev" \in DOMAIN Normalized(disk)
    BY <2>3 DEF Normalized, Document
  <2>5. mem'[h].rev = disk.rev + repairs
    BY <2>1, <2>4 DEF StoreInv, DocsSound
  <2>6. mem'[h].rev >= disk.rev
    BY <2>3, <2>5
  <2>7. BeginsOrGoesOn(h)'
    BY <1>5, <2>2, <2>6 DEF BeginsOrGoesOn
  <2>8. SetAsideKnown'
    <3> SUFFICES ASSUME NEW doc \in quarantine PROVE doc.id <= ids'
      BY <2>2 DEF SetAsideKnown
    <3> DEFINE id == doc.id
    <3>1. id \in Nat /\ id <= ids
      BY <1>2
    <3> HIDE DEF id
    <3>2. id <= ids'
      BY <1>2, <2>2, <3>1
    <3> QED BY <3>2 DEF id
  <2> QED BY <1>3, <2>7, <2>8 DEF JournalInv
<1> QED BY <1>4, <1>5

(* The owner writes its document.                                          *)
LEMMA CommitGoesOn ==
  ASSUME LockInv, StoreInv, JournalInv, NEW h \in Host, FirstCommit(h) \/ CommitDone(h)
  PROVE  JournalInv'
<1>1. /\ Loaded(h) /\ Owns(h) /\ mishap' = mishap /\ disk' = mem[h] /\ UNCHANGED <<mem, quarantine, ids>>
      /\ \A g \in Host \ {h} : pc'[g] = pc[g]
  BY StageMoves DEF FirstCommit, CommitDone, Loaded, Owns, LockInv, Stage
<1>2. InTurn' => \A g \in Host : Loaded(g)' => g = h
  BY <1>1, Alone, MishapsStay DEF Loaded
<1>3. mem[h] # NoDoc /\ mem[h].rev \in Nat
  BY <1>1, LoadedDocument
<1>4. BeginsOrGoesOn(h)'
  BY <1>1, <1>3 DEF BeginsOrGoesOn
<1>5. SetAsideKnown'
  BY <1>1 DEF JournalInv, SetAsideKnown
<1> QED BY <1>2, <1>4, <1>5 DEF JournalInv

LEMMA DamageGoesOn ==
  ASSUME StoreInv, JournalInv, Damage
  PROVE  JournalInv'
<1>1. /\ disk # NoDoc /\ disk' = [disk EXCEPT !.sound = "text"] /\ UNCHANGED <<pc, mishap, quarantine, mem, ids>>
  BY DEF Damage, lockVars
<1>2. disk \in Document
  BY <1>1 DEF StoreInv, DocsSound, DocOK
<1>3. disk'.rev = disk.rev
  BY <1>1, <1>2 DEF Document
<1>4. disk' # NoDoc
  <2>1. [disk EXCEPT !.sound = "text"] \in Document
    BY <1>2 DEF Document
  <2> QED BY <1>1, <2>1, IsNoDocument
<1>5. \A g \in Host : Loaded(g)' /\ BeginsOrGoesOn(g) => Loaded(g) /\ BeginsOrGoesOn(g)'
  BY <1>1, <1>3, <1>4 DEF Loaded, BeginsOrGoesOn
<1>6. \A g \in Host : Loaded(g)' <=> Loaded(g)
  BY <1>1 DEF Loaded
<1>7. InTurn' => InTurn
  BY <1>1 DEF InTurn, Clean
<1>8. SetAsideKnown'
  BY <1>1 DEF JournalInv, SetAsideKnown
<1> QED BY <1>5, <1>6, <1>7, <1>8 DEF JournalInv

(* Each step of the store as a step of the journal.                        *)
LEMMA TrustIsLost == ASSUME ~InTurn' PROVE Durable!Next
BY DEF Durable!Next

LEMMA SilentStep ==
  ASSUME mishap \subseteq mishap', UNCHANGED <<disk, quarantine, answered>>
  PROVE  [Durable!Next]_(Durable!vars)
<1>1. CASE InTurn'
  <2>1. InTurn
    BY <1>1, MishapsStay
  <2>2. InTurn' = InTurn
    BY <1>1, <2>1
  <2> QED BY <2>2 DEF Durable!vars
<1>2. CASE ~InTurn'
  BY <1>2, TrustIsLost
<1> QED BY <1>1, <1>2

LEMMA LoadIsSetAside ==
  ASSUME StoreInv, NEW h \in Host, Load(h)
  PROVE  [Durable!Next]_(Durable!vars)
<1>1. mishap' = mishap /\ UNCHANGED answered
  BY DEF Load
<1>2. CASE Unreadable
  <2>1. disk' = NoDoc /\ quarantine' = quarantine \cup {disk} /\ disk.sound = "text" /\ disk \in Document
    BY <1>2 DEF Load, Unreadable, StoreInv, DocsSound, DocOK
  <2>2. Written(disk)' = NoDoc /\ Written(disk) # NoDoc /\ ~Written(disk).readable
    BY <2>1, WrittenNothing, WrittenFields
  <2>3. {Written(doc) : doc \in quarantine}' = {Written(doc) : doc \in quarantine} \cup {Written(disk)}
    BY <2>1
  <2>4. Durable!SetAside
    BY <1>1, <2>2, <2>3 DEF Durable!SetAside
  <2>5. InTurn' = InTurn
    BY <1>1 DEF InTurn, Clean
  <2>6. CASE InTurn
    BY <2>4, <2>5, <2>6 DEF Durable!Next
  <2>7. CASE ~InTurn
    BY <2>5, <2>7, TrustIsLost
  <2> QED BY <2>6, <2>7
<1>3. CASE ~Unreadable
  <2>1. UNCHANGED <<disk, quarantine>>
    BY <1>3 DEF Load
  <2> QED BY <1>1, <2>1, SilentStep
<1> QED BY <1>2, <1>3

(* What the owner writes continues the file, or begins another ledger.     *)
LEMMA OwnerContinues ==
  ASSUME StoreInv, JournalInv, InTurn, NEW h \in Host, Loaded(h), disk' = mem[h]
  PROVE  /\ Written(disk)' \in Durable!Ledger /\ Written(disk)'.readable
         /\ disk # NoDoc => Written(disk) # NoDoc /\ Durable!Continues(Written(disk)', Written(disk))
         /\ disk = NoDoc =>
              /\ Written(disk)'.done = NoEffects
              /\ \A doc \in quarantine : Written(doc).id # Written(disk)'.id
<1>1. /\ mem[h] \in Document /\ mem[h].sound = "yes" /\ Leads(h) /\ BeginsOrGoesOn(h)
      /\ quarantine \subseteq Document
  BY LoadedDocument DEF StoreInv, DocsSound, MemoryLeads, JournalInv
<1>2. Written(disk)' = Written(mem[h])
  OBVIOUS
<1>3. Written(disk)' \in Durable!Ledger /\ Written(disk)'.readable
  BY <1>1, <1>2, WrittenFields
<1>4. ASSUME disk # NoDoc PROVE Written(disk) # NoDoc /\ Durable!Continues(Written(disk)', Written(disk))
  <2>1. disk \in Document
    BY <1>4 DEF StoreInv, DocsSound, DocOK
  <2>2. /\ Written(disk) # NoDoc /\ Written(disk).id = disk.id /\ Written(disk).rev = disk.rev
        /\ Written(disk).done = disk.done
    BY <2>1, WrittenFields
  <2>3. /\ Written(mem[h]).id = mem[h].id /\ Written(mem[h]).rev = mem[h].rev
        /\ Written(mem[h]).done = mem[h].done
    BY <1>1, WrittenFields
  <2>4. disk.id \in {0, mem[h].id} /\ \A r \in RequestId : mem[h].done[r] >= disk.done[r]
    BY <1>1, <1>4 DEF Leads, Extends
  <2>5. mem[h].rev >= disk.rev
    BY <1>1, <1>4 DEF BeginsOrGoesOn
  <2>6. \A r \in RequestId : disk.done[r] <= mem[h].done[r]
    BY <2>4
  <2>7. Durable!Continues(Written(mem[h]), Written(disk))
    BY <2>2, <2>3, <2>4, <2>5, <2>6 DEF Durable!Continues
  <2> QED BY <1>2, <2>2, <2>7
<1>5. ASSUME disk = NoDoc
      PROVE  /\ Written(disk)'.done = NoEffects
             /\ \A doc \in quarantine : Written(doc).id # Written(disk)'.id
  <2>1. mem[h].done = NoEffects /\ \A doc \in quarantine : doc.id # mem[h].id
    BY <1>1, <1>5 DEF BeginsOrGoesOn
  <2>2. \A doc \in quarantine : Written(doc).id = doc.id
    BY <1>1, WrittenFields
  <2>3. Written(disk)'.done = NoEffects /\ Written(disk)'.id = mem[h].id
    BY <1>1, <1>2, <2>1, WrittenFields
  <2> QED BY <2>1, <2>2, <2>3
<1> QED BY <1>3, <1>4, <1>5

LEMMA FirstCommitIsWritten ==
  ASSUME LockInv, StoreInv, JournalInv, NEW h \in Host, FirstCommit(h)
  PROVE  [Durable!Next]_(Durable!vars)
<1>1. Loaded(h) /\ disk' = mem[h] /\ UNCHANGED <<mishap, quarantine, answered>>
  BY DEF FirstCommit, Loaded
<1>2. InTurn' = InTurn
  BY <1>1 DEF InTurn, Clean
<1>3. {Written(doc) : doc \in quarantine}' = {Written(doc) : doc \in quarantine}
  BY <1>1
<1>4. CASE InTurn /\ disk # NoDoc
  <2>1. Durable!Acknowledges(Written(disk)')
    BY <1>1 DEF Durable!Acknowledges
  <2>2. Durable!Write
    BY <1>1, <1>3, <1>4, <2>1, OwnerContinues DEF Durable!Write
  <2> QED BY <1>2, <1>4, <2>2 DEF Durable!Next
<1>5. CASE InTurn /\ disk = NoDoc
  <2>1. Written(disk) = NoDoc
    BY <1>5, WrittenNothing
  <2>2. /\ Written(disk)' \in Durable!Ledger /\ Written(disk)'.done = NoEffects
        /\ \A doc \in quarantine : Written(doc).id # Written(disk)'.id
    BY <1>1, <1>5, OwnerContinues
  <2>3. \A old \in {Written(doc) : doc \in quarantine} : old.id # Written(disk)'.id
    BY <2>2
  <2>4. Durable!Begin
    BY <1>1, <1>3, <2>1, <2>2, <2>3 DEF Durable!Begin, NoEffects
  <2> QED BY <1>2, <1>5, <2>4 DEF Durable!Next
<1>6. CASE ~InTurn
  BY <1>2, <1>6, TrustIsLost
<1> QED BY <1>4, <1>5, <1>6

(* A commit that is answered, and a repeated request that is.              *)
LEMMA AnswersAreWritten ==
  ASSUME LockInv, StoreInv, JournalInv, NEW h \in Host, NEW r \in RequestId,
         Loaded(h), pc[h] # "fresh", disk' \in {disk, mem[h]},
         answered' = answered \cup {<<mem[h].id, r>>}, UNCHANGED <<mishap, quarantine>>,
         IF disk' = disk THEN disk.done[r] > 0 ELSE mem[h].done[r] > 0
  PROVE  [Durable!Next]_(Durable!vars)
<1>1. InTurn' = InTurn
  BY DEF InTurn, Clean
<1>2. {Written(doc) : doc \in quarantine}' = {Written(doc) : doc \in quarantine}
  OBVIOUS
<1>3. ASSUME InTurn PROVE Durable!Write
  <2>1. disk # NoDoc /\ disk.id = mem[h].id /\ mem[h].id # 0 /\ disk \in Document /\ mem[h] \in Document
    BY <1>3, LoadedDocument DEF StoreInv, DocsSound, DocOK, MemoryLeads, Leads, Flushed
  <2>2. disk' \in Document /\ disk'.id = mem[h].id /\ disk'.done[r] > 0
    BY <2>1
  <2>3. /\ Written(disk)' \in Durable!Ledger /\ Written(disk)'.id = mem[h].id /\ Written(disk)'.done = disk'.done
        /\ Written(disk) # NoDoc
    BY <2>1, <2>2, WrittenFields
  <2>4. Durable!Acknowledges(Written(disk)')
    <3> DEFINE new == Written(disk)'
               effective == {b \in RequestId : new.done[b] > 0}
    <3>1. r \in effective /\ new.id = mem[h].id
      BY <2>2, <2>3
    <3> HIDE DEF effective
    <3>2. <<mem[h].id, r>> \in {<<new.id, a>> : a \in effective}
      BY <3>1
    <3>3. answered' \ answered \subseteq {<<new.id, a>> : a \in effective}
      BY <3>2
    <3> QED BY <2>1, <2>3, <3>3 DEF effective, Durable!Acknowledges
  <2>5. CASE disk' = disk
    <3>1. disk.rev <= disk.rev /\ \A a \in RequestId : disk.done[a] <= disk.done[a]
      BY <2>1 DEF Document
    <3>2. Durable!Continues(Written(disk), Written(disk))
      BY <2>1, <3>1, WrittenFields DEF Durable!Continues
    <3>3. Written(disk)' = Written(disk)
      BY <2>5
    <3> QED BY <1>2, <2>3, <2>4, <3>2, <3>3 DEF Durable!Write
  <2>6. CASE disk' = mem[h]
    BY <1>2, <1>3, <2>1, <2>3, <2>4, <2>6, OwnerContinues DEF Durable!Write
  <2> QED BY <2>5, <2>6
<1>4. CASE InTurn
  BY <1>1, <1>3, <1>4 DEF Durable!Next
<1>5. CASE ~InTurn
  BY <1>1, <1>5, TrustIsLost
<1> QED BY <1>4, <1>5

LEMMA SpoiledRecord ==
  ASSUME NEW id, NEW rev, NEW done, NEW readable
  PROVE  [[id |-> id, rev |-> rev, done |-> done, readable |-> readable] EXCEPT !.readable = FALSE]
           = [id |-> id, rev |-> rev, done |-> done, readable |-> FALSE]
<1>1. ASSUME NEW off, off = FALSE
      PROVE  [[id |-> id, rev |-> rev, done |-> done, readable |-> readable] EXCEPT !.readable = FALSE]
               = [id |-> id, rev |-> rev, done |-> done, readable |-> FALSE]
  <2>1. [[id |-> id, rev |-> rev, done |-> done, readable |-> readable] EXCEPT !.readable = off]
          = [id |-> id, rev |-> rev, done |-> done, readable |-> off]
    OBVIOUS
  <2> QED BY <1>1, <2>1
<1> QED BY <1>1

LEMMA DamageIsSpoiling ==
  ASSUME StoreInv, Damage
  PROVE  [Durable!Next]_(Durable!vars)
<1>1. disk # NoDoc /\ disk' = [disk EXCEPT !.sound = "text"] /\ UNCHANGED <<mishap, quarantine, answered>>
  BY DEF Damage, lockVars
<1>2. disk \in Document
  BY <1>1 DEF StoreInv, DocsSound, DocOK
<1>3. disk' \in Document /\ disk'.id = disk.id /\ disk'.rev = disk.rev /\ disk'.done = disk.done /\ disk'.sound = "text"
  BY <1>1, <1>2 DEF Document
<1>4. /\ Written(disk) = [id |-> disk.id, rev |-> disk.rev, done |-> disk.done, readable |-> disk.sound # "text"]
      /\ Written(disk)' = [id |-> disk.id, rev |-> disk.rev, done |-> disk.done, readable |-> FALSE]
      /\ Written(disk) # NoDoc
  <2>1. Written(disk)' = [id |-> disk'.id, rev |-> disk'.rev, done |-> disk'.done, readable |-> disk'.sound # "text"]
    BY <1>3, WrittenFields
  <2>2. (disk'.sound # "text") = FALSE
    BY <1>3
  <2> QED BY <1>2, <1>3, <2>1, <2>2, WrittenFields
<1>5. Written(disk)' = [Written(disk) EXCEPT !.readable = FALSE]
  <2> DEFINE before == Written(disk)
             id == disk.id
             rev == disk.rev
             done == disk.done
             readable == disk.sound # "text"
  <2>1. before = [id |-> id, rev |-> rev, done |-> done, readable |-> readable]
    BY <1>4
  <2>2. Written(disk)' = [id |-> id, rev |-> rev, done |-> done, readable |-> FALSE]
    BY <1>4
  <2> HIDE DEF before, id, rev, done, readable
  <2>3. [before EXCEPT !.readable = FALSE] = [id |-> id, rev |-> rev, done |-> done, readable |-> FALSE]
    BY <2>1, SpoiledRecord
  <2> QED BY <2>2, <2>3 DEF before
<1>6. Durable!Spoil
  BY <1>1, <1>4, <1>5 DEF Durable!Spoil
<1>7. InTurn' = InTurn
  BY <1>1 DEF InTurn, Clean
<1>8. CASE InTurn
  BY <1>6, <1>7, <1>8 DEF Durable!Next
<1>9. CASE ~InTurn
  BY <1>7, <1>9, TrustIsLost
<1> QED BY <1>8, <1>9

LEMMA InitJournal == StoreInit => JournalInv /\ Durable!Init
<1> SUFFICES ASSUME StoreInit PROVE JournalInv /\ Durable!Init
  OBVIOUS
<1>1. JournalInv
  BY DEF StoreInit, LockInit, JournalInv, SetAsideKnown, Loaded
<1>2. InTurn = TRUE
  BY DEF StoreInit, LockInit, InTurn, Clean
<1>3. {Written(doc) : doc \in quarantine} = {} /\ answered = {}
  BY DEF StoreInit
<1>4. Written(disk) # NoDoc => Written(disk) \in Durable!Ledger /\ Written(disk).done = [a \in RequestId |-> 0]
  <2> SUFFICES ASSUME disk # NoDoc PROVE Written(disk) \in Durable!Ledger /\ Written(disk).done = NoEffects
    BY WrittenNothing DEF NoEffects
  <2>1. PICK ver \in 2..3, sound \in {"yes", "text", "rows"} : disk = OldDoc(ver, sound)
    BY StoreAssumption DEF StoreInit
  <2>2. disk.done = NoEffects
    BY <2>1 DEF OldDoc, EmptyDoc
  <2>3. disk \in Document
    BY InitStore DEF StoreIInv, StoreInv, DocsSound, DocOK
  <2> QED BY <2>2, <2>3, WrittenFields
<1> QED BY <1>1, <1>2, <1>3, <1>4 DEF Durable!Init

LEMMA NextJournal ==
  ASSUME StoreIInv, JournalInv, [StoreNext]_allVars
  PROVE  JournalInv' /\ [Durable!Next]_(Durable!vars)
<1> USE DEF StoreIInv
<1>1. ids \in 0..MaxIds /\ MaxIds \in Nat
  BY StoreAssumption DEF StoreInv, DocsSound
(* The steps that leave the documents, or the document of one Host, alone. *)
<1>2. ASSUME mishap \subseteq mishap', UNCHANGED <<disk, quarantine, answered, ids>>,
             \A g \in Host : Loaded(g)' => Loaded(g) /\ mem'[g] = mem[g]
      PROVE  JournalInv' /\ [Durable!Next]_(Durable!vars)
  <2>1. [Durable!Next]_(Durable!vars)
    BY <1>2, SilentStep
  <2>2. ASSUME NEW g \in Host, Loaded(g)'
        PROVE  /\ Loaded(g) /\ mem'[g].rev \in Nat /\ mem'[g].rev >= mem[g].rev /\ mem'[g].id = mem[g].id
               /\ disk = NoDoc => mem'[g].done = mem[g].done
    <3>1. Loaded(g) /\ mem'[g] = mem[g] /\ mem[g].rev \in Nat
      BY <1>2, <2>2, LoadedDocument
    <3> QED BY <3>1
  <2> QED BY <1>1, <1>2, <2>1, <2>2, StillBegins
<1>3. ASSUME UNCHANGED allVars PROVE JournalInv' /\ [Durable!Next]_(Durable!vars)
  BY <1>2, <1>3 DEF allVars, lockVars, storeVars, Loaded
<1>4. ASSUME NEW h \in Host, Start(h) \/ LockStep(h), UNCHANGED storeVars
      PROVE  JournalInv' /\ [Durable!Next]_(Durable!vars)
  <2>1. mishap \subseteq mishap'
    BY <1>4 DEF Start, LockStep, OpenExclusive, WriteOwner, WriteOwnerFails, ReadOwner, JudgeOwner,
                RemoveStale, ReadOwnToken, UnlinkOwn
  <2>2. \E stage \in {"opening", "writing", "reading", "loading", "stopped", "judging", "removing", "unlinking"} :
          Goto(h, stage)
    BY <1>4 DEF Start, LockStep, OpenExclusive, WriteOwner, WriteOwnerFails, ReadOwner, JudgeOwner,
                RemoveStale, ReadOwnToken, UnlinkOwn
  <2>3. \A g \in Host : Loaded(g)' => Loaded(g)
    BY <2>2, StageMoves DEF LockInv, Stage, Loaded
  <2> QED BY <1>2, <1>4, <2>1, <2>3 DEF storeVars
<1>5. ASSUME NEW h \in Host, MigrationFails(h) \/ Dispose(h)
      PROVE  JournalInv' /\ [Durable!Next]_(Durable!vars)
  <2>1. Goto(h, "disposing") /\ UNCHANGED <<mishap, storeVars>>
    BY <1>5 DEF MigrationFails, Dispose
  <2>2. \A g \in Host : Loaded(g)' => Loaded(g)
    BY <2>1, StageMoves DEF LockInv, Stage, Loaded
  <2> QED BY <1>2, <2>1, <2>2 DEF storeVars
<1>6. ASSUME NEW h \in Host, FirstCommitFails(h) \/ CrashHost(h)
      PROVE  JournalInv' /\ [Durable!Next]_(Durable!vars)
  <2>1. /\ mem' = [mem EXCEPT ![h] = NoDoc] /\ UNCHANGED <<mishap, disk, quarantine, answered, ids>>
        /\ Goto(h, "disposing") \/ Goto(h, "dead")
    BY <1>6 DEF FirstCommitFails, CrashHost, Crash
  <2>2. \A g \in Host : Loaded(g)' => Loaded(g) /\ g # h
    BY <2>1, StageMoves DEF LockInv, Stage, Loaded
  <2>3. \A g \in Host : g # h => mem'[g] = mem[g]
    BY <2>1 DEF StoreInv, DocsSound
  <2> QED BY <1>2, <2>1, <2>2, <2>3
<1>7. ASSUME RemoveByHand, UNCHANGED storeVars PROVE JournalInv' /\ [Durable!Next]_(Durable!vars)
  BY <1>2, <1>7 DEF RemoveByHand, storeVars, Loaded
<1>8. ASSUME NEW h \in Host, State(h) PROVE JournalInv' /\ [Durable!Next]_(Durable!vars)
  BY <1>2, <1>8 DEF State, lockVars, Loaded
<1>9. ASSUME NEW h \in Host, Load(h) \/ FirstCommit(h)
      PROVE  JournalInv' /\ [Durable!Next]_(Durable!vars)
  BY <1>9, LoadBegins, LoadIsSetAside, CommitGoesOn, FirstCommitIsWritten
(* The document of the owner moves on in memory.                           *)
<1>10. ASSUME NEW h \in Host, Loaded(h), Owns(h), mishap \subseteq mishap',
              UNCHANGED <<disk, quarantine, answered, ids>>, \A g \in Host \ {h} : mem'[g] = mem[g],
              \A g \in Host : Loaded(g)' => Loaded(g),
              mem'[h].rev \in {mem[h].rev, mem[h].rev + 1}, mem'[h].id = mem[h].id, InTurn => disk # NoDoc
       PROVE  JournalInv' /\ [Durable!Next]_(Durable!vars)
  <2>1. [Durable!Next]_(Durable!vars)
    BY <1>10, SilentStep
  <2>2. CASE InTurn
    <3>1. ASSUME NEW g \in Host, Loaded(g)'
          PROVE  /\ Loaded(g) /\ mem'[g].rev \in Nat /\ mem'[g].rev >= mem[g].rev /\ mem'[g].id = mem[g].id
                 /\ disk = NoDoc => mem'[g].done = mem[g].done
      <4>1. g = h /\ Loaded(g) /\ mem[h].rev \in Nat
        BY <1>10, <2>2, <3>1, Alone, LoadedDocument
      <4>2. mem'[h].rev \in Nat /\ mem'[h].rev >= mem[h].rev
        BY <1>10, <4>1
      <4> QED BY <1>10, <2>2, <4>1, <4>2
    <3>2. ids' \in ids..MaxIds
      BY <1>1, <1>10
    <3>3. JournalInv'
      BY <1>10, <3>1, <3>2, StillBegins
    <3> QED BY <2>1, <3>3
  <2>3. CASE ~InTurn
    <3>1. ~InTurn'
      BY <1>10, <2>3, MishapsStay
    <3>2. SetAsideKnown'
      BY <1>10 DEF JournalInv, SetAsideKnown
    <3> QED BY <2>1, <3>1, <3>2 DEF JournalInv
  <2> QED BY <2>2, <2>3
<1>11. ASSUME NEW h \in Host, Loaded(h), pc[h] # "fresh", InTurn PROVE disk # NoDoc
  BY <1>11 DEF StoreInv, MemoryLeads, Leads, Flushed
<1>12. ASSUME NEW h \in Host, NEW r \in RequestId, NEW f \in Fingerprint, Refuse(h, r, f) \/ Apply(h, r, f)
       PROVE  JournalInv' /\ [Durable!Next]_(Durable!vars)
  <2>1. /\ pc[h] = "up" /\ Loaded(h) /\ Owns(h) /\ mishap \subseteq mishap'
        /\ UNCHANGED <<disk, quarantine, answered, ids>>
    BY <1>12 DEF Refuse, Apply, Loaded, Owns
  <2>2. mem[h] \in Document /\ mem[h] # NoDoc
    BY <2>1, LoadedDocument
  <2>3. /\ \A g \in Host \ {h} : mem'[g] = mem[g]
        /\ mem'[h].rev \in {mem[h].rev, mem[h].rev + 1} /\ mem'[h].id = mem[h].id
    BY <1>12, <2>2 DEF Refuse, Apply, StoreInv, DocsSound, Document
  <2>4. \A g \in Host : Loaded(g)' => Loaded(g)
    BY <1>12, <2>1, StageMoves DEF Refuse, Apply, LockInv, Stage, Loaded
  <2> QED BY <1>10, <1>11, <2>1, <2>3, <2>4
<1>13. ASSUME NEW h \in Host, CommitFails(h) \/ Heartbeat(h)
       PROVE  JournalInv' /\ [Durable!Next]_(Durable!vars)
  <2>1. /\ pc[h] # "fresh" /\ Loaded(h) /\ Owns(h) /\ mishap \subseteq mishap'
        /\ UNCHANGED <<disk, quarantine, answered, ids>>
    BY <1>13 DEF CommitFails, Heartbeat, Loaded, Owns, lockVars
  <2>2. mem[h] \in Document /\ mem[h] # NoDoc
    BY <2>1, LoadedDocument
  <2>3. /\ \A g \in Host \ {h} : mem'[g] = mem[g]
        /\ mem'[h].rev = mem[h].rev /\ mem'[h].id = mem[h].id
    BY <1>13, <2>2 DEF CommitFails, Heartbeat, StoreInv, DocsSound, Document
  <2>4. \A g \in Host : Loaded(g)' => Loaded(g)
    BY <1>13, <2>1, StageMoves DEF CommitFails, Heartbeat, lockVars, LockInv, Stage, Loaded
  <2> QED BY <1>10, <1>11, <2>1, <2>3, <2>4
<1>14. ASSUME NEW h \in Host, NEW r \in RequestId, NEW f \in Fingerprint, Repeat(h, r, f)
       PROVE  JournalInv' /\ [Durable!Next]_(Durable!vars)
  <2>1. /\ pc[h] = "up" /\ Loaded(h) /\ answered' = answered \cup {<<mem[h].id, r>>}
        /\ UNCHANGED <<pc, mishap, mem, disk, quarantine, ids>>
    BY <1>14 DEF Repeat, Loaded, lockVars
  <2>2. JournalInv'
    BY <2>1 DEF JournalInv, SetAsideKnown, BeginsOrGoesOn, Loaded, InTurn, Clean
  <2>3. CASE InTurn
    <3>1. PICK i \in 1..Len(mem[h].recent) : mem[h].recent[i] = <<r, f>>
      BY <1>14 DEF Repeat
    <3>2. disk.done[r] > 0
      BY <2>1, <2>3, <3>1 DEF StoreInv, MemoryLeads, Leads, Flushed
    <3> QED BY <2>1, <2>2, <3>2, AnswersAreWritten
  <2>4. CASE ~InTurn
    BY <2>1, <2>2, <2>4, TrustIsLost DEF InTurn, Clean
  <2> QED BY <2>3, <2>4
<1>15. ASSUME NEW h \in Host, CommitDone(h)
       PROVE  JournalInv' /\ [Durable!Next]_(Durable!vars)
  <2>1. JournalInv'
    BY <1>15, CommitGoesOn
  <2>2. pc[h] = "committing" /\ Loaded(h)
    BY <1>15 DEF CommitDone, Loaded
  <2>3. PICK r \in RequestId : request[h] = <<r>> /\ mem[h].recent # <<>> /\ mem[h].recent[Len(mem[h].recent)][1] = r
    BY <2>2 DEF StoreInv, DocsSound, Pending
  <2>4. /\ disk' = mem[h] /\ answered' = answered \cup {<<mem[h].id, r>>} /\ UNCHANGED <<mishap, quarantine>>
    BY <1>15, <2>3 DEF CommitDone
  <2>5. mem[h].done[r] > 0
    <3>1. Len(mem[h].recent) \in 1..Len(mem[h].recent)
      BY <2>2, <2>3, LoadedDocument, EmptySeq
    <3> QED BY <2>2, <2>3, <3>1, LoadedDocument DEF DocOK
  <2> QED BY <2>1, <2>2, <2>4, <2>5, AnswersAreWritten
<1>16. ASSUME NEW h \in Host, LateCommit(h) PROVE JournalInv' /\ [Durable!Next]_(Durable!vars)
  <2>1. mishap' = mishap \cup {"late"} /\ UNCHANGED <<quarantine, ids>>
    BY <1>16 DEF LateCommit
  <2>2. ~InTurn'
    BY <2>1 DEF InTurn, Clean
  <2> QED BY <2>1, <2>2, TrustIsLost DEF JournalInv, SetAsideKnown
<1>17. ASSUME Damage PROVE JournalInv' /\ [Durable!Next]_(Durable!vars)
  BY <1>17, DamageGoesOn, DamageIsSpoiling
<1>18. ASSUME NEW h \in Host, StoreStep(h) PROVE JournalInv' /\ [Durable!Next]_(Durable!vars)
  BY <1>5, <1>6, <1>8, <1>9, <1>12, <1>13, <1>14, <1>15, <1>16, <1>18 DEF StoreStep
<1> QED BY <1>3, <1>4, <1>6, <1>7, <1>17, <1>18 DEF StoreNext

(* What is written of one ledger only grows, what was acknowledged is in   *)
(* the file, and a file is left for another ledger only when it cannot be  *)
(* read, and then whole: through every crash, failed write, repeated       *)
(* request and damage (load, applyRequest, commit, recoverCorrupt).        *)
THEOREM TheFileIsAJournal == StoreSpec => KeepsAJournal
<1>1. StoreInit => StoreIInv /\ JournalInv /\ Durable!Init
  BY InitStore, InitJournal
<1>2. (StoreIInv /\ JournalInv) /\ [StoreNext]_allVars
        => (StoreIInv /\ JournalInv)' /\ [Durable!Next]_(Durable!vars)
  BY NextStore, NextJournal
<1> QED BY <1>1, <1>2, PTL DEF StoreSpec, KeepsAJournal, Durable!Spec

(* What a journal has answered stands in its file, or in one set aside.    *)
StandsIn(files, id, r) ==
  \E f \in files : f \in Durable!Ledger /\ f.id = id /\ f.done[r] > 0
AnswersWritten ==
  /\ \A id \in 0..MaxIds, r \in RequestId :
       <<id, r>> \in answered =>
         id # 0 /\ StandsIn({Written(doc) : doc \in quarantine} \cup {Written(disk)}, id, r)
  /\ Written(disk) # NoDoc => Written(disk) \in Durable!Ledger
JournalAnswers == InTurn => AnswersWritten

LEMMA InitAnswers == Durable!Init => JournalAnswers
BY DEF Durable!Init, JournalAnswers, AnswersWritten

LEMMA NoLedgerIsNothing == NoDoc \notin Durable!Ledger
<1>1. "id" \notin DOMAIN NoDoc
  BY DEF NoDoc
<1>2. \A f \in Durable!Ledger : "id" \in DOMAIN f
  BY DEF Durable!Ledger
<1> QED BY <1>1, <1>2

LEMMA SpoiledLedger ==
  ASSUME NEW f \in Durable!Ledger
  PROVE  /\ [f EXCEPT !.readable = FALSE] \in Durable!Ledger
         /\ [f EXCEPT !.readable = FALSE].id = f.id /\ [f EXCEPT !.readable = FALSE].done = f.done
<1>1. ASSUME NEW off \in BOOLEAN
      PROVE  /\ [f EXCEPT !.readable = off] \in Durable!Ledger
             /\ [f EXCEPT !.readable = off].id = f.id /\ [f EXCEPT !.readable = off].done = f.done
  BY DEF Durable!Ledger
<1>2. FALSE \in BOOLEAN
  OBVIOUS
<1> QED BY <1>1, <1>2

(* What stands in a file stands in the one that is written over it.        *)
LEMMA ContinuingKeeps ==
  ASSUME NEW old \in Durable!Ledger, NEW new \in Durable!Ledger, Durable!Continues(new, old),
         NEW id \in Nat \ {0}, NEW r \in RequestId, old.id = id, old.done[r] > 0
  PROVE  new.id = id /\ new.done[r] > 0
<1>1. new.id = id
  BY DEF Durable!Continues
<1> DEFINE before == old.done[r]
           after == new.done[r]
<1>2. before \in Nat /\ after \in Nat /\ before <= after /\ before > 0
  BY DEF Durable!Continues, Durable!Ledger
<1> HIDE DEF before, after
<1>3. after > 0
  BY <1>2
<1> QED BY <1>1, <1>3 DEF after

LEMMA NextAnswers ==
  ASSUME JournalAnswers, [Durable!Next]_(Durable!vars)
  PROVE  JournalAnswers'
<1> DEFINE kept == {Written(doc) : doc \in quarantine}
<1> SUFFICES ASSUME InTurn' PROVE AnswersWritten'
  BY DEF JournalAnswers
<1>1. \/ UNCHANGED <<Written(disk), kept, answered>>
      \/ Durable!Write \/ Durable!Spoil \/ Durable!SetAside \/ Durable!Begin
  BY DEF Durable!Next, Durable!vars
<1>2. InTurn /\ AnswersWritten
  BY DEF Durable!Next, Durable!vars, JournalAnswers
<1>3. \A id \in 0..MaxIds : id # 0 => id \in Nat \ {0}
  BY StoreAssumption
<1>4. CASE UNCHANGED <<Written(disk), kept, answered>>
  BY <1>2, <1>4 DEF AnswersWritten
<1>5. CASE Durable!Write
  <2>1. /\ Written(disk) # NoDoc /\ Written(disk)' \in Durable!Ledger /\ kept' = kept
        /\ Durable!Continues(Written(disk)', Written(disk)) /\ Durable!Acknowledges(Written(disk)')
    BY <1>5 DEF Durable!Write
  <2>2. ASSUME NEW id \in 0..MaxIds, NEW r \in RequestId, <<id, r>> \in answered'
        PROVE  id # 0 /\ StandsIn(kept' \cup {Written(disk)'}, id, r)
    <3>1. CASE <<id, r>> \in answered
      <4>1. id # 0 /\ StandsIn(kept \cup {Written(disk)}, id, r)
        BY <1>2, <3>1 DEF AnswersWritten
      <4>2. PICK f \in kept \cup {Written(disk)} : f \in Durable!Ledger /\ f.id = id /\ f.done[r] > 0
        BY <4>1 DEF StandsIn
      <4>3. CASE f \in kept
        <5>1. f \in kept' \cup {Written(disk)'}
          BY <2>1, <4>3
        <5> QED BY <4>1, <4>2, <5>1 DEF StandsIn
      <4>4. CASE f = Written(disk)
        <5>1. Written(disk)'.id = id /\ Written(disk)'.done[r] > 0
          BY <1>3, <2>1, <4>1, <4>2, <4>4, ContinuingKeeps
        <5> QED BY <2>1, <4>1, <5>1 DEF StandsIn
      <4> QED BY <4>2, <4>3, <4>4
    <3>2. CASE <<id, r>> \notin answered
      <4>1. /\ <<id, r>> \in {<<Written(disk)'.id, a>> : a \in {b \in RequestId : Written(disk)'.done[b] > 0}}
            /\ Written(disk)'.id # 0
        BY <2>1, <2>2, <3>2 DEF Durable!Acknowledges
      <4>2. PICK a \in RequestId : Written(disk)'.done[a] > 0 /\ <<id, r>> = <<Written(disk)'.id, a>>
        BY <4>1
      <4>3. Written(disk)'.id = id /\ Written(disk)'.done[r] > 0
        BY <4>2
      <4> QED BY <2>1, <4>1, <4>3 DEF StandsIn
    <3> QED BY <3>1, <3>2
  <2> QED BY <2>1, <2>2 DEF AnswersWritten
<1>6. CASE Durable!Spoil
  <2>1. /\ Written(disk) \in Durable!Ledger /\ Written(disk)' = [Written(disk) EXCEPT !.readable = FALSE]
        /\ kept' = kept /\ answered' = answered
    BY <1>2, <1>6 DEF Durable!Spoil, AnswersWritten
  <2>2. /\ Written(disk)' \in Durable!Ledger /\ Written(disk)'.id = Written(disk).id
        /\ Written(disk)'.done = Written(disk).done
    <3> DEFINE before == Written(disk)
               spoiled == [before EXCEPT !.readable = FALSE]
    <3>1. before \in Durable!Ledger /\ Written(disk)' = spoiled
      BY <2>1
    <3> HIDE DEF before
    <3>2. spoiled \in Durable!Ledger /\ spoiled.id = before.id /\ spoiled.done = before.done
      BY <3>1, SpoiledLedger
    <3> HIDE DEF spoiled
    <3>3. /\ Written(disk)' \in Durable!Ledger /\ Written(disk)'.id = before.id
          /\ Written(disk)'.done = before.done
      BY <3>1, <3>2
    <3> QED BY <3>3 DEF before
  <2>3. ASSUME NEW id \in 0..MaxIds, NEW r \in RequestId, <<id, r>> \in answered'
        PROVE  id # 0 /\ StandsIn(kept' \cup {Written(disk)'}, id, r)
    <3>1. id # 0 /\ StandsIn(kept \cup {Written(disk)}, id, r)
      BY <1>2, <2>1, <2>3 DEF AnswersWritten
    <3>2. PICK f \in kept \cup {Written(disk)} : f \in Durable!Ledger /\ f.id = id /\ f.done[r] > 0
      BY <3>1 DEF StandsIn
    <3>3. CASE f \in kept
      <4>1. f \in kept' \cup {Written(disk)'}
        BY <2>1, <3>3
      <4> QED BY <3>1, <3>2, <4>1 DEF StandsIn
    <3>4. CASE f = Written(disk)
      <4>1. Written(disk)'.id = id /\ Written(disk)'.done[r] > 0
        BY <2>2, <3>2, <3>4
      <4> QED BY <2>2, <3>1, <4>1 DEF StandsIn
    <3> QED BY <3>2, <3>3, <3>4
  <2> QED BY <2>2, <2>3 DEF AnswersWritten
<1>7. CASE Durable!SetAside
  <2>1. Written(disk)' = NoDoc /\ kept' = kept \cup {Written(disk)} /\ answered' = answered
    BY <1>7 DEF Durable!SetAside
  <2>2. ASSUME NEW id \in 0..MaxIds, NEW r \in RequestId, <<id, r>> \in answered'
        PROVE  id # 0 /\ StandsIn(kept' \cup {Written(disk)'}, id, r)
    BY <1>2, <2>1, <2>2 DEF AnswersWritten, StandsIn
  <2> QED BY <2>1, <2>2 DEF AnswersWritten
<1>8. CASE Durable!Begin
  <2>1. Written(disk) = NoDoc /\ Written(disk)' \in Durable!Ledger /\ kept' = kept /\ answered' = answered
    BY <1>8 DEF Durable!Begin
  <2>2. ASSUME NEW id \in 0..MaxIds, NEW r \in RequestId, <<id, r>> \in answered'
        PROVE  id # 0 /\ StandsIn(kept' \cup {Written(disk)'}, id, r)
    BY <1>2, <2>1, <2>2, NoLedgerIsNothing DEF AnswersWritten, StandsIn
  <2> QED BY <2>1, <2>2 DEF AnswersWritten
<1> QED BY <1>1, <1>4, <1>5, <1>6, <1>7, <1>8

LEMMA AnswersStandInDocuments == JournalAnswers => AcknowledgedKept
<1> SUFFICES ASSUME JournalAnswers, InTurn, NEW id \in 0..MaxIds, NEW r \in RequestId, <<id, r>> \in answered
             PROVE  \E doc \in quarantine \cup {disk} : doc # NoDoc /\ doc.id = id /\ doc.done[r] > 0
  BY DEF AcknowledgedKept
<1>1. PICK f \in {Written(doc) : doc \in quarantine} \cup {Written(disk)} :
        f \in Durable!Ledger /\ f.id = id /\ f.done[r] > 0
  BY DEF JournalAnswers, AnswersWritten, StandsIn
<1>2. PICK doc \in quarantine \cup {disk} : f = Written(doc)
  BY <1>1
<1>3. doc # NoDoc
  BY <1>1, <1>2, NoLedgerIsNothing, WrittenNothing
<1>4. f = [id |-> doc.id, rev |-> doc.rev, done |-> doc.done, readable |-> doc.sound # "text"]
  BY <1>2, <1>3 DEF Written
<1>5. doc.id = id /\ doc.done[r] > 0
  BY <1>1, <1>4
<1> QED BY <1>3, <1>5

(* The journal is enough of a promise: whoever keeps one keeps what was    *)
(* acknowledged, however the store that writes it works inside.            *)
THEOREM JournalsKeepAnswers == KeepsAJournal => []AcknowledgedKept
<1>1. JournalAnswers /\ [Durable!Next]_(Durable!vars) => JournalAnswers'
  BY NextAnswers
<1> QED BY <1>1, InitAnswers, AnswersStandInDocuments, PTL DEF KeepsAJournal, Durable!Spec
=============================================================================
