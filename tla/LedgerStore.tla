---------------------------- MODULE LedgerStore ----------------------------
(***************************************************************************)
(* The ledger document in memory and on disk (src/src/host-ledger.ts:      *)
(* constructor, load, migrations and quarantine, applyRequest with its     *)
(* fingerprints, commit, the scheduler side file, dispose), kept by Hosts  *)
(* that take the lock of LedgerLock.                                       *)
(*                                                                         *)
(* What the cards are is TaskLedger's subject.  Here a document counts, for*)
(* each request id, how often the action of that request has taken effect. *)
(* The fingerprint of an action stands for the action.  A rename makes a   *)
(* file appear whole, so a commit is one step after the change in memory.  *)
(***************************************************************************)
EXTENDS LedgerLock, Sequences, SequencesExt

CONSTANTS
  RequestId, Fingerprint,
  CacheLimit,   \* MAX_REQUEST_CACHE
  StartFiles,   \* what the directory may hold before the first start
  MaxEffects,   \* bound on changes in all, MaxTicks on heartbeats,
  MaxTicks,
  MaxDamage,    \* and on times the file is spoiled from outside
  MaxIds        \* ledger ids that can be generated

VARIABLES
  disk,         \* ledger-v2.json
  sidecar,      \* scheduler-v2.json: lastTickAt, 0 for none
  quarantine,   \* the files renamed by recoverCorrupt
  mem,          \* the document of each Host
  request,      \* the request whose commit is under way
  ids,          \* ledger ids generated so far
  clock,        \* the time of the last heartbeat
  damages,
  answered,     \* history: requests acknowledged, and the ledger that did
  shown         \* history: the last revision a client was given, with its ledger

storeVars == <<disk, sidecar, quarantine, mem, request, ids, clock, damages, answered, shown>>
allVars == <<lockVars, storeVars>>

-----------------------------------------------------------------------------
(* Documents                                                               *)

(* ver is the schema; sound tells a readable file from one that is not     *)
(* ("text") and from a v2 file with rows that are no tasks ("rows").       *)
Document == [ver : 2..4, sound : {"yes", "text", "rows"}, id : 0..MaxIds, rev : Nat,
             done : [RequestId -> Nat], recent : Seq(RequestId \X Fingerprint), tick : 0..MaxTicks]
NoDoc == [ver |-> 0]

NoEffects == [r \in RequestId |-> 0]
EmptyDoc(id) == [ver |-> 4, sound |-> "yes", id |-> id, rev |-> 0, done |-> NoEffects,
                 recent |-> <<>>, tick |-> 0]
(* An older file has no project list and no fingerprints; v2 has no id.    *)
OldDoc(ver, sound) == [EmptyDoc(IF ver = 2 THEN 0 ELSE 1) EXCEPT !.ver = ver, !.sound = sound]

(* A v2 file may hold rows that are no tasks; a spoiled file is no JSON.    *)
ASSUME StoreAssumption ==
  /\ {CacheLimit, MaxIds} \subseteq Nat \ {0}
  /\ {MaxEffects, MaxTicks, MaxDamage} \subseteq Nat
  /\ StartFiles \subseteq {NoDoc, OldDoc(2, "rows")} \cup {OldDoc(ver, sound) : ver \in 2..3, sound \in {"yes", "text"}}

StoreInit ==
  /\ LockInit
  /\ disk \in StartFiles
  /\ sidecar = 0 /\ quarantine = {}
  /\ mem = [h \in Host |-> NoDoc] /\ request = [h \in Host |-> <<>>]
  /\ ids = IF disk = NoDoc THEN 0 ELSE disk.id
  /\ clock = 0 /\ damages = 0
  /\ answered = {} /\ shown = [id |-> 0, rev |-> 0]

-----------------------------------------------------------------------------
(* The constructor: load, repair, first commit                             *)

FreshId == ids + 1

LastOf(recent) ==
  IF Len(recent) <= CacheLimit THEN recent
  ELSE SubSeq(recent, Len(recent) - CacheLimit + 1, Len(recent))

(* Mutant: the heartbeat of the side file is not looked at. *)
NormalizedFromDocument(doc) ==
  [doc EXCEPT !.ver = 4, !.id = IF doc.id = 0 THEN FreshId ELSE doc.id, !.recent = LastOf(doc.recent)]
(* Mutant: the fingerprints are not read back. *)
NormalizedForgetting(doc) ==
  [doc EXCEPT !.ver = 4, !.id = IF doc.id = 0 THEN FreshId ELSE doc.id,
              !.tick = IF doc.tick >= sidecar THEN doc.tick ELSE sidecar, !.recent = <<>>]

(* Mutant: a document that is loaded starts from the first revision. *)
NormalizedRestarted(doc) ==
  [doc EXCEPT !.ver = 4, !.id = IF doc.id = 0 THEN FreshId ELSE doc.id, !.rev = 0,
              !.tick = IF doc.tick >= sidecar THEN doc.tick ELSE sidecar, !.recent = LastOf(doc.recent)]

(* normalizeDocument: a missing id is generated, the later heartbeat wins, *)
(* the newest fingerprints are kept.                                       *)
Normalized(doc) ==
  [doc EXCEPT !.ver = 4, !.id = IF doc.id = 0 THEN FreshId ELSE doc.id,
              !.tick = IF doc.tick >= sidecar THEN doc.tick ELSE sidecar,
              !.recent = LastOf(doc.recent)]

Unreadable == disk # NoDoc /\ disk.sound = "text"

(* A v2 file that cannot be migrated stays where it is, and the Host does  *)
(* not start (migrateLegacyDocument); dispose follows.                     *)
MigrationFails(h) ==
  /\ pc[h] = "loading"
  /\ disk # NoDoc /\ disk.ver = 2 /\ disk.sound = "rows"
  /\ Goto(h, "disposing")
  /\ UNCHANGED <<lock, attempt, seen, os, mishap, storeVars>>

(* repairSchedules and reconcileInterruptedStarts commit on their own when *)
(* they change something; each of those commits moves the revision.        *)
Load(h) ==
  /\ pc[h] = "loading"
  /\ IF disk = NoDoc \/ Unreadable
     THEN /\ FreshId <= MaxIds
          /\ mem' = [mem EXCEPT ![h] = EmptyDoc(FreshId)]
          /\ ids' = FreshId
          /\ quarantine' = IF Unreadable THEN quarantine \cup {disk} ELSE quarantine
          /\ disk' = NoDoc
     ELSE /\ disk.sound = "yes"
          /\ disk.id = 0 => FreshId <= MaxIds
          /\ \E repairs \in 0..1 :
               mem' = [mem EXCEPT ![h] = [Normalized(disk) EXCEPT !.rev = @ + repairs]]
          /\ ids' = IF disk.id = 0 THEN FreshId ELSE ids
          /\ UNCHANGED <<disk, quarantine>>
  /\ Goto(h, "fresh")
  /\ UNCHANGED <<lock, attempt, seen, os, mishap, sidecar, request, clock, damages, answered, shown>>

FirstCommit(h) ==
  /\ pc[h] = "fresh"
  /\ disk' = mem[h] /\ Goto(h, "up")
  /\ UNCHANGED <<lock, attempt, seen, os, mishap, sidecar, quarantine, mem, request, ids,
                 clock, damages, answered, shown>>

(* The constructor throws, so there is no service that could write later.  *)
FirstCommitFails(h) ==
  /\ pc[h] = "fresh"
  /\ mem' = [mem EXCEPT ![h] = NoDoc] /\ Goto(h, "disposing")
  /\ UNCHANGED <<lock, attempt, seen, os, mishap, disk, sidecar, quarantine, request, ids,
                 clock, damages, answered, shown>>

-----------------------------------------------------------------------------
(* Requests                                                                *)

Cached(doc, r) == \E i \in 1..Len(doc.recent) : doc.recent[i][1] = r
(* Only a request that is cached is taken back.                            *)
Forget(recent, r) == RemoveAt(recent, CHOOSE i \in 1..Len(recent) : recent[i][1] = r)

(* The fingerprint goes in first, the oldest one goes out at the limit.    *)
Remember(recent, r, f) ==
  LET longer == Append(recent, <<r, f>>) IN
  IF Len(longer) > CacheLimit THEN Tail(longer) ELSE longer

Evicts(doc) == Len(doc.recent) >= CacheLimit

Total(doc) == FoldFunction(+, 0, doc.done)

(* A request seen before is answered with the state and nothing is done;   *)
(* with another action under the same id it is refused.                    *)
Repeat(h, r, f) ==
  /\ pc[h] = "up" /\ Cached(mem[h], r)
  /\ \E i \in 1..Len(mem[h].recent) : mem[h].recent[i] = <<r, f>>
  /\ answered' = answered \cup {<<mem[h].id, r>>}
  /\ UNCHANGED <<lockVars, disk, sidecar, quarantine, mem, request, ids, clock, damages, shown>>

(* apply() throws before it has changed a card.                            *)
Refuse(h, r, f) ==
  /\ pc[h] = "up" /\ ~Cached(mem[h], r)
  /\ mem' = [mem EXCEPT ![h].recent = Forget(Remember(@, r, f), r)]
  /\ mishap' = IF Evicts(mem[h]) THEN mishap \cup {"evicted"} ELSE mishap
  /\ UNCHANGED <<lock, pc, attempt, seen, os, disk, sidecar, quarantine, request, ids,
                 clock, damages, answered, shown>>

Apply(h, r, f) ==
  /\ pc[h] = "up" /\ ~Cached(mem[h], r)
  /\ Total(mem[h]) < MaxEffects
  /\ mem' = [mem EXCEPT ![h].recent = Remember(@, r, f),
                        ![h].done[r] = @ + 1, ![h].rev = @ + 1]
  /\ mishap' = IF Evicts(mem[h]) THEN mishap \cup {"evicted"} ELSE mishap
  /\ request' = [request EXCEPT ![h] = <<r>>]
  /\ Goto(h, "committing")
  /\ UNCHANGED <<lock, attempt, seen, os, disk, sidecar, quarantine, ids, clock, damages, answered, shown>>

(* Mutant: the request is acknowledged before the file is written. *)
CommitUnwritten(h) ==
  /\ pc[h] = "committing"
  /\ answered' = answered \cup {<<mem[h].id, request[h][1]>>}
  /\ request' = [request EXCEPT ![h] = <<>>]
  /\ Goto(h, "up")
  /\ UNCHANGED <<lock, attempt, seen, os, mishap, disk, sidecar, quarantine, mem, ids, clock, damages, shown>>

(* The answer may be lost on its way; the client may then ask again.       *)
CommitDone(h) ==
  /\ pc[h] = "committing"
  /\ disk' = mem[h]
  /\ answered' = answered \cup {<<mem[h].id, request[h][1]>>}
  /\ request' = [request EXCEPT ![h] = <<>>]
  /\ Goto(h, "up")
  /\ UNCHANGED <<lock, attempt, seen, os, mishap, sidecar, quarantine, mem, ids, clock, damages, shown>>

(* The write throws: the fingerprint is taken back, the change is not.     *)
CommitFails(h) ==
  /\ pc[h] = "committing"
  /\ mem' = [mem EXCEPT ![h].recent = Forget(@, request[h][1])]
  /\ mishap' = mishap \cup {"failed"}
  /\ request' = [request EXCEPT ![h] = <<>>]
  /\ Goto(h, "up")
  /\ UNCHANGED <<lock, attempt, seen, os, disk, sidecar, quarantine, ids, clock, damages, answered, shown>>

(* The side file is replaced whole, or the write throws.                   *)
SidecarWritten(tick) == sidecar' \in {sidecar, tick}

(* setScheduler with nothing but lastTickAt: the side file only.           *)
Heartbeat(h) ==
  /\ pc[h] = "up" /\ clock < MaxTicks
  /\ clock' = clock + 1
  /\ mem' = [mem EXCEPT ![h].tick = clock + 1]
  /\ SidecarWritten(clock + 1)
  /\ UNCHANGED <<lockVars, disk, quarantine, request, ids, damages, answered, shown>>

(* Mutant: a client is given what is not written yet. *)
StateUnwritten(h) ==
  /\ pc[h] \in {"up", "committing"}
  /\ shown' = [id |-> mem[h].id, rev |-> mem[h].rev]
  /\ UNCHANGED <<lockVars, disk, sidecar, quarantine, mem, request, ids, clock, damages, answered>>

(* state(): what a client is given.                                        *)
State(h) ==
  /\ pc[h] = "up"
  /\ shown' = [id |-> mem[h].id, rev |-> mem[h].rev]
  /\ UNCHANGED <<lockVars, disk, sidecar, quarantine, mem, request, ids, clock, damages, answered>>

-----------------------------------------------------------------------------
(* The end of a Host                                                       *)

Dispose(h) ==
  /\ pc[h] = "up" /\ Goto(h, "disposing")
  /\ UNCHANGED <<lock, attempt, seen, os, mishap, storeVars>>

(* dispose() does not stop the launches in flight: when one reports, the   *)
(* ledger of the disposed Host commits once more (host-service.ts 325-346).*)
LateCommit(h) ==
  /\ pc[h] = "stopped" /\ os[h] = "alive" /\ mem[h] # NoDoc
  /\ "late" \notin mishap
  /\ mem' = [mem EXCEPT ![h].rev = @ + 1]
  /\ disk' = mem'[h]
  /\ mishap' = mishap \cup {"late"}
  /\ UNCHANGED <<lock, pc, attempt, seen, os, sidecar, quarantine, request, ids, clock,
                 damages, answered, shown>>

CrashHost(h) ==
  /\ Crash(h)
  /\ mem' = [mem EXCEPT ![h] = NoDoc] /\ request' = [request EXCEPT ![h] = <<>>]
  /\ UNCHANGED <<disk, sidecar, quarantine, ids, clock, damages, answered, shown>>

(* Something outside spoils the file.                                      *)
Damage ==
  /\ damages < MaxDamage /\ disk # NoDoc /\ disk.sound = "yes"
  /\ disk' = [disk EXCEPT !.sound = "text"]
  /\ damages' = damages + 1
  /\ UNCHANGED <<lockVars, sidecar, quarantine, mem, request, ids, clock, answered, shown>>

-----------------------------------------------------------------------------
StoreStep(h) ==
  \/ MigrationFails(h) \/ Load(h) \/ FirstCommit(h) \/ FirstCommitFails(h)
  \/ \E r \in RequestId, f \in Fingerprint : Repeat(h, r, f) \/ Refuse(h, r, f) \/ Apply(h, r, f)
  \/ CommitDone(h) \/ CommitFails(h) \/ Heartbeat(h) \/ State(h)
  \/ Dispose(h) \/ LateCommit(h)

StoreNext ==
  \/ \E h \in Host : (Start(h) \/ LockStep(h)) /\ UNCHANGED storeVars
  \/ \E h \in Host : StoreStep(h) \/ CrashHost(h)
  \/ RemoveByHand /\ UNCHANGED storeVars
  \/ Damage

StoreSpec == StoreInit /\ [][StoreNext]_allVars

-----------------------------------------------------------------------------
(* Properties                                                              *)

StoreTypeOK ==
  /\ LockTypeOK
  /\ disk \in Document \cup {NoDoc} /\ sidecar \in 0..MaxTicks
  /\ \A doc \in quarantine : doc \in Document
  /\ \A h \in Host : mem[h] \in Document \cup {NoDoc} /\ Len(request[h]) <= 1
  /\ ids \in 0..MaxIds /\ clock \in 0..MaxTicks /\ damages \in 0..MaxDamage

(* A Host whose document may be read and changed.                          *)
Serving(h) == pc[h] \in {"up", "committing"}
Clean(events) == mishap \cap events = {}

(* One owner follows another only: nobody overwrote a newer document.      *)
InTurn == Clean({"race", "late"})

(* What a client was told is done stays done: its effect is in the file,   *)
(* or in a file that was set aside whole, whatever crashes, failed writes, *)
(* damage and restarts follow (commit 1028-1053, recoverCorrupt 970).      *)
AcknowledgedKept ==
  InTurn => \A id \in 0..MaxIds, r \in RequestId : <<id, r>> \in answered =>
              \E doc \in quarantine \cup {disk} : doc # NoDoc /\ doc.id = id /\ doc.done[r] > 0

(* A request sent again, after any crash or lost answer, acts once, unless *)
(* a write has failed or its fingerprint was evicted (applyRequest 458).   *)
RetryActsOnce ==
  InTurn /\ Clean({"failed", "evicted"}) =>
    \A h \in Host, r \in RequestId : Serving(h) => mem[h].done[r] <= 1

(* A restart never forgets a heartbeat that reached either file, in which- *)
(* ever order the two were last written (normalizeDocument 938-942).       *)
HeartbeatKept ==
  InTurn /\ damages = 0 =>
    \A h \in Host : Serving(h) => mem[h].tick >= sidecar /\ mem[h].tick >= disk.tick

(* The two files and the memory of whoever serves agree.                   *)
FilesSound == StoreTypeOK /\ HeartbeatKept

(* A client that follows one ledger id never sees its revision go back;    *)
(* a ledger started anew after a quarantine has another id.  A write that  *)
(* failed breaks this: memory had the next revision, the file had not.     *)
RevisionForward ==
  [][InTurn /\ Clean({"failed"}) /\ shown'.id = shown.id => shown'.rev >= shown.rev]_shown

(* Through crashes at any call, failed writes, late and repeated requests, *)
(* damage and restarts the file is a journal: it only grows under one id,  *)
(* what was acknowledged is in it, only an unreadable one is set aside,    *)
(* whole, and another id begins after it (load, commit, recoverCorrupt).   *)
Written(doc) ==
  IF doc = NoDoc THEN NoDoc
  ELSE [id |-> doc.id, rev |-> doc.rev, done |-> doc.done, readable |-> doc.sound # "text"]
Durable == INSTANCE Journal WITH
  Action <- RequestId, Nothing <- NoDoc,
  file <- Written(disk), kept <- {Written(doc) : doc \in quarantine}, trusted <- InTurn
KeepsAJournal == Durable!Spec
=============================================================================
