-------------------------- MODULE BoardClientProofs --------------------------
(***************************************************************************)
(* Proofs about BoardClient for every set of cards and projects and every  *)
(* number of requests under way: what the tab shows is a state the Host    *)
(* was in, it never goes back, and who is told of a command's success is   *)
(* told the truth; and that the tab is a Replica of the ledger.            *)
(***************************************************************************)
EXTENDS BoardReplica, TLAPS

(* The counters of the bounds.                                             *)
CountsOK == count \in [changes : Nat, commands : Nat, faults : Nat, restarts : Nat, boots : Nat]

(* What each request is for.                                               *)
Purposes ==
  \A s \in Slot :
    /\ call[s].for = "boot" => call[s].what \in {Fetch} \cup Import
    /\ call[s].for = "event" => call[s].what = Fetch

ClientTypes == ClientTypeOK /\ CountsOK /\ Purposes

(* shown is a state the ledger was in, or one of an earlier ledger.        *)
Earlier(shown, ledger) ==
  /\ shown.id <= ledger.id
  /\ shown.id = ledger.id => /\ shown.rev <= ledger.rev
                             /\ shown.rev = ledger.rev => shown.board = ledger.board

(* Until a mishap, all there is of the ledger elsewhere is of its past.    *)
Pasts ==
  mishap \cap {"lost", "mixed"} = {} =>
    /\ Earlier(view, host)
    /\ saved.id = host.id /\ Earlier(saved, host)
    /\ \A s \in Slot : call[s].at = "answered" => Earlier(call[s].snap, host)

(* A card has one request under way, for the oldest of its commands; when  *)
(* it was answered, or is to be told as accepted, the Host has applied it. *)
Truthful(s) ==
  LET k == call[s].for IN
  k \in Key =>
    /\ queue[k] # <<>>
    /\ call[s].what # Fetch => call[s].what = Head(queue[k])
    /\ \/ call[s].what # Fetch /\ call[s].at = "answered"
       \/ call[s].what = Fetch /\ call[s].told
       => Head(queue[k]).n \in applied
OneEach == \A s, r \in Slot : call[s].for = call[r].for /\ call[s].for \in Key => s = r
Told == reported \subseteq applied /\ OneEach /\ \A s \in Slot : Truthful(s)

ClientInv == ClientTypes /\ Pasts /\ SelectionIsShown /\ Told
-----------------------------------------------------------------------------
(* The operators                                                           *)

(* A change is a command of somebody else's.                               *)
Change == [key : Key, kind : DOMAIN Result]

LEMMA WhatIsAsked ==
  /\ \A what \in Import : IsImport(what) /\ what # Fetch /\ what.board \in Board
  /\ \A what \in Command \cup Change : ~IsImport(what) /\ what # Fetch
                                       /\ what.key \in Key /\ what.kind \in DOMAIN Result
  /\ ~IsImport(Fetch)
<1>1. ASSUME NEW what \in Import PROVE IsImport(what) /\ what # Fetch /\ what.board \in Board
  BY DEF Import, IsImport, Fetch
<1>2. ASSUME NEW what \in Command PROVE ~IsImport(what) /\ what # Fetch
                                       /\ what.key \in Key /\ what.kind \in DOMAIN Result
  BY ClientAssumption DEF Command, IsImport, Fetch
<1>3. ASSUME NEW what \in Change PROVE ~IsImport(what) /\ what # Fetch
                                       /\ what.key \in Key /\ what.kind \in DOMAIN Result
  BY ClientAssumption DEF Change, IsImport, Fetch
<1>4. ~IsImport(Fetch)
  BY DEF IsImport
<1> QED BY <1>1, <1>2, <1>3, <1>4

LEMMA ResultIsPlace == \A kind \in DOMAIN Result : Result[kind] \in Place
BY DEF Result, Place

LEMMA LedgerWith ==
  ASSUME NEW ledger \in Ledger, NEW rev \in Nat, NEW board \in Board
  PROVE  LET next == [ledger EXCEPT !.rev = rev, !.board = board] IN
         next \in Ledger /\ next.id = ledger.id /\ next.rev = rev
<1>1. [ledger EXCEPT !.rev = rev] \in Ledger
  BY DEF Ledger
<1>2. [ledger EXCEPT !.rev = rev, !.board = board] = [[ledger EXCEPT !.rev = rev] EXCEPT !.board = board]
  BY DEF Ledger
<1>3. [ledger EXCEPT !.rev = rev, !.board = board] \in Ledger
  BY <1>1, <1>2 DEF Ledger
<1> QED BY <1>3 DEF Ledger

(* What a command makes of the ledger is the next revision of it.          *)
LEMMA DoneIsNext ==
  ASSUME host \in Ledger, NEW what \in Import \cup Command \cup Change
  PROVE  /\ Done(what) \in Ledger
         /\ Done(what).id = host.id /\ Done(what).rev = host.rev + 1
<1>1. CASE IsImport(what)
  <2> DEFINE cards == [k \in Key |-> IF k \in Card /\ host.board[k] = "none" THEN what.board[k] ELSE host.board[k]]
  <2>1. what \in Import /\ what.board \in Board
    BY <1>1, WhatIsAsked
  <2>2. cards \in Board
    BY <2>1 DEF Board, Ledger
  <2>3. Done(what) = [host EXCEPT !.rev = @ + 1, !.sources = TRUE, !.imported = what.board, !.board = cards]
    BY <1>1 DEF Done
  <2> DEFINE next == [host EXCEPT !.rev = host.rev + 1, !.board = cards]
             known == [next EXCEPT !.sources = TRUE]
  <2> HIDE DEF cards
  <2>4. next \in Ledger /\ next.id = host.id /\ next.rev = host.rev + 1
    <3>1. host.rev + 1 \in Nat
      BY DEF Ledger
    <3> QED BY <2>2, <3>1, LedgerWith
  <2>5. Done(what) = [known EXCEPT !.imported = what.board]
    BY <2>3 DEF Ledger
  <2> HIDE DEF next
  <2>6. known \in Ledger /\ known.id = host.id /\ known.rev = host.rev + 1
    BY <2>4 DEF Ledger
  <2> HIDE DEF known
  <2>7. [known EXCEPT !.imported = what.board] \in Ledger
    BY <2>1, <2>6 DEF Ledger
  <2> QED BY <2>5, <2>6, <2>7 DEF Ledger
<1>2. CASE ~IsImport(what)
  <2>1. what.key \in Key /\ Result[what.kind] \in Place
    BY <1>2, WhatIsAsked, ResultIsPlace
  <2> DEFINE cards == [host.board EXCEPT ![what.key] = Result[what.kind]]
  <2>2. cards \in Board
    BY <2>1 DEF Board, Ledger
  <2>3. Done(what) = [host EXCEPT !.rev = @ + 1, !.board = cards]
    BY <1>2 DEF Done, Ledger
  <2> HIDE DEF cards
  <2>4. host.rev + 1 \in Nat
    BY DEF Ledger
  <2> DEFINE next == [host EXCEPT !.rev = host.rev + 1, !.board = cards]
  <2>5. Done(what) = next
    BY <2>3
  <2>6. next \in Ledger /\ next.id = host.id /\ next.rev = host.rev + 1
    BY <2>2, <2>4, LedgerWith
  <2> HIDE DEF next
  <2> QED BY <2>5, <2>6
<1> QED BY <1>1, <1>2

LEMMA CountsGoOn ==
  ASSUME CountsOK, NEW what \in {"changes", "commands", "faults", "restarts", "boots"},
         NEW max, Counts(what, max)
  PROVE  CountsOK'
BY DEF CountsOK, Counts

(* The ledger moves on: to its next revision, written or not.              *)
HostMoves ==
  /\ host' \in Ledger /\ host'.id = host.id /\ host'.rev = host.rev + 1
  /\ saved' \in {saved, host'}
  /\ gone' \subseteq Key
  /\ frames' \in Seq([id : Nat, rev : Nat])

LEMMA CommitMoves ==
  ASSUME ClientTypeOK, NEW next \in Ledger, next.id = host.id, next.rev = host.rev + 1,
         NEW written \in BOOLEAN, Commit(next, written),
         NEW what \in Import \cup Command \cup Change, Gone(what)
  PROVE  HostMoves
<1>1. gone' \subseteq Key
  BY WhatIsAsked DEF Gone, ClientTypeOK
<1>2. Frame(next) \in [id : Nat, rev : Nat]
  BY DEF Frame, Ledger
<1>3. frames' \in Seq([id : Nat, rev : Nat])
  <2>1. frames \in Seq([id : Nat, rev : Nat])
    BY DEF ClientTypeOK
  <2>2. Append(frames, Frame(next)) \in Seq([id : Nat, rev : Nat])
    BY <1>2, <2>1
  <2> QED BY <2>1, <2>2 DEF Commit, Push
<1> QED BY <1>1, <1>3 DEF HostMoves, Commit

LEMMA AppliesMoves ==
  ASSUME ClientTypes, NEW what \in Import \cup Command, NEW written \in BOOLEAN,
         Applies(what, written)
  PROVE  /\ HostMoves /\ CountsOK' /\ applied \subseteq applied'
         /\ what \in Command => what.n \in applied'
<1> DEFINE next == IF written \/ ~IsImport(what) THEN Done(what) ELSE [Done(what) EXCEPT !.imported = Nothing]
<1>1. host \in Ledger /\ ClientTypeOK /\ CountsOK
  BY DEF ClientTypes, ClientTypeOK
<1>2. Done(what) \in Ledger /\ Done(what).id = host.id /\ Done(what).rev = host.rev + 1
  BY <1>1, DoneIsNext
<1>3. next \in Ledger /\ next.id = host.id /\ next.rev = host.rev + 1
  BY <1>2 DEF Ledger
<1>4. Commit(next, written) /\ Gone(what)
  BY DEF Applies
<1>5. HostMoves
  <2> HIDE DEF next
  <2> QED BY <1>1, <1>3, <1>4, CommitMoves
<1>6. CountsOK'
  BY <1>1, CountsGoOn DEF Applies, Fault, CountsOK
<1>7. applied \subseteq applied' /\ (what \in Command => what.n \in applied')
  BY WhatIsAsked DEF Applies
<1> QED BY <1>5, <1>6, <1>7

LEMMA EarlierStays ==
  ASSUME NEW shown \in Shown, NEW old \in Ledger, NEW new \in Ledger,
         new.id = old.id, new.rev = old.rev + 1, Earlier(shown, old)
  PROVE  Earlier(shown, new)
BY DEF Earlier, Shown, Ledger

LEMMA SnapshotIsShown ==
  ASSUME NEW ledger \in Ledger
  PROVE  Snapshot(ledger) \in Shown /\ Earlier(Snapshot(ledger), ledger)
BY DEF Snapshot, Shown, Ledger, Earlier

LEMMA EmptyIsBoard == EmptyBoard \in Board
BY DEF EmptyBoard, Board, Place

LEMMA RequestIsCall ==
  ASSUME NEW purpose \in Key \cup {Nothing, "boot", "event"},
         NEW what \in {Fetch} \cup Import \cup Command, NEW cards \in Board,
         NEW told \in BOOLEAN, NEW keep \in BOOLEAN
  PROVE  Request(purpose, what, cards, told, keep) \in Call
<1>1. Snapshot(NewLedger(0)) \in Shown
  BY EmptyIsBoard DEF Snapshot, NewLedger, Shown
<1> QED BY <1>1 DEF Request, Call

LEMMA FetchIsCall ==
  ASSUME NEW purpose \in Key \cup {Nothing, "boot", "event"},
         NEW told \in BOOLEAN, NEW keep \in BOOLEAN
  PROVE  StateFetch(purpose, told, keep) \in Call
BY RequestIsCall, EmptyIsBoard DEF StateFetch

LEMMA FreeIsCall == Free \in Call
BY FetchIsCall DEF Free
-----------------------------------------------------------------------------
(* What a step leaves alone                                                *)

HostKeeps ==
  /\ host' \in Ledger /\ saved' = saved
  /\ host'.id = host.id /\ host'.rev = host.rev /\ host'.board = host.board

LEMMA PastsStay ==
  ASSUME ClientTypeOK, Pasts, HostKeeps \/ HostMoves, mishap \subseteq mishap',
         view' \in Shown, view' = view \/ (Pasts /\ mishap' \cap {"lost", "mixed"} = {} => Earlier(view', host)),
         \A s \in Slot : call'[s].at = "answered" =>
           \/ call[s].at = "answered" /\ call'[s].snap = call[s].snap
           \/ call'[s].snap = Snapshot(host')
  PROVE  Pasts'
<1> SUFFICES ASSUME mishap' \cap {"lost", "mixed"} = {}
             PROVE  /\ Earlier(view', host')
                    /\ saved'.id = host'.id /\ Earlier(saved', host')
                    /\ \A s \in Slot : call'[s].at = "answered" => Earlier(call'[s].snap, host')
  BY DEF Pasts
<1>1. /\ Earlier(view, host)
      /\ saved.id = host.id /\ Earlier(saved, host)
      /\ \A s \in Slot : call[s].at = "answered" => Earlier(call[s].snap, host)
  BY DEF Pasts
<1>2. host \in Ledger /\ host' \in Ledger /\ saved \in Ledger
  BY DEF ClientTypeOK, HostKeeps, HostMoves
<1>3. ASSUME NEW shown, Earlier(shown, host), shown.id \in Nat, shown.rev \in Nat
      PROVE  Earlier(shown, host')
  BY <1>2, <1>3 DEF HostKeeps, HostMoves, Earlier, Ledger
<1>4. Earlier(view', host)
  BY <1>1
<1>5. Earlier(view', host')
  BY <1>3, <1>4 DEF Shown
<1>6. saved'.id = host'.id /\ Earlier(saved', host')
  <2>1. Earlier(saved, host') /\ Earlier(host', host')
    BY <1>1, <1>2, <1>3 DEF Ledger, Earlier
  <2> QED BY <1>1, <1>2, <2>1 DEF HostKeeps, HostMoves
<1>7. ASSUME NEW s \in Slot, call'[s].at = "answered"
      PROVE  Earlier(call'[s].snap, host')
  <2>1. call[s].snap.id \in Nat /\ call[s].snap.rev \in Nat
    BY DEF ClientTypeOK, Call, Shown
  <2>2. Earlier(Snapshot(host'), host')
    BY <1>2, SnapshotIsShown
  <2> QED BY <1>1, <1>3, <1>7, <2>1, <2>2
<1> QED BY <1>5, <1>6, <1>7

(* The requests of s asked the same before.                                *)
SameRequest(s) ==
  call'[s].for = call[s].for /\ call'[s].what = call[s].what /\ call'[s].told = call[s].told

LEMMA ToldStays ==
  ASSUME Told, UNCHANGED <<queue, reported>>, applied \subseteq applied',
         \A s \in Slot :
           \/ call'[s].for \notin Key
           \/ /\ SameRequest(s)
              /\ call'[s].at = "answered" =>
                   \/ call[s].at = "answered" \/ call[s].what = Fetch
                   \/ call[s].what.n \in applied'
  PROVE  Told'
<1>1. (reported \subseteq applied)'
  BY DEF Told
<1>2. OneEach'
  BY DEF Told, OneEach, SameRequest
<1>3. ASSUME NEW s \in Slot PROVE Truthful(s)'
  <2>1. CASE call'[s].for \notin Key
    BY <2>1 DEF Truthful
  <2>2. CASE call'[s].for \in Key
    <3>1. SameRequest(s) /\ Truthful(s) /\ call[s].for \in Key
      BY <2>2 DEF Told, SameRequest
    <3>2. queue' = queue
      OBVIOUS
    <3> DEFINE k == call[s].for
    <3>3. queue[k] # <<>> /\ (call[s].what # Fetch => call[s].what = Head(queue[k]))
      BY <3>1 DEF Truthful
    <3>4. ASSUME call[s].what # Fetch, call'[s].at = "answered"
          PROVE  Head(queue[k]).n \in applied'
      BY <2>2, <3>1, <3>3, <3>4 DEF Truthful
    <3>5. ASSUME call[s].what = Fetch, call'[s].told
          PROVE  Head(queue[k]).n \in applied'
      BY <2>2, <3>1, <3>3, <3>5 DEF Truthful, SameRequest
    <3> QED BY <3>1, <3>2, <3>3, <3>4, <3>5 DEF Truthful, SameRequest
  <2> QED BY <2>1, <2>2
<1> QED BY <1>1, <1>2, <1>3 DEF Told

LEMMA AskKeeps ==
  ASSUME call \in [Slot -> Call], Purposes, NEW s \in Slot, NEW request \in Call, Ask(s, request),
         request.for = "boot" => request.what \in {Fetch} \cup Import,
         request.for = "event" => request.what = Fetch
  PROVE  /\ call' \in [Slot -> Call] /\ Purposes'
         /\ call'[s] = request /\ \A r \in Slot \ {s} : call'[r] = call[r]
<1>1. /\ call' \in [Slot -> Call]
      /\ call'[s] = request /\ \A r \in Slot \ {s} : call'[r] = call[r]
  BY DEF Ask
<1> QED BY <1>1 DEF Purposes

LEMMA AnswerKeeps ==
  ASSUME call \in [Slot -> Call], Purposes, NEW s \in Slot, NEW ledger \in Ledger, Answer(s, ledger)
  PROVE  /\ call' \in [Slot -> Call] /\ Purposes'
         /\ call'[s].snap = Snapshot(ledger) /\ call'[s].at = "answered"
         /\ \A r \in Slot : SameRequest(r)
         /\ \A r \in Slot \ {s} : call'[r] = call[r]
<1>1. Snapshot(ledger) \in Shown
  BY SnapshotIsShown
<1>2. call' = [call EXCEPT ![s] = [call[s] EXCEPT !.snap = Snapshot(ledger), !.at = "answered"]]
  BY DEF Answer
<1> DEFINE first == [call[s] EXCEPT !.snap = Snapshot(ledger)]
           new == [first EXCEPT !.at = "answered"]
<1>3. first \in Call /\ first.for = call[s].for /\ first.what = call[s].what
      /\ first.told = call[s].told /\ first.snap = Snapshot(ledger)
  BY <1>1 DEF Call
<1>4. [call[s] EXCEPT !.snap = Snapshot(ledger), !.at = "answered"] = new
  BY DEF Call
<1> HIDE DEF first
<1>5. new \in Call /\ new.for = call[s].for /\ new.what = call[s].what
      /\ new.told = call[s].told /\ new.snap = Snapshot(ledger) /\ new.at = "answered"
  BY <1>3 DEF Call
<1> HIDE DEF new
<1>6. call' = [call EXCEPT ![s] = new]
  BY <1>2, <1>4
<1>7. call' \in [Slot -> Call] /\ call'[s] = new /\ \A r \in Slot \ {s} : call'[r] = call[r]
  BY <1>5, <1>6
<1>8. \A r \in Slot : SameRequest(r)
  BY <1>5, <1>7 DEF SameRequest
<1>9. Purposes'
  BY <1>8 DEF Purposes, SameRequest
<1> QED BY <1>5, <1>7, <1>8, <1>9

LEMMA FailKeeps ==
  ASSUME call \in [Slot -> Call], Purposes, NEW s \in Slot, Fail(s)
  PROVE  /\ call' \in [Slot -> Call] /\ Purposes'
         /\ call'[s].at = "failed"
         /\ \A r \in Slot : SameRequest(r)
         /\ \A r \in Slot \ {s} : call'[r] = call[r]
<1> DEFINE new == [call[s] EXCEPT !.at = "failed"]
<1>1. call' = [call EXCEPT ![s] = new]
  BY DEF Fail
<1>2. new \in Call /\ new.for = call[s].for /\ new.what = call[s].what
      /\ new.told = call[s].told /\ new.at = "failed"
  BY DEF Call
<1> HIDE DEF new
<1>3. call' \in [Slot -> Call] /\ call'[s] = new /\ \A r \in Slot \ {s} : call'[r] = call[r]
  BY <1>1, <1>2
<1>4. \A r \in Slot : SameRequest(r)
  BY <1>2, <1>3 DEF SameRequest
<1>5. Purposes'
  BY <1>4 DEF Purposes, SameRequest
<1> QED BY <1>2, <1>3, <1>4, <1>5
-----------------------------------------------------------------------------
(* What the tab shows                                                      *)

Ui == [selected : Card \cup {Nothing}, archiveView : BOOLEAN,
       filter : Project \cup {Nothing}, error : BOOLEAN]

(* The selections u point at something that is shown.                      *)
PointsAt(u, shown) ==
  /\ u.selected # Nothing => /\ shown.board[u.selected] # "none"
                             /\ shown.board[u.selected] = "archived" => u.archiveView
  /\ u.filter # Nothing => shown.board[u.filter] # "none"

LEMMA ShowingPoints ==
  ASSUME ui \in Ui, NEW snap \in Shown
  PROVE  UiShowing(snap) \in Ui /\ PointsAt(UiShowing(snap), snap)
<1> DEFINE filter == IF ui.filter # Nothing /\ snap.board[ui.filter] = "none" THEN Nothing ELSE ui.filter
           selected == IF /\ ui.selected # Nothing
                          /\ \/ snap.board[ui.selected] = "none"
                             \/ ~ui.archiveView /\ snap.board[ui.selected] = "archived"
                       THEN Nothing ELSE ui.selected
           first == [ui EXCEPT !.error = FALSE]
           second == [first EXCEPT !.filter = filter]
           third == [second EXCEPT !.selected = selected]
<1>1. filter \in Project \cup {Nothing} /\ selected \in Card \cup {Nothing}
  BY DEF Ui
<1>2. filter # Nothing => snap.board[filter] # "none"
  OBVIOUS
<1>3. selected # Nothing => snap.board[selected] # "none" /\ (snap.board[selected] = "archived" => ui.archiveView)
  BY DEF Ui
<1>4. UiShowing(snap) = third
  BY DEF UiShowing, Ui
<1>5. first \in Ui /\ first.archiveView = ui.archiveView
  BY DEF Ui
<1> HIDE DEF first, filter, selected
<1>6. second \in Ui /\ second.archiveView = ui.archiveView /\ second.filter = filter
  BY <1>1, <1>5 DEF Ui
<1> HIDE DEF second
<1>7. third \in Ui /\ third.archiveView = ui.archiveView /\ third.filter = filter /\ third.selected = selected
  BY <1>1, <1>6 DEF Ui
<1> HIDE DEF third
<1> QED BY <1>2, <1>3, <1>4, <1>7 DEF PointsAt

LEMMA DonePoints ==
  ASSUME NEW c, NEW u \in Ui, NEW shown, PointsAt(u, shown)
  PROVE  AfterDone(c, u) \in Ui /\ PointsAt(AfterDone(c, u), shown)
<1> DEFINE selected == IF c.kind = "restore" /\ u.selected = c.key THEN Nothing ELSE u.selected
           filter == IF c.kind = "delete" /\ u.filter = c.key THEN Nothing ELSE u.filter
           first == [u EXCEPT !.selected = selected]
           second == [first EXCEPT !.filter = filter]
<1>1. filter \in {Nothing, u.filter} /\ selected \in {Nothing, u.selected}
  OBVIOUS
<1>2. AfterDone(c, u) = second
  BY DEF AfterDone, Ui
<1> HIDE DEF filter, selected
<1>3. first \in Ui /\ first.archiveView = u.archiveView /\ first.selected = selected
  BY <1>1 DEF Ui
<1> HIDE DEF first
<1>4. second \in Ui /\ second.archiveView = u.archiveView /\ second.selected = selected /\ second.filter = filter
  BY <1>1, <1>3 DEF Ui
<1> HIDE DEF second
<1> QED BY <1>1, <1>2, <1>4 DEF PointsAt

LEMMA ErrorPoints ==
  ASSUME NEW u \in Ui, NEW shown, PointsAt(u, shown), NEW error \in BOOLEAN
  PROVE  [u EXCEPT !.error = error] \in Ui /\ PointsAt([u EXCEPT !.error = error], shown)
BY DEF Ui, PointsAt

LEMMA ViewPoints ==
  ASSUME ui \in Ui, view \in Shown, PointsAt(ui, view), NEW snap \in Shown
  PROVE  /\ ViewAfter(snap) \in Shown /\ ViewAfter(snap) \in {view, snap}
         /\ UiAfter(snap) \in Ui /\ PointsAt(UiAfter(snap), ViewAfter(snap))
BY ShowingPoints DEF ViewAfter, UiAfter
-----------------------------------------------------------------------------
(* Every step keeps the invariant                                          *)

LEMMA InitClient == ClientInit => ClientInv
<1> SUFFICES ASSUME ClientInit PROVE ClientInv
  OBVIOUS
<1>1. PICK board \in StartBoards : host = [NewLedger(1) EXCEPT !.board = board]
  BY DEF ClientInit
<1>2. host \in Ledger /\ host.id = 1
  BY <1>1, ClientAssumption DEF NewLedger, Ledger
<1>3. PICK old \in OldCards : view = [id |-> 0, rev |-> 0, board |-> [k \in Key |-> IF k \in old THEN "new" ELSE "none"]]
  BY DEF ClientInit
<1>4. view \in Shown /\ view.id = 0
  BY <1>3 DEF Shown, Board, Place
<1>5. call = [s \in Slot |-> Free] /\ Free.for = Nothing /\ Free.at = "asked"
  BY DEF ClientInit, Free, StateFetch, Request
<1>6. call \in [Slot -> Call]
  BY <1>5, FreeIsCall
<1>7. ui \in Ui /\ ui.selected = Nothing /\ ui.filter = Nothing
  BY DEF ClientInit, Ui
<1>8. ClientTypeOK
  BY <1>2, <1>4, <1>6, <1>7 DEF ClientTypeOK, ClientInit, Ui
<1>9. CountsOK
  BY DEF ClientInit, CountsOK
<1>10. Purposes
  BY <1>5, ClientAssumption DEF Purposes
<1>11. Pasts
  BY <1>2, <1>4, <1>5 DEF Pasts, Earlier, ClientInit, Ledger
<1>12. SelectionIsShown
  BY <1>7 DEF SelectionIsShown
<1>13. Told
  BY <1>5, ClientAssumption DEF Told, OneEach, Truthful, ClientInit
<1> QED BY <1>8, <1>9, <1>10, <1>11, <1>12, <1>13 DEF ClientInv, ClientTypes

(* A step of the Host alone: the tab and its requests stay as they are.    *)
LEMMA HostStepKeeps ==
  ASSUME ClientInv, HostKeeps \/ HostMoves, UNCHANGED tabVars,
         gone' \subseteq Key, frames' \in Seq([id : Nat, rev : Nat]), CountsOK',
         strays' \subseteq Command \cup Import, stream' \in {"none", "closed", "open", "dead"},
         mishap \subseteq mishap', mishap' \subseteq {"lost", "mixed", "dead"},
         applied \subseteq applied', call' \in [Slot -> Call], Purposes',
         \A r \in Slot :
           /\ SameRequest(r)
           /\ call'[r].at = "answered" =>
                \/ call[r].at = "answered" /\ call'[r].snap = call[r].snap
                \/ /\ call'[r].snap = Snapshot(host')
                   /\ call[r].what \in Command => call[r].what.n \in applied'
  PROVE  ClientInv'
<1>1. UNCHANGED <<view, ui, queue, booting, marker, reported>>
  BY DEF tabVars
<1>2. ClientTypes /\ ClientTypeOK /\ Pasts /\ Told /\ SelectionIsShown
  BY DEF ClientInv, ClientTypes
<1>3. host' \in Ledger /\ saved' \in Ledger
  BY <1>2 DEF HostKeeps, HostMoves, ClientTypeOK
<1>4. ClientTypeOK'
  BY <1>1, <1>2, <1>3 DEF ClientTypeOK
<1>5. Pasts'
  BY <1>1, <1>2, <1>4, PastsStay DEF ClientTypeOK
<1>6. Told'
  <2>1. ASSUME NEW r \in Slot, call[r].for \in Key
        PROVE  call[r].what = Fetch \/ call[r].what \in Command
    <3>1. queue[call[r].for] # <<>> /\ (call[r].what # Fetch => call[r].what = Head(queue[call[r].for]))
      BY <1>2, <2>1 DEF Told, Truthful
    <3>2. queue[call[r].for] \in Seq(Command)
      BY <1>2, <2>1 DEF ClientTypeOK
    <3> QED BY <3>1, <3>2
  <2>2. \A r \in Slot :
           \/ call'[r].for \notin Key
           \/ /\ SameRequest(r)
              /\ call'[r].at = "answered" =>
                   \/ call[r].at = "answered" \/ call[r].what = Fetch
                   \/ call[r].what.n \in applied'
    BY <2>1 DEF SameRequest
  <2> QED BY <1>1, <1>2, <2>2, ToldStays
<1>7. SelectionIsShown'
  BY <1>1, <1>2 DEF SelectionIsShown
<1> QED BY <1>4, <1>5, <1>6, <1>7 DEF ClientInv, ClientTypes

LEMMA RememberedKeeps ==
  ASSUME host \in Ledger, NEW what \in {Fetch} \cup Import \cup Command, Remembered(what), saved' = saved
  PROVE  HostKeeps
BY WhatIsAsked DEF Remembered, HostKeeps, Ledger

LEMMA HostAnswersKeeps ==
  ASSUME ClientInv, NEW s \in Slot, HostAnswers(s)
  PROVE  ClientInv'
<1> DEFINE what == call[s].what
<1>1. ClientTypes /\ ClientTypeOK /\ CountsOK /\ Purposes
  BY DEF ClientInv, ClientTypes
<1>2. what \in {Fetch} \cup Import \cup Command /\ call \in [Slot -> Call]
  BY <1>1 DEF ClientTypeOK, Call
<1>3. /\ UNCHANGED <<tabVars, strays, stream, mishap>>
      /\ strays \subseteq Command \cup Import /\ gone \subseteq Key
      /\ stream \in {"none", "closed", "open", "dead"}
      /\ mishap \subseteq {"lost", "mixed", "dead"}
      /\ frames \in Seq([id : Nat, rev : Nat]) /\ host \in Ledger
  BY <1>1 DEF HostAnswers, ClientTypeOK
<1>4. CASE /\ what = Fetch \/ (~Refused(what) /\ Known(what))
           /\ Answer(s, host) /\ Remembered(what)
           /\ UNCHANGED <<saved, gone, frames, count, applied>>
  <2>1. HostKeeps
    BY <1>2, <1>3, <1>4, RememberedKeeps
  <2>2. Snapshot(host') = Snapshot(host)
    BY <2>1 DEF HostKeeps, Snapshot
  <2>3. what \notin Command
    BY <1>4, WhatIsAsked DEF Known
  <2>4. /\ call' \in [Slot -> Call] /\ Purposes'
        /\ call'[s].snap = Snapshot(host)
        /\ \A r \in Slot : SameRequest(r)
        /\ \A r \in Slot \ {s} : call'[r] = call[r]
    BY <1>1, <1>2, <1>3, <1>4, AnswerKeeps
  <2>5. CountsOK'
    BY <1>1, <1>4 DEF CountsOK
  <2> QED BY <1>3, <1>4, <2>1, <2>2, <2>3, <2>4, <2>5, HostStepKeeps
<1>5. CASE Refused(what) /\ Fail(s) /\ UNCHANGED <<hostVars, frames, count, applied>>
  <2>1. UNCHANGED <<host, saved, gone>>
    BY <1>5 DEF hostVars
  <2>2. HostKeeps
    BY <1>3, <2>1 DEF HostKeeps
  <2>3. /\ call' \in [Slot -> Call] /\ Purposes'
        /\ call'[s].at = "failed"
        /\ \A r \in Slot : SameRequest(r)
        /\ \A r \in Slot \ {s} : call'[r] = call[r]
    BY <1>1, <1>2, <1>5, FailKeeps
  <2>4. CountsOK'
    BY <1>1, <1>5 DEF CountsOK
  <2> QED BY <1>3, <1>5, <2>1, <2>2, <2>3, <2>4, HostStepKeeps
<1>6. CASE /\ what # Fetch
           /\ \E written \in BOOLEAN :
                /\ Applies(what, written)
                /\ IF written THEN Answer(s, Done(what)) ELSE Fail(s)
  <2>1. PICK written \in BOOLEAN : /\ Applies(what, written)
                                   /\ IF written THEN Answer(s, Done(what)) ELSE Fail(s)
    BY <1>6
  <2>2. /\ HostMoves /\ CountsOK' /\ applied \subseteq applied'
        /\ what \in Command => what.n \in applied'
    BY <1>1, <1>2, <1>6, <2>1, AppliesMoves
  <2>3. gone' \subseteq Key /\ frames' \in Seq([id : Nat, rev : Nat])
    BY <2>2 DEF HostMoves
  <2>4. CASE written
    <3>1. host' = Done(what) /\ host' \in Ledger
      BY <2>1, <2>2, <2>4 DEF Applies, Commit, HostMoves
    <3>2. Answer(s, host')
      BY <2>1, <2>4, <3>1 DEF Answer, Snapshot
    <3>3. /\ call' \in [Slot -> Call] /\ Purposes'
          /\ call'[s].snap = Snapshot(host')
          /\ \A r \in Slot : SameRequest(r)
          /\ \A r \in Slot \ {s} : call'[r] = call[r]
      <4> DEFINE ledger == host'
      <4>1. ledger \in Ledger /\ Answer(s, ledger)
        BY <3>1, <3>2
      <4> HIDE DEF ledger
      <4>2. /\ call' \in [Slot -> Call] /\ Purposes'
            /\ call'[s].snap = Snapshot(ledger)
            /\ \A r \in Slot : SameRequest(r)
            /\ \A r \in Slot \ {s} : call'[r] = call[r]
        BY <1>1, <1>2, <4>1, AnswerKeeps
      <4> QED BY <4>2 DEF ledger
    <3> QED BY <1>3, <2>2, <2>3, <3>3, HostStepKeeps
  <2>5. CASE ~written
    <3>1. /\ call' \in [Slot -> Call] /\ Purposes'
          /\ call'[s].at = "failed"
          /\ \A r \in Slot : SameRequest(r)
          /\ \A r \in Slot \ {s} : call'[r] = call[r]
      BY <1>1, <1>2, <2>1, <2>5, FailKeeps
    <3> QED BY <1>3, <2>2, <2>3, <3>1, HostStepKeeps
  <2> QED BY <2>4, <2>5
<1> QED BY <1>4, <1>5, <1>6 DEF HostAnswers

LEMMA StrayArrivesKeeps ==
  ASSUME ClientInv, StrayArrives
  PROVE  ClientInv'
<1>1. ClientTypes /\ ClientTypeOK /\ CountsOK /\ Purposes
  BY DEF ClientInv, ClientTypes
<1>2. /\ UNCHANGED <<tabVars, call, stream, mishap>>
      /\ strays \subseteq Command \cup Import /\ gone \subseteq Key
      /\ stream \in {"none", "closed", "open", "dead"}
      /\ mishap \subseteq {"lost", "mixed", "dead"}
      /\ frames \in Seq([id : Nat, rev : Nat]) /\ host \in Ledger
      /\ call' \in [Slot -> Call]
  BY <1>1 DEF StrayArrives, ClientTypeOK
<1>3. Purposes' /\ (\A r \in Slot : SameRequest(r) /\ call'[r] = call[r])
  BY <1>1, <1>2 DEF Purposes, SameRequest
<1>4. PICK what \in strays :
        /\ strays' = strays \ {what}
        /\ \/ Applies(what, TRUE)
           \/ Refused(what) /\ UNCHANGED <<hostVars, frames, count, applied>>
           \/ /\ ~Refused(what) /\ Known(what) /\ Remembered(what)
              /\ UNCHANGED <<saved, gone, frames, count, applied>>
  BY DEF StrayArrives
<1>5. what \in Command \cup Import /\ strays' \subseteq Command \cup Import
  BY <1>2, <1>4
<1>6. CASE Applies(what, TRUE)
  <2>1. HostMoves /\ CountsOK' /\ applied \subseteq applied'
    BY <1>1, <1>5, <1>6, AppliesMoves
  <2>2. gone' \subseteq Key /\ frames' \in Seq([id : Nat, rev : Nat])
    BY <2>1 DEF HostMoves
  <2> QED BY <1>2, <1>3, <1>5, <2>1, <2>2, HostStepKeeps
<1>7. CASE UNCHANGED <<hostVars, frames, count, applied>>
  <2>1. HostKeeps /\ gone' = gone
    BY <1>2, <1>7 DEF hostVars, HostKeeps
  <2>2. CountsOK'
    BY <1>1, <1>7 DEF CountsOK
  <2> QED BY <1>2, <1>3, <1>5, <1>7, <2>1, <2>2, HostStepKeeps
<1>8. CASE Remembered(what) /\ UNCHANGED <<saved, gone, frames, count, applied>>
  <2>1. HostKeeps
    BY <1>2, <1>5, <1>8, RememberedKeeps
  <2>2. CountsOK'
    BY <1>1, <1>8 DEF CountsOK
  <2> QED BY <1>2, <1>3, <1>5, <1>8, <2>1, <2>2, HostStepKeeps
<1> QED BY <1>4, <1>6, <1>7, <1>8
LEMMA TimesOutKeeps ==
  ASSUME ClientInv, NEW s \in Slot, TimesOut(s)
  PROVE  ClientInv'
<1>1. ClientTypes /\ ClientTypeOK /\ CountsOK /\ Purposes
  BY DEF ClientInv, ClientTypes
<1>2. /\ call \in [Slot -> Call] /\ Fail(s)
      /\ UNCHANGED <<hostVars, tabVars, stream, frames, mishap, applied>>
      /\ gone \subseteq Key /\ stream \in {"none", "closed", "open", "dead"}
      /\ mishap \subseteq {"lost", "mixed", "dead"}
      /\ frames \in Seq([id : Nat, rev : Nat]) /\ host \in Ledger
  BY <1>1 DEF TimesOut, ClientTypeOK
<1>3. /\ call' \in [Slot -> Call] /\ Purposes'
      /\ call'[s].at = "failed"
      /\ \A r \in Slot : SameRequest(r)
      /\ \A r \in Slot \ {s} : call'[r] = call[r]
  BY <1>1, <1>2, FailKeeps
<1>4. strays' \subseteq Command \cup Import
  <2>1. strays \subseteq Command \cup Import /\ call[s].what \in {Fetch} \cup Import \cup Command
    BY <1>1, <1>2 DEF ClientTypeOK, Call
  <2> QED BY <2>1 DEF TimesOut
<1>5. CountsOK'
  BY <1>1, CountsGoOn DEF TimesOut, Fault
<1>6. HostKeeps /\ gone' = gone
  BY <1>2 DEF hostVars, HostKeeps
<1> QED BY <1>2, <1>3, <1>4, <1>5, <1>6, HostStepKeeps

LEMMA StreamKeeps ==
  ASSUME ClientInv, Connects \/ StreamDies \/ Heartbeat
  PROVE  ClientInv'
<1>1. ClientTypes /\ ClientTypeOK /\ CountsOK /\ Purposes
  BY DEF ClientInv, ClientTypes
<1>2. /\ UNCHANGED <<hostVars, tabVars, call, strays, applied>>
      /\ gone \subseteq Key /\ strays \subseteq Command \cup Import
      /\ frames \in Seq([id : Nat, rev : Nat]) /\ host \in Ledger
      /\ call' \in [Slot -> Call]
      /\ mishap \subseteq {"lost", "mixed", "dead"}
      /\ stream \in {"none", "closed", "open", "dead"}
  BY <1>1 DEF Connects, StreamDies, Heartbeat, ClientTypeOK
<1>3. Purposes' /\ (\A r \in Slot : SameRequest(r) /\ call'[r] = call[r])
  BY <1>1, <1>2 DEF Purposes, SameRequest
<1>4. HostKeeps /\ gone' = gone
  BY <1>2 DEF hostVars, HostKeeps
<1>5. CountsOK'
  BY <1>1, CountsGoOn DEF Connects, StreamDies, Heartbeat, Fault, CountsOK
<1>6. Frame(host) \in [id : Nat, rev : Nat]
  BY <1>2 DEF Frame, Ledger
<1>7. frames' \in Seq([id : Nat, rev : Nat])
  <2>1. <<Frame(host)>> \in Seq([id : Nat, rev : Nat]) /\ Append(frames, Frame(host)) \in Seq([id : Nat, rev : Nat])
    BY <1>2, <1>6
  <2> QED BY <1>2, <2>1 DEF Connects, StreamDies, Heartbeat, Push
<1>8. /\ mishap \subseteq mishap' /\ mishap' \subseteq {"lost", "mixed", "dead"}
      /\ stream' \in {"none", "closed", "open", "dead"}
  BY <1>2 DEF Connects, StreamDies, Heartbeat
<1> QED BY <1>2, <1>3, <1>4, <1>5, <1>7, <1>8, HostStepKeeps

LEMMA OtherChangeKeeps ==
  ASSUME ClientInv, OtherChange
  PROVE  ClientInv'
<1>1. ClientTypes /\ ClientTypeOK /\ CountsOK /\ Purposes
  BY DEF ClientInv, ClientTypes
<1>2. /\ UNCHANGED <<tabVars, call, strays, stream, mishap, applied>>
      /\ strays \subseteq Command \cup Import
      /\ host \in Ledger /\ call' \in [Slot -> Call]
      /\ mishap \subseteq {"lost", "mixed", "dead"}
      /\ stream \in {"none", "closed", "open", "dead"}
  BY <1>1 DEF OtherChange, ClientTypeOK
<1>3. Purposes' /\ (\A r \in Slot : SameRequest(r) /\ call'[r] = call[r])
  BY <1>1, <1>2 DEF Purposes, SameRequest
<1>4. PICK k \in Key : \E kind \in Kinds(k) :
        Commit(Done([key |-> k, kind |-> kind]), TRUE) /\ Gone([key |-> k, kind |-> kind])
  BY DEF OtherChange
<1>11. PICK kind \in Kinds(k) :
        Commit(Done([key |-> k, kind |-> kind]), TRUE) /\ Gone([key |-> k, kind |-> kind])
  BY <1>4
<1> DEFINE what == [key |-> k, kind |-> kind]
<1>5. what \in Change
  <2>1. kind \in DOMAIN Result
    BY <1>11 DEF Kinds, Result
  <2> QED BY <2>1 DEF Change
<1>6. Commit(Done(what), TRUE) /\ Gone(what)
  BY <1>11
<1> HIDE DEF what
<1>7. Done(what) \in Ledger /\ Done(what).id = host.id /\ Done(what).rev = host.rev + 1
  BY <1>2, <1>5, DoneIsNext
<1>8. HostMoves
  BY <1>1, <1>5, <1>6, <1>7, CommitMoves
<1>9. CountsOK'
  BY <1>1, CountsGoOn DEF OtherChange
<1>10. gone' \subseteq Key /\ frames' \in Seq([id : Nat, rev : Nat])
  BY <1>8 DEF HostMoves
<1> QED BY <1>2, <1>3, <1>8, <1>9, <1>10, HostStepKeeps

(* The file is of the same ledger and not newer, so when the memory is     *)
(* what the file holds nothing is lost, and when it is not, that is known. *)
LEMMA RestartKeeps ==
  ASSUME ClientInv, Restart
  PROVE  ClientInv'
<1>1. ClientTypes /\ ClientTypeOK /\ CountsOK /\ Purposes /\ Pasts /\ Told /\ SelectionIsShown
  BY DEF ClientInv, ClientTypes
<1>2. /\ UNCHANGED <<tabVars, applied>> /\ saved' = host'
      /\ strays' = {} /\ frames' = <<>>
      /\ call' = [s \in Slot |-> IF Waiting(s) /\ call[s].at = "asked" THEN [call[s] EXCEPT !.at = "failed"] ELSE call[s]]
  BY DEF Restart
<1>3. UNCHANGED <<view, ui, queue, booting, marker, reported>>
  BY <1>2 DEF tabVars
<1>4. PICK reset \in BOOLEAN :
       /\ host' = (IF reset THEN NewLedger(host.id + 1) ELSE saved)
       /\ gone' = IF reset THEN {} ELSE gone
       /\ mishap' = IF ~reset /\ host.rev # saved.rev THEN mishap \cup {"lost"} ELSE mishap
  BY DEF Restart
<1>5. host \in Ledger /\ saved \in Ledger /\ call \in [Slot -> Call] /\ view \in Shown
  BY <1>1 DEF ClientTypeOK
<1>6. host' \in Ledger
  <2>1. NewLedger(host.id + 1) \in Ledger
    BY <1>5, EmptyIsBoard DEF NewLedger, Ledger
  <2> QED BY <1>4, <1>5, <2>1
<1>7. \A s \in Slot : /\ call'[s] \in Call /\ SameRequest(s)
                      /\ call'[s].at = "answered" => call'[s] = call[s]
  <2> SUFFICES ASSUME NEW s \in Slot
               PROVE  /\ call'[s] \in Call /\ SameRequest(s)
                      /\ call'[s].at = "answered" => call'[s] = call[s]
    OBVIOUS
  <2> DEFINE failed == [call[s] EXCEPT !.at = "failed"]
  <2>1. call'[s] \in {failed, call[s]}
    BY <1>2
  <2>2. call[s] \in Call
    BY <1>5
  <2>3. failed \in Call /\ failed.at = "failed" /\ failed.for = call[s].for
        /\ failed.what = call[s].what /\ failed.told = call[s].told
    BY <2>2 DEF Call
  <2> HIDE DEF failed
  <2> QED BY <2>1, <2>2, <2>3 DEF SameRequest
<1>8. call' \in [Slot -> Call] /\ Purposes'
  BY <1>1, <1>2, <1>7 DEF Purposes, SameRequest
<1>9. CountsOK'
  BY <1>1, CountsGoOn DEF Restart
<1>10. ClientTypeOK'
  <2>1. gone' \subseteq Key /\ mishap' \subseteq {"lost", "mixed", "dead"}
    BY <1>1, <1>4 DEF ClientTypeOK
  <2>2. stream' \in {"none", "closed", "open", "dead"}
    BY <1>1 DEF ClientTypeOK, Restart
  <2>3. frames' \in Seq([id : Nat, rev : Nat])
    BY <1>2
  <2> QED BY <1>1, <1>2, <1>3, <1>6, <1>8, <2>1, <2>2, <2>3 DEF ClientTypeOK
<1>11. Pasts'
  <2> SUFFICES ASSUME mishap' \cap {"lost", "mixed"} = {}
               PROVE  /\ Earlier(view', host')
                      /\ saved'.id = host'.id /\ Earlier(saved', host')
                      /\ \A s \in Slot : call'[s].at = "answered" => Earlier(call'[s].snap, host')
    BY DEF Pasts
  <2>1. mishap \cap {"lost", "mixed"} = {}
    BY <1>4
  <2>2. /\ Earlier(view, host) /\ saved.id = host.id /\ Earlier(saved, host)
        /\ \A s \in Slot : call[s].at = "answered" => Earlier(call[s].snap, host)
    BY <1>1, <2>1 DEF Pasts
  <2>3. ASSUME NEW shown \in Shown, Earlier(shown, host)
        PROVE  Earlier(shown, host')
    <3>1. CASE reset
      BY <1>4, <1>5, <2>3, <3>1 DEF Earlier, NewLedger, Shown, Ledger
    <3>2. CASE ~reset
      <4>1. host' = saved /\ host.rev = saved.rev
        BY <1>4, <3>2
      <4>2. saved.board = host.board /\ saved.id = host.id
        BY <1>5, <2>2, <4>1 DEF Earlier
      <4> QED BY <2>3, <4>1, <4>2 DEF Earlier
    <3> QED BY <3>1, <3>2
  <2>4. Earlier(view', host')
    BY <1>3, <1>5, <2>2, <2>3
  <2>5. Earlier(saved', host') /\ saved'.id = host'.id
    BY <1>2, <1>6 DEF Earlier, Ledger
  <2>6. ASSUME NEW s \in Slot, call'[s].at = "answered" PROVE Earlier(call'[s].snap, host')
    <3>1. call'[s] = call[s] /\ call[s].snap \in Shown
      BY <1>5, <1>7, <2>6 DEF Call
    <3> QED BY <2>2, <2>3, <2>6, <3>1
  <2> QED BY <2>4, <2>5, <2>6
<1>12. Told'
  BY <1>1, <1>2, <1>3, <1>7, ToldStays
<1>13. SelectionIsShown'
  BY <1>1, <1>3 DEF SelectionIsShown
<1> QED BY <1>8, <1>9, <1>10, <1>11, <1>12, <1>13 DEF ClientInv, ClientTypes
(* A step of the tab: it shows what it had, or an answer.                  *)
LEMMA TabStepKeeps ==
  ASSUME ClientInv, UNCHANGED <<hostVars, applied>>, strays' = strays,
         view' \in Shown, ui' \in Ui, SelectionIsShown', Told', CountsOK', Purposes',
         call' \in [Slot -> Call], queue' \in [Key -> Seq(Command)],
         frames' \in Seq([id : Nat, rev : Nat]), stream' \in {"none", "closed", "open", "dead"},
         mishap \subseteq mishap', mishap' \subseteq {"lost", "mixed", "dead"},
         \/ view' = view
         \/ \E s \in Slot : call[s].at = "answered" /\ view' = call[s].snap
         \/ "mixed" \in mishap',
         \A s \in Slot : call'[s].at = "answered" => call'[s] = call[s]
  PROVE  ClientInv'
<1>1. ClientTypeOK /\ Pasts
  BY DEF ClientInv, ClientTypes
<1>2. ClientTypeOK'
  BY <1>1 DEF ClientTypeOK, hostVars, Ui
<1>3. HostKeeps
  BY <1>1 DEF HostKeeps, hostVars, ClientTypeOK
<1>4. view' = view \/ (Pasts /\ mishap' \cap {"lost", "mixed"} = {} => Earlier(view', host))
  BY DEF Pasts
<1>5. Pasts'
  BY <1>1, <1>3, <1>4, PastsStay
<1> QED BY <1>2, <1>5 DEF ClientInv, ClientTypes

(* What a step of the tab may rely on.                                     *)
LEMMA TabKnows ==
  ASSUME ClientInv
  PROVE  /\ Told /\ Purposes /\ CountsOK /\ OneEach
         /\ host \in Ledger /\ view \in Shown /\ ui \in Ui /\ PointsAt(ui, view)
         /\ call \in [Slot -> Call] /\ queue \in [Key -> Seq(Command)]
         /\ frames \in Seq([id : Nat, rev : Nat]) /\ stream \in {"none", "closed", "open", "dead"}
         /\ mishap \subseteq {"lost", "mixed", "dead"}
BY DEF ClientInv, ClientTypes, ClientTypeOK, Ui, Told, SelectionIsShown, PointsAt

LEMMA AskOtherKeeps ==
  ASSUME Told, call \in [Slot -> Call], Purposes, NEW s \in Slot, NEW request \in Call, Ask(s, request),
         request.for = "boot" => request.what \in {Fetch} \cup Import,
         request.for = "event" => request.what = Fetch,
         request.for \notin Key, request.at = "asked",
         UNCHANGED <<queue, reported, applied>>
  PROVE  /\ call' \in [Slot -> Call] /\ Purposes' /\ Told'
         /\ \A r \in Slot : call'[r].at = "answered" => call'[r] = call[r]
<1>1. /\ call' \in [Slot -> Call] /\ Purposes'
      /\ call'[s] = request /\ \A r \in Slot \ {s} : call'[r] = call[r]
  BY AskKeeps
<1>2. \A r \in Slot :
           \/ call'[r].for \notin Key
           \/ /\ SameRequest(r)
              /\ call'[r].at = "answered" =>
                   \/ call[r].at = "answered" \/ call[r].what = Fetch
                   \/ call[r].what.n \in applied'
  BY <1>1 DEF SameRequest
<1>3. Told'
  BY <1>2, ToldStays
<1> QED BY <1>1, <1>3

LEMMA FreeFields == Free.for = Nothing /\ Free.what = Fetch /\ Free.at = "asked"
BY DEF Free, StateFetch, Request

LEMMA FreeKeeps ==
  ASSUME Told, call \in [Slot -> Call], Purposes, NEW s \in Slot, Ask(s, Free),
         UNCHANGED <<queue, reported, applied>>
  PROVE  /\ call' \in [Slot -> Call] /\ Purposes' /\ Told'
         /\ \A r \in Slot : call'[r].at = "answered" => call'[r] = call[r]
BY AskOtherKeeps, FreeFields, FreeIsCall, ClientAssumption

LEMMA EventKeeps ==
  ASSUME Told, call \in [Slot -> Call], Purposes, NEW s \in Slot, Ask(s, StateFetch("event", FALSE, FALSE)),
         UNCHANGED <<queue, reported, applied>>
  PROVE  /\ call' \in [Slot -> Call] /\ Purposes' /\ Told'
         /\ \A r \in Slot : call'[r].at = "answered" => call'[r] = call[r]
<1> DEFINE request == StateFetch("event", FALSE, FALSE)
<1>1. request \in Call
  BY FetchIsCall
<1>2. request.for = "event" /\ request.what = Fetch /\ request.at = "asked"
  BY DEF StateFetch, Request
<1>3. Ask(s, request)
  OBVIOUS
<1> HIDE DEF request
<1>4. "event" \notin Key /\ "event" # "boot"
  BY ClientAssumption
<1> QED BY <1>1, <1>2, <1>3, <1>4, AskOtherKeeps

LEMMA BootKeeps ==
  ASSUME ClientInv, NEW s \in Slot, Boot(s)
  PROVE  ClientInv'
<1>1. /\ UNCHANGED <<hostVars, view, ui, queue, marker, reported, strays, stream, frames, mishap, applied>>
      /\ Ask(s, Request("boot", Fetch, view.board, FALSE, FALSE))
  BY DEF Boot
<1> DEFINE request == Request("boot", Fetch, view.board, FALSE, FALSE)
<1>2. request \in Call
  <2>1. view.board \in Board
    BY TabKnows DEF Shown
  <2> QED BY <2>1, RequestIsCall
<1>3. request.for = "boot" /\ request.what = Fetch /\ request.at = "asked" /\ Ask(s, request)
  BY <1>1 DEF Request
<1> HIDE DEF request
<1>4. "boot" \notin Key /\ "boot" # "event"
  BY ClientAssumption
<1>5. /\ call' \in [Slot -> Call] /\ Purposes' /\ Told'
      /\ \A r \in Slot : call'[r].at = "answered" => call'[r] = call[r]
  BY <1>1, <1>2, <1>3, <1>4, AskOtherKeeps, TabKnows
<1>6. CountsOK'
  BY TabKnows, CountsGoOn DEF Boot
<1>7. SelectionIsShown'
  BY <1>1 DEF ClientInv, SelectionIsShown
<1> QED BY <1>1, <1>5, <1>6, <1>7, TabKnows, TabStepKeeps

LEMMA BootAnsweredKeeps ==
  ASSUME ClientInv, NEW s \in Slot, BootAnswered(s)
  PROVE  ClientInv'
<1> DEFINE snap == call[s].snap
           imports == call[s].what = Fetch /\ Cards(call[s].cards) # {} /\ marker # snap.id
<1>1. /\ call[s].at = "answered"
      /\ UNCHANGED <<hostVars, queue, reported, strays, frames, count, mishap, applied>>
  BY DEF BootAnswered
<1>2. snap \in Shown /\ call[s].cards \in Board
  BY TabKnows DEF Call
<1>3. CountsOK'
  BY <1>1, TabKnows DEF CountsOK
<1>4. CASE imports
  <2> DEFINE request == Request("boot", ImportOf(call[s].cards), EmptyBoard, FALSE, FALSE)
  <2>1. ImportOf(call[s].cards) \in Import
    BY <1>2, EmptyIsBoard DEF ImportOf, Import, Board, Place
  <2>2. request \in Call
    BY <2>1, EmptyIsBoard, RequestIsCall
  <2>3. request.for = "boot" /\ request.what \in Import /\ request.at = "asked"
    BY <2>1 DEF Request
  <2>4. Ask(s, request) /\ UNCHANGED <<view, ui, booting, stream, marker>>
    BY <1>4 DEF BootAnswered
  <2> HIDE DEF request
  <2>5. "boot" \notin Key /\ "boot" # "event"
    BY ClientAssumption
  <2>6. /\ call' \in [Slot -> Call] /\ Purposes' /\ Told'
        /\ \A r \in Slot : call'[r].at = "answered" => call'[r] = call[r]
    BY <1>1, <2>2, <2>3, <2>4, <2>5, AskOtherKeeps, TabKnows
  <2>7. SelectionIsShown'
    BY <2>4 DEF ClientInv, SelectionIsShown
  <2> QED BY <1>1, <1>3, <2>4, <2>6, <2>7, TabKnows, TabStepKeeps
<1>5. CASE ~imports
  <2>1. /\ view' = ViewAfter(snap) /\ ui' = UiAfter(snap)
        /\ stream' = IF stream = "none" THEN "closed" ELSE stream
        /\ Ask(s, Free)
    BY <1>5 DEF BootAnswered, Booted
  <2>2. /\ call' \in [Slot -> Call] /\ Purposes' /\ Told'
        /\ \A r \in Slot : call'[r].at = "answered" => call'[r] = call[r]
    BY <1>1, <2>1, FreeKeeps, TabKnows
  <2>3. /\ view' \in Shown /\ view' \in {view, snap}
        /\ ui' \in Ui /\ SelectionIsShown'
    BY <1>2, <2>1, ViewPoints, TabKnows DEF PointsAt, SelectionIsShown
  <2>4. stream' \in {"none", "closed", "open", "dead"}
    BY <2>1, TabKnows
  <2> QED BY <1>1, <1>3, <2>2, <2>3, <2>4, TabKnows, TabStepKeeps
<1> QED BY <1>4, <1>5

LEMMA BootFailedKeeps ==
  ASSUME ClientInv, NEW s \in Slot, BootFailed(s)
  PROVE  ClientInv'
<1>1. /\ UNCHANGED <<hostVars, view, queue, marker, reported, strays, stream, frames, count, mishap, applied>>
      /\ Ask(s, Free) /\ ui' = [ui EXCEPT !.error = TRUE]
  BY DEF BootFailed
<1>2. CountsOK'
  BY <1>1, TabKnows DEF CountsOK
<1>3. /\ call' \in [Slot -> Call] /\ Purposes' /\ Told'
      /\ \A r \in Slot : call'[r].at = "answered" => call'[r] = call[r]
  BY <1>1, FreeKeeps, TabKnows
<1>4. ui' \in Ui /\ SelectionIsShown'
  BY <1>1, ErrorPoints, TabKnows DEF PointsAt, SelectionIsShown
<1> QED BY <1>1, <1>2, <1>3, <1>4, TabKnows, TabStepKeeps

LEMMA FrameArrivesKeeps ==
  ASSUME ClientInv, FrameArrives
  PROVE  ClientInv'
<1> DEFINE frame == Head(frames)
<1>1. /\ frames # <<>> /\ frames' = Tail(frames)
      /\ UNCHANGED <<hostVars, ui, queue, booting, marker, reported, strays, stream, count, applied>>
  BY DEF FrameArrives
<1>2. frame \in [id : Nat, rev : Nat] /\ frames' \in Seq([id : Nat, rev : Nat])
  <2> DEFINE F == [id : Nat, rev : Nat]
  <2>1. frames \in Seq(F)
    BY TabKnows
  <2> HIDE DEF F
  <2>2. Head(frames) \in F /\ Tail(frames) \in Seq(F)
    BY <1>1, <2>1
  <2> QED BY <1>1, <2>2 DEF F
<1>3. CountsOK'
  BY <1>1, TabKnows DEF CountsOK
<1>4. CASE frame.rev = view.rev
  <2>1. /\ view' = [view EXCEPT !.id = frame.id]
        /\ mishap' = IF frame.id = view.id THEN mishap ELSE mishap \cup {"mixed"}
        /\ UNCHANGED call
    BY <1>4 DEF FrameArrives
  <2>2. view' \in Shown /\ view'.board = view.board
    BY <1>2, <2>1, TabKnows DEF Shown
  <2>3. view' = view \/ "mixed" \in mishap'
    BY <2>1, TabKnows DEF Shown
  <2>4. SelectionIsShown'
    BY <1>1, <2>2 DEF ClientInv, SelectionIsShown
  <2>5. Purposes' /\ Told'
    BY <1>1, <2>1, TabKnows DEF Purposes, Told, OneEach, Truthful
  <2>6. mishap \subseteq mishap' /\ mishap' \subseteq {"lost", "mixed", "dead"}
    BY <2>1, TabKnows
  <2> QED BY <1>1, <1>2, <1>3, <2>1, <2>2, <2>3, <2>4, <2>5, <2>6, TabKnows, TabStepKeeps
<1>5. CASE frame.rev # view.rev
  <2>1. UNCHANGED <<view, mishap>> /\ \E s \in Slot : Ask(s, StateFetch("event", FALSE, FALSE))
    BY <1>5 DEF FrameArrives
  <2>2. PICK s \in Slot : Ask(s, StateFetch("event", FALSE, FALSE))
    BY <2>1
  <2>3. /\ call' \in [Slot -> Call] /\ Purposes' /\ Told'
        /\ \A r \in Slot : call'[r].at = "answered" => call'[r] = call[r]
    BY <1>1, <2>2, EventKeeps, TabKnows
  <2>4. SelectionIsShown'
    BY <1>1, <2>1 DEF ClientInv, SelectionIsShown
  <2> QED BY <1>1, <1>2, <1>3, <2>1, <2>3, <2>4, TabKnows, TabStepKeeps
<1> QED BY <1>4, <1>5

LEMMA VisibleKeeps ==
  ASSUME ClientInv, NEW s \in Slot, Visible(s)
  PROVE  ClientInv'
<1>1. /\ UNCHANGED <<hostVars, tabVars, strays, stream, frames, mishap, applied>>
      /\ Ask(s, StateFetch("event", FALSE, FALSE)) /\ Counts("commands", MaxCommands)
  BY DEF Visible, Gesture
<1>2. CountsOK'
  BY <1>1, TabKnows, CountsGoOn
<1>3. UNCHANGED <<view, ui, queue, reported>>
  BY <1>1 DEF tabVars
<1>4. /\ call' \in [Slot -> Call] /\ Purposes' /\ Told'
      /\ \A r \in Slot : call'[r].at = "answered" => call'[r] = call[r]
  BY <1>1, <1>3, EventKeeps, TabKnows
<1>5. SelectionIsShown'
  BY <1>3 DEF ClientInv, SelectionIsShown
<1> QED BY <1>1, <1>2, <1>3, <1>4, <1>5, TabKnows, TabStepKeeps

LEMMA RefreshedKeeps ==
  ASSUME ClientInv, NEW s \in Slot, Refreshed(s)
  PROVE  ClientInv'
<1>1. /\ UNCHANGED <<hostVars, queue, booting, marker, reported, strays, stream, frames, count, mishap, applied>>
      /\ Ask(s, Free)
  BY DEF Refreshed
<1>2. CountsOK'
  BY <1>1, TabKnows DEF CountsOK
<1>3. /\ call' \in [Slot -> Call] /\ Purposes' /\ Told'
      /\ \A r \in Slot : call'[r].at = "answered" => call'[r] = call[r]
  BY <1>1, FreeKeeps, TabKnows
<1>4. CASE call[s].at = "answered" /\ view' = ViewAfter(call[s].snap) /\ ui' = UiAfter(call[s].snap)
  <2>1. call[s].snap \in Shown
    BY TabKnows DEF Call
  <2>2. /\ view' \in Shown /\ view' \in {view, call[s].snap}
        /\ ui' \in Ui /\ SelectionIsShown'
    BY <1>4, <2>1, ViewPoints, TabKnows DEF PointsAt, SelectionIsShown
  <2> QED BY <1>1, <1>2, <1>3, <1>4, <2>2, TabKnows, TabStepKeeps
<1>5. CASE ui' = [ui EXCEPT !.error = TRUE] /\ UNCHANGED view
  <2>1. ui' \in Ui /\ SelectionIsShown'
    BY <1>5, ErrorPoints, TabKnows DEF PointsAt, SelectionIsShown
  <2> QED BY <1>1, <1>2, <1>3, <1>5, <2>1, TabKnows, TabStepKeeps
<1> QED BY <1>4, <1>5 DEF Refreshed
LEMMA AppendKeepsHead ==
  ASSUME NEW S, NEW q \in Seq(S), NEW e \in S
  PROVE  /\ Append(q, e) \in Seq(S) /\ Append(q, e) # <<>>
         /\ q # <<>> => Head(Append(q, e)) = Head(q)
<1>1. Append(q, e) \in Seq(S) /\ Len(Append(q, e)) = Len(q) + 1 /\ Len(q) \in Nat
  OBVIOUS
<1>2. ASSUME q # <<>> PROVE Append(q, e)[1] = q[1]
  BY <1>2
<1>3. Append(q, e) # <<>>
  BY <1>1
<1> QED BY <1>1, <1>2, <1>3

LEMMA SubmitKeeps ==
  ASSUME ClientInv, NEW k \in Key, NEW kind \in DOMAIN Result, Submit(k, kind)
  PROVE  ClientInv'
<1> DEFINE command == [key |-> k, kind |-> kind, n |-> count.commands + 1]
<1>1. /\ UNCHANGED <<hostVars, view, ui, booting, marker, reported, netVars, mishap, applied>>
      /\ queue' = [queue EXCEPT ![k] = Append(@, command)]
      /\ Counts("commands", MaxCommands)
  BY DEF Submit, Gesture
<1>2. UNCHANGED <<call, strays, stream, frames>>
  BY <1>1 DEF netVars
<1>3. CountsOK'
  BY <1>1, TabKnows, CountsGoOn
<1>4. command \in Command
  <2>1. count.commands \in Nat /\ count.commands < MaxCommands
    BY <1>1, TabKnows DEF Counts, CountsOK
  <2>2. count.commands + 1 \in 1..MaxCommands
    BY <2>1, ClientAssumption
  <2> QED BY <2>2 DEF Command
<1> HIDE DEF command
<1>5. queue' \in [Key -> Seq(Command)] /\ (\A j \in Key : queue[j] # <<>> => queue'[j] # <<>> /\ Head(queue'[j]) = Head(queue[j]))
  <2>1. queue[k] \in Seq(Command)
    BY TabKnows
  <2>2. Append(queue[k], command) \in Seq(Command) /\ Append(queue[k], command) # <<>>
        /\ (queue[k] # <<>> => Head(Append(queue[k], command)) = Head(queue[k]))
    BY <1>4, <2>1, AppendKeepsHead
  <2>3. queue' = [queue EXCEPT ![k] = Append(queue[k], command)]
    BY <1>1
  <2> QED BY <2>2, <2>3, TabKnows
<1>6. Told'
  <2>1. OneEach' /\ (reported \subseteq applied)'
    BY <1>1, <1>2, TabKnows DEF Told, OneEach
  <2>2. ASSUME NEW s \in Slot PROVE Truthful(s)'
    <3>1. Truthful(s)
      BY TabKnows DEF Told
    <3> QED BY <1>1, <1>2, <1>5, <3>1 DEF Truthful
  <2> QED BY <2>1, <2>2 DEF Told
<1>7. Purposes' /\ SelectionIsShown'
  BY <1>1, <1>2, TabKnows DEF Purposes, ClientInv, SelectionIsShown
<1> QED BY <1>1, <1>2, <1>3, <1>5, <1>6, <1>7, TabKnows, TabStepKeeps

LEMMA PerformKeeps ==
  ASSUME ClientInv, NEW k \in Key, Perform(k)
  PROVE  ClientInv'
<1>1. /\ queue[k] # <<>> /\ ~Performing(k)
      /\ ui' = [ui EXCEPT !.error = FALSE]
      /\ UNCHANGED <<hostVars, view, queue, booting, marker, reported, strays, stream, frames,
                 count, mishap, applied>>
  BY DEF Perform
<1>2. PICK s \in Slot : Ask(s, Request(k, Head(queue[k]), EmptyBoard, FALSE, FALSE))
  BY DEF Perform
<1> DEFINE request == Request(k, Head(queue[k]), EmptyBoard, FALSE, FALSE)
<1>3. Head(queue[k]) \in Command
  BY <1>1, TabKnows
<1>4. request \in Call
  BY <1>3, RequestIsCall, EmptyIsBoard
<1>5. request.for = k /\ request.what = Head(queue[k]) /\ request.at = "asked" /\ request.told = FALSE
  BY DEF Request
<1>6. Ask(s, request)
  BY <1>2
<1> HIDE DEF request
<1>7. k \notin {"boot", "event", Nothing}
  BY ClientAssumption
<1>8. /\ call' \in [Slot -> Call] /\ Purposes'
      /\ call'[s] = request /\ \A r \in Slot \ {s} : call'[r] = call[r]
  BY <1>4, <1>5, <1>6, <1>7, AskKeeps, TabKnows
<1>9. \A r \in Slot : call[r].for # k
  BY <1>1, <1>7 DEF Performing, Waiting
<1>10. Told'
  <2>1. OneEach'
    <3> SUFFICES ASSUME NEW p \in Slot, NEW r \in Slot, call'[p].for = call'[r].for, call'[p].for \in Key, p # r
                 PROVE  FALSE
      BY DEF OneEach
    <3>1. CASE p = s
      BY <1>5, <1>8, <1>9, <3>1
    <3>2. CASE r = s
      BY <1>5, <1>8, <1>9, <3>2
    <3>3. CASE p # s /\ r # s
      BY <1>8, <3>3, TabKnows DEF OneEach
    <3> QED BY <3>1, <3>2, <3>3
  <2>2. (reported \subseteq applied)'
    BY <1>1, TabKnows DEF Told
  <2>3. ASSUME NEW r \in Slot PROVE Truthful(r)'
    <3>1. CASE r = s
      BY <1>1, <1>3, <1>5, <1>8, <3>1, WhatIsAsked DEF Truthful
    <3>2. CASE r # s
      <4>1. Truthful(r) /\ call'[r] = call[r]
        BY <1>8, <3>2, TabKnows DEF Told
      <4> QED BY <1>1, <4>1 DEF Truthful
    <3> QED BY <3>1, <3>2
  <2> QED BY <2>1, <2>2, <2>3 DEF Told
<1>11. CountsOK'
  BY <1>1, TabKnows DEF CountsOK
<1>12. ui' \in Ui /\ SelectionIsShown'
  BY <1>1, ErrorPoints, TabKnows DEF PointsAt, SelectionIsShown
<1>13. \A r \in Slot : call'[r].at = "answered" => call'[r] = call[r]
  BY <1>5, <1>8
<1> QED BY <1>1, <1>8, <1>10, <1>11, <1>12, <1>13, TabKnows, TabStepKeeps

(* A command leaves its queue; who was told, was told the truth.           *)
LEMMA FinishedKeeps ==
  ASSUME ClientInv, NEW k \in Key, NEW s \in Slot, NEW told \in BOOLEAN,
         call[s].for = k, told => Head(queue[k]).n \in applied,
         Finished(k, told), Ask(s, Free), UNCHANGED applied
  PROVE  /\ call' \in [Slot -> Call] /\ Purposes' /\ Told'
         /\ queue' \in [Key -> Seq(Command)]
         /\ \A r \in Slot : call'[r].at = "answered" => call'[r] = call[r]
<1>1. /\ call' \in [Slot -> Call] /\ Purposes'
      /\ call'[s] = Free /\ \A r \in Slot \ {s} : call'[r] = call[r]
  BY FreeIsCall, FreeFields, AskKeeps, TabKnows, ClientAssumption
<1>2. queue[k] \in Seq(Command) /\ queue[k] # <<>>
  BY TabKnows DEF Told, Truthful
<1>3. queue' = [queue EXCEPT ![k] = Tail(@)] /\ reported' = IF told THEN reported \cup {Head(queue[k]).n} ELSE reported
  BY DEF Finished
<1>4. queue' \in [Key -> Seq(Command)] /\ \A j \in Key \ {k} : queue'[j] = queue[j]
  <2>1. Tail(queue[k]) \in Seq(Command)
    BY <1>2
  <2> QED BY <1>3, <2>1, TabKnows
<1>5. (reported \subseteq applied)'
  BY <1>3, TabKnows DEF Told
<1>6. OneEach'
  BY <1>1, FreeFields, TabKnows, ClientAssumption DEF OneEach
<1>7. ASSUME NEW r \in Slot PROVE Truthful(r)'
  <2>1. CASE r = s
    BY <1>1, <2>1, FreeFields, ClientAssumption DEF Truthful
  <2>2. CASE r # s
    <3>1. Truthful(r) /\ call'[r] = call[r]
      BY <1>1, <2>2, TabKnows DEF Told
    <3>2. call[r].for \in Key => call[r].for # k
      BY <2>2, TabKnows DEF OneEach
    <3> QED BY <1>4, <3>1, <3>2 DEF Truthful
  <2> QED BY <2>1, <2>2
<1>8. Told'
  BY <1>5, <1>6, <1>7 DEF Told
<1> QED BY <1>1, <1>4, <1>8, FreeFields

(* The state is fetched after a command; true is kept for one that was     *)
(* applied.                                                                *)
LEMMA FetchKeeps ==
  ASSUME ClientInv, NEW k \in Key, NEW s \in Slot, NEW told \in BOOLEAN, NEW keep \in BOOLEAN,
         call[s].for = k, told => Head(queue[k]).n \in applied,
         Ask(s, StateFetch(k, told, keep)), UNCHANGED <<queue, reported, applied>>
  PROVE  /\ call' \in [Slot -> Call] /\ Purposes' /\ Told'
         /\ \A r \in Slot : call'[r].at = "answered" => call'[r] = call[r]
<1> DEFINE request == StateFetch(k, told, keep)
<1>1. request \in Call
  BY FetchIsCall
<1>2. request.for = k /\ request.what = Fetch /\ request.at = "asked" /\ request.told = told
  BY DEF StateFetch, Request
<1>3. Ask(s, request)
  OBVIOUS
<1> HIDE DEF request
<1>4. k \notin {"boot", "event", Nothing}
  BY ClientAssumption
<1>5. /\ call' \in [Slot -> Call] /\ Purposes'
      /\ call'[s] = request /\ \A r \in Slot \ {s} : call'[r] = call[r]
  BY <1>1, <1>2, <1>3, <1>4, AskKeeps, TabKnows
<1>6. OneEach'
  BY <1>2, <1>5, TabKnows DEF OneEach
<1>7. ASSUME NEW r \in Slot PROVE Truthful(r)'
  <2>1. CASE r = s
    <3>1. queue[k] # <<>>
      BY TabKnows DEF Told, Truthful
    <3> QED BY <1>2, <1>5, <2>1, <3>1 DEF Truthful
  <2>2. CASE r # s
    <3>1. Truthful(r) /\ call'[r] = call[r]
      BY <1>5, <2>2, TabKnows DEF Told
    <3> QED BY <3>1 DEF Truthful
  <2> QED BY <2>1, <2>2
<1>8. Told'
  BY <1>6, <1>7, TabKnows DEF Told
<1> QED BY <1>2, <1>5, <1>8

LEMMA CommandAnsweredKeeps ==
  ASSUME ClientInv, NEW k \in Key, NEW s \in Slot, CommandAnswered(k, s)
  PROVE  ClientInv'
<1>1. /\ call[s].for = k /\ call[s].what # Fetch
      /\ UNCHANGED <<hostVars, booting, marker, strays, stream, frames, count, mishap, applied>>
  BY DEF CommandAnswered
<1>2. call[s].at = "answered" => Head(queue[k]).n \in applied
  BY <1>1, TabKnows DEF Told, Truthful
<1>3. CountsOK'
  BY <1>1, TabKnows DEF CountsOK
<1>4. CASE /\ call[s].at = "answered" /\ Accepts(call[s].snap)
           /\ view' = call[s].snap
           /\ ui' = AfterDone(Head(queue[k]), UiShowing(call[s].snap))
           /\ Finished(k, TRUE) /\ Ask(s, Free)
  <2>1. /\ call' \in [Slot -> Call] /\ Purposes' /\ Told'
        /\ queue' \in [Key -> Seq(Command)]
        /\ \A r \in Slot : call'[r].at = "answered" => call'[r] = call[r]
    BY <1>1, <1>2, <1>4, FinishedKeeps
  <2>2. call[s].snap \in Shown
    BY TabKnows DEF Call
  <2>3. UiShowing(call[s].snap) \in Ui /\ PointsAt(UiShowing(call[s].snap), call[s].snap)
    BY <2>2, ShowingPoints, TabKnows
  <2>4. ui' \in Ui /\ PointsAt(ui', view')
    BY <1>4, <2>3, DonePoints
  <2>5. SelectionIsShown'
    BY <2>4 DEF PointsAt, SelectionIsShown
  <2> QED BY <1>1, <1>3, <1>4, <2>1, <2>2, <2>4, <2>5, TabKnows, TabStepKeeps
<1>5. ASSUME NEW told \in BOOLEAN, NEW keep \in BOOLEAN, told => call[s].at = "answered",
             Ask(s, StateFetch(k, told, keep)), UNCHANGED <<view, ui, queue, reported>>
      PROVE  ClientInv'
  <2>1. /\ call' \in [Slot -> Call] /\ Purposes' /\ Told'
        /\ \A r \in Slot : call'[r].at = "answered" => call'[r] = call[r]
    BY <1>1, <1>2, <1>5, FetchKeeps
  <2>2. SelectionIsShown'
    BY <1>5 DEF ClientInv, SelectionIsShown
  <2> QED BY <1>1, <1>3, <1>5, <2>1, <2>2, TabKnows, TabStepKeeps
<1> QED BY <1>4, <1>5 DEF CommandAnswered

LEMMA CommandRefreshedKeeps ==
  ASSUME ClientInv, NEW k \in Key, NEW s \in Slot, CommandRefreshed(k, s)
  PROVE  ClientInv'
<1> DEFINE snap == call[s].snap
           told == call[s].told
<1>1. /\ call[s].for = k /\ call[s].what = Fetch /\ Ask(s, Free)
      /\ UNCHANGED <<hostVars, booting, marker, strays, stream, frames, count, mishap, applied>>
  BY DEF CommandRefreshed
<1>2. told => Head(queue[k]).n \in applied
  BY <1>1, TabKnows DEF Told, Truthful
<1>3. CountsOK'
  BY <1>1, TabKnows DEF CountsOK
<1>4. snap \in Shown /\ told \in BOOLEAN /\ call[s].keep \in BOOLEAN
  BY TabKnows DEF Call
<1>5. CASE /\ call[s].at = "answered" /\ view' = ViewAfter(snap)
           /\ LET u == [UiAfter(snap) EXCEPT !.error = @ \/ call[s].keep] IN
              ui' = IF told THEN AfterDone(Head(queue[k]), u) ELSE u
           /\ Finished(k, told)
  <2>1. /\ call' \in [Slot -> Call] /\ Purposes' /\ Told'
        /\ queue' \in [Key -> Seq(Command)]
        /\ \A r \in Slot : call'[r].at = "answered" => call'[r] = call[r]
    BY <1>1, <1>2, <1>4, <1>5, FinishedKeeps
  <2>2. /\ view' \in Shown /\ view' \in {view, snap}
        /\ UiAfter(snap) \in Ui /\ PointsAt(UiAfter(snap), view')
    BY <1>4, <1>5, ViewPoints, TabKnows
  <2> DEFINE error == UiAfter(snap).error \/ call[s].keep
             u == [UiAfter(snap) EXCEPT !.error = error]
  <2>3. error \in BOOLEAN
    OBVIOUS
  <2>4. ui' = IF told THEN AfterDone(Head(queue[k]), u) ELSE u
    BY <1>5
  <2> HIDE DEF error
  <2>5. u \in Ui /\ PointsAt(u, view')
    BY <2>2, <2>3, ErrorPoints
  <2> HIDE DEF u
  <2>6. ui' \in Ui /\ PointsAt(ui', view')
    BY <2>4, <2>5, DonePoints
  <2>7. SelectionIsShown'
    BY <2>6 DEF PointsAt, SelectionIsShown
  <2> QED BY <1>1, <1>3, <1>5, <2>1, <2>2, <2>6, <2>7, TabKnows, TabStepKeeps
<1>6. CASE /\ ui' = [ui EXCEPT !.error = TRUE] /\ UNCHANGED view
           /\ Finished(k, FALSE)
  <2>1. /\ call' \in [Slot -> Call] /\ Purposes' /\ Told'
        /\ queue' \in [Key -> Seq(Command)]
        /\ \A r \in Slot : call'[r].at = "answered" => call'[r] = call[r]
    BY <1>1, <1>6, FinishedKeeps
  <2>2. ui' \in Ui /\ SelectionIsShown'
    BY <1>6, ErrorPoints, TabKnows DEF PointsAt, SelectionIsShown
  <2> QED BY <1>1, <1>3, <1>6, <2>1, <2>2, TabKnows, TabStepKeeps
<1> QED BY <1>5, <1>6 DEF CommandRefreshed

LEMMA ViewStepKeeps ==
  ASSUME ClientInv, ViewStays, Gesture, ui' \in Ui, SelectionIsShown'
  PROVE  ClientInv'
<1>1. UNCHANGED <<hostVars, view, queue, booting, marker, reported, call, strays, stream, frames, mishap, applied>>
  BY DEF ViewStays, netVars
<1>2. CountsOK'
  BY TabKnows, CountsGoOn DEF Gesture
<1>3. Purposes' /\ Told'
  BY <1>1, TabKnows DEF Purposes, Told, OneEach, Truthful
<1> QED BY <1>1, <1>2, <1>3, TabKnows, TabStepKeeps

LEMMA UserKeeps ==
  ASSUME ClientInv, UserNext
  PROVE  ClientInv'
<1>1. ASSUME NEW k \in Key, NEW kind \in DOMAIN Result, Submit(k, kind) PROVE ClientInv'
  BY <1>1, SubmitKeeps
<1>2. ASSUME NEW c \in Card, OpenTask(c) PROVE ClientInv'
  <2>1. /\ ui' = [ui EXCEPT !.selected = c] /\ view' = view
        /\ view.board[c] # "none" /\ (ui.archiveView <=> view.board[c] = "archived")
    BY <1>2 DEF OpenTask, ViewStays
  <2>2. ui' \in Ui /\ SelectionIsShown'
    BY <2>1, TabKnows DEF PointsAt, SelectionIsShown, Ui
  <2> QED BY <1>2, <2>2, ViewStepKeeps DEF OpenTask
<1>3. ASSUME CloseTask PROVE ClientInv'
  <2>1. ui' = [ui EXCEPT !.selected = Nothing] /\ view' = view
    BY <1>3 DEF CloseTask, ViewStays
  <2>2. ui' \in Ui /\ SelectionIsShown'
    BY <2>1, TabKnows DEF PointsAt, SelectionIsShown, Ui
  <2> QED BY <1>3, <2>2, ViewStepKeeps DEF CloseTask
<1>4. ASSUME ToggleArchiveView PROVE ClientInv'
  <2> DEFINE selected == IF ui.selected # Nothing /\ ui.archiveView /\ view.board[ui.selected] = "archived"
                         THEN Nothing ELSE ui.selected
             first == [ui EXCEPT !.archiveView = ~ui.archiveView]
  <2>1. ui' = [first EXCEPT !.selected = selected] /\ view' = view
    BY <1>4, TabKnows DEF ToggleArchiveView, ViewStays, Ui
  <2>2. first \in Ui /\ first.archiveView = ~ui.archiveView /\ first.filter = ui.filter
    BY TabKnows DEF Ui
  <2>3. selected \in Card \cup {Nothing} /\ selected \in {Nothing, ui.selected}
        /\ (selected # Nothing /\ view.board[selected] = "archived" => ~ui.archiveView)
    BY TabKnows DEF Ui
  <2> HIDE DEF first, selected
  <2>4. ui' \in Ui /\ ui'.selected = selected /\ ui'.archiveView = ~ui.archiveView /\ ui'.filter = ui.filter
    BY <2>1, <2>2, <2>3 DEF Ui
  <2>5. SelectionIsShown'
    BY <2>1, <2>3, <2>4, TabKnows DEF PointsAt, SelectionIsShown
  <2> QED BY <1>4, <2>4, <2>5, ViewStepKeeps DEF ToggleArchiveView
<1>5. ASSUME NEW p \in Project \cup {Nothing}, SetSelectedProject(p) PROVE ClientInv'
  <2>1. ui' = [ui EXCEPT !.filter = p] /\ view' = view /\ (p # Nothing => view.board[p] # "none")
    BY <1>5 DEF SetSelectedProject, ViewStays
  <2>2. ui' \in Ui /\ SelectionIsShown'
    BY <2>1, TabKnows DEF PointsAt, SelectionIsShown, Ui
  <2> QED BY <1>5, <2>2, ViewStepKeeps DEF SetSelectedProject
<1> QED BY <1>1, <1>2, <1>3, <1>4, <1>5 DEF UserNext

LEMMA StutterKeeps == ClientInv /\ UNCHANGED clientVars => ClientInv'
<1> SUFFICES ASSUME ClientInv, UNCHANGED clientVars PROVE ClientInv'
  OBVIOUS
<1>1. UNCHANGED <<host, saved, gone, view, ui, queue, booting, marker, reported,
                  call, strays, stream, frames, count, mishap, applied>>
  BY DEF clientVars, hostVars, tabVars, netVars
<1>2. ClientTypeOK'
  BY <1>1 DEF ClientInv, ClientTypes, ClientTypeOK
<1>3. CountsOK' /\ Purposes'
  BY <1>1 DEF ClientInv, ClientTypes, CountsOK, Purposes
<1>4. Pasts'
  BY <1>1 DEF ClientInv, Pasts, Earlier
<1>5. SelectionIsShown' /\ Told'
  BY <1>1 DEF ClientInv, SelectionIsShown, Told, OneEach, Truthful
<1> QED BY <1>2, <1>3, <1>4, <1>5 DEF ClientInv, ClientTypes

LEMMA NextClient == ClientInv /\ [ClientNext]_clientVars => ClientInv'
<1> SUFFICES ASSUME ClientInv, ClientNext PROVE ClientInv'
  BY StutterKeeps
<1>1. ASSUME NEW s \in Slot, Boot(s) \/ Visible(s) \/ TimesOut(s) PROVE ClientInv'
  BY <1>1, BootKeeps, VisibleKeeps, TimesOutKeeps
<1>2. CASE HostRuns
  BY <1>2, HostAnswersKeeps DEF HostRuns
<1>3. CASE RepliesArrive
  BY <1>3, BootAnsweredKeeps, BootFailedKeeps, RefreshedKeeps, CommandAnsweredKeeps, CommandRefreshedKeeps
     DEF RepliesArrive, Replies
<1>4. CASE Sends
  BY <1>4, PerformKeeps DEF Sends
<1> QED BY <1>1, <1>2, <1>3, <1>4, FrameArrivesKeeps, UserKeeps, StrayArrivesKeeps, StreamKeeps,
           OtherChangeKeeps, RestartKeeps DEF ClientNext

-----------------------------------------------------------------------------
(* Tab, network and Host agree in every reachable state.                   *)
THEOREM ClientInvariance == ClientSpec => []ClientInv
BY InitClient, NextClient, PTL DEF ClientSpec

(* What the tab shows at the Host's revision is what the Host has, and the *)
(* detail view and the filter point at something it shows (acceptRemote).  *)
THEOREM ViewIsSound == ClientSpec => []ViewSound
<1>1. ClientInv => ViewSound
  BY DEF ClientInv, ClientTypes, ViewSound, Pasts, Earlier, SameRevisionSameBoard
<1> QED BY <1>1, ClientInvariance, PTL

(* A form is told of success only when the Host has applied its command,   *)
(* whatever overtook, timed out or was fetched instead (performRemote).    *)
THEOREM TheTruthIsTold == ClientSpec => []ToldIsApplied
<1>1. ClientInv => ToldIsApplied
  BY DEF ClientInv, Told, ToldIsApplied
<1> QED BY <1>1, ClientInvariance, PTL

(* A step of the tab shows an answer that is not older than what it shows, *)
(* or takes a frame of the revision it shows for one of its ledger.        *)
ViewMoves ==
  \/ view' = view
  \/ host' = host /\ \E s \in Slot : call[s].at = "answered" /\ Accepts(call[s].snap) /\ view' = call[s].snap
  \/ /\ host' = host /\ frames # <<>> /\ Head(frames).rev = view.rev
     /\ view' = [view EXCEPT !.id = Head(frames).id]

LEMMA NextMovesView == ClientNext => ViewMoves
<1> SUFFICES ASSUME ClientNext PROVE ViewMoves
  OBVIOUS
<1>1. ASSUME NEW s \in Slot, call[s].at = "answered", host' = host, view' = ViewAfter(call[s].snap)
      PROVE  ViewMoves
  BY <1>1 DEF ViewAfter, ViewMoves
<1>2. CASE FrameArrives
  <2>1. host' = host /\ frames # <<>>
    BY <1>2 DEF FrameArrives, hostVars
  <2>2. CASE Head(frames).rev = view.rev
    <3>1. view' = [view EXCEPT !.id = Head(frames).id]
      BY <1>2, <2>2 DEF FrameArrives
    <3> QED BY <2>1, <2>2, <3>1 DEF ViewMoves
  <2>3. CASE Head(frames).rev # view.rev
    BY <1>2, <2>3 DEF FrameArrives, ViewMoves
  <2> QED BY <2>2, <2>3
<1>3. ASSUME NEW s \in Slot, Boot(s) \/ Visible(s) \/ TimesOut(s) PROVE ViewMoves
  BY <1>3 DEF Boot, Visible, TimesOut, tabVars, ViewMoves
<1>4. CASE HostRuns \/ StrayArrives \/ Connects \/ StreamDies \/ OtherChange \/ Heartbeat \/ Restart
  BY <1>4 DEF HostRuns, HostAnswers, StrayArrives, Connects, StreamDies, OtherChange, Heartbeat, Restart,
     tabVars, ViewMoves
<1>5. CASE RepliesArrive
  <2>1. PICK s \in Slot : Replies(s)
    BY <1>5 DEF RepliesArrive
  <2>2. CASE BootAnswered(s)
    <3>1. host' = host /\ call[s].at = "answered" /\ (view' = view \/ view' = ViewAfter(call[s].snap))
      BY <2>2 DEF BootAnswered, Booted, hostVars
    <3> QED BY <1>1, <3>1 DEF ViewMoves
  <2>3. CASE BootFailed(s)
    BY <2>3 DEF BootFailed, ViewMoves
  <2>4. CASE Refreshed(s)
    <3>1. host' = host /\ (view' = view \/ (call[s].at = "answered" /\ view' = ViewAfter(call[s].snap)))
      BY <2>4 DEF Refreshed, hostVars
    <3> QED BY <1>1, <3>1 DEF ViewMoves
  <2>5. ASSUME NEW k \in Key, CommandAnswered(k, s) PROVE ViewMoves
    <3>1. host' = host
      BY <2>5 DEF CommandAnswered, hostVars
    <3>2. view' = view \/ (call[s].at = "answered" /\ Accepts(call[s].snap) /\ view' = call[s].snap)
      BY <2>5 DEF CommandAnswered
    <3> QED BY <3>1, <3>2 DEF ViewMoves
  <2>6. ASSUME NEW k \in Key, CommandRefreshed(k, s) PROVE ViewMoves
    <3>1. host' = host /\ (view' = view \/ (call[s].at = "answered" /\ view' = ViewAfter(call[s].snap)))
      BY <2>6 DEF CommandRefreshed, hostVars
    <3> QED BY <1>1, <3>1 DEF ViewMoves
  <2> QED BY <2>1, <2>2, <2>3, <2>4, <2>5, <2>6 DEF Replies
<1>6. CASE Sends
  BY <1>6 DEF Sends, Perform, ViewMoves
<1>7. CASE UserNext
  BY <1>7 DEF UserNext, Submit, OpenTask, CloseTask, ToggleArchiveView, SetSelectedProject, ViewStays, ViewMoves
<1> QED BY <1>2, <1>3, <1>4, <1>5, <1>6, <1>7 DEF ClientNext

(* The tab never goes back within a ledger, in whatever order answers and  *)
(* frames arrive (acceptRemote).                                           *)
THEOREM TheTabGoesForward == ClientSpec => NeverBackwards
<1> DEFINE Forward == view'.id = view.id => view'.rev >= view.rev
<1>1. ASSUME ClientInv, ClientNext PROVE Forward
  <2>1. view \in Shown /\ (\A s \in Slot : call[s].snap \in Shown)
    BY <1>1, TabKnows DEF Call
  <2>2. ViewMoves
    BY <1>1, NextMovesView
  <2> QED BY <2>1, <2>2 DEF ViewMoves, Accepts, Shown
<1>2. ClientInv /\ [ClientNext]_clientVars => [Forward]_view
  BY <1>1 DEF clientVars, tabVars
<1> QED BY <1>2, ClientInvariance, PTL DEF ClientSpec, NeverBackwards

-----------------------------------------------------------------------------
(* The tab as a replica                                                    *)

Label(state) == [id |-> state.id, rev |-> state.rev]
Labels(states) == {Label(state) : state \in states}

(* What is under way to the tab, or may become the ledger again, has been. *)
PastInv ==
  /\ past \subseteq Shown
  /\ Snapshot(host) \in past /\ Snapshot(saved) \in past
  /\ \A s \in Slot : call[s].at = "answered" => call[s].snap \in past
  /\ frames \in Seq(Labels(past))

(* A step adds nothing to it but what the ledger is after the step.        *)
SnapsCarried ==
  \A s \in Slot : call'[s].at = "answered" =>
    \/ call[s].at = "answered" /\ call'[s].snap = call[s].snap
    \/ call'[s].snap = Snapshot(host')
FramesCarried ==
  \/ frames' = frames \/ frames' = <<>>
  \/ frames' = <<Frame(host')>> \/ frames' = Append(frames, Frame(host'))
  \/ frames # <<>> /\ frames' = Tail(frames)
Carried == saved' \in {saved, host'} /\ SnapsCarried /\ FramesCarried

LEMMA FrameIsLabel == \A ledger \in Ledger : Frame(ledger) = Label(Snapshot(ledger))
BY DEF Frame, Label, Snapshot

LEMMA CarriedKeepsPast ==
  ASSUME PastInv, host' \in Ledger, Carried, past' = past \cup {Snapshot(host')}
  PROVE  PastInv'
<1>1. Snapshot(host') \in Shown
  <2> DEFINE ledger == host'
  <2>1. ledger \in Ledger
    OBVIOUS
  <2> HIDE DEF ledger
  <2>2. Snapshot(ledger) \in Shown
    BY <2>1, SnapshotIsShown
  <2> QED BY <2>2 DEF ledger
<1>2. past' \subseteq Shown /\ past \subseteq past' /\ Snapshot(host') \in past'
  BY <1>1 DEF PastInv
<1>3. Snapshot(saved') \in past'
  BY <1>2 DEF PastInv, Carried
<1>4. \A s \in Slot : call'[s].at = "answered" => call'[s].snap \in past'
  BY <1>2 DEF PastInv, Carried, SnapsCarried
<1>5. frames' \in Seq(Labels(past'))
  <2> DEFINE old == Labels(past) new == Labels(past') frame == Frame(host')
  <2>1. old \subseteq new
    BY <1>2 DEF Labels
  <2>2. frame \in new
    <3>1. frame = Label(Snapshot(host'))
      BY DEF Frame, Label, Snapshot
    <3> QED BY <1>2, <3>1 DEF Labels
  <2>3. frames \in Seq(old)
    BY DEF PastInv
  <2>4. FramesCarried
    BY DEF Carried
  <2> HIDE DEF old, new, frame
  <2>5. frames \in Seq(new)
    BY <2>1, <2>3
  <2>6. Append(frames, frame) \in Seq(new) /\ <<frame>> \in Seq(new) /\ <<>> \in Seq(new)
    BY <2>2, <2>5
  <2>7. frames # <<>> => Tail(frames) \in Seq(new)
    BY <2>5
  <2>8. frames' \in Seq(new)
    BY <2>4, <2>5, <2>6, <2>7 DEF FramesCarried, frame
  <2> QED BY <2>8 DEF new
<1> QED BY <1>2, <1>3, <1>4, <1>5 DEF PastInv

(* Nothing is answered by asking.                                          *)
LEMMA AskCarries ==
  ASSUME call \in [Slot -> Call], NEW s \in Slot, NEW request, request.at = "asked", Ask(s, request)
  PROVE  SnapsCarried
<1>1. call'[s] = request /\ \A r \in Slot \ {s} : call'[r] = call[r]
  BY DEF Ask
<1> QED BY <1>1 DEF SnapsCarried

LEMMA AskedIsAsked ==
  /\ Free.at = "asked"
  /\ \A purpose, what, cards, told, keep : Request(purpose, what, cards, told, keep).at = "asked"
  /\ \A purpose, told, keep : StateFetch(purpose, told, keep).at = "asked"
BY DEF Free, StateFetch, Request

LEMMA SameCallsCarry == UNCHANGED call => SnapsCarried
BY DEF SnapsCarried

LEMMA CommitCarries ==
  ASSUME NEW next, NEW written \in BOOLEAN, Commit(next, written)
  PROVE  saved' \in {saved, host'} /\ FramesCarried
BY DEF Commit, Push, FramesCarried

LEMMA HostAnswersCarries ==
  ASSUME ClientTypeOK, NEW s \in Slot, HostAnswers(s)
  PROVE  Carried
<1> DEFINE what == call[s].what
<1>1. call \in [Slot -> Call] /\ host \in Ledger /\ what \in {Fetch} \cup Import \cup Command
  BY DEF ClientTypeOK, Call
<1>2. ASSUME NEW ledger, Answer(s, ledger), Snapshot(ledger) = Snapshot(host') PROVE SnapsCarried
  <2> DEFINE first == [call[s] EXCEPT !.snap = Snapshot(ledger), !.at = "answered"]
  <2>1. call' = [call EXCEPT ![s] = first]
    BY <1>2 DEF Answer
  <2>2. first.snap = Snapshot(ledger)
    BY <1>1 DEF Call
  <2> HIDE DEF first
  <2>3. call'[s] = first /\ \A r \in Slot \ {s} : call'[r] = call[r]
    BY <1>1, <2>1
  <2> QED BY <1>2, <2>2, <2>3 DEF SnapsCarried
<1>3. Fail(s) => SnapsCarried
  <2> SUFFICES ASSUME Fail(s) PROVE SnapsCarried
    OBVIOUS
  <2> DEFINE first == [call[s] EXCEPT !.at = "failed"]
  <2>1. call' = [call EXCEPT ![s] = first] /\ first.at = "failed"
    BY <1>1 DEF Fail, Call
  <2> HIDE DEF first
  <2>2. call'[s] = first /\ \A r \in Slot \ {s} : call'[r] = call[r]
    BY <1>1, <2>1
  <2> QED BY <2>1, <2>2 DEF SnapsCarried
<1>4. CASE Answer(s, host) /\ Remembered(what) /\ UNCHANGED <<saved, frames>>
  <2>1. HostKeeps
    BY <1>1, <1>4, RememberedKeeps
  <2>2. Snapshot(host) = Snapshot(host')
    BY <2>1 DEF HostKeeps, Snapshot
  <2> QED BY <1>2, <1>4, <2>2 DEF Carried, FramesCarried
<1>5. CASE Fail(s) /\ UNCHANGED <<hostVars, frames>>
  BY <1>3, <1>5 DEF Carried, FramesCarried, hostVars
<1>6. ASSUME NEW written \in BOOLEAN, Applies(what, written),
             IF written THEN Answer(s, Done(what)) ELSE Fail(s)
      PROVE  Carried
  <2>1. saved' \in {saved, host'} /\ FramesCarried
    BY <1>6, CommitCarries DEF Applies
  <2>2. written => host' = Done(what)
    BY <1>6 DEF Applies, Commit
  <2>3. SnapsCarried
    BY <1>2, <1>3, <1>6, <2>2
  <2> QED BY <2>1, <2>3 DEF Carried
<1> QED BY <1>4, <1>5, <1>6 DEF HostAnswers

LEMMA HostSideCarries ==
  ASSUME ClientTypeOK, StrayArrives \/ OtherChange \/ Restart
  PROVE  Carried
<1>1. CASE StrayArrives
  <2>1. UNCHANGED call
    BY <1>1 DEF StrayArrives
  <2>2. PICK what \in strays :
          \/ Applies(what, TRUE)
          \/ UNCHANGED <<hostVars, frames>>
          \/ UNCHANGED <<saved, frames>>
    BY <1>1 DEF StrayArrives
  <2>3. CASE Applies(what, TRUE)
    BY <2>1, <2>3, CommitCarries, SameCallsCarry DEF Applies, Carried
  <2>4. CASE UNCHANGED <<saved, frames>>
    BY <2>1, <2>4, SameCallsCarry DEF Carried, FramesCarried
  <2> QED BY <2>2, <2>3, <2>4 DEF hostVars
<1>2. CASE OtherChange
  <2>1. UNCHANGED call /\ \E next : Commit(next, TRUE)
    BY <1>2 DEF OtherChange
  <2> QED BY <2>1, CommitCarries, SameCallsCarry DEF Carried
<1>3. CASE Restart
  <2>1. saved' = host' /\ frames' = <<>>
    BY <1>3 DEF Restart
  <2>2. ASSUME NEW s \in Slot, call'[s].at = "answered" PROVE call'[s] = call[s]
    <3>1. call[s] \in Call
      BY DEF ClientTypeOK
    <3>2. [call[s] EXCEPT !.at = "failed"].at = "failed"
      BY <3>1 DEF Call
    <3>3. call'[s] \in {call[s], [call[s] EXCEPT !.at = "failed"]}
      BY <1>3 DEF Restart
    <3> QED BY <2>2, <3>2, <3>3
  <2> QED BY <2>1, <2>2 DEF Carried, SnapsCarried, FramesCarried
<1> QED BY <1>1, <1>2, <1>3

LEMMA TabAsksCarries ==
  ASSUME ClientTypeOK, NEW s \in Slot, Boot(s) \/ Visible(s) \/ TimesOut(s) \/ Replies(s)
  PROVE  Carried
<1>1. call \in [Slot -> Call]
  BY DEF ClientTypeOK
<1>2. ASSUME NEW request, Ask(s, request), request.at = "asked" PROVE SnapsCarried
  BY <1>1, <1>2, AskCarries
<1>3. CASE TimesOut(s)
  <2>1. UNCHANGED <<saved, frames>>
    BY <1>3 DEF TimesOut, hostVars
  <2> DEFINE failed == [call[s] EXCEPT !.at = "failed"]
  <2>2. call' = [call EXCEPT ![s] = failed] /\ failed.at = "failed"
    BY <1>1, <1>3 DEF TimesOut, Fail, Call
  <2> HIDE DEF failed
  <2>3. call'[s] = failed /\ \A r \in Slot \ {s} : call'[r] = call[r]
    BY <1>1, <2>2
  <2> QED BY <2>1, <2>2, <2>3 DEF Carried, SnapsCarried, FramesCarried
<1>4. ASSUME UNCHANGED <<saved, frames>>, \E request : Ask(s, request) /\ request.at = "asked" PROVE Carried
  BY <1>2, <1>4 DEF Carried, FramesCarried
<1>5. CASE Boot(s)
  BY <1>4, <1>5, AskedIsAsked DEF Boot, hostVars
<1>6. CASE Visible(s)
  BY <1>4, <1>6, AskedIsAsked DEF Visible, hostVars
<1>7. CASE BootAnswered(s)
  <2>1. UNCHANGED <<saved, frames>>
    BY <1>7 DEF BootAnswered, hostVars
  <2>2. Ask(s, Free) \/ Ask(s, Request("boot", ImportOf(call[s].cards), EmptyBoard, FALSE, FALSE))
    BY <1>7 DEF BootAnswered
  <2> QED BY <1>4, <2>1, <2>2, AskedIsAsked
<1>8. CASE BootFailed(s) \/ Refreshed(s)
  <2>1. UNCHANGED <<saved, frames>> /\ Ask(s, Free)
    BY <1>8 DEF BootFailed, Refreshed, hostVars
  <2> QED BY <1>4, <2>1, AskedIsAsked
<1>9. ASSUME NEW k \in Key, CommandAnswered(k, s) PROVE Carried
  <2>1. UNCHANGED <<saved, frames>>
    BY <1>9 DEF CommandAnswered, hostVars
  <2>2. Ask(s, Free) \/ Ask(s, StateFetch(k, TRUE, FALSE)) \/ Ask(s, StateFetch(k, FALSE, TRUE))
    BY <1>9 DEF CommandAnswered
  <2> QED BY <1>4, <2>1, <2>2, AskedIsAsked
<1>10. ASSUME NEW k \in Key, CommandRefreshed(k, s) PROVE Carried
  <2>1. UNCHANGED <<saved, frames>> /\ Ask(s, Free)
    BY <1>10 DEF CommandRefreshed, hostVars
  <2> QED BY <1>4, <2>1, AskedIsAsked
<1> QED BY <1>3, <1>5, <1>6, <1>7, <1>8, <1>9, <1>10 DEF Replies

LEMMA NextCarries == ClientTypeOK /\ [ClientNext]_clientVars => Carried
<1> SUFFICES ASSUME ClientTypeOK, [ClientNext]_clientVars PROVE Carried
  OBVIOUS
<1>1. CASE UNCHANGED clientVars
  BY <1>1, SameCallsCarry DEF clientVars, hostVars, netVars, Carried, FramesCarried
<1>2. CASE \E s \in Slot : Boot(s) \/ Visible(s) \/ TimesOut(s)
  BY <1>2, TabAsksCarries
<1>3. CASE HostRuns
  BY <1>3, HostAnswersCarries DEF HostRuns
<1>4. CASE RepliesArrive
  BY <1>4, TabAsksCarries DEF RepliesArrive
<1>5. CASE FrameArrives
  <2>1. saved' = saved /\ frames # <<>> /\ frames' = Tail(frames)
    BY <1>5 DEF FrameArrives, hostVars
  <2>2. UNCHANGED call \/ \E s \in Slot : Ask(s, StateFetch("event", FALSE, FALSE))
    BY <1>5 DEF FrameArrives
  <2>3. SnapsCarried
    BY <2>2, SameCallsCarry, AskCarries, AskedIsAsked DEF ClientTypeOK
  <2> QED BY <2>1, <2>3 DEF Carried, FramesCarried
<1>6. CASE Sends
  <2>1. UNCHANGED <<saved, frames>>
    BY <1>6 DEF Sends, Perform, hostVars
  <2>2. PICK k \in Key : Perform(k)
    BY <1>6 DEF Sends
  <2> DEFINE request == Request(k, Head(queue[k]), EmptyBoard, FALSE, FALSE)
  <2>3. PICK s \in Slot : Ask(s, request)
    BY <2>2 DEF Perform
  <2>4. request.at = "asked" /\ call \in [Slot -> Call]
    BY DEF Request, ClientTypeOK
  <2> HIDE DEF request
  <2>5. SnapsCarried
    <3>1. call'[s] = request /\ \A r \in Slot \ {s} : call'[r] = call[r]
      BY <2>3, <2>4 DEF Ask
    <3> QED BY <2>4, <3>1 DEF SnapsCarried
  <2> QED BY <2>1, <2>5 DEF Carried, FramesCarried
<1>7. CASE UserNext
  <2>1. UNCHANGED <<saved, frames, call>>
    BY <1>7 DEF UserNext, Submit, OpenTask, CloseTask, ToggleArchiveView, SetSelectedProject, ViewStays,
       hostVars, netVars
  <2> QED BY <2>1, SameCallsCarry DEF Carried, FramesCarried
<1>8. CASE Connects \/ StreamDies \/ Heartbeat
  <2>1. UNCHANGED <<host, saved, call>>
    BY <1>8 DEF Connects, StreamDies, Heartbeat, hostVars
  <2>2. frames' = frames \/ frames' = <<Frame(host)>> \/ frames' = Append(frames, Frame(host))
    BY <1>8 DEF Connects, StreamDies, Heartbeat, Push
  <2>3. Frame(host') = Frame(host)
    BY <2>1
  <2> QED BY <2>1, <2>2, <2>3, SameCallsCarry DEF Carried, FramesCarried
<1> QED BY <1>1, <1>2, <1>3, <1>4, <1>5, <1>6, <1>7, <1>8, HostSideCarries DEF ClientNext

ReplicaInv == ClientInv /\ PastInv

LEMMA InitReplica == ReplicaInit => ReplicaInv /\ Copy!Init
<1> SUFFICES ASSUME ReplicaInit PROVE ReplicaInv /\ Copy!Init
  OBVIOUS
<1>1. ClientInv /\ ClientTypeOK
  BY InitClient DEF ReplicaInit, ClientInv, ClientTypes
<1>2. saved = host /\ past = {Snapshot(host)} /\ frames = <<>> /\ call = [s \in Slot |-> Free]
  BY DEF ReplicaInit, ClientInit
<1>3. Snapshot(host) \in Shown
  BY <1>1, SnapshotIsShown DEF ClientTypeOK
<1>4. PastInv
  BY <1>2, <1>3, FreeFields DEF PastInv
<1>5. host.id = 1 /\ view.id = 0
  BY DEF ReplicaInit, ClientInit, NewLedger
<1>6. view \in Shown
  BY <1>1 DEF ClientTypeOK
<1> QED BY <1>1, <1>2, <1>3, <1>4, <1>5, <1>6 DEF ReplicaInv, Copy!Init, Snapshot

LEMMA NextReplica ==
  ASSUME ReplicaInv, [ReplicaNext]_replicaVars
  PROVE  ReplicaInv' /\ [Copy!Next]_(Copy!vars)
<1>1. ClientInv /\ PastInv /\ ClientTypeOK
  BY DEF ReplicaInv, ClientInv, ClientTypes
<1>2. [ClientNext]_clientVars
  BY DEF ReplicaNext, replicaVars
<1>3. ClientInv' /\ host' \in Ledger
  BY <1>1, <1>2, NextClient DEF ClientInv, ClientTypes, ClientTypeOK
<1>4. past' = past \cup {Snapshot(host')}
  <2>1. CASE ReplicaNext
    BY <2>1 DEF ReplicaNext
  <2>2. CASE UNCHANGED replicaVars
    BY <1>1, <2>2 DEF replicaVars, clientVars, hostVars, PastInv
  <2> QED BY <2>1, <2>2
<1>5. PastInv'
  BY <1>1, <1>2, <1>3, <1>4, NextCarries, CarriedKeepsPast
<1>6. ViewMoves
  BY <1>2, NextMovesView DEF clientVars, tabVars, ViewMoves
<1>7. CASE view' = view
  <2>1. Copy!OriginMoves
    BY <1>4, <1>5, <1>7 DEF Copy!OriginMoves, PastInv
  <2> QED BY <1>3, <1>5, <2>1 DEF ReplicaInv, Copy!Next
<1>8. CASE host' = host /\ \E s \in Slot : call[s].at = "answered" /\ Accepts(call[s].snap) /\ view' = call[s].snap
  <2>1. past' = past
    BY <1>1, <1>4, <1>8 DEF PastInv
  <2>2. PICK s \in Slot : call[s].at = "answered" /\ Accepts(call[s].snap) /\ view' = call[s].snap
    BY <1>8
  <2>3. call[s].snap \in past
    BY <1>1, <2>2 DEF PastInv
  <2>4. Copy!Adopt(call[s].snap)
    BY <2>1, <2>2 DEF Copy!Adopt, Copy!Older, Accepts
  <2> QED BY <1>3, <1>5, <2>3, <2>4 DEF ReplicaInv, Copy!Next
<1>9. CASE /\ host' = host /\ frames # <<>> /\ Head(frames).rev = view.rev
           /\ view' = [view EXCEPT !.id = Head(frames).id]
  <2>1. past' = past
    BY <1>1, <1>4, <1>9 DEF PastInv
  <2>2. Head(frames) \in Labels(past)
    <3> DEFINE labels == Labels(past)
    <3>1. frames \in Seq(labels)
      BY <1>1 DEF PastInv
    <3> HIDE DEF labels
    <3>2. Head(frames) \in labels
      BY <1>9, <3>1
    <3> QED BY <3>2 DEF labels
  <2>3. PICK state \in past : Head(frames) = Label(state)
    BY <2>2 DEF Labels
  <2>4. state.rev = view.rev /\ view' = [view EXCEPT !.id = state.id]
    BY <1>9, <2>3 DEF Label
  <2>5. Copy!Relabel(state)
    BY <2>1, <2>4 DEF Copy!Relabel
  <2> QED BY <1>3, <1>5, <2>3, <2>5 DEF ReplicaInv, Copy!Next
<1> QED BY <1>6, <1>7, <1>8, <1>9 DEF ViewMoves

(* What the tab shows is a whole state the Host's ledger has had, never an *)
(* older one than it showed of that ledger, through failed writes, lost    *)
(* requests, restarts and new ledgers (acceptRemote, onRemoteEvent).       *)
THEOREM TheTabIsAReplica == ReplicaSpec => ShowsTheLedger
<1>1. ReplicaInv /\ [ReplicaNext]_replicaVars => ReplicaInv' /\ [Copy!Next]_(Copy!vars)
  BY NextReplica
<1> QED BY <1>1, InitReplica, PTL DEF ReplicaSpec, ShowsTheLedger, Copy!Spec

(* Replica promises enough: whatever adopts the states of an origin as it  *)
(* allows never goes back within a ledger, with no word about requests.    *)
THEOREM ReplicasGoForward == ShowsTheLedger => NeverBackwards
<1> DEFINE Shows == past \subseteq Shown /\ view \in Shown
<1>1. Copy!Init => Shows
  BY DEF Copy!Init
<1>2. Shows /\ [Copy!Next]_(Copy!vars) => Shows' /\ [view'.id = view.id => view'.rev >= view.rev]_view
  <2> SUFFICES ASSUME Shows, [Copy!Next]_(Copy!vars)
               PROVE  Shows' /\ [view'.id = view.id => view'.rev >= view.rev]_view
    OBVIOUS
  <2>1. CASE UNCHANGED Copy!vars
    BY <2>1 DEF Copy!vars
  <2>2. CASE Copy!OriginMoves
    BY <2>2 DEF Copy!OriginMoves
  <2>3. ASSUME NEW state \in past, Copy!Adopt(state)
        PROVE  Shows' /\ (view'.id = view.id => view'.rev >= view.rev)
    BY <2>3 DEF Copy!Adopt, Copy!Older, Shown
  <2>4. ASSUME NEW state \in past, Copy!Relabel(state)
        PROVE  Shows' /\ (view'.id = view.id => view'.rev >= view.rev)
    BY <2>4 DEF Copy!Relabel, Shown
  <2> QED BY <2>1, <2>2, <2>3, <2>4 DEF Copy!Next
<1> HIDE DEF Shows
<1> QED BY <1>1, <1>2, PTL DEF ShowsTheLedger, Copy!Spec, NeverBackwards
=============================================================================
