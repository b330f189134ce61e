----------------------------- MODULE BoardClient -----------------------------
(***************************************************************************)
(* One browser tab and the Host (src/src/core/controller.ts, client/       *)
(* host-api.ts, the handlers of host-routes.ts): the initial               *)
(* synchronisation with its import, the queue of each card, state fetches, *)
(* event frames, and what the tab shows.  Other tabs, dispatchers and late *)
(* reports are changes of the Host's own (OtherChange).                    *)
(*                                                                         *)
(* The browser is one thread: a handler runs to its next await.  Requests  *)
(* overtake each other, time out, are applied after they timed out, and    *)
(* are lost when the Host goes down; frames of one stream keep their order.*)
(***************************************************************************)
EXTENDS Naturals, Sequences, FiniteSets

CONSTANTS
  Card, Project,   \* what a queue is kept for
  MaxCalls,        \* bound on requests the tab has under way at once,
  Nothing,
  StartBoards,     \* what the Host may hold at first
  OldCards,        \* what this browser may have stored before there was a Host
  MaxChanges,      \* bound on changes of the Host,
  MaxCommands,     \* on what the user does in the tab,
  MaxFaults,       \* on lost requests, failed writes and dead streams,
  MaxRestarts,     \* on restarts of the Host,
  MaxBoots,        \* on synchronisations, retries included,
  MaxEvents        \* and on all of these together

Key == Card \cup Project
Slot == 1..MaxCalls

VARIABLES
  host,      \* the Host's ledger in memory
  saved,     \* the ledger in its file
  gone,      \* history: what was deleted from this ledger
  view,      \* the tab's tasks, projects and hostState
  ui,        \* selectedTaskId, archiveView, selectedProjectId, transportError
  queue,     \* the commands of each card, oldest under way
  call,      \* the requests under way
  strays,    \* commands given up by the tab that the Host may still get
  booting,   \* the initial synchronisation is under way
  stream,    \* the event stream: "none", "open", "closed" or "dead"
  frames,
  marker,    \* the ledger this browser has imported its old cards into
  count,     \* the bounded counters
  mishap,    \* history: exceptional events
  applied, reported   \* history: commands the Host applied; reported as done

hostVars == <<host, saved, gone>>
tabVars == <<view, ui, queue, booting, marker, reported>>
netVars == <<call, strays, stream, frames>>
clientVars == <<hostVars, tabVars, netVars, count, mishap, applied>>

-----------------------------------------------------------------------------
(* The Host: what a ledger holds, and what a command does to it            *)

Place == {"none", "new", "edited", "archived"}
Board == [Key -> Place]
EmptyBoard == [k \in Key |-> "none"]
Cards(board) == {c \in Card : board[c] # "none"}

(* Ids are drawn at random; "boot" and "event" are what else is asked for. *)
ASSUME ClientAssumption ==
  /\ Card \cap Project = {} /\ {Nothing, "boot", "event"} \cap Key = {}
  /\ Nothing \notin {"boot", "event"}
  /\ IsFiniteSet(Key) /\ MaxCalls \in Nat /\ MaxCommands \in Nat
  /\ StartBoards \subseteq Board /\ OldCards \subseteq SUBSET Card

(* sources: it has this browser's sourceId; imported: the request of that  *)
(* import is among its fingerprints, with these cards.                     *)
Ledger == [id : Nat, rev : Nat, board : Board, sources : BOOLEAN,
           imported : Board \cup {Nothing}]
NewLedger(id) == [id |-> id, rev |-> 0, board |-> EmptyBoard, sources |-> FALSE,
                  imported |-> Nothing]
Shown == [id : Nat, rev : Nat, board : Board]
Snapshot(ledger) == [id |-> ledger.id, rev |-> ledger.rev, board |-> ledger.board]

(* An update, move or run is an edit; only an edited card may have settled *)
(* and be archived.  Names and colours of projects are not told apart.     *)
Result == [create |-> "new", edit |-> "edited", archive |-> "archived",
           restore |-> "edited", delete |-> "none"]
From == [create |-> {"none"}, edit |-> {"new", "edited"}, archive |-> {"edited"},
         restore |-> {"archived"}, delete |-> {"new", "edited", "archived"}]
Kinds(k) == IF k \in Card THEN DOMAIN Result ELSE {"create", "delete"}

Command == [key : Key, kind : DOMAIN Result, n : 1..MaxCommands]
Import == [key : {Nothing}, board : Board]
ImportOf(cards) == [key |-> Nothing, board |-> [k \in Key |-> IF k \in Card THEN cards[k] ELSE "none"]]
Fetch == [key |-> Nothing]
IsImport(what) == what # Fetch /\ what.key = Nothing

(* Mutant: a command leaves the revision as it is. *)
DoneSilently(what) ==
  IF IsImport(what) THEN host ELSE [host EXCEPT !.board[what.key] = Result[what.kind]]

(* The ledger after a command or an import.  An imported card that exists  *)
(* already keeps what the Host has, see mergeTask.                         *)
Done(what) ==
  IF IsImport(what)
  THEN [host EXCEPT !.rev = @ + 1, !.sources = TRUE, !.imported = what.board,
                    !.board = [k \in Key |-> IF k \in Card /\ @[k] = "none" THEN what.board[k] ELSE @[k]]]
  ELSE [host EXCEPT !.rev = @ + 1, !.board[what.key] = Result[what.kind]]

(* The import is known by its request, or by its source.                   *)
Known(what) ==
  /\ IsImport(what)
  /\ host.imported = what.board \/ (host.imported = Nothing /\ host.sources)
Remembered(what) ==
  host' = IF IsImport(what) THEN [host EXCEPT !.imported = what.board] ELSE host

Refused(what) ==
  CASE what = Fetch -> FALSE
    [] IsImport(what) -> host.imported \notin {Nothing, what.board}
    [] OTHER -> host.board[what.key] \notin From[what.kind]

(* notify gives every listener a frame of the ledger as it is now.         *)
Frame(ledger) == [id |-> ledger.id, rev |-> ledger.rev]
Push(ledger) == frames' = IF stream = "open" THEN Append(frames, Frame(ledger)) ELSE frames

(* commit throws after the ledger in memory has changed: nobody is told.   *)
Commit(next, written) ==
  /\ host' = next
  /\ IF written THEN saved' = next /\ Push(next) ELSE UNCHANGED <<saved, frames>>

Gone(what) ==
  gone' = IF ~IsImport(what) /\ what.kind = "delete" THEN gone \cup {what.key} ELSE gone

Counts(what, max) ==
  /\ count[what] < max
  /\ count.changes + count.commands + count.faults + count.restarts + count.boots < MaxEvents
  /\ count' = [count EXCEPT ![what] = @ + 1]
Fault == Counts("faults", MaxFaults)

(* What the Host does with a command or an import.                         *)
Applies(what, written) ==
  /\ ~Refused(what) /\ ~Known(what)
  /\ Commit(IF written \/ ~IsImport(what) THEN Done(what) ELSE [Done(what) EXCEPT !.imported = Nothing], written)
  /\ IF written THEN UNCHANGED count ELSE Fault
  /\ Gone(what)
  /\ applied' = IF IsImport(what) THEN applied ELSE applied \cup {what.n}

-----------------------------------------------------------------------------
(* The network                                                             *)

(* told: what the caller of the command will be told after the fetch;      *)
(* keep: an error is preserved.  cards: what bootstrap was given.          *)
Call == [for : Key \cup {Nothing, "boot", "event"}, what : {Fetch} \cup Import \cup Command,
         at : {"asked", "answered", "failed"}, snap : Shown, cards : Board,
         told : BOOLEAN, keep : BOOLEAN]
Request(purpose, what, cards, told, keep) ==
  [for |-> purpose, what |-> what, at |-> "asked", snap |-> Snapshot(NewLedger(0)),
   cards |-> cards, told |-> told, keep |-> keep]
StateFetch(purpose, told, keep) == Request(purpose, Fetch, EmptyBoard, told, keep)
Free == StateFetch(Nothing, FALSE, FALSE)

Waiting(s) == call[s].for # Nothing
FreeSlot(s) == ~Waiting(s) /\ \A r \in Slot : r < s => Waiting(r)
Ask(s, request) == call' = [call EXCEPT ![s] = request]

Answer(s, ledger) ==
  call' = [call EXCEPT ![s].snap = Snapshot(ledger), ![s].at = "answered"]
Fail(s) == call' = [call EXCEPT ![s].at = "failed"]

HostAnswers(s) ==
  /\ Waiting(s) /\ call[s].at = "asked"
  /\ LET what == call[s].what IN
     \/ /\ what = Fetch \/ (~Refused(what) /\ Known(what))
        /\ Answer(s, host) /\ Remembered(what)
        /\ UNCHANGED <<saved, gone, frames, count, applied>>
     \/ /\ Refused(what)
        /\ Fail(s)
        /\ UNCHANGED <<hostVars, frames, count, applied>>
     \/ /\ what # Fetch
        /\ \E written \in BOOLEAN :
             /\ Applies(what, written)
             /\ IF written THEN Answer(s, Done(what)) ELSE Fail(s)
  /\ UNCHANGED <<tabVars, strays, stream, mishap>>

(* The tab gives up: the request is lost, or it is still on its way, or    *)
(* its answer is.                                                          *)
TimesOut(s) ==
  /\ Waiting(s) /\ call[s].at \in {"asked", "answered"}
  /\ Fault /\ Fail(s)
  /\ strays' \in {strays, strays \cup (IF call[s].at = "asked" THEN {call[s].what} \ {Fetch} ELSE {})}
  /\ UNCHANGED <<hostVars, tabVars, stream, frames, mishap, applied>>

StrayArrives ==
  /\ \E what \in strays :
       /\ strays' = strays \ {what}
       /\ \/ Applies(what, TRUE)
          \/ /\ Refused(what) /\ UNCHANGED <<hostVars, frames, count, applied>>
          \/ /\ ~Refused(what) /\ Known(what) /\ Remembered(what)
             /\ UNCHANGED <<saved, gone, frames, count, applied>>
  /\ UNCHANGED <<tabVars, call, stream, mishap>>

(* EventSource: connected again after a pause; the handler sends a frame.  *)
Connects ==
  /\ stream = "closed"
  /\ stream' = "open" /\ frames' = <<Frame(host)>>
  /\ UNCHANGED <<hostVars, tabVars, call, strays, count, mishap, applied>>

(* An answer other than an event stream ends it for good.                  *)
StreamDies ==
  /\ stream = "closed" /\ Fault
  /\ stream' = "dead" /\ mishap' = mishap \cup {"dead"}
  /\ UNCHANGED <<hostVars, tabVars, call, strays, frames, applied>>

(* Ids are drawn at random: nobody creates the same one twice.             *)
Fresh(k) ==
  /\ k \notin gone /\ host.board[k] = "none" /\ view.board[k] = "none"
  /\ queue[k] = <<>> /\ \A what \in strays : what.key # k

(* Another tab, a dispatcher or a report.                                  *)
OtherChange ==
  /\ \E k \in Key : \E kind \in Kinds(k) :
       LET what == [key |-> k, kind |-> kind] IN
       /\ ~Refused(what) /\ (kind = "create" => Fresh(k))
       /\ Commit(Done(what), TRUE) /\ Gone(what)
  /\ Counts("changes", MaxChanges)
  /\ UNCHANGED <<tabVars, call, strays, stream, mishap, applied>>

(* The tick writes the heartbeat and notifies, whatever has changed; its   *)
(* period is twice the time-out, so it finds the tab idle.                 *)
Heartbeat ==
  /\ stream = "open" /\ frames = <<>> /\ \A s \in Slot : ~Waiting(s)
  /\ Push(host)
  /\ UNCHANGED <<hostVars, tabVars, call, strays, stream, count, mishap, applied>>

(* The Host starts again from its file, or with a new ledger when the file *)
(* could not be read.  Answers already sent still arrive.                  *)
Restart ==
  /\ \E reset \in BOOLEAN :
       /\ host' = (IF reset THEN NewLedger(host.id + 1) ELSE saved)
       /\ gone' = IF reset THEN {} ELSE gone
       /\ mishap' = IF ~reset /\ host.rev # saved.rev THEN mishap \cup {"lost"} ELSE mishap
  /\ saved' = host'
  /\ call' = [s \in Slot |-> IF Waiting(s) /\ call[s].at = "asked" THEN [call[s] EXCEPT !.at = "failed"] ELSE call[s]]
  /\ strays' = {} /\ frames' = <<>>
  /\ stream' = IF stream = "open" THEN "closed" ELSE stream
  /\ Counts("restarts", MaxRestarts)
  /\ UNCHANGED <<tabVars, applied>>

-----------------------------------------------------------------------------
(* What the tab shows                                                      *)

(* Mutant: whatever arrives is shown. *)
AcceptsAll(snap) == TRUE

(* acceptRemote: an older snapshot of the same ledger is refused.          *)
Accepts(snap) == ~(view.id = snap.id /\ snap.rev < view.rev)

UiShowing(snap) ==
  [ui EXCEPT !.error = FALSE,
             !.filter = IF @ # Nothing /\ snap.board[@] = "none" THEN Nothing ELSE @,
             !.selected = IF /\ @ # Nothing
                             /\ \/ snap.board[@] = "none"
                                \/ ~ui.archiveView /\ snap.board[@] = "archived"
                          THEN Nothing ELSE @]

ViewAfter(snap) == IF Accepts(snap) THEN snap ELSE view
UiAfter(snap) == IF Accepts(snap) THEN UiShowing(snap) ELSE ui

(* Restored cards leave the detail view, deleted projects the filter.      *)
AfterDone(c, u) ==
  [u EXCEPT !.selected = IF c.kind = "restore" /\ @ = c.key THEN Nothing ELSE @,
            !.filter = IF c.kind = "delete" /\ @ = c.key THEN Nothing ELSE @]

-----------------------------------------------------------------------------
(* The initial synchronisation                                             *)

(* start, and the retry button that is shown with an error.                *)
Boot(s) ==
  /\ ~booting /\ FreeSlot(s)
  /\ count.boots = 0 \/ ui.error
  /\ booting' = TRUE
  /\ Counts("boots", MaxBoots)
  /\ Ask(s, Request("boot", Fetch, view.board, FALSE, FALSE))
  /\ UNCHANGED <<hostVars, view, ui, queue, marker, reported, strays, stream, frames, mishap, applied>>

Booted(snap) ==
  /\ view' = ViewAfter(snap) /\ ui' = UiAfter(snap)
  /\ booting' = FALSE
  /\ stream' = IF stream = "none" THEN "closed" ELSE stream

BootAnswered(s) ==
  /\ Waiting(s) /\ call[s].for = "boot" /\ call[s].at = "answered"
  /\ LET snap == call[s].snap IN
     IF call[s].what = Fetch /\ Cards(call[s].cards) # {} /\ marker # snap.id
     THEN /\ Ask(s, Request("boot", ImportOf(call[s].cards), EmptyBoard, FALSE, FALSE))
          /\ UNCHANGED <<view, ui, booting, stream, marker>>
     ELSE /\ Booted(snap)
          /\ marker' = IF call[s].what = Fetch THEN marker ELSE snap.id
          /\ Ask(s, Free)
  /\ UNCHANGED <<hostVars, queue, reported, strays, frames, count, mishap, applied>>

BootFailed(s) ==
  /\ Waiting(s) /\ call[s].for = "boot" /\ call[s].at = "failed"
  /\ ui' = [ui EXCEPT !.error = TRUE] /\ booting' = FALSE
  /\ Ask(s, Free)
  /\ UNCHANGED <<hostVars, view, queue, marker, reported, strays, stream, frames, count, mishap, applied>>

-----------------------------------------------------------------------------
(* Event frames                                                            *)

(* Mutant: a frame without news of the revision is taken for an older one. *)
FrameArrivesNewerOnly ==
  /\ frames # <<>> /\ frames' = Tail(frames)
  /\ IF Head(frames).rev <= view.rev THEN UNCHANGED call
     ELSE \E s \in Slot : FreeSlot(s) /\ Ask(s, StateFetch("event", FALSE, FALSE))
  /\ UNCHANGED <<hostVars, tabVars, strays, stream, count, mishap, applied>>

(* Mutant: every frame replaces the scheduler block, fetched tasks or not. *)
FrameArrivesInPlace ==
  /\ frames # <<>> /\ frames' = Tail(frames)
  /\ view' = [view EXCEPT !.id = Head(frames).id]
  /\ IF Head(frames).rev = view.rev THEN UNCHANGED call
     ELSE \E s \in Slot : FreeSlot(s) /\ Ask(s, StateFetch("event", FALSE, FALSE))
  /\ UNCHANGED <<hostVars, ui, queue, booting, marker, reported, strays, stream, count, mishap, applied>>

(* A frame of the revision shown replaces the scheduler block, ledger id   *)
(* included; any other has the state fetched.                              *)
FrameArrives ==
  /\ frames # <<>> /\ frames' = Tail(frames)
  /\ LET frame == Head(frames) IN
     IF frame.rev = view.rev
     THEN /\ view' = [view EXCEPT !.id = frame.id]
          /\ mishap' = IF frame.id = view.id THEN mishap ELSE mishap \cup {"mixed"}
          /\ UNCHANGED call
     ELSE /\ \E s \in Slot : FreeSlot(s) /\ Ask(s, StateFetch("event", FALSE, FALSE))
          /\ UNCHANGED <<view, mishap>>
  /\ UNCHANGED <<hostVars, ui, queue, booting, marker, reported, strays, stream, count, applied>>

(* What the user does.                                                     *)
Gesture == Counts("commands", MaxCommands)

(* The page becomes visible again.                                         *)
Visible(s) ==
  /\ stream # "none" /\ FreeSlot(s)
  /\ Gesture
  /\ Ask(s, StateFetch("event", FALSE, FALSE))
  /\ UNCHANGED <<hostVars, tabVars, strays, stream, frames, mishap, applied>>

Refreshed(s) ==
  /\ Waiting(s) /\ call[s].for = "event"
  /\ \/ /\ call[s].at = "answered"
        /\ view' = ViewAfter(call[s].snap) /\ ui' = UiAfter(call[s].snap)
     \/ /\ call[s].at = "failed"
        /\ ui' = [ui EXCEPT !.error = TRUE] /\ UNCHANGED view
  /\ Ask(s, Free)
  /\ UNCHANGED <<hostVars, queue, booting, marker, reported, strays, stream, frames, count, mishap, applied>>

-----------------------------------------------------------------------------
(* Commands                                                                *)

(* commitRemote: a command joins the queue of its card or project.  What   *)
(* the tab shows decides which commands there are, cards of this browser's *)
(* own included, projects only once the Host is known; an id is used once. *)
Submit(k, kind) ==
  /\ kind \in Kinds(k)
  /\ view.board[k] \in From[kind]
  /\ k \in Project => view.id # 0
  /\ kind = "create" => Fresh(k)
  /\ queue' = [queue EXCEPT ![k] = Append(@, [key |-> k, kind |-> kind, n |-> count.commands + 1])]
  /\ Gesture
  /\ UNCHANGED <<hostVars, view, ui, booting, marker, reported, netVars, mishap, applied>>

Performing(k) == \E s \in Slot : Waiting(s) /\ call[s].for = k

(* performRemote: the error goes, the oldest command is sent.              *)
Perform(k) ==
  /\ queue[k] # <<>> /\ ~Performing(k)
  /\ \E s \in Slot : FreeSlot(s) /\ Ask(s, Request(k, Head(queue[k]), EmptyBoard, FALSE, FALSE))
  /\ ui' = [ui EXCEPT !.error = FALSE]
  /\ UNCHANGED <<hostVars, view, queue, booting, marker, reported, strays, stream, frames,
                 count, mishap, applied>>

Finished(k, told) ==
  /\ queue' = [queue EXCEPT ![k] = Tail(@)]
  /\ reported' = IF told THEN reported \cup {Head(queue[k]).n} ELSE reported

(* The answer is shown, unless it is older than what the tab has by now;   *)
(* then, and after a failure, the state is fetched.                        *)
CommandAnswered(k, s) ==
  /\ Waiting(s) /\ call[s].for = k /\ call[s].what # Fetch
  /\ \/ /\ call[s].at = "answered" /\ Accepts(call[s].snap)
        /\ view' = call[s].snap
        /\ ui' = AfterDone(Head(queue[k]), UiShowing(call[s].snap))
        /\ Finished(k, TRUE)
        /\ Ask(s, Free)
     \/ /\ call[s].at = "answered" /\ ~Accepts(call[s].snap)
        /\ Ask(s, StateFetch(k, TRUE, FALSE))
        /\ UNCHANGED <<view, ui, queue, reported>>
     \/ /\ call[s].at = "failed"
        /\ Ask(s, StateFetch(k, FALSE, TRUE))
        /\ UNCHANGED <<view, ui, queue, reported>>
  /\ UNCHANGED <<hostVars, booting, marker, strays, stream, frames, count, mishap, applied>>

(* Mutant: the caller is told whether the fetch succeeded. *)
CommandRefreshedTrue(k, s) ==
  /\ Waiting(s) /\ call[s].for = k /\ call[s].what = Fetch /\ call[s].at = "answered"
  /\ view' = ViewAfter(call[s].snap) /\ ui' = UiAfter(call[s].snap)
  /\ Finished(k, TRUE)
  /\ Ask(s, Free)
  /\ UNCHANGED <<hostVars, booting, marker, strays, stream, frames, count, mishap, applied>>
(* Mutant: a failed fetch leaves the command at the head of its queue. *)
CommandRefreshedOnly(k, s) ==
  /\ Waiting(s) /\ call[s].for = k /\ call[s].what = Fetch /\ call[s].at = "answered"
  /\ view' = ViewAfter(call[s].snap) /\ ui' = UiAfter(call[s].snap)
  /\ Finished(k, call[s].told)
  /\ Ask(s, Free)
  /\ UNCHANGED <<hostVars, booting, marker, strays, stream, frames, count, mishap, applied>>

(* The fetch that follows a command.                                       *)
CommandRefreshed(k, s) ==
  /\ Waiting(s) /\ call[s].for = k /\ call[s].what = Fetch
  /\ \/ /\ call[s].at = "answered"
        /\ view' = ViewAfter(call[s].snap)
        /\ LET u == [UiAfter(call[s].snap) EXCEPT !.error = @ \/ call[s].keep] IN
           ui' = IF call[s].told THEN AfterDone(Head(queue[k]), u) ELSE u
        /\ Finished(k, call[s].told)
     \/ /\ call[s].at = "failed"
        /\ ui' = [ui EXCEPT !.error = TRUE] /\ UNCHANGED view
        /\ Finished(k, FALSE)
  /\ Ask(s, Free)
  /\ UNCHANGED <<hostVars, booting, marker, strays, stream, frames, count, mishap, applied>>

-----------------------------------------------------------------------------
(* The view                                                                *)

ViewStays == UNCHANGED <<hostVars, view, queue, booting, marker, reported, netVars, mishap, applied>>

(* openTask, from the cards on display; closeTask.                         *)
OpenTask(c) ==
  /\ view.board[c] # "none" /\ (ui.archiveView <=> view.board[c] = "archived")
  /\ ui' = [ui EXCEPT !.selected = c] /\ Gesture /\ ViewStays
CloseTask == ui.selected # Nothing /\ ui' = [ui EXCEPT !.selected = Nothing] /\ Gesture /\ ViewStays

ToggleArchiveView ==
  /\ ui' = [ui EXCEPT !.archiveView = ~@,
              !.selected = IF @ # Nothing /\ ui.archiveView /\ view.board[@] = "archived" THEN Nothing ELSE @]
  /\ Gesture /\ ViewStays

SetSelectedProject(p) ==
  /\ p # Nothing => view.board[p] # "none"
  /\ ui' = [ui EXCEPT !.filter = p] /\ Gesture /\ ViewStays

-----------------------------------------------------------------------------
ClientInit ==
  /\ \E board \in StartBoards : host = [NewLedger(1) EXCEPT !.board = board]
  /\ saved = host /\ gone = {}
  /\ \E old \in OldCards :
       view = [id |-> 0, rev |-> 0, board |-> [k \in Key |-> IF k \in old THEN "new" ELSE "none"]]
  /\ ui = [selected |-> Nothing, archiveView |-> FALSE, filter |-> Nothing, error |-> FALSE]
  /\ queue = [k \in Key |-> <<>>] /\ booting = FALSE /\ marker = 0 /\ reported = {}
  /\ call = [s \in Slot |-> Free] /\ strays = {} /\ stream = "none" /\ frames = <<>>
  /\ count = [changes |-> 0, commands |-> 0, faults |-> 0, restarts |-> 0, boots |-> 0]
  /\ mishap = {} /\ applied = {}

Replies(s) ==
  \/ BootAnswered(s) \/ BootFailed(s) \/ Refreshed(s)
  \/ \E k \in Key : CommandAnswered(k, s) \/ CommandRefreshed(k, s)

HostRuns == \E s \in Slot : HostAnswers(s)
RepliesArrive == \E s \in Slot : Replies(s)
Sends == \E k \in Key : Perform(k)

UserNext ==
  \/ \E k \in Key, kind \in DOMAIN Result : Submit(k, kind)
  \/ \E c \in Card : OpenTask(c)
  \/ CloseTask \/ ToggleArchiveView
  \/ \E p \in Project \cup {Nothing} : SetSelectedProject(p)

ClientNext ==
  \/ \E s \in Slot : Boot(s) \/ Visible(s) \/ TimesOut(s)
  \/ HostRuns \/ RepliesArrive \/ FrameArrives \/ Sends \/ UserNext
  \/ StrayArrives \/ Connects \/ StreamDies
  \/ OtherChange \/ Heartbeat \/ Restart

ClientSpec == ClientInit /\ [][ClientNext]_clientVars

(* The Host answers or the request times out, the browser runs handlers    *)
(* and reconnects, the board is enabled so its tick goes on.               *)
ClientFairness ==
  /\ WF_clientVars(HostRuns) /\ WF_clientVars(RepliesArrive)
  /\ WF_clientVars(FrameArrives) /\ WF_clientVars(Sends)
  /\ WF_clientVars(Connects) /\ WF_clientVars(Heartbeat)

FairClientSpec == ClientSpec /\ ClientFairness

-----------------------------------------------------------------------------
(* Properties                                                              *)

ClientTypeOK ==
  /\ {host, saved} \subseteq Ledger /\ gone \subseteq Key
  /\ view \in Shown /\ call \in [Slot -> Call]
  /\ ui \in [selected : Card \cup {Nothing}, archiveView : BOOLEAN,
             filter : Project \cup {Nothing}, error : BOOLEAN]
  /\ queue \in [Key -> Seq(Command)] /\ frames \in Seq([id : Nat, rev : Nat])
  /\ strays \subseteq Command \cup Import
  /\ stream \in {"none", "closed", "open", "dead"}
  /\ mishap \subseteq {"lost", "mixed", "dead"}

(* The tab never goes back within a ledger, in whatever order the answers  *)
(* of commands, fetches and frames arrive (acceptRemote 674).              *)
NeverBackwards == [][view'.id = view.id => view'.rev >= view.rev]_view

(* A revision names one state of the ledger: when the tab is at the Host's *)
(* revision it shows what the Host has, which is what lets onRemoteEvent   *)
(* skip the fetch (643).  Broken only by a number given twice: a change    *)
(* lost with a failed write, or a frame of a new ledger taken in place.    *)
SameRevisionSameBoard ==
  mishap \cap {"lost", "mixed"} = {} /\ view.id = host.id /\ view.rev = host.rev
    => view.board = host.board

(* The detail view and the filter point at something the tab shows: a card *)
(* archived, restored or deleted by anyone closes it (acceptRemote 680).   *)
SelectionIsShown ==
  /\ ui.selected # Nothing => /\ view.board[ui.selected] # "none"
                              /\ view.board[ui.selected] = "archived" => ui.archiveView
  /\ ui.filter # Nothing => view.board[ui.filter] # "none"

(* What the tab shows is one state of the ledger, and it shows what it     *)
(* points at.                                                              *)
ViewSound == ClientTypeOK /\ SameRevisionSameBoard /\ SelectionIsShown

(* A form that is told its command was accepted may forget its draft: the  *)
(* Host has applied the command, also when the answer was overtaken and    *)
(* the state fetched instead (performRemote 600).                          *)
ToldIsApplied == reported \subseteq applied

(* No card stays pending: every command is answered, refused or given up,  *)
(* and the queue behind it goes on, until none is left (commitRemote       *)
(* 576-590).                                                               *)
QueueDrains == []<>(\A k \in Key : queue[k] = <<>>)

(* Once the tab has synchronised it ends with what the Host has, whatever  *)
(* timed out, was refused or lost, unless one of the mishaps happened.     *)
Agrees == view = Snapshot(host)
EndsWithHost == stream # "none" ~> Agrees \/ mishap # {}

(* README.md 97: multiple tabs can never diverge, resurrect a deleted task.*)
NoResurrection == \A c \in gone : host.board[c] = "none"
=============================================================================
