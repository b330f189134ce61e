---------------------------- MODULE LedgerImport ----------------------------
(***************************************************************************)
(* How cards come into the Host's document from outside: the rows of its   *)
(* file (src/src/host-ledger.ts, core/store.ts), and the import of what a  *)
(* browser shows (client/host-api.ts bootstrap, host-ledger.ts apply),     *)
(* which is its own ledger of the first version, or the Host's cards as    *)
(* this tab saw them last.  Projects are in this module, as they decide    *)
(* with a row where the card goes.                                         *)
(*                                                                         *)
(* Of a card there is what a merge can spoil; its other fields travel with *)
(* the newer copy.  TaskLedger has the gates that a run passes.            *)
(***************************************************************************)
EXTENDS Integers, SequencesExt

CONSTANTS
  Browser,
  Card,         \* numbers, in the order of the ids
  Project,      \* but for the default one
  Name, Color,
  HistoryLimit, \* 20 runs
  NextRunAtMs,  \* at each instant the next occurrence of the rule cards carry, Absent if none is in sight
  Files,        \* the documents the Host may find
  Legacy,       \* [Browser -> rows of the first version]
  MaxOps,       \* bound on what users, sessions and accidents do
  MaxTime       \* bound on the clock

VARIABLES
  tasks,     \* the cards on the board, with their rows
  projects,  \* the projects there are, with name and colour
  next,      \* next card number
  imported,  \* sources this ledger has seen
  ledger,    \* its identity
  flying,    \* runs whose launch is under way in this process
  tab,       \* what each browser shows, and the mark of its import
  gone,      \* history: the sources that were seen when a card was deleted
  clock, ops

hostVars == <<tasks, projects, next, imported, ledger, flying>>
importVars == <<hostVars, tab, gone, clock, ops>>

Absent == 0
DefaultId == "default"
Unowned == "none"

(* A row of a file may have the status of a later version, or a rule that  *)
(* is no cron, armed ("broken") or switched off ("bad"); one of the wrong  *)
(* shape is "damaged".  A cron rule is "armed", due at an instant, or      *)
(* switched "off".                                                         *)
Row(status, rule, due, project, serial, created, updated, runs) ==
  [status |-> status, rule |-> rule, due |-> due, project |-> project, serial |-> serial,
   created |-> created, updated |-> updated, runs |-> runs]
Run(n, session, ended) == [n |-> n, session |-> session, ended |-> ended]
NoRows == [c \in {} |-> Row("todo", "none", Absent, DefaultId, Absent, 0, 0, <<>>)]

Statuses == {"todo", "running", "done", "failed"}
BoardRules == {"none", "armed", "off", "bad"}
RunRecords == [n : Int, session : BOOLEAN, ended : Nat]
RowsWith(statuses, rules) ==
  [status : statuses, rule : rules, due : Nat, project : Project \cup {DefaultId, Unowned}, serial : Nat,
   created : Int, updated : Int, runs : Seq(RunRecords)]
FileRows == RowsWith(Statuses \cup {"unknown", "damaged"}, BoardRules \cup {"broken"})
(* On the board a rule that is no cron is due at no time.                  *)
BoardRows == {row \in RowsWith(Statuses, BoardRules) : row.rule = "bad" => row.due = Absent}
ProjectRecords(colors) == [name : Name \cup {"Default"}, color : colors]

-----------------------------------------------------------------------------
(* Rows                                                                    *)

Open(run) == run.ended = Absent
Runs(row) == {row.runs[i] : i \in DOMAIN row.runs}
HasOpen(row) == \E run \in Runs(row) : Open(run)

(* A history names each run once, none that is yet to start, and a card    *)
(* that runs has one in it that is open.                                   *)
History(runs, last) ==
  \A i, j \in DOMAIN runs : runs[i].n <= last /\ (runs[i].n = runs[j].n => i = j)
Stranded(row) == row.status = "running" /\ ~HasOpen(row)
SoundRows(rows) ==
  /\ DOMAIN rows \subseteq Card /\ rows \in [DOMAIN rows -> FileRows]
  /\ \A c \in DOMAIN rows : History(rows[c].runs, 0) /\ ~Stranded(rows[c])

(* The palette is numbered.  Rows from outside may be of any kind, but the *)
(* ids of their runs are as unique as a UUID is, and ops has not begun.    *)
ASSUME ImportAssumption ==
  /\ Card \subseteq Nat /\ IsFiniteSet(Card) /\ IsFiniteSet(Project)
  /\ HistoryLimit \in Nat \ {0}
  /\ MaxTime \in Nat \ {0} /\ NextRunAtMs \in [1..MaxTime -> Nat]
  /\ \A t \in 1..MaxTime : NextRunAtMs[t] = Absent \/ NextRunAtMs[t] > t
  /\ IsFiniteSet(Color) /\ Color # {} /\ Color = 1..Cardinality(Color)
  /\ \A b \in Browser : SoundRows(Legacy[b])
  /\ \A file \in Files :
       /\ SoundRows(file.rows) /\ file.next \in Int /\ file.sources \subseteq Browser
       /\ DOMAIN file.projects \subseteq Project \cup {DefaultId}
       /\ file.projects \in [DOMAIN file.projects -> ProjectRecords(Nat)]

-----------------------------------------------------------------------------
Ascending(S) == [k \in 1..Cardinality(S) |-> CHOOSE x \in S : Cardinality({y \in S : y < x}) = k - 1]

(* The runs of a set in the order they started, which is that of their     *)
(* numbers.                                                                *)
Sorted(runs) ==
  LET order == Ascending({run.n : run \in runs}) IN
  [k \in DOMAIN order |-> CHOOSE run \in runs : run.n = order[k]]

(* All that are open, and as many of the others, the last ones, as are     *)
(* left of the limit.                                                      *)
RetainRecent(runs) ==
  LET open == {i \in DOMAIN runs : Open(runs[i])}
      settled == DOMAIN runs \ open
      kept == {i \in settled : Cardinality({j \in settled : j > i}) < HistoryLimit - Cardinality(open)}
      at(places) == LET order == Ascending(places) IN [k \in DOMAIN order |-> runs[order[k]]] IN
  IF Len(runs) <= HistoryLimit THEN runs ELSE at(kept) \o at(open)

(* parseLedger: a row is kept with what is sound of it.                    *)
NoCron(row) == row.rule \in {"broken", "bad"}
ParseLedger(rows) ==
  [c \in {d \in DOMAIN rows : rows[d].status # "damaged"} |->
     [rows[c] EXCEPT !.status = IF @ = "unknown" THEN "todo" ELSE @,
                     !.rule = IF NoCron(rows[c]) THEN "none" ELSE @,
                     !.due = IF NoCron(rows[c]) THEN Absent ELSE @]]

(* parseHostTasks: a rule that is no cron stays, switched off.             *)
ParseHostTasks(rows) ==
  LET parsed == ParseLedger(rows) IN
  [c \in DOMAIN parsed |-> [parsed[c] EXCEPT !.rule = IF NoCron(rows[c]) THEN "bad" ELSE @]]

ProjectOf(row, known) == IF row.project \in known THEN row.project ELSE DefaultId
Owned(rows, known) == [c \in DOMAIN rows |-> [rows[c] EXCEPT !.project = ProjectOf(rows[c], known)]]

(* assignMissingSerials: of two cards with one number the later loses it;  *)
(* the missing ones are numbered in order, beyond every number in use.     *)
Earlier(rows, c, d) == rows[c].created < rows[d].created \/ (rows[c].created = rows[d].created /\ c < d)

(* Mutant: a number that is worn already is kept. *)
KeepsAny(rows, c) == rows[c].serial # Absent

Keeps(rows, c) ==
  rows[c].serial # Absent /\ ~\E d \in DOMAIN rows : Earlier(rows, d, c) /\ rows[d].serial = rows[c].serial
Kept(rows) == {c \in DOMAIN rows : Keeps(rows, c)}

FirstFree(rows, start) == Max({1, start} \cup {rows[c].serial + 1 : c \in Kept(rows)})
Numbered(rows, start) ==
  LET missing == DOMAIN rows \ Kept(rows) IN
  [c \in DOMAIN rows |->
     IF c \in missing
     THEN [rows[c] EXCEPT !.serial = FirstFree(rows, start) + Cardinality({d \in missing : Earlier(rows, d, c)})]
     ELSE rows[c]]
NextSerial(rows, start) == FirstFree(rows, start) + Cardinality(DOMAIN rows \ Kept(rows))

(* Mutant: the record of the import wins. *)
BetterIncoming(a, b) == b

(* betterExecution, of two records of one run.                             *)
BetterExecution(a, b) ==
  IF Open(a) /= Open(b) THEN IF Open(a) THEN b ELSE a
  ELSE IF b.ended >= a.ended THEN b ELSE a

(* A copy that is as old as the Host's does not roll it back.              *)
Newer(a, b) == IF b.updated > a.updated THEN b ELSE a

MergeRuns(a, b) ==
  LET of(row, n) == CHOOSE run \in Runs(row) : run.n = n
      numbers(row) == {run.n : run \in Runs(row)} IN
  Sorted({IF n \in numbers(a) \cap numbers(b) THEN BetterExecution(of(a, n), of(b, n))
          ELSE IF n \in numbers(a) THEN of(a, n) ELSE of(b, n) : n \in numbers(a) \cup numbers(b)})

MergeTask(a, b) == [Newer(a, b) EXCEPT !.runs = RetainRecent(MergeRuns(a, b))]
Merged(rows, incoming) ==
  [c \in DOMAIN rows \cup DOMAIN incoming |->
     IF c \notin DOMAIN incoming THEN rows[c]
     ELSE IF c \notin DOMAIN rows THEN incoming[c] ELSE MergeTask(rows[c], incoming[c])]

(* settleExecution.                                                        *)
SettleRun(row, n, outcome) ==
  LET i == CHOOSE j \in DOMAIN row.runs : row.runs[j].n = n IN
  IF ~Open(row.runs[i]) THEN row
  ELSE [row EXCEPT !.runs[i].ended = clock, !.updated = clock,
                   !.status = CASE outcome = "succeeded" -> IF row.rule = "armed" THEN "todo" ELSE "done"
                                [] outcome = "failed" -> "failed"
                                [] OTHER -> IF @ = "running" THEN "todo" ELSE @]

(* Mutant: every start counts as an edit of what is armed.                 *)
RepairTouching(rows) ==
  LET due == NextRunAtMs[clock] IN
  [c \in DOMAIN rows |->
     IF rows[c].rule # "armed" THEN rows[c]
     ELSE [rows[c] EXCEPT !.rule = IF due = Absent THEN "off" ELSE "armed", !.due = due, !.updated = clock]]

(* repairSchedules: what is armed gets its next occurrence, or is switched *)
(* off when there is none; a rule that has it already is left as it is.    *)
RepairSchedules(rows) ==
  LET due == NextRunAtMs[clock] IN
  [c \in DOMAIN rows |->
     IF rows[c].rule # "armed" \/ (due # Absent /\ rows[c].due = due) THEN rows[c]
     ELSE [rows[c] EXCEPT !.rule = IF due = Absent THEN "off" ELSE "armed", !.due = due, !.updated = clock]]

(* reconcileInterruptedStarts: the last run of a running card, if it has   *)
(* no session.                                                             *)
Interrupted(row) ==
  row.status = "running" /\ row.runs # <<>> /\ Open(Last(row.runs)) /\ ~Last(row.runs).session
ReconcileInterruptedStarts(rows) ==
  [c \in DOMAIN rows |-> IF Interrupted(rows[c]) THEN SettleRun(rows[c], Last(rows[c].runs).n, "cancelled") ELSE rows[c]]

-----------------------------------------------------------------------------
(* The document                                                            *)

NewProject(name, color) == [name |-> name, color |-> color]
DefaultProject == NewProject("Default", Min(Color))

(* normalizeProjectList.                                                   *)
NormalizeProjectList(list) ==
  [p \in DOMAIN list \cup {DefaultId} |->
     IF p \notin DOMAIN list THEN DefaultProject
     ELSE [list[p] EXCEPT !.color = IF @ \in Color THEN @ ELSE Min(Color)]]

(* normalizeDocument and the first repairs of the constructor, for the     *)
(* file [rows, projects, next, sources].                                   *)
Loaded(file) ==
  LET parsed == ParseHostTasks(file.rows)
      trimmed == [c \in DOMAIN parsed |-> [parsed[c] EXCEPT !.runs = RetainRecent(@)]]
      owned == Owned(trimmed, DOMAIN NormalizeProjectList(file.projects)) IN
  /\ tasks' = ReconcileInterruptedStarts(RepairSchedules(Numbered(owned, file.next)))
  /\ next' = NextSerial(owned, file.next)
  /\ projects' = NormalizeProjectList(file.projects)
  /\ imported' = file.sources
  /\ flying' = {}

Happens == ops < MaxOps /\ ops' = ops + 1
Document == <<tasks, projects, next, imported>>

(* The Host starts over with the document it has written.                  *)
Restart ==
  /\ Happens
  /\ Loaded([rows |-> tasks, projects |-> projects, next |-> next, sources |-> imported])
  /\ UNCHANGED <<ledger, tab, gone, clock>>

(* The Host finds no document, or one from elsewhere: of an older version, *)
(* edited by hand, with rows in any state.  One that cannot be read is set *)
(* aside for an empty one.                                                 *)
FindsFile(file) ==
  /\ Happens
  /\ Loaded(file) /\ ledger' = ledger + 1
  /\ gone' = [c \in Card |-> {}]
  /\ UNCHANGED <<tab, clock>>

(* Mutant: a source that was seen before is merged again.                  *)
ImportAgain(b, rows) ==
  LET merged == Merged(tasks, ParseHostTasks(rows))
      owned == Owned(Numbered(merged, next), DOMAIN projects) IN
  /\ next' = NextSerial(merged, next)
  /\ tasks' = ReconcileInterruptedStarts(RepairSchedules(owned))
  /\ imported' = imported \cup {b}

(* apply, import.                                                          *)
Import(b, rows) ==
  IF b \in imported THEN UNCHANGED <<tasks, next, imported>>
  ELSE LET merged == Merged(tasks, ParseHostTasks(rows))
           owned == Owned(Numbered(merged, next), DOMAIN projects) IN
       /\ next' = NextSerial(merged, next)
       /\ tasks' = ReconcileInterruptedStarts(RepairSchedules(owned))
       /\ imported' = imported \cup {b}

-----------------------------------------------------------------------------
(* Browsers                                                                *)

Seen(b, mark) == tab' = [tab EXCEPT ![b] = [rows |-> tasks', of |-> ledger, mark |-> mark]]

(* bootstrap with what the tab shows: a mark of this ledger, or nothing to *)
(* import, and only the state is fetched.                                  *)
Bootstrap(b, rows) ==
  /\ Happens
  /\ IF rows = NoRows \/ tab[b].mark = ledger
     THEN UNCHANGED Document /\ Seen(b, tab[b].mark)
     ELSE /\ Import(b, rows) /\ UNCHANGED projects
          /\ Seen(b, ledger) \/ UNCHANGED tab   \* the answer is lost
  /\ UNCHANGED <<ledger, flying, gone, clock>>

(* A page that is opened shows its own ledger of the first version.        *)
OpenPage(b) == Bootstrap(b, ParseLedger(Legacy[b]))
RetryHostSync(b) == Bootstrap(b, tab[b].rows)

(* An answer, or a frame.                                                  *)
Refresh(b) ==
  /\ tab[b].of # Absent /\ tab[b].rows # tasks /\ Happens
  /\ UNCHANGED <<hostVars, gone, clock>>
  /\ Seen(b, tab[b].mark)

-----------------------------------------------------------------------------
(* What happens on the Host                                                *)

Acts == Happens /\ UNCHANGED <<ledger, tab, clock, imported>>
Idle(c) == c \in DOMAIN tasks /\ tasks[c].status # "running" /\ ~HasOpen(tasks[c])
Changes(c, row) == tasks' = [tasks EXCEPT ![c] = row] /\ UNCHANGED <<projects, next, gone>>

Create(c, project) ==
  /\ Acts /\ c \notin DOMAIN tasks
  /\ tasks' = [d \in DOMAIN tasks \cup {c} |->
       IF d # c THEN tasks[d]
       ELSE LET new == Row("todo", "none", Absent, project, next, clock, clock, <<>>) IN
            [new EXCEPT !.project = ProjectOf(new, DOMAIN projects)]]
  /\ next' = next + 1
  /\ UNCHANGED <<projects, flying, gone>>

(* An update of the project alone; nothing asks whether there is one.      *)
Update(c, project) ==
  /\ Acts /\ c \in DOMAIN tasks
  /\ Changes(c, [tasks[c] EXCEPT !.project = project, !.updated = clock])
  /\ UNCHANGED flying

Delete(c) ==
  /\ Acts /\ Idle(c)
  /\ tasks' = [d \in DOMAIN tasks \ {c} |-> tasks[d]]
  /\ gone' = [gone EXCEPT ![c] = imported]
  /\ UNCHANGED <<projects, next, flying>>

(* The number of a run is ops, which no other run has.                     *)
OpenRun(c) ==
  /\ Acts /\ Idle(c)
  /\ Changes(c, [tasks[c] EXCEPT !.status = "running", !.updated = clock,
                                 !.runs = RetainRecent(Append(@, Run(ops', FALSE, Absent)))])
  /\ flying' = flying \cup {<<c, ops'>>}

(* attachSession asks for no more than the record.                         *)
Attached(row, n) ==
  [row EXCEPT !.updated = clock,
              !.runs = [i \in DOMAIN @ |-> IF @[i].n = n THEN [@[i] EXCEPT !.session = TRUE] ELSE @[i]]]
AttachSession(c, n) ==
  /\ Acts /\ <<c, n>> \in flying /\ flying' = flying \ {<<c, n>>}
  /\ IF c \in DOMAIN tasks THEN Changes(c, Attached(tasks[c], n)) ELSE UNCHANGED <<tasks, projects, next, gone>>

(* The poll settles a run that has a session, a refused launch its own.    *)
Settle(c, run, outcome) ==
  /\ Acts /\ run \in Runs(tasks[c]) /\ Open(run)
  /\ run.session \/ (<<c, run.n>> \in flying /\ outcome = "failed")
  /\ Changes(c, SettleRun(tasks[c], run.n, outcome))
  /\ flying' = flying \ {<<c, run.n>>}

(* Projects.  A name is taken by one project.                              *)
Taken(name, others) == \E p \in others : projects[p].name = name
AutoProjectColor ==
  LET free == Color \ {projects[p].color : p \in DOMAIN projects} IN
  IF free # {} THEN Min(free) ELSE (Cardinality(DOMAIN projects) % Cardinality(Color)) + Min(Color)

OnProjects == Acts /\ UNCHANGED <<next, flying, gone>>
CreateProject(p, name) ==
  /\ OnProjects /\ p \notin DOMAIN projects /\ ~Taken(name, DOMAIN projects)
  /\ projects' = [q \in DOMAIN projects \cup {p} |->
                    IF q = p THEN NewProject(name, AutoProjectColor) ELSE projects[q]]
  /\ UNCHANGED tasks
RenameProject(p, name) ==
  /\ OnProjects /\ p \in DOMAIN projects /\ ~Taken(name, DOMAIN projects \ {p})
  /\ projects' = [projects EXCEPT ![p].name = name] /\ UNCHANGED tasks
SetProjectColor(p, color) ==
  /\ OnProjects /\ p \in DOMAIN projects
  /\ projects' = [projects EXCEPT ![p].color = color] /\ UNCHANGED tasks

DeleteProject(p) ==
  /\ OnProjects /\ p \in DOMAIN projects \ {DefaultId}
  /\ projects' = [q \in DOMAIN projects \ {p} |-> projects[q]]
  /\ tasks' = [c \in DOMAIN tasks |->
       IF tasks[c].project = p THEN [tasks[c] EXCEPT !.project = DefaultId, !.updated = clock] ELSE tasks[c]]

(* The next millisecond.                                                   *)
Ticks == clock < MaxTime /\ clock' = clock + 1 /\ UNCHANGED <<hostVars, tab, gone, ops>>

-----------------------------------------------------------------------------
EmptyFile == [rows |-> NoRows, projects |-> [p \in {} |-> DefaultProject], next |-> 1, sources |-> {}]

ImportInit ==
  /\ tasks = NoRows /\ next = 1 /\ projects = NormalizeProjectList(EmptyFile.projects)
  /\ imported = {} /\ ledger = 1 /\ flying = {}
  /\ tab = [b \in Browser |-> [rows |-> ParseLedger(Legacy[b]), of |-> Absent, mark |-> Absent]]
  /\ gone = [c \in Card |-> {}]
  /\ clock = 1 /\ ops = 0

CardNext ==
  \/ \E c \in Card : \E p \in Project \cup {DefaultId} : Create(c, p)
  \/ \E c \in Card : \E p \in Project \cup {Unowned} : Update(c, p)
  \/ \E c \in Card : Delete(c) \/ OpenRun(c)
  \/ \E launch \in flying : AttachSession(launch[1], launch[2])
  \/ \E c \in DOMAIN tasks : \E run \in Runs(tasks[c]) : \E outcome \in {"succeeded", "failed", "cancelled"} :
       Settle(c, run, outcome)
ProjectNext ==
  \/ \E p \in Project : \E name \in Name : CreateProject(p, name)
  \/ \E p \in Project \cup {DefaultId} : (\E name \in Name : RenameProject(p, name)) \/ DeleteProject(p)
  \/ \E p \in Project \cup {DefaultId} : \E color \in Color : SetProjectColor(p, color)

ImportNext ==
  \/ Restart \/ \E file \in Files : FindsFile(file)
  \/ \E b \in Browser : OpenPage(b) \/ RetryHostSync(b) \/ Refresh(b)
  \/ CardNext \/ ProjectNext \/ Ticks

ImportSpec == ImportInit /\ [][ImportNext]_importVars

-----------------------------------------------------------------------------
(* Properties                                                              *)

ImportTypeOK ==
  /\ DOMAIN tasks \subseteq Card /\ tasks \in [DOMAIN tasks -> BoardRows]
  /\ DefaultId \in DOMAIN projects /\ DOMAIN projects \subseteq Project \cup {DefaultId}
  /\ projects \in [DOMAIN projects -> ProjectRecords(Color)]
  /\ next \in Nat \ {0} /\ imported \subseteq Browser

(* No two cards wear one number, whatever files and browsers they came     *)
(* from, and none wears one that is still to be given (host-ledger 61-84). *)
NumbersUnique ==
  \A c \in DOMAIN tasks :
    /\ tasks[c].serial \in 1..(next - 1)
    /\ \A d \in DOMAIN tasks \ {c} : tasks[d].serial # tasks[c].serial

(* The board is sound after any sequence of imports, files and edits.      *)
BoardSound == ImportTypeOK /\ NumbersUnique

(* A project takes no card with it, and an import brings no card into a    *)
(* project that is not on this board (650, project.ts 105-118).            *)
NoCardLosesItsProject ==
  \A c \in DOMAIN tasks \cap DOMAIN tasks' :
    /\ DOMAIN projects' # DOMAIN projects \/ imported' # imported
    /\ tasks[c].project \in DOMAIN projects
    => tasks'[c].project \in DOMAIN projects'

Launching(row) == \E run \in Runs(row) : Open(run) /\ ~run.session

(* An import rolls no card back to a copy that is not newer (281-282), nor *)
(* reopens a run that is settled (275); a card that one of the two has in  *)
(* a launch may be cancelled (852-857).  Its rule stays, or is switched    *)
(* off because it ran out (837-841).                                       *)
ImportRollsNothingBack ==
  \A b \in imported' \ imported : \A rows \in {ParseLedger(Legacy[b]), tab[b].rows} :
    Bootstrap(b, rows) =>
      \A c \in DOMAIN tasks \cap DOMAIN rows :
        tasks[c].updated >= rows[c].updated /\ ~Launching(tasks[c]) /\ ~Launching(rows[c])
          => /\ tasks'[c].status = tasks[c].status
             /\ \/ tasks'[c].rule = tasks[c].rule
                \/ tasks[c].rule = "armed" /\ tasks'[c].rule = "off" /\ NextRunAtMs[clock] = Absent
             /\ \A old \in Runs(tasks[c]), new \in Runs(tasks'[c]) : old.n = new.n /\ ~Open(old) => ~Open(new)

(* Runs, restarts, files and edits leave no card running without a run     *)
(* that is open; only a merge can, which takes the column of one copy and  *)
(* the end of a run from the other (280-291).                              *)
OnlyImportsStrand ==
  \A c \in DOMAIN tasks' :
    Stranded(tasks[c])' => imported' # imported \/ (c \in DOMAIN tasks /\ Stranded(tasks[c]))

(* Neither an import nor a project that goes takes from a card what it has.*)
CardsKept == [][NoCardLosesItsProject /\ ImportRollsNothingBack /\ OnlyImportsStrand]_importVars

(* A card that was deleted does not come back from a browser whose import  *)
(* this ledger had seen by then (635-637), however often that browser asks *)
(* again and whatever it shows, after a restart neither.                   *)
DeletedStaysDeleted ==
  [][\A b \in Browser : \A c \in DOMAIN tasks' \ DOMAIN tasks :
       OpenPage(b) \/ RetryHostSync(b) => b \notin gone[c]]_importVars

(* What a repair leaves of a rule: one that is not armed is left alone, an *)
(* armed one is ahead of the clock or off because nothing is in sight, and *)
(* the card counts as edited only when its rule changed, or it would win   *)
(* over the copy of a browser.                                             *)
RuleRepaired(old, new) ==
  /\ old.rule # "armed" => new.rule = old.rule /\ new.due = old.due
  /\ old.rule = "armed" => \/ new.rule = "armed" /\ new.due > clock
                           \/ new.rule = "off" /\ NextRunAtMs[clock] = Absent
  /\ new.rule = old.rule /\ new.due = old.due => new.updated = old.updated
Content(row) == [row EXCEPT !.project = DefaultId, !.rule = "none", !.due = Absent, !.updated = Absent]

(* What the Host wrote is not repaired away when it reads it (186-257,     *)
(* 349, 829-857, 912-967): a restart cancels the launches under way, trims *)
(* a history that has outgrown its limit, moves a card whose project is    *)
(* gone to the default one, repairs the rules, and does no more.           *)
RestartKeepsDocument ==
  [][Restart => /\ next' = next /\ projects' = projects /\ DOMAIN tasks' = DOMAIN tasks
                /\ \A c \in DOMAIN tasks :
                     \/ Interrupted(tasks[c]) \/ Len(tasks[c].runs) > HistoryLimit
                     \/ /\ Content(tasks'[c]) = Content(tasks[c])
                        /\ RuleRepaired(tasks[c], tasks'[c])]_importVars
=============================================================================
