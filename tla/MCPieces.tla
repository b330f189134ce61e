------------------------------ MODULE MCPieces ------------------------------
(* Instances of the small machines for TLC, which run one at a time: the   *)
(* clock that passes over a cron rule, the schedule editor, the settings   *)
(* card and the imports.  The calendar has two months of one or two days,  *)
(* days of four hours and hours of two minutes.                            *)
EXTENDS ScheduleEditor, SettingsForm, LedgerImport

VARIABLE piece
pieceVars == <<piece, cronVars, editorVars, formVars, importVars>>

MCMonthDays == [leap \in BOOLEAN |-> <<2, IF leap THEN 2 ELSE 1>>]
FieldsFor(field) ==
  CASE field = "minute" -> {Star, List({0}), List({1})}
    [] field = "hour" -> {Star, List({0}), List({1}), Every("hour", 2), List({1, 2}), List({0, 1})}
    [] field = "day" -> {Star, List({1}), List({2}), List({1, 2}), List({3})}
    [] field = "month" -> {Star, List({2})}
    [] OTHER -> {Star, List({0}), List({2}), List({1})}
MCRules == [minute : FieldsFor("minute"), hour : FieldsFor("hour"), day : FieldsFor("day"),
            month : FieldsFor("month"), weekday : FieldsFor("weekday")]

(* Rules the tabs describe and rules they do not, one that is no rule.     *)
Monthly2 == [At(1, 1) EXCEPT !.day = List({2})]
Either == [Monthly2 EXCEPT !.weekday = List({0})]
MCStartRules == {Nothing, NotCron, At(2, 0), Monthly2, Either,
                 [At(1, 0) EXCEPT !.weekday = List({0})], [At(0, 0) EXCEPT !.hour = Every("hour", 2)]}
MCTexts == {NotCron, Either, At(3, 1)}
Midnight == {At(0, 0)}

Fields2 == {"enabled", "number"}
Drafts == [enabled |-> {"on", "off"}, number |-> {"1", "2", "", "bad"}]
Defaults == [enabled |-> "on", number |-> "1"]

(* The browser's own ledger: a card that runs, one from a later version.   *)
MCLegacy ==
  [b1 |-> [c \in {1, 2} |->
             IF c = 1 THEN Row("running", "armed", 1, Unowned, Absent, 0, 1, <<Run(-1, TRUE, Absent)>>)
             ELSE Row("unknown", "broken", 1, "p1", Absent, 0, 0, <<>>)],
   b2 |-> NoRows]
(* The rule has an occurrence at 3, and none after it in sight.            *)
MCNextRunAtMs == [t \in 1..MaxTime |-> IF t < 3 THEN 3 ELSE Absent]

(* No file; one by hand, with a number twice, a history of three and a     *)
(* colour there is not; one with a row that cannot be used.                *)
Work == [p \in {"p1"} |-> NewProject("Work", 9)]
MCFiles ==
  {EmptyFile,
   [rows |-> [c \in {1, 2} |->
                IF c = 1 THEN Row("todo", "armed", 2, "p1", 1, 1, 1, <<>>)
                ELSE Row("done", "broken", 1, "p1", 1, 1, 1, [i \in 1..3 |-> Run(i - 5, TRUE, 1)])],
    projects |-> Work, next |-> 1, sources |-> {}],
   [EmptyFile EXCEPT !.rows = [c \in {1, 2} |->
      Row(IF c = 1 THEN "damaged" ELSE "unknown", "none", Absent, Unowned, IF c = 1 THEN 1 ELSE Absent, 1, 1, <<>>)]]}

Idling(p) == piece # p
PieceInit ==
  /\ piece \in {"clock", "editor", "form", "import"}
  /\ IF Idling("clock") THEN rule = NotCron /\ now = 0 ELSE CronInit
  /\ EditorInit /\ (Idling("editor") => stored = Nothing)
  /\ FormInit /\ (Idling("form") => doc = [f \in Field |-> Unset])
  /\ ImportInit

PieceNext ==
  /\ UNCHANGED piece
  /\ \/ piece = "clock" /\ ClockTicks /\ UNCHANGED <<editorVars, formVars, importVars>>
     \/ piece = "editor" /\ EditorNext /\ UNCHANGED <<cronVars, formVars, importVars>>
     \/ piece = "form" /\ (FormStep \/ DocumentStep) /\ UNCHANGED <<cronVars, editorVars, importVars>>
     \/ piece = "import" /\ ImportNext /\ UNCHANGED <<cronVars, editorVars, formVars>>

PieceSpec == PieceInit /\ [][PieceNext]_pieceVars
=============================================================================
