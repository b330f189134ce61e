------------------------- MODULE LedgerImportProofs -------------------------
(***************************************************************************)
(* Proofs about LedgerImport, for any number of browsers, cards, projects  *)
(* and files, rows of any kind in them and histories of any length.        *)
(***************************************************************************)
EXTENDS LedgerImport, FiniteSetTheorems, SequenceTheorems, TLAPS

-----------------------------------------------------------------------------
(* Finite sets of numbers                                                  *)

LEMMA SmallerSubset ==
  ASSUME NEW B, IsFiniteSet(B), NEW A \in SUBSET B, NEW x \in B, x \notin A
  PROVE  Cardinality(A) \in Nat /\ Cardinality(B) \in Nat /\ Cardinality(A) < Cardinality(B)
BY FS_Subset, FS_CardinalityType

(* A bounded set of naturals that is not empty has a largest element.      *)
LEMMA LargestExists ==
  ASSUME NEW S \in SUBSET Nat, S # {}, NEW n \in Nat, \A i \in S : i <= n
  PROVE  \E m \in S : \A i \in S : i <= m
<1> DEFINE Bounds == {k \in Nat : \A i \in S : i <= k}
           Less == OpToRel(<, Nat)
<1>1. Bounds \subseteq Nat /\ n \in Bounds
  OBVIOUS
<1>2. PICK m \in Bounds : \A k \in Bounds : <<k, m>> \notin Less
  <2> HIDE DEF Bounds, Less
  <2>1. IsWellFoundedOn(Less, Nat)
    BY NatLessThanWellFounded DEF Less
  <2> QED BY <1>1, <2>1, WFMin
<1>3. \A k \in Bounds : ~(k < m)
  BY <1>1, <1>2 DEF OpToRel
<1>4. m \in S
  <2> SUFFICES ASSUME m \notin S PROVE FALSE
    OBVIOUS
  <2>1. m # 0
    <3>1. PICK i \in S : TRUE
      OBVIOUS
    <3>2. i \in Nat /\ i <= m /\ i # m
      OBVIOUS
    <3> QED BY <3>2
  <2>2. m - 1 \in Bounds
    BY <2>1
  <2> QED BY <1>3, <2>2
<1> QED BY <1>4

LEMMA SmallestExists ==
  ASSUME NEW S \in SUBSET Nat, S # {}
  PROVE  \E m \in S : \A i \in S : m <= i
<1> DEFINE Less == OpToRel(<, Nat)
<1>1. PICK m \in S : \A k \in S : <<k, m>> \notin Less
  <2> HIDE DEF Less
  <2>1. IsWellFoundedOn(Less, Nat)
    BY NatLessThanWellFounded DEF Less
  <2> QED BY <2>1, WFMin
<1>2. \A k \in S : ~(k < m)
  BY <1>1 DEF OpToRel
<1> QED BY <1>2

Rank(S, x) == Cardinality({y \in S : y < x})

(* The elements of a finite set of integers have the ranks 0, 1, ...       *)
LEMMA RanksGrow ==
  ASSUME NEW S \in SUBSET Int, IsFiniteSet(S), NEW x \in S
  PROVE  /\ Rank(S, x) \in 0..(Cardinality(S) - 1)
         /\ \A z \in S : x < z => Rank(S, x) < Rank(S, z)
<1> DEFINE below(z) == {y \in S : y < z}
<1>1. \A z \in S : below(z) \in SUBSET S /\ z \notin below(z)
  OBVIOUS
<1>2. \A z \in S : Rank(S, z) \in Nat /\ Cardinality(S) \in Nat /\ Rank(S, z) < Cardinality(S)
  <2> HIDE DEF below
  <2>1. \A z \in S : Rank(S, z) = Cardinality(below(z))
    BY DEF Rank, below
  <2> QED BY <1>1, <2>1, SmallerSubset
<1>3. ASSUME NEW z \in S, x < z PROVE Rank(S, x) < Rank(S, z)
  <2>1. below(x) \in SUBSET below(z) /\ x \in below(z) /\ x \notin below(x)
    <3>1. x \in Int /\ z \in Int /\ \A y \in S : y \in Int
      OBVIOUS
    <3>2. ~(x < x) /\ \A y \in S : y < x => y < z
      BY <1>3, <3>1
    <3> QED BY <1>3, <3>2
  <2>2. IsFiniteSet(below(z))
    <3> HIDE DEF below
    <3> QED BY <1>1, FS_Subset
  <2>3. Rank(S, x) = Cardinality(below(x)) /\ Rank(S, z) = Cardinality(below(z))
    BY DEF Rank
  <2> HIDE DEF below
  <2> QED BY <2>1, <2>2, <2>3, SmallerSubset
<1> QED BY <1>2, <1>3

LEMMA RanksAreDistinct ==
  ASSUME NEW S \in SUBSET Int, IsFiniteSet(S), NEW x \in S, NEW z \in S, Rank(S, x) = Rank(S, z)
  PROVE  x = z
<1>1. Rank(S, x) \in Int /\ Rank(S, z) \in Int
  BY RanksGrow, FS_CardinalityType
<1>2. x < z \/ z < x \/ x = z
  BY DEF Rank
<1> QED BY <1>1, <1>2, RanksGrow

LEMMA RanksAreTaken ==
  ASSUME NEW S \in SUBSET Int, IsFiniteSet(S), NEW k \in 0..(Cardinality(S) - 1)
  PROVE  \E x \in S : Rank(S, x) = k
<1> DEFINE places == 0..(Cardinality(S) - 1)
           rank == [x \in S |-> Rank(S, x)]
<1>1. Cardinality(S) \in Nat
  BY FS_CardinalityType
<1>2. IsFiniteSet(places) /\ Cardinality(places) = Cardinality(S)
  BY <1>1, FS_Interval
<1>3. rank \in [S -> places]
  BY RanksGrow
<1>4. rank \in Injection(S, places)
  BY <1>3, RanksAreDistinct DEF Injection, IsInjective
<1>5. rank \in Surjection(S, places)
  <2> HIDE DEF rank, places
  <2> QED BY <1>2, <1>4, FS_Injection
<1> QED BY <1>5 DEF Surjection

(* Ascending is a list of the set, in order.                               *)
LEMMA AscendingLists ==
  ASSUME NEW S \in SUBSET Int, IsFiniteSet(S)
  PROVE  /\ Cardinality(S) \in Nat
         /\ Ascending(S) \in [1..Cardinality(S) -> S]
         /\ \A k \in 1..Cardinality(S) : Rank(S, Ascending(S)[k]) = k - 1
         /\ \A x \in S : \E k \in 1..Cardinality(S) : Ascending(S)[k] = x
<1>1. Cardinality(S) \in Nat
  BY FS_CardinalityType
<1>2. ASSUME NEW k \in 1..Cardinality(S)
      PROVE  Ascending(S)[k] \in S /\ Rank(S, Ascending(S)[k]) = k - 1
  <2>1. k - 1 \in 0..(Cardinality(S) - 1)
    BY <1>1
  <2>2. PICK x \in S : Rank(S, x) = k - 1
    BY <2>1, RanksAreTaken
  <2> QED BY <2>2 DEF Ascending, Rank
<1>3. ASSUME NEW x \in S PROVE \E k \in 1..Cardinality(S) : Ascending(S)[k] = x
  <2>1. Rank(S, x) \in 0..(Cardinality(S) - 1)
    BY RanksGrow
  <2>2. PICK k \in 1..Cardinality(S) : k - 1 = Rank(S, x)
    <3>1. Rank(S, x) + 1 \in 1..Cardinality(S) /\ (Rank(S, x) + 1) - 1 = Rank(S, x)
      BY <1>1, <2>1
    <3> QED BY <3>1
  <2>3. Ascending(S)[k] \in S /\ Rank(S, Ascending(S)[k]) = Rank(S, x)
    BY <1>2, <2>2
  <2> DEFINE z == Ascending(S)[k]
  <2>4. z = x
    <3> HIDE DEF z
    <3>1. z \in S /\ Rank(S, z) = Rank(S, x)
      BY <2>3 DEF z
    <3> QED BY <3>1, RanksAreDistinct
  <2> QED BY <2>4
<1>4. Ascending(S) \in [1..Cardinality(S) -> S]
  BY <1>2 DEF Ascending
<1> QED BY <1>1, <1>2, <1>3, <1>4

LEMMA LargestOfSet ==
  ASSUME NEW S \in SUBSET Int, IsFiniteSet(S), S # {}
  PROVE  Max(S) \in S /\ \A x \in S : x <= Max(S)
<1> DEFINE ranks == {Rank(S, x) : x \in S}
<1>1. Cardinality(S) \in Nat /\ ranks \in SUBSET Nat /\ ranks # {} /\ \A r \in ranks : r <= Cardinality(S)
  <2>1. Cardinality(S) \in Nat
    BY FS_CardinalityType
  <2>2. \A x \in S : Rank(S, x) \in Nat /\ Rank(S, x) <= Cardinality(S)
    BY <2>1, RanksGrow
  <2> QED BY <2>1, <2>2
<1>2. PICK m \in ranks : \A r \in ranks : r <= m
  <2> HIDE DEF ranks
  <2> QED BY <1>1, LargestExists
<1>3. PICK x \in S : m = Rank(S, x)
  OBVIOUS
<1>4. ASSUME NEW z \in S PROVE z <= x
  <2>1. Rank(S, z) <= Rank(S, x) /\ Rank(S, z) \in Nat /\ Rank(S, x) \in Nat
    BY <1>1, <1>2, <1>3
  <2>2. x < z => Rank(S, x) < Rank(S, z)
    BY RanksGrow
  <2>3. z \in Int /\ x \in Int
    OBVIOUS
  <2> QED BY <2>1, <2>2, <2>3
<1> QED BY <1>4 DEF Max

LEMMA SmallestOfSet ==
  ASSUME NEW S \in SUBSET Nat, S # {}
  PROVE  Min(S) \in S /\ \A x \in S : Min(S) <= x
BY SmallestExists DEF Min

-----------------------------------------------------------------------------
(* Histories                                                               *)

LEMMA AscendingIsInjective ==
  ASSUME NEW S \in SUBSET Int, IsFiniteSet(S),
         NEW j \in 1..Cardinality(S), NEW k \in 1..Cardinality(S), Ascending(S)[j] = Ascending(S)[k]
  PROVE  j = k
<1>1. j - 1 = k - 1 /\ j \in Int /\ k \in Int
  BY AscendingLists
<1> QED BY <1>1

(* One history has the runs of another, each at most once.                 *)
Selects(part, whole, place) ==
  /\ place \in [DOMAIN part -> DOMAIN whole]
  /\ \A i, j \in DOMAIN part : place[i] = place[j] => i = j
  /\ \A i \in DOMAIN part : part[i] = whole[place[i]]

LEMMA RetainRecentSelects ==
  ASSUME NEW runs \in Seq(RunRecords), Len(runs) > HistoryLimit
  PROVE  /\ RetainRecent(runs) \in Seq(RunRecords)
         /\ \E place : Selects(RetainRecent(runs), runs, place)
         /\ \A i \in DOMAIN runs : Open(runs[i]) =>
              \E j \in DOMAIN RetainRecent(runs) : RetainRecent(runs)[j] = runs[i]
<1> DEFINE open == {i \in DOMAIN runs : Open(runs[i])}
           settled == DOMAIN runs \ open
           kept == {i \in settled : Cardinality({j \in settled : j > i}) < HistoryLimit - Cardinality(open)}
           ok == Ascending(kept)
           oo == Ascending(open)
           nk == Cardinality(kept)
           no == Cardinality(open)
           first == [k \in DOMAIN ok |-> runs[ok[k]]]
           second == [k \in DOMAIN oo |-> runs[oo[k]]]
           whole == first \o second
           place == [k \in 1..(nk + no) |-> IF k <= nk THEN ok[k] ELSE oo[k - nk]]
<1>1. RetainRecent(runs) = whole
  <2>1. Len(runs) \in Nat /\ HistoryLimit \in Nat /\ ~(Len(runs) <= HistoryLimit)
    BY ImportAssumption
  <2> QED BY <2>1 DEF RetainRecent
<1>2. DOMAIN runs = 1..Len(runs) /\ Len(runs) \in Nat /\ \A i \in DOMAIN runs : runs[i] \in RunRecords
  OBVIOUS
<1>3. open \in SUBSET DOMAIN runs /\ kept \in SUBSET DOMAIN runs /\ open \cap kept = {}
  OBVIOUS
<1>4. IsFiniteSet(DOMAIN runs) /\ DOMAIN runs \in SUBSET Int
  BY <1>2, FS_Interval
<1>5. IsFiniteSet(open) /\ IsFiniteSet(kept) /\ open \in SUBSET Int /\ kept \in SUBSET Int
  <2> HIDE DEF open, kept
  <2> QED BY <1>3, <1>4, FS_Subset
<1> HIDE DEF open, kept
<1>6. /\ nk \in Nat /\ no \in Nat /\ ok \in [1..nk -> kept] /\ oo \in [1..no -> open]
      /\ \A x \in open : \E k \in 1..no : oo[k] = x
  BY <1>5, AscendingLists
<1>7. /\ \A j, k \in 1..nk : ok[j] = ok[k] => j = k
      /\ \A j, k \in 1..no : oo[j] = oo[k] => j = k
  BY <1>5, AscendingIsInjective
<1> HIDE DEF ok, oo, nk, no
<1>8. first \in Seq(RunRecords) /\ Len(first) = nk /\ \A k \in 1..nk : first[k] = runs[ok[k]]
  <2>1. first \in [1..nk -> RunRecords]
    BY <1>2, <1>3, <1>6
  <2> QED BY <1>6, <2>1
<1>9. second \in Seq(RunRecords) /\ Len(second) = no /\ \A k \in 1..no : second[k] = runs[oo[k]]
  <2>1. second \in [1..no -> RunRecords]
    BY <1>2, <1>3, <1>6
  <2> QED BY <1>6, <2>1
<1> HIDE DEF first, second
<1>10. /\ whole \in Seq(RunRecords) /\ Len(whole) = nk + no /\ DOMAIN whole = 1..(nk + no)
       /\ \A k \in 1..(nk + no) : whole[k] = IF k <= nk THEN first[k] ELSE second[k - nk]
  <2>1. whole \in Seq(RunRecords) /\ Len(whole) = nk + no
    BY <1>8, <1>9, ConcatProperties
  <2>2. \A k \in 1..(nk + no) : whole[k] = IF k <= nk THEN first[k] ELSE second[k - nk]
    BY <1>8, <1>9, ConcatProperties
  <2>3. DOMAIN whole = 1..(nk + no)
    <3> HIDE DEF whole
    <3> QED BY <2>1, LenProperties
  <2> QED BY <2>1, <2>2, <2>3
<1> HIDE DEF whole
<1>11. /\ \A k \in 1..(nk + no) : k <= nk => k \in 1..nk /\ place[k] = ok[k] /\ place[k] \in kept
       /\ \A k \in 1..(nk + no) : ~(k <= nk) => k - nk \in 1..no /\ place[k] = oo[k - nk] /\ place[k] \in open
  BY <1>6
<1>12. place \in [DOMAIN whole -> DOMAIN runs]
  BY <1>3, <1>10, <1>11
<1> HIDE DEF place
<1>13. ASSUME NEW i \in DOMAIN whole, NEW j \in DOMAIN whole, place[i] = place[j] PROVE i = j
  <2>1. i \in 1..(nk + no) /\ j \in 1..(nk + no)
    BY <1>10
  <2>2. CASE i <= nk /\ j <= nk
    BY <1>7, <1>11, <1>13, <2>1, <2>2
  <2>3. CASE ~(i <= nk) /\ ~(j <= nk)
    <3>1. i - nk = j - nk
      BY <1>7, <1>11, <1>13, <2>1, <2>3
    <3> QED BY <1>6, <2>1, <3>1
  <2>4. ~(i <= nk /\ ~(j <= nk)) /\ ~(j <= nk /\ ~(i <= nk))
    BY <1>3, <1>11, <1>13, <2>1
  <2> QED BY <2>2, <2>3, <2>4
<1>14. \A i \in DOMAIN whole : whole[i] = runs[place[i]]
  BY <1>8, <1>9, <1>10, <1>11
<1>15. ASSUME NEW i \in DOMAIN runs, Open(runs[i]) PROVE \E j \in DOMAIN whole : whole[j] = runs[i]
  <2>1. PICK k \in 1..no : oo[k] = i
    BY <1>6, <1>15 DEF open
  <2>2. nk + k \in 1..(nk + no) /\ ~(nk + k <= nk) /\ (nk + k) - nk = k
    BY <1>6
  <2> QED BY <1>9, <1>10, <2>1, <2>2
<1>16. Selects(whole, runs, place)
  BY <1>12, <1>13, <1>14 DEF Selects
<1> QED BY <1>1, <1>10, <1>15, <1>16

(* A trimmed history has every open run, and a short one is left alone.    *)
LEMMA RetainRecentKeeps ==
  ASSUME NEW runs \in Seq(RunRecords), NEW last \in Int, History(runs, last)
  PROVE  /\ RetainRecent(runs) \in Seq(RunRecords) /\ History(RetainRecent(runs), last)
         /\ \A i \in DOMAIN runs : Open(runs[i]) =>
              \E j \in DOMAIN RetainRecent(runs) : RetainRecent(runs)[j] = runs[i]
         /\ \A j \in DOMAIN RetainRecent(runs) : \E i \in DOMAIN runs : RetainRecent(runs)[j] = runs[i]
         /\ Len(runs) <= HistoryLimit => RetainRecent(runs) = runs
<1>1. CASE Len(runs) <= HistoryLimit
  BY <1>1 DEF RetainRecent
<1>2. CASE ~(Len(runs) <= HistoryLimit)
  <2>1. Len(runs) > HistoryLimit
    BY <1>2, ImportAssumption
  <2> DEFINE part == RetainRecent(runs)
  <2>2. PICK place : Selects(part, runs, place)
    BY <2>1, RetainRecentSelects
  <2>3. part \in Seq(RunRecords) /\ \A i \in DOMAIN runs : Open(runs[i]) => \E j \in DOMAIN part : part[j] = runs[i]
    BY <2>1, RetainRecentSelects
  <2> HIDE DEF part
  <2>4. History(part, last)
    BY <2>2 DEF History, Selects
  <2>5. \A j \in DOMAIN part : \E i \in DOMAIN runs : part[j] = runs[i]
    BY <2>2 DEF Selects
  <2> QED BY <1>2, <2>3, <2>4, <2>5 DEF part
<1> QED BY <1>1, <1>2

-----------------------------------------------------------------------------
(* Rows                                                                    *)

Boards == UNION {[D -> BoardRows] : D \in SUBSET Card}
Histories(rows, last) == \A c \in DOMAIN rows : History(rows[c].runs, last)

LEMMA BoardsAre ==
  ASSUME NEW rows
  PROVE  rows \in Boards <=> DOMAIN rows \subseteq Card /\ rows \in [DOMAIN rows -> BoardRows]
<1>1. ASSUME rows \in Boards PROVE DOMAIN rows \subseteq Card /\ rows \in [DOMAIN rows -> BoardRows]
  <2>1. PICK D \in SUBSET Card : rows \in [D -> BoardRows]
    BY <1>1 DEF Boards
  <2>2. DOMAIN rows = D
    BY <2>1
  <2> QED BY <2>1, <2>2
<1>2. ASSUME DOMAIN rows \subseteq Card, rows \in [DOMAIN rows -> BoardRows] PROVE rows \in Boards
  <2> DEFINE D == DOMAIN rows
  <2>1. D \in SUBSET Card /\ rows \in [D -> BoardRows]
    BY <1>2
  <2> HIDE DEF D
  <2> QED BY <2>1 DEF Boards
<1> QED BY <1>1, <1>2

LEMMA RowTypes ==
  ASSUME NEW row \in BoardRows
  PROVE  /\ row.status \in Statuses /\ row.rule \in BoardRules /\ row.due \in Nat
         /\ row.project \in Project \cup {DefaultId, Unowned} /\ row.serial \in Nat
         /\ row.created \in Int /\ row.updated \in Int /\ row.runs \in Seq(RunRecords)
         /\ row.rule = "bad" => row.due = Absent
BY DEF BoardRows, RowsWith

LEMMA FileTypes ==
  ASSUME NEW row \in FileRows
  PROVE  DOMAIN row = {"status", "rule", "due", "project", "serial", "created", "updated", "runs"}
BY DEF FileRows, RowsWith

LEMMA RunTypes ==
  ASSUME NEW run \in RunRecords
  PROVE  run.n \in Int /\ run.session \in BOOLEAN /\ run.ended \in Nat
BY DEF RunRecords

(* What a row of a file becomes.                                           *)
LEMMA ParsedRows ==
  ASSUME NEW rows, DOMAIN rows \subseteq Card, rows \in [DOMAIN rows -> FileRows],
         NEW last \in Int, Histories(rows, last)
  PROVE  /\ ParseHostTasks(rows) \in Boards /\ Histories(ParseHostTasks(rows), last)
         /\ ParseLedger(rows) \in Boards /\ Histories(ParseLedger(rows), last)
         /\ DOMAIN ParseHostTasks(rows) = DOMAIN ParseLedger(rows)
         /\ DOMAIN ParseLedger(rows) \subseteq DOMAIN rows
         /\ \A c \in DOMAIN ParseLedger(rows) : \A row \in {ParseHostTasks(rows)[c], ParseLedger(rows)[c]} :
              /\ row.runs = rows[c].runs /\ row.updated = rows[c].updated
              /\ row.status = "running" => rows[c].status = "running"
<1> DEFINE parsed == ParseLedger(rows)
           hosted == ParseHostTasks(rows)
           D == {d \in DOMAIN rows : rows[d].status # "damaged"}
<1>1. ASSUME NEW c \in D
      PROVE  /\ parsed[c] \in BoardRows /\ parsed[c].runs = rows[c].runs /\ parsed[c].updated = rows[c].updated
             /\ parsed[c].status = "running" => rows[c].status = "running"
  <2>1. rows[c] \in FileRows /\ rows[c].status # "damaged"
    OBVIOUS
  <2> DEFINE status == IF rows[c].status = "unknown" THEN "todo" ELSE rows[c].status
             rule == IF NoCron(rows[c]) THEN "none" ELSE rows[c].rule
             due == IF NoCron(rows[c]) THEN Absent ELSE rows[c].due
  <2>2. parsed[c] = [rows[c] EXCEPT !.status = status, !.rule = rule, !.due = due]
    BY DEF ParseLedger
  <2>3. /\ rows[c].status \in Statuses \cup {"unknown", "damaged"} /\ rows[c].rule \in BoardRules \cup {"broken"}
        /\ rows[c].due \in Nat
    BY <2>1 DEF FileRows, RowsWith
  <2>4. /\ status \in Statuses /\ rule \in BoardRules \ {"bad"} /\ due \in Nat
        /\ status = "running" => rows[c].status = "running"
    BY <2>1, <2>3 DEF Statuses, BoardRules, NoCron, Absent
  <2> HIDE DEF parsed, status, rule, due
  <2> QED BY <2>1, <2>2, <2>4 DEF FileRows, BoardRows, RowsWith
<1>2. parsed \in [D -> BoardRows] /\ DOMAIN parsed = D
  BY <1>1 DEF ParseLedger
<1>3. ASSUME NEW c \in D
      PROVE  /\ hosted[c] \in BoardRows /\ hosted[c].runs = parsed[c].runs /\ hosted[c].updated = parsed[c].updated
             /\ hosted[c].status = parsed[c].status
  <2> DEFINE rule == IF NoCron(rows[c]) THEN "bad" ELSE parsed[c].rule
  <2>1. hosted[c] = [parsed[c] EXCEPT !.rule = rule]
    BY <1>2 DEF ParseHostTasks
  <2>2. rule \in BoardRules /\ (rule = "bad" => parsed[c].due = Absent)
    <3>1. NoCron(rows[c]) => parsed[c].due = Absent
      BY <1>2, FileTypes DEF ParseLedger
    <3> HIDE DEF parsed
    <3> QED BY <1>1, <3>1, RowTypes DEF BoardRules
  <2> HIDE DEF parsed, hosted, rule
  <2> QED BY <1>1, <2>1, <2>2 DEF BoardRows, RowsWith
<1>4. DOMAIN hosted = D
  BY <1>2 DEF ParseHostTasks
<1>5. hosted \in [D -> BoardRows]
  <2>1. hosted = [c \in D |-> hosted[c]]
    BY <1>2 DEF ParseHostTasks
  <2> HIDE DEF hosted, D
  <2> QED BY <1>3, <2>1
<1>6. D \subseteq Card /\ D \subseteq DOMAIN rows
  OBVIOUS
<1> HIDE DEF parsed, hosted
<1>7. parsed \in Boards /\ hosted \in Boards
  BY <1>2, <1>4, <1>5, <1>6, BoardsAre
<1>8. Histories(parsed, last) /\ Histories(hosted, last)
  BY <1>1, <1>2, <1>3, <1>4, <1>6 DEF Histories
<1> HIDE DEF D
<1> QED BY <1>1, <1>2, <1>3, <1>4, <1>6, <1>7, <1>8 DEF parsed, hosted

(* What the Host wrote is read as it is.                                   *)
LEMMA ParsedBoard ==
  ASSUME NEW rows \in Boards
  PROVE  ParseHostTasks(rows) = rows
<1>1. DOMAIN rows \subseteq Card /\ rows \in [DOMAIN rows -> BoardRows]
  BY BoardsAre
<1> DEFINE parsed == ParseLedger(rows)
<1>2. DOMAIN parsed = DOMAIN rows
  BY <1>1, RowTypes DEF ParseLedger, Statuses
<1>3. ASSUME NEW c \in DOMAIN rows
      PROVE  [parsed[c] EXCEPT !.rule = IF NoCron(rows[c]) THEN "bad" ELSE @] = rows[c]
  <2>1. rows[c] \in BoardRows /\ (NoCron(rows[c]) <=> rows[c].rule = "bad")
    BY <1>1, RowTypes DEF NoCron, BoardRules
  <2>2. /\ rows[c].status # "unknown"
        /\ rows[c].rule = "bad" => rows[c].due = Absent
    BY <2>1, RowTypes DEF Statuses
  <2>3. parsed[c] = [rows[c] EXCEPT !.rule = IF NoCron(rows[c]) THEN "none" ELSE rows[c].rule,
                                    !.due = rows[c].due]
    BY <1>2, <2>1, <2>2 DEF ParseLedger, BoardRows, RowsWith
  <2> HIDE DEF parsed
  <2> QED BY <2>1, <2>2, <2>3 DEF BoardRows, RowsWith
<1>4. ParseHostTasks(rows) = [c \in DOMAIN rows |-> rows[c]]
  BY <1>2, <1>3 DEF ParseHostTasks
<1> QED BY <1>1, <1>4

(* A board is some file.                                                   *)
LEMMA BoardIsFile ==
  ASSUME NEW rows \in Boards
  PROVE  DOMAIN rows \subseteq Card /\ rows \in [DOMAIN rows -> FileRows]
<1>1. DOMAIN rows \subseteq Card /\ rows \in [DOMAIN rows -> BoardRows]
  BY BoardsAre
<1>2. BoardRows \subseteq FileRows
  BY DEF BoardRows, FileRows, RowsWith
<1> QED BY <1>1, <1>2

(* The project of every card is one there is.                              *)
LEMMA OwnedRows ==
  ASSUME NEW rows \in Boards, NEW known, known \subseteq Project \cup {DefaultId}, DefaultId \in known
  PROVE  /\ Owned(rows, known) \in Boards /\ DOMAIN Owned(rows, known) = DOMAIN rows
         /\ \A c \in DOMAIN rows : Owned(rows, known)[c] = [rows[c] EXCEPT !.project = ProjectOf(rows[c], known)]
         /\ \A c \in DOMAIN rows :
              /\ Owned(rows, known)[c].project \in known
              /\ Owned(rows, known)[c].status = rows[c].status
              /\ Owned(rows, known)[c].rule = rows[c].rule
              /\ Owned(rows, known)[c].serial = rows[c].serial
              /\ Owned(rows, known)[c].runs = rows[c].runs
<1> DEFINE owned == Owned(rows, known)
<1>1. DOMAIN rows \subseteq Card /\ rows \in [DOMAIN rows -> BoardRows]
  BY BoardsAre
<1>2. DOMAIN owned = DOMAIN rows /\ owned = [c \in DOMAIN rows |-> owned[c]]
  BY DEF Owned
<1>3. ASSUME NEW c \in DOMAIN rows
      PROVE  /\ owned[c] = [rows[c] EXCEPT !.project = ProjectOf(rows[c], known)]
             /\ owned[c] \in BoardRows /\ owned[c].project \in known
             /\ owned[c].status = rows[c].status /\ owned[c].rule = rows[c].rule
             /\ owned[c].serial = rows[c].serial /\ owned[c].runs = rows[c].runs
  <2>1. owned[c] = [rows[c] EXCEPT !.project = ProjectOf(rows[c], known)]
    BY DEF Owned
  <2>2. ProjectOf(rows[c], known) \in known
    BY DEF ProjectOf
  <2>3. rows[c] \in BoardRows
    BY <1>1
  <2> QED BY <2>1, <2>2, <2>3 DEF BoardRows, RowsWith
<1> HIDE DEF owned
<1>4. owned \in Boards
  <2>1. owned \in [DOMAIN rows -> BoardRows]
    BY <1>2, <1>3
  <2> QED BY <1>1, <1>2, <2>1, BoardsAre
<1> QED BY <1>2, <1>3, <1>4 DEF owned

LEMMA TrimmedRows ==
  ASSUME NEW rows \in Boards, NEW last \in Int, Histories(rows, last)
  PROVE  LET trimmed == [c \in DOMAIN rows |-> [rows[c] EXCEPT !.runs = RetainRecent(@)]] IN
         /\ trimmed \in Boards /\ DOMAIN trimmed = DOMAIN rows /\ Histories(trimmed, last)
         /\ \A c \in DOMAIN rows :
              /\ Stranded(trimmed[c]) => Stranded(rows[c])
              /\ Len(rows[c].runs) <= HistoryLimit => trimmed[c] = rows[c]
              /\ trimmed[c].serial = rows[c].serial
<1> DEFINE trimmed == [c \in DOMAIN rows |-> [rows[c] EXCEPT !.runs = RetainRecent(@)]]
<1>1. DOMAIN rows \subseteq Card /\ rows \in [DOMAIN rows -> BoardRows]
  BY BoardsAre
<1>2. DOMAIN trimmed = DOMAIN rows
  OBVIOUS
<1>3. ASSUME NEW c \in DOMAIN rows
      PROVE  /\ trimmed[c] \in BoardRows /\ History(trimmed[c].runs, last)
             /\ Stranded(trimmed[c]) => Stranded(rows[c])
             /\ Len(rows[c].runs) <= HistoryLimit => trimmed[c] = rows[c]
             /\ trimmed[c].serial = rows[c].serial
  <2> DEFINE row == rows[c]
             runs == row.runs
             kept == RetainRecent(runs)
  <2>1. row \in BoardRows /\ runs \in Seq(RunRecords) /\ History(runs, last)
    BY <1>1, RowTypes DEF Histories
  <2>2. /\ kept \in Seq(RunRecords) /\ History(kept, last)
        /\ \A i \in DOMAIN runs : Open(runs[i]) => \E j \in DOMAIN kept : kept[j] = runs[i]
        /\ Len(runs) <= HistoryLimit => kept = runs
    <3> HIDE DEF runs
    <3> QED BY <2>1, RetainRecentKeeps
  <2>3. trimmed[c] = [row EXCEPT !.runs = kept]
    OBVIOUS
  <2> HIDE DEF row, kept, trimmed
  <2>4. trimmed[c] \in BoardRows /\ trimmed[c].runs = kept /\ trimmed[c].status = row.status
        /\ trimmed[c].serial = row.serial /\ (kept = runs => trimmed[c] = row)
    BY <2>1, <2>2, <2>3 DEF BoardRows, RowsWith
  <2>5. Stranded(trimmed[c]) => Stranded(row)
    BY <2>2, <2>4 DEF Stranded, HasOpen, Runs
  <2> QED BY <2>2, <2>4, <2>5 DEF row
<1> HIDE DEF trimmed
<1>4. trimmed \in Boards
  <2>1. trimmed \in [DOMAIN rows -> BoardRows]
    BY <1>2, <1>3 DEF trimmed
  <2> QED BY <1>1, <1>2, <2>1, BoardsAre
<1>5. Histories(trimmed, last)
  BY <1>2, <1>3 DEF Histories
<1> QED BY <1>2, <1>3, <1>4, <1>5 DEF trimmed

-----------------------------------------------------------------------------
(* Numbers                                                                 *)

LEMMA FunctionImage ==
  ASSUME NEW f, IsFiniteSet(DOMAIN f)
  PROVE  IsFiniteSet({f[x] : x \in DOMAIN f})
<1> DEFINE g == [x \in DOMAIN f |-> f[x]]
           T == {f[x] : x \in DOMAIN f}
<1>1. g \in Surjection(DOMAIN f, T)
  BY DEF Surjection
<1> HIDE DEF g, T
<1>2. IsFiniteSet(T)
  BY <1>1, FS_Surjection
<1> QED BY <1>2 DEF T

(* The first free number is beyond every number in use.                    *)
LEMMA FirstFreeIsFree ==
  ASSUME NEW rows \in Boards, NEW start \in Int
  PROVE  /\ FirstFree(rows, start) \in Int /\ FirstFree(rows, start) >= 1 /\ FirstFree(rows, start) >= start
         /\ \A c \in Kept(rows) : rows[c].serial < FirstFree(rows, start)
         /\ \/ FirstFree(rows, start) \in {1, start}
            \/ \E c \in Kept(rows) : FirstFree(rows, start) = rows[c].serial + 1
<1> DEFINE beyond == [c \in Kept(rows) |-> rows[c].serial + 1]
           used == {beyond[c] : c \in DOMAIN beyond}
           S == {1, start} \cup used
<1>1. DOMAIN rows \subseteq Card /\ rows \in [DOMAIN rows -> BoardRows] /\ IsFiniteSet(Card)
  BY BoardsAre, ImportAssumption
<1>2. Kept(rows) \subseteq DOMAIN rows
  BY DEF Kept
<1>3. IsFiniteSet(DOMAIN beyond)
  <2>1. DOMAIN beyond \in SUBSET Card
    BY <1>1, <1>2
  <2> HIDE DEF beyond
  <2> QED BY <1>1, <2>1, FS_Subset
<1>4. \A c \in Kept(rows) : rows[c].serial \in Nat
  BY <1>1, <1>2, RowTypes
<1>5. used \in SUBSET Int
  BY <1>4
<1>6. IsFiniteSet(used)
  <2> HIDE DEF beyond
  <2> QED BY <1>3, FunctionImage
<1>7. IsFiniteSet({1, start}) /\ IsFiniteSet(S)
  <2> HIDE DEF used
  <2>1. IsFiniteSet({1, start})
    <3>1. IsFiniteSet({1}) /\ IsFiniteSet({start})
      BY FS_Singleton
    <3>2. {1, start} = {1} \cup {start}
      OBVIOUS
    <3> HIDE DEF S
    <3> QED BY <3>1, <3>2, FS_Union
  <2> QED BY <1>6, <2>1, FS_Union
<1>8. S \in SUBSET Int /\ S # {}
  BY <1>5
<1>9. Max(S) \in S /\ \A x \in S : x <= Max(S)
  <2> HIDE DEF S
  <2> QED BY <1>7, <1>8, LargestOfSet
<1>10. FirstFree(rows, start) = Max(S)
  <2>1. used = {rows[c].serial + 1 : c \in Kept(rows)}
    OBVIOUS
  <2> HIDE DEF used
  <2> QED BY <2>1 DEF FirstFree
<1> DEFINE first == Max(S)
<1>11. first \in Int /\ 1 <= first /\ start <= first
  <2>1. 1 \in S /\ start \in S
    OBVIOUS
  <2> HIDE DEF S
  <2> QED BY <1>8, <1>9, <2>1
<1>12. \A c \in Kept(rows) : rows[c].serial + 1 <= first
  <2>1. \A c \in Kept(rows) : rows[c].serial + 1 \in S
    OBVIOUS
  <2> HIDE DEF S
  <2> QED BY <1>9, <2>1
<1>13. first \in {1, start} \/ \E c \in Kept(rows) : first = rows[c].serial + 1
  <2>1. first \in {1, start} \/ first \in used
    <3> HIDE DEF used
    <3> QED BY <1>9
  <2> HIDE DEF first
  <2> QED BY <2>1
<1> HIDE DEF first
<1>14. \A c \in Kept(rows) : rows[c].serial < first
  BY <1>4, <1>11, <1>12
<1> QED BY <1>10, <1>11, <1>13, <1>14 DEF first

LEMMA EarlierIsAnOrder ==
  ASSUME NEW rows \in Boards, NEW c \in DOMAIN rows, NEW d \in DOMAIN rows, NEW e \in DOMAIN rows
  PROVE  /\ ~Earlier(rows, c, c)
         /\ c # d => Earlier(rows, c, d) \/ Earlier(rows, d, c)
         /\ Earlier(rows, c, d) /\ Earlier(rows, d, e) => Earlier(rows, c, e)
<1>1. c \in Nat /\ d \in Nat /\ e \in Nat
  BY BoardsAre, ImportAssumption
<1>2. rows[c].created \in Int /\ rows[d].created \in Int /\ rows[e].created \in Int
  BY BoardsAre, RowTypes
<1> QED BY <1>1, <1>2 DEF Earlier

(* The place of a card among those that lack a number.                     *)
Place(rows, c) == Cardinality({d \in DOMAIN rows \ Kept(rows) : Earlier(rows, d, c)})

LEMMA PlacesDiffer ==
  ASSUME NEW rows \in Boards, NEW c \in DOMAIN rows \ Kept(rows), NEW e \in DOMAIN rows \ Kept(rows)
  PROVE  /\ Cardinality(DOMAIN rows \ Kept(rows)) \in Nat
         /\ Place(rows, c) \in Nat /\ Place(rows, c) < Cardinality(DOMAIN rows \ Kept(rows))
         /\ c # e => Place(rows, c) # Place(rows, e)
<1> DEFINE missing == DOMAIN rows \ Kept(rows)
           before(x) == {d \in missing : Earlier(rows, d, x)}
<1>1. missing \in SUBSET DOMAIN rows
  OBVIOUS
<1>2. IsFiniteSet(missing)
  <2>1. missing \in SUBSET Card
    BY <1>1, BoardsAre
  <2> HIDE DEF missing
  <2> QED BY <2>1, FS_Subset, ImportAssumption
<1>3. \A x \in missing : before(x) \in SUBSET missing /\ x \notin before(x)
  BY <1>1, EarlierIsAnOrder
<1>4. \A x \in missing : IsFiniteSet(before(x))
  <2> HIDE DEF missing, before
  <2> QED BY <1>2, <1>3, FS_Subset
<1>5. ASSUME NEW x \in missing
      PROVE  Cardinality(before(x)) \in Nat /\ Cardinality(missing) \in Nat /\ Cardinality(before(x)) < Cardinality(missing)
  <2> HIDE DEF missing, before
  <2> QED BY <1>2, <1>3, SmallerSubset
<1>6. ASSUME NEW x \in missing, NEW y \in missing, Earlier(rows, x, y)
      PROVE  Cardinality(before(x)) < Cardinality(before(y))
  <2>1. before(x) \in SUBSET before(y) /\ x \in before(y) /\ x \notin before(x)
    BY <1>1, <1>6, EarlierIsAnOrder
  <2> HIDE DEF missing, before
  <2> QED BY <1>4, <2>1, SmallerSubset
<1>7. c # e => Earlier(rows, c, e) \/ Earlier(rows, e, c)
  BY EarlierIsAnOrder
<1>8. Place(rows, c) = Cardinality(before(c)) /\ Place(rows, e) = Cardinality(before(e))
  BY DEF Place
<1>9. c \in missing /\ e \in missing
  OBVIOUS
<1> HIDE DEF before
<1>10. Cardinality(missing) \in Nat /\ Place(rows, c) \in Nat /\ Place(rows, c) < Cardinality(missing)
  BY <1>5, <1>8, <1>9
<1>11. c # e => Place(rows, c) # Place(rows, e)
  <2> HIDE DEF missing
  <2> QED BY <1>5, <1>6, <1>7, <1>8, <1>9
<1> QED BY <1>10, <1>11

NumbersOf(rows, start) ==
  \A c \in DOMAIN rows :
    /\ rows[c].serial \in 1..(start - 1)
    /\ \A d \in DOMAIN rows \ {c} : rows[d].serial # rows[c].serial

(* After it every card has a number of its own.                            *)
LEMMA NumberedRows ==
  ASSUME NEW rows \in Boards, NEW start \in Int
  PROVE  /\ Numbered(rows, start) \in Boards /\ DOMAIN Numbered(rows, start) = DOMAIN rows
         /\ \A c \in DOMAIN rows :
              Numbered(rows, start)[c] = [rows[c] EXCEPT !.serial = Numbered(rows, start)[c].serial]
         /\ NextSerial(rows, start) \in Nat \ {0} /\ NextSerial(rows, start) >= start
         /\ NumbersOf(Numbered(rows, start), NextSerial(rows, start))
<1> DEFINE missing == DOMAIN rows \ Kept(rows)
           numbered == Numbered(rows, start)
           first == FirstFree(rows, start)
           after == NextSerial(rows, start)
           size == Cardinality(missing)
<1>1. DOMAIN rows \subseteq Card /\ rows \in [DOMAIN rows -> BoardRows] /\ Kept(rows) \subseteq DOMAIN rows
  BY BoardsAre DEF Kept
<1>2. first \in Int /\ first >= 1 /\ first >= start /\ \A c \in Kept(rows) : rows[c].serial < first
  BY FirstFreeIsFree
<1>3. size \in Nat
  <2>1. missing \in SUBSET Card
    BY <1>1
  <2> HIDE DEF missing
  <2>2. IsFiniteSet(missing)
    BY <2>1, FS_Subset, ImportAssumption
  <2> QED BY <2>2, FS_CardinalityType
<1>4. after = first + size
  BY DEF NextSerial
<1>5. DOMAIN numbered = DOMAIN rows /\ numbered = [c \in DOMAIN rows |-> numbered[c]]
  BY DEF Numbered
<1>6. ASSUME NEW c \in missing
      PROVE  numbered[c] = [rows[c] EXCEPT !.serial = first + Place(rows, c)]
  BY <1>6 DEF Numbered, Place
<1>7. ASSUME NEW c \in Kept(rows) PROVE numbered[c] = rows[c]
  BY <1>1, <1>7 DEF Numbered
<1>8. \A c, e \in missing : /\ Place(rows, c) \in Nat /\ Place(rows, c) < size
                            /\ c # e => Place(rows, c) # Place(rows, e)
  BY PlacesDiffer
<1> HIDE DEF numbered, first, after, size
<1>9. ASSUME NEW c \in DOMAIN rows
      PROVE  numbered[c] \in BoardRows /\ numbered[c] = [rows[c] EXCEPT !.serial = numbered[c].serial]
  <2>1. rows[c] \in BoardRows
    BY <1>1
  <2>2. CASE c \in Kept(rows)
    BY <1>7, <2>1, <2>2 DEF BoardRows, RowsWith
  <2>3. CASE c \in missing
    <3>1. first + Place(rows, c) \in Nat
      BY <1>2, <1>8, <2>3
    <3> QED BY <1>6, <2>1, <2>3, <3>1 DEF BoardRows, RowsWith
  <2> QED BY <2>2, <2>3
<1>10. numbered \in Boards
  <2>1. numbered \in [DOMAIN rows -> BoardRows]
    BY <1>5, <1>9
  <2> QED BY <1>1, <1>5, <2>1, BoardsAre
<1>11. \A c \in missing : numbered[c].serial = first + Place(rows, c)
  BY <1>1, <1>6 DEF BoardRows, RowsWith
<1>12. \A c \in Kept(rows) : /\ numbered[c].serial = rows[c].serial /\ rows[c].serial \in Nat \ {0}
                            /\ \A d \in Kept(rows) \ {c} : rows[d].serial # rows[c].serial
  <2>1. ASSUME NEW c \in Kept(rows) PROVE rows[c].serial \in Nat \ {0}
    <3>1. rows[c].serial \in Nat
      BY <1>1, RowTypes
    <3> QED BY <3>1 DEF Kept, Keeps, Absent
  <2>2. ASSUME NEW c \in Kept(rows), NEW d \in Kept(rows) \ {c} PROVE rows[d].serial # rows[c].serial
    <3>1. Earlier(rows, c, d) \/ Earlier(rows, d, c)
      BY <1>1, EarlierIsAnOrder
    <3> QED BY <1>1, <3>1 DEF Kept, Keeps
  <2> QED BY <1>7, <2>1, <2>2
<1>13. NumbersOf(numbered, after)
  <2>1. ASSUME NEW c \in DOMAIN rows PROVE numbered[c].serial \in 1..(after - 1)
    BY <1>2, <1>3, <1>4, <1>8, <1>11, <1>12
  <2>2. ASSUME NEW c \in DOMAIN rows, NEW d \in DOMAIN rows \ {c} PROVE numbered[d].serial # numbered[c].serial
    <3>1. CASE c \in Kept(rows) /\ d \in Kept(rows)
      BY <1>12, <3>1
    <3>2. CASE c \in Kept(rows) /\ d \in missing
      BY <1>2, <1>8, <1>11, <1>12, <3>2
    <3>3. CASE c \in missing /\ d \in Kept(rows)
      BY <1>2, <1>8, <1>11, <1>12, <3>3
    <3>4. CASE c \in missing /\ d \in missing
      <4>1. Place(rows, c) # Place(rows, d) /\ Place(rows, c) \in Nat /\ Place(rows, d) \in Nat
        BY <1>8, <3>4
      <4> QED BY <1>2, <1>11, <3>4, <4>1
    <3> QED BY <3>1, <3>2, <3>3, <3>4
  <2> QED BY <1>5, <2>1, <2>2 DEF NumbersOf
<1>14. after \in Nat \ {0} /\ after >= start
  BY <1>2, <1>3, <1>4
<1> QED BY <1>5, <1>9, <1>10, <1>13, <1>14 DEF numbered, after

(* A board with numbers of its own is not renumbered.                      *)
LEMMA NumberedBoard ==
  ASSUME NEW rows \in Boards, NEW start \in Nat \ {0}, NumbersOf(rows, start)
  PROVE  Numbered(rows, start) = rows /\ NextSerial(rows, start) = start
<1>1. DOMAIN rows \subseteq Card /\ rows \in [DOMAIN rows -> BoardRows]
  BY BoardsAre
<1>2. Kept(rows) = DOMAIN rows
  <2>1. ASSUME NEW c \in DOMAIN rows PROVE Keeps(rows, c)
    <3>1. rows[c].serial \in 1..(start - 1) /\ \A d \in DOMAIN rows \ {c} : rows[d].serial # rows[c].serial
      BY DEF NumbersOf
    <3>2. ~Earlier(rows, c, c)
      BY EarlierIsAnOrder
    <3> QED BY <3>1, <3>2 DEF Keeps, Absent
  <2> QED BY <2>1 DEF Kept
<1>3. DOMAIN rows \ Kept(rows) = {}
  BY <1>2
<1>4. Numbered(rows, start) = [c \in DOMAIN rows |-> rows[c]]
  BY <1>3 DEF Numbered
<1>5. FirstFree(rows, start) = start
  <2>1. \A c \in Kept(rows) : rows[c].serial \in Int /\ rows[c].serial + 1 <= start
    BY <1>2 DEF NumbersOf
  <2> QED BY <2>1, FirstFreeIsFree
<1>6. NextSerial(rows, start) = start + 0
  BY <1>3, <1>5, FS_EmptySet DEF NextSerial
<1> QED BY <1>1, <1>4, <1>6

-----------------------------------------------------------------------------
(* Runs that end                                                           *)

Outcomes == {"succeeded", "failed", "cancelled"}

(* A run that is settled stays as it is, and a card that has one settled   *)
(* runs no longer.                                                         *)
LEMMA SettledRow ==
  ASSUME NEW row \in BoardRows, NEW last \in Int, History(row.runs, last), clock \in Nat,
         NEW n, \E i \in DOMAIN row.runs : row.runs[i].n = n, NEW outcome \in Outcomes
  PROVE  LET to == SettleRun(row, n, outcome) IN
         /\ to \in BoardRows /\ History(to.runs, last) /\ DOMAIN to.runs = DOMAIN row.runs
         /\ to.serial = row.serial /\ to.rule = row.rule /\ to.project = row.project
         /\ \A i \in DOMAIN row.runs : /\ to.runs[i].n = row.runs[i].n
                                       /\ ~Open(row.runs[i]) => to.runs[i] = row.runs[i]
         /\ to = row \/ to.status # "running"
<1> DEFINE i == CHOOSE j \in DOMAIN row.runs : row.runs[j].n = n
           to == SettleRun(row, n, outcome)
           run == row.runs[i]
           ended == [run EXCEPT !.ended = clock]
           runs == [row.runs EXCEPT ![i] = ended]
           status == CASE outcome = "succeeded" -> IF row.rule = "armed" THEN "todo" ELSE "done"
                       [] outcome = "failed" -> "failed"
                       [] OTHER -> IF row.status = "running" THEN "todo" ELSE row.status
<1>1. row.runs \in Seq(RunRecords) /\ row.status \in Statuses
  BY RowTypes
<1>2. i \in DOMAIN row.runs
  OBVIOUS
<1>3. run \in RunRecords
  <2> HIDE DEF i
  <2> QED BY <1>1, <1>2
<1>4. CASE ~Open(run)
  <2>1. to = row
    BY <1>4 DEF SettleRun
  <2> QED BY <2>1
<1>5. CASE Open(run)
  <2>1. to = [row EXCEPT !.runs = runs, !.updated = clock, !.status = status]
    BY <1>5 DEF SettleRun
  <2>2. ended \in RunRecords /\ ended.n = run.n
    <3> HIDE DEF run
    <3> QED BY <1>3 DEF RunRecords
  <2>3. status \in Statuses /\ status # "running"
    BY <1>1 DEF Statuses, Outcomes
  <2>4. runs \in Seq(RunRecords) /\ DOMAIN runs = DOMAIN row.runs
        /\ \A j \in DOMAIN row.runs : runs[j] = IF j = i THEN ended ELSE row.runs[j]
    <3> HIDE DEF ended, i
    <3> QED BY <1>1, <1>2, <2>2, ExceptSeq
  <2>5. \A j \in DOMAIN row.runs : runs[j].n = row.runs[j].n /\ (~Open(row.runs[j]) => runs[j] = row.runs[j])
    <3> HIDE DEF runs, ended, i
    <3> QED BY <1>5, <2>2, <2>4
  <2> HIDE DEF status, runs, to
  <2>6. /\ to \in BoardRows /\ to.runs = runs /\ to.status = status
        /\ to.serial = row.serial /\ to.rule = row.rule /\ to.project = row.project
    <3>1. runs \in Seq(RunRecords) /\ status \in Statuses /\ clock \in Int
      BY <2>3, <2>4
    <3>2. row \in [status : Statuses, rule : BoardRules, due : Nat, project : Project \cup {DefaultId, Unowned},
                   serial : Nat, created : Int, updated : Int, runs : Seq(RunRecords)]
      BY DEF BoardRows, RowsWith
    <3> HIDE DEF ended, run, i
    <3> QED BY <2>1, <3>1, <3>2 DEF BoardRows, RowsWith
  <2>7. History(runs, last)
    <3> HIDE DEF i
    <3> QED BY <2>4, <2>5 DEF History
  <2> QED BY <2>3, <2>4, <2>5, <2>6, <2>7 DEF to
<1> QED BY <1>4, <1>5

(* A restart ends the launches that were under way.                        *)
LEMMA ReconciledRows ==
  ASSUME NEW rows \in Boards, NEW last \in Int, Histories(rows, last), clock \in Nat
  PROVE  LET to == ReconcileInterruptedStarts(rows) IN
         /\ to \in Boards /\ DOMAIN to = DOMAIN rows /\ Histories(to, last)
         /\ \A c \in DOMAIN rows :
              /\ to[c].serial = rows[c].serial /\ to[c].rule = rows[c].rule /\ to[c].project = rows[c].project
              /\ Stranded(to[c]) => Stranded(rows[c])
              /\ ~Interrupted(rows[c]) => to[c] = rows[c]
<1> DEFINE to == ReconcileInterruptedStarts(rows)
<1>1. DOMAIN rows \subseteq Card /\ rows \in [DOMAIN rows -> BoardRows]
  BY BoardsAre
<1>2. DOMAIN to = DOMAIN rows /\ to = [c \in DOMAIN rows |-> to[c]]
  BY DEF ReconcileInterruptedStarts
<1>3. ASSUME NEW c \in DOMAIN rows
      PROVE  /\ to[c] \in BoardRows /\ History(to[c].runs, last)
             /\ to[c].serial = rows[c].serial /\ to[c].rule = rows[c].rule /\ to[c].project = rows[c].project
             /\ Stranded(to[c]) => Stranded(rows[c])
             /\ ~Interrupted(rows[c]) => to[c] = rows[c]
  <2> DEFINE row == rows[c]
  <2>1. row \in BoardRows /\ History(row.runs, last) /\ row.runs \in Seq(RunRecords)
    BY <1>1, RowTypes DEF Histories
  <2>2. CASE ~Interrupted(row)
    <3>1. to[c] = row
      BY <2>2 DEF ReconcileInterruptedStarts
    <3> QED BY <2>1, <3>1
  <2>3. CASE Interrupted(row)
    <3> DEFINE n == Last(row.runs).n
               settled == SettleRun(row, n, "cancelled")
    <3>1. to[c] = settled
      BY <2>3 DEF ReconcileInterruptedStarts
    <3> HIDE DEF row, to
    <3>2. row.runs # <<>>
      BY <2>3 DEF Interrupted
    <3>3. Len(row.runs) \in DOMAIN row.runs
      BY <2>1, <3>2
    <3>4. \E i \in DOMAIN row.runs : row.runs[i].n = n
      BY <3>3 DEF Last
    <3> HIDE DEF n
    <3>5. /\ settled \in BoardRows /\ History(settled.runs, last)
          /\ settled.serial = row.serial /\ settled.rule = row.rule /\ settled.project = row.project
          /\ settled = row \/ settled.status # "running"
      BY <2>1, <3>4, SettledRow DEF Outcomes
    <3>6. Stranded(settled) => Stranded(row)
      <4> HIDE DEF settled
      <4> QED BY <3>5 DEF Stranded
    <3> QED BY <2>3, <3>1, <3>5, <3>6 DEF row
  <2> QED BY <2>2, <2>3
<1> HIDE DEF to
<1>4. to \in Boards
  <2>1. to \in [DOMAIN rows -> BoardRows]
    BY <1>2, <1>3
  <2> QED BY <1>1, <1>2, <2>1, BoardsAre
<1>5. Histories(to, last)
  BY <1>2, <1>3 DEF Histories
<1> QED BY <1>2, <1>3, <1>4, <1>5 DEF to

-----------------------------------------------------------------------------
(* Rules                                                                   *)

LEMMA NextOccurrence ==
  ASSUME clock \in 1..MaxTime
  PROVE  /\ clock \in Nat /\ NextRunAtMs[clock] \in Nat
         /\ NextRunAtMs[clock] = Absent \/ NextRunAtMs[clock] > clock
BY ImportAssumption

(* One rule that is repaired: nothing else of its card changes.            *)
LEMMA RepairedRow ==
  ASSUME NEW row \in BoardRows, row.rule = "armed", clock \in Nat,
         NEW due \in Nat, due = Absent \/ due > clock, due = NextRunAtMs[clock],
         ~(due # Absent /\ row.due = due),
         NEW to, to = [row EXCEPT !.rule = IF due = Absent THEN "off" ELSE "armed", !.due = due, !.updated = clock]
  PROVE  /\ to \in BoardRows /\ to.runs = row.runs /\ to.status = row.status
         /\ to.serial = row.serial /\ to.project = row.project
         /\ Content(to) = Content(row) /\ RuleRepaired(row, to)
<1> DEFINE rule == IF due = Absent THEN "off" ELSE "armed"
<1>0. to = [row EXCEPT !.rule = rule, !.due = due, !.updated = clock]
  OBVIOUS
<1>1. rule \in BoardRules /\ rule # "bad" /\ clock \in Int
  BY DEF BoardRules
<1>2. rule = "armed" => due # Absent /\ due > clock
  BY DEF Absent
<1>3. rule # "armed" => rule = "off" /\ due = Absent
  OBVIOUS
<1> HIDE DEF rule
<1>4. /\ to \in BoardRows /\ to.runs = row.runs /\ to.status = row.status
      /\ to.serial = row.serial /\ to.project = row.project
      /\ to.rule = rule /\ to.due = due
  BY <1>0, <1>1 DEF BoardRows, RowsWith
<1>5. Content(to) = Content(row)
  BY <1>0 DEF Content, BoardRows, RowsWith
<1>6. RuleRepaired(row, to)
  BY <1>2, <1>3, <1>4 DEF RuleRepaired
<1> QED BY <1>4, <1>5, <1>6

LEMMA RepairedRows ==
  ASSUME NEW rows \in Boards, NEW last \in Int, Histories(rows, last), clock \in 1..MaxTime
  PROVE  LET to == RepairSchedules(rows) IN
         /\ to \in Boards /\ DOMAIN to = DOMAIN rows /\ Histories(to, last)
         /\ \A c \in DOMAIN rows :
              /\ to[c].runs = rows[c].runs /\ to[c].status = rows[c].status
              /\ to[c].serial = rows[c].serial /\ to[c].project = rows[c].project
              /\ Content(to[c]) = Content(rows[c]) /\ RuleRepaired(rows[c], to[c])
<1> DEFINE to == RepairSchedules(rows)
           due == NextRunAtMs[clock]
<1>1. DOMAIN rows \subseteq Card /\ rows \in [DOMAIN rows -> BoardRows]
  BY BoardsAre
<1>2. clock \in Nat /\ due \in Nat /\ (due = Absent \/ due > clock)
  BY NextOccurrence
<1>3. DOMAIN to = DOMAIN rows /\ to = [c \in DOMAIN rows |-> to[c]]
  BY DEF RepairSchedules
<1>4. ASSUME NEW c \in DOMAIN rows
      PROVE  /\ to[c] \in BoardRows /\ to[c].runs = rows[c].runs /\ to[c].status = rows[c].status
             /\ to[c].serial = rows[c].serial /\ to[c].project = rows[c].project
             /\ Content(to[c]) = Content(rows[c]) /\ RuleRepaired(rows[c], to[c])
  <2> DEFINE row == rows[c]
  <2>1. row \in BoardRows
    BY <1>1
  <2>2. CASE row.rule # "armed"
    <3>1. to[c] = row
      BY <2>2 DEF RepairSchedules
    <3>2. RuleRepaired(row, row)
      BY <2>2 DEF RuleRepaired
    <3> QED BY <2>1, <3>1, <3>2
  <2>3. CASE row.rule = "armed" /\ due # Absent /\ row.due = due
    <3>1. to[c] = row
      BY <2>3 DEF RepairSchedules
    <3>2. RuleRepaired(row, row)
      BY <1>2, <2>3 DEF RuleRepaired
    <3> QED BY <2>1, <3>1, <3>2
  <2>4. CASE row.rule = "armed" /\ ~(due # Absent /\ row.due = due)
    <3>1. to[c] = [row EXCEPT !.rule = IF due = Absent THEN "off" ELSE "armed", !.due = due, !.updated = clock]
      BY <2>4 DEF RepairSchedules
    <3>2. due = NextRunAtMs[clock]
      OBVIOUS
    <3> HIDE DEF to, row, due
    <3>3. /\ to[c] \in BoardRows /\ to[c].runs = row.runs /\ to[c].status = row.status
          /\ to[c].serial = row.serial /\ to[c].project = row.project
          /\ Content(to[c]) = Content(row) /\ RuleRepaired(row, to[c])
      BY <1>2, <2>1, <2>4, <3>1, <3>2, RepairedRow
    <3> QED BY <3>3 DEF row
  <2> QED BY <2>2, <2>3, <2>4
<1> HIDE DEF to
<1>5. to \in Boards
  <2>1. to \in [DOMAIN rows -> BoardRows]
    BY <1>3, <1>4
  <2> QED BY <1>1, <1>3, <2>1, BoardsAre
<1>6. Histories(to, last)
  BY <1>3, <1>4 DEF Histories
<1> QED BY <1>3, <1>4, <1>5, <1>6 DEF to

-----------------------------------------------------------------------------
(* The merge                                                               *)

NumbersIn(row) == {run.n : run \in Runs(row)}
Numbering(row, n) == CHOOSE run \in Runs(row) : run.n = n
Joined(a, b, n) ==
  IF n \in NumbersIn(a) \cap NumbersIn(b) THEN BetterExecution(Numbering(a, n), Numbering(b, n))
  ELSE IF n \in NumbersIn(a) THEN Numbering(a, n) ELSE Numbering(b, n)

LEMMA RowNumbers ==
  ASSUME NEW row \in BoardRows, NEW last \in Int, History(row.runs, last)
  PROVE  /\ Runs(row) \subseteq RunRecords
         /\ NumbersIn(row) \subseteq Int /\ IsFiniteSet(NumbersIn(row)) /\ \A n \in NumbersIn(row) : n <= last
         /\ \A n \in NumbersIn(row) : Numbering(row, n) \in Runs(row) /\ Numbering(row, n).n = n
         /\ \A run \in Runs(row) : run.n \in NumbersIn(row) /\ run = Numbering(row, run.n)
<1>1. row.runs \in Seq(RunRecords)
  BY RowTypes
<1>2. DOMAIN row.runs = 1..Len(row.runs) /\ Len(row.runs) \in Nat /\ \A i \in DOMAIN row.runs : row.runs[i] \in RunRecords
  BY <1>1
<1>3. Runs(row) \subseteq RunRecords
  BY <1>2 DEF Runs
<1>4. IsFiniteSet(NumbersIn(row))
  <2> DEFINE number == [i \in DOMAIN row.runs |-> row.runs[i].n]
  <2>1. IsFiniteSet(DOMAIN number)
    BY <1>2, FS_Interval
  <2>2. NumbersIn(row) = {number[i] : i \in DOMAIN number}
    BY DEF NumbersIn, Runs
  <2> HIDE DEF number
  <2> QED BY <2>1, <2>2, FunctionImage
<1>5. \A n \in NumbersIn(row) : n \in Int /\ n <= last
  BY <1>3, RunTypes DEF NumbersIn, Runs, History
<1>6. \A n \in NumbersIn(row) : Numbering(row, n) \in Runs(row) /\ Numbering(row, n).n = n
  BY DEF NumbersIn, Numbering
<1>7. \A run, other \in Runs(row) : run.n = other.n => run = other
  BY DEF Runs, History
<1>8. \A run \in Runs(row) : run.n \in NumbersIn(row)
  BY DEF NumbersIn
<1>9. \A run \in Runs(row) : run = Numbering(row, run.n)
  BY <1>6, <1>7, <1>8
<1> QED BY <1>3, <1>4, <1>5, <1>6, <1>8, <1>9

(* The runs of both copies, each once; what one copy settled is settled.   *)
LEMMA MergedRuns ==
  ASSUME NEW a \in BoardRows, NEW b \in BoardRows, NEW last \in Int, History(a.runs, last), History(b.runs, last)
  PROVE  /\ MergeRuns(a, b) \in Seq(RunRecords) /\ History(MergeRuns(a, b), last)
         /\ \A i \in DOMAIN MergeRuns(a, b) :
              /\ MergeRuns(a, b)[i] \in Runs(a) \cup Runs(b)
              /\ \A old \in Runs(a) : old.n = MergeRuns(a, b)[i].n /\ ~Open(old) => ~Open(MergeRuns(a, b)[i])
<1> DEFINE N == NumbersIn(a) \cup NumbersIn(b)
           M == {Joined(a, b, n) : n \in N}
           order == Ascending(N)
           merged == [k \in DOMAIN order |-> CHOOSE run \in M : run.n = order[k]]
<1>1. N \in SUBSET Int /\ \A n \in N : n <= last
  BY RowNumbers
<1>2. IsFiniteSet(N)
  BY RowNumbers, FS_Union
<1>3. ASSUME NEW n \in N
      PROVE  Joined(a, b, n).n = n /\ Joined(a, b, n) \in Runs(a) \cup Runs(b)
  BY RowNumbers DEF Joined, BetterExecution
<1>4. {run.n : run \in M} = N
  <2> HIDE DEF N
  <2> QED BY <1>3
<1>5. MergeRuns(a, b) = merged
  <2>1. MergeRuns(a, b) = Sorted(M)
    BY DEF MergeRuns, Joined, NumbersIn, Numbering
  <2> HIDE DEF M, N
  <2> QED BY <1>4, <2>1 DEF Sorted
<1> DEFINE size == Cardinality(N)
<1>6. /\ size \in Nat /\ order \in [1..size -> N]
      /\ \A j, k \in 1..size : order[j] = order[k] => j = k
  <2> HIDE DEF N
  <2> QED BY <1>1, <1>2, AscendingLists, AscendingIsInjective
<1>7. ASSUME NEW n \in N PROVE (CHOOSE run \in M : run.n = n) = Joined(a, b, n)
  <2>1. Joined(a, b, n) \in M /\ Joined(a, b, n).n = n
    BY <1>3
  <2>2. \A run \in M : run.n = n => run = Joined(a, b, n)
    <3> HIDE DEF N
    <3> QED BY <1>3
  <2> HIDE DEF M
  <2> QED BY <2>1, <2>2
<1> HIDE DEF N, M, order, size
<1>8. DOMAIN merged = 1..size /\ \A k \in 1..size : merged[k] = Joined(a, b, order[k])
  BY <1>6, <1>7
<1> HIDE DEF merged
<1>9. \A k \in 1..size : merged[k].n = order[k] /\ merged[k] \in Runs(a) \cup Runs(b) /\ order[k] \in N
  BY <1>3, <1>6, <1>8
<1>10. merged \in Seq(RunRecords)
  <2>1. Runs(a) \cup Runs(b) \subseteq RunRecords
    BY RowNumbers
  <2>2. merged = [k \in 1..size |-> merged[k]]
    BY <1>5, <1>8 DEF merged
  <2>3. merged \in [1..size -> RunRecords]
    BY <1>9, <2>1, <2>2
  <2> QED BY <1>6, <2>3
<1>11. History(merged, last)
  <2>1. ASSUME NEW i \in DOMAIN merged, NEW j \in DOMAIN merged
        PROVE  merged[i].n <= last /\ (merged[i].n = merged[j].n => i = j)
    <3>1. i \in 1..size /\ j \in 1..size
      BY <1>8
    <3>2. merged[i].n = order[i] /\ merged[j].n = order[j] /\ order[i] \in N
      BY <1>9, <3>1
    <3> QED BY <1>1, <1>6, <3>1, <3>2
  <2> QED BY <2>1 DEF History
<1>12. ASSUME NEW k \in 1..size, NEW old \in Runs(a), old.n = merged[k].n, ~Open(old) PROVE ~Open(merged[k])
  <2> DEFINE n == order[k]
  <2>1. n \in NumbersIn(a) /\ old = Numbering(a, n) /\ old.ended # 0 /\ old.ended \in Nat
    BY <1>9, <1>12, RowNumbers, RunTypes DEF Open, Absent
  <2>2. n \in NumbersIn(b) => Numbering(b, n).ended \in Nat
    BY RowNumbers, RunTypes
  <2>3. ~Open(Joined(a, b, n))
    <3> HIDE DEF n
    <3> QED BY <2>1, <2>2 DEF Joined, BetterExecution, Open, Absent
  <2> QED BY <1>8, <2>3
<1> QED BY <1>5, <1>8, <1>9, <1>10, <1>11, <1>12

Merges(a, b, row) ==
  /\ a.updated >= b.updated => row.status = a.status /\ row.rule = a.rule
  /\ \A old \in Runs(a), new \in Runs(row) : old.n = new.n /\ ~Open(old) => ~Open(new)
  /\ Launching(row) => Launching(a) \/ Launching(b)

LEMMA MergedTask ==
  ASSUME NEW a \in BoardRows, NEW b \in BoardRows, NEW last \in Int, History(a.runs, last), History(b.runs, last)
  PROVE  MergeTask(a, b) \in BoardRows /\ History(MergeTask(a, b).runs, last) /\ Merges(a, b, MergeTask(a, b))
<1> DEFINE newer == Newer(a, b)
           merged == MergeRuns(a, b)
           kept == RetainRecent(merged)
           row == MergeTask(a, b)
<1>1. newer \in BoardRows /\ (a.updated >= b.updated => newer = a)
  BY RowTypes DEF Newer
<1>2. /\ merged \in Seq(RunRecords) /\ History(merged, last)
      /\ \A i \in DOMAIN merged :
           /\ merged[i] \in Runs(a) \cup Runs(b)
           /\ \A old \in Runs(a) : old.n = merged[i].n /\ ~Open(old) => ~Open(merged[i])
  BY MergedRuns
<1> HIDE DEF merged
<1>3. /\ kept \in Seq(RunRecords) /\ History(kept, last)
      /\ \A j \in DOMAIN kept : \E i \in DOMAIN merged : kept[j] = merged[i]
  BY <1>2, RetainRecentKeeps
<1>4. row = [newer EXCEPT !.runs = kept]
  BY DEF MergeTask, merged
<1> HIDE DEF newer, kept, row
<1>5. row \in BoardRows /\ row.runs = kept /\ row.status = newer.status /\ row.rule = newer.rule
  BY <1>1, <1>3, <1>4 DEF BoardRows, RowsWith
<1>6. ASSUME NEW new \in Runs(row)
      PROVE  /\ new \in Runs(a) \cup Runs(b)
             /\ \A old \in Runs(a) : old.n = new.n /\ ~Open(old) => ~Open(new)
  <2>1. PICK j \in DOMAIN kept : new = kept[j]
    BY <1>5, <1>6 DEF Runs
  <2>2. PICK i \in DOMAIN merged : new = merged[i]
    BY <1>3, <2>1
  <2> QED BY <1>2, <2>2
<1>7. Launching(row) => Launching(a) \/ Launching(b)
  BY <1>6 DEF Launching
<1>8. Merges(a, b, row)
  BY <1>1, <1>5, <1>6, <1>7 DEF Merges
<1> QED BY <1>3, <1>5, <1>8 DEF row

LEMMA MergedRows ==
  ASSUME NEW rows \in Boards, NEW incoming \in Boards, NEW last \in Int,
         Histories(rows, last), Histories(incoming, last)
  PROVE  LET merged == Merged(rows, incoming) IN
         /\ merged \in Boards /\ DOMAIN merged = DOMAIN rows \cup DOMAIN incoming /\ Histories(merged, last)
         /\ \A c \in DOMAIN rows : IF c \in DOMAIN incoming THEN Merges(rows[c], incoming[c], merged[c])
                                   ELSE merged[c] = rows[c]
<1> DEFINE merged == Merged(rows, incoming)
<1>1. /\ DOMAIN rows \subseteq Card /\ rows \in [DOMAIN rows -> BoardRows]
      /\ DOMAIN incoming \subseteq Card /\ incoming \in [DOMAIN incoming -> BoardRows]
  BY BoardsAre
<1>2. DOMAIN merged = DOMAIN rows \cup DOMAIN incoming /\ merged = [c \in DOMAIN rows \cup DOMAIN incoming |-> merged[c]]
  BY DEF Merged
<1>3. ASSUME NEW c \in DOMAIN rows, c \notin DOMAIN incoming PROVE merged[c] = rows[c]
  BY <1>3 DEF Merged
<1>4. ASSUME NEW c \in DOMAIN incoming, c \notin DOMAIN rows PROVE merged[c] = incoming[c]
  BY <1>4 DEF Merged
<1>5. ASSUME NEW c \in DOMAIN rows, c \in DOMAIN incoming PROVE merged[c] = MergeTask(rows[c], incoming[c])
  BY <1>5 DEF Merged
<1> HIDE DEF merged
<1>6. ASSUME NEW c \in DOMAIN rows, c \in DOMAIN incoming
      PROVE  merged[c] \in BoardRows /\ History(merged[c].runs, last) /\ Merges(rows[c], incoming[c], merged[c])
  <2> DEFINE a == rows[c]
             b == incoming[c]
  <2>1. a \in BoardRows /\ b \in BoardRows /\ History(a.runs, last) /\ History(b.runs, last)
    BY <1>1, <1>6 DEF Histories
  <2>2. merged[c] = MergeTask(a, b)
    BY <1>5, <1>6
  <2> HIDE DEF a, b
  <2>3. merged[c] \in BoardRows /\ History(merged[c].runs, last) /\ Merges(a, b, merged[c])
    BY <2>1, <2>2, MergedTask
  <2> QED BY <2>3 DEF a, b
<1>7. \A c \in DOMAIN rows \cup DOMAIN incoming : merged[c] \in BoardRows /\ History(merged[c].runs, last)
  BY <1>1, <1>3, <1>4, <1>6 DEF Histories
<1>8. merged \in Boards
  <2>1. merged \in [DOMAIN merged -> BoardRows]
    BY <1>2, <1>7
  <2> QED BY <1>1, <1>2, <2>1, BoardsAre
<1>9. Histories(merged, last)
  BY <1>2, <1>7 DEF Histories
<1> QED BY <1>2, <1>3, <1>6, <1>8, <1>9 DEF merged

-----------------------------------------------------------------------------
(* The invariant                                                           *)

Pages == [rows : Boards, of : Nat, mark : Nat]

(* Histories name no run that is to come, in the document and in what a    *)
(* tab still shows; a deletion remembers sources that were seen.           *)
Watched ==
  /\ clock \in 1..MaxTime /\ ops \in Nat /\ ledger \in Nat
  /\ Histories(tasks, ops)
  /\ tab \in [Browser -> Pages]
  /\ \A b \in Browser : Histories(tab[b].rows, ops)
  /\ gone \in [Card -> SUBSET Browser] /\ \A c \in Card : gone[c] \subseteq imported
ImportInv == BoardSound /\ Watched

LEMMA BoardFacts ==
  ASSUME BoardSound
  PROVE  /\ tasks \in Boards /\ NumbersOf(tasks, next) /\ next \in Nat \ {0}
         /\ DOMAIN projects \subseteq Project \cup {DefaultId} /\ DefaultId \in DOMAIN projects
BY BoardsAre DEF BoardSound, ImportTypeOK, NumbersUnique, NumbersOf, BoardRows

LEMMA LaterHistories ==
  ASSUME NEW rows \in Boards, NEW l \in Int, NEW m \in Int, l <= m, Histories(rows, l)
  PROVE  Histories(rows, m)
<1>1. ASSUME NEW c \in DOMAIN rows PROVE History(rows[c].runs, m)
  <2> DEFINE runs == rows[c].runs
  <2>1. runs \in Seq(RunRecords) /\ History(runs, l)
    BY BoardsAre, RowTypes DEF Histories
  <2>2. \A i \in DOMAIN runs : runs[i].n \in Int
    <3> HIDE DEF runs
    <3> QED BY <2>1, RunTypes
  <2> HIDE DEF runs
  <2>3. History(runs, m)
    BY <2>1, <2>2 DEF History
  <2> QED BY <2>3 DEF runs
<1> QED BY <1>1 DEF Histories

LEMMA InterruptedLaunches ==
  ASSUME NEW row \in BoardRows, Interrupted(row)
  PROVE  Launching(row)
<1>1. row.runs \in Seq(RunRecords) /\ row.runs # <<>> /\ Open(Last(row.runs)) /\ ~Last(row.runs).session
  BY RowTypes DEF Interrupted
<1>2. Len(row.runs) \in DOMAIN row.runs /\ Last(row.runs) = row.runs[Len(row.runs)]
  BY <1>1 DEF Last
<1> QED BY <1>1, <1>2 DEF Launching, Runs

(* What an import makes of the board.                                      *)
LEMMA ImportedBoard ==
  ASSUME BoardSound, NEW last \in Int, Histories(tasks, last), clock \in 1..MaxTime,
         NEW rows \in Boards, Histories(rows, last), NEW b, b \notin imported, Import(b, rows)
  PROVE  /\ tasks' \in Boards /\ Histories(tasks', last)
         /\ next' \in Nat \ {0} /\ NumbersOf(tasks', next') /\ imported' = imported \cup {b}
         /\ \A c \in DOMAIN tasks' : tasks'[c].project \in DOMAIN projects
         /\ DOMAIN tasks' = DOMAIN tasks \cup DOMAIN rows
         /\ \A c \in DOMAIN tasks \cap DOMAIN rows :
              tasks[c].updated >= rows[c].updated /\ ~Launching(tasks[c]) /\ ~Launching(rows[c])
                => /\ tasks'[c].status = tasks[c].status
                   /\ \/ tasks'[c].rule = tasks[c].rule
                      \/ tasks[c].rule = "armed" /\ tasks'[c].rule = "off" /\ NextRunAtMs[clock] = Absent
                   /\ \A old \in Runs(tasks[c]), new \in Runs(tasks'[c]) : old.n = new.n /\ ~Open(old) => ~Open(new)
<1> DEFINE merged == Merged(tasks, rows)
           numbered == Numbered(merged, next)
           known == DOMAIN projects
           owned == Owned(numbered, known)
           repaired == RepairSchedules(owned)
           to == ReconcileInterruptedStarts(repaired)
           after == NextSerial(merged, next)
<1>1. tasks' = to /\ next' = after /\ imported' = imported \cup {b}
  BY ParsedBoard DEF Import
<1>2. /\ tasks \in Boards /\ NumbersOf(tasks, next) /\ next \in Int
      /\ known \subseteq Project \cup {DefaultId} /\ DefaultId \in known
  BY BoardFacts
<1> HIDE DEF known
<1>3. /\ merged \in Boards /\ DOMAIN merged = DOMAIN tasks \cup DOMAIN rows /\ Histories(merged, last)
      /\ \A c \in DOMAIN tasks : c \in DOMAIN rows => Merges(tasks[c], rows[c], merged[c])
  BY <1>2, MergedRows
<1> HIDE DEF merged
<1>4. /\ numbered \in Boards /\ DOMAIN numbered = DOMAIN merged
      /\ \A c \in DOMAIN merged : numbered[c] = [merged[c] EXCEPT !.serial = numbered[c].serial]
      /\ after \in Nat \ {0} /\ NumbersOf(numbered, after)
  BY <1>2, <1>3, NumberedRows
<1> HIDE DEF numbered, after
<1>5. \A c \in DOMAIN merged : /\ numbered[c].status = merged[c].status /\ numbered[c].rule = merged[c].rule
                               /\ numbered[c].runs = merged[c].runs
  <2>1. \A c \in DOMAIN merged : merged[c] \in BoardRows
    BY <1>3, BoardsAre
  <2> QED BY <1>4, <2>1 DEF BoardRows, RowsWith
<1>6. /\ owned \in Boards /\ DOMAIN owned = DOMAIN numbered
      /\ \A c \in DOMAIN numbered :
           /\ owned[c].project \in known /\ owned[c].status = numbered[c].status
           /\ owned[c].rule = numbered[c].rule /\ owned[c].serial = numbered[c].serial
           /\ owned[c].runs = numbered[c].runs
  BY <1>2, <1>4, OwnedRows
<1> HIDE DEF owned
<1>7. Histories(owned, last)
  BY <1>3, <1>4, <1>5, <1>6 DEF Histories
<1>8. /\ repaired \in Boards /\ DOMAIN repaired = DOMAIN owned /\ Histories(repaired, last)
      /\ \A c \in DOMAIN owned :
           /\ repaired[c].runs = owned[c].runs /\ repaired[c].status = owned[c].status
           /\ repaired[c].serial = owned[c].serial /\ repaired[c].project = owned[c].project
           /\ RuleRepaired(owned[c], repaired[c])
  BY <1>6, <1>7, RepairedRows
<1> HIDE DEF repaired
<1>9. /\ to \in Boards /\ DOMAIN to = DOMAIN repaired /\ Histories(to, last)
      /\ \A c \in DOMAIN repaired :
           /\ to[c].serial = repaired[c].serial /\ to[c].project = repaired[c].project
           /\ ~Interrupted(repaired[c]) => to[c] = repaired[c]
  <2>1. clock \in Nat
    BY NextOccurrence
  <2> QED BY <1>8, <2>1, ReconciledRows
<1> HIDE DEF to
<1>10. NumbersOf(to, after)
  BY <1>4, <1>6, <1>8, <1>9 DEF NumbersOf
<1>11. ASSUME NEW c \in DOMAIN tasks \cap DOMAIN rows,
              tasks[c].updated >= rows[c].updated, ~Launching(tasks[c]), ~Launching(rows[c])
       PROVE  /\ to[c].status = tasks[c].status
              /\ \/ to[c].rule = tasks[c].rule
                 \/ tasks[c].rule = "armed" /\ to[c].rule = "off" /\ NextRunAtMs[clock] = Absent
              /\ \A old \in Runs(tasks[c]), new \in Runs(to[c]) : old.n = new.n /\ ~Open(old) => ~Open(new)
  <2>1. Merges(tasks[c], rows[c], merged[c]) /\ c \in DOMAIN merged
    BY <1>3
  <2>2. /\ repaired[c] \in BoardRows /\ repaired[c].runs = merged[c].runs
        /\ repaired[c].status = merged[c].status
        /\ owned[c].rule = merged[c].rule /\ RuleRepaired(owned[c], repaired[c])
    BY <1>4, <1>5, <1>6, <1>8, <2>1, BoardsAre
  <2>3. ~Launching(merged[c])
    BY <1>11, <2>1 DEF Merges
  <2>4. ~Launching(repaired[c]) /\ Runs(repaired[c]) = Runs(merged[c])
    BY <2>2, <2>3 DEF Launching, Runs
  <2>5. to[c] = repaired[c]
    BY <1>4, <1>6, <1>8, <1>9, <2>1, <2>2, <2>4, InterruptedLaunches
  <2>6. merged[c].status = tasks[c].status /\ merged[c].rule = tasks[c].rule
    BY <1>11, <2>1 DEF Merges
  <2>7. \/ repaired[c].rule = tasks[c].rule
        \/ tasks[c].rule = "armed" /\ repaired[c].rule = "off" /\ NextRunAtMs[clock] = Absent
    BY <2>2, <2>6 DEF RuleRepaired
  <2> QED BY <2>1, <2>2, <2>4, <2>5, <2>6, <2>7 DEF Merges
<1>12. \A c \in DOMAIN to : to[c].project \in known
  BY <1>6, <1>8, <1>9
<1>13. DOMAIN to = DOMAIN tasks \cup DOMAIN rows
  BY <1>3, <1>4, <1>6, <1>8, <1>9
<1> QED BY <1>1, <1>4, <1>9, <1>10, <1>11, <1>12, <1>13 DEF known

-----------------------------------------------------------------------------
(* The document that is read                                               *)

LEMMA Palette ==
  /\ Color \subseteq Nat /\ Min(Color) \in Color /\ Cardinality(Color) \in Nat \ {0}
  /\ Min(Color) = 1 /\ \A k \in 0..(Cardinality(Color) - 1) : k + 1 \in Color
<1>1. Cardinality(Color) \in Nat /\ Color = 1..Cardinality(Color) /\ Color # {}
  BY FS_CardinalityType, ImportAssumption
<1> DEFINE size == Cardinality(Color)
<1> HIDE DEF size
<1>2. size \in Nat /\ Color = 1..size /\ Color # {}
  BY <1>1 DEF size
<1>3. size # 0 /\ Color \in SUBSET Nat /\ 1 \in Color /\ \A x \in Color : 1 <= x
  BY <1>2
<1>4. Min(Color) \in Color /\ \A x \in Color : Min(Color) <= x
  BY <1>3, SmallestOfSet
<1>5. Min(Color) = 1
  <2>1. Min(Color) \in Nat /\ Min(Color) <= 1 /\ 1 <= Min(Color)
    BY <1>3, <1>4
  <2> QED BY <2>1
<1> QED BY <1>2, <1>3, <1>4, <1>5 DEF size

LEMMA NormalizedProjects ==
  ASSUME NEW list, DOMAIN list \subseteq Project \cup {DefaultId}, list \in [DOMAIN list -> ProjectRecords(Nat)]
  PROVE  LET normal == NormalizeProjectList(list) IN
         /\ DOMAIN normal = DOMAIN list \cup {DefaultId} /\ normal \in [DOMAIN normal -> ProjectRecords(Color)]
         /\ DefaultId \in DOMAIN list /\ list \in [DOMAIN list -> ProjectRecords(Color)] => normal = list
<1> DEFINE normal == NormalizeProjectList(list)
           D == DOMAIN list \cup {DefaultId}
<1>1. DOMAIN normal = D /\ normal = [p \in D |-> normal[p]]
  BY DEF NormalizeProjectList
<1>2. Min(Color) \in Color
  BY Palette
<1>3. ASSUME NEW p \in D
      PROVE  /\ normal[p] \in ProjectRecords(Color)
             /\ p \in DOMAIN list /\ list[p] \in ProjectRecords(Color) => normal[p] = list[p]
  <2>1. CASE p \notin DOMAIN list
    <3>1. normal[p] = [name |-> "Default", color |-> Min(Color)]
      BY <2>1 DEF NormalizeProjectList, DefaultProject, NewProject
    <3> QED BY <1>2, <2>1, <3>1 DEF ProjectRecords
  <2>2. CASE p \in DOMAIN list
    <3>1. normal[p] = [list[p] EXCEPT !.color = IF @ \in Color THEN @ ELSE Min(Color)]
      BY <2>2 DEF NormalizeProjectList
    <3>2. list[p] \in ProjectRecords(Nat)
      BY <2>2
    <3> HIDE DEF normal
    <3> QED BY <1>2, <3>1, <3>2 DEF ProjectRecords
  <2> QED BY <2>1, <2>2
<1> HIDE DEF normal
<1>4. normal \in [D -> ProjectRecords(Color)]
  BY <1>1, <1>3
<1>5. ASSUME DefaultId \in DOMAIN list, list \in [DOMAIN list -> ProjectRecords(Color)] PROVE normal = list
  <2>1. D = DOMAIN list
    BY <1>5
  <2>2. \A p \in DOMAIN list : normal[p] = list[p]
    BY <1>3, <1>5
  <2> QED BY <1>1, <1>5, <2>1, <2>2
<1> QED BY <1>1, <1>4, <1>5 DEF normal

SoundFile(file, last) ==
  /\ DOMAIN file.rows \subseteq Card /\ file.rows \in [DOMAIN file.rows -> FileRows] /\ Histories(file.rows, last)
  /\ file.next \in Int
  /\ DOMAIN file.projects \subseteq Project \cup {DefaultId}
  /\ file.projects \in [DOMAIN file.projects -> ProjectRecords(Nat)]

(* Whatever the file holds, the board is sound, and none of its cards is   *)
(* stranded that was not in the file.                                      *)
LEMMA LoadedBoard ==
  ASSUME NEW file, NEW last \in Int, SoundFile(file, last), clock \in 1..MaxTime, Loaded(file)
  PROVE  /\ tasks' \in Boards /\ Histories(tasks', last)
         /\ next' \in Nat \ {0} /\ NumbersOf(tasks', next') /\ imported' = file.sources
         /\ DefaultId \in DOMAIN projects' /\ DOMAIN projects' \subseteq Project \cup {DefaultId}
         /\ projects' \in [DOMAIN projects' -> ProjectRecords(Color)]
         /\ \A c \in DOMAIN tasks' : /\ c \in DOMAIN file.rows /\ tasks'[c].project \in DOMAIN projects'
                                     /\ Stranded(tasks'[c]) => Stranded(file.rows[c])
         /\ file.rows \in Boards /\ NumbersOf(file.rows, file.next) /\ file.next \in Nat \ {0} =>
              /\ next' = file.next /\ DOMAIN tasks' = DOMAIN file.rows
              /\ \A c \in DOMAIN file.rows :
                   \/ Interrupted(file.rows[c]) \/ Len(file.rows[c].runs) > HistoryLimit
                   \/ Content(tasks'[c]) = Content(file.rows[c]) /\ RuleRepaired(file.rows[c], tasks'[c])
         /\ DefaultId \in DOMAIN file.projects /\ file.projects \in [DOMAIN file.projects -> ProjectRecords(Color)]
              => projects' = file.projects
<1> DEFINE rows == file.rows
           start == file.next
           list == file.projects
           parsed == ParseHostTasks(rows)
           trimmed == [c \in DOMAIN parsed |-> [parsed[c] EXCEPT !.runs = RetainRecent(@)]]
           normal == NormalizeProjectList(list)
           known == DOMAIN normal
           owned == Owned(trimmed, known)
           numbered == Numbered(owned, start)
           after == NextSerial(owned, start)
           repaired == RepairSchedules(numbered)
           to == ReconcileInterruptedStarts(repaired)
<1>1. tasks' = to /\ next' = after /\ projects' = normal /\ imported' = file.sources
  BY DEF Loaded
<1>2. DOMAIN rows \subseteq Card /\ rows \in [DOMAIN rows -> FileRows] /\ Histories(rows, last) /\ start \in Int
  BY DEF SoundFile
<1>3. /\ known = DOMAIN list \cup {DefaultId} /\ normal \in [known -> ProjectRecords(Color)]
      /\ known \subseteq Project \cup {DefaultId}
      /\ DefaultId \in DOMAIN list /\ list \in [DOMAIN list -> ProjectRecords(Color)] => normal = list
  <2>1. DOMAIN list \subseteq Project \cup {DefaultId} /\ list \in [DOMAIN list -> ProjectRecords(Nat)]
    BY DEF SoundFile
  <2> HIDE DEF list
  <2> QED BY <2>1, NormalizedProjects
<1> HIDE DEF rows, start, normal, list
<1>4. /\ parsed \in Boards /\ Histories(parsed, last) /\ DOMAIN parsed \subseteq DOMAIN rows
      /\ \A c \in DOMAIN parsed : parsed[c].runs = rows[c].runs /\ (parsed[c].status = "running" => rows[c].status = "running")
  BY <1>2, ParsedRows
<1>5. rows \in Boards => parsed = rows
  BY ParsedBoard
<1> HIDE DEF parsed
<1>6. /\ trimmed \in Boards /\ DOMAIN trimmed = DOMAIN parsed /\ Histories(trimmed, last)
      /\ \A c \in DOMAIN parsed : /\ Stranded(trimmed[c]) => Stranded(parsed[c])
                                  /\ Len(parsed[c].runs) <= HistoryLimit => trimmed[c] = parsed[c]
                                  /\ trimmed[c].serial = parsed[c].serial
  BY <1>4, TrimmedRows
<1> HIDE DEF trimmed, known
<1>7. /\ owned \in Boards /\ DOMAIN owned = DOMAIN trimmed
      /\ \A c \in DOMAIN trimmed : owned[c] = [trimmed[c] EXCEPT !.project = ProjectOf(trimmed[c], known)]
      /\ \A c \in DOMAIN trimmed :
           /\ owned[c].project \in known /\ owned[c].status = trimmed[c].status
           /\ owned[c].serial = trimmed[c].serial /\ owned[c].runs = trimmed[c].runs
  <2>1. trimmed \in Boards /\ known \subseteq Project \cup {DefaultId} /\ DefaultId \in known
    BY <1>3, <1>6
  <2> QED BY <2>1, OwnedRows
<1> HIDE DEF owned
<1>8. /\ numbered \in Boards /\ DOMAIN numbered = DOMAIN owned
      /\ \A c \in DOMAIN owned : numbered[c] = [owned[c] EXCEPT !.serial = numbered[c].serial]
      /\ after \in Nat \ {0} /\ NumbersOf(numbered, after)
  BY <1>2, <1>7, NumberedRows
<1>9. start \in Nat \ {0} /\ NumbersOf(owned, start) => numbered = owned /\ after = start
  BY <1>7, NumberedBoard
<1> HIDE DEF numbered, after
<1>10. \A c \in DOMAIN owned : /\ numbered[c].status = owned[c].status /\ numbered[c].project = owned[c].project
                               /\ numbered[c].runs = owned[c].runs
  <2>1. \A c \in DOMAIN owned : owned[c] \in BoardRows
    BY <1>7, BoardsAre
  <2> QED BY <1>8, <2>1 DEF BoardRows, RowsWith
<1>11. Histories(numbered, last)
  BY <1>6, <1>7, <1>8, <1>10 DEF Histories
<1>12. /\ repaired \in Boards /\ DOMAIN repaired = DOMAIN numbered /\ Histories(repaired, last)
       /\ \A c \in DOMAIN numbered :
            /\ repaired[c].runs = numbered[c].runs /\ repaired[c].status = numbered[c].status
            /\ repaired[c].serial = numbered[c].serial /\ repaired[c].project = numbered[c].project
            /\ Content(repaired[c]) = Content(numbered[c]) /\ RuleRepaired(numbered[c], repaired[c])
  BY <1>8, <1>11, RepairedRows
<1> HIDE DEF repaired
<1>13. /\ to \in Boards /\ DOMAIN to = DOMAIN numbered /\ Histories(to, last)
       /\ \A c \in DOMAIN numbered :
            /\ to[c].serial = numbered[c].serial /\ to[c].project = numbered[c].project
            /\ Stranded(to[c]) => Stranded(repaired[c])
            /\ ~Interrupted(repaired[c]) => to[c] = repaired[c]
  <2>1. clock \in Nat
    BY NextOccurrence
  <2> QED BY <1>12, <2>1, ReconciledRows
<1> HIDE DEF to
<1>14. NumbersOf(to, after)
  BY <1>8, <1>13 DEF NumbersOf
<1>15. ASSUME NEW c \in DOMAIN to
       PROVE  c \in DOMAIN rows /\ to[c].project \in known /\ (Stranded(to[c]) => Stranded(rows[c]))
  <2>1. c \in DOMAIN numbered /\ c \in DOMAIN owned /\ c \in DOMAIN trimmed /\ c \in DOMAIN parsed /\ c \in DOMAIN rows
    BY <1>4, <1>6, <1>7, <1>8, <1>13
  <2>2. Stranded(repaired[c]) => Stranded(trimmed[c])
    BY <1>7, <1>10, <1>12, <2>1 DEF Stranded, HasOpen, Runs
  <2>3. Stranded(parsed[c]) => Stranded(rows[c])
    BY <1>4, <2>1 DEF Stranded, HasOpen, Runs
  <2> QED BY <1>6, <1>7, <1>10, <1>13, <2>1, <2>2, <2>3
<1>16. ASSUME rows \in Boards, NumbersOf(rows, start), start \in Nat \ {0}
       PROVE  /\ after = start /\ DOMAIN to = DOMAIN rows
              /\ \A c \in DOMAIN rows :
                   \/ Interrupted(rows[c]) \/ Len(rows[c].runs) > HistoryLimit
                   \/ Content(to[c]) = Content(rows[c]) /\ RuleRepaired(rows[c], to[c])
  <2>1. parsed = rows /\ DOMAIN owned = DOMAIN rows
    BY <1>5, <1>6, <1>7, <1>16
  <2>2. NumbersOf(owned, start)
    BY <1>6, <1>7, <1>16, <2>1 DEF NumbersOf
  <2>3. numbered = owned /\ after = start
    BY <1>9, <1>16, <2>2
  <2>4. ASSUME NEW c \in DOMAIN rows, ~Interrupted(rows[c]), ~(Len(rows[c].runs) > HistoryLimit)
        PROVE  Content(to[c]) = Content(rows[c]) /\ RuleRepaired(rows[c], to[c])
    <3>1. rows[c] \in BoardRows
      BY <1>16, BoardsAre
    <3>2. trimmed[c] = rows[c]
      <4>1. Len(rows[c].runs) \in Nat /\ HistoryLimit \in Nat
        BY <3>1, RowTypes, ImportAssumption
      <4> QED BY <1>6, <2>1, <2>4, <4>1
    <3>3. owned[c] = [rows[c] EXCEPT !.project = ProjectOf(rows[c], known)]
      BY <1>6, <1>7, <2>1, <3>2
    <3>4. ~Interrupted(repaired[c])
      BY <1>6, <1>7, <1>12, <2>1, <2>3, <2>4, <3>2 DEF Interrupted
    <3>5. to[c] = repaired[c]
      BY <1>13, <2>1, <2>3, <3>4
    <3>6. /\ Content(owned[c]) = Content(rows[c])
          /\ owned[c].rule = rows[c].rule /\ owned[c].due = rows[c].due /\ owned[c].updated = rows[c].updated
      BY <3>1, <3>3 DEF Content, BoardRows, RowsWith
    <3>7. Content(repaired[c]) = Content(owned[c]) /\ RuleRepaired(owned[c], repaired[c])
      BY <1>12, <2>1, <2>3
    <3> QED BY <3>5, <3>6, <3>7 DEF RuleRepaired
  <2> QED BY <1>8, <1>13, <2>1, <2>3, <2>4
<1>17. DefaultId \in known
  BY <1>3
<1> HIDE DEF after
<1> QED BY <1>1, <1>3, <1>8, <1>13, <1>14, <1>15, <1>16, <1>17 DEF rows, start, list, known

-----------------------------------------------------------------------------
(* Steps                                                                   *)

ProjectsNext ==
  /\ DefaultId \in DOMAIN projects' /\ DOMAIN projects' \subseteq Project \cup {DefaultId}
  /\ projects' \in [DOMAIN projects' -> ProjectRecords(Color)]

(* What a step leaves: numbers and histories in order, every card in a     *)
(* project there is if the step is about projects, and none stranded that  *)
(* was not.                                                                *)
KeepsBoard ==
  /\ tasks' \in Boards /\ Histories(tasks', ops') /\ next' \in Nat \ {0} /\ NumbersOf(tasks', next')
  /\ ProjectsNext /\ NoCardLosesItsProject /\ OnlyImportsStrand

LEMMA BoardSoundNext ==
  ASSUME tasks' \in Boards, next' \in Nat \ {0}, NumbersOf(tasks', next'), ProjectsNext, imported' \subseteq Browser
  PROVE  BoardSound'
<1> DEFINE rows == tasks'
<1>1. DOMAIN rows \subseteq Card /\ rows \in [DOMAIN rows -> BoardRows]
  <2>1. rows \in Boards
    OBVIOUS
  <2> HIDE DEF rows
  <2> QED BY <2>1, BoardsAre
<1> QED BY <1>1 DEF BoardSound, ImportTypeOK, NumbersUnique, NumbersOf, ProjectsNext, BoardRows

LEMMA ProjectsStay ==
  ASSUME BoardSound, UNCHANGED projects
  PROVE  ProjectsNext
BY DEF BoardSound, ImportTypeOK, ProjectsNext

(* One card changes, and keeps its number.                                 *)
LEMMA ChangedCard ==
  ASSUME BoardSound, NEW last \in Int, Histories(tasks, last), UNCHANGED <<projects, next, imported>>, ops' = last,
         NEW c \in DOMAIN tasks, NEW row \in BoardRows, tasks' = [tasks EXCEPT ![c] = row],
         row.serial = tasks[c].serial, History(row.runs, last), Stranded(row) => Stranded(tasks[c])
  PROVE  KeepsBoard
<1> DEFINE rows == tasks'
<1>1. tasks \in Boards /\ NumbersOf(tasks, next) /\ next \in Nat \ {0}
  BY BoardFacts
<1>2. DOMAIN tasks \subseteq Card /\ tasks \in [DOMAIN tasks -> BoardRows]
  BY <1>1, BoardsAre
<1>3. /\ DOMAIN rows = DOMAIN tasks /\ rows \in [DOMAIN tasks -> BoardRows]
      /\ \A d \in DOMAIN tasks : rows[d] = IF d = c THEN row ELSE tasks[d]
  BY <1>2
<1> HIDE DEF rows
<1>4. rows \in Boards
  BY <1>2, <1>3, BoardsAre
<1>5. Histories(rows, last)
  BY <1>3 DEF Histories
<1>6. NumbersOf(rows, next)
  BY <1>1, <1>3 DEF NumbersOf
<1>7. \A d \in DOMAIN rows : Stranded(rows[d]) => d \in DOMAIN tasks /\ Stranded(tasks[d])
  BY <1>3
<1>8. OnlyImportsStrand
  BY <1>7 DEF rows, OnlyImportsStrand
<1>9. NoCardLosesItsProject
  BY DEF NoCardLosesItsProject
<1> QED BY <1>1, <1>4, <1>5, <1>6, <1>8, <1>9, ProjectsStay DEF KeepsBoard, rows

LEMMA CreateKeeps ==
  ASSUME ImportInv, NEW c \in Card, NEW p \in Project \cup {DefaultId}, Create(c, p)
  PROVE  KeepsBoard
<1> DEFINE rows == tasks'
           new == Row("todo", "none", Absent, p, next, clock, clock, <<>>)
           row == [new EXCEPT !.project = ProjectOf(new, DOMAIN projects)]
<1>1. /\ BoardSound /\ tasks \in Boards /\ NumbersOf(tasks, next) /\ next \in Nat \ {0}
      /\ DOMAIN projects \subseteq Project \cup {DefaultId} /\ Histories(tasks, ops) /\ clock \in Nat /\ ops \in Nat
  BY BoardFacts DEF ImportInv, Watched
<1>2. DOMAIN tasks \subseteq Card /\ tasks \in [DOMAIN tasks -> BoardRows]
  BY <1>1, BoardsAre
<1>3. c \notin DOMAIN tasks /\ next' = next + 1 /\ UNCHANGED <<projects, imported>> /\ ops' = ops + 1
  BY DEF Create, Acts, Happens
<1>4. /\ DOMAIN rows = DOMAIN tasks \cup {c} /\ rows = [d \in DOMAIN tasks \cup {c} |-> rows[d]]
      /\ rows[c] = row /\ \A d \in DOMAIN tasks : rows[d] = tasks[d]
  BY <1>3 DEF Create
<1>5. row \in BoardRows /\ row.serial = next /\ row.runs = <<>> /\ row.status = "todo"
  <2>1. \A S : <<>> \in Seq(S)
    OBVIOUS
  <2> DEFINE none == <<>>
  <2>2. none \in Seq(RunRecords)
    BY <2>1
  <2> HIDE DEF none
  <2>3. new = [status |-> "todo", rule |-> "none", due |-> Absent, project |-> p, serial |-> next,
               created |-> clock, updated |-> clock, runs |-> none]
    BY DEF Row, none
  <2> DEFINE owner == ProjectOf(new, DOMAIN projects)
  <2>4. owner \in Project \cup {DefaultId}
    BY <1>1 DEF ProjectOf
  <2>5. row = [new EXCEPT !.project = owner]
    OBVIOUS
  <2> HIDE DEF new, owner, row
  <2>6. row = [status |-> "todo", rule |-> "none", due |-> Absent, project |-> owner, serial |-> next,
               created |-> clock, updated |-> clock, runs |-> none]
    BY <2>3, <2>5
  <2>7. row \in BoardRows
    BY <1>1, <2>2, <2>4, <2>6 DEF BoardRows, RowsWith, Statuses, BoardRules, Absent
  <2> QED BY <2>6, <2>7 DEF none
<1>6. History(<<>>, ops + 1)
  BY DEF History
<1> HIDE DEF rows, row
<1>7. rows \in Boards
  <2>1. rows \in [DOMAIN tasks \cup {c} -> BoardRows]
    BY <1>2, <1>4, <1>5
  <2> QED BY <1>2, <1>4, <2>1, BoardsAre
<1>8. Histories(tasks, ops + 1)
  BY <1>1, LaterHistories
<1>9. Histories(rows, ops + 1)
  BY <1>4, <1>5, <1>6, <1>8 DEF Histories
<1>10. NumbersOf(rows, next + 1)
  BY <1>1, <1>3, <1>4, <1>5 DEF NumbersOf
<1>11. \A d \in DOMAIN rows : Stranded(rows[d]) => d \in DOMAIN tasks /\ Stranded(tasks[d])
  BY <1>4, <1>5 DEF Stranded
<1>12. OnlyImportsStrand
  BY <1>11 DEF rows, OnlyImportsStrand
<1>13. NoCardLosesItsProject
  BY <1>3 DEF NoCardLosesItsProject
<1>14. ProjectsNext
  BY <1>1, <1>3, ProjectsStay
<1> QED BY <1>1, <1>3, <1>7, <1>9, <1>10, <1>12, <1>13, <1>14 DEF KeepsBoard, rows

LEMMA UpdateKeeps ==
  ASSUME ImportInv, NEW c \in Card, NEW p \in Project \cup {Unowned}, Update(c, p)
  PROVE  KeepsBoard
<1> DEFINE old == tasks[c]
           row == [old EXCEPT !.project = p, !.updated = clock]
<1>1. BoardSound /\ tasks \in Boards /\ Histories(tasks, ops) /\ clock \in Nat /\ ops \in Nat
  BY BoardFacts DEF ImportInv, Watched
<1>2. /\ c \in DOMAIN tasks /\ tasks' = [tasks EXCEPT ![c] = row] /\ ops' = ops + 1
      /\ UNCHANGED <<projects, next, imported>>
  BY DEF Update, Acts, Happens, Changes
<1>3. old \in BoardRows
  BY <1>1, <1>2, BoardsAre
<1>4. Histories(tasks, ops + 1)
  BY <1>1, LaterHistories
<1>5. History(old.runs, ops + 1)
  BY <1>2, <1>4 DEF Histories
<1> HIDE DEF old
<1>6. row \in BoardRows /\ row.serial = old.serial /\ row.runs = old.runs /\ row.status = old.status
  <2>1. p \in Project \cup {DefaultId, Unowned} /\ clock \in Int
    BY <1>1
  <2> QED BY <1>3, <2>1 DEF BoardRows, RowsWith
<1>7. Stranded(row) => Stranded(old)
  BY <1>6 DEF Stranded, HasOpen, Runs
<1> HIDE DEF row
<1> DEFINE last == ops + 1
<1>8. last \in Int /\ ops' = last /\ Histories(tasks, last) /\ History(row.runs, last)
  BY <1>1, <1>2, <1>4, <1>5, <1>6
<1> HIDE DEF last
<1> QED BY <1>1, <1>2, <1>6, <1>7, <1>8, ChangedCard DEF old

LEMMA CardFacts ==
  ASSUME ImportInv
  PROVE  /\ BoardSound /\ tasks \in Boards /\ NumbersOf(tasks, next) /\ next \in Nat \ {0}
         /\ DOMAIN tasks \subseteq Card /\ tasks \in [DOMAIN tasks -> BoardRows]
         /\ clock \in Nat /\ clock \in 1..MaxTime
         /\ ops \in Nat /\ Histories(tasks, ops) /\ Histories(tasks, ops + 1)
         /\ \A c \in DOMAIN tasks : /\ tasks[c] \in BoardRows /\ tasks[c].runs \in Seq(RunRecords)
                                    /\ History(tasks[c].runs, ops) /\ History(tasks[c].runs, ops + 1)
<1>1. /\ BoardSound /\ tasks \in Boards /\ NumbersOf(tasks, next) /\ next \in Nat \ {0}
      /\ clock \in 1..MaxTime /\ clock \in Nat /\ ops \in Nat /\ Histories(tasks, ops)
  BY BoardFacts DEF ImportInv, Watched
<1>2. Histories(tasks, ops + 1)
  BY <1>1, LaterHistories
<1>3. DOMAIN tasks \subseteq Card /\ tasks \in [DOMAIN tasks -> BoardRows]
  BY <1>1, BoardsAre
<1> QED BY <1>1, <1>2, <1>3, RowTypes DEF Histories

LEMMA UnchangedBoard ==
  ASSUME ImportInv, UNCHANGED <<tasks, projects, next>>, ops' \in {ops, ops + 1}
  PROVE  KeepsBoard
<1>1. Histories(tasks', ops')
  BY CardFacts DEF Histories
<1>2. OnlyImportsStrand /\ NoCardLosesItsProject
  BY DEF OnlyImportsStrand, NoCardLosesItsProject
<1>3. ProjectsNext
  BY CardFacts, ProjectsStay
<1>4. tasks' \in Boards /\ next' \in Nat \ {0} /\ NumbersOf(tasks', next')
  BY CardFacts DEF NumbersOf
<1> QED BY <1>1, <1>2, <1>3, <1>4 DEF KeepsBoard

LEMMA DeleteKeeps ==
  ASSUME ImportInv, NEW c \in Card, Delete(c)
  PROVE  KeepsBoard
<1> DEFINE rows == tasks'
           D == DOMAIN tasks \ {c}
<1>1. UNCHANGED <<projects, next, imported>> /\ ops' = ops + 1
  BY DEF Delete, Acts, Happens
<1>2. DOMAIN rows = D /\ rows = [d \in D |-> rows[d]] /\ \A d \in D : rows[d] = tasks[d]
  BY DEF Delete
<1> HIDE DEF rows
<1>3. rows \in Boards
  <2>1. rows \in [D -> BoardRows] /\ D \subseteq Card
    BY <1>2, CardFacts
  <2> QED BY <1>2, <2>1, BoardsAre
<1>4. Histories(rows, ops + 1) /\ NumbersOf(rows, next)
  BY <1>2, CardFacts DEF Histories, NumbersOf
<1>5. \A d \in DOMAIN rows : Stranded(rows[d]) => d \in DOMAIN tasks /\ Stranded(tasks[d])
  BY <1>2
<1>6. OnlyImportsStrand
  BY <1>5 DEF rows, OnlyImportsStrand
<1>7. NoCardLosesItsProject
  BY <1>1 DEF NoCardLosesItsProject
<1>8. ProjectsNext /\ next \in Nat \ {0}
  BY <1>1, ProjectsStay, CardFacts
<1> QED BY <1>1, <1>3, <1>4, <1>6, <1>7, <1>8 DEF KeepsBoard, rows

LEMMA AppendedHistory ==
  ASSUME NEW runs \in Seq(RunRecords), NEW last \in Int, History(runs, last),
         NEW new \in RunRecords, new.n = last + 1
  PROVE  /\ Append(runs, new) \in Seq(RunRecords) /\ History(Append(runs, new), last + 1)
         /\ \E j \in DOMAIN Append(runs, new) : Append(runs, new)[j] = new
<1> DEFINE longer == Append(runs, new)
           len == Len(runs)
<1>1. /\ longer \in Seq(RunRecords) /\ Len(longer) = len + 1 /\ longer[len + 1] = new
      /\ \A i \in 1..len : longer[i] = runs[i]
  BY AppendProperties
<1>2. len \in Nat /\ DOMAIN runs = 1..len
  BY LenProperties
<1> HIDE DEF longer, len
<1>3. DOMAIN longer = 1..(len + 1)
  BY <1>1, LenProperties
<1>4. ASSUME NEW i \in 1..len PROVE longer[i].n \in Int /\ longer[i].n <= last
  <2>1. runs[i] \in RunRecords /\ i \in DOMAIN runs
    BY <1>2
  <2>2. runs[i].n \in Int /\ runs[i].n <= last
    BY <2>1, RunTypes DEF History
  <2> QED BY <1>1, <2>2
<1>5. ASSUME NEW i \in DOMAIN longer, NEW j \in DOMAIN longer
      PROVE  longer[i].n <= last + 1 /\ (longer[i].n = longer[j].n => i = j)
  <2>1. (i \in 1..len \/ i = len + 1) /\ (j \in 1..len \/ j = len + 1)
    BY <1>2, <1>3
  <2>2. CASE i \in 1..len /\ j \in 1..len
    BY <1>1, <1>2, <1>4, <2>2 DEF History
  <2>3. CASE i = len + 1 \/ j = len + 1
    BY <1>1, <1>4, <2>1, <2>3
  <2> QED BY <2>1, <2>2, <2>3
<1>6. History(longer, last + 1)
  BY <1>5 DEF History
<1>7. len + 1 \in DOMAIN longer
  BY <1>2, <1>3
<1> QED BY <1>1, <1>6, <1>7 DEF longer

(* The new run stays when the history is trimmed: it is open.              *)
LEMMA OpenRunKeeps ==
  ASSUME ImportInv, NEW c \in Card, OpenRun(c)
  PROVE  KeepsBoard
<1> DEFINE old == tasks[c]
           last == ops + 1
           new == Run(last, FALSE, Absent)
           longer == Append(old.runs, new)
           kept == RetainRecent(longer)
           row == [old EXCEPT !.status = "running", !.updated = clock, !.runs = kept]
<1>1. c \in DOMAIN tasks /\ ops' = last /\ UNCHANGED <<projects, next, imported>>
  BY DEF OpenRun, Acts, Happens, Idle, Changes
<1>2. tasks' = [tasks EXCEPT ![c] = row]
  BY <1>1 DEF OpenRun, Changes
<1>3. /\ old \in BoardRows /\ old.runs \in Seq(RunRecords) /\ History(old.runs, ops) /\ BoardSound
      /\ clock \in Int /\ last \in Int /\ ops \in Int /\ Histories(tasks, last)
  BY <1>1, CardFacts
<1>4. new \in RunRecords /\ new.n = last /\ Open(new)
  BY <1>3 DEF Run, RunRecords, Open, Absent
<1> HIDE DEF new
<1>5. longer \in Seq(RunRecords) /\ History(longer, last) /\ \E j \in DOMAIN longer : longer[j] = new
  <2> HIDE DEF old
  <2> QED BY <1>3, <1>4, AppendedHistory
<1> HIDE DEF longer
<1>6. /\ kept \in Seq(RunRecords) /\ History(kept, last)
      /\ \E j \in DOMAIN kept : kept[j] = new
  <2> HIDE DEF last
  <2> QED BY <1>3, <1>4, <1>5, RetainRecentKeeps
<1> HIDE DEF kept, old
<1>7. row \in BoardRows /\ row.runs = kept /\ row.serial = old.serial
  <2>1. kept \in Seq(RunRecords) /\ "running" \in Statuses
    BY <1>6 DEF Statuses
  <2> QED BY <1>3, <2>1 DEF BoardRows, RowsWith
<1>8. ~Stranded(row)
  BY <1>4, <1>6, <1>7 DEF Stranded, HasOpen, Runs
<1> HIDE DEF row, last
<1> QED BY <1>1, <1>2, <1>3, <1>6, <1>7, <1>8, ChangedCard DEF old

LEMMA AttachKeeps ==
  ASSUME ImportInv, NEW c, NEW n, AttachSession(c, n)
  PROVE  KeepsBoard
<1> DEFINE old == tasks[c]
           last == ops + 1
           row == Attached(old, n)
           runs == [i \in DOMAIN old.runs |-> IF old.runs[i].n = n THEN [old.runs[i] EXCEPT !.session = TRUE] ELSE old.runs[i]]
<1>1. ops' = last /\ UNCHANGED <<projects, next, imported>>
  BY DEF AttachSession, Acts, Happens, Changes
<1>2. CASE c \notin DOMAIN tasks
  BY <1>1, <1>2, UnchangedBoard DEF AttachSession
<1>3. CASE c \in DOMAIN tasks
  <2>1. tasks' = [tasks EXCEPT ![c] = row]
    BY <1>3 DEF AttachSession, Changes
  <2>2. /\ old \in BoardRows /\ old.runs \in Seq(RunRecords) /\ History(old.runs, last) /\ BoardSound
        /\ clock \in Int /\ last \in Int /\ Histories(tasks, last)
    BY <1>3, CardFacts
  <2>3. row = [old EXCEPT !.updated = clock, !.runs = runs]
    BY DEF Attached
  <2>4. \A i \in DOMAIN old.runs : /\ runs[i] \in RunRecords /\ runs[i].n = old.runs[i].n
                                   /\ runs[i].ended = old.runs[i].ended
    <3>1. ASSUME NEW i \in DOMAIN old.runs
          PROVE  runs[i] \in RunRecords /\ runs[i].n = old.runs[i].n /\ runs[i].ended = old.runs[i].ended
      <4> DEFINE run == old.runs[i]
      <4>1. run \in RunRecords
        BY <2>2
      <4>2. runs[i] = IF run.n = n THEN [run EXCEPT !.session = TRUE] ELSE run
        OBVIOUS
      <4> HIDE DEF run, runs
      <4>3. runs[i] \in RunRecords /\ runs[i].n = run.n /\ runs[i].ended = run.ended
        BY <4>1, <4>2 DEF RunRecords
      <4> QED BY <4>3 DEF run
    <3> HIDE DEF runs
    <3> QED BY <3>1
  <2>5. DOMAIN runs = DOMAIN old.runs /\ runs \in Seq(RunRecords)
    <3>1. DOMAIN old.runs = 1..Len(old.runs) /\ Len(old.runs) \in Nat
      BY <2>2, LenProperties
    <3>2. runs = [i \in 1..Len(old.runs) |-> runs[i]]
      BY <3>1
    <3> HIDE DEF runs
    <3>3. runs \in [1..Len(old.runs) -> RunRecords]
      BY <2>4, <3>1, <3>2
    <3> QED BY <3>1, <3>2, <3>3
  <2> HIDE DEF runs, row, last, old
  <2>6. History(runs, last)
    BY <2>2, <2>4, <2>5 DEF History
  <2>7. row \in BoardRows /\ row.runs = runs /\ row.serial = old.serial /\ row.status = old.status
    BY <2>2, <2>3, <2>5 DEF BoardRows, RowsWith
  <2>8. Stranded(row) => Stranded(old)
    BY <2>4, <2>5, <2>7 DEF Stranded, HasOpen, Runs, Open
  <2> QED BY <1>1, <1>3, <2>1, <2>2, <2>6, <2>7, <2>8, ChangedCard DEF old
<1> QED BY <1>2, <1>3

LEMMA SettleKeeps ==
  ASSUME ImportInv, NEW c \in DOMAIN tasks, NEW run \in Runs(tasks[c]), NEW outcome \in Outcomes,
         Settle(c, run, outcome)
  PROVE  KeepsBoard
<1> DEFINE old == tasks[c]
           last == ops + 1
           n == run.n
           row == SettleRun(old, n, outcome)
<1>1. ops' = last /\ UNCHANGED <<projects, next, imported>> /\ tasks' = [tasks EXCEPT ![c] = row]
  BY DEF Settle, Acts, Happens, Changes
<1>2. /\ old \in BoardRows /\ History(old.runs, last) /\ BoardSound
      /\ clock \in Nat /\ last \in Int /\ Histories(tasks, last)
  BY CardFacts
<1>3. \E i \in DOMAIN old.runs : old.runs[i].n = n
  BY DEF Runs
<1> HIDE DEF old, last, n
<1>4. row \in BoardRows /\ History(row.runs, last) /\ row.serial = old.serial /\ (row = old \/ row.status # "running")
  BY <1>2, <1>3, SettledRow
<1> HIDE DEF row
<1>5. Stranded(row) => Stranded(old)
  BY <1>4 DEF Stranded
<1> QED BY <1>1, <1>2, <1>4, <1>5, ChangedCard DEF old

LEMMA ProjectFacts ==
  ASSUME BoardSound
  PROVE  /\ DefaultId \in DOMAIN projects /\ DOMAIN projects \subseteq Project \cup {DefaultId}
         /\ projects \in [DOMAIN projects -> ProjectRecords(Color)] /\ IsFiniteSet(DOMAIN projects)
<1>1. /\ DefaultId \in DOMAIN projects /\ DOMAIN projects \subseteq Project \cup {DefaultId}
      /\ projects \in [DOMAIN projects -> ProjectRecords(Color)]
  BY DEF BoardSound, ImportTypeOK
<1>2. IsFiniteSet(Project \cup {DefaultId})
  BY FS_AddElement, ImportAssumption
<1>3. IsFiniteSet(DOMAIN projects)
  BY <1>1, <1>2, FS_Subset
<1> QED BY <1>1, <1>3

LEMMA AutoProjectColorIsAColor ==
  ASSUME BoardSound
  PROVE  AutoProjectColor \in Color
<1> DEFINE used == {projects[p].color : p \in DOMAIN projects}
           free == Color \ used
           count == Cardinality(DOMAIN projects)
           size == Cardinality(Color)
<1>1. CASE free # {}
  <2>1. free \in SUBSET Nat
    BY Palette
  <2>2. Min(free) \in free
    <3> HIDE DEF free
    <3> QED BY <1>1, <2>1, SmallestOfSet
  <2>3. AutoProjectColor = Min(free)
    BY <1>1 DEF AutoProjectColor
  <2> HIDE DEF used
  <2> QED BY <2>2, <2>3
<1>2. CASE free = {}
  <2>1. count \in Nat
    BY ProjectFacts, FS_CardinalityType
  <2>2. size \in Nat \ {0} /\ Min(Color) = 1 /\ \A k \in 0..(size - 1) : k + 1 \in Color
    BY Palette
  <2>3. AutoProjectColor = (count % size) + Min(Color)
    BY <1>2 DEF AutoProjectColor
  <2> HIDE DEF count, size
  <2>4. count % size \in 0..(size - 1)
    BY <2>1, <2>2
  <2> QED BY <2>2, <2>3, <2>4
<1> QED BY <1>1, <1>2

(* The cards stay, and so do the projects there were.                      *)
LEMMA ProjectsChange ==
  ASSUME ImportInv, UNCHANGED <<tasks, next>>, ops' = ops + 1, ProjectsNext, DOMAIN projects \subseteq DOMAIN projects'
  PROVE  KeepsBoard
<1>1. Histories(tasks', ops')
  BY CardFacts DEF Histories
<1>2. OnlyImportsStrand /\ NoCardLosesItsProject
  BY DEF OnlyImportsStrand, NoCardLosesItsProject
<1>3. tasks' \in Boards /\ next' \in Nat \ {0} /\ NumbersOf(tasks', next')
  BY CardFacts DEF NumbersOf
<1> QED BY <1>1, <1>2, <1>3 DEF KeepsBoard

LEMMA CreateProjectKeeps ==
  ASSUME ImportInv, NEW p \in Project, NEW name \in Name, CreateProject(p, name)
  PROVE  KeepsBoard
<1> DEFINE list == projects'
           D == DOMAIN projects \cup {p}
           new == [name |-> name, color |-> AutoProjectColor]
<1>1. ops' = ops + 1 /\ UNCHANGED <<tasks, next>>
  BY DEF CreateProject, OnProjects, Acts, Happens
<1>2. list = [q \in D |-> IF q = p THEN new ELSE projects[q]]
  BY DEF CreateProject, NewProject
<1>3. new \in ProjectRecords(Color)
  BY CardFacts, AutoProjectColorIsAColor DEF ProjectRecords
<1> HIDE DEF list, new
<1>4. /\ DefaultId \in DOMAIN list /\ DOMAIN list \subseteq Project \cup {DefaultId}
      /\ list \in [DOMAIN list -> ProjectRecords(Color)] /\ DOMAIN projects \subseteq DOMAIN list
  BY <1>2, <1>3, CardFacts, ProjectFacts
<1>5. ProjectsNext
  BY <1>4 DEF ProjectsNext, list
<1> QED BY <1>1, <1>4, <1>5, ProjectsChange DEF list

LEMMA RenameProjectKeeps ==
  ASSUME ImportInv, NEW p \in Project \cup {DefaultId}, NEW name \in Name, RenameProject(p, name)
  PROVE  KeepsBoard
<1> DEFINE list == projects'
           old == projects[p]
           new == [old EXCEPT !.name = name]
<1>1. ops' = ops + 1 /\ UNCHANGED <<tasks, next>> /\ p \in DOMAIN projects
  BY DEF RenameProject, OnProjects, Acts, Happens
<1>2. list = [projects EXCEPT ![p] = new]
  BY DEF RenameProject
<1>3. old \in ProjectRecords(Color)
  BY <1>1, CardFacts, ProjectFacts
<1> HIDE DEF list, old
<1>4. new \in ProjectRecords(Color)
  BY <1>3 DEF ProjectRecords
<1> HIDE DEF new
<1>5. /\ DefaultId \in DOMAIN list /\ DOMAIN list \subseteq Project \cup {DefaultId}
      /\ list \in [DOMAIN list -> ProjectRecords(Color)] /\ DOMAIN projects \subseteq DOMAIN list
  BY <1>2, <1>4, CardFacts, ProjectFacts
<1>6. ProjectsNext
  BY <1>5 DEF ProjectsNext, list
<1> QED BY <1>1, <1>5, <1>6, ProjectsChange DEF list

LEMMA SetProjectColorKeeps ==
  ASSUME ImportInv, NEW p \in Project \cup {DefaultId}, NEW color \in Color, SetProjectColor(p, color)
  PROVE  KeepsBoard
<1> DEFINE list == projects'
           old == projects[p]
           new == [old EXCEPT !.color = color]
<1>1. ops' = ops + 1 /\ UNCHANGED <<tasks, next>> /\ p \in DOMAIN projects
  BY DEF SetProjectColor, OnProjects, Acts, Happens
<1>2. list = [projects EXCEPT ![p] = new]
  BY DEF SetProjectColor
<1>3. old \in ProjectRecords(Color)
  BY <1>1, CardFacts, ProjectFacts
<1> HIDE DEF list, old
<1>4. new \in ProjectRecords(Color)
  BY <1>3 DEF ProjectRecords
<1> HIDE DEF new
<1>5. /\ DefaultId \in DOMAIN list /\ DOMAIN list \subseteq Project \cup {DefaultId}
      /\ list \in [DOMAIN list -> ProjectRecords(Color)] /\ DOMAIN projects \subseteq DOMAIN list
  BY <1>2, <1>4, CardFacts, ProjectFacts
<1>6. ProjectsNext
  BY <1>5 DEF ProjectsNext, list
<1> QED BY <1>1, <1>5, <1>6, ProjectsChange DEF list

(* The cards of a project that goes are moved to the default one.          *)
LEMMA DeleteProjectKeeps ==
  ASSUME ImportInv, NEW p, DeleteProject(p)
  PROVE  KeepsBoard
<1> DEFINE rows == tasks'
           list == projects'
           moved(c) == [tasks[c] EXCEPT !.project = DefaultId, !.updated = clock]
<1>1. ops' = ops + 1 /\ UNCHANGED next /\ p # DefaultId
  BY DEF DeleteProject, OnProjects, Acts, Happens
<1>2. list = [q \in DOMAIN projects \ {p} |-> projects[q]]
  BY DEF DeleteProject
<1>3. /\ DOMAIN rows = DOMAIN tasks /\ rows = [c \in DOMAIN tasks |-> rows[c]]
      /\ \A c \in DOMAIN tasks : rows[c] = IF tasks[c].project = p THEN moved(c) ELSE tasks[c]
  BY DEF DeleteProject
<1> HIDE DEF rows, list
<1>4. /\ DefaultId \in DOMAIN list /\ DOMAIN list \subseteq Project \cup {DefaultId}
      /\ list \in [DOMAIN list -> ProjectRecords(Color)]
  BY <1>1, <1>2, CardFacts, ProjectFacts
<1>5. \A c \in DOMAIN tasks :
        /\ moved(c) \in BoardRows /\ moved(c).serial = tasks[c].serial /\ moved(c).runs = tasks[c].runs
        /\ moved(c).status = tasks[c].status /\ moved(c).project = DefaultId
  <2>1. clock \in Int /\ \A c \in DOMAIN tasks : tasks[c] \in BoardRows
    BY CardFacts
  <2> QED BY <2>1 DEF BoardRows, RowsWith
<1> HIDE DEF moved
<1>6. rows \in Boards
  <2>1. rows \in [DOMAIN tasks -> BoardRows] /\ DOMAIN tasks \subseteq Card
    BY <1>3, <1>5, CardFacts
  <2> QED BY <1>3, <2>1, BoardsAre
<1>7. \A c \in DOMAIN tasks : rows[c].serial = tasks[c].serial /\ rows[c].runs = tasks[c].runs
                              /\ rows[c].status = tasks[c].status
  BY <1>3, <1>5
<1>8. Histories(rows, ops + 1) /\ NumbersOf(rows, next)
  BY <1>3, <1>7, CardFacts DEF Histories, NumbersOf
<1>9. OnlyImportsStrand
  <2>1. \A c \in DOMAIN rows : Stranded(rows[c]) => c \in DOMAIN tasks /\ Stranded(tasks[c])
    BY <1>3, <1>7 DEF Stranded, HasOpen, Runs
  <2> QED BY <2>1 DEF rows, OnlyImportsStrand
<1>10. NoCardLosesItsProject
  <2>1. \A c \in DOMAIN tasks : tasks[c].project \in DOMAIN projects => rows[c].project \in DOMAIN list
    BY <1>2, <1>3, <1>4, <1>5
  <2> QED BY <2>1 DEF rows, list, NoCardLosesItsProject
<1>11. ProjectsNext
  BY <1>4 DEF ProjectsNext, list
<1> QED BY <1>1, <1>6, <1>8, <1>9, <1>10, <1>11, CardFacts DEF KeepsBoard, rows

-----------------------------------------------------------------------------
(* Restarts and files                                                      *)

LEMMA RestartKeeps ==
  ASSUME ImportInv, Restart
  PROVE  /\ KeepsBoard /\ next' = next /\ projects' = projects /\ DOMAIN tasks' = DOMAIN tasks
         /\ \A c \in DOMAIN tasks :
              \/ Interrupted(tasks[c]) \/ Len(tasks[c].runs) > HistoryLimit
              \/ Content(tasks'[c]) = Content(tasks[c]) /\ RuleRepaired(tasks[c], tasks'[c])
<1> DEFINE file == [rows |-> tasks, projects |-> projects, next |-> next, sources |-> imported]
           last == ops + 1
<1>1. Loaded(file) /\ ops' = last
  BY DEF Restart, Happens
<1>2. file.rows = tasks /\ file.projects = projects /\ file.next = next /\ file.sources = imported
  OBVIOUS
<1> HIDE DEF file
<1>3. projects \in [DOMAIN projects -> ProjectRecords(Nat)]
  <2>1. ProjectRecords(Color) \subseteq ProjectRecords(Nat)
    BY Palette DEF ProjectRecords
  <2> QED BY <2>1, CardFacts, ProjectFacts
<1>4. SoundFile(file, last)
  BY <1>2, <1>3, CardFacts, ProjectFacts, BoardIsFile DEF SoundFile
<1>5. last \in Int /\ clock \in 1..MaxTime
  BY CardFacts
<1> HIDE DEF last
<1>6. /\ tasks' \in Boards /\ Histories(tasks', last)
      /\ next' \in Nat \ {0} /\ NumbersOf(tasks', next') /\ ProjectsNext
      /\ \A c \in DOMAIN tasks' : /\ c \in DOMAIN tasks /\ tasks'[c].project \in DOMAIN projects'
                                  /\ Stranded(tasks'[c]) => Stranded(tasks[c])
  BY <1>1, <1>2, <1>4, <1>5, LoadedBoard DEF ProjectsNext
<1>7. /\ next' = next /\ projects' = projects /\ DOMAIN tasks' = DOMAIN tasks
      /\ \A c \in DOMAIN tasks :
           \/ Interrupted(tasks[c]) \/ Len(tasks[c].runs) > HistoryLimit
           \/ Content(tasks'[c]) = Content(tasks[c]) /\ RuleRepaired(tasks[c], tasks'[c])
  BY <1>1, <1>2, <1>4, <1>5, LoadedBoard, CardFacts, ProjectFacts
<1>8. NoCardLosesItsProject /\ OnlyImportsStrand
  BY <1>6 DEF NoCardLosesItsProject, OnlyImportsStrand
<1> QED BY <1>1, <1>6, <1>7, <1>8 DEF KeepsBoard

(* The runs of a file are older than any this Host starts.                 *)
LEMMA FileHistories ==
  ASSUME NEW rows, rows \in [DOMAIN rows -> FileRows], NEW last \in Nat, Histories(rows, 0)
  PROVE  Histories(rows, last)
<1>1. ASSUME NEW c \in DOMAIN rows PROVE History(rows[c].runs, last)
  <2> DEFINE runs == rows[c].runs
  <2>1. runs \in Seq(RunRecords) /\ History(runs, 0)
    BY <1>1 DEF Histories, FileRows, RowsWith
  <2> HIDE DEF runs
  <2>2. \A i \in DOMAIN runs : runs[i].n \in Int
    BY <2>1, RunTypes
  <2>3. History(runs, last)
    BY <2>1, <2>2 DEF History
  <2> QED BY <2>3 DEF runs
<1> QED BY <1>1 DEF Histories

LEMMA FindsFileKeeps ==
  ASSUME ImportInv, NEW file \in Files, FindsFile(file)
  PROVE  KeepsBoard /\ imported' \subseteq Browser
<1> DEFINE last == ops + 1
<1>1. Loaded(file) /\ ops' = last
  BY DEF FindsFile, Happens
<1>2. last \in Nat /\ last \in Int /\ clock \in 1..MaxTime
  BY CardFacts
<1> HIDE DEF last
<1>3. /\ SoundRows(file.rows) /\ file.next \in Int /\ file.sources \subseteq Browser
      /\ DOMAIN file.projects \subseteq Project \cup {DefaultId}
      /\ file.projects \in [DOMAIN file.projects -> ProjectRecords(Nat)]
  BY ImportAssumption
<1>4. Histories(file.rows, last)
  BY <1>2, <1>3, FileHistories DEF SoundRows, Histories
<1>5. SoundFile(file, last) /\ \A c \in DOMAIN file.rows : ~Stranded(file.rows[c])
  BY <1>3, <1>4 DEF SoundFile, SoundRows
<1>6. /\ tasks' \in Boards /\ Histories(tasks', last) /\ imported' = file.sources
      /\ next' \in Nat \ {0} /\ NumbersOf(tasks', next') /\ ProjectsNext
      /\ \A c \in DOMAIN tasks' : /\ c \in DOMAIN file.rows /\ tasks'[c].project \in DOMAIN projects'
                                  /\ Stranded(tasks'[c]) => Stranded(file.rows[c])
  BY <1>1, <1>2, <1>5, LoadedBoard DEF ProjectsNext
<1>7. NoCardLosesItsProject /\ OnlyImportsStrand
  BY <1>5, <1>6 DEF NoCardLosesItsProject, OnlyImportsStrand
<1> QED BY <1>1, <1>3, <1>6, <1>7 DEF KeepsBoard

-----------------------------------------------------------------------------
(* Imports                                                                 *)

LEMMA LegacyBoards ==
  ASSUME NEW b \in Browser, NEW last \in Nat
  PROVE  ParseLedger(Legacy[b]) \in Boards /\ Histories(ParseLedger(Legacy[b]), last)
<1> DEFINE rows == Legacy[b]
<1>1. SoundRows(rows)
  BY ImportAssumption
<1> HIDE DEF rows
<1>2. DOMAIN rows \subseteq Card /\ rows \in [DOMAIN rows -> FileRows] /\ Histories(rows, last)
  BY <1>1, FileHistories DEF SoundRows, Histories
<1>3. last \in Int
  OBVIOUS
<1> QED BY <1>2, <1>3, ParsedRows DEF rows

(* A bootstrap leaves the document alone, or imports.                      *)
LEMMA BootstrapKeeps ==
  ASSUME ImportInv, NEW b \in Browser, NEW rows \in Boards, Histories(rows, ops + 1), Bootstrap(b, rows)
  PROVE  /\ KeepsBoard /\ imported \subseteq imported' /\ imported' \subseteq Browser
         /\ imported' # imported => b \notin imported /\ Import(b, rows)
<1>1. ops' = ops + 1 /\ UNCHANGED projects
  BY DEF Bootstrap, Happens, Document
<1>2. imported \subseteq Browser
  BY DEF ImportInv, BoardSound, ImportTypeOK
<1>3. CASE UNCHANGED <<tasks, next, imported>>
  BY <1>1, <1>2, <1>3, UnchangedBoard
<1>4. CASE b \notin imported /\ Import(b, rows)
  <2> DEFINE last == ops + 1
  <2>1. BoardSound /\ last \in Int /\ Histories(tasks, last) /\ clock \in 1..MaxTime
    BY CardFacts
  <2>2. Histories(rows, last)
    OBVIOUS
  <2> HIDE DEF last
  <2>3. /\ tasks' \in Boards /\ Histories(tasks', last)
        /\ next' \in Nat \ {0} /\ NumbersOf(tasks', next') /\ imported' = imported \cup {b}
        /\ \A c \in DOMAIN tasks' : tasks'[c].project \in DOMAIN projects
    BY <1>4, <2>1, <2>2, ImportedBoard
  <2>4. NoCardLosesItsProject /\ OnlyImportsStrand
    BY <1>1, <1>4, <2>3 DEF NoCardLosesItsProject, OnlyImportsStrand
  <2>5. ProjectsNext
    BY <1>1, <2>1, ProjectsStay
  <2> QED BY <1>1, <1>2, <1>4, <2>3, <2>4, <2>5 DEF KeepsBoard, last
<1>5. UNCHANGED <<tasks, next, imported>> \/ (b \notin imported /\ Import(b, rows))
  BY DEF Bootstrap, Import, Document
<1> QED BY <1>3, <1>4, <1>5

(* What a tab shows is a board, with a history that has happened.          *)
LEMMA TabFacts ==
  ASSUME ImportInv, NEW b \in Browser
  PROVE  tab[b].rows \in Boards /\ Histories(tab[b].rows, ops + 1) /\ tab[b].mark \in Nat
<1>1. tab[b].rows \in Boards /\ Histories(tab[b].rows, ops) /\ tab[b].mark \in Nat /\ ops \in Nat
  BY DEF ImportInv, Watched, Pages
<1> QED BY <1>1, LaterHistories

LEMMA ImportsKeep ==
  ASSUME ImportInv, NEW b \in Browser, OpenPage(b) \/ RetryHostSync(b)
  PROVE  KeepsBoard /\ imported \subseteq imported' /\ imported' \subseteq Browser
<1>1. CASE OpenPage(b)
  <2>1. ops + 1 \in Nat
    BY CardFacts
  <2>2. ParseLedger(Legacy[b]) \in Boards /\ Histories(ParseLedger(Legacy[b]), ops + 1)
    BY <2>1, LegacyBoards
  <2> QED BY <1>1, <2>2, BootstrapKeeps DEF OpenPage
<1>2. CASE RetryHostSync(b)
  BY <1>2, TabFacts, BootstrapKeeps DEF RetryHostSync
<1> QED BY <1>1, <1>2

(* A card, or a project.                                                   *)
LEMMA CardsKeep ==
  ASSUME ImportInv, CardNext \/ ProjectNext
  PROVE  KeepsBoard
<1>1. CASE CardNext
  BY <1>1, CreateKeeps, UpdateKeeps, DeleteKeeps, OpenRunKeeps, AttachKeeps, SettleKeeps DEF CardNext, Outcomes
<1>2. CASE ProjectNext
  BY <1>2, CreateProjectKeeps, RenameProjectKeeps, SetProjectColorKeeps, DeleteProjectKeeps DEF ProjectNext
<1> QED BY <1>1, <1>2

LEMMA StepKeepsBoard ==
  ASSUME ImportInv, [ImportNext]_importVars
  PROVE  KeepsBoard /\ imported' \subseteq Browser
<1>1. imported \subseteq Browser
  BY DEF ImportInv, BoardSound, ImportTypeOK
<1>2. CASE Restart
  BY <1>1, <1>2, RestartKeeps DEF Restart, Loaded
<1>3. ASSUME NEW file \in Files, FindsFile(file) PROVE KeepsBoard /\ imported' \subseteq Browser
  BY <1>3, FindsFileKeeps
<1>4. ASSUME NEW b \in Browser, OpenPage(b) \/ RetryHostSync(b) PROVE KeepsBoard /\ imported' \subseteq Browser
  BY <1>4, ImportsKeep
<1>5. ASSUME NEW b \in Browser, Refresh(b) PROVE KeepsBoard /\ imported' \subseteq Browser
  BY <1>1, <1>5, UnchangedBoard DEF Refresh, Happens, hostVars
<1>6. CASE CardNext \/ ProjectNext
  <2>1. UNCHANGED imported
    BY <1>6 DEF CardNext, ProjectNext, Create, Update, Delete, OpenRun, AttachSession, Settle, CreateProject,
                RenameProject, SetProjectColor, DeleteProject, OnProjects, Acts
  <2> QED BY <1>1, <1>6, <2>1, CardsKeep
<1>7. CASE Ticks \/ UNCHANGED importVars
  BY <1>1, <1>7, UnchangedBoard DEF Ticks, importVars, hostVars
<1> QED BY <1>2, <1>3, <1>4, <1>5, <1>6, <1>7 DEF ImportNext

-----------------------------------------------------------------------------
(* The bookkeeping of the model                                            *)

(* Time, events and ledgers are counted, and only a ledger that is found   *)
(* forgets which sources a card outlived.                                  *)
LEMMA Bookkeeping ==
  ASSUME ImportInv, [ImportNext]_importVars
  PROVE  /\ clock' \in 1..MaxTime /\ ops' \in Nat /\ ops' \in {ops, ops + 1} /\ ledger' \in Nat
         /\ gone' \in [Card -> SUBSET Browser] /\ \A c \in Card : gone'[c] \subseteq imported'
<1>1. /\ clock \in 1..MaxTime /\ MaxTime \in Nat /\ ops \in Nat /\ ledger \in Nat /\ imported \subseteq Browser
      /\ gone \in [Card -> SUBSET Browser] /\ \A c \in Card : gone[c] \subseteq imported
  BY ImportAssumption DEF ImportInv, Watched, BoardSound, ImportTypeOK
<1> DEFINE Counted == clock' \in 1..MaxTime /\ ops' \in Nat /\ ops' \in {ops, ops + 1} /\ ledger' \in Nat
           Gone == gone' \in [Card -> SUBSET Browser] /\ \A c \in Card : gone'[c] \subseteq imported'
<1>2. CASE Restart
  BY <1>1, <1>2 DEF Restart, Happens, Loaded
<1>3. ASSUME NEW file \in Files, FindsFile(file) PROVE Counted /\ Gone
  <2>1. Counted /\ gone' = [c \in Card |-> {}]
    BY <1>1, <1>3 DEF FindsFile, Happens
  <2> QED BY <2>1
<1>4. ASSUME NEW b \in Browser, OpenPage(b) \/ RetryHostSync(b) PROVE Counted /\ Gone
  <2>1. Counted /\ gone' = gone
    BY <1>1, <1>4 DEF OpenPage, RetryHostSync, Bootstrap, Happens
  <2> QED BY <1>1, <1>4, <2>1, ImportsKeep
<1>5. ASSUME NEW b \in Browser, Refresh(b) PROVE Counted /\ Gone
  BY <1>1, <1>5 DEF Refresh, Happens, hostVars
<1>6. ASSUME NEW c \in Card, Delete(c) PROVE Counted /\ Gone
  <2>1. Counted /\ gone' = [gone EXCEPT ![c] = imported] /\ imported' = imported
    BY <1>1, <1>6 DEF Delete, Acts, Happens
  <2> QED BY <1>1, <2>1
<1>7. CASE (CardNext \/ ProjectNext) /\ ~\E c \in Card : Delete(c)
  <2>1. UNCHANGED <<clock, ledger, imported, gone>> /\ ops' = ops + 1
    BY <1>7 DEF CardNext, ProjectNext, Create, Update, OpenRun, AttachSession, Settle, CreateProject,
                RenameProject, SetProjectColor, DeleteProject, OnProjects, Acts, Changes, Happens
  <2> QED BY <1>1, <2>1
<1>8. CASE Ticks \/ UNCHANGED importVars
  BY <1>1, <1>8 DEF Ticks, importVars, hostVars
<1> QED BY <1>2, <1>3, <1>4, <1>5, <1>6, <1>7, <1>8 DEF ImportNext

LEMMA TabsStayBoards ==
  ASSUME ImportInv, [ImportNext]_importVars
  PROVE  tab' \in [Browser -> Pages] /\ \A b \in Browser : Histories(tab'[b].rows, ops')
<1>1. /\ tab \in [Browser -> Pages] /\ ledger \in Nat /\ ops \in Nat
      /\ \A b \in Browser : tab[b].rows \in Boards /\ Histories(tab[b].rows, ops) /\ Histories(tab[b].rows, ops + 1)
  BY TabFacts DEF ImportInv, Watched, Pages
<1>2. KeepsBoard /\ ops' \in {ops, ops + 1}
  BY StepKeepsBoard, Bookkeeping
<1>3. CASE UNCHANGED tab
  BY <1>1, <1>2, <1>3
<1>4. ASSUME NEW b \in Browser, NEW mark \in Nat, Seen(b, mark)
      PROVE  tab' \in [Browser -> Pages] /\ \A d \in Browser : Histories(tab'[d].rows, ops')
  <2> DEFINE page == [rows |-> tasks', of |-> ledger, mark |-> mark]
  <2>1. page \in Pages /\ page.rows = tasks'
    BY <1>1, <1>2 DEF Pages, KeepsBoard
  <2>2. tab' = [tab EXCEPT ![b] = page]
    BY <1>4 DEF Seen
  <2> HIDE DEF page
  <2>3. Histories(page.rows, ops')
    BY <1>2, <2>1 DEF KeepsBoard
  <2> QED BY <1>1, <1>2, <2>1, <2>2, <2>3
<1>5. ASSUME NEW b \in Browser, OpenPage(b) \/ RetryHostSync(b)
      PROVE  UNCHANGED tab \/ \E mark \in Nat : Seen(b, mark)
  BY <1>1, <1>5, TabFacts DEF OpenPage, RetryHostSync, Bootstrap
<1>6. ASSUME NEW b \in Browser, Refresh(b)
      PROVE  Seen(b, tab[b].mark)
  BY <1>6 DEF Refresh
<1>7. CASE Restart \/ \E file \in Files : FindsFile(file)
  BY <1>3, <1>7 DEF Restart, FindsFile
<1>8. CASE CardNext \/ ProjectNext
  <2>1. UNCHANGED tab
    BY <1>8 DEF CardNext, ProjectNext, Create, Update, Delete, OpenRun, AttachSession, Settle, CreateProject,
                RenameProject, SetProjectColor, DeleteProject, OnProjects, Acts
  <2> QED BY <1>3, <2>1
<1>9. CASE Ticks \/ UNCHANGED importVars
  BY <1>3, <1>9 DEF Ticks, importVars
<1>10. ASSUME NEW b \in Browser, OpenPage(b) \/ RetryHostSync(b) \/ Refresh(b)
       PROVE  tab' \in [Browser -> Pages] /\ \A d \in Browser : Histories(tab'[d].rows, ops')
  <2>1. tab[b].mark \in Nat
    BY TabFacts
  <2> QED BY <1>3, <1>4, <1>5, <1>6, <1>10, <2>1
<1> QED BY <1>7, <1>8, <1>9, <1>10 DEF ImportNext

-----------------------------------------------------------------------------
(* The invariant                                                           *)

LEMMA EmptyBoard == ImportInit => ImportInv
<1> SUFFICES ASSUME ImportInit PROVE ImportInv
  OBVIOUS
<1>1. tasks = NoRows /\ DOMAIN NoRows = {} /\ NoRows \in Boards /\ NumbersOf(NoRows, 1) /\ Histories(NoRows, 0)
  <2>1. DOMAIN NoRows = {}
    BY DEF NoRows
  <2>2. NoRows \in [{} -> BoardRows]
    BY DEF NoRows
  <2>3. NoRows \in Boards
    BY <2>1, <2>2, BoardsAre
  <2> QED BY <2>1, <2>3 DEF ImportInit, NumbersOf, Histories
<1>2. /\ DefaultId \in DOMAIN projects /\ DOMAIN projects \subseteq Project \cup {DefaultId}
      /\ projects \in [DOMAIN projects -> ProjectRecords(Color)]
  <2> DEFINE list == [p \in {} |-> DefaultProject]
  <2>1. DOMAIN list = {} /\ list \in [{} -> ProjectRecords(Nat)]
    OBVIOUS
  <2>2. projects = NormalizeProjectList(list)
    BY DEF ImportInit, EmptyFile
  <2> HIDE DEF list
  <2>3. DOMAIN list \subseteq Project \cup {DefaultId} /\ list \in [DOMAIN list -> ProjectRecords(Nat)]
    BY <2>1
  <2> DEFINE normal == NormalizeProjectList(list)
  <2>4. DOMAIN normal = DOMAIN list \cup {DefaultId} /\ normal \in [DOMAIN normal -> ProjectRecords(Color)]
    BY <2>3, NormalizedProjects
  <2>5. projects = normal
    BY <2>2
  <2> HIDE DEF normal
  <2> QED BY <2>1, <2>4, <2>5
<1>3. BoardSound
  <2>1. tasks \in [DOMAIN tasks -> BoardRows] /\ DOMAIN tasks = {}
    BY <1>1, BoardsAre
  <2>2. next = 1 /\ imported = {}
    BY DEF ImportInit
  <2> QED BY <1>2, <2>1, <2>2 DEF BoardSound, ImportTypeOK, NumbersUnique
<1>4. tab \in [Browser -> Pages] /\ \A b \in Browser : Histories(tab[b].rows, 0)
  <2> DEFINE page(b) == [rows |-> ParseLedger(Legacy[b]), of |-> Absent, mark |-> Absent]
  <2>1. ASSUME NEW b \in Browser PROVE page(b) \in Pages /\ Histories(page(b).rows, 0)
    BY LegacyBoards DEF Pages, Absent
  <2>2. tab = [b \in Browser |-> page(b)]
    BY DEF ImportInit
  <2> HIDE DEF page
  <2> QED BY <2>1, <2>2
<1>5. Watched
  BY <1>1, <1>4, ImportAssumption DEF Watched, ImportInit
<1> QED BY <1>3, <1>5 DEF ImportInv

LEMMA ImportInvStep == ImportInv /\ [ImportNext]_importVars => ImportInv'
<1> SUFFICES ASSUME ImportInv, [ImportNext]_importVars PROVE ImportInv'
  OBVIOUS
<1>1. BoardSound'
  BY StepKeepsBoard, BoardSoundNext DEF KeepsBoard
<1>2. Watched'
  BY StepKeepsBoard, Bookkeeping, TabsStayBoards DEF KeepsBoard, Watched, Histories
<1> QED BY <1>1, <1>2 DEF ImportInv

LEMMA ImportInvariant == ImportSpec => []ImportInv
BY EmptyBoard, ImportInvStep, PTL DEF ImportSpec

(* Whatever files the Host finds, whichever browsers import what they show *)
(* and however often, and whatever is edited in between: every field of a  *)
(* card is one the board has, and no two cards wear one number, nor one    *)
(* that is still to be given (host-ledger.ts 61-84, 635-655, 912-967).     *)
THEOREM BoardStaysSound == ImportSpec => []BoardSound
<1>1. ImportInv => BoardSound
  BY DEF ImportInv
<1> QED BY <1>1, ImportInvariant, PTL

-----------------------------------------------------------------------------
(* What imports and restarts keep                                          *)

(* An import, of the page's own ledger or of what it shows, is a merge.    *)
LEMMA NothingRollsBack ==
  ASSUME ImportInv, [ImportNext]_importVars
  PROVE  ImportRollsNothingBack
<1> SUFFICES ASSUME NEW b \in imported' \ imported, NEW rows \in {ParseLedger(Legacy[b]), tab[b].rows},
                    Bootstrap(b, rows)
             PROVE  \A c \in DOMAIN tasks \cap DOMAIN rows :
                      tasks[c].updated >= rows[c].updated /\ ~Launching(tasks[c]) /\ ~Launching(rows[c])
                        => /\ tasks'[c].status = tasks[c].status
                           /\ \/ tasks'[c].rule = tasks[c].rule
                              \/ tasks[c].rule = "armed" /\ tasks'[c].rule = "off" /\ NextRunAtMs[clock] = Absent
                           /\ \A old \in Runs(tasks[c]), new \in Runs(tasks'[c]) : old.n = new.n /\ ~Open(old) => ~Open(new)
  BY DEF ImportRollsNothingBack
<1>1. b \in Browser
  BY StepKeepsBoard
<1> DEFINE last == ops + 1
<1>2. BoardSound /\ last \in Int /\ last \in Nat /\ Histories(tasks, last) /\ clock \in 1..MaxTime
  BY CardFacts
<1>3. rows \in Boards /\ Histories(rows, last)
  <2>1. tab[b].rows \in Boards /\ Histories(tab[b].rows, last)
    BY <1>1, TabFacts
  <2> HIDE DEF last
  <2>2. ParseLedger(Legacy[b]) \in Boards /\ Histories(ParseLedger(Legacy[b]), last)
    BY <1>1, <1>2, LegacyBoards
  <2> QED BY <2>1, <2>2
<1> HIDE DEF last
<1>4. imported' # imported /\ b \notin imported
  OBVIOUS
<1>5. Import(b, rows)
  BY <1>4 DEF Bootstrap, Document
<1> QED BY <1>2, <1>3, <1>4, <1>5, ImportedBoard

(* No card loses its project when one is deleted or a page is imported, no *)
(* import rolls a card back or reopens one of its runs, and a merge is all *)
(* that can leave a card running without a run (host-ledger.ts 269-291,    *)
(* 635-655; project.ts 105-118).                                           *)
THEOREM CardsAreKept == ImportSpec => CardsKept
<1>1. ImportInv /\ [ImportNext]_importVars
        => [NoCardLosesItsProject /\ ImportRollsNothingBack /\ OnlyImportsStrand]_importVars
  BY StepKeepsBoard, NothingRollsBack DEF KeepsBoard
<1> QED BY <1>1, ImportInvariant, PTL DEF ImportSpec, CardsKept

(* An import of a browser that was seen changes nothing.                   *)
LEMMA SeenImportsChangeNothing ==
  ASSUME NEW b \in imported, NEW rows, Bootstrap(b, rows)
  PROVE  UNCHANGED tasks
BY DEF Bootstrap, Import, Document

(* A card that was deleted does not come back from a browser that had      *)
(* imported by then, however often it asks again, with whatever it shows,  *)
(* and whatever restarts lie between (host-ledger.ts 635-637).             *)
THEOREM DeletedCardsStayDeleted == ImportSpec => DeletedStaysDeleted
<1>1. ImportInv /\ [ImportNext]_importVars
        => [\A b \in Browser : \A c \in DOMAIN tasks' \ DOMAIN tasks :
              OpenPage(b) \/ RetryHostSync(b) => b \notin gone[c]]_importVars
  <2> SUFFICES ASSUME ImportInv, [ImportNext]_importVars, NEW b \in Browser,
                      NEW c \in DOMAIN tasks' \ DOMAIN tasks,
                      OpenPage(b) \/ RetryHostSync(b), b \in gone[c]
               PROVE  FALSE
    OBVIOUS
  <2>1. c \in Card
    <3> DEFINE rows == tasks'
    <3>1. rows \in Boards
      BY StepKeepsBoard DEF KeepsBoard
    <3>2. c \in DOMAIN rows
      OBVIOUS
    <3> HIDE DEF rows
    <3> QED BY <3>1, <3>2, BoardsAre
  <2>2. b \in imported
    BY <2>1 DEF ImportInv, Watched
  <2>3. UNCHANGED tasks
    BY <2>2, SeenImportsChangeNothing DEF OpenPage, RetryHostSync
  <2> QED BY <2>3
<1> QED BY <1>1, ImportInvariant, PTL DEF ImportSpec, DeletedStaysDeleted

(* The Host reads what it wrote as it was (186-257, 349, 829-857,          *)
(* 912-967): no card, no number and no project is repaired away.  Launches *)
(* that were under way are cancelled, a history beyond the limit is        *)
(* trimmed, a card whose project is gone moves to the default one, and an  *)
(* armed rule is set to its next occurrence or switched off for lack of    *)
(* one; a card whose rule was right does not count as edited.              *)
THEOREM RestartsKeepTheDocument == ImportSpec => RestartKeepsDocument
<1>1. ImportInv /\ [ImportNext]_importVars
        => [Restart => /\ next' = next /\ projects' = projects /\ DOMAIN tasks' = DOMAIN tasks
                       /\ \A c \in DOMAIN tasks :
                            \/ Interrupted(tasks[c]) \/ Len(tasks[c].runs) > HistoryLimit
                            \/ /\ Content(tasks'[c]) = Content(tasks[c])
                               /\ RuleRepaired(tasks[c], tasks'[c])]_importVars
  BY RestartKeeps
<1> QED BY <1>1, ImportInvariant, PTL DEF ImportSpec, RestartKeepsDocument
=============================================================================
