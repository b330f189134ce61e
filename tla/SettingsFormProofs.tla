-------------------------- MODULE SettingsFormProofs --------------------------
(***************************************************************************)
(* That the settings card loses no draft and reports no save that did not  *)
(* happen, for every set of fields, texts and defaults: the Host may       *)
(* refuse, write and answer with an error, or be written by others while a *)
(* save is under way.                                                      *)
(***************************************************************************)
EXTENDS SettingsForm, TLAPS

(* A staged edit, and a save with the edits it started from.               *)
StagedEdit(e) == e = [text |-> e.text, clear |-> e.clear, n |-> e.n]
SaveUnderWay(s) ==
  /\ s = [at |-> s.at, before |-> s.before]
  /\ DOMAIN s.before \subseteq Field /\ \A f \in DOMAIN s.before : s.before[f] # None

FormInv ==
  /\ staged = [f \in Field |-> staged[f]] /\ \A f \in Field : staged[f] # None => StagedEdit(staged[f])
  /\ saving # None => SaveUnderWay(saving)

(* An edit and a save are told from nothing by their fields.               *)
LEMMA EditsAreSomething ==
  ASSUME NEW text, NEW clear, NEW n
  PROVE  /\ [text |-> text, clear |-> clear, n |-> n] # None
         /\ StagedEdit([text |-> text, clear |-> clear, n |-> n])
<1> DEFINE e == [text |-> text, clear |-> clear, n |-> n]
<1>1. DOMAIN e = {"text", "clear", "n"} /\ DOMAIN None = {"text"}
  BY DEF None
<1>2. e # None
  BY <1>1
<1>3. e.text = text /\ e.clear = clear /\ e.n = n
  OBVIOUS
<1> QED BY <1>2, <1>3 DEF StagedEdit

LEMMA SavesAreSomething ==
  ASSUME NEW at, NEW before
  PROVE  [at |-> at, before |-> before] # None
<1> DEFINE s == [at |-> at, before |-> before]
<1>1. DOMAIN s = {"at", "before"} /\ DOMAIN None = {"text"}
  BY DEF None
<1> QED BY <1>1

(* A save goes on: its edits stay what they were.                          *)
LEMMA SaveGoesOn ==
  ASSUME FormInv, saving # None, NEW at, saving' = [saving EXCEPT !.at = at]
  PROVE  saving' # None /\ SaveUnderWay(saving') /\ saving'.before = saving.before
<1>1. SaveUnderWay(saving)
  BY DEF FormInv
<1>2. saving' = [at |-> at, before |-> saving.before]
  BY <1>1 DEF SaveUnderWay
<1> QED BY <1>1, <1>2, SavesAreSomething DEF SaveUnderWay

LEMMA EmptyForm == FormInit => FormInv
BY DEF FormInit, FormInv

LEMMA FormInvStep == FormInv /\ [FormStep \/ DocumentStep]_formVars => FormInv'
<1> SUFFICES ASSUME FormInv, [FormStep \/ DocumentStep]_formVars PROVE FormInv'
  OBVIOUS
<1>1. /\ staged = [f \in Field |-> staged[f]] /\ \A f \in Field : staged[f] # None => StagedEdit(staged[f])
      /\ saving # None => SaveUnderWay(saving)
  BY DEF FormInv
<1>2. ASSUME NEW f \in Field, NEW text, NEW clear, Stage(f, text, clear) PROVE FormInv'
  <2> DEFINE e == [text |-> text, clear |-> clear, n |-> edits + 1]
  <2>1. e # None /\ StagedEdit(e)
    BY EditsAreSomething
  <2>2. staged' = [staged EXCEPT ![f] = e] /\ UNCHANGED saving
    BY <1>2 DEF Stage
  <2> HIDE DEF e
  <2> QED BY <1>1, <2>1, <2>2 DEF FormInv
<1>3. ASSUME NEW f \in Field, Edit(f) \/ ResetField(f) PROVE FormInv'
  BY <1>2, <1>3 DEF Edit, ResetField
<1>4. CASE Discard
  BY <1>1, <1>4 DEF Discard, FormInv
<1>5. CASE Save
  <2> DEFINE before == [f \in Planned |-> staged[f]]
  <2>1. saving' = [at |-> "sent", before |-> before] /\ UNCHANGED staged
    BY <1>5 DEF Save
  <2>2. Planned \subseteq Field /\ \A f \in Planned : staged[f] # None
    BY DEF Planned, IsWrite
  <2>3. SaveUnderWay(saving')
    BY <2>1, <2>2 DEF SaveUnderWay
  <2> QED BY <1>1, <2>1, <2>3 DEF FormInv
<1>6. CASE MutationRefused \/ MutationApplied
  <2>1. PICK at : saving' = [saving EXCEPT !.at = at] /\ saving # None /\ UNCHANGED staged
    BY <1>6 DEF MutationRefused, MutationApplied, Saving
  <2> QED BY <1>1, <2>1, SaveGoesOn DEF FormInv
<1>7. CASE SaveEnds
  <2>1. PICK landed : staged' = Rest(landed)
    BY <1>7 DEF SaveEnds
  <2>2. saving' = None
    BY <1>7 DEF SaveEnds
  <2> QED BY <1>1, <2>1, <2>2 DEF Rest, FormInv
<1>8. CASE SeesDocument \/ OtherWrites \/ UNCHANGED formVars
  BY <1>1, <1>8 DEF SeesDocument, OtherWrites, formVars, draftVars, FormInv
<1> QED BY <1>3, <1>4, <1>5, <1>6, <1>7, <1>8 DEF FormStep, DocumentStep

LEMMA FormInvariance == FormSpec => []FormInv
BY EmptyForm, FormInvStep, PTL DEF FormSpec

-----------------------------------------------------------------------------
(* What a step that ends a save may take from the form, and when it may    *)
(* call it a success.                                                      *)
Survives ==
  saving # None =>
    /\ \A f \in Field : staged[f] # None /\ staged'[f] = None => doc'[f] = WriteOf(staged[f])
    /\ saving' = None /\ ~failed' => \A f \in DOMAIN saving.before : doc'[f] = WriteOf(saving.before[f])

LEMMA StepSurvives == FormInv /\ [FormStep \/ DocumentStep]_formVars => Survives
<1> SUFFICES ASSUME FormInv, [FormStep \/ DocumentStep]_formVars, saving # None PROVE Survives
  BY DEF Survives
<1>1. staged = [f \in Field |-> staged[f]] /\ SaveUnderWay(saving)
  BY DEF FormInv
<1>2. ASSUME NEW f \in Field, NEW text, NEW clear, Stage(f, text, clear) PROVE Survives
  <2> DEFINE e == [text |-> text, clear |-> clear, n |-> edits + 1]
  <2>1. e # None
    BY EditsAreSomething
  <2>2. staged' = [staged EXCEPT ![f] = e] /\ UNCHANGED saving
    BY <1>2 DEF Stage
  <2> HIDE DEF e
  <2> QED BY <1>1, <2>1, <2>2 DEF Survives
<1>3. ASSUME NEW f \in Field, Edit(f) \/ ResetField(f) PROVE Survives
  BY <1>2, <1>3 DEF Edit, ResetField
<1>4. CASE Discard \/ Save
  BY <1>4 DEF Discard, Save, CanSave
<1>5. CASE MutationRefused \/ MutationApplied
  <2>1. PICK at : saving' = [saving EXCEPT !.at = at] /\ UNCHANGED staged
    BY <1>5 DEF MutationRefused, MutationApplied
  <2> QED BY <2>1, SaveGoesOn DEF Survives
<1>6. CASE SaveEnds
  <2> DEFINE landed == saving.at = "resolved" /\ Landed(seen')
  <2>1. /\ seen' = (IF saving.at = "resolved" THEN doc ELSE seen) /\ doc' = doc
        /\ staged' = Rest(landed) /\ failed' = ~landed
    BY <1>6 DEF SaveEnds
  <2>2. ASSUME landed PROVE \A f \in DOMAIN saving.before : doc'[f] = WriteOf(saving.before[f])
    BY <2>1, <2>2 DEF Landed
  <2> HIDE DEF landed
  <2>3. ASSUME NEW f \in Field, staged[f] # None, staged'[f] = None PROVE doc'[f] = WriteOf(staged[f])
    BY <2>1, <2>2, <2>3 DEF Rest
  <2> QED BY <2>1, <2>2, <2>3 DEF Survives
<1>7. CASE SeesDocument \/ OtherWrites \/ UNCHANGED formVars
  BY <1>7 DEF SeesDocument, OtherWrites, formVars, draftVars, Survives
<1> QED BY <1>3, <1>4, <1>5, <1>6, <1>7 DEF FormStep, DocumentStep

(* While a save is under way, and when it ends: a draft leaves the form    *)
(* only if the Host's document has what it stands for, and a save without  *)
(* an error has every write of it there (settings-form.ts 313-352).        *)
THEOREM NoDraftIsLost == FormSpec => DraftsSurvive
<1>1. FormInv /\ [FormStep \/ DocumentStep]_formVars
        => [saving # None =>
              /\ \A f \in Field : staged[f] # None /\ staged'[f] = None => doc'[f] = WriteOf(staged[f])
              /\ saving' = None /\ ~failed' =>
                   \A f \in DOMAIN saving.before : doc'[f] = WriteOf(saving.before[f])]_formVars
  BY StepSurvives DEF Survives
<1> QED BY <1>1, FormInvariance, PTL DEF FormSpec, DraftsSurvive
=============================================================================
