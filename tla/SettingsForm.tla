---------------------------- MODULE SettingsForm ----------------------------
(***************************************************************************)
(* The settings card of the browser (src/src/client/settings-form.ts, the  *)
(* buttons of PluginSettingsCard.tsx): edits are staged, and a save writes *)
(* them all in one mutation of the Host's document.                        *)
(*                                                                         *)
(* External: the settings scope, whose mutate applies every write or none, *)
(* resolves with a fresh view also when the Host refused (or rejects,      *)
(* behind the bridge), and which publishes later changes of the document.  *)
(***************************************************************************)
EXTENDS Naturals, FiniteSets

CONSTANTS
  Field,
  Unset,      \* no entry in the user's layer
  Default,    \* what a field without an entry inherits
  Draft,      \* the texts a field may show; "bad" is not a value, "" clears
  MaxEdits    \* bound on what the user types, on saves and on other clients

None == [text |-> Unset]
Value(f) == Draft[f] \ {"bad", ""}
Layer == {l \in [Field -> UNION {Value(f) : f \in Field} \cup {Unset}] : \A f \in Field : l[f] \in Value(f) \cup {Unset}}

VARIABLES
  doc,        \* the user's layer in the Host's document
  seen,       \* the same as the tab has it
  staged,     \* the edit of each field
  saving,     \* the save under way
  failed,
  edits       \* edits, saves and foreign changes so far

draftVars == <<staged, saving, failed>>
formVars == <<doc, seen, draftVars, edits>>

Effective(layer) == [f \in Field |-> IF layer[f] = Unset THEN Default[f] ELSE layer[f]]
Stored(f) == seen[f] # Unset
Screen(f) == IF staged[f] = None THEN Effective(seen)[f] ELSE staged[f].text

-----------------------------------------------------------------------------
(* What a save would write                                                 *)

(* The write a staged edit stands for; the value Unset drops the entry.  A *)
(* clear of nothing, and the text that is there already, are no writes.    *)
IsWrite(f) ==
  /\ staged[f] # None
  /\ IF staged[f].clear THEN Stored(f) ELSE staged[f].text # Effective(seen)[f]
Invalid(f) == IsWrite(f) /\ ~staged[f].clear /\ staged[f].text = "bad"

WriteOf(edit) == IF edit.clear \/ edit.text = "" THEN Unset ELSE edit.text

Planned == {f \in Field : IsWrite(f)}
Dirty == Planned # {}
CanSave == Dirty /\ saving = None /\ \A f \in Planned : ~Invalid(f)

Counted == edits < MaxEdits /\ edits' = edits + 1

(* edit and resetField; an edit is a new object, also with the same text.  *)
Stage(f, text, clear) ==
  /\ Counted
  /\ staged' = [staged EXCEPT ![f] = [text |-> text, clear |-> clear, n |-> edits + 1]]
  /\ failed' = FALSE
  /\ UNCHANGED <<doc, seen, saving>>

Edit(f) == \E text \in Draft[f] \ {Screen(f)} : Stage(f, text, FALSE)
(* The reset button is there for a field that would have an entry.         *)
ResetField(f) ==
  /\ IF staged[f] = None THEN Stored(f) ELSE ~staged[f].clear /\ staged[f].text \notin {"bad", ""}
  /\ Stage(f, Default[f], TRUE)

(* The discard button.                                                     *)
Discard ==
  /\ Dirty /\ saving = None
  /\ staged' = [f \in Field |-> None] /\ failed' = FALSE
  /\ UNCHANGED <<doc, seen, saving, edits>>

-----------------------------------------------------------------------------
(* Saving                                                                  *)

Save ==
  /\ CanSave /\ Counted
  /\ saving' = [at |-> "sent", before |-> [f \in Planned |-> staged[f]]]
  /\ failed' = FALSE
  /\ UNCHANGED <<doc, seen, staged>>

(* The Host's document after the mutation of the save under way.           *)
Mutated == [f \in Field |-> IF f \in DOMAIN saving.before THEN WriteOf(saving.before[f]) ELSE doc[f]]
Saving(at) == saving # None /\ saving.at = at

(* The Host refuses: its validators, a newer revision, a document that     *)
(* cannot be written; or the mutation never reaches it.                    *)
MutationRefused ==
  /\ Saving("sent") /\ Counted
  /\ \E outcome \in {"resolved", "rejected"} : saving' = [saving EXCEPT !.at = outcome]
  /\ UNCHANGED <<doc, seen, staged, failed>>

(* The Host writes; the answer may still be lost.                          *)
MutationApplied ==
  /\ Saving("sent")
  /\ doc' = Mutated
  /\ \/ saving' = [saving EXCEPT !.at = "resolved"] /\ UNCHANGED edits
     \/ saving' = [saving EXCEPT !.at = "rejected"] /\ Counted
  /\ UNCHANGED <<seen, staged, failed>>

(* Read-back: every write is looked for in what the tab sees by now.       *)
Landed(layer) == \A f \in DOMAIN saving.before : layer[f] = WriteOf(saving.before[f])

(* Mutant: whatever is staged for a field that landed goes. *)
RestOfAll(landed) ==
  [f \in Field |-> IF landed /\ f \in DOMAIN saving.before THEN None ELSE staged[f]]

(* Only the edit the save started from goes, not one typed meanwhile.      *)
Rest(landed) ==
  [f \in Field |-> IF landed /\ f \in DOMAIN saving.before /\ staged[f] = saving.before[f] THEN None ELSE staged[f]]

SaveEnds ==
  /\ saving # None /\ saving.at \in {"resolved", "rejected"}
  /\ seen' = IF saving.at = "resolved" THEN doc ELSE seen
  /\ LET landed == saving.at = "resolved" /\ Landed(seen') IN
     staged' = Rest(landed) /\ failed' = ~landed
  /\ saving' = None
  /\ UNCHANGED <<doc, edits>>

(* The scope publishes a change of the document.                           *)
SeesDocument == seen # doc /\ seen' = doc /\ UNCHANGED <<doc, draftVars, edits>>

(* Another client, or the file itself.                                     *)
OtherWrites ==
  /\ Counted
  /\ \E f \in Field : \E v \in Value(f) \cup {Unset} : v # doc[f] /\ doc' = [doc EXCEPT ![f] = v]
  /\ UNCHANGED <<seen, draftVars>>

FormInit ==
  /\ doc \in Layer /\ seen = doc
  /\ staged = [f \in Field |-> None] /\ saving = None /\ failed = FALSE /\ edits = 0

(* What leaves the Host's document alone, and what does not.               *)
FormStep ==
  \/ \E f \in Field : Edit(f) \/ ResetField(f)
  \/ Discard \/ Save \/ MutationRefused \/ SaveEnds \/ SeesDocument
DocumentStep == MutationApplied \/ OtherWrites
FormSpec == FormInit /\ [][FormStep \/ DocumentStep]_formVars

-----------------------------------------------------------------------------
(* Properties                                                              *)

(* What the user typed leaves the form only by the discard button or when  *)
(* the Host has it: a save that is refused, half-seen or rejected keeps    *)
(* the drafts, and one typed while it was under way survives it (330-341). *)
(* A save that ends without an error is in the document, every write of it *)
(* (336): resolution alone proves nothing.                                 *)
DraftsSurvive ==
  [][saving # None =>
       /\ \A f \in Field : staged[f] # None /\ staged'[f] = None => doc'[f] = WriteOf(staged[f])
       /\ saving' = None /\ ~failed' =>
            \A f \in DOMAIN saving.before : doc'[f] = WriteOf(saving.before[f])]_formVars
=============================================================================
