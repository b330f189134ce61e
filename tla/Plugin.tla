------------------------------- MODULE Plugin -------------------------------
(***************************************************************************)
(* From the Host's settings to the helper process: the plugin entry        *)
(* (src/src/index.ts) hands every change of the settings to the Host       *)
(* service (src/src/host-service.ts), and the service tells the inhibitor  *)
(* whether it is on and what there is to stay awake for.                   *)
(*                                                                         *)
(* Of the ledger only the armed schedules are kept, of the sessions only   *)
(* whether one runs.  The announcement and the automation settings have no *)
(* part in this.                                                           *)
(***************************************************************************)
EXTENDS PowerInhibitor

CONSTANTS
  StartSettings,  \* what the Host has when the plugin is mounted first
  MaxChanges      \* bound on settings, sessions and schedules that change

VARIABLES
  settings,  \* enabled and preventIdleSleep, as the Host has them
  mounted,   \* "no", "yes" or "disposed"
  active, prevent,
  running, armed,   \* the sessions and the schedules there really are
  poll,      \* "idle", "asked", or what the list under way said
  changes,
  fresh      \* history: a list was answered since the board was enabled

serviceVars == <<mounted, active, prevent, poll>>
worldVars == <<running, armed, changes, fresh>>
pluginVars == <<powerVars, settings, serviceVars, worldVars>>

Settings == [enabled : BOOLEAN, prevent : BOOLEAN]

ASSUME PluginAssumption == StartSettings \subseteq Settings /\ MaxChanges \in Nat

Changed == changes < MaxChanges /\ changes' = changes + 1

-----------------------------------------------------------------------------
(* The Host service                                                        *)

(* What is known of the sessions is from before the board was disabled.    *)
ReasonsAfter(resumed) ==
  IF resumed THEN [reasons EXCEPT !.armed = armed, !.known = FALSE] ELSE reasons

(* setConfiguration, with the poll that a resumed board starts.            *)
SetConfiguration(on, prevents) ==
  LET resumed == ~active /\ on IN
  /\ active' = on /\ prevent' = prevents
  /\ Sync(on /\ prevents, ReasonsAfter(resumed))
  /\ fresh' = (fresh /\ ~resumed)
  /\ poll' = IF resumed /\ poll = "idle" THEN "asked" ELSE poll

(* apply: the configuration, then start; what start does to the reasons is *)
(* the same as for a board that resumes.                                   *)
Mount ==
  /\ mounted = "no" /\ mounted' = "yes"
  /\ active' = settings.enabled /\ prevent' = settings.prevent
  /\ Sync(settings.enabled /\ settings.prevent, ReasonsAfter(TRUE))
  /\ poll' = IF settings.enabled THEN "asked" ELSE poll
  /\ UNCHANGED <<settings, worldVars>>

(* sync of the plugin entry, on every change of the settings.              *)
SettingsChange ==
  /\ Changed
  /\ \E now \in Settings \ {settings} :
       /\ settings' = now
       /\ IF mounted = "yes"
          THEN SetConfiguration(now.enabled, now.prevent)
          ELSE UNCHANGED <<powerVars, active, prevent, poll, fresh>>
  /\ UNCHANGED <<mounted, running, armed>>

(* syncPowerReasons, on every commit of the ledger.  A report of a launch  *)
(* or a poll that was under way at dispose still commits.                  *)
LedgerCommits ==
  /\ mounted # "no" /\ Changed
  /\ \E now \in BOOLEAN :
       /\ armed' = now
       /\ Sync(active /\ prevent, [reasons EXCEPT !.armed = now])
  /\ UNCHANGED <<settings, serviceVars, running, fresh>>

(* schedulePoll and pollSessions up to the list.                           *)
PollStarts ==
  /\ mounted = "yes" /\ poll = "idle"
  /\ poll' = "asked"
  /\ UNCHANGED <<powerVars, settings, mounted, active, prevent, worldVars>>

ListAnswered ==
  /\ poll = "asked"
  /\ \/ poll' = (IF running THEN "running" ELSE "quiet") /\ UNCHANGED faults
     \/ poll' = "failed" /\ Fault
  /\ UNCHANGED <<platform, enabled, reasons, inhibitorVars, helper, settings, mounted, active, prevent, worldVars>>

(* pollSessions after the list, disposed or not.                           *)
PollEnds ==
  /\ poll \notin {"idle", "asked"}
  /\ Sync(enabled, IF poll = "failed" THEN [reasons EXCEPT !.armed = armed, !.known = FALSE]
                   ELSE [known |-> TRUE, running |-> poll = "running", armed |-> armed])
  /\ fresh' = (fresh \/ poll # "failed")
  /\ poll' = "idle"
  /\ UNCHANGED <<settings, mounted, active, prevent, running, armed, changes>>

Dispose ==
  /\ mounted = "yes" /\ mounted' = "disposed"
  /\ Sync(FALSE, reasons)
  /\ UNCHANGED <<settings, active, prevent, poll, worldVars>>

(* A session starts or ends.                                               *)
SessionChanges ==
  /\ Changed /\ running' = ~running
  /\ UNCHANGED <<powerVars, settings, serviceVars, armed, fresh>>

-----------------------------------------------------------------------------
PluginInit ==
  /\ PowerInit /\ settings \in StartSettings
  /\ mounted = "no" /\ active = TRUE /\ prevent = FALSE
  /\ running \in BOOLEAN /\ armed \in BOOLEAN
  /\ poll = "idle" /\ changes = 0 /\ fresh = FALSE

PluginNext ==
  \/ Mount \/ SettingsChange \/ LedgerCommits \/ PollStarts \/ ListAnswered \/ PollEnds \/ Dispose
  \/ SessionChanges
  \/ PowerNext /\ UNCHANGED <<settings, serviceVars, worldVars>>

(* The poll's interval goes on while the board is enabled, a list is given *)
(* an answer or an error.                                                  *)
PluginFairness ==
  /\ PowerFairness
  /\ WF_pluginVars(Mount) /\ WF_pluginVars(active /\ PollStarts)
  /\ WF_pluginVars(ListAnswered) /\ WF_pluginVars(PollEnds)

PluginSpec == PluginInit /\ [][PluginNext]_pluginVars /\ PluginFairness

-----------------------------------------------------------------------------
(* Properties                                                              *)

PluginTypeOK ==
  /\ PowerTypeOK /\ settings \in Settings
  /\ mounted \in {"no", "yes", "disposed"} /\ poll \in {"idle", "asked", "running", "quiet", "failed"}
  /\ {active, prevent, running, armed, fresh} \subseteq BOOLEAN

(* What the saved settings and the sessions ask for.                       *)
Should == mounted = "yes" /\ settings.enabled /\ settings.prevent /\ (running \/ armed) /\ platform # "unsupported"

(* A saved preventIdleSleep keeps the system awake while there is work,    *)
(* whichever helpers, lists and attempts failed before.                    *)
SavedIsHeld == <>[]Should => <>[](phase = "active")

(* When there is nothing to stay awake for, or the plugin is gone, every   *)
(* helper ends, also one that ignores the end of its input; unless a late  *)
(* report switched the inhibitor on again after dispose.                   *)
FreedWhenIdle ==
  <>[]~Should /\ [](mounted = "disposed" => ~enabled) => <>[](\A h \in Helper : ~Alive(h))

(* A board that is enabled again keeps the system awake until a list has   *)
(* come in: what was known before, or a list that failed, is no reason to  *)
(* let it sleep under a session (111-117, 347-353).                        *)
HeldUntilListed ==
  mounted = "yes" /\ active /\ prevent /\ platform # "unsupported" /\ ~fresh => child # Nobody \/ retry

(* Phase, helper, timer and reasons agree, whichever events are late.      *)
InhibitorSound == PluginTypeOK /\ ActiveIsHeld /\ NoStrayHelper /\ PursuedIffWanted /\ HeldUntilListed
=============================================================================
