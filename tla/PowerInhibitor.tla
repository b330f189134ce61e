--------------------------- MODULE PowerInhibitor ---------------------------
(***************************************************************************)
(* The idle-sleep inhibitor (src/src/power-inhibitor.ts): a helper process *)
(* that keeps the system awake, started when it is wanted, told to stop    *)
(* when it is not, and started again after a pause when it fails.          *)
(*                                                                         *)
(* Whatever the helper does reaches the inhibitor as an event later on, so *)
(* events of a helper that was given up arrive while its successor runs.   *)
(* The text of the last error and the listeners are left out.              *)
(***************************************************************************)
EXTENDS Naturals, FiniteSets

CONSTANTS
  Helper,     \* processes; an id is used again once nothing of it is left
  Nobody,
  Platform,   \* where the program may run
  MaxRetry,   \* the last of RETRY_DELAYS
  MaxFaults   \* bound on helpers that fail of their own accord, lists that fail

ASSUME PowerAssumption ==
  /\ Nobody \notin Helper
  /\ Platform \subseteq {"darwin", "piped", "unsupported"}
  /\ MaxRetry \in Nat /\ MaxFaults \in Nat

VARIABLES
  platform,   \* "piped": the helpers of win32 and linux
  enabled, reasons,
  phase, child,
  retry,      \* the timer of the next attempt is set
  retryReset, \* the helper whose 30 s timer is set
  retryIndex,
  helper,     \* the processes
  faults

inhibitorVars == <<phase, child, retry, retryReset, retryIndex>>
powerVars == <<platform, enabled, reasons, inhibitorVars, helper, faults>>

(* A process: whether it lives, has said it is ready, what it was told, and*)
(* its events that are not handled yet.                                    *)
Process == [os : {"none", "alive", "dead"}, ready : BOOLEAN,
            told : {"no", "asked", "killed"}, events : SUBSET {"ready", "error", "exit"}]
NoProcess == [os |-> "none", ready |-> FALSE, told |-> "no", events |-> {}]
Alive(h) == helper[h].os = "alive"

Fault == faults < MaxFaults /\ faults' = faults + 1

-----------------------------------------------------------------------------
(* Starting and stopping a helper                                          *)

Reasons == [known : BOOLEAN, running : BOOLEAN, armed : BOOLEAN]
Desired(on, why) == on /\ (~why.known \/ why.running \/ why.armed)
Wanted == Desired(enabled, reasons)

RetryLater ==
  /\ retry' = TRUE
  /\ retryIndex' = IF retryIndex < MaxRetry THEN retryIndex + 1 ELSE retryIndex

(* spawn throws, or returns a child, which may turn out not to have        *)
(* started.  The processes are alike: which id a new one gets is nothing.  *)
Acquire ==
  \/ /\ Fault
     /\ phase' = "error" /\ retryReset' = Nobody
     /\ RetryLater
     /\ UNCHANGED <<child, helper>>
  \/ /\ \E h \in Helper : helper[h] = NoProcess
     /\ LET h == CHOOSE h \in Helper : helper[h] = NoProcess IN
          /\ child' = h
          /\ \/ helper' = [helper EXCEPT ![h].os = "alive"] /\ UNCHANGED faults
             \/ helper' = [helper EXCEPT ![h] = [@ EXCEPT !.os = "dead", !.events = {"error"}]] /\ Fault
     /\ phase' = "acquiring" /\ retry' = FALSE
     /\ UNCHANGED <<retryReset, retryIndex>>

(* A helper driven by its pipes is asked by closing its input and killed a *)
(* second later; caffeinate gets its signal at once.                       *)
Told(p) == [p EXCEPT !.told = IF platform = "piped" /\ @ = "no" THEN "asked" ELSE "killed"]

Release ==
  /\ retryReset' = Nobody /\ retry' = FALSE /\ child' = Nobody
  /\ helper' = IF child = Nobody THEN helper ELSE [helper EXCEPT ![child] = Told(@)]
  /\ UNCHANGED <<retryIndex, faults>>

(* sync, after the switch or the reasons were set.                         *)
Sync(on, why) ==
  /\ enabled' = on /\ reasons' = why
  /\ IF ~on \/ platform = "unsupported" \/ ~Desired(on, why)
     THEN /\ Release
          /\ phase' = IF ~on THEN "disabled" ELSE IF platform = "unsupported" THEN "unsupported" ELSE "idle"
     ELSE IF child = Nobody /\ ~retry THEN Acquire ELSE UNCHANGED <<inhibitorVars, helper, faults>>
  /\ UNCHANGED platform

RetryFires ==
  /\ retry
  /\ IF Wanted THEN Acquire ELSE retry' = FALSE /\ UNCHANGED <<phase, child, retryReset, retryIndex, helper, faults>>
  /\ UNCHANGED <<platform, enabled, reasons>>

(* A helper driven by its pipes resets the pauses when it is ready,        *)
(* caffeinate when it has run for 30 s.                                    *)
StableFires ==
  /\ retryReset # Nobody
  /\ retryReset' = Nobody
  /\ retryIndex' = IF child = retryReset /\ Wanted THEN 0 ELSE retryIndex
  /\ UNCHANGED <<platform, enabled, reasons, phase, child, retry, helper, faults>>

(* Mutant: no signal after the grace. *)
ForceKillNever(h) == FALSE /\ UNCHANGED powerVars

(* The second's grace is over.                                             *)
ForceKill(h) ==
  /\ Alive(h) /\ helper[h].told = "asked"
  /\ helper' = [helper EXCEPT ![h].told = "killed"]
  /\ UNCHANGED <<platform, enabled, reasons, inhibitorVars, faults>>

-----------------------------------------------------------------------------
(* Events of the helpers                                                   *)

(* The event is handled; nothing is left of a dead process after its last. *)
Handled(h, event) ==
  LET p == [helper[h] EXCEPT !.events = @ \ {event}] IN
  IF p.os = "dead" /\ p.events = {} THEN NoProcess ELSE p
Ignored(h, event) == helper' = [helper EXCEPT ![h] = Handled(h, event)] /\ UNCHANGED inhibitorVars

(* Mutant: the event of any helper counts. *)
OnReadyOfAny(h) ==
  /\ "ready" \in helper[h].events
  /\ IF Wanted
     THEN /\ phase' = "active"
          /\ IF platform = "darwin" THEN retryReset' = h /\ UNCHANGED retryIndex
             ELSE retryIndex' = 0 /\ UNCHANGED retryReset
          /\ helper' = [helper EXCEPT ![h] = Handled(h, "ready")]
          /\ UNCHANGED <<child, retry>>
     ELSE Ignored(h, "ready")
  /\ UNCHANGED <<platform, enabled, reasons, faults>>

(* markReady.                                                              *)
OnReady(h) ==
  /\ "ready" \in helper[h].events
  /\ IF child = h /\ Wanted
     THEN /\ phase' = "active"
          /\ IF platform = "darwin" THEN retryReset' = h /\ UNCHANGED retryIndex
             ELSE retryIndex' = 0 /\ UNCHANGED retryReset
          /\ helper' = [helper EXCEPT ![h] = Handled(h, "ready")]
          /\ UNCHANGED <<child, retry>>
     ELSE Ignored(h, "ready")
  /\ UNCHANGED <<platform, enabled, reasons, faults>>

(* fail: the child is dropped and killed, the next attempt is put off.     *)
Failed ==
  /\ retryReset' = Nobody /\ phase' = "error" /\ child' = Nobody
  /\ IF Wanted /\ ~retry THEN RetryLater ELSE UNCHANGED <<retry, retryIndex>>

(* Mutant: nobody listens for the error. *)
OnErrorUnheard(h) ==
  /\ "error" \in helper[h].events /\ Ignored(h, "error")
  /\ UNCHANGED <<platform, enabled, reasons, faults>>

OnError(h) ==
  /\ "error" \in helper[h].events
  /\ IF child = h THEN Failed /\ helper' = [helper EXCEPT ![h] = Handled(h, "error")]
     ELSE Ignored(h, "error")
  /\ UNCHANGED <<platform, enabled, reasons, faults>>

(* What a helper wrote may be read after its exit was.                     *)
OnExit(h) ==
  /\ "exit" \in helper[h].events
  /\ platform = "darwin" => "ready" \notin helper[h].events
  /\ IF child = h
     THEN /\ helper' = [helper EXCEPT ![h] = Handled(h, "exit")]
          /\ IF Wanted THEN Failed ELSE child' = Nobody /\ UNCHANGED <<phase, retry, retryReset, retryIndex>>
     ELSE Ignored(h, "exit")
  /\ UNCHANGED <<platform, enabled, reasons, faults>>

(* The processes: one that is asked ends or not, one that is killed does.  *)
Speaks(h) ==
  /\ Alive(h) /\ ~helper[h].ready
  /\ helper' = [helper EXCEPT ![h].ready = TRUE, ![h].events = @ \cup {"ready"}]
  /\ UNCHANGED <<platform, enabled, reasons, inhibitorVars, faults>>

Dies(h) ==
  /\ Alive(h)
  /\ IF helper[h].told = "no" THEN Fault ELSE UNCHANGED faults
  /\ helper' = [helper EXCEPT ![h].os = "dead", ![h].events = @ \cup {"exit"}]
  /\ UNCHANGED <<platform, enabled, reasons, inhibitorVars>>

Killed(h) == helper[h].told = "killed" /\ Dies(h)
Events(h) == OnReady(h) \/ OnError(h) \/ OnExit(h)

PowerInit ==
  /\ platform \in Platform
  /\ enabled = FALSE /\ reasons = [known |-> FALSE, running |-> FALSE, armed |-> FALSE]
  /\ phase = "disabled" /\ child = Nobody /\ retry = FALSE /\ retryReset = Nobody
  /\ retryIndex = 0
  /\ helper = [h \in Helper |-> NoProcess] /\ faults = 0

PowerNext ==
  \/ RetryFires \/ StableFires
  \/ \E h \in Helper : ForceKill(h) \/ Speaks(h) \/ Dies(h) \/ Events(h)

(* Timers fire, processes speak and die of a kill, events are handled: a   *)
(* process does each once.                                                 *)
Progress(h) == ForceKill(h) \/ Speaks(h) \/ Killed(h) \/ Events(h)
PowerFairness == WF_powerVars(RetryFires) /\ \A h \in Helper : WF_powerVars(Progress(h))

-----------------------------------------------------------------------------
(* Properties                                                              *)

PowerTypeOK ==
  /\ platform \in Platform /\ enabled \in BOOLEAN /\ reasons \in Reasons
  /\ phase \in {"disabled", "idle", "acquiring", "active", "error", "unsupported"}
  /\ child \in Helper \cup {Nobody} /\ retryReset \in Helper \cup {Nobody}
  /\ retry \in BOOLEAN /\ retryIndex \in 0..MaxRetry
  /\ helper \in [Helper -> Process] /\ faults \in 0..MaxFaults

(* What the board shows as active is held by the helper of now: neither a  *)
(* late READY of one that was given up, nor the exit of one (205-207, 189, *)
(* 220), makes the phase and the child disagree.                           *)
ActiveIsHeld ==
  /\ phase = "active" => child # Nobody /\ helper[child].ready /\ helper[child].told = "no"
  /\ phase \in {"error", "idle", "disabled", "unsupported"} => child = Nobody

(* A helper the inhibitor has lost sight of has been told to end: nothing  *)
(* keeps the system awake for nobody, whatever order its events come in.   *)
NoStrayHelper == \A h \in Helper : Alive(h) /\ h # child => helper[h].told # "no"

(* While the system is to stay awake there is a helper or the timer of the *)
(* next attempt, and otherwise neither: an attempt in waiting never starts *)
(* one for nothing, and no failure ends the attempts (231-235).            *)
PursuedIffWanted ==
  Wanted /\ platform # "unsupported" <=> child # Nobody \/ retry
=============================================================================
