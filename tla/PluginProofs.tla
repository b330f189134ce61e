---------------------------- MODULE PluginProofs ----------------------------
(***************************************************************************)
(* Theorems about Plugin and the inhibitor it drives: phase, helper, timer *)
(* and reasons agree, for any number of helpers, retries, faults and       *)
(* changes, whichever events are late.                                     *)
(***************************************************************************)
EXTENDS Plugin, TLAPS

(* What a process has still to report is about what it did.                *)
EventsTrue ==
  \A h \in Helper :
    /\ "ready" \in helper[h].events => helper[h].ready
    /\ "error" \in helper[h].events \/ "exit" \in helper[h].events => helper[h].os = "dead"

(* The helper of now was told nothing, its end is not handled yet, and no  *)
(* attempt waits beside it.                                                *)
ChildIsCurrent ==
  child # Nobody =>
    /\ helper[child].told = "no" /\ ~retry
    /\ helper[child].os = "dead" => "error" \in helper[child].events \/ "exit" \in helper[child].events

PowerInv ==
  PowerTypeOK /\ ActiveIsHeld /\ NoStrayHelper /\ PursuedIffWanted /\ EventsTrue /\ ChildIsCurrent

(* The switch is what the service last set, and nothing is known of the    *)
(* sessions of a board that no list was answered for.                      *)
ServiceTold ==
  mounted = "yes" => enabled = (active /\ prevent) /\ (active /\ ~fresh => ~reasons.known)

PluginInv == PluginTypeOK /\ PowerInv /\ ServiceTold

-----------------------------------------------------------------------------
(* The inhibitor                                                           *)

LEMMA InitPower == PowerInit => PowerInv
<1> SUFFICES ASSUME PowerInit PROVE PowerInv OBVIOUS
<1>1. NoProcess \in Process /\ \A h \in Helper : helper[h] = NoProcess
  BY DEF PowerInit, NoProcess, Process
<1>2. PowerTypeOK
  <2>1. helper \in [Helper -> Process] BY <1>1 DEF PowerInit
  <2>2. reasons \in Reasons BY DEF PowerInit, Reasons
  <2>3. retryIndex \in 0..MaxRetry /\ faults \in 0..MaxFaults BY PowerAssumption DEF PowerInit
  <2> QED BY <2>1, <2>2, <2>3 DEF PowerInit, PowerTypeOK
<1>3. ActiveIsHeld /\ NoStrayHelper /\ EventsTrue /\ ChildIsCurrent
  BY <1>1 DEF PowerInit, ActiveIsHeld, NoStrayHelper, EventsTrue, ChildIsCurrent, Alive, NoProcess
<1>4. PursuedIffWanted
  BY DEF PowerInit, PursuedIffWanted, Wanted, Desired
<1> QED BY <1>2, <1>3, <1>4 DEF PowerInv

(* An attempt, when there is no helper and the system is to stay awake.    *)
LEMMA AcquireKeeps ==
  ASSUME PowerInv, Acquire, child = Nobody, enabled' \in BOOLEAN, reasons' \in Reasons, platform' = platform,
         Wanted', platform # "unsupported"
  PROVE  PowerInv'
<1>1. CASE /\ Fault
           /\ phase' = "error" /\ retryReset' = Nobody
           /\ RetryLater
           /\ UNCHANGED <<child, helper>>
  <2>1. PowerTypeOK' BY <1>1, PowerAssumption DEF PowerInv, PowerTypeOK, Fault, RetryLater
  <2>2. (ActiveIsHeld /\ NoStrayHelper)'
    BY <1>1 DEF PowerInv, ActiveIsHeld, NoStrayHelper, Alive
  <2>3. (PursuedIffWanted /\ EventsTrue /\ ChildIsCurrent)'
    BY <1>1 DEF PowerInv, PursuedIffWanted, EventsTrue, ChildIsCurrent, RetryLater
  <2> QED BY <2>1, <2>2, <2>3 DEF PowerInv
<1>2. CASE /\ \E h \in Helper : helper[h] = NoProcess
           /\ LET h == CHOOSE h \in Helper : helper[h] = NoProcess IN
                /\ child' = h
                /\ \/ helper' = [helper EXCEPT ![h].os = "alive"] /\ UNCHANGED faults
                   \/ helper' = [helper EXCEPT ![h] = [@ EXCEPT !.os = "dead", !.events = {"error"}]] /\ Fault
           /\ phase' = "acquiring" /\ retry' = FALSE
           /\ UNCHANGED <<retryReset, retryIndex>>
  <2> DEFINE n == CHOOSE h \in Helper : helper[h] = NoProcess
  <2>1. n \in Helper /\ helper[n] = NoProcess /\ child' = n /\ n # Nobody BY <1>2, PowerAssumption
  <2>2. helper \in [Helper -> Process] BY DEF PowerInv, PowerTypeOK
  <2>3. PICK p \in Process :
          /\ helper' = [helper EXCEPT ![n] = p]
          /\ p.told = "no"
          /\ \/ p.os = "alive" /\ p.events = {} /\ UNCHANGED faults
             \/ p.os = "dead" /\ p.events = {"error"} /\ Fault
    <3>1. CASE helper' = [helper EXCEPT ![n].os = "alive"] /\ UNCHANGED faults
      <4> DEFINE q == [NoProcess EXCEPT !.os = "alive"]
      <4>1. q \in Process /\ q.told = "no" /\ q.os = "alive" /\ q.events = {} BY DEF NoProcess, Process
      <4>2. helper' = [helper EXCEPT ![n] = q] BY <3>1, <2>1
      <4> QED BY <3>1, <4>1, <4>2
    <3>2. CASE helper' = [helper EXCEPT ![n] = [@ EXCEPT !.os = "dead", !.events = {"error"}]] /\ Fault
      <4> DEFINE q == [NoProcess EXCEPT !.os = "dead", !.events = {"error"}]
      <4>1. q \in Process /\ q.told = "no" /\ q.os = "dead" /\ q.events = {"error"} BY DEF NoProcess, Process
      <4>2. helper' = [helper EXCEPT ![n] = q] BY <3>2, <2>1
      <4> QED BY <3>2, <4>1, <4>2
    <3> QED BY <1>2, <3>1, <3>2
  <2> HIDE DEF n
  <2>4. helper' \in [Helper -> Process] /\ helper'[n] = p /\ \A h \in Helper \ {n} : helper'[h] = helper[h]
    BY <2>1, <2>2, <2>3
  <2>5. PowerTypeOK'
    <3>1. faults \in 0..MaxFaults BY DEF PowerInv, PowerTypeOK
    <3>2. faults' \in 0..MaxFaults
      <4>1. CASE UNCHANGED faults BY <4>1, <3>1
      <4>2. CASE Fault BY <4>2, <3>1, PowerAssumption DEF Fault
      <4> QED BY <4>1, <4>2, <2>3
    <3> QED BY <1>2, <2>1, <2>4, <3>2 DEF PowerInv, PowerTypeOK
  <2>6. (ActiveIsHeld /\ NoStrayHelper)'
    <3>1. ActiveIsHeld' BY <1>2, <2>1 DEF ActiveIsHeld
    <3>2. ASSUME NEW h \in Helper PROVE (Alive(h) /\ h # child => helper[h].told # "no")'
      BY <2>1, <2>4, child = Nobody, PowerAssumption DEF PowerInv, NoStrayHelper, Alive
    <3> QED BY <3>1, <3>2 DEF NoStrayHelper
  <2>7. (PursuedIffWanted /\ EventsTrue /\ ChildIsCurrent)'
    BY <1>2, <2>1, <2>3, <2>4 DEF PowerInv, PursuedIffWanted, EventsTrue, ChildIsCurrent
  <2> QED BY <2>5, <2>6, <2>7 DEF PowerInv
<1> QED BY <1>1, <1>2 DEF Acquire

(* The helper is told to end and the timers are cleared.                   *)
LEMMA ReleaseKeeps ==
  ASSUME PowerInv, Release, enabled' \in BOOLEAN, reasons' \in Reasons, platform' = platform,
         ~(Wanted' /\ platform # "unsupported"), phase' \in {"disabled", "unsupported", "idle"}
  PROVE  PowerInv'
<1>1. helper \in [Helper -> Process] /\ child \in Helper \cup {Nobody} /\ Nobody \notin Helper
  BY PowerAssumption DEF PowerInv, PowerTypeOK
<1>2. PICK p \in Process :
        /\ child # Nobody => p.told # "no"
        /\ helper' = IF child = Nobody THEN helper ELSE [helper EXCEPT ![child] = p]
        /\ child # Nobody => p.os = helper[child].os /\ p.ready = helper[child].ready /\ p.events = helper[child].events
  <2>1. CASE child = Nobody
    <3>1. NoProcess \in Process BY DEF NoProcess, Process
    <3> QED BY <2>1, <3>1 DEF Release
  <2>2. CASE child # Nobody
    <3> DEFINE q == Told(helper[child])
    <3>1. /\ q \in Process /\ q.told # "no"
          /\ q.os = helper[child].os /\ q.ready = helper[child].ready /\ q.events = helper[child].events
      BY <2>2, <1>1 DEF Told, Process
    <3>2. helper' = [helper EXCEPT ![child] = q] BY <2>2, <1>1 DEF Release
    <3> QED BY <3>1, <3>2, <2>2
  <2> QED BY <2>1, <2>2
<1>3. helper' \in [Helper -> Process] BY <1>1, <1>2
<1>4. PowerTypeOK' BY <1>3, PowerAssumption DEF PowerInv, PowerTypeOK, Release
<1>5. ActiveIsHeld' BY DEF Release, ActiveIsHeld
<1>6. NoStrayHelper' BY <1>1, <1>2 DEF PowerInv, NoStrayHelper, Alive, Release
<1>7. EventsTrue' BY <1>1, <1>2 DEF PowerInv, EventsTrue
<1>8. (PursuedIffWanted /\ ChildIsCurrent)' BY DEF PursuedIffWanted, ChildIsCurrent, Release
<1> QED BY <1>4, <1>5, <1>6, <1>7, <1>8 DEF PowerInv

LEMMA SyncKeeps ==
  ASSUME PowerInv, NEW on \in BOOLEAN, NEW why \in Reasons, Sync(on, why)
  PROVE  PowerInv'
<1>1. enabled' = on /\ reasons' = why /\ platform' = platform /\ Wanted' = Desired(on, why)
  BY DEF Sync, Wanted
<1>2. CASE ~on \/ platform = "unsupported" \/ ~Desired(on, why)
  <2>1. Release /\ phase' \in {"disabled", "unsupported", "idle"} BY <1>2 DEF Sync
  <2>2. ~(Wanted' /\ platform # "unsupported") BY <1>1, <1>2 DEF Desired
  <2> QED BY <1>1, <2>1, <2>2, ReleaseKeeps
<1>3. CASE on /\ platform # "unsupported" /\ Desired(on, why) /\ child = Nobody /\ ~retry
  <2>1. Acquire BY <1>3 DEF Sync
  <2> QED BY <1>1, <1>3, <2>1, AcquireKeeps
<1>4. CASE on /\ platform # "unsupported" /\ Desired(on, why) /\ ~(child = Nobody /\ ~retry)
  <2>1. UNCHANGED <<inhibitorVars, helper, faults>> BY <1>4 DEF Sync
  <2>2. PowerTypeOK' BY <1>1, <2>1 DEF PowerInv, PowerTypeOK, inhibitorVars
  <2>3. (ActiveIsHeld /\ NoStrayHelper /\ EventsTrue /\ ChildIsCurrent)'
    BY <2>1 DEF PowerInv, ActiveIsHeld, NoStrayHelper, EventsTrue, ChildIsCurrent, inhibitorVars, Alive
  <2>4. PursuedIffWanted' BY <1>1, <1>4, <2>1 DEF PursuedIffWanted, inhibitorVars
  <2> QED BY <2>2, <2>3, <2>4 DEF PowerInv
<1> QED BY <1>2, <1>3, <1>4

(* One process changes and the inhibitor does not.                         *)
LEMMA OneProcess ==
  ASSUME PowerInv, NEW h \in Helper, NEW q \in Process,
         helper' = [helper EXCEPT ![h] = q], faults' \in 0..MaxFaults,
         UNCHANGED <<platform, enabled, reasons, inhibitorVars>>,
         "ready" \in q.events => q.ready,
         "error" \in q.events \/ "exit" \in q.events => q.os = "dead",
         q.os = "alive" /\ h # child => q.told # "no",
         h = child => /\ q.told = "no"
                      /\ helper[h].ready => q.ready
                      /\ q.os = "dead" => "error" \in q.events \/ "exit" \in q.events
  PROVE  PowerInv'
<1>1. helper \in [Helper -> Process] /\ child \in Helper \cup {Nobody} BY DEF PowerInv, PowerTypeOK
<1>2. /\ helper' \in [Helper -> Process] /\ helper'[h] = q
      /\ \A g \in Helper \ {h} : helper'[g] = helper[g]
  BY <1>1
<1>3. PowerTypeOK' BY <1>2 DEF PowerInv, PowerTypeOK, inhibitorVars
<1>4. ActiveIsHeld' BY <1>1, <1>2 DEF PowerInv, ActiveIsHeld, inhibitorVars
<1>5. ASSUME NEW g \in Helper PROVE (Alive(g) /\ g # child => helper[g].told # "no")'
  BY <1>2 DEF PowerInv, NoStrayHelper, Alive, inhibitorVars
<1>6. PursuedIffWanted' BY DEF PowerInv, PursuedIffWanted, inhibitorVars, Wanted
<1>7. EventsTrue' BY <1>2 DEF PowerInv, EventsTrue
<1>8. ChildIsCurrent' BY <1>1, <1>2 DEF PowerInv, ChildIsCurrent, inhibitorVars
<1> QED BY <1>3, <1>4, <1>5, <1>6, <1>7, <1>8 DEF PowerInv, NoStrayHelper

(* What is left of a process when an event of it was handled.              *)
LEMMA HandledIs ==
  ASSUME PowerInv, NEW h \in Helper, NEW event, NEW q, q = Handled(h, event)
  PROVE  /\ q \in Process
         /\ "ready" \in q.events => q.ready
         /\ "error" \in q.events \/ "exit" \in q.events => q.os = "dead"
         /\ q.os = "alive" => helper[h].os = "alive" /\ q.told = helper[h].told
         /\ helper[h].os # "dead" \/ helper[h].events \ {event} # {} =>
              /\ q.os = helper[h].os /\ q.told = helper[h].told /\ q.ready = helper[h].ready
              /\ q.events = helper[h].events \ {event}
<1> DEFINE p == [helper[h] EXCEPT !.events = @ \ {event}]
<1>1. helper[h] \in Process BY DEF PowerInv, PowerTypeOK
<1>2. /\ p \in Process
      /\ p.os = helper[h].os /\ p.told = helper[h].told /\ p.ready = helper[h].ready
      /\ p.events = helper[h].events \ {event}
  BY <1>1 DEF Process
<1>3. /\ "ready" \in helper[h].events => helper[h].ready
      /\ "error" \in helper[h].events \/ "exit" \in helper[h].events => helper[h].os = "dead"
  BY DEF PowerInv, EventsTrue
<1>4. CASE p.os = "dead" /\ p.events = {}
  <2>1. q = NoProcess BY <1>4 DEF Handled
  <2>2. q \in Process /\ q.os = "none" /\ q.events = {} BY <2>1 DEF NoProcess, Process
  <2>3. helper[h].os = "dead" /\ helper[h].events \ {event} = {} BY <1>2, <1>4
  <2> QED BY <2>2, <2>3
<1>5. CASE ~(p.os = "dead" /\ p.events = {})
  <2>1. q = p BY <1>5 DEF Handled
  <2> HIDE DEF p
  <2> QED BY <2>1, <1>2, <1>3
<1> QED BY <1>4, <1>5

LEMMA IgnoredKeeps ==
  ASSUME PowerInv, NEW h \in Helper, NEW event, Ignored(h, event), UNCHANGED <<platform, enabled, reasons, faults>>,
         h = child => event = "ready"
  PROVE  PowerInv'
<1> DEFINE q == Handled(h, event)
<1>1. /\ q \in Process
      /\ "ready" \in q.events => q.ready
      /\ "error" \in q.events \/ "exit" \in q.events => q.os = "dead"
      /\ q.os = "alive" => helper[h].os = "alive" /\ q.told = helper[h].told
      /\ helper[h].os # "dead" \/ helper[h].events \ {event} # {} =>
           /\ q.os = helper[h].os /\ q.told = helper[h].told /\ q.ready = helper[h].ready
           /\ q.events = helper[h].events \ {event}
  BY HandledIs
<1>2. helper' = [helper EXCEPT ![h] = q] /\ UNCHANGED inhibitorVars BY DEF Ignored
<1> HIDE DEF q
<1>3. q.os = "alive" /\ h # child => q.told # "no" BY <1>1 DEF PowerInv, NoStrayHelper, Alive
<1>4. h = child => /\ q.told = "no" /\ (helper[h].ready => q.ready)
                   /\ q.os = "dead" => "error" \in q.events \/ "exit" \in q.events
  <2> SUFFICES ASSUME h = child PROVE /\ q.told = "no" /\ (helper[h].ready => q.ready)
                                      /\ q.os = "dead" => "error" \in q.events \/ "exit" \in q.events
    OBVIOUS
  <2>1. /\ helper[h].told = "no"
        /\ helper[h].os = "dead" => "error" \in helper[h].events \/ "exit" \in helper[h].events
    BY PowerAssumption DEF PowerInv, ChildIsCurrent
  <2>2. event = "ready" OBVIOUS
  <2>3. helper[h].os # "dead" \/ helper[h].events \ {event} # {} BY <2>1, <2>2
  <2>4. /\ q.os = helper[h].os /\ q.told = helper[h].told /\ q.ready = helper[h].ready
        /\ q.events = helper[h].events \ {event}
    BY <1>1, <2>3
  <2> QED BY <2>1, <2>2, <2>4
<1>5. faults' \in 0..MaxFaults BY DEF PowerInv, PowerTypeOK
<1> QED BY <1>1, <1>2, <1>3, <1>4, <1>5, OneProcess

(* What the helpers do, and the end of the grace.                          *)
LEMMA ProcessKeeps ==
  ASSUME PowerInv, NEW h \in Helper, ForceKill(h) \/ Speaks(h) \/ Dies(h)
  PROVE  PowerInv'
<1>1. helper[h] \in Process /\ helper \in [Helper -> Process] /\ faults \in 0..MaxFaults BY DEF PowerInv, PowerTypeOK
<1>2. /\ "ready" \in helper[h].events => helper[h].ready
      /\ "error" \in helper[h].events \/ "exit" \in helper[h].events => helper[h].os = "dead"
  BY DEF PowerInv, EventsTrue
<1>3. helper[h].os = "alive" /\ h # child => helper[h].told # "no" BY DEF PowerInv, NoStrayHelper, Alive
<1>4. h = child => helper[h].told = "no" BY PowerAssumption DEF PowerInv, ChildIsCurrent
<1>5. CASE ForceKill(h)
  <2> DEFINE q == [helper[h] EXCEPT !.told = "killed"]
  <2>1. /\ q \in Process /\ q.told = "killed"
        /\ q.os = helper[h].os /\ q.ready = helper[h].ready /\ q.events = helper[h].events
    BY <1>1 DEF Process
  <2>2. helper' = [helper EXCEPT ![h] = q] /\ faults' = faults BY <1>5, <1>1 DEF ForceKill
  <2>3. h # child BY <1>4, <1>5 DEF ForceKill
  <2>4. UNCHANGED <<platform, enabled, reasons, inhibitorVars>> BY <1>5 DEF ForceKill
  <2> HIDE DEF q
  <2> QED BY <1>1, <1>2, <2>1, <2>2, <2>3, <2>4, OneProcess
<1>6. CASE Speaks(h)
  <2> DEFINE q == [helper[h] EXCEPT !.ready = TRUE, !.events = @ \cup {"ready"}]
  <2>1. /\ q \in Process /\ q.ready
        /\ q.os = helper[h].os /\ q.told = helper[h].told /\ q.events = helper[h].events \cup {"ready"}
    BY <1>1 DEF Process
  <2>2. helper' = [helper EXCEPT ![h] = q] /\ faults' = faults /\ helper[h].os = "alive"
    BY <1>6, <1>1 DEF Speaks, Alive
  <2>3. UNCHANGED <<platform, enabled, reasons, inhibitorVars>> BY <1>6 DEF Speaks
  <2> HIDE DEF q
  <2>4. /\ "error" \in q.events \/ "exit" \in q.events => q.os = "dead"
        /\ q.os = "alive"
    BY <1>2, <2>1, <2>2
  <2> QED BY <1>1, <1>3, <1>4, <2>1, <2>2, <2>3, <2>4, OneProcess
<1>7. CASE Dies(h)
  <2> DEFINE q == [helper[h] EXCEPT !.os = "dead", !.events = @ \cup {"exit"}]
  <2>1. /\ q \in Process /\ q.os = "dead"
        /\ q.ready = helper[h].ready /\ q.told = helper[h].told /\ q.events = helper[h].events \cup {"exit"}
    BY <1>1 DEF Process
  <2>2. helper' = [helper EXCEPT ![h] = q] BY <1>7, <1>1 DEF Dies
  <2>3. UNCHANGED <<platform, enabled, reasons, inhibitorVars>> BY <1>7 DEF Dies
  <2>4. faults' \in 0..MaxFaults
    <3>1. Fault \/ UNCHANGED faults BY <1>7 DEF Dies
    <3> QED BY <1>1, <3>1, PowerAssumption DEF Fault
  <2> HIDE DEF q
  <2>5. ("ready" \in q.events => q.ready) /\ "exit" \in q.events BY <1>2, <2>1
  <2> QED BY <1>1, <1>4, <2>1, <2>2, <2>3, <2>4, <2>5, OneProcess
<1> QED BY <1>5, <1>6, <1>7

LEMMA TimersKeep ==
  ASSUME PowerInv, RetryFires \/ StableFires
  PROVE  PowerInv'
<1>1. CASE RetryFires
  <2>1. retry /\ child = Nobody BY <1>1 DEF RetryFires, PowerInv, ChildIsCurrent
  <2>2. Wanted /\ platform # "unsupported" BY <2>1 DEF PowerInv, PursuedIffWanted
  <2>3. Acquire /\ UNCHANGED <<platform, enabled, reasons>> BY <1>1, <2>2 DEF RetryFires
  <2>4. Wanted' /\ enabled' \in BOOLEAN /\ reasons' \in Reasons BY <2>2, <2>3 DEF Wanted, PowerInv, PowerTypeOK
  <2> QED BY <2>1, <2>2, <2>3, <2>4, AcquireKeeps
<1>2. CASE StableFires
  <2>1. /\ UNCHANGED <<platform, enabled, reasons, phase, child, retry, helper, faults>>
        /\ retryReset' = Nobody /\ retryIndex' \in {0, retryIndex}
    BY <1>2 DEF StableFires
  <2>2. PowerTypeOK' BY <2>1, PowerAssumption DEF PowerInv, PowerTypeOK
  <2>3. (ActiveIsHeld /\ NoStrayHelper /\ PursuedIffWanted /\ EventsTrue /\ ChildIsCurrent)'
    BY <2>1 DEF PowerInv, ActiveIsHeld, NoStrayHelper, PursuedIffWanted, EventsTrue, ChildIsCurrent, Alive, Wanted
  <2> QED BY <2>2, <2>3 DEF PowerInv
<1> QED BY <1>1, <1>2

LEMMA ReadyKeeps ==
  ASSUME PowerInv, NEW h \in Helper, OnReady(h)
  PROVE  PowerInv'
<1>1. CASE child = h /\ Wanted
  <2> DEFINE q == Handled(h, "ready")
  <2>1. helper' = [helper EXCEPT ![h] = q] /\ phase' = "active" /\ "ready" \in helper[h].events
    BY <1>1 DEF OnReady
  <2>2. /\ UNCHANGED <<child, retry, platform, enabled, reasons, faults>>
        /\ retryReset' \in {h, retryReset} /\ retryIndex' \in {0, retryIndex}
    BY <1>1 DEF OnReady
  <2>3. /\ q \in Process
        /\ "ready" \in q.events => q.ready
        /\ "error" \in q.events \/ "exit" \in q.events => q.os = "dead"
        /\ helper[h].os # "dead" \/ helper[h].events \ {"ready"} # {} =>
             /\ q.os = helper[h].os /\ q.told = helper[h].told /\ q.ready = helper[h].ready
             /\ q.events = helper[h].events \ {"ready"}
    BY HandledIs
  <2> HIDE DEF q
  <2>4. /\ helper[h].told = "no" /\ ~retry /\ h # Nobody
        /\ helper[h].os = "dead" => "error" \in helper[h].events \/ "exit" \in helper[h].events
    BY <1>1, PowerAssumption DEF PowerInv, ChildIsCurrent
  <2>5. /\ q.told = "no" /\ q.ready = helper[h].ready /\ helper[h].ready
        /\ q.os = "dead" => "error" \in q.events \/ "exit" \in q.events
    <3>1. helper[h].os # "dead" \/ helper[h].events \ {"ready"} # {} BY <2>4
    <3>2. helper[h].ready BY <2>1 DEF PowerInv, EventsTrue
    <3> QED BY <2>3, <2>4, <3>1, <3>2
  <2>6. helper \in [Helper -> Process] /\ retryIndex \in 0..MaxRetry BY DEF PowerInv, PowerTypeOK
  <2>7. /\ helper' \in [Helper -> Process] /\ helper'[h] = q
        /\ \A g \in Helper \ {h} : helper'[g] = helper[g]
    BY <2>1, <2>3, <2>6
  <2>8. PowerTypeOK' BY <2>1, <2>2, <2>6, <2>7, PowerAssumption DEF PowerInv, PowerTypeOK
  <2>9. ActiveIsHeld' BY <1>1, <2>1, <2>2, <2>4, <2>5, <2>7 DEF ActiveIsHeld
  <2>10. ASSUME NEW g \in Helper PROVE (Alive(g) /\ g # child => helper[g].told # "no")'
    BY <1>1, <2>2, <2>7 DEF PowerInv, NoStrayHelper, Alive
  <2>11. (PursuedIffWanted /\ EventsTrue /\ ChildIsCurrent)'
    BY <1>1, <2>2, <2>3, <2>4, <2>5, <2>7 DEF PowerInv, PursuedIffWanted, EventsTrue, ChildIsCurrent, Wanted
  <2> QED BY <2>8, <2>9, <2>10, <2>11 DEF PowerInv, NoStrayHelper
<1>2. CASE ~(child = h /\ Wanted)
  <2>1. Ignored(h, "ready") /\ UNCHANGED <<platform, enabled, reasons, faults>> BY <1>2 DEF OnReady
  <2> QED BY <2>1, IgnoredKeeps
<1> QED BY <1>1, <1>2

(* An error or an exit.  A child is there only while the system is to stay *)
(* awake, so its end is always a failure.                                  *)
LEMMA EndKeeps ==
  ASSUME PowerInv, NEW h \in Helper, OnError(h) \/ OnExit(h)
  PROVE  PowerInv'
<1>1. PICK event \in {"error", "exit"} :
        /\ event \in helper[h].events
        /\ IF child = h THEN helper' = [helper EXCEPT ![h] = Handled(h, event)]
                        ELSE Ignored(h, event)
        /\ child = h /\ Wanted => Failed
        /\ UNCHANGED <<platform, enabled, reasons, faults>>
  BY DEF OnError, OnExit
<1>2. CASE child = h
  <2> DEFINE q == Handled(h, event)
  <2>1. h # Nobody /\ Wanted /\ platform # "unsupported" BY <1>2, PowerAssumption DEF PowerInv, PursuedIffWanted
  <2>2. helper' = [helper EXCEPT ![h] = q] /\ Failed BY <1>1, <1>2, <2>1
  <2>3. helper[h].os = "dead" BY <1>1 DEF PowerInv, EventsTrue
  <2>4. /\ q \in Process
        /\ "ready" \in q.events => q.ready
        /\ "error" \in q.events \/ "exit" \in q.events => q.os = "dead"
        /\ q.os # "alive"
    BY <2>3, HandledIs
  <2> HIDE DEF q
  <2>5. /\ helper \in [Helper -> Process] /\ retryIndex \in 0..MaxRetry /\ retry \in BOOLEAN
    BY DEF PowerInv, PowerTypeOK
  <2>6. /\ helper' \in [Helper -> Process] /\ helper'[h] = q
        /\ \A g \in Helper \ {h} : helper'[g] = helper[g]
    BY <2>2, <2>4, <2>5
  <2>7. /\ retryReset' = Nobody /\ phase' = "error" /\ child' = Nobody
        /\ retry' = TRUE /\ retryIndex' \in 0..MaxRetry
    BY <2>1, <2>2, <2>5, PowerAssumption DEF Failed, RetryLater
  <2>8. PowerTypeOK' BY <1>1, <2>6, <2>7 DEF PowerInv, PowerTypeOK
  <2>9. ActiveIsHeld' BY <2>7 DEF ActiveIsHeld
  <2>10. ASSUME NEW g \in Helper PROVE (Alive(g) /\ g # child => helper[g].told # "no")'
    BY <1>2, <2>4, <2>6 DEF PowerInv, NoStrayHelper, Alive
  <2>11. (PursuedIffWanted /\ EventsTrue /\ ChildIsCurrent)'
    BY <1>1, <2>1, <2>4, <2>6, <2>7 DEF PowerInv, PursuedIffWanted, EventsTrue, ChildIsCurrent, Wanted
  <2> QED BY <2>8, <2>9, <2>10, <2>11 DEF PowerInv, NoStrayHelper
<1>3. CASE child # h
  <2>1. Ignored(h, event) BY <1>1, <1>3
  <2> QED BY <1>1, <1>3, <2>1, IgnoredKeeps
<1> QED BY <1>2, <1>3

LEMMA PowerStep == PowerInv /\ PowerNext => PowerInv'
<1> SUFFICES ASSUME PowerInv, PowerNext PROVE PowerInv' OBVIOUS
<1>1. CASE RetryFires \/ StableFires BY <1>1, TimersKeep
<1>2. ASSUME NEW h \in Helper, ForceKill(h) \/ Speaks(h) \/ Dies(h) PROVE PowerInv' BY <1>2, ProcessKeeps
<1>3. ASSUME NEW h \in Helper, Events(h) PROVE PowerInv' BY <1>3, ReadyKeeps, EndKeeps DEF Events
<1> QED BY <1>1, <1>2, <1>3 DEF PowerNext

-----------------------------------------------------------------------------
(* The plugin around it                                                    *)

LEMMA ReasonsTyped ==
  ASSUME reasons \in Reasons, NEW on \in BOOLEAN, armed \in BOOLEAN
  PROVE  ReasonsAfter(on) \in Reasons /\ (on => ~ReasonsAfter(on).known) /\ (~on => ReasonsAfter(on) = reasons)
BY DEF Reasons, ReasonsAfter

LEMMA SyncSets ==
  ASSUME NEW on, NEW why, Sync(on, why)
  PROVE  enabled' = on /\ reasons' = why
BY DEF Sync

(* The settings change under a mounted plugin.                             *)
LEMMA ConfigurationKeeps ==
  ASSUME PluginInv, NEW on \in BOOLEAN, NEW prevents \in BOOLEAN, SetConfiguration(on, prevents)
  PROVE  /\ PowerInv' /\ {active', prevent', fresh'} \subseteq BOOLEAN
         /\ poll' \in {"asked", poll}
         /\ enabled' = (active' /\ prevent') /\ (mounted = "yes" /\ active' /\ ~fresh' => ~reasons'.known)
<1> DEFINE resumed == ~active /\ on
           why == ReasonsAfter(resumed)
<1>1. {active, prevent, fresh, armed} \subseteq BOOLEAN /\ reasons \in Reasons
  BY DEF PluginInv, PluginTypeOK, PowerTypeOK
<1>2. /\ active' = on /\ prevent' = prevents /\ Sync(on /\ prevents, why)
      /\ fresh' = (fresh /\ ~resumed) /\ poll' \in {"asked", poll}
  BY DEF SetConfiguration
<1>3. why \in Reasons /\ (resumed => ~why.known) /\ (~resumed => why = reasons) BY <1>1, ReasonsTyped
<1> HIDE DEF why
<1>4. PowerInv' BY <1>2, <1>3, SyncKeeps DEF PluginInv
<1>5. enabled' = (on /\ prevents) /\ reasons' = why BY <1>2, SyncSets
<1>6. mounted = "yes" /\ on /\ ~fresh' => ~reasons'.known
  <2>1. mounted = "yes" /\ active /\ ~fresh => ~reasons.known BY DEF PluginInv, ServiceTold
  <2> QED BY <1>1, <1>2, <1>3, <1>5, <2>1
<1> QED BY <1>1, <1>2, <1>4, <1>5, <1>6

LEMMA InitPlugin == PluginInit => PluginInv
<1> SUFFICES ASSUME PluginInit PROVE PluginInv OBVIOUS
<1>1. PowerInv BY InitPower DEF PluginInit
<1>2. settings \in Settings BY PluginAssumption DEF PluginInit
<1>3. {active, prevent, running, armed, fresh} \subseteq BOOLEAN BY DEF PluginInit
<1>4. PluginTypeOK BY <1>1, <1>2, <1>3 DEF PowerInv, PluginInit, PluginTypeOK
<1>5. ServiceTold BY DEF PluginInit, ServiceTold
<1> QED BY <1>1, <1>4, <1>5 DEF PluginInv

(* One step of the plugin, of the sessions or of the inhibitor.            *)
LEMMA NextPlugin == PluginInv /\ [PluginNext]_pluginVars => PluginInv'
<1> SUFFICES ASSUME PluginInv, [PluginNext]_pluginVars PROVE PluginInv' OBVIOUS
<1> USE DEF PluginInv
<1>1. /\ {active, prevent, running, armed, fresh} \subseteq BOOLEAN
      /\ settings \in Settings /\ reasons \in Reasons /\ enabled \in BOOLEAN
      /\ mounted \in {"no", "yes", "disposed"} /\ poll \in {"idle", "asked", "running", "quiet", "failed"}
  BY DEF PluginTypeOK, PowerTypeOK
<1>2. settings.enabled \in BOOLEAN /\ settings.prevent \in BOOLEAN BY <1>1 DEF Settings
<1>3. CASE Mount
  <2> DEFINE why == ReasonsAfter(TRUE)
  <2>1. /\ mounted' = "yes" /\ active' = settings.enabled /\ prevent' = settings.prevent
        /\ Sync(settings.enabled /\ settings.prevent, why) /\ poll' \in {"asked", poll}
        /\ UNCHANGED <<settings, worldVars>>
    BY <1>3 DEF Mount
  <2>2. why \in Reasons /\ ~why.known BY <1>1, ReasonsTyped
  <2> HIDE DEF why
  <2>3. PowerInv' BY <1>2, <2>1, <2>2, SyncKeeps
  <2>4. enabled' = (settings.enabled /\ settings.prevent) /\ reasons' = why BY <2>1, SyncSets
  <2>5. ServiceTold' BY <2>1, <2>2, <2>4 DEF ServiceTold
  <2>6. PluginTypeOK' BY <1>1, <1>2, <2>1, <2>3 DEF PluginTypeOK, PowerInv, worldVars
  <2> QED BY <2>3, <2>5, <2>6
<1>4. CASE SettingsChange
  <2>1. PICK now \in Settings :
          /\ settings' = now
          /\ IF mounted = "yes" THEN SetConfiguration(now.enabled, now.prevent)
             ELSE UNCHANGED <<powerVars, active, prevent, poll, fresh>>
    BY <1>4 DEF SettingsChange
  <2>2. UNCHANGED <<mounted, running, armed>> BY <1>4 DEF SettingsChange
  <2>3. CASE mounted = "yes"
    <3>1. now.enabled \in BOOLEAN /\ now.prevent \in BOOLEAN BY DEF Settings
    <3>2. /\ PowerInv' /\ {active', prevent', fresh'} \subseteq BOOLEAN
          /\ poll' \in {"asked", poll}
          /\ enabled' = (active' /\ prevent') /\ (mounted = "yes" /\ active' /\ ~fresh' => ~reasons'.known)
      BY <2>1, <2>3, <3>1, ConfigurationKeeps
    <3>3. ServiceTold' BY <2>2, <2>3, <3>2 DEF ServiceTold
    <3>4. PluginTypeOK' BY <1>1, <2>1, <2>2, <3>2 DEF PluginTypeOK, PowerInv
    <3> QED BY <3>2, <3>3, <3>4
  <2>4. CASE mounted # "yes"
    <3>1. UNCHANGED <<powerVars, active, prevent, poll, fresh>> BY <2>1, <2>4
    <3>2. PowerInv'
      BY <3>1 DEF powerVars, inhibitorVars, PowerInv, PowerTypeOK, ActiveIsHeld, NoStrayHelper, PursuedIffWanted,
                  EventsTrue, ChildIsCurrent, Alive, Wanted
    <3>3. PluginTypeOK' BY <1>1, <2>1, <2>2, <3>1, <3>2 DEF PluginTypeOK, PowerInv
    <3> QED BY <2>2, <2>4, <3>2, <3>3 DEF ServiceTold
  <2> QED BY <2>3, <2>4
<1>5. CASE LedgerCommits
  <2>1. PICK now \in BOOLEAN : armed' = now /\ Sync(active /\ prevent, [reasons EXCEPT !.armed = now])
    BY <1>5 DEF LedgerCommits
  <2>2. UNCHANGED <<settings, serviceVars, running, fresh>> BY <1>5 DEF LedgerCommits
  <2> DEFINE why == [reasons EXCEPT !.armed = now]
  <2>3. why \in Reasons /\ why.known = reasons.known BY <1>1 DEF Reasons
  <2>4. Sync(active /\ prevent, why) BY <2>1
  <2> HIDE DEF why
  <2>5. PowerInv' BY <1>1, <2>3, <2>4, SyncKeeps
  <2>6. enabled' = (active /\ prevent) /\ reasons' = why BY <2>4, SyncSets
  <2>7. ServiceTold' BY <2>2, <2>3, <2>6 DEF ServiceTold, serviceVars
  <2>8. PluginTypeOK' BY <1>1, <2>1, <2>2, <2>5 DEF PluginTypeOK, PowerInv, serviceVars
  <2> QED BY <2>5, <2>7, <2>8
<1>6. CASE PollEnds
  <2> DEFINE why == IF poll = "failed" THEN [reasons EXCEPT !.armed = armed, !.known = FALSE]
                    ELSE [known |-> TRUE, running |-> poll = "running", armed |-> armed]
  <2>1. /\ Sync(enabled, why) /\ fresh' = (fresh \/ poll # "failed") /\ poll' = "idle"
        /\ UNCHANGED <<settings, mounted, active, prevent, running, armed>>
    BY <1>6 DEF PollEnds
  <2>2. why \in Reasons /\ (poll = "failed" => ~why.known) BY <1>1 DEF Reasons
  <2> HIDE DEF why
  <2>3. PowerInv' BY <1>1, <2>1, <2>2, SyncKeeps
  <2>4. enabled' = enabled /\ reasons' = why BY <2>1, SyncSets
  <2>5. ServiceTold' BY <1>1, <2>1, <2>2, <2>4 DEF ServiceTold
  <2>6. PluginTypeOK' BY <1>1, <2>1, <2>3 DEF PluginTypeOK, PowerInv
  <2> QED BY <2>3, <2>5, <2>6
<1>7. CASE Dispose
  <2>1. Sync(FALSE, reasons) /\ mounted' = "disposed" /\ UNCHANGED <<settings, active, prevent, poll, worldVars>>
    BY <1>7 DEF Dispose
  <2>2. PowerInv' BY <1>1, <2>1, SyncKeeps
  <2>3. PluginTypeOK' BY <1>1, <2>1, <2>2 DEF PluginTypeOK, PowerInv, worldVars
  <2>4. ServiceTold' BY <2>1 DEF ServiceTold
  <2> QED BY <2>2, <2>3, <2>4
<1>8. CASE PowerNext /\ UNCHANGED <<settings, serviceVars, worldVars>>
  <2>1. PowerInv' BY <1>8, PowerStep
  <2>2. PluginTypeOK' BY <1>1, <1>8, <2>1 DEF PluginTypeOK, PowerInv, serviceVars, worldVars
  <2>3. UNCHANGED <<enabled, reasons>>
    BY <1>8 DEF PowerNext, RetryFires, StableFires, ForceKill, Speaks, Dies, Events, OnReady, OnError, OnExit
  <2>4. ServiceTold' BY <1>8, <2>3 DEF ServiceTold, serviceVars, worldVars
  <2> QED BY <2>1, <2>2, <2>4
<1>9. CASE PollStarts \/ ListAnswered \/ SessionChanges \/ UNCHANGED pluginVars
  <2>1. /\ UNCHANGED <<platform, enabled, reasons, inhibitorVars, helper, settings, mounted, active, prevent, armed, fresh>>
        /\ UNCHANGED faults \/ Fault
        /\ running' \in BOOLEAN
    BY <1>1, <1>9 DEF PollStarts, ListAnswered, SessionChanges, pluginVars, powerVars, serviceVars, worldVars
  <2>2. poll' \in {"idle", "asked", "running", "quiet", "failed"}
    BY <1>1, <1>9 DEF PollStarts, ListAnswered, SessionChanges, pluginVars, powerVars, serviceVars, worldVars
  <2>3. faults' \in 0..MaxFaults
    <3>1. faults \in 0..MaxFaults BY DEF PowerInv, PowerTypeOK
    <3> QED BY <2>1, <3>1, PowerAssumption DEF Fault
  <2>4. PowerTypeOK' BY <2>1, <2>3 DEF PowerInv, PowerTypeOK, inhibitorVars
  <2>5. (ActiveIsHeld /\ NoStrayHelper /\ PursuedIffWanted /\ EventsTrue /\ ChildIsCurrent)'
    BY <2>1 DEF PowerInv, ActiveIsHeld, NoStrayHelper, PursuedIffWanted, EventsTrue, ChildIsCurrent, inhibitorVars,
                Alive, Wanted
  <2>6. ServiceTold' BY <2>1 DEF ServiceTold
  <2>7. PluginTypeOK' BY <1>1, <2>1, <2>2, <2>4 DEF PluginTypeOK
  <2> QED BY <2>4, <2>5, <2>6, <2>7 DEF PowerInv
<1> QED BY <1>3, <1>4, <1>5, <1>6, <1>7, <1>8, <1>9 DEF PluginNext

-----------------------------------------------------------------------------
(* The inductive invariant, for every number of helpers and retries and    *)
(* any settings, whichever helpers, lists and attempts fail.               *)
THEOREM PluginInvariant == PluginSpec => []PluginInv
<1>1. PluginInit => PluginInv BY InitPlugin
<1>2. PluginInv /\ [PluginNext]_pluginVars => PluginInv' BY NextPlugin
<1> QED BY <1>1, <1>2, PTL DEF PluginSpec

(* What the board shows as active is held by the helper of now, a helper   *)
(* given up was told to end, there is a helper or a timer exactly while    *)
(* the system is to stay awake, and a board that is enabled again holds it *)
(* until a list has come in (power-inhibitor.ts, host-service.ts 111-117). *)
THEOREM InhibitorIsSound == PluginSpec => []InhibitorSound
<1>1. PluginInv => HeldUntilListed
  <2> SUFFICES ASSUME PluginInv, mounted = "yes", active, prevent, platform # "unsupported", ~fresh
               PROVE  child # Nobody \/ retry
    BY DEF HeldUntilListed
  <2>1. enabled /\ ~reasons.known BY DEF PluginInv, ServiceTold
  <2>2. Wanted BY <2>1 DEF Wanted, Desired
  <2> QED BY <2>2 DEF PluginInv, PowerInv, PursuedIffWanted
<1>2. PluginInv => InhibitorSound BY <1>1 DEF PluginInv, PowerInv, InhibitorSound
<1> QED BY <1>2, PluginInvariant, PTL
=============================================================================
