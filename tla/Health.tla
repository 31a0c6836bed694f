------------------------------- MODULE Health -------------------------------
(* The background prober and the table behind GET /readyz (health.rs).        *)
(*                                                                            *)
(* A pass spawns one probe per upstream and joins them all, records each      *)
(* verdict as its probe is joined, and sleeps.  /readyz reads the table at    *)
(* any time, in the middle of a pass too.  The upstreams change under the     *)
(* prober's hands.                                                            *)
EXTENDS Naturals, FiniteSets

CONSTANTS
    Upstreams   \* names of the configured upstreams

VARIABLES
    mode,       \* what a probe asks for, "models" or "tcp", or "off": no prober
    server,     \* how each upstream behaves at present
    probe,      \* the probe of each upstream in this pass
    prober,     \* "joining" the probes, "sleeping", or "ready" to start at once
    known,      \* HealthState: the last verdict on each upstream
    told,       \* the last verdict on each upstream logged above debug level
    judged      \* auxiliary: the upstreams with a verdict from the latest pass

vars == <<mode, server, probe, prober, known, told, judged>>

(* An upstream that is "up" or "erring" answers with a success or an error; a *)
(* "silent" one neither answers nor refuses, until it changes; a "refusing"   *)
(* one closes the connection; and a "stuck" one sends the head of a success   *)
(* and then nothing.                                                          *)
Behaviours == {"up", "erring", "silent", "refusing", "stuck"}

Answering == {"up", "erring", "stuck"}

Verdicts == {"up", "down"}

(* No probe; one that waits for the connection or the head of the answer; one *)
(* that reads the rest, with the verdict that follows; one that has ended.    *)
Probes ==
    [at : {"none", "asking"}] \cup [at : {"draining", "ended"}, verdict : Verdicts]

NoProbe == [at |-> "none"]
Asking == [at |-> "asking"]
Draining(verdict) == [at |-> "draining", verdict |-> verdict]
Ended(verdict) == [at |-> "ended", verdict |-> verdict]

Init ==
    /\ mode \in {"models", "tcp", "off"}
    /\ server \in [Upstreams -> Behaviours]
    /\ probe = [u \in Upstreams |-> NoProbe]
    /\ prober = "ready"
    /\ known = [u \in Upstreams |-> "unchecked"]
    /\ told = [u \in Upstreams |-> "unchecked"]
    /\ judged = {}

-----------------------------------------------------------------------------
(* A single probe.                                                            *)

ProbeMoves(u, to) ==
    /\ probe' = [probe EXCEPT ![u] = to]
    /\ UNCHANGED <<mode, server, prober, known, told, judged>>

(* tcp_probe: the connection is all that is asked for.                        *)
Connected(u) ==
    /\ mode = "tcp"
    /\ probe[u] = Asking
    /\ server[u] \in Answering
    /\ ProbeMoves(u, Ended("up"))

(* models_probe: the head has arrived and decides.                            *)
Answered(u) ==
    /\ mode = "models"
    /\ probe[u] = Asking
    /\ server[u] \in Answering
    /\ ProbeMoves(u, Draining(IF server[u] = "erring" THEN "down" ELSE "up"))

Refused(u) ==
    /\ probe[u] = Asking
    /\ server[u] = "refusing"
    /\ ProbeMoves(u, Ended("down"))

(* Slip: the connection of a tcp probe is not under the timeout.              *)
TimedOutModels(u) ==
    /\ mode = "models"
    /\ probe[u] = Asking
    /\ server[u] = "silent"
    /\ ProbeMoves(u, Ended("down"))

(* Slip: the request of a models probe is not under the timeout.              *)
TimedOutTcp(u) ==
    /\ mode = "tcp"
    /\ probe[u] = Asking
    /\ server[u] = "silent"
    /\ ProbeMoves(u, Ended("down"))

(* The timeout covers what happens before the head, and nothing after it.     *)
TimedOut(u) ==
    /\ probe[u] = Asking
    /\ server[u] = "silent"
    /\ ProbeMoves(u, Ended("down"))

(* The body ends or breaks off, which is the same to the probe.               *)
Drained(u) ==
    /\ probe[u].at = "draining"
    /\ server[u] # "stuck"
    /\ ProbeMoves(u, Ended(probe[u].verdict))

ProbeStep(u) == Connected(u) \/ Answered(u) \/ Refused(u) \/ TimedOut(u) \/ Drained(u)

-----------------------------------------------------------------------------
(* The probe loop.                                                            *)

(* Gateway::spawn_health_prober spawns no loop when probing is off.           *)
StartPass ==
    /\ mode # "off"
    /\ prober \in {"ready", "sleeping"}
    /\ prober' = "joining"
    /\ probe' = [u \in Upstreams |-> Asking]
    /\ judged' = {}
    /\ UNCHANGED <<mode, server, known, told>>

(* Slip: the table is read after the verdict went into it.                    *)
NewsAfterRecord(u, verdict) == told[u]

(* What the log has said of u once `verdict` is recorded: changes only.       *)
News(u, verdict) == IF known[u] = verdict THEN told[u] ELSE verdict

(* Slip: HealthState::record keeps the first verdict.                         *)
FirstRecorded(u, verdict) == IF known[u] = "unchecked" THEN verdict ELSE known[u]

Recorded(u, verdict) == verdict

Join(u) ==
    /\ prober = "joining"
    /\ probe[u].at = "ended"
    /\ probe' = [probe EXCEPT ![u] = NoProbe]
    /\ told' = [told EXCEPT ![u] = News(u, probe[u].verdict)]
    /\ known' = [known EXCEPT ![u] = Recorded(u, probe[u].verdict)]
    /\ judged' = judged \cup {u}
    /\ UNCHANGED <<mode, server, prober>>

(* Slip: the pass ends with the first bad verdict.                            *)
PassEndsEarly ==
    /\ prober = "joining"
    /\ \/ \A u \in Upstreams : probe[u] = NoProbe
       \/ \E u \in judged : known[u] = "down"
    /\ prober' = "sleeping"
    /\ UNCHANGED <<mode, server, probe, known, told, judged>>

PassEnds ==
    /\ prober = "joining"
    /\ \A u \in Upstreams : probe[u] = NoProbe
    /\ prober' = "sleeping"
    /\ UNCHANGED <<mode, server, probe, known, told, judged>>

-----------------------------------------------------------------------------
(* The environment.                                                           *)
Change(u) ==
    /\ \E behaviour \in Behaviours \ {server[u]} :
          server' = [server EXCEPT ![u] = behaviour]
    /\ UNCHANGED <<mode, probe, prober, known, told, judged>>

Next ==
    \/ StartPass \/ PassEnds
    \/ \E u \in Upstreams : ProbeStep(u) \/ Join(u) \/ Change(u)

(* The runtime runs its tasks and timers; an upstream that is neither silent  *)
(* nor stuck answers and ends the bodies it began.  Nothing is assumed of the *)
(* changes.                                                                   *)
Fairness ==
    /\ WF_vars(StartPass)
    /\ WF_vars(PassEnds)
    /\ \A u \in Upstreams : WF_vars(ProbeStep(u)) /\ WF_vars(Join(u))

Spec == Init /\ [][Next]_vars /\ Fairness

-----------------------------------------------------------------------------
(* GET /readyz: 200 rather than 503.                                          *)
Ready == \A u \in Upstreams : known[u] # "down"

(* The type invariant: every variable has its type, and a probe that is in    *)
(* flight belongs to a pass that is being joined (health.rs probe_loop).      *)
TypeOK ==
    /\ mode \in {"models", "tcp", "off"}
    /\ server \in [Upstreams -> Behaviours]
    /\ probe \in [Upstreams -> Probes]
    /\ prober \in {"ready", "joining", "sleeping"}
    /\ known \in [Upstreams -> {"unchecked"} \cup Verdicts]
    /\ told \in [Upstreams -> {"unchecked"} \cup Verdicts]
    /\ judged \subseteq Upstreams
    /\ \A u \in Upstreams : probe[u] # NoProbe => prober = "joining"

(* Between two passes every verdict is from the latest one: no upstream is    *)
(* left with a verdict of an earlier pass, or with none, because another was  *)
(* down or slow (the joining of the JoinSet in probe_loop).                   *)
PassIsBarrier ==
    /\ prober = "sleeping" => judged = Upstreams
    /\ \A u \in Upstreams : prober = "joining" => (u \in judged <=> probe[u] = NoProbe)

(* The log tells the present state: its last line about an upstream above the *)
(* debug level is the verdict in the table, however often it changes or is    *)
(* confirmed (the match on the old and new verdict in probe_loop).            *)
LogTellsState == told = known

(* The configuration asks for a prober.                                       *)
Probing == mode # "off"

(* No upstream leaves the body of an answer unfinished.  A tcp probe does not *)
(* ask for a body.                                                            *)
Unstuck == mode = "models" => \A u \in Upstreams : server[u] # "stuck"

(* With probing on, an upstream that has gone down for good ends up as down   *)
(* in the table, and with it /readyz as 503 (probe_loop, readyz).             *)
OutageNoticed ==
    \A u \in Upstreams :
       <>[](Probing /\ Unstuck /\ server[u] = "refusing") => <>[](known[u] = "down" /\ ~Ready)

(* When every upstream is up for good, /readyz is 200 for good, with probing  *)
(* or without (probe_loop, readyz).                                           *)
RecoveryNoticed ==
    <>[](\A u \in Upstreams : server[u] = "up") => <>[]Ready

(* With probing on, every upstream is probed again and again, whatever the    *)
(* others do, as long as none is stuck: an upstream that hangs costs a pass   *)
(* no more than its timeout (probe_loop, tcp_probe, models_probe).            *)
ProbesGoOnUnstuck ==
    <>[](Probing /\ Unstuck) => \A u \in Upstreams : []<>(probe[u] = Asking)

(* config.rs:56 has a timeout for "a single probe": with probing on, every    *)
(* upstream is probed again and again, whatever the upstreams do.             *)
ProbesGoOn == []Probing => \A u \in Upstreams : []<>(probe[u] = Asking)
=============================================================================
