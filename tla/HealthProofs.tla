---------------------------- MODULE HealthProofs ----------------------------
(* Proofs about Health.tla, for any set of upstreams, any mode of probing. *)
EXTENDS Health, TLAPS

IInv == TypeOK /\ PassIsBarrier /\ LogTellsState

(* No upstream has been probed to begin with (health.rs HealthState::new).    *)
LEMMA InitInv == Init => IInv
BY DEF Init, IInv, TypeOK, PassIsBarrier, LogTellsState, Probes, NoProbe

(* A probe that moves on stays a probe, and stays one of this pass.           *)
LEMMA ProbeMovesKeeps ==
    ASSUME IInv, NEW u \in Upstreams, NEW to \in Probes,
           probe[u] # NoProbe, to # NoProbe, ProbeMoves(u, to)
    PROVE  IInv'
BY DEF IInv, TypeOK, PassIsBarrier, LogTellsState, ProbeMoves

(* What a probe can be.                                                       *)
LEMMA ProbeShapes ==
    /\ Asking \in Probes /\ NoProbe \in Probes /\ Asking # NoProbe
    /\ \A verdict \in Verdicts :
          /\ Draining(verdict) \in Probes /\ Draining(verdict) # NoProbe
          /\ Ended(verdict) \in Probes /\ Ended(verdict) # NoProbe
    /\ \A p \in Probes : p.at \in {"draining", "ended"} =>
          p # NoProbe /\ p.verdict \in Verdicts
BY DEF Probes, Asking, NoProbe, Draining, Ended

(* A probe never touches the table or the log.                                *)
LEMMA ProbeStepKeeps ==
    ASSUME IInv, NEW u \in Upstreams, ProbeStep(u)
    PROVE  IInv'
<1>1. CASE Connected(u)
    BY <1>1, ProbeShapes, ProbeMovesKeeps DEF Connected, Verdicts
<1>2. CASE Answered(u)
    <2> DEFINE verdict == IF server[u] = "erring" THEN "down" ELSE "up"
    <2>1. verdict \in Verdicts /\ ProbeMoves(u, Draining(verdict)) /\ probe[u] = Asking
        BY <1>2 DEF Answered, Verdicts
    <2> HIDE DEF verdict
    <2> QED
        BY <2>1, ProbeShapes, ProbeMovesKeeps
<1>3. CASE Refused(u)
    BY <1>3, ProbeShapes, ProbeMovesKeeps DEF Refused, Verdicts
<1>4. CASE TimedOut(u)
    BY <1>4, ProbeShapes, ProbeMovesKeeps DEF TimedOut, Verdicts
<1>5. CASE Drained(u)
    <2>1. probe[u] \in Probes
        BY DEF IInv, TypeOK
    <2> QED
        BY <1>5, <2>1, ProbeShapes, ProbeMovesKeeps DEF Drained
<1> QED
    BY <1>1, <1>2, <1>3, <1>4, <1>5 DEF ProbeStep

(* Every step preserves the three together.                                   *)
LEMMA NextInv == IInv /\ [Next]_vars => IInv'
<1> SUFFICES ASSUME IInv, [Next]_vars PROVE IInv'
    OBVIOUS
<1> USE DEF IInv, TypeOK, PassIsBarrier, LogTellsState
<1>1. CASE StartPass
    BY <1>1, ProbeShapes DEF StartPass
<1>2. CASE PassEnds
    BY <1>2 DEF PassEnds
<1>3. ASSUME NEW u \in Upstreams, Join(u) PROVE IInv'
    <2>1. probe[u].verdict \in Verdicts
        BY <1>3, ProbeShapes DEF Join
    <2>2. TypeOK'
        BY <1>3, <2>1, ProbeShapes DEF Join, News, Recorded
    <2>3. PassIsBarrier'
        BY <1>3 DEF Join
    <2>4. LogTellsState'
        BY <1>3 DEF Join, News, Recorded
    <2> QED
        BY <2>2, <2>3, <2>4
<1>4. ASSUME NEW u \in Upstreams, Change(u) PROVE IInv'
    BY <1>4 DEF Change
<1>5. CASE UNCHANGED vars
    BY <1>5 DEF vars
<1> QED
    BY <1>1, <1>2, <1>3, <1>4, <1>5, ProbeStepKeeps DEF Next

(* The three invariants of the prober are inductive together: the barrier     *)
(* rests on a probe being in flight only within a pass (health.rs probe_loop).*)
THEOREM Inductive == Spec => []IInv
BY InitInv, NextInv, PTL DEF Spec

(* Every variable has its type and no probe outlives its pass                 *)
(* (health.rs probe_loop).                                                    *)
THEOREM TypeCorrect == Spec => []TypeOK
BY Inductive, PTL DEF IInv

(* Between two passes every verdict is from the latest one                    *)
(* (health.rs probe_loop).                                                    *)
THEOREM Barrier == Spec => []PassIsBarrier
BY Inductive, PTL DEF IInv

(* The last verdict that was logged is the one in the table                   *)
(* (health.rs probe_loop and record).                                         *)
THEOREM LogIsCurrent == Spec => []LogTellsState
BY Inductive, PTL DEF IInv
=============================================================================
