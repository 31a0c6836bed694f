---------------------------- MODULE ServerProofs ----------------------------
(* Proofs about Server.tla, for any set of connections, with and without TLS. *)
EXTENDS Server, TLAPS

IInv == TypeOK /\ AcceptedIsWatched /\ StoppedMeansDrained /\ FinishedOrLeft

(* There are no connections to begin with (server.rs run).                    *)
LEMMA InitInv == Init => IInv
BY DEF Init, IInv, TypeOK, Places, AcceptedIsWatched, Served, StoppedMeansDrained, FinishedOrLeft

(* A connection is given up only together with its watcher, so both parts are *)
(* preserved together, if no request of a client that is there is given up.   *)
LEMMA CloseKeeps ==
    ASSUME IInv, Running, NEW c \in accepted, Close(c),
           owed' \subseteq owed, c \notin owed' \/ peer[c] = "gone",
           UNCHANGED <<handler, listener, peer, patient, accepted>>
    PROVE  IInv'
<1>1. c \in Conns /\ conn' = [conn EXCEPT ![c] = "closed"]
    BY DEF IInv, TypeOK, Close
<1>2. TypeOK'
    BY <1>1 DEF IInv, TypeOK, Places, Close
<1>3. AcceptedIsWatched' /\ StoppedMeansDrained'
    BY <1>1 DEF IInv, TypeOK, AcceptedIsWatched, Served, StoppedMeansDrained, Close, Running
<1>4. FinishedOrLeft'
    BY <1>1 DEF IInv, TypeOK, FinishedOrLeft
<1> QED
    BY <1>2, <1>3, <1>4 DEF IInv

(* Every step preserves the four together.                                    *)
LEMMA NextInv == IInv /\ [Next]_vars => IInv'
<1> SUFFICES ASSUME IInv, [Next]_vars PROVE IInv'
    OBVIOUS
<1> USE DEF IInv, TypeOK, AcceptedIsWatched, Served, StoppedMeansDrained, FinishedOrLeft
<1>1. CASE Arm \/ SignalCaught \/ Drain
    BY <1>1 DEF Arm, SignalCaught, Drain
<1>12. CASE SignalKills
    <2>1. TypeOK'
        BY <1>12 DEF SignalKills, Places
    <2>2. AcceptedIsWatched' /\ StoppedMeansDrained' /\ FinishedOrLeft'
        BY <1>12 DEF SignalKills, Places
    <2> QED
        BY <2>1, <2>2
<1>2. CASE Stop
    BY <1>2 DEF Stop, Places
<1>3. ASSUME NEW c \in Conns, Accept(c) PROVE IInv'
    BY <1>3 DEF Accept, WatchersAfterAccept, Places
<1>4. ASSUME NEW c \in Conns, StartServing(c) PROVE IInv'
    BY <1>4 DEF StartServing, Running, Places
<1>5. ASSUME NEW c \in Conns, PartArrives(c) PROVE IInv'
    BY <1>5 DEF PartArrives, Running, Places
<1>6. ASSUME NEW c \in Conns, RequestArrives(c) PROVE IInv'
    BY <1>6 DEF RequestArrives, Running, Places
<1>7. ASSUME NEW c \in Conns, Open(c) PROVE IInv'
    BY <1>7 DEF Open, Running, Places
<1>8. ASSUME NEW c \in Conns, Leave(c) PROVE IInv'
    BY <1>8 DEF Leave
<1>9. ASSUME NEW c \in Conns, HandshakeFails(c) \/ CloseIdle(c) \/ TaskEnds(c) PROVE IInv'
    <2>1. c \in accepted /\ Running /\ Close(c)
        BY <1>9 DEF HandshakeFails, CloseIdle, Closable, TaskEnds, Running
    <2>2. c \notin owed \/ peer[c] = "gone"
        BY <1>9, <2>1 DEF HandshakeFails, CloseIdle, Closable, TaskEnds, Running
    <2> QED
        BY <1>9, <2>1, <2>2, CloseKeeps DEF HandshakeFails, CloseIdle, TaskEnds
<1>10. ASSUME NEW c \in Conns, ResponseSent(c) PROVE IInv'
    <2>1. c \in accepted /\ Running
        BY <1>10 DEF ResponseSent, Running
    <2>2. CASE Close(c)
        BY <1>10, <2>1, <2>2, CloseKeeps DEF ResponseSent
    <2>3. CASE conn' = [conn EXCEPT ![c] = "waiting"] /\ UNCHANGED watchers
        BY <1>10, <2>3 DEF ResponseSent, Running, Places
    <2> QED
        BY <1>10, <2>2, <2>3 DEF ResponseSent
<1>11. CASE UNCHANGED vars
    BY <1>11 DEF vars
<1> QED
    BY <1>1, <1>2, <1>3, <1>4, <1>5, <1>6, <1>7, <1>8, <1>9, <1>10, <1>11, <1>12 DEF Next

(* The four invariants of the server are inductive together: that stopping    *)
(* leaves nobody behind rests on every accepted connection being watched      *)
(* (server.rs run).                                                           *)
THEOREM Inductive == Spec => []IInv
BY InitInv, NextInv, PTL DEF Spec

(* Every variable has its type; only accepted connections are served          *)
(* (server.rs run).                                                           *)
THEOREM TypeCorrect == Spec => []TypeOK
BY Inductive, PTL DEF IInv

(* The watcher of an accepted connection lives as long as its task            *)
(* (server.rs run and serve).                                                 *)
THEOREM Watched == Spec => []AcceptedIsWatched
BY Inductive, PTL DEF IInv

(* A request that has arrived is answered or its client has left, whenever    *)
(* the signal comes (server.rs serve and run).                                *)
THEOREM RequestsFinished == Spec => []FinishedOrLeft
BY Inductive, PTL DEF IInv

(* The process stops only after every connection it accepted is closed        *)
(* (server.rs run).                                                           *)
THEOREM ShutdownDrains == Spec => []StoppedMeansDrained
BY Inductive, PTL DEF IInv
=============================================================================
