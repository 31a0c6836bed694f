--------------------------- MODULE GatewayProofs ---------------------------
(* Proofs about Gateway.tla, for any set of connections, with and without     *)
(* TLS: the composition is a server, and what ends a connection ends the      *)
(* exchange on it.                                                            *)
EXTENDS Gateway, ServerProofs

GatewayInv == IInv /\ ExchangeIsServed /\ NoLineLost

(* Every step of the composition is one of the server or none to it           *)
(* (server.rs run, gateway.rs handle).                                        *)
LEMMA StepIsServerStep == [GatewayNext]_gatewayVars => [Next]_vars
BY DEF GatewayNext, gatewayVars, ServerStep, Killed, Begin, Answer, Finish, CutShort, Next

(* No exchange to begin with (server.rs run).                                 *)
LEMMA GatewayInitInv == GatewayInit => GatewayInv
BY InitInv DEF GatewayInit, GatewayInv, ExchangeIsServed, NoLineLost, Init

(* Every step preserves the server's invariants and those of the composition. *)
LEMMA GatewayNextInv == GatewayInv /\ [GatewayNext]_gatewayVars => GatewayInv'
<1> SUFFICES ASSUME GatewayInv, [GatewayNext]_gatewayVars PROVE GatewayInv'
    OBVIOUS
<1>1. IInv /\ IInv'
    BY StepIsServerStep, NextInv DEF GatewayInv
<1> USE <1>1 DEF GatewayInv, ExchangeIsServed, NoLineLost
<1>2. CASE ServerStep
    <2> USE DEF ServerStep
    <2>1. CASE Arm \/ SignalCaught \/ Drain
        BY <1>2, <2>1 DEF Arm, SignalCaught, Drain
    <2>2. CASE Stop
        <3>1. \A c \in Conns : conn[c] # "busy"
            BY <2>2 DEF Stop, IInv, AcceptedIsWatched, Served
        <3> QED
            BY <1>2, <2>2, <3>1 DEF Stop
    <2>3. ASSUME NEW c \in Conns,
                 Accept(c) \/ StartServing(c) \/ PartArrives(c) \/ Open(c)
          PROVE  GatewayInv'
        BY <1>2, <2>3 DEF Accept, StartServing, PartArrives, Open, Running, IInv, TypeOK, Places
    <2>4. ASSUME NEW c \in Conns, HandshakeFails(c) \/ CloseIdle(c)
          PROVE  GatewayInv'
        BY <1>2, <2>4 DEF HandshakeFails, CloseIdle, Closable, Close, IInv, TypeOK, Places
    <2>5. ASSUME NEW c \in Conns, Leave(c) PROVE GatewayInv'
        BY <1>2, <2>5 DEF Leave, IInv, TypeOK
    <2> QED
        BY <1>2, <2>1, <2>2, <2>3, <2>4, <2>5
<1>3. CASE Killed
    <2>1. \A c \in Conns : conn'[c] # "busy"
        BY <1>3 DEF Killed, SignalKills, IInv, TypeOK
    <2> QED
        BY <1>3, <2>1 DEF Killed, SignalKills
<1>4. ASSUME NEW c \in Conns, Begin(c) PROVE GatewayInv'
    BY <1>4 DEF Begin, To, RequestArrives, Running, IInv, TypeOK, Places
<1>5. ASSUME NEW c \in Conns, Answer(c) PROVE GatewayInv'
    BY <1>5 DEF Answer, To, vars
<1>6. ASSUME NEW c \in Conns, Finish(c) PROVE GatewayInv'
    BY <1>6 DEF Finish, To, ResponseSent, Close, Running, IInv, TypeOK, Places
<1>7. ASSUME NEW c \in Conns, CutShort(c) PROVE GatewayInv'
    BY <1>7 DEF CutShort, To, TaskEnds, Close, Running, IInv, TypeOK, Places
<1>8. CASE UNCHANGED gatewayVars
    BY <1>8 DEF gatewayVars, vars
<1> QED
    BY <1>2, <1>3, <1>4, <1>5, <1>6, <1>7, <1>8 DEF GatewayNext

(* The composition keeps the server's invariants together with its own        *)
(* (server.rs, gateway.rs, observe.rs).                                       *)
THEOREM GatewayInductive == GatewaySpec => []GatewayInv
BY GatewayInitInv, GatewayNextInv, PTL DEF GatewaySpec

(* An exchange is under way exactly on the connections with a request in      *)
(* flight (server.rs serve, gateway.rs handle).                               *)
THEOREM ExchangesServed == GatewaySpec => []ExchangeIsServed
BY GatewayInductive, PTL DEF GatewayInv

(* A graceful shutdown loses no line of the log (server.rs run, observe.rs    *)
(* MeteredBody::drop).                                                        *)
THEOREM LinesKept == GatewaySpec => []NoLineLost
BY GatewayInductive, PTL DEF GatewayInv

(* The composition implements the server as far as its safety goes            *)
(* (server.rs run).                                                           *)
THEOREM IsServer == GatewaySpec => Init /\ [][Next]_vars
BY StepIsServerStep, PTL DEF GatewaySpec, GatewayInit
=============================================================================
