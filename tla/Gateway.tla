------------------------------ MODULE Gateway ------------------------------
(* The exchanges on the connections of the server: Server.tla with the steps  *)
(* of Exchange.tla that matter to it, that is where the handler is            *)
(* (gateway.rs) and whether the line of the request has been written          *)
(* (observe.rs).  A connection that is "busy" runs one exchange, and what     *)
(* ends the one ends the other: hyper drops the handler, or the body with the *)
(* line in it, together with the connection.                                  *)
EXTENDS Server

VARIABLES
    exchange,  \* on each connection: "none", "health", "handling", "answering"
    unlogged   \* auxiliary: connections of which some request got no line

gatewayVars == <<vars, exchange, unlogged>>

GatewayInit ==
    /\ Init
    /\ exchange = [c \in Conns |-> "none"]
    /\ unlogged = {}

To(c, stage) == exchange' = [exchange EXCEPT ![c] = stage]

(* A step of the server alone.                                                *)
ServerStep ==
    /\ \/ Arm \/ SignalCaught \/ Drain \/ Stop
       \/ \E c \in Conns :
             \/ Accept(c) \/ StartServing(c) \/ HandshakeFails(c) \/ CloseIdle(c)
             \/ PartArrives(c) \/ Open(c) \/ Leave(c)
    /\ UNCHANGED <<exchange, unlogged>>

(* Gateway::handle begins, with one of the health endpoints or a request that *)
(* gets a line.                                                               *)
Begin(c) ==
    /\ RequestArrives(c)
    /\ \E stage \in {"health", "handling"} : To(c, stage)
    /\ UNCHANGED unlogged

(* It returns a response: from here on the line is in the body.               *)
Answer(c) ==
    /\ Running
    /\ exchange[c] = "handling"
    /\ To(c, "answering")
    /\ UNCHANGED <<vars, unlogged>>

(* The body is sent, or it has failed and the connection is closed: hyper     *)
(* drops it, and the line is written.                                         *)
Finish(c) ==
    /\ exchange[c] \in {"health", "answering"}
    /\ ResponseSent(c)
    /\ To(c, "none")
    /\ UNCHANGED unlogged

(* The client is gone.  A handler that is dropped takes its entry along.      *)
CutShort(c) ==
    /\ TaskEnds(c)
    /\ To(c, "none")
    /\ unlogged' = unlogged \cup {d \in {c} : exchange[d] = "handling"}

(* The end of the process drops nothing in order.                             *)
Killed ==
    /\ SignalKills
    /\ exchange' = [c \in Conns |-> "none"]
    /\ unlogged' = unlogged \cup {c \in Conns : exchange[c] \in {"handling", "answering"}}

GatewayNext ==
    \/ ServerStep \/ Killed
    \/ \E c \in Conns : Begin(c) \/ Answer(c) \/ Finish(c) \/ CutShort(c)

(* That of the server, whose response takes two steps here.                   *)
GatewayFairness ==
    /\ WF_gatewayVars(Drain /\ UNCHANGED <<exchange, unlogged>>)
    /\ WF_gatewayVars(Stop /\ UNCHANGED <<exchange, unlogged>>)
    /\ \A c \in Conns :
          /\ WF_gatewayVars(conn[c] = "waiting" /\ CloseIdle(c)
                               /\ UNCHANGED <<exchange, unlogged>>)
          /\ WF_gatewayVars((c \in patient \/ ~Tls) /\ StartServing(c)
                               /\ UNCHANGED <<exchange, unlogged>>)
          /\ WF_gatewayVars(c \in patient /\ conn[c] = "partial" /\ Begin(c))
          /\ WF_gatewayVars(c \in patient /\ (Answer(c) \/ Finish(c)))
          /\ WF_gatewayVars(CutShort(c))

GatewaySpec == GatewayInit /\ [][GatewayNext]_gatewayVars /\ GatewayFairness

-----------------------------------------------------------------------------
(* An exchange is under way exactly on the connections with a request in      *)
(* flight: the shutdown leaves no handler without its connection, and closes  *)
(* none with a response still to come (server.rs serve, gateway.rs handle).   *)
ExchangeIsServed ==
    /\ exchange \in [Conns -> {"none", "health", "handling", "answering"}]
    /\ \A c \in Conns : exchange[c] # "none" <=> conn[c] = "busy"

(* A graceful shutdown loses no line: when the process stops every exchange   *)
(* is over, and one without a line had a client that left before the answer,  *)
(* or was cut by a signal that came before the handlers were in place         *)
(* (server.rs run, observe.rs MeteredBody::drop).                             *)
NoLineLost ==
    /\ listener = "stopped" => \A c \in Conns : exchange[c] = "none"
    /\ \A c \in unlogged : peer[c] = "gone" \/ listener = "killed"
=============================================================================
