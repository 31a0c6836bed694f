------------------------------- MODULE Server -------------------------------
(* The accept loop, the connections and the graceful shutdown (server.rs).    *)
(*                                                                            *)
(* run() accepts connections until a signal arrives, takes a watcher for each *)
(* one and spawns a task that does the TLS handshake, if there is one, and    *)
(* then serves the connection under the watcher.  After the signal it waits   *)
(* until the last watcher is dropped.  The handlers of the signals are        *)
(* installed when the loop first looks for one, which may be after the first  *)
(* connections: select! polls its branches in random order.  A request on a   *)
(* connection is an exchange, which Exchange.tla models; here it is only in   *)
(* flight or not.                                                             *)
EXTENDS Naturals, FiniteSets

CONSTANTS
    Conns,  \* connections that clients may open
    Tls     \* TRUE when [server.tls] is configured

ASSUME TlsAssumption == Tls \in BOOLEAN

VARIABLES
    handler,   \* of the signals: "default" action, "armed", or "fired"
    listener,  \* "accepting", "draining" after the signal, "stopped" or "killed"
    conn,      \* where each connection is
    watchers,  \* connections whose watcher is alive
    peer,      \* "here" or "gone": the client of each connection
    patient,   \* clients that do what is expected of them sooner or later
    accepted,  \* auxiliary: connections the loop has accepted
    owed       \* auxiliary: connections with a request that has no response

vars == <<handler, listener, conn, watchers, peer, patient, accepted, owed>>

(* Not there; in the kernel's queue; accepted, the task not yet run or in the *)
(* handshake; served, between two requests; served, part of a request has     *)
(* come; served, a request in flight; closed.                                 *)
Places == {"none", "backlog", "handshake", "waiting", "partial", "busy", "closed"}

Served == {"waiting", "partial", "busy"}

Init ==
    /\ handler = "default"
    /\ listener = "accepting"
    /\ conn = [c \in Conns |-> "none"]
    /\ watchers = {}
    /\ peer = [c \in Conns |-> "here"]
    /\ patient \in SUBSET Conns
    /\ accepted = {}
    /\ owed = {}

-----------------------------------------------------------------------------
(* The accept loop.                                                           *)

(* Slip: the watcher is taken in the task, once the handshake is done.        *)
WatchersAfterAcceptLate(c) == watchers

WatchersAfterAccept(c) == watchers \cup {c}

(* The watcher is taken in the loop, before the task is spawned.              *)
Accept(c) ==
    /\ listener = "accepting"
    /\ conn[c] = "backlog"
    /\ conn' = [conn EXCEPT ![c] = "handshake"]
    /\ watchers' = WatchersAfterAccept(c)
    /\ accepted' = accepted \cup {c}
    /\ UNCHANGED <<handler, listener, peer, patient, owed>>

(* shutdown_signal is polled for the first time.                              *)
Arm ==
    /\ listener = "accepting"
    /\ handler = "default"
    /\ handler' = "armed"
    /\ UNCHANGED <<listener, conn, watchers, peer, patient, accepted, owed>>

(* A signal before that ends the process on the spot.                         *)
SignalKills ==
    /\ listener = "accepting"
    /\ handler = "default"
    /\ listener' = "killed"
    /\ conn' = [c \in Conns |-> IF c \in accepted THEN "closed" ELSE conn[c]]
    /\ watchers' = {}
    /\ UNCHANGED <<handler, peer, patient, accepted, owed>>

(* Any further one finds the handlers in place and nobody who waits for it.   *)
SignalCaught ==
    /\ listener = "accepting"
    /\ handler = "armed"
    /\ handler' = "fired"
    /\ UNCHANGED <<listener, conn, watchers, peer, patient, accepted, owed>>

(* Slip: the end of the loop throws away the connections in the queue.        *)
DrainResets ==
    /\ listener = "accepting"
    /\ handler = "fired"
    /\ listener' = "draining"
    /\ conn' = [c \in Conns |-> IF conn[c] = "backlog" THEN "closed" ELSE conn[c]]
    /\ UNCHANGED <<handler, watchers, peer, patient, accepted, owed>>

(* The loop ends, perhaps some connections later.  The queue is left alone:   *)
(* the listening socket lives as long as run().                               *)
Drain ==
    /\ listener = "accepting"
    /\ handler = "fired"
    /\ listener' = "draining"
    /\ UNCHANGED <<handler, conn, watchers, peer, patient, accepted, owed>>

(* Slip: the end of run() does not wait for the connections.                  *)
StopAtOnce ==
    /\ listener = "draining"
    /\ listener' = "stopped"
    /\ UNCHANGED <<handler, conn, watchers, peer, patient, accepted, owed>>

(* GracefulShutdown::shutdown returns; the process ends, and with it whatever *)
(* tasks there are left.                                                      *)
Stop ==
    /\ listener = "draining"
    /\ watchers = {}
    /\ listener' = "stopped"
    /\ UNCHANGED <<handler, conn, watchers, peer, patient, accepted, owed>>

-----------------------------------------------------------------------------
(* The task of a connection.  It ends by dropping its watcher.                *)

Running == listener \in {"accepting", "draining"}

Close(c) ==
    /\ conn' = [conn EXCEPT ![c] = "closed"]
    /\ watchers' = watchers \ {c}

(* The connection is ready to be served: after the handshake, or at once.     *)
StartServing(c) ==
    /\ Running
    /\ conn[c] = "handshake"
    /\ conn' = [conn EXCEPT ![c] = "waiting"]
    /\ UNCHANGED <<handler, listener, watchers, peer, patient, accepted, owed>>

HandshakeFails(c) ==
    /\ Running
    /\ Tls
    /\ conn[c] = "handshake"
    /\ Close(c)
    /\ UNCHANGED <<handler, listener, peer, patient, accepted, owed>>

(* Slip: a connection is closed whatever is going on.                         *)
ClosableAlways == Served

Closable == {"waiting", "partial"}

(* hyper, once the watcher has been told: a connection without a request in   *)
(* flight is closed.                                                          *)
CloseIdle(c) ==
    /\ listener = "draining"
    /\ conn[c] \in Closable
    /\ Close(c)
    /\ UNCHANGED <<handler, listener, peer, patient, accepted, owed>>

(* Part of a request, or all of it.                                           *)
PartArrives(c) ==
    /\ Running
    /\ conn[c] = "waiting"
    /\ peer[c] = "here"
    /\ conn' = [conn EXCEPT ![c] = "partial"]
    /\ UNCHANGED <<handler, listener, watchers, peer, patient, accepted, owed>>

RequestArrives(c) ==
    /\ Running
    /\ conn[c] \in {"waiting", "partial"}
    /\ peer[c] = "here"
    /\ conn' = [conn EXCEPT ![c] = "busy"]
    /\ owed' = owed \cup {c}
    /\ UNCHANGED <<handler, listener, watchers, peer, patient, accepted>>

(* Slip: keep-alive goes on although the gateway is draining.                 *)
KeepsAliveAlways == TRUE

KeepsAlive == listener = "accepting"

(* The response is complete.  The connection is kept for the next request,    *)
(* unless the gateway is draining or either side has asked to close it.       *)
ResponseSent(c) ==
    /\ Running
    /\ conn[c] = "busy"
    /\ \/ /\ KeepsAlive
          /\ conn' = [conn EXCEPT ![c] = "waiting"]
          /\ UNCHANGED watchers
       \/ Close(c)
    /\ owed' = owed \ {c}
    /\ UNCHANGED <<handler, listener, peer, patient, accepted>>

(* The client is gone: the task finds out and ends.                           *)
TaskEnds(c) ==
    /\ Running
    /\ peer[c] = "gone"
    /\ conn[c] \in {"handshake"} \cup Served
    /\ Close(c)
    /\ UNCHANGED <<handler, listener, peer, patient, accepted, owed>>

-----------------------------------------------------------------------------
(* The clients.  The kernel queues connections as long as the process lives.  *)

Open(c) ==
    /\ Running
    /\ conn[c] = "none"
    /\ conn' = [conn EXCEPT ![c] = "backlog"]
    /\ UNCHANGED <<handler, listener, watchers, peer, patient, accepted, owed>>

Leave(c) ==
    /\ peer[c] = "here"
    /\ conn[c] \notin {"none", "closed"}
    /\ peer' = [peer EXCEPT ![c] = "gone"]
    /\ UNCHANGED <<handler, listener, conn, watchers, patient, accepted, owed>>

Next ==
    \/ Arm \/ SignalKills \/ SignalCaught \/ Drain \/ Stop
    \/ \E c \in Conns :
          \/ Accept(c) \/ StartServing(c) \/ HandshakeFails(c) \/ CloseIdle(c)
          \/ PartArrives(c) \/ RequestArrives(c) \/ ResponseSent(c) \/ TaskEnds(c)
          \/ Open(c) \/ Leave(c)

(* The runtime runs its tasks, the loop does not accept for ever without      *)
(* looking at the signal (select! picks at random in the code; here the       *)
(* connections are finitely many), and hyper closes a connection on which no  *)
(* request has begun.  A handshake, a request and a response are completed    *)
(* only with a patient client (and its upstream): none of them has a timeout. *)
(* Without TLS a task starts to serve on its own.                             *)
Fairness ==
    /\ WF_vars(Drain) /\ WF_vars(Stop)
    /\ \A c \in Conns :
          /\ WF_vars(conn[c] = "waiting" /\ CloseIdle(c))
          /\ WF_vars(TaskEnds(c))
          /\ WF_vars((c \in patient \/ ~Tls) /\ StartServing(c))
          /\ WF_vars(c \in patient /\ conn[c] = "partial" /\ RequestArrives(c))
          /\ WF_vars(c \in patient /\ ResponseSent(c))

Spec == Init /\ [][Next]_vars /\ Fairness

-----------------------------------------------------------------------------
(* The type invariant: and only accepted connections have a watcher or a      *)
(* place beyond the kernel's queue (server.rs run).                           *)
TypeOK ==
    /\ handler \in {"default", "armed", "fired"}
    /\ listener \in {"accepting", "draining", "stopped", "killed"}
    /\ conn \in [Conns -> Places]
    /\ peer \in [Conns -> {"here", "gone"}]
    /\ patient \subseteq Conns
    /\ accepted \subseteq Conns
    /\ owed \subseteq accepted
    /\ watchers \subseteq accepted
    /\ \A c \in Conns : conn[c] \in {"none", "backlog"} <=> c \notin accepted

(* Between accepting a connection and its end its watcher is alive, also      *)
(* while the handshake is under way: a signal in between does not lose it     *)
(* (the watcher is made in run and moved into the task).                      *)
AcceptedIsWatched ==
    \A c \in Conns : c \in watchers <=> conn[c] \in {"handshake"} \cup Served

(* The process ends only when no connection it accepted is served any more:   *)
(* the shutdown cuts off neither a request nor a handshake                    *)
(* (graceful.shutdown().await at the end of run).                             *)
StoppedMeansDrained ==
    listener = "stopped" => \A c \in accepted : conn[c] = "closed"

(* A request that has arrived gets its response unless the client leaves or a *)
(* signal kills the process before the handlers are in place: the gateway     *)
(* never closes a connection under a request, draining or not (serve, and the *)
(* graceful shutdown of the library).                                         *)
FinishedOrLeft ==
    \A c \in owed : conn[c] = "busy" \/ peer[c] = "gone" \/ listener = "killed"

(* A shutdown comes to its end if every client does its part, however many    *)
(* requests were in flight when the signal was caught (run, shutdown_signal). *)
ShutdownCompletes ==
    handler = "fired" /\ patient = Conns ~> listener = "stopped"
=============================================================================
