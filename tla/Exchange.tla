------------------------------ MODULE Exchange ------------------------------
(* One request on its way through the gateway: Gateway::handle and dispatch   *)
(* (gateway.rs), the body limit and the forwarding (proxy.rs), the metered    *)
(* response body and its log line (observe.rs).                               *)
(*                                                                            *)
(* The exchange is a task that is suspended at three places: while it reads   *)
(* the request body, while it waits for the upstream to answer, and while the *)
(* response body is polled.  Everything between two of them is one action.    *)
(* The client and the upstream are the environment: the client may disconnect *)
(* at any time, the upstream may answer late, never, or break off.            *)
EXTENDS Dispatch

CONSTANTS
    Configs,    \* the configurations considered
    Requests,   \* the requests: [method, path, headers, chunked, body]
    Answers,    \* what upstreams answer: [status, headers, length]
    Frames,     \* data frames of response bodies: [size, report]
    BodySizes,  \* sizes a request body may get when it is serialised again
    MaxStream   \* bound: units of data in a response body without a length

Methods == {"GET", "HEAD", "POST"}
Errors == {"unauthorized", "too_large", "bad_body", "no_model",
           "unknown_model", "bad_gateway", "internal"}

ASSUME ConfigAssumption ==
    \A c \in Configs :
       /\ ValidConfig(c)
       /\ c.maxBody \in Nat
       /\ c.default \in {None} \cup Text
       /\ DOMAIN c.upstreams \subseteq Text
       /\ DOMAIN c.auth.keys \subseteq Text
       /\ \A key \in DOMAIN c.auth.keys : c.auth.keys[key] \in STRING
       /\ c.auth.enabled \in BOOLEAN

ASSUME RequestAssumption ==
    \A r \in Requests :
       /\ r.method \in Methods
       /\ r.body.size \in Nat
       /\ r.body.fields \in Seq(Range(r.body.fields))
       /\ \A name \in DOMAIN r.headers :
             r.headers[name] = NotText \/ r.headers[name] \in Text

ASSUME AnswerAssumption ==
    \A a \in Answers : a.status \in 100..599 /\ a.length \in {None} \cup Nat

ASSUME FrameAssumption ==
    \A f \in Frames :
       /\ f.size \in Nat \ {0}
       /\ f.report # None =>
             TokenUsage(f.report) # None /\ DOMAIN f.report \subseteq Counters

ASSUME BoundAssumption == BodySizes \subseteq Nat \ {0} /\ MaxStream \in Nat

ASSUME NoneAssumption == None \notin Errors /\ None \notin Text

(* A body the gateway makes itself is one frame.                              *)
LocalLength == 1

VARIABLES
    config,     \* chosen at startup, never changed
    request,    \* the request, as the client sent it
    client,     \* "here", or "gone" once it has disconnected
    phase,      \* where the task is
    entry,      \* RequestLog
    buffered,   \* bytes of the request body in the buffer
    forwarded,  \* the request sent upstream, None before that
    reply,      \* status and headers of the response, None before that
    source,     \* the response body behind the meter
    meter,      \* MeteredBody and the observer in it
    lines       \* the log lines written about this request

vars == <<config, request, client, phase, entry, buffered, forwarded, reply,
          source, meter, lines>>

Phases == {"idle", "reading", "forwarding", "streaming", "served", "done", "lost"}

NewEntry(req) ==
    [id |-> RequestId(req.headers), caller |-> None, model |-> None,
     upstream |-> None, status |-> 200, streaming |-> FALSE, requestBytes |-> 0,
     probe |-> NoProbe, usage |-> None, error |-> None]

NewSource(length) == [length |-> length, given |-> 0, state |-> "open", reports |-> <<>>]

(* The size is remembered because the end of a sized body is never polled.    *)
NewMeter(length, observing) ==
    [expected |-> length, bytes |-> 0, finished |-> FALSE,
     observing |-> observing, usage |-> None]

(* Slip: the announced size is forgotten.                                     *)
IsCompleteWhenPolled(m) == m.finished

IsComplete(m) == m.finished \/ m.expected = m.bytes

Init ==
    /\ config \in Configs
    /\ request \in Requests
    /\ client = "here"
    /\ phase = "idle"
    /\ entry = NewEntry(request)
    /\ buffered = 0
    /\ forwarded = None
    /\ reply = None
    /\ source = NewSource(0)
    /\ meter = NewMeter(0, FALSE)
    /\ lines = <<>>

-----------------------------------------------------------------------------
(* Answering: the head goes out and the body is wrapped in the meter.         *)

(* Slip: the status stays that of a fresh entry.                              *)
AnsweredUnset(e, answer) == [e EXCEPT !.streaming = IsStreaming(answer.headers)]

Answered(e, answer) ==
    [e EXCEPT !.status = answer.status, !.streaming = IsStreaming(answer.headers)]

(* Slip: the upstream's own ID is kept.                                       *)
ReplyHeadersKept(e, answer) ==
    IF "x-request-id" \in DOMAIN answer.headers THEN answer.headers
    ELSE Put(answer.headers, "x-request-id", e.id)

ReplyHeaders(e, answer) == Put(answer.headers, "x-request-id", e.id)

(* The end of Gateway::handle, for the entry e and the answer of dispatch.    *)
Respond(e, answer) ==
    /\ phase' = "streaming"
    /\ entry' = Answered(e, answer)
    /\ reply' = [status |-> answer.status, headers |-> ReplyHeaders(e, answer)]
    /\ source' = NewSource(answer.length)
    /\ meter' = NewMeter(answer.length, Observed(answer.status))

LocalAnswer(status) ==
    [status |-> status, length |-> LocalLength,
     headers |-> [n \in {"content-type"} |-> <<"application/json">>]]

Fail(e, error) == Respond([e EXCEPT !.error = error], LocalAnswer(StatusOf(error)))

-----------------------------------------------------------------------------
(* Before the request body is read.                                           *)

HealthPath(req) ==
    /\ req.method \in {"GET", "HEAD"}
    /\ req.path \in {<<"healthz">>, <<"readyz">>}

Unmoved == UNCHANGED <<config, request, client, lines>>

(* No authentication, no log line and no meter; Health.tla says which status. *)
ServeHealth ==
    /\ phase = "idle"
    /\ HealthPath(request)
    /\ phase' = "served"
    /\ Unmoved
    /\ UNCHANGED <<entry, buffered, forwarded, reply, source, meter>>

Unauthorized ==
    /\ phase = "idle"
    /\ ~HealthPath(request)
    /\ ~Authentic(config.auth, request.headers)
    /\ Fail(entry, "unauthorized")
    /\ Unmoved
    /\ UNCHANGED <<buffered, forwarded>>

(* The entry of an authenticated request, about to be dispatched.             *)
Admitted == [entry EXCEPT !.caller = Caller(config.auth, request.headers)]

Dispatched ==
    /\ phase = "idle"
    /\ ~HealthPath(request)
    /\ Authentic(config.auth, request.headers)

IsModelsPath(req) == req.method = "GET" /\ req.path = <<"v1", "models">>

ServeModels ==
    /\ Dispatched
    /\ IsModelsPath(request)
    /\ Respond(Admitted, LocalAnswer(200))
    /\ Unmoved
    /\ UNCHANGED <<buffered, forwarded>>

DeclaredTooLarge ==
    /\ Dispatched
    /\ ~IsModelsPath(request)
    /\ ~request.chunked /\ request.body.size > config.maxBody
    /\ Fail(Admitted, "too_large")
    /\ Unmoved
    /\ UNCHANGED <<buffered, forwarded>>

(* Slip: the body is read before the key is looked at.                        *)
BeginReadUnasked ==
    /\ phase = "idle"
    /\ ~HealthPath(request) /\ ~IsModelsPath(request)
    /\ phase' = "reading"
    /\ entry' = entry
    /\ Unmoved
    /\ UNCHANGED <<buffered, forwarded, reply, source, meter>>

BeginRead ==
    /\ Dispatched
    /\ ~IsModelsPath(request)
    /\ request.chunked \/ request.body.size <= config.maxBody
    /\ phase' = "reading"
    /\ entry' = Admitted
    /\ Unmoved
    /\ UNCHANGED <<buffered, forwarded, reply, source, meter>>

-----------------------------------------------------------------------------
(* Reading the request body.                                                  *)

(* Slip: the limit is compared with what the buffer held before the frame.    *)
ReadFrameLate ==
    /\ phase = "reading"
    /\ \E size \in 1..(request.body.size - buffered) :
          /\ buffered <= config.maxBody
          /\ buffered' = buffered + size
    /\ Unmoved
    /\ UNCHANGED <<phase, entry, forwarded, reply, source, meter>>

ReadFrame ==
    /\ phase = "reading"
    /\ \E size \in 1..(request.body.size - buffered) :
          /\ buffered + size <= config.maxBody
          /\ buffered' = buffered + size
    /\ Unmoved
    /\ UNCHANGED <<phase, entry, forwarded, reply, source, meter>>

(* Only a body without a declared length gets here.                           *)
OverLimit ==
    /\ phase = "reading"
    /\ \E size \in 1..(request.body.size - buffered) : buffered + size > config.maxBody
    /\ Fail(entry, "too_large")
    /\ Unmoved
    /\ UNCHANGED <<buffered, forwarded>>

(* A broken chunk, or the connection ends before the body does.               *)
ReadFails ==
    /\ phase = "reading"
    /\ request.chunked \/ (client = "gone" /\ buffered < request.body.size)
    /\ Fail(entry, "bad_body")
    /\ Unmoved
    /\ UNCHANGED <<buffered, forwarded>>

(* The whole body is here: what follows up to the next await is one step.     *)
BodyRead == phase = "reading" /\ buffered = request.body.size

(* The entry once the body has been looked at.                                *)
Probed == [entry EXCEPT !.requestBytes = buffered, !.probe = Probe(request)]

Model == ResolveModel(config, request)

NoModel ==
    /\ BodyRead
    /\ Model = None
    /\ Fail(Probed, "no_model")
    /\ Unmoved
    /\ UNCHANGED <<buffered, forwarded>>

UnknownModel ==
    /\ BodyRead
    /\ Model # None /\ Model \notin DOMAIN config.upstreams
    /\ Fail(Probed, "unknown_model")
    /\ Unmoved
    /\ UNCHANGED <<buffered, forwarded>>

Routed == BodyRead /\ Model \in DOMAIN config.upstreams

RoutedEntry == [Probed EXCEPT !.model = Model, !.upstream = Model]

Upstream == config.upstreams[Model]

(* The key of the upstream does not fit into a header.                        *)
UnprintableKey ==
    /\ Routed
    /\ Upstream.apiKey = NotText
    /\ Fail(RoutedEntry, "internal")
    /\ Unmoved
    /\ UNCHANGED <<buffered, forwarded>>

ForwardRequest ==
    /\ Routed
    /\ Upstream.apiKey # NotText
    /\ \E size \in BodySizes :
          LET body == ForwardedBody(Upstream, request, size)
          IN forwarded' = [method  |-> request.method,
                           uri     |-> TargetUri(Upstream, request),
                           headers |-> ForwardedHeaders(Upstream, request, body.size),
                           body    |-> body]
    /\ phase' = "forwarding"
    /\ entry' = RoutedEntry
    /\ Unmoved
    /\ UNCHANGED <<buffered, reply, source, meter>>

-----------------------------------------------------------------------------
(* Waiting for the upstream.  There is no timeout.                            *)

(* The length hyper gives to the body of an answer.                           *)
AnswerLength(answer) ==
    IF request.method = "HEAD" \/ answer.status \in {204, 304} THEN 0
    ELSE answer.length

UpstreamAnswers ==
    /\ phase = "forwarding"
    /\ \E answer \in Answers :
          Respond(entry, [status  |-> answer.status,
                          headers |-> CopyHeaders(answer.headers, ResponseStrip),
                          length  |-> AnswerLength(answer)])
    /\ Unmoved
    /\ UNCHANGED <<buffered, forwarded>>

UpstreamFails ==
    /\ phase = "forwarding"
    /\ Fail(entry, "bad_gateway")
    /\ Unmoved
    /\ UNCHANGED <<buffered, forwarded>>

-----------------------------------------------------------------------------
(* The response body, polled by hyper as fast as the client takes it.         *)

FromUpstream == entry.upstream # None /\ entry.error = None

(* hyper does not poll the body of an answer to HEAD, nor a body that has     *)
(* delivered the bytes it announced.                                          *)
Polled ==
    /\ phase = "streaming"
    /\ request.method # "HEAD"
    /\ source.state = "open"
    /\ source.given # source.length

(* What is left of the body, as far as the model follows it.                  *)
Capacity == IF source.length = None THEN MaxStream ELSE source.length

Observe(m, frame) ==
    IF m.observing /\ frame.report # None
    THEN MergeUsage(m.usage, TokenUsage(frame.report)) ELSE m.usage

PollData ==
    /\ Polled
    /\ \E frame \in Frames :
          /\ source.given + frame.size <= Capacity
          /\ frame.report # None => FromUpstream
          /\ source' = [source EXCEPT !.given = @ + frame.size,
                                      !.reports = Append(@, frame.report)]
          /\ meter' = [meter EXCEPT !.bytes = @ + frame.size,
                                    !.usage = Observe(meter, frame)]
    /\ Unmoved
    /\ UNCHANGED <<phase, entry, buffered, forwarded, reply>>

(* Slip: the end of the stream writes a line, and so does dropping the body.  *)
PollEndReports ==
    /\ Polled
    /\ source.length = None
    /\ source' = [source EXCEPT !.state = "ended"]
    /\ meter' = [meter EXCEPT !.finished = TRUE]
    /\ lines' = <<[entry |-> entry, bytes |-> meter.bytes,
                   aborted |-> FALSE, level |-> "info"]>>
    /\ UNCHANGED <<config, request, client, phase, entry, buffered, forwarded, reply>>

(* Only a body without an announced length is polled to its end.              *)
PollEnd ==
    /\ Polled
    /\ source.length = None
    /\ source' = [source EXCEPT !.state = "ended"]
    /\ meter' = [meter EXCEPT !.finished = TRUE]
    /\ Unmoved
    /\ UNCHANGED <<phase, entry, buffered, forwarded, reply>>

(* Slip: an error is taken for the end.                                       *)
PollErrorEnds ==
    /\ Polled
    /\ FromUpstream
    /\ source' = [source EXCEPT !.state = "broken"]
    /\ meter' = [meter EXCEPT !.finished = TRUE]
    /\ Unmoved
    /\ UNCHANGED <<phase, entry, buffered, forwarded, reply>>

(* The upstream breaks off: its body yields an error.                         *)
PollError ==
    /\ Polled
    /\ FromUpstream
    /\ source' = [source EXCEPT !.state = "broken"]
    /\ Unmoved
    /\ UNCHANGED <<phase, entry, buffered, forwarded, reply, meter>>

(* RequestLog::finish.                                                        *)
LineOf(e, bytes, aborted) ==
    [entry   |-> e,
     bytes   |-> bytes,
     aborted |-> aborted,
     level   |-> IF e.error # None \/ IsError(e.status) THEN "warn" ELSE "info"]

(* hyper lets go of the body: it is not to be sent, it is sent, it failed, or *)
(* there is nobody left to send it to.  Dropping it writes the line.          *)
(* Slip: the body waits for an upstream although nobody waits for the body.   *)
UnwantedWhenRead ==
    \/ request.method = "HEAD"
    \/ source.state # "open"
    \/ source.given = source.length

Unwanted ==
    \/ request.method = "HEAD"
    \/ source.state # "open"
    \/ source.given = source.length
    \/ client = "gone"

DropBody ==
    /\ phase = "streaming"
    /\ Unwanted
    /\ phase' = "done"
    /\ entry' = [entry EXCEPT !.usage = meter.usage]
    /\ lines' = Append(lines, LineOf(entry', meter.bytes, ~IsComplete(meter)))
    /\ UNCHANGED <<config, request, client, buffered, forwarded, reply, source, meter>>

-----------------------------------------------------------------------------
(* The client.                                                                *)

Disconnect ==
    /\ phase \in {"idle", "reading", "forwarding", "streaming"}
    /\ client = "here"
    /\ client' = "gone"
    /\ UNCHANGED <<config, request, phase, entry, buffered, forwarded, reply,
                   source, meter, lines>>

(* hyper notices that the connection is closed while the handler waits for    *)
(* the upstream, and drops the handler.                                       *)
Abandon ==
    /\ phase = "forwarding"
    /\ client = "gone"
    /\ phase' = "lost"
    /\ Unmoved
    /\ UNCHANGED <<entry, buffered, forwarded, reply, source, meter>>

-----------------------------------------------------------------------------
(* Steps of the task that need nobody but the task.                           *)
Decide ==
    \/ ServeHealth \/ Unauthorized \/ ServeModels \/ DeclaredTooLarge \/ BeginRead
    \/ NoModel \/ UnknownModel \/ UnprintableKey \/ ForwardRequest

Next ==
    \/ Decide
    \/ ReadFrame \/ OverLimit \/ ReadFails
    \/ UpstreamAnswers \/ UpstreamFails
    \/ PollData \/ PollEnd \/ PollError \/ DropBody
    \/ Disconnect \/ Abandon

(* The executor runs a task that can proceed, and hyper notices a connection  *)
(* that was closed.  Nothing is assumed of the client that stays or of the    *)
(* upstream: neither has to send anything.                                    *)
Fairness ==
    /\ WF_vars(Decide)
    /\ WF_vars(DropBody)
    /\ WF_vars(Abandon)
    /\ WF_vars(client = "gone" /\ ReadFails)

Spec == Init /\ [][Next]_vars /\ Fairness

-----------------------------------------------------------------------------
(* Types.                                                                     *)

Optional(S) == {None} \cup S

Reports == {frame.report : frame \in Frames}
Usages == {None} \cup {TokenUsage(report) : report \in Reports \ {None}}

Entries ==
    [id : {RequestId(request.headers)}, caller : Optional(STRING),
     model : Optional(Text), upstream : Optional(Text), status : 100..599,
     streaming : BOOLEAN, requestBytes : Nat, probe : {NoProbe, Probe(request)},
     usage : Usages, error : Optional(Errors)]

Sources ==
    [length : Optional(Nat), given : Nat, state : {"open", "ended", "broken"},
     reports : Seq(Reports)]

Meters ==
    [expected : Optional(Nat), bytes : Nat, finished : BOOLEAN,
     observing : BOOLEAN, usage : Usages]

Lines ==
    [entry : Entries, bytes : Nat, aborted : BOOLEAN, level : {"info", "warn"}]

(* The type invariant: what each variable holds; the ID of the entry is the   *)
(* one taken from the request, and the status on it is that of the reply      *)
(* (observe.rs RequestLog and MeteredBody, gateway.rs handle).                *)
TypeOK ==
    /\ config \in Configs
    /\ request \in Requests
    /\ client \in {"here", "gone"}
    /\ phase \in Phases
    /\ entry \in Entries
    /\ buffered \in 0..request.body.size
    /\ forwarded # None => Model \in DOMAIN config.upstreams
    /\ reply # None => reply.status = entry.status
    /\ source \in Sources
    /\ meter \in Meters
    /\ lines \in Seq(Lines)

-----------------------------------------------------------------------------
(* The log line and the response body.                                        *)

(* The upstream or the gateway has delivered its whole body.                  *)
Delivered == source.state = "ended" \/ source.given = source.length

(* A line that does not say `aborted` is about a body that was handed over to *)
(* its last byte, although the end of a sized body is never polled            *)
(* (MeteredBody::is_complete).                                                *)
CompleteMeansDelivered ==
    \A i \in DOMAIN lines : ~lines[i].aborted => Delivered

(* A line says `aborted` only when the client left, the upstream broke off,   *)
(* or the body was one the gateway made for a HEAD request, which is never    *)
(* sent (MeteredBody::drop).                                                  *)
AbortedHasCause ==
    \A i \in DOMAIN lines : lines[i].aborted =>
       \/ client = "gone"
       \/ source.state = "broken"
       \/ request.method = "HEAD" /\ ~FromUpstream

(* The counters of a line are the most complete the upstream reported, the    *)
(* latest of these, and none for an error (usage.rs merge_usage, and the sink *)
(* that outlives the observer in Gateway::handle).                            *)
UsageIsMostComplete ==
    \A i \in DOMAIN lines :
       IF Observed(reply.status) THEN MostComplete(lines[i].entry.usage, source.reports)
       ELSE lines[i].entry.usage = None

(* What makes the two above inductive: the meter tells exactly what the body  *)
(* behind it has done, no line is there before the last step and exactly one  *)
(* after it, and the answer of an upstream to HEAD has no body.               *)
Unanswered == {"idle", "reading", "forwarding", "served", "lost"}

BodyInv ==
    /\ meter.bytes = source.given
    /\ meter.expected = source.length
    /\ meter.finished <=> source.state = "ended"
    /\ request.method = "HEAD" => source.given = 0
    /\ phase \in Unanswered => source.given = 0 /\ entry.error = None
    /\ phase \in {"streaming", "done"} /\ request.method = "HEAD" /\ FromUpstream =>
          source.length = 0
    /\ phase # "done" => lines = <<>>
    /\ phase = "done" =>
          /\ Unwanted
          /\ lines = <<LineOf(entry, meter.bytes, ~IsComplete(meter))>>

(* What makes the counters of a line those of the body: the meter observes a  *)
(* body exactly when its status calls for it, and holds at every moment what  *)
(* the frames so far amount to.                                               *)
CountersInv ==
    /\ phase \in {"streaming", "done"} => meter.observing = Observed(reply.status)
    /\ IF meter.observing THEN MostComplete(meter.usage, source.reports)
       ELSE meter.usage = None
    /\ phase = "done" => entry.usage = meter.usage

-----------------------------------------------------------------------------
(* Authentication, routing and what the upstream receives.                    *)

(* With authentication on, nothing is read, forwarded or answered but a 401   *)
(* unless the request carries a key, and the caller on the line is the owner  *)
(* of a key that it carries (auth.rs, Gateway::dispatch).                     *)
KeyBeforeWork ==
    config.auth.enabled /\ (buffered > 0 \/ forwarded # None
                            \/ (reply # None /\ reply.status # 401)) =>
       \E name \in DOMAIN request.headers \cap {"authorization", "x-api-key"} :
          \E key \in DOMAIN config.auth.keys :
             /\ request.headers[name] \in {key, <<"Bearer">> \o key}
             /\ entry.caller = config.auth.keys[key]

(* The key of the caller never goes upstream: `Authorization` is the key of   *)
(* the upstream the request is for, or absent (proxy.rs build_request).       *)
CredentialsReplaced ==
    forwarded # None =>
       LET own == config.upstreams[entry.upstream].apiKey
           sent == forwarded.headers
       IN /\ "x-api-key" \notin DOMAIN sent
          /\ "authorization" \in DOMAIN sent <=> own # None
          /\ own # None => sent["authorization"] = <<"Bearer">> \o own

(* The upstream is addressed under the name it serves the model as: the       *)
(* configured `upstream_model`, also when the header chose the route and the  *)
(* body names another model; every other field keeps its value, also when a   *)
(* key is there twice (proxy.rs forward, json_model.rs).                      *)
ServedNameForwarded ==
    forwarded # None =>
       LET served == config.upstreams[entry.upstream].upstreamModel
           sent == forwarded.body
       IN /\ \A name \in {"thinking", "max_tokens", "n"} :
                Field(sent, name) = Field(request.body, name)
          /\ Field(sent, "model") =
                IF served \in {None, BodyModel(request)}
                      \/ Field(request.body, "model") = None
                THEN Field(request.body, "model") ELSE served
          /\ forwarded.headers["content-length"] = sent.size

(* The effort on the line is that of the usable key that takes precedence,    *)
(* whatever the order of the keys in the body, and the first of that key      *)
(* (usage.rs EffortVisitor).                                                  *)
EffortFollowsPrecedence ==
    entry.probe # NoProbe =>
       LET body == Members(request.body)
           rank(i) == EffortRank(body[i][1])
           usable == {i \in DOMAIN body : rank(i) # 0 /\ UsableText(body[i])}
       IN IF usable = {} THEN entry.probe.effort = None
          ELSE \E i \in usable :
                  /\ entry.probe.effort = body[i][2]
                  /\ \A j \in usable : rank(i) <= rank(j) /\ (rank(i) = rank(j) => i <= j)

(* A request goes to the upstream it names, in the header before the body; to *)
(* the default upstream only when it names none; and the line names the       *)
(* upstream it went to (Gateway::dispatch).                                   *)
NamedModelIsServed ==
    forwarded # None =>
       LET inHeader == HeaderModel(request.headers)
           inBody == ExtractModel(request.body)
           named == IF inHeader # None THEN inHeader
                    ELSE IF inBody # None THEN inBody ELSE config.default
       IN /\ named \in DOMAIN config.upstreams
          /\ forwarded.uri.base = config.upstreams[named].base
          /\ entry.upstream = named

(* The limit is exact: a request is refused as too large only when it is, and *)
(* one that is larger is neither buffered whole nor forwarded, with or        *)
(* without a declared length (proxy.rs read_body).                            *)
LimitExact ==
    /\ buffered <= config.maxBody
    /\ entry.error = "too_large" => request.body.size > config.maxBody
    /\ forwarded # None =>
          /\ request.body.size <= config.maxBody
          /\ entry.requestBytes = request.body.size

(* A header the client declared hop-by-hop is not passed on with the value    *)
(* the client gave it (proxy.rs copy_headers).                                *)
HopsEndHere ==
    forwarded # None =>
       \A name \in DOMAIN forwarded.headers :
          /\ name \notin HopByHop
          /\ Usable(request.headers, "connection")
                /\ name \notin {"authorization", "content-length"} =>
             \A i \in DOMAIN request.headers["connection"] :
                request.headers["connection"][i] # name

(* Every response carries the ID of the log line, also when the upstream      *)
(* answers with an ID of its own or the request had none (Gateway::handle).   *)
IdEchoed ==
    reply # None =>
       /\ reply.headers["x-request-id"] = entry.id
       /\ "x-request-id" \in DOMAIN request.headers =>
             entry.id \in {request.headers["x-request-id"], Fresh}

(* What makes these inductive: nothing is read, sent or answered before its   *)
(* phase, a request is let past the authentication at the first step or never,*)
(* and what was sent upstream is what the whole body was turned into for the  *)
(* upstream on the line.                                                      *)
Passed ==
    /\ Authentic(config.auth, request.headers)
    /\ entry.caller = Caller(config.auth, request.headers)

RoutingInv ==
    /\ phase \in {"idle", "served"} => buffered = 0
    /\ phase \in {"idle", "reading", "served"} => forwarded = None
    /\ phase \in Unanswered => reply = None
    /\ (\/ phase \in {"reading", "forwarding", "lost"}
        \/ buffered > 0
        \/ forwarded # None
        \/ reply # None /\ reply.status # 401) => Passed
    /\ buffered <= config.maxBody
    /\ entry.error = "too_large" => request.body.size > config.maxBody
    /\ reply # None => reply.headers["x-request-id"] = entry.id
    /\ forwarded # None =>
          /\ buffered = request.body.size
          /\ entry.requestBytes = buffered
          /\ entry.upstream = Model
          /\ forwarded.uri = TargetUri(Upstream, request)
          /\ forwarded.headers = ForwardedHeaders(Upstream, request, forwarded.body.size)
          /\ \E size \in BodySizes : forwarded.body = ForwardedBody(Upstream, request, size)

-----------------------------------------------------------------------------
(* Liveness, and the promise of the log.                                      *)

Over == phase \in {"served", "done", "lost"}

(* A client that leaves does not leave its request behind: the handler is     *)
(* dropped or the line is written, whatever the upstream does.                *)
GoneIsSettled == client = "gone" ~> Over

(* LogPromise.tla, read off this module: at most one line, written at the end *)
(* and only then, with the bytes that were handed over by then.               *)
Promise == INSTANCE LogPromise WITH
              over <- Over, given <- source.given,
              totals <- [i \in DOMAIN lines |-> lines[i].bytes]

PromiseKept == Promise!Spec

-----------------------------------------------------------------------------
(* What the documents and comments say and the code does not do.              *)

(* README.md:209 and DESIGN.md:402: an aborted request is logged at WARN.     *)
AbortedLoggedAtWarn ==
    \A i \in DOMAIN lines : lines[i].aborted => lines[i].level = "warn"

(* README.md:26 and DESIGN.md:372: one line per request.                      *)
OneLinePerRequest == phase \in {"done", "lost"} => Len(lines) = 1

(* README.md:213 and gateway.rs:228: `effort` is what the caller asked for in *)
(* the request body, read whenever the body had to be parsed for its model.   *)
EffortLogged ==
    \A i \in DOMAIN lines :
       forwarded # None /\ HeaderModel(request.headers) = None =>
          lines[i].entry.probe.effort = Effort(request.body)

(* DESIGN.md:354: the request ID is forwarded to the upstream.                *)
ForwardedCarriesId ==
    forwarded # None =>
       /\ "x-request-id" \in DOMAIN forwarded.headers
       /\ forwarded.headers["x-request-id"] = entry.id
=============================================================================
