---------------------------- MODULE RoutingProofs ----------------------------
(* Proofs about the authentication, the routing and the forwarded request of  *)
(* Exchange.tla, for every configuration, request and answer that satisfy its *)
(* assumptions.                                                               *)
EXTENDS ExchangeProofs, IntervalLemmas, FiniteSetTheorems

-----------------------------------------------------------------------------
(* The invariant.                                                             *)

(* Nothing has been read, sent or answered yet (Gateway::handle).             *)
LEMMA InitRouting == Init => RoutingInv
<1> SUFFICES ASSUME Init PROVE RoutingInv
    OBVIOUS
<1>1. entry.error # "too_large" /\ config.maxBody \in Nat
    BY NoneAssumption, ConfigAssumption DEF Init, NewEntry, Errors
<1> QED
    BY <1>1 DEF Init, RoutingInv

(* What the invariant says of the entry, which is all that is left to show of *)
(* a step that leaves the request and what was sent alone.                    *)
EntryTells(e) ==
    /\ e.error = "too_large" => request.body.size > config.maxBody
    /\ forwarded # None =>
          e.upstream = entry.upstream /\ e.requestBytes = entry.requestBytes

(* A step that answers preserves the invariant, if only a 401 is given to a   *)
(* request that was not let past (the end of Gateway::handle).                *)
LEMMA RespondRouting ==
    ASSUME TypeOK, RoutingInv, Unmoved, UNCHANGED <<buffered, forwarded>>,
           phase \in {"idle", "reading", "forwarding"},
           NEW STATE e, e \in Entries, EntryTells(e),
           NEW STATE answer, Respond(e, answer),
           \/ answer.status = 401 /\ phase = "idle"
           \/ Authentic(config.auth, request.headers)
              /\ e.caller = Caller(config.auth, request.headers)
    PROVE  RoutingInv'
<1>1. /\ entry'.error = e.error /\ entry'.caller = e.caller /\ entry'.id = e.id
      /\ entry'.upstream = e.upstream /\ entry'.requestBytes = e.requestBytes
    BY DEF Respond, Answered, Entries
<1>2. reply'.status = answer.status /\ reply'.headers["x-request-id"] = e.id
    BY DEF Respond, ReplyHeaders, Put
<1>3. /\ phase' = "streaming" /\ config' = config /\ request' = request
      /\ buffered' = buffered /\ forwarded' = forwarded
    BY DEF Respond, Unmoved
<1>4. Model' = Model /\ Upstream' = Upstream
    BY <1>3 DEF Model, Upstream
<1>5. buffered \in Nat
    BY RequestAssumption DEF TypeOK
<1>6. buffered' > 0 \/ forwarded' # None \/ reply'.status # 401 => Passed'
    BY <1>1, <1>2, <1>3, <1>5 DEF RoutingInv, Passed
<1>7. forwarded' # None =>
         /\ buffered' = request'.body.size
         /\ entry'.requestBytes = buffered'
         /\ entry'.upstream = Model'
         /\ forwarded'.uri = TargetUri(Upstream', request')
         /\ forwarded'.headers = ForwardedHeaders(Upstream', request', forwarded'.body.size)
         /\ \E size \in BodySizes : forwarded'.body = ForwardedBody(Upstream', request', size)
    BY <1>1, <1>3, <1>4 DEF RoutingInv, EntryTells
<1>8. entry'.error = "too_large" => request'.body.size > config'.maxBody
    BY <1>1, <1>3 DEF EntryTells
<1> QED
    BY <1>1, <1>2, <1>3, <1>6, <1>7, <1>8 DEF RoutingInv, Unanswered

(* The same of an error.                                                      *)
LEMMA FailRouting ==
    ASSUME TypeOK, RoutingInv, Unmoved, UNCHANGED <<buffered, forwarded>>,
           phase \in {"idle", "reading", "forwarding"},
           NEW STATE e, e \in Entries, NEW error \in Errors, Fail(e, error),
           error = "too_large" => request.body.size > config.maxBody,
           forwarded # None =>
              e.upstream = entry.upstream /\ e.requestBytes = entry.requestBytes,
           \/ error = "unauthorized" /\ phase = "idle"
           \/ Authentic(config.auth, request.headers)
              /\ e.caller = Caller(config.auth, request.headers)
    PROVE  RoutingInv'
<1> DEFINE failed == [e EXCEPT !.error = error]
           answer == LocalAnswer(StatusOf(error))
<1>1. failed \in Entries
    BY DEF Entries, Optional
<1>2. failed.caller = e.caller
    BY DEF Entries
<1>3. EntryTells(failed)
    BY DEF EntryTells, Entries
<1>4. Respond(failed, answer)
    BY DEF Fail
<1>5. error = "unauthorized" => answer.status = 401
    BY DEF LocalAnswer, StatusOf
<1> HIDE DEF failed, answer
<1> QED
    BY <1>1, <1>2, <1>3, <1>4, <1>5, RespondRouting

(* The steps before the body is read: here a request is let past, or not.     *)
LEMMA StartRouting ==
    ASSUME TypeOK, RoutingInv,
           ServeHealth \/ Unauthorized \/ ServeModels \/ DeclaredTooLarge \/ BeginRead
    PROVE  RoutingInv'
<1>1. entry \in Entries /\ buffered \in Nat
    BY RequestAssumption DEF TypeOK
<1>2. ASSUME Authentic(config.auth, request.headers)
      PROVE  /\ Admitted \in Entries
             /\ Admitted.caller = Caller(config.auth, request.headers)
             /\ Admitted.error = entry.error
    BY <1>1, <1>2, AdmittedType DEF Admitted, Entries
<1>3. CASE ServeHealth
    BY <1>3 DEF ServeHealth, Unmoved, RoutingInv, Unanswered, Passed, Model, Upstream
<1>4. CASE Unauthorized
    <2>1. Fail(entry, "unauthorized") /\ "unauthorized" \in Errors
        BY <1>4 DEF Unauthorized, Errors
    <2> QED
        BY <1>1, <1>4, <2>1, FailRouting DEF Unauthorized
<1>5. CASE ServeModels
    <2>1. Respond(Admitted, LocalAnswer(200)) /\ forwarded = None
        BY <1>5 DEF ServeModels, Dispatched, RoutingInv
    <2>2. EntryTells(Admitted)
        BY <1>2, <1>5, <2>1 DEF ServeModels, Dispatched, RoutingInv, EntryTells
    <2> QED
        BY <1>2, <1>5, <2>1, <2>2, RespondRouting DEF ServeModels, Dispatched
<1>6. CASE DeclaredTooLarge
    <2>1. /\ Fail(Admitted, "too_large") /\ "too_large" \in Errors
          /\ request.body.size > config.maxBody /\ forwarded = None
        BY <1>6 DEF DeclaredTooLarge, Dispatched, RoutingInv, Errors
    <2> QED
        BY <1>2, <1>6, <2>1, FailRouting DEF DeclaredTooLarge, Dispatched
<1>7. CASE BeginRead
    <2>1. Passed' /\ entry'.error = entry.error
        BY <1>2, <1>7 DEF BeginRead, Dispatched, Unmoved, Passed
    <2>2. forwarded' = None /\ reply' = None
        BY <1>7 DEF BeginRead, Dispatched, RoutingInv, Unanswered
    <2> QED
        BY <1>7, <2>1, <2>2 DEF BeginRead, Dispatched, Unmoved, RoutingInv, Unanswered
<1> QED
    BY <1>3, <1>4, <1>5, <1>6, <1>7

(* The steps that read the body and find no route: the caller and what was    *)
(* sent, which is nothing yet, stay what they are.                            *)
LEMMA ReadRouting ==
    ASSUME TypeOK, RoutingInv,
           ReadFrame \/ OverLimit \/ ReadFails \/ NoModel \/ UnknownModel \/ UnprintableKey
    PROVE  RoutingInv'
<1>1. entry \in Entries /\ buffered \in Nat /\ request.body.size \in Nat
    BY RequestAssumption DEF TypeOK
<1>2. phase = "reading" /\ Unmoved
    BY DEF ReadFrame, OverLimit, ReadFails, NoModel, UnknownModel, UnprintableKey,
           Routed, BodyRead
<1>3. forwarded = None /\ reply = None /\ Passed
    BY <1>2 DEF RoutingInv, Unanswered
<1>4. CASE ReadFrame
    <2>1. buffered' <= config.maxBody
        BY <1>4 DEF ReadFrame
    <2> QED
        BY <1>2, <1>3, <1>4, <2>1 DEF ReadFrame, Unmoved, RoutingInv, Unanswered, Passed
<1>5. CASE OverLimit
    <2>1. request.body.size > config.maxBody
        BY <1>1, <1>5, ConfigAssumption DEF OverLimit, TypeOK
    <2>2. Fail(entry, "too_large") /\ "too_large" \in Errors
        BY <1>5 DEF OverLimit, Errors
    <2> QED
        BY <1>1, <1>2, <1>3, <1>5, <2>1, <2>2, FailRouting DEF OverLimit, Passed
<1>6. CASE ReadFails
    <2>1. Fail(entry, "bad_body") /\ "bad_body" \in Errors
        BY <1>6 DEF ReadFails, Errors
    <2> QED
        BY <1>1, <1>2, <1>3, <1>6, <2>1, FailRouting DEF ReadFails, Passed
<1>7. Probed \in Entries /\ Probed.caller = entry.caller
    BY <1>1, ProbedType DEF Probed, Entries
<1>8. CASE NoModel
    <2>1. Fail(Probed, "no_model") /\ "no_model" \in Errors
        BY <1>8 DEF NoModel, Errors
    <2> QED
        BY <1>2, <1>3, <1>7, <1>8, <2>1, FailRouting DEF NoModel, Passed
<1>9. CASE UnknownModel
    <2>1. Fail(Probed, "unknown_model") /\ "unknown_model" \in Errors
        BY <1>9 DEF UnknownModel, Errors
    <2> QED
        BY <1>2, <1>3, <1>7, <1>9, <2>1, FailRouting DEF UnknownModel, Passed
<1>10. CASE UnprintableKey
    <2>1. Fail(RoutedEntry, "internal") /\ "internal" \in Errors
        BY <1>10 DEF UnprintableKey, Errors
    <2>2. RoutedEntry \in Entries /\ RoutedEntry.caller = entry.caller
        BY <1>1, <1>10, RoutedType DEF UnprintableKey, Routed, RoutedEntry, Probed, Entries
    <2> QED
        BY <1>2, <1>3, <1>10, <2>1, <2>2, FailRouting DEF UnprintableKey, Passed
<1> QED
    BY <1>4, <1>5, <1>6, <1>8, <1>9, <1>10

(* The request that is sent is made here, from the whole body.                *)
LEMMA ForwardRouting ==
    ASSUME TypeOK, RoutingInv, ForwardRequest
    PROVE  RoutingInv'
<1>1. entry \in Entries /\ phase = "reading" /\ buffered = request.body.size
    BY DEF TypeOK, ForwardRequest, Routed, BodyRead
<1>2. /\ RoutedEntry.caller = entry.caller /\ RoutedEntry.error = entry.error
      /\ RoutedEntry.upstream = Model /\ RoutedEntry.requestBytes = buffered
    BY <1>1 DEF RoutedEntry, Probed, Entries
<1>3. PICK size \in BodySizes :
         LET body == ForwardedBody(Upstream, request, size)
         IN forwarded' = [method  |-> request.method,
                          uri     |-> TargetUri(Upstream, request),
                          headers |-> ForwardedHeaders(Upstream, request, body.size),
                          body    |-> body]
    BY DEF ForwardRequest
<1>4. /\ forwarded'.uri = TargetUri(Upstream, request)
      /\ forwarded'.headers = ForwardedHeaders(Upstream, request, forwarded'.body.size)
      /\ forwarded'.body = ForwardedBody(Upstream, request, size)
    BY <1>3
<1>5. /\ config' = config /\ request' = request /\ buffered' = buffered
      /\ phase' = "forwarding" /\ reply' = reply /\ entry' = RoutedEntry
    BY DEF ForwardRequest, Unmoved
<1>6. Model' = Model /\ Upstream' = Upstream
    BY <1>5 DEF Model, Upstream
<1>7. reply' = None /\ Passed'
    BY <1>1, <1>2, <1>5 DEF RoutingInv, Unanswered, Passed
<1>8. /\ buffered' <= config'.maxBody
      /\ entry'.error = "too_large" => request'.body.size > config'.maxBody
      /\ buffered' = request'.body.size
      /\ entry'.requestBytes = buffered' /\ entry'.upstream = Model'
    BY <1>1, <1>2, <1>5, <1>6 DEF RoutingInv
<1>9. /\ forwarded'.uri = TargetUri(Upstream', request')
      /\ forwarded'.headers = ForwardedHeaders(Upstream', request', forwarded'.body.size)
      /\ \E given \in BodySizes : forwarded'.body = ForwardedBody(Upstream', request', given)
    BY <1>4, <1>5, <1>6
<1> QED
    BY <1>5, <1>7, <1>8, <1>9 DEF RoutingInv, Unanswered

(* The steps after it: an answer, and a body that is handed over.             *)
LEMMA StreamRouting ==
    ASSUME TypeOK, RoutingInv,
           \/ UpstreamAnswers \/ UpstreamFails
           \/ PollData \/ PollEnd \/ PollError \/ DropBody
    PROVE  RoutingInv'
<1>1. entry \in Entries
    BY DEF TypeOK
<1>2. CASE UpstreamAnswers
    <2>1. PICK answer \in Answers :
             Respond(entry, [status  |-> answer.status,
                             headers |-> CopyHeaders(answer.headers, ResponseStrip),
                             length  |-> AnswerLength(answer)])
        BY <1>2 DEF UpstreamAnswers
    <2>2. EntryTells(entry) /\ Passed
        BY <1>2 DEF UpstreamAnswers, RoutingInv, EntryTells
    <2> QED
        BY <1>1, <1>2, <2>1, <2>2, RespondRouting DEF UpstreamAnswers, Passed
<1>3. CASE UpstreamFails
    <2>1. Fail(entry, "bad_gateway") /\ "bad_gateway" \in Errors /\ Passed
        BY <1>3 DEF UpstreamFails, Errors, RoutingInv
    <2> QED
        BY <1>1, <1>3, <2>1, FailRouting DEF UpstreamFails, Passed
<1>4. CASE PollData \/ PollEnd \/ PollError
    <2>1. UNCHANGED <<config, request, phase, entry, buffered, forwarded, reply>>
        BY <1>4 DEF PollData, PollEnd, PollError, Unmoved
    <2> QED
        BY <2>1 DEF RoutingInv, Passed, Model, Upstream
<1>5. CASE DropBody
    <2>1. /\ entry'.error = entry.error /\ entry'.caller = entry.caller
          /\ entry'.upstream = entry.upstream /\ entry'.id = entry.id
          /\ entry'.requestBytes = entry.requestBytes
        BY <1>1, <1>5 DEF DropBody, Entries
    <2>2. /\ phase = "streaming" /\ phase' = "done"
          /\ UNCHANGED <<config, request, buffered, forwarded, reply>>
        BY <1>5 DEF DropBody
    <2> QED
        BY <2>1, <2>2 DEF RoutingInv, Passed, Model, Upstream, Unanswered
<1> QED
    BY <1>2, <1>3, <1>4, <1>5

(* Every step preserves the invariant.                                        *)
LEMMA NextRouting == TypeOK /\ RoutingInv /\ [Next]_vars => RoutingInv'
<1> SUFFICES ASSUME TypeOK, RoutingInv, [Next]_vars PROVE RoutingInv'
    OBVIOUS
<1>1. CASE Disconnect \/ UNCHANGED vars
    <2>1. UNCHANGED <<config, request, phase, entry, buffered, forwarded, reply>>
        BY <1>1 DEF Disconnect, vars
    <2> QED
        BY <2>1 DEF RoutingInv, Passed, Model, Upstream
<1>2. CASE Abandon
    <2>1. /\ phase = "forwarding" /\ phase' = "lost"
          /\ UNCHANGED <<config, request, entry, buffered, forwarded, reply>>
        BY <1>2 DEF Abandon, Unmoved
    <2> QED
        BY <2>1 DEF RoutingInv, Passed, Model, Upstream, Unanswered
<1> QED
    BY <1>1, <1>2, StartRouting, ReadRouting, ForwardRouting, StreamRouting DEF Next, Decide

(* Nothing happens before its phase or without a key, and what is sent is     *)
(* what the whole body was turned into (Gateway::handle, dispatch).           *)
THEOREM RoutingAccounted == Spec => []RoutingInv
<1>1. Init => RoutingInv
    BY InitRouting
<1>2. TypeOK /\ RoutingInv /\ [Next]_vars => RoutingInv'
    BY NextRouting
<1> QED
    BY <1>1, <1>2, TypeCorrect, PTL DEF Spec

-----------------------------------------------------------------------------
(* Authentication.                                                            *)

(* A key that was taken from the headers is in one of the two that may carry  *)
(* one, after `Bearer` or as it is (auth.rs extract_key).                     *)
LEMMA KeyIsCarried ==
    ASSUME NEW req \in Requests, ExtractKey(req.headers) # None
    PROVE  \E name \in DOMAIN req.headers \cap {"authorization", "x-api-key"} :
              req.headers[name] \in {ExtractKey(req.headers),
                                    <<"Bearer">> \o ExtractKey(req.headers)}
<1> DEFINE value == req.headers["authorization"]
<1>1. CASE Usable(req.headers, "authorization")
    <2>1. value \in Seq(STRING) /\ "authorization" \in DOMAIN req.headers
        BY <1>1, RequestAssumption DEF Usable, Text
    <2>2. ExtractKey(req.headers) = StripBearer(value)
        BY <1>1 DEF ExtractKey
    <2>3. value = StripBearer(value) \/ value = <<"Bearer">> \o StripBearer(value)
        <3>1. CASE Len(value) > 1 /\ Head(value) = "Bearer"
            BY <2>1, <3>1 DEF StripBearer
        <3>2. CASE ~(Len(value) > 1 /\ Head(value) = "Bearer")
            BY <3>2 DEF StripBearer
        <3> QED
            BY <3>1, <3>2
    <2> QED
        BY <2>1, <2>2, <2>3
<1>2. CASE ~Usable(req.headers, "authorization")
    BY <1>2 DEF ExtractKey, Usable
<1> QED
    BY <1>1, <1>2

(* With authentication on, nothing is done but answering 401 unless the       *)
(* request carries the key of the caller on the line (auth.rs, dispatch).     *)
THEOREM KeyFirst == Spec => []KeyBeforeWork
<1>1. ASSUME TypeOK, RoutingInv, config.auth.enabled,
             buffered > 0 \/ forwarded # None \/ (reply # None /\ reply.status # 401)
      PROVE  \E name \in DOMAIN request.headers \cap {"authorization", "x-api-key"} :
                \E key \in DOMAIN config.auth.keys :
                   /\ request.headers[name] \in {key, <<"Bearer">> \o key}
                   /\ entry.caller = config.auth.keys[key]
    <2> DEFINE key == ExtractKey(request.headers)
    <2>1. key \in DOMAIN config.auth.keys /\ entry.caller = config.auth.keys[key]
        BY <1>1 DEF RoutingInv, Passed, Authentic, Caller
    <2>2. key # None
        BY <1>1, <2>1, ConfigAssumption, NoneAssumption DEF TypeOK
    <2>3. PICK name \in DOMAIN request.headers \cap {"authorization", "x-api-key"} :
             request.headers[name] \in {key, <<"Bearer">> \o key}
        BY <1>1, <2>2, KeyIsCarried DEF TypeOK
    <2> QED
        BY <2>1, <2>3
<1>2. TypeOK /\ RoutingInv => KeyBeforeWork
    BY <1>1 DEF KeyBeforeWork
<1> QED
    BY <1>2, TypeCorrect, RoutingAccounted, PTL

-----------------------------------------------------------------------------
(* The request that is sent upstream.                                         *)

(* What is left of the headers of the caller: none that is stripped, ends at  *)
(* the gateway or was declared to (proxy.rs copy_headers, build_request).     *)
LEMMA HeadersSent ==
    ASSUME NEW u, NEW req, NEW size,
           NEW name \in DOMAIN ForwardedHeaders(u, req, size)
    PROVE  \/ name = "content-length"
           \/ name = "authorization" /\ u.apiKey # None
           \/ name \notin HopByHop \cup RequestStrip \cup ConnectionTokens(req.headers)
<1> DEFINE incoming == Put(req.headers, "x-request-id", RequestId(req.headers))
           copied == CopyHeaders(incoming, RequestStrip)
<1>1. /\ "connection" \in DOMAIN incoming <=> "connection" \in DOMAIN req.headers
      /\ "connection" \in DOMAIN req.headers =>
            incoming["connection"] = req.headers["connection"]
    BY DEF Put
<1>2. ConnectionTokens(incoming) = ConnectionTokens(req.headers)
    BY <1>1 DEF ConnectionTokens, Usable
<1>3. DOMAIN copied \cap (HopByHop \cup RequestStrip \cup ConnectionTokens(req.headers)) = {}
    BY <1>2 DEF CopyHeaders, Restrict
<1>4. /\ u.apiKey = None => name \in DOMAIN copied \cup {"content-length"}
      /\ u.apiKey # None => name \in DOMAIN copied \cup {"content-length", "authorization"}
    BY DEF ForwardedHeaders, Put
<1> QED
    BY <1>3, <1>4

(* What the gateway itself puts on the request: its length and the key of the *)
(* upstream (proxy.rs build_request).                                         *)
LEMMA HeadersMade ==
    ASSUME NEW u, NEW req, NEW size, NEW sent, sent = ForwardedHeaders(u, req, size)
    PROVE  /\ "content-length" \in DOMAIN sent /\ sent["content-length"] = size
           /\ "authorization" \in DOMAIN sent <=> u.apiKey # None
           /\ u.apiKey # None => sent["authorization"] = <<"Bearer">> \o u.apiKey
<1> DEFINE incoming == Put(req.headers, "x-request-id", RequestId(req.headers))
           copied == CopyHeaders(incoming, RequestStrip)
           sized == Put(copied, "content-length", size)
<1>1. "content-length" \in DOMAIN sized /\ sized["content-length"] = size
    BY DEF Put
<1>2. "authorization" \notin DOMAIN sized
    BY DEF Put, CopyHeaders, Restrict, RequestStrip
<1>3. sent = IF u.apiKey = None THEN sized
             ELSE Put(sized, "authorization", <<"Bearer">> \o u.apiKey)
    BY DEF ForwardedHeaders
<1> HIDE DEF sized
<1>4. CASE u.apiKey = None
    BY <1>1, <1>2, <1>3, <1>4
<1>5. CASE u.apiKey # None
    BY <1>1, <1>3, <1>5 DEF Put
<1> QED
    BY <1>4, <1>5

(* The key of the caller never goes upstream (proxy.rs build_request).        *)
THEOREM CallerKeyStaysHere == Spec => []CredentialsReplaced
<1>1. ASSUME RoutingInv, forwarded # None
      PROVE  LET own == config.upstreams[entry.upstream].apiKey
                 sent == forwarded.headers
             IN /\ "x-api-key" \notin DOMAIN sent
                /\ "authorization" \in DOMAIN sent <=> own # None
                /\ own # None => sent["authorization"] = <<"Bearer">> \o own
    <2>1. /\ forwarded.headers = ForwardedHeaders(Upstream, request, forwarded.body.size)
          /\ config.upstreams[entry.upstream] = Upstream
        BY <1>1 DEF RoutingInv, Upstream
    <2>2. "x-api-key" \notin DOMAIN forwarded.headers
        BY <2>1, HeadersSent DEF RequestStrip
    <2> QED
        BY <2>1, <2>2, HeadersMade
<1>2. RoutingInv => CredentialsReplaced
    BY <1>1 DEF CredentialsReplaced
<1> QED
    BY <1>2, RoutingAccounted, PTL

(* No header that ends at the gateway is passed on, nor one that the client   *)
(* declared to (proxy.rs copy_headers).                                       *)
THEOREM HopsEnd == Spec => []HopsEndHere
<1>1. ASSUME RoutingInv, forwarded # None, NEW name \in DOMAIN forwarded.headers
      PROVE  /\ name \notin HopByHop
             /\ Usable(request.headers, "connection")
                   /\ name \notin {"authorization", "content-length"} =>
                \A i \in DOMAIN request.headers["connection"] :
                   request.headers["connection"][i] # name
    <2>1. forwarded.headers = ForwardedHeaders(Upstream, request, forwarded.body.size)
        BY <1>1 DEF RoutingInv
    <2>2. \/ name \in {"content-length", "authorization"}
          \/ name \notin HopByHop \cup ConnectionTokens(request.headers)
        BY <1>1, <2>1, HeadersSent
    <2> QED
        BY <2>2 DEF HopByHop, ConnectionTokens, Range
<1>2. RoutingInv => HopsEndHere
    BY <1>1 DEF HopsEndHere
<1> QED
    BY <1>2, RoutingAccounted, PTL

(* The limit is exact in both directions (proxy.rs read_body).                *)
THEOREM LimitIsExact == Spec => []LimitExact
<1>1. RoutingInv => LimitExact
    BY DEF RoutingInv, LimitExact
<1> QED
    BY <1>1, RoutingAccounted, PTL

(* Every response carries the ID of the log line (Gateway::handle).           *)
THEOREM IdIsEchoed == Spec => []IdEchoed
<1>1. TypeOK /\ RoutingInv => IdEchoed
    BY DEF TypeOK, Entries, RoutingInv, IdEchoed, RequestId
<1> QED
    BY <1>1, TypeCorrect, RoutingAccounted, PTL

(* A request goes where it says (Gateway::dispatch).                          *)
THEOREM NamedIsServed == Spec => []NamedModelIsServed
<1>1. TypeOK /\ RoutingInv => NamedModelIsServed
    BY DEF TypeOK, RoutingInv, NamedModelIsServed, Upstream, TargetUri, Model,
           ResolveModel, OrElse, BodyModel
<1> QED
    BY <1>1, TypeCorrect, RoutingAccounted, PTL
-----------------------------------------------------------------------------
(* The model in the body.                                                     *)

(* The value of a key is that of its last member, None if there is none       *)
(* (what serde_json keeps of a key that is there twice).                      *)
LEMMA ValueIsLast ==
    ASSUME NEW fields, fields \in Seq(Range(fields)), NEW key
    PROVE  LET places == {i \in 1..Len(fields) : fields[i][1] = key}
           IN /\ places = {} => Value(fields, key) = None
              /\ places # {} => \E i \in places : /\ Value(fields, key) = fields[i][2]
                                                  /\ \A j \in places : j <= i
<1> DEFINE places == {i \in 1..Len(fields) : fields[i][1] = key}
<1>1. Value(fields, key) =
         LET last == IF places # {} THEN Max(places) ELSE 0
         IN IF last = 0 THEN None ELSE fields[last][2]
    BY DEF Value, SelectLastInSeq
<1>2. Len(fields) \in Nat /\ places \in SUBSET Nat /\ \A i \in places : i <= Len(fields)
    OBVIOUS
<1>3. places # {} => Max(places) \in places /\ \A j \in places : j <= Max(places)
    <2> HIDE DEF places
    <2> QED
        BY <1>2, MaxIsGreatest
<1>4. \A i \in places : i # 0
    OBVIOUS
<1> HIDE DEF places
<1>5. /\ places = {} => Value(fields, key) = None
      /\ places # {} => \E i \in places : /\ Value(fields, key) = fields[i][2]
                                          /\ \A j \in places : j <= i
    BY <1>1, <1>3, <1>4
<1> QED
    BY <1>5 DEF places
(* A body that is serialised again has the new model and every other value it *)
(* had before (json_model.rs try_rewrite_model).                              *)
LEMMA RewrittenValues ==
    ASSUME NEW fields, fields \in Seq(Range(fields)), NEW target,
           NEW sent, sent = Rewritten(fields, target), NEW key
    PROVE  Value(sent, key) = IF key = "model" THEN target ELSE Value(fields, key)
<1> DEFINE named == {fields[i][1] : i \in 1..Len(fields)}
           keys == named \cup {"model"}
           value(k) == IF k = "model" THEN target ELSE Value(fields, k)
           members == {<<k, value(k)>> : k \in keys}
           n == Cardinality(members)
<1>1. DOMAIN fields = 1..Len(fields) /\ Len(fields) \in Nat
    OBVIOUS
<1>2. IsFiniteSet(keys)
    <2> DEFINE f == [i \in 1..Len(fields) |-> fields[i][1]]
    <2>1. f \in Surjection(1..Len(fields), named)
        BY DEF Surjection
    <2>2. IsFiniteSet(1..Len(fields))
        BY <1>1, FS_Interval
    <2> HIDE DEF named, f
    <2>3. IsFiniteSet(named)
        BY <2>1, <2>2, FS_Surjection
    <2> QED
        BY <2>3, FS_AddElement
<1>3. IsFiniteSet(members)
    <2> DEFINE f == [k \in keys |-> <<k, value(k)>>]
    <2> HIDE DEF keys, value
    <2>1. f \in Surjection(keys, members)
        BY DEF Surjection
    <2> HIDE DEF members, f
    <2> QED
        BY <1>2, <2>1, FS_Surjection
<1>4. sent = SetToSeq(members)
    BY <1>1 DEF Rewritten
<1>5. \A k \in keys : <<k, value(k)>> \in members
    OBVIOUS
<1>6. \A m \in members : m[1] \in keys /\ m[2] = value(m[1])
    OBVIOUS
<1> HIDE DEF members
<1>7. n \in Nat /\ \E f \in [1..n -> members] : IsInjective(f)
    BY <1>3, FS_CardinalityType DEF ExistsBijection, Bijection, Injection
<1>8. sent \in [1..n -> members] /\ IsInjective(sent)
    BY <1>4, <1>7 DEF SetToSeq
<1>9. \A m \in members : \E i \in 1..n : sent[i] = m
    <2>1. IsFiniteSet(1..n) /\ Cardinality(1..n) = n
        BY <1>7, FS_Interval
    <2>2. sent \in Injection(1..n, members)
        BY <1>8 DEF Injection
    <2>3. sent \in Surjection(1..n, members)
        BY <1>3, <2>1, <2>2, FS_Injection
    <2> QED
        BY <2>3 DEF Surjection
<1>10. sent \in Seq(Range(sent)) /\ Len(sent) = n
    BY <1>7, <1>8 DEF Range
<1> DEFINE places == {i \in 1..Len(sent) : sent[i][1] = key}
<1>11. CASE places = {}
    <2>1. Value(sent, key) = None
        BY <1>10, <1>11, ValueIsLast
    <2>2. key \notin keys
        <3>1. SUFFICES ASSUME key \in keys PROVE FALSE
            OBVIOUS
        <3>2. PICK i \in 1..n : sent[i] = <<key, value(key)>>
            BY <1>5, <1>9, <3>1
        <3>3. sent[i][1] = key
            BY <3>2
        <3> QED
            BY <1>10, <1>11, <3>3
    <2>3. Value(fields, key) = None
        BY <2>2, ValueIsLast
    <2> QED
        BY <2>1, <2>2, <2>3
<1>12. CASE places # {}
    <2>1. PICK i \in places : Value(sent, key) = sent[i][2]
        BY <1>10, <1>12, ValueIsLast
    <2>2. sent[i] \in members /\ sent[i][1] = key
        BY <1>8, <1>10, <2>1
    <2> QED
        BY <1>6, <2>1, <2>2
<1> QED
    BY <1>11, <1>12
(* The body that is sent names the model as the upstream does, if it names    *)
(* one and it is read otherwise, and has every other value (proxy.rs forward).*)
LEMMA BodySent ==
    ASSUME NEW u, NEW req \in Requests, NEW size \in BodySizes, NEW key,
           NEW sent, sent = ForwardedBody(u, req, size)
    PROVE  LET kept == \/ key # "model"
                       \/ u.upstreamModel \in {None, BodyModel(req)}
                       \/ Field(req.body, "model") = None
           IN /\ kept => Field(sent, key) = Field(req.body, key)
              /\ ~kept => Field(sent, key) = u.upstreamModel
<1> DEFINE served == u.upstreamModel
<1>1. CASE served = None \/ BodyModel(req) = served \/ ~Rewrites(req.body, served)
    <2>1. sent = req.body
        BY <1>1 DEF ForwardedBody
    <2> QED
        BY <1>1, <2>1 DEF Rewrites
<1>2. CASE ~(served = None \/ BodyModel(req) = served \/ ~Rewrites(req.body, served))
    <2>1. sent = [size |-> size, fields |-> Rewritten(req.body.fields, served)]
        BY <1>2 DEF ForwardedBody
    <2>2. Field(req.body, "model") # None
        BY <1>2 DEF Rewrites
    <2>3. req.body.size # 0
        <3>1. SUFFICES ASSUME req.body.size = 0 PROVE FALSE
            OBVIOUS
        <3>2. Value(<<>>, "model") = None
            BY DEF Value, SelectLastInSeq
        <3> QED
            BY <2>2, <3>1, <3>2 DEF Field, Members
    <2>4. Members(req.body) = req.body.fields /\ Members(sent) = sent.fields
        BY <2>1, <2>3, BoundAssumption DEF Members
    <2>5. Value(sent.fields, key) =
             IF key = "model" THEN served ELSE Value(req.body.fields, key)
        BY <2>1, RequestAssumption, RewrittenValues
    <2> QED
        BY <1>2, <2>2, <2>4, <2>5 DEF Field
<1> QED
    BY <1>1, <1>2

(* In particular every other value stays (proxy.rs forward).                  *)
LEMMA OthersSent ==
    ASSUME NEW u, NEW req \in Requests, NEW size \in BodySizes, NEW key, key # "model"
    PROVE  Field(ForwardedBody(u, req, size), key) = Field(req.body, key)
<1> DEFINE sent == ForwardedBody(u, req, size)
<1>1. sent = ForwardedBody(u, req, size)
    OBVIOUS
<1> HIDE DEF sent
<1>2. Field(sent, key) = Field(req.body, key)
    BY <1>1, BodySent
<1> QED
    BY <1>2 DEF sent

(* The upstream is addressed under the name it serves the model as            *)
(* (proxy.rs forward, json_model.rs).                                         *)
THEOREM ServedUnderItsName == Spec => []ServedNameForwarded
<1>1. ASSUME TypeOK, RoutingInv, forwarded # None
      PROVE  LET served == config.upstreams[entry.upstream].upstreamModel
                 sent == forwarded.body
             IN /\ \A name \in {"thinking", "max_tokens", "n"} :
                      Field(sent, name) = Field(request.body, name)
                /\ Field(sent, "model") =
                      IF served \in {None, BodyModel(request)}
                            \/ Field(request.body, "model") = None
                      THEN Field(request.body, "model") ELSE served
                /\ forwarded.headers["content-length"] = sent.size
    <2>1. /\ request \in Requests /\ config.upstreams[entry.upstream] = Upstream
          /\ forwarded.headers = ForwardedHeaders(Upstream, request, forwarded.body.size)
        BY <1>1 DEF TypeOK, RoutingInv, Upstream
    <2>2. PICK size \in BodySizes : forwarded.body = ForwardedBody(Upstream, request, size)
        BY <1>1 DEF RoutingInv
    <2>3. forwarded.headers["content-length"] = forwarded.body.size
        BY <2>1, HeadersMade
    <2>4. /\ Field(forwarded.body, "thinking") = Field(request.body, "thinking")
          /\ Field(forwarded.body, "max_tokens") = Field(request.body, "max_tokens")
          /\ Field(forwarded.body, "n") = Field(request.body, "n")
        BY <2>1, <2>2, OthersSent
    <2>5. Field(forwarded.body, "model") =
             IF Upstream.upstreamModel \in {None, BodyModel(request)}
                   \/ Field(request.body, "model") = None
             THEN Field(request.body, "model") ELSE Upstream.upstreamModel
        BY <2>1, <2>2, BodySent
    <2> QED
        BY <2>1, <2>3, <2>4, <2>5
<1>2. TypeOK /\ RoutingInv => ServedNameForwarded
    BY <1>1 DEF ServedNameForwarded
<1> QED
    BY <1>2, TypeCorrect, RoutingAccounted, PTL

-----------------------------------------------------------------------------
(* The thinking effort in the body.                                           *)

(* The rank of a key is a place in the list of them, or 0.                    *)
LEMMA RankType ==
    ASSUME NEW key PROVE EffortRank(key) \in 0..4
<1> DEFINE places == {i \in 1..Len(EffortKeys) : EffortKeys[i] = key}
<1>1. Len(EffortKeys) = 4
    BY DEF EffortKeys
<1>2. EffortRank(key) = IF places # {} THEN Min(places) ELSE 0
    BY DEF EffortRank, SelectInSeq
<1>3. places \in SUBSET Nat /\ places \subseteq 1..4
    BY <1>1
<1> HIDE DEF places
<1>4. places # {} => Min(places) \in 1..4
    BY <1>3, MinIsLeast
<1> QED
    BY <1>2, <1>4

(* What is held after n members: of the usable ones among them the first of   *)
(* those whose key takes precedence, and nothing if there is none.            *)
Usables(fields, n) ==
    {i \in 1..n : EffortRank(fields[i][1]) # 0 /\ UsableText(fields[i])}

Precedes(held, fields, n) ==
    LET rank(i) == EffortRank(fields[i][1])
    IN /\ held.rank \in 1..5
       /\ Usables(fields, n) = {} => held = [rank |-> 5, effort |-> None]
       /\ Usables(fields, n) # {} =>
             \E i \in Usables(fields, n) :
                /\ held = [rank |-> rank(i), effort |-> fields[i][2]]
                /\ \A j \in Usables(fields, n) :
                      rank(i) <= rank(j) /\ (rank(i) = rank(j) => i <= j)

(* Taking the next member keeps that (usage.rs EffortVisitor).                *)
LEMMA TakeKeeps ==
    ASSUME NEW fields, NEW n \in Nat, NEW held, Precedes(held, fields, n)
    PROVE  Precedes(TakeEffort(held, fields[n + 1]), fields, n + 1)
<1> DEFINE rank(i) == EffortRank(fields[i][1])
           last == n + 1
           taken == TakeEffort(held, fields[last])
           old == Usables(fields, n)
           new == Usables(fields, last)
<1>1. \A i : rank(i) \in 0..4
    BY RankType
<1>2. held.rank \in 1..5 /\ \A i \in old : i \in 1..n
    BY DEF Precedes, Usables
<1>3. CASE last \notin new
    <2>1. rank(last) = 0 \/ ~UsableText(fields[last])
        BY <1>3 DEF Usables
    <2>2. taken = held /\ new = old
        BY <1>3, <2>1 DEF TakeEffort, Usables
    <2> QED
        BY <2>2 DEF Precedes
<1>4. CASE last \in new
    <2>1. rank(last) # 0 /\ UsableText(fields[last])
        BY <1>4 DEF Usables
    <2>2. new = old \cup {last}
        BY <1>4 DEF Usables
    <2>3. taken = IF rank(last) < held.rank
                  THEN [rank |-> rank(last), effort |-> fields[last][2]] ELSE held
        BY <2>1 DEF TakeEffort
    <2> QED
        BY <1>1, <1>2, <2>1, <2>2, <2>3 DEF Precedes
<1> QED
    BY <1>3, <1>4
(* So what is held at the end is the first usable value of the key that takes *)
(* precedence, by induction over the members (usage.rs EffortVisitor).        *)
LEMMA EffortPrecedes ==
    ASSUME NEW fields, fields \in Seq(Range(fields))
    PROVE  Precedes(EffortHeld(fields), fields, Len(fields))
<1> DEFINE n == Len(fields)
           start == [rank |-> 5, effort |-> None]
           S == {start} \cup {[rank |-> rank, effort |-> fields[i][2]] : rank \in 0..4, i \in 1..n}
           step == [i \in 1..n |-> [h \in S |-> TakeEffort(h, fields[i])]]
           Body(h) == [i \in 0..n |-> IF i = 0 THEN start ELSE TakeEffort(h[i - 1], fields[i])]
           held == CHOOSE h : h = Body(h)
<1>1. n \in Nat
    OBVIOUS
<1>2. EffortHeld(fields) = held[n]
    <2>1. Len(EffortKeys) + 1 = 5
        BY DEF EffortKeys
    <2> QED
        BY <2>1 DEF EffortHeld
<1>3. held = Body(held)
    <2>1. ASSUME NEW i \in 1..n, NEW h \in S
          PROVE  TakeEffort(h, fields[i]) \in S
        <3>1. [rank |-> EffortRank(fields[i][1]), effort |-> fields[i][2]] \in S
            BY RankType
        <3> QED
            BY <3>1 DEF TakeEffort
    <2>2. start \in S
        OBVIOUS
    <2> HIDE DEF S, start
    <2>3. step \in Steps(n, S)
        BY <2>1 DEF Steps
    <2> HIDE DEF n
    <2>4. PICK f \in [0..n -> S] : Recursive(f, n, start, step)
        <3> HIDE DEF step
        <3> QED
            BY <1>1, <2>2, <2>3, IntervalRecursion
    <2>5. \A i \in 1..n : f[i - 1] \in S
        BY <1>1, <2>4
    <2>6. \A i \in 1..n : f[i] = TakeEffort(f[i - 1], fields[i])
        BY <2>4, <2>5 DEF Recursive
    <2>7. \A i \in 0..n : f[i] = IF i = 0 THEN start ELSE TakeEffort(f[i - 1], fields[i])
        BY <1>1, <2>4, <2>6 DEF Recursive
    <2>8. f = Body(f)
        BY <2>4, <2>7
    <2> HIDE DEF Body
    <2> QED
        BY <2>8
<1> HIDE DEF held
<1> DEFINE P == {k \in 0..n : Precedes(held[k], fields, k)}
<1>4. 0 \in P
    <2>1. held[0] = start
        BY <1>1, <1>3
    <2>2. Usables(fields, 0) = {}
        BY DEF Usables
    <2> QED
        BY <1>1, <2>1, <2>2 DEF Precedes
<1>5. ASSUME NEW k \in 0..(n - 1), k \in P
      PROVE  k + 1 \in P
    <2>1. k \in Nat /\ k + 1 \in 0..n /\ k + 1 # 0 /\ (k + 1) - 1 = k
        BY <1>1
    <2>2. held[k + 1] = TakeEffort(held[k], fields[k + 1])
        BY <1>3, <2>1
    <2>3. Precedes(held[k], fields, k)
        BY <1>5
    <2>4. Precedes(held[k + 1], fields, k + 1)
        BY <2>1, <2>2, <2>3, TakeKeeps
    <2> QED
        BY <2>1, <2>4
<1>6. n \in P
    <2> HIDE DEF P, n
    <2>1. \A k \in 0..(n - 1) : k \in P => k + 1 \in P
        BY <1>5
    <2>2. \A k \in 0..n : k \in P
        BY <1>1, <1>4, <2>1, IntervalInduction
    <2> QED
        BY <1>1, <2>2
<1> QED
    BY <1>2, <1>6

(* The effort on the line is that of the usable key that takes precedence     *)
(* (usage.rs extract_effort, EffortVisitor).                                  *)
THEOREM EffortOfPrecedence == Spec => []EffortFollowsPrecedence
<1>1. ASSUME TypeOK, entry.probe # NoProbe
      PROVE  LET body == Members(request.body)
                 rank(i) == EffortRank(body[i][1])
                 usable == {i \in DOMAIN body : rank(i) # 0 /\ UsableText(body[i])}
             IN IF usable = {} THEN entry.probe.effort = None
                ELSE \E i \in usable :
                        /\ entry.probe.effort = body[i][2]
                        /\ \A j \in usable : rank(i) <= rank(j) /\ (rank(i) = rank(j) => i <= j)
    <2> DEFINE body == Members(request.body)
               held == EffortHeld(body)
    <2>1. entry.probe.effort = held.effort
        BY <1>1 DEF TypeOK, Entries, Probe, Effort
    <2>2. body \in Seq(Range(body))
        <3>1. request.body.fields \in Seq(Range(request.body.fields))
            BY <1>1, RequestAssumption DEF TypeOK
        <3>2. <<>> \in Seq(Range(<<>>))
            OBVIOUS
        <3> QED
            BY <3>1, <3>2 DEF Members
    <2>3. Precedes(held, body, Len(body))
        BY <2>2, EffortPrecedes
    <2>4. DOMAIN body = 1..Len(body)
        BY <2>2
    <2> HIDE DEF body, held
    <2> QED
        BY <2>1, <2>3, <2>4 DEF Precedes, Usables, body
<1>2. TypeOK => EffortFollowsPrecedence
    BY <1>1 DEF EffortFollowsPrecedence
<1> QED
    BY <1>2, TypeCorrect, PTL
=============================================================================
