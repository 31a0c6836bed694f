------------------------------ MODULE Dispatch ------------------------------
(* What the gateway computes from a request and its configuration, without    *)
(* any state: who is calling (auth.rs), which model is named (gateway.rs,     *)
(* json_model.rs), what the log reads from the body (usage.rs) and what is    *)
(* sent upstream (proxy.rs, config.rs).  Exchange.tla calls these operators   *)
(* from its actions.                                                          *)
(*                                                                            *)
(* A text is the sequence of its words: trimming is then implicit, the blank  *)
(* text is <<>>, and the prefix "Bearer" is a word.  Headers are a function   *)
(* from the names present to their values.                                    *)
EXTENDS TokenCounters, SequencesExt

CONSTANTS
    NotText,      \* a value that no header can carry as visible ASCII
    NotAString,   \* the value of a field that is not the text expected there
    Fresh,        \* a request ID the gateway generated
    MaxIdLen      \* longest request ID taken over from a caller, in words

ASSUME MaxIdLenAssumption == MaxIdLen \in Nat \ {0}

Text == Seq(STRING)

(* What `Option::or_else` does. *)
OrElse(a, b) == IF a = None THEN b ELSE a

(* Headers: `insert` replaces the value of a name or adds the name.           *)
Put(h, name, value) ==
    [n \in DOMAIN h \cup {name} |-> IF n = name THEN value ELSE h[n]]

(* A header that is present, readable as text and not blank.                  *)
Usable(h, name) == name \in DOMAIN h /\ h[name] \notin {NotText, <<>>}

-----------------------------------------------------------------------------
(* Configuration: [auth |-> [enabled, keys], default, maxBody, upstreams].    *)

(* The checks made at startup, except those of the syntax of addresses.       *)
ValidConfig(c) ==
    /\ c.maxBody > 0
    /\ DOMAIN c.upstreams # {}
    /\ c.auth.enabled => DOMAIN c.auth.keys # {}
    /\ \A name \in DOMAIN c.upstreams :
          /\ name # <<>>
          /\ c.upstreams[name].apiKey # <<>>
          /\ c.upstreams[name].upstreamModel # <<>>
    /\ c.default = None \/ c.default \in DOMAIN c.upstreams

(* Path and query of the request behind the path prefix of the upstream.      *)
TargetUri(u, req) == [base |-> u.base, path |-> u.prefix \o req.path]

-----------------------------------------------------------------------------
(* Callers and request IDs.                                                   *)

StripBearer(value) ==
    IF Len(value) > 1 /\ Head(value) = "Bearer" THEN Tail(value) ELSE value

(* `Authorization` is looked at first: a value in it hides `X-API-Key`, even  *)
(* when it is no key of anybody.                                              *)
ExtractKey(h) ==
    IF Usable(h, "authorization") THEN StripBearer(h["authorization"])
    ELSE IF Usable(h, "x-api-key") THEN h["x-api-key"]
    ELSE None

Authentic(auth, h) == auth.enabled => ExtractKey(h) \in DOMAIN auth.keys

Caller(auth, h) == IF auth.enabled THEN auth.keys[ExtractKey(h)] ELSE None

RequestId(h) ==
    IF Usable(h, "x-request-id") /\ Len(h["x-request-id"]) <= MaxIdLen
    THEN h["x-request-id"] ELSE Fresh

-----------------------------------------------------------------------------
(* Request bodies: [size, fields], fields being the members of the top-level  *)
(* JSON object that the gateway knows of, <<key, value>> in the order of the  *)
(* body; a key may be there twice.  A number that is none is None, and a body *)
(* that is no JSON object has no members.                                     *)

Members(body) == IF body.size = 0 THEN <<>> ELSE body.fields

UsableText(member) == member[2] \notin {NotAString, <<>>}

(* The value of a key: that of its last member.                               *)
Value(fields, key) ==
    LET last == SelectLastInSeq(fields, LAMBDA m : m[1] = key)
    IN IF last = 0 THEN None ELSE fields[last][2]

Field(body, key) == Value(Members(body), key)

(* The model a body names: the last one that is a non-empty string.           *)
ExtractModel(body) ==
    LET last == SelectLastInSeq(Members(body), LAMBDA m : m[1] = "model" /\ UsableText(m))
    IN IF last = 0 THEN None ELSE Members(body)[last][2]

HeaderModel(h) == IF Usable(h, "x-model") THEN h["x-model"] ELSE None

(* The body is not parsed at all when the header has named the model.         *)
BodyModel(req) ==
    IF HeaderModel(req.headers) # None THEN None ELSE ExtractModel(req.body)

(* Slip: the default wins over the body.                                      *)
ResolveModelDefault(c, req) ==
    OrElse(HeaderModel(req.headers), OrElse(c.default, BodyModel(req)))

ResolveModel(c, req) ==
    OrElse(HeaderModel(req.headers), OrElse(BodyModel(req), c.default))

(* The thinking effort: the keys in the order of their precedence.            *)
EffortKeys == <<"reasoning_effort", "thinking", "reasoning", "thinking_effort">>

EffortRank(key) == SelectInSeq(EffortKeys, LAMBDA k : k = key)

(* Slip: the key that comes last in the body wins.                            *)
TakeEffortLast(held, member) ==
    IF EffortRank(member[1]) # 0 /\ UsableText(member)
    THEN [rank |-> EffortRank(member[1]), effort |-> member[2]]
    ELSE held

(* A usable value replaces the one held if its key takes precedence.          *)
TakeEffort(held, member) ==
    LET rank == EffortRank(member[1])
    IN IF rank # 0 /\ rank < held.rank /\ UsableText(member)
       THEN [rank |-> rank, effort |-> member[2]]
       ELSE held

(* What is held once all members have been visited.                           *)
EffortHeld(fields) ==
    LET held[n \in 0..Len(fields)] ==
            IF n = 0 THEN [rank |-> Len(EffortKeys) + 1, effort |-> None]
            ELSE TakeEffort(held[n - 1], fields[n])
    IN held[Len(fields)]

Effort(body) == EffortHeld(Members(body)).effort

(* The token budget: the first number under one of its keys.                  *)
BudgetKeys == {"max_tokens", "max_completion_tokens", "max_output_tokens"}

MaxTokens(body) ==
    LET given == SelectSeq(Members(body), LAMBDA m : m[1] \in BudgetKeys /\ m[2] # None)
    IN IF given = <<>> THEN None ELSE Head(given)[2]

(* What the body contributes to the log line: effort, budget and choices.     *)
NoProbe == [effort |-> None, maxTokens |-> None, choices |-> None]

Probe(req) ==
    IF BodyModel(req) = None THEN NoProbe
    ELSE [effort    |-> Effort(req.body),
          maxTokens |-> MaxTokens(req.body),
          choices   |-> Field(req.body, "n")]

(* Whether the `model` field is replaced: only a body that is an object with  *)
(* such a field, of another value, is.                                        *)
Rewrites(body, target) == Field(body, "model") \notin {None, target}

(* A body that is serialised again has every key once, with its last value.   *)
(* The order of the keys, which becomes alphabetical, is left out.            *)
Rewritten(fields, target) ==
    LET keys == {fields[i][1] : i \in DOMAIN fields} \cup {"model"}
    IN SetToSeq({<<key, IF key = "model" THEN target ELSE Value(fields, key)>> : key \in keys})

(* Slip: only a body whose model was read for the routing is rewritten.       *)
ForwardedBodyIfRead(u, req, size) ==
    IF u.upstreamModel = None \/ BodyModel(req) \in {None, u.upstreamModel}
    THEN req.body
    ELSE [size |-> size, fields |-> Rewritten(req.body.fields, u.upstreamModel)]

(* The body sent upstream; `size` is its size when it is serialised again.    *)
ForwardedBody(u, req, size) ==
    IF u.upstreamModel = None \/ BodyModel(req) = u.upstreamModel
       \/ ~Rewrites(req.body, u.upstreamModel)
    THEN req.body
    ELSE [size |-> size, fields |-> Rewritten(req.body.fields, u.upstreamModel)]

-----------------------------------------------------------------------------
(* Headers passed on in either direction.                                     *)

HopByHop == {"connection", "proxy-connection", "keep-alive",
             "proxy-authenticate", "proxy-authorization", "te", "trailer",
             "transfer-encoding", "upgrade"}

(* Slip: the key of the caller is passed on to an upstream without a key.     *)
RequestStripKeyless == {"host", "content-length", "x-api-key", "x-model", "expect"}

RequestStrip == {"host", "content-length", "authorization", "x-api-key",
                 "x-model", "expect"}

ResponseStrip == {}

(* Slip: only the first header named counts.                                  *)
FirstConnectionToken(h) ==
    IF Usable(h, "connection") THEN {Head(h["connection"])} ELSE {}

(* The headers that `Connection` declares hop-by-hop.                         *)
ConnectionTokens(h) ==
    IF Usable(h, "connection") THEN Range(h["connection"]) ELSE {}

CopyHeaders(h, strip) ==
    Restrict(h, DOMAIN h \ (HopByHop \cup strip \cup ConnectionTokens(h)))

(* Request headers of the upstream request, once the ID has been inserted.    *)
ForwardedHeaders(u, req, size) ==
    LET incoming == Put(req.headers, "x-request-id", RequestId(req.headers))
        sized == Put(CopyHeaders(incoming, RequestStrip), "content-length", size)
    IN IF u.apiKey = None THEN sized
       ELSE Put(sized, "authorization", <<"Bearer">> \o u.apiKey)

-----------------------------------------------------------------------------
(* Responses.                                                                 *)

StatusOf(error) ==
    CASE error = "unauthorized" -> 401
      [] error \in {"bad_body", "no_model"} -> 400
      [] error = "unknown_model" -> 404
      [] error = "too_large" -> 413
      [] error = "bad_gateway" -> 502
      [] error = "internal" -> 500

IsError(status) == status \in 400..599

(* An error and an answer without content are not scanned for token counters. *)
Observed(status) == ~IsError(status) /\ status # 204

IsStreaming(h) ==
    /\ Usable(h, "content-type")
    /\ Head(h["content-type"]) = "text/event-stream"

=============================================================================
