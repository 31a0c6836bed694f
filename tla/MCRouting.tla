----------------------------- MODULE MCRouting -----------------------------
(* Exchange.tla with many requests and configurations and short responses:    *)
(* what is authenticated, routed, rewritten, stripped and refused.            *)
EXTENDS Exchange

Up(base, prefix, apiKey, upstreamModel) ==
    [base |-> base, prefix |-> prefix, apiKey |-> apiKey, upstreamModel |-> upstreamModel]

Keys == [k \in {<<"k1">>, <<"k2">>} |-> IF k = <<"k1">> THEN "alice" ELSE "bob"]

(* "a" has a key and serves the model under its own name, "b" has neither.    *)
TwoUpstreams ==
    [n \in {<<"a">>, <<"b">>} |->
        IF n = <<"a">> THEN Up("A", <<>>, <<"ka">>, None)
                       ELSE Up("B", <<"v">>, None, <<"served">>)]

(* The names cross: "a" serves as "b", so a rewritten body names a route too; *)
(* the key of "b" fits into no header.                                        *)
Crossed ==
    [n \in {<<"a">>, <<"b">>} |->
        IF n = <<"a">> THEN Up("A", <<"v">>, <<"ka">>, <<"b">>)
                       ELSE Up("B", <<>>, NotText, None)]

(* "a" is configured to serve the model under the name it has anyway.         *)
OwnName == [TwoUpstreams EXCEPT ![<<"a">>].upstreamModel = <<"a">>]

MCConfigs ==
    {[auth |-> [enabled |-> TRUE, keys |-> Keys],
      default |-> None, maxBody |-> 2, upstreams |-> TwoUpstreams],
     [auth |-> [enabled |-> FALSE, keys |-> Keys],
      default |-> <<"a">>, maxBody |-> 1, upstreams |-> Crossed],
     [auth |-> [enabled |-> TRUE, keys |-> Keys],
      default |-> <<"b">>, maxBody |-> 3, upstreams |-> OwnName]}

H(name, value) == [n \in {name} |-> value]
NoHeaders == [n \in {} |-> <<>>]
And(g, h) == [n \in DOMAIN g \cup DOMAIN h |-> IF n \in DOMAIN g THEN g[n] ELSE h[n]]

Credentials ==
    {NoHeaders,
     H("authorization", <<"Bearer", "k1">>),
     H("x-api-key", <<"k2">>),
     And(H("authorization", <<"k2">>), H("x-api-key", <<"k1">>)),
     And(H("authorization", NotText), H("x-api-key", <<"k1">>)),
     And(H("authorization", <<"Bearer", "kx">>), H("x-api-key", <<"k1">>))}

Routes == {NoHeaders, H("x-model", <<"a">>), H("x-model", <<"b">>),
           H("x-model", <<>>), H("x-model", <<"nope">>)}

Extras ==
    {NoHeaders,
     And(H("x-request-id", <<"r1">>), H("connection", <<"te", "content-length">>)),
     And(And(H("x-request-id", <<"r1", "r2", "r3">>), H("te", <<"trailers">>)),
         H("connection", <<"x-note">>)),
     And(And(H("x-request-id", <<"r2">>), H("x-note", <<"n">>)),
         H("connection", <<"x-note", "x-request-id">>))}

(* Bodies without a model, with one of every kind and with several; efforts   *)
(* in and against the order of precedence, unusable and repeated; budgets.    *)
Bodies ==
    {[size |-> 0, fields |-> <<>>],
     [size |-> 1, fields |-> <<>>],
     [size |-> 1, fields |-> <<<<"n", 2>>>>],
     [size |-> 2, fields |-> <<<<"model", <<"a">>>>, <<"model", NotAString>>>>],
     [size |-> 2, fields |-> <<<<"model", <<"a">>>>, <<"model", <<"b">>>>>>],
     [size |-> 3, fields |-> <<<<"max_completion_tokens", None>>, <<"model", <<"b">>>>,
                               <<"max_tokens", 7>>, <<"max_output_tokens", 9>>,
                               <<"n", 2>>, <<"n", None>>>>]}
    \cup {[size |-> s, fields |-> <<<<"thinking", <<"low">>>>, <<"model", m>>,
                                    <<"reasoning_effort", <<"high">>>>,
                                    <<"thinking_effort", <<"off">>>>>>] :
             s \in {1, 2}, m \in {<<"a">>, <<"b">>}}
    \cup {[size |-> 2, fields |-> <<<<"model", m>>, <<"reasoning_effort", <<>>>>,
                                    <<"thinking", <<"low">>>>, <<"thinking", <<"high">>>>>>] :
             m \in {<<"served">>, <<>>, NotAString}}

Chat == <<"v1", "chat">>

Req(method, path, headers, chunked, body) ==
    [method |-> method, path |-> path, headers |-> headers,
     chunked |-> chunked, body |-> body]

Plain == [size |-> 1, fields |-> <<<<"model", <<"a">>>>>>]
Empty == [size |-> 0, fields |-> <<>>]
Known == H("x-api-key", <<"k2">>)

(* Every credential with either upstream; every route with every body, with   *)
(* and without a declared length; every extra header; and the paths that the  *)
(* gateway answers itself.                                                    *)
MCRequests ==
    {Req("POST", Chat, And(c, r), FALSE, Plain) :
        c \in Credentials, r \in {NoHeaders, H("x-model", <<"b">>)}}
    \cup {Req("POST", Chat, And(Known, r), chunked, b) :
             r \in Routes, chunked \in BOOLEAN, b \in Bodies}
    \cup {Req(m, Chat, And(And(Known, H("x-model", <<"b">>)), x), FALSE, Plain) :
             m \in {"POST", "HEAD"}, x \in Extras}
    \cup {Req(m, p, c, FALSE, Empty) :
             m \in {"GET", "HEAD"}, c \in {NoHeaders, Known},
             p \in {<<"healthz">>, <<"v1", "models">>}}

MCAnswers ==
    {[status |-> 200, headers |-> H("x-request-id", <<"theirs">>), length |-> 1]}

MCFrames == {[size |-> 1, report |-> None]}
=============================================================================
