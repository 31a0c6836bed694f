---------------------------- MODULE MCStreaming ----------------------------
(* Exchange.tla with few requests and many responses: sized and unsized       *)
(* bodies, token counters in several frames, an upstream that breaks off or   *)
(* never answers, and a client that leaves at every point.                    *)
EXTENDS Exchange

H(name, value) == [n \in {name} |-> value]

Upstreams ==
    [n \in {<<"a">>} |->
        [base |-> "A", prefix |-> <<>>, apiKey |-> <<"ka">>, upstreamModel |-> None]]

MCConfigs ==
    {[auth |-> [enabled |-> FALSE, keys |-> H(<<"k">>, "alice")],
      default |-> <<"a">>, maxBody |-> 2, upstreams |-> Upstreams]}

Body(size, fields) == [size |-> size, fields |-> fields]

MCRequests ==
    {[method |-> m, path |-> <<"v1", "chat">>, headers |-> H("x-note", <<"n">>),
      chunked |-> ch, body |-> b] :
         m \in {"POST", "HEAD"}, ch \in BOOLEAN,
         b \in {Body(2, <<<<"model", <<"a">>>>>>), Body(3, <<<<"model", <<"a">>>>>>),
                Body(1, <<<<"thinking", <<"high">>>>>>), Body(1, <<<<"model", <<"b">>>>>>)}}

Event == H("content-type", <<"text/event-stream">>)
Json == H("content-type", <<"application/json">>)

MCAnswers ==
    {[status |-> 200, headers |-> Json, length |-> 2],
     [status |-> 200, headers |-> Event, length |-> None],
     [status |-> 200, headers |-> Json, length |-> 0],
     [status |-> 204, headers |-> Json, length |-> None],
     [status |-> 503, headers |-> Json, length |-> 1]}

(* Partial counters, counters whose total is left out (and, for 5, wraps      *)
(* around), complete ones.                                                    *)
Partial == [c \in {"prompt"} |-> 3]
Summed(n) == [c \in {"prompt", "completion"} |-> n]
Whole == [c \in {"prompt", "completion", "total"} |-> 5]

MCFrames ==
    {[size |-> s, report |-> r] : s \in {1}, r \in {None, Partial, Summed(5), Whole}}
    \cup {[size |-> 2, report |-> Partial]}
=============================================================================
