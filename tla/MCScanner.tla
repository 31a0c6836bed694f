------------------------------ MODULE MCScanner ------------------------------
(* UsageScanner.tla with event streams and plain answers, cut in every way.   *)
EXTENDS UsageScanner

(* A partial report, two complete ones, and one whose total is left out.      *)
MCReport ==
    [r \in {"u1", "u2", "u3"} |->
        CASE r = "u1" -> [c \in {"prompt"} |-> 3]
          [] r = "u2" -> [c \in {"prompt", "completion"} |-> 5]
          [] r = "u3" -> [c \in {"prompt", "completion", "total"} |-> 2]]

Event(payload) == <<"da", "ta:", "space">> \o payload \o <<"nl", "nl">>
Object(report) == <<"lbrace", report, "rbrace">>
Chunk == <<"lbrace", "quote", "word", "quote", "rbrace">>
Quoting == <<"lbrace", "quote", "da", "ta:", "quote", "rbrace">>
Long == <<"lbrace", "quote", "word", "word", "word", "word", "word", "word", "word", "word", "word", "word", "quote",
          "quote", "word", "quote", "rbrace">>
Done == Event(<<"word">>)

MCStreams ==
    {Event(Chunk) \o Event(Object("u2")) \o Done,
     Event(Object("u3")) \o Event(Object("u1")) \o Event(Object("u2")),
     <<"word", "nl">> \o Event(Object("u1")) \o <<"word", "nl">> \o Event(Object("u2")),
     Event(Quoting) \o Event(Object("u2")),
     Event(Long) \o Event(Chunk) \o Event(Object("u1")) \o Event(Object("u2")),
     <<"lbrace", "nl", "space", "quote", "word", "quote", "nl", "u2", "nl", "rbrace", "nl">>,
     <<"lbrace", "quote", "da", "ta:", "word", "quote", "u3", "rbrace">>}

(* The streams are event streams or plain answers, as the theorems assume.    *)
ASSUME StreamsFramed == \A s \in Streams : Framed(s)
=============================================================================
