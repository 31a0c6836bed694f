----------------------------- MODULE MCStartup -----------------------------
(* Startup.tla with a sound configuration, every single thing that can be     *)
(* wrong with one, mixes of upstreams, and PEM files of two key pairs.        *)
EXTENDS Startup

Url(path) == [scheme |-> "https", host |-> "h", path |-> path, query |-> None]
Plain == Url(<<"/">>)

Urls ==
    {Plain, Url(<<"/", "v">>), Url(<<"/", "v", "/">>), Url(<<"/", "v", "/", "/">>),
     Url(<<"/", "v", "/", "w", "/">>), Url(<<"/", "/">>), Garbage,
     [Plain EXCEPT !.scheme = "ftp"], [Plain EXCEPT !.query = "q"],
     [Plain EXCEPT !.scheme = None], [Plain EXCEPT !.scheme = None, !.host = None]}

(* The tables of one upstream.                                                *)
Sound == [base_url |-> Plain]
Flagged == [base_url |-> Plain, insecure_skip_verify |-> TRUE]

UpstreamTables ==
    {[base_url |-> url] : url \in Urls}
    \cup {Flagged, [api_key |-> <<"k">>], [base_url |-> Plain, note |-> "n"],
          [base_url |-> Plain, api_key |-> <<"k">>, upstream_model |-> <<"m">>],
          [base_url |-> Plain, api_key |-> <<>>],
          [base_url |-> Plain, upstream_model |-> <<>>]}

UpstreamsTables ==
    {<<>>, <<>> :> Sound}
    \cup {(<<"a">> :> one @@ <<"b">> :> other) : one \in UpstreamTables, other \in {Sound, Flagged}}

ServerTables ==
    {[listen |-> "any"], [listen |-> Garbage], <<>>,
     [listen |-> "any", note |-> "n"],
     [listen |-> "any", max_body_bytes |-> 0],
     [listen |-> "any", default_upstream |-> <<"b">>],
     [listen |-> "any", default_upstream |-> <<"nope">>],
     [listen |-> "any", tls |-> [cert_path |-> "cert.pem"]],
     [listen |-> "any", tls |-> [cert_path |-> "cert.pem", key_path |-> "key.pem"]],
     [listen |-> "any", tls |-> [cert_path |-> "key.pem", key_path |-> "key.pem"]]}
    \cup {[listen |-> "any", health |-> health] :
             health \in {[enabled |-> FALSE, interval_secs |-> 0],
                         [interval_secs |-> 0], [timeout_secs |-> 0],
                         [mode |-> "tcp"], [mode |-> "ping"], [note |-> "n"]}}

AuthTables ==
    {<<>>, [enabled |-> TRUE], [enabled |-> TRUE, keys |-> <<"k">> :> "alice"], [note |-> "n"]}

BaseUpstreams == <<"a">> :> Sound @@ <<"b">> :> Flagged

Files ==
    {Missing, Garbage, [server |-> [listen |-> "any"]]}
    \cup {[server |-> server, upstreams |-> BaseUpstreams] : server \in ServerTables}
    \cup {[server |-> [listen |-> "any", default_upstream |-> <<"b">>],
           upstreams |-> upstreams] : upstreams \in UpstreamsTables}
    \cup {[server |-> [listen |-> "any"], auth |-> auth, upstreams |-> BaseUpstreams] :
             auth \in AuthTables}

At(path, file) ==
    [p \in {"config.toml", "a.toml", "b.toml"} |-> IF p = path THEN file ELSE Missing]

NoArguments ==
    [usage |-> "run", flag |-> None, positional |-> None, variable |-> None]

(* Any file at the default place; a sound one elsewhere, named or not.        *)
MCStarts ==
    {NoArguments @@ [files |-> At("config.toml", file)] : file \in Files}
    \cup {[usage |-> usage, flag |-> flag, positional |-> positional, variable |-> variable,
           files |-> At("a.toml", [server |-> [listen |-> "any"], upstreams |-> BaseUpstreams])] :
             usage \in {"run"}, flag \in {None, "a.toml"},
             positional \in {None, "a.toml", "b.toml"}, variable \in {None, "a.toml"}}
    \cup {[NoArguments EXCEPT !.usage = usage] @@ [files |-> At("a.toml", Missing)] :
             usage \in {"help", "wrong"}}

Certificate(pair) == [cert |-> pair, key |-> None]
Key(pair) == [cert |-> None, key |-> pair]

(* The key may be in one file with its certificate.                           *)
MCPems ==
    [{"cert.pem"} -> {Missing, Garbage, Certificate(1), Certificate(2), Key(1)}] \X
    [{"key.pem"} -> {Missing, Garbage, Key(1), Key(2), [cert |-> 2, key |-> 2]}]

MCPemFiles == {pair[1] @@ pair[2] : pair \in MCPems}
=============================================================================
