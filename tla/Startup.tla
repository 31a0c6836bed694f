------------------------------ MODULE Startup ------------------------------
(* From the command line to the accept loop (main.rs, config.rs, tls.rs,      *)
(* Gateway::new): one attempt to start the gateway, and how it ends.          *)
(*                                                                            *)
(* A file is what is in it: a configuration is its TOML tables, a PEM file    *)
(* the key pairs its certificate and its private key belong to.  Certificates *)
(* are renewed, file by file, while the gateway starts, another process may   *)
(* hold the port, and a signal may arrive.                                    *)
EXTENDS Dispatch

CONSTANTS
    Starts,    \* command lines, environments and configuration files
    Pems,      \* what the PEM files may hold at first, and after a renewal
    Missing,   \* the content of a file that cannot be read
    Garbage    \* a file, an address or a URL that does not parse

ASSUME NoneAssumption ==
    None \notin {"accepting", "success", "failure", "usage error", "killed", "config.toml"}

(* A file that is not there is one that cannot be read.                       *)
ASSUME StartAssumption ==
    \A s \in Starts :
       {s.flag, s.positional, s.variable, "config.toml"} \ {None} \subseteq DOMAIN s.files

VARIABLES
    start,     \* [usage, flag, positional, variable, files]
    pem,       \* the PEM files, by path
    stage,     \* what run() does next
    config,    \* the configuration, once it is loaded
    acceptor,  \* the key pairs of certificate and key, as far as they are read
    gateway,   \* Gateway: upstreams and clients
    prober,    \* "none", or "running"
    port,      \* "free", "taken" by another process, "ours"
    armed,     \* the handlers of the signals are in place
    exit,      \* the exit code, or "killed" by a signal, or None
    failed     \* auxiliary: the stage that failed

vars == <<start, pem, stage, config, acceptor, gateway, prober, port, armed, exit, failed>>

Stages == {"parsing", "loading", "certificate", "key", "building", "probing",
           "binding", "serving", "ended"}

Init ==
    /\ start \in Starts
    /\ pem \in Pems
    /\ stage = "parsing"
    /\ config = None
    /\ acceptor = [cert |-> None, key |-> None]
    /\ gateway = None
    /\ prober = "none"
    /\ port \in {"free", "taken"}
    /\ armed = FALSE
    /\ exit = None
    /\ failed = None

-----------------------------------------------------------------------------
(* The configuration file.                                                    *)

(* -c/--config, the positional argument, the environment, the default.        *)
ConfigPath ==
    OrElse(start.flag, OrElse(start.positional, OrElse(start.variable, "config.toml")))

(* A table with deny_unknown_fields: the fields without a default are there,  *)
(* and no others but those that have one.                                     *)
WellFormed(table, required, defaults) ==
    /\ required \subseteq DOMAIN table
    /\ DOMAIN table \subseteq required \cup DOMAIN defaults

ServerDefaults ==
    [default_upstream |-> None, max_body_bytes |-> 200000000, tls |-> None, health |-> <<>>]

HealthDefaults ==
    [enabled |-> TRUE, interval_secs |-> 10, timeout_secs |-> 2, mode |-> "models"]

AuthDefaults == [enabled |-> FALSE, keys |-> <<>>]

UpstreamDefaults == [api_key |-> None, upstream_model |-> None, insecure_skip_verify |-> FALSE]

(* A field that is absent has its default.                                    *)
Defaulted(table, defaults) ==
    [field \in DOMAIN table \cup DOMAIN defaults |->
        IF field \in DOMAIN table THEN table[field] ELSE defaults[field]]

ServerTable(raw) == Defaulted(raw.server, ServerDefaults)
HealthTable(raw) == Defaulted(ServerTable(raw).health, HealthDefaults)
AuthTable(raw) == Defaulted(raw, [auth |-> <<>>]).auth

(* toml::from_str succeeds.                                                   *)
Deserializes(raw) ==
    /\ raw # Garbage
    /\ WellFormed(raw, {"server", "upstreams"}, [auth |-> <<>>])
    /\ WellFormed(raw.server, {"listen"}, ServerDefaults)
    /\ WellFormed(ServerTable(raw).health, {}, HealthDefaults)
    /\ HealthTable(raw).mode \in {"models", "tcp"}
    /\ ServerTable(raw).tls # None =>
          WellFormed(ServerTable(raw).tls, {"cert_path", "key_path"}, <<>>)
    /\ WellFormed(AuthTable(raw), {}, AuthDefaults)
    /\ \A name \in DOMAIN raw.upstreams :
          WellFormed(raw.upstreams[name], {"base_url"}, UpstreamDefaults)

UpstreamConfig(table) ==
    LET t == Defaulted(table, UpstreamDefaults)
    IN [baseUrl |-> t.base_url, apiKey |-> t.api_key,
        upstreamModel |-> t.upstream_model, insecure |-> t.insecure_skip_verify]

Config(raw) ==
    [listen    |-> raw.server.listen,
     default   |-> ServerTable(raw).default_upstream,
     maxBody   |-> ServerTable(raw).max_body_bytes,
     tls       |-> ServerTable(raw).tls,
     health    |-> HealthTable(raw),
     auth      |-> Defaulted(AuthTable(raw), AuthDefaults),
     upstreams |-> [name \in DOMAIN raw.upstreams |-> UpstreamConfig(raw.upstreams[name])]]

-----------------------------------------------------------------------------
(* Validation.  A URL is [scheme, host, path, query]; its path is a sequence  *)
(* of slashes and of what is between them.                                    *)

UrlAccepted(url) ==
    /\ url # Garbage
    /\ url.scheme \in {"http", "https"}
    /\ url.host # None
    /\ url.query = None

(* Slip: one slash at most is taken off the end.                              *)
PrefixTrimmedOnce(path) ==
    IF path \in {<<>>, <<"/">>} THEN <<>>
    ELSE IF Last(path) = "/" THEN Front(path) ELSE path

Prefix(path) ==
    LET named == {i \in DOMAIN path : path[i] # "/"}
    IN SubSeq(path, 1, IF named = {} THEN 0 ELSE CHOOSE i \in named : \A j \in named : j <= i)

(* Slip: only the upstream that requests fall back to is looked at.           *)
UrlsCheckedOfDefault(c) ==
    \A name \in DOMAIN c.upstreams :
       name = c.default => UrlAccepted(c.upstreams[name].baseUrl)

UrlsChecked(c) == \A name \in DOMAIN c.upstreams : UrlAccepted(c.upstreams[name].baseUrl)

(* The settings of a prober that is not asked for are not looked at.          *)
HealthChecked(c) ==
    c.health.enabled => c.health.interval_secs > 0 /\ c.health.timeout_secs > 0

(* A blank address does not parse either.                                     *)
Validates(c) ==
    /\ c.listen # Garbage
    /\ HealthChecked(c)
    /\ UrlsChecked(c)
    /\ ValidConfig(c)

Upstream(u) ==
    [base |-> [scheme |-> u.baseUrl.scheme, host |-> u.baseUrl.host],
     prefix |-> Prefix(u.baseUrl.path), apiKey |-> u.apiKey,
     upstreamModel |-> u.upstreamModel, insecure |-> u.insecure]

-----------------------------------------------------------------------------
(* The clients for the upstreams.                                             *)

(* What a client says of a server that presents a certificate: the one that   *)
(* skips the verification still looks at the signature of the handshake.      *)
Accepts(client, certificate) ==
    certificate.signed /\ (client = "verifying" => certificate.trusted)

(* Slip: the client is built only if every upstream asks for it.              *)
NeedsInsecureAll(upstreams) == \A name \in DOMAIN upstreams : upstreams[name].insecure

NeedsInsecure(upstreams) == \E name \in DOMAIN upstreams : upstreams[name].insecure

(* The client of an upstream, for requests and for probes.                    *)
ClientFor(g, u) == IF u.insecure THEN OrElse(g.insecureClient, g.client) ELSE g.client

-----------------------------------------------------------------------------
(* The steps of main() and run().                                             *)

Ends(code) ==
    /\ exit' = code
    /\ stage' = "ended"
    /\ prober' = "none"
    /\ port' = IF port = "ours" THEN "free" ELSE port
    /\ UNCHANGED <<start, pem, config, acceptor, gateway, armed>>

(* Slip: the exit code does not tell.                                         *)
FailsQuietly == Ends("success") /\ failed' = stage

(* An error on stderr.                                                        *)
Fails == Ends("failure") /\ failed' = stage

(* Help and version, or a usage error: clap ends the process.                 *)
Usage ==
    /\ stage = "parsing"
    /\ start.usage # "run"
    /\ Ends(IF start.usage = "help" THEN "success" ELSE "usage error")
    /\ UNCHANGED failed

ParseArguments ==
    /\ stage = "parsing"
    /\ start.usage = "run"
    /\ stage' = "loading"
    /\ UNCHANGED <<start, pem, config, acceptor, gateway, prober, port, armed, exit, failed>>

(* The text, read and parsed.                                                 *)
Readable == start.files[ConfigPath] # Missing /\ Deserializes(start.files[ConfigPath])

Load ==
    /\ stage = "loading"
    /\ Readable
    /\ Validates(Config(start.files[ConfigPath]))
    /\ config' = Config(start.files[ConfigPath])
    /\ stage' = IF config'.tls = None THEN "building" ELSE "certificate"
    /\ UNCHANGED <<start, pem, acceptor, gateway, prober, port, armed, exit, failed>>

(* Slip: the error of a configuration that does not validate gets lost.       *)
LoadFailsUnread ==
    /\ stage = "loading"
    /\ ~Readable
    /\ Fails

LoadFails ==
    /\ stage = "loading"
    /\ ~(Readable /\ Validates(Config(start.files[ConfigPath])))
    /\ Fails

(* The pair a PEM file holds a certificate or a key of, None for none.        *)
Held(path, part) ==
    IF pem[path] \in {Missing, Garbage} THEN None ELSE pem[path][part]

LoadCertificate ==
    /\ stage = "certificate"
    /\ LET pair == Held(config.tls.cert_path, "cert")
       IN IF pair = None THEN Fails
          ELSE /\ acceptor' = [acceptor EXCEPT !.cert = pair]
               /\ stage' = "key"
               /\ UNCHANGED <<start, pem, config, gateway, prober, port, armed, exit, failed>>

(* Slip: any private key will do.                                             *)
BelongsToAny(key, certificate) == key # None

(* ServerConfig::with_single_cert refuses the key of another pair.            *)
BelongsTo(key, certificate) == key = certificate

LoadKey ==
    /\ stage = "key"
    /\ LET pair == Held(config.tls.key_path, "key")
       IN IF ~BelongsTo(pair, acceptor.cert) THEN Fails
          ELSE /\ acceptor' = [acceptor EXCEPT !.key = pair]
               /\ stage' = "building"
               /\ UNCHANGED <<start, pem, config, gateway, prober, port, armed, exit, failed>>

(* GET /v1/models lists what a request may name.                              *)
ModelsBody(upstreams) == DOMAIN upstreams

GatewayOf(c) ==
    LET upstreams == [name \in DOMAIN c.upstreams |-> Upstream(c.upstreams[name])]
    IN [upstreams |-> upstreams, models |-> ModelsBody(upstreams), client |-> "verifying",
        insecureClient |-> IF NeedsInsecure(upstreams) THEN "accepting" ELSE None]

(* Config::resolve_upstreams parses the URLs again.                           *)
Resolves(c) == \A name \in DOMAIN c.upstreams : UrlAccepted(c.upstreams[name].baseUrl)

(* Gateway::new validates once more and resolves the upstreams.               *)
Build ==
    /\ stage = "building"
    /\ IF ~(Validates(config) /\ Resolves(config)) THEN Fails
       ELSE /\ gateway' = GatewayOf(config)
            /\ stage' = "probing"
            /\ UNCHANGED <<start, pem, config, acceptor, prober, port, armed, exit, failed>>

SpawnProber ==
    /\ stage = "probing"
    /\ prober' = IF config.health.enabled THEN "running" ELSE "none"
    /\ stage' = "binding"
    /\ UNCHANGED <<start, pem, config, acceptor, gateway, port, armed, exit, failed>>

Bind ==
    /\ stage = "binding"
    /\ IF port = "taken" THEN Fails
       ELSE /\ port' = "ours"
            /\ stage' = "serving"
            /\ UNCHANGED <<start, pem, config, acceptor, gateway, prober, armed, exit, failed>>

(* server::run looks for a signal for the first time: see Server.tla.         *)
Arm ==
    /\ stage = "serving"
    /\ ~armed
    /\ armed' = TRUE
    /\ UNCHANGED <<start, pem, stage, config, acceptor, gateway, prober, port, exit, failed>>

(* The shutdown has come to its end, always a good one.                       *)
ShutDown ==
    /\ stage = "serving"
    /\ armed
    /\ Ends("success")
    /\ UNCHANGED failed

-----------------------------------------------------------------------------
(* The environment.                                                           *)

SignalKills ==
    /\ stage # "ended"
    /\ ~armed
    /\ Ends("killed")
    /\ UNCHANGED failed

(* One file gets the content it has after some renewal.                       *)
Renew ==
    /\ \E path \in DOMAIN pem, renewed \in Pems :
          pem' = [pem EXCEPT ![path] = renewed[path]]
    /\ UNCHANGED <<start, stage, config, acceptor, gateway, prober, port, armed, exit, failed>>

Occupy ==
    /\ port \in {"free", "taken"}
    /\ port' \in {"free", "taken"} \ {port}
    /\ UNCHANGED <<start, pem, stage, config, acceptor, gateway, prober, armed, exit, failed>>

Proceed ==
    \/ Usage \/ ParseArguments \/ Load \/ LoadFails \/ LoadCertificate \/ LoadKey
    \/ Build \/ SpawnProber \/ Bind

Next == Proceed \/ Arm \/ ShutDown \/ SignalKills \/ Renew \/ Occupy

(* The process runs; nothing is assumed of the environment.                   *)
Fairness == WF_vars(Proceed) /\ WF_vars(Arm)

Spec == Init /\ [][Next]_vars /\ Fairness

-----------------------------------------------------------------------------
(* A configuration that loads, and the gateway made from it, are not None,    *)
(* and the path of an address that parses begins with a slash.                *)
ASSUME LoadedAssumption ==
    \A s \in Starts : \A path \in DOMAIN s.files :
       LET c == Config(s.files[path])
       IN (/\ s.files[path] # Missing /\ Deserializes(s.files[path])
           /\ Validates(c) /\ Resolves(c)) =>
             /\ c # None
             /\ GatewayOf(c) # None
             /\ \A name \in DOMAIN c.upstreams :
                   LET parts == c.upstreams[name].baseUrl.path
                   IN parts \in Seq(STRING) /\ (parts # <<>> => Head(parts) = "/")

Loaded == stage \in {"certificate", "key", "building", "probing", "binding", "serving"}

(* The type invariant: and every stage has what the ones before it made       *)
(* (main.rs run).                                                             *)
TypeOK ==
    /\ start \in Starts
    /\ DOMAIN pem \in {DOMAIN files : files \in Pems}
    /\ stage \in Stages
    /\ Loaded => config # None
    /\ stage \in {"probing", "binding", "serving"} => gateway # None
    /\ prober \in {"none", "running"}
    /\ port \in {"free", "taken", "ours"}
    /\ port = "ours" <=> stage = "serving"
    /\ armed \in BOOLEAN
    /\ exit \in {None, "success", "failure", "usage error", "killed"}
    /\ exit = None <=> stage # "ended"
    /\ failed # None => exit = "failure"

(* A configuration that has been loaded is not refused later: what can still  *)
(* fail is what lies outside of it, the PEM files and the port.  The checks   *)
(* of Config::validate and those made when the upstreams are resolved are     *)
(* written down twice, and the first has to cover the second (config.rs).     *)
CaughtAtLoad == failed \in {None, "loading", "certificate", "key", "binding"}

(* Slashes meet only once where a prefix is put before a path.                *)
Joins(prefix) == prefix = <<>> \/ (Head(prefix) = "/" /\ Last(prefix) # "/")

(* A gateway that serves has what the handling of requests relies on: a valid *)
(* routing table with a default that is in it, prefixes that can be joined,   *)
(* the addresses of the file, and a prober only if it is asked for and has a  *)
(* pause between its passes (config.rs, Gateway::new, main.rs run).           *)
ServesValid ==
    stage = "serving" =>
       /\ ValidConfig([config EXCEPT !.upstreams = gateway.upstreams])
       /\ DOMAIN config.upstreams = DOMAIN gateway.upstreams
       /\ gateway.models = DOMAIN gateway.upstreams
       /\ \A name \in DOMAIN gateway.upstreams :
             /\ Joins(gateway.upstreams[name].prefix)
             /\ gateway.upstreams[name].base.host = config.upstreams[name].baseUrl.host
       /\ prober = "running" <=> config.health.enabled
       /\ prober = "running" => config.health.interval_secs > 0

Certificates == [trusted : BOOLEAN, signed : BOOLEAN]

(* A certificate nobody vouches for is accepted from exactly the upstreams    *)
(* that are marked insecure_skip_verify, and a bad signature from none,       *)
(* whatever mix of upstreams there is (Gateway::new, dispatch, probe_loop,    *)
(* tls.rs build_client).                                                      *)
VerifiesUnlessTold ==
    stage = "serving" =>
       \A name \in DOMAIN config.upstreams, certificate \in Certificates :
          Accepts(ClientFor(gateway, gateway.upstreams[name]), certificate)
             <=> /\ certificate.signed
                 /\ certificate.trusted \/ config.upstreams[name].insecure

(* With [server.tls] the gateway never serves in the clear, nor with the key  *)
(* of another certificate, also when the files are renewed between the two    *)
(* reads (main.rs run, tls.rs load_server_config).                            *)
ServesOnePair ==
    stage = "serving" =>
       /\ config.tls # None <=> acceptor.cert # None
       /\ acceptor.cert = acceptor.key

(* What most of the above rest on: the settings that have passed are kept,    *)
(* the acceptor has got exactly as far as the stage says, the clients are     *)
(* those the upstreams ask for, and the prober runs only if it was asked for. *)
Accepted == Readable /\ Validates(config) /\ config = Config(start.files[ConfigPath])

StartupInv ==
    /\ Loaded => Accepted
    /\ stage \in {"parsing", "loading", "certificate"} =>
          acceptor = [cert |-> None, key |-> None]
    /\ stage \in {"certificate", "key"} => config.tls # None
    /\ stage = "key" => acceptor = [cert |-> acceptor.cert, key |-> None] /\ acceptor.cert # None
    /\ stage \in {"building", "probing", "binding", "serving"} =>
          /\ config.tls # None <=> acceptor.cert # None
          /\ acceptor.cert = acceptor.key
    /\ stage \in {"probing", "binding", "serving"} =>
          gateway = GatewayOf(config)
    /\ stage \in {"binding", "serving"} => (prober = "running" <=> config.health.enabled)

(* An attempt to start ends: the gateway serves or the process is gone, and   *)
(* it does not hang on a file, a configuration or a port (main.rs main, run). *)
StartSettles == <>(stage \in {"serving", "ended"})
=============================================================================
