--------------------------- MODULE StartupProofs ---------------------------
(* Proofs about Startup.tla, for any command lines, files and renewals.       *)
EXTENDS Startup, IntervalLemmas, TLAPS

IInv == StartupInv /\ CaughtAtLoad

(* Nothing is loaded to begin with (main.rs main).                            *)
LEMMA InitInv == Init => IInv
BY DEF Init, IInv, StartupInv, CaughtAtLoad, Loaded

(* A process that has ended owes nothing but the reason (main.rs main).       *)
LEMMA EndsKeeps ==
    ASSUME IInv, NEW code, Ends(code),
           failed' \in {None, "loading", "certificate", "key", "binding"}
    PROVE  IInv'
BY DEF Ends, IInv, StartupInv, CaughtAtLoad, Loaded

(* What Config::validate accepts Gateway::new accepts (config.rs, gateway.rs).*)
LEMMA NothingLeftToRefuse ==
    ASSUME IInv, stage = "building"
    PROVE  Validates(config) /\ Resolves(config)
BY DEF IInv, StartupInv, Loaded, Accepted, Validates, UrlsChecked, Resolves

(* What was read stays what it was, however often it is asked (config.rs).    *)
LEMMA AcceptedStays ==
    ASSUME UNCHANGED <<start, config>>, Accepted PROVE Accepted'
<1>1. ConfigPath' = ConfigPath
    BY DEF ConfigPath
<1>2. Readable'
    BY <1>1 DEF Accepted, Readable
<1>3. Validates(config)'
    BY DEF Accepted, Validates, HealthChecked, UrlsChecked, UrlAccepted
<1>4. (config = Config(start.files[ConfigPath]))'
    BY <1>1 DEF Accepted
<1> QED
    BY <1>2, <1>3, <1>4 DEF Accepted

(* Every step preserves both together.                                        *)
LEMMA NextInv == IInv /\ [Next]_vars => IInv'
<1> SUFFICES ASSUME IInv, [Next]_vars PROVE IInv'
    OBVIOUS
<1>1. CASE Usage \/ ShutDown \/ SignalKills
    <2>1. failed' \in {None, "loading", "certificate", "key", "binding"}
        BY <1>1 DEF Usage, ShutDown, SignalKills, IInv, CaughtAtLoad
    <2>2. \E code : Ends(code)
        BY <1>1 DEF Usage, ShutDown, SignalKills
    <2> QED
        BY <2>1, <2>2, EndsKeeps
<1>2. CASE LoadFails
    BY <1>2, EndsKeeps DEF LoadFails, Fails
<1>3. CASE ParseArguments
    BY <1>3 DEF ParseArguments, IInv, StartupInv, CaughtAtLoad, Loaded
<1>4. CASE Load
    <2>1. /\ Readable /\ Validates(config') /\ start' = start
          /\ config' = Config(start.files[ConfigPath])
          /\ stage' \in {"building", "certificate"}
        BY <1>4 DEF Load
    <2>2. Validates(config)'
        BY <2>1 DEF Validates, HealthChecked, UrlsChecked, UrlAccepted
    <2>3. ConfigPath' = ConfigPath
        BY <2>1 DEF ConfigPath
    <2>4. Readable'
        BY <2>1, <2>3 DEF Readable
    <2>5. Accepted'
        BY <2>1, <2>2, <2>3, <2>4 DEF Accepted
    <2> QED
        BY <1>4, <2>1, <2>5 DEF Load, IInv, StartupInv, CaughtAtLoad, Loaded
<1>5. CASE LoadCertificate
    <2>1. CASE Fails
        BY <1>5, <2>1, EndsKeeps DEF LoadCertificate, Fails
    <2>2. CASE ~Fails
        BY <1>5, <2>2, AcceptedStays DEF LoadCertificate, IInv, StartupInv, CaughtAtLoad, Loaded
    <2> QED
        BY <2>1, <2>2
<1>6. CASE LoadKey
    <2>1. CASE Fails
        BY <1>6, <2>1, EndsKeeps DEF LoadKey, Fails
    <2>2. CASE ~Fails
        BY <1>6, <2>2, AcceptedStays DEF LoadKey, BelongsTo, IInv, StartupInv, CaughtAtLoad, Loaded
    <2> QED
        BY <2>1, <2>2
<1>7. CASE Build
    BY <1>7, NothingLeftToRefuse, AcceptedStays DEF Build, IInv, StartupInv, CaughtAtLoad, Loaded
<1>8. CASE SpawnProber
    BY <1>8, AcceptedStays DEF SpawnProber, IInv, StartupInv, CaughtAtLoad, Loaded
<1>9. CASE Bind
    <2>1. CASE Fails
        BY <1>9, <2>1, EndsKeeps DEF Bind, Fails
    <2>2. CASE ~Fails
        BY <1>9, <2>2, AcceptedStays DEF Bind, IInv, StartupInv, CaughtAtLoad, Loaded
    <2> QED
        BY <2>1, <2>2
<1>10. CASE Arm \/ Renew \/ Occupy \/ UNCHANGED vars
    BY <1>10, AcceptedStays DEF Arm, Renew, Occupy, vars, IInv, StartupInv, CaughtAtLoad, Loaded
<1> QED
    BY <1>1, <1>2, <1>3, <1>4, <1>5, <1>6, <1>7, <1>8, <1>9, <1>10
       DEF Next, Proceed

(* The invariant holds throughout (main.rs run).                              *)
LEMMA Inductive == Spec => []IInv
BY InitInv, NextInv, PTL DEF Spec

(* A configuration that has been loaded is not refused later                  *)
(* (config.rs validate, resolve_upstreams).                                   *)
THEOREM RefusedAtLoad == Spec => []CaughtAtLoad
BY Inductive, PTL DEF IInv

(* With TLS the gateway serves with a certificate and its own key, without    *)
(* TLS with neither (main.rs run, tls.rs load_server_config).                 *)
THEOREM OnePair == Spec => []ServesOnePair
<1>1. IInv => ServesOnePair
    BY DEF IInv, StartupInv, ServesOnePair
<1> QED
    BY <1>1, Inductive, PTL

(* A certificate nobody vouches for is accepted from exactly the upstreams    *)
(* that are marked for it (Gateway::new, dispatch, probe_loop).               *)
THEOREM VerifiedUnlessTold == Spec => []VerifiesUnlessTold
<1>1. ASSUME IInv, stage = "serving",
             NEW name \in DOMAIN config.upstreams, NEW certificate \in Certificates
      PROVE  Accepts(ClientFor(gateway, gateway.upstreams[name]), certificate)
                <=> /\ certificate.signed
                    /\ certificate.trusted \/ config.upstreams[name].insecure
    <2> DEFINE upstreams == [n \in DOMAIN config.upstreams |-> Upstream(config.upstreams[n])]
               insecure == config.upstreams[name].insecure
    <2>1. gateway = GatewayOf(config)
        BY <1>1 DEF IInv, StartupInv
    <2>2. /\ gateway.upstreams = upstreams /\ gateway.client = "verifying"
          /\ NeedsInsecure(upstreams) => gateway.insecureClient = "accepting"
        BY <2>1 DEF GatewayOf
    <2>3. upstreams[name].insecure = insecure
        BY DEF Upstream
    <2>4. CASE insecure
        <3>1. NeedsInsecure(upstreams)
            BY <2>3, <2>4 DEF NeedsInsecure
        <3> QED
            BY <2>2, <2>3, <2>4, <3>1, NoneAssumption DEF ClientFor, OrElse, Accepts
    <2>5. CASE ~insecure
        BY <2>2, <2>3, <2>5 DEF ClientFor, Accepts
    <2> QED
        BY <2>4, <2>5
<1>2. IInv => VerifiesUnlessTold
    BY <1>1 DEF VerifiesUnlessTold
<1> QED
    BY <1>2, Inductive, PTL

-----------------------------------------------------------------------------
(* Types.                                                                     *)

(* The path of the configuration is that of a file (main.rs config_path).     *)
LEMMA PathIsNamed ==
    ASSUME start \in Starts PROVE ConfigPath \in DOMAIN start.files
<1>1. \A path \in {start.flag, start.positional, start.variable, "config.toml"} :
         path # None => path \in DOMAIN start.files
    BY StartAssumption
<1>2. ConfigPath \in {start.flag, start.positional, start.variable, "config.toml"}
    BY DEF ConfigPath, OrElse
<1>3. ConfigPath # None
    BY NoneAssumption DEF ConfigPath, OrElse
<1> QED
    BY <1>1, <1>2, <1>3

(* What loads is a configuration and makes a gateway (config.rs load).        *)
LEMMA LoadedIsSome ==
    ASSUME start \in Starts, Readable, Validates(Config(start.files[ConfigPath]))
    PROVE  /\ Config(start.files[ConfigPath]) # None
           /\ GatewayOf(Config(start.files[ConfigPath])) # None
BY PathIsNamed, LoadedAssumption DEF Readable, Validates, UrlsChecked, Resolves

(* A process ends once, with a code, and gives the port back (main.rs main).  *)
LEMMA EndsType ==
    ASSUME TypeOK, stage # "ended",
           NEW code \in {"success", "failure", "usage error", "killed"}, Ends(code),
           failed' = failed \/ code = "failure"
    PROVE  TypeOK'
<1>1. failed = None
    BY NoneAssumption DEF TypeOK
<1>2. code # None
    BY NoneAssumption
<1> QED
    BY <1>1, <1>2 DEF TypeOK, Ends, Stages, Loaded

(* Every step preserves the type invariant (main.rs run).                     *)
LEMMA NextType == TypeOK /\ IInv /\ [Next]_vars => TypeOK'
<1> SUFFICES ASSUME TypeOK, IInv, [Next]_vars PROVE TypeOK'
    OBVIOUS
<1>1. ASSUME Fails, stage # "ended" PROVE TypeOK'
    BY <1>1, EndsType DEF Fails
<1>2. CASE Usage \/ ShutDown \/ SignalKills
    <2>1. stage # "ended" /\ failed' = failed
        BY <1>2 DEF Usage, ShutDown, SignalKills
    <2>2. \E code \in {"success", "failure", "usage error", "killed"} : Ends(code)
        BY <1>2 DEF Usage, ShutDown, SignalKills
    <2> QED
        BY <2>1, <2>2, EndsType
<1>3. CASE LoadFails
    BY <1>1, <1>3 DEF LoadFails
<1>4. CASE ParseArguments
    BY <1>4 DEF ParseArguments, TypeOK, Stages, Loaded
<1>5. CASE Load
    <2>1. config' # None
        BY <1>5, LoadedIsSome DEF Load, TypeOK
    <2> QED
        BY <1>5, <2>1 DEF Load, TypeOK, Stages, Loaded
<1>6. CASE LoadCertificate
    BY <1>1, <1>6 DEF LoadCertificate, TypeOK, Stages, Loaded
<1>7. CASE LoadKey
    BY <1>1, <1>7 DEF LoadKey, TypeOK, Stages, Loaded
<1>8. CASE Build
    <2>1. GatewayOf(config) # None
        BY <1>8, LoadedIsSome DEF Build, IInv, StartupInv, Loaded, Accepted, TypeOK
    <2> QED
        BY <1>1, <1>8, <2>1 DEF Build, TypeOK, Stages, Loaded
<1>9. CASE SpawnProber
    BY <1>9 DEF SpawnProber, TypeOK, Stages, Loaded
<1>10. CASE Bind
    BY <1>1, <1>10 DEF Bind, TypeOK, Stages, Loaded
<1>11. CASE Renew
    <2>1. DOMAIN pem' = DOMAIN pem
        BY <1>11 DEF Renew
    <2> QED
        BY <1>11, <2>1 DEF Renew, TypeOK, Loaded
<1>12. CASE Arm \/ Occupy \/ UNCHANGED vars
    BY <1>12 DEF Arm, Occupy, vars, TypeOK, Loaded
<1> QED
    BY <1>2, <1>3, <1>4, <1>5, <1>6, <1>7, <1>8, <1>9, <1>10, <1>11, <1>12
       DEF Next, Proceed

(* Every variable keeps its type, the port is ours exactly while the gateway  *)
(* serves, and a process has a code exactly when it has ended (main.rs).      *)
THEOREM TypeCorrect == Spec => []TypeOK
<1>1. Init => TypeOK
    BY DEF Init, TypeOK, Stages, Loaded
<1>2. TypeOK /\ IInv /\ [Next]_vars => TypeOK'
    BY NextType
<1> QED
    BY <1>1, <1>2, Inductive, PTL DEF Spec

-----------------------------------------------------------------------------
(* What a gateway that serves has.                                            *)

(* What is left of a path that begins with a slash can be put before another  *)
(* one: it is empty, or begins with a slash and does not end with one         *)
(* (config.rs resolve_upstreams).                                             *)
LEMMA PrefixJoins ==
    ASSUME NEW path \in Seq(STRING), path # <<>> => Head(path) = "/"
    PROVE  Joins(Prefix(path))
<1> DEFINE named == {i \in DOMAIN path : path[i] # "/"}
           last == CHOOSE i \in named : \A j \in named : j <= i
<1>1. CASE named = {}
    <2>1. Prefix(path) = <<>>
        BY <1>1 DEF Prefix
    <2> QED
        BY <2>1 DEF Joins
<1>2. CASE named # {}
    <2>1. named \in SUBSET Nat /\ \A i \in named : i \in Nat /\ i <= Len(path)
        OBVIOUS
    <2> HIDE DEF named
    <2>2. \E i \in named : \A j \in named : j <= i
        <3>1. Len(path) \in Nat
            OBVIOUS
        <3>2. Max(named) \in named /\ \A j \in named : j <= Max(named)
            BY <1>2, <2>1, <3>1, MaxIsGreatest
        <3> QED
            BY <3>2
    <2>3. last \in named
        BY <2>2
    <2> USE DEF named
    <2> HIDE DEF last
    <2>4. last \in 1..Len(path) /\ path[last] # "/"
        BY <2>3
    <2>5. Prefix(path) = SubSeq(path, 1, last)
        BY <1>2 DEF Prefix, last
    <2>6. /\ Len(SubSeq(path, 1, last)) = last
          /\ SubSeq(path, 1, last)[1] = path[1] /\ SubSeq(path, 1, last)[last] = path[last]
        BY <2>4
    <2> QED
        BY <2>4, <2>5, <2>6 DEF Joins, Last
<1> QED
    BY <1>1, <1>2

(* The upstreams of the gateway are those of the file, with prefixes that can *)
(* be joined (Config::resolve_upstreams).                                     *)
LEMMA ResolvedUpstreams ==
    ASSUME TypeOK, IInv, stage = "serving",
           NEW name \in DOMAIN config.upstreams
    PROVE  /\ Joins(gateway.upstreams[name].prefix)
           /\ gateway.upstreams[name].base.host = config.upstreams[name].baseUrl.host
           /\ gateway.upstreams[name].apiKey = config.upstreams[name].apiKey
           /\ gateway.upstreams[name].upstreamModel = config.upstreams[name].upstreamModel
<1>1. gateway.upstreams[name] = Upstream(config.upstreams[name])
    BY DEF IInv, StartupInv, GatewayOf
<1> DEFINE path == config.upstreams[name].baseUrl.path
<1>2. path \in Seq(STRING) /\ (path # <<>> => Head(path) = "/")
    BY PathIsNamed, LoadedAssumption
       DEF IInv, StartupInv, Loaded, Accepted, Readable, TypeOK, Validates, UrlsChecked, Resolves
<1>3. /\ gateway.upstreams[name].prefix = Prefix(path)
      /\ gateway.upstreams[name].base.host = config.upstreams[name].baseUrl.host
      /\ gateway.upstreams[name].apiKey = config.upstreams[name].apiKey
      /\ gateway.upstreams[name].upstreamModel = config.upstreams[name].upstreamModel
    BY <1>1 DEF Upstream
<1> QED
    BY <1>1, <1>2, <1>3, PrefixJoins

(* A gateway that serves has a valid routing table, prefixes that can be      *)
(* joined, and a prober exactly if it is asked for (Gateway::new, main.rs).   *)
THEOREM ServedIsValid == Spec => []ServesValid
<1>1. ASSUME TypeOK, IInv, stage = "serving"
      PROVE  /\ ValidConfig([config EXCEPT !.upstreams = gateway.upstreams])
             /\ DOMAIN config.upstreams = DOMAIN gateway.upstreams
             /\ gateway.models = DOMAIN gateway.upstreams
             /\ \A name \in DOMAIN gateway.upstreams :
                   /\ Joins(gateway.upstreams[name].prefix)
                   /\ gateway.upstreams[name].base.host = config.upstreams[name].baseUrl.host
             /\ prober = "running" <=> config.health.enabled
             /\ prober = "running" => config.health.interval_secs > 0
    <2>1. gateway = GatewayOf(config) /\ Validates(config)
        BY <1>1 DEF IInv, StartupInv, Loaded, Accepted
    <2>2. /\ DOMAIN gateway.upstreams = DOMAIN config.upstreams
          /\ gateway.models = DOMAIN gateway.upstreams
        BY <2>1 DEF GatewayOf, ModelsBody
    <2>3. \A name \in DOMAIN config.upstreams :
             /\ Joins(gateway.upstreams[name].prefix)
             /\ gateway.upstreams[name].base.host = config.upstreams[name].baseUrl.host
             /\ gateway.upstreams[name].apiKey = config.upstreams[name].apiKey
             /\ gateway.upstreams[name].upstreamModel = config.upstreams[name].upstreamModel
        BY <1>1, ResolvedUpstreams
    <2>4. ValidConfig([config EXCEPT !.upstreams = gateway.upstreams])
        <3> DEFINE table == [config EXCEPT !.upstreams = gateway.upstreams]
        <3>1. config = Config(start.files[ConfigPath])
            BY <1>1 DEF IInv, StartupInv, Loaded, Accepted
        <3>2. /\ table.upstreams = gateway.upstreams /\ table.maxBody = config.maxBody
              /\ table.auth = config.auth /\ table.default = config.default
            BY <3>1 DEF Config
        <3>3. ValidConfig(config)
            BY <2>1 DEF Validates
        <3> HIDE DEF table
        <3>4. ValidConfig(table)
            BY <2>2, <2>3, <3>2, <3>3 DEF ValidConfig
        <3> QED
            BY <3>4 DEF table
    <2>5. /\ prober = "running" <=> config.health.enabled
          /\ prober = "running" => config.health.interval_secs > 0
        BY <1>1, <2>1 DEF IInv, StartupInv, Validates, HealthChecked
    <2> QED
        BY <2>2, <2>3, <2>4, <2>5
<1>2. TypeOK /\ IInv => ServesValid
    BY <1>1 DEF ServesValid
<1> QED
    BY <1>2, Inductive, TypeCorrect, PTL
=============================================================================
