------------------------------- MODULE Startup --------------------------------
(* A run of pqtls-server or pqtls-client (src/src/server/main.cpp,             *)
(* src/src/client/main.cpp) from its command line through the configuration    *)
(* (config.cpp), the profile registry, the capabilities and the TLS context    *)
(* (tls_context.cpp) to its exit code.  A path is whether it is given, a number *)
(* whether validate() takes it.  What the operating system, the files and      *)
(* OpenSSL do is a choice.                                                     *)
EXTENDS CommandLine, FiniteSets

CONSTANTS
    CommandLines,  \* [program, argv]: which program, and the tokens after its name
    Files,         \* the layers of settings a --config file may contain
    Catalogue      \* what the registry has: id |-> [mtls, candidates, supported, pq_auth]

\* No --config at all; an empty file changes as little.
NoFile == [s \in {} |-> TRUE]

ASSUME StartupAssumption ==
    /\ \A l \in Files : DOMAIN l \subseteq Settings
    /\ \A c \in CommandLines : c.program \in {"server", "client"} /\ c.argv \in Seq(Token)
    /\ \A id \in DOMAIN Catalogue :
          Catalogue[id] \in [mtls : BOOLEAN, candidates : BOOLEAN, supported : BOOLEAN, pq_auth : BOOLEAN]

VARIABLES
    line,        \* the program and its command line
    args,        \* what parse made of it
    file,        \* the layer in the --config file, or NoFile
    production,  \* PQTLS_ENV is production
    mldsa,       \* this OpenSSL has ML-DSA-65
    config,      \* the configuration
    stage,       \* where the command is
    opened,      \* what it has opened: "metrics", "keylog", "listener"
    exit,        \* the exit code, Running before
    last         \* history: the stage it left

vars   == <<line, args, file, production, mldsa, config, stage, opened, exit, last>>
inputs == <<line, args, file, production, mldsa>>

Running == 1000
command == args.command

Server   == {"serve", "validate-config"}
Commands == [server |-> Server \cup {"capabilities"}, client |-> {"connect", "benchmark", "capabilities"}]

Defaults == [profile |-> "classical-x25519", insecure |-> FALSE, keylog |-> FALSE,
             certificate |-> FALSE, private_key |-> FALSE, ca |-> FALSE, metrics |-> FALSE,
             output |-> FALSE, mtls |-> FALSE, in_range |-> TRUE, message_ok |-> TRUE]

exit_code_for(category) ==
    CASE category = "none" -> 0 [] category = "configuration" -> 2 [] category = "capability" -> 3
      [] category = "certificate" -> 4 [] category = "tls-policy" -> 5 [] category = "handshake" -> 6
      [] category = "network" -> 7 [] category = "protocol" -> 8 [] category = "timeout" -> 9
      [] OTHER -> 70

Categories == {"none", "configuration", "capability", "certificate", "tls-policy", "handshake",
               "network", "protocol", "timeout", "internal"}

parsed == parse(kFlags(line.program), line.argv)

TypeOK ==
    /\ line.program \in {"server", "client"} /\ file \in Files \cup {NoFile}
    /\ args = IF stage = "start" THEN NoArguments ELSE parsed
    /\ production \in BOOLEAN /\ mldsa \in BOOLEAN
    /\ DOMAIN config = Settings
    /\ stage \in {"start", "build", "validate", "registry", "capabilities", "writer", "context", "run", "done"}
    /\ opened \subseteq {"metrics", "keylog", "listener"}
    /\ exit \in {exit_code_for(c) : c \in Categories} \cup {Running}
    /\ stage = "done" <=> exit # Running

Init ==
    /\ line \in CommandLines
    /\ args = NoArguments
    /\ file \in IF has(parsed, "config") THEN Files \cup {NoFile} ELSE {NoFile}
    /\ production \in BOOLEAN /\ mldsa \in BOOLEAN
    /\ config = Defaults
    /\ stage = "start" /\ opened = {} /\ exit = Running /\ last = "start"

-----------------------------------------------------------------------------
Goto(next) == stage' = next /\ last' = stage /\ UNCHANGED exit

\* An exception reaches main, or a command returns its code.
Exit(category) == stage' = "done" /\ last' = stage /\ exit' = exit_code_for(category)

Override(base, over) ==
    [s \in DOMAIN base |-> IF s \in DOMAIN over THEN over[s] ELSE base[s]]

\* --help, --version and no command at all, before any option is looked at.
AsksUsage(a) == has(a, "help") \/ a.command \in {"help", ""} \/ has(a, "version")

Usage ==
    /\ stage = "start"
    /\ args' = parsed
    /\ ~requires_a_value(parsed) /\ AsksUsage(parsed)
    /\ Exit(IF parsed.command = "" /\ ~has(parsed, "help") THEN "configuration" ELSE "none")
    /\ UNCHANGED <<line, file, production, mldsa, config, opened>>

\* What main throws for before a command begins; validate-config wants a file.
Refused(a) ==
    \/ reject_unknown_options(a, kAcceptedOptions(line.program))
    \/ unknown_log_level(a)
    \/ a.command \notin Commands[line.program]
    \/ a.command = "validate-config" /\ ~has(a, "config")

Parse ==
    /\ stage = "start"
    /\ args' = parsed
    /\ \/ requires_a_value(parsed) /\ Exit("configuration")
       \/ /\ ~requires_a_value(parsed) /\ ~AsksUsage(parsed)
          /\ IF Refused(parsed) THEN Exit("configuration")
             ELSE Goto(IF parsed.command = "capabilities" THEN "registry" ELSE "build")
    /\ UNCHANGED <<line, file, production, mldsa, config, opened>>

\* build_config: defaults, then the file, then the command line; for the client
\* --output stands in for a metrics file that is not given.
build_config ==
    /\ stage = "build"
    /\ ~layer_throws(args)
    /\ LET c == Override(Override(config, file), layer(args))
       IN config' = [c EXCEPT !.metrics = @ \/ c.output]
    /\ Goto("validate")
    /\ UNCHANGED <<inputs, opened>>

\* The file is no YAML or a value on the command line is of the wrong type; a value
\* of the wrong type in the file is an exception of yaml-cpp.
build_config_throws ==
    /\ stage = "build"
    /\ \/ layer_throws(args) /\ Exit("configuration")
       \/ has(args, "config") /\ \E category \in {"configuration", "internal"} : Exit(category)
    /\ UNCHANGED <<inputs, config, opened>>

-----------------------------------------------------------------------------
enforce_insecure_mode_policy(c) == c.insecure \/ c.keylog => ~production

Valid(c) ==
    /\ c.profile # "" /\ c.in_range
    /\ c.certificate = c.private_key
    /\ command \in Server => c.certificate /\ (c.mtls => c.ca)
    /\ enforce_insecure_mode_policy(c)
    /\ command = "benchmark" => c.metrics

validate ==
    /\ stage = "validate"
    /\ IF Valid(config) THEN Goto("registry") ELSE Exit("configuration")
    /\ UNCHANGED <<inputs, config, opened>>

\* load_registry, which may throw; then what the commands do before they open
\* anything: validate-config looks the profile up, connect builds its message.
load_registry ==
    /\ stage = "registry"
    /\ \/ \E category \in {"configuration", "internal"} : Exit(category)
       \/ /\ command = "validate-config"
          /\ IF config.profile \in DOMAIN Catalogue THEN Goto("capabilities") ELSE Exit("configuration")
       \/ command \in {"serve", "capabilities"} /\ Goto("capabilities")
       \/ /\ command = "connect"
          /\ IF config.message_ok THEN Goto("writer")
             ELSE \E category \in {"configuration", "protocol"} : Exit(category)
       \/ command = "benchmark" /\ Goto("writer")
    /\ UNCHANGED <<inputs, config, opened>>

\* detect(): each group a profile lists is a candidate and passes its probe.
usable(p) == p.candidates /\ p.supported /\ (p.pq_auth => mldsa)

\* Mutant: what is not usable is reported, and used.
capabilities_reported ==
    /\ stage = "capabilities"
    /\ IF command = "serve" THEN Goto("writer") ELSE Exit("internal")
    /\ UNCHANGED <<inputs, config, opened>>

\* serve takes a profile that the registry lacks for usable: it fails later.
capabilities ==
    /\ stage = "capabilities"
    /\ \/ Exit("internal")
       \/ command = "capabilities" /\ Exit("none")
       \/ /\ command = "validate-config"
          /\ Exit(IF usable(Catalogue[config.profile]) THEN "none" ELSE "capability")
       \/ /\ command = "serve"
          /\ IF config.profile \in DOMAIN Catalogue => usable(Catalogue[config.profile])
             THEN Goto("writer") ELSE Exit("capability")
    /\ UNCHANGED <<inputs, config, opened>>

\* The MetricsWriter's constructor.
open_metrics ==
    /\ stage = "writer"
    /\ \/ config.metrics /\ Exit("configuration") /\ UNCHANGED opened
       \/ Goto("context") /\ opened' = IF config.metrics THEN opened \cup {"metrics"} ELSE opened
    /\ UNCHANGED <<inputs, config>>

\* The profile is found and applied, and no option is one production forbids.
PolicyApplies(c) ==
    /\ c.profile \in DOMAIN Catalogue
    /\ enforce_insecure_mode_policy(c)
    /\ Catalogue[c.profile].supported

PolicyError(c) ==
    IF c.profile \in DOMAIN Catalogue /\ enforce_insecure_mode_policy(c) THEN "capability" ELSE "configuration"

\* A server that asks for client certificates has a CA to verify them with.
Verifiable(c) == command = "serve" /\ (c.mtls \/ Catalogue[c.profile].mtls) => c.ca

\* create_server, create_client: the policy, the key log, the certificates, mutual
\* TLS.  The benchmark's threads create theirs, and none of its connections
\* succeeds when they cannot.
create_context ==
    /\ stage = "context"
    /\ LET throws(category) == Exit(IF command = "benchmark" THEN "handshake" ELSE category) IN
       \/ throws("internal") /\ UNCHANGED opened
       \/ ~PolicyApplies(config) /\ throws(PolicyError(config)) /\ UNCHANGED opened
       \/ PolicyApplies(config) /\ config.keylog /\ throws("configuration") /\ UNCHANGED opened
       \/ /\ PolicyApplies(config)
          /\ opened' = IF config.keylog THEN opened \cup {"keylog"} ELSE opened
          /\ \/ throws("certificate")
             \/ IF Verifiable(config) THEN Goto("run") ELSE throws("configuration")
    /\ UNCHANGED <<inputs, config>>

\* run(), run_once() or run_benchmark().  A server that listens may still fail to
\* create its threads.
run ==
    /\ stage = "run"
    /\ \/ /\ command = "serve"
          /\ \/ Exit("network") /\ UNCHANGED opened
             \/ /\ opened' = opened \cup {"listener"}
                /\ \E category \in {"none", "internal"} : Exit(category)
       \/ /\ command = "connect" /\ UNCHANGED opened
          /\ \E category \in Categories : Exit(category)
       \/ /\ command = "benchmark" /\ UNCHANGED opened
          /\ \E category \in {"none", "handshake"} : Exit(category)
    /\ UNCHANGED <<inputs, config>>

Next == \/ Usage \/ Parse \/ build_config \/ build_config_throws \/ validate \/ load_registry
        \/ capabilities \/ open_metrics \/ create_context \/ run

Spec == Init /\ [][Next]_vars

-----------------------------------------------------------------------------
\* A configuration that validate() refuses opens nothing, and neither does a
\* server whose profile this host cannot provide.  A server listens only with such
\* a profile, a certificate, and a CA if the configuration or the profile asks for
\* client certificates: "Fail before binding when the requested profile cannot be
\* honoured."  But a start can also be refused with its metrics file and key log
\* open, by the TLS context alone: for a profile that the registry lacks or that
\* OpenSSL does not support, a key log that cannot be opened, a profile with mutual
\* TLS and no CA.  The key log is opened only once the profile is applied.  In
\* production nothing runs with development options and no key log is opened,
\* whatever combination of file and command line they come from.
OpensOnlyUsable ==
    /\ production => /\ stage = "run" => ~config.insecure /\ ~config.keylog
                     /\ "keylog" \notin opened
    /\ opened # {} => Valid(config)
    /\ "keylog" \in opened => PolicyApplies(config)
    /\ command = "serve" /\ exit = 3 => opened = {}
    /\ exit \in {2, 3} /\ opened # {} =>
          \/ command = "connect" /\ last = "run"
          \/ /\ last = "context" /\ "listener" \notin opened
             /\ ~PolicyApplies(config) \/ config.keylog \/ ~Verifiable(config)
    /\ "listener" \in opened =>
          /\ config.profile \in DOMAIN Catalogue
          /\ usable(Catalogue[config.profile])
          /\ config.certificate /\ config.private_key
          /\ config.mtls \/ Catalogue[config.profile].mtls => config.ca

\* The tokens that the last option before them takes for its value; the option
\* that every other token with dashes is, and its text.
IsValue ==
    LET argv == line.argv
        value[i \in DOMAIN argv] ==
            /\ i > 1 /\ argv[i - 1].kind = "option"
            /\ argv[i - 1].name \notin kFlags(line.program) /\ ~value[i - 1]
    IN value

IsOption(i) == line.argv[i].kind # "word" /\ ~IsValue[i]

Mentions(name) == {i \in DOMAIN line.argv : IsOption(i) /\ line.argv[i].name = name}

Mentioned(i) ==
    IF line.argv[i].kind = "assigned" THEN line.argv[i].value
    ELSE IF line.argv[i].name \in kFlags(line.program) THEN "true"
    ELSE IF i + 1 \in DOMAIN line.argv THEN Text(line.argv[i + 1]) ELSE "no value"

\* What a setting has to be: what the command line says last, or else the file,
\* or else the default.
InForce(s) ==
    LET at == Mentions(OptionOf[s]) IN
    IF at # {} THEN apply(s, Mentioned(CHOOSE i \in at : \A j \in at : j <= i))
    ELSE IF s \in DOMAIN file THEN file[s] ELSE Defaults[s]

\* A command runs with what it was told and nothing else: each setting is the one
\* the last mention on the command line gives, or the file, or the default, and an
\* option the program does not declare ends it ("a typo cannot leave a different
\* security policy in effect").  Success is help, the capabilities, a configuration
\* that is valid and usable, or a run that ended well.
RunsAsAsked ==
    /\ TypeOK
    /\ stage \in {"writer", "context", "run"} =>
          /\ \A s \in Settings \ {"metrics"} : config[s] = InForce(s)
          /\ config.metrics = (InForce("metrics") \/ InForce("output"))
          /\ \A i \in DOMAIN line.argv :
                IsOption(i) => line.argv[i].name \in kAcceptedOptions(line.program)
    /\ exit = 0 =>
          \/ last = "start"
          \/ command = "capabilities" /\ last = "capabilities"
          \/ command = "validate-config" /\ last = "capabilities" /\ usable(Catalogue[config.profile])
          \/ last = "run" /\ Valid(config)
=============================================================================
