----------------------------- MODULE CommandLine ------------------------------
(* The command lines of pqtls-server and pqtls-client: cli::parse and          *)
(* Arguments (src/src/common/cli_support.hpp), the options each program        *)
(* declares, and how an option's text becomes a setting (build_config in the   *)
(* two main.cpp).  A token is a word, --name or --name=value.  Of the options   *)
(* that differ only in the member they set, one stands for all: --max-frame-   *)
(* size for the numbers.  Of a path matters whether it is empty.               *)
EXTENDS Naturals, Sequences

W(text)        == [kind |-> "word", name |-> text, value |-> ""]
O(name)        == [kind |-> "option", name |-> name, value |-> ""]
A(name, value) == [kind |-> "assigned", name |-> name, value |-> value]
Token          == [kind : {"word", "option", "assigned"}, name : STRING, value : STRING]

\* A token in the place of a value is a text like any other, dashes included.
Text(token) == IF token.kind = "word" THEN token.name ELSE "--"

kFlags(program) ==
    {"json", "help", "version", "insecure-development-mode"}
        \cup (IF program = "server" THEN {"require-client-cert"} ELSE {"reuse-session"})

kAcceptedOptions(program) ==
    kFlags(program)
        \cup {"port", "profile", "profiles-file", "certificate", "private-key", "ca-certificate",
              "metrics", "experiment-id", "max-frame-size", "handshake-timeout", "io-timeout",
              "config", "log-level", "keylog-file"}
        \cup (IF program = "server" THEN {"listen", "max-connections", "backlog", "max-messages"}
              ELSE {"host", "server-name", "message", "message-file", "connections", "concurrency",
                    "warmup", "messages-per-connection", "output"})

-----------------------------------------------------------------------------
\* Arguments; `pending` holds an option whose value is the next token.
NoArguments == [command |-> "", options |-> [n \in {} |-> ""], positional |-> <<>>, pending |-> <<>>]

Put(args, name, text) ==
    [args EXCEPT !.options = [n \in DOMAIN @ \cup {name} |-> IF n = name THEN text ELSE @[n]],
                 !.pending = <<>>]

\* One turn of the loop, the value of an option being a turn of its own.
Turn(flags, args, token) ==
    CASE args.pending # <<>>                                   -> Put(args, args.pending[1], Text(token))
      [] args.pending = <<>> /\ token.kind = "word"            -> [args EXCEPT !.positional = Append(@, token.name)]
      [] args.pending = <<>> /\ token.kind = "assigned"        -> Put(args, token.name, token.value)
      [] args.pending = <<>> /\ token.kind = "option" /\ token.name \in flags -> Put(args, token.name, "true")
      [] OTHER                                                 -> [args EXCEPT !.pending = <<token.name>>]

\* The arguments after each token; the first token is the command, if it is a word.
Turns(flags, argv) ==
    LET after[n \in 0 .. Len(argv)] ==
            CASE n = 0                            -> NoArguments
              [] n = 1 /\ argv[1].kind = "word"   -> [NoArguments EXCEPT !.command = argv[1].name]
              [] OTHER                            -> Turn(flags, after[n - 1], argv[n])
    IN after

\* Mutant: every option takes the next token for its value.
parse_greedy(flags, argv) == Turns({}, argv)[Len(argv)]

parse(flags, argv) == Turns(flags, argv)[Len(argv)]

\* The last option lacks its value, and parse throws.
requires_a_value(args) == args.pending # <<>>

has(args, name) == name \in DOMAIN args.options

reject_unknown_options(args, accepted) == ~(DOMAIN args.options \subseteq accepted)

\* configure_logging throws.
unknown_log_level(args) ==
    has(args, "log-level") /\ args.options["log-level"] \notin {"trace", "debug", "info", "warn", "error", "off"}

-----------------------------------------------------------------------------
\* The settings of a configuration and the options that set them.
OptionOf == [profile     |-> "profile",        insecure |-> "insecure-development-mode",
             keylog      |-> "keylog-file",    mtls     |-> "require-client-cert",
             certificate |-> "certificate",    private_key |-> "private-key",
             ca          |-> "ca-certificate", metrics  |-> "metrics",
             output      |-> "output",         in_range |-> "max-frame-size",
             message_ok  |-> "message"]

Settings == DOMAIN OptionOf

\* apply_bool and apply_integer throw.
ill_formed(s, text) ==
    \/ s \in {"insecure", "mtls"} /\ text \notin {"true", "1", "", "false", "0"}
    \/ s = "in_range" /\ text \notin {"0", "1"}

\* apply_string, apply_bool and apply_integer: what a setting becomes.  A frame size
\* of 0 is one validate() refuses; "{}" is a message that build_message takes.
apply(s, text) ==
    CASE s = "profile"              -> text
      [] s \in {"insecure", "mtls"} -> text \in {"true", "1", ""}
      [] s = "in_range"             -> text # "0"
      [] s = "message_ok"           -> text \in {"", "{}"}
      [] OTHER                      -> text # ""

Applied(args) == {s \in Settings : has(args, OptionOf[s])}

layer(args) == [s \in Applied(args) |-> apply(s, args.options[OptionOf[s]])]

layer_throws(args) == \E s \in Applied(args) : ill_formed(s, args.options[OptionOf[s]])
=============================================================================
