# TLA+ verification of pqtls-lab

pqtls-lab is a laboratory for TLS 1.3 with post-quantum key establishment: a server and a client in
C++ around OpenSSL, a framed JSON protocol between them, security profiles that say what a
connection may negotiate, and scripts that run benchmark matrices and shape the network. This
directory models the parts of it that decide something, checks the models with TLC and proves their
safety properties, for every value of the constants, with TLAPS. `PROJECT.json` maps each definition to the lines it
stands for (paths are relative to the repository, under `src/`), lists the runs, the mutants that
show each property can fail, the hazards, the findings and the theorems.

## Inventory

| Part | State | Operations | What makes it hard |
|---|---|---|---|
| Server thread pool (`server.cpp`, `server/main.cpp`) | `running_`, `stopping_`, queue, mutex and condition variable, workers, counters, `g_server` | `run`, `worker_loop`, `stop`, destructor, signal handler | a stop at any moment, wakeups, hand-over of sockets, a thread that cannot start or dies |
| Frame codec (`application_protocol.cpp`) | buffer and read position | `encode`, `feed`, `next_frame`, `reset` | reads that cut frames anywhere, reclaiming, limits |
| UTF-8 and message envelope (`application_protocol.cpp`) | none | `is_valid_utf8`, `parse`, `to_json`, `make_*`, `handle_message`, `build_message` | boundaries, widths, nesting |
| Profiles (`security_profile.cpp`) | the registry | `create`, `add_or_replace`, `from_yaml_file`, `permits_negotiated_group` | two rules (offer, permit) that must agree, spelling |
| Server connection (`server.cpp`, `tls_context.cpp`, `transport.cpp`) | stage, decoder, counts, record | handshake, two policy checks, message loop, shutdown, record | a peer that pipelines, falls silent, breaks off; stop; limits |
| Client connection (`client.cpp`) | stage, responses, record | connect, checks, exchange, shutdown, record | the two sides decide separately |
| Benchmark (`client.cpp`) | two atomic counters, summary | claim, run, count, drain | threads racing for work, a setup that fails |
| Command line and start-up (`cli_support.hpp`, `server/main.cpp`, `client/main.cpp`, `config.cpp`) | arguments, configuration, what is open | parse, build, validate, detect, open, run | a token is an option or a value by what precedes it; many combinations, several error paths |
| Capability detection (`capabilities.cpp`) | what OpenSSL accepted, usable profiles | `detect`, `profile` | asked name by name, applied as lists |
| Metrics records and file (`metrics.cpp`) | the stream, its mutex, the file | open, `write`, `flush`, destructor | killed processes, a full disk, later processes |
| Validation of records (`tools/result_validator.py`) | none | `semantic_check`, reading lines | lists of its own beside those of the C++ code |
| Network emulation (`apply-netem.sh`, `reset-netem.sh`) | kernel state, state files | apply, reset | interruption between any two commands |
| Benchmark harness (`run-benchmarks.py`) | processes, port, manifest, records | start, probe, measure, terminate, write | crashes, servers that linger, later runs |
| TLS context, transport, errors | | | in the models of their users |
| Statistics, packet and audit adapters, certificate, build, capture and demo scripts, containers, CI | | | not modelled, see below |

They interact as follows. `Startup` ends where the server (`ServerPool`) or the client begins. A
worker of the pool runs `handle_connection` (`ServerSession`) with one socket; the client's
`connect_and_exchange` (`Session`) is its peer. Both use the frame codec, whose payloads are
messages (`Message`, after `Utf8`); both fill in a record (`ConnectionRecord`) that goes to the
file (`MetricsWriter`). `Benchmark` runs many client connections in threads; `Harness`
runs benchmarks as processes against a server process, possibly on an interface `Netem` has shaped.

## Modules

### ServerPool
One action per access to shared state. The acceptor's position in `run()` is `rpc`, a worker's in
`worker_loop()` is `wpc[w]`. `Push` and `Take` are the critical sections under `queue_mutex_`;
`FindNothing` and `Block` split `wait` between its test of the predicate, with the mutex held, and
its blocking, because `stop()` does not take the mutex. `StopFlag`, `StopRunning` and `StopWake` are
the three statements of `stop()`, in the signal handler or in the destructor (`Dtor*`).
`handle_connection` is the time between `Take` and `Finish`; `Die` is an exception that leaves it.
The sockets are `Conns`; `closes` counts how often each was closed. A signal handler runs on one of
the threads, which waits for it: `NotInterrupted` lets the owning thread go on during a handler only
if a worker may be the one that was interrupted.

### Framing, FrameStream, FrameDecoder, FrameChannel
`Framing` has the codec as operators on sequences of digits of base `Base` (256 in the code, a
header is four of them). `FrameStream` is what a decoder promises: a growing stream from which
frames are handed out in order, an illegal length rejected when its turn comes. `FrameDecoder` is the
buffer with its read position and its two reclaiming rules; with a refinement mapping it implements
`FrameStream`. `FrameChannel` puts `encode` and a decoder at the two ends of a stream that each read
cuts where it likes and that may end in bytes which are no frame. `Sendable` are the texts a sender may
frame. Its reference is a parse of everything received: `Ends` says where the first n frames end, each
starting where the one before it ends.

### ServerSession and Session
`ServerSession` is `handle_connection` against any peer: an abstract peer sends messages of every
kind, closes or is lost. A message is its kind; `Oversized` are the requests whose reply is over the
frame limit. A malformed message may also get no reply, when the error about it cannot be serialised
(`SerializeThrows`; `Message` has the cases). `Session` composes it with the client, which takes the place of the abstract peer: the
property `ImplementsServerSpec` is that the composition implements `ServerSpec`, so that what is
checked against any peer holds against the client too. `SecurityProfile` supplies the policy.
`ConnectionRecord` is what either side writes down of a connection, and `problems` what
`result_validator.py`, with its own lists of groups and categories, has to say of that line:
`RecordHonest` and `BothAgree` demand that it has nothing to say of a record of either side at any
end of a connection, but for the one objection under "Where code and documents differ".

### SecurityProfile, ProfileRegistry and Capabilities
A name of a group or suite is a key and a spelling, as comparisons ignore case and one check does
not. `Consistent` is the checks of `create()`. `ProfileRegistry` reads a file node by node over the
built-in profiles. `Capabilities` then asks a host (an OpenSSL, external: which groups and suites it
has, whether it compares with case, whether it skips unknown suites) as `detect()` does, and
`apply_common_policy` is how the same host takes the profile's lists.

### Message and Utf8
`Message` takes a document (its fields absent, of the wrong type or of a value, its nesting a tree
of sets) through `build_message`, `parse`, `handle_message` and the client's `parse`. `json_depth` is
read off the values at each depth (`Levels`), down to the first that is too deep, where the code stops
as well. Bytes that are no document pass through `Utf8`, the loop of `is_valid_utf8`, first. Its
reference is that the text can be cut (`Splits`) into sequences of the Unicode standard's table
(`WellFormed`), stated without the code's arithmetic and without its order. An id is its length and
who chose it, the peer or the caller of `generate_uuid_v4`, so that an id of the right length is not yet
the right id. The error to a text that is no JSON quotes what the parser has read of it; where that ends
inside a character, `serialize()` throws and the server sends nothing (`ServeThrows`). Where nlohmann's
parser gives up is not modelled: the model lets it happen to any text that is no JSON and, of the texts
kept as bytes, to those with a byte above 127.

### Benchmark
`run_benchmark` with its threads: `Load`, `Cas`, `CasFails` are the claim on an atomic counter, with
spurious failures; `SetupFails` and `Abandon` the drain by a thread whose client cannot be built.
`written` is the number of records in the metrics file, where those of warm-ups and of measured
connections are alike; `WarmedUp` is how many of them a reader counts in though they are warm-ups.

### CommandLine and Startup
`CommandLine` is `cli::parse` on tokens (a word, `--name`, `--name=value`), one `Turn` for each, the
options each program declares and what their texts become. `Startup` takes the result of both programs' commands to the
exit code. A layer of settings is a function on the settings it gives; `Override` puts file and
command line over the defaults. What files, the operating system and OpenSSL do is a choice.
`RunsAsAsked` compares the configuration a command runs with to `InForce`, which reads the tokens
backwards from the end and knows nothing of the loop in `parse`. Some checks of `validate()` that
only refuse more are left out: `message` beside `message_file`, more concurrency than connections, and
those of host names; no property depends on them. Threads that cannot be created are in `Benchmark`.

### MetricsWriter
Processes, one after the other, whose threads share a writer on the same file. The file is a
sequence of pieces: the text of a record, whole or torn, and ends of lines. `std::ofstream` is
external: it may hold back what is inserted or pass it on, and once the system has not taken
everything its error state makes insertions void. `Killed` ends a process between any two steps. The
readers are `iter_records` of `analyze-results.py` and `validate_file`. A writer without a path does
nothing and is left out; so is a text torn inside a character of several bytes, on which both readers
stop with an exception.

### Netem and Harness
The scripts command by command. `Interrupt` ends a script of `Netem` between two commands; a state
file may be left truncated (`Torn`). Where a script goes on after a failure (`|| true`), the command
either works or is refused; `ignored` remembers the refusal. `Crash` ends the harness between two steps
and leaves its server and its client running; runs may follow on the same port and with the same or
another experiment id. A client (`clients`) makes its warm-ups and then its measured connections, each
to whatever holds the port (`Connect`); a connection may fail, and its record may not reach the disk
(`lost`). Only records of connections that succeeded are kept: what the manifest claims is about them.
`good` is that a measured connection succeeded, which is all the client's exit code
(`src/client/main.cpp:325`) and so the word completed say. A manifest
is the invocation that opened it last, whether it is whole or truncated, and the outcomes it lists.
Cells whose profile the host lacks are skipped and listed as such (`Gate`); a matrix of nothing else
ends there.

Mutants, operators named for what they get wrong, precede the definition they are variants of and
are used by no specification.

## Runs

| Run | Shows | Bounds |
|---|---|---|
| `server_pool` | sockets have one owner and are closed once; counters add up; nothing is left after shutdown; queued work has a wakeup coming; nobody is refused while a worker is idle; the handler meets no destroyed server unless `run()` threw; every accepted connection ends while a worker lives; an operator who repeats the signal gets rid of the server | 3 connections, 2 workers, queue of 2, either or both workers may die |
| `server_pool_stop_once` (violated) | one `stop()` alone does not always end `run()`, see below | 2 connections |
| `frame_codec` | buffer bounded; output equal to a parse of the whole stream; payloads arrive unchanged, in order, all of them; refinement of `FrameStream` | base 2, frames up to 2, reads up to 5, 3 messages and up to a header of anything: past both reclaiming rules |
| `benchmark` | no connection is lost or counted twice; the file holds a record of every connection run, warm-ups among them, and the summary counts the others; no measured connection resumes a warm-up's session; it ends | 3 connections, 2 warm-ups, 2 threads |
| `profile_registry` | unique ids, the last definition counts; what is offered is permitted; what `detect()` calls usable can be applied, and what it blocks has a reason | 2 nodes out of all with up to 2 groups, 10 hosts |
| `server_session` | policy before data, replies in order, nothing after close, a success is never a peer that fell silent or broke off, records the validator accepts, every connection ends | 3 messages against a limit of 2, 2 reads a frame |
| `session` | both sides agree and the validator accepts both records, responses match, errors have a cause, nobody waits for a peer that waits, refinement, both sides end | 9 workloads, 3 groups |
| `startup` | production rules; only usable profiles listen; what a refused start may leave open, and that the TLS context is then what refused it; a command runs with what it was told, and success means done | a command, a certificate or none, and up to 2 of 31 phrases; 7 files |
| `netem` | a shaped interface is listed, and a reset undoes one apply, unless `tc` or `ip` refused and was ignored; no MTU change uncovered | 2 interfaces, 2 MTUs, any number of runs |
| `harness` | what a record was measured against, and what lingers after a crash; a completed cell had a success; every cell is listed; when a manifest can be truncated; it ends | 3 cells, 1 warm-up and 1 measured connection each, 2 runs, 1 crash, 1 id |
| `message` | requests unchanged, replies understood and answered by id, no reply only to a close or to what is no JSON; a text is accepted as UTF-8 iff it is well formed, without a read beyond it | depth limit 3, `int` of 8 bits; all texts of up to 4 of 20 boundary bytes |
| `metrics_file` | what can be read of a process has no gaps, misses at most its first record and, if its disk failed, some at the end; a killed or failed process spoils one line | 2 processes, 2 threads, 4 records each, 3 faults: a loss in the middle would take three records |

Small bounds suffice where the code is uniform in them: the pool treats all workers and connections
alike, the decoder looks at no byte of a payload, two nodes of
a file meet in every way two can. A second run of the harness is the one that meets what a crash
left; one warm-up and one measured connection are one of each kind, and both runs use one id, so that
the second overwrites the manifest of the first. Depth limit, base and integer width are parameters of the code's
arithmetic, not of its control; `Message` keeps the modulus because the width matters.

The type invariant of a module is proved by itself (`ServerPool`, `FrameDecoder`, `Netem`) or is a conjunct of the
invariant that leans on it (`MatchesReference`, `Conservation`, `LastWins`, `AnswersInOrder`,
`BothAgree`, `RunsAsAsked`, `ManifestRight`, `RepliesUnderstood`, `LossAtTheEnds`).

Deadlock is not checked where a run of the system ends (a connection, a program, a file).

## Where code and documents differ

One difference has a run of its own, as what it takes is an interleaving: `server_pool_stop_once`.
`stop()` stores `stopping_` and notifies without `queue_mutex_`; a worker that has evaluated the
predicate of its wait and not yet blocked misses this notification and the one of `run()`, whose
`join()` then never returns. `docs/architecture.md:207` says shutdown is prompt.

The others follow from a definition as it stands in a module; the documents' words are at the lines
given.

| Code | What it does | What is said |
|---|---|---|
| `src/server/server.cpp:145` | `run()` clears a stop that came before it (`RepeatedStopReturns` holds, a single early stop is lost) | `include/pqtls/server.hpp:40` |
| `src/server/server.cpp:204` | the limit is on the queue alone (`Push`): up to max are queued, max served and one is in the acceptor's hand | `docs/architecture.md:205` |
| `src/server/server.cpp:234` | connections queued at shutdown are closed without a record | `docs/architecture.md:121` |
| `src/server/main.cpp:234` | when `run()` throws, `g_server` outlives the server (`StopOnLiveServer` has the exception) | `include/pqtls/server.hpp:43` |
| `src/server/server.cpp:282` | the server uses `io_timeout_ms` alone; `handshake_timeout_ms` and `idle_timeout_ms` are read and not used | `config/server.example.yaml:34`, `:60` |
| `src/client/client.cpp:350` | records of warm-ups are in the metrics file (`SummaryRight` counts them) | `src/client/client.cpp:347`, `docs/limitations.md:100`, `src/client/main.cpp:60` |
| `src/client/client.cpp:331` | connections of a thread whose setup failed have no record (`unrun`) | `include/pqtls/client.hpp:84` |
| `src/common/security_profile.cpp:252` | a profile of classical groups alone permits them although it forbids fallback | `include/pqtls/security_profile.hpp:106` |
| `src/common/security_profile.cpp:149` | a group listed twice in different case is accepted | `docs/security-profiles.md:121` |
| `src/server/server.cpp:320` | the group is checked before the certificate | `docs/architecture.md:79` |
| `src/server/server.cpp:81` | a response type sent to the server does not close the connection | `docs/protocol.md:193`, `:225` |
| `src/server/server.cpp:388` | a connection closed for a malformed message is recorded as a success (`EndedWell`) | `docs/architecture.md:111` |
| `src/server/server.cpp:371` | an error reply that quotes part of a character cannot be serialised: none is sent, and the record says internal (`ServeThrows`, `SerializeThrows`) | `src/server/server.cpp:361` |
| `src/common/transport.cpp:322` | a TLS error in the middle of the exchange has category handshake | `docs/architecture.md:231` |
| `src/server/server.cpp:314` | `pq_authentication` comes from the server's own profile | `docs/security-profiles.md:107`, `:109` |
| `src/common/metrics.cpp:122` | after a full disk records are dropped without a word; after a kill the next process's first record may be glued to a torn line (`LossAtTheEnds`) | `src/common/metrics.cpp:123` |
| `tools/result_validator.py:200` | a permitted classical fallback of a profile named `hybrid-` or `pure-` is called a downgrade that should have been rejected (`Objectionable`) | `docs/security-profiles.md:18` |
| `src/server/main.cpp:246`, `src/client/main.cpp:337` | `--version` alone leaves the command empty, so the usage is printed and the exit code is 2 (`Usage`) | usage at `src/server/main.cpp:42`; `tests/integration/test_classical_tls.py:259` expects 0 |
| `src/common/cli_support.hpp:108` | a word that follows no option, `-profile` with one dash included, is kept as positional and never looked at | `src/common/cli_support.hpp:26` |
| `src/common/config.cpp:35` | a value of the wrong type ends in 70 | `docs/architecture.md:227` |
| `src/client/main.cpp:326` | a benchmark whose context cannot be created ends in 6 | `docs/architecture.md:231` |
| `src/common/config.cpp:279` | `validate-config` accepts a profile that needs a CA without one | `src/server/main.cpp:162` |
| `src/server/main.cpp:224` | a start that the TLS context refuses leaves the metrics file, and perhaps the key log, open (`OpensOnlyUsable` has the cases) | `src/server/main.cpp:210` speaks of binding only |
| `scripts/apply-netem.sh:151`, `scripts/reset-netem.sh:71` | a deletion that `tc` refuses is ignored, and the reset removes the state file (`:90`) of an interface that is still shaped (`ShapedIsListed` has the exception) | `scripts/reset-netem.sh:69` |
| `scripts/apply-netem.sh:136` | a second apply saves the MTU the first one set | `scripts/apply-netem.sh:129` |
| `scripts/reset-netem.sh:78` | a truncated state file ends the reset | `scripts/reset-netem.sh:5` |
| `scripts/run-benchmarks.py:583` | a crash during the rewrite loses every cell (`ManifestRight` has the exception); before the first cell is written the skipped ones are not listed either | `scripts/run-benchmarks.py:577` |
| `scripts/run-benchmarks.py:278` | after a crash, the server left on the port is measured, and the client left running measures the next server (`StaleOnlyAfterCrash` has the exceptions) | `scripts/run-benchmarks.py:506` |
| `scripts/run-benchmarks.py:356` | cells of different payload sizes all send pings | `scripts/run-benchmarks.py:4` |
| `src/common/application_protocol.cpp:272` | a version of 2^32 + 1 passes for 1 (`get_int`) | `docs/protocol.md:188` |
| `src/common/application_protocol.cpp:259` | 17 nested objects pass a limit of 16 (`json_depth`) | `docs/protocol.md:187` |

## Fairness

A thread that can run does so in the end (weak fairness of its steps; strong for the owning thread,
which signals may interrupt again and again). Steps that need `queue_mutex_` have strong fairness: the
mutex is free infinitely often and its implementations do not starve a waiter for ever; `accept`
likewise takes a waiting connection in the end. Nothing is
assumed of clients, signals or failures. `RepeatedStopReturns` has the operator's persistence as its
hypothesis, which `server_pool_stop_once` shows to be necessary. `handle_connection` ends (`Finish` is fair)
because of `SessionEnds`, which itself rests on the socket's timeouts: a blocked read or write can
always fail. `Benchmark` assumes that a compare-exchange which can succeed again and again does
so. In `Harness` only the harness is fair; servers may do nothing, as each wait has a limit.

## Proofs

For any sets of connections, workers and interfaces, any profiles, workloads, texts and command lines,
any limits, base and number of processes. Each `IInv`, or the invariant named, is inductive.

- `ServerPool_proofs`: `TypeCorrect`, `OwnershipSafe`, `RefusesWhenBusy`, `ShutdownClean`,
  `CountersCorrect`, `NoLostWakeup`, `StopNeedsServer`. `Ownership` is not inductive: that a socket is
  closed once needs that the thread closing it was its owner, which follows from where the thread is.
  `Threads` says what each position owns, `Phases` what the workers and the queue are in each phase of
  `run()`; `IInv` is these with the type and the queue's bound. `NoLostWakeup` counts workers on their
  way to the queue against its length. `RefusesWhenBusy` follows from it: a queue as long as there are
  workers leaves none of them asleep. `StopNeedsServer` rests on `HandlerInv`: a server is destroyed
  with `g_server` set only if a worker was never started, and a handler still inside `stop()` of a
  destroyed server entered through such a pointer.
- `FrameChannel_proofs`: of the decoder alone `TypeCorrect`, `UnreadBytesIntact`, `BufferBounded`,
  `DecoderImplementsStream`; of both ends `FramesMatchReference` and `ChannelImplementsStream`. `IInv`
  says that the buffer from the read position on is the end of all bytes fed, so that a frame read
  there is the frame in the stream. `ChannelInv` adds where frames end: `Marks` of what was handed out
  in what was received, and `Carried`, marks of what was sent in all that was written, with the decoder
  at one of them. `Digits` is that four digits say every legal length, `MarksAreEnds` that marks are
  the ends the reference finds.
- `Message_proofs`: `Utf8MatchesTable`, `ServerMatchesTable`, `RequestNeverChanged`,
  `RepliesAlwaysUnderstood`. `Scanned` says that the loop has come to its position through well-formed
  sequences and that every other way to cut the text comes through it too; one lemma for each length of
  a sequence shows that the code's arithmetic is the table's row. `Exchanged` says what is on the wire at each
  stage; a message is `Sound` if what `to_json` makes of it is within the depth limit, and then `parse`
  returns it.
- `Startup_proofs`: `LastAlwaysWins` and `UsableAlwaysApplicable` of the registry and `detect()`,
  `OpensAlwaysUsable` and `RunsAlwaysAsAsked` of the programs. `LastWins` is inductive as it stands, and
  with `Detected` (what was detected stays what it was) gives the second. `Prepared` says what each stage
  has checked and opened. For the last, `Parsed` says of the first n tokens that the options are those
  mentioned, each as its last mention has it; it holds of every prefix of a command line by induction,
  and `Configured` carries it to the stages that run.
- `Session_proofs`: of the server `GateAlwaysFirst`, `AnswersAlwaysInOrder`, `RecordsHonest`; of both
  sides `SessionImplementsServer`, `ResponsesAlwaysMatch`, `ProtocolErrorsExplained`, `NoMutualWait`,
  `BothAlwaysAgree`. `Gates` says which checks are behind each position, `Loops` which reply is owed
  there, `Books` why the loop ended. `StepSimulation` maps each step of the client to a step of a peer
  or to none. A send may only follow whole frames; that needs `Client` (never more than one message
  ahead) and the server's `IInv`, which the simulation itself carries over. A protocol error is explained
  from when it is thrown (`Explained`): a server that closes on a waiting client does it for no message
  of the client's (`ClosedOnWaiting`). `Agreement` is what the client has checked at each position, and
  that both know one group.
- `Measurement_proofs`: of `Benchmark` `ConnectionsConserved`, `SummaryCorrect`; of `Netem`
  `NetemTypes`, `ShapedAreListed`, `ChangesAreCovered`, `OneApplyUndone`. `Positions` says what each
  position of a worker implies (one that gives up or is done has found the pool empty, so at most one
  worker holds abandoned connections); the rest is counting the three sets a claimed connection passes
  through. `Commands` says what is saved, gone or refused at each command of the scripts, `Saved` that the
  only apply since a reset saved the MTU from before it.
- `Harness_proofs`: `HarnessStaleOnlyAfterCrash`, `HarnessManifestRight`. `ServerInv`: a server that
  lives is that of the cell in flight or was left by an invocation that crashed. `PlanInv`: listed and
  runnable cells are those the gate has seen, each once. `ShownInv`: every client that has succeeded, and
  every cell with exit code 0 or called completed, has a record on disk or lost. `FileInv`: who opened a
  manifest last and what it then lists.
- `MetricsWriter_proofs`: `MetricsLossAtTheEnds`, `MetricsOneLinePerFault`. `StreamInv` is what the
  stream holds back at each position and that it is at the start of a line but for its first record;
  `FileInv` describes the lines by their first pieces: in order, those which are no record begun by a
  process that was killed or failed (`Blamed`), the records of a process an unbroken run (`Counted`).

Two theorems have hypotheses on the profiles. `RecordsHonest` and `BothAlwaysAgree` assume that a
profile whose name starts with `hybrid-` or `pure-` has a post-quantum group (`AptlyNamed`): `create()`
does not ask for it, and the validator takes every success of a profile without one for a downgrade.
`BothAlwaysAgree` also assumes that the client insists on a post-quantum group or that the validator
objects to no fallback of the server's profile: of a fallback both ends permit, it would object to both
records (`Objectionable`). `SameGroups` is that the validator's lists are those of the C++ code.

The assumptions are those of the modules (`...Assumption`), which TLC evaluates in the runs: finite
sets, positive limits, a positive base, sentinels that are no value they stand beside
(`SentinelAssumption`), workloads of messages that can be sent, definitions and hosts of their types, a
registry that starts with profiles (`BuiltinAssumption`), and a frame limit that four digits can say
(`ChannelAssumption`; in the code `kAbsoluteMaxFrameSize` keeps it below 2^32).

What the code computes in a loop is a recursive function. `NatSetInduction`, from the well-foundedness
of the naturals, shows that such a function exists and then what it returns for every length; it takes
a set of numbers for what is proved of each.

Every safety invariant, action property and refinement that a passing run checks is proved. Only
model-checked are the properties under fairness, which are out of the prover's reach: `ConnectionsEnd`,
`RepeatedStopReturns`, `AllDelivered`, `BenchmarkEnds`, `SessionEnds`, `BothEnd`, `HarnessEnds`.

## Not modelled

Statistics and reports over result files (floating point, no state), the packet and audit adapters in
`tools/` (single passes over external tools' output), the certificate, build, capture and demo scripts
and the container and CI configuration (linear calls of external tools). Of the modelled parts: the
timings, byte counts and resource usage of a record; the presence and types of its fields, which
`to_json()` fixes; session resumption, but for the sessions a benchmark's workers keep; the candidates `tcp_connect` tries
in turn; what OpenSSL does inside a call, its error queue included; time, so that a timeout is a step
a blocked call may always take; the wording of messages, logs, usage and reports.

## Plan

1. Done: the pool, the codec, profiles and capabilities, both sides of a connection with their
   records, benchmark, command line and start-up, envelope, metrics file, scripts, harness; proofs of
   the safety properties of all of them.
2. To compose: the pool with several sessions (a stop that reaches connections in service); the
   key log's global stream, which the contexts of a benchmark's threads share.
