# scannerl-go in TLA+

TLA+ models of scannerl-go, a fingerprinting scanner written in Go that runs on
one host or as a coordinator with workers. The modules are translated from the
Go source; TLC checks them on small instances and TLAPS proves most of their
safety properties for every value of the constants.

Contents: [the system](#the-system), [what makes it hard](#what-makes-it-hard),
[the modules](#the-modules), [the runs](#the-runs),
[fairness](#fairness), [what is proved](#what-is-proved),
[disagreements with the documentation](#disagreements-with-the-documentation),
[abstractions](#abstractions), [not modelled](#not-modelled), [plan](#plan),
[running it](#running-it).

## The system

| Part | Source | State it keeps | Operations | Talks to |
| --- | --- | --- | --- | --- |
| Coordinator service | `internal/coordinator/coordinator.go` | under `mu`: `arrived`, `shards`, `ready`, `aborted`; under `pendingMu`: `pending`; the gRPC server; the register timer | `GetTargets`, `ReportResults`, `Serve`, `Stop`, `onRegisterTimeout`, `ReportUnresolved` | workers (two streams each), target source, sink |
| Shard splitting | `internal/coordinator/shard.go` | none | `splitEven` | called by the last `register` |
| Coordinator command | `cmd/scannerl/coordinator.go` | main's program counter, the `serveErr` channel | wait for the context or for Serve, stop, report, close | all of the above |
| Output sink | `internal/output/sink.go` | a bounded channel, one consumer goroutine, the outputs | `Send`, `Close`, `run` | written by engine goroutines or by ReportResults handlers |
| Target source and parsing | `internal/target/source.go`, `cidr.go`, `parse.go` | position in the entries, `seen` | `Stream`: one producer, a target channel, an error channel | engine, the goroutine that prints errors, `drainTargets` |
| Single-host command | `cmd/scannerl/single_host.go` | main's program counter | wire source, engine, sink; wait for them in order | these three |
| Engine | `internal/engine/engine.go` | a pool of goroutines | `Run` | source, sink, probe |
| Probe | `internal/engine/probe.go` | one connection, a resend budget, the packets of the round | `probeOne`, `sendRecv`, `sendAndWaitFirst`, `safeNext` | module, dialer, connection |
| Dialer | `internal/engine/dial.go` | the connect attempt, the privileged port tried | `dialWithRetry`, `dial`, `dialWithPrivPorts` | network |
| Live connection | `internal/engine/conn.go` | the socket, its deadline, the cancellation watcher | `writeAll`, `readOne`, `watchCancel`, `UpgradeTLS`, `Close` | probe, module |
| Worker | `cmd/scannerl/worker.go`, `internal/worker` | main's program counter, the client connection, a target stream, a result stream | `runWorker`, `StreamTargets`, `grpcOutput` (`Init`, `Write`, `Clean`) | coordinator, engine, sink |
| Fingerprint modules | `internal/fpmodule/step.go`, `internal/fpmodule/modules` | none: a module's state travels in its steps | `Next`, `Continue`, `Restart`, `OK`, `ErrUp`, `ErrUnknown` | probe |
| Result conversion | `internal/rpc/scannerpb/convert.go`, `internal/output/output.go` | none | `ToProtoResult`, `FromProtoResult`, `NormalizeValue` | the worker's output, ReportResults |
| Output formats, registries, generated code, flags | `internal/output/outputs`, `internal/rpc`, `cmd/scannerl/main.go` | none that changes during a scan | formatting, I/O | sink, worker |

What makes each part correct:

- **Coordinator**: the rendezvous completes once or is aborted, never both; each
  target goes to one worker; a pushed target is answered, or its loss is
  visible; waiting workers are released; a run ends cleanly only when it was
  told to stop; and it does end.
- **Shard splitting**: slices stay in bounds, cover the list, and differ by one at most.
- **Sink**: no record twice, one order for all outputs, nothing written after
  clean-up, no send on a closed channel.
- **Source, parsing, engine, single-host command**: every target the
  configuration names has exactly one record, and nothing else has one,
  whatever the overlaps, the bad entries and the missing files; nothing that was
  emitted is lost silently when the scan is cancelled; the process ends.
- **Worker**: if it succeeds, on a complete target stream, the coordinator has
  every result, and prints it as a single-host scan would; no
  target is reported twice; the result stream is closed after the last record; a
  failed target stream is not silent; it exits when cancelled or cut off.
- **Coordinator and workers together**: a worker's success means that the results
  of what it received are in the coordinator's sink; a scan that nothing disturbs
  completes.
- **Probe and modules**: one socket at a time and none left; resends and dials
  within their budgets; the record names the target that was asked for and its
  outcome rests on what the last connection showed; it returns.

## What makes it hard

`PROJECT.json` lists the hazards line by line. The main ones:

- handlers of many gRPC calls share the coordinator's state with the register
  timer, `Serve`, and the main goroutine, under two mutexes that no handler
  holds across its whole work: an index is read in `register` and used much
  later, a result leaves `pending` before the sink has it;
- one context ends the run, releases every `Send`, and starts the very shutdown
  that has records left to send;
- gRPC's `Stop` closes connections without waiting for handlers;
- several unbuffered and bounded channels connect the source, the pool, the
  error printer and the sink, and main waits for them one after the other;
- a worker's chain of blocking operations (stream, pool, queue, consumer, stream)
  begins and ends at the same coordinator, which may stop reading or go away;
- a probe's operations are bounded by deadlines which a cancellation forces once
  and which the next operation sets again.

## The modules

| Module | What it is | Code |
| --- | --- | --- |
| `Shards` | definition of an even division | `shard.go` |
| `ShardSplit` | the loop of `splitEven`, one iteration per step, checked and proved against `Shards` | `shard.go` |
| `Sink` | component: channel, consumer, `Send`, `Close`, clean-up of each output | `sink.go` |
| `StaticPush` | abstract specification: seats, one deal, pushes, answers, losses | what `coordinator.go` promises |
| `Coordinator` | the coordinator process; extends `Sink` and `Shards`, implements `StaticPush` | `coordinator.go`, `cmd/scannerl/coordinator.go` |
| `Entries` | operators: what an entry parses to, the arithmetic of ranges, what a configuration names | `parse.go`, `cidr.go`, `source.go` |
| `TargetStream` | component: the producer of targets and errors; extends `Entries` | `source.go`, `cidr.go` |
| `Engine` | component: the pool of goroutines; extends `Sink` | `engine.go` |
| `ScanRun` | a single-host scan; extends `TargetStream` and `Engine` | `single_host.go` |
| `Wire` | operators: a target and a result to their wire forms and back | `convert.go`, `output.go` |
| `Reporter` | abstract specification: what a worker promises its coordinator | what `internal/worker` promises |
| `WorkerRun` | a worker process and its two gRPC streams; extends `Engine` and `Wire`, implements `Reporter` | `cmd/scannerl/worker.go`, `internal/worker` |
| `Distributed` | the coordinator with its workers, each of them a `Reporter`; extends `Coordinator` | both sides of the two streams |
| `FpModule` | operators: a module's steps, and the `Next` of the three modules | `step.go`, `internal/fpmodule/modules` |
| `Probe` | one probe, over any network; extends `FpModule` | `probe.go`, `dial.go`, `conn.go` |
| `MCCoordinator`, `MCScanRun`, `MCWorkerRun`, `MCProbe` | symmetry sets and the sequences and numbers a `.cfg` cannot write | |
| `ShardSplit_proofs`, `Sink_proofs`, `Entries_proofs`, `Coordinator_proofs`, `Distributed_proofs`, `ScanRun_proofs`, `WorkerRun_proofs`, `Probe_proofs` | theorems and proofs, each about the module of its name; `ScanRun_proofs` extends those of `Sink` and `Entries`, `Distributed_proofs` those of `Coordinator`, `WorkerRun_proofs` and `Coordinator_proofs` those of `Sink` | |

`Sink`, `Engine` and `TargetStream` are components: they declare variables and
actions but no `Next`. The program that extends one says who calls its actions
and adds its own part of the step. In every program a goroutine is a program counter (`gt`
and `rr` for the two calls of each worker, `eng` for the pool, `mainPc` for
main), and an action is what the goroutine does between two points where another
one can run: a critical section, one side of a channel operation, one return.

### Coordinator

A caller is one worker process. `GetTargets` is `GetTargetsCall` (the handler
starts), `Register` or `RegisterRejected` (the critical section of `register`,
with the drain of the source, `splitEven` and the filling of `pending` when it
is the last arrival), `Wake` (the select), `PushTarget` and `PushEnds` (the
loop). `ReportResults` is `ReportResultsCall`, `RecvResult`, `RecvMalformed` or
`RecvEnds`, then `Claim` (the delete under `pendingMu`) and `SendResult`.
`ServeReturns` and `ServeFails` are the two ways `srv.Serve` comes back;
`TimerExpires`, `OnRegisterTimeout` and `AbortStops` are the timer, its critical
section, and its call of `srv.Stop` after the unlock. `MainStop`, `MainJoin`,
`CopyPending`, `SendUnresolved`, `CloseSink` and `CleanOutputs` are
`runCoordinator`. `Cancel`, `Disconnect` and `Reconnect` are the outside.

gRPC's client makes a lost connection again by itself. `Reconnect` does so for a
caller of `Reconnecting` that has not opened its result stream: the old
`GetTargets` stream stays broken (`remade`, `Cut`), its handler may be pushing
into it for a while yet, and `ReportResultsCall` opens on the new connection.

A target is a model value. `TooWide` holds those whose port is no int32: their
results come back under another port (`Arrives`), which `Claim` does not find in
`pending`.

`Register` looks neither at `aborted` nor at the server, and `StopServer` leaves
handlers alone: both are what the code does, and two findings come from them.

### Entries, TargetStream and ScanRun

An entry is a text: a sequence of fields, each an address, a number, a name or a
blank, with the separator before it. `ParseIPEntry` and `ParseDomainEntry` cut it
where the code cuts the string and in the same order, `BadPort` has the
limits of a port, which hold for the one an entry writes and not for the default
one, `Masked`, `InRange` and `NextAddress` are `netip`'s arithmetic on
addresses of `AddressBits` bits, where the last one has no successor.
`ParseSource` is the order in which `Stream` reads a configuration, and
`BuildSourceConfig` the one the flags give. `Names` says what a configuration
names without parsing anything: it goes over every address, port and prefix
length and asks which of the texts that spell them an entry is.

`Stream` is the producer: `StartEntry` begins an entry, `ExpandAddress` takes one
address of its expansion through the deduplication, `RangeEnds` ends it, and
`TakeTarget`, `TakeError` and `GiveUp` are the sides of the two selects.
`PrintError` and `PrinterReturns` are the goroutine that
drains `errs`, `Work(w)` one goroutine of the pool: `Take`, `Proceed` and
`SendResult` join the pool's own steps in `Engine` (`Receive`, `ProbeOne`,
`WorkerReturns`, `SendRecord`) with what they take from the source. `EngineReturns` is the wait
for all of them, `ErrsPrinted` the second wait; then `CloseSink` and
`CleanOutputs`. A panic in any goroutine ends the process (`panicked`).

### WorkerRun, Wire and Reporter

`GetTargets` and `OpenResults` are the two calls before the engine runs, each
with its early return. The goroutine of `StreamTargets` is `srcPc`: `RecvTarget`,
`RecvEOF` and `RecvFails` are the three results of `Recv`, `GiveUp` and
`ReportFailure` the two selects. `Take`, `Proceed` and `SendResult` are the pool,
as in `ScanRun`. `SinkRun` is the sink's consumer with `WriteResult` as the
output's `Write`: a result that `Encodes` goes on the stream in its wire form
(`Encoded`), another is an error the sink ignores. `EngineReturns`, `ErrsPrinted`, `CloseSink`, then `CloseSend`
and `AwaitAck` (the two halves of `CloseAndRecv`) are the rest of `runWorker`.

A target is its host, which stands for all of it that travels unchanged, and its
port. `ToProtoTarget` and `ToProtoResult` make an int32 of the port (`Narrow`),
so the worker probes and reports `AtWorker(t)`; the worker's own queues name
a target as the coordinator has it, and `Encoded` and `Decoded` carry that name
beside the record, which has only what the code's does.

The connection (`conn`) that the result stream is opened on is up until it breaks.
A connection that gRPC makes again carries new calls and not the old streams: one
lost and made again before `OpenResults` is `RecvFails`, which ends the target
stream alone. A stream holds up to `Window` results that the coordinator has not
read; `Send` fails once the connection is down or the context done, and blocks
otherwise when the window is full. `CoordinatorReads` (which decodes) and `CoordinatorAcks` are
the coordinator's side of `ReportResults`, and owe the worker nothing.

`Reporter` forgets all of this but the targets received and reported, whether
the target stream is over, the phase of the worker, the acknowledgement and whether
the worker is cut off. It promises nothing about *how* the target stream ends. The
refinement maps a result to "reported" when it is on the stream, and the phase
to "running" when `OpenResults` is done and to "closed" when `CloseSend` is.

### Distributed

`Coordinator` lets its workers report whatever they were sent, whenever.
`Distributed` replaces that by `Reporter`: each caller `c` has the state of one,
and the worker's steps are steps of the instance `AsReporter(c)`, by name:
`WReceive` is its `Receive`, `WEnd` its `End`, `WReport`, `WClose` and `WExit` its
`Report`, `Close`, `Succeed` and `Fail`. That a worker process behaves so is not
assumed here: it is `ImplementsReporter` of `WorkerRun`, checked there and proved
(`WorkerImplementsReporter`). What `Distributed` adds is what the two ends of a
connection have to do with each other:

- `WReceive`: only what was pushed arrives; `WEnd`: a target stream ends after
  its last target when the handler returned, and anywhere when the connection was
  lost (`TargetsEnded`);
- `Asks` and `Opens`: a worker asks before it exits, and the two ends of a result
  stream begin together;
- `Reads` and `StreamEnds`: a result is read only when it was reported, and the
  end of a stream only after the last result, or with the connection.

Nothing that a worker does after its result stream was cut off reaches the
coordinator, so only its exit is modelled then. A worker that is told to stop is one
whose connection is lost; the race of its own cancellation with an
acknowledgement on its way is `WorkerRun`'s (`AwaitAck`). A worker whose connection
is lost and made again before its result stream opens is one more case: it goes
on with what it had received, and may succeed.

### FpModule and Probe

`FpModule` has the verbs of `step.go` and the three `Next` functions, as what each
answers to the state it passed on, the packets of the round and the TLS state of
the connection. "any" is every other module: any step at any time.

`Start` is the head of the reconnect loop, `Dial` everything below
`dialWithRetry`: `Resolve` and `LookupFails` for `lookup` with its second chance
under "www.", `Connect`, `ConnectFails` and `BindRefused` for
`dialWithPrivPorts`, the handshake of a TLS dial, the backoff.
`NextResult`, `NextRestart` and `NextContinue` are the three kinds of answer, `UpgradeTLS`
and `UpgradeEnds` a module's call of `Conn.UpgradeTLS` on the way to one.
A round is `Arm`, `Write`, `Arm`, then reads: `ReadPacket`, `ReadEmpty` or
`ReadFails`; `EmptyRound` decides on a resend, `Collect` on another packet,
`Respond` on what the module is handed. Setting a deadline and doing the operation are two
steps because `WatchCancel` may fall between them.

## The runs

Each passing run lists one property per question; each property has a mutant in
`PROJECT.json`: a definition of the model with a plausible bug put in (an
operator named `<definition>_<what is wrong>` kept beside it), under which TLC
finds that property violated. `Next` of every program has a
disjunct for the process being gone (`Terminated`, `Return`, `Returned`, `Ended`), so
that every run checks deadlock and any other stop is an error.

| Run | Instance | Shows |
| --- | --- | --- |
| `shard_split` | lists of 0 to 9, 0 to 5 workers | `splitEven`'s slices are in bounds, contiguous and even |
| `coordinator` | 2 seats, 2 workers, 2 targets, register timeout, connections that may be made again, queue of 1 | `PushedOnce`, `Accounted`, `NoDuplicates`, `NothingVanishes`, `CleanExitOnlyWhenTold`, `NoAbortOnceReady` |
| `coordinator_listener` | 1 seat, 2 workers, 2 targets, one whose result does not decode and one whose port is too wide, a listener that may fail, one connection that may be made again | the coordinator implements `StaticPush`; a failed listener is an error |
| `coordinator_live` | 2 seats, 2 workers, 1 target, register timeout, no connection made again, fairness | waiters are released; a cancelled or aborted coordinator terminates |
| `scan_run` | addresses of 2 bits, ports 0 to 2, three configurations; a pool of 2; 2 outputs; queue of 1 | `OneRecordEach`, `CompleteUnlessCancelled`, `EmittedAccounted`, `SameOrder`, `CleanAfterDrain`, `NoSendOnClosed`, `Terminates` |
| `worker_run` | 3 targets, one not encodable, one with bytes JSON replaces and a port that no int32 (here -4 to 3) holds; a pool of 2; queue of 1; a window of 1 | `SuccessIsComplete`, `OneResultEach`, `FailureIsShown`, `Exits`; the worker implements `Reporter` |
| `distributed` | 2 seats, 2 workers, 1 target, one connection that may be made again; queue of 1 | `SuccessIsRecorded`, `ScanCompletes` |
| `probe` | the three modules and "any" over all transports, one retry of each kind, 3 steps, 3 packets | `NoSocketLeft`, `OutcomeIsEarned`, `ResendsWithinBudget`, `DialsBounded`, `PacketsAsAsked`, `Returns` |
| `v_reported`, `v_abort`, `v_cancel`, `v_handshake` | see below | a sentence of the documentation that the code does not keep |

Why the bounds are enough for the interesting cases:

- *Two callers* make every race of two registrations, of a register and the
  timer, of two result streams at the sink. With two seats a caller can wait for
  another and leave; with one seat (`coordinator_listener`) a caller is refused
  while the other is served.
- *Two targets* give each worker one of its own, and main a list to walk in
  ReportUnresolved; a shutdown that drains only part of the source deals none or
  one of them. Uneven divisions are `ShardSplit`'s business.
- *A queue of one* is full after one record, so that every `Send` can block; the
  real capacity only delays that.
- *Two outputs* (`scan_run`) show orders that differ and a clean-up between two
  outputs. `NewSink` takes a list, and its comments promise one order; the
  commands pass a list of one.
- *The configurations* (`MCScanRun`) hold a block that ends at the last address,
  the whole space, single addresses named again with a port, without one and
  with an empty one, from a file and on the command line, a missing file,
  domains, and one entry of each kind that is refused: a prefix too long, a port
  too high, two ports, a port after a prefix, no host, a blank. One has a default
  port that is too high, as `-p` may give. Two bits are
  enough for a block with a first, a middle and a last address; nothing in the code depends
  on the width. One configuration uses `Domains` and `DomainFiles`, which
  `Stream` reads and no flag fills.
- *A window of one, a queue of one, two goroutines and three targets*
  (`worker_run`) let the whole chain block: one result on the wire, one in the
  consumer's hands, and a goroutine in `Send` or the queue full behind it. The record that
  cannot be encoded is the second, so that records follow it.
- *A port that wraps* (`worker_run`): with an int32 of -4 to 3 the third target's
  port, 9, travels as 1, as 2^32+1 does in the code; it becomes the first
  target's, which is the worst it can do.
- *Connections that are made again* are all of them in `coordinator`, one in
  `coordinator_listener` and `distributed`, and none in `coordinator_live`, whose
  properties are about handlers that wait and main, which a new connection does not
  touch. A connection may be lost and made again more than once.
- *One target and two workers* (`distributed`): one worker has the result, the
  other an empty shard and still a rendezvous, two streams and an acknowledgement
  to live through, and the one whose connection is made again may be either. Two
  targets have about ten times as many states, and what they would add
  is in `coordinator`. Three clauses of `SuccessIsRecorded`, about ports too wide, an
  aborted rendezvous and a listener that fails, are not exercised by this instance:
  `WorkerSuccessIsRecorded` proves them for every value of the constants.
- *Three steps* of the module are enough for a round, a restart and a round
  on the new connection, or an upgrade between two rounds; `Asked` has no packet, one, two, and no limit; three
  packets are one more than any finite request. `MaxSteps` bounds the steps of
  "any" (the repository's own modules take two) and `MaxPackets` is where the count of
  packets saturates, though the reading goes on.

Callers and targets are symmetric in `coordinator`, which checks no liveness;
no run with a temporal property other than an action property uses symmetry.

## Fairness

Only what the Go runtime gives: a goroutine that can run does (weak fairness of
its step), and a timer that was started expires. Nothing is asked of workers, of
the network or of the operator: a call, a result, a target that is taken off
the stream, a disconnection or a signal may never come. `RecvEnds` is fair only
once the connection is down, because only then does `Recv` return by itself.

`SendResult` of `ScanRun` and of `WorkerRun` has strong fairness: two goroutines contend for a slot
in the queue, the runtime serves blocked senders in order, and weak fairness
would let one of them find the queue full each time it looks. In the
coordinator the liveness properties are about a run that is cancelled or
aborted, and weak fairness is enough.

The coordinator's fairness is one condition per goroutine: a handler is at one
step at a time, so weak fairness of the disjunction of a handler's steps is that of
the goroutine.

`Distributed` has workers that are started, connect and work: `ScanCompletes` is
about a scan nothing disturbs, and fairness of the joint `Progress` (each process
runs on as long as one of its goroutines can) is all it needs, because the
undisturbed scan has no cycle. `Disturbance` has no fairness.

`WorkerRun` asks nothing of the coordinator, nor for a target to arrive, and
`RecvFails` is fair only once the connection is down or the context done: `Exits` is
about workers that were cancelled or cut off. A worker whose coordinator is
alive and silent waits for it, which is what the code does.

`Probe` asks for its own steps, because lookups, dials, writes and reads carry a timeout, and
for the watcher's. The TLS handshake is bounded by the context alone: it is fair
to fail once the context is done and is asked for nothing before. `Returns` is
checked with a module that comes to a result after `MaxSteps`. It excepts two
ways not to return, each of which is a finding: a handshake that a peer leaves
unfinished in a scan that is not cancelled (`v_handshake`), and a peer that goes
on sending to a module that asked for all, even when cancelled (`v_cancel`).
`ScanRun` and `WorkerRun` take each probe to end, so
`Terminates` and `Exits` are about the channels between their goroutines and not
about such peers.

## What is proved

`tlapm` checks every leaf. The assumptions are the constants' own, which TLC
evaluates on the instances: positive capacity, window and number of outputs, a
set of targets that `None` is not in (finite in the coordinator), a pool with a
goroutine, distinct targets in a worker's shard, natural numbers for the bounds
of a probe, for the width of an address, for the greatest port and for the greatest
int32. One is a restriction: a port too wide for the wire is not narrowed to
another target's port of the same host (`Arrives(t) \notin Target`). A single-host
scan takes its configurations from a set of them, of which `ScanRunAssumption`
says only what Go's types do: sequences of texts and of files, and a default
port that is any integer, since no code checks `-p`. Workers, callers, pools,
texts and configurations are arbitrary.

| Module | Theorems |
| --- | --- |
| `ShardSplit_proofs` | `SplitEvenCorrect`, `SplitTyped`, `SlicesInBounds`, `ShardsMeet` |
| `Coordinator_proofs` | `Invariance`, `TypeCorrect`, `PushedToOne`, `NothingForgotten`, `ReadyIsFinal`, `CoordinatorImplementsPush`, `CleanExitIsTold`, `WritesOnce`, `OutputsAgree`, `ShutdownReports` |
| `Distributed_proofs` | `ScanInvariance`, `ScanIsCoordinator`, `WorkerSuccessIsRecorded` |
| `Entries_proofs` | `IPEntryNames`, `DomainEntryNames`, `SourceNames` |
| `ScanRun_proofs` | `ScanTyped`, `PoolSendsBeforeClose`, `ScanWritesOnce`, `ScanSameOrder`, `ScanCleansLast`, `ScanEmittedAccounted`, `ScanComplete`, `ScanProbesOnlyNamed` |
| `WorkerRun_proofs` | `WorkerTyped`, `WorkerReportsOnce`, `WorkerShowsFailure`, `WorkerSuccessIsComplete`, `WorkerImplementsReporter`, `WireKeepsResults` |
| `Probe_proofs` | `ProbeTyped`, `ProbeLeavesNoSocket`, `ProbeOutcomeEarned`, `ProbeResendsBounded`, `ProbeDialsBounded`, `ProbePacketsAsAsked` |

`PROJECT.json` names the property each of them states. Every proof follows one
pattern: `StepKinds` splits `Next` into the steps that touch what an
invariant talks about and the quiet ones, each part of the inductive invariant
has a lemma of its own with one case per kind, and the theorem joins them.

**Coordinator.** The invariant is `IInv`, five named parts:

- `TypeOK`;
- `Seating`: the calls past `register` hold distinct slots below `arrived`, and
  `ready` holds exactly when `arrived = Workers`. `PushedOnce` alone is not
  inductive: two calls with one slot would send the same shard;
- `Dealing`: the shards are pairwise disjoint (empty before `ready`), and what a
  call has sent is part of the shard of its slot. With `Seating` it gives `PushedOnce`;
- `Results`: what a handler holds, the sink contains or a `Send` gave up was
  received, and what was received was sent. The refinement needs it: an answer in
  `StaticPush` is allowed only for a target that is owed;
- `Accounted`: it needs only itself and the types, the sink's steps neither
  lose nor invent a record (lemmas `EnqueueAccepts`, `RunKeeps`, `OtherSinkSteps`).

Results are told apart by what their target arrived as: `RealOfOne` says that this
still names the target.

For the refinement, `Register` maps to `Sit`, `PushTarget` to `Push`,
`SendResult` to `Answer` or `Lose`, `Cancel` to `Stop`, everything else to a
stutter (`StepRefines`). `CleanExitIsTold` has its own small invariant, `Told`: who
stopped the server, what `Serve` returned of it and what main kept.

**Sink.** `Sink_proofs` has lemmas that the programs with a sink share, over any
set of records: `HeldOnce` (a record is in the channel, in the consumer's hands
or in the log, and in one place only), `InStep` (between two records all outputs
are at the same point), `Drains` (the consumer returns when there is nothing left,
clean-up comes after). `SendOnClosed`, `Enqueue`, the consumer's steps and the
closing ones preserve them, provided that what is enqueued is not held. That
proviso is what each program adds:

- the coordinator: a real record is enqueued by the one handler that received its
  target (`Results`), a synthetic one once per target of the copy (`MadeOnce`);
- the single-host scan and the worker: `OnePlace`, a target is with the stream,
  with one goroutine or in the sink, and never in two of these. For the scan, what the source offers is new by
  deduplication (`seen`); for the worker, by the distinctness of its shard.

`ShutdownReports` needs two more facts of the coordinator: `Shutdown` (main goes
on only when `Serve` has returned, and exits when the sink is drained) and `CopyIsAll`
(what was copied from `pending` is all that is left to report, as nothing is
pushed after the connections are down).

**Entries.** `IPEntryNames` and `DomainEntryNames` compare the parsers with the
definition that does not parse: for every text and every default port, what an
entry parses to expands to the targets it names, and an entry that is refused
names none. A text that parses is put together again from its pieces (`CutSplits`,
`ParsedSpells`), and a text that spells a target is cut where it was joined
(`CutConcat`, `SpelledParses`). `BlockSize` and `Masked` need that the
addresses with a given masked address are one block (`SameBlock`) and that a block is
convex (`BlockConvex`), which the walk of `NextAddress` through it rests on.
`SourceNames` adds the reading of flags and files, where blank lines are
dropped and a missing file is one invalid entry. `ReadLines` and `Listed` are
recursive functions over the length of a list; the library's induction theorems
take an operator and cannot be instantiated here, so `SetInduction` and
`Recursion` state induction over a *set* of numbers, proved from the
well-foundedness of `<`.

**Single-host scan.** `IInv` has ten parts:

- `Typed`, with the records among the targets the source has emitted (`seen`), and
  `Bounded`, the capacities and flags that no other part needs;
- `Sourced`: the producer stands in the entries the configuration parses to, and in a
  block at or after its first address;
- `Ordered`: who has returned when, the pool before the error printer is waited
  for, that before the sink is closed. `NoSendOnClosed` follows from it;
- `InStep`, `Drains`, `OnePlace`: the sink's, as above;
- `Emitted`: an emitted target is still offered, with a goroutine, in the sink,
  given up, or was the last one and found no receiver. At the exit only the sink and the
  last two are left, which is `EmittedAccounted`;
- `OnlyNamed` and `Uncut`: with `Left` for the targets the producer has yet to
  offer (the rest of its block and the later entries), `seen` and `Left` are
  among what the configuration names, and unless the context is done they are all of
  it and no record was given up. `Uncut` is the loop invariant of `Stream`: every step
  moves a target from `Left` to `seen` or drops one that is in `seen` already
  (`LeftKept`). At the exit `Left` is empty and `CompleteUnlessCancelled` follows from
  `SourceNames` and `Emitted`.

`ScanProbesOnlyNamed` says of every reachable state, cancelled scans included,
that what a goroutine probes is named by the configuration.

**Worker.** Besides `OnePlace`, `SentOnce` (the results on the wire and those
read are of different targets, each of them already in the log of the one output)
carries uniqueness from the sink over the stream; `Shown` follows the
error of the target stream from `errs` to the printer, for which main waits;
`Bounded` is the rest of `TypeOK`, the capacities of the queue and the stream included.
Completeness is `Stages` (what main has waited for is over), `Kept` (before
the context is done, a target that was received is offered, with a goroutine or in the
sink), `WrittenIsSent` (what was written is on the wire or read, unless it cannot be
encoded or the stream may fail) and `Answered` (an acknowledgement tells that all was
read). That the records read are the results the engine made is
`WireKeepsResults`: for every host, integer port, outcome and kind of value, a
result that encodes, of the target as the worker received it, decodes to the same
host and outcome and prints alike (`PrintsAlike` names the two exceptions, a port that
is no int32 and bytes that are no UTF-8); its port is an int32 and differs from the
target's by a multiple of 2^32, which is none if the target's is an int32
(`NarrowFits`).

For the refinement (`WorkerImplementsReporter`) `RecvTarget` maps to a target
received, a `Write` that succeeds to one reported, `CloseSend` to the close,
main's last step to the exit, everything else to a stutter (`StepRefines`). The
invariant supplies what `Reporter` demands of them: that the target is one
received and not yet reported, and that a close with nothing failed comes after
every report.

**Coordinator and workers.** `ScanIsCoordinator` is the first step: a step of
the composition is a step of a worker, which leaves the coordinator alone, or one
of the coordinator, so every invariant of `Coordinator_proofs` holds here. The
rest (`DInv`) relates the two ends of each stream: `Streams` (read is reported,
reported is received, received is sent), `TargetCalls` and `TargetsOver` (a target
stream that is over gave the whole shard, unless the worker was refused, the
rendezvous aborted, or the connection lost and made again), `AtClose` (a worker that
closed its results had reported all it received),
`Acks` (an acknowledged stream was closed and read to its end), `ReadIsKept` and
`Claimed` (a result that was read is in the call's hands, in the sink or given
up, and its target is not pending, but for a port too wide), `Joined` and `Resolved`
(no target that an acknowledged worker reported is reported as unresolved, unless Serve
failed or its port is too wide). `WorkerSuccessIsRecorded` follows from
`TargetsOver`, `AtClose`, `Acks`, `ReadIsKept`, `Claimed` and `Resolved`. That a worker
keeps `Reporter`'s guards is `WorkerImplementsReporter`, about the worker process;
there is nothing to prove of it here, where the worker's steps are `Reporter`'s.

**Probe.** `IInv` has seven parts: `TypeOK`, `NoSocketLeft` and
`OutcomeIsEarned` as they stand; `DialsCounted` (what each attempt so far can
have dialled, a sum that `DialsBounded` follows from); `BudgetShared` (resends made and
left add up to `Retry`, and silence is reported only with nothing left);
`PacketsCounted` (how many packets a round has at each of its points);
`Evidence` (what is known of the connection a module decides on, without which an
outcome cannot be justified). `AnswerKinds` and `AnswersEarned` go through the
repository's modules.

**Shard splitting.** `SplitEvenCorrect`: the four invariants of the loop for every
length and number of workers. `Coordinator` uses the definition
`EvenShards` in place of the loop on this ground.

Only model-checked:

- the liveness properties: `WaitersReleased`, `ShutdownCompletes` and `AbortExits`
  of `Coordinator`, `Terminates` of `ScanRun`, `Exits` of `WorkerRun`, `ScanCompletes`
  of `Distributed` and `Returns` of `Probe`. Reasoning from fairness and
  `ENABLED` is beyond the prover.

Every invariant, action property and refinement that a passing run checks has a
theorem. That the prover has no induction over data with an operator as
parameter is why recursion in these modules is written as recursive functions,
and why the induction above is over a set.

No module declares a RECURSIVE operator.

## Disagreements with the documentation

Each is a run expected to find its property violated, and an entry of
"findings" in `PROJECT.json` with the quotation.

- `v_reported`: `ReportUnresolved` sends with the context whose end started the
  shutdown, so that each synthetic record may be dropped. README promises one
  for every unanswered target. A second cause is in the same model: `Serve` returns
  while result handlers run, although a comment says that no result is accepted
  by then, and a handler may hold a result it has deleted from `pending`, or meet
  the closed channel. `NothingVanishes` is what does hold.
- `v_abort`: a call that registers between the abort and `srv.Stop` completes the
  rendezvous of an aborted run, and its targets are pushed.
- `v_cancel`: with a peer that keeps sending, module http, which reads without
  a packet limit, re-arms its deadline over the cancellation and goes on.
- `v_handshake`: a comment says the module's timeout bounds a dial; the TLS
  handshake at the end of a dial has no deadline, and a silent peer keeps a
  goroutine of the pool until the scan is cancelled.

Smaller ones, met while translating, that no run is spent on:

- the help of `-i` gives `ip[/cidr][:port]` (`cmd/scannerl/main.go:37`), and
  `ParseIPEntry` refuses a port after a prefix; the order it takes is `ip:port/cidr`
  (`Entries!ParseIPEntry`, third entry of the first configuration of `scan_run`);
- `-i` and `-f` take no host names, only addresses: `Domains` is filled by no flag;
- an empty UDP datagram ends a round without a resend, although the comment of
  `sendAndWaitFirst` promises one when the read produced nothing
  (`Probe!ReadEmpty`, and the exception in `ResendsWithinBudget`);
- a target may have both its result and a synthetic "worker disconnected" record:
  a handler's delete from `pending` can come after `ReportUnresolved` has copied it,
  when `Stop` or a failed listener leaves the handler running. The comment of
  `ReportUnresolved` (`coordinator.go:293-300`) speaks of targets that "never got a
  real Result back", and README of targets that "never got a real result".
  `NoDuplicates` is what holds: at most one record of each kind;
- `-p` may be any integer, and `convert.go:16` and `:64` make an int32 of it without a
  check: a worker probes another port than the one asked for, the coordinator prints
  that one, `pendingKey` does not find the target, and the target is also
  reported as unresolved (`Wire!Narrow`, `TooWide`). That the wrapped port might be
  another target's, whose pending entry would then be deleted, is the corner
  `CoordinatorAssumption` leaves out;
- bytes that are not UTF-8 are replaced on the wire, so a distributed scan prints
  another value than a single-host scan (`Wire!PrintsAlike`);
- a worker whose target stream fails, because it was refused or because the connection
  was lost and made again before its result stream opened, exits with success once its
  result stream is acknowledged, with part of its shard or none of it
  (`FailureIsShown` and the exceptions of `SuccessIsRecorded` are what holds).

## Abstractions

- A record is the target it is about and, in the coordinator, whether it came
  from a worker; in `WorkerRun` also its outcome and the kind of its value. The
  bytes of payloads and values are not represented.
- A text of `Entries` is cut at its separators already; white space is a field of
  its own, and a name has no structure. The arguments after a "+" are cut off and
  dropped: nothing reads them.
- `Retry`, `PrivPorts` and `WWW` are configured by nothing in `main.go` yet, and
  `Malformed` results come only from a worker of another build: the engine and
  the coordinator handle them, and so do the models.
- A worker, in `Coordinator`, is its environment: it reports a target that it
  was sent at most once, in any order, and may leave at any time. `WorkerRun`
  checks that promise on the worker's side (`OneResultEach`, `ImplementsReporter`), with the
  coordinator as the environment, and `Distributed` uses it.
- In `WorkerRun` the targets are distinct, as a shard of a deduplicated source
  is. What a broken stream still delivers is any part of what was on its way.
- Main closing the result channel of the source and its error channel is
  one step; no property can tell the two apart.
- The goroutine that expands a range is
  merged with the producer, and its reaction to the context is the choice to
  end anywhere.
- `ServeFails` leaves accepted connections alive, as a failed `Accept` does.
- Time is not measured: a timer that was started may expire at any moment, a deadline
  is ahead of an operation or behind it, a backoff ends or is cancelled.
- `remade` stands for the state of the old stream and of its context, which a new
  connection does not mend.
- `dropped`, `dials`, `resends` and `got` are history or bookkeeping of the
  model: no guard of the code's own reads the first three; `got` keeps a
  result from arriving twice.

## Not modelled

- *The data race of `UpgradeTLS`*, which replaces the connection while the
  watcher may read it: a torn interface value is a choice of machine words. Its
  deadlines and its outcome are modelled, and no module of the repository calls it.
- *Generated protobuf code and gRPC itself*: the streams are the environment.
- *Output formats, registries, flags, socket options*: plain I/O and settings,
  which unit tests reach. `Wire!Printed` keeps what an output prints alike.
- *What a module extracts* from the packets it has read: a string computation.

## Plan

In the order of what matters most:

1. done: every component named above but those of the last section; the
   composition of coordinator and workers; the abstract specifications
   `StaticPush` and `Reporter`.
2. done: the safety properties of every run as theorems, with the refinements of
   `StaticPush` and `Reporter`, the composition `Distributed`, and what a
   configuration names.
3. That `Probe` keeps what `Engine` takes a probe to be: one record of the target it was
   given, at most once (`ProbeOne` of `Engine` as an abstraction of `Probe`).
4. An abstract specification of a single-host scan, a set of names of which each is
   recorded once, with `ScanRun` as its implementation.

## Running it

    tlc -workers 2 -config coordinator.cfg MCCoordinator
    tlapm Coordinator_proofs.tla

The module and the configuration of each run are in `PROJECT.json`. The largest are
`coordinator`, with three million distinct states, and `coordinator_listener`, with
two million, each about two minutes with two workers;
`probe`, `distributed` and `coordinator_live` take one to three minutes for their
liveness checks.
