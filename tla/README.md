# Verification of the Water Linked DVL client

TLA+ models of the Go package `dvl` (`conn.go`, `stream.go`, `wire.go`, `config.go`, `report.go`)
and of the command `waterlinked-dvl` (`cmd/waterlinked-dvl`), the TLC configurations that check
them, and TLAPS proofs of what matters most. `PROJECT.json` holds the index: components, runs,
mutants, the map from definitions to source lines, findings, hazards and theorems.

## 1. The system

| Component | State | Operations | Interacts with |
|---|---|---|---|
| Dialer (`conn.go:100-204`) | none | `Dial` validates its fields, dials, starts five goroutines | creates a connection, with its deadlines |
| Callers (`conn.go:249-370`) | a request with a context and a one-place `complete` channel | `Info`, `Config`, `UpdateConfig`, `ResetDeadReckoning`, `CalibrateGyro`, all by `command` | worker, by the unbuffered `commands` channel and `complete` |
| Command worker (`conn.go:372-500`) | the request in hand, its `pendingCommand`, its timer | `runCommands`, `runCommand`, `writeCommand`, `finishCommand`, `clearPending` | device, by writing; reader, by the pending slot and its channels `outcome` and `processed` |
| Reader (`conn.go:502-645`) | the frame in hand | `readMessages`, `reportUnhandled`, `failPendingCommand`, `deliverResponse` | device, worker, the three streams |
| Report streams (`stream.go`) | a ring of reports, a loss counter | `publish`, `run` | reader (input), consumers (output) |
| Termination (`conn.go:312-321, 647-658`) | terminal cause, socket | `terminate`, `Close`, `Done`, `Err` | everything |
| Decoding (`wire.go`) | none | `decodeMessage` and what is under it; `encodeConfigUpdate` | reader, `validate` of a command, `UpdateConfig` |
| `config set` (`commands.go:63-153`) | update, configuration before and after | read, update, read back, verify | a connection; the device, which others configure too |
| `watch` (`commands.go:155-223`) | three channel variables, a context | select until interrupted, timed out or ended | a connection's streams and its end |
| `info`, `config get`, `reset-dead-reckoning`, `calibrate-gyro` | none | dial, one command, write, `Close` | a connection |
| The tool around them (`main.go`) | arguments, exit status | `main`, `run`, `runConfig`, flags, `dial` | the user: arguments, Ctrl-C |
| Output (`output.go`) | none | `write...`, which may fail | standard output |

What is hard here, in the order of importance:

1. *Correlation without request ids.* The protocol answers a command with its name only. All
   correctness of answers rests on one command being in flight at a time, on its slot being
   installed before the write and retired before the next frame is read, and on a command that its
   caller gave up being retired like any other.
2. *Termination from everywhere.* The reader, the worker and any number of `Close` calls end the
   connection, each in two steps, while every other goroutine may be parked in a channel operation,
   a handshake or a socket call.
3. *A reader that must never block.* Reports, answers and undecodable frames share one reader.
4. *Loss accounting* in the streams, under Go's random `select`.
5. *Deadlines*: one for the next line, one for a write and one for a response, none of which may be
   stretched by a device that trickles bytes, or strike early.
6. *Exactly one payload per frame*, with every missing or unusable member noticed, and numbers
   converted at the edge of what an integer holds.
7. *The tool's promises*: what `config set` may touch and report, how each command ends, with what
   exit status.

The hazards, each at its line and with the properties that cover it, are in `PROJECT.json`.

## 2. The modules

| Module | Models | About |
|---|---|---|
| `DropOldest` | the contract of a stream (`conn.go:210-213`, `report.go:8-18`) | abstract specification: a bounded queue of numbered reports that drops the oldest |
| `ReportStream` | `stream.go` | the broker, its ring, `publish`, consumers; implements `DropOldest` |
| `Demux` | `conn.go:502-645` between its streams and the pending slot | one reader composed of two whole `ReportStream`s and a waiting command |
| `Wire` | `wire.go:38-331, 464-534` | `decodeMessage` as an operator on frames described by their faults |
| `Decoding` | `wire.go:91-158` | the decoding of one frame as a step, and its properties |
| `Numbers` | `wire.go:498-534` | `milliseconds` and `unixSeconds` as operators in a binary floating point |
| `Conversions` | `wire.go:226-229` | the conversion of one float as a step, and its property |
| `CommandService` | the contract of the commands (`conn.go:249-370`) | abstract specification: one command at a time, transmitted at most once, one result for each call |
| `Conn` | `conn.go:163-658` | callers, worker, reader, closers, device; EXTENDS `Wire` |
| `ConnProperties` | | assumptions, type invariant, properties; `Conn` implements `CommandService` |
| `Deadlines` | `conn.go:100-197, 470-491, 502-573` | `Dial`'s settings and the three deadlines, in discrete time |
| `ConfigSet` | `commands.go:63-153`, `wire.go:397-462`, `conn.go:267-294` | `config set`, the device's configuration and another client |
| `CommandLine` | `main.go`, `commands.go`, the outcome of `output.go` | the tool from its arguments to its exit status, with `watch`'s select |
| `*_proofs` | | eight modules of theorems, section 4 |
| `MC*` | | instances for TLC |

What composes what: `Conn` uses `Wire`'s decoder on every frame. `Demux` instantiates `ReportStream`
twice; it checks what `Conn` takes for granted, that a stream accepts any report at any time.
`CommandLine` sees a connection as what `Conn` and `ReportStream` prove of it (one more sample at
most after the end, then closed; a call answers or fails), `ConfigSet` as requests and replies that
belong together.

### How state and actions correspond to the code

**`ReportStream`.** `queue`, `head`, `size`, `dropped` are the locals of `run`. A report is the
number of its acceptance, so that order and loss can be stated. `broker` is at the priority check
at the loop's head (`Check`) or in the blocking select (`SelectDone`, `Input`, `Output`). `Input` is
the meeting of `publish` with the broker, `Output` that of the broker with whichever consumer
receives. `late`, `sample` and `accepted` are history.

**`Conn`.** One program counter for each goroutine; a step is what a goroutine does between two
points where others can see it. `cause` is `context.Cause(s.ctx)` and `Done` is `cause # None`.
`pending` is the slot; a `pendingCommand` is named by the caller whose command it is, and `outcome`,
`processed` and `complete` are the channels of that command. `inbound` is the TCP stream towards the
client, in order. `terminate` is two steps everywhere (`...Cancels`, `...Closes`), because the
properties of the terminal cause depend on their order. The three streams appear as a queue that
accepts any report while open. `answers` in frames and results is the request
the device was answering: the code has no such field, and only properties look at it.

**`CommandService`** knows neither reader nor slot nor channels. A call is asked, taken in turn,
transmitted, answered by the device, and resolved with one verdict: its own answer, its
cancellation before transmission, or the cause of the end. In the mapping (`ConnProperties`,
`Service`) the verdict is the `complete` channel, the turn is the worker's command and stage.
A caller that gives up leaves the turn in place: a retransmission, a second command at the device,
or an answer that changes hands is no step of the service.

**`Demux`.** `Route` is one turn of the reader's loop: what `decodeMessage` made of the frame, and
`pending`, decide whether it is offered to a stream or handed to the command. Velocity and dead
reckoning reports take the same path, so that one typed stream stands for both. Nobody need consume
the unhandled frames. The handshake is one step, since `Conn` studies it.

**`Deadlines`.** Zero stands for "none" in `readDeadline`, as in the code's zero `time.Time`.
`Trickle` is bytes that complete no line, `HandleLine` a line, blank or not, after which the loop
arms the next deadline. A line may be a response, which the reader hands to the command in hand; it
is then `held` (`conn.go:638-644`) until the worker, which may still be writing that command, is done
with it (`Finish`). At the read deadline (`Expire`) the scanner first hands out the part of a line
it has, as a line, and fails on the next call (`IdleEnds`). A `Write` takes pieces under one deadline.
`Tick` is allowed only when nobody can run and nothing is due: the runtime takes a deadline when it
passes, the idle deadline only of a reader that reads. `heard` and `begun` are history: when
the wait for the socket, the write, or the wait for a response began.

**`ConfigSet`.** `tool` is the line `runConfigSet` is at, or how it returned. A command is a request
and a reply; that a reply belongs to its request is what `Conn` shows. `untouched` (what the device
would hold but for the tool), `accepted` and `held` are history.

**`CommandLine`.** `tool` is the function the tool is in. `listening` is whether `watch`'s local
channel variable is non-nil. `left` counts the requests of a command that are not answered yet;
`elapsed` is the deadline of the context that the requests, or `watch -duration`, run under. `trouble`
is history: what went wrong, so that the exit status can be judged.

**`Decoding`.** A frame is its encoding, type, format and which members are at fault in which way;
`IsFrame` allows any type, any format, and any number of faults. `Decode` is the call of
`decodeMessage`.

**`Numbers`.** A float is its value in units of 1/`Unit`, the least positive float; `Float` rounds a
product to the nearest float, halves to even, and to `NotFinite` beyond the largest; `ToInt` of what
does not fit is any end of the integers. `NumbersAssumption` says only that the floats have fewer
bits than the integers and reach beyond them. Go's float64 and int64 satisfy it with `Precision` 53,
`Unit` 2^1074, `MaxExponent` 2045 and `Width` 64. For TLC 64 and 53 become 9 and 6, which
keeps what makes the code delicate: the largest integer is not a float, and its nearest float is one
beyond it; some products overflow.

### Go's semantics that the models rely on

* An unbuffered channel operation is a rendezvous, one step of both sides.
* *Two selects that both wait on `done` never meet after it is closed*: closing a channel resolves,
  under the channel's lock, every select parked on it; one that arrives later finds `done` ready,
  and no partner parked. `HandOver`, `Publish` and `Input` therefore require `~Done`. `Output` does
  not, as consumers need not wait on `done`.
* `context.CancelCauseFunc` sets the cause and closes `done` in one step under its lock; later calls
  do nothing.
* I/O on a socket that this side closed fails with `net.ErrClosed`; `SetWriteDeadline` and
  `SetReadDeadline` on an open socket do not fail. `Scan` may still return a buffered line after
  that.
* A select over several ready cases chooses at random.
* A conversion of a float to an integer that does not hold it has an unspecified result.

## 3. The runs and what they show

| Run | Instance | Distinct states | Shows |
|---|---|---|---|
| `report_stream` | 3 slots, 8 reports | 1 032 | exact loss accounting, order, at most one late sample, refinement of `DropOldest`, `publish` returns, the stream closes |
| `demux` | 2 streams of 1 slot, 4 frames of any of 3 kinds, fairness | 119 893 | every frame is accounted for; full streams hold up neither responses nor each other |
| `wire` | 6 types, 8 formats, up to 2 faults in any members | 132 288 | no fault reaches a typed stream but a null inside the covariance; sound responses in any format; only unknown types have no error |
| `numbers` | all floats of 6 bits, subnormal ones too, integers of 9 | 1 536 | conversions do not wrap around, and refuse only what is at a limit or beyond it, or rounds to there |
| `conn_calls` | 2 callers of the same command, 2 closers, a device that answers once | 1.7 million | own answers, no forgotten call, genuine cause, `Close` leaves nothing, refinement of `CommandService` |
| `conn_noise` | 1 caller, 1 closer, idle timeout, 4 kinds of reply, 2 of 9 kinds of other frames | 1.9 million | correlation and the outcome handshake against an arbitrary device |
| `conn_live` | 1 caller, 1 closer, 1 of 3 kinds of other frames, fairness | 119 000 | calls and `Close` return, the end ends everything, the reader gets back to the socket |
| `conn_format` | as `conn_live`, with responses whose `format` is mistyped | | a violation, see section 6 |
| `deadlines` | settings of -1, 0, 2 and 3, nine units of time | 427 997 | no deadline is late, none is early |
| `config_set` | every boundary of every range, changes by another client | 9 604 | other fields survive, invalid updates change nothing, success and errors are truthful |
| `command_line` | every command, good, bad and help flags, every kind of duration, fairness | 18 645 | exit status is truthful; the end, the interruption and the deadline end the tool |
| `watch_interrupt` | `watch` without a duration | | a violation, see section 6 |

### Bounds, and why they are enough

* `Capacity = 3`, `MaxReports = 8`: the ring wraps more than twice, and drops happen with the head
  in each slot. One and two slots have no state the theorems do not cover anyway.
* Two callers of the *same* command are the least with which one's answer can be taken for the
  other's, with one of them given up while its answer is on the way. Each caller issues one command;
  a caller that issues several one after the other is several callers. Two closers are the least
  that can race each other. Further callers only wait at the same rendezvous.
* `MaxInFlight = 1` bounds the frames on the way at a time. Together with the frame the reader has
  in hand and the outcome in its channel this gives three successive responses in the system, which
  is what a doubly filled outcome needs. `MaxNoise = 2` allows an unsolicited response before *and*
  after the awaited one.
* `demux`: with one slot the stream of unhandled frames is full after one frame and drops with the
  second; the response comes behind, and a velocity report with it.
* `deadlines`: the timeouts differ from each other and from the default, and nine units see
  an idle deadline armed again and a whole command after it.
* Two faults per frame: the decoder's checks are conjunctions, so that one fault shows that a check
  exists and a second that no other fault hides it.
* Every invariant, every action property and every refinement of the passing runs is also proved,
  without bounds. Only liveness rests on the bounds.
* `conn_calls` turns the idle timeout off and `conn_noise` turns it on.
* `CHECK_DEADLOCK FALSE` throughout: a closed connection, a decoded frame or an ended tool stops.

### Fairness

`WF(WorkerStep)`, `WF(ReaderStep)`, `WF(StopStreams)`, `WF(CallerStep(c))`, `WF(CloserStep(k))`: the
Go runtime runs every goroutine that can run. `TimeOut` and `FailWrite` are part of `WorkerStep`, as
the code always arms the command's timer (`conn.go:411`) and the write deadline (`conn.go:471`);
`Deadlines` is where their time is modelled.
Nothing is assumed of the device, of contexts being cancelled, of consumers, or of anyone calling
`Close`: `CallsReturn` holds with a device that never answers. In `ReportStream` consumers
(`Output`) have no fairness. In `Demux` only the velocity stream's consumer has, which
`VelocityFlows` is about; `ResponsesGetThrough` does not depend on it.

In `CommandLine`, `WF(ToolStep)` and `WF` of a stream's closing are the runtime's; `WF(Elapse)` is a timer that
passes, which every command but `watch` has (`main.go:137-139`). `SF(Stop)` says that a select which is entered time and
again with the interruption ready takes that case in the end: Go chooses at random, and the loop may
enter the select with a report ready every time, so that the case is ready again and again without
being taken. `EndStopsTool` needs no strong fairness, as each stream is closed once.

### Mutants

Each property of each passing run names an operator, next to the definition it replaces, that
changes the code the way a plausible bug would (`PROJECT.json`, "mutants"): TLC finds the property
violated with it. They are marked `Mutant:` in the modules and used by nothing else.

## 4. What is proved

All proofs are for every value of the constants that satisfies the named assumptions: `Capacity` is a
positive natural (`Dial` rejects negative sizes and replaces zero); names are command names; frames
have a boolean success; bounds are naturals; floats have fewer bits than the integers and reach beyond them; `None` is none of the values it stands beside; settings
are integers and the defaults positive; an update has fields of `ConfigUpdate`, numbers or
`NotFinite` in the numeric ones. Sets of callers and closers, the device's replies and noise, updates
and changes are arbitrary, also infinite, and so are the frames to decode.

All of them are established by an inductive invariant and the steps that keep it; the theorem itself
is the last line, which only puts them together. They are of three kinds: the properties that the
runs check; the refinements; and five facts that say why the code works, and that no run lists:
`GapsAreReported`, `GapsAreReportedBeside`, `OneCommandAtATime`, `ReaderIsNeverStranded` and
`WholeNumbersSurvive`.

**Streams** (`ReportStream_proofs`). `StreamInv` is types, `NothingUnaccounted`, `RingHoldsNewest`
(the ring, read from its head, is the interval of report numbers after the last delivery and the
losses; other slots are zero) and `LateOnce` (a broker that delivered late is back at its check). The
ring arithmetic is isolated in five lemmas. `StreamKeepsPromise` is the refinement: `Input` maps to
`Accept`, `Output` to `Deliver`, `SelectDone` and a closing `Check` to `Close`, all else to
stuttering. It needs the ring invariant, for that `queue[head]` is the oldest retained report.
`GapsAreReported` says what a consumer can rely on from one sample to the next: reports come in order,
`DroppedBefore` is the number of those missing between the two, and a report is given up only when
the ring is full and a newer one comes.

**Reader and streams** (`Demux_proofs`). `StreamsAreStreams`: every step of the composition is a step
of each stream or leaves it alone, so that both behave as a `ReportStream` and whatever is proved of
one holds of both. `NoFrameIsLost` adds `LossIsExact` of both to the invariant `Accounts`, what the
reader took in terms of what the streams accepted. Through the same fact `BothKeepPromise` and
`GapsAreReportedBeside` carry the refinement and the action property of the single stream over to
both streams of the composition: the theorems of `ReportStream_proofs` are instantiated, not proved
again.

**Connection** (`Conn_proofs`). None of the properties is inductive alone. The invariant `IInv` has
these parts:

* `CommandsOwed`: a request that was not handed over has no trace; the worker owes an answer in all
  its states but three, and while it owes one the caller's channel is empty; the slot is occupied only
  between installation and retirement.
* `Handshake`: an outcome in its channel has a reader waiting for it (or a connection that ended);
  a processed command's outcome is gone; the worker finishes a command only with the reader waiting
  for it. This is why the reader never meets a full channel.
* `EndingInOrder`: whoever closed the socket had set a cause before; an error of this side's own
  closing can only be held by a goroutine that comes after the cause was set. This is
  why `CauseIsGenuine`.
* `Answers`, `AtFinish`: every result on its way names the command of its caller, and every
  interruption carries the cause.

From it follow `TypesAreKept`, `NoCallIsForgotten`, `NoSendBlocks`, `CauseNotOurOwnEcho`,
`CauseNeverChanges`, `EndIsExplained`, `AnswersCorrelate`, `CloseLeavesNothing` and
`AwaitedResponsesStayPrivate`.

`ReaderIsNeverStranded` is the safety core of `ReaderGetsBack`. While the connection lives, a reader
that is about to hand an outcome over finds the worker with that very command in hand; one that waits
for the outcome to be processed either has it in the channel with the worker still to take it, or the
worker is on its way to closing `processed`, or has closed it. The timer that fires as the answer
arrives is among these cases: the worker then cancels, and the end frees the reader.

**Answers** (`ConnAnswers_proofs`). The protocol has no request ids, so that a device which sends a
response unasked can be taken for one that answers. `AnswersAreOwn` and `AnswersAreAwaited`
assume `Honest`: what the device sends besides its replies contains no response. It still may answer
late, badly, or never. The invariant `Correlation` says that whatever is left of a command is in *one*
place (at the device, on the way, in the reader's hands, in the outcome channel), and the
worker attends to that command or the connection is over. So there is never an old answer for a new
command to meet, which `OneCommandAtATime` states on its own. `AnswersAreAwaited` is the other half:
while the connection lives, an answer is published as an unhandled frame only after its own command
was given up by a failed write or the timer, between the clearing of the slot (`conn.go:404, 424`)
and the end that follows (`conn.go:406, 430`); never before its command holds the slot and never
because another command has it. Its invariant `TooLate` says that the worker holds on to the slot
until it clears it, so that an answer that finds the slot empty finds it cleared. This is the argument for the rule that a caller's cancellation does not retire its
command, and that a timeout ends the connection (`conn.go:117-122`).

The same module proves `ConnectionServes`, that `Conn` implements `CommandService`, under the same assumption: a rendezvous
with the worker maps to `Take`, `Transmit` to the transmission, a write failure or the timer to
`Fail`, and every answer to a request to `Resolve`. It needs `Correlation`: a verdict is
the device's answer to *this* command, and no other one is at the device at a transmission.

**Decoding** (`Wire_proofs`). For any set of frames that `IsFrame` describes: any type, any format,
any number of faults. `FamilyIsSupported` shows that the token-by-token check of a format accepts
just the documented family, digits of any number. `FaultsOneByOne` says that a member is sound
or at fault in a way that one of the checks looks for (or a covariance with a null in it), and
`Branches` is the dispatch on the type. From them follow
`NoFaultSlipsThrough`, `ResponsesAreDecoded` and `ErrorsAreForFaults`, the three properties of the
run.

**Conversions** (`Wire_proofs`). `ConversionsNeverWrap` states `ConversionsAreFaithful` for every
format with the assumption above, float64 and int64 among them. What is hard lies at the limits.
`FloatOfMinInt`: the least integer is a float. `FloatOfMaxInt`: the largest is not, and its nearest
float is one beyond it, so that the comparison `>=` with it refuses just what does not fit.
`FloatIsNear` and `RoundIsNear` bound the two errors by half a spacing and half a whole, also where
the product leaves the finite floats (`ProductsThatOverflow`, which are out of range anyway).
`WholeNumbersSurvive` adds that a product which is whole and has no more digits than a float is
converted to itself.

The arithmetic needs powers of two, whose equation is an induction that the prover cannot
instantiate. In its place stands the least-element principle for *sets* of naturals, which has no operator
parameter: a least natural without a function of powers below it (`PowersExist`), or at which two of
them differ (`PowersAgree`), is contradicted by its predecessor. That gives `TwoToEquation`, and with
the same principle `TwoToType`, `TwoToSum`, `TwoToMonotone` and the existence of the exponent
(`ExponentExists`).

**Deadlines** (`Deadlines_proofs`). `Armed`: the armed deadline is that of the wait's beginning, and
has not passed while the reader reads, since a tick past it waits for the end it causes.
`HeldByCommand`: a reader that is held has its command, whose write began before the idle deadline
and so is over one command timeout after it at the latest. `Expiring`: a scanner that met the
deadline hands out one line more at most, and ends the connection at once unless that line is an
answer which holds the reader. With `Resolved` (the state is `Resolve` of settings that are not
negative) they give `IdleNeverLate`, `NoEndIsEarly`, `CommandsNeverLate` for all settings and any
length of time. `IdleNeverLate` states the bound the code has: the idle timeout, and one command timeout
on top of it only for an answer that came before its command was written.

**`config set`** (`ConfigSet_proofs`). `CSInv` adds to the four properties what is on the way (the
selected fields and no other, all valid, of a tool that waits for its reply or gave up) and what
each line of the tool knows of the device. **The tool** (`CommandLine_proofs`): types, how far the
tool is, and `StatusIsTrue`.

### What is only model-checked

All liveness, which is out of reach of the prover: `PublishReturns`, `StreamCloses`, `VelocityFlows`,
`ResponsesGetThrough`, `CallsReturn`, `CloseReturns`, `EndStopsEverything`, `ReaderGetsBack`,
`EndStopsTool`, `RequestStopsTool`, `CommandsEnd`. The refinements are proved, but they are refinements
of the abstract specifications' safety; neither of these states fairness.

## 5. What is not modelled, and why

* Values of reports, texts of errors, output formatting: data that no control depends on. A
  conversion of a report's member appears as accepting or refusing in `Wire`, with its arithmetic
  in `Numbers`; the shape check of `matrix3` and the decoding of results (`decodeDeviceInfo`, `decodeConfig`)
  appear as what they refuse.
* How flags and addresses are parsed (`parse`, `normaliseAddress`): sequential string handling, for
  which unit tests are the right tool. `CommandLine` has them as parsing or not.
* The instant at which bytes reach the socket: a write either completes or fails in `Conn`, and comes in
  pieces in `Deadlines`.
* A `nil` context and a payload that cannot be marshalled return before anything happens.
* The branch for a decoded message without a payload (`conn.go:541-551`): every branch of `decodeMessage` gives one payload.
* Release and CI configuration: not part of the program.

## 6. Findings

1. **A response with a mistyped `format` is published and its command times out** (`conn_format`).
   `conn.go:227-229` promises that an undecodable response fails its command's own call and never
   reaches `UnhandledFrames`, and `wire.go:119-120` that responses are decoded whatever their
   format claims to be. `wire.go:111-114` decodes `type` and `format` together; a `format` that is not a string
   makes the frame unhandled with an empty type, which `reportUnhandled` does not take for a response.
2. **`watch` interrupted while dialling exits 1** (`watch_interrupt`). `cmd/waterlinked-dvl/doc.go:44`
   says that interrupting `watch` with Ctrl-C exits 0; `commands.go:169-172` returns the error of the
   interrupted dial.

Three smaller observations, with no run of their own:

* `milliseconds` refuses a value whose product is exactly the least int64, which fits
  (`wire.go:504`; the comment at `wire.go:495-497` says that only what does not fit is refused).
  `ConversionsAreFaithful` leaves room for it.
* A `null` among the nine numbers of a covariance becomes a zero in the report: `[][]float64`
  (`wire.go:57`) cannot tell them apart, and `matrix3` (`wire.go:510-521`) only counts. It is the one
  fault that `TypedReportsAreSound` lets through.
* A blank line counts as heard: the loop goes round and arms the idle deadline again
  (`conn.go:516-518`), though it is not a frame in the sense of `conn.go:107`. `Deadlines` models
  lines, as the code does.

## 7. Plan

Done: report streams alone and behind their reader, with refinement and proofs; decoding and
conversions, with proofs for any frame and any format of numbers; the connection, with proofs of its
safety, of its answers, and of its refinement of the command service; the dialer's settings and deadlines, with proofs; `config set` and the whole tool,
with proofs.

Left:

1. The safety cores of the remaining liveness properties, as `ReaderIsNeverStranded` is that of
   `ReaderGetsBack`: which step of which goroutine is possible whenever a call, `Close` or a `publish`
   has not returned, and what measure it lowers.
2. The behaviour of the tool around `watch`: that each sample printed is a report the stream
   delivered, from the streams' theorems.
3. Two commands of different names in flight at the device, should the protocol ever carry request
   ids: `CommandService` and `Correlation` are then the first to change.
