-------------------------------- MODULE Conn --------------------------------
(***************************************************************************)
(* One connection to a device, from a successful Dial to the return of     *)
(* Close (conn.go): callers of the API, the command worker runCommands,    *)
(* the reader readMessages, the goroutines that call Close, and the device *)
(* at the other end of the socket.                                         *)
(*                                                                         *)
(* Each goroutine has a program counter; a step is what it does between    *)
(* two points where another goroutine can see or disturb it.  A caller     *)
(* issues one command, so a caller also names its request, the request's   *)
(* pendingCommand and its channels.  The report streams appear as what     *)
(* ReportStream is proved to be (DropOldest): a queue that accepts any     *)
(* report while it is open; delivery is studied there.                     *)
(*                                                                         *)
(* Two selects that both wait on done never meet each other after it is    *)
(* closed: closing a channel resolves, under its lock, every select parked *)
(* on it, and a select that comes later finds done ready and its partner   *)
(* gone.  So a request is handed over and a report accepted only while     *)
(* `cause` is None.                                                        *)
(***************************************************************************)
EXTENDS Wire

CONSTANTS
  Callers,       \* goroutines that each issue one command
  Closers,       \* goroutines that each call Close
  NameOf,        \* the command each caller issues
  IdleTimeout,   \* whether Dialer.IdleTimeout is set
  Replies,       \* how the device may answer: [success, faults]
  Noise,         \* frames the device may send that answer no request
  MaxNoise,      \* bound: how many of them
  MaxInFlight,   \* bound: how many frames are on the way at a time
  None           \* no error, no value, no frame

\* Terminal causes.  "readClosed" and "writeClosed" are the errors of I/O on a
\* socket this side has closed, the others what the code gives terminate:
\* net.ErrClosed from Close, io.EOF, the idle deadline, a read or write error
\* of the network, a command's deadline, and a correlation failure.
OwnSocketErrors == {"readClosed", "writeClosed"}
Causes == {"closed", "eof", "idle", "read", "write", "deadline", "correlation"}
            \cup OwnSocketErrors

\* Commands whose response has a result that is decoded for the caller.
Validated == {"get_version_info", "get_config"}
CommandNames == Validated \cup
  {"set_config", "reset_dead_reckoning", "calibrate_gyro"}

VARIABLES
  cause,       \* context.Cause(s.ctx): None until done is closed
  socket,      \* "open", or "closed" by terminate
  peer,        \* the device's end: "open", "eof" or "reset"
  inbound,     \* frames on the way from the device
  requests,    \* callers whose request reached the device unanswered
  noise,       \* how many frames of Noise were sent
  pending,     \* s.pending: the caller whose command awaits a response
  outcome,     \* each pendingCommand's outcome channel, of one place
  processed,   \* whether each pendingCommand's processed channel is closed
  complete,    \* each request's complete channel, of one place
  caller,      \* where each caller is: before, in or after its call
  ctx,         \* the context of its call: "live" or "done"
  result,      \* what its call returned
  worker,      \* [pc, request, got, err] of runCommands
  reader,      \* [pc, frame, answers, target, err] of readMessages
  streams,     \* "open", or "closed" once all three brokers exited
  closer       \* where each call of Close is

ending  == <<cause, socket>>
device  == <<peer, inbound, requests, noise>>
slots   == <<pending, outcome, processed, complete>>
calls   == <<caller, ctx, result>>
vars == <<ending, device, slots, calls, worker, reader, streams, closer>>

Done == cause # None

\* cancel(err): only the first call sets the cause.
Cancel(err) == cause' = IF Done THEN cause ELSE err
-----------------------------------------------------------------------------
(* Results.  "accepted", "rejected" and "invalid" come of a response: its  *)
(* success flag, and a result its caller cannot decode.  `answers` is the  *)
(* request the device was answering, which the protocol does not carry and *)
(* only the properties look at.                                            *)

Failure(kind, err) == [kind |-> kind, to |-> None, answers |-> None, err |-> err]
Success(kind, got) ==
  [kind |-> kind, to |-> got.to, answers |-> got.answers, err |-> None]
\* Mutant: a call the end interrupts gets its own error, not the cause.
EndedByItself == Failure("ended", worker.err)
Ended == Failure("ended", cause)
Cancelled == Failure("cancelled", None)

\* An outcome the reader hands to the worker: a decoded response, or the
\* decoding error of one that has none.
Decoded(message, answers) ==
  [failed |-> FALSE, success |-> message.success, usable |-> message.usable,
   to |-> message.responseTo, answers |-> answers]
Failed ==
  [failed |-> TRUE, success |-> FALSE, usable |-> FALSE, to |-> None, answers |-> None]

\* What finishCommand and then command make of an outcome.
ResultOf(c, got) ==
  IF got.failed THEN Failure("undecodable", None)
  ELSE IF ~got.success THEN Success("rejected", got)
  ELSE IF NameOf[c] \in Validated /\ ~got.usable THEN Failure("invalid", None)
  ELSE Success("accepted", got)

MinorVersion == <<"json_v3", ".", "digit">>
ResponseFrame(name, success, faults) ==
  [json |-> "object", type |-> "response", format |-> MinorVersion,
   faults |-> faults, responseTo |-> name, success |-> success, valid |-> FALSE]
-----------------------------------------------------------------------------
WorkerAtRest(pc) == [pc |-> pc, request |-> None, got |-> None, err |-> None]
ReaderAtRest(pc) ==
  [pc |-> pc, frame |-> None, answers |-> None, target |-> None, err |-> None]

Init ==
  /\ cause = None /\ socket = "open"
  /\ peer = "open" /\ inbound = <<>> /\ requests = {} /\ noise = 0
  /\ pending = None
  /\ outcome = [c \in Callers |-> None]
  /\ processed = [c \in Callers |-> FALSE]
  /\ complete = [c \in Callers |-> None]
  /\ caller = [c \in Callers |-> "idle"]
  /\ ctx = [c \in Callers |-> "live"]
  /\ result = [c \in Callers |-> None]
  /\ worker = WorkerAtRest("select")
  /\ reader = ReaderAtRest("scan")
  /\ streams = "open"
  /\ closer = [k \in Closers |-> "idle"]
-----------------------------------------------------------------------------
(* Callers: Conn.command, between its caller and the worker.               *)

Returns(c, res) ==
  /\ caller' = [caller EXCEPT ![c] = "returned"]
  /\ result' = [result EXCEPT ![c] = res]
  /\ UNCHANGED ctx

\* Info, Config, UpdateConfig, ResetDeadReckoning or CalibrateGyro is called;
\* the request is built and offered to the worker.
Call(c) ==
  /\ caller[c] = "idle"
  /\ caller' = [caller EXCEPT ![c] = "offer"]
  /\ UNCHANGED <<ctx, result, worker, complete>>

\* The context given to the call is cancelled or times out while the call
\* runs; one that was done before is done as soon as the request is offered.
EndContext(c) ==
  /\ caller[c] \in {"offer", "await"}
  /\ ctx[c] = "live"
  /\ ctx' = [ctx EXCEPT ![c] = "done"]
  /\ UNCHANGED <<caller, result, worker, complete>>

\* The first select: s.commands <- request meets the worker's receive.
HandOver(c) ==
  /\ caller[c] = "offer"
  /\ worker.pc = "select"
  /\ ~Done
  /\ caller' = [caller EXCEPT ![c] = "await"]
  /\ worker' = [worker EXCEPT !.pc = "received", !.request = c]
  /\ UNCHANGED <<ctx, result, complete>>

\* The other cases of the first select.
Withdraw(c) ==
  /\ caller[c] = "offer"
  /\ \/ ctx[c] = "done" /\ Returns(c, Cancelled)
     \/ Done /\ Returns(c, Ended)
  /\ UNCHANGED <<worker, complete>>

\* The second select: the worker's answer, or the end of the context.
Receive(c) ==
  /\ caller[c] = "await"
  /\ complete[c] # None
  /\ Returns(c, complete[c])
  /\ complete' = [complete EXCEPT ![c] = None]
  /\ UNCHANGED worker

Abandon(c) ==
  /\ caller[c] = "await"
  /\ ctx[c] = "done"
  /\ Returns(c, Cancelled)
  /\ UNCHANGED <<worker, complete>>

CallerFrame ==
  UNCHANGED <<ending, device, pending, outcome, processed, reader, streams, closer>>
CallerStep(c) ==
  /\ HandOver(c) \/ Withdraw(c) \/ Receive(c) \/ Abandon(c)
  /\ CallerFrame
CallerMay(c) == (Call(c) \/ EndContext(c)) /\ CallerFrame
-----------------------------------------------------------------------------
(* The command worker: runCommands, runCommand, writeCommand and           *)
(* finishCommand.                                                          *)

Current == worker.request
WorkerAt(pc) == worker.pc = pc
WorkerGoes(pc) == worker' = [worker EXCEPT !.pc = pc]
WorkerGivesUp(err) == worker' = [worker EXCEPT !.pc = "clear", !.err = err]
WorkerRests(pc) == worker' = WorkerAtRest(pc)
\* Mutant: nothing is answered any more once the connection ended.
AnswerWhileLive(res) == IF Done THEN UNCHANGED complete
                        ELSE complete' = [complete EXCEPT ![Current] = res]
Answer(res) == complete' = [complete EXCEPT ![Current] = res]
\* Mutant: the slot stays occupied.
ClearNothing == UNCHANGED pending
ClearPending == pending' = IF pending = Current THEN None ELSE pending

WorkerExit ==
  /\ WorkerAt("select") /\ Done
  /\ WorkerRests("exited")
  /\ UNCHANGED <<ending, requests, slots>>

\* The worker took the request as the connection ended: it must answer it.
RefuseEnded ==
  /\ WorkerAt("received") /\ Done
  /\ Answer(Ended) /\ WorkerRests("exited")
  /\ UNCHANGED <<ending, requests, pending, outcome, processed>>

\* Its caller gave up meanwhile: nothing is sent to the device.
RefuseCancelled ==
  /\ WorkerAt("received") /\ ~Done /\ ctx[Current] = "done"
  /\ Answer(Cancelled) /\ WorkerRests("select")
  /\ UNCHANGED <<ending, requests, pending, outcome, processed>>

\* The pending slot is installed before a byte is written, so that no response
\* can come too early for it.
\* Mutant: it is not yet there when the write begins.
InstallLate ==
  /\ WorkerAt("received") /\ ~Done /\ ctx[Current] = "live"
  /\ WorkerGoes("write")
  /\ UNCHANGED <<ending, requests, slots>>
Install ==
  /\ WorkerAt("received") /\ ~Done /\ ctx[Current] = "live"
  /\ pending' = Current
  /\ WorkerGoes("write")
  /\ UNCHANGED <<ending, requests, outcome, processed, complete>>

\* All of the payload is written; a device that is still there has it.
Transmit ==
  /\ WorkerAt("write") /\ socket = "open"
  /\ requests' = IF peer = "open" THEN requests \cup {Current} ELSE requests
  /\ WorkerGoes("written")
  /\ UNCHANGED <<ending, slots>>

\* A write fails because this side closed the socket, or because of the
\* network or the write deadline, which may be at any time.
FailWrite ==
  /\ WorkerAt("write")
  /\ WorkerGivesUp(IF socket = "closed" THEN "writeClosed" ELSE "write")
  /\ UNCHANGED <<ending, requests, slots>>

\* writeCommand's deferred call takes the write deadline away again, which
\* fails only on a closed socket.
ResetDeadline ==
  /\ WorkerAt("written")
  /\ IF socket = "open" THEN WorkerGoes("wait") ELSE WorkerGivesUp("writeClosed")
  /\ UNCHANGED <<ending, requests, slots>>

\* An outcome wins over the timer and over done: each of those looks for one
\* before it acts.  finishCommand retires the slot first.
TakeOutcome ==
  /\ WorkerAt("wait") /\ outcome[Current] # None
  /\ worker' = [worker EXCEPT !.pc = "finish", !.got = outcome[Current]]
  /\ outcome' = [outcome EXCEPT ![Current] = None]
  /\ ClearPending
  /\ UNCHANGED <<ending, requests, processed, complete>>

Finish ==
  /\ WorkerAt("finish")
  /\ Answer(ResultOf(Current, worker.got)) /\ WorkerGoes("retire")
  /\ UNCHANGED <<ending, requests, pending, outcome, processed>>

\* finishCommand's deferred close(pending.processed), which frees the reader.
\* Mutant: it is not closed on some path.
RetireSilently ==
  /\ WorkerAt("retire")
  /\ WorkerRests("select")
  /\ UNCHANGED <<ending, requests, slots>>
Retire ==
  /\ WorkerAt("retire")
  /\ processed' = [processed EXCEPT ![Current] = TRUE]
  /\ WorkerRests("select")
  /\ UNCHANGED <<ending, requests, pending, outcome, complete>>

\* The connection ended while the command waited.
\* Mutant: the worker also gives its command up when its caller does, and takes
\* the next one.
StopWaitingForCaller ==
  /\ WorkerAt("wait") /\ outcome[Current] = None
  /\ \/ ctx[Current] = "done" /\ Answer(Cancelled)
     \/ Done /\ Answer(Ended)
  /\ ClearPending /\ WorkerRests("select")
  /\ UNCHANGED <<ending, requests, outcome, processed>>
StopWaiting ==
  /\ WorkerAt("wait") /\ outcome[Current] = None /\ Done
  /\ Answer(Ended)
  /\ ClearPending /\ WorkerRests("select")
  /\ UNCHANGED <<ending, requests, outcome, processed>>

\* Mutant: the command is tried again.
TimeOutAndRetry ==
  /\ WorkerAt("wait") /\ outcome[Current] = None
  /\ WorkerGoes("write")
  /\ UNCHANGED <<ending, requests, slots>>
\* The command's timer fires without an outcome: later responses could no
\* longer be correlated, so this ends the connection.
TimeOut ==
  /\ WorkerAt("wait") /\ outcome[Current] = None
  /\ WorkerGivesUp("deadline")
  /\ UNCHANGED <<ending, requests, slots>>

\* A failed write and a timeout end alike: clearPending, terminate (cancel,
\* then close the socket), and the terminal cause as the answer.
WorkerClears ==
  /\ WorkerAt("clear")
  /\ ClearPending
  /\ WorkerGoes("cancel")
  /\ UNCHANGED <<ending, requests, outcome, processed, complete>>

WorkerCancels ==
  /\ WorkerAt("cancel")
  /\ Cancel(worker.err)
  /\ WorkerGoes("close")
  /\ UNCHANGED <<socket, requests, slots>>

WorkerCloses ==
  /\ WorkerAt("close")
  /\ socket' = "closed"
  /\ Answer(Ended) /\ WorkerRests("select")
  /\ UNCHANGED <<cause, requests, pending, outcome, processed>>

WorkerStep ==
  /\ \/ WorkerExit \/ RefuseEnded \/ RefuseCancelled \/ Install
     \/ Transmit \/ FailWrite \/ ResetDeadline
     \/ TakeOutcome \/ Finish \/ Retire \/ StopWaiting \/ TimeOut
     \/ WorkerClears \/ WorkerCancels \/ WorkerCloses
  /\ UNCHANGED <<peer, inbound, noise, calls, reader, streams, closer>>
-----------------------------------------------------------------------------
(* The reader: readMessages, reportUnhandled, failPendingCommand and       *)
(* deliverResponse.                                                        *)

ReaderAt(pc) == reader.pc = pc
ReaderGoes(pc) == reader' = [reader EXCEPT !.pc = pc]
ReaderFails(err) == reader' = [reader EXCEPT !.pc = "cancel", !.err = err]
Message == decodeMessage(reader.frame)

\* The frame is a response, or one that could not be decoded but says it is.
SaysResponse(message) ==
  \/ message.payload = "response"
  \/ message.payload = "unhandled" /\ message.type = "response"

\* The head of the loop: armIdleDeadline touches the socket only if there is
\* an idle timeout, and fails if this side closed it; then the reader scans.
NextFrame ==
  reader' = IF IdleTimeout /\ socket = "closed"
            THEN [ReaderAtRest("cancel") EXCEPT !.err = "readClosed"]
            ELSE ReaderAtRest("scan")

\* Scan returns a line.  It may still do so after the socket was closed, if
\* the line was buffered.  A blank line is skipped; one that is too long is an
\* error of the scanner.
Scan ==
  /\ ReaderAt("scan")
  /\ inbound # <<>>
  /\ inbound' = Tail(inbound)
  /\ LET line == Head(inbound)
     IN  \/ line.frame.json = "blank" /\ NextFrame
         \/ line.frame.json = "overlong" /\ ReaderFails("read")
         \/ /\ line.frame.json \notin {"blank", "overlong"}
            /\ reader' = [reader EXCEPT !.pc = "route", !.frame = line.frame,
                                        !.answers = line.answers]
  /\ UNCHANGED <<ending, outcome>>

\* Scan returns false: the idle deadline passed, the network failed, the device
\* closed its end, or this side closed the socket.
ScanFails ==
  /\ ReaderAt("scan")
  /\ \/ socket = "closed" /\ ReaderFails("readClosed")
     \/ socket = "open" /\ IdleTimeout /\ ReaderFails("idle")
     \/ socket = "open" /\ peer = "reset" /\ ReaderFails("read")
     \/ socket = "open" /\ peer = "eof" /\ inbound = <<>> /\ ReaderFails("eof")
  /\ UNCHANGED <<ending, inbound, outcome>>

\* A decoded response names another command than the pending one.
\* Mutant: it is not looked at.
MismatchIgnored == FALSE
Mismatch ==
  Message.payload = "response" /\ Message.responseTo # NameOf[pending]

\* Decode the frame and, for one that says it is a response, look the pending
\* command up under its lock.  The lock is released before the outcome is
\* handed over.  For other frames `target` is what the slot held, for the
\* properties only.
Route ==
  /\ ReaderAt("route")
  /\ IF ~(SaysResponse(Message) /\ pending # None)
     THEN reader' = [reader EXCEPT !.pc = "publish", !.target = pending]
     ELSE IF Mismatch THEN ReaderFails("correlation")
     ELSE reader' = [reader EXCEPT !.pc = "fill", !.target = pending]
  /\ UNCHANGED <<ending, inbound, outcome>>

\* outcome <- commandResult, which blocks while the channel is full.
Fill ==
  /\ ReaderAt("fill")
  /\ outcome[reader.target] = None
  /\ outcome' = [outcome EXCEPT ![reader.target] =
                   IF Message.payload = "response"
                   THEN Decoded(Message, reader.answers) ELSE Failed]
  /\ ReaderGoes("processed")
  /\ UNCHANGED <<ending, inbound>>

\* The command retired its slot: the next frame may be read.
\* Mutants: the reader goes on without waiting for that; failPendingCommand
\* reports false although the frame was the command's.
AwaitNothing ==
  /\ ReaderAt("processed")
  /\ NextFrame
  /\ UNCHANGED <<ending, inbound, outcome>>
AwaitRetiredAndPublish ==
  /\ ReaderAt("processed") /\ processed[reader.target]
  /\ IF Message.payload = "response" THEN NextFrame ELSE ReaderGoes("publish")
  /\ UNCHANGED <<ending, inbound, outcome>>
AwaitRetired ==
  /\ ReaderAt("processed") /\ processed[reader.target]
  /\ NextFrame
  /\ UNCHANGED <<ending, inbound, outcome>>

\* The connection ended first.  deliverResponse stops the reader;
\* failPendingCommand reports false, so reportUnhandled turns to its stream.
\* Mutant: the select has no done case.
AwaitEndedNever ==
  /\ ReaderAt("processed") /\ processed[reader.target] /\ Done
  /\ reader' = ReaderAtRest("exited")
  /\ UNCHANGED <<ending, inbound, outcome>>
AwaitEnded ==
  /\ ReaderAt("processed") /\ Done
  /\ IF Message.payload = "response" THEN reader' = ReaderAtRest("exited")
                                     ELSE ReaderGoes("publish")
  /\ UNCHANGED <<ending, inbound, outcome>>

\* publish: the stream's broker takes the report, or done is closed.
Publish ==
  /\ ReaderAt("publish") /\ ~Done
  /\ streams = "open"
  /\ NextFrame
  /\ UNCHANGED <<ending, inbound, outcome>>

PublishEnded ==
  /\ ReaderAt("publish") /\ Done
  /\ reader' = ReaderAtRest("exited")
  /\ UNCHANGED <<ending, inbound, outcome>>

\* terminate, then return.
ReaderCancels ==
  /\ ReaderAt("cancel")
  /\ Cancel(reader.err)
  /\ ReaderGoes("close")
  /\ UNCHANGED <<socket, inbound, outcome>>

ReaderCloses ==
  /\ ReaderAt("close")
  /\ socket' = "closed"
  /\ reader' = ReaderAtRest("exited")
  /\ UNCHANGED <<cause, inbound, outcome>>

ReaderStep ==
  /\ \/ Scan \/ ScanFails \/ Route \/ Fill \/ AwaitRetired \/ AwaitEnded
     \/ Publish \/ PublishEnded \/ ReaderCancels \/ ReaderCloses
  /\ UNCHANGED <<peer, requests, noise, pending, processed, complete, calls,
                 worker, streams, closer>>
-----------------------------------------------------------------------------
(* The brokers of the report streams, the calls of Close and the device.   *)

\* The brokers see done and exit on their own; only the exit of the last one
\* makes a difference to anyone here.
StopStreams ==
  /\ streams = "open"
  /\ Done
  /\ streams' = "closed"
  /\ UNCHANGED <<ending, device, slots, calls, worker, reader, closer>>

\* Close: terminate(net.ErrClosed), cancel first.
\* Mutant: the socket is closed before the cause is set.
SocketFirst(k) ==
  /\ closer[k] = "idle"
  /\ socket' = "closed"
  /\ closer' = [closer EXCEPT ![k] = "close"]
  /\ UNCHANGED cause
CloserCancels(k) ==
  /\ closer[k] = "idle"
  /\ Cancel("closed")
  /\ closer' = [closer EXCEPT ![k] = "close"]
  /\ UNCHANGED socket

\* Mutant: terminate leaves the socket open.
CloserForgets(k) ==
  /\ closer[k] = "close"
  /\ closer' = [closer EXCEPT ![k] = "workers"]
  /\ UNCHANGED ending
CloserCloses(k) ==
  /\ closer[k] = "close"
  /\ socket' = "closed"
  /\ closer' = [closer EXCEPT ![k] = "workers"]
  /\ UNCHANGED cause

\* s.workers.Wait(): the five goroutines Dial started are gone.
\* Mutant: Close does not wait for the command worker.
CloserReturnsEarly(k) ==
  /\ closer[k] = "workers"
  /\ reader.pc = "exited" /\ streams = "closed"
  /\ closer' = [closer EXCEPT ![k] = "returned"]
  /\ UNCHANGED ending
CloserReturns(k) ==
  /\ closer[k] = "workers"
  /\ worker.pc = "exited" /\ reader.pc = "exited" /\ streams = "closed"
  /\ closer' = [closer EXCEPT ![k] = "returned"]
  /\ UNCHANGED ending

CloserFrame == UNCHANGED <<device, slots, calls, worker, reader, streams>>
CloserStep(k) == (CloserCloses(k) \/ CloserReturns(k)) /\ CloserFrame
CloserMay(k) == CloserCancels(k) /\ CloserFrame

\* What the device sends while both ends are open.
Send(frame, answers) ==
  /\ peer = "open" /\ socket = "open"
  /\ Len(inbound) < MaxInFlight
  /\ inbound' = Append(inbound, [frame |-> frame, answers |-> answers])

\* The device answers a request once, in one of the ways of Replies.
Respond(c) ==
  /\ c \in requests
  /\ \E reply \in Replies :
       Send(ResponseFrame(NameOf[c], reply.success, reply.faults), c)
  /\ requests' = requests \ {c}
  /\ UNCHANGED <<peer, noise>>

\* The device sends a report, a response nobody asked for, or something else.
Emit ==
  /\ noise < MaxNoise
  /\ \E frame \in Noise : Send(frame, None)
  /\ noise' = noise + 1
  /\ UNCHANGED <<peer, requests>>

\* The device closes its end, or the network breaks.
Hangup ==
  /\ peer = "open" /\ socket = "open"
  /\ peer' \in {"eof", "reset"}
  /\ UNCHANGED <<inbound, requests, noise>>

DeviceStep ==
  /\ Emit \/ Hangup \/ \E c \in Callers : Respond(c)
  /\ UNCHANGED <<ending, slots, calls, worker, reader, streams, closer>>
-----------------------------------------------------------------------------
Next ==
  \/ \E c \in Callers : CallerStep(c) \/ CallerMay(c)
  \/ WorkerStep \/ ReaderStep \/ StopStreams
  \/ \E k \in Closers : CloserStep(k) \/ CloserMay(k)
  \/ DeviceStep

Spec == Init /\ [][Next]_vars

\* The Go runtime runs every goroutine that can run, and the timers and
\* deadlines the code sets fire.  Nothing is assumed of the device, of
\* contexts, of consumers, or of whether anyone calls at all.
Fairness ==
  /\ WF_vars(WorkerStep) /\ WF_vars(ReaderStep) /\ WF_vars(StopStreams)
  /\ \A c \in Callers : WF_vars(CallerStep(c))
  /\ \A k \in Closers : WF_vars(CloserStep(k))

FairSpec == Spec /\ Fairness
=============================================================================
