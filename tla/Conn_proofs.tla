----------------------------- MODULE Conn_proofs -----------------------------
(* Proofs about a connection: its types and the part of what it guarantees *)
(* that holds whatever the device does.                                    *)
EXTENDS ConnProperties, TLAPS

-----------------------------------------------------------------------------
(* The inductive invariant.                                                *)

\* A call that was not handed over yet has left no trace.
Fresh ==
  \A c \in Callers : caller[c] \in {"idle", "offer"} =>
    complete[c] = None /\ ~processed[c] /\ Current # c

\* The slot is taken only between its installation and its retirement.
SlotInUse == pending # None => worker.pc \in {"write", "written", "wait", "clear"}

\* A command is not processed while the worker has it in hand.
InHand == Current # None => ~processed[Current]

\* The reader waits for c's command, or has stopped waiting as the connection
\* ended.
WaitsFor(c) ==
  \/ ReaderAt("processed") /\ reader.target = c
  \/ Done /\ reader.pc \in {"publish", "exited"}

\* The reader has at most one outcome on the way, and waits for it to be
\* processed.
OutcomesAwaited == \A c \in Callers : outcome[c] # None => WaitsFor(c)
ProcessedIsTaken == \A c \in Callers : processed[c] => outcome[c] = None
RetiringAwaited ==
  worker.pc \in {"finish", "retire"} => outcome[Current] = None /\ WaitsFor(Current)

\* What the reader carries through its states.
ReaderCarries ==
  /\ reader.pc \in {"route", "fill", "processed", "publish"} => reader.frame \in Frames
  /\ reader.pc \in {"fill", "processed"} => reader.target \in Callers
  /\ ReaderAt("fill") =>
       /\ ~processed[reader.target]
       /\ Message.payload = "response" => Message.responseTo = NameOf[reader.target]

\* Who closed the socket had ended the connection first, and whoever is about
\* to end it has a reason; a reason of this side's own making comes too late.
EndingInOrder ==
  /\ socket = "closed" => Done
  /\ worker.pc = "close" \/ reader.pc = "close" => Done
  /\ worker.pc \in {"clear", "cancel"} => worker.err # None
  /\ ReaderAt("cancel") => reader.err # None
  /\ worker.err \in OwnSocketErrors \/ reader.err \in OwnSocketErrors => Done
  /\ \A k \in Closers :
       /\ closer[k] # "idle" => Done
       /\ closer[k] \in {"workers", "returned"} => socket = "closed"
       /\ closer[k] = "returned" => worker.pc = "exited" /\ streams = "closed"

CommandsOwed ==
  /\ Fresh /\ SlotInUse /\ InHand /\ EveryCallIsOwed
  /\ Owes => complete[Current] = None

Handshake == OutcomesAwaited /\ ProcessedIsTaken /\ RetiringAwaited /\ ReaderCarries

Connection ==
  TypeOK /\ CommandsOwed /\ Handshake /\ EndingInOrder /\ CauseIsGenuine

\* Answers on their way to their callers, and those that arrived.
EndsWithCause(res) == res.kind = "ended" => Done /\ res.err = cause
NamesCommand(c, res) ==
  res.kind \in {"accepted", "rejected"} => res.to = NameOf[c]

Answers ==
  \A c \in Callers :
    /\ complete[c] # None => EndsWithCause(complete[c]) /\ NamesCommand(c, complete[c])
    /\ result[c] # None =>
         EndsWithCause(result[c]) /\ NamesCommand(c, result[c])
    /\ outcome[c] # None /\ ~outcome[c].failed => outcome[c].to = NameOf[c]

AtFinish ==
  WorkerAt("finish") =>
    worker.got # None /\ (~worker.got.failed => worker.got.to = NameOf[Current])

IInv == Connection /\ Answers /\ AtFinish
-----------------------------------------------------------------------------
(* Types.                                                                  *)

LEMMA ResultTypes ==
  ASSUME NEW got \in Outcomes, NEW c \in Callers
  PROVE  ResultOf(c, got) \in Results
BY DEF Outcomes, Results, ResultOf, Failure, Success, CallerOrNone, CauseOrNone

LEMMA EndedTypes ==
  ASSUME TypeOK
  PROVE  Ended \in Results /\ Cancelled \in Results
BY DEF TypeOK, Results, Ended, Cancelled, Failure, CallerOrNone, CauseOrNone

LEMMA CallerTypes ==
  ASSUME TypeOK, Connection, NEW c \in Callers, CallerStep(c) \/ CallerMay(c)
  PROVE  TypeOK'
<1>0. CallerFrame
  BY DEF CallerStep, CallerMay
<1> USE NoneAssumption, <1>0 DEF CallerFrame, ending, device, Current
<1>1. CASE Call(c)
  BY <1>1 DEF TypeOK, Call
<1>2. CASE EndContext(c)
  BY <1>2 DEF TypeOK, EndContext
<1>3. CASE HandOver(c)
  <2>1. worker' \in WorkerStates
    BY <1>3 DEF TypeOK, WorkerStates, HandOver, CallerOrNone
  <2>2. worker'.request = c /\ worker'.pc = "received" /\ pending = None
    BY <1>3 DEF TypeOK, HandOver
  <2>3. c # None
    OBVIOUS
  <2> QED BY <1>3, <2>1, <2>2, <2>3 DEF TypeOK, HandOver
<1>4. CASE Withdraw(c)
  <2>1. Ended \in Results /\ Cancelled \in Results
    BY EndedTypes
  <2> QED BY <1>4, <2>1 DEF TypeOK, Withdraw, Returns
<1>5. CASE Receive(c)
  BY <1>5 DEF TypeOK, Receive, Returns
<1>6. CASE Abandon(c)
  BY <1>6, EndedTypes DEF TypeOK, Abandon, Returns
<1> QED BY <1>1, <1>2, <1>3, <1>4, <1>5, <1>6 DEF CallerStep, CallerMay

LEMMA WorkerTypes ==
  ASSUME Connection, AtFinish, WorkerStep
  PROVE  TypeOK'
<1>0. UNCHANGED <<peer, inbound, noise, calls, reader, streams, closer>>
  BY DEF WorkerStep
<1>1. TypeOK
  BY DEF Connection
<1>2. Ended \in Results /\ Cancelled \in Results
  BY <1>1, EndedTypes
<1>3. worker \in WorkerStates
  BY <1>1 DEF TypeOK
<1>4. Owes \/ WorkerAt("retire") => Current \in Callers
  BY <1>1 DEF TypeOK, WorkerStates, CallerOrNone, Owes, WorkerAt, Current
<1>5. pending # None => worker.pc \in {"write", "written", "wait", "clear"}
  BY DEF Connection, CommandsOwed, SlotInUse
<1> USE NoneAssumption, <1>0, <1>1
    DEF calls, ending, slots, WorkerAt, WorkerGoes, WorkerGivesUp, WorkerRests,
        WorkerAtRest, Current
<1>10. CASE WorkerExit
  BY <1>10, <1>5 DEF TypeOK, WorkerExit, WorkerStates, CallerOrNone, CauseOrNone
<1>11. CASE RefuseEnded
  BY <1>11, <1>2, <1>4, <1>5 DEF TypeOK, RefuseEnded, Answer, Owes, WorkerStates, CallerOrNone, CauseOrNone
<1>12. CASE RefuseCancelled
  BY <1>12, <1>2, <1>4, <1>5 DEF TypeOK, RefuseCancelled, Answer, Owes, WorkerStates, CallerOrNone, CauseOrNone
<1>13. CASE Install
  BY <1>13 DEF TypeOK, Install, WorkerStates
<1>14. CASE Transmit
  BY <1>14, <1>4 DEF TypeOK, Transmit, WorkerStates, Owes
<1>15. CASE FailWrite
  BY <1>15 DEF TypeOK, FailWrite, WorkerStates, CauseOrNone, Causes, OwnSocketErrors
<1>16. CASE ResetDeadline
  <2>1. CASE socket = "open"
    BY <1>16, <2>1 DEF TypeOK, ResetDeadline, WorkerStates
  <2>2. CASE socket # "open"
    <3>1. worker' = [worker EXCEPT !.pc = "clear", !.err = "writeClosed"]
      BY <1>16, <2>2 DEF ResetDeadline
    <3>2. "writeClosed" \in CauseOrNone
      BY DEF CauseOrNone, Causes, OwnSocketErrors
    <3>3. worker' \in WorkerStates /\ worker'.request = worker.request
          /\ worker'.pc = "clear"
      BY <1>3, <3>1, <3>2 DEF WorkerStates
    <3> QED BY <1>16, <3>3 DEF TypeOK, ResetDeadline
  <2> QED BY <2>1, <2>2
<1>17. CASE TakeOutcome
  BY <1>17, <1>4 DEF TypeOK, TakeOutcome, ClearPending, WorkerStates, Owes
<1>18. CASE Finish
  <2>1. ResultOf(Current, worker.got) \in Results
    BY <1>18, <1>3, <1>4, ResultTypes DEF Finish, AtFinish, WorkerStates, Owes
  <2> QED BY <1>18, <2>1, <1>4 DEF TypeOK, Finish, Answer, WorkerStates, Owes
<1>19. CASE Retire
  BY <1>19, <1>4, <1>5 DEF TypeOK, Retire, WorkerStates, CallerOrNone, CauseOrNone
<1>20. CASE StopWaiting
  BY <1>20, <1>2, <1>4 DEF TypeOK, StopWaiting, Answer, ClearPending, Owes, WorkerStates, CallerOrNone, CauseOrNone
<1>21. CASE TimeOut
  BY <1>21 DEF TypeOK, TimeOut, WorkerStates, CauseOrNone, Causes
<1>22. CASE WorkerClears
  BY <1>22 DEF TypeOK, WorkerClears, ClearPending, WorkerStates
<1>23. CASE WorkerCancels
  BY <1>23 DEF TypeOK, WorkerCancels, Cancel, Done, WorkerStates
<1>24. CASE WorkerCloses
  BY <1>24, <1>2, <1>4, <1>5 DEF TypeOK, WorkerCloses, Answer, Owes, WorkerStates, CallerOrNone, CauseOrNone
<1> QED
  BY <1>10, <1>11, <1>12, <1>13, <1>14, <1>15, <1>16, <1>17, <1>18, <1>19, <1>20,
     <1>21, <1>22, <1>23, <1>24 DEF WorkerStep

\* What decodeMessage makes of a frame of this connection.
LEMMA MessageTypes ==
  ASSUME NEW frame \in Frames
  PROVE  decodeMessage(frame).payload = "response" =>
           /\ decodeMessage(frame).success \in BOOLEAN
           /\ decodeMessage(frame).usable \in BOOLEAN
           /\ decodeMessage(frame).responseTo = frame.responseTo
<1>1. frame.success \in BOOLEAN
  BY FramesAssumption DEF Frames, ResponseFrame
<1>2. decodeMessage(frame).payload = "response" => decodeMessage(frame) = Response(frame)
  BY DEF decodeMessage, UnhandledFrame, Response, VelocityReport, DeadReckoningReport
<1>3. Sound(frame, "result") \in BOOLEAN
  BY DEF Sound
<1> QED BY <1>1, <1>2, <1>3 DEF Response

LEMMA NextFrameTypes ==
  ASSUME NextFrame
  PROVE  reader' \in ReaderStates
BY DEF NextFrame, ReaderAtRest, ReaderStates, CallerOrNone, CauseOrNone, Causes, OwnSocketErrors

LEMMA ReaderTypes ==
  ASSUME Connection, ReaderStep
  PROVE  TypeOK'
<1>0. UNCHANGED <<peer, requests, noise, pending, processed, complete, calls,
                 worker, streams, closer>>
  BY DEF ReaderStep
<1>1. TypeOK
  BY DEF Connection
<1>2. ReaderCarries
  BY DEF Connection, Handshake
<1>3. reader' \in ReaderStates /\ inbound' \in Seq([frame : Frames, answers : CallerOrNone])
      /\ outcome' \in [Callers -> Outcomes \cup {None}]
      /\ cause' \in CauseOrNone /\ socket' \in {"open", "closed"}
  <2> USE <1>1 DEF ending, ReaderAt, ReaderGoes, ReaderFails, ReaderAtRest
  <2>1. CASE Scan
    <3>1. Head(inbound) \in [frame : Frames, answers : CallerOrNone]
          /\ Tail(inbound) \in Seq([frame : Frames, answers : CallerOrNone])
      <4> DEFINE Lines == [frame : Frames, answers : CallerOrNone]
      <4>1. inbound \in Seq(Lines) /\ inbound # <<>>
        BY <2>1 DEF TypeOK, Scan
      <4> HIDE DEF Lines
      <4>2. Head(inbound) \in Lines /\ Tail(inbound) \in Seq(Lines)
        BY <4>1
      <4> QED BY <4>2 DEF Lines
    <3>2. reader' \in ReaderStates
      <4>1. CASE NextFrame
        BY <4>1, NextFrameTypes
      <4>2. CASE ReaderFails("read")
        BY <4>2 DEF TypeOK, ReaderStates, CauseOrNone, Causes
      <4>3. CASE reader' = [reader EXCEPT !.pc = "route", !.frame = Head(inbound).frame,
                                          !.answers = Head(inbound).answers]
        BY <4>3, <3>1 DEF TypeOK, ReaderStates
      <4> QED BY <2>1, <4>1, <4>2, <4>3 DEF Scan
    <3> QED BY <2>1, <3>1, <3>2 DEF TypeOK, Scan
  <2>2. CASE ScanFails
    BY <2>2 DEF TypeOK, ScanFails, ReaderStates, CauseOrNone, Causes, OwnSocketErrors
  <2>3. CASE Route
    <3>1. pending \in CallerOrNone
      BY DEF TypeOK, WorkerStates, CallerOrNone, Current
    <3>2. CASE reader' = [reader EXCEPT !.pc = "publish", !.target = pending]
      BY <3>1, <3>2, <2>3 DEF TypeOK, Route, ReaderStates
    <3>3. CASE reader' = [reader EXCEPT !.pc = "fill", !.target = pending]
      BY <3>1, <3>3, <2>3 DEF TypeOK, Route, ReaderStates
    <3>4. CASE ReaderFails("correlation")
      BY <3>4, <2>3 DEF TypeOK, Route, ReaderStates, CauseOrNone, Causes
    <3> QED BY <2>3, <3>2, <3>3, <3>4 DEF Route
  <2>4. CASE Fill
    <3>1. Failed \in Outcomes
      BY DEF Failed, Outcomes, CallerOrNone
    <3>2. Message.payload = "response" => Decoded(Message, reader.answers) \in Outcomes
      BY <1>2, <2>4, MessageTypes, NamesAssumption
      DEF TypeOK, Fill, Message, ReaderCarries, ReaderStates, Decoded, Outcomes
    <3> QED BY <1>2, <2>4, <3>1, <3>2 DEF TypeOK, Fill, ReaderStates, ReaderCarries
  <2>5. CASE AwaitRetired
    BY <2>5, NextFrameTypes DEF TypeOK, AwaitRetired
  <2>6. CASE AwaitEnded
    <3>1. CASE reader' = ReaderAtRest("exited")
      BY <2>6, <3>1 DEF TypeOK, AwaitEnded, ReaderStates, CallerOrNone, CauseOrNone
    <3>2. CASE ReaderGoes("publish")
      BY <2>6, <3>2 DEF TypeOK, AwaitEnded, ReaderStates
    <3> QED BY <2>6, <3>1, <3>2 DEF AwaitEnded
  <2>7. CASE Publish
    BY <2>7, NextFrameTypes DEF TypeOK, Publish
  <2>8. CASE PublishEnded
    BY <2>8 DEF TypeOK, PublishEnded, ReaderStates, CallerOrNone, CauseOrNone
  <2>9. CASE ReaderCancels
    BY <2>9 DEF TypeOK, ReaderCancels, Cancel, Done, ReaderStates
  <2>10. CASE ReaderCloses
    BY <2>10 DEF TypeOK, ReaderCloses, ReaderStates, CallerOrNone, CauseOrNone
  <2> QED BY <2>1, <2>2, <2>3, <2>4, <2>5, <2>6, <2>7, <2>8, <2>9, <2>10 DEF ReaderStep
<1> QED BY <1>0, <1>1, <1>3 DEF TypeOK, calls, Current

LEMMA OtherTypes ==
  ASSUME Connection,
         StopStreams \/ DeviceStep \/ UNCHANGED vars
           \/ \E k \in Closers : CloserStep(k) \/ CloserMay(k)
  PROVE  TypeOK'
<1>1. TypeOK
  BY DEF Connection
<1> USE <1>1 DEF ending, device, slots, calls, Current
<1>2. CASE StopStreams
  BY <1>2 DEF TypeOK, StopStreams
<1>3. CASE UNCHANGED vars
  BY <1>3 DEF TypeOK, vars
<1>4. ASSUME NEW k \in Closers, CloserStep(k) \/ CloserMay(k)
      PROVE  TypeOK'
  <2>1. CloserFrame
    BY <1>4 DEF CloserStep, CloserMay
  <2>2. CASE CloserCancels(k)
    BY <2>1, <2>2 DEF TypeOK, CloserFrame, CloserCancels, Cancel, Done, CauseOrNone, Causes
  <2>3. CASE CloserCloses(k)
    BY <2>1, <2>3 DEF TypeOK, CloserFrame, CloserCloses
  <2>4. CASE CloserReturns(k)
    BY <2>1, <2>4 DEF TypeOK, CloserFrame, CloserReturns
  <2> QED BY <1>4, <2>2, <2>3, <2>4 DEF CloserStep, CloserMay
<1>5. CASE DeviceStep
  <2>1. UNCHANGED <<ending, slots, calls, worker, reader, streams, closer>>
    BY <1>5 DEF DeviceStep
  <2>2. CASE Emit
    <3>1. PICK frame \in Noise : Send(frame, None)
      BY <2>2 DEF Emit
    <3>2. [frame |-> frame, answers |-> None] \in [frame : Frames, answers : CallerOrNone]
      BY DEF Frames, CallerOrNone
    <3>3. inbound' \in Seq([frame : Frames, answers : CallerOrNone])
      BY <3>1, <3>2 DEF TypeOK, Send
    <3> QED BY <2>1, <2>2, <3>1, <3>3, BoundsAssumption DEF TypeOK, Emit, Send
  <2>3. CASE Hangup
    BY <2>1, <2>3 DEF TypeOK, Hangup
  <2>4. ASSUME NEW c \in Callers, Respond(c)
        PROVE  TypeOK'
    <3>1. PICK reply \in Replies :
            Send(ResponseFrame(NameOf[c], reply.success, reply.faults), c)
      BY <2>4 DEF Respond
    <3>2. ResponseFrame(NameOf[c], reply.success, reply.faults) \in Frames
      BY DEF Frames
    <3>3. inbound' \in Seq([frame : Frames, answers : CallerOrNone])
      BY <3>1, <3>2 DEF TypeOK, Send, CallerOrNone
    <3> QED BY <2>1, <2>4, <3>3 DEF TypeOK, Respond
  <2> QED BY <1>5, <2>2, <2>3, <2>4 DEF DeviceStep
<1> QED BY <1>2, <1>3, <1>4, <1>5
-----------------------------------------------------------------------------
(* Commands: every call is owed its answer.                                *)

LEMMA CommandsByCaller ==
  ASSUME Connection, NEW c \in Callers, CallerStep(c) \/ CallerMay(c)
  PROVE  CommandsOwed'
<1>0. CallerFrame
  BY DEF CallerStep, CallerMay
<1>1. TypeOK /\ CommandsOwed
  BY DEF Connection
<1>2. TypeOK'
  BY CallerTypes DEF Connection
<1> USE NoneAssumption, <1>0, <1>1, <1>2
    DEF TypeOK, CallerFrame, Current, Owes, CommandsOwed, Fresh, SlotInUse, InHand,
        EveryCallIsOwed
<1>3. CASE Call(c)
  BY <1>3 DEF Call
<1>4. CASE EndContext(c)
  BY <1>4 DEF EndContext
<1>5. CASE HandOver(c)
  <2>1. worker'.pc = "received" /\ worker'.request = c
    BY <1>5 DEF HandOver, WorkerStates
  <2> QED BY <1>5, <2>1 DEF HandOver
<1>6. CASE Withdraw(c)
  BY <1>6 DEF Withdraw, Returns
<1>7. CASE Receive(c)
  BY <1>7 DEF Receive, Returns
<1>8. CASE Abandon(c)
  BY <1>8 DEF Abandon, Returns
<1> QED BY <1>3, <1>4, <1>5, <1>6, <1>7, <1>8 DEF CallerStep, CallerMay

\* The worker answers the request it owes an answer, and is done with it.
LEMMA Answering ==
  ASSUME TypeOK, CommandsOwed, Owes,
         NEW res, res # None, Answer(res),
         NEW pc \in {"select", "exited"}, WorkerRests(pc),
         pending' = None, UNCHANGED <<calls, processed>>
  PROVE  CommandsOwed'
<1>1. Current \in Callers /\ ~Owes' /\ Current' = None
  BY DEF TypeOK, WorkerStates, CallerOrNone, Owes, WorkerRests, WorkerAtRest, Current
<1>2. /\ complete'[Current] = res
      /\ \A c \in Callers : c # Current => complete'[c] = complete[c]
  BY <1>1 DEF TypeOK, Answer
<1>3. Fresh'
  BY <1>1, <1>2, NoneAssumption DEF CommandsOwed, Fresh, calls
<1>4. EveryCallIsOwed'
  BY <1>1, <1>2 DEF CommandsOwed, EveryCallIsOwed, calls
<1> QED BY <1>1, <1>3, <1>4 DEF CommandsOwed, SlotInUse, InHand

LEMMA CommandsByWorker ==
  ASSUME Connection, AtFinish, WorkerStep
  PROVE  CommandsOwed'
<1>0. UNCHANGED <<peer, inbound, noise, calls, reader, streams, closer>>
  BY DEF WorkerStep
<1>1. TypeOK /\ CommandsOwed
  BY DEF Connection
<1>2. TypeOK'
  BY WorkerTypes
<1>3. Ended \in Results /\ Cancelled \in Results
  BY <1>1, EndedTypes
<1>4. Ended # None /\ Cancelled # None
  BY <1>3, NoneAssumption
<1> USE <1>0, <1>1, <1>2
    DEF TypeOK, calls, ending, slots, WorkerAt, WorkerGoes, WorkerGivesUp, WorkerRests,
        WorkerAtRest, Current, Owes, CommandsOwed, Fresh, SlotInUse, InHand,
        EveryCallIsOwed
<1>10. CASE WorkerExit
  BY <1>10 DEF WorkerExit
<1>11. CASE RefuseEnded
  BY <1>11, <1>4, Answering DEF RefuseEnded
<1>12. CASE RefuseCancelled
  BY <1>12, <1>4, Answering DEF RefuseCancelled
<1>13. CASE Install
  BY <1>13 DEF Install, WorkerStates
<1>14. CASE Transmit
  BY <1>14 DEF Transmit, WorkerStates
<1>15. CASE FailWrite
  BY <1>15 DEF FailWrite, WorkerStates
<1>16. CASE ResetDeadline
  <2>1. worker'.request = worker.request /\ worker'.pc \in {"wait", "clear"}
    <3>1. CASE socket = "open"
      BY <1>16, <3>1 DEF ResetDeadline, WorkerStates
    <3>2. CASE socket # "open"
      <4>1. worker' = [worker EXCEPT !.pc = "clear", !.err = "writeClosed"]
        BY <1>16, <3>2 DEF ResetDeadline
      <4> QED BY <4>1 DEF WorkerStates
    <3> QED BY <3>1, <3>2
  <2> QED BY <1>16, <2>1 DEF ResetDeadline
<1>17. CASE TakeOutcome
  BY <1>17 DEF TakeOutcome, ClearPending, WorkerStates
<1>18. CASE Finish
  <2>1. ResultOf(Current, worker.got) # None
    BY <1>18, ResultTypes, NoneAssumption DEF Finish, AtFinish, WorkerStates, CallerOrNone
  <2> QED BY <1>18, <2>1 DEF Finish, Answer, WorkerStates
<1>19. CASE Retire
  <2>1. worker'.request = None /\ worker'.pc = "select" /\ pending' = None
    BY <1>19 DEF Retire
  <2>2. Current \in Callers /\ caller[Current] \notin {"idle", "offer"}
    BY <1>19 DEF Retire, WorkerStates, CallerOrNone
  <2>3. /\ processed' \in [Callers -> BOOLEAN]
        /\ \A c \in Callers : c # Current => processed'[c] = processed[c]
    BY <1>19, <2>2 DEF Retire
  <2>4. UNCHANGED <<caller, complete>> /\ ~Owes
    BY <1>19 DEF Retire
  <2>5. Fresh'
    BY <2>1, <2>2, <2>3, <2>4, NoneAssumption
  <2>6. EveryCallIsOwed'
    BY <2>4
  <2> QED BY <2>1, <2>5, <2>6
<1>20. CASE StopWaiting
  BY <1>20, <1>4, Answering DEF StopWaiting, ClearPending
<1>21. CASE TimeOut
  BY <1>21 DEF TimeOut, WorkerStates
<1>22. CASE WorkerClears
  BY <1>22 DEF WorkerClears, ClearPending, WorkerStates
<1>23. CASE WorkerCancels
  BY <1>23 DEF WorkerCancels, WorkerStates
<1>24. CASE WorkerCloses
  BY <1>24, <1>4, Answering DEF WorkerCloses
<1> QED
  BY <1>10, <1>11, <1>12, <1>13, <1>14, <1>15, <1>16, <1>17, <1>18, <1>19, <1>20,
     <1>21, <1>22, <1>23, <1>24 DEF WorkerStep

\* The others leave alone what CommandsOwed is about.
LEMMA CommandsByOthers ==
  ASSUME Connection, UNCHANGED <<pending, processed, complete, calls, worker>>
  PROVE  CommandsOwed'
BY DEF Connection, CommandsOwed, Fresh, SlotInUse, InHand, EveryCallIsOwed, Owes, Current,
       calls
-----------------------------------------------------------------------------
(* Outcomes: what passes between the reader and the worker.                *)

\* A step that hands no outcome over and lets the reader be keeps all of it.
LEMMA HandshakeKept ==
  ASSUME Handshake, UNCHANGED <<outcome, processed, reader>>, Done => Done',
         worker'.pc \in {"finish", "retire"} =>
           worker.pc \in {"finish", "retire"} /\ Current' = Current
  PROVE  Handshake'
BY DEF Handshake, OutcomesAwaited, ProcessedIsTaken, RetiringAwaited, ReaderCarries,
       WaitsFor, ReaderAt, Message

LEMMA DoneForGood ==
  ASSUME [Next]_vars
  PROVE  Done => cause' = cause
BY DEF Next, vars, ending, CallerStep, CallerMay, CallerFrame, WorkerStep, ReaderStep,
       StopStreams, CloserStep, CloserMay, DeviceStep, Cancel, Done,
       WorkerExit, RefuseEnded, RefuseCancelled, Install, Transmit, FailWrite,
       ResetDeadline, TakeOutcome, Finish, Retire, StopWaiting, TimeOut, WorkerClears,
       WorkerCancels, WorkerCloses,
       Scan, ScanFails, Route, Fill, AwaitRetired, AwaitEnded, Publish, PublishEnded,
       ReaderCancels, ReaderCloses, CloserCancels, CloserCloses, CloserReturns

\* The worker's program counter moves as its steps say.
LEMMA WorkerMoves ==
  ASSUME worker \in WorkerStates
  PROVE  /\ \A pc : WorkerGoes(pc) =>
              worker'.pc = pc /\ worker'.request = worker.request /\ worker'.err = worker.err
         /\ \A err : WorkerGivesUp(err) =>
              worker'.pc = "clear" /\ worker'.request = worker.request /\ worker'.err = err
         /\ \A pc : WorkerRests(pc) =>
              worker'.pc = pc /\ worker'.request = None /\ worker'.err = None
<1>1. ASSUME NEW pc, WorkerGoes(pc)
      PROVE  worker'.pc = pc /\ worker'.request = worker.request /\ worker'.err = worker.err
  BY <1>1 DEF WorkerStates, WorkerGoes
<1>2. ASSUME NEW err, WorkerGivesUp(err)
      PROVE  worker'.pc = "clear" /\ worker'.request = worker.request /\ worker'.err = err
  BY <1>2 DEF WorkerStates, WorkerGivesUp
<1>3. ASSUME NEW pc, WorkerRests(pc)
      PROVE  worker'.pc = pc /\ worker'.request = None /\ worker'.err = None
  BY <1>3 DEF WorkerRests, WorkerAtRest
<1> QED BY <1>1, <1>2, <1>3

LEMMA HandshakeByWorker ==
  ASSUME Connection, WorkerStep, [Next]_vars
  PROVE  Handshake'
<1>0. UNCHANGED <<peer, inbound, noise, calls, reader, streams, closer>>
  BY DEF WorkerStep
<1>1. TypeOK /\ CommandsOwed /\ Handshake
  BY DEF Connection
<1>2. worker \in WorkerStates
  BY <1>1 DEF TypeOK
<1>3. Done => Done'
  BY DoneForGood DEF Done
<1>4. Owes \/ WorkerAt("retire") => Current \in Callers
  BY <1>1 DEF TypeOK, WorkerStates, CallerOrNone, Owes, WorkerAt, Current
<1>5. CASE TakeOutcome
  <2>1. /\ outcome[Current] # None /\ Current' = Current /\ Current \in Callers
        /\ outcome' = [outcome EXCEPT ![Current] = None]
        /\ UNCHANGED <<processed, cause>>
    BY <1>2, <1>4, <1>5 DEF TakeOutcome, Owes, WorkerAt, WorkerStates, Current, ending
  <2>2. WaitsFor(Current) /\ \A c \in Callers : WaitsFor(c)' <=> WaitsFor(c)
    BY <1>0, <1>1, <2>1 DEF Handshake, OutcomesAwaited, WaitsFor, ReaderAt, Done
  <2>3. /\ outcome'[Current] = None
        /\ \A c \in Callers : c # Current => outcome'[c] = outcome[c]
    BY <1>1, <2>1 DEF TypeOK
  <2> QED
    BY <1>0, <1>1, <2>1, <2>2, <2>3
    DEF Handshake, OutcomesAwaited, ProcessedIsTaken, RetiringAwaited, ReaderCarries,
        ReaderAt, Message
<1>6. CASE Retire
  <2>1. /\ worker'.pc = "select" /\ WorkerAt("retire") /\ Current \in Callers
        /\ processed' = [processed EXCEPT ![Current] = TRUE]
        /\ UNCHANGED <<outcome, cause>>
    BY <1>4, <1>6 DEF Retire, WorkerRests, WorkerAtRest, ending, WorkerAt
  <2>2. outcome[Current] = None /\ WaitsFor(Current)
    BY <1>1, <2>1 DEF Handshake, RetiringAwaited, WorkerAt
  <2>3. \A c \in Callers : WaitsFor(c)' <=> WaitsFor(c)
    BY <1>0, <2>1 DEF WaitsFor, ReaderAt, Done
  <2>4. \A c \in Callers : c # Current => processed'[c] = processed[c]
    BY <1>1, <2>1 DEF TypeOK
  <2>5. ReaderCarries'
    BY <1>0, <1>1, <2>2, <2>4 DEF Handshake, ReaderCarries, ReaderAt, WaitsFor, Message
  <2> QED
    BY <1>0, <1>1, <2>1, <2>2, <2>3, <2>4, <2>5
    DEF Handshake, OutcomesAwaited, ProcessedIsTaken, RetiringAwaited
<1>7. CASE ~TakeOutcome /\ ~Retire
  <2>1. UNCHANGED <<outcome, processed>>
    BY <1>7 DEF WorkerStep, slots, WorkerExit, RefuseEnded, RefuseCancelled, Install,
       Transmit, FailWrite, ResetDeadline, Finish, StopWaiting, TimeOut, WorkerClears,
       WorkerCancels, WorkerCloses
  <2>2. worker'.pc \in {"finish", "retire"} =>
          worker.pc \in {"finish", "retire"} /\ Current' = Current
    BY <1>2, <1>7, WorkerMoves DEF WorkerStep, WorkerExit, RefuseEnded, RefuseCancelled, Install,
       Transmit, FailWrite, ResetDeadline, Finish, StopWaiting, TimeOut, WorkerClears,
       WorkerCancels, WorkerCloses, WorkerAt, Current
  <2> QED BY <1>0, <1>1, <1>3, <2>1, <2>2, HandshakeKept
<1> QED BY <1>5, <1>6, <1>7

LEMMA ReaderMoves ==
  ASSUME reader \in ReaderStates
  PROVE  /\ \A pc : ReaderGoes(pc) =>
              /\ reader'.pc = pc /\ reader'.frame = reader.frame
              /\ reader'.target = reader.target /\ reader'.err = reader.err
         /\ \A err : ReaderFails(err) =>
              reader'.pc = "cancel" /\ reader'.err = err
         /\ NextFrame =>
              \/ reader'.pc = "scan" /\ reader'.err = None
              \/ reader'.pc = "cancel" /\ reader'.err = "readClosed" /\ socket = "closed"
<1>1. ASSUME NEW pc, ReaderGoes(pc)
      PROVE  /\ reader'.pc = pc /\ reader'.frame = reader.frame
             /\ reader'.target = reader.target /\ reader'.err = reader.err
  BY <1>1 DEF ReaderStates, ReaderGoes
<1>2. ASSUME NEW err, ReaderFails(err)
      PROVE  reader'.pc = "cancel" /\ reader'.err = err
  BY <1>2 DEF ReaderStates, ReaderFails
<1>3. ASSUME NextFrame
      PROVE  \/ reader'.pc = "scan" /\ reader'.err = None
             \/ reader'.pc = "cancel" /\ reader'.err = "readClosed" /\ socket = "closed"
  <2>1. CASE reader' = ReaderAtRest("scan")
    BY <2>1 DEF ReaderAtRest
  <2>2. CASE socket = "closed" /\ reader' = [ReaderAtRest("cancel") EXCEPT !.err = "readClosed"]
    BY <2>2 DEF ReaderAtRest
  <2> QED BY <1>3, <2>1, <2>2 DEF NextFrame
<1> QED BY <1>1, <1>2, <1>3

\* While the reader waits for nobody, no outcome is on its way and the worker
\* is not finishing a command.
LEMMA NoneAwaited ==
  ASSUME TypeOK, OutcomesAwaited, RetiringAwaited,
         \A c \in Callers : outcome[c] # None \/ Current = c => ~WaitsFor(c)
  PROVE  /\ \A c \in Callers : outcome[c] = None
         /\ worker.pc \notin {"finish", "retire"}
<1>1. \A c \in Callers : outcome[c] = None
  BY DEF OutcomesAwaited
<1>2. worker.pc \in {"finish", "retire"} => Current \in Callers
  BY DEF TypeOK, WorkerStates, CallerOrNone, Current
<1> QED BY <1>1, <1>2 DEF RetiringAwaited

LEMMA HandshakeByReader ==
  ASSUME Connection, ReaderStep, [Next]_vars
  PROVE  Handshake'
<1>0. UNCHANGED <<pending, processed, worker>>
  BY DEF ReaderStep
<1>1. TypeOK /\ CommandsOwed /\ Handshake
  BY DEF Connection
<1>2. reader \in ReaderStates
  BY <1>1 DEF TypeOK
<1>3. Done => Done'
  BY DoneForGood DEF Done
<1>4. ASSUME UNCHANGED outcome,
             \A c \in Callers : outcome[c] # None \/ Current = c => ~WaitsFor(c)
      PROVE  OutcomesAwaited' /\ ProcessedIsTaken' /\ RetiringAwaited'
  <2>1. (\A c \in Callers : outcome[c] = None) /\ worker.pc \notin {"finish", "retire"}
    BY <1>1, <1>4, NoneAwaited DEF Handshake
  <2> QED BY <1>0, <1>4, <2>1 DEF OutcomesAwaited, ProcessedIsTaken, RetiringAwaited
<1>5. ASSUME Done, Done', reader'.pc \in {"publish", "exited"}, UNCHANGED outcome
      PROVE  OutcomesAwaited' /\ ProcessedIsTaken' /\ RetiringAwaited'
  BY <1>0, <1>1, <1>5
  DEF Handshake, OutcomesAwaited, ProcessedIsTaken, RetiringAwaited, WaitsFor, Current
<1>6. CASE Scan
  <2>1. \/ reader'.pc \in {"scan", "cancel"}
        \/ reader'.pc = "route" /\ reader'.frame = Head(inbound).frame
    <3>1. CASE NextFrame \/ ReaderFails("read")
      BY <1>2, <3>1, ReaderMoves
    <3>2. CASE reader' = [reader EXCEPT !.pc = "route", !.frame = Head(inbound).frame,
                                        !.answers = Head(inbound).answers]
      BY <1>2, <3>2 DEF ReaderStates
    <3> QED BY <1>6, <3>1, <3>2 DEF Scan
  <2>2. Head(inbound).frame \in Frames
    <3> DEFINE Lines == [frame : Frames, answers : CallerOrNone]
    <3>1. inbound \in Seq(Lines) /\ inbound # <<>>
      BY <1>1, <1>6 DEF TypeOK, Scan
    <3> HIDE DEF Lines
    <3>2. Head(inbound) \in Lines
      BY <3>1
    <3> QED BY <3>2 DEF Lines
  <2> QED BY <1>4, <1>6, <2>1, <2>2 DEF Scan, Handshake, ReaderCarries, WaitsFor, ReaderAt
<1>7. CASE ScanFails
  <2>1. reader'.pc = "cancel"
    BY <1>2, <1>7, ReaderMoves DEF ScanFails
  <2> QED BY <1>4, <1>7, <2>1 DEF ScanFails, Handshake, ReaderCarries, WaitsFor, ReaderAt
<1>8. CASE Route
  <2>1. reader.frame \in Frames
    BY <1>1, <1>8 DEF Handshake, ReaderCarries, Route, ReaderAt
  <2>2. CASE ReaderFails("correlation")
    <3>1. reader'.pc = "cancel"
      BY <1>2, <2>2, ReaderMoves
    <3> QED BY <1>4, <1>8, <3>1 DEF Route, Handshake, ReaderCarries, WaitsFor, ReaderAt
  <2>3. CASE reader' = [reader EXCEPT !.pc = "publish", !.target = pending]
    <3>1. reader'.pc = "publish" /\ reader'.frame = reader.frame
      BY <1>2, <2>3 DEF ReaderStates
    <3> QED BY <1>4, <1>8, <2>1, <3>1 DEF Route, Handshake, ReaderCarries, WaitsFor, ReaderAt
  <2>4. CASE /\ reader' = [reader EXCEPT !.pc = "fill", !.target = pending]
             /\ pending # None /\ ~Mismatch
    <3>1. reader'.pc = "fill" /\ reader'.frame = reader.frame /\ reader'.target = pending
      BY <1>2, <2>4 DEF ReaderStates
    <3>2. pending = Current /\ Current # None /\ Current \in Callers
      BY <1>1, <2>4 DEF TypeOK, WorkerStates, CallerOrNone, Current
    <3>3. ~processed[pending]
      BY <1>1, <3>2 DEF CommandsOwed, InHand
    <3>4. ReaderCarries'
      BY <1>0, <2>1, <2>4, <3>1, <3>2, <3>3 DEF ReaderCarries, ReaderAt, Message, Mismatch
    <3> QED BY <1>4, <1>8, <3>4 DEF Route, Handshake, WaitsFor, ReaderAt
  <2> QED BY <1>8, <2>2, <2>3, <2>4 DEF Route
<1>9. CASE Fill
  <2>1. /\ reader'.pc = "processed" /\ reader'.frame = reader.frame
        /\ reader'.target = reader.target
    BY <1>2, <1>9, ReaderMoves DEF Fill
  <2>2. /\ reader.target \in Callers /\ reader.frame \in Frames
        /\ ~processed[reader.target]
    BY <1>1, <1>9 DEF Handshake, ReaderCarries, Fill, ReaderAt
  <2>3. (\A c \in Callers : outcome[c] = None) /\ worker.pc \notin {"finish", "retire"}
    BY <1>1, <1>9, NoneAwaited DEF Handshake, Fill, WaitsFor, ReaderAt
  <2>4. \A c \in Callers : c # reader.target => outcome'[c] = None
    BY <1>1, <1>9, <2>2, <2>3 DEF TypeOK, Fill
  <2> QED
    BY <1>0, <2>1, <2>2, <2>3, <2>4
    DEF Handshake, OutcomesAwaited, ProcessedIsTaken, RetiringAwaited, ReaderCarries,
        WaitsFor, ReaderAt
<1>10. CASE AwaitRetired
  <2>1. reader'.pc \in {"scan", "cancel"}
    BY <1>2, <1>10, ReaderMoves DEF AwaitRetired
  <2>2. \A c \in Callers : outcome[c] # None \/ Current = c => ~WaitsFor(c)
    BY <1>1, <1>10, NoneAssumption
    DEF AwaitRetired, Handshake, ProcessedIsTaken, CommandsOwed, InHand, WaitsFor, ReaderAt
  <2> QED BY <1>4, <1>10, <2>1, <2>2 DEF AwaitRetired, Handshake, ReaderCarries, ReaderAt
<1>11. CASE AwaitEnded
  <2>1. \/ reader'.pc = "exited"
        \/ reader'.pc = "publish" /\ reader'.frame = reader.frame
    <3>1. CASE reader' = ReaderAtRest("exited")
      BY <3>1 DEF ReaderAtRest
    <3>2. CASE ReaderGoes("publish")
      BY <1>2, <3>2, ReaderMoves
    <3> QED BY <1>11, <3>1, <3>2 DEF AwaitEnded
  <2>2. reader.frame \in Frames
    BY <1>1, <1>11 DEF AwaitEnded, Handshake, ReaderCarries, ReaderAt
  <2> QED BY <1>3, <1>5, <1>11, <2>1, <2>2 DEF AwaitEnded, Handshake, ReaderCarries, ReaderAt
<1>12. CASE Publish
  <2>1. reader'.pc \in {"scan", "cancel"}
    BY <1>2, <1>12, ReaderMoves DEF Publish
  <2> QED BY <1>4, <1>12, <2>1 DEF Publish, Handshake, ReaderCarries, WaitsFor, ReaderAt
<1>13. CASE PublishEnded
  <2>1. reader'.pc = "exited"
    BY <1>13 DEF PublishEnded, ReaderAtRest
  <2> QED BY <1>3, <1>5, <1>13, <2>1 DEF PublishEnded, Handshake, ReaderCarries, ReaderAt
<1>14. CASE ReaderCancels
  <2>1. reader'.pc = "close"
    BY <1>2, <1>14, ReaderMoves DEF ReaderCancels
  <2> QED BY <1>4, <1>14, <2>1 DEF ReaderCancels, Handshake, ReaderCarries, WaitsFor, ReaderAt
<1>15. CASE ReaderCloses
  <2>1. reader'.pc = "exited"
    BY <1>15 DEF ReaderCloses, ReaderAtRest
  <2> QED BY <1>4, <1>15, <2>1 DEF ReaderCloses, Handshake, ReaderCarries, WaitsFor, ReaderAt
<1> QED
  BY <1>6, <1>7, <1>8, <1>9, <1>10, <1>11, <1>12, <1>13, <1>14, <1>15 DEF ReaderStep
-----------------------------------------------------------------------------
(* The end of the connection.                                              *)

\* A step that leaves the worker and the reader as EndingInOrder wants them,
\* and touches neither the ending nor Close, keeps it.
LEMMA EndingKept ==
  ASSUME EndingInOrder, CauseIsGenuine, Done => Done',
         UNCHANGED <<cause, socket, closer>>,
         streams = "closed" => streams' = "closed",
         worker.pc = "exited" => worker'.pc = "exited",
         worker' = worker \/
           (/\ worker'.pc = "close" => Done
            /\ worker'.pc \in {"clear", "cancel"} => worker'.err # None
            /\ worker'.err \in OwnSocketErrors => Done),
         reader' = reader \/
           (/\ reader'.pc = "close" => Done
            /\ reader'.pc = "cancel" => reader'.err # None
            /\ reader'.err \in OwnSocketErrors => Done)
  PROVE  EndingInOrder' /\ CauseIsGenuine'
BY DEF EndingInOrder, CauseIsGenuine, Done, ReaderAt

LEMMA EndingByWorker ==
  ASSUME Connection, WorkerStep
  PROVE  EndingInOrder' /\ CauseIsGenuine'
<1>0. UNCHANGED <<reader, streams, closer>>
  BY DEF WorkerStep
<1>1. /\ worker \in WorkerStates /\ None \notin OwnSocketErrors
      /\ EndingInOrder /\ CauseIsGenuine /\ socket \in {"open", "closed"}
  BY NoneAssumption DEF Connection, TypeOK, Causes
<1>2. CASE WorkerCancels
  <2>1. /\ Cancel(worker.err) /\ worker.pc = "cancel" /\ UNCHANGED socket
        /\ worker'.pc = "close" /\ worker'.err = worker.err
    BY <1>1, <1>2, WorkerMoves DEF WorkerCancels, WorkerAt
  <2>2. Done' /\ CauseIsGenuine'
    BY <1>1, <2>1 DEF EndingInOrder, CauseIsGenuine, Cancel, Done
  <2> QED BY <1>0, <1>1, <2>1, <2>2 DEF EndingInOrder, ReaderAt
<1>3. CASE WorkerCloses
  <2>1. /\ worker.pc = "close" /\ UNCHANGED cause /\ worker'.pc = "select"
        /\ worker'.err = None /\ socket' = "closed"
    BY <1>1, <1>3, WorkerMoves DEF WorkerCloses, WorkerAt
  <2> QED BY <1>0, <1>1, <2>1 DEF EndingInOrder, CauseIsGenuine, Done, ReaderAt
<1>4. CASE ~WorkerCancels /\ ~WorkerCloses
  <2>1. UNCHANGED <<cause, socket>> /\ worker.pc # "exited"
    BY <1>4 DEF WorkerStep, ending, WorkerExit, RefuseEnded, RefuseCancelled, Install,
       Transmit, FailWrite, ResetDeadline, TakeOutcome, Finish, Retire, StopWaiting,
       TimeOut, WorkerClears, WorkerAt
  <2>2. /\ worker'.pc = "close" => Done
        /\ worker'.pc \in {"clear", "cancel"} => worker'.err # None
        /\ worker'.err \in OwnSocketErrors => Done
    <3> USE <1>1, WorkerMoves DEF EndingInOrder, WorkerAt, OwnSocketErrors
    <3>1. CASE WorkerExit \/ RefuseEnded \/ RefuseCancelled \/ Retire \/ StopWaiting
      BY <3>1 DEF WorkerExit, RefuseEnded, RefuseCancelled, Retire, StopWaiting
    <3>2. CASE Install \/ Transmit \/ Finish
      BY <3>2 DEF Install, Transmit, Finish
    <3>3. CASE FailWrite
      <4>1. CASE socket = "closed"
        BY <3>3, <4>1 DEF FailWrite
      <4>2. CASE socket # "closed"
        BY <3>3, <4>2, NoneAssumption DEF FailWrite, Causes
      <4> QED BY <4>1, <4>2
    <3>4. CASE ResetDeadline
      <4>1. CASE socket = "open"
        BY <3>4, <4>1 DEF ResetDeadline
      <4>2. CASE socket # "open"
        BY <3>4, <4>2 DEF ResetDeadline
      <4> QED BY <4>1, <4>2
    <3>5. CASE TakeOutcome
      BY <3>5 DEF TakeOutcome, WorkerStates
    <3>6. CASE TimeOut
      BY <3>6, NoneAssumption DEF TimeOut, Causes
    <3>7. CASE WorkerClears
      BY <3>7 DEF WorkerClears
    <3> QED BY <1>4, <3>1, <3>2, <3>3, <3>4, <3>5, <3>6, <3>7 DEF WorkerStep
  <2>3. Done => Done'
    BY <2>1 DEF Done
  <2> QED BY <1>0, <1>1, <2>1, <2>2, <2>3, EndingKept
<1> QED BY <1>2, <1>3, <1>4

LEMMA EndingByReader ==
  ASSUME Connection, ReaderStep
  PROVE  EndingInOrder' /\ CauseIsGenuine'
<1>0. UNCHANGED <<worker, streams, closer>>
  BY DEF ReaderStep
<1>1. /\ reader \in ReaderStates /\ None \notin OwnSocketErrors
      /\ EndingInOrder /\ CauseIsGenuine
  BY NoneAssumption DEF Connection, TypeOK, Causes
<1>2. CASE ReaderCancels
  <2>1. /\ Cancel(reader.err) /\ reader.pc = "cancel" /\ UNCHANGED socket
        /\ reader'.pc = "close" /\ reader'.err = reader.err
    BY <1>1, <1>2, ReaderMoves DEF ReaderCancels, ReaderAt
  <2>2. Done' /\ CauseIsGenuine'
    BY <1>1, <2>1 DEF EndingInOrder, CauseIsGenuine, Cancel, Done, ReaderAt
  <2> QED BY <1>0, <1>1, <2>1, <2>2 DEF EndingInOrder, ReaderAt
<1>3. CASE ReaderCloses
  <2>1. /\ reader.pc = "close" /\ UNCHANGED cause /\ reader'.pc = "exited"
        /\ reader'.err = None /\ socket' = "closed"
    BY <1>3 DEF ReaderCloses, ReaderAt, ReaderAtRest
  <2> QED BY <1>0, <1>1, <2>1 DEF EndingInOrder, CauseIsGenuine, Done, ReaderAt
<1>4. CASE ~ReaderCancels /\ ~ReaderCloses
  <2>1. UNCHANGED <<cause, socket>>
    BY <1>4 DEF ReaderStep, ending, Scan, ScanFails, Route, Fill, AwaitRetired,
       AwaitEnded, Publish, PublishEnded
  <2>2. /\ reader'.pc = "close" => Done
        /\ reader'.pc = "cancel" => reader'.err # None
        /\ reader'.err \in OwnSocketErrors => Done
    <3> USE <1>1, ReaderMoves DEF EndingInOrder, OwnSocketErrors
    <3>1. ASSUME NextFrame
          PROVE  /\ reader'.pc = "close" => Done
                 /\ reader'.pc = "cancel" => reader'.err # None
                 /\ reader'.err \in OwnSocketErrors => Done
      BY <3>1
    <3>2. CASE Scan
      <4>1. CASE ReaderFails("read")
        BY <4>1, NoneAssumption DEF Causes
      <4>2. CASE reader' = [reader EXCEPT !.pc = "route", !.frame = Head(inbound).frame,
                                          !.answers = Head(inbound).answers]
        <5>1. reader'.pc = "route" /\ reader'.err = reader.err
          BY <4>2 DEF ReaderStates
        <5> QED BY <5>1
      <4> QED BY <3>1, <3>2, <4>1, <4>2 DEF Scan
    <3>3. CASE ScanFails
      BY <3>3, NoneAssumption DEF ScanFails, Causes
    <3>4. CASE Route
      <4>1. CASE ReaderFails("correlation")
        BY <4>1, NoneAssumption DEF Causes
      <4>2. CASE \/ reader' = [reader EXCEPT !.pc = "publish", !.target = pending]
                 \/ reader' = [reader EXCEPT !.pc = "fill", !.target = pending]
        <5>1. reader'.pc \in {"publish", "fill"} /\ reader'.err = reader.err
          BY <4>2 DEF ReaderStates
        <5> QED BY <5>1
      <4> QED BY <3>4, <4>1, <4>2 DEF Route
    <3>5. CASE Fill
      BY <3>5 DEF Fill
    <3>6. CASE AwaitRetired
      BY <3>1, <3>6 DEF AwaitRetired
    <3>7. CASE AwaitEnded
      <4>1. CASE reader' = ReaderAtRest("exited")
        BY <4>1 DEF ReaderAtRest
      <4>2. CASE ReaderGoes("publish")
        BY <4>2
      <4> QED BY <3>7, <4>1, <4>2 DEF AwaitEnded
    <3>8. CASE Publish
      BY <3>1, <3>8 DEF Publish
    <3>9. CASE PublishEnded
      BY <3>9 DEF PublishEnded, ReaderAtRest
    <3> QED
      BY <1>4, <3>2, <3>3, <3>4, <3>5, <3>6, <3>7, <3>8, <3>9 DEF ReaderStep
  <2>3. Done => Done'
    BY <2>1 DEF Done
  <2> QED BY <1>0, <1>1, <2>1, <2>2, <2>3, EndingKept
<1> QED BY <1>2, <1>3, <1>4

LEMMA EndingByCloser ==
  ASSUME Connection, NEW k \in Closers, CloserStep(k) \/ CloserMay(k)
  PROVE  EndingInOrder' /\ CauseIsGenuine'
<1>0. UNCHANGED <<worker, reader, streams>>
  BY DEF CloserStep, CloserMay, CloserFrame
<1>1. /\ closer \in [Closers -> {"idle", "close", "workers", "returned"}]
      /\ None # "closed" /\ EndingInOrder /\ CauseIsGenuine
  BY NoneAssumption DEF Connection, TypeOK, Causes
<1> USE <1>0, <1>1 DEF EndingInOrder, CauseIsGenuine, ReaderAt, Done, OwnSocketErrors
<1>2. CASE CloserCancels(k)
  <2>1. cause' # None /\ cause' \notin OwnSocketErrors
    BY <1>2 DEF CloserCancels, Cancel
  <2> QED BY <1>2, <2>1 DEF CloserCancels
<1>3. CASE CloserCloses(k)
  BY <1>3 DEF CloserCloses
<1>4. CASE CloserReturns(k)
  BY <1>4 DEF CloserReturns, ending
<1> QED BY <1>2, <1>3, <1>4 DEF CloserStep, CloserMay
-----------------------------------------------------------------------------
(* Answers.                                                                *)

\* What every answer on its way to c, or arrived, satisfies.
Fits(c, res) == EndsWithCause(res) /\ NamesCommand(c, res)

\* The terminal cause is stable, so such an answer stays what it is.
LEMMA FitsForGood ==
  ASSUME [Next]_vars
  PROVE  \A c \in Callers : \A res :
           Fits(c, res) => /\ res.kind = "ended" => Done' /\ res.err = cause'
                           /\ NamesCommand(c, res)
BY DoneForGood DEF Fits, EndsWithCause, Done

LEMMA OwnAnswersFit ==
  ASSUME NEW c \in Callers
  PROVE  Fits(c, Cancelled) /\ (Done => Fits(c, Ended))
BY DEF Fits, EndsWithCause, NamesCommand, Cancelled, Ended, Failure

LEMMA OutcomesFit ==
  ASSUME NEW c \in Callers, NEW got \in Outcomes, ~got.failed => got.to = NameOf[c]
  PROVE  Fits(c, ResultOf(c, got))
BY DEF Fits, EndsWithCause, NamesCommand, ResultOf, Failure, Success

LEMMA AnswersByCaller ==
  ASSUME IInv, [Next]_vars, NEW c \in Callers, CallerStep(c) \/ CallerMay(c)
  PROVE  Answers' /\ AtFinish'
<1>0. CallerFrame
  BY DEF CallerStep, CallerMay
<1>1. TypeOK /\ Answers /\ AtFinish
  BY DEF IInv, Connection
<1>2. \A d \in Callers :
        /\ complete'[d] # None => complete'[d] = complete[d]
        /\ result'[d] # None =>
             \/ result'[d] \in {result[d], complete[d], Cancelled}
             \/ Done /\ result'[d] = Ended
  <2>1. CASE Call(c) \/ EndContext(c) \/ HandOver(c)
    BY <1>1, <2>1 DEF TypeOK, Call, EndContext, HandOver
  <2>2. CASE Withdraw(c)
    BY <1>1, <2>2 DEF TypeOK, Withdraw, Returns
  <2>3. CASE Receive(c)
    <3>1. complete'[c] = None /\ result'[c] = complete[c]
      BY <1>1, <2>3 DEF TypeOK, Receive, Returns
    <3>2. \A d \in Callers : d # c => complete'[d] = complete[d] /\ result'[d] = result[d]
      BY <1>1, <2>3 DEF TypeOK, Receive, Returns
    <3>3. ASSUME NEW d \in Callers
          PROVE  /\ complete'[d] # None => complete'[d] = complete[d]
                 /\ result'[d] \in {result[d], complete[d]}
      <4>1. CASE d = c
        BY <3>1, <4>1
      <4>2. CASE d # c
        BY <3>2, <4>2
      <4> QED BY <4>1, <4>2
    <3> QED BY <3>3
  <2>4. CASE Abandon(c)
    BY <1>1, <2>4 DEF TypeOK, Abandon, Returns
  <2> QED BY <2>1, <2>2, <2>3, <2>4 DEF CallerStep, CallerMay
<1>3. AtFinish'
  <2>1. CASE HandOver(c)
    BY <1>1, <2>1 DEF HandOver, AtFinish, WorkerAt, TypeOK, WorkerStates
  <2>2. CASE ~HandOver(c)
    BY <1>1, <2>2 DEF CallerStep, CallerMay, Call, EndContext, Withdraw, Receive, Abandon,
       AtFinish, WorkerAt, Current
  <2> QED BY <2>1, <2>2
<1>4. \A d \in Callers :
        /\ complete'[d] # None => Fits(d, complete'[d])
        /\ result'[d] # None => Fits(d, result'[d])
  BY <1>1, <1>2, OwnAnswersFit DEF Answers, Fits
<1>5. UNCHANGED outcome
  BY <1>0 DEF CallerFrame
<1> QED
  BY <1>1, <1>3, <1>4, <1>5, FitsForGood DEF Answers, Fits, EndsWithCause, NamesCommand

LEMMA AnswersByWorker ==
  ASSUME IInv, [Next]_vars, WorkerStep
  PROVE  Answers' /\ AtFinish'
<1>0. UNCHANGED calls
  BY DEF WorkerStep
<1>1. /\ TypeOK /\ CommandsOwed /\ Answers /\ AtFinish /\ EndingInOrder
      /\ worker \in WorkerStates
  BY DEF IInv, Connection, TypeOK
<1>2. Owes => Current \in Callers
  BY <1>1 DEF WorkerStates, CallerOrNone, Owes, Current, TypeOK
<1>3. \E res : /\ UNCHANGED complete \/ Answer(res)
               /\ Owes => Fits(Current, res)
               /\ Answer(res) /\ ~UNCHANGED complete => Owes
  <2>1. CASE RefuseEnded \/ StopWaiting \/ WorkerCloses
    <3>1. Answer(Ended) /\ Done /\ Owes
      BY <1>1, <2>1 DEF RefuseEnded, StopWaiting, WorkerCloses, EndingInOrder, WorkerAt, Owes
    <3>2. Fits(Current, Ended)
      BY <1>2, <3>1, OwnAnswersFit
    <3> QED BY <3>1, <3>2
  <2>2. CASE RefuseCancelled
    <3>1. Answer(Cancelled) /\ Owes
      BY <2>2 DEF RefuseCancelled, WorkerAt, Owes
    <3>2. Fits(Current, Cancelled)
      BY <1>2, <3>1, OwnAnswersFit
    <3> QED BY <3>1, <3>2
  <2>3. CASE Finish
    <3>1. Answer(ResultOf(Current, worker.got)) /\ Owes
      BY <2>3 DEF Finish, WorkerAt, Owes
    <3>2. worker.got \in Outcomes /\ (~worker.got.failed => worker.got.to = NameOf[Current])
      BY <1>1, <2>3 DEF Finish, AtFinish, WorkerStates
    <3>3. Fits(Current, ResultOf(Current, worker.got))
      BY <1>2, <3>1, <3>2, OutcomesFit
    <3> QED BY <3>1, <3>3
  <2>4. CASE UNCHANGED complete
    <3>1. Owes => Fits(Current, Cancelled)
      BY <1>2, OwnAnswersFit
    <3> QED BY <2>4, <3>1
  <2> QED
    BY <2>1, <2>2, <2>3, <2>4
    DEF WorkerStep, slots, WorkerExit, Install, Transmit, FailWrite, ResetDeadline,
        TakeOutcome, Retire, TimeOut, WorkerClears, WorkerCancels
<1>4. \A c \in Callers : complete'[c] # None => Fits(c, complete'[c])
  <2>1. PICK res : /\ UNCHANGED complete \/ Answer(res)
                   /\ Owes => Fits(Current, res)
                   /\ Answer(res) /\ ~UNCHANGED complete => Owes
    BY <1>3
  <2>2. CASE UNCHANGED complete
    BY <1>1, <2>2 DEF Answers, Fits
  <2>3. CASE ~UNCHANGED complete
    <3>1. Answer(res) /\ Current \in Callers /\ Fits(Current, res)
      BY <1>2, <2>1, <2>3
    <3>2. complete'[Current] = res /\ \A c \in Callers : c # Current => complete'[c] = complete[c]
      BY <1>1, <3>1 DEF Answer, TypeOK
    <3> QED BY <1>1, <3>1, <3>2 DEF Answers, Fits
  <2> QED BY <2>2, <2>3
<1>5. \A c \in Callers : outcome'[c] # None => outcome'[c] = outcome[c]
  <2>1. CASE TakeOutcome
    <3>1. Current \in Callers
      BY <1>2, <2>1 DEF TakeOutcome, Owes, WorkerAt
    <3> QED BY <1>1, <2>1, <3>1 DEF TakeOutcome, TypeOK
  <2>2. CASE ~TakeOutcome
    BY <2>2 DEF WorkerStep, slots, WorkerExit, RefuseEnded, RefuseCancelled, Install,
       Transmit, FailWrite, ResetDeadline, Finish, Retire, StopWaiting, TimeOut,
       WorkerClears, WorkerCancels, WorkerCloses
  <2> QED BY <2>1, <2>2
<1>6. AtFinish'
  <2>1. CASE TakeOutcome
    <3>1. /\ Current \in Callers /\ outcome[Current] # None
          /\ worker'.got = outcome[Current] /\ Current' = Current
      BY <1>1, <1>2, <2>1 DEF TakeOutcome, Owes, WorkerAt, WorkerStates, Current
    <3> QED BY <1>1, <3>1 DEF Answers, AtFinish
  <2>2. CASE ~TakeOutcome
    <3>1. worker'.pc # "finish"
      BY <1>1, <2>2, WorkerMoves DEF WorkerStep, WorkerExit, RefuseEnded, RefuseCancelled,
         Install, Transmit, FailWrite, ResetDeadline, Finish, Retire, StopWaiting, TimeOut,
         WorkerClears, WorkerCancels, WorkerCloses
    <3> QED BY <3>1 DEF AtFinish, WorkerAt
  <2> QED BY <2>1, <2>2
<1> QED
  BY <1>0, <1>1, <1>4, <1>5, <1>6, FitsForGood
  DEF Answers, Fits, EndsWithCause, NamesCommand, calls

LEMMA AnswersByReader ==
  ASSUME IInv, [Next]_vars, ReaderStep
  PROVE  Answers' /\ AtFinish'
<1>0. UNCHANGED <<complete, calls, worker>>
  BY DEF ReaderStep
<1>1. /\ TypeOK /\ Handshake /\ Answers /\ AtFinish
      /\ outcome \in [Callers -> Outcomes \cup {None}]
  BY DEF IInv, Connection, TypeOK
<1>2. \A c \in Callers :
        outcome'[c] # None /\ ~outcome'[c].failed => outcome'[c].to = NameOf[c]
  <2>1. CASE Fill
    <3> DEFINE filled == IF Message.payload = "response"
                         THEN Decoded(Message, reader.answers) ELSE Failed
    <3>1. /\ reader.target \in Callers
          /\ Message.payload = "response" => Message.responseTo = NameOf[reader.target]
          /\ outcome' = [outcome EXCEPT ![reader.target] = filled]
      BY <1>1, <2>1 DEF Fill, Handshake, ReaderCarries, ReaderAt
    <3>2. ~filled.failed => filled.to = NameOf[reader.target]
      BY <3>1 DEF Decoded, Failed
    <3> HIDE DEF filled
    <3>3. /\ outcome'[reader.target] = filled
          /\ \A c \in Callers : c # reader.target => outcome'[c] = outcome[c]
      BY <1>1, <3>1
    <3> QED BY <1>1, <3>2, <3>3 DEF Answers
  <2>2. CASE ~Fill
    <3>1. UNCHANGED outcome
      BY <2>2 DEF ReaderStep, Scan, ScanFails, Route, AwaitRetired, AwaitEnded, Publish,
         PublishEnded, ReaderCancels, ReaderCloses
    <3> QED BY <1>1, <3>1 DEF Answers
  <2> QED BY <2>1, <2>2
<1>3. \A c \in Callers : /\ complete[c] # None => Fits(c, complete[c])
                         /\ result[c] # None => Fits(c, result[c])
  BY <1>1 DEF Answers, Fits
<1> QED
  BY <1>0, <1>1, <1>2, <1>3, FitsForGood
  DEF Answers, AtFinish, WorkerAt, Current, Fits, EndsWithCause, NamesCommand, calls

LEMMA AnswersByOthers ==
  ASSUME IInv, [Next]_vars, UNCHANGED <<complete, outcome, calls, worker>>
  PROVE  Answers' /\ AtFinish'
<1>1. /\ Answers /\ AtFinish
      /\ \A c \in Callers : /\ complete[c] # None => Fits(c, complete[c])
                            /\ result[c] # None => Fits(c, result[c])
  BY DEF IInv, Answers, Fits
<1> QED
  BY <1>1, FitsForGood
  DEF Answers, AtFinish, WorkerAt, Current, Fits, EndsWithCause, NamesCommand, calls
-----------------------------------------------------------------------------
(* The invariant holds.                                                    *)

LEMMA InvInit ==
  ASSUME Init
  PROVE  IInv
<1> USE NoneAssumption
    DEF Init, WorkerAtRest, ReaderAtRest, Current, Done, Owes, ReaderAt, WorkerAt
<1>1. worker \in WorkerStates /\ reader \in ReaderStates
  BY DEF WorkerStates, ReaderStates, CallerOrNone, CauseOrNone
<1>2. inbound \in Seq([frame : Frames, answers : CallerOrNone])
  OBVIOUS
<1>3. TypeOK
  BY <1>1, <1>2, BoundsAssumption DEF TypeOK, CauseOrNone
<1>4. CommandsOwed
  BY DEF CommandsOwed, Fresh, SlotInUse, InHand, EveryCallIsOwed
<1>5. Handshake
  BY DEF Handshake, OutcomesAwaited, ProcessedIsTaken, RetiringAwaited, ReaderCarries
<1>6. None \notin OwnSocketErrors
  BY DEF Causes
<1>7. EndingInOrder /\ CauseIsGenuine
  BY <1>6 DEF EndingInOrder, CauseIsGenuine
<1>8. Answers /\ AtFinish
  BY DEF Answers, AtFinish
<1> QED BY <1>3, <1>4, <1>5, <1>7, <1>8 DEF IInv, Connection

LEMMA InvStep ==
  ASSUME IInv, [Next]_vars
  PROVE  IInv'
<1>1. /\ Connection /\ AtFinish /\ Handshake /\ EndingInOrder /\ CauseIsGenuine
      /\ Done => Done'
  BY DoneForGood DEF IInv, Connection, Done
<1>2. ASSUME NEW c \in Callers, CallerStep(c) \/ CallerMay(c)
      PROVE  IInv'
  <2>1. TypeOK' /\ CommandsOwed' /\ Answers' /\ AtFinish'
    BY <1>1, <1>2, CallerTypes, CommandsByCaller, AnswersByCaller DEF Connection
  <2>2. UNCHANGED <<cause, socket, outcome, processed, reader, streams, closer>>
    BY <1>2 DEF CallerStep, CallerMay, CallerFrame, ending
  <2>3. \/ UNCHANGED worker
        \/ /\ worker.pc = "select" /\ worker'.pc = "received" /\ worker'.err = worker.err
    BY <1>1, <1>2 DEF CallerStep, CallerMay, Call, EndContext, HandOver, Withdraw, Receive,
       Abandon, Connection, TypeOK, WorkerStates
  <2>4. Handshake'
    BY <1>1, <2>2, <2>3, HandshakeKept DEF Current
  <2>5. EndingInOrder' /\ CauseIsGenuine'
    BY <1>1, <2>2, <2>3, EndingKept DEF EndingInOrder
  <2> QED BY <2>1, <2>4, <2>5 DEF IInv, Connection
<1>3. CASE WorkerStep
  BY <1>1, <1>3, WorkerTypes, CommandsByWorker, HandshakeByWorker, EndingByWorker,
     AnswersByWorker DEF IInv, Connection
<1>4. CASE ReaderStep
  <2>1. CommandsOwed'
    BY <1>1, <1>4, CommandsByOthers DEF ReaderStep
  <2> QED
    BY <1>1, <1>4, <2>1, ReaderTypes, HandshakeByReader, EndingByReader, AnswersByReader
    DEF IInv, Connection
<1>5. ASSUME StopStreams \/ DeviceStep \/ UNCHANGED vars
               \/ \E k \in Closers : CloserStep(k) \/ CloserMay(k)
      PROVE  IInv'
  <2>1. UNCHANGED <<slots, calls, worker, reader>>
    BY <1>5 DEF StopStreams, DeviceStep, vars, CloserStep, CloserMay, CloserFrame
  <2>2. TypeOK' /\ CommandsOwed' /\ Handshake' /\ Answers' /\ AtFinish'
    BY <1>1, <1>5, <2>1, OtherTypes, CommandsByOthers, HandshakeKept, AnswersByOthers
    DEF slots, Current
  <2>3. EndingInOrder' /\ CauseIsGenuine'
    <3>1. CASE StopStreams \/ DeviceStep \/ UNCHANGED vars
      <4>1. UNCHANGED <<cause, socket, closer>> /\ (streams = "closed" => streams' = "closed")
        BY <3>1 DEF StopStreams, DeviceStep, vars, ending
      <4> QED BY <1>1, <2>1, <4>1, EndingKept
    <3>2. CASE \E k \in Closers : CloserStep(k) \/ CloserMay(k)
      BY <1>1, <3>2, EndingByCloser
    <3> QED BY <1>5, <3>1, <3>2
  <2> QED BY <2>2, <2>3 DEF IInv, Connection
<1> QED BY <1>2, <1>3, <1>4, <1>5 DEF Next

LEMMA Invariant == Spec => []IInv
BY InvInit, InvStep, PTL DEF Spec
-----------------------------------------------------------------------------
\* Every variable has its type in every state of every connection.
THEOREM TypesAreKept == Spec => []TypeOK
<1>1. IInv => TypeOK
  BY DEF IInv, Connection
<1> QED BY <1>1, Invariant, PTL

\* No path of the worker leaves a waiting call without an answer.
THEOREM NoCallIsForgotten == Spec => []EveryCallIsOwed
<1>1. IInv => EveryCallIsOwed
  BY DEF IInv, Connection, CommandsOwed
<1> QED BY <1>1, Invariant, PTL

\* Neither the worker nor the reader ever blocks on a channel of one place.
THEOREM NoSendBlocks == Spec => []SendsHaveRoom
<1>1. ASSUME IInv
      PROVE  SendsHaveRoom
  <2>1. Owes => complete[Current] = None
    BY <1>1 DEF IInv, Connection, CommandsOwed
  <2>2. ReaderAt("fill") => outcome[reader.target] = None
    BY <1>1 DEF IInv, Connection, Handshake, OutcomesAwaited, ReaderCarries, WaitsFor, ReaderAt
  <2> QED BY <2>1, <2>2 DEF SendsHaveRoom
<1> QED BY <1>1, Invariant, PTL

\* The terminal cause is never the error of I/O on this side's closed socket.
THEOREM CauseNotOurOwnEcho == Spec => []CauseIsGenuine
<1>1. IInv => CauseIsGenuine
  BY DEF IInv, Connection
<1> QED BY <1>1, Invariant, PTL

\* Once set, the terminal cause never changes.
THEOREM CauseNeverChanges == Spec => [][Done => cause' = cause]_vars
<1>1. [Next]_vars => [Done => cause' = cause]_vars
  BY DoneForGood
<1> QED BY <1>1, PTL DEF Spec

\* A call that the end of the connection interrupts returns its cause.
THEOREM EndIsExplained == Spec => []InterruptedCallsTellCause
<1>1. IInv => InterruptedCallsTellCause
  BY DEF IInv, Answers, EndsWithCause, InterruptedCallsTellCause
<1> QED BY <1>1, Invariant, PTL

\* A response a call returns names that call's command.
THEOREM AnswersCorrelate == Spec => []AnswersNameTheirCommand
<1>1. IInv => AnswersNameTheirCommand
  BY DEF IInv, Answers, NamesCommand, AnswersNameTheirCommand
<1> QED BY <1>1, Invariant, PTL

\* When Close returns, nothing of the connection is left to happen.
THEOREM CloseLeavesNothing == Spec => []CloseSettles
<1>1. ASSUME IInv
      PROVE  CloseSettles
  <2>1. SUFFICES ASSUME NEW k \in Closers, closer[k] = "returned"
                 PROVE  /\ Done /\ socket = "closed" /\ pending = None
                        /\ streams = "closed"
                        /\ \A c \in Callers : caller[c] = "await" => complete[c] # None
    BY DEF CloseSettles
  <2>2. Done /\ socket = "closed" /\ worker.pc = "exited" /\ streams = "closed"
    BY <1>1, <2>1 DEF IInv, Connection, EndingInOrder
  <2>3. pending = None
    BY <1>1, <2>2 DEF IInv, Connection, CommandsOwed, SlotInUse
  <2>4. \A c \in Callers : caller[c] = "await" => complete[c] # None
    BY <1>1, <2>2 DEF IInv, Connection, CommandsOwed, EveryCallIsOwed, Owes
  <2> QED BY <2>2, <2>3, <2>4
<1> QED BY <1>1, Invariant, PTL

\* A response that found its command waiting is never published as unhandled.
THEOREM AwaitedResponsesStayPrivate == Spec => []AwaitedResponseIsPrivate
<1>1. Init => AwaitedResponseIsPrivate
  BY DEF Init, ReaderAtRest, AwaitedResponseIsPrivate, ReaderAt
<1>2. ASSUME IInv, AwaitedResponseIsPrivate, [Next]_vars
      PROVE  AwaitedResponseIsPrivate'
  <2>1. reader \in ReaderStates /\ (Done => Done')
    BY <1>2, DoneForGood DEF IInv, Connection, TypeOK, Done
  <2>2. CASE UNCHANGED reader
    BY <1>2, <2>1, <2>2 DEF AwaitedResponseIsPrivate, ReaderAt, SaysResponse, Message
  <2>3. CASE Route
    <3>1. CASE /\ reader' = [reader EXCEPT !.pc = "publish", !.target = pending]
               /\ ~(SaysResponse(Message) /\ pending # None)
      <4>1. reader'.frame = reader.frame /\ reader'.target = pending
        BY <2>1, <3>1 DEF ReaderStates
      <4> QED BY <3>1, <4>1 DEF AwaitedResponseIsPrivate, SaysResponse, Message
    <3>2. CASE reader' = [reader EXCEPT !.pc = "fill", !.target = pending]
      <4>1. reader'.pc = "fill"
        BY <2>1, <3>2 DEF ReaderStates
      <4> QED BY <4>1 DEF AwaitedResponseIsPrivate, ReaderAt
    <3>3. CASE ReaderFails("correlation")
      BY <2>1, <3>3, ReaderMoves DEF AwaitedResponseIsPrivate, ReaderAt
    <3> QED BY <2>3, <3>1, <3>2, <3>3 DEF Route
  <2>4. CASE AwaitEnded
    BY <2>1, <2>4 DEF AwaitEnded, AwaitedResponseIsPrivate
  <2>5. CASE Scan
    <3>1. CASE NextFrame \/ ReaderFails("read")
      BY <2>1, <3>1, ReaderMoves DEF AwaitedResponseIsPrivate, ReaderAt
    <3>2. CASE reader' = [reader EXCEPT !.pc = "route", !.frame = Head(inbound).frame,
                                        !.answers = Head(inbound).answers]
      <4>1. reader'.pc = "route"
        BY <2>1, <3>2 DEF ReaderStates
      <4> QED BY <4>1 DEF AwaitedResponseIsPrivate, ReaderAt
    <3> QED BY <2>5, <3>1, <3>2 DEF Scan
  <2>6. CASE \/ ScanFails \/ Fill \/ AwaitRetired \/ Publish \/ PublishEnded
             \/ ReaderCancels \/ ReaderCloses
    <3>1. reader'.pc # "publish"
      BY <2>1, <2>6, ReaderMoves
      DEF ScanFails, Fill, AwaitRetired, Publish, PublishEnded, ReaderCancels, ReaderCloses,
          ReaderAtRest
    <3> QED BY <3>1 DEF AwaitedResponseIsPrivate, ReaderAt
  <2>7. ReaderStep \/ UNCHANGED reader
    BY <1>2 DEF Next, vars, CallerStep, CallerMay, CallerFrame, WorkerStep, StopStreams,
       CloserStep, CloserMay, CloserFrame, DeviceStep
  <2> QED BY <2>2, <2>3, <2>4, <2>5, <2>6, <2>7 DEF ReaderStep
<1> QED BY <1>1, <1>2, Invariant, PTL DEF Spec
-----------------------------------------------------------------------------
\* The reader that hands an outcome over, and waits for it to be processed,
\* while the connection lives: the worker has that very command in hand, and
\* goes on to take the outcome or to end the connection, or is done with it.
\* A timeout that races the answer is among these cases (conn.go:405-442,
\* 601-640).
Has(c) == Current = c /\ worker.pc \in {"write", "written", "wait", "clear", "cancel"}
ReaderIsAttended ==
  ~Done =>
    /\ ReaderAt("fill") => Has(reader.target)
    /\ ReaderAt("processed") =>
         \/ Has(reader.target) /\ outcome[reader.target] # None
         \/ Current = reader.target /\ worker.pc \in {"finish", "retire"}
         \/ processed[reader.target]

LEMMA AttendedByWorker ==
  ASSUME IInv, ReaderIsAttended, WorkerStep, Done => Done'
  PROVE  ReaderIsAttended'
<1>1. SUFFICES ASSUME ~Done, ~Done'
               PROVE  ReaderIsAttended'
  BY DEF ReaderIsAttended
<1>2. UNCHANGED reader
  BY DEF WorkerStep
<1>3. /\ worker \in WorkerStates /\ reader \in ReaderStates
      /\ processed \in [Callers -> BOOLEAN] /\ None \notin Callers
      /\ reader.pc \in {"fill", "processed"} => reader.target \in Callers
  BY NoneAssumption DEF IInv, Connection, TypeOK, Handshake, ReaderCarries
<1>4. Done' <=> cause' # None
  BY DEF Done
<1> USE <1>1, <1>2, <1>3, WorkerMoves DEF ReaderIsAttended, Has, ReaderAt, WorkerAt, Current
<1>5. CASE RefuseCancelled \/ Install
  BY <1>5 DEF RefuseCancelled, Install
<1>6. CASE Transmit \/ FailWrite \/ ResetDeadline \/ TimeOut \/ WorkerClears
  BY <1>6 DEF Transmit, FailWrite, ResetDeadline, TimeOut, WorkerClears, slots
<1>7. CASE TakeOutcome
  <2>1. /\ outcome[Current] # None /\ worker'.pc = "finish" /\ worker'.request = Current
        /\ UNCHANGED processed
    BY <1>7 DEF TakeOutcome, WorkerStates
  <2>2. ReaderAt("fill") => outcome[reader.target] = None
    BY DEF IInv, Connection, Handshake, OutcomesAwaited, WaitsFor
  <2> QED BY <2>1, <2>2
<1>8. CASE Finish
  BY <1>8 DEF Finish
<1>9. CASE Retire
  <2>1. \A c \in Callers : processed'[c] = IF c = Current THEN TRUE ELSE processed[c]
    BY <1>9 DEF Retire
  <2> QED BY <1>9, <2>1 DEF Retire
<1>10. CASE WorkerExit \/ RefuseEnded \/ StopWaiting \/ WorkerCloses
  BY <1>10 DEF WorkerExit, RefuseEnded, StopWaiting, WorkerCloses, IInv, Connection,
     EndingInOrder
<1>11. CASE WorkerCancels
  BY <1>4, <1>11 DEF WorkerCancels, Cancel, IInv, Connection, EndingInOrder
<1> QED
  BY <1>5, <1>6, <1>7, <1>8, <1>9, <1>10, <1>11 DEF WorkerStep

LEMMA AttendedByReader ==
  ASSUME IInv, ReaderIsAttended, ReaderStep, Done => Done'
  PROVE  ReaderIsAttended'
<1>1. SUFFICES ASSUME ~Done, ~Done'
               PROVE  ReaderIsAttended'
  BY DEF ReaderIsAttended
<1>2. UNCHANGED <<worker, processed>>
  BY DEF ReaderStep
<1>3. /\ reader \in ReaderStates /\ ReaderCarries /\ None \notin Outcomes
      /\ pending # None => Has(pending)
      /\ outcome \in [Callers -> Outcomes \cup {None}]
  BY NoneAssumption DEF IInv, Connection, TypeOK, Handshake, CommandsOwed, SlotInUse, Has
<1>4. CASE Route
  <2>1. CASE reader' = [reader EXCEPT !.pc = "fill", !.target = pending]
             /\ pending # None
    <3>1. reader'.pc = "fill" /\ reader'.target = pending
      BY <1>3, <2>1 DEF ReaderStates
    <3> QED BY <1>2, <1>3, <2>1, <3>1 DEF ReaderIsAttended, ReaderAt, Has, Current
  <2>2. CASE ReaderFails("correlation")
             \/ reader' = [reader EXCEPT !.pc = "publish", !.target = pending]
    <3>1. reader'.pc \in {"cancel", "publish"}
      BY <1>3, <2>2, ReaderMoves DEF ReaderStates
    <3> QED BY <3>1 DEF ReaderIsAttended, ReaderAt
  <2> QED BY <1>4, <2>1, <2>2 DEF Route
<1>5. CASE Fill
  <2>1. reader.target \in Callers /\ reader.frame \in Frames
        /\ reader'.pc = "processed" /\ reader'.target = reader.target
    BY <1>3, <1>5, ReaderMoves DEF Fill, ReaderCarries, ReaderAt
  <2>2. Failed \in Outcomes
    BY DEF Failed, Outcomes, CallerOrNone
  <2>3. Message.payload = "response" => Decoded(Message, reader.answers) \in Outcomes
    BY <1>3, <1>5, <2>1, MessageTypes, NamesAssumption
    DEF Fill, Message, ReaderCarries, ReaderStates, Decoded, Outcomes
  <2>4. outcome'[reader.target] # None
    BY <1>3, <1>5, <2>1, <2>2, <2>3 DEF Fill
  <2>5. Has(reader.target)
    BY <1>1, <1>5 DEF ReaderIsAttended, Fill
  <2> QED BY <1>2, <2>1, <2>4, <2>5 DEF ReaderIsAttended, ReaderAt, Has, Current
<1>6. CASE Scan
  <2>1. CASE NextFrame \/ ReaderFails("read")
    BY <1>3, <2>1, ReaderMoves DEF ReaderIsAttended, ReaderAt
  <2>2. CASE reader' = [reader EXCEPT !.pc = "route", !.frame = Head(inbound).frame,
                                      !.answers = Head(inbound).answers]
    <3>1. reader'.pc = "route"
      BY <1>3, <2>2 DEF ReaderStates
    <3> QED BY <3>1 DEF ReaderIsAttended, ReaderAt
  <2> QED BY <1>6, <2>1, <2>2 DEF Scan
<1>7. CASE \/ ScanFails \/ AwaitRetired \/ AwaitEnded \/ Publish \/ PublishEnded
           \/ ReaderCancels \/ ReaderCloses
  <2>1. reader'.pc \notin {"fill", "processed"}
    BY <1>3, <1>7, ReaderMoves
    DEF ScanFails, AwaitRetired, AwaitEnded, Publish, PublishEnded, ReaderCancels,
        ReaderCloses, ReaderAtRest
  <2> QED BY <2>1 DEF ReaderIsAttended, ReaderAt
<1> QED BY <1>4, <1>5, <1>6, <1>7 DEF ReaderStep

\* The reader is never stranded with an outcome: what it waits for, some other
\* goroutine is about to do.  This is the safety that ReaderGetsBack rests on.
THEOREM ReaderIsNeverStranded == Spec => []ReaderIsAttended
<1>1. Init => ReaderIsAttended
  BY DEF Init, ReaderAtRest, ReaderIsAttended, ReaderAt
<1>2. ASSUME IInv, ReaderIsAttended, [Next]_vars
      PROVE  ReaderIsAttended'
  <2>1. Done => Done'
    BY <1>2, DoneForGood DEF Done
  <2>2. CASE WorkerStep
    BY <1>2, <2>1, <2>2, AttendedByWorker
  <2>3. CASE ReaderStep
    BY <1>2, <2>1, <2>3, AttendedByReader
  <2>4. CASE UNCHANGED <<worker, reader, outcome, processed>>
    BY <1>2, <2>1, <2>4 DEF ReaderIsAttended, ReaderAt, Has, Current
  <2>5. ASSUME NEW c \in Callers, CallerStep(c) \/ CallerMay(c)
        PROVE  ReaderIsAttended'
    <3>1. /\ UNCHANGED <<reader, outcome, processed>>
          /\ worker' = worker \/ HandOver(c)
      BY <2>5 DEF CallerStep, CallerMay, CallerFrame, Call, EndContext, Withdraw, Receive,
         Abandon
    <3>2. CASE worker' = worker
      BY <2>4, <3>1, <3>2
    <3>3. CASE HandOver(c)
      <4>1. worker.pc = "select" /\ ~Done
        BY <3>3 DEF HandOver
      <4> QED BY <1>2, <2>1, <3>1, <4>1 DEF ReaderIsAttended, ReaderAt, Has
    <3> QED BY <3>1, <3>2, <3>3
  <2>6. \/ WorkerStep \/ ReaderStep \/ UNCHANGED <<worker, reader, outcome, processed>>
        \/ \E c \in Callers : CallerStep(c) \/ CallerMay(c)
    BY <1>2 DEF Next, vars, slots, StopStreams, CloserStep, CloserMay, CloserFrame,
       DeviceStep
  <2> QED BY <2>2, <2>3, <2>4, <2>5, <2>6
<1> QED BY <1>1, <1>2, Invariant, PTL DEF Spec
=============================================================================
