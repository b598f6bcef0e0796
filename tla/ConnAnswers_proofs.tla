------------------------- MODULE ConnAnswers_proofs -------------------------
(* Proofs about answers: with a device that answers what it was asked, once, *)
(* a call returns the answer to that very call.  The protocol carries no     *)
(* request number, so it is the order of things that makes this true.        *)
EXTENDS Conn_proofs, SequenceTheorems

\* The device sends no response nobody asked for.
Honest == \A frame \in Noise : ~SaysResponse(decodeMessage(frame))
-----------------------------------------------------------------------------
(* The inductive invariant.                                                *)

\* Where the worker is while something of c's command may be abroad: with it,
\* or gone with the connection.
Gone(c) ==
  \/ Current = c /\ worker.pc \in {"clear", "cancel", "close"}
  \/ Done /\ worker.pc \in {"select", "exited"}
Attends(c) == (Current = c /\ worker.pc \in {"written", "wait"}) \/ Gone(c)

\* The four places of a command on its way: at the device, and its answer in
\* the socket, in the reader's hands or in its outcome channel.
Carried(c) == reader.pc \in {"route", "fill"} /\ reader.answers = c
Coming(c) == \E i \in 1 .. Len(inbound) : inbound[i].answers = c

Abroad(c) == c \in requests \/ Coming(c) \/ Carried(c) \/ outcome[c] # None

\* Nothing is abroad but what the worker attends to.
AbroadIsAttended == \A c \in Callers : Abroad(c) => Attends(c)

\* And it is in one place only.
OncePerCommand ==
  /\ \A c \in Callers :
       /\ c \in requests => ~Coming(c) /\ ~Carried(c) /\ outcome[c] = None
       /\ Coming(c) => ~Carried(c) /\ outcome[c] = None
       /\ Carried(c) => outcome[c] = None
  /\ \A i, j \in 1 .. Len(inbound) :
       inbound[i].answers = inbound[j].answers /\ inbound[i].answers # None => i = j

\* Every response answers somebody.
ResponsesAnswer ==
  /\ \A i \in 1 .. Len(inbound) :
       inbound[i].answers = None => inbound[i].frame \in Noise
  /\ ReaderAt("route") /\ reader.answers = None => reader.frame \in Noise
  /\ ReaderAt("fill") => reader.answers = reader.target

\* The slot is there as long as the worker waits, and a response that found it
\* empty came too late.
SlotIsThere == worker.pc \in {"write", "written", "wait"} => pending = Current
LateIsGone ==
  ReaderAt("publish") /\ Message.payload = "response" => 
    reader.answers \in Callers /\ Gone(reader.answers)

\* Answers that arrived.
AnswersCall(c, res) == res.kind \in {"accepted", "rejected"} => res.answers = c
OwnAnswersOnly ==
  /\ \A c \in Callers :
       /\ complete[c] # None => AnswersCall(c, complete[c])
       /\ result[c] # None => AnswersCall(c, result[c])
       /\ outcome[c] # None /\ ~outcome[c].failed => outcome[c].answers = c
  /\ WorkerAt("finish") /\ ~worker.got.failed => worker.got.answers = Current

Correlation ==
  /\ AbroadIsAttended /\ OncePerCommand /\ ResponsesAnswer /\ SlotIsThere
  /\ LateIsGone /\ OwnAnswersOnly
-----------------------------------------------------------------------------
(* Where the worker is.                                                    *)

\* What every step needs of the first invariant.
LEMMA Basics ==
  ASSUME IInv
  PROVE  /\ TypeOK /\ worker \in WorkerStates /\ reader \in ReaderStates
         /\ None \notin Callers
         /\ worker.pc = "close" => Done
         /\ Current \in Callers \cup {None}
         /\ worker.pc \notin {"select", "exited"} <=> Current # None
         /\ pending # None => worker.pc \in {"write", "written", "wait", "clear"}
         /\ pending \in {None, Current}
BY NoneAssumption
DEF IInv, Connection, TypeOK, EndingInOrder, CommandsOwed, SlotInUse, WorkerStates,
    CallerOrNone, Current

\* Where the worker attends to nobody, nothing is abroad.
LEMMA NothingAbroad ==
  ASSUME Correlation,
         \/ worker.pc \in {"received", "write", "finish", "retire"}
         \/ worker.pc \in {"select", "exited"} /\ ~Done
  PROVE  /\ \A c \in Callers : ~Attends(c) /\ ~Gone(c) /\ ~Abroad(c)
         /\ ~(ReaderAt("publish") /\ Message.payload = "response")
<1>1. \A c \in Callers : ~Attends(c) /\ ~Gone(c)
  BY DEF Attends, Gone
<1> QED BY <1>1 DEF Correlation, AbroadIsAttended, LateIsGone

\* A step that neither sends nor receives for a command goes on attending it.
LEMMA WorkerAttends ==
  ASSUME IInv, WorkerStep, ~Transmit, ~TakeOutcome, Done => Done', NEW c \in Callers
  PROVE  (Attends(c) => Attends(c)') /\ (Gone(c) => Gone(c)')
<1>1. /\ worker \in WorkerStates /\ None \notin Callers
      /\ worker.pc = "close" => Done
  BY Basics
<1> USE <1>1, WorkerMoves DEF Attends, Gone, WorkerAt, Current
<1>2. CASE WorkerExit
  BY <1>2 DEF WorkerExit
<1>3. CASE RefuseEnded \/ RefuseCancelled \/ Install \/ FailWrite \/ Finish \/ Retire
  BY <1>3 DEF RefuseEnded, RefuseCancelled, Install, FailWrite, Finish, Retire
<1>4. CASE ResetDeadline
  BY <1>4 DEF ResetDeadline
<1>5. CASE StopWaiting
  BY <1>5 DEF StopWaiting
<1>6. CASE TimeOut
  BY <1>6 DEF TimeOut
<1>7. CASE WorkerClears \/ WorkerCancels
  BY <1>7 DEF WorkerClears, WorkerCancels
<1>8. CASE WorkerCloses
  BY <1>8 DEF WorkerCloses
<1> QED
  BY <1>2, <1>3, <1>4, <1>5, <1>6, <1>7, <1>8 DEF WorkerStep

\* As long as nothing moves, all of it is kept.
LEMMA PlacesKept ==
  ASSUME Correlation, UNCHANGED <<requests, inbound, outcome, reader>>,
         \A c \in Callers : (Attends(c) => Attends(c)') /\ (Gone(c) => Gone(c)')
  PROVE  AbroadIsAttended' /\ OncePerCommand' /\ ResponsesAnswer' /\ LateIsGone'
<1>1. \A c : Coming(c)' = Coming(c) /\ Carried(c)' = Carried(c)
  BY DEF Coming, Carried
<1>2. AbroadIsAttended' /\ OncePerCommand'
  BY <1>1 DEF Correlation, AbroadIsAttended, OncePerCommand, Abroad
<1>3. ResponsesAnswer'
  BY DEF Correlation, ResponsesAnswer, ReaderAt
<1>4. LateIsGone'
  BY DEF Correlation, LateIsGone, ReaderAt, Message
<1> QED BY <1>2, <1>3, <1>4

LEMMA WorkerKeepsAttending ==
  ASSUME worker' = worker, Done => Done', NEW c \in Callers
  PROVE  (Attends(c) => Attends(c)') /\ (Gone(c) => Gone(c)')
BY DEF Attends, Gone, Current
-----------------------------------------------------------------------------
(* Callers and the worker.                                                 *)

LEMMA CorrelationByCaller ==
  ASSUME IInv, Correlation, [Next]_vars, NEW c \in Callers, CallerStep(c) \/ CallerMay(c)
  PROVE  Correlation'
<1>0. CallerFrame
  BY DEF CallerStep, CallerMay
<1>1. /\ worker \in WorkerStates /\ TypeOK /\ None \notin Callers
      /\ Done => Done'
  BY Basics, DoneForGood DEF Done
<1>2. UNCHANGED <<requests, inbound, outcome, reader, pending>>
  BY <1>0 DEF CallerFrame, device
<1>3. /\ \A d \in Callers : (Attends(d) => Attends(d)') /\ (Gone(d) => Gone(d)')
      /\ SlotIsThere' /\ (WorkerAt("finish")' => worker' = worker)
  <2>1. CASE HandOver(c)
    <3>1. worker.pc = "select" /\ ~Done /\ worker'.pc = "received"
      BY <1>1, <2>1 DEF HandOver, WorkerStates
    <3>2. \A d \in Callers : ~Attends(d) /\ ~Gone(d)
      BY <3>1, NothingAbroad
    <3> QED BY <3>1, <3>2 DEF SlotIsThere, WorkerAt
  <2>2. CASE UNCHANGED worker
    BY <1>1, <1>2, <2>2, WorkerKeepsAttending DEF Correlation, SlotIsThere, Current
  <2> QED
    BY <2>1, <2>2 DEF CallerStep, CallerMay, Call, EndContext, Withdraw, Receive, Abandon
<1>4. OwnAnswersOnly'
  <2>1. \A d \in Callers :
          /\ complete'[d] # None => complete'[d] = complete[d]
          /\ result'[d] # None =>
               \/ result'[d] = result[d]
               \/ result'[d] \in {Ended, Cancelled}
               \/ complete[d] # None /\ result'[d] = complete[d]
    BY <1>1 DEF CallerStep, CallerMay, Call, EndContext, HandOver, Withdraw, Receive,
       Abandon, Returns, TypeOK
  <2>2. \A d \in Callers : AnswersCall(d, Ended) /\ AnswersCall(d, Cancelled)
    BY DEF AnswersCall, Ended, Cancelled, Failure
  <2>3. \A d \in Callers :
          /\ complete'[d] # None => AnswersCall(d, complete'[d])
          /\ result'[d] # None => AnswersCall(d, result'[d])
    BY <2>1, <2>2 DEF Correlation, OwnAnswersOnly
  <2>4. \A d \in Callers : \A res : AnswersCall(d, res)' = AnswersCall(d, res)
    BY DEF AnswersCall
  <2> QED
    BY <1>2, <1>3, <2>3 DEF Correlation, OwnAnswersOnly, WorkerAt, Current, AnswersCall
<1> QED BY <1>2, <1>3, <1>4, PlacesKept DEF Correlation

LEMMA ResultsAnswer ==
  ASSUME NEW c \in Callers, NEW got, ~got.failed => got.answers = c
  PROVE  /\ AnswersCall(c, ResultOf(c, got))
         /\ AnswersCall(c, Ended) /\ AnswersCall(c, Cancelled)
BY DEF AnswersCall, ResultOf, Ended, Cancelled, Failure, Success

\* What the worker answers is an end, a cancellation or the outcome it took.
LEMMA AnswersByWorkerAreOwn ==
  ASSUME IInv, Correlation, WorkerStep
  PROVE  OwnAnswersOnly'
<1>0. UNCHANGED <<result, caller>> /\ UNCHANGED calls
  BY DEF WorkerStep, calls
<1>1. /\ worker \in WorkerStates /\ TypeOK /\ OwnAnswersOnly
      /\ Owes => Current \in Callers
      /\ None \notin Callers
  BY Basics DEF Correlation, Owes, TypeOK, WorkerStates, CallerOrNone, Current
<1>2. CASE TakeOutcome
  <2>1. /\ Current \in Callers /\ Current' = Current
        /\ worker'.got = outcome[Current] /\ outcome[Current] # None
        /\ \A c \in Callers : outcome'[c] # None => outcome'[c] = outcome[c]
        /\ UNCHANGED complete
    BY <1>1, <1>2 DEF TakeOutcome, WorkerAt, Owes, Current, WorkerStates, TypeOK
  <2> QED BY <1>0, <1>1, <2>1 DEF OwnAnswersOnly, AnswersCall
<1>3. CASE UNCHANGED outcome /\ UNCHANGED complete /\ worker'.pc # "finish"
  BY <1>0, <1>1, <1>3 DEF OwnAnswersOnly, AnswersCall, WorkerAt
<1>4. ASSUME Owes, UNCHANGED outcome, worker'.pc # "finish",
             NEW res, Answer(res), AnswersCall(Current, res)
      PROVE  OwnAnswersOnly'
  <2>1. \A c \in Callers : complete'[c] = IF c = Current THEN res ELSE complete[c]
    BY <1>1, <1>4 DEF Answer, TypeOK
  <2> QED BY <1>0, <1>1, <1>4, <2>1 DEF OwnAnswersOnly, AnswersCall, WorkerAt
<1>5. Owes => AnswersCall(Current, Ended) /\ AnswersCall(Current, Cancelled)
  BY <1>1 DEF AnswersCall, Ended, Cancelled, Failure
<1>6. CASE RefuseEnded \/ StopWaiting \/ WorkerCloses
  <2>1. Owes /\ UNCHANGED outcome /\ worker'.pc # "finish"
    BY <1>1, <1>6, WorkerMoves DEF RefuseEnded, StopWaiting, WorkerCloses, WorkerAt, Owes
  <2>2. Answer(Ended)
    BY <1>6 DEF RefuseEnded, StopWaiting, WorkerCloses
  <2> QED BY <1>4, <1>5, <2>1, <2>2
<1>7. CASE RefuseCancelled
  <2>1. Owes /\ UNCHANGED outcome /\ worker'.pc # "finish" /\ Answer(Cancelled)
    BY <1>1, <1>7, WorkerMoves DEF RefuseCancelled, WorkerAt, Owes
  <2> QED BY <1>4, <1>5, <2>1
<1>8. CASE Finish
  <2>1. /\ Owes /\ UNCHANGED outcome /\ worker'.pc # "finish"
        /\ Answer(ResultOf(Current, worker.got))
        /\ ~worker.got.failed => worker.got.answers = Current
    BY <1>1, <1>8, WorkerMoves DEF Finish, WorkerAt, Owes, OwnAnswersOnly
  <2> QED BY <1>1, <1>4, <2>1, ResultsAnswer
<1>9. CASE \/ WorkerExit \/ Install \/ Transmit \/ FailWrite \/ ResetDeadline
           \/ Retire \/ TimeOut \/ WorkerClears \/ WorkerCancels
  <2>1. worker'.pc # "finish"
    BY <1>1, <1>9, WorkerMoves DEF WorkerExit, Install, Transmit, FailWrite, ResetDeadline,
       Retire, TimeOut, WorkerClears, WorkerCancels
  <2>2. UNCHANGED outcome /\ UNCHANGED complete
    BY <1>9 DEF WorkerExit, Install, Transmit, FailWrite, ResetDeadline, Retire, TimeOut,
       WorkerClears, WorkerCancels, slots
  <2> QED BY <1>3, <2>1, <2>2
<1> QED BY <1>2, <1>6, <1>7, <1>8, <1>9 DEF WorkerStep

\* The slot is filled before the write and emptied with the wait's end.
LEMMA SlotByWorker ==
  ASSUME IInv, SlotIsThere, WorkerStep
  PROVE  SlotIsThere'
<1>1. worker \in WorkerStates
  BY Basics
<1> USE <1>1, WorkerMoves DEF SlotIsThere, WorkerAt, Current
<1>2. CASE Install
  BY <1>2 DEF Install
<1>3. CASE Transmit \/ ResetDeadline \/ TimeOut \/ FailWrite
  BY <1>3 DEF Transmit, ResetDeadline, TimeOut, FailWrite, slots
<1>4. CASE TakeOutcome
  <2>1. worker'.pc = "finish"
    BY <1>4 DEF TakeOutcome, WorkerStates
  <2> QED BY <2>1
<1>5. CASE \/ WorkerExit \/ RefuseEnded \/ RefuseCancelled \/ Finish \/ Retire
           \/ StopWaiting \/ WorkerClears \/ WorkerCancels \/ WorkerCloses
  <2>1. worker'.pc \notin {"write", "written", "wait"}
    BY <1>5 DEF WorkerExit, RefuseEnded, RefuseCancelled, Finish, Retire, StopWaiting,
       WorkerClears, WorkerCancels, WorkerCloses
  <2> QED BY <2>1
<1> QED BY <1>2, <1>3, <1>4, <1>5 DEF WorkerStep

LEMMA CorrelationByWorker ==
  ASSUME IInv, Correlation, [Next]_vars, WorkerStep
  PROVE  Correlation'
<1>0. UNCHANGED <<inbound, reader>>
  BY DEF WorkerStep
<1>1. /\ worker \in WorkerStates /\ None \notin Callers /\ TypeOK
      /\ Done => Done'
      /\ \A c : Coming(c)' = Coming(c) /\ Carried(c)' = Carried(c)
  BY <1>0, Basics, DoneForGood DEF Done, Coming, Carried
<1>2. OwnAnswersOnly' /\ SlotIsThere'
  BY AnswersByWorkerAreOwn, SlotByWorker DEF Correlation
<1>3. ResponsesAnswer'
  BY <1>0 DEF Correlation, ResponsesAnswer, ReaderAt
<1>4. CASE Transmit
  <2>1. /\ worker.pc = "write" /\ worker'.pc = "written" /\ Current' = Current
        /\ requests' \in {requests, requests \cup {Current}} /\ UNCHANGED outcome
    BY <1>1, <1>4, WorkerMoves DEF Transmit, WorkerAt, slots, Current
  <2>2. /\ \A c \in Callers : ~Abroad(c)
        /\ ~(ReaderAt("publish") /\ Message.payload = "response")
    BY <2>1, NothingAbroad
  <2>3. AbroadIsAttended' /\ LateIsGone'
    BY <1>0, <1>1, <2>1, <2>2
    DEF AbroadIsAttended, Abroad, Attends, LateIsGone, ReaderAt, Message
  <2>4. OncePerCommand'
    BY <1>0, <1>1, <2>1, <2>2 DEF Correlation, OncePerCommand, Abroad
  <2> QED BY <1>2, <1>3, <2>3, <2>4 DEF Correlation
<1>5. CASE TakeOutcome
  <2>1. /\ worker.pc = "wait" /\ Current \in Callers /\ outcome[Current] # None
        /\ \A c \in Callers : outcome'[c] = IF c = Current THEN None ELSE outcome[c]
        /\ UNCHANGED requests
    BY <1>1, <1>5, Basics DEF TakeOutcome, WorkerAt, TypeOK
  <2>2. \A c \in Callers : Abroad(c) => c = Current
    BY <2>1 DEF Correlation, AbroadIsAttended, Attends, Gone
  <2>3. /\ Current \notin requests /\ ~Coming(Current) /\ ~Carried(Current)
    BY <2>1 DEF Correlation, OncePerCommand
  <2>4. \A c \in Callers : ~Abroad(c)'
    BY <1>1, <2>1, <2>2, <2>3 DEF Abroad
  <2>5. AbroadIsAttended' /\ OncePerCommand'
    BY <1>0, <1>1, <2>1, <2>4 DEF Correlation, AbroadIsAttended, OncePerCommand, Abroad
  <2>6. LateIsGone'
    <3>1. ~(ReaderAt("publish") /\ Message.payload = "response") \/ worker.pc # "wait"
            \/ ~Gone(reader.answers)
      BY <2>1 DEF Gone
    <3> QED BY <1>0, <2>1, <3>1 DEF Correlation, LateIsGone, ReaderAt, Message
  <2> QED BY <1>2, <1>3, <2>5, <2>6 DEF Correlation
<1>6. CASE ~Transmit /\ ~TakeOutcome
  <2>1. UNCHANGED <<requests, outcome>>
    BY <1>6 DEF WorkerStep, WorkerExit, RefuseEnded, RefuseCancelled, Install, FailWrite,
       ResetDeadline, Finish, Retire, StopWaiting, TimeOut, WorkerClears, WorkerCancels,
       WorkerCloses, slots
  <2>2. \A c \in Callers : (Attends(c) => Attends(c)') /\ (Gone(c) => Gone(c)')
    BY <1>1, <1>6, WorkerAttends
  <2> QED BY <1>0, <1>2, <2>1, <2>2, PlacesKept DEF Correlation
<1> QED BY <1>4, <1>5, <1>6
-----------------------------------------------------------------------------
(* The reader.                                                             *)

\* The reader's step is no business of the worker's.
LEMMA OwnByReader ==
  ASSUME Correlation, ReaderStep, Done => Done',
         \A c \in Callers : outcome'[c] # None /\ ~outcome'[c].failed =>
           outcome'[c].answers = c
  PROVE  /\ OwnAnswersOnly' /\ SlotIsThere'
         /\ \A c \in Callers : (Attends(c) => Attends(c)') /\ (Gone(c) => Gone(c)')
<1>1. UNCHANGED <<pending, complete, calls, worker>>
  BY DEF ReaderStep
<1>2. OwnAnswersOnly' /\ SlotIsThere'
  BY <1>1 DEF Correlation, OwnAnswersOnly, SlotIsThere, AnswersCall, WorkerAt, Current, calls
<1> QED BY <1>1, <1>2, WorkerKeepsAttending

\* Scan moves the first answer from the socket into the reader's hands, or
\* drops it.
LEMMA CorrelationByScan ==
  ASSUME IInv, Correlation, Scan, ReaderStep, Done => Done'
  PROVE  Correlation'
<1>1. /\ reader \in ReaderStates /\ TypeOK /\ None \notin Callers
      /\ reader.pc = "scan" /\ UNCHANGED <<requests, outcome>>
      /\ inbound # <<>> /\ inbound' = Tail(inbound)
  BY Basics DEF Scan, ReaderStep, ReaderAt
<1>2. inbound \in Seq([frame : Frames, answers : CallerOrNone])
  BY <1>1 DEF TypeOK
<1>3. /\ Len(inbound) \in Nat \ {0}
      /\ Len(inbound') = Len(inbound) - 1
      /\ \A i \in 1 .. Len(inbound') :
           i + 1 \in 1 .. Len(inbound) /\ inbound'[i] = inbound[i + 1]
      /\ 1 \in 1 .. Len(inbound) /\ Head(inbound) = inbound[1]
  BY <1>1, <1>2
<1>4. /\ OwnAnswersOnly' /\ SlotIsThere'
      /\ \A c \in Callers : (Attends(c) => Attends(c)') /\ (Gone(c) => Gone(c)')
  BY <1>1, OwnByReader DEF Correlation, OwnAnswersOnly
<1>5. \/ reader'.pc \notin {"route", "fill", "publish"}
      \/ /\ reader'.pc = "route" /\ reader'.frame = inbound[1].frame
         /\ reader'.answers = inbound[1].answers
  <2>1. CASE NextFrame \/ ReaderFails("read")
    BY <1>1, <2>1, ReaderMoves
  <2>2. CASE reader' = [reader EXCEPT !.pc = "route", !.frame = Head(inbound).frame,
                                      !.answers = Head(inbound).answers]
    BY <1>1, <1>3, <2>2 DEF ReaderStates
  <2> QED BY <2>1, <2>2 DEF Scan
<1>6. \A c \in Callers : /\ Coming(c)' => Coming(c)
                         /\ Carried(c)' => Coming(c) /\ ~Coming(c)'
  <2>1. SUFFICES ASSUME NEW c \in Callers
                 PROVE  /\ Coming(c)' => Coming(c)
                        /\ Carried(c)' => Coming(c) /\ ~Coming(c)'
    OBVIOUS
  <2>2. Coming(c)' => Coming(c)
    BY <1>3 DEF Coming
  <2>3. Carried(c)' => inbound[1].answers = c /\ Coming(c)
    BY <1>3, <1>5 DEF Carried, Coming
  <2>4. ASSUME Carried(c)', NEW i \in 1 .. Len(inbound'), inbound'[i].answers = c
        PROVE  FALSE
    <3>1. i + 1 = 1
      BY <1>1, <1>3, <2>3, <2>4 DEF Correlation, OncePerCommand
    <3> QED BY <1>3, <3>1
  <2> QED BY <2>2, <2>3, <2>4 DEF Coming
<1>7. AbroadIsAttended'
  BY <1>1, <1>4, <1>6 DEF Correlation, AbroadIsAttended, Abroad
<1>8. OncePerCommand'
  <2>1. \A c \in Callers :
          /\ c \in requests' => ~Coming(c)' /\ ~Carried(c)' /\ outcome'[c] = None
          /\ Coming(c)' => ~Carried(c)' /\ outcome'[c] = None
          /\ Carried(c)' => outcome'[c] = None
    BY <1>1, <1>6 DEF Correlation, OncePerCommand
  <2>2. ASSUME NEW i \in 1 .. Len(inbound'), NEW j \in 1 .. Len(inbound'),
               inbound'[i].answers = inbound'[j].answers, inbound'[i].answers # None
        PROVE  i = j
    <3>1. i + 1 = j + 1
      BY <1>3, <2>2 DEF Correlation, OncePerCommand
    <3> QED BY <1>3, <3>1
  <2> QED BY <2>1, <2>2 DEF OncePerCommand
<1>9. ResponsesAnswer'
  <2>1. \A i \in 1 .. Len(inbound') :
          inbound'[i].answers = None => inbound'[i].frame \in Noise
    BY <1>3 DEF Correlation, ResponsesAnswer
  <2>2. reader'.pc = "route" /\ reader'.answers = None => reader'.frame \in Noise
    BY <1>3, <1>5 DEF Correlation, ResponsesAnswer
  <2>3. reader'.pc # "fill"
    BY <1>5
  <2> QED BY <2>1, <2>2, <2>3 DEF ResponsesAnswer, ReaderAt
<1>10. LateIsGone'
  BY <1>5 DEF LateIsGone, ReaderAt
<1> QED BY <1>4, <1>7, <1>8, <1>9, <1>10 DEF Correlation

\* A response in the reader's hands is the answer to the command in the slot, or
\* too late for any.
LEMMA RoutedIsAwaited ==
  ASSUME Honest, IInv, Correlation, ReaderAt("route"), SaysResponse(Message)
  PROVE  /\ reader.answers \in Callers
         /\ pending # None => pending = reader.answers
         /\ pending = None => Gone(reader.answers)
<1>1. reader.answers \in CallerOrNone
  BY Basics DEF ReaderStates
<1>2. reader.answers \in Callers
  BY <1>1 DEF Honest, Correlation, ResponsesAnswer, Message, CallerOrNone
<1>3. Attends(reader.answers)
  BY <1>2 DEF Correlation, AbroadIsAttended, Abroad, Carried, ReaderAt
<1> QED
  BY <1>2, <1>3, Basics DEF Attends, Gone, Correlation, SlotIsThere, Current

\* Any other step of the reader carries nothing new.
LEMMA PlacesByReader ==
  ASSUME Correlation, Done => Done',
         UNCHANGED <<requests, inbound, outcome, worker>>,
         \A c \in Callers : Carried(c)' => Carried(c)
  PROVE  AbroadIsAttended' /\ OncePerCommand'
<1>1. \A c : Coming(c)' = Coming(c)
  BY DEF Coming
<1>2. \A c \in Callers : Attends(c) => Attends(c)'
  BY WorkerKeepsAttending
<1> QED
  BY <1>1, <1>2 DEF Correlation, AbroadIsAttended, OncePerCommand, Abroad

LEMMA CorrelationByRoute ==
  ASSUME Honest, IInv, Correlation, Route, ReaderStep, Done => Done'
  PROVE  Correlation'
<1>1. /\ reader \in ReaderStates /\ None \notin Callers /\ reader.pc = "route"
      /\ UNCHANGED <<requests, inbound, outcome, worker>>
  BY Basics DEF Route, ReaderStep, ReaderAt
<1>2. /\ OwnAnswersOnly' /\ SlotIsThere'
      /\ \A c \in Callers : (Attends(c) => Attends(c)') /\ (Gone(c) => Gone(c)')
  BY <1>1, OwnByReader DEF Correlation, OwnAnswersOnly
<1>3. \A i \in 1 .. Len(inbound') :
        inbound'[i].answers = None => inbound'[i].frame \in Noise
  BY <1>1 DEF Correlation, ResponsesAnswer
<1>4. /\ \A c \in Callers : Carried(c)' => Carried(c)
      /\ ResponsesAnswer' /\ LateIsGone'
  <2>1. CASE /\ reader' = [reader EXCEPT !.pc = "publish", !.target = pending]
             /\ ~(SaysResponse(Message) /\ pending # None)
    <3>1. /\ reader'.pc = "publish" /\ reader'.frame = reader.frame
          /\ reader'.answers = reader.answers
      BY <1>1, <2>1 DEF ReaderStates
    <3>2. Message' = Message
      BY <3>1 DEF Message
    <3>3. Message.payload = "response" =>
            reader.answers \in Callers /\ Gone(reader.answers)
      BY <1>1, <2>1, RoutedIsAwaited DEF SaysResponse, ReaderAt
    <3>4. LateIsGone'
      <4>1. \A c \in Callers : Gone(c) => Gone(c)'
        BY <1>2
      <4>2. \A c \in Callers : reader'.answers = c => (Gone(c)' => Gone(reader.answers)')
        BY <3>1
      <4> QED BY <1>1, <3>1, <3>2, <3>3, <4>1, <4>2 DEF LateIsGone, ReaderAt
    <3> QED BY <1>3, <3>1, <3>4 DEF Carried, ResponsesAnswer, ReaderAt
  <2>2. CASE /\ reader' = [reader EXCEPT !.pc = "fill", !.target = pending]
             /\ SaysResponse(Message) /\ pending # None
    <3>1. /\ reader'.pc = "fill" /\ reader'.target = pending
          /\ reader'.answers = reader.answers
      BY <1>1, <2>2 DEF ReaderStates
    <3>2. pending = reader.answers
      BY <1>1, <2>2, RoutedIsAwaited DEF ReaderAt
    <3> QED
      BY <1>1, <1>3, <3>1, <3>2 DEF Carried, ResponsesAnswer, LateIsGone, ReaderAt
  <2>3. CASE ReaderFails("correlation")
    <3>1. reader'.pc = "cancel"
      BY <1>1, <2>3, ReaderMoves
    <3> QED BY <1>3, <3>1 DEF Carried, ResponsesAnswer, LateIsGone, ReaderAt
  <2> QED BY <2>1, <2>2, <2>3 DEF Route
<1> QED BY <1>1, <1>2, <1>4, PlacesByReader DEF Correlation

LEMMA CorrelationByFill ==
  ASSUME IInv, Correlation, Fill, ReaderStep, Done => Done'
  PROVE  Correlation'
<1> DEFINE c == reader.target
           filled == IF Message.payload = "response"
                     THEN Decoded(Message, reader.answers) ELSE Failed
<1>1. /\ reader \in ReaderStates /\ TypeOK /\ None \notin Callers
      /\ reader.pc = "fill" /\ c \in Callers /\ reader.answers = c /\ reader'.pc = "processed"
      /\ UNCHANGED <<requests, inbound, worker>>
  BY Basics, ReaderMoves
  DEF Fill, ReaderStep, ReaderAt, Correlation, ResponsesAnswer, IInv, Connection, Handshake,
      ReaderCarries
<1>2. /\ outcome[c] = None
      /\ \A d \in Callers : outcome'[d] = IF d = c THEN filled ELSE outcome[d]
  BY <1>1 DEF Fill, TypeOK
<1>3. ~filled.failed => filled.answers = c
  BY <1>1 DEF Decoded, Failed
<1> HIDE DEF filled
<1>4. /\ OwnAnswersOnly' /\ SlotIsThere'
      /\ \A d \in Callers : (Attends(d) => Attends(d)') /\ (Gone(d) => Gone(d)')
  <2>1. \A d \in Callers : outcome'[d] # None /\ ~outcome'[d].failed =>
          outcome'[d].answers = d
    BY <1>2, <1>3 DEF Correlation, OwnAnswersOnly
  <2> QED BY <2>1, OwnByReader
<1>5. /\ \A d : Coming(d)' = Coming(d) /\ ~Carried(d)'
      /\ Carried(c)
  BY <1>1 DEF Coming, Carried
<1>6. AbroadIsAttended'
  BY <1>1, <1>2, <1>4, <1>5 DEF Correlation, AbroadIsAttended, Abroad
<1>7. OncePerCommand'
  BY <1>1, <1>2, <1>5 DEF Correlation, OncePerCommand
<1>8. ResponsesAnswer' /\ LateIsGone'
  BY <1>1 DEF Correlation, ResponsesAnswer, LateIsGone, ReaderAt
<1> QED BY <1>4, <1>6, <1>7, <1>8 DEF Correlation

LEMMA CorrelationByReader ==
  ASSUME Honest, IInv, Correlation, [Next]_vars, ReaderStep
  PROVE  Correlation'
<1>1. Done => Done'
  BY DoneForGood DEF Done
<1>2. CASE Scan
  BY <1>1, <1>2, CorrelationByScan
<1>3. CASE Route
  BY <1>1, <1>3, CorrelationByRoute
<1>4. CASE Fill
  BY <1>1, <1>4, CorrelationByFill
<1>5. CASE \/ ScanFails \/ AwaitRetired \/ AwaitEnded \/ Publish \/ PublishEnded
           \/ ReaderCancels \/ ReaderCloses
  <2>1. reader \in ReaderStates
    BY Basics
  <2>2. UNCHANGED <<requests, inbound, outcome, worker>>
    BY <1>5 DEF ReaderStep, ScanFails, AwaitRetired, AwaitEnded, Publish, PublishEnded,
       ReaderCancels, ReaderCloses
  <2>3. \/ reader'.pc \notin {"route", "fill", "publish"}
        \/ /\ reader'.pc = "publish" /\ reader'.frame = reader.frame
           /\ Message.payload # "response"
    BY <1>5, <2>1, ReaderMoves DEF ScanFails, AwaitRetired, AwaitEnded, Publish,
       PublishEnded, ReaderCancels, ReaderCloses, ReaderAtRest
  <2>4. \A c \in Callers : ~Carried(c)'
    BY <2>3 DEF Carried
  <2>5. ResponsesAnswer' /\ LateIsGone'
    BY <2>2, <2>3 DEF Correlation, ResponsesAnswer, LateIsGone, ReaderAt, Message
  <2>6. OwnAnswersOnly' /\ SlotIsThere'
    BY <1>1, <2>2, OwnByReader DEF Correlation, OwnAnswersOnly
  <2> QED BY <1>1, <2>1, <2>2, <2>4, <2>5, <2>6, PlacesByReader DEF Correlation
<1> QED BY <1>2, <1>3, <1>4, <1>5 DEF ReaderStep
-----------------------------------------------------------------------------
(* The device and the rest.                                                *)

\* One more frame in the socket, behind the others.
LEMMA Sent ==
  ASSUME TypeOK, NEW frame, NEW answers, Send(frame, answers)
  PROVE  /\ Len(inbound) \in Nat /\ Len(inbound') = Len(inbound) + 1
         /\ \A i \in 1 .. Len(inbound) : inbound'[i] = inbound[i]
         /\ inbound'[Len(inbound')].frame = frame
         /\ inbound'[Len(inbound')].answers = answers
         /\ \A i \in 1 .. Len(inbound') : i \in 1 .. Len(inbound) \/ i = Len(inbound')
<1> DEFINE line == [frame |-> frame, answers |-> answers]
<1>1. inbound \in Seq([frame : Frames, answers : CallerOrNone])
      /\ inbound' = Append(inbound, line)
  BY DEF TypeOK, Send
<1> HIDE DEF line
<1>2. /\ Len(inbound) \in Nat /\ Len(inbound') = Len(inbound) + 1
      /\ \A i \in 1 .. Len(inbound) : inbound'[i] = inbound[i]
      /\ inbound'[Len(inbound')] = line
  BY <1>1
<1>3. \A i \in 1 .. Len(inbound') : i \in 1 .. Len(inbound) \/ i = Len(inbound')
  BY <1>2
<1>4. line.frame = frame /\ line.answers = answers
  BY DEF line
<1> QED BY <1>2, <1>3, <1>4

\* The device's answer takes its request along.
LEMMA CorrelationByRespond ==
  ASSUME IInv, Correlation, NEW c \in Callers, Respond(c),
         UNCHANGED <<ending, slots, calls, worker, reader>>
  PROVE  AbroadIsAttended' /\ OncePerCommand' /\ ResponsesAnswer'
<1>1. PICK frame : Send(frame, c)
  BY DEF Respond
<1>2. /\ TypeOK /\ None \notin Callers /\ c \in requests /\ requests' = requests \ {c}
      /\ UNCHANGED <<outcome, worker, reader, cause>>
  BY Basics DEF Respond, slots, ending
<1>3. /\ Len(inbound) \in Nat /\ Len(inbound') = Len(inbound) + 1
      /\ \A i \in 1 .. Len(inbound) : inbound'[i] = inbound[i]
      /\ inbound'[Len(inbound')].answers = c
      /\ \A i \in 1 .. Len(inbound') : i \in 1 .. Len(inbound) \/ i = Len(inbound')
  BY <1>1, <1>2, Sent
<1>4. /\ ~Coming(c) /\ ~Carried(c) /\ outcome[c] = None
      /\ \A d \in Callers : /\ Coming(d)' => Coming(d) \/ d = c
                            /\ Carried(d)' = Carried(d)
                            /\ Attends(d)' = Attends(d)
  <2>1. ~Coming(c) /\ ~Carried(c) /\ outcome[c] = None
    BY <1>2 DEF Correlation, OncePerCommand
  <2>2. \A d \in Callers : Coming(d)' => Coming(d) \/ d = c
    BY <1>3 DEF Coming
  <2>3. \A d \in Callers : Carried(d)' = Carried(d) /\ Attends(d)' = Attends(d)
    BY <1>2 DEF Carried, Attends, Gone, Current, Done
  <2> QED BY <2>1, <2>2, <2>3
<1>5. AbroadIsAttended'
  BY <1>2, <1>4 DEF Correlation, AbroadIsAttended, Abroad
<1>6. OncePerCommand'
  <2>1. \A d \in Callers :
          /\ d \in requests' => ~Coming(d)' /\ ~Carried(d)' /\ outcome'[d] = None
          /\ Coming(d)' => ~Carried(d)' /\ outcome'[d] = None
          /\ Carried(d)' => outcome'[d] = None
    BY <1>2, <1>4 DEF Correlation, OncePerCommand
  <2>2. ASSUME NEW i \in 1 .. Len(inbound'), NEW j \in 1 .. Len(inbound'),
               inbound'[i].answers = inbound'[j].answers, inbound'[i].answers # None
        PROVE  i = j
    <3>1. \A k \in 1 .. Len(inbound) : inbound'[k].answers # c
      BY <1>3, <1>4 DEF Coming
    <3>2. CASE i \in 1 .. Len(inbound) /\ j \in 1 .. Len(inbound)
      BY <1>3, <2>2, <3>2 DEF Correlation, OncePerCommand
    <3> QED BY <1>3, <2>2, <3>1, <3>2
  <2> QED BY <2>1, <2>2 DEF OncePerCommand
<1>7. ResponsesAnswer'
  <2>1. ASSUME NEW i \in 1 .. Len(inbound'), inbound'[i].answers = None
        PROVE  inbound'[i].frame \in Noise
    <3>1. i \in 1 .. Len(inbound)
      BY <1>2, <1>3, <2>1
    <3> QED BY <1>3, <2>1, <3>1 DEF Correlation, ResponsesAnswer
  <2> QED BY <1>2, <2>1 DEF Correlation, ResponsesAnswer, ReaderAt
<1> QED BY <1>5, <1>6, <1>7

LEMMA CorrelationByEmit ==
  ASSUME IInv, Correlation, Emit, UNCHANGED <<ending, slots, calls, worker, reader>>
  PROVE  AbroadIsAttended' /\ OncePerCommand' /\ ResponsesAnswer'
<1>1. PICK frame \in Noise : Send(frame, None)
  BY DEF Emit
<1>2. /\ TypeOK /\ None \notin Callers
      /\ UNCHANGED <<requests, outcome, worker, reader, cause>>
  BY Basics DEF Emit, slots, ending
<1>3. /\ Len(inbound) \in Nat /\ Len(inbound') = Len(inbound) + 1
      /\ \A i \in 1 .. Len(inbound) : inbound'[i] = inbound[i]
      /\ inbound'[Len(inbound')].answers = None
      /\ inbound'[Len(inbound')].frame = frame
      /\ \A i \in 1 .. Len(inbound') : i \in 1 .. Len(inbound) \/ i = Len(inbound')
  BY <1>1, <1>2, Sent
<1>4. \A d \in Callers : /\ Coming(d)' => Coming(d)
                         /\ Carried(d)' = Carried(d)
                         /\ Attends(d)' = Attends(d)
  <2>1. \A d \in Callers : Coming(d)' => Coming(d)
    BY <1>2, <1>3 DEF Coming
  <2>2. \A d \in Callers : Carried(d)' = Carried(d) /\ Attends(d)' = Attends(d)
    BY <1>2 DEF Carried, Attends, Gone, Current, Done
  <2> QED BY <2>1, <2>2
<1>5. AbroadIsAttended'
  BY <1>2, <1>4 DEF Correlation, AbroadIsAttended, Abroad
<1>6. OncePerCommand'
  <2>1. \A d \in Callers :
          /\ d \in requests' => ~Coming(d)' /\ ~Carried(d)' /\ outcome'[d] = None
          /\ Coming(d)' => ~Carried(d)' /\ outcome'[d] = None
          /\ Carried(d)' => outcome'[d] = None
    BY <1>2, <1>4 DEF Correlation, OncePerCommand
  <2>2. ASSUME NEW i \in 1 .. Len(inbound'), NEW j \in 1 .. Len(inbound'),
               inbound'[i].answers = inbound'[j].answers, inbound'[i].answers # None
        PROVE  i = j
    <3>1. i \in 1 .. Len(inbound) /\ j \in 1 .. Len(inbound)
      BY <1>3, <2>2
    <3> QED BY <1>3, <2>2, <3>1 DEF Correlation, OncePerCommand
  <2> QED BY <2>1, <2>2 DEF OncePerCommand
<1>7. ResponsesAnswer'
  <2>1. ASSUME NEW i \in 1 .. Len(inbound'), inbound'[i].answers = None
        PROVE  inbound'[i].frame \in Noise
    <3>1. CASE i \in 1 .. Len(inbound)
      BY <1>3, <2>1, <3>1 DEF Correlation, ResponsesAnswer
    <3> QED BY <1>1, <1>3, <3>1
  <2> QED BY <1>2, <2>1 DEF Correlation, ResponsesAnswer, ReaderAt
<1> QED BY <1>5, <1>6, <1>7

\* Steps that leave the worker, the reader and the slots alone.
LEMMA CorrelationByOthers ==
  ASSUME IInv, Correlation, [Next]_vars,
         StopStreams \/ DeviceStep \/ UNCHANGED vars
           \/ \E k \in Closers : CloserStep(k) \/ CloserMay(k)
  PROVE  Correlation'
<1>1. UNCHANGED <<slots, calls, worker, reader>> /\ (Done => Done')
  BY DoneForGood
  DEF StopStreams, DeviceStep, vars, CloserStep, CloserMay, CloserFrame, Done
<1>2. OwnAnswersOnly' /\ SlotIsThere'
  BY <1>1 DEF Correlation, OwnAnswersOnly, SlotIsThere, AnswersCall, WorkerAt, Current,
     slots, calls
<1>3. \A c \in Callers : (Attends(c) => Attends(c)') /\ (Gone(c) => Gone(c)')
  BY <1>1, WorkerKeepsAttending
<1>4. CASE UNCHANGED <<requests, inbound>>
  BY <1>1, <1>2, <1>3, <1>4, PlacesKept DEF Correlation, slots
<1>5. CASE DeviceStep /\ ~UNCHANGED <<requests, inbound>>
  <2>1. UNCHANGED ending /\ (Emit \/ \E c \in Callers : Respond(c))
    BY <1>5 DEF DeviceStep, Hangup
  <2>2. AbroadIsAttended' /\ OncePerCommand' /\ ResponsesAnswer'
    BY <1>1, <2>1, CorrelationByEmit, CorrelationByRespond
  <2>3. LateIsGone'
    BY <1>1, <1>3 DEF Correlation, LateIsGone, ReaderAt, Message
  <2> QED BY <1>2, <2>2, <2>3 DEF Correlation
<1> QED
  BY <1>4, <1>5 DEF StopStreams, DeviceStep, vars, CloserStep, CloserMay, CloserFrame, device

LEMMA CorrelationInit ==
  ASSUME Init
  PROVE  Correlation
<1>1. \A c \in Callers : ~Abroad(c)
  BY DEF Init, ReaderAtRest, Abroad, Coming, Carried
<1>2. AbroadIsAttended /\ OncePerCommand /\ ResponsesAnswer
  BY <1>1 DEF Init, ReaderAtRest, AbroadIsAttended, OncePerCommand, ResponsesAnswer, Abroad,
     ReaderAt
<1>3. SlotIsThere /\ LateIsGone /\ OwnAnswersOnly
  BY DEF Init, WorkerAtRest, ReaderAtRest, SlotIsThere, LateIsGone, OwnAnswersOnly, ReaderAt,
     WorkerAt
<1> QED BY <1>2, <1>3 DEF Correlation

LEMMA CorrelationStep ==
  ASSUME Honest, IInv, Correlation, [Next]_vars
  PROVE  Correlation'
BY CorrelationByCaller, CorrelationByWorker, CorrelationByReader, CorrelationByOthers
DEF Next

LEMMA CorrelationKept ==
  ASSUME Honest
  PROVE  Spec => [](IInv /\ Correlation)
<1>1. IInv /\ Correlation /\ [Next]_vars => Correlation'
  BY CorrelationStep
<1> QED BY <1>1, CorrelationInit, Invariant, PTL DEF Spec
-----------------------------------------------------------------------------
\* With a device that sends no response nobody asked for, and answers each
\* command once, every response a call returns is the answer to that very call,
\* whoever gave up before and whatever the answers look like.
THEOREM AnswersAreOwn ==
  ASSUME Honest
  PROVE  Spec => []AnswersOwnCall
<1>1. Correlation => AnswersOwnCall
  BY DEF Correlation, OwnAnswersOnly, AnswersCall, AnswersOwnCall
<1> QED BY <1>1, CorrelationKept, PTL

\* A response that finds the slot empty finds it cleared: the worker that gives a
\* command up holds on to the slot until then.
TooLate ==
  /\ WorkerAt("clear") => pending = Current
  /\ ReaderAt("publish") /\ Message.payload = "response" => ~WorkerAt("clear")

LEMMA TooLateByWorker ==
  ASSUME IInv, Correlation, TooLate, WorkerStep
  PROVE  TooLate'
<1>1. /\ worker \in WorkerStates /\ UNCHANGED reader
      /\ UNCHANGED Message
  BY Basics DEF WorkerStep, Message
<1>2. CASE FailWrite \/ ResetDeadline \/ TimeOut
  <2>1. worker.pc \in {"write", "written", "wait"} /\ UNCHANGED pending
    BY <1>2 DEF FailWrite, ResetDeadline, TimeOut, WorkerAt, slots
  <2>2. pending = Current
    BY <2>1 DEF Correlation, SlotIsThere
  <2>3. ~(ReaderAt("publish") /\ Message.payload = "response")
    BY <2>1 DEF Correlation, LateIsGone, Gone
  <2>4. worker'.request = worker.request
    BY <1>1, <1>2, WorkerMoves DEF FailWrite, ResetDeadline, TimeOut
  <2> QED BY <1>1, <2>1, <2>2, <2>3, <2>4 DEF TooLate, ReaderAt, Current
<1>3. CASE ~(FailWrite \/ ResetDeadline \/ TimeOut)
  <2>1. worker'.pc # "clear"
    <3>1. CASE TakeOutcome
      BY <1>1, <3>1 DEF TakeOutcome, WorkerStates
    <3> QED
      BY <1>1, <1>3, <3>1, WorkerMoves
      DEF WorkerStep, WorkerExit, RefuseEnded, RefuseCancelled, Install, Transmit, Finish,
          Retire, StopWaiting, WorkerClears, WorkerCancels, WorkerCloses
  <2> QED BY <2>1 DEF TooLate, WorkerAt
<1> QED BY <1>2, <1>3

LEMMA TooLateByReader ==
  ASSUME Honest, IInv, Correlation, TooLate, ReaderStep
  PROVE  TooLate'
<1>1. /\ reader \in ReaderStates /\ UNCHANGED <<worker, pending>>
      /\ None \notin Callers /\ Current \in Callers \cup {None}
      /\ WorkerAt("clear") => Current # None
  BY Basics DEF ReaderStep, WorkerAt
<1>2. CASE Route
  <2>1. reader'.pc = "publish" =>
          /\ reader'.frame = reader.frame
          /\ ~(SaysResponse(Message) /\ pending # None)
    BY <1>1, <1>2, ReaderMoves DEF Route, ReaderStates
  <2>2. ReaderAt("publish")' /\ (Message.payload = "response")' =>
          Message.payload = "response" /\ pending = None
    BY <2>1 DEF ReaderAt, Message, SaysResponse
  <2> QED BY <1>1, <2>2 DEF TooLate, WorkerAt, Current
<1>3. CASE ~Route
  <2>1. \/ reader'.pc # "publish"
        \/ reader'.frame = reader.frame /\ Message.payload # "response"
    <3>1. CASE Scan
      BY <1>1, <3>1, ReaderMoves DEF Scan, ReaderStates
    <3>2. CASE \/ ScanFails \/ Fill \/ AwaitRetired \/ AwaitEnded \/ Publish \/ PublishEnded
               \/ ReaderCancels \/ ReaderCloses
      BY <1>1, <3>2, ReaderMoves
      DEF ScanFails, Fill, AwaitRetired, AwaitEnded, Publish, PublishEnded, ReaderCancels,
          ReaderCloses, ReaderAtRest
    <3> QED BY <1>3, <3>1, <3>2 DEF ReaderStep
  <2> QED BY <1>1, <2>1 DEF TooLate, WorkerAt, ReaderAt, Current, Message
<1> QED BY <1>2, <1>3

LEMMA TooLateStep ==
  ASSUME Honest, IInv, Correlation, TooLate, [Next]_vars
  PROVE  TooLate'
<1>1. CASE UNCHANGED <<pending, worker, reader>>
  BY <1>1 DEF TooLate, WorkerAt, ReaderAt, Current, Message
<1>2. CASE \E c \in Callers : CallerStep(c) \/ CallerMay(c)
  <2>1. UNCHANGED <<pending, reader>> /\ (UNCHANGED worker \/ worker'.pc = "received")
    <3>1. worker \in WorkerStates
      BY Basics
    <3> QED BY <1>2, <3>1
      DEF CallerStep, CallerMay, CallerFrame, Call, EndContext, HandOver, Withdraw, Receive,
          Abandon, WorkerStates
  <2> QED BY <1>1, <2>1 DEF TooLate, WorkerAt
<1>3. CASE \/ StopStreams \/ DeviceStep \/ UNCHANGED vars
           \/ \E k \in Closers : CloserStep(k) \/ CloserMay(k)
  BY <1>1, <1>3 DEF StopStreams, DeviceStep, CloserStep, CloserMay, CloserFrame, vars, slots
<1> QED BY <1>2, <1>3, TooLateByWorker, TooLateByReader DEF Next

\* With such a device an answer is published, while the connection lives, only
\* when it is too late: its own command was given up, and the worker, which has
\* cleared the slot, is on its way to end the connection (conn.go:424-430).
THEOREM AnswersAreAwaited ==
  ASSUME Honest
  PROVE  Spec => []AnswerFindsItsCommand
<1>1. Init => TooLate
  BY DEF Init, TooLate, WorkerAtRest, ReaderAtRest, WorkerAt, ReaderAt
<1>2. IInv /\ Correlation /\ TooLate /\ [Next]_vars => TooLate'
  BY TooLateStep
<1>3. IInv /\ Correlation /\ TooLate => AnswerFindsItsCommand
  BY Basics DEF Correlation, LateIsGone, Gone, TooLate, AnswerFindsItsCommand, WorkerAt,
     ReaderAt, Current
<1> QED BY <1>1, <1>2, <1>3, CorrelationKept, PTL DEF Spec

\* Why order alone can stand in for request ids: as long as the connection
\* lives, one command at most is at the device, or has an answer in the socket,
\* in the reader's hands or on its way to the worker (conn.go:384-442).
OneCommandAbroad == ~Done => \A c, d \in Callers : Abroad(c) /\ Abroad(d) => c = d

THEOREM OneCommandAtATime ==
  ASSUME Honest
  PROVE  Spec => []OneCommandAbroad
<1>1. Correlation => OneCommandAbroad
  BY DEF Correlation, AbroadIsAttended, Attends, Gone, OneCommandAbroad
<1> QED BY <1>1, CorrelationKept, PTL
-----------------------------------------------------------------------------
(* With a device that answers what it was asked, once, the connection       *)
(* implements the command service (CommandService): every step of every     *)
(* goroutine is a step of the service, or none.                             *)

Server == IF Owes THEN Current ELSE None
Stage == StageAt[worker.pc]

LEMMA Stages ==
  /\ \A pc \in {"select", "retire", "exited"} : StageAt[pc] = "free"
  /\ \A pc \in {"received", "write"} : StageAt[pc] = "taken"
  /\ \A pc \in {"written", "wait", "finish"} : StageAt[pc] = "sent"
  /\ \A pc \in {"clear", "cancel", "close"} : StageAt[pc] = "failed"
BY DEF StageAt

\* The terminal cause is one the service knows, and what it interrupts returns
\* it.
LEMMA EndIsKnown ==
  ASSUME IInv, Done
  PROVE  /\ cause \in Causes \ OwnSocketErrors
         /\ [err \in Causes \ OwnSocketErrors |-> Failure("ended", err)][cause] = Ended
BY DEF IInv, Connection, TypeOK, CauseIsGenuine, CauseOrNone, Done, Ended

\* What the worker answers in the end is a verdict of the service.
LEMMA AnswerResolves ==
  ASSUME IInv, Owes, NEW res, Answer(res), worker'.pc \in {"select", "exited", "retire"},
         UNCHANGED <<calls, requests, cause>>,
         \/ Stage = "sent" /\ Current \notin requests /\ res \in OwnAnswers[Current]
         \/ Stage = "taken" /\ ctx[Current] = "done" /\ res = Cancelled
         \/ Done /\ res = Ended
  PROVE  Service!Resolve
<1>1. /\ Server = Current /\ Stage # "free" /\ complete[Current] = None
      /\ Stage' = "free" /\ ~Owes' /\ Server' = None
  <2>1. worker \in WorkerStates /\ complete[Current] = None
    BY Basics DEF IInv, Connection, CommandsOwed
  <2>2. Stage # "free"
    BY <2>1, Stages DEF WorkerStates, Owes, Stage
  <2>3. Stage' = "free" /\ ~Owes'
    BY Stages DEF Owes, Stage
  <2> QED BY <2>1, <2>2, <2>3 DEF Server
<1>2. complete' = [complete EXCEPT ![Server] = res]
  BY <1>1 DEF Answer
<1>3. res \in
        (IF Stage = "sent" /\ Server \notin requests THEN OwnAnswers[Server] ELSE {})
        \cup (IF Stage = "taken" /\ ctx[Server] = "done" THEN {Cancelled} ELSE {})
        \cup (IF cause # None
              THEN {[err \in Causes \ OwnSocketErrors |-> Failure("ended", err)][cause]}
              ELSE {})
  BY <1>1, EndIsKnown DEF Done
<1> QED
  BY <1>1, <1>2, <1>3 DEF Service!Resolve, Service!Over, Service!calls, Server, Stage, calls
-----------------------------------------------------------------------------
LEMMA ServiceInit ==
  ASSUME Init
  PROVE  Service!Init
BY Stages DEF Init, WorkerAtRest, Service!Init, Owes

LEMMA ServiceByCaller ==
  ASSUME IInv, NEW c \in Callers, CallerStep(c) \/ CallerMay(c)
  PROVE  Service!Next
<1>0. UNCHANGED <<cause, requests>>
  BY DEF CallerStep, CallerMay, CallerFrame, ending, device
<1>1. worker \in WorkerStates
  BY Basics
<1> USE <1>0, <1>1 DEF Service!Next, Service!calls, Service!turn, Service!Over
<1>2. CASE Call(c)
  BY <1>2 DEF Call, Service!Ask, Owes, Current
<1>3. CASE EndContext(c)
  BY <1>3 DEF EndContext, Service!GiveUp, Owes, Current
<1>4. CASE HandOver(c)
  <2>1. /\ worker.pc = "select" /\ worker'.pc = "received" /\ worker'.request = c
        /\ StageAt[worker.pc] = "free" /\ StageAt[worker'.pc] = "taken"
    BY <1>4, Stages DEF HandOver, WorkerStates
  <2> QED BY <1>4, <2>1 DEF HandOver, Service!Take, Owes, Current, Done
<1>5. CASE Withdraw(c)
  <2>1. Done => [err \in Causes \ OwnSocketErrors |-> Failure("ended", err)][cause] = Ended
    BY EndIsKnown
  <2> QED
    BY <1>5, <2>1 DEF Withdraw, Returns, Service!Return, Service!Returns, Owes, Current, Done
<1>6. CASE Receive(c)
  BY <1>6 DEF Receive, Returns, Service!Return, Service!Returns, Owes, Current
<1>7. CASE Abandon(c)
  BY <1>7 DEF Abandon, Returns, Service!Return, Service!Returns, Owes, Current
<1> QED
  BY <1>2, <1>3, <1>4, <1>5, <1>6, <1>7 DEF CallerStep, CallerMay

\* Whoever ends the connection, ends the service.
LEMMA ServiceByEnding ==
  ASSUME IInv, IInv', NEW err, Cancel(err), UNCHANGED <<calls, complete, requests>>,
         Stage' = Stage, Server' = Server
  PROVE  Service!End \/ UNCHANGED Service!vars
<1>1. CASE Done
  BY <1>1 DEF Cancel, Service!vars, Service!calls, Service!turn, Stage, Server, calls
<1>2. CASE ~Done
  <2>1. Done' => cause' \in Causes \ OwnSocketErrors
    BY DEF IInv, Connection, TypeOK, CauseIsGenuine, CauseOrNone, Done
  <2>2. CASE Done'
    BY <1>2, <2>1, <2>2
    DEF Service!End, Service!Over, Service!Causes, Service!calls, Service!turn, Stage, Server,
        calls, Done
  <2>3. CASE ~Done'
    BY <1>2, <2>3
    DEF Service!vars, Service!calls, Service!turn, Stage, Server, calls, Done
  <2> QED BY <2>2, <2>3
<1> QED BY <1>1, <1>2

LEMMA ServiceByWorker ==
  ASSUME IInv, IInv', Correlation, WorkerStep
  PROVE  [Service!Next]_Service!vars
<1>0. UNCHANGED calls
  BY DEF WorkerStep
<1>1. /\ worker \in WorkerStates /\ None \notin Callers
      /\ Owes => Current \in Callers
  BY Basics DEF Owes, WorkerStates, CallerOrNone, Current
<1>2. CASE RefuseEnded
  <2>1. Owes /\ Answer(Ended) /\ Done /\ worker'.pc \in {"select", "exited", "retire"}
        /\ UNCHANGED <<requests, cause>>
    BY <1>1, <1>2, WorkerMoves DEF RefuseEnded, WorkerAt, Owes, ending
  <2> QED BY <1>0, <2>1, AnswerResolves DEF Service!Next
<1>3. CASE RefuseCancelled
  <2>1. Owes /\ Answer(Cancelled) /\ ctx[Current] = "done"
        /\ worker'.pc \in {"select", "exited", "retire"} /\ UNCHANGED <<requests, cause>>
    BY <1>1, <1>3, WorkerMoves DEF RefuseCancelled, WorkerAt, Owes, ending
  <2>2. Stage = "taken"
    BY <1>3, Stages DEF RefuseCancelled, WorkerAt, Stage
  <2> QED BY <1>0, <2>1, <2>2, AnswerResolves DEF Service!Next
<1>4. CASE Finish
  <2>1. Owes /\ Answer(ResultOf(Current, worker.got)) /\ worker.pc = "finish"
        /\ worker'.pc \in {"select", "exited", "retire"} /\ UNCHANGED <<requests, cause>>
    BY <1>1, <1>4, WorkerMoves DEF Finish, WorkerAt, Owes, ending
  <2>2. Stage = "sent"
    BY <2>1, Stages DEF Stage
  <2>3. Current \in Callers /\ Current \notin requests
    BY <1>1, <2>1, NothingAbroad DEF Abroad
  <2>4. ResultOf(Current, worker.got) \in OwnAnswers[Current]
    <3>1. /\ worker.got \in Outcomes
          /\ ~worker.got.failed =>
               worker.got.to = NameOf[Current] /\ worker.got.answers = Current
      BY <1>1, <2>1 DEF IInv, AtFinish, Correlation, OwnAnswersOnly, WorkerAt, WorkerStates
    <3>2. ResultOf(Current, worker.got) \in Results
      BY <2>3, <3>1, ResultTypes
    <3>3. \/ ResultOf(Current, worker.got).kind \in {"undecodable", "invalid"}
          \/ /\ ResultOf(Current, worker.got).kind \in {"accepted", "rejected"}
             /\ ResultOf(Current, worker.got).to = NameOf[Current]
             /\ ResultOf(Current, worker.got).answers = Current
      BY <3>1 DEF ResultOf, Failure, Success
    <3> QED BY <2>3, <3>2, <3>3 DEF OwnAnswers
  <2> QED BY <1>0, <2>1, <2>2, <2>3, <2>4, AnswerResolves DEF Service!Next
<1>5. CASE StopWaiting
  <2>1. Owes /\ Answer(Ended) /\ Done /\ worker'.pc \in {"select", "exited", "retire"}
        /\ UNCHANGED <<requests, cause>>
    BY <1>1, <1>5, WorkerMoves DEF StopWaiting, WorkerAt, Owes, ending
  <2> QED BY <1>0, <2>1, AnswerResolves DEF Service!Next
<1>6. CASE WorkerCloses
  <2>1. Owes /\ Answer(Ended) /\ Done /\ worker'.pc \in {"select", "exited", "retire"}
        /\ UNCHANGED <<requests, cause>>
    BY <1>1, <1>6, WorkerMoves, Basics DEF WorkerCloses, WorkerAt, Owes
  <2> QED BY <1>0, <2>1, AnswerResolves DEF Service!Next
<1>7. CASE Transmit
  <2>1. /\ worker.pc = "write" /\ worker'.pc = "written" /\ Current' = Current
        /\ Owes /\ Owes' /\ Current \in Callers
        /\ StageAt[worker.pc] = "taken" /\ StageAt[worker'.pc] = "sent"
        /\ requests' \in {requests, requests \cup {Current}}
        /\ UNCHANGED <<complete, cause>>
    BY <1>1, <1>7, WorkerMoves, Stages
    DEF Transmit, WorkerAt, Owes, slots, ending, Current
  <2>2. requests = {}
    <3>1. \A c \in Callers : c \notin requests
      BY <2>1, NothingAbroad DEF Abroad
    <3> QED BY <3>1, Basics DEF TypeOK
  <2>3. Service!Transmit
    BY <1>0, <2>1, <2>2 DEF Service!Transmit, Service!calls, calls
  <2> QED BY <2>3 DEF Service!Next
<1>8. CASE FailWrite \/ TimeOut \/ (ResetDeadline /\ socket # "open")
  <2>1. /\ StageAt[worker.pc] \in {"taken", "sent"} /\ StageAt[worker'.pc] = "failed"
        /\ Current' = Current /\ Owes /\ Owes'
        /\ UNCHANGED <<complete, cause, requests>>
    BY <1>1, <1>8, WorkerMoves, Stages
    DEF FailWrite, TimeOut, ResetDeadline, WorkerAt, Owes, slots, ending, Current
  <2>2. Service!Fail
    BY <1>0, <2>1 DEF Service!Fail, Service!calls, calls
  <2> QED BY <2>2 DEF Service!Next
<1>9. CASE WorkerCancels
  <2>1. /\ Cancel(worker.err) /\ Stage' = Stage /\ Server' = Server
        /\ UNCHANGED <<complete, requests>>
    BY <1>1, <1>9, WorkerMoves, Stages
    DEF WorkerCancels, WorkerAt, Stage, Server, Owes, slots, Current
  <2> QED BY <1>0, <2>1, ServiceByEnding DEF Service!Next
<1>10. CASE \/ WorkerExit \/ Install \/ (ResetDeadline /\ socket = "open")
            \/ TakeOutcome \/ Retire \/ WorkerClears
  <2>1. /\ Stage' = Stage /\ Server' = Server
        /\ UNCHANGED <<complete, cause, requests>>
    <3>1. CASE WorkerExit
      BY <1>1, <3>1, WorkerMoves, Stages
      DEF WorkerExit, WorkerAt, Stage, Server, Owes, slots, ending
    <3>2. CASE Install \/ (ResetDeadline /\ socket = "open") \/ WorkerClears
      BY <1>1, <3>2, WorkerMoves, Stages
      DEF Install, ResetDeadline, WorkerClears, WorkerAt, Stage, Server, Owes, slots, ending,
          Current
    <3>3. CASE TakeOutcome
      <4>1. worker.pc = "wait" /\ worker'.pc = "finish" /\ Current' = Current
        BY <1>1, <3>3 DEF TakeOutcome, WorkerAt, WorkerStates, Current
      <4> QED BY <3>3, <4>1, Stages DEF TakeOutcome, Stage, Server, Owes, ending
    <3>4. CASE Retire
      BY <1>1, <3>4, WorkerMoves, Stages
      DEF Retire, WorkerAt, Stage, Server, Owes, ending
    <3> QED BY <1>10, <3>1, <3>2, <3>3, <3>4
  <2>2. UNCHANGED Service!vars
    BY <1>0, <2>1 DEF Service!vars, Service!calls, Service!turn, Stage, Server, calls
  <2> QED BY <2>2
<1> QED
  BY <1>2, <1>3, <1>4, <1>5, <1>6, <1>7, <1>8, <1>9, <1>10 DEF WorkerStep

\* The reader, the brokers and Close end the service or are no part of it; of
\* what the device does, its answers are.
LEMMA ServiceByOthers ==
  ASSUME IInv, IInv',
         ReaderStep \/ StopStreams \/ DeviceStep \/ UNCHANGED vars
           \/ \E k \in Closers : CloserStep(k) \/ CloserMay(k)
  PROVE  [Service!Next]_Service!vars
<1>1. UNCHANGED <<complete, calls, worker>>
  BY DEF ReaderStep, StopStreams, DeviceStep, vars, CloserStep, CloserMay, CloserFrame, slots
<1>2. Stage' = Stage /\ Server' = Server
  BY <1>1 DEF Stage, Server, Owes, Current
<1>3. CASE UNCHANGED <<cause, requests>>
  <2>1. UNCHANGED Service!vars
    BY <1>1, <1>2, <1>3 DEF Service!vars, Service!calls, Service!turn, Stage, Server, calls
  <2> QED BY <2>1
<1>4. ASSUME NEW err, Cancel(err), UNCHANGED requests
      PROVE  [Service!Next]_Service!vars
  BY <1>1, <1>2, <1>4, ServiceByEnding DEF Service!Next
<1>5. CASE ReaderStep
  <2>1. CASE ReaderCancels
    BY <1>4, <1>5, <2>1 DEF ReaderStep, ReaderCancels
  <2>2. CASE ~ReaderCancels
    BY <1>3, <1>5, <2>2 DEF ReaderStep, Scan, ScanFails, Route, Fill, AwaitRetired,
       AwaitEnded, Publish, PublishEnded, ReaderCloses, ending
  <2> QED BY <2>1, <2>2
<1>6. ASSUME NEW k \in Closers, CloserStep(k) \/ CloserMay(k)
      PROVE  [Service!Next]_Service!vars
  <2>0. UNCHANGED requests
    BY <1>6 DEF CloserStep, CloserMay, CloserFrame, device
  <2>1. CASE CloserMay(k)
    BY <1>4, <2>0, <2>1 DEF CloserMay, CloserCancels
  <2>2. CASE CloserStep(k)
    BY <1>3, <2>0, <2>2 DEF CloserStep, CloserCloses, CloserReturns, ending
  <2> QED BY <1>6, <2>1, <2>2
<1>7. CASE DeviceStep
  <2>1. UNCHANGED cause
    BY <1>7 DEF DeviceStep, ending
  <2>2. ASSUME NEW c \in Callers, Respond(c)
        PROVE  Service!Reply(c)
    BY <1>1, <1>2, <2>1, <2>2
    DEF Respond, Service!Reply, Service!calls, Service!turn, Stage, Server, calls
  <2> QED BY <1>3, <1>7, <2>1, <2>2 DEF DeviceStep, Emit, Hangup, Service!Next
<1>8. CASE StopStreams \/ UNCHANGED vars
  BY <1>3, <1>8 DEF StopStreams, vars, ending, device
<1> QED BY <1>5, <1>6, <1>7, <1>8

LEMMA ServiceStep ==
  ASSUME IInv, IInv', Correlation, [Next]_vars
  PROVE  [Service!Next]_Service!vars
BY ServiceByCaller, ServiceByWorker, ServiceByOthers DEF Next
-----------------------------------------------------------------------------
\* A connection to a device that answers what it was asked, once, is a command
\* service: commands one at a time and at most once at the device, each call
\* with its own answer, its cancellation or the one terminal cause.
THEOREM ConnectionServes ==
  ASSUME Honest
  PROVE  Spec => ImplementsService
<1>1. Init => Service!Init
  BY ServiceInit
<1>2. IInv /\ IInv' /\ Correlation /\ [Next]_vars => [Service!Next]_Service!vars
  BY ServiceStep
<1> QED
  BY <1>1, <1>2, CorrelationKept, PTL DEF Spec, ImplementsService, Service!Spec
=============================================================================
