-------------------------------- MODULE Demux --------------------------------
(***************************************************************************)
(* The reader of a connection between the two sides it serves (conn.go:    *)
(* 502-645): report streams, each with its broker and consumers, and the   *)
(* command that waits for a response.  One goroutine carries all of them,  *)
(* so what one holds up holds up the others.                               *)
(*                                                                         *)
(* Two of the three streams, which are alike: velocity reports, and the    *)
(* unhandled frames, where a response ends that no command waits for.      *)
(* Both are ReportStream, whole; module Conn abstracts them to what this   *)
(* module shows.  The handshake with the command is one step here, and     *)
(* what else ends a connection is any moment: both are studied there.      *)
(***************************************************************************)
EXTENDS Integers, Sequences

CONSTANTS
  Capacity,    \* slots of each stream
  MaxFrames    \* bound: how many frames the device sends

ASSUME BoundsAssumption == Capacity \in Nat \ {0} /\ MaxFrames \in Nat

Kinds == {"velocity", "unknown", "response"}

VARIABLES
  vBroker, vQueue, vHead, vSize, vDropped,       \* the velocity stream
  vPublisher, vAccepted, vSample, vLate,
  uBroker, uQueue, uHead, uSize, uDropped,       \* the unhandled frames
  uPublisher, uAccepted, uSample, uLate,
  done,        \* the connection ended
  inbound,     \* frames on the way from the device
  sent,        \* how many it sent
  delivering,  \* deliverResponse: "no", "yes"; "stopped" or "abandoned" is an
               \* end of the reader, with the response taken or not
  waiting,     \* a command waits for its response: pending is set
  answers,     \* how many commands got one
  read         \* how many frames of each kind the reader took

velocity  == <<vBroker, vQueue, vHead, vSize, vDropped, vPublisher, vAccepted,
               vSample, vLate>>
unhandled == <<uBroker, uQueue, uHead, uSize, uDropped, uPublisher, uAccepted,
               uSample, uLate>>
line == <<inbound, sent>>
vars == <<velocity, unhandled, done, line, delivering, waiting, answers, read>>

Velocity == INSTANCE ReportStream WITH
  MaxReports <- MaxFrames, broker <- vBroker, queue <- vQueue, head <- vHead,
  size <- vSize, dropped <- vDropped, publisher <- vPublisher,
  accepted <- vAccepted, sample <- vSample, late <- vLate
Unhandled == INSTANCE ReportStream WITH
  MaxReports <- MaxFrames, broker <- uBroker, queue <- uQueue, head <- uHead,
  size <- uSize, dropped <- uDropped, publisher <- uPublisher,
  accepted <- uAccepted, sample <- uSample, late <- uLate

Init ==
  /\ Velocity!Init /\ Unhandled!Init
  /\ inbound = <<>> /\ sent = 0
  /\ delivering = "no" /\ waiting = FALSE /\ answers = 0
  /\ read = [kind \in Kinds |-> 0]
-----------------------------------------------------------------------------
(* The reader.                                                             *)

\* It is in Scan: not in publish, nor in deliverResponse, nor gone.
Scanning == vPublisher = "reading" /\ uPublisher = "reading" /\ delivering = "no"

\* A frame is taken and goes to where its kind, and for a response the pending
\* slot, says.
\* Mutants: a response nobody waits for is dropped; a full stream of unhandled
\* frames holds the reader up.
RouteDroppingUnsolicited ==
  /\ Scanning /\ inbound # <<>>
  /\ inbound' = Tail(inbound)
  /\ read' = [read EXCEPT ![Head(inbound)] = @ + 1]
  /\ \/ Head(inbound) = "velocity" /\ Velocity!Offer /\ UNCHANGED <<unhandled, delivering>>
     \/ Head(inbound) = "unknown" /\ Unhandled!Offer /\ UNCHANGED <<velocity, delivering>>
     \/ /\ Head(inbound) = "response"
        /\ delivering' = IF waiting THEN "yes" ELSE "no"
        /\ UNCHANGED <<velocity, unhandled, done>>
  /\ UNCHANGED <<sent, waiting, answers>>
RouteWhenRoom ==
  /\ Scanning /\ inbound # <<>> /\ uSize < Capacity
  /\ inbound' = Tail(inbound)
  /\ read' = [read EXCEPT ![Head(inbound)] = @ + 1]
  /\ \/ Head(inbound) = "velocity" /\ Velocity!Offer /\ UNCHANGED <<unhandled, delivering>>
     \/ Head(inbound) # "velocity" /\ Unhandled!Offer /\ UNCHANGED <<velocity, delivering>>
  /\ UNCHANGED <<sent, waiting, answers>>
Route ==
  /\ Scanning /\ inbound # <<>>
  /\ inbound' = Tail(inbound)
  /\ read' = [read EXCEPT ![Head(inbound)] = @ + 1]
  /\ LET awaited == Head(inbound) = "response" /\ waiting
     IN  \/ /\ Head(inbound) = "velocity"
            /\ Velocity!Offer /\ UNCHANGED <<unhandled, delivering>>
         \/ /\ Head(inbound) # "velocity" /\ ~awaited
            /\ Unhandled!Offer /\ UNCHANGED <<velocity, delivering>>
         \/ /\ awaited
            /\ delivering' = "yes" /\ UNCHANGED <<velocity, unhandled, done>>
  /\ UNCHANGED <<sent, waiting, answers>>

\* The worker takes the outcome and retires its command.  When the connection
\* has ended too, the reader may see that first and stop.
Deliver ==
  /\ delivering = "yes"
  /\ delivering' \in IF done THEN {"no", "stopped"} ELSE {"no"}
  /\ waiting' = FALSE /\ answers' = answers + 1
  /\ UNCHANGED <<velocity, unhandled, done, line, read>>

\* The worker gives its command up as the connection ended, and the reader, if
\* it had an outcome for it, stops.
GiveUp ==
  /\ done /\ waiting
  /\ waiting' = FALSE
  /\ delivering' = IF delivering = "yes" THEN "abandoned" ELSE delivering
  /\ UNCHANGED <<velocity, unhandled, done, line, answers, read>>

\* publish returns without its report as the connection ended.
Stop ==
  /\ \/ Velocity!Refuse /\ UNCHANGED unhandled
     \/ Unhandled!Refuse /\ UNCHANGED velocity
  /\ UNCHANGED <<line, delivering, waiting, answers, read>>

Reader == Route \/ Deliver \/ Stop
-----------------------------------------------------------------------------
(* The brokers, and around them.                                           *)

VelocityBroker ==
  Velocity!BrokerStep /\ UNCHANGED <<unhandled, line, delivering, waiting, answers, read>>
UnhandledBroker ==
  Unhandled!BrokerStep /\ UNCHANGED <<velocity, line, delivering, waiting, answers, read>>
VelocityConsumer ==
  Velocity!Output /\ UNCHANGED <<unhandled, line, delivering, waiting, answers, read>>
UnhandledConsumer ==
  Unhandled!Output /\ UNCHANGED <<velocity, line, delivering, waiting, answers, read>>

\* A command is issued: one is in flight at a time.
Issue ==
  /\ ~waiting /\ ~done
  /\ waiting' = TRUE
  /\ UNCHANGED <<velocity, unhandled, done, line, delivering, answers, read>>

\* The device sends a report, an unknown frame, or a response, asked or not.
Send ==
  /\ sent < MaxFrames /\ ~done
  /\ \E kind \in Kinds : inbound' = Append(inbound, kind)
  /\ sent' = sent + 1
  /\ UNCHANGED <<velocity, unhandled, done, delivering, waiting, answers, read>>

End ==
  /\ Velocity!End /\ Unhandled!End
  /\ UNCHANGED <<line, delivering, waiting, answers, read>>

Next ==
  \/ Reader
  \/ VelocityBroker \/ UnhandledBroker
  \/ VelocityConsumer \/ UnhandledConsumer
  \/ Issue \/ GiveUp \/ Send \/ End

Spec == Init /\ [][Next]_vars

\* The goroutines run.  Someone consumes the velocity reports; nobody need
\* consume the unhandled frames.
FairSpec ==
  /\ Spec
  /\ WF_vars(Reader) /\ WF_vars(VelocityBroker) /\ WF_vars(UnhandledBroker)
  /\ WF_vars(VelocityConsumer)
-----------------------------------------------------------------------------
\* One more while the reader is in publish, or left it without success.
InHand(publisher) == IF publisher = "reading" THEN 0 ELSE 1

\* Every frame the reader took is where it belongs, and no stream is charged
\* with what happened to another: a velocity report was delivered, is counted as
\* dropped, is retained or in the reader's hand; so is every other frame, but
\* for the one response each command got (conn.go:210-232, 601-606).
FramesAreAccountedFor ==
  /\ read["velocity"] = vSample.report + vDropped + vSize + InHand(vPublisher)
  /\ read["unknown"] + read["response"] =
       uSample.report + uDropped + uSize + InHand(uPublisher)
         + answers + (IF delivering \in {"yes", "abandoned"} THEN 1 ELSE 0)

\* However full the streams are, and with nobody to receive unhandled frames, a
\* response that was sent reaches its command (conn.go:210-212, 231-232).
ResponsesGetThrough ==
  waiting /\ (\E i \in 1 .. Len(inbound) : inbound[i] = "response")
    ~> ~waiting \/ done

\* And every velocity report reaches its consumer or its loss count.
VelocityFlows ==
  \A n \in 1 .. MaxFrames :
    read["velocity"] + Len(SelectSeq(inbound, LAMBDA kind : kind = "velocity")) >= n
      ~> vSample.report + vDropped >= n \/ done
=============================================================================
