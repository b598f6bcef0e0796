---------------------------- MODULE Demux_proofs ----------------------------
(* Proofs about the composition of a reader and its streams: each stream is *)
(* a ReportStream still, so that what is proved of one (ReportStream_proofs) *)
(* holds of both side by side, and the accounts of the whole add up.         *)
EXTENDS Demux, SequenceTheorems, TLAPS

VelocityFacts == INSTANCE ReportStream_proofs WITH
  MaxReports <- MaxFrames, broker <- vBroker, queue <- vQueue, head <- vHead,
  size <- vSize, dropped <- vDropped, publisher <- vPublisher,
  accepted <- vAccepted, sample <- vSample, late <- vLate
UnhandledFacts == INSTANCE ReportStream_proofs WITH
  MaxReports <- MaxFrames, broker <- uBroker, queue <- uQueue, head <- uHead,
  size <- uSize, dropped <- uDropped, publisher <- uPublisher,
  accepted <- uAccepted, sample <- uSample, late <- uLate
-----------------------------------------------------------------------------
(* Every step of the whole is a step of each stream, or none.              *)

LEMMA VelocityStep == [Next]_vars => [Velocity!Next]_Velocity!vars
<1> SUFFICES ASSUME [Next]_vars PROVE [Velocity!Next]_Velocity!vars
  OBVIOUS
<1>1. CASE Velocity!Offer \/ Velocity!Refuse \/ Velocity!BrokerStep \/ Velocity!Output
           \/ Velocity!End
  BY <1>1 DEF Velocity!Next, Velocity!BrokerStep
<1>2. CASE UNCHANGED <<velocity, done>>
  BY <1>2 DEF velocity, Velocity!vars, Velocity!ring
<1>3. Unhandled!Offer \/ Unhandled!Refuse \/ Unhandled!BrokerStep \/ Unhandled!Output
        => UNCHANGED done
  BY DEF Unhandled!Offer, Unhandled!Refuse, Unhandled!BrokerStep, Unhandled!Output,
     Unhandled!Check, Unhandled!SelectDone, Unhandled!Input
<1> QED
  BY <1>1, <1>2, <1>3
  DEF Next, Reader, Route, Deliver, Stop, VelocityBroker, UnhandledBroker, VelocityConsumer,
      UnhandledConsumer, Issue, GiveUp, Send, End, vars

LEMMA UnhandledStep == [Next]_vars => [Unhandled!Next]_Unhandled!vars
<1> SUFFICES ASSUME [Next]_vars PROVE [Unhandled!Next]_Unhandled!vars
  OBVIOUS
<1>1. CASE Unhandled!Offer \/ Unhandled!Refuse \/ Unhandled!BrokerStep \/ Unhandled!Output
           \/ Unhandled!End
  BY <1>1 DEF Unhandled!Next, Unhandled!BrokerStep
<1>2. CASE UNCHANGED <<unhandled, done>>
  BY <1>2 DEF unhandled, Unhandled!vars, Unhandled!ring
<1>3. Velocity!Offer \/ Velocity!Refuse \/ Velocity!BrokerStep \/ Velocity!Output
        => UNCHANGED done
  BY DEF Velocity!Offer, Velocity!Refuse, Velocity!BrokerStep, Velocity!Output,
     Velocity!Check, Velocity!SelectDone, Velocity!Input
<1> QED
  BY <1>1, <1>2, <1>3
  DEF Next, Reader, Route, Deliver, Stop, VelocityBroker, UnhandledBroker, VelocityConsumer,
      UnhandledConsumer, Issue, GiveUp, Send, End, vars

\* The reader and the streams next to it only restrict what a stream may do: for
\* every capacity, each behaves as a ReportStream does alone.
THEOREM StreamsAreStreams == Spec => Velocity!Spec /\ Unhandled!Spec
<1>1. Init => Velocity!Init /\ Unhandled!Init
  BY DEF Init
<1> QED
  BY <1>1, VelocityStep, UnhandledStep, PTL DEF Spec, Velocity!Spec, Unhandled!Spec
-----------------------------------------------------------------------------
(* The accounts.                                                           *)

LEMMA VelocitySame ==
  /\ Velocity!Init => VelocityFacts!Init
  /\ [Velocity!Next]_Velocity!vars => [VelocityFacts!Next]_VelocityFacts!vars
BY DEF Velocity!Init, VelocityFacts!Init, Velocity!Zero, VelocityFacts!Zero,
  Velocity!NoSample, VelocityFacts!NoSample, Velocity!Slots, VelocityFacts!Slots,
  Velocity!Next, VelocityFacts!Next, Velocity!vars, VelocityFacts!vars, Velocity!ring,
  VelocityFacts!ring, Velocity!Offer, VelocityFacts!Offer, Velocity!Refuse,
  VelocityFacts!Refuse, Velocity!Check, VelocityFacts!Check, Velocity!SelectDone,
  VelocityFacts!SelectDone, Velocity!Input, VelocityFacts!Input, Velocity!Output,
  VelocityFacts!Output, Velocity!End, VelocityFacts!End, Velocity!Enqueue,
  VelocityFacts!Enqueue, Velocity!SlotAfter, VelocityFacts!SlotAfter

LEMMA UnhandledSame ==
  /\ Unhandled!Init => UnhandledFacts!Init
  /\ [Unhandled!Next]_Unhandled!vars => [UnhandledFacts!Next]_UnhandledFacts!vars
BY DEF Unhandled!Init, UnhandledFacts!Init, Unhandled!Zero, UnhandledFacts!Zero,
  Unhandled!NoSample, UnhandledFacts!NoSample, Unhandled!Slots, UnhandledFacts!Slots,
  Unhandled!Next, UnhandledFacts!Next, Unhandled!vars, UnhandledFacts!vars, Unhandled!ring,
  UnhandledFacts!ring, Unhandled!Offer, UnhandledFacts!Offer, Unhandled!Refuse,
  UnhandledFacts!Refuse, Unhandled!Check, UnhandledFacts!Check, Unhandled!SelectDone,
  UnhandledFacts!SelectDone, Unhandled!Input, UnhandledFacts!Input, Unhandled!Output,
  UnhandledFacts!Output, Unhandled!End, UnhandledFacts!End, Unhandled!Enqueue,
  UnhandledFacts!Enqueue, Unhandled!SlotAfter, UnhandledFacts!SlotAfter

\* What the reader keeps, in terms of what the streams accepted: each frame it
\* took was accepted by its stream, is in its hand, or was an answer.
Accounts ==
  /\ inbound \in Seq(Kinds)
  /\ read \in [Kinds -> Nat]
  /\ vAccepted \in Nat /\ uAccepted \in Nat /\ answers \in Nat
  /\ vPublisher \in {"reading", "offering", "stopped"}
  /\ uPublisher \in {"reading", "offering", "stopped"}
  /\ delivering \in {"no", "yes", "stopped", "abandoned"}
  /\ read["velocity"] = vAccepted + InHand(vPublisher)
  /\ read["unknown"] + read["response"] =
       uAccepted + InHand(uPublisher)
         + answers + (IF delivering \in {"yes", "abandoned"} THEN 1 ELSE 0)

LEMMA AccountsInit == Init => Accounts
BY DEF Init, Accounts, Kinds, InHand, Velocity!Init, Unhandled!Init

\* A frame is charged to one account, the one its kind and the slot say.
LEMMA RouteAccounts == Accounts /\ Route => Accounts'
<1> SUFFICES ASSUME Accounts, Route PROVE Accounts'
  OBVIOUS
<1> DEFINE kind == Head(inbound)
<1>1. inbound \in Seq(Kinds) /\ inbound # <<>>
  BY DEF Accounts, Route
<1>2. kind \in Kinds /\ inbound' \in Seq(Kinds)
  BY <1>1, HeadTailProperties DEF Route
<1>3. /\ read' = [read EXCEPT ![kind] = @ + 1]
      /\ read \in [Kinds -> Nat]
      /\ answers' = answers /\ answers \in Nat
      /\ vPublisher = "reading" /\ uPublisher = "reading" /\ delivering = "no"
  BY DEF Route, Scanning, Accounts
<1>4. read' \in [Kinds -> Nat]
  BY <1>2, <1>3
<1>5. CASE kind = "velocity" /\ Velocity!Offer /\ UNCHANGED <<unhandled, delivering>>
  <2>1. /\ read'["velocity"] = read["velocity"] + 1
        /\ read'["unknown"] = read["unknown"] /\ read'["response"] = read["response"]
    BY <1>3, <1>5 DEF Kinds
  <2> QED
    BY <1>2, <1>3, <1>4, <1>5, <2>1 DEF Accounts, InHand, Velocity!Offer, unhandled
<1>6. CASE kind # "velocity" /\ Unhandled!Offer /\ UNCHANGED <<velocity, delivering>>
  <2>1. /\ read'["velocity"] = read["velocity"]
        /\ read'["unknown"] + read'["response"] = read["unknown"] + read["response"] + 1
    BY <1>2, <1>3, <1>6 DEF Kinds
  <2> QED
    BY <1>2, <1>3, <1>4, <1>6, <2>1 DEF Accounts, InHand, Unhandled!Offer, velocity
<1>7. CASE /\ kind = "response"
           /\ delivering' = "yes" /\ UNCHANGED <<velocity, unhandled, done>>
  <2>1. /\ read'["velocity"] = read["velocity"]
        /\ read'["unknown"] + read'["response"] = read["unknown"] + read["response"] + 1
    BY <1>2, <1>3, <1>7 DEF Kinds
  <2> QED
    BY <1>2, <1>3, <1>4, <1>7, <2>1 DEF Accounts, InHand, velocity, unhandled
<1> QED
  BY <1>5, <1>6, <1>7 DEF Route

LEMMA AccountsStep == Accounts /\ [Next]_vars => Accounts'
<1> SUFFICES ASSUME Accounts, [Next]_vars PROVE Accounts'
  OBVIOUS
<1> USE DEF Accounts, InHand, velocity, unhandled, line
<1>1. CASE Route
  BY <1>1, RouteAccounts
<1>2. CASE Deliver
  BY <1>2 DEF Deliver
<1>3. CASE Stop
  BY <1>3 DEF Stop, Velocity!Refuse, Unhandled!Refuse, Velocity!ring, Unhandled!ring
<1>4. CASE VelocityBroker
  <2>1. UNCHANGED <<unhandled, inbound, delivering, answers, read>>
    BY <1>4 DEF VelocityBroker
  <2>2. /\ vAccepted' \in Nat /\ vPublisher' \in {"reading", "offering", "stopped"}
        /\ vAccepted' + InHand(vPublisher') = vAccepted + InHand(vPublisher)
    <3>1. CASE Velocity!Input
      BY <3>1 DEF Velocity!Input
    <3>2. CASE Velocity!Check \/ Velocity!SelectDone
      BY <3>2 DEF Velocity!Check, Velocity!SelectDone
    <3> QED BY <1>4, <3>1, <3>2 DEF VelocityBroker, Velocity!BrokerStep
  <2> HIDE DEF InHand
  <2>3. InHand(vPublisher') \in Nat /\ InHand(vPublisher) \in Nat /\ InHand(uPublisher) \in Nat
    BY DEF InHand
  <2> QED BY <2>1, <2>2, <2>3
<1>5. CASE UnhandledBroker
  <2>1. UNCHANGED <<velocity, inbound, delivering, answers, read>>
    BY <1>5 DEF UnhandledBroker
  <2>2. /\ uAccepted' \in Nat /\ uPublisher' \in {"reading", "offering", "stopped"}
        /\ uAccepted' + InHand(uPublisher') = uAccepted + InHand(uPublisher)
    <3>1. CASE Unhandled!Input
      BY <3>1 DEF Unhandled!Input
    <3>2. CASE Unhandled!Check \/ Unhandled!SelectDone
      BY <3>2 DEF Unhandled!Check, Unhandled!SelectDone
    <3> QED BY <1>5, <3>1, <3>2 DEF UnhandledBroker, Unhandled!BrokerStep
  <2> HIDE DEF InHand
  <2>3. InHand(uPublisher') \in Nat /\ InHand(uPublisher) \in Nat /\ InHand(vPublisher) \in Nat
    BY DEF InHand
  <2> QED BY <2>1, <2>2, <2>3
<1>6. CASE VelocityConsumer
  BY <1>6 DEF VelocityConsumer, Velocity!Output
<1>7. CASE UnhandledConsumer
  BY <1>7 DEF UnhandledConsumer, Unhandled!Output
<1>8. CASE Issue
  BY <1>8 DEF Issue
<1>9. CASE GiveUp
  BY <1>9 DEF GiveUp
<1>10. CASE Send
  BY <1>10 DEF Send, Kinds
<1>11. CASE End
  BY <1>11 DEF End, Velocity!End, Unhandled!End, Velocity!ring, Unhandled!ring
<1>12. CASE UNCHANGED vars
  BY <1>12 DEF vars
<1> QED
  BY <1>1, <1>2, <1>3, <1>4, <1>5, <1>6, <1>7, <1>8, <1>9, <1>10, <1>11, <1>12
  DEF Next, Reader

\* So all that is proved of one stream holds of both.
LEMMA EachIsAStream == Spec => VelocityFacts!Spec /\ UnhandledFacts!Spec
<1>1. Velocity!Spec => VelocityFacts!Spec
  BY VelocitySame, PTL DEF Velocity!Spec, VelocityFacts!Spec
<1>2. Unhandled!Spec => UnhandledFacts!Spec
  BY UnhandledSame, PTL DEF Unhandled!Spec, UnhandledFacts!Spec
<1> QED
  BY <1>1, <1>2, StreamsAreStreams, PTL

\* What each stream proves of itself: accepted reports are delivered, counted as
\* dropped, or retained.
LEMMA StreamsAccount ==
  Spec => /\ [](vAccepted = vSample.report + vDropped + vSize)
          /\ [](uAccepted = uSample.report + uDropped + uSize)
<1>1. Capacity \in Nat \ {0} /\ MaxFrames \in Nat
  BY BoundsAssumption
<1>2. VelocityFacts!Spec => []VelocityFacts!NothingUnaccounted
  BY <1>1, VelocityFacts!LossIsExact
<1>3. UnhandledFacts!Spec => []UnhandledFacts!NothingUnaccounted
  BY <1>1, UnhandledFacts!LossIsExact
<1>4. VelocityFacts!NothingUnaccounted => vAccepted = vSample.report + vDropped + vSize
  BY DEF VelocityFacts!NothingUnaccounted
<1>5. UnhandledFacts!NothingUnaccounted => uAccepted = uSample.report + uDropped + uSize
  BY DEF UnhandledFacts!NothingUnaccounted
<1> QED
  BY <1>2, <1>3, <1>4, <1>5, EachIsAStream, PTL

\* Every frame the reader took was delivered by its stream, counted in that
\* stream's losses, is retained there, in the reader's hand, or was the answer
\* of a command: no stream pays for another, and no frame is lost in silence.
THEOREM NoFrameIsLost == Spec => []FramesAreAccountedFor
<1>1. Spec => []Accounts
  BY AccountsInit, AccountsStep, PTL DEF Spec
<1>2. /\ Accounts
      /\ vAccepted = vSample.report + vDropped + vSize
      /\ uAccepted = uSample.report + uDropped + uSize
      => FramesAreAccountedFor
  BY DEF Accounts, FramesAreAccountedFor
<1> QED
  BY <1>1, <1>2, StreamsAccount, PTL
-----------------------------------------------------------------------------
\* What consumers see of either stream, whatever goes on in the other one and
\* with the commands: gaps between samples are told exactly, and only a full
\* ring makes one (stream.go:51-70).
THEOREM GapsAreReportedBeside ==
  Spec => /\ [][VelocityFacts!LossIsTheGap]_velocity
          /\ [][UnhandledFacts!LossIsTheGap]_unhandled
<1>1. Capacity \in Nat \ {0} /\ MaxFrames \in Nat
  BY BoundsAssumption
<1>2. VelocityFacts!Spec => [][VelocityFacts!LossIsTheGap]_VelocityFacts!vars
  BY <1>1, VelocityFacts!GapsAreReported
<1>3. UnhandledFacts!Spec => [][UnhandledFacts!LossIsTheGap]_UnhandledFacts!vars
  BY <1>1, UnhandledFacts!GapsAreReported
<1>4. /\ [VelocityFacts!LossIsTheGap]_VelocityFacts!vars
         => [VelocityFacts!LossIsTheGap]_velocity
      /\ [UnhandledFacts!LossIsTheGap]_UnhandledFacts!vars
         => [UnhandledFacts!LossIsTheGap]_unhandled
  BY DEF VelocityFacts!vars, VelocityFacts!ring, UnhandledFacts!vars, UnhandledFacts!ring,
         velocity, unhandled
<1> QED
  BY <1>2, <1>3, <1>4, EachIsAStream, PTL

\* Each stream, beside the other and the commands, is the bounded drop-oldest
\* queue its consumers are promised (conn.go:210-213).
THEOREM BothKeepPromise ==
  Spec => VelocityFacts!ImplementsDropOldest /\ UnhandledFacts!ImplementsDropOldest
<1>1. Capacity \in Nat \ {0} /\ MaxFrames \in Nat
  BY BoundsAssumption
<1>2. VelocityFacts!Spec => VelocityFacts!ImplementsDropOldest
  BY <1>1, VelocityFacts!StreamKeepsPromise
<1>3. UnhandledFacts!Spec => UnhandledFacts!ImplementsDropOldest
  BY <1>1, UnhandledFacts!StreamKeepsPromise
<1> QED
  BY <1>2, <1>3, EachIsAStream, PTL
=============================================================================
