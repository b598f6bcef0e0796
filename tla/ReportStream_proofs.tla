------------------------ MODULE ReportStream_proofs ------------------------
(***************************************************************************)
(* Proofs about the report stream, for every capacity and every number of  *)
(* reports.  The argument is one inductive invariant: the ring, read from  *)
(* its head, is the interval of report numbers that follows the last       *)
(* delivery and the counted losses.  Everything a consumer relies on       *)
(* follows from it.                                                        *)
(***************************************************************************)
EXTENDS ReportStream, TLAPS

\* Why at most one sample is late: while the connection lives none is, and a
\* broker that delivered one late is back at its check, which ends it.
LateOnce ==
  /\ ~done => late = 0
  /\ late = 0 \/ (late = 1 /\ broker # "select")

RingInv == TypeOK /\ NothingUnaccounted /\ RingHoldsNewest
StreamInv == RingInv /\ LateOnce
-----------------------------------------------------------------------------
\* The ring's arithmetic, without the remainder: from a slot, up to one whole
\* turn ahead.
LEMMA SlotAfterUnfolds ==
  ASSUME NEW from \in Slots, NEW offset \in 0 .. Capacity
  PROVE  SlotAfter(from, offset) =
           IF from + offset < Capacity THEN from + offset
                                       ELSE from + offset - Capacity
  BY CapacityAssumption DEF SlotAfter, Slots

\* It stays in the ring, and less than a turn apart no two offsets meet.
LEMMA SlotAfterInRing ==
  ASSUME NEW from \in Slots, NEW offset \in 0 .. Capacity
  PROVE  SlotAfter(from, offset) \in Slots
  BY SlotAfterUnfolds, CapacityAssumption DEF Slots

LEMMA SlotAfterInjective ==
  ASSUME NEW from \in Slots, NEW i \in 0 .. Capacity - 1,
         NEW j \in 0 .. Capacity - 1, i # j
  PROVE  SlotAfter(from, i) # SlotAfter(from, j)
  BY SlotAfterUnfolds, CapacityAssumption DEF Slots

\* Advancing the head by one shifts every offset by one.
LEMMA SlotAfterShifts ==
  ASSUME NEW from \in Slots, NEW i \in 0 .. Capacity - 1
  PROVE  SlotAfter(SlotAfter(from, 1), i) = SlotAfter(from, i + 1)
  <1>1. 1 \in 0 .. Capacity /\ i \in 0 .. Capacity /\ i + 1 \in 0 .. Capacity
    BY CapacityAssumption
  <1>2. SlotAfter(from, 1) \in Slots
    BY <1>1, SlotAfterInRing
  <1> QED
    BY <1>1, <1>2, SlotAfterUnfolds, CapacityAssumption DEF Slots

LEMMA SlotAfterNothing ==
  ASSUME NEW from \in Slots
  PROVE  SlotAfter(from, 0) = from /\ SlotAfter(from, Capacity) = from
  BY SlotAfterUnfolds, CapacityAssumption DEF Slots
-----------------------------------------------------------------------------
LEMMA RingInvInit == Init => RingInv
  <1> SUFFICES ASSUME Init PROVE RingInv
    OBVIOUS
  <1>1. TypeOK
    <2>1. queue \in [Slots -> Nat] /\ sample \in [report : Nat, droppedBefore : Nat]
      BY DEF Init, Zero, NoSample
    <2>2. 0 \in Slots /\ 0 \in 0 .. Capacity
      BY CapacityAssumption DEF Slots
    <2> QED
      BY <2>1, <2>2 DEF Init, TypeOK
  <1>2. NothingUnaccounted
    BY DEF Init, NothingUnaccounted, Zero, NoSample
  <1>3. RingHoldsNewest
    BY <1>1, SlotAfterInRing, CapacityAssumption DEF Init, RingHoldsNewest, TypeOK
  <1> QED
    BY <1>1, <1>2, <1>3 DEF RingInv

\* A report that finds a free slot goes right after the retained ones.
LEMMA InputWithRoom ==
  ASSUME RingInv, Input, size < Capacity
  PROVE  RingInv'
  <1> DEFINE slot == SlotAfter(head, size)
  <1>1. /\ queue' = [queue EXCEPT ![slot] = accepted + 1]
        /\ head' = head
        /\ size' = size + 1
        /\ dropped' = dropped
        /\ accepted' = accepted + 1
        /\ sample' = sample
    BY CapacityAssumption DEF Input, Enqueue, RingInv, TypeOK
  <1>2. slot \in Slots
    BY SlotAfterInRing, CapacityAssumption DEF RingInv, TypeOK
  <1>3. TypeOK'
    BY <1>1, <1>2, CapacityAssumption DEF Input, RingInv, TypeOK
  <1>4. NothingUnaccounted'
    BY <1>1, CapacityAssumption DEF RingInv, NothingUnaccounted, TypeOK
  <1>5. \A i \in 0 .. Capacity - 1 :
          queue'[SlotAfter(head', i)] =
            IF i = size THEN accepted + 1 ELSE queue[SlotAfter(head, i)]
    BY <1>1, <1>2, SlotAfterInjective, SlotAfterInRing, CapacityAssumption DEF RingInv, TypeOK
  <1>6. RingHoldsNewest'
    BY <1>1, <1>5, CapacityAssumption DEF RingInv, RingHoldsNewest, NothingUnaccounted, TypeOK
  <1> QED
    BY <1>3, <1>4, <1>6 DEF RingInv

\* A report that finds the ring full takes the slot of the oldest one, and
\* the head moves past it.
LEMMA InputWhenFull ==
  ASSUME RingInv, Input, size = Capacity
  PROVE  RingInv'
  <1>1. /\ SlotAfter(SlotAfter(head, 1), size - 1) = head
        /\ SlotAfter(head, 1) \in Slots
    BY SlotAfterShifts, SlotAfterNothing, SlotAfterInRing, CapacityAssumption
    DEF RingInv, TypeOK
  <1>2. /\ queue' = [queue EXCEPT ![head] = accepted + 1]
        /\ head' = SlotAfter(head, 1)
        /\ size' = size
        /\ dropped' = dropped + 1
        /\ accepted' = accepted + 1
        /\ sample' = sample
    BY <1>1, CapacityAssumption DEF Input, Enqueue, RingInv, TypeOK
  <1>3. TypeOK'
    BY <1>1, <1>2, CapacityAssumption DEF Input, RingInv, TypeOK, Zero
  <1>4. NothingUnaccounted'
    BY <1>2, CapacityAssumption DEF RingInv, NothingUnaccounted, TypeOK
  <1>5. ASSUME NEW i \in 0 .. Capacity - 1
        PROVE  queue'[SlotAfter(head', i)] = (sample'.report + dropped' + i + 1)
    <2>1. SlotAfter(head', i) = SlotAfter(head, i + 1)
      BY <1>2, SlotAfterShifts, CapacityAssumption DEF RingInv, TypeOK
    <2>2. CASE i = Capacity - 1
      <3>1. SlotAfter(head, i + 1) = head
        BY <2>2, SlotAfterNothing, CapacityAssumption DEF RingInv, TypeOK
      <3> QED
        BY <1>2, <2>1, <2>2, <3>1, CapacityAssumption
        DEF RingInv, NothingUnaccounted, TypeOK
    <2>3. CASE i < Capacity - 1
      <3>1. i + 1 \in 0 .. Capacity - 1
        BY <2>3, CapacityAssumption
      <3>2. SlotAfter(head, i + 1) # head
        BY <3>1, SlotAfterInjective, SlotAfterNothing, CapacityAssumption
        DEF RingInv, TypeOK
      <3>3. queue'[SlotAfter(head, i + 1)] = queue[SlotAfter(head, i + 1)]
        BY <1>2, <3>1, <3>2, SlotAfterInRing, CapacityAssumption DEF RingInv, TypeOK
      <3>4. queue[SlotAfter(head, i + 1)] = sample.report + dropped + (i + 1) + 1
        BY <3>1 DEF RingInv, RingHoldsNewest
      <3> QED
        BY <1>2, <2>1, <3>3, <3>4, CapacityAssumption DEF RingInv, TypeOK
    <2> QED
      BY <2>2, <2>3, CapacityAssumption
  <1>6. RingHoldsNewest'
    <2>1. size' = Capacity
      BY <1>2
    <2> QED
      BY <2>1, <1>5, CapacityAssumption DEF RingHoldsNewest
  <1> QED
    BY <1>3, <1>4, <1>6 DEF RingInv

\* A delivery takes the head's slot and empties it; the sample continues the
\* numbering exactly after the losses it reports.
LEMMA OutputKeeps ==
  ASSUME RingInv, Output
  PROVE  RingInv' /\ sample' = [report |-> sample.report + dropped + 1,
                                droppedBefore |-> dropped]
  <1>1. queue[head] = sample.report + dropped + 1
    <2>1. 0 \in 0 .. size - 1
      BY CapacityAssumption DEF RingInv, TypeOK, Output
    <2>2. queue[SlotAfter(head, 0)] = sample.report + dropped + 0 + 1
      BY <2>1 DEF RingInv, RingHoldsNewest
    <2> QED
      BY <2>2, SlotAfterNothing, CapacityAssumption DEF RingInv, TypeOK
  <1>2. sample' = [report |-> sample.report + dropped + 1, droppedBefore |-> dropped]
    BY <1>1 DEF Output
  <1>3. SlotAfter(head, 1) \in Slots
    BY SlotAfterInRing, CapacityAssumption DEF RingInv, TypeOK
  <1>4. TypeOK'
    BY <1>2, <1>3, CapacityAssumption DEF Output, RingInv, TypeOK, Zero
  <1>5. NothingUnaccounted'
    BY <1>2, CapacityAssumption DEF Output, RingInv, NothingUnaccounted, TypeOK
  <1>6. ASSUME NEW i \in 0 .. Capacity - 1
        PROVE  queue'[SlotAfter(head', i)] =
                 IF i < size - 1 THEN sample'.report + dropped' + i + 1 ELSE Zero
    <2>1. SlotAfter(head', i) = SlotAfter(head, i + 1)
      BY SlotAfterShifts, CapacityAssumption DEF RingInv, TypeOK, Output
    <2>2. CASE i = Capacity - 1
      <3>1. SlotAfter(head, i + 1) = head
        BY <2>2, SlotAfterNothing, CapacityAssumption DEF RingInv, TypeOK
      <3> QED
        BY <2>1, <2>2, <3>1, CapacityAssumption DEF Output, RingInv, TypeOK
    <2>3. CASE i < Capacity - 1
      <3>1. i + 1 \in 0 .. Capacity - 1
        BY <2>3, CapacityAssumption
      <3>2. SlotAfter(head, i + 1) # head
        BY <3>1, SlotAfterInjective, SlotAfterNothing, CapacityAssumption
        DEF RingInv, TypeOK
      <3>3. queue'[SlotAfter(head, i + 1)] = queue[SlotAfter(head, i + 1)]
        BY <3>1, <3>2, SlotAfterInRing, CapacityAssumption DEF Output, RingInv, TypeOK
      <3>4. queue[SlotAfter(head, i + 1)] =
              IF i + 1 < size THEN sample.report + dropped + (i + 1) + 1 ELSE Zero
        BY <3>1, CapacityAssumption DEF RingInv, RingHoldsNewest, TypeOK
      <3> QED
        BY <1>2, <2>1, <3>3, <3>4, CapacityAssumption DEF Output, RingInv, TypeOK
    <2> QED
      BY <2>2, <2>3, CapacityAssumption
  <1>7. RingHoldsNewest'
    BY <1>6, CapacityAssumption DEF Output, RingInv, RingHoldsNewest, TypeOK
  <1> QED
    BY <1>2, <1>4, <1>5, <1>7 DEF RingInv

LEMMA RingInvStep == RingInv /\ [Next]_vars => RingInv'
  <1> SUFFICES ASSUME RingInv, [Next]_vars PROVE RingInv'
    OBVIOUS
  <1> USE DEF RingInv, TypeOK, NothingUnaccounted, RingHoldsNewest, SlotAfter, ring
  <1>1. CASE Offer
    BY <1>1 DEF Offer
  <1>2. CASE Refuse
    BY <1>2 DEF Refuse
  <1>3. CASE Check
    BY <1>3 DEF Check
  <1>4. CASE SelectDone
    BY <1>4 DEF SelectDone
  <1>5. CASE Input
    BY <1>5, InputWithRoom, InputWhenFull, CapacityAssumption
  <1>6. CASE Output
    BY <1>6, OutputKeeps
  <1>7. CASE End
    BY <1>7 DEF End
  <1>8. CASE UNCHANGED vars
    BY <1>8 DEF vars
  <1> QED
    BY <1>1, <1>2, <1>3, <1>4, <1>5, <1>6, <1>7, <1>8 DEF Next

LEMMA LateOnceStep == RingInv /\ LateOnce /\ [Next]_vars => LateOnce'
  <1> SUFFICES ASSUME TypeOK, LateOnce, [Next]_vars PROVE LateOnce'
    BY DEF RingInv
  <1> USE DEF TypeOK, LateOnce
  <1>1. CASE Offer
    BY <1>1 DEF Offer
  <1>2. CASE Refuse
    BY <1>2 DEF Refuse
  <1>3. CASE Check
    BY <1>3 DEF Check
  <1>4. CASE SelectDone
    BY <1>4 DEF SelectDone
  <1>5. CASE Input
    BY <1>5 DEF Input
  <1>6. CASE Output
    BY <1>6 DEF Output
  <1>7. CASE End
    BY <1>7 DEF End
  <1>8. CASE UNCHANGED vars
    BY <1>8 DEF vars
  <1> QED
    BY <1>1, <1>2, <1>3, <1>4, <1>5, <1>6, <1>7, <1>8 DEF Next

LEMMA StreamInvariant == Spec => []StreamInv
  <1>1. Init => StreamInv
    BY RingInvInit DEF Init, StreamInv, LateOnce
  <1>2. StreamInv /\ [Next]_vars => StreamInv'
    BY RingInvStep, LateOnceStep DEF StreamInv
  <1> QED
    BY <1>1, <1>2, PTL DEF Spec
-----------------------------------------------------------------------------
\* The state of a stream always has its shape.
THEOREM TypeCorrect == Spec => []TypeOK
  BY StreamInvariant, PTL DEF StreamInv, RingInv

\* The loss a consumer is told is exact: every report the broker accepted was
\* delivered, is counted as dropped, or is still retained (stream.go:51-70).
THEOREM LossIsExact == Spec => []NothingUnaccounted
  BY StreamInvariant, PTL DEF StreamInv, RingInv

\* The ring holds the newest reports in order and keeps nothing it has given
\* away (stream.go:55-63, 65-68).
THEOREM RingIsOrdered == Spec => []RingHoldsNewest
  BY StreamInvariant, PTL DEF StreamInv, RingInv

\* At most one sample reaches consumers after the connection ended
\* (stream.go:38-42).
THEOREM LateDeliveries == Spec => []AtMostOneLate
  <1>1. StreamInv => AtMostOneLate
    BY DEF StreamInv, RingInv, TypeOK, LateOnce, AtMostOneLate
  <1> QED
    BY <1>1, StreamInvariant, PTL
-----------------------------------------------------------------------------
LEMMA StreamStepImplements ==
  StreamInv /\ [Next]_vars => [Promise!Next]_Promise!vars
  <1> SUFFICES ASSUME RingInv, [Next]_vars PROVE [Promise!Next]_Promise!vars
    BY DEF StreamInv
  <1> USE DEF Promise!vars
  <1>1. CASE Offer
    BY <1>1 DEF Offer, ring
  <1>2. CASE Refuse
    BY <1>2 DEF Refuse, ring
  <1>3. CASE Check
    <2>1. CASE done
      BY <1>3, <2>1 DEF Check, ring, Promise!Next, Promise!Close
    <2>2. CASE ~done
      BY <1>3, <2>2 DEF Check, ring
    <2> QED
      BY <2>1, <2>2
  <1>4. CASE SelectDone
    BY <1>4 DEF SelectDone, ring, Promise!Next, Promise!Close
  <1>5. CASE Input
    <2>1. accepted + 1 - Promise!Oldest = size
      BY CapacityAssumption
      DEF RingInv, TypeOK, NothingUnaccounted, Promise!Oldest
    <2> QED
      BY <1>5, <2>1, CapacityAssumption DEF Input, Enqueue, Promise!Next, Promise!Accept
  <1>6. CASE Output
    <2>1. Promise!Oldest = sample.report + dropped + 1
      BY DEF Promise!Oldest
    <2>2. Promise!Oldest \in Promise!Retained
      BY <1>6, <2>1, CapacityAssumption
      DEF Output, RingInv, TypeOK, NothingUnaccounted, Promise!Retained
    <2> QED
      BY <1>6, <2>1, <2>2, OutputKeeps DEF Output, Promise!Next, Promise!Deliver
  <1>7. CASE End
    BY <1>7 DEF End, ring
  <1>8. CASE UNCHANGED vars
    BY <1>8 DEF vars, ring
  <1> QED
    BY <1>1, <1>2, <1>3, <1>4, <1>5, <1>6, <1>7, <1>8 DEF Next

\* The ring buffer implements the bounded drop-oldest queue consumers are
\* promised (conn.go:210-213).
THEOREM StreamKeepsPromise == Spec => ImplementsDropOldest
  <1>1. Init => Promise!Init
    BY DEF Init, Zero, NoSample, Promise!Init, Promise!NoSample
  <1> QED
    BY <1>1, StreamInvariant, StreamStepImplements, PTL
    DEF Spec, ImplementsDropOldest, Promise!Spec
-----------------------------------------------------------------------------
\* What a consumer can rely on from one sample to the next: the reports come in
\* the order of their arrival, and DroppedBefore is the number of those that
\* are missing in between; and a report is given up only for the newest of a
\* full ring (stream.go:51-70, report.go:14-17).
LossIsTheGap ==
  /\ sample' # sample =>
       /\ sample'.report > sample.report
       /\ sample'.droppedBefore = sample'.report - sample.report - 1
  /\ dropped' > dropped => size' = Capacity /\ accepted' = accepted + 1

THEOREM GapsAreReported == Spec => [][LossIsTheGap]_vars
  <1>1. StreamInv /\ [Next]_vars => [LossIsTheGap]_vars
    <2> SUFFICES ASSUME StreamInv, Next PROVE LossIsTheGap
      BY DEF LossIsTheGap, vars, ring
    <2>1. RingInv /\ TypeOK
      BY DEF StreamInv, RingInv
    <2>2. CASE Offer \/ Refuse \/ Check \/ SelectDone \/ End
      BY <2>1, <2>2 DEF Offer, Refuse, Check, SelectDone, End, ring, TypeOK, LossIsTheGap
    <2>3. CASE Input
      BY <2>1, <2>3, CapacityAssumption DEF Input, Enqueue, TypeOK, LossIsTheGap
    <2>4. CASE Output
      <3>1. sample' = [report |-> sample.report + dropped + 1, droppedBefore |-> dropped]
        BY <2>1, <2>4, OutputKeeps
      <3>2. sample.report \in Nat /\ dropped \in Nat /\ dropped' = 0
        BY <2>1, <2>4 DEF TypeOK, Output
      <3> QED
        BY <3>1, <3>2 DEF LossIsTheGap
    <2> QED
      BY <2>2, <2>3, <2>4 DEF Next
  <1> QED
    BY <1>1, StreamInvariant, PTL DEF Spec
=============================================================================
