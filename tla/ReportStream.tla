---------------------------- MODULE ReportStream ----------------------------
(***************************************************************************)
(* One report stream of a connection (stream.go): the broker goroutine     *)
(* between the reader, which publishes, and the consumers, which receive   *)
(* from an unbuffered channel whenever they like, or never.                *)
(*                                                                         *)
(* A report is the number of its acceptance, 1, 2, ...; 0 is Go's zero     *)
(* value in a vacated slot.  A receive by any consumer is one step of the  *)
(* broker (an unbuffered channel is a rendezvous).                         *)
(***************************************************************************)
EXTENDS Integers

CONSTANTS
  Capacity,    \* len(queue); Dial rejects a negative one and defaults zero
  MaxReports   \* bound: how many reports one behaviour publishes

ASSUME CapacityAssumption == Capacity \in Nat \ {0}
ASSUME MaxReportsAssumption == MaxReports \in Nat

VARIABLES
  broker,      \* where run() is: at its priority check, in its select, gone
  queue,       \* the ring's slots
  head,        \* slot of the oldest retained report
  size,        \* how many reports are retained
  dropped,     \* reports discarded since the last delivery
  publisher,   \* where the reader is with respect to this stream
  accepted,    \* reports the broker has taken from its input
  done,        \* the connection's Done channel is closed
  sample,      \* the last sample a consumer received
  late         \* how many samples were received after done closed

ring == <<queue, head, size, dropped>>
vars == <<broker, ring, publisher, accepted, done, sample, late>>

Slots == 0 .. Capacity - 1
Zero == 0
NoSample == [report |-> Zero, droppedBefore |-> 0]

\* The slot `offset` places after slot `from`, around the ring.
\* Mutant: the ring's arithmetic is taken modulo one slot too few.
SlotAfterShort(from, offset) ==
  IF Capacity = 1 THEN 0 ELSE (from + offset) % (Capacity - 1)
SlotAfter(from, offset) == (from + offset) % Capacity

Init ==
  /\ broker = "check"
  /\ queue = [s \in Slots |-> Zero]
  /\ head = 0
  /\ size = 0
  /\ dropped = 0
  /\ publisher = "reading"
  /\ accepted = 0
  /\ done = FALSE
  /\ sample = NoSample
  /\ late = 0
-----------------------------------------------------------------------------
(* The reader.                                                             *)

\* readMessages decoded a report of this stream's type and calls publish.
Offer ==
  /\ publisher = "reading"
  /\ accepted < MaxReports
  /\ publisher' = "offering"
  /\ UNCHANGED <<broker, ring, accepted, done, sample, late>>

\* publish's select takes its done case: the report is not accepted.
Refuse ==
  /\ publisher = "offering"
  /\ done
  /\ publisher' = "stopped"
  /\ UNCHANGED <<broker, ring, accepted, done, sample, late>>
-----------------------------------------------------------------------------
(* The broker.                                                             *)

\* The select with a default at the top of every iteration.
\* Mutant: the priority check is gone, only the blocking select sees done.
CheckNever ==
  /\ broker = "check"
  /\ broker' = "select"
  /\ UNCHANGED <<ring, publisher, accepted, done, sample, late>>

Check ==
  /\ broker = "check"
  /\ broker' = IF done THEN "closed" ELSE "select"
  /\ UNCHANGED <<ring, publisher, accepted, done, sample, late>>

\* Mutant: a broker that still retains reports waits for them to be taken.
SelectDoneDrained ==
  /\ broker = "select" /\ done /\ size = 0
  /\ broker' = "closed"
  /\ UNCHANGED <<ring, publisher, accepted, done, sample, late>>
SelectDone ==
  /\ broker = "select"
  /\ done
  /\ broker' = "closed"
  /\ UNCHANGED <<ring, publisher, accepted, done, sample, late>>

\* The newest report goes into the slot after the retained ones; when no slot
\* is free the oldest report is dropped first.
\* Mutants: the full ring is not noticed; the newest report is dropped.
EnqueueUnbounded(report) ==
  /\ queue' = [queue EXCEPT ![SlotAfter(head, size)] = report]
  /\ size' = size + 1
  /\ UNCHANGED <<head, dropped>>
EnqueueDropNewest(report) ==
  \/ /\ size < Capacity
     /\ queue' = [queue EXCEPT ![SlotAfter(head, size)] = report]
     /\ size' = size + 1
     /\ UNCHANGED <<head, dropped>>
  \/ size = Capacity /\ dropped' = dropped + 1 /\ UNCHANGED <<queue, head, size>>
Enqueue(report) ==
  \/ /\ size < Capacity
     /\ queue' = [queue EXCEPT ![SlotAfter(head, size)] = report]
     /\ size' = size + 1
     /\ UNCHANGED <<head, dropped>>
  \/ /\ size = Capacity
     /\ head' = SlotAfter(head, 1)
     /\ queue' = [queue EXCEPT ![head] = Zero,
                               ![SlotAfter(head', size - 1)] = report]
     /\ dropped' = dropped + 1
     /\ size' = size

\* The publisher and the broker meet on input.  Both selects also wait on
\* done, and closing done resolves every select that is parked on it, so the
\* two never meet once it is closed.
\* Mutant: a full broker stops listening to its input.
InputWhenRoom ==
  /\ broker = "select"
  /\ publisher = "offering"
  /\ ~done
  /\ size < Capacity
  /\ Enqueue(accepted + 1)
  /\ accepted' = accepted + 1
  /\ publisher' = "reading"
  /\ broker' = "check"
  /\ UNCHANGED <<done, sample, late>>

Input ==
  /\ broker = "select"
  /\ publisher = "offering"
  /\ ~done
  /\ Enqueue(accepted + 1)
  /\ accepted' = accepted + 1
  /\ publisher' = "reading"
  /\ broker' = "check"
  /\ UNCHANGED <<done, sample, late>>

\* A consumer takes the oldest report, with the loss that precedes it.  Only
\* the broker's side of this meeting also waits on done, so it is still
\* possible for a broker that passed its check before done closed.
\* Mutant: the loss counter survives the delivery that reported it.
OutputKeepingDropped ==
  /\ broker = "select"
  /\ size # 0
  /\ sample' = [report |-> queue[head], droppedBefore |-> dropped]
  /\ queue' = [queue EXCEPT ![head] = Zero]
  /\ head' = SlotAfter(head, 1)
  /\ size' = size - 1
  /\ late' = IF done THEN late + 1 ELSE late
  /\ broker' = "check"
  /\ UNCHANGED <<dropped, publisher, accepted, done>>

Output ==
  /\ broker = "select"
  /\ size # 0
  /\ sample' = [report |-> queue[head], droppedBefore |-> dropped]
  /\ queue' = [queue EXCEPT ![head] = Zero]
  /\ head' = SlotAfter(head, 1)
  /\ size' = size - 1
  /\ dropped' = 0
  /\ late' = IF done THEN late + 1 ELSE late
  /\ broker' = "check"
  /\ UNCHANGED <<publisher, accepted, done>>
-----------------------------------------------------------------------------
\* Some part of the connection calls terminate, at any time.
End ==
  /\ ~done
  /\ done' = TRUE
  /\ UNCHANGED <<broker, ring, publisher, accepted, sample, late>>

Next ==
  \/ Offer \/ Refuse
  \/ Check \/ SelectDone \/ Input \/ Output
  \/ End

\* The broker and publisher goroutines are scheduled by the Go runtime.  No
\* fairness of Output (a consumer may be absent), of Offer or of End.
BrokerStep == Check \/ SelectDone \/ Input

Spec == Init /\ [][Next]_vars
FairSpec == Spec /\ WF_vars(BrokerStep) /\ WF_vars(Refuse)
-----------------------------------------------------------------------------
\* Types; the ring never retains more than its slots, nor points outside them
\* (stream.go:55-63).
TypeOK ==
  /\ broker \in {"check", "select", "closed"}
  /\ queue \in [Slots -> Nat]
  /\ head \in Slots
  /\ size \in 0 .. Capacity
  /\ dropped \in Nat
  /\ publisher \in {"reading", "offering", "stopped"}
  /\ accepted \in Nat
  /\ done \in BOOLEAN
  /\ sample \in [report : Nat, droppedBefore : Nat]
  /\ late \in Nat

\* Every accepted report was delivered, is counted as dropped, or is retained:
\* the loss accounting of Sample.DroppedBefore is exact (stream.go:51-70).
NothingUnaccounted == accepted = sample.report + dropped + size

\* The ring holds the newest reports in order of arrival from the head on,
\* and no vacated slot keeps a report alive (stream.go:55-63, 65-68).
RingHoldsNewest ==
  /\ \A i \in 0 .. size - 1 : queue[SlotAfter(head, i)] = sample.report + dropped + i + 1
  /\ \A i \in size .. Capacity - 1 : queue[SlotAfter(head, i)] = Zero

\* A consumer that keeps receiving after the connection ended gets at most one
\* more sample before the channel closes: what is buffered is discarded
\* (conn.go:212-213), thanks to the check at stream.go:38-42.
AtMostOneLate == late <= 1

\* The stream implements its promise to consumers: bounded, drop-oldest, in
\* order, with exact loss counts (conn.go:210-213).
Promise == INSTANCE DropOldest WITH lost <- dropped, open <- broker # "closed"
ImplementsDropOldest == Promise!Spec

\* An absent consumer cannot block the reader: whatever consumers do, publish
\* returns (conn.go:210-212, 232).
PublishReturns == publisher = "offering" ~> publisher # "offering"

\* Once the connection ended the broker exits and closes its output, with no
\* help from consumers (stream.go:30, 38-42, 52-53).
StreamCloses == done ~> broker = "closed"
=============================================================================
