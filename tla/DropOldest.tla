----------------------------- MODULE DropOldest -----------------------------
(***************************************************************************)
(* What a report stream of a connection promises its consumers: a bounded  *)
(* queue that never refuses a report while the connection lives, delivers  *)
(* the retained reports in the order the device sent them, and tells each  *)
(* receiver exactly how many older reports were discarded since the        *)
(* previous delivery.  It is the contract in conn.go:210-213 and           *)
(* report.go's Sample, with no buffer in it: reports are numbered by their *)
(* acceptance, so the retained ones are an interval of numbers.            *)
(***************************************************************************)
EXTENDS Naturals

CONSTANT Capacity   \* how many reports the stream retains

VARIABLES
  accepted,    \* reports accepted so far; also the number of the newest one
  lost,        \* reports discarded since the last delivery
  sample,      \* the last delivered sample
  open         \* FALSE once the stream is closed

vars == <<accepted, lost, sample, open>>

\* Report 0 stands for "nothing delivered yet".
NoSample == [report |-> 0, droppedBefore |-> 0]

Oldest == sample.report + lost + 1
Retained == Oldest .. accepted

Init ==
  /\ accepted = 0
  /\ lost = 0
  /\ sample = NoSample
  /\ open = TRUE

\* A report enters, however many came before; when the stream is full the
\* oldest retained one is lost.
Accept ==
  /\ open
  /\ accepted' = accepted + 1
  /\ lost' = IF accepted + 1 - Oldest = Capacity THEN lost + 1 ELSE lost
  /\ UNCHANGED <<sample, open>>

\* The oldest retained report leaves, labelled with the loss before it.
Deliver ==
  /\ open
  /\ Oldest \in Retained
  /\ sample' = [report |-> Oldest, droppedBefore |-> lost]
  /\ lost' = 0
  /\ UNCHANGED <<accepted, open>>

\* The connection ended: what is retained is discarded with the stream.
Close ==
  /\ open
  /\ open' = FALSE
  /\ UNCHANGED <<accepted, lost, sample>>

Next == Accept \/ Deliver \/ Close

Spec == Init /\ [][Next]_vars
=============================================================================
