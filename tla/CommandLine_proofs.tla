------------------------- MODULE CommandLine_proofs -------------------------
(* Proofs about the tool: its types, and that its exit status is true, for *)
(* every command line.                                                     *)
EXTENDS CommandLine, TLAPS

\* How far the tool is tells what it has done; nothing went wrong before it
\* returns, and what it counts down is never below zero.
Progress ==
  /\ tool \in {"args", "flags", "dial"} => conn = "none"
  /\ tool \in {"command", "write", "watch", "close"} => conn # "none"
  /\ status = "none" <=> tool \notin {"close", "exited"}
  /\ status = "none" => trouble = {}
  /\ tool \in {"flags", "dial"} => verb \in OneShots \cup {"watch"}
  /\ tool = "command" => verb \in OneShots /\ left # 0
  /\ tool = "write" => verb \in OneShots /\ left = 0
  /\ tool = "watch" => verb = "watch"

CLInv == TypeOK /\ Progress /\ StatusIsTrue

LEMMA RequestsCounted ==
  /\ \A v \in OneShots : Requests[v] \in 1 .. 3
  /\ OneShots = {"info", "configGet", "configSet", "resetDeadReckoning", "calibrateGyro"}
BY DEF Requests, OneShots

LEMMA CLInit == Init => CLInv
<1> SUFFICES ASSUME Init PROVE CLInv
  OBVIOUS
<1>1. TypeOK
  <2>1. 0 \in 0 .. 3
    OBVIOUS
  <2> QED BY <2>1 DEF Init, TypeOK
<1>2. Progress /\ StatusIsTrue
  BY DEF Init, Progress, StatusIsTrue
<1> QED BY <1>1, <1>2 DEF CLInv

LEMMA CLStep == CLInv /\ [Next]_vars => CLInv'
<1>0. SUFFICES ASSUME CLInv, [Next]_vars PROVE CLInv'
  OBVIOUS
<1>w. "watch" \notin OneShots
  BY RequestsCounted
<1> USE <1>0 DEF CLInv, TypeOK, Progress, StatusIsTrue, arguments, streams, input,
                 Goes, Returns, WentWrong
<1>1. CASE Dispatch
  BY <1>1 DEF Dispatch, Helps
<1>2. CASE Parse
  <2>1. CASE flags = "help"
    BY <1>2, <2>1 DEF Parse
  <2>2. CASE flags # "help" /\ (flags = "bad" \/ (verb = "watch" /\ duration = "negative"))
    <3>1. tool = "flags" /\ Returns("failed") /\ WentWrong("usage")
          /\ UNCHANGED <<arguments, left, streams, conn>>
      BY <1>2, <2>2 DEF Parse
    <3> QED BY <3>1
  <2>3. CASE flags # "help" /\ ~(flags = "bad" \/ (verb = "watch" /\ duration = "negative"))
    <3>1. tool = "flags" /\ Goes("dial") /\ UNCHANGED input
          /\ UNCHANGED <<arguments, left, streams, conn>>
      BY <1>2, <2>3 DEF Parse
    <3>2. verb \in OneShots \cup {"watch"}
      BY <3>1
    <3> QED BY <3>1, <3>2
  <2> QED BY <2>1, <2>2, <2>3
<1>3. CASE Dial
  BY <1>3, <1>w, RequestsCounted DEF Dial
<1>4. CASE DialFails
  BY <1>4 DEF DialFails
<1>5. CASE CallFails
  BY <1>5 DEF CallFails
<1>6. CASE Write
  BY <1>6 DEF Write, Writes
<1>7. ASSUME NEW s \in Streams, Receive(s) \/ SeeClosed(s)
      PROVE  CLInv'
  BY <1>7, <1>w DEF Receive, SeeClosed, Writes
<1>8. CASE Stop
  BY <1>8 DEF Stop
<1>9. CASE ConnectionEnded
  BY <1>9 DEF ConnectionEnded
<1>10. CASE Close
  BY <1>10 DEF Close
<1>11. CASE Answered
  BY <1>11 DEF Answered
<1>12. CASE Refused
  BY <1>12 DEF Refused
<1>13. ASSUME NEW s \in Streams, Arrive(s) \/ CloseStream(s)
       PROVE  CLInv'
  BY <1>13 DEF Arrive, CloseStream
<1>14. CASE End
  BY <1>14 DEF End
<1>15. CASE Interrupt
  BY <1>15 DEF Interrupt
<1>16. CASE Elapse
  BY <1>16 DEF Elapse
<1>17. CASE UNCHANGED vars
  BY <1>17 DEF vars
<1> QED
  BY <1>1, <1>2, <1>3, <1>4, <1>5, <1>6, <1>7, <1>8, <1>9, <1>10, <1>11, <1>12,
     <1>13, <1>14, <1>15, <1>16, <1>17 DEF Next, ToolStep

LEMMA CLKept == Spec => []CLInv
BY CLInit, CLStep, PTL DEF Spec
-----------------------------------------------------------------------------
\* Every variable of the tool has its type.
THEOREM ToolTypes == Spec => []TypeOK
<1>1. CLInv => TypeOK
  BY DEF CLInv
<1> QED BY <1>1, CLKept, PTL

\* The exit status is true: 0 only for help, for a command that was answered
\* and written in full or for a watch that was stopped, 1 only if something
\* went wrong or the tool was stopped with requests open.
THEOREM ExitStatusIsTrue == Spec => []StatusIsTrue
<1>1. CLInv => StatusIsTrue
  BY DEF CLInv
<1> QED BY <1>1, CLKept, PTL
=============================================================================
