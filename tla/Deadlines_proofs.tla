-------------------------- MODULE Deadlines_proofs --------------------------
(* Proofs about the deadlines of a connection, for every setting, every    *)
(* default and any length of time.                                         *)
EXTENDS Deadlines, TLAPS

\* Before the connection is open nothing is armed, and a setting that got past
\* Validate is not negative.
Resolved ==
  /\ phase \notin {"dial", "refused"} => \A f \in Fields : dialer[f] >= 0
  /\ phase \in {"open", "ended"} => state = Resolve
  /\ phase \notin {"open", "ended"} =>
       readDeadline = 0 /\ command = "none" /\ reason = "none" /\ ~expired /\ ~held
  /\ Open => reason = "none"

\* An armed deadline is what it should be since its wait began, and has not
\* passed: a tick that would pass it waits for the end it causes.
Armed ==
  Open =>
    /\ ~expired => readDeadline = IF IdleTimeout = 0 THEN 0 ELSE heard + IdleTimeout
    /\ ~expired /\ ~held /\ readDeadline # 0 => now <= readDeadline
    /\ command # "none" => timer = begun + CommandTimeout /\ now <= timer /\ begun <= now
    /\ command = "write" => pieces > 0

\* A reader that is held has its command, which was begun before the reader was
\* held, and so will not be held for longer than that command may take.
HeldByCommand ==
  Open /\ held =>
    /\ command # "none"
    /\ IdleTimeout # 0 =>
         /\ now <= heard + IdleTimeout + CommandTimeout
         /\ command = "write" => begun <= heard + IdleTimeout

\* An error of the scanner is noticed at once, but for the line it still had.
Expiring ==
  Open /\ expired =>
    /\ IdleTimeout # 0
    /\ heard + IdleTimeout <= now /\ now <= heard + IdleTimeout + CommandTimeout
    /\ lines <= 1
    /\ lines = 1 => ~held /\ now <= heard + IdleTimeout

DInv == TypeOK /\ Resolved /\ Armed /\ HeldByCommand /\ Expiring /\ EndsAreDue

LEMMA ResolveTypes ==
  ASSUME dialer \in [Fields -> Settings], \A f \in Fields : dialer[f] >= 0
  PROVE  /\ Resolve \in [Fields -> Nat]
         /\ Resolve.idle = IdleTimeout
         /\ Resolve.command = CommandTimeout
         /\ CommandTimeout \in Nat \ {0}
         /\ IdleTimeout \in Nat
<1>1. \A f \in Fields : dialer[f] \in Nat
  <2> SUFFICES ASSUME NEW f \in Fields PROVE dialer[f] \in Nat
    OBVIOUS
  <2>1. dialer[f] \in Settings /\ dialer[f] >= 0
    OBVIOUS
  <2>2. dialer[f] \in Int
    BY <2>1, SettingsAssumption DEF SettingsAssumption
  <2> QED BY <2>1, <2>2
<1>2. "idle" \in Fields /\ "command" \in Fields /\ "buffer" \in Fields
  BY DEF Fields
<1>3. Resolve = [f \in Fields |->
         IF f = "command" THEN CommandTimeout
         ELSE IF f = "buffer" THEN IF dialer.buffer = 0 THEN DefaultReportBuffer ELSE dialer.buffer
         ELSE dialer[f]]
  BY <1>2 DEF Resolve, CommandTimeout
<1>4. CommandTimeout \in Nat \ {0}
  BY <1>1, <1>2, SettingsAssumption DEF CommandTimeout
<1>5. Resolve \in [Fields -> Nat]
  BY <1>1, <1>2, <1>3, <1>4, SettingsAssumption
<1> QED BY <1>1, <1>2, <1>3, <1>4, <1>5 DEF IdleTimeout

LEMMA DeadlinesInit == Init => DInv
<1> SUFFICES ASSUME Init PROVE DInv
  OBVIOUS
<1>1. TypeOK
  BY DEF Init, TypeOK, Unresolved
<1>2. Resolved /\ Armed /\ HeldByCommand /\ Expiring /\ EndsAreDue
  BY DEF Init, Resolved, Armed, HeldByCommand, Expiring, EndsAreDue, Open
<1> QED BY <1>1, <1>2 DEF DInv

LEMMA DeadlinesStep == DInv /\ [Next]_vars => DInv'
<1>0. SUFFICES ASSUME DInv, [Next]_vars PROVE DInv'
  OBVIOUS
<1>1. Open => /\ state.idle = IdleTimeout /\ state.command = CommandTimeout
              /\ CommandTimeout \in Nat \ {0} /\ IdleTimeout \in Nat
  BY <1>0, ResolveTypes DEF DInv, TypeOK, Resolved, Open
<1> USE DEF DInv, TypeOK, Resolved, Armed, HeldByCommand, Expiring, EndsAreDue, Open,
            dialling, reading, writing, IdleTimeout, CommandTimeout
<1>2. CASE Validate
  <2>1. dialer \in [Fields -> Int]
    BY <1>0, SettingsAssumption
  <2> QED BY <1>0, <1>2, <2>1 DEF Validate, Resolve
<1>3. CASE Connect
  <2>1. /\ Resolve \in [Fields -> Nat] /\ Resolve.idle = IdleTimeout
        /\ IdleTimeout \in Nat
    BY <1>0, <1>3, ResolveTypes DEF Connect
  <2>2. Resolve' = Resolve
    BY <1>3 DEF Connect, Resolve
  <2> QED BY <1>0, <1>3, <2>1, <2>2 DEF Connect, Arm
<1>4. CASE ConnectFails
  BY <1>0, <1>4 DEF ConnectFails, Resolve
<1>5. CASE HandleLine \/ Finish \/ Expire
  <2>0. /\ Open /\ Open' /\ UNCHANGED <<dialer, state, phase, reason, now>>
        /\ state.idle = IdleTimeout /\ lines \in Nat /\ now \in Nat
        /\ heard \in Nat /\ begun \in Nat /\ timer \in Nat /\ readDeadline \in Nat
    BY <1>0, <1>1, <1>5 DEF HandleLine, Finish, Expire
  <2>1. Resolved' /\ EndsAreDue'
    BY <1>0, <1>5, <2>0 DEF HandleLine, Finish, Expire, Resolve
  <2>2. CASE HandleLine /\ ~held'
    <3>1. command' = command /\ timer' = timer /\ begun' = begun /\ pieces' = pieces
      BY <2>2 DEF HandleLine
    <3>2. ~held /\ expired' = expired /\ lines > 0 /\ lines' = lines - 1 /\ Arm(IdleTimeout)
      BY <2>0, <2>2 DEF HandleLine
    <3>3. TypeOK' /\ Armed'
      BY <1>0, <1>1, <2>0, <2>2, <3>1, <3>2 DEF HandleLine, Arm
    <3>4. HeldByCommand' /\ Expiring'
      BY <1>0, <1>1, <2>0, <2>2, <3>1, <3>2 DEF Arm
    <3> QED BY <2>1, <3>3, <3>4
  <2>3. CASE HandleLine /\ held'
    <3>1. command' = command /\ timer' = timer /\ begun' = begun /\ pieces' = pieces
      BY <2>3 DEF HandleLine
    <3>2. /\ ~held /\ expired' = expired /\ lines > 0 /\ lines' = lines - 1
          /\ command # "none" /\ UNCHANGED <<readDeadline, heard>>
      BY <2>0, <2>3 DEF HandleLine
    <3>3. TypeOK' /\ Armed'
      BY <1>0, <1>1, <2>0, <2>3, <3>1, <3>2 DEF HandleLine
    <3>4. HeldByCommand' /\ Expiring'
      BY <1>0, <1>1, <2>0, <2>3, <3>1, <3>2
    <3> QED BY <2>1, <3>3, <3>4
  <2>4. CASE Finish
    <3>1. held /\ ~held' /\ command' = "none" /\ expired' = expired /\ lines' = lines
          /\ Arm(IdleTimeout)
      BY <2>0, <2>4 DEF Finish
    <3>2. TypeOK'
      <4>1. readDeadline' \in Nat /\ heard' \in Nat
        BY <1>1, <2>0, <3>1 DEF Arm
      <4>2. UNCHANGED <<now, dialling, phase, reason, lines, partial, expired, pieces, timer, begun>>
        BY <2>4 DEF Finish
      <4>3. held' = FALSE /\ command' = "none"
        BY <2>4 DEF Finish
      <4> QED BY <1>0, <4>1, <4>2, <4>3
    <3>4. Armed'
      <4>1. expired \/ (heard' = now /\ readDeadline' = IF IdleTimeout = 0 THEN 0 ELSE now + IdleTimeout)
        BY <1>0, <1>1, <2>0, <3>1 DEF Arm
      <4>2. dialer' = dialer /\ now' = now /\ command' # "write"
        BY <2>0, <3>1
      <4> QED BY <1>0, <1>1, <2>0, <3>1, <4>1, <4>2
    <3>3. HeldByCommand' /\ Expiring'
      BY <1>0, <1>1, <2>0, <3>1 DEF Arm
    <3> QED BY <2>1, <3>2, <3>3, <3>4
  <2>5. CASE Expire
    <3>1. /\ ~held /\ ~held' /\ ~expired /\ expired' /\ lines' \in {0, 1}
          /\ readDeadline # 0 /\ now >= readDeadline
          /\ UNCHANGED <<readDeadline, heard, command, timer, begun, pieces>>
      BY <2>5 DEF Expire
    <3>2. TypeOK' /\ Armed'
      BY <1>0, <1>1, <2>0, <2>5, <3>1 DEF Expire
    <3>3. HeldByCommand' /\ Expiring'
      BY <1>0, <1>1, <2>0, <3>1
    <3> QED BY <2>1, <3>2, <3>3
  <2> QED BY <1>5, <2>2, <2>3, <2>4, <2>5
<1>6. CASE IdleEnds
  BY <1>0, <1>1, <1>6 DEF IdleEnds, Ends, Resolve
<1>7. CASE Begin
  BY <1>0, <1>1, <1>7, SettingsAssumption DEF Begin, Resolve
<1>8. CASE Write
  BY <1>0, <1>1, <1>8 DEF Write, Resolve
<1>9. CASE CommandEnds
  BY <1>0, <1>1, <1>9 DEF CommandEnds, Ends, Resolve
<1>10. CASE Trickle \/ LinesArrive \/ EndsOtherwise
  <2>1. CASE Trickle
    BY <1>0, <1>1, <2>1 DEF Trickle, Resolve
  <2>2. CASE LinesArrive
    BY <1>0, <1>1, <2>2 DEF LinesArrive, Resolve
  <2>3. CASE EndsOtherwise
    BY <1>0, <1>1, <2>3 DEF EndsOtherwise, Ends, Resolve
  <2> QED BY <1>10, <2>1, <2>2, <2>3
<1>11. CASE Tick
  BY <1>0, <1>1, <1>11 DEF Tick, Due, Busy, Resolve
<1>12. CASE UNCHANGED vars
  BY <1>0, <1>12 DEF vars, Resolve
<1> QED
  BY <1>0, <1>2, <1>3, <1>4, <1>5, <1>6, <1>7, <1>8, <1>9, <1>10, <1>11, <1>12 DEF Next

LEMMA DeadlinesKept == Spec => []DInv
BY DeadlinesInit, DeadlinesStep, PTL DEF Spec
-----------------------------------------------------------------------------
\* A connection with an idle timeout never waits longer than it for a line, and
\* no longer than a command takes on top of it for an answer in hand.
THEOREM IdleNeverLate == Spec => []IdleWaitIsBounded
<1>1. DInv => IdleWaitIsBounded
  <2> SUFFICES ASSUME DInv, Open, IdleTimeout # 0
               PROVE  IF held \/ expired THEN now <= heard + IdleTimeout + CommandTimeout
                                         ELSE now <= heard + IdleTimeout
    BY DEF IdleWaitIsBounded
  <2>1. IdleTimeout \in Nat /\ heard \in Nat
    BY ResolveTypes DEF DInv, TypeOK, Resolved, Open
  <2> QED BY <2>1 DEF DInv, Armed, HeldByCommand, Expiring
<1> QED BY <1>1, DeadlinesKept, PTL

\* No deadline ends a connection before its time.
THEOREM NoEndIsEarly == Spec => []EndsAreDue
<1>1. DInv => EndsAreDue
  BY DEF DInv
<1> QED BY <1>1, DeadlinesKept, PTL

\* A command's write, and its wait, take no longer than the command timeout.
THEOREM CommandsNeverLate == Spec => []CommandsAreBounded
<1>1. DInv => CommandsAreBounded
  BY DEF DInv, Armed, CommandsAreBounded
<1> QED BY <1>1, DeadlinesKept, PTL
=============================================================================
