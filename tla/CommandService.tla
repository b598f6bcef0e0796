--------------------------- MODULE CommandService ---------------------------
(***************************************************************************)
(* What a connection promises of its commands (Conn's documentation,       *)
(* conn.go:31-51, Dialer's, conn.go:116-122): they reach the device one at *)
(* a time and at most once each; a call returns its own answer, its own    *)
(* cancellation or the connection's terminal cause; and a command that can *)
(* no longer be answered takes the connection with it, so that nothing     *)
(* outlives its turn at the device.  There is no slot, no channel and no   *)
(* frame in it.                                                            *)
(***************************************************************************)
CONSTANTS
  Callers,       \* each issues one command
  Answers,       \* for each caller: the results the device's answer may give
  Cancelled,     \* the result of a call whose context is done
  Interrupted,   \* for each terminal cause: the result of a call it interrupts
  None

VARIABLES
  call,      \* each call: "idle", "offer", "await" (its turn came), "returned"
  ctx,       \* its context: "live" or "done"
  result,    \* what it returned
  verdict,   \* the result that waits for the caller of a served command
  server,    \* the command whose turn it is, or None
  stage,     \* what became of it: "free", "taken", "sent", "failed"
  sent,      \* commands the device has not answered
  end        \* the terminal cause, or None

calls == <<call, ctx, result>>
turn  == <<server, stage>>
vars == <<calls, verdict, turn, sent, end>>

Causes == DOMAIN Interrupted
Over == end # None

Init ==
  /\ call = [c \in Callers |-> "idle"]
  /\ ctx = [c \in Callers |-> "live"]
  /\ result = [c \in Callers |-> None]
  /\ verdict = [c \in Callers |-> None]
  /\ server = None /\ stage = "free"
  /\ sent = {}
  /\ end = None

Ask(c) ==
  /\ call[c] = "idle"
  /\ call' = [call EXCEPT ![c] = "offer"]
  /\ UNCHANGED <<ctx, result, verdict, turn, sent, end>>

GiveUp(c) ==
  /\ call[c] \in {"offer", "await"} /\ ctx[c] = "live"
  /\ ctx' = [ctx EXCEPT ![c] = "done"]
  /\ UNCHANGED <<call, result, verdict, turn, sent, end>>

\* One turn at a time, and none after the end.
Take(c) ==
  /\ call[c] = "offer" /\ stage = "free" /\ ~Over
  /\ call' = [call EXCEPT ![c] = "await"]
  /\ server' = c /\ stage' = "taken"
  /\ UNCHANGED <<ctx, result, verdict, sent, end>>

\* The command is sent, once, with no other one at the device; the network may
\* lose it.
Transmit ==
  /\ stage = "taken" /\ stage' = "sent"
  /\ sent = {} \/ Over
  /\ sent' \in {sent, sent \cup {server}}
  /\ UNCHANGED <<calls, verdict, server, end>>

\* The device answers a command.
Reply(c) ==
  /\ c \in sent
  /\ sent' = sent \ {c}
  /\ UNCHANGED <<calls, verdict, turn, end>>

\* It was not written, or not answered in time.
Fail ==
  /\ stage \in {"taken", "sent"} /\ stage' = "failed"
  /\ UNCHANGED <<calls, verdict, server, sent, end>>

\* The turn is over, with one verdict: a command the device answered has its
\* answer; one that was not sent may find that its caller is gone; what else
\* becomes of it is the end of the connection.
Resolve ==
  /\ stage # "free" /\ verdict[server] = None
  /\ \E given \in
         (IF stage = "sent" /\ server \notin sent THEN Answers[server] ELSE {})
         \cup (IF stage = "taken" /\ ctx[server] = "done" THEN {Cancelled} ELSE {})
         \cup (IF Over THEN {Interrupted[end]} ELSE {}) :
       verdict' = [verdict EXCEPT ![server] = given]
  /\ server' = None /\ stage' = "free"
  /\ UNCHANGED <<calls, sent, end>>

Returns(c, res) ==
  /\ call' = [call EXCEPT ![c] = "returned"]
  /\ result' = [result EXCEPT ![c] = res]
  /\ UNCHANGED <<ctx, turn, sent, end>>

\* A call takes its verdict, or its context is done, or its turn never came.
Return(c) ==
  \/ /\ call[c] = "await" /\ verdict[c] # None
     /\ Returns(c, verdict[c])
     /\ verdict' = [verdict EXCEPT ![c] = None]
  \/ /\ call[c] \in {"offer", "await"} /\ ctx[c] = "done"
     /\ Returns(c, Cancelled) /\ UNCHANGED verdict
  \/ /\ call[c] = "offer" /\ Over
     /\ Returns(c, Interrupted[end]) /\ UNCHANGED verdict

\* The connection ends once, with one cause.
End ==
  /\ ~Over
  /\ end' \in Causes
  /\ UNCHANGED <<calls, verdict, turn, sent>>

Next ==
  \/ \E c \in Callers : Ask(c) \/ GiveUp(c) \/ Take(c) \/ Reply(c) \/ Return(c)
  \/ Transmit \/ Fail \/ Resolve \/ End

Spec == Init /\ [][Next]_vars
=============================================================================
