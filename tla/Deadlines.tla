------------------------------ MODULE Deadlines ------------------------------
(***************************************************************************)
(* A connection in time: what Dialer.Dial makes of the settings it is      *)
(* given, and the three deadlines of a connection (conn.go): the idle      *)
(* deadline of the reader, the write deadline and the response timer of    *)
(* the command in hand.                                                    *)
(*                                                                         *)
(* Time is a count of ticks.  A goroutine that can run does so at once: no *)
(* tick passes while the reader has a line to handle or a deadline is due. *)
(* What takes time is to wait: for the socket, for the device to take a    *)
(* write, and, of a reader that has an answer in hand, for the worker to   *)
(* be done with writing the command it answers.  Bytes are visible here as *)
(* far as deadlines care: a write is taken by the device piece by piece,   *)
(* and a line arrives in pieces of which only the last completes it.       *)
(***************************************************************************)
EXTENDS Integers

CONSTANTS
  Settings,              \* of IdleTimeout, CommandTimeout: also 0 and negative
  DefaultCommandTimeout, \* 30 seconds, in ticks
  DefaultReportBuffer,   \* 64
  Pieces,                \* writes a payload may take
  MaxTime                \* bound: the last tick

ASSUME SettingsAssumption ==
  /\ Settings \subseteq Int /\ Pieces \in Nat \ {0} /\ MaxTime \in Nat
  /\ DefaultCommandTimeout \in Nat \ {0} /\ DefaultReportBuffer \in Nat \ {0}

VARIABLES
  now,
  dialer,         \* the caller's [idle, command, buffer]
  state,          \* the connection's [idle, command, buffer], resolved
  phase,          \* "dial", "refused", "dialling", "failed", "open", "ended"
  reason,         \* of the end: "none", "idle", "write", "response", "other"
  readDeadline,   \* of the socket; 0 is none
  lines,          \* complete lines the scanner has not returned
  partial,        \* part of the next line has arrived
  expired,        \* Scan met the read deadline: it reads the socket no more
  held,           \* the reader waits for the command it handed a response to
  heard,          \* when the reader last began to wait for the socket
  command,        \* "none", "write" or "wait"
  pieces,         \* still to be written
  timer,          \* the write deadline or the response timer
  begun           \* when the command's write, or its wait, began

dialling == <<dialer, state>>
reading  == <<readDeadline, lines, partial, expired, held, heard>>
writing  == <<command, pieces, timer, begun>>
vars == <<now, dialling, phase, reason, reading, writing>>

Fields == {"idle", "command", "buffer"}
Unresolved == [f \in Fields |-> 0]

Init ==
  /\ now = 0
  /\ dialer \in [Fields -> Settings] /\ state = Unresolved
  /\ phase = "dial" /\ reason = "none"
  /\ readDeadline = 0 /\ lines = 0 /\ partial = FALSE /\ heard = 0
  /\ expired = FALSE /\ held = FALSE
  /\ command = "none" /\ pieces = 0 /\ timer = 0 /\ begun = 0
-----------------------------------------------------------------------------
(* Dialer.Dial.                                                            *)

\* A negative field is refused before any network activity.
Validate ==
  /\ phase = "dial"
  /\ phase' = IF \E f \in Fields : dialer[f] < 0 THEN "refused" ELSE "dialling"
  /\ UNCHANGED <<now, dialling, reason, reading, writing>>

\* What a zero stands for.
\* Mutant: a zero command timeout is taken as it is.
ResolveBufferOnly ==
  [dialer EXCEPT !.buffer = IF @ = 0 THEN DefaultReportBuffer ELSE @]
Resolve ==
  [dialer EXCEPT !.command = IF @ = 0 THEN DefaultCommandTimeout ELSE @,
                 !.buffer = IF @ = 0 THEN DefaultReportBuffer ELSE @]

\* armIdleDeadline: at the head of the reader's loop.  After an error the
\* scanner does not wait for the socket again.
Arm(idle) ==
  /\ readDeadline' = IF idle = 0 THEN readDeadline ELSE now + idle
  /\ heard' = IF expired THEN heard ELSE now

\* The network answers, and the reader starts with arming its deadline.
Connect ==
  /\ phase = "dialling"
  /\ phase' = "open" /\ state' = Resolve
  /\ Arm(Resolve.idle)
  /\ UNCHANGED <<now, dialer, reason, lines, partial, expired, held, writing>>

\* It does not, or the context of Dial is done first.
ConnectFails ==
  /\ phase = "dialling"
  /\ phase' = "failed"
  /\ UNCHANGED <<now, dialling, reason, reading, writing>>
-----------------------------------------------------------------------------
(* The reader and the command worker.                                      *)

Open == phase = "open"
Ends(why) == phase' = "ended" /\ reason' = why

\* Scan returns a line, blank or not.  Its handling takes no time, and the wait
\* for the next begins; but a response is handed to the command in hand, whose
\* worker may still be writing, and holds the reader until it is processed.
HandleLine ==
  /\ Open /\ lines > 0 /\ ~held
  /\ lines' = lines - 1
  /\ \/ Arm(state.idle) /\ UNCHANGED held
     \/ command # "none" /\ held' = TRUE /\ UNCHANGED <<readDeadline, heard>>
  /\ UNCHANGED <<now, dialling, phase, reason, partial, expired, writing>>

\* The worker waits for the response, and finds it there: finishCommand, after
\* which the reader goes on.
Finish ==
  /\ Open /\ held /\ command = "wait"
  /\ command' = "none" /\ held' = FALSE
  /\ Arm(state.idle)
  /\ UNCHANGED <<now, dialling, phase, reason, lines, partial, expired, pieces, timer,
                 begun>>

\* The read deadline passes.  Scan first hands out the part of a line it has as
\* a line, and fails when it is called again.
Expire ==
  /\ Open /\ ~held /\ ~expired /\ lines = 0
  /\ readDeadline # 0 /\ now >= readDeadline
  /\ expired' = TRUE
  /\ lines' = (IF partial THEN 1 ELSE 0) /\ partial' = FALSE
  /\ UNCHANGED <<now, dialling, phase, reason, readDeadline, held, heard, writing>>
IdleEnds ==
  /\ Open /\ expired /\ lines = 0 /\ ~held
  /\ Ends("idle")
  /\ UNCHANGED <<now, dialling, reading, writing>>

\* A command's turn comes: writeCommand sets the deadline of all its writes.
Begin ==
  /\ Open /\ command = "none"
  /\ command' = "write" /\ pieces' = Pieces
  /\ timer' = now + state.command /\ begun' = now
  /\ UNCHANGED <<now, dialling, phase, reason, reading>>

\* The device's end takes a piece; with the last one the response timer starts.
\* Mutant: each write gets the whole time.
WriteAnew ==
  /\ Open /\ command = "write"
  /\ pieces' = pieces - 1 /\ timer' = now + state.command
  /\ IF pieces = 1 THEN command' = "wait" /\ begun' = now
                   ELSE UNCHANGED <<command, begun>>
  /\ UNCHANGED <<now, dialling, phase, reason, reading>>
Write ==
  /\ Open /\ command = "write"
  /\ pieces' = pieces - 1
  /\ IF pieces = 1
     THEN command' = "wait" /\ timer' = now + state.command /\ begun' = now
     ELSE UNCHANGED <<command, timer, begun>>
  /\ UNCHANGED <<now, dialling, phase, reason, reading>>

\* The write fails at its deadline; the timer loses against an outcome that is
\* already there.
CommandEnds ==
  /\ Open /\ now >= timer
  /\ command = "write" \/ (command = "wait" /\ ~held)
  /\ Ends(IF command = "write" THEN "write" ELSE "response")
  /\ UNCHANGED <<now, dialling, reading, writing>>
-----------------------------------------------------------------------------
(* The device, and time.                                                   *)

\* Bytes that complete no line: they reach the scanner, and nothing else.
\* Mutant: the deadline is set before every read of the socket.
TrickleExtends ==
  /\ Open /\ ~expired /\ partial' = TRUE
  /\ readDeadline' = IF state.idle = 0 THEN 0 ELSE now + state.idle
  /\ UNCHANGED <<now, dialling, phase, reason, lines, expired, held, heard, writing>>
Trickle ==
  /\ Open /\ ~expired /\ partial' = TRUE
  /\ UNCHANGED <<now, dialling, phase, reason, readDeadline, lines, expired, held, heard,
                 writing>>

\* Bytes that complete one line, or two at once.
LinesArrive ==
  /\ Open /\ ~expired /\ lines = 0
  /\ lines' \in {1, 2} /\ partial' \in BOOLEAN
  /\ UNCHANGED <<now, dialling, phase, reason, readDeadline, expired, held, heard, writing>>

\* Close, a network error or a correlation failure.
EndsOtherwise ==
  /\ Open /\ Ends("other")
  /\ UNCHANGED <<now, dialling, reading, writing>>

\* Someone can run: the reader, with a line or an error in hand, or the worker,
\* with a response.
Busy == IF held THEN command = "wait" ELSE lines > 0 \/ expired

\* Deadlines are taken at once, the one of reading by a reader that reads.
Due ==
  \/ ~held /\ readDeadline # 0 /\ now >= readDeadline
  \/ command # "none" /\ now >= timer
Tick ==
  /\ now < MaxTime
  /\ phase \in {"dialling", "open"}
  /\ Open => ~Busy /\ ~Due
  /\ now' = now + 1
  /\ UNCHANGED <<dialling, phase, reason, reading, writing>>

Next ==
  \/ Validate \/ Connect \/ ConnectFails
  \/ HandleLine \/ Finish \/ Expire \/ IdleEnds \/ Begin \/ Write \/ CommandEnds
  \/ Trickle \/ LinesArrive \/ EndsOtherwise \/ Tick

Spec == Init /\ [][Next]_vars
-----------------------------------------------------------------------------
TypeOK ==
  /\ now \in Nat
  /\ dialer \in [Fields -> Settings] /\ state \in [Fields -> Nat]
  /\ phase \in {"dial", "refused", "dialling", "failed", "open", "ended"}
  /\ reason \in {"none", "idle", "write", "response", "other"}
  /\ readDeadline \in Nat /\ lines \in Nat /\ partial \in BOOLEAN /\ heard \in Nat
  /\ expired \in BOOLEAN /\ held \in BOOLEAN
  /\ command \in {"none", "write", "wait"}
  /\ pieces \in Nat /\ timer \in Nat /\ begun \in Nat

\* The timeouts a dialer's settings stand for (conn.go:103-126).
IdleTimeout == dialer.idle
CommandTimeout == IF dialer.command = 0 THEN DefaultCommandTimeout ELSE dialer.command

\* A connection with an idle timeout never waits longer for a line, also when
\* the device keeps sending bytes that complete none (conn.go:107-110); an
\* answer that comes before its command is written, also one that the deadline
\* cut short, delays the end by one command timeout at most (conn.go:638-644).
IdleWaitIsBounded ==
  Open /\ IdleTimeout # 0 =>
    IF held \/ expired THEN now <= heard + IdleTimeout + CommandTimeout
                       ELSE now <= heard + IdleTimeout

\* No deadline ends a connection early, and none that was not asked for: the
\* time that its documentation gives had passed (conn.go:103-122).
EndsAreDue ==
  /\ reason = "idle" => IdleTimeout # 0 /\ now >= heard + IdleTimeout
  /\ reason \in {"write", "response"} => now >= begun + CommandTimeout

\* A command is written, and waits for its response, for the command timeout
\* at most, however slowly the device takes it (conn.go:116-122).
CommandsAreBounded == Open /\ command # "none" => now <= begun + CommandTimeout
=============================================================================
