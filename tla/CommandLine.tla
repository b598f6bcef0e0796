----------------------------- MODULE CommandLine -----------------------------
(***************************************************************************)
(* The tool waterlinked-dvl, from its arguments to its exit status         *)
(* (cmd/waterlinked-dvl: main.go, commands.go): the dispatch, the commands *)
(* that issue requests and end, and `watch`, one goroutine that selects    *)
(* over the three report streams, the interruption of the tool and the end *)
(* of the connection, in the random order of Go's select.                  *)
(*                                                                         *)
(* A stream is what ReportStream shows of it to a consumer: a report can   *)
(* be received ("ready") or not ("idle"); once the connection ended at     *)
(* most one more is ("last" after it), and then the channel is closed.     *)
(* What `config set` sends and compares is in module ConfigSet.            *)
(***************************************************************************)
EXTENDS Naturals

CONSTANTS
  Verbs,        \* the first arguments; "none" if there is none
  Flags,        \* how the rest parses: "good", "bad", or "help" for -h
  Durations     \* of the flag -duration of watch: "zero", "positive", "negative"

Streams == {"velocity", "deadReckoning", "unhandled"}

\* How many requests a command makes of the connection.
Requests ==
  [info |-> 1, configGet |-> 1, configSet |-> 3, resetDeadReckoning |-> 1,
   calibrateGyro |-> 1]
OneShots == DOMAIN Requests
Helps == {"help", "configHelp"}

VARIABLES
  verb, flags, duration,   \* the arguments
  tool,         \* "args", "flags", "dial", "command", "write", "watch", "close", "exited"
  status,       \* what main will exit with: "none" yet, "ok" (0) or "failed" (1)
  left,         \* requests still to be answered
  channel,      \* what each stream has for a receiver
  listening,    \* whether watch's variable of each stream is not nil
  conn,         \* "none", "open", "ended"
  interrupted,  \* ctx is cancelled: Ctrl-C or SIGTERM
  elapsed,      \* the deadline of commandCtx or watchCtx passed
  trouble       \* what else went wrong

arguments == <<verb, flags, duration>>
streams   == <<channel, listening>>
input     == <<interrupted, elapsed, trouble>>
vars == <<arguments, tool, status, left, streams, conn, input>>

Init ==
  /\ verb \in Verbs /\ flags \in Flags /\ duration \in Durations
  /\ tool = "args" /\ status = "none" /\ left = 0
  /\ channel = [s \in Streams |-> "idle"]
  /\ listening = [s \in Streams |-> TRUE]
  /\ conn = "none"
  /\ interrupted = FALSE /\ elapsed = FALSE /\ trouble = {}

Goes(place) == tool' = place /\ UNCHANGED status
\* run... returns; what it deferred is done first.
Returns(outcome) ==
  /\ status' = outcome
  /\ tool' = IF conn = "none" THEN "exited" ELSE "close"
WentWrong(what) == trouble' = trouble \cup {what} /\ UNCHANGED <<interrupted, elapsed>>

\* The write... functions: the text goes out, or standard output fails.
Writes(next) ==
  \/ next /\ UNCHANGED input
  \/ Returns("failed") /\ WentWrong("stdout")
-----------------------------------------------------------------------------
(* Up to the connection.                                                   *)

\* run and runConfig.
Dispatch ==
  /\ tool = "args"
  /\ \/ verb \in OneShots \cup {"watch"} /\ Goes("flags") /\ UNCHANGED input
     \/ verb \in Helps /\ Returns("ok") /\ UNCHANGED input
     \/ verb \notin OneShots \cup {"watch"} \cup Helps
          /\ Returns("failed") /\ WentWrong("usage")
  /\ UNCHANGED <<arguments, left, streams, conn>>

\* flag.ErrHelp is an error to the command, and none to main.
Parse ==
  /\ tool = "flags"
  /\ CASE flags = "help" -> Returns("ok") /\ UNCHANGED input
       [] flags = "bad" \/ (verb = "watch" /\ duration = "negative") ->
            Returns("failed") /\ WentWrong("usage")
       [] OTHER -> Goes("dial") /\ UNCHANGED input
  /\ UNCHANGED <<arguments, left, streams, conn>>

Dial ==
  /\ tool = "dial"
  /\ conn' = "open"
  /\ IF verb = "watch" THEN Goes("watch") /\ left' = left
                       ELSE Goes("command") /\ left' = Requests[verb]
  /\ UNCHANGED <<arguments, streams, input>>

\* Dial fails, for the address, the network or its ten seconds, or because the
\* tool is interrupted.
DialFails ==
  /\ tool = "dial"
  /\ Returns("failed")
  /\ \/ interrupted /\ UNCHANGED input
     \/ WentWrong("network")
  /\ UNCHANGED <<arguments, left, streams, conn>>
-----------------------------------------------------------------------------
(* The commands that end by themselves.  All of their requests share one   *)
(* context of thirty seconds.                                              *)

\* A request is answered, and the answer is what the command wants.
Answered ==
  /\ tool = "command"
  /\ left' = left - 1
  /\ IF left = 1 THEN Goes("write") ELSE Goes("command")
  /\ UNCHANGED <<arguments, streams, conn, input>>

\* It is not: rejected, undecodable, not validated or not observed.
Refused ==
  /\ tool = "command"
  /\ Returns("failed") /\ WentWrong("device")
  /\ UNCHANGED <<arguments, left, streams, conn>>

\* The call returns without it: the tool is interrupted, the time is over, or
\* the connection ended.
\* Mutant: the requests do not follow the command's context.
CallWaits ==
  /\ tool = "command" /\ conn = "ended"
  /\ Returns("failed")
  /\ UNCHANGED <<arguments, left, streams, conn, input>>
CallFails ==
  /\ tool = "command"
  /\ interrupted \/ elapsed \/ conn = "ended"
  /\ Returns("failed")
  /\ UNCHANGED <<arguments, left, streams, conn, input>>

Write ==
  /\ tool = "write"
  /\ Writes(Returns("ok"))
  /\ UNCHANGED <<arguments, left, streams, conn>>
-----------------------------------------------------------------------------
(* watch.                                                                  *)

\* A sample is received and printed, which may fail.
Receive(s) ==
  /\ tool = "watch" /\ listening[s] /\ channel[s] = "ready"
  /\ \E next \in IF conn = "open" THEN {"idle", "ready"} ELSE {"last"} :
       channel' = [channel EXCEPT ![s] = next]
  /\ Writes(Goes("watch"))
  /\ UNCHANGED <<arguments, left, listening, conn>>

\* A closed stream is always ready: its variable becomes nil, which never is.
\* Mutant: the first closed stream ends the watch.
SeeClosedAndStop(s) ==
  /\ tool = "watch" /\ listening[s] /\ channel[s] = "closed"
  /\ Returns("ok")
  /\ UNCHANGED <<arguments, left, streams, conn, input>>
SeeClosed(s) ==
  /\ tool = "watch" /\ listening[s] /\ channel[s] = "closed"
  /\ listening' = [listening EXCEPT ![s] = FALSE]
  /\ UNCHANGED <<arguments, tool, status, left, channel, conn, input>>

\* Mutant: the watch's own context does not follow the tool's.
StopElapsed ==
  /\ tool = "watch" /\ elapsed
  /\ Returns("ok")
  /\ UNCHANGED <<arguments, left, streams, conn, input>>
Stop ==
  /\ tool = "watch" /\ (interrupted \/ elapsed)
  /\ Returns("ok")
  /\ UNCHANGED <<arguments, left, streams, conn, input>>

\* Only the deferred Close could end the connection with net.ErrClosed, and it
\* runs later than this.
\* Mutant: the loop goes round again, to drain the streams.
ConnectionEndedAgain ==
  tool = "watch" /\ conn = "ended" /\ UNCHANGED vars
ConnectionEnded ==
  /\ tool = "watch" /\ conn = "ended"
  /\ Returns("failed")
  /\ UNCHANGED <<arguments, left, streams, conn, input>>
-----------------------------------------------------------------------------
\* The deferred Close, which returns with the streams closed.
Close ==
  /\ tool = "close"
  /\ conn' = "ended" /\ channel' = [s \in Streams |-> "closed"]
  /\ Goes("exited")
  /\ UNCHANGED <<arguments, left, listening, input>>

ToolStep ==
  \/ Dispatch \/ Parse \/ Dial \/ DialFails
  \/ CallFails \/ Write
  \/ \E s \in Streams : Receive(s) \/ SeeClosed(s)
  \/ Stop \/ ConnectionEnded \/ Close
-----------------------------------------------------------------------------
(* Around it.                                                              *)

Arrive(s) ==
  /\ conn = "open" /\ channel[s] = "idle"
  /\ channel' = [channel EXCEPT ![s] = "ready"]
  /\ UNCHANGED <<arguments, tool, status, left, listening, conn, input>>

End ==
  /\ conn = "open"
  /\ conn' = "ended"
  /\ UNCHANGED <<arguments, tool, status, left, streams, input>>

CloseStream(s) ==
  /\ conn = "ended" /\ channel[s] # "closed"
  /\ channel' = [channel EXCEPT ![s] = "closed"]
  /\ UNCHANGED <<arguments, tool, status, left, listening, conn, input>>

Interrupt ==
  /\ ~interrupted /\ status = "none"
  /\ interrupted' = TRUE
  /\ UNCHANGED <<arguments, tool, status, left, streams, conn, elapsed, trouble>>

Elapse ==
  /\ ~elapsed
  /\ tool = "command" \/ (tool = "watch" /\ duration = "positive")
  /\ elapsed' = TRUE
  /\ UNCHANGED <<arguments, tool, status, left, streams, conn, interrupted, trouble>>

Next ==
  \/ ToolStep \/ Answered \/ Refused
  \/ \E s \in Streams : Arrive(s) \/ CloseStream(s)
  \/ End \/ Interrupt \/ Elapse

\* The tool's goroutine and the brokers run, dialling ends (dialTimeout), and
\* deadlines pass; of the device nothing is assumed.  A select chooses at random
\* among its ready cases, so a case that is ready time and again is chosen in
\* the end: strong fairness, of the one case it matters for.
Spec == Init /\ [][Next]_vars
FairSpec ==
  /\ Spec
  /\ WF_vars(ToolStep) /\ WF_vars(Elapse)
  /\ SF_vars(Stop)
  /\ \A s \in Streams : WF_vars(CloseStream(s))
-----------------------------------------------------------------------------
TypeOK ==
  /\ verb \in Verbs /\ flags \in Flags /\ duration \in Durations
  /\ tool \in {"args", "flags", "dial", "command", "write", "watch", "close", "exited"}
  /\ status \in {"none", "ok", "failed"}
  /\ left \in 0 .. 3
  /\ channel \in [Streams -> {"idle", "ready", "last", "closed"}]
  /\ listening \in [Streams -> BOOLEAN]
  /\ conn \in {"none", "open", "ended"}
  /\ interrupted \in BOOLEAN /\ elapsed \in BOOLEAN
  /\ trouble \subseteq {"usage", "network", "device", "stdout"}

\* The exit status is true (cmd doc.go:41-44).  0: help was asked for, or every
\* request was answered and the result written, or a watch was stopped, which
\* one that breaks off is not although its streams close like any others
\* (commands.go:207-221).  1: something did go wrong, or the tool was
\* interrupted or its time over with requests open.
StatusIsTrue ==
  /\ status = "ok" =>
       \/ verb \in Helps \/ flags = "help"
       \/ verb \in OneShots /\ conn # "none" /\ left = 0 /\ trouble = {}
       \/ verb = "watch" /\ (interrupted \/ elapsed)
  /\ status = "failed" =>
       \/ trouble # {} \/ conn = "ended"
       \/ interrupted /\ (conn = "none" \/ left # 0)
       \/ elapsed /\ left # 0

\* The end of the connection ends the tool, though three closed streams
\* compete with it for watch's select (commands.go:188-206).
EndStopsTool == conn = "ended" ~> tool = "exited"

\* An interruption, or the duration or deadline, ends it, however fast reports
\* arrive, and with a device that never answers (commands.go:207-211).
RequestStopsTool == interrupted \/ elapsed ~> tool = "exited"

\* Every command but watch ends, whatever the device does or fails to do
\* (main.go:132, 137-139).
CommandsEnd == verb # "watch" ~> tool = "exited"

\* "Interrupting watch with Ctrl-C exits 0" (cmd doc.go:44): a watch that was
\* interrupted, and where nothing else went wrong, does not fail.
InterruptingExitsZero ==
  verb = "watch" /\ interrupted /\ trouble = {} /\ conn # "ended"
    => status # "failed"
=============================================================================
