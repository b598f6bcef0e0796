--------------------------- MODULE ConnProperties ---------------------------
(* What a connection guarantees to its callers, whatever the device does   *)
(* and whenever it ends.                                                   *)
EXTENDS Conn

CallerOrNone == Callers \cup {None}
CauseOrNone == Causes \cup {None}
Results ==
  [kind : {"accepted", "rejected", "invalid", "undecodable", "ended", "cancelled"},
   to : CommandNames \cup {None}, answers : CallerOrNone, err : CauseOrNone]
Outcomes ==
  [failed : BOOLEAN, success : BOOLEAN, usable : BOOLEAN,
   to : CommandNames \cup {None}, answers : CallerOrNone]
\* What the constants must be for the connection to make sense of them.
ASSUME NamesAssumption == NameOf \in [Callers -> CommandNames]
ASSUME FramesAssumption ==
  /\ \A frame \in Noise : frame.success \in BOOLEAN
  /\ \A reply \in Replies : reply.success \in BOOLEAN
ASSUME BoundsAssumption == MaxNoise \in Nat /\ MaxInFlight \in Nat
ASSUME NoneAssumption ==
  /\ None \notin Callers /\ None \notin Causes
  /\ None \notin Results /\ None \notin Outcomes

Frames ==
  Noise \cup {ResponseFrame(NameOf[c], reply.success, reply.faults) :
                c \in Callers, reply \in Replies}

WorkerStates ==
  [pc : {"select", "received", "write", "written", "wait", "finish", "retire",
         "clear", "cancel", "close", "exited"},
   request : CallerOrNone, got : Outcomes \cup {None}, err : CauseOrNone]
ReaderStates ==
  [pc : {"scan", "route", "fill", "processed", "publish", "cancel", "close", "exited"},
   frame : Frames \cup {None}, answers : CallerOrNone, target : CallerOrNone,
   err : CauseOrNone]

\* Types; also, the pending slot is empty or holds the worker's own command
\* (conn.go:399-401, 494-500).
TypeOK ==
  /\ cause \in CauseOrNone
  /\ socket \in {"open", "closed"}
  /\ peer \in {"open", "eof", "reset"}
  /\ inbound \in Seq([frame : Frames, answers : CallerOrNone])
  /\ requests \subseteq Callers
  /\ noise \in 0 .. MaxNoise
  /\ pending \in {None, Current}
  /\ outcome \in [Callers -> Outcomes \cup {None}]
  /\ processed \in [Callers -> BOOLEAN]
  /\ complete \in [Callers -> Results \cup {None}]
  /\ caller \in [Callers -> {"idle", "offer", "await", "returned"}]
  /\ ctx \in [Callers -> {"live", "done"}]
  /\ result \in [Callers -> Results \cup {None}]
  /\ worker.request = None <=> worker.pc \in {"select", "exited"}
  /\ worker \in WorkerStates
  /\ reader \in ReaderStates
  /\ streams \in {"open", "closed"}
  /\ closer \in [Closers -> {"idle", "close", "workers", "returned"}]

\* The worker holds a request it has not answered yet.
Owes == worker.pc \notin {"select", "retire", "exited"}

\* A call that waits for its answer has it, or the worker still owes it: no
\* path of the worker, whatever ends the connection and when, leaves a caller
\* without an answer (conn.go:355-369 waits for nothing else).
EveryCallIsOwed ==
  \A c \in Callers :
    caller[c] = "await" /\ complete[c] = None => Owes /\ Current = c

\* No goroutine of the connection blocks on sending to a channel of one place:
\* a command gets one answer, and one outcome (conn.go:92-95, 344).
SendsHaveRoom ==
  /\ Owes => complete[Current] = None
  /\ ReaderAt("fill") => outcome[reader.target] = None

\* With a device that answers what it was asked, once, every response a call
\* returns is the answer to that very call, also when an earlier call with the
\* same name was given up while its answer was on the way (conn.go:432-440:
\* the worker does not follow its caller's context).
AnswersOwnCall ==
  \A c \in Callers :
    result[c] # None /\ result[c].kind \in {"accepted", "rejected"}
      => result[c].answers = c

\* Whatever the device sends, a response a call returns names its command: one
\* that does not ends the connection instead (conn.go:607-612).
AnswersNameTheirCommand ==
  \A c \in Callers :
    result[c] # None /\ result[c].kind \in {"accepted", "rejected"}
      => result[c].to = NameOf[c]

\* The terminal cause is never the echo of this side closing its own socket:
\* the goroutines that see that error are always too late to set the cause,
\* as terminate cancels first (conn.go:656-657; Conn's documentation of Close
\* and Err, conn.go:243-247, 314-316).
CauseIsGenuine == cause \notin OwnSocketErrors

\* The connection implements CommandService: commands one at a time and at most
\* once at the device, each call with its own answer, its cancellation or the
\* one terminal cause (conn.go:31-51, 116-122, 243-247).  The results a device's
\* answer may give name the command and answer this very request, or say why
\* they cannot be used.
OwnAnswers ==
  [c \in Callers |->
    {res \in Results :
       \/ res.kind \in {"accepted", "rejected"} /\ res.to = NameOf[c] /\ res.answers = c
       \/ res.kind \in {"undecodable", "invalid"}}]
StageAt ==
  [select |-> "free", received |-> "taken", write |-> "taken",
   written |-> "sent", wait |-> "sent", finish |-> "sent",
   clear |-> "failed", cancel |-> "failed", close |-> "failed",
   retire |-> "free", exited |-> "free"]
Service == INSTANCE CommandService WITH
  Answers <- OwnAnswers,
  Cancelled <- Cancelled,
  Interrupted <- [err \in Causes \ OwnSocketErrors |-> Failure("ended", err)],
  call <- caller, verdict <- complete,
  server <- IF Owes THEN Current ELSE None, stage <- StageAt[worker.pc],
  sent <- requests, end <- cause
ImplementsService == Service!Spec

\* A call the end of the connection interrupted returns the connection's cause,
\* not an error of its own (conn.go:315-316, 407, 431, 440).
InterruptedCallsTellCause ==
  \A c \in Callers :
    result[c] # None /\ result[c].kind = "ended"
      => Done /\ result[c].err = cause

\* When Close returns nothing is left to do: the socket is closed, no slot is
\* pending, the streams are closed and every waiting call has its answer
\* (conn.go:312-316).
CloseSettles ==
  (\E k \in Closers : closer[k] = "returned") =>
    /\ Done /\ socket = "closed"
    /\ pending = None
    /\ streams = "closed"
    /\ \A c \in Callers : caller[c] = "await" => complete[c] # None

\* The answer to a command counts as unsolicited only if it is too late: while
\* the connection lives, an answer that is published had its command given up,
\* whose worker has cleared the slot and is about to end the connection
\* (conn.go:399-430).  It is never too early, as the slot is there before the
\* request is, nor does it come when another command may have begun.
AnswerFindsItsCommand ==
  ReaderAt("publish") /\ Message.payload = "response" /\ reader.answers # None /\ ~Done
    => Current = reader.answers /\ WorkerAt("cancel")

\* A frame that the decoder takes for a response, and that found its command
\* still waiting, is never published (conn.go:228-229, 575-583).
AwaitedResponseIsPrivate ==
  ReaderAt("publish") /\ SaysResponse(Message) /\ reader.target # None => Done

\* The same of every frame the device means as a response: UnhandledFrames
\* "does not include a response that arrives while its command is still
\* waiting" (conn.go:227-229).
NoAwaitedResponseIsPublished ==
  ReaderAt("publish") /\ reader.frame.type = "response" /\ reader.target # None
    => Done

\* Every call returns, whatever the device does or fails to do: the command's
\* timer and the write deadline bound it (conn.go:393-442).
CallsReturn ==
  \A c \in Callers : caller[c] = "offer" ~> caller[c] = "returned"

\* Every Close returns (conn.go:317-321).
CloseReturns == \A k \in Closers : closer[k] = "close" ~> closer[k] = "returned"

\* The end of the connection, from whichever side, ends all its goroutines,
\* without Close (conn.go:647-657).
EndStopsEverything ==
  Done ~> (worker.pc = "exited" /\ reader.pc = "exited" /\ streams = "closed")

\* The reader always gets back to the socket: neither an absent consumer nor
\* a command that is being answered holds it up for ever (conn.go:211-212).
ReaderGetsBack == ReaderAt("route") ~> reader.pc \in {"scan", "exited"}
=============================================================================
