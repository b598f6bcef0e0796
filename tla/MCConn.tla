------------------------------- MODULE MCConn -------------------------------
(* Instances of the connection for TLC.                                    *)
EXTENDS ConnProperties

CONSTANTS c1, c2, k1, k2

\* Two callers of the same command, as a late answer to the first could be
\* taken for the second's; or of different ones, as it then must not be.
SameCommand == [c \in Callers |-> "get_config"]
TwoCommands == [c \in Callers |-> IF c = c1 THEN "get_config" ELSE "set_config"]

\* Faults of a response: none, a result its caller cannot decode, a member
\* missing.
NoFault == [m \in {} |-> "missing"]
FaultAt(member, fault) == [m \in {member} |-> fault]
Reply(success, faults) == [success |-> success, faults |-> faults]
Accepts == {Reply(TRUE, NoFault)}
AllReplies == Accepts \cup
  {Reply(FALSE, NoFault), Reply(TRUE, FaultAt("result", "unusable")),
   Reply(TRUE, FaultAt("success", "missing"))}
UntypedFormat == {Reply(TRUE, FaultAt("format", "mistyped"))}

Line(json, type) ==
  [json |-> json, type |-> type, format |-> MinorVersion, faults |-> NoFault,
   responseTo |-> "", success |-> FALSE, valid |-> TRUE]

NoNoise == {}
Disturbance ==
  {Line("blank", ""), Line("overlong", ""), Line("object", "velocity"),
   Line("object", "position_local"), Line("object", "other"),
   Line("invalid", ""),
   ResponseFrame("get_config", TRUE, NoFault),
   ResponseFrame("set_config", TRUE, NoFault),
   ResponseFrame("set_config", TRUE, FaultAt("error_message", "mistyped"))}
SomeDisturbance ==
  {Line("object", "velocity"), ResponseFrame("get_config", TRUE, NoFault),
   ResponseFrame("get_config", TRUE, FaultAt("success", "missing"))}
=============================================================================
