-------------------------------- MODULE Wire --------------------------------
(***************************************************************************)
(* How one frame of the device's JSON protocol becomes exactly one payload *)
(* (wire.go).                                                              *)
(*                                                                         *)
(* A frame is described by what decoding tells apart: whether it is JSON   *)
(* at all, the values that steer the decoder, and for every member that is *)
(* not what the protocol asks for, its fault.  A member named in no fault  *)
(* is present and usable.                                                  *)
(***************************************************************************)
EXTENDS Integers, Sequences, FiniteSets

\* Faults of a member: "missing" is absent or null (a pointer stays nil and a
\* string empty, either way; for a response's raw result it is absent only);
\* "mistyped" makes json.Unmarshal fail; "unusable" is a value of the right JSON
\* type that a conversion after it refuses (an interval or timestamp out of
\* range, a covariance that is not 3 by 3, a transducer or result with a member
\* missing); "nullElement" is a null among the nine numbers of a covariance, of
\* which json makes a zero, so that nothing after it can tell (wire.go:57).
Faults == {"missing", "mistyped", "unusable", "nullElement"}

\* json: "object" (read member by member), "null" (json.Unmarshal accepts it
\* and sets nothing), "invalid" (a syntax error, or a value that is no object).
\* The reader deals with lines that are "blank" or "overlong" before any of it
\* is decoded.
Encodings == {"object", "null", "invalid", "blank", "overlong"}

ResponseMembers ==
  {"response_to", "success", "error_message", "result", "format"}
VelocityMembers ==
  {"time", "vx", "vy", "vz", "fom", "covariance", "transducers",
   "velocity_valid", "status", "format", "time_of_validity",
   "time_of_transmission"}
DeadReckoningMembers ==
  {"ts", "x", "y", "z", "std", "roll", "pitch", "yaw", "status", "format"}

Nothing == [payload |-> "nothing"]

Sound(frame, member) == member \notin DOMAIN frame.faults
HasFault(frame, member, fault) ==
  ~Sound(frame, member) /\ frame.faults[member] = fault

\* json.Unmarshal of the frame into a struct with these members succeeds.
Unmarshals(frame, members) ==
  /\ frame.json # "invalid"
  /\ frame.json = "object" => \A m \in members : ~HasFault(frame, m, "mistyped")

\* After it: the member was set.
Present(frame, member) ==
  frame.json = "object" /\ ~HasFault(frame, member, "missing")

\* A format is the sequence of the tokens the decoder tells apart: "json_v3",
\* ".", "digit" and, for any other text, "other".
NoFormat == <<>>
TypeOf(frame) == IF Present(frame, "type") THEN frame.type ELSE ""
FormatOf(frame) == IF Present(frame, "format") THEN frame.format ELSE NoFormat

\* json_v3, or one of its minor versions: a full stop and only digits.
\* Mutant: any version will do.
anyProtocolVersion(version) == version # NoFormat
supportedProtocolVersion(version) ==
  \/ version = <<"json_v3">>
  \/ /\ Len(version) > 2 /\ version[1] = "json_v3" /\ version[2] = "."
     /\ \A i \in 3 .. Len(version) : version[i] = "digit"
-----------------------------------------------------------------------------
\* unhandledFrame, and the well-formed report of an unknown type, which alone
\* carries no error.
UnhandledFrame(type, format, failed) ==
  [payload |-> "unhandled", type |-> type, format |-> format, failed |-> failed]

\* decodeResponse: the format must be there, but may be any.
ResponseDecodes(frame) ==
  /\ Unmarshals(frame, ResponseMembers)
  /\ \A m \in ResponseMembers : Present(frame, m)
  /\ frame.responseTo # ""
  /\ FormatOf(frame) # NoFormat

\* Whether a result decodes (decodeDeviceInfo, decodeConfig) is not decided
\* here but by the command that asked, in its validate.
Response(frame) ==
  [payload |-> "response", responseTo |-> frame.responseTo,
   success |-> frame.success, usable |-> Sound(frame, "result")]

\* The members of a report's struct are all there and every conversion of them
\* succeeds; the decoders of the two report types differ only in the members.
\* Mutant: the conversions' errors are not looked at.
ReportParses(frame, members, optional) ==
  /\ Unmarshals(frame, members \cup optional)
  /\ \A m \in members : Present(frame, m)
  /\ FormatOf(frame) # NoFormat
ReportDecodes(frame, members, optional) ==
  /\ Unmarshals(frame, members \cup optional)
  /\ \A m \in members : Present(frame, m)
  /\ FormatOf(frame) # NoFormat
  /\ \A m \in members : ~HasFault(frame, m, "unusable")

\* decodeVelocityReport: a report whose velocity the device calls invalid has
\* no measurement, whatever numbers came with it.
VelocityReport(frame) ==
  [payload |-> "velocity",
   reference |-> IF frame.type = "velocity_water" THEN "water" ELSE "bottom",
   measured |-> frame.valid]

DeadReckoningReport(frame) == [payload |-> "deadReckoning"]

\* Mutant: the response case comes after the check of the format.
DecodeMessageFormatFirst(frame) ==
  LET type == TypeOf(frame)
      format == FormatOf(frame)
  IN  IF ~Unmarshals(frame, {"type", "format"}) THEN UnhandledFrame("", NoFormat, TRUE)
      ELSE IF type = "" THEN UnhandledFrame("", format, TRUE)
      ELSE IF ~supportedProtocolVersion(format) THEN UnhandledFrame(type, format, TRUE)
      ELSE IF type = "response" /\ ResponseDecodes(frame) THEN Response(frame)
      ELSE UnhandledFrame(type, format, FALSE)

decodeMessage(frame) ==
  LET type   == TypeOf(frame)
      format == FormatOf(frame)
      refused == UnhandledFrame(type, format, TRUE)
  IN  IF ~Unmarshals(frame, {"type", "format"}) THEN UnhandledFrame("", NoFormat, TRUE)
      ELSE IF type = "" THEN refused
      ELSE IF type = "response"
        THEN IF ResponseDecodes(frame) THEN Response(frame) ELSE refused
      ELSE IF ~supportedProtocolVersion(format) THEN refused
      ELSE IF type \in {"velocity", "velocity_water"}
        THEN IF ReportDecodes(frame, VelocityMembers, {"altitude", "type"})
             THEN VelocityReport(frame) ELSE refused
      ELSE IF type = "position_local"
        THEN IF ReportDecodes(frame, DeadReckoningMembers, {})
             THEN DeadReckoningReport(frame) ELSE refused
      ELSE UnhandledFrame(type, format, FALSE)
=============================================================================
