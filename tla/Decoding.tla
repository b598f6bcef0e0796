------------------------------ MODULE Decoding ------------------------------
(***************************************************************************)
(* The decoding of one frame that the device may send (wire.go), as one    *)
(* step: what becomes of a frame with these faults.                        *)
(***************************************************************************)
EXTENDS Wire

CONSTANT Frames   \* the frames considered, each as IsFrame describes it

\* The tokens of a format.
Tokens == {"json_v3", ".", "digit", "other"}

ReportTypes == {"velocity", "velocity_water", "position_local"}

\* The members a frame of some type is decoded into.
MembersOf(type) ==
  {"type", "format"} \cup
  CASE type = "response" -> ResponseMembers
    [] type \in {"velocity", "velocity_water"} -> VelocityMembers \cup {"altitude"}
    [] type = "position_local" -> DeadReckoningMembers
    [] OTHER -> {}

\* Members that a conversion after json.Unmarshal can refuse.
Convertible == {"time", "covariance", "transducers", "ts", "result"}

\* Any number of members at fault, in any way.
IsFrame(f) ==
  /\ f.json \in Encodings \ {"blank", "overlong"}
  /\ f.format \in Seq(Tokens)
  /\ DOMAIN f.faults \subseteq MembersOf(f.type)
  /\ \A m \in DOMAIN f.faults :
       /\ f.faults[m] \in Faults
       /\ f.faults[m] = "unusable" => m \in Convertible
       /\ f.faults[m] = "nullElement" => m = "covariance"

ASSUME FramesAssumption == \A f \in Frames : IsFrame(f)

VARIABLES frame, message

Init == frame \in Frames /\ message = Nothing

Decode ==
  /\ message = Nothing
  /\ message' = decodeMessage(frame)
  /\ UNCHANGED frame

Spec == Init /\ [][Decode]_<<frame, message>>
-----------------------------------------------------------------------------
Decoded == message # Nothing

\* The frame is a JSON object whose type and format can be read.
Readable == frame.json = "object" /\ Sound(frame, "type") /\ Sound(frame, "format")

\* The documented family: json_v3 and json_v3.N for any number N.
InFamily(format) ==
  \/ format = <<"json_v3">>
  \/ \E n \in 1 .. Len(format) :
       format = <<"json_v3", ".">> \o [i \in 1 .. n |-> "digit"]

\* A report reaches a typed stream exactly when every member the protocol
\* requires is sound and its format is in the supported family.  An absent
\* altitude is no fault, and of all faults only a null inside the covariance
\* slips through, as a zero (wire.go:202-331, 510-521).
TypedReportsAreSound ==
  Decoded =>
    (message.payload \in {"velocity", "deadReckoning"} <=>
       /\ Readable
       /\ InFamily(frame.format)
       /\ frame.type \in ReportTypes
       /\ \A m \in DOMAIN frame.faults :
            \/ m = "altitude" /\ frame.faults[m] = "missing"
            \/ m = "covariance" /\ frame.faults[m] = "nullElement")

\* A sound response is decoded whatever its format claims to be
\* (wire.go:119-120, report.go:21-23).
ResponsesInAnyFormat ==
  Decoded /\ frame.json = "object" /\ frame.type = "response"
    /\ frame.responseTo # "" /\ frame.format # NoFormat
    /\ (\A m \in DOMAIN frame.faults : m = "result" /\ frame.faults[m] = "unusable")
    => message.payload = "response"

\* An unhandled frame has no error exactly when it is a well-formed report of
\* a type the package does not model (report.go:197-201, wire.go:147-153).
OnlyUnknownTypesHaveNoError ==
  Decoded =>
    (message.payload = "unhandled" /\ ~message.failed <=>
       /\ Readable
       /\ frame.type \notin ReportTypes \cup {"response", ""}
       /\ InFamily(frame.format))
=============================================================================
