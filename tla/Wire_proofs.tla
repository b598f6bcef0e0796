----------------------------- MODULE Wire_proofs -----------------------------
(* Proofs about the wire: the decoding of a frame, for any number of faults *)
(* in any members, every type and every format, and the conversion of every *)
(* number, for every format of floats and every width of integers.          *)
EXTENDS Decoding, Conversions, SequenceTheorems, WellFoundedInduction, TLAPS

\* The decoder's check of a format, token by token, accepts the documented
\* family and nothing else.
LEMMA FamilyIsSupported ==
  ASSUME NEW format \in Seq(Tokens)
  PROVE  supportedProtocolVersion(format) <=> InFamily(format)
<1> DEFINE Digits(n) == [i \in 1 .. n |-> "digit"]
           Minor(n) == <<"json_v3", ".">> \o Digits(n)
<1>1. ASSUME NEW n \in Nat
      PROVE  /\ Len(Minor(n)) = n + 2
             /\ Minor(n)[1] = "json_v3" /\ Minor(n)[2] = "."
             /\ \A i \in 3 .. n + 2 : Minor(n)[i] = "digit"
  <2>1. Digits(n) \in Seq(Tokens) /\ Len(Digits(n)) = n
    BY DEF Tokens
  <2>2. <<"json_v3", ".">> \in Seq(Tokens) /\ Len(<<"json_v3", ".">>) = 2
    BY DEF Tokens
  <2>3. \A i \in 1 .. n : Digits(n)[i] = "digit"
    OBVIOUS
  <2> HIDE DEF Digits
  <2> QED BY <2>1, <2>2, <2>3, ConcatProperties
<1>2. Len(format) \in Nat
  OBVIOUS
<1> HIDE DEF Minor
<1>3. ASSUME supportedProtocolVersion(format), format # <<"json_v3">>
      PROVE  \E n \in 1 .. Len(format) : format = Minor(n)
  <2> DEFINE n == Len(format) - 2
  <2>1. /\ n \in 1 .. Len(format) /\ n \in Nat /\ n + 2 = Len(format)
        /\ format[1] = "json_v3" /\ format[2] = "."
        /\ \A i \in 3 .. Len(format) : format[i] = "digit"
    BY <1>2, <1>3 DEF supportedProtocolVersion
  <2>2. Len(Minor(n)) = Len(format)
    BY <1>1, <2>1
  <2>3. \A i \in 1 .. Len(format) : i = 1 \/ i = 2 \/ i \in 3 .. Len(format)
    BY <1>2
  <2>4. \A i \in 1 .. Len(format) : Minor(n)[i] = format[i]
    BY <1>1, <2>1, <2>3
  <2>5. Minor(n) \in Seq(Tokens)
    BY DEF Minor, Tokens
  <2> QED BY <2>1, <2>2, <2>4, <2>5, SeqEqual
<1>4. ASSUME NEW n \in 1 .. Len(format), format = Minor(n)
      PROVE  supportedProtocolVersion(format)
  <2>1. n \in Nat /\ n >= 1
    BY <1>2
  <2>2. /\ Len(format) = n + 2
        /\ format[1] = "json_v3" /\ format[2] = "."
        /\ \A i \in 3 .. n + 2 : format[i] = "digit"
    BY <1>1, <1>4, <2>1
  <2> QED BY <2>1, <2>2 DEF supportedProtocolVersion
<1> QED BY <1>3, <1>4 DEF InFamily, Minor, supportedProtocolVersion
-----------------------------------------------------------------------------
(* Members, and what decoding makes of them.                               *)

\* A frame that is an object, with its members' faults one by one.
LEMMA FaultsOneByOne ==
  ASSUME IsFrame(frame), NEW m
  PROVE  /\ ~Sound(frame, m) => m \in MembersOf(frame.type)
         /\ \/ Sound(frame, m)
            \/ HasFault(frame, m, "missing")
            \/ HasFault(frame, m, "mistyped")
            \/ HasFault(frame, m, "unusable") /\ m \in Convertible
            \/ HasFault(frame, m, "nullElement") /\ m = "covariance"
BY DEF IsFrame, Sound, HasFault, Faults

\* The members that every message is decoded from first.
LEMMA Header ==
  ASSUME IsFrame(frame)
  PROVE  /\ Unmarshals(frame, {"type", "format"}) /\ TypeOf(frame) # "" <=>
              /\ frame.json = "object" /\ frame.type # ""
              /\ Sound(frame, "type") /\ ~HasFault(frame, "format", "mistyped")
         /\ frame.json = "object" /\ Sound(frame, "type") => TypeOf(frame) = frame.type
         /\ frame.json = "object" /\ Sound(frame, "format") => FormatOf(frame) = frame.format
         /\ ~Sound(frame, "format") /\ ~HasFault(frame, "format", "mistyped") =>
              FormatOf(frame) = NoFormat
<1>1. "type" \notin Convertible /\ "format" \notin Convertible
  BY DEF Convertible
<1>2. frame.json \in {"object", "null", "invalid"}
  BY DEF IsFrame, Encodings
<1>3. \A m \in {"type", "format"} :
        \/ Sound(frame, m)
        \/ HasFault(frame, m, "missing")
        \/ HasFault(frame, m, "mistyped")
  BY <1>1, FaultsOneByOne
<1> QED
  BY <1>2, <1>3
  DEF Unmarshals, TypeOf, FormatOf, Present, HasFault, Sound

LEMMA NoFormatIsUnsupported == ~supportedProtocolVersion(NoFormat)
BY DEF supportedProtocolVersion, NoFormat

\* A report decodes exactly when all of its members are sound, but for the
\* optional ones, which may be missing, and nulls inside the covariance.
LEMMA ReportsDecode ==
  ASSUME IsFrame(frame), frame.json = "object", NEW members, NEW optional,
         FormatOf(frame) # NoFormat,
         DOMAIN frame.faults \subseteq members \cup optional,
         optional \cap Convertible = {}
  PROVE  ReportDecodes(frame, members, optional) <=>
           \A m \in DOMAIN frame.faults :
             \/ m \in optional \ members /\ frame.faults[m] = "missing"
             \/ m = "covariance" /\ frame.faults[m] = "nullElement"
BY FaultsOneByOne DEF ReportDecodes, Unmarshals, Present, HasFault, Sound
-----------------------------------------------------------------------------
(* The branches of decodeMessage.                                          *)

IsRefused(m) == m.payload = "unhandled" /\ m.failed

LEMMA Branches ==
  LET type    == TypeOf(frame)
      format  == FormatOf(frame)
      decoding == decodeMessage(frame)
      header  == Unmarshals(frame, {"type", "format"}) /\ type # ""
      passed  == header /\ supportedProtocolVersion(format)
      decodes == \/ /\ type \in {"velocity", "velocity_water"}
                    /\ ReportDecodes(frame, VelocityMembers, {"altitude", "type"})
                 \/ /\ type = "position_local"
                    /\ ReportDecodes(frame, DeadReckoningMembers, {})
  IN  /\ ~header => IsRefused(decoding)
      /\ header /\ type = "response" =>
           IF ResponseDecodes(frame) THEN decoding.payload = "response" ELSE IsRefused(decoding)
      /\ header /\ type # "response" /\ ~passed => IsRefused(decoding)
      /\ passed /\ type \in ReportTypes =>
           IF decodes THEN decoding.payload \in {"velocity", "deadReckoning"}
                      ELSE IsRefused(decoding)
      /\ passed /\ type \notin ReportTypes \cup {"response"} =>
           decoding.payload = "unhandled" /\ ~decoding.failed
<1>1. \A type, format : IsRefused(UnhandledFrame(type, format, TRUE))
  BY DEF IsRefused, UnhandledFrame
<1>2. \A type, format : /\ UnhandledFrame(type, format, FALSE).payload = "unhandled"
                        /\ ~UnhandledFrame(type, format, FALSE).failed
  BY DEF UnhandledFrame
<1>3. /\ Response(frame).payload = "response"
      /\ VelocityReport(frame).payload = "velocity"
      /\ DeadReckoningReport(frame).payload = "deadReckoning"
  BY DEF Response, VelocityReport, DeadReckoningReport
<1> QED BY <1>1, <1>2, <1>3 DEF decodeMessage, ReportTypes

\* A frame whose type can be read, and its format if it has one.
HasHeader ==
  /\ frame.json = "object" /\ frame.type # ""
  /\ Sound(frame, "type") /\ ~HasFault(frame, "format", "mistyped")

LEMMA WithoutHeader ==
  ASSUME IsFrame(frame), ~HasHeader
  PROVE  IsRefused(decodeMessage(frame))
<1>1. ~Unmarshals(frame, {"type", "format"}) \/ TypeOf(frame) = ""
  BY Header DEF HasHeader
<1> QED BY <1>1, Branches

\* Only a format that can be read, and of the family, passes the check.
LEMMA FormatPasses ==
  ASSUME IsFrame(frame), HasHeader
  PROVE  supportedProtocolVersion(FormatOf(frame)) <=>
           Sound(frame, "format") /\ InFamily(frame.format)
<1>1. frame.format \in Seq(Tokens)
  BY DEF IsFrame
<1> QED
  BY <1>1, Header, FamilyIsSupported, NoFormatIsUnsupported DEF HasHeader

\* The fault of a member of a report is a fault of a decoded member.
LEMMA ReportIsDecoded ==
  ASSUME IsFrame(frame), HasHeader, frame.type \in ReportTypes,
         supportedProtocolVersion(FormatOf(frame))
  PROVE  decodeMessage(frame).payload \in {"velocity", "deadReckoning"} <=>
           \A m \in DOMAIN frame.faults :
             \/ m = "altitude" /\ frame.faults[m] = "missing"
             \/ m = "covariance" /\ frame.faults[m] = "nullElement"
<1>1. TypeOf(frame) = frame.type /\ Unmarshals(frame, {"type", "format"})
  BY Header DEF HasHeader
<1>2. FormatOf(frame) # NoFormat
  BY NoFormatIsUnsupported
<1>3. "type" \notin DOMAIN frame.faults
  BY DEF HasHeader, Sound
<1>4. CASE frame.type \in {"velocity", "velocity_water"}
  <2>1. DOMAIN frame.faults \subseteq VelocityMembers \cup {"altitude", "type"}
    BY <1>4 DEF IsFrame, MembersOf, VelocityMembers
  <2>2. ReportDecodes(frame, VelocityMembers, {"altitude", "type"}) <=>
          \A m \in DOMAIN frame.faults :
            \/ m \in {"altitude", "type"} \ VelocityMembers /\ frame.faults[m] = "missing"
            \/ m = "covariance" /\ frame.faults[m] = "nullElement"
    <3>1. {"altitude", "type"} \cap Convertible = {}
      BY DEF Convertible
    <3> QED BY <1>2, <2>1, <3>1, ReportsDecode DEF HasHeader
  <2>3. decodeMessage(frame).payload \in {"velocity", "deadReckoning"} <=>
          ReportDecodes(frame, VelocityMembers, {"altitude", "type"})
    BY <1>1, <1>4, Branches DEF ReportTypes, IsRefused
  <2> QED BY <1>3, <2>2, <2>3 DEF VelocityMembers
<1>5. CASE frame.type = "position_local"
  <2>1. DOMAIN frame.faults \subseteq DeadReckoningMembers
    BY <1>3, <1>5 DEF IsFrame, MembersOf, DeadReckoningMembers
  <2>2. ReportDecodes(frame, DeadReckoningMembers, {}) <=> \A m \in DOMAIN frame.faults : FALSE
    <3>1. {} \cap Convertible = {}
      OBVIOUS
    <3>2. "covariance" \notin DOMAIN frame.faults
      BY <2>1 DEF DeadReckoningMembers
    <3> QED BY <1>2, <2>1, <3>1, <3>2, ReportsDecode DEF HasHeader
  <2>3. decodeMessage(frame).payload \in {"velocity", "deadReckoning"} <=>
          ReportDecodes(frame, DeadReckoningMembers, {})
    BY <1>1, <1>5, Branches DEF ReportTypes, IsRefused
  <2> QED BY <2>1, <2>2, <2>3 DEF DeadReckoningMembers
<1> QED BY <1>4, <1>5 DEF ReportTypes

LEMMA TypedReportsDecode ==
  ASSUME IsFrame(frame), message = decodeMessage(frame)
  PROVE  TypedReportsAreSound
<1>1. CASE ~HasHeader
  <2>1. message.payload = "unhandled"
    BY <1>1, WithoutHeader DEF IsRefused
  <2>2. ~(Readable /\ frame.type \in ReportTypes)
    BY <1>1 DEF HasHeader, Readable, Sound, HasFault, ReportTypes
  <2> QED BY <2>1, <2>2 DEF TypedReportsAreSound
<1>2. CASE HasHeader /\ frame.type \notin ReportTypes
  <2>1. TypeOf(frame) = frame.type /\ Unmarshals(frame, {"type", "format"})
    BY <1>2, Header DEF HasHeader
  <2>2. message.payload \in {"response", "unhandled"}
    BY <1>2, <2>1, Branches DEF ReportTypes, IsRefused
  <2> QED BY <1>2, <2>2 DEF TypedReportsAreSound
<1>3. CASE HasHeader /\ frame.type \in ReportTypes
  <2>1. TypeOf(frame) = frame.type /\ Unmarshals(frame, {"type", "format"})
    BY <1>3, Header DEF HasHeader
  <2>2. CASE supportedProtocolVersion(FormatOf(frame))
    BY <1>3, <2>2, ReportIsDecoded, FormatPasses
    DEF TypedReportsAreSound, Readable, HasHeader
  <2>3. CASE ~supportedProtocolVersion(FormatOf(frame))
    <3>1. message.payload = "unhandled"
      BY <1>3, <2>1, <2>3, Branches DEF ReportTypes, IsRefused
    <3> QED BY <1>3, <2>3, <3>1, FormatPasses DEF TypedReportsAreSound, Readable, HasHeader
  <2> QED BY <2>2, <2>3
<1> QED BY <1>1, <1>2, <1>3

LEMMA ResponsesDecode ==
  ASSUME IsFrame(frame), message = decodeMessage(frame)
  PROVE  ResponsesInAnyFormat
<1> SUFFICES ASSUME frame.json = "object", frame.type = "response",
                    frame.responseTo # "", frame.format # NoFormat,
                    \A m \in DOMAIN frame.faults :
                      m = "result" /\ frame.faults[m] = "unusable"
             PROVE  message.payload = "response"
  BY DEF ResponsesInAnyFormat
<1>1. Sound(frame, "type") /\ Sound(frame, "format")
  BY DEF Sound
<1>2. \A m : ~HasFault(frame, m, "missing") /\ ~HasFault(frame, m, "mistyped")
  BY DEF Sound, HasFault
<1>3. HasHeader
  BY <1>1, <1>2 DEF HasHeader
<1>4. TypeOf(frame) = "response" /\ Unmarshals(frame, {"type", "format"})
  BY <1>3, Header DEF HasHeader
<1>5. FormatOf(frame) # NoFormat
  BY <1>1, Header
<1>6. ResponseDecodes(frame)
  BY <1>2, <1>5 DEF ResponseDecodes, Unmarshals, Present
<1> QED BY <1>4, <1>6, Branches

LEMMA UnknownTypesDecode ==
  ASSUME IsFrame(frame), message = decodeMessage(frame)
  PROVE  OnlyUnknownTypesHaveNoError
<1>1. CASE ~HasHeader
  BY <1>1, WithoutHeader
  DEF IsRefused, HasHeader, Readable, Sound, HasFault, OnlyUnknownTypesHaveNoError
<1>2. CASE HasHeader
  <2>1. TypeOf(frame) = frame.type /\ Unmarshals(frame, {"type", "format"}) /\ frame.type # ""
    BY <1>2, Header DEF HasHeader
  <2>2. message.payload = "unhandled" /\ ~message.failed <=>
          /\ frame.type \notin ReportTypes \cup {"response"}
          /\ supportedProtocolVersion(FormatOf(frame))
    BY <2>1, Branches DEF ReportTypes, IsRefused
  <2> QED BY <1>2, <2>1, <2>2, FormatPasses DEF OnlyUnknownTypesHaveNoError, Readable, HasHeader
<1> QED BY <1>1, <1>2
-----------------------------------------------------------------------------
\* The message, once there is one, is what decodeMessage makes of the frame.
DecodingInv == IsFrame(frame) /\ message \in {Nothing, decodeMessage(frame)}

LEMMA DecodingKept == Spec => []DecodingInv
<1>1. Init => DecodingInv
  BY FramesAssumption DEF Init, DecodingInv
<1>2. DecodingInv /\ [Decode]_<<frame, message>> => DecodingInv'
  BY DEF DecodingInv, Decode
<1> QED BY <1>1, <1>2, PTL DEF Spec

\* No fault slips into a typed stream but a null inside the covariance, however
\* many members are at fault and in whatever way, and no sound report is kept
\* out of it, whatever minor version of the format it has (wire.go:202-331,
\* 464-479, 510-521).
THEOREM NoFaultSlipsThrough == Spec => []TypedReportsAreSound
<1>1. DecodingInv => TypedReportsAreSound
  BY TypedReportsDecode DEF DecodingInv, TypedReportsAreSound, Decoded
<1> QED BY <1>1, DecodingKept, PTL

\* A response is decoded in any format, so that it can be matched to its command
\* (wire.go:119-120).
THEOREM ResponsesAreDecoded == Spec => []ResponsesInAnyFormat
<1>1. DecodingInv => ResponsesInAnyFormat
  BY ResponsesDecode DEF DecodingInv, ResponsesInAnyFormat, Decoded
<1> QED BY <1>1, DecodingKept, PTL

\* An unhandled frame without an error is a report of a type that the package
\* does not know, and nothing else (wire.go:147-153).
THEOREM ErrorsAreForFaults == Spec => []OnlyUnknownTypesHaveNoError
<1>1. DecodingInv => OnlyUnknownTypesHaveNoError
  BY UnknownTypesDecode DEF DecodingInv, OnlyUnknownTypesHaveNoError, Decoded
<1> QED BY <1>1, DecodingKept, PTL
-----------------------------------------------------------------------------
(* Numbers.  Powers of two, then the two roundings, then the conversion.   *)

Below == {p \in Nat \X Nat : p[1] < p[2]}

\* A set of natural numbers that is not empty has a least element: what stands
\* here for induction over the natural numbers.
LEMMA Least ==
  ASSUME NEW T, T \subseteq Nat, T # {}
  PROVE  \E x \in T : \A y \in T : x <= y
<1>1. IsWellFoundedOn(Below, Nat)
  <2>1. OpToRel(<, Nat) = Below
    BY DEF OpToRel, Below
  <2> QED BY <2>1, NatLessThanWellFounded
<1>2. PICK x \in T : \A y \in T : ~ (<<y, x>> \in Below)
  BY <1>1, WFMin
<1>3. \A y \in T : y < x => <<y, x>> \in Below
  BY DEF Below
<1>4. ASSUME NEW y \in T
      PROVE  x <= y
  <2>1. x \in Nat /\ y \in Nat
    OBVIOUS
  <2>2. ~ (y < x)
    BY <1>2, <1>3
  <2> QED BY <2>1, <2>2
<1> QED BY <1>4

PowersTo(n) ==
  {g \in [0 .. n -> Nat \ {0}] :
     g[0] = 1 /\ \A i \in 0 .. n : i # 0 => g[i] = 2 * g[i - 1]}

LEMMA PowersExist == ASSUME NEW n \in Nat PROVE PowersTo(n) # {}
<1> DEFINE T == {m \in Nat : PowersTo(m) = {}}
<1>1. SUFFICES T = {}
  OBVIOUS
<1>2. SUFFICES ASSUME T # {} PROVE FALSE
  OBVIOUS
<1>3. PICK m \in T : \A y \in T : m <= y
  BY <1>2, Least
<1>4. m \in Nat /\ PowersTo(m) = {}
  OBVIOUS
<1>5. CASE m = 0
  <2>1. [i \in 0 .. 0 |-> 1] \in PowersTo(0)
    BY DEF PowersTo
  <2> QED BY <1>4, <1>5, <2>1
<1>6. CASE m # 0
  <2>1. m - 1 \in Nat /\ m - 1 \notin T
    BY <1>3, <1>4, <1>6
  <2>2. PICK g : g \in PowersTo(m - 1)
    BY <2>1
  <2> DEFINE h == [i \in 0 .. m |-> IF i = m THEN 2 * g[m - 1] ELSE g[i]]
  <2>3. /\ \A i \in 0 .. m - 1 : g[i] \in Nat \ {0}
        /\ g[0] = 1
        /\ \A i \in 0 .. m - 1 : i # 0 => g[i] = 2 * g[i - 1]
    BY <2>2 DEF PowersTo
  <2>4. h \in [0 .. m -> Nat \ {0}]
    BY <1>4, <1>6, <2>3
  <2>5. h[0] = 1
    BY <1>4, <1>6, <2>3
  <2>6. ASSUME NEW i \in 0 .. m, i # 0
        PROVE  h[i] = 2 * h[i - 1]
    BY <1>4, <1>6, <2>3, <2>6
  <2>7. h \in PowersTo(m)
    BY <2>4, <2>5, <2>6 DEF PowersTo
  <2> QED BY <1>4, <2>7
<1> QED BY <1>5, <1>6

LEMMA PowersAgree ==
  ASSUME NEW m \in Nat, NEW n \in Nat, NEW g \in PowersTo(m), NEW h \in PowersTo(n),
         NEW k \in Nat, k <= m, k <= n
  PROVE  g[k] = h[k]
<1> DEFINE T == {i \in 0 .. k : g[i] # h[i]}
<1>1. SUFFICES ASSUME T # {} PROVE FALSE
  OBVIOUS
<1>2. PICK i \in T : \A y \in T : i <= y
  <2>1. T \subseteq Nat
    OBVIOUS
  <2> HIDE DEF T
  <2> QED BY <1>1, <2>1, Least
<1>3. i \in 0 .. k /\ g[i] # h[i]
  OBVIOUS
<1>4. i # 0
  BY <1>3 DEF PowersTo
<1>5. i - 1 \in 0 .. k /\ g[i - 1] = h[i - 1]
  BY <1>2, <1>3, <1>4
<1>6. g[i] = 2 * g[i - 1] /\ h[i] = 2 * h[i - 1]
  BY <1>3, <1>4 DEF PowersTo
<1> QED BY <1>3, <1>5, <1>6

Powers == [n \in Nat |-> (CHOOSE g \in PowersTo(n) : TRUE)[n]]

LEMMA PowersEquation ==
  Powers = [n \in Nat |-> IF n = 0 THEN 1 ELSE 2 * Powers[n - 1]]
<1>1. ASSUME NEW n \in Nat
      PROVE  Powers[n] = IF n = 0 THEN 1 ELSE 2 * Powers[n - 1]
  <2> DEFINE g == CHOOSE g \in PowersTo(n) : TRUE
  <2>1. g \in PowersTo(n)
    BY PowersExist
  <2>2. Powers[n] = g[n]
    BY DEF Powers
  <2>3. CASE n = 0
    <3>1. g[0] = 1
      BY <2>1 DEF PowersTo
    <3> QED BY <2>2, <2>3, <3>1
  <2>4. CASE n # 0
    <3> DEFINE h == CHOOSE h \in PowersTo(n - 1) : TRUE
    <3>1. n - 1 \in Nat
      BY <2>4
    <3>2. h \in PowersTo(n - 1)
      BY <3>1, PowersExist
    <3>3. Powers[n - 1] = h[n - 1]
      BY <3>1 DEF Powers
    <3> HIDE DEF g, h
    <3>4. g[n] = 2 * g[n - 1]
      BY <2>1, <2>4 DEF PowersTo
    <3>5. g[n - 1] = h[n - 1]
      BY <2>1, <3>1, <3>2, PowersAgree
    <3> QED BY <2>2, <2>4, <3>3, <3>4, <3>5
  <2> QED BY <2>3, <2>4
<1>2. Powers = [n \in Nat |-> Powers[n]]
  BY DEF Powers
<1> QED BY <1>1, <1>2

LEMMA TwoToEquation ==
  TwoTo = [n \in Nat |-> IF n = 0 THEN 1 ELSE 2 * TwoTo[n - 1]]
<1>1. ASSUME NEW f, f = [n \in Nat |-> IF n = 0 THEN 1 ELSE 2 * f[n - 1]]
      PROVE  TwoTo = [n \in Nat |-> IF n = 0 THEN 1 ELSE 2 * TwoTo[n - 1]]
  BY <1>1 DEF TwoTo
<1> QED BY <1>1, PowersEquation

LEMMA TwoToStep ==
  TwoTo[0] = 1 /\ \A n \in Nat : TwoTo[n + 1] = 2 * TwoTo[n]
<1>1. TwoTo[0] = 1
  BY TwoToEquation
<1>2. ASSUME NEW n \in Nat
      PROVE  TwoTo[n + 1] = 2 * TwoTo[n]
  <2>1. n + 1 \in Nat /\ n + 1 # 0 /\ (n + 1) - 1 = n
    OBVIOUS
  <2> QED BY <2>1, TwoToEquation
<1> QED BY <1>1, <1>2

LEMMA TwoToType == \A n \in Nat : TwoTo[n] \in Nat \ {0}
<1> DEFINE T == {n \in Nat : TwoTo[n] \notin Nat \ {0}}
<1>1. SUFFICES ASSUME T # {} PROVE FALSE
  OBVIOUS
<1>2. PICK n \in T : \A y \in T : n <= y
  <2>1. T \subseteq Nat
    OBVIOUS
  <2> HIDE DEF T
  <2> QED BY <1>1, <2>1, Least
<1>3. n # 0
  BY TwoToStep
<1>4. n - 1 \in Nat /\ TwoTo[n - 1] \in Nat \ {0}
  BY <1>2, <1>3
<1>5. TwoTo[(n - 1) + 1] = 2 * TwoTo[n - 1]
  BY <1>4, TwoToStep
<1>6. (n - 1) + 1 = n
  OBVIOUS
<1> QED BY <1>4, <1>5, <1>6

\* The product of two powers.
LEMMA TwoToSum ==
  ASSUME NEW a \in Nat, NEW b \in Nat
  PROVE  TwoTo[a + b] = TwoTo[a] * TwoTo[b]
<1> DEFINE T == {n \in Nat : TwoTo[a + n] # TwoTo[a] * TwoTo[n]}
<1>1. SUFFICES ASSUME T # {} PROVE FALSE
  OBVIOUS
<1>2. PICK n \in T : \A y \in T : n <= y
  <2>1. T \subseteq Nat
    OBVIOUS
  <2> HIDE DEF T
  <2> QED BY <1>1, <2>1, Least
<1>3. n # 0
  <2>1. a + 0 = a /\ TwoTo[a] * 1 = TwoTo[a]
    BY TwoToType
  <2>2. 0 \notin T
    BY <2>1, TwoToStep
  <2> QED BY <2>2
<1>4. n - 1 \in Nat /\ TwoTo[a + (n - 1)] = TwoTo[a] * TwoTo[n - 1]
  BY <1>2, <1>3
<1>5. TwoTo[a + n] = 2 * TwoTo[a + (n - 1)] /\ TwoTo[n] = 2 * TwoTo[n - 1]
  <2>1. a + (n - 1) \in Nat /\ (a + (n - 1)) + 1 = a + n /\ (n - 1) + 1 = n
    BY <1>4
  <2> QED BY <1>4, <2>1, TwoToStep
<1>6. TwoTo[a] \in Int /\ TwoTo[n - 1] \in Int
  BY <1>4, TwoToType
<1>7. \A x, y \in Int : 2 * (x * y) = x * (2 * y)
  OBVIOUS
<1>8. TwoTo[a + n] = TwoTo[a] * TwoTo[n]
  BY <1>4, <1>5, <1>6, <1>7
<1> QED BY <1>8

LEMMA TwoToMonotone ==
  ASSUME NEW a \in Nat, NEW b \in Nat
  PROVE  /\ a <= b => TwoTo[a] <= TwoTo[b]
         /\ a < b => TwoTo[a] < TwoTo[b]
<1>1. ASSUME NEW c \in Nat, NEW d \in Nat, c <= d
      PROVE  TwoTo[c] <= TwoTo[d]
  <2>1. d - c \in Nat /\ c + (d - c) = d
    BY <1>1
  <2>2. TwoTo[d] = TwoTo[c] * TwoTo[d - c]
    BY <2>1, TwoToSum
  <2>3. \A x, y \in Nat \ {0} : x <= x * y
    OBVIOUS
  <2> QED BY <2>1, <2>2, <2>3, TwoToType
<1>2. ASSUME a < b
      PROVE  TwoTo[a] < TwoTo[b]
  <2>1. TwoTo[a + 1] <= TwoTo[b] /\ TwoTo[a + 1] = 2 * TwoTo[a]
    BY <1>1, <1>2, TwoToStep
  <2>2. TwoTo[a] \in Nat \ {0} /\ TwoTo[b] \in Nat
    BY TwoToType
  <2> QED BY <2>1, <2>2
<1> QED BY <1>1, <1>2
-----------------------------------------------------------------------------
\* Integer division by a positive integer.
LEMMA Division ==
  ASSUME NEW n \in Int, NEW d \in Nat \ {0}
  PROVE  /\ n \div d \in Int
         /\ (n % d) \in 0 .. d - 1
         /\ n = d * (n \div d) + (n % d)
OBVIOUS

LEMMA Quotient ==
  ASSUME NEW n \in Int, NEW d \in Nat \ {0}, NEW q \in Int, NEW r \in 0 .. d - 1,
         n = d * q + r
  PROVE  n \div d = q /\ (n % d) = r
<1> DEFINE p == n \div d
           s == n % d
<1>1. p \in Int /\ s \in 0 .. d - 1 /\ n = d * p + s
  BY Division
<1> HIDE DEF p, s
<1>2. p > q => d * p >= d * q + d
  BY <1>1
<1>3. p < q => d * p <= d * q - d
  BY <1>1
<1>4. p = q
  <2>1. d * p \in Int /\ d * q \in Int
    BY <1>1
  <2> QED BY <1>1, <1>2, <1>3, <2>1
<1>5. s = r
  BY <1>1, <1>4
<1> QED BY <1>4, <1>5 DEF p, s

LEMMA MagnitudeType ==
  ASSUME NEW n \in Int
  PROVE  Magnitude(n) \in Nat /\ (n >= 0 => Magnitude(n) = n) /\ (n <= 0 => Magnitude(n) = -n)
BY DEF Magnitude

\* NearestEven is as near as half a step, and exact for multiples of the step.
LEMMA NearestIsNear ==
  ASSUME NEW n \in Int, NEW d \in Nat \ {0}
  PROVE  /\ NearestEven(n, d) \in Int
         /\ 2 * (NearestEven(n, d) * d - n) <= d
         /\ 2 * (n - NearestEven(n, d) * d) <= d
<1> DEFINE q == n \div d
           r == n % d
<1>1. q \in Int /\ r \in 0 .. d - 1 /\ n = d * q + r
  BY Division
<1>2. \/ NearestEven(n, d) = q + 1 /\ 2 * r >= d
      \/ NearestEven(n, d) = q /\ 2 * r <= d
  <2>1. r \in Int /\ d \in Int
    BY <1>1
  <2>2. NearestEven(n, d) =
          IF 2 * r > d \/ (2 * r = d /\ q % 2 = 1) THEN q + 1 ELSE q
    BY DEF NearestEven
  <2> HIDE DEF q, r
  <2> QED BY <2>1, <2>2
<1> HIDE DEF q, r
<1>3. (q + 1) * d = d * q + d /\ q * d = d * q /\ d * q \in Int
  BY <1>1
<1>4. CASE NearestEven(n, d) = q + 1 /\ 2 * r >= d
  BY <1>1, <1>3, <1>4
<1>5. CASE NearestEven(n, d) = q /\ 2 * r <= d
  BY <1>1, <1>3, <1>5
<1> QED BY <1>2, <1>4, <1>5

LEMMA NearestOfMultiple ==
  ASSUME NEW q \in Int, NEW d \in Nat \ {0}
  PROVE  NearestEven(q * d, d) = q
<1>1. q * d \in Int /\ q * d = d * q + 0 /\ 0 \in 0 .. d - 1
  OBVIOUS
<1>2. (q * d) \div d = q /\ ((q * d) % d) = 0
  BY <1>1, Quotient
<1> QED BY <1>2 DEF NearestEven

\* Halfway or nearer to the next multiple, and that one even, it is taken.
LEMMA NearestAbove ==
  ASSUME NEW q \in Int, NEW d \in Nat \ {0}, NEW r \in 0 .. d - 1, q % 2 = 1, 2 * r >= d
  PROVE  NearestEven(d * q + r, d) = q + 1
<1>1. d * q + r \in Int
  OBVIOUS
<1>2. (d * q + r) \div d = q /\ ((d * q + r) % d) = r
  BY <1>1, Quotient
<1>3. 2 * r > d \/ 2 * r = d
  OBVIOUS
<1> QED BY <1>2, <1>3 DEF NearestEven

IsUnit(u) == u \in 0 .. MaxExponent /\ Unit = TwoTo[u] /\ Width + u <= Precision + MaxExponent

LEMMA ConstantsType ==
  /\ Precision \in Nat \ {0} /\ Width \in Nat /\ Precision < Width - 1
  /\ Scale \in Nat \ {0} /\ MaxExponent \in Nat /\ Unit \in Nat \ {0}
  /\ Overflow \in Nat \ {0} /\ MaxInt \in Nat /\ MinInt = -(MaxInt + 1)
  /\ TwoTo[Width - 1] = MaxInt + 1
<1>1. /\ Precision \in Nat \ {0} /\ Width \in Nat /\ Precision < Width - 1
      /\ Scale \in Nat \ {0} /\ MaxExponent \in Nat
  BY NumbersAssumption
<1>2. Unit \in Nat \ {0}
  BY NumbersAssumption, TwoToType
<1>3. Width - 1 \in Nat /\ Precision + MaxExponent \in Nat
  BY <1>1
<1>4. TwoTo[Width - 1] \in Nat \ {0} /\ TwoTo[Precision + MaxExponent] \in Nat \ {0}
  BY <1>3, TwoToType
<1> QED BY <1>1, <1>2, <1>4 DEF Overflow, MaxInt, MinInt

\* e is the exponent of n.
IsExponent(e, n) ==
  /\ e \in 0 .. MaxExponent
  /\ Magnitude(n) < TwoTo[Precision + e]
  /\ e > 0 => Magnitude(n) >= TwoTo[Precision + e - 1]

LEMMA ExponentIs ==
  ASSUME NEW n \in Int, NEW e, IsExponent(e, n)
  PROVE  Exponent(n) = e
<1>1. Exponent(n) = CHOOSE x \in 0 .. MaxExponent : IsExponent(x, n)
  BY DEF Exponent, IsExponent
<1>2. e \in 0 .. MaxExponent
  BY DEF IsExponent
<1>3. ASSUME NEW x \in 0 .. MaxExponent, NEW y \in 0 .. MaxExponent,
             IsExponent(x, n), IsExponent(y, n), x < y
      PROVE  FALSE
  <2>1. Precision + x \in Nat /\ Precision + y - 1 \in Nat /\ Precision + x <= Precision + y - 1
    BY <1>3, ConstantsType
  <2>2. TwoTo[Precision + x] <= TwoTo[Precision + y - 1]
    BY <2>1, TwoToMonotone
  <2>3. TwoTo[Precision + x] \in Nat /\ TwoTo[Precision + y - 1] \in Nat
    BY <2>1, TwoToType
  <2>4. Magnitude(n) < TwoTo[Precision + x] /\ Magnitude(n) >= TwoTo[Precision + y - 1]
    BY <1>3, ConstantsType DEF IsExponent
  <2> QED BY <2>2, <2>3, <2>4, MagnitudeType
<1>4. \A x \in 0 .. MaxExponent : IsExponent(x, n) => x = e
  BY <1>2, <1>3, ConstantsType
<1> QED BY <1>1, <1>2, <1>4

\* What is below the overflow has an exponent.
LEMMA ExponentExists ==
  ASSUME NEW n \in Int, Magnitude(n) < Overflow
  PROVE  IsExponent(Exponent(n), n)
<1> DEFINE T == {e \in 0 .. MaxExponent : Magnitude(n) < TwoTo[Precision + e]}
<1>1. MaxExponent \in T
  BY ConstantsType DEF Overflow
<1>2. PICK e \in T : \A y \in T : e <= y
  <2>1. T \subseteq Nat /\ T # {}
    BY <1>1
  <2> HIDE DEF T
  <2> QED BY <2>1, Least
<1>3. e \in 0 .. MaxExponent /\ Magnitude(n) < TwoTo[Precision + e]
  OBVIOUS
<1>4. ASSUME e > 0
      PROVE  Magnitude(n) >= TwoTo[Precision + e - 1]
  <2>1. e - 1 \in 0 .. MaxExponent /\ ~ (e <= e - 1)
    BY <1>3, <1>4, ConstantsType
  <2>2. e - 1 \notin T
    BY <1>2, <2>1
  <2>3. ~ (Magnitude(n) < TwoTo[Precision + (e - 1)])
    BY <2>1, <2>2
  <2>4. Precision + (e - 1) = Precision + e - 1 /\ Precision + e - 1 \in Nat
    BY <1>3, <1>4, ConstantsType
  <2>5. TwoTo[Precision + e - 1] \in Nat
    BY <2>4, TwoToType
  <2> QED BY <2>3, <2>4, <2>5, MagnitudeType
<1>5. IsExponent(e, n)
  BY <1>3, <1>4 DEF IsExponent
<1> QED BY <1>5, ExponentIs

LEMMA SpacingType ==
  ASSUME NEW n \in Int, Magnitude(n) < Overflow
  PROVE  Spacing(n) \in Nat \ {0}
<1>1. Exponent(n) \in Nat
  BY ExponentExists, ConstantsType DEF IsExponent
<1> QED BY <1>1, TwoToType DEF Spacing

\* A float is as near to the exact value as half the spacing, and there is none
\* only at or next to the overflow.
LEMMA FloatIsNear ==
  ASSUME NEW n \in Int, Magnitude(n) < Overflow
  PROVE  \E near \in Int :
           /\ 2 * (near - n) <= Spacing(n) /\ 2 * (n - near) <= Spacing(n)
           /\ Float(n) = IF Magnitude(near) = Overflow THEN NotFinite ELSE near
<1> DEFINE near == NearestEven(n, Spacing(n)) * Spacing(n)
<1>1. Spacing(n) \in Nat \ {0}
  BY SpacingType
<1>2. near \in Int /\ 2 * (near - n) <= Spacing(n) /\ 2 * (n - near) <= Spacing(n)
  BY <1>1, NearestIsNear
<1>3. ~ (Magnitude(n) >= Overflow)
  BY MagnitudeType, ConstantsType
<1>4. Float(n) = IF Magnitude(near) = Overflow THEN NotFinite ELSE near
  BY <1>3 DEF Float
<1> HIDE DEF near
<1> QED BY <1>2, <1>4

\* The limits in units are powers of two, which floats reach.
LEMMA LimitsInUnits ==
  ASSUME NEW u, IsUnit(u)
  PROVE  /\ Width - 1 + u \in Nat
         /\ (MaxInt + 1) * Unit = TwoTo[Width - 1 + u]
         /\ TwoTo[Width - 1 + u] < Overflow
         /\ MinInt * Unit = -TwoTo[Width - 1 + u]
         /\ MaxInt * Unit = TwoTo[Width - 1 + u] - Unit
<1>1. u \in Nat /\ Unit = TwoTo[u] /\ Width - 1 \in Nat /\ Width - 1 + u \in Nat
  BY ConstantsType DEF IsUnit
<1>2. TwoTo[Width - 1 + u] = TwoTo[Width - 1] * TwoTo[u]
  BY <1>1, TwoToSum
<1>3. TwoTo[Width - 1 + u] = (MaxInt + 1) * Unit
  BY <1>1, <1>2, ConstantsType
<1>4. TwoTo[Width - 1 + u] < Overflow
  <2>1. Precision + MaxExponent \in Nat /\ Width - 1 + u < Precision + MaxExponent
    BY <1>1, ConstantsType DEF IsUnit
  <2> QED BY <1>1, <2>1, TwoToMonotone DEF Overflow
<1>5. \A m, x \in Int : -(m + 1) * x = -((m + 1) * x) /\ m * x = (m + 1) * x - x
  OBVIOUS
<1>6. MinInt * Unit = -((MaxInt + 1) * Unit) /\ MaxInt * Unit = (MaxInt + 1) * Unit - Unit
  BY <1>5, ConstantsType
<1> QED BY <1>1, <1>3, <1>4, <1>6

\* The least integer is a float.
LEMMA FloatOfMinInt == Float(MinInt * Unit) = MinInt * Unit
<1>1. PICK u : IsUnit(u)
  BY NumbersAssumption DEF IsUnit
<1> DEFINE n == MinInt * Unit
           e == Width + u - Precision
           p == TwoTo[Width - 1 + u]
<1>2. /\ u \in Nat /\ e \in Nat /\ e > 0 /\ e \in 0 .. MaxExponent
      /\ Width - 1 + u \in Nat /\ Precision - 1 \in Nat
      /\ Precision + e = (Width - 1 + u) + 1 /\ Precision + e - 1 = Width - 1 + u
      /\ (Precision - 1) + e = Width - 1 + u
  BY <1>1, ConstantsType DEF IsUnit
<1>3. n = -p /\ p < Overflow /\ p \in Nat \ {0} /\ n \in Int /\ Magnitude(n) = p
  <2>1. n = -p /\ p < Overflow
    BY <1>1, LimitsInUnits
  <2>2. p \in Nat \ {0}
    BY <1>2, TwoToType
  <2> QED BY <2>1, <2>2, MagnitudeType
<1>4. Exponent(n) = e
  <2>1. TwoTo[Precision + e] = 2 * p
    BY <1>2, TwoToStep
  <2>2. Magnitude(n) < TwoTo[Precision + e] /\ Magnitude(n) >= TwoTo[Precision + e - 1]
    BY <1>2, <1>3, <2>1
  <2> QED BY <1>2, <1>3, <2>2, ExponentIs DEF IsExponent
<1>5. Spacing(n) = TwoTo[e] /\ Spacing(n) \in Nat \ {0}
  BY <1>2, <1>4, TwoToType DEF Spacing
<1>6. p = TwoTo[Precision - 1] * TwoTo[e]
  BY <1>2, TwoToSum
<1>7. n = (-TwoTo[Precision - 1]) * Spacing(n) /\ -TwoTo[Precision - 1] \in Int
  <2>1. TwoTo[Precision - 1] \in Int
    BY <1>2, TwoToType
  <2>2. \A a, b \in Int : -(a * b) = (-a) * b
    OBVIOUS
  <2> HIDE DEF n, p
  <2> QED BY <1>3, <1>5, <1>6, <2>1, <2>2
<1> HIDE DEF n, e, p
<1>8. NearestEven(n, Spacing(n)) * Spacing(n) = n
  BY <1>5, <1>7, NearestOfMultiple
<1>9. ~ (Magnitude(n) >= Overflow) /\ Magnitude(n) # Overflow
  BY <1>3, ConstantsType
<1>10. Float(n) = n
  BY <1>8, <1>9 DEF Float
<1> QED BY <1>10 DEF n

\* The float of the greatest integer is the integer after it.
LEMMA FloatOfMaxInt == Float(MaxInt * Unit) = (MaxInt + 1) * Unit
<1>1. PICK u : IsUnit(u)
  BY NumbersAssumption DEF IsUnit
<1> DEFINE n == MaxInt * Unit
           e == Width - 1 + u - Precision
           p == TwoTo[Width - 1 + u]
           half == TwoTo[e - 1]
<1>2. /\ u \in Nat /\ e \in Nat /\ e > 0 /\ e \in 0 .. MaxExponent
      /\ Width - 1 + u \in Nat /\ Precision - 1 \in Nat /\ e - 1 \in Nat /\ u <= e - 1
      /\ Precision + e = Width - 1 + u /\ Precision + e - 1 \in Nat
      /\ (Precision + e - 1) + 1 = Width - 1 + u /\ u <= Precision + e - 1
      /\ (e - 1) + 1 = e /\ (Precision - 1) + 1 = Precision
      /\ Unit = TwoTo[u]
  BY <1>1, ConstantsType DEF IsUnit
<1>3. n = p - Unit /\ p < Overflow /\ p \in Nat \ {0} /\ Unit \in Nat \ {0}
  <2>1. n = p - Unit /\ p < Overflow
    BY <1>1, LimitsInUnits
  <2>2. p \in Nat \ {0}
    BY <1>2, TwoToType
  <2> QED BY <2>1, <2>2, ConstantsType
<1>4. p = 2 * TwoTo[Precision + e - 1] /\ Unit <= TwoTo[Precision + e - 1]
      /\ TwoTo[Precision + e - 1] \in Nat
  <2>1. Unit <= TwoTo[Precision + e - 1]
    BY <1>2, TwoToMonotone
  <2>2. TwoTo[(Precision + e - 1) + 1] = 2 * TwoTo[Precision + e - 1]
    BY <1>2, TwoToStep
  <2> QED BY <1>2, <2>1, <2>2, TwoToType
<1>5. n \in Int /\ Magnitude(n) = n /\ n < p /\ n >= TwoTo[Precision + e - 1]
  <2>1. n \in Int /\ n < p /\ n >= TwoTo[Precision + e - 1] /\ n >= 0
    BY <1>3, <1>4
  <2> QED BY <2>1, MagnitudeType
<1>6. Exponent(n) = e
  BY <1>2, <1>5, ExponentIs DEF IsExponent
<1>7. /\ TwoTo[e] = 2 * half /\ half \in Nat \ {0} /\ Unit <= half
      /\ Spacing(n) = TwoTo[e]
  <2>1. TwoTo[e] = 2 * half /\ half \in Nat \ {0}
    BY <1>2, TwoToStep, TwoToType
  <2>2. Unit <= half
    BY <1>2, TwoToMonotone
  <2> QED BY <1>6, <2>1, <2>2 DEF Spacing
<1>8. p = TwoTo[Precision] * TwoTo[e]
  BY <1>2, TwoToSum, ConstantsType
<1>9. TwoTo[Precision] \in Nat \ {0} /\ TwoTo[Precision] = 2 * TwoTo[Precision - 1]
      /\ TwoTo[Precision - 1] \in Nat \ {0}
  BY <1>2, TwoToStep, TwoToType, ConstantsType
<1> DEFINE q == TwoTo[Precision] - 1
           s == Spacing(n)
<1>10. q \in Int /\ q % 2 = 1 /\ s \in Nat \ {0}
  <2>1. q = 2 * (TwoTo[Precision - 1] - 1) + 1 /\ TwoTo[Precision - 1] - 1 \in Int
    BY <1>9
  <2>2. q \in Int /\ 1 \in 0 .. 2 - 1 /\ 2 \in Nat \ {0}
    BY <1>9
  <2> HIDE DEF q
  <2>3. q % 2 = 1
    BY <2>1, <2>2, Quotient
  <2> QED BY <1>7, <2>2, <2>3
<1>11. s - Unit \in 0 .. s - 1 /\ 2 * (s - Unit) >= s
  BY <1>3, <1>7
<1>12. n = s * q + (s - Unit) /\ (q + 1) * s = p
  <2>1. \A a, b \in Int : a * b = b * (a - 1) + b
    OBVIOUS
  <2>2. p = s * q + s
    BY <1>7, <1>8, <1>9, <1>10, <2>1
  <2>3. s * q \in Int
    BY <1>10
  <2>4. (q + 1) * s = p
    BY <1>7, <1>8, <1>9
  <2> HIDE DEF n, s, q, p
  <2> QED BY <1>3, <1>10, <2>2, <2>3, <2>4
<1> HIDE DEF q, s
<1>13. NearestEven(n, s) = q + 1
  BY <1>10, <1>11, <1>12, NearestAbove
<1>14. NearestEven(n, Spacing(n)) * Spacing(n) = p
  BY <1>12, <1>13 DEF s
<1> HIDE DEF n, e, p, half
<1>15. ~ (Magnitude(n) >= Overflow) /\ Magnitude(p) # Overflow
  BY <1>3, <1>5, ConstantsType, MagnitudeType
<1>16. Float(n) = p
  BY <1>14, <1>15 DEF Float
<1>17. p = (MaxInt + 1) * Unit
  BY <1>1, LimitsInUnits DEF p
<1> QED BY <1>16, <1>17 DEF n

\* Rounding to a whole number moves a float by half a whole number at most.
LEMMA RoundIsNear ==
  ASSUME NEW x \in Int
  PROVE  \E w \in Int :
           /\ Round(x) = w * Unit
           /\ 2 * (w * Unit - x) <= Unit
           /\ 2 * (x - w * Unit) <= Unit
<1> DEFINE m == Magnitude(x)
           d == 2 * Unit
           whole == (2 * m + Unit) \div d
           r == (2 * m + Unit) % d
<1>1. m \in Nat /\ Unit \in Nat \ {0} /\ d \in Nat \ {0}
  BY MagnitudeType, ConstantsType
<1>2. 2 * m + Unit \in Int
  BY <1>1
<1>3. whole \in Int /\ r \in 0 .. d - 1 /\ 2 * m + Unit = d * whole + r
  BY <1>1, <1>2, Division
<1>4. Round(x) = IF x < 0 THEN -whole * Unit ELSE whole * Unit
  BY DEF Round
<1>5. (x < 0 => m = -x) /\ (~ (x < 0) => m = x)
  BY DEF Magnitude
<1>6. d = 2 * Unit
  OBVIOUS
<1> HIDE DEF m, whole, r, d
<1>7. d * whole = 2 * (whole * Unit) /\ whole * Unit \in Int
  BY <1>1, <1>3, <1>6
<1>8. 2 * (whole * Unit - m) <= Unit /\ 2 * (m - whole * Unit) <= Unit
  BY <1>1, <1>3, <1>6, <1>7
<1>9. (-whole) * Unit = -(whole * Unit) /\ -whole \in Int
  BY <1>1, <1>3
<1>10. CASE x < 0
  <2>1. Round(x) = (-whole) * Unit
    BY <1>4, <1>9, <1>10
  <2>2. 2 * ((-whole) * Unit - x) <= Unit /\ 2 * (x - (-whole) * Unit) <= Unit
    BY <1>1, <1>5, <1>7, <1>8, <1>9, <1>10
  <2> QED BY <1>9, <2>1, <2>2
<1>11. CASE ~ (x < 0)
  BY <1>3, <1>4, <1>5, <1>8, <1>11
<1> QED BY <1>10, <1>11
-----------------------------------------------------------------------------
\* What ConversionsAreFaithful says of a result r of converting the product x.
Faithful(r, x) ==
  IF r.ok
  THEN /\ r.value \in MinInt .. MaxInt
       /\ 2 * Magnitude(r.value * Unit - x) <= Spacing(x) + Unit
  ELSE \/ x >= MaxInt * Unit
       \/ x <= MinInt * Unit
       \/ 2 * (MaxInt * Unit - x) <= Spacing(x) + Unit
       \/ 2 * (x - MinInt * Unit) <= Spacing(x) + Unit

LEMMA ProductsThatOverflow ==
  ASSUME NEW x \in Int, Float(x) = NotFinite
  PROVE  Faithful(Refused, x)
<1>1. PICK u : IsUnit(u)
  BY NumbersAssumption DEF IsUnit
<1>2. /\ MaxInt * Unit \in Int /\ MinInt * Unit \in Int /\ Overflow \in Nat
      /\ MaxInt * Unit <= Overflow /\ MinInt * Unit >= -Overflow
  <2>1. TwoTo[Width - 1 + u] \in Nat
    BY <1>1, LimitsInUnits, TwoToType
  <2> QED BY <1>1, <2>1, LimitsInUnits, ConstantsType
<1>3. CASE Magnitude(x) >= Overflow
  <2>1. x >= Overflow \/ x <= -Overflow
    BY <1>2, <1>3 DEF Magnitude
  <2>2. x >= MaxInt * Unit \/ x <= MinInt * Unit
    BY <1>2, <2>1
  <2> QED BY <2>2 DEF Faithful, Refused
<1>4. CASE Magnitude(x) < Overflow
  <2>1. PICK near \in Int :
          /\ 2 * (near - x) <= Spacing(x) /\ 2 * (x - near) <= Spacing(x)
          /\ Float(x) = IF Magnitude(near) = Overflow THEN NotFinite ELSE near
    BY <1>4, FloatIsNear
  <2>2. Magnitude(near) = Overflow
    BY <2>1, NumbersAssumption
  <2>3. near = Overflow \/ near = -Overflow
    BY <1>2, <2>2 DEF Magnitude
  <2>4. Spacing(x) \in Nat /\ Unit \in Nat
    BY <1>4, SpacingType, ConstantsType
  <2>5. \/ 2 * (MaxInt * Unit - x) <= Spacing(x) + Unit
        \/ 2 * (x - MinInt * Unit) <= Spacing(x) + Unit
    BY <1>2, <2>1, <2>3, <2>4
  <2> QED BY <2>5 DEF Faithful, Refused
<1> QED BY <1>2, <1>3, <1>4, MagnitudeType

LEMMA FiniteProducts ==
  ASSUME NEW x \in Int, Float(x) # NotFinite, NEW r,
         r \in IF OutOfRange(Round(Float(x))) THEN {Refused}
               ELSE {[ok |-> TRUE, value |-> i] : i \in ToInt(Round(Float(x)))}
  PROVE  Faithful(r, x)
<1>1. Magnitude(x) < Overflow
  BY MagnitudeType, ConstantsType DEF Float
<1>2. PICK near \in Int :
        /\ 2 * (near - x) <= Spacing(x) /\ 2 * (x - near) <= Spacing(x)
        /\ Float(x) = near
  BY <1>1, FloatIsNear
<1>3. PICK w \in Int :
        /\ Round(near) = w * Unit
        /\ 2 * (w * Unit - near) <= Unit /\ 2 * (near - w * Unit) <= Unit
  BY RoundIsNear
<1>4. /\ Spacing(x) \in Nat /\ Unit \in Nat \ {0} /\ w * Unit \in Int
      /\ MaxInt \in Nat /\ MinInt = -(MaxInt + 1)
  BY <1>1, SpacingType, ConstantsType
<1>5. 2 * (w * Unit - x) <= Spacing(x) + Unit /\ 2 * (x - w * Unit) <= Spacing(x) + Unit
  BY <1>2, <1>3, <1>4
<1>6. OutOfRange(w * Unit) <=>
        w * Unit <= MinInt * Unit \/ w * Unit >= (MaxInt + 1) * Unit
  BY FloatOfMinInt, FloatOfMaxInt DEF OutOfRange
<1>7. CASE OutOfRange(w * Unit)
  <2>1. r = Refused
    BY <1>2, <1>3, <1>7
  <2>2. /\ (MaxInt + 1) * Unit = MaxInt * Unit + Unit
        /\ MaxInt * Unit \in Int /\ MinInt * Unit \in Int
    BY <1>4
  <2>3. \/ 2 * (MaxInt * Unit - x) <= Spacing(x) + Unit
        \/ 2 * (x - MinInt * Unit) <= Spacing(x) + Unit
    BY <1>4, <1>5, <1>6, <1>7, <2>2
  <2> QED BY <2>1, <2>3 DEF Faithful, Refused
<1>8. CASE ~ OutOfRange(w * Unit)
  <2>1. w > MinInt /\ w < MaxInt + 1
    <3>1. w <= MinInt => w * Unit <= MinInt * Unit
      BY <1>4
    <3>2. w >= MaxInt + 1 => w * Unit >= (MaxInt + 1) * Unit
      BY <1>4
    <3> QED BY <1>4, <1>6, <1>8, <3>1, <3>2
  <2>2. (w * Unit) \div Unit = w
    <3>1. w * Unit = Unit * w + 0 /\ 0 \in 0 .. Unit - 1
      BY <1>4
    <3> QED BY <1>4, <3>1, Quotient
  <2>3. w \in MinInt .. MaxInt
    BY <1>4, <2>1
  <2>4. r = [ok |-> TRUE, value |-> w]
    BY <1>2, <1>3, <1>8, <2>2, <2>3 DEF ToInt
  <2>5. 2 * Magnitude(w * Unit - x) <= Spacing(x) + Unit
    BY <1>4, <1>5 DEF Magnitude
  <2> QED BY <2>3, <2>4, <2>5 DEF Faithful
<1> QED BY <1>7, <1>8

LEMMA FloatsAreIntegers == Floats \subseteq Int
<1>1. ASSUME NEW e \in 0 .. MaxExponent
      PROVE  TwoTo[e] \in Int
  BY TwoToType, ConstantsType
<1>2. TwoTo[Precision] \in Int
  BY TwoToType, ConstantsType
<1> QED BY <1>1, <1>2 DEF Floats

LEMMA ConvertIsFaithful ==
  ASSUME NEW v \in Floats, NEW r \in convert(v)
  PROVE  Faithful(r, v * Scale)
<1>1. v \in Int /\ v # NotFinite /\ v * Scale \in Int
  BY FloatsAreIntegers, NumbersAssumption
<1>2. CASE Float(v * Scale) = NotFinite
  <2>1. r = Refused
    BY <1>2 DEF convert
  <2> QED BY <1>1, <1>2, <2>1, ProductsThatOverflow
<1>3. CASE Float(v * Scale) # NotFinite
  <2>1. r \in IF OutOfRange(Round(Float(v * Scale))) THEN {Refused}
              ELSE {[ok |-> TRUE, value |-> i] : i \in ToInt(Round(Float(v * Scale)))}
    BY <1>1, <1>3 DEF convert
  <2> QED BY <1>1, <1>3, <2>1, FiniteProducts
<1> QED BY <1>2, <1>3

ConversionsInv ==
  /\ value \in Floats \cup {NotFinite}
  /\ converted => result \in convert(value)

LEMMA ConversionsInvariant == Conversion => []ConversionsInv
<1>1. AnyFloat => ConversionsInv
  BY DEF AnyFloat, ConversionsInv
<1>2. ConversionsInv /\ [Convert]_<<value, converted, result>> => ConversionsInv'
  BY DEF ConversionsInv, Convert
<1> QED BY <1>1, <1>2, PTL DEF Conversion

\* No conversion wraps around or changes its sign, and what it refuses is at a
\* limit of the integers or beyond it, or as near as rounding takes it there,
\* whatever the format of the floats and the width of the integers
\* (wire.go:495-534).
THEOREM ConversionsNeverWrap == Conversion => []ConversionsAreFaithful
<1>1. ConversionsInv => ConversionsAreFaithful
  BY ConvertIsFaithful DEF ConversionsInv, ConversionsAreFaithful, Faithful, Exact
<1> QED BY <1>1, ConversionsInvariant, PTL

\* A product that is whole, and that the floats can hold, is converted to
\* itself: milliseconds to nanoseconds and seconds to microseconds without a
\* loss as long as a float has the digits for it (wire.go:495-534).
WholeNumbersAreExact ==
  \A k \in Int :
    converted /\ value # NotFinite /\ Exact = k * Unit /\ Magnitude(k) < TwoTo[Precision]
      => result = [ok |-> TRUE, value |-> k]

LEMMA WholeFloats ==
  ASSUME NEW k \in Int, Magnitude(k) < TwoTo[Precision]
  PROVE  Float(k * Unit) = k * Unit
<1>1. PICK u : IsUnit(u)
  BY NumbersAssumption DEF IsUnit
<1> DEFINE n == k * Unit
           e == Exponent(n)
<1>2. /\ u \in Nat /\ Unit = TwoTo[u] /\ Unit \in Nat \ {0} /\ u <= MaxExponent
      /\ Precision \in Nat /\ Precision + u \in Nat /\ Precision + MaxExponent \in Nat
      /\ n \in Int /\ Overflow \in Nat
  BY <1>1, ConstantsType DEF IsUnit
<1>3. Magnitude(n) < TwoTo[Precision + u]
  <2>1. TwoTo[Precision + u] = TwoTo[Precision] * Unit /\ TwoTo[Precision] \in Nat
    BY <1>2, TwoToSum, TwoToType
  <2>2. Magnitude(n) = Magnitude(k) * Unit
    <3>1. (-k) * Unit = -(k * Unit)
      BY <1>2
    <3>2. (k >= 0 => n >= 0) /\ (k < 0 => n < 0)
      BY <1>2
    <3> QED BY <1>2, <3>1, <3>2 DEF Magnitude
  <2>3. Magnitude(k) \in Nat
    BY MagnitudeType
  <2>4. \A a, b \in Nat : a < b => a * Unit < b * Unit
    BY <1>2
  <2> QED BY <2>1, <2>2, <2>3, <2>4
<1>4. Magnitude(n) < Overflow
  <2>1. TwoTo[Precision + u] <= Overflow
    <3>1. Precision + u <= Precision + MaxExponent
      BY <1>2, ConstantsType
    <3> QED BY <1>2, <3>1, TwoToMonotone DEF Overflow
  <2>2. TwoTo[Precision + u] \in Nat /\ Magnitude(n) \in Nat
    BY <1>2, TwoToType, MagnitudeType
  <2> QED BY <1>2, <1>3, <2>1, <2>2
<1>5. IsExponent(e, n)
  BY <1>2, <1>4, ExponentExists
<1>6. e \in Nat /\ u - e \in Nat
  <2>1. e \in 0 .. MaxExponent /\ (e > 0 => Magnitude(n) >= TwoTo[Precision + e - 1])
    BY <1>5 DEF IsExponent
  <2>2. ASSUME e > u
        PROVE  FALSE
    <3>1. Precision + e - 1 \in Nat /\ Precision + u <= Precision + e - 1
      BY <1>2, <2>1, <2>2, ConstantsType
    <3>2. TwoTo[Precision + u] <= TwoTo[Precision + e - 1]
      BY <1>2, <3>1, TwoToMonotone
    <3>3. TwoTo[Precision + u] \in Nat /\ TwoTo[Precision + e - 1] \in Nat /\ Magnitude(n) \in Nat
      BY <1>2, <3>1, TwoToType, MagnitudeType
    <3> QED BY <1>2, <1>3, <2>1, <2>2, <3>2, <3>3
  <2> QED BY <1>2, <2>1, <2>2, ConstantsType
<1>7. /\ Spacing(n) = TwoTo[e] /\ TwoTo[e] \in Nat \ {0} /\ TwoTo[u - e] \in Nat
      /\ Unit = TwoTo[u - e] * TwoTo[e]
  <2>1. (u - e) + e = u
    BY <1>2, <1>6
  <2> QED BY <1>2, <1>6, <2>1, TwoToSum, TwoToType DEF Spacing
<1>8. n = (k * TwoTo[u - e]) * Spacing(n) /\ k * TwoTo[u - e] \in Int
  <2>1. \A a, b, c \in Int : a * (b * c) = (a * b) * c
    OBVIOUS
  <2>2. n = k * (TwoTo[u - e] * TwoTo[e])
    BY <1>7
  <2> HIDE DEF n, e
  <2> QED BY <1>7, <2>1, <2>2
<1> HIDE DEF n, e
<1>9. NearestEven(n, Spacing(n)) * Spacing(n) = n
  BY <1>7, <1>8, NearestOfMultiple
<1>10. ~ (Magnitude(n) >= Overflow) /\ Magnitude(n) # Overflow
  BY <1>2, <1>4, MagnitudeType
<1>11. Float(n) = n
  BY <1>9, <1>10 DEF Float
<1> QED BY <1>11 DEF n

LEMMA WholeNumbersConvert ==
  ASSUME NEW v \in Floats, NEW k \in Int, v * Scale = k * Unit,
         Magnitude(k) < TwoTo[Precision], NEW r \in convert(v)
  PROVE  r = [ok |-> TRUE, value |-> k]
<1>1. v # NotFinite /\ Float(v * Scale) = k * Unit /\ k * Unit \in Int /\ Unit \in Nat \ {0}
  <2>1. v # NotFinite
    BY FloatsAreIntegers, NumbersAssumption
  <2> QED BY <2>1, WholeFloats, ConstantsType
<1>2. Float(v * Scale) # NotFinite
  BY <1>1, NumbersAssumption
<1>3. Round(k * Unit) = k * Unit
  <2>1. PICK w \in Int :
          /\ Round(k * Unit) = w * Unit
          /\ 2 * (w * Unit - k * Unit) <= Unit /\ 2 * (k * Unit - w * Unit) <= Unit
    BY <1>1, RoundIsNear
  <2>2. w > k => w * Unit >= k * Unit + Unit
    BY <1>1, <2>1
  <2>3. w < k => w * Unit <= k * Unit - Unit
    BY <1>1, <2>1
  <2>4. w * Unit \in Int
    BY <1>1, <2>1
  <2>5. w = k
    BY <1>1, <2>1, <2>2, <2>3, <2>4
  <2> QED BY <2>1, <2>5
<1>4. k \in MinInt .. MaxInt /\ k > MinInt /\ k < MaxInt + 1 /\ MaxInt \in Nat /\ MinInt \in Int
  <2>1. TwoTo[Precision] <= TwoTo[Width - 1] /\ TwoTo[Precision] \in Nat
    <3>1. Precision \in Nat /\ Width - 1 \in Nat /\ Precision <= Width - 1
      BY ConstantsType
    <3> QED BY <3>1, TwoToMonotone, TwoToType
  <2> QED BY <2>1, ConstantsType DEF Magnitude
<1>5. k * Unit > MinInt * Unit /\ k * Unit < (MaxInt + 1) * Unit
  <2>1. \A a, b \in Int : a < b => a * Unit < b * Unit
    BY <1>1
  <2> QED BY <1>4, <2>1
<1>6. ~OutOfRange(k * Unit)
  <2>1. MinInt * Unit \in Int /\ (MaxInt + 1) * Unit \in Int
    BY <1>1, <1>4
  <2> QED BY <1>1, <1>5, <2>1, FloatOfMinInt, FloatOfMaxInt DEF OutOfRange
<1>7. (k * Unit) \div Unit = k
  <2>1. k * Unit = Unit * k + 0 /\ 0 \in 0 .. Unit - 1
    BY <1>1
  <2> QED BY <1>1, <2>1, Quotient
<1>8. ToInt(k * Unit) = {k}
  BY <1>4, <1>7 DEF ToInt
<1>9. r \in {[ok |-> TRUE, value |-> i] : i \in {k}}
  BY <1>1, <1>2, <1>3, <1>6, <1>8 DEF convert
<1> QED BY <1>9

\* The conversion of a whole number is that number (wire.go:495-534).
THEOREM WholeNumbersSurvive == Conversion => []WholeNumbersAreExact
<1>1. ConversionsInv => WholeNumbersAreExact
  BY WholeNumbersConvert DEF ConversionsInv, WholeNumbersAreExact, Exact
<1> QED BY <1>1, ConversionsInvariant, PTL
=============================================================================
