------------------------------- MODULE MCWire -------------------------------
(* decodeMessage on every frame with at most two faults, in every format.  *)
EXTENDS Decoding, FiniteSetsExt

FaultsOf(type) ==
  {faults \in UNION {[members -> Faults] :
                       members \in UNION {kSubset(n, MembersOf(type)) : n \in 0 .. 2}} :
     \A m \in DOMAIN faults :
       /\ faults[m] = "unusable" => m \in Convertible
       /\ faults[m] = "nullElement" => m = "covariance"}

\* The supported family, and look-alikes of it.
Formats ==
  {<<"json_v3">>, <<"json_v3", ".", "digit">>, <<"json_v3", ".", "digit", "digit">>,
   NoFormat, <<"json_v3", ".">>, <<"json_v3", "digit">>, <<"other", ".", "digit">>,
   <<"json_v3", ".", "digit", "other">>}

FramesOf(type) ==
  [json : Encodings \ {"blank", "overlong"}, type : {type}, format : Formats,
   faults : FaultsOf(type), responseTo : {"get_config", ""}, success : {TRUE},
   valid : {TRUE}]

Types ==
  {"response", "velocity", "velocity_water", "position_local", "temperature", ""}
SomeFrames == UNION {FramesOf(type) : type \in Types}
=============================================================================
