----------------------------- MODULE MCConfigSet -----------------------------
(* `config set` on a small device, with one other client.                  *)
EXTENDS ConfigSet, TLC

Mode(shape, a, b) == [shape |-> shape, a |-> a, b |-> b]

Factory ==
  [SpeedOfSound |-> 1475, MountingYawOffset |-> 0, AcousticEnabled |-> TRUE,
   DarkModeEnabled |-> FALSE, RangeMode |-> Mode("auto", 0, 0),
   PeriodicCyclingEnabled |-> TRUE]

Speed(v) == "SpeedOfSound" :> v
Yaw(v) == "MountingYawOffset" :> v
Dark(v) == "DarkModeEnabled" :> v
Range(m) == "RangeMode" :> m

\* Values on both sides of every boundary, alone and next to a valid field.
Spans == {Mode("span", a, b) : a \in {0, 2, 4, 5}, b \in {0, 2, 4, 5}}
SampleModes == Spans \cup {Mode("fixed", a, 0) : a \in {0, 4, 5}}
           \cup {Mode("auto", 0, 0), Mode("wt", 0, 0), Mode("other", 0, 0)}
UpdatesAtBounds ==
  {<<>>, Dark(TRUE)}
  \cup {Speed(v) : v \in {999, 1000, 2000, 2001, NotFinite}}
  \cup {Yaw(v) @@ Dark(TRUE) : v \in {-1, 0, 360, 361, NotFinite}}
  \cup {Range(m) @@ Speed(1480) : m \in SampleModes}

OneOther == {Speed(1500), Dark(TRUE)}
=============================================================================
