------------------------------ MODULE ConfigSet ------------------------------
(***************************************************************************)
(* `config set` (cmd/waterlinked-dvl): read the configuration, update the  *)
(* selected fields, read back and verify, against a device that other      *)
(* clients configure too and that may accept an update without applying    *)
(* it.                                                                     *)
(*                                                                         *)
(* A command of the connection is a request on its way to the device and a *)
(* reply on its way back; that a reply belongs to its request is what      *)
(* module Conn is about.  A command that fails (cancelled, timed out,      *)
(* interrupted by the end of the connection, undecodable) leaves its       *)
(* request where it is: the device may still serve it.                     *)
(***************************************************************************)
EXTENDS Integers

CONSTANTS
  Updates,      \* what the user may select: functions from fields to values
  Initial,      \* the configuration the device starts with
  Changes,      \* what another client may set: functions from fields to values
  MaxChanges,   \* bound: how often it does
  NotFinite,    \* NaN and the infinities, which the flags parse
  None

Fields == {"SpeedOfSound", "MountingYawOffset", "AcousticEnabled",
           "DarkModeEnabled", "RangeMode", "PeriodicCyclingEnabled"}

\* A range mode by its shape: one of the named modes, "=a", "a<=b" or any other
\* text; a and b are the digits.
Modes ==
  [shape : {"auto", "wt", "other"}, a : {0}, b : {0}]
    \cup [shape : {"fixed"}, a : Nat, b : {0}]
    \cup [shape : {"span"}, a : Nat, b : Nat]

ASSUME UpdatesAssumption == \A changed \in Updates :
  /\ DOMAIN changed \subseteq Fields
  /\ \A f \in DOMAIN changed \cap {"SpeedOfSound", "MountingYawOffset"} :
       changed[f] = NotFinite \/ changed[f] \in Int
  /\ "RangeMode" \in DOMAIN changed => changed.RangeMode \in Modes

VARIABLES
  tool,        \* the step the tool is at, or how it ended
  update,      \* the selected fields and their values
  before,      \* the configuration read first
  after,       \* the configuration read back
  request,     \* what is on its way to the device
  reply,       \* what is on its way back
  device,      \* the device's configuration
  untouched,   \* what the device would hold, but for this tool
  accepted,    \* the device accepted the update
  held,        \* since then the device has held every selected value
  changes      \* how often another client changed it

link    == <<request, reply>>
history == <<untouched, accepted, held, changes>>
vars == <<tool, update, before, after, link, device, history>>

\* How the tool ends: its errors, and success.
Ends == {"noValues", "dialFailed", "readFailed", "updateInvalid", "updateFailed",
         "readbackFailed", "notObserved", "ok"}
-----------------------------------------------------------------------------
(* The update.                                                             *)

validateSpeedOfSound(value) == value # NotFinite /\ value >= 1000 /\ value <= 2000
validateMountingYawOffset(value) == value # NotFinite /\ value >= 0 /\ value <= 360

\* Mutant: the order of a span's ends is not looked at.
validRangeModeUnordered(mode) ==
  \/ mode.shape \in {"auto", "wt"}
  \/ mode.shape = "fixed" /\ mode.a \in 0 .. 4
  \/ mode.shape = "span" /\ mode.a \in 0 .. 4 /\ mode.b \in 0 .. 4
validRangeMode(mode) ==
  \/ mode.shape \in {"auto", "wt"}
  \/ mode.shape = "fixed" /\ 0 <= mode.a /\ mode.a <= 4
  \/ mode.shape = "span" /\ 0 <= mode.a /\ mode.a <= mode.b /\ mode.b <= 4

\* What encodeConfigUpdate lets through: not the empty update, and every field
\* that is validated is valid.
Encodes(changed) ==
  /\ DOMAIN changed # {}
  /\ "SpeedOfSound" \in DOMAIN changed => validateSpeedOfSound(changed.SpeedOfSound)
  /\ "MountingYawOffset" \in DOMAIN changed =>
       validateMountingYawOffset(changed.MountingYawOffset)
  /\ "RangeMode" \in DOMAIN changed => validRangeMode(changed.RangeMode)

\* A configuration in which some fields take the values of another.
With(config, changed, fields) ==
  [f \in Fields |-> IF f \in fields THEN changed[f] ELSE config[f]]

\* The parameters of set_config: the selected fields and no other.
\* Mutant: the whole configuration that was read, with the selected fields
\* replaced.
WholeConfig(changed) == With(before, changed, DOMAIN changed)
Parameters(changed) == changed

\* verifyConfigUpdate, in the readback.
\* Mutant: it looks for the first selected field only.
ObservedFirst(changed, actual) == \E f \in DOMAIN changed : actual[f] = changed[f]
Observed(changed, actual) == \A f \in DOMAIN changed : actual[f] = changed[f]
-----------------------------------------------------------------------------
Init ==
  /\ tool = "parse"
  /\ update \in Updates
  /\ before = None /\ after = None
  /\ request = None /\ reply = None
  /\ device = Initial /\ untouched = Initial
  /\ accepted = FALSE /\ held = FALSE
  /\ changes = 0

\* Only flags the user gave are selected; none at all is an error before
\* anything is dialled.
Parse ==
  /\ tool = "parse"
  /\ tool' = IF DOMAIN update = {} THEN "noValues" ELSE "dial"
  /\ UNCHANGED <<update, before, after, link, device, history>>

\* A command is given to the connection; the last reply is used up.
Issue(command) == request' = command /\ reply' = None
GetConfig == [name |-> "get_config"]
SetConfig == [name |-> "set_config", parameters |-> Parameters(update)]

\* The connection is dialled, and the configuration asked for.
Dial ==
  /\ tool = "dial"
  /\ \/ tool' = "dialFailed" /\ UNCHANGED link
     \/ tool' = "readBefore" /\ Issue(GetConfig)
  /\ UNCHANGED <<update, before, after, device, history>>

ReadBefore ==
  /\ tool = "readBefore" /\ reply # None /\ reply.success
  /\ before' = reply.config
  /\ reply' = None
  /\ tool' = "update"
  /\ UNCHANGED <<update, after, request, device, history>>

\* UpdateConfig: the whole update is validated before anything of it is sent.
UpdateConfig ==
  /\ tool = "update" /\ request = None /\ reply = None
  /\ IF Encodes(update) THEN tool' = "updating" /\ Issue(SetConfig)
                        ELSE tool' = "updateInvalid" /\ UNCHANGED link
  /\ UNCHANGED <<update, before, after, device, history>>

\* The device says it accepted the update: read the configuration back.
\* Mutant: what the device says is not looked at.
UpdatedAnyway ==
  /\ tool = "updating" /\ reply # None
  /\ tool' = "readAfter" /\ Issue(GetConfig)
  /\ UNCHANGED <<update, before, after, device, history>>
Updated ==
  /\ tool = "updating" /\ reply # None /\ reply.success
  /\ tool' = "readAfter" /\ Issue(GetConfig)
  /\ UNCHANGED <<update, before, after, device, history>>

Verify ==
  /\ tool = "readAfter" /\ reply # None /\ reply.success
  /\ after' = reply.config
  /\ tool' = IF Observed(update, reply.config) THEN "ok" ELSE "notObserved"
  /\ reply' = None
  /\ UNCHANGED <<update, before, request, device, history>>

\* The command at hand fails: the device rejects it, its reply cannot be used,
\* the 30 seconds of all three are over, or the connection ends.  The deferred
\* Close discards what may still come back.
CommandFails ==
  /\ \/ tool = "readBefore" /\ tool' = "readFailed"
     \/ tool = "updating" /\ tool' = "updateFailed"
     \/ tool = "readAfter" /\ tool' = "readbackFailed"
  /\ reply' = None
  /\ UNCHANGED <<update, before, after, request, device, history>>
-----------------------------------------------------------------------------
(* The device and its other clients.                                       *)

Answer(success, config) ==
  reply' = IF tool \in Ends THEN None ELSE [success |-> success, config |-> config]

ServeGet ==
  /\ request # None /\ request.name = "get_config"
  /\ request' = None
  /\ Answer(TRUE, device) \/ Answer(FALSE, None)
  /\ UNCHANGED <<tool, update, before, after, device, history>>

RefuseUpdate ==
  /\ request # None /\ request.name = "set_config"
  /\ request' = None
  /\ Answer(FALSE, None)
  /\ UNCHANGED <<tool, update, before, after, device, history>>

\* For `held`, which is no state of the code: the device holds all of it.
Holds(config) == \A f \in DOMAIN update : config[f] = update[f]

\* The device accepts the update, and applies some of its fields.
AcceptUpdate ==
  /\ request # None /\ request.name = "set_config"
  /\ request' = None
  /\ Answer(TRUE, None)
  /\ \E applied \in SUBSET DOMAIN request.parameters :
       device' = With(device, request.parameters, applied)
  /\ accepted' = TRUE
  /\ held' = Holds(device')
  /\ UNCHANGED <<tool, update, before, after, untouched, changes>>

\* The request never reaches the device, as the tool has closed its connection.
Lose ==
  /\ tool \in Ends /\ request # None
  /\ request' = None
  /\ UNCHANGED <<tool, update, before, after, reply, device, history>>

OtherClient ==
  /\ changes < MaxChanges
  /\ \E changed \in Changes :
       /\ device' = With(device, changed, DOMAIN changed)
       /\ untouched' = With(untouched, changed, DOMAIN changed)
  /\ held' = (held \/ (accepted /\ Holds(device')))
  /\ changes' = changes + 1
  /\ UNCHANGED <<tool, update, before, after, link, accepted>>
-----------------------------------------------------------------------------
Next ==
  \/ Parse \/ Dial \/ ReadBefore \/ UpdateConfig \/ Updated \/ Verify
  \/ CommandFails
  \/ ServeGet \/ RefuseUpdate \/ AcceptUpdate \/ Lose \/ OtherClient

Spec == Init /\ [][Next]_vars
-----------------------------------------------------------------------------
\* A field the user did not select holds what the others last gave it: a
\* concurrent change by another client is never overwritten with what was read
\* before it (cmd doc.go:30-32: "config set applies only the fields given as
\* flags"; config.go:66-67: "a nil field is left unchanged").
OthersChangesSurvive ==
  \A f \in Fields \ DOMAIN update : device[f] = untouched[f]

\* The ranges the documentation gives (config.go:36-40, 80-83).
Documented(field, value) ==
  CASE field = "SpeedOfSound" -> value \in 1000 .. 2000
    [] field = "MountingYawOffset" -> value \in 0 .. 360
    [] field = "RangeMode" ->
         value \in [shape : {"auto", "wt"}, a : {0}, b : {0}]
           \cup [shape : {"fixed"}, a : 0 .. 4, b : {0}]
           \cup {m \in [shape : {"span"}, a : 0 .. 4, b : 0 .. 4] : m.a <= m.b}
    [] OTHER -> TRUE

\* An update with one value out of its range changes nothing at all, not even
\* its valid fields (conn.go:282-283).
UpdatesAreWhole ==
  (\E f \in DOMAIN update : ~Documented(f, update[f])) => device = untouched

\* Success is real: after the device accepted the update there was a moment
\* when it held every selected value (cmd doc.go:30-32).
SuccessWasObserved == tool = "ok" => held

\* The error tells how far the update got: one that says the update was
\* accepted is about an update the device did accept, and one of an earlier step
\* means that no update was sent or ever will be (commands.go:113-131).
ErrorsTellHowFar ==
  /\ tool \in {"readbackFailed", "notObserved", "ok"} => accepted
  /\ tool \in {"noValues", "dialFailed", "readFailed", "updateInvalid"} =>
       ~accepted /\ (request = None \/ request.name # "set_config")
=============================================================================
