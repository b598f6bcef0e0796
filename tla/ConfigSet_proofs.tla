-------------------------- MODULE ConfigSet_proofs --------------------------
(* Proofs about `config set`, for every update, every device configuration *)
(* and any number of changes by other clients.                             *)
EXTENDS ConfigSet, TLAPS

\* The update is on its way to the device.
SetOnItsWay == request # None /\ request.name = "set_config"

\* An update on its way is the selected fields, all of them valid, of a tool
\* that waits for its reply or has given it up; and nothing is on the way
\* besides a reply.
OnTheWay ==
  /\ reply # None => request = None
  /\ SetOnItsWay => /\ tool \in {"updating", "updateFailed"}
                    /\ request.parameters = update /\ Encodes(update)
  /\ tool = "updating" /\ request # None => SetOnItsWay

\* Before the tool sends the update the device cannot accept it, and the tool
\* goes on only when it did.
AcceptedInTime ==
  /\ tool \in {"parse", "dial", "readBefore", "update", "noValues", "dialFailed",
               "readFailed", "updateInvalid"} => ~accepted
  /\ tool \in {"readAfter", "readbackFailed", "notObserved", "ok"} => accepted
  /\ tool = "updating" /\ reply # None /\ reply.success => accepted

\* `held` remembers what the readback tells.
HeldIsKnown ==
  /\ accepted /\ Holds(device) => held
  /\ tool = "readAfter" /\ reply # None /\ reply.success /\ Holds(reply.config) => held

CSInv ==
  /\ update \in Updates
  /\ OnTheWay /\ AcceptedInTime /\ HeldIsKnown
  /\ OthersChangesSurvive /\ UpdatesAreWhole /\ SuccessWasObserved

\* A field that is not among those that change keeps its value.
LEMMA WithKeeps ==
  ASSUME NEW config, NEW changed, NEW fields, NEW f \in Fields
  PROVE  With(config, changed, fields)[f] = IF f \in fields THEN changed[f] ELSE config[f]
BY DEF With

\* What is encoded is what the documentation allows.
LEMMA EncodedIsDocumented ==
  ASSUME NEW changed \in Updates, Encodes(changed), NEW f \in DOMAIN changed
  PROVE  Documented(f, changed[f])
<1>1. CASE f = "SpeedOfSound"
  <2>1. changed[f] \in Int /\ changed[f] >= 1000 /\ changed[f] <= 2000
    BY <1>1, UpdatesAssumption DEF Encodes, validateSpeedOfSound
  <2> QED BY <1>1, <2>1 DEF Documented
<1>2. CASE f = "MountingYawOffset"
  <2>1. changed[f] \in Int /\ changed[f] >= 0 /\ changed[f] <= 360
    BY <1>2, UpdatesAssumption DEF Encodes, validateMountingYawOffset
  <2> QED BY <1>2, <2>1 DEF Documented
<1>3. CASE f = "RangeMode"
  <2>1. changed[f] \in Modes /\ validRangeMode(changed[f])
    BY <1>3, UpdatesAssumption DEF Encodes
  <2>2. changed[f] \in [shape : {"auto", "wt"}, a : {0}, b : {0}]
           \cup [shape : {"fixed"}, a : 0 .. 4, b : {0}]
           \cup {m \in [shape : {"span"}, a : 0 .. 4, b : 0 .. 4] : m.a <= m.b}
    BY <2>1 DEF Modes, validRangeMode
  <2> QED BY <1>3, <2>2 DEF Documented
<1> QED BY <1>1, <1>2, <1>3 DEF Documented

LEMMA CSInit == Init => CSInv
BY DEF Init, CSInv, OnTheWay, SetOnItsWay, AcceptedInTime, HeldIsKnown,
       OthersChangesSurvive, UpdatesAreWhole, SuccessWasObserved

LEMMA CSStep ==
  ASSUME CSInv, [Next]_vars
  PROVE  CSInv'
<1> USE DEF CSInv, OnTheWay, SetOnItsWay, AcceptedInTime, HeldIsKnown, Holds,
            OthersChangesSurvive, UpdatesAreWhole, SuccessWasObserved, link, history
<1>1. CASE Parse
  BY <1>1 DEF Parse
<1>2. CASE Dial
  BY <1>2 DEF Dial, Issue, GetConfig
<1>3. CASE ReadBefore
  BY <1>3 DEF ReadBefore
<1>4. CASE UpdateConfig
  BY <1>4 DEF UpdateConfig, Issue, SetConfig, Parameters, Encodes
<1>5. CASE Updated
  BY <1>5 DEF Updated, Issue, GetConfig
<1>6. CASE Verify
  BY <1>6 DEF Verify, Observed
<1>7. CASE CommandFails
  BY <1>7 DEF CommandFails
<1>8. CASE ServeGet
  <2>1. CASE tool \in Ends
    BY <1>8, <2>1 DEF ServeGet, Answer, Ends
  <2>2. CASE tool \notin Ends /\ reply' = [success |-> TRUE, config |-> device]
    <3>1. reply'.success /\ reply'.config = device
      BY <2>2
    <3> QED BY <1>8, <2>2, <3>1 DEF ServeGet, Ends
  <2>3. CASE tool \notin Ends /\ reply' = [success |-> FALSE, config |-> None]
    <3>1. ~reply'.success
      BY <2>3
    <3> QED BY <1>8, <2>3, <3>1 DEF ServeGet, Ends
  <2> QED BY <1>8, <2>1, <2>2, <2>3 DEF ServeGet, Answer
<1>9. CASE RefuseUpdate
  BY <1>9 DEF RefuseUpdate, Answer, Ends
<1>10. CASE AcceptUpdate
  <2>1. PICK applied \in SUBSET DOMAIN update : device' = With(device, update, applied)
    BY <1>10 DEF AcceptUpdate
  <2>2. \A f \in Fields \ DOMAIN update : device'[f] = device[f]
    BY <2>1, WithKeeps
  <2>3. ~ \E f \in DOMAIN update : ~Documented(f, update[f])
    BY <1>10, EncodedIsDocumented DEF AcceptUpdate
  <2> QED BY <1>10, <2>2, <2>3 DEF AcceptUpdate, Answer, Ends
<1>11. CASE Lose
  BY <1>11 DEF Lose
<1>12. CASE OtherClient
  <2>1. PICK changed \in Changes :
          /\ device' = With(device, changed, DOMAIN changed)
          /\ untouched' = With(untouched, changed, DOMAIN changed)
    BY <1>12 DEF OtherClient
  <2>2. \A f \in Fields \ DOMAIN update : device'[f] = untouched'[f]
    BY <2>1, WithKeeps
  <2>3. device = untouched => device' = untouched'
    BY <2>1
  <2> QED BY <1>12, <2>2, <2>3 DEF OtherClient
<1>13. CASE UNCHANGED vars
  BY <1>13 DEF vars
<1> QED
  BY <1>1, <1>2, <1>3, <1>4, <1>5, <1>6, <1>7, <1>8, <1>9, <1>10, <1>11, <1>12, <1>13
  DEF Next

LEMMA CSKept == Spec => []CSInv
BY CSInit, CSStep, PTL DEF Spec
-----------------------------------------------------------------------------
\* What other clients set in fields the user did not select is never undone.
THEOREM OthersAreSafe == Spec => []OthersChangesSurvive
<1>1. CSInv => OthersChangesSurvive
  BY DEF CSInv
<1> QED BY <1>1, CSKept, PTL

\* An update with one undocumented value changes nothing.
THEOREM UpdatesAllOrNothing == Spec => []UpdatesAreWhole
<1>1. CSInv => UpdatesAreWhole
  BY DEF CSInv
<1> QED BY <1>1, CSKept, PTL

\* A successful tool saw the device hold the update after accepting it.
THEOREM SuccessIsReal == Spec => []SuccessWasObserved
<1>1. CSInv => SuccessWasObserved
  BY DEF CSInv
<1> QED BY <1>1, CSKept, PTL

\* The tool's error tells whether the device may have accepted the update.
THEOREM ErrorsAreTrue == Spec => []ErrorsTellHowFar
<1>1. CSInv => ErrorsTellHowFar
  BY DEF CSInv, AcceptedInTime, OnTheWay, SetOnItsWay, ErrorsTellHowFar
<1> QED BY <1>1, CSKept, PTL
=============================================================================
