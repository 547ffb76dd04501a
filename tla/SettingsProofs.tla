------------------------------ MODULE SettingsProofs ------------------------------
(***************************************************************************)
(* What a device and the server may rely on in their settings and keys,    *)
(* whatever the number of keys made, edits and faults.                     *)
(*                                                                         *)
(* None of the properties is inductive.  LatestKey and KnownKeys say which *)
(* of the device's own keys the agent, its card and the server may have;   *)
(* Applying what an apply has put in place at each of its steps, and       *)
(* Remembered how the notes on the card and in memory go together.         *)
(***************************************************************************)
EXTENDS Settings, TLAPS

ApplySteps == {"password", "keys", "dropIn", "reload", "record"}

(* The key that is used, or on the card, is the last one made.             *)
LatestKey ==
  /\ Up => identity = made /\ made # 0
  /\ idFile \in Own => idFile = made
  /\ registered => Up /\ at # "register"

(* No key of the device's own is asked for in place of a later one.        *)
KnownKeys ==
  dev # None =>
    /\ dev.secret \in 1 .. made \cup {Other}
    /\ dev.rekey \in 1 .. made \cup {Other, None}
    /\ dev.secret = made \/ registered => dev.rekey \in {None, Other, made}

(* What a device is offered sets a password or keys, or both.              *)
Offers == {a \in Access : a.hash # 0 \/ a.keys # {}}

(* What an apply has put in place so far.                                  *)
Applying ==
  /\ at \in ApplySteps => wanted # None
  /\ at \in ApplySteps \ {"password"} => wanted.hash = 0 \/ sys.root = wanted.hash
  /\ at \in {"dropIn", "reload", "record"} => sys.keys = wanted.keys
  /\ at \in {"reload", "record"} => sys.dropIn = DropInFor(wanted)

(* The notes in memory are those on the card, and sshd has read the        *)
(* drop-in, unless the variables that stand for a failure say otherwise.   *)
Remembered ==
  /\ ~half => fp = fpFile
  /\ sys.sshd = sys.dropIn \/ unread

(* What holds of the key, the registration and the clock ...               *)
LinkInv == LinkTypeOK /\ LatestKey /\ KnownKeys /\ RegisteredIsKnown /\ SecondTryIsInTime

(* ... of the credentials and the system they are applied to ...           *)
DeviceInv ==
  /\ wanted \in Offers \cup {None} /\ {fp, fpFile} \subseteq Access \cup {None}
  /\ sys \in [ssh : BOOLEAN, root : 0 .. MaxEdits, keys : KeySets, dropIn : BOOLEAN, sshd : BOOLEAN]
  /\ {waits, half, unread} \subseteq BOOLEAN
  /\ Applying /\ Remembered /\ AppliedIsInForce

(* ... and of the plan and the display.                                    *)
DisplayInv ==
  /\ {sched, planFile, saved} \subseteq Learned
  /\ zone \in Zones \cup {None}
  /\ shown \in [percent : Percents, media : BOOLEAN]
  /\ unwritten \in BOOLEAN
  /\ saved = planFile \/ unwritten

IInv == TypeOK /\ LinkInv /\ DeviceInv /\ DisplayInv

--------------------------------------------------------------------------------
\* The key, the registration and the clock

(* The clock, after any answer, is the server's.                           *)
LEMMA Observed ==
  ASSUME LinkTypeOK, ObserveClock
  PROVE  /\ drift' \in {0, 1} /\ offset' \in -1 .. 1 /\ drift' + offset' = 0
         /\ synced' = synced /\ jumped' = FALSE
<1>1. CASE offset' = -drift /\ drift' = drift
  BY <1>1 DEF LinkTypeOK, ObserveClock
<1>2. CASE drift' = 0 /\ offset' = 0
  BY <1>2 DEF ObserveClock
<1>. QED
  BY <1>1, <1>2 DEF ObserveClock

(* An agent that starts has the key on its card, or makes the next one.    *)
LEMMA Started_Link == ASSUME LinkInv, StartAgent \/ StartUnsaved PROVE LinkInv'
<1>. USE KeysAssumption DEF LinkInv, LinkTypeOK, LatestKey, KnownKeys, RegisteredIsKnown, KeyIsKept,
       SecondTryIsInTime, Own, Keys, Device, Up
<1>1. CASE Started /\ KeepIdentity
  <2>1. LinkTypeOK'
    <3>1. /\ identity' \in Own /\ registered' = FALSE /\ again' = FALSE /\ offset' = 0
          /\ UNCHANGED <<dev, idFile, made, lost, drift, synced, jumped>>
      BY <1>1 DEF Started, KeepIdentity
    <3>2. offset' \in -1 .. 1
      BY <3>1
    <3>. HIDE DEF Own, Device
    <3>. QED
      BY <3>1, <3>2
  <2>2. LatestKey' /\ RegisteredIsKnown' /\ SecondTryIsInTime' /\ KnownKeys'
    BY <1>1 DEF Started, KeepIdentity
  <2>. QED
    BY <2>1, <2>2
<1>2. CASE Started /\ NewIdentity
  <2>1. made + 1 \in Own /\ made' = made + 1
    BY <1>2 DEF NewIdentity
  <2>4. LinkTypeOK'
    <3>1. /\ identity' \in Own /\ idFile' \in Own /\ made' \in 0 .. MaxKeys
          /\ registered' = FALSE /\ again' = FALSE /\ offset' = 0 /\ lost' = FALSE
          /\ UNCHANGED <<dev, drift, synced, jumped>>
      BY <1>2, <2>1 DEF Started, NewIdentity
    <3>2. offset' \in -1 .. 1
      BY <3>1
    <3>. HIDE DEF Own, Device
    <3>. QED
      BY <3>1, <3>2
  <2>2. LatestKey' /\ RegisteredIsKnown' /\ SecondTryIsInTime'
    BY <1>2 DEF Started, NewIdentity
  <2>3. KnownKeys'
    BY <1>2 DEF Started, NewIdentity
  <2>. QED
    BY <2>2, <2>3, <2>4
<1>3. CASE StartUnsaved
  BY <1>3 DEF StartUnsaved
<1>. QED
  BY <1>1, <1>2, <1>3 DEF StartAgent

(* The device registers.                                                   *)
LEMMA RegisteredType ==
  ASSUME LinkTypeOK, NEW key \in Keys
  PROVE  Registered(dev, key) \in Device
BY KeysAssumption DEF LinkTypeOK, Registered, Device, Keys, Own

LEMMA Register_Link == ASSUME LinkInv, at = "register", Register \/ RegisterUnanswered PROVE LinkInv'
<1>. USE KeysAssumption DEF LinkInv, LinkTypeOK, LatestKey, RegisteredIsKnown, KeyIsKept,
       SecondTryIsInTime, Own, Keys, Device, Up
<1>1. identity \in Own /\ identity = made /\ ~registered
  OBVIOUS
<1>2. dev' \in {dev, Registered(dev, identity)} /\ identity' = identity /\ made' = made
  BY DEF Register, RegisterUnanswered, Unanswered
<1>7. registered' \in BOOLEAN /\ UNCHANGED <<idFile, identity, made, lost, again>>
  <2>1. CASE Register
    BY <2>1 DEF Register
  <2>2. CASE RegisterUnanswered
    BY <2>2 DEF RegisterUnanswered, Unanswered
  <2>. QED
    BY <2>1, <2>2
<1>9. jumped' \in BOOLEAN /\ synced' = synced /\ drift' \in {0, 1} /\ offset' \in -1 .. 1
  BY Observed DEF Register, RegisterUnanswered, Unanswered
<1>8. dev' \in Device \cup {None}
  BY <1>1, <1>2, RegisteredType
<1>3. LinkTypeOK'
  BY <1>7, <1>8, <1>9
<1>4. LatestKey' /\ SecondTryIsInTime'
  <2>1. at' # "down" /\ (registered' => at' # "register")
    BY <1>1 DEF Register, RegisterUnanswered, Unanswered
  <2>2. SecondTryIsInTime'
    BY <1>7, Observed DEF Register, RegisterUnanswered, Unanswered
  <2>. QED
    BY <1>7, <2>1, <2>2
<1>5. RegisteredIsKnown'
  BY <1>1 DEF Register, RegisterUnanswered, Unanswered
<1>6. KnownKeys'
  BY <1>1, <1>2 DEF KnownKeys, Registered, Register, RegisterUnanswered, Unanswered
<1>. QED
  BY <1>3, <1>4, <1>5, <1>6

(* A contact that begins, is answered, or is not.                          *)
LEMMA Contact_Link ==
  ASSUME LinkInv, BeginStep \/ BeginBeat \/ SignedUnanswered
                  \/ Passes("poll", "apply") \/ Passes("beat", "idle")
                  \/ Refused("poll") \/ Refused("beat")
  PROVE  LinkInv'
<1>. USE DEF LinkInv, Up
<1>1. /\ UNCHANGED <<dev, idFile, identity, made, lost>>
      /\ Up /\ Up' /\ registered' \in BOOLEAN /\ (registered' => registered /\ at' # "register")
  <2>1. CASE BeginStep \/ BeginBeat
    BY <2>1 DEF LinkTypeOK, LatestKey, BeginStep, BeginBeat
  <2>2. CASE SignedUnanswered
    BY <2>2 DEF LinkTypeOK, LatestKey, SignedUnanswered, Unanswered
  <2>3. CASE Passes("poll", "apply") \/ Passes("beat", "idle")
    BY <2>3 DEF LinkTypeOK, LatestKey, Passes
  <2>4. CASE Refused("poll") \/ Refused("beat")
    BY <2>4 DEF LinkTypeOK, LatestKey, Refused
  <2>. QED
    BY <2>1, <2>2, <2>3, <2>4
<1>2. again' \in BOOLEAN /\ lost' \in BOOLEAN /\ jumped' \in BOOLEAN /\ synced' \in BOOLEAN
      /\ drift' \in {0, 1} /\ offset' \in -1 .. 1 /\ SecondTryIsInTime'
  <2>1. CASE BeginStep \/ BeginBeat
    BY <2>1 DEF LinkTypeOK, SecondTryIsInTime, BeginStep, BeginBeat
  <2>2. CASE SignedUnanswered
    BY <2>2 DEF LinkTypeOK, SecondTryIsInTime, SignedUnanswered, Unanswered
  <2>3. CASE Passes("poll", "apply") \/ Passes("beat", "idle")
    BY <2>3, Observed DEF LinkTypeOK, SecondTryIsInTime, Passes
  <2>4. CASE Refused("poll") \/ Refused("beat")
    BY <2>4, Observed DEF LinkTypeOK, SecondTryIsInTime, Refused
  <2>. QED
    BY <2>1, <2>2, <2>3, <2>4
<1>3. LinkTypeOK'
  BY <1>1, <1>2 DEF LinkTypeOK
<1>4. LatestKey' /\ RegisteredIsKnown' /\ KnownKeys'
  BY <1>1 DEF LatestKey, RegisteredIsKnown, KeyIsKept, KnownKeys
<1>. QED
  BY <1>2, <1>3, <1>4

(* The operator decides about a key, or another machine asks with its own. *)
LEMMA Operator_Link ==
  ASSUME LinkInv, AcceptKey \/ RejectKey \/ ForgetDevice \/ OtherRegisters
  PROVE  LinkInv'
<1>. USE KeysAssumption DEF LinkInv, LinkTypeOK, Keys, Device, Own, Serves, Up
<1>1. UNCHANGED <<idFile, identity, registered, drift, offset, synced, at, again, made, lost, jumped>>
  BY DEF AcceptKey, RejectKey, ForgetDevice, OtherRegisters
<1>2. LatestKey' /\ SecondTryIsInTime' /\ KeyIsKept'
  BY <1>1 DEF LatestKey, SecondTryIsInTime, RegisteredIsKnown, KeyIsKept
<1>3. CASE AcceptKey
  BY <1>1, <1>2, <1>3 DEF AcceptKey, LatestKey, KnownKeys, RegisteredIsKnown
<1>4. CASE RejectKey
  BY <1>1, <1>2, <1>4 DEF RejectKey, KnownKeys, RegisteredIsKnown
<1>5. CASE ForgetDevice
  BY <1>1, <1>2, <1>5 DEF ForgetDevice, KnownKeys, RegisteredIsKnown
<1>6. CASE OtherRegisters
  BY <1>1, <1>2, <1>6, RegisteredType DEF OtherRegisters, Registered, KnownKeys, RegisteredIsKnown
<1>. QED
  BY <1>3, <1>4, <1>5, <1>6

(* The card loses the key, the clock is set, the agent or the power ends.  *)
LEMMA Fault_Link ==
  ASSUME LinkInv, LoseIdentity \/ ClockSet \/ AgentDies \/ PowerCut
  PROVE  LinkInv'
<1>. USE KeysAssumption DEF LinkInv, LinkTypeOK, LatestKey, KnownKeys, RegisteredIsKnown, KeyIsKept,
       SecondTryIsInTime, Own, Up
<1>1. CASE LoseIdentity
  BY <1>1 DEF LoseIdentity
<1>2. CASE ClockSet
  BY <1>2 DEF ClockSet
<1>3. CASE AgentDies \/ PowerCut
  BY <1>3 DEF AgentDies, PowerCut, Dies
<1>. QED
  BY <1>1, <1>2, <1>3

(* A step of the agent that is no contact.                                 *)
LEMMA Steps_Link ==
  ASSUME LinkInv, at \notin {"down", "register"}, at' \notin {"down", "register"},
         UNCHANGED <<dev, idFile, identity, registered, drift, offset, synced, again, made, lost, jumped>>
  PROVE  LinkInv'
BY DEF LinkInv, LinkTypeOK, LatestKey, KnownKeys, RegisteredIsKnown, KeyIsKept, SecondTryIsInTime, Up

--------------------------------------------------------------------------------
\* The credentials

(* What leaves the system alone, between applies or in the middle of one.  *)
LEMMA Device_Kept ==
  ASSUME DeviceInv, UNCHANGED <<fp, fpFile, sys, half, unread>>, waits' \in BOOLEAN,
         \/ at' = at /\ wanted' = wanted
         \/ at \notin ApplySteps /\ at' \notin ApplySteps /\ wanted' \in Offers \cup {None}
  PROVE  DeviceInv'
BY DEF DeviceInv, Applying, Remembered, AppliedIsInForce, InForce, DropInFor, ApplySteps, Offers

(* One step of an apply.                                                   *)
LEMMA Apply_Device == ASSUME TypeOK, DeviceInv, ApplyAccess PROVE DeviceInv'
<1>. USE SettingsAssumption DEF DeviceInv, Applying, Remembered, AppliedIsInForce, InForce, DropInFor, ApplySteps, Offers, Steps
<1>1. CASE BeginApply
  BY <1>1 DEF BeginApply, AppliesAccess
<1>2. CASE SetPassword
  BY <1>2 DEF SetPassword, Access
<1>3. CASE WriteKeys
  BY <1>3 DEF WriteKeys, Access
<1>4. CASE WriteDropIn
  BY <1>4 DEF WriteDropIn, Access
<1>5. CASE ReloadSshd
  BY <1>5 DEF ReloadSshd
<1>6. CASE RecordApplied
  BY <1>6 DEF RecordApplied
<1>7. CASE \E step \in {"password", "keys", "dropIn", "reload"} : ApplyFails(step)
  BY <1>7 DEF ApplyFails
<1>. QED
  BY <1>1, <1>2, <1>3, <1>4, <1>5, <1>6, <1>7 DEF ApplyAccess

(* A restart goes by what is on the card.                                  *)
LEMMA Start_Device == ASSUME DeviceInv, Start PROVE DeviceInv'
BY DEF Start, StartAgent, Started, LoadSettings, DeviceInv, Applying, Remembered, AppliedIsInForce,
       InForce, DropInFor, ApplySteps, Offers

(* The agent is gone, or the power.                                        *)
LEMMA Dies_Device ==
  ASSUME DeviceInv, at' = "down", Interrupted, UNCHANGED <<wanted, fp, fpFile, waits>>,
         \/ UNCHANGED <<sys, unread>>
         \/ sys' = [sys EXCEPT !.sshd = sys.dropIn] /\ unread' = FALSE
  PROVE  DeviceInv'
<1>. USE DEF DeviceInv, Applying, Remembered, AppliedIsInForce, InForce, DropInFor, ApplySteps, Offers, Interrupted
<1>1. CASE UNCHANGED <<sys, unread>>
  BY <1>1
<1>2. CASE sys' = [sys EXCEPT !.sshd = sys.dropIn] /\ unread' = FALSE
  BY <1>2
<1>. QED
  BY <1>1, <1>2

--------------------------------------------------------------------------------
\* The plan

(* What the display is told for a minute of the day.                       *)
LEMMA BrightnessType ==
  ASSUME NEW plan \in Plans, NEW m
  PROVE  BrightnessAt(plan, m) \in [percent : Percents, media : BOOLEAN]
<1>1. plan \subseteq Periods
  BY SettingsAssumption DEF Valid
<1>2. CASE \E p \in plan : Covers(p, m)
  <2>. DEFINE p == CHOOSE q \in plan : Covers(q, m)
  <2>1. p \in Periods
    BY <1>1, <1>2
  <2>2. BrightnessAt(plan, m) = [percent |-> p.percent, media |-> ~p.hideMedia]
    BY <1>2 DEF BrightnessAt
  <2>. QED
    BY <2>1, <2>2 DEF Periods
<1>3. CASE ~\E p \in plan : Covers(p, m)
  BY <1>3, DayAssumption DEF BrightnessAt
<1>. QED
  BY <1>2, <1>3

(* What the device learns, keeps and shows.                                *)
LEMMA Display_Next ==
  ASSUME TypeOK, DisplayInv,
         \/ UNCHANGED display \/ Learn \/ LoadSettings \/ ApplyZone
         \/ \E m \in Minutes : ApplyBrightness(m)
  PROVE  DisplayInv'
<1>. USE DEF DisplayInv
<1>1. CASE UNCHANGED display
  BY <1>1 DEF display
<1>2. CASE Learn
  BY <1>2 DEF Learn, TypeOK, Schedules, Learned
<1>3. CASE LoadSettings
  BY <1>3, DayAssumption DEF LoadSettings, Full
<1>4. CASE ApplyZone
  BY <1>4 DEF ApplyZone, Learned
<1>5. ASSUME NEW m \in Minutes, ApplyBrightness(m) PROVE DisplayInv'
  <2>1. CASE sched.bright = None
    BY <1>5, <2>1 DEF ApplyBrightness
  <2>2. CASE sched.bright # None
    <3>1. SavePlan /\ shown' = BrightnessAt(sched.bright, m) /\ UNCHANGED <<sched, zone>>
      BY <1>5, <2>2 DEF ApplyBrightness
    <3>2. sched.bright \in Plans
      BY <2>2 DEF Learned
    <3>3. shown' \in [percent : Percents, media : BOOLEAN]
      BY <3>1, <3>2, BrightnessType
    <3>4. CASE sched = saved
      BY <3>1, <3>3, <3>4 DEF SavePlan
    <3>5. CASE saved' = sched /\ planFile' = sched /\ unwritten' = FALSE
      BY <3>1, <3>3, <3>5
    <3>6. CASE saved' = sched /\ planFile' = planFile /\ unwritten' = TRUE
      BY <3>1, <3>3, <3>6
    <3>. QED
      BY <3>1, <3>4, <3>5, <3>6 DEF SavePlan
  <2>. QED
    BY <2>1, <2>2
<1>. QED
  BY <1>1, <1>2, <1>3, <1>4, <1>5

--------------------------------------------------------------------------------
\* The invariant

(* Of a variable of the operator's, or a bound.                            *)
OperatorTypeOK ==
  /\ access \in Access /\ schedule \in Schedules
  /\ edits \in 0 .. MaxEdits /\ faults \in 0 .. MaxFaults
  /\ at \in {"down", "idle", "register", "poll", "beat",
             "apply", "password", "keys", "dropIn", "reload", "record", "zone", "bright"}

LEMMA Parts == IInv <=> LinkInv /\ DeviceInv /\ DisplayInv /\ OperatorTypeOK
BY DEF IInv, LinkInv, DeviceInv, Offers, DisplayInv, OperatorTypeOK, TypeOK

LEMMA Together == LinkInv' /\ DeviceInv' /\ DisplayInv' /\ OperatorTypeOK' => IInv'
BY DEF IInv, LinkInv, DeviceInv, Offers, DisplayInv, OperatorTypeOK, TypeOK

LEMMA Initially == Init => IInv
<1>. SUFFICES ASSUME Init PROVE IInv
  OBVIOUS
<1>. USE DEF Init, LinkInit
<1>1. LinkInv
  <2>1. LinkTypeOK
    <3>1. 0 \in 0 .. MaxKeys /\ 1 \in {0, 1} /\ 0 \in -1 .. 1
      BY KeysAssumption
    <3>. QED
      BY <3>1 DEF LinkTypeOK
  <2>2. LatestKey
    BY KeysAssumption DEF LatestKey, Own, Up
  <2>. QED
    BY <2>1, <2>2 DEF LinkInv, KnownKeys, RegisteredIsKnown, KeyIsKept, SecondTryIsInTime, Up
<1>2. DeviceInv
  <2>1. sys \in [ssh : BOOLEAN, root : 0 .. MaxEdits, keys : KeySets, dropIn : BOOLEAN, sshd : BOOLEAN]
    <3>1. 0 \in 0 .. MaxEdits
      BY SettingsAssumption
    <3>. QED
      BY <3>1, SettingsAssumption
  <2>2. wanted = None /\ fp = None /\ fpFile = None /\ waits = FALSE /\ half = FALSE /\ unread = FALSE
    OBVIOUS
  <2>3. sys.sshd = sys.dropIn
    BY <2>1
  <2>. QED
    BY <2>1, <2>2, <2>3 DEF DeviceInv, Applying, Remembered, AppliedIsInForce, ApplySteps, Offers
<1>3. DisplayInv
  <2>1. Nothing \in Learned
    BY DEF Nothing, Learned
  <2>2. shown \in [percent : Percents, media : BOOLEAN]
    BY DayAssumption DEF Full
  <2>. QED
    BY <2>1, <2>2 DEF DisplayInv
<1>4. OperatorTypeOK
  BY SettingsAssumption DEF OperatorTypeOK, Access
<1>. QED
  BY <1>1, <1>2, <1>3, <1>4, Parts

(* A contact.                                                              *)
LEMMA Contact_Inv ==
  ASSUME IInv, BeginContact \/ RegisterAnswered \/ PollAnswered \/ BeatAnswered \/ ContactRefused
  PROVE  IInv'
<1>. USE Parts
<1>1. /\ at \notin ApplySteps /\ at' \in {"idle", "register", "poll", "beat", "apply"}
      /\ UNCHANGED <<operator, edits, faults, fp, fpFile, waits, sys, half, unread>>
      /\ Learn \/ UNCHANGED display
      /\ wanted' \in {wanted, Offered}
  <2>. USE DEF ApplySteps, Still, device, display
  <2>1. CASE BeginContact
    BY <2>1 DEF BeginContact, BeginStep, BeginBeat
  <2>2. CASE RegisterAnswered
    BY <2>2 DEF RegisterAnswered, Register
  <2>3. CASE PollAnswered
    BY <2>3 DEF PollAnswered, Passes
  <2>4. CASE BeatAnswered
    BY <2>4 DEF BeatAnswered, Passes
  <2>5. CASE ContactRefused
    BY <2>5 DEF ContactRefused, Refused
  <2>. QED
    BY <2>1, <2>2, <2>3, <2>4, <2>5
<1>2. LinkInv'
  BY Contact_Link, Register_Link
  DEF BeginContact, RegisterAnswered, PollAnswered, BeatAnswered, ContactRefused, Register
<1>3. wanted' \in Offers \cup {None} /\ waits' \in BOOLEAN
  BY <1>1 DEF Offered, Offers, Access, DeviceInv, OperatorTypeOK
<1>4. DeviceInv'
  BY <1>1, <1>3, Device_Kept DEF ApplySteps
<1>5. DisplayInv'
  BY <1>1, Display_Next DEF IInv
<1>6. OperatorTypeOK'
  BY <1>1 DEF OperatorTypeOK, operator
<1>. QED
  BY <1>2, <1>4, <1>5, <1>6, Together

(* A step of an apply.                                                     *)
LEMMA Apply_Inv == ASSUME IInv, ApplyAccess PROVE IInv'
<1>. USE Parts
<1>1. /\ at \in ApplySteps \cup {"apply"} /\ at' \in ApplySteps \cup {"zone"}
      /\ UNCHANGED <<dev, idFile, identity, registered, drift, offset, synced, again, made, lost, jumped>>
      /\ UNCHANGED <<display, operator, edits>>
  BY DEF ApplyAccess, BeginApply, SetPassword, WriteKeys, WriteDropIn, ReloadSshd, RecordApplied,
         ApplyFails, Steps, ApplySteps
<1>2. faults' \in 0 .. MaxFaults
  BY SettingsAssumption DEF ApplyAccess, BeginApply, SetPassword, WriteKeys, WriteDropIn, ReloadSshd,
     RecordApplied, ApplyFails, OperatorTypeOK
<1>3. LinkInv'
  BY <1>1, Steps_Link DEF ApplySteps
<1>4. DeviceInv'
  BY Apply_Device DEF IInv
<1>5. DisplayInv'
  BY <1>1, Display_Next DEF IInv
<1>6. OperatorTypeOK'
  BY <1>1, <1>2 DEF OperatorTypeOK, operator, ApplySteps
<1>. QED
  BY <1>3, <1>4, <1>5, <1>6, Together

(* The zone, the brightness, and a retry that is due.                      *)
LEMMA Tick_Inv ==
  ASSUME IInv, RetryDue \/ ApplyZone \/ \E m \in Minutes : ApplyBrightness(m)
  PROVE  IInv'
<1>. USE Parts
<1>1. CASE RetryDue
  <2>1. UNCHANGED <<link, wanted, fp, fpFile, sys, half, unread, display, operator, edits, faults>>
        /\ waits' = FALSE
    BY <1>1 DEF RetryDue, Still
  <2>2. LinkInv'
    BY <2>1 DEF link, LinkInv, LinkTypeOK, LatestKey, KnownKeys, RegisteredIsKnown, KeyIsKept,
                SecondTryIsInTime, Up
  <2>3. DeviceInv'
    BY <2>1, Device_Kept DEF link
  <2>4. DisplayInv'
    BY <2>1, Display_Next DEF IInv
  <2>5. OperatorTypeOK'
    BY <2>1 DEF OperatorTypeOK, operator, link
  <2>. QED
    BY <2>2, <2>3, <2>4, <2>5, Together
<1>2. CASE ApplyZone \/ \E m \in Minutes : ApplyBrightness(m)
  <2>1. /\ at \in {"zone", "bright", "idle"} /\ at' \in {"bright", "idle"}
        /\ UNCHANGED <<dev, idFile, identity, registered, drift, offset, synced, again, made, lost, jumped>>
        /\ UNCHANGED <<device, operator, edits>>
    BY <1>2 DEF ApplyZone, ApplyBrightness
  <2>2. faults' \in 0 .. MaxFaults
    BY <1>2, SettingsAssumption DEF ApplyZone, ApplyBrightness, SavePlan, OperatorTypeOK
  <2>3. LinkInv'
    BY <2>1, Steps_Link
  <2>4. DeviceInv'
    BY <2>1, Device_Kept DEF device, ApplySteps, DeviceInv
  <2>5. DisplayInv'
    BY <1>2, Display_Next DEF IInv
  <2>6. OperatorTypeOK'
    BY <2>1, <2>2 DEF OperatorTypeOK, operator
  <2>. QED
    BY <2>3, <2>4, <2>5, <2>6, Together
<1>. QED
  BY <1>1, <1>2

(* The agent starts.                                                       *)
LEMMA Start_Inv == ASSUME IInv, Start PROVE IInv'
<1>. USE Parts
<1>1. LinkInv'
  BY Started_Link DEF Start
<1>2. DeviceInv'
  BY Start_Device
<1>3. DisplayInv'
  BY Display_Next DEF IInv, Start
<1>4. OperatorTypeOK'
  BY DEF Start, StartAgent, Started, Still, operator, OperatorTypeOK
<1>. QED
  BY <1>1, <1>2, <1>3, <1>4, Together

(* A fault.                                                                *)
LEMMA Fault_Inv == ASSUME IInv, Fault PROVE IInv'
<1>. USE Parts
<1>1. /\ UNCHANGED <<display, operator, edits, wanted, fp, fpFile, waits>>
      /\ faults < MaxFaults /\ faults' = faults + 1
  BY DEF Fault
<1>2. LinkInv'
  BY Started_Link, Register_Link, Contact_Link, Fault_Link DEF Fault, RegisterUnanswered
<1>3. DisplayInv'
  BY <1>1, Display_Next DEF IInv
<1>4. DeviceInv' /\ at' \in {at, "idle", "down"}
  <2>1. CASE AgentDies /\ Interrupted /\ UNCHANGED <<sys, unread>>
    BY <1>1, <2>1, Dies_Device DEF AgentDies, Dies
  <2>2. CASE PowerCut /\ Interrupted /\ sys' = [sys EXCEPT !.sshd = sys.dropIn] /\ unread' = FALSE
    BY <1>1, <2>2, Dies_Device DEF PowerCut, Dies
  <2>3. CASE /\ UNCHANGED <<sys, half, unread>>
             /\ StartUnsaved \/ RegisterUnanswered \/ SignedUnanswered \/ LoseIdentity \/ ClockSet
    <3>1. at' = at \/ (at' = "idle" /\ at \in {"register", "poll", "beat"})
      BY <2>3 DEF StartUnsaved, RegisterUnanswered, SignedUnanswered, Unanswered, LoseIdentity, ClockSet
    <3>2. waits' \in BOOLEAN /\ wanted' \in Offers \cup {None}
      BY <1>1 DEF DeviceInv
    <3>. QED
      BY <1>1, <2>3, <3>1, <3>2, Device_Kept DEF ApplySteps
  <2>. QED
    BY <2>1, <2>2, <2>3 DEF Fault
<1>5. OperatorTypeOK'
  BY <1>1, <1>4, SettingsAssumption DEF OperatorTypeOK, operator
<1>. QED
  BY <1>2, <1>3, <1>4, <1>5, Together

(* The operator.                                                           *)
LEMMA Edit_Inv ==
  ASSUME IInv, \/ PutRootPassword \/ \E keys \in KeySets : PutSSHKeys(keys)
               \/ \E s \in Schedules : PutSchedule(s)
               \/ EditDevice
  PROVE  IInv'
<1>. USE Parts
<1>1. edits < MaxEdits /\ edits' = edits + 1 /\ UNCHANGED <<device, display, faults>>
  BY DEF PutRootPassword, PutSSHKeys, PutSchedule, EditDevice, Edit
<1>2. UNCHANGED link \/ AcceptKey \/ RejectKey \/ ForgetDevice \/ OtherRegisters
  BY DEF PutRootPassword, PutSSHKeys, PutSchedule, EditDevice
<1>3. access' \in Access /\ schedule' \in Schedules
  BY <1>1, SettingsAssumption
  DEF PutRootPassword, PutSSHKeys, PutSchedule, EditDevice, operator, Access, OperatorTypeOK
<1>4. at' = at
  BY <1>2 DEF link, AcceptKey, RejectKey, ForgetDevice, OtherRegisters, Serves
<1>5. LinkInv'
  <2>1. CASE UNCHANGED link
    BY <2>1 DEF link, LinkInv, LinkTypeOK, LatestKey, KnownKeys, RegisteredIsKnown, KeyIsKept,
                SecondTryIsInTime, Up
  <2>. QED
    BY <1>2, <2>1, Operator_Link
<1>6. DeviceInv'
  BY <1>1, <1>4, Device_Kept DEF device, DeviceInv
<1>7. DisplayInv'
  BY <1>1, Display_Next DEF IInv
<1>8. OperatorTypeOK'
  BY <1>1, <1>3, <1>4, SettingsAssumption DEF OperatorTypeOK
<1>. QED
  BY <1>5, <1>6, <1>7, <1>8, Together

THEOREM Invariance == Spec => []IInv
<1>1. Init => IInv
  BY Initially
<1>2. IInv /\ [Next]_vars => IInv'
  <2>1. ASSUME IInv, UNCHANGED vars PROVE IInv'
    <3>1. LinkInv'
      BY <2>1, Parts DEF vars, link, LinkInv, LinkTypeOK, LatestKey, KnownKeys, RegisteredIsKnown,
                         KeyIsKept, SecondTryIsInTime, Up
    <3>2. DeviceInv' /\ DisplayInv'
      BY <2>1, Parts, Device_Kept, Display_Next DEF vars, link, device, DeviceInv, IInv
    <3>3. OperatorTypeOK'
      BY <2>1, Parts DEF vars, link, operator, OperatorTypeOK
    <3>. QED
      BY <3>1, <3>2, <3>3, Together
  <2>2. ASSUME IInv, Next PROVE IInv'
    BY <2>2, Start_Inv, Fault_Inv, Contact_Inv, Apply_Inv, Tick_Inv, Edit_Inv DEF Next
  <2>. QED
    BY <2>1, <2>2
<1>. QED
  BY <1>1, <1>2, PTL DEF Spec

--------------------------------------------------------------------------------
\* What follows

(* Every variable keeps its type, so an apply never goes on without        *)
(* credentials and the display is never told a brightness the plans do not *)
(* have (agent/access.go, agent/brightness.go, agent/identity.go).         *)
THEOREM TypeCorrect == Spec => []TypeOK
BY Invariance, PTL DEF IInv

(* A device that believes it is registered is known to the server by its   *)
(* own key, unless the operator gave its place to another machine or       *)
(* removed it; and a restart finds that key on the card unless the file    *)
(* was lost (agent/identity.go, server/register.go).                       *)
THEOREM RegisteredIsKnownAlways == Spec => []RegisteredIsKnown
BY Invariance, PTL DEF IInv, LinkInv

(* The second try of a contact is signed with the server's time, whatever  *)
(* the device's clock said (agent/agent.go contact, agent/clock.go).       *)
THEOREM SecondTryInTimeAlways == Spec => []SecondTryIsInTime
BY Invariance, PTL DEF IInv, LinkInv

(* Credentials that are not applied again are in force, after any number   *)
(* of edits, deaths and failures (agent/access.go applyAccess).            *)
THEOREM AppliedInForceAlways == Spec => []AppliedIsInForce
BY Invariance, PTL DEF IInv, DeviceInv

(* Logging in is closed to everyone but the console by no step but that    *)
(* which clears the keys, and then the console takes the password the      *)
(* operator has set (agent/access.go, accessTarget.apply).                 *)
THEOREM ShutOutByClearing == Spec => ShutOutOnlyByClearing
<1>1. IInv /\ [Next]_vars
      => [~ShutOut /\ ShutOut' => at = "keys" /\ wanted.keys = {} /\ wanted.hash # 0 /\ sys'.root = wanted.hash]_vars
  <2>. SUFFICES ASSUME IInv, Next, ~ShutOut, ShutOut'
                PROVE  at = "keys" /\ wanted.keys = {} /\ wanted.hash # 0 /\ sys'.root = wanted.hash
    OBVIOUS
  <2>. USE DEF ShutOut
  <2>2. CASE ApplyAccess
    BY <2>2, Parts DEF DeviceInv, Applying, ApplySteps, Offers, DropInFor, ApplyAccess, BeginApply, SetPassword, WriteKeys,
       WriteDropIn, ReloadSshd, RecordApplied, ApplyFails, Steps
  <2>3. CASE Fault
    BY <2>3, Parts DEF Fault, DeviceInv
  <2>4. CASE sys' = sys
    BY <2>4
  <2>. QED
    BY <2>2, <2>3, <2>4 DEF Next, Start, LoadSettings, BeginContact, RegisterAnswered, PollAnswered,
       BeatAnswered, ContactRefused, RetryDue, ApplyZone, ApplyBrightness, PutRootPassword, PutSSHKeys,
       PutSchedule, EditDevice, Edit, device
<1>. QED
  BY <1>1, Invariance, PTL DEF Spec, ShutOutOnlyByClearing

(* What the device has learned is on its card after every check, unless it *)
(* could not be written (agent/brightness.go applyBrightness).             *)
THEOREM CheckSavesPlanAlways == Spec => CheckSavesPlan
<1>1. IInv /\ [Next]_vars
      => [at = "bright" /\ at' = "idle" /\ sched.bright # None => planFile' = sched' \/ unwritten']_vars
  <2>. SUFFICES ASSUME IInv, Next, at = "bright", at' = "idle", sched.bright # None
                PROVE  planFile' = sched' \/ unwritten'
    OBVIOUS
  <2>1. PICK m \in Minutes : ApplyBrightness(m)
    BY DEF Next, Start, StartAgent, Started, Fault, StartUnsaved, RegisterUnanswered, SignedUnanswered,
       Unanswered, LoseIdentity, ClockSet, AgentDies, PowerCut, Dies, BeginContact, BeginStep, BeginBeat,
       RegisterAnswered, Register, PollAnswered, BeatAnswered, Passes, ContactRefused, Refused, ApplyAccess,
       BeginApply, SetPassword, WriteKeys, WriteDropIn, ReloadSshd, RecordApplied, ApplyFails, Steps,
       RetryDue, link, ApplyZone, PutRootPassword, PutSSHKeys, PutSchedule, EditDevice, AcceptKey,
       RejectKey, ForgetDevice, OtherRegisters, Serves
  <2>2. SavePlan /\ sched' = sched
    BY <2>1 DEF ApplyBrightness
  <2>. QED
    BY <2>2, Parts DEF SavePlan, DisplayInv
<1>. QED
  BY <1>1, Invariance, PTL DEF Spec, CheckSavesPlan

==================================================================================
