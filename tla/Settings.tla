-------------------------------- MODULE Settings --------------------------------
(***************************************************************************)
(* What the server sets on a device apart from its content: the access     *)
(* credentials that come with the manifest (server/access.go,              *)
(* agent/access.go), and the time zone and brightness plan that come with  *)
(* the headers of an answer (server/device.go announceSchedule,            *)
(* agent/schedule.go, brightness.go, timezone.go), on top of the contacts  *)
(* of Registration.                                                        *)
(*                                                                         *)
(* The hash of a password is a number, 0 for none; a fingerprint is the    *)
(* credentials it is of.  The drop-in that lets only keys log in is there  *)
(* or not, and sshd has read it or not.                                    *)
(***************************************************************************)
EXTENDS Registration, Brightness

CONSTANTS
  KeySets,                  \* sets of SSH keys the operator may enter
  Zones, Plans,             \* time zones and brightness plans that may be set
  MaxEdits, MaxFaults       \* bounds

ASSUME SettingsAssumption ==
  /\ {} \in KeySets
  /\ \A plan \in Plans : Valid(plan)
  /\ MaxEdits \in Nat /\ MaxFaults \in Nat

VARIABLES
  access,           \* the operator's: password hash and keys
  schedule,         \* the server's: time zone and brightness plan
  wanted,           \* a.access
  fp, fpFile,       \* a.accessFP and access-applied
  waits,            \* a.accRetry is not due
  sys,              \* the device: with sshd or not, password, authorized_keys, drop-in, and what sshd has read
  sched,            \* a.sched
  planFile, saved,  \* the brightness file, and a.brightSaved
  zone,             \* /etc/localtime
  shown,            \* what the player was told
  half,             \* an apply has ended before its fingerprint was on the card
  unread,           \* sshd was not told of the drop-in
  unwritten,        \* the plan could not be written
  edits, faults

device   == <<wanted, fp, fpFile, waits, sys, half, unread>>
display  == <<sched, planFile, saved, zone, shown, unwritten>>
operator == <<access, schedule>>
vars     == <<link, device, display, operator, edits, faults>>

Access    == [hash : 0 .. MaxEdits, keys : KeySets]
Schedules == [zone : Zones, bright : Plans]
Learned   == [zone : Zones \cup {None}, bright : Plans \cup {None}]
Full      == [percent |-> 100, media |-> TRUE]

TypeOK ==
  /\ LinkTypeOK
  /\ at \in {"down", "idle", "register", "poll", "beat",
             "apply", "password", "keys", "dropIn", "reload", "record", "zone", "bright"}
  /\ access \in Access /\ schedule \in Schedules
  /\ {wanted, fp, fpFile} \subseteq Access \cup {None}
  /\ sys \in [ssh : BOOLEAN, root : 0 .. MaxEdits, keys : KeySets, dropIn : BOOLEAN, sshd : BOOLEAN]
  /\ {sched, planFile, saved} \subseteq Learned
  /\ zone \in Zones \cup {None}
  /\ shown \in [percent : Percents, media : BOOLEAN]
  /\ {waits, half, unread, unwritten} \subseteq BOOLEAN
  /\ edits \in 0 .. MaxEdits /\ faults \in 0 .. MaxFaults

Nothing == [zone |-> None, bright |-> None]

Init ==
  /\ LinkInit
  /\ access = [hash |-> 0, keys |-> {}] /\ schedule \in Schedules
  /\ wanted = None /\ fp = None /\ fpFile = None /\ waits = FALSE
  /\ \E ssh \in BOOLEAN : sys = [ssh |-> ssh, root |-> 0, keys |-> {}, dropIn |-> FALSE, sshd |-> FALSE]
  /\ sched = Nothing /\ planFile = Nothing /\ saved = Nothing
  /\ zone = None /\ shown = Full
  /\ half = FALSE /\ unread = FALSE /\ unwritten = FALSE
  /\ edits = 0 /\ faults = 0

--------------------------------------------------------------------------------
\* The contacts, and what they bring

(* schedule.observe, of an answer that announces.                          *)
Learn == sched' = schedule /\ UNCHANGED <<planFile, saved, zone, shown, unwritten>>

(* deviceAccess: nothing, when no password was ever set and there are no   *)
(* keys.                                                                   *)
Offered == IF access.hash = 0 /\ access.keys = {} THEN None ELSE access

Still == UNCHANGED <<operator, edits, faults>>

RegisterAnswered == Register /\ Learn /\ UNCHANGED device /\ Still

(* The answer to a poll is the manifest, or says that it is the same.      *)
PollAnswered ==
  /\ Passes("poll", "apply") /\ Learn
  /\ wanted' = Offered
  /\ UNCHANGED <<fp, fpFile, waits, sys, half, unread>> /\ Still

BeatAnswered == Passes("beat", "idle") /\ Learn /\ UNCHANGED device /\ Still

ContactRefused ==
  /\ Refused("poll") \/ Refused("beat")
  /\ UNCHANGED <<device, display>> /\ Still

BeginContact == (BeginStep \/ BeginBeat) /\ UNCHANGED <<device, display>> /\ Still

--------------------------------------------------------------------------------
\* applyAccess

AppliesAccess == wanted # None /\ ~waits /\ fp # wanted

Steps(from, to) ==
  /\ at = from /\ at' = to
  /\ UNCHANGED <<dev, idFile, identity, registered, drift, offset, synced, again, made, lost, jumped>>
  /\ UNCHANGED <<display, operator, edits, wanted>>

BeginApply ==
  /\ Steps("apply", IF AppliesAccess THEN "password" ELSE "zone")
  /\ UNCHANGED <<fp, fpFile, waits, sys, half, unread, faults>>

SetPassword ==
  /\ Steps("password", "keys")
  /\ sys' = IF wanted.hash = 0 THEN sys ELSE [sys EXCEPT !.root = wanted.hash]
  /\ UNCHANGED <<fp, fpFile, waits, half, unread, faults>>

(* Mutant: keys that were cleared stay in the file.                        *)
WriteKeys_Kept ==
  /\ Steps("keys", "dropIn")
  /\ sys' = IF wanted.keys = {} THEN sys ELSE [sys EXCEPT !.keys = wanted.keys]
  /\ UNCHANGED <<fp, fpFile, waits, half, unread, faults>>

WriteKeys ==
  /\ Steps("keys", "dropIn")
  /\ sys' = [sys EXCEPT !.keys = wanted.keys]
  /\ UNCHANGED <<fp, fpFile, waits, half, unread, faults>>

(* A device without sshd has no drop-in; sshd is told of it only when this *)
(* changed it.                                                             *)
DropInFor(a) == sys.ssh /\ a.keys # {}

WriteDropIn ==
  /\ Steps("dropIn", IF sys.dropIn = DropInFor(wanted) THEN "record" ELSE "reload")
  /\ sys' = [sys EXCEPT !.dropIn = DropInFor(wanted)]
  /\ unread' = (unread \/ sys'.dropIn # sys.dropIn)
  /\ UNCHANGED <<fp, fpFile, waits, half, faults>>

ReloadSshd ==
  /\ Steps("reload", "record")
  /\ sys' = [sys EXCEPT !.sshd = sys.dropIn] /\ unread' = FALSE
  /\ UNCHANGED <<fp, fpFile, waits, half, faults>>

(* The fingerprint; a failure to write it is logged.                       *)
RecordApplied ==
  /\ Steps("record", "zone")
  /\ fp' = wanted /\ waits' = FALSE
  /\ \/ fpFile' = wanted /\ UNCHANGED faults
     \/ faults < MaxFaults /\ faults' = faults + 1 /\ UNCHANGED fpFile
  /\ half' = (fpFile' # wanted)
  /\ UNCHANGED <<sys, unread>>

(* Mutant: keys that could not be written are no reason to stop.           *)
ApplyFails_KeysIgnored(step) ==
  /\ faults < MaxFaults /\ faults' = faults + 1
  /\ Steps(step, IF step = "keys" THEN "dropIn" ELSE "zone")
  /\ waits' = (step # "keys") /\ half' = TRUE
  /\ UNCHANGED <<fp, fpFile, sys, unread>>

(* Any step fails: later again, and the heartbeat says so.                 *)
ApplyFails(step) ==
  /\ faults < MaxFaults /\ faults' = faults + 1
  /\ Steps(step, "zone")
  /\ waits' = TRUE /\ half' = TRUE
  /\ UNCHANGED <<fp, fpFile, sys, unread>>

RetryDue ==
  /\ waits /\ waits' = FALSE
  /\ UNCHANGED <<link, wanted, fp, fpFile, sys, half, unread, display>> /\ Still

ApplyAccess ==
  \/ BeginApply \/ SetPassword \/ WriteKeys \/ WriteDropIn \/ ReloadSshd \/ RecordApplied
  \/ ApplyFails("password") \/ ApplyFails("keys") \/ ApplyFails("dropIn") \/ ApplyFails("reload")

--------------------------------------------------------------------------------
\* applyZone, applyBrightness

(* A zone that cannot be set is tried again later.                         *)
ApplyZone ==
  /\ at = "zone" /\ at' = "bright"
  /\ \/ zone' = sched.zone /\ UNCHANGED faults
     \/ sched.zone # zone /\ faults < MaxFaults /\ faults' = faults + 1 /\ UNCHANGED zone
  /\ UNCHANGED <<dev, idFile, identity, registered, drift, offset, synced, again, made, lost, jumped>>
  /\ UNCHANGED <<device, sched, planFile, saved, shown, unwritten, operator, edits>>

(* Mutant: only another plan is written, not another zone.                 *)
SavePlan_ZoneForgotten ==
  IF sched.bright = saved.bright THEN UNCHANGED <<planFile, saved, unwritten, faults>>
  ELSE /\ saved' = sched
       /\ \/ planFile' = sched /\ unwritten' = FALSE /\ UNCHANGED faults
          \/ /\ faults < MaxFaults /\ faults' = faults + 1
             /\ unwritten' = TRUE /\ UNCHANGED planFile

(* What could not be written is not tried again while it stays the same.   *)
SavePlan ==
  IF sched = saved THEN UNCHANGED <<planFile, saved, unwritten, faults>>
  ELSE /\ saved' = sched
       /\ \/ planFile' = sched /\ unwritten' = FALSE /\ UNCHANGED faults
          \/ /\ faults < MaxFaults /\ faults' = faults + 1
             /\ unwritten' = TRUE /\ UNCHANGED planFile

(* applyBrightness, at the end of a step and every half minute.            *)
ApplyBrightness(minute) ==
  /\ at \in {"bright", "idle"} /\ at' = "idle"
  /\ IF sched.bright = None THEN UNCHANGED <<planFile, saved, unwritten, shown, faults>>
     ELSE SavePlan /\ shown' = BrightnessAt(sched.bright, minute)
  /\ UNCHANGED <<dev, idFile, identity, registered, drift, offset, synced, again, made, lost, jumped>>
  /\ UNCHANGED <<device, sched, zone, operator, edits>>

--------------------------------------------------------------------------------
\* The agent starts and dies

(* New: the fingerprint, the plan and the zone come from the card.         *)
LoadSettings ==
  /\ fp' = fpFile /\ waits' = FALSE
  /\ sched' = planFile /\ saved' = planFile
  /\ unwritten' = FALSE
  /\ shown' = Full
  /\ UNCHANGED <<wanted, fpFile, sys, half, unread, planFile, zone>>

Start == StartAgent /\ LoadSettings /\ Still

(* Whatever was under way is not finished.                                 *)
Interrupted == half' = (half \/ at \in {"password", "keys", "dropIn", "reload", "record"})

Fault ==
  /\ faults < MaxFaults /\ faults' = faults + 1
  /\ UNCHANGED <<display, operator, edits, wanted, fp, fpFile, waits>>
  /\ \/ StartUnsaved /\ UNCHANGED <<sys, half, unread>>
     \/ RegisterUnanswered /\ UNCHANGED <<sys, half, unread>>
     \/ SignedUnanswered /\ UNCHANGED <<sys, half, unread>>
     \/ LoseIdentity /\ UNCHANGED <<sys, half, unread>>
     \/ ClockSet /\ UNCHANGED <<sys, half, unread>>
     \/ AgentDies /\ Interrupted /\ UNCHANGED <<sys, unread>>
     \/ PowerCut /\ Interrupted /\ sys' = [sys EXCEPT !.sshd = sys.dropIn] /\ unread' = FALSE

--------------------------------------------------------------------------------
\* The operator

Edit ==
  /\ edits < MaxEdits /\ edits' = edits + 1
  /\ UNCHANGED <<device, display, faults>>

PutRootPassword ==
  /\ Edit /\ access' = [access EXCEPT !.hash = edits']
  /\ UNCHANGED <<link, schedule>>

PutSSHKeys(keys) ==
  /\ Edit /\ access' = [access EXCEPT !.keys = keys] /\ access' # access
  /\ UNCHANGED <<link, schedule>>

(* Another brightness plan; another time zone comes with a restart of the  *)
(* server.                                                                 *)
PutSchedule(s) ==
  /\ Edit /\ schedule' = s /\ s # schedule
  /\ UNCHANGED <<link, access>>

EditDevice ==
  /\ Edit /\ (AcceptKey \/ RejectKey \/ ForgetDevice \/ OtherRegisters)
  /\ UNCHANGED operator

Next ==
  \/ Start \/ Fault
  \/ BeginContact \/ RegisterAnswered \/ PollAnswered \/ BeatAnswered \/ ContactRefused
  \/ ApplyAccess \/ RetryDue \/ ApplyZone \/ (\E m \in Minutes : ApplyBrightness(m))
  \/ PutRootPassword \/ (\E keys \in KeySets : PutSSHKeys(keys))
  \/ (\E s \in Schedules : PutSchedule(s)) \/ EditDevice

Spec == Init /\ [][Next]_vars

--------------------------------------------------------------------------------
\* Properties

InForce(a) ==
  /\ a.hash = 0 \/ sys.root = a.hash
  /\ sys.keys = a.keys
  /\ sys.dropIn = DropInFor(a)
  /\ sys.sshd = sys.dropIn \/ unread

(* Credentials that are taken for applied, and so are not applied again,   *)
(* are those of the system, also after deaths and failures, unless another *)
(* apply was left half way; sshd has read them unless it was not told.     *)
AppliedIsInForce == fp # None /\ ~half /\ at \notin {"keys", "dropIn", "reload", "record"} => InForce(fp)

(* No failure, death or power cut leaves a drop-in that asks for keys and  *)
(* no keys: only the step that takes the keys away does, when the operator *)
(* cleared them and set a password, which the console takes by then.       *)
ShutOut == sys.dropIn /\ sys.keys = {}

ShutOutOnlyByClearing ==
  [][~ShutOut /\ ShutOut' => at = "keys" /\ wanted.keys = {} /\ wanted.hash # 0 /\ sys'.root = wanted.hash]_vars

(* Every brightness check brings the file up to date with what the device  *)
(* has learned, so that it can restart without the server.                 *)
CheckSavesPlan ==
  [][at = "bright" /\ at' = "idle" /\ sched.bright # None => planFile' = sched' \/ unwritten']_vars

(* What handlePutSSHKeys says (server/access.go:68), and the code does not *)
(* do: keys that were cleared are gone from a device that is offered       *)
(* nothing.                                                                *)
ClearedKeysGo == wanted = None => sys.keys = {}

(* What the comment on the order of the two files (agent/access.go:99)     *)
(* says, and the code does not do when keys are cleared: there is always a *)
(* way to log in.                                                          *)
AlwaysALogin == ~(sys.sshd /\ sys.keys = {})
================================================================================
