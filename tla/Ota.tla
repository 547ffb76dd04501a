---------------------------------- MODULE Ota ----------------------------------
(***************************************************************************)
(* Program update (OTA) of one display device.                             *)
(*                                                                         *)
(* The install layout on the SD card is shared by three programs that     *)
(* never run at the same time but can be cut off at any point: the agent   *)
(* (internal/agent/update.go), the rollback check systemd runs before      *)
(* every start (deploy/agent/rollback-check.sh) and systemd itself         *)
(* (display-agent.service, Restart=always).  The server's side is reduced  *)
(* to what the device sees of it: the update target, the program version   *)
(* it last heard of, and the test card.                                    *)
(*                                                                         *)
(* Every step below is one durable change of the file system, so a crash   *)
(* or a power cut can fall between any two of them.                        *)
(***************************************************************************)
EXTENDS Naturals

CONSTANTS
  Versions,     \* program versions
  Dead,         \* versions that crash before they reach the server
  First,        \* the version the device was installed with
  None,         \* "no such file" / "no update"
  MaxOffers,    \* bound: changes of the update target by the operator
  MaxTests,     \* bound: test cards
  MaxCrashes,   \* bound: deaths of the process of a version that works
  MaxCuts       \* bound: power cuts

ASSUME VersionsAssumption ==
  /\ Dead \subseteq Versions
  /\ First \in Versions \ Dead
  /\ None \notin Versions \cup Nat
ASSUME BoundsAssumption ==
  /\ MaxOffers \in Nat
  /\ MaxTests \in Nat
  /\ MaxCrashes \in Nat
  /\ MaxCuts \in Nat

VARIABLES
  (* the install layout, on disk *)
  versions,     \* version directories present under versions/
  current,      \* what the link current points to
  previous,     \* what the link previous points to, or None
  pending,      \* number in pending-verify, or None when there is no file
  failed,       \* version in failed-version, or None
  (* the saved manifests, on disk: what matters of them here *)
  saved,        \* current.json
  base,         \* base.json: content from before the test card, or None
  (* the process *)
  pc,           \* where systemd, the rollback check or the agent is
  running,      \* version of the running program
  undone,       \* rollback-check.sh: $version
  registered,   \* Agent.registered
  verified,     \* Agent.verified
  reason,       \* Agent.updRetry.err: none, failed or rolledback
  (* the server *)
  target,       \* store.Device.Update.Version, or None
  reported,     \* store.Device.AgentVersion
  testing,      \* the test card being shown (0: none)
  (* history and bounds *)
  starts,       \* starts of the unverified version since the switch
  gaveUp,       \* version rolled back since the operator last set the target
  forgot,       \* why failed-version does not name gaveUp ("no": it does, or will)
  saver,        \* version that saved `saved`, or None: restored after a test card
  offers, tests, crashes, cuts

disk   == <<versions, current, previous, pending, failed>>
files  == <<saved, base>>
proc   == <<running, undone, registered, verified, reason>>
server == <<target, reported, testing>>
hist   == <<starts, gaveUp, forgot, saver>>
bounds == <<offers, tests, crashes, cuts>>
vars   == <<disk, files, pc, proc, server, hist, bounds>>

MaybeVersion == Versions \cup {None}
Manifests == [test : 0..MaxTests, update : MaybeVersion]

MaxAttempts == 3          \* rollback-check.sh: [ "$attempts" -lt 3 ]

Scripts == {"stopped", "removed", "switched", "exec"}
Alive   == {"run", "polled", "staging", "staged", "guarded", "marked", "linked", "exit"}

TypeOK ==
  /\ versions \subseteq Versions
  /\ current \in Versions
  /\ previous \in MaybeVersion
  /\ pending \in 0..(MaxAttempts - 1) \cup {None}
  /\ failed \in MaybeVersion
  /\ saved \in Manifests
  /\ base \in Manifests \cup {None}
  /\ pc \in Scripts \cup Alive
  /\ running \in Versions
  /\ undone \in MaybeVersion
  /\ registered \in BOOLEAN
  /\ verified \in BOOLEAN
  /\ reason \in {"none", "failed", "rolledback"}
  /\ target \in MaybeVersion
  /\ reported \in Versions
  /\ testing \in 0..MaxTests
  /\ starts \in 0..MaxAttempts
  /\ gaveUp \in MaybeVersion
  /\ forgot \in {"no", "own", "test", "cut", "unknown"}
  /\ saver \in MaybeVersion
  /\ offers \in 0..MaxOffers
  /\ tests \in 0..MaxTests
  /\ crashes \in 0..MaxCrashes
  /\ cuts \in 0..MaxCuts

(* A device installed with First, which has shown content and been verified. *)
Init ==
  /\ versions = {First}
  /\ current = First
  /\ previous = None
  /\ pending = None
  /\ failed = None
  /\ saved = [test |-> 0, update |-> None]
  /\ base = None
  /\ pc = "stopped"
  /\ running = First
  /\ undone = None
  /\ registered = FALSE
  /\ verified = FALSE
  /\ reason = "none"
  /\ target = None
  /\ reported = First
  /\ testing = 0
  /\ starts = 0
  /\ gaveUp = None /\ forgot = "no"
  /\ saver = First
  /\ offers = 0 /\ tests = 0 /\ crashes = 0 /\ cuts = 0

-----------------------------------------------------------------------------
(* The server, as the device sees it. *)

ServerManifest ==
  [test |-> testing, update |-> IF target = reported THEN None ELSE target]

Rollout(v) ==
  /\ offers < MaxOffers
  /\ target # v
  /\ target' = v
  /\ offers' = offers + 1
  /\ gaveUp' = None /\ forgot' = "no"
  /\ UNCHANGED <<disk, files, pc, proc, reported, testing, starts, saver,
                 tests, crashes, cuts>>

CancelRollout == target # None /\ Rollout(None)

TestOn ==
  /\ tests < MaxTests
  /\ tests' = tests + 1
  /\ testing' = tests + 1
  /\ UNCHANGED <<disk, files, pc, proc, target, reported, hist, offers, crashes, cuts>>

(* The test is cancelled, or its time is over. *)
TestOff ==
  /\ testing # 0
  /\ testing' = 0
  /\ UNCHANGED <<disk, files, pc, proc, target, reported, hist, bounds>>

-----------------------------------------------------------------------------
(* Starting: rollback-check.sh (ExecStartPre), then the program. *)

CheckNothing ==
  /\ pc = "stopped"
  /\ pending = None
  /\ pc' = "exec"
  /\ UNCHANGED <<disk, files, proc, server, hist, bounds>>

(* Mutant: the limit is off by one. *)
CheckCount_OffByOne ==
  /\ pc = "stopped"
  /\ pending # None
  /\ pending + 1 <= MaxAttempts
  /\ pending' = pending + 1
  /\ pc' = "exec"
  /\ UNCHANGED <<versions, current, previous, failed, files, proc, server, hist, bounds>>

(* Mutant: the count is never written back. *)
CheckCount_NotWritten ==
  /\ pc = "stopped"
  /\ pending # None
  /\ pending + 1 < MaxAttempts
  /\ pc' = "exec"
  /\ UNCHANGED <<disk, files, proc, server, hist, bounds>>

CheckCount ==
  /\ pc = "stopped"
  /\ pending # None
  /\ pending + 1 < MaxAttempts
  /\ pending' = pending + 1
  /\ pc' = "exec"
  /\ UNCHANGED <<versions, current, previous, failed, files, proc, server, hist, bounds>>

CheckGiveUp ==
  /\ pc = "stopped"
  /\ pending # None
  /\ pending + 1 >= MaxAttempts
  /\ pending' = None
  /\ undone' = current
  /\ pc' = "removed"
  /\ UNCHANGED <<versions, current, previous, failed, files,
                 running, registered, verified, reason, server, hist, bounds>>

NothingToRollBackTo ==
  /\ pc = "removed"
  /\ previous = None
  /\ pc' = "exec"
  /\ UNCHANGED <<disk, files, proc, server, hist, bounds>>

SwitchBack ==
  /\ pc = "removed"
  /\ previous # None
  /\ current' = previous
  /\ starts' = 0
  /\ gaveUp' = current /\ forgot' = "no"
  /\ pc' = "switched"
  /\ UNCHANGED <<versions, previous, pending, failed, files, proc, server, saver, bounds>>

(* Mutant: failed-version is not written. *)
RecordFailed_Forgotten ==
  /\ pc = "switched"
  /\ pc' = "exec"
  /\ UNCHANGED <<disk, files, proc, server, hist, bounds>>

RecordFailed ==
  /\ pc = "switched"
  /\ failed' = undone
  /\ pc' = "exec"
  /\ UNCHANGED <<versions, current, previous, pending, files, proc, server, hist, bounds>>

(* setUpdate: a manifest without update forgets the version rolled back. *)
FailedAfter(m) == IF m.update = None THEN None ELSE failed

(* History: a manifest that makes it forget is one that the version rolled  *)
(* back saved itself, or one from before a test card.                       *)
ForgotAfter(m, by) ==
  IF m.update # None \/ failed # gaveUp \/ gaveUp = None THEN forgot
  ELSE CASE by = gaveUp -> "own"
         [] by = None -> "test"
         [] OTHER -> "unknown"

(* The content from before a test card takes its place again. *)
RestoreBase ==
  /\ base # None
  /\ saved' = base /\ base' = None
  /\ failed' = FailedAfter(base)
  /\ saver' = None /\ forgot' = ForgotAfter(base, None)

(* The held test card is over, as far as the server's time tells. *)
Over(m) == m.test # 0 /\ m.test # testing

(* The program starts and restores the saved content (loadCurrent); a test *)
(* card that is over gives way to the content from before it, if any.  The *)
(* clock of a device without RTC may be behind: then it does not.          *)
Exec ==
  /\ pc = "exec"
  /\ current \in versions
  /\ pc' = "run"
  /\ running' = current
  /\ registered' = FALSE
  /\ verified' = FALSE
  /\ reason' = "none"
  /\ starts' = IF pending # None /\ starts < MaxAttempts THEN starts + 1 ELSE starts
  /\ \/ /\ failed' = FailedAfter(saved)
        /\ forgot' = ForgotAfter(saved, saver)
        /\ UNCHANGED <<files, saver>>
     \/ Over(saved) /\ RestoreBase
  /\ undone' = None
  /\ UNCHANGED <<versions, current, previous, pending, server, gaveUp, bounds>>

(* current points nowhere: the start fails and systemd tries again. *)
ExecFails ==
  /\ pc = "exec"
  /\ current \notin versions
  /\ pc' = "stopped"
  /\ UNCHANGED <<disk, files, proc, server, hist, bounds>>

-----------------------------------------------------------------------------
(* The running agent. *)

Reaches == pc = "run" /\ running \notin Dead

Register ==
  /\ Reaches
  /\ ~registered
  /\ registered' = TRUE
  /\ reported' = running
  /\ UNCHANGED <<disk, files, pc, running, undone, verified, reason,
                 target, testing, hist, bounds>>

(* The server took the registration, the answer was lost. *)
RegisterUnanswered ==
  /\ Reaches
  /\ ~registered
  /\ reported # running
  /\ reported' = running
  /\ UNCHANGED <<disk, files, pc, proc, target, testing, hist, bounds>>

(* poll: the same manifest again (304), or a new one, which is saved. *)
Poll ==
  LET m == ServerManifest IN
  /\ Reaches
  /\ registered
  /\ pc' = "polled"
  /\ \/ /\ m = saved
        /\ UNCHANGED <<files, failed, reason, forgot, saver>>
     \/ /\ m # saved
        /\ base' = CASE m.test = 0 -> None
                     [] m.test # 0 /\ saved.test = 0 -> saved
                     [] OTHER -> base
        /\ saved' = m /\ saver' = running
        /\ failed' = FailedAfter(m)
        /\ forgot' = ForgotAfter(m, running)
        /\ reason' = IF m.update # None /\ m.update = saved.update
                     THEN reason ELSE "none"
  /\ UNCHANGED <<versions, current, previous, pending, running, undone,
                 registered, verified, server, starts, gaveUp, bounds>>

(* Mutant: only the rollback target is kept. *)
Kept_PreviousOnly == {previous}

(* commitUpdate keeps the directories the two links name. *)
Kept == {current, previous}

(* The first heartbeat the server answers confirms whatever is running. *)
Heartbeat ==
  /\ Reaches
  /\ registered
  /\ reported' = running
  /\ verified' = TRUE
  /\ IF verified \/ pending = None
     THEN UNCHANGED <<versions, pending, starts>>
     ELSE /\ pending' = None
          /\ versions' = versions \cap Kept
          /\ starts' = 0
  /\ UNCHANGED <<current, previous, failed, files, pc, running, undone,
                 registered, reason, target, testing, gaveUp, forgot, saver, bounds>>

(* expireTest: back to the content from before the test card. *)
ExpireTest ==
  /\ pc = "run"
  /\ Over(saved)
  /\ RestoreBase
  /\ reason' = IF base.update # None /\ base.update = saved.update
               THEN reason ELSE "none"
  /\ UNCHANGED <<versions, current, previous, pending, pc, running, undone,
                 registered, verified, server, starts, gaveUp, bounds>>

-----------------------------------------------------------------------------
(* applyPendingUpdate, right after a successful poll. *)

Wanted == saved.update

NothingToApply ==
  /\ pc = "polled"
  /\ Wanted \in {None, running}
  /\ pc' = "run"
  /\ UNCHANGED <<disk, files, proc, server, hist, bounds>>

(* Mutant: the refusal is not reported. *)
RefuseRolledBack_Silent ==
  /\ pc = "polled"
  /\ Wanted \notin {None, running}
  /\ Wanted = failed
  /\ pc' = "run"
  /\ UNCHANGED <<disk, files, proc, server, hist, bounds>>

RefuseRolledBack ==
  /\ pc = "polled"
  /\ Wanted \notin {None, running}
  /\ Wanted = failed
  /\ reason' = "rolledback"
  /\ pc' = "run"
  /\ UNCHANGED <<disk, files, running, undone, registered, verified, server, hist, bounds>>

(* A failed update is tried again only after a while. *)
NotDueYet ==
  /\ pc = "polled"
  /\ Wanted \notin {None, running, failed}
  /\ reason = "failed"
  /\ pc' = "run"
  /\ UNCHANGED <<disk, files, proc, server, hist, bounds>>

(* stagePackage: the old directory of that version goes ... *)
StageRemove ==
  /\ pc = "polled"
  /\ Wanted \notin {None, running, failed}
  /\ versions' = versions \ {Wanted}
  /\ pc' = "staging"
  /\ UNCHANGED <<current, previous, pending, failed, files, proc, server, hist, bounds>>

(* ... and the complete one is renamed in its place. *)
StageRename ==
  /\ pc = "staging"
  /\ versions' = versions \cup {Wanted}
  /\ pc' = "staged"
  /\ UNCHANGED <<current, previous, pending, failed, files, proc, server, hist, bounds>>

(* Mutant: the switch is not protected. *)
MarkPending_Unprotected ==
  /\ pc = "staged"
  /\ starts' = 0
  /\ pc' = "guarded"
  /\ UNCHANGED <<disk, files, proc, server, gaveUp, forgot, saver, bounds>>

(* update.sh succeeded: protect the switch first. *)
MarkPending ==
  /\ pc = "staged"
  /\ pending' = 0
  /\ starts' = 0
  /\ pc' = "guarded"
  /\ UNCHANGED <<versions, current, previous, failed, files, proc, server, gaveUp, forgot, saver, bounds>>

ForgetFailed ==
  /\ pc = "guarded"
  /\ failed' = None
  /\ pc' = "marked"
  /\ UNCHANGED <<versions, current, previous, pending, files, proc, server, hist, bounds>>

(* Mutant: the rollback target is the new version. *)
LinkPrevious_NewVersion ==
  /\ pc = "marked"
  /\ previous' = Wanted
  /\ pc' = "linked"
  /\ UNCHANGED <<versions, current, pending, failed, files, proc, server, hist, bounds>>

LinkPrevious ==
  /\ pc = "marked"
  /\ previous' = current
  /\ pc' = "linked"
  /\ UNCHANGED <<versions, current, pending, failed, files, proc, server, hist, bounds>>

LinkCurrent ==
  /\ pc = "linked"
  /\ current' = Wanted
  /\ pc' = "exit"
  /\ UNCHANGED <<versions, previous, pending, failed, files, proc, server, hist, bounds>>

(* Download, update.sh or a file operation fails: the agent goes on. *)
ApplyFails ==
  /\ \/ pc \in {"staging", "staged", "marked", "linked"}
     \/ pc = "polled" /\ Wanted \notin {None, running, failed}
  /\ reason' = "failed"
  /\ pc' = "run"
  /\ UNCHANGED <<disk, files, running, undone, registered, verified, server, hist, bounds>>

ExitForUpdate ==
  /\ pc = "exit"
  /\ pc' = "stopped"
  /\ UNCHANGED <<disk, files, proc, server, hist, bounds>>

-----------------------------------------------------------------------------
(* Failures. *)

(* A dead version dies by itself, a working one now and then (watchdog). *)
DeadDies ==
  /\ pc = "run"
  /\ running \in Dead
  /\ pc' = "stopped"
  /\ UNCHANGED <<disk, files, proc, server, hist, bounds>>

Crash ==
  /\ pc \in Alive
  /\ crashes < MaxCrashes
  /\ crashes' = crashes + 1
  /\ pc' = "stopped"
  /\ UNCHANGED <<disk, files, proc, server, hist, offers, tests, cuts>>

(* A power cut also stops the rollback check; one that falls into its      *)
(* rewriting of the counter leaves an empty file, which counts as 0.       *)
PowerCut ==
  /\ cuts < MaxCuts
  /\ cuts' = cuts + 1
  /\ pc' = "stopped"
  /\ \/ UNCHANGED pending
     \/ pc = "stopped" /\ pending # None /\ pending' = 0
  /\ forgot' = IF pc = "switched" THEN "cut" ELSE forgot
  /\ UNCHANGED <<versions, current, previous, failed, files, proc, server,
                 starts, gaveUp, saver, offers, tests, crashes>>

-----------------------------------------------------------------------------

RollbackCheck ==
  \/ CheckNothing \/ CheckCount \/ CheckGiveUp
  \/ NothingToRollBackTo \/ SwitchBack \/ RecordFailed

ApplyUpdate ==
  \/ NothingToApply \/ RefuseRolledBack \/ NotDueYet
  \/ StageRemove \/ StageRename \/ MarkPending \/ ForgetFailed
  \/ LinkPrevious \/ LinkCurrent \/ ApplyFails \/ ExitForUpdate

Operator == (\E v \in Versions : Rollout(v)) \/ CancelRollout \/ TestOn \/ TestOff

Next ==
  \/ Operator
  \/ RollbackCheck \/ Exec \/ ExecFails
  \/ Register \/ RegisterUnanswered \/ Poll \/ Heartbeat \/ ExpireTest
  \/ ApplyUpdate
  \/ DeadDies \/ Crash \/ PowerCut

Safe == Init /\ [][Next]_vars

(* systemd restarts the service for ever, the main loop polls and beats for *)
(* ever, a test card ends; downloads, update.sh and file operations that    *)
(* are tried for ever succeed in the end.                                   *)
Fairness ==
  /\ WF_vars(RollbackCheck \/ Exec \/ ExecFails \/ DeadDies \/ ForgetFailed \/ ExitForUpdate)
  /\ SF_vars(Register)
  /\ SF_vars(Poll)
  /\ SF_vars(Heartbeat /\ ~verified)
  /\ WF_vars(TestOff)
  /\ WF_vars(NothingToApply \/ RefuseRolledBack)
  /\ WF_vars(NotDueYet \/ StageRemove \/ StageRename \/ ApplyFails)
  /\ SF_vars(StageRemove)
  /\ SF_vars(StageRename)
  /\ SF_vars(MarkPending)
  /\ SF_vars(LinkPrevious)
  /\ SF_vars(LinkCurrent)

Spec == Safe /\ Fairness

-----------------------------------------------------------------------------
(* Properties. *)

(* The start about to be made, or being made, is guarded: a version that    *)
(* cannot reach the server is current only under a pending-verify count     *)
(* (update.go:127), or while the rollback check is taking it away.          *)
Guarded ==
  current \in Dead => pending # None \/ pc = "removed"

(* Without a power cut no order of steps and process deaths leaves a dead   *)
(* version current with no rollback to come.                                *)
GuardedUnlessCut == cuts = 0 => Guarded

(* With power cuts, the guard can be lost in one place only: between        *)
(* rollback-check.sh:22 (rm) and :25 (mv).                                  *)
GuardLostOnlyInRollback ==
  [][Guarded /\ ~Guarded' => PowerCut /\ pc = "removed"]_vars

(* Rolling back always leads to a version that has reached the server:      *)
(* previous never names a dead version (update.go:129, 137).                *)
RollbackTargetWorks == previous \notin Dead

(* An unverified version is started at most twice in a row, whatever the    *)
(* process deaths: rollback-check.sh counts before each start.              *)
TwoStartsUnlessCut == cuts = 0 => starts < MaxAttempts

(* The directory the service starts from disappears in one way only: by     *)
(* rolling back to a version whose directory was being replaced when the    *)
(* agent died (stagePackage, update.go:171-172, then rollback-check.sh:25). *)
DirectoryLostOnlyByRollback ==
  [][(current \in versions /\ current' \notin versions')
       => SwitchBack /\ previous \notin versions]_vars

(* A version that was rolled back is not switched to again unless the       *)
(* operator asks anew (update.go:88), or failed-version has lost it since   *)
(* in one of three ways: the power was cut between the switch back and the  *)
(* note (rollback-check.sh:25, 26); or the device took up a manifest        *)
(* without update (setUpdate, update.go:80), be it one from before a test   *)
(* card that ended, or the one that the version rolled back had saved       *)
(* itself, which then can reach the server.                                 *)
RetryOnlyInKnownCases ==
  [][LinkCurrent /\ Wanted = gaveUp =>
       forgot \in {"cut", "test"} \/ (forgot = "own" /\ Wanted \notin Dead)]_vars

(* A device comes back, in the end, to a version that is there, runs and    *)
(* has been answered by the server; unless the power was cut, or the        *)
(* directory to start from is lost, which happens in one way only           *)
(* (DirectoryLostOnlyByRollback) and is then for ever.                      *)
Working == current \in versions /\ running = current /\ pc \in Alive /\ verified
EndsWorking == <>[](Working \/ cuts > 0 \/ current \notin versions)

(* A rollout settles: the target runs, or the operator is told why not      *)
(* (the reason the heartbeat carries); unless the power was cut, or the     *)
(* directory to start from is gone (DirectoryLostOnlyByRollback).           *)
Settled == target \in {None, current} \/ reason # "none"
RolloutSettles == <>[](Settled \/ cuts > 0 \/ current \notin versions)

-----------------------------------------------------------------------------
(* What documents and comments of the repository say, and the code does     *)
(* not do: TLC finds a counterexample to each.                               *)

(* update.go:127-128: after the switch the new version is protected         *)
(* whenever the power goes.                                                 *)
AlwaysGuarded == Guarded

(* rollback-check.sh:5: it is the whole version directory that is rolled    *)
(* back, so the version rolled back to is there.                            *)
CurrentPresent == current \in versions

(* update.go:88: a version rolled back is not retried by itself.            *)
NoRetryAfterRollback == [][LinkCurrent => Wanted # gaveUp]_vars
================================================================================
