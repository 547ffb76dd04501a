------------------------------- MODULE OtaProofs -------------------------------
(***************************************************************************)
(* What Ota promises whatever the versions, the bounds and the order of    *)
(* steps, deaths and power cuts.                                            *)
(*                                                                         *)
(* GuardedUnlessCut is not inductive: that the rollback check may leave a  *)
(* version alone when there is nothing to roll back to, and that a         *)
(* heartbeat may drop the guard, rests on who can be current and previous  *)
(* at each point of the update, which LinksInv states.                     *)
(***************************************************************************)
EXTENDS Ota, TLAPS

(* The steps of applyPendingUpdate, and those of them that stage and switch. *)
Applying == {"polled", "staging", "staged", "guarded", "marked", "linked"}
Staging  == {"staging", "staged", "guarded", "marked", "linked"}

(* Who can be running, current and previous at each step of the agent. *)
LinksInv ==
  /\ RollbackTargetWorks
  /\ previous = None => current \notin Dead
  /\ pc \in Alive \ {"exit"} => running = current
  /\ pc \in Applying => running \notin Dead
  /\ pc \in Staging => Wanted # None
  /\ pc \in {"guarded", "marked", "linked", "exit"} => pending # None
  /\ pc \in {"staged", "guarded", "marked", "linked"} => Wanted \in versions
  /\ pc = "linked" => previous # None
  /\ pc \in {"removed", "switched"} => pending = None

(* The counter in pending-verify has counted every start of its version. *)
CountInv ==
  cuts = 0 =>
    /\ starts < MaxAttempts
    /\ pending # None => starts <= pending
    /\ pending # None /\ pc = "exec" => starts < pending

(* Until it is verified or rolled back, a version either starts from the    *)
(* manifest that asked for it, or from one of its own, or from before a     *)
(* test card.  Once it is rolled back, and unless the operator asks anew,   *)
(* it stays noted as failed, is what the server asks for, and is refused,   *)
(* until the note is lost to one of those manifests or to a power cut.      *)
GaveUpInv ==
  /\ reported \notin Dead /\ saver \notin Dead
  /\ registered => reported = running
  /\ (pending # None \/ pc = "removed") /\ saved.update = None => saver \in {current, None}
  /\ pc = "removed" => undone = current
  /\ gaveUp # None /\ pc \in Applying => Wanted \in {None, target}
  /\ gaveUp # None /\ target = gaveUp =>
       /\ forgot # "unknown"
       /\ forgot = "own" => gaveUp \notin Dead
       /\ saved.update = None => saver \in {gaveUp, None}
       /\ forgot = "no" =>
            IF pc = "switched" THEN undone = gaveUp ELSE failed = gaveUp /\ pc \notin Staging

(* The inductive invariant. *)
IInv == TypeOK /\ LinksInv /\ GuardedUnlessCut /\ CountInv /\ GaveUpInv

-----------------------------------------------------------------------------

(* The installed device has variables of the right types. *)
LEMMA InitTypeOK == Init => TypeOK
<1>. SUFFICES ASSUME Init PROVE TypeOK
  OBVIOUS
<1>. USE VersionsAssumption, BoundsAssumption DEF Init, MaybeVersion
<1>1. saved \in Manifests /\ base \in Manifests \cup {None}
  BY DEF Manifests
<1>2. pc \in Scripts \cup Alive
  BY DEF Scripts
<1>3. /\ testing \in 0..MaxTests /\ tests \in 0..MaxTests
      /\ offers \in 0..MaxOffers /\ crashes \in 0..MaxCrashes
      /\ cuts \in 0..MaxCuts
  OBVIOUS
<1>4. starts \in 0..MaxAttempts /\ pending \in 0..(MaxAttempts - 1) \cup {None}
  BY DEF MaxAttempts
<1>. QED
  BY <1>1, <1>2, <1>3, <1>4, Zenon DEF TypeOK

(* Every step of the server, the script and the agent keeps the types. *)
LEMMA NextTypeOK ==
  ASSUME TypeOK, LinksInv, [Next]_vars
  PROVE  TypeOK'
<1>. USE VersionsAssumption, BoundsAssumption DEF TypeOK, LinksInv, Staging, MaybeVersion, Manifests, Scripts, Alive, MaxAttempts
<1>1. ASSUME NEW v \in Versions, Rollout(v) PROVE TypeOK'
  BY <1>1 DEF Rollout, vars, disk, files, proc, server, hist, bounds
<1>2. CASE CancelRollout
  BY <1>2 DEF CancelRollout, Rollout, vars, disk, files, proc, server, hist, bounds
<1>3. CASE TestOn
  BY <1>3 DEF TestOn, vars, disk, files, proc, server, hist, bounds
<1>4. CASE TestOff
  BY <1>4 DEF TestOff, vars, disk, files, proc, server, hist, bounds
<1>5. CASE CheckNothing
  BY <1>5 DEF CheckNothing, vars, disk, files, proc, server, hist, bounds
<1>6. CASE CheckCount
  BY <1>6 DEF CheckCount, vars, disk, files, proc, server, hist, bounds
<1>7. CASE CheckGiveUp
  BY <1>7 DEF CheckGiveUp, vars, disk, files, proc, server, hist, bounds
<1>8. CASE NothingToRollBackTo
  BY <1>8 DEF NothingToRollBackTo, vars, disk, files, proc, server, hist, bounds
<1>9. CASE SwitchBack
  BY <1>9 DEF SwitchBack, vars, disk, files, proc, server, hist, bounds
<1>10. CASE RecordFailed
  BY <1>10 DEF RecordFailed, vars, disk, files, proc, server, hist, bounds
<1>11. CASE Exec
  <2>1. saved' \in Manifests /\ base' \in Manifests \cup {None}
    BY <1>11 DEF Exec, RestoreBase, files
  <2>2. failed' \in MaybeVersion
    BY <1>11 DEF Exec, RestoreBase, FailedAfter
  <2>3. starts' \in 0..MaxAttempts
    BY <1>11 DEF Exec
  <2>4. pc' \in Scripts \cup Alive
    BY <1>11 DEF Exec
  <2>5. forgot' \in {"no", "own", "test", "cut", "unknown"} /\ saver' \in MaybeVersion
    BY <1>11 DEF Exec, RestoreBase, ForgotAfter
  <2>. QED
    BY <1>11, <2>1, <2>2, <2>3, <2>4, <2>5 DEF Exec, server, bounds
<1>12. CASE ExecFails
  BY <1>12 DEF ExecFails, vars, disk, files, proc, server, hist, bounds
<1>13. CASE Register
  BY <1>13 DEF Register, vars, disk, files, proc, server, hist, bounds, Reaches
<1>14. CASE Poll
  BY <1>14 DEF Poll, vars, disk, files, proc, server, hist, bounds, Reaches, ServerManifest, FailedAfter, ForgotAfter
<1>15. CASE Heartbeat
  BY <1>15 DEF Heartbeat, vars, disk, files, proc, server, hist, bounds, Reaches, Kept
<1>16. CASE RegisterUnanswered
  BY <1>16 DEF RegisterUnanswered, vars, disk, files, proc, server, hist, bounds, Reaches
<1>17. CASE ExpireTest
  BY <1>17 DEF ExpireTest, RestoreBase, vars, disk, files, proc, server, hist, bounds, FailedAfter, ForgotAfter, Over
<1>18. CASE NothingToApply
  BY <1>18 DEF NothingToApply, vars, disk, files, proc, server, hist, bounds, Wanted
<1>19. CASE RefuseRolledBack
  BY <1>19 DEF RefuseRolledBack, vars, disk, files, proc, server, hist, bounds, Wanted
<1>20. CASE NotDueYet
  BY <1>20 DEF NotDueYet, vars, disk, files, proc, server, hist, bounds, Wanted
<1>21. CASE StageRemove
  BY <1>21 DEF StageRemove, vars, disk, files, proc, server, hist, bounds, Wanted
<1>22. CASE StageRename
  BY <1>22 DEF StageRename, vars, disk, files, proc, server, hist, bounds, Wanted
<1>23. CASE MarkPending
  BY <1>23 DEF MarkPending, vars, disk, files, proc, server, hist, bounds
<1>32. CASE ForgetFailed
  BY <1>32 DEF ForgetFailed, vars, disk, files, proc, server, hist, bounds
<1>24. CASE LinkPrevious
  BY <1>24 DEF LinkPrevious, vars, disk, files, proc, server, hist, bounds
<1>25. CASE LinkCurrent
  BY <1>25 DEF LinkCurrent, vars, disk, files, proc, server, hist, bounds, Wanted
<1>26. CASE ApplyFails
  BY <1>26 DEF ApplyFails, vars, disk, files, proc, server, hist, bounds, Wanted
<1>27. CASE ExitForUpdate
  BY <1>27 DEF ExitForUpdate, vars, disk, files, proc, server, hist, bounds
<1>28. CASE DeadDies
  BY <1>28 DEF DeadDies, vars, disk, files, proc, server, hist, bounds
<1>29. CASE Crash
  BY <1>29 DEF Crash, vars, disk, files, proc, server, hist, bounds
<1>30. CASE PowerCut
  BY <1>30 DEF PowerCut, vars, disk, files, proc, server, hist, bounds
<1>31. CASE UNCHANGED vars
  BY <1>31 DEF vars, disk, files, proc, server, hist, bounds
<1>. QED
  BY <1>1, <1>2, <1>3, <1>4, <1>5, <1>6, <1>7, <1>8, <1>9, <1>10, <1>11, <1>12, <1>13, <1>14, <1>15, <1>16, <1>17, <1>18, <1>19, <1>20, <1>21, <1>22, <1>23, <1>24, <1>25, <1>26, <1>27, <1>28, <1>29, <1>30, <1>31, <1>32
  DEF Next, Operator, RollbackCheck, ApplyUpdate

(* Every step keeps the links, the markers and the program counter together. *)
LEMMA NextLinksInv ==
  ASSUME TypeOK, LinksInv, [Next]_vars
  PROVE  LinksInv'
<1>. USE VersionsAssumption, BoundsAssumption DEF TypeOK, MaybeVersion, Scripts, Alive, MaxAttempts, LinksInv, RollbackTargetWorks, Applying, Staging, Wanted
<1>1. ASSUME NEW v \in Versions, Rollout(v) PROVE LinksInv'
  BY <1>1 DEF Rollout, vars, disk, files, proc, server, hist, bounds
<1>2. CASE CancelRollout
  BY <1>2 DEF CancelRollout, Rollout, vars, disk, files, proc, server, hist, bounds
<1>3. CASE TestOn
  BY <1>3 DEF TestOn, vars, disk, files, proc, server, hist, bounds
<1>4. CASE TestOff
  BY <1>4 DEF TestOff, vars, disk, files, proc, server, hist, bounds
<1>5. CASE CheckNothing
  BY <1>5 DEF CheckNothing, vars, disk, files, proc, server, hist, bounds
<1>6. CASE CheckCount
  BY <1>6 DEF CheckCount, vars, disk, files, proc, server, hist, bounds
<1>7. CASE CheckGiveUp
  BY <1>7 DEF CheckGiveUp, vars, disk, files, proc, server, hist, bounds
<1>8. CASE NothingToRollBackTo
  BY <1>8 DEF NothingToRollBackTo, vars, disk, files, proc, server, hist, bounds
<1>9. CASE SwitchBack
  BY <1>9 DEF SwitchBack, vars, disk, files, proc, server, hist, bounds
<1>10. CASE RecordFailed
  BY <1>10 DEF RecordFailed, vars, disk, files, proc, server, hist, bounds
<1>11. CASE Exec
  BY <1>11 DEF Exec, RestoreBase, vars, disk, files, proc, server, hist, bounds
<1>12. CASE ExecFails
  BY <1>12 DEF ExecFails, vars, disk, files, proc, server, hist, bounds
<1>13. CASE Register
  BY <1>13 DEF Register, vars, disk, files, proc, server, hist, bounds, Reaches
<1>14. CASE Poll
  BY <1>14 DEF Poll, vars, disk, files, proc, server, hist, bounds, Reaches
<1>15. CASE Heartbeat
  BY <1>15 DEF Heartbeat, vars, disk, files, proc, server, hist, bounds, Reaches
<1>16. CASE RegisterUnanswered
  BY <1>16 DEF RegisterUnanswered, vars, disk, files, proc, server, hist, bounds, Reaches
<1>17. CASE ExpireTest
  BY <1>17 DEF ExpireTest, RestoreBase, vars, disk, files, proc, server, hist, bounds
<1>18. CASE NothingToApply
  BY <1>18 DEF NothingToApply, vars, disk, files, proc, server, hist, bounds
<1>19. CASE RefuseRolledBack
  BY <1>19 DEF RefuseRolledBack, vars, disk, files, proc, server, hist, bounds
<1>20. CASE NotDueYet
  BY <1>20 DEF NotDueYet, vars, disk, files, proc, server, hist, bounds
<1>21. CASE StageRemove
  BY <1>21 DEF StageRemove, vars, disk, files, proc, server, hist, bounds
<1>22. CASE StageRename
  BY <1>22 DEF StageRename, vars, disk, files, proc, server, hist, bounds
<1>23. CASE MarkPending
  BY <1>23 DEF MarkPending, vars, disk, files, proc, server, hist, bounds
<1>32. CASE ForgetFailed
  BY <1>32 DEF ForgetFailed, vars, disk, files, proc, server, hist, bounds
<1>24. CASE LinkPrevious
  BY <1>24 DEF LinkPrevious, vars, disk, files, proc, server, hist, bounds
<1>25. CASE LinkCurrent
  BY <1>25 DEF LinkCurrent, vars, disk, files, proc, server, hist, bounds
<1>26. CASE ApplyFails
  BY <1>26 DEF ApplyFails, vars, disk, files, proc, server, hist, bounds
<1>27. CASE ExitForUpdate
  BY <1>27 DEF ExitForUpdate, vars, disk, files, proc, server, hist, bounds
<1>28. CASE DeadDies
  BY <1>28 DEF DeadDies, vars, disk, files, proc, server, hist, bounds
<1>29. CASE Crash
  BY <1>29 DEF Crash, vars, disk, files, proc, server, hist, bounds
<1>30. CASE PowerCut
  BY <1>30 DEF PowerCut, vars, disk, files, proc, server, hist, bounds
<1>31. CASE UNCHANGED vars
  BY <1>31 DEF vars, disk, files, proc, server, hist, bounds
<1>. QED
  BY <1>1, <1>2, <1>3, <1>4, <1>5, <1>6, <1>7, <1>8, <1>9, <1>10, <1>11, <1>12, <1>13, <1>14, <1>15, <1>16, <1>17, <1>18, <1>19, <1>20, <1>21, <1>22, <1>23, <1>24, <1>25, <1>26, <1>27, <1>28, <1>29, <1>30, <1>31, <1>32
  DEF Next, Operator, RollbackCheck, ApplyUpdate

(* The count: what a start adds to the file bounds what it adds to starts. *)
LEMMA NextCountInv ==
  ASSUME TypeOK, LinksInv, CountInv, [Next]_vars
  PROVE  CountInv'
<1>. USE VersionsAssumption, BoundsAssumption
     DEF TypeOK, LinksInv, CountInv, MaybeVersion, Scripts, Alive, MaxAttempts
<1>1. ASSUME NEW v \in Versions, Rollout(v) PROVE CountInv'
  BY <1>1 DEF Rollout, vars, disk, files, proc, server, hist, bounds
<1>2. CASE CancelRollout
  BY <1>2 DEF CancelRollout, Rollout, vars, disk, files, proc, server, hist, bounds
<1>3. CASE TestOn
  BY <1>3 DEF TestOn, vars, disk, files, proc, server, hist, bounds
<1>4. CASE TestOff
  BY <1>4 DEF TestOff, vars, disk, files, proc, server, hist, bounds
<1>5. CASE CheckNothing
  BY <1>5 DEF CheckNothing, vars, disk, files, proc, server, hist, bounds
<1>6. CASE CheckCount
  BY <1>6 DEF CheckCount, vars, disk, files, proc, server, hist, bounds
<1>7. CASE CheckGiveUp
  BY <1>7 DEF CheckGiveUp, vars, disk, files, proc, server, hist, bounds
<1>8. CASE NothingToRollBackTo
  BY <1>8 DEF NothingToRollBackTo, vars, disk, files, proc, server, hist, bounds
<1>9. CASE SwitchBack
  BY <1>9 DEF SwitchBack, vars, disk, files, proc, server, hist, bounds
<1>10. CASE RecordFailed
  BY <1>10 DEF RecordFailed, vars, disk, files, proc, server, hist, bounds
<1>11. CASE Exec
  BY <1>11 DEF Exec, RestoreBase, vars, disk, files, proc, server, hist, bounds
<1>12. CASE ExecFails
  BY <1>12 DEF ExecFails, vars, disk, files, proc, server, hist, bounds
<1>13. CASE Register
  BY <1>13 DEF Register, vars, disk, files, proc, server, hist, bounds, Reaches
<1>14. CASE Poll
  BY <1>14 DEF Poll, vars, disk, files, proc, server, hist, bounds, Reaches
<1>15. CASE Heartbeat
  BY <1>15 DEF Heartbeat, vars, disk, files, proc, server, hist, bounds, Reaches
<1>16. CASE RegisterUnanswered
  BY <1>16 DEF RegisterUnanswered, vars, disk, files, proc, server, hist, bounds, Reaches
<1>17. CASE ExpireTest
  BY <1>17 DEF ExpireTest, RestoreBase, vars, disk, files, proc, server, hist, bounds
<1>18. CASE NothingToApply
  BY <1>18 DEF NothingToApply, vars, disk, files, proc, server, hist, bounds
<1>19. CASE RefuseRolledBack
  BY <1>19 DEF RefuseRolledBack, vars, disk, files, proc, server, hist, bounds
<1>20. CASE NotDueYet
  BY <1>20 DEF NotDueYet, vars, disk, files, proc, server, hist, bounds
<1>21. CASE StageRemove
  BY <1>21 DEF StageRemove, vars, disk, files, proc, server, hist, bounds
<1>22. CASE StageRename
  BY <1>22 DEF StageRename, vars, disk, files, proc, server, hist, bounds
<1>23. CASE MarkPending
  BY <1>23 DEF MarkPending, vars, disk, files, proc, server, hist, bounds
<1>32. CASE ForgetFailed
  BY <1>32 DEF ForgetFailed, vars, disk, files, proc, server, hist, bounds
<1>24. CASE LinkPrevious
  BY <1>24 DEF LinkPrevious, vars, disk, files, proc, server, hist, bounds
<1>25. CASE LinkCurrent
  BY <1>25 DEF LinkCurrent, vars, disk, files, proc, server, hist, bounds
<1>26. CASE ApplyFails
  BY <1>26 DEF ApplyFails, vars, disk, files, proc, server, hist, bounds
<1>27. CASE ExitForUpdate
  BY <1>27 DEF ExitForUpdate, vars, disk, files, proc, server, hist, bounds
<1>28. CASE DeadDies
  BY <1>28 DEF DeadDies, vars, disk, files, proc, server, hist, bounds
<1>29. CASE Crash
  BY <1>29 DEF Crash, vars, disk, files, proc, server, hist, bounds
<1>30. CASE PowerCut
  BY <1>30 DEF PowerCut, vars, disk, files, proc, server, hist, bounds
<1>31. CASE UNCHANGED vars
  BY <1>31 DEF vars, disk, files, proc, server, hist, bounds
<1>. QED
  BY <1>1, <1>2, <1>3, <1>4, <1>5, <1>6, <1>7, <1>8, <1>9, <1>10, <1>11, <1>12, <1>13, <1>14, <1>15, <1>16, <1>17, <1>18, <1>19, <1>20, <1>21, <1>22, <1>23, <1>24, <1>25, <1>26, <1>27, <1>28, <1>29, <1>30, <1>31, <1>32
  DEF Next, Operator, RollbackCheck, ApplyUpdate

(* Every step keeps the memory of a version that was given up. *)
LEMMA NextGaveUpInv ==
  ASSUME TypeOK, LinksInv, GaveUpInv, [Next]_vars
  PROVE  GaveUpInv'
<1>. USE VersionsAssumption, BoundsAssumption
     DEF TypeOK, LinksInv, RollbackTargetWorks, GaveUpInv, Applying, Staging, Wanted,
         MaybeVersion, Manifests, Scripts, Alive, MaxAttempts
<1>1. ASSUME NEW v \in Versions, Rollout(v) PROVE GaveUpInv'
  BY <1>1 DEF Rollout, vars, disk, files, proc, server, hist, bounds
<1>2. CASE CancelRollout
  BY <1>2 DEF CancelRollout, Rollout, vars, disk, files, proc, server, hist, bounds
<1>3. CASE TestOn
  BY <1>3 DEF TestOn, vars, disk, files, proc, server, hist, bounds
<1>4. CASE TestOff
  BY <1>4 DEF TestOff, vars, disk, files, proc, server, hist, bounds
<1>5. CASE CheckNothing
  BY <1>5 DEF CheckNothing, vars, disk, files, proc, server, hist, bounds
<1>6. CASE CheckCount
  BY <1>6 DEF CheckCount, vars, disk, files, proc, server, hist, bounds
<1>7. CASE CheckGiveUp
  BY <1>7 DEF CheckGiveUp, vars, disk, files, proc, server, hist, bounds
<1>8. CASE NothingToRollBackTo
  BY <1>8 DEF NothingToRollBackTo, vars, disk, files, proc, server, hist, bounds
<1>9. CASE SwitchBack
  BY <1>9 DEF SwitchBack, vars, disk, files, proc, server, hist, bounds
<1>10. CASE RecordFailed
  BY <1>10 DEF RecordFailed, vars, disk, files, proc, server, hist, bounds
<1>11. CASE Exec
  BY <1>11 DEF Exec, RestoreBase, vars, disk, files, proc, server, hist, bounds, Over, FailedAfter, ForgotAfter
<1>12. CASE ExecFails
  BY <1>12 DEF ExecFails, vars, disk, files, proc, server, hist, bounds
<1>13. CASE Register
  BY <1>13 DEF Register, vars, disk, files, proc, server, hist, bounds, Reaches
<1>14. CASE Poll
  BY <1>14 DEF Poll, vars, disk, files, proc, server, hist, bounds, Reaches, ServerManifest, FailedAfter, ForgotAfter
<1>15. CASE Heartbeat
  BY <1>15 DEF Heartbeat, vars, disk, files, proc, server, hist, bounds, Reaches
<1>16. CASE RegisterUnanswered
  BY <1>16 DEF RegisterUnanswered, vars, disk, files, proc, server, hist, bounds, Reaches
<1>17. CASE ExpireTest
  BY <1>17 DEF ExpireTest, RestoreBase, vars, disk, files, proc, server, hist, bounds, Over, FailedAfter, ForgotAfter
<1>18. CASE NothingToApply
  BY <1>18 DEF NothingToApply, vars, disk, files, proc, server, hist, bounds
<1>19. CASE RefuseRolledBack
  BY <1>19 DEF RefuseRolledBack, vars, disk, files, proc, server, hist, bounds
<1>20. CASE NotDueYet
  BY <1>20 DEF NotDueYet, vars, disk, files, proc, server, hist, bounds
<1>21. CASE StageRemove
  BY <1>21 DEF StageRemove, vars, disk, files, proc, server, hist, bounds
<1>22. CASE StageRename
  BY <1>22 DEF StageRename, vars, disk, files, proc, server, hist, bounds
<1>23. CASE MarkPending
  BY <1>23 DEF MarkPending, vars, disk, files, proc, server, hist, bounds
<1>32. CASE ForgetFailed
  BY <1>32 DEF ForgetFailed, vars, disk, files, proc, server, hist, bounds
<1>24. CASE LinkPrevious
  BY <1>24 DEF LinkPrevious, vars, disk, files, proc, server, hist, bounds
<1>25. CASE LinkCurrent
  BY <1>25 DEF LinkCurrent, vars, disk, files, proc, server, hist, bounds
<1>26. CASE ApplyFails
  BY <1>26 DEF ApplyFails, vars, disk, files, proc, server, hist, bounds
<1>27. CASE ExitForUpdate
  BY <1>27 DEF ExitForUpdate, vars, disk, files, proc, server, hist, bounds
<1>28. CASE DeadDies
  BY <1>28 DEF DeadDies, vars, disk, files, proc, server, hist, bounds
<1>29. CASE Crash
  BY <1>29 DEF Crash, vars, disk, files, proc, server, hist, bounds
<1>30. CASE PowerCut
  BY <1>30 DEF PowerCut, vars, disk, files, proc, server, hist, bounds
<1>31. CASE UNCHANGED vars
  BY <1>31 DEF vars, disk, files, proc, server, hist, bounds
<1>. QED
  BY <1>1, <1>2, <1>3, <1>4, <1>5, <1>6, <1>7, <1>8, <1>9, <1>10, <1>11, <1>12, <1>13, <1>14, <1>15, <1>16, <1>17, <1>18, <1>19, <1>20, <1>21, <1>22, <1>23, <1>24, <1>25, <1>26, <1>27, <1>28, <1>29, <1>30, <1>31, <1>32
  DEF Next, Operator, RollbackCheck, ApplyUpdate

(* A step that is not a power cut between rm and mv keeps the guard. *)
LEMMA StepKeepsGuard ==
  ASSUME TypeOK, LinksInv, Guarded, [Next]_vars, ~(PowerCut /\ pc = "removed")
  PROVE  Guarded'
<1>. USE VersionsAssumption, BoundsAssumption
     DEF TypeOK, LinksInv, RollbackTargetWorks, Applying, Staging, Guarded, MaybeVersion,
         Scripts, Alive, MaxAttempts
<1>1. ASSUME NEW v \in Versions, Rollout(v) PROVE Guarded'
  BY <1>1 DEF Rollout, vars, disk, files, proc, server, hist, bounds
<1>2. CASE CancelRollout
  BY <1>2 DEF CancelRollout, Rollout, vars, disk, files, proc, server, hist, bounds
<1>3. CASE TestOn
  BY <1>3 DEF TestOn, vars, disk, files, proc, server, hist, bounds
<1>4. CASE TestOff
  BY <1>4 DEF TestOff, vars, disk, files, proc, server, hist, bounds
<1>5. CASE CheckNothing
  BY <1>5 DEF CheckNothing, vars, disk, files, proc, server, hist, bounds
<1>6. CASE CheckCount
  BY <1>6 DEF CheckCount, vars, disk, files, proc, server, hist, bounds
<1>7. CASE CheckGiveUp
  BY <1>7 DEF CheckGiveUp, vars, disk, files, proc, server, hist, bounds
<1>8. CASE NothingToRollBackTo
  BY <1>8 DEF NothingToRollBackTo, vars, disk, files, proc, server, hist, bounds
<1>9. CASE SwitchBack
  BY <1>9 DEF SwitchBack, vars, disk, files, proc, server, hist, bounds
<1>10. CASE RecordFailed
  BY <1>10 DEF RecordFailed, vars, disk, files, proc, server, hist, bounds
<1>11. CASE Exec
  BY <1>11 DEF Exec, RestoreBase, vars, disk, files, proc, server, hist, bounds
<1>12. CASE ExecFails
  BY <1>12 DEF ExecFails, vars, disk, files, proc, server, hist, bounds
<1>13. CASE Register
  BY <1>13 DEF Register, vars, disk, files, proc, server, hist, bounds, Reaches
<1>14. CASE Poll
  BY <1>14 DEF Poll, vars, disk, files, proc, server, hist, bounds, Reaches
<1>15. CASE Heartbeat
  BY <1>15 DEF Heartbeat, vars, disk, files, proc, server, hist, bounds, Reaches
<1>16. CASE RegisterUnanswered
  BY <1>16 DEF RegisterUnanswered, vars, disk, files, proc, server, hist, bounds, Reaches
<1>17. CASE ExpireTest
  BY <1>17 DEF ExpireTest, RestoreBase, vars, disk, files, proc, server, hist, bounds
<1>18. CASE NothingToApply
  BY <1>18 DEF NothingToApply, vars, disk, files, proc, server, hist, bounds
<1>19. CASE RefuseRolledBack
  BY <1>19 DEF RefuseRolledBack, vars, disk, files, proc, server, hist, bounds
<1>20. CASE NotDueYet
  BY <1>20 DEF NotDueYet, vars, disk, files, proc, server, hist, bounds
<1>21. CASE StageRemove
  BY <1>21 DEF StageRemove, vars, disk, files, proc, server, hist, bounds
<1>22. CASE StageRename
  BY <1>22 DEF StageRename, vars, disk, files, proc, server, hist, bounds
<1>23. CASE MarkPending
  BY <1>23 DEF MarkPending, vars, disk, files, proc, server, hist, bounds
<1>32. CASE ForgetFailed
  BY <1>32 DEF ForgetFailed, vars, disk, files, proc, server, hist, bounds
<1>24. CASE LinkPrevious
  BY <1>24 DEF LinkPrevious, vars, disk, files, proc, server, hist, bounds
<1>25. CASE LinkCurrent
  BY <1>25 DEF LinkCurrent, vars, disk, files, proc, server, hist, bounds
<1>26. CASE ApplyFails
  BY <1>26 DEF ApplyFails, vars, disk, files, proc, server, hist, bounds
<1>27. CASE ExitForUpdate
  BY <1>27 DEF ExitForUpdate, vars, disk, files, proc, server, hist, bounds
<1>28. CASE DeadDies
  BY <1>28 DEF DeadDies, vars, disk, files, proc, server, hist, bounds
<1>29. CASE Crash
  BY <1>29 DEF Crash, vars, disk, files, proc, server, hist, bounds
<1>30. CASE PowerCut
  BY <1>30 DEF PowerCut, vars, disk, files, proc, server, hist, bounds
<1>31. CASE UNCHANGED vars
  BY <1>31 DEF vars, disk, files, proc, server, hist, bounds
<1>. QED
  BY <1>1, <1>2, <1>3, <1>4, <1>5, <1>6, <1>7, <1>8, <1>9, <1>10, <1>11, <1>12, <1>13, <1>14, <1>15, <1>16, <1>17, <1>18, <1>19, <1>20, <1>21, <1>22, <1>23, <1>24, <1>25, <1>26, <1>27, <1>28, <1>29, <1>30, <1>31, <1>32
  DEF Next, Operator, RollbackCheck, ApplyUpdate

-----------------------------------------------------------------------------

(* The installed device satisfies the inductive invariant. *)
LEMMA InitIInv == Init => IInv
<1>. SUFFICES ASSUME Init PROVE IInv
  OBVIOUS
<1>1. TypeOK
  BY InitTypeOK
<1>2. LinksInv
  BY VersionsAssumption DEF Init, LinksInv, RollbackTargetWorks, Alive, Applying, Staging
<1>3. GuardedUnlessCut
  BY VersionsAssumption DEF Init, GuardedUnlessCut, Guarded
<1>4. CountInv
  BY DEF Init, CountInv, MaxAttempts
<1>5. GaveUpInv
  BY VersionsAssumption DEF Init, GaveUpInv, Applying
<1>. QED
  BY <1>1, <1>2, <1>3, <1>4, <1>5 DEF IInv

(* Every step keeps the inductive invariant. *)
LEMMA NextIInv == IInv /\ [Next]_vars => IInv'
<1>. SUFFICES ASSUME IInv, [Next]_vars PROVE IInv'
  OBVIOUS
<1>1. TypeOK' /\ LinksInv' /\ CountInv' /\ GaveUpInv'
  BY NextTypeOK, NextLinksInv, NextCountInv, NextGaveUpInv DEF IInv
<1>2. cuts' = 0 => cuts = 0 /\ ~PowerCut
  <2>1. cuts \in Nat
    BY BoundsAssumption DEF IInv, TypeOK
  <2>2. cuts' = cuts \/ PowerCut
    BY DEF Next, Operator, RollbackCheck, ApplyUpdate, Rollout, CancelRollout, TestOn,
           TestOff, CheckNothing, CheckCount, CheckGiveUp, NothingToRollBackTo,
           SwitchBack, RecordFailed, Exec, ExecFails, Register, Poll, Heartbeat,
           RegisterUnanswered, ExpireTest, NothingToApply, RefuseRolledBack,
           NotDueYet, StageRemove, StageRename, MarkPending, ForgetFailed, LinkPrevious,
           LinkCurrent, ApplyFails, ExitForUpdate, DeadDies, Crash, vars, bounds
  <2>. QED
    BY <2>1, <2>2 DEF PowerCut
<1>3. GuardedUnlessCut'
  BY <1>2, StepKeepsGuard DEF IInv, GuardedUnlessCut
<1>. QED
  BY <1>1, <1>3 DEF IInv

(* The inductive invariant holds throughout: types, links, guard and count. *)
THEOREM Invariance == Safe => []IInv
<1>. QED
  BY InitIInv, NextIInv, PTL DEF Safe

(* TypeOK: the variables keep their types. *)
THEOREM TypeCorrect == Safe => []TypeOK
<1>1. IInv => TypeOK
  BY DEF IInv
<1>. QED
  BY <1>1, Invariance, PTL

(* GuardedUnlessCut: as long as the power stays on, a version that cannot   *)
(* reach the server is current only with its rollback to come.              *)
THEOREM GuardedWhilePowered == Safe => []GuardedUnlessCut
<1>1. IInv => GuardedUnlessCut
  BY DEF IInv
<1>. QED
  BY <1>1, Invariance, PTL

(* RollbackTargetWorks: previous never names a dead version. *)
THEOREM RollbackTarget == Safe => []RollbackTargetWorks
<1>1. IInv => RollbackTargetWorks
  BY DEF IInv, LinksInv
<1>. QED
  BY <1>1, Invariance, PTL

(* TwoStartsUnlessCut: as long as the power stays on, an unverified version *)
(* is started at most twice before it is rolled back.                       *)
THEOREM TwoStarts == Safe => []TwoStartsUnlessCut
<1>1. IInv => TwoStartsUnlessCut
  BY DEF IInv, CountInv, TwoStartsUnlessCut
<1>. QED
  BY <1>1, Invariance, PTL

(* GuardLostOnlyInRollback: power cuts or not, the one step that loses the  *)
(* guard is a power cut between rollback-check.sh:22 and :25.               *)
THEOREM OneWindow == Safe => GuardLostOnlyInRollback
<1>1. IInv /\ [Next]_vars
        => [Guarded /\ ~Guarded' => PowerCut /\ pc = "removed"]_vars
  BY StepKeepsGuard DEF IInv
<1>. QED
  BY <1>1, Invariance, PTL DEF Safe, GuardLostOnlyInRollback

(* No step but the rollback to a version whose directory was being replaced *)
(* takes away the directory the service starts from.                        *)
LEMMA StepKeepsDirectory ==
  ASSUME IInv, [Next]_vars, current \in versions, current' \notin versions'
  PROVE  SwitchBack /\ previous \notin versions
<1>. USE VersionsAssumption, BoundsAssumption
     DEF IInv, TypeOK, LinksInv, Applying, Staging, Wanted, MaybeVersion, Scripts, Alive
<1>1. ASSUME NEW v \in Versions, Rollout(v) PROVE FALSE
  BY <1>1 DEF Rollout, vars, disk, files, proc, server, hist, bounds
<1>2. CASE CancelRollout
  BY <1>2 DEF CancelRollout, Rollout, vars, disk, files, proc, server, hist, bounds
<1>3. CASE TestOn
  BY <1>3 DEF TestOn, vars, disk, files, proc, server, hist, bounds
<1>4. CASE TestOff
  BY <1>4 DEF TestOff, vars, disk, files, proc, server, hist, bounds
<1>5. CASE CheckNothing
  BY <1>5 DEF CheckNothing, vars, disk, files, proc, server, hist, bounds
<1>6. CASE CheckCount
  BY <1>6 DEF CheckCount, vars, disk, files, proc, server, hist, bounds
<1>7. CASE CheckGiveUp
  BY <1>7 DEF CheckGiveUp, vars, disk, files, proc, server, hist, bounds
<1>8. CASE NothingToRollBackTo
  BY <1>8 DEF NothingToRollBackTo, vars, disk, files, proc, server, hist, bounds
<1>9. CASE SwitchBack
  BY <1>9 DEF SwitchBack, vars, disk, files, proc, server, hist, bounds
<1>10. CASE RecordFailed
  BY <1>10 DEF RecordFailed, vars, disk, files, proc, server, hist, bounds
<1>11. CASE Exec
  BY <1>11 DEF Exec, RestoreBase, vars, disk, files, proc, server, hist, bounds
<1>12. CASE ExecFails
  BY <1>12 DEF ExecFails, vars, disk, files, proc, server, hist, bounds
<1>13. CASE Register
  BY <1>13 DEF Register, vars, disk, files, proc, server, hist, bounds, Reaches
<1>14. CASE Poll
  BY <1>14 DEF Poll, vars, disk, files, proc, server, hist, bounds, Reaches
<1>15. CASE Heartbeat
  BY <1>15 DEF Heartbeat, vars, disk, files, proc, server, hist, bounds, Reaches, Kept
<1>16. CASE RegisterUnanswered
  BY <1>16 DEF RegisterUnanswered, vars, disk, files, proc, server, hist, bounds, Reaches
<1>17. CASE ExpireTest
  BY <1>17 DEF ExpireTest, RestoreBase, vars, disk, files, proc, server, hist, bounds
<1>18. CASE NothingToApply
  BY <1>18 DEF NothingToApply, vars, disk, files, proc, server, hist, bounds
<1>19. CASE RefuseRolledBack
  BY <1>19 DEF RefuseRolledBack, vars, disk, files, proc, server, hist, bounds
<1>20. CASE NotDueYet
  BY <1>20 DEF NotDueYet, vars, disk, files, proc, server, hist, bounds
<1>21. CASE StageRemove
  BY <1>21 DEF StageRemove, vars, disk, files, proc, server, hist, bounds
<1>22. CASE StageRename
  BY <1>22 DEF StageRename, vars, disk, files, proc, server, hist, bounds
<1>23. CASE MarkPending
  BY <1>23 DEF MarkPending, vars, disk, files, proc, server, hist, bounds
<1>32. CASE ForgetFailed
  BY <1>32 DEF ForgetFailed, vars, disk, files, proc, server, hist, bounds
<1>24. CASE LinkPrevious
  BY <1>24 DEF LinkPrevious, vars, disk, files, proc, server, hist, bounds
<1>25. CASE LinkCurrent
  BY <1>25 DEF LinkCurrent, vars, disk, files, proc, server, hist, bounds
<1>26. CASE ApplyFails
  BY <1>26 DEF ApplyFails, vars, disk, files, proc, server, hist, bounds
<1>27. CASE ExitForUpdate
  BY <1>27 DEF ExitForUpdate, vars, disk, files, proc, server, hist, bounds
<1>28. CASE DeadDies
  BY <1>28 DEF DeadDies, vars, disk, files, proc, server, hist, bounds
<1>29. CASE Crash
  BY <1>29 DEF Crash, vars, disk, files, proc, server, hist, bounds
<1>30. CASE PowerCut
  BY <1>30 DEF PowerCut, vars, disk, files, proc, server, hist, bounds
<1>31. CASE UNCHANGED vars
  BY <1>31 DEF vars, disk, files, proc, server, hist, bounds
<1>. QED
  BY <1>1, <1>2, <1>3, <1>4, <1>5, <1>6, <1>7, <1>8, <1>9, <1>10, <1>11, <1>12, <1>13, <1>14, <1>15, <1>16, <1>17, <1>18, <1>19, <1>20, <1>21, <1>22, <1>23, <1>24, <1>25, <1>26, <1>27, <1>28, <1>29, <1>30, <1>31, <1>32
  DEF Next, Operator, RollbackCheck, ApplyUpdate

(* DirectoryLostOnlyByRollback: the directory to start from is lost in one  *)
(* way only, whatever the deaths and the power cuts.                        *)
THEOREM OneLostDirectory == Safe => DirectoryLostOnlyByRollback
<1>1. IInv /\ [Next]_vars
        => [(current \in versions /\ current' \notin versions')
              => SwitchBack /\ previous \notin versions]_vars
  BY StepKeepsDirectory
<1>. QED
  BY <1>1, Invariance, PTL DEF Safe, DirectoryLostOnlyByRollback

(* RetryOnlyInKnownCases: a version that was rolled back is switched to     *)
(* again only after the device has lost the note of it, to a power cut      *)
(* between the switch back and the note, to a manifest from before a test   *)
(* card, or to one the version itself had saved (agent/update.go,           *)
(* setUpdate and applyPendingUpdate; rollback-check.sh).                    *)
THEOREM RefusedForGood == Safe => RetryOnlyInKnownCases
<1>1. IInv /\ [Next]_vars
        => [LinkCurrent /\ Wanted = gaveUp =>
              forgot \in {"cut", "test"} \/ (forgot = "own" /\ Wanted \notin Dead)]_vars
  <2>. SUFFICES ASSUME IInv, LinkCurrent, Wanted = gaveUp
                PROVE  forgot \in {"cut", "test"} \/ (forgot = "own" /\ Wanted \notin Dead)
    OBVIOUS
  <2>. QED
    BY VersionsAssumption DEF IInv, TypeOK, LinksInv, GaveUpInv, LinkCurrent, Applying, Staging, Wanted
<1>. QED
  BY <1>1, Invariance, PTL DEF Safe, RetryOnlyInKnownCases
================================================================================
