----------------------------- MODULE PackagesProofs -----------------------------
(***************************************************************************)
(* What the server promises of packages and of the repository, whatever    *)
(* the number of devices, builds and uploads at once.                      *)
(*                                                                         *)
(* That a package can be installed is not inductive: a prune leaves only   *)
(* one file, and a restart goes back to the state on disk.  InPlace says   *)
(* what an upload has put where at each of its steps, as long as it is the *)
(* only one, and Named what the state on disk names, too.                  *)
(***************************************************************************)
EXTENDS Packages, TLAPS

Placing == {"renamed", "saved"}

(* What an upload that is past the check uploads.                          *)
Kinds ==
  \A u \in Uploads : /\ up[u].at \in Placing => up[u].what \in Builds
                     /\ up[u].at = "moved" => up[u].what \in Bundles

(* What an upload that is alone has put in place.                          *)
InPlace ==
  ~overlapped => \A u \in Uploads : up[u].at \in Placing =>
       /\ \A w \in Uploads : up[w].at \in Placing => w = u
       /\ files[VersionOf[up[u].what]] = up[u].what
       /\ up[u].at = "saved" => st.pkg = up[u].what /\ disk.pkg = up[u].what

(* The file a state names, in memory or on disk.                           *)
Named(s) ==
  s.pkg # None /\ files[VersionOf[s.pkg]] # s.pkg =>
    overlapped \/ cut \/ \E u \in Uploads : up[u].at = "renamed" /\ Replaces(u, s)

(* A repository that is away lies in the trash of an upload.               *)
InTrash ==
  promised /\ repo = None /\ ~gap => \E u \in Uploads : up[u].at = "moved" /\ up[u].trash # None

IInv == TypeOK /\ Kinds /\ TargetsFollowPackage /\ InPlace /\ Named(st) /\ Named(disk) /\ InTrash

--------------------------------------------------------------------------------
(* A state that is changed in memory is written, or not.                   *)
LEMMA Updated ==
  ASSUME TypeOK, NEW new \in State, Update(new)
  PROVE  /\ st' = new /\ disk' \in {new, disk}
         /\ st' \in State /\ disk' \in State /\ faults' \in 0 .. MaxFaults
  BY PackagesAssumption DEF Update, Fault, TypeOK

(* What becomes of a target is a target, of the version just uploaded.     *)
LEMMA RetargetType ==
  ASSUME NEW t \in Target \cup {None}, NEW agent, NEW v \in Versions
  PROVE  /\ Retarget(t, agent, v) \in Target \cup {None}
         /\ Retarget(t, agent, v) # None => Retarget(t, agent, v).version = v
<1>1. None \notin Target
  BY TargetAssumption
<1>2. t # None => [t EXCEPT !.version = v] \in Target /\ [t EXCEPT !.version = v].version = v
  BY DEF Target
<1>. QED
  BY <1>1, <1>2 DEF Retarget

(* The state with another package is a state.                              *)
LEMMA ReplacedType ==
  ASSUME TypeOK, NEW build \in Builds
  PROVE  /\ Replaced(build) \in State /\ Replaced(build).pkg = build
         /\ TargetsFollow(Replaced(build))
<1>. DEFINE v == VersionOf[build]
            t == [d \in Devices |-> Retarget(st.target[d], st.agent[d], v)]
<1>1. v \in Versions
  BY PackagesAssumption
<1>2. ASSUME NEW d \in Devices
      PROVE  /\ t[d] \in Target \cup {None}
             /\ t[d] # None => t[d].version = v
  <2>1. st.target[d] \in Target \cup {None}
    BY DEF TypeOK, State
  <2>. QED
    BY <1>1, <2>1, RetargetType
<1>3. t \in [Devices -> Target \cup {None}]
  BY <1>2
<1>4. Replaced(build) = [st EXCEPT !.pkg = build, !.target = t]
  BY Zenon DEF Replaced
<1>5. st \in State
  BY DEF TypeOK
<1>. HIDE DEF t
<1>6. /\ Replaced(build) \in State /\ Replaced(build).pkg = build
      /\ Replaced(build).target = t
  BY <1>3, <1>4, <1>5 DEF State
<1>7. build # None
  BY PackagesAssumption
<1>8. TargetsFollow(Replaced(build))
  BY <1>2, <1>6, <1>7 DEF TargetsFollow
<1>. QED
  BY <1>6, <1>8

(* An upload moves on.                                                     *)
LEMMA Moves ==
  ASSUME TypeOK, NEW u \in Uploads
  PROVE  /\ [up EXCEPT ![u] = NoUpload] \in [Uploads -> Upload]
         /\ \A x \in Builds \cup Bundles :
              [up EXCEPT ![u] = [NoUpload EXCEPT !.at = "unpacked", !.what = x]] \in [Uploads -> Upload]
         /\ \A at \in At : [up EXCEPT ![u].at = at] \in [Uploads -> Upload]
         /\ [up EXCEPT ![u].at = "moved", ![u].trash = repo] \in [Uploads -> Upload]
<1>1. up \in [Uploads -> Upload] /\ repo \in Bundles \cup {None}
  BY DEF TypeOK, Upload, At
<1>2. up[u] \in Upload /\ NoUpload \in Upload
  BY <1>1 DEF Upload, At, NoUpload
<1>3. ASSUME NEW x \in Builds \cup Bundles
      PROVE  [NoUpload EXCEPT !.at = "unpacked", !.what = x] \in Upload
  BY DEF Upload, At, NoUpload
<1>4. ASSUME NEW at \in At
      PROVE  [up[u] EXCEPT !.at = at] \in Upload
  BY <1>2 DEF Upload
<1>5. [up[u] EXCEPT !.at = "moved", !.trash = repo] \in Upload
  BY <1>1, <1>2 DEF Upload, At
<1>6. [up EXCEPT ![u].at = "moved", ![u].trash = repo]
        = [up EXCEPT ![u] = [up[u] EXCEPT !.at = "moved", !.trash = repo]]
  BY <1>1
<1>. QED
  BY <1>1, <1>2, <1>3, <1>4, <1>5, <1>6

(* What the steps make of the state is a state.                            *)
LEMMA Rolled ==
  ASSUME TypeOK, NEW t \in [Devices -> Target \cup {None}]
  PROVE  [st EXCEPT !.target = t] \in State
  BY DEF TypeOK, State

LEMMA Reported ==
  ASSUME TypeOK, NEW d \in Devices
  PROVE  [st EXCEPT !.agent[d] = runs[d]] \in State
<1>1. st \in State /\ runs[d] \in Versions
  BY DEF TypeOK
<1>2. [st.agent EXCEPT ![d] = runs[d]] \in [Devices -> Versions \cup {None}]
  BY <1>1 DEF State
<1>. QED
  BY <1>1, <1>2 DEF State

LEMMA Ordered == ASSUME TypeOK, Order PROVE orders' \in 0 .. MaxOrders
  BY PackagesAssumption DEF Order, TypeOK

LEMMA Faulted == ASSUME TypeOK, Fault PROVE faults' \in 0 .. MaxFaults
  BY PackagesAssumption DEF Fault, TypeOK

(* Every step keeps the types.                                             *)
LEMMA NextTypeOK == ASSUME TypeOK, Kinds, [Next]_vars PROVE TypeOK'
<1>. USE DEF TypeOK, Set, Done, ghosts
<1>1. ASSUME NEW u \in Uploads, NEW x \in Builds \cup Bundles, Receive(u, x) PROVE TypeOK'
  <2>1. orders' \in 0 .. MaxOrders
    BY <1>1, Ordered DEF Receive
  <2>2. up' \in [Uploads -> Upload]
    BY <1>1, Moves DEF Receive
  <2>. QED
    BY <1>1, <2>1, <2>2 DEF Receive
<1>2. ASSUME NEW u \in Uploads, Rename(u) PROVE TypeOK'
  <2>1. up' \in [Uploads -> Upload]
    BY <1>2, Moves DEF Rename, At
  <2>2. files' \in [Versions -> Builds \cup {None}] /\ overlapped' \in BOOLEAN
    BY <1>2 DEF Rename
  <2>. QED
    BY <1>2, <2>1, <2>2 DEF Rename
<1>3. ASSUME NEW u \in Uploads, Save(u) PROVE TypeOK'
  <2>1. up[u].what \in Builds
    BY <1>3 DEF Save, Kinds, Placing
  <2>2. st' \in State /\ disk' \in State /\ faults' \in 0 .. MaxFaults
    BY <1>3, <2>1, Updated, ReplacedType DEF Save
  <2>3. up' \in [Uploads -> Upload] /\ cut' \in BOOLEAN
    BY <1>3, Moves DEF Save, At
  <2>. QED
    BY <1>3, <2>2, <2>3 DEF Save
<1>4. ASSUME NEW u \in Uploads, Prune(u) PROVE TypeOK'
  <2>1. up' \in [Uploads -> Upload]
    BY <1>4, Moves DEF Prune
  <2>2. files' \in [Versions -> Builds \cup {None}]
    BY <1>4 DEF Prune, Kept
  <2>. QED
    BY <1>4, <2>1, <2>2 DEF Prune
<1>5. ASSUME NEW u \in Uploads, MoveOld(u) PROVE TypeOK'
  BY <1>5, Moves DEF MoveOld
<1>6. ASSUME NEW u \in Uploads, MoveNew(u) PROVE TypeOK'
  <2>1. up' \in [Uploads -> Upload]
    BY <1>6, Moves DEF MoveNew
  <2>2. up[u].trash \in Bundles \cup {None}
    BY DEF Upload
  <2>3. up[u].what \in Bundles
    BY <1>6 DEF MoveNew, Kinds
  <2>4. faults' \in 0 .. MaxFaults
    BY <1>6, Faulted DEF MoveNew
  <2>. QED
    BY <1>6, <2>1, <2>2, <2>3, <2>4 DEF MoveNew
<1>7. CASE DeleteDeps
  BY <1>7, Ordered DEF DeleteDeps
<1>8. ASSUME NEW ds \in SUBSET Devices, NEW at \in {0, 1}, Rollout(ds, at) PROVE TypeOK'
  <2>. DEFINE t == [d \in Devices |-> IF d \in ds
                      THEN [version |-> VersionOf[st.pkg], notBefore |-> at] ELSE st.target[d]]
  <2>1. VersionOf[st.pkg] \in Versions
    BY <1>8, PackagesAssumption DEF Rollout, State
  <2>2. t \in [Devices -> Target \cup {None}]
    BY <2>1 DEF Target, State
  <2>3. Update([st EXCEPT !.target = t])
    BY <1>8 DEF Rollout
  <2>. HIDE DEF t
  <2>4. st' \in State /\ disk' \in State /\ faults' \in 0 .. MaxFaults
    BY <2>2, <2>3, Rolled, Updated
  <2>. QED
    BY <1>8, <2>4, Ordered DEF Rollout
<1>9. CASE CancelRollout
  <2>1. Empty.target \in [Devices -> Target \cup {None}]
    BY DEF Empty
  <2>2. st' \in State /\ disk' \in State /\ faults' \in 0 .. MaxFaults
    BY <1>9, <2>1, Rolled, Updated DEF CancelRollout
  <2>. QED
    BY <1>9, <2>2, Ordered DEF CancelRollout
<1>10. ASSUME NEW d \in Devices, Install(d) PROVE TypeOK'
  <2>1. VersionOf[st.pkg] \in Versions
    BY <1>10, PackagesAssumption DEF Install, Pending, State
  <2>. QED
    BY <1>10, <2>1 DEF Install
<1>11. ASSUME NEW d \in Devices, Heartbeat(d) PROVE TypeOK'
  <2>1. st' \in State /\ disk' \in State /\ faults' \in 0 .. MaxFaults
    BY <1>11, Reported, Updated DEF Heartbeat
  <2>. QED
    BY <1>11, <2>1 DEF Heartbeat
<1>12. CASE TimeComes
  BY <1>12 DEF TimeComes
<1>13. CASE Restart
  <2>1. up' \in [Uploads -> Upload]
    BY <1>13 DEF Restart, NoUpload, Upload, At
  <2>2. files' \in [Versions -> Builds \cup {None}]
    BY <1>13 DEF Restart, Kept
  <2>3. cut' \in BOOLEAN /\ gap' \in BOOLEAN
    BY <1>13 DEF Restart
  <2>. QED
    BY <1>13, <2>1, <2>2, <2>3, Faulted DEF Restart
<1>14. CASE UNCHANGED vars
  BY <1>14 DEF vars
<1>. QED
  BY <1>1, <1>2, <1>3, <1>4, <1>5, <1>6, <1>7, <1>8, <1>9, <1>10, <1>11, <1>12, <1>13, <1>14 DEF Next

--------------------------------------------------------------------------------
(* An upload keeps its kind, or has become none.                           *)
LEMMA NextKinds == ASSUME TypeOK, Kinds, [Next]_vars PROVE Kinds'
<1>. USE DEF Kinds, Placing, TypeOK, Set, Done, NoUpload, Upload
<1>1. ASSUME NEW u \in Uploads, NEW x \in Builds \cup Bundles, Receive(u, x) PROVE Kinds'
  BY <1>1, Moves DEF Receive
<1>2. ASSUME NEW u \in Uploads, Rename(u) PROVE Kinds'
  BY <1>2 DEF Rename
<1>3. ASSUME NEW u \in Uploads, Save(u) PROVE Kinds'
  BY <1>3 DEF Save
<1>4. ASSUME NEW u \in Uploads, Prune(u) PROVE Kinds'
  BY <1>4 DEF Prune
<1>5. ASSUME NEW u \in Uploads, MoveOld(u) PROVE Kinds'
  BY <1>5 DEF MoveOld
<1>6. ASSUME NEW u \in Uploads, MoveNew(u) PROVE Kinds'
  BY <1>6 DEF MoveNew
<1>7. CASE Restart
  BY <1>7 DEF Restart
<1>8. ASSUME up' = up PROVE Kinds'
  BY <1>8
<1>9. CASE UNCHANGED vars
  BY <1>8, <1>9 DEF vars
<1>10. CASE DeleteDeps \/ CancelRollout \/ TimeComes
  BY <1>8, <1>10 DEF DeleteDeps, CancelRollout, TimeComes
<1>11. ASSUME NEW ds \in SUBSET Devices, NEW at \in {0, 1}, Rollout(ds, at) PROVE Kinds'
  BY <1>8, <1>11 DEF Rollout
<1>12. ASSUME NEW d \in Devices, Install(d) \/ Heartbeat(d) PROVE Kinds'
  BY <1>8, <1>12 DEF Install, Heartbeat
<1>. QED
  BY <1>1, <1>2, <1>3, <1>4, <1>5, <1>6, <1>7, <1>9, <1>10, <1>11, <1>12 DEF Next

(* What the operators order and the devices report leaves the package and  *)
(* the targets' versions as they are.                                      *)
LEMMA Told ==
  ASSUME TypeOK, TargetsFollow(st),
         \/ \E ds \in SUBSET Devices, at \in {0, 1} : Rollout(ds, at)
         \/ CancelRollout
         \/ \E d \in Devices : Heartbeat(d)
  PROVE  /\ disk' \in {st', disk}
         /\ st'.pkg = st.pkg /\ TargetsFollow(st')
         /\ UNCHANGED <<files, up, repo, ghosts>>
<1>. USE DEF TypeOK, State, TargetsFollow, ghosts
<1>1. ASSUME NEW ds \in SUBSET Devices, NEW at \in {0, 1}, Rollout(ds, at)
      PROVE  st'.pkg = st.pkg /\ TargetsFollow(st') /\ disk' \in {st', disk}
  <2>. DEFINE t == [d \in Devices |-> IF d \in ds
                      THEN [version |-> VersionOf[st.pkg], notBefore |-> at] ELSE st.target[d]]
  <2>1. st.pkg # None /\ st' = [st EXCEPT !.target = t] /\ disk' \in {st', disk}
    BY <1>1 DEF Rollout, Update
  <2>2. \A d \in Devices : t[d] # None => t[d].version = VersionOf[st.pkg]
    BY <2>1
  <2>. HIDE DEF t
  <2>3. st'.pkg = st.pkg /\ st'.target = t
    BY <2>1
  <2>. QED
    BY <2>1, <2>2, <2>3
<1>2. ASSUME CancelRollout
      PROVE  st'.pkg = st.pkg /\ TargetsFollow(st') /\ disk' \in {st', disk}
  <2>1. st' = [st EXCEPT !.target = Empty.target] /\ disk' \in {st', disk}
    BY <1>2 DEF CancelRollout, Update
  <2>2. st'.pkg = st.pkg /\ \A d \in Devices : st'.target[d] = None
    BY <2>1 DEF Empty
  <2>. QED
    BY <2>1, <2>2
<1>3. ASSUME NEW d \in Devices, Heartbeat(d)
      PROVE  st'.pkg = st.pkg /\ TargetsFollow(st') /\ disk' \in {st', disk}
  <2>1. st' = [st EXCEPT !.agent[d] = runs[d]] /\ disk' \in {st', disk}
    BY <1>3 DEF Heartbeat, Update
  <2>2. st'.pkg = st.pkg /\ st'.target = st.target
    BY <2>1
  <2>. QED
    BY <2>1, <2>2
<1>4. UNCHANGED <<files, up, repo, ghosts>>
  BY DEF Rollout, CancelRollout, Heartbeat
<1>. QED
  BY <1>1, <1>2, <1>3, <1>4

(* An upload that is saved is the package, and targets have moved to it.   *)
LEMMA Saved ==
  ASSUME TypeOK, Kinds, NEW u \in Uploads, Save(u)
  PROVE  /\ up[u].at = "renamed" /\ up[u].what \in Builds
         /\ st'.pkg = up[u].what /\ TargetsFollow(st')
         /\ disk' \in {st', disk}
<1>1. up[u].at = "renamed" /\ up[u].what \in Builds /\ Update(Replaced(up[u].what))
  BY DEF Save, Kinds, Placing
<1>2. st' = Replaced(up[u].what) /\ disk' \in {st', disk}
  BY <1>1, ReplacedType, Updated
<1>. QED
  BY <1>1, <1>2, ReplacedType

(* Targets follow the package.                                             *)
LEMMA NextTargets ==
  ASSUME TypeOK, Kinds, TargetsFollowPackage, [Next]_vars
  PROVE  TargetsFollowPackage'
<1>. USE DEF TargetsFollowPackage
<1>1. ASSUME NEW u \in Uploads, Save(u) PROVE TargetsFollowPackage'
  BY <1>1, Saved DEF TargetsFollow
<1>2. ASSUME \/ \E ds \in SUBSET Devices, at \in {0, 1} : Rollout(ds, at)
             \/ CancelRollout
             \/ \E d \in Devices : Heartbeat(d)
      PROVE  TargetsFollowPackage'
  BY <1>2, Told DEF TargetsFollow
<1>3. CASE Restart
  BY <1>3 DEF Restart, TargetsFollow
<1>4. ASSUME UNCHANGED <<st, disk>> PROVE TargetsFollowPackage'
  BY <1>4 DEF TargetsFollow
<1>5. ASSUME NEW u \in Uploads,
             \/ \E x \in Builds \cup Bundles : Receive(u, x)
             \/ Rename(u) \/ Prune(u) \/ MoveOld(u) \/ MoveNew(u)
      PROVE  TargetsFollowPackage'
  BY <1>4, <1>5 DEF Receive, Rename, Prune, MoveOld, MoveNew
<1>6. CASE DeleteDeps \/ TimeComes \/ UNCHANGED vars \/ \E d \in Devices : Install(d)
  BY <1>4, <1>6 DEF DeleteDeps, TimeComes, vars, Install
<1>. QED
  BY <1>1, <1>2, <1>3, <1>5, <1>6 DEF Next

--------------------------------------------------------------------------------
(* A repository that is moved away lies in the trash of the upload that    *)
(* moves its own there, or the old one back.                               *)
LEMMA NextInTrash == ASSUME TypeOK, Kinds, InTrash, [Next]_vars PROVE InTrash'
<1>. USE DEF InTrash, TypeOK, Set, Done, NoUpload, Upload, ghosts
<1>1. ASSUME UNCHANGED <<promised, repo, gap>>,
             \A u \in Uploads : up[u].at = "moved" => up'[u] = up[u]
      PROVE  InTrash'
  BY <1>1
<1>2. ASSUME NEW u \in Uploads,
             \/ \E x \in Builds \cup Bundles : Receive(u, x)
             \/ Rename(u) \/ Save(u) \/ Prune(u)
      PROVE  InTrash'
  BY <1>1, <1>2 DEF Receive, Rename, Save, Prune
<1>3. ASSUME NEW u \in Uploads, MoveOld(u) PROVE InTrash'
  <2>1. up[u].at = "unpacked" /\ repo' = None /\ UNCHANGED <<promised, gap>>
    BY <1>3 DEF MoveOld
  <2>2. up'[u].at = "moved" /\ up'[u].trash = repo /\ \A w \in Uploads \ {u} : up'[w] = up[w]
    BY <1>3 DEF MoveOld
  <2>3. CASE repo = None
    BY <2>1, <2>2, <2>3
  <2>4. CASE repo # None
    BY <2>1, <2>2, <2>4
  <2>. QED
    BY <2>3, <2>4
<1>4. ASSUME NEW u \in Uploads, MoveNew(u) PROVE InTrash'
  <2>1. up[u].what # None
    BY <1>4, PackagesAssumption DEF MoveNew, Kinds
  <2>2. \A w \in Uploads \ {u} : up'[w] = up[w]
    BY <1>4 DEF MoveNew
  <2>3. \/ repo' = up[u].what
        \/ repo = None /\ repo' = up[u].trash /\ UNCHANGED promised
        \/ repo' = repo /\ repo # None
    BY <1>4 DEF MoveNew
  <2>4. UNCHANGED gap
    BY <1>4 DEF MoveNew
  <2>. QED
    BY <2>1, <2>2, <2>3, <2>4
<1>5. CASE Restart
  BY <1>5 DEF Restart
<1>6. CASE DeleteDeps
  BY <1>6 DEF DeleteDeps
<1>7. ASSUME UNCHANGED <<promised, repo, gap, up>> PROVE InTrash'
  BY <1>7
<1>8. CASE CancelRollout \/ TimeComes \/ UNCHANGED vars
  BY <1>7, <1>8 DEF CancelRollout, TimeComes, vars
<1>9. ASSUME NEW ds \in SUBSET Devices, NEW at \in {0, 1}, Rollout(ds, at) PROVE InTrash'
  BY <1>7, <1>9 DEF Rollout
<1>10. ASSUME NEW d \in Devices, Install(d) \/ Heartbeat(d) PROVE InTrash'
  BY <1>7, <1>10 DEF Install, Heartbeat
<1>. QED
  BY <1>2, <1>3, <1>4, <1>5, <1>6, <1>8, <1>9, <1>10 DEF Next

--------------------------------------------------------------------------------
(* What an upload that is alone has put in place stays there.              *)
LEMMA NextInPlace == ASSUME TypeOK, Kinds, InPlace, TargetsFollow(st), [Next]_vars PROVE InPlace'
<1>. USE DEF InPlace, Placing, TypeOK, Set, Done, NoUpload, Upload, ghosts
<1>1. ASSUME NEW u \in Uploads, NEW x \in Builds \cup Bundles, Receive(u, x) PROVE InPlace'
  <2>1. \A w \in Uploads : up'[w].at \in Placing => up'[w] = up[w]
    BY <1>1, Moves DEF Receive
  <2>2. UNCHANGED <<files, st, disk, overlapped>>
    BY <1>1 DEF Receive
  <2>. QED
    BY <2>1, <2>2
<1>2. ASSUME NEW u \in Uploads, Rename(u) PROVE InPlace'
  <2>1. ~overlapped' => \A w \in Uploads : up[w].at \notin Placing
    BY <1>2 DEF Rename
  <2>2. /\ up'[u].at = "renamed" /\ up'[u].what = up[u].what
        /\ \A w \in Uploads \ {u} : up'[w] = up[w]
    BY <1>2 DEF Rename
  <2>3. VersionOf[up[u].what] \in Versions
    BY <1>2, PackagesAssumption DEF Rename
  <2>4. files'[VersionOf[up[u].what]] = up[u].what
    BY <1>2, <2>3 DEF Rename
  <2>. QED
    BY <2>1, <2>2, <2>4
<1>3. ASSUME NEW u \in Uploads, Save(u) PROVE InPlace'
  <2>1. UNCHANGED <<files, overlapped>> /\ up[u].at = "renamed"
    BY <1>3 DEF Save
  <2>2. \A w \in Uploads \ {u} : up'[w] = up[w]
    BY <1>3 DEF Save
  <2>3. \/ disk' = st' /\ up'[u].what = up[u].what /\ up'[u].at = "saved"
        \/ up'[u].at = "none"
    BY <1>3 DEF Save
  <2>4. st'.pkg = up[u].what
    BY <1>3, Saved
  <2>. QED
    BY <2>1, <2>2, <2>3, <2>4
<1>4. ASSUME NEW u \in Uploads, Prune(u) PROVE InPlace'
  <2>1. up[u].at = "saved" /\ up'[u].at = "none" /\ \A w \in Uploads \ {u} : up'[w] = up[w]
    BY <1>4 DEF Prune
  <2>2. UNCHANGED overlapped
    BY <1>4 DEF Prune
  <2>. QED
    BY <2>1, <2>2
<1>5. ASSUME NEW u \in Uploads, MoveOld(u) \/ MoveNew(u) PROVE InPlace'
  <2>1. \A w \in Uploads : up'[w].at \in Placing => up'[w] = up[w]
    BY <1>5 DEF MoveOld, MoveNew
  <2>2. UNCHANGED <<files, st, disk, overlapped>>
    BY <1>5 DEF MoveOld, MoveNew
  <2>. QED
    BY <2>1, <2>2
<1>6. CASE Restart
  BY <1>6 DEF Restart
<1>7. ASSUME UNCHANGED <<files, up, overlapped>>, st'.pkg = st.pkg, disk' \in {st', disk}
      PROVE  InPlace'
  BY <1>7
<1>8. ASSUME \/ \E ds \in SUBSET Devices, at \in {0, 1} : Rollout(ds, at)
             \/ CancelRollout
             \/ \E d \in Devices : Heartbeat(d)
      PROVE  InPlace'
  BY <1>7, <1>8, Told
<1>9. CASE DeleteDeps \/ TimeComes \/ UNCHANGED vars \/ \E d \in Devices : Install(d)
  BY <1>7, <1>9 DEF DeleteDeps, TimeComes, vars, Install
<1>. QED
  BY <1>1, <1>2, <1>3, <1>4, <1>5, <1>6, <1>8, <1>9 DEF Next

--------------------------------------------------------------------------------
(* The file a state names is there, or it is known why not.               *)
LEMMA NextNamed ==
  ASSUME TypeOK, Kinds, InPlace, TargetsFollow(st), Named(st), Named(disk), [Next]_vars
  PROVE  Named(st)' /\ Named(disk)'
<1>. USE DEF Placing, TypeOK, Set, Done, NoUpload, Upload, ghosts
<1>1. ASSUME UNCHANGED <<st, disk, files, overlapped, cut>>,
             \A u \in Uploads : up[u].at = "renamed" => up'[u] = up[u]
      PROVE  Named(st)' /\ Named(disk)'
  BY <1>1 DEF Named, Replaces
<1>2. ASSUME NEW u \in Uploads,
             \/ \E x \in Builds \cup Bundles : Receive(u, x)
             \/ MoveOld(u) \/ MoveNew(u)
      PROVE  Named(st)' /\ Named(disk)'
  BY <1>1, <1>2 DEF Receive, MoveOld, MoveNew
<1>3. ASSUME NEW u \in Uploads, Rename(u) PROVE Named(st)' /\ Named(disk)'
  <2>1. CASE overlapped'
    BY <2>1 DEF Named
  <2>2. CASE ~overlapped'
    <3>1. \A w \in Uploads : up[w].at \notin Placing
      BY <1>3, <2>2 DEF Rename
    <3>2. ~overlapped /\ UNCHANGED <<st, disk, cut>>
      BY <1>3, <2>2 DEF Rename
    <3>3. up'[u].at = "renamed" /\ up'[u].what = up[u].what
      BY <1>3 DEF Rename
    <3>4. files' = [files EXCEPT ![VersionOf[up[u].what]] = up[u].what]
      BY <1>3 DEF Rename
    <3>5. ASSUME NEW b \in Builds, b # up[u].what, VersionOf[b] # VersionOf[up[u].what]
          PROVE  files'[VersionOf[b]] = files[VersionOf[b]]
      BY <3>4, <3>5, PackagesAssumption
    <3>6. ASSUME NEW b \in Builds, b = up[u].what
          PROVE  files'[VersionOf[b]] = b
      BY <3>4, <3>6, PackagesAssumption
    <3>7. st.pkg \in Builds \cup {None} /\ disk.pkg \in Builds \cup {None}
      BY DEF State
    <3>. QED
      BY <3>1, <3>2, <3>3, <3>5, <3>6, <3>7 DEF Named, Replaces
  <2>. QED
    BY <2>1, <2>2
<1>4. ASSUME NEW u \in Uploads, Save(u) PROVE Named(st)' /\ Named(disk)'
  <2>1. CASE overlapped
    BY <1>4, <2>1 DEF Save, Named
  <2>2. CASE ~overlapped
    <3>1. up[u].at = "renamed" /\ UNCHANGED <<files, overlapped>>
      BY <1>4 DEF Save
    <3>2. files[VersionOf[up[u].what]] = up[u].what
      BY <2>2, <3>1 DEF InPlace
    <3>3. st'.pkg = up[u].what
      BY <1>4, Saved
    <3>4. \A w \in Uploads : up[w].at = "renamed" => w = u
      BY <2>2, <3>1 DEF InPlace
    <3>5. disk' = st' \/ (disk' = disk /\ cut' = (cut \/ Replaces(u, disk)))
      <4>1. Update(Replaced(up[u].what))
        BY <1>4 DEF Save
      <4>2. disk' = st' \/ disk' = disk
        BY <4>1 DEF Update
      <4>3. disk' # st' => cut' = (cut \/ Replaces(u, disk))
        BY <1>4 DEF Save
      <4>. QED
        BY <4>2, <4>3, Zenon
    <3>. QED
      BY <3>1, <3>2, <3>3, <3>4, <3>5 DEF Named, Replaces
  <2>. QED
    BY <2>1, <2>2
<1>5. ASSUME NEW u \in Uploads, Prune(u) PROVE Named(st)' /\ Named(disk)'
  <2>1. CASE overlapped
    BY <1>5, <2>1 DEF Prune, Named
  <2>2. CASE ~overlapped
    <3>1. up[u].at = "saved" /\ UNCHANGED <<st, disk>>
      BY <1>5 DEF Prune
    <3>2. files[VersionOf[up[u].what]] = up[u].what /\ st.pkg = up[u].what /\ disk.pkg = up[u].what
      BY <2>2, <3>1 DEF InPlace
    <3>3. VersionOf[up[u].what] \in Versions
      BY <3>1, PackagesAssumption DEF Kinds
    <3>4. files'[VersionOf[up[u].what]] = up[u].what
      BY <1>5, <3>2, <3>3 DEF Prune, Kept
    <3>. QED
      BY <3>1, <3>2, <3>4 DEF Named
  <2>. QED
    BY <2>1, <2>2
<1>6. CASE Restart
  <2>1. UNCHANGED <<disk, overlapped>> /\ st' = disk
    BY <1>6 DEF Restart
  <2>2. cut' = (cut \/ \E u \in Uploads : up[u].at = "renamed" /\ Replaces(u, disk))
    BY <1>6 DEF Restart
  <2>3. ASSUME disk.pkg # None PROVE files'[VersionOf[disk.pkg]] = files[VersionOf[disk.pkg]]
    <3>1. VersionOf[disk.pkg] \in Versions
      BY <2>3, PackagesAssumption DEF State
    <3>. QED
      BY <1>6, <2>3, <3>1 DEF Restart, Kept
  <2>. QED
    BY <2>1, <2>2, <2>3 DEF Named
<1>7. ASSUME \/ \E ds \in SUBSET Devices, at \in {0, 1} : Rollout(ds, at)
             \/ CancelRollout
             \/ \E d \in Devices : Heartbeat(d)
      PROVE  Named(st)' /\ Named(disk)'
  <2>1. UNCHANGED <<files, up, overlapped, cut>> /\ st'.pkg = st.pkg /\ disk' \in {st', disk}
    BY <1>7, Told
  <2>. QED
    BY <2>1 DEF Named, Replaces
<1>8. CASE DeleteDeps \/ TimeComes \/ UNCHANGED vars \/ \E d \in Devices : Install(d)
  BY <1>1, <1>8 DEF DeleteDeps, TimeComes, vars, Install
<1>. QED
  BY <1>2, <1>3, <1>4, <1>5, <1>6, <1>7, <1>8 DEF Next

--------------------------------------------------------------------------------
(* What is known of memory, disk and files holds throughout.               *)
THEOREM Invariance == Spec => []IInv
<1>1. Init => IInv
  <2>1. ASSUME Init PROVE TypeOK
    <3>1. Empty \in State /\ NoUpload \in Upload
      BY DEF Empty, State, NoUpload, Upload, At
    <3>2. orders \in 0 .. MaxOrders /\ faults \in 0 .. MaxFaults /\ clock \in {0, 1}
      BY <2>1, PackagesAssumption DEF Init
    <3>3. up \in [Uploads -> Upload] /\ files \in [Versions -> Builds \cup {None}]
      BY <2>1, <3>1 DEF Init
    <3>4. st \in State /\ disk \in State /\ runs \in [Devices -> Versions]
      BY <2>1, <3>1 DEF Init
    <3>5. repo \in Bundles \cup {None} /\ promised \in BOOLEAN /\ overlapped \in BOOLEAN
          /\ cut \in BOOLEAN /\ gap \in BOOLEAN
      BY <2>1 DEF Init
    <3>. QED
      BY <3>2, <3>3, <3>4, <3>5 DEF TypeOK
  <2>2. ASSUME Init PROVE Kinds /\ InPlace /\ InTrash
    BY <2>2 DEF Init, NoUpload, Kinds, InPlace, InTrash, Placing
  <2>3. ASSUME Init PROVE TargetsFollowPackage /\ Named(st) /\ Named(disk)
    BY <2>3 DEF Init, Empty, TargetsFollowPackage, TargetsFollow, Named
  <2>. QED
    BY <2>1, <2>2, <2>3 DEF IInv
<1>2. IInv /\ [Next]_vars => IInv'
  BY NextTypeOK, NextKinds, NextTargets, NextInPlace, NextNamed, NextInTrash
     DEF IInv, TargetsFollowPackage
<1>. QED
  BY <1>1, <1>2, PTL DEF Spec

(* Types are kept.                                                         *)
THEOREM TypeCorrect == Spec => []TypeOK
  BY Invariance, PTL DEF IInv

(* The file the state names is there and has the hash it names, but after  *)
(* overlapping uploads and where a build of the same version took its      *)
(* place (packages.go, installPackage).                                    *)
THEOREM Installable == Spec => []PackageInstallable
<1>1. IInv => PackageInstallable
  BY DEF IInv, Named, PackageInstallable
<1>. QED
  BY <1>1, Invariance, PTL

(* No device is told to go to a version that is not the package's, in      *)
(* memory or on disk, whatever could not be written (store.go).            *)
THEOREM TargetsCorrect == Spec => []TargetsFollowPackage
  BY Invariance, PTL DEF IInv

(* A repository stays until it is deleted, but for the gap between the two *)
(* renames of installDeps and a death in it (deps.go).                     *)
THEOREM RepositoryStays == Spec => []RepositoryKept
<1>1. IInv => RepositoryKept
  BY DEF IInv, InTrash, RepositoryKept
<1>. QED
  BY <1>1, Invariance, PTL

================================================================================
