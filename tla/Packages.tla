-------------------------------- MODULE Packages --------------------------------
(***************************************************************************)
(* The device program on the server (packages.go, agentpkg.go) and the     *)
(* repository of its dependencies (deps.go), both uploaded the same way.   *)
(* One package is kept: its file, named by its version, and its record in  *)
(* the state with the hash devices check what they download with.  The     *)
(* state is changed in memory and then written (store.go); the server may  *)
(* die between any two steps and starts again from what is on disk.        *)
(*                                                                         *)
(* A build stands for a package file and its hash; two builds may have the *)
(* same version.  A build that is not Valid fails Inspect.                 *)
(***************************************************************************)
EXTENDS Naturals, FiniteSets

CONSTANTS
  Devices, Versions, Builds, Bundles, None,
  VersionOf,        \* the version built into a program
  Valid,            \* the builds Inspect accepts, the bundles installDeps accepts
  Uploads,
  MaxOrders, MaxFaults      \* bounds

ASSUME PackagesAssumption ==
  /\ VersionOf \in [Builds -> Versions]
  /\ Valid \subseteq Builds \cup Bundles /\ Builds \cap Bundles = {}
  /\ None \notin Builds \cup Bundles \cup Versions
  /\ MaxOrders \in Nat /\ MaxFaults \in Nat

VARIABLES
  st, disk,         \* Store.s and state.json
  files,            \* data_dir/packages: version -> build
  up,               \* the uploads
  runs,             \* the version each device runs
  clock,            \* before or at the time updates are put off to
  repo,             \* data_dir/deps/<codename>
  promised,         \* a repository has been uploaded and not deleted since
  overlapped,       \* two packages were between rename and prune
  cut,              \* the state still names a build whose file was replaced
  gap,              \* the server died while the repository was in the trash
  orders, faults

ghosts == <<promised, overlapped, cut, gap>>
vars   == <<st, disk, files, up, runs, clock, repo, ghosts, orders, faults>>

Target == [version : Versions, notBefore : {0, 1}]
ASSUME TargetAssumption == None \notin Target
State  == [pkg : Builds \cup {None}, target : [Devices -> Target \cup {None}],
           agent : [Devices -> Versions \cup {None}]]
At     == {"none", "unpacked", "renamed", "saved", "moved"}
Upload == [at : At, what : Builds \cup Bundles \cup {None}, trash : Bundles \cup {None}]

TypeOK ==
  /\ st \in State /\ disk \in State
  /\ files \in [Versions -> Builds \cup {None}]
  /\ up \in [Uploads -> Upload]
  /\ runs \in [Devices -> Versions] /\ clock \in {0, 1}
  /\ repo \in Bundles \cup {None}
  /\ promised \in BOOLEAN /\ overlapped \in BOOLEAN /\ cut \in BOOLEAN /\ gap \in BOOLEAN
  /\ orders \in 0 .. MaxOrders /\ faults \in 0 .. MaxFaults

NoUpload == [at |-> "none", what |-> None, trash |-> None]
Empty    == [pkg |-> None, target |-> [d \in Devices |-> None], agent |-> [d \in Devices |-> None]]

Init ==
  /\ st = Empty /\ disk = Empty
  /\ files = [v \in Versions |-> None]
  /\ up = [u \in Uploads |-> NoUpload]
  /\ runs \in [Devices -> Versions] /\ clock = 0
  /\ repo = None
  /\ promised = FALSE /\ overlapped = FALSE /\ cut = FALSE /\ gap = FALSE
  /\ orders = 0 /\ faults = 0

Order == orders < MaxOrders /\ orders' = orders + 1
Fault == faults < MaxFaults /\ faults' = faults + 1

(* Store.Update: the change stays in memory when it cannot be written.     *)
Update(new) ==
  /\ st' = new
  /\ \/ disk' = new /\ UNCHANGED faults
     \/ disk' = disk /\ Fault

--------------------------------------------------------------------------------
\* Uploads

(* Extract, Check and Inspect; what is wrong is refused.                   *)
Inspected(x) == x \in Valid

Receive(u, x) ==
  /\ Order
  /\ up[u].at = "none"
  /\ up' = IF Inspected(x) THEN [up EXCEPT ![u] = [NoUpload EXCEPT !.at = "unpacked", !.what = x]]
                          ELSE up
  /\ UNCHANGED <<st, disk, files, runs, clock, repo, ghosts, faults>>

Set(u, at) == up' = [up EXCEPT ![u].at = at]
Done(u)    == up' = [up EXCEPT ![u] = NoUpload]

Kept(v) == [w \in Versions |-> IF w = v THEN files[v] ELSE None]

(* Mutant: the old package goes as soon as the new one is in place.        *)
Rename_Prunes(u) ==
  /\ up[u].at = "unpacked" /\ up[u].what \in Builds
  /\ LET v == VersionOf[up[u].what]
     IN files' = [w \in Versions |-> IF w = v THEN up[u].what ELSE None]
  /\ Set(u, "renamed")
  /\ overlapped' = (overlapped \/ \E w \in Uploads : up[w].at \in {"renamed", "saved"})
  /\ UNCHANGED <<st, disk, runs, clock, repo, promised, cut, gap, orders, faults>>

Rename(u) ==
  /\ up[u].at = "unpacked" /\ up[u].what \in Builds
  /\ files' = [files EXCEPT ![VersionOf[up[u].what]] = up[u].what]
  /\ Set(u, "renamed")
  /\ overlapped' = (overlapped \/ \E w \in Uploads : up[w].at \in {"renamed", "saved"})
  /\ UNCHANGED <<st, disk, runs, clock, repo, promised, cut, gap, orders, faults>>

(* Mutant: what devices wait for is left as it is.                         *)
Retarget_Kept(t, agent, v) == t

(* A target that waits moves to the new version; one that is reached, or   *)
(* would be, is dropped.                                                   *)
Retarget(t, agent, v) ==
  IF t = None THEN None
  ELSE IF t.version # agent /\ agent # v THEN [t EXCEPT !.version = v]
  ELSE None

Replaced(build) ==
  [st EXCEPT !.pkg = build,
             !.target = [d \in Devices |-> Retarget(st.target[d], st.agent[d], VersionOf[build])]]

(* "cut" notes that the state in memory or on disk keeps the build whose   *)
(* file this upload has replaced.                                          *)
Replaces(u, state) ==
  state.pkg # None /\ state.pkg # up[u].what /\ VersionOf[state.pkg] = VersionOf[up[u].what]

Save(u) ==
  /\ up[u].at = "renamed"
  /\ Update(Replaced(up[u].what))
  /\ IF disk' = st' THEN Set(u, "saved") /\ cut' = cut
                    ELSE Done(u) /\ cut' = (cut \/ Replaces(u, disk))
  /\ UNCHANGED <<files, runs, clock, repo, promised, overlapped, gap, orders>>

Prune(u) ==
  /\ up[u].at = "saved"
  /\ files' = Kept(VersionOf[up[u].what])
  /\ Done(u)
  /\ UNCHANGED <<st, disk, runs, clock, repo, ghosts, orders, faults>>

--------------------------------------------------------------------------------
\* The repository: the old one to the trash, the new one in its place

MoveOld(u) ==
  /\ up[u].at = "unpacked" /\ up[u].what \in Bundles
  /\ up' = [up EXCEPT ![u].at = "moved", ![u].trash = repo]
  /\ repo' = None
  /\ UNCHANGED <<st, disk, files, runs, clock, ghosts, orders, faults>>

(* Mutant: the old one is not put back when the new one cannot be moved.   *)
MoveNew_NoWayBack(u) ==
  /\ up[u].at = "moved"
  /\ \/ repo = None /\ repo' = up[u].what /\ promised' = TRUE /\ UNCHANGED faults
     \/ (IF repo = None THEN Fault ELSE UNCHANGED faults) /\ UNCHANGED <<repo, promised>>
  /\ Done(u)
  /\ UNCHANGED <<st, disk, files, runs, clock, overlapped, cut, gap, orders>>

(* It cannot be moved where there is one already, or by a fault; then the  *)
(* old one is put back, if it can.                                         *)
MoveNew(u) ==
  /\ up[u].at = "moved"
  /\ \/ /\ repo = None
        /\ repo' = up[u].what /\ promised' = TRUE
        /\ UNCHANGED faults
     \/ /\ repo = None /\ Fault
        /\ repo' = up[u].trash
        /\ UNCHANGED promised
     \/ repo # None /\ UNCHANGED <<repo, promised, faults>>
  /\ Done(u)
  /\ UNCHANGED <<st, disk, files, runs, clock, overlapped, cut, gap, orders>>

DeleteDeps ==
  /\ Order
  /\ repo' = None /\ promised' = FALSE
  /\ UNCHANGED <<st, disk, files, up, runs, clock, overlapped, cut, gap, faults>>

--------------------------------------------------------------------------------
\* Rollouts and devices

Rollout(ds, at) ==
  /\ Order
  /\ st.pkg # None
  /\ Update([st EXCEPT !.target = [d \in Devices |->
       IF d \in ds THEN [version |-> VersionOf[st.pkg], notBefore |-> at] ELSE st.target[d]]])
  /\ UNCHANGED <<files, up, runs, clock, repo, ghosts>>

CancelRollout ==
  /\ Order
  /\ Update([st EXCEPT !.target = Empty.target])
  /\ UNCHANGED <<files, up, runs, clock, repo, ghosts>>

(* pendingUpdate: the manifest offers the package to the device.           *)
Pending(d) ==
  /\ st.target[d] # None /\ st.pkg # None
  /\ st.target[d].version = VersionOf[st.pkg]
  /\ clock >= st.target[d].notBefore
  /\ st.agent[d] # st.target[d].version

(* The device downloads the file, and installs it if the hash is right.    *)
Install(d) ==
  /\ Pending(d) /\ files[VersionOf[st.pkg]] = st.pkg
  /\ runs' = [runs EXCEPT ![d] = VersionOf[st.pkg]]
  /\ UNCHANGED <<st, disk, files, up, clock, repo, ghosts, orders, faults>>

Heartbeat(d) ==
  /\ st.agent[d] # runs[d]
  /\ Update([st EXCEPT !.agent[d] = runs[d]])
  /\ UNCHANGED <<files, up, runs, clock, repo, ghosts, orders>>

TimeComes ==
  /\ clock = 0 /\ clock' = 1
  /\ UNCHANGED <<st, disk, files, up, runs, repo, ghosts, orders, faults>>

(* The server dies and starts again: incoming/ is cleared, with the trash, *)
(* and all files but the package's are removed.                            *)
Restart ==
  /\ Fault
  /\ st' = disk
  /\ files' = IF disk.pkg = None THEN [v \in Versions |-> None] ELSE Kept(VersionOf[disk.pkg])
  /\ up' = [u \in Uploads |-> NoUpload]
  /\ cut' = (cut \/ \E u \in Uploads : up[u].at = "renamed" /\ Replaces(u, disk))
  /\ gap' = (gap \/ \E u \in Uploads : up[u].at = "moved")
  /\ UNCHANGED <<disk, runs, clock, repo, promised, overlapped, orders>>

Next ==
  \/ \E u \in Uploads : \/ \E x \in Builds \cup Bundles : Receive(u, x)
                        \/ Rename(u) \/ Save(u) \/ Prune(u)
                        \/ MoveOld(u) \/ MoveNew(u)
  \/ DeleteDeps
  \/ \E ds \in (SUBSET Devices) \ {{}}, at \in {0, 1} : Rollout(ds, at)
  \/ CancelRollout
  \/ \E d \in Devices : Install(d) \/ Heartbeat(d)
  \/ TimeComes
  \/ Restart

Spec == Init /\ [][Next]_vars

--------------------------------------------------------------------------------
\* Properties

(* What the state names can be downloaded and has the hash it names.  Only *)
(* after two uploads overlapped may the file be missing (each prunes the   *)
(* other's), and only where a file of the same version was replaced may it *)
(* be another one: until the state is saved, or for good if it is not.     *)
PackageInstallable ==
  st.pkg # None /\ files[VersionOf[st.pkg]] # st.pkg =>
    overlapped \/ cut \/ \E u \in Uploads : up[u].at = "renamed" /\ Replaces(u, st)

(* A device is never told to go to a version that cannot be had: targets   *)
(* follow the package, in memory and on disk, whatever was not written.    *)
TargetsFollow(s) ==
  \A d \in Devices : s.target[d] # None => s.pkg # None /\ s.target[d].version = VersionOf[s.pkg]

TargetsFollowPackage == TargetsFollow(st) /\ TargetsFollow(disk)

(* A repository that was uploaded stays, complete, until it is deleted -   *)
(* but for the gap between the two renames, and a server that dies in it.  *)
RepositoryKept ==
  promised => repo # None \/ gap \/ \E u \in Uploads : up[u].at = "moved"

(* What the comment of installDeps (deps.go:52) says, and the code does    *)
(* not do: whoever installs sees a complete repository at any time.        *)
AlwaysARepository == promised => repo # None
================================================================================
