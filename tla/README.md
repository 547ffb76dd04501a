# Verification of the content display system

TLA+ models of the display system in this repository, what TLC checks of them and what TLAPS
proves. Paths are relative to `src/`; line numbers refer to the commit the modules were
translated from.

- [1. The system](#1-the-system)
- [2. The modules and the code](#2-the-modules-and-the-code)
- [3. What the runs check](#3-what-the-runs-check)
- [4. What is proved](#4-what-is-proved)
- [5. What the code does otherwise than it says](#5-what-the-code-does-otherwise-than-it-says)
- [6. What is not modelled, and why](#6-what-is-not-modelled-and-why)
- [7. Plan](#7-plan)

## 1. The system

A server keeps the content of many displays. On each display (an Orange Pi One at a screen, on
an SD card that may lose power at any moment) an agent polls the server, downloads what it
is to show, and has a separate playing process show it. The agent updates itself, and
falls back to the version before when an update does not work.

| part | state it keeps | operations | how it interacts |
|---|---|---|---|
| **device: program update** `agent/update.go`, `deploy/agent/rollback-check.sh`, `display-agent.service` | on disk: `versions/`, links `current` and `previous`, `pending-verify`, `failed-version`; in memory: `registered`, `verified`, `updRetry` | stage, switch, exit; count starts; roll back; confirm | three programs share the install layout and never run together, but each may be cut off anywhere; the update to apply comes in the manifest, the confirmation from a heartbeat's answer |
| **device: content sync** `agent/agent.go`, `testcard.go`, `download.go` | media directory, `current.json`, `base.json`; `manifestVer`, `testUntil` | poll, download, keep base, apply, clean up, expire a test card, restore after start | polls the server with If-None-Match; calls the player's Load |
| **device: player supervisor** `player/gst.go` | `desired`, brightness and media wanted, `proc`, `paused`, `cancel`, the calls in flight | Load, SetBrightness, SetPaused, restart, watchdog | starts the playing process and talks to it over a pipe |
| **device: playing process** `player/gstplayer.py` | the scene, item, pipeline, fade, timers | load, media on/off, GLib timers, GStreamer messages | answers the supervisor's requests in order |
| **device: rescue console** `agent/rescue.go`, `rescue_linux.go` | open or not, last key | open, idle timeout | SetPaused of the supervisor |
| **device: brightness and schedule** `agent/brightness.go`, `schedule.go`, `clock.go`, `timezone.go`, `manifest/brightness.go` | plan and time zone learned, the same on the card, clock offset | learn from the headers of an answer, save, apply each half minute | announced by the server with every answer; SetBrightness, SetMedia of the player |
| **device: identity, access, transport** `agent/identity.go`, `access.go`, `transport.go` | device key, registered or not; password, `authorized_keys`, sshd's drop-in, fingerprint of what was applied | make a key, register, sign, try again; apply credentials | the server's register handler; credentials come with the manifest |
| **server: devices and manifests** `server/device.go`, `register.go`, `access.go` | devices in the store; per device the last manifest with its key, what it has applied, its rendered image | register, rekey, manifest, file, heartbeat | reads templates, files, credentials; forgotten when a device is deleted |
| **server: packages and rollouts** `server/packages.go`, `deps.go` | package files, version and hash in the store, each device's target, the repository of dependencies | upload, rollout, cancel, prune | the update in a manifest, the version in a heartbeat |
| **server: state store** `store/store.go` | `state.json` and the same in memory | Update, View | every handler |
| **server: media and jobs** `server/media.go`, `jobs.go`, `files.go` | files and playlist of each device, `incoming/`, queue of conversions, names in use | upload, convert, order, delete | cache, store, manifests |
| **server: media cache** `server/cache.go` | `.store`, the index of contents and originals, quota | reuse, adopt, clean up, evict, set the quota | links into the devices' directories |
| **server: templates and backgrounds** `server/admin.go`, `backgrounds.go` | templates, the global one, each device's own; background images | put, delete, choose, upload a background; hourly maintenance | what a manifest is rendered from |
| **server: administration** `server/admin.go`, `adminauth.go` | token in the store and in force, failed tries of each source | check, change the token; test card, display settings, deletion of devices | everything above |
| start-up, rendering, signing, scripts, web page | - | sequential or pure | - |

**What is hard here.** A power cut or a death of a process between any two file operations
(update, rollback check, saved manifests). Agent, server and operator acting in any order on
one rollout or one test card. A content version answered with 304 that is not on
the screen. Requests, timers and pipeline messages in any order in the playing process, where
each new fade replaces what the last was to do at its end. The goroutines of `gst.go`, which share
one lock but send without it. On the server: manifests built from content that has changed
meanwhile, requests a device has given up on, jobs of deleted devices, names used again, files shared by content
while a clean-up looks for unused ones, memory and disk that differ after a failed write, checks of a token
that queue while it is changed. Between the two: keys, clocks and credentials that either side may lose. `PROJECT.json` lists each under `hazards`, at its line.

**What makes each part correct.**
- *update*: an unverified version that does not work is rolled back, after a bounded number of starts, to
  one that works; the directory being started is there; a version rolled back is not tried
  again; a rollout ends with the target running or a reason reported.
- *sync*: the saved content is complete; nothing played is deleted; the version claimed is the
  version shown; a test card ends, with or without a server; the device converges to what the server offers.
- *playing process*: a callback only ever meets the item it was set for; a scene accepted becomes
  the scene; a list goes round, whichever items fail.
- *supervisor*: after any restart the process has what is wanted; a pause releases the display
  and a resume brings it back; a hang is noticed; calls return.
- *brightness, access*: each check saves what was learned; credentials taken for applied are those of the system;
  nobody is shut out by a step that failed.
- *identity, clock*: a key replaces another only when the operator accepted it; an agent that only polls is known; a wrong clock costs one try.
- *manifests, templates*: what is called the latest is shown; what is set is shown in the end; what a template names exists.
- *packages*: the file offered has the hash offered, targets follow the package, the repository stays.
- *media, cache*: a ready file stays until it is deleted, no file, original or job without owner stays, no content in use leaves the store.
- *administration*: the token in force is the token stored, and no other passes; the ladder of lock-outs cannot be run past.

## 2. The modules and the code

| module | what it is | lines of code it stands for |
|---|---|---|
| `Ota` | program update of one device | `agent/update.go`, parts of `agent/agent.go` and `server/device.go`, `rollback-check.sh`, `display-agent.service` |
| `ContentSync` | content of one device | `agent/agent.go`, `testcard.go`, `download.go`, the manifest of `server/device.go` |
| `Display` | what a screen promises, abstractly: it shows whole manifests the server has offered | (specification) |
| `GstPlayer` | the event loop of one playing process | `player/gstplayer.py`, class Player |
| `Supervisor` | starting, watching, pausing the process, and the calls to it | `player/gst.go`, rescueLoop of `agent/rescue.go` |
| `MediaCache` | the store of contents, its clean-up and quota | `server/cache.go` |
| `Media` (with `MediaCache`) | uploads, conversions, playlists, deletion and registration of devices | `server/media.go`, `jobs.go`, parts of `files.go`, `admin.go` |
| `Templates` | templates, their choice, backgrounds and maintenance | `server/admin.go`, `backgrounds.go`, parts of `store/store.go`, `files.go` |
| `Manifests` (with `Templates`) | the manifest and image of one device, and the device as far as the server depends on it | `server/device.go`, parts of `manifest/manifest.go`, `render/render.go` |
| `Packages` | uploads of packages and of the repository, rollouts, the state written or not | `server/packages.go`, `deps.go`, `agentpkg/agentpkg.go`, parts of `store/store.go` |
| `AdminAuth` | check and change of the administration token | `server/adminauth.go` |
| `Brightness` | the plan as a function of the minute | `manifest/brightness.go` |
| `Registration` | identity, registration, keys, signatures, clock | `agent/identity.go`, `clock.go`, parts of `agent.go`, `server/register.go`, `device.go` |
| `Settings` (with `Registration`, `Brightness`) | credentials, time zone and brightness plan on a device | `agent/access.go`, `brightness.go`, `schedule.go`, `timezone.go`, `server/access.go` |
| `*Proofs` | the theorems: each module's in its own, those of `AdminAuth` and `Media` in `ServerProofs` | |
| `MC*` | instances for TLC | |

The entry of each definition in `map` (`PROJECT.json`) names its function and lines.

**Ota.** Every durable change of the file system is one action, so that `Crash` (the agent dies)
and `PowerCut` fall between any two. `pc` says which of the three programs runs and how far
it is: `CheckNothing` ... `RecordFailed` are rollback-check.sh, `Exec`/`ExecFails` systemd,
`Register` ... `ExpireTest` the main loop, `RefuseRolledBack` ... `ExitForUpdate` applyUpdate and
stagePackage. A manifest is reduced to its update and whether it is a test card, as that is
what loadCurrent and setUpdate look at. Versions in `Dead` crash before they reach the
server; the others may still die at any time. A second offer, a cancelled rollout and a test card come in any order.
The answer to a registration may be lost after the server has taken it (`RegisterUnanswered`).
`gaveUp`, `forgot` and `saver` are history: the version rolled back since the last offer, why `failed-version` no longer names it, and which version saved
the manifest on the card.

**ContentSync.** A manifest is a content and, for a test card, which one; a content is a set of
files. Downloads, base.json, current.json, Load and clean-up are separate actions, as the
process may die between them. `screen` is what the player was last asked to show.
`Rot` is a file that is found damaged at the hash check after a restart.

**Display.** Two variables, the screen and the offers so far. The screen changes only to a manifest offered
(whole, unless a file was damaged) or to nothing. `ContentSync` implements it with the mapping at the end of that module.

**GstPlayer.** gstplayer.py is one GLib loop: a callback runs to its end before the next. The object
Player is the record `player`, a method is an operator from a state to the set of states it may leave it
in (starting a pipeline works or fails at once), and an action is one callback. The veil over the media area is black, clear or
between; `fading.then` is the closure handed to `_fade_to`.

**Supervisor.** One action per critical section or blocking step of gst.go: what runs under the lock
is one action, what comes after it another. `calls[c]` is callWithin for the main loop,
runOnce and the watchdog; `pipe` holds the requests written and not yet handled, with who waits for them. A caller that has given up leaves its request in the pipe.
`raced` is history: the kinds of order last given while runOnce was sending, which may send an older one after it whether or not the call fails, and `load` when
the process refused a scene; another order of the kind, or another start of the process, takes it out again.

**Media and MediaCache.** Upload `u` is one file of one request, and job `u` the conversion it may become; `up[u].at` is how far its
request is, `worker.at` how far the one goroutine that converts. A critical section of `mediaJobs` or of the cache is
one action, and so is each change of the file system: Discard (jobs.go:205) is therefore apart from the deletion that
made it necessary. A content stands for an original and for the result of processing it, as the cache ties the two; a name is a number whose remainder
by three is its extension, so that a document and a picture never compete for one. An adoption (cacheAdopt) is two actions wherever it is called: `HashImage`, `HashProduct` and `HashUnknown`
take the hash before the lock, and `LinkImage`, `LinkProduct` and `LinkUnknown` do with it, under the lock, what cache.go:155-180 does (`Adopt`): if the store has a copy
under that hash, the copy becomes the file, whatever is there by then, and a document's pages make the directory again (`CanLink`; linkPages, cache.go:368); else the file
becomes the copy, whatever is in it by then. `stored` is therefore a function: under a hash there may lie another content. Reuse (`ReuseResult`) looks up and links under one lock.
The clean-up lists one device after the other (`ListDevice`), hashes file by file (`LookAt`) and adopts what the index does not know; what is used meanwhile is `recent`.
A claimed name is held until the file is adopted, or its job queued (`Claiming`). Two variables are history. `late`: the devices deleted in a way that may leave something behind, as an upload had passed
its check (admin.go and media.go share no lock over that time), an adoption had its hash when the directory was erased, or the server stopped in the middle.
`revived`: where an adoption has put a file that was not there any more, or another one.

**Templates and Manifests.** A template is its text and its two backgrounds; all settings are one locked update each. Of the polls of one device each request is a
slot, as one that the device has given up on goes on in the server: `Ask`, `ReadContent`, `LookUp`, `HashFile`, `WriteImage`, `PruneImages`, `Store`,
`Reply` are the places where handleManifest, manifestFor, BuildItems and renderedItem let others in. A key is the content it is the hash of, the media files (name -> content) among it: a file
uploaded again is a link to the same blob, with the size and time it had (cache.go:138, manifest.go:208), so the key it had comes back (`ChangeMedia`).
BuildItems takes each file as it is when its turn comes and leaves out one that is gone (`HashFile`; manifest.go:255), and the manifest made, with fewer items or none (`tpl` instead of `ovl`), is kept under the key of the content read before. Every template is taken to
have a media area; the order of the playlist is left out. `Fetch` is
the device: it applies a manifest if image and files are still there. `entry` says whether the deviceRuntime a request
holds is still that of the map. A background is drawn from its file, or from the renderer's memory (`decoded`; render.go:157-182): previews and
other devices' pictures fill that too. `short`, of a request and of the manifest kept, is history: a background or a file was missing, or was not the one of the content, when it was made. The seam to ContentSync is `shown`.

**Packages.** `st` is the state in memory and `disk` the file; `Update` does both or only the first. An upload is `Rename`, `Save`, `Prune` after
it was received and inspected; a repository `MoveOld`, `MoveNew`. Two builds of one version share a file name.

**AdminAuth.** The steps of check are those between a.mu and a.slow. A hash is its token and a salt, so that the comparison of hashes in Accept (adminauth.go:111) is not one of tokens.

**Registration and Settings.** One device id, its agent, the server, and another machine with the same id. `drift` is what the device's clock is off,
`offset` what it adds; a request is in time when they cancel. Settings adds what an answer brings and does with it: each command of
access.go's apply is a step (`SetPassword` ... `RecordApplied`), and any may fail or be the last. Brightness is the plan itself.

**How they compose.** Media and MediaCache, Manifests and Templates, Settings with Registration and Brightness are checked together, as one
state. `ContentSync!screen` is `desired` of the supervisor; a Load that fails there is `Timeout`, `LateAnswer` or `Refuse` in `Supervisor`,
and `shown` there is `accepted` in `GstPlayer`. `Manifests!shown` is the saved manifest of ContentSync, `Packages!Pending` the update in `Ota!ServerManifest`. These seams are
kept by hand; a composition of `Supervisor` and `GstPlayer` has too many states for TLC at bounds where its parts are of interest.

## 3. What the runs check

Each instance is small; its bounds are constants that appear in the guards.

### Ota (`ota`, `ota_live`)

Three versions: one installed, a second that works, and a dead one. Two that work are
needed for a rollback to matter, and a dead one for the rollback to happen; more versions
only repeat the roles, as the code compares versions for equality and nothing else.
Two offers let an offer come on top of an unverified version, three deaths are what it takes for the rollback check to give up a version that
works, one power cut and one test card show what either does at every step. `ota_live` has two deaths and no power cut, as its properties end with
one anyway. The theorems of section 4 hold for any number.

- `ota`: a dead version is started at most twice (`TwoStartsUnlessCut`); `previous` never names one
  (`RollbackTargetWorks`). With power cuts, the guard goes in one place only
  (`GuardLostOnlyInRollback`), and the directory being started goes in one way only (`DirectoryLostOnlyByRollback`);
  a version rolled back is switched to again only after `failed-version` has lost it in one of three ways (`RetryOnlyInKnownCases`): a power cut between the switch
  back and the note, a manifest from before a test card, or a manifest that version had saved itself.
- `ota_live`: with no power cut a device ends with a version that is there, runs and was answered by the server, unless the directory to start from is
  lost (`EndsWorking`; the exception is observation 4 of section 5, and is for ever), and a rollout ends with the target running or a reason reported (`RolloutSettles`).

*Fairness.* systemd restarts the service for ever (`Restart=always`,
`StartLimitIntervalSec=0`), the main loop polls and beats on timers: weak fairness. Register,
Poll, the confirming heartbeat and the file operations are interrupted by deaths, failures and
each other but tried for ever: strong fairness says that what is tried for ever succeeds in the end. The operator's offers are not fair: nobody has to
do anything. A test card ends (a server timer).

### ContentSync (`sync`)

Two contents sharing a media file, each with one of its own (one rendered, one media), and
the test card: enough for a clean-up that must keep a file and delete another, and for a download that is partly
there. Two changes, two test cards and two deaths make test card upon test card and a death in the
recovery from a death possible; one damaged file, one failed load and one failed write show what each does.

- All files of both saved manifests are there (`SavedContentComplete`); clean-up never deletes what is played
  (`PlayedFilesKept`); the version sent as If-None-Match is on the screen unless a load failed
  (`VersionIsShownUnlessLoadFails`); whatever died, the way back from a test card goes in one step only
  (`WayBackLostOnlyBeforeWrite`); the module implements `Display` (`ScreenIsADisplay`).
- Without the server, a test card that is over is left (`TestCardEnds`); with it,
  the device converges to what is offered (`Converges`). Both hold as long as no Load was answered with an error.

*Fairness.* `Local`, what the agent does by itself, is weakly fair; the timer of the test card is
strongly fair, as a poll may come between. `Online` is an assumption of
`Converges` and not of the specification: polls go on, and downloads and writes tried for ever succeed.

### GstPlayer (`player`)

A list with an image and a video, the same list under another overlay, a single image, and a scene with
no media: the cases the code tells apart. `VideoOutputs` 3 has a first, a middle and a last way out; two retries may
overlap; four requests are enough to interrupt a switch, and the interruption.

- `CallbacksFindTheirItem`: callbacks that index the list without a test find their item.
- `IdleOnlyAfterStop`: a list goes quiet in one way only (section 5).
- `EveryItemGetsItsTurn`: a list that neither goes quiet nor stalls is played round and round, whichever items fail.

*Fairness.* GLib runs its timers. GStreamer is outside the code: it is assumed to start an item or report an error, and to
end a video that plays; the code has no timeout of its own for an item, so this is an assumption the property rests on. `_check_remaining` (NearEnd)
is not fair: a short video may end before it. The last fade step may
be the first, so a fade needs no other. The run does not check for deadlock: a single image with no timer is a
state in which the program really waits for a request.

### Supervisor (`supervisor`)

Two scenes and two settings (the one a process starts with and another), two orders, two pauses and one fault,
of any kind: a pause in a restart, a pause in the resume of a pause, an order
during either. A second fault would mostly repeat the first after a restart that has cleaned everything up (`Gone`); it is left out for time.

- `SettledIsDesired`: a process with nothing left to read has the scene and setting wanted, unless the
  order came while runOnce was sending (section 5) or was refused.
- `PauseReleasesDisplay`: a pause releases the display, at whatever point of a run it comes: it misses no run that is just
  starting, or just being started again (`PausedRunIsCancelled`, which is proved).
- `ResumePlaysAgain`, `HungIsReplaced`, `CallsReturn`: a resume brings the player back; a hang is
  noticed, whoever waits; the main loop, which feeds the system's watchdog, is never kept.

*Fairness.* Goroutines run, timeouts come, a process that does not hang answers; the same for `Die` and `Hang` would be
wrong, so they and the orders are not fair. Deadlock is checked: the watchdog or the supervisor always has something to do, or a pause can be ended.

### Media and MediaCache (`media`)

One device, a picture and two documents (which are alike, hence a symmetry), two uploads, one deletion, one registration, one restart, one
clean-up, two of restart, deletion and clean-up in a run (`MaxInterruptions`), a quota of one or two contents: an upload meets another, a job, a deletion of its file or device, a
return of the device and an eviction. Documents are the contents that become jobs and whose adoption can make a directory again; videos, which take the same way but for that, are what `Documents` leaves out, and are in the proof.
Two uploads are the least that can compete for a name or share a content; a third adds no new kind of meeting, as names are
claimed one at a time (and section 4 holds for any number).

- `ReadyStays`: a file changes or goes only by its deletion or its device's, by the worker at a removed job of its name, or by an adoption that puts the copy of what it had hashed there;
  what an adoption has put back is not protected (section 5 for the last three).
- `DeletedDeviceLeavesNothing`: a deleted device leaves no file and no job, whatever the worker is at, but for the three cases of `late`.
- `StagingIsOwned`: what lies in incoming/ will be removed by somebody.
- `InUseKept`: no clean-up takes the last copy of a content a device has, even of what was linked while it was looking; only a file whose adoption is yet to come may lose it.

*Fairness* (the worker) is stated but no property needs it. The system may stop when the bounds are reached: no deadlock check.

### Templates and Manifests (`manifests`)

One device, two template ids, one text, one background, one media file that is there at first, two requests at once, two edits of any kind, one fault (a timeout of the device or
a restart): an edit may fall between any two steps of two requests, and the file may go during a build and come back under the same key. Two edits do not bring a background that goes and comes back under a content that stays, and one file
does not bring a manifest that asks for a file whose name has another content by now (`Unobtainable`; four edits, two contents): the proof of `LatestIsShown` covers both (section 4), `ContentIsShown` names the second.

- `LatestIsShown`: what the administration page calls the latest is on the screen, but for the moment between Store and Reply, for requests that overlapped, and for a
  manifest that was made short of a file or background and is kept under the key of the content that has it (`ShowsContent`).
- `ContentIsShown`: when operators stop, the device ends up showing what they set, or that short manifest.
- `BackgroundsInUseExist`: maintenance takes no background a template names or is about to.

*Fairness.* The device is one loop, which polls, fetches or registers on timers: weak fairness of the three together. The server goes on with the requests it has begun: weak fairness of their steps
together. Operators need not do anything.

### Packages (`packages`)

Three builds that pass Inspect, two of one version, one that fails, one repository, two uploads at once, five orders, one
fault (a write that fails, a move that fails, or a death). Fairness is not needed; it may stop.

- `PackageInstallable`: the file has the hash the state names, outside two named windows.
- `TargetsFollowPackage`: no device is told to go to a version that is not the package's, in memory and on disk.
- `RepositoryKept`: a repository uploaded stays until it is deleted, but for a death between the two moves.

### AdminAuth (`admin_auth`)

Two requests of one source, three tokens (in force, new, wrong), a ladder of two steps after one free try, a clock
up to four, two changes, one fault (a failed write or a restart). The ladder of the code has more steps of the same kind.

- `LadderIsClimbed`: each wrong token is counted after the lock of the one before, and beyond the free ones adds its own.
- `TokenInForceDecides`: what passes without a hash is the token in force, and that is not among those remembered as wrong.
- `InForceIsStored`: a restart brings the token that is in force, unless two changes crossed or one was not written.

### Registration, Settings and Brightness (`settings`)

One device and a stranger with its id, two keys the device may make, two SSH keys (alike), two time zones (alike), a plan with a night over midnight
in a day of three minutes and no plan, three edits, two faults of any kind. Deadlock is checked.

- `RegisteredIsKnown`: an agent that only polls passes or is told that it is unknown, unless the stranger's key took the place of its own.
- `SecondTryIsInTime`: the answer that refuses a wrong clock sets it.
- `AppliedIsInForce`: credentials noted as applied, which are not applied again, are those of the system (with sshd or without), unless an apply was left half way (`half`);
  sshd has read the drop-in, unless it was not told (`unread`).
- `ShutOutOnlyByClearing`: no failure leaves a device that takes only keys and has none: only the step that takes the keys an operator cleared away does, and then the password
  the operator set is in place for the console.
- `CheckSavesPlan`: each check leaves the plan learned on the card, zone included, or has met a failed write.

### Violation runs

`player_load` and `settings_keys` check what a
comment or document says and the code does not do: section 5.

## 4. What is proved

Each theorem holds for every value of the constants that satisfies the named assumptions:
any number of versions, contents, files, builds, offers, uploads, deaths, cuts. TLC has checked each inductive
invariant on the instance of section 3.

**OtaProofs** (`Safe`; from `VersionsAssumption`, `BoundsAssumption`). The properties are not inductive: that a dead
version is under a count depends on what the links name in each intermediate state of the switch and of the rollback. `IInv`
adds to `TypeOK` and `GuardedUnlessCut`
- `LinksInv`: what `current`, `previous`, `running` and `pending-verify` are at each `pc` (a program that applies an update
  is `current` and not dead, so it may become `previous`; the count is there before either link changes), and
- `CountInv`: the number in `pending-verify` is not below the starts so far, and
- `GaveUpInv`: a version not yet verified starts from the manifest that asked for it, from one it saved itself or from one from before a test card; once it is rolled back and while the server
  asks for it, it is in `failed-version` (or about to be written there), or `forgot` says what made the device forget it.

`Invariance` is Init, one step per action of Next, and PTL; from it `TypeCorrect`, `GuardedWhilePowered`
(`GuardedUnlessCut`), `RollbackTarget` (`RollbackTargetWorks`), `TwoStarts` (`TwoStartsUnlessCut`) and
`OneWindow` (`GuardLostOnlyInRollback`: with the invariant, only a cut at `removed` can lose the guard),
`OneLostDirectory` (`DirectoryLostOnlyByRollback`: what `Prune` and `StagePackage` remove is never `current`, and the links are switched to a version that has
been staged, which leaves the rollback) and `RefusedForGood` (`RetryOnlyInKnownCases`).

**ContentSyncProofs** (`Safe`; from `ContentsAssumption`, `SyncBoundsAssumption`). `IInv` is the conjunction of
- `SyncInv`: at each `pc`, what is known of the manifest being synchronised: offered, its files complete, saved, shown,
- `OfferedInv`: every manifest on disk, in hand or on the screen was offered,
- `FilesInv`: `SavedContentComplete` and `PlayedFilesKept`, each of which needs the other for the clean-up,
- `WayBackInv`: base.json is there before a test card replaces normal content, and goes only after normal content is back,

with `TypeOK`, `VersionIsShownUnlessLoadFails` and `WayBackUnlessInterrupted`. One lemma per part says that Next keeps it, from
the parts before. From `SyncInvariance`: `SyncTypeCorrect`, `SavedIsComplete`, `PlayedIsKept`, `VersionShown`, `WayBackLasts`,
`WayBackLost`, and `Refinement`: initial states map to initial states of `Display` and every step to a step or a stutter.

**PackagesProofs** (`Spec`; from `PackagesAssumption`, `TargetAssumption`). `PackageInstallable` is not inductive: a prune leaves one file,
and a restart goes back to the state on disk. `IInv` adds to `TypeOK` and `TargetsFollowPackage`
- `Kinds`: an upload past its check is of the kind its step is for,
- `InPlace`: an upload that is alone between rename and prune has its file in place and, once saved, is the package in memory and on disk,
- `Named`: what `PackageInstallable` says, of the state on disk as well as of that in memory, and
- `InTrash`: a repository that is away lies in the trash of an upload.

`Told` is what the steps of operators and devices have in common (the package stays, targets follow it), `Saved` what a new
package does. From `Invariance`: `TypeCorrect`, `Installable`, `TargetsCorrect`, `RepositoryStays`.

**ServerProofs** holds two parts of the server that share no state. The token (`Spec`; from `AuthAssumption`): `IInv` adds to `TypeOK`, `TokenInForceDecides` and `InForceIsStored`
- `Carried`: a request past its first look has a token and a source; one that verifies or changes has a hash, and one that changes that of its token,
- `Overtaken`: a check whose hash is no longer in force finds the new token remembered, so that it cannot be noted as wrong for good, and
- `OneWriter`: changes that did not cross were one at a time, and the one about to be put in force is on disk.

`Begun`, `Looked`, `Refused`, `Changed`, `HashRead` and `Restarted` say what each step makes of the request and the sources. From `Invariance`: `TypeCorrect`,
`InForceDecides`, `StoredInForce`. The ladder
needs `OneSlow`: one check has the slow hash, and from its second look on no lock lies beyond its time; so `WholeLadder` (`LadderIsClimbed`), which
speaks of each step, as the sum of the ladder would be a recursive function.

The media (`MediaSpec`; from `CacheAssumption`, `MediaAssumption`): each property is about what several actors may do to the same file, so `MediaIInv` says who owns what. It adds to `MediaTypeOK`
- `UploadInv`: what an upload knows at each step, and which device the operator is dealing with,
- `QueueInv`: an original in incoming/ belongs to a request that has it, to a job that waits, or to the worker's; a job removed before it began has lost its original,
- `HashInv`: a hash is held by those between the two steps of an adoption, and by nobody else,
- `NamesInv`: two uploads or jobs of a device never own one name, and the place of an owned name is empty until its owner puts the file there, but for the product of a removed job and what an adoption has put back (`Stray`),
- `DiskInv`: a file lies in a directory, a copy is in the index, and the clean-up adopts one of the files it has listed,
- `GoneInv`: of a deleted device nothing is under way, its jobs go before its directory, a job the worker had begun no longer has the directory to put its product in, and no adoption has a hash with which it could make that directory, and
- `CacheInv`: the content of a file the clean-up has looked through lies under a hash that is in use or used since, or the file is of an upload or job whose adoption is yet to come.

Lemmas on the queue (`WithoutLeaves`, `AppendAdds`) and on the upload records (`UploadGoes`, `UploadDone`, ...) carry the steps. From `MediaInvariance`: `MediaTypeCorrect`, `NothingLeft`
(`DeletedDeviceLeavesNothing`), `StagingOwned` (`StagingIsOwned`), and the action properties `ReadyFilesStay` (`ReadyStays`) and `NothingInUseEvicted` (`InUseKept`).
The exceptions of `DeletedDeviceLeavesNothing` are the ones the proof needs: the worker alone, whatever it is at, can leave nothing, and an adoption only one of a document, or the clean-up's.
The type of the playlists (`PlaylistTypeOK`) is not proved: their order is made by SelectSeq and a sort, which are recursive; TLC finds it true on the instance of `media`, and no other property depends on it.

**GstPlayerProofs** (`Safe`; from `ScenesAssumption`, `PlayerBoundsAssumption`). The invariant is one of the object Player, `Sound`: a pipeline is of an item of the
list, a timer is of an item that has started and is of its kind. Each method has a lemma that it leads from sound states to sound ones, those that go on in a list to states
that have not gone quiet, and the callbacks are put together from the methods they call. From `Invariance`: `TypeCorrect`, `CallbacksAlwaysFind`
(`CallbacksFindTheirItem`), and the action property `GoesQuietByStopOnly` (`IdleOnlyAfterStop`).

**SupervisorProofs** (`Safe`; from `SupervisorAssumption`). `SettledIsDesired` is about the one moment at which nothing is under way; what makes it true is spread over the pipe, the
plan of runOnce and the calls that wait. `IInv` adds to `TypeOK`
- `Phases`: what there is at each place of a run: the process, `cancel` (and whether a pause has it), whose call, what cannot be in the pipe yet,
- `Answers`: who waits for which request of the pipe, and
- `Kept`: for scene and brightness each, what is still to be written asks for what is wanted, and if nothing is, the last such request in the pipe does, or the process has it;
  or it is a kind that is `raced`: ordered while runOnce was sending, or a refused scene (observation 7 of section 5).

From `Invariance`: `TypeCorrect`, `SettledShowsDesired`, `PauseMissesNoRun` (`PausedRunIsCancelled`).

**SettingsProofs** (`Spec`; from `KeysAssumption`, `DayAssumption`, `SettingsAssumption`). `IInv` is the conjunction of
- `LinkInv`: which key the agent, the card, the server and a request under way have, and that a clock that was refused is set by the answer,
- `DeviceInv`: what of the credentials is in place at each step of an apply, `unread` and `half` being the two ways in which it is not what was noted, and
- `DisplayInv`: plan and zone in memory and on the card.

From `Invariance`: `TypeCorrect`, `RegisteredIsKnownAlways`, `SecondTryInTimeAlways`, `AppliedInForceAlways`, and the action properties `ShutOutByClearing`, `CheckSavesPlanAlways`.

**ManifestsProofs** (`Safe`; from `TemplatesAssumption`, `ManifestsAssumption`). Two arguments. `TemplatesInv`: every device resolves to a template
that is there (`Resolves`, so that what a manifest is made from has a type at all); a background that is saved, or came into use after maintenance looked at
the templates, is young or was saved again (`UploadInv`, `GcInv`), and maintenance takes neither. Then the manifest:
- `KeyInv`, `RequestsInv`, `DeviceInv`: a manifest in memory, and one a request is about to store, has a whole picture and was made from all of the content beside it (`Made`), or is `short`; while files are
  still to be hashed, those done are the content's (`Hashed`), and
- `OneAtATime`: as long as requests did not overlap there is one, the version it brings is the one on the screen, one whose runtime entry is gone leaves nothing in memory, and
  `applied` is true of the device unless that request is at its reply.

From `Invariance`: `TypeCorrect`, `AnswersAreWhole` (`AnswersWhole`: no deletion leaves half a manifest anywhere), `TemplatesResolveAlways`, `BackgroundsKept`, `LatestShownAlways`. That a manifest may be short without any mistake of
maintenance is the case that makes `short` necessary: a request reads the content, the file goes (or an operator takes the background off the template and maintenance removes it), the manifest is made, and the same file comes back with its key.

**Only model-checked**: what rests on liveness and fairness (`EndsWorking`, `RolloutSettles`, `TestCardEnds`, `Converges`, `EveryItemGetsItsTurn`, `PauseReleasesDisplay`,
`ResumePlaysAgain`, `HungIsReplaced`, `CallsReturn`, `ContentIsShown`), as these and ENABLED are beyond this prover. Every invariant and action property of the runs is a theorem.

## 5. What the code does otherwise than it says

Found by a run (quoted in `PROJECT.json`, `findings`):

1. A switch of scenes that was accepted is dropped by any fade that starts before it is done (`player_load`).
2. An operator who never set a root password and clears the SSH keys reaches no device: deviceAccess offers nothing
   (server/access.go:24), and the old keys stay, though server/access.go:68 says they are cleared (`settings_keys`).

Stated in a module under "what comments say, and the code does not do" without a run of its own; TLC finds the
counterexample when the definition is put into the cfg of the module's run:

3. `Ota!AlwaysGuarded`: rollback-check.sh removes `pending-verify` (22) before it points `current` back (25): a power cut in between leaves the
   failing version current for ever, though update.go:127 says the rollback protects it whenever the power goes. That this is the only such place is `GuardLostOnlyInRollback`, which is proved.
4. `Ota!CurrentPresent`: an unverified version may replace the directory of `previous` by an update; if it dies there, the rollback leads
   to a directory that is gone (update.go:171, rollback-check.sh:5).
5. `Ota!NoRetryAfterRollback`: a version that got as far as saving a manifest and is then rolled back is installed
   again, though update.go:88 says it is not retried.
6. `ContentSync!NoTestCardForever`: a test card whose Load was answered too late has no timer and stays, without a server, for ever, though testcard.go:15 says it
   cannot.
7. `Supervisor!CurrentIsSent`: runOnce may send an older scene after a newer one; the server then answers 304, and the older stays.
8. `Packages!AlwaysARepository`: between the two moves there is no repository, though deps.go:52 says there always is a complete one.
9. `Manifests!KeyIsAllInput`: the manifest in memory is taken for current by the key of its content, of which server/device.go:285 says that it misses no input of the manifest.
   Files are missed. That of a background: a picture made while it was gone is kept when it is back, and the other way round (TLC: one template, one request, three edits). And a media file: deleted between
   device.go:327, where the content is read, and the hash of it, it is left out of the manifest (manifest.go:255); uploaded again, it brings back the key the short manifest is kept under. The device is then served the short one for good, and the administration page calls it the latest (TLC: two edits).
10. `Settings!AlwaysALogin`: when keys are cleared, authorized_keys goes before the drop-in that refuses passwords: for a moment, or until the next try if a step
   fails, nobody can log in, which the order explained in agent/access.go:99 is to prevent.

Seen while modelling:

- A new version is started two times, not three, before it is rolled back (`TwoStartsUnlessCut`; docs/deployment.md:345).
- The content from before a test card, when it was saved before the offer, makes the device forget `failed-version` (the case "test" of `RetryOnlyInKnownCases`).
- A confirmed version may be rolled back: it dies between writing `pending-verify` for the next one and the switch (update.go:133),
  and is then started while it cannot reach the server.
- keepBase removes base.json before current.json is replaced: a death in between leaves the test card with no way back
  (the window `WayBackLostOnlyBeforeWrite` names, testcard.go:36).
- After a failed Load, the same version is answered 304 from then on (agent.go:461), so nothing tries it again.
- A change of the overlay alone restarts the list (gstplayer.py:611, 636; docs/architecture.md:181).
- Media switched on again during the fade to its stop leaves the area black for good (the one way `IdleOnlyAfterStop` names,
  gstplayer.py:601-604).
- A fade-in that was running when an item failed opens the veil over nothing (docs/architecture.md:180); and
  a list of one item that failed is never tried again.
- When the end of a video has set the fade to the next item and `_check_remaining` then replaces that fade, nobody goes
  on: the video stalls (gstplayer.py:834). `EveryItemGetsItsTurn` excludes this by name (`Stalled`).
- The rescue console resumes after one minute, docs/architecture.md:297 says fifteen.
- A job that is removed while the worker is at it gives its name free at once; the worker then discards its product by that name
  (jobs.go:205), which may be a later upload's file (the case `ReadyStays` names).
- Two requests for one device's manifest that build at once prune each other's image (device.go:418), and the manifest kept may
  name the one that is gone; so may a device that registers again while its directory is being erased. Nothing renders it again until its content
  changes (the exceptions of `ContentIsShown`).
- cacheAdopt takes the hash before the lock and looks at nothing under it (cache.go:150). So a file deleted in between is back when the store has its content (cache.go:171); a document's pages make the directory of an erased device again (linkPages, cache.go:368), and so does a job
  that begins, in time for the clean-up's adoption of any file (jobs.go:200); a newer file of the same name is replaced by the copy of the one before; and if the store has no copy, the newer file is stored under the hash of the one before:
  an original that led to that hash shows another content from then on, when it is uploaded again. (`late`, `revived` and the exceptions of `ReadyStays`, `DeletedDeviceLeavesNothing`.)
- A background uploaded again while maintenance is between looking at the old file and removing it goes (files.go:93-106; `resaved`).
- Two uploads of packages at once prune each other's file; a death or failed write after the rename leaves the hash of
  the build before (`overlapped`, `cut`).
- Two changes of the token at once may leave one stored and the other in force (`crossed`).
- agent/access.go: sshd is not told of a drop-in that is there already, so after a failed or interrupted reload the retry notes it as
  applied (117; `unread`); going back to earlier credentials after half an apply is skipped, as they are the ones noted (`half`).
- The plan is noted as saved though its file was not written (brightness.go:58; `unwritten`).
- A device whose key was replaced by another machine's goes on polling, and is refused, until it restarts; it does not
  register again, so the operator sees no request (the exception of `RegisteredIsKnown`).

## 6. What is not modelled, and why

- *Pixels*: rendering, cropping, the overlay plane, dimming as drawn. Pure functions no property of the state tells apart.
- *Pure I/O*: reading keyboards, hardware names, passwords, flags and certificates; archives; systemd's protocol.
- *Cryptography*: signing, hashing: a signature is right or the message is dropped.
- *Time*: durations and back-off are left out; a timer may fire at any time after it was set. A property that
  needs a duration is not stated.
- *Within what is modelled*: a download resumed from a `.part` file is one step; the contents of update.sh are one step
  that works or fails; a write to the pipe of the playing process does not block (gst.go:355 has no
  timeout; it would need a list of hundreds of items). The pages of a document are one file; previews (frames.go) only read. All contents have one size,
  and of the times of last use only their order to the clean-up is kept. The store's file is written whole or not at all (fsutil.WriteFile
  renames), so its format is left out.
- *Connections* (agent/transport.go): a request is answered, refused or lost; which address it was sent to changes no other state.
- *The web page and the scripts run by hand*: their state is the server's, or they are one command after the other.
- *The composition of supervisor and playing process*: see section 2.

## 7. Plan

Every component whose state matters has its module, and every safety property of a run its theorem. What could come next:

| module | what | what it needs |
|---|---|---|
| `Supervisor`, `GstPlayer` | that the process as the supervisor sees it is implemented by the player | an abstract process with requests and answers; too many states for TLC as one instance |
| `Packages`, `Ota` | that what is offered is what is installed | the seam `Pending` as a refinement instead of by hand |
