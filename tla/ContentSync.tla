------------------------------ MODULE ContentSync ------------------------------
(***************************************************************************)
(* How one device gets its content, keeps it and plays it: the main loop   *)
(* of the agent (internal/agent: agent.go, download.go, testcard.go), its   *)
(* files on the SD card, and the server's manifest as the device sees it.   *)
(*                                                                         *)
(* A manifest is the content and, for a test card, the moment it expires.  *)
(* Content is a set of files: media and the overlay image.  The screen is   *)
(* what the player was last asked to show (player.GST.desired): the player  *)
(* shows it now or once it has been restarted.                             *)
(***************************************************************************)
EXTENDS Naturals

CONSTANTS
  Contents,      \* normal contents of the device, over time
  TestCard,      \* the content of the test card
  Files,         \* content files
  Rendered,      \* those of them that the server renders; the others are media
  FileSets,      \* FileSets[c]: the files of content c
  None,
  MaxChanges,    \* bound: changes of the normal content
  MaxTests,      \* bound: test cards
  MaxCrashes,    \* bound: crashes and power cuts
  MaxRots,       \* bound: saved files found damaged after a restart
  MaxLoadErrors, \* bound: loads the player answers with an error or too late
  MaxWriteErrors \* bound: current.json cannot be written

ASSUME ContentsAssumption ==
  /\ TestCard \notin Contents
  /\ FileSets \in [Contents \cup {TestCard} -> SUBSET Files]
  /\ Rendered \subseteq Files
  /\ None \notin [content : Contents \cup {TestCard}, test : Nat]
ASSUME SyncBoundsAssumption ==
  {MaxChanges, MaxTests, MaxCrashes, MaxRots, MaxLoadErrors, MaxWriteErrors} \subseteq Nat

VARIABLES
  (* the server *)
  normal,    \* the content the device has when it is not tested
  test,      \* the test card being shown (0: none)
  over,      \* test cards whose time is over
  offered,   \* history: manifests the server has offered
  (* the SD card *)
  cache,     \* complete files in the media directory
  current,   \* current.json, or None
  base,      \* base.json, or None
  (* the agent *)
  pc,
  got,       \* the manifest being synchronised
  version,   \* Agent.manifestVer: the manifest it stands for, or None
  until,     \* Agent.testUntil: the test card it belongs to, or 0
  screen,    \* what the player was last asked to show, or None
  (* history and bounds *)
  hadNormal, \* current.json once held normal content
  changes, crashes, rots, loadErrors, writeErrors

server == <<normal, test, over, offered>>
disk   == <<cache, current, base>>
mem    == <<got, version, until, screen>>
bounds == <<changes, crashes, rots, loadErrors, writeErrors>>
vars   == <<server, disk, pc, mem, hadNormal, bounds>>

Manifests == [content : Contents \cup {TestCard}, test : 0..MaxTests]
FilesOf(m) == FileSets[m.content]
Scene(m, files) == [manifest |-> m, files |-> files]
FullScene(m) == Scene(m, FilesOf(m))

TypeOK ==
  /\ normal \in Contents
  /\ test \in 0..MaxTests
  /\ over \subseteq 1..MaxTests
  /\ offered \subseteq Manifests
  /\ cache \subseteq Files
  /\ current \in Manifests \cup {None}
  /\ base \in {m \in Manifests : m.test = 0} \cup {None}
  /\ pc \in {"down", "idle", "download", "keep", "write", "apply", "clean", "back", "drop"}
  /\ got \in Manifests \cup {None}
  /\ version \in Manifests \cup {None}
  /\ until \in 0..MaxTests
  /\ screen \in [manifest : Manifests, files : SUBSET Files] \cup {None}
  /\ hadNormal \in BOOLEAN
  /\ changes \in 0..MaxChanges
  /\ crashes \in 0..MaxCrashes
  /\ rots \in 0..MaxRots
  /\ loadErrors \in 0..MaxLoadErrors
  /\ writeErrors \in 0..MaxWriteErrors

NormalManifest(c) == [content |-> c, test |-> 0]

Init ==
  /\ normal \in Contents
  /\ test = 0
  /\ over = {}
  /\ offered = {NormalManifest(normal)}
  /\ cache = {}
  /\ current = None
  /\ base = None
  /\ pc = "down"
  /\ got = None
  /\ version = None
  /\ until = 0
  /\ screen = None
  /\ hadNormal = FALSE
  /\ changes = 0 /\ crashes = 0 /\ rots = 0 /\ loadErrors = 0 /\ writeErrors = 0

-----------------------------------------------------------------------------
(* The server. *)

Manifest(c, t) ==
  IF t # 0 THEN [content |-> TestCard, test |-> t] ELSE NormalManifest(c)

ServerManifest == Manifest(normal, test)

Change(c) ==
  /\ changes < MaxChanges
  /\ c # normal
  /\ normal' = c
  /\ offered' = offered \cup {Manifest(c, test)}
  /\ changes' = changes + 1
  /\ UNCHANGED <<test, over, disk, pc, mem, hadNormal, crashes, rots, loadErrors, writeErrors>>

(* A new test card; while one is shown, its new expiry makes it another. *)
StartTest(t) ==
  /\ t \notin over
  /\ test < t
  /\ \A o \in offered : o.test < t
  /\ test' = t
  /\ offered' = offered \cup {Manifest(normal, t)}
  /\ UNCHANGED <<normal, over, disk, pc, mem, hadNormal, bounds>>

CancelTest ==
  /\ test # 0
  /\ test' = 0
  /\ offered' = offered \cup {Manifest(normal, 0)}
  /\ UNCHANGED <<normal, over, disk, pc, mem, hadNormal, bounds>>

(* The time of a test card is over, whether the server still shows it, has *)
(* cancelled it or has replaced it.                                        *)
TimeIsUp(t) ==
  /\ t \notin over
  /\ \E o \in offered : o.test = t
  /\ over' = over \cup {t}
  /\ test' = IF test = t THEN 0 ELSE test
  /\ offered' = offered \cup {Manifest(normal, test')}
  /\ UNCHANGED <<normal, disk, pc, mem, hadNormal, bounds>>

-----------------------------------------------------------------------------
(* Starting: loadCurrent, without the server. *)

Expired(t) == t \in over

(* restore: play what is cached of m; partly cached content is not given a  *)
(* version, so that the server sends the manifest again.                    *)
Have(m) == FilesOf(m) \cap cache
Restores(m) == m # None /\ (Have(m) # {} \/ FilesOf(m) = {})

(* Mutant: partly cached content is given the version of the manifest. *)
Restore_AlwaysVersion(m) ==
  /\ Restores(m)
  /\ screen' = Scene(m, Have(m))
  /\ version' = m
  /\ until' = m.test

(* Mutant: the expiry of the restored content is forgotten. *)
Restore_NoExpiry(m) ==
  /\ Restores(m)
  /\ screen' = Scene(m, Have(m))
  /\ version' = IF Have(m) = FilesOf(m) THEN m ELSE None
  /\ until' = 0

Restore(m) ==
  /\ Restores(m)
  /\ screen' = Scene(m, Have(m))
  /\ version' = IF Have(m) = FilesOf(m) THEN m ELSE None
  /\ until' = m.test

(* The clock may be behind before the first contact: an expired test card   *)
(* may be restored as if it had not expired.                               *)
StartFromCurrent ==
  /\ pc = "down"
  /\ pc' = "idle"
  /\ IF Restores(current)
     THEN Restore(current)
     ELSE UNCHANGED <<version, until, screen>>
  /\ UNCHANGED <<server, disk, got, hadNormal, bounds>>

(* player.Load has taken the scene, but its answer is an error or too late: *)
(* apply returns before it notes the version and the expiry.                *)
LoadFails ==
  /\ loadErrors < MaxLoadErrors
  /\ loadErrors' = loadErrors + 1
  /\ UNCHANGED <<changes, crashes, rots, writeErrors>>

StartLoadFails ==
  /\ pc = "down"
  /\ Restores(current)
  /\ LoadFails
  /\ screen' = Scene(current, Have(current))
  /\ pc' = "idle"
  /\ UNCHANGED <<server, disk, got, version, until, hadNormal>>

StartFromBase ==
  /\ pc = "down"
  /\ current # None
  /\ Expired(current.test)
  /\ Restore(base)
  /\ pc' = "back"
  /\ UNCHANGED <<server, disk, got, hadNormal, bounds>>

-----------------------------------------------------------------------------
(* poll and syncManifest. *)

NotModified ==
  /\ pc = "idle"
  /\ version = ServerManifest
  /\ UNCHANGED vars

Poll ==
  /\ pc = "idle"
  /\ version # ServerManifest
  /\ got' = ServerManifest
  /\ pc' = "download"
  /\ UNCHANGED <<server, disk, version, until, screen, hadNormal, bounds>>

(* The media of the device now, and what was rendered for the manifest:     *)
(* nobody but the device itself makes the server render anew.               *)
Served == Rendered \cup FilesOf(NormalManifest(normal))

Download(f) ==
  /\ pc = "download"
  /\ f \in (FilesOf(got) \ cache) \cap Served
  /\ cache' = cache \cup {f}
  /\ UNCHANGED <<server, current, base, pc, mem, hadNormal, bounds>>

DownloadFails ==
  /\ pc = "download"
  /\ ~(FilesOf(got) \subseteq cache)
  /\ pc' = "idle"
  /\ got' = None
  /\ UNCHANGED <<server, disk, version, until, screen, hadNormal, bounds>>

(* Mutant: a failed download is only logged. *)
AllDownloaded_Unchecked ==
  /\ pc = "download"
  /\ pc' = "keep"
  /\ UNCHANGED <<server, disk, mem, hadNormal, bounds>>

AllDownloaded ==
  /\ pc = "download"
  /\ FilesOf(got) \subseteq cache
  /\ pc' = "keep"
  /\ UNCHANGED <<server, disk, mem, hadNormal, bounds>>

(* Mutant: a test card after a test card also replaces base.json. *)
KeepBase_EveryTest ==
  /\ pc = "keep"
  /\ base' = IF got.test = 0 THEN None ELSE current
  /\ pc' = "write"
  /\ UNCHANGED <<server, cache, current, mem, hadNormal, bounds>>

(* keepBase: before a test card is saved, normal content is put aside. *)
KeepBase ==
  /\ pc = "keep"
  /\ base' = CASE got.test = 0 -> None
               [] got.test # 0 /\ current # None /\ current.test = 0 -> current
               [] OTHER -> base
  /\ pc' = "write"
  /\ UNCHANGED <<server, cache, current, mem, hadNormal, bounds>>

WriteError ==
  /\ writeErrors < MaxWriteErrors
  /\ writeErrors' = writeErrors + 1
  /\ UNCHANGED <<changes, crashes, rots, loadErrors>>

(* That base.json cannot be written is only logged. *)
KeepBaseFails ==
  /\ pc = "keep"
  /\ got.test # 0 /\ current # None /\ current.test = 0
  /\ WriteError
  /\ pc' = "write"
  /\ UNCHANGED <<server, disk, mem, hadNormal>>

WriteCurrent ==
  /\ pc = "write"
  /\ current' = got
  /\ hadNormal' = (hadNormal \/ got.test = 0)
  /\ pc' = "apply"
  /\ UNCHANGED <<server, cache, base, mem, bounds>>

WriteFails ==
  /\ pc = "write"
  /\ WriteError
  /\ pc' = "idle"
  /\ got' = None
  /\ UNCHANGED <<server, disk, version, until, screen, hadNormal>>

Apply ==
  /\ pc = "apply"
  /\ screen' = FullScene(got)
  /\ version' = got
  /\ until' = got.test
  /\ pc' = "clean"
  /\ UNCHANGED <<server, disk, got, hadNormal, bounds>>

ApplyFails ==
  /\ pc = "apply"
  /\ LoadFails
  /\ screen' = FullScene(got)
  /\ pc' = "idle"
  /\ got' = None
  /\ UNCHANGED <<server, disk, version, until, hadNormal>>

(* Mutant: the normal content is not kept during a test card. *)
Kept_CurrentOnly == FilesOf(got)

(* cleanup keeps the files of the manifest and, during a test card, those   *)
(* of the content before it.                                                *)
Kept ==
  FilesOf(got) \cup (IF got.test # 0 /\ base # None THEN FilesOf(base) ELSE {})

CleanUp ==
  /\ pc = "clean"
  /\ cache' = cache \cap Kept
  /\ pc' = "idle"
  /\ got' = None
  /\ UNCHANGED <<server, current, base, version, until, screen, hadNormal, bounds>>

-----------------------------------------------------------------------------
(* expireTest and backToBase: the device leaves a test card by itself. *)

TestIsOver == until # 0 /\ Expired(until)

ExpireTest ==
  /\ pc = "idle"
  /\ TestIsOver
  /\ Restore(base)
  /\ pc' = "back"
  /\ UNCHANGED <<server, disk, got, hadNormal, bounds>>

(* Nothing to go back to: keep the test card and do not try again. *)
NoWayBack ==
  /\ pc = "idle"
  /\ TestIsOver
  /\ ~Restores(base)
  /\ until' = 0
  /\ UNCHANGED <<server, disk, pc, got, version, screen, hadNormal, bounds>>

BackFails ==
  /\ pc = "idle"
  /\ TestIsOver
  /\ Restores(base)
  /\ LoadFails
  /\ screen' = Scene(base, Have(base))
  /\ until' = 0
  /\ UNCHANGED <<server, disk, pc, got, version, hadNormal>>

BackWrite ==
  /\ pc = "back"
  /\ current' = base
  /\ pc' = "drop"
  /\ UNCHANGED <<server, cache, base, mem, hadNormal, bounds>>

(* ... and so is that current.json cannot; base.json goes all the same. *)
BackWriteFails ==
  /\ pc = "back"
  /\ WriteError
  /\ pc' = "drop"
  /\ UNCHANGED <<server, disk, mem, hadNormal>>

BackDrop ==
  /\ pc = "drop"
  /\ base' = None
  /\ pc' = "idle"
  /\ UNCHANGED <<server, cache, current, mem, hadNormal, bounds>>

-----------------------------------------------------------------------------

Crash ==
  /\ pc # "down"
  /\ crashes < MaxCrashes
  /\ crashes' = crashes + 1
  /\ pc' = "down"
  /\ got' = None
  /\ version' = None
  /\ until' = 0
  /\ screen' = None
  /\ UNCHANGED <<server, disk, hadNormal, changes, rots, loadErrors, writeErrors>>

(* A saved file is damaged; cached() finds out after the restart. *)
Rot(f) ==
  /\ pc = "down"
  /\ f \in cache
  /\ rots < MaxRots
  /\ rots' = rots + 1
  /\ cache' = cache \ {f}
  /\ UNCHANGED <<server, current, base, pc, mem, hadNormal,
                 changes, crashes, loadErrors, writeErrors>>

-----------------------------------------------------------------------------

Local ==
  \/ StartFromCurrent \/ StartLoadFails \/ StartFromBase
  \/ AllDownloaded \/ DownloadFails
  \/ KeepBase \/ KeepBaseFails \/ WriteCurrent \/ WriteFails \/ Apply \/ ApplyFails \/ CleanUp
  \/ ExpireTest \/ NoWayBack \/ BackFails \/ BackWrite \/ BackWriteFails \/ BackDrop

Next ==
  \/ \E c \in Contents : Change(c)
  \/ \E t \in 1..MaxTests : StartTest(t) \/ TimeIsUp(t)
  \/ CancelTest
  \/ NotModified \/ Poll
  \/ \E f \in Files : Download(f)
  \/ Local
  \/ Crash
  \/ \E f \in Files : Rot(f)

Safe == Init /\ [][Next]_vars

(* Without the server: systemd restarts the agent, its main loop goes on,   *)
(* the timer of the test card fires.                                        *)
Fairness == WF_vars(Local) /\ SF_vars(ExpireTest \/ NoWayBack)

Spec == Safe /\ Fairness

(* With it: the agent polls for ever, what is tried for ever succeeds.      *)
Online ==
  /\ WF_vars(Poll)
  /\ SF_vars(\E f \in Files : Download(f))
  /\ SF_vars(WriteCurrent)
  /\ SF_vars(Apply)
  /\ \A t \in 1..MaxTests : WF_vars(TimeIsUp(t))

-----------------------------------------------------------------------------
(* Properties. *)

Intact(m) == m # None => FilesOf(m) \subseteq cache

(* At every step of a synchronisation, were the power cut there, a restart  *)
(* without the server finds all the files of what it has to play: downloads *)
(* come first, then base.json, then current.json, cleaning up last          *)
(* (agent.go:375-398, 477-499).                                             *)
SavedContentComplete == rots = 0 => Intact(current) /\ Intact(base)

(* cleanup (agent.go:477) never deletes a file the player was asked to play.*)
PlayedFilesKept == screen # None => screen.files \subseteq cache

(* The version sent as If-None-Match (agent.go:348) stands for what is on   *)
(* the screen, as long as the player answers in time.                       *)
VersionIsShownUnlessLoadFails ==
  loadErrors = 0 /\ version # None => screen = FullScene(version)

(* A device that has had normal content can leave the saved test card by    *)
(* itself: base.json holds normal content (testcard.go:14-17).              *)
WayBack ==
  (hadNormal /\ current # None /\ current.test # 0) => (base # None /\ base.test = 0)

(* As long as no process dies and no write fails, there is always a way     *)
(* back, whatever follows what: test card on test card, expiry before,      *)
(* during or after a synchronisation; only while current.json is being      *)
(* replaced by normal content (testcard.go:36, agent.go:390) there is none. *)
WayBackUnlessInterrupted ==
  crashes = 0 /\ writeErrors = 0 => WayBack \/ (pc = "write" /\ got.test = 0)

(* Whatever dies, that is also the only moment at which the way back goes,  *)
(* but for writes that fail and are only logged (testcard.go:47, 70).       *)
WayBackLostOnlyBeforeWrite ==
  [][WayBack /\ ~WayBack' => (KeepBase /\ got.test = 0) \/ writeErrors > 0]_vars

(* Without any help of the server a device does not go on showing a test    *)
(* card that is over when it has content to go back to, as long as the      *)
(* player answers in time (expireTest, testcard.go:78; loadCurrent).        *)
OnOldTest ==
  /\ pc # "down"
  /\ screen # None
  /\ Expired(screen.manifest.test)
  /\ base # None
TestCardEnds == OnOldTest ~> (~OnOldTest \/ loadErrors > 0)

(* With a server whose content stays the same, a device ends up showing all *)
(* of it, whatever crashed, was damaged or could not be written before: no  *)
(* 304 stops it half-way (restore, agent.go:414-444; poll, 343-372).        *)
Converges == Online => <>[](screen = FullScene(ServerManifest) \/ loadErrors > 0)

(* The screen behaves as the abstract display. *)
Screen == INSTANCE Display WITH
  Offerable <- Manifests,
  Nothing   <- None,
  damaged   <- rots > 0
ScreenIsADisplay == Screen!Spec

-----------------------------------------------------------------------------
(* What documents and comments say and the code does not do. *)

(* testcard.go:15-16: a test card must not be shown for ever.               *)
NoTestCardForever == OnOldTest ~> ~OnOldTest
================================================================================
