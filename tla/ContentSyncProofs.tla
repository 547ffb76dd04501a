--------------------------- MODULE ContentSyncProofs ---------------------------
(***************************************************************************)
(* What ContentSync promises for every set of contents and files and every *)
(* bound, and that the screen is the abstract display of module Display.   *)
(*                                                                         *)
(* SavedContentComplete is not inductive: that the clean-up spares what is *)
(* saved rests on what has been saved, and on base.json being gone when the *)
(* new content is normal, at each point of a synchronisation (SyncInv).     *)
(***************************************************************************)
EXTENDS ContentSync, TLAPS

(* Where a synchronisation is, and what it has done so far. *)
SyncInv ==
  /\ pc \in {"download", "keep", "write", "apply", "clean"} => got \in offered
  /\ pc \in {"keep", "write", "apply", "clean"} => FilesOf(got) \subseteq cache
  /\ pc \in {"apply", "clean"} => current = got
  /\ pc \in {"write", "apply", "clean"} /\ got.test = 0 => base = None
  /\ pc = "clean" => screen = FullScene(got)
  /\ pc = "down" => screen = None
  /\ pc = "back" => base # None

(* Everything saved was offered by the server once. *)
OfferedInv ==
  /\ ServerManifest \in offered
  /\ current \in offered \cup {None}
  /\ base \in offered \cup {None}

FilesInv == SavedContentComplete /\ PlayedFilesKept

(* What makes the way back last. *)
WayBackInv ==
  /\ hadNormal => current # None
  /\ writeErrors = 0 =>
       /\ pc = "write" /\ got.test # 0 /\ current # None /\ current.test = 0 => base # None
       /\ pc = "drop" => current # None /\ current.test = 0

IInv ==
  /\ TypeOK
  /\ SyncInv
  /\ OfferedInv
  /\ FilesInv
  /\ VersionIsShownUnlessLoadFails
  /\ WayBackInv
  /\ WayBackUnlessInterrupted

-----------------------------------------------------------------------------

(* The bounds are natural numbers. *)
LEMMA BoundsType ==
  /\ MaxChanges \in Nat /\ MaxTests \in Nat /\ MaxCrashes \in Nat
  /\ MaxRots \in Nat /\ MaxLoadErrors \in Nat /\ MaxWriteErrors \in Nat
<1>. QED
  BY SyncBoundsAssumption

(* None is no manifest. *)
LEMMA NoneIsNoManifest == None \notin Manifests
<1>. QED
  BY ContentsAssumption, BoundsType DEF Manifests

(* The files of a manifest are content files. *)
LEMMA FilesOfType ==
  ASSUME NEW m \in Manifests
  PROVE  FilesOf(m) \subseteq Files
<1>. QED
  BY ContentsAssumption DEF FilesOf, Manifests

(* A manifest's test card is within the bound. *)
LEMMA TestType ==
  ASSUME NEW m \in Manifests
  PROVE  m.test \in 0..MaxTests
<1>. QED
  BY DEF Manifests

(* What the server offers is a manifest. *)
LEMMA ManifestType ==
  ASSUME NEW c \in Contents, NEW t \in 0..MaxTests
  PROVE  Manifest(c, t) \in Manifests
<1>. QED
  BY BoundsType DEF Manifest, NormalManifest, Manifests

(* The scene of a manifest, whole or of the files there are, is a scene. *)
LEMMA SceneType ==
  ASSUME NEW m \in Manifests
  PROVE  /\ FullScene(m) \in [manifest : Manifests, files : SUBSET Files]
         /\ Scene(m, Have(m)) \in [manifest : Manifests, files : SUBSET Files]
<1>. QED
  BY FilesOfType DEF FullScene, Scene, Have

(* A device before its first start satisfies the inductive invariant. *)
LEMMA InitIInv == Init => IInv
<1>. SUFFICES ASSUME Init PROVE IInv
  OBVIOUS
<1>. USE BoundsType DEF Init
<1>1. TypeOK
  <2>1. offered \subseteq Manifests /\ None \in Manifests \cup {None}
    BY DEF Manifests, NormalManifest
  <2>2. 0 \in 0..MaxTests /\ 0 \in 0..MaxRots /\ 0 \in 0..MaxCrashes /\ 0 \in 0..MaxChanges
        /\ 0 \in 0..MaxLoadErrors /\ 0 \in 0..MaxWriteErrors
    OBVIOUS
  <2>. QED
    BY <2>1, <2>2, Zenon DEF TypeOK
<1>2. SyncInv
  BY DEF SyncInv
<1>3. OfferedInv
  BY DEF OfferedInv, ServerManifest, Manifest
<1>4. FilesInv
  BY DEF FilesInv, SavedContentComplete, PlayedFilesKept, Intact
<1>5. VersionIsShownUnlessLoadFails
  BY DEF VersionIsShownUnlessLoadFails
<1>6. WayBackInv /\ WayBackUnlessInterrupted
  BY DEF WayBackInv, WayBackUnlessInterrupted, WayBack
<1>. QED
  BY <1>1, <1>2, <1>3, <1>4, <1>5, <1>6 DEF IInv

(* Every step keeps the types. *)
LEMMA NextTypeOK ==
  ASSUME TypeOK, SyncInv, [Next]_vars
  PROVE  TypeOK'
<1>. USE BoundsType, ManifestType, SceneType, NoneIsNoManifest DEF TypeOK
<1>1. ASSUME NEW c \in Contents, Change(c) PROVE TypeOK'
  BY <1>1 DEF Change, vars, server, disk, mem, bounds
<1>2. ASSUME NEW t \in 1..MaxTests, StartTest(t) PROVE TypeOK'
  BY <1>2 DEF StartTest, vars, server, disk, mem, bounds
<1>3. CASE CancelTest
  BY <1>3 DEF CancelTest, vars, server, disk, mem, bounds
<1>4. ASSUME NEW t \in 1..MaxTests, TimeIsUp(t) PROVE TypeOK'
  BY <1>4 DEF TimeIsUp, vars, server, disk, mem, bounds
<1>5. CASE StartFromCurrent
  <2>1. CASE Restores(current)
    <3>1. current \in Manifests
      BY <2>1 DEF Restores
    <3>2. screen' = Scene(current, Have(current)) /\ until' = current.test
          /\ version' \in {current, None}
      BY <1>5, <2>1 DEF StartFromCurrent, Restore
    <3>. QED
      BY <1>5, <3>1, <3>2, TestType DEF StartFromCurrent, server, disk, bounds
  <2>2. CASE ~Restores(current)
    BY <1>5, <2>2 DEF StartFromCurrent, server, disk, bounds
  <2>. QED
    BY <2>1, <2>2
<1>6. CASE StartLoadFails
  BY <1>6 DEF StartLoadFails, LoadFails, Restores, Have, vars, server, disk, mem, bounds
<1>7. CASE StartFromBase
  BY <1>7 DEF StartFromBase, Restore, Restores, Have, vars, server, disk, mem, bounds
<1>8. CASE NotModified
  BY <1>8 DEF NotModified, vars, server, disk, mem, bounds
<1>9. CASE Poll
  BY <1>9 DEF Poll, ServerManifest, vars, server, disk, mem, bounds
<1>10. ASSUME NEW f \in Files, Download(f) PROVE TypeOK'
  BY <1>10 DEF Download, vars, server, disk, mem, bounds
<1>11. CASE DownloadFails
  BY <1>11 DEF DownloadFails, vars, server, disk, mem, bounds
<1>12. CASE AllDownloaded
  BY <1>12 DEF AllDownloaded, vars, server, disk, mem, bounds
<1>13. CASE KeepBase
  BY <1>13 DEF KeepBase, vars, server, disk, mem, bounds
<1>14. CASE KeepBaseFails
  BY <1>14 DEF KeepBaseFails, WriteError, vars, server, disk, mem, bounds
<1>15. CASE WriteCurrent
  BY <1>15 DEF WriteCurrent, SyncInv, vars, server, disk, mem, bounds
<1>16. CASE WriteFails
  BY <1>16 DEF WriteFails, WriteError, vars, server, disk, mem, bounds
<1>17. CASE Apply
  <2>1. got \in Manifests
    BY <1>17 DEF Apply, SyncInv
  <2>. QED
    BY <1>17, <2>1, TestType DEF Apply, vars, server, disk, bounds
<1>18. CASE ApplyFails
  BY <1>18 DEF ApplyFails, LoadFails, SyncInv, vars, server, disk, mem, bounds
<1>19. CASE CleanUp
  BY <1>19 DEF CleanUp, Kept, vars, server, disk, mem, bounds
<1>20. CASE ExpireTest
  BY <1>20 DEF ExpireTest, Restore, Restores, Have, vars, server, disk, mem, bounds
<1>21. CASE NoWayBack
  BY <1>21 DEF NoWayBack, vars, server, disk, mem, bounds
<1>22. CASE BackFails
  BY <1>22 DEF BackFails, LoadFails, Restores, Have, vars, server, disk, mem, bounds
<1>23. CASE BackWrite
  BY <1>23 DEF BackWrite, SyncInv, vars, server, disk, mem, bounds
<1>24. CASE BackWriteFails
  BY <1>24 DEF BackWriteFails, WriteError, vars, server, disk, mem, bounds
<1>25. CASE BackDrop
  BY <1>25 DEF BackDrop, vars, server, disk, mem, bounds
<1>26. CASE Crash
  BY <1>26 DEF Crash, vars, server, disk, mem, bounds
<1>27. ASSUME NEW f \in Files, Rot(f) PROVE TypeOK'
  BY <1>27 DEF Rot, vars, server, disk, mem, bounds
<1>28. CASE UNCHANGED vars
  BY <1>28 DEF vars, server, disk, mem, bounds
<1>. QED
  BY <1>1, <1>2, <1>3, <1>4, <1>5, <1>6, <1>7, <1>8, <1>9, <1>10, <1>11,
     <1>12, <1>13, <1>14, <1>15, <1>16, <1>17, <1>18, <1>19, <1>20, <1>21,
     <1>22, <1>23, <1>24, <1>25, <1>26, <1>27, <1>28
  DEF Next, Local

(* Every step keeps what the program counter says of the agent's memory. *)
LEMMA NextSyncInv ==
  ASSUME TypeOK, SyncInv, OfferedInv, [Next]_vars
  PROVE  SyncInv'
<1>. USE NoneIsNoManifest DEF TypeOK, SyncInv
<1>1. ASSUME NEW c \in Contents, Change(c) PROVE SyncInv'
  BY <1>1 DEF Change, vars, server, disk, mem, bounds
<1>2. ASSUME NEW t \in 1..MaxTests, StartTest(t) PROVE SyncInv'
  BY <1>2 DEF StartTest, vars, server, disk, mem, bounds
<1>3. CASE CancelTest
  BY <1>3 DEF CancelTest, vars, server, disk, mem, bounds
<1>4. ASSUME NEW t \in 1..MaxTests, TimeIsUp(t) PROVE SyncInv'
  BY <1>4 DEF TimeIsUp, vars, server, disk, mem, bounds
<1>5. CASE StartFromCurrent
  BY <1>5 DEF StartFromCurrent, Restore, Restores, Have, vars, server, disk, mem, bounds
<1>6. CASE StartLoadFails
  BY <1>6 DEF StartLoadFails, LoadFails, Restores, Have, vars, server, disk, mem, bounds
<1>7. CASE StartFromBase
  BY <1>7 DEF StartFromBase, Restore, Restores, Have, vars, server, disk, mem, bounds
<1>8. CASE NotModified
  BY <1>8 DEF NotModified, vars, server, disk, mem, bounds
<1>9. CASE Poll
  BY <1>9 DEF Poll, OfferedInv, vars, server, disk, mem, bounds
<1>10. ASSUME NEW f \in Files, Download(f) PROVE SyncInv'
  BY <1>10 DEF Download, vars, server, disk, mem, bounds
<1>11. CASE DownloadFails
  BY <1>11 DEF DownloadFails, vars, server, disk, mem, bounds
<1>12. CASE AllDownloaded
  BY <1>12 DEF AllDownloaded, vars, server, disk, mem, bounds
<1>13. CASE KeepBase
  BY <1>13 DEF KeepBase, vars, server, disk, mem, bounds
<1>14. CASE KeepBaseFails
  BY <1>14 DEF KeepBaseFails, WriteError, vars, server, disk, mem, bounds
<1>15. CASE WriteCurrent
  BY <1>15 DEF WriteCurrent, vars, server, disk, mem, bounds
<1>16. CASE WriteFails
  BY <1>16 DEF WriteFails, WriteError, vars, server, disk, mem, bounds
<1>17. CASE Apply
  BY <1>17 DEF Apply, vars, server, disk, mem, bounds
<1>18. CASE ApplyFails
  BY <1>18 DEF ApplyFails, LoadFails, vars, server, disk, mem, bounds
<1>19. CASE CleanUp
  BY <1>19 DEF CleanUp, Kept, vars, server, disk, mem, bounds
<1>20. CASE ExpireTest
  BY <1>20 DEF ExpireTest, Restore, Restores, Have, vars, server, disk, mem, bounds
<1>21. CASE NoWayBack
  BY <1>21 DEF NoWayBack, vars, server, disk, mem, bounds
<1>22. CASE BackFails
  BY <1>22 DEF BackFails, LoadFails, Restores, Have, vars, server, disk, mem, bounds
<1>23. CASE BackWrite
  BY <1>23 DEF BackWrite, vars, server, disk, mem, bounds
<1>24. CASE BackWriteFails
  BY <1>24 DEF BackWriteFails, WriteError, vars, server, disk, mem, bounds
<1>25. CASE BackDrop
  BY <1>25 DEF BackDrop, vars, server, disk, mem, bounds
<1>26. CASE Crash
  BY <1>26 DEF Crash, vars, server, disk, mem, bounds
<1>27. ASSUME NEW f \in Files, Rot(f) PROVE SyncInv'
  BY <1>27 DEF Rot, vars, server, disk, mem, bounds
<1>28. CASE UNCHANGED vars
  BY <1>28 DEF vars, server, disk, mem, bounds
<1>. QED
  BY <1>1, <1>2, <1>3, <1>4, <1>5, <1>6, <1>7, <1>8, <1>9, <1>10, <1>11,
     <1>12, <1>13, <1>14, <1>15, <1>16, <1>17, <1>18, <1>19, <1>20, <1>21,
     <1>22, <1>23, <1>24, <1>25, <1>26, <1>27, <1>28
  DEF Next, Local

(* Every step keeps what is saved among what was offered. *)
LEMMA NextOfferedInv ==
  ASSUME TypeOK, SyncInv, OfferedInv, [Next]_vars
  PROVE  OfferedInv'
<1>. USE DEF OfferedInv, ServerManifest
<1>1. ASSUME NEW c \in Contents, Change(c) PROVE OfferedInv'
  BY <1>1 DEF Change, vars, server, disk, mem, bounds
<1>2. ASSUME NEW t \in 1..MaxTests, StartTest(t) PROVE OfferedInv'
  BY <1>2 DEF StartTest, vars, server, disk, mem, bounds
<1>3. CASE CancelTest
  BY <1>3 DEF CancelTest, vars, server, disk, mem, bounds
<1>4. ASSUME NEW t \in 1..MaxTests, TimeIsUp(t) PROVE OfferedInv'
  BY <1>4 DEF TimeIsUp, vars, server, disk, mem, bounds
<1>5. CASE StartFromCurrent
  BY <1>5 DEF StartFromCurrent, Restore, Restores, Have, vars, server, disk, mem, bounds
<1>6. CASE StartLoadFails
  BY <1>6 DEF StartLoadFails, LoadFails, Restores, Have, vars, server, disk, mem, bounds
<1>7. CASE StartFromBase
  BY <1>7 DEF StartFromBase, Restore, Restores, Have, vars, server, disk, mem, bounds
<1>8. CASE NotModified
  BY <1>8 DEF NotModified, vars, server, disk, mem, bounds
<1>9. CASE Poll
  BY <1>9 DEF Poll, vars, server, disk, mem, bounds
<1>10. ASSUME NEW f \in Files, Download(f) PROVE OfferedInv'
  BY <1>10 DEF Download, vars, server, disk, mem, bounds
<1>11. CASE DownloadFails
  BY <1>11 DEF DownloadFails, vars, server, disk, mem, bounds
<1>12. CASE AllDownloaded
  BY <1>12 DEF AllDownloaded, vars, server, disk, mem, bounds
<1>13. CASE KeepBase
  BY <1>13 DEF KeepBase, SyncInv, vars, server, disk, mem, bounds
<1>14. CASE KeepBaseFails
  BY <1>14 DEF KeepBaseFails, WriteError, vars, server, disk, mem, bounds
<1>15. CASE WriteCurrent
  BY <1>15 DEF WriteCurrent, SyncInv, vars, server, disk, mem, bounds
<1>16. CASE WriteFails
  BY <1>16 DEF WriteFails, WriteError, vars, server, disk, mem, bounds
<1>17. CASE Apply
  BY <1>17 DEF Apply, vars, server, disk, mem, bounds
<1>18. CASE ApplyFails
  BY <1>18 DEF ApplyFails, LoadFails, vars, server, disk, mem, bounds
<1>19. CASE CleanUp
  BY <1>19 DEF CleanUp, Kept, vars, server, disk, mem, bounds
<1>20. CASE ExpireTest
  BY <1>20 DEF ExpireTest, Restore, Restores, Have, vars, server, disk, mem, bounds
<1>21. CASE NoWayBack
  BY <1>21 DEF NoWayBack, vars, server, disk, mem, bounds
<1>22. CASE BackFails
  BY <1>22 DEF BackFails, LoadFails, Restores, Have, vars, server, disk, mem, bounds
<1>23. CASE BackWrite
  BY <1>23 DEF BackWrite, vars, server, disk, mem, bounds
<1>24. CASE BackWriteFails
  BY <1>24 DEF BackWriteFails, WriteError, vars, server, disk, mem, bounds
<1>25. CASE BackDrop
  BY <1>25 DEF BackDrop, vars, server, disk, mem, bounds
<1>26. CASE Crash
  BY <1>26 DEF Crash, vars, server, disk, mem, bounds
<1>27. ASSUME NEW f \in Files, Rot(f) PROVE OfferedInv'
  BY <1>27 DEF Rot, vars, server, disk, mem, bounds
<1>28. CASE UNCHANGED vars
  BY <1>28 DEF vars, server, disk, mem, bounds
<1>. QED
  BY <1>1, <1>2, <1>3, <1>4, <1>5, <1>6, <1>7, <1>8, <1>9, <1>10, <1>11,
     <1>12, <1>13, <1>14, <1>15, <1>16, <1>17, <1>18, <1>19, <1>20, <1>21,
     <1>22, <1>23, <1>24, <1>25, <1>26, <1>27, <1>28
  DEF Next, Local

(* Every step keeps the files of what is saved and of what is played. *)
LEMMA NextFilesInv ==
  ASSUME TypeOK, SyncInv, FilesInv, [Next]_vars
  PROVE  FilesInv'
<1>. USE BoundsType, NoneIsNoManifest
     DEF TypeOK, FilesInv, SavedContentComplete, PlayedFilesKept, Intact
<1>1. ASSUME NEW c \in Contents, Change(c) PROVE FilesInv'
  BY <1>1 DEF Change, vars, server, disk, mem, bounds
<1>2. ASSUME NEW t \in 1..MaxTests, StartTest(t) PROVE FilesInv'
  BY <1>2 DEF StartTest, vars, server, disk, mem, bounds
<1>3. CASE CancelTest
  BY <1>3 DEF CancelTest, vars, server, disk, mem, bounds
<1>4. ASSUME NEW t \in 1..MaxTests, TimeIsUp(t) PROVE FilesInv'
  BY <1>4 DEF TimeIsUp, vars, server, disk, mem, bounds
<1>5. CASE StartFromCurrent
  BY <1>5 DEF StartFromCurrent, Restore, Restores, Have, Scene, vars, server, disk, mem, bounds
<1>6. CASE StartLoadFails
  BY <1>6 DEF StartLoadFails, LoadFails, Restores, Have, Scene, vars, server, disk, mem, bounds
<1>7. CASE StartFromBase
  BY <1>7 DEF StartFromBase, Restore, Restores, Have, Scene, vars, server, disk, mem, bounds
<1>8. CASE NotModified
  BY <1>8 DEF NotModified, vars, server, disk, mem, bounds
<1>9. CASE Poll
  BY <1>9 DEF Poll, vars, server, disk, mem, bounds
<1>10. ASSUME NEW f \in Files, Download(f) PROVE FilesInv'
  BY <1>10 DEF Download, vars, server, disk, mem, bounds
<1>11. CASE DownloadFails
  BY <1>11 DEF DownloadFails, vars, server, disk, mem, bounds
<1>12. CASE AllDownloaded
  BY <1>12 DEF AllDownloaded, vars, server, disk, mem, bounds
<1>13. CASE KeepBase
  BY <1>13 DEF KeepBase, vars, server, disk, mem, bounds
<1>14. CASE KeepBaseFails
  BY <1>14 DEF KeepBaseFails, WriteError, vars, server, disk, mem, bounds
<1>15. CASE WriteCurrent
  BY <1>15 DEF WriteCurrent, SyncInv, FullScene, Scene, vars, server, disk, mem, bounds
<1>16. CASE WriteFails
  BY <1>16 DEF WriteFails, WriteError, vars, server, disk, mem, bounds
<1>17. CASE Apply
  BY <1>17 DEF Apply, SyncInv, FullScene, Scene, vars, server, disk, mem, bounds
<1>18. CASE ApplyFails
  BY <1>18 DEF ApplyFails, LoadFails, SyncInv, FullScene, Scene, vars, server, disk, mem, bounds
<1>19. CASE CleanUp
  BY <1>19 DEF CleanUp, Kept, SyncInv, FullScene, Scene, vars, server, disk, mem, bounds
<1>20. CASE ExpireTest
  BY <1>20 DEF ExpireTest, Restore, Restores, Have, Scene, vars, server, disk, mem, bounds
<1>21. CASE NoWayBack
  BY <1>21 DEF NoWayBack, vars, server, disk, mem, bounds
<1>22. CASE BackFails
  BY <1>22 DEF BackFails, LoadFails, Restores, Have, Scene, vars, server, disk, mem, bounds
<1>23. CASE BackWrite
  BY <1>23 DEF BackWrite, vars, server, disk, mem, bounds
<1>24. CASE BackWriteFails
  BY <1>24 DEF BackWriteFails, WriteError, vars, server, disk, mem, bounds
<1>25. CASE BackDrop
  BY <1>25 DEF BackDrop, vars, server, disk, mem, bounds
<1>26. CASE Crash
  BY <1>26 DEF Crash, vars, server, disk, mem, bounds
<1>27. ASSUME NEW f \in Files, Rot(f) PROVE FilesInv'
  BY <1>27 DEF Rot, SyncInv, vars, server, disk, mem, bounds
<1>28. CASE UNCHANGED vars
  BY <1>28 DEF vars, server, disk, mem, bounds
<1>. QED
  BY <1>1, <1>2, <1>3, <1>4, <1>5, <1>6, <1>7, <1>8, <1>9, <1>10, <1>11,
     <1>12, <1>13, <1>14, <1>15, <1>16, <1>17, <1>18, <1>19, <1>20, <1>21,
     <1>22, <1>23, <1>24, <1>25, <1>26, <1>27, <1>28
  DEF Next, Local

(* Every step keeps the version in step with the screen. *)
LEMMA NextVersionIsShown ==
  ASSUME TypeOK, VersionIsShownUnlessLoadFails, [Next]_vars
  PROVE  VersionIsShownUnlessLoadFails'
<1>. USE BoundsType DEF TypeOK, VersionIsShownUnlessLoadFails
<1>1. ASSUME NEW c \in Contents, Change(c) PROVE VersionIsShownUnlessLoadFails'
  BY <1>1 DEF Change, vars, server, disk, mem, bounds
<1>2. ASSUME NEW t \in 1..MaxTests, StartTest(t) PROVE VersionIsShownUnlessLoadFails'
  BY <1>2 DEF StartTest, vars, server, disk, mem, bounds
<1>3. CASE CancelTest
  BY <1>3 DEF CancelTest, vars, server, disk, mem, bounds
<1>4. ASSUME NEW t \in 1..MaxTests, TimeIsUp(t) PROVE VersionIsShownUnlessLoadFails'
  BY <1>4 DEF TimeIsUp, vars, server, disk, mem, bounds
<1>5. CASE StartFromCurrent
  BY <1>5 DEF StartFromCurrent, Restore, Restores, Have, FullScene, vars, server, disk, mem, bounds
<1>6. CASE StartLoadFails
  BY <1>6 DEF StartLoadFails, LoadFails, Restores, Have, vars, server, disk, mem, bounds
<1>7. CASE StartFromBase
  BY <1>7 DEF StartFromBase, Restore, Restores, Have, FullScene, vars, server, disk, mem, bounds
<1>8. CASE NotModified
  BY <1>8 DEF NotModified, vars, server, disk, mem, bounds
<1>9. CASE Poll
  BY <1>9 DEF Poll, vars, server, disk, mem, bounds
<1>10. ASSUME NEW f \in Files, Download(f) PROVE VersionIsShownUnlessLoadFails'
  BY <1>10 DEF Download, vars, server, disk, mem, bounds
<1>11. CASE DownloadFails
  BY <1>11 DEF DownloadFails, vars, server, disk, mem, bounds
<1>12. CASE AllDownloaded
  BY <1>12 DEF AllDownloaded, vars, server, disk, mem, bounds
<1>13. CASE KeepBase
  BY <1>13 DEF KeepBase, vars, server, disk, mem, bounds
<1>14. CASE KeepBaseFails
  BY <1>14 DEF KeepBaseFails, WriteError, vars, server, disk, mem, bounds
<1>15. CASE WriteCurrent
  BY <1>15 DEF WriteCurrent, vars, server, disk, mem, bounds
<1>16. CASE WriteFails
  BY <1>16 DEF WriteFails, WriteError, vars, server, disk, mem, bounds
<1>17. CASE Apply
  BY <1>17 DEF Apply, vars, server, disk, mem, bounds
<1>18. CASE ApplyFails
  BY <1>18 DEF ApplyFails, LoadFails, vars, server, disk, mem, bounds
<1>19. CASE CleanUp
  BY <1>19 DEF CleanUp, Kept, vars, server, disk, mem, bounds
<1>20. CASE ExpireTest
  BY <1>20 DEF ExpireTest, Restore, Restores, Have, FullScene, vars, server, disk, mem, bounds
<1>21. CASE NoWayBack
  BY <1>21 DEF NoWayBack, vars, server, disk, mem, bounds
<1>22. CASE BackFails
  BY <1>22 DEF BackFails, LoadFails, Restores, Have, vars, server, disk, mem, bounds
<1>23. CASE BackWrite
  BY <1>23 DEF BackWrite, vars, server, disk, mem, bounds
<1>24. CASE BackWriteFails
  BY <1>24 DEF BackWriteFails, WriteError, vars, server, disk, mem, bounds
<1>25. CASE BackDrop
  BY <1>25 DEF BackDrop, vars, server, disk, mem, bounds
<1>26. CASE Crash
  BY <1>26 DEF Crash, vars, server, disk, mem, bounds
<1>27. ASSUME NEW f \in Files, Rot(f) PROVE VersionIsShownUnlessLoadFails'
  BY <1>27 DEF Rot, vars, server, disk, mem, bounds
<1>28. CASE UNCHANGED vars
  BY <1>28 DEF vars, server, disk, mem, bounds
<1>. QED
  BY <1>1, <1>2, <1>3, <1>4, <1>5, <1>6, <1>7, <1>8, <1>9, <1>10, <1>11,
     <1>12, <1>13, <1>14, <1>15, <1>16, <1>17, <1>18, <1>19, <1>20, <1>21,
     <1>22, <1>23, <1>24, <1>25, <1>26, <1>27, <1>28
  DEF Next, Local

(* Every step keeps what makes the way back last. *)
LEMMA NextWayBackInv ==
  ASSUME TypeOK, SyncInv, WayBackInv, [Next]_vars
  PROVE  WayBackInv'
<1>. USE BoundsType, NoneIsNoManifest DEF TypeOK, SyncInv, WayBackInv
<1>1. ASSUME NEW c \in Contents, Change(c) PROVE WayBackInv'
  BY <1>1 DEF Change, vars, server, disk, mem, bounds
<1>2. ASSUME NEW t \in 1..MaxTests, StartTest(t) PROVE WayBackInv'
  BY <1>2 DEF StartTest, vars, server, disk, mem, bounds
<1>3. CASE CancelTest
  BY <1>3 DEF CancelTest, vars, server, disk, mem, bounds
<1>4. ASSUME NEW t \in 1..MaxTests, TimeIsUp(t) PROVE WayBackInv'
  BY <1>4 DEF TimeIsUp, vars, server, disk, mem, bounds
<1>5. CASE StartFromCurrent
  BY <1>5 DEF StartFromCurrent, Restore, Restores, Have, vars, server, disk, mem, bounds
<1>6. CASE StartLoadFails
  BY <1>6 DEF StartLoadFails, LoadFails, Restores, Have, vars, server, disk, mem, bounds
<1>7. CASE StartFromBase
  BY <1>7 DEF StartFromBase, Restore, Restores, Have, vars, server, disk, mem, bounds
<1>8. CASE NotModified
  BY <1>8 DEF NotModified, vars, server, disk, mem, bounds
<1>9. CASE Poll
  BY <1>9 DEF Poll, vars, server, disk, mem, bounds
<1>10. ASSUME NEW f \in Files, Download(f) PROVE WayBackInv'
  BY <1>10 DEF Download, vars, server, disk, mem, bounds
<1>11. CASE DownloadFails
  BY <1>11 DEF DownloadFails, vars, server, disk, mem, bounds
<1>12. CASE AllDownloaded
  BY <1>12 DEF AllDownloaded, vars, server, disk, mem, bounds
<1>13. CASE KeepBase
  BY <1>13 DEF KeepBase, vars, server, disk, mem, bounds
<1>14. CASE KeepBaseFails
  BY <1>14 DEF KeepBaseFails, WriteError, vars, server, disk, mem, bounds
<1>15. CASE WriteCurrent
  BY <1>15 DEF WriteCurrent, vars, server, disk, mem, bounds
<1>16. CASE WriteFails
  BY <1>16 DEF WriteFails, WriteError, vars, server, disk, mem, bounds
<1>17. CASE Apply
  BY <1>17 DEF Apply, vars, server, disk, mem, bounds
<1>18. CASE ApplyFails
  BY <1>18 DEF ApplyFails, LoadFails, vars, server, disk, mem, bounds
<1>19. CASE CleanUp
  BY <1>19 DEF CleanUp, Kept, vars, server, disk, mem, bounds
<1>20. CASE ExpireTest
  BY <1>20 DEF ExpireTest, Restore, Restores, Have, vars, server, disk, mem, bounds
<1>21. CASE NoWayBack
  BY <1>21 DEF NoWayBack, vars, server, disk, mem, bounds
<1>22. CASE BackFails
  BY <1>22 DEF BackFails, LoadFails, Restores, Have, vars, server, disk, mem, bounds
<1>23. CASE BackWrite
  BY <1>23 DEF BackWrite, vars, server, disk, mem, bounds
<1>24. CASE BackWriteFails
  BY <1>24 DEF BackWriteFails, WriteError, vars, server, disk, mem, bounds
<1>25. CASE BackDrop
  BY <1>25 DEF BackDrop, vars, server, disk, mem, bounds
<1>26. CASE Crash
  BY <1>26 DEF Crash, vars, server, disk, mem, bounds
<1>27. ASSUME NEW f \in Files, Rot(f) PROVE WayBackInv'
  BY <1>27 DEF Rot, vars, server, disk, mem, bounds
<1>28. CASE UNCHANGED vars
  BY <1>28 DEF vars, server, disk, mem, bounds
<1>. QED
  BY <1>1, <1>2, <1>3, <1>4, <1>5, <1>6, <1>7, <1>8, <1>9, <1>10, <1>11,
     <1>12, <1>13, <1>14, <1>15, <1>16, <1>17, <1>18, <1>19, <1>20, <1>21,
     <1>22, <1>23, <1>24, <1>25, <1>26, <1>27, <1>28
  DEF Next, Local

(* Only keepBase for new normal content takes the way back. *)
LEMMA StepKeepsWayBack ==
  ASSUME TypeOK, SyncInv, WayBackInv, WayBack, [Next]_vars,
         ~(KeepBase /\ got.test = 0), writeErrors = 0
  PROVE  WayBack'
<1>. USE BoundsType, NoneIsNoManifest DEF TypeOK, SyncInv, WayBackInv, WayBack
<1>1. ASSUME NEW c \in Contents, Change(c) PROVE WayBack'
  BY <1>1 DEF Change, vars, server, disk, mem, bounds
<1>2. ASSUME NEW t \in 1..MaxTests, StartTest(t) PROVE WayBack'
  BY <1>2 DEF StartTest, vars, server, disk, mem, bounds
<1>3. CASE CancelTest
  BY <1>3 DEF CancelTest, vars, server, disk, mem, bounds
<1>4. ASSUME NEW t \in 1..MaxTests, TimeIsUp(t) PROVE WayBack'
  BY <1>4 DEF TimeIsUp, vars, server, disk, mem, bounds
<1>5. CASE StartFromCurrent
  BY <1>5 DEF StartFromCurrent, Restore, Restores, Have, vars, server, disk, mem, bounds
<1>6. CASE StartLoadFails
  BY <1>6 DEF StartLoadFails, LoadFails, Restores, Have, vars, server, disk, mem, bounds
<1>7. CASE StartFromBase
  BY <1>7 DEF StartFromBase, Restore, Restores, Have, vars, server, disk, mem, bounds
<1>8. CASE NotModified
  BY <1>8 DEF NotModified, vars, server, disk, mem, bounds
<1>9. CASE Poll
  BY <1>9 DEF Poll, vars, server, disk, mem, bounds
<1>10. ASSUME NEW f \in Files, Download(f) PROVE WayBack'
  BY <1>10 DEF Download, vars, server, disk, mem, bounds
<1>11. CASE DownloadFails
  BY <1>11 DEF DownloadFails, vars, server, disk, mem, bounds
<1>12. CASE AllDownloaded
  BY <1>12 DEF AllDownloaded, vars, server, disk, mem, bounds
<1>13. CASE KeepBase
  BY <1>13 DEF KeepBase, vars, server, disk, mem, bounds
<1>14. CASE KeepBaseFails
  BY <1>14 DEF KeepBaseFails, WriteError, vars, server, disk, mem, bounds
<1>15. CASE WriteCurrent
  BY <1>15 DEF WriteCurrent, vars, server, disk, mem, bounds
<1>16. CASE WriteFails
  BY <1>16 DEF WriteFails, WriteError, vars, server, disk, mem, bounds
<1>17. CASE Apply
  BY <1>17 DEF Apply, vars, server, disk, mem, bounds
<1>18. CASE ApplyFails
  BY <1>18 DEF ApplyFails, LoadFails, vars, server, disk, mem, bounds
<1>19. CASE CleanUp
  BY <1>19 DEF CleanUp, Kept, vars, server, disk, mem, bounds
<1>20. CASE ExpireTest
  BY <1>20 DEF ExpireTest, Restore, Restores, Have, vars, server, disk, mem, bounds
<1>21. CASE NoWayBack
  BY <1>21 DEF NoWayBack, vars, server, disk, mem, bounds
<1>22. CASE BackFails
  BY <1>22 DEF BackFails, LoadFails, Restores, Have, vars, server, disk, mem, bounds
<1>23. CASE BackWrite
  BY <1>23 DEF BackWrite, vars, server, disk, mem, bounds
<1>24. CASE BackWriteFails
  BY <1>24 DEF BackWriteFails, WriteError, vars, server, disk, mem, bounds
<1>25. CASE BackDrop
  BY <1>25 DEF BackDrop, vars, server, disk, mem, bounds
<1>26. CASE Crash
  BY <1>26 DEF Crash, vars, server, disk, mem, bounds
<1>27. ASSUME NEW f \in Files, Rot(f) PROVE WayBack'
  BY <1>27 DEF Rot, vars, server, disk, mem, bounds
<1>28. CASE UNCHANGED vars
  BY <1>28 DEF vars, server, disk, mem, bounds
<1>. QED
  BY <1>1, <1>2, <1>3, <1>4, <1>5, <1>6, <1>7, <1>8, <1>9, <1>10, <1>11,
     <1>12, <1>13, <1>14, <1>15, <1>16, <1>17, <1>18, <1>19, <1>20, <1>21,
     <1>22, <1>23, <1>24, <1>25, <1>26, <1>27, <1>28
  DEF Next, Local

-----------------------------------------------------------------------------

(* A counter that is still 0 was 0 before the step. *)
LEMMA CountersGrow ==
  ASSUME TypeOK, [Next]_vars
  PROVE  /\ crashes' = 0 => crashes = 0 /\ ~Crash
         /\ writeErrors' = 0 => writeErrors = 0
<1>. USE BoundsType DEF TypeOK
<1>1. crashes \in Nat /\ writeErrors \in Nat
  OBVIOUS
<1>2. crashes' = crashes \/ crashes' = crashes + 1
  BY DEF Next, Local, Change, StartTest, CancelTest, TimeIsUp, StartFromCurrent,
         StartLoadFails, StartFromBase, NotModified, Poll, Download, DownloadFails,
         AllDownloaded, KeepBase, KeepBaseFails, WriteCurrent, WriteFails, Apply,
         ApplyFails, CleanUp, ExpireTest, NoWayBack, BackFails, BackWrite,
         BackWriteFails, BackDrop, Crash, Rot, LoadFails, WriteError, vars, bounds
<1>3. writeErrors' = writeErrors \/ writeErrors' = writeErrors + 1
  BY DEF Next, Local, Change, StartTest, CancelTest, TimeIsUp, StartFromCurrent,
         StartLoadFails, StartFromBase, NotModified, Poll, Download, DownloadFails,
         AllDownloaded, KeepBase, KeepBaseFails, WriteCurrent, WriteFails, Apply,
         ApplyFails, CleanUp, ExpireTest, NoWayBack, BackFails, BackWrite,
         BackWriteFails, BackDrop, Crash, Rot, LoadFails, WriteError, vars, bounds
<1>4. Crash => crashes' = crashes + 1
  BY DEF Crash
<1>. QED
  BY <1>1, <1>2, <1>3, <1>4

(* With no death and no failed write every step keeps the way back. *)
LEMMA NextWayBackUnlessInterrupted ==
  ASSUME TypeOK, SyncInv, WayBackInv, WayBackUnlessInterrupted, [Next]_vars
  PROVE  WayBackUnlessInterrupted'
<1>. SUFFICES ASSUME crashes' = 0, writeErrors' = 0
              PROVE  (WayBack \/ (pc = "write" /\ got.test = 0))'
  BY DEF WayBackUnlessInterrupted
<1>1. crashes = 0 /\ writeErrors = 0 /\ ~Crash
  BY CountersGrow
<1>2. CASE KeepBase /\ got.test = 0
  BY <1>2 DEF KeepBase, mem
<1>3. CASE WayBack /\ ~(KeepBase /\ got.test = 0)
  BY <1>1, <1>3, StepKeepsWayBack
<1>4. CASE ~WayBack
  <2>1. pc = "write" /\ got.test = 0
    BY <1>1, <1>4 DEF WayBackUnlessInterrupted
  <2>2. \/ WriteCurrent
        \/ WriteFails
        \/ UNCHANGED <<pc, got>>
    BY <1>1, <2>1
    DEF Next, Local, Change, StartTest, CancelTest, TimeIsUp, StartFromCurrent,
        StartLoadFails, StartFromBase, NotModified, Poll, Download, DownloadFails,
        AllDownloaded, KeepBase, KeepBaseFails, Apply, ApplyFails, CleanUp,
        ExpireTest, NoWayBack, BackFails, BackWrite, BackWriteFails, BackDrop, Rot,
        vars, mem
  <2>3. ~WriteFails
    BY <1>1, BoundsType DEF WriteFails, WriteError, TypeOK
  <2>4. WriteCurrent => WayBack'
    BY <2>1 DEF WriteCurrent, WayBack, mem
  <2>. QED
    BY <2>1, <2>2, <2>3, <2>4
<1>. QED
  BY <1>2, <1>3, <1>4

(* Every step keeps the inductive invariant. *)
LEMMA NextIInv == IInv /\ [Next]_vars => IInv'
<1>. QED
  BY NextTypeOK, NextSyncInv, NextOfferedInv, NextFilesInv, NextVersionIsShown,
     NextWayBackInv, NextWayBackUnlessInterrupted DEF IInv

(* IInv is an invariant for every contents, files and bounds. *)
THEOREM SyncInvariance == Safe => []IInv
<1>. QED
  BY InitIInv, NextIInv, PTL DEF Safe

(* TypeOK: the variables keep their types; base.json only ever holds normal *)
(* content.                                                                 *)
THEOREM SyncTypeCorrect == Safe => []TypeOK
<1>1. IInv => TypeOK
  BY DEF IInv
<1>. QED
  BY <1>1, SyncInvariance, PTL

(* SavedContentComplete: whenever the process dies, all the files of the    *)
(* saved manifests are there, unless a file was damaged.                    *)
THEOREM SavedIsComplete == Safe => []SavedContentComplete
<1>1. IInv => SavedContentComplete
  BY DEF IInv, FilesInv
<1>. QED
  BY <1>1, SyncInvariance, PTL

(* PlayedFilesKept: no clean-up deletes a file that is being played. *)
THEOREM PlayedIsKept == Safe => []PlayedFilesKept
<1>1. IInv => PlayedFilesKept
  BY DEF IInv, FilesInv
<1>. QED
  BY <1>1, SyncInvariance, PTL

(* VersionIsShownUnlessLoadFails: the version in If-None-Match is what the  *)
(* player was given, all of it.                                             *)
THEOREM VersionShown == Safe => []VersionIsShownUnlessLoadFails
<1>1. IInv => VersionIsShownUnlessLoadFails
  BY DEF IInv
<1>. QED
  BY <1>1, SyncInvariance, PTL

(* WayBackUnlessInterrupted: with no death and no failed write, a test card *)
(* can always be left again.                                                *)
THEOREM WayBackLasts == Safe => []WayBackUnlessInterrupted
<1>1. IInv => WayBackUnlessInterrupted
  BY DEF IInv
<1>. QED
  BY <1>1, SyncInvariance, PTL

(* WayBackLostOnlyBeforeWrite: whatever dies, the way back goes only when   *)
(* keepBase removes base.json for new normal content.                       *)
THEOREM WayBackLost == Safe => WayBackLostOnlyBeforeWrite
<1>1. IInv /\ [Next]_vars
        => [WayBack /\ ~WayBack' => (KeepBase /\ got.test = 0) \/ writeErrors > 0]_vars
  <2>. SUFFICES ASSUME IInv, [Next]_vars, WayBack, ~WayBack', ~(KeepBase /\ got.test = 0)
                PROVE  writeErrors > 0
    OBVIOUS
  <2>1. writeErrors \in Nat
    BY BoundsType DEF IInv, TypeOK
  <2>2. writeErrors # 0
    BY StepKeepsWayBack DEF IInv
  <2>. QED
    BY <2>1, <2>2
<1>. QED
  BY <1>1, SyncInvariance, PTL DEF Safe, WayBackLostOnlyBeforeWrite

-----------------------------------------------------------------------------
(* Every step of the agent is a step of the display, or none. *)

(* What the start and the end of a test card put on the screen. *)
LEMMA RestoreShows ==
  ASSUME IInv, NEW m \in {current, base}, Restores(m),
         screen' = Scene(m, Have(m)), UNCHANGED <<offered, rots>>
  PROVE  Screen!Next
<1>. USE BoundsType, NoneIsNoManifest DEF IInv, TypeOK
<1>1. m \in Manifests /\ m \in offered /\ m # None
  BY DEF OfferedInv, Restores
<1>2. CASE Have(m) = FilesOf(m)
  BY <1>1, <1>2 DEF Screen!Next, Screen!Show, Screen!FullScene, Screen!Scene, Scene
<1>3. CASE Have(m) # FilesOf(m)
  <2>1. rots > 0
    BY <1>1, <1>3 DEF FilesInv, SavedContentComplete, Intact, Have
  <2>2. Have(m) # {} /\ Have(m) \in SUBSET FilesOf(m)
    BY <1>3 DEF Restores, Have
  <2>3. Screen!ShowWhatIsLeft(m, Have(m))
    BY <1>1, <2>1, <2>2 DEF Screen!ShowWhatIsLeft, Screen!Scene, Scene
  <2>. QED
    BY <1>1, <2>2, <2>3 DEF Screen!Next
<1>. QED
  BY <1>2, <1>3

(* The initial states are initial states of Display. *)
LEMMA InitRefines == Init => Screen!Init
<1>. SUFFICES ASSUME Init PROVE Screen!Init
  OBVIOUS
<1>. USE BoundsType DEF Init
<1>. QED
  <2>1. NormalManifest(normal) \in Manifests
    BY DEF Manifests, NormalManifest
  <2>2. (rots > 0) = FALSE
    OBVIOUS
  <2>. QED
    BY <2>1, <2>2 DEF Screen!Init

(* A step that only adds to what was offered is an Offer of Display. *)
LEMMA OfferRefines ==
  ASSUME NEW m \in Manifests, offered' = offered \cup {m}, UNCHANGED <<screen, rots>>
  PROVE  Screen!Next
<1>. QED
  BY DEF Screen!Next, Screen!Offer

(* A step that shows a whole scene is a Show of Display. *)
LEMMA ShowRefines ==
  ASSUME NEW m \in Manifests, m \in offered, screen' = FullScene(m),
         UNCHANGED <<offered, rots>>
  PROVE  Screen!Next
<1>. QED
  BY DEF Screen!Next, Screen!Show, Screen!FullScene, Screen!Scene, FullScene, Scene

(* Every step is a step of Display or leaves it alone. *)
LEMMA NextRefines ==
  ASSUME IInv, [Next]_vars
  PROVE  [Screen!Next]_<<offered, rots > 0, screen>>
<1>. DEFINE Goal == [Screen!Next]_<<offered, rots > 0, screen>>
<1>. USE BoundsType DEF IInv, TypeOK
<1>0. ASSUME UNCHANGED <<offered, rots, screen>> PROVE Goal
  BY <1>0
<1>1. ASSUME NEW c \in Contents, Change(c) PROVE Goal
  BY <1>1, ManifestType, OfferRefines DEF Change, mem, bounds
<1>2. ASSUME NEW t \in 1..MaxTests, StartTest(t) PROVE Goal
  BY <1>2, ManifestType, OfferRefines DEF StartTest, mem, bounds
<1>3. CASE CancelTest
  BY <1>3, ManifestType, OfferRefines DEF CancelTest, mem, bounds
<1>4. ASSUME NEW t \in 1..MaxTests, TimeIsUp(t) PROVE Goal
  <2>1. Manifest(normal, test') \in Manifests
    BY <1>4, ManifestType DEF TimeIsUp
  <2>. QED
    BY <1>4, <2>1, OfferRefines DEF TimeIsUp, mem, bounds
<1>5. CASE StartFromCurrent \/ StartFromBase \/ StartLoadFails \/ ExpireTest \/ BackFails
  <2>1. ASSUME NEW m \in {current, base}, Restores(m), screen' = Scene(m, Have(m)),
               UNCHANGED <<offered, rots>>
        PROVE  Goal
    BY <2>1, RestoreShows
  <2>. QED
    BY <1>0, <1>5, <2>1
    DEF StartFromCurrent, StartFromBase, StartLoadFails, ExpireTest, BackFails,
        Restore, LoadFails, server, bounds
<1>6. CASE Apply \/ ApplyFails
  <2>1. got \in Manifests /\ got \in offered
    BY <1>6 DEF Apply, ApplyFails, SyncInv
  <2>. QED
    BY <1>6, <2>1, ShowRefines DEF Apply, ApplyFails, LoadFails, server, bounds
<1>7. CASE Crash
  BY <1>7 DEF Crash, Screen!Next, Screen!PowerOff, server
<1>8. ASSUME NEW f \in Files, Rot(f) PROVE Goal
  <2>1. (rots > 0)' = TRUE
    BY <1>8 DEF Rot
  <2>. QED
    BY <1>8, <2>1 DEF Rot, Screen!Next, Screen!Damage, server, mem
<1>9. CASE \/ NotModified \/ Poll \/ (\E f \in Files : Download(f)) \/ DownloadFails
           \/ AllDownloaded \/ KeepBase \/ KeepBaseFails \/ WriteCurrent \/ WriteFails
           \/ CleanUp \/ NoWayBack \/ BackWrite \/ BackWriteFails \/ BackDrop
           \/ UNCHANGED vars
  BY <1>0, <1>9
  DEF NotModified, Poll, Download, DownloadFails, AllDownloaded, KeepBase,
      KeepBaseFails, WriteCurrent, WriteFails, CleanUp, NoWayBack, BackWrite,
      BackWriteFails, BackDrop, WriteError, vars, server, mem, bounds
<1>. QED
  BY <1>1, <1>2, <1>3, <1>4, <1>5, <1>6, <1>7, <1>8, <1>9 DEF Next, Local

(* ScreenIsADisplay: ContentSync implements the abstract display - only     *)
(* scenes the server offered, whole ones unless a file was damaged, and     *)
(* only the end of the process leaves the screen empty.                     *)
THEOREM Refinement == Safe => ScreenIsADisplay
<1>. QED
  BY InitRefines, NextRefines, SyncInvariance, PTL
  DEF Safe, ScreenIsADisplay, Screen!Spec

================================================================================
