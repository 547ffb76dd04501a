------------------------------- MODULE MediaCache -------------------------------
(***************************************************************************)
(* The content cache of the server (cache.go): every ready file of a       *)
(* device is a link to one copy in media_root/.store, named by its         *)
(* content.  The copy stays when the file is deleted, so that the same     *)
(* upload is ready at once the next time, and is evicted when the store    *)
(* exceeds its quota.                                                      *)
(*                                                                         *)
(* A content stands for an original and for the result of processing it,  *)
(* and for its hash.  All contents have size one; of the times of last use *)
(* only their order to the start of the running clean-up is kept, so any   *)
(* idle content may be the oldest.                                         *)
(***************************************************************************)
EXTENDS Integers, FiniteSets

CONSTANTS
  Devices, Names, Contents, Nothing,
  Documents,        \* the contents that are documents, with a directory of pages
  Quotas,           \* the quotas an operator sets, in contents
  DefaultQuota, MaxCleans

ASSUME CacheAssumption ==
  /\ Nothing \notin Contents \cup Devices \cup Names
  /\ Quotas \subseteq Nat \ {0} /\ IsFiniteSet(Contents)
  /\ DefaultQuota \in Quotas /\ MaxCleans \in Nat

VARIABLES
  files,            \* the directory of each device: name -> content
  dirs,             \* devices that have a directory
  stored,           \* .store: what is in the file that is named by a content
  indexed,          \* idx.Blobs
  source,           \* idx.Sources: original -> the content it has led to
  recent,           \* contents used since the running clean-up began
  scan,             \* reconcileCache: the devices still to look at, the one
                    \* it is at with its files still to look at, the file it
                    \* is to adopt, and the hash it has taken of it
  inUse,            \* what it found in use
  inUseBytes,       \* CacheStats, of the last clean-up
  quota,            \* CacheQuotaGB
  newQuota,         \* the quota handlePutCache is about to set, or Nothing
  cleans,           \* bound
  revived           \* where an adoption has put a file that was not there any
                    \* more, or another one

fileVars  == <<files, dirs, revived>>
storeVars == <<stored, indexed, source, recent>>
scanVars  == <<scan, inUse, inUseBytes, quota, newQuota, cleans>>
cacheVars == <<fileVars, storeVars, scanVars>>

NoScan  == [running |-> FALSE, todo |-> {}, dev |-> Nothing, names |-> {},
            name |-> Nothing, hash |-> Nothing]
Scanned == scan.running /\ scan.todo = {} /\ scan.names = {}

CacheTypeOK ==
  /\ files \in [Devices -> [Names -> Contents \cup {Nothing}]]
  /\ dirs \subseteq Devices /\ revived \subseteq Devices \X Names
  /\ stored \in [Contents -> Contents \cup {Nothing}] /\ indexed \subseteq Contents
  /\ source \in [Contents -> Contents \cup {Nothing}] /\ recent \subseteq Contents
  /\ scan \in [running : BOOLEAN, todo : SUBSET Devices, dev : Devices \cup {Nothing},
               names : SUBSET Names, name : Names \cup {Nothing}, hash : Contents \cup {Nothing}]
  /\ inUse \subseteq Contents
  /\ inUseBytes \in Nat
  /\ quota \in Quotas /\ newQuota \in Quotas \cup {Nothing}
  /\ cleans \in 0 .. MaxCleans

NoCopy == [c \in Contents |-> Nothing]

CacheInit ==
  /\ files = [d \in Devices |-> [n \in Names |-> Nothing]] /\ dirs = {} /\ revived = {}
  /\ stored = NoCopy /\ indexed = {} /\ source = NoCopy /\ recent = {}
  /\ scan = NoScan /\ inUse = {} /\ inUseBytes = 0
  /\ quota = DefaultQuota /\ newQuota = Nothing /\ cleans = 0

OnDisk(d) == {n \in Names : files[d][n] # Nothing}
Held(d)   == {files[d][n] : n \in OnDisk(d)}

Put(d, n, c) ==
  /\ files' = [files EXCEPT ![d][n] = c]
  /\ revived' = revived \ {<<d, n>>}

Use(cs) == recent' = IF scan.running THEN recent \cup cs ELSE recent

(* What is in the store under the hash h.                                  *)
Copy(h) == IF h \in indexed THEN stored[h] ELSE Nothing

(* Linking a document makes its directory of pages, and with it the        *)
(* device's; any other file needs the directory.                           *)
CanLink(d, c) == d \in dirs \/ c \in Documents

(* cacheReuse finds a result for the original c, and its file is there.    *)
Result(c) == IF source[c] = Nothing THEN Nothing ELSE Copy(source[c])

(* cacheAdopt, from the lock on: the copy in the store becomes the file,   *)
(* or else the file becomes the copy.  The hash h was taken before: the    *)
(* file may be gone by now, or be another one.                             *)
CanAdopt(d, n, h) == IF Copy(h) # Nothing THEN CanLink(d, h) ELSE files[d][n] # Nothing

Adopt(d, n, h, originals) ==
  LET content == IF Copy(h) # Nothing THEN Copy(h) ELSE files[d][n]
  IN IF CanAdopt(d, n, h)
     THEN /\ files' = [files EXCEPT ![d][n] = content]
          /\ revived' = IF files[d][n] = content THEN revived ELSE revived \cup {<<d, n>>}
          /\ dirs' = dirs \cup {d}
          /\ stored' = [stored EXCEPT ![h] = content]
          /\ indexed' = indexed \cup {h}
          /\ source' = [c \in Contents |-> IF c \in originals THEN h ELSE source[c]]
          /\ Use({h})
     ELSE UNCHANGED <<fileVars, storeVars>>

(* cacheTouch, before files are unlinked.                                  *)
Touch(cs) == Use(cs \cap indexed)

BeginClean(q) ==
  /\ ~scan.running /\ newQuota = Nothing
  /\ cleans < MaxCleans /\ cleans' = cleans + 1
  /\ scan' = [NoScan EXCEPT !.running = TRUE, !.todo = dirs]
  /\ inUse' = {} /\ recent' = {}
  /\ newQuota' = q
  /\ UNCHANGED <<fileVars, stored, indexed, source, inUseBytes, quota>>

ListDevice(d) ==
  /\ d \in scan.todo /\ scan.names = {}
  /\ scan' = [scan EXCEPT !.todo = scan.todo \ {d}, !.dev = d, !.names = OnDisk(d)]
  /\ UNCHANGED <<fileVars, storeVars, inUse, inUseBytes, quota, newQuota, cleans>>

FileAt(n)     == files[scan.dev][n]
FileSeen(n)   == scan' = [scan EXCEPT !.names = scan.names \ {n}, !.name = Nothing, !.hash = Nothing]

(* The hash of a file, and whether the index knows it; a file that goes in *)
(* between only adds to what is taken to be in use.                        *)
LookAt(n) ==
  /\ n \in scan.names /\ scan.name = Nothing
  /\ IF FileAt(n) \in indexed \cup {Nothing}
       THEN FileSeen(n) /\ inUse' = inUse \cup (indexed \cap {FileAt(n)})
       ELSE scan' = [scan EXCEPT !.name = n] /\ UNCHANGED inUse
  /\ UNCHANGED <<fileVars, storeVars, inUseBytes, quota, newQuota, cleans>>

(* What it does not know is adopted: hashed once more, then linked.        *)
HashUnknown(n) ==
  /\ n = scan.name /\ scan.hash = Nothing
  /\ IF FileAt(n) = Nothing THEN FileSeen(n) ELSE scan' = [scan EXCEPT !.hash = FileAt(n)]
  /\ UNCHANGED <<fileVars, storeVars, inUse, inUseBytes, quota, newQuota, cleans>>

LinkUnknown(n) ==
  /\ n = scan.name /\ scan.hash # Nothing
  /\ Adopt(scan.dev, n, scan.hash, {})
  /\ inUse' = IF CanAdopt(scan.dev, n, scan.hash) THEN inUse \cup {scan.hash} ELSE inUse
  /\ FileSeen(n)
  /\ UNCHANGED <<inUseBytes, quota, newQuota, cleans>>

(* Mutant: what was used since the clean-up began is not spared.           *)
Idle_ForgetsRecent == indexed \ inUse

Idle == indexed \ (inUse \cup recent)

(* The idle contents that go, oldest first, until the quota is kept.       *)
Evictions ==
  LET excess == Cardinality(indexed) - quota
  IN {gone \in SUBSET Idle :
        Cardinality(gone) = IF excess <= 0 THEN 0
                            ELSE IF excess > Cardinality(Idle) THEN Cardinality(Idle)
                            ELSE excess}

Evict(gone) == stored' = [c \in Contents |-> IF c \in gone THEN Nothing ELSE stored[c]]

FinishClean ==
  /\ Scanned
  /\ scan' = NoScan
  /\ \E gone \in Evictions :
       /\ Evict(gone)
       /\ indexed' = indexed \ gone
       /\ source' = [c \in Contents |-> IF source[c] \in gone THEN Nothing ELSE source[c]]
  /\ inUseBytes' = Cardinality(inUse \cap indexed)
  /\ inUse' = {} /\ recent' = {}
  /\ UNCHANGED <<fileVars, quota, newQuota, cleans>>

(* handlePutCache: the statistics of the clean-up just made decide.        *)
SetQuota ==
  /\ ~scan.running /\ newQuota # Nothing
  /\ quota' = IF newQuota < inUseBytes THEN quota ELSE newQuota
  /\ newQuota' = Nothing
  /\ UNCHANGED <<fileVars, storeVars, scan, inUse, inUseBytes, cleans>>

Clean ==
  \/ \E q \in {Nothing} \cup (Quotas \ {quota}) : BeginClean(q)
  \/ \E d \in Devices : ListDevice(d)
  \/ \E n \in Names : LookAt(n) \/ HashUnknown(n) \/ LinkUnknown(n)
  \/ FinishClean
  \/ SetQuota

(* The server stops; while contents are evicted, some files may be gone    *)
(* from .store before the index is saved.                                  *)
CacheRestart ==
  /\ \E gone \in IF Scanned THEN SUBSET UNION Evictions ELSE {{}} : Evict(gone)
  /\ scan' = NoScan /\ inUse' = {} /\ inUseBytes' = 0 /\ newQuota' = Nothing
  /\ recent' = {}
  /\ UNCHANGED <<fileVars, indexed, source, quota, cleans>>
=================================================================================
