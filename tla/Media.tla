--------------------------------- MODULE Media ---------------------------------
(***************************************************************************)
(* The playing contents of the devices on the server: uploads (media.go),  *)
(* the conversion of videos and documents (jobs.go), the operator's        *)
(* changes to a device's list, and the deletion and registration of        *)
(* devices (admin.go, register.go), together with the cache.               *)
(*                                                                         *)
(* Upload u is one file of one request.  A video or document goes on as    *)
(* job u when its request is answered.  Several uploads run at once; there *)
(* is one worker for the jobs, one operator, and one clean-up of the       *)
(* cache.  A name is a number: its remainder by three is the extension,    *)
(* the rest makes it unique.                                               *)
(***************************************************************************)
EXTENDS MediaCache, Sequences, SequencesExt

CONSTANTS
  MaxUploads, MaxRegistrations, MaxRestarts, MaxDeletions,
  MaxInterruptions,       \* of restarts, deletions and clean-ups together
  Images                  \* of the other contents, those that are no documents are videos

Extension(c) == IF c \in Images THEN 0 ELSE IF c \in Documents THEN 1 ELSE 2
NamesFor(c)  == {n \in Names : n % 3 = Extension(c)}

ASSUME MediaAssumption ==
  /\ Images \cap Documents = {} /\ Images \cup Documents \subseteq Contents
  /\ Names \subseteq Nat
  /\ \A c \in Contents : Cardinality(NamesFor(c)) >= MaxUploads
  /\ {MaxUploads, MaxRegistrations, MaxRestarts, MaxDeletions, MaxInterruptions} \subseteq Nat

Uploads == 1 .. MaxUploads

VARIABLES
  registered,       \* devices of state.json
  playlist,         \* d.Display.Playlist
  up,               \* the uploads
  hashed,           \* what cacheAdopt has hashed for an upload or its job
  incoming,         \* uploads whose original lies in incoming/
  jobs,             \* jobQueue.jobs
  failed,           \* jobs shown as failed
  worker,           \* the goroutine runJobs
  wake,             \* jobQueue.wake has a token
  operator,         \* the deletion an operator's request is at
  late,             \* devices deleted in a way that may leave something behind
  registrations, restarts, deletions      \* bounds

listVars  == <<registered, playlist>>
jobVars   == <<jobs, failed, worker, wake>>
bounds    == <<registrations, restarts, deletions>>
upVars    == <<up, hashed>>
mediaVars == <<cacheVars, listVars, upVars, incoming, jobVars, operator, late, bounds>>

\* An upload's request, in the order of its steps; a queued one is answered.
Requesting == {"started", "claimed", "received", "moving", "moved", "hashed",
               "landed", "added"}
NoJob      == 0

UploadRecord   == [at : Requesting \cup {"new", "queued", "done"},
                   dev : Devices \cup {Nothing}, name : Names \cup {Nothing},
                   content : Contents \cup {Nothing}]
WorkerRecord   == [at : {"look", "none", "wait", "taken", "work", "produced", "broken", "adopt", "hashed",
                         "append"},
                   job : Uploads \cup {NoJob}]
OperatorRecord == [at : {"none", "unlink", "edit", "remove", "erase"},
                   dev : Devices \cup {Nothing}, name : Names \cup {Nothing}]

MediaTypeOK ==
  /\ CacheTypeOK
  /\ registered \subseteq Devices
  /\ up \in [Uploads -> UploadRecord] /\ hashed \in [Uploads -> Contents \cup {Nothing}]
  /\ incoming \subseteq Uploads
  /\ jobs \in Seq(Uploads) /\ failed \subseteq Uploads
  /\ worker \in WorkerRecord
  /\ wake \in BOOLEAN
  /\ operator \in OperatorRecord
  /\ late \subseteq Devices
  /\ registrations \in 0 .. MaxRegistrations /\ restarts \in 0 .. MaxRestarts
  /\ deletions \in 0 .. MaxDeletions

PlaylistTypeOK == playlist \in [Devices -> Seq(Names)]

NoOperator == [at |-> "none", dev |-> Nothing, name |-> Nothing]
NoUpload   == [at |-> "new", dev |-> Nothing, name |-> Nothing, content |-> Nothing]
NoHash     == [u \in Uploads |-> Nothing]
NoWork     == [at |-> "look", job |-> NoJob]

MediaInit ==
  /\ CacheInit
  /\ registered = Devices
  /\ playlist = [d \in Devices |-> <<>>]
  /\ up = [u \in Uploads |-> NoUpload] /\ hashed = NoHash
  /\ incoming = {}
  /\ jobs = <<>> /\ failed = {} /\ worker = NoWork /\ wake = FALSE
  /\ operator = NoOperator /\ late = {}
  /\ registrations = 0 /\ restarts = 0 /\ deletions = 0

Interrupted == cleans' + restarts' + deletions' <= MaxInterruptions

--------------------------------------------------------------------------------
\* The list of a device

InOrder(ns) == SetToSortSeq(ns, LAMBDA m, n : m < n)

(* The recorded order first, then the files it does not know, by name;     *)
(* what is not on disk is skipped.                                         *)
OrderPlaylist(d) ==
  LET known == SelectSeq(playlist[d], LAMBDA n : n \in OnDisk(d))
  IN known \o InOrder(OnDisk(d) \ ToSet(known))

EditPlaylist(d, order) ==
  IF d \in registered THEN playlist' = [playlist EXCEPT ![d] = order] ELSE UNCHANGED playlist

AppendPlaylist(d, n) == EditPlaylist(d, Append(Remove(OrderPlaylist(d), n), n))

--------------------------------------------------------------------------------
\* An upload's request

IsJob(c) == c \notin Images

(* A claim ends when the file is adopted, or its job is queued.            *)
Claiming == {"claimed", "received", "moving", "moved", "hashed"}

(* Mutant: the files that jobs are to make are not counted.                *)
Taken_NoJobs(d) ==
  OnDisk(d) \cup {up[v].name : v \in {w \in Uploads : up[w].dev = d /\ up[w].at \in Claiming}}

(* Names on disk, of jobs, and of uploads that are not answered yet.       *)
Taken(d) ==
  OnDisk(d)
  \cup {up[j].name : j \in {i \in ToSet(jobs) : up[i].dev = d}}
  \cup {up[v].name : v \in {w \in Uploads : up[w].dev = d /\ up[w].at \in Claiming}}

(* The first name that is free, as a set; there are always enough names.   *)
UniqueName(d, c) ==
  LET free == NamesFor(c) \ Taken(d)
  IN {n \in free : \A m \in free : n <= m}

GoTo(u, at) == up' = [up EXCEPT ![u].at = at]
Done(u)     == up' = [up EXCEPT ![u] = [NoUpload EXCEPT !.at = "done"]]

StartUpload(u, d, c) ==
  /\ up[u].at = "new" /\ \A v \in 1 .. u - 1 : up[v].at # "new"
  /\ d \in registered
  /\ dirs' = dirs \cup {d}
  /\ up' = [up EXCEPT ![u] = [at |-> "started", dev |-> d, name |-> Nothing, content |-> c]]
  /\ UNCHANGED <<files, revived, storeVars, scanVars, listVars, hashed, incoming, jobVars,
                 operator, late, bounds>>

(* An upload is refused when files in use fill the cache.                  *)
Claim(u) ==
  /\ up[u].at = "started"
  /\ IF inUseBytes >= quota
       THEN Done(u)
       ELSE \E n \in UniqueName(up[u].dev, up[u].content) :
              up' = [up EXCEPT ![u].at = "claimed", ![u].name = n]
  /\ UNCHANGED <<cacheVars, listVars, hashed, incoming, jobVars, operator, late, bounds>>

Receive(u) ==
  /\ up[u].at = "claimed"
  /\ \/ GoTo(u, "received") /\ incoming' = incoming \cup {u}
     \/ Done(u) /\ UNCHANGED incoming            \* broken off, or too large
  /\ UNCHANGED <<cacheVars, listVars, hashed, jobVars, operator, late, bounds>>

CanReuse(u) == Result(up[u].content) # Nothing /\ CanLink(up[u].dev, up[u].content)

ReuseResult(u) ==
  /\ up[u].at = "received" /\ CanReuse(u)
  /\ Put(up[u].dev, up[u].name, Result(up[u].content))
  /\ dirs' = dirs \cup {up[u].dev}
  /\ Use({source[up[u].content]})
  /\ incoming' = incoming \ {u}
  /\ GoTo(u, "landed")
  /\ UNCHANGED <<stored, indexed, source, scanVars, hashed,
                 listVars, jobVars, operator, late, bounds>>

(* jobQueue.add: the job first, then the token.                            *)
AddJob(u) ==
  /\ up[u].at = "received" /\ ~CanReuse(u) /\ IsJob(up[u].content)
  /\ jobs' = Append(jobs, u)
  /\ GoTo(u, "added")
  /\ UNCHANGED <<cacheVars, listVars, hashed, incoming, failed, worker, wake, operator, late, bounds>>

SendToken(u) ==
  /\ up[u].at = "added"
  /\ wake' = TRUE
  /\ GoTo(u, "queued")
  /\ UNCHANGED <<cacheVars, listVars, hashed, incoming, jobs, failed, worker, operator, late, bounds>>

CheckImage(u) ==
  /\ up[u].at = "received" /\ ~CanReuse(u) /\ ~IsJob(up[u].content)
  /\ \/ GoTo(u, "moving") /\ UNCHANGED incoming
     \/ Done(u) /\ incoming' = incoming \ {u}    \* cannot be decoded
  /\ UNCHANGED <<cacheVars, listVars, hashed, jobVars, operator, late, bounds>>

MoveImage(u) ==
  /\ up[u].at = "moving"
  /\ incoming' = incoming \ {u}
  /\ IF up[u].dev \in dirs
       THEN Put(up[u].dev, up[u].name, up[u].content) /\ GoTo(u, "moved")
       ELSE UNCHANGED <<files, revived>> /\ Done(u)
  /\ UNCHANGED <<dirs, storeVars, scanVars, hashed,
                 listVars, jobVars, operator, late, bounds>>

(* cacheAdopt hashes the file first, and gives up if it is gone.           *)
HashImage(u) ==
  /\ up[u].at = "moved"
  /\ hashed' = [hashed EXCEPT ![u] = files[up[u].dev][up[u].name]]
  /\ GoTo(u, IF hashed'[u] = Nothing THEN "landed" ELSE "hashed")
  /\ UNCHANGED <<cacheVars, listVars, incoming, jobVars, operator, late, bounds>>

LinkImage(u) ==
  /\ up[u].at = "hashed"
  /\ Adopt(up[u].dev, up[u].name, hashed[u], {up[u].content})
  /\ hashed' = [hashed EXCEPT ![u] = Nothing]
  /\ GoTo(u, "landed")
  /\ UNCHANGED <<scanVars, listVars, incoming, jobVars, operator, late, bounds>>

AnswerUpload(u) ==
  /\ up[u].at = "landed"
  /\ AppendPlaylist(up[u].dev, up[u].name)
  /\ Done(u)
  /\ UNCHANGED <<cacheVars, registered, hashed, incoming, jobVars, operator, late, bounds>>

Upload(u) ==
  \/ Claim(u) \/ Receive(u) \/ ReuseResult(u) \/ AddJob(u) \/ SendToken(u)
  \/ CheckImage(u) \/ MoveImage(u) \/ HashImage(u) \/ LinkImage(u) \/ AnswerUpload(u)

--------------------------------------------------------------------------------
\* The worker

(* What is left of a queue without some of its jobs, in the same order.    *)
Without(q, js) ==
  {rest \in SetToSeqs(ToSet(q) \ js) :
     /\ ToSet(rest) = ToSet(q) \ js
     /\ \A a, b \in DOMAIN rest : a < b =>
          \E i, k \in DOMAIN q : i < k /\ q[i] = rest[a] /\ q[k] = rest[b]}

Waiting(u) == u \in ToSet(jobs) /\ u \notin failed /\ worker.job # u
Job        == up[worker.job]

First(i)   == Waiting(jobs[i]) /\ \A k \in 1 .. i - 1 : ~Waiting(jobs[k])

NextJob ==
  /\ worker.at = "look"
  /\ \/ \E i \in DOMAIN jobs : First(i) /\ worker' = [at |-> "taken", job |-> jobs[i]]
     \/ /\ \A u \in ToSet(jobs) : ~Waiting(u)
        /\ worker' = [at |-> "none", job |-> NoJob]
  /\ UNCHANGED <<cacheVars, listVars, upVars, incoming, jobs, failed, wake, operator, late, bounds>>

Sleep ==
  /\ worker.at = "none"
  /\ worker' = [worker EXCEPT !.at = "wait"]
  /\ UNCHANGED <<cacheVars, listVars, upVars, incoming, jobs, failed, wake, operator, late, bounds>>

WakeUp ==
  /\ worker.at = "wait" /\ wake
  /\ wake' = FALSE
  /\ worker' = NoWork
  /\ UNCHANGED <<cacheVars, listVars, upVars, incoming, jobs, failed, operator, late, bounds>>

(* From here on the job can be cancelled.                                  *)
BeginJob ==
  /\ worker.at = "taken"
  /\ dirs' = dirs \cup {Job.dev}
  /\ worker' = [worker EXCEPT !.at = "work"]
  /\ UNCHANGED <<files, revived, storeVars, scanVars, listVars, upVars, incoming, jobs, failed, wake, operator, late, bounds>>

(* The product is renamed into the directory when it is complete; a        *)
(* document takes its original along.                                      *)
Work ==
  /\ worker.at = "work"
  /\ \/ /\ worker.job \in incoming /\ Job.dev \in dirs
        /\ Put(Job.dev, Job.name, Job.content)
        /\ incoming' = IF Job.content \in Documents THEN incoming \ {worker.job} ELSE incoming
        /\ worker' = [worker EXCEPT !.at = "produced"]
     \/ /\ worker' = [worker EXCEPT !.at = "broken"]
        /\ UNCHANGED <<files, revived, incoming>>
  /\ UNCHANGED <<dirs, storeVars, scanVars,
                 listVars, upVars, jobs, failed, wake, operator, late, bounds>>

JobRemoved == worker.job \notin ToSet(jobs)

(* A job the operator has removed meanwhile: its product goes, by name.    *)
Discard ==
  /\ worker.at \in {"produced", "broken"} /\ JobRemoved
  /\ Put(Job.dev, Job.name, Nothing)
  /\ incoming' = incoming \ {worker.job}
  /\ worker' = NoWork
  /\ UNCHANGED <<dirs, storeVars, scanVars,
                 listVars, upVars, jobs, failed, wake, operator, late, bounds>>

FailJob ==
  /\ worker.at = "broken" /\ ~JobRemoved
  /\ failed' = failed \cup {worker.job}
  /\ incoming' = incoming \ {worker.job}
  /\ worker' = NoWork
  /\ UNCHANGED <<cacheVars, listVars, upVars, jobs, wake, operator, late, bounds>>

KeepProduct ==
  /\ worker.at = "produced" /\ ~JobRemoved
  /\ worker' = [worker EXCEPT !.at = "adopt"]
  /\ UNCHANGED <<cacheVars, listVars, upVars, incoming, jobs, failed, wake, operator, late, bounds>>

HashProduct ==
  /\ worker.at = "adopt"
  /\ hashed' = [hashed EXCEPT ![worker.job] = files[Job.dev][Job.name]]
  /\ worker' = [worker EXCEPT !.at = IF hashed'[worker.job] = Nothing THEN "append" ELSE "hashed"]
  /\ UNCHANGED <<cacheVars, listVars, up, incoming, jobs, failed, wake, operator, late, bounds>>

LinkProduct ==
  /\ worker.at = "hashed"
  /\ Adopt(Job.dev, Job.name, hashed[worker.job], {Job.content})
  /\ hashed' = [hashed EXCEPT ![worker.job] = Nothing]
  /\ worker' = [worker EXCEPT !.at = "append"]
  /\ UNCHANGED <<scanVars, listVars, up, incoming, jobs, failed, wake, operator, late, bounds>>

FinishJob ==
  /\ worker.at = "append"
  /\ AppendPlaylist(Job.dev, Job.name)
  /\ jobs' \in Without(jobs, {worker.job})
  /\ incoming' = incoming \ {worker.job}
  /\ worker' = NoWork
  /\ UNCHANGED <<cacheVars, registered, upVars, failed, wake, operator, late, bounds>>

RunJobs ==
  \/ NextJob \/ Sleep \/ WakeUp \/ BeginJob \/ Work
  \/ Discard \/ FailJob \/ KeepProduct \/ HashProduct \/ LinkProduct \/ FinishJob

--------------------------------------------------------------------------------
\* The operator, and devices that register

(* removeLocked: the original of a job that can be cancelled is left to    *)
(* the worker.                                                             *)
Cancellable(j) == j = worker.job /\ worker.at \in {"work", "produced", "broken", "adopt", "hashed", "append"}

(* Mutant: no original is removed, as the worker does that when it is done.*)
RemoveJobs_KeepsOriginals(js) ==
  /\ jobs' \in Without(jobs, js)
  /\ failed' = failed \ js
  /\ incoming' = incoming

RemoveJobs(js) ==
  /\ jobs' \in Without(jobs, js)
  /\ failed' = failed \ js
  /\ incoming' = incoming \ {j \in js : ~Cancellable(j)}

JobsOf(d) == {j \in ToSet(jobs) : up[j].dev = d}

DeleteMedia(d, n) ==
  /\ operator.at = "none" /\ d \in registered
  /\ n \in OnDisk(d) \cup {up[j].name : j \in JobsOf(d)}
  /\ deletions < MaxDeletions /\ deletions' = deletions + 1
  /\ RemoveJobs({j \in JobsOf(d) : up[j].name = n})
  /\ operator' = [at |-> "unlink", dev |-> d, name |-> n]
  /\ UNCHANGED <<cacheVars, listVars, upVars, worker, wake, late, registrations, restarts>>
  /\ Interrupted

UnlinkMedia ==
  /\ operator.at = "unlink"
  /\ Touch({files[operator.dev][operator.name]})
  /\ Put(operator.dev, operator.name, Nothing)
  /\ operator' = [operator EXCEPT !.at = "edit"]
  /\ UNCHANGED <<dirs, stored, indexed, source, scanVars,
                 listVars, upVars, incoming, jobVars, late, bounds>>

TidyPlaylist ==
  /\ operator.at = "edit"
  /\ EditPlaylist(operator.dev, OrderPlaylist(operator.dev))
  /\ operator' = NoOperator
  /\ UNCHANGED <<cacheVars, registered, upVars, incoming, jobVars, late, bounds>>

Reorder(d, order) ==
  /\ operator.at = "none" /\ d \in registered
  /\ ToSet(order) \subseteq OnDisk(d)
  /\ playlist[d] # order
  /\ EditPlaylist(d, order)
  /\ UNCHANGED <<cacheVars, registered, upVars, incoming, jobVars, operator, late, bounds>>

(* "late" notes what may outlive a deletion: an upload that has passed its *)
(* check for the device, ...                                               *)
DeleteDevice(d) ==
  /\ operator.at = "none" /\ d \in registered
  /\ deletions < MaxDeletions /\ deletions' = deletions + 1
  /\ registered' = registered \ {d}
  /\ playlist' = [playlist EXCEPT ![d] = <<>>]
  /\ operator' = [at |-> "remove", dev |-> d, name |-> Nothing]
  /\ late' = IF \E u \in Uploads : up[u].dev = d /\ up[u].at \in Requesting THEN late \cup {d} ELSE late
  /\ UNCHANGED <<cacheVars, upVars, incoming, jobVars, registrations, restarts>>
  /\ Interrupted

(* Mutant: the device's jobs are left in the queue.                        *)
RemoveDeviceJobs_Forgotten ==
  /\ operator.at = "remove"
  /\ operator' = [operator EXCEPT !.at = "erase"]
  /\ UNCHANGED <<cacheVars, listVars, upVars, incoming, jobs, failed, worker, wake, late, bounds>>

RemoveDeviceJobs ==
  /\ operator.at = "remove"
  /\ RemoveJobs(JobsOf(operator.dev))
  /\ operator' = [operator EXCEPT !.at = "erase"]
  /\ UNCHANGED <<cacheVars, listVars, upVars, worker, wake, late, bounds>>

(* ... an adoption that has hashed a file already: it may bring a document *)
(* back with its directory, and the clean-up's any file if a job makes the *)
(* directory again, ...                                                    *)
AdoptionUnderWay(d) ==
  \/ scan.hash # Nothing /\ scan.dev = d
  \/ \E u \in Uploads : hashed[u] \in Documents /\ up[u].dev = d

EraseDevice ==
  /\ operator.at = "erase"
  /\ Touch(Held(operator.dev))
  /\ files' = [files EXCEPT ![operator.dev] = [n \in Names |-> Nothing]]
  /\ dirs' = dirs \ {operator.dev}
  /\ revived' = {p \in revived : p[1] # operator.dev}
  /\ operator' = NoOperator
  /\ late' = IF AdoptionUnderWay(operator.dev) THEN late \cup {operator.dev} ELSE late
  /\ UNCHANGED <<stored, indexed, source, scanVars, listVars, upVars, incoming, jobVars, bounds>>

Register(d) ==
  /\ d \notin registered
  /\ registrations < MaxRegistrations /\ registrations' = registrations + 1
  /\ registered' = registered \cup {d}
  /\ UNCHANGED <<cacheVars, playlist, upVars, incoming, jobVars, operator, late, restarts, deletions>>

(* Requests and jobs end with the server; incoming/ is cleared when it     *)
(* starts again.  A deletion that was under way is not taken up: "late".   *)
RestartServer ==
  /\ restarts < MaxRestarts /\ restarts' = restarts + 1
  /\ CacheRestart
  /\ up' = [u \in Uploads |-> IF up[u].at = "new" THEN up[u] ELSE [NoUpload EXCEPT !.at = "done"]]
  /\ hashed' = NoHash
  /\ incoming' = {} /\ jobs' = <<>> /\ failed' = {} /\ worker' = NoWork /\ wake' = FALSE
  /\ operator' = NoOperator
  /\ late' = IF operator.at \in {"remove", "erase"} THEN late \cup {operator.dev} ELSE late
  /\ UNCHANGED <<listVars, registrations, deletions>>
  /\ Interrupted

Operate ==
  \/ \E d \in Devices : DeleteDevice(d) \/ Register(d) \/ \E n \in Names : DeleteMedia(d, n)
  \/ \E d \in Devices : \E order \in SetToSeqs(OnDisk(d)) : Reorder(d, order)
  \/ UnlinkMedia \/ TidyPlaylist \/ RemoveDeviceJobs \/ EraseDevice

CleanCache ==
  /\ Clean
  /\ UNCHANGED <<listVars, upVars, incoming, jobVars, operator, late, bounds>>
  /\ Interrupted

MediaNext ==
  \/ \E u \in Uploads : \/ \E d \in Devices, c \in Contents : StartUpload(u, d, c)
                        \/ Upload(u)
  \/ RunJobs
  \/ Operate
  \/ CleanCache
  \/ RestartServer

(* The worker is a goroutine that always runs on; nothing else has to.     *)
MediaSpec == MediaInit /\ [][MediaNext]_mediaVars /\ WF_mediaVars(RunJobs)
--------------------------------------------------------------------------------
\* Properties

(* An adoption that has hashed what it found at that name: h.              *)
Adopting(d, n, h) ==
  \/ scan.hash = h /\ scan.dev = d /\ scan.name = n
  \/ \E u \in Uploads : hashed[u] = h /\ up[u].dev = d /\ up[u].name = n

(* A file of a device is never written over, and disappears only because   *)
(* the operator deletes it, or its device - but for a job removed while    *)
(* the worker was at it, whose name a later upload was given: its product  *)
(* is put and discarded by that name (jobs.go) - and for an adoption, that *)
(* puts the copy of what it had hashed in its place (cache.go:160-176); a  *)
(* file that one has put back where it was deleted is not protected.       *)
ReadyStays ==
  [][\A d \in Devices, n \in Names :
       files[d][n] \notin {Nothing, files'[d][n]} /\ <<d, n>> \notin revived =>
         \/ /\ files'[d][n] = Nothing
            /\ operator.dev = d /\ (operator.at = "erase" \/ operator.name = n)
         \/ JobRemoved /\ worker.job # NoJob /\ Job.dev = d /\ Job.name = n
         \/ \E h \in Contents : Adopting(d, n, h) /\ files'[d][n] = stored[h]]_mediaVars

(* A deleted device leaves no file and no job behind: its jobs are taken   *)
(* from the queue before its directory is erased, and a worker that is at  *)
(* one of them then lacks the original or the directory for its product    *)
(* (jobs.go, admin.go).  Only an upload that was running, an adoption that *)
(* had hashed a file, or a stop of the server in between may leave some.   *)
DeletedDeviceLeavesNothing ==
  \A d \in Devices \ (registered \cup late) :
    \/ operator.dev = d
    \/ JobsOf(d) = {} /\ OnDisk(d) = {}

(* Nothing stays in incoming/ that nobody will remove: each original       *)
(* belongs to a request, to a job that still can run, or to the worker.    *)
StagingIsOwned ==
  \A u \in incoming : up[u].at \in Requesting \/ Waiting(u) \/ worker.job = u

(* The clean-up does not evict the copy of a file a device still has, not  *)
(* even one that was linked or adopted while it was looking - unless there *)
(* is a copy under another name; only a file whose adoption is yet to come *)
(* may lose it, and then brings it back.                                   *)
InUseKept ==
  [][\A c \in Contents, d \in Devices, n \in Names :
       files[d][n] = c /\ stored[c] = c /\ (\A h \in Contents : stored'[h] # c) =>
         \/ \E u \in Uploads : up[u].at \in {"moved", "hashed"} /\ up[u].dev = d /\ up[u].name = n
         \/ worker.at \in {"produced", "adopt", "hashed"} /\ Job.dev = d /\ Job.name = n]_mediaVars
================================================================================
