-------------------------------- MODULE AdminAuth --------------------------------
(***************************************************************************)
(* The administration token (adminauth.go): the check of every request,    *)
(* with the ladder of lock-outs for wrong tokens, and the change of the    *)
(* token, which is written to the state and then put in force.             *)
(*                                                                         *)
(* A check looks quickly (a.mu), queues for the slow hash (a.slow), looks  *)
(* again, reads the hash in force, verifies without a.mu and concludes     *)
(* under it.  Its time is the one it began at.  A hash is its token and a  *)
(* salt.  Time is counted in units of the lock steps.                      *)
(***************************************************************************)
EXTENDS Naturals, FiniteSets, Sequences

CONSTANTS
  Tokens, Sources, Requests, None,
  FreeTries,        \* lockFreeTries
  LockSteps,        \* lockSteps
  ForgetAfter, MaxSeen,
  MaxClock, MaxChanges, MaxFaults       \* bounds

ASSUME AuthAssumption ==
  /\ None \notin Tokens \cup Requests
  /\ FreeTries \in Nat /\ MaxSeen \in Nat
  /\ LockSteps \in Seq(Nat \ {0}) /\ LockSteps # <<>>
  /\ ForgetAfter \in Nat \ {0} /\ MaxClock \in Nat
  /\ MaxChanges \in Nat /\ MaxFaults \in Nat

VARIABLES
  config,           \* the admin_token of server.json
  st, disk,         \* st.Admin in memory and in state.json
  hash,             \* a.hash
  okToken,          \* a.okSum, or None
  ips,              \* a.ips
  slow,             \* the request that holds a.slow
  reqs,
  clock,
  crossed,          \* two changes were under way at once
  unsaved,          \* a change could not be written
  changes, faults

ghosts == <<crossed, unsaved>>
vars   == <<config, st, disk, hash, okToken, ips, slow, reqs, clock, ghosts, changes, faults>>

Hashes   == [token : Tokens, salt : 0 .. MaxChanges + MaxFaults]
Admin    == [token : Hashes, config : Hashes]
Failures == [seen : SUBSET Tokens, count : Nat, last : Nat, until : Nat]
Steps    == {"none", "queued", "slow", "read", "verify", "passed", "update", "set"}
Request  == [at : Steps, token : Tokens \cup {None}, ip : Sources \cup {None},
             now : 0 .. MaxClock, hash : Hashes \cup {None}]

TypeOK ==
  /\ config \in Tokens /\ st \in Admin /\ disk \in Admin /\ hash \in Hashes
  /\ okToken \in Tokens \cup {None}
  /\ ips \in [Sources -> Failures]
  /\ slow \in Requests \cup {None}
  /\ reqs \in [Requests -> Request]
  /\ clock \in 0 .. MaxClock
  /\ crossed \in BOOLEAN /\ unsaved \in BOOLEAN
  /\ changes \in 0 .. MaxChanges /\ faults \in 0 .. MaxFaults

NoFailures == [seen |-> {}, count |-> 0, last |-> 0, until |-> 0]
NoRequest  == [at |-> "none", token |-> None, ip |-> None, now |-> 0, hash |-> None]
Hash(t)    == [token |-> t, salt |-> changes + faults]

(* syncAdminToken at the first start.                                      *)
Init ==
  /\ config \in Tokens
  /\ hash = [token |-> config, salt |-> 0]
  /\ st = [token |-> hash, config |-> hash] /\ disk = st
  /\ okToken = None
  /\ ips = [i \in Sources |-> NoFailures]
  /\ slow = None /\ reqs = [r \in Requests |-> NoRequest]
  /\ clock = 0
  /\ crossed = FALSE /\ unsaved = FALSE
  /\ changes = 0 /\ faults = 0

--------------------------------------------------------------------------------
\* The check of a request

(* What is known of a source, if it is not long ago.                       *)
Known(f, now) == IF f.count > 0 /\ now >= f.last + ForgetAfter THEN NoFailures ELSE f

Locked(f, now) == f.count > 0 /\ now < f.until

(* quickCheck: what it makes of the token, and what is then known.         *)
Verdict(f, token, now) ==
  CASE Locked(f, now)   -> "refused"
    [] token = okToken  -> "passed"
    [] token \in f.seen -> "refused"
    [] OTHER            -> "unknown"

Recorded(f, token, now) == IF Verdict(f, token, now) = "passed" THEN NoFailures ELSE f

Begin(r, token, ip) ==
  /\ reqs[r].at = "none"
  /\ LET f == Known(ips[ip], clock)
         v == Verdict(f, token, clock)
     IN /\ ips' = [ips EXCEPT ![ip] = Recorded(f, token, clock)]
        /\ reqs' = [reqs EXCEPT ![r] =
             IF v = "refused" THEN NoRequest
             ELSE [NoRequest EXCEPT !.at = IF v = "passed" THEN "passed" ELSE "queued",
                                    !.token = token, !.ip = ip, !.now = clock]]
  /\ UNCHANGED <<config, st, disk, hash, okToken, slow, clock, ghosts, changes, faults>>

Enter(r) ==
  /\ reqs[r].at = "queued" /\ slow = None
  /\ slow' = r
  /\ reqs' = [reqs EXCEPT ![r].at = "slow"]
  /\ UNCHANGED <<config, st, disk, hash, okToken, ips, clock, ghosts, changes, faults>>

(* Mutant: it does not look again when its turn has come.                  *)
LookAgain_Not(r) ==
  /\ reqs[r].at = "slow"
  /\ reqs' = [reqs EXCEPT ![r].at = "read"]
  /\ UNCHANGED <<config, st, disk, hash, okToken, ips, slow, clock, ghosts, changes, faults>>

LookAgain(r) ==
  /\ reqs[r].at = "slow"
  /\ LET ip == reqs[r].ip
         f  == Known(ips[ip], reqs[r].now)
         v  == Verdict(f, reqs[r].token, reqs[r].now)
     IN /\ ips' = [ips EXCEPT ![ip] = Recorded(f, reqs[r].token, reqs[r].now)]
        /\ slow' = IF v = "unknown" THEN slow ELSE None
        /\ reqs' = CASE v = "refused" -> [reqs EXCEPT ![r] = NoRequest]
                     [] v = "passed"  -> [reqs EXCEPT ![r].at = "passed"]
                     [] OTHER         -> [reqs EXCEPT ![r].at = "read"]
  /\ UNCHANGED <<config, st, disk, hash, okToken, clock, ghosts, changes, faults>>

ReadHash(r) ==
  /\ reqs[r].at = "read"
  /\ reqs' = [reqs EXCEPT ![r].at = "verify", ![r].hash = hash]
  /\ UNCHANGED <<config, st, disk, hash, okToken, ips, slow, clock, ghosts, changes, faults>>

Good(r) == reqs[r].token = reqs[r].hash.token

(* Mutant: what passed is remembered, whichever hash it passed against.    *)
Accept_AnyHash(r) ==
  /\ reqs[r].at = "verify" /\ Good(r)
  /\ okToken' = reqs[r].token
  /\ ips' = [ips EXCEPT ![reqs[r].ip] = NoFailures]
  /\ reqs' = [reqs EXCEPT ![r].at = "passed"]
  /\ slow' = None
  /\ UNCHANGED <<config, st, disk, hash, clock, ghosts, changes, faults>>

Accept(r) ==
  /\ reqs[r].at = "verify" /\ Good(r)
  /\ okToken' = IF hash = reqs[r].hash THEN reqs[r].token ELSE okToken
  /\ ips' = [ips EXCEPT ![reqs[r].ip] = NoFailures]
  /\ reqs' = [reqs EXCEPT ![r].at = "passed"]
  /\ slow' = None
  /\ UNCHANGED <<config, st, disk, hash, clock, ghosts, changes, faults>>

LockStep(i) == LockSteps[IF i <= Len(LockSteps) THEN i ELSE Len(LockSteps)]

Refuse(r) ==
  /\ reqs[r].at = "verify" /\ ~Good(r)
  /\ LET ip == reqs[r].ip
         f  == ips[ip]
         n  == f.count + 1
     IN ips' = [ips EXCEPT ![ip] =
          [seen  |-> IF Cardinality(f.seen) < MaxSeen THEN f.seen \cup {reqs[r].token} ELSE f.seen,
           count |-> n,
           last  |-> reqs[r].now,
           until |-> IF n <= FreeTries THEN f.until ELSE reqs[r].now + LockStep(n - FreeTries)]]
  /\ reqs' = [reqs EXCEPT ![r] = NoRequest]
  /\ slow' = None
  /\ UNCHANGED <<config, st, disk, hash, okToken, clock, ghosts, changes, faults>>

Check(r) ==
  \/ \E token \in Tokens, ip \in Sources : Begin(r, token, ip)
  \/ Enter(r) \/ LookAgain(r) \/ ReadHash(r) \/ Accept(r) \/ Refuse(r)

--------------------------------------------------------------------------------
\* What a request that passed goes on to

Answer(r) ==
  /\ reqs[r].at = "passed"
  /\ reqs' = [reqs EXCEPT ![r] = NoRequest]
  /\ UNCHANGED <<config, st, disk, hash, okToken, ips, slow, clock, ghosts, changes, faults>>

(* Mutant: the new token is in force before it is written.                 *)
ChangeToken_AtOnce(r, token) ==
  /\ reqs[r].at = "passed"
  /\ changes < MaxChanges /\ changes' = changes + 1
  /\ reqs' = [reqs EXCEPT ![r].at = "update", ![r].token = token,
                          ![r].hash = [token |-> token, salt |-> changes' + faults]]
  /\ crossed' = (crossed \/ \E q \in Requests : reqs[q].at \in {"update", "set"})
  /\ hash' = reqs'[r].hash /\ okToken' = token
  /\ UNCHANGED <<config, st, disk, ips, slow, clock, unsaved, faults>>

(* handlePutAdminToken: the new token is hashed, with a salt of its own.   *)
ChangeToken(r, token) ==
  /\ reqs[r].at = "passed"
  /\ changes < MaxChanges /\ changes' = changes + 1
  /\ reqs' = [reqs EXCEPT ![r].at = "update", ![r].token = token,
                          ![r].hash = [token |-> token, salt |-> changes' + faults]]
  /\ crossed' = (crossed \/ \E q \in Requests : reqs[q].at \in {"update", "set"})
  /\ UNCHANGED <<config, st, disk, hash, okToken, ips, slow, clock, unsaved, faults>>

SaveToken(r) ==
  /\ reqs[r].at = "update"
  /\ st' = [st EXCEPT !.token = reqs[r].hash]
  /\ \/ /\ disk' = st'
        /\ reqs' = [reqs EXCEPT ![r].at = "set"]
        /\ UNCHANGED <<unsaved, faults>>
     \/ /\ faults < MaxFaults /\ faults' = faults + 1
        /\ reqs' = [reqs EXCEPT ![r] = NoRequest]
        /\ unsaved' = TRUE
        /\ UNCHANGED disk
  /\ UNCHANGED <<config, hash, okToken, ips, slow, clock, crossed, changes>>

SetToken(r) ==
  /\ reqs[r].at = "set"
  /\ hash' = reqs[r].hash /\ okToken' = reqs[r].token
  /\ reqs' = [reqs EXCEPT ![r] = NoRequest]
  /\ UNCHANGED <<config, st, disk, ips, slow, clock, ghosts, changes, faults>>

Change(r) ==
  \/ Answer(r)
  \/ \E token \in Tokens : ChangeToken(r, token)
  \/ SaveToken(r) \/ SetToken(r)

--------------------------------------------------------------------------------
(* prune, every hour.                                                      *)
Prune ==
  /\ \E i \in Sources : ips[i] # Known(ips[i], clock)
  /\ ips' = [i \in Sources |-> Known(ips[i], clock)]
  /\ UNCHANGED <<config, st, disk, hash, okToken, slow, reqs, clock, ghosts, changes, faults>>

Tick ==
  /\ clock < MaxClock /\ clock' = clock + 1
  /\ UNCHANGED <<config, st, disk, hash, okToken, ips, slow, reqs, ghosts, changes, faults>>

(* syncAdminToken: the one of server.json if it is another than last time. *)
InForce(saved, c) ==
  IF c = saved.config.token THEN saved ELSE [token |-> Hash(c), config |-> Hash(c)]

(* The server starts again, perhaps with another admin_token configured.   *)
Restart(c) ==
  /\ faults < MaxFaults /\ faults' = faults + 1
  /\ config' = c
  /\ st' = InForce(disk, c) /\ disk' = st'
  /\ hash' = st'.token /\ okToken' = None
  /\ ips' = [i \in Sources |-> NoFailures]
  /\ slow' = None /\ reqs' = [r \in Requests |-> NoRequest]
  /\ crossed' = FALSE /\ unsaved' = FALSE
  /\ UNCHANGED <<clock, changes>>

Next ==
  \/ \E r \in Requests : Check(r) \/ Change(r)
  \/ Prune \/ Tick
  \/ \E c \in Tokens : Restart(c)

Spec == Init /\ [][Next]_vars

--------------------------------------------------------------------------------
\* Properties

(* However many checks queue for the slow hash at once, a source's wrong   *)
(* tokens cost it the whole ladder: each one is only counted when the lock *)
(* of the one before is over, and beyond the free tries adds its own step. *)
LadderIsClimbed ==
  [][\A i \in Sources : LET n == ips'[i].count IN
       n > ips[i].count =>
         /\ n = ips[i].count + 1
         /\ n > FreeTries => ips'[i].until >= ips[i].until + LockStep(n - FreeTries)]_vars

(* A changed token ends the old one at once: the token that is let pass    *)
(* without a hash is the one in force, even if a check of the old one was  *)
(* under way when it changed.                                              *)
OldTokenEnds == okToken \in {None, hash.token}

(* Nobody is shut out with the right token because it was tried before it  *)
(* was put in force: what a source is remembered to have tried wrongly is  *)
(* not the token in force, unless that passes first.                       *)
RightTokenPasses == \A i \in Sources : hash.token \in ips[i].seen => okToken = hash.token

(* The token in force, and no other, is let pass, with the checks of       *)
(* several requests and a change of the token under way at once.           *)
TokenInForceDecides == OldTokenEnds /\ RightTokenPasses

(* The token in force is the one a restart would bring, unless two changes *)
(* crossed or one could not be written.                                    *)
InForceIsStored ==
  crossed \/ unsaved \/ (\E r \in Requests : reqs[r].at = "set")
  \/ hash = disk.token
================================================================================
