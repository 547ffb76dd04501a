------------------------------ MODULE ServerProofs ------------------------------
(***************************************************************************)
(* Two parts of the server that share no state: the administration token   *)
(* (AdminAuth) and the media of the devices (Media, MediaCache).           *)
(*                                                                         *)
(* The token in force decides, and is the one stored, whatever the number  *)
(* of requests, sources and tokens.  What is remembered for a check        *)
(* depends on the hash it read, which may no longer be in force: Carried   *)
(* says what a request has with it at each of its steps, Overtaken that a  *)
(* check whose hash was replaced finds the new token remembered, and       *)
(* OneWriter that changes that did not cross were written and put in force *)
(* one after the other.                                                    *)
(*                                                                         *)
(* No file of a device is lost, left behind or evicted while it is used,   *)
(* whatever uploads, jobs, deletions and clean-ups run at once - but for   *)
(* what an adoption does that had hashed a file before it went (cache.go). *)
(* That the files stay rests on who owns a name (NamesInv): a name is free *)
(* and so is the place of its file, until its upload or job puts the file  *)
(* there, and only the product of a job that was removed, or a file that   *)
(* an adoption has put back, may lie in the way.  HashInv says who has a   *)
(* hash, QueueInv follows an original from its request to the worker,      *)
(* GoneInv says what is left of a deleted device, DiskInv where files and  *)
(* copies may be, and CacheInv what the clean-up has already seen.         *)
(***************************************************************************)
EXTENDS AdminAuth, Media, TLAPS, FiniteSetTheorems, SequenceTheorems

\* The administration token

Changing == {"update", "set"}

(* What a request has with it.                                             *)
Carried ==
  \A r \in Requests :
    /\ reqs[r].at # "none" => reqs[r].token \in Tokens /\ reqs[r].ip \in Sources
    /\ reqs[r].at \in Changing \cup {"verify"} => reqs[r].hash \in Hashes
    /\ reqs[r].at \in Changing => reqs[r].token = reqs[r].hash.token

(* A check whose hash was replaced.                                        *)
Overtaken == \A r \in Requests : reqs[r].at = "verify" => hash = reqs[r].hash \/ okToken = hash.token

(* The request that changes the token.                                     *)
OneWriter ==
  ~crossed => \A r \in Requests : reqs[r].at \in Changing =>
    /\ \A q \in Requests : reqs[q].at \in Changing => q = r
    /\ reqs[r].at = "set" => disk.token = reqs[r].hash

(* One check at a time has the slow hash, and verifies only when the lock  *)
(* it found, or one that has been forgotten since, is over.                *)
OneSlow ==
  /\ \A i \in Sources : ips[i].count = 0 => ips[i].until = 0
  /\ \A r \in Requests :
       /\ reqs[r].at \in {"slow", "read", "verify"} => slow = r
       /\ reqs[r].at \in {"read", "verify"} => ips[reqs[r].ip].until <= reqs[r].now

IInv ==
  /\ TypeOK /\ Carried /\ OneSlow
  /\ OldTokenEnds /\ RightTokenPasses /\ Overtaken
  /\ OneWriter /\ InForceIsStored

--------------------------------------------------------------------------------
(* A request that is given up, or goes one step further, is a request.     *)
LEMMA Stepped ==
  ASSUME TypeOK, NEW r \in Requests
  PROVE  /\ [reqs EXCEPT ![r] = NoRequest] \in [Requests -> Request]
         /\ \A at \in Steps : [reqs EXCEPT ![r].at = at] \in [Requests -> Request]
<1>1. reqs[r] \in Request
  BY DEF TypeOK
<1>2. NoRequest \in Request
  BY AuthAssumption DEF NoRequest, Request, Steps
<1>3. ASSUME NEW at \in Steps PROVE [reqs[r] EXCEPT !.at = at] \in Request
  BY <1>1 DEF Request
<1>. QED
  BY <1>2, <1>3 DEF TypeOK

(* What is recorded of a source.                                           *)
LEMMA RecordedType ==
  ASSUME NEW f \in Failures, NEW token, NEW now
  PROVE  /\ Known(f, now) \in Failures /\ Known(f, now).seen \subseteq f.seen
         /\ Recorded(f, token, now) \in Failures /\ Recorded(f, token, now).seen \subseteq f.seen
<1>1. NoFailures \in Failures /\ NoFailures.seen = {}
  BY DEF NoFailures, Failures
<1>. QED
  BY <1>1 DEF Known, Recorded

(* The lock after a wrong token.                                           *)
LEMMA LockStepType == ASSUME NEW i \in Nat \ {0} PROVE LockStep(i) \in Nat
  BY AuthAssumption DEF LockStep

(* A check that begins has found its token unknown, or the one that passes. *)
LEMMA Begun ==
  ASSUME TypeOK, NEW r \in Requests, NEW token \in Tokens, NEW ip \in Sources, Begin(r, token, ip)
  PROVE  /\ reqs[r].at = "none"
         /\ ips' \in [Sources -> Failures] /\ \A i \in Sources : ips'[i].seen \subseteq ips[i].seen
         /\ reqs' \in [Requests -> Request]
         /\ \A q \in Requests \ {r} : reqs'[q] = reqs[q]
         /\ reqs'[r].at \in {"none", "queued", "passed"}
         /\ reqs'[r].at # "none" => reqs'[r].token = token /\ reqs'[r].ip = ip
<1>. DEFINE f == Known(ips[ip], clock)
            v == Verdict(f, token, clock)
            step == IF v = "passed" THEN "passed" ELSE "queued"
            new == [NoRequest EXCEPT !.at = step,
                                     !.token = token, !.ip = ip, !.now = clock]
<1>1. ips[ip] \in Failures
  BY DEF TypeOK
<1>2. f \in Failures /\ f.seen \subseteq ips[ip].seen
  BY <1>1, RecordedType
<1>3. Recorded(f, token, clock) \in Failures /\ Recorded(f, token, clock).seen \subseteq ips[ip].seen
  BY <1>2, RecordedType
<1>4. /\ reqs[r].at = "none"
      /\ ips' = [ips EXCEPT ![ip] = Recorded(f, token, clock)]
      /\ reqs' = [reqs EXCEPT ![r] = IF v = "refused" THEN NoRequest ELSE new]
  BY DEF Begin
<1>5. /\ NoRequest \in Request /\ NoRequest.at = "none"
      /\ new \in Request /\ new.at \in {"queued", "passed"} /\ new.token = token /\ new.ip = ip
  <2>1. NoRequest \in Request /\ NoRequest.at = "none"
    BY AuthAssumption DEF NoRequest, Request, Steps
  <2>2. step \in {"queued", "passed"} /\ clock \in 0 .. MaxClock
    BY DEF TypeOK
  <2>. HIDE DEF step
  <2>3. new \in Request
    BY <2>1, <2>2 DEF Request, Steps, NoRequest
  <2>4. new.at = step /\ new.token = token /\ new.ip = ip
    BY DEF NoRequest
  <2>. HIDE DEF new
  <2>. QED
    BY <2>1, <2>2, <2>3, <2>4
<1>. HIDE DEF f, v, step, new
<1>6. ips' \in [Sources -> Failures] /\ \A i \in Sources : ips'[i].seen \subseteq ips[i].seen
  BY <1>3, <1>4 DEF TypeOK
<1>. QED
  BY <1>4, <1>5, <1>6 DEF TypeOK

(* The same when its turn has come.                                        *)
LEMMA Looked ==
  ASSUME TypeOK, Carried, NEW r \in Requests, LookAgain(r)
  PROVE  /\ ips' \in [Sources -> Failures] /\ \A i \in Sources : ips'[i].seen \subseteq ips[i].seen
         /\ reqs' \in [Requests -> Request] /\ slow' \in Requests \cup {None}
         /\ \A q \in Requests \ {r} : reqs'[q] = reqs[q]
         /\ reqs'[r].at \in {"none", "passed", "read"}
         /\ reqs'[r].at # "none" => reqs'[r].token = reqs[r].token /\ reqs'[r].ip = reqs[r].ip
<1>. DEFINE ip == reqs[r].ip
            f == Known(ips[ip], reqs[r].now)
            v == Verdict(f, reqs[r].token, reqs[r].now)
            rec == Recorded(f, reqs[r].token, reqs[r].now)
<1>1. ip \in Sources /\ ips[ip] \in Failures
  BY DEF TypeOK, Carried, LookAgain
<1>2. f \in Failures /\ f.seen \subseteq ips[ip].seen
  BY <1>1, RecordedType
<1>3. rec \in Failures /\ rec.seen \subseteq ips[ip].seen
  BY <1>2, RecordedType
<1>4. /\ ips' = [ips EXCEPT ![ip] = rec]
      /\ slow' = IF v = "unknown" THEN slow ELSE None
      /\ \/ reqs' = [reqs EXCEPT ![r] = NoRequest]
         \/ reqs' = [reqs EXCEPT ![r].at = "passed"]
         \/ reqs' = [reqs EXCEPT ![r].at = "read"]
  <2>1. reqs' = CASE v = "refused" -> [reqs EXCEPT ![r] = NoRequest]
                  [] v = "passed"  -> [reqs EXCEPT ![r].at = "passed"]
                  [] OTHER         -> [reqs EXCEPT ![r].at = "read"]
    BY DEF LookAgain
  <2>. HIDE DEF f, v, rec
  <2>2. \/ reqs' = [reqs EXCEPT ![r] = NoRequest]
        \/ reqs' = [reqs EXCEPT ![r].at = "passed"]
        \/ reqs' = [reqs EXCEPT ![r].at = "read"]
    BY <2>1
  <2>3. /\ ips' = [ips EXCEPT ![ip] = rec]
        /\ slow' = IF v = "unknown" THEN slow ELSE None
    BY DEF LookAgain, f, v, rec
  <2>. QED
    BY <2>2, <2>3
<1>. HIDE DEF f, v, rec
<1>5. ips' \in [Sources -> Failures] /\ \A i \in Sources : ips'[i].seen \subseteq ips[i].seen
  BY <1>1, <1>3, <1>4 DEF TypeOK
<1>6. reqs' \in [Requests -> Request]
  BY <1>4, Stepped, ZenonT(60) DEF Steps
<1>7. slow' \in Requests \cup {None}
  BY <1>4 DEF TypeOK
<1>8. /\ \A q \in Requests \ {r} : reqs'[q] = reqs[q]
      /\ reqs'[r].at \in {"none", "passed", "read"}
      /\ reqs'[r].at # "none" => reqs'[r].token = reqs[r].token /\ reqs'[r].ip = reqs[r].ip
  BY <1>4 DEF TypeOK, Request, NoRequest
<1>. QED
  BY <1>5, <1>6, <1>7, <1>8

--------------------------------------------------------------------------------
(* A token that was verified and is wrong is noted, with its time.         *)
LEMMA Refused ==
  ASSUME TypeOK, Carried, NEW r \in Requests, Refuse(r)
  PROVE  /\ ips' \in [Sources -> Failures]
         /\ \A i \in Sources : ips'[i].seen \subseteq ips[i].seen \cup {reqs[r].token}
<1>. DEFINE ip == reqs[r].ip
            n == ips[ip].count + 1
            f == [seen  |-> IF Cardinality(ips[ip].seen) < MaxSeen
                            THEN ips[ip].seen \cup {reqs[r].token} ELSE ips[ip].seen,
                  count |-> n,
                  last  |-> reqs[r].now,
                  until |-> IF n <= FreeTries THEN ips[ip].until
                            ELSE reqs[r].now + LockStep(n - FreeTries)]
<1>1. /\ ip \in Sources /\ ips[ip] \in Failures
      /\ reqs[r].token \in Tokens /\ reqs[r].now \in Nat
  BY AuthAssumption DEF TypeOK, Carried, Refuse, Request
<1>2. ips' = [ips EXCEPT ![ip] = f]
  BY DEF Refuse
<1>3. n \in Nat /\ ips[ip].until \in Nat /\ ips[ip].seen \subseteq Tokens
  BY <1>1 DEF Failures
<1>4. ASSUME ~(n <= FreeTries) PROVE LockStep(n - FreeTries) \in Nat
  BY <1>3, <1>4, LockStepType, AuthAssumption
<1>5. f.seen \subseteq Tokens /\ f.seen \subseteq ips[ip].seen \cup {reqs[r].token}
  BY <1>1, <1>3
<1>6. f.until \in Nat
  BY <1>1, <1>3, <1>4
<1>7. f \in Failures
  BY <1>1, <1>3, <1>5, <1>6 DEF Failures
<1>. HIDE DEF f
<1>. QED
  BY <1>1, <1>2, <1>5, <1>7 DEF TypeOK

(* A change of the token: a hash of its own.                               *)
LEMMA Changed ==
  ASSUME TypeOK, Carried, NEW r \in Requests, NEW token \in Tokens, ChangeToken(r, token)
  PROVE  /\ reqs[r].at = "passed"
         /\ reqs' \in [Requests -> Request] /\ changes' \in 0 .. MaxChanges
         /\ \A q \in Requests \ {r} : reqs'[q] = reqs[q]
         /\ reqs'[r].at = "update" /\ reqs'[r].token = token /\ reqs'[r].ip = reqs[r].ip
         /\ reqs'[r].hash \in Hashes /\ reqs'[r].hash.token = token
<1>. DEFINE h == [token |-> token, salt |-> changes' + faults]
<1>1. changes' \in 0 .. MaxChanges /\ changes' + faults \in 0 .. MaxChanges + MaxFaults
  BY AuthAssumption DEF TypeOK, ChangeToken
<1>2. h \in Hashes /\ h.token = token
  BY <1>1 DEF Hashes
<1>3. reqs' = [reqs EXCEPT ![r].at = "update", ![r].token = token, ![r].hash = h]
  BY DEF ChangeToken
<1>. HIDE DEF h
<1>4. reqs' = [reqs EXCEPT ![r] = [reqs[r] EXCEPT !.at = "update", !.token = token, !.hash = h]]
  BY <1>3 DEF TypeOK
<1>5. reqs[r] \in Request
  BY DEF TypeOK
<1>6. [reqs[r] EXCEPT !.at = "update", !.token = token, !.hash = h] \in Request
  BY <1>2, <1>5 DEF Request, Steps
<1>7. reqs'[r] = [reqs[r] EXCEPT !.at = "update", !.token = token, !.hash = h]
      /\ reqs' \in [Requests -> Request] /\ \A q \in Requests \ {r} : reqs'[q] = reqs[q]
  BY <1>4, <1>6 DEF TypeOK
<1>8. reqs'[r].at = "update" /\ reqs'[r].token = token /\ reqs'[r].ip = reqs[r].ip
      /\ reqs'[r].hash = h
  BY <1>5, <1>7 DEF Request
<1>9. reqs[r].at = "passed"
  BY DEF ChangeToken
<1>. QED
  BY <1>1, <1>2, <1>7, <1>8, <1>9

(* A check takes the hash in force.                                        *)
LEMMA HashRead ==
  ASSUME TypeOK, NEW r \in Requests, ReadHash(r)
  PROVE  /\ reqs' \in [Requests -> Request]
         /\ \A q \in Requests \ {r} : reqs'[q] = reqs[q]
         /\ reqs'[r].at = "verify" /\ reqs'[r].hash = hash
         /\ reqs'[r].token = reqs[r].token /\ reqs'[r].ip = reqs[r].ip
<1>1. reqs[r] \in Request /\ hash \in Hashes
  BY DEF TypeOK
<1>2. reqs' = [reqs EXCEPT ![r] = [reqs[r] EXCEPT !.at = "verify", !.hash = hash]]
  BY DEF ReadHash, TypeOK
<1>3. [reqs[r] EXCEPT !.at = "verify", !.hash = hash] \in Request
  BY <1>1 DEF Request, Steps
<1>. QED
  BY <1>1, <1>2, <1>3 DEF TypeOK, Request

(* A restart has what is stored, or what is configured now.                *)
LEMMA Restarted ==
  ASSUME TypeOK, NEW c \in Tokens, Restart(c)
  PROVE  st' \in Admin /\ disk' = st' /\ hash' = st'.token /\ faults' \in 0 .. MaxFaults
<1>1. changes + faults \in 0 .. MaxChanges + MaxFaults
  BY AuthAssumption DEF TypeOK
<1>2. Hash(c) \in Hashes
  BY <1>1 DEF Hash, Hashes
<1>3. InForce(disk, c) \in Admin
  BY <1>2 DEF InForce, Admin, TypeOK
<1>. QED
  BY <1>3, AuthAssumption DEF Restart, TypeOK

(* Every step keeps the types.                                             *)
LEMMA NextTypeOK == ASSUME TypeOK, Carried, [Next]_vars PROVE TypeOK'
<1>. USE DEF TypeOK, ghosts
<1>1. ASSUME NEW r \in Requests, NEW token \in Tokens, NEW ip \in Sources, Begin(r, token, ip)
      PROVE  TypeOK'
  BY <1>1, Begun DEF Begin
<1>2. ASSUME NEW r \in Requests, Enter(r) PROVE TypeOK'
  BY <1>2, Stepped DEF Enter, Steps
<1>3. ASSUME NEW r \in Requests, LookAgain(r) PROVE TypeOK'
  BY <1>3, Looked DEF LookAgain
<1>4. ASSUME NEW r \in Requests, ReadHash(r) PROVE TypeOK'
  BY <1>4, HashRead DEF ReadHash
<1>5. ASSUME NEW r \in Requests, Accept(r) PROVE TypeOK'
  <2>1. reqs' \in [Requests -> Request]
    BY <1>5, Stepped DEF Accept, Steps
  <2>2. ips' \in [Sources -> Failures]
    BY <1>5 DEF Accept, NoFailures, Failures
  <2>3. okToken' \in Tokens \cup {None}
    BY <1>5 DEF Accept, Carried
  <2>. QED
    BY <1>5, <2>1, <2>2, <2>3 DEF Accept
<1>6. ASSUME NEW r \in Requests, Refuse(r) PROVE TypeOK'
  <2>1. reqs' \in [Requests -> Request]
    BY <1>6, Stepped DEF Refuse
  <2>. QED
    BY <1>6, <2>1, Refused DEF Refuse
<1>7. ASSUME NEW r \in Requests, Answer(r) PROVE TypeOK'
  BY <1>7, Stepped DEF Answer
<1>8. ASSUME NEW r \in Requests, NEW token \in Tokens, ChangeToken(r, token) PROVE TypeOK'
  <2>1. crossed' \in BOOLEAN
    BY <1>8 DEF ChangeToken
  <2>. QED
    BY <1>8, <2>1, Changed DEF ChangeToken
<1>9. ASSUME NEW r \in Requests, SaveToken(r) PROVE TypeOK'
  <2>0. reqs' = [reqs EXCEPT ![r].at = "set"] \/ reqs' = [reqs EXCEPT ![r] = NoRequest]
    BY <1>9 DEF SaveToken
  <2>1. reqs' \in [Requests -> Request]
    BY <2>0, Stepped, ZenonT(60) DEF Steps
  <2>2. reqs[r].hash \in Hashes
    BY <1>9 DEF SaveToken, Carried, Changing
  <2>3. st' \in Admin /\ disk' \in Admin
    BY <1>9, <2>2 DEF SaveToken, Admin
  <2>4. /\ (unsaved' = unsaved \/ unsaved' = TRUE)
        /\ (faults' = faults \/ (faults < MaxFaults /\ faults' = faults + 1))
    BY <1>9 DEF SaveToken
  <2>5. unsaved' \in BOOLEAN
    BY <2>4
  <2>6. faults' \in 0 .. MaxFaults
    BY <2>4, AuthAssumption
  <2>. QED
    BY <1>9, <2>1, <2>3, <2>5, <2>6 DEF SaveToken
<1>10. ASSUME NEW r \in Requests, SetToken(r) PROVE TypeOK'
  <2>1. reqs' \in [Requests -> Request]
    BY <1>10, Stepped DEF SetToken
  <2>2. reqs[r].hash \in Hashes /\ reqs[r].token \in Tokens
    BY <1>10 DEF SetToken, Carried, Changing
  <2>. QED
    BY <1>10, <2>1, <2>2 DEF SetToken
<1>11. CASE Prune
  <2>1. \A i \in Sources : Known(ips[i], clock) \in Failures
    BY RecordedType
  <2>. QED
    BY <1>11, <2>1 DEF Prune
<1>12. CASE Tick
  BY <1>12, AuthAssumption DEF Tick
<1>13. ASSUME NEW c \in Tokens, Restart(c) PROVE TypeOK'
  <2>1. NoFailures \in Failures /\ NoRequest \in Request
    BY AuthAssumption DEF NoFailures, Failures, NoRequest, Request, Steps
  <2>2. hash' \in Hashes
    BY <1>13, Restarted DEF Admin
  <2>. QED
    BY <1>13, <2>1, <2>2, Restarted DEF Restart
<1>14. CASE UNCHANGED vars
  BY <1>14 DEF vars
<1>. QED
  BY <1>1, <1>2, <1>3, <1>4, <1>5, <1>6, <1>7, <1>8, <1>9, <1>10, <1>11, <1>12, <1>13, <1>14
     DEF Next, Check, Change

--------------------------------------------------------------------------------
(* A request has with it what its step needs.                              *)
LEMMA NextCarried == ASSUME TypeOK, Carried, [Next]_vars PROVE Carried'
<1>. USE DEF TypeOK, Carried, Changing
<1>1. ASSUME NEW r \in Requests,
             \A q \in Requests \ {r} : reqs'[q] = reqs[q],
             reqs'[r].at # "none" => reqs'[r].token \in Tokens /\ reqs'[r].ip \in Sources,
             reqs'[r].at \in Changing \cup {"verify"} => reqs'[r].hash \in Hashes,
             reqs'[r].at \in Changing => reqs'[r].token = reqs'[r].hash.token
      PROVE  Carried'
  BY <1>1
<1>2. ASSUME NEW r \in Requests, NEW token \in Tokens, NEW ip \in Sources, Begin(r, token, ip)
      PROVE  Carried'
  BY <1>1, <1>2, Begun
<1>3. ASSUME NEW r \in Requests, Enter(r) PROVE Carried'
  BY <1>3 DEF Enter, Request
<1>4. ASSUME NEW r \in Requests, LookAgain(r) PROVE Carried'
  <2>1. reqs[r].at # "none"
    BY <1>4 DEF LookAgain
  <2>. QED
    BY <1>1, <1>4, <2>1, Looked
<1>5. ASSUME NEW r \in Requests, ReadHash(r) PROVE Carried'
  <2>1. reqs[r].at # "none"
    BY <1>5 DEF ReadHash
  <2>. QED
    BY <1>1, <1>5, <2>1, HashRead
<1>6. ASSUME NEW r \in Requests, Accept(r) PROVE Carried'
  BY <1>6 DEF Accept, Request
<1>7. ASSUME NEW r \in Requests, Refuse(r) \/ Answer(r) \/ SetToken(r) PROVE Carried'
  BY <1>7 DEF Refuse, Answer, SetToken, NoRequest
<1>8. ASSUME NEW r \in Requests, NEW token \in Tokens, ChangeToken(r, token) PROVE Carried'
  BY <1>1, <1>8, Changed
<1>9. ASSUME NEW r \in Requests, SaveToken(r) PROVE Carried'
  <2>1. reqs' = [reqs EXCEPT ![r].at = "set"] \/ reqs' = [reqs EXCEPT ![r] = NoRequest]
    BY <1>9 DEF SaveToken
  <2>2. reqs[r].at = "update"
    BY <1>9 DEF SaveToken
  <2>. QED
    BY <2>1, <2>2 DEF Request, NoRequest
<1>10. ASSUME NEW c \in Tokens, Restart(c) PROVE Carried'
  BY <1>10 DEF Restart, NoRequest
<1>11. CASE Prune \/ Tick \/ UNCHANGED vars
  BY <1>11 DEF Prune, Tick, vars
<1>. QED
  BY <1>2, <1>3, <1>4, <1>5, <1>6, <1>7, <1>8, <1>9, <1>10, <1>11 DEF Next, Check, Change

(* What passes without a hash is the token in force, and nobody is shut    *)
(* out with it.                                                            *)
LEMMA NextDecides ==
  ASSUME TypeOK, Carried, OldTokenEnds, RightTokenPasses, Overtaken, [Next]_vars
  PROVE  OldTokenEnds' /\ RightTokenPasses' /\ Overtaken'
<1>. DEFINE Goal == OldTokenEnds' /\ RightTokenPasses' /\ Overtaken'
<1>. USE DEF TypeOK, OldTokenEnds, RightTokenPasses, Overtaken
<1>1. ASSUME UNCHANGED <<hash, okToken>>, \A i \in Sources : ips'[i].seen \subseteq ips[i].seen,
             \A q \in Requests : reqs'[q].at = "verify" => reqs'[q] = reqs[q] \/ reqs'[q].hash = hash
      PROVE  Goal
  BY <1>1
<1>2. ASSUME NEW r \in Requests, NEW token \in Tokens, NEW ip \in Sources, Begin(r, token, ip)
      PROVE  Goal
  <2>1. UNCHANGED <<hash, okToken>>
    BY <1>2 DEF Begin
  <2>. QED
    BY <1>1, <1>2, <2>1, Begun
<1>3. ASSUME NEW r \in Requests, LookAgain(r) PROVE Goal
  <2>1. UNCHANGED <<hash, okToken>>
    BY <1>3 DEF LookAgain
  <2>. QED
    BY <1>1, <1>3, <2>1, Looked
<1>4. ASSUME NEW r \in Requests, ReadHash(r) PROVE Goal
  <2>1. UNCHANGED <<hash, okToken, ips>>
    BY <1>4 DEF ReadHash
  <2>. QED
    BY <1>1, <1>4, <2>1, HashRead
<1>5. ASSUME NEW r \in Requests, Accept(r) PROVE Goal
  <2>1. UNCHANGED hash /\ okToken' = IF hash = reqs[r].hash THEN reqs[r].token ELSE okToken
    BY <1>5 DEF Accept
  <2>2. reqs[r].token = reqs[r].hash.token
    BY <1>5 DEF Accept, Good
  <2>3. okToken' = hash.token \/ okToken' = okToken
    BY <2>1, <2>2
  <2>4. \A i \in Sources : ips'[i].seen \subseteq ips[i].seen
    BY <1>5 DEF Accept, NoFailures
  <2>5. \A q \in Requests : reqs'[q].at = "verify" => reqs'[q] = reqs[q]
    BY <1>5 DEF Accept, Request
  <2>. QED
    BY <2>1, <2>3, <2>4, <2>5
<1>6. ASSUME NEW r \in Requests, Refuse(r) PROVE Goal
  <2>1. /\ reqs[r].at = "verify" /\ reqs[r].token # reqs[r].hash.token
        /\ UNCHANGED <<hash, okToken>>
    BY <1>6 DEF Refuse, Good
  <2>2. reqs[r].token = hash.token => okToken = hash.token
    BY <2>1
  <2>3. \A i \in Sources : ips'[i].seen \subseteq ips[i].seen \cup {reqs[r].token}
    BY <1>6, Refused
  <2>4. \A q \in Requests : reqs'[q].at = "verify" => reqs'[q] = reqs[q]
    BY <1>6 DEF Refuse, NoRequest
  <2>. QED
    BY <2>1, <2>2, <2>3, <2>4
<1>7. ASSUME NEW r \in Requests, Enter(r) \/ Answer(r) \/ SaveToken(r) PROVE Goal
  <2>1. UNCHANGED <<hash, okToken, ips>>
    BY <1>7 DEF Enter, Answer, SaveToken
  <2>2. \A q \in Requests : reqs'[q].at = "verify" => reqs'[q] = reqs[q]
    BY <1>7 DEF Enter, Answer, SaveToken, NoRequest, Request
  <2>. QED
    BY <1>1, <2>1, <2>2
<1>8. ASSUME NEW r \in Requests, NEW token \in Tokens, ChangeToken(r, token) PROVE Goal
  <2>1. UNCHANGED <<hash, okToken, ips>>
    BY <1>8 DEF ChangeToken
  <2>. QED
    BY <1>1, <1>8, <2>1, Changed
<1>9. ASSUME NEW r \in Requests, SetToken(r) PROVE Goal
  <2>1. hash' = reqs[r].hash /\ okToken' = reqs[r].token
    BY <1>9 DEF SetToken
  <2>2. okToken' = hash'.token
    BY <1>9, <2>1 DEF SetToken, Carried, Changing
  <2>. QED
    BY <2>2
<1>10. ASSUME NEW c \in Tokens, Restart(c) PROVE Goal
  BY <1>10 DEF Restart, NoRequest, NoFailures
<1>11. CASE Prune
  <2>1. \A i \in Sources : ips[i] \in Failures /\ ips'[i] = Known(ips[i], clock)
    BY <1>11 DEF Prune
  <2>2. UNCHANGED <<hash, okToken, reqs>>
    BY <1>11 DEF Prune
  <2>. QED
    BY <1>1, <2>1, <2>2, RecordedType
<1>12. CASE Tick \/ UNCHANGED vars
  BY <1>12 DEF Tick, vars
<1>. QED
  BY <1>2, <1>3, <1>4, <1>5, <1>6, <1>7, <1>8, <1>9, <1>10, <1>11, <1>12 DEF Next, Check, Change

(* Changes that do not cross are stored and put in force one by one.       *)
LEMMA NextStored ==
  ASSUME TypeOK, Carried, OneWriter, InForceIsStored, [Next]_vars
  PROVE  OneWriter' /\ InForceIsStored'
<1>. DEFINE Goal == OneWriter' /\ InForceIsStored'
<1>. USE DEF TypeOK, OneWriter, InForceIsStored, Changing, ghosts
<1>1. ASSUME UNCHANGED <<hash, disk, crossed, unsaved>>,
             \A q \in Requests : reqs[q].at \in Changing \/ reqs'[q].at \in Changing => reqs'[q] = reqs[q]
      PROVE  Goal
  BY <1>1
<1>2. ASSUME NEW r \in Requests, NEW token \in Tokens, NEW ip \in Sources, Begin(r, token, ip)
      PROVE  Goal
  <2>1. UNCHANGED <<hash, disk, crossed, unsaved>>
    BY <1>2 DEF Begin
  <2>. QED
    BY <1>1, <1>2, <2>1, Begun
<1>3. ASSUME NEW r \in Requests, LookAgain(r) PROVE Goal
  <2>1. UNCHANGED <<hash, disk, crossed, unsaved>> /\ reqs[r].at = "slow"
    BY <1>3 DEF LookAgain
  <2>. QED
    BY <1>1, <1>3, <2>1, Looked
<1>4. ASSUME NEW r \in Requests, ReadHash(r) PROVE Goal
  <2>1. UNCHANGED <<hash, disk, crossed, unsaved>> /\ reqs[r].at = "read"
    BY <1>4 DEF ReadHash
  <2>. QED
    BY <1>1, <1>4, <2>1, HashRead
<1>5. ASSUME NEW r \in Requests, Enter(r) \/ Accept(r) \/ Refuse(r) \/ Answer(r) PROVE Goal
  <2>1. UNCHANGED <<hash, disk, crossed, unsaved>>
    BY <1>5 DEF Enter, Accept, Refuse, Answer
  <2>2. \A q \in Requests : reqs[q].at \in Changing \/ reqs'[q].at \in Changing => reqs'[q] = reqs[q]
    BY <1>5 DEF Enter, Accept, Refuse, Answer, NoRequest, Request
  <2>. QED
    BY <1>1, <2>1, <2>2
<1>6. ASSUME NEW r \in Requests, NEW token \in Tokens, ChangeToken(r, token) PROVE Goal
  <2>1. UNCHANGED <<hash, disk, unsaved>>
    BY <1>6 DEF ChangeToken
  <2>2. crossed' <=> crossed \/ \E q \in Requests : reqs[q].at \in Changing
    BY <1>6 DEF ChangeToken
  <2>3. reqs[r].at = "passed" /\ reqs'[r].at = "update" /\ \A q \in Requests \ {r} : reqs'[q] = reqs[q]
    BY <1>6, Changed
  <2>. QED
    BY <2>1, <2>2, <2>3
<1>7. ASSUME NEW r \in Requests, SaveToken(r) PROVE Goal
  <2>1. reqs[r].at = "update" /\ UNCHANGED <<hash, crossed>>
    BY <1>7 DEF SaveToken
  <2>2. \A q \in Requests \ {r} : reqs'[q] = reqs[q]
    BY <1>7 DEF SaveToken
  <2>3. \/ disk'.token = reqs[r].hash /\ reqs'[r].at = "set" /\ reqs'[r].hash = reqs[r].hash
        \/ unsaved' /\ reqs'[r].at = "none" /\ disk' = disk
    BY <1>7 DEF SaveToken, Admin, Request, NoRequest
  <2>. QED
    BY <2>1, <2>2, <2>3
<1>8. ASSUME NEW r \in Requests, SetToken(r) PROVE Goal
  <2>1. reqs[r].at = "set" /\ hash' = reqs[r].hash /\ UNCHANGED <<disk, crossed, unsaved>>
    BY <1>8 DEF SetToken
  <2>2. reqs'[r].at = "none" /\ \A q \in Requests \ {r} : reqs'[q] = reqs[q]
    BY <1>8 DEF SetToken, NoRequest
  <2>. QED
    BY <2>1, <2>2
<1>9. ASSUME NEW c \in Tokens, Restart(c) PROVE Goal
  <2>1. hash' = disk'.token /\ \A q \in Requests : reqs'[q].at = "none"
    BY <1>9, Restarted DEF Restart, NoRequest
  <2>. QED
    BY <2>1
<1>10. CASE Prune \/ Tick \/ UNCHANGED vars
  BY <1>10 DEF Prune, Tick, vars
<1>. QED
  BY <1>2, <1>3, <1>4, <1>5, <1>6, <1>7, <1>8, <1>9, <1>10 DEF Next, Check, Change

(* A check that begins, or looks again, leaves a source as it was or       *)
(* forgets its tries; it goes on to the hash only when there is no lock.   *)
LEMMA LookKeepsOrForgets ==
  ASSUME NEW f, NEW token, NEW now,
         NEW g, g = Recorded(Known(f, now), token, now)
  PROVE  /\ g \in {f, NoFailures}
         /\ Verdict(Known(f, now), token, now) = "unknown" => ~(g.count > 0) \/ ~(now < g.until)
<1>1. Known(f, now) \in {f, NoFailures}
  BY DEF Known
<1>2. g \in {Known(f, now), NoFailures}
  BY DEF Recorded
<1>3. Verdict(Known(f, now), token, now) = "unknown" =>
        g = Known(f, now) /\ ~Locked(Known(f, now), now)
  BY DEF Recorded, Verdict
<1>4. NoFailures.count = 0
  BY DEF NoFailures
<1>. QED
  BY <1>1, <1>2, <1>3, <1>4 DEF Locked

(* The slow hash has one check at a time.                                  *)
LEMMA NextOneSlow ==
  ASSUME TypeOK, Carried, OneSlow, [Next]_vars
  PROVE  OneSlow'
<1>. USE DEF TypeOK
<1>0. NoFailures.count = 0 /\ NoFailures.until = 0 /\ NoRequest.at = "none" /\ None \notin Requests
  BY AuthAssumption DEF NoFailures, NoRequest
<1>1. ASSUME \A i \in Sources : ips'[i] \in {ips[i], NoFailures},
             \A q \in Requests :
               /\ reqs'[q].at \in {"slow", "read", "verify"} => slow' = q
               /\ reqs'[q].at \in {"read", "verify"} =>
                    /\ reqs[q].at \in {"read", "verify"}
                    /\ reqs'[q].ip = reqs[q].ip /\ reqs'[q].now = reqs[q].now
      PROVE  OneSlow'
  <2>1. \A q \in Requests : reqs[q].at \in {"read", "verify"} => reqs[q].ip \in Sources /\ reqs[q].now \in Nat
    BY AuthAssumption DEF Carried, Request
  <2>. QED
    BY <1>0, <1>1, <2>1 DEF OneSlow
<1>2. ASSUME NEW r \in Requests, NEW token \in Tokens, NEW ip \in Sources, Begin(r, token, ip)
      PROVE  OneSlow'
  <2>1. /\ \A q \in Requests \ {r} : reqs'[q] = reqs[q]
        /\ reqs'[r].at \in {"none", "queued", "passed"}
    BY <1>2, Begun
  <2>2. ips' = [ips EXCEPT ![ip] = Recorded(Known(ips[ip], clock), token, clock)] /\ slow' = slow
    BY <1>2 DEF Begin
  <2>3. Recorded(Known(ips[ip], clock), token, clock) \in {ips[ip], NoFailures}
    BY LookKeepsOrForgets
  <2>. QED
    BY <1>1, <2>1, <2>2, <2>3 DEF OneSlow
<1>3. ASSUME NEW r \in Requests, Enter(r) PROVE OneSlow'
  <2>1. /\ slow = None /\ slow' = r /\ ips' = ips
        /\ \A q \in Requests \ {r} : reqs'[q] = reqs[q]
        /\ reqs'[r].at = "slow"
    BY <1>3 DEF Enter, Request
  <2>. QED
    BY <1>0, <1>1, <2>1 DEF OneSlow
<1>4. ASSUME NEW r \in Requests, LookAgain(r) PROVE OneSlow'
  <2>. DEFINE ip  == reqs[r].ip
              now == reqs[r].now
              f   == Known(ips[ip], now)
              v   == Verdict(f, reqs[r].token, now)
              g   == Recorded(f, reqs[r].token, now)
  <2>1. reqs[r].at = "slow" /\ slow = r /\ ip \in Sources /\ now \in Nat /\ ips[ip] \in Failures
    BY <1>4, AuthAssumption DEF LookAgain, OneSlow, Carried, Request
  <2>2. /\ ips' = [ips EXCEPT ![ip] = g]
        /\ slow' = IF v = "unknown" THEN slow ELSE None
        /\ reqs' = CASE v = "refused" -> [reqs EXCEPT ![r] = NoRequest]
                     [] v = "passed"  -> [reqs EXCEPT ![r].at = "passed"]
                     [] OTHER         -> [reqs EXCEPT ![r].at = "read"]
    BY <1>4 DEF LookAgain
  <2>3. g \in {ips[ip], NoFailures} /\ (v = "unknown" => ~(g.count > 0) \/ ~(now < g.until))
    BY LookKeepsOrForgets
  <2>4. v \in {"refused", "passed", "unknown"}
    BY DEF Verdict
  <2>. HIDE DEF f, v, g
  <2>5. /\ \A q \in Requests \ {r} : reqs'[q] = reqs[q]
        /\ \/ v # "unknown" /\ reqs'[r].at \in {"none", "passed"}
           \/ v = "unknown" /\ reqs'[r].at = "read" /\ reqs'[r].ip = ip /\ reqs'[r].now = now
    BY <1>0, <2>2, <2>4 DEF Request
  <2>6. \A q \in Requests \ {r} : reqs[q].at \notin {"slow", "read", "verify"}
    BY <2>1 DEF OneSlow
  <2>7. g.count = 0 => g.until = 0
    BY <1>0, <2>1, <2>3 DEF OneSlow
  <2>8. \A i \in Sources : ips'[i] = IF i = ip THEN g ELSE ips[i]
    BY <2>2
  <2>9. g.until \in Nat /\ g.count \in Nat
    BY <1>0, <2>1, <2>3 DEF Failures
  <2>10. CASE v # "unknown"
    BY <1>1, <2>3, <2>5, <2>6, <2>8, <2>10
  <2>11. CASE v = "unknown"
    <3>1. g.until <= now
      BY <2>1, <2>3, <2>7, <2>9, <2>11
    <3>2. slow' = r
      BY <2>1, <2>2, <2>11
    <3>3. \A i \in Sources : ips'[i].count = 0 => ips'[i].until = 0
      BY <2>7, <2>8 DEF OneSlow
    <3>4. reqs'[r].at = "read" /\ ips'[reqs'[r].ip].until <= reqs'[r].now
      BY <2>1, <2>5, <2>8, <2>11, <3>1
    <3>5. \A q \in Requests \ {r} : reqs'[q].at \notin {"slow", "read", "verify"}
      BY <2>5, <2>6
    <3>. QED
      BY <3>2, <3>3, <3>4, <3>5 DEF OneSlow
  <2>. QED
    BY <2>10, <2>11
<1>5. ASSUME NEW r \in Requests, ReadHash(r) PROVE OneSlow'
  <2>1. /\ \A q \in Requests \ {r} : reqs'[q] = reqs[q]
        /\ reqs[r].at = "read" /\ reqs'[r].ip = reqs[r].ip /\ reqs'[r].now = reqs[r].now
        /\ UNCHANGED <<ips, slow>>
    BY <1>5 DEF ReadHash, Request
  <2>. QED
    BY <1>1, <2>1 DEF OneSlow
<1>6. ASSUME NEW r \in Requests, Accept(r) PROVE OneSlow'
  <2>1. /\ \A q \in Requests \ {r} : reqs'[q] = reqs[q]
        /\ reqs[r].at = "verify" /\ reqs'[r].at = "passed"
        /\ ips' = [ips EXCEPT ![reqs[r].ip] = NoFailures]
    BY <1>6 DEF Accept, Request
  <2>2. \A q \in Requests \ {r} : reqs[q].at \notin {"slow", "read", "verify"}
    BY <2>1 DEF OneSlow
  <2>. QED
    BY <1>1, <2>1, <2>2
<1>7. ASSUME NEW r \in Requests, Refuse(r) PROVE OneSlow'
  <2>1. /\ \A q \in Requests \ {r} : reqs'[q] = reqs[q]
        /\ reqs[r].at = "verify" /\ reqs'[r].at = "none"
    BY <1>0, <1>7 DEF Refuse
  <2>2. \A q \in Requests \ {r} : reqs[q].at \notin {"slow", "read", "verify"}
    BY <2>1 DEF OneSlow
  <2>3. \A i \in Sources : ips'[i] = ips[i] \/ (ips[i].count \in Nat /\ ips'[i].count = ips[i].count + 1)
    BY <1>7 DEF Refuse, Failures
  <2>. QED
    BY <2>1, <2>2, <2>3 DEF OneSlow
<1>8. ASSUME NEW r \in Requests, NEW token \in Tokens, ChangeToken(r, token) PROVE OneSlow'
  <2>1. UNCHANGED <<ips, slow>>
    BY <1>8 DEF ChangeToken
  <2>. QED
    BY <1>1, <1>8, <2>1, Changed DEF OneSlow
<1>9. ASSUME NEW r \in Requests, Answer(r) \/ SaveToken(r) \/ SetToken(r) PROVE OneSlow'
  <2>1. /\ \A q \in Requests \ {r} : reqs'[q] = reqs[q]
        /\ reqs'[r].at \in {"none", "set"}
        /\ UNCHANGED <<ips, slow>>
    BY <1>0, <1>9 DEF Answer, SaveToken, SetToken, Request
  <2>. QED
    BY <1>1, <2>1 DEF OneSlow
<1>10. ASSUME NEW c \in Tokens, Restart(c) PROVE OneSlow'
  <2>1. \A q \in Requests : reqs'[q].at = "none"
    BY <1>0, <1>10 DEF Restart
  <2>2. \A i \in Sources : ips'[i] = NoFailures
    BY <1>10 DEF Restart
  <2>. QED
    BY <1>1, <2>1, <2>2
<1>11. CASE Prune
  <2>1. \A i \in Sources : ips'[i] \in {ips[i], NoFailures}
    BY <1>11 DEF Prune, Known
  <2>2. UNCHANGED <<reqs, slow>>
    BY <1>11 DEF Prune
  <2>. QED
    BY <1>1, <2>1, <2>2 DEF OneSlow
<1>12. CASE Tick \/ UNCHANGED vars
  BY <1>1, <1>12 DEF Tick, vars, OneSlow
<1>. QED
  BY <1>2, <1>3, <1>4, <1>5, <1>6, <1>7, <1>8, <1>9, <1>10, <1>11, <1>12 DEF Next, Check, Change

(* A step that counts a wrong token climbs the ladder.                     *)
Climbed ==
  \A i \in Sources : LET n == ips'[i].count IN
    n > ips[i].count =>
      /\ n = ips[i].count + 1
      /\ n > FreeTries => ips'[i].until >= ips[i].until + LockStep(n - FreeTries)

LEMMA StepClimbs ==
  ASSUME TypeOK, Carried, OneSlow, [Next]_vars
  PROVE  Climbed
<1>. USE DEF TypeOK
<1>0. \A i \in Sources : ips[i].count \in Nat /\ ips[i].until \in Nat
  BY DEF Failures
<1>1. ASSUME \A i \in Sources : ips'[i] \in {ips[i], NoFailures} PROVE Climbed
  <2>1. \A i \in Sources : ~(ips'[i].count > ips[i].count)
    BY <1>0, <1>1 DEF NoFailures
  <2>. QED
    BY <2>1 DEF Climbed
<1>2. ASSUME NEW r \in Requests, NEW token \in Tokens, NEW ip \in Sources, Begin(r, token, ip)
      PROVE  Climbed
  <2>1. ips' = [ips EXCEPT ![ip] = Recorded(Known(ips[ip], clock), token, clock)]
    BY <1>2 DEF Begin
  <2>2. Recorded(Known(ips[ip], clock), token, clock) \in {ips[ip], NoFailures}
    BY LookKeepsOrForgets
  <2>. QED
    BY <1>1, <2>1, <2>2
<1>3. ASSUME NEW r \in Requests, LookAgain(r) PROVE Climbed
  <2>. DEFINE ip == reqs[r].ip
              g  == Recorded(Known(ips[ip], reqs[r].now), reqs[r].token, reqs[r].now)
  <2>1. ips' = [ips EXCEPT ![ip] = g]
    BY <1>3 DEF LookAgain
  <2>2. g \in {ips[ip], NoFailures}
    BY LookKeepsOrForgets
  <2>. HIDE DEF g
  <2>. QED
    BY <1>1, <2>1, <2>2
<1>4. ASSUME NEW r \in Requests, Refuse(r) PROVE Climbed
  <2>. DEFINE ip == reqs[r].ip
              n  == ips[ip].count + 1
  <2>1. /\ ip \in Sources /\ reqs[r].now \in Nat /\ n \in Nat
        /\ ips[ip].until <= reqs[r].now
    BY <1>0, <1>4, AuthAssumption DEF Refuse, Carried, OneSlow, Request
  <2>2. \A i \in Sources \ {ip} : ips'[i] = ips[i]
    BY <1>4 DEF Refuse
  <2>3. /\ ips'[ip].count = n
        /\ n > FreeTries => ips'[ip].until = reqs[r].now + LockStep(n - FreeTries)
    BY <1>4, <2>1, AuthAssumption DEF Refuse
  <2>4. n > FreeTries => LockStep(n - FreeTries) \in Nat
    BY <2>1, LockStepType, AuthAssumption
  <2>5. n > FreeTries => ips'[ip].until >= ips[ip].until + LockStep(n - FreeTries)
    BY <1>0, <2>1, <2>3, <2>4
  <2>6. \A i \in Sources \ {ip} : ~(ips'[i].count > ips[i].count)
    BY <1>0, <2>2
  <2>. QED
    BY <2>3, <2>5, <2>6 DEF Climbed
<1>5. ASSUME NEW r \in Requests, Accept(r) PROVE Climbed
  BY <1>1, <1>5 DEF Accept
<1>6. ASSUME NEW c \in Tokens, Restart(c) PROVE Climbed
  BY <1>1, <1>6 DEF Restart
<1>7. CASE Prune
  BY <1>1, <1>7 DEF Prune, Known
<1>8. CASE Tick \/ UNCHANGED vars \/ \E r \in Requests : Enter(r) \/ ReadHash(r) \/ Change(r)
  <2>1. UNCHANGED ips
    BY <1>8 DEF Tick, vars, Enter, ReadHash, Change, Answer, ChangeToken, SaveToken, SetToken
  <2>. QED
    BY <1>1, <2>1
<1>. QED
  BY <1>2, <1>3, <1>4, <1>5, <1>6, <1>7, <1>8 DEF Next, Check

--------------------------------------------------------------------------------
(* What is known of requests, of what is remembered and of what is stored  *)
(* holds throughout.                                                       *)
THEOREM Invariance == Spec => []IInv
<1>1. Init => IInv
  <2>. SUFFICES ASSUME Init PROVE IInv
    OBVIOUS
  <2>. USE DEF Init
  <2>1. hash \in Hashes /\ NoFailures \in Failures /\ NoRequest \in Request
    BY AuthAssumption DEF Hashes, NoFailures, Failures, NoRequest, Request, Steps
  <2>2. st \in Admin /\ disk \in Admin /\ disk.token = hash
    BY <2>1 DEF Admin
  <2>3. changes \in 0 .. MaxChanges /\ faults \in 0 .. MaxFaults /\ clock \in 0 .. MaxClock
    BY AuthAssumption
  <2>4. TypeOK
    BY <2>1, <2>2, <2>3 DEF TypeOK
  <2>5. Carried /\ Overtaken /\ OneWriter /\ OneSlow
    BY DEF Carried, Overtaken, OneWriter, OneSlow, NoRequest, NoFailures, Changing
  <2>6. OldTokenEnds /\ RightTokenPasses /\ InForceIsStored
    BY <2>2 DEF OldTokenEnds, RightTokenPasses, InForceIsStored, NoFailures
  <2>. QED
    BY <2>4, <2>5, <2>6 DEF IInv
<1>2. IInv /\ [Next]_vars => IInv'
  BY NextTypeOK, NextCarried, NextOneSlow, NextDecides, NextStored DEF IInv
<1>. QED
  BY <1>1, <1>2, PTL DEF Spec

(* Types are kept.                                                         *)
THEOREM TypeCorrect == Spec => []TypeOK
  BY Invariance, PTL DEF IInv

(* However many requests check and change the token at once, what passes   *)
(* without a hash is the token in force, and nobody who has it is refused  *)
(* for having tried it before (adminauth.go, check and set).               *)
THEOREM InForceDecides == Spec => []TokenInForceDecides
<1>1. IInv => TokenInForceDecides
  BY DEF IInv, TokenInForceDecides
<1>. QED
  BY <1>1, Invariance, PTL

(* A restart brings the token that is in force, unless changes crossed or  *)
(* one was not written (handlePutAdminToken, store.go Update).             *)
THEOREM StoredInForce == Spec => []InForceIsStored
  BY Invariance, PTL DEF IInv

(* However many checks of a source queue for the slow hash at once, each   *)
(* wrong token waits for the lock of the one before and adds its own step  *)
(* of the ladder (adminauth.go, check and quickCheck).                     *)
THEOREM WholeLadder == Spec => LadderIsClimbed
<1>1. IInv /\ [Next]_vars => [Climbed]_vars
  BY StepClimbs DEF IInv
<1>. QED
  BY <1>1, Invariance, PTL DEF Spec, LadderIsClimbed, Climbed

--------------------------------------------------------------------------------
\* The media

(* Where the worker is at a job; where a request has become one, and where *)
(* it is about to put its file; which uploads have a name of their own.    *)
AtJob     == {"taken", "work", "produced", "broken", "adopt", "hashed", "append"}
JobSteps  == {"added", "queued"}
Placing   == {"claimed", "received", "moving"}
Adoptive  == {"moved", "hashed"}
Owner(u)  == up[u].at \in Placing \cup Adoptive \/ u \in ToSet(jobs)
FileOf(u) == files[up[u].dev][up[u].name]
Made(u)   == worker.job = u /\ worker.at \in {"produced", "adopt", "hashed", "append"}
Seeking(u) == up[u].at \in Placing \/ (u \in ToSet(jobs) /\ ~Made(u))

(* An adoption that has hashed the file of u.                              *)
Hashing(u) == up[u].at = "hashed" \/ (worker.job = u /\ worker.at = "hashed")

(* The product of a removed job lies under a name that may be another's;   *)
(* so does a file that an adoption has put.                                *)
Stray(d, n) ==
  \/ /\ worker.at = "produced" /\ JobRemoved
     /\ Job.dev = d /\ Job.name = n
  \/ <<d, n>> \in revived

(* What an upload knows at each step, and who the operator is dealing with.*)
UploadInv ==
  /\ \A u \in Uploads :
       /\ up[u].at \in Requesting \cup {"queued"} => up[u].dev \in Devices /\ up[u].content \in Contents
       /\ up[u].at \in Placing \cup Adoptive \cup {"landed"} \cup JobSteps => up[u].name \in Names
  /\ operator.at = "none" <=> operator.dev \notin Devices
  /\ operator.at = "unlink" => operator.name \in Names
  /\ operator.at \in {"unlink", "edit"} => operator.dev \in registered

HashInv == \A u \in Uploads : hashed[u] # Nothing <=> Hashing(u)

(* The queue and the worker.                                               *)
QueueInv ==
  /\ worker.job # NoJob <=> worker.at \in AtJob
  /\ worker.job # NoJob => up[worker.job].at \in JobSteps /\ worker.job \notin failed
  /\ \A u \in ToSet(jobs) : up[u].at \in JobSteps
  /\ failed \subseteq ToSet(jobs) /\ failed \cap incoming = {}
  /\ worker.at = "taken" /\ JobRemoved => worker.job \notin incoming
  /\ \A u \in incoming :
       \/ up[u].at \in {"received", "moving"}
       \/ up[u].at \in JobSteps /\ (Waiting(u) \/ worker.job = u)

(* A name has one owner, who finds it free, but for the product of a       *)
(* removed job and for what an adoption has put there.                     *)
NamesInv ==
  /\ \A u, v \in Uploads : u # v /\ Owner(u) /\ Owner(v) /\ up[u].dev = up[v].dev => up[u].name # up[v].name
  /\ \A u \in Uploads :
       Seeking(u) => FileOf(u) = Nothing \/ Stray(up[u].dev, up[u].name)

(* The disk and the index: a file lies in a directory, a copy is indexed,  *)
(* and the clean-up adopts one of the files it has listed.                 *)
DiskInv ==
  /\ \A d \in Devices \ dirs, n \in Names : files[d][n] = Nothing
  /\ \A h \in Contents \ indexed : stored[h] = Nothing
  /\ scan.hash # Nothing => scan.name # Nothing
  /\ scan.name # Nothing => scan.name \in scan.names
  /\ scan.names # {} => scan.dev \in Devices
  /\ ~scan.running => scan = NoScan

(* Of a deleted device nothing is under way, and nothing can come back.    *)
Gone(d) ==
  /\ \A u \in Uploads : up[u].dev = d => up[u].at \notin Requesting
  /\ operator.dev = d /\ operator.at = "erase" => JobsOf(d) = {}
  /\ operator.dev # d =>
       /\ JobsOf(d) = {} /\ OnDisk(d) = {}
       /\ worker.at = "work" /\ Job.dev = d /\ worker.job \in incoming => d \notin dirs
       /\ worker.at = "hashed" /\ Job.dev = d => d \notin dirs /\ hashed[worker.job] \notin Documents
       /\ scan.hash # Nothing => scan.dev # d

GoneInv == \A d \in Devices \ (registered \cup late) : Gone(d)

(* What the clean-up has looked through is in use, or used since, or its   *)
(* adoption is yet to come.                                                *)
Copied(c, hs) == c \in hs \/ \E h \in hs : stored[h] = c

AdoptionToCome(d, n) ==
  \/ \E u \in Uploads : up[u].at \in Adoptive /\ up[u].dev = d /\ up[u].name = n
  \/ worker.at \in {"produced", "adopt", "hashed"} /\ Job.dev = d /\ Job.name = n

Spared(d, n) == files[d][n] = Nothing \/ Copied(files[d][n], inUse \cup recent) \/ AdoptionToCome(d, n)

CacheInv ==
  scan.running => \A d \in Devices, n \in Names :
                     d \in scan.todo \/ (scan.dev = d /\ n \in scan.names) \/ Spared(d, n)

(* The inductive invariant.                                                *)
MediaIInv == MediaTypeOK /\ UploadInv /\ HashInv /\ QueueInv /\ NamesInv /\ DiskInv /\ GoneInv /\ CacheInv

--------------------------------------------------------------------------------

\* What a step leaves alone.
OnlyCache == UNCHANGED <<listVars, upVars, incoming, jobVars, operator, late, bounds>>

USE DEF mediaVars, cacheVars, fileVars, storeVars, scanVars, listVars, upVars, jobVars, bounds, OnlyCache

(* What is left of a queue without some jobs: the others.                  *)
LEMMA WithoutLeaves ==
  ASSUME NEW q \in Seq(Uploads), NEW js, NEW r \in Without(q, js)
  PROVE  r \in Seq(Uploads) /\ ToSet(r) = ToSet(q) \ js
<1>. DEFINE left == ToSet(q) \ js
<1>1. left \subseteq Uploads
  BY LenProperties DEF ToSet
<1>2. IsFiniteSet(left)
  <2>0. MaxUploads \in Nat
    BY MediaAssumption
  <2>1. IsFiniteSet(1 .. MaxUploads)
    BY <2>0, FS_Interval
  <2>. QED
    BY <1>1, <2>1, FS_Subset DEF Uploads
<1>3. Cardinality(left) \in Nat
  BY <1>2, FS_CardinalityType
<1>4. r \in [1 .. Cardinality(left) -> left]
  BY DEF Without, SetToSeqs
<1>5. r \in Seq(left)
  <2>. HIDE DEF left
  <2>1. \E n \in Nat : r \in [1 .. n -> left]
    BY <1>3, <1>4
  <2>. QED
    BY <2>1, SeqDef
<1>. QED
  BY <1>1, <1>5, SeqMonotonic DEF Without

(* A job that is added is in the queue, with those that were.              *)
LEMMA AppendAdds ==
  ASSUME NEW q \in Seq(Uploads), NEW u \in Uploads
  PROVE  Append(q, u) \in Seq(Uploads) /\ ToSet(Append(q, u)) = ToSet(q) \cup {u}
<1>. DEFINE t == Append(q, u)
<1>1. /\ t \in Seq(Uploads) /\ Len(t) = Len(q) + 1 /\ Len(q) \in Nat
      /\ \A i \in 1 .. Len(q) : t[i] = q[i]
      /\ t[Len(q) + 1] = u
  BY AppendProperties, LenProperties
<1>2. DOMAIN t = 1 .. Len(q) + 1 /\ DOMAIN q = 1 .. Len(q)
  BY <1>1, LenProperties
<1>. QED
  BY <1>1, <1>2 DEF ToSet

(* The jobs are uploads.                                                   *)
LEMMA JobsAreUploads == ASSUME jobs \in Seq(Uploads) PROVE ToSet(jobs) \subseteq Uploads
<1>. QED
  BY LenProperties DEF ToSet

(* An empty queue has no jobs.                                             *)
LEMMA EmptyQueue == <<>> \in Seq(Uploads) /\ ToSet(<<>>) = {}
<1>. QED
  BY EmptySeq, LenProperties DEF ToSet

(* What a step of an upload does to the uploads.                           *)
LEMMA UploadGoes ==
  ASSUME up \in [Uploads -> UploadRecord], NEW u \in Uploads, NEW at, GoTo(u, at),
         at \in Requesting \cup {"new", "queued", "done"}
  PROVE  /\ up' \in [Uploads -> UploadRecord]
         /\ \A v \in Uploads : /\ up'[v].at = IF v = u THEN at ELSE up[v].at
                              /\ up'[v].dev = up[v].dev /\ up'[v].name = up[v].name
                              /\ up'[v].content = up[v].content
<1>. QED
  BY DEF GoTo, UploadRecord

(* An upload that is over is forgotten.                                    *)
LEMMA UploadDone ==
  ASSUME up \in [Uploads -> UploadRecord], NEW u \in Uploads, Done(u)
  PROVE  /\ up' \in [Uploads -> UploadRecord]
         /\ up'[u].at = "done" /\ up'[u].dev = Nothing
         /\ \A v \in Uploads \ {u} : up'[v] = up[v]
<1>. QED
  BY DEF Done, NoUpload, UploadRecord

(* A start and the choice of a name.                                       *)
LEMMA UploadStarts ==
  ASSUME up \in [Uploads -> UploadRecord], NEW u \in Uploads,
         NEW d \in Devices, NEW c \in Contents, StartUpload(u, d, c)
  PROVE  /\ up' \in [Uploads -> UploadRecord]
         /\ up[u].at = "new"
         /\ up'[u].at = "started" /\ up'[u].dev = d /\ up'[u].content = c
         /\ \A v \in Uploads \ {u} : up'[v] = up[v]
<1>. QED
  BY DEF StartUpload, UploadRecord, Requesting

(* A claim refuses the upload or gives it a free name.                     *)
LEMMA UploadClaims ==
  ASSUME up \in [Uploads -> UploadRecord], NEW u \in Uploads, Claim(u)
  PROVE  /\ up' \in [Uploads -> UploadRecord]
         /\ up[u].at = "started"
         /\ \A v \in Uploads \ {u} : up'[v] = up[v]
         /\ \/ up'[u].at = "done" /\ up'[u].dev = Nothing
            \/ /\ up'[u].at = "claimed" /\ up'[u].dev = up[u].dev
               /\ up'[u].content = up[u].content
               /\ up'[u].name \in Names \ Taken(up[u].dev)
<1>1. CASE inUseBytes >= quota
  BY <1>1, UploadDone DEF Claim
<1>2. CASE ~(inUseBytes >= quota)
  <2>1. PICK n \in UniqueName(up[u].dev, up[u].content) :
          up' = [up EXCEPT ![u].at = "claimed", ![u].name = n]
    BY <1>2 DEF Claim
  <2>2. n \in Names \ Taken(up[u].dev)
    BY <2>1 DEF UniqueName, NamesFor
  <2>. HIDE DEF UniqueName
  <2>. QED
    BY <2>1, <2>2 DEF Claim, UploadRecord, Requesting
<1>. QED
  BY <1>1, <1>2

(* After a start of the server no upload is under way.                     *)
LEMMA UploadsEnd ==
  ASSUME up \in [Uploads -> UploadRecord], RestartServer
  PROVE  /\ up' \in [Uploads -> UploadRecord]
         /\ \A v \in Uploads : up'[v].at \in {"new", "done"}
<1>. QED
  BY DEF RestartServer, NoUpload, UploadRecord

(* A file that is put, or taken away.                                      *)
LEMMA FilePut ==
  ASSUME files \in [Devices -> [Names -> Contents \cup {Nothing}]],
         NEW d \in Devices, NEW n \in Names, NEW c \in Contents \cup {Nothing}, Put(d, n, c)
  PROVE  /\ files' \in [Devices -> [Names -> Contents \cup {Nothing}]]
         /\ \A e \in Devices, m \in Names :
              files'[e][m] = IF e = d /\ m = n THEN c ELSE files[e][m]
         /\ revived' = revived \ {<<d, n>>}
<1>. QED
  BY DEF Put

(* What an adoption does: it puts a copy at its file, or does nothing.     *)
LEMMA AdoptTyped ==
  ASSUME CacheTypeOK, NEW d \in Devices, NEW n \in Names, NEW h \in Contents, NEW os, Adopt(d, n, h, os)
  PROVE  /\ files' \in [Devices -> [Names -> Contents \cup {Nothing}]]
         /\ dirs' \subseteq Devices /\ revived' \subseteq Devices \X Names
         /\ stored' \in [Contents -> Contents \cup {Nothing}] /\ indexed' \subseteq Contents
         /\ source' \in [Contents -> Contents \cup {Nothing}] /\ recent' \subseteq Contents
<1>. DEFINE content == IF Copy(h) # Nothing THEN Copy(h) ELSE files[d][n]
<1>1. content \in Contents \cup {Nothing}
  BY DEF Copy, CacheTypeOK
<1>2. CASE CanAdopt(d, n, h)
  <2>1. files' = [files EXCEPT ![d][n] = content] /\ stored' = [stored EXCEPT ![h] = content]
    BY <1>2 DEF Adopt
  <2>2. /\ revived' \subseteq revived \cup {<<d, n>>} /\ dirs' = dirs \cup {d} /\ indexed' = indexed \cup {h}
        /\ source' = [c \in Contents |-> IF c \in os THEN h ELSE source[c]]
        /\ recent' \subseteq recent \cup {h}
    BY <1>2 DEF Adopt, Use
  <2>. HIDE DEF content
  <2>. QED
    BY <1>1, <2>1, <2>2 DEF CacheTypeOK
<1>3. CASE ~CanAdopt(d, n, h)
  BY <1>3 DEF Adopt, CacheTypeOK
<1>. QED
  BY <1>2, <1>3

(* What it leaves in the store and in the directories.                    *)
LEMMA AdoptPuts ==
  ASSUME CacheTypeOK, DiskInv, NEW d \in Devices, NEW n \in Names, NEW h \in Contents, NEW os,
         Adopt(d, n, h, os)
  PROVE  /\ \A e \in Devices, m \in Names : ~(e = d /\ m = n) => files'[e][m] = files[e][m]
         /\ files'[d][n] # files[d][n] => files'[d][n] = stored[h] /\ <<d, n>> \in revived'
         /\ revived \subseteq revived'
         /\ dirs \subseteq dirs' /\ dirs' \subseteq dirs \cup {d}
         /\ indexed \subseteq indexed' /\ recent \subseteq recent'
         /\ \A g \in Contents : stored[g] # Nothing => stored'[g] = stored[g]
         /\ \A g \in Contents \ indexed' : stored'[g] = Nothing
         /\ \A e \in Devices \ dirs', m \in Names : files'[e][m] = Nothing
         /\ \/ /\ CanAdopt(d, n, h) /\ d \in dirs' /\ stored'[h] = files'[d][n]
               /\ scan.running => h \in recent'
            \/ ~CanAdopt(d, n, h) /\ files'[d][n] = Nothing
<1>. DEFINE content == IF Copy(h) # Nothing THEN Copy(h) ELSE files[d][n]
<1>1. CASE CanAdopt(d, n, h)
  <2>1. files' = [files EXCEPT ![d][n] = content] /\ stored' = [stored EXCEPT ![h] = content]
    BY <1>1 DEF Adopt
  <2>2. /\ revived' = IF files[d][n] = content THEN revived ELSE revived \cup {<<d, n>>}
        /\ dirs' = dirs \cup {d} /\ indexed' = indexed \cup {h}
        /\ recent' = IF scan.running THEN recent \cup {h} ELSE recent
    BY <1>1 DEF Adopt, Use
  <2>3. /\ content # files[d][n] => content = stored[h]
        /\ stored[h] # Nothing => content = stored[h]
    BY DEF Copy, DiskInv
  <2>4. /\ \A e \in Devices, m \in Names : files'[e][m] = IF e = d /\ m = n THEN content ELSE files[e][m]
        /\ \A g \in Contents : stored'[g] = IF g = h THEN content ELSE stored[g]
    <3>. HIDE DEF content
    <3>. QED
      BY <2>1 DEF CacheTypeOK
  <2>. HIDE DEF content
  <2>. QED
    BY <1>1, <2>2, <2>3, <2>4 DEF DiskInv
<1>2. CASE ~CanAdopt(d, n, h)
  <2>1. UNCHANGED <<fileVars, storeVars>>
    BY <1>2 DEF Adopt
  <2>2. files[d][n] = Nothing
    BY <1>2 DEF CanAdopt, CanLink, DiskInv
  <2>. QED
    BY <1>2, <2>1, <2>2 DEF DiskInv
<1>. QED
  BY <1>1, <1>2

(* It changes no file but its own, and notes that.                         *)
LEMMA AdoptMarks ==
  ASSUME CacheTypeOK, DiskInv, NEW d \in Devices, NEW n \in Names, NEW h \in Contents, NEW os,
         Adopt(d, n, h, os)
  PROVE  /\ \A e \in Devices, m \in Names : files'[e][m] # files[e][m] => <<e, m>> \in revived'
         /\ revived \subseteq revived'
         /\ \A e \in Devices, m \in Names : e # d => files'[e][m] = files[e][m]
         /\ dirs' \subseteq dirs \cup {d}
         /\ \A e \in Devices, m \in Names :
              files'[e][m] # files[e][m] => e = d /\ m = n /\ files'[e][m] = stored[h]
<1>1. \A e \in Devices, m \in Names : ~(e = d /\ m = n) => files'[e][m] = files[e][m]
  BY AdoptPuts
<1>2. files'[d][n] # files[d][n] => files'[d][n] = stored[h] /\ <<d, n>> \in revived'
  BY AdoptPuts
<1>3. revived \subseteq revived' /\ dirs' \subseteq dirs \cup {d}
  BY AdoptPuts
<1>. QED
  BY <1>1, <1>2, <1>3

(* Afterwards its file is gone, or is a copy of what is used.              *)
LEMMA AdoptCopies ==
  ASSUME CacheTypeOK, DiskInv, NEW d \in Devices, NEW n \in Names, NEW h \in Contents, NEW os,
         Adopt(d, n, h, os)
  PROVE  /\ \A e \in Devices, m \in Names : ~(e = d /\ m = n) => files'[e][m] = files[e][m]
         /\ recent \subseteq recent'
         /\ \A g \in Contents : stored[g] # Nothing => stored'[g] = stored[g]
         /\ \/ files'[d][n] = Nothing
            \/ CanAdopt(d, n, h) /\ stored'[h] = files'[d][n] /\ (scan.running => h \in recent')
<1>1. /\ \A e \in Devices, m \in Names : ~(e = d /\ m = n) => files'[e][m] = files[e][m]
      /\ recent \subseteq recent'
  BY AdoptPuts
<1>2. \A g \in Contents : stored[g] # Nothing => stored'[g] = stored[g]
  BY AdoptPuts
<1>3. \/ CanAdopt(d, n, h) /\ stored'[h] = files'[d][n] /\ (scan.running => h \in recent')
      \/ files'[d][n] = Nothing
  BY AdoptPuts
<1>. QED
  BY <1>1, <1>2, <1>3

(* A job of the worker is an upload, and one of its own.                   *)
LEMMA JobIsUpload ==
  ASSUME MediaTypeOK, UploadInv, QueueInv, worker.job # NoJob
  PROVE  /\ worker.job \in Uploads
         /\ Job.dev \in Devices /\ Job.name \in Names /\ Job.content \in Contents
         /\ Job.at \in JobSteps
<1>1. worker.job \in Uploads
  BY DEF MediaTypeOK, WorkerRecord
<1>2. Job.at \in JobSteps
  BY <1>1 DEF QueueInv, Job
<1>. QED
  BY <1>1, <1>2 DEF UploadInv, Job, JobSteps, Requesting

(* Who adopts, and what: a request, its image, ...                         *)
LEMMA ImageAdopts ==
  ASSUME MediaTypeOK, UploadInv, HashInv, NEW u \in Uploads, up[u].at = "hashed"
  PROVE  up[u].dev \in Devices /\ up[u].name \in Names /\ hashed[u] \in Contents
<1>. QED
  BY DEF MediaTypeOK, UploadInv, HashInv, Hashing, Requesting, Adoptive

(* The worker, the product of its job.                                    *)
LEMMA ProductAdopts ==
  ASSUME MediaTypeOK, UploadInv, QueueInv, HashInv, worker.at = "hashed"
  PROVE  /\ worker.job \in Uploads /\ worker.job # NoJob
         /\ Job.dev \in Devices /\ Job.name \in Names /\ hashed[worker.job] \in Contents
<1>1. worker.job # NoJob
  BY DEF QueueInv, AtJob
<1>2. worker.job \in Uploads
  BY <1>1, JobIsUpload
<1>. QED
  BY <1>1, <1>2, JobIsUpload DEF MediaTypeOK, HashInv, Hashing

(* The clean-up, a file it did not know.                                   *)
LEMMA CleanAdopts ==
  ASSUME MediaTypeOK, DiskInv, scan.hash # Nothing
  PROVE  /\ scan.dev \in Devices /\ scan.name \in Names /\ scan.hash \in Contents
         /\ scan.running
<1>. QED
  BY DEF MediaTypeOK, CacheTypeOK, DiskInv, NoScan

--------------------------------------------------------------------------------

(* Every step keeps the types: of the uploads, ...                         *)
UploadsTyped == up \in [Uploads -> UploadRecord] /\ hashed \in [Uploads -> Contents \cup {Nothing}]
LEMMA NextUploadsTyped ==
  ASSUME MediaTypeOK, UploadInv, QueueInv, [MediaNext]_mediaVars
  PROVE  UploadsTyped'
<1>. USE DEF MediaTypeOK
<1>0. UNCHANGED upVars => UploadsTyped'
  BY DEF UploadsTyped
<1>1. ASSUME NEW u \in Uploads, NEW d \in Devices, NEW c \in Contents, StartUpload(u, d, c)
      PROVE  UploadsTyped'
  BY <1>1, UploadStarts DEF StartUpload, UploadsTyped
<1>2. ASSUME NEW u \in Uploads, Claim(u) PROVE UploadsTyped'
  BY <1>2, UploadClaims DEF Claim, UploadsTyped
<1>3. ASSUME NEW u \in Uploads, Receive(u) PROVE UploadsTyped'
  BY <1>3, UploadGoes, UploadDone DEF Receive, Requesting, UploadsTyped
<1>4. ASSUME NEW u \in Uploads, ReuseResult(u) PROVE UploadsTyped'
  BY <1>4, UploadGoes DEF ReuseResult, Requesting, UploadsTyped
<1>5. ASSUME NEW u \in Uploads, AddJob(u) PROVE UploadsTyped'
  BY <1>5, UploadGoes DEF AddJob, Requesting, UploadsTyped
<1>6. ASSUME NEW u \in Uploads, SendToken(u) PROVE UploadsTyped'
  BY <1>6, UploadGoes DEF SendToken, Requesting, UploadsTyped
<1>7. ASSUME NEW u \in Uploads, CheckImage(u) PROVE UploadsTyped'
  BY <1>7, UploadGoes, UploadDone DEF CheckImage, Requesting, UploadsTyped
<1>8. ASSUME NEW u \in Uploads, MoveImage(u) PROVE UploadsTyped'
  BY <1>8, UploadGoes, UploadDone DEF MoveImage, Requesting, UploadsTyped
<1>9. ASSUME NEW u \in Uploads, HashImage(u) PROVE UploadsTyped'
  <2>1. up[u].dev \in Devices /\ up[u].name \in Names
    BY <1>9 DEF HashImage, UploadInv, Requesting, Adoptive
  <2>2. files[up[u].dev][up[u].name] \in Contents \cup {Nothing}
    BY <2>1 DEF CacheTypeOK
  <2>. QED
    BY <1>9, <2>2, UploadGoes DEF HashImage, Requesting, UploadsTyped
<1>10. ASSUME NEW u \in Uploads, LinkImage(u) PROVE UploadsTyped'
  BY <1>10, UploadGoes DEF LinkImage, Requesting, UploadsTyped
<1>11. ASSUME NEW u \in Uploads, AnswerUpload(u) PROVE UploadsTyped'
  BY <1>11, UploadDone DEF AnswerUpload, UploadsTyped
<1>12. CASE NextJob \/ Sleep \/ WakeUp \/ BeginJob \/ Work \/ Discard \/ FailJob \/
            KeepProduct \/ FinishJob
  BY <1>0, <1>12 DEF NextJob, Sleep, WakeUp, BeginJob, Work, Discard, FailJob, KeepProduct,
     FinishJob
<1>13. CASE HashProduct
  <2>1. worker.job \in Uploads /\ Job.dev \in Devices /\ Job.name \in Names
    BY <1>13, JobIsUpload DEF HashProduct, QueueInv, AtJob
  <2>2. files[Job.dev][Job.name] \in Contents \cup {Nothing}
    BY <2>1 DEF CacheTypeOK
  <2>. QED
    BY <1>13, <2>2 DEF HashProduct, UploadsTyped
<1>14. CASE LinkProduct
  BY <1>14 DEF LinkProduct, UploadsTyped
<1>15. ASSUME NEW d \in Devices, DeleteDevice(d) \/ Register(d) PROVE UploadsTyped'
  BY <1>0, <1>15 DEF DeleteDevice, Register
<1>16. ASSUME NEW d \in Devices, NEW n \in Names, DeleteMedia(d, n) PROVE UploadsTyped'
  BY <1>0, <1>16 DEF DeleteMedia
<1>17. ASSUME NEW d \in Devices, NEW order, Reorder(d, order) PROVE UploadsTyped'
  BY <1>0, <1>17 DEF Reorder
<1>18. CASE UnlinkMedia \/ TidyPlaylist \/ RemoveDeviceJobs \/ EraseDevice
  BY <1>0, <1>18 DEF UnlinkMedia, TidyPlaylist, RemoveDeviceJobs, EraseDevice
<1>19. ASSUME NEW q \in {Nothing} \cup (Quotas \ {quota}), BeginClean(q), OnlyCache
       PROVE  UploadsTyped'
  BY <1>0, <1>19 DEF BeginClean
<1>20. ASSUME NEW d \in Devices, ListDevice(d), OnlyCache PROVE UploadsTyped'
  BY <1>0, <1>20 DEF ListDevice
<1>21. ASSUME NEW n \in Names, LookAt(n) \/ HashUnknown(n) \/ LinkUnknown(n), OnlyCache
       PROVE  UploadsTyped'
  BY <1>0, <1>21 DEF LookAt, HashUnknown, LinkUnknown
<1>22. ASSUME FinishClean \/ SetQuota, OnlyCache PROVE UploadsTyped'
  BY <1>0, <1>22 DEF FinishClean, SetQuota
<1>23. CASE RestartServer
  BY <1>23, UploadsEnd DEF RestartServer, NoHash, UploadsTyped
<1>24. CASE UNCHANGED mediaVars
  BY <1>0, <1>24
<1>. HIDE DEF MediaTypeOK
<1>. QED
  BY <1>1, <1>2, <1>3, <1>4, <1>5, <1>6, <1>7, <1>8, <1>9, <1>10, <1>11, <1>12, <1>13, <1>14,
     <1>15, <1>16, <1>17, <1>18, <1>19, <1>20, <1>21, <1>22, <1>23, <1>24 DEF MediaNext,
     Upload, RunJobs, Operate, CleanCache, Clean, OnlyCache

(* ... of the queue and the worker, ...                                    *)
QueueTyped ==
  /\ incoming \subseteq Uploads /\ jobs \in Seq(Uploads) /\ failed \subseteq Uploads
  /\ worker \in WorkerRecord /\ wake \in BOOLEAN
LEMMA NextQueueTyped ==
  ASSUME MediaTypeOK, UploadInv, QueueInv, [MediaNext]_mediaVars
  PROVE  QueueTyped'
<1>. USE DEF MediaTypeOK, QueueTyped
<1>0. UNCHANGED <<incoming, jobVars>> => QueueTyped'
  BY DEF MediaTypeOK
<1>1. ASSUME NEW u \in Uploads, NEW d \in Devices, NEW c \in Contents, StartUpload(u, d, c)
      PROVE  QueueTyped'
  BY <1>0, <1>1 DEF StartUpload
<1>2. ASSUME NEW u \in Uploads, Claim(u) \/ HashImage(u) \/ LinkImage(u) \/ AnswerUpload(u)
      PROVE  QueueTyped'
  BY <1>0, <1>2 DEF Claim, HashImage, LinkImage, AnswerUpload
<1>3. ASSUME NEW u \in Uploads, Receive(u) PROVE QueueTyped'
  BY <1>3 DEF Receive
<1>4. ASSUME NEW u \in Uploads, ReuseResult(u) PROVE QueueTyped'
  BY <1>4 DEF ReuseResult
<1>5. ASSUME NEW u \in Uploads, AddJob(u) PROVE QueueTyped'
  BY <1>5, AppendAdds DEF AddJob
<1>6. ASSUME NEW u \in Uploads, SendToken(u) PROVE QueueTyped'
  BY <1>6 DEF SendToken
<1>7. ASSUME NEW u \in Uploads, CheckImage(u) PROVE QueueTyped'
  BY <1>7 DEF CheckImage
<1>8. ASSUME NEW u \in Uploads, MoveImage(u) PROVE QueueTyped'
  BY <1>8 DEF MoveImage
<1>9. CASE NextJob
  BY <1>9, JobsAreUploads DEF NextJob, ToSet, WorkerRecord, NoJob
<1>10. CASE Sleep
  BY <1>10 DEF Sleep, WorkerRecord
<1>11. CASE WakeUp
  BY <1>11 DEF WakeUp, NoWork, WorkerRecord
<1>12. CASE BeginJob
  BY <1>12 DEF BeginJob, WorkerRecord
<1>13. CASE Work
  BY <1>13, JobIsUpload DEF Work, WorkerRecord
<1>14. CASE Discard
  BY <1>14 DEF Discard, NoWork, WorkerRecord
<1>15. CASE FailJob
  BY <1>15, JobIsUpload DEF FailJob, NoWork, WorkerRecord, QueueInv, AtJob
<1>16. CASE KeepProduct
  BY <1>16 DEF KeepProduct, WorkerRecord
<1>17. CASE HashProduct
  BY <1>17 DEF HashProduct, WorkerRecord
<1>18. CASE LinkProduct
  BY <1>18 DEF LinkProduct, WorkerRecord
<1>19. CASE FinishJob
  BY <1>19, WithoutLeaves DEF FinishJob, NoWork, WorkerRecord
<1>20. ASSUME NEW d \in Devices, DeleteDevice(d) \/ Register(d) PROVE QueueTyped'
  BY <1>0, <1>20 DEF DeleteDevice, Register
<1>21. ASSUME NEW d \in Devices, NEW n \in Names, DeleteMedia(d, n) PROVE QueueTyped'
  BY <1>21, WithoutLeaves DEF DeleteMedia, RemoveJobs
<1>22. ASSUME NEW d \in Devices, NEW order, Reorder(d, order) PROVE QueueTyped'
  BY <1>0, <1>22 DEF Reorder
<1>23. CASE UnlinkMedia \/ TidyPlaylist \/ EraseDevice
  BY <1>0, <1>23 DEF UnlinkMedia, TidyPlaylist, EraseDevice
<1>24. CASE RemoveDeviceJobs
  BY <1>24, WithoutLeaves DEF RemoveDeviceJobs, RemoveJobs
<1>25. ASSUME NEW q \in {Nothing} \cup (Quotas \ {quota}), BeginClean(q), OnlyCache
       PROVE  QueueTyped'
  BY <1>0, <1>25 DEF BeginClean
<1>26. ASSUME NEW d \in Devices, ListDevice(d), OnlyCache PROVE QueueTyped'
  BY <1>0, <1>26 DEF ListDevice
<1>27. ASSUME NEW n \in Names, LookAt(n) \/ HashUnknown(n) \/ LinkUnknown(n), OnlyCache
       PROVE  QueueTyped'
  BY <1>0, <1>27 DEF LookAt, HashUnknown, LinkUnknown
<1>28. ASSUME FinishClean \/ SetQuota, OnlyCache PROVE QueueTyped'
  BY <1>0, <1>28 DEF FinishClean, SetQuota
<1>29. CASE RestartServer
  BY <1>29, EmptyQueue DEF RestartServer, NoWork, WorkerRecord
<1>30. CASE UNCHANGED mediaVars
  BY <1>0, <1>30
<1>. HIDE DEF MediaTypeOK
<1>. QED
  BY <1>1, <1>2, <1>3, <1>4, <1>5, <1>6, <1>7, <1>8, <1>9, <1>10, <1>11, <1>12, <1>13, <1>14,
     <1>15, <1>16, <1>17, <1>18, <1>19, <1>20, <1>21, <1>22, <1>23, <1>24, <1>25, <1>26,
     <1>27, <1>28, <1>29, <1>30 DEF MediaNext, Upload, RunJobs, Operate, CleanCache, Clean,
     OnlyCache

(* ... of the cache ...                                                    *)
LEMMA NextCacheTyped ==
  ASSUME MediaTypeOK, UploadInv, HashInv, QueueInv, DiskInv, [MediaNext]_mediaVars
  PROVE  CacheTypeOK'
<1>. USE DEF MediaTypeOK
<1>0. UNCHANGED cacheVars => CacheTypeOK'
  BY DEF CacheTypeOK
<1>1. ASSUME NEW u \in Uploads, NEW d \in Devices, NEW c \in Contents, StartUpload(u, d, c)
      PROVE  CacheTypeOK'
  BY <1>1 DEF StartUpload, CacheTypeOK
<1>2. ASSUME NEW u \in Uploads, Claim(u) \/ Receive(u) \/ AddJob(u) \/ SendToken(u) \/
             CheckImage(u) \/ HashImage(u) \/ AnswerUpload(u)
      PROVE  CacheTypeOK'
  BY <1>0, <1>2 DEF Claim, Receive, AddJob, SendToken, CheckImage, HashImage, AnswerUpload
<1>3. ASSUME NEW u \in Uploads, ReuseResult(u) PROVE CacheTypeOK'
  <2>1. up[u].dev \in Devices /\ up[u].name \in Names /\ up[u].content \in Contents
    BY <1>3 DEF ReuseResult, UploadInv, Requesting, Placing
  <2>2. Result(up[u].content) \in Contents /\ source[up[u].content] \in Contents
    BY <1>3, <2>1 DEF ReuseResult, CanReuse, Result, Copy, CacheTypeOK
  <2>. QED
    BY <1>3, <2>1, <2>2, FilePut DEF ReuseResult, Use, CacheTypeOK
<1>4. ASSUME NEW u \in Uploads, MoveImage(u) PROVE CacheTypeOK'
  <2>1. up[u].dev \in Devices /\ up[u].name \in Names /\ up[u].content \in Contents
    BY <1>4 DEF MoveImage, UploadInv, Requesting, Placing
  <2>. QED
    BY <1>4, <2>1, FilePut DEF MoveImage, CacheTypeOK
<1>5. ASSUME NEW u \in Uploads, LinkImage(u) PROVE CacheTypeOK'
  BY <1>5, ImageAdopts, AdoptTyped DEF LinkImage, CacheTypeOK
<1>6. CASE NextJob \/ Sleep \/ WakeUp \/ FailJob \/ KeepProduct \/ HashProduct \/ FinishJob
  BY <1>0, <1>6 DEF NextJob, Sleep, WakeUp, FailJob, KeepProduct, HashProduct, FinishJob
<1>7. CASE BeginJob
  <2>1. Job.dev \in Devices
    BY <1>7, JobIsUpload DEF BeginJob, QueueInv, AtJob
  <2>. QED
    BY <1>7, <2>1 DEF BeginJob, CacheTypeOK
<1>8. CASE Work
  <2>1. Job.dev \in Devices /\ Job.name \in Names /\ Job.content \in Contents
    BY <1>8, JobIsUpload DEF Work, QueueInv, AtJob
  <2>. QED
    BY <1>8, <2>1, FilePut DEF Work, CacheTypeOK
<1>9. CASE Discard
  <2>1. Job.dev \in Devices /\ Job.name \in Names
    BY <1>9, JobIsUpload DEF Discard, QueueInv, AtJob
  <2>. QED
    BY <1>9, <2>1, FilePut DEF Discard, CacheTypeOK
<1>10. CASE LinkProduct
  BY <1>10, ProductAdopts, AdoptTyped DEF LinkProduct, CacheTypeOK
<1>11. ASSUME NEW d \in Devices, DeleteDevice(d) \/ Register(d) PROVE CacheTypeOK'
  BY <1>0, <1>11 DEF DeleteDevice, Register
<1>12. ASSUME NEW d \in Devices, NEW n \in Names, DeleteMedia(d, n) PROVE CacheTypeOK'
  BY <1>0, <1>12 DEF DeleteMedia
<1>13. ASSUME NEW d \in Devices, NEW order, Reorder(d, order) PROVE CacheTypeOK'
  BY <1>0, <1>13 DEF Reorder
<1>14. CASE TidyPlaylist \/ RemoveDeviceJobs
  BY <1>0, <1>14 DEF TidyPlaylist, RemoveDeviceJobs
<1>15. CASE UnlinkMedia
  BY <1>15, FilePut DEF UnlinkMedia, Touch, Use, UploadInv, CacheTypeOK
<1>16. CASE EraseDevice
  <2>1. operator.dev \in Devices
    BY <1>16 DEF EraseDevice, UploadInv
  <2>2. files' \in [Devices -> [Names -> Contents \cup {Nothing}]]
    BY <1>16, <2>1 DEF EraseDevice, CacheTypeOK
  <2>. QED
    BY <1>16, <2>2 DEF EraseDevice, Touch, Use, CacheTypeOK
<1>17. ASSUME NEW q \in {Nothing} \cup (Quotas \ {quota}), BeginClean(q), OnlyCache
       PROVE  CacheTypeOK'
  <2>1. scan' = [running |-> TRUE, todo |-> dirs, dev |-> Nothing, names |-> {},
                   name |-> Nothing, hash |-> Nothing]
    BY <1>17 DEF BeginClean, NoScan
  <2>2. cleans' \in 0 .. MaxCleans /\ q \in Quotas \cup {Nothing}
    BY <1>17, CacheAssumption DEF BeginClean, CacheTypeOK
  <2>3. scan' \in [running : BOOLEAN, todo : SUBSET Devices, dev : Devices \cup {Nothing},
                   names : SUBSET Names, name : Names \cup {Nothing}, hash : Contents \cup {Nothing}]
    <3>. HIDE DEF MediaTypeOK
    <3>1. dirs \subseteq Devices
      BY DEF MediaTypeOK, CacheTypeOK
    <3>. QED
      BY <2>1, <3>1
  <2>. QED
    BY <1>17, <2>2, <2>3 DEF BeginClean, CacheTypeOK
<1>18. ASSUME NEW d \in Devices, ListDevice(d), OnlyCache PROVE CacheTypeOK'
  BY <1>18 DEF ListDevice, OnDisk, CacheTypeOK
<1>19. ASSUME NEW n \in Names, LookAt(n), OnlyCache PROVE CacheTypeOK'
  <2>1. scan' = [scan EXCEPT !.names = scan.names \ {n}, !.name = Nothing, !.hash = Nothing]
          \/ scan' = [scan EXCEPT !.name = n]
    BY <1>19 DEF LookAt, FileSeen
  <2>2. inUse' \subseteq inUse \cup indexed
    BY <1>19 DEF LookAt
  <2>. QED
    BY <1>19, <2>1, <2>2 DEF LookAt, CacheTypeOK
<1>20. ASSUME NEW n \in Names, HashUnknown(n), OnlyCache PROVE CacheTypeOK'
  <2>1. scan.dev \in Devices
    BY <1>20, CacheAssumption DEF HashUnknown, DiskInv, CacheTypeOK
  <2>2. FileAt(n) \in Contents \cup {Nothing}
    BY <2>1 DEF FileAt, CacheTypeOK
  <2>3. scan' = [scan EXCEPT !.names = scan.names \ {n}, !.name = Nothing, !.hash = Nothing]
          \/ scan' = [scan EXCEPT !.hash = FileAt(n)]
    BY <1>20 DEF HashUnknown, FileSeen
  <2>. QED
    BY <1>20, <2>2, <2>3 DEF HashUnknown, CacheTypeOK
<1>21. ASSUME NEW n \in Names, LinkUnknown(n), OnlyCache PROVE CacheTypeOK'
  <2>1. Adopt(scan.dev, scan.name, scan.hash, {}) /\ scan.hash # Nothing
    BY <1>21 DEF LinkUnknown
  <2>2. inUse' \subseteq inUse \cup {scan.hash}
    BY <1>21 DEF LinkUnknown
  <2>3. scan' = [scan EXCEPT !.names = scan.names \ {n}, !.name = Nothing, !.hash = Nothing]
    BY <1>21 DEF LinkUnknown, FileSeen
  <2>. QED
    BY <1>21, <2>1, <2>2, <2>3, CleanAdopts, AdoptTyped DEF LinkUnknown, CacheTypeOK
<1>22. ASSUME FinishClean, OnlyCache PROVE CacheTypeOK'
  <2>1. IsFiniteSet(inUse \cap indexed)
    BY FS_Subset, CacheAssumption DEF CacheTypeOK
  <2>2. Cardinality(inUse \cap indexed) \in Nat
    BY <2>1, FS_CardinalityType
  <2>. QED
    BY <1>22, <2>2 DEF FinishClean, Evict, NoScan, CacheTypeOK
<1>23. ASSUME SetQuota, OnlyCache PROVE CacheTypeOK'
  BY <1>23 DEF SetQuota, CacheTypeOK
<1>24. CASE RestartServer
  BY <1>24 DEF RestartServer, CacheRestart, Evict, NoScan, CacheTypeOK
<1>25. CASE UNCHANGED mediaVars
  BY <1>0, <1>25
<1>. HIDE DEF MediaTypeOK
<1>. QED
  BY <1>1, <1>2, <1>3, <1>4, <1>5, <1>6, <1>7, <1>8, <1>9, <1>10, <1>11, <1>12, <1>13, <1>14,
     <1>15, <1>16, <1>17, <1>18, <1>19, <1>20, <1>21, <1>22, <1>23, <1>24, <1>25 DEF
     MediaNext, Upload, RunJobs, Operate, CleanCache, Clean, OnlyCache

(* ... and of the devices and the operator.                                *)
DevicesTyped ==
  /\ registered \subseteq Devices
  /\ operator \in OperatorRecord /\ late \subseteq Devices
  /\ registrations \in 0 .. MaxRegistrations /\ restarts \in 0 .. MaxRestarts
  /\ deletions \in 0 .. MaxDeletions
LEMMA NextDevicesTyped ==
  ASSUME MediaTypeOK, UploadInv, QueueInv, [MediaNext]_mediaVars
  PROVE  DevicesTyped'
<1>. USE MediaAssumption DEF MediaTypeOK
<1>0. UNCHANGED <<registered, operator, late, bounds>> => DevicesTyped'
  BY DEF DevicesTyped
<1>1. ASSUME NEW u \in Uploads, NEW d \in Devices, NEW c \in Contents, StartUpload(u, d, c)
      PROVE  DevicesTyped'
  BY <1>0, <1>1 DEF StartUpload
<1>2. ASSUME NEW u \in Uploads, Claim(u) \/ Receive(u) \/ ReuseResult(u) \/ AddJob(u) \/
             SendToken(u) \/ CheckImage(u) \/ MoveImage(u) \/ HashImage(u) \/ LinkImage(u) \/
             AnswerUpload(u)
      PROVE  DevicesTyped'
  BY <1>0, <1>2 DEF Claim, Receive, ReuseResult, AddJob, SendToken, CheckImage, MoveImage,
     HashImage, LinkImage, AnswerUpload
<1>3. CASE NextJob \/ Sleep \/ WakeUp \/ BeginJob \/ Work \/ Discard \/ FailJob \/ KeepProduct
           \/ HashProduct \/ LinkProduct \/ FinishJob
  BY <1>0, <1>3 DEF NextJob, Sleep, WakeUp, BeginJob, Work, Discard, FailJob, KeepProduct,
     HashProduct, LinkProduct, FinishJob
<1>4. ASSUME NEW d \in Devices, DeleteDevice(d) PROVE DevicesTyped'
  BY <1>4 DEF DeleteDevice, DevicesTyped, OperatorRecord
<1>5. ASSUME NEW d \in Devices, Register(d) PROVE DevicesTyped'
  BY <1>5 DEF Register, DevicesTyped, OperatorRecord
<1>6. ASSUME NEW d \in Devices, NEW n \in Names, DeleteMedia(d, n) PROVE DevicesTyped'
  BY <1>6 DEF DeleteMedia, DevicesTyped, OperatorRecord
<1>7. ASSUME NEW d \in Devices, NEW order, Reorder(d, order) PROVE DevicesTyped'
  BY <1>0, <1>7 DEF Reorder
<1>8. CASE UnlinkMedia
  BY <1>8 DEF UnlinkMedia, DevicesTyped, OperatorRecord
<1>9. CASE TidyPlaylist
  BY <1>9 DEF TidyPlaylist, NoOperator, DevicesTyped, OperatorRecord
<1>10. CASE RemoveDeviceJobs
  BY <1>10 DEF RemoveDeviceJobs, DevicesTyped, OperatorRecord
<1>11. CASE EraseDevice
  BY <1>11 DEF EraseDevice, UploadInv, NoOperator, DevicesTyped, OperatorRecord
<1>12. ASSUME NEW q \in {Nothing} \cup (Quotas \ {quota}), BeginClean(q), OnlyCache
       PROVE  DevicesTyped'
  BY <1>0, <1>12 DEF BeginClean
<1>13. ASSUME NEW d \in Devices, ListDevice(d), OnlyCache PROVE DevicesTyped'
  BY <1>0, <1>13 DEF ListDevice
<1>14. ASSUME NEW n \in Names, LookAt(n) \/ HashUnknown(n) \/ LinkUnknown(n), OnlyCache
       PROVE  DevicesTyped'
  BY <1>0, <1>14 DEF LookAt, HashUnknown, LinkUnknown
<1>15. ASSUME FinishClean \/ SetQuota, OnlyCache PROVE DevicesTyped'
  BY <1>0, <1>15 DEF FinishClean, SetQuota
<1>16. CASE RestartServer
  BY <1>16 DEF RestartServer, NoOperator, UploadInv, DevicesTyped, OperatorRecord
<1>17. CASE UNCHANGED mediaVars
  BY <1>0, <1>17
<1>. QED
  BY <1>1, <1>2, <1>3, <1>4, <1>5, <1>6, <1>7, <1>8, <1>9, <1>10, <1>11, <1>12, <1>13, <1>14,
     <1>15, <1>16, <1>17 DEF MediaNext, Upload, RunJobs, Operate, CleanCache, Clean, OnlyCache

LEMMA NextMediaTypeOK ==
  ASSUME MediaTypeOK, UploadInv, HashInv, QueueInv, DiskInv, [MediaNext]_mediaVars
  PROVE  MediaTypeOK'
<1>. QED
  BY NextUploadsTyped, NextQueueTyped, NextCacheTyped, NextDevicesTyped, Zenon DEF MediaTypeOK,
     UploadsTyped, QueueTyped, DevicesTyped

--------------------------------------------------------------------------------

(* Uploads and the operator know what they are about at each step.         *)
LEMMA NextUploadInv ==
  ASSUME MediaTypeOK, UploadInv, [MediaNext]_mediaVars
  PROVE  UploadInv'
<1>. USE DEF MediaTypeOK
<1>0. UNCHANGED <<up, operator, registered>> => UploadInv'
  BY DEF UploadInv
<1>1. ASSUME NEW u \in Uploads, NEW d \in Devices, NEW c \in Contents, StartUpload(u, d, c)
      PROVE  UploadInv'
  BY <1>1, UploadStarts DEF StartUpload, UploadInv, Requesting, Placing, Adoptive, JobSteps,
     OperatorRecord
<1>2. ASSUME NEW u \in Uploads, Claim(u) PROVE UploadInv'
  BY <1>2, UploadClaims DEF Claim, UploadInv, Requesting, Placing, Adoptive, JobSteps,
     OperatorRecord
<1>3. ASSUME NEW u \in Uploads, Receive(u) PROVE UploadInv'
  BY <1>3, UploadGoes, UploadDone DEF Receive, UploadInv, Requesting, Placing, Adoptive,
     JobSteps, OperatorRecord
<1>4. ASSUME NEW u \in Uploads, ReuseResult(u) PROVE UploadInv'
  BY <1>4, UploadGoes DEF ReuseResult, UploadInv, Requesting, Placing, Adoptive, JobSteps,
     OperatorRecord
<1>5. ASSUME NEW u \in Uploads, AddJob(u) PROVE UploadInv'
  BY <1>5, UploadGoes DEF AddJob, UploadInv, Requesting, Placing, Adoptive, JobSteps,
     OperatorRecord
<1>6. ASSUME NEW u \in Uploads, SendToken(u) PROVE UploadInv'
  BY <1>6, UploadGoes DEF SendToken, UploadInv, Requesting, Placing, Adoptive, JobSteps,
     OperatorRecord
<1>7. ASSUME NEW u \in Uploads, CheckImage(u) PROVE UploadInv'
  BY <1>7, UploadGoes, UploadDone DEF CheckImage, UploadInv, Requesting, Placing, Adoptive,
     JobSteps, OperatorRecord
<1>8. ASSUME NEW u \in Uploads, MoveImage(u) PROVE UploadInv'
  BY <1>8, UploadGoes, UploadDone DEF MoveImage, UploadInv, Requesting, Placing, Adoptive,
     JobSteps, OperatorRecord
<1>9. ASSUME NEW u \in Uploads, HashImage(u) PROVE UploadInv'
  BY <1>9, UploadGoes DEF HashImage, UploadInv, Requesting, Placing, Adoptive, JobSteps,
     OperatorRecord
<1>10. ASSUME NEW u \in Uploads, LinkImage(u) PROVE UploadInv'
  BY <1>10, UploadGoes DEF LinkImage, UploadInv, Requesting, Placing, Adoptive, JobSteps,
     OperatorRecord
<1>11. ASSUME NEW u \in Uploads, AnswerUpload(u) PROVE UploadInv'
  BY <1>11, UploadDone DEF AnswerUpload, UploadInv, Requesting, Placing, Adoptive, JobSteps,
     OperatorRecord
<1>12. CASE NextJob \/ Sleep \/ WakeUp \/ BeginJob \/ Work \/ Discard \/ FailJob \/
            KeepProduct \/ HashProduct \/ LinkProduct \/ FinishJob
  BY <1>0, <1>12 DEF NextJob, Sleep, WakeUp, BeginJob, Work, Discard, FailJob, KeepProduct,
     HashProduct, LinkProduct, FinishJob
<1>13. ASSUME NEW d \in Devices, DeleteDevice(d) PROVE UploadInv'
  BY <1>13 DEF DeleteDevice, UploadInv, Requesting, Placing, Adoptive, JobSteps,
     OperatorRecord
<1>14. ASSUME NEW d \in Devices, Register(d) PROVE UploadInv'
  BY <1>14 DEF Register, UploadInv, Requesting, Placing, Adoptive, JobSteps, OperatorRecord
<1>15. ASSUME NEW d \in Devices, NEW n \in Names, DeleteMedia(d, n) PROVE UploadInv'
  BY <1>15 DEF DeleteMedia, UploadInv, Requesting, Placing, Adoptive, JobSteps, OperatorRecord
<1>16. ASSUME NEW d \in Devices, NEW order, Reorder(d, order) PROVE UploadInv'
  BY <1>0, <1>16 DEF Reorder
<1>17. CASE UnlinkMedia
  BY <1>17 DEF UnlinkMedia, UploadInv, Requesting, Placing, Adoptive, JobSteps, OperatorRecord
<1>18. CASE TidyPlaylist
  BY <1>18, CacheAssumption DEF TidyPlaylist, NoOperator, UploadInv, Requesting, Placing,
     Adoptive, JobSteps, OperatorRecord
<1>19. CASE RemoveDeviceJobs
  BY <1>19 DEF RemoveDeviceJobs, UploadInv, Requesting, Placing, Adoptive, JobSteps,
     OperatorRecord
<1>20. CASE EraseDevice
  BY <1>20, CacheAssumption DEF EraseDevice, NoOperator, UploadInv, Requesting, Placing,
     Adoptive, JobSteps, OperatorRecord
<1>21. ASSUME NEW q \in {Nothing} \cup (Quotas \ {quota}), BeginClean(q), OnlyCache
       PROVE  UploadInv'
  BY <1>0, <1>21 DEF BeginClean
<1>22. ASSUME NEW d \in Devices, ListDevice(d), OnlyCache PROVE UploadInv'
  BY <1>0, <1>22 DEF ListDevice
<1>23. ASSUME NEW n \in Names, LookAt(n) \/ HashUnknown(n) \/ LinkUnknown(n), OnlyCache
       PROVE  UploadInv'
  BY <1>0, <1>23 DEF LookAt, HashUnknown, LinkUnknown
<1>24. ASSUME FinishClean \/ SetQuota, OnlyCache PROVE UploadInv'
  BY <1>0, <1>24 DEF FinishClean, SetQuota
<1>25. CASE RestartServer
  BY <1>25, UploadsEnd, CacheAssumption DEF RestartServer, NoOperator, UploadInv, Requesting,
     Placing, Adoptive, JobSteps, OperatorRecord
<1>26. CASE UNCHANGED mediaVars
  BY <1>0, <1>26
<1>. HIDE DEF MediaTypeOK
<1>. QED
  BY <1>1, <1>2, <1>3, <1>4, <1>5, <1>6, <1>7, <1>8, <1>9, <1>10, <1>11, <1>12, <1>13, <1>14,
     <1>15, <1>16, <1>17, <1>18, <1>19, <1>20, <1>21, <1>22, <1>23, <1>24, <1>25, <1>26 DEF
     MediaNext, Upload, RunJobs, Operate, CleanCache, Clean, OnlyCache

(* What has been hashed is about to be linked.                             *)
LEMMA NextHashInv ==
  ASSUME MediaTypeOK, UploadInv, HashInv, QueueInv, [MediaNext]_mediaVars
  PROVE  HashInv'
<1>a. /\ worker = [at |-> worker.at, job |-> worker.job]
      /\ \A u \in Uploads : worker.job = u => up[u].at \in {"added", "queued"}
  BY DEF MediaTypeOK, WorkerRecord, QueueInv, NoJob, Uploads, JobSteps
<1>u. ASSUME NEW u \in Uploads, \A v \in Uploads \ {u} : up'[v].at = up[v].at,
             up[u].at # "hashed", up'[u].at # "hashed", UNCHANGED <<hashed, worker>>
      PROVE  HashInv'
  BY <1>u DEF HashInv, Hashing
<1>w. ASSUME worker.at # "hashed", worker'.at # "hashed", UNCHANGED upVars
      PROVE  HashInv'
  BY <1>w DEF HashInv, Hashing
<1>0. UNCHANGED <<upVars, worker>> => HashInv'
  BY DEF HashInv, Hashing
<1>1. ASSUME NEW u \in Uploads, NEW d \in Devices, NEW c \in Contents, StartUpload(u, d, c)
      PROVE  HashInv'
  <2>1. /\ \A v \in Uploads \ {u} : up'[v].at = up[v].at
        /\ up[u].at # "hashed" /\ up'[u].at # "hashed" /\ UNCHANGED <<hashed, worker>>
    BY <1>1, UploadStarts DEF StartUpload, MediaTypeOK, Requesting
  <2>. QED
    BY <1>u, <2>1
<1>2. ASSUME NEW u \in Uploads, Claim(u) PROVE HashInv'
  <2>1. /\ \A v \in Uploads \ {u} : up'[v].at = up[v].at
        /\ up[u].at # "hashed" /\ up'[u].at # "hashed" /\ UNCHANGED <<hashed, worker>>
    BY <1>2, UploadClaims DEF Claim, MediaTypeOK, Requesting
  <2>. QED
    BY <1>u, <2>1
<1>3. ASSUME NEW u \in Uploads, Receive(u) PROVE HashInv'
  <2>1. /\ \A v \in Uploads \ {u} : up'[v].at = up[v].at
        /\ up[u].at # "hashed" /\ up'[u].at # "hashed" /\ UNCHANGED <<hashed, worker>>
    BY <1>3, UploadGoes, UploadDone DEF Receive, MediaTypeOK, Requesting
  <2>. QED
    BY <1>u, <2>1
<1>4. ASSUME NEW u \in Uploads, ReuseResult(u) PROVE HashInv'
  <2>1. /\ \A v \in Uploads \ {u} : up'[v].at = up[v].at
        /\ up[u].at # "hashed" /\ up'[u].at # "hashed" /\ UNCHANGED <<hashed, worker>>
    BY <1>4, UploadGoes DEF ReuseResult, MediaTypeOK, Requesting
  <2>. QED
    BY <1>u, <2>1
<1>5. ASSUME NEW u \in Uploads, AddJob(u) PROVE HashInv'
  <2>1. /\ \A v \in Uploads \ {u} : up'[v].at = up[v].at
        /\ up[u].at # "hashed" /\ up'[u].at # "hashed" /\ UNCHANGED <<hashed, worker>>
    BY <1>5, UploadGoes DEF AddJob, MediaTypeOK, Requesting
  <2>. QED
    BY <1>u, <2>1
<1>6. ASSUME NEW u \in Uploads, SendToken(u) PROVE HashInv'
  <2>1. /\ \A v \in Uploads \ {u} : up'[v].at = up[v].at
        /\ up[u].at # "hashed" /\ up'[u].at # "hashed" /\ UNCHANGED <<hashed, worker>>
    BY <1>6, UploadGoes DEF SendToken, MediaTypeOK, Requesting
  <2>. QED
    BY <1>u, <2>1
<1>7. ASSUME NEW u \in Uploads, CheckImage(u) PROVE HashInv'
  <2>1. /\ \A v \in Uploads \ {u} : up'[v].at = up[v].at
        /\ up[u].at # "hashed" /\ up'[u].at # "hashed" /\ UNCHANGED <<hashed, worker>>
    BY <1>7, UploadGoes, UploadDone DEF CheckImage, MediaTypeOK, Requesting
  <2>. QED
    BY <1>u, <2>1
<1>8. ASSUME NEW u \in Uploads, MoveImage(u) PROVE HashInv'
  <2>1. /\ \A v \in Uploads \ {u} : up'[v].at = up[v].at
        /\ up[u].at # "hashed" /\ up'[u].at # "hashed" /\ UNCHANGED <<hashed, worker>>
    BY <1>8, UploadGoes, UploadDone DEF MoveImage, MediaTypeOK, Requesting
  <2>. QED
    BY <1>u, <2>1
<1>9. ASSUME NEW u \in Uploads, HashImage(u) PROVE HashInv'
  <2>1. /\ up[u].at = "moved" /\ UNCHANGED worker
        /\ up'[u].at = IF hashed'[u] = Nothing THEN "landed" ELSE "hashed"
        /\ \A v \in Uploads \ {u} : up'[v].at = up[v].at /\ hashed'[v] = hashed[v]
    BY <1>9, UploadGoes DEF HashImage, MediaTypeOK, Requesting
  <2>2. worker.job # u
    BY <2>1, <1>a
  <2>. QED
    BY <2>1, <2>2 DEF HashInv, Hashing
<1>10. ASSUME NEW u \in Uploads, LinkImage(u) PROVE HashInv'
  <2>1. /\ up[u].at = "hashed" /\ up'[u].at = "landed" /\ hashed'[u] = Nothing /\ UNCHANGED worker
        /\ \A v \in Uploads \ {u} : up'[v].at = up[v].at /\ hashed'[v] = hashed[v]
    BY <1>10, UploadGoes DEF LinkImage, MediaTypeOK, Requesting
  <2>2. worker.job # u
    BY <2>1, <1>a
  <2>. QED
    BY <2>1, <2>2 DEF HashInv, Hashing
<1>11. ASSUME NEW u \in Uploads, AnswerUpload(u) PROVE HashInv'
  <2>1. /\ \A v \in Uploads \ {u} : up'[v].at = up[v].at
        /\ up[u].at # "hashed" /\ up'[u].at # "hashed" /\ UNCHANGED <<hashed, worker>>
    BY <1>11, UploadDone DEF AnswerUpload, MediaTypeOK, Requesting
  <2>. QED
    BY <1>u, <2>1
<1>12. CASE NextJob
  <2>1. worker.at # "hashed" /\ worker'.at # "hashed" /\ UNCHANGED upVars
    BY <1>12, <1>a DEF NextJob
  <2>. QED
    BY <1>w, <2>1
<1>13. CASE Sleep
  <2>1. worker.at # "hashed" /\ worker'.at # "hashed" /\ UNCHANGED upVars
    BY <1>13, <1>a DEF Sleep
  <2>. QED
    BY <1>w, <2>1
<1>14. CASE WakeUp
  <2>1. worker.at # "hashed" /\ worker'.at # "hashed" /\ UNCHANGED upVars
    BY <1>14, <1>a DEF WakeUp, NoWork
  <2>. QED
    BY <1>w, <2>1
<1>15. CASE BeginJob
  <2>1. worker.at # "hashed" /\ worker'.at # "hashed" /\ UNCHANGED upVars
    BY <1>15, <1>a DEF BeginJob
  <2>. QED
    BY <1>w, <2>1
<1>16. CASE Work
  <2>1. worker.at # "hashed" /\ worker'.at # "hashed" /\ UNCHANGED upVars
    BY <1>16, <1>a DEF Work
  <2>. QED
    BY <1>w, <2>1
<1>17. CASE Discard
  <2>1. worker.at # "hashed" /\ worker'.at # "hashed" /\ UNCHANGED upVars
    BY <1>17, <1>a DEF Discard, NoWork
  <2>. QED
    BY <1>w, <2>1
<1>18. CASE FailJob
  <2>1. worker.at # "hashed" /\ worker'.at # "hashed" /\ UNCHANGED upVars
    BY <1>18, <1>a DEF FailJob, NoWork
  <2>. QED
    BY <1>w, <2>1
<1>19. CASE KeepProduct
  <2>1. worker.at # "hashed" /\ worker'.at # "hashed" /\ UNCHANGED upVars
    BY <1>19, <1>a DEF KeepProduct
  <2>. QED
    BY <1>w, <2>1
<1>20. CASE HashProduct
  <2>. DEFINE j == worker.job
  <2>1. j \in Uploads /\ worker.at = "adopt" /\ UNCHANGED up
    BY <1>20, JobIsUpload DEF HashProduct, QueueInv, AtJob
  <2>2. /\ \A v \in Uploads \ {j} : hashed'[v] = hashed[v]
        /\ worker'.job = j /\ worker'.at = IF hashed'[j] = Nothing THEN "append" ELSE "hashed"
    BY <1>20, <2>1, <1>a DEF HashProduct, MediaTypeOK
  <2>3. up[j].at # "hashed"
    BY <2>1, <1>a
  <2>. QED
    BY <2>1, <2>2, <2>3 DEF HashInv, Hashing
<1>21. CASE LinkProduct
  <2>. DEFINE j == worker.job
  <2>1. j \in Uploads /\ worker.at = "hashed" /\ UNCHANGED up
    BY <1>21, JobIsUpload DEF LinkProduct, QueueInv, AtJob
  <2>2. /\ \A v \in Uploads \ {j} : hashed'[v] = hashed[v]
        /\ worker'.job = j /\ worker'.at = "append" /\ hashed'[j] = Nothing
    BY <1>21, <2>1, <1>a DEF LinkProduct, MediaTypeOK
  <2>3. up[j].at # "hashed"
    BY <2>1, <1>a
  <2>. QED
    BY <2>1, <2>2, <2>3 DEF HashInv, Hashing
<1>22. CASE FinishJob
  <2>1. worker.at # "hashed" /\ worker'.at # "hashed" /\ UNCHANGED upVars
    BY <1>22, <1>a DEF FinishJob, NoWork
  <2>. QED
    BY <1>w, <2>1
<1>23. ASSUME NEW d \in Devices, DeleteDevice(d) \/ Register(d) PROVE HashInv'
  BY <1>0, <1>23 DEF DeleteDevice, Register
<1>24. ASSUME NEW d \in Devices, NEW n \in Names, DeleteMedia(d, n) PROVE HashInv'
  BY <1>0, <1>24 DEF DeleteMedia
<1>25. ASSUME NEW d \in Devices, NEW order, Reorder(d, order) PROVE HashInv'
  BY <1>0, <1>25 DEF Reorder
<1>26. CASE UnlinkMedia \/ TidyPlaylist \/ RemoveDeviceJobs \/ EraseDevice
  BY <1>0, <1>26 DEF UnlinkMedia, TidyPlaylist, RemoveDeviceJobs, EraseDevice
<1>27. ASSUME NEW q \in {Nothing} \cup (Quotas \ {quota}), BeginClean(q), OnlyCache
       PROVE  HashInv'
  BY <1>0, <1>27 DEF BeginClean
<1>28. ASSUME NEW d \in Devices, ListDevice(d), OnlyCache PROVE HashInv'
  BY <1>0, <1>28 DEF ListDevice
<1>29. ASSUME NEW n \in Names, LookAt(n) \/ HashUnknown(n) \/ LinkUnknown(n), OnlyCache
       PROVE  HashInv'
  BY <1>0, <1>29 DEF LookAt, HashUnknown, LinkUnknown
<1>30. ASSUME FinishClean \/ SetQuota, OnlyCache PROVE HashInv'
  BY <1>0, <1>30 DEF FinishClean, SetQuota
<1>31. CASE RestartServer
  <2>1. /\ \A v \in Uploads : up'[v].at \in {"new", "done"} /\ hashed'[v] = Nothing
        /\ worker'.at = "look"
    BY <1>31, UploadsEnd DEF RestartServer, MediaTypeOK, NoHash, NoWork
  <2>. QED
    BY <2>1 DEF HashInv, Hashing
<1>32. CASE UNCHANGED mediaVars
  BY <1>0, <1>32
<1>. QED
  BY <1>1, <1>2, <1>3, <1>4, <1>5, <1>6, <1>7, <1>8, <1>9, <1>10, <1>11, <1>12, <1>13, <1>14,
     <1>15, <1>16, <1>17, <1>18, <1>19, <1>20, <1>21, <1>22, <1>23, <1>24, <1>25, <1>26,
     <1>27, <1>28, <1>29, <1>30, <1>31, <1>32 DEF MediaNext, Upload, RunJobs, Operate,
     CleanCache, Clean, OnlyCache

(* An original has somebody who removes it, whatever is done to the queue. *)
LEMMA NextQueueInv ==
  ASSUME MediaTypeOK, UploadInv, QueueInv, [MediaNext]_mediaVars
  PROVE  QueueInv'
<1>a. /\ ToSet(jobs) \subseteq Uploads /\ incoming \subseteq Uploads /\ failed \subseteq Uploads
      /\ worker.job \in Uploads \cup {NoJob} /\ NoJob \notin Uploads
      /\ worker = [at |-> worker.at, job |-> worker.job]
  BY JobsAreUploads DEF MediaTypeOK, WorkerRecord, NoJob, Uploads
<1>m. ASSUME NEW u \in Uploads, up[u].at \notin JobSteps, \A v \in Uploads \ {u} : up'[v].at = up[v].at,
             incoming' \subseteq incoming \cup {u}, u \in incoming' => up'[u].at \in {"received", "moving"},
             UNCHANGED jobVars
      PROVE  QueueInv'
  BY <1>a, <1>m DEF QueueInv, JobSteps, JobRemoved, Waiting
<1>r. ASSUME NEW js, RemoveJobs(js), ToSet(jobs') = ToSet(jobs) \ js, js \subseteq ToSet(jobs),
             UNCHANGED <<up, worker>>
      PROVE  QueueInv'
  BY <1>a, <1>r DEF RemoveJobs, Cancellable, QueueInv, AtJob, JobRemoved, Waiting
<1>0. UNCHANGED <<up, jobs, failed, incoming, worker>> => QueueInv'
  BY DEF QueueInv, JobRemoved, Waiting
<1>1. ASSUME NEW u \in Uploads, NEW d \in Devices, NEW c \in Contents, StartUpload(u, d, c)
      PROVE  QueueInv'
  <2>1. /\ \A v \in Uploads \ {u} : up'[v].at = up[v].at
        /\ up[u].at \notin JobSteps /\ (u \in incoming' => up'[u].at \in {"received", "moving"})
    BY <1>1, UploadStarts DEF StartUpload, MediaTypeOK, QueueInv, Requesting, JobSteps
  <2>. QED
    BY <1>1, <2>1, <1>m DEF StartUpload
<1>2. ASSUME NEW u \in Uploads, Claim(u) PROVE QueueInv'
  <2>1. /\ \A v \in Uploads \ {u} : up'[v].at = up[v].at
        /\ up[u].at \notin JobSteps /\ (u \in incoming' => up'[u].at \in {"received", "moving"})
    BY <1>2, UploadClaims DEF Claim, MediaTypeOK, QueueInv, Requesting, JobSteps
  <2>. QED
    BY <1>2, <2>1, <1>m DEF Claim
<1>3. ASSUME NEW u \in Uploads, Receive(u) PROVE QueueInv'
  <2>1. /\ \A v \in Uploads \ {u} : up'[v].at = up[v].at
        /\ up[u].at \notin JobSteps /\ (u \in incoming' => up'[u].at \in {"received", "moving"})
    BY <1>3, UploadGoes, UploadDone DEF Receive, MediaTypeOK, QueueInv, Requesting, JobSteps
  <2>. QED
    BY <1>3, <2>1, <1>m DEF Receive
<1>4. ASSUME NEW u \in Uploads, ReuseResult(u) PROVE QueueInv'
  <2>1. /\ \A v \in Uploads \ {u} : up'[v].at = up[v].at
        /\ up[u].at \notin JobSteps /\ (u \in incoming' => up'[u].at \in {"received", "moving"})
    BY <1>4, UploadGoes DEF ReuseResult, MediaTypeOK, QueueInv, Requesting, JobSteps
  <2>. QED
    BY <1>4, <2>1, <1>m DEF ReuseResult
<1>5. ASSUME NEW u \in Uploads, AddJob(u) PROVE QueueInv'
  <2>1. ToSet(jobs') = ToSet(jobs) \cup {u} /\ up'[u].at = "added" /\ up[u].at = "received"
    BY <1>5, UploadGoes, AppendAdds DEF AddJob, MediaTypeOK, Requesting
  <2>2. \A v \in Uploads \ {u} : up'[v].at = up[v].at
    BY <1>5, UploadGoes DEF AddJob, MediaTypeOK, Requesting
  <2>. QED
    BY <1>5, <1>a, <2>1, <2>2 DEF AddJob, QueueInv, JobSteps, AtJob, JobRemoved, Waiting
<1>6. ASSUME NEW u \in Uploads, SendToken(u) PROVE QueueInv'
  <2>1. /\ up'[u].at = "queued" /\ up[u].at = "added"
        /\ \A v \in Uploads \ {u} : up'[v].at = up[v].at
    BY <1>6, UploadGoes DEF SendToken, MediaTypeOK, Requesting
  <2>. QED
    BY <1>6, <1>a, <2>1 DEF SendToken, QueueInv, JobSteps, AtJob, JobRemoved, Waiting
<1>7. ASSUME NEW u \in Uploads, CheckImage(u) PROVE QueueInv'
  <2>1. /\ \A v \in Uploads \ {u} : up'[v].at = up[v].at
        /\ up[u].at \notin JobSteps /\ (u \in incoming' => up'[u].at \in {"received", "moving"})
    BY <1>7, UploadGoes, UploadDone DEF CheckImage, MediaTypeOK, QueueInv, Requesting,
       JobSteps
  <2>. QED
    BY <1>7, <2>1, <1>m DEF CheckImage
<1>8. ASSUME NEW u \in Uploads, MoveImage(u) PROVE QueueInv'
  <2>1. /\ \A v \in Uploads \ {u} : up'[v].at = up[v].at
        /\ up[u].at \notin JobSteps /\ (u \in incoming' => up'[u].at \in {"received", "moving"})
    BY <1>8, UploadGoes, UploadDone DEF MoveImage, MediaTypeOK, QueueInv, Requesting, JobSteps
  <2>. QED
    BY <1>8, <2>1, <1>m DEF MoveImage
<1>9. ASSUME NEW u \in Uploads, HashImage(u) PROVE QueueInv'
  <2>1. /\ \A v \in Uploads \ {u} : up'[v].at = up[v].at
        /\ up[u].at \notin JobSteps /\ (u \in incoming' => up'[u].at \in {"received", "moving"})
    BY <1>9, UploadGoes DEF HashImage, MediaTypeOK, QueueInv, Requesting, JobSteps
  <2>. QED
    BY <1>9, <2>1, <1>m DEF HashImage
<1>10. ASSUME NEW u \in Uploads, LinkImage(u) PROVE QueueInv'
  <2>1. /\ \A v \in Uploads \ {u} : up'[v].at = up[v].at
        /\ up[u].at \notin JobSteps /\ (u \in incoming' => up'[u].at \in {"received", "moving"})
    BY <1>10, UploadGoes DEF LinkImage, MediaTypeOK, QueueInv, Requesting, JobSteps
  <2>. QED
    BY <1>10, <2>1, <1>m DEF LinkImage
<1>11. ASSUME NEW u \in Uploads, AnswerUpload(u) PROVE QueueInv'
  <2>1. /\ \A v \in Uploads \ {u} : up'[v].at = up[v].at
        /\ up[u].at \notin JobSteps /\ (u \in incoming' => up'[u].at \in {"received", "moving"})
    BY <1>11, UploadDone DEF AnswerUpload, MediaTypeOK, QueueInv, Requesting, JobSteps
  <2>. QED
    BY <1>11, <2>1, <1>m DEF AnswerUpload
<1>12. CASE NextJob
  <2>1. PICK j \in Uploads \cup {NoJob} :
          \/ j = NoJob /\ worker' = [at |-> "none", job |-> j]
          \/ Waiting(j) /\ worker' = [at |-> "taken", job |-> j]
    BY <1>12, JobsAreUploads DEF NextJob, ToSet, First, MediaTypeOK
  <2>. QED
    BY <1>12, <1>a, <2>1 DEF NextJob, QueueInv, JobSteps, AtJob, JobRemoved, Waiting
<1>13. CASE Sleep
  BY <1>13, <1>a DEF Sleep, QueueInv, JobSteps, AtJob, JobRemoved, Waiting
<1>14. CASE WakeUp
  BY <1>14, <1>a DEF WakeUp, NoWork, QueueInv, JobSteps, AtJob, JobRemoved, Waiting
<1>15. CASE BeginJob
  BY <1>15, <1>a DEF BeginJob, QueueInv, JobSteps, AtJob, JobRemoved, Waiting
<1>16. CASE Work
  BY <1>16, <1>a DEF Work, QueueInv, JobSteps, AtJob, JobRemoved, Waiting
<1>17. CASE Discard
  BY <1>17, <1>a DEF Discard, NoWork, QueueInv, JobSteps, AtJob, JobRemoved, Waiting
<1>18. CASE FailJob
  BY <1>18, <1>a DEF FailJob, NoWork, QueueInv, JobSteps, AtJob, JobRemoved, Waiting
<1>19. CASE KeepProduct
  BY <1>19, <1>a DEF KeepProduct, QueueInv, JobSteps, AtJob, JobRemoved, Waiting
<1>20. CASE HashProduct
  BY <1>20, <1>a DEF HashProduct, QueueInv, JobSteps, AtJob, JobRemoved, Waiting
<1>21. CASE LinkProduct
  BY <1>21, <1>a DEF LinkProduct, QueueInv, JobSteps, AtJob, JobRemoved, Waiting
<1>22. CASE FinishJob
  <2>1. ToSet(jobs') = ToSet(jobs) \ {worker.job}
    BY <1>22, WithoutLeaves DEF FinishJob, MediaTypeOK
  <2>. QED
    BY <1>22, <1>a, <2>1 DEF FinishJob, NoWork, QueueInv, JobSteps, AtJob, JobRemoved, Waiting
<1>23. ASSUME NEW d \in Devices, DeleteDevice(d) \/ Register(d) PROVE QueueInv'
  BY <1>0, <1>23 DEF DeleteDevice, Register
<1>24. ASSUME NEW d \in Devices, NEW n \in Names, DeleteMedia(d, n) PROVE QueueInv'
  <2>. DEFINE js == {j \in JobsOf(d) : up[j].name = n}
  <2>1. ToSet(jobs') = ToSet(jobs) \ js /\ js \subseteq ToSet(jobs)
    BY <1>24, WithoutLeaves DEF DeleteMedia, RemoveJobs, MediaTypeOK, JobsOf
  <2>2. RemoveJobs(js) /\ UNCHANGED <<up, worker>>
    BY <1>24 DEF DeleteMedia
  <2>. HIDE DEF js
  <2>. QED
    BY <1>r, <2>1, <2>2
<1>25. ASSUME NEW d \in Devices, NEW order, Reorder(d, order) PROVE QueueInv'
  BY <1>0, <1>25 DEF Reorder
<1>26. CASE UnlinkMedia \/ TidyPlaylist \/ EraseDevice
  BY <1>0, <1>26 DEF UnlinkMedia, TidyPlaylist, EraseDevice
<1>27. CASE RemoveDeviceJobs
  <2>. DEFINE js == JobsOf(operator.dev)
  <2>1. ToSet(jobs') = ToSet(jobs) \ js /\ js \subseteq ToSet(jobs)
    BY <1>27, WithoutLeaves DEF RemoveDeviceJobs, RemoveJobs, MediaTypeOK, JobsOf
  <2>2. RemoveJobs(js) /\ UNCHANGED <<up, worker>>
    BY <1>27 DEF RemoveDeviceJobs
  <2>. HIDE DEF js
  <2>. QED
    BY <1>r, <2>1, <2>2
<1>28. ASSUME NEW q \in {Nothing} \cup (Quotas \ {quota}), BeginClean(q), OnlyCache
       PROVE  QueueInv'
  BY <1>0, <1>28 DEF BeginClean
<1>29. ASSUME NEW d \in Devices, ListDevice(d), OnlyCache PROVE QueueInv'
  BY <1>0, <1>29 DEF ListDevice
<1>30. ASSUME NEW n \in Names, LookAt(n) \/ HashUnknown(n) \/ LinkUnknown(n), OnlyCache
       PROVE  QueueInv'
  BY <1>0, <1>30 DEF LookAt, HashUnknown, LinkUnknown
<1>31. ASSUME FinishClean \/ SetQuota, OnlyCache PROVE QueueInv'
  BY <1>0, <1>31 DEF FinishClean, SetQuota
<1>32. CASE RestartServer
  <2>1. \A v \in Uploads : up'[v].at \in {"new", "done"}
    BY <1>32, UploadsEnd DEF MediaTypeOK
  <2>. QED
    BY <1>32, <2>1, EmptyQueue DEF RestartServer, NoWork, NoJob, QueueInv, JobSteps, AtJob,
       JobRemoved, Waiting
<1>33. CASE UNCHANGED mediaVars
  BY <1>0, <1>33
<1>. QED
  BY <1>1, <1>2, <1>3, <1>4, <1>5, <1>6, <1>7, <1>8, <1>9, <1>10, <1>11, <1>12, <1>13, <1>14,
     <1>15, <1>16, <1>17, <1>18, <1>19, <1>20, <1>21, <1>22, <1>23, <1>24, <1>25, <1>26,
     <1>27, <1>28, <1>29, <1>30, <1>31, <1>32, <1>33 DEF MediaNext, Upload, RunJobs, Operate,
     CleanCache, Clean, OnlyCache

(* Every file lies in a directory, every copy is indexed, and the clean-up *)
(* knows where it is.                                                      *)
LEMMA NextDiskInv ==
  ASSUME MediaTypeOK, UploadInv, HashInv, QueueInv, DiskInv, [MediaNext]_mediaVars
  PROVE  DiskInv'
<1>a. worker = [at |-> worker.at, job |-> worker.job]
  BY DEF MediaTypeOK, WorkerRecord
<1>b. ASSUME NEW d \in Devices, NEW n \in Names, NEW h \in Contents, NEW os, Adopt(d, n, h, os),
             UNCHANGED scan
      PROVE  DiskInv'
  <2>1. /\ \A e \in Devices \ dirs', m \in Names : files'[e][m] = Nothing
        /\ \A g \in Contents \ indexed' : stored'[g] = Nothing
    BY <1>b, AdoptPuts DEF MediaTypeOK
  <2>. QED
    BY <1>b, <2>1 DEF DiskInv
<1>c. ASSUME NEW n \in Names, FileSeen(n), scan.running,
             \A e \in Devices \ dirs', m \in Names : files'[e][m] = Nothing,
             \A h \in Contents \ indexed' : stored'[h] = Nothing
      PROVE  DiskInv'
  <2>1. /\ scan'.running /\ scan'.hash = Nothing /\ scan'.name = Nothing /\ scan'.dev = scan.dev
        /\ scan'.names \subseteq scan.names
    BY <1>c DEF FileSeen, MediaTypeOK, CacheTypeOK
  <2>. QED
    BY <1>c, <2>1 DEF DiskInv
<1>0. UNCHANGED <<files, dirs, stored, indexed, scan>> => DiskInv'
  BY DEF DiskInv
<1>1. ASSUME NEW u \in Uploads, NEW d \in Devices, NEW c \in Contents, StartUpload(u, d, c)
      PROVE  DiskInv'
  BY <1>1 DEF StartUpload, DiskInv
<1>2. ASSUME NEW u \in Uploads, Claim(u) \/ Receive(u) \/ AddJob(u) \/ SendToken(u) \/
             CheckImage(u) \/ HashImage(u) \/ AnswerUpload(u)
      PROVE  DiskInv'
  BY <1>0, <1>2 DEF Claim, Receive, AddJob, SendToken, CheckImage, HashImage, AnswerUpload
<1>3. ASSUME NEW u \in Uploads, ReuseResult(u) PROVE DiskInv'
  <2>1. up[u].dev \in Devices /\ up[u].name \in Names /\ Result(up[u].content) \in Contents \cup {Nothing}
    BY <1>3 DEF ReuseResult, UploadInv, Requesting, Placing, Result, Copy, MediaTypeOK,
       CacheTypeOK
  <2>2. \A e \in Devices, m \in Names :
           files'[e][m] = IF e = up[u].dev /\ m = up[u].name THEN Result(up[u].content) ELSE files[e][m]
    BY <1>3, <2>1, FilePut DEF ReuseResult, MediaTypeOK, CacheTypeOK
  <2>. QED
    BY <1>3, <2>1, <2>2 DEF ReuseResult, DiskInv
<1>4. ASSUME NEW u \in Uploads, MoveImage(u) PROVE DiskInv'
  <2>1. up[u].dev \in Devices /\ up[u].name \in Names /\ up[u].content \in Contents
    BY <1>4 DEF MoveImage, UploadInv, Requesting, Placing
  <2>2. CASE up[u].dev \in dirs
    <3>1. \A e \in Devices, m \in Names :
             files'[e][m] = IF e = up[u].dev /\ m = up[u].name THEN up[u].content ELSE files[e][m]
      BY <1>4, <2>1, <2>2, FilePut DEF MoveImage, MediaTypeOK, CacheTypeOK
    <3>. QED
      BY <1>4, <2>1, <2>2, <3>1 DEF MoveImage, DiskInv
  <2>3. CASE up[u].dev \notin dirs
    BY <1>4, <2>3 DEF MoveImage, DiskInv
  <2>. QED
    BY <2>2, <2>3
<1>5. ASSUME NEW u \in Uploads, LinkImage(u) PROVE DiskInv'
  <2>1. Adopt(up[u].dev, up[u].name, hashed[u], {up[u].content}) /\ UNCHANGED scan
    BY <1>5 DEF LinkImage
  <2>. QED
    BY <1>5, <2>1, ImageAdopts, <1>b DEF LinkImage
<1>6. CASE NextJob \/ Sleep \/ WakeUp \/ FailJob \/ KeepProduct \/ HashProduct \/ FinishJob
  BY <1>0, <1>6 DEF NextJob, Sleep, WakeUp, FailJob, KeepProduct, HashProduct, FinishJob
<1>7. CASE BeginJob
  BY <1>7 DEF BeginJob, DiskInv
<1>8. CASE Work
  <2>1. Job.dev \in Devices /\ Job.name \in Names /\ Job.content \in Contents
    BY <1>8, JobIsUpload DEF Work, QueueInv, AtJob
  <2>2. CASE worker'.at = "broken"
    BY <1>8, <2>2, <1>a DEF Work, DiskInv
  <2>3. CASE worker'.at # "broken"
    <3>1. Job.dev \in dirs /\ Put(Job.dev, Job.name, Job.content) /\ UNCHANGED <<dirs, stored, indexed, scan>>
      BY <1>8, <2>3, <1>a DEF Work
    <3>2. \A e \in Devices, m \in Names :
            files'[e][m] = IF e = Job.dev /\ m = Job.name THEN Job.content ELSE files[e][m]
      BY <2>1, <3>1, FilePut DEF MediaTypeOK, CacheTypeOK
    <3>. QED
      BY <3>1, <3>2 DEF DiskInv
  <2>. QED
    BY <2>2, <2>3
<1>9. CASE Discard
  <2>1. Job.dev \in Devices /\ Job.name \in Names
    BY <1>9, JobIsUpload DEF Discard, QueueInv, AtJob
  <2>. QED
    BY <1>9, <2>1, FilePut DEF Discard, DiskInv, MediaTypeOK, CacheTypeOK
<1>10. CASE LinkProduct
  <2>1. Adopt(Job.dev, Job.name, hashed[worker.job], {Job.content}) /\ UNCHANGED scan
    BY <1>10 DEF LinkProduct
  <2>. QED
    BY <1>10, <2>1, ProductAdopts, <1>b DEF LinkProduct
<1>11. ASSUME NEW d \in Devices, DeleteDevice(d) \/ Register(d) PROVE DiskInv'
  BY <1>0, <1>11 DEF DeleteDevice, Register
<1>12. ASSUME NEW d \in Devices, NEW n \in Names, DeleteMedia(d, n) PROVE DiskInv'
  BY <1>0, <1>12 DEF DeleteMedia
<1>13. ASSUME NEW d \in Devices, NEW order, Reorder(d, order) PROVE DiskInv'
  BY <1>0, <1>13 DEF Reorder
<1>14. CASE TidyPlaylist \/ RemoveDeviceJobs
  BY <1>0, <1>14 DEF TidyPlaylist, RemoveDeviceJobs
<1>15. CASE UnlinkMedia
  BY <1>15, FilePut DEF UnlinkMedia, UploadInv, DiskInv, MediaTypeOK, CacheTypeOK
<1>16. CASE EraseDevice
  <2>1. \A e \in Devices, m \in Names :
          files'[e][m] = IF e = operator.dev THEN Nothing ELSE files[e][m]
    BY <1>16 DEF EraseDevice, MediaTypeOK, CacheTypeOK
  <2>. QED
    BY <1>16, <2>1 DEF EraseDevice, DiskInv
<1>17. ASSUME NEW q \in {Nothing} \cup (Quotas \ {quota}), BeginClean(q), OnlyCache
       PROVE  DiskInv'
  BY <1>17 DEF BeginClean, NoScan, DiskInv
<1>18. ASSUME NEW d \in Devices, ListDevice(d), OnlyCache PROVE DiskInv'
  <2>1. /\ scan'.running = scan.running /\ scan'.dev = d /\ scan'.names = OnDisk(d)
        /\ scan'.name = scan.name /\ scan'.hash = scan.hash
        /\ scan.running /\ scan.names = {}
    BY <1>18 DEF ListDevice, MediaTypeOK, CacheTypeOK, DiskInv, NoScan
  <2>. QED
    BY <1>18, <2>1 DEF ListDevice, DiskInv
<1>19. ASSUME NEW n \in Names, LookAt(n), OnlyCache PROVE DiskInv'
  <2>1. /\ scan.running /\ n \in scan.names /\ scan.hash = Nothing
        /\ UNCHANGED <<fileVars, stored, indexed>>
    BY <1>19 DEF LookAt, DiskInv, NoScan
  <2>2. CASE FileSeen(n)
    BY <2>1, <2>2, <1>c DEF DiskInv
  <2>3. CASE scan' = [scan EXCEPT !.name = n]
    BY <2>1, <2>3 DEF DiskInv, MediaTypeOK, CacheTypeOK
  <2>. QED
    BY <1>19, <2>2, <2>3 DEF LookAt
<1>20. ASSUME NEW n \in Names, HashUnknown(n), OnlyCache PROVE DiskInv'
  <2>1. scan.running /\ n \in scan.names /\ n = scan.name /\ n # Nothing /\ UNCHANGED <<fileVars, stored, indexed>>
    BY <1>20, CacheAssumption DEF HashUnknown, DiskInv, NoScan
  <2>2. CASE FileSeen(n)
    BY <2>1, <2>2, <1>c DEF DiskInv
  <2>3. CASE scan' = [scan EXCEPT !.hash = FileAt(n)]
    BY <2>1, <2>3 DEF DiskInv, MediaTypeOK, CacheTypeOK
  <2>. QED
    BY <1>20, <2>2, <2>3 DEF HashUnknown
<1>21. ASSUME NEW n \in Names, LinkUnknown(n), OnlyCache PROVE DiskInv'
  <2>1. Adopt(scan.dev, n, scan.hash, {}) /\ FileSeen(n) /\ n = scan.name
    BY <1>21 DEF LinkUnknown
  <2>2. scan.dev \in Devices /\ scan.hash \in Contents /\ scan.running
    BY <1>21, CleanAdopts DEF LinkUnknown
  <2>3. /\ \A e \in Devices \ dirs', m \in Names : files'[e][m] = Nothing
        /\ \A h \in Contents \ indexed' : stored'[h] = Nothing
    BY <2>1, <2>2, AdoptPuts DEF MediaTypeOK
  <2>. QED
    BY <2>1, <2>2, <2>3, <1>c
<1>22. ASSUME FinishClean, OnlyCache PROVE DiskInv'
  <2>1. UNCHANGED <<files, dirs>> /\ scan' = NoScan
    BY <1>22 DEF FinishClean
  <2>2. PICK gone \in Evictions : Evict(gone) /\ indexed' = indexed \ gone
    BY <1>22 DEF FinishClean
  <2>3. \A h \in Contents : stored'[h] = IF h \in gone THEN Nothing ELSE stored[h]
    BY <2>2 DEF Evict
  <2>. QED
    BY <2>1, <2>2, <2>3 DEF DiskInv, NoScan
<1>23. ASSUME SetQuota, OnlyCache PROVE DiskInv'
  BY <1>23 DEF SetQuota, DiskInv
<1>24. CASE RestartServer
  <2>1. UNCHANGED <<fileVars, indexed>> /\ scan' = NoScan
    BY <1>24 DEF RestartServer, CacheRestart
  <2>2. \A h \in Contents : stored'[h] \in {Nothing, stored[h]}
    BY <1>24 DEF RestartServer, CacheRestart, Evict, MediaTypeOK, CacheTypeOK
  <2>. QED
    BY <2>1, <2>2 DEF DiskInv, NoScan
<1>25. CASE UNCHANGED mediaVars
  BY <1>0, <1>25
<1>. QED
  BY <1>1, <1>2, <1>3, <1>4, <1>5, <1>6, <1>7, <1>8, <1>9, <1>10, <1>11, <1>12, <1>13, <1>14,
     <1>15, <1>16, <1>17, <1>18, <1>19, <1>20, <1>21, <1>22, <1>23, <1>24, <1>25 DEF
     MediaNext, Upload, RunJobs, Operate, CleanCache, Clean, OnlyCache

(* A name belongs to one upload, which finds it free.                      *)
LEMMA NextNamesInv ==
  ASSUME MediaTypeOK, UploadInv, HashInv, QueueInv, NamesInv, DiskInv, [MediaNext]_mediaVars
  PROVE  NamesInv'
<1>a. /\ ToSet(jobs) \subseteq Uploads
      /\ worker.job \in Uploads \cup {NoJob} /\ NoJob \notin Uploads
      /\ worker = [at |-> worker.at, job |-> worker.job]
      /\ \A u \in Uploads : worker.job = u => up[u].at \in JobSteps
      /\ \A u \in Uploads : u \in ToSet(jobs) => up[u].at \in JobSteps
  BY JobsAreUploads DEF MediaTypeOK, WorkerRecord, NoJob, Uploads, QueueInv
<1>s. \A v \in Uploads : Seeking(v) => Owner(v)
  BY DEF Seeking, Owner
<1>b. \A v \in Uploads : Seeking(v) => up[v].dev \in Devices /\ up[v].name \in Names
  BY <1>a DEF UploadInv, Seeking, Requesting, Placing, JobSteps
<1>k. ASSUME \A v \in Uploads :
               /\ Owner(v)' => Owner(v) /\ up'[v].dev = up[v].dev /\ up'[v].name = up[v].name
               /\ Seeking(v)' =>
                    /\ Seeking(v)
                    /\ \/ FileOf(v)' = Nothing \/ Stray(up[v].dev, up[v].name)'
                       \/ /\ FileOf(v)' = FileOf(v)
                          /\ Stray(up[v].dev, up[v].name) => Stray(up[v].dev, up[v].name)'
      PROVE  NamesInv'
  <2>1. \A v \in Uploads : Seeking(v)' => Owner(v)'
    BY DEF Seeking, Owner
  <2>. QED
    BY <1>k, <2>1 DEF NamesInv
<1>m. ASSUME NEW u \in Uploads, up[u].at \notin JobSteps, \A v \in Uploads \ {u} : up'[v] = up[v],
             \/ up'[u].at \notin Placing \cup Adoptive
             \/ /\ up[u].at \in Placing \/ (up[u].at = "moved" /\ up'[u].at = "hashed")
                /\ up'[u].at \in Placing \cup Adoptive /\ up'[u].dev = up[u].dev
                /\ up'[u].name = up[u].name,
             UNCHANGED <<files, revived, jobVars>>
      PROVE  NamesInv'
  <2>1. u \notin ToSet(jobs) /\ worker.job # u
    BY <1>a, <1>m
  <2>2. \A v \in Uploads : Owner(v)' => Owner(v) /\ up'[v].dev = up[v].dev /\ up'[v].name = up[v].name
    BY <1>m, <2>1 DEF Owner, Placing, Adoptive
  <2>3. \A v \in Uploads : Seeking(v)' => Seeking(v)
    BY <1>m, <2>1 DEF Seeking, Made, Placing, Adoptive
  <2>4. \A d, n : Stray(d, n) => Stray(d, n)'
    BY <1>a, <1>m, <2>1 DEF Stray, Job, JobRemoved, QueueInv, AtJob
  <2>5. \A v \in Uploads : Owner(v)' => FileOf(v)' = FileOf(v)
    BY <1>m, <2>2 DEF FileOf
  <2>6. \A v \in Uploads : Seeking(v)' => Owner(v)'
    BY DEF Seeking, Owner
  <2>. QED
    BY <2>2, <2>3, <2>4, <2>5, <2>6, <1>k
<1>c. ASSUME \A e \in Devices, m \in Names : files'[e][m] # files[e][m] => <<e, m>> \in revived',
             revived \subseteq revived', UNCHANGED jobs,
             \A v \in Uploads : up'[v].dev = up[v].dev /\ up'[v].name = up[v].name,
             \A v \in Uploads : (Owner(v)' => Owner(v)) /\ (Seeking(v)' => Seeking(v)),
             worker'.job = worker.job, worker.at = "produced" => worker'.at = "produced"
      PROVE  NamesInv'
  <2>1. \A d, n : Stray(d, n) => Stray(d, n)'
    BY <1>a, <1>c DEF Stray, Job, JobRemoved, QueueInv, AtJob
  <2>2. \A v \in Uploads : Seeking(v) => FileOf(v)' = FileOf(v) \/ Stray(up[v].dev, up[v].name)'
    BY <1>b, <1>c DEF FileOf, Stray
  <2>. QED
    BY <1>c, <2>1, <2>2, <1>k
<1>w. ASSUME UNCHANGED <<up, files, revived>>, ToSet(jobs') \subseteq ToSet(jobs),
             worker.at # "produced" \/ ~JobRemoved,
             \A v \in Uploads : Made(v) /\ v \in ToSet(jobs') => Made(v)'
      PROVE  NamesInv'
  <2>1. \A v \in Uploads : (Owner(v)' => Owner(v)) /\ (Seeking(v)' => Seeking(v)) /\ FileOf(v)' = FileOf(v)
    BY <1>w DEF Owner, Seeking, FileOf
  <2>2. \A d, n : Stray(d, n) => Stray(d, n)'
    BY <1>w DEF Stray
  <2>. QED
    BY <1>w, <2>1, <2>2, <1>k
<1>r. ASSUME NEW js, ToSet(jobs') = ToSet(jobs) \ js, UNCHANGED <<files, revived, up, worker>>
      PROVE  NamesInv'
  <2>1. \A v \in Uploads : (Owner(v)' => Owner(v)) /\ (Seeking(v)' => Seeking(v)) /\ FileOf(v)' = FileOf(v)
    BY <1>r DEF Owner, Seeking, FileOf, Made
  <2>2. \A d, n : Stray(d, n) => Stray(d, n)'
    BY <1>r DEF Stray, JobRemoved, Job
  <2>. QED
    BY <1>r, <2>1, <2>2, <1>k
<1>0. UNCHANGED <<up, jobs, files, revived, worker>> => NamesInv'
  BY DEF NamesInv, Owner, Seeking, FileOf, Made, Stray, Job, JobRemoved
<1>1. ASSUME NEW u \in Uploads, NEW d \in Devices, NEW c \in Contents, StartUpload(u, d, c)
      PROVE  NamesInv'
  <2>1. /\ \A v \in Uploads \ {u} : up'[v] = up[v]
        /\ up[u].at \notin JobSteps
        /\ \/ up'[u].at \notin Placing \cup Adoptive
           \/ /\ up[u].at \in Placing \/ (up[u].at = "moved" /\ up'[u].at = "hashed")
              /\ up'[u].at \in Placing \cup Adoptive /\ up'[u].dev = up[u].dev /\ up'[u].name = up[u].name
    BY <1>1, UploadStarts DEF StartUpload, GoTo, MediaTypeOK, Requesting, JobSteps, Placing,
       Adoptive
  <2>. QED
    BY <1>1, <2>1, <1>m DEF StartUpload
<1>2. ASSUME NEW u \in Uploads, Claim(u) PROVE NamesInv'
  <2>1. /\ \A v \in Uploads \ {u} : up'[v] = up[v]
        /\ up[u].at = "started"
        /\ \/ up'[u].at = "done"
           \/ /\ up'[u].at = "claimed" /\ up'[u].dev = up[u].dev
              /\ up'[u].name \in Names \ Taken(up[u].dev)
    BY <1>2, UploadClaims DEF MediaTypeOK
  <2>2. UNCHANGED <<files, revived, jobs, worker>>
    BY <1>2 DEF Claim
  <2>3. CASE up'[u].at = "done"
    BY <1>2, <2>1, <2>3, <1>m DEF Claim, JobSteps, Placing, Adoptive
  <2>4. CASE up'[u].at = "claimed"
    <3>1. up[u].dev \in Devices /\ up'[u].dev = up[u].dev /\ up'[u].name \in Names
      BY <2>1, <2>4 DEF UploadInv, Requesting
    <3>2. files[up[u].dev][up'[u].name] = Nothing
      BY <2>1, <2>4, <3>1 DEF Taken, OnDisk
    <3>3. \A v \in Uploads \ {u} : Owner(v) /\ up[v].dev = up[u].dev => up[v].name # up'[u].name
      BY <2>1, <2>4 DEF Taken, Owner, Placing, Adoptive, Claiming
    <3>4. u \notin ToSet(jobs) /\ worker.job # u
      BY <2>1, <1>a DEF QueueInv, JobSteps
    <3>5. \A v \in Uploads \ {u} : /\ Owner(v)' <=> Owner(v)
                                   /\ Seeking(v)' <=> Seeking(v)
                                   /\ FileOf(v)' = FileOf(v)
      BY <2>1, <2>2 DEF Owner, Seeking, FileOf, Made
    <3>6. FileOf(u)' = Nothing
      BY <2>2, <3>1, <3>2 DEF FileOf
    <3>7. \A d, n : Stray(d, n) => Stray(d, n)'
      BY <2>1, <2>2, <3>4, <1>a DEF Stray, Job, JobRemoved, QueueInv, AtJob
    <3>. QED
      BY <2>1, <3>1, <3>3, <3>5, <3>6, <3>7 DEF NamesInv
  <2>. QED
    BY <2>1, <2>3, <2>4
<1>3. ASSUME NEW u \in Uploads, Receive(u) PROVE NamesInv'
  <2>1. /\ \A v \in Uploads \ {u} : up'[v] = up[v]
        /\ up[u].at \notin JobSteps
        /\ \/ up'[u].at \notin Placing \cup Adoptive
           \/ /\ up[u].at \in Placing \/ (up[u].at = "moved" /\ up'[u].at = "hashed")
              /\ up'[u].at \in Placing \cup Adoptive /\ up'[u].dev = up[u].dev /\ up'[u].name = up[u].name
    BY <1>3, UploadGoes, UploadDone DEF Receive, GoTo, MediaTypeOK, Requesting, JobSteps,
       Placing, Adoptive
  <2>. QED
    BY <1>3, <2>1, <1>m DEF Receive
<1>4. ASSUME NEW u \in Uploads, ReuseResult(u) PROVE NamesInv'
  <2>1. /\ \A v \in Uploads : /\ up'[v].dev = up[v].dev /\ up'[v].name = up[v].name
                              /\ v # u => up'[v].at = up[v].at
        /\ up[u].at = "received" /\ up'[u].at = "landed" /\ UNCHANGED <<jobs, worker>>
    BY <1>4, UploadGoes DEF ReuseResult, MediaTypeOK, Requesting
  <2>2. /\ up[u].dev \in Devices /\ up[u].name \in Names /\ Result(up[u].content) \in Contents \cup {Nothing}
        /\ u \notin ToSet(jobs) /\ Owner(u)
    BY <2>1 DEF UploadInv, QueueInv, Requesting, Placing, JobSteps, Owner, Result, Copy,
       MediaTypeOK, CacheTypeOK
  <2>3. /\ \A e \in Devices, m \in Names :
             files'[e][m] = IF e = up[u].dev /\ m = up[u].name THEN Result(up[u].content) ELSE files[e][m]
        /\ revived' = revived \ {<<up[u].dev, up[u].name>>}
    BY <1>4, <2>2, FilePut DEF ReuseResult, MediaTypeOK, CacheTypeOK
  <2>4. \A v \in Uploads : /\ Owner(v)' => Owner(v)
                           /\ Seeking(v)' => Seeking(v) /\ v # u
    BY <2>1, <2>2 DEF Owner, Seeking, Made, Placing, Adoptive
  <2>5. \A v \in Uploads : Seeking(v) /\ v # u => ~(up[v].dev = up[u].dev /\ up[v].name = up[u].name)
    BY <2>2, <1>s DEF NamesInv
  <2>6. \A v \in Uploads : Seeking(v) /\ v # u => FileOf(v)' = FileOf(v)
    BY <2>1, <2>2, <2>3, <2>5, <1>b DEF FileOf
  <2>7. \A v \in Uploads : Seeking(v) /\ v # u /\ Stray(up[v].dev, up[v].name)
                           => Stray(up[v].dev, up[v].name)'
    BY <2>1, <2>2, <2>3, <2>5, <1>a, <1>b DEF Stray, Job, JobRemoved, QueueInv, AtJob
  <2>. QED
    BY <2>1, <2>4, <2>6, <2>7, <1>k
<1>5. ASSUME NEW u \in Uploads, AddJob(u) PROVE NamesInv'
  <2>1. /\ \A v \in Uploads : /\ up'[v].dev = up[v].dev /\ up'[v].name = up[v].name
                              /\ v # u => up'[v].at = up[v].at
        /\ up[u].at = "received" /\ up'[u].at = "added"
        /\ ToSet(jobs') = ToSet(jobs) \cup {u}
    BY <1>5, UploadGoes, AppendAdds DEF AddJob, MediaTypeOK, Requesting
  <2>2. UNCHANGED <<files, revived, worker>> /\ worker.job # u
    BY <1>5, <2>1, <1>a DEF AddJob, QueueInv, JobSteps
  <2>3. \A v \in Uploads : /\ Owner(v)' => Owner(v)
                           /\ Seeking(v)' => Seeking(v)
                           /\ FileOf(v)' = FileOf(v)
    BY <2>1, <2>2 DEF Owner, Seeking, Made, FileOf, Placing, Adoptive
  <2>4. \A d, n : Stray(d, n) => Stray(d, n)'
    BY <2>1, <2>2, <1>a DEF Stray, Job, JobRemoved, QueueInv, AtJob
  <2>. QED
    BY <2>1, <2>3, <2>4, <1>k
<1>6. ASSUME NEW u \in Uploads, SendToken(u) PROVE NamesInv'
  <2>1. /\ \A v \in Uploads : /\ up'[v].dev = up[v].dev /\ up'[v].name = up[v].name
                              /\ v # u => up'[v].at = up[v].at
        /\ up[u].at = "added" /\ up'[u].at = "queued"
        /\ UNCHANGED <<files, revived, jobs, worker>>
    BY <1>6, UploadGoes DEF SendToken, MediaTypeOK, Requesting
  <2>2. \A v \in Uploads : /\ Owner(v)' => Owner(v)
                           /\ Seeking(v)' => Seeking(v)
                           /\ FileOf(v)' = FileOf(v)
    BY <2>1 DEF Owner, Seeking, Made, FileOf, Placing, Adoptive
  <2>3. \A d, n : Stray(d, n) => Stray(d, n)'
    BY <2>1, <1>a DEF Stray, Job, JobRemoved, QueueInv, AtJob
  <2>. QED
    BY <2>1, <2>2, <2>3, <1>k
<1>7. ASSUME NEW u \in Uploads, CheckImage(u) PROVE NamesInv'
  <2>1. up[u].at = "received" /\ (GoTo(u, "moving") \/ Done(u)) /\ UNCHANGED <<files, revived, jobVars>>
    BY <1>7 DEF CheckImage
  <2>2. CASE GoTo(u, "moving")
    <3>1. \A v \in Uploads \ {u} : up'[v] = up[v]
      BY <2>2 DEF GoTo, MediaTypeOK
    <3>2. up'[u].at = "moving" /\ up'[u].dev = up[u].dev /\ up'[u].name = up[u].name
      BY <2>2, UploadGoes DEF MediaTypeOK, Requesting
    <3>. QED
      BY <2>1, <3>1, <3>2, <1>m DEF JobSteps, Placing
  <2>3. CASE Done(u)
    BY <2>1, <2>3, UploadDone, <1>m DEF MediaTypeOK, JobSteps, Placing, Adoptive
  <2>. QED
    BY <2>1, <2>2, <2>3
<1>8. ASSUME NEW u \in Uploads, MoveImage(u) PROVE NamesInv'
  <2>a. CASE up[u].dev \in dirs
    <3>1. /\ \A v \in Uploads : /\ up'[v].dev = up[v].dev /\ up'[v].name = up[v].name
                                /\ v # u => up'[v].at = up[v].at
          /\ up[u].at = "moving" /\ up'[u].at = "moved" /\ UNCHANGED <<jobs, worker>>
      BY <1>8, <2>a, UploadGoes DEF MoveImage, MediaTypeOK, Requesting
    <3>2. /\ up[u].dev \in Devices /\ up[u].name \in Names /\ up[u].content \in Contents \cup {Nothing}
          /\ u \notin ToSet(jobs) /\ Owner(u)
      BY <3>1 DEF UploadInv, QueueInv, Requesting, Placing, JobSteps, Owner, Result, Copy,
         MediaTypeOK, CacheTypeOK
    <3>3. /\ \A e \in Devices, m \in Names :
               files'[e][m] = IF e = up[u].dev /\ m = up[u].name THEN up[u].content ELSE files[e][m]
          /\ revived' = revived \ {<<up[u].dev, up[u].name>>}
      BY <1>8, <2>a, <3>2, FilePut DEF MoveImage, MediaTypeOK, CacheTypeOK
    <3>4. \A v \in Uploads : /\ Owner(v)' => Owner(v)
                             /\ Seeking(v)' => Seeking(v) /\ v # u
      BY <3>1, <3>2 DEF Owner, Seeking, Made, Placing, Adoptive
    <3>5. \A v \in Uploads : Seeking(v) /\ v # u => ~(up[v].dev = up[u].dev /\ up[v].name = up[u].name)
      BY <3>2, <1>s DEF NamesInv
    <3>6. \A v \in Uploads : Seeking(v) /\ v # u => FileOf(v)' = FileOf(v)
      BY <3>1, <3>2, <3>3, <3>5, <1>b DEF FileOf
    <3>7. \A v \in Uploads : Seeking(v) /\ v # u /\ Stray(up[v].dev, up[v].name)
                             => Stray(up[v].dev, up[v].name)'
      BY <3>1, <3>2, <3>3, <3>5, <1>a, <1>b DEF Stray, Job, JobRemoved, QueueInv, AtJob
    <3>. QED
      BY <3>1, <3>4, <3>6, <3>7, <1>k
  <2>b. CASE up[u].dev \notin dirs
    <3>1. /\ \A v \in Uploads \ {u} : up'[v] = up[v]
          /\ up[u].at = "moving" /\ up'[u].at = "done"
      BY <1>8, <2>b, UploadDone DEF MoveImage, MediaTypeOK
    <3>. QED
      BY <1>8, <2>b, <3>1, <1>m DEF MoveImage, JobSteps, Placing, Adoptive
  <2>. QED
    BY <2>a, <2>b
<1>9. ASSUME NEW u \in Uploads, HashImage(u) PROVE NamesInv'
  <2>1. /\ \A v \in Uploads \ {u} : up'[v] = up[v]
        /\ up[u].at \notin JobSteps
        /\ \/ up'[u].at \notin Placing \cup Adoptive
           \/ /\ up[u].at \in Placing \/ (up[u].at = "moved" /\ up'[u].at = "hashed")
              /\ up'[u].at \in Placing \cup Adoptive /\ up'[u].dev = up[u].dev /\ up'[u].name = up[u].name
    BY <1>9, UploadGoes DEF HashImage, GoTo, MediaTypeOK, Requesting, JobSteps, Placing,
       Adoptive
  <2>. QED
    BY <1>9, <2>1, <1>m DEF HashImage
<1>10. ASSUME NEW u \in Uploads, LinkImage(u) PROVE NamesInv'
  <2>1. up[u].dev \in Devices /\ up[u].name \in Names /\ hashed[u] \in Contents
    BY <1>10, ImageAdopts DEF LinkImage
  <2>2. Adopt(up[u].dev, up[u].name, hashed[u], {up[u].content})
    BY <1>10 DEF LinkImage
  <2>3. /\ \A e \in Devices, m \in Names : files'[e][m] # files[e][m] => <<e, m>> \in revived'
        /\ revived \subseteq revived'
    BY <2>1, <2>2, AdoptMarks DEF MediaTypeOK
  <2>4. /\ \A v \in Uploads : /\ up'[v].dev = up[v].dev /\ up'[v].name = up[v].name
                              /\ v # u => up'[v].at = up[v].at
        /\ up[u].at = "hashed" /\ up'[u].at = "landed" /\ UNCHANGED <<jobs, worker>>
    BY <1>10, UploadGoes DEF LinkImage, MediaTypeOK, Requesting
  <2>5. \A v \in Uploads : /\ Owner(v)' => Owner(v)
                           /\ Seeking(v)' => Seeking(v)
    BY <2>4 DEF Owner, Seeking, Made, Placing, Adoptive
  <2>. QED
    BY <2>3, <2>4, <2>5, <1>c
<1>11. ASSUME NEW u \in Uploads, AnswerUpload(u) PROVE NamesInv'
  <2>1. /\ \A v \in Uploads \ {u} : up'[v] = up[v]
        /\ up[u].at \notin JobSteps
        /\ \/ up'[u].at \notin Placing \cup Adoptive
           \/ /\ up[u].at \in Placing \/ (up[u].at = "moved" /\ up'[u].at = "hashed")
              /\ up'[u].at \in Placing \cup Adoptive /\ up'[u].dev = up[u].dev /\ up'[u].name = up[u].name
    BY <1>11, UploadDone DEF AnswerUpload, GoTo, MediaTypeOK, Requesting, JobSteps, Placing,
       Adoptive
  <2>. QED
    BY <1>11, <2>1, <1>m DEF AnswerUpload
<1>12. CASE NextJob
  <2>1. /\ UNCHANGED <<up, files, revived, jobs>>
        /\ worker.at # "produced" \/ ~JobRemoved
        /\ \A v \in Uploads : Made(v) => Made(v)'
    BY <1>12, <1>a DEF NextJob, Made, QueueInv, AtJob
  <2>. QED
    BY <2>1, <1>w
<1>13. CASE Sleep
  <2>1. /\ UNCHANGED <<up, files, revived, jobs>>
        /\ worker.at # "produced" \/ ~JobRemoved
        /\ \A v \in Uploads : Made(v) => Made(v)'
    BY <1>13, <1>a DEF Sleep, Made, QueueInv, AtJob
  <2>. QED
    BY <2>1, <1>w
<1>14. CASE WakeUp
  <2>1. /\ UNCHANGED <<up, files, revived, jobs>>
        /\ worker.at # "produced" \/ ~JobRemoved
        /\ \A v \in Uploads : Made(v) => Made(v)'
    BY <1>14, <1>a DEF WakeUp, Made, QueueInv, AtJob, NoWork
  <2>. QED
    BY <2>1, <1>w
<1>15. CASE BeginJob
  <2>1. /\ UNCHANGED <<up, files, revived, jobs>>
        /\ worker.at # "produced" \/ ~JobRemoved
        /\ \A v \in Uploads : Made(v) => Made(v)'
    BY <1>15, <1>a DEF BeginJob, Made, QueueInv, AtJob
  <2>. QED
    BY <2>1, <1>w
<1>16. CASE Work
  <2>1. /\ worker.at = "work" /\ UNCHANGED <<up, jobs>>
        /\ worker.job \in Uploads /\ worker.job # NoJob /\ worker'.job = worker.job
        /\ Job.dev \in Devices /\ Job.name \in Names /\ Job.content \in Contents
    BY <1>16, <1>a, JobIsUpload DEF Work, QueueInv, AtJob
  <2>2. CASE worker'.at = "broken"
    <3>1. UNCHANGED <<files, revived>>
      BY <1>16, <2>2, <1>a DEF Work
    <3>. QED
      BY <2>1, <2>2, <3>1, <1>w DEF Made
  <2>3. CASE worker'.at # "broken"
    <3>1. worker'.at = "produced" /\ Put(Job.dev, Job.name, Job.content)
      BY <1>16, <1>a, <2>3 DEF Work
    <3>2. /\ \A e \in Devices, m \in Names :
               files'[e][m] = IF e = Job.dev /\ m = Job.name THEN Job.content ELSE files[e][m]
          /\ revived' = revived \ {<<Job.dev, Job.name>>}
      BY <2>1, <3>1, FilePut DEF MediaTypeOK, CacheTypeOK
    <3>3. \A v \in Uploads : /\ Owner(v)' => Owner(v)
                             /\ Seeking(v)' => Seeking(v) /\ (v # worker.job \/ JobRemoved)
      BY <2>1, <3>1 DEF Owner, Seeking, Made, JobRemoved, QueueInv, Placing, JobSteps
    <3>4. \A v \in Uploads : Seeking(v) /\ (v # worker.job \/ JobRemoved) =>
             JobRemoved \/ ~(up[v].dev = Job.dev /\ up[v].name = Job.name)
      BY <2>1, <1>s DEF NamesInv, Owner, JobRemoved, Job
    <3>5. ~JobRemoved => \A v \in Uploads : Seeking(v) /\ v # worker.job =>
             FileOf(v)' = FileOf(v) /\ (Stray(up[v].dev, up[v].name) => Stray(up[v].dev, up[v].name)')
      BY <2>1, <3>2, <3>4, <1>b DEF FileOf, Stray
    <3>6. JobRemoved => \A v \in Uploads : Seeking(v) =>
             \/ Stray(up[v].dev, up[v].name)'
             \/ FileOf(v)' = FileOf(v) /\ (Stray(up[v].dev, up[v].name) => Stray(up[v].dev, up[v].name)')
      BY <2>1, <3>1, <3>2, <1>b DEF FileOf, Stray, JobRemoved, Job
    <3>. QED
      BY <2>1, <3>3, <3>5, <3>6, <1>k
  <2>. QED
    BY <2>2, <2>3
<1>17. CASE Discard
  <2>1. /\ worker.at \in {"produced", "broken"} /\ worker'.at = "look" /\ worker'.job = NoJob
        /\ JobRemoved /\ UNCHANGED <<up, jobs>>
        /\ worker.job \in Uploads /\ Job.dev \in Devices /\ Job.name \in Names
    BY <1>17, <1>a, JobIsUpload DEF Discard, NoWork, QueueInv, AtJob
  <2>2. /\ \A e \in Devices, m \in Names :
             files'[e][m] = IF e = Job.dev /\ m = Job.name THEN Nothing ELSE files[e][m]
        /\ revived' = revived \ {<<Job.dev, Job.name>>}
    BY <1>17, <2>1, FilePut DEF Discard, MediaTypeOK, CacheTypeOK
  <2>3. \A v \in Uploads : /\ Owner(v)' => Owner(v)
                           /\ Seeking(v)' => Seeking(v)
    BY <2>1 DEF Owner, Seeking, Made, JobRemoved
  <2>4. \A v \in Uploads : Seeking(v) =>
           \/ FileOf(v)' = Nothing
           \/ FileOf(v)' = FileOf(v) /\ (Stray(up[v].dev, up[v].name) => Stray(up[v].dev, up[v].name)')
    BY <2>1, <2>2, <1>b DEF FileOf, Stray
  <2>. QED
    BY <2>1, <2>3, <2>4, <1>k
<1>18. CASE FailJob
  <2>1. /\ UNCHANGED <<up, files, revived, jobs>>
        /\ worker.at # "produced" \/ ~JobRemoved
        /\ \A v \in Uploads : Made(v) => Made(v)'
    BY <1>18, <1>a DEF FailJob, Made, QueueInv, AtJob, NoWork
  <2>. QED
    BY <2>1, <1>w
<1>19. CASE KeepProduct
  <2>1. /\ UNCHANGED <<up, files, revived, jobs>>
        /\ worker.at # "produced" \/ ~JobRemoved
        /\ \A v \in Uploads : Made(v) => Made(v)'
    BY <1>19, <1>a DEF KeepProduct, Made, QueueInv, AtJob
  <2>. QED
    BY <2>1, <1>w
<1>20. CASE HashProduct
  <2>1. /\ UNCHANGED <<up, files, revived, jobs>>
        /\ worker.at # "produced" \/ ~JobRemoved
        /\ \A v \in Uploads : Made(v) => Made(v)'
    BY <1>20, <1>a DEF HashProduct, Made, QueueInv, AtJob
  <2>. QED
    BY <2>1, <1>w
<1>21. CASE LinkProduct
  <2>1. Job.dev \in Devices /\ Job.name \in Names /\ hashed[worker.job] \in Contents
    BY <1>21, ProductAdopts DEF LinkProduct
  <2>2. Adopt(Job.dev, Job.name, hashed[worker.job], {Job.content})
    BY <1>21 DEF LinkProduct
  <2>3. /\ \A e \in Devices, m \in Names : files'[e][m] # files[e][m] => <<e, m>> \in revived'
        /\ revived \subseteq revived'
    BY <2>1, <2>2, AdoptMarks DEF MediaTypeOK
  <2>4. /\ UNCHANGED <<up, jobs>>
        /\ worker.at = "hashed" /\ worker'.at = "append" /\ worker'.job = worker.job
    BY <1>21, <1>a DEF LinkProduct
  <2>5. \A v \in Uploads : /\ Owner(v)' => Owner(v)
                           /\ Seeking(v)' => Seeking(v)
    BY <2>4 DEF Owner, Seeking, Made
  <2>. QED
    BY <2>3, <2>4, <2>5, <1>c
<1>22. CASE FinishJob
  <2>1. ToSet(jobs') = ToSet(jobs) \ {worker.job} /\ UNCHANGED <<up, files, revived>>
    BY <1>22, WithoutLeaves DEF FinishJob, MediaTypeOK
  <2>2. worker.at = "append" /\ \A v \in Uploads : Made(v) => v = worker.job
    BY <1>22 DEF FinishJob, Made
  <2>. QED
    BY <2>1, <2>2, <1>w
<1>23. ASSUME NEW d \in Devices, DeleteDevice(d) \/ Register(d) PROVE NamesInv'
  BY <1>0, <1>23 DEF DeleteDevice, Register
<1>24. ASSUME NEW d \in Devices, NEW n \in Names, DeleteMedia(d, n) PROVE NamesInv'
  <2>1. ToSet(jobs') = ToSet(jobs) \ {j \in JobsOf(d) : up[j].name = n} /\ UNCHANGED <<up, files, revived, worker>>
    BY <1>24, WithoutLeaves DEF DeleteMedia, RemoveJobs, MediaTypeOK
  <2>. QED
    BY <2>1, <1>r
<1>25. ASSUME NEW d \in Devices, NEW order, Reorder(d, order) PROVE NamesInv'
  BY <1>0, <1>25 DEF Reorder
<1>26. CASE TidyPlaylist
  BY <1>0, <1>26 DEF TidyPlaylist
<1>27. CASE UnlinkMedia
  <2>1. \A e \in Devices, m \in Names :
          \/ files'[e][m] = Nothing
          \/ files'[e][m] = files[e][m] /\ (<<e, m>> \in revived => <<e, m>> \in revived')
    BY <1>27, FilePut DEF UnlinkMedia, UploadInv, MediaTypeOK, CacheTypeOK
  <2>2. UNCHANGED <<up, jobs, worker>>
    BY <1>27 DEF UnlinkMedia
  <2>3. \A v \in Uploads : Seeking(v) =>
           \/ FileOf(v)' = Nothing
           \/ FileOf(v)' = FileOf(v) /\ (Stray(up[v].dev, up[v].name) => Stray(up[v].dev, up[v].name)')
    BY <2>1, <2>2, <1>b DEF FileOf, Stray, Job, JobRemoved
  <2>. QED
    BY <2>2, <2>3, <1>k DEF Owner, Seeking, Made
<1>28. CASE RemoveDeviceJobs
  <2>1. ToSet(jobs') = ToSet(jobs) \ JobsOf(operator.dev) /\ UNCHANGED <<up, files, revived, worker>>
    BY <1>28, WithoutLeaves DEF RemoveDeviceJobs, RemoveJobs, MediaTypeOK
  <2>. QED
    BY <2>1, <1>r
<1>29. CASE EraseDevice
  <2>1. \A e \in Devices, m \in Names :
          \/ files'[e][m] = Nothing
          \/ files'[e][m] = files[e][m] /\ (<<e, m>> \in revived => <<e, m>> \in revived')
    BY <1>29 DEF EraseDevice, MediaTypeOK, CacheTypeOK
  <2>2. UNCHANGED <<up, jobs, worker>>
    BY <1>29 DEF EraseDevice
  <2>3. \A v \in Uploads : Seeking(v) =>
           \/ FileOf(v)' = Nothing
           \/ FileOf(v)' = FileOf(v) /\ (Stray(up[v].dev, up[v].name) => Stray(up[v].dev, up[v].name)')
    BY <2>1, <2>2, <1>b DEF FileOf, Stray, Job, JobRemoved
  <2>. QED
    BY <2>2, <2>3, <1>k DEF Owner, Seeking, Made
<1>30. ASSUME NEW q \in {Nothing} \cup (Quotas \ {quota}), BeginClean(q), OnlyCache
       PROVE  NamesInv'
  BY <1>0, <1>30 DEF BeginClean
<1>31. ASSUME NEW d \in Devices, ListDevice(d), OnlyCache PROVE NamesInv'
  BY <1>0, <1>31 DEF ListDevice
<1>32. ASSUME NEW n \in Names, LookAt(n) \/ HashUnknown(n), OnlyCache PROVE NamesInv'
  BY <1>0, <1>32 DEF LookAt, HashUnknown
<1>33. ASSUME NEW n \in Names, LinkUnknown(n), OnlyCache PROVE NamesInv'
  <2>1. scan.dev \in Devices /\ n \in Names /\ scan.hash \in Contents
    BY <1>33, CleanAdopts DEF LinkUnknown
  <2>2. Adopt(scan.dev, n, scan.hash, {})
    BY <1>33 DEF LinkUnknown
  <2>3. /\ \A e \in Devices, m \in Names : files'[e][m] # files[e][m] => <<e, m>> \in revived'
        /\ revived \subseteq revived'
    BY <2>1, <2>2, AdoptMarks DEF MediaTypeOK
  <2>4. UNCHANGED <<up, jobs, worker>>
    BY <1>33 DEF OnlyCache
  <2>5. \A v \in Uploads : /\ Owner(v)' => Owner(v)
                           /\ Seeking(v)' => Seeking(v)
    BY <2>4 DEF Owner, Seeking, Made
  <2>. QED
    BY <2>3, <2>4, <2>5, <1>c
<1>34. ASSUME FinishClean \/ SetQuota, OnlyCache PROVE NamesInv'
  BY <1>0, <1>34 DEF FinishClean, SetQuota
<1>35. CASE RestartServer
  <2>1. \A v \in Uploads : up'[v].at \in {"new", "done"}
    BY <1>35, UploadsEnd DEF MediaTypeOK
  <2>2. \A v \in Uploads : ~Owner(v)' /\ ~Seeking(v)'
    BY <1>35, <2>1, EmptyQueue DEF RestartServer, Owner, Seeking, Placing, Adoptive
  <2>. QED
    BY <2>2 DEF NamesInv
<1>36. CASE UNCHANGED mediaVars
  BY <1>0, <1>36
<1>. QED
  BY <1>1, <1>2, <1>3, <1>4, <1>5, <1>6, <1>7, <1>8, <1>9, <1>10, <1>11, <1>12, <1>13, <1>14,
     <1>15, <1>16, <1>17, <1>18, <1>19, <1>20, <1>21, <1>22, <1>23, <1>24, <1>25, <1>26,
     <1>27, <1>28, <1>29, <1>30, <1>31, <1>32, <1>33, <1>34, <1>35, <1>36 DEF MediaNext,
     Upload, RunJobs, Operate, CleanCache, Clean, OnlyCache

(* Nothing comes back to a device that was deleted.                        *)
LEMMA NextGoneInv ==
  ASSUME MediaTypeOK, UploadInv, HashInv, QueueInv, DiskInv, GoneInv, [MediaNext]_mediaVars
  PROVE  GoneInv'
<1>a. /\ ToSet(jobs) \subseteq Uploads
      /\ worker = [at |-> worker.at, job |-> worker.job]
      /\ worker.at \in AtJob => worker.job \in Uploads
      /\ NoJob \notin Uploads
      /\ worker.at \in {"produced", "work", "taken", "hashed"} => worker.job \in Uploads
  BY JobsAreUploads DEF MediaTypeOK, WorkerRecord, NoJob, Uploads, QueueInv, AtJob
<1>b. scan.name = Nothing => scan.hash = Nothing
  BY DEF DiskInv
<1>c. ASSUME OnlyCache, scan'.hash = Nothing, UNCHANGED <<files, dirs>>
      PROVE  GoneInv'
  BY <1>c DEF GoneInv, Gone, JobsOf, OnDisk, Job
<1>u. ASSUME NEW u \in Uploads, up[u].at \in Requesting,
             \A v \in Uploads \ {u} : up'[v].dev = up[v].dev /\ up'[v].at = up[v].at,
             up'[u].dev \in {up[u].dev, Nothing},
             ToSet(jobs') \subseteq ToSet(jobs) \cup {u},
             \A e \in Devices, m \in Names : e # up[u].dev => files'[e][m] = files[e][m],
             incoming' \subseteq incoming \cup {u}, dirs' \subseteq dirs \cup {up[u].dev},
             \A v \in Uploads \ {u} : hashed'[v] = hashed[v],
             UNCHANGED <<registered, late, operator, worker, scan>>
      PROVE  GoneInv'
  <2>1. ASSUME NEW d \in Devices \ (registered \cup late) PROVE Gone(d)'
    <3>1. Gone(d) /\ up[u].dev # d /\ up'[u].dev # d
      BY <1>u, <2>1, CacheAssumption DEF GoneInv, Gone
    <3>2. \A v \in Uploads : up'[v].dev = d => v # u /\ up[v].dev = d /\ up'[v].at = up[v].at /\ hashed'[v] = hashed[v]
      BY <1>u, <3>1
    <3>3. JobsOf(d)' \subseteq JobsOf(d)
      BY <1>a, <1>u, <3>1, <3>2 DEF JobsOf
    <3>4. OnDisk(d)' = OnDisk(d) /\ (d \in dirs' => d \in dirs)
      BY <1>u, <3>1 DEF OnDisk
    <3>5. worker.at \in {"work", "hashed"} /\ Job.dev' = d =>
             /\ Job.dev = d /\ hashed'[worker.job] = hashed[worker.job]
             /\ worker.job \in incoming' => worker.job \in incoming
      BY <1>a, <1>u, <3>2 DEF Job
    <3>. QED
      BY <1>u, <3>1, <3>2, <3>3, <3>4, <3>5 DEF Gone
  <2>. QED
    BY <1>u, <2>1 DEF GoneInv
<1>0. UNCHANGED <<registered, late, operator, up, hashed, worker, jobs, incoming, dirs, files, scan>> => GoneInv'
  BY DEF GoneInv, Gone, JobsOf, OnDisk, Job
<1>1. ASSUME NEW u \in Uploads, NEW d \in Devices, NEW c \in Contents, StartUpload(u, d, c)
      PROVE  GoneInv'
  <2>1. /\ \A v \in Uploads \ {u} : up'[v] = up[v]
        /\ up[u].at = "new" /\ up'[u].dev = d
    BY <1>1, UploadStarts DEF MediaTypeOK
  <2>2. /\ UNCHANGED <<registered, late, operator, worker, files, jobs, incoming, hashed, scan>>
        /\ d \in registered /\ dirs' = dirs \cup {d}
    BY <1>1 DEF StartUpload
  <2>3. u \notin ToSet(jobs) /\ worker.job # u
    BY <1>a, <2>1 DEF QueueInv, JobSteps
  <2>. QED
    BY <1>a, <2>1, <2>2, <2>3 DEF GoneInv, Gone, JobsOf, OnDisk, Job
<1>2. ASSUME NEW u \in Uploads, Claim(u) PROVE GoneInv'
  <2>1. /\ up[u].at \in Requesting
        /\ \A v \in Uploads \ {u} : up'[v].dev = up[v].dev /\ up'[v].at = up[v].at
        /\ up'[u].dev \in {up[u].dev, Nothing}
    BY <1>2, UploadClaims DEF Claim, MediaTypeOK, Requesting
  <2>2. ToSet(jobs') \subseteq ToSet(jobs) \cup {u}
    BY <1>2 DEF Claim, MediaTypeOK
  <2>3. \A e \in Devices, m \in Names : e # up[u].dev => files'[e][m] = files[e][m]
    BY <1>2 DEF Claim, Put, MediaTypeOK, CacheTypeOK
  <2>4. /\ incoming' \subseteq incoming \cup {u} /\ dirs' \subseteq dirs \cup {up[u].dev}
        /\ UNCHANGED <<registered, late, operator, worker, scan>>
    BY <1>2 DEF Claim
  <2>5. \A v \in Uploads \ {u} : hashed'[v] = hashed[v]
    BY <1>2 DEF Claim, MediaTypeOK
  <2>. QED
    BY <1>u, <2>1, <2>2, <2>3, <2>4, <2>5
<1>3. ASSUME NEW u \in Uploads, Receive(u) PROVE GoneInv'
  <2>1. /\ up[u].at \in Requesting
        /\ \A v \in Uploads \ {u} : up'[v].dev = up[v].dev /\ up'[v].at = up[v].at
        /\ up'[u].dev \in {up[u].dev, Nothing}
    BY <1>3, UploadGoes, UploadDone DEF Receive, MediaTypeOK, Requesting
  <2>2. ToSet(jobs') \subseteq ToSet(jobs) \cup {u}
    BY <1>3 DEF Receive, MediaTypeOK
  <2>3. \A e \in Devices, m \in Names : e # up[u].dev => files'[e][m] = files[e][m]
    BY <1>3 DEF Receive, Put, MediaTypeOK, CacheTypeOK
  <2>4. /\ incoming' \subseteq incoming \cup {u} /\ dirs' \subseteq dirs \cup {up[u].dev}
        /\ UNCHANGED <<registered, late, operator, worker, scan>>
    BY <1>3 DEF Receive
  <2>5. \A v \in Uploads \ {u} : hashed'[v] = hashed[v]
    BY <1>3 DEF Receive, MediaTypeOK
  <2>. QED
    BY <1>u, <2>1, <2>2, <2>3, <2>4, <2>5
<1>4. ASSUME NEW u \in Uploads, ReuseResult(u) PROVE GoneInv'
  <2>1. /\ up[u].at \in Requesting
        /\ \A v \in Uploads \ {u} : up'[v].dev = up[v].dev /\ up'[v].at = up[v].at
        /\ up'[u].dev \in {up[u].dev, Nothing}
    BY <1>4, UploadGoes DEF ReuseResult, MediaTypeOK, Requesting
  <2>2. ToSet(jobs') \subseteq ToSet(jobs) \cup {u}
    BY <1>4 DEF ReuseResult, MediaTypeOK
  <2>3. \A e \in Devices, m \in Names : e # up[u].dev => files'[e][m] = files[e][m]
    BY <1>4 DEF ReuseResult, Put, MediaTypeOK, CacheTypeOK
  <2>4. /\ incoming' \subseteq incoming \cup {u} /\ dirs' \subseteq dirs \cup {up[u].dev}
        /\ UNCHANGED <<registered, late, operator, worker, scan>>
    BY <1>4 DEF ReuseResult
  <2>5. \A v \in Uploads \ {u} : hashed'[v] = hashed[v]
    BY <1>4 DEF ReuseResult, MediaTypeOK
  <2>. QED
    BY <1>u, <2>1, <2>2, <2>3, <2>4, <2>5
<1>5. ASSUME NEW u \in Uploads, AddJob(u) PROVE GoneInv'
  <2>1. /\ up[u].at \in Requesting
        /\ \A v \in Uploads \ {u} : up'[v].dev = up[v].dev /\ up'[v].at = up[v].at
        /\ up'[u].dev \in {up[u].dev, Nothing}
    BY <1>5, UploadGoes DEF AddJob, MediaTypeOK, Requesting
  <2>2. ToSet(jobs') \subseteq ToSet(jobs) \cup {u}
    BY <1>5, AppendAdds DEF AddJob, MediaTypeOK
  <2>3. \A e \in Devices, m \in Names : e # up[u].dev => files'[e][m] = files[e][m]
    BY <1>5 DEF AddJob, Put, MediaTypeOK, CacheTypeOK
  <2>4. /\ incoming' \subseteq incoming \cup {u} /\ dirs' \subseteq dirs \cup {up[u].dev}
        /\ UNCHANGED <<registered, late, operator, worker, scan>>
    BY <1>5 DEF AddJob
  <2>5. \A v \in Uploads \ {u} : hashed'[v] = hashed[v]
    BY <1>5 DEF AddJob, MediaTypeOK
  <2>. QED
    BY <1>u, <2>1, <2>2, <2>3, <2>4, <2>5
<1>6. ASSUME NEW u \in Uploads, SendToken(u) PROVE GoneInv'
  <2>1. /\ up[u].at \in Requesting
        /\ \A v \in Uploads \ {u} : up'[v].dev = up[v].dev /\ up'[v].at = up[v].at
        /\ up'[u].dev \in {up[u].dev, Nothing}
    BY <1>6, UploadGoes DEF SendToken, MediaTypeOK, Requesting
  <2>2. ToSet(jobs') \subseteq ToSet(jobs) \cup {u}
    BY <1>6 DEF SendToken, MediaTypeOK
  <2>3. \A e \in Devices, m \in Names : e # up[u].dev => files'[e][m] = files[e][m]
    BY <1>6 DEF SendToken, Put, MediaTypeOK, CacheTypeOK
  <2>4. /\ incoming' \subseteq incoming \cup {u} /\ dirs' \subseteq dirs \cup {up[u].dev}
        /\ UNCHANGED <<registered, late, operator, worker, scan>>
    BY <1>6 DEF SendToken
  <2>5. \A v \in Uploads \ {u} : hashed'[v] = hashed[v]
    BY <1>6 DEF SendToken, MediaTypeOK
  <2>. QED
    BY <1>u, <2>1, <2>2, <2>3, <2>4, <2>5
<1>7. ASSUME NEW u \in Uploads, CheckImage(u) PROVE GoneInv'
  <2>1. /\ up[u].at \in Requesting
        /\ \A v \in Uploads \ {u} : up'[v].dev = up[v].dev /\ up'[v].at = up[v].at
        /\ up'[u].dev \in {up[u].dev, Nothing}
    BY <1>7, UploadGoes, UploadDone DEF CheckImage, MediaTypeOK, Requesting
  <2>2. ToSet(jobs') \subseteq ToSet(jobs) \cup {u}
    BY <1>7 DEF CheckImage, MediaTypeOK
  <2>3. \A e \in Devices, m \in Names : e # up[u].dev => files'[e][m] = files[e][m]
    BY <1>7 DEF CheckImage, Put, MediaTypeOK, CacheTypeOK
  <2>4. /\ incoming' \subseteq incoming \cup {u} /\ dirs' \subseteq dirs \cup {up[u].dev}
        /\ UNCHANGED <<registered, late, operator, worker, scan>>
    BY <1>7 DEF CheckImage
  <2>5. \A v \in Uploads \ {u} : hashed'[v] = hashed[v]
    BY <1>7 DEF CheckImage, MediaTypeOK
  <2>. QED
    BY <1>u, <2>1, <2>2, <2>3, <2>4, <2>5
<1>8. ASSUME NEW u \in Uploads, MoveImage(u) PROVE GoneInv'
  <2>1. /\ up[u].at \in Requesting
        /\ \A v \in Uploads \ {u} : up'[v].dev = up[v].dev /\ up'[v].at = up[v].at
        /\ up'[u].dev \in {up[u].dev, Nothing}
    BY <1>8, UploadGoes, UploadDone DEF MoveImage, MediaTypeOK, Requesting
  <2>2. ToSet(jobs') \subseteq ToSet(jobs) \cup {u}
    BY <1>8 DEF MoveImage, MediaTypeOK
  <2>3. \A e \in Devices, m \in Names : e # up[u].dev => files'[e][m] = files[e][m]
    BY <1>8 DEF MoveImage, Put, MediaTypeOK, CacheTypeOK
  <2>4. /\ incoming' \subseteq incoming \cup {u} /\ dirs' \subseteq dirs \cup {up[u].dev}
        /\ UNCHANGED <<registered, late, operator, worker, scan>>
    BY <1>8 DEF MoveImage
  <2>5. \A v \in Uploads \ {u} : hashed'[v] = hashed[v]
    BY <1>8 DEF MoveImage, MediaTypeOK
  <2>. QED
    BY <1>u, <2>1, <2>2, <2>3, <2>4, <2>5
<1>9. ASSUME NEW u \in Uploads, HashImage(u) PROVE GoneInv'
  <2>1. /\ up[u].at \in Requesting
        /\ \A v \in Uploads \ {u} : up'[v].dev = up[v].dev /\ up'[v].at = up[v].at
        /\ up'[u].dev \in {up[u].dev, Nothing}
    BY <1>9, UploadGoes DEF HashImage, MediaTypeOK, Requesting
  <2>2. ToSet(jobs') \subseteq ToSet(jobs) \cup {u}
    BY <1>9 DEF HashImage, MediaTypeOK
  <2>3. \A e \in Devices, m \in Names : e # up[u].dev => files'[e][m] = files[e][m]
    BY <1>9 DEF HashImage, Put, MediaTypeOK, CacheTypeOK
  <2>4. /\ incoming' \subseteq incoming \cup {u} /\ dirs' \subseteq dirs \cup {up[u].dev}
        /\ UNCHANGED <<registered, late, operator, worker, scan>>
    BY <1>9 DEF HashImage
  <2>5. \A v \in Uploads \ {u} : hashed'[v] = hashed[v]
    BY <1>9 DEF HashImage, MediaTypeOK
  <2>. QED
    BY <1>u, <2>1, <2>2, <2>3, <2>4, <2>5
<1>10. ASSUME NEW u \in Uploads, LinkImage(u) PROVE GoneInv'
  <2>0. up[u].dev \in Devices /\ up[u].name \in Names /\ hashed[u] \in Contents
    BY <1>10, ImageAdopts DEF LinkImage
  <2>6. Adopt(up[u].dev, up[u].name, hashed[u], {up[u].content})
    BY <1>10 DEF LinkImage
  <2>7. dirs' \subseteq dirs \cup {up[u].dev}
    BY <2>0, <2>6, AdoptMarks DEF MediaTypeOK
  <2>1. /\ up[u].at \in Requesting
        /\ \A v \in Uploads \ {u} : up'[v].dev = up[v].dev /\ up'[v].at = up[v].at
        /\ up'[u].dev \in {up[u].dev, Nothing}
    BY <1>10, UploadGoes DEF LinkImage, MediaTypeOK, Requesting
  <2>2. ToSet(jobs') \subseteq ToSet(jobs) \cup {u}
    BY <1>10 DEF LinkImage, MediaTypeOK
  <2>3. \A e \in Devices, m \in Names : e # up[u].dev => files'[e][m] = files[e][m]
    BY <2>0, <2>6, AdoptMarks DEF MediaTypeOK
  <2>4. /\ incoming' \subseteq incoming \cup {u} /\ dirs' \subseteq dirs \cup {up[u].dev}
        /\ UNCHANGED <<registered, late, operator, worker, scan>>
    BY <1>10, <2>7 DEF LinkImage
  <2>5. \A v \in Uploads \ {u} : hashed'[v] = hashed[v]
    BY <1>10 DEF LinkImage, MediaTypeOK
  <2>. QED
    BY <1>u, <2>1, <2>2, <2>3, <2>4, <2>5
<1>11. ASSUME NEW u \in Uploads, AnswerUpload(u) PROVE GoneInv'
  <2>1. /\ up[u].at \in Requesting
        /\ \A v \in Uploads \ {u} : up'[v].dev = up[v].dev /\ up'[v].at = up[v].at
        /\ up'[u].dev \in {up[u].dev, Nothing}
    BY <1>11, UploadDone DEF AnswerUpload, MediaTypeOK, Requesting
  <2>2. ToSet(jobs') \subseteq ToSet(jobs) \cup {u}
    BY <1>11 DEF AnswerUpload, MediaTypeOK
  <2>3. \A e \in Devices, m \in Names : e # up[u].dev => files'[e][m] = files[e][m]
    BY <1>11 DEF AnswerUpload, Put, MediaTypeOK, CacheTypeOK
  <2>4. /\ incoming' \subseteq incoming \cup {u} /\ dirs' \subseteq dirs \cup {up[u].dev}
        /\ UNCHANGED <<registered, late, operator, worker, scan>>
    BY <1>11 DEF AnswerUpload
  <2>5. \A v \in Uploads \ {u} : hashed'[v] = hashed[v]
    BY <1>11 DEF AnswerUpload, MediaTypeOK
  <2>. QED
    BY <1>u, <2>1, <2>2, <2>3, <2>4, <2>5
<1>12. CASE NextJob
  BY <1>12, <1>a DEF NextJob, GoneInv, Gone, JobsOf, OnDisk, Job
<1>13. CASE Sleep
  BY <1>13, <1>a DEF Sleep, GoneInv, Gone, JobsOf, OnDisk, Job
<1>14. CASE WakeUp
  BY <1>14, <1>a DEF WakeUp, NoWork, GoneInv, Gone, JobsOf, OnDisk, Job
<1>15. CASE BeginJob
  <2>1. worker.at = "taken" /\ worker.job \in Uploads /\ dirs' = dirs \cup {Job.dev} /\ worker'.job = worker.job
        /\ worker'.at = "work" /\ UNCHANGED <<registered, late, operator, up, files, jobs, incoming, hashed, scan>>
    BY <1>15, <1>a DEF BeginJob
  <2>2. JobRemoved => worker.job \notin incoming
    BY <2>1 DEF QueueInv
  <2>. QED
    BY <1>a, <2>1, <2>2 DEF JobRemoved, GoneInv, Gone, JobsOf, OnDisk, Job
<1>16. CASE Work
  <2>1. CASE worker'.at = "broken"
    BY <1>16, <1>a, <2>1 DEF Work, GoneInv, Gone, JobsOf, OnDisk, Job
  <2>2. CASE worker'.at # "broken"
    <3>1. /\ worker.at = "work" /\ worker'.at = "produced" /\ worker.job \in Uploads /\ worker.job \in incoming
          /\ Job.dev \in dirs /\ UNCHANGED <<registered, late, operator, up, jobs, dirs, hashed, scan>>
      BY <1>16, <1>a, <2>2 DEF Work
    <3>2. \A e \in Devices \ {Job.dev} : files'[e] = files[e]
      BY <1>16, <1>a, <2>2 DEF Work, Put, MediaTypeOK, CacheTypeOK
    <3>. QED
      BY <1>a, <3>1, <3>2 DEF GoneInv, Gone, JobsOf, OnDisk, Job
  <2>. QED
    BY <2>1, <2>2
<1>17. CASE Discard
  <2>1. /\ worker'.at = "look" /\ incoming' \subseteq incoming
        /\ UNCHANGED <<registered, late, operator, up, jobs, dirs, hashed, scan>>
    BY <1>17 DEF Discard, NoWork
  <2>2. Job.dev \in Devices /\ Job.name \in Names
    BY <1>17, JobIsUpload DEF Discard, QueueInv, AtJob
  <2>3. \A e \in Devices, m \in Names : files'[e][m] \in {Nothing, files[e][m]}
    BY <1>17, <2>2, FilePut DEF Discard, MediaTypeOK, CacheTypeOK
  <2>. QED
    BY <1>a, <2>1, <2>3 DEF GoneInv, Gone, JobsOf, OnDisk, Job
<1>18. CASE FailJob
  BY <1>18, <1>a DEF FailJob, NoWork, GoneInv, Gone, JobsOf, OnDisk, Job
<1>19. CASE KeepProduct
  BY <1>19, <1>a DEF KeepProduct, GoneInv, Gone, JobsOf, OnDisk, Job
<1>20. CASE HashProduct
  <2>1. /\ worker.job \in Uploads /\ worker.at = "adopt" /\ Job.dev \in Devices /\ Job.name \in Names
        /\ worker'.job = worker.job
        /\ UNCHANGED <<registered, late, operator, up, files, dirs, jobs, incoming, scan>>
    BY <1>20, <1>a, JobIsUpload DEF HashProduct, QueueInv, AtJob
  <2>2. /\ hashed'[worker.job] = files[Job.dev][Job.name]
        /\ worker'.at = IF hashed'[worker.job] = Nothing THEN "append" ELSE "hashed"
    BY <1>20, <2>1, <1>a DEF HashProduct, MediaTypeOK
  <2>. QED
    BY <1>a, <2>1, <2>2 DEF GoneInv, Gone, JobsOf, OnDisk, Job
<1>21. CASE LinkProduct
  <2>1. Job.dev \in Devices /\ Job.name \in Names /\ hashed[worker.job] \in Contents
    BY <1>21, ProductAdopts DEF LinkProduct
  <2>2. Adopt(Job.dev, Job.name, hashed[worker.job], {Job.content})
    BY <1>21 DEF LinkProduct
  <2>3. /\ worker.at = "hashed" /\ worker'.at = "append" /\ worker'.job = worker.job
        /\ UNCHANGED <<registered, late, operator, up, jobs, incoming, scan>>
    BY <1>21, <1>a DEF LinkProduct
  <2>4. /\ \A e \in Devices, m \in Names : e # Job.dev => files'[e][m] = files[e][m]
        /\ dirs' \subseteq dirs \cup {Job.dev}
    BY <2>1, <2>2, AdoptMarks DEF MediaTypeOK
  <2>5. ASSUME Gone(Job.dev), operator.dev # Job.dev PROVE UNCHANGED <<files, dirs>>
    <3>1. Job.dev \notin dirs /\ hashed[worker.job] \notin Documents /\ files[Job.dev][Job.name] = Nothing
      BY <2>1, <2>3, <2>5 DEF Gone, OnDisk
    <3>2. ~CanAdopt(Job.dev, Job.name, hashed[worker.job])
      BY <3>1 DEF CanAdopt, CanLink
    <3>. QED
      BY <2>2, <3>2 DEF Adopt
  <2>. QED
    BY <1>a, <2>1, <2>3, <2>4, <2>5 DEF GoneInv, Gone, JobsOf, OnDisk, Job
<1>22. CASE FinishJob
  <2>1. ToSet(jobs') = ToSet(jobs) \ {worker.job}
    BY <1>22, WithoutLeaves DEF FinishJob, MediaTypeOK
  <2>. QED
    BY <1>22, <1>a, <2>1 DEF FinishJob, NoWork, GoneInv, Gone, JobsOf, OnDisk, Job
<1>23. ASSUME NEW d \in Devices, DeleteDevice(d) PROVE GoneInv'
  <2>1. operator.at = "none" /\ operator.dev \notin Devices
    BY <1>23 DEF DeleteDevice, UploadInv
  <2>2. /\ registered' = registered \ {d} /\ operator'.at = "remove" /\ operator'.dev = d
        /\ late \subseteq late'
        /\ (\E u \in Uploads : up[u].dev = d /\ up[u].at \in Requesting) => d \in late'
        /\ UNCHANGED <<up, worker, files, jobs, incoming, dirs, hashed, scan>>
    BY <1>23 DEF DeleteDevice
  <2>. QED
    BY <1>a, <2>1, <2>2 DEF GoneInv, Gone, JobsOf, OnDisk, Job
<1>24. ASSUME NEW d \in Devices, Register(d) PROVE GoneInv'
  BY <1>24, <1>a DEF Register, GoneInv, Gone, JobsOf, OnDisk, Job
<1>25. ASSUME NEW d \in Devices, NEW n \in Names, DeleteMedia(d, n) PROVE GoneInv'
  <2>. DEFINE js == {j \in JobsOf(d) : up[j].name = n}
  <2>1. ToSet(jobs') = ToSet(jobs) \ js
    BY <1>25, WithoutLeaves DEF DeleteMedia, RemoveJobs, MediaTypeOK
  <2>2. operator.dev \notin Devices
    BY <1>25 DEF DeleteMedia, UploadInv
  <2>3. /\ operator'.dev = d /\ d \in registered /\ incoming' \subseteq incoming
        /\ UNCHANGED <<registered, late, up, worker, files, dirs, hashed, scan>>
    BY <1>25 DEF DeleteMedia, RemoveJobs
  <2>. HIDE DEF js
  <2>. QED
    BY <1>a, <2>1, <2>2, <2>3 DEF GoneInv, Gone, JobsOf, OnDisk, Job
<1>26. ASSUME NEW d \in Devices, NEW order, Reorder(d, order) PROVE GoneInv'
  BY <1>0, <1>26 DEF Reorder
<1>27. CASE UnlinkMedia
  <2>1. \A e \in Devices, m \in Names : files'[e][m] \in {Nothing, files[e][m]}
    BY <1>27, FilePut DEF UnlinkMedia, UploadInv, MediaTypeOK, CacheTypeOK
  <2>2. /\ operator.at = "unlink" /\ operator'.at = "edit" /\ operator'.dev = operator.dev
        /\ UNCHANGED <<registered, late, up, worker, jobs, incoming, dirs, hashed, scan>>
    BY <1>27 DEF UnlinkMedia, MediaTypeOK, OperatorRecord
  <2>. QED
    BY <1>a, <2>1, <2>2 DEF GoneInv, Gone, JobsOf, OnDisk, Job
<1>28. CASE TidyPlaylist
  <2>1. operator.dev \in registered
    BY <1>28 DEF TidyPlaylist, UploadInv
  <2>2. UNCHANGED <<registered, late, up, worker, jobs, incoming, dirs, files, hashed, scan>>
    BY <1>28 DEF TidyPlaylist
  <2>. QED
    BY <1>a, <2>1, <2>2 DEF GoneInv, Gone, JobsOf, OnDisk, Job
<1>29. CASE RemoveDeviceJobs
  <2>. DEFINE js == JobsOf(operator.dev)
  <2>1. ToSet(jobs') = ToSet(jobs) \ js
    BY <1>29, WithoutLeaves DEF RemoveDeviceJobs, RemoveJobs, MediaTypeOK
  <2>2. /\ operator.at = "remove" /\ operator'.at = "erase" /\ operator'.dev = operator.dev
        /\ incoming' \subseteq incoming /\ UNCHANGED <<registered, late, up, worker, files, dirs, hashed, scan>>
    BY <1>29 DEF RemoveDeviceJobs, RemoveJobs, MediaTypeOK, OperatorRecord
  <2>. QED
    BY <1>a, <2>1, <2>2 DEF GoneInv, Gone, JobsOf, OnDisk, Job
<1>30. CASE EraseDevice
  <2>1. /\ operator.at = "erase" /\ dirs' = dirs \ {operator.dev}
        /\ late' = IF AdoptionUnderWay(operator.dev) THEN late \cup {operator.dev} ELSE late
        /\ UNCHANGED <<registered, up, worker, jobs, incoming, hashed, scan>>
    BY <1>30 DEF EraseDevice
  <2>2. operator.dev \in Devices /\ operator.at # "none"
    BY <2>1 DEF UploadInv
  <2>3. \A e \in Devices, m \in Names :
          files'[e][m] = IF e = operator.dev THEN Nothing ELSE files[e][m]
    BY <1>30, <2>2 DEF EraseDevice, MediaTypeOK, CacheTypeOK
  <2>4. ASSUME NEW d \in Devices \ (registered' \cup late') PROVE Gone(d)'
    <3>1. Gone(d)
      BY <2>1, <2>4 DEF GoneInv
    <3>2. CASE d = operator.dev
      <4>1. /\ ~(scan.hash # Nothing /\ scan.dev = d)
            /\ \A u \in Uploads : ~(hashed[u] \in Documents /\ up[u].dev = d)
        BY <2>1, <2>4, <3>2 DEF AdoptionUnderWay
      <4>2. worker.at = "hashed" => worker.job \in Uploads
        BY <1>a
      <4>. QED
        BY <1>a, <2>1, <2>2, <2>3, <3>1, <3>2, <4>1, <4>2 DEF Gone, JobsOf, OnDisk, Job
    <3>3. CASE d # operator.dev
      BY <1>a, <2>1, <2>2, <2>3, <3>1, <3>3 DEF Gone, JobsOf, OnDisk, Job
    <3>. QED
      BY <3>2, <3>3
  <2>. QED
    BY <2>4 DEF GoneInv
<1>31. ASSUME NEW q \in {Nothing} \cup (Quotas \ {quota}), BeginClean(q), OnlyCache
       PROVE  GoneInv'
  <2>1. /\ scan'.hash = Nothing
        /\ UNCHANGED <<files, dirs>>
    BY <1>31, <1>b DEF BeginClean, MediaTypeOK, CacheTypeOK, DiskInv, NoScan, FileSeen
  <2>. QED
    BY <1>31, <2>1, <1>c
<1>32. ASSUME NEW d \in Devices, ListDevice(d), OnlyCache PROVE GoneInv'
  <2>1. /\ scan'.hash = Nothing
        /\ UNCHANGED <<files, dirs>>
    BY <1>32, <1>b DEF ListDevice, MediaTypeOK, CacheTypeOK, DiskInv, NoScan, FileSeen
  <2>. QED
    BY <1>32, <2>1, <1>c
<1>33. ASSUME NEW n \in Names, LookAt(n), OnlyCache PROVE GoneInv'
  <2>1. /\ scan'.hash = Nothing
        /\ UNCHANGED <<files, dirs>>
    BY <1>33, <1>b DEF LookAt, MediaTypeOK, CacheTypeOK, DiskInv, NoScan, FileSeen
  <2>. QED
    BY <1>33, <2>1, <1>c
<1>34. ASSUME NEW n \in Names, HashUnknown(n), OnlyCache PROVE GoneInv'
  <2>1. scan.dev \in Devices /\ n \in Names /\ UNCHANGED <<files, dirs>>
    BY <1>34, CacheAssumption DEF HashUnknown, DiskInv, NoScan
  <2>2. scan'.dev = scan.dev /\ (scan'.hash # Nothing => files[scan.dev][n] # Nothing)
    BY <1>34 DEF HashUnknown, FileSeen, FileAt, MediaTypeOK, CacheTypeOK
  <2>. QED
    BY <1>34, <2>1, <2>2 DEF GoneInv, Gone, JobsOf, OnDisk, Job
<1>35. ASSUME NEW n \in Names, LinkUnknown(n), OnlyCache PROVE GoneInv'
  <2>1. scan.dev \in Devices /\ n \in Names /\ scan.hash \in Contents
    BY <1>35, CleanAdopts DEF LinkUnknown
  <2>2. Adopt(scan.dev, n, scan.hash, {}) /\ scan.hash # Nothing /\ scan'.hash = Nothing
    BY <1>35 DEF LinkUnknown, FileSeen, MediaTypeOK, CacheTypeOK
  <2>3. /\ \A e \in Devices, m \in Names : e # scan.dev => files'[e][m] = files[e][m]
        /\ dirs' \subseteq dirs \cup {scan.dev}
    BY <2>1, <2>2, AdoptMarks DEF MediaTypeOK
  <2>. QED
    BY <1>35, <2>1, <2>2, <2>3 DEF GoneInv, Gone, JobsOf, OnDisk, Job
<1>36. ASSUME SetQuota, OnlyCache PROVE GoneInv'
  BY <1>0, <1>36 DEF SetQuota
<1>37. ASSUME FinishClean, OnlyCache PROVE GoneInv'
  <2>1. scan'.hash = Nothing /\ UNCHANGED <<files, dirs>>
    BY <1>37 DEF FinishClean, NoScan
  <2>. QED
    BY <1>37, <2>1, <1>c
<1>38. CASE RestartServer
  <2>1. \A v \in Uploads : up'[v].at \in {"new", "done"}
    BY <1>38, UploadsEnd DEF MediaTypeOK
  <2>2. /\ ToSet(jobs') = {} /\ worker'.at = "look" /\ incoming' = {} /\ operator'.at = "none"
        /\ UNCHANGED <<registered, files, dirs>> /\ scan'.hash = Nothing
        /\ late \subseteq late' /\ (operator.at \in {"remove", "erase"} => operator.dev \in late')
    BY <1>38, EmptyQueue DEF RestartServer, CacheRestart, NoWork, NoOperator, NoScan
  <2>3. operator.dev \in Devices \ (registered \cup late) => operator.at \in {"remove", "erase"}
    BY DEF UploadInv, MediaTypeOK, OperatorRecord
  <2>. QED
    BY <2>1, <2>2, <2>3 DEF Requesting, GoneInv, Gone, JobsOf, OnDisk, Job
<1>39. CASE UNCHANGED mediaVars
  BY <1>0, <1>39
<1>. QED
  BY <1>1, <1>2, <1>3, <1>4, <1>5, <1>6, <1>7, <1>8, <1>9, <1>10, <1>11, <1>12, <1>13, <1>14,
     <1>15, <1>16, <1>17, <1>18, <1>19, <1>20, <1>21, <1>22, <1>23, <1>24, <1>25, <1>26,
     <1>27, <1>28, <1>29, <1>30, <1>31, <1>32, <1>33, <1>34, <1>35, <1>36, <1>37, <1>38, <1>39
     DEF MediaNext, Upload, RunJobs, Operate, CleanCache, Clean, OnlyCache

(* What the clean-up may not evict, it has seen or been told of.           *)
LEMMA NextCacheInv ==
  ASSUME MediaTypeOK, UploadInv, HashInv, QueueInv, DiskInv, CacheInv, [MediaNext]_mediaVars
  PROVE  CacheInv'
<1>a. /\ worker = [at |-> worker.at, job |-> worker.job]
      /\ worker.at \in {"produced", "adopt", "hashed"} => worker.job \in Uploads /\ up[worker.job].at \in JobSteps
  BY DEF MediaTypeOK, WorkerRecord, NoJob, QueueInv, AtJob
<1>b. inUse \subseteq Contents /\ recent \subseteq Contents
  BY DEF MediaTypeOK, CacheTypeOK
<1>k. ASSUME UNCHANGED scan, inUse \subseteq inUse', recent \subseteq recent',
             \A g \in Contents : stored[g] # Nothing => stored'[g] = stored[g],
             \A d \in Devices, n \in Names :
               \/ files'[d][n] = Nothing
               \/ scan.running => Spared(d, n)'
               \/ files'[d][n] = files[d][n] /\ (AdoptionToCome(d, n) => AdoptionToCome(d, n)')
      PROVE  CacheInv'
  <2>1. \A d \in Devices, n \in Names : scan.running /\ Spared(d, n) => Spared(d, n)'
    <3>. SUFFICES ASSUME NEW d \in Devices, NEW n \in Names, scan.running, Spared(d, n),
                         files'[d][n] = files[d][n], files[d][n] # Nothing,
                         AdoptionToCome(d, n) => AdoptionToCome(d, n)'
                  PROVE  Spared(d, n)'
      BY <1>k DEF Spared
    <3>1. CASE Copied(files[d][n], inUse \cup recent)
      BY <1>b, <1>k, <3>1 DEF Spared, Copied
    <3>2. CASE AdoptionToCome(d, n)
      BY <3>2 DEF Spared
    <3>. QED
      BY <3>1, <3>2 DEF Spared
  <2>. QED
    BY <1>k, <2>1 DEF CacheInv
<1>u. ASSUME NEW u \in Uploads, \A v \in Uploads \ {u} : up'[v] = up[v],
             up[u].at \notin Adoptive, up'[u].at \notin Adoptive,
             up[u].at \in JobSteps => up'[u].dev = up[u].dev /\ up'[u].name = up[u].name,
             UNCHANGED <<scan, files, stored, inUse, recent, worker>>
      PROVE  CacheInv'
  <2>1. \A d \in Devices, n \in Names : AdoptionToCome(d, n) => AdoptionToCome(d, n)'
    BY <1>a, <1>u DEF AdoptionToCome, Job
  <2>. QED
    BY <1>u, <2>1, <1>k
<1>0. UNCHANGED <<scan, files, stored, inUse, recent, up, worker>> => CacheInv'
  BY DEF CacheInv, Copied, Spared, AdoptionToCome, Job
<1>1. ASSUME NEW u \in Uploads, NEW d \in Devices, NEW c \in Contents, StartUpload(u, d, c)
      PROVE  CacheInv'
  <2>1. /\ \A v \in Uploads \ {u} : up'[v] = up[v]
        /\ up[u].at \notin Adoptive /\ up'[u].at \notin Adoptive
        /\ up[u].at \in JobSteps => up'[u].dev = up[u].dev /\ up'[u].name = up[u].name
    BY <1>1, UploadStarts DEF StartUpload, GoTo, MediaTypeOK, Requesting, JobSteps, Adoptive
  <2>2. UNCHANGED <<scan, files, stored, inUse, recent, worker>>
    BY <1>1 DEF StartUpload
  <2>. QED
    BY <1>u, <2>1, <2>2
<1>2. ASSUME NEW u \in Uploads, Claim(u) PROVE CacheInv'
  <2>1. /\ \A v \in Uploads \ {u} : up'[v] = up[v]
        /\ up[u].at \notin Adoptive /\ up'[u].at \notin Adoptive
        /\ up[u].at \in JobSteps => up'[u].dev = up[u].dev /\ up'[u].name = up[u].name
    BY <1>2, UploadClaims DEF Claim, GoTo, MediaTypeOK, Requesting, JobSteps, Adoptive
  <2>2. UNCHANGED <<scan, files, stored, inUse, recent, worker>>
    BY <1>2 DEF Claim
  <2>. QED
    BY <1>u, <2>1, <2>2
<1>3. ASSUME NEW u \in Uploads, Receive(u) PROVE CacheInv'
  <2>1. up[u].at = "claimed" /\ (GoTo(u, "received") \/ Done(u))
    BY <1>3 DEF Receive
  <2>2. UNCHANGED <<scan, files, stored, inUse, recent, worker>>
    BY <1>3 DEF Receive
  <2>3. CASE GoTo(u, "received")
    <3>1. \A v \in Uploads \ {u} : up'[v] = up[v]
      BY <2>3 DEF GoTo, MediaTypeOK
    <3>2. up'[u].at = "received"
      BY <2>3, UploadGoes DEF MediaTypeOK, Requesting
    <3>. QED
      BY <2>1, <2>2, <3>1, <3>2, <1>u DEF Adoptive, JobSteps
  <2>4. CASE Done(u)
    BY <2>1, <2>2, <2>4, <1>u, UploadDone DEF MediaTypeOK, Adoptive, JobSteps
  <2>. QED
    BY <2>1, <2>3, <2>4
<1>4. ASSUME NEW u \in Uploads, ReuseResult(u) PROVE CacheInv'
  <2>1. /\ \A v \in Uploads : /\ up'[v].dev = up[v].dev /\ up'[v].name = up[v].name
                              /\ v # u => up'[v].at = up[v].at
        /\ up[u].at = "received" /\ up'[u].at = "landed" /\ UNCHANGED worker
    BY <1>4, UploadGoes DEF ReuseResult, MediaTypeOK, Requesting
  <2>2. /\ up[u].dev \in Devices /\ up[u].name \in Names /\ Result(up[u].content) \in Contents
        /\ source[up[u].content] \in Contents
        /\ Result(up[u].content) = stored[source[up[u].content]]
    BY <1>4, <2>1 DEF ReuseResult, CanReuse, UploadInv, Requesting, Placing, Result, Copy,
       MediaTypeOK, CacheTypeOK
  <2>3. \A e \in Devices, m \in Names :
           files'[e][m] = IF e = up[u].dev /\ m = up[u].name THEN Result(up[u].content) ELSE files[e][m]
    BY <1>4, <2>2, FilePut DEF ReuseResult, MediaTypeOK, CacheTypeOK
  <2>4. /\ recent \subseteq recent' /\ (scan.running => source[up[u].content] \in recent')
        /\ UNCHANGED <<scan, inUse, stored>>
    BY <1>4 DEF ReuseResult, Use
  <2>5. \A e \in Devices, m \in Names : e = up[u].dev /\ m = up[u].name /\ scan.running => Spared(e, m)'
    BY <2>2, <2>3, <2>4 DEF Spared, Copied
  <2>6. \A e \in Devices, m \in Names : AdoptionToCome(e, m) => AdoptionToCome(e, m)'
    BY <1>a, <2>1 DEF AdoptionToCome, Job, Adoptive
  <2>. QED
    BY <2>3, <2>4, <2>5, <2>6, <1>k
<1>5. ASSUME NEW u \in Uploads, AddJob(u) PROVE CacheInv'
  <2>1. /\ \A v \in Uploads \ {u} : up'[v] = up[v]
        /\ up[u].at \notin Adoptive /\ up'[u].at \notin Adoptive
        /\ up[u].at \in JobSteps => up'[u].dev = up[u].dev /\ up'[u].name = up[u].name
    BY <1>5, UploadGoes DEF AddJob, GoTo, MediaTypeOK, Requesting, JobSteps, Adoptive
  <2>2. UNCHANGED <<scan, files, stored, inUse, recent, worker>>
    BY <1>5 DEF AddJob
  <2>. QED
    BY <1>u, <2>1, <2>2
<1>6. ASSUME NEW u \in Uploads, SendToken(u) PROVE CacheInv'
  <2>1. /\ \A v \in Uploads \ {u} : up'[v] = up[v]
        /\ up[u].at \notin Adoptive /\ up'[u].at \notin Adoptive
        /\ up[u].at \in JobSteps => up'[u].dev = up[u].dev /\ up'[u].name = up[u].name
    BY <1>6, UploadGoes DEF SendToken, GoTo, MediaTypeOK, Requesting, JobSteps, Adoptive
  <2>2. UNCHANGED <<scan, files, stored, inUse, recent, worker>>
    BY <1>6 DEF SendToken
  <2>. QED
    BY <1>u, <2>1, <2>2
<1>7. ASSUME NEW u \in Uploads, CheckImage(u) PROVE CacheInv'
  <2>1. up[u].at = "received" /\ (GoTo(u, "moving") \/ Done(u))
    BY <1>7 DEF CheckImage
  <2>2. UNCHANGED <<scan, files, stored, inUse, recent, worker>>
    BY <1>7 DEF CheckImage
  <2>3. CASE GoTo(u, "moving")
    <3>1. \A v \in Uploads \ {u} : up'[v] = up[v]
      BY <2>3 DEF GoTo, MediaTypeOK
    <3>2. up'[u].at = "moving"
      BY <2>3, UploadGoes DEF MediaTypeOK, Requesting
    <3>. QED
      BY <2>1, <2>2, <3>1, <3>2, <1>u DEF Adoptive, JobSteps
  <2>4. CASE Done(u)
    BY <2>1, <2>2, <2>4, <1>u, UploadDone DEF MediaTypeOK, Adoptive, JobSteps
  <2>. QED
    BY <2>1, <2>3, <2>4
<1>8. ASSUME NEW u \in Uploads, MoveImage(u) PROVE CacheInv'
  <2>a. CASE up[u].dev \in dirs
    <3>1. /\ \A v \in Uploads : /\ up'[v].dev = up[v].dev /\ up'[v].name = up[v].name
                                /\ v # u => up'[v].at = up[v].at
          /\ up[u].at = "moving" /\ up'[u].at = "moved" /\ UNCHANGED worker
      BY <1>8, <2>a, UploadGoes DEF MoveImage, MediaTypeOK, Requesting
    <3>2. up[u].dev \in Devices /\ up[u].name \in Names /\ up[u].content \in Contents
      BY <3>1 DEF UploadInv, Requesting, Placing
    <3>3. \A e \in Devices, m \in Names :
             files'[e][m] = IF e = up[u].dev /\ m = up[u].name THEN up[u].content ELSE files[e][m]
      BY <1>8, <2>a, <3>2, FilePut DEF MoveImage, MediaTypeOK, CacheTypeOK
    <3>4. UNCHANGED <<scan, inUse, recent, stored>>
      BY <1>8 DEF MoveImage
    <3>5. \A e \in Devices, m \in Names : e = up[u].dev /\ m = up[u].name => Spared(e, m)'
      BY <3>1 DEF Spared, AdoptionToCome, Adoptive
    <3>6. \A e \in Devices, m \in Names : AdoptionToCome(e, m) => AdoptionToCome(e, m)'
      BY <1>a, <3>1 DEF AdoptionToCome, Job, Adoptive
    <3>. QED
      BY <3>3, <3>4, <3>5, <3>6, <1>k
  <2>b. CASE up[u].dev \notin dirs
    <3>1. /\ \A v \in Uploads \ {u} : up'[v] = up[v]
          /\ up[u].at = "moving" /\ up'[u].at = "done"
      BY <1>8, <2>b, UploadDone DEF MoveImage, MediaTypeOK
    <3>. QED
      BY <1>8, <2>b, <3>1, <1>u DEF MoveImage, JobSteps, Adoptive
  <2>. QED
    BY <2>a, <2>b
<1>9. ASSUME NEW u \in Uploads, HashImage(u) PROVE CacheInv'
  <2>1. /\ \A v \in Uploads : /\ up'[v].dev = up[v].dev /\ up'[v].name = up[v].name
                              /\ v # u => up'[v].at = up[v].at
        /\ up[u].at = "moved" /\ UNCHANGED <<worker, scan, files, stored, inUse, recent>>
        /\ up'[u].at = IF FileOf(u) = Nothing THEN "landed" ELSE "hashed"
    BY <1>9, UploadGoes DEF HashImage, MediaTypeOK, Requesting, FileOf
  <2>2. \A e \in Devices, m \in Names :
           files[e][m] # Nothing /\ AdoptionToCome(e, m) => AdoptionToCome(e, m)'
    BY <1>a, <2>1 DEF AdoptionToCome, Job, Adoptive, FileOf
  <2>. QED
    BY <2>1, <2>2, <1>k
<1>10. ASSUME NEW u \in Uploads, LinkImage(u) PROVE CacheInv'
  <2>1. /\ \A v \in Uploads : /\ up'[v].dev = up[v].dev /\ up'[v].name = up[v].name
                              /\ v # u => up'[v].at = up[v].at
        /\ up[u].at = "hashed" /\ up'[u].at = "landed" /\ UNCHANGED worker
    BY <1>10, UploadGoes DEF LinkImage, MediaTypeOK, Requesting
  <2>2. up[u].dev \in Devices /\ up[u].name \in Names /\ hashed[u] \in Contents
    BY <1>10, ImageAdopts DEF LinkImage
  <2>3. Adopt(up[u].dev, up[u].name, hashed[u], {up[u].content}) /\ UNCHANGED <<scan, inUse>>
    BY <1>10 DEF LinkImage
  <2>4. /\ \A e \in Devices, m \in Names : ~(e = up[u].dev /\ m = up[u].name) => files'[e][m] = files[e][m]
        /\ recent \subseteq recent'
        /\ \A g \in Contents : stored[g] # Nothing => stored'[g] = stored[g]
        /\ \/ files'[up[u].dev][up[u].name] = Nothing
           \/ stored'[hashed[u]] = files'[up[u].dev][up[u].name] /\ (scan.running => hashed[u] \in recent')
    BY <2>2, <2>3, AdoptCopies DEF MediaTypeOK
  <2>5. \A e \in Devices, m \in Names : e = up[u].dev /\ m = up[u].name /\ scan.running => Spared(e, m)'
    BY <2>1, <2>4 DEF Spared, Copied
  <2>6. \A e \in Devices, m \in Names :
           ~(e = up[u].dev /\ m = up[u].name) /\ AdoptionToCome(e, m) => AdoptionToCome(e, m)'
    BY <1>a, <2>1 DEF AdoptionToCome, Job, Adoptive
  <2>. QED
    BY <2>3, <2>4, <2>5, <2>6, <1>k
<1>11. ASSUME NEW u \in Uploads, AnswerUpload(u) PROVE CacheInv'
  <2>1. /\ \A v \in Uploads \ {u} : up'[v] = up[v]
        /\ up[u].at \notin Adoptive /\ up'[u].at \notin Adoptive
        /\ up[u].at \in JobSteps => up'[u].dev = up[u].dev /\ up'[u].name = up[u].name
    BY <1>11, UploadDone DEF AnswerUpload, GoTo, MediaTypeOK, Requesting, JobSteps, Adoptive
  <2>2. UNCHANGED <<scan, files, stored, inUse, recent, worker>>
    BY <1>11 DEF AnswerUpload
  <2>. QED
    BY <1>u, <2>1, <2>2
<1>12. CASE NextJob
  <2>1. UNCHANGED <<scan, files, stored, inUse, recent, up>> /\ worker.at \notin {"produced", "adopt", "hashed"}
    BY <1>12, <1>a DEF NextJob
  <2>2. \A e \in Devices, m \in Names : AdoptionToCome(e, m) => AdoptionToCome(e, m)'
    BY <2>1 DEF AdoptionToCome
  <2>. QED
    BY <2>1, <2>2, <1>k
<1>13. CASE Sleep
  <2>1. UNCHANGED <<scan, files, stored, inUse, recent, up>> /\ worker.at \notin {"produced", "adopt", "hashed"}
    BY <1>13, <1>a DEF Sleep
  <2>2. \A e \in Devices, m \in Names : AdoptionToCome(e, m) => AdoptionToCome(e, m)'
    BY <2>1 DEF AdoptionToCome
  <2>. QED
    BY <2>1, <2>2, <1>k
<1>14. CASE WakeUp
  <2>1. UNCHANGED <<scan, files, stored, inUse, recent, up>> /\ worker.at \notin {"produced", "adopt", "hashed"}
    BY <1>14, <1>a DEF WakeUp
  <2>2. \A e \in Devices, m \in Names : AdoptionToCome(e, m) => AdoptionToCome(e, m)'
    BY <2>1 DEF AdoptionToCome
  <2>. QED
    BY <2>1, <2>2, <1>k
<1>15. CASE BeginJob
  <2>1. UNCHANGED <<scan, files, stored, inUse, recent, up>> /\ worker.at \notin {"produced", "adopt", "hashed"}
    BY <1>15, <1>a DEF BeginJob
  <2>2. \A e \in Devices, m \in Names : AdoptionToCome(e, m) => AdoptionToCome(e, m)'
    BY <2>1 DEF AdoptionToCome
  <2>. QED
    BY <2>1, <2>2, <1>k
<1>16. CASE Work
  <2>1. /\ worker.at = "work" /\ UNCHANGED <<scan, stored, inUse, recent, up>>
        /\ worker'.job = worker.job
        /\ Job.dev \in Devices /\ Job.name \in Names /\ Job.content \in Contents
    BY <1>16, <1>a, JobIsUpload DEF Work, QueueInv, AtJob
  <2>2. \A e \in Devices, m \in Names : AdoptionToCome(e, m) => AdoptionToCome(e, m)'
    BY <2>1 DEF AdoptionToCome
  <2>3. CASE worker'.at = "broken"
    BY <1>16, <1>a, <2>1, <2>2, <2>3, <1>k DEF Work
  <2>4. CASE worker'.at # "broken"
    <3>1. worker'.at = "produced" /\ Put(Job.dev, Job.name, Job.content)
      BY <1>16, <1>a, <2>4 DEF Work
    <3>2. \A e \in Devices, m \in Names :
            files'[e][m] = IF e = Job.dev /\ m = Job.name THEN Job.content ELSE files[e][m]
      BY <2>1, <3>1, FilePut DEF MediaTypeOK, CacheTypeOK
    <3>3. \A e \in Devices, m \in Names : e = Job.dev /\ m = Job.name => Spared(e, m)'
      BY <2>1, <3>1 DEF Spared, AdoptionToCome, Job
    <3>. QED
      BY <2>1, <2>2, <3>2, <3>3, <1>k
  <2>. QED
    BY <2>3, <2>4
<1>17. CASE Discard
  <2>1. /\ UNCHANGED <<scan, stored, inUse, recent, up>>
        /\ Job.dev \in Devices /\ Job.name \in Names
    BY <1>17, <1>a, JobIsUpload DEF Discard, QueueInv, AtJob
  <2>2. \A e \in Devices, m \in Names :
          files'[e][m] = IF e = Job.dev /\ m = Job.name THEN Nothing ELSE files[e][m]
    BY <1>17, <2>1, FilePut DEF Discard, MediaTypeOK, CacheTypeOK
  <2>3. \A e \in Devices, m \in Names :
           ~(e = Job.dev /\ m = Job.name) /\ AdoptionToCome(e, m) => AdoptionToCome(e, m)'
    BY <2>1 DEF AdoptionToCome
  <2>. QED
    BY <2>1, <2>2, <2>3, <1>k
<1>18. CASE FailJob
  <2>1. UNCHANGED <<scan, files, stored, inUse, recent, up>> /\ worker.at \notin {"produced", "adopt", "hashed"}
    BY <1>18, <1>a DEF FailJob
  <2>2. \A e \in Devices, m \in Names : AdoptionToCome(e, m) => AdoptionToCome(e, m)'
    BY <2>1 DEF AdoptionToCome
  <2>. QED
    BY <2>1, <2>2, <1>k
<1>19. CASE KeepProduct
  <2>1. /\ UNCHANGED <<scan, files, stored, inUse, recent, up>>
        /\ worker'.at = "adopt" /\ worker'.job = worker.job
    BY <1>19, <1>a DEF KeepProduct
  <2>2. \A e \in Devices, m \in Names : AdoptionToCome(e, m) => AdoptionToCome(e, m)'
    BY <2>1 DEF AdoptionToCome, Job
  <2>. QED
    BY <2>1, <2>2, <1>k
<1>20. CASE HashProduct
  <2>1. /\ UNCHANGED <<scan, files, stored, inUse, recent, up>>
        /\ worker.at = "adopt" /\ worker'.job = worker.job /\ worker.job \in Uploads
        /\ hashed'[worker.job] = files[Job.dev][Job.name]
        /\ worker'.at = IF hashed'[worker.job] = Nothing THEN "append" ELSE "hashed"
    BY <1>20, <1>a DEF HashProduct, MediaTypeOK
  <2>2. \A e \in Devices, m \in Names :
           files[e][m] # Nothing /\ AdoptionToCome(e, m) => AdoptionToCome(e, m)'
    BY <2>1 DEF AdoptionToCome, Job
  <2>. QED
    BY <2>1, <2>2, <1>k
<1>21. CASE LinkProduct
  <2>1. worker.at = "hashed" /\ worker'.at = "append" /\ worker'.job = worker.job /\ UNCHANGED up
    BY <1>21, <1>a DEF LinkProduct
  <2>2. Job.dev \in Devices /\ Job.name \in Names /\ hashed[worker.job] \in Contents
    BY <1>21, ProductAdopts DEF LinkProduct
  <2>3. Adopt(Job.dev, Job.name, hashed[worker.job], {Job.content}) /\ UNCHANGED <<scan, inUse>>
    BY <1>21 DEF LinkProduct
  <2>4. /\ \A e \in Devices, m \in Names : ~(e = Job.dev /\ m = Job.name) => files'[e][m] = files[e][m]
        /\ recent \subseteq recent'
        /\ \A g \in Contents : stored[g] # Nothing => stored'[g] = stored[g]
        /\ \/ files'[Job.dev][Job.name] = Nothing
           \/ stored'[hashed[worker.job]] = files'[Job.dev][Job.name] /\ (scan.running => hashed[worker.job] \in recent')
    BY <2>2, <2>3, AdoptCopies DEF MediaTypeOK
  <2>5. \A e \in Devices, m \in Names : e = Job.dev /\ m = Job.name /\ scan.running => Spared(e, m)'
    BY <2>1, <2>2, <2>4 DEF Spared, Copied
  <2>6. \A e \in Devices, m \in Names :
           ~(e = Job.dev /\ m = Job.name) /\ AdoptionToCome(e, m) => AdoptionToCome(e, m)'
    BY <1>a, <2>1 DEF AdoptionToCome, Job
  <2>. QED
    BY <2>3, <2>4, <2>5, <2>6, <1>k
<1>22. CASE FinishJob
  <2>1. UNCHANGED <<scan, files, stored, inUse, recent, up>> /\ worker.at \notin {"produced", "adopt", "hashed"}
    BY <1>22, <1>a DEF FinishJob
  <2>2. \A e \in Devices, m \in Names : AdoptionToCome(e, m) => AdoptionToCome(e, m)'
    BY <2>1 DEF AdoptionToCome
  <2>. QED
    BY <2>1, <2>2, <1>k
<1>23. ASSUME NEW d \in Devices, DeleteDevice(d) \/ Register(d) PROVE CacheInv'
  BY <1>0, <1>23 DEF DeleteDevice, Register
<1>24. ASSUME NEW d \in Devices, NEW n \in Names, DeleteMedia(d, n) PROVE CacheInv'
  BY <1>0, <1>24 DEF DeleteMedia
<1>25. ASSUME NEW d \in Devices, NEW order, Reorder(d, order) PROVE CacheInv'
  BY <1>0, <1>25 DEF Reorder
<1>26. CASE TidyPlaylist \/ RemoveDeviceJobs
  BY <1>0, <1>26 DEF TidyPlaylist, RemoveDeviceJobs
<1>27. CASE UnlinkMedia
  <2>1. \A e \in Devices, m \in Names : files'[e][m] \in {Nothing, files[e][m]}
    BY <1>27, FilePut DEF UnlinkMedia, UploadInv, MediaTypeOK, CacheTypeOK
  <2>2. recent \subseteq recent' /\ UNCHANGED <<scan, stored, inUse, up, worker>>
    BY <1>27 DEF UnlinkMedia, Touch, Use
  <2>. QED
    BY <2>1, <2>2, <1>k DEF AdoptionToCome, Job
<1>28. CASE EraseDevice
  <2>1. \A e \in Devices, m \in Names : files'[e][m] \in {Nothing, files[e][m]}
    BY <1>28 DEF EraseDevice, MediaTypeOK, CacheTypeOK
  <2>2. recent \subseteq recent' /\ UNCHANGED <<scan, stored, inUse, up, worker>>
    BY <1>28 DEF EraseDevice, Touch, Use
  <2>. QED
    BY <2>1, <2>2, <1>k DEF AdoptionToCome, Job
<1>29. ASSUME NEW q \in {Nothing} \cup (Quotas \ {quota}), BeginClean(q), OnlyCache
       PROVE  CacheInv'
  <2>1. scan'.todo = dirs /\ UNCHANGED files
    BY <1>29 DEF BeginClean, NoScan
  <2>2. \A d \in Devices \ dirs, n \in Names : files'[d][n] = Nothing
    BY <2>1 DEF DiskInv
  <2>. QED
    BY <2>1, <2>2 DEF CacheInv, Spared
<1>30. ASSUME NEW d \in Devices, ListDevice(d), OnlyCache PROVE CacheInv'
  <2>1. /\ scan'.running = scan.running /\ scan'.todo = scan.todo \ {d} /\ scan'.dev = d
        /\ scan'.names = OnDisk(d) /\ scan.names = {}
    BY <1>30 DEF ListDevice, MediaTypeOK, CacheTypeOK
  <2>2. \A e \in Devices, n \in Names : Spared(e, n) => Spared(e, n)'
    BY <1>30 DEF ListDevice, Copied, Spared, AdoptionToCome, Job
  <2>3. \A n \in Names \ OnDisk(d) : Spared(d, n)'
    BY <1>30 DEF ListDevice, Spared, OnDisk
  <2>. QED
    BY <2>1, <2>2, <2>3 DEF CacheInv
<1>31. ASSUME NEW n \in Names, LookAt(n), OnlyCache PROVE CacheInv'
  <2>1. UNCHANGED <<files, stored, recent, up, worker>> /\ inUse \subseteq inUse'
    BY <1>31 DEF LookAt
  <2>2. \A e \in Devices, m \in Names : Spared(e, m) => Spared(e, m)'
    BY <2>1 DEF Copied, Spared, AdoptionToCome, Job
  <2>3. CASE FileAt(n) \in indexed \cup {Nothing}
    <3>1. /\ scan'.running = scan.running /\ scan'.todo = scan.todo /\ scan'.dev = scan.dev
          /\ scan'.names = scan.names \ {n}
      BY <1>31, <2>3 DEF LookAt, FileSeen, MediaTypeOK, CacheTypeOK
    <3>2. files[scan.dev][n] = Nothing \/ files[scan.dev][n] \in inUse'
      BY <1>31, <2>3 DEF LookAt, FileAt
    <3>3. Spared(scan.dev, n)'
      BY <2>1, <3>1, <3>2 DEF Spared, Copied
    <3>. QED
      BY <2>2, <3>1, <3>3 DEF CacheInv
  <2>4. CASE FileAt(n) \notin indexed \cup {Nothing}
    <3>1. /\ scan'.running = scan.running /\ scan'.todo = scan.todo /\ scan'.dev = scan.dev
          /\ scan'.names = scan.names
      BY <1>31, <2>4 DEF LookAt, MediaTypeOK, CacheTypeOK
    <3>. QED
      BY <2>2, <3>1 DEF CacheInv
  <2>. QED
    BY <2>3, <2>4
<1>32. ASSUME NEW n \in Names, HashUnknown(n), OnlyCache PROVE CacheInv'
  <2>1. UNCHANGED <<files, stored, recent, inUse, up, worker>>
    BY <1>32 DEF HashUnknown
  <2>2. \A e \in Devices, m \in Names : Spared(e, m) => Spared(e, m)'
    BY <2>1 DEF Copied, Spared, AdoptionToCome, Job
  <2>3. CASE FileAt(n) = Nothing
    <3>1. /\ scan'.running = scan.running /\ scan'.todo = scan.todo /\ scan'.dev = scan.dev
          /\ scan'.names = scan.names \ {n}
      BY <1>32, <2>3 DEF HashUnknown, FileSeen, MediaTypeOK, CacheTypeOK
    <3>2. Spared(scan.dev, n)'
      BY <2>1, <2>3, <3>1 DEF Spared, FileAt
    <3>. QED
      BY <2>2, <3>1, <3>2 DEF CacheInv
  <2>4. CASE FileAt(n) # Nothing
    <3>1. /\ scan'.running = scan.running /\ scan'.todo = scan.todo /\ scan'.dev = scan.dev
          /\ scan'.names = scan.names
      BY <1>32, <2>4 DEF HashUnknown, MediaTypeOK, CacheTypeOK
    <3>. QED
      BY <2>2, <3>1 DEF CacheInv
  <2>. QED
    BY <2>3, <2>4
<1>33. ASSUME NEW n \in Names, LinkUnknown(n), OnlyCache PROVE CacheInv'
  <2>1. scan.dev \in Devices /\ n \in Names /\ scan.hash \in Contents
    BY <1>33, CleanAdopts DEF LinkUnknown
  <2>2. Adopt(scan.dev, n, scan.hash, {}) /\ UNCHANGED <<up, worker>>
    BY <1>33 DEF LinkUnknown
  <2>3. /\ scan'.running = scan.running /\ scan'.todo = scan.todo /\ scan'.dev = scan.dev
        /\ scan'.names = scan.names \ {n}
    BY <1>33 DEF LinkUnknown, FileSeen, MediaTypeOK, CacheTypeOK
  <2>4. inUse' = IF CanAdopt(scan.dev, n, scan.hash) THEN inUse \cup {scan.hash} ELSE inUse
    BY <1>33 DEF LinkUnknown
  <2>5. /\ \A e \in Devices, m \in Names : ~(e = scan.dev /\ m = n) => files'[e][m] = files[e][m]
        /\ recent \subseteq recent'
        /\ \A g \in Contents : stored[g] # Nothing => stored'[g] = stored[g]
        /\ \/ files'[scan.dev][n] = Nothing
           \/ CanAdopt(scan.dev, n, scan.hash) /\ stored'[scan.hash] = files'[scan.dev][n]
    BY <2>1, <2>2, AdoptCopies DEF MediaTypeOK
  <2>6. Spared(scan.dev, n)'
    BY <2>3, <2>4, <2>5 DEF Spared, Copied
  <2>7. \A e \in Devices, m \in Names : ~(e = scan.dev /\ m = n) /\ Spared(e, m) => Spared(e, m)'
    BY <1>b, <2>2, <2>4, <2>5 DEF Copied, MediaTypeOK, CacheTypeOK, Spared, AdoptionToCome,
       Job
  <2>. QED
    BY <2>3, <2>6, <2>7 DEF CacheInv
<1>34. ASSUME SetQuota, OnlyCache PROVE CacheInv'
  BY <1>0, <1>34 DEF SetQuota
<1>35. ASSUME FinishClean, OnlyCache PROVE CacheInv'
  BY <1>35 DEF FinishClean, NoScan, CacheInv
<1>36. CASE RestartServer
  BY <1>36 DEF RestartServer, CacheRestart, NoScan, CacheInv
<1>37. CASE UNCHANGED mediaVars
  BY <1>0, <1>37
<1>. QED
  BY <1>1, <1>2, <1>3, <1>4, <1>5, <1>6, <1>7, <1>8, <1>9, <1>10, <1>11, <1>12, <1>13, <1>14,
     <1>15, <1>16, <1>17, <1>18, <1>19, <1>20, <1>21, <1>22, <1>23, <1>24, <1>25, <1>26,
     <1>27, <1>28, <1>29, <1>30, <1>31, <1>32, <1>33, <1>34, <1>35, <1>36, <1>37 DEF
     MediaNext, Upload, RunJobs, Operate, CleanCache, Clean, OnlyCache

--------------------------------------------------------------------------------
(* The first state.                                                        *)
LEMMA MediaInitIInv == MediaInit => MediaIInv
<1>. SUFFICES ASSUME MediaInit PROVE MediaIInv
  OBVIOUS
<1>1. MediaTypeOK
  <2>1. CacheTypeOK
    BY CacheAssumption DEF MediaInit, CacheInit, CacheTypeOK, NoScan, NoCopy
  <2>2. /\ up \in [Uploads -> UploadRecord] /\ hashed \in [Uploads -> Contents \cup {Nothing}]
        /\ worker \in WorkerRecord /\ operator \in OperatorRecord
    BY DEF MediaInit, UploadRecord, WorkerRecord, OperatorRecord, NoUpload, NoHash, NoWork, NoOperator
  <2>3. 0 \in 0 .. MaxRegistrations /\ 0 \in 0 .. MaxRestarts /\ 0 \in 0 .. MaxDeletions
    BY MediaAssumption
  <2>. QED
    BY <2>1, <2>2, <2>3, EmptyQueue DEF MediaInit, MediaTypeOK
<1>2. UploadInv
  BY CacheAssumption DEF MediaInit, UploadInv, NoUpload, NoOperator, Requesting, Placing,
     Adoptive, JobSteps
<1>3. QueueInv
  BY EmptyQueue DEF MediaInit, QueueInv, NoWork, AtJob
<1>4. NamesInv
  BY EmptyQueue DEF MediaInit, NamesInv, Owner, Seeking, NoUpload, NoWork, Placing, Adoptive
<1>5. GoneInv
  BY DEF MediaInit, GoneInv
<1>6. HashInv
  BY DEF MediaInit, HashInv, Hashing, NoHash, NoUpload, NoWork
<1>7. DiskInv
  BY DEF MediaInit, CacheInit, DiskInv, NoCopy, NoScan
<1>8. CacheInv
  BY DEF MediaInit, CacheInit, NoScan, CacheInv
<1>. QED
  BY <1>1, <1>2, <1>3, <1>4, <1>5, <1>6, <1>7, <1>8 DEF MediaIInv

(* Every step.                                                             *)
LEMMA MediaNextIInv == MediaIInv /\ [MediaNext]_mediaVars => MediaIInv'
<1>. QED
  BY NextMediaTypeOK, NextUploadInv, NextHashInv, NextQueueInv, NextNamesInv, NextDiskInv,
     NextGoneInv, NextCacheInv DEF MediaIInv

(* The inductive invariant holds throughout.                               *)
THEOREM MediaInvariance == MediaSpec => []MediaIInv
<1>. QED
  BY MediaInitIInv, MediaNextIInv, PTL DEF MediaSpec

(* MediaTypeOK: the variables keep their types.                            *)
THEOREM MediaTypeCorrect == MediaSpec => []MediaTypeOK
<1>1. MediaIInv => MediaTypeOK
  BY DEF MediaIInv
<1>. QED
  BY <1>1, MediaInvariance, PTL

(* DeletedDeviceLeavesNothing: whatever job or clean-up was under way, a   *)
(* device that was deleted has no job and no file afterwards, unless an    *)
(* upload was running, an adoption had hashed a document or a file of the  *)
(* clean-up, or the server stopped in the middle (late).                   *)
THEOREM NothingLeft == MediaSpec => []DeletedDeviceLeavesNothing
<1>1. MediaIInv => DeletedDeviceLeavesNothing
  BY DEF MediaIInv, GoneInv, Gone, DeletedDeviceLeavesNothing
<1>. QED
  BY <1>1, MediaInvariance, PTL

(* StagingIsOwned: every original in incoming/ has a request, a job or the *)
(* worker that will remove it.                                             *)
THEOREM StagingOwned == MediaSpec => []StagingIsOwned
<1>1. MediaIInv => StagingIsOwned
  BY DEF MediaIInv, QueueInv, StagingIsOwned, Requesting
<1>. QED
  BY <1>1, MediaInvariance, PTL

(* Where a file of a device may change.                                    *)
Explained ==
  \A d \in Devices, n \in Names :
    files[d][n] \notin {Nothing, files'[d][n]} /\ <<d, n>> \notin revived =>
      \/ /\ files'[d][n] = Nothing
         /\ operator.dev = d /\ (operator.at = "erase" \/ operator.name = n)
      \/ JobRemoved /\ worker.job # NoJob /\ Job.dev = d /\ Job.name = n
      \/ \E h \in Contents : Adopting(d, n, h) /\ files'[d][n] = stored[h]

(* An upload and a job put their file where nothing is.                    *)
LEMMA StepKeepsFiles ==
  ASSUME MediaTypeOK, UploadInv, HashInv, QueueInv, NamesInv, DiskInv, [MediaNext]_mediaVars
  PROVE  Explained
<1>a. /\ worker.at \in AtJob => worker.job \in Uploads /\ worker.job # NoJob
      /\ NoJob \notin Uploads
      /\ worker.at = "produced" => worker.at \in AtJob
  BY DEF MediaTypeOK, WorkerRecord, QueueInv, NoJob, Uploads, AtJob
<1>0. UNCHANGED files => Explained
  BY DEF Explained
<1>1. ASSUME NEW u \in Uploads, NEW d \in Devices, NEW c \in Contents, StartUpload(u, d, c)
      PROVE  Explained
  BY <1>0, <1>1 DEF StartUpload
<1>2. ASSUME NEW u \in Uploads, Claim(u) \/ Receive(u) \/ AddJob(u) \/ SendToken(u) \/
             CheckImage(u) \/ HashImage(u) \/ AnswerUpload(u)
      PROVE  Explained
  BY <1>0, <1>2 DEF Claim, Receive, AddJob, SendToken, CheckImage, HashImage, AnswerUpload
<1>3. ASSUME NEW u \in Uploads, ReuseResult(u) PROVE Explained
  <2>1. /\ up[u].at = "received" /\ up[u].dev \in Devices /\ up[u].name \in Names
        /\ Result(up[u].content) \in Contents \cup {Nothing}
    BY <1>3 DEF ReuseResult, UploadInv, Requesting, Placing, Result, Copy, MediaTypeOK,
       CacheTypeOK
  <2>2. \A d \in Devices, n \in Names :
          files'[d][n] = IF d = up[u].dev /\ n = up[u].name THEN Result(up[u].content) ELSE files[d][n]
    BY <1>3, <2>1, FilePut DEF ReuseResult, MediaTypeOK, CacheTypeOK
  <2>3. FileOf(u) = Nothing \/ Stray(up[u].dev, up[u].name)
    BY <2>1 DEF NamesInv, Seeking, Placing
  <2>. QED
    BY <1>a, <2>1, <2>2, <2>3 DEF Explained, FileOf, Stray
<1>4. ASSUME NEW u \in Uploads, MoveImage(u) PROVE Explained
  <2>1. CASE up[u].dev \in dirs
    <3>1. up[u].at = "moving" /\ up[u].dev \in Devices /\ up[u].name \in Names /\ up[u].content \in Contents
      BY <1>4, <2>1 DEF MoveImage, UploadInv, Requesting, Placing
    <3>2. \A d \in Devices, n \in Names :
            files'[d][n] = IF d = up[u].dev /\ n = up[u].name THEN up[u].content ELSE files[d][n]
      BY <1>4, <2>1, <3>1, FilePut DEF MoveImage, MediaTypeOK, CacheTypeOK
    <3>3. FileOf(u) = Nothing \/ Stray(up[u].dev, up[u].name)
      BY <3>1 DEF NamesInv, Seeking, Placing
    <3>. QED
      BY <1>a, <3>1, <3>2, <3>3 DEF Explained, FileOf, Stray
  <2>2. CASE up[u].dev \notin dirs
    BY <1>4, <2>2, <1>0 DEF MoveImage
  <2>. QED
    BY <2>1, <2>2
<1>5. ASSUME NEW u \in Uploads, LinkImage(u) PROVE Explained
  <2>1. up[u].dev \in Devices /\ up[u].name \in Names /\ hashed[u] \in Contents
    BY <1>5, ImageAdopts DEF LinkImage
  <2>2. Adopt(up[u].dev, up[u].name, hashed[u], {up[u].content})
    BY <1>5 DEF LinkImage
  <2>3. \A e \in Devices, m \in Names :
           files'[e][m] # files[e][m] => e = up[u].dev /\ m = up[u].name /\ files'[e][m] = stored[hashed[u]]
    BY <2>1, <2>2, AdoptMarks DEF MediaTypeOK
  <2>4. Adopting(up[u].dev, up[u].name, hashed[u])
    BY <1>5 DEF Adopting
  <2>. QED
    BY <2>1, <2>3, <2>4 DEF Explained
<1>6. CASE NextJob \/ Sleep \/ WakeUp \/ BeginJob \/ FailJob \/ KeepProduct \/ HashProduct \/
           FinishJob
  BY <1>0, <1>6 DEF NextJob, Sleep, WakeUp, BeginJob, FailJob, KeepProduct, HashProduct,
     FinishJob
<1>7. CASE Work
  <2>1. CASE files' = files
    BY <1>0, <2>1
  <2>2. CASE files' # files
    <3>1. worker.at = "work" /\ worker.job \in Uploads
      BY <1>7, <1>a DEF Work, AtJob
    <3>2. Job.dev \in Devices /\ Job.name \in Names /\ Job.content \in Contents
      BY <3>1, <1>a, JobIsUpload
    <3>3. \A d \in Devices, n \in Names :
            files'[d][n] = IF d = Job.dev /\ n = Job.name THEN Job.content ELSE files[d][n]
      BY <1>7, <2>2, <3>2, FilePut DEF Work, MediaTypeOK, CacheTypeOK
    <3>4. ~JobRemoved => FileOf(worker.job) = Nothing \/ Stray(Job.dev, Job.name)
      BY <3>1 DEF NamesInv, JobRemoved, Seeking, Made, Job
    <3>. QED
      BY <1>a, <3>1, <3>2, <3>3, <3>4 DEF Explained, FileOf, Job, Stray
  <2>. QED
    BY <2>1, <2>2
<1>8. CASE Discard
  <2>1. worker.job # NoJob /\ JobRemoved
    BY <1>8 DEF Discard, QueueInv, AtJob
  <2>2. Job.dev \in Devices /\ Job.name \in Names
    BY <2>1, JobIsUpload
  <2>3. \A d \in Devices, n \in Names :
          files'[d][n] = IF d = Job.dev /\ n = Job.name THEN Nothing ELSE files[d][n]
    BY <1>8, <2>2, FilePut DEF Discard, MediaTypeOK, CacheTypeOK
  <2>. QED
    BY <2>1, <2>2, <2>3 DEF Explained
<1>9. CASE LinkProduct
  <2>1. Job.dev \in Devices /\ Job.name \in Names /\ hashed[worker.job] \in Contents
    BY <1>9, ProductAdopts DEF LinkProduct
  <2>2. Adopt(Job.dev, Job.name, hashed[worker.job], {Job.content})
    BY <1>9 DEF LinkProduct
  <2>3. \A e \in Devices, m \in Names :
           files'[e][m] # files[e][m] => e = Job.dev /\ m = Job.name /\ files'[e][m] = stored[hashed[worker.job]]
    BY <2>1, <2>2, AdoptMarks DEF MediaTypeOK
  <2>4. Adopting(Job.dev, Job.name, hashed[worker.job])
    BY <1>9, ProductAdopts DEF LinkProduct, Adopting, Job
  <2>. QED
    BY <2>1, <2>3, <2>4 DEF Explained
<1>10. ASSUME NEW d \in Devices, DeleteDevice(d) \/ Register(d) PROVE Explained
  BY <1>0, <1>10 DEF DeleteDevice, Register
<1>11. ASSUME NEW d \in Devices, NEW n \in Names, DeleteMedia(d, n) PROVE Explained
  BY <1>0, <1>11 DEF DeleteMedia
<1>12. ASSUME NEW d \in Devices, NEW order, Reorder(d, order) PROVE Explained
  BY <1>0, <1>12 DEF Reorder
<1>13. CASE TidyPlaylist \/ RemoveDeviceJobs
  BY <1>0, <1>13 DEF TidyPlaylist, RemoveDeviceJobs
<1>14. CASE UnlinkMedia
  <2>1. operator.dev \in Devices /\ operator.name \in Names
    BY <1>14 DEF UnlinkMedia, UploadInv
  <2>2. \A d \in Devices, n \in Names :
          files'[d][n] = IF d = operator.dev /\ n = operator.name THEN Nothing ELSE files[d][n]
    BY <1>14, <2>1, FilePut DEF UnlinkMedia, MediaTypeOK, CacheTypeOK
  <2>. QED
    BY <2>1, <2>2 DEF Explained
<1>15. CASE EraseDevice
  <2>1. operator.dev \in Devices /\ operator.at = "erase"
    BY <1>15 DEF EraseDevice, UploadInv
  <2>2. \A d \in Devices, n \in Names :
          files'[d][n] = IF d = operator.dev THEN Nothing ELSE files[d][n]
    BY <1>15, <2>1 DEF EraseDevice, MediaTypeOK, CacheTypeOK
  <2>. QED
    BY <2>1, <2>2 DEF Explained
<1>16. ASSUME NEW q \in {Nothing} \cup (Quotas \ {quota}), BeginClean(q), OnlyCache
       PROVE  Explained
  BY <1>0, <1>16 DEF BeginClean
<1>17. ASSUME NEW d \in Devices, ListDevice(d), OnlyCache PROVE Explained
  BY <1>0, <1>17 DEF ListDevice
<1>18. ASSUME NEW n \in Names, LookAt(n) \/ HashUnknown(n), OnlyCache PROVE Explained
  BY <1>0, <1>18 DEF LookAt, HashUnknown
<1>19. ASSUME NEW n \in Names, LinkUnknown(n), OnlyCache PROVE Explained
  <2>1. scan.dev \in Devices /\ n \in Names /\ scan.hash \in Contents
    BY <1>19, CleanAdopts DEF LinkUnknown
  <2>2. Adopt(scan.dev, n, scan.hash, {})
    BY <1>19 DEF LinkUnknown
  <2>3. \A e \in Devices, m \in Names :
           files'[e][m] # files[e][m] => e = scan.dev /\ m = n /\ files'[e][m] = stored[scan.hash]
    BY <2>1, <2>2, AdoptMarks DEF MediaTypeOK
  <2>4. Adopting(scan.dev, n, scan.hash)
    BY <1>19 DEF LinkUnknown, Adopting
  <2>. QED
    BY <2>1, <2>3, <2>4 DEF Explained
<1>20. ASSUME FinishClean \/ SetQuota, OnlyCache PROVE Explained
  BY <1>0, <1>20 DEF FinishClean, SetQuota
<1>21. CASE RestartServer
  BY <1>21, <1>0 DEF RestartServer, CacheRestart
<1>22. CASE UNCHANGED mediaVars
  BY <1>0, <1>22
<1>. QED
  BY <1>1, <1>2, <1>3, <1>4, <1>5, <1>6, <1>7, <1>8, <1>9, <1>10, <1>11, <1>12, <1>13, <1>14,
     <1>15, <1>16, <1>17, <1>18, <1>19, <1>20, <1>21, <1>22 DEF MediaNext, Upload, RunJobs,
     Operate, CleanCache, Clean, OnlyCache

(* ReadyStays: a ready file is never written over and only goes with its   *)
(* deletion, but for the name of a job removed while the worker was at it, *)
(* for what an adoption puts in its place, and for a file an adoption has  *)
(* put back.                                                               *)
THEOREM ReadyFilesStay == MediaSpec => ReadyStays
<1>1. MediaIInv /\ [MediaNext]_mediaVars
        => [\A d \in Devices, n \in Names :
              files[d][n] \notin {Nothing, files'[d][n]} /\ <<d, n>> \notin revived =>
                \/ /\ files'[d][n] = Nothing
                   /\ operator.dev = d /\ (operator.at = "erase" \/ operator.name = n)
                \/ JobRemoved /\ worker.job # NoJob /\ Job.dev = d /\ Job.name = n
                \/ \E h \in Contents : Adopting(d, n, h) /\ files'[d][n] = stored[h]]_mediaVars
  BY StepKeepsFiles DEF MediaIInv, Explained
<1>. QED
  BY <1>1, MediaInvariance, PTL DEF MediaSpec, ReadyStays

(* What loses its last copy in a step is not the content of a device's     *)
(* file, unless an adoption of the file is yet to come.                    *)
UsedIsKept ==
  \A c \in Contents, d \in Devices, n \in Names :
    files[d][n] = c /\ stored[c] = c /\ (\A h \in Contents : stored'[h] # c) => AdoptionToCome(d, n)

(* Copies go only at the end of a clean-up, or when the server stops there.*)
LEMMA StepKeepsUsed ==
  ASSUME MediaTypeOK, UploadInv, HashInv, QueueInv, DiskInv, CacheInv, [MediaNext]_mediaVars
  PROVE  UsedIsKept
<1>b. Nothing \notin Contents /\ inUse \subseteq Contents /\ recent \subseteq Contents
  BY CacheAssumption DEF MediaTypeOK, CacheTypeOK
<1>c. ASSUME Scanned, NEW gone, gone \subseteq Idle, Evict(gone) PROVE UsedIsKept
  <2>. SUFFICES ASSUME NEW c \in Contents, NEW d \in Devices, NEW n \in Names,
                       files[d][n] = c, stored[c] = c, \A h \in Contents : stored'[h] # c
                PROVE  AdoptionToCome(d, n)
    BY DEF UsedIsKept
  <2>1. \A h \in Contents : h \in inUse \cup recent => stored'[h] = stored[h]
    BY <1>c DEF Idle, Evict
  <2>2. Spared(d, n)
    BY <1>c DEF Scanned, CacheInv
  <2>3. ~Copied(c, inUse \cup recent)
    BY <1>b, <2>1 DEF Copied
  <2>. QED
    BY <1>b, <2>2, <2>3 DEF Spared
<1>0. UNCHANGED stored => UsedIsKept
  BY DEF UsedIsKept
<1>1. ASSUME NEW u \in Uploads, NEW d \in Devices, NEW c \in Contents, StartUpload(u, d, c)
      PROVE  UsedIsKept
  BY <1>0, <1>1 DEF StartUpload
<1>2. ASSUME NEW u \in Uploads, Claim(u) \/ Receive(u) \/ ReuseResult(u) \/ AddJob(u) \/
             SendToken(u) \/ CheckImage(u) \/ MoveImage(u) \/ HashImage(u) \/ AnswerUpload(u)
      PROVE  UsedIsKept
  BY <1>0, <1>2 DEF Claim, Receive, ReuseResult, AddJob, SendToken, CheckImage, MoveImage,
     HashImage, AnswerUpload
<1>3. ASSUME NEW u \in Uploads, LinkImage(u) PROVE UsedIsKept
  <2>1. up[u].dev \in Devices /\ up[u].name \in Names /\ hashed[u] \in Contents
    BY <1>3, ImageAdopts DEF LinkImage
  <2>2. Adopt(up[u].dev, up[u].name, hashed[u], {up[u].content})
    BY <1>3 DEF LinkImage
  <2>3. \A g \in Contents : stored[g] # Nothing => stored'[g] = stored[g]
    BY <2>1, <2>2, AdoptCopies DEF MediaTypeOK
  <2>. QED
    BY <1>b, <2>3 DEF UsedIsKept
<1>4. CASE NextJob \/ Sleep \/ WakeUp \/ BeginJob \/ Work \/ Discard \/ FailJob \/ KeepProduct
           \/ HashProduct \/ FinishJob
  BY <1>0, <1>4 DEF NextJob, Sleep, WakeUp, BeginJob, Work, Discard, FailJob, KeepProduct,
     HashProduct, FinishJob
<1>5. CASE LinkProduct
  <2>1. Job.dev \in Devices /\ Job.name \in Names /\ hashed[worker.job] \in Contents
    BY <1>5, ProductAdopts DEF LinkProduct
  <2>2. Adopt(Job.dev, Job.name, hashed[worker.job], {Job.content})
    BY <1>5 DEF LinkProduct
  <2>3. \A g \in Contents : stored[g] # Nothing => stored'[g] = stored[g]
    BY <2>1, <2>2, AdoptCopies DEF MediaTypeOK
  <2>. QED
    BY <1>b, <2>3 DEF UsedIsKept
<1>6. ASSUME NEW d \in Devices, DeleteDevice(d) \/ Register(d) PROVE UsedIsKept
  BY <1>0, <1>6 DEF DeleteDevice, Register
<1>7. ASSUME NEW d \in Devices, NEW n \in Names, DeleteMedia(d, n) PROVE UsedIsKept
  BY <1>0, <1>7 DEF DeleteMedia
<1>8. ASSUME NEW d \in Devices, NEW order, Reorder(d, order) PROVE UsedIsKept
  BY <1>0, <1>8 DEF Reorder
<1>9. CASE UnlinkMedia \/ TidyPlaylist \/ RemoveDeviceJobs \/ EraseDevice
  BY <1>0, <1>9 DEF UnlinkMedia, TidyPlaylist, RemoveDeviceJobs, EraseDevice
<1>10. ASSUME NEW q \in {Nothing} \cup (Quotas \ {quota}), BeginClean(q), OnlyCache
       PROVE  UsedIsKept
  BY <1>0, <1>10 DEF BeginClean
<1>11. ASSUME NEW d \in Devices, ListDevice(d), OnlyCache PROVE UsedIsKept
  BY <1>0, <1>11 DEF ListDevice
<1>12. ASSUME NEW n \in Names, LookAt(n) \/ HashUnknown(n), OnlyCache PROVE UsedIsKept
  BY <1>0, <1>12 DEF LookAt, HashUnknown
<1>13. ASSUME NEW n \in Names, LinkUnknown(n), OnlyCache PROVE UsedIsKept
  <2>1. scan.dev \in Devices /\ n \in Names /\ scan.hash \in Contents
    BY <1>13, CleanAdopts DEF LinkUnknown
  <2>2. Adopt(scan.dev, n, scan.hash, {})
    BY <1>13 DEF LinkUnknown
  <2>3. \A g \in Contents : stored[g] # Nothing => stored'[g] = stored[g]
    BY <2>1, <2>2, AdoptCopies DEF MediaTypeOK
  <2>. QED
    BY <1>b, <2>3 DEF UsedIsKept
<1>14. ASSUME SetQuota, OnlyCache PROVE UsedIsKept
  BY <1>0, <1>14 DEF SetQuota
<1>15. ASSUME FinishClean, OnlyCache PROVE UsedIsKept
  <2>1. PICK gone \in Evictions : Evict(gone)
    BY <1>15 DEF FinishClean
  <2>2. gone \subseteq Idle
    BY <2>1 DEF Evictions
  <2>. QED
    BY <1>15, <2>1, <2>2, <1>c DEF FinishClean
<1>16. CASE RestartServer
  <2>1. PICK gone \in IF Scanned THEN SUBSET UNION Evictions ELSE {{}} : Evict(gone)
    BY <1>16 DEF RestartServer, CacheRestart
  <2>2. CASE Scanned
    <3>1. gone \subseteq Idle
      BY <2>1, <2>2 DEF Evictions
    <3>. QED
      BY <2>1, <2>2, <3>1, <1>c
  <2>3. CASE ~Scanned
    <3>1. gone = {}
      BY <2>1, <2>3
    <3>2. \A g \in Contents : stored'[g] = stored[g]
      BY <2>1, <3>1 DEF Evict
    <3>. QED
      BY <3>2 DEF UsedIsKept
  <2>. QED
    BY <2>2, <2>3
<1>17. CASE UNCHANGED mediaVars
  BY <1>0, <1>17
<1>. QED
  BY <1>1, <1>2, <1>3, <1>4, <1>5, <1>6, <1>7, <1>8, <1>9, <1>10, <1>11, <1>12, <1>13, <1>14,
     <1>15, <1>16, <1>17 DEF MediaNext, Upload, RunJobs, Operate, CleanCache, Clean, OnlyCache

(* InUseKept: the clean-up leaves a copy of every content that a device    *)
(* has, even of one linked or adopted while it was looking.                *)
THEOREM NothingInUseEvicted == MediaSpec => InUseKept
<1>1. MediaIInv /\ [MediaNext]_mediaVars
        => [\A c \in Contents, d \in Devices, n \in Names :
              files[d][n] = c /\ stored[c] = c /\ (\A h \in Contents : stored'[h] # c) =>
                \/ \E u \in Uploads : up[u].at \in {"moved", "hashed"} /\ up[u].dev = d /\ up[u].name = n
                \/ worker.at \in {"produced", "adopt", "hashed"} /\ Job.dev = d /\ Job.name = n]_mediaVars
  BY StepKeepsUsed DEF MediaIInv, UsedIsKept, AdoptionToCome, Adoptive
<1>. QED
  BY <1>1, MediaInvariance, PTL DEF MediaSpec, InUseKept
=================================================================================
