---------------------------- MODULE SupervisorProofs ----------------------------
(***************************************************************************)
(* What the player shows once it is settled, and that no pause is missed,  *)
(* whatever the number of orders, pauses and faults.                       *)
(*                                                                         *)
(* Neither is inductive.  Phases says what there is at each place of the   *)
(* supervisor, Answers that an answer finds the call it belongs to, and    *)
(* Kept that the last request on its way to the process, in the pipe, in a *)
(* call or in what runOnce noted, is the one that is wanted.               *)
(***************************************************************************)
EXTENDS Supervisor, TLAPS

Call    == [state : {"none", "write", "wait", "ok", "failed"}, live : BOOLEAN, req : Requests]
Message == [req : Requests, from : Callers \cup {None}]

(* Where there may be a process.                                           *)
Running == {"config", "register", "send", "watch"}

Phases ==
  /\ alive => super \in Running
  /\ ~alive => pipe = <<>> /\ shown = None /\ dimmed = Full /\ \A c \in Callers : ~calls[c].live
  /\ super \in Running \cup {"start"} => canceller /\ (paused => cancelled \/ captured)
  /\ proc <=> super \in {"send", "watch"}
  /\ plan # <<>> => super = "send"
  /\ calls["super"].state # "none" => super \in {"config", "send"}
  /\ super = "config" => calls["super"].req.cmd = "config"
  /\ calls["dog"].req.cmd = "stats"
  /\ super \in {"config", "register"} =>
       /\ shown = None /\ dimmed = Full /\ ~calls["agent"].live
       /\ \A i \in DOMAIN pipe : pipe[i].req.cmd \notin {"load", "brightness"}

(* A request in the pipe that is to be answered is the one its caller      *)
(* waits for.                                                              *)
Answers ==
  /\ \A i \in DOMAIN pipe : pipe[i].from # None =>
       calls[pipe[i].from].state = "wait" /\ calls[pipe[i].from].live
  /\ \A i, j \in DOMAIN pipe : pipe[i].from # None /\ pipe[i].from = pipe[j].from => i = j

(* A request that is still to be written to the process.                   *)
Pends(req) ==
  \/ \E i \in DOMAIN plan : plan[i] = req
  \/ \E c \in Callers : calls[c].state = "write" /\ calls[c].live /\ calls[c].req = req

(* The last request of a kind in a pipe is for what is wanted, or there is *)
(* none and this is what the process has.                                  *)
LastIs(p, cmd, has, wanted) ==
  \/ \E i \in DOMAIN p : /\ p[i].req.cmd = cmd /\ p[i].req.arg = wanted
                         /\ \A j \in DOMAIN p : p[j].req.cmd = cmd => j <= i
  \/ has = wanted /\ \A i \in DOMAIN p : p[i].req.cmd # cmd

Kinds       == {"load", "brightness"}
Has(cmd)    == IF cmd = "load" THEN shown ELSE dimmed
Wanted(cmd) == IF cmd = "load" THEN desired ELSE setting

Kept(cmd) ==
  alive /\ super \in {"send", "watch"} /\ cmd \notin raced =>
    /\ \A req \in Requests : Pends(req) /\ req.cmd = cmd => req.arg = Wanted(cmd)
    /\ (\A req \in Requests : Pends(req) => req.cmd # cmd) => LastIs(pipe, cmd, Has(cmd), Wanted(cmd))

IInv == TypeOK /\ Phases /\ Answers /\ \A cmd \in Kinds : Kept(cmd)

-----------------------------------------------------------------------------
\* The pipe

(* A request that is written is the last.                                  *)
LEMMA AppendLast ==
  ASSUME NEW p \in Seq(Message), NEW m \in Message, NEW cmd, NEW has, NEW wanted,
         IF m.req.cmd = cmd THEN m.req.arg = wanted ELSE LastIs(p, cmd, has, wanted)
  PROVE  LastIs(Append(p, m), cmd, has, wanted)
<1>. DEFINE q == Append(p, m)
<1>1. /\ DOMAIN q = 1 .. Len(p) + 1 /\ DOMAIN p = 1 .. Len(p) /\ Len(p) \in Nat
      /\ \A i \in DOMAIN p : i \in DOMAIN q /\ q[i] = p[i]
      /\ q[Len(p) + 1] = m
  OBVIOUS
<1>. HIDE DEF q
<1>2. CASE m.req.cmd = cmd
  <2>1. Len(p) + 1 \in DOMAIN q /\ \A j \in DOMAIN q : j <= Len(p) + 1
    BY <1>1
  <2>. QED
    BY <1>1, <1>2, <2>1 DEF LastIs, q
<1>3. CASE m.req.cmd # cmd
  <2>1. \A j \in DOMAIN q : q[j].req.cmd = cmd => j \in DOMAIN p
    BY <1>1, <1>3
  <2>2. LastIs(q, cmd, has, wanted)
    BY <1>1, <1>3, <2>1 DEF LastIs
  <2>. QED
    BY <2>2 DEF q
<1>. QED
  BY <1>2, <1>3

(* One that is handled is what the process has.                            *)
LEMMA TailLast ==
  ASSUME NEW p \in Seq(Message), p # <<>>, NEW cmd, NEW has, NEW wanted, LastIs(p, cmd, has, wanted)
  PROVE  LastIs(Tail(p), cmd, IF Head(p).req.cmd = cmd THEN Head(p).req.arg ELSE has, wanted)
<1>. DEFINE q == Tail(p)
<1>1. /\ DOMAIN p = 1 .. Len(p) /\ DOMAIN q = 1 .. Len(p) - 1 /\ Len(p) \in Nat \ {0}
      /\ \A i \in DOMAIN q : i + 1 \in DOMAIN p /\ q[i] = p[i + 1]
      /\ \A i \in DOMAIN p : i # 1 => i - 1 \in DOMAIN q /\ q[i - 1] = p[i]
      /\ Head(p) = p[1]
  OBVIOUS
<1>. HIDE DEF q
<1>2. CASE \E i \in DOMAIN p : i # 1 /\ p[i].req.cmd = cmd
  <2>1. PICK i \in DOMAIN p : p[i].req.cmd = cmd /\ p[i].req.arg = wanted
                              /\ \A j \in DOMAIN p : p[j].req.cmd = cmd => j <= i
    BY <1>2 DEF LastIs
  <2>2. i \in Nat /\ i # 1
    <3>1. PICK k \in DOMAIN p : k # 1 /\ p[k].req.cmd = cmd
      BY <1>2
    <3>2. k \in 1 .. Len(p) /\ i \in 1 .. Len(p) /\ k <= i
      BY <1>1, <2>1, <3>1
    <3>. QED
      BY <1>1, <3>1, <3>2
  <2>3. i - 1 \in DOMAIN q /\ q[i - 1] = p[i]
    BY <1>1, <2>2
  <2>4. \A j \in DOMAIN q : q[j].req.cmd = cmd => j <= i - 1
    BY <1>1, <2>1, <2>2
  <2>5. LastIs(q, cmd, IF Head(p).req.cmd = cmd THEN Head(p).req.arg ELSE has, wanted)
    BY <2>1, <2>3, <2>4 DEF LastIs
  <2>. QED
    BY <2>5 DEF q
<1>3. CASE \A i \in DOMAIN p : i # 1 => p[i].req.cmd # cmd
  <2>1. \A i \in DOMAIN q : q[i].req.cmd # cmd
    BY <1>1, <1>3
  <2>2. (IF Head(p).req.cmd = cmd THEN Head(p).req.arg ELSE has) = wanted
    BY <1>1, <1>3 DEF LastIs
  <2>3. LastIs(q, cmd, IF Head(p).req.cmd = cmd THEN Head(p).req.arg ELSE has, wanted)
    BY <2>1, <2>2 DEF LastIs
  <2>. QED
    BY <2>3 DEF q
<1>. QED
  BY <1>2, <1>3

(* Who waits for the answer makes no difference.                           *)
LEMMA SameLast ==
  ASSUME NEW p, NEW q, DOMAIN p = DOMAIN q, \A i \in DOMAIN p : q[i].req = p[i].req,
         NEW cmd, NEW has, NEW wanted, LastIs(p, cmd, has, wanted)
  PROVE  LastIs(q, cmd, has, wanted)
BY DEF LastIs

-----------------------------------------------------------------------------
\* What is kept

(* A step that neither adds nor drops a request of a kind, nor changes     *)
(* what is wanted.                                                         *)
LEMMA Kept_Same ==
  ASSUME NEW cmd \in Kinds, Kept(cmd), Wanted(cmd)' = Wanted(cmd),
         alive' /\ super' \in {"send", "watch"} /\ cmd \notin raced'
           => alive /\ super \in {"send", "watch"} /\ cmd \notin raced,
         \A req \in Requests : req.cmd = cmd => (Pends(req)' <=> Pends(req)),
         LastIs(pipe, cmd, Has(cmd), Wanted(cmd)) => LastIs(pipe, cmd, Has(cmd), Wanted(cmd))'
  PROVE  Kept(cmd)'
BY DEF Kept

(* What is there without a request.                                        *)
LEMMA NoCallType ==
  /\ NoCall \in Call /\ NoCall.state = "none" /\ ~NoCall.live /\ NoCall.req.cmd = "stats"
  /\ \A req \in Requests : NewCall(req) \in [state : {"write"}, live : {alive}, req : {req}]
  /\ Request("stats", None) \in Requests /\ Request("config", None) \in Requests
  /\ \A s \in Scenes : Request("load", s) \in Requests
  /\ \A v \in Settings : Request("brightness", v) \in Requests
BY DEF NoCall, NewCall, Call, Requests, Request

LEMMA Types ==
  TypeOK => /\ calls \in [Callers -> Call] /\ pipe \in Seq(Message) /\ plan \in Seq(Requests)
            /\ \A i \in DOMAIN pipe : pipe[i] \in Message
            /\ alive \in BOOLEAN
<1>1. TypeOK => calls \in [Callers -> Call] /\ plan \in Seq(Requests) /\ alive \in BOOLEAN
  BY DEF TypeOK, Call
<1>2. TypeOK => pipe \in Seq(Message)
  BY DEF TypeOK, Message
<1>. QED
  BY <1>1, <1>2

-----------------------------------------------------------------------------
\* The console, the supervisor, and a process that hangs

(* Where nothing is sent and no call changes.                              *)
LEMMA Quiet_Inv ==
  ASSUME IInv, Hang \/ SetPaused \/ Supervise \/ StartFails \/ Watch
  PROVE  IInv'
<1>1. UNCHANGED <<desired, setting, proc, plan, calls, alive, pipe, shown, dimmed, raced, orders>>
  BY DEF Hang, SetPaused, Pause, CancelRun, Resume, WakeUp, Supervise, WaitUnpaused, Woken, BeginRun,
     EndRun, Delay, StartFails, Watch, lock, process, bounds
<1>2. super' = super \/ (super = "send" /\ super' = "watch")
      \/ (super \in {"wait", "blocked", "begin", "delay", "ended", "start"}
          /\ super' \in {"wait", "blocked", "begin", "delay", "ended", "start"})
  BY DEF Hang, SetPaused, Pause, CancelRun, Resume, WakeUp, Supervise, WaitUnpaused, Woken, BeginRun,
     EndRun, Delay, StartFails, Watch
<1>3. TypeOK'
  <2>. USE DEF Hang, Fault, SetPaused, Pause, CancelRun, Resume, WakeUp, Supervise, WaitUnpaused, Woken,
           BeginRun, EndRun, Delay, StartFails, Watch, lock, process, bounds
  <2>1. pauses' \in 0 .. MaxPauses /\ faults' \in 0 .. MaxFaults
    BY SupervisorAssumption DEF IInv, TypeOK
  <2>2. rescue' \in {"idle", "cancel", "wake"} /\ {paused, canceller, wake, captured}' \subseteq BOOLEAN
    BY DEF IInv, TypeOK
  <2>3. {watching, cancelled, hung}' \subseteq BOOLEAN
    BY DEF IInv, TypeOK
  <2>4. super' \in {"wait", "blocked", "begin", "start", "config", "register", "send", "watch", "ended", "delay"}
    BY <1>2 DEF IInv, TypeOK
  <2>. QED
    BY <1>1, <2>1, <2>2, <2>3, <2>4 DEF IInv, TypeOK
<1>4. super' \in Running \cup {"start"} => canceller' /\ (paused' => cancelled' \/ captured')
  BY <1>2
  DEF IInv, Phases, Running, Hang, SetPaused, Pause, CancelRun, Resume, WakeUp, Supervise, WaitUnpaused,
      Woken, BeginRun, EndRun, Delay, StartFails, Watch, lock, process, bounds
<1>5. super = "send" /\ super' = "watch" => calls["super"].state = "none" /\ plan = <<>>
  BY DEF Hang, SetPaused, Pause, CancelRun, Resume, WakeUp, Supervise, WaitUnpaused, Woken, BeginRun,
     EndRun, Delay, StartFails, Watch
<1>6. Phases'
  BY <1>1, <1>2, <1>4, <1>5 DEF IInv, Phases, Running
<1>7. Answers'
  BY <1>1 DEF IInv, Answers
<1>8. \A cmd \in Kinds : Kept(cmd)'
  BY <1>1, <1>2 DEF IInv, Kept, Kinds, Pends, Has, Wanted
<1>. QED
  BY <1>3, <1>6, <1>7, <1>8 DEF IInv

-----------------------------------------------------------------------------
\* The process

(* The end of a process, whoever makes it.                                 *)
LEMMA Gone_Inv ==
  ASSUME IInv, Die \/ ContextKills \/ ConfigFails \/ Kill
  PROVE  IInv'
<1>1. /\ UNCHANGED <<desired, setting, proc, paused, canceller, wake, plan, rescue, captured, cancelled,
                     raced, orders, pauses>>
      /\ watching' \in {watching, FALSE}
      /\ \/ super' = super /\ Gone(calls)
         \/ super' = super /\ Gone([calls EXCEPT !["dog"] = NoCall])
         \/ super = "config" /\ super' = "ended" /\ Gone([calls EXCEPT !["super"] = NoCall])
  BY DEF Die, ContextKills, ConfigFails, Kill, lock, bounds
<1>2. PICK cs \in [Callers -> Call] :
        /\ Gone(cs)
        /\ cs["agent"] = calls["agent"] /\ cs["dog"] \in {calls["dog"], NoCall}
        /\ \/ super' = super /\ cs["super"] = calls["super"]
           \/ super = "config" /\ super' = "ended" /\ cs["super"] = NoCall
  <2>1. calls \in [Callers -> Call]
    BY Types DEF IInv
  <2>2. \A c \in Callers : [calls EXCEPT ![c] = NoCall] \in [Callers -> Call]
    BY <2>1, NoCallType
  <2>. QED
    BY <1>1, <2>1, <2>2 DEF Callers
<1>3. /\ calls' \in [Callers -> Call]
      /\ \A c \in Callers : ~calls'[c].live /\ calls'[c].state = cs[c].state /\ calls'[c].req = cs[c].req
      /\ ~alive' /\ ~hung' /\ pipe' = <<>> /\ shown' = None /\ dimmed' = Full
  BY <1>2 DEF Gone, Call
<1>4. faults' \in 0 .. MaxFaults
  BY SupervisorAssumption DEF IInv, TypeOK, Die, Fault, ContextKills, ConfigFails, Kill, bounds
<1>5. TypeOK'
  <2>1. pipe' \in Seq([req : Requests, from : Callers \cup {None}])
    BY <1>3
  <2>2. alive' \in BOOLEAN /\ hung' \in BOOLEAN /\ watching' \in BOOLEAN
    BY <1>1, <1>2 DEF IInv, TypeOK, Gone
  <2>3. super' \in {"wait", "blocked", "begin", "start", "config", "register", "send", "watch", "ended", "delay"}
    BY <1>2 DEF IInv, TypeOK
  <2>. QED
    BY <1>1, <1>3, <1>4, <2>1, <2>2, <2>3, SupervisorAssumption DEF IInv, TypeOK, Call
<1>6. Phases'
  <2>1. /\ calls'["super"].state # "none" => super' \in {"config", "send"}
        /\ super' = "config" => calls'["super"].req.cmd = "config"
        /\ calls'["dog"].req.cmd = "stats" /\ ~calls'["agent"].live
    BY <1>1, <1>2, <1>3, NoCallType DEF IInv, Phases, Callers
  <2>2. /\ proc' <=> super' \in {"send", "watch"}
        /\ super' \in Running \cup {"start"} => canceller' /\ (paused' => cancelled' \/ captured')
        /\ plan' # <<>> => super' = "send"
    BY <1>1, <1>2 DEF IInv, Phases, Running
  <2>. QED
    BY <1>3, <2>1, <2>2 DEF Phases
<1>7. Answers'
  BY <1>3 DEF Answers
<1>8. \A cmd \in Kinds : Kept(cmd)'
  BY <1>3 DEF Kept
<1>. QED
  BY <1>5, <1>6, <1>7, <1>8 DEF IInv

(* A request that is handled, or refused.                                  *)
LEMMA Handled_Inv == ASSUME IInv, Handle \/ Refuse PROVE IInv'
<1>. DEFINE m == Head(pipe)
<1>1. /\ alive /\ pipe # <<>> /\ pipe' = Tail(pipe)
      /\ UNCHANGED <<lock, super, plan, rescue, captured, watching, cancelled, alive, hung, orders, pauses>>
      /\ calls' = Answered(m.from, "ok") \/ calls' = Answered(m.from, "failed")
  BY DEF Handle, Refuse, bounds
<1>2. /\ pipe \in Seq(Message) /\ calls \in [Callers -> Call]
      /\ DOMAIN pipe = 1 .. Len(pipe) /\ Len(pipe) \in Nat \ {0}
      /\ Tail(pipe) \in Seq(Message) /\ DOMAIN Tail(pipe) = 1 .. Len(pipe) - 1
      /\ \A i \in DOMAIN Tail(pipe) : i + 1 \in DOMAIN pipe /\ Tail(pipe)[i] = pipe[i + 1]
      /\ m = pipe[1] /\ 1 \in DOMAIN pipe /\ \A i \in DOMAIN pipe : pipe[i] \in Message
  BY <1>1, Types DEF IInv
<1>3. m \in Message
  BY <1>2
<1>. HIDE DEF m
<1>4. /\ calls' \in [Callers -> Call]
      /\ \A c \in Callers : /\ calls'[c].live = calls[c].live /\ calls'[c].req = calls[c].req
                            /\ c # m.from \/ m.from = None => calls'[c] = calls[c]
      /\ m.from # None => m.from \in Callers /\ calls'[m.from].state \in {"ok", "failed"}
  <2>1. m.from \in Callers \cup {None}
    BY <1>3 DEF Message
  <2>2. CASE m.from = None
    BY <1>1, <1>2, <2>2 DEF Answered
  <2>3. CASE m.from # None
    <3>1. PICK r \in {"ok", "failed"} : calls' = [calls EXCEPT ![m.from].state = r]
      BY <1>1, <2>3 DEF Answered
    <3>. QED
      BY <1>2, <2>1, <2>3, <3>1 DEF Call
  <2>. QED
    BY <2>2, <2>3
<1>5. m.from # None => calls[m.from].state = "wait"
  BY <1>2 DEF IInv, Answers
<1>6. /\ faults' \in 0 .. MaxFaults /\ raced' \subseteq Kinds /\ raced \subseteq raced'
      /\ shown' \in Scenes \cup {None} /\ dimmed' \in Settings
  <2>1. /\ m.req.cmd = "load" => m.req.arg \in Scenes
        /\ m.req.cmd = "brightness" => m.req.arg \in Settings
    BY <1>3 DEF Message, Requests
  <2>2. faults' \in 0 .. MaxFaults
    BY SupervisorAssumption DEF IInv, TypeOK, Handle, Refuse, Fault, bounds
  <2>3. raced' \subseteq Kinds /\ raced \subseteq raced'
    BY DEF IInv, TypeOK, Handle, Refuse, Kinds
  <2>4. shown' \in Scenes \cup {None} /\ dimmed' \in Settings
    BY <2>1 DEF IInv, TypeOK, Handle, Refuse, m
  <2>. QED
    BY <2>2, <2>3, <2>4
<1>7. TypeOK'
  BY <1>1, <1>2, <1>4, <1>6 DEF IInv, TypeOK, lock, Call, Message, Kinds
<1>8. Phases'
  <2>1. m.req.cmd \in {"load", "brightness"} => super \notin {"config", "register"}
    BY <1>2 DEF IInv, Phases
  <2>2. super \in {"config", "register"} => shown' = None /\ dimmed' = Full
    BY <1>1, <2>1 DEF IInv, Phases, Handle, Refuse, m
  <2>3. super \in {"config", "register"} => \A i \in DOMAIN pipe' : pipe'[i].req.cmd \notin {"load", "brightness"}
    BY <1>1, <1>2 DEF IInv, Phases
  <2>4. calls'["super"].state # "none" => calls["super"].state # "none"
    BY <1>4, <1>5 DEF Callers
  <2>. QED
    BY <1>1, <1>4, <2>2, <2>3, <2>4 DEF IInv, Phases, lock, Callers
<1>9. Answers'
  <2>1. \A i \in DOMAIN pipe' : i + 1 \in DOMAIN pipe /\ i + 1 # 1 /\ pipe'[i] = pipe[i + 1]
    BY <1>1, <1>2
  <2>2. \A i \in DOMAIN pipe' : pipe'[i].from # None => pipe'[i].from # m.from /\ pipe'[i].from \in Callers
    <3>1. ASSUME NEW i \in DOMAIN pipe', pipe'[i].from # None
          PROVE  pipe'[i].from # m.from /\ pipe'[i].from \in Callers
      <4>1. pipe[i + 1].from # None /\ i + 1 \in DOMAIN pipe /\ pipe'[i].from = pipe[i + 1].from
        BY <2>1, <3>1
      <4>2. pipe[i + 1].from \in Callers
        BY <1>2, <4>1 DEF Message
      <4>3. pipe[i + 1].from # pipe[1].from
        BY <1>2, <2>1, <4>1 DEF IInv, Answers
      <4>. QED
        BY <1>2, <4>1, <4>2, <4>3
    <3>. QED
      BY <3>1
  <2>3. \A i, j \in DOMAIN pipe' : i + 1 = j + 1 => i = j
    BY <1>1, <1>2
  <2>. QED
    BY <1>4, <2>1, <2>2, <2>3 DEF IInv, Answers
<1>10. ASSUME NEW cmd \in Kinds PROVE Kept(cmd)'
  <2>1. \A req \in Requests : Pends(req)' <=> Pends(req)
    <3>1. \A c \in Callers : calls'[c].state = "write" <=> calls[c].state = "write"
      BY <1>4, <1>5
    <3>. QED
      BY <1>1, <1>4, <3>1 DEF Pends
  <2>2. Wanted(cmd)' = Wanted(cmd)
    BY <1>1 DEF Wanted, lock
  <2>3. cmd \notin raced' => Has(cmd)' = IF m.req.cmd = cmd THEN m.req.arg ELSE Has(cmd)
    BY DEF Handle, Refuse, Kinds, Has, m
  <2>4. cmd \notin raced' /\ LastIs(pipe, cmd, Has(cmd), Wanted(cmd))
        => LastIs(pipe', cmd, Has(cmd)', Wanted(cmd)')
    BY <1>1, <1>2, <2>2, <2>3, TailLast DEF m
  <2>. QED
    BY <1>1, <1>6, <2>1, <2>2, <2>4 DEF IInv, Kept
<1>. QED
  BY <1>7, <1>8, <1>9, <1>10 DEF IInv

-----------------------------------------------------------------------------
\* The calls

(* A step of one call, or between two.                                     *)
LEMMA CallSet ==
  ASSUME TypeOK, NEW c \in Callers, NEW call \in Call, calls' = [calls EXCEPT ![c] = call]
  PROVE  /\ calls' \in [Callers -> Call] /\ calls'[c] = call
         /\ \A d \in Callers : d # c => calls'[d] = calls[d]
BY Types

(* What is the same when only one call changes, and it has nothing to      *)
(* write before or after.                                                  *)
LEMMA Silent ==
  ASSUME IInv, NEW c \in Callers, NEW call \in Call,
         calls' = [calls EXCEPT ![c] = call],
         UNCHANGED <<lock, super, plan, rescue, captured, watching, cancelled, process, raced, orders, pauses>>,
         faults' \in 0 .. MaxFaults,
         ~call.live \/ calls[c].live,
         calls[c].state # "write" \/ ~calls[c].live, call.state # "write",
         calls[c].state # "wait" \/ ~calls[c].live,
         c = "dog" => call.req.cmd = "stats",
         c = "super" => call.state = "none" \/ calls[c].state # "none",
         c = "super" => call.req.cmd = calls[c].req.cmd \/ super # "config"
  PROVE  IInv'
<1>1. /\ calls' \in [Callers -> Call] /\ calls'[c] = call
      /\ \A d \in Callers : d # c => calls'[d] = calls[d]
  BY CallSet DEF IInv
<1>2. TypeOK'
  BY <1>1 DEF IInv, TypeOK, Call, lock, process
<1>3. Phases'
  BY <1>1 DEF IInv, Phases, lock, process, Callers
<1>4. Answers'
  <2>1. \A i \in DOMAIN pipe : pipe[i] \in Message
    BY Types DEF IInv
  <2>2. \A i \in DOMAIN pipe : pipe[i].from # None => pipe[i].from \in Callers
    BY <2>1 DEF Message
  <2>3. pipe' = pipe
    BY DEF process
  <2>. QED
    BY <1>1, <2>2, <2>3 DEF IInv, Answers
<1>5. ASSUME NEW cmd \in Kinds PROVE Kept(cmd)'
  <2>1. \A req \in Requests : Pends(req)' <=> Pends(req)
    BY <1>1 DEF Pends
  <2>. QED
    BY <2>1 DEF IInv, Kept, Wanted, Has, lock, process
<1>. QED
  BY <1>2, <1>3, <1>4, <1>5 DEF IInv

(* Calls that fail, that are over, or that leave nothing to be written.    *)
LEMMA Over_Inv ==
  ASSUME IInv, (\E c \in Callers : Dead(c)) \/ Return \/ Sent \/ Alright
  PROVE  IInv'
<1>1. \A c \in Callers : calls[c] \in Call
  BY Types DEF IInv
<1>2. faults \in 0 .. MaxFaults
  BY DEF IInv, TypeOK
<1>3. ASSUME NEW c \in Callers, Dead(c) PROVE IInv'
  <2>. DEFINE call == [calls[c] EXCEPT !.state = "failed"]
  <2>1. call \in Call /\ call.live = calls[c].live /\ call.req = calls[c].req /\ call.state = "failed"
    BY <1>1 DEF Call
  <2>2. calls' = [calls EXCEPT ![c] = call]
    BY <1>3 DEF Dead
  <2>. HIDE DEF call
  <2>3. calls[c].state = "wait" /\ ~calls[c].live
        /\ UNCHANGED <<lock, super, plan, rescue, captured, watching, cancelled, process, raced, orders, pauses>>
        /\ faults' = faults
    BY <1>3 DEF Dead, bounds
  <2>4. c = "dog" => call.req.cmd = "stats"
    BY <2>1 DEF IInv, Phases
  <2>. QED
    BY <1>2, <2>1, <2>2, <2>3, <2>4, Silent
<1>4. CASE Return
  BY <1>2, <1>4, NoCallType, Silent DEF Return, Over, Callers, bounds
<1>5. CASE Sent
  BY <1>2, <1>5, NoCallType, Silent DEF Sent, Over, Callers, bounds
<1>6. CASE Alright
  BY <1>2, <1>6, NoCallType, Silent DEF Alright, Callers, bounds
<1>. QED
  BY <1>3, <1>4, <1>5, <1>6

(* An answer is to nobody but its caller.                                  *)
LEMMA AnswersSet ==
  ASSUME IInv, NEW c \in Callers, calls[c].state # "wait" \/ ~calls[c].live, pipe' = pipe,
         \A d \in Callers : d # c => calls'[d] = calls[d]
  PROVE  Answers'
<1>1. \A i \in DOMAIN pipe : pipe[i] \in Message
  BY Types DEF IInv
<1>2. \A i \in DOMAIN pipe : pipe[i].from # None => pipe[i].from \in Callers
  BY <1>1 DEF Message
<1>. QED
  BY <1>2 DEF IInv, Answers

(* The process is configured, or has ended.                                *)
LEMMA Configured_Inv == ASSUME IInv, Configured PROVE IInv'
<1>1. /\ calls' \in [Callers -> Call] /\ calls'["super"] = NoCall
      /\ \A d \in Callers : d # "super" => calls'[d] = calls[d]
  BY CallSet, NoCallType DEF Configured, Callers, IInv
<1>2. TypeOK'
  BY <1>1 DEF Configured, IInv, TypeOK, Call, lock, process, bounds
<1>3. Phases'
  BY <1>1, NoCallType DEF Configured, IInv, Phases, lock, process, Callers, Running
<1>4. Answers'
  BY <1>1, AnswersSet DEF Configured, process, Callers
<1>. QED
  BY <1>2, <1>3, <1>4 DEF Configured, IInv, Kept

LEMMA ProcessEnded_Inv == ASSUME IInv, ProcessEnded PROVE IInv'
<1>1. /\ calls' \in [Callers -> Call] /\ calls'["dog"] = NoCall
      /\ \A d \in Callers : d # "dog" => calls'[d] = calls[d]
  BY CallSet, NoCallType DEF ProcessEnded, Callers, IInv
<1>2. TypeOK'
  BY <1>1 DEF ProcessEnded, IInv, TypeOK, Call, process, bounds
<1>3. Phases'
  BY <1>1, NoCallType DEF ProcessEnded, IInv, Phases, process, Callers, Running
<1>4. Answers'
  BY DEF ProcessEnded, IInv, Phases, Answers, process
<1>. QED
  BY <1>2, <1>3, <1>4 DEF ProcessEnded, IInv, Kept

(* The process starts.                                                     *)
LEMMA StartProcess_Inv == ASSUME IInv, StartProcess PROVE IInv'
<1>. DEFINE call == [NewCall(Request("config", None)) EXCEPT !.live = TRUE]
<1>1. call \in Call /\ call.req.cmd = "config" /\ call.live
  BY NoCallType DEF NewCall, Call, Request
<1>2. calls' = [calls EXCEPT !["super"] = call]
  BY DEF StartProcess
<1>. HIDE DEF call
<1>3. /\ calls' \in [Callers -> Call] /\ calls'["super"] = call
      /\ \A d \in Callers : d # "super" => calls'[d] = calls[d]
  BY <1>1, <1>2, CallSet DEF Callers, IInv
<1>4. ~alive /\ pipe = <<>>
  BY DEF StartProcess, IInv, Phases, Running
<1>5. TypeOK'
  BY <1>3 DEF StartProcess, IInv, TypeOK, Call, lock, bounds
<1>6. Phases'
  <2>1. /\ super = "start" /\ super' = "config" /\ alive' = TRUE
        /\ UNCHANGED <<paused, canceller, cancelled, captured, proc, plan, pipe, shown, dimmed>>
    BY DEF StartProcess, lock
  <2>2. calls'["super"].req.cmd = "config" /\ calls'["dog"].req.cmd = "stats" /\ ~calls'["agent"].live
    BY <1>1, <1>3, <1>4 DEF IInv, Phases, Callers
  <2>. QED
    BY <1>4, <2>1, <2>2 DEF IInv, Phases, Running
<1>7. Answers'
  BY <1>4 DEF StartProcess, Answers
<1>. QED
  BY <1>5, <1>6, <1>7 DEF StartProcess, IInv, Kept

(* The watchdog asks.                                                      *)
LEMMA Tick_Inv == ASSUME IInv, Tick PROVE IInv'
<1>. DEFINE call == NewCall(Request("stats", None))
<1>1. call \in Call /\ call.req.cmd = "stats" /\ call.live = alive
  BY NoCallType, Types DEF NewCall, Call, Request, IInv
<1>2. calls' = [calls EXCEPT !["dog"] = call]
  BY DEF Tick
<1>. HIDE DEF call
<1>3. /\ calls' \in [Callers -> Call] /\ calls'["dog"] = call
      /\ \A d \in Callers : d # "dog" => calls'[d] = calls[d]
  BY <1>1, <1>2, CallSet DEF Callers, IInv
<1>4. TypeOK'
  BY <1>3 DEF Tick, IInv, TypeOK, Call, lock, process, bounds
<1>5. Phases'
  BY <1>1, <1>3 DEF Tick, IInv, Phases, lock, process, Callers
<1>6. Answers'
  BY <1>3, AnswersSet DEF Tick, process, Callers
<1>7. ASSUME NEW cmd \in Kinds PROVE Kept(cmd)'
  <2>1. \A req \in Requests : req.cmd = cmd => (Pends(req)' <=> Pends(req))
    BY <1>1, <1>3 DEF Pends, Tick, Kinds, Callers
  <2>. QED
    BY <2>1 DEF Tick, IInv, Kept, Wanted, Has, lock, process
<1>. QED
  BY <1>4, <1>5, <1>6, <1>7 DEF IInv

(* A request is written to the pipe, or the process is gone.               *)
LEMMA Write_Inv == ASSUME IInv, NEW c \in Callers, Write(c) PROVE IInv'
<1>1. calls[c] \in Call /\ calls[c].state = "write" /\ pipe \in Seq(Message)
      /\ UNCHANGED <<lock, super, plan, rescue, captured, watching, cancelled, alive, hung, shown, dimmed,
                     raced, orders, pauses, faults>>
  BY Types DEF Write, IInv, bounds
<1>2. CASE ~calls[c].live
  <2>. DEFINE call == [calls[c] EXCEPT !.state = "failed"]
  <2>1. call \in Call /\ call.live = calls[c].live /\ call.req = calls[c].req /\ call.state = "failed"
    BY <1>1 DEF Call
  <2>2. calls' = [calls EXCEPT ![c] = call] /\ pipe' = pipe
    BY <1>2 DEF Write
  <2>. HIDE DEF call
  <2>3. c = "dog" => call.req.cmd = "stats"
    BY <2>1 DEF IInv, Phases
  <2>4. faults' \in 0 .. MaxFaults
    BY <1>1 DEF IInv, TypeOK
  <2>. QED
    BY <1>1, <1>2, <2>1, <2>2, <2>3, <2>4, Silent DEF process
<1>3. CASE calls[c].live
  <2>. DEFINE call == [calls[c] EXCEPT !.state = "wait"]
              m    == [req |-> calls[c].req, from |-> c]
  <2>1. call \in Call /\ call.live = calls[c].live /\ call.req = calls[c].req /\ call.state = "wait"
    BY <1>1 DEF Call
  <2>2. m \in Message /\ m.req = calls[c].req /\ m.from = c
    BY <1>1 DEF Call, Message
  <2>3. calls' = [calls EXCEPT ![c] = call] /\ pipe' = Append(pipe, m)
    BY <1>3 DEF Write
  <2>. HIDE DEF call, m
  <2>4. /\ calls' \in [Callers -> Call] /\ calls'[c] = call
        /\ \A d \in Callers : d # c => calls'[d] = calls[d]
    BY <2>1, <2>3, CallSet DEF IInv
  <2>5. /\ pipe' \in Seq(Message)
        /\ \A i \in DOMAIN pipe' : (i \in DOMAIN pipe /\ pipe'[i] = pipe[i] /\ pipe[i] \in Message)
                                   \/ (i = Len(pipe) + 1 /\ pipe'[i] = m)
    BY <1>1, <2>2, <2>3
  <2>6. alive
    BY <1>3 DEF IInv, Phases
  <2>7. TypeOK'
    <3>1. pipe' \in Seq([req : Requests, from : Callers \cup {None}])
      BY <2>5 DEF Message
    <3>. QED
      BY <1>1, <2>4, <3>1 DEF IInv, TypeOK, Call, lock
  <2>8. super \in {"config", "register"} => calls[c].req.cmd \notin {"load", "brightness"}
    BY <1>1, <1>3 DEF IInv, Phases, Callers
  <2>9. Phases'
    BY <1>1, <2>1, <2>2, <2>4, <2>5, <2>6, <2>8 DEF IInv, Phases, lock, Callers
  <2>10. Answers'
    <3>1. \A i \in DOMAIN pipe : pipe[i].from # None => pipe[i].from # c
      BY <1>1 DEF IInv, Answers
    <3>5. \A i \in DOMAIN pipe : pipe[i] \in Message
      BY <1>1
    <3>2. \A i \in DOMAIN pipe : pipe[i].from # None => pipe[i].from \in Callers
      BY <3>5 DEF Message
    <3>3. \A i \in DOMAIN pipe' : pipe'[i].from # None =>
            calls'[pipe'[i].from].state = "wait" /\ calls'[pipe'[i].from].live
      <4>1. ASSUME NEW i \in DOMAIN pipe', pipe'[i].from # None
            PROVE  calls'[pipe'[i].from].state = "wait" /\ calls'[pipe'[i].from].live
        <5>1. CASE i \in DOMAIN pipe /\ pipe'[i] = pipe[i]
          <6>1. pipe[i].from \in Callers /\ pipe[i].from # c
            BY <3>1, <3>2, <4>1, <5>1
          <6>. QED
            BY <2>4, <4>1, <5>1, <6>1 DEF IInv, Answers
        <5>2. CASE pipe'[i] = m
          BY <1>3, <2>1, <2>2, <2>4, <5>2
        <5>. QED
          BY <2>5, <5>1, <5>2
      <4>. QED
        BY <4>1
    <3>4. \A i, j \in DOMAIN pipe' : pipe'[i].from # None /\ pipe'[i].from = pipe'[j].from => i = j
      BY <2>2, <2>5, <3>1 DEF IInv, Answers
    <3>. QED
      BY <3>3, <3>4 DEF Answers
  <2>11. ASSUME NEW cmd \in Kinds PROVE Kept(cmd)'
    <3>1. SUFFICES ASSUME alive', super' \in {"send", "watch"}, cmd \notin raced' PROVE Kept(cmd)'
      BY DEF Kept
    <3>2. Has(cmd)' = Has(cmd) /\ Wanted(cmd)' = Wanted(cmd)
      BY <1>1 DEF Has, Wanted, lock
    <3>3. Pends(calls[c].req) /\ calls[c].req \in Requests
      BY <1>1, <1>3 DEF Pends, Call
    <3>4. \A req \in Requests : Pends(req)' => Pends(req)
      BY <1>1, <2>1, <2>4 DEF Pends
    <3>5. \A req \in Requests : Pends(req) => Pends(req)' \/ req = calls[c].req
      BY <1>1, <2>4 DEF Pends
    <3>6. /\ \A req \in Requests : Pends(req) /\ req.cmd = cmd => req.arg = Wanted(cmd)
          /\ (\A req \in Requests : Pends(req) => req.cmd # cmd) => LastIs(pipe, cmd, Has(cmd), Wanted(cmd))
      BY <1>1, <3>1 DEF IInv, Kept
    <3>7. (\A req \in Requests : Pends(req)' => req.cmd # cmd) => LastIs(pipe', cmd, Has(cmd), Wanted(cmd))
      <4>1. SUFFICES ASSUME \A req \in Requests : Pends(req)' => req.cmd # cmd
                     PROVE  LastIs(pipe', cmd, Has(cmd), Wanted(cmd))
        OBVIOUS
      <4>2. CASE m.req.cmd = cmd
        BY <1>1, <2>2, <2>3, <3>3, <3>6, <4>2, AppendLast
      <4>3. CASE m.req.cmd # cmd
        BY <1>1, <2>2, <2>3, <3>5, <3>6, <4>1, <4>3, AppendLast
      <4>. QED
        BY <4>2, <4>3
    <3>. QED
      BY <3>2, <3>4, <3>6, <3>7 DEF Kept
  <2>. QED
    BY <2>7, <2>9, <2>10, <2>11 DEF IInv
<1>. QED
  BY <1>2, <1>3

(* A caller that gives up; its request is carried out all the same.        *)
LEMMA GiveUp_Inv ==
  ASSUME IInv, NEW c \in Callers, Timeout(c) \/ LateAnswer(c)
  PROVE  IInv'
<1>. DEFINE call == [calls[c] EXCEPT !.state = "failed"]
<1>1. /\ calls[c] \in Call /\ calls[c].state = "wait" /\ pipe \in Seq(Message) /\ alive
      /\ UNCHANGED <<lock, super, plan, rescue, captured, watching, cancelled, alive, hung, shown, dimmed,
                     raced, orders, pauses>>
      /\ calls' = [calls EXCEPT ![c] = call]
      /\ pipe' = [i \in DOMAIN pipe |-> IF pipe[i].from = c THEN [pipe[i] EXCEPT !.from = None] ELSE pipe[i]]
  BY Types DEF Timeout, LateAnswer, GiveUp, IInv, Phases
<1>2. call \in Call /\ call.live = calls[c].live /\ call.req = calls[c].req /\ call.state = "failed"
  BY <1>1 DEF Call
<1>. HIDE DEF call
<1>3. /\ calls' \in [Callers -> Call] /\ calls'[c] = call
      /\ \A d \in Callers : d # c => calls'[d] = calls[d]
  BY <1>1, <1>2, CallSet DEF IInv
<1>4. \A i \in DOMAIN pipe : pipe[i] \in Message /\ [pipe[i] EXCEPT !.from = None] \in Message
  <2>1. \A i \in DOMAIN pipe : pipe[i] \in Message
    BY <1>1
  <2>2. \A msg \in Message : [msg EXCEPT !.from = None] \in Message
    BY DEF Message
  <2>. QED
    BY <2>1, <2>2
<1>5. /\ DOMAIN pipe' = DOMAIN pipe
      /\ \A i \in DOMAIN pipe : /\ pipe'[i] \in Message /\ pipe'[i].req = pipe[i].req
                                /\ pipe'[i].from = IF pipe[i].from = c THEN None ELSE pipe[i].from
  BY <1>1, <1>4 DEF Message
<1>6. pipe' \in Seq(Message)
  <2>1. pipe' \in [1 .. Len(pipe) -> Message] /\ Len(pipe) \in Nat
    BY <1>1, <1>5
  <2>. QED
    BY <2>1
<1>7. faults' \in 0 .. MaxFaults
  BY SupervisorAssumption DEF Timeout, LateAnswer, Fault, IInv, TypeOK
<1>8. TypeOK'
  <2>1. pipe' \in Seq([req : Requests, from : Callers \cup {None}])
    BY <1>6 DEF Message
  <2>. QED
    BY <1>1, <1>3, <1>7, <2>1 DEF IInv, TypeOK, Call, lock
<1>9. Phases'
  BY <1>1, <1>2, <1>3, <1>5 DEF IInv, Phases, lock, Callers
<1>10. Answers'
  BY <1>3, <1>4, <1>5 DEF IInv, Answers, Message
<1>11. ASSUME NEW cmd \in Kinds PROVE Kept(cmd)'
  <2>1. \A req \in Requests : Pends(req)' <=> Pends(req)
    BY <1>1, <1>2, <1>3 DEF Pends
  <2>2. Has(cmd)' = Has(cmd) /\ Wanted(cmd)' = Wanted(cmd)
    BY <1>1 DEF Has, Wanted, lock
  <2>3. LastIs(pipe, cmd, Has(cmd), Wanted(cmd)) => LastIs(pipe', cmd, Has(cmd), Wanted(cmd))
    BY <1>5, SameLast
  <2>. QED
    BY <1>1, <2>1, <2>2, <2>3 DEF IInv, Kept
<1>. QED
  BY <1>8, <1>9, <1>10, <1>11 DEF IInv

-----------------------------------------------------------------------------
\* What is sent

(* The process is registered, and what is wanted noted.                    *)
LEMMA Register_Inv == ASSUME IInv, Register PROVE IInv'
<1>1. /\ super = "register" /\ super' = "send" /\ raced' = {} /\ proc' = TRUE
      /\ plan' = WantedBrightness \o WantedScene
      /\ UNCHANGED <<desired, setting, paused, canceller, wake, rescue, captured, watching, calls,
                     cancelled, process, bounds>>
  BY DEF Register, RegisterWith
<1>2. WantedBrightness \in Seq(Requests) /\ WantedScene \in Seq(Requests)
  BY NoCallType DEF WantedBrightness, WantedScene, IInv, TypeOK
<1>3. plan' \in Seq(Requests)
  BY <1>1, <1>2
<1>4. \A req : (\E i \in DOMAIN plan' : plan'[i] = req)
        <=> \/ setting # Full /\ req = Request("brightness", setting)
            \/ desired # None /\ req = Request("load", desired)
  BY <1>1 DEF WantedBrightness, WantedScene
<1>5. TypeOK'
  BY <1>1, <1>3 DEF IInv, TypeOK, process, bounds
<1>6. Phases'
  BY <1>1 DEF IInv, Phases, process, Running
<1>7. Answers'
  BY <1>1 DEF IInv, Answers, process
<1>8. ASSUME NEW cmd \in Kinds PROVE Kept(cmd)'
  <2>1. \A c \in Callers : calls[c].state = "write" /\ calls[c].live => calls[c].req.cmd = "stats"
    BY <1>1 DEF IInv, Phases, Callers
  <2>2. \A req : req.cmd = cmd =>
          (Pends(req)' <=> \/ setting # Full /\ req = Request("brightness", setting)
                           \/ desired # None /\ req = Request("load", desired))
    BY <1>1, <1>4, <2>1 DEF Pends, Kinds
  <2>3. Wanted(cmd)' = Wanted(cmd) /\ Has(cmd)' = Has(cmd)
    BY <1>1 DEF Wanted, Has, process
  <2>4. \A req \in Requests : Pends(req)' /\ req.cmd = cmd => req.arg = Wanted(cmd)
    BY <2>2 DEF Kinds, Wanted, Request
  <2>5. (\A req \in Requests : Pends(req)' => req.cmd # cmd) => Has(cmd) = Wanted(cmd)
    <3>1. desired # None => Request("load", desired) \in Requests /\ Request("load", desired).cmd = "load"
      BY NoCallType DEF IInv, TypeOK, Request
    <3>2. Request("brightness", setting) \in Requests /\ Request("brightness", setting).cmd = "brightness"
      BY NoCallType DEF IInv, TypeOK, Request
    <3>3. shown = None /\ dimmed = Full
      BY <1>1 DEF IInv, Phases
    <3>. QED
      BY <2>2, <3>1, <3>2, <3>3 DEF Kinds, Wanted, Has
  <2>6. \A i \in DOMAIN pipe : pipe[i].req.cmd # cmd
    BY <1>1 DEF IInv, Phases, Kinds
  <2>7. pipe' = pipe
    BY <1>1 DEF process
  <2>. QED
    BY <2>3, <2>4, <2>5, <2>6, <2>7 DEF Kept, LastIs
<1>. QED
  BY <1>5, <1>6, <1>7, <1>8 DEF IInv

(* runOnce sends the next of what it noted.                                *)
LEMMA SendNext_Inv == ASSUME IInv, SendNext PROVE IInv'
<1>. DEFINE call == NewCall(Head(plan))
<1>1. /\ plan \in Seq(Requests) /\ plan # <<>> /\ Head(plan) \in Requests
      /\ Tail(plan) \in Seq(Requests) /\ plan' = Tail(plan)
      /\ super = "send" /\ calls["super"].state = "none" /\ calls' = [calls EXCEPT !["super"] = call]
      /\ UNCHANGED <<lock, super, rescue, captured, watching, cancelled, process, raced, bounds>>
  BY Types DEF SendNext, IInv
<1>2. call \in Call /\ call.state = "write" /\ call.live = alive /\ call.req = Head(plan)
  BY <1>1, NoCallType, Types DEF NewCall, Call, IInv
<1>. HIDE DEF call
<1>3. /\ calls' \in [Callers -> Call] /\ calls'["super"] = call
      /\ \A d \in Callers : d # "super" => calls'[d] = calls[d]
  BY <1>1, <1>2, CallSet DEF Callers, IInv
<1>4. \A req : (\E i \in DOMAIN plan : plan[i] = req)
        <=> req = Head(plan) \/ \E i \in DOMAIN Tail(plan) : Tail(plan)[i] = req
  <2>1. /\ DOMAIN plan = 1 .. Len(plan) /\ DOMAIN Tail(plan) = 1 .. Len(plan) - 1 /\ Len(plan) \in Nat \ {0}
        /\ \A i \in DOMAIN Tail(plan) : i + 1 \in DOMAIN plan /\ Tail(plan)[i] = plan[i + 1]
        /\ \A i \in DOMAIN plan : i # 1 => i - 1 \in DOMAIN Tail(plan) /\ Tail(plan)[i - 1] = plan[i]
        /\ Head(plan) = plan[1] /\ 1 \in DOMAIN plan
    BY <1>1
  <2>. QED
    BY <2>1
<1>5. TypeOK'
  BY <1>1, <1>3 DEF IInv, TypeOK, Call, lock, process, bounds
<1>6. Phases'
  BY <1>1, <1>2, <1>3 DEF IInv, Phases, lock, process, Callers
<1>7. Answers'
  BY <1>1, <1>3, AnswersSet DEF process, Callers
<1>8. ASSUME NEW cmd \in Kinds PROVE Kept(cmd)'
  <2>1. alive => \A req \in Requests : Pends(req)' <=> Pends(req)
    BY <1>1, <1>2, <1>3, <1>4 DEF Pends, Callers
  <2>. QED
    BY <1>1, <2>1 DEF IInv, Kept, Wanted, Has, lock, process
<1>. QED
  BY <1>5, <1>6, <1>7, <1>8 DEF IInv

(* An order of the main loop.                                              *)
LEMMA Order_Inv ==
  ASSUME IInv, (\E s \in Scenes : Load(s)) \/ \E v \in Settings : SetBrightness(v)
  PROVE  IInv'
<1>1. PICK req \in Requests :
        /\ Order(req) /\ req.cmd \in Kinds
        /\ \/ req.cmd = "load" /\ desired' = req.arg /\ desired' \in Scenes /\ setting' = setting
           \/ req.cmd = "brightness" /\ setting' = req.arg /\ setting' \in Settings /\ desired' = desired
  BY NoCallType DEF Load, SetBrightness, Request, Kinds
<1>. DEFINE call == IF proc THEN NewCall(req) ELSE calls["agent"]
<1>2. /\ calls["agent"].state = "none" /\ calls \in [Callers -> Call]
      /\ UNCHANGED <<proc, paused, canceller, wake, super, plan, rescue, captured, watching, cancelled,
                     process, pauses, faults>>
      /\ raced' = Race(req.cmd) /\ orders' \in 0 .. MaxOrders
  BY <1>1, Types, SupervisorAssumption DEF Order, IInv, TypeOK
<1>3. call \in Call /\ (proc => call.state = "write" /\ call.live = alive /\ call.req = req)
  BY <1>1, <1>2, NoCallType, Types DEF NewCall, Call, IInv, Callers
<1>4. calls' = [calls EXCEPT !["agent"] = call]
  BY <1>1, <1>2 DEF Order, Callers
<1>5. ~proc => call = calls["agent"]
  OBVIOUS
<1>. HIDE DEF call
<1>6. /\ calls' \in [Callers -> Call] /\ calls'["agent"] = call
      /\ \A d \in Callers : d # "agent" => calls'[d] = calls[d]
  BY <1>3, <1>4, CallSet DEF Callers, IInv
<1>7. TypeOK'
  BY <1>1, <1>2, <1>6 DEF IInv, TypeOK, Call, process, Race, Kinds
<1>8. Phases'
  BY <1>2, <1>3, <1>5, <1>6 DEF IInv, Phases, process, Callers
<1>9. Answers'
  BY <1>2, <1>6, AnswersSet DEF process, Callers
<1>10. ASSUME NEW cmd \in Kinds PROVE Kept(cmd)'
  <2>1. SUFFICES ASSUME alive', super' \in {"send", "watch"}, cmd \notin raced' PROVE Kept(cmd)'
    BY DEF Kept
  <2>2. alive /\ super \in {"send", "watch"} /\ proc /\ pipe' = pipe /\ Has(cmd)' = Has(cmd)
    BY <1>2, <2>1 DEF IInv, Phases, process, Has
  <2>3. \A r \in Requests : Pends(r)' <=> Pends(r) \/ r = req
    BY <1>2, <1>3, <1>6, <2>2 DEF Pends, Callers
  <2>4. CASE cmd = req.cmd
    <3>1. super = "watch" /\ plan = <<>> /\ Wanted(cmd)' = req.arg
      BY <1>1, <1>2, <2>1, <2>2, <2>4 DEF Race, IInv, Phases, Wanted, Kinds
    <3>2. \A r \in Requests : Pends(r) => r.cmd = "stats"
      BY <1>2, <3>1 DEF Pends, IInv, Phases, Callers
    <3>3. \A r \in Requests : Pends(r)' /\ r.cmd = cmd => r = req
      BY <2>3, <3>2 DEF Kinds
    <3>. QED
      BY <2>3, <2>4, <3>1, <3>3 DEF Kept
  <2>5. CASE cmd # req.cmd
    <3>1. cmd \notin raced /\ Wanted(cmd)' = Wanted(cmd)
      BY <1>1, <1>2, <2>1, <2>5 DEF Race, Wanted, Kinds
    <3>. QED
      BY <2>2, <2>3, <2>5, <3>1 DEF IInv, Kept
  <2>. QED
    BY <2>4, <2>5
<1>. QED
  BY <1>7, <1>8, <1>9, <1>10 DEF IInv

-----------------------------------------------------------------------------
\* The invariant, and what follows

LEMMA Initially == Init => IInv
<1>. SUFFICES ASSUME Init PROVE IInv
  OBVIOUS
<1>1. TypeOK
  <2>1. NoCall \in [state : {"none", "write", "wait", "ok", "failed"}, live : BOOLEAN, req : Requests]
    BY NoCallType DEF Call
  <2>2. 0 \in 0 .. MaxOrders /\ 0 \in 0 .. MaxPauses /\ 0 \in 0 .. MaxFaults
    BY SupervisorAssumption
  <2>3. calls \in [Callers -> [state : {"none", "write", "wait", "ok", "failed"}, live : BOOLEAN, req : Requests]]
    BY <2>1 DEF Init
  <2>4. plan \in Seq(Requests) /\ pipe \in Seq([req : Requests, from : Callers \cup {None}])
    BY DEF Init
  <2>5. {proc, paused, canceller, wake, captured, watching, cancelled, alive, hung} \subseteq BOOLEAN
    BY DEF Init
  <2>. QED
    BY <2>2, <2>3, <2>4, <2>5, SupervisorAssumption DEF Init, TypeOK
<1>2. Phases
  BY NoCallType DEF Init, Phases, Running, Callers
<1>3. Answers /\ \A cmd \in Kinds : Kept(cmd)
  BY DEF Init, Answers, Kept
<1>. QED
  BY <1>1, <1>2, <1>3 DEF IInv

THEOREM Invariance == Safe => []IInv
<1>1. Init => IInv
  BY Initially
<1>2. IInv /\ [Next]_vars => IInv'
  <2>1. ASSUME IInv, Next PROVE IInv'
    BY <2>1, Quiet_Inv, Gone_Inv, Handled_Inv, Over_Inv, Configured_Inv, ProcessEnded_Inv,
       StartProcess_Inv, Tick_Inv, Write_Inv, GiveUp_Inv, Register_Inv, SendNext_Inv, Order_Inv
    DEF Next, CallStep, RunOnce, Watchdog
  <2>2. ASSUME IInv, UNCHANGED vars PROVE IInv'
    BY <2>2 DEF vars, lock, process, bounds, IInv, TypeOK, Phases, Answers, Kept, Pends, Has, Wanted
  <2>. QED
    BY <2>1, <2>2
<1>. QED
  BY <1>1, <1>2, PTL DEF Safe

(* Every variable keeps its type: no goroutine of the player is anywhere   *)
(* but at its steps, and only requests are in the pipe (player/gst.go).    *)
THEOREM TypeCorrect == Safe => []TypeOK
BY Invariance, PTL DEF IInv

(* Whatever the number of orders, pauses, deaths, hangs and late answers:  *)
(* a process that has nothing more to read has the scene and the setting   *)
(* that are wanted, unless an order met runOnce sending, or the scene was  *)
(* refused (player/gst.go runOnce, Load, SetBrightness).                   *)
THEOREM SettledShowsDesired == Safe => []SettledIsDesired
<1>1. IInv => SettledIsDesired
  <2>. SUFFICES ASSUME IInv, Settled PROVE SettledIsDesired
    BY DEF SettledIsDesired
  <2>1. plan = <<>> /\ \A c \in Callers : calls[c].state = "write" => calls[c].req.cmd = "stats"
    BY DEF IInv, Phases, Settled, Callers
  <2>2. \A req \in Requests, cmd \in Kinds : Pends(req) => req.cmd # cmd
    BY <2>1 DEF Pends, Kinds
  <2>3. \A cmd \in Kinds : cmd \in raced \/ Has(cmd) = Wanted(cmd)
    BY <2>2 DEF IInv, Kept, Settled, LastIs
  <2>. QED
    BY <2>3 DEF Kinds, Has, Wanted, SettledIsDesired
<1>. QED
  BY <1>1, Invariance, PTL

(* No pause misses a run, wherever the run is: a process under a paused    *)
(* playback is about to be killed (player/gst.go SetPaused, runOnce).      *)
THEOREM PauseMissesNoRun == Safe => []PausedRunIsCancelled
<1>1. IInv => PausedRunIsCancelled
  BY DEF IInv, Phases, Running, PausedRunIsCancelled
<1>. QED
  BY <1>1, Invariance, PTL

=============================================================================
