------------------------------ MODULE Supervisor ------------------------------
(***************************************************************************)
(* The agent's side of playing (internal/player/gst.go): the goroutine     *)
(* that starts, watches and restarts the playing process, the calls other  *)
(* goroutines make to it, and the rescue console that pauses it.           *)
(*                                                                         *)
(* A request is a line in the pipe to the process, which answers in order; *)
(* a caller waits for its answer, the end of the process or a timeout, and *)
(* a request whose caller has given up is still carried out.  What the     *)
(* process does with a scene is module GstPlayer; here it just has one.    *)
(***************************************************************************)
EXTENDS Naturals, Sequences

CONSTANTS
  Scenes,
  Settings,  \* brightness and media area
  Full,      \* the setting a process starts with: 100 %, media on
  None,
  MaxOrders, \* bound: calls of Load and SetBrightness
  MaxPauses, \* bound: uses of the rescue console
  MaxFaults  \* bound: deaths, hangs, late answers, refusals, failed starts

ASSUME SupervisorAssumption ==
  /\ Full \in Settings
  /\ None \notin Scenes
  /\ {MaxOrders, MaxPauses, MaxFaults} \subseteq Nat

Callers == {"agent", "super", "dog"}

VARIABLES
  (* GST, under its lock *)
  desired,   \* the scene wanted, or None
  setting,   \* the setting wanted
  proc,      \* is there a process to send to
  paused,
  canceller, \* is there a run to cancel
  wake,      \* the token in the channel wake
  (* goroutines *)
  super,     \* where supervise and runOnce are
  plan,      \* what runOnce still has to send: a sequence of requests
  rescue,    \* where SetPaused is
  captured,  \* SetPaused has the cancel function of the run
  watching,  \* the watchdog runs
  calls,     \* calls[c]: the call of c
  (* the process of the run *)
  cancelled, \* the context of the run
  alive, hung,
  pipe,      \* the requests written and not handled
  shown,     \* its scene, or None
  dimmed,    \* its setting
  (* history and bounds *)
  raced,     \* kinds of requests an excuse exists for, see SettledIsDesired
  orders, pauses, faults

lock    == <<desired, setting, proc, paused, canceller, wake>>
process == <<alive, hung, pipe, shown, dimmed>>
bounds  == <<orders, pauses, faults>>
vars    == <<lock, super, plan, rescue, captured, watching, calls, cancelled, process, raced, bounds>>

Requests ==
  [cmd : {"load"}, arg : Scenes] \cup [cmd : {"brightness"}, arg : Settings]
    \cup [cmd : {"config", "stats"}, arg : {None}]
Request(cmd, arg) == [cmd |-> cmd, arg |-> arg]

NoCall == [state |-> "none", live |-> FALSE, req |-> Request("stats", None)]
(* A call to the present process, which may have just died. *)
NewCall(req) == [state |-> "write", live |-> alive, req |-> req]

TypeOK ==
  /\ desired \in Scenes \cup {None}
  /\ setting \in Settings
  /\ {proc, paused, canceller, wake, captured, watching, cancelled, alive, hung} \subseteq BOOLEAN
  /\ super \in {"wait", "blocked", "begin", "start", "config", "register", "send", "watch", "ended", "delay"}
  /\ plan \in Seq(Requests)
  /\ rescue \in {"idle", "cancel", "wake"}
  /\ calls \in [Callers -> [state : {"none", "write", "wait", "ok", "failed"}, live : BOOLEAN, req : Requests]]
  /\ pipe \in Seq([req : Requests, from : Callers \cup {None}])
  /\ shown \in Scenes \cup {None}
  /\ dimmed \in Settings
  /\ raced \subseteq {"load", "brightness"}
  /\ orders \in 0..MaxOrders
  /\ pauses \in 0..MaxPauses
  /\ faults \in 0..MaxFaults

Init ==
  /\ desired = None /\ setting = Full
  /\ proc = FALSE /\ paused = FALSE /\ canceller = FALSE /\ wake = FALSE
  /\ super = "wait" /\ plan = <<>>
  /\ rescue = "idle" /\ captured = FALSE
  /\ watching = FALSE
  /\ calls = [c \in Callers |-> NoCall]
  /\ cancelled = FALSE
  /\ alive = FALSE /\ hung = FALSE /\ pipe = <<>> /\ shown = None /\ dimmed = Full
  /\ raced = {}
  /\ orders = 0 /\ pauses = 0 /\ faults = 0

-----------------------------------------------------------------------------
(* The process: it handles its requests in order; it may refuse one, hang, *)
(* or die, of itself or killed.                                            *)

Fault == faults < MaxFaults /\ faults' = faults + 1

Answered(from, result) ==
  IF from = None THEN calls ELSE [calls EXCEPT ![from].state = result]

Handle ==
  /\ alive /\ ~hung
  /\ pipe # <<>>
  /\ LET m == Head(pipe) IN
     /\ shown' = IF m.req.cmd = "load" THEN m.req.arg ELSE shown
     /\ dimmed' = IF m.req.cmd = "brightness" THEN m.req.arg ELSE dimmed
     /\ calls' = Answered(m.from, "ok")
  /\ pipe' = Tail(pipe)
  /\ UNCHANGED <<lock, super, plan, rescue, captured, watching, cancelled, alive, hung, raced, bounds>>

(* An overlay that cannot be read, a display that cannot be set up. *)
Refuse ==
  /\ Fault
  /\ alive /\ ~hung
  /\ pipe # <<>>
  /\ Head(pipe).req.cmd \in {"load", "config"}
  /\ calls' = Answered(Head(pipe).from, "failed")
  /\ raced' = raced \cup ({Head(pipe).req.cmd} \cap {"load"})
  /\ pipe' = Tail(pipe)
  /\ UNCHANGED <<lock, super, plan, rescue, captured, watching, cancelled, alive, hung, shown, dimmed, orders, pauses>>

Hang ==
  /\ Fault
  /\ alive /\ ~hung
  /\ hung' = TRUE
  /\ UNCHANGED <<lock, super, plan, rescue, captured, watching, calls, cancelled, alive, pipe, shown, dimmed, raced, orders, pauses>>

(* What is left of the process, and of the calls to it, when it ends. *)
Gone(cs) ==
  /\ alive' = FALSE
  /\ hung' = FALSE
  /\ pipe' = <<>>
  /\ shown' = None
  /\ dimmed' = Full
  /\ calls' = [c \in Callers |-> [cs[c] EXCEPT !.live = FALSE]]

Die ==
  /\ Fault
  /\ alive
  /\ Gone(calls)
  /\ UNCHANGED <<lock, super, plan, rescue, captured, watching, cancelled, raced, orders, pauses>>

(* exec.CommandContext kills the process of a cancelled context. *)
ContextKills ==
  /\ alive /\ cancelled
  /\ Gone(calls)
  /\ UNCHANGED <<lock, super, plan, rescue, captured, watching, cancelled, raced, bounds>>

-----------------------------------------------------------------------------
(* callWithin *)

Write(c) ==
  /\ calls[c].state = "write"
  /\ IF calls[c].live
     THEN /\ pipe' = Append(pipe, [req |-> calls[c].req, from |-> c])
          /\ calls' = [calls EXCEPT ![c].state = "wait"]
     ELSE /\ calls' = [calls EXCEPT ![c].state = "failed"]
          /\ UNCHANGED pipe
  /\ UNCHANGED <<lock, super, plan, rescue, captured, watching, cancelled, alive, hung, shown, dimmed, raced, bounds>>

Dead(c) ==
  /\ calls[c].state = "wait"
  /\ ~calls[c].live
  /\ calls' = [calls EXCEPT ![c].state = "failed"]
  /\ UNCHANGED <<lock, super, plan, rescue, captured, watching, cancelled, process, raced, bounds>>

(* Its answer will find nobody in pending. *)
GiveUp(c) ==
  /\ calls[c].state = "wait"
  /\ calls[c].live
  /\ calls' = [calls EXCEPT ![c].state = "failed"]
  /\ pipe' = [i \in DOMAIN pipe |-> IF pipe[i].from = c THEN [pipe[i] EXCEPT !.from = None] ELSE pipe[i]]
  /\ UNCHANGED <<lock, super, plan, rescue, captured, watching, cancelled, alive, hung, shown, dimmed, raced, orders, pauses>>

Timeout(c) == hung /\ GiveUp(c) /\ UNCHANGED faults
LateAnswer(c) == ~hung /\ Fault /\ GiveUp(c)

Over(c) == calls[c].state \in {"ok", "failed"}

-----------------------------------------------------------------------------
(* The main loop of the agent: one call at a time. *)

(* While runOnce sends what it noted, an order may be overtaken by it. *)
Race(cmd) == IF super = "send" THEN raced \cup {cmd} ELSE raced \ {cmd}

Order(req) ==
  /\ calls["agent"].state = "none"
  /\ orders < MaxOrders
  /\ orders' = orders + 1
  /\ calls' = IF proc THEN [calls EXCEPT !["agent"] = NewCall(req)] ELSE calls
  /\ raced' = Race(req.cmd)
  /\ UNCHANGED <<proc, paused, canceller, wake, super, plan, rescue, captured, watching, cancelled, process, pauses, faults>>

Load(s) ==
  /\ Order(Request("load", s))
  /\ desired' = s
  /\ UNCHANGED setting

SetBrightness(v) ==
  /\ v # setting
  /\ Order(Request("brightness", v))
  /\ setting' = v
  /\ UNCHANGED desired

(* Mutant: the main loop comes back from a call that succeeded only. *)
Return_OkOnly ==
  /\ calls["agent"].state = "ok"
  /\ calls' = [calls EXCEPT !["agent"] = NoCall]
  /\ UNCHANGED <<lock, super, plan, rescue, captured, watching, cancelled, process, raced, bounds>>

Return ==
  /\ Over("agent")
  /\ calls' = [calls EXCEPT !["agent"] = NoCall]
  /\ UNCHANGED <<lock, super, plan, rescue, captured, watching, cancelled, process, raced, bounds>>

-----------------------------------------------------------------------------
(* The rescue console: SetPaused notes the wish and the cancel function    *)
(* under the lock and acts after it.                                       *)

Pause ==
  /\ rescue = "idle"
  /\ pauses < MaxPauses
  /\ ~paused
  /\ paused' = TRUE
  /\ captured' = canceller
  /\ rescue' = "cancel"
  /\ pauses' = pauses + 1
  /\ UNCHANGED <<desired, setting, proc, canceller, wake, super, plan, watching, calls, cancelled, process, raced, orders, faults>>

(* Mutant: the run is left to itself. *)
CancelRun_Forgotten ==
  /\ rescue = "cancel"
  /\ captured' = FALSE
  /\ rescue' = "idle"
  /\ UNCHANGED <<lock, super, plan, watching, calls, cancelled, process, raced, bounds>>

(* The run whose function it is may have ended; none can have begun. *)
CancelRun ==
  /\ rescue = "cancel"
  /\ cancelled' = (cancelled \/ captured)
  /\ captured' = FALSE
  /\ rescue' = "idle"
  /\ UNCHANGED <<lock, super, plan, watching, calls, process, raced, bounds>>

Resume ==
  /\ rescue = "idle"
  /\ paused
  /\ paused' = FALSE
  /\ rescue' = "wake"
  /\ UNCHANGED <<desired, setting, proc, canceller, wake, super, plan, captured, watching, calls, cancelled, process, raced, bounds>>

WakeUp ==
  /\ rescue = "wake"
  /\ wake' = TRUE
  /\ rescue' = "idle"
  /\ UNCHANGED <<desired, setting, proc, paused, canceller, super, plan, captured, watching, calls, cancelled, process, raced, bounds>>

-----------------------------------------------------------------------------
(* supervise *)

WaitUnpaused ==
  /\ super = "wait"
  /\ super' = IF paused THEN "blocked" ELSE "begin"
  /\ UNCHANGED <<lock, plan, rescue, captured, watching, calls, cancelled, process, raced, bounds>>

Woken ==
  /\ super = "blocked"
  /\ wake
  /\ wake' = FALSE
  /\ super' = "wait"
  /\ UNCHANGED <<desired, setting, proc, paused, canceller, plan, rescue, captured, watching, calls, cancelled, process, raced, bounds>>

BeginRun ==
  /\ super = "begin"
  /\ canceller' = ~paused
  /\ cancelled' = FALSE
  /\ super' = IF paused THEN "wait" ELSE "start"
  /\ UNCHANGED <<desired, setting, proc, paused, wake, plan, rescue, captured, watching, calls, process, raced, bounds>>

EndRun ==
  /\ super = "ended"
  /\ canceller' = FALSE
  /\ captured' = FALSE
  /\ super' = IF paused THEN "wait" ELSE "delay"
  /\ UNCHANGED <<desired, setting, proc, paused, wake, plan, rescue, watching, calls, cancelled, process, raced, bounds>>

Delay ==
  /\ super = "delay"
  /\ super' = "wait"
  /\ UNCHANGED <<lock, plan, rescue, captured, watching, calls, cancelled, process, raced, bounds>>

-----------------------------------------------------------------------------
(* runOnce *)

StartProcess ==
  /\ super = "start"
  /\ ~cancelled
  /\ alive' = TRUE
  /\ calls' = [calls EXCEPT !["super"] = [NewCall(Request("config", None)) EXCEPT !.live = TRUE]]
  /\ super' = "config"
  /\ UNCHANGED <<lock, plan, rescue, captured, watching, cancelled, hung, pipe, shown, dimmed, raced, bounds>>

StartFails ==
  /\ super = "start"
  /\ \/ cancelled /\ UNCHANGED faults
     \/ ~cancelled /\ Fault
  /\ super' = "ended"
  /\ UNCHANGED <<lock, plan, rescue, captured, watching, calls, cancelled, process, raced, orders, pauses>>

Configured ==
  /\ super = "config"
  /\ calls["super"].state = "ok"
  /\ calls' = [calls EXCEPT !["super"] = NoCall]
  /\ super' = "register"
  /\ UNCHANGED <<lock, plan, rescue, captured, watching, cancelled, process, raced, bounds>>

ConfigFails ==
  /\ super = "config"
  /\ calls["super"].state = "failed"
  /\ Gone([calls EXCEPT !["super"] = NoCall])
  /\ super' = "ended"
  /\ UNCHANGED <<lock, plan, rescue, captured, watching, cancelled, raced, bounds>>

(* What is wanted now, to be sent to a process that has just started. *)
WantedBrightness == IF setting # Full THEN <<Request("brightness", setting)>> ELSE <<>>
WantedScene == IF desired # None THEN <<Request("load", desired)>> ELSE <<>>

RegisterWith(toSend) ==
  /\ super = "register"
  /\ proc' = TRUE
  /\ plan' = toSend
  /\ raced' = {}
  /\ super' = "send"
  /\ UNCHANGED <<desired, setting, paused, canceller, wake, rescue, captured, watching, calls, cancelled, process, bounds>>

(* Mutant: only the scene is sent again. *)
Register_SceneOnly == RegisterWith(WantedScene)

(* Mutant: the scene is not sent again. *)
Register_NoScene == RegisterWith(WantedBrightness)

(* From here on calls reach the process; what is wanted now is noted. *)
Register == RegisterWith(WantedBrightness \o WantedScene)

SendNext ==
  /\ super = "send"
  /\ calls["super"].state = "none"
  /\ plan # <<>>
  /\ calls' = [calls EXCEPT !["super"] = NewCall(Head(plan))]
  /\ plan' = Tail(plan)
  /\ UNCHANGED <<lock, super, rescue, captured, watching, cancelled, process, raced, bounds>>

(* An error is logged. *)
Sent ==
  /\ super = "send"
  /\ Over("super")
  /\ calls' = [calls EXCEPT !["super"] = NoCall]
  /\ UNCHANGED <<lock, super, plan, rescue, captured, watching, cancelled, process, raced, bounds>>

Watch ==
  /\ super = "send"
  /\ calls["super"].state = "none"
  /\ plan = <<>>
  /\ watching' = TRUE
  /\ super' = "watch"
  /\ UNCHANGED <<lock, plan, rescue, captured, calls, cancelled, process, raced, bounds>>

(* cmd.Wait returns; the watchdog is stopped. *)
ProcessEnded ==
  /\ super = "watch"
  /\ ~alive
  /\ proc' = FALSE
  /\ watching' = FALSE
  /\ calls' = [calls EXCEPT !["dog"] = NoCall]
  /\ super' = "ended"
  /\ UNCHANGED <<desired, setting, paused, canceller, wake, plan, rescue, captured, cancelled, process, raced, bounds>>

-----------------------------------------------------------------------------
(* The watchdog. *)

Tick ==
  /\ watching
  /\ calls["dog"].state = "none"
  /\ calls' = [calls EXCEPT !["dog"] = NewCall(Request("stats", None))]
  /\ UNCHANGED <<lock, super, plan, rescue, captured, watching, cancelled, process, raced, bounds>>

Alright ==
  /\ watching
  /\ calls["dog"].state = "ok"
  /\ calls' = [calls EXCEPT !["dog"] = NoCall]
  /\ UNCHANGED <<lock, super, plan, rescue, captured, watching, cancelled, process, raced, bounds>>

(* Mutant: the watchdog ends when the process does not answer. *)
Kill_OnlyEnds ==
  /\ watching
  /\ calls["dog"].state = "failed"
  /\ calls' = [calls EXCEPT !["dog"] = NoCall]
  /\ watching' = FALSE
  /\ UNCHANGED <<lock, super, plan, rescue, captured, cancelled, process, raced, bounds>>

Kill ==
  /\ watching
  /\ calls["dog"].state = "failed"
  /\ Gone([calls EXCEPT !["dog"] = NoCall])
  /\ watching' = FALSE
  /\ UNCHANGED <<lock, super, plan, rescue, captured, cancelled, raced, bounds>>

-----------------------------------------------------------------------------
CallStep(c) == Write(c) \/ Dead(c) \/ Timeout(c)
Supervise == WaitUnpaused \/ Woken \/ BeginRun \/ EndRun \/ Delay
RunOnce ==
  \/ StartProcess \/ StartFails \/ Configured \/ ConfigFails \/ Register
  \/ SendNext \/ Sent \/ Watch \/ ProcessEnded
Watchdog == Tick \/ Alright \/ Kill
SetPaused == Pause \/ CancelRun \/ Resume \/ WakeUp

Next ==
  \/ Handle \/ Refuse \/ Hang \/ Die \/ ContextKills
  \/ \E c \in Callers : CallStep(c) \/ LateAnswer(c)
  \/ \E s \in Scenes : Load(s)
  \/ \E v \in Settings : SetBrightness(v)
  \/ Return
  \/ SetPaused
  \/ Supervise
  \/ RunOnce
  \/ Watchdog

(* Goroutines run, timeouts come, a process that does not hang answers.    *)
(* Orders, keys and faults need not come, and a pause need not end.        *)
Fairness ==
  /\ WF_vars(Handle)
  /\ WF_vars(ContextKills)
  /\ \A c \in Callers : WF_vars(CallStep(c))
  /\ WF_vars(Return)
  /\ WF_vars(CancelRun \/ WakeUp)
  /\ WF_vars(Supervise)
  /\ WF_vars(RunOnce)
  /\ WF_vars(Watchdog)

Safe == Init /\ [][Next]_vars
Spec == Safe /\ Fairness

-----------------------------------------------------------------------------
(* What should be true. *)

Settled == super = "watch" /\ alive /\ pipe = <<>> /\ calls["agent"].state = "none"

(* A process that runs and has nothing more to read has the scene and the  *)
(* setting that are wanted, after every restart, late answer and pause:    *)
(* unless the order came while runOnce was sending what it had noted       *)
(* before, or the process refused the scene.                               *)
SettledIsDesired ==
  Settled =>
    /\ shown = desired \/ "load" \in raced
    /\ dimmed = setting \/ "brightness" \in raced

(* A process that runs although playback is paused is one whose context is *)
(* cancelled or is about to be: no pause misses a run that is just starting *)
(* or just being restarted.                                                *)
PausedRunIsCancelled == alive /\ paused => cancelled \/ captured

(* A pause releases the display, at whatever point of a run it comes. *)
PauseReleasesDisplay == paused ~> (~alive \/ ~paused)

(* A resume brings the player back, however it meets the run before. *)
ResumePlaysAgain ==
  (~paused /\ desired # None) ~> (paused \/ shown # None \/ "load" \in raced)

(* A process that hangs is replaced, whoever waits for it at that moment. *)
HungIsReplaced == hung ~> ~hung

(* Load and SetBrightness come back to the main loop of the agent, which   *)
(* has the system's watchdog to feed.                                      *)
CallsReturn == (calls["agent"].state # "none") ~> (calls["agent"].state = "none")

-----------------------------------------------------------------------------
(* What the comments say and the code does not do. *)

(* gst.go:27 says that the current scene is sent again after a restart; it *)
(* is the scene noted before, sent after a newer one.                       *)
CurrentIsSent == Settled => shown = desired

=============================================================================
