------------------------------- MODULE GstPlayer -------------------------------
(***************************************************************************)
(* The event loop of one playing process (internal/player/gstplayer.py):   *)
(* the requests of the agent, the GLib timers and the GStreamer messages    *)
(* that play the list of a scene item by item, fade between items and from *)
(* one scene to the next, and stop the media area when told to.            *)
(*                                                                         *)
(* Each callback runs to its end before the next, but the order of timers, *)
(* messages and requests is open: they are the actions.  What a callback   *)
(* does to the object Player is an operator from a state to the set of the *)
(* states it may leave, so that callbacks compose as the methods do.       *)
(***************************************************************************)
EXTENDS Integers, Sequences

CONSTANTS
  Scenes,       \* what load may be given: a list, an overlay, a media area
  Files,        \* the files of the lists
  Videos,       \* those that are videos; the others are images
  Playlist,     \* Playlist[s]: the files of scene s, in order
  None,
  VideoOutputs, \* Len(VIDEO_OUTPUTS): the ways to show a video, best first
  MaxRetries,   \* bound: _retry_next timers under way at a time (each lasts a second)
  MaxRequests   \* bound: requests of the agent

ASSUME ScenesAssumption ==
  /\ Playlist \in [Scenes -> Seq(Files)]
  /\ None \notin Scenes
ASSUME PlayerBoundsAssumption ==
  /\ VideoOutputs \in Nat \ {0}
  /\ MaxRetries \in Nat \ {0}
  /\ MaxRequests \in Nat

VARIABLES
  player,   \* the object Player
  accepted, \* the scene of the last load answered with ok, or None
  requests  \* number of requests

vars == <<player, accepted, requests>>

(* What to do when a fade has ended, and for a switch the scene. *)
Then == [do : {"nothing", "next", "stop"}, scene : {None}] \cup [do : {"switch"}, scene : Scenes]
ThenDo(do) == [do |-> do, scene |-> None]
ThenSwitch(s) == [do |-> "switch", scene |-> s]

(* A running fade: where it leads and what follows; NoFade: none runs. *)
Fades == [to : {"black", "clear"}, then : Then]
NoFade == [to |-> "nowhere", then |-> ThenDo("nothing")]

(* The object Player. *)
Player ==
  [scene   : Scenes \cup {None},
   index   : Nat \cup {-1},   \* of the item that is, or was, played; from 0
   pipe    : BOOLEAN,         \* is there a pipeline
   started : BOOLEAN,         \* has its item started
   ended   : BOOLEAN,         \* has its end of stream been reported
   mode    : 0..VideoOutputs - 1,
   timer   : {"none", "image", "video"}, \* _image_done, _check_remaining
   fading  : Fades \cup {NoFade},
   alpha   : {"black", "mid", "clear"},  \* the veil over the media area
   media   : BOOLEAN,
   retries : 0..MaxRetries]              \* _retry_next timers under way

TypeOK ==
  /\ player \in Player
  /\ accepted \in Scenes \cup {None}
  /\ requests \in 0..MaxRequests

(* After config, before the first scene. *)
Init ==
  /\ player = [scene |-> None, index |-> -1, pipe |-> FALSE, started |-> FALSE, ended |-> FALSE,
               mode |-> 0, timer |-> "none", fading |-> NoFade, alpha |-> "black",
               media |-> TRUE, retries |-> 0]
  /\ accepted = None
  /\ requests = 0

Items(p) == IF p.scene = None THEN <<>> ELSE Playlist[p.scene]
Item(p) == Items(p)[p.index + 1]
IsVideo(p) == Item(p) \in Videos

-----------------------------------------------------------------------------
(* The methods. *)

StopItem(p) == [p EXCEPT !.timer = "none", !.pipe = FALSE]

(* The fade that runs, if any, goes on; only a longer list is tried again. *)
ItemFailed(p) ==
  [StopItem(p) EXCEPT !.alpha = "black",
     !.retries = IF Len(Items(p)) > 1 /\ @ < MaxRetries THEN @ + 1 ELSE @]

(* The pipeline is started, or cannot be. *)
PlayWith(p, i, mode) ==
  LET q == [p EXCEPT !.index = i % Len(Items(p)), !.mode = mode,
                     !.pipe = TRUE, !.started = FALSE, !.ended = FALSE]
  IN IF p.media THEN {q, ItemFailed(q)} ELSE {p}
Play(p, i) == PlayWith(p, i, 0)

(* Mutant: the item that has ended again. *)
NextItem_Again(p) ==
  IF Items(p) # <<>> THEN Play(StopItem(p), p.index) ELSE {StopItem(p)}

NextItem(p) ==
  IF Items(p) # <<>> THEN Play(StopItem(p), p.index + 1) ELSE {StopItem(p)}

(* Mutant: the item of the old scene is left running. *)
Switch_KeepsItem(p, s) ==
  LET q == [p EXCEPT !.scene = s, !.alpha = "black"]
  IN IF Playlist[s] # <<>> THEN Play(q, 0) ELSE {q}

Switch(p, s) ==
  LET q == [StopItem(p) EXCEPT !.scene = s, !.alpha = "black"]
  IN IF Playlist[s] # <<>> THEN Play(q, 0) ELSE {q}

Finish(p, then) ==
  CASE then.do = "nothing" -> {p}
    [] then.do = "next"    -> NextItem(p)
    [] then.do = "stop"    -> {StopItem(p)}
    [] then.do = "switch"  -> Switch(p, then.scene)

(* A new fade replaces the running one, and with it what was to follow it. *)
FadeTo(p, target, then) ==
  IF p.alpha = target
  THEN Finish([p EXCEPT !.fading = NoFade], then)
  ELSE {[p EXCEPT !.fading = [to |-> target, then |-> then]]}

-----------------------------------------------------------------------------
(* Requests. *)

Shown(p) == p.pipe /\ p.alpha # "black"

LoadStates(p, s) ==
  CASE s = p.scene -> {p}
    [] s # p.scene /\ Shown(p) -> FadeTo(p, "black", ThenSwitch(s))
    [] OTHER -> Switch(p, s)

Load(s) ==
  /\ requests < MaxRequests
  /\ player' \in LoadStates(player, s)
  /\ accepted' = s
  /\ requests' = requests + 1

MediaOff ==
  /\ requests < MaxRequests
  /\ player.media
  /\ player' \in FadeTo([player EXCEPT !.media = FALSE], "black", ThenDo("stop"))
  /\ requests' = requests + 1
  /\ UNCHANGED accepted

(* Mutant: nothing is started again. *)
MediaOnStates_Quiet(p) == {p}

MediaOnStates(p) ==
  IF Items(p) # <<>> /\ ~p.pipe THEN Play(p, p.index + 1) ELSE {p}

MediaOn ==
  /\ requests < MaxRequests
  /\ ~player.media
  /\ player' \in MediaOnStates([player EXCEPT !.media = TRUE])
  /\ requests' = requests + 1
  /\ UNCHANGED accepted

-----------------------------------------------------------------------------
(* Timers. *)

FadeStep ==
  /\ player.fading # NoFade
  /\ player.alpha # "mid"
  /\ player' = [player EXCEPT !.alpha = "mid"]
  /\ UNCHANGED <<accepted, requests>>

FadeEnd ==
  /\ player.fading # NoFade
  /\ player' \in Finish([player EXCEPT !.alpha = player.fading.to, !.fading = NoFade],
                        player.fading.then)
  /\ UNCHANGED <<accepted, requests>>

ImageDone ==
  /\ player.timer = "image"
  /\ player' \in FadeTo([player EXCEPT !.timer = "none"], "black", ThenDo("next"))
  /\ UNCHANGED <<accepted, requests>>

(* _check_remaining finds a video near its end: fade out, the end of the   *)
(* stream is to do the rest.                                               *)
NearEnd ==
  /\ player.timer = "video"
  /\ player' \in FadeTo([player EXCEPT !.timer = "none"], "black", ThenDo("nothing"))
  /\ UNCHANGED <<accepted, requests>>

RetryStates(p) ==
  IF ~p.pipe /\ Items(p) # <<>> THEN Play(p, p.index + 1) ELSE {p}

RetryNext ==
  /\ player.retries > 0
  /\ player' \in RetryStates([player EXCEPT !.retries = @ - 1])
  /\ UNCHANGED <<accepted, requests>>

-----------------------------------------------------------------------------
(* Messages of the pipeline. *)

StartTimer(p) ==
  CASE IsVideo(p) -> "video"
    [] ~IsVideo(p) /\ Len(Items(p)) = 1 -> "none"
    [] OTHER -> "image"

Started ==
  /\ player.pipe /\ ~player.started
  /\ player' \in {[p EXCEPT !.timer = StartTimer(p)] :
                    p \in FadeTo([player EXCEPT !.started = TRUE], "clear", ThenDo("nothing"))}
  /\ UNCHANGED <<accepted, requests>>

Advance(p) ==
  IF p.alpha = "black" /\ p.fading = NoFade
  THEN NextItem(p)
  ELSE FadeTo(p, "black", ThenDo("next"))

EndOfStream ==
  /\ player.pipe /\ player.started /\ ~player.ended
  /\ IsVideo(player)
  /\ player' \in Advance([player EXCEPT !.ended = TRUE])
  /\ UNCHANGED <<accepted, requests>>

(* A video that never started is played once more another way. *)
CanFallBack(p) == IsVideo(p) /\ ~p.started /\ p.mode + 1 < VideoOutputs

FallBack ==
  /\ player.pipe
  /\ CanFallBack(player)
  /\ player' \in PlayWith(StopItem(player), player.index, player.mode + 1)
  /\ UNCHANGED <<accepted, requests>>

Error ==
  /\ player.pipe
  /\ ~CanFallBack(player)
  /\ player' = ItemFailed(player)
  /\ UNCHANGED <<accepted, requests>>

-----------------------------------------------------------------------------
Request == (\E s \in Scenes : Load(s)) \/ MediaOff \/ MediaOn
Timer == FadeStep \/ FadeEnd \/ ImageDone \/ NearEnd \/ RetryNext
Message == Started \/ EndOfStream \/ FallBack \/ Error

Next == Request \/ Timer \/ Message

(* GLib runs the timers; GStreamer starts an item or reports an error, and  *)
(* a video that plays comes to its end.  Nobody has to send a request.      *)
Fairness ==
  /\ WF_vars(FadeEnd)
  /\ WF_vars(ImageDone)
  /\ WF_vars(RetryNext)
  /\ WF_vars(Started \/ FallBack \/ (~player.started /\ Error))
  /\ WF_vars(EndOfStream)

Safe == Init /\ [][Next]_vars
Spec == Safe /\ Fairness

-----------------------------------------------------------------------------
(* What should be true. *)

Pending(p) == p.fading.then.do = "switch"
LongList(p) == p.media /\ Len(Items(p)) > 1

(* Nothing plays and nothing is going to: a list that went quiet. *)
Idle(p) == LongList(p) /\ ~p.pipe /\ p.retries = 0

(* A video is over and nobody is going on to the next item. *)
Stalled(p) == p.pipe /\ p.ended /\ p.fading.then.do # "next"

(* The callbacks that use self.items[self.index] and self.pipe without a   *)
(* test (_on_item_message, _check_remaining, _image_done) find the item and *)
(* the pipeline they belong to: no switch leaves an index, a timer or a    *)
(* pipeline of the scene before.                                           *)
CallbacksFindTheirItem ==
  /\ player.pipe => player.index + 1 \in DOMAIN Items(player)
  /\ player.timer # "none" => player.pipe /\ player.started
  /\ player.timer = "video" => IsVideo(player)
  /\ player.timer = "image" => ~IsVideo(player) /\ Len(Items(player)) > 1

(* A list of several items goes quiet in one way only: the media area was  *)
(* switched on again while the fade to its stop was still running.         *)
IdleOnlyAfterStop ==
  [][Idle(player') => Idle(player) \/ player.fading.then.do = "stop"]_vars

(* As long as the list neither goes quiet nor stalls, it is played round   *)
(* and round: every item gets its turn, whichever of them fail.            *)
EveryItemGetsItsTurn ==
  \A s \in Scenes :
    <>[](player.scene = s /\ LongList(player) /\ ~Idle(player) /\ ~Stalled(player)) =>
      \A i \in DOMAIN Playlist[s] : []<>(player.index + 1 = i)

-----------------------------------------------------------------------------
(* What the documents say and the code does not do. *)

(* player.go:38 says of Load that the new scene replaces the current one:  *)
(* when the requests are over, the last scene that was answered with ok is *)
(* the scene.  A fade started later drops the switch (_fade_to).            *)
LoadReplacesScene == <>[](player.scene = accepted)

=============================================================================
