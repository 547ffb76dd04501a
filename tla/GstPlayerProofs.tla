----------------------------- MODULE GstPlayerProofs -----------------------------
(***************************************************************************)
(* What the callbacks of the playing process may rely on, whatever the     *)
(* scenes, and in whatever order timers, messages and requests come.       *)
(*                                                                         *)
(* The invariant is one of the object Player: Sound says of a state of it  *)
(* that what the callbacks use is there.  Each method is shown to lead     *)
(* from a sound state to sound ones, and those that go on in a list to     *)
(* states that have not gone quiet; the callbacks are put together from    *)
(* the methods.                                                            *)
(***************************************************************************)
EXTENDS GstPlayer, TLAPS

(* What the callbacks use is there.                                        *)
Sound(p) ==
  /\ p \in Player
  /\ p.pipe => p.index + 1 \in DOMAIN Items(p)
  /\ p.timer # "none" => p.pipe /\ p.started
  /\ p.timer = "video" => IsVideo(p)
  /\ p.timer = "image" => ~IsVideo(p) /\ Len(Items(p)) > 1

IInv == Sound(player) /\ accepted \in Scenes \cup {None} /\ requests \in 0..MaxRequests

-----------------------------------------------------------------------------
\* The methods

LEMMA ItemsType ==
  ASSUME NEW p \in Player
  PROVE  /\ Items(p) \in Seq(Files) /\ Len(Items(p)) \in Nat
         /\ DOMAIN Items(p) = 1 .. Len(Items(p))
         /\ Items(p) # <<>> <=> Len(Items(p)) # 0
<1>1. Items(p) \in Seq(Files)
  BY ScenesAssumption DEF Items, Player
<1>. QED
  BY <1>1

(* What follows a fade.                                                    *)
LEMMA ThenType ==
  /\ \A do \in {"nothing", "next", "stop"} : ThenDo(do) \in Then /\ ThenDo(do).do = do
  /\ \A s \in Scenes : ThenSwitch(s) \in Then /\ ThenSwitch(s).do = "switch"
  /\ \A then \in Then : then.do \in {"nothing", "next", "stop", "switch"}
                        /\ (then.do = "switch" => then.scene \in Scenes)
  /\ NoFade.then \in Then
BY DEF Then, ThenDo, ThenSwitch, NoFade

(* Without a pipeline nothing is left that could be missed.                *)
LEMMA Stopped ==
  ASSUME NEW p \in Player
  PROVE  /\ Sound(StopItem(p)) /\ ~StopItem(p).pipe /\ StopItem(p).timer = "none"
         /\ StopItem(p).scene = p.scene /\ StopItem(p).index = p.index
         /\ Items(StopItem(p)) = Items(p)
<1>. DEFINE q == StopItem(p)
<1>1. q \in Player /\ ~q.pipe /\ q.timer = "none" /\ q.scene = p.scene /\ q.index = p.index
  BY DEF StopItem, Player
<1>. QED
  BY <1>1 DEF Sound, Items

(* An item that fails: a list of several is tried again.                   *)
LEMMA Failed == ASSUME NEW p \in Player PROVE Sound(ItemFailed(p)) /\ ~Idle(ItemFailed(p))
<1>. DEFINE q == StopItem(p)
            n == IF Len(Items(p)) > 1 /\ q.retries < MaxRetries THEN q.retries + 1 ELSE q.retries
            r == [q EXCEPT !.alpha = "black", !.retries = n]
<1>1. q \in Player /\ ~q.pipe /\ q.timer = "none" /\ q.scene = p.scene
  BY Stopped DEF Sound
<1>2. n \in 0 .. MaxRetries /\ (Len(Items(p)) > 1 => n # 0)
  BY <1>1, ItemsType, PlayerBoundsAssumption DEF Player
<1>3. ItemFailed(p) = r
  BY DEF ItemFailed
<1>. HIDE DEF n, q
<1>4. /\ r \in Player /\ ~r.pipe /\ r.timer = "none" /\ r.scene = p.scene /\ r.retries = n
  BY <1>1, <1>2 DEF Player
<1>5. Items(r) = Items(p)
  BY <1>4 DEF Items
<1>. HIDE DEF r
<1>. QED
  BY <1>2, <1>3, <1>4, <1>5 DEF Sound, Idle, LongList

(* Playing an item of a list: only without a media area may the list be    *)
(* quiet.                                                                  *)
LEMMA Played ==
  ASSUME NEW p, Sound(p), p.timer = "none", Items(p) # <<>>, NEW i \in Nat, NEW mode \in 0 .. VideoOutputs - 1
  PROVE  \A q \in PlayWith(p, i, mode) : Sound(q) /\ ~Idle(q)
<1>. DEFINE j == i % Len(Items(p))
            q == [p EXCEPT !.index = j, !.mode = mode, !.pipe = TRUE, !.started = FALSE, !.ended = FALSE]
<1>1. p \in Player
  BY DEF Sound
<1>2. j \in Nat /\ j + 1 \in 1 .. Len(Items(p))
  BY <1>1, ItemsType
<1>. HIDE DEF j
<1>3. q \in Player /\ q.pipe /\ q.timer = "none" /\ q.scene = p.scene /\ q.index = j
  BY <1>1, <1>2 DEF Player
<1>4. Items(q) = Items(p)
  BY <1>3 DEF Items
<1>5. PlayWith(p, i, mode) = IF p.media THEN {q, ItemFailed(q)} ELSE {p}
  BY DEF PlayWith, j
<1>. HIDE DEF q
<1>6. Sound(q) /\ ~Idle(q)
  BY <1>1, <1>2, <1>3, <1>4, ItemsType DEF Sound, Idle
<1>. QED
  BY <1>3, <1>5, <1>6, Failed DEF Idle, LongList

LEMMA Zero == 0 \in Nat /\ 0 \in 0 .. VideoOutputs - 1
BY PlayerBoundsAssumption

(* Going on to the next item.                                              *)
LEMMA Next_Sound == ASSUME NEW p \in Player PROVE \A q \in NextItem(p) : Sound(q) /\ ~Idle(q)
<1>1. CASE Items(p) # <<>>
  <2>1. p.index + 1 \in Nat
    BY DEF Player
  <2>. QED
    BY <1>1, <2>1, Stopped, Played, Zero DEF NextItem, Play
<1>2. CASE Items(p) = <<>>
  BY <1>2, Stopped, ItemsType DEF NextItem, Idle, LongList
<1>. QED
  BY <1>1, <1>2

(* Going over to another scene.                                            *)
LEMMA Switch_Sound ==
  ASSUME NEW p \in Player, NEW s \in Scenes
  PROVE  \A q \in Switch(p, s) : Sound(q) /\ ~Idle(q)
<1>. DEFINE q == [StopItem(p) EXCEPT !.scene = s, !.alpha = "black"]
<1>1. q \in Player /\ ~q.pipe /\ q.timer = "none" /\ q.scene = s
  BY Stopped DEF Sound, Player
<1>2. Items(q) = Playlist[s] /\ Sound(q)
  BY <1>1, ScenesAssumption DEF Items, Sound
<1>3. Switch(p, s) = IF Playlist[s] # <<>> THEN Play(q, 0) ELSE {q}
  BY DEF Switch
<1>. HIDE DEF q
<1>. QED
  BY <1>1, <1>2, <1>3, Played, Zero, ItemsType DEF Play, Idle, LongList

(* What follows a fade: only a stop lets a list go quiet.                  *)
LEMMA Finish_Sound ==
  ASSUME NEW p, Sound(p), NEW then \in Then
  PROVE  \A q \in Finish(p, then) :
           Sound(q) /\ (Idle(q) => Idle(p) \/ then.do = "stop")
<1>1. p \in Player
  BY DEF Sound
<1>. QED
  BY <1>1, ThenType, Next_Sound, Switch_Sound, Stopped DEF Finish

(* The veil and the fade are nothing the callbacks rely on.                *)
LEMMA Veiled ==
  ASSUME NEW p, Sound(p), NEW fade \in Fades \cup {NoFade}, NEW alpha \in {"black", "mid", "clear"},
         NEW q, q \in {[p EXCEPT !.fading = fade], [p EXCEPT !.alpha = alpha],
                       [p EXCEPT !.alpha = alpha, !.fading = fade]}
  PROVE  Sound(q) /\ (Idle(q) <=> Idle(p)) /\ q.media = p.media
<1>1. q \in Player /\ \A f \in {"scene", "index", "pipe", "started", "timer", "media", "retries"} : q[f] = p[f]
  BY DEF Sound, Player
<1>2. Items(q) = Items(p)
  BY <1>1 DEF Items
<1>. QED
  BY <1>1, <1>2 DEF Sound, Idle, LongList, IsVideo, Item

LEMMA Fade_Sound ==
  ASSUME NEW p, Sound(p), NEW target \in {"black", "clear"}, NEW then \in Then
  PROVE  \A q \in FadeTo(p, target, then) : Sound(q) /\ (Idle(q) => Idle(p) \/ then.do = "stop")
<1>1. NoFade \in Fades \cup {NoFade} /\ [to |-> target, then |-> then] \in Fades \cup {NoFade}
  BY DEF Fades
<1>2. /\ Sound([p EXCEPT !.fading = NoFade]) /\ (Idle([p EXCEPT !.fading = NoFade]) => Idle(p))
  BY <1>1, Veiled
<1>3. LET q == [p EXCEPT !.fading = [to |-> target, then |-> then]]
      IN Sound(q) /\ (Idle(q) => Idle(p))
  BY <1>1, Veiled
<1>. QED
  BY <1>2, <1>3, Finish_Sound DEF FadeTo

-----------------------------------------------------------------------------
\* The callbacks

(* What a step may make of the player.                                     *)
Steady(q) == Sound(q) /\ (Idle(q) => Idle(player) \/ player.fading.then.do = "stop")

(* A state that differs in nothing that the callbacks look for.            *)
LEMMA Alike ==
  ASSUME NEW p, Sound(p), NEW q \in Player,
         q.scene = p.scene, q.index = p.index, q.pipe = p.pipe, q.timer \in {p.timer, "none"},
         q.timer = "none" \/ q.started = p.started
  PROVE  Sound(q) /\ Items(q) = Items(p)
<1>1. Items(q) = Items(p)
  BY DEF Items
<1>. QED
  BY <1>1 DEF Sound, IsVideo, Item

LEMMA Load_Steady == ASSUME Sound(player), NEW s \in Scenes, Load(s) PROVE Steady(player')
<1>1. player \in Player
  BY DEF Sound
<1>2. \A q \in FadeTo(player, "black", ThenSwitch(s)) : Steady(q)
  BY Fade_Sound, ThenType DEF Steady
<1>3. \A q \in Switch(player, s) : Steady(q)
  BY <1>1, Switch_Sound DEF Steady
<1>4. player' \in LoadStates(player, s)
  BY DEF Load
<1>. QED
  BY <1>2, <1>3, <1>4 DEF LoadStates, Steady

LEMMA MediaOff_Steady == ASSUME Sound(player), MediaOff PROVE Steady(player')
<1>. DEFINE p == [player EXCEPT !.media = FALSE]
            fade == [to |-> "black", then |-> ThenDo("stop")]
<1>0. p \in Player /\ ~p.media
  BY DEF Sound, Player
<1>1. p \in Player /\ ~p.media /\ Sound(p)
  BY <1>0, Alike DEF Sound, Player
<1>2. player' \in FadeTo(p, "black", ThenDo("stop"))
  BY DEF MediaOff
<1>. HIDE DEF p
<1>3. fade \in Fades \cup {NoFade} /\ NoFade \in Fades \cup {NoFade}
  BY ThenType DEF Fades
<1>4. [p EXCEPT !.fading = NoFade] \in Player /\ ~[p EXCEPT !.fading = NoFade].media
  BY <1>1, <1>3 DEF Player
<1>5. \A q \in Player : ~q.media => ~Idle(q) /\ ~StopItem(q).media
  BY DEF Idle, LongList, StopItem, Player
<1>6. player' = StopItem([p EXCEPT !.fading = NoFade]) \/ player' = [p EXCEPT !.fading = fade]
  BY <1>2, ThenType DEF FadeTo, Finish
<1>7. CASE player' = StopItem([p EXCEPT !.fading = NoFade])
  BY <1>4, <1>5, <1>7, Stopped DEF Steady, Sound
<1>8. CASE player' = [p EXCEPT !.fading = fade]
  <2>1. Sound(player') /\ player'.media = p.media
    BY <1>1, <1>3, <1>8, Veiled
  <2>. QED
    BY <1>1, <1>5, <2>1 DEF Steady, Sound
<1>. QED
  BY <1>6, <1>7, <1>8

(* A list that does not play goes on.                                      *)
LEMMA GoesOn ==
  ASSUME NEW p, Sound(p), ~p.pipe, Items(p) # <<>>
  PROVE  \A q \in Play(p, p.index + 1) : Steady(q)
<1>1. p.timer = "none" /\ p.index + 1 \in Nat
  BY DEF Sound, Player
<1>. QED
  BY <1>1, Played, Zero DEF Play, Steady

LEMMA MediaOn_Steady == ASSUME Sound(player), MediaOn PROVE Steady(player')
<1>. DEFINE p == [player EXCEPT !.media = TRUE]
<1>1. p \in Player /\ Sound(p)
  BY Alike DEF Sound, Player
<1>2. player' \in MediaOnStates(p)
  BY DEF MediaOn
<1>. HIDE DEF p
<1>3. CASE Items(p) # <<>> /\ ~p.pipe
  BY <1>1, <1>2, <1>3, GoesOn DEF MediaOnStates
<1>4. CASE ~(Items(p) # <<>> /\ ~p.pipe)
  BY <1>1, <1>2, <1>4, ItemsType DEF MediaOnStates, Steady, Idle, LongList
<1>. QED
  BY <1>3, <1>4

LEMMA RetryNext_Steady == ASSUME Sound(player), RetryNext PROVE Steady(player')
<1>. DEFINE p == [player EXCEPT !.retries = @ - 1]
<1>1. player.retries - 1 \in 0 .. MaxRetries
  BY PlayerBoundsAssumption DEF RetryNext, Sound, Player
<1>2. p \in Player /\ Sound(p)
  BY <1>1, Alike DEF Sound, Player
<1>3. player' \in RetryStates(p)
  BY DEF RetryNext
<1>. HIDE DEF p
<1>4. CASE Items(p) # <<>> /\ ~p.pipe
  BY <1>2, <1>3, <1>4, GoesOn DEF RetryStates
<1>5. CASE ~(Items(p) # <<>> /\ ~p.pipe)
  BY <1>2, <1>3, <1>5, ItemsType DEF RetryStates, Steady, Idle, LongList
<1>. QED
  BY <1>4, <1>5

LEMMA Fade_Steady == ASSUME Sound(player), FadeStep \/ FadeEnd PROVE Steady(player')
<1>1. player \in Player
  BY DEF Sound
<1>2. player.fading \in Fades
  BY <1>1 DEF FadeStep, FadeEnd, Player
<1>3. player.fading \in Fades \cup {NoFade} /\ NoFade \in Fades \cup {NoFade}
  BY <1>2
<1>4. CASE FadeStep
  BY <1>3, <1>4, Veiled DEF FadeStep, Steady
<1>5. CASE FadeEnd
  <2>. DEFINE p == [player EXCEPT !.alpha = player.fading.to, !.fading = NoFade]
              then == player.fading.then
  <2>1. player.fading.to \in {"black", "mid", "clear"} /\ then \in Then
    BY <1>2 DEF Fades
  <2>2. Sound(p) /\ (Idle(p) => Idle(player))
    BY <1>3, <2>1, Veiled
  <2>3. player' \in Finish(p, then)
    BY <1>5 DEF FadeEnd
  <2>. HIDE DEF p
  <2>. QED
    BY <2>1, <2>2, <2>3, Finish_Sound DEF Steady
<1>. QED
  BY <1>4, <1>5

LEMMA Timer_Steady == ASSUME Sound(player), ImageDone \/ NearEnd PROVE Steady(player')
<1>. DEFINE p == [player EXCEPT !.timer = "none"]
<1>1. p \in Player /\ Sound(p) /\ p.pipe /\ p.timer = "none"
  BY Alike DEF ImageDone, NearEnd, Sound, Player
<1>2. player' \in FadeTo(p, "black", ThenDo("next")) \cup FadeTo(p, "black", ThenDo("nothing"))
  BY DEF ImageDone, NearEnd
<1>3. ~Idle(p)
  BY <1>1 DEF Idle
<1>. HIDE DEF p
<1>. QED
  BY <1>1, <1>2, <1>3, Fade_Sound, ThenType DEF Steady

LEMMA Started_Steady == ASSUME Sound(player), Started PROVE Steady(player')
<1>. DEFINE p == [player EXCEPT !.started = TRUE]
<1>1. p \in Player /\ Sound(p) /\ p.pipe /\ p.started
  BY Alike DEF Started, Sound, Player
<1>2. PICK q \in FadeTo(p, "clear", ThenDo("nothing")) : player' = [q EXCEPT !.timer = StartTimer(q)]
  BY DEF Started
<1>. HIDE DEF p
<1>3. [to |-> "clear", then |-> ThenDo("nothing")] \in Fades \cup {NoFade} /\ NoFade \in Fades \cup {NoFade}
  BY ThenType DEF Fades
<1>4. \E fade \in Fades \cup {NoFade} : q = [p EXCEPT !.fading = fade]
  BY <1>2, <1>3, ThenType DEF FadeTo, Finish
<1>5. Sound(q) /\ q \in Player /\ q.pipe /\ q.started
  <2>1. PICK fade \in Fades \cup {NoFade} : q = [p EXCEPT !.fading = fade]
    BY <1>4
  <2>2. q.pipe /\ q.started
    BY <1>1, <2>1 DEF Player
  <2>3. Sound(q)
    BY <1>1, <2>1, Veiled
  <2>. QED
    BY <2>2, <2>3 DEF Sound
<1>6. /\ StartTimer(q) \in {"none", "image", "video"}
      /\ StartTimer(q) = "video" => IsVideo(q)
      /\ StartTimer(q) = "image" => ~IsVideo(q) /\ Len(Items(q)) # 1
  BY DEF StartTimer
<1>7. /\ player' \in Player /\ player'.scene = q.scene /\ player'.index = q.index
      /\ player'.pipe /\ player'.started /\ player'.timer = StartTimer(q)
  BY <1>2, <1>5, <1>6 DEF Player
<1>8. Items(player') = Items(q)
  BY <1>7 DEF Items
<1>9. q.index + 1 \in 1 .. Len(Items(q)) /\ Len(Items(q)) \in Nat
  BY <1>5, ItemsType DEF Sound
<1>10. IsVideo(player') <=> IsVideo(q)
  BY <1>7, <1>8 DEF IsVideo, Item
<1>11. player'.index + 1 \in DOMAIN Items(player')
  BY <1>5, <1>7, <1>8 DEF Sound
<1>12. StartTimer(q) = "image" => Len(Items(q)) > 1
  <2>. DEFINE n == Len(Items(q))
  <2>1. n \in Nat /\ q.index + 1 \in 1 .. n
    BY <1>9
  <2>2. StartTimer(q) = "image" => n # 1
    BY <1>6
  <2>3. q.index \in Nat \cup {-1}
    BY <1>5 DEF Player
  <2>. HIDE DEF n
  <2>4. StartTimer(q) = "image" => n > 1
    BY <2>1, <2>2, <2>3
  <2>. QED
    BY <2>4 DEF n
<1>13. Sound(player')
  BY <1>6, <1>7, <1>8, <1>10, <1>11, <1>12 DEF Sound
<1>. QED
  BY <1>7, <1>13 DEF Steady, Idle

LEMMA EndOfStream_Steady == ASSUME Sound(player), EndOfStream PROVE Steady(player')
<1>. DEFINE p == [player EXCEPT !.ended = TRUE]
<1>1. p \in Player /\ Sound(p) /\ ~Idle(p)
  BY Alike DEF EndOfStream, Sound, Player, Idle
<1>2. player' \in Advance(p)
  BY DEF EndOfStream
<1>. HIDE DEF p
<1>. QED
  BY <1>1, <1>2, Next_Sound, Fade_Sound, ThenType DEF Advance, Steady

LEMMA FallBack_Steady == ASSUME Sound(player), FallBack PROVE Steady(player')
<1>1. player \in Player /\ player.index + 1 \in 1 .. Len(Items(player)) /\ Len(Items(player)) \in Nat
  BY ItemsType DEF FallBack, Sound
<1>2. player.index \in Nat /\ Items(player) # <<>>
  BY <1>1, ItemsType DEF Player
<1>3. player.mode + 1 \in 0 .. VideoOutputs - 1
  BY <1>1, PlayerBoundsAssumption DEF FallBack, CanFallBack, Player
<1>4. player' \in PlayWith(StopItem(player), player.index, player.mode + 1)
  BY DEF FallBack
<1>. QED
  BY <1>1, <1>2, <1>3, <1>4, Stopped, Played DEF Steady

LEMMA Step == ASSUME Sound(player), Next PROVE Steady(player')
<1>1. ASSUME Error PROVE Steady(player')
  BY <1>1, Failed DEF Error, Steady, Sound
<1>. QED
  BY <1>1, Load_Steady, MediaOff_Steady, MediaOn_Steady, RetryNext_Steady, Fade_Steady, Timer_Steady,
     Started_Steady, EndOfStream_Steady, FallBack_Steady
  DEF Next, Request, Timer, Message

-----------------------------------------------------------------------------
\* The invariant, and what follows

LEMMA Initially == Init => IInv
<1>. SUFFICES ASSUME Init PROVE IInv
  OBVIOUS
<1>1. player \in Player
  <2>1. 0 \in 0 .. VideoOutputs - 1 /\ 0 \in 0 .. MaxRetries /\ -1 \in Nat \cup {-1}
    BY PlayerBoundsAssumption
  <2>. QED
    BY <2>1 DEF Init, Player
<1>. QED
  BY <1>1, PlayerBoundsAssumption DEF Init, IInv, Sound

THEOREM Invariance == Safe => []IInv
<1>1. Init => IInv
  BY Initially
<1>2. IInv /\ [Next]_vars => IInv'
  <2>1. ASSUME IInv, Next PROVE IInv'
    <3>1. Sound(player')
      BY <2>1, Step DEF IInv, Steady
    <3>2. accepted' \in Scenes \cup {None} /\ requests' \in 0 .. MaxRequests
      BY <2>1, PlayerBoundsAssumption
      DEF IInv, Next, Request, Timer, Message, Load, MediaOff, MediaOn, FadeStep, FadeEnd, ImageDone,
          NearEnd, RetryNext, Started, EndOfStream, FallBack, Error
    <3>. QED
      BY <3>1, <3>2 DEF IInv
  <2>2. ASSUME IInv, UNCHANGED vars PROVE IInv'
    BY <2>2 DEF vars, IInv
  <2>. QED
    BY <2>1, <2>2
<1>. QED
  BY <1>1, <1>2, PTL DEF Safe

(* The object Player keeps its type: no index, mode or number of timers    *)
(* out of bounds (player/gstplayer.py Player).                             *)
THEOREM TypeCorrect == Safe => []TypeOK
<1>1. IInv => TypeOK
  BY DEF IInv, Sound, TypeOK, Player
<1>. QED
  BY <1>1, Invariance, PTL

(* Whatever the scenes, and in any order of timers, messages and requests: *)
(* what a callback uses without a test is there, and belongs to the scene  *)
(* that plays (_on_item_message, _check_remaining, _image_done).           *)
THEOREM CallbacksAlwaysFind == Safe => []CallbacksFindTheirItem
<1>1. IInv => CallbacksFindTheirItem
  BY DEF IInv, Sound, CallbacksFindTheirItem
<1>. QED
  BY <1>1, Invariance, PTL

(* A list of several items goes quiet by no step but the end of a fade     *)
(* that was to stop it: a failed item, a switch or a retry leaves a timer  *)
(* or a pipeline (_item_failed, _retry_next, _fade_to).                    *)
THEOREM GoesQuietByStopOnly == Safe => IdleOnlyAfterStop
<1>1. IInv /\ [Next]_vars => [Idle(player') => Idle(player) \/ player.fading.then.do = "stop"]_vars
  BY Step DEF IInv, Steady
<1>. QED
  BY <1>1, Invariance, PTL DEF Safe, IdleOnlyAfterStop

=============================================================================
