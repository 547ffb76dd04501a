------------------------------ MODULE Registration ------------------------------
(***************************************************************************)
(* How a device is known to the server: the identity on its card           *)
(* (agent/identity.go), its registration and the change of its key         *)
(* (server/register.go), the signature of its requests and the clock they  *)
(* are signed with (server/device.go deviceAuth, agent/clock.go,           *)
(* agent/agent.go step and contact).                                       *)
(*                                                                         *)
(* There is one device id, for which another machine may ask as well.      *)
(* Time is the server's: drift is what the device's clock is off, offset   *)
(* what it adds, and a request is in time when they cancel.  The actions   *)
(* here leave what a step applies (Settings) unsaid.                       *)
(***************************************************************************)
EXTENDS Integers

CONSTANTS
  None, Damaged,
  Other,                    \* the key of another machine with the same id
  MaxKeys                   \* bound: the keys the device makes for itself

ASSUME KeysAssumption == MaxKeys \in Nat /\ {None, Damaged, Other} \cap (0 .. MaxKeys) = {}

VARIABLES
  dev,              \* the device in the store: None, or its key and the one asked for
  idFile,           \* identity.json: None, Damaged or a key
  identity,         \* a.identity
  registered,       \* a.registered
  drift, offset, synced,
  at,               \* where the agent is
  again,            \* contact is at its second try
  made,             \* keys made so far
  lost,             \* identity.json went after it was written
  jumped            \* the clock was changed after the answer it was set by

link == <<dev, idFile, identity, registered, drift, offset, synced, at, again, made, lost, jumped>>

Own    == 1 .. MaxKeys
Keys   == Own \cup {Other}
Device == [secret : Keys, rekey : Keys \cup {None}]

LinkTypeOK ==
  /\ dev \in Device \cup {None}
  /\ idFile \in Own \cup {None, Damaged} /\ identity \in Own \cup {None}
  /\ registered \in BOOLEAN /\ synced \in BOOLEAN /\ again \in BOOLEAN
  /\ drift \in {0, 1} /\ offset \in -1 .. 1
  /\ made \in 0 .. MaxKeys /\ lost \in BOOLEAN /\ jumped \in BOOLEAN

(* A card just written: no identity, and no clock.                         *)
LinkInit ==
  /\ dev = None
  /\ idFile = None /\ identity = None /\ registered = FALSE
  /\ drift = 1 /\ offset = 0 /\ synced = FALSE
  /\ at = "down" /\ again = FALSE
  /\ made = 0 /\ lost = FALSE /\ jumped = FALSE

Up == at # "down"

--------------------------------------------------------------------------------
\* The agent starts

(* loadOrCreateIdentity: the key on the card ...                           *)
KeepIdentity ==
  /\ idFile \in Own
  /\ identity' = idFile
  /\ UNCHANGED <<idFile, made, lost>>

(* ... or one of its own making, which is saved first; a damaged file is   *)
(* put aside.                                                              *)
NewIdentity ==
  /\ idFile \notin Own /\ made < MaxKeys
  /\ made' = made + 1 /\ identity' = made' /\ idFile' = made'
  /\ lost' = FALSE

Started ==
  /\ at = "down" /\ at' = "idle"
  /\ registered' = FALSE /\ again' = FALSE /\ offset' = 0
  /\ UNCHANGED <<dev, drift, synced, jumped>>

StartAgent == Started /\ (KeepIdentity \/ NewIdentity)

(* The new identity cannot be written: Run returns.                        *)
StartUnsaved ==
  /\ at = "down" /\ idFile \notin Own
  /\ idFile' = None
  /\ UNCHANGED <<dev, identity, registered, drift, offset, synced, at, again, made, lost, jumped>>

--------------------------------------------------------------------------------
\* A contact

(* The timers: a step registers first if it must.                          *)
BeginStep ==
  /\ at = "idle" /\ at' = IF registered THEN "poll" ELSE "register"
  /\ again' = FALSE
  /\ UNCHANGED <<dev, idFile, identity, registered, drift, offset, synced, made, lost, jumped>>

BeginBeat ==
  /\ at = "idle" /\ registered /\ at' = "beat"
  /\ again' = FALSE
  /\ UNCHANGED <<dev, idFile, identity, registered, drift, offset, synced, made, lost, jumped>>

(* No answer: the request or its answer is lost.                           *)
Unanswered ==
  /\ at \in {"register", "poll", "beat"} /\ at' = "idle"
  /\ UNCHANGED <<idFile, identity, registered, drift, offset, synced, again, made, lost, jumped>>

(* serverClock.observe, of every answer: the offset is learned, or the     *)
(* system's clock is set unless it is kept by others.                      *)
ObserveClock ==
  /\ \/ offset' = -drift /\ UNCHANGED drift
     \/ drift # 0 /\ ~synced /\ drift' = 0 /\ offset' = 0
  /\ jumped' = FALSE
  /\ UNCHANGED synced

(* handleRegister.                                                         *)
Registered(d, key) ==
  IF d = None THEN [secret |-> key, rekey |-> None]
  ELSE IF d.secret = key THEN d ELSE [d EXCEPT !.rekey = key]

(* Mutant: a conflict is taken for a registration.                         *)
Register_Conflict ==
  /\ at = "register"
  /\ dev' = Registered(dev, identity)
  /\ registered' = TRUE /\ at' = "poll"
  /\ ObserveClock
  /\ UNCHANGED <<idFile, identity, again, made, lost>>

Register ==
  /\ at = "register"
  /\ dev' = Registered(dev, identity)
  /\ registered' = (dev'.secret = identity)
  /\ at' = IF registered' THEN "poll" ELSE "idle"
  /\ ObserveClock
  /\ UNCHANGED <<idFile, identity, again, made, lost>>

RegisterUnanswered ==
  /\ at = "register" /\ Unanswered
  /\ dev' \in {dev, Registered(dev, identity)}

(* deviceAuth, with sign.Verify.                                           *)
Verdict ==
  CASE dev = None            -> "unknown"
    [] drift + offset # 0    -> "skew"
    [] dev.secret # identity -> "mismatch"
    [] OTHER                 -> "ok"

Passes(kind, next) ==
  /\ at = kind /\ Verdict = "ok"
  /\ at' = next
  /\ ObserveClock
  /\ UNCHANGED <<dev, idFile, identity, registered, again, made, lost>>

(* Mutant: only an answer that grants the request sets the clock.          *)
Refused_NotObserved(kind) ==
  /\ at = kind /\ Verdict # "ok"
  /\ IF Verdict = "skew" /\ ~again THEN again' = TRUE /\ UNCHANGED at
     ELSE at' = "idle" /\ UNCHANGED again
  /\ registered' = (registered /\ ~(kind = "poll" /\ Verdict = "unknown"))
  /\ jumped' = FALSE
  /\ UNCHANGED <<dev, idFile, identity, drift, offset, synced, made, lost>>

(* contact tries once more when the clock was the reason; a poll of a      *)
(* device the server does not know registers again.                        *)
Refused(kind) ==
  /\ at = kind /\ Verdict # "ok"
  /\ IF Verdict = "skew" /\ ~again THEN again' = TRUE /\ UNCHANGED at
     ELSE at' = "idle" /\ UNCHANGED again
  /\ registered' = (registered /\ ~(kind = "poll" /\ Verdict = "unknown"))
  /\ ObserveClock
  /\ UNCHANGED <<dev, idFile, identity, made, lost>>

SignedUnanswered ==
  /\ at \in {"poll", "beat"} /\ Unanswered
  /\ UNCHANGED dev

--------------------------------------------------------------------------------
\* The operator, the other machine, and what may happen to a device

Serves(d) ==
  /\ dev' = d
  /\ UNCHANGED <<idFile, identity, registered, drift, offset, synced, at, again, made, lost, jumped>>

(* handleRekey: what is accepted is the request there is by then.          *)
AcceptKey == dev # None /\ dev.rekey # None /\ Serves([secret |-> dev.rekey, rekey |-> None])
RejectKey == dev # None /\ dev.rekey # None /\ Serves([dev EXCEPT !.rekey = None])

ForgetDevice == dev # None /\ Serves(None)

OtherRegisters == dev # Registered(dev, Other) /\ Serves(Registered(dev, Other))

LoseIdentity ==
  /\ idFile \in Own
  /\ idFile' \in {None, Damaged} /\ lost' = TRUE
  /\ UNCHANGED <<dev, identity, registered, drift, offset, synced, at, again, made, jumped>>

(* The clock is set by NTP, to a time that need not be the server's.       *)
ClockSet ==
  /\ drift' = 1 - drift /\ synced' = TRUE /\ jumped' = TRUE
  /\ UNCHANGED <<dev, idFile, identity, registered, offset, at, again, made, lost>>

Dies ==
  /\ Up /\ at' = "down"
  /\ identity' = None /\ registered' = FALSE /\ again' = FALSE
  /\ UNCHANGED <<dev, idFile, offset, made, lost>>

AgentDies == Dies /\ UNCHANGED <<drift, synced, jumped>>

(* The clock has no battery.                                               *)
PowerCut == Dies /\ drift' = 1 /\ synced' = FALSE /\ jumped' = TRUE

--------------------------------------------------------------------------------
\* Properties

(* The key the agent registers with is on its card, so that no restart     *)
(* makes it a stranger, unless the file was lost since.                    *)
KeyIsKept == Up => idFile = identity \/ lost

(* An agent that believes it is registered, and only polls, will pass or   *)
(* be told that it is unknown; it is shut out for good only if the key of  *)
(* the other machine took the place of its own.                            *)
RegisteredIsKnown ==
  /\ KeyIsKept
  /\ registered => dev = None \/ dev.secret \in {identity, Other}

(* The second try of a contact is in time, however wrong the clock was,    *)
(* unless the clock was changed in between.                                *)
SecondTryIsInTime == again => drift + offset = 0 \/ jumped
================================================================================
