-------------------------------- MODULE Display --------------------------------
(***************************************************************************)
(* What a display device promises about its screen, whatever happens to    *)
(* the network, the server and the device:                                 *)
(*                                                                         *)
(*   - it shows a scene of a manifest the server once offered, never a     *)
(*     mixture of two;                                                      *)
(*   - the scene is complete, unless the saved files were damaged;         *)
(*   - only the end of the process takes a scene off the screen without    *)
(*     putting another one in its place.                                   *)
(***************************************************************************)
CONSTANTS
  Offerable,      \* manifests the server may offer
  FilesOf(_),     \* the files a manifest needs
  Nothing         \* the empty screen

VARIABLES
  offered,        \* manifests the server has offered so far
  damaged,        \* saved files have been lost
  screen          \* the scene on the screen, or Nothing

Scene(m, files) == [manifest |-> m, files |-> files]
FullScene(m)    == Scene(m, FilesOf(m))

Init ==
  /\ offered \in {{m} : m \in Offerable}
  /\ damaged = FALSE
  /\ screen = Nothing

Offer(m) ==
  /\ offered' = offered \cup {m}
  /\ UNCHANGED <<damaged, screen>>

Damage ==
  /\ damaged' = TRUE
  /\ UNCHANGED <<offered, screen>>

Show(m) ==
  /\ m \in offered
  /\ screen' = FullScene(m)
  /\ UNCHANGED <<offered, damaged>>

ShowWhatIsLeft(m, files) ==
  /\ m \in offered
  /\ damaged
  /\ files # {}
  /\ screen' = Scene(m, files)
  /\ UNCHANGED <<offered, damaged>>

PowerOff ==
  /\ screen' = Nothing
  /\ UNCHANGED <<offered, damaged>>

Next ==
  \/ \E m \in Offerable : Offer(m) \/ Show(m)
  \/ \E m \in Offerable : \E files \in SUBSET FilesOf(m) : ShowWhatIsLeft(m, files)
  \/ Damage \/ PowerOff

Spec == Init /\ [][Next]_<<offered, damaged, screen>>
================================================================================
