---------------------------- MODULE ShellContract ----------------------------
(***************************************************************************)
(* What the terminal of a node promises, with no WebSocket, frame or lock   *)
(* in sight: a session that a tab opened gets a shell at most once, a shell  *)
(* runs only while the agent has its channel, starting one ends the one      *)
(* before it, and a shell that is over never runs again.                     *)
(***************************************************************************)
CONSTANT Sessions

VARIABLES
  channel, \* whether the agent has a control channel
  life     \* how far a session has come

vars == <<channel, life>>

Stages == {"none", "opened", "running", "over"}

Init == channel = FALSE /\ life = [s \in Sessions |-> "none"]

\* The sessions after every shell that runs has ended.
Ended == [s \in Sessions |-> IF life[s] = "running" THEN "over" ELSE life[s]]

Connect == ~channel /\ channel' = TRUE /\ UNCHANGED life

Lose == channel /\ channel' = FALSE /\ life' = Ended

Open(s) ==
  /\ life[s] = "none"
  /\ life' = [life EXCEPT ![s] = "opened"]
  /\ UNCHANGED channel

Start(s) ==
  /\ channel
  /\ life[s] = "opened"
  /\ life' = [Ended EXCEPT ![s] = "running"]
  /\ UNCHANGED channel

End(s) ==
  /\ life[s] = "running"
  /\ life' = [life EXCEPT ![s] = "over"]
  /\ UNCHANGED channel

Next == Connect \/ Lose \/ \E s \in Sessions : Open(s) \/ Start(s) \/ End(s)

Spec == Init /\ [][Next]_vars
=============================================================================
