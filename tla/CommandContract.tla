--------------------------- MODULE CommandContract ---------------------------
(***************************************************************************)
(* What the remote-action pipeline promises about a command, with no        *)
(* check-in, HTTP exchange or agent process in sight: it is queued, taken   *)
(* by the agent at most once, run at most once, and only then recorded.     *)
(* A taken command may never run and a run one may never be recorded.       *)
(***************************************************************************)
EXTENDS Naturals

CONSTANT Cmds

VARIABLES
  life,   \* how far a command has come
  runs    \* how often it ran

vars == <<life, runs>>

Lives == {"none", "queued", "taken", "run", "recorded"}

TypeOK == life \in [Cmds -> Lives] /\ runs \in [Cmds -> Nat]

Init == /\ life = [c \in Cmds |-> "none"]
        /\ runs = [c \in Cmds |-> 0]

Queue(c) ==
  /\ life[c] = "none"
  /\ life' = [life EXCEPT ![c] = "queued"]
  /\ UNCHANGED runs

\* One check-in takes everything that is queued.
TakeAll ==
  /\ \E c \in Cmds : life[c] = "queued"
  /\ life' = [c \in Cmds |-> IF life[c] = "queued" THEN "taken" ELSE life[c]]
  /\ UNCHANGED runs

Run(c) ==
  /\ life[c] = "taken"
  /\ life' = [life EXCEPT ![c] = "run"]
  /\ runs' = [runs EXCEPT ![c] = @ + 1]

Record(c) ==
  /\ life[c] = "run"
  /\ life' = [life EXCEPT ![c] = "recorded"]
  /\ UNCHANGED runs

Next == TakeAll \/ \E c \in Cmds : Queue(c) \/ Run(c) \/ Record(c)

Spec == Init /\ [][Next]_vars
=============================================================================
