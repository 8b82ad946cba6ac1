----------------------------- MODULE MCLiveness ------------------------------
(***************************************************************************)
(* The parts that must get something done in the end, explored side by      *)
(* side: a behaviour is one of the session hub, of the self-update or of the *)
(* managed mode, which share no state, while the others rest.  Each part's   *)
(* promise is checked under its own fairness.                                *)
(***************************************************************************)
EXTENDS MCSessionHub, MCSelfUpdate, ManagedMode

VARIABLE part

LiveInit ==
    /\ part \in {"hub", "update", "managed"}
    /\ Init
    /\ UpdateInit
    /\ part # "update" => setting.mode = "manual"
    /\ ManagedInit

LiveNext ==
    /\ UNCHANGED part
    /\ \/ part = "hub" /\ Next /\ UNCHANGED <<updateVars, managedVars>>
       \/ part = "update" /\ UpdateNext /\ UNCHANGED <<vars, managedVars>>
       \/ part = "managed" /\ ManagedNext /\ UNCHANGED <<vars, updateVars>>

LiveSpec == LiveInit /\ [][LiveNext]_<<part, vars, updateVars, managedVars>>

\* No handler of a tab or of a control channel waits for ever.
HandlersFinishInHub == part = "hub" /\ Fairness => HandlersFinish

\* Automatic mode installs the newest release if somebody opens the application.
AutoModeUpdatesServer == part = "update" /\ UpdateFairness => AutoModeUpdates

\* The lock and pktHub's record of it come together.
LockFollowsPolls == part = "managed" /\ ManagedFairness => LockFollowsHub
=============================================================================
