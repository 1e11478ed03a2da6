------------------------- MODULE PortForwardLifecycle -------------------------
(***************************************************************************)
(* What the port-forward supervisor promises, as the lifecycle of its     *)
(* shared context (spec 4.8): Idle -> Exposing -> Active -> Draining ->   *)
(* Stopped, or Failed from Idle or Exposing.  Tunnels are opened one at a *)
(* time while exposing, the context turns active only once every declared *)
(* tunnel was opened, a tunnel may go down at any time, and the context   *)
(* is stopped only when no tunnel is up any more.                         *)
(***************************************************************************)
EXTENDS Naturals

CONSTANT N          \* number of declared exposures

Tunnels == 1 .. N

VARIABLES
  state,    \* lifecycle state of the shared context
  started,  \* tunnels that were opened
  up        \* tunnels opened and not yet finished

vars == <<state, started, up>>

States == {"Idle", "Exposing", "Active", "Failed", "Draining", "Stopped"}

Init ==
  /\ state = "Idle"
  /\ started = {}
  /\ up = {}

\* The shared context is created.
Begin ==
  /\ state = "Idle"
  /\ state' = "Exposing"
  /\ UNCHANGED <<started, up>>

\* Setting up, or one exposure, fails: the context is given up.
Abort ==
  /\ state \in {"Idle", "Exposing"}
  /\ state' = "Failed"
  /\ UNCHANGED <<started, up>>

\* A tunnel that was not opened yet is opened.
Open(t) ==
  /\ state = "Exposing"
  /\ t \notin started
  /\ started' = started \cup {t}
  /\ up' = up \cup {t}
  /\ UNCHANGED state

\* Every declared tunnel was opened: the context is active.
Activate ==
  /\ state = "Exposing"
  /\ started = Tunnels
  /\ state' = "Active"
  /\ UNCHANGED <<started, up>>

\* A tunnel goes down (stopped, failed or lost) and has been accounted for.
Finish(t) ==
  /\ t \in up
  /\ up' = up \ {t}
  /\ UNCHANGED <<state, started>>

\* Teardown signals the active context to stop.
Stop ==
  /\ state = "Active"
  /\ state' = "Draining"
  /\ UNCHANGED <<started, up>>

\* Teardown completes only when no tunnel is up.
Stopped ==
  /\ state = "Draining"
  /\ up = {}
  /\ state' = "Stopped"
  /\ UNCHANGED <<started, up>>

Next ==
  \/ Begin \/ Abort \/ Activate \/ Stop \/ Stopped
  \/ \E t \in Tunnels : Open(t) \/ Finish(t)

Spec == Init /\ [][Next]_vars

=============================================================================
