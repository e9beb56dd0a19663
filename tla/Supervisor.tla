----------------------------- MODULE Supervisor -----------------------------
(***************************************************************************)
(* What a process manager promises, without threads, locks, counters, ids  *)
(* or clocks: while it is on it launches a task's program only when every  *)
(* instance of it has ended or been told to, and it is off only when all   *)
(* have that did not withstand being killed.                               *)
(***************************************************************************)
EXTENDS Naturals

CONSTANT Tasks

VARIABLES
  on,       \* the manager is at work
  live,     \* [Tasks -> number of running instances not told to end]
  refused   \* tasks whose program runs on because it could not be killed

vars == <<on, live, refused>>

Init ==
  /\ on = FALSE
  /\ live = [t \in Tasks |-> 0]
  /\ refused = {}

TurnOn ==
  /\ ~on /\ on' = TRUE
  /\ refused' = {}
  /\ UNCHANGED live

Launch(t) ==
  /\ on /\ live[t] = 0
  /\ live' = [live EXCEPT ![t] = 1]
  /\ UNCHANGED <<on, refused>>

(* A program ends by itself, or is told to end.                            *)
End(t) ==
  /\ live[t] > 0
  /\ live' = [live EXCEPT ![t] = @ - 1]
  /\ refused' = refused \ {t}
  /\ UNCHANGED on

Refuse(t) ==
  /\ on /\ live[t] > 0
  /\ refused' = refused \cup {t}
  /\ UNCHANGED <<on, live>>

TurnOff ==
  /\ on /\ on' = FALSE
  /\ \A t \in Tasks : live[t] > 0 => t \in refused
  /\ UNCHANGED <<live, refused>>

Next ==
  \/ TurnOn \/ TurnOff
  \/ \E t \in Tasks : Launch(t) \/ End(t) \/ Refuse(t)

Spec == Init /\ [][Next]_vars
=============================================================================
