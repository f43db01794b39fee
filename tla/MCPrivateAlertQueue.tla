------------------------ MODULE MCPrivateAlertQueue ------------------------
(* A small instance of PrivateAlertQueue for TLC. *)
EXTENDS PrivateAlertQueue

CONSTANTS a1, a2, s1, s2

\* Every alert belongs to the same filter.
MCFilterOf == [a \in Alert |-> CHOOSE f \in Filter : TRUE]

\* The second alert is not to be seen anywhere.
Alone == a2 \notin fresh /\ dms[a2] = 0 /\ Forgotten(a2)

\* One thread, no mishaps, no refusals.
Quiet ==
  /\ faults = 0 /\ restarts = 0 /\ scr[s2] = IdleScraper
  /\ filters = Filter /\ refused = {}

\* Bounds: one thread and no mishaps for two alerts that share the queue and the
\* table, and two threads and two mishaps for an alert that is alone.
Bounded == (Alone' /\ faults' + restarts' <= 2) \/ Quiet'

BoundedSpec == Init /\ [][Next /\ Bounded]_vars /\ Fairness

=============================================================================
