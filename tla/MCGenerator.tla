---------------------------- MODULE MCGenerator ----------------------------
(* An instance of Generator for TLC: two daemons of one swarm, a container   *)
(* of each, a service with one task, a config and one that does not parse,   *)
(* and one network of each sort.                                             *)
EXTENDS GeneratorHistory

CONSTANTS u1, u2, c1, c2, s1, t1, k1, k2, shared, mesh

MCClientOf == [o \in Objects |-> IF o \in {c1, s1, k1} THEN 1 ELSE 2]
MCServiceOf == [t \in Tasks |-> s1]
MCNetworksOf ==
  [o \in Containers \cup Tasks |-> IF o = c2 THEN {shared} ELSE Networks]
MCLabelledNetwork ==
  [o \in Containers \cup Services |-> IF o = c2 THEN shared ELSE None]

\* What Docker is like at first: a swarm with or without objects, or no swarm yet
\* and no network of the client's own.
FirstStates ==
  {<<Objects, Clients \X Networks, Clients>>,
   <<Containers \cup Tasks, Clients \X Networks, Clients>>,
   <<Objects, {}, {}>>}

MCInit == HistoryInit /\ <<present, joined, swarmActive>> \in FirstStates

MCSpec == MCInit /\ [][HistoryNext]_historyVars /\ Fairness
=============================================================================
