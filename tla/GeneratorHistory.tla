-------------------------- MODULE GeneratorHistory --------------------------
(***************************************************************************)
(* Generator with one more history variable: which generations nothing     *)
(* disturbed.  It restricts no step.                                       *)
(***************************************************************************)
EXTENDS Generator

VARIABLE
  undisturbed   \* see NoteDisturbance

historyVars == <<vars, undisturbed>>

underWay == {u \in Updates : pc[u] # "idle"}

\* What is cached about swarms is still so, or is going to be asked again.
KnowsSwarms == Expired \/ swarmIsAvailable = swarmActive

\* Docker changes, or a call fails.
Disturbance == changes' # changes \/ failures' # failures

\* A generation is undisturbed when neither Docker changed nor a call failed since
\* it began, or since those began that were under way then, and it did not begin
\* with a cache that Docker's changes or failing calls had left wrong.
NoteDisturbance ==
  undisturbed' =
    IF Disturbance THEN {}
    ELSE {u \in Updates :
            /\ pc'[u] # "idle"
            /\ \/ u \in undisturbed
               \/ pc[u] = "idle" /\ underWay \subseteq undisturbed /\ KnowsSwarms}

HistoryInit == Init /\ undisturbed = {}
HistoryNext == Next /\ NoteDisturbance
HistorySpec == HistoryInit /\ [][HistoryNext]_historyVars

\* A generation that nothing disturbed yields what Docker's state asks for, site by
\* site and server by server, however it overlaps with others and whenever the
\* cached swarm availability expires meanwhile, if clients agree on whether they
\* are in a swarm: the caches that generations share without a lock mislead none.
UndisturbedAreExact ==
  \A u \in undisturbed :
    pc[u] = "done" /\ swarmActive \in {{}, Clients} =>
      sites[u] = Wanted.sites /\ servers[u] = Wanted.servers
=============================================================================
