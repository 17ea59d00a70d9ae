---------------------------- MODULE PushLedger ----------------------------
(***************************************************************************)
(* What the push promises: a server only loads a configuration that has    *)
(* been stored, and never one older than the last it loaded, except while  *)
(* the order of that server's requests is lost.  The numbering starts      *)
(* again with the controller; a server that restarts runs nothing.         *)
(***************************************************************************)
EXTENDS Naturals, Sequences

CONSTANTS Servers, Configs, None

VARIABLES
  stored,    \* configurations, in their order
  runs,      \* configuration each server runs
  holds,     \* its number, 0 if it has none in stored
  unordered  \* servers whose order is lost for the time being

vars == <<stored, runs, holds, unordered>>

Init ==
  /\ stored = <<>>
  /\ runs = [s \in Servers |-> None]
  /\ holds = [s \in Servers |-> 0]
  /\ unordered = {}

Store(c) ==
  /\ stored' = Append(stored, c)
  /\ UNCHANGED <<runs, holds, unordered>>

Load(s, n) ==
  /\ n >= holds[s] \/ s \in unordered
  /\ runs' = [runs EXCEPT ![s] = stored[n]]
  /\ holds' = [holds EXCEPT ![s] = n]
  /\ UNCHANGED <<stored, unordered>>

\* The order of a server's requests is lost, or matters again: from here on,
\* nothing is older than what the server holds.
Reorder(S) ==
  /\ unordered' = S
  /\ UNCHANGED <<stored, runs, holds>>

ServerRestart(s) ==
  /\ runs' = [runs EXCEPT ![s] = None]
  /\ holds' = [holds EXCEPT ![s] = 0]
  /\ UNCHANGED <<stored, unordered>>

ControllerRestart ==
  /\ stored' = <<>>
  /\ holds' = [s \in Servers |-> 0]
  /\ unordered' = {}
  /\ UNCHANGED runs

Next ==
  \/ \E c \in Configs : Store(c)
  \/ \E s \in Servers, n \in 1..Len(stored) : Load(s, n)
  \/ \E S \in SUBSET Servers : Reorder(S)
  \/ \E s \in Servers : ServerRestart(s)
  \/ ControllerRestart

Spec == Init /\ [][Next]_vars
=============================================================================
