----------------------------- MODULE MCGateway -----------------------------
(* Instances of Gateway for TLC: two daemons, one of which does not know its *)
(* address, and containers with one or two rules of each kind.               *)
EXTENDS Gateway, TLC

CONSTANTS h1, h2, c1, c2, a1, a2, wild, undotted, f1, f2, partial

MCHosts == {h1, h2}
MCContainers == {c1, c2}
MCHostOf == (c1 :> h1) @@ (c2 :> h2)

MCOneContainer == {c1}
MCOneHostOf == c1 :> h1
MCPairSite == c1 :> {a1, undotted}
MCPairForward == c1 :> {f1, partial}

\* c1 has two DNS targets and one NAT target, c2 one of each.
MCSites == (c1 :> {a1, a2, wild}) @@ (c2 :> {a1, undotted})
MCForwards == (c1 :> {f1, partial}) @@ (c2 :> {f2})

\* One target per container.
MCOneSite == (c1 :> {a1, wild}) @@ (c2 :> {a2, undotted})
MCOneForward == (c1 :> {partial}) @@ (c2 :> {f1})

MCForeign == { [kind |-> "dns", uuid |-> 0, cid |-> NoCid, target |-> a1],
               [kind |-> "nat", uuid |-> 1, cid |-> NoCid, target |-> f1] }

\* A bound of gateway_overlap: the process does not die (gateway_restart has that),
\* since PendingIsPublished would not survive it.
CrashFree ==
  \/ \E c \in Containers : StartContainer(c) \/ StopContainer(c)
  \/ Startup
  \/ \E p \in Passes : Begin(p) \/ PassStep(p)

CrashFreeSpec == Init /\ [][CrashFree]_vars /\ Fairness
=============================================================================
