-------------------------- MODULE GeneratorProofs --------------------------
(* Safety of overlapping generations, for any number of clients, objects,    *)
(* networks and generations in progress, whatever Docker does and whichever  *)
(* calls fail.                                                               *)
EXTENDS GeneratorHistory, TLAPS

\* Outside a loop the cursor is at the first client, and a generation starts
\* with nothing.
Rewound ==
  \A u \in Updates :
    /\ pc[u] \in {"idle", "assign", "swarm", "stamp", "done"} => index[u] = 1
    /\ pc[u] = "idle" => found[u] = {} /\ sites[u] = {} /\ servers[u] = {}

\* What getIngressNetworks has found holds the networks of the clients it has
\* been to, and never the routing mesh.
Learned ==
  /\ ingressNetworks \cap RoutingMesh = {}
  /\ \A u \in Updates :
       /\ found[u] \cap RoutingMesh = {}
       /\ \A i \in Clients, n \in Networks \ RoutingMesh :
            <<i, n>> \in steadyJoined[u] =>
              /\ pc[u] = "ingress" /\ i < index[u] => n \in found[u]
              /\ pc[u] = "assign" => n \in found[u]

\* The containers of client i have been read.
Passed(u, i) ==
  \/ pc[u] = "done"
  \/ pc[u] \in {"configs", "containers"} /\ i < index[u]
  \/ pc[u] = "services" /\ i <= index[u]

Served(u, c) == c \in {x[1] : x \in sites[u]}

\* Containers that are there all along have a site once their client has been
\* read.
ServedSoFar ==
  \A u \in Updates : \A c \in (Containers \cap steady[u]) \ BrokenLabels :
    ClientOf[c] \notin unlisted[u] /\ Passed(u, ClientOf[c]) => Served(u, c)

\* What the sites S and the servers A name is in P.
Within(S, A, P) ==
  /\ \A x \in S : x[1] \in P /\ \A a \in x[2] : a[1] \in P
  /\ \A a \in A : a[1] \in P

\* All that exists has been seen by the generations under way, and they name
\* nothing else.
NamesSeen ==
  \A u \in Updates :
    /\ pc[u] # "idle" => present \subseteq seen[u]
    /\ Within(sites[u], servers[u], seen[u])

\* One round of a loop over the clients.
LEMMA AdvanceTyped ==
  ASSUME TypeOK, NEW u \in Updates, NEW again \in Phases, NEW next \in Phases,
         Advance(u, again, next)
  PROVE  /\ index' \in [Updates -> Clients]
         /\ pc' \in [Updates -> Phases]
         /\ \A v \in Updates : v # u => pc'[v] = pc[v] /\ index'[v] = index[v]
         /\ \/ pc'[u] = again /\ index'[u] = index[u] + 1
            \/ pc'[u] = next /\ index'[u] = 1 /\ index[u] = NClients
<1> USE GeneratorAssumption DEF TypeOK, Clients
<1>1. CASE index[u] < NClients
  BY <1>1 DEF Advance
<1>2. CASE ~(index[u] < NClients)
  BY <1>2 DEF Advance
<1> QED
  BY <1>1, <1>2

\* What a round of a loop leaves alone, and where it leads.
Rounds(u, again, next) ==
  /\ \A v \in Updates : v # u => pc'[v] = pc[v] /\ index'[v] = index[v]
  /\ \/ pc'[u] = again /\ index'[u] = index[u] + 1
     \/ pc'[u] = next /\ index'[u] = 1 /\ index[u] = NClients

LEMMA IngressRounds ==
  ASSUME TypeOK, NEW u \in Updates, Advance(u, "ingress", "assign")
  PROVE  Rounds(u, "ingress", "assign")
  BY AdvanceTyped DEF Rounds, Phases

LEMMA InfoRounds ==
  ASSUME TypeOK, NEW u \in Updates, Advance(u, "info", "stamp")
  PROVE  Rounds(u, "info", "stamp")
  BY AdvanceTyped DEF Rounds, Phases

LEMMA ServiceRounds ==
  ASSUME TypeOK, NEW u \in Updates, Advance(u, "configs", "done")
  PROVE  Rounds(u, "configs", "done")
  BY AdvanceTyped DEF Rounds, Phases

LEMMA MeetsTyped ==
  ASSUME TypeOK, NEW fails, Meets(fails)
  PROVE  failures' \in Nat
  BY DEF Meets, TypeOK

LEMMA ContainerSiteTyped ==
  ASSUME NEW c \in Containers, NEW I
  PROVE  ContainerSite(c, I) \in Objects \X SUBSET AddressSet
  BY GeneratorAssumption DEF ContainerSite, IngressAddresses, AddressSet, Objects

LEMMA ServiceSiteTyped ==
  ASSUME NEW s \in Services, NEW P, NEW I
  PROVE  ServiceSite(s, P, I) \in Objects \X SUBSET AddressSet
<1>1. \A t \in Tasks : IngressAddresses(t, LabelledNetwork[s], I) \in SUBSET AddressSet
  BY GeneratorAssumption DEF IngressAddresses, AddressSet, Objects
<1>2. UNION {IngressAddresses(t, LabelledNetwork[s], I) : t \in TasksOf(s, P)} \in SUBSET AddressSet
  BY <1>1 DEF TasksOf
<1>3. {<<s, None>>} \in SUBSET AddressSet
  BY DEF AddressSet, Objects
<1> QED
  BY <1>2, <1>3 DEF ServiceSite, Objects

LEMMA ServersTyped ==
  ASSUME NEW C \in SUBSET Containers, NEW S, NEW P
  PROVE  ContainerServers(C) \subseteq AddressSet /\ ServiceServers(S, P) \subseteq AddressSet
<1>1. \A o \in Containers \cup Tasks : Addresses(o) \subseteq AddressSet
  BY GeneratorAssumption DEF Addresses, AddressSet, Objects
<1> QED
  BY <1>1 DEF ContainerServers, ServiceServers, Controlled, TasksOf

\* Every step keeps the types.
LEMMA TypeStep == TypeOK /\ [Next]_vars => TypeOK'
<1> SUFFICES ASSUME TypeOK, [Next]_vars PROVE TypeOK'
  OBVIOUS
<1> USE GeneratorAssumption
<1>1. ASSUME NEW o \in Objects, Appear(o) PROVE TypeOK'
  BY <1>1 DEF Appear, Changing, TypeOK, cache, local
<1>2. ASSUME NEW o \in Objects, Vanish(o) PROVE TypeOK'
  BY <1>2 DEF Vanish, Changing, TypeOK, cache, local
<1>3. ASSUME NEW i \in Clients, NEW n \in Networks, Join(i, n) PROVE TypeOK'
  BY <1>3 DEF Join, Changing, TypeOK, cache, local, history
<1>4. ASSUME NEW i \in Clients, NEW n \in Networks, Leave(i, n) PROVE TypeOK'
  BY <1>4 DEF Leave, Changing, TypeOK, cache, local
<1>5. ASSUME NEW i \in Clients, ChangeSwarm(i) PROVE TypeOK'
  BY <1>5 DEF ChangeSwarm, Changing, TypeOK, cache, local, history
<1>6. CASE Tick
  BY <1>6 DEF Tick, TypeOK, docker, budgets, local, history
<1>7. ASSUME NEW u \in Updates, Begin(u) PROVE TypeOK'
  BY <1>7 DEF Begin, TypeOK, docker, cache, budgets, local, Phases
<1>8. ASSUME NEW u \in Updates, ReadIngress(u) PROVE TypeOK'
  <2>1. failures' \in Nat
    BY <1>8 DEF ReadIngress, Meets, TypeOK
  <2>2. index' \in [Updates -> Clients] /\ pc' \in [Updates -> Phases]
    <3>1. CASE Advance(u, "ingress", "assign")
      BY <3>1, AdvanceTyped DEF Phases
    <3>2. CASE /\ index' = [index EXCEPT ![u] = 1]
               /\ pc' = [pc EXCEPT ![u] = AfterIngressError]
      BY <3>2 DEF AfterIngressError, TypeOK, Phases, Clients
    <3> QED
      BY <1>8, <3>1, <3>2 DEF ReadIngress
  <2>3. found' \in [Updates -> SUBSET Networks]
    <3>1. CASE UNCHANGED found
      BY <3>1 DEF TypeOK
    <3>2. CASE found' = [found EXCEPT ![u] =
                 @ \cup {n \in Networks \ RoutingMesh : <<index[u], n>> \in joined}]
      <4> DEFINE learned == {n \in Networks \ RoutingMesh : <<index[u], n>> \in joined}
      <4>1. found \in [Updates -> SUBSET Networks]
        BY DEF TypeOK
      <4>2. learned \in SUBSET Networks
        OBVIOUS
      <4>3. found' = [found EXCEPT ![u] = @ \cup learned]
        BY <3>2
      <4> HIDE DEF learned
      <4> QED
        BY ONLY <4>1, <4>2, <4>3
    <3> QED
      BY ONLY <1>8, <3>1, <3>2 DEF ReadIngress
  <2> QED
    BY <1>8, <2>1, <2>2, <2>3 DEF ReadIngress, TypeOK, docker, cache, history
<1>9. ASSUME NEW u \in Updates, AssignIngress(u) PROVE TypeOK'
  BY <1>9 DEF AssignIngress, TypeOK, docker, budgets, local, history, Phases
<1>10. ASSUME NEW u \in Updates, CheckAge(u) PROVE TypeOK'
  <2>1. pc' \in [Updates -> Phases]
    BY <1>10 DEF CheckAge, TypeOK, Phases
  <2> QED
    BY <1>10, <2>1 DEF CheckAge, TypeOK, docker, cache, budgets, local, history
<1>11. ASSUME NEW u \in Updates, CheckSwarm(u) PROVE TypeOK'
  <2>1. index' \in [Updates -> Clients] /\ pc' \in [Updates -> Phases]
    BY <1>11, AdvanceTyped DEF CheckSwarm, Phases
  <2>2. failures' \in Nat /\ swarmIsAvailable' \subseteq Clients
    BY <1>11, MeetsTyped DEF CheckSwarm, TypeOK
  <2> QED
    BY <1>11, <2>1, <2>2 DEF CheckSwarm, TypeOK, docker, history
<1>12. ASSUME NEW u \in Updates, Stamp(u) PROVE TypeOK'
  BY <1>12 DEF Stamp, TypeOK, docker, budgets, local, history, Phases
<1>13. ASSUME NEW u \in Updates, ReadConfigs(u) PROVE TypeOK'
  <2>1. \A k \in Configs : ConfigSite(k) \in Objects \X SUBSET AddressSet
    BY DEF ConfigSite, Objects
  <2>2. sites' \in [Updates -> SUBSET (Objects \X SUBSET AddressSet)]
    BY <1>13, <2>1 DEF ReadConfigs, TypeOK, At
  <2>3. failures' \in Nat
    BY <1>13 DEF ReadConfigs, Meets, TypeOK
  <2>4. pc' \in [Updates -> Phases]
    BY <1>13 DEF ReadConfigs, TypeOK, Phases
  <2> QED
    BY <1>13, <2>2, <2>3, <2>4 DEF ReadConfigs, TypeOK, docker, cache, history
<1>14. ASSUME NEW u \in Updates, ReadContainers(u) PROVE TypeOK'
  <2>1. PICK fails \in BOOLEAN :
          LET listed == IF fails THEN {} ELSE At(index[u], Containers \cap present)
          IN  /\ Meets(fails)
              /\ sites' = [sites EXCEPT ![u] = @ \cup
                   {ContainerSite(c, ingressNetworks) : c \in listed \ BrokenLabels}]
              /\ servers' = [servers EXCEPT ![u] = @ \cup ContainerServers(listed)]
              /\ unlisted' = [unlisted EXCEPT ![u] = IF fails THEN @ \cup {index[u]} ELSE @]
              /\ pc' = [pc EXCEPT ![u] = AfterContainers(fails)]
    BY <1>14 DEF ReadContainers
  <2> DEFINE listed == IF fails THEN {} ELSE At(index[u], Containers \cap present)
  <2>2. listed \in SUBSET Containers
    BY DEF At
  <2>3. sites' \in [Updates -> SUBSET (Objects \X SUBSET AddressSet)]
    <3> HIDE DEF listed
    <3>1. {ContainerSite(c, ingressNetworks) : c \in listed \ BrokenLabels}
            \in SUBSET (Objects \X SUBSET AddressSet)
      BY <2>2, ContainerSiteTyped
    <3> QED
      BY <2>1, <3>1 DEF TypeOK, listed
  <2>4. servers' \in [Updates -> SUBSET AddressSet]
    BY <2>1, <2>2, ServersTyped DEF TypeOK
  <2>5. failures' \in Nat
    BY <2>1, MeetsTyped
  <2>6. unlisted' \in [Updates -> SUBSET Clients] /\ pc' \in [Updates -> Phases]
    BY <2>1 DEF TypeOK, AfterContainers, Phases
  <2> QED
    BY <1>14, <2>3, <2>4, <2>5, <2>6 DEF ReadContainers, TypeOK, docker, cache, history
<1>15. ASSUME NEW u \in Updates, ReadServices(u) PROVE TypeOK'
  <2>1. index' \in [Updates -> Clients] /\ pc' \in [Updates -> Phases]
    BY <1>15, AdvanceTyped DEF ReadServices, Phases
  <2>2. /\ sites' \in [Updates -> SUBSET (Objects \X SUBSET AddressSet)]
        /\ servers' \in [Updates -> SUBSET AddressSet]
        /\ failures' \in Nat
    <3>1. CASE UNCHANGED <<sites, servers, failures>>
      BY <3>1 DEF TypeOK
    <3>2. ASSUME NEW fails \in BOOLEAN, NEW listed \in SUBSET Services,
                 NEW lostSites, NEW lostServers,
                 Meets(fails \/ (TasksCanBeListed /\ lostSites \cup lostServers # {})),
                 sites' = [sites EXCEPT ![u] = @ \cup
                   {ServiceSite(s, present, ingressNetworks) :
                      s \in listed \ (lostSites \cup BrokenLabels)}],
                 servers' = [servers EXCEPT ![u] = @ \cup
                   ServiceServers(listed \ lostServers, present)]
          PROVE  /\ sites' \in [Updates -> SUBSET (Objects \X SUBSET AddressSet)]
                 /\ servers' \in [Updates -> SUBSET AddressSet]
                 /\ failures' \in Nat
      <4>1. {ServiceSite(s, present, ingressNetworks) : s \in listed \ (lostSites \cup BrokenLabels)}
              \in SUBSET (Objects \X SUBSET AddressSet)
        BY ServiceSiteTyped
      <4>2. ServiceServers(listed \ lostServers, present) \subseteq AddressSet
        BY ServersTyped
      <4>3. failures' \in Nat
        BY <3>2, MeetsTyped
      <4>4. sites' \in [Updates -> SUBSET (Objects \X SUBSET AddressSet)]
        BY <3>2, <4>1 DEF TypeOK
      <4>5. servers' \in [Updates -> SUBSET AddressSet]
        BY <3>2, <4>2 DEF TypeOK
      <4> QED
        BY <4>3, <4>4, <4>5
    <3>3. CASE AskedAboutSwarm(u) /\ index[u] \in swarmActive
      <4>1. PICK fails \in BOOLEAN :
              LET listed == IF fails THEN {} ELSE At(index[u], Services \cap present)
              IN  \E lostSites \in SUBSET listed : \E lostServers \in SUBSET listed :
                    /\ Meets(fails \/ (TasksCanBeListed /\ lostSites \cup lostServers # {}))
                    /\ sites' = [sites EXCEPT ![u] = @ \cup
                         {ServiceSite(s, present, ingressNetworks) :
                            s \in listed \ (lostSites \cup BrokenLabels)}]
                    /\ servers' = [servers EXCEPT ![u] = @ \cup
                         ServiceServers(listed \ lostServers, present)]
        BY <1>15, <3>3 DEF ReadServices
      <4> DEFINE listed == IF fails THEN {} ELSE At(index[u], Services \cap present)
      <4>2. listed \in SUBSET Services
        BY DEF At
      <4> HIDE DEF listed
      <4> QED
        BY <3>2, <4>1, <4>2 DEF listed
    <3> QED
      BY <1>15, <3>1, <3>3 DEF ReadServices
  <2> QED
    BY <1>15, <2>1, <2>2 DEF ReadServices, TypeOK, docker, cache, history
<1>16. ASSUME NEW u \in Updates, Emit(u) PROVE TypeOK'
  BY <1>16 DEF Emit, Emptied, TypeOK, docker, cache, budgets, Phases, Clients
<1>17. CASE UNCHANGED vars
  BY <1>17 DEF vars, TypeOK, docker, cache, budgets, local, history
<1> QED
  BY <1>1, <1>2, <1>3, <1>4, <1>5, <1>6, <1>7, <1>8, <1>9, <1>10, <1>11, <1>12, <1>13, <1>14,
     <1>15, <1>16, <1>17 DEF Next, GenerateStep

----------------------------------------------------------------------------
LEMMA RewoundStep == TypeOK /\ Rewound /\ [Next]_vars => Rewound'
<1> SUFFICES ASSUME TypeOK, Rewound, [Next]_vars PROVE Rewound'
  OBVIOUS
<1> USE DEF Rewound
<1>1. CASE UNCHANGED <<pc, local>>
  BY <1>1 DEF local
<1>2. ASSUME NEW u \in Updates, Begin(u) PROVE Rewound'
  BY <1>2 DEF Begin, local, TypeOK
<1>3. ASSUME NEW u \in Updates, ReadIngress(u) PROVE Rewound'
  <2>1. CASE Advance(u, "ingress", "assign")
    <3>1. Rounds(u, "ingress", "assign")
      BY <2>1, IngressRounds
    <3>2. UNCHANGED <<sites, servers>> /\ \A v \in Updates : v # u => found'[v] = found[v]
      BY <1>3 DEF ReadIngress, TypeOK
    <3> QED
      BY <1>3, <3>1, <3>2 DEF ReadIngress, Rounds
  <2>2. CASE /\ index' = [index EXCEPT ![u] = 1]
             /\ pc' = [pc EXCEPT ![u] = AfterIngressError]
    BY <1>3, <2>2 DEF ReadIngress, AfterIngressError, TypeOK
  <2> QED
    BY <1>3, <2>1, <2>2 DEF ReadIngress
<1>4. ASSUME NEW u \in Updates, AssignIngress(u) PROVE Rewound'
  BY <1>4 DEF AssignIngress, local, TypeOK
<1>5. ASSUME NEW u \in Updates, CheckAge(u) PROVE Rewound'
  BY <1>5 DEF CheckAge, local, TypeOK
<1>6. ASSUME NEW u \in Updates, CheckSwarm(u) PROVE Rewound'
  <2>1. Rounds(u, "info", "stamp")
    BY <1>6, InfoRounds DEF CheckSwarm
  <2> QED
    BY <1>6, <2>1 DEF CheckSwarm, Rounds
<1>7. ASSUME NEW u \in Updates, Stamp(u) PROVE Rewound'
  BY <1>7 DEF Stamp, local, TypeOK
<1>8. ASSUME NEW u \in Updates, ReadConfigs(u) PROVE Rewound'
  <2>1. /\ pc' = [pc EXCEPT ![u] = "containers"] /\ UNCHANGED <<index, found, servers>>
        /\ \A v \in Updates : v # u => sites'[v] = sites[v]
    BY <1>8 DEF ReadConfigs, TypeOK
  <2> QED
    BY <2>1 DEF TypeOK
<1>9. ASSUME NEW u \in Updates, ReadContainers(u) PROVE Rewound'
  <2>1. /\ pc' = [pc EXCEPT ![u] = "services"] /\ UNCHANGED <<index, found>>
        /\ \A v \in Updates : v # u => sites'[v] = sites[v] /\ servers'[v] = servers[v]
    BY <1>9 DEF ReadContainers, AfterContainers, TypeOK
  <2> QED
    BY <2>1 DEF TypeOK
<1>10. ASSUME NEW u \in Updates, ReadServices(u) PROVE Rewound'
  <2>1. \A v \in Updates : v # u => sites'[v] = sites[v] /\ servers'[v] = servers[v]
    BY <1>10 DEF ReadServices, TypeOK
  <2>2. Rounds(u, "configs", "done")
    BY <1>10, ServiceRounds DEF ReadServices
  <2> QED
    BY <1>10, <2>1, <2>2 DEF ReadServices, Rounds
<1>11. ASSUME NEW u \in Updates, Emit(u) PROVE Rewound'
  BY <1>11 DEF Emit, Emptied, TypeOK
<1> QED
  BY <1>1, <1>2, <1>3, <1>4, <1>5, <1>6, <1>7, <1>8, <1>9, <1>10, <1>11
  DEF Next, GenerateStep, Appear, Vanish, Join, Leave, ChangeSwarm, Changing, Tick, vars

LEMMA LearnedStep == TypeOK /\ Rewound /\ Learned /\ [Next]_vars => Learned'
<1> SUFFICES ASSUME TypeOK, Rewound, Learned, [Next]_vars PROVE Learned'
  OBVIOUS
<1> USE DEF Learned
<1>1. CASE /\ UNCHANGED <<pc, index, found, ingressNetworks>>
           /\ \A u \in Updates : steadyJoined'[u] \subseteq steadyJoined[u]
  BY <1>1
<1>2. ASSUME NEW u \in Updates, UNCHANGED <<found, ingressNetworks, steadyJoined>>,
             \A v \in Updates : /\ v # u => pc'[v] = pc[v] /\ index'[v] = index[v]
                                /\ v = u => pc'[v] \notin {"ingress", "assign"}
      PROVE  Learned'
  BY <1>2
<1>3. ASSUME NEW u \in Updates, Begin(u) PROVE Learned'
  BY <1>3, GeneratorAssumption DEF Begin, local, cache, Rewound, TypeOK, Clients
<1>4. ASSUME NEW u \in Updates, ReadIngress(u) PROVE Learned'
  <2>1. CASE /\ found' = [found EXCEPT ![u] =
                  @ \cup {n \in Networks \ RoutingMesh : <<index[u], n>> \in joined}]
             /\ Advance(u, "ingress", "assign")
    <3> SUFFICES ASSUME NEW v \in Updates, NEW i \in Clients, NEW n \in Networks \ RoutingMesh,
                        <<i, n>> \in steadyJoined[v],
                        \/ pc'[v] = "ingress" /\ i < index'[v]
                        \/ pc'[v] = "assign"
                 PROVE  n \in found'[v]
      BY <1>4, <2>1 DEF ReadIngress, TypeOK, cache, history
    <3>1. CASE v # u
      <4>1. Rounds(u, "ingress", "assign")
        BY <2>1, IngressRounds
      <4>2. found'[v] = found[v] /\ pc'[v] = pc[v] /\ index'[v] = index[v]
        BY <2>1, <3>1, <4>1 DEF TypeOK, Rounds
      <4> QED
        BY <4>2
    <3>2. CASE v = u
      <4>1. i < index[u] \/ i = index[u]
        <5>1. i \in Nat /\ index[u] \in Nat /\ i <= NClients /\ NClients \in Nat
          BY GeneratorAssumption DEF TypeOK, Clients
        <5>2. \/ pc'[u] = "ingress" /\ index'[u] = index[u] + 1
              \/ index[u] = NClients
          BY <2>1, AdvanceTyped DEF Phases
        <5> QED
          BY <3>2, <5>1, <5>2
      <4>2. CASE i < index[u]
        BY <1>4, <2>1, <3>2, <4>2 DEF ReadIngress, TypeOK
      <4>3. CASE i = index[u]
        BY <1>4, <2>1, <3>2, <4>3 DEF ReadIngress, TypeOK
      <4> QED
        BY <4>1, <4>2, <4>3
    <3> QED
      BY <3>1, <3>2
  <2>2. CASE /\ index' = [index EXCEPT ![u] = 1]
             /\ pc' = [pc EXCEPT ![u] = AfterIngressError]
             /\ UNCHANGED found
    BY <1>4, <2>2 DEF ReadIngress, AfterIngressError, TypeOK, cache, history
  <2> QED
    BY <1>4, <2>1, <2>2 DEF ReadIngress
<1>5. ASSUME NEW u \in Updates, AssignIngress(u) PROVE Learned'
  BY <1>5 DEF AssignIngress, local, history, TypeOK
<1>6. ASSUME NEW u \in Updates,
             CheckAge(u) \/ CheckSwarm(u) \/ Stamp(u) \/ ReadConfigs(u) \/ ReadContainers(u)
               \/ ReadServices(u)
      PROVE  Learned'
  <2>1. UNCHANGED <<found, ingressNetworks, steadyJoined>>
    BY <1>6 DEF CheckAge, CheckSwarm, Stamp, ReadConfigs, ReadContainers, ReadServices, cache,
       local, history
  <2>2. CASE CheckAge(u) \/ Stamp(u) \/ ReadConfigs(u) \/ ReadContainers(u)
    <3>1. \E p \in {"info", "configs", "containers", "services"} : pc' = [pc EXCEPT ![u] = p]
      BY <2>2 DEF CheckAge, Stamp, ReadConfigs, ReadContainers, AfterContainers
    <3>2. UNCHANGED index
      BY <2>2 DEF CheckAge, Stamp, ReadConfigs, ReadContainers, local
    <3> QED
      BY <1>2, <2>1, <3>1, <3>2 DEF TypeOK
  <2>3. CASE CheckSwarm(u)
    <3>1. Rounds(u, "info", "stamp")
      BY <2>3, InfoRounds DEF CheckSwarm
    <3> QED
      BY <1>2, <2>1, <3>1 DEF Rounds
  <2>4. CASE ReadServices(u)
    <3>1. Rounds(u, "configs", "done")
      BY <2>4, ServiceRounds DEF ReadServices
    <3> QED
      BY <1>2, <2>1, <3>1 DEF Rounds
  <2> QED
    BY <1>6, <2>2, <2>3, <2>4
<1>7. ASSUME NEW u \in Updates, Emit(u) PROVE Learned'
  BY <1>7 DEF Emit, cache, TypeOK
<1>8. ASSUME NEW o \in Objects, Appear(o) \/ Vanish(o) PROVE Learned'
  BY <1>1, <1>8 DEF Appear, Vanish, Changing, cache, local
<1>9. ASSUME NEW i \in Clients, NEW n \in Networks, Join(i, n) \/ Leave(i, n) PROVE Learned'
  BY <1>1, <1>9 DEF Join, Leave, Changing, cache, local, history, TypeOK
<1>10. ASSUME NEW i \in Clients, ChangeSwarm(i) PROVE Learned'
  BY <1>1, <1>10 DEF ChangeSwarm, Changing, cache, local, history
<1>11. CASE Tick \/ UNCHANGED vars
  BY <1>1, <1>11 DEF Tick, vars, cache, local, history
<1> QED
  BY <1>3, <1>4, <1>5, <1>6, <1>7, <1>8, <1>9, <1>10, <1>11 DEF Next, GenerateStep

LEMMA ServedStep == TypeOK /\ Rewound /\ ServedSoFar /\ [Next]_vars => ServedSoFar'
<1> SUFFICES ASSUME TypeOK, Rewound, ServedSoFar, [Next]_vars,
                    NEW v \in Updates, NEW c \in (Containers \cap steady'[v]) \ BrokenLabels,
                    ClientOf[c] \notin unlisted'[v], Passed(v, ClientOf[c])'
             PROVE  Served(v, c)'
  BY DEF ServedSoFar
<1>0. ClientOf[c] \in Nat /\ 1 <= ClientOf[c] /\ ClientOf[c] <= NClients /\ index[v] \in Nat
  BY GeneratorAssumption DEF TypeOK, Clients, Objects
<1>1. CASE /\ UNCHANGED <<pc, index, sites, unlisted>>
           /\ steady'[v] \subseteq steady[v]
  BY <1>1 DEF ServedSoFar, Passed, Served
<1>2. ASSUME pc'[v] = pc[v], index'[v] = index[v], sites'[v] = sites[v], unlisted'[v] = unlisted[v],
             steady'[v] = steady[v]
      PROVE  Served(v, c)'
  BY <1>2 DEF ServedSoFar, Passed, Served
<1>3. ASSUME pc'[v] \in {"idle", "ingress", "assign", "swarm", "info", "stamp"} PROVE FALSE
  BY <1>3 DEF Passed
<1>4. ASSUME pc'[v] = "configs", index'[v] = 1 PROVE FALSE
  BY <1>0, <1>4 DEF Passed
<1>5. ASSUME NEW u \in Updates, Begin(u) \/ Emit(u) PROVE Served(v, c)'
  BY <1>2, <1>3, <1>5 DEF Begin, Emit, local, TypeOK
<1>6. ASSUME NEW u \in Updates,
             ReadIngress(u) \/ AssignIngress(u) \/ CheckAge(u) \/ CheckSwarm(u) \/ Stamp(u)
      PROVE  Served(v, c)'
  <2>1. UNCHANGED <<sites, unlisted, steady>>
    BY <1>6 DEF ReadIngress, AssignIngress, CheckAge, CheckSwarm, Stamp, local, history
  <2>2. CASE ReadIngress(u)
    <3>1. CASE Advance(u, "ingress", "assign")
      BY <1>2, <1>3, <2>1, <3>1, AdvanceTyped DEF Phases
    <3>2. CASE index' = [index EXCEPT ![u] = 1] /\ pc' = [pc EXCEPT ![u] = AfterIngressError]
      BY <1>2, <1>3, <2>1, <3>2 DEF AfterIngressError, TypeOK
    <3> QED
      BY <2>2, <3>1, <3>2 DEF ReadIngress
  <2>3. CASE CheckSwarm(u)
    BY <1>2, <1>3, <2>1, <2>3, AdvanceTyped DEF CheckSwarm, Phases
  <2>4. CASE AssignIngress(u)
    BY <1>2, <1>3, <2>1, <2>4 DEF AssignIngress, local, TypeOK
  <2>5. CASE CheckAge(u) \/ Stamp(u)
    <3>1. index[u] = 1 /\ UNCHANGED index
      BY <2>5 DEF CheckAge, Stamp, Rewound, local
    <3>2. pc' \in {[pc EXCEPT ![u] = "info"], [pc EXCEPT ![u] = "configs"]}
      BY <2>5 DEF CheckAge, Stamp
    <3> QED
      BY <1>2, <1>3, <1>4, <2>1, <3>1, <3>2 DEF TypeOK
  <2> QED
    BY <1>6, <2>2, <2>3, <2>4, <2>5
<1>7. ASSUME NEW u \in Updates, ReadConfigs(u) PROVE Served(v, c)'
  <2>1. sites[v] \subseteq sites'[v]
    BY <1>7 DEF ReadConfigs, TypeOK
  <2>2. Passed(v, ClientOf[c])
    BY <1>7 DEF ReadConfigs, Passed, TypeOK
  <2>3. UNCHANGED <<steady, unlisted>>
    BY <1>7 DEF ReadConfigs, history
  <2> QED
    BY <2>1, <2>2, <2>3 DEF ServedSoFar, Served
<1>8. ASSUME NEW u \in Updates, ReadContainers(u) PROVE Served(v, c)'
  <2>1. CASE v # u
    BY <1>2, <1>8, <2>1 DEF ReadContainers, history, TypeOK
  <2>2. CASE v = u
    <3>1. PICK fails \in BOOLEAN :
            LET listed == IF fails THEN {} ELSE At(index[u], Containers \cap present)
            IN  /\ sites' = [sites EXCEPT ![u] = @ \cup
                     {ContainerSite(d, ingressNetworks) : d \in listed \ BrokenLabels}]
                /\ unlisted' = [unlisted EXCEPT ![u] = IF fails THEN @ \cup {index[u]} ELSE @]
                /\ pc' = [pc EXCEPT ![u] = AfterContainers(fails)]
      BY <1>8 DEF ReadContainers
    <3>2. /\ pc[u] = "containers" /\ pc'[u] = "services" /\ UNCHANGED <<index, steady>>
          /\ sites[u] \subseteq sites'[u] /\ unlisted[u] \subseteq unlisted'[u]
      BY <1>8, <3>1 DEF ReadContainers, AfterContainers, history, TypeOK
    <3>3. ClientOf[c] < index[u] \/ ClientOf[c] = index[u]
      BY <1>0, <2>2, <3>2 DEF Passed
    <3>4. CASE ClientOf[c] < index[u]
      BY <2>2, <3>2, <3>4 DEF ServedSoFar, Passed, Served
    <3>5. CASE ClientOf[c] = index[u]
      <4>1. ~fails
        BY <2>2, <3>1, <3>5 DEF TypeOK
      <4>2. c \in At(index[u], Containers \cap present) \ BrokenLabels
        BY <2>2, <3>2, <3>5 DEF At, TypeOK
      <4>3. ContainerSite(c, ingressNetworks) \in sites'[u]
        BY <3>1, <4>1, <4>2 DEF TypeOK
      <4>4. ContainerSite(c, ingressNetworks)[1] = c
        BY DEF ContainerSite
      <4> QED
        BY <2>2, <4>3, <4>4 DEF Served
    <3> QED
      BY <3>3, <3>4, <3>5
  <2> QED
    BY <2>1, <2>2
<1>9. ASSUME NEW u \in Updates, ReadServices(u) PROVE Served(v, c)'
  <2>1. UNCHANGED <<steady, unlisted>>
    BY <1>9 DEF ReadServices, history
  <2>2. CASE v # u
    BY <1>2, <1>9, <2>1, <2>2, AdvanceTyped DEF ReadServices, Phases, TypeOK
  <2>3. CASE v = u
    <3>1. sites[u] \subseteq sites'[u]
      <4>1. CASE UNCHANGED sites
        BY <4>1
      <4>2. ASSUME NEW X, sites' = [sites EXCEPT ![u] = @ \cup X]
            PROVE  sites[u] \subseteq sites'[u]
        BY <4>2 DEF TypeOK
      <4> QED
        BY <1>9, <4>1, <4>2 DEF ReadServices
    <3>2. Passed(u, ClientOf[c])
      <4>1. pc[u] = "services" /\ Advance(u, "configs", "done")
        BY <1>9 DEF ReadServices
      <4>2. \/ pc'[u] = "configs" /\ index'[u] = index[u] + 1
            \/ pc'[u] = "done" /\ index[u] = NClients
        BY <4>1, AdvanceTyped DEF Phases
      <4>3. ClientOf[c] <= index[u]
        BY <1>0, <2>3, <4>2 DEF Passed
      <4> QED
        BY <4>1, <4>3 DEF Passed
    <3> QED
      BY <2>1, <2>3, <3>1, <3>2 DEF ServedSoFar, Served
  <2> QED
    BY <2>2, <2>3
<1>10. ASSUME NEW o \in Objects, Appear(o) \/ Vanish(o) PROVE Served(v, c)'
  BY <1>1, <1>10 DEF Appear, Vanish, Changing, local, TypeOK
<1>11. ASSUME NEW i \in Clients, NEW n \in Networks, Join(i, n) \/ Leave(i, n) PROVE Served(v, c)'
  BY <1>1, <1>11 DEF Join, Leave, Changing, local, history
<1>12. ASSUME NEW i \in Clients, ChangeSwarm(i) PROVE Served(v, c)'
  BY <1>1, <1>12 DEF ChangeSwarm, Changing, local, history
<1>13. CASE Tick \/ UNCHANGED vars
  BY <1>1, <1>13 DEF Tick, vars, local, history
<1> QED
  BY <1>5, <1>6, <1>7, <1>8, <1>9, <1>10, <1>11, <1>12, <1>13 DEF Next, GenerateStep

LEMMA NamedWithin ==
  ASSUME NEW S, NEW A, NEW P
  PROVE  Named(S, A) \subseteq P <=> Within(S, A, P)
  BY DEF Named, Within

LEMMA WithinUnion ==
  ASSUME NEW S, NEW A, NEW T, NEW B, NEW P, NEW Q,
         Within(S, A, P), Within(T, B, Q), Q \subseteq P
  PROVE  Within(S \cup T, A \cup B, P)
  BY DEF Within

\* What the containers C yield names only them.
LEMMA ContainersWithin ==
  ASSUME NEW P, NEW C, NEW D, C \subseteq P, D \subseteq P, NEW I
  PROVE  Within({ContainerSite(c, I) : c \in D}, ContainerServers(C), P)
<1>1. \A c \in D : ContainerSite(c, I)[1] \in P /\ \A a \in ContainerSite(c, I)[2] : a[1] \in P
  BY DEF ContainerSite, IngressAddresses
<1>2. \A a \in ContainerServers(C) : a[1] \in P
  BY DEF ContainerServers, Controlled, Addresses
<1> QED
  BY <1>1, <1>2 DEF Within

\* What services and the tasks among P yield names only those.
LEMMA ServicesWithin ==
  ASSUME NEW P, NEW S, NEW T, S \subseteq P, NEW I
  PROVE  Within({ServiceSite(s, P, I) : s \in S}, ServiceServers(T, P), P)
<1>1. \A s \in S : ServiceSite(s, P, I)[1] \in P /\ \A a \in ServiceSite(s, P, I)[2] : a[1] \in P
  BY DEF ServiceSite, IngressAddresses, TasksOf
<1>2. \A a \in ServiceServers(T, P) : a[1] \in P
  BY DEF ServiceServers, Controlled, Addresses, TasksOf
<1> QED
  BY <1>1, <1>2 DEF Within

LEMMA NamesStep == TypeOK /\ Rewound /\ NamesSeen /\ [Next]_vars => NamesSeen'
<1> SUFFICES ASSUME TypeOK, Rewound, NamesSeen, [Next]_vars PROVE NamesSeen'
  OBVIOUS
<1>1. ASSUME UNCHANGED <<sites, servers, seen>>,
             \A v \in Updates : pc'[v] # "idle" => pc[v] # "idle",
             present' \subseteq present
      PROVE  NamesSeen'
  BY <1>1 DEF NamesSeen
<1>2. ASSUME NEW o \in Objects, Appear(o) PROVE NamesSeen'
  <2>1. \A v \in Updates : pc[v] # "idle" => seen'[v] = seen[v] \cup {o}
    BY <1>2 DEF Appear
  <2>2. \A v \in Updates : pc[v] = "idle" => sites[v] = {} /\ servers[v] = {}
    BY DEF Rewound
  <2>3. UNCHANGED <<pc, sites, servers>> /\ present' = present \cup {o}
    BY <1>2 DEF Appear, Changing, local
  <2> QED
    BY <2>1, <2>2, <2>3 DEF NamesSeen, Within
<1>3. ASSUME NEW o \in Objects, Vanish(o) PROVE NamesSeen'
  BY <1>1, <1>3 DEF Vanish, Changing, local
<1>4. ASSUME NEW i \in Clients, NEW n \in Networks, Join(i, n) \/ Leave(i, n) PROVE NamesSeen'
  BY <1>1, <1>4 DEF Join, Leave, Changing, local, history
<1>5. ASSUME NEW i \in Clients, ChangeSwarm(i) PROVE NamesSeen'
  BY <1>1, <1>5 DEF ChangeSwarm, Changing, local, history
<1>6. CASE Tick \/ UNCHANGED vars
  BY <1>1, <1>6 DEF Tick, vars, docker, local, history
<1>7. ASSUME NEW u \in Updates, Begin(u) PROVE NamesSeen'
  BY <1>7 DEF Begin, docker, local, TypeOK, Rewound, NamesSeen, Within
<1>8. ASSUME NEW u \in Updates,
             ReadIngress(u) \/ AssignIngress(u) \/ CheckAge(u) \/ CheckSwarm(u) \/ Stamp(u)
      PROVE  NamesSeen'
  <2>1. UNCHANGED <<present, sites, servers, seen>> /\ pc[u] # "idle"
    BY <1>8 DEF ReadIngress, AssignIngress, CheckAge, CheckSwarm, Stamp, docker, local, history
  <2>2. \A v \in Updates : v # u => pc'[v] = pc[v]
    <3>1. CASE ReadIngress(u)
      BY <3>1, AdvanceTyped DEF ReadIngress, Phases, TypeOK
    <3>2. CASE AssignIngress(u) \/ CheckAge(u) \/ Stamp(u)
      BY <3>2 DEF AssignIngress, CheckAge, Stamp, TypeOK
    <3>3. CASE CheckSwarm(u)
      BY <3>3, AdvanceTyped DEF CheckSwarm, Phases
    <3> QED
      BY <1>8, <3>1, <3>2, <3>3
  <2> QED
    BY <1>1, <2>1, <2>2
\* The steps that read objects.
<1>9. ASSUME NEW u \in Updates, NEW S, NEW A, Within(S, A, present),
             sites' = [sites EXCEPT ![u] = @ \cup S],
             servers' = [servers EXCEPT ![u] = @ \cup A],
             UNCHANGED <<present, seen>>, pc[u] # "idle",
             \A v \in Updates : v # u => pc'[v] = pc[v]
      PROVE  NamesSeen'
  <2>1. Within(sites'[u], servers'[u], seen[u])
    BY <1>9, WithinUnion DEF NamesSeen, TypeOK
  <2> QED
    BY <1>9, <2>1 DEF NamesSeen, TypeOK
<1>10. ASSUME NEW u \in Updates, ReadConfigs(u) PROVE NamesSeen'
  <2>1. \A S : S \subseteq present => Within({ConfigSite(k) : k \in S}, {}, present)
    BY DEF ConfigSite, Within
  <2>2. servers' = [servers EXCEPT ![u] = @ \cup {}] /\ UNCHANGED <<present, seen>>
        /\ pc[u] # "idle" /\ \A v \in Updates : v # u => pc'[v] = pc[v]
    BY <1>10 DEF ReadConfigs, docker, history, TypeOK
  <2>3. \E S : S \subseteq present
               /\ sites' = [sites EXCEPT ![u] = @ \cup {ConfigSite(k) : k \in S}]
    <3>1. CASE UNCHANGED sites
      <4>1. sites' = [sites EXCEPT ![u] = @ \cup {ConfigSite(k) : k \in {}}]
        BY <3>1 DEF TypeOK
      <4> QED
        BY <4>1
    <3>2. ASSUME NEW lost,
                 sites' = [sites EXCEPT ![u] = @ \cup
                   {ConfigSite(k) : k \in At(index[u], Configs \cap present)
                                            \ (lost \cup BrokenLabels)}]
          PROVE  \E S : S \subseteq present
                        /\ sites' = [sites EXCEPT ![u] = @ \cup {ConfigSite(k) : k \in S}]
      <4> DEFINE S == At(index[u], Configs \cap present) \ (lost \cup BrokenLabels)
      <4>1. S \subseteq present
        BY DEF At
      <4> QED
        BY <3>2, <4>1
    <3> QED
      BY <1>10, <3>1, <3>2 DEF ReadConfigs
  <2> QED
    BY <1>9, <2>1, <2>2, <2>3
<1>11. ASSUME NEW u \in Updates, ReadContainers(u) PROVE NamesSeen'
  <2>1. PICK fails \in BOOLEAN :
          LET listed == IF fails THEN {} ELSE At(index[u], Containers \cap present)
          IN  /\ sites' = [sites EXCEPT ![u] = @ \cup
                   {ContainerSite(c, ingressNetworks) : c \in listed \ BrokenLabels}]
              /\ servers' = [servers EXCEPT ![u] = @ \cup ContainerServers(listed)]
              /\ pc' = [pc EXCEPT ![u] = AfterContainers(fails)]
    BY <1>11 DEF ReadContainers
  <2> DEFINE listed == IF fails THEN {} ELSE At(index[u], Containers \cap present)
  <2>2. listed \subseteq present
    BY DEF At
  <2>3. UNCHANGED <<present, seen>> /\ pc[u] # "idle"
        /\ \A v \in Updates : v # u => pc'[v] = pc[v]
    BY <1>11, <2>1 DEF ReadContainers, docker, history, TypeOK
  <2>4. Within({ContainerSite(c, ingressNetworks) : c \in listed \ BrokenLabels},
               ContainerServers(listed), present)
    <3> HIDE DEF listed
    <3> QED
      BY <2>2, ContainersWithin
  <2> QED
    BY <1>9, <2>1, <2>3, <2>4
<1>12. ASSUME NEW u \in Updates, ReadServices(u) PROVE NamesSeen'
  <2>1. UNCHANGED <<present, seen>> /\ pc[u] # "idle"
        /\ \A v \in Updates : v # u => pc'[v] = pc[v]
    BY <1>12, AdvanceTyped DEF ReadServices, docker, history, Phases
  <2>2. CASE UNCHANGED <<sites, servers>>
    BY <1>1, <2>1, <2>2
  <2>3. ASSUME NEW listed, NEW lostSites, NEW lostServers, listed \subseteq present,
               sites' = [sites EXCEPT ![u] = @ \cup
                 {ServiceSite(s, present, ingressNetworks) :
                    s \in listed \ (lostSites \cup BrokenLabels)}],
               servers' = [servers EXCEPT ![u] = @ \cup
                 ServiceServers(listed \ lostServers, present)]
        PROVE  NamesSeen'
    <3>1. Within({ServiceSite(s, present, ingressNetworks) :
                    s \in listed \ (lostSites \cup BrokenLabels)},
                 ServiceServers(listed \ lostServers, present), present)
      BY <2>3, ServicesWithin
    <3> QED
      BY <1>9, <2>1, <2>3, <3>1
  <2>4. CASE AskedAboutSwarm(u) /\ index[u] \in swarmActive
    <3>1. PICK fails \in BOOLEAN :
            LET listed == IF fails THEN {} ELSE At(index[u], Services \cap present)
            IN  \E lostSites \in SUBSET listed : \E lostServers \in SUBSET listed :
                  /\ sites' = [sites EXCEPT ![u] = @ \cup
                       {ServiceSite(s, present, ingressNetworks) :
                          s \in listed \ (lostSites \cup BrokenLabels)}]
                  /\ servers' = [servers EXCEPT ![u] = @ \cup
                       ServiceServers(listed \ lostServers, present)]
      BY <1>12, <2>4 DEF ReadServices
    <3> DEFINE listed == IF fails THEN {} ELSE At(index[u], Services \cap present)
    <3>2. listed \subseteq present
      BY DEF At
    <3> HIDE DEF listed
    <3> QED
      BY <2>3, <3>1, <3>2 DEF listed
  <2> QED
    BY <1>12, <2>2, <2>4 DEF ReadServices
<1>13. ASSUME NEW u \in Updates, Emit(u) PROVE NamesSeen'
  BY <1>13 DEF Emit, Emptied, docker, TypeOK, NamesSeen, Within
<1> QED
  BY <1>2, <1>3, <1>4, <1>5, <1>6, <1>7, <1>8, <1>10, <1>11, <1>12, <1>13 DEF Next, GenerateStep

----------------------------------------------------------------------------
GeneratorInvariant == TypeOK /\ Rewound /\ Learned /\ ServedSoFar /\ NamesSeen

LEMMA GeneratorInit == Init => GeneratorInvariant
<1> SUFFICES ASSUME Init PROVE GeneratorInvariant
  OBVIOUS
<1>1. TypeOK
  BY GeneratorAssumption DEF Init, TypeOK, Phases, Clients, Objects
<1> QED
  BY <1>1 DEF Init, GeneratorInvariant, Rewound, Learned, ServedSoFar, Passed, NamesSeen, Within

LEMMA GeneratorAlways == Spec => []GeneratorInvariant
<1>1. GeneratorInvariant /\ [Next]_vars => GeneratorInvariant'
  BY TypeStep, RewoundStep, LearnedStep, ServedStep, NamesStep DEF GeneratorInvariant
<1> QED
  BY <1>1, GeneratorInit, PTL DEF Spec

\* The types: in particular that no loop of GenerateCaddyfile leaves the clients.
THEOREM GenerationsTyped == Spec => []TypeOK
<1>1. GeneratorInvariant => TypeOK
  BY DEF GeneratorInvariant
<1> QED
  BY <1>1, GeneratorAlways, PTL

\* A generation of GenerateCaddyfile names no object that did not exist while it
\* ran, whatever caches it shares and whichever calls fail.
THEOREM NoGhostSites == Spec => []NoGhosts
<1>1. GeneratorInvariant => NoGhosts
  BY NamedWithin DEF GeneratorInvariant, NamesSeen, NoGhosts
<1> QED
  BY <1>1, GeneratorAlways, PTL

\* A container that exists all along has its site whenever GenerateCaddyfile
\* could list the containers of its client.
THEOREM ContainersAreServed == Spec => []SteadyContainersAreServed
<1>1. GeneratorInvariant => SteadyContainersAreServed
  BY DEF GeneratorInvariant, ServedSoFar, Passed, Served, SteadyContainersAreServed
<1> QED
  BY <1>1, GeneratorAlways, PTL

\* GenerateCaddyfile forgets no ingress network that a client was joined to all
\* along: not when getIngressNetworks fails, nor when generations overlap.
THEOREM NetworksAreKept == Spec => KnownNetworksStay
<1> DEFINE Keeps == \A n \in ingressNetworks \ ingressNetworks' :
       \E u \in Updates : pc[u] = "assign" /\ \A i \in Clients : <<i, n>> \notin steadyJoined[u]
<1>1. GeneratorInvariant /\ [Next]_vars => [Keeps]_vars
  <2> SUFFICES ASSUME GeneratorInvariant, Next PROVE Keeps
    OBVIOUS
  <2>1. ASSUME NEW u \in Updates, AssignIngress(u) PROVE Keeps
    <3> SUFFICES ASSUME NEW n \in ingressNetworks \ found[u]
                 PROVE  \A i \in Clients : <<i, n>> \notin steadyJoined[u]
      BY <2>1 DEF AssignIngress
    <3>1. n \in Networks \ RoutingMesh
      BY DEF GeneratorInvariant, TypeOK, Learned
    <3> QED
      BY <2>1, <3>1 DEF AssignIngress, GeneratorInvariant, Learned
  <2>2. CASE UNCHANGED ingressNetworks
    BY <2>2
  <2>3. CASE \/ \E o \in Objects : Appear(o) \/ Vanish(o)
             \/ \E i \in Clients, n \in Networks : Join(i, n) \/ Leave(i, n)
             \/ \E i \in Clients : ChangeSwarm(i)
    <3>1. Changing
      BY <2>3 DEF Appear, Vanish, Join, Leave, ChangeSwarm
    <3> QED
      BY <2>2, <3>1 DEF Changing, cache
  <2>4. CASE Tick
    BY <2>2, <2>4 DEF Tick
  <2>5. ASSUME NEW u \in Updates,
               Begin(u) \/ ReadIngress(u) \/ CheckAge(u) \/ CheckSwarm(u) \/ Stamp(u)
                 \/ ReadConfigs(u) \/ ReadContainers(u) \/ ReadServices(u) \/ Emit(u)
        PROVE  Keeps
    <3>1. UNCHANGED ingressNetworks
      BY <2>5 DEF Begin, ReadIngress, CheckAge, CheckSwarm, Stamp, ReadConfigs, ReadContainers,
         ReadServices, Emit, cache
    <3> QED
      BY <2>2, <3>1
  <2> HIDE DEF Keeps
  <2> QED
    BY <2>1, <2>3, <2>4, <2>5 DEF Next, GenerateStep
<1> QED
  BY <1>1, GeneratorAlways, PTL DEF Spec, KnownNetworksStay
----------------------------------------------------------------------------
(* What generations yield that nothing disturbs *)

\* getIngressNetworks reaches the networks of every client: they are given, or the
\* program's own container is with the only client.
NetworksAreReached == ManualNetworks \/ NClients = 1

Before(i) == {j \in Clients : j < i}
UpTo(i) == {j \in Clients : j <= i}

\* What the clients in B contribute to the result, by Docker's state.
IngressOf(B) == {n \in Networks \ RoutingMesh : \E j \in B : <<j, n>> \in joined}
PresentAt(B, S) == {o \in S \cap present : ClientOf[o] \in B}
InSwarmAt(B, S) == PresentAt(B \cap swarmActive, S)
ConfigsOf(B) == {ConfigSite(k) : k \in InSwarmAt(B, Configs) \ BrokenLabels}
ContainersOf(B) ==
  {ContainerSite(c, IngressOf(Clients)) : c \in PresentAt(B, Containers) \ BrokenLabels}
ServicesOf(B) ==
  {ServiceSite(s, present, IngressOf(Clients)) : s \in InSwarmAt(B, Services) \ BrokenLabels}

\* Generation u has the configs of the clients K, the containers of C and the
\* services of S, and nothing else.
Exact(u, K, C, S) ==
  /\ sites[u] = ConfigsOf(K) \cup ContainersOf(C) \cup ServicesOf(S)
  /\ servers[u] = ContainerServers(PresentAt(C, Containers))
                    \cup ServiceServers(InSwarmAt(S, Services), present)

ReadSoFar(u) ==
  /\ pc[u] \in {"ingress", "assign", "swarm", "info", "stamp"} => sites[u] = {} /\ servers[u] = {}
  /\ pc[u] = "configs" => Exact(u, Before(index[u]), Before(index[u]), Before(index[u]))
  /\ pc[u] = "containers" => Exact(u, UpTo(index[u]), Before(index[u]), Before(index[u]))
  /\ pc[u] = "services" => Exact(u, UpTo(index[u]), UpTo(index[u]), Before(index[u]))
  /\ pc[u] = "done" => Exact(u, Clients, Clients, Clients)

\* What generation u relies on in the caches is what Docker says.
CachesHold(u) ==
  /\ pc[u] = "ingress" => found[u] = IngressOf(Before(index[u]))
  /\ pc[u] = "assign" => found[u] = IngressOf(Clients)
  /\ pc[u] \notin {"idle", "ingress", "assign"} => ingressNetworks = IngressOf(Clients)
  /\ pc[u] = "info" => \A j \in Before(index[u]) : j \in swarmIsAvailable <=> j \in swarmActive
  /\ pc[u] \in {"stamp", "configs", "containers", "services", "done"} =>
       swarmIsAvailable = swarmActive

Agreed == swarmActive \in {{}, Clients}

\* The generations under way are right about Docker so far.
Calm ==
  /\ KnowsSwarms
  /\ \A u \in underWay : CachesHold(u) /\ (Agreed => ReadSoFar(u))

\* Once one generation is undisturbed, all that are under way are.
CalmIfUndisturbed == undisturbed # {} => underWay \subseteq undisturbed /\ Calm

LEMMA NoFailure ==
  ASSUME TypeOK, NEW fails, Meets(fails), failures' = failures
  PROVE  ~fails
  BY DEF Meets, TypeOK

\* The loops over the clients: none at first, one more each round, all at last.
LEMMA ClientRanges ==
  /\ Before(1) = {} /\ UpTo(NClients) = Clients
  /\ \A i \in Clients : Before(i + 1) = UpTo(i) /\ UpTo(i) = Before(i) \cup {i} /\ i \in UpTo(i)
                        /\ UpTo(i) \subseteq Clients /\ Before(i) \subseteq Clients
  BY GeneratorAssumption DEF Before, UpTo, Clients

LEMMA IngressGrows ==
  ASSUME NEW B, NEW i
  PROVE  IngressOf(B \cup {i})
           = IngressOf(B) \cup {n \in Networks \ RoutingMesh : <<i, n>> \in joined}
  BY DEF IngressOf

LEMMA PresentGrows ==
  ASSUME NEW B, NEW S, NEW i
  PROVE  PresentAt(B \cup {i}, S) = PresentAt(B, S) \cup At(i, S \cap present)
  BY DEF PresentAt, At

LEMMA InSwarmGrows ==
  ASSUME NEW B, NEW S, NEW i
  PROVE  InSwarmAt(B \cup {i}, S)
           = InSwarmAt(B, S) \cup (IF i \in swarmActive THEN At(i, S \cap present) ELSE {})
  BY DEF PresentAt, InSwarmAt, At

LEMMA NothingYet ==
  /\ IngressOf({}) = {}
  /\ \A S : PresentAt({}, S) = {} /\ InSwarmAt({}, S) = {}
  BY DEF IngressOf, PresentAt, InSwarmAt

LEMMA ContainerServersMembers ==
  ASSUME NEW C, NEW a
  PROVE  a \in ContainerServers(C) <=>
           a[2] \in ControllerNetworks /\ \E c \in C \cap ControlledServers : a \in Addresses(c)
  BY DEF ContainerServers, Controlled

LEMMA ServiceServersMembers ==
  ASSUME NEW S, NEW P, NEW a
  PROVE  a \in ServiceServers(S, P) <=>
           /\ a[2] \in ControllerNetworks
           /\ \E s \in S \cap ControlledServers : \E t \in TasksOf(s, P) : a \in Addresses(t)
  BY DEF ServiceServers, Controlled

LEMMA ServersGrow ==
  ASSUME NEW S, NEW T, NEW P
  PROVE  /\ ContainerServers(S \cup T) = ContainerServers(S) \cup ContainerServers(T)
         /\ ServiceServers(S \cup T, P) = ServiceServers(S, P) \cup ServiceServers(T, P)
<1>1. \A a : a \in ContainerServers(S \cup T) <=> a \in ContainerServers(S) \/ a \in ContainerServers(T)
  BY ContainerServersMembers
<1>2. \A a : a \in ServiceServers(S \cup T, P) <=> a \in ServiceServers(S, P) \/ a \in ServiceServers(T, P)
  BY ServiceServersMembers
<1> QED
  BY <1>1, <1>2

LEMMA NoServers ==
  ASSUME NEW P
  PROVE  ContainerServers({}) = {} /\ ServiceServers({}, P) = {}
<1>1. \A a : a \notin ContainerServers({}) /\ a \notin ServiceServers({}, P)
  BY ContainerServersMembers, ServiceServersMembers
<1> QED
  BY <1>1

\* A generation that has read nothing.
LEMMA ExactlyNothing ==
  ASSUME NEW u, sites[u] = {}, servers[u] = {}
  PROVE  Exact(u, {}, {}, {})
  BY NothingYet, NoServers DEF Exact, ConfigsOf, ContainersOf, ServicesOf

\* A generation that has read everything.
LEMMA ExactlyWanted ==
  ASSUME TypeOK, NEW u, Exact(u, Clients, Clients, Clients)
  PROVE  sites[u] = Wanted.sites /\ servers[u] = Wanted.servers
<1>1. PresentAt(Clients, Containers) = Containers \cap present
  BY GeneratorAssumption DEF PresentAt, Objects
<1>2. \A S : InSwarmAt(Clients, S) = {o \in S \cap present : ClientOf[o] \in swarmActive}
  BY DEF InSwarmAt, PresentAt, TypeOK
<1> DEFINE I == IngressOf(Clients)
           Q(S) == {o \in S \cap present : ClientOf[o] \in swarmActive}
<1>3. I = {n \in Networks \ RoutingMesh : \E i \in Clients : <<i, n>> \in joined}
  BY DEF IngressOf
<1>4. Wanted = [sites   |-> {ContainerSite(c, I) : c \in (Containers \cap present) \ BrokenLabels}
                     \cup {ServiceSite(s, present, I) : s \in Q(Services) \ BrokenLabels}
                     \cup {ConfigSite(k) : k \in Q(Configs) \ BrokenLabels},
       servers |-> ContainerServers(Containers \cap present) \cup ServiceServers(Q(Services), present)]
  BY <1>3 DEF Wanted
<1> HIDE DEF I, Q
<1>5. ConfigsOf(Clients) = {ConfigSite(k) : k \in Q(Configs) \ BrokenLabels}
  BY <1>2 DEF ConfigsOf, Q
<1>6. ServicesOf(Clients) = {ServiceSite(s, present, I) : s \in Q(Services) \ BrokenLabels}
  BY <1>2 DEF ServicesOf, Q, I
<1>7. ContainersOf(Clients) = {ContainerSite(c, I) : c \in (Containers \cap present) \ BrokenLabels}
  BY <1>1 DEF ContainersOf, I
<1>8. InSwarmAt(Clients, Services) = Q(Services)
  BY <1>2 DEF Q
<1> QED
  BY <1>1, <1>4, <1>5, <1>6, <1>7, <1>8 DEF Exact

\* What Docker's state asks for only changes with it.
LEMMA SameDocker ==
  ASSUME UNCHANGED docker
  PROVE  /\ \A B : IngressOf(B)' = IngressOf(B)
         /\ \A B, S : PresentAt(B, S)' = PresentAt(B, S) /\ InSwarmAt(B, S)' = InSwarmAt(B, S)
         /\ \A B : /\ ConfigsOf(B)' = ConfigsOf(B) /\ ContainersOf(B)' = ContainersOf(B)
                   /\ ServicesOf(B)' = ServicesOf(B)
<1> USE DEF docker
<1>1. \A B : IngressOf(B)' = IngressOf(B)
  BY DEF IngressOf
<1>2. \A B, S : PresentAt(B, S)' = PresentAt(B, S) /\ InSwarmAt(B, S)' = InSwarmAt(B, S)
  BY DEF PresentAt, InSwarmAt
<1>3. \A B : ConfigsOf(B)' = ConfigsOf(B) /\ ContainersOf(B)' = ContainersOf(B)
             /\ ServicesOf(B)' = ServicesOf(B)
  BY <1>1, <1>2 DEF ConfigsOf, ContainersOf, ServicesOf
<1> QED
  BY <1>1, <1>2, <1>3

LEMMA SameExact ==
  ASSUME UNCHANGED docker, NEW u, sites'[u] = sites[u], servers'[u] = servers[u],
         NEW K, NEW C, NEW S, Exact(u, K, C, S)
  PROVE  Exact(u, K, C, S)'
<1>1. /\ ConfigsOf(K)' = ConfigsOf(K) /\ ContainersOf(C)' = ContainersOf(C)
      /\ ServicesOf(S)' = ServicesOf(S) /\ PresentAt(C, Containers)' = PresentAt(C, Containers)
      /\ InSwarmAt(S, Services)' = InSwarmAt(S, Services) /\ present' = present
  BY SameDocker DEF docker
<1> QED
  BY <1>1 DEF Exact

\* A generation that a step does not concern, unless it corrects a cache.
LEMMA OtherGeneration ==
  ASSUME UNCHANGED docker, NEW v \in Updates, CachesHold(v), Agreed => ReadSoFar(v),
         pc'[v] = pc[v], index'[v] = index[v], found'[v] = found[v],
         sites'[v] = sites[v], servers'[v] = servers[v],
         ingressNetworks' \in {ingressNetworks, IngressOf(Clients)},
         TypeOK, TypeOK',
         \A j \in Clients : \/ j \in swarmIsAvailable' <=> j \in swarmIsAvailable
                            \/ j \in swarmIsAvailable' <=> j \in swarmActive
  PROVE  CachesHold(v)' /\ (Agreed => ReadSoFar(v))'
<1> DEFINE i == index[v]
<1>1. Agreed' = Agreed
  BY DEF Agreed, docker
<1>2. index'[v] = i
  OBVIOUS
<1>3. CachesHold(v)'
  <2>1. IngressOf(Before(i))' = IngressOf(Before(i)) /\ IngressOf(Clients)' = IngressOf(Clients)
    BY SameDocker
  <2>2. swarmIsAvailable = swarmActive => swarmIsAvailable' = swarmActive
    BY DEF TypeOK
  <2> QED
    BY <1>2, <2>1, <2>2 DEF CachesHold, docker, Before
<1>4. ASSUME ReadSoFar(v) PROVE ReadSoFar(v)'
  BY <1>2, <1>4, SameExact DEF ReadSoFar
<1> QED
  BY <1>1, <1>3, <1>4

\* What a step of generation u leaves to the others.
LeavesOthers(u) ==
  \A v \in Updates : v # u =>
    /\ pc'[v] = pc[v] /\ index'[v] = index[v] /\ found'[v] = found[v]
    /\ sites'[v] = sites[v] /\ servers'[v] = servers[v]

\* A step of generation u that is right about Docker.
LEMMA StepOfOne ==
  ASSUME TypeOK, TypeOK', Calm, UNCHANGED docker, NEW u \in Updates, LeavesOthers(u),
         ingressNetworks' \in {ingressNetworks, IngressOf(Clients)},
         \A j \in Clients : \/ j \in swarmIsAvailable' <=> j \in swarmIsAvailable
                            \/ j \in swarmIsAvailable' <=> j \in swarmActive,
         KnowsSwarms',
         pc'[u] # "idle" => CachesHold(u)' /\ (Agreed => ReadSoFar(u)')
  PROVE  Calm'
<1>1. Agreed' = Agreed
  BY DEF Agreed, docker
<1>2. ASSUME NEW v \in Updates, pc'[v] # "idle", v # u
      PROVE  CachesHold(v)' /\ (Agreed => ReadSoFar(v))'
  <2>1. CachesHold(v) /\ (Agreed => ReadSoFar(v))
    BY <1>2 DEF Calm, LeavesOthers, underWay
  <2> QED
    BY <1>2, <2>1, OtherGeneration DEF LeavesOthers
<1>3. \A v \in Updates : pc'[v] # "idle" => CachesHold(v)' /\ (Agreed => ReadSoFar(v))'
  BY <1>1, <1>2
<1> QED
  BY <1>3 DEF Calm, underWay

\* A step of generation u that leaves the caches alone.
LEMMA StepOffCaches ==
  ASSUME TypeOK, TypeOK', Calm, UNCHANGED <<docker, cache>>, NEW u \in Updates, LeavesOthers(u),
         pc'[u] # "idle" => CachesHold(u)' /\ (Agreed => ReadSoFar(u)')
  PROVE  Calm'
<1>1. UNCHANGED <<ingressNetworks, swarmIsAvailable>> /\ UNCHANGED docker
  BY DEF cache
<1>2. KnowsSwarms'
  BY DEF Calm, KnowsSwarms, Expired, docker, cache
<1> QED
  BY <1>1, <1>2, StepOfOne

LEMMA CalmTick == ASSUME TypeOK, TypeOK', Calm, Tick PROVE Calm'
<1>1. UNCHANGED docker /\ UNCHANGED <<pc, local, ingressNetworks, swarmIsAvailable>>
  BY DEF Tick
<1>2. swarmIsAvailable = swarmActive
  BY GeneratorAssumption DEF Tick, Calm, KnowsSwarms, Expired
<1>3. KnowsSwarms'
  BY <1>1, <1>2 DEF KnowsSwarms, docker
<1>4. ASSUME NEW v \in Updates, pc'[v] # "idle" PROVE CachesHold(v)' /\ (Agreed => ReadSoFar(v))'
  <2>1. CachesHold(v) /\ (Agreed => ReadSoFar(v))
    BY <1>1, <1>4 DEF Calm, underWay
  <2> QED
    BY <1>1, <2>1, OtherGeneration DEF local
<1> QED
  BY <1>3, <1>4 DEF Calm, underWay

LEMMA CalmBegin ==
  ASSUME TypeOK, TypeOK', Rewound, Calm, NEW u \in Updates, Begin(u) PROVE Calm'
<1>1. UNCHANGED docker /\ UNCHANGED <<docker, cache>> /\ UNCHANGED local /\ pc[u] = "idle"
  BY DEF Begin
<1>2. pc'[u] = "ingress" /\ \A v \in Updates : v # u => pc'[v] = pc[v]
  BY DEF Begin, TypeOK
<1>3. index'[u] = 1 /\ found'[u] = {} /\ sites'[u] = {} /\ servers'[u] = {}
  BY <1>1 DEF Rewound, local
<1>4. CachesHold(u)'
  <2>1. Before(index[u])' = {}
    BY <1>3, ClientRanges DEF Before
  <2>2. IngressOf(Before(index[u]))' = {}
    BY <2>1 DEF IngressOf
  <2> QED
    BY <1>2, <1>3, <2>2 DEF CachesHold
<1>5. ReadSoFar(u)'
  BY <1>2, <1>3 DEF ReadSoFar
<1> QED
  BY <1>1, <1>2, <1>4, <1>5, StepOffCaches DEF LeavesOthers, local

LEMMA CalmReadIngress ==
  ASSUME NetworksAreReached, TypeOK, TypeOK', Rewound, Calm, failures' = failures,
         NEW u \in Updates, ReadIngress(u)
  PROVE  Calm'
<1>1. UNCHANGED <<docker, cache>> /\ UNCHANGED docker /\ UNCHANGED <<sites, servers>>
      /\ pc[u] = "ingress"
  BY DEF ReadIngress
<1> DEFINE i == index[u]
           learned == {n \in Networks \ RoutingMesh : <<i, n>> \in joined}
<1>2. i \in Clients /\ (NClients = 1 => i = OwnClient)
  <2>1. i \in Clients
    BY DEF TypeOK
  <2>2. i \in 1 .. NClients /\ OwnClient \in 1 .. NClients /\ NClients \in Nat
    BY <2>1, GeneratorAssumption DEF Clients
  <2> QED
    BY <2>1, <2>2
<1>3. /\ found' = [found EXCEPT ![u] = @ \cup learned]
      /\ Advance(u, "ingress", "assign")
  BY <1>2, NoFailure DEF ReadIngress, NetworksAreReached
<1>4. Rounds(u, "ingress", "assign")
  BY <1>3, IngressRounds
<1>5. found'[u] = found[u] \cup learned /\ \A v \in Updates : v # u => found'[v] = found[v]
  BY <1>3 DEF TypeOK
<1>6. CachesHold(u) /\ (Agreed => ReadSoFar(u))
  BY <1>1 DEF Calm, underWay
<1> HIDE DEF i
<1>7. found'[u] = IngressOf(UpTo(i))
  <2>1. found[u] = IngressOf(Before(i))
    BY <1>1, <1>6 DEF CachesHold, i
  <2>2. UpTo(i) = Before(i) \cup {i}
    BY <1>2, ClientRanges
  <2>3. IngressOf(UpTo(i)) = IngressOf(Before(i)) \cup learned
    <3>1. IngressOf(Before(i) \cup {i}) = IngressOf(Before(i)) \cup learned
      BY IngressGrows, Zenon
    <3> QED
      BY <2>2, <3>1
  <2> QED
    BY <1>5, <2>1, <2>3
<1>8. \A B : IngressOf(B)' = IngressOf(B)
  BY <1>1, SameDocker
<1>9. CachesHold(u)'
  <2>1. CASE pc'[u] = "ingress" /\ index'[u] = i + 1
    <3>1. Before(index[u])' = UpTo(i)
      BY <1>2, <2>1, ClientRanges DEF Before
    <3>2. IngressOf(Before(index[u]))' = IngressOf(UpTo(i))
      BY <1>1, <3>1 DEF IngressOf, docker
    <3> QED
      BY <1>7, <2>1, <3>2 DEF CachesHold
  <2>2. CASE pc'[u] = "assign" /\ i = NClients
    <3>1. found'[u] = IngressOf(Clients)'
      BY <1>7, <1>8, <2>2, ClientRanges
    <3> QED
      BY <2>2, <3>1 DEF CachesHold
  <2> QED
    BY <1>4, <2>1, <2>2 DEF Rounds, i
<1>10. Agreed => ReadSoFar(u)'
  BY <1>1, <1>4, <1>6 DEF Rounds, ReadSoFar
<1> QED
  BY <1>1, <1>4, <1>5, <1>9, <1>10, StepOffCaches DEF LeavesOthers, Rounds

LEMMA CalmAssignIngress ==
  ASSUME TypeOK, TypeOK', Calm, NEW u \in Updates, AssignIngress(u)
  PROVE  Calm'
<1>1. UNCHANGED docker /\ UNCHANGED <<swarmIsAvailable, swarmAge>> /\ UNCHANGED local
      /\ pc[u] = "assign" /\ ingressNetworks' = found[u]
  BY DEF AssignIngress
<1>2. pc'[u] = "swarm" /\ \A v \in Updates : v # u => pc'[v] = pc[v]
  BY DEF AssignIngress, TypeOK
<1>3. CachesHold(u) /\ (Agreed => ReadSoFar(u))
  BY <1>1 DEF Calm, underWay
<1>4. ingressNetworks' = IngressOf(Clients)
  BY <1>1, <1>3 DEF CachesHold
<1>5. CachesHold(u)'
  <2>1. IngressOf(Clients)' = IngressOf(Clients)
    BY <1>1, SameDocker
  <2> QED
    BY <1>2, <1>4, <2>1 DEF CachesHold
<1>6. Agreed => ReadSoFar(u)'
  BY <1>1, <1>2, <1>3 DEF ReadSoFar, local
<1>7. KnowsSwarms'
  BY <1>1 DEF Calm, KnowsSwarms, Expired, docker
<1>8. LeavesOthers(u)
  BY <1>1, <1>2 DEF LeavesOthers, local
<1> QED
  BY <1>1, <1>4, <1>5, <1>6, <1>7, <1>8, StepOfOne

\* A generation that goes on to read: nothing is read yet, and the swarms are known.
LEMMA ReadingBegins ==
  ASSUME UNCHANGED docker, NEW u \in Updates, CachesHold(u), ingressNetworks' = ingressNetworks,
         pc[u] \in {"swarm", "stamp"}, pc'[u] = "configs", index'[u] = 1,
         swarmIsAvailable' = swarmActive
  PROVE  CachesHold(u)' /\ (sites'[u] = {} /\ servers'[u] = {} => ReadSoFar(u)')
<1>1. ingressNetworks' = IngressOf(Clients)'
  <2>1. IngressOf(Clients)' = IngressOf(Clients)
    BY SameDocker
  <2> QED
    BY <2>1 DEF CachesHold
<1>2. CachesHold(u)'
  BY <1>1 DEF CachesHold, docker
<1>3. ASSUME sites'[u] = {}, servers'[u] = {} PROVE Exact(u, {}, {}, {})'
  <2>1. /\ \A B : IngressOf(B)' = IngressOf(B)
        /\ ConfigsOf({})' = {} /\ ContainersOf({})' = {} /\ ServicesOf({})' = {}
    BY SameDocker, NothingYet DEF ConfigsOf, ContainersOf, ServicesOf
  <2>2. PresentAt({}, Containers)' = {} /\ InSwarmAt({}, Services)' = {}
    BY SameDocker, NothingYet
  <2>3. ContainerServers({}) = {} /\ \A P : ServiceServers({}, P) = {}
    BY NoServers
  <2> QED
    BY <1>3, <2>1, <2>2, <2>3 DEF Exact
<1>4. Before(index[u])' = {}
  BY ClientRanges DEF Before
<1>5. sites'[u] = {} /\ servers'[u] = {} => ReadSoFar(u)'
  BY <1>3, <1>4 DEF ReadSoFar
<1> QED
  BY <1>2, <1>5

LEMMA CalmCheckAge ==
  ASSUME TypeOK, TypeOK', Rewound, Calm, NEW u \in Updates, CheckAge(u)
  PROVE  Calm'
<1>1. UNCHANGED docker /\ UNCHANGED cache /\ UNCHANGED local /\ pc[u] = "swarm"
  BY DEF CheckAge
<1>2. \A v \in Updates : v # u => pc'[v] = pc[v]
  BY DEF CheckAge, TypeOK
<1>3. CachesHold(u) /\ (Agreed => ReadSoFar(u)) /\ index[u] = 1
  BY <1>1 DEF Calm, underWay, Rewound
<1>4. pc'[u] = "info" \/ (pc'[u] = "configs" /\ (~Expired \/ \E v \in Updates : pc[v] = "stamp"))
  BY DEF CheckAge, TypeOK
<1>5. CASE pc'[u] = "info"
  <2>1. IngressOf(Clients)' = IngressOf(Clients) /\ Before(index[u])' = {}
    BY <1>1, <1>3, SameDocker, ClientRanges DEF Before, local
  <2>2. CachesHold(u)'
    BY <1>1, <1>3, <1>5, <2>1 DEF CachesHold, cache
  <2>3. Agreed => ReadSoFar(u)'
    BY <1>1, <1>3, <1>5 DEF ReadSoFar, local
  <2> QED
    BY <1>1, <1>2, <2>2, <2>3, StepOffCaches DEF LeavesOthers, local
<1>6. CASE pc'[u] = "configs" /\ (~Expired \/ \E v \in Updates : pc[v] = "stamp")
  <2>1. swarmIsAvailable = swarmActive
    <3>1. CASE ~Expired
      BY <3>1 DEF Calm, KnowsSwarms
    <3>2. ASSUME NEW v \in Updates, pc[v] = "stamp" PROVE swarmIsAvailable = swarmActive
      BY <3>2 DEF Calm, underWay, CachesHold
    <3> QED
      BY <1>6, <3>1, <3>2
  <2>2. UNCHANGED <<ingressNetworks, swarmIsAvailable, index, sites, servers>>
    BY <1>1 DEF cache, local
  <2>3. Agreed => sites'[u] = {} /\ servers'[u] = {}
    BY <1>1, <1>3, <2>2 DEF ReadSoFar
  <2>4. CachesHold(u)' /\ (Agreed => ReadSoFar(u)')
    BY <1>1, <1>3, <1>6, <2>1, <2>2, <2>3, ReadingBegins
  <2> QED
    BY <1>1, <1>2, <2>4, StepOffCaches DEF LeavesOthers, local
<1> QED
  BY <1>4, <1>5, <1>6

LEMMA CalmStamp ==
  ASSUME TypeOK, TypeOK', Rewound, Calm, NEW u \in Updates, Stamp(u)
  PROVE  Calm'
<1>1. UNCHANGED docker /\ UNCHANGED <<ingressNetworks, swarmIsAvailable>> /\ UNCHANGED local
      /\ pc[u] = "stamp"
  BY DEF Stamp
<1>2. pc'[u] = "configs" /\ \A v \in Updates : v # u => pc'[v] = pc[v]
  BY DEF Stamp, TypeOK
<1>3. CachesHold(u) /\ (Agreed => ReadSoFar(u)) /\ index[u] = 1
  BY <1>1 DEF Calm, underWay, Rewound
<1>4. swarmIsAvailable' = swarmActive /\ KnowsSwarms'
  BY <1>1, <1>3 DEF CachesHold, KnowsSwarms, docker
<1>5. Agreed => sites'[u] = {} /\ servers'[u] = {}
  BY <1>1, <1>3 DEF ReadSoFar, local
<1>6. CachesHold(u)' /\ (Agreed => ReadSoFar(u)')
  BY <1>1, <1>2, <1>3, <1>4, <1>5, ReadingBegins DEF local
<1>7. LeavesOthers(u)
  BY <1>1, <1>2 DEF LeavesOthers, local
<1> QED
  BY <1>1, <1>4, <1>6, <1>7, StepOfOne

LEMMA CalmCheckSwarm ==
  ASSUME TypeOK, TypeOK', Calm, failures' = failures, NEW u \in Updates, CheckSwarm(u)
  PROVE  Calm'
<1>1. UNCHANGED docker /\ UNCHANGED <<ingressNetworks, swarmAge, found, sites, servers>>
      /\ pc[u] = "info"
  BY DEF CheckSwarm
<1> DEFINE i == index[u]
<1>2. swarmIsAvailable' = IF i \in swarmActive THEN swarmIsAvailable \cup {i} ELSE swarmIsAvailable \ {i}
  <2>1. PICK fails \in BOOLEAN :
          /\ Meets(fails)
          /\ swarmIsAvailable' =
               IF i \in swarmActive /\ ~fails
                 THEN swarmIsAvailable \cup {i} ELSE swarmIsAvailable \ {i}
    BY DEF CheckSwarm
  <2>2. ~fails
    BY <2>1, NoFailure
  <2> QED
    BY <2>1, <2>2
<1>3. Rounds(u, "info", "stamp")
  BY InfoRounds DEF CheckSwarm
<1>4. CachesHold(u) /\ (Agreed => ReadSoFar(u)) /\ i \in Clients
  BY <1>1 DEF Calm, underWay, TypeOK
<1> HIDE DEF i
<1>5. \A j \in UpTo(i) : j \in swarmIsAvailable' <=> j \in swarmActive
  <2>1. \A j \in Before(i) : j \in swarmIsAvailable <=> j \in swarmActive
    BY <1>1, <1>4 DEF CachesHold, i
  <2>2. UpTo(i) = Before(i) \cup {i}
    BY <1>4, ClientRanges
  <2> QED
    BY <1>2, <2>1, <2>2
<1>6. CachesHold(u)'
  <2>1. ingressNetworks' = IngressOf(Clients)'
    <3>1. IngressOf(Clients)' = IngressOf(Clients)
      BY <1>1, SameDocker
    <3> QED
      BY <1>1, <1>4, <3>1 DEF CachesHold
  <2>2. CASE pc'[u] = "info" /\ index'[u] = i + 1
    <3>1. Before(index[u])' = UpTo(i)
      BY <1>4, <2>2, ClientRanges DEF Before
    <3>2. \A j \in Before(index[u])' : j \in swarmIsAvailable' <=> j \in swarmActive'
      BY <1>1, <1>5, <3>1 DEF docker
    <3> QED
      BY <2>1, <2>2, <3>2 DEF CachesHold
  <2>3. CASE pc'[u] = "stamp" /\ i = NClients
    <3>1. \A j \in Clients : j \in swarmIsAvailable' <=> j \in swarmActive'
      BY <1>1, <1>5, <2>3, ClientRanges DEF docker
    <3>2. swarmIsAvailable' = swarmActive'
      BY <3>1 DEF TypeOK
    <3> QED
      BY <2>1, <2>3, <3>2 DEF CachesHold
  <2> QED
    BY <1>3, <2>2, <2>3 DEF Rounds, i
<1>7. Agreed => ReadSoFar(u)'
  BY <1>1, <1>3, <1>4 DEF Rounds, ReadSoFar
<1>8. KnowsSwarms'
  <2>1. swarmIsAvailable = swarmActive => swarmIsAvailable' = swarmActive
    BY <1>2
  <2> QED
    BY <1>1, <2>1 DEF Calm, KnowsSwarms, Expired, docker
<1>9. \A j \in Clients : \/ j \in swarmIsAvailable' <=> j \in swarmIsAvailable
                         \/ j \in swarmIsAvailable' <=> j \in swarmActive
  BY <1>2
<1>10. LeavesOthers(u)
  BY <1>1, <1>3 DEF LeavesOthers, Rounds
<1> QED
  BY <1>1, <1>6, <1>7, <1>8, <1>9, <1>10, StepOfOne

\* What client i adds to what the clients before it contribute.
SwarmAt(i, S) == IF i \in swarmActive THEN At(i, S \cap present) ELSE {}

LEMMA ConfigsGrow ==
  ASSUME NEW i \in Clients
  PROVE  ConfigsOf(UpTo(i))
           = ConfigsOf(Before(i)) \cup {ConfigSite(k) : k \in SwarmAt(i, Configs) \ BrokenLabels}
<1>1. InSwarmAt(UpTo(i), Configs) = InSwarmAt(Before(i), Configs) \cup SwarmAt(i, Configs)
  BY ClientRanges, InSwarmGrows DEF SwarmAt
<1> QED
  BY <1>1 DEF ConfigsOf

LEMMA ContainersGrow ==
  ASSUME NEW i \in Clients
  PROVE  /\ ContainersOf(UpTo(i))
              = ContainersOf(Before(i)) \cup
                  {ContainerSite(c, IngressOf(Clients)) :
                     c \in At(i, Containers \cap present) \ BrokenLabels}
         /\ ContainerServers(PresentAt(UpTo(i), Containers))
              = ContainerServers(PresentAt(Before(i), Containers))
                  \cup ContainerServers(At(i, Containers \cap present))
<1>1. PresentAt(UpTo(i), Containers)
        = PresentAt(Before(i), Containers) \cup At(i, Containers \cap present)
  BY ClientRanges, PresentGrows
<1>2. PresentAt(UpTo(i), Containers) \ BrokenLabels
        = (PresentAt(Before(i), Containers) \ BrokenLabels)
            \cup (At(i, Containers \cap present) \ BrokenLabels)
  BY <1>1
<1>3. ContainersOf(UpTo(i))
        = ContainersOf(Before(i)) \cup
            {ContainerSite(c, IngressOf(Clients)) :
               c \in At(i, Containers \cap present) \ BrokenLabels}
  BY <1>2 DEF ContainersOf
<1>4. ContainerServers(PresentAt(UpTo(i), Containers))
        = ContainerServers(PresentAt(Before(i), Containers))
            \cup ContainerServers(At(i, Containers \cap present))
  BY <1>1, ServersGrow
<1> QED
  BY <1>3, <1>4

LEMMA ServicesGrow ==
  ASSUME NEW i \in Clients
  PROVE  /\ ServicesOf(UpTo(i))
              = ServicesOf(Before(i)) \cup
                  {ServiceSite(s, present, IngressOf(Clients)) :
                     s \in SwarmAt(i, Services) \ BrokenLabels}
         /\ ServiceServers(InSwarmAt(UpTo(i), Services), present)
              = ServiceServers(InSwarmAt(Before(i), Services), present)
                  \cup ServiceServers(SwarmAt(i, Services), present)
<1>1. InSwarmAt(UpTo(i), Services) = InSwarmAt(Before(i), Services) \cup SwarmAt(i, Services)
  BY ClientRanges, InSwarmGrows DEF SwarmAt
<1>2. InSwarmAt(UpTo(i), Services) \ BrokenLabels
        = (InSwarmAt(Before(i), Services) \ BrokenLabels) \cup (SwarmAt(i, Services) \ BrokenLabels)
  BY <1>1
<1>3. ServicesOf(UpTo(i))
        = ServicesOf(Before(i)) \cup
            {ServiceSite(s, present, IngressOf(Clients)) :
               s \in SwarmAt(i, Services) \ BrokenLabels}
  BY <1>2 DEF ServicesOf
<1>4. ServiceServers(InSwarmAt(UpTo(i), Services), present)
        = ServiceServers(InSwarmAt(Before(i), Services), present)
            \cup ServiceServers(SwarmAt(i, Services), present)
  BY <1>1, ServersGrow
<1> QED
  BY <1>3, <1>4

LEMMA ExactNext ==
  ASSUME UNCHANGED docker, NEW u, NEW K, NEW C, NEW S,
         sites'[u] = ConfigsOf(K) \cup ContainersOf(C) \cup ServicesOf(S),
         servers'[u] = ContainerServers(PresentAt(C, Containers))
                         \cup ServiceServers(InSwarmAt(S, Services), present)
  PROVE  Exact(u, K, C, S)'
<1>1. /\ ConfigsOf(K)' = ConfigsOf(K) /\ ContainersOf(C)' = ContainersOf(C)
      /\ ServicesOf(S)' = ServicesOf(S) /\ PresentAt(C, Containers)' = PresentAt(C, Containers)
      /\ InSwarmAt(S, Services)' = InSwarmAt(S, Services) /\ present' = present
  BY SameDocker DEF docker
<1> QED
  BY <1>1 DEF Exact

\* A generation that reads relies on the same caches all the time.
LEMMA CachesStillHold ==
  ASSUME UNCHANGED docker, UNCHANGED cache, NEW u \in Updates, CachesHold(u),
         pc[u] \in {"configs", "containers", "services"},
         pc'[u] \in {"configs", "containers", "services", "done"}
  PROVE  /\ CachesHold(u)'
         /\ swarmIsAvailable = swarmActive /\ ingressNetworks = IngressOf(Clients)
<1>1. IngressOf(Clients)' = IngressOf(Clients)
  BY SameDocker
<1> QED
  BY <1>1 DEF CachesHold, docker, cache

LEMMA CalmReadConfigs ==
  ASSUME TypeOK, TypeOK', Calm, failures' = failures, NEW u \in Updates, ReadConfigs(u)
  PROVE  Calm'
<1>1. UNCHANGED docker /\ UNCHANGED cache /\ UNCHANGED <<index, found, servers>>
      /\ pc[u] = "configs"
  BY DEF ReadConfigs
<1>2. pc'[u] = "containers" /\ \A v \in Updates : v # u => pc'[v] = pc[v]
  BY DEF ReadConfigs, TypeOK
<1>3. CachesHold(u) /\ (Agreed => ReadSoFar(u)) /\ index[u] \in Clients
  BY <1>1 DEF Calm, underWay, TypeOK
<1>4. CachesHold(u)' /\ swarmIsAvailable = swarmActive
  BY <1>1, <1>2, <1>3, CachesStillHold
<1>5. PICK i \in Clients : index[u] = i
  BY <1>3
<1>6. /\ sites'[u] = sites[u] \cup {ConfigSite(k) : k \in SwarmAt(i, Configs) \ BrokenLabels}
      /\ \A v \in Updates : v # u => sites'[v] = sites[v]
  <2>1. CASE i \in swarmActive
    <3>1. PICK lost :
            /\ Meets(lost # {})
            /\ sites' = [sites EXCEPT ![u] = @ \cup
                 {ConfigSite(k) : k \in At(i, Configs \cap present) \ (lost \cup BrokenLabels)}]
      BY <1>4, <1>5, <2>1 DEF ReadConfigs, AskedAboutSwarm
    <3>2. lost = {}
      BY <3>1, NoFailure
    <3>3. sites' = [sites EXCEPT ![u] = @ \cup
            {ConfigSite(k) : k \in At(i, Configs \cap present) \ BrokenLabels}]
      BY <3>1, <3>2
    <3> QED
      BY <2>1, <3>3 DEF SwarmAt, TypeOK
  <2>2. CASE i \notin swarmActive
    BY <1>5, <2>2 DEF ReadConfigs, SwarmAt
  <2> QED
    BY <2>1, <2>2
<1>7. ASSUME Agreed PROVE ReadSoFar(u)'
  <2>1. Exact(u, Before(i), Before(i), Before(i))
    BY <1>1, <1>3, <1>5, <1>7 DEF ReadSoFar
  <2>2. Exact(u, UpTo(i), Before(i), Before(i))'
    <3>1. ConfigsOf(UpTo(i))
            = ConfigsOf(Before(i)) \cup {ConfigSite(k) : k \in SwarmAt(i, Configs) \ BrokenLabels}
      BY ConfigsGrow
    <3>2. sites'[u] = ConfigsOf(UpTo(i)) \cup ContainersOf(Before(i)) \cup ServicesOf(Before(i))
      BY <1>6, <2>1, <3>1 DEF Exact
    <3>3. servers'[u] = ContainerServers(PresentAt(Before(i), Containers))
                          \cup ServiceServers(InSwarmAt(Before(i), Services), present)
      BY <1>1, <2>1 DEF Exact
    <3>4. UNCHANGED docker
      BY <1>1
    <3> QED
      BY <3>2, <3>3, <3>4, ExactNext, Zenon
  <2> QED
    BY <1>1, <1>2, <1>5, <2>2 DEF ReadSoFar
<1> QED
  BY <1>1, <1>2, <1>4, <1>6, <1>7, StepOffCaches DEF LeavesOthers
LEMMA CalmReadContainers ==
  ASSUME TypeOK, TypeOK', Calm, failures' = failures, NEW u \in Updates, ReadContainers(u)
  PROVE  Calm'
<1>1. UNCHANGED docker /\ UNCHANGED cache /\ UNCHANGED <<index, found>> /\ pc[u] = "containers"
  BY DEF ReadContainers
<1>2. PICK i \in Clients : index[u] = i
  BY DEF TypeOK
<1> DEFINE listed == At(i, Containers \cap present)
           read == {ContainerSite(c, ingressNetworks) : c \in listed \ BrokenLabels}
<1>3. /\ sites' = [sites EXCEPT ![u] = @ \cup read]
      /\ servers' = [servers EXCEPT ![u] = @ \cup ContainerServers(listed)]
      /\ pc' = [pc EXCEPT ![u] = "services"]
  <2>1. PICK fails \in BOOLEAN :
          LET some == IF fails THEN {} ELSE At(index[u], Containers \cap present)
          IN  /\ Meets(fails)
              /\ sites' = [sites EXCEPT ![u] = @ \cup
                   {ContainerSite(c, ingressNetworks) : c \in some \ BrokenLabels}]
              /\ servers' = [servers EXCEPT ![u] = @ \cup ContainerServers(some)]
              /\ pc' = [pc EXCEPT ![u] = AfterContainers(fails)]
    BY DEF ReadContainers
  <2>2. ~fails
    BY <2>1, NoFailure
  <2> QED
    BY <1>2, <2>1, <2>2 DEF AfterContainers
<1> HIDE DEF read, listed
<1>4. /\ sites'[u] = sites[u] \cup read /\ servers'[u] = servers[u] \cup ContainerServers(listed)
      /\ pc'[u] = "services" /\ LeavesOthers(u)
  BY <1>1, <1>3 DEF TypeOK, LeavesOthers
<1>5. CachesHold(u) /\ (Agreed => ReadSoFar(u))
  BY <1>1 DEF Calm, underWay
<1>6. CachesHold(u)' /\ ingressNetworks = IngressOf(Clients)
  BY <1>1, <1>4, <1>5, CachesStillHold
<1>7. ASSUME Agreed PROVE ReadSoFar(u)'
  <2>1. Exact(u, UpTo(i), Before(i), Before(i))
    BY <1>1, <1>2, <1>5, <1>7 DEF ReadSoFar
  <2>2. ContainersOf(UpTo(i)) = ContainersOf(Before(i)) \cup read
    BY <1>6, ContainersGrow DEF listed, read
  <2>3. ContainerServers(PresentAt(UpTo(i), Containers))
          = ContainerServers(PresentAt(Before(i), Containers)) \cup ContainerServers(listed)
    BY ContainersGrow DEF listed
  <2>4. sites'[u] = ConfigsOf(UpTo(i)) \cup ContainersOf(UpTo(i)) \cup ServicesOf(Before(i))
    BY <1>4, <2>1, <2>2 DEF Exact
  <2>5. servers'[u] = ContainerServers(PresentAt(UpTo(i), Containers))
                        \cup ServiceServers(InSwarmAt(Before(i), Services), present)
    BY <1>4, <2>1, <2>3 DEF Exact
  <2>6. UNCHANGED docker
    BY <1>1
  <2>7. Exact(u, UpTo(i), UpTo(i), Before(i))'
    BY <2>4, <2>5, <2>6, ExactNext, Zenon
  <2> QED
    BY <1>1, <1>2, <1>4, <2>7 DEF ReadSoFar
<1> QED
  BY <1>1, <1>4, <1>6, <1>7, StepOffCaches

\* The services of a client are read whole: its tasks can be listed when all clients
\* are in the swarm, and it is not asked when none is.
LEMMA CalmReadServices ==
  ASSUME TypeOK, TypeOK', Calm, failures' = failures, NEW u \in Updates, ReadServices(u)
  PROVE  Calm'
<1>1. UNCHANGED docker /\ UNCHANGED cache /\ UNCHANGED found /\ pc[u] = "services"
  BY DEF ReadServices
<1>2. PICK i \in Clients : index[u] = i
  BY DEF TypeOK
<1>3. Rounds(u, "configs", "done")
  BY ServiceRounds DEF ReadServices
<1>4. CachesHold(u) /\ (Agreed => ReadSoFar(u))
  BY <1>1 DEF Calm, underWay
<1>5. CachesHold(u)' /\ swarmIsAvailable = swarmActive /\ ingressNetworks = IngressOf(Clients)
  BY <1>1, <1>3, <1>4, CachesStillHold DEF Rounds
<1> DEFINE new == SwarmAt(i, Services)
           read == {ServiceSite(s, present, ingressNetworks) : s \in new \ BrokenLabels}
<1>6. LeavesOthers(u)
  <2>1. \A v \in Updates : v # u => sites'[v] = sites[v] /\ servers'[v] = servers[v]
    <3>1. CASE UNCHANGED <<sites, servers>>
      BY <3>1
    <3>2. ASSUME NEW X, NEW Y, sites' = [sites EXCEPT ![u] = X], servers' = [servers EXCEPT ![u] = Y]
          PROVE  \A v \in Updates : v # u => sites'[v] = sites[v] /\ servers'[v] = servers[v]
      BY <3>2 DEF TypeOK
    <3> QED
      BY <3>1, <3>2 DEF ReadServices
  <2> QED
    BY <1>1, <1>3, <2>1 DEF LeavesOthers, Rounds
<1>7. ASSUME Agreed
      PROVE  sites'[u] = sites[u] \cup read /\ servers'[u] = servers[u] \cup ServiceServers(new, present)
  <2>1. CASE i \in swarmActive
    <3>1. TasksCanBeListed /\ AskedAboutSwarm(u) /\ index[u] \in swarmActive
      BY <1>2, <1>5, <1>7, <2>1 DEF Agreed, TasksCanBeListed, AskedAboutSwarm
    <3>2. PICK fails \in BOOLEAN :
            LET listed == IF fails THEN {} ELSE At(index[u], Services \cap present)
            IN  \E lostSites \in SUBSET listed : \E lostServers \in SUBSET listed :
                  /\ Meets(fails \/ (TasksCanBeListed /\ lostSites \cup lostServers # {}))
                  /\ sites' = [sites EXCEPT ![u] = @ \cup
                       {ServiceSite(s, present, ingressNetworks) :
                          s \in listed \ (lostSites \cup BrokenLabels)}]
                  /\ servers' = [servers EXCEPT ![u] = @ \cup
                       ServiceServers(listed \ lostServers, present)]
      BY <3>1 DEF ReadServices
    <3> DEFINE listed == IF fails THEN {} ELSE At(index[u], Services \cap present)
    <3>3. PICK lostSites \in SUBSET listed, lostServers \in SUBSET listed :
            /\ Meets(fails \/ (TasksCanBeListed /\ lostSites \cup lostServers # {}))
            /\ sites' = [sites EXCEPT ![u] = @ \cup
                 {ServiceSite(s, present, ingressNetworks) :
                    s \in listed \ (lostSites \cup BrokenLabels)}]
            /\ servers' = [servers EXCEPT ![u] = @ \cup
                 ServiceServers(listed \ lostServers, present)]
      BY <3>2
    <3>4. ~fails /\ lostSites = {} /\ lostServers = {}
      <4>1. ~(fails \/ (TasksCanBeListed /\ lostSites \cup lostServers # {}))
        BY <3>3, NoFailure
      <4> QED
        BY <3>1, <4>1
    <3>5. listed = new
      BY <1>2, <2>1, <3>4 DEF SwarmAt
    <3>6. /\ sites' = [sites EXCEPT ![u] = @ \cup read]
          /\ servers' = [servers EXCEPT ![u] = @ \cup ServiceServers(new, present)]
      <4> HIDE DEF listed, new
      <4>1. listed \ (lostSites \cup BrokenLabels) = new \ BrokenLabels /\ listed \ lostServers = new
        BY <3>4, <3>5
      <4> QED
        BY <3>3, <4>1
    <3> HIDE DEF read, new
    <3> QED
      BY <3>6 DEF TypeOK
  <2>2. CASE i \notin swarmActive
    <3>1. UNCHANGED <<sites, servers>>
      BY <1>2, <2>2 DEF ReadServices
    <3>2. new = {} /\ read = {}
      BY <2>2 DEF SwarmAt
    <3>3. ServiceServers(new, present) = {}
      BY <3>2, NoServers
    <3> QED
      BY <3>1, <3>2, <3>3
  <2> QED
    BY <2>1, <2>2
<1> HIDE DEF read, new
<1>8. ASSUME Agreed PROVE ReadSoFar(u)'
  <2>1. Exact(u, UpTo(i), UpTo(i), Before(i))
    BY <1>1, <1>2, <1>4, <1>8 DEF ReadSoFar
  <2>2. ServicesOf(UpTo(i)) = ServicesOf(Before(i)) \cup read
    BY <1>5, ServicesGrow DEF new, read
  <2>3. ServiceServers(InSwarmAt(UpTo(i), Services), present)
          = ServiceServers(InSwarmAt(Before(i), Services), present) \cup ServiceServers(new, present)
    BY ServicesGrow DEF new
  <2>4. sites'[u] = ConfigsOf(UpTo(i)) \cup ContainersOf(UpTo(i)) \cup ServicesOf(UpTo(i))
    BY <1>7, <1>8, <2>1, <2>2 DEF Exact
  <2>5. servers'[u] = ContainerServers(PresentAt(UpTo(i), Containers))
                        \cup ServiceServers(InSwarmAt(UpTo(i), Services), present)
    BY <1>7, <1>8, <2>1, <2>3 DEF Exact
  <2>6. UNCHANGED docker
    BY <1>1
  <2>7. Exact(u, UpTo(i), UpTo(i), UpTo(i))'
    BY <2>4, <2>5, <2>6, ExactNext, Zenon
  <2>8. CASE pc'[u] = "configs" /\ index'[u] = i + 1
    <3>1. Before(i + 1) = UpTo(i)
      BY ClientRanges
    <3>2. Before(index[u])' = UpTo(i)
      BY <2>8, <3>1 DEF Before
    <3>3. Exact(u, Before(index[u]), Before(index[u]), Before(index[u]))'
      BY <2>7, <3>2
    <3> QED
      BY <2>8, <3>3 DEF ReadSoFar
  <2>9. CASE pc'[u] = "done" /\ i = NClients
    <3>1. UpTo(i) = Clients
      BY <2>9, ClientRanges
    <3>2. Exact(u, Clients, Clients, Clients)'
      BY <2>7, <3>1
    <3> QED
      BY <2>9, <3>2 DEF ReadSoFar
  <2> QED
    BY <1>2, <1>3, <2>8, <2>9 DEF Rounds
<1> QED
  BY <1>1, <1>5, <1>6, <1>8, StepOffCaches

\* Without a disturbance generations stay right, whichever step is next.
LEMMA CalmStep ==
  ASSUME NetworksAreReached, TypeOK, TypeOK', Rewound, Calm, Next, ~Disturbance
  PROVE  Calm'
<1>1. changes' = changes /\ failures' = failures
  BY DEF Disturbance
<1>2. ~Changing
  BY <1>1 DEF Changing, TypeOK
<1>3. \A o \in Objects : ~Appear(o) /\ ~Vanish(o)
  BY <1>2 DEF Appear, Vanish
<1>4. \A i \in Clients : ~ChangeSwarm(i) /\ \A n \in Networks : ~Join(i, n) /\ ~Leave(i, n)
  BY <1>2 DEF ChangeSwarm, Join, Leave
<1>5. CASE Tick
  BY <1>5, CalmTick
<1>6. ASSUME NEW u \in Updates, Begin(u) PROVE Calm'
  BY <1>6, CalmBegin
<1>7. ASSUME NEW u \in Updates, GenerateStep(u) PROVE Calm'
  <2>1. CASE ReadIngress(u)
    BY <1>1, <2>1, CalmReadIngress
  <2>2. CASE AssignIngress(u)
    BY <2>2, CalmAssignIngress
  <2>3. CASE CheckAge(u)
    BY <2>3, CalmCheckAge
  <2>4. CASE CheckSwarm(u)
    BY <1>1, <2>4, CalmCheckSwarm
  <2>5. CASE Stamp(u)
    BY <2>5, CalmStamp
  <2>6. CASE ReadConfigs(u)
    BY <1>1, <2>6, CalmReadConfigs
  <2>7. CASE ReadContainers(u)
    BY <1>1, <2>7, CalmReadContainers
  <2>8. CASE ReadServices(u)
    BY <1>1, <2>8, CalmReadServices
  <2>9. CASE Emit(u)
    <3>1. UNCHANGED <<docker, cache>> /\ pc'[u] = "idle" /\ LeavesOthers(u)
      BY <2>9 DEF Emit, TypeOK, LeavesOthers
    <3> QED
      BY <3>1, StepOffCaches
  <2> QED
    BY <1>7, <2>1, <2>2, <2>3, <2>4, <2>5, <2>6, <2>7, <2>8, <2>9 DEF GenerateStep
<1> QED
  BY <1>3, <1>4, <1>5, <1>6, <1>7 DEF Next

UndisturbedInvariant == undisturbed \subseteq underWay /\ CalmIfUndisturbed

LEMMA UndisturbedStep ==
  ASSUME NetworksAreReached, TypeOK, TypeOK', Rewound, UndisturbedInvariant,
         [HistoryNext]_historyVars
  PROVE  UndisturbedInvariant'
<1>1. CASE UNCHANGED historyVars
  <2>1. UNCHANGED <<docker, cache, pc, local, undisturbed>>
    BY <1>1 DEF historyVars, vars
  <2>2. underWay' = underWay
    BY <2>1 DEF underWay
  <2>3. ASSUME Calm PROVE Calm'
    <3>1. KnowsSwarms' /\ UNCHANGED docker /\ UNCHANGED <<ingressNetworks, swarmIsAvailable>>
      BY <2>1, <2>3 DEF Calm, KnowsSwarms, Expired, docker, cache
    <3>2. ASSUME NEW v \in underWay PROVE CachesHold(v)' /\ (Agreed => ReadSoFar(v))'
      <4>1. v \in Updates /\ CachesHold(v) /\ (Agreed => ReadSoFar(v))
        BY <2>3 DEF Calm, underWay
      <4> QED
        BY <2>1, <3>1, <4>1, OtherGeneration DEF local
    <3> QED
      BY <2>2, <3>1, <3>2 DEF Calm
  <2> QED
    BY <2>1, <2>2, <2>3 DEF UndisturbedInvariant, CalmIfUndisturbed
<1>2. CASE HistoryNext
  <2>1. CASE Disturbance
    BY <1>2, <2>1 DEF HistoryNext, NoteDisturbance, UndisturbedInvariant, CalmIfUndisturbed
  <2>2. CASE ~Disturbance
    <3>1. undisturbed' = {u \in Updates :
            /\ pc'[u] # "idle"
            /\ u \in undisturbed \/ (pc[u] = "idle" /\ underWay \subseteq undisturbed /\ KnowsSwarms)}
      BY <1>2, <2>2 DEF HistoryNext, NoteDisturbance
    <3>2. undisturbed' \subseteq underWay'
      BY <3>1 DEF underWay
    <3>3. ASSUME undisturbed' # {} PROVE underWay \subseteq undisturbed /\ KnowsSwarms /\ Calm
      <4>1. CASE undisturbed # {}
        BY <4>1 DEF UndisturbedInvariant, CalmIfUndisturbed, Calm
      <4>2. CASE undisturbed = {}
        <5>1. underWay = {} /\ KnowsSwarms
          BY <3>1, <3>3, <4>2
        <5> QED
          BY <4>2, <5>1 DEF Calm
      <4> QED
        BY <4>1, <4>2
    <3>4. ASSUME undisturbed' # {} PROVE underWay' \subseteq undisturbed'
      <4>1. underWay \subseteq undisturbed /\ KnowsSwarms
        BY <3>3, <3>4
      <4> QED
        BY <3>1, <4>1 DEF underWay
    <3>5. ASSUME undisturbed' # {} PROVE Calm'
      BY <1>2, <2>2, <3>3, <3>5, CalmStep DEF HistoryNext
    <3> QED
      BY <3>2, <3>4, <3>5 DEF UndisturbedInvariant, CalmIfUndisturbed
  <2> QED
    BY <2>1, <2>2
<1> QED
  BY <1>1, <1>2

\* A generation of GenerateCaddyfile that no change and no failing call disturbs
\* yields Docker's state exactly, whatever caches generations share and expire: the
\* safety core of the convergence TLC checks.
THEOREM UndisturbedGenerations ==
  ASSUME NetworksAreReached PROVE HistorySpec => []UndisturbedAreExact
<1>1. HistorySpec => Spec
  <2>1. HistoryInit => Init
    BY DEF HistoryInit
  <2>2. [HistoryNext]_historyVars => [Next]_vars
    BY DEF HistoryNext, historyVars
  <2> QED
    BY <2>1, <2>2, PTL DEF HistorySpec, Spec
<1>2. HistoryInit => UndisturbedInvariant
  BY DEF HistoryInit, UndisturbedInvariant, CalmIfUndisturbed
<1>3. TypeOK /\ TypeOK' /\ Rewound /\ UndisturbedInvariant /\ [HistoryNext]_historyVars
        => UndisturbedInvariant'
  BY UndisturbedStep
<1>4. GeneratorInvariant => TypeOK /\ Rewound
  BY DEF GeneratorInvariant
<1>5. TypeOK /\ UndisturbedInvariant => UndisturbedAreExact
  BY ExactlyWanted DEF UndisturbedInvariant, CalmIfUndisturbed, Calm, underWay, ReadSoFar, Agreed,
     UndisturbedAreExact
<1> QED
  BY <1>1, <1>2, <1>3, <1>4, <1>5, GeneratorAlways, PTL DEF HistorySpec
=============================================================================
