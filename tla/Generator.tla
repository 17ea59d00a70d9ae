----------------------------- MODULE Generator -----------------------------
(***************************************************************************)
(* GenerateCaddyfile (generator/*.go): from what Docker lists to the sites *)
(* of a Caddyfile and the servers it is for.                               *)
(*                                                                         *)
(* A generation learns the ingress networks, keeping the ones it knew when *)
(* a call fails; checks which clients are in a swarm, at most once in a    *)
(* while; and asks client after client for configs, containers and         *)
(* services.  A call that fails drops what it was about and nothing else.  *)
(* The generator belongs to all updates, so generations may overlap: they  *)
(* share ingressNetworks, swarmIsAvailable and swarmIsAvailableTime        *)
(* without a lock.  Docker may change between any two steps.               *)
(*                                                                         *)
(* A site is an object and the addresses "upstreams" yields for it; an     *)
(* address is a container or a task and a network.  Left out: the file of  *)
(* -caddyfile-path, and how labels become blocks, are merged, written and  *)
(* processed.                                                              *)
(***************************************************************************)
EXTENDS Integers, FiniteSets

CONSTANTS
  NClients,           \* clients, numbered as in g.dockerClients
  Updates,            \* generations that may be in progress together
  Containers, Services, Tasks, Configs,
  ClientOf,           \* the client that lists an object
  ServiceOf,          \* the service of a task
  Networks,
  RoutingMesh,        \* networks Docker marks as ingress
  NetworksOf,         \* the networks of a container or a task
  LabelledNetwork,    \* label caddy_ingress_network of a container or service, or None
  BrokenLabels,       \* objects whose labels or data do not parse
  ControlledServers,  \* containers and services with the label of a server
  ControllerNetworks, \* networks within ControllerNetwork, all of them when it is unset
  ManualNetworks,     \* IngressNetworks is given; joined are then the ones that exist
  OwnClient,          \* the client of the container this program runs in
  ProxyServiceTasks,
  CacheInterval,      \* swarmAvailabilityCacheInterval, in ticks
  None,
  MaxChanges, MaxFailures

VARIABLES
  present,            \* objects that exist
  joined,             \* pairs of a client and a network it is joined to
  swarmActive,        \* clients that are in a swarm
  ingressNetworks, swarmIsAvailable,
  swarmAge,           \* ticks since swarmIsAvailableTime, None when that is zero
  generated,          \* the last result
  changes, failures,  \* budgets used up
  (* locals of the generation of update u *)
  pc, index,
  found,              \* the map getIngressNetworks builds
  sites, servers,
  (* history: since the generation began *)
  steady, seen,       \* objects that existed all the time, or some time
  steadyJoined,       \* joined all the time
  unlisted            \* clients whose ContainerList failed

docker == <<present, joined, swarmActive>>
cache == <<ingressNetworks, swarmIsAvailable, swarmAge>>
budgets == <<changes, failures>>
local == <<index, found, sites, servers>>
history == <<steady, seen, steadyJoined>>
vars == <<docker, cache, generated, budgets, pc, local, history, unlisted>>

Clients == 1 .. NClients
Objects == Containers \cup Services \cup Tasks \cup Configs
At(i, S) == {o \in S : ClientOf[o] = i}

----------------------------------------------------------------------------
(* What labels and networks select *)

Addresses(o) == {o} \X NetworksOf[o]

\* The label wins over the ingress networks.
IngressAddresses(o, label, ingress) ==
  {o} \X {n \in NetworksOf[o] : IF label # None THEN n = label ELSE n \in ingress}

ContainerSite(c, ingress) == <<c, IngressAddresses(c, LabelledNetwork[c], ingress)>>

TasksOf(s, P) == {t \in Tasks \cap P : ServiceOf[t] = s}

\* getServiceProxyTargets: the tasks, or the service's name.
ServiceSite(s, P, ingress) ==
  <<s, IF ProxyServiceTasks
         THEN UNION {IngressAddresses(t, LabelledNetwork[s], ingress) : t \in TasksOf(s, P)}
         ELSE {<<s, None>>}>>

ConfigSite(k) == <<k, {}>>

Controlled(A) == {a \in A : a[2] \in ControllerNetworks}
ContainerServers(C) == Controlled(UNION {Addresses(c) : c \in C \cap ControlledServers})
ServiceServers(S, P) ==
  Controlled(UNION {UNION {Addresses(t) : t \in TasksOf(s, P)} : s \in S \cap ControlledServers})

----------------------------------------------------------------------------
Init ==
  /\ present \in SUBSET Objects
  /\ joined \in SUBSET (Clients \X Networks)
  /\ swarmActive \in SUBSET Clients
  /\ ingressNetworks = {}
  /\ swarmIsAvailable = {}
  /\ swarmAge = None
  /\ generated = [sites |-> {}, servers |-> {}]
  /\ changes = 0 /\ failures = 0
  /\ pc = [u \in Updates |-> "idle"]
  /\ index = [u \in Updates |-> 1]
  /\ found = [u \in Updates |-> {}]
  /\ sites = [u \in Updates |-> {}]
  /\ servers = [u \in Updates |-> {}]
  /\ steady = [u \in Updates |-> {}]
  /\ seen = [u \in Updates |-> {}]
  /\ steadyJoined = [u \in Updates |-> {}]
  /\ unlisted = [u \in Updates |-> {}]

Changing ==
  /\ changes < MaxChanges
  /\ changes' = changes + 1
  /\ UNCHANGED <<cache, generated, failures, pc, local, unlisted>>

Appear(o) ==
  /\ o \notin present
  /\ present' = present \cup {o}
  /\ seen' = [u \in Updates |-> IF pc[u] = "idle" THEN {} ELSE seen[u] \cup {o}]
  /\ UNCHANGED <<joined, swarmActive, steady, steadyJoined>>
  /\ Changing

Vanish(o) ==
  /\ o \in present
  /\ present' = present \ {o}
  /\ steady' = [u \in Updates |-> steady[u] \ {o}]
  /\ UNCHANGED <<joined, swarmActive, seen, steadyJoined>>
  /\ Changing

Join(i, n) ==
  /\ <<i, n>> \notin joined
  /\ joined' = joined \cup {<<i, n>>}
  /\ UNCHANGED <<present, swarmActive, history>>
  /\ Changing

Leave(i, n) ==
  /\ <<i, n>> \in joined
  /\ joined' = joined \ {<<i, n>>}
  /\ steadyJoined' = [u \in Updates |-> steadyJoined[u] \ {<<i, n>>}]
  /\ UNCHANGED <<present, swarmActive, steady, seen>>
  /\ Changing

ChangeSwarm(i) ==
  /\ swarmActive' = IF i \in swarmActive THEN swarmActive \ {i} ELSE swarmActive \cup {i}
  /\ UNCHANGED <<present, joined, history>>
  /\ Changing

\* Ages beyond the interval are alike.
Tick ==
  /\ swarmAge \in 0 .. CacheInterval
  /\ swarmAge' = swarmAge + 1
  /\ UNCHANGED <<docker, ingressNetworks, swarmIsAvailable, generated, budgets, pc, local,
                 history, unlisted>>

\* The call a step makes succeeds, or fails because Docker does.
Meets(fails) ==
  IF fails THEN failures < MaxFailures /\ failures' = failures + 1 ELSE UNCHANGED failures

----------------------------------------------------------------------------
(* GenerateCaddyfile, in update u *)

Begin(u) ==
  /\ pc[u] = "idle"
  /\ pc' = [pc EXCEPT ![u] = "ingress"]
  /\ steady' = [steady EXCEPT ![u] = present]
  /\ seen' = [seen EXCEPT ![u] = present]
  /\ steadyJoined' = [steadyJoined EXCEPT ![u] = joined]
  /\ UNCHANGED <<docker, cache, generated, budgets, local, unlisted>>

\* Mutant of Advance: the loop goes past the last client.
PassesLast(u, again, next) ==
  IF index[u] <= NClients
    THEN index' = [index EXCEPT ![u] = @ + 1] /\ pc' = [pc EXCEPT ![u] = again]
    ELSE index' = [index EXCEPT ![u] = 1] /\ pc' = [pc EXCEPT ![u] = next]

\* A loop over the clients: again with the next one, or on.
Advance(u, again, next) ==
  IF index[u] < NClients
    THEN index' = [index EXCEPT ![u] = @ + 1] /\ pc' = [pc EXCEPT ![u] = again]
    ELSE index' = [index EXCEPT ![u] = 1] /\ pc' = [pc EXCEPT ![u] = next]

\* Mutant of AfterIngressError: the map is assigned whether or not it is whole.
AssignAnyway == "assign"

AfterIngressError == "swarm"

\* getIngressNetworks.  Without IngressNetworks, a client of another daemon
\* than the program's own does not know its container.
ReadIngress(u) ==
  /\ pc[u] = "ingress"
  /\ \/ /\ ManualNetworks \/ index[u] = OwnClient
        /\ found' = [found EXCEPT ![u] =
             @ \cup {n \in Networks \ RoutingMesh : <<index[u], n>> \in joined}]
        /\ Advance(u, "ingress", "assign")
        /\ Meets(FALSE)
     \/ /\ Meets(ManualNetworks \/ index[u] = OwnClient)
        /\ index' = [index EXCEPT ![u] = 1]
        /\ pc' = [pc EXCEPT ![u] = AfterIngressError]
        /\ UNCHANGED found
  /\ UNCHANGED <<docker, cache, generated, changes, sites, servers, history, unlisted>>

AssignIngress(u) ==
  /\ pc[u] = "assign"
  /\ ingressNetworks' = found[u]
  /\ pc' = [pc EXCEPT ![u] = "swarm"]
  /\ UNCHANGED <<docker, swarmIsAvailable, swarmAge, generated, budgets, local, history, unlisted>>

\* Mutant of Expired: what was found out once is believed for ever.
NeverAgain == swarmAge = None

\* The cached availability is too old, or was never set.
Expired == swarmAge = None \/ swarmAge > CacheInterval

\* Reading the time while another generation writes it may give any answer.
CheckAge(u) ==
  /\ pc[u] = "swarm"
  /\ LET racing == \E v \in Updates \ {u} : pc[v] = "stamp"
     IN  pc' \in {[pc EXCEPT ![u] = p] :
                    p \in (IF Expired \/ racing THEN {"info"} ELSE {})
                            \cup (IF ~Expired \/ racing THEN {"configs"} ELSE {})}
  /\ UNCHANGED <<docker, cache, generated, budgets, local, history, unlisted>>

\* checkSwarmAvailability.
CheckSwarm(u) ==
  /\ pc[u] = "info"
  /\ \E fails \in BOOLEAN :
       /\ Meets(fails)
       /\ swarmIsAvailable' =
            IF index[u] \in swarmActive /\ ~fails
              THEN swarmIsAvailable \cup {index[u]} ELSE swarmIsAvailable \ {index[u]}
  /\ Advance(u, "info", "stamp")
  /\ UNCHANGED <<docker, ingressNetworks, swarmAge, generated, changes, found, sites, servers,
                 history, unlisted>>

Stamp(u) ==
  /\ pc[u] = "stamp"
  /\ swarmAge' = 0
  /\ pc' = [pc EXCEPT ![u] = "configs"]
  /\ UNCHANGED <<docker, ingressNetworks, swarmIsAvailable, generated, budgets, local, history,
                 unlisted>>

\* A client is asked about its swarm when it was in one at the last check; it
\* answers while it is in one.
AskedAboutSwarm(u) == index[u] \in swarmIsAvailable

ReadConfigs(u) ==
  /\ pc[u] = "configs"
  /\ IF AskedAboutSwarm(u) /\ index[u] \in swarmActive
       THEN \E lost \in SUBSET At(index[u], Configs \cap present) :
              /\ Meets(lost # {})
              /\ sites' = [sites EXCEPT ![u] = @ \cup
                   {ConfigSite(k) : k \in At(index[u], Configs \cap present)
                                            \ (lost \cup BrokenLabels)}]
       ELSE UNCHANGED <<sites, failures>>
  /\ pc' = [pc EXCEPT ![u] = "containers"]
  /\ UNCHANGED <<docker, cache, generated, changes, index, found, servers, history, unlisted>>

\* Mutant of AfterContainers: a failed ContainerList ends the generation.
EndsOnError(fails) == IF fails THEN "done" ELSE "services"

AfterContainers(fails) == "services"

ReadContainers(u) ==
  /\ pc[u] = "containers"
  /\ \E fails \in BOOLEAN :
       LET listed == IF fails THEN {} ELSE At(index[u], Containers \cap present)
       IN  /\ Meets(fails)
           /\ sites' = [sites EXCEPT ![u] = @ \cup
                {ContainerSite(c, ingressNetworks) : c \in listed \ BrokenLabels}]
           /\ servers' = [servers EXCEPT ![u] = @ \cup ContainerServers(listed)]
           /\ unlisted' = [unlisted EXCEPT ![u] = IF fails THEN @ \cup {index[u]} ELSE @]
           /\ pc' = [pc EXCEPT ![u] = AfterContainers(fails)]
  /\ UNCHANGED <<docker, cache, generated, changes, index, found, history>>

\* getServiceTasksIps asks every client for tasks; one that is in no swarm
\* makes it fail.
TasksCanBeListed == swarmActive = Clients

\* The services of S whose tasks could not be listed, by one call for each.
LostTo(S, lost) == IF TasksCanBeListed THEN lost \subseteq S ELSE lost = S

\* A service without its tasks loses its servers and, when it is proxied by
\* tasks, its site.
ReadServices(u) ==
  /\ pc[u] = "services"
  /\ IF AskedAboutSwarm(u) /\ index[u] \in swarmActive
       THEN \E fails \in BOOLEAN :
              LET listed == IF fails THEN {} ELSE At(index[u], Services \cap present)
              IN  \E lostSites \in SUBSET listed : \E lostServers \in SUBSET listed :
                    /\ LostTo(IF ProxyServiceTasks THEN listed ELSE {}, lostSites)
                    /\ LostTo(listed, lostServers)
                    /\ Meets(fails \/ (TasksCanBeListed /\ lostSites \cup lostServers # {}))
                    /\ sites' = [sites EXCEPT ![u] = @ \cup
                         {ServiceSite(s, present, ingressNetworks) :
                            s \in listed \ (lostSites \cup BrokenLabels)}]
                    /\ servers' = [servers EXCEPT ![u] = @ \cup
                         ServiceServers(listed \ lostServers, present)]
       ELSE UNCHANGED <<sites, servers, failures>>
  /\ Advance(u, "configs", "done")
  /\ UNCHANGED <<docker, cache, generated, changes, found, history, unlisted>>

\* Mutant of Emptied: the blocks of one generation stay for the next.
NotEmptied(u) == sites[u]

\* Every generation starts with a container of its own.
Emptied(u) == {}

Emit(u) ==
  /\ pc[u] = "done"
  /\ generated' = [sites |-> sites[u], servers |-> servers[u]]
  /\ pc' = [pc EXCEPT ![u] = "idle"]
  /\ index' = [index EXCEPT ![u] = 1]
  /\ found' = [found EXCEPT ![u] = {}]
  /\ sites' = [sites EXCEPT ![u] = Emptied(u)]
  /\ servers' = [servers EXCEPT ![u] = {}]
  /\ steady' = [steady EXCEPT ![u] = {}]
  /\ seen' = [seen EXCEPT ![u] = {}]
  /\ steadyJoined' = [steadyJoined EXCEPT ![u] = {}]
  /\ unlisted' = [unlisted EXCEPT ![u] = {}]
  /\ UNCHANGED <<docker, cache, budgets>>

GenerateStep(u) ==
  \/ ReadIngress(u) \/ AssignIngress(u)
  \/ CheckAge(u) \/ CheckSwarm(u) \/ Stamp(u)
  \/ ReadConfigs(u) \/ ReadContainers(u) \/ ReadServices(u)
  \/ Emit(u)

Next ==
  \/ \E o \in Objects : Appear(o) \/ Vanish(o)
  \/ \E i \in Clients, n \in Networks : Join(i, n) \/ Leave(i, n)
  \/ \E i \in Clients : ChangeSwarm(i)
  \/ Tick
  \/ \E u \in Updates : Begin(u) \/ GenerateStep(u)

Spec == Init /\ [][Next]_vars

\* Updates keep coming (loader.go:258), Docker answers every call, time passes.
Fairness ==
  /\ WF_vars(Tick)
  /\ \A u \in Updates : WF_vars(Begin(u)) /\ WF_vars(GenerateStep(u))

FairSpec == Spec /\ Fairness

----------------------------------------------------------------------------
(* Properties *)

Phases == {"idle", "ingress", "assign", "swarm", "info", "stamp", "configs", "containers",
           "services", "done"}
AddressSet == Objects \X (Networks \cup {None})

TypeOK ==
  /\ present \subseteq Objects
  /\ joined \subseteq Clients \X Networks
  /\ swarmActive \subseteq Clients
  /\ ingressNetworks \subseteq Networks
  /\ swarmIsAvailable \subseteq Clients
  /\ swarmAge \in (0 .. CacheInterval + 1) \cup {None}
  /\ changes \in Nat /\ failures \in Nat
  /\ pc \in [Updates -> Phases]
  /\ index \in [Updates -> Clients]
  /\ found \in [Updates -> SUBSET Networks]
  /\ sites \in [Updates -> SUBSET (Objects \X SUBSET AddressSet)]
  /\ servers \in [Updates -> SUBSET AddressSet]
  /\ steady \in [Updates -> SUBSET present]
  /\ seen \in [Updates -> SUBSET Objects]
  /\ steadyJoined \in [Updates -> SUBSET joined]
  /\ unlisted \in [Updates -> SUBSET Clients]

\* Objects named by a result: those with a site, and those with an address in it.
Named(S, A) ==
  {x[1] : x \in S} \cup {a[1] : a \in A \cup UNION {x[2] : x \in S}}

\* A generation never names an object that did not exist while it ran, also
\* when a cached or an overlapping generation's answer is used.
NoGhosts == \A u \in Updates : Named(sites[u], servers[u]) \subseteq seen[u]

\* A container that existed during the whole generation has its site, unless
\* its own client could not list it: no other call that fails takes it away.
SteadyContainersAreServed ==
  \A u \in Updates : pc[u] = "done" =>
    \A c \in (Containers \cap steady[u]) \ BrokenLabels :
      ClientOf[c] \notin unlisted[u] => c \in {x[1] : x \in sites[u]}

\* An ingress network that is known is only forgotten by a generation during
\* which no client was joined to it all the time: not by a call that fails.
KnownNetworksStay ==
  [][\A n \in ingressNetworks \ ingressNetworks' :
       \E u \in Updates : pc[u] = "assign" /\ \A i \in Clients : <<i, n>> \notin steadyJoined[u]]_vars

\* What the state of Docker asks for.
Wanted ==
  LET ingress == {n \in Networks \ RoutingMesh : \E i \in Clients : <<i, n>> \in joined}
      inSwarm(S) == {o \in S \cap present : ClientOf[o] \in swarmActive}
      containers == Containers \cap present
  IN  [sites   |-> {ContainerSite(c, ingress) : c \in containers \ BrokenLabels}
                     \cup {ServiceSite(s, present, ingress) : s \in inSwarm(Services) \ BrokenLabels}
                     \cup {ConfigSite(k) : k \in inSwarm(Configs) \ BrokenLabels},
       servers |-> ContainerServers(containers) \cup ServiceServers(inSwarm(Services), present)]

\* When Docker stops changing and failing, generations come to yield what its
\* state asks for, if its clients agree on whether they are in a swarm.
Converges == <>[](swarmActive \in {{}, Clients} => generated = Wanted)

----------------------------------------------------------------------------
ASSUME GeneratorAssumption ==
  /\ NClients \in Nat \ {0} /\ OwnClient \in Clients
  /\ ClientOf \in [Objects -> Clients]
  /\ ServiceOf \in [Tasks -> Services]
  /\ NetworksOf \in [Containers \cup Tasks -> SUBSET Networks]
  /\ LabelledNetwork \in [Containers \cup Services -> Networks \cup {None}]
  /\ RoutingMesh \subseteq Networks /\ ControllerNetworks \subseteq Networks
  /\ None \notin Networks /\ None \notin Nat
  /\ ManualNetworks \in BOOLEAN /\ ProxyServiceTasks \in BOOLEAN
  /\ CacheInterval \in Nat /\ MaxChanges \in Nat /\ MaxFailures \in Nat
=============================================================================
