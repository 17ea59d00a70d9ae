------------------------------ MODULE Gateway ------------------------------
(***************************************************************************)
(* The OPNsense side of homelab-manager: loader_gateway.go and             *)
(* gateway/*.go.  A reconcile pass (reconcileGateway) lists the running    *)
(* containers of every Docker host, deletes the DNS overrides and the NAT  *)
(* rules of containers it no longer sees, creates those of containers it   *)
(* tracks no rule for, and publishes what it changed.  The in-memory       *)
(* tracking (gateway.State) is lost with the process and read back from    *)
(* the router when the process starts (ReconcileOnStartup).                *)
(*                                                                         *)
(* A pass is the tail of an update goroutine, so nothing keeps two passes  *)
(* apart: Passes is the set of passes that may overlap.  Docker and the    *)
(* router are the environment.  One HTTP call is one step; Savepoint is    *)
(* taken in the step of the NAT call it precedes and AddDNS or AddNAT in   *)
(* the step of the call it follows, because nothing else can tell them     *)
(* apart (each pass owns its revision, State has a lock of its own).       *)
(***************************************************************************)
EXTENDS Integers, FiniteSets

CONSTANTS
  Passes,             \* reconcile passes that may be in progress together
  Hosts,              \* the Docker daemons of dockerLoader.dockerClients
  Containers,         \* container IDs
  HostOf,             \* the daemon a container runs on
  Sites,              \* site addresses in the label "caddy" of a container
  WildcardSites,      \* addresses that contain "*"
  UndottedSites,      \* addresses splitDomain rejects
  DNSOptOut,          \* containers labelled gateway.dns=false
  Forwards,           \* gateway.portforward.N entries of a container
  IncompleteForwards, \* entries without protocol, src_port or dst_port
  CaddyIPSet,         \* CADDY_IP is in the environment
  HostsWithIP,        \* daemons whose client knows its HostIP
  ForeignRows,        \* rules on the router that somebody else wrote
  FirstUUID,          \* UUIDs are numbered; foreign ones lie below FirstUUID
  NoCid,              \* the container ID of a foreign rule
  Faults,             \* the calls that may fail, see FaultKinds
  MaxChanges, MaxFailures, MaxCrashes  \* budgets of the environment

VARIABLES
  up,         \* the process runs and has finished ReconcileOnStartup
  running,    \* containers Docker reports as running
  rows,       \* rules in the router's configuration
  live,       \* rules the router's services were last (re)loaded with
  nextUUID,   \* UUID the router gives to the next rule
  tracked,    \* State.dnsUUIDs and State.natUUIDs
  changes, failures, crashes,  \* budgets used up
  (* the local variables of each reconcile pass *)
  pc,         \* idle -> list -> prune -> scan -> publish -> idle
  toList,     \* daemons still to be listed
  current,    \* containers listed so far
  steady,     \* history: containers running ever since the pass began
  todo,       \* containers the loop has yet to visit
  cid, kind,  \* the container and the map it visited last
  dels,       \* UUIDs taken out of State, to be deleted
  adds,       \* targets to be created
  dnsChanged, \* dnsChanged
  natRevision \* natRevision # ""

budgets == <<changes, failures, crashes>>
router == <<rows, live, nextUUID>>
listing == <<toList, current, steady>>
loop == <<todo, cid, kind, dels, adds>>
pending == <<dnsChanged, natRevision>>
vars == <<up, running, router, tracked, budgets, pc, listing, loop, pending>>

----------------------------------------------------------------------------
Kinds == {"dns", "nat"}

FaultKinds ==
  { "list",        \* ContainerList returns an error
    "add",         \* the rule is not added
    "addAck",      \* the rule is added but the answer is lost
    "del",         \* the rule is not deleted
    "delAck",      \* the rule is deleted but the answer is lost
    "delRefused",  \* the router answers, but that the rule is not deleted
    "savepoint",   \* Savepoint returns an error or no revision
    "publish",     \* ReconfigureUnbound or Apply returns an error
    "search" }     \* a search in ReconcileOnStartup returns an error

Owned(r) == r.cid # NoCid                    \* OwnedByUs
RowsOf(k, R) == {r \in R : r.kind = k}

\* Mutants of OwnedUUIDs: the maps are not filled again; every rule is taken
\* for the container's.
ForgottenUUIDs(k, c) == {}
EveryUUID(k, c) == {r.uuid : r \in RowsOf(k, rows)}

\* What ReconcileOnStartup loads for container c.
OwnedUUIDs(k, c) == {r.uuid : r \in {x \in rows : x.kind = k /\ x.cid = c}}

\* extractDNSTargets and the splitDomain test of its caller; buildNATRules.
DNSTargets(c) ==
  IF c \in DNSOptOut THEN {} ELSE Sites[c] \ (WildcardSites \cup UndottedSites)
NATTargets(c) == Forwards[c] \ IncompleteForwards

\* What a pass tries to create for a running container, given the addresses
\* it knows: DNS overrides point at CADDY_IP, NAT rules at the container's host.
Targets(k, c) ==
  IF k = "dns"
    THEN IF CaddyIPSet THEN DNSTargets(c) ELSE {}
    ELSE IF CaddyIPSet \/ HostOf[c] \in HostsWithIP THEN NATTargets(c) ELSE {}

AllTargets == UNION {Sites[c] \cup Forwards[c] : c \in Containers}

----------------------------------------------------------------------------
Init ==
  /\ up = FALSE
  /\ running = {}
  /\ rows = ForeignRows
  /\ live = ForeignRows
  /\ nextUUID = FirstUUID
  /\ tracked = [k \in Kinds |-> [c \in Containers |-> {}]]
  /\ pc = [p \in Passes |-> "idle"]
  /\ toList = [p \in Passes |-> {}]
  /\ current = [p \in Passes |-> {}]
  /\ steady = [p \in Passes |-> {}]
  /\ todo = [p \in Passes |-> {}]
  /\ cid = [p \in Passes |-> NoCid]
  /\ kind = [p \in Passes |-> "nat"]
  /\ dels = [p \in Passes |-> {}]
  /\ adds = [p \in Passes |-> {}]
  /\ dnsChanged = [p \in Passes |-> FALSE]
  /\ natRevision = [p \in Passes |-> FALSE]
  /\ changes = 0 /\ failures = 0 /\ crashes = 0

\* Docker starts or stops a container, whatever the program is doing.
StartContainer(c) ==
  /\ changes < MaxChanges
  /\ c \notin running
  /\ running' = running \cup {c}
  /\ changes' = changes + 1
  /\ UNCHANGED <<up, router, tracked, failures, crashes, pc, listing, loop, pending>>

StopContainer(c) ==
  /\ changes < MaxChanges
  /\ c \in running
  /\ running' = running \ {c}
  /\ steady' = [p \in Passes |-> steady[p] \ {c}]
  /\ changes' = changes + 1
  /\ UNCHANGED <<up, router, tracked, failures, crashes, pc, toList, current, loop, pending>>

\* One step meets the faults F, if the environment may still cause them.
Meets(F) ==
  /\ F \subseteq Faults
  /\ IF F = {} THEN UNCHANGED failures
               ELSE failures < MaxFailures /\ failures' = failures + 1

\* ReconcileOnStartup, called by Start before the first update.  A failed
\* search ends it; Start only logs the error.
Startup ==
  /\ ~up
  /\ up' = TRUE
  /\ \E loaded \in {{"dns", "nat"}, {"dns"}, {}} :
       /\ Meets(IF loaded = Kinds THEN {} ELSE {"search"})
       /\ tracked' = [k \in Kinds |-> [c \in Containers |->
                        IF k \in loaded THEN OwnedUUIDs(k, c) ELSE {}]]
  /\ UNCHANGED <<running, router, changes, crashes, pc, listing, loop, pending>>

\* The process dies: everything in memory is gone, the router keeps its rules.
Crash ==
  /\ up
  /\ crashes < MaxCrashes
  /\ up' = FALSE
  /\ tracked' = [k \in Kinds |-> [c \in Containers |-> {}]]
  /\ pc' = [p \in Passes |-> "idle"]
  /\ toList' = [p \in Passes |-> {}]
  /\ current' = [p \in Passes |-> {}]
  /\ steady' = [p \in Passes |-> {}]
  /\ todo' = [p \in Passes |-> {}]
  /\ cid' = [p \in Passes |-> NoCid]
  /\ kind' = [p \in Passes |-> "nat"]
  /\ dels' = [p \in Passes |-> {}]
  /\ adds' = [p \in Passes |-> {}]
  /\ dnsChanged' = [p \in Passes |-> FALSE]
  /\ natRevision' = [p \in Passes |-> FALSE]
  /\ crashes' = crashes + 1
  /\ UNCHANGED <<running, router, changes, failures>>

----------------------------------------------------------------------------
(* reconcileGateway, for pass p *)

Begin(p) ==
  /\ up
  /\ pc[p] = "idle"
  /\ pc' = [pc EXCEPT ![p] = "list"]
  /\ toList' = [toList EXCEPT ![p] = Hosts]
  /\ current' = [current EXCEPT ![p] = {}]
  /\ steady' = [steady EXCEPT ![p] = running]
  /\ UNCHANGED <<up, running, router, tracked, budgets, loop, pending>>

\* ContainerList of one daemon; a daemon that fails contributes nothing.
List(p, h) ==
  /\ pc[p] = "list"
  /\ h \in toList[p]
  /\ toList' = [toList EXCEPT ![p] = @ \ {h}]
  /\ \E F \in SUBSET {"list"} :
       /\ Meets(F)
       /\ current' = [current EXCEPT ![p] =
            @ \cup (IF F = {} THEN {c \in running : HostOf[c] = h} ELSE {})]
  /\ UNCHANGED <<up, running, router, tracked, changes, crashes, pc, steady, loop, pending>>

\* Mutant of Stale: listed containers are not excepted.
StaleAnyway(p) == {c \in Containers : \E k \in Kinds : tracked[k][c] # {}}

\* KnownContainerIDs, less the containers that were listed.
Stale(p) == {c \in Containers : \E k \in Kinds : tracked[k][c] # {}} \ current[p]

Known(p) ==
  /\ pc[p] = "list"
  /\ toList[p] = {}
  /\ pc' = [pc EXCEPT ![p] = "prune"]
  /\ todo' = [todo EXCEPT ![p] = Stale(p)]
  /\ UNCHANGED <<up, running, router, tracked, budgets, listing, cid, kind, dels, adds, pending>>

\* Both loops visit a container's DNS overrides, then its NAT rules, then
\* another container.
IsNext(p, k, c) ==
  IF kind[p] = "dns" THEN k = "nat" /\ c = cid[p] ELSE k = "dns" /\ c \in todo[p]

Visit(p, k, c) ==
  /\ dels[p] = {} /\ adds[p] = {}
  /\ IsNext(p, k, c)
  /\ kind' = [kind EXCEPT ![p] = k]
  /\ cid' = [cid EXCEPT ![p] = c]
  /\ todo' = [todo EXCEPT ![p] = @ \ {c}]

\* Mutant of LoopDone: the loop ends with calls for its last container left.
LoopCutShort(p) == kind[p] = "nat" /\ todo[p] = {}

LoopDone(p) == kind[p] = "nat" /\ todo[p] = {} /\ dels[p] = {} /\ adds[p] = {}

\* Mutants of Untracked: the UUIDs stay in State while they are deleted; the
\* container leaves both maps at once.
StillTracked(k, c) == tracked
UntrackedTwice(k, c) == [x \in Kinds |-> [tracked[x] EXCEPT ![c] = {}]]

\* RemoveDNS and RemoveNAT: the UUIDs leave State before they are deleted.
Untracked(k, c) == [tracked EXCEPT ![k][c] = {}]

\* AddDNS and AddNAT.
TrackedWith(k, c, u) == [tracked EXCEPT ![k][c] = tracked[k][c] \cup {u}]

RemoveTracked(p, k, c) ==
  /\ pc[p] = "prune"
  /\ Visit(p, k, c)
  /\ dels' = [dels EXCEPT ![p] = tracked[k][c]]
  /\ tracked' = Untracked(k, c)
  /\ UNCHANGED <<up, running, router, budgets, pc, listing, adds, pending>>

\* Mutant of Revised: a savepoint is only taken for new rules.
RevisedByAdd(p, F) ==
  natRevision[p] \/ (pc[p] = "scan" /\ kind[p] = "nat" /\ "savepoint" \notin F)

\* Savepoint, when the call is about NAT and the pass has no revision yet.
Revised(p, F) == natRevision[p] \/ (kind[p] = "nat" /\ "savepoint" \notin F)

\* DelHostOverride and DelNATRule.  An error is only logged, and the result that
\* an answer carries is not looked at: a refused deletion passes for one.
DeleteRule(p, u) ==
  /\ pc[p] = "prune"
  /\ u \in dels[p]
  /\ dels' = [dels EXCEPT ![p] = @ \ {u}]
  /\ \E F \in SUBSET {"savepoint", "del", "delAck", "delRefused"} :
       /\ Meets(F)
       /\ rows' = IF F \cap {"del", "delRefused"} # {} THEN rows
                  ELSE {r \in rows : ~(r.kind = kind[p] /\ r.uuid = u)}
       /\ dnsChanged' = [dnsChanged EXCEPT ![p] =
            @ \/ (kind[p] = "dns" /\ F \cap {"del", "delAck"} = {})]
       /\ natRevision' = [natRevision EXCEPT ![p] = Revised(p, F)]
  /\ UNCHANGED <<up, running, live, nextUUID, tracked, changes, crashes, pc, listing,
                 todo, cid, kind, adds>>

PruneDone(p) ==
  /\ pc[p] = "prune"
  /\ LoopDone(p)
  /\ pc' = [pc EXCEPT ![p] = "scan"]
  /\ todo' = [todo EXCEPT ![p] = current[p]]
  /\ UNCHANGED <<up, running, router, tracked, budgets, listing, cid, kind, dels, adds, pending>>

\* Mutants of Missing: the DNS map is checked for both kinds; labels are used
\* unfiltered.
MissingByDNS(k, c) == IF tracked["dns"][c] # {} THEN {} ELSE Targets(k, c)
MissingRaw(k, c) == IF tracked[k][c] # {} THEN {} ELSE Sites[c] \cup Forwards[c]

\* HasDNS and HasNAT: a container with any tracked rule is left alone.
Missing(k, c) == IF tracked[k][c] # {} THEN {} ELSE Targets(k, c)

CheckTracked(p, k, c) ==
  /\ pc[p] = "scan"
  /\ Visit(p, k, c)
  /\ adds' = [adds EXCEPT ![p] = Missing(k, c)]
  /\ UNCHANGED <<up, running, router, tracked, budgets, pc, listing, dels, pending>>

\* The router stores the request under a fresh UUID; its description names the
\* container (MakeDescription).
NewRow(p, t) == [kind |-> kind[p], uuid |-> nextUUID, cid |-> cid[p], target |-> t]

\* AddHostOverride and AddNATRule, then AddDNS or AddNAT; after an error the
\* loop goes on with the next target.
AddRule(p, t) ==
  /\ pc[p] = "scan"
  /\ t \in adds[p]
  /\ adds' = [adds EXCEPT ![p] = @ \ {t}]
  /\ \E F \in SUBSET {"savepoint", "add", "addAck"} :
       /\ Meets(F)
       /\ IF "add" \in F
            THEN UNCHANGED <<rows, nextUUID>>
            ELSE /\ rows' = rows \cup {NewRow(p, t)}
                 /\ nextUUID' = nextUUID + 1
       /\ IF F \cap {"add", "addAck"} # {}
            THEN UNCHANGED <<tracked, dnsChanged>>
            ELSE /\ tracked' = TrackedWith(kind[p], cid[p], nextUUID)
                 /\ dnsChanged' = [dnsChanged EXCEPT ![p] = @ \/ kind[p] = "dns"]
       /\ natRevision' = [natRevision EXCEPT ![p] = Revised(p, F)]
  /\ UNCHANGED <<up, running, live, changes, crashes, pc, listing, todo, cid, kind, dels>>

ScanDone(p) ==
  /\ pc[p] = "scan"
  /\ LoopDone(p)
  /\ pc' = [pc EXCEPT ![p] = "publish"]
  /\ UNCHANGED <<up, running, router, tracked, budgets, listing, loop, pending>>

\* A service of the router reloads its rules of kind k, unless the call fails.
Publish(k) ==
  \E F \in SUBSET {"publish"} :
    /\ Meets(F)
    /\ live' = IF F = {} THEN RowsOf(k, rows) \cup {r \in live : r.kind # k} ELSE live

ReconfigureUnbound(p) ==
  /\ pc[p] = "publish"
  /\ dnsChanged[p]
  /\ Publish("dns")
  /\ dnsChanged' = [dnsChanged EXCEPT ![p] = FALSE]
  /\ UNCHANGED <<up, running, rows, nextUUID, tracked, changes, crashes, pc, listing, loop,
                 natRevision>>

\* The last step, with or without a call to Apply; the locals are gone.
Apply(p) ==
  /\ pc[p] = "publish"
  /\ ~dnsChanged[p]
  /\ IF natRevision[p] THEN Publish("nat") ELSE UNCHANGED <<live, failures>>
  /\ pc' = [pc EXCEPT ![p] = "idle"]
  /\ current' = [current EXCEPT ![p] = {}]
  /\ steady' = [steady EXCEPT ![p] = {}]
  /\ cid' = [cid EXCEPT ![p] = NoCid]
  /\ natRevision' = [natRevision EXCEPT ![p] = FALSE]
  /\ UNCHANGED <<up, running, rows, nextUUID, tracked, changes, crashes, toList, todo, kind,
                 dels, adds, dnsChanged>>

PassStep(p) ==
  \/ \E h \in Hosts : List(p, h)
  \/ Known(p)
  \/ \E k \in Kinds, c \in Containers : RemoveTracked(p, k, c)
  \/ \E u \in dels[p] : DeleteRule(p, u)
  \/ PruneDone(p)
  \/ \E k \in Kinds, c \in Containers : CheckTracked(p, k, c)
  \/ \E t \in adds[p] : AddRule(p, t)
  \/ ScanDone(p)
  \/ ReconfigureUnbound(p)
  \/ Apply(p)

Next ==
  \/ \E c \in Containers : StartContainer(c) \/ StopContainer(c)
  \/ Startup
  \/ Crash
  \/ \E p \in Passes : Begin(p) \/ PassStep(p)

Spec == Init /\ [][Next]_vars

\* The polling timer starts passes for ever (loader.go:258), Docker and the
\* router answer every call, and a process that died is started again.
Fairness ==
  /\ WF_vars(Startup)
  /\ \A p \in Passes : WF_vars(Begin(p)) /\ WF_vars(PassStep(p))

FairSpec == Spec /\ Fairness

----------------------------------------------------------------------------
(* Properties *)

\* Types; a pass only holds calls to make while its program counter says so,
\* and the cursor of the loops then names a container.
TypeOK ==
  /\ up \in BOOLEAN
  /\ running \in SUBSET Containers
  /\ \A r \in rows : r.kind \in Kinds /\ r.uuid \in Nat /\ r.cid \in Containers \cup {NoCid}
  /\ nextUUID \in Nat
  /\ tracked \in [Kinds -> [Containers -> SUBSET Nat]]
  /\ changes \in Nat /\ failures \in Nat /\ crashes \in Nat
  /\ pc \in [Passes -> {"idle", "list", "prune", "scan", "publish"}]
  /\ toList \in [Passes -> SUBSET Hosts]
  /\ current \in [Passes -> SUBSET Containers]
  /\ steady \in [Passes -> SUBSET Containers]
  /\ todo \in [Passes -> SUBSET Containers]
  /\ cid \in [Passes -> Containers \cup {NoCid}]
  /\ kind \in [Passes -> Kinds]
  /\ dels \in [Passes -> SUBSET Nat]
  /\ adds \in [Passes -> SUBSET AllTargets]
  /\ dnsChanged \in [Passes -> BOOLEAN]
  /\ natRevision \in [Passes -> BOOLEAN]
  /\ \A p \in Passes :
       /\ dels[p] # {} => pc[p] = "prune" /\ cid[p] \in Containers
       /\ adds[p] # {} => pc[p] = "scan" /\ cid[p] \in Containers
       /\ kind[p] = "dns" => pc[p] \in {"prune", "scan"} /\ cid[p] \in Containers

\* The rules somebody else keeps on the router stay as they are, whichever
\* calls fail, whenever the process dies and however passes overlap.
ForeignRulesUntouched == {r \in rows : ~Owned(r)} = ForeignRows

\* A UUID of kind k on record for container c, in State or in the hands of a
\* pass that is deleting the container's rules.
OnRecord(k, c) ==
  tracked[k][c] \cup
    UNION {dels[p] : p \in {q \in Passes : kind[q] = k /\ cid[q] = c}}

\* What is on record for a container names that container's rules only: no
\* pass ever deletes a rule of another container or of another owner.
RecordsAreOwn ==
  \A k \in Kinds, c \in Containers : \A r \in rows :
    r.kind = k /\ r.uuid \in OnRecord(k, c) => r.cid = c

\* No rule is on record twice, so no pass deletes a rule that another pass is
\* deleting or that State still promises to track.
RecordedOnce ==
  /\ \A k \in Kinds : \A c, d \in Containers : c # d => tracked[k][c] \cap tracked[k][d] = {}
  /\ \A p \in Passes : \A c \in Containers : dels[p] \cap tracked[kind[p]][c] = {}
  /\ \A p, q \in Passes :
       p # q /\ kind[p] = kind[q] => dels[p] \cap dels[q] = {}

\* State tracks which resources homelab-manager owns (state.go:12): every rule
\* it wrote is on record while the process runs, so that it can be removed.
Accounted ==
  up => \A r \in rows : Owned(r) => r.uuid \in OnRecord(r.kind, r.cid)

\* The rules homelab-manager wrote and no longer knows of.
Unrecorded == {r \in rows : Owned(r) /\ r.uuid \notin OnRecord(r.kind, r.cid)}

\* A call that fails costs the record of one rule at most: losses do not spread to
\* the other rules of the container, the other kind or an overlapping pass, and a
\* restart makes up for them.
LossesAreFailures == up => Cardinality(Unrecorded) <= failures

\* Whatever a service of the router has not loaded yet, some pass still has to
\* publish: changes made by a pass are never left pending.
PendingIsPublished ==
  \A k \in Kinds :
    RowsOf(k, rows) # RowsOf(k, live) =>
      \E p \in Passes : IF k = "dns" THEN dnsChanged[p] ELSE natRevision[p]

\* A container that has been running since the pass began keeps its rules.
SteadyContainersKeepRules ==
  [][\A r \in rows \ rows' :
       \E p \in Passes : r.uuid \in dels[p] /\ r.cid \notin steady[p]]_vars

\* What the program's rules of kind k in R do for containers, and what the
\* containers C ask for.
Provided(k, R) == {<<r.cid, r.target>> : r \in {x \in R : x.kind = k /\ Owned(x)}}
Asked(k, C) == UNION {{c} \X Targets(k, c) : c \in C}

\* The rules in effect are those of the running containers, each of them.
InEffect(k) == Provided(k, live) = Asked(k, running)

\* When containers stop changing, the rules in effect become and stay theirs.
Converges == <>[](\A k \in Kinds : InEffect(k))

\* When containers stop changing, no rule of a stopped container remains but for
\* those a failing call took off the record.
StoppedAreCleaned ==
  <>[](Cardinality({r \in rows : Owned(r) /\ r.cid \notin running}) <= failures)

\* Every step is one the ledger allows: see RuleLedger.
Ledger == INSTANCE RuleLedger WITH
            Wanted <- [k \in Kinds |-> [c \in Containers |-> Targets(k, c)]],
            Foreign <- ForeignRows
ImplementsLedger == Ledger!Spec

----------------------------------------------------------------------------
(* Assumptions on the constants *)

ASSUME ContainersAssumption ==
  /\ NoCid \notin Containers
  /\ HostOf \in [Containers -> Hosts]
  /\ HostsWithIP \subseteq Hosts
  /\ DOMAIN Sites = Containers /\ DOMAIN Forwards = Containers
  /\ CaddyIPSet \in BOOLEAN

ASSUME ForeignAssumption ==
  /\ FirstUUID \in Nat
  /\ \A r \in ForeignRows : r.kind \in Kinds /\ r.uuid \in 0 .. FirstUUID - 1 /\ r.cid = NoCid

ASSUME BoundsAssumption ==
  /\ Faults \subseteq FaultKinds
  /\ MaxChanges \in Nat /\ MaxFailures \in Nat /\ MaxCrashes \in Nat
=============================================================================
