------------------------- MODULE GatewayPassProofs -------------------------
(***************************************************************************)
(* What the passes of Gateway achieve however they overlap, as long as     *)
(* their calls do, for every value of the constants: containers that keep  *)
(* running keep their rules, changes are published, no rule is created     *)
(* twice, and a pass puts into effect what it listed.  Each theorem names  *)
(* the failures it excludes.                                               *)
(***************************************************************************)
EXTENDS GatewayHistory, GatewayProofs

----------------------------------------------------------------------------
(* Containers that keep running *)

\* Docker answers every ContainerList.
DaemonsAnswer == "list" \notin Faults

\* What keeps pass p away from a container that has been running since it began:
\* the container is listed, so it is not stale, so the loop does not visit it.
SteadyAt(p) ==
  /\ steady[p] \subseteq running
  /\ pc[p] = "list" => \A c \in steady[p] : HostOf[c] \in toList[p] \/ c \in current[p]
  /\ pc[p] = "prune" => todo[p] \cap steady[p] = {}
  /\ dels[p] # {} \/ (pc[p] = "prune" /\ kind[p] = "dns") => cid[p] \notin steady[p]

SteadyListed == \A p \in Passes : SteadyAt(p)

\* A pass that a step does not concern, unless a container stops.
LEMMA OtherPass ==
  ASSUME NEW q \in Passes, SteadyAt(q),
         steady'[q] \subseteq steady[q], steady'[q] \subseteq running',
         pc'[q] = pc[q], toList'[q] = toList[q], current'[q] = current[q],
         todo'[q] = todo[q], dels'[q] = dels[q], kind'[q] = kind[q], cid'[q] = cid[q]
  PROVE  SteadyAt(q)'
  BY DEF SteadyAt

\* A pass beyond its first loop has nothing to delete.
LEMMA PastPruning ==
  ASSUME NEW q \in Passes, steady'[q] \subseteq running',
         pc'[q] \notin {"list", "prune"}, dels'[q] = {}
  PROVE  SteadyAt(q)'
  BY DEF SteadyAt

\* No step brings a pass near a steady container.
LEMMA SteadyStep == DaemonsAnswer /\ TypeOK /\ SteadyListed /\ [Next]_vars => SteadyListed'
<1> SUFFICES ASSUME DaemonsAnswer, TypeOK, SteadyListed, [Next]_vars PROVE SteadyListed'
  OBVIOUS
<1> USE DEF router, budgets, listing, loop, pending
<1>0. \A q \in Passes : SteadyAt(q) /\ steady[q] \subseteq running
  BY DEF SteadyListed, SteadyAt
<1>1. CASE UNCHANGED vars
  BY <1>0, <1>1, OtherPass DEF vars, SteadyListed
<1>2. ASSUME NEW c \in Containers, StartContainer(c) PROVE SteadyListed'
  <2>1. running \subseteq running' /\ UNCHANGED <<pc, listing, loop>>
    BY <1>2 DEF StartContainer
  <2> QED
    BY <1>0, <2>1, OtherPass DEF SteadyListed
<1>3. ASSUME NEW c \in Containers, StopContainer(c) PROVE SteadyListed'
  <2>1. running' = running \ {c} /\ UNCHANGED <<pc, toList, current, loop>>
    BY <1>3 DEF StopContainer
  <2>2. \A q \in Passes : steady'[q] = steady[q] \ {c}
    BY <1>3 DEF StopContainer
  <2>3. \A q \in Passes : steady'[q] \subseteq steady[q] /\ steady'[q] \subseteq running'
    BY <1>0, <2>1, <2>2
  <2> QED
    BY <1>0, <2>1, <2>3, OtherPass DEF SteadyListed
<1>4. CASE Startup
  BY <1>0, <1>4, OtherPass DEF Startup, SteadyListed
<1>5. CASE Crash
  <2>1. \A q \in Passes : steady'[q] = {} /\ pc'[q] = "idle" /\ dels'[q] = {}
    BY <1>5 DEF Crash
  <2> QED
    BY <2>1, PastPruning DEF SteadyListed
<1>6. ASSUME NEW p \in Passes, Begin(p) PROVE SteadyListed'
  <2>1. UNCHANGED <<running, todo, dels, kind, cid>> /\ pc[p] = "idle"
    BY <1>6 DEF Begin
  <2>2. \A q \in Passes : q # p => UNCHANGED <<steady[q], pc[q], toList[q], current[q]>>
    BY <1>6 DEF Begin, TypeOK
  <2>3. pc'[p] = "list" /\ toList'[p] = Hosts /\ steady'[p] = running
    BY <1>6 DEF Begin, TypeOK
  <2>4. SteadyAt(p)'
    <3>1. dels'[p] = {}
      BY <2>1 DEF TypeOK
    <3>2. \A c \in running : HostOf[c] \in Hosts
      BY ContainersAssumption DEF TypeOK
    <3> QED
      BY <2>1, <2>3, <3>1, <3>2 DEF SteadyAt
  <2>5. \A q \in Passes : q # p => SteadyAt(q)'
    BY <1>0, <2>1, <2>2, OtherPass
  <2> QED
    BY <2>4, <2>5 DEF SteadyListed
<1>7. ASSUME NEW p \in Passes, PassStep(p) PROVE SteadyListed'
  <2>1. ASSUME NEW h \in Hosts, List(p, h) PROVE SteadyListed'
    <3>1. UNCHANGED <<running, pc, steady, loop>> /\ pc[p] = "list"
      BY <2>1 DEF List
    <3>2. toList'[p] = toList[p] \ {h} /\ current'[p] = current[p] \cup {c \in running : HostOf[c] = h}
      BY <2>1 DEF List, Meets, DaemonsAnswer, TypeOK
    <3>3. \A q \in Passes : q # p => UNCHANGED <<toList[q], current[q]>>
      BY <2>1 DEF List, TypeOK
    <3>4. SteadyAt(p)'
      BY <1>0, <3>1, <3>2 DEF SteadyAt
    <3>5. \A q \in Passes : q # p => SteadyAt(q)'
      BY <1>0, <3>1, <3>3, OtherPass
    <3> QED
      BY <3>4, <3>5 DEF SteadyListed
  <2>2. CASE Known(p)
    <3>1. UNCHANGED <<running, listing, dels, kind, cid>> /\ pc[p] = "list" /\ toList[p] = {}
      BY <2>2 DEF Known
    <3>2. pc'[p] = "prune" /\ todo'[p] = Stale(p)
          /\ \A q \in Passes : q # p => UNCHANGED <<pc[q], todo[q]>>
      BY <2>2 DEF Known, TypeOK
    <3>3. SteadyAt(p)'
      <4>1. steady[p] \subseteq current[p]
        BY <1>0, <3>1 DEF SteadyAt
      <4>2. dels[p] = {} /\ kind[p] # "dns"
        BY <3>1 DEF TypeOK
      <4> QED
        BY <1>0, <3>1, <3>2, <4>1, <4>2 DEF SteadyAt, Stale
    <3>4. \A q \in Passes : q # p => SteadyAt(q)'
      BY <1>0, <3>1, <3>2, OtherPass
    <3> QED
      BY <3>3, <3>4 DEF SteadyListed
  <2>3. ASSUME NEW k \in Kinds, NEW c \in Containers, RemoveTracked(p, k, c) PROVE SteadyListed'
    <3>1. UNCHANGED <<running, pc, listing>> /\ pc[p] = "prune" /\ Visit(p, k, c)
      BY <2>3 DEF RemoveTracked
    <3>2. kind'[p] = k /\ cid'[p] = c /\ todo'[p] = todo[p] \ {c}
      BY <3>1 DEF Visit, TypeOK
    <3>3. \A q \in Passes : q # p => UNCHANGED <<todo[q], dels[q], kind[q], cid[q]>>
      BY <2>3, <3>1 DEF RemoveTracked, Visit, TypeOK
    <3>4. c \notin steady[p]
      BY <1>0, <3>1 DEF Visit, IsNext, SteadyAt
    <3>5. SteadyAt(p)'
      BY <1>0, <3>1, <3>2, <3>4 DEF SteadyAt
    <3>6. \A q \in Passes : q # p => SteadyAt(q)'
      BY <1>0, <3>1, <3>3, OtherPass
    <3> QED
      BY <3>5, <3>6 DEF SteadyListed
  <2>4. ASSUME NEW u \in dels[p], DeleteRule(p, u) PROVE SteadyListed'
    <3>1. UNCHANGED <<running, pc, listing, todo, kind, cid>>
      BY <2>4 DEF DeleteRule
    <3>2. dels[p] # {} /\ \A q \in Passes : q # p => dels'[q] = dels[q]
      BY <2>4 DEF DeleteRule, TypeOK
    <3>3. SteadyAt(p)'
      BY <1>0, <3>1, <3>2 DEF SteadyAt
    <3>4. \A q \in Passes : q # p => SteadyAt(q)'
      BY <1>0, <3>1, <3>2, OtherPass
    <3> QED
      BY <3>3, <3>4 DEF SteadyListed
  <2>5. ASSUME NEW k \in Kinds, NEW c \in Containers, CheckTracked(p, k, c) PROVE SteadyListed'
    <3>1. UNCHANGED <<running, pc, listing, dels>> /\ pc[p] = "scan" /\ Visit(p, k, c)
      BY <2>5 DEF CheckTracked
    <3>2. \A q \in Passes : q # p => UNCHANGED <<todo[q], kind[q], cid[q]>>
      BY <3>1 DEF Visit, TypeOK
    <3>3. SteadyAt(p)'
      BY <1>0, <3>1, PastPruning DEF Visit
    <3>4. \A q \in Passes : q # p => SteadyAt(q)'
      BY <1>0, <3>1, <3>2, OtherPass
    <3> QED
      BY <3>3, <3>4 DEF SteadyListed
  <2>6. ASSUME NEW t \in adds[p], AddRule(p, t) PROVE SteadyListed'
    BY <1>0, <2>6, OtherPass DEF AddRule, SteadyListed
  <2>7. CASE PruneDone(p) \/ ScanDone(p)
    <3>1. UNCHANGED <<running, listing, dels, kind, cid>> /\ dels[p] = {}
      BY <2>7 DEF PruneDone, ScanDone, LoopDone
    <3>2. pc'[p] \in {"scan", "publish"}
          /\ \A q \in Passes : q # p => UNCHANGED <<pc[q], todo[q]>>
      BY <2>7 DEF PruneDone, ScanDone, TypeOK
    <3>3. SteadyAt(p)'
      BY <1>0, <3>1, <3>2, PastPruning
    <3>4. \A q \in Passes : q # p => SteadyAt(q)'
      BY <1>0, <3>1, <3>2, OtherPass
    <3> QED
      BY <3>3, <3>4 DEF SteadyListed
  <2>8. CASE ReconfigureUnbound(p)
    BY <1>0, <2>8, OtherPass DEF ReconfigureUnbound, SteadyListed
  <2>9. CASE Apply(p)
    <3>1. UNCHANGED <<running, toList, todo, dels, kind>> /\ pc[p] = "publish"
      BY <2>9 DEF Apply
    <3>2. pc'[p] = "idle" /\ steady'[p] = {} /\ dels[p] = {}
          /\ \A q \in Passes : q # p => UNCHANGED <<pc[q], steady[q], current[q], cid[q]>>
      BY <2>9, <3>1 DEF Apply, TypeOK
    <3>3. SteadyAt(p)'
      BY <3>1, <3>2, PastPruning
    <3>4. \A q \in Passes : q # p => SteadyAt(q)'
      BY <1>0, <3>1, <3>2, OtherPass
    <3> QED
      BY <3>3, <3>4 DEF SteadyListed
  <2> QED
    BY <1>7, <2>1, <2>2, <2>3, <2>4, <2>5, <2>6, <2>7, <2>8, <2>9 DEF PassStep
<1> QED
  BY <1>1, <1>2, <1>3, <1>4, <1>5, <1>6, <1>7 DEF Next

\* A rule only goes when a pass holds its UUID, and a pass only holds the UUIDs
\* of a container that has not been running since it began.
LEMMA OnlyStoppedLoseRules ==
  ASSUME TypeOK, Ownership, SteadyListed, [Next]_vars, NEW r \in rows \ rows'
  PROVE  \E p \in Passes : r.uuid \in dels[p] /\ r.cid \notin steady[p]
<1> USE DEF router, budgets, listing, loop, pending
<1>1. CASE UNCHANGED vars
  BY <1>1 DEF vars
<1>2. ASSUME NEW c \in Containers, StartContainer(c) \/ StopContainer(c) PROVE rows' = rows
  BY <1>2 DEF StartContainer, StopContainer
<1>3. CASE Startup \/ Crash
  BY <1>3 DEF Startup, Crash
<1>4. ASSUME NEW p \in Passes, Begin(p) PROVE rows' = rows
  BY <1>4 DEF Begin
<1>5. ASSUME NEW p \in Passes, PassStep(p)
      PROVE  \E q \in Passes : r.uuid \in dels[q] /\ r.cid \notin steady[q]
  <2>1. ASSUME NEW u \in dels[p], DeleteRule(p, u)
        PROVE  r.uuid \in dels[p] /\ r.cid \notin steady[p]
    <3>1. r.kind = kind[p] /\ r.uuid = u
      BY <2>1 DEF DeleteRule
    <3>2. r.cid = cid[p]
      BY <2>1, <3>1 DEF Ownership, HeldOwn
    <3>3. cid[p] \notin steady[p]
      BY <2>1 DEF SteadyListed, SteadyAt
    <3> QED
      BY <2>1, <3>1, <3>2, <3>3
  <2>2. ASSUME NEW t \in adds[p], AddRule(p, t) PROVE rows \subseteq rows'
    BY <2>2 DEF AddRule
  <2>3. ASSUME NEW h \in Hosts, List(p, h) PROVE rows' = rows
    BY <2>3 DEF List
  <2>4. ASSUME NEW k \in Kinds, NEW c \in Containers, RemoveTracked(p, k, c) \/ CheckTracked(p, k, c)
        PROVE  rows' = rows
    BY <2>4 DEF RemoveTracked, CheckTracked
  <2>5. CASE Known(p) \/ PruneDone(p) \/ ScanDone(p) \/ ReconfigureUnbound(p) \/ Apply(p)
    BY <2>5 DEF Known, PruneDone, ScanDone, ReconfigureUnbound, Apply
  <2> QED
    BY <1>5, <2>1, <2>2, <2>3, <2>4, <2>5 DEF PassStep
<1> QED
  BY <1>1, <1>2, <1>3, <1>4, <1>5 DEF Next

\* A container that keeps running keeps its rules, with any number of passes that
\* overlap, failing calls to the router and crashes, as long as Docker answers.
THEOREM SteadyKeepTheirs == ASSUME DaemonsAnswer PROVE Spec => SteadyContainersKeepRules
<1>1. Init => SteadyListed
  BY DEF Init, SteadyListed, SteadyAt
<1>2. TypeOK /\ SteadyListed /\ [Next]_vars => SteadyListed'
  BY SteadyStep
<1>3. TypeOK /\ Ownership /\ SteadyListed /\ [Next]_vars =>
        [\A r \in rows \ rows' :
           \E p \in Passes : r.uuid \in dels[p] /\ r.cid \notin steady[p]]_vars
  BY OnlyStoppedLoseRules
<1> QED
  BY <1>1, <1>2, <1>3, OwnershipAlways, PTL DEF Spec, SteadyContainersKeepRules

----------------------------------------------------------------------------
(* Changes are published *)

\* The calls answer with what they did, and the process lives.
NothingIsLost ==
  /\ Faults \cap {"addAck", "delAck", "savepoint", "publish"} = {}
  /\ MaxCrashes = 0

\* A step that leaves the rules alone and forgets nothing.
LEMMA QuietPublish ==
  ASSUME PendingIsPublished, UNCHANGED <<rows, live, dnsChanged, natRevision>>
  PROVE  PendingIsPublished'
  BY DEF PendingIsPublished, RowsOf

\* A step of pass p that changes rules of its kind k, and notes that it did.
LEMMA NotedChange ==
  ASSUME TypeOK, PendingIsPublished, NEW p \in Passes, live' = live,
         \A k \in Kinds : k # kind[p] => RowsOf(k, rows') = RowsOf(k, rows),
         dnsChanged' = [dnsChanged EXCEPT ![p] = @ \/ kind[p] = "dns"],
         natRevision' = [natRevision EXCEPT ![p] = @ \/ kind[p] = "nat"]
  PROVE  PendingIsPublished'
<1>1. \A q \in Passes : (dnsChanged[q] => dnsChanged'[q]) /\ (natRevision[q] => natRevision'[q])
  BY DEF TypeOK
<1>2. IF kind[p] = "dns" THEN dnsChanged'[p] ELSE natRevision'[p]
  BY DEF TypeOK, Kinds
<1>3. ASSUME NEW k \in Kinds, RowsOf(k, rows') # RowsOf(k, live)
      PROVE  \E q \in Passes : IF k = "dns" THEN dnsChanged'[q] ELSE natRevision'[q]
  <2>1. CASE k = kind[p]
    BY <1>2, <2>1
  <2>2. CASE k # kind[p]
    <3>1. RowsOf(k, rows) # RowsOf(k, live)
      BY <1>3, <2>2
    <3> QED
      BY <1>1, <3>1 DEF PendingIsPublished
  <2> QED
    BY <2>1, <2>2
<1> QED
  BY <1>3 DEF PendingIsPublished, RowsOf

\* Either every change is noted by a pass, or it is published by now.
LEMMA PendingStep ==
  ASSUME NothingIsLost, TypeOK, PendingIsPublished, [Next]_vars
  PROVE  PendingIsPublished'
<1> USE DEF router, budgets, listing, loop, pending
<1>1. CASE UNCHANGED vars
  BY <1>1, QuietPublish DEF vars
<1>2. ASSUME NEW c \in Containers, StartContainer(c) \/ StopContainer(c) PROVE PendingIsPublished'
  BY <1>2, QuietPublish DEF StartContainer, StopContainer
<1>3. CASE Startup
  BY <1>3, QuietPublish DEF Startup
<1>4. ASSUME Crash PROVE FALSE
  BY <1>4 DEF Crash, NothingIsLost, TypeOK
<1>5. ASSUME NEW p \in Passes, Begin(p) PROVE PendingIsPublished'
  BY <1>5, QuietPublish DEF Begin
<1>6. ASSUME NEW p \in Passes, PassStep(p) PROVE PendingIsPublished'
  <2>1. ASSUME NEW h \in Hosts, List(p, h) PROVE PendingIsPublished'
    BY <2>1, QuietPublish DEF List
  <2>2. ASSUME NEW k \in Kinds, NEW c \in Containers, RemoveTracked(p, k, c) \/ CheckTracked(p, k, c)
        PROVE  PendingIsPublished'
    BY <2>2, QuietPublish DEF RemoveTracked, CheckTracked
  <2>3. CASE Known(p) \/ PruneDone(p) \/ ScanDone(p)
    BY <2>3, QuietPublish DEF Known, PruneDone, ScanDone
  <2>4. ASSUME NEW u \in dels[p], DeleteRule(p, u) PROVE PendingIsPublished'
    <3>1. PICK F \in SUBSET {"savepoint", "del", "delAck", "delRefused"} :
            /\ Meets(F)
            /\ rows' = IF F \cap {"del", "delRefused"} # {} THEN rows
                       ELSE {r \in rows : ~(r.kind = kind[p] /\ r.uuid = u)}
            /\ dnsChanged' = [dnsChanged EXCEPT ![p] =
                 @ \/ (kind[p] = "dns" /\ F \cap {"del", "delAck"} = {})]
            /\ natRevision' = [natRevision EXCEPT ![p] = Revised(p, F)]
      BY <2>4 DEF DeleteRule
    <3>2. F \cap {"savepoint", "delAck"} = {} /\ live' = live
      BY <2>4, <3>1 DEF DeleteRule, Meets, NothingIsLost
    <3>3. natRevision' = [natRevision EXCEPT ![p] = @ \/ kind[p] = "nat"]
      BY <3>1, <3>2 DEF Revised
    <3>4. CASE "del" \notin F
      <4>1. dnsChanged' = [dnsChanged EXCEPT ![p] = @ \/ kind[p] = "dns"]
        BY <3>1, <3>2, <3>4
      <4>2. \A k \in Kinds : k # kind[p] => RowsOf(k, rows') = RowsOf(k, rows)
        BY <3>1 DEF RowsOf
      <4> QED
        BY <3>2, <3>3, <4>1, <4>2, NotedChange
    <3>5. CASE "del" \in F
      <4>1. rows' = rows /\ dnsChanged' = dnsChanged
        BY <3>1, <3>5 DEF TypeOK
      <4>2. \A q \in Passes : natRevision[q] => natRevision'[q]
        BY <3>3 DEF TypeOK
      <4> QED
        BY <3>2, <4>1, <4>2 DEF PendingIsPublished
    <3> QED
      BY <3>4, <3>5
  <2>5. ASSUME NEW t \in adds[p], AddRule(p, t) PROVE PendingIsPublished'
    <3>1. PICK F \in SUBSET {"savepoint", "add", "addAck"} :
            /\ Meets(F)
            /\ IF "add" \in F THEN UNCHANGED <<rows, nextUUID>>
               ELSE rows' = rows \cup {NewRow(p, t)} /\ nextUUID' = nextUUID + 1
            /\ IF F \cap {"add", "addAck"} # {}
               THEN UNCHANGED <<tracked, dnsChanged>>
               ELSE /\ tracked' = TrackedWith(kind[p], cid[p], nextUUID)
                    /\ dnsChanged' = [dnsChanged EXCEPT ![p] = @ \/ kind[p] = "dns"]
            /\ natRevision' = [natRevision EXCEPT ![p] = Revised(p, F)]
      BY <2>5 DEF AddRule
    <3>2. F \subseteq {"add"} /\ live' = live
      BY <2>5, <3>1 DEF AddRule, Meets, NothingIsLost
    <3>3. natRevision' = [natRevision EXCEPT ![p] = @ \/ kind[p] = "nat"]
      BY <3>1, <3>2 DEF Revised
    <3>4. CASE F = {}
      <4>1. dnsChanged' = [dnsChanged EXCEPT ![p] = @ \/ kind[p] = "dns"]
        BY <3>1, <3>4
      <4>2. \A k \in Kinds : k # kind[p] => RowsOf(k, rows') = RowsOf(k, rows)
        BY <3>1, <3>4 DEF RowsOf, NewRow
      <4> QED
        BY <3>2, <3>3, <4>1, <4>2, NotedChange
    <3>5. CASE F = {"add"}
      <4>1. rows' = rows /\ dnsChanged' = dnsChanged
        BY <3>1, <3>5
      <4>2. \A q \in Passes : natRevision[q] => natRevision'[q]
        BY <3>3 DEF TypeOK
      <4> QED
        BY <3>2, <4>1, <4>2 DEF PendingIsPublished
    <3> QED
      BY <3>2, <3>4, <3>5
  <2>6. CASE ReconfigureUnbound(p)
    <3>1. rows' = rows /\ natRevision' = natRevision
      BY <2>6 DEF ReconfigureUnbound
    <3>2. live' = RowsOf("dns", rows) \cup {r \in live : r.kind # "dns"}
      BY <2>6 DEF ReconfigureUnbound, Publish, Meets, NothingIsLost
    <3>3. RowsOf("dns", live') = RowsOf("dns", rows) /\ RowsOf("nat", live') = RowsOf("nat", live)
      BY <3>2 DEF RowsOf
    <3> QED
      BY <3>1, <3>3 DEF PendingIsPublished, RowsOf, Kinds
  <2>7. CASE Apply(p)
    <3>1. rows' = rows /\ dnsChanged' = dnsChanged
          /\ \A q \in Passes : q # p => natRevision'[q] = natRevision[q]
      BY <2>7 DEF Apply, TypeOK
    <3>2. CASE natRevision[p]
      <4>1. live' = RowsOf("nat", rows) \cup {r \in live : r.kind # "nat"}
        BY <2>7, <3>2 DEF Apply, Publish, Meets, NothingIsLost
      <4>2. RowsOf("nat", live') = RowsOf("nat", rows) /\ RowsOf("dns", live') = RowsOf("dns", live)
        BY <4>1 DEF RowsOf
      <4> QED
        BY <3>1, <4>2 DEF PendingIsPublished, RowsOf, Kinds
    <3>3. CASE ~natRevision[p]
      <4>1. live' = live /\ \A q \in Passes : natRevision[q] => natRevision'[q]
        BY <2>7, <3>1, <3>3 DEF Apply
      <4> QED
        BY <3>1, <4>1 DEF PendingIsPublished, RowsOf
    <3> QED
      BY <3>2, <3>3
  <2> QED
    BY <1>6, <2>1, <2>2, <2>3, <2>4, <2>5, <2>6, <2>7 DEF PassStep
<1> QED
  BY <1>1, <1>2, <1>3, <1>4, <1>5, <1>6 DEF Next

\* What a pass changed on the router is loaded by the service it concerns, with
\* any number of passes that overlap and with additions and deletions that fail.
THEOREM ChangesArePublished == ASSUME NothingIsLost PROVE Spec => []PendingIsPublished
<1>1. Init => PendingIsPublished
  BY DEF Init, PendingIsPublished
<1>2. TypeOK /\ PendingIsPublished /\ [Next]_vars => PendingIsPublished'
  BY PendingStep
<1> QED
  BY <1>1, <1>2, TypeCorrect, PTL DEF Spec

----------------------------------------------------------------------------
(* The history *)

\* A step of the specification with its history, or no step of either.
LEMMA HistorySteps ==
  ASSUME [HistoryNext]_historyVars
  PROVE  \/ UNCHANGED vars /\ UNCHANGED history
         \/ Next /\ NoteTouched /\ NoteDisturbed /\ NoteContested
  BY DEF HistoryNext, Noted, historyVars

\* What the history says of the state it goes with.
Watched ==
  /\ \A p \in Passes : pc[p] = "idle" => touched[p] = {}
  /\ \A p \in Passes : InHand(p) \subseteq touched[p]
  /\ \A p, q \in Passes : p # q /\ pc[p] # "idle" => touched[q] \subseteq disturbed[p]
  /\ \A p, q \in Passes : p # q => InHand(p) \cap InHand(q) \subseteq contested

LEMMA InHandType ==
  ASSUME TypeOK, NEW p \in Passes
  PROVE  /\ InHand(p) \subseteq Kinds \X Containers
         /\ pc[p] = "idle" => InHand(p) = {}
  BY DEF TypeOK, InHand

LEMMA WatchedInit == HistoryInit => Watched
  BY DEF HistoryInit, Init, Watched, InHand

LEMMA WatchedStep == TypeOK' /\ Watched /\ [HistoryNext]_historyVars => Watched'
<1> SUFFICES ASSUME TypeOK', Watched, [HistoryNext]_historyVars PROVE Watched'
  OBVIOUS
<1>1. CASE UNCHANGED vars /\ UNCHANGED history
  BY <1>1 DEF vars, history, loop, Watched, InHand
<1>2. CASE NoteTouched /\ NoteDisturbed /\ NoteContested
  <2>1. \A p \in Passes : InHand(p)' \subseteq Kinds \X Containers /\ (pc'[p] = "idle" => InHand(p)' = {})
    <3> SUFFICES ASSUME NEW p \in Passes
                 PROVE  InHand(p)' \subseteq Kinds \X Containers /\ (pc'[p] = "idle" => InHand(p)' = {})
      OBVIOUS
    <3>1. CASE dels'[p] = {} /\ adds'[p] = {}
      BY <3>1 DEF InHand
    <3>2. CASE dels'[p] # {} \/ adds'[p] # {}
      <4>1. kind'[p] \in Kinds /\ cid'[p] \in Containers /\ pc'[p] # "idle"
        BY <3>2 DEF TypeOK
      <4> QED
        BY <4>1 DEF InHand
    <3> QED
      BY <3>1, <3>2
  <2>2. \A p \in Passes : touched'[p] = IF pc'[p] = "idle" THEN {} ELSE touched[p] \cup InHand(p)'
    BY <1>2 DEF NoteTouched
  <2>3. \A p, q \in Passes : p # q /\ pc'[p] # "idle" => touched'[q] \subseteq disturbed'[p]
    BY <1>2 DEF NoteDisturbed
  <2>4. ASSUME NEW p \in Passes, NEW q \in Passes, p # q, NEW e \in InHand(p)' \cap InHand(q)'
        PROVE  e \in contested'
    <3>1. PICK k \in Kinds, c \in Containers : e = <<k, c>>
      BY <2>1, <2>4
    <3>2. Contested(k, c)'
      BY <2>4, <3>1 DEF Contested
    <3> QED
      BY <1>2, <3>1, <3>2 DEF NoteContested
  <2> QED
    BY <2>1, <2>2, <2>3, <2>4 DEF Watched
<1> QED
  BY <1>1, <1>2, HistorySteps

\* A pair leaves contested when nothing of it is left.
LEMMA StaysContested ==
  ASSUME NoteContested, NEW k \in Kinds, NEW c \in Containers,
         <<k, c>> \in contested, <<k, c>> \notin contested'
  PROVE  /\ \A r \in rows' : r.kind = k => r.cid # c
         /\ \A p \in Passes : <<k, c>> \notin InHand(p)'
<1>1. ~Remains(k, c)'
  BY DEF NoteContested
<1> QED
  BY <1>1 DEF Remains

----------------------------------------------------------------------------
(* No rule twice *)

\* What a pass is about to create does not exist yet: it began with a container
\* that had no rule on record, hence none at all, and no other pass is at it.
AddsAreNew ==
  \A p \in Passes : \A t \in adds[p] : \A r \in rows :
    Owned(r) /\ r.kind = kind[p] /\ r.cid = cid[p] =>
      r.target # t \/ <<r.kind, r.cid>> \in contested

Single == NoDuplicateRules /\ AddsAreNew

\* Of the rules that there are, those that are not contested were not before.
LEMMA Uncontested ==
  ASSUME TypeOK', NoteContested, NEW r \in rows', Owned(r), <<r.kind, r.cid>> \notin contested'
  PROVE  <<r.kind, r.cid>> \notin contested
<1>1. r.kind \in Kinds /\ r.cid \in Containers
  BY DEF TypeOK, Owned
<1> QED
  BY <1>1, StaysContested

\* A step that adds no rule, and leaves a pass with its container while it has
\* targets to create.
LEMMA QuietAdds ==
  ASSUME TypeOK', NoteContested, Single, rows' \subseteq rows,
         \A p \in Passes : \/ adds'[p] = {}
                           \/ adds'[p] = adds[p] /\ kind'[p] = kind[p] /\ cid'[p] = cid[p]
  PROVE  Single'
<1>1. \A r \in rows' : Owned(r) /\ <<r.kind, r.cid>> \notin contested' => <<r.kind, r.cid>> \notin contested
  BY Uncontested
<1>2. NoDuplicateRules'
  BY <1>1 DEF Single, NoDuplicateRules, Owned
<1>3. AddsAreNew'
  BY <1>1 DEF Single, AddsAreNew, Owned
<1> QED
  BY <1>2, <1>3 DEF Single

\* The rule that is added is the first for its target.
LEMMA AddRuleIsNew ==
  ASSUME TypeOK, TypeOK', Watched, NoteContested, Single,
         NEW p \in Passes, NEW t \in adds[p], AddRule(p, t)
  PROVE  Single'
<1>1. UNCHANGED <<kind, cid>> /\ adds'[p] = adds[p] \ {t}
      /\ \A q \in Passes : q # p => adds'[q] = adds[q]
  BY DEF AddRule, TypeOK
<1>2. rows' = rows \/ rows' = rows \cup {NewRow(p, t)}
  BY DEF AddRule
<1>3. NewRow(p, t).kind = kind[p] /\ NewRow(p, t).cid = cid[p] /\ NewRow(p, t).target = t
  BY DEF NewRow
<1>4. \A r \in rows' : Owned(r) /\ <<r.kind, r.cid>> \notin contested' => <<r.kind, r.cid>> \notin contested
  BY Uncontested
<1>5. \A r \in rows : Owned(r) /\ r.kind = kind[p] /\ r.cid = cid[p] /\ <<r.kind, r.cid>> \notin contested
        => r.target # t
  BY DEF Single, AddsAreNew
<1>6. NoDuplicateRules'
  <2> SUFFICES ASSUME NEW r \in rows', NEW s \in rows', Owned(r), r.kind = s.kind, r.cid = s.cid,
                      r.target = s.target, <<r.kind, r.cid>> \notin contested'
               PROVE  r = s
    BY DEF NoDuplicateRules, Owned
  <2>1. <<r.kind, r.cid>> \notin contested
    BY <1>4
  <2>2. CASE r \in rows /\ s \in rows
    BY <2>1, <2>2 DEF Single, NoDuplicateRules
  <2>3. CASE r \notin rows
    <3>1. r = NewRow(p, t)
      BY <1>2, <2>3
    <3>2. s \notin rows
      BY <1>3, <1>5, <2>1, <3>1 DEF Owned
    <3> QED
      BY <1>2, <3>1, <3>2
  <2>4. CASE r \in rows /\ s \notin rows
    <3>1. s = NewRow(p, t)
      BY <1>2, <2>4
    <3> QED
      BY <1>3, <1>5, <2>1, <2>4, <3>1
  <2> QED
    BY <2>2, <2>3, <2>4
<1>7. AddsAreNew'
  <2> SUFFICES ASSUME NEW q \in Passes, NEW v \in adds'[q], NEW r \in rows', Owned(r),
                      r.kind = kind[q], r.cid = cid[q], <<r.kind, r.cid>> \notin contested'
               PROVE  r.target # v
    BY <1>1 DEF AddsAreNew, Owned
  <2>1. <<r.kind, r.cid>> \notin contested /\ v \in adds[q]
    BY <1>1, <1>4
  <2>2. CASE r \in rows
    BY <2>1, <2>2 DEF Single, AddsAreNew
  <2>3. CASE r \notin rows
    <3>1. r = NewRow(p, t)
      BY <1>2, <2>3
    <3>2. <<r.kind, r.cid>> \in InHand(p) \cap InHand(q)
      BY <1>3, <2>1, <3>1 DEF InHand
    <3>3. q = p
      BY <2>1, <3>2 DEF Watched
    <3> QED
      BY <1>1, <1>3, <3>1, <3>3
  <2> QED
    BY <2>2, <2>3
<1> QED
  BY <1>6, <1>7 DEF Single

\* A container without a rule on record has none, unless another pass is about
\* to delete it.
LEMMA CheckIsRight ==
  ASSUME TypeOK, TypeOK', Ownership, Accounted, Watched', NoteContested, Single,
         NEW p \in Passes, NEW k \in Kinds, NEW c \in Containers, CheckTracked(p, k, c)
  PROVE  Single'
<1>1. pc[p] = "scan" /\ Visit(p, k, c) /\ UNCHANGED <<rows, dels>> /\ adds'[p] = Missing(k, c)
      /\ \A q \in Passes : q # p => adds'[q] = adds[q]
  BY DEF CheckTracked, TypeOK, router
<1>2. kind'[p] = k /\ cid'[p] = c /\ dels[p] = {}
      /\ \A q \in Passes : q # p => kind'[q] = kind[q] /\ cid'[q] = cid[q]
  BY <1>1, VisitType
<1>3. up
  BY <1>1 DEF Ownership, Down, TypeOK
<1>4. \A r \in rows' : Owned(r) /\ <<r.kind, r.cid>> \notin contested' => <<r.kind, r.cid>> \notin contested
  BY Uncontested
<1>5. ASSUME NEW r \in rows, Owned(r), r.kind = k, r.cid = c, NEW t \in Missing(k, c)
      PROVE  <<k, c>> \in contested'
  <2>1. tracked[k][c] = {}
    BY <1>5 DEF Missing
  <2>2. RowRecorded(r)
    BY <1>3, <1>5, AccountedRows
  <2>3. PICK q \in Passes : kind[q] = k /\ cid[q] = c /\ r.uuid \in dels[q]
    BY <1>5, <2>1, <2>2 DEF RowRecorded
  <2>4. q # p
    BY <1>2, <2>3
  <2>5. <<k, c>> \in InHand(q)' /\ <<k, c>> \in InHand(p)'
    BY <1>1, <1>2, <1>5, <2>3, <2>4 DEF InHand
  <2> QED
    BY <2>4, <2>5 DEF Watched
<1>6. AddsAreNew'
  <2> SUFFICES ASSUME NEW q \in Passes, NEW t \in adds'[q], NEW r \in rows', Owned(r),
                      r.kind = kind'[q], r.cid = cid'[q], <<r.kind, r.cid>> \notin contested'
               PROVE  r.target # t
    BY DEF AddsAreNew, Owned
  <2>1. CASE q = p
    BY <1>1, <1>2, <1>5, <2>1
  <2>2. CASE q # p
    BY <1>1, <1>2, <1>4, <2>2 DEF Single, AddsAreNew
  <2> QED
    BY <2>1, <2>2
<1>7. NoDuplicateRules'
  BY <1>1, <1>4 DEF Single, NoDuplicateRules, Owned
<1> QED
  BY <1>6, <1>7 DEF Single

\* Every other step adds no rule.
LEMMA SingleStep ==
  ASSUME TypeOK, TypeOK', Ownership, Accounted, Watched, Watched', Single, Next, NoteContested
  PROVE  Single'
<1> USE DEF router, budgets, listing, loop, pending
<1>1. ASSUME NEW c \in Containers, StartContainer(c) \/ StopContainer(c) PROVE Single'
  BY <1>1, QuietAdds DEF StartContainer, StopContainer
<1>2. CASE Startup \/ Crash
  BY <1>2, QuietAdds DEF Startup, Crash
<1>3. ASSUME NEW p \in Passes, Begin(p) PROVE Single'
  BY <1>3, QuietAdds DEF Begin
<1>4. ASSUME NEW p \in Passes, PassStep(p) PROVE Single'
  <2>1. ASSUME NEW h \in Hosts, List(p, h) PROVE Single'
    BY <2>1, QuietAdds DEF List
  <2>2. ASSUME NEW k \in Kinds, NEW c \in Containers, RemoveTracked(p, k, c) PROVE Single'
    <3>1. Visit(p, k, c) /\ rows' = rows /\ adds' = adds
      BY <2>2 DEF RemoveTracked
    <3> QED
      BY <3>1, VisitType, QuietAdds
  <2>3. ASSUME NEW u \in dels[p], DeleteRule(p, u) PROVE Single'
    BY <2>3, QuietAdds DEF DeleteRule
  <2>4. ASSUME NEW k \in Kinds, NEW c \in Containers, CheckTracked(p, k, c) PROVE Single'
    BY <2>4, CheckIsRight
  <2>5. ASSUME NEW t \in adds[p], AddRule(p, t) PROVE Single'
    BY <2>5, AddRuleIsNew
  <2>6. CASE Known(p) \/ PruneDone(p) \/ ScanDone(p) \/ ReconfigureUnbound(p)
    BY <2>6, QuietAdds DEF Known, PruneDone, ScanDone, ReconfigureUnbound
  <2>7. CASE Apply(p)
    <3>1. adds[p] = {} /\ UNCHANGED <<rows, adds, kind>>
      BY <2>7 DEF Apply, TypeOK
    <3>2. \A q \in Passes : q # p => cid'[q] = cid[q]
      BY <2>7 DEF Apply, TypeOK
    <3> QED
      BY <3>1, <3>2, QuietAdds
  <2> QED
    BY <1>4, <2>1, <2>2, <2>3, <2>4, <2>5, <2>6, <2>7 DEF PassStep
<1> QED
  BY <1>1, <1>2, <1>3, <1>4 DEF Next

\* The history does not change what the passes do.
LEMMA HistoryOfSpec == HistorySpec => Spec /\ []Watched
<1>1. HistoryInit => Init
  BY DEF HistoryInit
<1>2. [HistoryNext]_historyVars => [Next]_vars
  BY DEF HistoryNext, historyVars
<1>3. HistorySpec => Spec
  BY <1>1, <1>2, PTL DEF HistorySpec, Spec
<1> QED
  BY <1>3, WatchedInit, WatchedStep, TypeCorrect, PTL DEF HistorySpec

\* A target of a container has one rule, however passes overlap, across restarts and
\* with calls that fail (those that RecordsSurvive admits), unless two passes have
\* been busy with that container at once.
THEOREM RulesAreNotDoubled ==
  ASSUME RecordsSurvive PROVE HistorySpec => []NoDuplicateRules
<1>1. HistoryInit => Single
  BY ForeignAssumption DEF HistoryInit, Init, Single, NoDuplicateRules, AddsAreNew, Owned
<1>2. TypeOK /\ TypeOK' /\ Ownership /\ Accounted /\ Watched /\ Watched' /\ Single
        /\ [HistoryNext]_historyVars => Single'
  <2> SUFFICES ASSUME TypeOK, TypeOK', Ownership, Accounted, Watched, Watched', Single,
                      [HistoryNext]_historyVars
               PROVE  Single'
    OBVIOUS
  <2>1. CASE UNCHANGED vars /\ UNCHANGED history
    BY <2>1 DEF vars, router, loop, history, Single, NoDuplicateRules, AddsAreNew, Owned
  <2>2. CASE Next /\ NoteContested
    BY <2>2, SingleStep
  <2> QED
    BY <2>1, <2>2, HistorySteps
<1>3. Single => NoDuplicateRules
  BY DEF Single
<1> QED
  BY <1>1, <1>2, <1>3, HistoryOfSpec, OwnershipAlways, RulesAreAccounted, PTL DEF HistorySpec

----------------------------------------------------------------------------
(* What a pass leaves behind *)

\* What is created is recorded and published, and the process lives; listings,
\* deletions and searches may fail.
AdditionsSucceed ==
  Faults \cap {"add", "addAck", "savepoint", "publish"} = {} /\ MaxCrashes = 0

HasRule(k, c, t) ==
  \E r \in rows : r.kind = k /\ r.cid = c /\ r.target = t /\ r.uuid \in tracked[k][c]
At(p, k, c) == kind[p] = k /\ cid[p] = c

\* Before the first pass there are no rules of ours.
CleanStart == ~up => \A r \in rows \cup live : ~Owned(r)

\* Every rule of ours is one its container asks for.
RulesAreAsked == \A r \in rows : Owned(r) => r.target \in Targets(r.kind, r.cid)

\* State names no rule that is gone.
TrackedExist ==
  \A k \in Kinds, c \in Containers : \A u \in tracked[k][c] :
    \E r \in rows : r.kind = k /\ r.cid = c /\ r.uuid = u

\* A container with a rule on record, or with targets at hand, has a rule for
\* every other target: HasDNS and HasNAT only ask whether there is one.
WholeAt(k, c) ==
  tracked[k][c] # {} \/ (\E p \in Passes : At(p, k, c) /\ adds[p] # {}) =>
    \A t \in Targets(k, c) :
      HasRule(k, c, t) \/ \E p \in Passes : At(p, k, c) /\ t \in adds[p]
Whole == \A k \in Kinds, c \in Containers : <<k, c>> \in contested \/ WholeAt(k, c)

Rules == CleanStart /\ RulesAreAsked /\ TrackedExist /\ Whole

\* A pass that changed rules of kind k and has not published them yet.
Owes(p, k) == IF k = "dns" THEN dnsChanged[p] ELSE natRevision[p]

\* A rule on record that a service has not loaded, or loaded in vain, is one that
\* a pass has touched and still owes the publication of.
OwedRow(r) ==
  r.kind \in Kinds /\ r.cid \in Containers /\ r.uuid \in OnRecord(r.kind, r.cid) =>
    \E p \in Passes : Owes(p, r.kind) /\ <<r.kind, r.cid>> \in touched[p]
Owed ==
  /\ \A r \in live :
       r.uuid \in Nat /\ r.uuid < nextUUID /\ r.cid \in Containers \cup {NoCid}
  /\ \A r \in (rows \ live) \cup (live \ rows) : OwedRow(r)

StillToVisit(p, k, c) == c \in todo[p] \/ (kind[p] = "dns" /\ k = "nat" /\ c = cid[p])

\* The first loop has released the containers it will not visit any more.
PrunedSoFar(p) ==
  \A k \in Kinds, c \in Containers :
    c \notin current[p] /\ tracked[k][c] # {} /\ <<k, c>> \notin disturbed[p] =>
      /\ pc[p] = "prune" => StillToVisit(p, k, c)
      /\ pc[p] \notin {"scan", "publish"}

\* The second loop has rules on record for the containers it will not visit any
\* more, or is about to create the first of them.
ScannedSoFar(p) ==
  pc[p] \in {"scan", "publish"} =>
    /\ pc[p] = "scan" => todo[p] \subseteq current[p]
    /\ adds[p] # {} \/ kind[p] = "dns" => cid[p] \in current[p]
    /\ \A k \in Kinds, c \in Containers :
         c \in current[p] /\ tracked[k][c] = {} /\ <<k, c>> \notin disturbed[p] =>
           \/ Targets(k, c) = {}
           \/ pc[p] = "scan" /\ StillToVisit(p, k, c)
           \/ pc[p] = "scan" /\ At(p, k, c) /\ adds[p] # {}

\* The second visit to a container follows the first at once.
Progress(p) ==
  (kind[p] = "dns" => cid[p] \notin todo[p]) /\ PrunedSoFar(p) /\ ScannedSoFar(p)


(* Rules *)

\* What is left of the pairs that are not contested any more is nothing.
LEMMA WholeKept ==
  ASSUME NoteContested, TrackedExist',
         \A k \in Kinds, c \in Containers :
           <<k, c>> \notin contested /\ <<k, c>> \notin contested' => WholeAt(k, c)'
  PROVE  Whole'
<1> SUFFICES ASSUME NEW k \in Kinds, NEW c \in Containers, <<k, c>> \notin contested',
                    <<k, c>> \in contested
             PROVE  WholeAt(k, c)'
  BY DEF Whole
<1>1. /\ \A r \in rows' : r.kind = k => r.cid # c
      /\ \A p \in Passes : <<k, c>> \notin InHand(p)'
  BY StaysContested
<1>2. tracked'[k][c] = {}
  BY <1>1 DEF TrackedExist
<1>3. \A p \in Passes : At(p, k, c)' => adds'[p] = {}
  BY <1>1 DEF InHand, At
<1> QED
  BY <1>2, <1>3 DEF WholeAt

\* A step that leaves rules and records alone, and a pass with its container while
\* it has targets to create.
LEMMA QuietRules ==
  ASSUME NoteContested, Rules, UNCHANGED <<up, rows, tracked>>, live' \subseteq rows \cup live,
         \A p \in Passes : \/ adds[p] = {} /\ adds'[p] = {}
                           \/ adds'[p] = adds[p] /\ kind'[p] = kind[p] /\ cid'[p] = cid[p]
  PROVE  Rules'
<1>1. TrackedExist'
  BY DEF Rules, TrackedExist
<1>2. ASSUME NEW k \in Kinds, NEW c \in Containers, WholeAt(k, c) PROVE WholeAt(k, c)'
  BY <1>2 DEF WholeAt, HasRule, At, Targets, DNSTargets, NATTargets
<1>3. Whole'
  BY <1>1, <1>2, WholeKept DEF Rules, Whole
<1>4. CleanStart' /\ RulesAreAsked'
  BY DEF Rules, CleanStart, RulesAreAsked, Owned, Targets, DNSTargets, NATTargets
<1> QED
  BY <1>1, <1>3, <1>4 DEF Rules

\* The process starts with nothing on the router that is its own.
LEMMA StartupRules ==
  ASSUME TypeOK, Ownership, NoteContested, Rules, Startup
  PROVE  Rules' /\ \A k \in Kinds, c \in Containers : tracked'[k][c] = {}
<1>1. \A k \in Kinds, c \in Containers : OwnedUUIDs(k, c) = {}
  BY ContainersAssumption DEF Startup, Rules, CleanStart, Owned, OwnedUUIDs
<1>2. \A k \in Kinds, c \in Containers : tracked'[k][c] = {}
  BY <1>1 DEF Startup
<1>3. \A p \in Passes : adds'[p] = {}
  BY DEF Startup, Ownership, Down, TypeOK, loop
<1>4. TrackedExist'
  BY <1>2 DEF TrackedExist
<1>5. \A k \in Kinds, c \in Containers : WholeAt(k, c)'
  BY <1>2, <1>3 DEF WholeAt
<1>6. CleanStart' /\ RulesAreAsked'
  BY DEF Startup, Rules, CleanStart, RulesAreAsked, Owned, router
<1> QED
  BY <1>2, <1>4, <1>5, <1>6 DEF Rules, Whole

\* What State loses is being deleted; a pass that creates it meanwhile contests it.
LEMMA RemoveTrackedRules ==
  ASSUME TypeOK, Watched', NoteContested, Rules,
         NEW p \in Passes, NEW k \in Kinds, NEW c \in Containers, RemoveTracked(p, k, c)
  PROVE  Rules'
<1>1. UNCHANGED <<up, rows, live, adds>> /\ Visit(p, k, c) /\ dels'[p] = tracked[k][c]
  BY DEF RemoveTracked, router, TypeOK
<1>2. kind'[p] = k /\ cid'[p] = c /\ adds[p] = {}
      /\ \A q \in Passes : q # p => kind'[q] = kind[q] /\ cid'[q] = cid[q]
  BY <1>1, VisitType
<1>3. tracked'[k][c] = {}
      /\ \A m \in Kinds, d \in Containers : m # k \/ d # c => tracked'[m][d] = tracked[m][d]
  BY UntrackedType DEF RemoveTracked
<1>4. TrackedExist'
  BY <1>1, <1>3 DEF Rules, TrackedExist
<1>5. \A q \in Passes, m \in Kinds, d \in Containers :
        At(q, m, d)' /\ adds'[q] # {} <=> At(q, m, d) /\ adds[q] # {}
  BY <1>1, <1>2 DEF At
<1>6. \A q \in Passes, m \in Kinds, d \in Containers, t \in AllTargets :
        At(q, m, d)' /\ t \in adds'[q] <=> At(q, m, d) /\ t \in adds[q]
  BY <1>1, <1>2 DEF At
<1>7. ASSUME NEW m \in Kinds, NEW d \in Containers, <<m, d>> \notin contested, <<m, d>> \notin contested'
      PROVE  WholeAt(m, d)'
  <2>1. WholeAt(m, d) /\ \A t \in Targets(m, d) : t \in AllTargets
    BY <1>7, TargetsAreKnown DEF Rules, Whole
  <2>2. CASE tracked'[m][d] = tracked[m][d]
    BY <1>1, <1>5, <1>6, <2>1, <2>2 DEF WholeAt, HasRule, Targets, DNSTargets, NATTargets
  <2>3. CASE tracked'[m][d] # tracked[m][d]
    <3>1. m = k /\ d = c /\ tracked[k][c] # {} /\ tracked'[k][c] = {}
      BY <1>3, <2>3
    <3>2. <<k, c>> \in InHand(p)'
      BY <1>1, <1>2, <3>1 DEF InHand
    <3>3. ASSUME NEW q \in Passes, At(q, k, c)', adds'[q] # {} PROVE FALSE
      <4>1. <<k, c>> \in InHand(q)' /\ q # p
        BY <1>1, <1>2, <3>3 DEF InHand, At
      <4> QED
        BY <1>7, <3>1, <3>2, <4>1 DEF Watched
    <3> QED
      BY <3>1, <3>3 DEF WholeAt
  <2> QED
    BY <2>2, <2>3
<1>8. CleanStart' /\ RulesAreAsked'
  BY <1>1 DEF Rules, CleanStart, RulesAreAsked, Owned, Targets, DNSTargets, NATTargets
<1> QED
  BY <1>4, <1>7, <1>8, WholeKept DEF Rules

\* A rule that is deleted is not on record in State.
LEMMA DeleteRuleRules ==
  ASSUME TypeOK, Ownership, NoteContested, Rules, NEW p \in Passes, NEW u \in dels[p], DeleteRule(p, u)
  PROVE  Rules'
<1>1. UNCHANGED <<up, live, tracked, kind, cid, adds>>
  BY DEF DeleteRule
<1>2. rows' = rows \/ rows' = {r \in rows : ~(r.kind = kind[p] /\ r.uuid = u)}
  BY DEF DeleteRule
<1>3. ASSUME NEW k \in Kinds, NEW c \in Containers, NEW r \in rows, r.kind = k, r.uuid \in tracked[k][c]
      PROVE  r \in rows'
  BY <1>2, <1>3 DEF Ownership, HeldOrTracked
<1>4. TrackedExist'
  BY <1>1, <1>3 DEF Rules, TrackedExist
<1>5. ASSUME NEW k \in Kinds, NEW c \in Containers, WholeAt(k, c) PROVE WholeAt(k, c)'
  <2>1. \A t : HasRule(k, c, t) => HasRule(k, c, t)'
    BY <1>1, <1>3 DEF HasRule
  <2> QED
    BY <1>1, <1>5, <2>1 DEF WholeAt, At, Targets, DNSTargets, NATTargets
<1>6. CleanStart' /\ RulesAreAsked'
  BY <1>1, <1>2 DEF Rules, CleanStart, RulesAreAsked, Owned, Targets, DNSTargets, NATTargets
<1> QED
  BY <1>4, <1>5, <1>6, WholeKept DEF Rules, Whole

\* The container that is visited in the second loop has its rules, asks for none,
\* or has all of them at hand.
LEMMA CheckTrackedRules ==
  ASSUME TypeOK, NoteContested, Rules,
         NEW p \in Passes, NEW k \in Kinds, NEW c \in Containers, CheckTracked(p, k, c)
  PROVE  Rules'
<1>1. UNCHANGED <<up, rows, live, tracked>> /\ Visit(p, k, c)
      /\ \A q \in Passes : q # p => adds'[q] = adds[q]
  BY DEF CheckTracked, router, TypeOK
<1>2. kind'[p] = k /\ cid'[p] = c /\ adds[p] = {}
      /\ \A q \in Passes : q # p => kind'[q] = kind[q] /\ cid'[q] = cid[q]
  BY <1>1, VisitType
<1>3. adds'[p] = IF tracked[k][c] # {} THEN {} ELSE Targets(k, c)
  BY DEF CheckTracked, Missing, TypeOK
<1>4. TrackedExist'
  BY <1>1 DEF Rules, TrackedExist
<1>5. ASSUME NEW m \in Kinds, NEW d \in Containers, WholeAt(m, d) PROVE WholeAt(m, d)'
  <2>1. \A t : HasRule(m, d, t) => HasRule(m, d, t)'
    BY <1>1 DEF HasRule
  <2>2. ASSUME NEW t \in Targets(m, d), NEW q \in Passes, At(q, m, d), t \in adds[q]
        PROVE  At(q, m, d)' /\ t \in adds'[q]
    BY <1>1, <1>2, <2>2 DEF At
  <2>3. CASE m = k /\ d = c /\ tracked[k][c] = {}
    <3>1. At(p, m, d)' /\ \A t \in Targets(m, d) : t \in adds'[p]
      BY <1>2, <1>3, <2>3 DEF At
    <3> QED
      BY <3>1 DEF WholeAt, Targets, DNSTargets, NATTargets
  <2>4. CASE ~(m = k /\ d = c /\ tracked[k][c] = {})
    <3>1. ASSUME NEW q \in Passes, At(q, m, d)', adds'[q] # {}
          PROVE  tracked[m][d] # {} \/ (At(q, m, d) /\ adds[q] # {})
      BY <1>1, <1>2, <1>3, <2>4, <3>1 DEF At
    <3> QED
      BY <1>1, <1>5, <2>1, <2>2, <3>1 DEF WholeAt, Targets, DNSTargets, NATTargets
  <2> QED
    BY <2>3, <2>4
<1>6. CleanStart' /\ RulesAreAsked'
  BY <1>1 DEF Rules, CleanStart, RulesAreAsked, Owned, Targets, DNSTargets, NATTargets
<1> QED
  BY <1>4, <1>5, <1>6, WholeKept DEF Rules, Whole

\* What a successful addition does.
LEMMA AddRuleDoes ==
  ASSUME AdditionsSucceed, TypeOK, NEW p \in Passes, NEW t \in adds[p], AddRule(p, t)
  PROVE  /\ UNCHANGED <<up, live, pc, current, todo, kind, cid, dels>>
         /\ pc[p] = "scan" /\ kind[p] \in Kinds /\ cid[p] \in Containers
         /\ adds'[p] = adds[p] \ {t} /\ \A q \in Passes : q # p => adds'[q] = adds[q]
         /\ rows' = rows \cup {NewRow(p, t)} /\ nextUUID' = nextUUID + 1
         /\ tracked'[kind[p]][cid[p]] = tracked[kind[p]][cid[p]] \cup {nextUUID}
         /\ \A m \in Kinds, d \in Containers :
              m # kind[p] \/ d # cid[p] => tracked'[m][d] = tracked[m][d]
         /\ \A q \in Passes, k \in Kinds : Owes(q, k) \/ (q = p /\ k = kind[p]) => Owes(q, k)'
         /\ <<kind[p], cid[p]>> \in InHand(p)
<1>1. UNCHANGED <<up, live, pc, current, todo, kind, cid, dels>> /\ pc[p] = "scan"
  BY DEF AddRule, listing
<1>2. kind[p] \in Kinds /\ cid[p] \in Containers /\ nextUUID \in Nat
  BY DEF TypeOK
<1>3. adds'[p] = adds[p] \ {t} /\ \A q \in Passes : q # p => adds'[q] = adds[q]
  BY DEF AddRule, TypeOK
<1>4. PICK F \in SUBSET {"savepoint", "add", "addAck"} :
        /\ Meets(F)
        /\ IF "add" \in F THEN UNCHANGED <<rows, nextUUID>>
           ELSE rows' = rows \cup {NewRow(p, t)} /\ nextUUID' = nextUUID + 1
        /\ IF F \cap {"add", "addAck"} # {}
           THEN UNCHANGED <<tracked, dnsChanged>>
           ELSE /\ tracked' = TrackedWith(kind[p], cid[p], nextUUID)
                /\ dnsChanged' = [dnsChanged EXCEPT ![p] = @ \/ kind[p] = "dns"]
        /\ natRevision' = [natRevision EXCEPT ![p] = Revised(p, F)]
  BY DEF AddRule
<1>5. F = {}
  BY <1>4 DEF Meets, AdditionsSucceed
<1>6. rows' = rows \cup {NewRow(p, t)} /\ nextUUID' = nextUUID + 1
      /\ tracked' = TrackedWith(kind[p], cid[p], nextUUID)
  BY <1>4, <1>5
<1>7. dnsChanged' = [dnsChanged EXCEPT ![p] = @ \/ kind[p] = "dns"]
      /\ natRevision' = [natRevision EXCEPT ![p] = @ \/ kind[p] = "nat"]
  BY <1>4, <1>5 DEF Revised
<1>8. /\ tracked'[kind[p]][cid[p]] = tracked[kind[p]][cid[p]] \cup {nextUUID}
      /\ \A m \in Kinds, d \in Containers :
           m # kind[p] \/ d # cid[p] => tracked'[m][d] = tracked[m][d]
  <2> DEFINE k == kind[p]  c == cid[p]
  <2>1. k \in Kinds /\ c \in Containers /\ tracked' = TrackedWith(k, c, nextUUID)
    BY <1>2, <1>6
  <2> HIDE DEF k, c
  <2>2. /\ tracked'[k][c] = tracked[k][c] \cup {nextUUID}
        /\ \A m \in Kinds, d \in Containers : m # k \/ d # c => tracked'[m][d] = tracked[m][d]
    BY <1>2, <2>1, TrackedWithType
  <2> QED
    BY <2>2 DEF k, c
<1>9. \A q \in Passes, k \in Kinds : Owes(q, k) \/ (q = p /\ k = kind[p]) => Owes(q, k)'
  BY <1>2, <1>7 DEF Owes, TypeOK, Kinds
<1>10. <<kind[p], cid[p]>> \in InHand(p)
  BY DEF InHand
<1> QED
  BY <1>1, <1>2, <1>3, <1>6, <1>8, <1>9, <1>10

\* A target at hand becomes a rule, and its UUID goes on record.
LEMMA AddRuleRules ==
  ASSUME AdditionsSucceed, TypeOK, Ownership, AddsWanted, Watched, NoteContested, Rules,
         NEW p \in Passes, NEW t \in adds[p], AddRule(p, t)
  PROVE  Rules'
<1> DEFINE new == NewRow(p, t)
<1>1. /\ UNCHANGED <<up, live, kind, cid>>
      /\ adds'[p] = adds[p] \ {t} /\ \A q \in Passes : q # p => adds'[q] = adds[q]
      /\ rows' = rows \cup {new} /\ kind[p] \in Kinds /\ cid[p] \in Containers
  BY AddRuleDoes
<1>2. /\ tracked'[kind[p]][cid[p]] = tracked[kind[p]][cid[p]] \cup {nextUUID}
      /\ \A m \in Kinds, d \in Containers :
           m # kind[p] \/ d # cid[p] => tracked'[m][d] = tracked[m][d]
  BY AddRuleDoes
<1>3. new.kind = kind[p] /\ new.cid = cid[p] /\ new.target = t /\ new.uuid = nextUUID
  BY DEF NewRow
<1> HIDE DEF new
<1>4. \A m \in Kinds, d \in Containers : tracked[m][d] \subseteq tracked'[m][d]
  BY <1>1, <1>2
<1>5. TrackedExist'
  <2> SUFFICES ASSUME NEW m \in Kinds, NEW d \in Containers, NEW u \in tracked'[m][d]
               PROVE  \E r \in rows' : r.kind = m /\ r.cid = d /\ r.uuid = u
    BY DEF TrackedExist
  <2>1. u \in tracked[m][d] \/ (m = kind[p] /\ d = cid[p] /\ u = nextUUID)
    BY <1>2
  <2> QED
    BY <1>1, <1>3, <2>1 DEF Rules, TrackedExist
<1>6. ASSUME NEW k \in Kinds, NEW c \in Containers, <<k, c>> \notin contested
      PROVE  WholeAt(k, c)'
  <2> SUFFICES ASSUME tracked'[k][c] # {} \/ (\E q \in Passes : At(q, k, c) /\ adds'[q] # {}),
                      NEW v \in Targets(k, c)
               PROVE  HasRule(k, c, v)' \/ \E q \in Passes : At(q, k, c) /\ v \in adds'[q]
    BY <1>1 DEF WholeAt, At, Targets, DNSTargets, NATTargets
  <2>1. tracked[k][c] # {} \/ (\E q \in Passes : At(q, k, c) /\ adds[q] # {})
    BY <1>1, <1>2 DEF At
  <2>2. HasRule(k, c, v) \/ \E q \in Passes : At(q, k, c) /\ v \in adds[q]
    BY <1>6, <2>1 DEF Rules, Whole, WholeAt
  <2>3. CASE HasRule(k, c, v)
    BY <1>1, <1>4, <2>3 DEF HasRule
  <2>4. ASSUME NEW q \in Passes, At(q, k, c), v \in adds[q], v \in adds'[q]
        PROVE  \E z \in Passes : At(z, k, c) /\ v \in adds'[z]
    BY <2>4
  <2>5. ASSUME NEW q \in Passes, At(q, k, c), v \in adds[q], v \notin adds'[q]
        PROVE  HasRule(k, c, v)'
    <3>1. q = p /\ v = t
      BY <1>1, <2>5
    <3> QED
      BY <1>1, <1>2, <1>3, <2>5, <3>1 DEF HasRule, At
  <2> QED
    BY <2>2, <2>3, <2>4, <2>5
<1>7. t \in Targets(kind[p], cid[p])
  BY DEF AddsWanted
<1>8. RulesAreAsked'
  BY <1>1, <1>3, <1>7 DEF Rules, RulesAreAsked, Owned, Targets, DNSTargets, NATTargets
<1>9. up
  BY DEF AddRule, Ownership, Down
<1>10. CleanStart'
  BY <1>1, <1>9 DEF CleanStart
<1> QED
  BY <1>5, <1>6, <1>8, <1>10, WholeKept DEF Rules

LEMMA RulesStep ==
  ASSUME AdditionsSucceed, TypeOK, Ownership, AddsWanted, Watched, Watched', Rules, Next, NoteContested
  PROVE  Rules'
<1> USE DEF router, budgets, listing, loop, pending
<1>1. ASSUME NEW c \in Containers, StartContainer(c) \/ StopContainer(c) PROVE Rules'
  BY <1>1, QuietRules DEF StartContainer, StopContainer
<1>2. CASE Startup
  BY <1>2, StartupRules
<1>3. ASSUME Crash PROVE FALSE
  BY <1>3 DEF Crash, AdditionsSucceed, TypeOK
<1>4. ASSUME NEW p \in Passes, Begin(p) PROVE Rules'
  BY <1>4, QuietRules DEF Begin
<1>5. ASSUME NEW p \in Passes, PassStep(p) PROVE Rules'
  <2>1. ASSUME NEW h \in Hosts, List(p, h) PROVE Rules'
    BY <2>1, QuietRules DEF List
  <2>2. CASE Known(p) \/ PruneDone(p) \/ ScanDone(p)
    BY <2>2, QuietRules DEF Known, PruneDone, ScanDone
  <2>3. ASSUME NEW k \in Kinds, NEW c \in Containers, RemoveTracked(p, k, c) PROVE Rules'
    BY <2>3, RemoveTrackedRules
  <2>4. ASSUME NEW u \in dels[p], DeleteRule(p, u) PROVE Rules'
    BY <2>4, DeleteRuleRules
  <2>5. ASSUME NEW k \in Kinds, NEW c \in Containers, CheckTracked(p, k, c) PROVE Rules'
    BY <2>5, CheckTrackedRules
  <2>6. ASSUME NEW t \in adds[p], AddRule(p, t) PROVE Rules'
    BY <2>6, AddRuleRules
  <2>7. CASE ReconfigureUnbound(p)
    BY <2>7, QuietRules DEF ReconfigureUnbound, Publish, RowsOf
  <2>8. CASE Apply(p)
    <3>1. UNCHANGED <<up, rows, tracked, adds, kind>> /\ live' \subseteq rows \cup live /\ adds[p] = {}
          /\ \A q \in Passes : q # p => cid'[q] = cid[q]
      BY <2>8 DEF Apply, Publish, RowsOf, TypeOK
    <3> QED
      BY <3>1, QuietRules
  <2> QED
    BY <1>5, <2>1, <2>2, <2>3, <2>4, <2>5, <2>6, <2>7, <2>8 DEF PassStep
<1> QED
  BY <1>1, <1>2, <1>3, <1>4, <1>5 DEF Next

----------------------------------------------------------------------------
(* What is owed *)

\* A pass in progress keeps what it has touched.
LEMMA TouchedGrows ==
  ASSUME Watched, NoteTouched, NEW q \in Passes, pc[q] = "idle" \/ pc'[q] # "idle"
  PROVE  touched[q] \subseteq touched'[q]
  BY DEF Watched, NoteTouched

\* A step that puts nothing on record, publishes nothing and forgets nothing.
LEMMA QuietOwed ==
  ASSUME Owed, UNCHANGED <<rows, live, nextUUID>>,
         \A k \in Kinds, c \in Containers : \A u : u \in OnRecord(k, c)' => u \in OnRecord(k, c),
         \A q \in Passes, k \in Kinds : Owes(q, k) => Owes(q, k)',
         \A q \in Passes : touched[q] \subseteq touched'[q]
  PROVE  Owed'
<1>1. \A r : OwedRow(r) => OwedRow(r)'
  BY DEF OwedRow
<1> QED
  BY <1>1 DEF Owed

\* Records that stay as they are.
LEMMA SameRecords ==
  ASSUME UNCHANGED <<tracked, dels>>,
         \A q \in Passes : dels[q] = {} \/ (kind'[q] = kind[q] /\ cid'[q] = cid[q])
  PROVE  \A k \in Kinds, c \in Containers : \A u : u \in OnRecord(k, c)' => u \in OnRecord(k, c)
  BY DEF OnRecord

\* UUIDs that State gives to the pass that will delete them.
LEMMA RemovedRecords ==
  ASSUME TypeOK, NEW p \in Passes, NEW k \in Kinds, NEW c \in Containers, RemoveTracked(p, k, c)
  PROVE  \A m \in Kinds, d \in Containers : \A u : u \in OnRecord(m, d)' => u \in OnRecord(m, d)
<1>1. Visit(p, k, c) /\ dels'[p] = tracked[k][c] /\ \A q \in Passes : q # p => dels'[q] = dels[q]
  BY DEF RemoveTracked, TypeOK
<1>2. kind'[p] = k /\ cid'[p] = c
      /\ \A q \in Passes : q # p => kind'[q] = kind[q] /\ cid'[q] = cid[q]
  BY <1>1, VisitType
<1>3. tracked'[k][c] = {}
      /\ \A m \in Kinds, d \in Containers : m # k \/ d # c => tracked'[m][d] = tracked[m][d]
  BY UntrackedType DEF RemoveTracked
<1> SUFFICES ASSUME NEW m \in Kinds, NEW d \in Containers, NEW u, u \in OnRecord(m, d)'
             PROVE  u \in OnRecord(m, d)
  OBVIOUS
<1>4. CASE u \in tracked'[m][d]
  BY <1>3, <1>4 DEF OnRecord
<1>5. ASSUME NEW q \in Passes, kind'[q] = m, cid'[q] = d, u \in dels'[q]
      PROVE  u \in OnRecord(m, d)
  BY <1>1, <1>2, <1>5 DEF OnRecord
<1> QED
  BY <1>4, <1>5 DEF OnRecord

\* A rule that is deleted is not on record any more.
LEMMA DeleteRuleOwed ==
  ASSUME AdditionsSucceed, TypeOK, Ownership, Watched, NoteTouched, Owed,
         NEW p \in Passes, NEW u \in dels[p], DeleteRule(p, u)
  PROVE  Owed'
<1>1. UNCHANGED <<live, nextUUID, tracked, kind, cid, pc>>
      /\ dels'[p] = dels[p] \ {u} /\ \A q \in Passes : q # p => dels'[q] = dels[q]
  BY DEF DeleteRule, TypeOK
<1>2. rows' = rows \/ rows' = {r \in rows : ~(r.kind = kind[p] /\ r.uuid = u)}
  BY DEF DeleteRule
<1>3. \A q \in Passes, k \in Kinds : Owes(q, k) => Owes(q, k)'
  BY DEF DeleteRule, Owes, TypeOK, Revised
<1>4. \A q \in Passes : touched[q] \subseteq touched'[q]
  BY <1>1, TouchedGrows
<1>5. \A k \in Kinds, c \in Containers : \A v : v \in OnRecord(k, c)' => v \in OnRecord(k, c)
  BY <1>1 DEF OnRecord
<1>6. \A r : OwedRow(r) => OwedRow(r)'
  BY <1>3, <1>4, <1>5 DEF OwedRow
<1>7. ASSUME NEW r \in rows, r \notin rows' PROVE OwedRow(r)'
  <2> SUFFICES ASSUME r.kind \in Kinds, r.cid \in Containers, r.uuid \in OnRecord(r.kind, r.cid)'
               PROVE  FALSE
    BY DEF OwedRow
  <2>1. r.kind = kind[p] /\ r.uuid = u
    BY <1>2, <1>7
  <2>2. u \notin tracked[r.kind][r.cid]
    BY <2>1 DEF Ownership, HeldOrTracked
  <2>3. ASSUME NEW q \in Passes, kind[q] = r.kind, u \in dels'[q] PROVE FALSE
    BY <1>1, <2>1, <2>3 DEF Ownership, HeldOnce
  <2> QED
    BY <1>1, <2>1, <2>2, <2>3 DEF OnRecord
<1> QED
  BY <1>1, <1>2, <1>6, <1>7 DEF Owed

\* A rule that is added is owed by the pass that added it.
LEMMA AddRuleOwed ==
  ASSUME AdditionsSucceed, TypeOK, Ownership, Watched, NoteTouched, Owed,
         NEW p \in Passes, NEW t \in adds[p], AddRule(p, t)
  PROVE  Owed'
<1>0. PICK new : new = NewRow(p, t)
  OBVIOUS
<1>1. /\ UNCHANGED <<live, pc, kind, cid, dels>>
      /\ rows' = rows \cup {new} /\ nextUUID' = nextUUID + 1
      /\ kind[p] \in Kinds /\ cid[p] \in Containers /\ <<kind[p], cid[p]>> \in InHand(p)
  BY <1>0, AddRuleDoes
<1>2. /\ tracked'[kind[p]][cid[p]] = tracked[kind[p]][cid[p]] \cup {nextUUID}
      /\ \A m \in Kinds, d \in Containers :
           m # kind[p] \/ d # cid[p] => tracked'[m][d] = tracked[m][d]
  BY AddRuleDoes
<1>3. \A q \in Passes, k \in Kinds : Owes(q, k) \/ (q = p /\ k = kind[p]) => Owes(q, k)'
  BY AddRuleDoes
<1>4. new.kind = kind[p] /\ new.cid = cid[p]
  BY <1>0 DEF NewRow
<1>5. \A q \in Passes : touched[q] \subseteq touched'[q]
  BY <1>1, TouchedGrows
<1>6. OwedRow(new)'
  <2>1. <<kind[p], cid[p]>> \in touched'[p]
    BY <1>1, <1>5 DEF Watched
  <2> QED
    BY <1>1, <1>3, <1>4, <2>1 DEF OwedRow
<1>7. \A r \in rows \cup live :
        r.uuid \in Nat /\ r.uuid < nextUUID /\ r.cid \in Containers \cup {NoCid}
  BY DEF Ownership, FreshUUIDs, Owed, TypeOK
<1>8. ASSUME NEW r \in rows \cup live, OwedRow(r) PROVE OwedRow(r)'
  <2> SUFFICES ASSUME r.kind \in Kinds, r.cid \in Containers, r.uuid \in OnRecord(r.kind, r.cid)'
               PROVE  r.uuid \in OnRecord(r.kind, r.cid)
    BY <1>3, <1>5, <1>8 DEF OwedRow
  <2>1. r.uuid # nextUUID
    BY <1>7 DEF TypeOK
  <2> QED
    BY <1>1, <1>2, <2>1 DEF OnRecord
<1>9. \A r \in live' :
        r.uuid \in Nat /\ r.uuid < nextUUID' /\ r.cid \in Containers \cup {NoCid}
  BY <1>1, <1>7 DEF TypeOK
<1> QED
  BY <1>1, <1>6, <1>8, <1>9 DEF Owed

\* What a pass publishes is not owed any more, by any pass.
LEMMA PublishOwed ==
  ASSUME TypeOK, Ownership, Owed, NEW k \in Kinds,
         UNCHANGED <<rows, nextUUID>>, live' = RowsOf(k, rows) \cup {r \in live : r.kind # k},
         \A m \in Kinds, c \in Containers : \A u : u \in OnRecord(m, c)' => u \in OnRecord(m, c),
         \A q \in Passes, m \in Kinds, c \in Containers :
           m # k /\ Owes(q, m) /\ <<m, c>> \in touched[q] => Owes(q, m)' /\ <<m, c>> \in touched'[q]
  PROVE  Owed'
<1>1. \A r \in live' :
        r.uuid \in Nat /\ r.uuid < nextUUID' /\ r.cid \in Containers \cup {NoCid}
  BY DEF Owed, Ownership, FreshUUIDs, RowsOf, TypeOK
<1>2. ASSUME NEW r \in (rows' \ live') \cup (live' \ rows') PROVE OwedRow(r)'
  <2>1. r.kind # k /\ r \in (rows \ live) \cup (live \ rows)
    BY <1>2 DEF RowsOf
  <2> QED
    BY <2>1 DEF Owed, OwedRow
<1> QED
  BY <1>1, <1>2 DEF Owed

\* A pass that ends owes nothing.
LEMMA ApplyOwed ==
  ASSUME AdditionsSucceed, TypeOK, Ownership, Watched, NoteTouched, Owed, NEW p \in Passes, Apply(p)
  PROVE  Owed'
<1>1. /\ UNCHANGED <<rows, nextUUID, tracked, dels, kind, dnsChanged>>
      /\ pc[p] = "publish" /\ ~dnsChanged[p] /\ dels[p] = {}
      /\ \A q \in Passes : q # p => pc'[q] = pc[q] /\ cid'[q] = cid[q] /\ natRevision'[q] = natRevision[q]
  BY DEF Apply, TypeOK
<1>2. \A k \in Kinds, c \in Containers : \A u : u \in OnRecord(k, c)' => u \in OnRecord(k, c)
  BY <1>1, SameRecords
<1>3. \A q \in Passes : q # p => touched[q] \subseteq touched'[q]
  BY <1>1, TouchedGrows
<1>4. \A q \in Passes, k \in Kinds : q # p /\ Owes(q, k) => Owes(q, k)'
  BY <1>1 DEF Owes
<1>5. CASE natRevision[p]
  <2>1. live' = RowsOf("nat", rows) \cup {r \in live : r.kind # "nat"}
    BY <1>5 DEF Apply, Publish, Meets, AdditionsSucceed
  <2>2. ~Owes(p, "dns")
    BY <1>1 DEF Owes
  <2>3. \A q \in Passes, m \in Kinds, c \in Containers :
          m # "nat" /\ Owes(q, m) /\ <<m, c>> \in touched[q] => Owes(q, m)' /\ <<m, c>> \in touched'[q]
    BY <1>3, <1>4, <2>2 DEF Kinds
  <2> QED
    BY <1>1, <1>2, <2>1, <2>3, PublishOwed DEF Kinds
<1>6. CASE ~natRevision[p]
  <2>1. live' = live
    BY <1>6 DEF Apply
  <2>2. \A k \in Kinds : ~Owes(p, k)
    BY <1>1, <1>6 DEF Owes
  <2>3. \A r : OwedRow(r) => OwedRow(r)'
    BY <1>2, <1>3, <1>4, <2>2 DEF OwedRow
  <2> QED
    BY <1>1, <2>1, <2>3 DEF Owed
<1> QED
  BY <1>5, <1>6

LEMMA OwedStep ==
  ASSUME AdditionsSucceed, TypeOK, Ownership, Rules, Watched, NoteTouched, NoteContested, Owed, Next
  PROVE  Owed'
<1> USE DEF router, budgets, listing, loop, pending
<1>1. ASSUME NEW c \in Containers, StartContainer(c) \/ StopContainer(c) PROVE Owed'
  <2>1. UNCHANGED <<rows, live, nextUUID, tracked, dels, kind, cid, pc, dnsChanged, natRevision>>
    BY <1>1 DEF StartContainer, StopContainer
  <2> QED
    BY <2>1, QuietOwed, SameRecords, TouchedGrows DEF Owes
<1>2. CASE Startup
  <2>1. UNCHANGED <<rows, live, nextUUID>> /\ \A r \in rows \cup live : ~Owned(r)
    BY <1>2 DEF Startup, Rules, CleanStart
  <2>2. \A r \in rows \cup live : OwedRow(r)'
    BY <2>1, ContainersAssumption DEF OwedRow, Owned
  <2> QED
    BY <2>1, <2>2 DEF Owed
<1>3. ASSUME Crash PROVE FALSE
  BY <1>3 DEF Crash, AdditionsSucceed, TypeOK
<1>4. ASSUME NEW p \in Passes, Begin(p) PROVE Owed'
  <2>1. UNCHANGED <<rows, live, nextUUID, tracked, dels, kind, cid, dnsChanged, natRevision>>
        /\ \A q \in Passes : pc[q] = "idle" \/ pc'[q] # "idle"
    BY <1>4 DEF Begin, TypeOK
  <2> QED
    BY <2>1, QuietOwed, SameRecords, TouchedGrows DEF Owes
<1>5. ASSUME NEW p \in Passes, PassStep(p) PROVE Owed'
  <2>1. ASSUME NEW h \in Hosts, List(p, h) PROVE Owed'
    <3>1. UNCHANGED <<rows, live, nextUUID, tracked, dels, kind, cid, pc, dnsChanged, natRevision>>
      BY <2>1 DEF List
    <3> QED
      BY <3>1, QuietOwed, SameRecords, TouchedGrows DEF Owes
  <2>2. CASE Known(p) \/ PruneDone(p) \/ ScanDone(p)
    <3>1. UNCHANGED <<rows, live, nextUUID, tracked, dels, kind, cid, dnsChanged, natRevision>>
          /\ \A q \in Passes : pc[q] = "idle" \/ pc'[q] # "idle"
      BY <2>2 DEF Known, PruneDone, ScanDone, TypeOK
    <3> QED
      BY <3>1, QuietOwed, SameRecords, TouchedGrows DEF Owes
  <2>3. ASSUME NEW k \in Kinds, NEW c \in Containers, RemoveTracked(p, k, c) PROVE Owed'
    <3>1. UNCHANGED <<rows, live, nextUUID, pc, dnsChanged, natRevision>>
      BY <2>3 DEF RemoveTracked
    <3> QED
      BY <2>3, <3>1, QuietOwed, RemovedRecords, TouchedGrows DEF Owes
  <2>4. ASSUME NEW u \in dels[p], DeleteRule(p, u) PROVE Owed'
    BY <2>4, DeleteRuleOwed
  <2>5. ASSUME NEW k \in Kinds, NEW c \in Containers, CheckTracked(p, k, c) PROVE Owed'
    <3>1. UNCHANGED <<rows, live, nextUUID, tracked, dels, pc, dnsChanged, natRevision>> /\ Visit(p, k, c)
      BY <2>5 DEF CheckTracked
    <3> QED
      BY <3>1, VisitType, QuietOwed, SameRecords, TouchedGrows DEF Owes
  <2>6. ASSUME NEW t \in adds[p], AddRule(p, t) PROVE Owed'
    BY <2>6, AddRuleOwed
  <2>7. CASE ReconfigureUnbound(p)
    <3>1. UNCHANGED <<rows, nextUUID, tracked, dels, kind, cid, pc, natRevision>>
      BY <2>7 DEF ReconfigureUnbound
    <3>2. live' = RowsOf("dns", rows) \cup {r \in live : r.kind # "dns"}
      BY <2>7 DEF ReconfigureUnbound, Publish, Meets, AdditionsSucceed
    <3>3. \A q \in Passes : touched[q] \subseteq touched'[q]
      BY <3>1, TouchedGrows
    <3>4. \A k \in Kinds, c \in Containers : \A u : u \in OnRecord(k, c)' => u \in OnRecord(k, c)
      BY <3>1, SameRecords
    <3>5. \A q \in Passes, m \in Kinds : m # "dns" /\ Owes(q, m) => Owes(q, m)'
      BY <3>1 DEF Owes
    <3> QED
      BY <3>1, <3>2, <3>3, <3>4, <3>5, PublishOwed DEF Kinds
  <2>8. CASE Apply(p)
    BY <2>8, ApplyOwed
  <2> QED
    BY <1>5, <2>1, <2>2, <2>3, <2>4, <2>5, <2>6, <2>7, <2>8 DEF PassStep
<1> QED
  BY <1>1, <1>2, <1>3, <1>4, <1>5 DEF Next

----------------------------------------------------------------------------
(* How far a pass has come *)

\* What an overlapping pass does is disturbing.
LEMMA OthersProgress ==
  ASSUME Watched, Watched', NoteDisturbed, NEW q \in Passes, Progress(q),
         UNCHANGED <<pc[q], current[q], todo[q], kind[q], cid[q], adds[q]>>,
         \A k \in Kinds, c \in Containers : tracked'[k][c] # tracked[k][c] =>
           \E p \in Passes \ {q} : <<k, c>> \in InHand(p) \/ <<k, c>> \in InHand(p)'
  PROVE  Progress(q)'
<1>1. CASE pc[q] = "idle"
  BY <1>1 DEF Progress, PrunedSoFar, ScannedSoFar
<1>2. CASE pc[q] # "idle"
  <2>1. disturbed[q] \subseteq disturbed'[q]
    BY <1>2 DEF NoteDisturbed
  <2>2. \A p \in Passes \ {q} : InHand(p) \subseteq disturbed[q] /\ InHand(p)' \subseteq disturbed'[q]
    BY <1>2 DEF Watched
  <2>3. \A k \in Kinds, c \in Containers : <<k, c>> \notin disturbed'[q] =>
          <<k, c>> \notin disturbed[q] /\ tracked'[k][c] = tracked[k][c]
    BY <2>1, <2>2
  <2>4. PrunedSoFar(q)'
    BY <2>3 DEF Progress, PrunedSoFar, StillToVisit
  <2>5. ScannedSoFar(q)'
    BY <2>3 DEF Progress, ScannedSoFar, StillToVisit, At, Targets, DNSTargets, NATTargets
  <2> QED
    BY <2>4, <2>5 DEF Progress
<1> QED
  BY <1>1, <1>2

\* A pass outside its loops.
LEMMA OutsideLoops ==
  ASSUME TypeOK', NEW p \in Passes, pc'[p] \in {"idle", "list"}
  PROVE  Progress(p)'
<1>1. kind'[p] # "dns"
  BY DEF TypeOK
<1> QED
  BY <1>1 DEF Progress, PrunedSoFar, ScannedSoFar

\* What pass p has for itself after a step, it had before.
LEMMA Undisturbed ==
  ASSUME NoteDisturbed, NEW p \in Passes, pc'[p] # "idle"
  PROVE  \A e : e \notin disturbed'[p] => e \notin disturbed[p]
  BY DEF NoteDisturbed

\* The loops begin: with the containers to release, with the containers listed.
LEMMA LoopBegins ==
  ASSUME TypeOK, NoteDisturbed, NEW p \in Passes, Progress(p),
         Known(p) \/ PruneDone(p) \/ ScanDone(p)
  PROVE  Progress(p)'
<1> USE DEF router, budgets, listing, loop, pending
<1>1. UNCHANGED <<tracked, current, cid, kind, dels, adds>>
  BY DEF Known, PruneDone, ScanDone
<1>2. dels[p] = {} /\ adds[p] = {} /\ kind[p] # "dns"
  BY DEF Known, PruneDone, ScanDone, LoopDone, TypeOK
<1>3. pc'[p] \in {"prune", "scan", "publish"}
  BY DEF Known, PruneDone, ScanDone, TypeOK
<1>4. \A e : e \notin disturbed'[p] => e \notin disturbed[p]
  BY <1>3, Undisturbed
<1>5. ASSUME Known(p) PROVE PrunedSoFar(p)' /\ ScannedSoFar(p)'
  <2>1. pc'[p] = "prune" /\ todo'[p] = Stale(p)
    BY <1>5 DEF Known, TypeOK
  <2>2. PrunedSoFar(p)'
    BY <1>1, <2>1 DEF PrunedSoFar, StillToVisit, Stale
  <2>3. ScannedSoFar(p)'
    BY <2>1 DEF ScannedSoFar
  <2> QED
    BY <2>2, <2>3
<1>6. ASSUME PruneDone(p) PROVE PrunedSoFar(p)' /\ ScannedSoFar(p)'
  <2>1. pc'[p] = "scan" /\ todo'[p] = current[p] /\ pc[p] = "prune" /\ todo[p] = {}
    BY <1>6 DEF PruneDone, LoopDone, TypeOK
  <2>2. PrunedSoFar(p)'
    BY <1>1, <1>2, <1>4, <2>1 DEF Progress, PrunedSoFar, StillToVisit
  <2>3. ScannedSoFar(p)'
    BY <1>1, <1>2, <2>1 DEF ScannedSoFar, StillToVisit
  <2> QED
    BY <2>2, <2>3
<1>7. ASSUME ScanDone(p) PROVE PrunedSoFar(p)' /\ ScannedSoFar(p)'
  <2>1. pc'[p] = "publish" /\ pc[p] = "scan" /\ todo[p] = {}
    BY <1>7 DEF ScanDone, LoopDone, TypeOK
  <2>2. PrunedSoFar(p)'
    BY <1>1, <1>4, <2>1 DEF Progress, PrunedSoFar
  <2>3. ScannedSoFar(p)'
    BY <1>1, <1>2, <1>4, <2>1
       DEF Progress, ScannedSoFar, StillToVisit, Targets, DNSTargets, NATTargets
  <2> QED
    BY <2>2, <2>3
<1> QED
  BY <1>1, <1>2, <1>5, <1>6, <1>7 DEF Progress

\* The container that is visited in the first loop is released.
LEMMA RemoveTrackedProgress ==
  ASSUME TypeOK, NoteDisturbed, NEW p \in Passes, Progress(p),
         NEW k \in Kinds, NEW c \in Containers, RemoveTracked(p, k, c)
  PROVE  Progress(p)'
<1> USE DEF router, budgets, listing, loop, pending
<1>1. UNCHANGED <<pc, current>> /\ pc[p] = "prune" /\ Visit(p, k, c)
  BY DEF RemoveTracked
<1>2. kind'[p] = k /\ cid'[p] = c /\ todo'[p] = todo[p] \ {c}
  BY <1>1, VisitType DEF Visit, TypeOK
<1>3. tracked'[k][c] = {}
      /\ \A m \in Kinds, d \in Containers : m # k \/ d # c => tracked'[m][d] = tracked[m][d]
  BY UntrackedType DEF RemoveTracked
<1>4. \A e : e \notin disturbed'[p] => e \notin disturbed[p]
  BY <1>1, Undisturbed
<1>5. ASSUME NEW m \in Kinds, NEW d \in Containers, d \notin current[p], tracked'[m][d] # {},
             <<m, d>> \notin disturbed'[p]
      PROVE  d \in todo'[p] \/ (k = "dns" /\ m = "nat" /\ d = c)
  <2>1. m # k \/ d # c
    BY <1>3, <1>5
  <2>2. StillToVisit(p, m, d)
    BY <1>1, <1>3, <1>4, <1>5, <2>1 DEF Progress, PrunedSoFar
  <2>3. CASE kind[p] = "dns"
    <3>1. k = "nat" /\ c = cid[p] /\ c \notin todo[p]
      BY <1>1, <2>3 DEF Visit, IsNext, Progress
    <3> QED
      BY <1>2, <2>1, <2>2, <3>1 DEF StillToVisit
  <2>4. CASE kind[p] # "dns"
    <3>1. k = "dns" /\ d \in todo[p]
      BY <1>1, <2>2, <2>4 DEF Visit, IsNext, StillToVisit
    <3> QED
      BY <1>2, <2>1, <3>1 DEF Kinds
  <2> QED
    BY <2>3, <2>4
<1>6. PrunedSoFar(p)'
  BY <1>1, <1>2, <1>5 DEF PrunedSoFar, StillToVisit
<1>7. ScannedSoFar(p)'
  BY <1>1 DEF ScannedSoFar
<1> QED
  BY <1>2, <1>6, <1>7 DEF Progress

\* The container that is visited in the second loop has rules on record, asks for
\* none, or has them at hand.
LEMMA CheckTrackedProgress ==
  ASSUME TypeOK, NoteDisturbed, NEW p \in Passes, Progress(p),
         NEW k \in Kinds, NEW c \in Containers, CheckTracked(p, k, c)
  PROVE  Progress(p)'
<1>1. UNCHANGED <<tracked, pc, current>> /\ pc[p] = "scan" /\ Visit(p, k, c)
  BY DEF CheckTracked, listing
<1>2. kind'[p] = k /\ cid'[p] = c /\ adds[p] = {} /\ todo'[p] = todo[p] \ {c}
  BY <1>1, VisitType DEF Visit, TypeOK
<1>3. adds'[p] = IF tracked[k][c] # {} THEN {} ELSE Targets(k, c)
  BY DEF CheckTracked, Missing, TypeOK
<1>4. \A e : e \notin disturbed'[p] => e \notin disturbed[p]
  BY <1>1, Undisturbed
<1>5. PrunedSoFar(p)'
  BY <1>1, <1>4 DEF Progress, PrunedSoFar
<1>6. c \in current[p] /\ todo[p] \subseteq current[p]
  BY <1>1 DEF Progress, ScannedSoFar, Visit, IsNext
<1>7. ASSUME NEW m \in Kinds, NEW d \in Containers, d \in current[p], tracked[m][d] = {},
             <<m, d>> \notin disturbed'[p]
      PROVE  \/ Targets(m, d) = {}
             \/ d \in todo'[p] \/ (k = "dns" /\ m = "nat" /\ d = c)
             \/ m = k /\ d = c /\ adds'[p] # {}
  <2>1. CASE m = k /\ d = c
    BY <1>3, <1>7, <2>1
  <2>2. CASE ~(m = k /\ d = c)
    <3>1. Targets(m, d) = {} \/ StillToVisit(p, m, d)
      BY <1>1, <1>2, <1>4, <1>7 DEF Progress, ScannedSoFar
    <3>2. CASE kind[p] = "dns"
      <4>1. k = "nat" /\ c = cid[p] /\ c \notin todo[p]
        BY <1>1, <3>2 DEF Visit, IsNext, Progress
      <4> QED
        BY <1>2, <2>2, <3>1, <4>1 DEF StillToVisit
    <3>3. CASE kind[p] # "dns"
      <4>1. k = "dns" /\ (Targets(m, d) = {} \/ d \in todo[p])
        BY <1>1, <3>1, <3>3 DEF Visit, IsNext, StillToVisit
      <4> QED
        BY <1>2, <2>2, <4>1 DEF Kinds
    <3> QED
      BY <3>2, <3>3
  <2> QED
    BY <2>1, <2>2
<1>8. ScannedSoFar(p)'
  BY <1>1, <1>2, <1>6, <1>7 DEF ScannedSoFar, StillToVisit, At, Targets, DNSTargets, NATTargets
<1> QED
  BY <1>2, <1>5, <1>8 DEF Progress

\* Once the first target at hand has become a rule, the container has one on record.
LEMMA AddRuleProgress ==
  ASSUME AdditionsSucceed, TypeOK, NoteDisturbed, NEW p \in Passes, Progress(p),
         NEW t \in adds[p], AddRule(p, t)
  PROVE  Progress(p)'
<1>1. UNCHANGED <<pc, current, todo, kind, cid>> /\ pc[p] = "scan"
      /\ adds'[p] = adds[p] \ {t} /\ kind[p] \in Kinds /\ cid[p] \in Containers
  BY AddRuleDoes
<1>2. /\ tracked'[kind[p]][cid[p]] # {}
      /\ \A m \in Kinds, d \in Containers :
           m # kind[p] \/ d # cid[p] => tracked'[m][d] = tracked[m][d]
  BY AddRuleDoes
<1>3. \A e : e \notin disturbed'[p] => e \notin disturbed[p]
  BY <1>1, Undisturbed
<1>4. cid[p] \in current[p] /\ todo[p] \subseteq current[p]
  BY <1>1 DEF Progress, ScannedSoFar
<1>5. PrunedSoFar(p)'
  BY <1>1, <1>2, <1>3, <1>4 DEF Progress, PrunedSoFar
<1>6. ASSUME NEW k \in Kinds, NEW c \in Containers, c \in current[p], tracked'[k][c] = {},
             <<k, c>> \notin disturbed'[p]
      PROVE  Targets(k, c) = {} \/ StillToVisit(p, k, c)
  <2>1. tracked[k][c] = {} /\ ~At(p, k, c)
    BY <1>2, <1>6 DEF At
  <2> QED
    BY <1>1, <1>3, <1>6, <2>1 DEF Progress, ScannedSoFar
<1>7. ScannedSoFar(p)'
  BY <1>1, <1>4, <1>6 DEF ScannedSoFar, StillToVisit, Targets, DNSTargets, NATTargets
<1> QED
  BY <1>1, <1>5, <1>7 DEF Progress

\* A step that changes no record, and of the passes at most p.
LEMMA OwnProgress ==
  ASSUME Watched, Watched', NoteDisturbed, \A q \in Passes : Progress(q), tracked' = tracked,
         NEW p \in Passes, Progress(p)',
         \A q \in Passes : q # p =>
           UNCHANGED <<pc[q], current[q], todo[q], kind[q], cid[q], adds[q]>>
  PROVE  \A q \in Passes : Progress(q)'
  BY OthersProgress

LEMMA ProgressStep ==
  ASSUME AdditionsSucceed, TypeOK, TypeOK', Ownership, NoteContested, Rules, Watched, Watched',
         NoteDisturbed, \A q \in Passes : Progress(q), Next
  PROVE  \A q \in Passes : Progress(q)'
<1> USE DEF router, budgets, listing, loop, pending
<1>1. ASSUME NEW c \in Containers, StartContainer(c) \/ StopContainer(c)
      PROVE  \A q \in Passes : Progress(q)'
  <2>1. UNCHANGED <<tracked, pc, current, todo, kind, cid, adds>>
    BY <1>1 DEF StartContainer, StopContainer
  <2> QED
    BY <2>1, OthersProgress
<1>2. CASE Startup
  BY <1>2, OutsideLoops DEF Startup, Ownership, Down
<1>3. ASSUME Crash PROVE FALSE
  BY <1>3 DEF Crash, AdditionsSucceed, TypeOK
<1>4. ASSUME NEW p \in Passes, Begin(p) PROVE \A q \in Passes : Progress(q)'
  <2>1. pc'[p] = "list" /\ UNCHANGED <<tracked, todo, kind, cid, adds>>
        /\ \A q \in Passes : q # p => pc'[q] = pc[q] /\ current'[q] = current[q]
    BY <1>4 DEF Begin, TypeOK
  <2>2. Progress(p)'
    BY <2>1, OutsideLoops
  <2> QED
    BY <2>1, <2>2, OwnProgress
<1>5. ASSUME NEW p \in Passes, PassStep(p) PROVE \A q \in Passes : Progress(q)'
  <2>1. ASSUME NEW h \in Hosts, List(p, h) PROVE \A q \in Passes : Progress(q)'
    <3>1. UNCHANGED <<tracked, pc, todo, kind, cid, adds>> /\ pc[p] = "list"
          /\ \A q \in Passes : q # p => current'[q] = current[q]
      BY <2>1 DEF List, TypeOK
    <3>2. Progress(p)'
      BY <3>1, OutsideLoops
    <3> QED
      BY <3>1, <3>2, OwnProgress
  <2>2. CASE Known(p) \/ PruneDone(p) \/ ScanDone(p)
    <3>1. UNCHANGED <<tracked, current, kind, cid, adds>>
          /\ \A q \in Passes : q # p => pc'[q] = pc[q] /\ todo'[q] = todo[q]
      BY <2>2 DEF Known, PruneDone, ScanDone, TypeOK
    <3>2. Progress(p)'
      BY <2>2, LoopBegins
    <3> QED
      BY <3>1, <3>2, OwnProgress
  <2>3. ASSUME NEW k \in Kinds, NEW c \in Containers, RemoveTracked(p, k, c)
        PROVE  \A q \in Passes : Progress(q)'
    <3>1. UNCHANGED <<pc, current, adds>> /\ Visit(p, k, c) /\ dels'[p] = tracked[k][c]
      BY <2>3 DEF RemoveTracked, TypeOK
    <3>2. kind'[p] = k /\ cid'[p] = c /\ \A q \in Passes : q # p =>
            todo'[q] = todo[q] /\ kind'[q] = kind[q] /\ cid'[q] = cid[q]
      BY <3>1, VisitType DEF Visit, TypeOK
    <3>3. ASSUME NEW m \in Kinds, NEW d \in Containers, tracked'[m][d] # tracked[m][d]
          PROVE  <<m, d>> \in InHand(p)'
      <4>1. m = k /\ d = c /\ tracked'[k][c] = {}
        BY <2>3, <3>3, UntrackedType DEF RemoveTracked
      <4> QED
        BY <3>1, <3>2, <3>3, <4>1 DEF InHand
    <3>4. \A q \in Passes : q # p => Progress(q)'
      BY <3>1, <3>2, <3>3, OthersProgress
    <3> QED
      BY <2>3, <3>4, RemoveTrackedProgress
  <2>4. ASSUME NEW u \in dels[p], DeleteRule(p, u) PROVE \A q \in Passes : Progress(q)'
    <3>1. UNCHANGED <<tracked, pc, current, todo, kind, cid, adds>>
      BY <2>4 DEF DeleteRule
    <3> QED
      BY <3>1, OthersProgress
  <2>5. ASSUME NEW k \in Kinds, NEW c \in Containers, CheckTracked(p, k, c)
        PROVE  \A q \in Passes : Progress(q)'
    <3>1. UNCHANGED <<tracked, pc, current>> /\ Visit(p, k, c)
          /\ \A q \in Passes : q # p => adds'[q] = adds[q]
      BY <2>5 DEF CheckTracked, TypeOK
    <3>2. \A q \in Passes : q # p =>
            todo'[q] = todo[q] /\ kind'[q] = kind[q] /\ cid'[q] = cid[q]
      BY <3>1, VisitType DEF Visit, TypeOK
    <3>3. Progress(p)'
      BY <2>5, CheckTrackedProgress
    <3> QED
      BY <3>1, <3>2, <3>3, OwnProgress
  <2>6. ASSUME NEW t \in adds[p], AddRule(p, t) PROVE \A q \in Passes : Progress(q)'
    <3>1. UNCHANGED <<pc, current, todo, kind, cid>> /\ <<kind[p], cid[p]>> \in InHand(p)
          /\ \A q \in Passes : q # p => adds'[q] = adds[q]
      BY <2>6, AddRuleDoes
    <3>2. \A m \in Kinds, d \in Containers :
            tracked'[m][d] # tracked[m][d] => <<m, d>> \in InHand(p)
      BY <2>6, <3>1, AddRuleDoes
    <3>3. \A q \in Passes : q # p => Progress(q)'
      BY <3>1, <3>2, OthersProgress
    <3> QED
      BY <2>6, <3>3, AddRuleProgress
  <2>7. CASE ReconfigureUnbound(p)
    <3>1. UNCHANGED <<tracked, pc, current, todo, kind, cid, adds>>
      BY <2>7 DEF ReconfigureUnbound
    <3> QED
      BY <3>1, OthersProgress
  <2>8. CASE Apply(p)
    <3>1. pc'[p] = "idle" /\ UNCHANGED <<tracked, todo, kind, adds>>
          /\ \A q \in Passes : q # p => pc'[q] = pc[q] /\ current'[q] = current[q] /\ cid'[q] = cid[q]
      BY <2>8 DEF Apply, TypeOK
    <3>2. Progress(p)'
      BY <3>1, OutsideLoops
    <3> QED
      BY <3>1, <3>2, OwnProgress
  <2> QED
    BY <1>5, <2>1, <2>2, <2>3, <2>4, <2>5, <2>6, <2>7, <2>8 DEF PassStep
<1> QED
  BY <1>1, <1>2, <1>3, <1>4, <1>5 DEF Next

----------------------------------------------------------------------------
(* What a pass that ends has done *)

Work == Rules /\ Owed /\ \A p \in Passes : Progress(p)

LEMMA WorkInit == HistoryInit => Work
<1> SUFFICES ASSUME HistoryInit PROVE Work
  OBVIOUS
<1>1. Init
  BY DEF HistoryInit
<1>2. \A r \in rows \cup live : ~Owned(r)
  BY <1>1, ForeignAssumption DEF Init, Owned
<1>3. \A k \in Kinds, c \in Containers : tracked[k][c] = {}
  BY <1>1 DEF Init
<1>4. \A p \in Passes : pc[p] = "idle" /\ adds[p] = {} /\ kind[p] = "nat"
  BY <1>1 DEF Init
<1>5. Rules
  BY <1>2, <1>3, <1>4 DEF Rules, CleanStart, RulesAreAsked, TrackedExist, Whole, WholeAt
<1>6. Owed
  BY <1>1, ForeignAssumption DEF Init, Owed
<1>7. \A p \in Passes : Progress(p)
  BY <1>3, <1>4 DEF Progress, PrunedSoFar, ScannedSoFar
<1> QED
  BY <1>5, <1>6, <1>7 DEF Work

LEMMA WorkStep ==
  ASSUME AdditionsSucceed, TypeOK, TypeOK', Ownership, AddsWanted, Watched, Watched', Work,
         [HistoryNext]_historyVars
  PROVE  Work'
<1>1. CASE UNCHANGED vars /\ UNCHANGED history
  <2>1. Rules'
    <3>1. UNCHANGED <<up, rows, live, tracked, kind, cid, adds, contested>>
      BY <1>1 DEF vars, router, loop, history
    <3>2. CleanStart' /\ RulesAreAsked' /\ TrackedExist'
      BY <3>1 DEF Work, Rules, CleanStart, RulesAreAsked, TrackedExist, Owned, Targets,
                  DNSTargets, NATTargets
    <3>3. ASSUME NEW k \in Kinds, NEW c \in Containers PROVE WholeAt(k, c)' <=> WholeAt(k, c)
      BY <3>1 DEF WholeAt, HasRule, At, Targets, DNSTargets, NATTargets
    <3>4. Whole'
      BY <3>1, <3>3 DEF Work, Rules, Whole
    <3> QED
      BY <3>2, <3>4 DEF Rules
  <2>2. Owed'
    BY <1>1 DEF vars, router, loop, pending, history, Work, Owed, OwedRow, Owes, OnRecord
  <2>3. \A p \in Passes : Progress(p)'
    BY <1>1 DEF vars, listing, loop, history, Work, Progress, PrunedSoFar, ScannedSoFar,
                StillToVisit, At, Targets, DNSTargets, NATTargets
  <2> QED
    BY <2>1, <2>2, <2>3 DEF Work
<1>2. CASE Next /\ NoteTouched /\ NoteDisturbed /\ NoteContested
  <2>1. Rules'
    BY <1>2, RulesStep DEF Work
  <2>2. Owed'
    BY <1>2, OwedStep DEF Work
  <2>3. \A p \in Passes : Progress(p)'
    BY <1>2, ProgressStep DEF Work
  <2> QED
    BY <2>1, <2>2, <2>3 DEF Work
<1> QED
  BY <1>1, <1>2, HistorySteps

\* The only step that takes a pass from its calls to the services to rest.
LEMMA EndsByApply ==
  ASSUME AdditionsSucceed, TypeOK, [Next]_vars,
         NEW p \in Passes, pc[p] = "publish", pc'[p] = "idle"
  PROVE  Apply(p)
<1> USE DEF router, budgets, listing, loop, pending
<1>1. pc'[p] # pc[p]
  OBVIOUS
<1>2. ASSUME NEW c \in Containers, StartContainer(c) \/ StopContainer(c) PROVE FALSE
  BY <1>1, <1>2 DEF StartContainer, StopContainer
<1>3. ~Startup
  BY <1>1 DEF Startup
<1>4. ~Crash
  BY DEF Crash, AdditionsSucceed, TypeOK
<1>5. ASSUME NEW q \in Passes, Begin(q) PROVE FALSE
  BY <1>1, <1>5 DEF Begin, TypeOK
<1>6. ASSUME NEW q \in Passes, PassStep(q) PROVE Apply(p)
  <2>1. ASSUME NEW h \in Hosts, List(q, h) PROVE FALSE
    BY <1>1, <2>1 DEF List
  <2>2. ASSUME NEW k \in Kinds, NEW c \in Containers, RemoveTracked(q, k, c) \/ CheckTracked(q, k, c)
        PROVE  FALSE
    BY <1>1, <2>2 DEF RemoveTracked, CheckTracked
  <2>3. ASSUME NEW u, DeleteRule(q, u) \/ AddRule(q, u) PROVE FALSE
    BY <1>1, <2>3 DEF DeleteRule, AddRule
  <2>4. ~(Known(q) \/ PruneDone(q) \/ ScanDone(q) \/ ReconfigureUnbound(q))
    BY <1>1 DEF Known, PruneDone, ScanDone, ReconfigureUnbound, TypeOK
  <2>5. ASSUME Apply(q) PROVE q = p
    BY <1>1, <2>5 DEF Apply, TypeOK
  <2> QED
    BY <1>6, <2>1, <2>2, <2>3, <2>4, <2>5 DEF PassStep
<1> QED
  BY <1>1, <1>2, <1>3, <1>4, <1>5, <1>6 DEF Next, vars

\* The last step of a pass: of what it had for itself nothing is unpublished, nothing
\* is left of a container it did not list, and everything is there of one it listed.
LEMMA PassEnds ==
  ASSUME TypeOK, Watched, Work, Owed', NoteTouched, NEW p \in Passes, Apply(p), NEW k \in Kinds
  PROVE  /\ \A e \in Provides(k, live)' :
              e \in Asked(k, current[p]) \/ <<k, e[1]>> \in disturbed[p]
         /\ \A e \in Asked(k, current[p]) :
              e \in Provides(k, live)' \/ <<k, e[1]>> \in disturbed[p] \cup contested
<1>1. /\ pc[p] = "publish" /\ UNCHANGED <<rows, tracked, dels, kind, dnsChanged>>
      /\ ~dnsChanged[p] /\ natRevision'[p] = FALSE /\ dels[p] = {} /\ adds[p] = {}
      /\ \A q \in Passes : q # p => pc'[q] = pc[q] /\ cid'[q] = cid[q] /\ adds'[q] = adds[q]
  BY DEF Apply, TypeOK
<1>2. \A q \in Passes : q # p => touched[q] \subseteq disturbed[p] /\ InHand(q) \subseteq disturbed[p]
  BY <1>1 DEF Watched
<1>3. \A q \in Passes : q # p => touched'[q] \subseteq disturbed[p]
  BY <1>1, <1>2 DEF NoteTouched, InHand
<1>4. ASSUME NEW r \in (rows' \ live') \cup (live' \ rows'), r.kind = k, r.cid \in Containers,
             r.uuid \in OnRecord(k, r.cid)'
      PROVE  <<k, r.cid>> \in disturbed[p]
  <2>1. PICK q \in Passes : Owes(q, k)' /\ <<k, r.cid>> \in touched'[q]
    BY <1>4 DEF Owed, OwedRow
  <2>2. q # p
    BY <1>1, <2>1 DEF Owes
  <2> QED
    BY <1>3, <2>1, <2>2
<1>5. ASSUME NEW c \in Containers, NEW u \in OnRecord(k, c)', <<k, c>> \notin disturbed[p]
      PROVE  u \in tracked[k][c]
  <2>1. ASSUME NEW q \in Passes, kind'[q] = k, cid'[q] = c, u \in dels'[q] PROVE FALSE
    <3>1. q # p /\ <<k, c>> \in InHand(q)
      BY <1>1, <2>1 DEF InHand
    <3> QED
      BY <1>2, <1>5, <3>1
  <2> QED
    BY <1>1, <1>5, <2>1 DEF OnRecord
<1>6. ASSUME NEW e \in Provides(k, live)', <<k, e[1]>> \notin disturbed[p]
      PROVE  e \in Asked(k, current[p])
  <2>1. PICK r \in live' : r.kind = k /\ Owned(r) /\ e = <<r.cid, r.target>>
                           /\ r.uuid \in OnRecord(k, r.cid)'
    BY <1>6 DEF Provides, Provided, Owned
  <2>2. e[1] = r.cid
    BY <2>1
  <2>3. r.cid \in Containers /\ r \in rows
    <3>1. r.cid \in Containers
      BY <2>1 DEF Owed, Owned
    <3>2. r \in rows'
      BY <1>4, <1>6, <2>1, <2>2, <3>1
    <3> QED
      BY <1>1, <3>1, <3>2
  <2>4. tracked[k][r.cid] # {}
    BY <1>5, <1>6, <2>1, <2>2, <2>3
  <2>5. r.cid \in current[p]
    BY <1>1, <1>6, <2>2, <2>3, <2>4 DEF Work, Progress, PrunedSoFar
  <2>6. r.target \in Targets(k, r.cid)
    BY <2>1, <2>3 DEF Work, Rules, RulesAreAsked
  <2>7. e \in {r.cid} \X Targets(k, r.cid)
    BY <2>1, <2>6
  <2> QED
    BY <2>5, <2>7 DEF Asked
<1>7. ASSUME NEW e \in Asked(k, current[p]), <<k, e[1]>> \notin disturbed[p] \cup contested
      PROVE  e \in Provides(k, live)'
  <2>1. PICK c \in current[p] : e \in {c} \X Targets(k, c)
    BY <1>7 DEF Asked
  <2>2. PICK t \in Targets(k, c) : e = <<c, t>>
    BY <2>1
  <2>3. c \in Containers /\ e[1] = c
    BY <2>2 DEF TypeOK
  <2>4. tracked[k][c] # {}
    BY <1>1, <1>7, <2>2, <2>3 DEF Work, Progress, ScannedSoFar
  <2>5. HasRule(k, c, t)
    <3>1. HasRule(k, c, t) \/ \E q \in Passes : At(q, k, c) /\ t \in adds[q]
      BY <1>7, <2>3, <2>4 DEF Work, Rules, Whole, WholeAt
    <3>2. ASSUME NEW q \in Passes, At(q, k, c), t \in adds[q] PROVE FALSE
      <4>1. q # p /\ <<k, c>> \in InHand(q)
        BY <1>1, <3>2 DEF InHand, At
      <4> QED
        BY <1>2, <1>7, <2>3, <4>1
    <3> QED
      BY <3>1, <3>2
  <2>6. PICK r \in rows : r.kind = k /\ r.cid = c /\ r.target = t /\ r.uuid \in tracked[k][c]
    BY <2>5 DEF HasRule
  <2>7. r.uuid \in OnRecord(k, r.cid)' /\ Owned(r)
    BY <1>1, <2>3, <2>6, ContainersAssumption DEF OnRecord, Owned
  <2>8. r \in live'
    BY <1>1, <1>4, <1>7, <2>3, <2>6, <2>7
  <2> QED
    BY <2>2, <2>6, <2>7, <2>8 DEF Provides, Provided, Owned
<1> QED
  BY <1>6, <1>7

\* A pass that ends leaves the services with the rules of the containers it listed:
\* every one they ask for, no other of ours that is on record, whatever the passes
\* that overlap with it do to other containers and whichever deletions fail.
THEOREM PassesDoTheirWork ==
  ASSUME AdditionsSucceed PROVE HistorySpec => PassesTakeEffect
<1>1. Init => AddsWanted
  BY DEF Init, AddsWanted
<1>2. TypeOK /\ AddsWanted /\ [Next]_vars => AddsWanted'
  BY AddsWantedStep
<1>3. Spec => []AddsWanted
  BY <1>1, <1>2, TypeCorrect, PTL DEF Spec
<1>4. HistoryInit => Work
  BY WorkInit
<1>5. /\ TypeOK /\ TypeOK' /\ Ownership /\ AddsWanted /\ Watched /\ Watched' /\ Work
      /\ [HistoryNext]_historyVars
      => Work'
  BY WorkStep
<1>6. HistorySpec => []Work
  BY <1>3, <1>4, <1>5, HistoryOfSpec, OwnershipAlways, PTL DEF HistorySpec
<1>7. /\ TypeOK /\ Watched /\ Work /\ Work' /\ [HistoryNext]_historyVars
      => [\A p \in Passes, k \in Kinds : pc[p] = "publish" /\ pc'[p] = "idle" =>
            /\ \A e \in Provides(k, live)' :
                 e \in Asked(k, current[p]) \/ <<k, e[1]>> \in disturbed[p]
            /\ \A e \in Asked(k, current[p]) :
                 e \in Provides(k, live)' \/ <<k, e[1]>> \in disturbed[p] \cup contested]_vars
  <2> SUFFICES ASSUME TypeOK, Watched, Work, Work', [HistoryNext]_historyVars, vars' # vars,
                      NEW p \in Passes, NEW k \in Kinds, pc[p] = "publish", pc'[p] = "idle"
               PROVE  /\ \A e \in Provides(k, live)' :
                           e \in Asked(k, current[p]) \/ <<k, e[1]>> \in disturbed[p]
                      /\ \A e \in Asked(k, current[p]) :
                           e \in Provides(k, live)' \/ <<k, e[1]>> \in disturbed[p] \cup contested
    OBVIOUS
  <2>1. Next /\ NoteTouched
    BY HistorySteps
  <2>2. Apply(p)
    BY <2>1, EndsByApply
  <2> QED
    BY <2>1, <2>2, PassEnds DEF Work
<1> QED
  BY <1>6, <1>7, HistoryOfSpec, TypeCorrect, PTL DEF HistorySpec, PassesTakeEffect
=============================================================================
