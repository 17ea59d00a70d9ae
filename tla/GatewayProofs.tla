--------------------------- MODULE GatewayProofs ---------------------------
(***************************************************************************)
(* Theorems about Gateway for every set of passes, daemons and containers, *)
(* every labelling, every set of faults and every budget.                  *)
(***************************************************************************)
EXTENDS Gateway, FiniteSetTheorems, TLAPS

----------------------------------------------------------------------------
(* Facts about the operators *)

LEMMA TargetsAreKnown ==
  ASSUME NEW k \in Kinds, NEW c \in Containers
  PROVE  Targets(k, c) \subseteq AllTargets
  BY DEF Targets, DNSTargets, NATTargets, AllTargets

LEMMA MeetsType == ASSUME TypeOK, NEW F, Meets(F) PROVE failures' \in Nat
  BY DEF TypeOK, Meets

\* Changing one entry of the maps of State.
LEMMA UntrackedType ==
  ASSUME TypeOK, NEW k \in Kinds, NEW c \in Containers
  PROVE  /\ Untracked(k, c) \in [Kinds -> [Containers -> SUBSET Nat]]
         /\ Untracked(k, c)[k][c] = {}
         /\ \A m \in Kinds, d \in Containers :
              m # k \/ d # c => Untracked(k, c)[m][d] = tracked[m][d]
  BY DEF TypeOK, Untracked

LEMMA TrackedWithType ==
  ASSUME TypeOK, NEW k \in Kinds, NEW c \in Containers, NEW u \in Nat
  PROVE  /\ TrackedWith(k, c, u) \in [Kinds -> [Containers -> SUBSET Nat]]
         /\ TrackedWith(k, c, u)[k][c] = tracked[k][c] \cup {u}
         /\ \A m \in Kinds, d \in Containers :
              m # k \/ d # c => TrackedWith(k, c, u)[m][d] = tracked[m][d]
  BY DEF TypeOK, TrackedWith

LEMMA VisitType ==
  ASSUME TypeOK, NEW p \in Passes, NEW k \in Kinds, NEW c \in Containers, Visit(p, k, c)
  PROVE  /\ kind' \in [Passes -> Kinds] /\ cid' \in [Passes -> Containers \cup {NoCid}]
         /\ todo' \in [Passes -> SUBSET Containers]
         /\ kind'[p] = k /\ cid'[p] = c
         /\ dels[p] = {} /\ adds[p] = {}
         /\ \A q \in Passes : q # p => kind'[q] = kind[q] /\ cid'[q] = cid[q]
  BY DEF TypeOK, Visit

----------------------------------------------------------------------------
(* Types *)

LEMMA NothingTracked == [k \in Kinds |-> [c \in Containers |-> {}]] \in [Kinds -> [Containers -> SUBSET Nat]]
  OBVIOUS

LEMMA TypeInit == Init => TypeOK
<1> SUFFICES ASSUME Init PROVE TypeOK
  OBVIOUS
<1>1. "nat" \in Kinds /\ "nat" # "dns"
  BY DEF Kinds
<1>2. tracked \in [Kinds -> [Containers -> SUBSET Nat]]
  BY NothingTracked DEF Init
<1>3. \A r \in rows : r.kind \in Kinds /\ r.uuid \in Nat /\ r.cid \in Containers \cup {NoCid}
  BY ForeignAssumption DEF Init
<1>4. QED
  BY <1>1, <1>2, <1>3, ForeignAssumption DEF Init, TypeOK

LEMMA TypeStep == TypeOK /\ [Next]_vars => TypeOK'
<1> SUFFICES ASSUME TypeOK, [Next]_vars PROVE TypeOK'
  OBVIOUS
<1> USE DEF router, budgets, listing, loop, pending
<1>1. ASSUME NEW c \in Containers, StartContainer(c) PROVE TypeOK'
  BY <1>1 DEF TypeOK, StartContainer
<1>2. ASSUME NEW c \in Containers, StopContainer(c) PROVE TypeOK'
  BY <1>2 DEF TypeOK, StopContainer
<1>3. CASE Startup
  BY <1>3 DEF TypeOK, Startup, Meets, OwnedUUIDs
<1>4. CASE Crash
  <2>1. "nat" \in Kinds /\ "nat" # "dns"
    BY DEF Kinds
  <2>2. tracked' \in [Kinds -> [Containers -> SUBSET Nat]]
    BY <1>4, NothingTracked DEF Crash
  <2>3. \A p \in Passes : kind'[p] = "nat" /\ dels'[p] = {} /\ adds'[p] = {}
    BY <1>4 DEF Crash
  <2>4. /\ pc' \in [Passes -> {"idle", "list", "prune", "scan", "publish"}]
        /\ toList' \in [Passes -> SUBSET Hosts]
        /\ current' \in [Passes -> SUBSET Containers]
        /\ steady' \in [Passes -> SUBSET Containers]
        /\ todo' \in [Passes -> SUBSET Containers]
        /\ cid' \in [Passes -> Containers \cup {NoCid}]
        /\ kind' \in [Passes -> Kinds]
        /\ dels' \in [Passes -> SUBSET Nat]
        /\ adds' \in [Passes -> SUBSET AllTargets]
        /\ dnsChanged' \in [Passes -> BOOLEAN]
        /\ natRevision' \in [Passes -> BOOLEAN]
    BY <1>4, <2>1 DEF Crash
  <2>5. /\ up' \in BOOLEAN /\ running' \in SUBSET Containers /\ nextUUID' \in Nat
        /\ changes' \in Nat /\ failures' \in Nat /\ crashes' \in Nat /\ rows' = rows
    <3>1. up' = FALSE /\ crashes' = crashes + 1
      BY <1>4 DEF Crash
    <3>2. UNCHANGED <<running, rows, nextUUID, changes, failures>>
      BY <1>4 DEF Crash
    <3>3. up' \in BOOLEAN
      BY <3>1
    <3>4. crashes' \in Nat
      BY <3>1 DEF TypeOK
    <3>5. QED
      BY <3>2, <3>3, <3>4 DEF TypeOK
  <2>6. QED
    BY <2>1, <2>2, <2>3, <2>4, <2>5 DEF TypeOK
<1>5. ASSUME NEW p \in Passes, Begin(p) PROVE TypeOK'
  BY <1>5 DEF TypeOK, Begin
<1>6. ASSUME NEW p \in Passes, NEW h \in Hosts, List(p, h) PROVE TypeOK'
  BY <1>6 DEF TypeOK, List, Meets
<1>7. ASSUME NEW p \in Passes, Known(p) PROVE TypeOK'
  BY <1>7 DEF TypeOK, Known, Stale
<1>8. ASSUME NEW p \in Passes, NEW k \in Kinds, NEW c \in Containers, RemoveTracked(p, k, c)
      PROVE TypeOK'
  BY <1>8, VisitType, UntrackedType DEF TypeOK, RemoveTracked
<1>9. ASSUME NEW p \in Passes, NEW u \in dels[p], DeleteRule(p, u) PROVE TypeOK'
  BY <1>9 DEF TypeOK, DeleteRule, Meets, Revised
<1>10. ASSUME NEW p \in Passes, PruneDone(p) PROVE TypeOK'
  BY <1>10 DEF TypeOK, PruneDone, LoopDone
<1>11. ASSUME NEW p \in Passes, NEW k \in Kinds, NEW c \in Containers, CheckTracked(p, k, c)
       PROVE TypeOK'
  BY <1>11, TargetsAreKnown, VisitType DEF TypeOK, CheckTracked, Missing
<1>12. ASSUME NEW p \in Passes, NEW t \in adds[p], AddRule(p, t) PROVE TypeOK'
  <2>1. kind[p] \in Kinds /\ cid[p] \in Containers
    BY <1>12 DEF TypeOK
  <2>2. tracked' \in [Kinds -> [Containers -> SUBSET Nat]]
    <3>1. tracked' = tracked \/ tracked' = TrackedWith(kind[p], cid[p], nextUUID)
      BY <1>12 DEF AddRule
    <3>2. QED
      BY <2>1, <3>1, TrackedWithType DEF TypeOK
  <2>7. rows' = rows \/ rows' = rows \cup {NewRow(p, t)}
    BY <1>12 DEF AddRule
  <2>8. nextUUID' = nextUUID \/ nextUUID' = nextUUID + 1
    BY <1>12 DEF AddRule
  <2>9. NewRow(p, t).kind = kind[p] /\ NewRow(p, t).uuid = nextUUID /\ NewRow(p, t).cid = cid[p]
    BY DEF NewRow
  <2>3. /\ \A r \in rows' : r.kind \in Kinds /\ r.uuid \in Nat /\ r.cid \in Containers \cup {NoCid}
        /\ nextUUID' \in Nat
    BY <2>1, <2>7, <2>8, <2>9 DEF TypeOK
  <2>4. failures' \in Nat
    BY <1>12, MeetsType DEF AddRule
  <2>5. /\ dnsChanged' \in [Passes -> BOOLEAN] /\ natRevision' \in [Passes -> BOOLEAN]
        /\ adds' \in [Passes -> SUBSET AllTargets]
        /\ \A q \in Passes : adds'[q] # {} => adds[q] # {}
    BY <1>12 DEF TypeOK, AddRule, Revised
  <2>6. QED
    BY <1>12, <2>2, <2>3, <2>4, <2>5 DEF TypeOK, AddRule
<1>13. ASSUME NEW p \in Passes, ScanDone(p) PROVE TypeOK'
  BY <1>13 DEF TypeOK, ScanDone, LoopDone
<1>14. ASSUME NEW p \in Passes, ReconfigureUnbound(p) PROVE TypeOK'
  BY <1>14 DEF TypeOK, ReconfigureUnbound, Publish, Meets
<1>15. ASSUME NEW p \in Passes, Apply(p) PROVE TypeOK'
  BY <1>15 DEF TypeOK, Apply, Publish, Meets
<1>16. CASE UNCHANGED vars
  BY <1>16 DEF TypeOK, vars
<1>17. QED
  BY <1>1, <1>2, <1>3, <1>4, <1>5, <1>6, <1>7, <1>8, <1>9, <1>10, <1>11, <1>12,
     <1>13, <1>14, <1>15, <1>16 DEF Next, PassStep

\* The state of the reconciler is well formed throughout.
THEOREM TypeCorrect == Spec => []TypeOK
  BY TypeInit, TypeStep, PTL DEF Spec

----------------------------------------------------------------------------
(* The inductive invariant: who a UUID on record belongs to *)

\* A process that is down has no pass in progress.
Down == ~up => \A p \in Passes : pc[p] = "idle"

\* The router numbers rules upwards, ours above those that were there.
FreshUUIDs ==
  /\ FirstUUID <= nextUUID
  /\ \A r \in rows : r.uuid < nextUUID /\ (Owned(r) => FirstUUID <= r.uuid)

\* A UUID names one rule of its kind.
UniqueUUIDs ==
  \A r, s \in rows : Owned(r) /\ r.kind = s.kind /\ r.uuid = s.uuid => r = s

\* UUIDs on record were given out by the router to us.
RecordsFresh ==
  /\ \A k \in Kinds, c \in Containers : \A u \in tracked[k][c] : FirstUUID <= u /\ u < nextUUID
  /\ \A p \in Passes : \A u \in dels[p] : FirstUUID <= u /\ u < nextUUID

\* RecordsAreOwn, for State and for the passes.
TrackedOwn ==
  \A k \in Kinds, c \in Containers : \A r \in rows :
    r.kind = k /\ r.uuid \in tracked[k][c] => r.cid = c
HeldOwn ==
  \A p \in Passes : \A r \in rows : r.kind = kind[p] /\ r.uuid \in dels[p] => r.cid = cid[p]

\* RecordedOnce, part by part.
TrackedOnce ==
  \A k \in Kinds : \A c, d \in Containers : c # d => tracked[k][c] \cap tracked[k][d] = {}
HeldOrTracked ==
  \A p \in Passes : \A c \in Containers : dels[p] \cap tracked[kind[p]][c] = {}
HeldOnce ==
  \A p, q \in Passes : p # q /\ kind[p] = kind[q] => dels[p] \cap dels[q] = {}

Ownership ==
  /\ Down /\ ForeignRulesUntouched
  /\ FreshUUIDs /\ UniqueUUIDs /\ RecordsFresh
  /\ TrackedOwn /\ HeldOwn
  /\ TrackedOnce /\ HeldOrTracked /\ HeldOnce

LEMMA OwnershipInit == Init => Ownership
<1> SUFFICES ASSUME Init PROVE Ownership
  OBVIOUS
<1>1. \A k \in Kinds, c \in Containers : tracked[k][c] = {}
  BY DEF Init
<1>2. \A p \in Passes : dels[p] = {} /\ pc[p] = "idle"
  BY DEF Init
<1>3. rows = ForeignRows /\ nextUUID = FirstUUID
  BY DEF Init
<1>4. kind \in [Passes -> Kinds]
  BY DEF Init, Kinds
<1>5. \A r \in rows : r.uuid < nextUUID /\ ~Owned(r)
  BY <1>3, ForeignAssumption DEF Owned
<1>6. Down /\ ForeignRulesUntouched /\ FreshUUIDs /\ UniqueUUIDs
  BY <1>2, <1>3, <1>5, ForeignAssumption
     DEF Down, ForeignRulesUntouched, FreshUUIDs, UniqueUUIDs
<1>7. QED
  BY <1>1, <1>2, <1>4, <1>6 DEF Ownership, RecordsFresh, TrackedOwn, HeldOwn, TrackedOnce,
     HeldOrTracked, HeldOnce

\* A step that changes neither rules nor records keeps Ownership, provided a
\* pass that holds UUIDs stays with its container.
LEMMA QuietStep ==
  ASSUME TypeOK, Ownership, Down',
         UNCHANGED <<rows, nextUUID, tracked, dels>>,
         \A p \in Passes : dels[p] = {} \/ (kind'[p] = kind[p] /\ cid'[p] = cid[p])
  PROVE  Ownership'
<1>1. (ForeignRulesUntouched /\ FreshUUIDs /\ UniqueUUIDs /\ RecordsFresh /\ TrackedOwn
        /\ TrackedOnce)'
  BY DEF Ownership, ForeignRulesUntouched, FreshUUIDs, UniqueUUIDs, RecordsFresh, TrackedOwn,
     TrackedOnce
<1>2. HeldOwn' /\ HeldOrTracked' /\ HeldOnce'
  BY DEF Ownership, HeldOwn, HeldOrTracked, HeldOnce
<1>3. QED
  BY <1>1, <1>2 DEF Ownership

LEMMA DownStep == TypeOK /\ Down /\ [Next]_vars => Down'
<1> SUFFICES ASSUME TypeOK, Down, [Next]_vars PROVE Down'
  OBVIOUS
<1> USE DEF router, budgets, listing, loop, pending
<1>1. CASE UNCHANGED vars
  BY <1>1 DEF Down, vars
<1>2. ASSUME NEW c \in Containers, StartContainer(c) \/ StopContainer(c) PROVE Down'
  BY <1>2 DEF Down, StartContainer, StopContainer
<1>3. CASE Startup
  BY <1>3 DEF Down, Startup
<1>4. CASE Crash
  BY <1>4 DEF Down, Crash
<1>5. ASSUME NEW p \in Passes, Begin(p) PROVE Down'
  BY <1>5 DEF Down, Begin
<1>6. ASSUME NEW p \in Passes, PassStep(p) PROVE Down'
  <2>1. up' = up
    BY <1>6 DEF PassStep, List, Known, RemoveTracked, DeleteRule, PruneDone, CheckTracked,
       AddRule, ScanDone, ReconfigureUnbound, Apply
  <2>2. pc[p] # "idle"
    BY <1>6 DEF PassStep, List, Known, RemoveTracked, DeleteRule, PruneDone, CheckTracked,
       AddRule, ScanDone, ReconfigureUnbound, Apply
  <2>3. up
    BY <2>2 DEF Down
  <2>4. QED
    BY <2>1, <2>3 DEF Down
<1>7. QED
  BY <1>1, <1>2, <1>3, <1>4, <1>5, <1>6 DEF Next

LEMMA StartupKeepsOwnership ==
  ASSUME TypeOK, Ownership, Down', Startup
  PROVE  Ownership'
<1> USE DEF router, budgets, listing, loop, pending
<1>1. UNCHANGED <<rows, nextUUID, kind, cid, dels>>
  BY DEF Startup
<1>2. \A p \in Passes : dels[p] = {}
  BY DEF Ownership, Down, Startup, TypeOK
<1>3. \A k \in Kinds, c \in Containers : tracked'[k][c] = {} \/ tracked'[k][c] = OwnedUUIDs(k, c)
  BY DEF Startup
<1>4. \A k \in Kinds, c \in Containers : \A u \in tracked'[k][c] :
        \E r \in rows : r.kind = k /\ r.cid = c /\ r.uuid = u /\ Owned(r)
  BY <1>3, ContainersAssumption DEF OwnedUUIDs, Owned
<1>5. (ForeignRulesUntouched /\ FreshUUIDs /\ UniqueUUIDs)'
  BY <1>1 DEF Ownership, ForeignRulesUntouched, FreshUUIDs, UniqueUUIDs
<1>6. RecordsFresh'
  BY <1>1, <1>2, <1>4 DEF Ownership, RecordsFresh, FreshUUIDs
<1>7. TrackedOwn' /\ TrackedOnce'
  BY <1>1, <1>4 DEF Ownership, TrackedOwn, TrackedOnce, UniqueUUIDs
<1>8. HeldOwn' /\ HeldOrTracked' /\ HeldOnce'
  BY <1>1, <1>2 DEF HeldOwn, HeldOrTracked, HeldOnce
<1>9. QED
  BY <1>5, <1>6, <1>7, <1>8 DEF Ownership

LEMMA CrashKeepsOwnership ==
  ASSUME TypeOK, Ownership, Down', Crash
  PROVE  Ownership'
<1>1. UNCHANGED <<rows, nextUUID>>
  BY DEF Crash, router
<1>2. /\ \A k \in Kinds, c \in Containers : tracked'[k][c] = {}
      /\ \A p \in Passes : dels'[p] = {}
  BY DEF Crash
<1>3. \A p \in Passes : kind'[p] \in Kinds
  BY DEF Crash, Kinds
<1>4. (ForeignRulesUntouched /\ FreshUUIDs /\ UniqueUUIDs)'
  BY <1>1 DEF Ownership, ForeignRulesUntouched, FreshUUIDs, UniqueUUIDs
<1>5. QED
  BY <1>2, <1>3, <1>4 DEF Ownership, RecordsFresh, TrackedOwn, HeldOwn, TrackedOnce,
     HeldOrTracked, HeldOnce

LEMMA RemoveTrackedKeepsOwnership ==
  ASSUME TypeOK, Ownership, Down',
         NEW p \in Passes, NEW k \in Kinds, NEW c \in Containers, RemoveTracked(p, k, c)
  PROVE  Ownership'
<1>1. UNCHANGED <<rows, nextUUID>>
  BY DEF RemoveTracked, router
<1>2. /\ kind'[p] = k /\ cid'[p] = c /\ dels[p] = {}
      /\ \A q \in Passes : q # p => kind'[q] = kind[q] /\ cid'[q] = cid[q]
  BY VisitType DEF RemoveTracked
<1>3. /\ dels'[p] = tracked[k][c]
      /\ \A q \in Passes : q # p => dels'[q] = dels[q]
  BY DEF RemoveTracked, TypeOK
<1>4. /\ tracked'[k][c] = {}
      /\ \A m \in Kinds, d \in Containers : m # k \/ d # c => tracked'[m][d] = tracked[m][d]
  BY UntrackedType DEF RemoveTracked
<1>5. \A q \in Passes : kind[q] \in Kinds
  BY DEF TypeOK
<1>6. (ForeignRulesUntouched /\ FreshUUIDs /\ UniqueUUIDs)'
  BY <1>1 DEF Ownership, ForeignRulesUntouched, FreshUUIDs, UniqueUUIDs
<1>7. RecordsFresh'
  BY <1>1, <1>3, <1>4 DEF Ownership, RecordsFresh
<1>8. TrackedOwn' /\ TrackedOnce'
  BY <1>1, <1>4 DEF Ownership, TrackedOwn, TrackedOnce
<1>9. HeldOwn'
  BY <1>1, <1>2, <1>3 DEF Ownership, HeldOwn, TrackedOwn
<1>10. HeldOrTracked'
  BY <1>2, <1>3, <1>4, <1>5 DEF Ownership, HeldOrTracked, TrackedOnce
<1>11. HeldOnce'
  BY <1>2, <1>3, <1>5 DEF Ownership, HeldOnce, HeldOrTracked
<1>12. QED
  BY <1>6, <1>7, <1>8, <1>9, <1>10, <1>11 DEF Ownership

LEMMA DeleteRuleKeepsOwnership ==
  ASSUME TypeOK, Ownership, Down', NEW p \in Passes, NEW u \in dels[p], DeleteRule(p, u)
  PROVE  Ownership'
<1>1. UNCHANGED <<nextUUID, tracked, kind, cid>>
  BY DEF DeleteRule
<1>2. rows' = rows \/ rows' = {r \in rows : ~(r.kind = kind[p] /\ r.uuid = u)}
  BY DEF DeleteRule
<1>3. \A q \in Passes : dels'[q] \subseteq dels[q]
  BY DEF DeleteRule, TypeOK
<1>4. u >= FirstUUID
  BY DEF Ownership, RecordsFresh
<1>5. \A r \in rows : ~Owned(r) => r.uuid # u
  <2> SUFFICES ASSUME NEW r \in rows, ~Owned(r) PROVE r.uuid # u
    OBVIOUS
  <2>1. r \in ForeignRows
    BY DEF Ownership, ForeignRulesUntouched
  <2>2. r.uuid \in 0 .. FirstUUID - 1 /\ FirstUUID \in Nat
    BY <2>1, ForeignAssumption
  <2>3. QED
    BY <1>4, <2>2 DEF TypeOK
<1>6. ForeignRulesUntouched'
  BY <1>2, <1>5 DEF Ownership, ForeignRulesUntouched, Owned
<1>7. rows' \subseteq rows
  BY <1>2
<1>8. (FreshUUIDs /\ UniqueUUIDs /\ RecordsFresh /\ TrackedOwn /\ TrackedOnce)'
  BY <1>1, <1>3, <1>7
     DEF Ownership, FreshUUIDs, UniqueUUIDs, RecordsFresh, TrackedOwn, TrackedOnce, Owned
<1>9. HeldOwn' /\ HeldOrTracked' /\ HeldOnce'
  BY <1>1, <1>3, <1>7 DEF Ownership, HeldOwn, HeldOrTracked, HeldOnce
<1>10. QED
  BY <1>6, <1>8, <1>9 DEF Ownership

LEMMA AddRuleKeepsOwnership ==
  ASSUME TypeOK, Ownership, Down', NEW p \in Passes, NEW t \in adds[p], AddRule(p, t)
  PROVE  Ownership'
<1>1. UNCHANGED <<kind, cid, dels>>
  BY DEF AddRule
<1>2. kind[p] \in Kinds /\ cid[p] \in Containers /\ cid[p] # NoCid /\ nextUUID \in Nat /\ FirstUUID \in Nat
  BY ContainersAssumption, ForeignAssumption DEF TypeOK
<1>3. NewRow(p, t).kind = kind[p] /\ NewRow(p, t).uuid = nextUUID /\ NewRow(p, t).cid = cid[p]
  BY DEF NewRow
<1>4. \/ rows' = rows /\ nextUUID' = nextUUID /\ tracked' = tracked
      \/ rows' = rows \cup {NewRow(p, t)} /\ nextUUID' = nextUUID + 1 /\ tracked' = tracked
      \/ /\ rows' = rows \cup {NewRow(p, t)} /\ nextUUID' = nextUUID + 1
         /\ tracked' = TrackedWith(kind[p], cid[p], nextUUID)
  BY DEF AddRule
<1>5. CASE rows' = rows /\ nextUUID' = nextUUID /\ tracked' = tracked
  BY <1>1, <1>5, QuietStep
<1>6. CASE rows' = rows \cup {NewRow(p, t)} /\ nextUUID' = nextUUID + 1
  <2>1. tracked' = tracked \/ tracked' = TrackedWith(kind[p], cid[p], nextUUID)
    BY <1>2, <1>4, <1>6
  <2>2. \A k \in Kinds, c \in Containers :
          \/ tracked'[k][c] = tracked[k][c]
          \/ k = kind[p] /\ c = cid[p] /\ tracked'[k][c] = tracked[k][c] \cup {nextUUID}
    <3>1. CASE tracked' = tracked
      BY <3>1
    <3>2. CASE tracked' = TrackedWith(kind[p], cid[p], nextUUID)
      <4>1. /\ TrackedWith(kind[p], cid[p], nextUUID)[kind[p]][cid[p]]
                 = tracked[kind[p]][cid[p]] \cup {nextUUID}
            /\ \A m \in Kinds, d \in Containers : m # kind[p] \/ d # cid[p] =>
                 TrackedWith(kind[p], cid[p], nextUUID)[m][d] = tracked[m][d]
        BY <1>2, TrackedWithType
      <4>2. QED
        BY <3>2, <4>1
    <3>3. QED
      BY <2>1, <3>1, <3>2
  <2>3. ForeignRulesUntouched'
    BY <1>2, <1>3, <1>6 DEF Ownership, ForeignRulesUntouched, Owned
  <2>4. FreshUUIDs'
    BY <1>2, <1>3, <1>6 DEF Ownership, FreshUUIDs, Owned, TypeOK
  <2>5. UniqueUUIDs'
    BY <1>2, <1>3, <1>6 DEF Ownership, UniqueUUIDs, FreshUUIDs, Owned, TypeOK
  <2>6. RecordsFresh'
    <3>1. \A k \in Kinds, c \in Containers : \A u \in tracked'[k][c] :
            u \in tracked[k][c] \/ u = nextUUID
      BY <2>2
    <3>2. \A k \in Kinds, c \in Containers : \A u \in tracked[k][c] : u \in Nat
      BY DEF TypeOK
    <3>3. \A q \in Passes : \A u \in dels[q] : u \in Nat
      BY DEF TypeOK
    <3>4. QED
      BY <1>1, <1>2, <1>6, <3>1, <3>2, <3>3 DEF Ownership, RecordsFresh, FreshUUIDs
  <2>7. TrackedOwn'
    <3> SUFFICES ASSUME NEW k \in Kinds, NEW c \in Containers, NEW r \in rows',
                        r.kind = k, r.uuid \in tracked'[k][c]
                 PROVE  r.cid = c
      BY DEF TrackedOwn
    <3>1. CASE r = NewRow(p, t)
      BY <1>2, <1>3, <2>2, <3>1 DEF Ownership, RecordsFresh
    <3>2. CASE r \in rows
      BY <1>2, <2>2, <3>2 DEF Ownership, TrackedOwn, FreshUUIDs, TypeOK
    <3>3. QED
      BY <1>6, <3>1, <3>2
  <2>8. TrackedOnce'
    BY <1>2, <2>2 DEF Ownership, TrackedOnce, RecordsFresh
  <2>9. HeldOwn'
    BY <1>1, <1>2, <1>3, <1>6 DEF Ownership, HeldOwn, RecordsFresh
  <2>10. HeldOrTracked'
    <3>1. \A q \in Passes : kind[q] \in Kinds /\ nextUUID \notin dels[q]
      BY <1>2 DEF Ownership, RecordsFresh, TypeOK
    <3>2. QED
      BY <1>1, <2>2, <3>1 DEF Ownership, HeldOrTracked
  <2>11. HeldOnce'
    BY <1>1 DEF Ownership, HeldOnce
  <2>12. QED
    BY <2>3, <2>4, <2>5, <2>6, <2>7, <2>8, <2>9, <2>10, <2>11 DEF Ownership
<1>7. QED
  BY <1>4, <1>5, <1>6

\* Every other step of a pass is quiet.
LEMMA OwnershipStep == TypeOK /\ Ownership /\ [Next]_vars => Ownership'
<1> SUFFICES ASSUME TypeOK, Ownership, [Next]_vars PROVE Ownership'
  OBVIOUS
<1> USE DEF router, budgets, listing, loop, pending
<1>0. Down'
  BY DownStep DEF Ownership
<1>1. CASE UNCHANGED vars
  BY <1>0, <1>1, QuietStep DEF vars
<1>2. ASSUME NEW c \in Containers, StartContainer(c) \/ StopContainer(c) PROVE Ownership'
  BY <1>0, <1>2, QuietStep DEF StartContainer, StopContainer
<1>3. CASE Startup
  BY <1>0, <1>3, StartupKeepsOwnership
<1>4. CASE Crash
  BY <1>0, <1>4, CrashKeepsOwnership
<1>5. ASSUME NEW p \in Passes, Begin(p) PROVE Ownership'
  BY <1>0, <1>5, QuietStep DEF Begin
<1>6. ASSUME NEW p \in Passes, PassStep(p) PROVE Ownership'
  <2>1. ASSUME NEW h \in Hosts, List(p, h) PROVE Ownership'
    BY <1>0, <2>1, QuietStep DEF List
  <2>2. CASE Known(p) \/ PruneDone(p) \/ ScanDone(p) \/ ReconfigureUnbound(p)
    BY <1>0, <2>2, QuietStep DEF Known, PruneDone, ScanDone, ReconfigureUnbound
  <2>3. CASE Apply(p)
    <3>1. dels[p] = {}
      BY <2>3 DEF Apply, TypeOK
    <3>2. \A q \in Passes : q # p => cid'[q] = cid[q]
      BY <2>3 DEF Apply, TypeOK
    <3>3. UNCHANGED <<rows, nextUUID, tracked, dels, kind>>
      BY <2>3 DEF Apply
    <3>4. QED
      <4>1. \A q \in Passes : dels[q] = {} \/ (kind'[q] = kind[q] /\ cid'[q] = cid[q])
        BY <3>1, <3>2, <3>3
      <4>2. QED
        BY <1>0, <3>3, <4>1, QuietStep
  <2>4. ASSUME NEW k \in Kinds, NEW c \in Containers, RemoveTracked(p, k, c) PROVE Ownership'
    BY <1>0, <2>4, RemoveTrackedKeepsOwnership
  <2>5. ASSUME NEW u \in dels[p], DeleteRule(p, u) PROVE Ownership'
    BY <1>0, <2>5, DeleteRuleKeepsOwnership
  <2>6. ASSUME NEW k \in Kinds, NEW c \in Containers, CheckTracked(p, k, c) PROVE Ownership'
    <3>1. Visit(p, k, c) /\ UNCHANGED <<rows, nextUUID, tracked, dels>>
      BY <2>6 DEF CheckTracked
    <3>2. dels[p] = {} /\ \A q \in Passes : q # p => kind'[q] = kind[q] /\ cid'[q] = cid[q]
      BY <3>1, VisitType
    <3>3. \A q \in Passes : dels[q] = {} \/ (kind'[q] = kind[q] /\ cid'[q] = cid[q])
      BY <3>2
    <3>4. QED
      BY <1>0, <3>1, <3>3, QuietStep
  <2>7. ASSUME NEW t \in adds[p], AddRule(p, t) PROVE Ownership'
    BY <1>0, <2>7, AddRuleKeepsOwnership
  <2>8. QED
    BY <1>6, <2>1, <2>2, <2>3, <2>4, <2>5, <2>6, <2>7 DEF PassStep
<1>7. QED
  BY <1>1, <1>2, <1>3, <1>4, <1>5, <1>6 DEF Next

LEMMA OwnershipAlways == Spec => [](TypeOK /\ Ownership)
<1>1. Init => TypeOK /\ Ownership
  BY TypeInit, OwnershipInit
<1>2. TypeOK /\ Ownership /\ [Next]_vars => (TypeOK /\ Ownership)'
  BY TypeStep, OwnershipStep
<1>3. QED
  BY <1>1, <1>2, PTL DEF Spec

\* Rules written by somebody else are never added, changed or removed.
THEOREM ForeignRulesStay == Spec => []ForeignRulesUntouched
<1>1. Ownership => ForeignRulesUntouched
  BY DEF Ownership
<1>2. QED
  BY <1>1, OwnershipAlways, PTL

LEMMA OnRecordMembers ==
  ASSUME NEW k, NEW c, NEW u
  PROVE  u \in OnRecord(k, c) <=>
           \/ u \in tracked[k][c]
           \/ \E p \in Passes : kind[p] = k /\ cid[p] = c /\ u \in dels[p]
  BY DEF OnRecord

\* A UUID on record for a container names a rule of that container, or none.
THEOREM RecordsStayOwn == Spec => []RecordsAreOwn
<1>1. Ownership => RecordsAreOwn
  <2> SUFFICES ASSUME Ownership, NEW k \in Kinds, NEW c \in Containers, NEW r \in rows,
                      r.kind = k, r.uuid \in OnRecord(k, c)
               PROVE  r.cid = c
    BY DEF RecordsAreOwn
  <2>1. CASE r.uuid \in tracked[k][c]
    BY <2>1 DEF Ownership, TrackedOwn
  <2>2. ASSUME NEW p \in Passes, kind[p] = k, cid[p] = c, r.uuid \in dels[p] PROVE r.cid = c
    BY <2>2 DEF Ownership, HeldOwn
  <2>3. QED
    BY <2>1, <2>2, OnRecordMembers
<1>2. QED
  BY <1>1, OwnershipAlways, PTL

\* No rule is on record for two containers, nor with two passes, nor with a
\* pass and State at once.
THEOREM RecordedAtMostOnce == Spec => []RecordedOnce
<1>1. Ownership => RecordedOnce
  BY DEF Ownership, RecordedOnce, TrackedOnce, HeldOrTracked, HeldOnce
<1>2. QED
  BY <1>1, OwnershipAlways, PTL

----------------------------------------------------------------------------
(* What a pass is about to create *)

\* A pass only holds targets that its container asks for.
AddsWanted == \A p \in Passes : adds[p] \subseteq Targets(kind[p], cid[p])

\* A step that leaves every pass's targets alone, and its container while it
\* has any, keeps AddsWanted.
LEMMA AddsShrink ==
  ASSUME AddsWanted,
         \A p \in Passes :
           \/ adds'[p] = {}
           \/ adds'[p] \subseteq adds[p] /\ kind'[p] = kind[p] /\ cid'[p] = cid[p]
  PROVE  AddsWanted'
  BY DEF AddsWanted, Targets, DNSTargets, NATTargets

\* No step gives a pass a target its container does not ask for.
LEMMA AddsWantedStep == TypeOK /\ AddsWanted /\ [Next]_vars => AddsWanted'
<1> SUFFICES ASSUME TypeOK, AddsWanted, [Next]_vars PROVE AddsWanted'
  OBVIOUS
<1> USE DEF router, budgets, listing, loop, pending
<1>1. CASE UNCHANGED vars
  BY <1>1, AddsShrink DEF vars
<1>2. ASSUME NEW c \in Containers, StartContainer(c) \/ StopContainer(c) PROVE AddsWanted'
  BY <1>2, AddsShrink DEF StartContainer, StopContainer
<1>3. CASE Startup
  BY <1>3, AddsShrink DEF Startup
<1>4. CASE Crash
  BY <1>4, AddsShrink DEF Crash
<1>5. ASSUME NEW p \in Passes, Begin(p) PROVE AddsWanted'
  BY <1>5, AddsShrink DEF Begin
<1>6. ASSUME NEW p \in Passes, PassStep(p) PROVE AddsWanted'
  <2>1. ASSUME NEW h \in Hosts, List(p, h) PROVE AddsWanted'
    BY <2>1, AddsShrink DEF List
  <2>2. CASE Known(p)
    BY <2>2, AddsShrink DEF Known
  <2>3. ASSUME NEW k \in Kinds, NEW c \in Containers, RemoveTracked(p, k, c) PROVE AddsWanted'
    <3>1. Visit(p, k, c) /\ adds' = adds
      BY <2>3 DEF RemoveTracked
    <3> QED
      BY <3>1, VisitType, AddsShrink
  <2>4. ASSUME NEW u \in dels[p], DeleteRule(p, u) PROVE AddsWanted'
    BY <2>4, AddsShrink DEF DeleteRule
  <2>5. CASE PruneDone(p)
    BY <2>5, AddsShrink DEF PruneDone
  <2>6. ASSUME NEW k \in Kinds, NEW c \in Containers, CheckTracked(p, k, c) PROVE AddsWanted'
    <3>1. Visit(p, k, c) /\ adds' = [adds EXCEPT ![p] = Missing(k, c)]
      BY <2>6 DEF CheckTracked
    <3>2. adds'[p] \subseteq Targets(k, c) /\ \A q \in Passes : q # p => adds'[q] = adds[q]
      BY <3>1 DEF TypeOK, Missing
    <3>3. kind'[p] = k /\ cid'[p] = c /\ \A q \in Passes : q # p => kind'[q] = kind[q] /\ cid'[q] = cid[q]
      BY <3>1, VisitType
    <3> QED
      BY <3>2, <3>3 DEF AddsWanted, Targets, DNSTargets, NATTargets
  <2>7. ASSUME NEW t \in adds[p], AddRule(p, t) PROVE AddsWanted'
    <3>1. adds' = [adds EXCEPT ![p] = @ \ {t}] /\ UNCHANGED <<kind, cid>>
      BY <2>7 DEF AddRule
    <3> QED
      BY <3>1, AddsShrink DEF TypeOK
  <2>8. CASE ScanDone(p) \/ ReconfigureUnbound(p) \/ Apply(p)
    <3>1. adds' = adds
      BY <2>8 DEF ScanDone, ReconfigureUnbound, Apply
    <3>2. adds[p] = {}
      BY <2>8 DEF TypeOK, ScanDone, LoopDone, ReconfigureUnbound, Apply
    <3>3. \A q \in Passes : q # p => kind'[q] = kind[q] /\ cid'[q] = cid[q]
      BY <2>8 DEF TypeOK, ScanDone, ReconfigureUnbound, Apply
    <3> QED
      BY <3>1, <3>2, <3>3, AddsShrink
  <2> QED
    BY <1>6, <2>1, <2>2, <2>3, <2>4, <2>5, <2>6, <2>7, <2>8 DEF PassStep
<1> QED
  BY <1>1, <1>2, <1>3, <1>4, <1>5, <1>6 DEF Next

----------------------------------------------------------------------------
(* Each step maps to a step of the ledger *)

\* A rule that is added is a Create: its UUID is fresh, its target asked for.
LEMMA AddRuleCreates ==
  ASSUME TypeOK, Ownership, AddsWanted, NEW p \in Passes, NEW t \in adds[p], AddRule(p, t)
  PROVE  [Ledger!Next]_<<rows, live>>
<1>1. kind[p] \in Kinds /\ cid[p] \in Containers /\ t \in Targets(kind[p], cid[p])
  BY DEF TypeOK, AddsWanted
<1>2. live' = live /\ (rows' = rows \/ rows' = rows \cup {NewRow(p, t)})
  BY DEF AddRule
<1> DEFINE r == NewRow(p, t)
<1>3. r.kind = kind[p] /\ r.uuid = nextUUID /\ r.cid = cid[p] /\ r.target = t
  BY DEF NewRow
<1> HIDE DEF r
<1>4. \A s \in rows : s.uuid # r.uuid
  BY <1>3 DEF TypeOK, Ownership, FreshUUIDs
<1>5. CASE rows' = rows \cup {r}
  <2>1. r \in rows' \ rows
    BY <1>4, <1>5
  <2>2. Ledger!Create(r)
    BY <1>1, <1>2, <1>3, <1>4, <1>5 DEF Ledger!Create
  <2> QED
    BY <2>1, <2>2 DEF Ledger!Next
<1> QED
  BY <1>2, <1>5 DEF r

\* A deletion is a Remove: the UUID names one rule, and that is one of ours.
LEMMA DeleteRuleRemoves ==
  ASSUME TypeOK, Ownership, NEW p \in Passes, NEW u \in dels[p], DeleteRule(p, u)
  PROVE  [Ledger!Next]_<<rows, live>>
<1> DEFINE named == {r \in rows : r.kind = kind[p] /\ r.uuid = u}
<1>1. live' = live /\ (rows' = rows \/ rows' = rows \ named)
  BY DEF DeleteRule
<1>2. \A r \in named : r \in rows /\ Owned(r)
  BY ContainersAssumption DEF TypeOK, Ownership, HeldOwn, Owned
<1>3. \A r \in named : r \notin ForeignRows
  BY <1>2, ForeignAssumption DEF Owned
<1>4. \A r, s \in named : r = s
  BY <1>2 DEF Ownership, UniqueUUIDs
<1>5. ASSUME NEW r \in named, rows' = rows \ named PROVE Ledger!Next
  <2>1. rows' = rows \ {r}
    BY <1>4, <1>5
  <2>2. Ledger!Remove(r)
    BY <1>1, <1>2, <1>3, <2>1 DEF Ledger!Remove
  <2> QED
    BY <1>2, <2>2 DEF Ledger!Next
<1> QED
  BY <1>1, <1>5

\* A reload is a Load, or nothing when the call fails.
LEMMA PublishLoads ==
  ASSUME NEW k \in Kinds, Publish(k), rows' = rows
  PROVE  [Ledger!Next]_<<rows, live>>
  BY DEF Publish, RowsOf, Ledger!Next, Ledger!Load

LEMMA StepsOfLedger ==
  ASSUME TypeOK, Ownership, AddsWanted, [Next]_vars
  PROVE  [Ledger!Next]_<<rows, live>>
<1> USE DEF router, budgets, listing, loop, pending
<1>1. CASE UNCHANGED vars
  BY <1>1 DEF vars
<1>2. ASSUME NEW c \in Containers, StartContainer(c) \/ StopContainer(c)
      PROVE [Ledger!Next]_<<rows, live>>
  BY <1>2 DEF StartContainer, StopContainer
<1>3. CASE Startup \/ Crash
  BY <1>3 DEF Startup, Crash
<1>4. ASSUME NEW p \in Passes, Begin(p) PROVE [Ledger!Next]_<<rows, live>>
  BY <1>4 DEF Begin
<1>5. ASSUME NEW p \in Passes, PassStep(p) PROVE [Ledger!Next]_<<rows, live>>
  <2>1. ASSUME NEW h \in Hosts, List(p, h) PROVE UNCHANGED <<rows, live>>
    BY <2>1 DEF List
  <2>2. ASSUME NEW k \in Kinds, NEW c \in Containers, RemoveTracked(p, k, c) \/ CheckTracked(p, k, c)
        PROVE UNCHANGED <<rows, live>>
    BY <2>2 DEF RemoveTracked, CheckTracked
  <2>3. CASE Known(p) \/ PruneDone(p) \/ ScanDone(p)
    BY <2>3 DEF Known, PruneDone, ScanDone
  <2>4. ASSUME NEW u \in dels[p], DeleteRule(p, u) PROVE [Ledger!Next]_<<rows, live>>
    BY <2>4, DeleteRuleRemoves
  <2>5. ASSUME NEW t \in adds[p], AddRule(p, t) PROVE [Ledger!Next]_<<rows, live>>
    BY <2>5, AddRuleCreates
  <2>6. CASE ReconfigureUnbound(p)
    BY <2>6, PublishLoads DEF ReconfigureUnbound, Kinds
  <2>7. CASE Apply(p)
    BY <2>7, PublishLoads DEF Apply, Kinds
  <2> QED
    BY <1>5, <2>1, <2>2, <2>3, <2>4, <2>5, <2>6, <2>7 DEF PassStep
<1> QED
  BY <1>1, <1>2, <1>3, <1>4, <1>5 DEF Next

\* Every behaviour of the gateway code, with any faults, crashes and overlaps,
\* is one that RuleLedger promises.
THEOREM GatewayImplementsLedger == Spec => ImplementsLedger
<1>1. Init => Ledger!Init
  BY DEF Init, Ledger!Init
<1>2. Init => AddsWanted
  BY DEF Init, AddsWanted
<1>3. TypeOK /\ AddsWanted /\ [Next]_vars => AddsWanted'
  BY AddsWantedStep
<1>4. TypeOK /\ Ownership /\ AddsWanted /\ [Next]_vars => [Ledger!Next]_(Ledger!vars)
  BY StepsOfLedger DEF Ledger!vars
<1>5. Spec => [](TypeOK /\ Ownership)
  BY OwnershipAlways
<1> QED
  BY <1>1, <1>2, <1>3, <1>4, <1>5, PTL DEF Spec, ImplementsLedger, Ledger!Spec

----------------------------------------------------------------------------
(* Accounting *)

\* Without the failures that take a rule off the record: a deletion that is not
\* done (its UUID has left State before), a created rule whose answer is lost,
\* and a search that fails when the process starts.
RecordsSurvive == Faults \cap {"del", "delRefused", "addAck", "search"} = {}

\* A rule is on record in State, or with a pass that is deleting it.
RowRecorded(r) ==
  \/ r.uuid \in tracked[r.kind][r.cid]
  \/ \E p \in Passes : kind[p] = r.kind /\ cid[p] = r.cid /\ r.uuid \in dels[p]

LEMMA AccountedRows ==
  Accounted <=> (up => \A r \in rows : Owned(r) => RowRecorded(r))
  BY OnRecordMembers DEF Accounted, RowRecorded

\* A step that changes neither rules nor records, and lets every pass that
\* holds UUIDs stay with its container, keeps Accounted.
LEMMA QuietAccounted ==
  ASSUME Accounted, UNCHANGED <<up, rows, tracked, dels>>,
         \A p \in Passes : dels[p] = {} \/ (kind'[p] = kind[p] /\ cid'[p] = cid[p])
  PROVE  (up => \A r \in rows : Owned(r) => RowRecorded(r))'
  BY AccountedRows DEF RowRecorded, Owned

LEMMA AccountedStep ==
  ASSUME RecordsSurvive, TypeOK, Accounted, [Next]_vars
  PROVE  Accounted'
<1> DEFINE Recorded == up => \A r \in rows : Owned(r) => RowRecorded(r)
<1> USE DEF router, budgets, listing, loop, pending
<1>1. CASE UNCHANGED vars
  BY <1>1 DEF vars, Accounted, OnRecord, Owned
<1>2. ASSUME NEW c \in Containers, StartContainer(c) \/ StopContainer(c) PROVE Recorded'
  BY <1>2, QuietAccounted DEF StartContainer, StopContainer
<1>3. ASSUME Startup PROVE Recorded'
  <2>1. \A k \in Kinds, c \in Containers : tracked'[k][c] = OwnedUUIDs(k, c)
    BY <1>3 DEF Startup, Meets, RecordsSurvive
  <2>2. rows' = rows
    BY <1>3 DEF Startup
  <2>3. \A r \in rows : Owned(r) => r.kind \in Kinds /\ r.cid \in Containers
    BY DEF TypeOK, Owned
  <2>4. \A r \in rows' : Owned(r) => r.uuid \in tracked'[r.kind][r.cid]
    BY <2>1, <2>2, <2>3 DEF OwnedUUIDs
  <2>5. \A r \in rows' : Owned(r) => RowRecorded(r)'
    BY <2>4 DEF RowRecorded
  <2> QED
    BY <2>5 DEF Owned
<1>4. ASSUME Crash PROVE Recorded'
  <2>1. up' = FALSE
    BY <1>4 DEF Crash
  <2> QED
    BY <2>1
<1>5. ASSUME NEW p \in Passes, Begin(p) PROVE Recorded'
  BY <1>5, QuietAccounted DEF Begin
<1>6. ASSUME NEW p \in Passes, PassStep(p) PROVE Recorded'
  <2>1. ASSUME NEW h \in Hosts, List(p, h) PROVE Recorded'
    BY <2>1, QuietAccounted DEF List
  <2>2. CASE Known(p) \/ PruneDone(p) \/ ScanDone(p) \/ ReconfigureUnbound(p)
    BY <2>2, QuietAccounted DEF Known, PruneDone, ScanDone, ReconfigureUnbound
  <2>3. ASSUME NEW k \in Kinds, NEW c \in Containers, RemoveTracked(p, k, c) PROVE Recorded'
    <3>1. Visit(p, k, c) /\ dels' = [dels EXCEPT ![p] = tracked[k][c]] /\ tracked' = Untracked(k, c)
          /\ rows' = rows /\ up' = up
      BY <2>3 DEF RemoveTracked
    <3>2. kind'[p] = k /\ cid'[p] = c /\ dels[p] = {} /\ dels'[p] = tracked[k][c]
          /\ \A q \in Passes : q # p => kind'[q] = kind[q] /\ cid'[q] = cid[q] /\ dels'[q] = dels[q]
      BY <3>1, VisitType DEF TypeOK
    <3>3. \A m \in Kinds, d \in Containers : m # k \/ d # c => tracked'[m][d] = tracked[m][d]
      BY <3>1, UntrackedType
    <3> SUFFICES ASSUME up, NEW r \in rows, Owned(r) PROVE RowRecorded(r)'
      BY <3>1 DEF Owned
    <3>4. r.kind \in Kinds /\ r.cid \in Containers
      BY DEF TypeOK, Owned
    <3>5. RowRecorded(r)
      BY AccountedRows
    <3>6. CASE r.uuid \in tracked[r.kind][r.cid]
      BY <3>2, <3>3, <3>4, <3>6 DEF RowRecorded
    <3>7. ASSUME NEW q \in Passes, kind[q] = r.kind, cid[q] = r.cid, r.uuid \in dels[q]
          PROVE  RowRecorded(r)'
      BY <3>2, <3>7 DEF RowRecorded
    <3> QED
      BY <3>5, <3>6, <3>7 DEF RowRecorded
  <2>4. ASSUME NEW u \in dels[p], DeleteRule(p, u) PROVE Recorded'
    <3>1. rows' = {r \in rows : ~(r.kind = kind[p] /\ r.uuid = u)}
      BY <2>4 DEF DeleteRule, Meets, RecordsSurvive
    <3>2. dels' = [dels EXCEPT ![p] = @ \ {u}] /\ UNCHANGED <<up, tracked, kind, cid>>
      BY <2>4 DEF DeleteRule
    <3> QED
      BY <3>1, <3>2, AccountedRows DEF TypeOK, RowRecorded, Owned
  <2>5. ASSUME NEW k \in Kinds, NEW c \in Containers, CheckTracked(p, k, c) PROVE Recorded'
    <3>1. Visit(p, k, c) /\ UNCHANGED <<up, rows, tracked, dels>>
      BY <2>5 DEF CheckTracked
    <3> QED
      BY <3>1, VisitType, QuietAccounted
  <2>6. ASSUME NEW t \in adds[p], AddRule(p, t) PROVE Recorded'
    <3>1. kind[p] \in Kinds /\ cid[p] \in Containers /\ nextUUID \in Nat
      BY DEF TypeOK
    <3>2. UNCHANGED <<up, kind, cid, dels>>
      BY <2>6 DEF AddRule
    <3>3. \/ rows' = rows /\ tracked' = tracked
          \/ rows' = rows \cup {NewRow(p, t)} /\ tracked' = TrackedWith(kind[p], cid[p], nextUUID)
      BY <2>6 DEF AddRule, Meets, RecordsSurvive
    <3>4. \A m \in Kinds, d \in Containers : tracked[m][d] \subseteq tracked'[m][d]
      BY <3>1, <3>3, TrackedWithType
    <3>5. \A r \in rows : Owned(r) => r.kind \in Kinds /\ r.cid \in Containers
      BY DEF TypeOK, Owned
    <3>6. up => \A r \in rows : Owned(r) => RowRecorded(r)'
      BY <3>2, <3>4, <3>5, AccountedRows DEF RowRecorded
    <3>7. ASSUME NEW r \in rows', r \notin rows PROVE RowRecorded(r)'
      <4>1. r = NewRow(p, t) /\ tracked' = TrackedWith(kind[p], cid[p], nextUUID)
        BY <3>3, <3>7
      <4>2. r.kind = kind[p] /\ r.cid = cid[p] /\ r.uuid = nextUUID
        BY <4>1 DEF NewRow
      <4>3. nextUUID \in tracked'[kind[p]][cid[p]]
        BY <3>1, <4>1, TrackedWithType
      <4> QED
        BY <4>2, <4>3 DEF RowRecorded
    <3> QED
      BY <3>2, <3>6, <3>7 DEF Owned
  <2>7. CASE Apply(p)
    <3>1. dels[p] = {} /\ UNCHANGED <<up, rows, tracked, dels, kind>>
      BY <2>7 DEF TypeOK, Apply
    <3>2. \A q \in Passes : q # p => cid'[q] = cid[q]
      BY <2>7 DEF TypeOK, Apply
    <3> QED
      BY <3>1, <3>2, QuietAccounted
  <2> QED
    BY <1>6, <2>1, <2>2, <2>3, <2>4, <2>5, <2>6, <2>7 DEF PassStep
<1>7. Recorded' => Accounted'
  <2> SUFFICES ASSUME Recorded', up', NEW r \in rows', Owned(r)
               PROVE  r.uuid \in OnRecord(r.kind, r.cid)'
    BY DEF Accounted, Owned
  <2>1. RowRecorded(r)'
    BY DEF Owned
  <2> QED
    BY <2>1 DEF RowRecorded, OnRecord
<1> QED
  BY <1>1, <1>2, <1>3, <1>4, <1>5, <1>6, <1>7 DEF Next

\* State knows every rule homelab-manager wrote (state.go:12), across crashes
\* and overlapping passes, unless one of the calls fails that RecordsSurvive
\* excludes.
THEOREM RulesAreAccounted == ASSUME RecordsSurvive PROVE Spec => []Accounted
<1>1. Init => Accounted
  BY DEF Init, Accounted
<1>2. TypeOK /\ Ownership /\ Accounted /\ [Next]_vars => Accounted'
  BY AccountedStep
<1> QED
  BY <1>1, <1>2, OwnershipAlways, PTL DEF Spec

----------------------------------------------------------------------------
(* What failing calls cost *)

\* One call makes State forget the rules L.
Loses(L) == Unrecorded' \subseteq Unrecorded \cup L

LEMMA UnrecordedRows == Unrecorded = {r \in rows : Owned(r) /\ ~RowRecorded(r)}
  BY OnRecordMembers DEF Unrecorded, RowRecorded

\* A step that keeps every record loses nothing but the rules it adds.
LEMMA RecordsKept ==
  ASSUME NEW L, rows' \subseteq rows \cup L,
         \A r \in rows : Owned(r) /\ RowRecorded(r) => RowRecorded(r)'
  PROVE  Loses(L)
<1> SUFFICES ASSUME NEW r \in Unrecorded', r \notin L PROVE r \in Unrecorded
  BY DEF Loses
<1>1. r \in rows /\ Owned(r)
  BY DEF Unrecorded, Owned
<1>2. r.uuid \notin OnRecord(r.kind, r.cid)'
  BY DEF Unrecorded
<1>3. ~RowRecorded(r)'
  BY <1>2 DEF RowRecorded, OnRecord
<1> QED
  BY <1>1, <1>3, UnrecordedRows

\* A step in which no pass that holds UUIDs goes on keeps every record.
LEMMA QuietLosses ==
  ASSUME UNCHANGED <<rows, tracked, dels>>,
         \A p \in Passes : dels[p] = {} \/ (kind'[p] = kind[p] /\ cid'[p] = cid[p])
  PROVE  Loses({})
<1>1. \A r \in rows : Owned(r) /\ RowRecorded(r) => RowRecorded(r)'
  BY DEF RowRecorded
<1> QED
  BY <1>1, RecordsKept

\* A deletion that fails leaves its rule without a record, and no other.
LEMMA DeleteLoses ==
  ASSUME TypeOK, UniqueUUIDs, NEW p \in Passes, NEW u \in dels[p], DeleteRule(p, u)
  PROVE  \/ Loses({}) /\ failures' >= failures
         \/ failures' = failures + 1 /\ \E x : Loses({x})
<1>1. PICK F \in SUBSET {"savepoint", "del", "delAck", "delRefused"} :
        /\ Meets(F)
        /\ rows' = IF F \cap {"del", "delRefused"} # {} THEN rows
                   ELSE {r \in rows : ~(r.kind = kind[p] /\ r.uuid = u)}
  BY DEF DeleteRule
<1>2. dels' = [dels EXCEPT ![p] = @ \ {u}] /\ UNCHANGED <<tracked, kind, cid>>
  BY DEF DeleteRule
<1>3. \A r \in rows : RowRecorded(r) /\ ~(r.kind = kind[p] /\ r.uuid = u) => RowRecorded(r)'
  BY <1>2 DEF TypeOK, RowRecorded
<1>4. failures \in Nat /\ (failures' = failures \/ failures' = failures + 1)
  BY <1>1 DEF TypeOK, Meets
<1> DEFINE L == {r \in rows' : Owned(r) /\ r.kind = kind[p] /\ r.uuid = u}
<1>5. Loses(L)
  <2> SUFFICES ASSUME NEW r \in Unrecorded', r \notin L PROVE r \in Unrecorded
    BY DEF Loses
  <2>1. r \in rows' /\ Owned(r) /\ r \in rows
    BY <1>1 DEF Unrecorded, Owned
  <2>2. r.uuid \notin OnRecord(r.kind, r.cid)'
    BY DEF Unrecorded
  <2>3. ~RowRecorded(r)'
    BY <2>2 DEF RowRecorded, OnRecord
  <2> QED
    BY <1>3, <2>1, <2>3, UnrecordedRows
<1>6. CASE F \cap {"del", "delRefused"} # {}
  <2>1. failures' = failures + 1
    BY <1>1, <1>6 DEF Meets
  <2>2. \A r, s \in L : r = s
    BY <1>1, <1>6 DEF UniqueUUIDs
  <2>3. \E x : L \subseteq {x}
    BY <2>2
  <2> QED
    BY <1>5, <2>1, <2>3 DEF Loses
<1>7. CASE F \cap {"del", "delRefused"} = {}
  <2>1. L = {}
    BY <1>1, <1>7
  <2>2. Loses({})
    BY <1>5, <2>1
  <2>3. failures' >= failures
    BY <1>4
  <2> QED
    BY <2>2, <2>3
<1> QED
  BY <1>6, <1>7

\* An addition whose answer is lost leaves the new rule without a record.
LEMMA AddLoses ==
  ASSUME TypeOK, NEW p \in Passes, NEW t \in adds[p], AddRule(p, t)
  PROVE  \/ Loses({}) /\ failures' >= failures
         \/ failures' = failures + 1 /\ \E x : Loses({x})
<1>0. PICK new : new = NewRow(p, t)
  OBVIOUS
<1>1. PICK F \in SUBSET {"savepoint", "add", "addAck"} :
        /\ Meets(F)
        /\ IF "add" \in F THEN rows' = rows ELSE rows' = rows \cup {new}
        /\ IF F \cap {"add", "addAck"} # {} THEN tracked' = tracked
           ELSE tracked' = TrackedWith(kind[p], cid[p], nextUUID)
  BY <1>0 DEF AddRule
<1>2. UNCHANGED <<dels, kind, cid>>
  BY DEF AddRule
<1>3. kind[p] \in Kinds /\ cid[p] \in Containers /\ nextUUID \in Nat
  BY DEF TypeOK
<1>4. \A m \in Kinds, d \in Containers : tracked[m][d] \subseteq tracked'[m][d]
  <2>1. tracked' = tracked \/ tracked' = TrackedWith(kind[p], cid[p], nextUUID)
    BY <1>1
  <2>2. ASSUME NEW m \in Kinds, NEW d \in Containers
        PROVE  tracked[m][d] \subseteq TrackedWith(kind[p], cid[p], nextUUID)[m][d]
    <3>1. CASE m = kind[p] /\ d = cid[p]
      BY <1>3, <3>1, TrackedWithType
    <3>2. CASE m # kind[p] \/ d # cid[p]
      BY <1>3, <3>2, TrackedWithType
    <3> QED
      BY <3>1, <3>2
  <2>3. CASE tracked' = tracked
    BY <2>3
  <2>4. CASE tracked' = TrackedWith(kind[p], cid[p], nextUUID)
    BY <2>2, <2>4
  <2> QED
    BY <2>1, <2>3, <2>4
<1>5. \A r \in rows : Owned(r) => r.kind \in Kinds /\ r.cid \in Containers
  BY DEF TypeOK, Owned
<1>6. \A r \in rows : Owned(r) /\ RowRecorded(r) => RowRecorded(r)'
  BY <1>2, <1>4, <1>5 DEF RowRecorded
<1>7. Loses({new})
  BY <1>1, <1>6, RecordsKept
<1>8. failures \in Nat /\ (F = {} => failures' = failures) /\ (F # {} => failures' = failures + 1)
  BY <1>1 DEF TypeOK, Meets
<1>9. CASE F # {}
  BY <1>7, <1>8, <1>9
<1>10. CASE F = {}
  <2>1. nextUUID \in tracked'[kind[p]][cid[p]]
    BY <1>1, <1>3, <1>10, TrackedWithType
  <2>2. new.kind = kind[p] /\ new.cid = cid[p] /\ new.uuid = nextUUID
    BY <1>0 DEF NewRow
  <2>3. new.uuid \in OnRecord(new.kind, new.cid)'
    BY <2>1, <2>2 DEF OnRecord
  <2>4. new \notin Unrecorded'
    BY <2>3 DEF Unrecorded
  <2> QED
    BY <1>7, <1>8, <1>10, <2>4 DEF Loses
<1> QED
  BY <1>9, <1>10

\* No step of a pass makes State forget a rule, but for a call that fails, which
\* costs one.
LEMMA PassLoses ==
  ASSUME TypeOK, UniqueUUIDs, NEW p \in Passes, PassStep(p)
  PROVE  \/ Loses({}) /\ failures' >= failures
         \/ failures' = failures + 1 /\ \E x : Loses({x})
<1> USE DEF router, budgets, listing, loop, pending
<1>1. ASSUME NEW h \in Hosts, List(p, h) PROVE Loses({}) /\ failures' >= failures
  BY <1>1, QuietLosses DEF TypeOK, List, Meets
<1>2. CASE Known(p) \/ PruneDone(p) \/ ScanDone(p)
  BY <1>2, QuietLosses DEF TypeOK, Known, PruneDone, ScanDone
<1>3. CASE ReconfigureUnbound(p)
  BY <1>3, QuietLosses DEF TypeOK, ReconfigureUnbound, Publish, Meets
<1>4. ASSUME NEW k \in Kinds, NEW c \in Containers, RemoveTracked(p, k, c)
      PROVE  Loses({}) /\ failures' >= failures
  <2>1. Visit(p, k, c) /\ dels' = [dels EXCEPT ![p] = tracked[k][c]] /\ tracked' = Untracked(k, c)
        /\ rows' = rows /\ failures' = failures
    BY <1>4 DEF RemoveTracked
  <2>2. kind'[p] = k /\ cid'[p] = c /\ dels[p] = {} /\ dels'[p] = tracked[k][c]
        /\ \A q \in Passes : q # p => kind'[q] = kind[q] /\ cid'[q] = cid[q] /\ dels'[q] = dels[q]
    BY <2>1, VisitType DEF TypeOK
  <2>3. \A m \in Kinds, d \in Containers : m # k \/ d # c => tracked'[m][d] = tracked[m][d]
    BY <2>1, UntrackedType
  <2>4. ASSUME NEW r \in rows, Owned(r), RowRecorded(r) PROVE RowRecorded(r)'
    <3>1. r.kind \in Kinds /\ r.cid \in Containers
      BY <2>4 DEF TypeOK, Owned
    <3>2. CASE r.uuid \in tracked[r.kind][r.cid]
      BY <2>2, <2>3, <3>1, <3>2 DEF RowRecorded
    <3>3. ASSUME NEW q \in Passes, kind[q] = r.kind, cid[q] = r.cid, r.uuid \in dels[q]
          PROVE  RowRecorded(r)'
      BY <2>2, <3>3 DEF RowRecorded
    <3> QED
      BY <2>4, <3>2, <3>3 DEF RowRecorded
  <2> QED
    BY <2>1, <2>4, RecordsKept DEF TypeOK
<1>5. ASSUME NEW k \in Kinds, NEW c \in Containers, CheckTracked(p, k, c)
      PROVE  Loses({}) /\ failures' >= failures
  <2>1. Visit(p, k, c) /\ UNCHANGED <<rows, tracked, dels, failures>>
    BY <1>5 DEF CheckTracked
  <2> QED
    BY <2>1, VisitType, QuietLosses DEF TypeOK
<1>6. CASE Apply(p)
  <2>1. dels[p] = {} /\ UNCHANGED <<rows, tracked, dels, kind>>
    BY <1>6 DEF TypeOK, Apply
  <2>2. \A q \in Passes : q # p => cid'[q] = cid[q]
    BY <1>6 DEF TypeOK, Apply
  <2>3. failures' >= failures
    BY <1>6 DEF TypeOK, Apply, Publish, Meets
  <2> QED
    BY <2>1, <2>2, <2>3, QuietLosses
<1> QED
  BY <1>1, <1>2, <1>3, <1>4, <1>5, <1>6, DeleteLoses, AddLoses DEF PassStep

\* The rules State forgot are as many as the calls that failed, at most.
Bounded == up => IsFiniteSet(Unrecorded) /\ Cardinality(Unrecorded) <= failures

\* Counting the rules lost in a step.
LEMMA CountLosses ==
  ASSUME TypeOK, up, Bounded,
         \/ Loses({}) /\ failures' \in Nat /\ failures' >= failures
         \/ failures' = failures + 1 /\ \E x : Loses({x})
  PROVE  Bounded'
<1>1. IsFiniteSet(Unrecorded) /\ Cardinality(Unrecorded) <= failures /\ failures \in Nat
  BY DEF Bounded, TypeOK
<1>2. Cardinality(Unrecorded) \in Nat
  BY <1>1, FS_CardinalityType
<1>3. CASE Loses({}) /\ failures' \in Nat /\ failures' >= failures
  <2>1. Unrecorded' \in SUBSET Unrecorded
    BY <1>3 DEF Loses
  <2>2. IsFiniteSet(Unrecorded') /\ Cardinality(Unrecorded') <= Cardinality(Unrecorded)
    BY <1>1, <2>1, FS_Subset
  <2>3. Cardinality(Unrecorded') \in Nat
    BY <2>2, FS_CardinalityType
  <2> QED
    BY <1>1, <1>2, <1>3, <2>2, <2>3 DEF Bounded
<1>4. ASSUME failures' = failures + 1, NEW x, Loses({x}) PROVE Bounded'
  <2> DEFINE more == Unrecorded \cup {x}
  <2>1. IsFiniteSet(more) /\ Cardinality(more) <= Cardinality(Unrecorded) + 1
    BY <1>1, <1>2, FS_AddElement
  <2>2. Unrecorded' \in SUBSET more
    BY <1>4 DEF Loses
  <2> HIDE DEF more
  <2>3. IsFiniteSet(Unrecorded') /\ Cardinality(Unrecorded') <= Cardinality(more)
    BY <2>1, <2>2, FS_Subset
  <2>4. Cardinality(Unrecorded') \in Nat /\ Cardinality(more) \in Nat
    BY <2>1, <2>3, FS_CardinalityType
  <2> QED
    BY <1>1, <1>2, <1>4, <2>1, <2>3, <2>4 DEF Bounded
<1> QED
  BY <1>3, <1>4

LEMMA BoundedStep ==
  ASSUME "search" \notin Faults, TypeOK, UniqueUUIDs, Down, Bounded, [Next]_vars
  PROVE  Bounded'
<1> USE DEF router, budgets, listing, loop, pending
<1>1. ASSUME UNCHANGED <<up, rows, tracked, dels, failures>>,
             \A p \in Passes : dels[p] = {} \/ (kind'[p] = kind[p] /\ cid'[p] = cid[p])
      PROVE  Bounded'
  <2>1. CASE up
    <3>1. failures' \in Nat /\ failures' >= failures
      BY <1>1 DEF TypeOK
    <3> QED
      BY <1>1, <2>1, <3>1, QuietLosses, CountLosses
  <2>2. CASE ~up
    BY <1>1, <2>2 DEF Bounded
  <2> QED
    BY <2>1, <2>2
<1>2. CASE UNCHANGED vars
  BY <1>1, <1>2 DEF vars
<1>3. ASSUME NEW c \in Containers, StartContainer(c) \/ StopContainer(c) PROVE Bounded'
  BY <1>1, <1>3 DEF StartContainer, StopContainer
<1>4. CASE Startup
  <2>1. \A k \in Kinds, c \in Containers : tracked'[k][c] = OwnedUUIDs(k, c)
    BY <1>4 DEF Startup, Meets
  <2>2. rows' = rows /\ failures' = failures
    BY <1>4 DEF Startup, Meets
  <2>3. \A r \in rows : Owned(r) => r.kind \in Kinds /\ r.cid \in Containers
    BY DEF TypeOK, Owned
  <2>4. \A r \in rows' : Owned(r) => r.uuid \in tracked'[r.kind][r.cid]
    BY <2>1, <2>2, <2>3 DEF OwnedUUIDs
  <2>5. Unrecorded' = {}
    BY <2>4 DEF Unrecorded, OnRecord, Owned
  <2> QED
    BY <2>2, <2>5, FS_EmptySet DEF Bounded, TypeOK
<1>5. CASE Crash
  BY <1>5 DEF Crash, Bounded
<1>6. ASSUME NEW p \in Passes, Begin(p) PROVE Bounded'
  BY <1>1, <1>6 DEF Begin
<1>7. ASSUME NEW p \in Passes, PassStep(p) PROVE Bounded'
  <2>1. pc[p] # "idle"
    BY <1>7 DEF PassStep, TypeOK, List, Known, RemoveTracked, DeleteRule, PruneDone,
                CheckTracked, AddRule, ScanDone, ReconfigureUnbound, Apply
  <2>2. up
    BY <2>1 DEF Down
  <2>3. failures' \in Nat
    BY TypeStep DEF TypeOK
  <2> QED
    BY <1>7, <2>2, <2>3, PassLoses, CountLosses
<1> QED
  BY <1>2, <1>3, <1>4, <1>5, <1>6, <1>7 DEF Next

\* However passes overlap and whatever else fails, a failing call costs the record
\* of one rule at most (loader_gateway.go:146-161, 187-217); only the searches of
\* the start (state.go, ReconcileOnStartup) can cost more.
THEOREM LossesAreBounded == ASSUME "search" \notin Faults PROVE Spec => []LossesAreFailures
<1>1. Init => Bounded
  BY DEF Init, Bounded
<1>2. TypeOK /\ Ownership /\ Bounded /\ [Next]_vars => Bounded'
  BY BoundedStep DEF Ownership
<1>3. Bounded => LossesAreFailures
  BY DEF Bounded, LossesAreFailures
<1> QED
  BY <1>1, <1>2, <1>3, OwnershipAlways, PTL DEF Spec
=============================================================================
