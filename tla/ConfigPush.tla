----------------------------- MODULE ConfigPush -----------------------------
(***************************************************************************)
(* The controller's way from a change in Docker to the configuration of    *)
(* the Caddy servers: DockerLoader.update and updateServer of loader.go.   *)
(*                                                                         *)
(* time.AfterFunc runs every update in a goroutine of its own, and update  *)
(* re-arms the timer first thing, so updates may overlap; each starts one  *)
(* goroutine per server.  They share lastCaddyfile, lastJSONConfig and     *)
(* lastVersion without a lock; serversUpdating and serversVersions are     *)
(* maps with a lock per call.  One access to a shared variable is one      *)
(* step.  A slice that is read while it is assigned (a data race) may mix  *)
(* the pointer of one value with the length of another: see Torn.          *)
(*                                                                         *)
(* A Caddyfile stands for the text generated from one state of Docker and  *)
(* for the JSON it is adapted to.  The autosave file and the gateway pass  *)
(* that ends an update are added by module Loader.                         *)
(***************************************************************************)
EXTENDS Integers, FiniteSets

CONSTANTS
  Updates,      \* update goroutines that may be in progress together
  Servers,      \* controlled servers, as the generator finds them
  Caddyfiles,   \* what the states of Docker generate
  FirstCaddyfile,
  Adaptable,    \* Caddyfiles the adapter accepts
  None,
  HangingServers, \* servers that may accept a request and never answer
  Prompt,       \* see Blocked
  MaxChanges, MaxFailures, MaxCrashes, MaxServerRestarts  \* budgets

VARIABLES
  desired,          \* Caddyfile of Docker's present state
  applied,          \* configuration each server runs
  lastCaddyfile, lastJSONConfig, lastVersion,
  serversVersions,  \* a missing entry reads as 0
  serversUpdating,  \* the servers whose entry is true
  changes, failures, crashes, restarts,  \* budgets used up
  (* locals of update u *)
  pc,
  caddyfile,        \* what this update generated
  caddyfileChanged,
  oldVersion,       \* lastVersion as read by lastVersion++
  (* locals of updateServer u, s *)
  work,             \* program counter
  version, postBody

env == <<changes, failures, crashes, restarts>>
shared == <<lastCaddyfile, lastJSONConfig, lastVersion, serversVersions, serversUpdating>>
local == <<caddyfile, caddyfileChanged, oldVersion>>
worker == <<work, version, postBody>>
vars == <<desired, applied, shared, env, pc, local, worker>>

----------------------------------------------------------------------------
Init ==
  /\ desired = FirstCaddyfile
  /\ applied = [s \in Servers |-> None]
  /\ lastCaddyfile = None /\ lastJSONConfig = None /\ lastVersion = 0
  /\ serversVersions = [s \in Servers |-> 0] /\ serversUpdating = {}
  /\ pc = [u \in Updates |-> "idle"]
  /\ caddyfile = [u \in Updates |-> None]
  /\ caddyfileChanged = [u \in Updates |-> FALSE]
  /\ oldVersion = [u \in Updates |-> 0]
  /\ work = [u \in Updates |-> [s \in Servers |-> "done"]]
  /\ version = [u \in Updates |-> [s \in Servers |-> 0]]
  /\ postBody = [u \in Updates |-> [s \in Servers |-> None]]
  /\ changes = 0 /\ failures = 0 /\ crashes = 0 /\ restarts = 0

\* Docker moves to a state that generates another Caddyfile.
Change(c) ==
  /\ changes < MaxChanges
  /\ c # desired
  /\ desired' = c
  /\ changes' = changes + 1
  /\ UNCHANGED <<applied, shared, failures, crashes, restarts, pc, local, worker>>

\* A server comes back without any configuration (README.md:463).
ServerRestart(s) ==
  /\ restarts < MaxServerRestarts
  /\ applied' = [applied EXCEPT ![s] = None]
  /\ restarts' = restarts + 1
  /\ UNCHANGED <<desired, shared, changes, failures, crashes, pc, local, worker>>

\* The controller dies and starts again; the servers run on.
Crash ==
  /\ crashes < MaxCrashes
  /\ lastCaddyfile' = None /\ lastJSONConfig' = None /\ lastVersion' = 0
  /\ serversVersions' = [s \in Servers |-> 0] /\ serversUpdating' = {}
  /\ pc' = [u \in Updates |-> "idle"]
  /\ caddyfile' = [u \in Updates |-> None]
  /\ caddyfileChanged' = [u \in Updates |-> FALSE]
  /\ oldVersion' = [u \in Updates |-> 0]
  /\ work' = [u \in Updates |-> [s \in Servers |-> "done"]]
  /\ version' = [u \in Updates |-> [s \in Servers |-> 0]]
  /\ postBody' = [u \in Updates |-> [s \in Servers |-> None]]
  /\ crashes' = crashes + 1
  /\ UNCHANGED <<desired, applied, changes, failures, restarts>>

\* A failure takes from the budget: a failed push, or a torn read.
Fail ==
  /\ failures < MaxFailures
  /\ failures' = failures + 1

----------------------------------------------------------------------------
(* update, in goroutine u *)

\* With Prompt, the work an update does itself takes less than the time to the
\* next firing of the timer, so that the next one only finds it idle or waiting
\* for servers to answer.
Blocked(u) ==
  \/ pc[u] = "idle"
  \/ pc[u] = "wait" /\ \A s \in Servers : work[u][s] \in {"post", "done"}

\* The timer fires: by an event or, at the latest, by polling.
Fire(u) ==
  /\ pc[u] = "idle"
  /\ Prompt => \A v \in Updates : Blocked(v)
  /\ pc' = [pc EXCEPT ![u] = "generate"]
  /\ UNCHANGED <<desired, applied, shared, env, local, worker>>

\* GenerateCaddyfile.
Generate(u) ==
  /\ pc[u] = "generate"
  /\ caddyfile' = [caddyfile EXCEPT ![u] = desired]
  /\ pc' = [pc EXCEPT ![u] = "compare"]
  /\ UNCHANGED <<desired, applied, shared, env, caddyfileChanged, oldVersion, worker>>

\* An update other than u is at the assignment of a slice, at p, and the slice is
\* read torn: its pointer and its length belong to different values.
Torn(u, p) ==
  /\ \E v \in Updates \ {u} : pc[v] = p
  /\ Fail

\* A torn slice equals no Caddyfile.
Compare(u) ==
  /\ pc[u] = "compare"
  /\ \/ /\ caddyfileChanged' = [caddyfileChanged EXCEPT ![u] = lastCaddyfile # caddyfile[u]]
        /\ UNCHANGED failures
     \/ /\ Torn(u, "remember")
        /\ caddyfileChanged' = [caddyfileChanged EXCEPT ![u] = TRUE]
  /\ pc' = [pc EXCEPT ![u] = "remember"]
  /\ UNCHANGED <<desired, applied, shared, changes, crashes, restarts, caddyfile, oldVersion, worker>>

Remember(u) ==
  /\ pc[u] = "remember"
  /\ lastCaddyfile' = caddyfile[u]
  /\ pc' = [pc EXCEPT ![u] = IF caddyfileChanged[u] THEN "adapt" ELSE "launch"]
  /\ UNCHANGED <<desired, applied, lastJSONConfig, lastVersion, serversVersions,
                 serversUpdating, env, local, worker>>

\* Mutant of AfterAdapt: the adapter's error is only logged.
StoreAnyway(u) == "store"

\* Adapt; update returns when the adapter refuses the Caddyfile.
AfterAdapt(u) == IF caddyfile[u] \in Adaptable THEN "store" ELSE "idle"

Adapt(u) ==
  /\ pc[u] = "adapt"
  /\ pc' = [pc EXCEPT ![u] = AfterAdapt(u)]
  /\ UNCHANGED <<desired, applied, shared, env, local, worker>>

StoreJSON(u) ==
  /\ pc[u] = "store"
  /\ lastJSONConfig' = caddyfile[u]
  /\ pc' = [pc EXCEPT ![u] = "count"]
  /\ UNCHANGED <<desired, applied, lastCaddyfile, lastVersion, serversVersions,
                 serversUpdating, env, local, worker>>

\* lastVersion++ reads, then writes.
ReadLastVersion(u) ==
  /\ pc[u] = "count"
  /\ oldVersion' = [oldVersion EXCEPT ![u] = lastVersion]
  /\ pc' = [pc EXCEPT ![u] = "bump"]
  /\ UNCHANGED <<desired, applied, shared, env, caddyfile, caddyfileChanged, worker>>

BumpVersion(u) ==
  /\ pc[u] = "bump"
  /\ lastVersion' = oldVersion[u] + 1
  /\ pc' = [pc EXCEPT ![u] = "launch"]
  /\ UNCHANGED <<desired, applied, lastCaddyfile, lastJSONConfig, serversVersions,
                 serversUpdating, env, local, worker>>

\* One goroutine for each controlled server.
Launch(u) ==
  /\ pc[u] = "launch"
  /\ work' = [work EXCEPT ![u] = [s \in Servers |-> "check"]]
  /\ pc' = [pc EXCEPT ![u] = "wait"]
  /\ UNCHANGED <<desired, applied, shared, env, local, version, postBody>>

\* Mutant of AllDone: nobody waits for the goroutines.
NotWaitedFor(u) == TRUE

AllDone(u) == \A s \in Servers : work[u][s] = "done"

\* wg.Wait returns; the locals are gone.
Finish(u) ==
  /\ pc[u] = "wait"
  /\ AllDone(u)
  /\ pc' = [pc EXCEPT ![u] = "idle"]
  /\ caddyfile' = [caddyfile EXCEPT ![u] = None]
  /\ UNCHANGED <<desired, applied, shared, env, caddyfileChanged, oldVersion, worker>>

----------------------------------------------------------------------------
(* updateServer, for server s in update u *)

Goto(u, s, w) == work' = [work EXCEPT ![u][s] = w]

\* Mutant of Updating: the flag is ignored.
NeverUpdating(s) == FALSE

\* Skip servers that are being updated already.
Updating(s) == s \in serversUpdating

Check(u, s) ==
  /\ work[u][s] = "check"
  /\ Goto(u, s, IF Updating(s) THEN "done" ELSE "mark")
  /\ UNCHANGED <<desired, applied, shared, env, pc, local, version, postBody>>

Mark(u, s) ==
  /\ work[u][s] = "mark"
  /\ serversUpdating' = serversUpdating \cup {s}
  /\ Goto(u, s, "version")
  /\ UNCHANGED <<desired, applied, lastCaddyfile, lastJSONConfig, lastVersion,
                 serversVersions, env, pc, local, version, postBody>>

TakeVersion(u, s) ==
  /\ work[u][s] = "version"
  /\ version' = [version EXCEPT ![u][s] = lastVersion]
  /\ Goto(u, s, "compare")
  /\ UNCHANGED <<desired, applied, shared, env, pc, local, postBody>>

\* Skip servers that already have this version.
UpToDate(u, s) == serversVersions[s] >= version[u][s]

\* Mutant of AfterVersion: the early return forgets the flag.
ReturnFlagged(u, s) == IF UpToDate(u, s) THEN "done" ELSE "body"

AfterVersion(u, s) == IF UpToDate(u, s) THEN "clear" ELSE "body"

CompareVersion(u, s) ==
  /\ work[u][s] = "compare"
  /\ Goto(u, s, AfterVersion(u, s))
  /\ UNCHANGED <<desired, applied, shared, env, pc, local, version, postBody>>

\* addAdminListen fails on an empty or a torn configuration: neither is JSON.
TakeBody(u, s) ==
  /\ work[u][s] = "body"
  /\ \/ /\ lastJSONConfig # None
        /\ postBody' = [postBody EXCEPT ![u][s] = lastJSONConfig]
        /\ Goto(u, s, "post")
        /\ UNCHANGED failures
     \/ /\ lastJSONConfig = None
        /\ Goto(u, s, "clear")
        /\ UNCHANGED <<postBody, failures>>
     \/ /\ Torn(u, "store")
        /\ Goto(u, s, "clear")
        /\ UNCHANGED postBody
  /\ UNCHANGED <<desired, applied, shared, changes, crashes, restarts, pc, local, version>>

\* Mutant of AfterError: a failed push is recorded like any other.
RecordAnyway == "record"

\* The early returns after an error or a status other than 200.
AfterError == "clear"

\* POST /load.  It may fail before or after the server has loaded the body.
Post(u, s) ==
  /\ work[u][s] = "post"
  /\ \/ applied' = [applied EXCEPT ![s] = postBody[u][s]]
     \/ UNCHANGED applied
  /\ \/ /\ applied'[s] = postBody[u][s]
        /\ Goto(u, s, "record")
        /\ UNCHANGED failures
     \/ /\ Fail
        /\ Goto(u, s, AfterError)
  /\ UNCHANGED <<desired, shared, changes, crashes, restarts, pc, local, version, postBody>>

Record(u, s) ==
  /\ work[u][s] = "record"
  /\ serversVersions' = [serversVersions EXCEPT ![s] = version[u][s]]
  /\ Goto(u, s, "clear")
  /\ UNCHANGED <<desired, applied, lastCaddyfile, lastJSONConfig, lastVersion,
                 serversUpdating, env, pc, local, version, postBody>>

\* The deferred Delete.
Clear(u, s) ==
  /\ work[u][s] = "clear"
  /\ serversUpdating' = serversUpdating \ {s}
  /\ Goto(u, s, "done")
  /\ version' = [version EXCEPT ![u][s] = 0]
  /\ postBody' = [postBody EXCEPT ![u][s] = None]
  /\ UNCHANGED <<desired, applied, lastCaddyfile, lastJSONConfig, lastVersion,
                 serversVersions, env, pc, local>>

UpdateStep(u) ==
  \/ Generate(u) \/ Compare(u) \/ Remember(u) \/ Adapt(u) \/ StoreJSON(u)
  \/ ReadLastVersion(u) \/ BumpVersion(u) \/ Launch(u) \/ Finish(u)

LocalServerStep(u, s) ==
  \/ Check(u, s) \/ Mark(u, s) \/ TakeVersion(u, s) \/ CompareVersion(u, s)
  \/ TakeBody(u, s) \/ Record(u, s) \/ Clear(u, s)

Next ==
  \/ \E c \in Caddyfiles : Change(c)
  \/ \E s \in Servers : ServerRestart(s)
  \/ Crash
  \/ \E u \in Updates : Fire(u) \/ UpdateStep(u)
  \/ \E u \in Updates, s \in Servers : LocalServerStep(u, s) \/ Post(u, s)

Spec == Init /\ [][Next]_vars

\* Polling keeps firing the timer (loader.go:258), goroutines are scheduled,
\* and a server that does not hang answers a request or breaks the connection.
Fairness ==
  /\ \A u \in Updates : WF_vars(Fire(u)) /\ WF_vars(UpdateStep(u))
  /\ \A u \in Updates, s \in Servers : WF_vars(LocalServerStep(u, s))
  /\ \A u \in Updates, s \in Servers \ HangingServers : WF_vars(Post(u, s))

FairSpec == Spec /\ Fairness

----------------------------------------------------------------------------
(* Properties *)

\* An update between the assignment of lastJSONConfig and the end of lastVersion++.
Preparing(u) == pc[u] \in {"count", "bump"}

InSection == {"version", "compare", "body", "post", "record", "clear"}

\* Types; the goroutines of an update only run while the update waits for them.
TypeOK ==
  /\ desired \in Caddyfiles
  /\ applied \in [Servers -> Caddyfiles \cup {None}]
  /\ lastCaddyfile \in Caddyfiles \cup {None}
  /\ lastJSONConfig \in Caddyfiles \cup {None}
  /\ lastVersion \in Nat
  /\ serversVersions \in [Servers -> Nat]
  /\ serversUpdating \in SUBSET Servers
  /\ changes \in Nat /\ failures \in Nat /\ crashes \in Nat /\ restarts \in Nat
  /\ pc \in [Updates -> {"idle", "generate", "compare", "remember", "adapt", "store", "count",
                         "bump", "launch", "wait"}]
  /\ caddyfile \in [Updates -> Caddyfiles \cup {None}]
  /\ caddyfileChanged \in [Updates -> BOOLEAN]
  /\ oldVersion \in [Updates -> Nat]
  /\ work \in [Updates -> [Servers -> InSection \cup {"check", "mark", "done"}]]
  /\ version \in [Updates -> [Servers -> Nat]]
  /\ postBody \in [Updates -> [Servers -> Caddyfiles \cup {None}]]
  /\ \A u \in Updates, s \in Servers : work[u][s] # "done" => pc[u] = "wait"

\* No update sets out to configure a server before there is a configuration:
\* lastVersion leaves 0 only after one is stored, however updates overlap.
NoEmptyPush ==
  \A u \in Updates, s \in Servers : work[u][s] = "body" => lastJSONConfig # None

\* A server only ever runs what the adapter accepted; a Caddyfile it refuses
\* leaves every server with what it had.
OnlyAdaptedConfigs == \A s \in Servers : applied[s] \in Adaptable \cup {None}

\* A server flagged as being updated has a goroutine that will clear the flag:
\* no early return leaves a server flagged, hence skipped, for ever.
NoStuckFlag ==
  \A s \in serversUpdating : \E u \in Updates : work[u][s] \in InSection

\* Once Docker stops changing, every server that answers gets to run the
\* configuration of Docker's state and stays with it, unless the adapter
\* refuses it.
Converges ==
  <>[](desired \in Adaptable =>
         \A s \in Servers \ HangingServers : applied[s] = desired)

----------------------------------------------------------------------------
ASSUME ConfigAssumption ==
  /\ FirstCaddyfile \in Caddyfiles
  /\ None \notin Caddyfiles
  /\ Adaptable \subseteq Caddyfiles
  /\ Prompt \in BOOLEAN
  /\ MaxChanges \in Nat /\ MaxFailures \in Nat
  /\ MaxCrashes \in Nat /\ MaxServerRestarts \in Nat
=============================================================================
