---------------------------- MODULE PushHistory ----------------------------
(***************************************************************************)
(* ConfigPush with a history: of the configurations that were stored and   *)
(* of what each server got to load, of which the code only keeps the last, *)
(* and of the two races that the code leaves open, so that the properties  *)
(* can say what holds whenever these are not being run, and how long one   *)
(* has consequences.  No step depends on the history.                      *)
(***************************************************************************)
EXTENDS ConfigPush, Sequences

VARIABLES
  stored,     \* what lastJSONConfig has been, in order
  taken,      \* the number of the body that updateServer u, s took
  holds,      \* the number of what server s loaded last, 0 without one
  raced,      \* servers that two goroutines found free together, until all have left
  unsure,     \* servers whose record may be wrong, until the next version
  miscounted  \* two updates were between the two halves of lastVersion++

bodies == <<stored, taken, holds>>
races == <<raced, unsure, miscounted>>
history == <<bodies, races>>
historyVars == <<vars, history>>

HistoryInit ==
  /\ Init
  /\ stored = <<>>
  /\ taken = [u \in Updates |-> [s \in Servers |-> 0]]
  /\ holds = [s \in Servers |-> 0]
  /\ raced = {} /\ unsure = {} /\ miscounted = FALSE

\* Goroutine u, s has found server s free and has not released it.
Attends(u, s) == work[u][s] \in InSection \cup {"mark"}

\* Two goroutines are between Get and Set for server s: both go on.
Colliding(s) == \E u, v \in Updates : u # v /\ work[u][s] = "mark" /\ work[v][s] = "mark"

\* Two updates have read lastVersion and are about to write what they read, plus 1.
Miscounting == \E u, v \in Updates : u # v /\ pc[u] = "bump" /\ pc[v] = "bump"

(* What a step does that the history takes note of *)

Dies == crashes' # crashes
Stores(u) == pc[u] = "store" /\ pc'[u] = "count"
Takes(u, s) == work[u][s] = "body" /\ work'[u][s] = "post"
Loads(u, s) == work[u][s] = "post" /\ work'[u][s] # "post" /\ applied'[s] = postBody[u][s]
Restarts(s) == applied[s] # None /\ applied'[s] = None

\* The history starts again with the controller.
NoteDeath ==
  /\ stored' = <<>>
  /\ taken' = [u \in Updates |-> [s \in Servers |-> 0]]
  /\ holds' = [s \in Servers |-> 0]
  /\ raced' = {} /\ unsure' = {} /\ miscounted' = FALSE

NoteBodies ==
  /\ stored' = IF \E u \in Updates : Stores(u) THEN Append(stored, lastJSONConfig') ELSE stored
  /\ taken' = [u \in Updates |-> [s \in Servers |->
                 IF Takes(u, s) THEN Len(stored)
                 ELSE IF work'[u][s] = "done" THEN 0 ELSE taken[u][s]]]
  /\ holds' = [s \in Servers |->
                 IF \E u \in Updates : Loads(u, s) THEN taken[CHOOSE u \in Updates : Loads(u, s)][s]
                 ELSE IF Restarts(s) THEN 0 ELSE holds[s]]

NoteRaces ==
  /\ raced' = {s \in Servers : Colliding(s)' \/ (s \in raced /\ \E u \in Updates : Attends(u, s)')}
  /\ unsure' = {s \in Servers : \/ s \in raced' \/ Restarts(s)
                                \/ s \in unsure /\ lastVersion' = lastVersion}
  /\ miscounted' = (miscounted \/ Miscounting')

Noted ==
  IF UNCHANGED vars THEN UNCHANGED history
  ELSE IF Dies THEN NoteDeath ELSE NoteBodies /\ NoteRaces

HistoryNext == Next /\ Noted

HistorySpec == HistoryInit /\ [][HistoryNext]_historyVars

HistoryFairSpec == HistorySpec /\ Fairness

----------------------------------------------------------------------------
(* Properties *)

\* Servers that are being updated already are skipped (loader.go:315): a server
\* handles one request of the controller at a time.  Only two goroutines that
\* come between Get and Set together break this, and only until they, and those
\* that came in meanwhile because one of them released the server, have left.
OnePushAtATime ==
  \A s \in Servers \ raced : \A u, v \in Updates :
    work[u][s] = "post" /\ work[v][s] = "post" => u = v

\* A server that is on record with the last version runs the last configuration,
\* so skipping it is right (loader.go:327), however updates overlap.  Two
\* goroutines at the server together, or its restart, make the record unsure
\* until the next version is counted; an increment of lastVersion that may have
\* been lost, for as long as the controller runs.
RecordIsTrue ==
  ~miscounted /\ (\A u \in Updates : ~Preparing(u)) =>
    \A s \in Servers \ unsure :
      serversVersions[s] = lastVersion /\ lastVersion > 0 => applied[s] = lastJSONConfig

\* However updates overlap, while servers take their time to answer and requests
\* fail, a server runs what was stored for it and never goes back to a
\* configuration older than one it has loaded, except while two goroutines that
\* came between Get and Set together are at it: see PushLedger.
Ledger == INSTANCE PushLedger WITH
            runs <- applied, unordered <- raced, Configs <- Adaptable
ImplementsPushLedger == Ledger!Spec
=============================================================================
