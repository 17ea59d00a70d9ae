-------------------------- MODULE PushLedgerProofs --------------------------
(* The push however its updates overlap: what the flags of serversUpdating, *)
(* the recorded versions and the order of requests are good for while the   *)
(* races that the code leaves open are not being run.  For any number of    *)
(* updates and servers, failures, torn reads, crashes and restarts of       *)
(* servers, and servers that may hang.                                      *)
EXTENDS PushHistory, ConfigPushProofs, SequenceTheorems

\* What the flag is for: the goroutines at a server exclude each other.
ExcludedAt(s) ==
  /\ \A u, v \in Updates : Attends(u, s) /\ Attends(v, s) => u = v
  /\ \A u \in Updates : work[u][s] \in InSection => s \in serversUpdating

\* A server is only pushed what is newer than its record.
NewerAt(s) ==
  \A u \in Updates : work[u][s] \in {"body", "post", "record"} => serversVersions[s] < version[u][s]

\* A race shows as long as it has consequences.
Watched ==
  /\ Miscounting => miscounted
  /\ raced \subseteq unsure \cap Servers
  /\ \A s \in raced : \E u \in Updates : Attends(u, s)
  /\ \A s \in Servers \ raced : ExcludedAt(s) /\ NewerAt(s)

\* Versions only grow.
Counted ==
  /\ \A s \in Servers : serversVersions[s] <= lastVersion
  /\ \A u \in Updates, s \in Servers : version[u][s] <= lastVersion
  /\ \A u \in Updates : pc[u] = "bump" => oldVersion[u] = lastVersion

\* What is sent under the last version is the last configuration,
Current ==
  (\A u \in Updates : ~Preparing(u)) =>
    \A u \in Updates, s \in Servers :
      work[u][s] \in {"post", "record"} /\ version[u][s] = lastVersion
        => postBody[u][s] = lastJSONConfig

\* what is recorded under it is what the server runs,
LoadedAt(s) ==
  \A u \in Updates : work[u][s] = "record" /\ version[u][s] = lastVersion => applied[s] = postBody[u][s]

\* and so the record tells the truth.
RecordedAt(s) ==
  (\A u \in Updates : ~Preparing(u)) =>
    (serversVersions[s] = lastVersion /\ lastVersion > 0 => applied[s] = lastJSONConfig)

Truthful ==
  ~miscounted =>
    /\ Counted /\ Current
    /\ \A s \in Servers \ unsure : LoadedAt(s) /\ RecordedAt(s)

\* The numbers of configurations.
Numbered ==
  /\ stored \in Seq(Adaptable)
  /\ lastJSONConfig # None => Len(stored) > 0 /\ lastJSONConfig = stored[Len(stored)]

\* A request carries a configuration that was stored, and its server holds
\* nothing newer unless it is racing another one.
Sent ==
  \A u \in Updates, s \in Servers :
    work[u][s] = "post" =>
      /\ taken[u][s] \in 1..Len(stored)
      /\ postBody[u][s] = stored[taken[u][s]]
      /\ s \notin raced => holds[s] <= taken[u][s]

Held ==
  /\ taken \in [Updates -> [Servers -> Nat]]
  /\ holds \in [Servers -> Nat]
  /\ \A s \in Servers : holds[s] <= Len(stored)

LedgerInvariant == Numbered /\ Sent /\ Held

UpdateMoves ==
  \/ \E c \in Caddyfiles : Change(c)
  \/ \E u \in Updates : Fire(u) \/ (UpdateStep(u) /\ pc[u] # "bump")

\* Each step with what the history takes note of.
LEMMA HistorySteps ==
  ASSUME TypeOK, [HistoryNext]_historyVars
  PROVE  \/ UNCHANGED vars /\ UNCHANGED history
         \/ Crash /\ NoteDeath
         \/ /\ crashes' = crashes
            /\ NoteBodies /\ NoteRaces
            /\ \/ \E s \in Servers : ServerRestart(s)
               \/ \E u \in Updates : BumpVersion(u)
               \/ UpdateMoves
               \/ \E u \in Updates, s \in Servers : LocalServerStep(u, s) \/ Post(u, s)
<1>1. CASE UNCHANGED historyVars
  BY <1>1 DEF historyVars
<1>2. CASE HistoryNext /\ vars' = vars
  BY <1>2 DEF HistoryNext, Noted
<1>3. CASE HistoryNext /\ ~(vars' = vars)
  <2>1. Next /\ (IF Dies THEN NoteDeath ELSE NoteBodies /\ NoteRaces)
    BY <1>3 DEF HistoryNext, Noted
  <2>2. CASE Crash
    <3>1. Dies
      BY <2>2 DEF Crash, Dies, TypeOK
    <3> QED
      BY <2>1, <2>2, <3>1
  <2>3. ASSUME \/ \E s \in Servers : ServerRestart(s)
               \/ \E u \in Updates : BumpVersion(u)
               \/ UpdateMoves
               \/ \E u \in Updates, s \in Servers : LocalServerStep(u, s) \/ Post(u, s)
        PROVE  crashes' = crashes
    <3>1. ASSUME NEW s \in Servers, ServerRestart(s) PROVE crashes' = crashes
      BY <3>1 DEF ServerRestart
    <3>2. ASSUME NEW u \in Updates, BumpVersion(u) PROVE crashes' = crashes
      BY <3>2 DEF BumpVersion, env
    <3>3. CASE UpdateMoves
      BY <3>3, UpdateSteps DEF UpdateMoves
    <3>4. ASSUME NEW u \in Updates, NEW s \in Servers, LocalServerStep(u, s) PROVE crashes' = crashes
      BY <3>4, ServerSteps
    <3>5. ASSUME NEW u \in Updates, NEW s \in Servers, Post(u, s) PROVE crashes' = crashes
      BY <3>5, PostSteps
    <3> QED
      BY <2>3, <3>1, <3>2, <3>3, <3>4, <3>5
  <2>4. \/ Crash
        \/ \E s \in Servers : ServerRestart(s)
        \/ \E u \in Updates : BumpVersion(u)
        \/ UpdateMoves
        \/ \E u \in Updates, s \in Servers : LocalServerStep(u, s) \/ Post(u, s)
    <3>1. ASSUME NEW u \in Updates, UpdateStep(u) PROVE BumpVersion(u) \/ pc[u] # "bump"
      BY <3>1 DEF UpdateStep, Generate, Compare, Remember, Adapt, StoreJSON, ReadLastVersion, Launch, Finish
    <3> QED
      BY <2>1, <3>1 DEF Next, UpdateMoves
  <2> QED
    BY <2>1, <2>2, <2>3, <2>4 DEF Dies
<1> QED
  BY <1>1, <1>2, <1>3

\* The flag of serversUpdating is a lock as long as nobody else gets between Get
\* and Set.
LEMMA ExcludedStep ==
  ASSUME TypeOK, NEW z \in Servers, ExcludedAt(z), ~Colliding(z)',
         \/ \E s \in Servers : ServerRestart(s)
         \/ \E u \in Updates : BumpVersion(u)
         \/ UpdateMoves
         \/ \E u \in Updates, s \in Servers : LocalServerStep(u, s) \/ Post(u, s)
  PROVE  ExcludedAt(z)'
<1> USE DEF ExcludedAt, Attends, InSection
<1>1. ASSUME NEW s \in Servers, ServerRestart(s) PROVE ExcludedAt(z)'
  BY <1>1 DEF ServerRestart, shared, worker
<1>2. ASSUME NEW u \in Updates, BumpVersion(u) PROVE ExcludedAt(z)'
  BY <1>2 DEF BumpVersion, worker
<1>3. CASE UpdateMoves
  <2>1. /\ serversUpdating' = serversUpdating
        /\ \A v \in Updates, t \in Servers :
             work'[v][t] = work[v][t] \/ (work[v][t] = "done" /\ work'[v][t] = "check")
    BY <1>3, UpdateSteps DEF UpdateMoves
  <2> QED
    BY <2>1
<1>4. ASSUME NEW u \in Updates, NEW s \in Servers, Post(u, s) PROVE ExcludedAt(z)'
  BY <1>4, PostSteps, WorkerElsewhere
<1>5. ASSUME NEW u \in Updates, NEW s \in Servers, LocalServerStep(u, s) PROVE ExcludedAt(z)'
  <2>1. \A v \in Updates, t \in Servers : v # u \/ t # s => work'[v][t] = work[v][t]
    BY <1>5, WorkerElsewhere
  <2>2. \/ Passes(u, s) /\ serversUpdating' = serversUpdating
        \/ Goes(u, s, "mark", "version") /\ serversUpdating' = serversUpdating \cup {s}
        \/ Goes(u, s, "record", "clear") /\ serversUpdating' = serversUpdating
        \/ Goes(u, s, "clear", "done") /\ serversUpdating' = serversUpdating \ {s}
    BY <1>5, ServerSteps
  <2>3. CASE z # s
    BY <2>1, <2>2, <2>3
  <2>4. CASE z = s
    <3>1. CASE Goes(u, s, "check", "mark") /\ s \notin serversUpdating /\ serversUpdating' = serversUpdating
      <4>1. \A v \in Updates \ {u} : ~Attends(v, z)'
        BY <2>1, <2>4, <3>1 DEF Colliding, Goes
      <4> QED
        BY <2>1, <2>4, <3>1, <4>1 DEF Goes
    <3>2. CASE Goes(u, s, "check", "done") /\ serversUpdating' = serversUpdating
      BY <2>1, <2>4, <3>2 DEF Goes
    <3>3. CASE Attends(u, s) /\ work'[u][s] \in InSection /\ s \in serversUpdating'
      BY <2>1, <2>4, <3>3
    <3>4. CASE Goes(u, s, "clear", "done") /\ serversUpdating' = serversUpdating \ {s}
      BY <2>1, <2>4, <3>4 DEF Goes
    <3> QED
      BY <2>2, <2>4, <3>1, <3>2, <3>3, <3>4 DEF Passes, Goes
  <2> QED
    BY <2>3, <2>4
<1> QED
  BY <1>1, <1>2, <1>3, <1>4, <1>5

LEMMA NewerStep ==
  ASSUME TypeOK, NEW z \in Servers, ExcludedAt(z), NewerAt(z),
         \/ \E s \in Servers : ServerRestart(s)
         \/ \E u \in Updates : BumpVersion(u)
         \/ UpdateMoves
         \/ \E u \in Updates, s \in Servers : LocalServerStep(u, s) \/ Post(u, s)
  PROVE  NewerAt(z)'
<1> USE DEF NewerAt
<1>1. ASSUME NEW s \in Servers, ServerRestart(s) PROVE NewerAt(z)'
  BY <1>1 DEF ServerRestart, shared, worker
<1>2. ASSUME NEW u \in Updates, BumpVersion(u) PROVE NewerAt(z)'
  BY <1>2 DEF BumpVersion, worker
<1>3. CASE UpdateMoves
  <2>1. /\ serversVersions' = serversVersions /\ version' = version
        /\ \A v \in Updates, t \in Servers :
             work'[v][t] = work[v][t] \/ (work[v][t] = "done" /\ work'[v][t] = "check")
    BY <1>3, UpdateSteps DEF UpdateMoves
  <2> QED
    BY <2>1
<1>4. ASSUME NEW u \in Updates, NEW s \in Servers, Post(u, s) PROVE NewerAt(z)'
  BY <1>4, PostSteps, WorkerElsewhere
<1>5. ASSUME NEW u \in Updates, NEW s \in Servers, LocalServerStep(u, s) PROVE NewerAt(z)'
  <2>1. \A v \in Updates, t \in Servers : v # u \/ t # s =>
          work'[v][t] = work[v][t] /\ version'[v][t] = version[v][t]
    BY <1>5, WorkerElsewhere
  <2>2. CASE Goes(u, s, "record", "clear") /\ serversVersions' = [serversVersions EXCEPT ![s] = version[u][s]]
    <3>1. z = s => \A v \in Updates \ {u} : work[v][z] \notin {"body", "post", "record"}
      BY <2>2 DEF ExcludedAt, Attends, Goes, InSection
    <3>2. z # s => serversVersions'[z] = serversVersions[z]
      BY <2>2 DEF TypeOK
    <3> QED
      BY <2>1, <2>2, <3>1, <3>2 DEF Goes
  <2>3. CASE serversVersions' = serversVersions /\ ~Goes(u, s, "record", "clear")
    <3>1. Passes(u, s) \/ Goes(u, s, "mark", "version") \/ Goes(u, s, "clear", "done")
      BY <1>5, <2>3, ServerSteps
    <3> QED
      BY <2>1, <2>3, <3>1 DEF Passes, Goes
  <2> QED
    BY <1>5, <2>2, <2>3, ServerSteps DEF Passes, Goes
<1> QED
  BY <1>1, <1>2, <1>3, <1>4, <1>5

LEMMA WatchedStep == TypeOK /\ Watched /\ [HistoryNext]_historyVars => Watched'
<1> SUFFICES ASSUME TypeOK, Watched, [HistoryNext]_historyVars PROVE Watched'
  OBVIOUS
<1>1. CASE UNCHANGED vars /\ UNCHANGED history
  BY <1>1 DEF vars, history, races, shared, worker, Watched, Miscounting, ExcludedAt, Attends, NewerAt
<1>2. CASE Crash /\ NoteDeath
  BY <1>2 DEF Crash, NoteDeath, Watched, Miscounting, ExcludedAt, Attends, NewerAt, InSection
<1>3. ASSUME NoteRaces,
             \/ \E s \in Servers : ServerRestart(s)
             \/ \E u \in Updates : BumpVersion(u)
             \/ UpdateMoves
             \/ \E u \in Updates, s \in Servers : LocalServerStep(u, s) \/ Post(u, s)
      PROVE  Watched'
  <2>1. /\ (Miscounting => miscounted)' /\ (raced \subseteq unsure \cap Servers)'
        /\ \A z \in raced' : \E u \in Updates : Attends(u, z)'
    BY <1>3 DEF NoteRaces, Colliding, Attends
  <2>2. ASSUME NEW z \in Servers, z \notin raced' PROVE ExcludedAt(z)' /\ NewerAt(z)'
    <3>1. ~Colliding(z)' /\ (z \in raced => \A u \in Updates : ~Attends(u, z)')
      BY <1>3, <2>2 DEF NoteRaces
    <3>2. CASE z \in raced
      BY <3>1, <3>2 DEF ExcludedAt, NewerAt, Attends, InSection
    <3>3. CASE z \notin raced
      <4>1. ExcludedAt(z) /\ NewerAt(z)
        BY <3>3 DEF Watched
      <4> QED
        BY <1>3, <3>1, <4>1, ExcludedStep, NewerStep
    <3> QED
      BY <3>2, <3>3
  <2> QED
    BY <2>1, <2>2 DEF Watched
<1> QED
  BY <1>1, <1>2, <1>3, HistorySteps

\* No update loses an increment of lastVersion unless two count at once.
LEMMA CountedStep ==
  ASSUME TypeOK, Counted, ~Miscounting,
         \/ \E s \in Servers : ServerRestart(s)
         \/ \E u \in Updates : BumpVersion(u)
         \/ UpdateMoves
         \/ \E u \in Updates, s \in Servers : LocalServerStep(u, s) \/ Post(u, s)
  PROVE  Counted'
<1> USE DEF Counted
<1>1. ASSUME NEW s \in Servers, ServerRestart(s) PROVE Counted'
  BY <1>1 DEF ServerRestart, shared, worker, local
<1>2. ASSUME NEW u \in Updates, BumpVersion(u) PROVE Counted'
  <2>1. lastVersion' = lastVersion + 1
    BY <1>2 DEF BumpVersion
  <2>2. \A v \in Updates : pc'[v] # "bump"
    BY <1>2 DEF BumpVersion, Miscounting, TypeOK
  <2> QED
    BY <1>2, <2>1, <2>2 DEF BumpVersion, worker, TypeOK
<1>3. CASE UpdateMoves
  <2>1. /\ UNCHANGED <<lastVersion, serversVersions, version>>
        /\ \A v \in Updates : pc'[v] = "bump" =>
             IF pc[v] = "bump" THEN oldVersion'[v] = oldVersion[v] ELSE oldVersion'[v] = lastVersion
    BY <1>3, UpdateSteps DEF UpdateMoves
  <2> QED
    BY <2>1
<1>4. ASSUME NEW u \in Updates, NEW s \in Servers, Post(u, s) PROVE Counted'
  BY <1>4, PostSteps, WorkerElsewhere
<1>5. ASSUME NEW u \in Updates, NEW s \in Servers, LocalServerStep(u, s) PROVE Counted'
  <2>1. /\ UNCHANGED <<pc, oldVersion, lastVersion>>
        /\ \A v \in Updates, t \in Servers : v # u \/ t # s => version'[v][t] = version[v][t]
    BY <1>5, WorkerElsewhere
  <2>2. version'[u][s] <= lastVersion
    <3>1. lastVersion \in Nat /\ version[u][s] <= lastVersion
      BY DEF TypeOK
    <3>2. version'[u][s] \in {version[u][s], lastVersion, 0}
      BY <1>5, ServerSteps
    <3> QED
      BY <3>1, <3>2
  <2>3. \/ serversVersions' = serversVersions
        \/ serversVersions' = [serversVersions EXCEPT ![s] = version[u][s]]
    BY <1>5, ServerSteps
  <2> QED
    BY <2>1, <2>2, <2>3 DEF TypeOK
<1> QED
  BY <1>1, <1>2, <1>3, <1>4, <1>5

\* While an update stores a configuration and counts it, nobody is held to it.
LEMMA CurrentStep ==
  ASSUME TypeOK, Counted, Current,
         \/ \E s \in Servers : ServerRestart(s)
         \/ \E u \in Updates : BumpVersion(u)
         \/ UpdateMoves
         \/ \E u \in Updates, s \in Servers : LocalServerStep(u, s) \/ Post(u, s)
  PROVE  Current'
<1> USE DEF Current
<1>1. ASSUME NEW s \in Servers, ServerRestart(s) PROVE Current'
  BY <1>1 DEF ServerRestart, shared, worker, Preparing
<1>2. ASSUME NEW u \in Updates, BumpVersion(u) PROVE Current'
  <2>1. lastVersion' = lastVersion + 1 /\ version' = version
    BY <1>2 DEF BumpVersion, Counted, worker
  <2>2. \A v \in Updates, t \in Servers : version[v][t] # lastVersion + 1
    BY DEF Counted, TypeOK
  <2> QED
    BY <2>1, <2>2
<1>3. CASE UpdateMoves
  <2>1. /\ UNCHANGED <<lastVersion, version, postBody>>
        /\ \A v \in Updates, t \in Servers :
             work'[v][t] = work[v][t] \/ (work[v][t] = "done" /\ work'[v][t] = "check")
        /\ (\A v \in Updates : ~Preparing(v)') =>
             (\A v \in Updates : ~Preparing(v)) /\ lastJSONConfig' = lastJSONConfig
    BY <1>3, UpdateSteps DEF UpdateMoves
  <2> QED
    BY <2>1
<1>4. ASSUME NEW u \in Updates, NEW s \in Servers, Post(u, s) PROVE Current'
  BY <1>4, PostSteps, WorkerElsewhere DEF Preparing
<1>5. ASSUME NEW u \in Updates, NEW s \in Servers, LocalServerStep(u, s) PROVE Current'
  <2>1. work'[u][s] \in {"post", "record"} => work'[u][s] = "post" /\ postBody'[u][s] = lastJSONConfig
    BY <1>5, ServerSteps DEF Passes, Goes
  <2> QED
    BY <1>5, <2>1, WorkerElsewhere DEF Preparing
<1> QED
  BY <1>1, <1>2, <1>3, <1>4, <1>5

\* A goroutine records what it has sent, and what a server runs only changes
\* while its record is older.
LEMMA RecordedStep ==
  ASSUME TypeOK, Counted, Current, NEW z \in Servers, z \notin raced,
         ExcludedAt(z), NewerAt(z), LoadedAt(z), RecordedAt(z), ~Restarts(z),
         \/ \E s \in Servers : ServerRestart(s)
         \/ UpdateMoves
         \/ \E u \in Updates, s \in Servers : LocalServerStep(u, s) \/ Post(u, s)
  PROVE  LoadedAt(z)' /\ RecordedAt(z)'
<1> USE DEF LoadedAt, RecordedAt
<1>1. ASSUME NEW s \in Servers, ServerRestart(s) PROVE LoadedAt(z)' /\ RecordedAt(z)'
  <2>1. applied'[z] = applied[z]
    BY <1>1 DEF ServerRestart, Restarts, TypeOK
  <2> QED
    BY <1>1, <2>1 DEF ServerRestart, shared, worker, Preparing
<1>2. CASE UpdateMoves
  <2>1. /\ UNCHANGED <<applied, lastVersion, serversVersions, version, postBody>>
        /\ \A v \in Updates, t \in Servers :
             work'[v][t] = work[v][t] \/ (work[v][t] = "done" /\ work'[v][t] = "check")
        /\ (\A v \in Updates : ~Preparing(v)') =>
             (\A v \in Updates : ~Preparing(v)) /\ lastJSONConfig' = lastJSONConfig
    BY <1>2, UpdateSteps DEF UpdateMoves
  <2> QED
    BY <2>1
<1>3. ASSUME NEW u \in Updates, NEW s \in Servers, Post(u, s) PROVE LoadedAt(z)' /\ RecordedAt(z)'
  <2>1. /\ UNCHANGED <<pc, lastVersion, lastJSONConfig, serversVersions>>
        /\ work[u][s] = "post"
        /\ \A v \in Updates, t \in Servers : v # u \/ t # s =>
             UNCHANGED <<work[v][t], version[v][t], postBody[v][t]>>
        /\ version' = version /\ postBody' = postBody
        /\ applied' = applied \/ applied' = [applied EXCEPT ![s] = postBody[u][s]]
        /\ work'[u][s] = "record" => applied'[s] = postBody[u][s]
    BY <1>3, PostSteps, WorkerElsewhere
  <2>2. CASE z # s
    <3>1. applied'[z] = applied[z]
      BY <2>1, <2>2 DEF TypeOK
    <3> QED
      BY <2>1, <2>2, <3>1 DEF Preparing
  <2>3. CASE z = s
    <3>1. \A v \in Updates \ {u} : work[v][z] # "record"
      BY <2>1, <2>3 DEF ExcludedAt, Attends, InSection
    <3>2. LoadedAt(z)'
      BY <2>1, <2>3, <3>1
    <3>3. /\ serversVersions[z] < version[u][z] /\ version[u][z] <= lastVersion
          /\ serversVersions[z] \in Nat /\ version[u][z] \in Nat /\ lastVersion \in Nat
      BY <2>1, <2>3 DEF NewerAt, Counted, TypeOK
    <3>4. serversVersions[z] # lastVersion
      BY <3>3
    <3> QED
      BY <2>1, <3>2, <3>4
  <2> QED
    BY <2>2, <2>3
<1>4. ASSUME NEW u \in Updates, NEW s \in Servers, LocalServerStep(u, s)
      PROVE  LoadedAt(z)' /\ RecordedAt(z)'
  <2>1. /\ UNCHANGED <<pc, lastVersion, lastJSONConfig, applied>>
        /\ \A v \in Updates, t \in Servers : v # u \/ t # s =>
             UNCHANGED <<work[v][t], version[v][t], postBody[v][t]>>
        /\ work'[u][s] # "record"
    BY <1>4, ServerSteps, WorkerElsewhere DEF Passes, Goes
  <2>2. LoadedAt(z)'
    BY <2>1
  <2>3. CASE serversVersions' = serversVersions
    BY <2>1, <2>2, <2>3 DEF Preparing
  <2>4. CASE Goes(u, s, "record", "clear") /\ serversVersions' = [serversVersions EXCEPT ![s] = version[u][s]]
    BY <2>1, <2>2, <2>4 DEF Preparing, Goes, Current, TypeOK
  <2> QED
    BY <1>4, <2>3, <2>4, ServerSteps
<1> QED
  BY <1>1, <1>2, <1>3, <1>4

LEMMA TruthfulStep == TypeOK /\ Watched /\ Truthful /\ [HistoryNext]_historyVars => Truthful'
<1> SUFFICES ASSUME TypeOK, Watched, Truthful, [HistoryNext]_historyVars, ~miscounted'
             PROVE  (Counted /\ Current)' /\ \A z \in Servers \ unsure' : (LoadedAt(z) /\ RecordedAt(z))'
  BY DEF Truthful
<1>1. CASE UNCHANGED vars /\ UNCHANGED history
  BY <1>1 DEF vars, history, races, shared, worker, local, Truthful, Counted, Current, LoadedAt, RecordedAt, Preparing
<1>2. CASE Crash /\ NoteDeath
  BY <1>2 DEF Crash, Counted, Current, LoadedAt, RecordedAt
<1>3. ASSUME NoteRaces,
             \/ \E s \in Servers : ServerRestart(s)
             \/ \E u \in Updates : BumpVersion(u)
             \/ UpdateMoves
             \/ \E u \in Updates, s \in Servers : LocalServerStep(u, s) \/ Post(u, s)
      PROVE  (Counted /\ Current)' /\ \A z \in Servers \ unsure' : (LoadedAt(z) /\ RecordedAt(z))'
  <2>1. ~miscounted /\ ~Miscounting /\ Counted /\ Current
    BY <1>3 DEF NoteRaces, Watched, Truthful
  <2>2. Counted' /\ Current'
    BY <1>3, <2>1, CountedStep, CurrentStep
  <2>3. ASSUME NEW z \in Servers \ unsure' PROVE (LoadedAt(z) /\ RecordedAt(z))'
    <3>1. CASE \E u \in Updates : BumpVersion(u)
      <4>1. /\ lastVersion' = lastVersion + 1
            /\ UNCHANGED <<serversVersions, version>>
        BY <2>1, <3>1 DEF BumpVersion, Counted, worker
      <4>2. serversVersions[z] # lastVersion + 1 /\ \A v \in Updates : version[v][z] # lastVersion + 1
        BY <2>1 DEF Counted, TypeOK
      <4> QED
        BY <4>1, <4>2 DEF LoadedAt, RecordedAt
    <3>2. CASE \/ \E s \in Servers : ServerRestart(s)
               \/ UpdateMoves
               \/ \E u \in Updates, s \in Servers : LocalServerStep(u, s) \/ Post(u, s)
      <4>1. lastVersion' = lastVersion
        <5>1. ASSUME NEW s \in Servers, ServerRestart(s) PROVE lastVersion' = lastVersion
          BY <5>1 DEF ServerRestart, shared
        <5>2. CASE UpdateMoves
          BY <5>2, UpdateSteps DEF UpdateMoves
        <5>3. ASSUME NEW u \in Updates, NEW s \in Servers, LocalServerStep(u, s) \/ Post(u, s)
              PROVE  lastVersion' = lastVersion
          BY <5>3, WorkerElsewhere
        <5> QED
          BY <3>2, <5>1, <5>2, <5>3
      <4>2. z \notin unsure /\ ~Restarts(z)
        BY <1>3, <2>3, <4>1 DEF NoteRaces
      <4>3. z \notin raced /\ ExcludedAt(z) /\ NewerAt(z) /\ LoadedAt(z) /\ RecordedAt(z)
        BY <2>1, <4>2 DEF Watched, Truthful
      <4> QED
        BY <2>1, <3>2, <4>2, <4>3, RecordedStep
    <3> QED
      BY <1>3, <3>1, <3>2
  <2> QED
    BY <2>2, <2>3
<1> QED
  BY <1>1, <1>2, <1>3, HistorySteps

LEMMA RacesInit == HistoryInit => Watched /\ Truthful
  BY DEF HistoryInit, Init, Watched, Truthful, Miscounting, ExcludedAt, NewerAt, Attends, InSection,
     Counted, Current, LoadedAt, RecordedAt

\* The history watches the push.
LEMMA HistoryPushes == HistorySpec => Spec
<1>1. HistoryInit => Init
  BY DEF HistoryInit
<1>2. [HistoryNext]_historyVars => [Next]_vars
  BY DEF HistoryNext, historyVars
<1> QED
  BY <1>1, <1>2, PTL DEF HistorySpec, Spec

LEMMA RacesAlways == HistorySpec => [](PushInvariant /\ Watched /\ Truthful)
<1>1. PushInvariant => TypeOK
  BY DEF PushInvariant
<1> QED
  BY <1>1, HistoryPushes, PushAlways, RacesInit, WatchedStep, TruthfulStep, PTL DEF HistorySpec

\* updateServer skips servers that are being updated already: however updates
\* overlap, a server handles one request of the controller at a time, but for
\* two goroutines that come between Get and Set together, until they have left.
THEOREM OneRequestAtATime == HistorySpec => []OnePushAtATime
<1>1. Watched => OnePushAtATime
  BY DEF Watched, ExcludedAt, Attends, InSection, OnePushAtATime
<1> QED
  BY <1>1, RacesAlways, PTL

\* updateServer skips servers on record with the last version: however updates
\* overlap, they run the last configuration, unless an increment may be lost or,
\* since that version, goroutines raced at the server or it restarted.
THEOREM RecordsAreTrue == HistorySpec => []RecordIsTrue
<1>1. Truthful => RecordIsTrue
  BY DEF Truthful, RecordedAt, RecordIsTrue
<1> QED
  BY <1>1, RacesAlways, PTL

\* The numbering is what the order of the configurations says.
LEMMA Storing ==
  ASSUME PushInvariant, PushInvariant', NoteBodies,
         \/ \E s \in Servers : ServerRestart(s)
         \/ \E u \in Updates : BumpVersion(u)
         \/ UpdateMoves
         \/ \E u \in Updates, s \in Servers : LocalServerStep(u, s) \/ Post(u, s)
  PROVE  IF \E u \in Updates : Stores(u)
         THEN UpdateMoves /\ lastJSONConfig' \in Adaptable /\ stored' = Append(stored, lastJSONConfig')
         ELSE lastJSONConfig' = lastJSONConfig /\ stored' = stored
<1>0. TypeOK
  BY DEF PushInvariant
<1>1. CASE UpdateMoves
  <2>1. CASE \E u \in Updates : Stores(u)
    <3>1. \E u \in Updates : Preparing(u)'
      BY <2>1 DEF Stores, Preparing
    <3>2. lastJSONConfig' # None
      BY <3>1 DEF PushInvariant, Configured
    <3>3. lastJSONConfig' \in Adaptable
      BY <3>2 DEF PushInvariant, Adapted
    <3> QED
      BY <1>1, <2>1, <3>3 DEF NoteBodies
  <2>2. CASE ~ \E u \in Updates : Stores(u)
    BY <1>0, <1>1, <2>2, UpdateSteps DEF UpdateMoves, NoteBodies, Stores
  <2> QED
    BY <2>1, <2>2
<1>2. ASSUME \/ \E s \in Servers : ServerRestart(s)
             \/ \E u \in Updates : BumpVersion(u)
             \/ \E u \in Updates, s \in Servers : LocalServerStep(u, s) \/ Post(u, s)
      PROVE  lastJSONConfig' = lastJSONConfig /\ \A u \in Updates : ~Stores(u)
  <2>1. ASSUME NEW s \in Servers, ServerRestart(s)
        PROVE  lastJSONConfig' = lastJSONConfig /\ \A u \in Updates : ~Stores(u)
    BY <2>1 DEF ServerRestart, shared, Stores
  <2>2. ASSUME NEW u \in Updates, BumpVersion(u)
        PROVE  lastJSONConfig' = lastJSONConfig /\ \A v \in Updates : ~Stores(v)
    BY <1>0, <2>2 DEF BumpVersion, Stores, TypeOK
  <2>3. ASSUME NEW u \in Updates, NEW s \in Servers, LocalServerStep(u, s) \/ Post(u, s)
        PROVE  lastJSONConfig' = lastJSONConfig /\ \A v \in Updates : ~Stores(v)
    BY <1>0, <2>3, WorkerElsewhere DEF Stores
  <2> QED
    BY <1>2, <2>1, <2>2, <2>3
<1> QED
  BY <1>1, <1>2 DEF NoteBodies

LEMMA NumberedStep ==
  PushInvariant /\ PushInvariant' /\ Numbered /\ [HistoryNext]_historyVars
    => /\ Numbered' /\ ((Crash /\ NoteDeath) \/ Len(stored) <= Len(stored'))
       /\ \A n \in 1..Len(stored) : (Crash /\ NoteDeath) \/ stored'[n] = stored[n]
<1> SUFFICES ASSUME PushInvariant, PushInvariant', Numbered, [HistoryNext]_historyVars
             PROVE  /\ Numbered' /\ ((Crash /\ NoteDeath) \/ Len(stored) <= Len(stored'))
                    /\ \A n \in 1..Len(stored) : (Crash /\ NoteDeath) \/ stored'[n] = stored[n]
  OBVIOUS
<1>0. TypeOK
  BY DEF PushInvariant
<1>1. CASE UNCHANGED vars /\ UNCHANGED history
  BY <1>1 DEF vars, shared, history, bodies, Numbered
<1>2. CASE Crash /\ NoteDeath
  BY <1>2, EmptySeq DEF Crash, NoteDeath, Numbered
<1>3. ASSUME NoteBodies,
             \/ \E s \in Servers : ServerRestart(s)
             \/ \E u \in Updates : BumpVersion(u)
             \/ UpdateMoves
             \/ \E u \in Updates, s \in Servers : LocalServerStep(u, s) \/ Post(u, s)
      PROVE  /\ Numbered' /\ Len(stored) <= Len(stored')
             /\ \A n \in 1..Len(stored) : stored'[n] = stored[n]
  <2>1. CASE \E u \in Updates : Stores(u)
    <3>1. lastJSONConfig' \in Adaptable /\ stored' = Append(stored, lastJSONConfig')
      BY <1>3, <2>1, Storing
    <3>2. /\ stored' \in Seq(Adaptable) /\ Len(stored') = Len(stored) + 1
          /\ stored'[Len(stored) + 1] = lastJSONConfig'
          /\ \A n \in 1..Len(stored) : stored'[n] = stored[n]
      BY <3>1, AppendProperties DEF Numbered
    <3> QED
      BY <3>2, LenProperties DEF Numbered
  <2>2. CASE ~ \E u \in Updates : Stores(u)
    <3>1. lastJSONConfig' = lastJSONConfig /\ stored' = stored
      BY <1>3, <2>2, Storing
    <3> QED
      BY <3>1, LenProperties DEF Numbered
  <2> QED
    BY <2>1, <2>2
<1> QED
  BY <1>0, <1>1, <1>2, <1>3, HistorySteps

\* Only a request changes what is known of requests and of what servers hold.
LEMMA BodiesKept ==
  ASSUME TypeOK, Held, NoteBodies,
         \/ \E s \in Servers : ServerRestart(s)
         \/ \E u \in Updates : BumpVersion(u)
         \/ UpdateMoves
         \/ \E u \in Updates, s \in Servers : LocalServerStep(u, s)
  PROVE  /\ \A v \in Updates, t \in Servers : work[v][t] = "post" =>
              work'[v][t] = "post" /\ taken'[v][t] = taken[v][t]
         /\ \A t \in Servers : holds'[t] = IF Restarts(t) THEN 0 ELSE holds[t]
<1>1. ASSUME NEW v \in Updates, NEW t \in Servers, work[v][t] = "post" PROVE work'[v][t] = "post"
  <2>1. ASSUME NEW s \in Servers, ServerRestart(s) PROVE work'[v][t] = "post"
    BY <1>1, <2>1 DEF ServerRestart, worker
  <2>2. ASSUME NEW u \in Updates, BumpVersion(u) PROVE work'[v][t] = "post"
    BY <1>1, <2>2 DEF BumpVersion, worker
  <2>3. CASE UpdateMoves
    BY <1>1, <2>3, UpdateSteps DEF UpdateMoves
  <2>4. ASSUME NEW u \in Updates, NEW s \in Servers, LocalServerStep(u, s) PROVE work'[v][t] = "post"
    <3>1. work[u][s] # "post"
      BY <2>4, ServerSteps DEF Passes, Goes
    <3> QED
      BY <1>1, <2>4, <3>1, WorkerElsewhere
  <2> QED
    BY <2>1, <2>2, <2>3, <2>4
<1> QED
  BY <1>1 DEF NoteBodies, Takes, Loads

LEMMA PostKept ==
  ASSUME TypeOK, Held, NoteBodies, NEW u \in Updates, NEW s \in Servers, Post(u, s)
  PROVE  /\ \A v \in Updates, t \in Servers : v # u \/ t # s =>
              (work'[v][t] = "post" => work[v][t] = "post" /\ taken'[v][t] = taken[v][t])
         /\ holds' = [holds EXCEPT ![s] = IF applied'[s] = postBody[u][s] THEN taken[u][s] ELSE holds[s]]
<1>1. /\ \A v \in Updates, t \in Servers : v # u \/ t # s => work'[v][t] = work[v][t]
      /\ work[u][s] = "post" /\ work'[u][s] # "post"
      /\ applied' = applied \/ applied' = [applied EXCEPT ![s] = postBody[u][s]]
  BY PostSteps, WorkerElsewhere
<1>2. \A v \in Updates, t \in Servers : v # u \/ t # s =>
        (work'[v][t] = "post" => work[v][t] = "post" /\ taken'[v][t] = taken[v][t])
  BY <1>1 DEF NoteBodies, Takes
<1>3. \A v \in Updates, t \in Servers : Loads(v, t) <=> v = u /\ t = s /\ applied'[s] = postBody[u][s]
  BY <1>1 DEF Loads
<1>4. \A t \in Servers \ {s} : applied'[t] = applied[t]
  BY <1>1 DEF TypeOK
<1>5. applied'[s] # postBody[u][s] => applied'[s] = applied[s]
  BY <1>1 DEF TypeOK
<1>6. ASSUME NEW t \in Servers
      PROVE  holds'[t] = IF t = s /\ applied'[s] = postBody[u][s] THEN taken[u][s] ELSE holds[t]
  <2>1. holds'[t] = IF \E v \in Updates : Loads(v, t) THEN taken[CHOOSE v \in Updates : Loads(v, t)][t]
                    ELSE IF Restarts(t) THEN 0 ELSE holds[t]
    BY DEF NoteBodies
  <2>2. CASE t = s /\ applied'[s] = postBody[u][s]
    <3>1. (CHOOSE v \in Updates : Loads(v, t)) = u
      BY <1>3, <2>2
    <3> QED
      BY <1>3, <2>1, <2>2, <3>1
  <2>3. CASE ~(t = s /\ applied'[s] = postBody[u][s])
    BY <1>3, <1>4, <1>5, <2>1, <2>3 DEF Restarts
  <2> QED
    BY <2>2, <2>3
<1>7. holds' = [t \in Servers |-> holds'[t]] /\ holds \in [Servers -> Nat]
  BY DEF NoteBodies, Held
<1> QED
  BY <1>2, <1>6, <1>7
\* Servers hold what has been stored.
LEMMA HeldStep ==
  PushInvariant /\ PushInvariant' /\ LedgerInvariant /\ [HistoryNext]_historyVars => Held'
<1> SUFFICES ASSUME PushInvariant, PushInvariant', LedgerInvariant, [HistoryNext]_historyVars PROVE Held'
  OBVIOUS
<1>0. TypeOK /\ Numbered /\ Sent /\ Held /\ Len(stored) \in Nat /\ Len(stored') \in Nat
  <2>1. Numbered'
    BY NumberedStep DEF LedgerInvariant
  <2> QED
    BY <2>1, LenProperties DEF PushInvariant, LedgerInvariant, Numbered
<1>1. CASE UNCHANGED vars /\ UNCHANGED history
  BY <1>0, <1>1 DEF history, bodies, Held
<1>2. CASE Crash /\ NoteDeath
  BY <1>0, <1>2 DEF NoteDeath, Held
<1>3. ASSUME crashes' = crashes, NoteBodies,
             \/ \E s \in Servers : ServerRestart(s)
             \/ \E u \in Updates : BumpVersion(u)
             \/ UpdateMoves
             \/ \E u \in Updates, s \in Servers : LocalServerStep(u, s) \/ Post(u, s)
      PROVE  Held'
  <2>1. taken' \in [Updates -> [Servers -> Nat]]
    BY <1>0, <1>3 DEF NoteBodies, Held
  <2>2. ~Crash
    BY <1>0, <1>3 DEF Crash, TypeOK
  <2>3. Len(stored) <= Len(stored')
    BY <1>0, <2>2, NumberedStep
  <2>4. ASSUME NEW z \in Servers PROVE holds'[z] \in Nat /\ holds'[z] <= Len(stored)
    <3>1. ASSUME NEW u \in Updates, NEW s \in Servers, Post(u, s)
          PROVE  holds'[z] \in Nat /\ holds'[z] <= Len(stored)
      <4>1. holds' = [holds EXCEPT ![s] = IF applied'[s] = postBody[u][s] THEN taken[u][s] ELSE holds[s]]
        BY <1>0, <1>3, <3>1, PostKept
      <4>2. taken[u][s] \in 1..Len(stored)
        BY <1>0, <3>1, PostSteps DEF Sent
      <4> QED
        BY <1>0, <4>1, <4>2 DEF Held
    <3>2. CASE \/ \E s \in Servers : ServerRestart(s)
               \/ \E u \in Updates : BumpVersion(u)
               \/ UpdateMoves
               \/ \E u \in Updates, s \in Servers : LocalServerStep(u, s)
      <4>1. holds'[z] = IF Restarts(z) THEN 0 ELSE holds[z]
        BY <1>0, <1>3, <3>2, BodiesKept
      <4> QED
        BY <1>0, <4>1 DEF Held
    <3> QED
      BY <1>3, <3>1, <3>2
  <2>5. holds' = [s \in Servers |-> holds'[s]]
    BY <1>3 DEF NoteBodies
  <2>6. holds' \in [Servers -> Nat]
    BY <2>4, <2>5
  <2>7. \A z \in Servers : holds'[z] <= Len(stored')
    BY <1>0, <2>3, <2>4
  <2> QED
    BY <2>1, <2>6, <2>7 DEF Held
<1> QED
  BY <1>0, <1>1, <1>2, <1>3, HistorySteps

\* A goroutine takes the last body, and no other is at its server until it is sent.
LEMMA SentStep ==
  /\ PushInvariant /\ PushInvariant' /\ Watched /\ LedgerInvariant /\ [HistoryNext]_historyVars
  => Sent'
<1> SUFFICES ASSUME PushInvariant, PushInvariant', Watched, LedgerInvariant, [HistoryNext]_historyVars
             PROVE  Sent'
  OBVIOUS
<1>0. TypeOK /\ Numbered /\ Sent /\ Held /\ Len(stored) \in Nat /\ Len(stored') \in Nat
  <2>1. Numbered'
    BY NumberedStep DEF LedgerInvariant
  <2> QED
    BY <2>1, LenProperties DEF PushInvariant, LedgerInvariant, Numbered
<1>1. CASE UNCHANGED vars /\ UNCHANGED history
  BY <1>0, <1>1 DEF vars, worker, history, bodies, races, Sent
<1>2. CASE Crash /\ NoteDeath
  BY <1>2 DEF Crash, Sent
<1>3. ASSUME crashes' = crashes, NoteBodies, NoteRaces,
             \/ \E s \in Servers : ServerRestart(s)
             \/ \E u \in Updates : BumpVersion(u)
             \/ UpdateMoves
             \/ \E u \in Updates, s \in Servers : LocalServerStep(u, s) \/ Post(u, s)
      PROVE  Sent'
  <2>1. Len(stored) <= Len(stored') /\ \A n \in 1..Len(stored) : stored'[n] = stored[n]
    <3>1. ~Crash
      BY <1>0, <1>3 DEF Crash, TypeOK
    <3> QED
      BY <1>0, <3>1, NumberedStep
  \* A request that goes on.
  <2>2. ASSUME NEW v \in Updates, NEW t \in Servers,
               work[v][t] = "post", work'[v][t] = "post",
               taken'[v][t] = taken[v][t], postBody'[v][t] = postBody[v][t],
               t \notin raced' => holds'[t] <= holds[t]
        PROVE  /\ taken'[v][t] \in 1..Len(stored')
               /\ postBody'[v][t] = stored'[taken'[v][t]]
               /\ t \notin raced' => holds'[t] <= taken'[v][t]
    <3>1. taken[v][t] \in 1..Len(stored) /\ postBody[v][t] = stored[taken[v][t]]
      BY <1>0, <2>2 DEF Sent
    <3>2. ASSUME t \notin raced' PROVE holds'[t] <= taken[v][t]
      <4>1. t \notin raced
        BY <1>3, <2>2, <3>2 DEF NoteRaces, Attends, InSection
      <4>2. holds[t] <= taken[v][t] /\ holds'[t] <= holds[t]
        BY <1>0, <2>2, <3>2, <4>1 DEF Sent
      <4>3. holds[t] \in Nat /\ holds'[t] \in Nat /\ taken[v][t] \in Nat
        <5>1. Held'
          BY HeldStep
        <5> QED
          BY <1>0, <5>1 DEF Held
      <4> QED
        BY <4>2, <4>3
    <3> QED
      BY <1>0, <2>1, <2>2, <3>1, <3>2
  <2>3. \A t \in Servers : holds[t] \in Nat
    BY <1>0 DEF Held
  <2>4. ASSUME NEW u \in Updates, NEW s \in Servers, LocalServerStep(u, s) PROVE Sent'
    <3>1. /\ \A v \in Updates, t \in Servers : work[v][t] = "post" =>
               work'[v][t] = "post" /\ taken'[v][t] = taken[v][t]
          /\ \A t \in Servers : holds'[t] = IF Restarts(t) THEN 0 ELSE holds[t]
      BY <1>0, <1>3, <2>4, BodiesKept
    <3>2. /\ lastJSONConfig' = lastJSONConfig
          /\ \A v \in Updates, t \in Servers : v # u \/ t # s =>
               work'[v][t] = work[v][t] /\ postBody'[v][t] = postBody[v][t]
      BY <1>0, <2>4, WorkerElsewhere
    <3>3. \A t \in Servers : holds'[t] <= holds[t]
      BY <2>3, <3>1
    <3>4. ASSUME work'[u][s] = "post"
          PROVE  /\ taken'[u][s] \in 1..Len(stored')
                 /\ postBody'[u][s] = stored'[taken'[u][s]]
                 /\ holds'[s] <= taken'[u][s]
      <4>1. Goes(u, s, "body", "post") /\ lastJSONConfig # None /\ postBody'[u][s] = lastJSONConfig
        BY <1>0, <2>4, <3>4, ServerSteps DEF Passes, Goes
      <4>2. taken'[u][s] = Len(stored)
        BY <1>3, <4>1 DEF NoteBodies, Takes, Goes
      <4>3. Len(stored) > 0 /\ lastJSONConfig = stored[Len(stored)]
        BY <1>0, <4>1 DEF Numbered
      <4>4. holds'[s] <= Len(stored)
        BY <1>0, <2>3, <3>1 DEF Held
      <4> QED
        BY <1>0, <2>1, <4>1, <4>2, <4>3, <4>4
    <3>5. ASSUME NEW v \in Updates, NEW t \in Servers, v # u \/ t # s, work'[v][t] = "post"
          PROVE  /\ taken'[v][t] \in 1..Len(stored')
                 /\ postBody'[v][t] = stored'[taken'[v][t]]
                 /\ t \notin raced' => holds'[t] <= taken'[v][t]
      BY <2>2, <3>1, <3>2, <3>3, <3>5
    <3> QED
      BY <3>4, <3>5 DEF Sent
  <2>5. ASSUME NEW u \in Updates, NEW s \in Servers, Post(u, s) PROVE Sent'
    <3>1. /\ \A v \in Updates, t \in Servers : v # u \/ t # s =>
               (work'[v][t] = "post" => work[v][t] = "post" /\ taken'[v][t] = taken[v][t])
          /\ holds' = [holds EXCEPT ![s] = IF applied'[s] = postBody[u][s] THEN taken[u][s] ELSE holds[s]]
      BY <1>0, <1>3, <2>5, PostKept
    <3>2. work[u][s] = "post" /\ work'[u][s] \in {"record", "clear"} /\ postBody' = postBody
      BY <1>0, <2>5, PostSteps
    <3>3. ASSUME NEW v \in Updates, NEW t \in Servers, work'[v][t] = "post"
          PROVE  /\ taken'[v][t] \in 1..Len(stored')
                 /\ postBody'[v][t] = stored'[taken'[v][t]]
                 /\ t \notin raced' => holds'[t] <= taken'[v][t]
      <4>1. v # u \/ t # s
        BY <3>2, <3>3
      <4>2. work[v][t] = "post" /\ taken'[v][t] = taken[v][t]
        BY <3>1, <3>3, <4>1
      <4>3. ASSUME t \notin raced' PROVE holds'[t] <= holds[t]
        <5>1. t \notin raced
          BY <1>3, <3>3, <4>3 DEF NoteRaces, Attends, InSection
        <5>2. t # s
          BY <3>2, <4>1, <4>2, <5>1 DEF Watched, ExcludedAt, Attends, InSection
        <5> QED
          BY <1>0, <2>3, <3>1, <5>2 DEF Held
      <4> QED
        BY <2>2, <3>2, <3>3, <4>2, <4>3
    <3> QED
      BY <3>3 DEF Sent
  <2>6. CASE \/ \E s \in Servers : ServerRestart(s)
             \/ \E u \in Updates : BumpVersion(u)
             \/ UpdateMoves
    <3>1. /\ \A v \in Updates, t \in Servers : work[v][t] = "post" =>
               work'[v][t] = "post" /\ taken'[v][t] = taken[v][t]
          /\ \A t \in Servers : holds'[t] = IF Restarts(t) THEN 0 ELSE holds[t]
      BY <1>0, <1>3, <2>6, BodiesKept
    <3>2. /\ postBody' = postBody
          /\ \A v \in Updates, t \in Servers : work'[v][t] = "post" => work[v][t] = "post"
      <4>1. ASSUME NEW s \in Servers, ServerRestart(s) PROVE postBody' = postBody /\ work' = work
        BY <4>1 DEF ServerRestart, worker
      <4>2. ASSUME NEW u \in Updates, BumpVersion(u) PROVE postBody' = postBody /\ work' = work
        BY <4>2 DEF BumpVersion, worker
      <4>3. CASE UpdateMoves
        BY <1>0, <4>3, UpdateSteps DEF UpdateMoves
      <4> QED
        BY <2>6, <4>1, <4>2, <4>3
    <3>3. \A t \in Servers : holds'[t] <= holds[t]
      BY <2>3, <3>1
    <3>4. ASSUME NEW v \in Updates, NEW t \in Servers, work'[v][t] = "post"
          PROVE  /\ taken'[v][t] \in 1..Len(stored')
                 /\ postBody'[v][t] = stored'[taken'[v][t]]
                 /\ t \notin raced' => holds'[t] <= taken'[v][t]
      BY <2>2, <3>1, <3>2, <3>3, <3>4
    <3> QED
      BY <3>4 DEF Sent
  <2> QED
    BY <1>3, <2>4, <2>5, <2>6
<1> QED
  BY <1>0, <1>1, <1>2, <1>3, HistorySteps

LEMMA LedgerInit == HistoryInit => LedgerInvariant
<1> SUFFICES ASSUME HistoryInit PROVE LedgerInvariant
  OBVIOUS
<1>1. stored \in Seq(Adaptable) /\ Len(stored) = 0
  BY EmptySeq DEF HistoryInit
<1> QED
  BY <1>1 DEF HistoryInit, Init, LedgerInvariant, Numbered, Sent, Held

\* Each step of the push is one of the ledger, or none.
LEMMA LedgerStep ==
  /\ PushInvariant /\ PushInvariant' /\ Watched /\ LedgerInvariant /\ LedgerInvariant'
  /\ [HistoryNext]_historyVars
  => [Ledger!Next]_Ledger!vars
<1> SUFFICES ASSUME PushInvariant, PushInvariant', Watched, LedgerInvariant, LedgerInvariant',
                    [HistoryNext]_historyVars
             PROVE  [Ledger!Next]_Ledger!vars
  OBVIOUS
<1>0. TypeOK /\ Numbered /\ Sent /\ Held /\ Held' /\ Len(stored) \in Nat
  BY LenProperties DEF PushInvariant, LedgerInvariant, Numbered
<1>1. CASE UNCHANGED vars /\ UNCHANGED history
  BY <1>1 DEF vars, history, bodies, races, Ledger!vars
<1>2. CASE Crash /\ NoteDeath
  BY <1>2 DEF Crash, NoteDeath, Ledger!ControllerRestart, Ledger!Next
<1>3. ASSUME crashes' = crashes, NoteBodies, NoteRaces,
             \/ \E s \in Servers : ServerRestart(s)
             \/ \E u \in Updates : BumpVersion(u)
             \/ UpdateMoves
             \/ \E u \in Updates, s \in Servers : LocalServerStep(u, s) \/ Post(u, s)
      PROVE  [Ledger!Next]_Ledger!vars
  <2>0. /\ raced \subseteq Servers /\ raced' \subseteq Servers
        /\ \A s \in Servers : Colliding(s) => s \in raced
        /\ \A s \in raced : \E u \in Updates : Attends(u, s)
    <3>1. raced \subseteq Servers
      BY DEF Watched
    <3> QED
      BY <1>3, <3>1 DEF NoteRaces, Watched, ExcludedAt, Colliding, Attends
  \* As long as nobody comes to a server or leaves one, the order is what it was.
  <2>1. ASSUME \A v \in Updates, t \in Servers :
                 /\ Attends(v, t)' <=> Attends(v, t)
                 /\ work'[v][t] = "mark" <=> work[v][t] = "mark"
        PROVE  raced' = raced
    <3>1. \A t \in Servers : Colliding(t)' <=> Colliding(t)
      BY <2>1 DEF Colliding
    <3> QED
      BY <1>3, <2>0, <2>1, <3>1 DEF NoteRaces
  <2>2. ASSUME NEW s \in Servers, ServerRestart(s) PROVE [Ledger!Next]_Ledger!vars
    <3>1. raced' = raced
      BY <2>1, <2>2 DEF ServerRestart, worker, Attends
    <3>2. stored' = stored
      BY <1>3, <2>2, Storing, UpdateSteps DEF ServerRestart, NoteBodies, Stores
    <3>3. \A t \in Servers : holds'[t] = IF Restarts(t) THEN 0 ELSE holds[t]
      BY <1>0, <1>3, <2>2, BodiesKept
    <3>4. applied' = [applied EXCEPT ![s] = None] /\ applied \in [Servers -> Caddyfiles \cup {None}]
      BY <1>0, <2>2 DEF ServerRestart, TypeOK
    <3>5. CASE applied[s] = None
      <4>1. applied' = applied /\ holds' = holds
        BY <1>0, <3>3, <3>4, <3>5 DEF Restarts, Held
      <4> QED
        BY <3>1, <3>2, <4>1 DEF Ledger!vars
    <3>6. CASE applied[s] # None
      <4>1. holds' = [holds EXCEPT ![s] = 0]
        BY <1>0, <3>3, <3>4, <3>6 DEF Restarts, Held
      <4> QED
        BY <3>1, <3>2, <3>4, <4>1 DEF Ledger!ServerRestart, Ledger!Next
    <3> QED
      BY <3>5, <3>6
  <2>3. ASSUME \/ \E u \in Updates : BumpVersion(u)
               \/ UpdateMoves
               \/ \E u \in Updates, s \in Servers : LocalServerStep(u, s)
        PROVE  applied' = applied /\ holds' = holds
    <3>1. applied' = applied
      <4>1. ASSUME NEW u \in Updates, BumpVersion(u) PROVE applied' = applied
        BY <4>1 DEF BumpVersion
      <4>2. CASE UpdateMoves
        BY <1>0, <4>2, UpdateSteps DEF UpdateMoves
      <4>3. ASSUME NEW u \in Updates, NEW s \in Servers, LocalServerStep(u, s) PROVE applied' = applied
        BY <1>0, <4>3, ServerSteps
      <4> QED
        BY <2>3, <4>1, <4>2, <4>3
    <3>2. \A t \in Servers : holds'[t] = IF Restarts(t) THEN 0 ELSE holds[t]
      BY <1>0, <1>3, <2>3, BodiesKept
    <3> QED
      BY <1>0, <3>1, <3>2 DEF Restarts, Held
  <2>4. CASE UpdateMoves
    <3>1. raced' = raced
      <4>1. \A v \in Updates, t \in Servers :
              work'[v][t] = work[v][t] \/ (work[v][t] = "done" /\ work'[v][t] = "check")
        BY <1>0, <2>4, UpdateSteps DEF UpdateMoves
      <4> QED
        BY <2>1, <4>1 DEF Attends, InSection
    <3>2. CASE \E u \in Updates : Stores(u)
      <4>1. lastJSONConfig' \in Adaptable /\ stored' = Append(stored, lastJSONConfig')
        BY <1>3, <3>2, Storing
      <4>2. Ledger!Store(lastJSONConfig')
        BY <2>3, <2>4, <3>1, <4>1 DEF Ledger!Store
      <4> QED
        BY <4>1, <4>2 DEF Ledger!Next
    <3>3. CASE ~ \E u \in Updates : Stores(u)
      BY <1>3, <2>3, <2>4, <3>1, <3>3, Storing DEF Ledger!vars
    <3> QED
      BY <3>2, <3>3
  <2>5. ASSUME NEW u \in Updates, BumpVersion(u) PROVE [Ledger!Next]_Ledger!vars
    <3>1. raced' = raced
      BY <2>1, <2>5 DEF BumpVersion, worker, Attends
    <3>2. stored' = stored
      BY <1>0, <1>3, <2>5 DEF BumpVersion, NoteBodies, Stores, TypeOK
    <3> QED
      BY <2>3, <2>5, <3>1, <3>2 DEF Ledger!vars
  <2>6. ASSUME NEW u \in Updates, NEW s \in Servers, LocalServerStep(u, s) PROVE [Ledger!Next]_Ledger!vars
    <3>1. stored' = stored
      BY <1>0, <1>3, <2>6, WorkerElsewhere DEF NoteBodies, Stores
    <3>2. Ledger!Reorder(raced')
      BY <2>3, <2>6, <3>1 DEF Ledger!Reorder
    <3> QED
      BY <2>0, <3>2 DEF Ledger!Next
  <2>7. ASSUME NEW u \in Updates, NEW s \in Servers, Post(u, s) PROVE [Ledger!Next]_Ledger!vars
    <3>1. /\ work[u][s] = "post" /\ work'[u][s] \in {"record", "clear"}
          /\ applied' = applied \/ applied' = [applied EXCEPT ![s] = postBody[u][s]]
          /\ pc' = pc
          /\ \A v \in Updates, t \in Servers : v # u \/ t # s => work'[v][t] = work[v][t]
      BY <1>0, <2>7, PostSteps, WorkerElsewhere
    <3>2. raced' = raced
      BY <2>1, <3>1 DEF Attends, InSection
    <3>3. stored' = stored
      BY <1>3, <3>1 DEF NoteBodies, Stores
    <3>4. holds' = [holds EXCEPT ![s] = IF applied'[s] = postBody[u][s] THEN taken[u][s] ELSE holds[s]]
      BY <1>0, <1>3, <2>7, PostKept
    <3>5. /\ taken[u][s] \in 1..Len(stored) /\ postBody[u][s] = stored[taken[u][s]]
          /\ s \notin raced => holds[s] <= taken[u][s]
      BY <1>0, <3>1 DEF Sent
    <3>6. applied \in [Servers -> Caddyfiles \cup {None}] /\ holds \in [Servers -> Nat]
      BY <1>0 DEF TypeOK, Held
    <3>7. CASE applied'[s] = postBody[u][s]
      <4>1. applied' = [applied EXCEPT ![s] = stored[taken[u][s]]]
        BY <3>1, <3>5, <3>6, <3>7
      <4>2. holds' = [holds EXCEPT ![s] = taken[u][s]]
        BY <3>4, <3>7
      <4>3. taken[u][s] >= holds[s] \/ s \in raced
        BY <1>0, <3>5, <3>6
      <4>4. Ledger!Load(s, taken[u][s])
        BY <3>2, <3>3, <4>1, <4>2, <4>3 DEF Ledger!Load
      <4> QED
        BY <3>5, <4>4 DEF Ledger!Next
    <3>8. CASE applied'[s] # postBody[u][s]
      <4>1. applied' = applied /\ holds' = holds
        BY <3>1, <3>4, <3>6, <3>8
      <4> QED
        BY <3>2, <3>3, <4>1 DEF Ledger!vars
    <3> QED
      BY <3>7, <3>8
  <2> QED
    BY <1>3, <2>2, <2>4, <2>5, <2>6, <2>7
<1> QED
  BY <1>0, <1>1, <1>2, <1>3, HistorySteps

\* However updates overlap while servers answer late, and whatever requests fail,
\* what a server loads is what update stored, and a server that has loaded one
\* configuration is not sent back to an older one, but for goroutines that raced
\* for its flag, until they have left.
THEOREM ServersNeverGoBack == HistorySpec => ImplementsPushLedger
<1>1. PushInvariant /\ PushInvariant' /\ Watched /\ LedgerInvariant /\ [HistoryNext]_historyVars
        => LedgerInvariant'
  BY NumberedStep, SentStep, HeldStep DEF LedgerInvariant
<1>2. HistorySpec => []LedgerInvariant
  BY <1>1, LedgerInit, RacesAlways, PTL DEF HistorySpec
<1>3. HistoryInit => Ledger!Init
  BY DEF HistoryInit, Init, Ledger!Init
<1> QED
  BY <1>2, <1>3, LedgerStep, RacesAlways, PTL DEF HistorySpec, ImplementsPushLedger, Ledger!Spec
=============================================================================
