---------------------------- MODULE LoaderProofs ----------------------------
(* The whole update is a refinement of the push alone, so what is proved of  *)
(* the push holds of it; and the autosave file is a whole Caddyfile.  For    *)
(* any number of updates, however they overlap, and of servers, failures of  *)
(* pushes and of the disk, and crashes.                                      *)
EXTENDS LoaderHistory, PushLedgerProofs

\* A step of the loader is a step of ConfigPush, or one of the autosave file, the
\* gateway pass or their surroundings.
LEMMA LoaderStepPushes == [LoaderNext]_loaderVars => [Next]_vars
<1> SUFFICES ASSUME [LoaderNext]_loaderVars PROVE [Next]_vars
  OBVIOUS
<1>1. ASSUME NEW c \in Caddyfiles, ChangeCaddyfile(c) PROVE Next
  BY <1>1 DEF ChangeCaddyfile, Next
<1>2. CASE ChangeElsewhere
  BY <1>2 DEF ChangeElsewhere
<1>3. CASE CrashController
  BY <1>3 DEF CrashController, Next
<1>4. ASSUME NEW u \in Updates, Start(u) PROVE Next
  BY <1>4 DEF Start, Next
<1>5. ASSUME NEW u \in Updates, RememberAndSave(u) PROVE Next
  BY <1>5 DEF RememberAndSave, Next, UpdateStep
<1>6. ASSUME NEW u \in Updates, Save(u) PROVE UNCHANGED vars
  BY <1>6 DEF Save, OpenTmp, WriteTmp, Rename
<1>7. ASSUME NEW u \in Updates, AdaptSaved(u) PROVE Next
  BY <1>7 DEF AdaptSaved, Next, UpdateStep
<1>8. ASSUME NEW u \in Updates, FinishPush(u) PROVE Next
  BY <1>8 DEF FinishPush, Next, UpdateStep
<1>9. ASSUME NEW u \in Updates, Reconcile(u) PROVE UNCHANGED vars
  BY <1>9 DEF Reconcile
<1>10. ASSUME NEW u \in Updates, OtherStep(u) PROVE Next
  BY <1>10 DEF OtherStep, Next, UpdateStep
<1>11. ASSUME NEW u \in Updates, NEW s \in Servers, ServerStep(u, s) \/ PostTo(u, s) PROVE Next
  BY <1>11 DEF ServerStep, PostTo, Next
<1>12. CASE UNCHANGED loaderVars
  BY <1>12 DEF loaderVars
<1> QED
  BY <1>1, <1>2, <1>3, <1>4, <1>5, <1>6, <1>7, <1>8, <1>9, <1>10, <1>11, <1>12 DEF LoaderNext, LoaderStep

\* DockerLoader.update with the autosave file and the gateway pass implements the
\* push as ConfigPush has it: neither gets in its way.
THEOREM LoaderImplementsPush == LoaderSpec => Spec
<1>1. LoaderInit => Init
  BY DEF LoaderInit
<1> QED
  BY <1>1, LoaderStepPushes, PTL DEF LoaderSpec, Spec

\* Every step keeps the types, and the block of the autosave file within its place
\* between the comparison and the adapter.
LEMMA LoaderTypeStep == TypeOK /\ TypeOK' /\ LoaderTypeOK /\ [LoaderNext]_loaderVars => LoaderTypeOK'
<1> SUFFICES ASSUME TypeOK, TypeOK', LoaderTypeOK, [LoaderNext]_loaderVars PROVE LoaderTypeOK'
  OBVIOUS
<1> USE LoaderAssumption DEF LoaderTypeOK
<1>1. ASSUME NEW c \in Caddyfiles, ChangeCaddyfile(c) PROVE LoaderTypeOK'
  BY <1>1 DEF ChangeCaddyfile, Change, disk
<1>2. CASE ChangeElsewhere
  BY <1>2 DEF ChangeElsewhere, vars, disk
<1>3. CASE CrashController
  BY <1>3 DEF CrashController
<1>4. ASSUME NEW u \in Updates, Start(u) PROVE LoaderTypeOK'
  BY <1>4 DEF Start, Fire, TypeOK, disk
<1>5. ASSUME NEW u \in Updates, RememberAndSave(u) PROVE LoaderTypeOK'
  <2>1. pc[u] = "remember" /\ saving[u] = "no" /\ fd' = fd
    BY <1>5 DEF RememberAndSave, Remember
  <2>2. /\ saving' \in [Updates -> {"no", "open", "write", "rename"}]
        /\ \A v \in Updates \ {u} : saving'[v] = saving[v] /\ pc'[v] = pc[v]
    BY <1>5 DEF RememberAndSave, Remember, TypeOK
  <2>3. CASE caddyfileChanged[u]
    <3>1. saving'[u] = "open" /\ pc'[u] = "adapt"
      BY <1>5, <2>3 DEF RememberAndSave, Remember, ToSave, TypeOK
    <3> QED
      BY <1>5, <2>1, <2>2, <3>1 DEF RememberAndSave
  <2>4. CASE ~caddyfileChanged[u]
    <3>1. saving'[u] = "no"
      BY <1>5, <2>4 DEF RememberAndSave, ToSave
    <3> QED
      BY <1>5, <2>1, <2>2, <3>1 DEF RememberAndSave
  <2> QED
    BY <2>3, <2>4
<1>6. ASSUME NEW u \in Updates, OpenTmp(u) PROVE LoaderTypeOK'
  BY <1>6 DEF OpenTmp, DiskFails, Contents, vars
<1>7. ASSUME NEW u \in Updates, WriteTmp(u) PROVE LoaderTypeOK'
  BY <1>7 DEF WriteTmp, Written, AfterFailedWrite, DiskFails, Contents, vars, local, TypeOK
<1>8. ASSUME NEW u \in Updates, Rename(u) PROVE LoaderTypeOK'
  BY <1>8 DEF Rename, Moved, DiskFails, Contents, vars
<1>9. ASSUME NEW u \in Updates, AdaptSaved(u) PROVE LoaderTypeOK'
  BY <1>9 DEF AdaptSaved, SavedFirst, Adapt, TypeOK, disk
<1>10. ASSUME NEW u \in Updates, FinishPush(u) PROVE LoaderTypeOK'
  BY <1>10 DEF FinishPush, Finish, PassDue, TypeOK, disk
<1>11. ASSUME NEW u \in Updates, Reconcile(u) PROVE LoaderTypeOK'
  BY <1>11 DEF Reconcile, vars, disk
<1>12. ASSUME NEW u \in Updates, OtherStep(u) PROVE LoaderTypeOK'
  BY <1>12 DEF OtherStep, Generate, Compare, StoreJSON, ReadLastVersion, BumpVersion, Launch, TypeOK, disk
<1>13. ASSUME NEW u \in Updates, NEW s \in Servers, ServerStep(u, s) \/ PostTo(u, s) PROVE LoaderTypeOK'
  <2>1. pc' = pc
    BY <1>13, WorkerElsewhere DEF ServerStep, PostTo
  <2> QED
    BY <1>13, <2>1 DEF ServerStep, PostTo, disk
<1>14. CASE UNCHANGED loaderVars
  BY <1>14 DEF loaderVars, vars, disk
<1> QED
  BY <1>1, <1>2, <1>3, <1>4, <1>5, <1>6, <1>7, <1>8, <1>9, <1>10, <1>11, <1>12, <1>13, <1>14
  DEF LoaderNext, LoaderStep, Save

LEMMA LoaderTypeInit == LoaderInit => LoaderTypeOK
  BY LoaderAssumption DEF LoaderInit, Init, LoaderTypeOK, Contents

\* Types, and that an update saves only between its comparison and the adapter.
THEOREM LoaderTyped == LoaderSpec => []LoaderTypeOK
<1>1. LoaderSpec => []TypeOK
  BY LoaderImplementsPush, PushTyped
<1> QED
  BY <1>1, LoaderTypeInit, LoaderTypeStep, PTL DEF LoaderSpec

\* The history of the loader takes the steps of that of the push.
LEMMA LoaderHistoryPushes == LoaderHistorySpec => LoaderSpec /\ HistorySpec
<1>1. LoaderHistoryInit => LoaderInit /\ HistoryInit
  BY DEF LoaderHistoryInit
<1>2. [LoaderHistoryNext]_loaderHistoryVars => [LoaderNext]_loaderVars
  BY DEF LoaderHistoryNext, loaderHistoryVars
<1>3. [LoaderHistoryNext]_loaderHistoryVars => [HistoryNext]_historyVars
  <2> SUFFICES ASSUME [LoaderHistoryNext]_loaderHistoryVars PROVE [HistoryNext]_historyVars
    OBVIOUS
  <2>1. CASE UNCHANGED loaderHistoryVars
    BY <2>1 DEF loaderHistoryVars, loaderVars, historyVars
  <2>2. CASE LoaderHistoryNext
    <3>1. [Next]_vars /\ Noted
      BY <1>2, <2>2, LoaderStepPushes DEF LoaderHistoryNext
    <3>2. UNCHANGED vars => UNCHANGED historyVars
      BY <3>1 DEF Noted, historyVars
    <3> QED
      BY <3>1, <3>2 DEF HistoryNext
  <2> QED
    BY <2>1, <2>2
<1> QED
  BY <1>1, <1>2, <1>3, PTL DEF LoaderHistorySpec, LoaderSpec, HistorySpec

\* An update that has met no other at the temporary file finds it as it left it.
SavedWhole ==
  /\ AutosaveIsWhole
  /\ \A u, v \in Updates : u # v /\ AtTmp(u) /\ AtTmp(v) => u \in crossed
  /\ \A u \in Updates : fd[u] = "saved" => u \in crossed
  /\ \A u \in Updates \ crossed :
       /\ saving[u] = "write" => tmp = Empty /\ fd[u] = "tmp"
       /\ saving[u] = "rename" => tmp \in Caddyfiles

LEMMA SavedWholeStep ==
  /\ TypeOK /\ Configured /\ LoaderTypeOK
  /\ SavedWhole /\ [LoaderHistoryNext]_loaderHistoryVars
  => SavedWhole'
<1> SUFFICES ASSUME TypeOK, Configured, LoaderTypeOK, SavedWhole,
                    [LoaderHistoryNext]_loaderHistoryVars
             PROVE  SavedWhole'
  OBVIOUS
<1> USE LoaderAssumption
<1>1. ASSUME NEW u \in Updates, saving[u] # "no" PROVE caddyfile[u] \in Caddyfiles
  <2>1. caddyfile[u] # None
    BY <1>1 DEF LoaderTypeOK, Configured
  <2> QED
    BY <2>1 DEF TypeOK
<1>2. CASE UNCHANGED loaderHistoryVars
  BY <1>2 DEF loaderHistoryVars, loaderVars, disk, SavedWhole, AutosaveIsWhole, AtTmp
<1>3. CASE LoaderHistoryNext
  <2>1. \A u, v \in Updates : u # v /\ AtTmp(u)' /\ AtTmp(v)' => u \in crossed'
    BY <1>3 DEF LoaderHistoryNext, NoteTmp
  \* A step that is none of the temporary file.
  <2>2. ASSUME UNCHANGED <<saved, tmp, fd>>, \A u \in Updates : AtTmp(u)' \/ AtTmp(u) => saving'[u] = saving[u]
        PROVE  SavedWhole'
    <3>1. \A u \in Updates : ~Replaces(u)
      BY <2>2 DEF Replaces, AtTmp
    <3>2. spoiled' = spoiled /\ \A u \in Updates : AtTmp(u) /\ u \in crossed => u \in crossed'
      BY <1>3, <2>2, <3>1 DEF LoaderHistoryNext, NoteTmp, AtTmp
    <3>3. \A u \in Updates : fd[u] = "saved" => AtTmp(u)
      BY DEF LoaderTypeOK, AtTmp
    <3> QED
      BY <2>1, <2>2, <3>2, <3>3 DEF SavedWhole, AutosaveIsWhole, AtTmp
  <2>3. ASSUME NEW u \in Updates, OpenTmp(u) PROVE SavedWhole'
    <3>1. /\ saved' = saved /\ saving[u] = "open"
          /\ \A v \in Updates \ {u} : saving'[v] = saving[v] /\ fd'[v] = fd[v]
          /\ saving'[u] \in {"write", "no"}
      BY <2>3 DEF OpenTmp, LoaderTypeOK
    <3>2. \A v \in Updates : ~Replaces(v)
      BY <3>1 DEF Replaces
    <3>3. spoiled' = spoiled /\ \A v \in Updates \ {u} : AtTmp(v) /\ v \in crossed => v \in crossed'
      BY <1>3, <3>1, <3>2 DEF LoaderHistoryNext, NoteTmp, AtTmp
    <3>4. CASE saving'[u] = "no"
      <4>1. tmp' = tmp /\ fd' = fd
        BY <2>3, <3>4 DEF OpenTmp, LoaderTypeOK
      <4> QED
        BY <2>1, <3>1, <3>3, <3>4, <4>1 DEF SavedWhole, AutosaveIsWhole, AtTmp, LoaderTypeOK
    <3>5. CASE saving'[u] = "write"
      <4>1. tmp' = Empty /\ fd'[u] = "tmp"
        BY <2>3, <3>5 DEF OpenTmp, LoaderTypeOK
      <4>2. \A v \in Updates \ {u} : AtTmp(v)' => v \in crossed'
        BY <2>1, <3>5 DEF AtTmp
      <4>3. \A v \in Updates \ {u} : fd'[v] = "saved" => AtTmp(v)'
        BY <3>1 DEF AtTmp, LoaderTypeOK
      <4> QED
        BY <2>1, <3>1, <3>3, <3>5, <4>1, <4>2, <4>3 DEF SavedWhole, AutosaveIsWhole, AtTmp
    <3> QED
      BY <3>1, <3>4, <3>5
  <2>4. ASSUME NEW u \in Updates, WriteTmp(u) PROVE SavedWhole'
    <3>1. /\ saving[u] = "write" /\ saving'[u] \in {"rename", "no"} /\ fd'[u] = "none"
          /\ \A v \in Updates \ {u} : saving'[v] = saving[v] /\ fd'[v] = fd[v]
      BY <2>4 DEF WriteTmp, AfterFailedWrite, LoaderTypeOK
    <3>2. \A v \in Updates \ {u} : ~Replaces(v)
      BY <2>4, <3>1 DEF Replaces
    <3>3. \A v \in Updates : AtTmp(v) /\ v \in crossed /\ AtTmp(v)' => v \in crossed'
      BY <1>3 DEF LoaderHistoryNext, NoteTmp
    <3>4. CASE u \in crossed
      <4>1. saved' = saved \/ spoiled'
        BY <1>3, <3>1, <3>4 DEF LoaderHistoryNext, NoteTmp, Replaces
      <4>2. saved' = saved => spoiled' = spoiled
        <5>1. saved' = saved => ~Replaces(u)
          BY <3>1 DEF Replaces
        <5> QED
          BY <1>3, <3>2, <5>1 DEF LoaderHistoryNext, NoteTmp
      <4>3. \A v \in Updates \ {u} : AtTmp(v) => v \in crossed
        BY <3>1 DEF SavedWhole, AtTmp
      <4>4. \A v \in Updates : AtTmp(v)' => v \in crossed'
        BY <3>1, <3>3, <3>4, <4>3 DEF AtTmp
      <4>5. \A v \in Updates : fd'[v] = "saved" => AtTmp(v)'
        BY <3>1 DEF AtTmp, LoaderTypeOK
      <4> QED
        BY <2>1, <4>1, <4>2, <4>4, <4>5 DEF SavedWhole, AutosaveIsWhole, AtTmp
    <3>5. CASE u \notin crossed
      <4>1. tmp = Empty /\ fd[u] = "tmp"
        BY <3>1, <3>5 DEF SavedWhole
      <4>2. saved' = saved /\ (saving'[u] = "rename" => tmp' = caddyfile[u])
        BY <2>4, <4>1 DEF WriteTmp, Written, AfterFailedWrite, LoaderTypeOK
      <4>3. spoiled' = spoiled
        <5>1. ~Replaces(u)
          BY <3>1, <4>2 DEF Replaces
        <5> QED
          BY <1>3, <3>2, <5>1 DEF LoaderHistoryNext, NoteTmp
      <4>4. \A v \in Updates \ {u} : ~AtTmp(v)
        BY <3>1, <3>5 DEF SavedWhole, AtTmp
      <4>5. \A v \in Updates \ {u} : ~AtTmp(v)' /\ fd'[v] # "saved"
        BY <3>1, <4>4 DEF AtTmp, LoaderTypeOK
      <4>6. caddyfile[u] \in Caddyfiles
        BY <1>1, <3>1
      <4> QED
        BY <2>1, <3>1, <4>2, <4>3, <4>5, <4>6 DEF SavedWhole, AutosaveIsWhole, AtTmp
    <3> QED
      BY <3>4, <3>5
  <2>5. ASSUME NEW u \in Updates, Rename(u) PROVE SavedWhole'
    <3>1. /\ saving[u] = "rename" /\ saving'[u] = "no" /\ fd[u] # "saved"
          /\ \A v \in Updates \ {u} : saving'[v] = saving[v]
      BY <2>5 DEF Rename, LoaderTypeOK
    <3>2. \A v \in Updates \ {u} : ~Replaces(v)
      BY <3>1 DEF Replaces
    <3>3. \A v \in Updates : AtTmp(v) /\ v \in crossed /\ AtTmp(v)' => v \in crossed'
      BY <1>3 DEF LoaderHistoryNext, NoteTmp
    <3>4. \A v \in Updates \ {u} : AtTmp(v) => v \in crossed /\ u \in crossed
      BY <3>1 DEF SavedWhole, AtTmp
    <3>5. \A v \in Updates : AtTmp(v)' => v \in crossed'
      BY <3>1, <3>3, <3>4 DEF AtTmp
    <3>6. \A v \in Updates : fd'[v] = "saved" => AtTmp(v)'
      <4>1. \A v \in Updates : fd'[v] = "saved" => fd[v] # "none"
        BY <2>5 DEF Rename, Moved, LoaderTypeOK
      <4> QED
        BY <3>1, <4>1 DEF AtTmp, LoaderTypeOK
    <3>7. AutosaveIsWhole'
      <4>1. CASE tmp' = tmp
        <5>1. saved' = saved
          BY <2>5, <4>1 DEF Rename
        <5>2. ~Replaces(u)
          BY <3>1, <4>1 DEF Replaces
        <5>3. spoiled' = spoiled
          BY <1>3, <3>2, <5>2 DEF LoaderHistoryNext, NoteTmp
        <5> QED
          BY <5>1, <5>3 DEF SavedWhole, AutosaveIsWhole
      <4>2. CASE tmp' # tmp
        <5>1. saved' = tmp /\ Replaces(u)
          BY <2>5, <3>1, <4>2 DEF Rename, Replaces
        <5>2. u \in crossed => spoiled'
          BY <1>3, <5>1 DEF LoaderHistoryNext, NoteTmp
        <5> QED
          BY <3>1, <5>1, <5>2 DEF SavedWhole, AutosaveIsWhole
      <4> QED
        BY <4>1, <4>2
    <3> QED
      BY <2>1, <3>5, <3>6, <3>7 DEF SavedWhole, AtTmp
  <2>6. CASE CrashController
    <3>1. /\ saved' = saved /\ tmp' = tmp
          /\ \A v \in Updates : saving'[v] = "no" /\ fd'[v] = "none"
      BY <2>6 DEF CrashController
    <3>2. spoiled' = spoiled
      BY <1>3, <3>1 DEF LoaderHistoryNext, NoteTmp, Replaces
    <3> QED
      BY <3>1, <3>2 DEF SavedWhole, AutosaveIsWhole, AtTmp
  <2>7. ASSUME \/ \E c \in Caddyfiles : ChangeCaddyfile(c)
               \/ ChangeElsewhere
               \/ \E u \in Updates : Start(u) \/ AdaptSaved(u) \/ FinishPush(u) \/ Reconcile(u) \/ OtherStep(u)
               \/ \E u \in Updates, s \in Servers : ServerStep(u, s) \/ PostTo(u, s)
        PROVE  UNCHANGED <<saved, tmp, fd, saving>>
    BY <2>7 DEF ChangeCaddyfile, ChangeElsewhere, Start, AdaptSaved, FinishPush, Reconcile, OtherStep,
       ServerStep, PostTo, disk
  <2>8. ASSUME NEW u \in Updates, RememberAndSave(u) PROVE SavedWhole'
    <3>1. /\ UNCHANGED <<saved, tmp, fd>> /\ saving[u] = "no" /\ saving'[u] \in {"no", "open"}
          /\ \A v \in Updates \ {u} : saving'[v] = saving[v]
      BY <2>8 DEF RememberAndSave, Remember, LoaderTypeOK
    <3> QED
      BY <2>2, <3>1 DEF AtTmp
  <2> QED
    BY <1>3, <2>2, <2>3, <2>4, <2>5, <2>6, <2>7, <2>8 DEF LoaderHistoryNext, LoaderNext, LoaderStep, Save
<1> QED
  BY <1>2, <1>3

\* The autosave file is a whole Caddyfile whatever fails and whenever the
\* controller dies: the temporary file is whole when an update renames it that
\* had it to itself.
THEOREM AutosaveStaysWhole == LoaderHistorySpec => []AutosaveIsWhole
<1>1. LoaderHistorySpec => [](TypeOK /\ Configured)
  <2>1. PushInvariant => TypeOK /\ Configured
    BY DEF PushInvariant
  <2> QED
    BY <2>1, LoaderHistoryPushes, LoaderImplementsPush, PushAlways, PTL
<1>2. LoaderHistorySpec => []LoaderTypeOK
  BY LoaderHistoryPushes, LoaderTyped, PTL
<1>3. LoaderHistoryInit => SavedWhole
  BY DEF LoaderHistoryInit, LoaderInit, SavedWhole, AutosaveIsWhole, AtTmp
<1>4. SavedWhole => AutosaveIsWhole
  BY DEF SavedWhole
<1> QED
  BY <1>1, <1>2, <1>3, <1>4, SavedWholeStep, PTL DEF LoaderHistorySpec

\* The push of the whole loader keeps what ConfigPush promises: only what the
\* adapter accepted reaches a server, and no server stays flagged.
THEOREM LoaderPushesSafely == LoaderSpec => [](OnlyAdaptedConfigs /\ NoStuckFlag)
  BY LoaderImplementsPush, ServersRunAdaptedConfigs, FlagsAreCleared, PTL

\* In the whole loader, too, requests to a server exclude each other and the
\* versions on record are true, but for the races that the history tells of.
THEOREM LoaderRecordsAreTrue == LoaderHistorySpec => [](OnePushAtATime /\ RecordIsTrue)
  BY LoaderHistoryPushes, OneRequestAtATime, RecordsAreTrue, PTL

\* Neither the autosave file nor the gateway pass brings the requests of the push
\* out of order.
THEOREM LoaderNeverGoesBack == LoaderHistorySpec => ImplementsPushLedger
  BY LoaderHistoryPushes, ServersNeverGoBack, PTL
=============================================================================
