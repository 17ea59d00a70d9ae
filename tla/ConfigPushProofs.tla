-------------------------- MODULE ConfigPushProofs --------------------------
(* Safety of overlapping updates, for any number of updates in progress,     *)
(* servers and configurations, and any number of failures and restarts.      *)
EXTENDS ConfigPush, TLAPS

Phases == {"idle", "generate", "compare", "remember", "adapt", "store", "count", "bump",
           "launch", "wait"}
WorkPhases == InSection \cup {"check", "mark", "done"}
Configs == Caddyfiles \cup {None}

\* lastVersion, and every version taken from it, is 0 until there is a
\* configuration; updates on their way to storing one hold a Caddyfile.
Configured ==
  /\ lastVersion > 0 => lastJSONConfig # None
  /\ \A u \in Updates : pc[u] \in {"compare", "remember", "adapt", "store"} => caddyfile[u] # None
  /\ \A u \in Updates : Preparing(u) => lastJSONConfig # None
  /\ \A u \in Updates, s \in Servers : version[u][s] > 0 => lastJSONConfig # None
  /\ NoEmptyPush

\* Only what the adapter accepted gets from lastJSONConfig through a request
\* to a server.
Adapted ==
  /\ lastJSONConfig \in Adaptable \cup {None}
  /\ \A u \in Updates : pc[u] = "store" => caddyfile[u] \in Adaptable
  /\ \A u \in Updates, s \in Servers : postBody[u][s] \in Adaptable \cup {None}
  /\ OnlyAdaptedConfigs

\* An assignment to one entry of a local of updateServer keeps its type and the
\* other entries.
LEMMA NestedTyped ==
  ASSUME NEW S, NEW u \in Updates, NEW s \in Servers, NEW x \in S,
         NEW f \in [Updates -> [Servers -> S]]
  PROVE  /\ [f EXCEPT ![u][s] = x] \in [Updates -> [Servers -> S]]
         /\ [f EXCEPT ![u][s] = x][u][s] = x
         /\ \A v \in Updates, t \in Servers : v # u \/ t # s => [f EXCEPT ![u][s] = x][v][t] = f[v][t]
  OBVIOUS

\* Goto moves one goroutine of updateServer.
LEMMA GotoTyped ==
  ASSUME TypeOK, NEW u \in Updates, NEW s \in Servers, NEW w \in WorkPhases, Goto(u, s, w)
  PROVE  /\ work' \in [Updates -> [Servers -> WorkPhases]]
         /\ work'[u][s] = w
         /\ \A v \in Updates, t \in Servers : v # u \/ t # s => work'[v][t] = work[v][t]
  BY NestedTyped DEF Goto, TypeOK, WorkPhases

\* Every step keeps the types.
LEMMA TypeStep == TypeOK /\ [Next]_vars => TypeOK'
<1> SUFFICES ASSUME TypeOK, [Next]_vars PROVE TypeOK'
  OBVIOUS
<1> USE ConfigAssumption
<1>1. ASSUME NEW c \in Caddyfiles, Change(c) PROVE TypeOK'
  BY <1>1 DEF Change, TypeOK, env, local, worker, shared
<1>2. ASSUME NEW s \in Servers, ServerRestart(s) PROVE TypeOK'
  BY <1>2 DEF ServerRestart, TypeOK, env, local, worker, shared
<1>3. CASE Crash
  BY <1>3 DEF Crash, TypeOK, env, local, worker, shared
<1>4. ASSUME NEW u \in Updates, Fire(u) PROVE TypeOK'
  BY <1>4 DEF Fire, TypeOK, env, local, worker, shared
<1>5. ASSUME NEW u \in Updates, Generate(u) PROVE TypeOK'
  BY <1>5 DEF Generate, TypeOK, env, local, worker, shared
<1>6. ASSUME NEW u \in Updates, Compare(u) PROVE TypeOK'
  <2>1. caddyfileChanged' \in [Updates -> BOOLEAN]
    BY <1>6 DEF Compare, TypeOK
  <2>2. failures' \in Nat
    BY <1>6 DEF Compare, Torn, Fail, TypeOK
  <2>3. pc' \in [Updates -> Phases] /\ \A v \in Updates : pc[v] = "wait" => pc'[v] = "wait"
    BY <1>6 DEF Compare, TypeOK, Phases
  <2> QED
    BY <1>6, <2>1, <2>2, <2>3 DEF Compare, TypeOK, Phases, worker, shared
<1>7. ASSUME NEW u \in Updates, Remember(u) PROVE TypeOK'
  BY <1>7 DEF Remember, TypeOK, env, local, worker, shared
<1>8. ASSUME NEW u \in Updates, Adapt(u) PROVE TypeOK'
  BY <1>8 DEF Adapt, AfterAdapt, TypeOK, env, local, worker, shared
<1>9. ASSUME NEW u \in Updates, StoreJSON(u) PROVE TypeOK'
  BY <1>9 DEF StoreJSON, TypeOK, env, local, worker, shared
<1>10. ASSUME NEW u \in Updates, ReadLastVersion(u) PROVE TypeOK'
  BY <1>10 DEF ReadLastVersion, TypeOK, env, local, worker, shared
<1>11. ASSUME NEW u \in Updates, BumpVersion(u) PROVE TypeOK'
  BY <1>11 DEF BumpVersion, TypeOK, env, local, worker, shared
<1>12. ASSUME NEW u \in Updates, Launch(u) PROVE TypeOK'
  BY <1>12 DEF Launch, TypeOK, env, local, worker, shared
<1>13. ASSUME NEW u \in Updates, Finish(u) PROVE TypeOK'
  BY <1>13 DEF Finish, AllDone, TypeOK, env, worker, shared
<1>14. ASSUME NEW u \in Updates, NEW s \in Servers, Check(u, s) PROVE TypeOK'
  <2>1. work' \in [Updates -> [Servers -> WorkPhases]]
    BY <1>14, GotoTyped DEF Check, InSection, WorkPhases
  <2>2. \A v \in Updates, t \in Servers : work'[v][t] # "done" => work[v][t] # "done"
    BY <1>14, GotoTyped DEF Check, InSection, WorkPhases
  <2>3. version' \in [Updates -> [Servers -> Nat]]
    BY <1>14, NestedTyped DEF Check, TypeOK
  <2>4. postBody' \in [Updates -> [Servers -> Caddyfiles \cup {None}]]
    BY <1>14, NestedTyped DEF Check, TypeOK
  <2>5. applied' \in [Servers -> Caddyfiles \cup {None}] /\ failures' \in Nat
    BY <1>14 DEF Check, TypeOK, env
  <2> QED
    BY <1>14, <2>1, <2>2, <2>3, <2>4, <2>5 DEF Check, TypeOK, WorkPhases, env, local, shared
<1>15. ASSUME NEW u \in Updates, NEW s \in Servers, Mark(u, s) PROVE TypeOK'
  <2>1. work' \in [Updates -> [Servers -> WorkPhases]]
    BY <1>15, GotoTyped DEF Mark, InSection, WorkPhases
  <2>2. \A v \in Updates, t \in Servers : work'[v][t] # "done" => work[v][t] # "done"
    BY <1>15, GotoTyped DEF Mark, InSection, WorkPhases
  <2>3. version' \in [Updates -> [Servers -> Nat]]
    BY <1>15, NestedTyped DEF Mark, TypeOK
  <2>4. postBody' \in [Updates -> [Servers -> Caddyfiles \cup {None}]]
    BY <1>15, NestedTyped DEF Mark, TypeOK
  <2>5. applied' \in [Servers -> Caddyfiles \cup {None}] /\ failures' \in Nat
    BY <1>15 DEF Mark, TypeOK, env
  <2> QED
    BY <1>15, <2>1, <2>2, <2>3, <2>4, <2>5 DEF Mark, TypeOK, WorkPhases, env, local, shared
<1>16. ASSUME NEW u \in Updates, NEW s \in Servers, TakeVersion(u, s) PROVE TypeOK'
  <2>1. work' \in [Updates -> [Servers -> WorkPhases]]
    BY <1>16, GotoTyped DEF TakeVersion, InSection, WorkPhases
  <2>2. \A v \in Updates, t \in Servers : work'[v][t] # "done" => work[v][t] # "done"
    BY <1>16, GotoTyped DEF TakeVersion, InSection, WorkPhases
  <2>3. version' \in [Updates -> [Servers -> Nat]]
    BY <1>16, NestedTyped DEF TakeVersion, TypeOK
  <2>4. postBody' \in [Updates -> [Servers -> Caddyfiles \cup {None}]]
    BY <1>16, NestedTyped DEF TakeVersion, TypeOK
  <2>5. applied' \in [Servers -> Caddyfiles \cup {None}] /\ failures' \in Nat
    BY <1>16 DEF TakeVersion, TypeOK, env
  <2> QED
    BY <1>16, <2>1, <2>2, <2>3, <2>4, <2>5 DEF TakeVersion, TypeOK, WorkPhases, env, local, shared
<1>17. ASSUME NEW u \in Updates, NEW s \in Servers, CompareVersion(u, s) PROVE TypeOK'
  <2>1. work' \in [Updates -> [Servers -> WorkPhases]]
    BY <1>17, GotoTyped DEF CompareVersion, AfterVersion, InSection, WorkPhases
  <2>2. \A v \in Updates, t \in Servers : work'[v][t] # "done" => work[v][t] # "done"
    BY <1>17, GotoTyped DEF CompareVersion, AfterVersion, InSection, WorkPhases
  <2>3. version' \in [Updates -> [Servers -> Nat]]
    BY <1>17, NestedTyped DEF CompareVersion, AfterVersion, TypeOK
  <2>4. postBody' \in [Updates -> [Servers -> Caddyfiles \cup {None}]]
    BY <1>17, NestedTyped DEF CompareVersion, AfterVersion, TypeOK
  <2>5. applied' \in [Servers -> Caddyfiles \cup {None}] /\ failures' \in Nat
    BY <1>17 DEF CompareVersion, AfterVersion, TypeOK, env
  <2> QED
    BY <1>17, <2>1, <2>2, <2>3, <2>4, <2>5 DEF CompareVersion, AfterVersion, TypeOK, WorkPhases, env, local, shared
<1>18. ASSUME NEW u \in Updates, NEW s \in Servers, TakeBody(u, s) PROVE TypeOK'
  <2>1. work' \in [Updates -> [Servers -> WorkPhases]]
    BY <1>18, GotoTyped DEF TakeBody, Torn, Fail, InSection, WorkPhases
  <2>2. \A v \in Updates, t \in Servers : work'[v][t] # "done" => work[v][t] # "done"
    BY <1>18, GotoTyped DEF TakeBody, Torn, Fail, InSection, WorkPhases
  <2>3. version' \in [Updates -> [Servers -> Nat]]
    BY <1>18, NestedTyped DEF TakeBody, Torn, Fail, TypeOK
  <2>4. postBody' \in [Updates -> [Servers -> Caddyfiles \cup {None}]]
    <3>1. lastJSONConfig \in Configs /\ postBody \in [Updates -> [Servers -> Configs]]
      BY DEF TypeOK, Configs
    <3>2. postBody' = postBody \/ postBody' = [postBody EXCEPT ![u][s] = lastJSONConfig]
      BY <1>18 DEF TakeBody
    <3> QED
      BY <3>1, <3>2, NestedTyped DEF Configs
  <2>5. applied' \in [Servers -> Caddyfiles \cup {None}] /\ failures' \in Nat
    BY <1>18 DEF TakeBody, Torn, Fail, TypeOK, env
  <2> QED
    BY <1>18, <2>1, <2>2, <2>3, <2>4, <2>5 DEF TakeBody, Torn, Fail, TypeOK, WorkPhases, env, local, shared
<1>19. ASSUME NEW u \in Updates, NEW s \in Servers, Post(u, s) PROVE TypeOK'
  <2>1. work' \in [Updates -> [Servers -> WorkPhases]]
    BY <1>19, GotoTyped DEF Post, AfterError, Fail, InSection, WorkPhases
  <2>2. \A v \in Updates, t \in Servers : work'[v][t] # "done" => work[v][t] # "done"
    BY <1>19, GotoTyped DEF Post, AfterError, Fail, InSection, WorkPhases
  <2>3. version' \in [Updates -> [Servers -> Nat]]
    BY <1>19, NestedTyped DEF Post, AfterError, Fail, TypeOK
  <2>4. postBody' \in [Updates -> [Servers -> Caddyfiles \cup {None}]]
    BY <1>19, NestedTyped DEF Post, AfterError, Fail, TypeOK
  <2>5. applied' \in [Servers -> Caddyfiles \cup {None}] /\ failures' \in Nat
    BY <1>19 DEF Post, AfterError, Fail, TypeOK, env
  <2> QED
    BY <1>19, <2>1, <2>2, <2>3, <2>4, <2>5 DEF Post, AfterError, Fail, TypeOK, WorkPhases, env, local, shared
<1>20. ASSUME NEW u \in Updates, NEW s \in Servers, Record(u, s) PROVE TypeOK'
  <2>1. work' \in [Updates -> [Servers -> WorkPhases]]
    BY <1>20, GotoTyped DEF Record, InSection, WorkPhases
  <2>2. \A v \in Updates, t \in Servers : work'[v][t] # "done" => work[v][t] # "done"
    BY <1>20, GotoTyped DEF Record, InSection, WorkPhases
  <2>3. version' \in [Updates -> [Servers -> Nat]]
    BY <1>20, NestedTyped DEF Record, TypeOK
  <2>4. postBody' \in [Updates -> [Servers -> Caddyfiles \cup {None}]]
    BY <1>20, NestedTyped DEF Record, TypeOK
  <2>5. applied' \in [Servers -> Caddyfiles \cup {None}] /\ failures' \in Nat
    BY <1>20 DEF Record, TypeOK, env
  <2> QED
    BY <1>20, <2>1, <2>2, <2>3, <2>4, <2>5 DEF Record, TypeOK, WorkPhases, env, local, shared
<1>21. ASSUME NEW u \in Updates, NEW s \in Servers, Clear(u, s) PROVE TypeOK'
  <2>1. work' \in [Updates -> [Servers -> WorkPhases]]
    BY <1>21, GotoTyped DEF Clear, InSection, WorkPhases
  <2>2. \A v \in Updates, t \in Servers : work'[v][t] # "done" => work[v][t] # "done"
    BY <1>21, GotoTyped DEF Clear, InSection, WorkPhases
  <2>3. version' \in [Updates -> [Servers -> Nat]]
    BY <1>21, NestedTyped DEF Clear, TypeOK
  <2>4. postBody' \in [Updates -> [Servers -> Caddyfiles \cup {None}]]
    BY <1>21, NestedTyped DEF Clear, TypeOK
  <2>5. applied' \in [Servers -> Caddyfiles \cup {None}] /\ failures' \in Nat
    BY <1>21 DEF Clear, TypeOK, env
  <2> QED
    BY <1>21, <2>1, <2>2, <2>3, <2>4, <2>5 DEF Clear, TypeOK, WorkPhases, env, local, shared
<1>22. CASE UNCHANGED vars
  BY <1>22 DEF vars, TypeOK, env, local, worker, shared
<1> QED
  BY <1>1, <1>2, <1>3, <1>4, <1>5, <1>6, <1>7, <1>8, <1>9, <1>10, <1>11, <1>12, <1>13, <1>14, <1>15, <1>16, <1>17, <1>18, <1>19, <1>20, <1>21, <1>22 DEF Next, UpdateStep, LocalServerStep

\* Every step keeps Configured.
LEMMA ConfiguredStep == TypeOK /\ Configured /\ [Next]_vars => Configured'
<1> SUFFICES ASSUME TypeOK, Configured, [Next]_vars PROVE Configured'
  OBVIOUS
<1> USE ConfigAssumption
<1>1. ASSUME NEW c \in Caddyfiles, Change(c) PROVE Configured'
  BY <1>1 DEF Change, TypeOK, Configured, NoEmptyPush, Preparing, env, local, worker, shared
<1>2. ASSUME NEW s \in Servers, ServerRestart(s) PROVE Configured'
  BY <1>2 DEF ServerRestart, TypeOK, Configured, NoEmptyPush, Preparing, env, local, worker, shared
<1>3. CASE Crash
  BY <1>3 DEF Crash, TypeOK, Configured, NoEmptyPush, Preparing, env, local, worker, shared
<1>4. ASSUME NEW u \in Updates, Fire(u) PROVE Configured'
  BY <1>4 DEF Fire, TypeOK, Configured, NoEmptyPush, Preparing, env, local, worker, shared
<1>5. ASSUME NEW u \in Updates, Generate(u) PROVE Configured'
  BY <1>5 DEF Generate, TypeOK, Configured, NoEmptyPush, Preparing, env, local, worker, shared
<1>6. ASSUME NEW u \in Updates, Compare(u) PROVE Configured'
  BY <1>6 DEF Compare, Torn, Fail, TypeOK, Configured, NoEmptyPush, Preparing, env, local, worker, shared
<1>7. ASSUME NEW u \in Updates, Remember(u) PROVE Configured'
  BY <1>7 DEF Remember, TypeOK, Configured, NoEmptyPush, Preparing, env, local, worker, shared
<1>8. ASSUME NEW u \in Updates, Adapt(u) PROVE Configured'
  BY <1>8 DEF Adapt, AfterAdapt, TypeOK, Configured, NoEmptyPush, Preparing, env, local, worker, shared
<1>9. ASSUME NEW u \in Updates, StoreJSON(u) PROVE Configured'
  BY <1>9 DEF StoreJSON, TypeOK, Configured, NoEmptyPush, Preparing, env, local, worker, shared
<1>10. ASSUME NEW u \in Updates, ReadLastVersion(u) PROVE Configured'
  BY <1>10 DEF ReadLastVersion, TypeOK, Configured, NoEmptyPush, Preparing, env, local, worker, shared
<1>11. ASSUME NEW u \in Updates, BumpVersion(u) PROVE Configured'
  BY <1>11 DEF BumpVersion, TypeOK, Configured, NoEmptyPush, Preparing, env, local, worker, shared
<1>12. ASSUME NEW u \in Updates, Launch(u) PROVE Configured'
  BY <1>12 DEF Launch, TypeOK, Configured, NoEmptyPush, Preparing, env, local, worker, shared
<1>13. ASSUME NEW u \in Updates, Finish(u) PROVE Configured'
  BY <1>13 DEF Finish, TypeOK, Configured, NoEmptyPush, Preparing, env, local, worker, shared
<1>14. ASSUME NEW u \in Updates, NEW s \in Servers, Check(u, s) PROVE Configured'
  <2>1. \A v \in Updates, t \in Servers :
          work'[v][t] = "body" => work[v][t] = "body" \/ version[v][t] > 0
    BY <1>14, GotoTyped DEF Check, InSection, WorkPhases
  <2>2. \A v \in Updates, t \in Servers :
          version'[v][t] > 0 => version[v][t] > 0 \/ lastVersion > 0
    BY <1>14, NestedTyped DEF Check, TypeOK
  <2> QED
    BY <1>14, <2>1, <2>2 DEF Check, Configured, NoEmptyPush, Preparing, env, local, shared
<1>15. ASSUME NEW u \in Updates, NEW s \in Servers, Mark(u, s) PROVE Configured'
  <2>1. \A v \in Updates, t \in Servers :
          work'[v][t] = "body" => work[v][t] = "body" \/ version[v][t] > 0
    BY <1>15, GotoTyped DEF Mark, InSection, WorkPhases
  <2>2. \A v \in Updates, t \in Servers :
          version'[v][t] > 0 => version[v][t] > 0 \/ lastVersion > 0
    BY <1>15, NestedTyped DEF Mark, TypeOK
  <2> QED
    BY <1>15, <2>1, <2>2 DEF Mark, Configured, NoEmptyPush, Preparing, env, local, shared
<1>16. ASSUME NEW u \in Updates, NEW s \in Servers, TakeVersion(u, s) PROVE Configured'
  <2>1. \A v \in Updates, t \in Servers :
          work'[v][t] = "body" => work[v][t] = "body" \/ version[v][t] > 0
    BY <1>16, GotoTyped DEF TakeVersion, InSection, WorkPhases
  <2>2. \A v \in Updates, t \in Servers :
          version'[v][t] > 0 => version[v][t] > 0 \/ lastVersion > 0
    BY <1>16, NestedTyped DEF TakeVersion, TypeOK
  <2> QED
    BY <1>16, <2>1, <2>2 DEF TakeVersion, Configured, NoEmptyPush, Preparing, env, local, shared
<1>17. ASSUME NEW u \in Updates, NEW s \in Servers, CompareVersion(u, s) PROVE Configured'
  <2>1. \A v \in Updates, t \in Servers :
          work'[v][t] = "body" => work[v][t] = "body" \/ version[v][t] > 0
    <3>1. ~UpToDate(u, s) => version[u][s] > 0
      BY DEF UpToDate, TypeOK
    <3>2. work'[u][s] = "body" => ~UpToDate(u, s)
      BY <1>17, GotoTyped DEF CompareVersion, AfterVersion, InSection, WorkPhases
    <3>3. \A v \in Updates, t \in Servers : v # u \/ t # s => work'[v][t] = work[v][t]
      BY <1>17, GotoTyped DEF CompareVersion, AfterVersion, InSection, WorkPhases
    <3> QED
      BY <3>1, <3>2, <3>3
  <2> QED
    BY <1>17, <2>1 DEF CompareVersion, Configured, NoEmptyPush, Preparing, env, local, shared
<1>18. ASSUME NEW u \in Updates, NEW s \in Servers, TakeBody(u, s) PROVE Configured'
  <2>1. \A v \in Updates, t \in Servers :
          work'[v][t] = "body" => work[v][t] = "body" \/ version[v][t] > 0
    BY <1>18, GotoTyped DEF TakeBody, Torn, Fail, InSection, WorkPhases
  <2>2. \A v \in Updates, t \in Servers :
          version'[v][t] > 0 => version[v][t] > 0 \/ lastVersion > 0
    BY <1>18, NestedTyped DEF TakeBody, Torn, Fail, TypeOK
  <2> QED
    BY <1>18, <2>1, <2>2 DEF TakeBody, Torn, Fail, Configured, NoEmptyPush, Preparing, env, local, shared
<1>19. ASSUME NEW u \in Updates, NEW s \in Servers, Post(u, s) PROVE Configured'
  <2>1. \A v \in Updates, t \in Servers :
          work'[v][t] = "body" => work[v][t] = "body" \/ version[v][t] > 0
    BY <1>19, GotoTyped DEF Post, AfterError, Fail, InSection, WorkPhases
  <2>2. \A v \in Updates, t \in Servers :
          version'[v][t] > 0 => version[v][t] > 0 \/ lastVersion > 0
    BY <1>19, NestedTyped DEF Post, AfterError, Fail, TypeOK
  <2> QED
    BY <1>19, <2>1, <2>2 DEF Post, AfterError, Fail, Configured, NoEmptyPush, Preparing, env, local, shared
<1>20. ASSUME NEW u \in Updates, NEW s \in Servers, Record(u, s) PROVE Configured'
  <2>1. \A v \in Updates, t \in Servers :
          work'[v][t] = "body" => work[v][t] = "body" \/ version[v][t] > 0
    BY <1>20, GotoTyped DEF Record, InSection, WorkPhases
  <2>2. \A v \in Updates, t \in Servers :
          version'[v][t] > 0 => version[v][t] > 0 \/ lastVersion > 0
    BY <1>20, NestedTyped DEF Record, TypeOK
  <2> QED
    BY <1>20, <2>1, <2>2 DEF Record, Configured, NoEmptyPush, Preparing, env, local, shared
<1>21. ASSUME NEW u \in Updates, NEW s \in Servers, Clear(u, s) PROVE Configured'
  <2>1. \A v \in Updates, t \in Servers :
          work'[v][t] = "body" => work[v][t] = "body" \/ version[v][t] > 0
    BY <1>21, GotoTyped DEF Clear, InSection, WorkPhases
  <2>2. \A v \in Updates, t \in Servers :
          version'[v][t] > 0 => version[v][t] > 0 \/ lastVersion > 0
    BY <1>21, NestedTyped DEF Clear, TypeOK
  <2> QED
    BY <1>21, <2>1, <2>2 DEF Clear, Configured, NoEmptyPush, Preparing, env, local, shared
<1>22. CASE UNCHANGED vars
  BY <1>22 DEF vars, TypeOK, Configured, NoEmptyPush, Preparing, env, local, worker, shared
<1> QED
  BY <1>1, <1>2, <1>3, <1>4, <1>5, <1>6, <1>7, <1>8, <1>9, <1>10, <1>11, <1>12, <1>13, <1>14, <1>15, <1>16, <1>17, <1>18, <1>19, <1>20, <1>21, <1>22 DEF Next, UpdateStep, LocalServerStep

\* Every step keeps Adapted.
LEMMA AdaptedStep == TypeOK /\ Adapted /\ [Next]_vars => Adapted'
<1> SUFFICES ASSUME TypeOK, Adapted, [Next]_vars PROVE Adapted'
  OBVIOUS
<1> USE ConfigAssumption
<1>1. ASSUME NEW c \in Caddyfiles, Change(c) PROVE Adapted'
  BY <1>1 DEF Change, TypeOK, Adapted, OnlyAdaptedConfigs, env, local, worker, shared
<1>2. ASSUME NEW s \in Servers, ServerRestart(s) PROVE Adapted'
  BY <1>2 DEF ServerRestart, TypeOK, Adapted, OnlyAdaptedConfigs, env, local, worker, shared
<1>3. CASE Crash
  BY <1>3 DEF Crash, TypeOK, Adapted, OnlyAdaptedConfigs, env, local, worker, shared
<1>4. ASSUME NEW u \in Updates, Fire(u) PROVE Adapted'
  BY <1>4 DEF Fire, TypeOK, Adapted, OnlyAdaptedConfigs, env, local, worker, shared
<1>5. ASSUME NEW u \in Updates, Generate(u) PROVE Adapted'
  BY <1>5 DEF Generate, TypeOK, Adapted, OnlyAdaptedConfigs, env, local, worker, shared
<1>6. ASSUME NEW u \in Updates, Compare(u) PROVE Adapted'
  BY <1>6 DEF Compare, Torn, Fail, TypeOK, Adapted, OnlyAdaptedConfigs, env, local, worker, shared
<1>7. ASSUME NEW u \in Updates, Remember(u) PROVE Adapted'
  BY <1>7 DEF Remember, TypeOK, Adapted, OnlyAdaptedConfigs, env, local, worker, shared
<1>8. ASSUME NEW u \in Updates, Adapt(u) PROVE Adapted'
  BY <1>8 DEF Adapt, AfterAdapt, TypeOK, Adapted, OnlyAdaptedConfigs, env, local, worker, shared
<1>9. ASSUME NEW u \in Updates, StoreJSON(u) PROVE Adapted'
  BY <1>9 DEF StoreJSON, TypeOK, Adapted, OnlyAdaptedConfigs, env, local, worker, shared
<1>10. ASSUME NEW u \in Updates, ReadLastVersion(u) PROVE Adapted'
  BY <1>10 DEF ReadLastVersion, TypeOK, Adapted, OnlyAdaptedConfigs, env, local, worker, shared
<1>11. ASSUME NEW u \in Updates, BumpVersion(u) PROVE Adapted'
  BY <1>11 DEF BumpVersion, TypeOK, Adapted, OnlyAdaptedConfigs, env, local, worker, shared
<1>12. ASSUME NEW u \in Updates, Launch(u) PROVE Adapted'
  BY <1>12 DEF Launch, TypeOK, Adapted, OnlyAdaptedConfigs, env, local, worker, shared
<1>13. ASSUME NEW u \in Updates, Finish(u) PROVE Adapted'
  BY <1>13 DEF Finish, TypeOK, Adapted, OnlyAdaptedConfigs, env, local, worker, shared
<1>14. ASSUME NEW u \in Updates, NEW s \in Servers, Check(u, s) PROVE Adapted'
  <2>1. \A v \in Updates, t \in Servers : postBody'[v][t] \in Adaptable \cup {None}
    BY <1>14, NestedTyped DEF Check, TypeOK, Adapted
  <2>2. \A t \in Servers : applied'[t] \in Adaptable \cup {None}
    BY <1>14 DEF Check, TypeOK, Adapted, OnlyAdaptedConfigs
  <2> QED
    BY <1>14, <2>1, <2>2 DEF Check, Adapted, OnlyAdaptedConfigs, env, local, shared
<1>15. ASSUME NEW u \in Updates, NEW s \in Servers, Mark(u, s) PROVE Adapted'
  <2>1. \A v \in Updates, t \in Servers : postBody'[v][t] \in Adaptable \cup {None}
    BY <1>15, NestedTyped DEF Mark, TypeOK, Adapted
  <2>2. \A t \in Servers : applied'[t] \in Adaptable \cup {None}
    BY <1>15 DEF Mark, TypeOK, Adapted, OnlyAdaptedConfigs
  <2> QED
    BY <1>15, <2>1, <2>2 DEF Mark, Adapted, OnlyAdaptedConfigs, env, local, shared
<1>16. ASSUME NEW u \in Updates, NEW s \in Servers, TakeVersion(u, s) PROVE Adapted'
  <2>1. \A v \in Updates, t \in Servers : postBody'[v][t] \in Adaptable \cup {None}
    BY <1>16, NestedTyped DEF TakeVersion, TypeOK, Adapted
  <2>2. \A t \in Servers : applied'[t] \in Adaptable \cup {None}
    BY <1>16 DEF TakeVersion, TypeOK, Adapted, OnlyAdaptedConfigs
  <2> QED
    BY <1>16, <2>1, <2>2 DEF TakeVersion, Adapted, OnlyAdaptedConfigs, env, local, shared
<1>17. ASSUME NEW u \in Updates, NEW s \in Servers, CompareVersion(u, s) PROVE Adapted'
  <2>1. \A v \in Updates, t \in Servers : postBody'[v][t] \in Adaptable \cup {None}
    BY <1>17, NestedTyped DEF CompareVersion, AfterVersion, TypeOK, Adapted
  <2>2. \A t \in Servers : applied'[t] \in Adaptable \cup {None}
    BY <1>17 DEF CompareVersion, AfterVersion, TypeOK, Adapted, OnlyAdaptedConfigs
  <2> QED
    BY <1>17, <2>1, <2>2 DEF CompareVersion, AfterVersion, Adapted, OnlyAdaptedConfigs, env, local, shared
<1>18. ASSUME NEW u \in Updates, NEW s \in Servers, TakeBody(u, s) PROVE Adapted'
  <2>1. \A v \in Updates, t \in Servers : postBody'[v][t] \in Adaptable \cup {None}
    BY <1>18, NestedTyped DEF TakeBody, Torn, Fail, TypeOK, Adapted
  <2>2. \A t \in Servers : applied'[t] \in Adaptable \cup {None}
    BY <1>18 DEF TakeBody, Torn, Fail, TypeOK, Adapted, OnlyAdaptedConfigs
  <2> QED
    BY <1>18, <2>1, <2>2 DEF TakeBody, Torn, Fail, Adapted, OnlyAdaptedConfigs, env, local, shared
<1>19. ASSUME NEW u \in Updates, NEW s \in Servers, Post(u, s) PROVE Adapted'
  <2>1. \A v \in Updates, t \in Servers : postBody'[v][t] \in Adaptable \cup {None}
    BY <1>19, NestedTyped DEF Post, AfterError, Fail, TypeOK, Adapted
  <2>2. \A t \in Servers : applied'[t] \in Adaptable \cup {None}
    BY <1>19 DEF Post, AfterError, Fail, TypeOK, Adapted, OnlyAdaptedConfigs
  <2> QED
    BY <1>19, <2>1, <2>2 DEF Post, AfterError, Fail, Adapted, OnlyAdaptedConfigs, env, local, shared
<1>20. ASSUME NEW u \in Updates, NEW s \in Servers, Record(u, s) PROVE Adapted'
  <2>1. \A v \in Updates, t \in Servers : postBody'[v][t] \in Adaptable \cup {None}
    BY <1>20, NestedTyped DEF Record, TypeOK, Adapted
  <2>2. \A t \in Servers : applied'[t] \in Adaptable \cup {None}
    BY <1>20 DEF Record, TypeOK, Adapted, OnlyAdaptedConfigs
  <2> QED
    BY <1>20, <2>1, <2>2 DEF Record, Adapted, OnlyAdaptedConfigs, env, local, shared
<1>21. ASSUME NEW u \in Updates, NEW s \in Servers, Clear(u, s) PROVE Adapted'
  <2>1. \A v \in Updates, t \in Servers : postBody'[v][t] \in Adaptable \cup {None}
    BY <1>21, NestedTyped DEF Clear, TypeOK, Adapted
  <2>2. \A t \in Servers : applied'[t] \in Adaptable \cup {None}
    BY <1>21 DEF Clear, TypeOK, Adapted, OnlyAdaptedConfigs
  <2> QED
    BY <1>21, <2>1, <2>2 DEF Clear, Adapted, OnlyAdaptedConfigs, env, local, shared
<1>22. CASE UNCHANGED vars
  BY <1>22 DEF vars, TypeOK, Adapted, OnlyAdaptedConfigs, env, local, worker, shared
<1> QED
  BY <1>1, <1>2, <1>3, <1>4, <1>5, <1>6, <1>7, <1>8, <1>9, <1>10, <1>11, <1>12, <1>13, <1>14, <1>15, <1>16, <1>17, <1>18, <1>19, <1>20, <1>21, <1>22 DEF Next, UpdateStep, LocalServerStep

\* Every step keeps NoStuckFlag.
LEMMA FlagStep == TypeOK /\ NoStuckFlag /\ [Next]_vars => NoStuckFlag'
<1> SUFFICES ASSUME TypeOK, NoStuckFlag, [Next]_vars PROVE NoStuckFlag'
  OBVIOUS
<1>1. ASSUME NEW c \in Caddyfiles, Change(c) PROVE NoStuckFlag'
  BY <1>1 DEF Change, TypeOK, NoStuckFlag, InSection, env, local, worker, shared
<1>2. ASSUME NEW s \in Servers, ServerRestart(s) PROVE NoStuckFlag'
  BY <1>2 DEF ServerRestart, TypeOK, NoStuckFlag, InSection, env, local, worker, shared
<1>3. CASE Crash
  BY <1>3 DEF Crash, TypeOK, NoStuckFlag, InSection, env, local, worker, shared
<1>4. ASSUME NEW u \in Updates, Fire(u) PROVE NoStuckFlag'
  BY <1>4 DEF Fire, TypeOK, NoStuckFlag, InSection, env, local, worker, shared
<1>5. ASSUME NEW u \in Updates, Generate(u) PROVE NoStuckFlag'
  BY <1>5 DEF Generate, TypeOK, NoStuckFlag, InSection, env, local, worker, shared
<1>6. ASSUME NEW u \in Updates, Compare(u) PROVE NoStuckFlag'
  BY <1>6 DEF Compare, Torn, Fail, TypeOK, NoStuckFlag, InSection, env, local, worker, shared
<1>7. ASSUME NEW u \in Updates, Remember(u) PROVE NoStuckFlag'
  BY <1>7 DEF Remember, TypeOK, NoStuckFlag, InSection, env, local, worker, shared
<1>8. ASSUME NEW u \in Updates, Adapt(u) PROVE NoStuckFlag'
  BY <1>8 DEF Adapt, AfterAdapt, TypeOK, NoStuckFlag, InSection, env, local, worker, shared
<1>9. ASSUME NEW u \in Updates, StoreJSON(u) PROVE NoStuckFlag'
  BY <1>9 DEF StoreJSON, TypeOK, NoStuckFlag, InSection, env, local, worker, shared
<1>10. ASSUME NEW u \in Updates, ReadLastVersion(u) PROVE NoStuckFlag'
  BY <1>10 DEF ReadLastVersion, TypeOK, NoStuckFlag, InSection, env, local, worker, shared
<1>11. ASSUME NEW u \in Updates, BumpVersion(u) PROVE NoStuckFlag'
  BY <1>11 DEF BumpVersion, TypeOK, NoStuckFlag, InSection, env, local, worker, shared
<1>12. ASSUME NEW u \in Updates, Launch(u) PROVE NoStuckFlag'
  BY <1>12 DEF Launch, TypeOK, NoStuckFlag, InSection, env, local, worker, shared
<1>13. ASSUME NEW u \in Updates, Finish(u) PROVE NoStuckFlag'
  BY <1>13 DEF Finish, TypeOK, NoStuckFlag, InSection, env, local, worker, shared
<1>14. ASSUME NEW u \in Updates, NEW s \in Servers, Check(u, s) PROVE NoStuckFlag'
  <2>1. \A v \in Updates, t \in Servers : work[v][t] \in InSection => work'[v][t] \in InSection
    BY <1>14, GotoTyped DEF Check, InSection, WorkPhases
  <2> QED
    BY <1>14, <2>1 DEF Check, TypeOK, NoStuckFlag, shared
<1>15. ASSUME NEW u \in Updates, NEW s \in Servers, Mark(u, s) PROVE NoStuckFlag'
  BY <1>15, GotoTyped DEF Mark, TypeOK, NoStuckFlag, InSection, WorkPhases, env, local, shared
<1>16. ASSUME NEW u \in Updates, NEW s \in Servers, TakeVersion(u, s) PROVE NoStuckFlag'
  <2>1. \A v \in Updates, t \in Servers : work[v][t] \in InSection => work'[v][t] \in InSection
    BY <1>16, GotoTyped DEF TakeVersion, InSection, WorkPhases
  <2> QED
    BY <1>16, <2>1 DEF TakeVersion, TypeOK, NoStuckFlag, shared
<1>17. ASSUME NEW u \in Updates, NEW s \in Servers, CompareVersion(u, s) PROVE NoStuckFlag'
  <2>1. \A v \in Updates, t \in Servers : work[v][t] \in InSection => work'[v][t] \in InSection
    BY <1>17, GotoTyped DEF CompareVersion, AfterVersion, InSection, WorkPhases
  <2> QED
    BY <1>17, <2>1 DEF CompareVersion, AfterVersion, TypeOK, NoStuckFlag, shared
<1>18. ASSUME NEW u \in Updates, NEW s \in Servers, TakeBody(u, s) PROVE NoStuckFlag'
  <2>1. \A v \in Updates, t \in Servers : work[v][t] \in InSection => work'[v][t] \in InSection
    BY <1>18, GotoTyped DEF TakeBody, Torn, Fail, InSection, WorkPhases
  <2> QED
    BY <1>18, <2>1 DEF TakeBody, Torn, Fail, TypeOK, NoStuckFlag, shared
<1>19. ASSUME NEW u \in Updates, NEW s \in Servers, Post(u, s) PROVE NoStuckFlag'
  <2>1. \A v \in Updates, t \in Servers : work[v][t] \in InSection => work'[v][t] \in InSection
    BY <1>19, GotoTyped DEF Post, AfterError, Fail, InSection, WorkPhases
  <2> QED
    BY <1>19, <2>1 DEF Post, AfterError, Fail, TypeOK, NoStuckFlag, shared
<1>20. ASSUME NEW u \in Updates, NEW s \in Servers, Record(u, s) PROVE NoStuckFlag'
  <2>1. \A v \in Updates, t \in Servers : work[v][t] \in InSection => work'[v][t] \in InSection
    BY <1>20, GotoTyped DEF Record, InSection, WorkPhases
  <2> QED
    BY <1>20, <2>1 DEF Record, TypeOK, NoStuckFlag, shared
<1>21. ASSUME NEW u \in Updates, NEW s \in Servers, Clear(u, s) PROVE NoStuckFlag'
  BY <1>21, GotoTyped DEF Clear, TypeOK, NoStuckFlag, InSection, WorkPhases, env, local, shared
<1>22. CASE UNCHANGED vars
  BY <1>22 DEF vars, TypeOK, NoStuckFlag, InSection, env, local, worker, shared
<1> QED
  BY <1>1, <1>2, <1>3, <1>4, <1>5, <1>6, <1>7, <1>8, <1>9, <1>10, <1>11, <1>12, <1>13, <1>14, <1>15, <1>16, <1>17, <1>18, <1>19, <1>20, <1>21, <1>22 DEF Next, UpdateStep, LocalServerStep

PushInvariant == TypeOK /\ Configured /\ Adapted /\ NoStuckFlag

LEMMA PushInit == Init => PushInvariant
  BY ConfigAssumption DEF Init, PushInvariant, TypeOK, Configured, NoEmptyPush, Preparing, Adapted,
     OnlyAdaptedConfigs, NoStuckFlag, InSection

LEMMA PushAlways == Spec => []PushInvariant
<1>1. PushInvariant /\ [Next]_vars => PushInvariant'
  BY TypeStep, ConfiguredStep, AdaptedStep, FlagStep DEF PushInvariant
<1> QED
  BY <1>1, PushInit, PTL DEF Spec

\* The types, and that the goroutines of an update run only while it waits for
\* them (wg.Wait in update).
THEOREM PushTyped == Spec => []TypeOK
<1>1. PushInvariant => TypeOK
  BY DEF PushInvariant, Configured, Adapted
<1> QED
  BY <1>1, PushAlways, PTL

\* updateServer only gets past the version check when update has stored a
\* configuration, however many updates race over lastVersion++.
THEOREM NeverPushEmpty == Spec => []NoEmptyPush
<1>1. PushInvariant => NoEmptyPush
  BY DEF PushInvariant, Configured, Adapted
<1> QED
  BY <1>1, PushAlways, PTL

\* No server ever runs the outcome of a Caddyfile the adapter refused.
THEOREM ServersRunAdaptedConfigs == Spec => []OnlyAdaptedConfigs
<1>1. PushInvariant => OnlyAdaptedConfigs
  BY DEF PushInvariant, Configured, Adapted
<1> QED
  BY <1>1, PushAlways, PTL

\* Every flag in serversUpdating has a goroutine that will clear it: the deferred
\* Delete is reached from every return of updateServer.
THEOREM FlagsAreCleared == Spec => []NoStuckFlag
<1>1. PushInvariant => NoStuckFlag
  BY DEF PushInvariant, Configured, Adapted
<1> QED
  BY <1>1, PushAlways, PTL

----------------------------------------------------------------------------
(* What the steps of an update and of its goroutines change. *)

\* A step of one goroutine of updateServer leaves the others as they are.
LEMMA WorkerElsewhere ==
  ASSUME TypeOK, NEW u \in Updates, NEW s \in Servers, LocalServerStep(u, s) \/ Post(u, s)
  PROVE  /\ pc' = pc /\ oldVersion' = oldVersion
         /\ lastVersion' = lastVersion /\ lastJSONConfig' = lastJSONConfig
         /\ \A v \in Updates, t \in Servers : v # u \/ t # s =>
              /\ work'[v][t] = work[v][t]
              /\ version'[v][t] = version[v][t]
              /\ postBody'[v][t] = postBody[v][t]
<1>1. CASE Check(u, s)
  <2>1. \A v \in Updates, t \in Servers : v # u \/ t # s => work'[v][t] = work[v][t]
    BY <1>1, GotoTyped DEF Check, InSection, WorkPhases
  <2>2. \A v \in Updates, t \in Servers : v # u \/ t # s => version'[v][t] = version[v][t]
    BY <1>1, NestedTyped DEF Check, TypeOK
  <2>3. \A v \in Updates, t \in Servers : v # u \/ t # s => postBody'[v][t] = postBody[v][t]
    BY <1>1, NestedTyped DEF Check, TypeOK
  <2> QED
    BY <1>1, <2>1, <2>2, <2>3 DEF Check, shared, local
<1>2. CASE Mark(u, s)
  <2>1. \A v \in Updates, t \in Servers : v # u \/ t # s => work'[v][t] = work[v][t]
    BY <1>2, GotoTyped DEF Mark, InSection, WorkPhases
  <2>2. \A v \in Updates, t \in Servers : v # u \/ t # s => version'[v][t] = version[v][t]
    BY <1>2, NestedTyped DEF Mark, TypeOK
  <2>3. \A v \in Updates, t \in Servers : v # u \/ t # s => postBody'[v][t] = postBody[v][t]
    BY <1>2, NestedTyped DEF Mark, TypeOK
  <2> QED
    BY <1>2, <2>1, <2>2, <2>3 DEF Mark, shared, local
<1>3. CASE TakeVersion(u, s)
  <2>1. \A v \in Updates, t \in Servers : v # u \/ t # s => work'[v][t] = work[v][t]
    BY <1>3, GotoTyped DEF TakeVersion, InSection, WorkPhases
  <2>2. \A v \in Updates, t \in Servers : v # u \/ t # s => version'[v][t] = version[v][t]
    BY <1>3, NestedTyped DEF TakeVersion, TypeOK
  <2>3. \A v \in Updates, t \in Servers : v # u \/ t # s => postBody'[v][t] = postBody[v][t]
    BY <1>3, NestedTyped DEF TakeVersion, TypeOK
  <2> QED
    BY <1>3, <2>1, <2>2, <2>3 DEF TakeVersion, shared, local
<1>4. CASE CompareVersion(u, s)
  <2>1. \A v \in Updates, t \in Servers : v # u \/ t # s => work'[v][t] = work[v][t]
    BY <1>4, GotoTyped DEF CompareVersion, AfterVersion, InSection, WorkPhases
  <2>2. \A v \in Updates, t \in Servers : v # u \/ t # s => version'[v][t] = version[v][t]
    BY <1>4, NestedTyped DEF CompareVersion, TypeOK
  <2>3. \A v \in Updates, t \in Servers : v # u \/ t # s => postBody'[v][t] = postBody[v][t]
    BY <1>4, NestedTyped DEF CompareVersion, TypeOK
  <2> QED
    BY <1>4, <2>1, <2>2, <2>3 DEF CompareVersion, shared, local
<1>5. CASE TakeBody(u, s)
  <2>1. \A v \in Updates, t \in Servers : v # u \/ t # s => work'[v][t] = work[v][t]
    BY <1>5, GotoTyped DEF TakeBody, Torn, Fail, InSection, WorkPhases
  <2>2. \A v \in Updates, t \in Servers : v # u \/ t # s => version'[v][t] = version[v][t]
    BY <1>5, NestedTyped DEF TakeBody, TypeOK
  <2>3. \A v \in Updates, t \in Servers : v # u \/ t # s => postBody'[v][t] = postBody[v][t]
    BY <1>5, NestedTyped DEF TakeBody, TypeOK
  <2> QED
    BY <1>5, <2>1, <2>2, <2>3 DEF TakeBody, shared, local
<1>6. CASE Post(u, s)
  <2>1. \A v \in Updates, t \in Servers : v # u \/ t # s => work'[v][t] = work[v][t]
    BY <1>6, GotoTyped DEF Post, AfterError, Fail, InSection, WorkPhases
  <2>2. \A v \in Updates, t \in Servers : v # u \/ t # s => version'[v][t] = version[v][t]
    BY <1>6, NestedTyped DEF Post, TypeOK
  <2>3. \A v \in Updates, t \in Servers : v # u \/ t # s => postBody'[v][t] = postBody[v][t]
    BY <1>6, NestedTyped DEF Post, TypeOK
  <2> QED
    BY <1>6, <2>1, <2>2, <2>3 DEF Post, shared, local
<1>7. CASE Record(u, s)
  <2>1. \A v \in Updates, t \in Servers : v # u \/ t # s => work'[v][t] = work[v][t]
    BY <1>7, GotoTyped DEF Record, InSection, WorkPhases
  <2>2. \A v \in Updates, t \in Servers : v # u \/ t # s => version'[v][t] = version[v][t]
    BY <1>7, NestedTyped DEF Record, TypeOK
  <2>3. \A v \in Updates, t \in Servers : v # u \/ t # s => postBody'[v][t] = postBody[v][t]
    BY <1>7, NestedTyped DEF Record, TypeOK
  <2> QED
    BY <1>7, <2>1, <2>2, <2>3 DEF Record, shared, local
<1>8. CASE Clear(u, s)
  <2>1. \A v \in Updates, t \in Servers : v # u \/ t # s => work'[v][t] = work[v][t]
    BY <1>8, GotoTyped DEF Clear, InSection, WorkPhases
  <2>2. \A v \in Updates, t \in Servers : v # u \/ t # s => version'[v][t] = version[v][t]
    BY <1>8, NestedTyped DEF Clear, TypeOK
  <2>3. \A v \in Updates, t \in Servers : v # u \/ t # s => postBody'[v][t] = postBody[v][t]
    BY <1>8, NestedTyped DEF Clear, TypeOK
  <2> QED
    BY <1>8, <2>1, <2>2, <2>3 DEF Clear, shared, local
<1> QED
  BY <1>1, <1>2, <1>3, <1>4, <1>5, <1>6, <1>7, <1>8 DEF LocalServerStep
\* A step of Docker, of the timer or of an update other than lastVersion++.
LEMMA UpdateSteps ==
  ASSUME TypeOK,
         \/ \E c \in Caddyfiles : Change(c)
         \/ \E u \in Updates : Fire(u) \/ (UpdateStep(u) /\ pc[u] # "bump")
  PROVE  /\ UNCHANGED <<applied, lastVersion, serversVersions, serversUpdating, version, postBody, crashes>>
         /\ \A v \in Updates, t \in Servers :
              work'[v][t] = work[v][t] \/ (work[v][t] = "done" /\ work'[v][t] = "check")
         /\ \A v \in Updates : pc'[v] = "bump" =>
              IF pc[v] = "bump" THEN oldVersion'[v] = oldVersion[v] ELSE oldVersion'[v] = lastVersion
         /\ \/ lastJSONConfig' = lastJSONConfig
            \/ \E u \in Updates : pc[u] = "store" /\ pc'[u] = "count" /\ lastJSONConfig' = caddyfile[u]
         /\ (\A v \in Updates : ~Preparing(v)') =>
              (\A v \in Updates : ~Preparing(v)) /\ lastJSONConfig' = lastJSONConfig
<1> DEFINE Q == /\ UNCHANGED <<applied, lastVersion, serversVersions, serversUpdating, version, postBody, crashes>>
                /\ \A v \in Updates, t \in Servers :
                     work'[v][t] = work[v][t] \/ (work[v][t] = "done" /\ work'[v][t] = "check")
                /\ \A v \in Updates : pc'[v] = "bump" =>
                     IF pc[v] = "bump" THEN oldVersion'[v] = oldVersion[v] ELSE oldVersion'[v] = lastVersion
                /\ \/ lastJSONConfig' = lastJSONConfig
                   \/ \E u \in Updates : pc[u] = "store" /\ pc'[u] = "count" /\ lastJSONConfig' = caddyfile[u]
                /\ (\A v \in Updates : ~Preparing(v)') =>
                     (\A v \in Updates : ~Preparing(v)) /\ lastJSONConfig' = lastJSONConfig
<1> USE DEF Preparing, TypeOK, shared, env, local, worker
<1>1. ASSUME NEW c \in Caddyfiles, Change(c) PROVE Q
  BY <1>1 DEF Change
<1>2. ASSUME NEW u \in Updates, Fire(u) PROVE Q
  BY <1>2 DEF Fire
<1>3. ASSUME NEW u \in Updates, Generate(u) PROVE Q
  BY <1>3 DEF Generate
<1>4. ASSUME NEW u \in Updates, Compare(u) PROVE Q
  BY <1>4 DEF Compare
<1>5. ASSUME NEW u \in Updates, Remember(u) PROVE Q
  BY <1>5 DEF Remember
<1>6. ASSUME NEW u \in Updates, Adapt(u) PROVE Q
  BY <1>6 DEF Adapt, AfterAdapt
<1>7. ASSUME NEW u \in Updates, StoreJSON(u) PROVE Q
  BY <1>7 DEF StoreJSON
<1>8. ASSUME NEW u \in Updates, ReadLastVersion(u) PROVE Q
  BY <1>8 DEF ReadLastVersion
<1>9. ASSUME NEW u \in Updates, Launch(u) PROVE Q
  BY <1>9 DEF Launch
<1>10. ASSUME NEW u \in Updates, Finish(u) PROVE Q
  BY <1>10 DEF Finish
<1> QED
  BY <1>1, <1>2, <1>3, <1>4, <1>5, <1>6, <1>7, <1>8, <1>9, <1>10 DEF UpdateStep, BumpVersion

\* The steps of one goroutine of updateServer, its request apart.
Goes(u, s, from, to) == work[u][s] = from /\ work'[u][s] = to

Passes(u, s) ==
  \/ Goes(u, s, "check", "done")
  \/ Goes(u, s, "check", "mark") /\ s \notin serversUpdating
  \/ Goes(u, s, "version", "compare") /\ version'[u][s] = lastVersion
  \/ Goes(u, s, "compare", "clear")
  \/ Goes(u, s, "compare", "body") /\ serversVersions[s] < version[u][s] /\ version'[u][s] = version[u][s]
  \/ /\ Goes(u, s, "body", "post")
     /\ lastJSONConfig # None /\ postBody'[u][s] = lastJSONConfig
     /\ version'[u][s] = version[u][s]
  \/ Goes(u, s, "body", "clear")

LEMMA ServerSteps ==
  ASSUME TypeOK, NEW u \in Updates, NEW s \in Servers, LocalServerStep(u, s)
  PROVE  /\ UNCHANGED <<applied, crashes>>
         /\ version'[u][s] \in {version[u][s], lastVersion, 0}
         /\ \/ Passes(u, s) /\ UNCHANGED <<serversUpdating, serversVersions>>
            \/ /\ Goes(u, s, "mark", "version") /\ serversUpdating' = serversUpdating \cup {s}
               /\ UNCHANGED serversVersions
            \/ /\ Goes(u, s, "record", "clear")
               /\ serversVersions' = [serversVersions EXCEPT ![s] = version[u][s]]
               /\ UNCHANGED serversUpdating
            \/ /\ Goes(u, s, "clear", "done") /\ serversUpdating' = serversUpdating \ {s}
               /\ UNCHANGED serversVersions
<1> DEFINE Q == /\ UNCHANGED <<applied, crashes>>
                /\ version'[u][s] \in {version[u][s], lastVersion, 0}
                /\ \/ Passes(u, s) /\ UNCHANGED <<serversUpdating, serversVersions>>
                   \/ /\ Goes(u, s, "mark", "version") /\ serversUpdating' = serversUpdating \cup {s}
                      /\ UNCHANGED serversVersions
                   \/ /\ Goes(u, s, "record", "clear")
                      /\ serversVersions' = [serversVersions EXCEPT ![s] = version[u][s]]
                      /\ UNCHANGED serversUpdating
                   \/ /\ Goes(u, s, "clear", "done") /\ serversUpdating' = serversUpdating \ {s}
                      /\ UNCHANGED serversVersions
<1> USE DEF Goes, WorkPhases, InSection, shared, env
<1>1. version \in [Updates -> [Servers -> Nat]] /\ postBody \in [Updates -> [Servers -> Configs]]
  BY DEF TypeOK, Configs
<1>2. lastVersion \in Nat /\ lastJSONConfig \in Configs /\ None \in Configs
      /\ serversVersions[s] \in Nat /\ version[u][s] \in Nat
  BY DEF TypeOK, Configs
<1>3. CASE Check(u, s)
  BY <1>3, GotoTyped DEF Check, Updating, Passes
<1>4. CASE Mark(u, s)
  BY <1>4, GotoTyped DEF Mark
<1>5. CASE TakeVersion(u, s)
  BY <1>1, <1>2, <1>5, GotoTyped, NestedTyped DEF TakeVersion, Passes
<1>6. CASE CompareVersion(u, s)
  BY <1>2, <1>6, GotoTyped DEF CompareVersion, AfterVersion, UpToDate, Passes
<1>7. CASE TakeBody(u, s)
  <2>1. CASE Goto(u, s, "post")
    BY <1>1, <1>2, <1>7, <2>1, GotoTyped, NestedTyped DEF TakeBody, Passes
  <2>2. CASE Goto(u, s, "clear")
    BY <1>2, <1>7, <2>2, GotoTyped DEF TakeBody, Passes
  <2> QED
    BY <1>7, <2>1, <2>2 DEF TakeBody
<1>8. CASE Record(u, s)
  BY <1>8, GotoTyped DEF Record
<1>9. CASE Clear(u, s)
  BY <1>1, <1>2, <1>9, GotoTyped, NestedTyped DEF Clear
<1> QED
  BY <1>3, <1>4, <1>5, <1>6, <1>7, <1>8, <1>9 DEF LocalServerStep

\* A request changes at most what its server runs.
LEMMA PostSteps ==
  ASSUME TypeOK, NEW u \in Updates, NEW s \in Servers, Post(u, s)
  PROVE  /\ work[u][s] = "post" /\ work'[u][s] \in {"record", "clear"}
         /\ UNCHANGED <<serversVersions, serversUpdating, version, postBody, crashes>>
         /\ applied' = applied \/ applied' = [applied EXCEPT ![s] = postBody[u][s]]
         /\ work'[u][s] = "record" => applied'[s] = postBody[u][s]
<1>1. CASE Goto(u, s, "record") /\ applied'[s] = postBody[u][s]
  BY <1>1, GotoTyped DEF Post, WorkPhases, InSection, shared
<1>2. CASE Goto(u, s, AfterError)
  BY <1>2, GotoTyped DEF Post, AfterError, WorkPhases, InSection, shared
<1> QED
  BY <1>1, <1>2 DEF Post
=============================================================================
