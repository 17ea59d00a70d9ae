------------------------ MODULE EventThrottleProofs ------------------------
(* Safety of the events listener and the update timer, for any number of     *)
(* clients and of updates in progress, and any intervals.                    *)
EXTENDS EventThrottle, TLAPS

\* The inductive invariant: an event whose client is skipped joins owed under
\* the protection that SkipIsImminent states, so the two are proved together.
Imminence == TypeOK /\ OwedIsImminent /\ SkipIsImminent /\ TimerIsKept

\* The initial state satisfies the invariant: update runs at once (AfterFunc(0)).
THEOREM ImminenceInit == Init => Imminence
  BY IntervalAssumption DEF Init, Imminence, TypeOK, OwedIsImminent, SkipIsImminent, TimerIsKept, Clients

\* Either loop of the prologue stays within the clients.
LEMMA AdvanceTyped ==
  ASSUME TypeOK, NEW u \in Updates, NEW next \in {"clear", "generate", "idle"}, Advance(u, next)
  PROVE  /\ pc' \in [Updates -> {"idle", "reset", "clear", "generate"}]
         /\ index' \in [Updates -> Clients]
<1>1. 1 \in Clients
  BY IntervalAssumption DEF Clients
<1>2. index[u] \in Clients /\ (index[u] < NClients => index[u] + 1 \in Clients)
  BY IntervalAssumption DEF TypeOK, Clients
<1> QED
  BY <1>1, <1>2 DEF Advance, TypeOK

\* No step of the listener, the timer or an update breaks the invariant.
THEOREM ImminenceStep == Imminence /\ [Next]_vars => Imminence'
<1> SUFFICES ASSUME Imminence, [Next]_vars PROVE Imminence'
  OBVIOUS
<1> USE IntervalAssumption DEF Imminence, Clients
<1>1. TypeOK'
  <2>1. CASE Tick
    BY <2>1 DEF Tick, TypeOK, docker, listening, updating
  <2>2. ASSUME NEW i \in Clients, Change(i) PROVE TypeOK'
    BY <2>2 DEF Change, TypeOK, docker, listening, updating
  <2>3. CASE Subscribe \/ ArmThrottle \/ Wake
    <3>1. EventThrottleInterval \in 0 .. EventThrottleInterval
      OBVIOUS
    <3> QED
      BY <2>3, <3>1 DEF Subscribe, ArmThrottle, Wake, TypeOK, docker, listening, updating
  <2>4. CASE ReadEvent
    BY <2>4 DEF ReadEvent, TypeOK, docker, listening, updating
  <2>5. CASE StreamError
    BY <2>5 DEF StreamError, TypeOK, docker, listening, updating
  <2>6. ASSUME NEW u \in Updates, Fire(u) PROVE TypeOK'
    BY <2>6 DEF Fire, TypeOK, docker, listening, updating
  <2>7. ASSUME NEW u \in Updates, ArmPolling(u) PROVE TypeOK'
    BY <2>7 DEF ArmPolling, AfterFiring, AfterReset, TypeOK, docker, listening, updating
  <2>8. ASSUME NEW u \in Updates, ClearSkip(u) PROVE TypeOK'
    <3>1. Advance(u, "generate")
      BY <2>8 DEF ClearSkip, AfterReset
    <3>2. skipEvents' \in [Clients -> BOOLEAN]
      BY <2>8 DEF ClearSkip, TypeOK
    <3> QED
      BY <2>8, <3>1, <3>2, AdvanceTyped DEF ClearSkip, TypeOK, docker, listening
  <2>9. ASSUME NEW u \in Updates, ReadClient(u) PROVE TypeOK'
    <3>1. Advance(u, "idle")
      BY <2>9 DEF ReadClient, AfterReset
    <3>2. dirty' \subseteq Clients /\ owed' \subseteq dirty'
      BY <2>9 DEF ReadClient, TypeOK
    <3> QED
      BY <2>9, <3>1, <3>2, AdvanceTyped DEF ReadClient, TypeOK, listening
  <2>10. CASE UNCHANGED vars
    BY <2>10 DEF vars, TypeOK, docker, listening, updating
  <2> QED
    BY <2>1, <2>2, <2>3, <2>4, <2>5, <2>6, <2>7, <2>8, <2>9, <2>10 DEF Next, UpdateStep
<1>2. OwedIsImminent'
  <2>1. CASE Tick
    BY <2>1 DEF Tick, TypeOK, OwedIsImminent, SkipIsImminent, Throttled, WillRead, WillClear, docker, listening, updating
  <2>2. ASSUME NEW i \in Clients, Change(i) PROVE OwedIsImminent'
    BY <2>2 DEF Change, TypeOK, OwedIsImminent, SkipIsImminent, Throttled, WillRead, WillClear, docker, listening, updating
  <2>3. CASE Subscribe \/ ArmThrottle \/ Wake
    <3>1. CASE ArmThrottle
      BY <3>1 DEF ArmThrottle, OwedIsImminent, Throttled
    <3>2. CASE Subscribe \/ Wake
      BY <3>2 DEF Subscribe, Wake, TypeOK, OwedIsImminent, SkipIsImminent, Throttled, WillRead, WillClear, docker, listening, updating
    <3> QED
      BY <2>3, <3>1, <3>2
  <2>4. CASE ReadEvent
    BY <2>4 DEF ReadEvent, Skipped, TypeOK, OwedIsImminent, SkipIsImminent, Throttled, WillRead, WillClear, docker, listening, updating
  <2>5. CASE StreamError
    BY <2>5 DEF StreamError, TypeOK, OwedIsImminent, SkipIsImminent, Throttled, WillRead, WillClear, docker, listening, updating
  <2>6. ASSUME NEW u \in Updates, Fire(u) PROVE OwedIsImminent'
    BY <2>6 DEF Fire, TypeOK, OwedIsImminent, SkipIsImminent, Throttled, WillRead, WillClear, docker, listening, updating
  <2>7. ASSUME NEW u \in Updates, ArmPolling(u) PROVE OwedIsImminent'
    BY <2>7 DEF ArmPolling, AfterFiring, AfterReset, TypeOK, OwedIsImminent, SkipIsImminent, Throttled, WillRead, WillClear, docker, listening, updating
  <2>8. ASSUME NEW u \in Updates, ClearSkip(u) PROVE OwedIsImminent'
    <3>1. UNCHANGED <<owed, listener, client, timer>> /\ Advance(u, "generate") /\ pc[u] = "clear"
      BY <2>8 DEF ClearSkip, AfterReset, docker, listening
    <3>2. Throttled' <=> Throttled
      BY <3>1 DEF Throttled
    <3>3. ASSUME NEW i \in Clients, NEW v \in Updates, WillRead(v, i) PROVE WillRead(v, i)'
      BY <3>1, <3>3 DEF Advance, WillRead, TypeOK
    <3> SUFFICES ASSUME NEW i \in owed'
                 PROVE  Throttled' \/ \E v \in Updates : WillRead(v, i)'
      BY DEF OwedIsImminent
    <3>4. i \in Clients /\ i \in owed
      BY <3>1 DEF TypeOK
    <3>5. Throttled \/ \E v \in Updates : WillRead(v, i)
      BY <3>4 DEF OwedIsImminent
    <3>6. CASE Throttled
      BY <3>2, <3>6
    <3>7. ASSUME NEW v \in Updates, WillRead(v, i)
          PROVE  \E w \in Updates : WillRead(w, i)'
      BY <3>3, <3>4, <3>7
    <3> QED
      BY <3>5, <3>6, <3>7
  <2>9. ASSUME NEW u \in Updates, ReadClient(u) PROVE OwedIsImminent'
    <3>1. /\ owed' = owed \ {index[u]} /\ pc[u] = "generate"
          /\ Advance(u, "idle")
      BY <2>9 DEF ReadClient, AfterReset
    <3>2. Throttled' <=> Throttled
      BY <2>9 DEF ReadClient, Throttled, listening
    <3>3. ASSUME NEW i \in Clients, i # index[u], NEW v \in Updates, WillRead(v, i)
          PROVE  WillRead(v, i)'
      <4>1. index[u] \in Int /\ i \in Int /\ NClients \in Int /\ i <= NClients
        BY DEF TypeOK
      <4>2. CASE v = u /\ index[u] < NClients
        BY <3>1, <3>3, <4>1, <4>2 DEF Advance, WillRead, TypeOK
      <4>3. CASE v = u /\ ~(index[u] < NClients)
        BY <3>1, <3>3, <4>1, <4>3 DEF WillRead, TypeOK
      <4>4. CASE v # u
        BY <3>1, <3>3, <4>4 DEF Advance, WillRead, TypeOK
      <4> QED
        BY <4>2, <4>3, <4>4
    <3> SUFFICES ASSUME NEW i \in owed'
                 PROVE  Throttled' \/ \E v \in Updates : WillRead(v, i)'
      BY DEF OwedIsImminent
    <3>4. i \in Clients /\ i \in owed /\ i # index[u]
      BY <3>1 DEF TypeOK
    <3>5. Throttled \/ \E v \in Updates : WillRead(v, i)
      BY <3>4 DEF OwedIsImminent
    <3>6. CASE Throttled
      BY <3>2, <3>6
    <3>7. ASSUME NEW v \in Updates, WillRead(v, i)
          PROVE  \E w \in Updates : WillRead(w, i)'
      BY <3>3, <3>4, <3>7
    <3> QED
      BY <3>5, <3>6, <3>7
  <2>10. CASE UNCHANGED vars
    BY <2>10 DEF vars, TypeOK, OwedIsImminent, SkipIsImminent, Throttled, WillRead, WillClear, docker, listening, updating
  <2> QED
    BY <2>1, <2>2, <2>3, <2>4, <2>5, <2>6, <2>7, <2>8, <2>9, <2>10 DEF Next, UpdateStep
<1>3. SkipIsImminent'
  <2>1. CASE Tick
    BY <2>1 DEF Tick, TypeOK, SkipIsImminent, Throttled, WillClear, docker, listening, updating
  <2>2. ASSUME NEW i \in Clients, Change(i) PROVE SkipIsImminent'
    BY <2>2 DEF Change, TypeOK, SkipIsImminent, Throttled, WillClear, docker, listening, updating
  <2>3. CASE Subscribe \/ ArmThrottle \/ Wake
    BY <2>3 DEF Subscribe, ArmThrottle, Wake, TypeOK, SkipIsImminent, Throttled, WillClear, docker, listening, updating
  <2>4. CASE ReadEvent
    BY <2>4 DEF ReadEvent, Skipped, TypeOK, SkipIsImminent, Throttled, WillClear, docker, listening, updating
  <2>5. CASE StreamError
    BY <2>5 DEF StreamError, TypeOK, SkipIsImminent, Throttled, WillClear, docker, listening, updating
  <2>6. ASSUME NEW u \in Updates, Fire(u) PROVE SkipIsImminent'
    BY <2>6 DEF Fire, TypeOK, SkipIsImminent, Throttled, WillClear, docker, listening, updating
  <2>7. ASSUME NEW u \in Updates, ArmPolling(u) PROVE SkipIsImminent'
    BY <2>7 DEF ArmPolling, AfterFiring, AfterReset, TypeOK, SkipIsImminent, Throttled, WillClear, docker, listening, updating
  <2>8. ASSUME NEW u \in Updates, ClearSkip(u), NEW i \in Clients, skipEvents'[i]
        PROVE  Throttled' \/ \E v \in Updates : WillClear(v, i)'
    <3>1. i # index[u] /\ skipEvents[i]
      BY <2>8 DEF ClearSkip, TypeOK
    <3>2. Throttled' <=> Throttled
      BY <2>8 DEF ClearSkip, Throttled, listening
    <3>3. ASSUME NEW v \in Updates, WillClear(v, i) PROVE WillClear(v, i)'
      <4>1. CASE v # u
        BY <2>8, <3>3, <4>1 DEF ClearSkip, Advance, AfterReset, TypeOK, WillClear
      <4>2. CASE v = u
        BY <2>8, <3>1, <3>3, <4>2 DEF ClearSkip, Advance, AfterReset, TypeOK, WillClear
      <4> QED
        BY <4>1, <4>2
    <3> QED
      BY <3>1, <3>2, <3>3 DEF SkipIsImminent
  <2>9. ASSUME NEW u \in Updates, ReadClient(u) PROVE SkipIsImminent'
    BY <2>9 DEF ReadClient, Advance, AfterReset, TypeOK, SkipIsImminent, Throttled, WillClear, docker, listening, updating
  <2>10. CASE UNCHANGED vars
    BY <2>10 DEF vars, TypeOK, SkipIsImminent, Throttled, WillClear, docker, listening, updating
  <2> QED
    BY <2>1, <2>2, <2>3, <2>4, <2>5, <2>6, <2>7, <2>8, <2>9, <2>10 DEF Next, UpdateStep, SkipIsImminent
<1>4. TimerIsKept'
  <2>1. CASE Tick
    BY <2>1 DEF Tick, TypeOK, TimerIsKept, docker, listening, updating
  <2>2. ASSUME NEW i \in Clients, Change(i) PROVE TimerIsKept'
    BY <2>2 DEF Change, TypeOK, TimerIsKept, docker, listening, updating
  <2>3. CASE Subscribe \/ ArmThrottle \/ Wake
    BY <2>3 DEF Subscribe, ArmThrottle, Wake, TypeOK, TimerIsKept, docker, listening, updating
  <2>4. CASE ReadEvent
    BY <2>4 DEF ReadEvent, Skipped, TypeOK, TimerIsKept, docker, listening, updating
  <2>5. CASE StreamError
    BY <2>5 DEF StreamError, TypeOK, TimerIsKept, docker, listening, updating
  <2>6. ASSUME NEW u \in Updates, Fire(u) PROVE TimerIsKept'
    BY <2>6 DEF Fire, TypeOK, TimerIsKept, docker, listening, updating
  <2>7. ASSUME NEW u \in Updates, ArmPolling(u) PROVE TimerIsKept'
    BY <2>7 DEF ArmPolling, AfterFiring, AfterReset, TypeOK, TimerIsKept, docker, listening, updating
  <2>8. ASSUME NEW u \in Updates, ClearSkip(u) PROVE TimerIsKept'
    BY <2>8 DEF ClearSkip, Advance, AfterReset, TypeOK, TimerIsKept, docker, listening, updating
  <2>9. ASSUME NEW u \in Updates, ReadClient(u) PROVE TimerIsKept'
    BY <2>9 DEF ReadClient, Advance, AfterReset, TypeOK, TimerIsKept, docker, listening, updating
  <2>10. CASE UNCHANGED vars
    BY <2>10 DEF vars, TypeOK, TimerIsKept, docker, listening, updating
  <2> QED
    BY <2>1, <2>2, <2>3, <2>4, <2>5, <2>6, <2>7, <2>8, <2>9, <2>10 DEF Next, UpdateStep
<1> QED
  BY <1>1, <1>2, <1>3, <1>4

\* The invariant holds in every reachable state.
THEOREM ImminenceAlways == Spec => []Imminence
  BY ImminenceInit, ImminenceStep, PTL DEF Spec

\* Every variable keeps its type: the timer never counts below zero, and only
\* clients are skipped, listened to or owed an update.
THEOREM TypesAreKept == Spec => []TypeOK
<1>1. Imminence => TypeOK
  BY DEF Imminence
<1> QED
  BY <1>1, ImminenceAlways, PTL

\* A change whose event was seen is read within the throttle interval, give or
\* take the update under way, whatever the listener skipped (listenEvents and
\* the prologue of update).
THEOREM SeenChangesAreImminent == Spec => []OwedIsImminent
<1>1. Imminence => OwedIsImminent
  BY DEF Imminence
<1> QED
  BY <1>1, ImminenceAlways, PTL

\* The skipping of a client's events ends with an update under way or due.
THEOREM SkippingEnds == Spec => []SkipIsImminent
<1>1. Imminence => SkipIsImminent
  BY DEF Imminence
<1> QED
  BY <1>1, ImminenceAlways, PTL

\* update re-arms the timer before anything else: polling cannot die out.
THEOREM PollingGoesOn == Spec => []TimerIsKept
<1>1. Imminence => TimerIsKept
  BY DEF Imminence
<1> QED
  BY <1>1, ImminenceAlways, PTL
=============================================================================
