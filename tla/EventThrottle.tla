--------------------------- MODULE EventThrottle ---------------------------
(***************************************************************************)
(* How a change in Docker leads to a new Caddyfile: the events listener,   *)
(* the one timer behind all updates, and the first steps of an update      *)
(* (loader.go, Start to the call of GenerateCaddyfile).                    *)
(*                                                                         *)
(* An event arms the timer with the throttle interval and makes the        *)
(* listener skip that client's events until the next update; an update     *)
(* re-arms the timer with the polling interval, ends the skipping and      *)
(* reads every client.  Listener and updates run concurrently and share    *)
(* skipEvents and the timer without a lock.  Time is counted in ticks;     *)
(* a goroutine may take any number of them for any step.                   *)
(*                                                                         *)
(* Left out: events of a type listenEvents ignores, which change nothing,  *)
(* what update does after reading Docker (ConfigPush, Gateway), and remote *)
(* hosts, which are listened to but not given to the generator.            *)
(***************************************************************************)
EXTENDS Integers

CONSTANTS
  NClients,         \* Docker clients, numbered as in dockerLoader.dockerClients
  Updates,          \* update goroutines that may be in progress together
  EventThrottleInterval, PollingInterval,  \* in ticks
  Off               \* the timer has fired and is not armed

VARIABLES
  dirty,       \* clients that changed since an update last read them
  unread,      \* clients whose event stream holds an event
  owed,        \* history: changes the listener has seen an event of, still unread
  timer,       \* ticks until the timer fires, or Off
  skipEvents,
  listener,    \* subscribe, select, flagged or asleep
  client,      \* the client the listener is at
  pc,          \* of each update
  index        \* the client it is at

docker == <<dirty, unread, owed>>
listening == <<listener, client>>
updating == <<pc, index>>
vars == <<docker, timer, skipEvents, listening, updating>>

Clients == 1 .. NClients

Init ==
  /\ dirty = Clients
  /\ unread = {} /\ owed = {}
  /\ timer = 0                       \* time.AfterFunc(0, ...)
  /\ skipEvents = [i \in Clients |-> FALSE]
  /\ listener = "subscribe" /\ client = 1
  /\ pc = [u \in Updates |-> "idle"]
  /\ index = [u \in Updates |-> 1]

Tick ==
  /\ timer \notin {0, Off}
  /\ timer' = timer - 1
  /\ UNCHANGED <<docker, skipEvents, listening, updating>>

\* An object of client i changes; only an open stream carries the event.
Change(i) ==
  /\ dirty' = dirty \cup {i}
  /\ unread' = IF listener \in {"select", "flagged"} /\ client = i
                 THEN unread \cup {i} ELSE unread
  /\ UNCHANGED <<owed, timer, skipEvents, listening, updating>>

----------------------------------------------------------------------------
(* monitorEvents and listenEvents *)

Subscribe ==
  /\ listener = "subscribe"
  /\ listener' = "select"
  /\ UNCHANGED <<docker, timer, skipEvents, client, updating>>

\* Mutant of Skipped: every event re-arms the timer.
NeverSkipped(i) == FALSE

Skipped(i) == skipEvents[i]

\* The stream may hold more events than the one that is read.
ReadEvent ==
  /\ listener = "select"
  /\ client \in unread
  /\ unread' \in {unread, unread \ {client}}
  /\ owed' = owed \cup (dirty \cap {client})
  /\ IF Skipped(client)
       THEN UNCHANGED <<skipEvents, listener>>
       ELSE /\ skipEvents' = [skipEvents EXCEPT ![client] = TRUE]
            /\ listener' = "flagged"
  /\ UNCHANGED <<dirty, timer, client, updating>>

ArmThrottle ==
  /\ listener = "flagged"
  /\ timer' = EventThrottleInterval
  /\ listener' = "select"
  /\ UNCHANGED <<docker, skipEvents, client, updating>>

\* The stream breaks: on to the next client, or to sleep after the last one.
StreamError ==
  /\ listener = "select"
  /\ unread' = unread \ {client}
  /\ IF client < NClients
       THEN client' = client + 1 /\ listener' = "subscribe"
       ELSE client' = 1 /\ listener' = "asleep"
  /\ UNCHANGED <<dirty, owed, timer, skipEvents, updating>>

Wake ==
  /\ listener = "asleep"
  /\ listener' = "subscribe"
  /\ UNCHANGED <<docker, timer, skipEvents, client, updating>>

----------------------------------------------------------------------------
(* update, in goroutine u *)

Fire(u) ==
  /\ timer = 0
  /\ pc[u] = "idle"
  /\ timer' = Off
  /\ pc' = [pc EXCEPT ![u] = "reset"]
  /\ UNCHANGED <<docker, skipEvents, listening, index>>

\* Mutant of AfterFiring: polling is left to events.
NotRearmed == timer

AfterFiring == PollingInterval

\* Mutant of AfterReset: Docker is read before skipEvents is cleared.
ReadFirst(p) == CASE p = "reset" -> "generate" [] p = "generate" -> "clear" [] p = "clear" -> "idle"

\* The order of update's steps.
AfterReset(p) == CASE p = "reset" -> "clear" [] p = "clear" -> "generate" [] p = "generate" -> "idle"

ArmPolling(u) ==
  /\ pc[u] = "reset"
  /\ timer' = AfterFiring
  /\ pc' = [pc EXCEPT ![u] = AfterReset("reset")]
  /\ index' = [index EXCEPT ![u] = 1]
  /\ UNCHANGED <<docker, skipEvents, listening>>

\* Mutant of Advance: the loop goes past the last client.
PassesLast(u, next) ==
  IF index[u] <= NClients
    THEN pc' = pc /\ index' = [index EXCEPT ![u] = @ + 1]
    ELSE pc' = [pc EXCEPT ![u] = next] /\ index' = [index EXCEPT ![u] = 1]

\* Both loops of the prologue visit the clients in order: skipEvents is
\* cleared, then GenerateCaddyfile reads the clients.
Advance(u, next) ==
  IF index[u] < NClients
    THEN pc' = pc /\ index' = [index EXCEPT ![u] = @ + 1]
    ELSE pc' = [pc EXCEPT ![u] = next] /\ index' = [index EXCEPT ![u] = 1]

ClearSkip(u) ==
  /\ pc[u] = "clear"
  /\ skipEvents' = [skipEvents EXCEPT ![index[u]] = FALSE]
  /\ Advance(u, AfterReset(pc[u]))
  /\ UNCHANGED <<docker, timer, listening>>

ReadClient(u) ==
  /\ pc[u] = "generate"
  /\ dirty' = dirty \ {index[u]}
  /\ owed' = owed \ {index[u]}
  /\ Advance(u, AfterReset(pc[u]))
  /\ UNCHANGED <<unread, timer, skipEvents, listening>>

UpdateStep(u) == ArmPolling(u) \/ ClearSkip(u) \/ ReadClient(u)

Next ==
  \/ Tick
  \/ \E i \in Clients : Change(i)
  \/ Subscribe \/ ReadEvent \/ ArmThrottle \/ StreamError \/ Wake
  \/ \E u \in Updates : Fire(u) \/ UpdateStep(u)

Spec == Init /\ [][Next]_vars

\* Time passes and goroutines are scheduled.  Docker need neither send an event
\* nor break a stream.
Fairness ==
  /\ WF_vars(Tick)
  /\ WF_vars(ArmThrottle)
  /\ \A u \in Updates : WF_vars(Fire(u)) /\ WF_vars(UpdateStep(u))

FairSpec == Spec /\ Fairness

----------------------------------------------------------------------------
(* Properties *)

TypeOK ==
  /\ dirty \subseteq Clients
  /\ unread \subseteq Clients
  /\ owed \subseteq dirty
  /\ timer \in (0 .. PollingInterval) \cup (0 .. EventThrottleInterval) \cup {Off}
  /\ skipEvents \in [Clients -> BOOLEAN]
  /\ listener \in {"subscribe", "select", "flagged", "asleep"}
  /\ client \in Clients
  /\ pc \in [Updates -> {"idle", "reset", "clear", "generate"}]
  /\ index \in [Updates -> Clients]

\* Update u has yet to read client i, or to end the skipping of its events.
WillRead(u, i) == pc[u] \in {"reset", "clear"} \/ (pc[u] = "generate" /\ index[u] <= i)
WillClear(u, i) == pc[u] = "reset" \/ (pc[u] = "clear" /\ index[u] <= i)

\* The timer fires within the throttle interval, or is about to be armed so.
Throttled == listener = "flagged" \/ timer \in 0 .. EventThrottleInterval

\* A change the listener has seen an event of is never left to polling, even
\* when its event was skipped: an update that is under way will read it, or
\* the timer is armed with no more than the throttle interval.
OwedIsImminent == \A i \in owed : Throttled \/ \E u \in Updates : WillRead(u, i)

\* While a client's events are skipped, an update that ends this is under way
\* or due.
SkipIsImminent ==
  \A i \in Clients : skipEvents[i] => Throttled \/ \E u \in Updates : WillClear(u, i)

\* Polling never dies: the timer is armed, or an update is about to arm it.
TimerIsKept == timer # Off \/ \E u \in Updates : pc[u] = "reset"

\* Every change is read in the end, also on a client that is not listened to
\* and while events keep coming.
EveryChangeIsRead == \A i \in Clients : i \in dirty ~> i \notin dirty

----------------------------------------------------------------------------
ASSUME IntervalAssumption ==
  /\ NClients \in Nat \ {0}
  /\ EventThrottleInterval \in Nat
  /\ PollingInterval \in Nat
  /\ Off \notin Nat
=============================================================================
