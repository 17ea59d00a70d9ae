------------------------------- MODULE Startup -------------------------------
(***************************************************************************)
(* The command docker-proxy from its options to a controller that pushes:  *)
(* cmdFunc and createOptions (cmd.go), DockerLoader.Start and the          *)
(* discovery of remote hosts, and the endpoint of the admin API, through   *)
(* which servers are configured and which every push may move.             *)
(*                                                                         *)
(* Several instances run, each with its own settings, as a controller, a   *)
(* server or both.  An address stands for its port 2019; an endpoint is a  *)
(* pair of a network and an address, as in "tcp/10.0.0.2:2019".            *)
(* What one push may do besides is in module ConfigPush.                   *)
(***************************************************************************)
EXTENDS Integers, FiniteSets, SequencesExt

CONSTANTS
  Instances,
  Texts,         \* what options, addresses and URLs may be
  Settings,      \* [Instances -> environments and flags it may be started with]
  Interfaces,    \* [Instances -> its addresses, in the order of its interfaces]
  Labelled,      \* instances that carry the label of controlled servers
  RemoteLabels,  \* [Instances -> its labels gateway.remote.<index>.url]
  EnvFiles,      \* [environment file -> variables in it]
  Usable,        \* sockets and URLs a client can be made for
  Networks,      \* [text of a network -> addresses it contains], if it parses
  Admins,        \* admin settings of Caddyfiles
  MaxChanges, MaxFailures, MaxCrashes  \* budgets

VARIABLES
  setting,       \* what instance i was started with
  pc,
  environ,       \* DOCKER_HOST, DOCKER_CERT_PATH, DOCKER_API_VERSION; Blank if not set
  dockerSockets, dockerClients,
  skipEvents,    \* its length
  listening,     \* endpoint of the admin API of instance i
  applied,       \* version of the Caddyfile instance i serves, 0 without one
  serversVersions,
  inFlight,      \* requests a server has accepted
  version, admin, \* number and admin setting of the Caddyfile of Docker's state
  failures, crashes

starting == <<environ, dockerSockets, dockerClients, skipEvents>>
pushing == <<serversVersions, inFlight>>
vars == <<setting, pc, starting, listening, applied, pushing, version, admin, failures, crashes>>

----------------------------------------------------------------------------
\* The elements of sequence s that are in S.
Within(s, S) ==
  LET kept[n \in 0..Len(s)] ==
        IF n = 0 THEN <<>>
        ELSE IF s[n] \in S THEN Append(kept[n - 1], s[n]) ELSE kept[n - 1]
  IN  kept[Len(s)]

----------------------------------------------------------------------------
(* Options.  A variable or flag that is not given is Blank or <<>>. *)

Blank == ""

Unset == <<Blank, Blank>>   \* no endpoint
Off == <<"off", Blank>>  \* "admin off"
Wildcard == <<"tcp", "any">>
Localhost == <<"tcp", "localhost">>

\* The variable, if it is given, otherwise the flag.
Given(i, o) ==
  LET s == setting[i] IN IF s.env[o] # Blank THEN s.env[o] ELSE s.flags[o]

\* An option that is a list; splitting an empty text gives one empty element.
GivenList(i, o) ==
  LET s == setting[i]
      l == IF s.env[o] # <<>> THEN s.env[o] ELSE s.flags[o]
  IN  IF l = <<>> /\ o # "sockets" THEN <<Blank>> ELSE l

\* A text without a network gets "tcp"; a blank one is none.
NormalizeAdminListen(e) == IF e[2] = Blank \/ e[1] # Blank THEN e ELSE <<"tcp", e[2]>>

\* Any other mode is standalone.
IsServer(i) == Given(i, "mode") # "controller"
IsController(i) == Given(i, "mode") # "server"

AdminListen(i) == NormalizeAdminListen(setting[i].env.admin)

\* A network that does not parse is none.
HasNetwork(i) == Given(i, "network") \in DOMAIN Networks
InNetwork(i, a) == HasNetwork(i) => a \in Networks[Given(i, "network")]

\* Where the admin API of a server listens before anything is pushed to it.
GetAdminListen(i) ==
  LET own == Within(Interfaces[i], {a \in ToSet(Interfaces[i]) : InNetwork(i, a)})
  IN  IF AdminListen(i) # Unset THEN AdminListen(i)
      ELSE IF HasNetwork(i) /\ own # <<>> THEN <<"tcp", own[1]>>
      ELSE Localhost

----------------------------------------------------------------------------
NoVariables == [host |-> Blank, cert |-> Blank, api |-> Blank]

Stopped(i) ==
  /\ environ' = [environ EXCEPT ![i] = NoVariables]
  /\ dockerSockets' = [dockerSockets EXCEPT ![i] = <<>>]
  /\ dockerClients' = [dockerClients EXCEPT ![i] = <<>>]
  /\ skipEvents' = [skipEvents EXCEPT ![i] = 0]

Names == {"localhost"} \cup UNION {ToSet(Interfaces[i]) : i \in Instances}

Init ==
  /\ setting \in {f \in [Instances -> UNION {Settings[i] : i \in Instances}] :
                    \A i \in Instances : f[i] \in Settings[i]}
  /\ pc = [i \in Instances |-> "down"]
  /\ environ = [i \in Instances |-> NoVariables]
  /\ dockerSockets = [i \in Instances |-> <<>>]
  /\ dockerClients = [i \in Instances |-> <<>>]
  /\ skipEvents = [i \in Instances |-> 0]
  /\ listening = [i \in Instances |-> Unset]
  /\ applied = [i \in Instances |-> 0]
  /\ serversVersions = [i \in Instances |-> [n \in Names |-> 0]]
  /\ inFlight = {}
  /\ version = 1 /\ admin \in Admins
  /\ failures = 0 /\ crashes = 0

Fail ==
  /\ failures < MaxFailures
  /\ failures' = failures + 1

(* The instance whose admin API controller c means by the name n. *)
Target(c, n) ==
  IF n = "localhost" THEN c ELSE CHOOSE i \in Instances : n \in ToSet(Interfaces[i])

\* Mutant of AfterStop: the server runs on without its controller.
RunsOn(i) == listening[i]

AfterStop(i) == Unset

\* The process ends, and with it its server and its requests.
Exit(i) ==
  /\ pc' = [pc EXCEPT ![i] = "down"]
  /\ Stopped(i)
  /\ listening' = [listening EXCEPT ![i] = AfterStop(i)]
  /\ applied' = [applied EXCEPT ![i] = 0]
  /\ serversVersions' = [serversVersions EXCEPT ![i] = [n \in Names |-> 0]]
  /\ inFlight' = {r \in inFlight : i \notin {r.from, Target(r.from, r.name)}}
  /\ UNCHANGED <<setting, version, admin>>

\* Start fails: caddy.Stop, and the command returns.
GiveUp(i) == Exit(i) /\ Fail /\ UNCHANGED crashes

Crash(i) ==
  /\ pc[i] # "down" /\ IsController(i)
  /\ crashes < MaxCrashes
  /\ crashes' = crashes + 1
  /\ Exit(i)
  /\ UNCHANGED failures

----------------------------------------------------------------------------
(* cmdFunc of instance i *)

Keep == UNCHANGED <<setting, applied, pushing, version, admin, failures, crashes>>

Serve(i) ==
  /\ dockerSockets' = [dockerSockets EXCEPT ![i] = GivenList(i, "sockets")]
  /\ environ' = [environ EXCEPT ![i] = setting[i].env.docker]
  /\ listening' = [listening EXCEPT ![i] = IF IsServer(i) THEN GetAdminListen(i) ELSE Unset]
  /\ pc' = [pc EXCEPT ![i] = IF IsController(i) THEN "envfile" ELSE "serving"]
  /\ UNCHANGED <<dockerClients, skipEvents>>
  /\ Keep

\* createOptions, and caddy.Run in the modes that serve, which may fail.
Run(i) ==
  /\ pc[i] = "down"
  /\ \/ Serve(i)
     \/ IsServer(i) /\ GiveUp(i)

\* godotenv.Load: the variables of the file that are not set.
WithFile(env, file) ==
  [host |-> IF env.host = Blank THEN file.host ELSE env.host,
   cert |-> IF env.cert = Blank THEN file.cert ELSE env.cert,
   api |-> IF env.api = Blank THEN file.api ELSE env.api]

\* The environment file, if there is one, which may fail to load.
LoadEnvFile(i) ==
  LET file == Given(i, "envFile") IN
  /\ pc[i] = "envfile"
  /\ \/ /\ pc' = [pc EXCEPT ![i] = "connect"]
        /\ environ' = [environ EXCEPT ![i] =
             IF file = Blank THEN @ ELSE WithFile(@, EnvFiles[file])]
        /\ UNCHANGED <<dockerSockets, dockerClients, skipEvents, listening>>
        /\ Keep
     \/ file # Blank /\ GiveUp(i)

\* Mutant of Entry: an entry that is not given leaves the variable as it is.
StaleEntry(l, k, old) == IF k <= Len(l) /\ l[k] # Blank THEN l[k] ELSE old

\* Set to the k-th entry, or unset.
Entry(l, k, old) == IF k <= Len(l) THEN l[k] ELSE Blank

\* One round of the loop over DockerSockets: the client is made from the
\* variables.  NewEnvClient or Ping may fail.
Connect(i) ==
  LET k == Len(dockerClients[i]) + 1
      e == [host |-> dockerSockets[i][k],
            cert |-> Entry(GivenList(i, "certs"), k, environ[i].cert),
            api |-> Entry(GivenList(i, "apis"), k, environ[i].api)]
  IN
  /\ pc[i] = "connect"
  /\ k <= Len(dockerSockets[i])
  /\ \/ /\ e.host \in Usable
        /\ environ' = [environ EXCEPT ![i] = e]
        /\ dockerClients' = [dockerClients EXCEPT ![i] = Append(@, e)]
        /\ UNCHANGED <<pc, dockerSockets, skipEvents, listening>>
        /\ Keep
     \/ GiveUp(i)

\* By default the client of the environment.
ConnectDefault(i) ==
  /\ pc[i] = "connect"
  /\ dockerSockets[i] = <<>>
  /\ \/ /\ dockerClients' = [dockerClients EXCEPT ![i] = <<environ[i]>>]
        /\ dockerSockets' = [dockerSockets EXCEPT ![i] = <<environ[i].host>>]
        /\ UNCHANGED <<pc, environ, skipEvents, listening>>
        /\ Keep
     \/ GiveUp(i)

\* parseRemoteHosts: by index, without empty ones; of two labels for one index
\* either may win, as the order of a map is free.
ParseRemoteHosts(labels) ==
  LET indices == {l.index : l \in labels}
      urls == {l.url : l \in labels}
      before(l) == Cardinality({i \in indices : i < l.index})
      sorted == {s \in [1..Cardinality(indices) -> urls] :
                   \A k \in DOMAIN s : \E l \in labels : before(l) = k - 1 /\ l.url = s[k]}
  IN  {Within(s, urls \ {Blank}) : s \in sorted}

RemoteClient(url) == [host |-> url, cert |-> Blank, api |-> Blank]

\* Mutant of ListenedTo: the clients from before the discovery.
LocalOnly(i) == dockerClients[i]

ListenedTo(i) == dockerClients'[i]

\* The rest of Start: discoverRemoteHosts, which may fail to inspect the own
\* container, ReconcileOnStartup (module Gateway), and the start of the goroutines.
Discover(i) ==
  /\ pc[i] = "connect"
  /\ dockerClients[i] # <<>> /\ Len(dockerClients[i]) = Len(dockerSockets[i])
  /\ \/ /\ \E urls \in ParseRemoteHosts(RemoteLabels[i]) :
             LET made == Within(urls, Usable) IN
             /\ dockerClients' = [dockerClients EXCEPT ![i] =
                  @ \o [k \in DOMAIN made |-> RemoteClient(made[k])]]
             /\ dockerSockets' = [dockerSockets EXCEPT ![i] = @ \o made]
        /\ UNCHANGED failures
     \/ Fail /\ UNCHANGED <<dockerClients, dockerSockets>>
  /\ skipEvents' = [skipEvents EXCEPT ![i] = Len(ListenedTo(i))]
  /\ pc' = [pc EXCEPT ![i] = "up"]
  /\ UNCHANGED <<setting, environ, listening, applied, pushing, version, admin, crashes>>

StartStep(i) ==
  Run(i) \/ LoadEnvFile(i) \/ Connect(i) \/ ConnectDefault(i) \/ Discover(i)

----------------------------------------------------------------------------
(* Pushes of controller c *)

\* Docker moves to a state with another Caddyfile.
Change(a) ==
  /\ version <= MaxChanges
  /\ version' = version + 1
  /\ admin' = a
  /\ UNCHANGED <<setting, pc, starting, listening, applied, pushing, failures, crashes>>

\* The servers the generator finds.
ControlledServers(c) ==
  {n \in UNION {ToSet(Interfaces[i]) : i \in Labelled} : InNetwork(c, n)}
    \cup (IF IsServer(c) THEN {"localhost"} ELSE {})

Reaches(c, n) == listening[Target(c, n)] \in {<<"tcp", n>>, Wildcard}

\* Mutant of GetServerAdminListen: the controller's own endpoint.
OwnAdminListen(c, n) == GetAdminListen(c)

GetServerAdminListen(c, n) == IF AdminListen(c) # Unset THEN AdminListen(c) ELSE <<"tcp", n>>

\* Mutant of AddAdminListen: "admin off" is respected.
RespectOff(own, listen) == IF own = Unset THEN listen ELSE own

\* addAdminListen: the admin setting of the Caddyfile, unless it is none or off.
AddAdminListen(own, listen) == IF own \in {Unset, Off} THEN listen ELSE own

\* updateServer up to the request; one that reaches no server changes nothing.
Send(c, n) ==
  /\ pc[c] = "up" /\ n \in ControlledServers(c)
  /\ \A r \in inFlight : <<r.from, r.name>> # <<c, n>>
  /\ serversVersions[c][n] < version
  /\ Reaches(c, n)
  /\ inFlight' = inFlight \cup
       {[from |-> c, name |-> n, version |-> version,
         listen |-> AddAdminListen(admin, GetServerAdminListen(c, n))]}
  /\ UNCHANGED <<setting, pc, starting, listening, applied, serversVersions, version, admin,
                 failures, crashes>>

\* The server loads the request, moves its endpoint and answers.
Load(c, n) ==
  \E r \in inFlight :
    /\ <<r.from, r.name>> = <<c, n>>
    /\ inFlight' = inFlight \ {r}
    /\ listening' = [listening EXCEPT ![Target(c, n)] = r.listen]
    /\ applied' = [applied EXCEPT ![Target(c, n)] = r.version]
    /\ serversVersions' = [serversVersions EXCEPT ![c][n] = r.version]
    /\ UNCHANGED <<setting, pc, starting, version, admin, failures, crashes>>

Next ==
  \/ \E a \in Admins : Change(a)
  \/ \E i \in Instances : StartStep(i) \/ Crash(i)
  \/ \E c \in Instances, n \in Names : Send(c, n) \/ Load(c, n)

Spec == Init /\ [][Next]_vars

\* A process that ended is started again, Start goes on, updates keep coming, and
\* servers answer.
Fairness ==
  /\ \A i \in Instances : WF_vars(StartStep(i))
  /\ \A c \in Instances, n \in Names : WF_vars(Send(c, n)) /\ WF_vars(Load(c, n))

FairSpec == Spec /\ Fairness
----------------------------------------------------------------------------
(* Properties *)

\* Types; an admin API, an applied Caddyfile and a request live and die with the
\* process: no server is left behind when its controller cannot start.
TypeOK ==
  /\ pc \in [Instances -> {"down", "envfile", "connect", "up", "serving"}]
  /\ version \in Nat /\ admin \in Admins /\ failures \in Nat /\ crashes \in Nat
  /\ \A i \in Instances :
       /\ listening[i] # Unset <=> IsServer(i) /\ pc[i] # "down"
       /\ applied[i] \in 0..version /\ (applied[i] > 0 => listening[i] # Unset)
       /\ \A n \in Names : serversVersions[i][n] \in 0..version
  /\ \A r \in inFlight : pc[r.from] = "up" /\ listening[Target(r.from, r.name)] # Unset

\* Each client talks to the socket of its index, with the certificates and API
\* version given for that socket, and no other's, although all are made from the
\* variables of the process.
ClientsMatchOptions ==
  \A i \in Instances : \A k \in DOMAIN dockerClients[i] :
    k <= Len(GivenList(i, "sockets")) =>
      dockerClients[i][k] = [host |-> GivenList(i, "sockets")[k],
                             cert |-> Entry(GivenList(i, "certs"), k, Blank),
                             api |-> Entry(GivenList(i, "apis"), k, Blank)]

\* The listener indexes skipEvents and DockerSockets by client (loader.go:219,
\* 225): both have an entry for every client, remote ones included, and the
\* socket logged is the client's.
ListenersInRange ==
  \A i \in Instances : pc[i] = "up" =>
    /\ Len(dockerSockets[i]) = Len(dockerClients[i])
    /\ \A k \in DOMAIN dockerClients[i] :
         k <= skipEvents[i] /\ dockerSockets[i][k] = dockerClients[i][k].host

\* A server that has been configured can be configured again: no push moves its
\* endpoint to where no controller looks for it, "admin off" included.
ConfiguredStaysReachable ==
  \A i \in Instances : applied[i] > 0 =>
    \E c \in Instances : /\ IsController(c)
                         /\ \E n \in ControlledServers(c) : Target(c, n) = i /\ Reaches(c, n)

\* README.md:465, 475, 487: a standalone instance without further settings, and a
\* labelled server whose controller network has one of its addresses, with a
\* controller for that network or for all.
Documented(i) ==
  \/ Given(i, "mode") = "standalone" /\ ~HasNetwork(i) /\ AdminListen(i) = Unset
  \/ /\ IsServer(i) /\ i \in Labelled /\ AdminListen(i) = Unset
     /\ HasNetwork(i) /\ \E k \in DOMAIN Interfaces[i] : InNetwork(i, Interfaces[i][k])
     /\ \E c \in Instances :
          /\ IsController(c) /\ AdminListen(c) = Unset
          /\ HasNetwork(c) => Given(c, "network") = Given(i, "network")

\* Set up as documented, a server ends up with the Caddyfile of Docker's state
\* and keeps it, although its endpoint moves with every push.
DocumentedSetupsWork == <>[](\A i \in Instances : Documented(i) => applied[i] = version)

----------------------------------------------------------------------------
Lists(o) == {o.sockets, o.certs, o.apis}

ASSUME StartupAssumption ==
  /\ {Blank, "tcp", "localhost"} \subseteq Texts
  /\ \A i \in Instances : \A s \in Settings[i] :
       /\ s.env.docker \in [host : Texts, cert : Texts, api : Texts]
       /\ \A f \in {s.env.envFile, s.flags.envFile} \ {Blank} :
            EnvFiles[f] \in [host : Texts, cert : Texts, api : Texts]
       /\ Lists(s.env) \cup Lists(s.flags) \subseteq Seq(Texts)
       /\ s.env.admin \in Texts \X Texts
  /\ \A i \in Instances : /\ Interfaces[i] \in Seq(Texts)
                          /\ IsFiniteSet(RemoteLabels[i])
                          /\ RemoteLabels[i] \subseteq [index : Int, url : Texts]
  /\ Admins \subseteq Texts \X Texts

\* No Caddyfile, and no setting of a controller, names an admin endpoint other than
\* one at every address.
AdminsAnywhere ==
  /\ Admins \subseteq {Unset, Off, Wildcard}
  /\ \A i \in Instances : \A s \in Settings[i] :
       \/ (IF s.env.mode # Blank THEN s.env.mode ELSE s.flags.mode) = "server"
       \/ NormalizeAdminListen(s.env.admin) \in {Unset, Wildcard}
=============================================================================
