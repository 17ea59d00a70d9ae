--------------------------- MODULE StartupProofs ---------------------------
(***************************************************************************)
(* Safety of the start of any number of instances, with any settings,      *)
(* interfaces and labels, and of the pushes that move their endpoints.     *)
(***************************************************************************)
EXTENDS Startup, FiniteSetTheorems, SequenceTheorems, WellFoundedInduction, TLAPS

----------------------------------------------------------------------------
(* Induction.  Provers cannot instantiate a theorem that takes a predicate;  *)
(* the set of the numbers for which it holds will do.                        *)

\* A set of numbers that is not empty has a least one.
LEMMA LeastNumber ==
  ASSUME NEW T, T \subseteq Nat, T # {}
  PROVE  \E m \in T : \A k \in T : m <= k
<1> DEFINE R == {r \in Nat \X Nat : r[1] < r[2]}
<1>1. IsWellFoundedOn(R, Nat)
  BY NatLessThanWellFounded DEF OpToRel
<1>2. \A x, y \in Nat : y < x => <<y, x>> \in R
  OBVIOUS
<1> HIDE DEF R
<1>3. PICK m \in T : \A k \in T : <<k, m>> \notin R
  <2>1. \E m \in T : \A k \in T : ~(<<k, m>> \in R)
    BY <1>1, WFMin, Zenon
  <2> QED
    BY <2>1
<1>4. \A k \in T : ~(k < m)
  BY <1>2, <1>3, Zenon
<1> QED
  BY <1>4

\* A set that has 0, and with every number the next, has all.
LEMMA Induction ==
  ASSUME NEW S, 0 \in S, \A n \in Nat : n \in S => n + 1 \in S
  PROVE  Nat \subseteq S
<1> SUFFICES ASSUME NEW n \in Nat, n \notin S PROVE FALSE
  OBVIOUS
<1>1. PICK m \in Nat \ S : \A k \in Nat \ S : m <= k
  BY LeastNumber
<1>2. m - 1 \in S
  BY <1>1
<1> QED
  BY <1>1, <1>2

----------------------------------------------------------------------------
(* Within *)

\* The recursive function in the definition of Within(s, S), as far as m.
Keeps(f, s, S, m) ==
  f = [n \in 0..m |-> IF n = 0 THEN <<>>
                      ELSE IF s[n] \in S THEN Append(f[n - 1], s[n]) ELSE f[n - 1]]

\* The recursion has a solution.
LEMMA KeepsExists == ASSUME NEW s, NEW S, NEW m \in Nat PROVE \E f : Keeps(f, s, S, m)
<1> DEFINE N == {n \in Nat : \E f : Keeps(f, s, S, n)}
<1>1. 0 \in N
  <2>1. Keeps([n \in 0..0 |-> <<>>], s, S, 0)
    BY DEF Keeps
  <2> QED
    BY <2>1
<1>2. ASSUME NEW n \in Nat, n \in N PROVE n + 1 \in N
  <2>1. PICK f : Keeps(f, s, S, n)
    BY <1>2
  <2> DEFINE next == IF s[n + 1] \in S THEN Append(f[n], s[n + 1]) ELSE f[n]
             g == [k \in 0..(n + 1) |-> IF k = n + 1 THEN next ELSE f[k]]
             Value(h, k) == IF k = 0 THEN <<>>
                            ELSE IF s[k] \in S THEN Append(h[k - 1], s[k]) ELSE h[k - 1]
  <2>2. \A k \in 0..n : f[k] = Value(f, k)
    BY <2>1 DEF Keeps
  <2>3. g = [k \in 0..(n + 1) |-> g[k]] /\ g[n + 1] = next /\ \A k \in 0..n : g[k] = f[k]
    OBVIOUS
  <2> HIDE DEF g
  <2>4. ASSUME NEW k \in 0..(n + 1) PROVE g[k] = Value(g, k)
    <3>1. CASE k = n + 1
      <4>1. k - 1 = n /\ k # 0 /\ n \in 0..n
        BY <3>1
      <4>2. g[k - 1] = f[n]
        BY <2>3, <4>1
      <4>3. g[k] = next
        BY <2>3, <3>1
      <4> QED
        BY <3>1, <4>1, <4>2, <4>3
    <3>2. CASE k # n + 1
      <4>1. k \in 0..n /\ (k # 0 => k - 1 \in 0..n)
        BY <3>2
      <4> QED
        BY <2>2, <2>3, <4>1
    <3> QED
      BY <3>1, <3>2
  <2>5. Keeps(g, s, S, n + 1)
    BY <2>3, <2>4 DEF Keeps
  <2> QED
    BY <2>5
<1> HIDE DEF N
<1>3. m \in N
  BY <1>1, <1>2, Induction
<1> QED
  BY <1>3 DEF N

\* It is a sequence of the elements of s that are in S.
LEMMA WithinSeq ==
  ASSUME NEW A, NEW s \in Seq(A), NEW S
  PROVE  Within(s, S) \in Seq(A) /\ Within(s, S) \in Seq(A \cap S)
<1> DEFINE f == CHOOSE g : Keeps(g, s, S, Len(s))
<1>1. Keeps(f, s, S, Len(s))
  BY KeepsExists
<1>2. Within(s, S) = f[Len(s)]
  BY DEF Within, Keeps
<1> HIDE DEF f
<1>3. \A n \in 0..Len(s) :
        f[n] = IF n = 0 THEN <<>>
               ELSE IF s[n] \in S THEN Append(f[n - 1], s[n]) ELSE f[n - 1]
  BY <1>1 DEF Keeps
<1> DEFINE N == {n \in Nat : n <= Len(s) => f[n] \in Seq(A \cap S)}
<1>4. 0 \in N
  <2>1. f[0] = <<>>
    BY <1>3
  <2> QED
    BY <2>1, EmptySeq
<1>5. ASSUME NEW n \in Nat, n \in N PROVE n + 1 \in N
  <2> SUFFICES ASSUME n + 1 <= Len(s) PROVE f[n + 1] \in Seq(A \cap S)
    OBVIOUS
  <2>1. f[n + 1] = IF s[n + 1] \in S THEN Append(f[n], s[n + 1]) ELSE f[n]
    <3>1. n + 1 \in 0..Len(s) /\ n + 1 # 0 /\ (n + 1) - 1 = n
      OBVIOUS
    <3> QED
      BY <1>3, <3>1
  <2>2. s[n + 1] \in A /\ f[n] \in Seq(A \cap S)
    BY <1>5
  <2> QED
    BY <2>1, <2>2
<1> HIDE DEF N
<1>6. Len(s) \in N
  BY <1>4, <1>5, Induction
<1> QED
  BY <1>2, <1>6 DEF N

----------------------------------------------------------------------------
(* Shape of the state *)

Variables == [host : Texts, cert : Texts, api : Texts]
Endpoints == Texts \X Texts
Phases == {"down", "envfile", "connect", "up", "serving"}
Requests == [from : Instances, name : Names, version : Nat, listen : Endpoints]

\* What TypeOK leaves out: domains, and that requests are about Caddyfiles there
\* have been and leave every server with an endpoint.
Shape ==
  /\ \A i \in Instances : setting[i] \in Settings[i]
  /\ environ \in [Instances -> Variables]
  /\ dockerSockets \in [Instances -> Seq(Texts)]
  /\ dockerClients \in [Instances -> Seq(Variables)]
  /\ skipEvents \in [Instances -> Nat]
  /\ listening \in [Instances -> Endpoints]
  /\ applied \in [Instances -> Nat]
  /\ serversVersions \in [Instances -> [Names -> Nat]]
  /\ inFlight \subseteq Requests
  /\ \A r \in inFlight : r.version \in 1..version /\ r.listen # Unset

\* The options are lists of texts, the environment and its file texts by variable.
LEMMA GivenTyped ==
  ASSUME NEW i \in Instances, setting[i] \in Settings[i]
  PROVE  /\ setting[i].env.docker \in Variables
         /\ Given(i, "envFile") # Blank => EnvFiles[Given(i, "envFile")] \in Variables
         /\ \A o \in {"sockets", "certs", "apis"} : GivenList(i, o) \in Seq(Texts)
         /\ AdminListen(i) \in Endpoints
<1> DEFINE env == setting[i].env
           flags == setting[i].flags
<1>1. /\ env.docker \in Variables
      /\ \A f \in {env.envFile, flags.envFile} \ {Blank} : EnvFiles[f] \in Variables
      /\ Lists(env) \cup Lists(flags) \subseteq Seq(Texts)
      /\ env.admin \in Texts \X Texts
  BY StartupAssumption DEF Variables
<1>2. Given(i, "envFile") # Blank => EnvFiles[Given(i, "envFile")] \in Variables
  BY <1>1 DEF Given
<1>3. \A o \in {"sockets", "certs", "apis"} : GivenList(i, o) \in Seq(Texts)
  <2>1. \A o \in {"sockets", "certs", "apis"} : env[o] \in Seq(Texts) /\ flags[o] \in Seq(Texts)
    BY <1>1 DEF Lists
  <2>2. <<Blank>> \in Seq(Texts)
    <3>1. Blank \in Texts
      BY StartupAssumption
    <3> QED
      BY <3>1
  <2>3. \A o \in {"sockets", "certs", "apis"} : GivenList(i, o) \in {env[o], flags[o], <<Blank>>}
    BY DEF GivenList
  <2> QED
    BY <2>1, <2>2, <2>3
<1>4. AdminListen(i) \in Endpoints
  BY <1>1, StartupAssumption DEF AdminListen, NormalizeAdminListen, Endpoints
<1> QED
  BY <1>1, <1>2, <1>3, <1>4

\* Where a server listens at first.
LEMMA GetAdminListenTyped ==
  ASSUME NEW i \in Instances, setting[i] \in Settings[i]
  PROVE  GetAdminListen(i) \in Endpoints \ {Unset}
<1> DEFINE own == Within(Interfaces[i], {a \in ToSet(Interfaces[i]) : InNetwork(i, a)})
<1>1. own \in Seq(Texts)
  <2>1. Interfaces[i] \in Seq(Texts)
    BY StartupAssumption
  <2> QED
    BY <2>1, WithinSeq
<1>2. own # <<>> => own[1] \in Texts
  BY <1>1
<1> QED
  BY <1>2, GivenTyped, StartupAssumption DEF GetAdminListen, Endpoints, Unset, Localhost, Blank

\* An entry of a list of texts.
LEMMA EntryTyped ==
  ASSUME NEW l \in Seq(Texts), NEW k \in Nat \ {0}, NEW old PROVE Entry(l, k, old) \in Texts
<1>1. Blank \in Texts
  BY StartupAssumption
<1> QED
  BY <1>1 DEF Entry

\* A name means an instance.
LEMMA TargetTyped == ASSUME NEW c \in Instances, NEW n \in Names PROVE Target(c, n) \in Instances
<1>1. n # "localhost" => \E i \in Instances : n \in ToSet(Interfaces[i])
  BY DEF Names
<1> QED
  BY <1>1 DEF Target

\* The URLs of remote hosts are a sequence of texts.
LEMMA RemotesTyped ==
  ASSUME NEW i \in Instances, NEW urls \in ParseRemoteHosts(RemoteLabels[i])
  PROVE  urls \in Seq(Texts)
<1> DEFINE labels == RemoteLabels[i]
           indices == {l.index : l \in labels}
           texts == {l.url : l \in labels}
           f == [l \in labels |-> l.index]
<1>1. IsFiniteSet(labels) /\ texts \subseteq Texts
  BY StartupAssumption
<1>2. f \in Surjection(labels, indices)
  BY DEF Surjection
<1>3. Cardinality(indices) \in Nat
  <2>1. IsFiniteSet(indices)
    BY <1>1, <1>2, FS_Surjection
  <2> QED
    BY <2>1, FS_CardinalityType
<1>4. PICK s \in [1..Cardinality(indices) -> texts] : urls = Within(s, texts \ {Blank})
  BY DEF ParseRemoteHosts
<1> HIDE DEF indices, texts
<1>5. s \in Seq(Texts)
  BY <1>1, <1>3, <1>4
<1> QED
  BY <1>4, <1>5, WithinSeq

----------------------------------------------------------------------------
(* Types *)

Typed == Shape /\ TypeOK

LEMMA TypedInit == Init => Typed
<1> SUFFICES ASSUME Init PROVE Typed
  OBVIOUS
<1>1. Blank \in Texts
  BY StartupAssumption
<1>2. \A i \in Instances : setting[i] \in Settings[i]
  BY DEF Init
<1>3. NoVariables \in Variables /\ Unset \in Endpoints
  BY <1>1 DEF NoVariables, Variables, Unset, Endpoints
<1>4. Shape
  BY <1>2, <1>3 DEF Init, Shape
<1>5. TypeOK
  BY DEF Init, TypeOK
<1> QED
  BY <1>4, <1>5 DEF Typed

\* A process that ends leaves nothing behind.
LEMMA ExitTyped ==
  ASSUME Typed, NEW i \in Instances, Exit(i), failures' \in Nat, crashes' \in Nat
  PROVE  Typed'
<1>1. Blank \in Texts
  BY StartupAssumption
<1>2. NoVariables \in Variables /\ Unset \in Endpoints
  BY <1>1 DEF NoVariables, Variables, Unset, Endpoints
<1>3. Shape'
  <2>1. UNCHANGED <<setting, version>> /\ inFlight' \subseteq inFlight
    BY DEF Exit
  <2>2. /\ environ' \in [Instances -> Variables]
        /\ dockerSockets' \in [Instances -> Seq(Texts)]
        /\ dockerClients' \in [Instances -> Seq(Variables)]
        /\ skipEvents' \in [Instances -> Nat]
    BY <1>2 DEF Typed, Shape, Exit, Stopped
  <2>3. /\ listening' \in [Instances -> Endpoints]
        /\ applied' \in [Instances -> Nat]
        /\ serversVersions' \in [Instances -> [Names -> Nat]]
    BY <1>2 DEF Typed, Shape, Exit, AfterStop
  <2> QED
    BY <2>1, <2>2, <2>3 DEF Typed, Shape
<1>4. TypeOK'
  <2>1. UNCHANGED <<setting, version, admin>>
    BY DEF Exit
  <2>2. /\ pc'[i] = "down" /\ listening'[i] = Unset /\ applied'[i] = 0
        /\ serversVersions'[i] = [n \in Names |-> 0]
    BY DEF Typed, Shape, TypeOK, Exit, AfterStop
  <2>3. \A j \in Instances : j # i =>
          /\ pc'[j] = pc[j] /\ listening'[j] = listening[j] /\ applied'[j] = applied[j]
          /\ serversVersions'[j] = serversVersions[j]
    BY DEF Typed, Shape, TypeOK, Exit
  <2>4. pc' \in [Instances -> Phases]
    BY DEF Typed, TypeOK, Exit, Phases
  <2>5. \A j \in Instances :
          /\ listening'[j] # Unset <=> IsServer(j)' /\ pc'[j] # "down"
          /\ applied'[j] \in 0..version' /\ (applied'[j] > 0 => listening'[j] # Unset)
          /\ \A n \in Names : serversVersions'[j][n] \in 0..version'
    BY <2>1, <2>2, <2>3 DEF Typed, TypeOK, IsServer, Given
  <2>6. \A r \in inFlight' : pc'[r.from] = "up" /\ listening'[Target(r.from, r.name)] # Unset
    <3> SUFFICES ASSUME NEW r \in inFlight' PROVE pc'[r.from] = "up" /\ listening'[Target(r.from, r.name)] # Unset
      OBVIOUS
    <3>1. r \in inFlight /\ r.from # i /\ Target(r.from, r.name) # i
      BY DEF Exit
    <3>2. r.from \in Instances /\ Target(r.from, r.name) \in Instances
      BY <3>1, TargetTyped DEF Typed, Shape, Requests
    <3> QED
      BY <2>3, <3>1, <3>2 DEF Typed, TypeOK
  <2> QED
    BY <2>1, <2>4, <2>5, <2>6 DEF Typed, TypeOK, Phases
<1> QED
  BY <1>3, <1>4 DEF Typed

\* A step of the start of i that leaves its server as it is, or starts it.
LEMMA StartTyped ==
  ASSUME Typed, NEW i \in Instances, NEW p \in Phases \ {"down"}, NEW l \in Endpoints,
         pc[i] # "up", l # Unset <=> IsServer(i),
         pc' = [pc EXCEPT ![i] = p], listening' = [listening EXCEPT ![i] = l],
         environ' \in [Instances -> Variables],
         dockerSockets' \in [Instances -> Seq(Texts)],
         dockerClients' \in [Instances -> Seq(Variables)],
         skipEvents' \in [Instances -> Nat], failures' \in Nat,
         UNCHANGED <<setting, applied, pushing, version, admin, crashes>>
  PROVE  Typed'
<1>1. Shape'
  BY DEF Typed, Shape, pushing
<1>2. /\ pc' \in [Instances -> Phases] /\ pc'[i] = p /\ listening'[i] = l
      /\ \A j \in Instances : j # i => pc'[j] = pc[j] /\ listening'[j] = listening[j]
  BY DEF Typed, Shape, TypeOK, Phases
<1>3. \A j \in Instances : listening[j] # Unset => listening'[j] # Unset
  BY <1>2 DEF Typed, TypeOK
<1>4. \A j \in Instances : listening'[j] # Unset <=> IsServer(j)' /\ pc'[j] # "down"
  BY <1>2 DEF Typed, TypeOK, IsServer, Given
<1>5. \A r \in inFlight' : pc'[r.from] = "up" /\ listening'[Target(r.from, r.name)] # Unset
  <2> SUFFICES ASSUME NEW r \in inFlight
               PROVE  pc'[r.from] = "up" /\ listening'[Target(r.from, r.name)] # Unset
    BY DEF pushing
  <2>1. r.from \in Instances /\ Target(r.from, r.name) \in Instances
    BY TargetTyped DEF Typed, Shape, Requests
  <2> QED
    BY <1>2, <1>3, <2>1 DEF Typed, TypeOK
<1>6. TypeOK'
  BY <1>2, <1>3, <1>4, <1>5 DEF Typed, TypeOK, pushing, Phases
<1> QED
  BY <1>1, <1>6 DEF Typed

LEMMA GiveUpTyped == ASSUME Typed, NEW i \in Instances, GiveUp(i) PROVE Typed'
<1>1. failures' \in Nat /\ crashes' \in Nat
  BY DEF Typed, TypeOK, GiveUp, Fail
<1> QED
  BY <1>1, ExitTyped DEF GiveUp

\* The loop makes a client from the variables.
LEMMA ConnectTyped == ASSUME Typed, NEW i \in Instances, Connect(i) PROVE Typed'
<1> DEFINE k == Len(dockerClients[i]) + 1
           e == [host |-> dockerSockets[i][k],
                 cert |-> Entry(GivenList(i, "certs"), k, environ[i].cert),
                 api |-> Entry(GivenList(i, "apis"), k, environ[i].api)]
<1>1. CASE GiveUp(i)
  BY <1>1, GiveUpTyped
<1>2. CASE /\ environ' = [environ EXCEPT ![i] = e]
           /\ dockerClients' = [dockerClients EXCEPT ![i] = Append(@, e)]
           /\ UNCHANGED <<pc, dockerSockets, skipEvents, listening>>
           /\ Keep
  <2>1. /\ dockerSockets[i] \in Seq(Texts) /\ k \in Nat \ {0}
        /\ dockerClients[i] \in Seq(Variables) /\ k <= Len(dockerSockets[i])
    BY DEF Typed, Shape, Connect
  <2>2. GivenList(i, "certs") \in Seq(Texts) /\ GivenList(i, "apis") \in Seq(Texts)
    BY GivenTyped DEF Typed, Shape
  <2> HIDE DEF k
  <2>3. e \in Variables
    <3>1. dockerSockets[i][k] \in Texts
      BY <2>1
    <3>2. /\ Entry(GivenList(i, "certs"), k, environ[i].cert) \in Texts
          /\ Entry(GivenList(i, "apis"), k, environ[i].api) \in Texts
      BY <2>1, <2>2, EntryTyped
    <3> QED
      BY <3>1, <3>2 DEF Variables
  <2> HIDE DEF e
  <2>4. Append(dockerClients[i], e) \in Seq(Variables)
    BY <2>1, <2>3, AppendProperties
  <2>5. /\ environ' \in [Instances -> Variables]
        /\ dockerClients' \in [Instances -> Seq(Variables)]
    BY <1>2, <2>3, <2>4 DEF Typed, Shape
  <2>6. pc' = [pc EXCEPT ![i] = "connect"] /\ listening' = [listening EXCEPT ![i] = listening[i]]
    BY <1>2 DEF Typed, Shape, TypeOK, Connect
  <2>7. listening[i] \in Endpoints /\ (listening[i] # Unset <=> IsServer(i)) /\ pc[i] = "connect"
    BY DEF Typed, Shape, TypeOK, Connect
  <2>8. "connect" \in Phases \ {"down"}
    BY DEF Phases
  <2>9. /\ dockerSockets' \in [Instances -> Seq(Texts)] /\ skipEvents' \in [Instances -> Nat]
        /\ failures' \in Nat /\ UNCHANGED <<setting, applied, pushing, version, admin, crashes>>
    BY <1>2 DEF Typed, Shape, TypeOK, Keep
  <2> QED
    BY <2>5, <2>6, <2>7, <2>8, <2>9, StartTyped
<1> QED
  BY <1>1, <1>2 DEF Connect

\* cmdFunc up to the controller.
LEMMA RunTyped == ASSUME Typed, NEW i \in Instances, Run(i) PROVE Typed'
<1>1. CASE GiveUp(i)
  BY <1>1, GiveUpTyped
<1>2. CASE Serve(i)
  <2> DEFINE p == IF IsController(i) THEN "envfile" ELSE "serving"
             l == IF IsServer(i) THEN GetAdminListen(i) ELSE Unset
             sockets == GivenList(i, "sockets")
  <2>1. setting[i] \in Settings[i] /\ pc[i] = "down"
    BY DEF Typed, Shape, Run
  <2>2. /\ setting[i].env.docker \in Variables /\ sockets \in Seq(Texts)
        /\ GetAdminListen(i) \in Endpoints \ {Unset}
    BY <2>1, GivenTyped, GetAdminListenTyped
  <2>3. p \in Phases \ {"down"} /\ pc[i] # "up"
    BY <2>1 DEF Phases
  <2>4. l \in Endpoints /\ (l # Unset <=> IsServer(i))
    <3>1. Blank \in Texts
      BY StartupAssumption
    <3> QED
      BY <2>2, <3>1 DEF Endpoints, Unset
  <2>5. environ' \in [Instances -> Variables]
    <3>1. environ' = [environ EXCEPT ![i] = setting[i].env.docker]
      BY <1>2 DEF Serve
    <3> QED
      BY <2>2, <3>1 DEF Typed, Shape
  <2> HIDE DEF sockets
  <2>6. dockerSockets' \in [Instances -> Seq(Texts)]
    BY <1>2, <2>2 DEF Typed, Shape, Serve, sockets
  <2>7. /\ dockerClients' \in [Instances -> Seq(Variables)] /\ skipEvents' \in [Instances -> Nat]
        /\ failures' \in Nat /\ UNCHANGED <<setting, applied, pushing, version, admin, crashes>>
        /\ pc' = [pc EXCEPT ![i] = p] /\ listening' = [listening EXCEPT ![i] = l]
    BY <1>2 DEF Typed, Shape, TypeOK, Serve, Keep
  <2> HIDE DEF p, l
  <2> QED
    BY <2>3, <2>4, <2>5, <2>6, <2>7, StartTyped
<1> QED
  BY <1>1, <1>2 DEF Run

LEMMA LoadEnvFileTyped == ASSUME Typed, NEW i \in Instances, LoadEnvFile(i) PROVE Typed'
<1> DEFINE file == Given(i, "envFile")
<1>1. CASE GiveUp(i)
  BY <1>1, GiveUpTyped
<1>2. CASE /\ pc' = [pc EXCEPT ![i] = "connect"]
           /\ environ' = [environ EXCEPT ![i] =
                IF file = Blank THEN @ ELSE WithFile(@, EnvFiles[file])]
           /\ UNCHANGED <<dockerSockets, dockerClients, skipEvents, listening>>
           /\ Keep
  <2>1. /\ pc[i] = "envfile" /\ environ[i] \in Variables
        /\ file # Blank => EnvFiles[file] \in Variables
    BY GivenTyped DEF Typed, Shape, LoadEnvFile
  <2> HIDE DEF file
  <2>2. environ' \in [Instances -> Variables]
    <3> DEFINE e == IF file = Blank THEN environ[i] ELSE WithFile(environ[i], EnvFiles[file])
    <3>1. e \in Variables
      BY <2>1 DEF Variables, WithFile
    <3>2. environ' = [environ EXCEPT ![i] = e]
      BY <1>2
    <3> HIDE DEF e
    <3> QED
      BY <3>1, <3>2 DEF Typed, Shape
  <2>3. /\ listening' = [listening EXCEPT ![i] = listening[i]]
        /\ listening[i] \in Endpoints /\ (listening[i] # Unset <=> IsServer(i))
    BY <1>2, <2>1 DEF Typed, Shape, TypeOK
  <2>4. "connect" \in Phases \ {"down"}
    BY DEF Phases
  <2>5. /\ dockerSockets' \in [Instances -> Seq(Texts)]
        /\ dockerClients' \in [Instances -> Seq(Variables)] /\ skipEvents' \in [Instances -> Nat]
        /\ failures' \in Nat /\ UNCHANGED <<setting, applied, pushing, version, admin, crashes>>
    BY <1>2 DEF Typed, Shape, TypeOK, Keep
  <2> QED
    BY <1>2, <2>1, <2>2, <2>3, <2>4, <2>5, StartTyped
<1> QED
  BY <1>1, <1>2 DEF LoadEnvFile

LEMMA ConnectDefaultTyped == ASSUME Typed, NEW i \in Instances, ConnectDefault(i) PROVE Typed'
<1>1. CASE GiveUp(i)
  BY <1>1, GiveUpTyped
<1>2. CASE /\ dockerClients' = [dockerClients EXCEPT ![i] = <<environ[i]>>]
           /\ dockerSockets' = [dockerSockets EXCEPT ![i] = <<environ[i].host>>]
           /\ UNCHANGED <<pc, environ, skipEvents, listening>>
           /\ Keep
  <2>1. pc[i] = "connect" /\ environ[i] \in Variables /\ environ[i].host \in Texts
    BY DEF Typed, Shape, ConnectDefault, Variables
  <2>2. <<environ[i]>> \in Seq(Variables) /\ <<environ[i].host>> \in Seq(Texts)
    BY <2>1
  <2>3. /\ dockerClients' \in [Instances -> Seq(Variables)]
        /\ dockerSockets' \in [Instances -> Seq(Texts)]
    BY <1>2, <2>2 DEF Typed, Shape
  <2>4. pc' = [pc EXCEPT ![i] = "connect"] /\ listening' = [listening EXCEPT ![i] = listening[i]]
    BY <1>2, <2>1 DEF Typed, Shape, TypeOK
  <2>5. listening[i] \in Endpoints /\ (listening[i] # Unset <=> IsServer(i))
    BY <2>1 DEF Typed, Shape, TypeOK
  <2>6. "connect" \in Phases \ {"down"}
    BY DEF Phases
  <2>7. /\ environ' \in [Instances -> Variables] /\ skipEvents' \in [Instances -> Nat]
        /\ failures' \in Nat /\ UNCHANGED <<setting, applied, pushing, version, admin, crashes>>
    BY <1>2 DEF Typed, Shape, TypeOK, Keep
  <2> QED
    BY <2>1, <2>3, <2>4, <2>5, <2>6, <2>7, StartTyped
<1> QED
  BY <1>1, <1>2 DEF ConnectDefault

\* What the discovery of remote hosts adds: a client for each URL, at its host.
LEMMA Discovered ==
  ASSUME NEW i \in Instances, NEW urls \in ParseRemoteHosts(RemoteLabels[i])
  PROVE  LET made == Within(urls, Usable)
             clients == [k \in DOMAIN made |-> RemoteClient(made[k])]
         IN  /\ made \in Seq(Texts) /\ clients \in Seq(Variables)
             /\ Len(clients) = Len(made)
             /\ \A k \in 1..Len(made) : clients[k].host = made[k]
<1> DEFINE made == Within(urls, Usable)
           clients == [k \in DOMAIN made |-> RemoteClient(made[k])]
<1>1. made \in Seq(Texts)
  BY RemotesTyped, WithinSeq
<1> HIDE DEF made
<1>2. DOMAIN made = 1..Len(made) /\ Len(made) \in Nat /\ \A k \in 1..Len(made) : made[k] \in Texts
  BY <1>1
<1>3. Blank \in Texts
  BY StartupAssumption
<1>4. \A k \in 1..Len(made) : RemoteClient(made[k]) \in Variables /\ RemoteClient(made[k]).host = made[k]
  BY <1>2, <1>3 DEF RemoteClient, Variables
<1>5. clients = [k \in 1..Len(made) |-> RemoteClient(made[k])]
  BY <1>2
<1>6. clients \in [1..Len(made) -> Variables]
  BY <1>4, <1>5
<1>7. clients \in Seq(Variables) /\ Len(clients) = Len(made)
  BY <1>2, <1>6
<1> QED
  BY <1>1, <1>4, <1>5, <1>7 DEF made

\* What Discover does, failing or not: clients are added, each with its host.
LEMMA DiscoverAdds ==
  ASSUME Typed, NEW i \in Instances, Discover(i)
  PROVE  \E made \in Seq(Texts), clients \in Seq(Variables) :
           /\ Len(clients) = Len(made)
           /\ \A k \in 1..Len(made) : clients[k].host = made[k]
           /\ dockerClients' = [dockerClients EXCEPT ![i] = dockerClients[i] \o clients]
           /\ dockerSockets' = [dockerSockets EXCEPT ![i] = dockerSockets[i] \o made]
<1>1. dockerClients[i] \in Seq(Variables) /\ dockerSockets[i] \in Seq(Texts)
  BY DEF Typed, Shape
<1>2. CASE UNCHANGED <<dockerClients, dockerSockets>>
  <2>1. dockerClients[i] \o <<>> = dockerClients[i] /\ dockerSockets[i] \o <<>> = dockerSockets[i]
    BY <1>1, ConcatEmptySeq
  <2>2. <<>> \in Seq(Variables) /\ <<>> \in Seq(Texts) /\ Len(<<>>) = 0
    BY EmptySeq
  <2>3. /\ dockerClients' = [dockerClients EXCEPT ![i] = dockerClients[i] \o <<>>]
        /\ dockerSockets' = [dockerSockets EXCEPT ![i] = dockerSockets[i] \o <<>>]
    BY <1>2, <2>1 DEF Typed, Shape
  <2>4. \A k \in 1..0 : FALSE
    OBVIOUS
  <2> QED
    BY <2>2, <2>3, <2>4
<1>3. CASE \E urls \in ParseRemoteHosts(RemoteLabels[i]) :
             LET made == Within(urls, Usable) IN
             /\ dockerClients' = [dockerClients EXCEPT ![i] =
                  @ \o [k \in DOMAIN made |-> RemoteClient(made[k])]]
             /\ dockerSockets' = [dockerSockets EXCEPT ![i] = @ \o made]
  <2>1. PICK urls \in ParseRemoteHosts(RemoteLabels[i]) :
             LET made == Within(urls, Usable) IN
             /\ dockerClients' = [dockerClients EXCEPT ![i] =
                  @ \o [k \in DOMAIN made |-> RemoteClient(made[k])]]
             /\ dockerSockets' = [dockerSockets EXCEPT ![i] = @ \o made]
    BY <1>3
  <2> DEFINE made == Within(urls, Usable)
             clients == [k \in DOMAIN made |-> RemoteClient(made[k])]
  <2>2. /\ made \in Seq(Texts) /\ clients \in Seq(Variables)
        /\ Len(clients) = Len(made)
        /\ \A k \in 1..Len(made) : clients[k].host = made[k]
    BY Discovered
  <2>3. /\ dockerClients' = [dockerClients EXCEPT ![i] = dockerClients[i] \o clients]
        /\ dockerSockets' = [dockerSockets EXCEPT ![i] = dockerSockets[i] \o made]
    BY <2>1
  <2> HIDE DEF made, clients
  <2> QED
    BY <2>2, <2>3
<1> QED
  BY <1>2, <1>3 DEF Discover

LEMMA DiscoverTyped == ASSUME Typed, NEW i \in Instances, Discover(i) PROVE Typed'
<1>1. PICK made \in Seq(Texts), clients \in Seq(Variables) :
           /\ dockerClients' = [dockerClients EXCEPT ![i] = dockerClients[i] \o clients]
           /\ dockerSockets' = [dockerSockets EXCEPT ![i] = dockerSockets[i] \o made]
  BY DiscoverAdds
<1>2. dockerClients[i] \o clients \in Seq(Variables) /\ dockerSockets[i] \o made \in Seq(Texts)
  BY ConcatProperties DEF Typed, Shape
<1>3. /\ dockerClients' \in [Instances -> Seq(Variables)]
      /\ dockerSockets' \in [Instances -> Seq(Texts)]
  BY <1>1, <1>2 DEF Typed, Shape
<1>4. skipEvents' \in [Instances -> Nat]
  <2>1. dockerClients'[i] \in Seq(Variables)
    BY <1>3
  <2> QED
    BY <2>1, LenProperties DEF Typed, Shape, Discover, ListenedTo
<1>5. pc[i] = "connect" /\ pc' = [pc EXCEPT ![i] = "up"] /\ "up" \in Phases \ {"down"}
  BY DEF Discover, Phases
<1>6. /\ listening' = [listening EXCEPT ![i] = listening[i]]
      /\ listening[i] \in Endpoints /\ (listening[i] # Unset <=> IsServer(i))
  BY <1>5 DEF Typed, Shape, TypeOK, Discover
<1>7. /\ environ' \in [Instances -> Variables] /\ failures' \in Nat
      /\ UNCHANGED <<setting, applied, pushing, version, admin, crashes>>
  BY DEF Typed, Shape, TypeOK, Discover, Fail
<1> QED
  BY <1>3, <1>4, <1>5, <1>6, <1>7, StartTyped

\* A step that leaves the processes alone.
LEMMA PushTyped ==
  ASSUME Typed, UNCHANGED <<setting, pc, starting, failures, crashes>>,
         version' \in Nat, version' >= version, admin' \in Admins,
         listening' \in [Instances -> Endpoints], applied' \in [Instances -> Nat],
         serversVersions' \in [Instances -> [Names -> Nat]],
         \A i \in Instances :
           /\ listening'[i] # Unset <=> listening[i] # Unset
           /\ applied'[i] = applied[i] \/ (applied'[i] \in 0..version /\ listening[i] # Unset)
           /\ \A n \in Names : serversVersions'[i][n] \in {serversVersions[i][n]} \cup 0..version,
         inFlight' \subseteq Requests,
         \A r \in inFlight' : /\ r.version \in 1..version' /\ r.listen # Unset
                              /\ pc[r.from] = "up"
                              /\ listening[Target(r.from, r.name)] # Unset
  PROVE  Typed'
<1>1. Shape'
  BY DEF Typed, Shape, starting
<1>2. \A i \in Instances :
        /\ listening'[i] # Unset <=> IsServer(i)' /\ pc'[i] # "down"
        /\ applied'[i] \in 0..version' /\ (applied'[i] > 0 => listening'[i] # Unset)
  BY DEF Typed, TypeOK, IsServer, Given
<1>3. \A i \in Instances : \A n \in Names : serversVersions'[i][n] \in 0..version'
  <2> SUFFICES ASSUME NEW i \in Instances, NEW n \in Names
               PROVE  serversVersions'[i][n] \in 0..version'
    OBVIOUS
  <2>1. serversVersions[i][n] \in 0..version /\ version \in Nat
    BY DEF Typed, TypeOK
  <2> QED
    BY <2>1
<1>4. \A r \in inFlight' : pc'[r.from] = "up" /\ listening'[Target(r.from, r.name)] # Unset
  <2> SUFFICES ASSUME NEW r \in inFlight'
               PROVE  pc'[r.from] = "up" /\ listening'[Target(r.from, r.name)] # Unset
    OBVIOUS
  <2>1. Target(r.from, r.name) \in Instances
    BY TargetTyped DEF Requests
  <2> QED
    BY <2>1
<1>5. TypeOK'
  BY <1>2, <1>3, <1>4 DEF Typed, TypeOK
<1> QED
  BY <1>1, <1>5 DEF Typed

LEMMA ChangeTyped == ASSUME Typed, NEW a \in Admins, Change(a) PROVE Typed'
<1>1. /\ UNCHANGED <<setting, pc, starting, failures, crashes>>
      /\ UNCHANGED <<listening, applied, serversVersions, inFlight>>
      /\ version' \in Nat /\ version' = version + 1 /\ admin' \in Admins
  BY DEF Typed, TypeOK, Change, pushing
<1>2. \A r \in inFlight : /\ r.version \in 1..version' /\ r.listen # Unset
                          /\ pc[r.from] = "up" /\ listening[Target(r.from, r.name)] # Unset
  BY <1>1 DEF Typed, Shape, TypeOK
<1>3. inFlight \subseteq Requests /\ version' >= version
  BY <1>1 DEF Typed, Shape, TypeOK
<1>4. /\ listening' \in [Instances -> Endpoints] /\ applied' \in [Instances -> Nat]
      /\ serversVersions' \in [Instances -> [Names -> Nat]]
  BY <1>1 DEF Typed, Shape
<1> QED
  BY <1>1, <1>2, <1>3, <1>4, PushTyped

\* Where the Caddyfile of a push makes its server listen.
LEMMA AddAdminListenTyped ==
  ASSUME NEW c \in Instances, setting[c] \in Settings[c], admin \in Admins, NEW n \in Names
  PROVE  AddAdminListen(admin, GetServerAdminListen(c, n)) \in Endpoints
<1>1. n \in Texts
  <2>1. CASE n = "localhost"
    BY <2>1, StartupAssumption
  <2>2. CASE n # "localhost"
    <3>1. PICK i \in Instances : n \in ToSet(Interfaces[i])
      BY <2>2 DEF Names
    <3>2. Interfaces[i] \in Seq(Texts)
      BY StartupAssumption
    <3> QED
      BY <3>1, <3>2 DEF ToSet
  <2> QED
    BY <2>1, <2>2
<1>2. "tcp" \in Texts /\ admin \in Endpoints
  BY StartupAssumption DEF Endpoints
<1>3. AdminListen(c) \in Endpoints
  BY GivenTyped
<1> QED
  BY <1>1, <1>2, <1>3 DEF AddAdminListen, GetServerAdminListen, Endpoints

\* No request tells a server to listen nowhere.
LEMMA AddAdminListenSet ==
  ASSUME NEW c \in Instances, NEW n \in Names
  PROVE  AddAdminListen(admin, GetServerAdminListen(c, n)) # Unset
BY DEF AddAdminListen, GetServerAdminListen, Unset, Blank

LEMMA SendTyped == ASSUME Typed, NEW c \in Instances, NEW n \in Names, Send(c, n) PROVE Typed'
<1> DEFINE listen == AddAdminListen(admin, GetServerAdminListen(c, n))
           r0 == [from |-> c, name |-> n, version |-> version, listen |-> listen]
<1>1. /\ UNCHANGED <<setting, pc, starting, failures, crashes>>
      /\ UNCHANGED <<listening, applied, serversVersions, version, admin>>
      /\ pc[c] = "up" /\ serversVersions[c][n] < version /\ Reaches(c, n)
      /\ inFlight' = inFlight \cup {r0}
  BY DEF Send
<1>2. listen \in Endpoints \ {Unset}
  BY AddAdminListenTyped, AddAdminListenSet DEF Typed, Shape, TypeOK
<1>3. version \in Nat /\ serversVersions[c][n] \in 0..version
  BY DEF Typed, TypeOK
<1>4. listening[Target(c, n)] # Unset
  <2>1. \A a : <<"tcp", a>> # Unset
    BY DEF Unset, Blank
  <2> QED
    BY <1>1, <2>1 DEF Reaches, Wildcard
<1> HIDE DEF listen
<1>5. r0 \in Requests /\ r0.version \in 1..version /\ r0.listen # Unset
  BY <1>1, <1>2, <1>3 DEF Requests
<1>6. r0.from = c /\ r0.name = n
  OBVIOUS
<1> HIDE DEF r0
<1>7. \A r \in inFlight' : /\ r.version \in 1..version' /\ r.listen # Unset
                           /\ pc[r.from] = "up" /\ listening[Target(r.from, r.name)] # Unset
  BY <1>1, <1>4, <1>5, <1>6 DEF Typed, Shape, TypeOK
<1>8. inFlight' \subseteq Requests /\ version' \in Nat /\ version' >= version /\ admin' \in Admins
  BY <1>1, <1>5 DEF Typed, Shape, TypeOK
<1>9. /\ listening' \in [Instances -> Endpoints] /\ applied' \in [Instances -> Nat]
      /\ serversVersions' \in [Instances -> [Names -> Nat]]
  BY <1>1 DEF Typed, Shape
<1> QED
  BY <1>1, <1>7, <1>8, <1>9, PushTyped

LEMMA LoadTyped == ASSUME Typed, NEW c \in Instances, NEW n \in Names, Load(c, n) PROVE Typed'
<1> DEFINE t == Target(c, n)
<1>1. PICK r \in inFlight :
        /\ <<r.from, r.name>> = <<c, n>>
        /\ inFlight' = inFlight \ {r}
        /\ listening' = [listening EXCEPT ![t] = r.listen]
        /\ applied' = [applied EXCEPT ![t] = r.version]
        /\ serversVersions' = [serversVersions EXCEPT ![c][n] = r.version]
        /\ UNCHANGED <<setting, pc, starting, version, admin, failures, crashes>>
  BY DEF Load
<1>2. /\ t \in Instances /\ listening[t] # Unset
      /\ r.version \in 1..version /\ r.listen \in Endpoints \ {Unset} /\ version \in Nat
  BY <1>1, TargetTyped DEF Typed, Shape, TypeOK, Requests
<1> HIDE DEF t
<1>3. /\ listening' \in [Instances -> Endpoints] /\ applied' \in [Instances -> Nat]
  BY <1>1, <1>2 DEF Typed, Shape
<1>4. \A i \in Instances :
        /\ listening'[i] # Unset <=> listening[i] # Unset
        /\ applied'[i] = applied[i] \/ (applied'[i] \in 0..version /\ listening[i] # Unset)
  BY <1>1, <1>2 DEF Typed, Shape
<1>5. serversVersions' \in [Instances -> [Names -> Nat]]
  <2>1. [serversVersions[c] EXCEPT ![n] = r.version] \in [Names -> Nat]
    BY <1>2 DEF Typed, Shape
  <2>2. serversVersions' = [serversVersions EXCEPT ![c] = [serversVersions[c] EXCEPT ![n] = r.version]]
    BY <1>1 DEF Typed, Shape
  <2> QED
    BY <2>1, <2>2 DEF Typed, Shape
<1>6. \A i \in Instances : \A k \in Names :
        serversVersions'[i][k] \in {serversVersions[i][k]} \cup 0..version
  BY <1>1, <1>2 DEF Typed, Shape
<1>7. /\ inFlight' \subseteq Requests
      /\ \A q \in inFlight' : /\ q.version \in 1..version' /\ q.listen # Unset
                              /\ pc[q.from] = "up" /\ listening[Target(q.from, q.name)] # Unset
  BY <1>1 DEF Typed, Shape, TypeOK
<1>8. version' \in Nat /\ version' >= version /\ admin' \in Admins
  BY <1>1 DEF Typed, TypeOK
<1> QED
  BY <1>1, <1>3, <1>4, <1>5, <1>6, <1>7, <1>8, PushTyped

LEMMA TypedStep == Typed /\ [Next]_vars => Typed'
<1> SUFFICES ASSUME Typed, [Next]_vars PROVE Typed'
  OBVIOUS
<1>1. CASE UNCHANGED vars
  <2>1. UNCHANGED <<setting, pc, environ, dockerSockets, dockerClients, skipEvents, listening,
                    applied, serversVersions, inFlight, version, admin, failures, crashes>>
    BY <1>1 DEF vars, starting, pushing
  <2> QED
    BY <2>1 DEF Typed, Shape, TypeOK, IsServer, Given, Target
<1>2. ASSUME NEW a \in Admins, Change(a) PROVE Typed'
  BY <1>2, ChangeTyped
<1>3. ASSUME NEW i \in Instances, StartStep(i) PROVE Typed'
  BY <1>3, RunTyped, LoadEnvFileTyped, ConnectTyped, ConnectDefaultTyped, DiscoverTyped
     DEF StartStep
<1>4. ASSUME NEW i \in Instances, Crash(i) PROVE Typed'
  <2>1. failures' \in Nat /\ crashes' \in Nat
    BY <1>4 DEF Typed, TypeOK, Crash
  <2> QED
    BY <1>4, <2>1, ExitTyped DEF Crash
<1>5. ASSUME NEW c \in Instances, NEW n \in Names, Send(c, n) \/ Load(c, n) PROVE Typed'
  BY <1>5, SendTyped, LoadTyped
<1> QED
  BY <1>1, <1>2, <1>3, <1>4, <1>5 DEF Next

\* Whatever fails or crashes, an admin API, an applied Caddyfile and a request
\* live and die with their process (cmd.go:61-89), and no push stops the admin API.
THEOREM StartupTypes == Spec => [](Shape /\ TypeOK)
<1>1. Init => Typed
  BY TypedInit
<1>2. Typed /\ [Next]_vars => Typed'
  BY TypedStep
<1>3. Typed <=> Shape /\ TypeOK
  BY DEF Typed
<1> QED
  BY <1>1, <1>2, <1>3, PTL DEF Spec

----------------------------------------------------------------------------
(* Clients.  While they are made, the k-th client is that of the k-th socket; *)
(* the discovery, which adds remote ones to both, begins when there are as    *)
(* many clients as sockets, that is, beyond the options.                      *)

\* The progress of the start of i.
Made(i) ==
  /\ pc[i] \in {"down", "envfile", "serving"} => dockerClients[i] = <<>>
  /\ pc[i] \in {"envfile", "connect"}
       /\ (dockerClients[i] = <<>> \/ GivenList(i, "sockets") # <<>>)
       => dockerSockets[i] = GivenList(i, "sockets")
  /\ Len(dockerClients[i]) <= Len(dockerSockets[i])
  /\ \A k \in 1..Len(dockerClients[i]) : dockerSockets[i][k] = dockerClients[i][k].host
  /\ pc[i] = "up" => /\ Len(dockerSockets[i]) = Len(dockerClients[i])
                     /\ skipEvents[i] = Len(dockerClients[i])

\* ClientsMatchOptions for the clients of i.
Match(i) ==
  \A k \in 1..Len(dockerClients[i]) :
    k <= Len(GivenList(i, "sockets")) =>
      dockerClients[i][k] = [host |-> GivenList(i, "sockets")[k],
                             cert |-> Entry(GivenList(i, "certs"), k, Blank),
                             api |-> Entry(GivenList(i, "apis"), k, Blank)]

ClientsMade == \A i \in Instances : Made(i) /\ Match(i)

\* An instance that a step leaves alone.
LEMMA MadeFrame ==
  ASSUME NEW j \in Instances, Made(j), Match(j), UNCHANGED setting,
         pc'[j] = pc[j], dockerClients'[j] = dockerClients[j],
         dockerSockets'[j] = dockerSockets[j], skipEvents'[j] = skipEvents[j]
  PROVE  Made(j)' /\ Match(j)'
<1>1. \A o : GivenList(j, o)' = GivenList(j, o)
  BY DEF GivenList
<1> QED
  BY <1>1 DEF Made, Match, Entry

\* An instance without a client.
LEMMA MadeNone ==
  ASSUME NEW i \in Instances, dockerClients'[i] = <<>>, dockerSockets'[i] \in Seq(Texts),
         pc'[i] # "up",
         pc'[i] \in {"envfile", "connect"} => dockerSockets'[i] = GivenList(i, "sockets")'
  PROVE  Made(i)' /\ Match(i)'
<1>1. Len(dockerClients'[i]) = 0 /\ Len(dockerSockets'[i]) >= 0
  BY EmptySeq, LenProperties
<1> QED
  BY <1>1 DEF Made, Match

\* In the state after a step, the options are those before it.
LEMMA SameOptions ==
  ASSUME UNCHANGED setting, NEW i \in Instances PROVE \A o : GivenList(i, o)' = GivenList(i, o)
BY DEF GivenList

LEMMA ExitMade ==
  ASSUME Typed, ClientsMade, NEW i \in Instances, Exit(i) PROVE ClientsMade'
<1> SUFFICES ASSUME NEW j \in Instances PROVE Made(j)' /\ Match(j)'
  BY DEF ClientsMade
<1>1. CASE j = i
  <2>1. dockerClients'[i] = <<>> /\ dockerSockets'[i] = <<>> /\ pc'[i] = "down"
    BY DEF Typed, Shape, TypeOK, Exit, Stopped
  <2>2. dockerSockets'[i] \in Seq(Texts)
    BY <2>1, EmptySeq
  <2> QED
    BY <1>1, <2>1, <2>2, MadeNone
<1>2. CASE j # i
  <2>1. /\ pc'[j] = pc[j] /\ dockerClients'[j] = dockerClients[j] /\ UNCHANGED setting
        /\ dockerSockets'[j] = dockerSockets[j] /\ skipEvents'[j] = skipEvents[j]
    BY <1>2 DEF Typed, Shape, TypeOK, Exit, Stopped
  <2> QED
    BY <2>1, MadeFrame DEF ClientsMade
<1> QED
  BY <1>1, <1>2

LEMMA ServeMade ==
  ASSUME Typed, ClientsMade, NEW i \in Instances, pc[i] = "down", Serve(i) PROVE ClientsMade'
<1> SUFFICES ASSUME NEW j \in Instances PROVE Made(j)' /\ Match(j)'
  BY DEF ClientsMade
<1>1. UNCHANGED setting
  BY DEF Serve, Keep
<1>2. CASE j = i
  <2>1. dockerSockets'[i] = GivenList(i, "sockets") /\ pc'[i] \in {"envfile", "serving"}
    BY DEF Typed, Shape, TypeOK, Serve
  <2>2. dockerClients'[i] = <<>>
    BY DEF ClientsMade, Made, Serve
  <2>3. GivenList(i, "sockets") \in Seq(Texts)
    BY GivenTyped DEF Typed, Shape
  <2> QED
    BY <1>1, <1>2, <2>1, <2>2, <2>3, SameOptions, MadeNone
<1>3. CASE j # i
  <2>1. /\ pc'[j] = pc[j] /\ dockerClients'[j] = dockerClients[j]
        /\ dockerSockets'[j] = dockerSockets[j] /\ skipEvents'[j] = skipEvents[j]
    BY <1>3 DEF Typed, Shape, TypeOK, Serve
  <2> QED
    BY <1>1, <2>1, MadeFrame DEF ClientsMade
<1> QED
  BY <1>2, <1>3

LEMMA LoadEnvFileMade ==
  ASSUME Typed, ClientsMade, NEW i \in Instances, LoadEnvFile(i) PROVE ClientsMade'
<1>1. CASE GiveUp(i)
  BY <1>1, ExitMade DEF GiveUp
<1>2. CASE /\ pc' = [pc EXCEPT ![i] = "connect"]
           /\ UNCHANGED <<dockerSockets, dockerClients, skipEvents, listening>>
           /\ Keep
  <2> SUFFICES ASSUME NEW j \in Instances PROVE Made(j)' /\ Match(j)'
    BY DEF ClientsMade
  <2>1. UNCHANGED setting
    BY <1>2 DEF Keep
  <2>2. CASE j = i
    <3>1. /\ pc[i] = "envfile" /\ dockerClients[i] = <<>>
          /\ dockerSockets[i] = GivenList(i, "sockets")
      BY DEF ClientsMade, Made, LoadEnvFile
    <3>2. pc'[i] = "connect" /\ dockerSockets'[i] \in Seq(Texts)
      BY <1>2 DEF Typed, Shape, TypeOK
    <3> QED
      BY <1>2, <2>1, <2>2, <3>1, <3>2, SameOptions, MadeNone
  <2>3. CASE j # i
    <3>1. pc'[j] = pc[j]
      BY <1>2, <2>3 DEF Typed, TypeOK
    <3> QED
      BY <1>2, <2>1, <3>1, MadeFrame DEF ClientsMade
  <2> QED
    BY <2>2, <2>3
<1> QED
  BY <1>1, <1>2 DEF LoadEnvFile

\* The loop makes the client of the next socket.
LEMMA ConnectMade ==
  ASSUME Typed, ClientsMade, NEW i \in Instances, Connect(i) PROVE ClientsMade'
<1> DEFINE k == Len(dockerClients[i]) + 1
           e == [host |-> dockerSockets[i][k],
                 cert |-> Entry(GivenList(i, "certs"), k, environ[i].cert),
                 api |-> Entry(GivenList(i, "apis"), k, environ[i].api)]
<1>1. CASE GiveUp(i)
  BY <1>1, ExitMade DEF GiveUp
<1>2. CASE /\ dockerClients' = [dockerClients EXCEPT ![i] = Append(@, e)]
           /\ UNCHANGED <<pc, dockerSockets, skipEvents, listening>>
           /\ Keep
  <2> SUFFICES ASSUME NEW j \in Instances PROVE Made(j)' /\ Match(j)'
    BY DEF ClientsMade
  <2>1. UNCHANGED setting /\ UNCHANGED pc
    BY <1>2 DEF Keep
  <2>2. CASE j = i
    <3>1. /\ dockerClients[i] \in Seq(Variables) /\ dockerSockets[i] \in Seq(Texts)
          /\ k <= Len(dockerSockets[i]) /\ pc[i] = "connect"
      BY DEF Typed, Shape, Connect
    <3>2. dockerClients'[i] = Append(dockerClients[i], e)
      BY <1>2 DEF Typed, Shape
    <3>3. /\ e.host = dockerSockets[i][k]
          /\ e = [host |-> dockerSockets[i][k],
                  cert |-> Entry(GivenList(i, "certs"), k, Blank),
                  api |-> Entry(GivenList(i, "apis"), k, Blank)]
      BY DEF Entry
    <3> HIDE DEF e
    <3>4. e \in Variables \cup {e} /\ dockerClients[i] \in Seq(Variables \cup {e})
      BY <3>1
    <3>5. /\ dockerClients'[i] \in Seq(Variables \cup {e})
          /\ Len(dockerClients'[i]) = k
          /\ \A n \in 1..Len(dockerClients[i]) : dockerClients'[i][n] = dockerClients[i][n]
          /\ dockerClients'[i][k] = e
      BY <3>2, <3>4, AppendProperties
    <3>6. Len(dockerClients[i]) \in Nat /\ k = Len(dockerClients[i]) + 1
      BY <3>1, LenProperties
    <3> HIDE DEF k
    <3>7. \A n \in 1..Len(dockerClients'[i]) : n = k \/ n \in 1..Len(dockerClients[i])
      BY <3>5, <3>6
    <3>8. dockerClients'[i] # <<>>
      BY <3>5, <3>6, EmptySeq
    <3>9. GivenList(i, "sockets") # <<>> => dockerSockets[i] = GivenList(i, "sockets")
      BY <3>1 DEF ClientsMade, Made
    <3>10. k <= Len(GivenList(i, "sockets")) => GivenList(i, "sockets") # <<>>
      BY <3>6, EmptySeq
    <3>11. UNCHANGED dockerSockets /\ \A o : GivenList(i, o)' = GivenList(i, o)
      BY <1>2, <2>1, SameOptions
    <3>12. Made(i)'
      <4>1. \A n \in 1..Len(dockerClients'[i]) : dockerSockets'[i][n] = dockerClients'[i][n].host
        BY <3>3, <3>5, <3>7, <3>11 DEF ClientsMade, Made
      <4> QED
        BY <2>1, <3>1, <3>5, <3>8, <3>9, <3>11, <4>1 DEF Made
    <3>13. Match(i)'
      <4> SUFFICES ASSUME NEW n \in 1..Len(dockerClients'[i]), n <= Len(GivenList(i, "sockets"))
                   PROVE  dockerClients'[i][n] = [host |-> GivenList(i, "sockets")[n],
                                                  cert |-> Entry(GivenList(i, "certs"), n, Blank),
                                                  api |-> Entry(GivenList(i, "apis"), n, Blank)]
        BY <3>11 DEF Match, Entry
      <4>1. CASE n = k
        BY <3>3, <3>5, <3>9, <3>10, <4>1
      <4>2. CASE n \in 1..Len(dockerClients[i])
        BY <3>5, <4>2 DEF ClientsMade, Match
      <4> QED
        BY <3>7, <4>1, <4>2
    <3> QED
      BY <2>2, <3>12, <3>13
  <2>3. CASE j # i
    <3>1. dockerClients'[j] = dockerClients[j]
      BY <1>2, <2>3 DEF Typed, Shape
    <3> QED
      BY <1>2, <2>1, <3>1, MadeFrame DEF ClientsMade
  <2> QED
    BY <2>2, <2>3
<1> QED
  BY <1>1, <1>2 DEF Connect

LEMMA ConnectDefaultMade ==
  ASSUME Typed, ClientsMade, NEW i \in Instances, ConnectDefault(i) PROVE ClientsMade'
<1>1. CASE GiveUp(i)
  BY <1>1, ExitMade DEF GiveUp
<1>2. CASE /\ dockerClients' = [dockerClients EXCEPT ![i] = <<environ[i]>>]
           /\ dockerSockets' = [dockerSockets EXCEPT ![i] = <<environ[i].host>>]
           /\ UNCHANGED <<pc, environ, skipEvents, listening>>
           /\ Keep
  <2> SUFFICES ASSUME NEW j \in Instances PROVE Made(j)' /\ Match(j)'
    BY DEF ClientsMade
  <2>1. UNCHANGED setting /\ UNCHANGED pc
    BY <1>2 DEF Keep
  <2>2. CASE j = i
    <3>1. pc[i] = "connect" /\ dockerSockets[i] = <<>>
      BY DEF ConnectDefault
    <3>2. dockerClients[i] = <<>>
      <4>1. Len(dockerClients[i]) <= Len(dockerSockets[i]) /\ dockerClients[i] \in Seq(Variables)
        BY DEF Typed, Shape, ClientsMade, Made
      <4>2. Len(dockerSockets[i]) = 0
        BY <3>1, EmptySeq
      <4> QED
        BY <4>1, <4>2, LenProperties, EmptySeq
    <3>3. GivenList(i, "sockets") = <<>>
      BY <3>1, <3>2 DEF ClientsMade, Made
    <3>4. Len(GivenList(i, "sockets")) = 0
      BY <3>3, EmptySeq
    <3>5. dockerClients'[i] = <<environ[i]>> /\ dockerSockets'[i] = <<environ[i].host>>
      BY <1>2 DEF Typed, Shape
    <3>6. /\ Len(dockerClients'[i]) = 1 /\ Len(dockerSockets'[i]) = 1
          /\ dockerSockets'[i][1] = dockerClients'[i][1].host /\ dockerClients'[i] # <<>>
      BY <3>5
    <3>7. \A o : GivenList(i, o)' = GivenList(i, o)
      BY <2>1, SameOptions
    <3>8. Made(i)'
      BY <2>1, <3>1, <3>3, <3>6, <3>7 DEF Made
    <3>9. Match(i)'
      BY <3>4, <3>6, <3>7 DEF Match
    <3> QED
      BY <2>2, <3>8, <3>9
  <2>3. CASE j # i
    <3>1. dockerClients'[j] = dockerClients[j] /\ dockerSockets'[j] = dockerSockets[j]
      BY <1>2, <2>3 DEF Typed, Shape
    <3> QED
      BY <1>2, <2>1, <3>1, MadeFrame DEF ClientsMade
  <2> QED
    BY <2>2, <2>3
<1> QED
  BY <1>1, <1>2 DEF ConnectDefault

\* The discovery adds clients, and their hosts, after those of the options.
LEMMA DiscoverMade ==
  ASSUME Typed, ClientsMade, NEW i \in Instances, Discover(i) PROVE ClientsMade'
<1> SUFFICES ASSUME NEW j \in Instances PROVE Made(j)' /\ Match(j)'
  BY DEF ClientsMade
<1>1. UNCHANGED setting
  BY DEF Discover
<1>2. PICK made \in Seq(Texts), clients \in Seq(Variables) :
        /\ Len(clients) = Len(made)
        /\ \A k \in 1..Len(made) : clients[k].host = made[k]
        /\ dockerClients' = [dockerClients EXCEPT ![i] = dockerClients[i] \o clients]
        /\ dockerSockets' = [dockerSockets EXCEPT ![i] = dockerSockets[i] \o made]
  BY DiscoverAdds
<1>3. CASE j = i
  <2> DEFINE n == Len(dockerClients[i])
  <2>1. /\ dockerClients[i] \in Seq(Variables) /\ dockerSockets[i] \in Seq(Texts)
        /\ dockerClients[i] # <<>> /\ n = Len(dockerSockets[i]) /\ pc[i] = "connect"
    BY DEF Typed, Shape, Discover
  <2>2. dockerClients'[i] = dockerClients[i] \o clients /\ dockerSockets'[i] = dockerSockets[i] \o made
    BY <1>2 DEF Typed, Shape
  <2>3. n \in Nat /\ Len(made) \in Nat
    BY <2>1, LenProperties
  <2>4. /\ Len(dockerClients'[i]) = n + Len(made)
        /\ \A k \in 1..(n + Len(made)) :
             dockerClients'[i][k] = IF k <= n THEN dockerClients[i][k] ELSE clients[k - n]
    <3>1. LET both == dockerClients[i] \o clients IN
          /\ Len(both) = Len(dockerClients[i]) + Len(clients)
          /\ \A k \in 1..(Len(dockerClients[i]) + Len(clients)) :
               both[k] = IF k <= Len(dockerClients[i]) THEN dockerClients[i][k]
                         ELSE clients[k - Len(dockerClients[i])]
      BY <2>1, ConcatProperties, Zenon
    <3> QED
      BY <1>2, <2>2, <3>1
  <2>5. /\ Len(dockerSockets'[i]) = n + Len(made)
        /\ \A k \in 1..(n + Len(made)) :
             dockerSockets'[i][k] = IF k <= n THEN dockerSockets[i][k] ELSE made[k - n]
    BY <2>1, <2>2, ConcatProperties
  <2>6. pc'[i] = "up" /\ skipEvents'[i] = Len(dockerClients'[i])
    BY DEF Typed, Shape, TypeOK, Discover, ListenedTo
  <2>7. \A k \in 1..n : dockerSockets[i][k] = dockerClients[i][k].host
    BY DEF ClientsMade, Made
  <2> HIDE DEF n
  <2>8. \A k \in 1..(n + Len(made)) : dockerSockets'[i][k] = dockerClients'[i][k].host
    <3> SUFFICES ASSUME NEW k \in 1..(n + Len(made))
                 PROVE  dockerSockets'[i][k] = dockerClients'[i][k].host
      OBVIOUS
    <3>1. CASE k <= n
      <4>1. k \in 1..n
        BY <2>3, <3>1
      <4> QED
        BY <2>4, <2>5, <2>7, <3>1, <4>1
    <3>2. CASE ~(k <= n)
      <4>1. k - n \in 1..Len(made)
        BY <2>3, <3>2
      <4> QED
        BY <1>2, <2>4, <2>5, <3>2, <4>1
    <3> QED
      BY <3>1, <3>2
  <2>9. Made(i)'
    BY <2>3, <2>4, <2>5, <2>6, <2>8 DEF Made
  <2>10. Match(i)'
    <3>1. \A o : GivenList(i, o)' = GivenList(i, o)
      BY <1>1, SameOptions
    <3>2. Len(GivenList(i, "sockets")) <= n
      <4>1. CASE GivenList(i, "sockets") = <<>>
        BY <2>3, <4>1, EmptySeq
      <4>2. CASE GivenList(i, "sockets") # <<>>
        BY <2>1, <2>3, <4>2 DEF ClientsMade, Made
      <4> QED
        BY <4>1, <4>2
    <3> SUFFICES ASSUME NEW k \in 1..(n + Len(made)), k <= Len(GivenList(i, "sockets"))
                 PROVE  dockerClients'[i][k] = [host |-> GivenList(i, "sockets")[k],
                                                cert |-> Entry(GivenList(i, "certs"), k, Blank),
                                                api |-> Entry(GivenList(i, "apis"), k, Blank)]
      BY <2>4, <3>1 DEF Match, Entry
    <3>3. k <= n /\ k \in 1..n
      <4>1. Len(GivenList(i, "sockets")) \in Nat
        BY GivenTyped, LenProperties DEF Typed, Shape
      <4> QED
        BY <2>3, <3>2, <4>1
    <3>4. dockerClients'[i][k] = dockerClients[i][k]
      BY <2>4, <3>3
    <3> QED
      BY <3>3, <3>4 DEF ClientsMade, Match, n
  <2> QED
    BY <1>3, <2>9, <2>10
<1>4. CASE j # i
  <2>1. /\ pc'[j] = pc[j] /\ dockerClients'[j] = dockerClients[j]
        /\ dockerSockets'[j] = dockerSockets[j] /\ skipEvents'[j] = skipEvents[j]
    BY <1>2, <1>4 DEF Typed, Shape, TypeOK, Discover
  <2> QED
    BY <1>1, <2>1, MadeFrame DEF ClientsMade
<1> QED
  BY <1>3, <1>4

LEMMA ClientsInit == Init => ClientsMade
<1> SUFFICES ASSUME Init, NEW i \in Instances PROVE Made(i) /\ Match(i)
  BY DEF ClientsMade
<1>1. dockerClients[i] = <<>> /\ dockerSockets[i] = <<>> /\ pc[i] = "down"
  BY DEF Init
<1>2. Len(dockerClients[i]) = 0 /\ Len(dockerSockets[i]) = 0
  BY <1>1, EmptySeq
<1> QED
  BY <1>1, <1>2 DEF Made, Match

LEMMA ClientsStep == Typed /\ ClientsMade /\ [Next]_vars => ClientsMade'
<1> SUFFICES ASSUME Typed, ClientsMade, [Next]_vars PROVE ClientsMade'
  OBVIOUS
<1>1. ASSUME UNCHANGED <<setting, pc, starting>> PROVE ClientsMade'
  BY <1>1, MadeFrame DEF ClientsMade, starting
<1>2. CASE UNCHANGED vars
  BY <1>1, <1>2 DEF vars
<1>3. ASSUME NEW a \in Admins, Change(a) PROVE ClientsMade'
  BY <1>1, <1>3 DEF Change
<1>4. ASSUME NEW i \in Instances, StartStep(i) PROVE ClientsMade'
  <2>1. CASE Run(i)
    BY <2>1, ServeMade, ExitMade DEF Run, GiveUp
  <2> QED
    BY <1>4, <2>1, LoadEnvFileMade, ConnectMade, ConnectDefaultMade, DiscoverMade DEF StartStep
<1>5. ASSUME NEW i \in Instances, Crash(i) PROVE ClientsMade'
  BY <1>5, ExitMade DEF Crash
<1>6. ASSUME NEW c \in Instances, NEW n \in Names, Send(c, n) \/ Load(c, n) PROVE ClientsMade'
  BY <1>1, <1>6 DEF Send, Load
<1> QED
  BY <1>2, <1>3, <1>4, <1>5, <1>6 DEF Next

LEMMA ClientsAlways == Spec => [](Typed /\ ClientsMade)
<1>1. Init => Typed /\ ClientsMade
  BY TypedInit, ClientsInit
<1>2. Typed /\ ClientsMade /\ [Next]_vars => (Typed /\ ClientsMade)'
  BY TypedStep, ClientsStep
<1> QED
  BY <1>1, <1>2, PTL DEF Spec

\* A client uses the certificates and API version of its own socket, although all
\* clients are made from the variables of one process (loader.go:99-124), and
\* starts that fail part-way leave nothing for the next.
THEOREM ClientsOfTheirSockets == Spec => []ClientsMatchOptions
<1>1. Typed /\ ClientsMade => ClientsMatchOptions
  <2> SUFFICES ASSUME Typed, ClientsMade, NEW i \in Instances, NEW k \in DOMAIN dockerClients[i],
                      k <= Len(GivenList(i, "sockets"))
               PROVE  dockerClients[i][k] = [host |-> GivenList(i, "sockets")[k],
                                             cert |-> Entry(GivenList(i, "certs"), k, Blank),
                                             api |-> Entry(GivenList(i, "apis"), k, Blank)]
    BY DEF ClientsMatchOptions
  <2>1. dockerClients[i] \in Seq(Variables)
    BY DEF Typed, Shape
  <2>2. k \in 1..Len(dockerClients[i])
    BY <2>1, LenProperties
  <2> QED
    BY <2>2 DEF ClientsMade, Match
<1> QED
  BY <1>1, ClientsAlways, PTL

\* Every listener finds its entries (loader.go:219, 225), however many sockets and
\* remote hosts there are and whichever clients could not be made.
THEOREM ListenersFindTheirEntries == Spec => []ListenersInRange
<1>1. Typed /\ ClientsMade => ListenersInRange
  <2> SUFFICES ASSUME Typed, ClientsMade, NEW i \in Instances, pc[i] = "up"
               PROVE  /\ Len(dockerSockets[i]) = Len(dockerClients[i])
                      /\ \A k \in DOMAIN dockerClients[i] :
                           k <= skipEvents[i] /\ dockerSockets[i][k] = dockerClients[i][k].host
    BY DEF ListenersInRange
  <2>1. dockerClients[i] \in Seq(Variables)
    BY DEF Typed, Shape
  <2>2. /\ DOMAIN dockerClients[i] = 1..Len(dockerClients[i])
        /\ Len(dockerClients[i]) \in Nat
    BY <2>1, LenProperties
  <2> QED
    BY <2>2 DEF ClientsMade, Made
<1> QED
  BY <1>1, ClientsAlways, PTL

----------------------------------------------------------------------------
(* Endpoints.  A request makes its server listen where the controller that    *)
(* sent it, which means the server by a name of its own network, finds it.    *)

\* Controllers, and the requests they have sent.
RequestsReach ==
  /\ \A c \in Instances : pc[c] \in {"envfile", "connect", "up"} => IsController(c)
  /\ \A r \in inFlight : /\ IsController(r.from) /\ r.name \in ControlledServers(r.from)
                         /\ r.listen \in {<<"tcp", r.name>>, Wildcard}

\* Some controller reaches server i.
Reachable(i) ==
  \E c \in Instances : /\ IsController(c)
                       /\ \E n \in ControlledServers(c) : Target(c, n) = i /\ Reaches(c, n)

InReach == RequestsReach /\ \A i \in Instances : applied[i] > 0 => Reachable(i)

\* Which servers a controller controls depends on settings only.
LEMMA SameServers ==
  ASSUME UNCHANGED setting, NEW c \in Instances
  PROVE  IsController(c)' = IsController(c) /\ ControlledServers(c)' = ControlledServers(c)
<1>1. \A o : Given(c, o)' = Given(c, o)
  BY DEF Given
<1>2. /\ IsController(c)' = IsController(c) /\ IsServer(c)' = IsServer(c)
      /\ \A a : InNetwork(c, a)' <=> InNetwork(c, a)
  BY <1>1 DEF IsController, IsServer, InNetwork, HasNetwork
<1> QED
  BY <1>2 DEF ControlledServers

\* A server whose endpoint a step leaves alone is reached as before.
LEMMA ReachableFrame ==
  ASSUME UNCHANGED setting, NEW i \in Instances, listening'[i] = listening[i], Reachable(i)
  PROVE  Reachable(i)'
<1>1. PICK c \in Instances : /\ IsController(c)
                             /\ \E n \in ControlledServers(c) : Target(c, n) = i /\ Reaches(c, n)
  BY DEF Reachable
<1>2. PICK n \in ControlledServers(c) : Target(c, n) = i /\ Reaches(c, n)
  BY <1>1
<1>3. Target(c, n)' = i /\ Reaches(c, n)'
  <2>1. Target(c, n)' = Target(c, n)
    BY DEF Target
  <2> QED
    BY <1>2, <2>1 DEF Reaches
<1>4. IsController(c)' /\ n \in ControlledServers(c)'
  BY <1>1, <1>2, SameServers
<1> QED
  BY <1>3, <1>4 DEF Reachable

LEMMA ReachStart ==
  ASSUME Typed, InReach, NEW i \in Instances, UNCHANGED <<setting, applied, inFlight>>,
         pc' = [pc EXCEPT ![i] = pc'[i]], listening' = [listening EXCEPT ![i] = listening'[i]],
         pc'[i] \in {"envfile", "connect", "up"} => IsController(i),
         pc[i] = "down" \/ listening'[i] = listening[i]
  PROVE  InReach'
<1>1. RequestsReach'
  <2>1. \A c \in Instances : pc'[c] \in {"envfile", "connect", "up"} => IsController(c)'
    BY SameServers DEF Typed, TypeOK, InReach, RequestsReach
  <2>2. \A r \in inFlight : r.from \in Instances
    BY DEF Typed, Shape, Requests
  <2> QED
    BY <2>1, <2>2, SameServers DEF InReach, RequestsReach
<1>2. ASSUME NEW j \in Instances, applied'[j] > 0 PROVE Reachable(j)'
  <2>1. applied[j] > 0
    BY <1>2
  <2>2. pc[j] # "down"
    BY <2>1 DEF Typed, TypeOK
  <2>3. listening'[j] = listening[j]
    BY <2>2 DEF Typed, Shape
  <2> QED
    BY <2>1, <2>3, ReachableFrame DEF InReach
<1> QED
  BY <1>1, <1>2 DEF InReach

LEMMA ReachExit == ASSUME Typed, InReach, NEW i \in Instances, Exit(i) PROVE InReach'
<1>1. UNCHANGED setting /\ inFlight' \subseteq inFlight
  BY DEF Exit
<1>2. /\ pc'[i] = "down" /\ applied'[i] = 0
      /\ \A j \in Instances : j # i =>
           pc'[j] = pc[j] /\ applied'[j] = applied[j] /\ listening'[j] = listening[j]
  BY DEF Typed, Shape, TypeOK, Exit
<1>3. RequestsReach'
  <2>1. \A c \in Instances : pc'[c] \in {"envfile", "connect", "up"} => IsController(c)'
    BY <1>1, <1>2, SameServers DEF InReach, RequestsReach
  <2>2. \A r \in inFlight' : r \in inFlight /\ r.from \in Instances
    BY <1>1 DEF Typed, Shape, Requests
  <2> QED
    BY <1>1, <2>1, <2>2, SameServers DEF InReach, RequestsReach
<1>4. ASSUME NEW j \in Instances, applied'[j] > 0 PROVE Reachable(j)'
  <2>1. j # i
    BY <1>2, <1>4
  <2> QED
    BY <1>1, <1>2, <1>4, <2>1, ReachableFrame DEF InReach
<1> QED
  BY <1>3, <1>4 DEF InReach

LEMMA ReachStartStep == ASSUME Typed, InReach, NEW i \in Instances, StartStep(i) PROVE InReach'
<1>1. CASE GiveUp(i)
  BY <1>1, ReachExit DEF GiveUp
<1>2. CASE Run(i) /\ Serve(i)
  <2>1. UNCHANGED <<setting, applied, inFlight>> /\ pc[i] = "down"
    BY <1>2 DEF Run, Serve, Keep, pushing
  <2>2. /\ pc' = [pc EXCEPT ![i] = pc'[i]] /\ listening' = [listening EXCEPT ![i] = listening'[i]]
        /\ pc'[i] \in {"envfile", "connect", "up"} => IsController(i)
    BY <1>2 DEF Typed, Shape, TypeOK, Serve
  <2> QED
    BY <2>1, <2>2, ReachStart
<1>3. ASSUME UNCHANGED <<setting, applied, inFlight, listening>>,
             pc[i] \in {"envfile", "connect"}, pc' = [pc EXCEPT ![i] = pc'[i]]
      PROVE  InReach'
  <2>1. listening' = [listening EXCEPT ![i] = listening'[i]] /\ IsController(i)
    BY <1>3 DEF Typed, Shape, InReach, RequestsReach
  <2> QED
    BY <1>3, <2>1, ReachStart
<1>4. CASE LoadEnvFile(i) /\ ~GiveUp(i)
  <2>1. UNCHANGED <<setting, applied, inFlight, listening>> /\ pc' = [pc EXCEPT ![i] = "connect"]
    BY <1>4 DEF LoadEnvFile, Keep, pushing
  <2> QED
    BY <1>3, <1>4, <2>1 DEF LoadEnvFile, Typed, TypeOK
<1>5. CASE (Connect(i) \/ ConnectDefault(i)) /\ ~GiveUp(i)
  <2>1. UNCHANGED <<setting, applied, inFlight, listening, pc>>
    BY <1>5 DEF Connect, ConnectDefault, Keep, pushing
  <2> QED
    BY <1>3, <1>5, <2>1 DEF Connect, ConnectDefault, Typed, TypeOK
<1>6. CASE Discover(i)
  <2>1. UNCHANGED <<setting, applied, inFlight, listening>> /\ pc' = [pc EXCEPT ![i] = "up"]
    BY <1>6 DEF Discover, pushing
  <2> QED
    BY <1>3, <1>6, <2>1 DEF Discover, Typed, TypeOK
<1> QED
  BY <1>1, <1>2, <1>4, <1>5, <1>6 DEF StartStep, Run

\* A request asks for an endpoint at which its controller finds the server.
LEMMA ReachSend ==
  ASSUME AdminsAnywhere, Typed, InReach, NEW c \in Instances, NEW n \in Names, Send(c, n)
  PROVE  InReach'
<1> DEFINE listen == AddAdminListen(admin, GetServerAdminListen(c, n))
           r0 == [from |-> c, name |-> n, version |-> version, listen |-> listen]
<1>1. /\ UNCHANGED <<setting, pc, listening, applied>> /\ pc[c] = "up"
      /\ n \in ControlledServers(c) /\ inFlight' = inFlight \cup {r0}
  BY DEF Send
<1>2. IsController(c)
  BY <1>1 DEF InReach, RequestsReach
<1>3. AdminListen(c) \in {Unset, Wildcard} /\ admin \in {Unset, Off, Wildcard}
  <2>1. setting[c] \in Settings[c]
    BY DEF Typed, Shape
  <2> QED
    BY <1>2, <2>1 DEF AdminsAnywhere, IsController, Given, AdminListen, Typed, TypeOK
<1>4. listen \in {<<"tcp", n>>, Wildcard}
  BY <1>3 DEF AddAdminListen, GetServerAdminListen
<1> HIDE DEF listen
<1>5. r0.from = c /\ r0.name = n /\ r0.listen = listen
  OBVIOUS
<1> HIDE DEF r0
<1>6. \A r \in inFlight' : /\ r.from \in Instances /\ IsController(r.from)
                           /\ r.name \in ControlledServers(r.from)
                           /\ r.listen \in {<<"tcp", r.name>>, Wildcard}
  <2> SUFFICES ASSUME NEW r \in inFlight'
               PROVE  /\ r.from \in Instances /\ IsController(r.from)
                      /\ r.name \in ControlledServers(r.from)
                      /\ r.listen \in {<<"tcp", r.name>>, Wildcard}
    OBVIOUS
  <2>1. CASE r = r0
    BY <1>1, <1>2, <1>4, <1>5, <2>1
  <2>2. CASE r \in inFlight
    BY <2>2 DEF Typed, Shape, Requests, InReach, RequestsReach
  <2> QED
    BY <1>1, <2>1, <2>2
<1>7. RequestsReach'
  BY <1>1, <1>6, SameServers DEF InReach, RequestsReach
<1> QED
  BY <1>1, <1>7, ReachableFrame DEF InReach

LEMMA ReachLoad ==
  ASSUME Typed, InReach, NEW c \in Instances, NEW n \in Names, Load(c, n) PROVE InReach'
<1> DEFINE t == Target(c, n)
<1>1. PICK r \in inFlight :
        /\ <<r.from, r.name>> = <<c, n>>
        /\ inFlight' = inFlight \ {r}
        /\ listening' = [listening EXCEPT ![t] = r.listen]
        /\ applied' = [applied EXCEPT ![t] = r.version]
        /\ UNCHANGED <<setting, pc>>
  BY DEF Load
<1>2. /\ IsController(c) /\ n \in ControlledServers(c)
      /\ r.listen \in {<<"tcp", n>>, Wildcard} /\ t \in Instances
  BY <1>1, TargetTyped DEF InReach, RequestsReach
<1> HIDE DEF t
<1>3. RequestsReach'
  <2>1. \A q \in inFlight' : q \in inFlight /\ q.from \in Instances
    BY <1>1 DEF Typed, Shape, Requests
  <2> QED
    BY <1>1, <2>1, SameServers DEF InReach, RequestsReach
<1>4. Reachable(t)'
  <2>1. listening'[t] = r.listen
    BY <1>1, <1>2 DEF Typed, Shape
  <2>2. Target(c, n)' = t /\ Reaches(c, n)'
    <3>1. Target(c, n)' = Target(c, n)
      BY DEF Target
    <3> QED
      BY <1>2, <2>1, <3>1 DEF Reaches, t
  <2> QED
    BY <1>1, <1>2, <2>2, SameServers DEF Reachable
<1>5. ASSUME NEW j \in Instances, applied'[j] > 0, j # t PROVE Reachable(j)'
  <2>1. applied'[j] = applied[j] /\ listening'[j] = listening[j]
    BY <1>1, <1>5 DEF Typed, Shape
  <2> QED
    BY <1>1, <1>5, <2>1, ReachableFrame DEF InReach
<1> QED
  BY <1>3, <1>4, <1>5 DEF InReach

LEMMA ReachStep ==
  ASSUME AdminsAnywhere PROVE Typed /\ InReach /\ [Next]_vars => InReach'
<1> SUFFICES ASSUME Typed, InReach, [Next]_vars PROVE InReach'
  OBVIOUS
<1>1. ASSUME UNCHANGED <<setting, pc, listening, applied, inFlight>> PROVE InReach'
  <2>1. \A r \in inFlight : r.from \in Instances
    BY DEF Typed, Shape, Requests
  <2>2. RequestsReach'
    BY <1>1, <2>1, SameServers DEF InReach, RequestsReach
  <2> QED
    BY <1>1, <2>2, ReachableFrame DEF InReach
<1>2. CASE UNCHANGED vars
  BY <1>1, <1>2 DEF vars, pushing
<1>3. ASSUME NEW a \in Admins, Change(a) PROVE InReach'
  BY <1>1, <1>3 DEF Change, pushing
<1>4. ASSUME NEW i \in Instances, StartStep(i) \/ Crash(i) PROVE InReach'
  BY <1>4, ReachStartStep, ReachExit DEF Crash
<1>5. ASSUME NEW c \in Instances, NEW n \in Names, Send(c, n) \/ Load(c, n) PROVE InReach'
  BY <1>5, ReachSend, ReachLoad
<1> QED
  BY <1>2, <1>3, <1>4, <1>5 DEF Next

\* No push moves a server to where no controller looks for it (getServerAdminListen
\* and addAdminListen, loader.go:371-398): what the Caddyfile says is overruled when
\* it turns the admin API off, and obeyed when it opens it at every address.
THEOREM ServersStayReachable ==
  ASSUME AdminsAnywhere PROVE Spec => []ConfiguredStaysReachable
<1>1. Init => Typed /\ InReach
  <2>1. Init => InReach
    BY DEF Init, InReach, RequestsReach
  <2> QED
    BY <2>1, TypedInit
<1>2. Typed /\ InReach /\ [Next]_vars => (Typed /\ InReach)'
  BY TypedStep, ReachStep
<1>3. InReach => ConfiguredStaysReachable
  BY DEF InReach, Reachable, ConfiguredStaysReachable
<1> QED
  BY <1>1, <1>2, <1>3, PTL DEF Spec
=============================================================================
