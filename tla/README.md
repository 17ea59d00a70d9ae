# homelab-manager in TLA+

TLA+ models of homelab-manager (a Caddy plugin that turns Docker labels into the
configuration of Caddy servers and into DNS and NAT rules of an OPNsense
router), the TLC runs that check them and the TLAPS proofs about them. All line
numbers refer to the files under `src/`.

## The system

| part | where | state it keeps | operations | what is hard |
|---|---|---|---|---|
| Loader: start | `loader.go:65-190` | clients, timer, generator | `Start` | clients are made from variables of the process; every step may fail |
| Events listener | `loader.go:192-255` | `skipEvents`, the timer | `monitorEvents`, `listenEvents` | shares both with updates, no lock; clients one after the other |
| Update | `loader.go:257-310` | `lastCaddyfile`, `lastJSONConfig`, `lastVersion` | `update` | run by `time.AfterFunc`, may overlap itself |
| Server push | `loader.go:312-386` | `serversVersions`, `serversUpdating` | `updateServer`, `addAdminListen` | one goroutine per server, HTTP without timeout; a push may move the endpoint it came through |
| Autosave | `loader.go:268-281` | a file and its `.tmp` | write, rename | one temporary file for all updates |
| Gateway pass | `loader_gateway.go:106-231` | locals of a pass | `reconcileGateway` | many HTTP calls, each may fail; passes may overlap |
| Gateway state | `gateway/state.go` | `dnsUUIDs`, `natUUIDs` | `Add*`, `Remove*`, `Has*`, `KnownContainerIDs`, `ReconcileOnStartup` | lost with the process, read back from the router |
| OPNsense client | `gateway/client.go`, `dns.go`, `portforward.go` | none | one HTTP call each | lost answers |
| Remote hosts | `loader_gateway.go:16-104` | appends to the clients | `discoverRemoteHosts` | only the loader learns of them, not the generator |
| Generator | `generator/` | swarm availability, ingress networks | `GenerateCaddyfile` | cached state, calls that fail one by one |
| Caddyfile blocks | `caddyfile/` | none | labels, lexer, merge, process, marshal | map order, quoting, blocks of one object that spoil another's |
| Options, command | `cmd.go`, `config/`, `module.go` | none | `createOptions`, `cmdFunc` | precedence of flags and environment |
| Docker clients | `docker/` | none | wrappers | - |
| Concurrent maps | `utils/` | a map | `Get`, `Set`, `Delete` | lock per call only |

How they meet: an event of Docker sets `skipEvents[i]` and resets the one timer
to the throttle interval. The timer starts an update, which resets the timer to
the polling interval, clears `skipEvents`, has the generator read Docker, adapts
a changed Caddyfile to JSON, pushes it to every controlled server that is not on
record with the last version, waits for all of them and ends with a gateway
pass. The pass compares the running containers with the gateway state and calls
the router. Nothing keeps two updates apart: the timer is armed before the
update has done anything, so an update that takes longer than the throttle
interval (100 ms) or the polling interval (30 s) overlaps the next one.

What makes each part correct:

* listener and timer: every change is read in the end, a change whose event was
  seen is not left to polling, skipping ends, polling never dies;
* push: only adapted configurations reach a server, one request per server at a
  time, what is on record is what the server runs, servers converge to the
  configuration of Docker's state, and a dead server holds up nobody else;
* start: a client talks to the Docker daemon it was configured for, the listener's
  indices are in range, and a server can be reached wherever a push put it;
* autosave: the file is a whole Caddyfile, and in the end the last one;
* Caddyfile: it says what the labels and the static file ask for and nothing
  else, it does not change while Docker does not, and what the adapter refuses
  takes nothing else along;
* generator: a call that fails takes away no more than what it was about, a
  cache is not believed for ever, results name only what existed while they were
  made, and they come to be what the state of Docker asks for;
* gateway: the rules of others stay untouched, every rule written is on record
  until it is deleted, no rule twice, containers that run keep their rules, and
  the rules in effect converge to those of the running containers.

`PROJECT.json` lists the hazards at their lines with the properties that watch
each of them.

## Modules

| module | models | checked by | proofs |
|---|---|---|---|
| `Gateway` | `reconcileGateway`, `gateway.State`, the OPNsense client, the router | `MCGateway` | `GatewayProofs` |
| `GatewayHistory` | `Gateway` with a history of where passes got in each other's way | `MCGatewayHistory` | `GatewayPassProofs` |
| `RuleLedger` | what the gateway promises about the router's rules | as the property `ImplementsLedger` | `GatewayProofs` |
| `ConfigPush` | `update` from the generator to `wg.Wait`, `updateServer`, the two maps, the Caddy servers | `MCConfigPush` | `ConfigPushProofs` |
| `PushLedger` | what the push promises about the order of configurations | as the property `ImplementsPushLedger` | `PushLedgerProofs` |
| `PushHistory` | `ConfigPush` with a history of what was stored and loaded, and of its races | `MCConfigPush` | `PushLedgerProofs` |
| `Loader` | the whole of `update`: `ConfigPush` with the autosave file and the gateway pass | `MCLoader` | `LoaderProofs` |
| `LoaderHistory` | `Loader` with the same history, and that of the temporary file | `MCLoader` | `LoaderProofs` |
| `EventThrottle` | `listenEvents`, the timer, the first steps of `update` | `MCEventThrottle` | `EventThrottleProofs` |
| `Generator` | when and from what `GenerateCaddyfile` collects sites and servers, and what it caches | `MCGenerator` | `GeneratorProofs` |
| `GeneratorHistory` | `Generator` with the generations that nothing disturbed | `MCGenerator` | `GeneratorProofs` |
| `Caddyfile` | how `GenerateCaddyfile` makes the text: the package `caddyfile` | `MCCaddyfile` | - |
| `Startup` | the command, its options, `Start`, remote hosts, the admin endpoints | `MCStartup` | `StartupProofs` |

`Loader` and `PushHistory` EXTEND `ConfigPush`, `LoaderHistory` both of them, and
each of their steps is a step of `ConfigPush` or leaves its variables alone. The
four history modules add variables that no guard reads and restrict no step: what
they say of the code holds of the component itself. In each component module a `Spec` allows every
interleaving, and `FairSpec` adds the fairness (`Caddyfile` states no liveness
and has none). Operators described as mutants are variants a plausible bug
would give; no specification uses them.

### Gateway

| definition | code |
|---|---|
| `tracked[kind][c]` | `State.dnsUUIDs`, `State.natUUIDs` |
| `rows`, `live` | the rules in the router's configuration, and those its services were last loaded with |
| `pc`, `toList`, `current`, `todo`, `cid`, `kind`, `dels`, `adds`, `dnsChanged`, `natRevision` | position and locals of a pass, for each of the `Passes` that may overlap |
| `Startup` | `ReconcileOnStartup`; a failed search ends it and is only logged (`loader.go:151`) |
| `Begin`, `List`, `Known` | `loader_gateway.go:106-143`: one step per daemon, then `KnownContainerIDs` |
| `RemoveTracked`, `DeleteRule`, `PruneDone` | `140-162`: UUIDs leave State, then one deletion per step |
| `CheckTracked`, `AddRule`, `ScanDone` | `168-218`: `HasDNS`/`HasNAT`, then one addition per step |
| `ReconfigureUnbound`, `Apply` | `220-230` |
| `StartContainer`, `StopContainer`, `Crash` | the environment |

One HTTP call is one step. `Savepoint` belongs to the step of the NAT call it
precedes and `AddDNS`/`AddNAT` to the step of the call it follows: no other pass
can tell them apart, since the revision is a local of the pass and State locks
every call. A failing call either has no effect on the router (`del`, `add`) or
has it and loses the answer (`delAck`, `addAck`); both are errors for the code.
A deletion may also be refused in an answer with status 200 (`delRefused`), whose
result `DelHostOverride` and `DelNATRule` do not look at: the rule stays and the
code goes on as if it were gone. (`ReconfigureUnbound` and `Apply` do not look at
theirs either; a refused publication has the effect of a failed one.)

Abstractions: a site, a forward entry and a container ID are whole values, so
what the label parsers select is modelled (`DNSTargets`, `NATTargets`: wildcards,
addresses without a dot, `gateway.dns=false`, incomplete entries) and how they
cut strings is not. An address written twice in one label is one target. The
order in which daemons, known containers and targets are visited is free: Go's
map order is random, and for targets and daemons the model allows more orders
than the code. A request under way when the process dies counts as not sent, or
as finished before the crash. The description of a rule is the container it
names; a description a user edited on the router is not modelled. Without
`GATEWAY_URL` nothing happens, and that is not modelled. `Apply` publishes every
NAT change: the automatic rollback of OPNsense savepoints belongs to the router.

`Unrecorded` are the rules the program wrote of which neither State nor a pass
knows any more: nobody will ever delete them. `LossesAreFailures` bounds them by
the number of calls that failed, while the process runs.

### GatewayHistory

Nothing in the code keeps two passes apart, so what it promises of a single pass
can only hold of containers at which passes do not meet. The history says which
those are, pair by pair of a kind of rules and a container: `touched`, what a pass
has had calls to make for since it began; `disturbed[p]`, what the passes that
overlap with `p` have; `contested`, what two passes had calls to make for at the
same time, until no rule of it and no call for it is left. `NoDuplicateRules` is
about pairs that are not contested, `PassesTakeEffect` about those that no
overlapping pass touched, and, where rules may be missing, that are not contested
either. With one pass both sets stay empty and nothing is exempt.

### RuleLedger

The abstract promise: rules are created under fresh UUIDs and only for targets
their container asks for, only owned rules are deleted, one at a time, and a
service only ever loads the rules as they are configured. `Gateway` implements
it under the identity mapping of `rows` and `live`; everything else it has
(passes, tracking, faults, crashes) is hidden.

### ConfigPush

| definition | code |
|---|---|
| `Fire` | the timer calls `update` in a goroutine of its own |
| `Generate`, `Compare`, `Remember`, `Adapt`, `StoreJSON`, `ReadLastVersion`, `BumpVersion`, `Launch`, `Finish` | `loader.go:265-305`, one access to shared state per step; `lastVersion++` is two |
| `Check`, `Mark`, `TakeVersion`, `CompareVersion`, `TakeBody`, `Post`, `Record`, `Clear` | `updateServer`, `312-369`; `Clear` is the deferred `Delete` |
| `Change`, `ServerRestart`, `Crash` | Docker, a Caddy server, the controller |

A Caddyfile is a value that stands for the state of Docker it was generated
from and for the JSON it is adapted to; `Adaptable` are those the adapter takes.
`addAdminListen` fails on what is not JSON: nothing, or a torn slice. Torn reads
follow from the data race on the two slices: while another update is at the
assignment, a read may mix the old pointer and the new length. A torn Caddyfile
equals none; a torn JSON is not JSON. Torn reads and failed pushes share
`MaxFailures`. `Prompt` is a constant: if it is true, what an update does itself
takes less time than the timer needs to fire again, so that updates overlap only
while one waits for servers; otherwise they overlap anywhere. The code does not
enforce it, and no theorem and no run of safety properties of the push assumes it;
it is true where convergence is checked (`loader`).

The controlled servers are a fixed set, each named once; module `Startup` has
where they listen. A server is known by its address: one that gets a new address
after a restart is another server, one that keeps it is not (`push_server_restart`).

### PushLedger, PushHistory, LoaderHistory

`PushLedger` is the abstract promise of the push: configurations are numbered as
they are stored, and a server loads `stored[n]` only for an `n` that is not below
the number it holds, unless the order of its requests is lost (`unordered`). A
server that restarts runs nothing and may load anything; a controller that
restarts numbers anew. `PushHistory` adds history variables to `ConfigPush`:

| variable | meaning |
|---|---|
| `stored` | the values `lastJSONConfig` had, in order |
| `taken`, `holds` | the number of the body a worker took, and of the one each server loaded last, whether or not its answer arrived |
| `raced` | servers at which two workers stood between `Get` and `Set` of `serversUpdating` (`loader.go:316-321`), until every worker that is past `Get` has left |
| `unsure` | servers that raced, or restarted, since the last version was counted |
| `miscounted` | two updates were between the two halves of `lastVersion++` (`loader.go:297`) |

These are the races the code leaves open. `OnePushAtATime` is about servers that
are not in `raced`, `RecordIsTrue` about those not in `unsure` while nothing was
miscounted, and the refinement maps `unordered` to `raced` and `runs` to
`applied`: everything else, updates that overlap at any other step, failing
requests, late answers and crashes, is covered. The refinement is more than
`RecordIsTrue`, which only compares a server on record with the last version: the
ledger orders every load, those that are never recorded included.

`LoaderHistory` adds the same history to `Loader`, whose steps either take it
along as the push does or leave it alone, and that of the temporary file:
`crossed` are the updates that met another one between truncation and rename, and
`spoiled` says that such an update was the last to change the autosave file.
`AutosaveIsWhole` is about a file that is not spoiled.

### Loader

| definition | code |
|---|---|
| `saved`, `tmp` | `Caddyfile.autosave` and `Caddyfile.autosave.tmp` |
| `saving`, `fd` | position of an update in the autosave block, and where the file it has open is by now |
| `RememberAndSave`, `OpenTmp`, `WriteTmp`, `Rename` | `loader.go:268-281`: `os.WriteFile` opens and truncates, writes and closes; then `os.Rename` |
| `AdaptSaved` | the adapter is called only after the file has been dealt with, whatever became of it |
| `FinishPush`, `Reconcile` | `305-309`: past `wg.Wait` an update ends with a gateway pass, of which only the listing is here |
| `ChangeElsewhere` | containers that matter to the gateway and not to the Caddyfile |

All updates share the one temporary name: an update may truncate the file that
another is writing, rename it away under its hands, or find nothing to rename.
The contents of a file are one Caddyfile, nothing (`Empty`) or something that is
neither (`Mixed`). `unreconciled` says that containers have changed since a pass
last listed them. In the run updates are prompt, since three of its four
properties are about what becomes of the last change; see Limits for the rest.
The specification combines disk failures, failing pushes and crashes freely;
`FaultsApart`, in `MCLoader`, is a bound of the run, which has disk failures, or
crashes and failing pushes, not both.

### EventThrottle

Time is counted in ticks. `ReadEvent` and `ArmThrottle` are the two steps of
handling an event (set `skipEvents`, reset the timer), `ArmPolling`, `ClearSkip`
and `ReadClient` those of an update (reset the timer, clear entry by entry, read
client by client). `dirty` are the clients whose changes no update has read,
`owed` those among them of which the listener has already seen an event. A
stream may hold any number of events and break at any time; a client that is not
being listened to sends none. Event types that the listener ignores
(`loader.go:229-240`) are left out. A remote host (module `Startup`) is a client
the listener follows and the generator never sees: its changes are those of a
client that is only read by the gateway pass.

### Generator

| definition | code |
|---|---|
| `ingressNetworks`, `swarmIsAvailable`, `swarmAge` | the fields of `CaddyfileGenerator` that change; `swarmAge` is the time since `swarmIsAvailableTime` |
| `pc`, `index`, `found`, `sites`, `servers` | position and locals of a generation, for each of the `Updates` that may overlap |
| `ReadIngress`, `AssignIngress` | `getIngressNetworks`, client by client (`generator.go:234-282`), and the assignment of its map (`59-64`) |
| `CheckAge`, `CheckSwarm`, `Stamp` | `66-69`, `217-232` |
| `ReadConfigs`, `ReadContainers`, `ReadServices` | the three parts of the loop over the clients, `91-181` |
| `Emit` | `183-215` |
| `ContainerSite`, `ServiceSite`, `IngressAddresses`, `Addresses` | `containers.go`, `services.go`: which addresses `upstreams` stands for |
| `ContainerServers`, `ServiceServers` | the controlled servers within `ControllerNetwork`, `123-135`, `154-165` |
| `Appear`, `Vanish`, `Join`, `Leave`, `ChangeSwarm`, `Tick` | Docker and time |

Abstractions: an object that exists has the labels of a site; how labels become
blocks, how blocks are merged, put in order and processed, and the static
Caddyfile are in module `Caddyfile`, the server "localhost" in `Startup`;
repetitions among the servers are left out. An object
in `BrokenLabels` has labels, or a config data, that do not parse. A list call
and what the code then asks about its entries (`ConfigInspectWithRaw`,
`TaskList`, `NetworkInspect`) are one step, in which every single call may fail.
A daemon is in no swarm or is a manager of the one swarm. Every object is listed
by one client: what a second manager of the swarm lists again adds nothing to a
set of sites. Reading
`swarmIsAvailableTime` while another generation writes it may give any answer.
`steady`, `seen`, `steadyJoined` and `unlisted` are history the properties use.
So is `undisturbed` of `GeneratorHistory`: the generations during which neither
Docker changed nor a call failed, nor during those that were under way when they
began, and that did not begin with a swarm availability which Docker had left
behind. `UndisturbedAreExact` says that they yield exactly what Docker's state asks
for, whatever the other generations do to the caches meanwhile.

### Caddyfile

| definition | code |
|---|---|
| `Read`, `ReadRune`, `InQuotes`, `Space`, `InWord` | `lexer.go`: quotes, backticks, escapes, comments, line counting |
| `Parse`, `StartBlock`, `Unmarshal` | `marshal.go`, `parseContainer` |
| `WriteKey`, `Write`, `Before`, `Sort`, `Marshal` | `marshal.go`: quoting, `compareBlocks` down to keys and children, global blocks first |
| `Merge`, `Merged`, `SameProxy`, `GetMatcher` | `merge.go`: what becomes one block, and upstreams that are appended |
| `ReadLabel`, `GetOrCreateBlock`, `FromPath`, `Evaluated` | `fromlabels.go`, `labels.go`: one label per step in the free order of a map, ancestors made first, templates |
| `Begin`, `MergeObject`, `WriteCaddyfile` | `generator.go:71-215` as far as text is concerned |
| `TryBlock`, `FinishProcess` | `processor.go`: a block is kept if the adapter takes it together with those kept before |

Texts are sequences of characters since quoting, commenting and parsing are what
the properties are about; the labels of an object are a function from paths of
segments to values. `{{upstreams}}` is one character that the template replaces
by the addresses of the object, in order; another value has a template that
fails. Caddy's adapter is an oracle with the reasons the properties need
(`Adapts`): words it refuses, an address or snippet given twice, an import of a
snippet that does not come before it, a global block that is not the first. Left
out: dots in labels that are escaped, indentation, tabs and carriage returns, the
other template functions and the log texts. The definitions are recursive
operators, so nothing is proved about this module.

### Startup

| definition | code |
|---|---|
| `setting`, `Given`, `GivenList`, `IsServer`, `IsController`, `AdminListen` | `createOptions` (`cmd.go`): a variable before a flag, lists that are split, a mode that is neither |
| `Run`, `Serve`, `GetAdminListen` | `cmdFunc` and `getAdminListen`: the server starts first, with an admin API on the address within the controller network |
| `LoadEnvFile`, `Connect`, `ConnectDefault` | `Start`, `loader.go:66-130`: the environment file adds each variable that is not set, then one client per step, from variables of the process that are set and unset |
| `Discover`, `ParseRemoteHosts` | `discoverRemoteHosts` (`loader_gateway.go:16-104`), the gateway's start, and `skipEvents` |
| `Exit`, `GiveUp`, `Crash` | a start that fails ends the process, and the server with it |
| `ControlledServers`, `Send`, `Load` | who is pushed to, through which endpoint, and where the push leaves it |
| `GetServerAdminListen`, `AddAdminListen` | `loader.go:371-386`, `388-393` |

Several instances run, each with its own settings. Only options that decide what
a start does are modelled. An address stands for its port 2019, an endpoint is a
pair of a network and an address. Remote hosts come from labels with an index and
a URL; two labels may have one index, since "1" and "01" are the same number.
`ParseRemoteHosts` is the set of lists that sorting by index may give, the last
label of an index winning in the free order of a map. `Within` keeps the elements
of a sequence that are in a set, in their order. `Texts` are what options,
addresses and URLs may be; a text that is not given is `Blank`.
A push is one request that the server answers or that dies with either process;
its versions and failures are in `ConfigPush`. The polling timer is left out: an
instance whose servers are on record has nothing left to do, so the model may
rest, and the run does not check for deadlock.

## Runs

| run | instance | shows |
|---|---|---|
| `gateway_serial` | 1 pass, 2 daemons, 2 containers (2+1 and 0+1 targets, `c2` opts out of DNS), 4 container changes, 2 failed listings | every pass that ends has put into effect exactly the rules of the containers it listed (`PassesTakeEffect`); the rules in effect converge to those of the running containers |
| `gateway_restart` | 2 passes that may overlap, 1 container with a DNS and a NAT target, 2 changes, 1 crash, 1 failure (listing, addition, savepoint, publication, or the lost answer to a deletion) | every rule on record again after a restart, none doubled but where passes met, foreign ones untouched |
| `gateway_overlap` | 2 passes, 1 container with a DNS and a NAT target, 3 changes, 1 deletion that fails or is refused | six properties of overlapping passes: the refinement of `RuleLedger` among them, and that a failing call costs the record of one rule at most |
| `push_racing` | 2 updates that overlap anywhere, 1 server, 3 Caddyfiles (one not adaptable), 1 change, and one of a failing push or torn read, a crash, a server restart (`OneFault`) | the safety of the push under every interleaving: only adapted configurations, no stuck flag, and but for the two races one push at a time, true records and no server that goes back to an older configuration (the refinement of `PushLedger`) |
| `loader` | 2 prompt updates, 2 servers (one may never answer), 3 Caddyfiles, 1 change, 1 crash, 1 failing push or 1 disk failure | the autosave file is whole and follows Docker, changes get their gateway pass, the server that answers converges |
| `events` | 2 clients, 2 updates, throttle 2, polling 3 ticks | owed changes are imminent, polling goes on, every change is read |
| `generator` | 2 generations that may overlap, 2 clients, 2 containers, a service with a task, a config and one that does not parse, 2 networks, 1 change of Docker, 1 failing call, a cache that expires | no ghosts, failures stay local, known networks stay, undisturbed generations are exact, convergence |
| `startup` | a controller and a server in 12 combinations of settings, 1 change of the Caddyfile, 1 failing step, 1 crash | clients match their options, indices are in range, a configured server stays reachable, documented setups work |
| `caddyfile` | pairs of 8 kinds of objects and one triple, 3 static Caddyfiles, with and without `ProcessCaddyfile`, generation after generation | everything asked for is written and nothing else, good sites survive bad ones, the text is stable |

Each property of a passing run has a mutant of the code that breaks it
(`PROJECT.json`, `mutants`).

Three runs end in a violation. Each checks one statement that a comment or the
documentation makes and that the code does not keep; `PROJECT.json` quotes it
under `findings`.

| run | the code does |
|---|---|
| `gateway_list_error` | a daemon that cannot be listed loses the rules of its running containers (`loader_gateway.go:126`) |
| `gateway_overlap_loss` | an older overlapping pass deletes a new container's rule for good (`loader_gateway.go:140`) |
| `push_server_restart` | a server that restarts under its old address gets no configuration (`loader.go:327`) |

### Limits

The passing runs admit only what their properties survive. Outside those limits
the models show the following, which one changed constant of a configuration
reproduces:

| property | fails with | because |
|---|---|---|
| `Accounted` | `"del"` or `"delRefused"` in `Faults` | the UUID leaves State before the deletion fails (`loader_gateway.go:144`); a refusal is not even noticed (`gateway/dns.go:45`) |
| `NoDuplicateRules`, `Accounted` | `"addAck"` | an added rule whose answer is lost is not tracked (`loader_gateway.go:182`) |
| `NoDuplicateRules` | `"search"` and a crash | a failed search is only logged (`loader.go:151`) |
| `NoDuplicateRules` without its exception | two passes | `HasDNS` and `AddDNS` are far apart (`loader_gateway.go:170-187`) |
| gateway `Converges` | `"add"` and two targets of a kind | any tracked rule hides the missing one (`loader_gateway.go:170`) |
| gateway `Converges` | a crash | a rule not yet published is tracked after the restart and nothing is pending (`loader_gateway.go:221`) |
| `PendingIsPublished` | `"publish"` | what is pending dies with the pass's locals (`loader_gateway.go:222`) |
| `OnePushAtATime`, `RecordIsTrue` without `raced`, `unsure` | `Prompt = FALSE` | `serversUpdating` is read and set by two calls (`loader.go:316-321`) |
| `RecordIsTrue` without `miscounted` | `Prompt = FALSE` | two updates give out one version (`loader.go:297`) |
| `ImplementsPushLedger` with `unordered` empty | `Prompt = FALSE` | two workers send to one server, each what its own version named (`loader.go:316-366`) |
| `LossesAreFailures` | `"search"` and a crash | a search that fails loses all rules of an earlier process at once (`loader.go:151`) |
| `AutosaveIsWhole` without `spoiled`, `AutosaveFollows` | `Prompt = FALSE` | updates write and rename the one temporary file (`loader.go:274-279`) |
| push `Converges` | `Prompt = FALSE` | `lastCaddyfile` of one update meets `lastJSONConfig` of another (`loader.go:269`, `296`) |
| generator `Converges` | `ManualNetworks = FALSE` | a client of another daemon does not know the program's own container, which ends `getIngressNetworks` every time (`generator.go:260`) |

The generator's `Converges` only speaks of clients that agree on whether they
are in a swarm. Without that condition it does not hold: `getServiceTasksIps`
asks every client for tasks and gives up at the first that fails
(`services.go:60-64`), so one daemon outside the swarm takes away the servers of
every service and, with `ProxyServiceTasks`, their sites.

Other conditions a property needs, with what happens without them:

* `AutosaveFollows` speaks of runs without disk failures: a file that could not
  be written is not written again before the Caddyfile changes (`loader.go:268`).
* `ConfiguredStaysReachable` is checked for admin settings that are off or listen
  everywhere. A Caddyfile whose admin setting names one address is pushed to all
  servers and leaves only the one of that address in reach; an explicit
  `CADDY_ADMIN` of the controller goes to all servers as well (`loader.go:388`),
  so one for localhost moves them out of reach. A standalone instance with a
  controller network and no label listens on its network address, while what it
  pushes to is "localhost" (`cmd.go:112`, `generator.go:211`).
* `StableCaddyfile` asks for `Distinct`: an object with two blocks that merging
  cannot tell apart, in a site that another object has too (two replicas with two
  isolated `handle` blocks each), gets a text that depends on the order of a map,
  because blocks are merged before they are sorted (`merge.go`). Each text is
  pushed to every server.
* The labels in the instances of `Caddyfile` have keys that survive being written
  and read. Those that do not: the empty key, one that starts with `#` or a
  backtick, one that ends with a single backslash, and one that has a backtick
  together with a quote or a line break.
* The generator keeps the clients it was given before remote hosts are found
  (`loader.go:159`): events of a remote host start updates in which nothing of
  it is generated. No document promises that it would be.

Bounds. Every counter of the environment has a budget (`MaxChanges`,
`MaxFailures`, `MaxCrashes`, `MaxServerRestarts`). Two passes, two updates and
two containers are the smallest numbers with which they interact; three changes
let a container start, stop and start again; two targets of one kind are what a partial failure needs.
Liveness properties have the form "once the environment stops, ..." so budgets
do not weaken them: they only limit what happened before. Bounds on combinations
are in the instances: `OneFault` of `push_racing` is a `CONSTRAINT`, `FaultsApart`
of `loader` restricts the next-state relation of `MCSpec`, and that of
`gateway_overlap` (`CrashFreeSpec`) has no crashes; the proofs have none of these.
`MaxServerRestarts` is 0 where convergence is checked (see `push_server_restart`). The objects of
`MCCaddyfile` are chosen so that each pair meets another rule of merging,
sorting, quoting or processing; three objects are needed for a bad global block,
a bad site and a good one together. Two instances are what a start needs for a
server that is another's and one that is its own. `Generator` starts in any
state of Docker, its run (`MCSpec`) in three of them. Deadlock is checked in every
run but `startup`; the other models cannot stop, since the timer always fires
again.
`push_racing` treats its two updates and `gateway_restart` its two passes as alike
(`SYMMETRY`): nothing tells them apart; the one `CHOOSE` over updates (`NoteBodies`)
has one candidate, since a step loads for one; and neither run checks liveness.
`CADDY_IP` is set in all instances; the proofs cover both cases.

Fairness. The polling timer fires again and again (`TimerIsKept`), so updates
and passes begin again and again: weak fairness of `Begin` and `Fire`. The Go
scheduler runs every goroutine: weak fairness of each update's, worker's and
pass's steps. A call to Docker, to the router or to a server that is not in
`HangingServers` returns, with a result or an error: weak fairness of `Post`
and of the calls within `PassStep`; `HangingServers` has none, since
`http.DefaultClient` has no timeout. A process that died is started again:
weak fairness of `Startup`. No fairness is asked of Docker (`Change`,
`ReadEvent`, `StreamError`, `Appear`, `Vanish`, ...), of crashes or of failures.
For the generator: updates keep coming (`TimerIsKept`), every call returns, and
time passes: weak fairness of `Begin`, `GenerateStep` and `Tick`. For the loader: an update's
steps, the disk's and the router's answers included, and those of the workers as
in `ConfigPush`. For the start: a process that ended is started again and every
step of a start succeeds or fails (`StartStep`), updates keep coming (`Send`) and
servers answer (`Load`).

## Proofs

`tlapm` proves the following for all values of the constants that satisfy the
assumptions named in the modules (`ContainersAssumption`, `ForeignAssumption`,
`BoundsAssumption`, `ConfigAssumption`, `IntervalAssumption`,
`GeneratorAssumption`, `LoaderAssumption`, `StartupAssumption`): any number of
passes, updates, servers, containers, clients, instances, faults and crashes.

* `GatewayProofs`: `TypeOK`, then `ForeignRulesUntouched`, `RecordsAreOwn` and
  `RecordedOnce`. None of the three is inductive alone. The inductive invariant
  `Ownership` adds what the code relies on silently: UUIDs in use lie below the
  router's next one and are unique (`FreshUUIDs`, `UniqueUUIDs`), so a record
  of a rule that is gone can never come to mean a new rule (`RecordsFresh`);
  what State tracks and what a pass holds are the container's own (`TrackedOwn`,
  `HeldOwn`) and disjoint (`TrackedOnce`, `HeldOrTracked`, `HeldOnce`); and
  nothing is tracked while the process is down (`Down`).
  From `Ownership` and `AddsWanted` (a pass only holds targets its container asks
  for) follows, step by step, the refinement of `RuleLedger` (`ImplementsLedger`);
  and under the hypothesis `RecordsSurvive` (no deletion that fails or is refused, lost answer to
  an addition or failing search) `Accounted`. Each of the three does break it (see
  Limits). What the first two then cost is `LossesAreFailures`: it is proved
  without a hypothesis on deletions and additions, by following which rules a step
  may take off the record. Its only hypothesis is that the searches of a start
  answer: additions whose answer is lost, and crashes, are covered by the theorem,
  while the run has deletions that fail or are refused only.
* `GatewayPassProofs`: four properties of passes that overlap at will, under
  hypotheses that name faults of the environment and nothing else.
  `SteadyContainersKeepRules` as long as listings answer
  (`DaemonsAnswer`): `SteadyListed` follows a container from the list of daemons
  to the current ones, hence never into the loop that deletes. `PendingIsPublished`
  with `NothingIsLost`. `NoDuplicateRules` as long as records survive
  (`RecordsSurvive`), crashes included: what a pass is about to create does not exist
  (`AddsAreNew`), because a container without a record has no rule (`Accounted`),
  and stays so unless another pass comes to the same container, which makes the
  pair contested until the last of its rules and calls is gone.
  `PassesTakeEffect`, the safety core of the gateway's convergence, under
  `AdditionsSucceed`: listings, deletions and searches may fail; a crash, a failing
  addition, a savepoint and a publication that fails do break it (see Limits). Its
  invariant says what each
  loop has achieved so far: the first has released every container it will not
  visit any more and that is not running, the second has rules on
  record, or at hand, for every one that is, both through two visits
  to a container, DNS and NAT; and since `HasDNS` and `HasNAT` only ask whether there is one rule, a
  container with a record always has all its rules or a pass that is about to
  create the rest. Each conjunct exempts the pairs that overlapping passes have
  touched; the work of the proof is that a pair untouched so far is as this pass
  left it, whatever the others do elsewhere, and that what they have touched by then is
  in `disturbed` from the moment they do, also when they began before. A pass that
  ends early because a daemon cannot be listed leaves all of this true, and what is
  changed is published by the same pass.
* `ConfigPushProofs`: `TypeOK`, `NoEmptyPush`, `OnlyAdaptedConfigs` and
  `NoStuckFlag` from the invariant `PushInvariant`. `NoEmptyPush` rests on
  `Configured`: whatever has a positive version has it after some update stored a
  configuration, although versions are read, compared and written in different
  steps of racing goroutines. `OnlyAdaptedConfigs` rests on `Adapted`, which
  follows a configuration through every local copy.
* `PushLedgerProofs`: `OnePushAtATime`, `RecordIsTrue` and `ImplementsPushLedger`,
  for every interleaving of updates, with restarts of servers and of the
  controller, and without hypotheses. Two workers for one server are kept apart by
  its flag, from `Set` to `Delete`, unless they were between `Get` and `Set`
  together, and is only pushed what is newer than its record (`Watched`); no version
  held anywhere is above the last one, and what is sent, run or recorded under the
  last one is the last configuration, once no update is about to count (`Truthful`). `LedgerInvariant` follows a configuration from the
  assignment to the request: the body of a worker is what was stored under the number it
  took (`Sent`), and a server that is not raced for holds nothing newer (`Held`),
  because requests to it exclude each other.
* `LoaderProofs`: each step of `Loader` implements one of `ConfigPush` or stutters
  (`LoaderImplementsPush`), and with its history one of `PushHistory`
  (`LoaderHistoryPushes`), which carries the theorems over (`LoaderPushesSafely`,
  `LoaderRecordsAreTrue`, `LoaderNeverGoesBack`); `LoaderTypeOK`; and
  `AutosaveIsWhole`, with disk failures, failing pushes and crashes in any
  combination: an update that has met nobody at the temporary file renames what it has
  itself written there (`SavedWhole`), across crashes and failing writes.
* `EventThrottleProofs`: `TypeOK`, `OwedIsImminent`, `SkipIsImminent` and `TimerIsKept`,
  which with `TypeOK` are inductive together (`Imminence`): an owed change needs
  the skipping to end, and the end of skipping needs the order of an update's
  steps.
* `GeneratorProofs`: `TypeOK`, `NoGhosts`, `SteadyContainersAreServed` and the
  action property `KnownNetworksStay`. Each rests on what a loop over the clients
  has achieved so far: `Learned` (the map being built holds the networks of the
  clients before the cursor, and no routing mesh), `ServedSoFar` (the containers
  of the clients before the cursor have sites), `NamesSeen` (sites name what
  was seen) and `Rewound` (each loop starts at the first client).
  Then `UndisturbedAreExact`, the safety core of the generator's convergence, under
  the hypothesis `NetworksAreReached` (networks are given, or there is one daemon; see Limits). The
  invariant `CalmIfUndisturbed` says that once one generation is undisturbed all that
  are under way are, and `Calm`: the cached swarm availability is true or has expired,
  and each generation holds exactly what the clients before its cursor contribute
  (`ReadSoFar`), from caches that tell the truth wherever it relies on them
  (`CachesHold`). The hard steps are those of another generation that asks for the
  swarms again, client by client, while this one reads the answers of the last time:
  what is asked again only replaces what was wrong, so an entry this one relies on
  never changes.
* `StartupProofs`: `TypeOK`, `ClientsMatchOptions` and `ListenersInRange`, and
  `ConfiguredStaysReachable` under the hypothesis `AdminsAnywhere`. What an instance
  has open belongs to a process that runs (`Shape`); the clients made so far
  correspond one to one to the sockets before the cursor, each made from the
  variables its own entry set (`ClientsMade`), which the elements appended by the
  discovery of remote hosts leave alone; and the endpoint a server listens on is
  one of those every controller that may push to it derives, before and after each
  push (`InReach`). `AdminsAnywhere` says that an admin setting, in a Caddyfile or
  for a controller, is absent, off or every address; one that names a single
  address does move servers out of reach (see Limits), and `MCStartup` checks the
  hypothesis for its instance.

Induction over data is needed in one place, for the sequences `Within` and the
sets of labels: `StartupProofs` proves induction for subsets of Nat from the
existence of a least element (`LeastNumber`), without an operator as a parameter.

`NoEmptyPush`, `SkipIsImminent`, `RecordsAreOwn` and `LoaderTypeOK` are proved and in
no run: the first two are conjuncts of the inductive invariants `PushInvariant` and
`Imminence`, the third follows from `Ownership`, the last is the invariant that
the proofs about `Loader` need of its own variables.

Only model-checked: liveness (`Converges`, `StoppedAreCleaned`,
`EveryChangeIsRead`, `AutosaveFollows`, `GatewayFollows`, `DocumentedSetupsWork`),
which these provers cannot do under fairness (of the two `Converges` of the gateway
and the generator the safety part is proved: what a pass or a generation achieves
that runs undisturbed; that one does run is left to TLC); and the properties of `Caddyfile`,
whose definitions are recursive operators over texts, out of these provers' reach.
So is what the three runs that end in a violation show.

## Not modelled

* The gateway's label parsers as functions of their text (`splitDomain`,
  `buildNATRules`, `MakeDescription`, `extractContainerID`): `Gateway` has what
  they select. They are plain string functions with unit tests of their own.
  `cid[:12]` (`loader_gateway.go:149`) therefore cannot panic in the models.
* Options that are only passed on (label prefix, Caddyfile path, intervals,
  switches; the last two are constants of the models) and the registration of the
  command and of the module `log`.
* A server that is named twice among the controlled ones (`loader.go:303`): two
  workers of one update, the second of which finds the flag of the first.
* The Docker clients are wrappers without state; the models see their results. The
  mock generator is a development tool that prints Go, and the generated types
  have no behaviour.

## Plan

1. `Generator` composed with `Loader` in place of `Generate`, with remote hosts
   that the listener follows and the generator does not read.
2. The servers as a sequence with repetitions.
3. `Labels`: the gateway's parsers on bounded texts, and `cid[:12]`.
