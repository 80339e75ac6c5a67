# Formal models of mu2edaq-resource-manager

The service is the single arbiter of the hardware resources of the Mu2e DAQ:
clients reserve and release named resources over HTTP, the server grants or
denies whole lists of them, and keeps who has what in a JSON file. This
directory models the server, its tools and demos, its web page, its start and
stop scripts, its discovery protocol and its parsing and printing of ports in
TLA+, checks small instances with TLC, and proves every safety invariant, action
property and refinement of the passing runs with TLAPS for instances of any size.

    tlc -workers 2 -config ResourceManagerFaults.cfg ResourceManagerMC.tla
    tlapm ResourceManagerProofs.tla

`PROJECT.json` lists the runs, the source lines of every definition, the
hazards and the theorems.

## Inventory

| Component | Source | State | Operations |
|---|---|---|---|
| Reservation table | `server/resource_manager.py`, `models.py` | `_resources` (status, owner, who of each key), `state.json`, `state.json.tmp` | load at start, with the parsing of ports; reserve, release, release-all, each with `_save_state`; list, get, status |
| REST API, authentication | `server/mu2e-resource-manager.py`, `auth.py` | the token table, requests in the thread pool and on the event loop | `require_principal`, four authenticated endpoints, three open ones |
| Command-line tools | `cli/rm_cli.py`, `src/cli/main.cpp`, `src/ResourceManagerClient.cpp` | one request and its ten seconds | reserve, release, release-all, list, get, status; exit status |
| Demo clients | `client/demo_client.py`, `src/demo/demo_client.cpp` | the request that is open, what it reserves | a list, a reservation, a conflicting one, a release |
| Lifecycle scripts | `scripts/start_server.sh`, `stop_server.sh` | the pidfile, processes, ports | start (daemon, foreground), stop |
| Web page | `web/static/app.js`, `index.html` | token, `_identity`, filter, drawn table, requests in flight | whoami, list, auto-refresh, reserve, release, reload |
| Discovery | `server/discovery.py`, `discover()` in both tools | datagrams, the endpoint a tool settles on | respond, search, fall back |
| Build scripts, man pages, CSS, configuration, OIDC | | | not modelled (see below) |

How they interact: tools, demos and the page call the API over HTTP; the API
resolves the caller (`auth.py`) in a thread pool and then calls the one
`ResourceManager` object on the event loop; that object and every restarted or
second process share `state.json`; the scripts share the pidfile; a tool
without a host asks the discovery responder, a thread of the server process.

What is hard in it, and what makes each part correct:

- *Table and file.* Memory is changed before the file is written and not rolled
  back if the write fails; a process may die between any two steps of
  `_save_state`, and restart on another configuration. Correct: no resource has
  two holders and nothing a client was told is lost while its key stays configured,
  the file is never torn, the three fields of an entry agree.
- *API, tools and demos.* A request that its program has given up on is still
  served, later ones overtake it. Correct: exit statuses do not lie, a refused
  list is left alone altogether, ownership moves by the token and nothing else,
  a demo cleans up after itself.
- *Scripts.* Two scripts, dying servers and reused process numbers meet
  between two shell commands. Correct: one daemon at most, a pidfile that
  names it, a stop that leaves none, no daemon on an outdated table.
- *Page.* Identity and rows come from different requests in any order.
  Correct: buttons fit the identity shown, the table catches up.
- *Discovery.* Datagrams are lost, several servers and other programs answer, a
  server before it has its port, or without ever getting it. Correct: where an
  answer can lead to its server at all, it leads there and to no other.
- *Ports.* Ranges overlap, touch, are swapped or repeated, and two loops can
  drop their last element. Correct: what is printed is what is configured.

`PROJECT.json` names each hazard at its line, with the properties that cover it
or the reason none does.

## Modules

    ResourceTable <-- ResourceManager <-- ResourceManagerMC
         ^  ^  ^          |      ^------- ResourceManagerProofs <-- DurableArbiterProofs
         |  |  |          +-- implements Arbiter, DurableArbiter
         |  |  +-- ApiServer <-- ApiServerMC          (INSTANCE Auth)
         |  |          |  ^----- ApiServerProofs <-- BookingProofs
         |  |          +-- implements Arbiter
         |  +----- Daemon    <-- DaemonProofs
         |             +-- implements Arbiter
         +-------- WebUI     <-- WebUIMC, WebUIProofs (INSTANCE Auth)
    Discovery <-- DiscoveryMC, DiscoveryProofs
    Ports     <-- PortsMC, PortsProofs

**ResourceTable** has the checks and changes of the operations as operators on a
table, and what `__init__` makes of a configuration and a state file. A
list of identifiers is a set: both loops of an operation treat a repeated key
alike. Location and ports are never written after the start and are left out.

**ResourceManager** is one server process and its files. The handlers are
`async def` functions that never await, so the validation and the change of
the table are one step; every effect on the disk is a step of its own (`OpenTmp`,
`DumpTmp`, `ReplaceState`), any of them may raise (`SaveFails`: the 500 that
leaves the change in memory), and the process may die after each (`Crash`).
`Start` loads any configuration of `Configs`. Two variables are history: `held` is what
each principal has been told it reserved and nobody entitled to has asked to
release, and `dropped` is the part of it that a save left out of the state file
because the server had been started without the key (`_save_state` writes the
configured keys only). A start alone drops nothing: a key that comes back before a save
brings its reservation back.

**Arbiter** is the abstract promise: a function from resources to holders, whole
lists granted to one principal, taken back by the holder or an operator. The
refinement maps the holder of a resource to its owner in the state file, so
`os.replace` is the moment a call takes effect. ApiServer implements it with the
owner in memory, for requests that are late or overtaken, and Daemon with the owner
in the state file, for the daemons that follow each other.

**DurableArbiter** is what remains of that promise when saves fail and every start
may find another configuration: one request at a time, granted whole or not at all;
a record that is always what was granted at the end of some change, but may be
behind; and a confirmation of a change only when the record has it. `Fail` keeps the
change and loses the confirmation, as the 500 of a failed save does. A call of
ResourceManager that changes nothing is answered 200 without a save, and so is one of
`DurableArbiter`: this is why it does not promise what the run `ghost` refutes.

**Auth** is the token table and `require_principal`. **ApiServer** puts tools,
demos, network and server together: a program sends a request, waits, gives up;
the server authenticates, then handles. A call is one step here, which the
refinement above justifies. With `Unreliable`, connections break and programs give
up; without it every request is answered in time, as in the README's example. `asked` has the requests in the order they were
sent, and a position in it identifies a request; `done` has those that had their
effect, in the order they had it. `TableIsHistory` reads the owners off `done` alone.
Requested resources need not be `Configured`: a get of one that is not is the 404. A
demo's requests that change nothing and whose answers it only prints
are part of the next one: that it can fail there is in `GiveUp`.

**Daemon** has the two scripts command by command, the pidfile, and processes that
load the file, bind their port, serve, stop and die. Process numbers of dead
processes go to new servers and, with `PidReuse`, to other programs. `run` and
`company` of a process are history: whether the scripts know of it, and whether
a server they do not know of has lived beside it. `CallsGoOn` says that a call of a
daemon without company is a step of the arbiter whose holders are the owners in the
state file.

**WebUI** is one tab of the page: an event runs to its first `await`, the rest runs
when the answer arrives. Requests in flight are slots that complete in any order.
A click whose page was loaded again is a post that is `left`: it may still be
served, and nobody waits for it.

**Discovery** has both `discover()` functions, which differ in what they do with
datagrams that are empty or JSON without an object, the choice of the endpoint,
and the responder that answers before the HTTP port is bound. Servers may share a machine
and a port; one whose port is taken (`Clash`, as Linux binds ports) answers broadcasts
until it stops. `lan` of a server is what `_primary_lan_ip` may return on its machine: the
machine's address, 127.0.0.1 while there is no route, another interface's address.
`Findable` says from which machines the address in an answer can be right at all, from
the settings alone.

**Ports** follows one value of `ports:` through the loop of `_parse_ports`, the
sort and the loop of `_format_ports`, an item at a time. `DisplayExact` is the
reference definition: what the value denotes, without either loop.

Definitions whose comment begins "Slip" are not part of any specification: each
is a definition with a plausible bug, which the property it is listed with in
`PROJECT.json` must catch.

## What the runs show

States are distinct states; "expected violation" marks a run whose
counterexample documents a disagreement between code and documentation.

| Run | Instance | Shows |
|---|---|---|
| `faults` | 2 resources, 2 clients, an operator; saves fail, processes die, any configuration at a start; 3.4 million states | types, consistent entries, no torn file, no double grant and durability of what was told, unless a save has dropped a reservation with its key; owners change by release only; implements `DurableArbiter` |
| `restarts` | the same with one configuration, annotations and no failing saves; 21 000 states | implements `Arbiter`; what was answered is on disk; what a release-all gave back stays free; a call is answered (liveness) |
| `api` | 2 terminals, 3 programs out of 9, one of them perhaps a demo, 2 resources and one the server does not have, a token file with skipped and repeated entries; 3.2 million states | exit 0 means done, a refusal changes nothing, a demo cleans up, ownership moves by tokens, the table is what the requests served make of it; implements `Arbiter` |
| `daemon` | 1 terminal, 3 process numbers that other programs may get, 2 ports, foreground servers, full disks; 1.1 million states | at most one daemon, the pidfile names the serving one, after a stop none is left, memory equals the file, a call continues from all that was granted before, a stop ends (liveness) |
| `web` | 2 tokens, 2 filters, 2 slots, 3 user actions; 262 000 states | buttons fit the identity, the table converges (liveness) |
| `discovery` | 3 servers, two of them after one port, the third on a machine that may have no route, 3 tools on 2 machines, 1 foreign datagram; 2.1 million states | an answer leads to the server that gave it; when that one does not serve, to nothing but the holder of its port |
| `ports` | ports 1 to 4, every bare value and every list of at most 2 items; 3 000 states | the ranges printed are the ports configured, and as few as can be if no port is configured twice |
| `ghost` | expected violation | a release whose save failed, repeated as release-all, is answered 200 and is back after the next start |
| `api_cpp_release_all` | expected violation | `rm-cli release-all` exits 0 when it was refused |
| `api_readme` | expected violation | the README's C++ example: a reserve that is answered 200, then a releaseAll that is served, and the resource stays reserved |
| `daemon_two_starts` | expected violation | two starts at once leave a pidfile that names the wrong process |
| `web_identity` | expected violation | an older whoami answer overwrites a newer identity |

Bounds. Two resources are the least at which a list can be partly free; two
clients the least that can conflict, a third principal is the operator. No
operation treats two keys or two callers by more than equality, membership and
role, so more of them add no new case. Three programs let a late request meet
one that was served and one that was refused, and a demo meet two others in its
four requests. Three process numbers allow a daemon, a server beside it and a
stranger. Three user actions and two slots allow every reordering of two
requests of a kind. Two servers on one port are the least of which one can answer for
the other's endpoint. Two items over four ports overlap, touch, leave gaps and swap
their bounds. `MaxPrograms`, `MaxDemos`, `MaxMoves`, `MaxForeign` and `Slot` are
the only bounds of behaviours; servers, the timer and the network go on for ever.
In the API, web and ports runs everything may have been done, so deadlock is not
an error there; in all others it is. No theorem depends on a bound: they hold for
every value.

Fairness. `ResourceManager!FairSpec`: the event loop runs a handler it has
started (weak fairness of `ServerStep`). `Daemon!Spec`: a shell goes on to its next
command, and a server that has started comes to its bind; nothing forces a
server that was told to stop to exit. `WebUI!Spec`: the timer ticks and requests
are answered (weak), lists not with an error for ever (strong fairness of
`ServeList` and `Draw`). Nothing ever forces users, clients, crashes or restarts.

## Proofs

Every theorem holds for all values of the constants its module declares, under the
named `ASSUME`s there (`None` is no value of another kind, jobs and configurations
are well-formed) and the hypotheses below. Each proof names an inductive invariant,
has one lemma for each action or shape of action, and ends in temporal steps.

| Module | Theorems | Hypotheses |
|---|---|---|
| `ResourceManagerProofs` | `TypeCorrect`; `AlwaysConsistent`: status, owner and who agree in memory and both files; `Durability`: what a client was told is on disk, and in memory under a configured key, until released or dropped by a save without its key; `MutualExclusion`, with the same exception; `NeverTorn`; `Ownership`: a resource changes hands only through a release | saves may fail, any configuration at any start |
| | `Refinement`: the server implements the arbiter; `AnsweredPersists`: a change answered 200 is on disk; `ReleaseAllLasts`: what a release-all gave back stays free | `Reliable`: saves do not fail, the configuration stays |
| `DurableArbiterProofs` | `DurableRefinement`: the server implements the durable arbiter | saves may fail, any configuration at any start |
| `ApiServerProofs` | `TypeCorrect`; `RefusedNeverDone`; `TokensMoveOwners`; `ArbiterRefinement`: the server implements the arbiter; `OnlyReleaseAllMisleads`: exit 0 of a tool means its command was done, or the command is the C++ release-all | none |
| | `ZeroIsHonest`: exit 0 of a tool means its command was done | no job is the C++ release-all |
| `BookingProofs` | `DemosCleanUp`: after a release that succeeded nothing of the demo is left; `HistoryMakesTable`: the owners are what the requests served, in their order, make of them | none |
| | `ReleaseAllEnds`: release-all of a client id ends the use of what was reserved with it | `OwnNames`: no demos; reservations carry the name of their principal |
| `DaemonProofs` | `TypeCorrect` | none |
| | `OneDaemon`, `PidfileTells`, `StopLeavesNone`, `DaemonKnowsFile`; `CallsGoOnFromFile`: a daemon's call is a grant or release on top of all earlier ones | `Serial(s)`: one terminal |
| | `DaemonsAreOneArbiter`: the state file implements the arbiter over all daemons | `Serial(s)`, no foreground server, pidfiles can be written |
| `WebUIProofs` | `TypeCorrect`; `ButtonsMatch`; `OnlyLateAnswersMislead`: the identity stops being the token's only in a late whoami answer | none |
| `DiscoveryProofs` | `TypeCorrect`; `AnswerLeadsThere`: the address in an answer leads to its server while that serves; `NoOtherServer`: a connection leads to the server that answered, to none, or to the holder of its port when it does not serve | none |
| `PortsProofs` | `Exact`, `Compact` | none |

Each expected violation has a theorem that says how far the code is from the
property it breaks:

| Run | Its complement |
|---|---|
| `ghost` | `ReleaseAllLasts`: without a failed save, and with one configuration, nothing comes back |
| `api_cpp_release_all` | `OnlyReleaseAllMisleads`: no other command, tool or exit status is affected |
| `api_readme` | `ReleaseAllEnds`: with tokens whose principals have the names used, the example works |
| `daemon_two_starts` | `PidfileTells`: one terminal, however much it starts and stops, cannot do it |
| `web_identity` | `OnlyLateAnswersMislead`: no other event, in any order, does it |

Why the invariants have to be stronger than what they show:

- *ResourceManager.* Between the change in memory and `os.replace` the file is
  behind the table. `IInv` adds what closes the gap: only a running process is
  inside a handler; when the replace is due the temporary file is the table in
  memory; a reservation about to be answered 200 is in memory, and on disk once the
  answer is due. `EntriesConsistent` is part of it, because reserve looks at the
  status and release-all at the owner, and only their agreement makes a grant take
  nothing from an owner. `MutualExclusion` follows: what is held and not dropped (`Kept`)
  is owned on disk, and an entry has one owner. For the refinement `RInv` adds that table and file
  differ only while a save is under way, by exactly its call. `ReleaseAllLasts` follows
  from it.
- *DurableArbiter.* Here table and file may differ at any time. `DInv` adds to `IInv`
  that a handler serves one call from check to answer (`ServesOne`) and that between
  `os.replace` and a 200 the file is the table (`ConfirmedIsSaved`). One lemma for each
  operator of the table says what it does to the owners; with consistent entries a
  guard on the status is one on the owner.
- *ApiServer.* A request is in one place: in the inbox and without effect, or
  served. `AnswersTrue` and `ExitsTrue` say that what an answer tells was true when
  it was sent and that the request is not in the inbox any more, so that nothing
  can make it false. `CallersTrue` ties the caller in the inbox to the token, which
  with the consistency of the table gives `TokensMoveOwners`; and the step that moves
  owners is a grant or release of the arbiter, which gives `ArbiterRefinement`.
- *Bookings.* `TableIsHistory` is inductive beside `IInv`: a served reservation is the
  last position of `done`, so it is the last booking of its resources and nothing has
  given them back; any other request leaves the last booking where it was.
  `ReleaseAllEnds` reads the last position: with `Plain` (who reserved was let in,
  as a principal with the name in the request) a release-all that comes last gives
  back all that was booked with its client id.
- *Demos.* `DInv`: of a demo's requests only the last can still be in the inbox
  (`OneOpen`), what it reserved is within what it releases (`WithinWant`), and a
  resource with an owner has been booked. So nothing of it is served after its
  release, and what was booked before is freed by it.
- *Daemon.* `Known(s)` says what the script knows at each of its commands: the
  pidfile names the daemon unless the script is just replacing it; when it removes
  the file or launches, there is no daemon. `Fresh`: a daemon without company has no
  server beside it that could write the file, so its table stays the file.
  `Sound` (consistent tables in the file and in every process) makes a call on that table
  a step of the arbiter, and `NoStrays` says that without foreground servers and failing
  pidfiles every server is such a daemon.
- *WebUI.* Types and the property itself: every change of identity sends a list, and
  every list is drawn for the identity of that moment. `OnlyLateAnswersMislead` needs that
  a whoami on its way was sent with a token (`AsksHaveTokens`).
- *Discovery.* Every endpoint in a datagram is one its sender may advertise, a tool
  that was answered has exactly that one, and no two servers that serve have bound the
  same port (`PortsExclusive`): what a findable server advertises leads to it alone
  while it serves (`LeadsHome`), and only ever to its machine (`LeadsToMachine`).
- *Ports.* What is parsed so far is what the items so far denote; what is closed,
  the open range and the ports to come are together the ports; between closed
  ranges there are gaps.

TLC has checked these invariants on the instances of the runs.

Only model-checked: the liveness properties `CallAnswered`, `StopEnds` and
`TableConverges`, which TLAPS does not reach. The refinements are of safety
specifications, so none of them is about fairness. `DaemonsAreOneArbiter`,
`OnlyReleaseAllMisleads` and `OnlyLateAnswersMislead` are proved and have no run of
their own: the first two are about instances like those of the runs `daemon` and `api`
with other constants or a weaker property, the third about the run `web_identity`.

## Disagreements the models show

The five expected violations are described as findings in `PROJECT.json`. Met
while modelling, without a run:

- A server reads the state file before it binds (`mu2e-resource-manager.py:221`,
  `:251`). With foreground servers, one that reads early and gets the port late
  serves, and then saves, a table without the last reservations.
  `MemoryIsFresh` holds for daemons beside which no such server has lived.
- A start with a `resources.yaml` that lacks a reserved key hides the reservation,
  and the first save drops it (`resource_manager.py:96-99`), though nobody has released
  it. When the key comes back, another client is granted the resource while its
  holder has been told that it has it. `HeldIsDurable` and `NoDoubleGrant` name this
  exception (`dropped`).
- The default bind host 127.0.0.1 is advertised as it is to tools on other
  machines, and a machine that finds no route at the moment of a reply advertises
  127.0.0.1 for a server on all interfaces (`discovery.py:32`): those tools are sent to
  themselves. On a multi-homed machine the address may be another interface's, of which
  `README.md:255` warns. `Findable` leaves these cases out for other machines and
  keeps them for the server's own.
- The responder starts before the port is bound (`mu2e-resource-manager.py:226-251`).
  A second server on a taken port answers broadcasts with the endpoint of the first until
  it ends; the tool then talks to the first. `NeverAnother` says that it can be no other.
- The Python `discover()` raises on a JSON datagram that is no object
  (state `raised`), though its docstring knows only a result and None.
- `stop_server.sh` signals whatever process has the number in the pidfile; a
  pidfile that could not be written orphans the server it was for.
- The release of a demo is refused as a whole if another client of its principal,
  or an operator, has freed one of its two resources. The other stays reserved,
  and the demo ends with status 0, "Demo completed successfully"
  (`man/man1/demo_client.py.1`). A demo that ends with 1 after its reservation
  leaves it too.
- The Python demo sends no token, so with authentication on it ends at its first
  reservation with a 401 reported as an unexpected failure.
- `load_env.sh:5` says that a variable set in the environment is not overridden;
  one that is set but empty is. An administrator who starts the server with an
  empty `RM_AUTH_DISABLED` gets the value of `.env`.
- `DiscoveryResponder` names its event `_stop`, which hides a method of
  `threading.Thread` that `join()` calls on older Pythons; nothing joins it.

## Not modelled

- The OIDC backend (a stub that raises) and the optional `mu2edaq_discovery` package,
  whose source is not here.
- Build and bootstrap scripts, man pages, style sheet, configuration data; the
  arguments and environment variables of the programs, which are read once and are
  constants of the models.
- How a resource's class, name and enumerator are joined to a key: with colons inside
  a part two resources can share one (listed as a hazard). A key is a model value.
- Of the tools, what they print besides the ports of `rm_cli.py`: the C++ tool prints
  a list as it is, the page its first and last port only. Of the page: status badges, the
  operator label, collapsed categories and messages.
- Interleavings inside a handler: all handlers run to their end on one event loop, so
  the lock of `ResourceManager` is never contended, and `list_resources` cannot see
  a table that changes while it looks.
- An empty `--state` (no file at all), and what the kernel writes back after a power
  failure.

## What is left

The plan of the project (table and file with the refinement; API and tools; scripts;
page; discovery; ports; demos; proofs of all safety invariants, action properties and
refinements) is done. Worth adding:

1. `ResourceKey`: `_resource_key` on parts with colons, and the order in which
   `_load_config` overwrites.
2. `Settings`: command line, environment, `.env` and defaults in `parse_args`,
   `load_env.sh` and `rm_cli.py`, with the priority `load_env.sh` promises.
3. Status badges and the operator label in WebUI.
