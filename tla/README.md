# A TLA+ model of Kenshi Online (kenshic)

Kenshi Online turns the single-player game Kenshi into a multiplayer one. A
dedicated server (`src/mp/KenshiMP.Server`) keeps players, entities and the world
save. A library injected into the game (`src/mp/KenshiMP.Core`) finds the game's
functions in memory, hooks them, and keeps each client's view of the other
players' characters in step with the server. A master server lists the servers.

The modules here model the parts in which several actors share state: peers that
come, go and return on the server, and what it relays between them; the worker pool
under the client's frame pipeline; the registry that ties network ids to game objects;
how a remote character is found, created, moved and removed by two threads; the
client's way from the menu through loading and connecting to play; and what lies below
and beside a session: hooks, globals, the loading gate, hosting, and the server list.
They are checked by TLC on small
instances (`*.cfg`), and the central invariants are proved with TLAPS for every
value of the constants. `PROJECT.json` maps each definition to the lines it models.

## 1. Inventory

| Component | State | Operations | Interacts with | What makes it correct |
|---|---|---|---|---|
| Server sessions and ownership (`server.cpp`) | `m_players`, `m_entities`, `m_savedPlayers`, host id, id counters, `peer->data` | connect, handshake, disconnect, kick, spawn, despawn, build, dismantle, orphan cleanup, save, load | ENet events under one mutex; console thread | sessions agree with peers; the host is connected; a returning player gets back what was his and nobody else's; ids are never reused |
| World save (`world_persistence.cpp`) | the save file | save, load, backup | server start, stop, timer, console | a restart restores what was saved; a bad file does not corrupt ids |
| Server relay handlers (`server.cpp`, `combat_resolver.cpp`) | entity health, position, inventory, doors, squads, factions, time | some 25 message handlers | broadcast to clients | only the owner moves an entity; the dead stay dead |
| Interest and heartbeat (`server.cpp`, `zone_engine.cpp`) | zones of players and entities | zone request, per-client heartbeat | client registry | a client is told of every entity near it |
| Client phases, loading and connecting (`core.cpp`, `render_hooks.cpp`, `overlay.cpp`, `client.cpp`) | `m_clientPhase`, `m_gameLoaded`, `m_connected`, ENet peer and flags, retry state, hook switches | loading gap, game loaded, connect, retry, handshake, loss, disconnect | game and network thread; the user's commands | the hooks follow phase and connection; a link is greeted once; a loss is noticed; an attempt ends |
| Join barrier and lobby (`server.cpp`, `core.cpp`, `lobby_manager.cpp`) | ready flags | ready, all ready, faction assignment | spawns are deferred until the barrier opens | the barrier opens when everybody is ready, also after departures |
| Worker pool and frames (`task_orchestrator.cpp`, `frame_data.h`, `sync_orchestrator.cpp`, `core.cpp`) | task queue, pending counter, two frames | post, wait, swap, start, stop | game thread and workers | nobody reads a frame that is being written; nobody waits for ever |
| Entity registry (`entity_registry.cpp`) | `m_entities`, `m_ptrToId`, `m_nextId` | register, link, remap, unregister, clear | every thread of the client | no stale pointer or id; local and server ids do not collide |
| Remote spawns (`packet_handler.cpp`, `core.cpp`, `entity_hooks.cpp`, `spawn_manager.h`, `deferred_spawn_queue.cpp`) | spawn queue, deferred queue, per-player counters | spawn, despawn, player left, heartbeat, serve queue, hijack, clean up, disconnect, load | registry, both threads | one character per entity; nothing waits for ever; what the server removed goes |
| Own characters, factory hook (`entity_hooks.cpp`, `core.cpp`, `player_controller.cpp`) | candidate factions, hook mode, registered characters | create, vote, resume, revalidate, scan, announce | registry, handshake | the own squad is announced, and nobody else's |
| Authority and pending updates (`authority_validator.cpp`, `pending_snapshot_queue.cpp`) | pending snapshots | validate, queue, flush, clean up | registry, interpolation | an update for an entity that is not there yet is neither lost nor applied to another |
| Loading gate (`loading_orchestrator.cpp`, `asset_facilitator.cpp`) | burst and cooldown timers | resource and create events, `CanSpawn` | spawn queue | the gate opens after every load |
| Embedded server (`embedded_server.cpp`) | thread and state | start, stop | UI, server | stop joins; start after stop works |
| Master server (`MasterServer/main.cpp`), server browser (`server_query.cpp`) | list of servers; pending queries | register, heartbeat, deregister, prune; query, refresh, time out | servers, browsers | live servers are listed, dead ones are not; every query ends |
| Interpolation (`interpolation.cpp`) | snapshot rings, snap blends | add, interpolate, remove | frames, tick | order and bounds of a ring; a body comes to rest where its owner's is |
| Templates (`spawn_manager.cpp`) | factory, manager, templates per player | capture, scan, choose, make | spawn queue | a player's body is made from his own template |
| Sync orchestrator (`sync_orchestrator.cpp`, `player_engine.cpp`, `zone_engine.cpp`) | sessions, zones, timers | initialise, tick stages, reset | registry, spawn queue, handlers | sessions follow the server; no request is lost between two pumps |
| Teleport of a joiner (`core.cpp`, `core.h`) | host point, timer, done flag | note the point, wait, teleport, /tp | spawn handler, position poll | once a session, to a place of this session |
| Hook manager (`hook_manager.cpp`, `mov_rax_rsp_fix.cpp`) and scanner (`orchestrator.cpp`, `patterns.cpp`) | installed hooks, generated pages, resolved addresses | resolve, install, enable, disable, call | every hook | a hook sits on a function entry, is on when play needs it, and returns to its caller |
| Game accessors, SDK, UI, injector, tools, tests | none shared, or the game's memory | guarded reads and writes, drawing | | see section 7 |

**Threads.** Server: `GameServer::Update` holds `m_mutex` for a whole tick, so a
message handler is atomic; the console thread's save and kick take the same mutex.
Client: the game thread (Present and TimeUpdate hooks, CharacterCreate hook), the
network thread (packet handlers), and two workers. The registry and the queues lock
per call and nothing holds across calls.

**Where the difficulty lies.** Reconnections that overtake the timeout of the old
session; handlers that fail half way; crashes between saves; tests and links that
are two calls on two threads; messages dropped or deferred while a save loads;
condition variables notified without their mutex; caps, retries and counters that
several paths maintain. `PROJECT.json` lists each hazard at its line.

## 2. Modules

| Module | Models | Notes |
|---|---|---|
| `GameServer` | server sessions, host, ownership, save and load, crash | one action per handler; peer slots carry the delay between asking ENet to disconnect and its event |
| `OwnershipLedger` | what the server promises, without sessions, ids or files | abstract specification |
| `GameServerLedger` | the refinement mapping from `GameServer` to `OwnershipLedger` | an entity belongs to its owner's name or to the name whose record holds it |
| `FramePipeline` | `TaskOrchestrator` and the double buffer on top | every atomic access, critical section, predicate test, block and notify is a step |
| `EntityRegistry` | the registry, called by anybody with any argument | one action per method, as each holds `m_mutex` throughout |
| `RemoteSpawns` | network and game thread creating and removing remote characters | composes the methods of `EntityRegistry` with their callers; a handler is cut at each registry or queue call |
| `ClientSession` | phases, recognition of a load, connecting, retrying, loss and disconnect, hook switches | a step is what one thread does between two accesses to state the other one writes |
| `CharacterCreation` | the factory hook, the search for the own faction, the scan that announces the squad | a hook call is two steps, around the factory |
| `RemoteMotion` | position updates, authority test, pending updates, interpolation | positions on a line, in whole units to which divisions round down; time in ticks |
| `SpawnTemplates` | where the bodies of remote players come from | memory is a sequence of entries, of which a scan meets some |
| `SyncEngines` | player and zone engine, their handlers, start and reset of the orchestrator, the server's answer to a zone request | the path `useSyncOrchestrator` turns on |
| `OrchestratorStages` | the orchestrator's position poll and spawn stage, beside Core's own queue | two pumps and the network thread on one queue |
| `HostTeleport` | teleport of a joiner to the host, /tp, Core's own position poll | extends `OrchestratorStages`: same own character |
| `RelaySync` | items, gear, relations, positions, doors, squads and notices through the server, snapshot for late-comers | hooks as written, whether or not they fire (`HookStartup`) |
| `CombatSync` | knock-outs, deaths, wounds: hooks, server, other clients, their hooks | two threads per client, two reliable channels |
| `JoinBarrier` | slots and factions, readiness, claims and links of mod characters | |
| `MasterList`, `ServerBrowser` | the public list from both ends of a link; the query client | the ends of a link notice its end separately |
| `HookStub`, `HookStartup`, `GlobalPointers` | a generated detour; the life of a hook; the search for PlayerBase | what checks tell apart of an address |
| `LoadingGate` | when spawning is allowed, and the forced opening | the test of the gate is two steps |
| `EmbeddedHost` | hosting in the game process, with the port mapping | game and server thread share state and stop flag |
| `GameServerProofs` | theorems about the server, its refinement of the ledger included | |
| `FramePipelineProofs`, `EntityRegistryProofs` | theorems about the workers and the registry | |
| `ClientSessionProofs` | theorems about the session and `CharacterCreation` | |
| `RemoteSpawnsProofs` | the threads' use of the registry, queue and caps, orchestrator stages, teleport, engines | |
| `WorldSyncProofs`, `CombatSyncProofs` | join barrier, relay and motion; knock-outs and deaths | |
| `PlatformProofs` | stub, hooks, globals, lists, gate, embedded server | |
| `MC*` | constants, symmetry for TLC; groups of independent modules | see Runs |

Definitions keep the names of the code (`HandleDisconnect`, `SetGameObject`,
`PopNextSpawn`, ...). An operator whose comment begins "Mutant of" is a plausible
bug of the definition below it; replacing the definition by it must violate a
property, which shows that the property can fail.

**GameServer.** `link`, `loopback` and `peerData` are the ENet slots, `players`,
`entities`, `saved`, `host`, `nextPlayer`, `nextEntity` the members of the same
meaning, `disk` the save file. A position is "ok", "far" or "nan", which is what the
load distinguishes. `UniqueNames` and `AllocCanFail` switch two parts of the
environment: a name connected twice, and a failing allocation in the handshake.
A load succeeds, drops entities it finds invalid, or throws half way.

**FramePipeline.** A worker goes through the loop test outside the mutex, the
predicate, blocking, taking a task, running it on the buffer that was the write
buffer when the task started, decrementing and notifying. The game thread waits,
swaps, applies, clears, counts and pushes two tasks. `UseSyncOrchestrator` selects
the newer pipeline, whose `Reset` rewinds the buffer indices; the flag is off by
default in the configuration.

**EntityRegistry.** An entity is its object, owner, zone, side and state. Payload
is left out. `BadObjects` are the addresses the pointer check rejects.

**RemoteSpawns.** The server is external: it sends messages about entities that are
unborn, live or gone, reliably and in order; a spawn may be repeated, because a zone
request repeats it. `net` and `game` hold the place of the two threads in their
handlers. Looking for a mod character may miss it. The factory may fail, a hijack
may fault before or after the link, an object may be freed by the game. `ready`
stands for the phase: after a load under a session the phase is GameReady, so a
later save loaded over the game is noticed (`LoadingGap`) and clears the registry.

**ClientSession.** `phase`, `gameLoaded` and `connected` are Core's atomics,
`cConnected`, `cConnecting` and `wire` the client's flags and ENet peer, `ov` and
`attempts` the overlay's connection state, `passthrough` and `combat` the switches of
the creation hook and of the death and knock-out hooks. `pc` walks the game thread
through one frame (`Present`, `Overlay::Update`, `OnGameTick`), through
`OnGameLoaded`, which two places call, and through the user's commands; `net` walks
the network thread through the handshake answer. `gap` is the time since the last
Present in the three classes that `HookPresent` tells apart. A timer that has run
out is a choice between an action (`AutoFires`, `RetryFires`, `PollFound`) and
passing it by. `HandlersOverlap` says whether the user, a stall of seconds or the end of
a disconnect may fall inside a handler, which runs for microseconds; it is FALSE in the
runs. With TRUE, `SilentWhenOffline` and `LoadingIsLight` fail, the other
properties hold.

**The newer modules** open with what they cut and what they leave out, and say next to each
variable which member it stands for; a variable marked "not in the code" is a record
of the past that a property needs. Where time matters it is an age that stops at its limit
(`LoadingGate`, `SyncEngines`, `HostTeleport`); where memory matters it is what the
code's checks tell apart (`GlobalPointers`, `HookStartup`, `SpawnTemplates`); messages
travel in one sequence per channel of ENet (`CombatSync`, `RelaySync`, `SyncEngines`).

**Composition.** `RemoteSpawns` composes the registry with its callers, `HostTeleport`
the position poll with the teleports, `GameServerLedger` maps the server to its ledger.
Where two modules model the two ends of one thing they meet in a named abstraction: the
gate is fairness of the queue in `RemoteSpawns` and proved to open in `LoadingGate`;
the queue Core pumps is one step in `OrchestratorStages` and many in `RemoteSpawns`;
"a body comes from the factory" is a choice there and a search in `SpawnTemplates`.

## 3. Runs

Several modules share no variable. An MC module then groups them: the constant `Parts`
names them, a behaviour has one `focus`, only that part moves, and the others stay in an
initial state. The group checks exactly what separate runs would, since interleaving
independent parts adds nothing. A property of a group is the conjunction of its
parts' properties, each of which is named and commented where it is defined.

Passing:

| Run | Checks | Instance |
|---|---|---|
| `server_sessions` | types; `SessionsSound` (slots, players and host agree); `OwnershipSound` (owners are there, one claimant per entity, nothing stranded, ids fresh); `NoTheft`; `ImplementsLedger` | 3 slots, 3 names, 2 places, 2 entity ids, 3 accepted handshakes |
| `server_failures` | `NoDoubleClaim` and `ReclaimAll` with duplicate names, failing allocations and NaN coordinates | 2 names |
| `frame_pipeline` | exact pending counter, swap only when no task is outstanding, every posted task is taken | 2 workers, 2 disconnects, any number of ticks, fair scheduling |
| `remote_spawns` | `BodiesRight`: retry bounds of spawns; `TemplatesRight` (a player's character entry wins if it was seen, and his bodies come from it); `EnginesSound` (sessions and zones follow the server's messages); `StagesSound` (no request lost between two pumps, scan and direct spawns limited, positions sent); `TeleportSound` (once, after the wait, to a point of this session) | 2 entities of one player, 3 objects, 2 messages, 2 sessions; 4 GameData entries, 2 slots; 3 player ids, 3 zones; 3 spawn messages; 3 positions |
| `spawn_liveness` | `Spec` of `EntityRegistry`: the two threads together implement the registry, so what is proved of it holds here. Requests are served, Spawning ends, ghosts are swept | spawns only, 1 session |
| `client_session` | `HooksFollowSession`, `OneHandshake`, `LostNoticed`; `CreationSound` (characters announced as own are of one faction, no remote player's body, and announced once; a connection that is up has the full hook; a save loaded over the game under a connection included); `SessionSettles` (attempts and scans end) | 3 attempts, 3 connection commands, any number of loads, stalls, losses and frames; 2 characters, 3 creations, 3 episodes |
| `combat_sync` | `NoPhantoms` (no death or knock-out that did not happen), `DeathSettles` | 2 clients with a character each, rings that hold one event and two, one event a tick (so the event beyond the cap is popped and lost), 2 blows |
| `world_sync` | `CopiesAgree`, `BarrierOpens`, `OneMaster` (a character of the save has one master, unless a claim is entered while the network thread links it), `MotionSound` (what is drawn follows from the messages around that moment), `WorldSettles` (gear arrives, given the report of the orchestrator's stage, which is off by default; a body comes to rest where the youngest message says) | 2 founders and a late-comer, 2 things, 3 changes; 2 joining clients; 1 body, ring of 2, 3 messages |
| `platform` | `RegistrySound`, `IdentityStable`; `StubSafe`; `HooksRight`; `GlobalsRight`; `ListsRight`; `GateHonest`; `HostSound`; `PlatformSettles` (a server is listed again, queries end, the gate opens or is forced, a host that is started or stopped gets there) | 3 objects, 2 server ids, 2 local ids; nesting of 4; a start-up with 4 loads and joins; a server alone with 5 links, and two behind one router with 3; 2 queries on 2 peers; 2 resources, 3 events; 3 starts |

Violations, each of a sentence in a comment or a document (`findings` quotes it):

| Run | What TLC shows |
|---|---|
| `frame_wait` | the last worker's notify falls between test and block; the game thread sleeps for ever |
| `never_greeted` | with auto-connect on, the connection that `OnGameLoaded` opens is never greeted: only the overlay sends the handshake, and it was not told |
| `positions_frozen` | the server rejects every position: no entity ever gets the authority the validator wants |

**Other disagreements met while modelling.** The modules follow the code in these
too, and state no property that it does not have. TLC reaches most of them when the
exception or the guard that stands for them is taken out.

*Server.* The second of two sessions of one name overwrites the first one's record
(`server.cpp:271`, against `:258`). A NaN coordinate aborts the load before the id
counter is restored (`world_persistence.cpp:152`, against `:154`). An allocation that
fails in the handshake leaves the host id naming an erased player (`server.cpp:665`).
Build requests pass the entity limit (`server.cpp:948`, against `:1159`). Host succession
ignores the loopback preference (`server.cpp:295`). The barrier is not looked at again when
a player leaves (`server.cpp:2419`), and a client that connects after loading never says
ready (`core.cpp:1662`). Slots are counted from 0 (`server.cpp:681`), while claims and links
go by owner id (`core.cpp:1964`, `:2076`). Spawn and snapshot send `health[]`, while limb
updates are stored in `limbHealth[]` (`server.cpp:1368`). When the bind fails the port
mapping stays on the router (`server.cpp:84`, against `embedded_server.h:43`). A save that fails is
logged and nothing else: the host still publishes Stopped, and the changes are lost
(`server.cpp:1539`, `embedded_server.cpp:117`); `HostSound` says so by `saveFailed`.

*Server list.* The port mapping may fail and the server goes on (`server.cpp:52`), so two servers
behind one router can register under one key. The newcomer takes over the entry
(`main.cpp:95`), its end removes it, and the first one, whose link is alive, never registers
again: `LiveListed` and `Relisted` except it (`displaced`). A server whose ENet host or connection
for the master cannot be made is never listed (`server.cpp:2259`, `:2270`); nothing tries again.

*Frames.* `Stop` notifies without the mutex and a worker may sleep through it
(`task_orchestrator.cpp:49`); a disconnect rewinds the buffers of the newer pipeline under
running tasks (`core.h:152`).

*Session.* GameReady has the creation hook active, as `PollForGameLoad` leaves passthrough
before it (`core.cpp:1362`, against `core.h:42`). `Disconnect` may reset a null peer
(`client.cpp:112`, the place "fault" of `ClientSession`) and services the host without
`m_enetMutex` (`client.cpp:103`). A loss before a load leaves the phase Connected, in which
the load is not noticed (`core.h:123`). A press of Connect after a loss the overlay has
not seen is forgotten with it (`overlay.cpp:211`). The embedded server is joined under the
loader lock (`dllmain.cpp:34`, against `embedded_server.cpp:14`); /host connects to the
default port whatever `server.json` says.

*Hooks and globals.* Hooks on functions that begin with `mov rax, rsp` are installed
bypassed, and only some are ever enabled (`entity_hooks.cpp:1271`, `core.cpp:1602`,
`core.h:111`, against `core.cpp:924`), so several hooks never fire. Anchored globals resolve to the
function that mentions the anchor (`orchestrator.cpp:312`); `TryStringXref` reports success for an entry that
was refused (`:510`); a weak check keeps a tentative address (`patterns.cpp:754`). The event loop of the
combat hooks pops one event more than it handles and loses it, uncounted
(`combat_hooks.cpp:222`; `DeathSettles` excepts it as `skipped`, and that a tick with a long queue loses one
each time is what the run shows). What is "a real function entry point" for
`hook_manager.cpp:167` is what .pdata does not contradict: the middle of a function that .pdata does not
list is hooked as well as its entry, and `OnlyEntries` promises no more. A departure while the
answer to the handshake is still being handled leaves the death hook on offline, enabled by
the network thread after the game thread disabled it (`core.h:111`, `:132`; `crossed`). One flag suppresses every
knock-out report while a relayed one is applied, a genuine one too; and knock-outs write game memory on
the network thread, against `game_command_queue.h`. `ServerQuery::Update` services nothing
once no query is pending (`server_query.cpp:110`).

*Loading gate.* Nothing in the build reports bursts, zones or resources to it
(`resource_hooks.cpp:49`), so what `GateHonest` says of them is the contract of the class; in the build
the cooldown after a load is what it holds back. The timer of a
block is not reset when the gate opens, so a later block is forced at once (against
`core.cpp:3164`); the gate does not return to its first state on a reload.

*Own characters.* A faction found before a load is not forgotten by it and is used
unvalidated (against `spawn_manager.cpp:112`). Creations are counted over the life of the process, so a later
vote is decided by one character (against `entity_hooks.cpp:131`). A squad of which one character was
registered by the hook is never announced by the scan (`core.cpp:2267`); after a
reconnection nothing is announced again, though the log says so. A creation that began
offline may undo the resume of a handshake (`entity_hooks.cpp:789`).

*Spawns.* Both threads can link one mod character to two entities
(`packet_handler.cpp:660`), the player's own claim included: entered between the network thread's
look and its link, it leaves the character two masters (`:661`, `:671`, `core.cpp:2021`; `overlapped` in
`JoinBarrier`). The clean-up of stuck entities looks at the entity, at the queue, and then
removes it, so one the network thread links in between is unregistered although it has a body
(`core.cpp:3518`, `:3521`, `:3528`). An entity registered by a handler that the end of the session overtook
stays, and its request goes with the queue (`core.h:136`, `:167`). The hijack path replaces the object of an entity that is already linked
(`entity_hooks.cpp:926`, against `core.cpp:3313`), and its counter is given back by entities that never took
one (`:1304`). An entity that the per-player cap meant to keep is unregistered as stuck
(`core.cpp:3519`); one whose object the game freed is looked after by nobody (`core.cpp:2872`). `DeferredSpawnQueue::Clear` has no caller, so
deferred spawns survive a disconnect. A PlayerLeft that arrives during loading is
dropped and the player's deferred spawns are queued later (`packet_handler.cpp:171`, against
`:480`). The mod templates are looked for once: a scan cut short freezes what it
missed. A link renames the template, which hides it from a later scan. The address the
hard-coded strategies find wins over what the game showed, and the two of them are one
address. /forcespawn writes a faction into bodies from which the queue keeps it away
(`builtin_commands.cpp:1644`, against `core.cpp:3416`).

*Motion.* Positions are broadcast as player 0, so the client's authority test refuses them
for every registered entity of a player; only what was queued before the spawn, and
server-owned entities, move. The spawn position is stamped later than the updates that were
flushed before it, and wins. Pending updates survive a disconnect. Interpolation is
evaluated twice a frame, so a snap takes half its time (against `interpolation.cpp:190`). Between two
snapshots a body is drawn on the straight line (`interpolation.cpp:125`), where
`docs/english.md:618` says "Hermite spline interpolation between the two bracketing snapshots". A teleport notes
the new position as sent, so the server is not sent it until the character walks
(`core.cpp:3119`); the "host's" position is that of the first remote entity, whoever owns it (`packet_handler.cpp:629`);
and a note overtaken by a disconnect moves the next session's characters (`late` in `HostTeleport`).

*Orchestrator.* It is off by default. Updates come from player 0, so nobody's activity is recorded and every
remote player counts as away after five minutes (`server.cpp:1025`, against
`player_engine.h:17`). A tick between `m_active` and `SetSendCallback` changes the zone without a request, which is
never made up for; a join overtaken by a reset leaves a ghost session. The spawn stage tests neither link nor
cap (against `core.cpp:3324`), waits per queue instead of per request, and gives up after
five attempts until the queue runs empty.

**Bounds.** Two players fight over a place, a name and an entity; a third slot lets
one reconnect before its old session is gone. Two workers are what `Start(2)` uses,
and enough for one to be last. Two entities of one owner share the mod character and
the caps, which are 1 in the model as in the code for the direct path; two retries
stand for 200: one that is queued again and one that gives up. Two sessions or
reloads let state of one leak into the next. Three attempts instead of six have a first,
a middle and a last; three commands connect, interfere and connect again. Rings and
lists of 2 fill up and wrap. Timers count to the limit they are compared with (1 to 3
ticks) and stop there: only their order matters. One body suffices in `RemoteMotion`, as
entities share nothing there, and a server-owned one, since the behaviours of the
others are among its own. One of two characters carries the player's name in
`CharacterCreation`, and two candidates fill the vote. Three positions let a remote
character be nearer, farther or unknown. Deadlock is checked on the server,
which can always act; elsewhere the environment may run out of messages, loads or commands.

## 4. Fairness

`FramePipeline`: each worker thread and the game thread keep running (weak fairness
of the steps of each), which the operating system's scheduler gives; nothing is
assumed about wake-ups beyond notify. `RemoteSpawns`: both threads finish the handler
they are in; the server sends its heartbeat every five seconds
(`server.cpp`, `Update`) to a client that is playing and when it has any entity; the
tick looks for stuck entities every ten seconds; and it serves the queue every
second, strongly fair because the hook may empty the queue in between. The last two
assume that the factory pointer has been captured and that the loading gate opens,
which `LoadingGate` shows.
`ClientSession`: the game presents again and again (strong, because commands and
stalls come between) and finishes a frame; a handler returns; ENet ends an attempt
by its five-second timeout; a load is recognised (strong: the poll fires at the latest
after its hard timeout of 90 seconds), and a due retry is made (strong, since
frames in which it is not due pass it by). `CombatSync` and `RelaySync`: clients and
server go on handling what was sent and the game thread ticks. `MasterList`: a link
comes up or fails, its dead end is noticed by ENet's timeout, a server reconnects when
its delay is over. `ServerBrowser`: the overlay calls `Update` every frame, and a query's
timeout is looked at there. `LoadingGate`: the game thread ticks and tests the gate again
and again (strong, as loads come between), and time passes. `EmbeddedHost`: both threads run; nothing is
assumed about the user's stopping. `CharacterCreation`, `RemoteMotion`: what a thread has
begun it ends, and frames are drawn. User
commands, message arrivals, loads and disconnects are not fair.

## 5. Proofs

The theorems hold for every value of the constants that satisfies the named assumptions
of the module that declares them: that bounds, caps and timers are numbers (positive where
the code's constant is), that the owner or key tables are total, that a marker such as `Nil`,
`None` or `NoLink` is none of the values it stands beside, and that sets which the code
holds in finite memory are finite (`ServerIds`, `Things`, `Fighters`, `Favourites`, the `Slots` of the image).
Where a theorem needs more, its statement says so:

| Hypothesis | Theorems | Why it may be assumed |
|---|---|---|
| `~AllocCanFail` | host and owners connected | the handshake that cannot allocate a packet leaves both wrong |
| `Benign` | nothing stranded, the ledger | unique names, no failing allocation, finite coordinates |
| `"nan" \notin Positions` | `IdsFresh` | a NaN coordinate ends a load half way, before the id counter is restored |
| `~HandlersOverlap` | `OfflineIsSilent`, `LoadsAreLight`, `HooksFollow` | a handler runs for microseconds |
| `Relations \subseteq -100 .. 100` | `ClientsAgreeOnRelations`, `CopiesDoAgree` | the server refuses a value beyond it, and the sender would keep his (`server.cpp:1747`) |
| `Radius \in {0, 1}`, `Grid` within `ZoneMax` | `EnginesAreSound`, `BodiesAreRight` | `KMP_INTEREST_RADIUS` is 1 (`constants.h:47`); the server refuses zones beyond `ZONE_MAX` (`server.cpp:1280`) |
| `CharactersOnTop` | `TemplatesAreRight`, `BodiesAreRight` | in kenshi-online.mod a player's character has a higher id than the faction and the squads of his name, the rule `FindModTemplates` goes by (`spawn_manager.cpp:720-728`) |

*GameServerProofs.* `TypeCorrect` first. `SessionsAgree` needs the invariant that
player ids in use are below the counter (`SessionInv`), or a fresh id could name a
session that exists. `ClaimsExclusive` needs that claims in memory and on disk are
below the entity counter or about existing entities (`ClaimInv`). `SessionsAlwaysSound` and `OwnershipAlwaysSound`
put the parts together as the runs check them. `HostAlwaysConnected`
and `OwnersAlwaysConnected` go together (`RoleInv`) and need `~AllocCanFail`: the handshake
that fails half way leaves both wrong. `NothingStranded` assumes the benign environment
(unique names, no failing allocation, finite coordinates) and carries the same
statement about the disk (`ReclaimInv`), because a restart makes the disk the memory.
`NoDirectTransfer` is an action property, and so is `EverythingGivenBack`, which needs
`NoDoubleClaim` only and therefore holds with shared names and damaged saves as well.
`ServerImplementsLedger` is the refinement: `LedgerInv` joins all the invariants above, each
handler is one lemma that maps its step to one of the ledger or to a stutter, and what makes
the mapping well defined is that no entity is claimed by two names (`ClaimInv`).

*FramePipelineProofs.* `FrameInv` joins the types, the range of the posted count, the
exact counter and quiescence; the counter is exact as the number of queued tasks, busy
workers and tasks counted but not pushed, so its being 0 at the swap means that no
task is outstanding. The proof is about any finite set of workers.

*EntityRegistryProofs.* `RegistryInv` joins types, `PtrToIdSound`, `NextIdAhead` and
`SpawningUnlinked`. The reverse map stays sound although two entities may hold one
object: linking moves the map entry, and unlinking or removing either entity drops it.
`RegistryIsSound` is the property the run checks. `IdentityIsStable` follows because no method writes over an id that is registered.

*ClientSessionProofs.* Each theorem has an invariant of its own on top of the types.
`AttemptsInv`: a pending or due retry is below the limit, so counting it stays within.
`HandshakeInv`: an overlay that watches or is about to greet has a link without
handshake, if any. `CombatInv` follows the two threads place by place: the answer publishes
`m_connected` before it reads `m_gameLoaded`, `OnGameLoaded` publishes `m_gameLoaded`
before it reads `m_connected`, so one of them sees the other. `SilentInv`: whoever is about
to enable the hooks is connected. `LightInv`: a resume that is under way has put the phase
to Connected first, which the gap detection reads again before it starts a load. The last
two assume `~HandlersOverlap`, and so does `HooksFollow`, their conjunction.

`CreationIsSound`: `CreationInv` says for each place of the hook's call and each stage of
the scan what has been decided (`ModeInv`, `VoteTypes`), and that what the server was told
belongs to one faction for as long as the connection is up (`ToldInv`), although scan, hook
and handshake are steps of two threads.

*PlatformProofs.* `StubInv`: of the calls on the stack at most one is inside the C++ hook, and the
page's words are its (`GuestInv`); the others went straight through and left their words alone
(`WordInv`). So every call returns home at any depth. `HookInv` adds to `HooksRight` what each stage has found
and that a pending hook address is disabled or no place inside a function .pdata knows (`RawInv`); `SwitchInv` says
which of the two handlers, load and handshake, is yet to enable what is off. `HostInv` follows
the worker's place against `m_state` and the stop flag, and changes that are not on the disk against the last save. `GateInv` is about the two steps of
the test: at "cooldown" the world was loaded with nothing unfinished except what was
requested since. `GlobalInv` carries that code is never a heap object. `MasterInv` ties a server to its
link and, unless another one displaced it, the link to its entry; `BrowserInv` counts connections by queries,
which are finitely many.

*WorldSyncProofs.* `JoinInv`: the id a client has, or is about to hear, is that of its own
entry (`OwnId`), without which readiness of one could be filed under another. `RegistryInv` says who holds
a character after each step of the two threads; `OneMaster` follows for every order of claims, spawns
and departures, with the exception it states. For the relay, `RelationInv` says of every
founder that what he will have after the mail to him (`Knows`) is the server's value, unless a
change went unreported; quiescence makes the mail empty.

The server holds no stacks, only an order of the reports. `StackInv` says that there is for each
thing a size it has in that order (`Serialised`), such that for every player whose copy missed
nothing the reports he has sent, taken after it, lead to the same size as the messages to him lead
to from what he sees (`InStep`), neither passing below zero; and that the others' reports, and the
messages to the keeper, only add, since drops and transfers are reported by the keeper alone
(`ReportsOfOwners`). "Leads to" is a walk with one number per message (`Path`) and not a sum, so a
message sent adds a last number, a message taken removes the first, and nothing is summed up.

For motion, `MotionInv` says that each ring `Mirrors` a window on what was received: the snapshot
of age `a` has the time and place of the `a`-th last update (`IsCopy`), and a velocity that is
nought or follows from the update before. `AddedOne` and `Mirrored` preserve it for one update, and
`AllMirrored` for a queue of them. From it `DrawnSound` follows the code's choice of neighbours
(`BestIsLast`, `BestIsFirst`) and its divisions (`RoundedDown`, `Reckoned`). Frames, cleanings and
snaps change only what no claim rests on, delay and correction, within their bounds. Flushing
a queue is a recursive function; `Runs` and `Iterated` give its value
element by element, by the least index for which it had none: the least element of a set of
numbers (`LeastExists`) comes from well-foundedness of finite sets, which the library
states without an operator as parameter.

`WorldInv` carries these through the run's `Spec`, where each behaviour has one part as its focus and
the others rest (`PartsStep`).

*CombatSyncProofs.* That no relayed knock-out comes back as a new one is counting: every report
in a ring or on a wire stands for a blow of its own that has not been broadcast.
`EachHasItsBlow` says so with one-to-one maps (`Fits`) instead of cardinalities, which spares
induction; a report moves, is repeated, or is lost, and the map moves along.

*RemoteSpawnsProofs.* `ThreadsUseTheRegistry` is a refinement with the identity as its mapping: every
step of the two threads is one call of the registry or none, so all that is proved of
the registry for any caller holds in use. It needs `SpawnInv`, the types of both threads' places and of
the queue (a request in the queue has a try left; the caps hold although test and count are two steps). Stages:
`AskInv`, `PumpInv` and `MotionInv` say for each pump what it holds in its hand, how many
direct spawns its wait has seen, and that a position that was not sent is the one the next
poll will notice. `TeleportInv` adds where the host point came from. Engines: `EnginesInv` joins `EngineTypes`,
`WhoIsWho` (the ids in channels, handler and orchestrator), `IndexAround`, `RosterInv` (for everybody
whom no `Reset` overtook, the last message under way about him, or the handler, or the shown
sessions agree with the server) and `Asked` (the zone entered was requested, or the answer is on its way, or known).
Templates: `TemplatesInv` says that every candidate was noted under the name it was loaded with
(`CandidatesKept`), although bodies rename entries: nobody is called as a slot, so a
renamed entry can hide but not pass for another player's (`NamesKept`); that the choice is made by
the scan that finds the first candidates (`ChosenAtOnce`), so what is found later cannot be missing
from it unnoticed; and that the first character decides the manager before any other is compared with it (`OneManager`).
`BodiesAreRight` joins all parts as the run composes them; stages and teleport share the own character, so their
invariants are carried together (`JointInv`).

Only model-checked: liveness and `ENABLED` (section 4), the three runs that end in a
violation, and that the constants of the runs satisfy the hypotheses of the table above. Every
invariant of a passing run, and every action property, is a theorem or a conjunct of one.

## 6. Plan

Done: all modules of section 2, with the theorems of section 5.

Model extensions that remain: the file operations inside one save with a crash between
any two; the pipeline debugger; the admin's time and weather; `/forcespawn` together with
the queue.

## 7. Not modelled

Byte matching and disassembly in the scanner, the offsets of the accessors to game memory
and the SDK wrappers are algorithms over the image and heap of the game, without
shared state of their own; the models use only their results. UI, injector, tools and tests
present, launch or exercise the rest. `EntityManager`, `PlayerManager`, `GameState` and
`ZoneManager` of the server, `EntityResolver`'s interest sets, the zone engine's priorities,
`ProcessSpawnQueue` and the zone hooks (`world_hooks::Install`) have no caller in the build. The shared-save synchronisation
(`shared_save_sync.cpp`) waits for the faction "10-kenshi-online", while the server sends
"10-kenshi-online.mod" (`server.cpp:687`), so nothing after its start-up test runs; the
character tracker feeds only it. The squad-spawn bypass flips two flags around one call of the
game. In the modelled parts, positions, health, names, logging and message
formats are left out except where a property depends on them.
