# Formal models of the Zonbiewow world server

TLA+ models of the core of the world server: how a map tick is spread over threads, how
sessions enter and leave the world and their packets find a thread, how instance ids are given out, how
database operations are executed, the lock-free queue that connects threads, one network connection from its
authentication to its end, and three protocols between players:
trades, auctions and the queue for battlegrounds. TLC checks them on small instances, and
TLAPS proves the results listed under "What is proved" for all instances.

Paths below are relative to `src/src/`, unless they start with `src/`.

## 1. Inventory

The server is one process. One *world thread* runs `World::Update` in a loop; *map workers* update
maps while the world thread waits; *network threads* read and write sockets; *database workers*
execute SQL. Almost all game state is unprotected: it is safe because of when each thread runs.

| Part | State | Operations | Talks to |
|---|---|---|---|
| Map tick: `game/Maps/MapManager.cpp`, `MapUpdater.cpp`, `MapInstanced.cpp` | `i_maps`, `m_InstancedMaps`, the request queue, `pending_requests`, the cancelation token | `Update`, `schedule_update`, `wait`, `update_finished`, `DestroyInstance`, `UnloadAll`, `deactivate` | every map; `ProducerConsumerQueue` |
| World sessions: `game/World/World.cpp`, `game/Server/WorldSession.cpp` | `m_sessions`, `addSessQueue`, `m_QueuedPlayer`, `m_disconnects`, the player limit; per session `m_inQueue`, `m_playerLoading`, `_player`, `forceExit`, `expireTime` | `AddSession`, `UpdateSessions`, `RemoveQueuedPlayer`, `KickPlayer`, `KickAll`, login and logout | sockets (shared socket state), database (callbacks) |
| Instance ids: `MapManager.cpp` 310-365 | `_nextInstanceId`, `_freeInstanceIds` | `InitInstanceIds`, `RegisterInstanceId`, `GenerateInstanceId`, `FreeInstanceId` | world thread and map workers |
| Database pool: `server/database/Database/` | the operation queue, one connection and one token per worker, `_deadlockLock` | `Execute`, `AsyncQuery`, `DelayQueryHolder`, `CommitTransaction`, `Close`; worker loop; `ExecuteTransaction` and its retry | MySQL server; callers by futures |
| `common/Threading/MPSCQueue.h` | a linked list, `_head`, `_tail` | `Enqueue`, `Dequeue`, destructor | sockets' send buffers, far spell callbacks, metrics, script reloader |
| Query callbacks: `QueryCallback.cpp`, `QueryCallbackProcessor.cpp` | the chain of callbacks and the current future | `WithChainingCallback`, `InvokeIfReady`, `ProcessReadyQueries` | sessions, sockets |
| Sockets: `server/shared/Networking/`, `game/Server/WorldSocket.cpp` | `_bufferQueue`, `_writeQueue`, `_isWritingAsync`, `_closed`, `_closing`, `_queryProcessor`, `_worldSession` | read, queue, write completion, close | network threads and world thread |
| Packet routing: `common/Threading/LockedQueue.h`, `WorldSessionFilter`, `MapSessionFilter`, `WorldSession::Update` | `_recvQueue`, the packets put aside, `_player`, `m_playerRecentlyLogout`, `_logoutTime` | `next(packet, filter)`, `readd`, the switch over the status of an opcode, login, logout, far teleport | network, world and map threads |
| Instance saves: `game/Instances/InstanceSaveMgr.cpp` | saves, bound players and groups, reset events | bind, unbind, reset, unload | maps, groups, instance ids |
| Events: `common/Utilities/EventProcessor.cpp` | the timed events of an object | add, update, kill | units, players, battlegrounds |
| Trade: `game/Handlers/TradeHandler.cpp`, `game/Entities/Player/TradeData.cpp` | `m_trade` of both players, `m_accepted`, money, items, spell | the trade opcodes; `SetCount`, `DestroyItem`, `ModifyMoney` and logout meanwhile | two players, both on the world thread for these opcodes |
| Auctions: `game/AuctionHouse/AuctionHouseMgr.cpp`, `game/Handlers/AuctionHouseHandler.cpp` | `AuctionsMap`, `mAitems`, `pendingAuctionMap` | list, bid, buy out, cancel; `UpdatePendingAuctions`, `Update` | players online and offline, mail |
| Battleground queue: `game/Battlegrounds/` | `m_QueuedGroups`, `m_QueuedPlayers`, `m_events`, `BGFreeSlotQueue`, per battleground its status, invited counts, players, `m_OfflineQueue` | join, enter, leave, log out, `BattlegroundQueueUpdate`, `BGQueueRemoveEvent`, `Battleground::Update` | players, world thread |
| Dungeon finder, groups and loot rolls, mail between players, guild bank | one small protocol each | packet handlers and timers | players, database |
| Grids, spawn pools, game events, outdoor PvP | state machines driven by time and players | update | maps |
| Spells, auras, combat, movement, AI, scripts; Warden; login server; tools; vendored code | large data | - | - |

Which behaviours are hard, and what makes each part correct:

- **Map tick.** A map update schedules further updates while it runs, and unloads other maps.
  Correct: the barrier holds, one thread per map, no request outlives its map, a tick ends, shutdown ends.
- **World sessions.** The same session is reachable from the queue, the session map, the loop over
  it and a socket another thread closes. Correct: no stale pointer, nobody plays from the queue,
  nobody overtakes, no free place while somebody waits, a dead connection is cleaned up, shutdown
  saves everybody.
- **Instance ids.** Freed on worker threads without a lock. Correct: never two instances with one
  id; the lowest id is reused first; none that is freed is lost.
- **Database pool.** Statements fail, deadlock, and lose their connection; the pool closes while
  operations wait. Correct: transactions are atomic, results are truthful, order is kept with one
  worker, everything is served, Close returns.
- **MPSCQueue.** The list is broken between two instructions of a producer. Correct: it is a queue, no node is
  used after it was deleted, none is leaked, and nothing stays in it.
- **Sockets.** Any thread sends and closes; the network thread writes what the peer takes, authenticates, and uses a session that
  the world may delete. Correct: the peer gets what was queued, in order; a refused client learns why before it is closed;
  the session is there when it is used; nothing waits for ever.
- **Packet routing.** Two threads take turns on one queue and each takes what its filter lets it; packets
  for a player who is not there yet are put back. Correct: order is kept, nothing is stuck, and nothing that was sent
  for one character is handled for the next.
- **Trade.** Two packets accept it, and items, money, bindings and players change between them. Correct: both or
  none trade, an acceptance is for what is offered now, and what changes hands is what was accepted.
- **Auctions.** An auction can be bid on, bought and cancelled before its deposit is charged, and its parties come and
  go. Correct: items and money are conserved, who did not win gets everything back, deposits are settled.
- **Battleground queue.** An invited player may enter, decline, be timed out, be invited again, or log out, in the
  loading screen too. Correct: the counts of a battleground are exact, an invitation ends when it should, and an
  abandoned battleground is deleted.

`PROJECT.json` lists every component with its status, and under "hazards" each of these
difficulties at its line.

## 2. Plan

Built, in this order: MapUpdater (with the abstract MapTick), WorldSessions, InstanceIds,
DatabasePool, MPSCQueue (with the abstract FifoQueue), PacketRouting, Trade, Auctions, BattlegroundQueue, WorldSocket. The modules
of one process share no variables; what one takes from another is stated in its text: PacketRouting takes MapUpdater's barrier (the two
threads never update a session at once), as WorldSocket does (a session is deleted when no map thread uses it), InstanceIds the same
barrier for its world thread, WorldSessions the service of the database pool, and WorldSocket that `_bufferQueue` is a queue (FifoQueue).

What is left, the most consequential first:

1. *QueryCallbacks*: chains and re-entrance of the processor; abstract specification: every callback is called
   once, in the order of its chain, or dropped with its session. It refines what WorldSessions and PacketRouting assume of queries.
2. *InstanceSaves*: saves, binds, reset events and instance maps, using InstanceIds; a save in use is not deleted,
   an id is not reused while its map lives (the hazard at `InstanceSaveMgr.cpp:626`).
3. *LootRolls*, *GuildBank*, *DungeonFinder*: one module each, small protocols with timers.

No proof is left: every safety and action property of the runs that should hold, and both refinements, are proved (section 5). What
remains with TLC, liveness, is out of the prover's reach (section 6).

## 3. Modules

| Module | What it is |
|---|---|
| `MapUpdater` | the map tick, its worker threads, nested scheduling, shutdown; the refinement mapping to MapTick |
| `MapTick` | abstract specification: requests and updates happen only between Begin and Release |
| `MCMapUpdater` | the TLC instance |
| `MapUpdater_proofs` | theorems, also about PacketRouting |
| `WorldSessions`, `MCWorldSessions`, `WorldSessions_proofs` | sessions, login queue, limit, shutdown; theorems |
| `InstanceIds`, `MCInstanceIds` | the id allocator; its theorems are in `BattlegroundQueue_proofs` |
| `DatabasePool`, `MCDatabasePool`, `DatabasePool_proofs` | asynchronous database operations, theorems |
| `MPSCQueue`, `FifoQueue`, `MCMPSCQueue`, `MPSCQueue_proofs` | the lock-free queue, its abstract specification, theorems |
| `WorldSocket`, `MCWorldSocket`, `WorldSocket_proofs` | one connection: writing, closing, authentication, its session; theorems |
| `PacketRouting`, `MCPacketRouting` | the received packets of one session, its two threads, its client |
| `Trade`, `MCTrade`, `Trade_proofs` | trades between players, theorems |
| `Auctions`, `MCAuctions`, `Auctions_proofs` | one auction house and its mails, theorems |
| `BattlegroundQueue`, `MCBattlegroundQueue`, `BattlegroundQueue_proofs` | one queue, its invitations, its battlegrounds; theorems, also about InstanceIds |

In every module an operator whose name has an underscore and a suffix, marked "Mutant:" in its
comment, is a faulty variant of the operator that follows. It is used by no action: substituting it is
how each property is shown to depend on the code. Every module has a type invariant `TypeOK` (`PacketsTypeOK`, `QueueTypeOK`), which
documents the variables; no run lists it, and for six modules it is proved.

### MapUpdater

| Model | Code |
|---|---|
| `iMaps`, `instanced`, `Parent` | `MapManager::i_maps`, all `MapInstanced::m_InstancedMaps`, which of them |
| `queue`, `shutdown` | `ProducerConsumerQueue::_queue` (the requests' maps), `_shutdown` |
| `pending`, `token` | `MapUpdater::pending_requests`, `_cancelationToken` |
| `main`, `toSchedule` | the world thread's place in `MapManager::Update` or `deactivate`, its iterator |
| `wpc`, `req`, `iter` | the worker's place in `WorkerThread`, its request, the iteration of `MapInstanced::Update` |
| `updates` | history: the maps updated in this tick |

What runs under one mutex is one action. `schedule_update` holds `_lock` over its call of `Push`, so
the increment, the push and the notification are one step (`ScheduleUpdate`); testing
`pending_requests` and going to sleep are one step (`Wait`), because a condition variable releases the
mutex and sleeps atomically. Condition variables may wake spuriously (`SpuriousWakeup`).
`UpdateMap` is the requested map's own update; for an instanced map it reads the instances
loaded, and each turn of the loop that follows is `ScheduleInstance` or `DestroyInstance`. Whether an instance is
due to unload depends on timers and players and is left open; so is whether `DestroyInstance` succeeds.
`_cancelationToken` is atomic and read on its own (`CheckToken`). `MapUpdate.Threads` is 1 by default
(`server/worldserver/worldserver.conf.dist:464`); with 0 there is neither queue nor thread, and that mode is not modelled.

### WorldSessions

| Model | Code |
|---|---|
| `sess[s]` | a `WorldSession` object: existing or not, `m_Socket->IsOpen()`, `m_inQueue`, `forceExit`, `m_playerLoading`, `_player`, `_realmAccountLoginCallback.valid()`, `expireTime` |
| `addSessQueue`, `inWorld`, `queue` | `addSessQueue`, `m_sessions`, `m_QueuedPlayer` |
| `limit`, `disconnects`, `now` | `m_playerLimit`, `m_disconnects`, the game time |
| `pc`, `toUpdate`, `closing` | the place in `UpdateSessions`, its iterator, `KickAll` called |

`AddSession_` and `RemoveFinished` each model the whole handler with every call it makes:
`RemoveSession`, `RemoveQueuedPlayer` (twice in the second case), `HasRecentlyDisconnected`,
`AddQueuedPlayer`, `InitializeSession`, the destructor. They are atomic because only the world thread
touches that state. The packets and query answers inside `WorldSession::Update`
are actions of their own, since sockets close at any moment between them. `RefuseSession` is the early return of
`AddSession_`. A character that does not belong to the account leaves `m_playerLoading` set
(`"refused"`), as the code does. Session objects are reused in the model as memory is, which
lets a stale pointer meet a new session. `scenario`, chosen at the start,
holds the tolerance configured and bounds what clients and operators do in one behaviour.

### InstanceIds

`next` and `free` are `_nextInstanceId` and the set bits of `_freeInstanceIds`, `size` is its length.
`FreeInstanceId` is one step for the world thread (`ResetInstance`: it runs between ticks, see
MapUpdater's Barrier) and four for a map worker: read and compare `_nextInstanceId`
(`ReadNext`), store it (`WriteNext`), read the word of the bitset (`ReadWord`), store it
(`WriteWord`), so two workers may lose each other's writes. `WordBits` ids share a word, 64 in the code.
`GenerateInstanceId` grows the bitset as the code does, and stops the server at `MaxId`.

Three things end an instance. `ResetInstance` (a normal dungeon) and the unloading of a battleground's map free its id. The global
reset of a raid or heroic (`ResetOrWarnAll`, any set of dungeons at once) and the deletion of a battleground nobody
entered (`DeleteBattleground`) do not: `forgotten` is the history of these ids, which come back when the server is started again.
`Player::ResetInstances` and `Group::ResetInstances` delete the save of a raid or heroic with the same effect. Which dungeon is of which
kind is left open. `raced` is history too: two workers have been in `FreeInstanceId` at once.

### DatabasePool

| Model | Code |
|---|---|
| `queue`, `shutdown` | `DatabaseWorkerPool::_queue` |
| `main`, `closing`, `token` | the place of `Close`, the connection it is destroying, each worker's `_cancelationToken` |
| `wpc`, `op`, `stmt`, `error` | the worker's place, its operation, the element `ExecuteTransaction` is at, its result |
| `lock` | `TransactionTask::_deadlockLock` |
| `open`, `buffer`, `durable` | external, the MySQL server: the connection's transaction, what it executed, what is committed |
| `submitted`, `done`, `failed` | history |
| `scenario` | which workers the pool is opened with, which operations are enqueued, and the bounds of the faults; chosen at the start |

One call of `mysql_query` is one action. A refused statement is a deadlock, after which the server has rolled
back, or another error, after which it has not. A lost connection makes the worker reconnect and execute
the same statement again, in autocommit mode; the server may or may not have executed it before.
The retry loop runs for a time (`DEADLOCK_MAX_RETRY_TIME_MS`), so it may end after any attempt.

### MPSCQueue

Every access to memory that another thread uses is one action: for a producer the creation of the
node, the exchange of `_head` and the store to `Next`; for the consumer the load of `Next`, the
store to `_tail` (with the read of `Data`, which nobody else can write at that moment) and the
delete. `chain` is a history variable: the nodes from tail to head in the order of the exchanges. Deleted
nodes are allocated again, so a stale pointer would meet a new node. Accesses are sequentially
consistent in the model; the code uses acquire and release, which order the one publication that matters
(`Next`), and that weaker orders suffice is not shown here.

### WorldSocket

| Model | Code |
|---|---|
| `closed`, `closing`, `shut`, `closer` | `_closed`, `_closing`, the socket shut down for sending, each thread's place in `CloseSocket` |
| `bufferQueue`, `buffer`, `writeQueue` | `_bufferQueue`, the buffer `WorldSocket::Update` fills, `_writeQueue` (of a `MessageBuffer`, what is still to be sent) |
| `isWritingAsync`, `writePending`, `reading` | `_isWritingAsync`; the completion handlers the io_context still has to run |
| `netpc`, `removed` | the place of the network thread in `Update`, `HandleQueue` or `ReadHandler`; whether it has dropped the socket |
| `query`, `worldSession`, `locked` | `_queryProcessor` (never more than one query), `_worldSession`, `_worldSessionLock` held by the network thread |
| `session`, `sending` | the `WorldSession` and its threads inside `SendPacket` |
| `client`, `received`, `broken` | external: what the client sends; what is read of it; the connection is gone |
| `accepted`, `stream` | history: the bytes put into `_bufferQueue`, the bytes sent |

A packet is the sequence of its bytes, numbered, so that a byte out of place shows. `Packed` is the body of the loop of
`WorldSocket::Update`, with the empty buffer it queues before a first packet that does not fit. `Write(n)` is `HandleQueue` when `write_some` takes
`n` bytes: all of a buffer, a part of it, or none because it would block. `CloseSocket` is three steps, since any
thread may run between `_closed.exchange`, the shutdown and `OnClose`; `SendPacket` of the world is two, since the
socket may close behind its `IsOpen`. `ReadDataHandler` takes the lock and uses the session in two steps. Handlers run on one
thread, so a step of the network thread comes only when it is not inside `CloseSocket`. A client answers the challenge when every byte
of the first packet, which the challenge is, has reached it; the guard of `ClientSends` says so of `accepted` and `stream`.

### PacketRouting

| Model | Code |
|---|---|
| `recv`, `requeue`, `processed` | `_recvQueue`, `requeuePackets`, `processedPackets` |
| `thread`, `turn` | who is in `WorldSession::Update`: the world thread (`World::UpdateSessions`) or the thread that updates the player's map |
| `player`, `inWorld`, `loading` | `_player` (which login), `IsInWorld()`, `m_playerLoading` with its queries |
| `recentlyLogout`, `logoutTime` | `m_playerRecentlyLogout`, `_logoutTime` |
| `screen`, `character`, `sent`, `toClient` | external: the game client |
| `last` | history |

A packet carries its class (status and processing place of its opcode) and the character it was sent for. One
round of the loop is one action (`Process`), with the whole switch over the status; what follows the loop is `End`. The
network thread appends and far teleports happen between any two rounds. The client lists its characters before it enters the world, and
answers a finished logout with `CMSG_CANCEL_TRADE`, as the comment in `LogoutPlayer` says.

### Trade

| Model | Code |
|---|---|
| `trade[p]` | `Player::m_trade`: `None` or a `TradeData` with trader, `m_accepted`, `m_money`, `m_spell`, `m_items` |
| `owner`, `count`, `bound` | in whose inventory an item is, its stack count, `CanBeTraded()` |
| `money`, `online` | `PLAYER_FIELD_COINAGE`, `ObjectAccessor::FindPlayer` |
| `seen` | history: the terms as they were when a player accepted |

`TradeData`'s functions are operators on the function of all trades, so that a handler that calls several of them is still one action.
`Accept` has the refusals of `HandleAcceptTradeOpcode` in their order, then `Execute`, which takes out the items, stores
them slot by slot as `moveItems` does (`moveSlot` is one round of its loop, `Store` the storing of one item), and exchanges the money. The items are
finitely many (`ItemsAssumption`), so that places can be counted. `CanStoreItems` counts places; that stacks may merge is left
out, which makes room scarcer. The distance and the casts are free (`near`, `unable`).

### Auctions

| Model | Code |
|---|---|
| `entry` | every `AuctionEntry` ever made; those with `live` are in `AuctionsMap` |
| `stored` | `mAitems` |
| `pending`, `counted` | `pendingAuctionMap`, and the count of the last update in `AuctionPair::second` |
| `bags`, `mailed`, `purse`, `mailMoney` | inventories, coinage, and mails on their way or in the box |
| `till` | history: what the house has taken, less what it has given |

Sums over players and auctions are `SumFunctionOnSet` of the community modules. `HandleAuctionPlaceBid` is two actions, below and at the buyout price. The winner's and the seller's mails are written where the handler or
`Update` sends them. Pointers to deleted entries in `pendingAuctionMap` are read by the code; the deposit computed from them is
any value.

### BattlegroundQueue

| Model | Code |
|---|---|
| `queue`, `info`, `events`, `scheduled` | `m_QueuedGroups`, `m_QueuedPlayers` with their `GroupQueueInfo`, `m_events`, `m_QueueUpdateScheduler` |
| `bgs[b]`, `freeSlots` | a `Battleground`: status, invited counts, `m_Players`, `m_OfflineQueue`; `BGFreeSlotQueue` |
| `qid`, `bgOf`, `online` | the player's queue slot with its invitation, `m_bgData.bgInstanceID`, offline, in the world or in a loading screen |
| `phase`, `todo` | the place in `BattlegroundMgr::Update`, the battlegrounds it has still to update |

`Logout` is the part of `LogoutPlayer` that concerns battlegrounds, in its order: finish a pending transfer, tell the battleground, leave
the queue. Left out are two error paths: the `EndNow` of `_ProcessJoin` (`Battleground.cpp:409-421`), when the map is missing or its objects cannot be
created, and the way home in `HandleMoveWorldportAck` (`MovementHandler.cpp:86-108`), when the map of the battleground refuses
a player. `BattlegroundQueueUpdate` is the whole function: free slots first, then premade groups, then the normal queues.
The time of an invitation is counted in updates of the manager (`AcceptTime`), and is the same number in the event and in
`RemoveInviteTime`, as in the code. The functions of the queue and of a battleground are operators on a record `St` of all variables they may change,
so that a handler that calls several of them, or one of them in a loop, is still one action; the loops are folds: over the groups of
a queue (`AddGroups`, `Without`), the battlegrounds with free slots (`OfferSlots`), the events that are due (`UpdateEvents`) and the participants (`RemoveAll`). The
specification's names are its own (`QueueInit`, `QueueNext`, `QueueSpec`), because `BattlegroundQueue_proofs` extends InstanceIds too, which gives
the battlegrounds their ids. `PlayersAssumption` says that the players are finitely many and that each is of one team.

## 4. Runs

| Run | Instance | What it shows |
|---|---|---|
| `map_updater` | 3 base maps, 3 instances under two of them, 2 workers; all ticks, loads, unloads, one shutdown | all properties of MapUpdater, and `ImplementsMapTick` |
| `world_sessions` | 3 accounts, 4 sessions, one account may be connected twice, one may skip the queue, limit 1, nobody plays; or 2 accounts, 3 sessions, logins, limit 0 or 1, changing; or 2 accounts, limit 1, tolerance 1, time 0..1 | the queue, the session map and the sessions agree until after shutdown; limit and order of the queue; nobody waits in front of a server that is not full; closed sessions go |
| `world_sessions_expiry` | the last of these: 2 accounts, limit 1, tolerance 1, time 0..1 | **violated**: the tolerance never expires |
| `instance_ids` | ids 1, 2, 4 stored, up to 8, 4 per word; 2 workers | unused; none lost but those never freed, until the workers race |
| `database_pool` | 2 transactions of 2 statements, 2 workers, 2 refusals; or 4 operations of all kinds, 1 worker, one loss, one refusal, one unnoticed refusal | atomicity, truthful results, order of effects, everything served, Close returns |
| `database_pool_loss` | 1 transaction, 1 statement, one loss | **violated**: atomicity |
| `mpsc_queue` | 2 producers, 4 nodes, 2 items | no use after free, delivery, and the refinement of FifoQueue |
| `world_socket` | world thread and one map thread, packets of 1 and 3 bytes, buffers of 2, the world starts no packet after the second, 1 packet of the client after its authentication | the stream is what was queued; the reason precedes the close; the session is there when it is used; a refused connection is closed and nothing queued waits for ever |
| `packet_routing` | 2 logins, 7 packets, 2 packets per update | order, no confusion of characters, nothing stuck |
| `trade` | 3 players, 2 items (one divisible, one that may get bound), 2 slots, money 0..2 | mutual trades, acceptance of what is offered, exchange as agreed |
| `auctions` | 3 players, 2 items of different deposit, 2 auctions, prices 1 and 2, one player who logs out | conservation of items and money, no loss without return, deposits settled when the owner stops listing |
| `battleground_queue` | 2 players against 1, teams of 1 to 2, one battleground at a time, invitations of 2 updates, one player who logs out | exact counts, exact invitations, deletion of abandoned battlegrounds |

What needs no run of its own is proved: that no id in use is handed out when several workers race (`NoSharedId`), that the next
id is the lowest (`LowestIdFirst`), and that the destructor of the queue leaves no node (`NoNodeLeaked`).

### Why the bounds are enough

- MapUpdater: two workers are what is needed for one to unload an instance while the other runs its
  sibling, and for one to finish while the other schedules; two instances of one map and one of
  another distinguish the iterations. No counter is bounded by hand: a tick has finitely many requests.
- WorldSessions: with limit 1, one session is active and two wait, which distinguishes first, next and
  last in the queue; the double connection makes an account replace itself in any of these
  positions. What matters there is who comes, waits, is let in and goes, so nobody plays; who plays, is loading when the account connects
  again, or stands in the world without a socket needs two accounts, and so does a limit that changes.
  Two accounts are enough for one to come back past a queue within
  the tolerance. `Expire` bounds the grace period (two updates), `time` of a scenario the clock. SessionsEnd follows one session, which
  may do all the others may.
- InstanceIds: two ids beyond the stored ones make the bitset grow, words of four ids make two ids share a
  word and two not. `MaxId` is the code's own overflow mark, made small. Two workers, interchangeable (`SYMMETRY`), are enough to
  race in `FreeInstanceId`.
- DatabasePool: each scenario bounds the faults. With two workers, two refusals let both
  transactions deadlock, or one deadlock and fail again in its retry. Losses and unnoticed refusals come with one worker,
  the default, because order is promised for one worker only; atomicity is stated up to the first of them, because
  `database_pool_loss` shows that it fails afterwards.
- MPSCQueue: four nodes let a node be reused while two producers are between exchange and link.
- WorldSocket: a buffer of two bytes takes one or two small packets; a packet of three needs a buffer of its own, behind a full, a
  half full or an empty one, and is written in up to three parts. One thread besides the world's is enough for one to close first and another second.
  `MaxPackets` and `MaxRequests` bound the sending; the challenge and the pong count as packets. Two threads that have passed
  the test may send one each, so three or four packets meet. Without the bounds liveness would be a matter of how fast the world sends.
- PacketRouting: two logins are needed to confuse two characters. Seven packets are login, three of the first
  character, its farewell, the list of characters and the second login with a packet to spare, in any mixture; two
  packets per update (`MaxProcessed` = 1) let one put aside block the other. 100 in the code.
- Trade: a third player shows that a trade is not left half open; two slots, one traded and one not; one player with a full bag.
- Auctions: two auctions of one owner share one deposit; of two owners they do not meet. Two bidders and an owner who
  is away. `MaxAuctions` bounds the auctions ever listed. Settled is about an owner who stops listing in any case, so the bound
  does not decide it: it only keeps the list short.
- BattlegroundQueue: two of a team form a premade group or are invited one after the other; with one
  opponent both normal and unequal matches occur. An invitation of two updates can be given up and given again
  while its event is still waiting. With as many players per team as a battleground takes, the second half of InvitedCountExact, the limit of a
  team, cannot fail in the run; it is `CountsExact` that says it for any number of players.

### Findings

Two runs state what the repository says and show that the code does otherwise.

1. `world_sessions_expiry`: `World.cpp:365` computes the time of the disconnection minus the present time, which is
   never above the tolerance, so nobody who once disconnected queues again; the configuration calls
   it "Tolerance (in seconds)" (`worldserver.conf.dist:371`).
2. `database_pool_loss`: after a reconnection `MySQLConnection.cpp:185` repeats one statement, not the transaction,
   against `DatabaseWorkerPool.h:169`.

What else came up while modelling, and is in the models as the code has it:

- `MapManager.cpp:363` runs on worker threads without a lock. With several workers an id below `_nextInstanceId` can be
  passed over, or be lost, against the comment at `MapManager.cpp:347`; `NoSharedId` proves that none is given twice.
  NextIsLowest and NoIdLost are therefore stated up to the first race (`raced`).
- The comment at `MapInstanced.cpp:288` leaves the ids of dungeons to the InstanceSaveMgr, but only `_ResetInstance` frees one. The global
  reset (`InstanceSaveMgr.cpp:629-719`), with one worker too, loses the ids of all raids and heroics it resets, and a battleground
  deleted before anybody entered has no map whose unloading would free its id (`Battleground.cpp:146`). NoIdLost says that these
  ids (`forgotten`) are all that is lost.
- `DatabaseWorker.cpp:34` deletes the operations still queued when the pool is closed, so saves enqueued just before the shutdown are at risk.
- When the limit is raised while players wait, nobody is admitted until somebody leaves (`World.h:620`), while
  newcomers pass those who wait if the new limit has room for all; QueueOnlyWhenFull and NoOvertaking are stated accordingly.
- Trade: `SetCount` takes both acceptances back, while `DestroyItem` (`Player.cpp:12395`) tells the trade nothing: the acceptances
  stand, and the item is silently missing from the exchange. An accept that is refused for an item that cannot be traded, or
  for the money of the other side, leaves the own acceptance standing.
- Auctions: `pendingAuctionMap` keeps pointers to entries that a buyout or a cancellation has deleted
  (`AuctionHouseMgr.cpp:485`). The deposit of several pending auctions is computed at the price of the first item. The
  charge stops at an empty purse (`ModifyMoney`), and an owner who left unpaid auctions is still sent the deposit if
  they are sold. An owner who lists at least one auction between every two updates is not charged as long as he goes on
  (`AuctionHouseMgr.cpp:526`), while these auctions can already be bought; Settled promises the charge of those who stop.
  `till` counts what was really paid and given, so MoneyConserved holds although the house may lose.
- Sockets: a client that disconnects after its account was accepted and before its permissions are loaded leaves a `WorldSession` that
  nobody deletes: `OnClose` forgets it, the socket is dropped with its query, and `AddSession` is never called (`WorldSocket.cpp:607`).
  `DelayedCloseSocket` closes nothing by itself; it relies on a packet queued before it, which every caller sends.
- Battlegrounds: `LogoutPlayer` takes an invited player out of the queue without `ScheduleQueueUpdate`, which the
  comment at `BattlegroundQueue.cpp:770` asks for after a removal; the place waits for the next update that somebody else schedules.

### Fairness

- MapUpdater: weak fairness of the world thread inside a tick or inside `deactivate`, and of each worker: the
  operating system runs every thread and every `Map::Update` returns. Starting a tick, loading a map and
  spurious wake-ups are not fair: nothing relies on them.
- WorldSessions: weak fairness of the steps of `UpdateSessions`, which the world loop calls for ever. Strong fairness of the
  end of its first loop: clients do not connect for ever faster than the loop takes them in.
- DatabasePool: weak fairness of each worker and of `Close`; nothing makes the server refuse, and its
  refusals are bounded, as the retry loop's time is. The mutex `_deadlockLock` needs no strong fairness here: with the
  operations of the run a waiter is overtaken finitely often.
- MPSCQueue: weak fairness of the consumer, which polls, and of a thread inside `Enqueue`.
- WorldSocket: weak fairness of a thread inside a function. The io_context runs its timer and the handlers that are ready in turn, so
  each of them is strongly fair although another may run before it. A peer that stays reads what it is sent in the end
  (strong fairness of a write that takes something), and each query is answered. Nothing is asked of the world's threads or the client.
- PacketRouting: weak fairness of the two server threads, and strong fairness of the end of an update in which the
  queries of a login are answered: the database answers at last. Nothing is asked of the client.
- Trade: none; its properties are safety.
- Auctions: weak fairness of the two timers of `World::Update`. Nothing is asked of the players.
- BattlegroundQueue: weak fairness of the steps of `BattlegroundMgr::Update`, which the world loop calls for ever; strong
  fairness of the update of the battlegrounds (`m_UpdateTimer` runs out again and again) and of the timer that is due
  in a battleground (`Start`, `RemoveOffline`, `RemoveAll`), whose counters only fall. Nothing is asked of the players.

Deadlock is checked in the runs of MapUpdater, WorldSessions, InstanceIds, DatabasePool, MPSCQueue, Trade and WorldSocket; the
states in which the program has ended have a stuttering step of their own (`Terminated`, `Stopped`, `Closed`,
`Destroyed`). It is not checked where the bounds stop the environment and the updates then have nothing to change: PacketRouting,
Auctions and BattlegroundQueue. NoneStuck, Settled and AbandonedDeleted say there what may not wait.

## 5. What is proved

All theorems are about the `Spec` of their module (`PacketsSpec`, `QueueSpec`) and hold for every value of the constants that satisfies the named
assumptions of the module. The proofs use no other assumption.

**MapUpdater_proofs.** `TypeCorrect`, `BarrierHolds`, `NoNullCallHolds`. `Barrier` alone is not inductive: it
says nothing of the counter that `wait()` tests. The invariant `IInv` adds

- `Count`: `pending_requests` = queued requests + requests in the hands of workers. This is why a
  nested `schedule_update` cannot race with the end of its parent: the parent is still counted.
- `Quiet`: nothing is pending outside the scheduling and waiting part of a tick.
- `ShutdownOrder`: the token is set before the queue is shut down, and only by `deactivate`.
- `InHand`: in which places a worker has a request.

`Holding` is finite because the set of workers is (`WorkersAssumption`). `Barrier` follows from `Count` and `Quiet`,
`NoNullCall` from `ShutdownOrder` and `InHand`.

`NoRequestOutlivesItsMap`, `EachMapOnce` and `TickImplemented` rest on a second invariant, `MapsInv`, about the maps themselves: no map has two
requests (`Single`); what is still to be scheduled, by the world thread (`Planned`) or in a worker's loop over its instances (`Iterating`),
is loaded, not requested and not updated yet; a request is updated when its worker has come to it and only then (`Served`); an
instance is requested only by its parent's update (`Nested`). This is why unloading an instance in that loop is harmless: the one who
unloads it is the only one who could have requested it. In the refinement the outstanding maps are those queued or held, a step that calls `ScheduleUpdate` is `Request`,
`UpdateFinished` is `Finish`, and a `Wait` that finds nothing pending is `Release`; that nothing is outstanding then is `Count` again.

**WorldSessions_proofs.** All safety of the module, for any accounts, sessions and scenarios: `TypeCorrect`, `NoDanglingHolds`,
`QueueGateHolds`, `ShutdownUnloadsHolds`, and of the action properties `LimitRespectedHolds`, `QueueOnlyWhenFullHolds`, `NoOvertakingHolds`. The invariant is `Types`;
`Linked` (which session is in which container, by its state, and none twice); `AllSound` (what `m_inQueue`, `_player` and the other fields say of each other and of the
queue); `Loop` (the loop over the sessions visits only registered ones, and those that were kicked are still before it). For the action properties one predicate,
`Departure`, says what `RemoveQueuedPlayer` does whoever calls it: who is admitted stood in front of all who stay, does not exceed
the limit, and nobody is admitted only if nobody waits, the one who left did not count, or the server is still full. `AddSession_`, which may call it twice before it decides about the
newcomer, and `RemoveFinished` are shown to be departures; the properties follow by counting. The proof made
NoOvertaking more precise than the small instance had: after the limit is raised, a newcomer may be let in past the queue if the new limit has room
for everybody, and a removal may admit the second of the queue in the step in which the first of it leaves.

**InstanceIds**, in `BattlegroundQueue_proofs`: `TypeCorrect` and `NoSharedId` for any number of workers. The invariant adds `Loading` (rows read have
lower ids than rows to come, which is what `ORDER BY id` gives `RegisterInstanceId`) and `Pending`: what a worker
is about to store names no id in use and none in `forgotten`. The argument why the race is harmless for uniqueness: during a tick ids are
only freed, so every stale value was unused when it was read and still is. `LowestIdFirst` and `NoIdIsLost`, also for any number of workers, rest on
`Tracked`, which holds until `raced`: one worker at most is in `FreeInstanceId`, every id below `next` is in use or forgotten, and every
id is free, in use, forgotten or in that worker's hands. `OneWorkerNeverRaces`: with `MapUpdate.Threads` = 1, the default, `raced` stays false.

**MPSCQueue_proofs.** `TypeCorrect`, `NoNodeUsedAfterFree`, `NoNodeLeaked`, `Implementation`. The invariant says what the
broken list looks like: `Distinct` and `Ends` (the chain runs from `_tail` to `_head` without repetition), `Linked` (a link is set, or some
producer is about to set it), `Linking` (no two producers will set the same link), `Fresh` (a new node is its producer's
alone), `Taking` (the consumer holds two neighbours of the chain), `NoneLost` (an allocated node is in the chain, or its producer's, or about to be deleted). For the
refinement, `Exchange` is `Put`, `TakeData` is `Take`, every other step a stutter; the step lemmas
say what appending to, and taking the tail of, the chain do to `Contents`.

**WorldSocket_proofs.** `CallbackHasSession` and `ReaderHasSession`, for any map threads, packets and clients. Why no lock is needed in the callback takes
the whole protocol to say. `Stages` ties the session to the query: it is in the world only when the permissions have been loaded, so before that no thread
of the world can close the socket. `Early`: the network thread, which can, never stands at its queries with one outstanding
and the socket closed, since `Socket::Update` returns false first. `AuthOnce` and `ReadingStops` exclude a second authentication, and reading while the
account is not known. For the reader, `Pointer` says that of a closed socket the pointer is set only while
some thread is still in `CloseSocket`, and of a deleted session only while the network thread itself is; `Closer` keeps that thread
out of its handlers meanwhile. The lemmas `NetCloses`, `KickKeeps` and `ClosingKeeps` are the steps of closing.

`BytesInOrder` and `RefusedGetAnswer` rest on a second invariant, `StreamInv`, on top of the first. Its core is `Flow`: what was sent, the buffers in `_writeQueue`,
the buffer that is being filled and the packets in `_bufferQueue` are adjacent pieces of all that was accepted. This says at what places the bytes are cut and
nothing of how many there are in a packet or a buffer, so every operation is one lemma about pieces: a packet is accepted (`FlowAccepts`), written to the buffer (`FlowFills`),
the buffer is queued (`FlowQueues`), some of the first buffer is sent (`FlowSends`). It holds while the connection stands (`InFlow`); when it is
broken or shut down, `HandleQueue` drops the buffer that failed and nothing more is sent. That the reason of a refusal is sent before `DelayedCloseSocket` takes effect needs the rest of the
invariant: `Greeted` (before there is a session only the challenge was accepted, and a client that answered has been sent all of it), `Queues` (no packet
is empty and no empty buffer is queued last) and `Answered`: the queue of a socket that is to be closed is empty when the reason is
accepted, and from then on `HandleQueue` is called only after `WorldSocket::Update` has moved everything to `_writeQueue`, so the buffer after which it finds the queue
empty is the last one there is. `CalmKept` is the lemma for all steps that move no byte.

**Trade_proofs.** `TradesAreMutual` and `AcceptedAsSeen`, for any number of players, items and slots. The invariant is
`Types` (who is online, the type of `trade`, and the domains of `owner` and `count`), `Mutual`, `OffersOwn` (an offered item that still has an owner
belongs to the one who offers it) and `Consent`. `OffersOwn` is what makes `SetCount` withdraw the right acceptances: the
handler looks in the trade of the item's owner, and an item that stands in the other's trade data would change unnoticed. The proof goes by
what a step does to the trades rather than by opcode: the lemmas `SameKept` (no trade changes), `EditKept` (one pair is edited, its
acceptances taken back or renewed) and `CloseKept` (a pair is closed) carry the invariant, and one lemma per action shows which it is.

`TradeIsFair` and `TypeCorrect` add `TypeOK` and `Once` (a player offers no item twice) to the invariant. `moveItems` is a fold over the slots, with `if` and
`else` in every round: if there is no room the item goes back, or is lost. That no round can fail after the checks is an induction over the slots that
were served (`SlotInduction`, again about a set of sets and not about a formula; `MoveItemsDef` says that the fold is such a recursion). Its step
is `RoomLeft`: as long as one item of a player is still to come, those he has now, and that one, are at most those he has in the end, and `CanStoreItems` has
counted those; `SwapSlot` concludes that both items of the slot change hands, and `AllMoved` that all do. The money is `PaidIs`: the four
checks exclude both underflow and overflow. `SameGoods`, `LessGoods` and `QuietStep` are the steps that exchange nothing.

**PacketRouting**, in `MapUpdater_proofs`: `HandledForItsPlayer` and `HandledInOrder`, for any number of characters, packets and packets per update, and with no assumption. The module
extends both, since both are about the same threads; that is why the specification of PacketRouting has names of its own (`PacketsInit`, `PacketsNext`, `PacketsSpec`). The invariant speaks of `Waiting`, the packets put aside
followed by the queue: putting one aside, and `readd`, leave `Waiting` as it is (`PutAside`, `EndStill`), arriving appends to it (`SendArrives`), and dropping or handling takes its first. That
it is the first which is taken needs `Aside`: packets are put aside only while a character is being loaded, and then all that wait are of that kind. Order is `Rising`.
For the characters the invariant says through which stages a client and its session go, `Playing`, `Leaving`, `Gone`, `Choosing`, `Entering`, `Loading`, and what may wait in each; the
hard one is `Entering`, in which packets of two characters wait: those before the login can only be dropped, because `m_playerRecentlyLogout` is reset by
the packet right before the login and by no other.

**DatabasePool_proofs.** `TransactionsAreWhole`: as long as no connection is lost and the server refuses no START TRANSACTION or COMMIT
(whose results the code does not look at), what is durable of an operation is all of it, for any
workers, operations, refused statements, deadlocks and retries. `AtomicWhileConnected` speaks only of what is durable; the invariant adds
`Types`, `InHands` (a worker that executes something has an operation, and stands at one of its statements) and `Buffered`: the open transaction of a
connection holds exactly the statements its worker has executed since START TRANSACTION, and a worker that executes no transaction has none open.
`Buffered` is why the retry after a deadlock does no harm: the rollback leaves nothing from before it. Under a loss it is false,
which is what the run `database_pool_loss` shows.

`ReportsAreTrue`: until such a loss, what has been reported as done is durable exactly once, and what is queued or was given up is not. The invariant `History` adds `Owned` (an operation
is in the queue, in one worker's hands or settled, and in one of these only), `Kinds` (only transactions are executed as such, and a rollback has an error to
report) and `Truthful` (durable is exactly what was executed alone or committed, once). `OneWorkerInOrder`, which needs no such restriction: `InTurn` says that with one worker the durable
operations, the one in its hands and the queue are, one behind the other, in the order of submission (`Ordering`), and that the workers that were not started do nothing
(`Idle`). That the one worker is `the` worker is a matter of counting, for which the workers are finite (`OperationsAssumption`).

**Auctions_proofs.** `NoItemIsLost`, for any players, items, prices, deposits and cuts. `ItemsAccounted` is nearly inductive: the invariant
is `Types`, `Listed` (`mAitems` holds exactly the items of the live auctions, each of one) and `AtOnePlace`, the third part of the
property without its counting. The lemmas go by effect: `SameKept` (bids, charges and expiry move no item), `EndedKept`
(a set of auctions ends and their items are mailed, for `Update`) and its case `OneEndedKept` (`Buyout`, `RemoveItem`); `SellItem` and
`TakeMail` have their own. Of a charged deposit the proof uses only that it is a whole number of coins,
so the theorem does not depend on what a deleted entry of the list yields.

`NoMoneyIsLost` and `NobodyPaysForNothing` are about sums over the players and the auctions, which are recursive functions over finite sets. That such a
function exists, and what it does when one value changes, is proved once: strict inclusion of finite sets is well founded, which gives an induction over the subsets of a finite set
that is about a set of subsets and not about a formula (`SubsetInduction`), and from it the laws of sums (`SumStep`, `SumUnion`, `SumChanged`, `SumPlus`, `SumByKey`).
`MoneyConserved` sums what each player is worth; the invariant `MoneyInv` sums instead what all players own, what they have staked on each auction and what the
house took (`Balance`), because a step changes that in a few places: one auction, and at most three players, the one who pays, the one who is
outbid and the owner (`Moves`, `Balanced`, `AddsUp`). `PaysForSomething` is an action property, proved action by action with the sums
restricted to one player (`WorthOf`, `Fair`). The players are finite (`NoneAssumption`), the auctions are by `MaxAuctions`.

**BattlegroundQueue_proofs.** `QueueTypeCorrect`, `CountsExact` and `InvitationsOnTime`, for any players, team sizes, number of battlegrounds and time to accept. `InvitedCountExact` alone is not inductive: it
says nothing of who may be counted next. `QueueInv` adds, all about one record of the state (`Sound`):

- `PlayersSound`: who is in the queue is in the world, in no battleground, and his `qid` is his invitation; who is on the way to a battleground or in it
  belongs to that one only. So the three ways to be counted exclude each other, and no step counts a player twice or stops counting him without decreasing the count. It is why
  `LogoutPlayer` has to finish the transfer before it leaves the queue, and why `Player::LoadFromDB` can put an offline participant back without touching the count.
- `GroupsSound`: the groups of a team do not overlap, are invited as a whole and are no larger than the team. A group that waits hence brings in only players who are not
  counted yet, and a pool of groups has as many players as its groups together.
- `CountsSound`: `InvitedCountExact`, as a predicate of the record.
- `DeletedSound`: an instance id with no battleground has no counts, so the one created there begins with none.
- `EventsSound`: every invitation has its event, with the same time, in `m_events`. `InvitationsOnTime` needs it for "not later"; for "not earlier", that
  `RemoveEvent` leaves alone every invitation whose battleground or time is not that of the event.

Every operator is shown to map a sound record to a sound one (`WithdrawSound` for `RemovePlayer`, `LeaveSound`, `AddPlayerSound`, `InvitePoolSound`, `CreateSound`, ...); the actions are compositions of them. That no team is
invited beyond its size is `FillInvitable` for the free slots of a running battleground, and the desired counts of the pools for a new one. The loops are folds over finite sets, and induction theorems take operators; `FoldsKept`
says instead that a fold stays in the sets `Kept[s]`, one for each set `s` of arguments served, if every application leads from one to the next, which is proved from `SetInduction`, an
induction about a set of sets. What each fold keeps is then a set of records: sound, with the participants served gone (`LeavesSound`), or with the invitations of the events
served withdrawn and no other touched (`EventsRunSound`).

## 6. Only model-checked

Liveness of all modules, because it depends on fairness: TickEnds, DeactivateReturns, SessionsEnd, Served, CloseReturns, Delivered, NothingStuck,
NoneStuck, Settled, AbandonedDeleted.
Every other property of the runs is proved.

## 7. Not modelled

The parts listed as `not_modelled` in `PROJECT.json`, with the reason there. Inside the modelled parts: the mode without map worker
threads; the content of `Map::Update`; in WorldSessions, packets other than login and logout; the synchronous database
connections, `KeepAlive`, and a MySQL server that stays unreachable (the process aborts); weak
memory orders; allocation failures; the limits of AntiDOS and opcodes any thread may process; the merging of stacks and the spell
part of a trade; auctions of several stacks, the search, mail between players and its return; arenas, rated matches and
the other `Battleground.InvitationType`s; of the sockets the build with I/O completion ports, encryption and parsing, accepting, a client that
authenticates twice, the limit on pings and the sockets of the login server.
