# TLA+ models of the gate proxy core

These modules model the concurrency of the gate Minecraft proxy core in
`src/`. They cover the framed connection (`src/pkg/proxy/connection.go`), the
connected player (`src/unnamed/part_000`) and the client play session handler
(`src/unnamed/part_001`). TLC checks them.

## 1. The system (inventory)

### Components

| Component | Source | State it keeps | Operations | Goroutines |
|---|---|---|---|---|
| Framed connection `minecraftConn` | connection.go | `closed`, `knownDisconnect` (atomics); `closeOnce`; `cancelFunc`; shared `writeBuf` (bufio) + encoder; session handler (guarded by `mu`) | `readLoop`/`loop`/`handleReadErr`, `WritePacket`, `Write`, `BufferPacket`, `BufferPayload`, `SendKeepAlive`, `setState`, `flush`, `closeOnErr`, `closeKnown`, `closeWith`, `close`, `setSessionHandler` | one read goroutine per connection; any number of writers (API calls, the other side's read goroutine) |
| Connected player | part_000 | `connectedServer_`, `connInFlight`, `serversToTry`/`tryIndex` (`mu`); `pluginChannels` (`pluginChannelsMu`); `settings`; `ping` | `SendMessagePosition`, `SpoofChatInput`, `Disconnect`, `teardown`, `nextServerToTry`, `lockedKnownChannels`, `canForwardPluginMessage`, `setSettings`, `Settings` | called from the client read loop, backend read loops and plugin API goroutines |
| Client play session handler | part_001 | `spawned` (atomic), `loginPluginMessages` (deque, no lock) | `handlePacket`, `handleKeepAlive`, `handlePluginMessage`, `handleChat`, `flushQueuedMessages`, `handleBackendJoinGame` | `handlePluginMessage` etc. run on the client read loop; `handleBackendJoinGame` runs on the **backend** read loop |
| Forge phase machine, backend connection, server registry | not in `src/` (spec.md) | client and backend handshake phases | phase `handle`, `connect`, `completeJoin` | client and backend read loops |
| CLI entry point | part_002 | none | `Run`, `initLogger` | main |

### How they interact

Every player has a client connection and, at most, one current and one
in-flight backend connection. Each connection has one read goroutine. A
server switch runs `handleBackendJoinGame` on the new backend's read
goroutine. It buffers a sequence of packets onto the *player's* connection
(the ceremony) and then flushes them. Meanwhile the client's read goroutine
keeps handling plugin messages and chat. Plugin API goroutines call
`SendMessage`, which is `WritePacket` on the same player connection. All of
them share that connection's `writeBuf`.

### The hard behaviours
- **Shared write buffer.** `flush` writes whatever is in `writeBuf`, whoever
  put it there.
- **Close from anywhere.** The reader, writers that fail, and explicit
  `close`/`closeWith` calls all reach `closeKnown`, which uses `sync.Once`.
  The read loop is stopped only through `cancelFunc`.
- **The `break` in `readLoop`.** `break` inside a `select` leaves only the
  select.
- **`loginPluginMessages` touched from two goroutines.** The client
  goroutine pushes to it and the backend goroutine drains it.
- **Locks.** The `RWMutex` uses in `lockedKnownChannels` and `Settings` are
  wrong (see the hazards).
- **Protocol-dependent ceremony.** The temporary Respawn is sent before 1.16
  and the title reset from 1.8.

### Properties per component
- **Connection:**
  - `disconnected()` runs exactly once;
  - closing ends the read loop;
  - a fatal read error closes the connection.
- **Session handler swap:**
  - at most one handler is active at a time;
  - the handler a closed connection has is torn down;
  - a swap returns, even when the new handler's `activated()` fails a write.
- **Switch ceremony:**
  - the client sees the ceremony in order, once per JoinGame;
  - a switch abandoned on a failed destination leaves the client where it
    was (spec.md §7);
  - the queue is empty once a switch completes.
- **Player session:**
  - `nextServerToTry` returns what a reference try order returns;
  - failover ends with the player connected or kicked;
  - a departed player's backend connections are all closed;
  - the player is kicked only when every registered server was tried.
- **Player locks:**
  - no RUnlock of an unlocked `RWMutex`;
  - a settings update completes.
- **Keep-alive:**
  - only the current backend's keep-alive updates the ping.

## 2. Modules

### `MinecraftConn` (connection.go)

**Actors.** The reader goroutine (`rl`) and a set `Callers` of writer
goroutines (`pc[c]`).

**State.** `closeKnown`'s steps are separate actions in code order. This
lets another goroutine interleave between them:
- `CloseOnceEnter` (`closeOnce.Do`: enter, block while running, or return when done);
- `CloseCancel` (`knownDisconnect`, `cancelFunc`);
- `CloseMark` (`closed.Store`);
- `CloseSocket` (`c.c.Close`);
- `CloseDisconnected` (`sessionHandler.disconnected()`, which completes the Once).

`CallCloseKnown` models the call. `after` is the label to return to.

**Reader.**
- `ReadLoopSelect` is `readLoop`'s select. Only `ctx.Done()` leaves the loop,
  and it calls `closeKnown(false)`.
- `LoopRead` reads a packet or fails. `HandleReadErr` decides which errors
  are recoverable.
- `LoopHandle` dispatches the packet. A recovered panic means `loop`
  returns false.

**Writers.**
- `WritePacket` → `WPCheck` (`Closed()`) → `WPBuffer` (`BufferPacket`) →
  `WPFlush` (`flush`). The flush moves the whole shared `buf` to `wire`.
  Errors go through `closeOnErr`.
- `CloseWith` stores `knownDisconnect`, writes, then runs the deferred
  `close` (`CWClose`).
- `Close` is `closeKnown(true)`.
- `Write` checks `Closed()` and then `WEncode` encodes the payload into
  `buf` and joins `WritePacket`'s flush. `BufferPayload` checks `Closed()` and
  appends; its `closeOnErr` is deferred after the check, so a closed
  connection is left alone.
- `SendKeepAlive` reads `state` (`State()` under `c.mu`) and, in play, runs
  `WritePacket`. `LoopHandle` may move the connection from login to play
  (`setState`, as the login handler does).

**Data.** Packets are model values.

### `SwitchCeremony` (part_001 `handleBackendJoinGame`, `handlePluginMessage`, `flushQueuedMessages`; part_000 `SendMessagePosition`)

There are three actors:
- the backend goroutine running the ceremony (`jpc`);
- the client goroutine routing plugin messages (`cpc`);
- an API goroutine sending chat (`apc`).

**Player state.**
- `connected`, `inFlight`, `spawned`, `protocol`, `queue` (`loginPluginMessages`);
- the phase flags `playerDone` and `backendDone[s]`.

**Connection buffers.**
- `pbuf`/`cwire`: the player connection's write buffer and what it has sent;
- `sbuf`/`swire`: the same per backend server;
- `closedSrv`: the servers whose connection is closed;
- `failures`: destinations that have closed during a ceremony (bounded by
  `MaxDestFailures`).

**Ceremony actions.** Each step of `handleBackendJoinGame` is an action:
- `BufferJoinGame` (with the spawned CAS);
- `BufferTempRespawn` (pre-1.16; dimension 0 unless the target is 0, then −1);
- `BufferRespawn`;
- `BufferRegister`;
- `DrainQueued`;
- `BufferResetTitle`;
- `FlushPlayer`;
- `FlushServer`;
- `CompleteJoin`.

**Destination failure.** `DestCloses` closes the destination while a
ceremony runs. From then on `ensureConnected`, the destination's
`BufferPacket` and its `flush` fail (`DestFails`, the `c.Closed()` check of
`BufferPacket`). So `BufferJoinGame`, `BufferRegister`, `DrainQueued` (after
its `PopFront`) and `FlushServer` each have a disjunct in which
`handleBackendJoinGame` returns false. `AbortSwitch` is the transition
handler's answer (spec.md §7): the ceremony ends and the in-flight slot is
cleared. The player's buffer keeps what was already buffered. Each
`joinLog` entry records how far its ceremony got (`cut`): nothing, all but
the title, or all of it.

**Client and API actions.**
- `ClientReadServer` snapshots the connected server and `ClientDecide`
  forwards or queues the message. These are two steps because the code
  reads `connectedServer()` and then decides.
- `ClientHandshakeComplete` is the client's Forge phase completing.
  It calls `flushQueuedMessages`.
- `SendMessage` buffers a chat and `SendMessageFlush` flushes it.

**Actions modelled from spec.md.** `ConnectRequest`, `BackendJoinGame` and
`BackendHandshakeComplete` model code that is not under `src/`: the backend
connection, the transition handler and the backend phase.

**Reference.** `ExpectedStreams` is a RECURSIVE reference definition of the
packet streams a client may see for a sequence of JoinGames (spec.md §4.4,
§8). A cut ceremony contributes only what was buffered before the cut. A
JoinGame counts as the first while `spawned` is still false, i.e. while
every earlier ceremony was cut at `ensureConnected`.

### `SessionHandlers` (connection.go `setSessionHandler`, `SessionHandler`, `loop`, `closeKnown`)

**Actors.** The read loop (`rl`), a set `Swappers` of goroutines calling
`setSessionHandler` (`pc[s]`), and one closer (`cpc`).

**State.** `handler` is `c.sessionHandler`; `status[h]` records which of
`activated()`, `deactivated()` and `disconnected()` a handler object last
received. `muHolder` is the writer holding `c.mu`; a reader
(`SessionHandler()`) waits while it is set (`SessionHandlerReadable`).

**Actions.**
- Reader: `ReadPacket` (the select, or exit after the cancel), `Dispatch`
  (`c.SessionHandler()` under the read lock), `HandlePacket` (the call, after
  the lock is gone).
- Swapper: `SetSessionHandler` picks a handler object never installed
  before; `SwLock`, `SwDeactivate`, `SwActivate`, `SwUnlock` are the lines of
  `setSessionHandler`/`setSessionHandler0` in order.
- Closer: `Close`, then the steps of `closeKnown`. `CloseEnter` is
  `closeOnce.Do`: it enters the body when `once` is idle, blocks while it
  is running, and returns when it is done. Then `CloseBegin` (cancel,
  `closed`, socket), `CloseReadHandler` (`c.SessionHandler()` under the
  read lock) and `CloseDisconnect` (`sh.disconnected()`, the body ends).
  The read loop's deferred `closeKnown(false)` also waits for a running
  body before the loop is gone.
- A swapper can also run `closeKnown`. `SwActivate` of a handler in
  `PlayHandlers` (a `clientPlaySessionHandler` with registered channels)
  writes REGISTER in `activated()`. When the peer is gone (`peerGone`, drawn
  from `PeerStates`) the write fails. `closeOnErr` then takes the swapper
  into the same `closeKnown` steps while it still holds `c.mu`
  (`ActivatedWriteFails`).

### `PlayerLocks` (part_000 `knownChannels`, `lockedKnownChannels`, `canForwardPluginMessage`, `connectedServer`, `setSettings`, `Settings`; part_001 `handlePluginMessage`)

**Actors.** The client read loop (`Client`), a backend read loop checking
`canForwardPluginMessage` (`Backend`), and an API goroutine calling
`Settings()` (`Api`).

**State.** The two `RWMutex`es as counters: `chReaders` for
`pluginChannelsMu` (write-locked only by `activated()`, which runs once before
the first plugin message, so only its readers are kept) and
`muReaders`/`muWriter`/`muWaiting` for `p.mu`, where a waiting `Lock` turns
new `RLock`s away as Go's `RWMutex` does. `crashed` is the fatal
"RUnlock of unlocked RWMutex", which cannot be recovered. `pluginChannels`
is the player's set.

**Actions.** `HandlePluginMessage`, `ConnectedServer`, `PMWrite` (the
`WritePacket` result and the branch it takes), `LkRUnlock`, `LkFn`, `LkRLock`
(`lockedKnownChannels` line by line); `HandleClientSettings`, `SSAnnounce`
and `SSAcquire` (the two halves of `Lock`), `SSUnlock`; `KcRLock`,
`KcRUnlock`; `CallSettings`, `StRLock`, `StRUnlock`.

### `KeepAlive` (part_001 `handleKeepAlive`)

**State.** A millisecond clock `now`, `connected`, and per server
connection `lastPingId` and `lastPingSent`; `ping`. `relayedAt` is a
history variable recording when each id was relayed; it also keeps backend
ids fresh.

**Actions.** `ClientKeepAlive` is the first line of `handleKeepAlive` (the
server connection is read); `KeepAliveCheck` is the rest: id comparison,
ping, forward (which fails once that server is no longer current) and the
store of `time.Now().Nanosecond()/time.Millisecond`, i.e. `now % 1000`.
`BackendKeepAlive` and `SwitchServer` are the backend play handler and
`completeJoin`, which are not under `src/` and are modelled from spec.md.

### `PlayerSession` (part_000 `nextServerToTry`, `setConnectedServer`, `Disconnect`, `teardown`; part_001 `disconnected`)

**Actors.** The failover goroutine (`fpc`: a backend read loop asking for
the next server and connecting to it) and the teardown that the client
connection's `disconnected()` runs (`tpc`).

**State.** `connected`, `inFlight`, `serversToTry`, `tryIndex` (1-based, so
`tryIndex = i` is Go's `i - 1`), `knownDisconnect`, the duplicate flag,
whether the registry holds the player, and `open`, the backend connections
that are open. `attempted` is a history variable: the servers tried since
the player was last connected.

**Pure part.** `SeedServersToTry` (forced host, else the attempt order),
`SkipNames` and the RECURSIVE `TryFrom`, the `for` loop with its
`tryIndex = i` before the registry lookup. `NextServerReference` is a
set-based definition of the same result.

**Actions.** `NextServerToTry` (under `p.mu`; nil means kick), `Kick` and
`Disconnect` (nothing if the client is gone; `closeWith` sets
`knownDisconnect`), `TdSnapshot`, `TdDisconnect`, `TdUnregister` (the
`LoginStatus` table). `Connect`, `ConnectFails`, `CompleteJoin`,
`JoinFails`, `BackendDrops` and `DuplicateLogin` are the connection
request, the backend handlers and the registry, which are not under `src/`
and are modelled from spec.md §4.4, §4.7, §5 and §8. `ClientQuits` is the
user leaving. The read loop does not close on EOF (the `break` at
connection.go:144). The next write to the client fails instead, and
`closeOnErr` calls `close()`, which stores `knownDisconnect` before
teardown.

## 3. Runs

| Run | cfg | Expect | What it shows |
|---|---|---|---|
| conn_close | MCMinecraftConn.cfg | pass | `DisconnectedOnce`: `disconnected()` runs at most once under every interleaving of the reader and two writers doing two operations each. `CloseCompletes`: once `closed`, `disconnected()` has run and the read loop exits. |
| conn_read_failure | MCMinecraftConn_readfail.cfg | violation | `ReadFailureCloses` fails. After EOF the read loop goes round forever and nothing closes the connection (the `break` at connection.go:144). |
| switch_ceremony | MCSwitchCeremony.cfg | pass | The destination may close at any step. `CeremonyWellFormed`: the non-chat packets sent or buffered for the client are always a prefix of a reference stream of whole or cut ceremonies. They are the whole stream when the ceremony is idle, and all of it has reached the client when the last ceremony got to its flush. |
| switch_queue | MCSwitchCeremony_queue.cfg | violation | `QueueDrainedByJoin` fails. The client goroutine queues a plugin message after the ceremony's drain, and it stays queued after the switch. |
| switch_abandon_visible | MCSwitchCeremony_abandon.cfg | violation | `AbandonedSwitchUnseen` fails. The destination closes while the ceremony drains an empty queue. The player flush then sends JoinGame and ResetTitle, and the destination flush fails, so the switch is abandoned. The client is already in the destination's world, although spec.md §7 says it stays on its current backend (part_001:298). |
| session_handlers | MCSessionHandlers.cfg | pass | `OneActiveHandler`: two concurrent swaps, the read loop and a close never leave two handlers active; `c.mu` serialises the swaps. |
| session_teardown | MCSessionHandlers_teardown.cfg | violation | `CurrentHandlerDisconnected` fails. A swap after `closeKnown` read the handler installs a handler that never gets `disconnected()` (connection.go:291). |
| session_activate_deadlock | MCSessionHandlers_activate.cfg | violation | `HandlerSwapCompletes` fails. A closer enters the `closeOnce` body. Meanwhile a swapper holds `c.mu` and activates a play handler whose REGISTER write fails. The swapper then waits in `closeOnce.Do`, and the closer waits for `c.SessionHandler()`'s read lock: the swap never returns (part_001:57). Without the other closer, the swapper's own read lock waits on its own `c.mu`. |
| player_fatal_unlock | MCPlayerLocks_fatal.cfg | violation | `NoFatalUnlock` fails. A REGISTER whose write fails runs `lockedKnownChannels`, whose first `RUnlock` finds no reader: a fatal error (part_000:415). |
| player_settings_deadlock | MCPlayerLocks_settings.cfg | violation | `SettingsUpdateCompletes` fails. `Settings()` returns with `p.mu` read-locked, and the next `setSettings` waits forever (part_000:461). |
| failover | MCPlayerSession.cfg | pass | `NextServerToTryMatchesReference`: `TryFrom` equals the reference from every start index, for every skip set, on every reachable try list. `FailoverEnds`: failover always ends. `TeardownClosesBackends`: after the client closes, every backend connection is eventually closed, including one a failover opens after teardown's snapshot. |
| failover_exhausted | MCPlayerSession_exhausted.cfg | violation | `KickOnlyWhenExhausted` fails. The player fails on a, connects to b, b drops, and the loop starts at b's index (never reset by `setConnectedServer`), skips b and returns nil. The player is kicked although a was never retried (part_000:295, spec.md §4.7). |

### Bounds

**MinecraftConn.** Two callers, two operations each and one packet read
cover these cases:
- two closers racing the reader;
- a writer failing while another closes;
- `closeWith` racing `close`.

**SwitchCeremony.** The abandon run uses one protocol and no chat, so the
trace shows only the failing ceremony. The passing run's bounds are two servers, two JoinGames, one plugin
message, one chat and one destination failure, with protocols 5, 578 and
735. Together they reach:
- a first join and a switch;
- every protocol band (no title reset, temporary Respawn, 1.16+);
- target dimensions −1 and 0: the code only tells 0 from the others, and
  these two exercise both temporary dimensions;
- a message racing the drain;
- a failure at every step of either ceremony, including a first ceremony
  cut at `ensureConnected`, after which the next JoinGame is the first.

**SessionHandlers.** Two swappers and three handlers reach two swaps racing
each other, a swap racing the close and a packet dispatched to a handler
being swapped out; two reads let the loop run before and after a swap.
`PeerStates = {FALSE}` in the passing run (activated() writes succeed);
the activate run sets it to `{TRUE}` with one swapper.

**KeepAlive.** No run checks it at present (section 5); `MCKeepAlive`
instantiates it for SANY.

**PlayerSession.** Three servers a, b, c with c listed but not registered,
the forced host empty or `[a, b]`, the attempt order `[a, c, b]`, and two
unexpected backend closes. This reaches an unresolvable name (tryIndex
moves past it), a skipped current server, a forced host taking precedence,
a kick after the order is exhausted, and the client closing during every
failover step.

**PlayerLocks.** One channel and one or two operations per actor: each
violation needs only a REGISTER, a settings update and one API call.

Larger bounds grow the state space past a few minutes without new control
paths.

## 4. Fairness

Goroutines are scheduled by the Go runtime. So each actor's internal steps
are weakly fair:
- `ReaderStep` and `CallerStep(c)`;
- `CeremonyStep`, `ClientDecide` and `SendMessageFlush`;
- `SwapperStep(s)`, `CloserStep` (and `Close`: a proxy that starts closing
  a connection closes it) in SessionHandlers;
- `ClientStep`, `BackendStep`, `ApiStep` in PlayerLocks: a goroutine blocked
  on a lock is not enabled, so weak fairness does not hide a deadlock;
- `KeepAliveCheck` once the reply has been read;
- `FailoverStep` and `TeardownStep` in PlayerSession: the backend goroutine
  carries on with failover once it started, and `disconnected()` runs
  teardown to the end. Backend drops, quits and duplicate logins are not
  fair.

New operations are not fair. Packets arriving, API calls and connection
requests come from outside. Each model ends in a `Finished` stutter once
its bounded work is done, so deadlock checking stays on.

## 5. Not modelled, and the plan

**Not modelled:**
- the codec set-up (compression, encryption, protocol setters): pure
  configuration, called by the read loop during login before any other
  goroutine writes to the connection;
- the player connection failing in the middle of a ceremony
  (part_001:212): after that the player is torn down and `spawned` is not
  read again;
- `handleChat`, `forwardToServer` (their state changes are writes to the backend connection);
- the CLI (part_002: I/O only).

Some hazards are reached by the models but have no run of their own:
- a packet handed to a handler deactivated after `Dispatch` (connection.go:126;
  whether that is harmful depends on handlers not under `src/`);
- the ms-of-second stored as `lastPingSent` (part_001:119), which is read
  again only if a client answers the same id twice. KeepAlive models
  `handleKeepAlive`, but no run checks it: its run slot went to the
  switch-failure divergence, which needs no misbehaving client;
- the inverted REGISTER condition (part_001:140), which spec.md §9 already
  records;
- a queued plugin message popped by the drain just before the destination
  fails (part_001:282). It is lost, like those already buffered on the
  dead connection;
- the destination closing between its final flush and `completeJoin`
  (part_001:302). A closed connection then becomes current, and what
  follows is decided by backend code that is not under `src/`.

Runs retired to stay within the run budget or because their question was
not a real one. `keepalive` checked
`PingIsRoundTrip`, which holds only because the bug at part_001:119 is
latent. `player_channels` showed the inverted REGISTER condition that
spec.md §9 already lists. `switch_contiguous` showed a chat flushed between
two ceremony packets, which the client tolerates. `keepalive_stale` blamed
the snapshot in `handleKeepAlive`. But the check and the update use the
same snapshot, and the ping it stores is a true round trip. `SwitchRefinement`
(an abstract switch with complete and abandon) mapped the spec-modelled
actions one-for-one and could not tell an abandoned switch the client had
already seen from a clean one. `AbandonedSwitchUnseen` asks that question
instead. The type invariants of MinecraftConn and SwitchCeremony are no
longer checked: only changes to model bookkeeping could break them.

**Planned next:**
1. **PluginChannels.** In-transition Forge forwarding and the reordering by
   `FireParallel`.
2. **Composition.** MinecraftConn with SwitchCeremony, so that the player
   connection's own close (and its once-only teardown) runs during a
   ceremony.

PROJECT.json lists every hazard with its line, and which of them are still
uncovered.
