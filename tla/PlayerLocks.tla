----------------------------- MODULE PlayerLocks -----------------------------
(***************************************************************************)
(* The two RWMutexes of connectedPlayer (src/unnamed/part_000) and the    *)
(* goroutines that take them:                                             *)
(*   - the client read loop: handlePluginMessage's REGISTER/UNREGISTER    *)
(*     branch (connectedServer, WritePacket to the backend, then          *)
(*     lockedKnownChannels) and a ClientSettings packet (setSettings,     *)
(*     then forwardToServer, which reads connectedServer again);          *)
(*   - a backend read loop deciding canForwardPluginMessage, which reads  *)
(*     the channel set through knownChannels();                           *)
(*   - a plugin goroutine calling the Settings() API.                     *)
(* pluginChannelsMu is write-locked only by clientPlaySessionHandler's   *)
(* activated(), which runs once when the handler is installed, before    *)
(* the player's first plugin message; here it is its reader count.       *)
(* mu is a Go RWMutex: a writer that has announced itself (Lock waiting   *)
(* for readers to drain) blocks new readers.  An RUnlock with no reader   *)
(* is "fatal error: sync: RUnlock of unlocked RWMutex", which recover()  *)
(* cannot catch: the process dies.                                       *)
(***************************************************************************)
EXTENDS Integers, FiniteSets

CONSTANTS
    Client,     \* the client connection's read goroutine
    Backend,    \* the backend connection's read goroutine
    Api,        \* a plugin goroutine using the Player API
    Channels,   \* plugin channel names a REGISTER/UNREGISTER carries
    MaxOps      \* operations each goroutine starts

Actors == {Client, Backend, Api}

VARIABLES
    chReaders,      \* pluginChannelsMu: read holds
    muReaders,      \* mu: read holds
    muWriter,       \* mu: held by a writer
    muWaiting,      \* mu: a writer waits for the readers to drain
    pluginChannels, \* p.pluginChannels
    backendOpen,    \* the backend connection is still open
    settings,       \* p.settings # nil
    crashed,        \* the process died of a fatal sync error
    pc, msg, ops

vars == <<chReaders, muReaders, muWriter, muWaiting, pluginChannels,
          backendOpen, settings, crashed, pc, msg, ops>>

PC == {"idle", "pm_conn", "pm_write", "lk_runlock", "lk_fn", "lk_rlock",
       "ss_announce", "ss_acquire", "ss_unlock", "fw_conn",
       "kc_rlock", "kc_runlock", "st_rlock", "st_runlock"}

Msg == [kind : {"register", "unregister"}, ch : Channels]

TypeOK ==
    /\ chReaders \in Nat /\ muReaders \in Nat
    /\ muWriter \in BOOLEAN /\ muWaiting \in BOOLEAN
    /\ pluginChannels \subseteq Channels
    /\ backendOpen \in BOOLEAN /\ settings \in BOOLEAN /\ crashed \in BOOLEAN
    /\ pc \in [Actors -> PC] /\ msg \in Msg /\ ops \in [Actors -> 0..MaxOps]

(* A player fresh from login: no lock held, no channel known, no         *)
(* ClientSettings received yet.                                           *)
Init ==
    /\ chReaders = 0 /\ muReaders = 0 /\ muWriter = FALSE /\ muWaiting = FALSE
    /\ pluginChannels = {}
    /\ backendOpen = TRUE /\ settings = FALSE /\ crashed = FALSE
    /\ pc = [a \in Actors |-> "idle"]
    /\ msg \in Msg
    /\ ops = [a \in Actors |-> 0]

Goto(a, l) == pc' = [pc EXCEPT ![a] = l]

(* RLock on mu can proceed: no writer holds it or waits for it. *)
MuReadable == ~muWriter /\ ~muWaiting

(* A set with the channel of m inserted or deleted, as m says. *)
Apply(m, set) == IF m.kind = "register" THEN set \cup {m.ch} ELSE set \ {m.ch}

(* RUnlock of a reader count: fatal when nobody holds a read lock. *)
RUnlock(count) ==
    IF count = 0 THEN crashed' = TRUE ELSE crashed' = FALSE

Start(a, l) ==
    /\ ~crashed /\ pc[a] = "idle" /\ ops[a] < MaxOps
    /\ ops' = [ops EXCEPT ![a] = @ + 1]
    /\ Goto(a, l)

-----------------------------------------------------------------------------
(* handlePacket: a plugin message, which is a REGISTER or UNREGISTER *)
HandlePluginMessage ==
    /\ Start(Client, "pm_conn")
    /\ msg' \in Msg
    /\ UNCHANGED <<chReaders, muReaders, muWriter, muWaiting, pluginChannels,
                   backendOpen, settings, crashed>>

(* serverConn := c.player.connectedServer(): RLock, read, RUnlock *)
ConnectedServer(a, from, next) ==
    /\ ~crashed /\ pc[a] = from /\ MuReadable
    /\ Goto(a, next)
    /\ UNCHANGED <<chReaders, muReaders, muWriter, muWaiting, pluginChannels,
                   backendOpen, settings, crashed, msg, ops>>

(* backendConn.WritePacket(packet): on success the backend learns of the *)
(* change and nothing else happens; an error closes the backend connection.  The channel set is   *)
(* updated only when WritePacket returns an error.                        *)
PMWrite ==
    /\ ~crashed /\ pc[Client] = "pm_write"
    /\ \/ /\ backendOpen
          /\ Goto(Client, "idle")
          /\ UNCHANGED backendOpen
       \/ /\ backendOpen' = FALSE
          /\ Goto(Client, "lk_runlock")
    /\ UNCHANGED <<chReaders, muReaders, muWriter, muWaiting, pluginChannels,
                   settings, crashed, msg, ops>>

(* lockedKnownChannels: pluginChannelsMu.RUnlock() first ... *)
LkRUnlock ==
    /\ ~crashed /\ pc[Client] = "lk_runlock"
    /\ RUnlock(chReaders)
    /\ chReaders' = IF chReaders = 0 THEN 0 ELSE chReaders - 1
    /\ Goto(Client, "lk_fn")
    /\ UNCHANGED <<muReaders, muWriter, muWaiting, pluginChannels,
                   backendOpen, settings, msg, ops>>

(* ... fn(p.pluginChannels): Insert or Delete the message's channels ... *)
LkFn ==
    /\ ~crashed /\ pc[Client] = "lk_fn"
    /\ pluginChannels' = Apply(msg, pluginChannels)
    /\ Goto(Client, "lk_rlock")
    /\ UNCHANGED <<chReaders, muReaders, muWriter, muWaiting,
                   backendOpen, settings, crashed, msg, ops>>

(* ... and the deferred pluginChannelsMu.RLock(), never released. *)
LkRLock ==
    /\ ~crashed /\ pc[Client] = "lk_rlock"
    /\ chReaders' = chReaders + 1
    /\ Goto(Client, "idle")
    /\ UNCHANGED <<muReaders, muWriter, muWaiting, pluginChannels,
                   backendOpen, settings, crashed, msg, ops>>

-----------------------------------------------------------------------------
(* handlePacket: ClientSettings, c.player.setSettings(p) *)
HandleClientSettings ==
    /\ Start(Client, "ss_announce")
    /\ UNCHANGED <<chReaders, muReaders, muWriter, muWaiting, pluginChannels,
                   backendOpen, settings, crashed, msg>>

(* p.mu.Lock(), first half: take the writer slot and turn new readers away *)
SSAnnounce ==
    /\ ~crashed /\ pc[Client] = "ss_announce"
    /\ ~muWriter /\ ~muWaiting
    /\ muWaiting' = TRUE
    /\ Goto(Client, "ss_acquire")
    /\ UNCHANGED <<chReaders, muReaders, muWriter, pluginChannels,
                   backendOpen, settings, crashed, msg, ops>>

(* p.mu.Lock(), second half: the readers have drained; p.settings = wrapped *)
SSAcquire ==
    /\ ~crashed /\ pc[Client] = "ss_acquire"
    /\ muReaders = 0
    /\ muWriter' = TRUE /\ muWaiting' = FALSE
    /\ settings' = TRUE
    /\ Goto(Client, "ss_unlock")
    /\ UNCHANGED <<chReaders, muReaders, pluginChannels,
                   backendOpen, crashed, msg, ops>>

(* p.mu.Unlock(); the settings event is fired in parallel and not waited *)
(* for; then forwardToServer reads connectedServer.                      *)
SSUnlock ==
    /\ ~crashed /\ pc[Client] = "ss_unlock"
    /\ muWriter' = FALSE
    /\ Goto(Client, "fw_conn")
    /\ UNCHANGED <<chReaders, muReaders, muWaiting, pluginChannels,
                   backendOpen, settings, crashed, msg, ops>>

ClientStep ==
    \/ ConnectedServer(Client, "pm_conn", "pm_write")
    \/ PMWrite \/ LkRUnlock \/ LkFn \/ LkRLock
    \/ SSAnnounce \/ SSAcquire \/ SSUnlock
    \/ ConnectedServer(Client, "fw_conn", "idle")

-----------------------------------------------------------------------------
(* canForwardPluginMessage: knownChannels() read-locks the channel set *)
CanForwardPluginMessage ==
    /\ Start(Backend, "kc_rlock")
    /\ UNCHANGED <<chReaders, muReaders, muWriter, muWaiting, pluginChannels,
                   backendOpen, settings, crashed, msg>>

(* pluginChannelsMu.RLock(); no writer holds it once the player plays *)
KcRLock ==
    /\ ~crashed /\ pc[Backend] = "kc_rlock"
    /\ chReaders' = chReaders + 1
    /\ Goto(Backend, "kc_runlock")
    /\ UNCHANGED <<muReaders, muWriter, muWaiting, pluginChannels,
                   backendOpen, settings, crashed, msg, ops>>

(* the deferred pluginChannelsMu.RUnlock() *)
KcRUnlock ==
    /\ ~crashed /\ pc[Backend] = "kc_runlock"
    /\ RUnlock(chReaders)
    /\ chReaders' = IF chReaders = 0 THEN 0 ELSE chReaders - 1
    /\ Goto(Backend, "idle")
    /\ UNCHANGED <<muReaders, muWriter, muWaiting, pluginChannels,
                   backendOpen, settings, msg, ops>>

BackendStep == KcRLock \/ KcRUnlock

-----------------------------------------------------------------------------
(* Settings() *)
CallSettings ==
    /\ Start(Api, "st_rlock")
    /\ UNCHANGED <<chReaders, muReaders, muWriter, muWaiting, pluginChannels,
                   backendOpen, settings, crashed, msg>>

(* p.mu.RLock(); if p.settings != nil it returns with the lock held *)
StRLock ==
    /\ ~crashed /\ pc[Api] = "st_rlock" /\ MuReadable
    /\ muReaders' = muReaders + 1
    /\ Goto(Api, IF settings THEN "idle" ELSE "st_runlock")
    /\ UNCHANGED <<chReaders, muWriter, muWaiting, pluginChannels,
                   backendOpen, settings, crashed, msg, ops>>

(* p.mu.RUnlock(); return player.DefaultSettings *)
StRUnlock ==
    /\ ~crashed /\ pc[Api] = "st_runlock"
    /\ RUnlock(muReaders)
    /\ muReaders' = IF muReaders = 0 THEN 0 ELSE muReaders - 1
    /\ Goto(Api, "idle")
    /\ UNCHANGED <<chReaders, muWriter, muWaiting, pluginChannels,
                   backendOpen, settings, msg, ops>>

ApiStep == StRLock \/ StRUnlock

-----------------------------------------------------------------------------
(* Every goroutine is done, or the process has died. *)
Finished ==
    /\ crashed \/ \A a \in Actors : pc[a] = "idle" /\ ops[a] = MaxOps
    /\ UNCHANGED vars

Next ==
    \/ HandlePluginMessage \/ HandleClientSettings \/ ClientStep
    \/ CanForwardPluginMessage \/ BackendStep
    \/ CallSettings \/ ApiStep
    \/ Finished

(* The Go scheduler runs every goroutine that can run; packets and API  *)
(* calls arriving is not fair.                                           *)
Spec == Init /\ [][Next]_vars
        /\ WF_vars(ClientStep) /\ WF_vars(BackendStep) /\ WF_vars(ApiStep)

(* No sequence of handlePluginMessage, canForwardPluginMessage and       *)
(* Settings calls kills the process with an RUnlock of an unlocked       *)
(* RWMutex.                                                               *)
NoFatalUnlock == ~crashed

(* A ClientSettings packet is eventually handled: setSettings' Lock is   *)
(* not blocked forever by a read lock nobody will release.               *)
SettingsUpdateCompletes ==
    pc[Client] = "ss_announce" ~> (pc[Client] = "idle" \/ crashed)
=============================================================================
