---------------------------- MODULE SwitchCeremony ----------------------------
(***************************************************************************)
(* The server-switch ceremony of clientPlaySessionHandler                 *)
(* (src/unnamed/part_001) and the goroutines that touch the same state    *)
(* while it runs:                                                          *)
(*   - the backend read loop of the destination server, which receives    *)
(*     JoinGame and runs handleBackendJoinGame step by step;              *)
(*   - the client read loop, which handles the client's plugin messages   *)
(*     (handlePluginMessage) and queues early ones in loginPluginMessages; *)
(*   - any other goroutine writing to the player (SendMessage).           *)
(* The player connection and each backend connection are a shared write  *)
(* buffer and a wire.  The backend transition handler, the connection     *)
(* request and the Forge phase machine are not in src/; they are modelled  *)
(* from spec.md sections 4.4, 4.5 and 4.8, and the Forge phases only as   *)
(* whether each side's handshake is consideredComplete.                   *)
(***************************************************************************)
EXTENDS Integers, Sequences, SequencesExt

CONSTANTS Servers,        \* registered backend servers
          None,           \* no server connection (a nil *serverConnection)
          Protocols,      \* protocol versions the player may use
          Dims,           \* dimensions a JoinGame may carry
          KnownChannels,  \* the player's known plugin channels
          MaxJoins,       \* bound: JoinGame packets handled
          MaxMsgs,        \* bound: plugin messages the client sends
          MaxChats,       \* bound: messages other goroutines send the player
          MaxDestFailures \* bound: destinations that close during a ceremony

Minecraft_1_8  == 47
Minecraft_1_16 == 735

ASSUME None \notin Servers /\ Dims \subseteq Int /\ {-1, 0} \subseteq Dims

Msgs == 1..MaxMsgs

VARIABLES
    protocol,       \* the player's protocol version
    connected,      \* p.connectedServer_
    inFlight,       \* p.connInFlight
    spawned,        \* clientPlaySessionHandler.spawned
    jpc,            \* control point of the destination's backend read loop
    dest,           \* destination of the running ceremony
    jdim,           \* dimension of the JoinGame being handled
    joinLog,        \* the JoinGames handled so far and where each stopped (history)
    drainedUpTo,    \* first message the client handled after the last completeJoin (history)
    queue,          \* clientPlaySessionHandler.loginPluginMessages
    cpc,            \* control point of the client read loop
    cSnap,          \* the server connection the client handler read
    nextMsg,        \* the client's next plugin message
    playerDone,     \* the player's Forge phase is consideredComplete
    backendDone,    \* each server connection's phase is consideredComplete
    apc,            \* control point of the goroutine sending chat to the player
    chats,          \* chat messages sent to the player
    pbuf, cwire,    \* player connection: write buffer and wire
    sbuf, swire,    \* backend connections: write buffers and wires
    closedSrv,      \* server connections that have been disconnected
    failures        \* destinations that have closed during a ceremony

vars == <<protocol, connected, inFlight, spawned, jpc, dest, jdim, joinLog,
          drainedUpTo, queue, cpc, cSnap, nextMsg, playerDone, backendDone,
          apc, chats, pbuf, cwire, sbuf, swire, closedSrv, failures>>

ServerOrNone == Servers \cup {None}

(* Client-bound packets.  Only JoinGame and Respawn carry a dimension;   *)
(* the others hold 0 there so that all packets are comparable records.   *)
JoinGame(d)  == [kind |-> "JoinGame", dim |-> d]
Respawn(d)   == [kind |-> "Respawn", dim |-> d]
ResetTitle   == [kind |-> "ResetTitle", dim |-> 0]
Chat         == [kind |-> "Chat", dim |-> 0]
ClientPacket == {JoinGame(d) : d \in Dims} \cup {Respawn(d) : d \in Dims}
                    \cup {ResetTitle, Chat}

(* Server-bound packets: the REGISTER of known channels, plugin messages. *)
Register     == [kind |-> "Register", msg |-> 0]
Plugin(m)    == [kind |-> "Plugin", msg |-> m]
ServerPacket == {Register} \cup {Plugin(m) : m \in Msgs}

(* A handled JoinGame: its dimension and how much of its ceremony the    *)
(* player's buffer got before handleBackendJoinGame returned: "none"      *)
(* (ensureConnected failed), "title" (a server write failed before the    *)
(* ResetTitle) or "full".                                                  *)
Cuts == {"none", "title", "full"}
JoinRecord == [dim : Dims, cut : Cuts, abandoned : BOOLEAN]

JPC == {"idle", "join", "respawn1", "respawn2", "register", "drain", "title",
        "flushClient", "flushServer", "complete"}

TypeOK ==
    /\ protocol \in Protocols
    /\ connected \in ServerOrNone /\ inFlight \in ServerOrNone
    /\ spawned \in BOOLEAN
    /\ jpc \in JPC /\ dest \in ServerOrNone /\ jdim \in Dims
    /\ joinLog \in Seq(JoinRecord) /\ Len(joinLog) <= MaxJoins
    /\ drainedUpTo \in 1..MaxMsgs + 1
    /\ queue \in Seq(Msgs)
    /\ cpc \in {"idle", "decide"} /\ cSnap \in ServerOrNone
    /\ nextMsg \in 1..MaxMsgs + 1
    /\ playerDone \in BOOLEAN /\ backendDone \in [Servers -> BOOLEAN]
    /\ apc \in {"idle", "flush"} /\ chats \in 0..MaxChats
    /\ pbuf \in Seq(ClientPacket) /\ cwire \in Seq(ClientPacket)
    /\ sbuf \in [Servers -> Seq(ServerPacket)]
    /\ swire \in [Servers -> Seq(ServerPacket)]
    /\ closedSrv \in SUBSET Servers
    /\ failures \in 0..MaxDestFailures

(* The player has just logged in and its ClientPlaySessionHandler is      *)
(* active; no backend is connected yet.  A vanilla client's phase is      *)
(* complete, a legacy Forge client's is not.                               *)
Init ==
    /\ protocol \in Protocols
    /\ connected = None /\ inFlight = None
    /\ spawned = FALSE
    /\ jpc = "idle" /\ dest = None /\ jdim = 0
    /\ joinLog = <<>> /\ drainedUpTo = 1
    /\ queue = <<>>
    /\ cpc = "idle" /\ cSnap = None /\ nextMsg = 1
    /\ playerDone \in BOOLEAN
    /\ backendDone = [s \in Servers |-> FALSE]
    /\ apc = "idle" /\ chats = 0
    /\ pbuf = <<>> /\ cwire = <<>>
    /\ sbuf = [s \in Servers |-> <<>>] /\ swire = [s \in Servers |-> <<>>]
    /\ closedSrv = {} /\ failures = 0

PlayerVars  == <<connected, inFlight, spawned>>
CeremonyVars == <<jpc, dest, jdim, joinLog, drainedUpTo>>
ClientVars  == <<cpc, cSnap, nextMsg>>
PhaseVars   == <<playerDone, backendDone>>
ApiVars     == <<apc, chats>>

-----------------------------------------------------------------------------
(***************************************************************************)
(* Connection request and backend transition (spec.md 4.4, 4.7): not in   *)
(* src/.  A request opens an in-flight connection to a server other than  *)
(* the current one; when that server sends JoinGame, the transition       *)
(* handler clears and disconnects the current server and hands JoinGame   *)
(* to handleBackendJoinGame.                                               *)
(***************************************************************************)
ConnectRequest(s) ==
    /\ jpc = "idle" /\ inFlight = None /\ s # connected
    /\ Len(joinLog) < MaxJoins
    /\ inFlight' = s
    /\ closedSrv' = closedSrv \ {s}
    /\ sbuf' = [sbuf EXCEPT ![s] = <<>>]
    /\ backendDone' \in {[backendDone EXCEPT ![s] = b] : b \in BOOLEAN}
    /\ UNCHANGED <<protocol, connected, spawned, CeremonyVars, queue,
                   ClientVars, playerDone, ApiVars, pbuf, cwire, swire, failures>>

BackendJoinGame ==
    /\ jpc = "idle" /\ inFlight # None
    /\ \E d \in Dims : jdim' = d /\ joinLog' = Append(joinLog, [dim |-> d, cut |-> "full",
                                                    abandoned |-> FALSE])
    /\ dest' = inFlight
    /\ connected' = None
    /\ closedSrv' = IF connected = None THEN closedSrv
                                        ELSE closedSrv \cup {connected}
    /\ jpc' = "join"
    /\ UNCHANGED <<protocol, inFlight, spawned, drainedUpTo, queue,
                   ClientVars, PhaseVars, ApiVars, pbuf, cwire, sbuf, swire,
                   failures>>

(* The destination's connection closes while the ceremony runs (the     *)
(* backend goes away or its read loop fails); from then on BufferPacket  *)
(* and flush on it return an error.                                      *)
DestCloses ==
    /\ jpc # "idle" /\ dest \notin closedSrv /\ failures < MaxDestFailures
    /\ closedSrv' = closedSrv \cup {dest}
    /\ failures' = failures + 1
    /\ UNCHANGED <<protocol, PlayerVars, CeremonyVars, queue, ClientVars,
                   PhaseVars, ApiVars, pbuf, cwire, sbuf, swire>>

-----------------------------------------------------------------------------
(***************************************************************************)
(* handleBackendJoinGame(joinGame, destination), one buffered write per   *)
(* step: the goroutines below may run between any two of them.            *)
(***************************************************************************)
UnchangedByCeremonyStep ==
    UNCHANGED <<protocol, PlayerVars, dest, jdim, joinLog, drainedUpTo,
                ClientVars, PhaseVars, ApiVars, closedSrv, failures>>

(* handleBackendJoinGame returns false: the transition handler            *)
(* disconnects the destination and the switch is abandoned (spec.md 7);  *)
(* what the player's buffer already holds stays there.                  *)
AbortSwitch(cut) ==
    /\ jpc' = "idle"
    /\ inFlight' = None
    /\ joinLog' = [joinLog EXCEPT ![Len(joinLog)].cut = cut,
                                   ![Len(joinLog)].abandoned = TRUE]
    /\ UNCHANGED <<protocol, connected, spawned, dest, jdim, drainedUpTo,
                   ClientVars, PhaseVars, ApiVars, closedSrv, failures>>

DestFails == dest \in closedSrv

(* destination.ensureConnected() fails on a closed destination, before   *)
(* anything is buffered.  Else spawned.CAS(false, true) and JoinGame to    *)
(* the player either way; onFirstJoin is a Forge phase hook with no       *)
(* effect on this state.                                                  *)
BufferJoinGame ==
    /\ jpc = "join"
    /\ \/ /\ DestFails
          /\ AbortSwitch("none")
          /\ UNCHANGED <<queue, pbuf, cwire, sbuf, swire>>
       \/ /\ ~DestFails
          /\ spawned' = TRUE
          /\ pbuf' = Append(pbuf, JoinGame(jdim))
          /\ jpc' = IF spawned THEN "respawn1" ELSE "register"
          /\ UNCHANGED <<protocol, connected, inFlight, dest, jdim, joinLog,
                         drainedUpTo, queue, ClientVars, PhaseVars, ApiVars,
                         cwire, sbuf, swire, closedSrv, failures>>

(* mutant: the temporary Respawn always into dimension 0 *)
BufferTempRespawnZero ==
    /\ jpc = "respawn1"
    /\ pbuf' = IF protocol < Minecraft_1_16 THEN Append(pbuf, Respawn(0))
                                             ELSE pbuf
    /\ jpc' = "respawn2"
    /\ UNCHANGED <<queue, cwire, sbuf, swire>>
    /\ UnchangedByCeremonyStep

(* Before 1.16 a Respawn into another dimension first: -1 if the JoinGame *)
(* is in dimension 0, else the zero value of Respawn.Dimension.           *)
BufferTempRespawn ==
    /\ jpc = "respawn1"
    /\ pbuf' = IF protocol < Minecraft_1_16
                 THEN Append(pbuf, Respawn(IF jdim = 0 THEN -1 ELSE 0))
                 ELSE pbuf
    /\ jpc' = "respawn2"
    /\ UNCHANGED <<queue, cwire, sbuf, swire>>
    /\ UnchangedByCeremonyStep

BufferRespawn ==
    /\ jpc = "respawn2"
    /\ pbuf' = Append(pbuf, Respawn(jdim))
    /\ jpc' = "register"
    /\ UNCHANGED <<queue, cwire, sbuf, swire>>
    /\ UnchangedByCeremonyStep

(* Tell the destination the player's known channels; the BufferPacket    *)
(* fails if the destination has closed.                                  *)
BufferRegister ==
    /\ jpc = "register"
    /\ \/ /\ KnownChannels # {} /\ DestFails
          /\ AbortSwitch("title")
          /\ UNCHANGED <<queue, pbuf, cwire, sbuf, swire>>
       \/ /\ ~(KnownChannels # {} /\ DestFails)
          /\ sbuf' = IF KnownChannels # {}
                       THEN [sbuf EXCEPT ![dest] = Append(@, Register)]
                       ELSE sbuf
          /\ jpc' = "drain"
          /\ UNCHANGED <<queue, pbuf, cwire, swire>>
          /\ UnchangedByCeremonyStep

(* for loginPluginMessages.Len() != 0 { PopFront; BufferPacket }: the     *)
(* message is popped before the write that may fail.                     *)
DrainQueued ==
    /\ jpc = "drain"
    /\ \/ /\ queue # <<>> /\ DestFails
          /\ queue' = Tail(queue)
          /\ AbortSwitch("title")
          /\ UNCHANGED <<pbuf, cwire, sbuf, swire>>
       \/ /\ ~(queue # <<>> /\ DestFails)
          /\ IF queue # <<>>
               THEN /\ sbuf' = [sbuf EXCEPT ![dest] = Append(@, Plugin(Head(queue)))]
                    /\ queue' = Tail(queue)
                    /\ UNCHANGED jpc
               ELSE /\ jpc' = "title"
                    /\ UNCHANGED <<sbuf, queue>>
          /\ UNCHANGED <<pbuf, cwire, swire>>
          /\ UnchangedByCeremonyStep

BufferResetTitle ==
    /\ jpc = "title"
    /\ pbuf' = IF protocol >= Minecraft_1_8 THEN Append(pbuf, ResetTitle)
                                            ELSE pbuf
    /\ jpc' = "flushClient"
    /\ UNCHANGED <<queue, cwire, sbuf, swire>>
    /\ UnchangedByCeremonyStep

(* c.player.flush(): the whole shared buffer goes out *)
FlushPlayer ==
    /\ jpc = "flushClient"
    /\ cwire' = cwire \o pbuf
    /\ pbuf' = <<>>
    /\ jpc' = "flushServer"
    /\ UNCHANGED <<queue, sbuf, swire>>
    /\ UnchangedByCeremonyStep

(* serverMc.flush(), after the player's: on a closed destination it fails *)
(* and the player has already received the whole ceremony.               *)
FlushServer ==
    /\ jpc = "flushServer"
    /\ \/ /\ DestFails
          /\ AbortSwitch("full")
          /\ UNCHANGED <<queue, pbuf, cwire, sbuf, swire>>
       \/ /\ ~DestFails
          /\ swire' = [swire EXCEPT ![dest] = @ \o sbuf[dest]]
          /\ sbuf' = [sbuf EXCEPT ![dest] = <<>>]
          /\ jpc' = "complete"
          /\ UNCHANGED <<queue, pbuf, cwire>>
          /\ UnchangedByCeremonyStep

(* destination.completeJoin() (not in src/): the destination becomes the *)
(* current server and the in-flight slot is cleared.                      *)
CompleteJoin ==
    /\ jpc = "complete"
    /\ connected' = dest
    /\ inFlight' = None
    /\ jpc' = "idle"
    /\ drainedUpTo' = nextMsg
    /\ UNCHANGED <<protocol, spawned, dest, jdim, joinLog, queue, ClientVars,
                   PhaseVars, ApiVars, pbuf, cwire, sbuf, swire, closedSrv,
                   failures>>

CeremonyStep ==
    \/ BufferJoinGame \/ BufferTempRespawn \/ BufferRespawn \/ BufferRegister
    \/ DrainQueued \/ BufferResetTitle \/ FlushPlayer \/ FlushServer
    \/ CompleteJoin

-----------------------------------------------------------------------------
(***************************************************************************)
(* The client read loop: handlePluginMessage for a plugin message that is *)
(* not REGISTER, UNREGISTER, a brand or a Forge handshake message, on a    *)
(* channel the proxy has not registered.  It reads the current server     *)
(* connection first and decides later, on state that may have moved.      *)
(***************************************************************************)
ClientReadServer ==
    /\ cpc = "idle" /\ nextMsg <= MaxMsgs
    /\ IF connected = None
         THEN /\ nextMsg' = nextMsg + 1           \* no backend: dropped
              /\ UNCHANGED <<cpc, cSnap>>
         ELSE /\ cSnap' = connected
              /\ cpc' = "decide"
              /\ UNCHANGED nextMsg
    /\ UNCHANGED <<protocol, PlayerVars, CeremonyVars, queue, PhaseVars,
                   ApiVars, pbuf, cwire, sbuf, swire, closedSrv,
                   failures>>

(* Both phases complete: backendConn.WritePacket, which flushes whatever  *)
(* the connection has buffered and fails on a closed connection.          *)
(* Otherwise the message is queued for the next JoinGame.                 *)
ClientDecide ==
    /\ cpc = "decide"
    /\ IF playerDone /\ backendDone[cSnap]
         THEN /\ IF cSnap \in closedSrv
                   THEN UNCHANGED <<sbuf, swire>>
                   ELSE /\ swire' = [swire EXCEPT ![cSnap] =
                                        @ \o sbuf[cSnap] \o <<Plugin(nextMsg)>>]
                        /\ sbuf' = [sbuf EXCEPT ![cSnap] = <<>>]
              /\ UNCHANGED queue
         ELSE /\ queue' = Append(queue, nextMsg)
              /\ UNCHANGED <<sbuf, swire>>
    /\ nextMsg' = nextMsg + 1
    /\ cpc' = "idle"
    /\ UNCHANGED <<protocol, PlayerVars, CeremonyVars, cSnap, PhaseVars,
                   ApiVars, pbuf, cwire, closedSrv, failures>>

(* The client's Forge handshake completes while the client read loop     *)
(* handles a handshake message (phase machine: spec.md 4.8); the phase   *)
(* then calls flushQueuedMessages, which sends the queue to the current  *)
(* server, if there is one.                                               *)
ClientHandshakeComplete ==
    /\ cpc = "idle" /\ ~playerDone
    /\ playerDone' = TRUE
    /\ IF connected = None
         THEN UNCHANGED <<queue, sbuf, swire>>
         ELSE /\ swire' = [swire EXCEPT ![connected] =
                              @ \o sbuf[connected] \o [i \in DOMAIN queue |-> Plugin(queue[i])]]
              /\ sbuf' = [sbuf EXCEPT ![connected] = <<>>]
              /\ queue' = <<>>
    /\ UNCHANGED <<protocol, PlayerVars, CeremonyVars, ClientVars, backendDone,
                   ApiVars, pbuf, cwire, closedSrv, failures>>

(* A backend's Forge handshake completes (spec.md 4.8). *)
BackendHandshakeComplete(s) ==
    /\ s \in {connected, inFlight} /\ ~backendDone[s]
    /\ backendDone' = [backendDone EXCEPT ![s] = TRUE]
    /\ UNCHANGED <<protocol, PlayerVars, CeremonyVars, queue, ClientVars,
                   playerDone, ApiVars, pbuf, cwire, sbuf, swire, closedSrv,
                   failures>>

-----------------------------------------------------------------------------
(* Another goroutine (a command, an event subscriber) calls SendMessage:  *)
(* WritePacket = BufferPacket, then flush of the shared buffer.           *)
SendMessage ==
    /\ apc = "idle" /\ chats < MaxChats
    /\ pbuf' = Append(pbuf, Chat)
    /\ chats' = chats + 1
    /\ apc' = "flush"
    /\ UNCHANGED <<protocol, PlayerVars, CeremonyVars, queue, ClientVars,
                   PhaseVars, cwire, sbuf, swire, closedSrv, failures>>

SendMessageFlush ==
    /\ apc = "flush"
    /\ cwire' = cwire \o pbuf
    /\ pbuf' = <<>>
    /\ apc' = "idle"
    /\ UNCHANGED <<protocol, PlayerVars, CeremonyVars, queue, ClientVars,
                   PhaseVars, chats, sbuf, swire, closedSrv, failures>>

-----------------------------------------------------------------------------
Finished ==
    /\ jpc = "idle" /\ inFlight = None /\ Len(joinLog) = MaxJoins
    /\ cpc = "idle" /\ nextMsg > MaxMsgs
    /\ apc = "idle" /\ chats = MaxChats
    /\ UNCHANGED vars

Next ==
    \/ \E s \in Servers : ConnectRequest(s) \/ BackendHandshakeComplete(s)
    \/ BackendJoinGame \/ DestCloses
    \/ CeremonyStep
    \/ ClientReadServer \/ ClientDecide \/ ClientHandshakeComplete
    \/ SendMessage \/ SendMessageFlush
    \/ Finished

(* Each goroutine finishes the handler it has started.  What arrives from *)
(* the network, and when, is not fair.                                     *)
Fairness ==
    /\ WF_vars(CeremonyStep)
    /\ WF_vars(ClientDecide)
    /\ WF_vars(SendMessageFlush)

Spec == Init /\ [][Next]_vars /\ Fairness

-----------------------------------------------------------------------------
(***************************************************************************)
(* What the client must see for each JoinGame (spec.md 4.4 and 8): the    *)
(* first JoinGame alone; a later one followed, before 1.16, by a Respawn  *)
(* into some other dimension and a Respawn into the JoinGame's, from 1.16 *)
(* by the latter only; then, from 1.8, a ResetTitle.  A ceremony cut at   *)
(* ensureConnected buffers nothing, one cut by a failed server write      *)
(* buffers everything but the ResetTitle.                                  *)
(***************************************************************************)
CeremonyOf(first, j) ==
    LET d == j.dim
        respawns == IF first THEN {<<>>}
                    ELSE IF protocol < Minecraft_1_16
                      THEN {<<Respawn(t), Respawn(d)>> : t \in Dims \ {d}}
                      ELSE {<<Respawn(d)>>}
        title == IF protocol >= Minecraft_1_8 /\ j.cut = "full"
                   THEN <<ResetTitle>> ELSE <<>>
    IN IF j.cut = "none" THEN {<<>>}
       ELSE {<<JoinGame(d)>> \o r \o title : r \in respawns}

(* spawned is still false while every earlier ceremony was cut at         *)
(* ensureConnected.                                                        *)
RECURSIVE ExpectedStreams(_)
ExpectedStreams(log) ==
    IF log = <<>> THEN {<<>>}
    ELSE LET first == \A i \in 1..Len(log) - 1 : log[i].cut = "none"
         IN {s \o c : s \in ExpectedStreams(Front(log)),
                      c \in CeremonyOf(first, Last(log))}

NotChat(p) == p.kind # "Chat"

(* handleBackendJoinGame buffers the ceremony one packet at a time while  *)
(* other goroutines may flush the player's buffer, and decides first and  *)
(* later joins with spawned: the switch packets the client receives are,  *)
(* in order, exactly the ceremonies of the JoinGames handled so far, as   *)
(* far as each got before a failed destination cut it short; a ceremony  *)
(* that ran to the player's flush has reached the client whole.          *)
CeremonyWellFormed ==
    LET seen == SelectSeq(cwire, NotChat)
        sent == SelectSeq(cwire \o pbuf, NotChat)
        lastFlushed == joinLog = <<>> \/ Last(joinLog).cut = "full"
    IN \E s \in ExpectedStreams(joinLog) :
           /\ IsPrefix(sent, s)
           /\ jpc = "idle" => sent = s
           /\ jpc = "idle" /\ lastFlushed => seen = s

IsJoinGame(p) == p.kind = "JoinGame"

(* spec.md 7, "Switch failure": a buffer or flush error during the       *)
(* ceremony aborts the switch and the client remains on its current      *)
(* backend.  handleBackendJoinGame flushes the player before the         *)
(* destination, and what it buffered for the player stays in the shared *)
(* buffer for the next flush when a later write fails: no JoinGame of an *)
(* abandoned switch may reach the client.  The k-th JoinGame the client  *)
(* receives is that of the k-th handled JoinGame whose ceremony got past *)
(* ensureConnected.                                                       *)
AbandonedSwitchUnseen ==
    LET buffered == SelectSeq(joinLog, LAMBDA j : j.cut # "none")
    IN \A k \in 1..Len(SelectSeq(cwire, IsJoinGame)) : ~buffered[k].abandoned

(* The comment in handlePluginMessage: early plugin messages are sent     *)
(* "once the FML handshake has completed or the JoinGame packet has been  *)
(* received by the proxy, whichever comes first".  Once a JoinGame has   *)
(* been handled, the queue holds only messages handled after it.          *)
QueueDrainedByJoin ==
    jpc = "idle" => \A i \in 1..Len(queue) : queue[i] >= drainedUpTo
=============================================================================
