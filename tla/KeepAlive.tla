------------------------------ MODULE KeepAlive ------------------------------
(***************************************************************************)
(* Keep-alive relaying and ping measurement (spec.md 4.6).  A backend    *)
(* KeepAlive is relayed to the client and its id and the wall-clock       *)
(* millisecond of the relay are recorded on the server connection; that  *)
(* part is the backend play handler, not in src/, and is modelled from    *)
(* the spec.  The client's reply is clientPlaySessionHandler's            *)
(* handleKeepAlive (src/unnamed/part_001), run on the client read loop:   *)
(* it reads the current server connection, and only later compares the  *)
(* id, computes the ping, forwards the reply and stores lastPingSent.    *)
(* Time is the wall clock in milliseconds; time.Now().Nanosecond() is    *)
(* the nanosecond within the current second.                             *)
(***************************************************************************)
EXTENDS Integers

CONSTANTS
    Servers, None,
    Ids,        \* keep-alive ids (random 64-bit values: never repeated)
    Steps,      \* how far the clock may advance in one step, in ms
    MaxTime,    \* bound on the clock
    MaxSwitches \* bound on server switches

ASSUME None \notin Servers /\ 0 \notin Ids

VARIABLES
    now,            \* wall clock, ms
    connected,      \* p.connectedServer_
    lastPingId,     \* per server connection
    lastPingSent,   \* per server connection, ms
    toClient,       \* ids relayed to the client and not yet answered
    relayedAt,      \* the time each id was relayed (history)
    ping,           \* p.ping in ms, -1 while unknown
    kpc, kSnap, kId,
    switches

vars == <<now, connected, lastPingId, lastPingSent, toClient, relayedAt,
          ping, kpc, kSnap, kId, switches>>

MsPerSecond == 1000

TypeOK ==
    /\ now \in 0..MaxTime
    /\ connected \in Servers
    /\ lastPingId \in [Servers -> Ids \cup {0}]
    /\ lastPingSent \in [Servers -> 0..MaxTime]
    /\ toClient \subseteq Ids
    /\ relayedAt \in [Ids -> Int]
    /\ ping \in Int
    /\ kpc \in {"idle", "check"}
    /\ kSnap \in Servers \cup {None} /\ kId \in Ids \cup {0}
    /\ switches \in 0..MaxSwitches

(* The player is on some server; no keep-alive has been seen yet. *)
Init ==
    /\ now = 0
    /\ connected \in Servers
    /\ lastPingId = [s \in Servers |-> 0]
    /\ lastPingSent = [s \in Servers |-> 0]
    /\ toClient = {}
    /\ relayedAt = [i \in Ids |-> -1]
    /\ ping = -1
    /\ kpc = "idle" /\ kSnap = None /\ kId = 0
    /\ switches = 0

Tick ==
    /\ \E d \in Steps : now + d <= MaxTime /\ now' = now + d
    /\ UNCHANGED <<connected, lastPingId, lastPingSent, toClient, relayedAt,
                   ping, kpc, kSnap, kId, switches>>

(* The current backend sends a KeepAlive with a fresh id; the proxy     *)
(* records it and relays it to the client.                               *)
BackendKeepAlive(id) ==
    /\ relayedAt[id] = -1
    /\ lastPingId' = [lastPingId EXCEPT ![connected] = id]
    /\ lastPingSent' = [lastPingSent EXCEPT ![connected] = now]
    /\ relayedAt' = [relayedAt EXCEPT ![id] = now]
    /\ toClient' = toClient \cup {id}
    /\ UNCHANGED <<now, connected, ping, kpc, kSnap, kId, switches>>

(* A switch completes (SwitchCeremony): another server becomes current. *)
SwitchServer(s) ==
    /\ s # connected /\ switches < MaxSwitches
    /\ connected' = s
    /\ switches' = switches + 1
    /\ UNCHANGED <<now, lastPingId, lastPingSent, toClient, relayedAt, ping,
                   kpc, kSnap, kId>>

-----------------------------------------------------------------------------
(* The client answers a KeepAlive it received, once.  handleKeepAlive:  *)
(* serverConn := c.player.connectedServer()                             *)
ClientKeepAlive(id) ==
    /\ kpc = "idle" /\ id \in toClient
    /\ toClient' = toClient \ {id}
    /\ kId' = id /\ kSnap' = connected
    /\ kpc' = "check"
    /\ UNCHANGED <<now, connected, lastPingId, lastPingSent, relayedAt, ping,
                   switches>>

(* if serverConn != nil && p.RandomId == serverConn.lastPingId.Load():  *)
(* ping = time.Since(time.Unix(0, lastPingSent*ms)); the reply is       *)
(* written to serverConn's connection, which fails once that server has *)
(* been switched away from; on success lastPingSent is set to           *)
(* time.Now().Nanosecond() / time.Millisecond.  Other ids are dropped.  *)
KeepAliveCheck ==
    /\ kpc = "check"
    /\ IF kId = lastPingId[kSnap]
         THEN /\ ping' = now - lastPingSent[kSnap]
              /\ lastPingSent' = IF kSnap = connected
                                   THEN [lastPingSent EXCEPT ![kSnap] = now % MsPerSecond]
                                   ELSE lastPingSent
         ELSE UNCHANGED <<ping, lastPingSent>>
    /\ kpc' = "idle"
    /\ UNCHANGED <<now, connected, lastPingId, toClient, relayedAt, kSnap,
                   kId, switches>>

-----------------------------------------------------------------------------
(* Every id has been answered and the clock has run out. *)
Finished ==
    /\ now + (CHOOSE d \in Steps : \A e \in Steps : d <= e) > MaxTime
    /\ toClient = {} /\ kpc = "idle"
    /\ UNCHANGED vars

Next ==
    \/ Tick
    \/ \E id \in Ids : BackendKeepAlive(id) \/ ClientKeepAlive(id)
    \/ \E s \in Servers : SwitchServer(s)
    \/ KeepAliveCheck
    \/ Finished

Spec == Init /\ [][Next]_vars /\ WF_vars(KeepAliveCheck)
=============================================================================
