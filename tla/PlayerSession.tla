---------------------------- MODULE PlayerSession ----------------------------
(***************************************************************************)
(* A connected player's life between backends (src/unnamed/part_000):     *)
(*   - failover: after an unexpected backend close, or a failed           *)
(*     connection attempt, the backend goroutine asks nextServerToTry for  *)
(*     the next server of the configured try order and connects to it;    *)
(*     when the order is exhausted it Disconnects the player;             *)
(*   - teardown: when the client connection closes, for whatever reason,  *)
(*     its disconnected() runs teardown, which snapshots the in-flight    *)
(*     and current backend connections under p.mu, disconnects them, and  *)
(*     fires DisconnectEvent with a LoginStatus.                          *)
(* The connection request, the backend handlers that call                 *)
(* nextServerToTry and completeJoin are not in src/ and are modelled from *)
(* spec.md 4.4, 4.7 and 5; the switch ceremony itself is SwitchCeremony.   *)
(* Indices are 1-based: tryIndex = i here is p.tryIndex = i - 1.          *)
(***************************************************************************)
EXTENDS Integers, Sequences, SequencesExt, FiniteSets

CONSTANTS
    Servers,            \* server names
    None,               \* a nil server (connection)
    Registered,         \* the names p.proxy.Server resolves
    ForcedHostChoices,  \* possible ForcedHosts[virtualHost] entries
    AttemptOrders,      \* possible AttemptConnectionOrder() values
    MaxDrops            \* bound: unexpected backend closes

ASSUME /\ None \notin Servers /\ Registered \subseteq Servers
       /\ ForcedHostChoices \subseteq Seq(Servers)
       /\ AttemptOrders \subseteq Seq(Servers)

LoginStatuses == {"SuccessfulLogin", "ConflictingLogin", "CanceledByProxy",
                  "CanceledByUser"}

VARIABLES
    forcedHost, attemptOrder,  \* the proxy config, fixed
    connected,      \* p.connectedServer_
    inFlight,       \* p.connInFlight
    serversToTry,   \* p.serversToTry
    tryIndex,       \* p.tryIndex
    open,           \* this player's backend connections that are open
    fpc,            \* the failover goroutine
    fcur,           \* the `current` it passes: the backend that just failed
    ftarget,        \* the server nextServerToTry returned
    drops,
    attempted,      \* servers tried since the player last got connected (history)
    client,         \* the client connection: "open" or "closed"
    knownDisconnect,\* c.knownDisconnect
    registered,     \* the proxy's registry holds this player
    duplicate,      \* p.disconnectDueToDuplicateConnection
    tpc, tSnap,     \* teardown
    status          \* LoginStatus of the DisconnectEvent, or None

vars == <<forcedHost, attemptOrder, connected, inFlight, serversToTry,
          tryIndex, open, fpc, fcur, ftarget, drops, attempted, client,
          knownDisconnect, registered, duplicate, tpc, tSnap, status>>

ServerOrNone == Servers \cup {None}

TypeOK ==
    /\ forcedHost \in ForcedHostChoices /\ attemptOrder \in AttemptOrders
    /\ connected \in ServerOrNone /\ inFlight \in ServerOrNone
    /\ serversToTry \in Seq(Servers)
    /\ tryIndex \in 1..Len(serversToTry) + 1
    /\ open \subseteq Servers
    /\ fpc \in {"idle", "next", "connect", "connecting", "kick"}
    /\ fcur \in ServerOrNone /\ ftarget \in ServerOrNone
    /\ drops \in 0..MaxDrops
    /\ attempted \subseteq Servers
    /\ client \in {"open", "closed"}
    /\ knownDisconnect \in BOOLEAN /\ registered \in BOOLEAN
    /\ duplicate \in BOOLEAN
    /\ tpc \in {"none", "snapshot", "disconnect", "unregister", "done"}
    /\ tSnap \in [inFlight : ServerOrNone, connected : ServerOrNone]
    /\ status \in LoginStatuses \cup {None}

(* newConnectedPlayer: no backend yet, serversToTry empty, tryIndex 0;   *)
(* the login handler then picks the initial server with                  *)
(* nextServerToTry(nil).  The player may or may not have been registered *)
(* before its connection closes.                                         *)
Init ==
    /\ forcedHost \in ForcedHostChoices /\ attemptOrder \in AttemptOrders
    /\ connected = None /\ inFlight = None
    /\ serversToTry = <<>> /\ tryIndex = 1
    /\ open = {}
    /\ fpc = "next" /\ fcur = None /\ ftarget = None
    /\ drops = 0 /\ attempted = {}
    /\ client = "open" /\ knownDisconnect = FALSE
    /\ registered \in BOOLEAN /\ duplicate = FALSE
    /\ tpc = "none" /\ tSnap = [inFlight |-> None, connected |-> None]
    /\ status = None

-----------------------------------------------------------------------------
(***************************************************************************)
(* nextServerToTry(current), the pure part.                                *)
(***************************************************************************)
(* serversToTry, seeded when empty: ForcedHosts[virtualHost], else the   *)
(* attempt-connection order.                                              *)
SeedServersToTry(list) ==
    IF list # <<>> THEN list
    ELSE IF forcedHost # <<>> THEN forcedHost ELSE attemptOrder

(* mutant: `current` not among the skipped names *)
SkipNamesNoCurrent(cur) == {connected, inFlight} \ {None}

(* The names the loop skips: the current server, the in-flight one and  *)
(* `current`.                                                             *)
SkipNames(cur) == {connected, inFlight, cur} \ {None}

(* mutant: the p.proxy.Server(toTry) != nil check left out *)
RECURSIVE TryFromNoResolve(_, _, _, _)
TryFromNoResolve(list, i, skip, idx) ==
    IF i > Len(list) THEN [index |-> idx, server |-> None]
    ELSE IF list[i] \in skip THEN TryFromNoResolve(list, i + 1, skip, idx)
    ELSE [index |-> i, server |-> list[i]]

(* for i := tryIndex; i < len; i++: a skipped name is passed over;       *)
(* otherwise tryIndex = i, and the server is returned if it resolves.    *)
(* The result is the final tryIndex and the server, or None.             *)
RECURSIVE TryFrom(_, _, _, _)
TryFrom(list, i, skip, idx) ==
    IF i > Len(list) THEN [index |-> idx, server |-> None]
    ELSE IF list[i] \in skip THEN TryFrom(list, i + 1, skip, idx)
    ELSE IF list[i] \in Registered THEN [index |-> i, server |-> list[i]]
    ELSE TryFrom(list, i + 1, skip, i)

(* Reference: the first index from `from` whose name is neither skipped  *)
(* nor unresolvable; failing that, the last index not skipped.            *)
NextServerReference(list, from, skip) ==
    LET cand  == {i \in from..Len(list) : list[i] \notin skip}
        found == {i \in cand : list[i] \in Registered}
    IN IF found # {}
         THEN [index |-> Min(found), server |-> list[Min(found)]]
         ELSE [index |-> IF cand = {} THEN from ELSE Max(cand), server |-> None]

-----------------------------------------------------------------------------
(***************************************************************************)
(* The failover goroutine (a backend read loop).                           *)
(***************************************************************************)
(* mutant: the caller connects to whatever comes back, nil included *)
NextServerToTryNoNilCheck ==
    /\ fpc = "next"
    /\ LET list == SeedServersToTry(serversToTry)
           r    == TryFrom(list, tryIndex, SkipNames(fcur), tryIndex)
       IN /\ serversToTry' = list
          /\ tryIndex' = r.index
          /\ ftarget' = r.server
          /\ fpc' = "connect"
    /\ UNCHANGED <<forcedHost, attemptOrder, connected, inFlight, open, fcur,
                   drops, attempted, client, knownDisconnect, registered,
                   duplicate, tpc, tSnap, status>>

(* nextServerToTry(fcur) under p.mu *)
NextServerToTry ==
    /\ fpc = "next"
    /\ LET list == SeedServersToTry(serversToTry)
           r    == TryFrom(list, tryIndex, SkipNames(fcur), tryIndex)
       IN /\ serversToTry' = list
          /\ tryIndex' = r.index
          /\ ftarget' = r.server
          /\ fpc' = IF r.server = None THEN "kick" ELSE "connect"
    /\ UNCHANGED <<forcedHost, attemptOrder, connected, inFlight, open, fcur,
                   drops, attempted, client, knownDisconnect, registered,
                   duplicate, tpc, tSnap, status>>

(* The caller's connection request (spec.md 4.4): the in-flight slot.    *)
Connect ==
    /\ fpc = "connect"
    /\ inFlight' = ftarget
    /\ open' = open \cup {ftarget}
    /\ attempted' = attempted \cup {ftarget}
    /\ fpc' = "connecting"
    /\ UNCHANGED <<forcedHost, attemptOrder, connected, serversToTry, tryIndex,
                   fcur, ftarget, drops, client, knownDisconnect, registered,
                   duplicate, tpc, tSnap, status>>

(* The attempt fails before the switch: the connection is dropped and   *)
(* failover goes on with it as the just-failed backend (spec.md 4.7).    *)
ConnectFails ==
    /\ fpc = "connecting"
    /\ open' = open \ {inFlight}
    /\ inFlight' = None
    /\ fcur' = inFlight
    /\ fpc' = "next"
    /\ UNCHANGED <<forcedHost, attemptOrder, connected, serversToTry, tryIndex,
                   ftarget, drops, attempted, client, knownDisconnect,
                   registered, duplicate, tpc, tSnap, status>>

(* p.setConnectedServer(conn): p.connectedServer_ = conn under p.mu *)
SetConnectedServer(s) == connected' = s

(* The destination's JoinGame: the ceremony succeeds while the client is *)
(* connected, the previous backend is disconnected and completeJoin      *)
(* makes the destination current and clears the in-flight slot.           *)
CompleteJoin ==
    /\ fpc = "connecting" /\ client = "open"
    /\ SetConnectedServer(inFlight)
    /\ inFlight' = None
    /\ open' = open \ {connected}
    /\ attempted' = {}
    /\ fpc' = "idle"
    /\ UNCHANGED <<forcedHost, attemptOrder, serversToTry, tryIndex, fcur,
                   ftarget, drops, client, knownDisconnect, registered,
                   duplicate, tpc, tSnap, status>>

(* The client is gone: buffering the JoinGame to the player fails, the  *)
(* switch is aborted and the destination disconnected (spec.md 5).       *)
JoinFails ==
    /\ fpc = "connecting" /\ client = "closed"
    /\ open' = open \ {inFlight}
    /\ inFlight' = None
    /\ fpc' = "idle"
    /\ UNCHANGED <<forcedHost, attemptOrder, connected, serversToTry, tryIndex,
                   fcur, ftarget, drops, attempted, client, knownDisconnect,
                   registered, duplicate, tpc, tSnap, status>>

(* The client's connection closes: closeKnown runs disconnected(), i.e.  *)
(* teardown.                                                               *)
ClientCloses == client' = "closed" /\ tpc' = "snapshot"

(* Disconnect(reason): nothing if !Active(); otherwise closeWith, which  *)
(* stores knownDisconnect before the write and the close.                 *)
Disconnect ==
    IF client = "open"
      THEN ClientCloses /\ knownDisconnect' = TRUE
      ELSE UNCHANGED <<client, tpc, knownDisconnect>>

(* The try order is exhausted: the player is disconnected. *)
Kick ==
    /\ fpc = "kick"
    /\ Disconnect
    /\ fpc' = "idle"
    /\ UNCHANGED <<forcedHost, attemptOrder, connected, inFlight, serversToTry,
                   tryIndex, open, fcur, ftarget, drops, attempted, registered,
                   duplicate, tSnap, status>>

(* The current backend closes unexpectedly while the client is still    *)
(* connected: failover with it as `current` (spec.md 4.7).               *)
BackendDrops ==
    /\ fpc = "idle" /\ client = "open" /\ drops < MaxDrops
    /\ connected \in open
    /\ open' = open \ {connected}
    /\ fcur' = connected
    /\ drops' = drops + 1
    /\ fpc' = "next"
    /\ UNCHANGED <<forcedHost, attemptOrder, connected, inFlight, serversToTry,
                   tryIndex, ftarget, attempted, client, knownDisconnect,
                   registered, duplicate, tpc, tSnap, status>>

FailoverStep ==
    NextServerToTry \/ Connect \/ ConnectFails \/ CompleteJoin \/ JoinFails \/ Kick

-----------------------------------------------------------------------------
(* The user quits.  The client read loop does not close on EOF (the     *)
(* break at connection.go:144); the next write to the client fails, and  *)
(* closeOnErr calls close(), i.e. closeKnown(true), which stores         *)
(* knownDisconnect before running disconnected().                         *)
ClientQuits ==
    /\ client = "open"
    /\ ClientCloses
    /\ knownDisconnect' = TRUE
    /\ UNCHANGED <<forcedHost, attemptOrder, connected, inFlight, serversToTry,
                   tryIndex, open, fpc, fcur, ftarget, drops, attempted,
                   registered, duplicate, tSnap, status>>

(* The same profile logs in again (spec.md 8, scenario 2): the flag is  *)
(* set on this player and it is disconnected.                            *)
DuplicateLogin ==
    /\ client = "open" /\ registered /\ ~duplicate
    /\ duplicate' = TRUE
    /\ Disconnect
    /\ UNCHANGED <<forcedHost, attemptOrder, connected, inFlight, serversToTry,
                   tryIndex, open, fpc, fcur, ftarget, drops, attempted,
                   registered, tSnap, status>>

-----------------------------------------------------------------------------
(***************************************************************************)
(* teardown()                                                              *)
(***************************************************************************)
(* p.mu.RLock(); connInFlight, connectedServer := ...; p.mu.RUnlock() *)
TdSnapshot ==
    /\ tpc = "snapshot"
    /\ tSnap' = [inFlight |-> inFlight, connected |-> connected]
    /\ tpc' = "disconnect"
    /\ UNCHANGED <<forcedHost, attemptOrder, connected, inFlight, serversToTry,
                   tryIndex, open, fpc, fcur, ftarget, drops, attempted, client,
                   knownDisconnect, registered, duplicate, status>>

(* mutant: only the in-flight connection disconnected *)
TdDisconnectInFlightOnly ==
    /\ tpc = "disconnect"
    /\ open' = open \ {tSnap.inFlight}
    /\ tpc' = "unregister"
    /\ UNCHANGED <<forcedHost, attemptOrder, connected, inFlight, serversToTry,
                   tryIndex, fpc, fcur, ftarget, drops, attempted, client,
                   knownDisconnect, registered, duplicate, tSnap, status>>

(* connInFlight.disconnect(); connectedServer.disconnect() *)
TdDisconnect ==
    /\ tpc = "disconnect"
    /\ open' = open \ {tSnap.inFlight, tSnap.connected}
    /\ tpc' = "unregister"
    /\ UNCHANGED <<forcedHost, attemptOrder, connected, inFlight, serversToTry,
                   tryIndex, fpc, fcur, ftarget, drops, attempted, client,
                   knownDisconnect, registered, duplicate, tSnap, status>>

(* The LoginStatus table of teardown. *)
LoginStatusOf(unregistered, dup, known) ==
    IF unregistered THEN IF dup THEN "ConflictingLogin" ELSE "SuccessfulLogin"
                    ELSE IF known THEN "CanceledByProxy" ELSE "CanceledByUser"

(* unregisterConnection(p), the status, and DisconnectEvent fired *)
TdUnregister ==
    /\ tpc = "unregister"
    /\ status' = LoginStatusOf(registered, duplicate, knownDisconnect)
    /\ registered' = FALSE
    /\ tpc' = "done"
    /\ UNCHANGED <<forcedHost, attemptOrder, connected, inFlight, serversToTry,
                   tryIndex, open, fpc, fcur, ftarget, drops, attempted, client,
                   knownDisconnect, duplicate, tSnap>>

TeardownStep == TdSnapshot \/ TdDisconnect \/ TdUnregister

-----------------------------------------------------------------------------
(* Nothing is running: the player sits on a backend, or is gone. *)
Finished ==
    /\ fpc = "idle" /\ tpc \in {"none", "done"}
    /\ UNCHANGED vars

Next ==
    \/ FailoverStep \/ BackendDrops
    \/ ClientQuits \/ DuplicateLogin
    \/ TeardownStep
    \/ Finished

(* A started handler runs to its end; a connection attempt ends, by a   *)
(* JoinGame or by failing within the connection timeout.  Drops, quits  *)
(* and logins come from outside and are not fair.                         *)
Spec == Init /\ [][Next]_vars /\ WF_vars(FailoverStep) /\ WF_vars(TeardownStep)

-----------------------------------------------------------------------------
(* The loop of nextServerToTry, with its early `continue` and the        *)
(* tryIndex it leaves behind for unresolvable names, computes the first   *)
(* usable server of the order from tryIndex, for every start index and   *)
(* every set of skipped names, on the order the player has now.           *)
NextServerToTryMatchesReference ==
    LET list == SeedServersToTry(serversToTry)
    IN \A i \in 1..Len(list) + 1, skip \in SUBSET Servers :
          TryFrom(list, i, skip, i) = NextServerReference(list, i, skip)

(* Failover ends: after a backend drop or a failed attempt the player is *)
(* eventually on a backend or disconnected; nextServerToTry skipping the *)
(* just-failed backend is what keeps a refusing server from being tried  *)
(* forever.                                                               *)
FailoverEnds == fpc = "next" ~> fpc = "idle"

(* teardown leaves no backend connection of the player open: the ones   *)
(* it snapshots it disconnects, and one opened after the snapshot fails  *)
(* its switch on the closed client and is disconnected.                  *)
TeardownClosesBackends == client = "closed" ~> open = {}

(* spec.md 4.7: failover returns nil, and the player is kicked, only when *)
(* the try order is exhausted: every resolvable server of the order other *)
(* than the one that just failed has been tried since the player was last *)
(* connected.                                                             *)
KickOnlyWhenExhausted ==
    [][fpc = "next" /\ fpc' = "kick" =>
         \A s \in (ToSet(SeedServersToTry(serversToTry)) \cap Registered)
                    \ SkipNames(fcur) :
             s \in attempted]_vars
====
