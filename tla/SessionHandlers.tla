--------------------------- MODULE SessionHandlers ---------------------------
(***************************************************************************)
(* The session handler of one minecraftConn (src/pkg/proxy/connection.go) *)
(* and the three kinds of goroutine that touch it:                        *)
(*   - the read loop: loop() reads a packet, reads c.SessionHandler()     *)
(*     under c.mu and calls handlePacket on it after the lock is gone;    *)
(*   - goroutines installing a new handler with setSessionHandler, which  *)
(*     holds c.mu while it calls deactivated() on the old handler and     *)
(*     activated() on the new one;                                        *)
(*   - a goroutine closing the connection: closeKnown cancels the read   *)
(*     loop, marks the connection closed, closes the socket, then reads  *)
(*     c.SessionHandler() and calls disconnected() on it.                 *)
(* Every handler the proxy installs is a new object, so each handler is   *)
(* installed at most once.  A clientPlaySessionHandler (src/unnamed/       *)
(* part_001) writes REGISTER to the client in activated(), i.e. while     *)
(* setSessionHandler holds c.mu; a write that fails closes the connection *)
(* through closeOnErr, from inside the lock.                               *)
(***************************************************************************)
EXTENDS Naturals, FiniteSets

CONSTANTS
    Reader,     \* the connection's read goroutine
    Swappers,   \* goroutines that call setSessionHandler
    Closer,     \* a goroutine that calls close()
    Handlers,   \* handler objects; First is installed before readLoop runs
    First,
    None,
    PlayHandlers, \* handlers whose activated() writes REGISTER (channels registered)
    PeerStates, \* whether the client may already have hung up
    MaxReads    \* packets the read loop receives

ASSUME First \in Handlers /\ None \notin Handlers
       /\ PlayHandlers \subseteq Handlers /\ PeerStates \subseteq BOOLEAN

VARIABLES
    handler,    \* c.sessionHandler
    status,     \* per handler: "new", "active", "deactivated", "disconnected"
    muHolder,   \* the swapper holding c.mu for writing, or None
    ctxDone,    \* the read loop's context is cancelled
    closed,     \* c.closed
    once,       \* c.closeOnce: "idle", "running" (body executing), "done"
    peerGone,   \* the client has hung up: a write to it may fail
    rl, snap, reads,
    pc, target,
    cpc, shSnap

vars == <<handler, status, muHolder, ctxDone, closed, once, peerGone, rl, snap, reads,
          pc, target, cpc, shSnap>>

Status == {"new", "active", "deactivated", "disconnected"}

(* The steps of closeKnown, run by the closer or by a swapper whose write *)
(* failed.                                                                *)
CloseKnownPC == {"ck_enter", "ck_begin", "ck_sh", "ck_disc"}

TypeOK ==
    /\ handler \in Handlers
    /\ status \in [Handlers -> Status]
    /\ muHolder \in Swappers \cup {None}
    /\ ctxDone \in BOOLEAN /\ closed \in BOOLEAN
    /\ once \in {"idle", "running", "done"} /\ peerGone \in BOOLEAN
    /\ rl \in {"read", "dispatch", "handle", "exited"}
    /\ snap \in Handlers \cup {None} /\ reads \in 0..MaxReads
    /\ pc \in [Swappers -> {"idle", "sw_lock", "sw_deact", "sw_act", "sw_unlock"}
                           \cup CloseKnownPC]
    /\ target \in [Swappers -> Handlers \cup {None}]
    /\ cpc \in {"idle", "done"} \cup CloseKnownPC
    /\ shSnap \in Handlers \cup {None}

(* The connection as the proxy hands it to readLoop: the first handler  *)
(* (the handshake handler) is installed and activated.                   *)
Init ==
    /\ handler = First
    /\ status = [h \in Handlers |-> IF h = First THEN "active" ELSE "new"]
    /\ muHolder = None
    /\ ctxDone = FALSE /\ closed = FALSE /\ once = "idle"
    /\ peerGone \in PeerStates
    /\ rl = "read" /\ snap = None /\ reads = 0
    /\ pc = [s \in Swappers |-> "idle"]
    /\ target = [s \in Swappers |-> None]
    /\ cpc = "idle" /\ shSnap = None

(* c.SessionHandler(): RLock, read, RUnlock; waits while a writer holds c.mu *)
SessionHandlerReadable == muHolder = None

SwapVars  == <<muHolder, pc, target>>
ReadVars  == <<rl, snap, reads>>
CloseVars == <<ctxDone, closed, once, peerGone, cpc, shSnap>>

-----------------------------------------------------------------------------
(* readLoop's select: a cancelled context ends the loop, and its deferred *)
(* closeKnown(false) blocks in closeOnce.Do until the body has returned;  *)
(* otherwise loop() reads the next packet.                                *)
ReadPacket ==
    /\ rl = "read"
    /\ \/ /\ ctxDone /\ once = "done"
          /\ rl' = "exited"
          /\ UNCHANGED reads
       \/ /\ ~ctxDone /\ reads < MaxReads
          /\ reads' = reads + 1
          /\ rl' = "dispatch"
    /\ UNCHANGED <<handler, status, snap, SwapVars, CloseVars>>

(* c.SessionHandler() in loop(): the handler is read under the lock ... *)
Dispatch ==
    /\ rl = "dispatch" /\ SessionHandlerReadable
    /\ snap' = handler
    /\ rl' = "handle"
    /\ UNCHANGED <<handler, status, reads, SwapVars, CloseVars>>

(* ... and .handlePacket(ctx, packet) runs on it after the lock is gone, *)
(* whether or not it has since been deactivated or disconnected.         *)
HandlePacket ==
    /\ rl = "handle"
    /\ rl' = "read"
    /\ UNCHANGED <<handler, status, snap, reads, SwapVars, CloseVars>>

ReaderStep == ReadPacket \/ Dispatch \/ HandlePacket

-----------------------------------------------------------------------------
(* mutant: a caller passes a nil handler *)
SetSessionHandlerNil(s) ==
    /\ pc[s] = "idle"
    /\ \E h \in {g \in Handlers : status[g] = "new"} \cup {None} :
          /\ h \notin {target[t] : t \in Swappers} \ {None}
          /\ target' = [target EXCEPT ![s] = h]
    /\ pc' = [pc EXCEPT ![s] = "sw_lock"]
    /\ UNCHANGED <<handler, status, muHolder, ReadVars, CloseVars>>

(* setSessionHandler(handler) with a handler object never installed before *)
SetSessionHandler(s) ==
    /\ pc[s] = "idle"
    /\ \E h \in Handlers :
          /\ status[h] = "new" /\ h \notin {target[t] : t \in Swappers}
          /\ target' = [target EXCEPT ![s] = h]
    /\ pc' = [pc EXCEPT ![s] = "sw_lock"]
    /\ UNCHANGED <<handler, status, muHolder, ReadVars, CloseVars>>

(* mutant: setSessionHandler0 called without c.mu *)
SwLockFree(s) ==
    /\ pc[s] = "sw_lock"
    /\ pc' = [pc EXCEPT ![s] = "sw_deact"]
    /\ UNCHANGED <<handler, status, muHolder, target, ReadVars, CloseVars>>

(* c.mu.Lock() *)
SwLock(s) ==
    /\ pc[s] = "sw_lock" /\ muHolder = None
    /\ muHolder' = s
    /\ pc' = [pc EXCEPT ![s] = "sw_deact"]
    /\ UNCHANGED <<handler, status, target, ReadVars, CloseVars>>

(* if c.sessionHandler != nil { c.sessionHandler.deactivated() } *)
SwDeactivate(s) ==
    /\ pc[s] = "sw_deact"
    /\ status' = [status EXCEPT ![handler] = "deactivated"]
    /\ pc' = [pc EXCEPT ![s] = "sw_act"]
    /\ UNCHANGED <<handler, muHolder, target, ReadVars, CloseVars>>

(* clientPlaySessionHandler.activated(): WritePacket(REGISTER).  On a    *)
(* closed connection it returns at once; on an open one whose client has *)
(* hung up the flush may fail, and closeOnErr then calls close().         *)
ActivatedWriteFails(h) == h \in PlayHandlers /\ ~closed /\ peerGone

(* c.sessionHandler = handler; handler.activated(), which may end in     *)
(* closeKnown(true) run by this goroutine while it still holds c.mu.     *)
SwActivate(s) ==
    /\ pc[s] = "sw_act"
    /\ handler' = target[s]
    /\ status' = [status EXCEPT ![target[s]] = "active"]
    /\ \E l \in IF ActivatedWriteFails(target[s]) THEN {"sw_unlock", "ck_enter"}
                                                 ELSE {"sw_unlock"} :
          pc' = [pc EXCEPT ![s] = l]
    /\ UNCHANGED <<muHolder, target, ReadVars, CloseVars>>

(* the deferred c.mu.Unlock() *)
SwUnlock(s) ==
    /\ pc[s] = "sw_unlock"
    /\ muHolder' = IF muHolder = s THEN None ELSE muHolder
    /\ pc' = [pc EXCEPT ![s] = "idle"]
    /\ target' = [target EXCEPT ![s] = None]
    /\ UNCHANGED <<handler, status, ReadVars, CloseVars>>


-----------------------------------------------------------------------------
(* The control point of an actor that may run closeKnown: the closer or  *)
(* a swapper.  closeKnown returns to where the caller continues.          *)
CPC(a) == IF a = Closer THEN cpc ELSE pc[a]

CGoto(a, l) ==
    IF a = Closer THEN cpc' = l /\ UNCHANGED pc
                  ELSE pc' = [pc EXCEPT ![a] = l] /\ UNCHANGED cpc

Resume(a) == IF a = Closer THEN "done" ELSE "sw_unlock"

(* close() -> closeKnown(true) *)
Close ==
    /\ cpc = "idle"
    /\ cpc' = "ck_enter"
    /\ UNCHANGED <<handler, status, ctxDone, closed, once, peerGone, shSnap,
                   SwapVars, ReadVars>>

(* closeOnce.Do: the first caller runs the body, a later one returns     *)
(* ErrClosedConn, and one arriving while the body runs blocks.           *)
CloseEnter(a) ==
    /\ CPC(a) = "ck_enter"
    /\ \/ /\ once = "idle"
          /\ once' = "running"
          /\ CGoto(a, "ck_begin")
       \/ /\ once = "done"
          /\ CGoto(a, Resume(a))
          /\ UNCHANGED once
    /\ UNCHANGED <<handler, status, ctxDone, closed, peerGone, shSnap,
                   muHolder, target, ReadVars>>

(* c.cancelFunc(); c.closed.Store(true); c.c.Close() *)
CloseBegin(a) ==
    /\ CPC(a) = "ck_begin"
    /\ ctxDone' = TRUE /\ closed' = TRUE
    /\ CGoto(a, "ck_sh")
    /\ UNCHANGED <<handler, status, once, peerGone, shSnap, muHolder, target,
                   ReadVars>>

(* if sh := c.SessionHandler(); sh != nil ...: an RLock of c.mu, which   *)
(* waits while any goroutine holds the write lock, this one included.    *)
CloseReadHandler(a) ==
    /\ CPC(a) = "ck_sh" /\ SessionHandlerReadable
    /\ shSnap' = handler
    /\ CGoto(a, "ck_disc")
    /\ UNCHANGED <<handler, status, ctxDone, closed, once, peerGone, muHolder,
                   target, ReadVars>>

(* ... sh.disconnected(); the body returns and the Once is done *)
CloseDisconnect(a) ==
    /\ CPC(a) = "ck_disc"
    /\ status' = [status EXCEPT ![shSnap] = "disconnected"]
    /\ once' = "done"
    /\ CGoto(a, Resume(a))
    /\ UNCHANGED <<handler, ctxDone, closed, peerGone, shSnap, muHolder, target,
                   ReadVars>>

CloseKnownStep(a) ==
    CloseEnter(a) \/ CloseBegin(a) \/ CloseReadHandler(a) \/ CloseDisconnect(a)

CloserStep == CloseKnownStep(Closer)

SwapperStep(s) ==
    SwLock(s) \/ SwDeactivate(s) \/ SwActivate(s) \/ SwUnlock(s)
        \/ CloseKnownStep(s)

-----------------------------------------------------------------------------
Finished ==
    /\ cpc = "done" /\ rl = "exited"
    /\ \A s \in Swappers : pc[s] = "idle"
    /\ UNCHANGED vars

Next ==
    \/ ReaderStep
    \/ \E s \in Swappers : SetSessionHandler(s) \/ SwapperStep(s)
    \/ Close \/ CloserStep
    \/ Finished

(* Each goroutine that has started an operation is run by the scheduler; *)
(* starting a swap and closing are decided elsewhere, but a proxy that   *)
(* closes a connection does close it: Close is weakly fair.              *)
Spec == Init /\ [][Next]_vars
        /\ WF_vars(ReaderStep) /\ WF_vars(Close) /\ WF_vars(CloserStep)
        /\ \A s \in Swappers : WF_vars(SwapperStep(s))

-----------------------------------------------------------------------------
(* The connection is managed by one handler at a time: however many     *)
(* goroutines call setSessionHandler at once, at most one handler has   *)
(* been activated and not yet deactivated or disconnected.  c.mu        *)
(* around setSessionHandler0 is what makes this hold.                   *)
OneActiveHandler ==
    Cardinality({h \in Handlers : status[h] = "active"}) <= 1

(* The handler a connection has when it is closed is torn down: once    *)
(* closeKnown has run, the installed handler eventually receives        *)
(* disconnected() (sessionHandler: "Called when connection is closing,  *)
(* to teardown the session").                                           *)
CurrentHandlerDisconnected ==
    closed ~> status[handler] = "disconnected"

(* setSessionHandler returns: a swap that has started, including the    *)
(* new handler's activated(), eventually releases c.mu and returns.      *)
HandlerSwapCompletes ==
    \A s \in Swappers : pc[s] = "sw_lock" ~> pc[s] = "idle"
=============================================================================
