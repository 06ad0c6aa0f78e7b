---------------------------- MODULE MinecraftConn ----------------------------
(***************************************************************************)
(* One minecraftConn (src/pkg/proxy/connection.go): the read-loop         *)
(* goroutine that owns the reading side, and other goroutines (Callers)    *)
(* that write packets, close the connection, or close it with a packet.   *)
(* close, closeWith and the error path of every write all go through      *)
(* closeKnown, whose body runs under a sync.Once: concurrent callers       *)
(* block until the first one has finished.                                 *)
(*                                                                         *)
(* Data is abstracted: a packet is a model value; the error classes of    *)
(* handleReadErr are reduced to what the loop does with them (retry or    *)
(* give up).                                                               *)
(***************************************************************************)
EXTENDS Naturals, Sequences

CONSTANTS Reader,    \* the read-loop goroutine of the connection
          Callers,   \* other goroutines that write to or close the connection
          Packets,   \* packets the callers write
          MaxOps,    \* bound: operations started by each caller
          MaxReads   \* bound: packets the peer sends

ASSUME Reader \notin Callers /\ MaxOps \in Nat /\ MaxReads \in Nat

Actors == Callers \cup {Reader}

VARIABLES
    rl,               \* control point of the read loop
    readFailed,       \* loop() has returned false at least once
    peerGone,         \* the peer hung up: every later read returns EOF
    reads,            \* packets read so far
    ctxDone,          \* the read loop's context has been cancelled
    closed,           \* c.closed (atomic)
    sockClosed,       \* c.c.Close() has run
    knownDisconnect,  \* c.knownDisconnect (atomic)
    once,             \* state of c.closeOnce
    disconnectedCalls,\* times sessionHandler.disconnected() has run
    pc,               \* control point of each caller
    markKnown,        \* argument of the closeKnown an actor is running
    after,            \* where an actor resumes when its closeKnown returns
    cont,             \* where a caller resumes when its WritePacket returns
    ops,              \* operations started by each caller
    buf,              \* c.writeBuf: encoded, not yet flushed packets
    wire,             \* packets flushed to the socket, in order
    state             \* c.state: the protocol state registry, under c.mu

vars == <<rl, readFailed, peerGone, reads, ctxDone, closed, sockClosed,
          knownDisconnect, once, disconnectedCalls, pc, markKnown, after,
          cont, ops, buf, wire, state>>

CallerPC == {"idle", "wp_check", "wp_buffer", "w_encode", "wp_flush", "cw_close",
             "ck_enter", "ck_cancel", "ck_mark", "ck_sock", "ck_disc"}
ReaderPC == {"select", "read", "handle", "ck_enter", "ck_cancel", "ck_mark",
             "ck_sock", "ck_disc", "exited"}

TypeOK ==
    /\ rl \in ReaderPC
    /\ readFailed \in BOOLEAN /\ peerGone \in BOOLEAN /\ reads \in 0..MaxReads
    /\ ctxDone \in BOOLEAN /\ closed \in BOOLEAN /\ sockClosed \in BOOLEAN
    /\ knownDisconnect \in BOOLEAN
    /\ once \in {"idle", "running", "done"}
    /\ disconnectedCalls \in Nat
    /\ pc \in [Callers -> CallerPC]
    /\ markKnown \in [Actors -> BOOLEAN]
    /\ after \in [Actors -> CallerPC \cup {"exited"}]
    /\ cont \in [Callers -> {"idle", "cw_close"}]
    /\ ops \in [Callers -> 0..MaxOps]
    /\ buf \in Seq(Packets) /\ wire \in Seq(Packets)
    /\ state \in {"login", "play"}

Init ==
    /\ rl = "select"
    /\ readFailed = FALSE /\ peerGone = FALSE /\ reads = 0
    /\ ctxDone = FALSE /\ closed = FALSE /\ sockClosed = FALSE
    /\ knownDisconnect = FALSE
    /\ once = "idle"
    /\ disconnectedCalls = 0
    /\ pc = [c \in Callers |-> "idle"]
    /\ markKnown = [a \in Actors |-> FALSE]
    /\ after = [a \in Actors |-> "idle"]
    /\ cont = [c \in Callers |-> "idle"]
    /\ ops = [c \in Callers |-> 0]
    /\ buf = <<>> /\ wire = <<>>
    /\ state = "login"

(* c.Closed(): the atomic closed flag *)
Closed == closed

(* The control point of an actor, whether the reader or a caller. *)
At(a) == IF a = Reader THEN rl ELSE pc[a]

Goto(a, l) ==
    IF a = Reader THEN rl' = l /\ UNCHANGED pc
                  ELSE pc' = [pc EXCEPT ![a] = l] /\ UNCHANGED rl

ReadVars  == <<readFailed, peerGone, reads>>
CloseVars == <<ctxDone, closed, sockClosed, knownDisconnect, once,
               disconnectedCalls>>

-----------------------------------------------------------------------------
(***************************************************************************)
(* closeKnown(markKnown): the body runs once under c.closeOnce; any other *)
(* actor blocks in closeOnce.Do while the body runs and then returns      *)
(* ErrClosedConn.                                                          *)
(***************************************************************************)
CallCloseKnown(a, known, resume) ==
    /\ Goto(a, "ck_enter")
    /\ markKnown' = [markKnown EXCEPT ![a] = known]
    /\ after' = [after EXCEPT ![a] = resume]

(* mutant: the Once replaced by a check of the closed flag *)
CloseOnceEnterUnguarded(a) ==
    /\ At(a) = "ck_enter"
    /\ \/ /\ ~closed
          /\ once' = "running"
          /\ Goto(a, "ck_cancel")
       \/ /\ closed
          /\ Goto(a, after[a])
          /\ UNCHANGED once
    /\ UNCHANGED <<ReadVars, ctxDone, closed, sockClosed, knownDisconnect,
                   disconnectedCalls, markKnown, after, cont, ops, buf, wire, state>>

CloseOnceEnter(a) ==
    /\ At(a) = "ck_enter"
    /\ \/ /\ once = "idle"
          /\ once' = "running"
          /\ Goto(a, "ck_cancel")
       \/ /\ once = "done"
          /\ Goto(a, after[a])
          /\ UNCHANGED once
    /\ UNCHANGED <<ReadVars, ctxDone, closed, sockClosed, knownDisconnect,
                   disconnectedCalls, markKnown, after, cont, ops, buf, wire, state>>

(* mutant: c.cancelFunc() left out *)
CloseCancelNoCancel(a) ==
    /\ At(a) = "ck_cancel"
    /\ knownDisconnect' = (knownDisconnect \/ markKnown[a])
    /\ Goto(a, "ck_mark")
    /\ UNCHANGED <<ReadVars, ctxDone, closed, sockClosed, once, disconnectedCalls,
                   markKnown, after, cont, ops, buf, wire, state>>

(* knownDisconnect.Store(true) if markKnown; c.cancelFunc() *)
CloseCancel(a) ==
    /\ At(a) = "ck_cancel"
    /\ knownDisconnect' = (knownDisconnect \/ markKnown[a])
    /\ ctxDone' = TRUE
    /\ Goto(a, "ck_mark")
    /\ UNCHANGED <<ReadVars, closed, sockClosed, once, disconnectedCalls,
                   markKnown, after, cont, ops, buf, wire, state>>

(* c.closed.Store(true) *)
CloseMark(a) ==
    /\ At(a) = "ck_mark"
    /\ closed' = TRUE
    /\ Goto(a, "ck_sock")
    /\ UNCHANGED <<ReadVars, ctxDone, sockClosed, knownDisconnect, once,
                   disconnectedCalls, markKnown, after, cont, ops, buf, wire, state>>

(* err = c.c.Close() *)
CloseSocket(a) ==
    /\ At(a) = "ck_sock"
    /\ sockClosed' = TRUE
    /\ Goto(a, "ck_disc")
    /\ UNCHANGED <<ReadVars, ctxDone, closed, knownDisconnect, once,
                   disconnectedCalls, markKnown, after, cont, ops, buf, wire, state>>

(* sh.disconnected(); the Once is done when the body returns *)
CloseDisconnected(a) ==
    /\ At(a) = "ck_disc"
    /\ disconnectedCalls' = disconnectedCalls + 1
    /\ once' = "done"
    /\ Goto(a, after[a])
    /\ UNCHANGED <<ReadVars, ctxDone, closed, sockClosed, knownDisconnect,
                   markKnown, after, cont, ops, buf, wire, state>>

CloseKnownStep(a) ==
    CloseOnceEnter(a) \/ CloseCancel(a) \/ CloseMark(a) \/ CloseSocket(a)
        \/ CloseDisconnected(a)

-----------------------------------------------------------------------------
(***************************************************************************)
(* readLoop and loop.  A `break` inside `select` leaves only the select,  *)
(* so whatever loop() returns, the for loop goes round again; it returns  *)
(* only through the ctx.Done() case, and then runs closeKnown(false).      *)
(***************************************************************************)
ReadLoopSelect ==
    /\ rl = "select"
    /\ IF ctxDone
         THEN CallCloseKnown(Reader, FALSE, "exited")
         ELSE rl' = "read" /\ UNCHANGED <<pc, markKnown, after>>
    /\ UNCHANGED <<ReadVars, CloseVars, cont, ops, buf, wire, state>>

(* The errors a read can end with, as handleReadErr tells them apart.    *)
ReadErrors == {"eagain", "temporary", "timeout", "connClosed", "eof", "silent"}

(* handleReadErr: only EAGAIN and temporary network errors are retried.  *)
HandleReadErr(err) == err \in {"eagain", "temporary"}

(* One call of loop() up to the dispatch: set the read deadline and read  *)
(* one packet.  A closed socket fails with "use of closed", a peer that   *)
(* hung up with EOF; an open one delivers a packet (ErrDecoderLeftBytes   *)
(* is ignored and the packet handled) or fails.                           *)
LoopRead ==
    /\ rl = "read"
    /\ \/ /\ sockClosed \/ peerGone
          /\ readFailed' = ~HandleReadErr(IF sockClosed THEN "connClosed" ELSE "eof")
          /\ rl' = "select"
          /\ UNCHANGED <<peerGone, reads>>
       \/ /\ ~sockClosed /\ ~peerGone
          /\ \/ /\ reads < MaxReads
                /\ reads' = reads + 1
                /\ rl' = "handle"
                /\ UNCHANGED <<readFailed, peerGone>>
             \/ \E err \in ReadErrors :
                /\ readFailed' = (readFailed \/ ~HandleReadErr(err))
                /\ peerGone' = (err = "eof")
                /\ rl' = "select"
                /\ UNCHANGED reads
    /\ UNCHANGED <<CloseVars, pc, markKnown, after, cont, ops, buf, wire, state>>

(* c.setState(s) under c.mu, with the codec's state set alongside *)
SetState(s) == state' = s

(* handlePacket / handleUnknownPacket of the current session handler; a  *)
(* panic is recovered and loop() returns false.  The login handler moves *)
(* the connection to the play state when login succeeds.                 *)
LoopHandle ==
    /\ rl = "handle"
    /\ rl' = "select"
    /\ readFailed' \in {readFailed, TRUE}
    /\ \E s \in {state, "play"} : SetState(s)
    /\ UNCHANGED <<peerGone, reads, CloseVars, pc, markKnown, after, cont,
                   ops, buf, wire>>

ReaderStep ==
    ReadLoopSelect \/ LoopRead \/ LoopHandle \/ CloseKnownStep(Reader)

-----------------------------------------------------------------------------
(***************************************************************************)
(* Callers: WritePacket, Write, BufferPayload, SendKeepAlive, closeWith   *)
(* and close.                                                              *)
(***************************************************************************)
StartOp(c) == pc[c] = "idle" /\ ops[c] < MaxOps /\ ops' = [ops EXCEPT ![c] = @ + 1]

(* WritePacket(p): returns ErrClosedConn at once if Closed(). *)
WritePacket(c) ==
    /\ StartOp(c)
    /\ pc' = [pc EXCEPT ![c] = "wp_check"]
    /\ cont' = [cont EXCEPT ![c] = "idle"]
    /\ UNCHANGED <<rl, ReadVars, CloseVars, markKnown, after, buf, wire, state>>

(* closeWith(p): knownDisconnect, WritePacket(p), then the deferred close(). *)
CloseWith(c) ==
    /\ StartOp(c)
    /\ IF closed
         THEN UNCHANGED <<pc, cont, knownDisconnect>>
         ELSE /\ knownDisconnect' = TRUE
              /\ pc' = [pc EXCEPT ![c] = "wp_check"]
              /\ cont' = [cont EXCEPT ![c] = "cw_close"]
    /\ UNCHANGED <<rl, ReadVars, ctxDone, closed, sockClosed, once,
                   disconnectedCalls, markKnown, after, buf, wire, state>>

(* close() == closeKnown(true) *)
Close(c) ==
    /\ StartOp(c)
    /\ CallCloseKnown(c, TRUE, "idle")
    /\ UNCHANGED <<ReadVars, CloseVars, cont, buf, wire, state>>

(* Write(payload): the same Closed() check, then encoder.Write(payload), *)
(* which has no check of its own, then flush; closeOnErr on any error.   *)
Write(c) ==
    /\ StartOp(c)
    /\ IF Closed THEN UNCHANGED <<pc, cont>>
                 ELSE /\ pc' = [pc EXCEPT ![c] = "w_encode"]
                      /\ cont' = [cont EXCEPT ![c] = "idle"]
    /\ UNCHANGED <<rl, ReadVars, CloseVars, markKnown, after, buf, wire, state>>

WEncode(c) ==
    /\ pc[c] = "w_encode"
    /\ \E p \in Packets : buf' = Append(buf, p)
    /\ pc' = [pc EXCEPT ![c] = "wp_flush"]
    /\ UNCHANGED <<rl, ReadVars, CloseVars, markKnown, after, cont, ops, wire, state>>

(* BufferPayload(payload) (and BufferPacket called on its own, as the    *)
(* switch ceremony does): encode into the shared buffer, no flush.  On a *)
(* closed connection it returns ErrClosedConn before closeOnErr is       *)
(* deferred, so nothing else happens.                                    *)
BufferPayload(c) ==
    /\ StartOp(c)
    /\ IF Closed THEN UNCHANGED buf
                 ELSE \E p \in Packets : buf' = Append(buf, p)
    /\ UNCHANGED <<rl, pc, ReadVars, CloseVars, markKnown, after, cont, wire, state>>

(* SendKeepAlive: if c.State() == state.Play, WritePacket(KeepAlive);    *)
(* State() reads c.state under c.mu.RLock.                               *)
SendKeepAlive(c) ==
    /\ StartOp(c)
    /\ IF state = "play"
         THEN /\ pc' = [pc EXCEPT ![c] = "wp_check"]
              /\ cont' = [cont EXCEPT ![c] = "idle"]
         ELSE UNCHANGED <<pc, cont>>
    /\ UNCHANGED <<rl, ReadVars, CloseVars, markKnown, after, buf, wire, state>>

WPCheck(c) ==
    /\ pc[c] = "wp_check"
    /\ pc' = [pc EXCEPT ![c] = IF closed THEN cont[c] ELSE "wp_buffer"]
    /\ UNCHANGED <<rl, ReadVars, CloseVars, markKnown, after, cont, ops, buf, wire, state>>

(* BufferPacket: on error closeOnErr calls close() before WritePacket     *)
(* returns the error.                                                     *)
WPBuffer(c) ==
    /\ pc[c] = "wp_buffer"
    /\ IF closed
         THEN CallCloseKnown(c, TRUE, cont[c]) /\ UNCHANGED buf
         ELSE /\ \E p \in Packets : buf' = Append(buf, p)
              /\ pc' = [pc EXCEPT ![c] = "wp_flush"]
              /\ UNCHANGED <<markKnown, after>>
    /\ UNCHANGED <<rl, ReadVars, CloseVars, cont, ops, wire, state>>

(* flush: SetWriteDeadline fails on a closed socket, and the write fails  *)
(* once the peer is gone; either way closeOnErr calls close().  Otherwise *)
(* encoder.Sync(writeBuf.Flush) moves the whole shared buffer out.        *)
WPFlush(c) ==
    /\ pc[c] = "wp_flush"
    /\ \/ /\ ~sockClosed
          /\ wire' = wire \o buf
          /\ buf' = <<>>
          /\ pc' = [pc EXCEPT ![c] = cont[c]]
          /\ UNCHANGED <<markKnown, after>>
       \/ /\ sockClosed \/ peerGone
          /\ CallCloseKnown(c, TRUE, cont[c])
          /\ UNCHANGED <<buf, wire, state>>
    /\ UNCHANGED <<rl, ReadVars, CloseVars, cont, ops, state>>

(* the close() deferred by closeWith *)
CWClose(c) ==
    /\ pc[c] = "cw_close"
    /\ CallCloseKnown(c, TRUE, "idle")
    /\ UNCHANGED <<ReadVars, CloseVars, cont, ops, buf, wire, state>>

CallerStep(c) ==
    WPCheck(c) \/ WPBuffer(c) \/ WEncode(c) \/ WPFlush(c) \/ CWClose(c) \/ CloseKnownStep(c)

CallerStart(c) ==
    \/ WritePacket(c) \/ Write(c) \/ BufferPayload(c) \/ SendKeepAlive(c)
    \/ CloseWith(c) \/ Close(c)

(* The connection is finished: the read loop has returned and no caller  *)
(* has anything left to do.                                              *)
Finished ==
    /\ rl = "exited"
    /\ \A c \in Callers : pc[c] = "idle" /\ ops[c] = MaxOps
    /\ UNCHANGED vars

Next ==
    \/ ReaderStep
    \/ \E c \in Callers : CallerStep(c) \/ CallerStart(c)
    \/ Finished

(* Goroutines are scheduled by the Go runtime: every started step is     *)
(* eventually taken.  Starting a new operation is up to the rest of the  *)
(* proxy and is not fair.                                                 *)
Fairness ==
    /\ WF_vars(ReaderStep)
    /\ \A c \in Callers : WF_vars(CallerStep(c))

Spec == Init /\ [][Next]_vars /\ Fairness

-----------------------------------------------------------------------------
(* closeOnce: sessionHandler.disconnected() runs at most once, however    *)
(* many goroutines close the connection, write to it and fail, or reach  *)
(* the end of the read loop concurrently.                                 *)
DisconnectedOnce == disconnectedCalls <= 1

(* Once the connection is marked closed, the handler's disconnected()    *)
(* has run and the read loop has returned: cancelFunc in closeKnown is    *)
(* what stops the read loop, since `break` does not.                      *)
CloseCompletes == closed ~> (disconnectedCalls = 1 /\ rl = "exited")

(* readLoop's doc: "close will be called on method return", and          *)
(* handleReadErr marks EOF, a read timeout or a closed socket as          *)
(* unrecoverable.  A read that fails for good must lead to the           *)
(* connection being closed.                                               *)
ReadFailureCloses == readFailed ~> closed
=============================================================================
