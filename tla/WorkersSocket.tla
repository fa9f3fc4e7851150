--------------------------- MODULE WorkersSocket ---------------------------
(***************************************************************************)
(* The Workers WebSocket transport (js/websocket.mjs): one socket of a       *)
(* WebSocketPair, one session of the Rust Ingress behind session.invoke, and *)
(* the event scope that owns both.  Everything runs on one thread; a step is *)
(* an event handler or what follows an await.  The platform's socket, the    *)
(* session and the scope are external.                                      *)
(*                                                                          *)
(* The state is one record, so that the functions of the module, which call  *)
(* each other, can be written as functions of it:                           *)
(*   active, closing, sending, peerClosed, queuedBytes, transferred, queue   *)
(*             the local variables of the same names                        *)
(*   flight    the frame drain is sending, optional                         *)
(*   finished  nativeFinished was called: the native operation settles      *)
(*   listening the event listeners are attached (until cleanup)             *)
(*   reading   the loop over session.value.read() runs                      *)
(*   ended     the Endpoint's close frame was read                          *)
(*   session   "open" or "over": session.closed has settled                 *)
(*   scope     "open", "closed" or "invalidated"                            *)
(*   wire      "open" or "closed": the platform reported the socket's end    *)
(*   closes, cancels, late, closeSent, frames   history: calls of           *)
(*             server.close and session.cancel, a send after server.close,  *)
(*             the peer's close frame reached the session, frames so far    *)
(***************************************************************************)
EXTENDS Integers, Sequences, SequencesExt

CONSTANTS MaxMessageBytes, MaxQueuedMessages, MaxQueuedBytes, MaxSessionBytes,
          SocketFrames   \* bound: data frames of both directions together

VARIABLE socket

WorkersInit ==
    socket = [active |-> TRUE, closing |-> FALSE, sending |-> FALSE, peerClosed |-> FALSE,
              queuedBytes |-> 0, transferred |-> 0, queue |-> <<>>, flight |-> <<>>,
              finished |-> FALSE, listening |-> TRUE, reading |-> TRUE, ended |-> FALSE,
              session |-> "open", scope |-> "open", wire |-> "open",
              closes |-> 0, cancels |-> 0, late |-> FALSE, closeSent |-> FALSE, frames |-> 0]

DataFrame(n) == [kind |-> "data", size |-> n]
CloseFrame == [kind |-> "close", size |-> 0]

\* close(): throws tells whether server.close does.
WorkersClose(s, throws) ==
    IF s.closing THEN s
    ELSE [s EXCEPT !.closing = TRUE, !.closes = @ + 1, !.finished = @ \/ throws]

\* Mutant of WorkersFail: the session is not told.
WorkersFailQuietly(s, throws) ==
    IF ~s.active THEN s ELSE WorkersClose([s EXCEPT !.active = FALSE], throws)

WorkersFail(s, throws) ==
    IF ~s.active THEN s
    ELSE [WorkersClose([s EXCEPT !.active = FALSE], throws) EXCEPT !.cancels = @ + 1]

\* The loop of drain up to its await, or its end.
DrainLoop(s) ==
    IF s.active /\ s.queue # <<>>
    THEN [s EXCEPT !.sending = TRUE, !.flight = <<Head(s.queue)>>, !.queue = Tail(@)]
    ELSE [s EXCEPT !.sending = FALSE, !.flight = <<>>]

\* Mutant of Full: the frame that is being sent does not count.
FullBesideFlight(s, frame) ==
    Len(s.queue) >= MaxQueuedMessages \/ frame.size > MaxQueuedBytes - s.queuedBytes

Full(s, frame) ==
    \/ Len(s.queue) + (IF s.sending THEN 1 ELSE 0) >= MaxQueuedMessages
    \/ frame.size > MaxQueuedBytes - s.queuedBytes

enqueue(s, frame, throws) ==
    IF ~s.active \/ s.scope # "open" THEN s
    ELSE IF Full(s, frame) THEN WorkersFail(s, throws)
    ELSE LET t == [s EXCEPT !.queuedBytes = @ + frame.size, !.queue = Append(@, frame)]
         IN IF t.sending THEN t ELSE DrainLoop(t)

OverBudget(s, n) == n > MaxMessageBytes \/ n > MaxSessionBytes - s.transferred

(***************************************************************************)
(* Events of the socket; without listeners only the platform changes.       *)
(***************************************************************************)
Message(n, throws) ==
    LET s == socket IN
    /\ s.wire = "open" /\ s.frames < SocketFrames
    /\ socket' = [ IF ~s.listening \/ ~s.active \/ s.peerClosed \/ s.scope # "open" THEN s
                   ELSE IF OverBudget(s, n) THEN WorkersFail(s, throws)
                   ELSE enqueue([s EXCEPT !.transferred = @ + n], DataFrame(n), throws)
                   EXCEPT !.frames = @ + 1 ]

\* Mutant of Closed: an inactive transport ignores the event.
ClosedIfActive(code, throws) ==
    LET s == [socket EXCEPT !.wire = "closed"] IN
    /\ socket.wire = "open"
    /\ socket' = IF ~s.listening \/ ~s.active THEN s
                 ELSE enqueue([s EXCEPT !.finished = TRUE, !.peerClosed = TRUE], CloseFrame, throws)

Closed(code, throws) ==
    LET s == [socket EXCEPT !.wire = "closed"]
        t == [s EXCEPT !.finished = TRUE, !.peerClosed = TRUE]
    IN /\ socket.wire = "open"
       /\ socket' = IF ~s.listening THEN s
                    ELSE IF ~t.active \/ t.scope # "open" THEN t
                    ELSE IF code = 1006 THEN WorkersFail(t, throws)
                    ELSE enqueue(t, CloseFrame, throws)

Failed(throws) ==
    LET s == [socket EXCEPT !.wire = "closed"] IN
    /\ socket.wire = "open"
    /\ socket' = IF s.listening THEN WorkersFail([s EXCEPT !.finished = TRUE], throws) ELSE s

(***************************************************************************)
(* After the awaits.                                                        *)
(***************************************************************************)
\* Mutant of SendResolves: drain sends one frame and stops.
SendResolvesOnce ==
    LET s == socket IN
    /\ s.flight # <<>>
    /\ socket' = [s EXCEPT !.queuedBytes = @ - s.flight[1].size, !.sending = FALSE, !.flight = <<>>,
                           !.closeSent = @ \/ s.flight[1].kind = "close"]

SendResolves ==
    LET s == socket IN
    /\ s.flight # <<>>
    /\ socket' = DrainLoop([s EXCEPT !.queuedBytes = @ - s.flight[1].size,
                                     !.closeSent = @ \/ s.flight[1].kind = "close"])

SendRejects(throws) ==
    LET s == socket IN
    /\ s.flight # <<>>
    /\ socket' = WorkersFail([s EXCEPT !.queuedBytes = @ - s.flight[1].size, !.flight = <<>>, !.sending = FALSE],
                             throws)

\* while (active && !scope.closed)
ReadLoop(s) == [s EXCEPT !.reading = s.active /\ s.scope = "open"]

\* Mutant of ReadGuard: what was read is used without looking again.
ReadGuardMissing(s) == FALSE

ReadGuard(s) == ~s.active \/ s.scope # "open"

\* The session yields data until its close frame (websocket.rs, receive).
ReadData(n, throws) ==
    LET s == socket IN
    /\ s.reading /\ ~s.ended /\ s.frames < SocketFrames
    /\ socket' = [ IF ReadGuard(s) THEN [s EXCEPT !.reading = FALSE]
                   ELSE IF OverBudget(s, n) THEN [WorkersFail(s, throws) EXCEPT !.reading = FALSE]
                   ELSE ReadLoop([s EXCEPT !.transferred = @ + n, !.late = @ \/ s.closing])
                   EXCEPT !.frames = @ + 1 ]

ReadClose(throws) ==
    LET s == socket IN
    /\ s.reading /\ ~s.ended
    /\ socket' = IF ReadGuard(s) THEN [s EXCEPT !.reading = FALSE]
                 ELSE ReadLoop(WorkersClose([s EXCEPT !.ended = TRUE], throws))

ReadNull(throws) ==
    LET s == socket IN
    /\ s.reading
    /\ socket' = [ IF ReadGuard(s) THEN s ELSE WorkersClose(s, throws) EXCEPT !.reading = FALSE ]

\* read() rejects, or its frame is invalid.
ReadRejects(throws) ==
    /\ socket.reading
    /\ socket' = [ WorkersFail(socket, throws) EXCEPT !.reading = FALSE ]

\* session.closed settles; cleanup.
SessionCloses(rejected, throws) ==
    LET s == IF rejected THEN WorkersClose(socket, throws) ELSE socket IN
    /\ socket.session = "open"
    /\ socket' = [s EXCEPT !.session = "over", !.active = FALSE, !.queue = <<>>, !.listening = FALSE]

\* The scope closes and aborts the native operation unless it has settled.
ScopeCloses(scope, throws) ==
    LET s == [socket EXCEPT !.scope = scope] IN
    /\ socket.scope = "open"
    /\ socket' = IF s.finished THEN s ELSE WorkersClose(s, throws)

\* createResponse throws: fail and cleanup before any event.
ResponseFails(throws) ==
    /\ socket.frames = 0 /\ socket.scope = "open" /\ socket.wire = "open" /\ socket.session = "open"
    /\ socket.active /\ socket.reading /\ ~socket.closing
    /\ socket' = [WorkersFail(socket, throws) EXCEPT !.queue = <<>>, !.listening = FALSE]

WorkersNext ==
    \E throws \in BOOLEAN :
        \/ \E n \in 0 .. MaxMessageBytes + 1 : Message(n, throws) \/ ReadData(n, throws)
        \/ \E code \in {1000, 1006} : Closed(code, throws)
        \/ Failed(throws)
        \/ SendResolves \/ SendRejects(throws)
        \/ ReadClose(throws) \/ ReadNull(throws) \/ ReadRejects(throws)
        \/ \E rejected \in BOOLEAN : SessionCloses(rejected, throws)
        \/ \E scope \in {"closed", "invalidated"} : ScopeCloses(scope, throws)
        \/ ResponseFails(throws)

SendSettles == SendResolves \/ \E throws \in BOOLEAN : SendRejects(throws)

WorkersSpec == WorkersInit /\ [][WorkersNext]_socket /\ WF_socket(SendSettles)

(***************************************************************************)
(* Properties.                                                              *)
(***************************************************************************)
RECURSIVE FrameBytes(_)
FrameBytes(frames) == IF frames = <<>> THEN 0 ELSE Head(frames).size + FrameBytes(Tail(frames))

\* The inbound queue and the frame in flight never exceed the two limits, and the
\* byte count is exactly what they hold, so that the limit neither leaks nor
\* drifts (enqueue, drain; the bytes come back only after the send).
QueueIsAccounted ==
    socket.active =>
        /\ Len(socket.queue) + Len(socket.flight) <= MaxQueuedMessages
        /\ socket.queuedBytes = FrameBytes(socket.queue \o socket.flight)
        /\ socket.queuedBytes <= MaxQueuedBytes
        /\ socket.sending <=> socket.flight # <<>>

\* The socket is closed at most once, and nothing is sent on it after that,
\* though failures, the Endpoint's end and the scope race to close it.
ClosedOnceAndSilent == socket.closes <= 1 /\ ~socket.late

\* A transport that has given up has told the session exactly once, or the
\* session had ended by itself (fail, cleanup).
InactiveMeansToldOrOver ==
    /\ socket.cancels <= 1
    /\ ~socket.active => socket.cancels = 1 \/ socket.session = "over"

\* When the socket has ended and the native operation that the scope waits for
\* has not settled, then only because clean-up took the listeners away first:
\* the session was over, or there was no response (closed, failed, cleanup).
NativeSettlesWithSocket ==
    socket.wire = "closed" /\ ~socket.finished =>
        ~socket.listening /\ (socket.session = "over" \/ socket.cancels = 1)

\* The peer's close reaches the session behind the frames queued before it,
\* unless the session is cancelled, over, or its event closed.
PeerCloseReachesSession ==
    socket.peerClosed ~> \/ socket.closeSent \/ socket.cancels = 1
                         \/ socket.session = "over" \/ socket.scope # "open"

\* However a socket ends, by whichever of its racing callbacks, its session, its
\* peer and the native operation behind it all learn of it, once (websocket.mjs:
\* fail, closed, cleanup, sendOutgoing).
SocketEndsAreTold == ClosedOnceAndSilent /\ InactiveMeansToldOrOver /\ NativeSettlesWithSocket
=============================================================================
