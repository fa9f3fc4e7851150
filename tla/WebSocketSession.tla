-------------------------- MODULE WebSocketSession --------------------------
(***************************************************************************)
(* One WebSocket on the native ingress: the pump that owns the upgraded    *)
(* socket (websocket_native.rs) around the frame rules of the session it   *)
(* shares with the event transport (websocket.rs).  The incoming pump      *)
(* carries the client's frames to the Endpoint, the outgoing pump the      *)
(* Endpoint's to the client; both run on one task, so a step is what       *)
(* happens between two awaits.  Ping and Pong change nothing.              *)
(***************************************************************************)
EXTENDS Integers

CONSTANTS MessageLimit,   \* bytes of one message
          SessionLimit,   \* bytes of both directions together
          MaxFrames       \* bound: frames of one direction

ASSUME WebSocketAssumption == MessageLimit \in Nat /\ SessionLimit \in Nat /\ MaxFrames \in Nat

VARIABLES
  pump,           \* "upgrading", "exchanging", "closing" (error Close), "over"
  outcome,        \* of the exchange
  incoming,       \* the incoming pump
  outgoing,       \* the outgoing pump
  peerClosed,     \* the client's Close was read
  cancelled, terminal, sentClose, receivedClose, transferred,   \* the session
  passed          \* what the session let through each way (history)

pumps == <<incoming, outgoing, peerClosed>>
session == <<cancelled, terminal, sentClose, receivedClose, transferred>>
vars == <<pump, outcome, pumps, session, passed>>

\* A frame is what the rules tell apart: data of some size, a Close with a
\* code and reason that may go on the wire, a Close with others, or any other
\* frame that is not valid.  The socket itself drops a client that sends more
\* than a message may hold.
ClientFrames == [kind : {"data"}, size : 0 .. MessageLimit]
                  \cup [kind : {"close", "badClose"}, size : {0}]
EndpointFrames == [kind : {"data"}, size : 0 .. MessageLimit + 1]
                    \cup [kind : {"close", "badClose", "invalid"}, size : {0}]

Directions == {"toEndpoint", "toClient"}
Exchanging == pump = "exchanging"

Init ==
  /\ pump = "upgrading"
  /\ outcome = "none"
  /\ incoming = "reading"
  /\ outgoing = "receiving"
  /\ peerClosed = FALSE
  /\ cancelled = FALSE /\ terminal = FALSE
  /\ sentClose = FALSE /\ receivedClose = FALSE
  /\ transferred = 0
  /\ passed = [d \in Directions |-> [frames |-> 0, bytes |-> 0]]
-----------------------------------------------------------------------------
(* The session.                                                            *)

\* validate_frame, and what is left of the byte budget.
ValidateData(f) ==
  f.kind \in {"data", "close"} /\ f.size <= MessageLimit /\ f.size <= SessionLimit - transferred

\* Mutant of Pass: only what the client sends is counted.
PassOneWay(d, f) ==
  /\ transferred' = IF d = "toEndpoint" THEN transferred + f.size ELSE transferred
  /\ passed' = [passed EXCEPT ![d] = [frames |-> @.frames + 1, bytes |-> @.bytes + f.size]]

\* The session takes f over in direction d.
Pass(d, f) ==
  /\ transferred' = transferred + f.size
  /\ passed' = [passed EXCEPT ![d] = [frames |-> @.frames + 1, bytes |-> @.bytes + f.size]]

\* The guard of send; that no other send is pending is in the incoming pump.
SendOpen == ~cancelled /\ ~terminal /\ ~sentClose

\* Mutant of MayReceive: frames after the Endpoint's Close are let through.
MayReceiveLate(f) == ValidateData(f)

\* What receive asks of a message it has got.
MayReceive(f) == ~receivedClose /\ ValidateData(f)
-----------------------------------------------------------------------------
(* How the pump ends.                                                      *)

\* One pump fails: try_join drops the other one, and the client is told.  Some
\* failures cancel the session at once, the others leave that to FinishPump.
Fail(cancels) ==
  /\ outcome' = "err"
  /\ pump' = "closing"
  /\ cancelled' = (cancelled \/ cancels)
  /\ UNCHANGED <<incoming, outgoing, terminal, sentClose, receivedClose, transferred, passed>>

\* run returns; the session is cancelled on every way out.
FinishPump ==
  /\ pump' = "over"
  /\ cancelled' = TRUE
  /\ UNCHANGED <<pumps, terminal, sentClose, receivedClose, transferred, passed>>
-----------------------------------------------------------------------------
Upgraded ==
  /\ pump = "upgrading"
  /\ pump' = "exchanging"
  /\ UNCHANGED <<outcome, pumps, session, passed>>

\* The client vanishes, the grace ends or the App is cancelled before.
UpgradeFails ==
  /\ pump = "upgrading"
  /\ FinishPump
  /\ UNCHANGED outcome

\* receiver.next() yields a frame and session.send is polled once.
PeerSends(f) ==
  /\ Exchanging
  /\ incoming = "reading"
  /\ passed["toEndpoint"].frames < MaxFrames
  /\ peerClosed' = (f.kind \in {"close", "badClose"})
  /\ IF SendOpen /\ ValidateData(f)
     THEN /\ Pass("toEndpoint", f)
          /\ sentClose' = (f.kind = "close")
          /\ incoming' = "sending"
          /\ UNCHANGED <<pump, outcome, outgoing, cancelled, terminal, receivedClose>>
     ELSE Fail(SendOpen)

\* The Endpoint has room for the frame; a Close was the last one to carry.
SendAccepted ==
  /\ Exchanging
  /\ incoming = "sending"
  /\ incoming' = IF sentClose THEN "done" ELSE "reading"
  /\ UNCHANGED <<pump, outcome, outgoing, peerClosed, session, passed>>

SendFails ==
  /\ Exchanging
  /\ incoming = "sending"
  /\ Fail(TRUE)
  /\ UNCHANGED peerClosed

\* Mutant of PeerVanishes: the end of the socket counts as a Close.
PeerVanishesCleanly ==
  /\ Exchanging
  /\ incoming = "reading"
  /\ incoming' = "done"
  /\ UNCHANGED <<pump, outcome, outgoing, peerClosed, session, passed>>

\* The socket fails, or ends without a Close of the client.
PeerVanishes ==
  /\ Exchanging
  /\ incoming = "reading"
  /\ Fail(FALSE)
  /\ UNCHANGED peerClosed

\* session.receive gets a message; data and a first Close are written, a Close
\* that answers the client's is only flushed.
EndpointSends(f) ==
  /\ Exchanging
  /\ outgoing = "receiving"
  /\ passed["toClient"].frames < MaxFrames
  /\ IF MayReceive(f)
     THEN /\ Pass("toClient", f)
          /\ receivedClose' = (receivedClose \/ f.kind = "close")
          /\ outgoing' = IF f.kind = "close" /\ peerClosed THEN "flushing" ELSE "writing"
          /\ UNCHANGED <<pump, outcome, incoming, cancelled, terminal, sentClose>>
     ELSE Fail(TRUE)
  /\ UNCHANGED peerClosed

\* The frame is on its way, or the socket is closed already.
WriteDone ==
  /\ Exchanging
  /\ outgoing \in {"writing", "flushing"}
  /\ outgoing' = "receiving"
  /\ UNCHANGED <<pump, outcome, incoming, peerClosed, session, passed>>

\* The socket fails, or refuses data after a Close of either side.
WriteFails ==
  /\ Exchanging
  /\ outgoing \in {"writing", "flushing", "shutting"}
  /\ Fail(FALSE)
  /\ UNCHANGED peerClosed

\* The Endpoint ends its session with success; sender.close() is polled.
EndpointEnds ==
  /\ Exchanging
  /\ outgoing = "receiving"
  /\ terminal' = TRUE
  /\ outgoing' = "shutting"
  /\ UNCHANGED <<pump, outcome, incoming, peerClosed, cancelled, sentClose, receivedClose,
                 transferred, passed>>

EndpointFails ==
  /\ Exchanging
  /\ outgoing = "receiving"
  /\ Fail(TRUE)
  /\ UNCHANGED peerClosed

SocketClosed ==
  /\ Exchanging
  /\ outgoing = "shutting"
  /\ outgoing' = "done"
  /\ UNCHANGED <<pump, outcome, incoming, peerClosed, session, passed>>

\* Both pumps are through: no error Close.
ExchangeDone ==
  /\ Exchanging
  /\ incoming = "done" /\ outgoing = "done"
  /\ outcome' = "ok"
  /\ FinishPump

\* Mutant of Interrupted: the lifetime runs only while the pumps wait for frames.
InterruptedIdle ==
  /\ Exchanging
  /\ incoming = "reading" /\ outgoing = "receiving"
  /\ Fail(FALSE)
  /\ UNCHANGED peerClosed

\* The lifetime of the session ends, or the App is cancelled.
Interrupted ==
  /\ Exchanging
  /\ Fail(FALSE)
  /\ UNCHANGED peerClosed

\* The error Close is sent, or its grace ends.
ErrorClosed ==
  /\ pump = "closing"
  /\ FinishPump
  /\ UNCHANGED outcome

Timers == UpgradeFails \/ Interrupted \/ ErrorClosed

Next ==
  \/ Upgraded \/ Timers
  \/ \E f \in ClientFrames : PeerSends(f)
  \/ \E f \in EndpointFrames : EndpointSends(f)
  \/ SendAccepted \/ SendFails \/ PeerVanishes
  \/ WriteDone \/ WriteFails \/ EndpointEnds \/ EndpointFails \/ SocketClosed
  \/ ExchangeDone

Spec == Init /\ [][Next]_vars

\* Nothing is expected of client, socket and Endpoint: only the three timers of
\* run are fair.
FairSpec == Spec /\ WF_vars(UpgradeFails) /\ WF_vars(Interrupted) /\ WF_vars(ErrorClosed)
-----------------------------------------------------------------------------
TypeOK ==
  /\ pump \in {"upgrading", "exchanging", "closing", "over"}
  /\ outcome \in {"none", "ok", "err"}
  /\ incoming \in {"reading", "sending", "done"}
  /\ outgoing \in {"receiving", "writing", "flushing", "shutting", "done"}
  /\ peerClosed \in BOOLEAN
  /\ cancelled \in BOOLEAN /\ terminal \in BOOLEAN
  /\ sentClose \in BOOLEAN /\ receivedClose \in BOOLEAN
  /\ transferred \in 0 .. SessionLimit
  /\ passed \in [Directions -> [frames : Nat, bytes : Nat]]

\* The two directions of a session share one byte budget: whatever order their
\* frames come in, the session lets no more than session_limit through.
BudgetShared ==
  passed["toEndpoint"].bytes + passed["toClient"].bytes <= SessionLimit

\* A Close frame ends application data in its direction: once the session has
\* let one through, it lets nothing through that way any more.
CloseEndsData ==
  [][/\ sentClose => UNCHANGED passed["toEndpoint"]
     /\ receivedClose => UNCHANGED passed["toClient"]]_vars

\* The exchange succeeds only when the client's Close reached the Endpoint and
\* the Endpoint then ended with success: a lost socket, a half close or a
\* cancellation is never a success.
SuccessIsMutual ==
  outcome = "ok" => sentClose /\ peerClosed /\ terminal

\* run returns although the client reads and sends nothing, the Endpoint takes
\* nothing and the socket never becomes writable.
PumpEnds == <>(pump = "over")
=============================================================================
