----------------------- MODULE WebSocketSession_proofs -----------------------
(***************************************************************************)
(* Proofs about WebSocketSession, for every message limit, session limit   *)
(* and number of frames.                                                   *)
(***************************************************************************)
EXTENDS WebSocketSession, TLAPS

\* What `transferred` counts: the bytes of both directions, no more and no less.
CountsBothWays == transferred = passed["toEndpoint"].bytes + passed["toClient"].bytes

\* Where each pump stands tells what its end has said.
PumpsTell ==
  /\ sentClose => peerClosed
  /\ incoming = "done" => sentClose
  /\ incoming = "reading" => ~sentClose
  /\ outgoing \in {"shutting", "done"} => terminal
  /\ outcome = "ok" => incoming = "done" /\ outgoing = "done"

\* The inductive invariant.
IInv == TypeOK /\ CountsBothWays /\ PumpsTell

\* A new session has let nothing through.
LEMMA InitIInv == Init => IInv
<1> SUFFICES ASSUME Init PROVE IInv
  OBVIOUS
<1>1. TypeOK
  <2>1. transferred \in 0 .. SessionLimit
    BY WebSocketAssumption DEF Init
  <2>2. passed \in [Directions -> [frames : Nat, bytes : Nat]]
    BY DEF Init
  <2> QED BY <2>1, <2>2 DEF Init, TypeOK
<1>2. CountsBothWays
  BY DEF Init, CountsBothWays, Directions
<1>3. PumpsTell
  BY DEF Init, PumpsTell
<1> QED BY <1>1, <1>2, <1>3 DEF IInv

\* What the session lets through stays within the budget and is counted.
LEMMA PassCounts ==
  ASSUME TypeOK, CountsBothWays,
         NEW d \in Directions, NEW f, f.size \in Nat,
         ValidateData(f), Pass(d, f)
  PROVE  /\ transferred' \in 0 .. SessionLimit
         /\ passed' \in [Directions -> [frames : Nat, bytes : Nat]]
         /\ CountsBothWays'
<1>1. transferred' \in 0 .. SessionLimit
  BY WebSocketAssumption DEF TypeOK, ValidateData, Pass
<1>2. passed' \in [Directions -> [frames : Nat, bytes : Nat]]
  <2>1. passed[d] \in [frames : Nat, bytes : Nat]
    BY DEF TypeOK
  <2>2. [frames |-> passed[d].frames + 1, bytes |-> passed[d].bytes + f.size]
          \in [frames : Nat, bytes : Nat]
    BY <2>1
  <2> QED BY <2>2 DEF TypeOK, Pass
<1>3. CountsBothWays'
  <2>1. CASE d = "toEndpoint"
    BY <2>1 DEF TypeOK, Pass, CountsBothWays, Directions
  <2>2. CASE d = "toClient"
    BY <2>2 DEF TypeOK, Pass, CountsBothWays, Directions
  <2> QED BY <2>1, <2>2 DEF Directions
<1> QED BY <1>1, <1>2, <1>3

\* A failing pump leaves what was let through alone.
LEMMA FailKeeps ==
  ASSUME IInv, NEW c \in BOOLEAN, Fail(c), peerClosed' \in BOOLEAN,
         sentClose => peerClosed'
  PROVE  IInv'
BY DEF IInv, TypeOK, CountsBothWays, PumpsTell, Fail

\* Every step preserves the inductive invariant.
LEMMA NextIInv == IInv /\ [Next]_vars => IInv'
<1> SUFFICES ASSUME IInv, [Next]_vars PROVE IInv'
  OBVIOUS
<1> USE DEF IInv
<1>1. CASE Upgraded
  BY <1>1 DEF Upgraded, TypeOK, CountsBothWays, PumpsTell, pumps, session
<1>2. CASE UpgradeFails
  BY <1>2 DEF UpgradeFails, FinishPump, TypeOK, CountsBothWays, PumpsTell, pumps
<1>3. CASE Interrupted
  BY <1>3, FailKeeps DEF Interrupted, TypeOK, PumpsTell
<1>4. CASE ErrorClosed
  BY <1>4 DEF ErrorClosed, FinishPump, TypeOK, CountsBothWays, PumpsTell, pumps
<1>5. ASSUME NEW f \in ClientFrames, PeerSends(f) PROVE IInv'
  <2>1. CASE SendOpen /\ ValidateData(f)
    <3>1. Pass("toEndpoint", f) /\ f.size \in Nat
      BY <1>5, <2>1, WebSocketAssumption DEF PeerSends, ClientFrames
    <3>2. /\ transferred' \in 0 .. SessionLimit
          /\ passed' \in [Directions -> [frames : Nat, bytes : Nat]]
          /\ CountsBothWays'
      BY <2>1, <3>1, PassCounts DEF Directions
    <3>3. TypeOK'
      BY <1>5, <2>1, <3>2 DEF PeerSends, TypeOK
    <3>4. PumpsTell'
      BY <1>5, <2>1 DEF PeerSends, PumpsTell, Exchanging
    <3> QED BY <3>2, <3>3, <3>4
  <2>2. CASE ~(SendOpen /\ ValidateData(f))
    <3>1. Fail(SendOpen) /\ peerClosed' \in BOOLEAN /\ (sentClose => peerClosed')
      BY <1>5, <2>2 DEF PeerSends, PumpsTell
    <3> QED BY <3>1, FailKeeps DEF SendOpen, TypeOK
  <2> QED BY <2>1, <2>2
<1>6. ASSUME NEW f \in EndpointFrames, EndpointSends(f) PROVE IInv'
  <2>1. CASE MayReceive(f)
    <3>1. Pass("toClient", f) /\ f.size \in Nat /\ ValidateData(f)
      BY <1>6, <2>1, WebSocketAssumption DEF EndpointSends, EndpointFrames, MayReceive
    <3>2. /\ transferred' \in 0 .. SessionLimit
          /\ passed' \in [Directions -> [frames : Nat, bytes : Nat]]
          /\ CountsBothWays'
      BY <3>1, PassCounts DEF Directions
    <3>3. TypeOK'
      BY <1>6, <2>1, <3>2 DEF EndpointSends, TypeOK
    <3>4. PumpsTell'
      BY <1>6, <2>1 DEF EndpointSends, PumpsTell, Exchanging
    <3> QED BY <3>2, <3>3, <3>4
  <2>2. CASE ~MayReceive(f)
    BY <1>6, <2>2, FailKeeps DEF EndpointSends, TypeOK, PumpsTell
  <2> QED BY <2>1, <2>2
<1>7. CASE SendAccepted
  BY <1>7 DEF SendAccepted, TypeOK, CountsBothWays, PumpsTell, session
<1>8. CASE SendFails
  BY <1>8, FailKeeps DEF SendFails, TypeOK, PumpsTell
<1>9. CASE PeerVanishes
  BY <1>9, FailKeeps DEF PeerVanishes, TypeOK, PumpsTell
<1>10. CASE WriteDone
  BY <1>10 DEF WriteDone, TypeOK, CountsBothWays, PumpsTell, session
<1>11. CASE WriteFails
  BY <1>11, FailKeeps DEF WriteFails, TypeOK, PumpsTell
<1>12. CASE EndpointEnds
  BY <1>12 DEF EndpointEnds, Exchanging, TypeOK, CountsBothWays, PumpsTell
<1>13. CASE EndpointFails
  BY <1>13, FailKeeps DEF EndpointFails, TypeOK, PumpsTell
<1>14. CASE SocketClosed
  BY <1>14 DEF SocketClosed, TypeOK, CountsBothWays, PumpsTell, session
<1>15. CASE ExchangeDone
  BY <1>15 DEF ExchangeDone, FinishPump, TypeOK, CountsBothWays, PumpsTell, pumps
<1>16. CASE UNCHANGED vars
  BY <1>16 DEF vars, pumps, session, TypeOK, CountsBothWays, PumpsTell
<1> QED
  BY <1>1, <1>2, <1>3, <1>4, <1>5, <1>6, <1>7, <1>8, <1>9, <1>10, <1>11, <1>12, <1>13,
     <1>14, <1>15, <1>16 DEF Next, Timers

\* The inductive invariant holds of every reachable state.
THEOREM SessionInvariant == Spec => []IInv
BY InitIInv, NextIInv, PTL DEF Spec

\* Type correctness, the byte count within session_limit included.
THEOREM TypeCorrect == Spec => []TypeOK
BY SessionInvariant, PTL DEF IInv

\* The two directions of a session never carry more than session_limit together,
\* because validate_data counts each frame in the step that lets it through.
THEOREM BudgetIsShared == Spec => []BudgetShared
<1>1. IInv => BudgetShared
  BY WebSocketAssumption DEF IInv, TypeOK, CountsBothWays, BudgetShared
<1> QED BY <1>1, SessionInvariant, PTL

\* run reports no error only after the client's Close went to the Endpoint and the
\* Endpoint ended with success.
THEOREM SuccessNeedsBothEnds == Spec => []SuccessIsMutual
<1>1. IInv => SuccessIsMutual
  BY DEF IInv, PumpsTell, SuccessIsMutual
<1> QED BY <1>1, SessionInvariant, PTL

\* Nothing follows a Close in its direction: send refuses after sent_close, and
\* receive cancels the session on a message after received_close.
THEOREM NothingAfterClose == Spec => CloseEndsData
<1> DEFINE Silent == /\ sentClose => UNCHANGED passed["toEndpoint"]
                     /\ receivedClose => UNCHANGED passed["toClient"]
<1>1. IInv /\ [Next]_vars => [Silent]_vars
  <2> SUFFICES ASSUME IInv, Next PROVE Silent
    BY DEF vars
  <2>1. ASSUME NEW f \in ClientFrames, PeerSends(f) PROVE Silent
    <3>1. ~sentClose
      BY <2>1 DEF PeerSends, IInv, PumpsTell
    <3>2. UNCHANGED passed["toClient"]
      BY <2>1 DEF PeerSends, Pass, Fail, IInv, TypeOK, Directions
    <3> QED BY <3>1, <3>2
  <2>2. ASSUME NEW f \in EndpointFrames, EndpointSends(f) PROVE Silent
    <3>1. UNCHANGED passed["toEndpoint"]
      BY <2>2 DEF EndpointSends, Pass, Fail, IInv, TypeOK, Directions
    <3>2. receivedClose => UNCHANGED passed["toClient"]
      BY <2>2 DEF EndpointSends, MayReceive, Fail
    <3> QED BY <3>1, <3>2
  <2>3. CASE \/ Upgraded \/ Timers \/ SendAccepted \/ SendFails \/ PeerVanishes
             \/ WriteDone \/ WriteFails \/ EndpointEnds \/ EndpointFails
             \/ SocketClosed \/ ExchangeDone
    BY <2>3 DEF Upgraded, Timers, UpgradeFails, Interrupted, ErrorClosed, SendAccepted, SendFails,
         PeerVanishes, WriteDone, WriteFails, EndpointEnds, EndpointFails, SocketClosed,
         ExchangeDone, Fail, FinishPump
  <2> QED BY <2>1, <2>2, <2>3 DEF Next
<1> QED BY <1>1, SessionInvariant, PTL DEF Spec, CloseEndsData
=============================================================================
