------------------------- MODULE MCWebSocketSession -------------------------
(***************************************************************************)
(* The two WebSocket transports for TLC: which one the App has is chosen    *)
(* initially, and the other keeps its initial state.                        *)
(***************************************************************************)
EXTENDS WebSocketSession, WorkersSocket

VARIABLE which

SocketsInit == which \in {"native", "workers"} /\ Init /\ WorkersInit

SocketsNext ==
  /\ UNCHANGED which
  /\ \/ which = "native" /\ Next /\ UNCHANGED socket
     \/ which = "workers" /\ WorkersNext /\ UNCHANGED vars

SocketsSpec ==
  /\ SocketsInit /\ [][SocketsNext]_<<vars, socket, which>>
  /\ WF_vars(which = "native" /\ UpgradeFails)
  /\ WF_vars(which = "native" /\ Interrupted)
  /\ WF_vars(which = "native" /\ ErrorClosed)
  /\ WF_socket(which = "workers" /\ SendSettles)

\* The native pump ends (websocket_native.rs, run).
NativePumpEnds == which = "native" => PumpEnds
=============================================================================
