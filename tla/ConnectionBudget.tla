-------------------------- MODULE ConnectionBudget --------------------------
(***************************************************************************)
(* What a Web Ingress listener promises, whichever way it is built: it     *)
(* admits nothing before its gate opens, never keeps more than             *)
(* MaxConnections connections at a time, and every admitted connection     *)
(* is closed once and never comes back.                                    *)
(***************************************************************************)
EXTENDS Naturals, FiniteSets

CONSTANTS Conns,           \* the client connections
          MaxConnections   \* the configured live-connection budget

VARIABLES gate,   \* the listener may admit connections
          live,   \* admitted connections, each of which holds one permit
          gone    \* connections that were refused or are finished

vars == <<gate, live, gone>>

Init ==
  /\ gate = FALSE
  /\ live = {}
  /\ gone = {}

OpenGate ==
  /\ ~gate
  /\ gate' = TRUE
  /\ UNCHANGED <<live, gone>>

Admit(c) ==
  /\ gate
  /\ c \notin live \cup gone
  /\ Cardinality(live) < MaxConnections
  /\ live' = live \cup {c}
  /\ UNCHANGED <<gate, gone>>

Refuse(c) ==
  /\ gate
  /\ c \notin live \cup gone
  /\ gone' = gone \cup {c}
  /\ UNCHANGED <<gate, live>>

Close(c) ==
  /\ c \in live
  /\ live' = live \ {c}
  /\ gone' = gone \cup {c}
  /\ UNCHANGED gate

Next ==
  \/ OpenGate
  \/ \E c \in Conns : Admit(c) \/ Refuse(c) \/ Close(c)

Spec == Init /\ [][Next]_vars
=============================================================================
