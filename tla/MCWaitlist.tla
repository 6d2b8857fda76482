------------------------------ MODULE MCWaitlist ------------------------------
(* Small instances of Waitlist for TLC.  Liveness is checked, so no symmetry. *)
EXTENDS Waitlist

\* Both connectors are of the same type.
SameType == [c \in Connectors |-> "CCS2"]

\* A connector; the station, with a connector named or not; a type.
SomeWishes ==
  {[scope |-> "CONNECTOR", connector |-> c, type |-> None] : c \in Connectors}
  \union {[scope |-> "STATION", connector |-> c, type |-> None] : c \in Connectors \union {None}}
  \union {[scope |-> "CONNECTOR_TYPE", connector |-> None, type |-> "CCS2"]}
=============================================================================
