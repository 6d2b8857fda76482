--------------------------- MODULE MCOcppSessions ---------------------------
(* Small instances of OcppSessions for TLC. *)
EXTENDS OcppSessions, TLC

\* Sessions and connectors are interchangeable: no definition names one of them.
Symmetry == Permutations(Sessions) \union Permutations(Connectors)
============================================================================
