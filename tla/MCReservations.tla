--------------------------- MODULE MCReservations ---------------------------
(* Small instances of Reservations for TLC. *)
EXTENDS Reservations, TLC

\* Reservations and sessions are interchangeable.
Symmetry == Permutations(Reservations) \union Permutations(Sessions)
============================================================================
