----------------------------- MODULE MCMetering -----------------------------
(* Small instances of Metering for TLC.  Liveness is checked, so no symmetry. *)
EXTENDS Metering

\* A connection fee, a minimum that the first unit does not reach, and parking.
SmallTariff == [perKwh |-> 1, connection |-> 1, minimum |-> 3, parking |-> 1]

\* Energy alone.
EnergyTariff == [perKwh |-> 1, connection |-> 0, minimum |-> 0, parking |-> 0]
============================================================================
