------------------------- MODULE MCChargerCommands -------------------------
EXTENDS ChargerCommands, TLC

CONSTANTS k1, k2, c1, c2

MCAsk == c1 :> "Inoperative" @@ c2 :> "stop"
=============================================================================
