------------------------- MODULE MCGrantedTimeWindow -------------------------
(* Three ranks in a row, for TLC.                                          *)
EXTENDS GrantedTimeWindow, TLC
CONSTANTS r1, r2, r3, a, b, c, d

\* One link from r1 to r2 and back, a longer one from r2 to r3 and back.
RowFrom == a :> r1 @@ b :> r2 @@ c :> r2 @@ d :> r3
RowTo == a :> r2 @@ b :> r1 @@ c :> r3 @@ d :> r2
RowDelay == a :> 1 @@ b :> 1 @@ c :> 3 @@ d :> 3
RowTxTime == a :> 1 @@ b :> 1 @@ c :> 1 @@ d :> 1
=============================================================================
