---------------------------- MODULE MCNullMessage ----------------------------
(* Two ranks, joined by two channels, for TLC.                             *)
EXTENDS NullMessage, TLC
CONSTANTS r1, r2, a, b, c, d

\* Channel 1 is a one way and b the other, channel 2 is c and d.
SmallFrom == a :> r1 @@ b :> r2 @@ c :> r1 @@ d :> r2
SmallTo == a :> r2 @@ b :> r1 @@ c :> r2 @@ d :> r1
SmallDelay == a :> 3 @@ b :> 3 @@ c :> 2 @@ d :> 2
SmallTxTime == a :> 2 @@ b :> 2 @@ c :> 1 @@ d :> 1
=============================================================================
