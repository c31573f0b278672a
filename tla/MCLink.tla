------------------------------- MODULE MCLink -------------------------------
(* A small instance of PointToPoint for TLC.                               *)
EXTENDS PointToPoint

SmallQueueSizes == {[unit |-> "packets", value |-> 1],
                    [unit |-> "packets", value |-> 2],
                    [unit |-> "bytes", value |-> 2],
                    [unit |-> "bytes", value |-> 4]}
=============================================================================
