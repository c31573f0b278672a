--------------------------- MODULE MCFlowMonitor ---------------------------
(***************************************************************************)
(* FlowMonitor on a small instance, in a network that may keep a packet    *)
(* longer than MaxPerHopDelay before it drops it.                          *)
(***************************************************************************)
EXTENDS FlowMonitor

\* flow-monitor.h:95-100: lostPackets is the "Total number of packets that
\* are assumed to be lost", so each packet counts once at most.
LostOnce == \A k \in Keys : losses[k] <= 1

=============================================================================
