---------------------- MODULE MCRealtimeSimulatorImpl ----------------------
(***************************************************************************)
(* RealtimeSimulatorImpl on small instances, and what an assertion of the  *)
(* code says of it that a second Run does not keep.                        *)
(***************************************************************************)
EXTENDS RealtimeSimulatorImpl, TLC

\* Events are interchangeable in every safety property.
Interchangeable == Permutations(Events)

\* realtime-simulator-impl.cc:552-553 asserts, whichever Run it is, that no
\* event is "schedule[d] for time < m_currentTs".
NeverInPastAgain == \A ev \in m_events : ev.ts >= m_currentTs

=============================================================================
