-------------------------- MODULE MCCircuitBreaker --------------------------
\* Three concurrent calls against a breaker with two half-open slots: a call
\* from before the trip and two probes can be in flight together.
EXTENDS CircuitBreaker
=============================================================================
