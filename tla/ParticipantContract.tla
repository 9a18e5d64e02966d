------------------------- MODULE ParticipantContract ------------------------
(* What the scheduler relies on when it calls one CoSimulationParticipant     *)
(* (the trait in src/cosim.rs and docs/co-simulation.md, "Participant         *)
(* contract"): a run starts at time zero, time only moves in a successful     *)
(* advance_to and only forward, a write happens at the current time, and      *)
(* after an error nothing but a new initialize is asked of the participant.   *)
EXTENDS Naturals

VARIABLES status,  \* "none", "ready" or "failed"
          time     \* what current_time() answers

contractVars == <<status, time>>

ContractInit == status = "none" /\ time = 0

Initialized == status' = "ready" /\ time' = 0

Advanced == /\ status = "ready" /\ status' = "ready"
            /\ time' \in Nat /\ time' > time

Wrote == status = "ready" /\ UNCHANGED contractVars

\* A failed call says nothing about the time the participant is left at.
Failed == status' = "failed" /\ time' \in Nat

ContractNext == Initialized \/ Advanced \/ Wrote \/ Failed

ContractSpec == ContractInit /\ [][ContractNext]_contractVars
=============================================================================
