---------------------------- MODULE LaunchContract ----------------------------
(***************************************************************************)
(* What the launch coordinator promises its observer (the event grammar of *)
(* wine_launch.cpp and WineEngineService.handleNativeState): phases only   *)
(* go forward, exactly one terminal event ends a launch, and success is    *)
(* only announced from the last phase.  The application may die at any     *)
(* time, which takes the launch with it.                                   *)
(***************************************************************************)
EXTENDS Naturals

VARIABLES
  phase,    \* the last phase announced: 0 before the first, LastPhase is "ready"
  outcome   \* "none" while no terminal event has been sent

FirstPhase == 1
LastPhase == 5

ContractInit == phase = 0 /\ outcome = "none"

Begin == /\ phase = 0 \/ outcome # "none"
         /\ phase' = FirstPhase /\ outcome' = "none"

Advance == /\ outcome = "none" /\ phase \in FirstPhase .. LastPhase - 1
           /\ phase' \in phase + 1 .. LastPhase - 1
           /\ UNCHANGED outcome

Succeed == /\ outcome = "none" /\ phase \in FirstPhase .. LastPhase - 1
           /\ phase' = LastPhase /\ outcome' = "ready"

Fail == /\ outcome = "none" /\ phase \in FirstPhase .. LastPhase - 1
        /\ outcome' = "failed"
        /\ UNCHANGED phase

Lost == phase' = 0 /\ outcome' = "none"

ContractNext == Begin \/ Advance \/ Succeed \/ Fail \/ Lost

ContractSafety == ContractInit /\ [][ContractNext]_<<phase, outcome>>

\* A launch that has begun and is not lost reaches its terminal event.
ContractSpec ==
  /\ ContractSafety
  /\ WF_<<phase, outcome>>(Advance \/ Succeed \/ Fail)
=============================================================================
