---------------------------- MODULE MCEventDesk ----------------------------
(* EventDesk for TLC: two normal plans and an emergency plan. *)
EXTENDS EventDesk

CONSTANTS fire, flood, leak

MCNormalPlans == {flood, leak}
MCEmergencyPlans == {fire}
=============================================================================
