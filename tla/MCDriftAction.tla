--------------------------- MODULE MCDriftAction ---------------------------
(***************************************************************************)
(* Instances of DriftAction for TLC.                                       *)
(***************************************************************************)
EXTENDS DriftAction, TLC

CONSTANTS core

feeBps == 1
paused == 2

Declare(spec, expect) ==
    << [kind |-> "contract", addr |-> core, spec |-> spec, expect |-> expect] >>

Undeclared == [a \in {} |-> 0]

(* One attribute managed and one expected; one that cannot be encoded on   *)
(* the day it drifts; one whose second resource is refused.                *)
Both    == Declare(feeBps :> 1, paused :> 0)
TooWide == Declare(feeBps :> 2, Undeclared)
Refused == Declare(paused :> 1, Undeclared) \o
           << [kind |-> "other", addr |-> core, spec |-> Undeclared, expect |-> Undeclared] >>

UseOf(cfg, json, failOnDrift) == [cfg |-> cfg, json |-> json, failOnDrift |-> failOnDrift]

AllJobs ==
    {<< UseOf(Both, TRUE, TRUE) >>,
     << UseOf(Both, TRUE, FALSE), UseOf(TooWide, FALSE, TRUE) >>,
     << UseOf(Both, FALSE, TRUE), UseOf(TooWide, FALSE, TRUE) >>,
     << UseOf(Both, TRUE, FALSE), UseOf(Both, TRUE, TRUE) >>,
     << UseOf(Refused, TRUE, TRUE) >>}

Deployed == {[s \in Slot |-> 0]}
=============================================================================
