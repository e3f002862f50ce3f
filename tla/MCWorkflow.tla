----------------------------- MODULE MCWorkflow -----------------------------
(***************************************************************************)
(* Instances of Workflow for TLC.                                          *)
(***************************************************************************)
EXTENDS Workflow, TLC

CONSTANTS core, alice, bob

feeBps == 1
paused == 2

Declare(spec) ==
    << [kind |-> "contract", addr |-> core, spec |-> spec, expect |-> [a \in {} |-> 0]] >>

(* Three versions of the file: two that disagree, one that says less. *)
Running  == Declare(feeBps :> 1 @@ paused :> 0)
Stopped  == Declare(feeBps :> 0 @@ paused :> 1)
OnlyStop == Declare(paused :> 1)

Versions == {Running, Stopped, OnlyStop}

AnyState == ChainState

Deployed == {[s \in Slot |-> 0]}

OtherChain == [s \in Slot |-> 1]

Users == Permutations(User)
=============================================================================
