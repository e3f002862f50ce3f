---------------------------- MODULE MCReconcile ----------------------------
(***************************************************************************)
(* Instances of Reconcile for TLC.                                         *)
(***************************************************************************)
EXTENDS Reconcile, TLC

CONSTANTS core, vault

(* Attributes in name order: feeBps, owner (no setter), paused. *)
feeBps == 1
owner == 2
paused == 3

Declare(kind, addr, spec, expect) ==
    [kind |-> kind, addr |-> addr, spec |-> spec, expect |-> expect]

None == [a \in {} |-> 0]

TwoContracts ==
    << Declare("contract", core, feeBps :> 1 @@ paused :> 0, owner :> 1),
       Declare("contract", vault, paused :> 1, None) >>

ProtocolAndContract ==
    << Declare("protocol", core, feeBps :> 1 @@ paused :> 1, None),
       Declare("contract", vault, feeBps :> 0, owner :> 0) >>

(* The last resource cannot be encoded, or is refused. *)
Unencodable ==
    << Declare("contract", core, feeBps :> 0, None),
       Declare("contract", vault, feeBps :> 2, None) >>

ManagedAndExpected ==
    << Declare("contract", core, feeBps :> 0, None),
       Declare("contract", vault, feeBps :> 1, feeBps :> 1) >>

ProtocolExpects ==
    << Declare("protocol", vault, feeBps :> 1, owner :> 1) >>

(* Validate accepts any type name; the registry may not know it. *)
UnknownType ==
    << Declare("contract", core, feeBps :> 0, None),
       Declare("other", vault, paused :> 1, None) >>

ReadOnly ==
    << Declare("contract", core, None, feeBps :> 1 @@ owner :> 0) >>

AllConfigs ==
    {TwoContracts, ProtocolAndContract, Unencodable, ManagedAndExpected,
     ProtocolExpects, UnknownType, ReadOnly}

(* The vault's owner starts at 0, the core's at 0 or 1: one owner is enough. *)
SomeGenesis == {c \in ChainState : c[<<vault, owner>>] = 0 /\ c[<<core, owner>>] < 2}

(* A smaller family, for runs with more writes or with temporal properties. *)
TwoSlots ==
    << Declare("contract", core, feeBps :> 1, owner :> 1),
       Declare("protocol", vault, paused :> 1, None) >>

FewConfigs == {TwoSlots, Unencodable, ProtocolExpects}

FewGenesis ==
    {c \in ChainState : /\ c[<<vault, owner>>] = 0 /\ c[<<core, paused>>] = 0
                        /\ c[<<vault, feeBps>>] = 0 /\ c[<<core, feeBps>>] < 2
                        /\ c[<<core, owner>>] < 2}

FewestGenesis == {c \in FewGenesis : c[<<vault, paused>>] = 0}

(* Accepted configurations the claims of the documentation fail for.       *)
OnlyTwoSlots == {TwoSlots}

LargeFee == {<< Declare("protocol", core, feeBps :> 0, None) >>}

SameAddressTwice ==
    {<< Declare("protocol", core, paused :> 1, None),
        Declare("contract", core, paused :> 1, None) >>}
=============================================================================
