----------------------------- MODULE MCCommands -----------------------------
(***************************************************************************)
(* Instances of Commands for TLC.                                          *)
(***************************************************************************)
EXTENDS Commands, TLC

CONSTANTS core, vault

(* Attributes in name order: owner has no setter, treasury not even a      *)
(* getter.                                                                 *)
feeBps == 1
owner == 2
paused == 3
treasury == 4

Nothing == [a \in {} |-> 0]

Written(kind, name, addr, flat, spec, expect) ==
    [kind |-> kind, name |-> name, addr |-> addr, abi |-> TRUE,
     flat |-> flat, spec |-> spec, expect |-> expect]

InJSON(blocks) == [format |-> "json", chainId |-> 1, rpc |-> TRUE, blocks |-> blocks]
InHCL(blocks) == [InJSON(blocks) EXCEPT !.format = "hcl"]

Core(flat, spec, expect) == Written("contract", 1, core, flat, spec, expect)
Vault(flat, spec) == Written("protocol", 2, vault, flat, spec, Nothing)

(* Attributes spread over flat keys, "spec" and "expect". *)
Spread == InJSON(<< Core(feeBps :> 1, paused :> 0, owner :> 1),
                    Vault(feeBps :> 1, paused :> 1) >>)
Plain == InHCL(<< Core(feeBps :> 1 @@ paused :> 0, Nothing, owner :> 1),
                  Vault(paused :> 1, Nothing) >>)

(* One attribute given twice: one value fits, the other does not. *)
Twice == InJSON(<< Core(Nothing, Nothing, owner :> 0), Vault(feeBps :> 1, feeBps :> 2) >>)

(* What Validate refuses. *)
NoChain == [Plain EXCEPT !.chainId = 0]
NoResources == InJSON(<< >>)
NoAddress == InHCL(<< [Core(feeBps :> 1, Nothing, Nothing) EXCEPT !.addr = NoAddr] >>)
SameName == InHCL(<< Core(feeBps :> 1, Nothing, Nothing),
                     Written("protocol", 1, vault, paused :> 1, Nothing, Nothing) >>)

(* What validate does not look at: the endpoint, a value no setter takes,  *)
(* and both together.                                                      *)
NoEndpoint == [Plain EXCEPT !.rpc = FALSE]
TooWide == InHCL(<< Core(feeBps :> 2, Nothing, Nothing), Vault(Nothing, Nothing) >>)
NoEndpointTooWide == [TooWide EXCEPT !.rpc = FALSE]

(* What the decoder refuses, and what a factory refuses. *)
Struct == InJSON(<< Core(feeBps :> 1, paused :> Object, owner :> 0) >>)
BothWays == InJSON(<< Core(feeBps :> 1, Nothing, Nothing),
                      Written("contract", 2, vault, feeBps :> 0, Nothing, feeBps :> 0) >>)
NoAbi == InHCL(<< Vault(paused :> 1, Nothing),
                  [Core(feeBps :> 1, Nothing, Nothing) EXCEPT !.abi = FALSE] >>)
NoGetter == InHCL(<< Core(feeBps :> 1, Nothing, treasury :> 0) >>)
NoHex == InJSON(<< [Core(feeBps :> 1, Nothing, Nothing) EXCEPT !.addr = BadAddr] >>)
Unknown == InHCL(<< Written("other", 1, core, Nothing, Nothing, Nothing) >>)

AllDocuments ==
    {Spread, Plain, Twice, NoChain, NoResources, NoAddress, SameName,
     Struct, BothWays, NoAbi, NoGetter, NoHex, Unknown,
     TooWide, NoEndpoint, NoEndpointTooWide}
=============================================================================
