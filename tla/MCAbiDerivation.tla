-------------------------- MODULE MCAbiDerivation --------------------------
(***************************************************************************)
(* Instances of AbiDerivation for TLC.                                     *)
(***************************************************************************)
EXTENDS AbiDerivation

T(base) == [base |-> base, array |-> FALSE]
Setter(stem) == [Plain(stem) EXCEPT !.sets = 1, !.capital = TRUE]

ViewOf(n, inputs, outputs) ==
    [name |-> n, view |-> TRUE, inputs |-> inputs, outputs |-> outputs]
Mutator(n, inputs) ==
    [name |-> n, view |-> FALSE, inputs |-> inputs, outputs |-> << >>]

(* A fee, its capitalised namesake, a mapping of that name, and setters of *)
(* two types and of two arguments.                                         *)
FeeFunctions ==
    {ViewOf(Plain("fee"), << >>, <<T("uint")>>),
     ViewOf(Plain("fee"), <<T("address")>>, <<T("uint")>>),
     ViewOf([Plain("fee") EXCEPT !.capital = TRUE], << >>, <<T("uint")>>),
     Mutator(Setter("fee"), <<T("uint")>>),
     Mutator(Setter("fee"), <<T("bool")>>),
     Mutator(Setter("fee"), <<T("uint"), T("address")>>)}

(* A pausable contract, with and without setPaused, and odd relatives. *)
PauseFunctions ==
    {ViewOf(Paused, << >>, <<T("bool")>>),
     ViewOf(Paused, << >>, <<T("uint")>>),
     ViewOf(Paused, << >>, <<[base |-> "bool", array |-> TRUE]>>),
     Mutator(Setter("paused"), <<T("bool")>>),
     Mutator(Setter("paused"), <<T("uint")>>),
     Mutator(On, << >>),
     Mutator(On, <<T("uint")>>),
     Mutator(Off, << >>)}

(* Structs are not supported. *)
StructFunctions ==
    {ViewOf(Plain("config"), << >>, <<T("tuple")>>),
     Mutator(Setter("config"), <<T("tuple")>>)}

AllFunctions == FeeFunctions \cup PauseFunctions \cup StructFunctions
=============================================================================
