--------------------------- MODULE AbiDerivation ---------------------------
(***************************************************************************)
(* How attributes are derived from a contract's ABI.                       *)
(*                                                                         *)
(* The ABI file is read one function after the other into a map from names *)
(* to functions; go-ethereum gives the second function of one name a name  *)
(* of its own (fee, fee0, fee1).  From that map the code derives what can  *)
(* be read (Getters), what can be set (Setters), which of them pair up as  *)
(* attributes (Attributes) and which attributes have a toggle              *)
(* (BoolTogglePairs).  It then calls the contract by those names.          *)
(*                                                                         *)
(* When the contract is upgraded its ABI is generated anew, and the file   *)
(* may list old and new functions in any order.                            *)
(***************************************************************************)
EXTENDS Naturals, Sequences, FiniteSets

CONSTANTS
    Functions,      \* the functions a contract may have
    MaxEntries,     \* bound: the number of functions in the file
    MaxUpgraded     \* bound: that number, in a version that is upgraded

(* A name: how often it starts with "set", its stem, whether the stem is   *)
(* capitalised, and which of its namesakes it is: 0 as written, k + 1 with *)
(* the digit k appended.  "setFee" is [sets |-> 1, stem |-> "fee",         *)
(* capital |-> TRUE, copy |-> 0].                                          *)
Name == [sets : Nat, stem : STRING, capital : BOOLEAN, copy : Nat]

Plain(stem) == [sets |-> 0, stem |-> stem, capital |-> FALSE, copy |-> 0]

(* An ABI type: an elementary type or a struct, or an array of them. *)
Type == [base : STRING, array : BOOLEAN]

Function ==
    [name : Name, view : BOOLEAN, inputs : Seq(Type), outputs : Seq(Type)]

(* Functions are called as they were written, with no digit. *)
ASSUME FunctionsAssumption ==
    /\ Functions \subseteq Function
    /\ \A f \in Functions : f.name.copy = 0
    /\ MaxEntries \in Nat /\ MaxUpgraded \in Nat

VARIABLES
    contract,       \* the functions read so far, as the contract has them
    methods,        \* the map the parser makes of them: name to function
    old             \* that map for the version before the upgrade

vars == <<contract, methods, old>>

NoMethods == [n \in {} |-> 0]

Init == contract = {} /\ methods = NoMethods /\ old = NoMethods

(* The first name of that form the map does not have: fee, fee0, fee1. *)
Resolved(n) ==
    LET taken == {m.copy : m \in {k \in DOMAIN methods : [k EXCEPT !.copy = 0] = n}}
        free  == 0..Cardinality(taken) \ taken
    IN  [n EXCEPT !.copy = CHOOSE k \in free : \A j \in free : k <= j]

(* Mutant: a second function of one name replaces the first. *)
ReadReplacing(f) ==
    /\ Cardinality(contract) < MaxEntries
    /\ \A g \in contract : g.name # f.name \/ g.inputs # f.inputs
    /\ contract' = contract \cup {f}
    /\ methods' = [m \in DOMAIN methods \cup {f.name} |->
                       IF m = f.name THEN f ELSE methods[m]]
    /\ UNCHANGED old

(* The next function of the file.  No two have one signature. *)
Read(f) ==
    /\ Cardinality(contract) < MaxEntries
    /\ \A g \in contract : g.name # f.name \/ g.inputs # f.inputs
    /\ contract' = contract \cup {f}
    /\ LET n == Resolved(f.name)
       IN  methods' = [m \in DOMAIN methods \cup {n} |->
                           IF m = n THEN f ELSE methods[m]]
    /\ UNCHANGED old

-----------------------------------------------------------------------------
(* The derivation, from a map of methods. *)

Elementary == {"bool", "string", "address", "int", "uint", "bytes", "bytesN"}

(* The type can be encoded and decoded: no struct, at any depth. *)
SupportedType(t) == t.base \in Elementary

(* What can be read: views without arguments that return one value. *)
Getters(m) ==
    {n \in DOMAIN m :
        /\ m[n].view
        /\ m[n].inputs = << >>
        /\ Len(m[n].outputs) = 1
        /\ SupportedType(m[n].outputs[1])}

(* What can be set: functions of one argument that are not views. *)
Setters(m) ==
    {n \in DOMAIN m :
        /\ ~m[n].view
        /\ Len(m[n].inputs) = 1
        /\ SupportedType(m[n].inputs[1])}

(* Mutant: the first letter is kept. *)
SetterNameAsWritten(n) == [n EXCEPT !.sets = n.sets + 1]

(* "set", then the name with its first letter in upper case. *)
SetterName(n) == [n EXCEPT !.sets = n.sets + 1, !.capital = TRUE]

(* Mutant: any setter of that name will do. *)
AttributesOfAnyType(m) == {n \in Getters(m) : SetterName(n) \in Setters(m)}

(* Mutant: two getters that share a setter (fee and Fee) are no attributes. *)
AttributesUnshared(m) ==
    {n \in Getters(m) :
        /\ SetterName(n) \in Setters(m)
        /\ m[SetterName(n)].inputs[1] = m[n].outputs[1]
        /\ \A k \in Getters(m) : SetterName(k) = SetterName(n) => k = n}

(* A getter and a setter by that name, of one type. *)
Attributes(m) ==
    {n \in Getters(m) :
        /\ SetterName(n) \in Setters(m)
        /\ m[SetterName(n)].inputs[1] = m[n].outputs[1]}

On == Plain("pause")
Off == Plain("unpause")
Paused == Plain("paused")

HasZeroArgMutator(m, n) ==
    n \in DOMAIN m /\ ~m[n].view /\ m[n].inputs = << >>

(* The attributes with a toggle, whatever their type. *)
BoolToggles(m) ==
    {n \in {Paused} : HasZeroArgMutator(m, On) /\ HasZeroArgMutator(m, Off)}

(* The calls that Plan may emit for attribute n: names and argument types. *)
(* (For a toggle whose getter is not a bool it emits none and fails.)      *)
CallsFor(m, n) ==
    IF n \in BoolToggles(m) THEN {<<On, << >> >>, <<Off, << >> >>}
                            ELSE {<<SetterName(n), m[n].outputs>>}

-----------------------------------------------------------------------------
(* A later version of the contract: its file is read from the start.  (One *)
(* with no attributes has none to lose: such upgrades are left out.)       *)
Upgrade ==
    /\ Cardinality(contract) <= MaxUpgraded
    /\ Attributes(methods) # {}
    /\ old' = methods
    /\ contract' = {}
    /\ methods' = NoMethods

Next == Upgrade \/ \E f \in Functions : Read(f)

Spec == Init /\ [][Next]_vars

-----------------------------------------------------------------------------
(* Properties. *)

(* The contract has the function a call by that name and types selects. *)
Answers(n, inputs, view) ==
    \E f \in contract : f.name = n /\ f.inputs = inputs /\ f.view = view

(* The map keeps the function under another name than the contract's. *)
Renamed(n) == methods[n].name # n

(* The variables have their types, and the map holds the whole file. *)
TypeOK ==
    /\ contract \subseteq Functions
    /\ Cardinality(contract) <= MaxEntries
    /\ DOMAIN methods \subseteq Name
    /\ {methods[n] : n \in DOMAIN methods} = contract
    /\ \A n \in DOMAIN old : old[n] \in Functions

(* What an ABI without overloaded names offers, by the convention: X() and *)
(* setX(T), both as the contract has them, with one supported type T       *)
(* (attributes.go, getters.go, setters.go).                                *)
Conventional ==
    {g.name : g \in {f \in contract :
        /\ f.view /\ f.inputs = << >> /\ Len(f.outputs) = 1
        /\ SupportedType(f.outputs[1])
        /\ \E s \in contract :
               /\ ~s.view /\ s.inputs = f.outputs
               /\ s.name = [sets |-> f.name.sets + 1, stem |-> f.name.stem,
                            capital |-> TRUE, copy |-> 0]}}

Overloaded == \E f, g \in contract : f # g /\ f.name = g.name

(* The chain of maps and sorted lists in the code derives the conventional *)
(* pairs and nothing else, in whatever order the file lists the functions. *)
DerivesTheConvention == ~Overloaded => Attributes(methods) = Conventional

(* Every call planned for an attribute whose getter and setter kept their  *)
(* own names selects a function of the contract that may change state, and *)
(* its getter a view: the names the derivation hands on are selectors      *)
(* (contract.go Refresh and Plan).                                         *)
PlannedCallsAnswer ==
    \A n \in Attributes(methods) :
        ~Renamed(n) /\ ~Renamed(SetterName(n)) =>
            /\ Answers(n, << >>, TRUE)
            /\ \A c \in CallsFor(methods, n) : Answers(c[1], c[2], FALSE)

(* One function of the contract has that name, and no other. *)
Sole(n) ==
    \E f \in contract : f.name = n /\ \A g \in contract : g.name = n => g = f

(* An upgrade that keeps the functions there were keeps each attribute,    *)
(* and what it reads and sets, unless the new version overloads the        *)
(* getter's or the setter's name - whatever order its file has, and        *)
(* whatever other names are overloaded, before or after.  (One that is may *)
(* go or change its type: EveryGetterAnswers.)  (loader.go, attributes.go) *)
AttributesSurvive ==
    (\A n \in DOMAIN old : old[n] \in contract) =>
        \A n \in Attributes(old) : Sole(n) /\ Sole(SetterName(n)) =>
            /\ n \in Attributes(methods)
            /\ methods[n] = old[n]
            /\ methods[SetterName(n)] = old[SetterName(n)]

(* "Getter describes a single zero-argument view/pure function that        *)
(* returns exactly one value - i.e. a readable on-chain attribute.": the   *)
(* getter's name selects a view of the contract (getters.go).              *)
EveryGetterAnswers == \A n \in Getters(methods) : Answers(n, << >>, TRUE)
=============================================================================
