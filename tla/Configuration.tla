--------------------------- MODULE Configuration ---------------------------
(***************************************************************************)
(* What a configuration declares, what the chain holds, and which          *)
(* operation corrects a drifted attribute.  The vocabulary shared by the   *)
(* reconciliation pass (Reconcile), its promise (DriftReport) and the      *)
(* execution of the batch it prints (Batch).                               *)
(*                                                                         *)
(* An attribute is the rank of its name in sort.Strings order, so the      *)
(* order of the code's loops is the order of the naturals.  A value is a   *)
(* natural; a boolean is 0 or 1.                                           *)
(***************************************************************************)
EXTENDS Integers, Sequences

CONSTANTS
    Addr,           \* contract addresses: hex addresses, as factories want them
    Attr,           \* attribute names, as ranks in sort.Strings order
    MaxRaw,         \* the largest value a slot can hold (a scaled 2^256 - 1)
    Word,           \* the scaled 2^64: what big.Int.Uint64 truncates to
    MaxArg,         \* the largest value setterArg accepts for the ABI type
    Getters,        \* attributes with a getter in the ABI
    Settable,       \* attributes with a derived getter and setter in the ABI
    Toggle,         \* attributes set by a pause/unpause pair: always boolean
    ProtocolAttrs   \* the attributes of the hand-written "protocol" type

ASSUME AttrAssumption ==
    /\ Attr \subseteq Nat \ {0}
    /\ Toggle \subseteq Attr
    /\ Settable \subseteq Getters /\ Getters \subseteq Attr
    /\ ProtocolAttrs \subseteq Attr

ASSUME WidthAssumption ==
    /\ MaxRaw \in Nat \ {0}
    /\ Word \in Nat \ {0, 1}
    /\ MaxArg \in Nat

Raw == 0..MaxRaw

(* A slot is one attribute of one contract. *)
Slot == Addr \X Attr

ValuesOf(a) == IF a \in Toggle THEN {0, 1} ELSE Raw

ChainState == {c \in [Slot -> Raw] : \A s \in Slot : c[s] \in ValuesOf(s[2])}

Partial(S, T) == UNION {[D -> T] : D \in SUBSET S}

(* A resource block: its type, address, spec map and expect map. *)
ResourceConfig ==
    [kind   : {"contract", "protocol", "other"},
     addr   : Addr,
     spec   : Partial(Attr, Raw),
     expect : Partial(Attr, Raw)]

(* The values of a map have their attribute's type. *)
WellTyped(f) == \A a \in DOMAIN f : f[a] \in ValuesOf(a)

(* newContract: every managed attribute has a getter and a setter in the   *)
(* ABI, every expected one a getter, and none is both.  (The ABI file may  *)
(* still fail to load; an address that is none is met in Commands.)        *)
ContractBuilds(r) ==
    /\ WellTyped(r.spec)
    /\ WellTyped(r.expect)
    /\ DOMAIN r.spec \subseteq Settable
    /\ DOMAIN r.expect \subseteq Getters
    /\ DOMAIN r.spec \cap DOMAIN r.expect = {}

(* newProtocol: only feeBps, a uint64, and paused; no expect block. *)
ProtocolBuilds(r) ==
    /\ WellTyped(r.spec)
    /\ DOMAIN r.expect = {}
    /\ DOMAIN r.spec \subseteq ProtocolAttrs
    /\ \A a \in DOMAIN r.spec : r.spec[a] < Word

(* The type is registered and its factory accepts the declaration. *)
Builds(r) ==
    \/ r.kind = "protocol" /\ ProtocolBuilds(r)
    \/ r.kind = "contract" /\ ContractBuilds(r)

(* What Refresh stores for a value read from the chain: the protocol type  *)
(* keeps n.Uint64(), the contract type the canonical value itself.         *)
Decode(r, v) == IF r.kind = "protocol" THEN v % Word ELSE v

(* setterArg and chain.Pack accept the desired value of attribute a. *)
Encodable(r, a) == r.kind = "protocol" \/ a \in Toggle \/ r.spec[a] <= MaxArg

NoArg == 0

(* A call to be executed, and the report of an expectation. *)
Operation ==
    [res : Nat, attr : Attr, to : Addr, method : {"set", "on", "off"}, arg : Raw]

Assertion == [res : Nat, attr : Attr, expected : Raw, actual : Nat]

(* Mutant: the method that led to the current value. *)
MethodForCurrent(a, want) ==
    IF a \notin Toggle THEN "set" ELSE IF want = 0 THEN "on" ELSE "off"

(* A toggle takes no argument: On when true is wanted, Off if not. *)
MethodFor(a, want) ==
    IF a \notin Toggle THEN "set" ELSE IF want = 1 THEN "on" ELSE "off"

OpFor(c, i, a) ==
    LET want == c[i].spec[a]
    IN  [res    |-> i,
         attr   |-> a,
         to     |-> c[i].addr,
         method |-> MethodFor(a, want),
         arg    |-> IF a \in Toggle THEN NoArg ELSE want]

AssertionFor(c, i, a, actual) ==
    [res |-> i, attr |-> a, expected |-> c[i].expect[a], actual |-> actual]

Satisfied(x) == x.actual = x.expected

(* Mutant: failed expectations do not count. *)
HasOperations(ops, asserts) == ops # << >>

HasDrift(ops, asserts) ==
    ops # << >> \/ \E k \in 1..Len(asserts) : ~Satisfied(asserts[k])

-----------------------------------------------------------------------------
(* Declarations of a configuration c as pairs <<resource, attribute>>. *)
Managed(c)  == {p \in (1..Len(c)) \X Attr : p[2] \in DOMAIN c[p[1]].spec}
Expected(c) == {p \in (1..Len(c)) \X Attr : p[2] \in DOMAIN c[p[1]].expect}
Declared(c) == Managed(c) \cup Expected(c)

SlotOf(c, p) == <<c[p[1]].addr, p[2]>>

(* The value of declaration p as Refresh sees it in chain state s. *)
Observed(c, p, s) == Decode(c[p[1]], s[SlotOf(c, p)])

Matches(c, p, v) ==
    /\ p \in Managed(c)  => v = c[p[1]].spec[p[2]]
    /\ p \in Expected(c) => v = c[p[1]].expect[p[2]]

(* The order of the plan: resources as configured, attributes by name. *)
Precedes(x, y) == x.res < y.res \/ (x.res = y.res /\ x.attr < y.attr)

Elements(q) == {q[k] : k \in 1..Len(q)}

Ordered(q) == \A j, k \in 1..Len(q) : j < k => Precedes(q[j], q[k])
=============================================================================
