---------------------------- MODULE BatchLemmas ----------------------------
(***************************************************************************)
(* Lemmas about configurations, operations and what executing a batch of   *)
(* them does, for the theorems about Reconcile and Workflow.  The main one *)
(* is BatchCorrects: executed on the chain it is due on, a plan goes       *)
(* through and leaves every managed slot as desired.                       *)
(***************************************************************************)
EXTENDS Batch, TLAPS

(* A map of the configuration: some attributes, each with a value. *)
LEMMA PartialFcn ==
    ASSUME NEW S, NEW T, NEW f \in Partial(S, T)
    PROVE  DOMAIN f \subseteq S /\ \A x \in DOMAIN f : f[x] \in T
BY DEF Partial

(* Decoding keeps a value natural. *)
LEMMA DecodeNat ==
    ASSUME NEW r \in ResourceConfig, NEW v \in Raw
    PROVE  Decode(r, v) \in Nat
BY WidthAssumption DEF Decode, Raw

(* The types of the parts of a configuration. *)
LEMMA ResourceFacts ==
    ASSUME NEW c \in Seq(ResourceConfig)
    PROVE  /\ Len(c) \in Nat
           /\ \A r \in 1..Len(c) :
                  /\ c[r] \in ResourceConfig
                  /\ c[r].addr \in Addr
                  /\ DOMAIN c[r].spec \subseteq Attr
                  /\ DOMAIN c[r].expect \subseteq Attr
                  /\ \A a \in DOMAIN c[r].spec : c[r].spec[a] \in Raw
                  /\ \A a \in DOMAIN c[r].expect : c[r].expect[a] \in Raw
<1>1. Len(c) \in Nat
  OBVIOUS
<1>2. ASSUME NEW r \in 1..Len(c)
      PROVE  /\ c[r] \in ResourceConfig
             /\ c[r].addr \in Addr
             /\ c[r].spec \in Partial(Attr, Raw)
             /\ c[r].expect \in Partial(Attr, Raw)
  <2>1. c[r] \in ResourceConfig
    BY <1>1
  <2> QED
    BY <2>1 DEF ResourceConfig
<1> QED
  BY <1>1, <1>2, PartialFcn

-----------------------------------------------------------------------------
(* What Append does. *)
LEMMA AppendFacts ==
    ASSUME NEW S, NEW q \in Seq(S), NEW e \in S
    PROVE  /\ Append(q, e) \in Seq(S)
           /\ Len(Append(q, e)) = Len(q) + 1
           /\ Append(q, e) # << >>
           /\ \A k \in 1..Len(q) : Append(q, e)[k] = q[k]
           /\ Append(q, e)[Len(q) + 1] = e
OBVIOUS

(* Appending adds one element. *)
LEMMA ElementsAppend ==
    ASSUME NEW S, NEW q \in Seq(S), NEW e \in S
    PROVE  Elements(Append(q, e)) = Elements(q) \cup {e}
<1>1. /\ Len(Append(q, e)) = Len(q) + 1
      /\ \A k \in 1..Len(q) : Append(q, e)[k] = q[k]
      /\ Append(q, e)[Len(q) + 1] = e
      /\ Len(q) \in Nat
  BY AppendFacts
<1>2. 1..(Len(q) + 1) = 1..Len(q) \cup {Len(q) + 1}
  BY <1>1
<1> QED
  BY <1>1, <1>2 DEF Elements

(* An ordered list extended by a later element is ordered. *)
LEMMA OrderedAppend ==
    ASSUME NEW S, NEW q \in Seq(S), NEW e \in S, Ordered(q),
           \A k \in 1..Len(q) : Precedes(q[k], e)
    PROVE  Ordered(Append(q, e))
<1>1. /\ Len(Append(q, e)) = Len(q) + 1
      /\ \A k \in 1..Len(q) : Append(q, e)[k] = q[k]
      /\ Append(q, e)[Len(q) + 1] = e
      /\ Len(q) \in Nat
  BY AppendFacts
<1> DEFINE r == Append(q, e)
<1> HIDE DEF r
<1>2. ASSUME NEW j \in 1..Len(r), NEW k \in 1..Len(r), j < k
      PROVE  Precedes(r[j], r[k])
  <2>1. j \in 1..Len(q)
    BY <1>1, <1>2 DEF r
  <2>2. CASE k \in 1..Len(q)
    BY <1>1, <1>2, <2>1, <2>2 DEF Ordered, r
  <2>3. CASE k = Len(q) + 1
    BY <1>1, <2>1, <2>3 DEF r
  <2> QED
    BY <1>1, <1>2, <2>2, <2>3 DEF r
<1> QED
  BY <1>2 DEF Ordered, r

-----------------------------------------------------------------------------
(* A write to one slot makes a chain state of a chain state. *)
LEMMA WriteKeepsChain ==
    ASSUME NEW c \in ChainState, NEW s \in Slot, NEW v \in ValuesOf(s[2])
    PROVE  [c EXCEPT ![s] = v] \in ChainState
<1>1. v \in Raw
  BY WidthAssumption DEF ValuesOf, Raw
<1>2. [c EXCEPT ![s] = v] \in [Slot -> Raw]
  BY <1>1 DEF ChainState
<1> QED
  BY <1>2 DEF ChainState

(* A declaration is a pair of a resource and an attribute it names. *)
LEMMA DeclaredPair ==
    ASSUME NEW c, NEW p \in Declared(c)
    PROVE  /\ p[1] \in 1..Len(c)
           /\ p[2] \in Attr
           /\ p = <<p[1], p[2]>>
           /\ p \in Managed(c) <=> p[2] \in DOMAIN c[p[1]].spec
           /\ p \in Expected(c) <=> p[2] \in DOMAIN c[p[1]].expect
BY DEF Declared, Managed, Expected

(* A factory that builds a resource keeps what is managed and what is      *)
(* expected apart.                                                         *)
LEMMA BuiltApart ==
    ASSUME NEW r, Builds(r)
    PROVE  DOMAIN r.spec \cap DOMAIN r.expect = {}
BY DEF Builds, ContractBuilds, ProtocolBuilds

(* The operation for a managed attribute is an operation. *)
LEMMA OpForType ==
    ASSUME NEW c \in Seq(ResourceConfig), NEW r \in 1..Len(c), NEW a \in DOMAIN c[r].spec
    PROVE  OpFor(c, r, a) \in Operation
<1>1. /\ a \in Attr
      /\ c[r].spec[a] \in Raw
      /\ c[r].addr \in Addr
      /\ NoArg \in Raw
  BY ResourceFacts, WidthAssumption DEF NoArg, Raw
<1> QED
  BY <1>1 DEF OpFor, MethodFor, Operation

-----------------------------------------------------------------------------
(* A value below 2^64 survives Uint64(). *)
LEMMA SmallMod ==
    ASSUME NEW v \in Nat, v < Word
    PROVE  v % Word = v
BY WidthAssumption

(* Executed on its own, an operation leaves what Refresh reads as desired, *)
(* and a toggle chosen for a drifted value finds something to toggle.      *)
LEMMA OperationCorrects ==
    ASSUME NEW c \in Seq(ResourceConfig), NEW p \in Managed(c), Builds(c[p[1]])
    PROVE  /\ OpSlot(OpFor(c, p[1], p[2])) = SlotOf(c, p)
           /\ Decode(c[p[1]], Result(OpFor(c, p[1], p[2]))) = c[p[1]].spec[p[2]]
           /\ \A v \in ValuesOf(p[2]) :
                  /\ OpFor(c, p[1], p[2]).method # "set"
                  /\ Decode(c[p[1]], v) # c[p[1]].spec[p[2]]
                  => v # Result(OpFor(c, p[1], p[2]))
<1> DEFINE r == c[p[1]]
           a == p[2]
           want == r.spec[a]
           op == OpFor(c, p[1], a)
<1>1. /\ p[1] \in 1..Len(c)
      /\ a \in DOMAIN r.spec
      /\ want \in Raw
      /\ want \in ValuesOf(a)
      /\ r.kind = "protocol" => want < Word
  BY ResourceFacts, DeclaredPair
  DEF Managed, Builds, ContractBuilds, ProtocolBuilds, WellTyped
<1>2. want \in Nat /\ 0 < Word /\ 1 < Word
  BY <1>1, WidthAssumption DEF Raw
<1>3. Decode(r, want) = want
  BY <1>1, <1>2, SmallMod DEF Decode
<1>4. op.to = r.addr /\ op.attr = a
  BY DEF OpFor
<1>5. CASE a \notin Toggle
  <2>1. op.method = "set" /\ Result(op) = want
    BY <1>5 DEF OpFor, MethodFor, Result
  <2> QED
    BY <1>3, <1>4, <2>1 DEF OpSlot, SlotOf
<1>6. CASE a \in Toggle
  <2>1. want \in {0, 1} /\ ValuesOf(a) = {0, 1}
    BY <1>1, <1>6 DEF ValuesOf
  <2>2. op.method = IF want = 1 THEN "on" ELSE "off"
    BY <1>6 DEF OpFor, MethodFor
  <2>3. Result(op) = want
    BY <2>1, <2>2 DEF Result
  <2>4. \A v \in {0, 1} : Decode(r, v) = v
    BY <1>2, SmallMod DEF Decode
  <2> QED
    BY <1>3, <1>4, <2>1, <2>3, <2>4 DEF OpSlot, SlotOf
<1> QED
  BY <1>5, <1>6

(* An operation alone on its slot acts on the value the chain holds, and   *)
(* the slot ends with its result.                                          *)
LEMMA AloneOnSlot ==
    ASSUME NEW q, Len(q) \in Nat, NEW c, NEW k \in 1..Len(q),
           OnSlot(q, OpSlot(q[k])) = {k}
    PROVE  /\ ValueAfter(q, k - 1, c, OpSlot(q[k])) = c[OpSlot(q[k])]
           /\ ValueAfter(q, Len(q), c, OpSlot(q[k])) = Result(q[k])
<1>1. {j \in OnSlot(q, OpSlot(q[k])) : j <= k - 1} = {}
  OBVIOUS
<1>2. {j \in OnSlot(q, OpSlot(q[k])) : j <= Len(q)} = {k}
  OBVIOUS
<1>3. (CHOOSE i \in {k} : \A j \in {k} : j <= i) = k
  OBVIOUS
<1> QED
  BY <1>1, <1>2, <1>3 DEF ValueAfter

(* What it leaves is the declared value, which has the attribute's type.   *)
LEMMA OperationResult ==
    ASSUME NEW c \in Seq(ResourceConfig), NEW p \in Managed(c), Builds(c[p[1]])
    PROVE  /\ Result(OpFor(c, p[1], p[2])) = c[p[1]].spec[p[2]]
           /\ c[p[1]].spec[p[2]] \in ValuesOf(p[2])
<1> DEFINE a == p[2]
           want == c[p[1]].spec[a]
           op == OpFor(c, p[1], a)
<1>1. want \in ValuesOf(a)
  <2>1. p[1] \in 1..Len(c) /\ a \in DOMAIN c[p[1]].spec
    BY DeclaredPair DEF Managed, Declared
  <2> QED
    BY <2>1 DEF Builds, ContractBuilds, ProtocolBuilds, WellTyped
<1>2. op.method = MethodFor(a, want) /\ op.arg = IF a \in Toggle THEN NoArg ELSE want
  BY DEF OpFor
<1> HIDE DEF want, op
<1>3. Result(op) = want
  BY <1>1, <1>2 DEF MethodFor, Result, ValuesOf
<1> QED
  BY <1>1, <1>3 DEF want, op

-----------------------------------------------------------------------------
(* The operations for the declarations that satisfy due. *)
OpsFor(c, due) == {OpFor(c, p[1], p[2]) : p \in due}

(* A configuration that builds, without aliases, and a plan in order with  *)
(* operations for some of what it manages.                                 *)
PlanFor(c, due, ops) ==
    /\ c \in Seq(ResourceConfig)
    /\ \A i \in 1..Len(c) : Builds(c[i])
    /\ \A p, q \in Managed(c) : SlotOf(c, p) = SlotOf(c, q) => p = q
    /\ due \subseteq Managed(c)
    /\ ops \in Seq(Operation)
    /\ Ordered(ops)
    /\ Elements(ops) = OpsFor(c, due)

(* No two operations of such a plan meet on a slot.                        *)
LEMMA AloneInOrder ==
    ASSUME NEW c, NEW due, NEW ops, PlanFor(c, due, ops), NEW k \in 1..Len(ops)
    PROVE  /\ OnSlot(ops, OpSlot(ops[k])) = {k}
           /\ \E p \in due : ops[k] = OpFor(c, p[1], p[2]) /\ OpSlot(ops[k]) = SlotOf(c, p)
<1>1. ASSUME NEW j \in 1..Len(ops)
      PROVE  \E p \in due : ops[j] = OpFor(c, p[1], p[2]) /\ OpSlot(ops[j]) = SlotOf(c, p)
  <2>1. ops[j] \in Elements(ops)
    BY DEF Elements, PlanFor
  <2>2. PICK p \in due : ops[j] = OpFor(c, p[1], p[2])
    BY <2>1 DEF OpsFor, PlanFor
  <2>3. Builds(c[p[1]])
    BY DeclaredPair DEF Declared, PlanFor
  <2> QED
    BY <2>2, <2>3, OperationCorrects DEF PlanFor
<1>2. ASSUME NEW j \in 1..Len(ops), OpSlot(ops[j]) = OpSlot(ops[k])
      PROVE  j = k
  <2>1. PICK p \in due : ops[j] = OpFor(c, p[1], p[2]) /\ OpSlot(ops[j]) = SlotOf(c, p)
    BY <1>1
  <2>2. PICK q \in due : ops[k] = OpFor(c, q[1], q[2]) /\ OpSlot(ops[k]) = SlotOf(c, q)
    BY <1>1
  <2>3. ops[j] = ops[k]
    BY <1>2, <2>1, <2>2 DEF PlanFor
  <2>4. ops[k].res \in Nat /\ ops[k].attr \in Nat
    <3>1. ops[k] \in Operation
      BY DEF PlanFor
    <3> QED
      BY <3>1, AttrAssumption DEF Operation
  <2>5. ~Precedes(ops[j], ops[k]) /\ ~Precedes(ops[k], ops[j])
    BY <2>3, <2>4 DEF Precedes
  <2> QED
    BY <2>5 DEF Ordered, PlanFor
<1> QED
  BY <1>1, <1>2 DEF OnSlot

(* Executed on any chain, a plan changes a slot only to the value declared *)
(* for it, and leaves a chain state.                                       *)
LEMMA BatchSetsDeclared ==
    ASSUME NEW c, NEW ops, NEW s \in ChainState, NEW due, PlanFor(c, due, ops)
    PROVE  /\ After(ops, s) \in ChainState
           /\ \A t \in Slot : After(ops, s)[t] # s[t] =>
                  \E p \in due : SlotOf(c, p) = t /\ After(ops, s)[t] = c[p[1]].spec[p[2]]
<1>1. CASE ~Executes(ops, s)
  BY <1>1 DEF After
<1>2. CASE Executes(ops, s)
  <2>1. After(ops, s) = [t \in Slot |-> ValueAfter(ops, Len(ops), s, t)]
    BY <1>2 DEF After
  <2>2. ASSUME NEW t \in Slot, OnSlot(ops, t) = {}
        PROVE  After(ops, s)[t] = s[t]
    BY <2>1, <2>2 DEF ValueAfter
  <2>3. ASSUME NEW t \in Slot, OnSlot(ops, t) # {}
        PROVE  /\ After(ops, s)[t] \in ValuesOf(t[2])
               /\ \E p \in due : SlotOf(c, p) = t /\ After(ops, s)[t] = c[p[1]].spec[p[2]]
    <3>1. PICK k \in 1..Len(ops) : OpSlot(ops[k]) = t
      BY <2>3 DEF OnSlot
    <3>2. /\ OnSlot(ops, OpSlot(ops[k])) = {k}
          /\ \E p \in due : ops[k] = OpFor(c, p[1], p[2]) /\ OpSlot(ops[k]) = SlotOf(c, p)
      BY AloneInOrder
    <3>3. PICK p \in due : ops[k] = OpFor(c, p[1], p[2]) /\ OpSlot(ops[k]) = SlotOf(c, p)
      BY <3>2
    <3>4. ValueAfter(ops, Len(ops), s, OpSlot(ops[k])) = Result(ops[k])
      <4>1. Len(ops) \in Nat /\ OnSlot(ops, OpSlot(ops[k])) = {k}
        BY <3>2 DEF PlanFor
      <4> QED
        BY <4>1, AloneOnSlot
    <3>5. /\ Result(ops[k]) = c[p[1]].spec[p[2]]
          /\ c[p[1]].spec[p[2]] \in ValuesOf(p[2])
      <4>1. c \in Seq(ResourceConfig) /\ p \in Managed(c) /\ Builds(c[p[1]])
        BY DeclaredPair DEF PlanFor, Declared
      <4> QED
        BY <3>3, <4>1, OperationResult
    <3>6. t[2] = p[2]
      BY <3>1, <3>3 DEF SlotOf
    <3> QED
      BY <2>1, <3>1, <3>3, <3>4, <3>5, <3>6
  <2>4. ASSUME NEW t \in Slot
        PROVE  After(ops, s)[t] \in ValuesOf(t[2]) /\ After(ops, s)[t] \in Raw
    <3>1. After(ops, s)[t] \in ValuesOf(t[2])
      BY <2>2, <2>3 DEF ChainState
    <3> QED
      BY <3>1, WidthAssumption DEF ValuesOf, Raw
  <2>5. After(ops, s) \in [Slot -> Raw]
    BY <2>1, <2>4
  <2>6. After(ops, s) \in ChainState
    BY <2>4, <2>5 DEF ChainState
  <2> QED
    BY <2>2, <2>3, <2>6
<1> QED
  BY <1>1, <1>2

(* A batch in order, with one operation for each managed attribute that    *)
(* differs in chain state s and no other, executed on s: it goes through,  *)
(* leaves every managed slot as desired and touches no other.              *)
LEMMA BatchCorrects ==
    ASSUME NEW c, NEW ops, NEW s \in ChainState, NEW due, PlanFor(c, due, ops),
           \A p \in Managed(c) : p \in due <=> ~Matches(c, p, Observed(c, p, s))
    PROVE  /\ Executes(ops, s)
           /\ \A p \in Managed(c) : Matches(c, p, Observed(c, p, After(ops, s)))
           /\ \A t \in Slot \ {SlotOf(c, p) : p \in Managed(c)} : After(ops, s)[t] = s[t]
<1>0. PlanFor(c, due, ops) /\ due \subseteq Managed(c) /\ Len(ops) \in Nat
  BY DEF PlanFor
<1>c. /\ c \in Seq(ResourceConfig)
      /\ \A i \in 1..Len(c) : Builds(c[i])
      /\ \A p, q \in Managed(c) : SlotOf(c, p) = SlotOf(c, q) => p = q
      /\ Elements(ops) = OpsFor(c, due)
  BY DEF PlanFor
<1>1. ASSUME NEW p \in Managed(c)
      PROVE  /\ p[1] \in 1..Len(c)
             /\ Builds(c[p[1]])
             /\ p \notin Expected(c)
             /\ SlotOf(c, p) \in Slot
             /\ SlotOf(c, p)[2] = p[2]
             /\ s[SlotOf(c, p)] \in ValuesOf(p[2])
  <2>1. p \in Declared(c) /\ p[1] \in 1..Len(c) /\ p[2] \in Attr /\ Builds(c[p[1]])
    BY <1>c, DeclaredPair DEF Declared
  <2>2. p \notin Expected(c)
    BY <2>1, BuiltApart, DeclaredPair
  <2>3. SlotOf(c, p) \in Slot /\ SlotOf(c, p)[2] = p[2]
    BY <1>c, <2>1, ResourceFacts DEF SlotOf, Slot
  <2> QED
    BY <2>1, <2>2, <2>3 DEF ChainState
<1>2. ASSUME NEW k \in 1..Len(ops)
      PROVE  /\ OnSlot(ops, OpSlot(ops[k])) = {k}
             /\ \E p \in due : ops[k] = OpFor(c, p[1], p[2]) /\ OpSlot(ops[k]) = SlotOf(c, p)
  <2>1. PlanFor(c, due, ops)
    BY <1>0
  <2> QED
    BY <2>1, AloneInOrder
<1>v. ASSUME NEW k \in 1..Len(ops)
      PROVE  /\ ValueAfter(ops, k - 1, s, OpSlot(ops[k])) = s[OpSlot(ops[k])]
             /\ ValueAfter(ops, Len(ops), s, OpSlot(ops[k])) = Result(ops[k])
  <2>1. Len(ops) \in Nat /\ OnSlot(ops, OpSlot(ops[k])) = {k}
    BY <1>0, <1>2
  <2> QED
    BY <2>1, AloneOnSlot
<1>3. ASSUME NEW k \in 1..Len(ops)
      PROVE  ~Reverts(ops, k, s)
  <2>1. PICK p \in due : ops[k] = OpFor(c, p[1], p[2]) /\ OpSlot(ops[k]) = SlotOf(c, p)
    BY <1>2
  <2>2. ValueAfter(ops, k - 1, s, OpSlot(ops[k])) = s[SlotOf(c, p)]
    BY <1>v, <2>1
  <2>3. p \in Managed(c) /\ Decode(c[p[1]], s[SlotOf(c, p)]) # c[p[1]].spec[p[2]]
    BY <1>0, <1>1, <2>1 DEF Matches, Observed
  <2>4. ops[k].method # "set" => s[SlotOf(c, p)] # Result(ops[k])
    BY <1>c, <1>1, <2>1, <2>3, OperationCorrects
  <2> QED
    BY <2>2, <2>4 DEF Reverts
<1>4. Executes(ops, s)
  BY <1>3 DEF Executes
<1>5. \A t \in Slot : After(ops, s)[t] = ValueAfter(ops, Len(ops), s, t)
  BY <1>4 DEF After
(* A slot no operation is on keeps its value. *)
<1>6. ASSUME NEW t \in Slot, OnSlot(ops, t) = {}
      PROVE  After(ops, s)[t] = s[t]
  BY <1>5, <1>6 DEF ValueAfter
<1>7. ASSUME NEW p \in Managed(c)
      PROVE  Matches(c, p, Observed(c, p, After(ops, s)))
  <2>1. CASE p \in due
    <3>1. PICK k \in 1..Len(ops) : ops[k] = OpFor(c, p[1], p[2])
      BY <1>c, <2>1 DEF Elements, OpsFor
    <3>2. OpSlot(ops[k]) = SlotOf(c, p)
      BY <1>c, <1>1, <3>1, OperationCorrects
    <3>3. After(ops, s)[SlotOf(c, p)] = Result(ops[k])
      BY <1>1, <1>5, <1>v, <3>2
    <3>4. Observed(c, p, After(ops, s)) = c[p[1]].spec[p[2]]
      BY <1>c, <1>1, <3>1, <3>3, OperationCorrects DEF Observed
    <3> QED
      BY <1>1, <3>4 DEF Matches
  <2>2. CASE p \notin due
    <3>1. OnSlot(ops, SlotOf(c, p)) = {}
      <4> SUFFICES ASSUME NEW k \in 1..Len(ops), OpSlot(ops[k]) = SlotOf(c, p)
                   PROVE  FALSE
        BY DEF OnSlot
      <4>1. PICK q \in due : OpSlot(ops[k]) = SlotOf(c, q)
        BY <1>2
      <4> QED
        BY <1>0, <1>c, <2>2, <4>1
    <3>2. After(ops, s)[SlotOf(c, p)] = s[SlotOf(c, p)]
      BY <1>1, <1>6, <3>1
    <3> QED
      BY <2>2, <3>2 DEF Observed
  <2> QED
    BY <2>1, <2>2
<1>8. ASSUME NEW t \in Slot \ {SlotOf(c, p) : p \in Managed(c)}
      PROVE  After(ops, s)[t] = s[t]
  <2>1. OnSlot(ops, t) = {}
    BY <1>0, <1>2 DEF OnSlot
  <2> QED
    BY <1>6, <2>1
<1> QED
  BY <1>4, <1>7, <1>8
=============================================================================
