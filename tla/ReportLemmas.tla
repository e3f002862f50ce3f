---------------------------- MODULE ReportLemmas ----------------------------
(***************************************************************************)
(* Lemmas about the outline of a pass (Report): declarations are read in   *)
(* the order of the plan, so the operations collected on the way are in    *)
(* order and are exactly those the reads call for.                         *)
(***************************************************************************)
EXTENDS Report, BatchLemmas

(* The next declaration is one not yet read, before all that are left. *)
LEMMA NextReadFacts ==
    ASSUME NEW c, NEW saw, NEW p \in NextRead(c, saw)
    PROVE  /\ p \in Declared(c)
           /\ p \notin DOMAIN saw
           /\ \A q \in Declared(c) \ DOMAIN saw : q = p \/ ReadBefore(c, p, q)
BY DEF NextRead

(* A declared attribute is read as a natural. *)
LEMMA ObservedNat ==
    ASSUME NEW c \in Seq(ResourceConfig), NEW p \in Declared(c), NEW s \in ChainState
    PROVE  Observed(c, p, s) \in Nat
<1>1. p[1] \in 1..Len(c) /\ c[p[1]] \in ResourceConfig /\ SlotOf(c, p) \in Slot
  BY DeclaredPair, ResourceFacts DEF SlotOf, Slot
<1>2. s[SlotOf(c, p)] \in Raw
  BY <1>1 DEF ChainState
<1> QED
  BY <1>1, <1>2, DecodeNat DEF Observed

(* What has been read comes before what has not. *)
InOrder(c, saw) ==
    /\ DOMAIN saw \subseteq Declared(c)
    /\ \A q \in DOMAIN saw, r \in Declared(c) \ DOMAIN saw : ReadBefore(c, q, r)

(* It does after the next read. *)
LEMMA OrderKept ==
    ASSUME NEW c, NEW saw, InOrder(c, saw), NEW p \in NextRead(c, saw), NEW s
    PROVE  InOrder(c, WithRead(c, saw, p, s))
<1>1. /\ p \in Declared(c)
      /\ \A q \in Declared(c) \ DOMAIN saw : q = p \/ ReadBefore(c, p, q)
  BY NextReadFacts
<1>2. DOMAIN WithRead(c, saw, p, s) = DOMAIN saw \cup {p}
  BY DEF WithRead
<1> QED
  BY <1>1, <1>2 DEF InOrder

(* What was read and is not as declared. *)
Due(c, saw) == {q \in Managed(c) \cap DOMAIN saw : saw[q] # c[q[1]].spec[q[2]]}

(* The operations are those the reads call for, in order. *)
ExactPlan(c, saw, ops) ==
    /\ ops \in Seq(Operation)
    /\ Ordered(ops)
    /\ Elements(ops) = OpsFor(c, Due(c, saw))

(* They stay so with the next read. *)
LEMMA ExactKept ==
    ASSUME NEW c \in Seq(ResourceConfig), NEW saw, NEW ops, NEW s,
           InOrder(c, saw), ExactPlan(c, saw, ops), NEW p \in NextRead(c, saw)
    PROVE  ExactPlan(c, WithRead(c, saw, p, s), WithOp(c, ops, p, Observed(c, p, s)))
<1> DEFINE v == Observed(c, p, s)
           after == WithRead(c, saw, p, s)
           op == OpFor(c, p[1], p[2])
<1>1. /\ p \in Declared(c)
      /\ p \notin DOMAIN saw
      /\ \A q \in DOMAIN saw : ReadBefore(c, q, p)
  BY NextReadFacts DEF InOrder
<1>2. /\ DOMAIN after = DOMAIN saw \cup {p}
      /\ after[p] = v
      /\ \A q \in DOMAIN saw : after[q] = saw[q]
  BY <1>1 DEF WithRead
<1> HIDE DEF v, after
<1>3. CASE p \in Managed(c) /\ v # c[p[1]].spec[p[2]]
  <2>1. WithOp(c, ops, p, v) = Append(ops, op)
    BY <1>3 DEF WithOp, v
  <2>2. p[1] \in 1..Len(c) /\ p[2] \in DOMAIN c[p[1]].spec
    BY <1>1, <1>3, DeclaredPair
  <2>3. op \in Operation /\ ops \in Seq(Operation)
    BY <2>2, OpForType DEF ExactPlan
  <2>4. ASSUME NEW k \in 1..Len(ops)
        PROVE  Precedes(ops[k], op)
    <3>1. PICK q \in Due(c, saw) : ops[k] = OpFor(c, q[1], q[2])
      BY DEF ExactPlan, Elements, OpsFor
    <3>2. q \in Managed(c) /\ ReadBefore(c, q, p)
      BY <1>1 DEF Due
    <3>3. q[1] < p[1] \/ (q[1] = p[1] /\ q[2] < p[2])
      BY <1>3, <3>2 DEF ReadBefore
    <3> QED
      BY <3>1, <3>3 DEF OpFor, Precedes
  <2>5. Ordered(Append(ops, op))
    BY <2>3, <2>4, OrderedAppend DEF ExactPlan
  <2>6. Due(c, after) = Due(c, saw) \cup {p}
    BY <1>1, <1>2, <1>3 DEF Due
  <2>7. Elements(Append(ops, op)) = Elements(ops) \cup {op}
    BY <2>3, ElementsAppend
  <2>8. Elements(Append(ops, op)) = OpsFor(c, Due(c, after))
    BY <2>6, <2>7 DEF ExactPlan, OpsFor
  <2> QED
    BY <2>1, <2>3, <2>5, <2>8, AppendFacts DEF ExactPlan, after, v
<1>4. CASE ~(p \in Managed(c) /\ v # c[p[1]].spec[p[2]])
  <2>1. WithOp(c, ops, p, v) = ops
    BY <1>4 DEF WithOp, v
  <2>2. Due(c, after) = Due(c, saw)
    BY <1>1, <1>2, <1>4 DEF Due
  <2> QED
    BY <2>1, <2>2 DEF ExactPlan, after, v
<1> QED
  BY <1>3, <1>4

(* Nothing is due before anything was read. *)
LEMMA NothingDue ==
    ASSUME NEW c
    PROVE  InOrder(c, NothingRead) /\ ExactPlan(c, NothingRead, << >>)
<1>1. DOMAIN NothingRead = {}
  BY DEF NothingRead
<1>2. Due(c, NothingRead) = {} /\ Elements(<< >>) = {}
  BY <1>1 DEF Due, Elements
<1> QED
  BY <1>1, <1>2 DEF InOrder, ExactPlan, Ordered, OpsFor
=============================================================================
