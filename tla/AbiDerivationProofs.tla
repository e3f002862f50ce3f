-------------------------- MODULE AbiDerivationProofs --------------------------
(***************************************************************************)
(* Proofs about AbiDerivation, for files of any length and any functions.  *)
(*                                                                         *)
(* That the parser finds a name for every function is an argument by       *)
(* counting: among one more copies than there are, one is free             *)
(* (FreshName).  The invariant is about names (NameInv), those of the      *)
(* version before an upgrade included (OldInv).                            *)
(***************************************************************************)
EXTENDS AbiDerivation, FiniteSetTheorems, WellFoundedInduction, TLAPS

(* The name as the contract has it: without the digit. *)
Written(n) == [n EXCEPT !.copy = 0]

(* Every function has a name of its own in the map, which is the one it    *)
(* was written with, up to a digit; and the first function of a name has   *)
(* that name.                                                              *)
NameInv ==
    /\ \A n \in DOMAIN methods : methods[n].name = Written(n)
    /\ \A n \in DOMAIN methods : Written(n) \in DOMAIN methods
    /\ \A n, k \in DOMAIN methods : methods[n] = methods[k] => n = k

(* The map of the version before the upgrade was one like it. *)
OldInv ==
    \A n \in DOMAIN old :
        /\ n \in Name
        /\ old[n] \in Functions
        /\ old[n].name = Written(n)

IInv ==
    /\ TypeOK
    /\ IsFiniteSet(contract)
    /\ IsFiniteSet(DOMAIN methods)
    /\ NameInv
    /\ OldInv

-----------------------------------------------------------------------------
(* Counting. *)

(* A set of naturals that is not empty has a least element. *)
LEMMA LeastNatural ==
    ASSUME NEW S \in SUBSET Nat, S # {}
    PROVE  \E k \in S : \A j \in S : k <= j
<1> DEFINE Less == {ss \in Nat \X Nat : ss[1] < ss[2]}
<1>1. IsWellFoundedOn(Less, Nat)
  BY NatLessThanWellFounded DEF OpToRel
<1> HIDE DEF Less
<1>2. PICK k \in S : \A j \in S : ~(<<j, k>> \in Less)
  BY <1>1, WFMin
<1>3. \A i, j \in Nat : i < j => <<i, j>> \in Less
  BY DEF Less
<1>4. \A j \in S : k <= j
  <2> TAKE j \in S
  <2>1. j \in Nat /\ k \in Nat
    OBVIOUS
  <2>2. ~(j < k)
    BY <1>2, <1>3, <2>1
  <2> QED
    BY <2>1, <2>2
<1> QED
  BY <1>4

(* Among 0..N, one is left over by N naturals. *)
LEMMA OneIsFree ==
    ASSUME NEW taken \in SUBSET Nat, IsFiniteSet(taken)
    PROVE  0..Cardinality(taken) \ taken # {}
<1> DEFINE N == Cardinality(taken)
<1>1. N \in Nat
  BY FS_CardinalityType
<1>2. Cardinality(0..N) = N + 1
  BY <1>1, FS_Interval
<1>3. ASSUME 0..N \subseteq taken PROVE FALSE
  <2>1. Cardinality(0..N) <= N
    BY <1>3, FS_Subset
  <2> QED
    BY <1>1, <1>2, <2>1
<1> QED
  BY <1>3

-----------------------------------------------------------------------------
(* Names. *)

LEMMA WrittenFacts ==
    ASSUME NEW n \in Name
    PROVE  /\ Written(n) \in Name
           /\ Written(n).copy = 0
           /\ Written(n) = n <=> n.copy = 0
           /\ \A k \in Nat : [n EXCEPT !.copy = k] \in Name
           /\ \A k \in Nat : Written([n EXCEPT !.copy = k]) = Written(n)
           /\ \A k \in Nat : [n EXCEPT !.copy = k].copy = k
BY DEF Written, Name

(* The copies of a name that the map has. *)
Taken(n) == {m.copy : m \in {k \in DOMAIN methods : Written(k) = n}}

LEMMA TakenFacts ==
    ASSUME IInv, NEW n \in Name
    PROVE  Taken(n) \in SUBSET Nat /\ IsFiniteSet(Taken(n))
<1> DEFINE same == {k \in DOMAIN methods : Written(k) = n}
           copyOf == [k \in same |-> k.copy]
<1>1. DOMAIN methods \subseteq Name /\ IsFiniteSet(DOMAIN methods)
  BY DEF IInv, TypeOK
<1>2. IsFiniteSet(same)
  BY <1>1, FS_Subset
<1>3. Taken(n) \in SUBSET Nat
  BY <1>1 DEF Taken, Name
<1>4. copyOf \in Surjection(same, Taken(n))
  BY DEF Taken, Surjection
<1> HIDE DEF same, copyOf
<1>5. IsFiniteSet(Taken(n))
  BY <1>2, <1>4, FS_Surjection
<1> QED
  BY <1>3, <1>5

(* The parser's name for a function is one the map does not have: the      *)
(* function's own, if the map has no function of that name.                *)
LEMMA FreshName ==
    ASSUME IInv, NEW n \in Name, n.copy = 0
    PROVE  /\ Resolved(n) \in Name
           /\ Resolved(n) \notin DOMAIN methods
           /\ Written(Resolved(n)) = n
           /\ Written(Resolved(n)) \in DOMAIN methods \cup {Resolved(n)}
<1> DEFINE free == 0..Cardinality(Taken(n)) \ Taken(n)
           k == CHOOSE k \in free : \A j \in free : k <= j
<1>1. Taken(n) \in SUBSET Nat /\ IsFiniteSet(Taken(n))
  BY TakenFacts
<1>2. Cardinality(Taken(n)) \in Nat
  BY <1>1, FS_CardinalityType
<1>3. free \in SUBSET Nat /\ free # {}
  BY <1>1, <1>2, OneIsFree
<1>4. Resolved(n) = [n EXCEPT !.copy = k]
  BY DEF Resolved, Taken, Written
<1> HIDE DEF free
<1>5. \E x \in free : \A j \in free : x <= j
  BY <1>3, LeastNatural
<1>6. k \in free
  BY <1>5
<1> HIDE DEF k
<1>7. k \in Nat /\ k \notin Taken(n)
  BY <1>1, <1>2, <1>6 DEF free
<1>8. /\ Resolved(n) \in Name /\ Resolved(n).copy = k
      /\ Written(Resolved(n)) = n
  BY <1>4, <1>7, WrittenFacts
<1>9. Resolved(n) \notin DOMAIN methods
  BY <1>7, <1>8 DEF Taken
<1>10. CASE Taken(n) = {}
  <2>1. free = {0}
    <3>1. Cardinality(Taken(n)) = 0
      BY <1>10, FS_EmptySet
    <3> QED
      BY <1>10, <3>1 DEF free
  <2>2. k = 0
    BY <1>6, <2>1
  <2> QED
    BY <1>8, <1>9, <2>2, WrittenFacts
<1>11. CASE Taken(n) # {}
  <2>1. PICK m \in DOMAIN methods : Written(m) = n
    BY <1>11 DEF Taken
  <2> QED
    BY <1>8, <1>9, <2>1 DEF IInv, NameInv
<1> QED
  BY <1>8, <1>9, <1>10, <1>11

(* A function of the file. *)
LEMMA FunctionFacts ==
    ASSUME NEW f \in Functions
    PROVE  /\ f.name \in Name /\ f.name.copy = 0
           /\ f.view \in BOOLEAN
           /\ f.inputs \in Seq(Type) /\ f.outputs \in Seq(Type)
BY FunctionsAssumption DEF Function

(* What reading a function does to the map. *)
LEMMA ReadFacts ==
    ASSUME IInv, NEW f \in Functions, Read(f)
    PROVE  /\ contract' = contract \cup {f}
           /\ f \notin contract
           /\ Cardinality(contract) < MaxEntries
           /\ Resolved(f.name) \in Name
           /\ Resolved(f.name) \notin DOMAIN methods
           /\ Written(Resolved(f.name)) = f.name
           /\ f.name \in DOMAIN methods \cup {Resolved(f.name)}
           /\ DOMAIN methods' = DOMAIN methods \cup {Resolved(f.name)}
           /\ methods'[Resolved(f.name)] = f
           /\ \A m \in DOMAIN methods : methods'[m] = methods[m]
           /\ old' = old
<1>1. f.name \in Name /\ f.name.copy = 0
  BY FunctionFacts
<1>2. /\ Resolved(f.name) \in Name
      /\ Resolved(f.name) \notin DOMAIN methods
      /\ Written(Resolved(f.name)) = f.name
      /\ f.name \in DOMAIN methods \cup {Resolved(f.name)}
  BY <1>1, FreshName
<1>3. methods' = [m \in DOMAIN methods \cup {Resolved(f.name)} |->
                      IF m = Resolved(f.name) THEN f ELSE methods[m]]
  BY DEF Read
<1>4. /\ contract' = contract \cup {f}
      /\ f \notin contract
      /\ Cardinality(contract) < MaxEntries
      /\ old' = old
  BY DEF Read
<1> QED
  BY <1>2, <1>3, <1>4

-----------------------------------------------------------------------------
(* The invariant. *)

LEMMA InitIInv == Init => IInv
<1> SUFFICES ASSUME Init PROVE IInv
  OBVIOUS
<1>1. contract = {} /\ DOMAIN methods = {} /\ DOMAIN old = {}
  BY DEF Init, NoMethods
<1>2. IsFiniteSet({}) /\ Cardinality({}) = 0
  BY FS_EmptySet
<1>3. 0 <= MaxEntries
  BY FunctionsAssumption
<1> QED
  BY <1>1, <1>2, <1>3 DEF IInv, TypeOK, NameInv, OldInv

LEMMA NextIInv == IInv /\ [Next]_vars => IInv'
<1> SUFFICES ASSUME IInv, [Next]_vars PROVE IInv'
  OBVIOUS
<1>t. /\ contract \subseteq Functions /\ IsFiniteSet(contract)
      /\ Cardinality(contract) <= MaxEntries
      /\ DOMAIN methods \subseteq Name /\ IsFiniteSet(DOMAIN methods)
      /\ {methods[n] : n \in DOMAIN methods} = contract
  BY DEF IInv, TypeOK
<1>1. ASSUME NEW f \in Functions, Read(f) PROVE IInv'
  <2> DEFINE new == Resolved(f.name)
  <2>1. /\ contract' = contract \cup {f} /\ f \notin contract
        /\ Cardinality(contract) < MaxEntries
        /\ new \in Name /\ new \notin DOMAIN methods
        /\ Written(new) = f.name
        /\ f.name \in DOMAIN methods \cup {new}
        /\ DOMAIN methods' = DOMAIN methods \cup {new}
        /\ methods'[new] = f
        /\ \A m \in DOMAIN methods : methods'[m] = methods[m]
        /\ old' = old
    BY <1>1, ReadFacts
  <2> HIDE DEF new
  <2>2. IsFiniteSet(contract') /\ Cardinality(contract') <= MaxEntries
    <3>1. Cardinality(contract) \in Nat
      BY <1>t, FS_CardinalityType
    <3>2. IsFiniteSet(contract') /\ Cardinality(contract') = Cardinality(contract) + 1
      BY <1>t, <2>1, FS_AddElement
    <3> QED
      BY <2>1, <3>1, <3>2, FunctionsAssumption
  <2>3. IsFiniteSet(DOMAIN methods')
    BY <1>t, <2>1, FS_AddElement
  <2>4. {methods'[n] : n \in DOMAIN methods'} = contract'
    BY <1>t, <2>1
  <2>o. OldInv'
    BY <2>1 DEF IInv, OldInv
  <2>5. TypeOK'
    <3>1. \A n \in DOMAIN old' : old'[n] \in Functions
      BY <2>o DEF OldInv
    <3> QED
      BY <1>t, <2>1, <2>2, <2>4, <3>1 DEF TypeOK
  <2>6. \A n \in DOMAIN methods : methods[n] # f
    BY <1>t, <2>1
  <2>7. NameInv'
    BY <2>1, <2>6 DEF IInv, NameInv
  <2> QED
    BY <2>2, <2>3, <2>5, <2>7, <2>o DEF IInv
<1>2. CASE Upgrade
  <2>1. contract' = {} /\ DOMAIN methods' = {} /\ old' = methods
    BY <1>2 DEF Upgrade, NoMethods
  <2>2. IsFiniteSet({}) /\ Cardinality({}) = 0 /\ 0 <= MaxEntries
    BY FS_EmptySet, FunctionsAssumption
  <2>3. OldInv'
    BY <1>t, <2>1 DEF IInv, NameInv, OldInv
  <2>4. TypeOK'
    <3>1. \A n \in DOMAIN old' : old'[n] \in Functions
      BY <2>3 DEF OldInv
    <3>2. {methods'[n] : n \in DOMAIN methods'} = {}
      BY <2>1
    <3>3. Cardinality(contract') <= MaxEntries
      BY <2>1, <2>2
    <3> QED
      BY <2>1, <3>1, <3>2, <3>3 DEF TypeOK
  <2> QED
    BY <2>1, <2>2, <2>3, <2>4 DEF IInv, NameInv
<1>3. CASE UNCHANGED vars
  BY <1>3 DEF vars, IInv, TypeOK, NameInv, OldInv
<1> QED
  BY <1>1, <1>2, <1>3 DEF Next

(* Every state is as the invariant says. *)
LEMMA SpecIInv == Spec => []IInv
BY InitIInv, NextIInv, PTL DEF Spec

-----------------------------------------------------------------------------
(* Lemmas for the theorems. *)

(* The functions in the map. *)
LEMMA MethodFacts ==
    ASSUME IInv, NEW n \in DOMAIN methods
    PROVE  /\ n \in Name
           /\ methods[n] \in contract
           /\ methods[n] \in Functions
           /\ methods[n].name = Written(n)
           /\ methods[n].view \in BOOLEAN
           /\ methods[n].inputs \in Seq(Type) /\ methods[n].outputs \in Seq(Type)
<1>1. n \in Name /\ methods[n] \in contract /\ methods[n] \in Functions
  BY DEF IInv, TypeOK
<1>2. methods[n].name = Written(n)
  BY DEF IInv, NameInv
<1> QED
  BY <1>1, <1>2, FunctionFacts

(* Two lists of one type each. *)
LEMMA OneType ==
    ASSUME NEW s \in Seq(Type), NEW t \in Seq(Type), Len(s) = 1, Len(t) = 1
    PROVE  s = t <=> s[1] = t[1]
OBVIOUS

(* Replacing the third part of a name. *)
LEMMA Capitalised ==
    ASSUME NEW a, NEW b, NEW c, NEW d, NEW new
    PROVE  [[sets |-> a, stem |-> b, capital |-> c, copy |-> d] EXCEPT !.capital = new]
             = [sets |-> a, stem |-> b, capital |-> new, copy |-> d]
OBVIOUS

(* A setter's name is one without a digit if the attribute's is. *)
LEMMA SetterNameFacts ==
    ASSUME NEW n \in Name
    PROVE  /\ SetterName(n) = [sets |-> n.sets + 1, stem |-> n.stem,
                               capital |-> TRUE, copy |-> n.copy]
           /\ SetterName(n) \in Name
<1>1. PICK a \in Nat, b \in STRING, c \in BOOLEAN, d \in Nat :
          n = [sets |-> a, stem |-> b, capital |-> c, copy |-> d]
  <2>1. n = [sets |-> n.sets, stem |-> n.stem, capital |-> n.capital, copy |-> n.copy]
    BY DEF Name
  <2>2. n.sets \in Nat /\ n.stem \in STRING /\ n.capital \in BOOLEAN /\ n.copy \in Nat
    BY DEF Name
  <2> QED
    BY <2>1, <2>2
<1>2. n.sets = a /\ n.stem = b /\ n.copy = d
  BY <1>1
<1>3. PICK next, yes : next = a + 1 /\ yes = TRUE
  OBVIOUS
<1>4. [n EXCEPT !.sets = next] = [sets |-> next, stem |-> b, capital |-> c, copy |-> d]
  BY <1>1
<1>5. SetterName(n) = [[n EXCEPT !.sets = next] EXCEPT !.capital = yes]
  BY <1>2, <1>3 DEF SetterName
<1>6. SetterName(n) = [sets |-> next, stem |-> b, capital |-> yes, copy |-> d]
  BY <1>4, <1>5, Capitalised
<1>7. next \in Nat /\ yes \in BOOLEAN
  BY <1>1, <1>3
<1>8. [sets |-> next, stem |-> b, capital |-> yes, copy |-> d] \in Name
  BY <1>1, <1>7 DEF Name
<1> QED
  BY <1>2, <1>3, <1>6, <1>8

(* Without overloads, every function has its own name in the map. *)
LEMMA OwnNames ==
    ASSUME IInv, ~Overloaded
    PROVE  /\ \A n \in DOMAIN methods : methods[n].name = n
           /\ \A f \in contract : f.name \in DOMAIN methods /\ methods[f.name] = f
<1>1. ASSUME NEW n \in DOMAIN methods
      PROVE  methods[n].name = n
  <2>1. Written(n) \in DOMAIN methods
    BY DEF IInv, NameInv
  <2>2. n \in Name /\ methods[n].name = Written(n) /\ methods[n] \in contract
    BY MethodFacts
  <2>3. Written(Written(n)) = Written(n)
    BY <2>2, WrittenFacts
  <2>4. methods[Written(n)].name = Written(n) /\ methods[Written(n)] \in contract
    BY <2>1, <2>3, MethodFacts
  <2>5. methods[Written(n)] = methods[n]
    BY <2>2, <2>4 DEF Overloaded
  <2>6. Written(n) = n
    BY <2>1, <2>5 DEF IInv, NameInv
  <2> QED
    BY <2>2, <2>6
<1>2. ASSUME NEW f \in contract
      PROVE  f.name \in DOMAIN methods /\ methods[f.name] = f
  <2>1. PICK n \in DOMAIN methods : methods[n] = f
    BY DEF IInv, TypeOK
  <2> QED
    BY <1>1, <2>1
<1> QED
  BY <1>1, <1>2

-----------------------------------------------------------------------------
(* The theorems. *)

(* The variables have their types, and the map holds the whole file: no    *)
(* function is lost to another of its name.                                *)
THEOREM TypeCorrect == Spec => []TypeOK
<1>1. IInv => TypeOK
  BY DEF IInv
<1> QED
  BY SpecIInv, <1>1, PTL

(* Without overloads, the attributes derived are the conventional pairs,   *)
(* in whatever order the file lists the functions.                         *)
THEOREM ConventionDerived == Spec => []DerivesTheConvention
<1>1. IInv => DerivesTheConvention
  <2> SUFFICES ASSUME IInv, ~Overloaded
               PROVE  Attributes(methods) = Conventional
    BY DEF DerivesTheConvention
  <2>o. /\ \A n \in DOMAIN methods : methods[n].name = n
        /\ \A f \in contract : f.name \in DOMAIN methods /\ methods[f.name] = f
    BY OwnNames
  <2>1. ASSUME NEW n \in Attributes(methods)
        PROVE  n \in Conventional
    <3> DEFINE g == methods[n]
               s == methods[SetterName(n)]
    <3>1. /\ n \in DOMAIN methods /\ SetterName(n) \in DOMAIN methods
          /\ g.view /\ g.inputs = << >> /\ Len(g.outputs) = 1
          /\ SupportedType(g.outputs[1])
          /\ ~s.view /\ Len(s.inputs) = 1 /\ s.inputs[1] = g.outputs[1]
      BY DEF Attributes, Getters, Setters
    <3>2. g \in contract /\ s \in contract /\ g \in Functions /\ g.name = n
      BY <2>o, <3>1, MethodFacts
    <3>3. n \in Name /\ n.copy = 0
      BY <3>2, FunctionFacts
    <3>4. s.name = [sets |-> n.sets + 1, stem |-> n.stem, capital |-> TRUE, copy |-> 0]
      BY <2>o, <3>1, <3>3, SetterNameFacts
    <3>5. s.inputs \in Seq(Type) /\ g.outputs \in Seq(Type)
      BY <3>1, MethodFacts
    <3>6. s.inputs = g.outputs
      BY <3>1, <3>5, OneType
    <3> HIDE DEF g, s
    <3> QED
      BY <3>1, <3>2, <3>4, <3>6 DEF Conventional
  <2>2. ASSUME NEW n \in Conventional
        PROVE  n \in Attributes(methods)
    <3>1. PICK g \in contract :
              /\ n = g.name
              /\ g.view /\ g.inputs = << >> /\ Len(g.outputs) = 1
              /\ SupportedType(g.outputs[1])
              /\ \E s \in contract :
                     /\ ~s.view /\ s.inputs = g.outputs
                     /\ s.name = [sets |-> g.name.sets + 1, stem |-> g.name.stem,
                                  capital |-> TRUE, copy |-> 0]
      BY DEF Conventional
    <3>2. PICK s \in contract :
              /\ ~s.view /\ s.inputs = g.outputs
              /\ s.name = [sets |-> g.name.sets + 1, stem |-> g.name.stem,
                           capital |-> TRUE, copy |-> 0]
      BY <3>1
    <3>3. g \in Functions
      BY DEF IInv, TypeOK
    <3>4. n \in Name /\ n.copy = 0
      BY <3>1, <3>3, FunctionFacts
    <3>5. SetterName(n) = s.name
      BY <3>1, <3>2, <3>4, SetterNameFacts
    <3>6. /\ n \in DOMAIN methods /\ methods[n] = g
          /\ SetterName(n) \in DOMAIN methods /\ methods[SetterName(n)] = s
      BY <2>o, <3>1, <3>5
    <3> QED
      BY <3>1, <3>2, <3>6 DEF Attributes, Getters, Setters
  <2> QED
    BY <2>1, <2>2
<1> QED
  BY SpecIInv, <1>1, PTL

(* The calls planned for an attribute whose getter and setter kept their   *)
(* names select functions that the contract has.                           *)
THEOREM CallsAnswer == Spec => []PlannedCallsAnswer
<1>1. IInv => PlannedCallsAnswer
  <2> SUFFICES ASSUME IInv, NEW n \in Attributes(methods),
                      ~Renamed(n), ~Renamed(SetterName(n))
               PROVE  /\ Answers(n, << >>, TRUE)
                      /\ \A c \in CallsFor(methods, n) : Answers(c[1], c[2], FALSE)
    BY DEF PlannedCallsAnswer
  <2> DEFINE g == methods[n]
             s == methods[SetterName(n)]
  <2>1. /\ n \in DOMAIN methods /\ SetterName(n) \in DOMAIN methods
        /\ g.view /\ g.inputs = << >> /\ Len(g.outputs) = 1
        /\ ~s.view /\ Len(s.inputs) = 1 /\ s.inputs[1] = g.outputs[1]
    BY DEF Attributes, Getters, Setters
  <2>2. /\ g \in contract /\ g.name = n /\ g.view \in BOOLEAN
        /\ s \in contract /\ s.name = SetterName(n) /\ s.view \in BOOLEAN
        /\ s.inputs \in Seq(Type) /\ g.outputs \in Seq(Type)
    BY <2>1, MethodFacts DEF Renamed
  <2>3. s.inputs = g.outputs
    BY <2>1, <2>2, OneType
  <2>4. Answers(n, << >>, TRUE)
    BY <2>1, <2>2 DEF Answers
  <2>5. Answers(SetterName(n), g.outputs, FALSE)
    BY <2>1, <2>2, <2>3 DEF Answers
  <2>6. ASSUME NEW m \in {On, Off}, HasZeroArgMutator(methods, m)
        PROVE  Answers(m, << >>, FALSE)
    <3>1. m \in DOMAIN methods /\ ~methods[m].view /\ methods[m].inputs = << >>
      BY <2>6 DEF HasZeroArgMutator
    <3>2. m.copy = 0
      BY DEF On, Off, Plain
    <3>3. methods[m] \in contract /\ methods[m].name = m /\ methods[m].view \in BOOLEAN
      BY <3>1, <3>2, MethodFacts, WrittenFacts
    <3> QED
      BY <3>1, <3>3 DEF Answers
  <2>7. ASSUME NEW c \in CallsFor(methods, n)
        PROVE  Answers(c[1], c[2], FALSE)
    <3>1. CASE n \in BoolToggles(methods)
      <4>1. c[1] \in {On, Off} /\ c[2] = << >>
        BY <2>7, <3>1 DEF CallsFor
      <4>2. HasZeroArgMutator(methods, On) /\ HasZeroArgMutator(methods, Off)
        BY <3>1 DEF BoolToggles
      <4>3. HasZeroArgMutator(methods, c[1])
        BY <4>1, <4>2
      <4>4. Answers(c[1], << >>, FALSE)
        BY <2>6, <4>1, <4>3
      <4> QED
        BY <4>1, <4>4
    <3>2. CASE n \notin BoolToggles(methods)
      <4>1. c = <<SetterName(n), g.outputs>>
        BY <2>7, <3>2 DEF CallsFor
      <4>2. c[1] = SetterName(n) /\ c[2] = g.outputs
        BY <4>1
      <4> QED
        BY <2>5, <4>2
    <3> QED
      BY <3>1, <3>2
  <2> QED
    BY <2>4, <2>7
<1> QED
  BY SpecIInv, <1>1, PTL

(* A name that one function of the contract has, and no other, is that     *)
(* function's name in the map, wherever the file lists it.                 *)
LEMMA SoleNames ==
    ASSUME IInv, NEW n \in Name, Sole(n), NEW f \in contract, f.name = n
    PROVE  n \in DOMAIN methods /\ methods[n] = f
<1>1. PICK m \in DOMAIN methods : methods[m] = f
  BY DEF IInv, TypeOK
<1>2. m \in Name /\ f.name = Written(m)
  BY <1>1, MethodFacts
<1>3. n \in DOMAIN methods /\ Written(n) = n
  BY <1>1, <1>2, WrittenFacts DEF IInv, NameInv
<1>4. methods[n] \in contract /\ methods[n].name = n
  BY <1>3, MethodFacts
<1> QED
  BY <1>3, <1>4 DEF Sole

(* An upgrade that keeps the functions there were keeps each attribute     *)
(* whose getter's and setter's names it does not overload, and what the    *)
(* attribute reads and sets, in whatever order the new file lists them.    *)
THEOREM UpgradesKeepAttributes == Spec => []AttributesSurvive
<1>1. IInv => AttributesSurvive
  <2> SUFFICES ASSUME IInv, \A n \in DOMAIN old : old[n] \in contract,
                      NEW n \in Attributes(old), Sole(n), Sole(SetterName(n))
               PROVE  /\ n \in Attributes(methods)
                      /\ methods[n] = old[n]
                      /\ methods[SetterName(n)] = old[SetterName(n)]
    BY DEF AttributesSurvive
  <2>1. n \in DOMAIN old /\ SetterName(n) \in DOMAIN old
    BY DEF Attributes, Getters, Setters
  <2>2. ASSUME NEW k \in DOMAIN old, Sole(k)
        PROVE  k \in DOMAIN methods /\ methods[k] = old[k]
    <3>1. k \in Name /\ old[k] \in contract /\ old[k].name = Written(k)
      BY DEF IInv, OldInv
    <3>2. PICK f \in contract : f.name = k
      BY <2>2 DEF Sole
    <3>3. f \in Functions
      BY DEF IInv, TypeOK
    <3>4. Written(k) = k
      BY <3>1, <3>2, <3>3, FunctionFacts, WrittenFacts
    <3> QED
      BY <2>2, <3>1, <3>4, SoleNames
  <2>3. /\ n \in DOMAIN methods /\ methods[n] = old[n]
        /\ SetterName(n) \in DOMAIN methods
        /\ methods[SetterName(n)] = old[SetterName(n)]
    BY <2>1, <2>2
  <2>4. n \in Attributes(methods)
    BY <2>3 DEF Attributes, Getters, Setters
  <2> QED
    BY <2>3, <2>4
<1> QED
  BY SpecIInv, <1>1, PTL
=============================================================================
