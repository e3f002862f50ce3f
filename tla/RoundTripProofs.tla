-------------------------- MODULE RoundTripProofs --------------------------
(***************************************************************************)
(* Proofs about RoundTrip, for every set of types and declarations, every  *)
(* range of int and every normal form of strings.                          *)
(*                                                                         *)
(* No property is inductive: what a plan says and what a batch sets were   *)
(* decided some steps earlier.  IInv adds what the running command holds:  *)
(* a built plan the canonical form of what the file declares (the file     *)
(* cannot change under it), an import the text of a value the chain had,   *)
(* and a batch a canonical value of the attribute's type.                  *)
(***************************************************************************)
EXTENDS RoundTrip, TLAPS

(* What import writes for the value now on chain. *)
Rendered == GoToCty(Decoded(typ, onchain))

(* A canonical value that has an argument for the setter. *)
Settable(t, c) ==
    /\ IsGoValue(c)
    /\ c = Canonical(t, c)
    /\ SizeFits(t, c.val)
    /\ HasSetterArg(t, c)

TypeInv ==
    /\ typ \in Types
    /\ IsChainValue(typ, onchain)
    /\ writes \in 0..MaxWrites
    /\ file = File(file.format, file.declared)
    /\ file.format \in {"hcl", "json"} /\ IsGoValue(file.declared)
    /\ step \in {"idle", "read", "created", "built"}
    /\ IsGoValue(held)
    /\ verdict \in {"unknown", "refused", "no drift", "drift", "failed"}
    /\ imported \in BOOLEAN
    /\ batch # Nothing => Settable(typ, batch)

PlanInv ==
    /\ step # "idle" => verdict = "unknown"
    /\ step = "built" => Accepts(typ, Desired) /\ held = Canonical(typ, Desired)
    /\ verdict \in {"drift", "no drift"} => Accepts(typ, Desired)
    /\ verdict = "drift" => batch = Canonical(typ, Desired)
    /\ verdict = "no drift" => Observed = Canonical(typ, Desired)

ImportInv ==
    /\ step = "created" => file = EmptyFile
    /\ imported /\ step \in {"read", "created"} => held = Rendered
    /\ imported /\ step \in {"idle", "built"} => file = File("hcl", Rendered)
    /\ imported /\ SurvivesFile(typ, onchain) => verdict \in {"unknown", "no drift"}

IInv == TypeInv /\ PlanInv /\ ImportInv

-----------------------------------------------------------------------------
(* Lemmas about values. *)

(* The parts of a type. *)
LEMMA TypeFacts ==
    ASSUME NEW t \in AbiType
    PROVE  /\ t.kind \in {"num", "bool", "string", "bytes"}
           /\ t.min \in Int /\ t.max \in Int
           /\ t.native \in BOOLEAN /\ t.list \in BOOLEAN
           /\ t.list => t.kind = "num"
           /\ t.size # AnySize => t.list \/ t.kind = "bytes"
BY DEF AbiType

(* The parts of a Go value. *)
LEMMA GoFacts ==
    ASSUME NEW g, IsGoValue(g)
    PROVE  /\ g = Go(g.type, g.list, g.val)
           /\ g.type \in GoType /\ g.list \in BOOLEAN /\ g.val \in Seq(Int)
           /\ g.type = "string" => \A k \in DOMAIN g.val : g.val[k] \in Strings
BY DEF IsGoValue, GoType, Go

(* The composed forms of the strings of a sequence. *)
LEMMA ComposedSeq ==
    ASSUME NEW s \in Seq(Int), \A k \in DOMAIN s : s[k] \in Strings
    PROVE  /\ Map(Composed, s) \in Seq(Int)
           /\ \A k \in DOMAIN Map(Composed, s) : Map(Composed, s)[k] \in Strings
<1>1. /\ DOMAIN s = 1..Len(s) /\ Len(s) \in Nat
      /\ \A k \in 1..Len(s) : s[k] \in Strings
  OBVIOUS
<1>s. Strings \subseteq Int
  <2>1. Strings \subseteq Nat
    BY StringsAssumption, Zenon
  <2> QED
    BY <2>1
<1>2. ASSUME NEW k \in 1..Len(s)
      PROVE  Composed(s[k]) \in Strings /\ Composed(s[k]) \in Int
  <2>1. PICK x \in Strings : x = s[k]
    BY <1>1
  <2>2. Composed(x) \in Strings
    BY StringsAssumption, Zenon
  <2>3. Composed(x) \in Int
    BY <2>2, <1>s, Zenon
  <2> QED
    BY <2>1, <2>2, <2>3
<1> DEFINE form == [k \in 1..Len(s) |-> Composed(s[k])]
<1>3. Map(Composed, s) = form
  BY <1>1 DEF Map
<1>4. form \in Seq(Int) /\ DOMAIN form = 1..Len(s) /\ \A k \in 1..Len(s) : form[k] \in Strings
  BY <1>1, <1>2
<1> QED
  BY <1>3, <1>4

(* Saturating keeps a sequence of numbers one, and keeps ints. *)
LEMMA SaturatedSeq ==
    ASSUME NEW s \in Seq(Int)
    PROVE  /\ Map(Saturated, s) \in Seq(Int)
           /\ (\A k \in DOMAIN s : IsInt(s[k])) => Map(Saturated, s) = s
BY IntAssumption DEF Map, Saturated, IsInt

(* What go-ethereum makes of a value the chain may hold: the integers stay *)
(* as they are, only the Go type around them varies, and canonical takes   *)
(* it.                                                                     *)
LEMMA DecodedFacts ==
    ASSUME NEW t \in AbiType, NEW v, IsChainValue(t, v)
    PROVE  /\ IsGoValue(Decoded(t, v))
           /\ Decoded(t, v).val = v
           /\ Accepts(t, Decoded(t, v))
<1>t. /\ t.kind \in {"num", "bool", "string", "bytes"}
      /\ t.min \in Int /\ t.max \in Int
      /\ t.list \in BOOLEAN
      /\ t.list => t.kind = "num"
  BY TypeFacts
<1>v. /\ v \in Seq(Int) /\ Fits(t, v) /\ SizeFits(t, v)
      /\ t.kind = "string" => \A k \in DOMAIN v : v[k] \in Strings
  BY DEF IsChainValue
<1>p. t.kind = "num" /\ t.min = 0 => \A k \in DOMAIN v : v[k] >= 0
  BY <1>t, <1>v DEF Fits
<1>1. CASE t.kind # "num"
  <2>1. Decoded(t, v) = Go(t.kind, FALSE, v)
    BY <1>1 DEF Decoded, IsByteNumber
  <2>2. IsGoValue(Go(t.kind, FALSE, v))
    BY <1>t, <1>v, <1>1 DEF IsGoValue, GoType, Go
  <2>3. /\ Go(t.kind, FALSE, v).type = t.kind
        /\ Go(t.kind, FALSE, v).list = FALSE
        /\ Go(t.kind, FALSE, v).val = v
    BY DEF Go
  <2>4. Accepts(t, Go(t.kind, FALSE, v))
    BY <1>t, <1>v, <1>1, <2>3 DEF Accepts, AcceptsBytes
  <2> QED
    BY <2>1, <2>2, <2>3, <2>4
<1>2. CASE t.kind = "num" /\ t.list /\ IsByteNumber(t)
  <2>1. Decoded(t, v) = Go("bytes", FALSE, v)
    BY <1>2 DEF Decoded
  <2>2. IsGoValue(Go("bytes", FALSE, v))
    BY <1>v DEF IsGoValue, GoType, Go
  <2>3. Go("bytes", FALSE, v).type = "bytes" /\ Go("bytes", FALSE, v).val = v
    BY DEF Go
  <2>4. Accepts(t, Go("bytes", FALSE, v))
    BY <1>v, <1>2, <2>3 DEF Accepts, AcceptsList
  <2> QED
    BY <2>1, <2>2, <2>3, <2>4
<1>3. CASE t.kind = "num" /\ ~(t.list /\ IsByteNumber(t))
  <2> DEFINE carrier == IF t.native THEN "int" ELSE "big"
  <2>0. carrier \in {"int", "big"}
    OBVIOUS
  <2>1. Decoded(t, v) = Go(carrier, t.list, v)
    BY <1>3 DEF Decoded
  <2> HIDE DEF carrier
  <2>2. IsGoValue(Go(carrier, t.list, v))
    BY <1>t, <1>v, <2>0 DEF IsGoValue, GoType, Go
  <2>3. /\ Go(carrier, t.list, v).type = carrier
        /\ Go(carrier, t.list, v).list = t.list
        /\ Go(carrier, t.list, v).val = v
    BY DEF Go
  <2>4. AcceptsNumbers(t, Go(carrier, t.list, v))
    BY <1>p, <1>3, <2>0, <2>3 DEF AcceptsNumbers
  <2>5. Accepts(t, Go(carrier, t.list, v))
    BY <1>t, <1>v, <1>3, <2>3, <2>4 DEF Accepts, AcceptsList
  <2> QED
    BY <2>1, <2>2, <2>3, <2>5
<1> QED
  BY <1>1, <1>2, <1>3

(* What import writes is a value. *)
LEMMA RenderedFacts ==
    ASSUME NEW g, IsGoValue(g)
    PROVE  IsGoValue(GoToCty(g))
<1>g. /\ g.list \in BOOLEAN /\ g.val \in Seq(Int)
      /\ g.type = "string" => \A k \in DOMAIN g.val : g.val[k] \in Strings
  BY GoFacts
<1>1. CASE g.type \in {"int", "big"}
  BY <1>g, <1>1 DEF GoToCty, IsGoValue, GoType, Go
<1>2. CASE g.type = "bytes"
  BY <1>g, <1>2 DEF GoToCty, IsGoValue, GoType, Go
<1>3. CASE g.type = "string"
  <2>1. GoToCty(g) = Go("string", FALSE, Map(Composed, g.val))
    BY <1>3 DEF GoToCty
  <2>2. /\ Map(Composed, g.val) \in Seq(Int)
        /\ \A k \in DOMAIN Map(Composed, g.val) : Map(Composed, g.val)[k] \in Strings
    BY <1>g, <1>3, ComposedSeq
  <2>3. IsGoValue(Go("string", FALSE, Map(Composed, g.val)))
    BY <2>2 DEF IsGoValue, GoType, Go
  <2> QED
    BY <2>1, <2>3
<1>4. CASE g.type \notin {"int", "big", "bytes", "string"}
  BY <1>4 DEF GoToCty
<1> QED
  BY <1>1, <1>2, <1>3, <1>4

(* What the loader makes of a declaration is a value; ints stay as they    *)
(* were declared.                                                          *)
LEMMA LoadedFacts ==
    ASSUME NEW c, IsGoValue(c), NEW format
    PROVE  /\ IsGoValue(Loaded(format, c))
           /\ c.type = "number" /\ (\A k \in DOMAIN c.val : IsInt(c.val[k]))
                => Loaded(format, c).val = c.val
<1>g. /\ c.list \in BOOLEAN /\ c.val \in Seq(Int)
      /\ c.type = "string" => \A k \in DOMAIN c.val : c.val[k] \in Strings
  BY GoFacts
<1>1. /\ IsGoValue(CtyToGo(c))
      /\ c.type = "number" /\ (\A k \in DOMAIN c.val : IsInt(c.val[k]))
            => CtyToGo(c).val = c.val
  <2>1. CASE c.type = "number"
    <3>1. CtyToGo(c) = Go("int", c.list, Map(Saturated, c.val))
      BY <2>1 DEF CtyToGo
    <3>2. /\ Map(Saturated, c.val) \in Seq(Int)
          /\ (\A k \in DOMAIN c.val : IsInt(c.val[k])) => Map(Saturated, c.val) = c.val
      BY <1>g, SaturatedSeq
    <3> HIDE DEF Map
    <3> QED
      BY <1>g, <3>1, <3>2 DEF IsGoValue, GoType, Go
  <2>2. CASE c.type = "string"
    <3>1. CtyToGo(c) = Go("string", c.list, Map(Composed, c.val))
      BY <2>2 DEF CtyToGo
    <3>2. /\ Map(Composed, c.val) \in Seq(Int)
          /\ \A k \in DOMAIN Map(Composed, c.val) : Map(Composed, c.val)[k] \in Strings
      BY <1>g, <2>2, ComposedSeq
    <3>3. IsGoValue(Go("string", c.list, Map(Composed, c.val)))
      BY <1>g, <3>2 DEF IsGoValue, GoType, Go
    <3> QED
      BY <2>2, <3>1, <3>3
  <2>3. CASE c.type \notin {"number", "string"}
    BY <2>3 DEF CtyToGo
  <2> QED
    BY <2>1, <2>2, <2>3
<1>2. /\ IsGoValue(NormalizeJSONValue(c))
      /\ c.type = "number" => NormalizeJSONValue(c).val = c.val
  <2>1. CASE c.type = "number"
    <3>1. PICK type \in {"int", "float"} : NormalizeJSONValue(c) = Go(type, c.list, c.val)
      BY <2>1 DEF NormalizeJSONValue
    <3> QED
      BY <1>g, <3>1, <2>1 DEF IsGoValue, GoType, Go
  <2>2. CASE c.type # "number"
    BY <2>2 DEF NormalizeJSONValue
  <2> QED
    BY <2>1, <2>2
<1> QED
  BY <1>1, <1>2 DEF Loaded

(* A Go value that is accepted has one canonical form, which sets what the *)
(* value holds and is of the length the type fixes.                        *)
LEMMA CanonicalFacts ==
    ASSUME NEW t \in AbiType, NEW g, IsGoValue(g), Accepts(t, g)
    PROVE  /\ IsGoValue(Canonical(t, g))
           /\ Canonical(t, g) = Canonical(t, Canonical(t, g))
           /\ Canonical(t, g).val = g.val
           /\ Canonical(t, g) # Nothing
           /\ SizeFits(t, Canonical(t, g).val)
<1>t. /\ t.kind \in {"num", "bool", "string", "bytes"}
      /\ t.list \in BOOLEAN
      /\ t.list => t.kind = "num"
      /\ t.size # AnySize => t.list \/ t.kind = "bytes"
  BY TypeFacts
<1>g. /\ g.val \in Seq(Int)
      /\ g.type = "string" => \A k \in DOMAIN g.val : g.val[k] \in Strings
  BY GoFacts
<1>1. PICK form : form = (IF t.kind = "num" THEN "big" ELSE t.kind)
  OBVIOUS
<1>2. form \in {"big", "bool", "string", "bytes"} /\ (form = "string" <=> t.kind = "string")
  BY <1>t, <1>1
<1>3. Canonical(t, g) = Go(form, t.list, g.val)
  BY <1>1 DEF Canonical
<1>4. /\ Go(form, t.list, g.val).type = form
      /\ Go(form, t.list, g.val).val = g.val
  BY DEF Go
<1>5. t.kind = "string" => g.type = "string"
  BY <1>t DEF Accepts
<1>6. IsGoValue(Go(form, t.list, g.val))
  BY <1>t, <1>g, <1>2, <1>5 DEF IsGoValue, GoType, Go
<1>7. Canonical(t, Go(form, t.list, g.val)) = Go(form, t.list, g.val)
  BY <1>1, <1>4 DEF Canonical
<1>8. Go(form, t.list, g.val) # Nothing
  BY <1>2, <1>4 DEF Nothing, Go
<1>9. SizeFits(t, g.val)
  <2>1. CASE t.size = AnySize
    BY <2>1 DEF SizeFits
  <2>2. CASE t.list
    BY <2>2 DEF Accepts, AcceptsList
  <2>3. CASE ~t.list /\ t.kind = "bytes"
    BY <2>3 DEF Accepts, AcceptsBytes
  <2> QED
    BY <1>t, <2>1, <2>2, <2>3
<1> QED
  BY <1>3, <1>4, <1>6, <1>7, <1>8, <1>9

(* A value that survives the file comes back from it: import's text is     *)
(* loaded to a value that canonical takes, and gives the form that Refresh *)
(* gives the value on chain.                                               *)
LEMMA ValueSurvives ==
    ASSUME NEW t \in AbiType, NEW v, IsChainValue(t, v), SurvivesFile(t, v)
    PROVE  /\ Accepts(t, Loaded("hcl", GoToCty(Decoded(t, v))))
           /\ Canonical(t, Loaded("hcl", GoToCty(Decoded(t, v)))) = Canonical(t, Decoded(t, v))
<1>t. /\ t.kind \in {"num", "bool", "string", "bytes"}
      /\ t.min \in Int /\ t.max \in Int
      /\ t.list \in BOOLEAN
      /\ t.list => t.kind = "num"
  BY TypeFacts
<1>v. v \in Seq(Int) /\ Fits(t, v) /\ SizeFits(t, v)
  BY DEF IsChainValue
<1>0. \A g, h : g.val = h.val => Canonical(t, g) = Canonical(t, h)
  BY DEF Canonical
<1>c. \A c : Loaded("hcl", c) = CtyToGo(c)
  BY DEF Loaded
<1>1. CASE t.kind = "num"
  <2>1. (\A k \in DOMAIN v : IsInt(v[k])) /\ ~(t.list /\ IsByteNumber(t))
    BY <1>1 DEF SurvivesFile
  <2>2. PICK carrier \in {"int", "big"} : Decoded(t, v) = Go(carrier, t.list, v)
    BY <1>1, <2>1 DEF Decoded
  <2>3. GoToCty(Decoded(t, v)) = Go("number", t.list, v)
    BY <2>2 DEF GoToCty, Go
  <2>4. Map(Saturated, v) = v
    BY <1>v, <2>1, SaturatedSeq
  <2>5. CtyToGo(Go("number", t.list, v)) = Go("int", t.list, v)
    BY <2>4 DEF CtyToGo, Go
  <2>6. /\ Go("int", t.list, v).type = "int"
        /\ Go("int", t.list, v).list = t.list
        /\ Go("int", t.list, v).val = v
        /\ Go(carrier, t.list, v).val = v
    BY DEF Go
  <2>7. AcceptsNumbers(t, Go("int", t.list, v))
    <3>1. t.min = 0 => \A k \in DOMAIN v : v[k] >= 0
      BY <1>t, <1>v, <1>1 DEF Fits
    <3> QED
      BY <2>6, <3>1 DEF AcceptsNumbers
  <2>8. Accepts(t, Go("int", t.list, v))
    BY <1>t, <1>v, <1>1, <2>6, <2>7 DEF Accepts, AcceptsList
  <2> QED
    BY <1>0, <1>c, <2>2, <2>3, <2>5, <2>6, <2>8
<1>2. CASE t.kind = "string"
  <2>1. Map(Composed, v) = v
    BY <1>2 DEF SurvivesFile
  <2>2. Decoded(t, v) = Go("string", FALSE, v)
    BY <1>2 DEF Decoded, IsByteNumber
  <2>3. /\ Go("string", FALSE, v).type = "string"
        /\ Go("string", FALSE, v).list = FALSE
        /\ Go("string", FALSE, v).val = v
    BY DEF Go
  <2>4. GoToCty(Go("string", FALSE, v)) = Go("string", FALSE, v)
    BY <2>1, <2>3 DEF GoToCty
  <2>5. CtyToGo(Go("string", FALSE, v)) = Go("string", FALSE, v)
    BY <2>1, <2>3 DEF CtyToGo
  <2>6. Accepts(t, Go("string", FALSE, v))
    BY <1>t, <1>2, <2>3 DEF Accepts
  <2> QED
    BY <1>c, <2>2, <2>4, <2>5, <2>6
<1>3. CASE t.kind = "bytes"
  <2>1. Decoded(t, v) = Go("bytes", FALSE, v)
    BY <1>3 DEF Decoded, IsByteNumber
  <2>2. GoToCty(Go("bytes", FALSE, v)) = Go("hex", FALSE, v)
    BY DEF GoToCty, Go
  <2>3. CtyToGo(Go("hex", FALSE, v)) = Go("hex", FALSE, v)
    BY DEF CtyToGo, Go
  <2>4. /\ Go("hex", FALSE, v).type = "hex"
        /\ Go("hex", FALSE, v).list = FALSE
        /\ Go("hex", FALSE, v).val = v
        /\ Go("bytes", FALSE, v).val = v
    BY DEF Go
  <2>5. Accepts(t, Go("hex", FALSE, v))
    BY <1>t, <1>v, <1>3, <2>4 DEF Accepts, AcceptsBytes
  <2> QED
    BY <1>0, <1>c, <2>1, <2>2, <2>3, <2>4, <2>5
<1>4. CASE t.kind = "bool"
  <2>1. Decoded(t, v) = Go("bool", FALSE, v)
    BY <1>4 DEF Decoded, IsByteNumber
  <2>2. Go("bool", FALSE, v).type = "bool" /\ Go("bool", FALSE, v).list = FALSE
    BY DEF Go
  <2>3. GoToCty(Go("bool", FALSE, v)) = Go("bool", FALSE, v)
    BY <2>2 DEF GoToCty
  <2>4. CtyToGo(Go("bool", FALSE, v)) = Go("bool", FALSE, v)
    BY <2>2 DEF CtyToGo
  <2>5. Accepts(t, Go("bool", FALSE, v))
    BY <1>t, <1>4, <2>2 DEF Accepts
  <2> QED
    BY <1>c, <2>1, <2>3, <2>4, <2>5
<1> QED
  BY <1>t, <1>1, <1>2, <1>3, <1>4

-----------------------------------------------------------------------------
(* The invariant. *)

LEMMA NothingFacts == IsGoValue(Nothing)
BY DEF Nothing, IsGoValue, GoType, Go

LEMMA FileFacts ==
    ASSUME NEW f, NEW d
    PROVE  File(f, d).format = f /\ File(f, d).declared = d
BY DEF File

(* What the commands compute from the state. *)
LEMMA StateFacts ==
    ASSUME TypeInv
    PROVE  /\ typ \in AbiType
           /\ IsGoValue(Desired)
           /\ IsGoValue(Rendered)
           /\ Accepts(typ, Decoded(typ, onchain))
<1>1. typ \in AbiType
  BY TypesAssumption DEF TypeInv
<1>2. IsGoValue(Desired)
  <2>1. IsGoValue(file.declared)
    BY DEF TypeInv
  <2> QED
    BY <2>1, LoadedFacts DEF Desired
<1>3. IsChainValue(typ, onchain)
  BY DEF TypeInv
<1>4. IsGoValue(Decoded(typ, onchain)) /\ Accepts(typ, Decoded(typ, onchain))
  BY <1>1, <1>3, DecodedFacts
<1>5. IsGoValue(Rendered)
  BY <1>4, RenderedFacts DEF Rendered
<1> QED
  BY <1>1, <1>2, <1>4, <1>5

LEMMA InitIInv == Init => IInv
<1> SUFFICES ASSUME Init PROVE IInv
  OBVIOUS
<1>1. IsChainValue(typ, onchain)
  BY TypesAssumption DEF Init
<1>2. file.format = "hcl" /\ file.declared = Nothing /\ file = File(file.format, file.declared)
  BY FileFacts DEF Init, EmptyFile
<1>w. writes \in 0..MaxWrites
  <2>1. writes = 0
    BY DEF Init
  <2> QED
    BY <2>1, BoundAssumption
<1>3. TypeInv
  BY <1>1, <1>2, <1>w, NothingFacts DEF Init, TypeInv
<1> QED
  BY <1>3 DEF Init, IInv, PlanInv, ImportInv

(* Whoever writes to the attribute writes a value of its type, and makes   *)
(* what is known about it unknown.                                         *)
LEMMA ForeignWriteKeeps == ASSUME IInv, ForeignWrite PROVE IInv'
<1>1. IsChainValue(typ, onchain')
  BY TypesAssumption DEF ForeignWrite, IInv, TypeInv
<1>2. Desired' = Desired
  BY DEF ForeignWrite, Desired
<1>3. writes' \in 0..MaxWrites
  <2>1. writes < MaxWrites /\ writes' = writes + 1
    BY DEF ForeignWrite
  <2>2. writes \in 0..MaxWrites
    BY DEF IInv, TypeInv
  <2> QED
    BY <2>1, <2>2, BoundAssumption
<1>4. TypeInv'
  BY <1>1, <1>3 DEF ForeignWrite, IInv, TypeInv
<1>5. PlanInv'
  BY <1>2 DEF ForeignWrite, IInv, PlanInv
<1>6. ImportInv'
  BY DEF ForeignWrite, IInv, ImportInv
<1> QED
  BY <1>4, <1>5, <1>6 DEF IInv

LEMMA EditKeeps == ASSUME IInv, Edit PROVE IInv'
<1>1. PICK f \in {"hcl", "json"}, d \in Declarations : file' = File(f, d)
  BY DEF Edit
<1>2. /\ file'.format = f /\ file'.declared = d
      /\ file' = File(file'.format, file'.declared)
  BY <1>1, FileFacts
<1>3. IsGoValue(d)
  BY DeclarationsAssumption
<1>4. TypeInv'
  BY <1>2, <1>3 DEF Edit, IInv, TypeInv
<1> QED
  BY <1>4 DEF Edit, IInv, PlanInv, ImportInv

(* import holds what the chain has at the read. *)
LEMMA ImportReadKeeps == ASSUME IInv, ImportRead PROVE IInv'
<1>1. IsGoValue(Rendered) /\ held' = Rendered /\ Rendered' = Rendered
  BY StateFacts DEF IInv, ImportRead, Rendered
<1>2. TypeInv'
  BY <1>1 DEF ImportRead, IInv, TypeInv
<1>3. PlanInv' /\ ImportInv'
  BY <1>1 DEF ImportRead, IInv, PlanInv, ImportInv
<1> QED
  BY <1>2, <1>3 DEF IInv

LEMMA ImportStopKeeps == ASSUME IInv, ImportFails \/ ImportDies PROVE IInv'
<1>1. TypeInv'
  BY NothingFacts DEF ImportFails, ImportDies, IInv, TypeInv
<1>2. PlanInv' /\ ImportInv'
  BY DEF ImportFails, ImportDies, IInv, PlanInv, ImportInv
<1> QED
  BY <1>1, <1>2 DEF IInv

LEMMA ImportCreateKeeps == ASSUME IInv, ImportCreate PROVE IInv'
<1>1. /\ file'.format = "hcl" /\ file'.declared = Nothing
      /\ file' = File(file'.format, file'.declared)
  BY FileFacts DEF ImportCreate, EmptyFile
<1>2. Rendered' = Rendered
  BY DEF ImportCreate, Rendered
<1>3. TypeInv'
  BY <1>1, NothingFacts DEF ImportCreate, IInv, TypeInv
<1>4. PlanInv' /\ ImportInv'
  BY <1>2 DEF ImportCreate, IInv, PlanInv, ImportInv
<1> QED
  BY <1>3, <1>4 DEF IInv

(* The file becomes the text of what was read. *)
LEMMA ImportWriteKeeps == ASSUME IInv, ImportWrite PROVE IInv'
<1>1. /\ file' = File("hcl", held)
      /\ file'.format = "hcl" /\ file'.declared = held
      /\ file' = File(file'.format, file'.declared)
  BY FileFacts DEF ImportWrite
<1>2. Rendered' = Rendered
  BY DEF ImportWrite, Rendered
<1>3. TypeInv'
  BY <1>1, NothingFacts DEF ImportWrite, IInv, TypeInv
<1>4. PlanInv' /\ ImportInv'
  BY <1>1, <1>2 DEF ImportWrite, IInv, PlanInv, ImportInv
<1> QED
  BY <1>3, <1>4 DEF IInv

(* A plan is built from the file as it is, which stays so until it ends.   *)
LEMMA BuildKeeps == ASSUME IInv, Build PROVE IInv'
<1>1. /\ typ \in AbiType /\ IsGoValue(Desired) /\ Accepts(typ, Desired)
      /\ held' = Canonical(typ, Desired)
  BY StateFacts DEF IInv, Build
<1>2. IsGoValue(held')
  BY <1>1, CanonicalFacts
<1>3. Desired' = Desired /\ Rendered' = Rendered /\ typ' = typ
  BY DEF Build, Desired, Rendered
<1>4. TypeInv'
  BY <1>2 DEF Build, IInv, TypeInv
<1>5. PlanInv'
  BY <1>1, <1>3 DEF Build, IInv, PlanInv
<1>6. ImportInv'
  BY <1>3 DEF Build, IInv, ImportInv
<1> QED
  BY <1>4, <1>5, <1>6 DEF IInv

(* The file of an import is accepted, and what it declares is what Refresh *)
(* finds, as long as the value survives the file.                          *)
LEMMA ImportIsMatched ==
    ASSUME IInv, imported, step \in {"idle", "built"}, SurvivesFile(typ, onchain)
    PROVE  Accepts(typ, Desired) /\ Canonical(typ, Desired) = Observed
<1>1. file = File("hcl", Rendered)
  BY DEF IInv, ImportInv
<1>2. Desired = Loaded("hcl", GoToCty(Decoded(typ, onchain)))
  BY <1>1, FileFacts DEF Desired, Rendered
<1>3. typ \in AbiType /\ IsChainValue(typ, onchain)
  BY StateFacts DEF IInv, TypeInv
<1>4. /\ Accepts(typ, Loaded("hcl", GoToCty(Decoded(typ, onchain))))
      /\ Canonical(typ, Loaded("hcl", GoToCty(Decoded(typ, onchain))))
            = Canonical(typ, Decoded(typ, onchain))
  BY <1>3, ValueSurvives
<1> QED
  BY <1>2, <1>4 DEF Observed

LEMMA BuildFailsKeeps == ASSUME IInv, BuildFails PROVE IInv'
<1>1. ~(imported /\ SurvivesFile(typ, onchain))
  BY ImportIsMatched DEF BuildFails
<1>2. Desired' = Desired /\ Rendered' = Rendered
  BY DEF BuildFails, Desired, Rendered
<1>3. TypeInv'
  BY DEF BuildFails, IInv, TypeInv
<1>4. PlanInv' /\ ImportInv'
  BY <1>1, <1>2 DEF BuildFails, IInv, PlanInv, ImportInv
<1> QED
  BY <1>3, <1>4 DEF IInv

(* A plan answers; the one that finds drift exports what was built. *)
LEMMA PlanKeeps == ASSUME IInv, NoDrift \/ Drift \/ PlanFails PROVE IInv'
<1>0. step = "built" /\ step' = "idle" /\ held' = Nothing
  BY DEF NoDrift, Drift, PlanFails
<1>1. Accepts(typ, Desired) /\ held = Canonical(typ, Desired)
  BY <1>0 DEF IInv, PlanInv
<1>2. Desired' = Desired /\ Rendered' = Rendered /\ typ' = typ
  BY DEF NoDrift, Drift, PlanFails, Desired, Rendered
<1>3. held # Observed => ~(imported /\ SurvivesFile(typ, onchain))
  BY <1>0, <1>1, ImportIsMatched
<1>4. Drift => Settable(typ, batch')
  <2>1. typ \in AbiType /\ IsGoValue(Desired)
    BY StateFacts DEF IInv
  <2>2. /\ IsGoValue(held) /\ held = Canonical(typ, held)
        /\ SizeFits(typ, held.val)
    BY <1>1, <2>1, CanonicalFacts
  <2> QED
    BY <2>2 DEF Drift, Settable
<1>5. TypeInv'
  BY <1>4, NothingFacts DEF NoDrift, Drift, PlanFails, IInv, TypeInv
<1>6. PlanInv'
  <2>1. Observed' = Observed
    BY DEF NoDrift, Drift, PlanFails, Observed
  <2> QED
    BY <1>0, <1>1, <1>2, <2>1 DEF NoDrift, Drift, PlanFails, PlanInv
<1>7. ImportInv'
  <2>1. /\ imported' = imported /\ onchain' = onchain /\ file' = file
        /\ verdict' # "no drift" => held # Observed
    BY DEF NoDrift, Drift, PlanFails
  <2>2. imported /\ step \in {"idle", "built"} => file = File("hcl", Rendered)
    BY DEF IInv, ImportInv
  <2> QED
    BY <1>0, <1>2, <1>3, <2>1, <2>2 DEF ImportInv
<1> QED
  BY <1>5, <1>6, <1>7 DEF IInv

(* A batch that goes through leaves a value of the attribute's type: its   *)
(* length is checked when the plan is built, its range by the contract.    *)
LEMMA ExecuteKeeps == ASSUME IInv, Execute PROVE IInv'
<1>1. IsChainValue(typ, onchain')
  <2>1. CASE Fits(typ, batch.val)
    <3>1. onchain' = batch.val /\ Settable(typ, batch) /\ typ \in AbiType
      BY <2>1, StateFacts DEF Execute, IInv, TypeInv
    <3>2. /\ batch.val \in Seq(Int) /\ SizeFits(typ, batch.val)
          /\ batch.type = "string" => \A k \in DOMAIN batch.val : batch.val[k] \in Strings
      BY <3>1, GoFacts DEF Settable
    <3>3. typ.kind = "string" => batch.type = "string"
      BY <3>1 DEF Settable, Canonical, Go
    <3> QED
      BY <2>1, <3>1, <3>2, <3>3 DEF IsChainValue
  <2>2. CASE ~Fits(typ, batch.val)
    BY <2>2 DEF Execute, IInv, TypeInv
  <2> QED
    BY <2>1, <2>2
<1>2. Desired' = Desired
  BY DEF Execute, Desired
<1>3. imported' => imported /\ onchain' = onchain
  BY DEF Execute
<1>4. TypeInv'
  BY <1>1 DEF Execute, IInv, TypeInv
<1>5. PlanInv'
  BY <1>2 DEF Execute, IInv, PlanInv
<1>6. onchain' = onchain => Rendered' = Rendered
  BY DEF Execute, Rendered
<1>7. ImportInv'
  BY <1>3, <1>6 DEF Execute, IInv, ImportInv
<1> QED
  BY <1>4, <1>5, <1>7 DEF IInv

LEMMA NextIInv == IInv /\ [Next]_vars => IInv'
<1> SUFFICES ASSUME IInv, [Next]_vars PROVE IInv'
  OBVIOUS
<1>1. CASE UNCHANGED vars
  BY <1>1 DEF vars, IInv, TypeInv, PlanInv, ImportInv, Desired, Rendered, Observed
<1>2. CASE Next
  BY <1>2, ForeignWriteKeeps, EditKeeps, ImportReadKeeps, ImportStopKeeps,
     ImportCreateKeeps, ImportWriteKeeps, BuildKeeps, BuildFailsKeeps, PlanKeeps,
     ExecuteKeeps DEF Next
<1> QED
  BY <1>1, <1>2

(* Every state is as the invariant says. *)
LEMMA SpecIInv == Spec => []IInv
BY InitIInv, NextIInv, PTL DEF Spec

-----------------------------------------------------------------------------
(* The theorems. *)

(* The variables have their types: the attribute holds a value of its type *)
(* whoever wrote it, and an exported batch has an argument for the setter. *)
THEOREM TypeCorrect == Spec => []TypeOK
<1>1. IInv => TypeOK
  BY DEF IInv, TypeInv, IsChainValue, Settable, TypeOK
<1> QED
  BY SpecIInv, <1>1, PTL

(* Refresh can take whatever the contract holds: canonical has a form for  *)
(* every value of every supported type.                                    *)
THEOREM RefreshNeverRefuses == Spec => []RefreshAccepts
<1>1. IInv => RefreshAccepts
  BY StateFacts DEF IInv, RefreshAccepts
<1> QED
  BY SpecIInv, <1>1, PTL

(* A plan right after an import reports no drift, for every value that     *)
(* survives the file, whatever edits, plans and batches came before.       *)
THEOREM ImportSettles == Spec => []ImportedValueSurvives
<1>1. IInv => ImportedValueSurvives
  BY DEF IInv, ImportInv, ImportedValueSurvives
<1> QED
  BY SpecIInv, <1>1, PTL

(* A file that declares nothing is refused; the number a plan compares and *)
(* sets is the one the file declares, if an int can hold it.               *)
THEOREM PlansAnswerTheDeclared == Spec => []VerdictIsDeclared
<1>1. IInv => VerdictIsDeclared
  <2> SUFFICES ASSUME IInv, verdict \in {"drift", "no drift"}
               PROVE  /\ file.declared # Nothing
                      /\ file.declared.type = "number"
                           /\ (\A k \in DOMAIN file.declared.val :
                                   IsInt(file.declared.val[k]))
                         => IF verdict = "drift" THEN batch.val = file.declared.val
                                                 ELSE onchain = file.declared.val
    BY DEF VerdictIsDeclared
  <2>1. typ \in AbiType /\ IsGoValue(file.declared) /\ Accepts(typ, Desired)
    BY StateFacts DEF IInv, TypeInv, PlanInv
  <2>2. file.declared # Nothing
    <3>1. SUFFICES ASSUME file.declared = Nothing PROVE FALSE
      OBVIOUS
    <3>2. Nothing.type = "nil" /\ Nothing.list = FALSE
      BY DEF Nothing, Go
    <3>3. Desired = Nothing
      <4>1. CtyToGo(Nothing) = Nothing /\ NormalizeJSONValue(Nothing) = Nothing
        BY <3>2 DEF CtyToGo, NormalizeJSONValue
      <4> QED
        BY <3>1, <4>1 DEF Desired, Loaded
    <3> QED
      BY <2>1, <3>2, <3>3, TypeFacts
      DEF Accepts, AcceptsList, AcceptsNumbers, AcceptsBytes
  <2>3. ASSUME file.declared.type = "number",
               \A k \in DOMAIN file.declared.val : IsInt(file.declared.val[k])
        PROVE  IF verdict = "drift" THEN batch.val = file.declared.val
                                    ELSE onchain = file.declared.val
    <3>1. Desired.val = file.declared.val
      BY <2>1, <2>3, LoadedFacts DEF Desired
    <3>2. Canonical(typ, Desired).val = file.declared.val
      BY <3>1 DEF Canonical, Go
    <3>3. CASE verdict = "drift"
      BY <3>2, <3>3 DEF IInv, PlanInv
    <3>4. CASE verdict = "no drift"
      <4>1. Observed.val = file.declared.val
        BY <3>2, <3>4 DEF IInv, PlanInv
      <4>2. Observed.val = Decoded(typ, onchain).val
        BY DEF Observed, Canonical, Go
      <4>3. Decoded(typ, onchain).val = onchain
        BY <2>1, DecodedFacts DEF IInv, TypeInv
      <4> QED
        BY <3>4, <4>1, <4>2, <4>3
    <3> QED
      BY <3>3, <3>4
  <2> QED
    BY <2>2, <2>3
<1> QED
  BY SpecIInv, <1>1, PTL

(* A batch that changed the chain set what its plan wanted: the next       *)
(* Refresh reads the canonical value that was exported.                    *)
THEOREM BatchesSettle == Spec => ExecutionSettles
<1>1. IInv /\ [Next]_vars => [Execute /\ onchain' # onchain => Observed' = batch]_vars
  <2> SUFFICES ASSUME IInv, Execute, onchain' # onchain
               PROVE  Observed' = batch
    OBVIOUS
  <2>1. /\ onchain' = batch.val /\ typ' = typ
        /\ batch = Canonical(typ, batch)
    BY DEF Execute, IInv, TypeInv, Settable
  <2>2. typ \in AbiType /\ IsChainValue(typ', onchain')
    <3>1. IInv'
      BY ExecuteKeeps
    <3> QED
      BY <3>1, StateFacts DEF IInv, TypeInv
  <2>3. Decoded(typ, batch.val).val = batch.val
    BY <2>1, <2>2, DecodedFacts
  <2>4. Canonical(typ, Decoded(typ, batch.val)) = Canonical(typ, batch)
    BY <2>3 DEF Canonical
  <2> QED
    BY <2>1, <2>4 DEF Observed
<1> QED
  BY SpecIInv, <1>1, PTL DEF Spec, ExecutionSettles
=============================================================================
