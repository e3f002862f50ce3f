------------------------------- MODULE Values -------------------------------
(***************************************************************************)
(* The life of an attribute's value: as the chain holds it, as go-ethereum *)
(* decodes it, as import writes it into a file, as the loader reads the    *)
(* file back, in the canonical form the plan compares, and as the argument *)
(* of a setter.                                                            *)
(*                                                                         *)
(* Every value is a sequence of integers: one for a number, a boolean or a *)
(* string (a code), its bytes for a byte string, its elements for a list.  *)
(* What differs from form to form is the Go type that carries it.  Lists   *)
(* hold numbers; an address behaves as a bytesN.                           *)
(***************************************************************************)
EXTENDS Integers, Sequences

CONSTANTS
    IntMin, IntMax,     \* the range of Go's int (a scaled int64)
    ByteMax,            \* the largest byte (a scaled 255)
    Strings,            \* the codes of the strings considered
    Composed(_)         \* the code of a string's normal form (NFC)

ASSUME IntAssumption ==
    /\ IntMin \in Int /\ IntMax \in Nat /\ IntMin < 0
    /\ ByteMax \in 0..IntMax

ASSUME StringsAssumption ==
    /\ Strings \subseteq Nat
    /\ \A s \in Strings : Composed(s) \in Strings /\ Composed(Composed(s)) = Composed(s)

(* An ABI type.  Numbers: their range and whether go-ethereum has a native *)
(* Go type for the width (8, 16, 32, 64) or uses *big.Int.  size: the      *)
(* length that bytesN and T[N] fix, or AnySize.                            *)
AnySize == -1

TypeOf(kind, min, max, native, list, size) ==
    [kind |-> kind, min |-> min, max |-> max, native |-> native,
     list |-> list, size |-> size]

(* The types considered: lists are of numbers, and only bytesN and T[N]     *)
(* fix a length.                                                           *)
AbiType ==
    {t \in [kind : {"num", "bool", "string", "bytes"}, min : Int, max : Int,
            native : BOOLEAN, list : BOOLEAN, size : Nat \cup {AnySize}] :
        /\ t.list => t.kind = "num"
        /\ t.size # AnySize => t.list \/ t.kind = "bytes"}

IsByteNumber(t) == t.kind = "num" /\ t.native /\ t.min = 0 /\ t.max = ByteMax

SizeFits(t, v) == t.size \in {AnySize, Len(v)}

(* A Go value: the type that carries it and the integers it holds. *)
Go(type, list, val) == [type |-> type, list |-> list, val |-> val]

GoType ==
    {"nil", "bool", "int", "big", "float", "number", "string", "bytes", "hex"}

(* A value whose strings are among those considered. *)
IsGoValue(g) ==
    /\ g \in [type : GoType, list : BOOLEAN, val : Seq(Int)]
    /\ g.type = "string" => \A k \in DOMAIN g.val : g.val[k] \in Strings

Map(f(_), s) == [k \in DOMAIN s |-> f(s[k])]

-----------------------------------------------------------------------------
(* go-ethereum decodes an integer to a native type or to *big.Int, bytesN  *)
(* to an array of uint8 - and uint8[] to a slice of uint8, as it does      *)
(* bytes: Go has one type for both.                                        *)
Decoded(t, v) ==
    CASE t.kind # "num"              -> Go(t.kind, FALSE, v)
      [] t.list /\ IsByteNumber(t)   -> Go("bytes", FALSE, v)
      [] OTHER -> Go(IF t.native THEN "int" ELSE "big", t.list, v)

(* Mutant: a *big.Int is written through an int and keeps its low bits. *)
GoToCtyNarrow(g) ==
    CASE g.type \in {"int", "big"} ->
            Go("number", g.list, Map(LAMBDA n : n % (IntMax + 1), g.val))
      [] g.type = "bytes"  -> Go("hex", FALSE, g.val)
      [] g.type = "string" -> Go("string", FALSE, Map(Composed, g.val))
      [] OTHER             -> g

(* import: what a decoded value is written as.  Bytes become a hex string, *)
(* and a cty string is in normal form.                                     *)
GoToCty(g) ==
    CASE g.type \in {"int", "big"} -> Go("number", g.list, g.val)
      [] g.type = "bytes"          -> Go("hex", FALSE, g.val)
      [] g.type = "string"         -> Go("string", FALSE, Map(Composed, g.val))
      [] OTHER                     -> g

IsInt(n) == n \in IntMin..IntMax

(* Mutant: a narrower integer on the way. *)
SaturatedNarrow(n) == IF n > IntMax \div 2 THEN IntMax \div 2 ELSE n

(* big.Float.Int64: the nearest int. *)
Saturated(n) == IF n > IntMax THEN IntMax ELSE IF n < IntMin THEN IntMin ELSE n

(* The loader: a whole number is an int.  HCL saturates those out of range *)
(* and normalises strings; JSON turns a number out of range into a float.  *)
CtyToGo(c) ==
    CASE c.type = "number" -> Go("int", c.list, Map(Saturated, c.val))
      [] c.type = "string" -> Go("string", c.list, Map(Composed, c.val))
      [] OTHER             -> c

NormalizeJSONValue(c) ==
    IF c.type = "number"
    THEN Go(IF \A k \in DOMAIN c.val : IsInt(c.val[k]) THEN "int" ELSE "float",
            c.list, c.val)
    ELSE c

Loaded(format, c) == IF format = "hcl" THEN CtyToGo(c) ELSE NormalizeJSONValue(c)

-----------------------------------------------------------------------------
(* canonical: which Go values it accepts for a type, and the form it gives *)
(* them.                                                                   *)

(* toBig takes any Go integer, unsigned types no negative one. *)
AcceptsNumbers(t, g) ==
    /\ g.type \in {"int", "big"}
    /\ t.min = 0 => \A k \in DOMAIN g.val : g.val[k] >= 0

(* Mutant: toBytes does not look at the length. *)
AcceptsBytesOfAnySize(t, g) == g.type \in {"bytes", "hex"} /\ ~g.list

(* toBytes takes bytes, arrays of them and hex strings. *)
AcceptsBytes(t, g) == g.type \in {"bytes", "hex"} /\ ~g.list /\ SizeFits(t, g.val)

(* Mutant: canonicalList takes []any only. *)
AcceptsAnyList(t, g) == SizeFits(t, g.val) /\ g.list /\ AcceptsNumbers(t, g)

(* canonicalList takes any slice or array, one of bytes included. *)
AcceptsList(t, g) ==
    /\ SizeFits(t, g.val)
    /\ \/ g.list /\ AcceptsNumbers(t, g)
       \/ g.type = "bytes"

Accepts(t, g) ==
    IF t.list THEN AcceptsList(t, g)
    ELSE CASE t.kind = "bool"   -> g.type = "bool" /\ ~g.list
           [] t.kind = "string" -> g.type = "string" /\ ~g.list
           [] t.kind = "num"    -> AcceptsNumbers(t, g) /\ ~g.list
           [] t.kind = "bytes"  -> AcceptsBytes(t, g)

(* Mutant: the value is checked but not brought into one form. *)
CanonicalAsGiven(t, g) == g

Canonical(t, g) == Go(IF t.kind = "num" THEN "big" ELSE t.kind, t.list, g.val)

(* setterArg has an argument for a canonical value: the native widths are  *)
(* checked, the others are not.                                            *)
HasSetterArg(t, c) ==
    t.kind = "num" /\ t.native => \A k \in DOMAIN c.val : c.val[k] \in t.min..t.max

(* The contract decodes the argument; one out of its type's range reverts. *)
Fits(t, v) == t.kind = "num" => \A k \in DOMAIN v : v[k] \in t.min..t.max

(* What an attribute of that type may hold. *)
IsChainValue(t, v) ==
    /\ v \in Seq(Int)
    /\ Fits(t, v) /\ SizeFits(t, v)
    /\ t.kind = "string" => \A k \in DOMAIN v : v[k] \in Strings
=============================================================================
