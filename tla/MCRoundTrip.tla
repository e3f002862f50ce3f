---------------------------- MODULE MCRoundTrip ----------------------------
(***************************************************************************)
(* Instances of RoundTrip for TLC.  int is -2..2, a byte 0 or 1.  String 2 *)
(* is not in normal form; its normal form is string 1.                     *)
(***************************************************************************)
EXTENDS RoundTrip, SequencesExt

MinInt == -2

Nfc(s) == IF s = 2 THEN 1 ELSE s

Number(min, max, native) == TypeOf("num", min, max, native, FALSE, AnySize)
ListOf(t, size) == [t EXCEPT !.list = TRUE, !.size = size]

Uint8 == Number(0, 1, TRUE)
Uint24 == Number(0, 1, FALSE)
Uint64 == Number(0, 3, TRUE)
Uint256 == Number(0, 4, FALSE)
Int8 == Number(-2, 1, TRUE)
Int256 == Number(-3, 3, FALSE)
Bool == TypeOf("bool", 0, 1, TRUE, FALSE, AnySize)
String == TypeOf("string", 0, 0, TRUE, FALSE, AnySize)
Bytes2 == TypeOf("bytes", 0, ByteMax, TRUE, FALSE, 2)

AllTypes ==
    {Uint24, Uint64, Uint256, Int8, Int256, Bool, String, Bytes2,
     ListOf(Uint8, AnySize), ListOf(Int256, 2)}

(* Up to two bytes or elements. *)
ValuesOfType(t) ==
    LET elements == IF t.kind = "string" THEN Strings ELSE t.min..t.max
    IN  IF t.list \/ t.kind = "bytes"
        THEN {v \in BoundedSeq(elements, 2) : SizeFits(t, v)}
        ELSE {<<n>> : n \in elements}

(* Numbers inside and outside int, lists, strings, a fraction, null. *)
AllDeclarations ==
    {Go("number", FALSE, <<n>>) : n \in {-3, -1, 0, 1, 2, 4}}
      \cup {Go("number", TRUE, v) : v \in {<< >>, <<1>>, <<1, 3>>, <<-1, 1>>}}
      \cup {Go("hex", FALSE, v) : v \in BoundedSeq(0..ByteMax, 2)}
      \cup {Go("string", FALSE, <<s>>) : s \in Strings}
      \cup {Go("bool", FALSE, <<b>>) : b \in {0, 1}}
      \cup {Go("float", FALSE, <<0>>), Nothing}

OnlyUint256 == {Uint256}
WideDeclarations == {Go("number", FALSE, <<n>>) : n \in 0..4}
=============================================================================
