---------------------------- MODULE CommandsProofs ----------------------------
(***************************************************************************)
(* Proofs about Commands, for any documents and any number of commands run *)
(* on one of them.                                                         *)
(*                                                                         *)
(* The keys of a block come in any order, so the invariant says what the   *)
(* keys read so far amount to, whichever they are (LoadInv); from it, what *)
(* a command may say of the document is fixed by the document alone: Good, *)
(* and whether there is an endpoint and every value can be encoded.        *)
(***************************************************************************)
EXTENDS Commands, BatchLemmas

(* A decoded resource. *)
Resource ==
    [kind : {"contract", "protocol", "other", "none"}, name : Nat,
     addr : Addr \cup {NoAddr, BadAddr}, abi : BOOLEAN,
     spec : Partial(Attr, Raw), expect : Partial(Attr, Raw)]

ShownResource == [name : Nat, rows : SUBSET (Getters \cup ProtocolAttrs)]

(* What block b says without its keys in K. *)
SpecWithout(b, K) ==
    [a \in (DOMAIN b.flat \ K) \cup (IF SpecKey \in K THEN {} ELSE DOMAIN b.spec) |->
         IF a \in DOMAIN b.flat THEN b.flat[a] ELSE b.spec[a]]

ExpectWithout(b, K) == IF ExpectKey \in K THEN [a \in {} |-> 0] ELSE b.expect

ReadWithout(b, K) ==
    [kind |-> b.kind, name |-> b.name, addr |-> b.addr, abi |-> b.abi,
     spec |-> SpecWithout(b, K), expect |-> ExpectWithout(b, K)]

(* The keys of block i still to be decoded. *)
Left(i) == IF stage = "decode" /\ i = at THEN keys ELSE {}

(* The document is one that validate accepts. *)
Readable(b) == \A k \in KeysOf(b) : ~Undecodable(b, k)

ValidBlocks ==
    /\ doc.chainId # 0
    /\ doc.blocks # << >>
    /\ \A i \in 1..Len(doc.blocks) :
           doc.blocks[i].kind # "none" /\ doc.blocks[i].name # 0 /\ doc.blocks[i].addr # NoAddr
    /\ \A i, j \in 1..Len(doc.blocks) : doc.blocks[i].name = doc.blocks[j].name => i = j

Good ==
    /\ \A i \in 1..Len(doc.blocks) : Readable(doc.blocks[i])
    /\ ValidBlocks
    /\ \A i \in 1..Len(doc.blocks) : Buildable(ReadWithout(doc.blocks[i], {}))

(* A verdict fits the document. *)
Verdicts ==
    [cmd : Command, mock : BOOLEAN, outcome : Outcomes \ {"none", "unreachable"}]

Fitting(y) ==
    /\ y.outcome = "ok" => Good
    /\ y.outcome \in {"undecodable", "invalid", "refused"} => ~Good
    /\ y.outcome = "unopened" => y.cmd # "validate" /\ ~y.mock /\ ~doc.rpc
    /\ y.outcome = "unencodable" => y.cmd = "plan" /\ ~EncodableAsWritten

TypeInv ==
    /\ doc \in Documents
    /\ cmd \in Command
    /\ mock \in BOOLEAN
    /\ stage \in Stages
    /\ cfg \in Seq(Resource)
    /\ at \in 1..(Len(doc.blocks) + 1)
    /\ done \subseteq Attr
    /\ shown \in Seq(ShownResource)
    /\ outcome \in Outcomes
    /\ verdicts \subseteq Verdicts
    /\ stage = "decode" =>
           IF doc.blocks = << >> THEN cfg = << >> /\ keys = {}
           ELSE at <= Len(doc.blocks) /\ Len(cfg) = at /\ keys \subseteq KeysOf(Here)
    /\ stage = "open" => cmd # "validate"
    /\ stage \in {"open", "build", "read"} => keys = {} /\ Len(cfg) = Len(doc.blocks)
    /\ stage = "read" => at <= Len(cfg) /\ Buildable(cfg[at]) /\ done \subseteq ToRead

(* What was decoded is what is written, and none of it is an object. *)
LoadInv ==
    Unambiguous /\ stage # "exited" =>
        \A i \in 1..Len(cfg) :
            /\ cfg[i] = ReadWithout(doc.blocks[i], Left(i))
            /\ \A k \in KeysOf(doc.blocks[i]) \ Left(i) : ~Undecodable(doc.blocks[i], k)

(* What was let through was checked. *)
CheckedInv ==
    stage \in {"open", "build", "read"} =>
        /\ Valid
        /\ \A i \in 1..Len(cfg) : i < at => Buildable(cfg[i])

VerdictInv == Unambiguous => \A y \in verdicts : Fitting(y)

(* show has printed what comes before the resource at hand. *)
ShownInv ==
    /\ \A i \in 1..Len(shown) :
           /\ i <= Len(cfg)
           /\ shown[i].name = cfg[i].name
           /\ DOMAIN cfg[i].spec \cup DOMAIN cfg[i].expect \subseteq shown[i].rows
    /\ stage = "decode" => shown = << >>
    /\ stage \in {"open", "build", "read"} => Len(shown) = IF cmd = "show" THEN at - 1 ELSE 0
    /\ stage # "exited" => outcome = "none"
    /\ cmd = "show" /\ outcome = "ok" => Len(shown) = Len(doc.blocks)

IInv == TypeInv /\ LoadInv /\ CheckedInv /\ VerdictInv /\ ShownInv

-----------------------------------------------------------------------------
(* Lemmas about maps and blocks. *)

LEMMA PartialIntro ==
    ASSUME NEW S, NEW T, NEW D, NEW f \in [D -> T], D \subseteq S
    PROVE  f \in Partial(S, T)
BY DEF Partial

LEMMA PartialIsFunction ==
    ASSUME NEW S, NEW T, NEW f \in Partial(S, T)
    PROVE  f = [x \in DOMAIN f |-> f[x]]
BY DEF Partial

(* A map of values without an object holds values of attributes only. *)
LEMMA GivenRaw ==
    ASSUME NEW f \in Given, Object \notin Values(f)
    PROVE  f \in Partial(Attr, Raw)
<1>1. DOMAIN f \subseteq Attr /\ \A a \in DOMAIN f : f[a] \in Raw \cup {Object}
  BY PartialFcn DEF Given
<1>2. \A a \in DOMAIN f : f[a] \in Raw
  BY <1>1 DEF Values
<1>3. f = [x \in DOMAIN f |-> f[x]]
  BY PartialIsFunction DEF Given
<1>4. f \in [DOMAIN f -> Raw]
  BY <1>2, <1>3
<1> QED
  BY <1>1, <1>4, PartialIntro

LEMMA MergedType ==
    ASSUME NEW f \in Partial(Attr, Raw), NEW g \in Partial(Attr, Raw)
    PROVE  Merged(f, g) \in Partial(Attr, Raw)
<1>1. /\ DOMAIN f \subseteq Attr /\ \A a \in DOMAIN f : f[a] \in Raw
      /\ DOMAIN g \subseteq Attr /\ \A a \in DOMAIN g : g[a] \in Raw
  BY PartialFcn
<1>2. Merged(f, g) \in [DOMAIN f \cup DOMAIN g -> Raw]
  BY <1>1 DEF Merged
<1> QED
  BY <1>1, <1>2, PartialIntro

(* A block of a document, and its keys. *)
LEMMA DocumentFacts ==
    ASSUME NEW d \in Documents
    PROVE  /\ d.blocks \in Seq(Block)
           /\ Len(d.blocks) \in Nat
           /\ \A i \in 1..Len(d.blocks) : d.blocks[i] \in Block
BY DocumentsAssumption DEF Document

LEMMA BlockFacts ==
    ASSUME NEW b \in Block
    PROVE  /\ b.kind \in {"contract", "protocol", "other", "none"}
           /\ b.name \in Nat /\ b.addr \in Addr \cup {NoAddr, BadAddr} /\ b.abi \in BOOLEAN
           /\ b.flat \in Given /\ b.spec \in Given /\ b.expect \in Given
           /\ DOMAIN b.flat \subseteq Attr
           /\ \A a \in DOMAIN b.flat : b.flat[a] \in Raw \cup {Object}
<1>1. /\ b.kind \in {"contract", "protocol", "other", "none"}
      /\ b.name \in Nat /\ b.addr \in Addr \cup {NoAddr, BadAddr} /\ b.abi \in BOOLEAN
      /\ b.flat \in Given /\ b.spec \in Given /\ b.expect \in Given
  BY DEF Block
<1>2. DOMAIN b.flat \subseteq Attr /\ \A a \in DOMAIN b.flat : b.flat[a] \in Raw \cup {Object}
  BY <1>1, PartialFcn DEF Given
<1> QED
  BY <1>1, <1>2

(* The names of the two maps are not names of attributes. *)
LEMMA KeyFacts ==
    SpecKey \notin Attr /\ ExpectKey \notin Attr /\ SpecKey # ExpectKey
BY AttrAssumption DEF SpecKey, ExpectKey

-----------------------------------------------------------------------------
(* Decoding. *)

LEMMA BlankType ==
    ASSUME NEW b \in Block
    PROVE  Blank(b) \in Resource
<1>1. [a \in {} |-> 0] \in Partial(Attr, Raw)
  BY DEF Partial
<1> QED
  BY <1>1, BlockFacts DEF Blank, Resource

(* A resource of which nothing was decoded has what no key says. *)
LEMMA BlankReads ==
    ASSUME NEW b \in Block
    PROVE  Blank(b) = ReadWithout(b, KeysOf(b))
<1>1. SpecWithout(b, KeysOf(b)) = [a \in {} |-> 0]
  <2>1. (DOMAIN b.flat \ KeysOf(b)) \cup (IF SpecKey \in KeysOf(b) THEN {} ELSE DOMAIN b.spec) = {}
    BY DEF KeysOf
  <2> QED
    BY <2>1 DEF SpecWithout
<1>2. ExpectWithout(b, KeysOf(b)) = [a \in {} |-> 0]
  <2>1. CASE ExpectKey \in KeysOf(b)
    BY <2>1 DEF ExpectWithout
  <2>2. CASE ExpectKey \notin KeysOf(b)
    <3>1. DOMAIN b.expect = {}
      BY <2>2 DEF KeysOf
    <3>2. b.expect = [x \in DOMAIN b.expect |-> b.expect[x]]
      BY BlockFacts, PartialIsFunction DEF Given
    <3> QED
      BY <2>2, <3>1, <3>2 DEF ExpectWithout
  <2> QED
    BY <2>1, <2>2
<1> QED
  BY <1>1, <1>2 DEF Blank, ReadWithout

(* The three kinds of keys, and what decoding each does. *)
LEMMA DecodedFacts ==
    ASSUME NEW r \in Resource, NEW b \in Block, NEW k \in KeysOf(b)
    PROVE  /\ Decoded(r, b, k).kind = r.kind
           /\ Decoded(r, b, k).name = r.name
           /\ Decoded(r, b, k).addr = r.addr
           /\ Decoded(r, b, k).abi = r.abi
           /\ Decoded(r, b, k) =
                  [kind |-> r.kind, name |-> r.name, addr |-> r.addr, abi |-> r.abi,
                   spec |-> Decoded(r, b, k).spec, expect |-> Decoded(r, b, k).expect]
           /\ Decoded(r, b, k).spec =
                  IF k = SpecKey THEN Merged(r.spec, b.spec)
                  ELSE IF k = ExpectKey THEN r.spec
                  ELSE Merged(r.spec, [a \in {k} |-> b.flat[k]])
           /\ Decoded(r, b, k).expect = IF k = ExpectKey THEN b.expect ELSE r.expect
<1> DEFINE s == Merged(r.spec, b.spec)
           f == Merged(r.spec, [a \in {k} |-> b.flat[k]])
<1>1. r = [kind |-> r.kind, name |-> r.name, addr |-> r.addr, abi |-> r.abi,
           spec |-> r.spec, expect |-> r.expect]
  BY DEF Resource
<1>2. ASSUME NEW x
      PROVE  [r EXCEPT !.spec = x] =
                 [kind |-> r.kind, name |-> r.name, addr |-> r.addr, abi |-> r.abi,
                  spec |-> x, expect |-> r.expect]
  BY DEF Resource
<1>3. ASSUME NEW x
      PROVE  [r EXCEPT !.expect = x] =
                 [kind |-> r.kind, name |-> r.name, addr |-> r.addr, abi |-> r.abi,
                  spec |-> r.spec, expect |-> x]
  BY DEF Resource
<1>4. CASE k = SpecKey
  <2>1. Decoded(r, b, k) = [r EXCEPT !.spec = s]
    BY <1>4, KeyFacts DEF Decoded
  <2> QED
    BY <1>2, <1>4, <2>1, KeyFacts
<1>5. CASE k = ExpectKey
  <2>1. Decoded(r, b, k) = [r EXCEPT !.expect = b.expect]
    BY <1>5, KeyFacts DEF Decoded
  <2> QED
    BY <1>3, <1>5, <2>1, KeyFacts
<1>6. CASE k # SpecKey /\ k # ExpectKey
  <2>1. Decoded(r, b, k) = [r EXCEPT !.spec = f]
    BY <1>6 DEF Decoded
  <2> QED
    BY <1>2, <1>6, <2>1
<1> QED
  BY <1>4, <1>5, <1>6

LEMMA DecodedType ==
    ASSUME NEW r \in Resource, NEW b \in Block, NEW k \in KeysOf(b), ~Undecodable(b, k)
    PROVE  Decoded(r, b, k) \in Resource
<1> DEFINE d == Decoded(r, b, k)
<1>1. /\ r.kind \in {"contract", "protocol", "other", "none"} /\ r.name \in Nat
      /\ r.addr \in Addr \cup {NoAddr, BadAddr} /\ r.abi \in BOOLEAN
      /\ r.spec \in Partial(Attr, Raw) /\ r.expect \in Partial(Attr, Raw)
  BY DEF Resource
<1>2. k = SpecKey => b.spec \in Partial(Attr, Raw)
  <2>1. k = SpecKey => Object \notin Values(b.spec)
    BY KeyFacts DEF Undecodable
  <2>2. b.spec \in Given
    BY BlockFacts
  <2> QED
    BY <2>1, <2>2, GivenRaw
<1>3. k = ExpectKey => b.expect \in Partial(Attr, Raw)
  BY BlockFacts, GivenRaw, KeyFacts DEF Undecodable
<1>4. k \notin {SpecKey, ExpectKey} => [a \in {k} |-> b.flat[k]] \in Partial(Attr, Raw)
  <2> SUFFICES ASSUME k \notin {SpecKey, ExpectKey}
               PROVE  [a \in {k} |-> b.flat[k]] \in Partial(Attr, Raw)
    OBVIOUS
  <2>1. k \in DOMAIN b.flat /\ b.flat[k] # Object
    BY DEF KeysOf, Undecodable
  <2>2. k \in Attr /\ b.flat[k] \in Raw
    BY <2>1, BlockFacts
  <2>3. [a \in {k} |-> b.flat[k]] \in [{k} -> Raw]
    BY <2>2
  <2> QED
    BY <2>2, <2>3, PartialIntro
<1>5. d.spec \in Partial(Attr, Raw)
  BY <1>1, <1>2, <1>4, DecodedFacts, MergedType
<1>6. d.expect \in Partial(Attr, Raw)
  BY <1>1, <1>3, DecodedFacts
<1>7. d = [kind |-> r.kind, name |-> r.name, addr |-> r.addr, abi |-> r.abi,
           spec |-> d.spec, expect |-> d.expect]
  BY DecodedFacts
<1> HIDE DEF d
<1>8. d \in Resource
  BY <1>1, <1>5, <1>6, <1>7 DEF Resource
<1> QED
  BY <1>8 DEF d

(* Decoding a key of what all but some keys say. *)
LEMMA DecodedReads ==
    ASSUME NEW b \in Block, DOMAIN b.flat \cap DOMAIN b.spec = {},
           NEW K \in SUBSET KeysOf(b), NEW k \in K, ReadWithout(b, K) \in Resource
    PROVE  Decoded(ReadWithout(b, K), b, k) = ReadWithout(b, K \ {k})
<1> DEFINE r == ReadWithout(b, K)
           d == Decoded(r, b, k)
           L == K \ {k}
<1>1. /\ r.kind = b.kind /\ r.name = b.name /\ r.addr = b.addr /\ r.abi = b.abi
      /\ r.spec = SpecWithout(b, K) /\ r.expect = ExpectWithout(b, K)
  BY DEF ReadWithout
<1>2. /\ DOMAIN b.flat \subseteq Attr
      /\ SpecKey \notin DOMAIN b.flat /\ ExpectKey \notin DOMAIN b.flat
      /\ SpecKey # ExpectKey
  BY BlockFacts, KeyFacts
<1>d. /\ d.spec = IF k = SpecKey THEN Merged(r.spec, b.spec)
                  ELSE IF k = ExpectKey THEN r.spec
                  ELSE Merged(r.spec, [a \in {k} |-> b.flat[k]])
      /\ d.expect = IF k = ExpectKey THEN b.expect ELSE r.expect
  BY DecodedFacts
<1>3. d.spec = SpecWithout(b, L)
  <2>1. CASE k = SpecKey
    <3>1. d.spec = Merged(SpecWithout(b, K), b.spec)
      BY <1>1, <1>d, <2>1
    <3>2. DOMAIN b.flat \ K = DOMAIN b.flat \ L
      BY <1>2, <2>1
    <3>3. /\ DOMAIN SpecWithout(b, K) = DOMAIN b.flat \ L
          /\ \A a \in DOMAIN b.flat \ L : SpecWithout(b, K)[a] = b.flat[a]
      BY <2>1, <3>2 DEF SpecWithout
    <3>4. SpecWithout(b, L) =
            [a \in (DOMAIN b.flat \ L) \cup DOMAIN b.spec |->
                 IF a \in DOMAIN b.flat THEN b.flat[a] ELSE b.spec[a]]
      BY <2>1 DEF SpecWithout
    <3> HIDE DEF L
    <3>5. Merged(SpecWithout(b, K), b.spec) = SpecWithout(b, L)
      BY <3>3, <3>4 DEF Merged
    <3> QED
      BY <3>1, <3>5
  <2>2. CASE k = ExpectKey
    <3>1. d.spec = SpecWithout(b, K)
      BY <1>1, <1>2, <1>d, <2>2
    <3>2. DOMAIN b.flat \ K = DOMAIN b.flat \ L /\ (SpecKey \in K <=> SpecKey \in L)
      BY <1>2, <2>2
    <3> QED
      BY <3>1, <3>2 DEF SpecWithout
  <2>3. CASE k # SpecKey /\ k # ExpectKey
    <3>1. d.spec = Merged(SpecWithout(b, K), [a \in {k} |-> b.flat[k]])
      BY <1>1, <1>d, <2>3
    <3>2. k \in DOMAIN b.flat /\ (SpecKey \in K <=> SpecKey \in L)
      BY <2>3 DEF KeysOf
    <3>3. DOMAIN SpecWithout(b, L) = DOMAIN SpecWithout(b, K) \cup {k}
      BY <3>2 DEF SpecWithout
    <3>4. \A a \in DOMAIN SpecWithout(b, L) : SpecWithout(b, L)[a] =
              IF a \in {k} THEN b.flat[k] ELSE SpecWithout(b, K)[a]
      BY <3>2 DEF SpecWithout
    <3>5. SpecWithout(b, L) = [a \in DOMAIN SpecWithout(b, L) |-> SpecWithout(b, L)[a]]
      BY DEF SpecWithout
    <3> HIDE DEF L
    <3>6. Merged(SpecWithout(b, K), [a \in {k} |-> b.flat[k]]) = SpecWithout(b, L)
      BY <3>3, <3>4, <3>5 DEF Merged
    <3> QED
      BY <3>1, <3>6
  <2> QED
    BY <2>1, <2>2, <2>3
<1>4. d.expect = ExpectWithout(b, L)
  BY <1>1, <1>d DEF ExpectWithout
<1>5. d = [kind |-> r.kind, name |-> r.name, addr |-> r.addr, abi |-> r.abi,
           spec |-> d.spec, expect |-> d.expect]
  BY DecodedFacts
<1> QED
  BY <1>1, <1>3, <1>4, <1>5 DEF ReadWithout

-----------------------------------------------------------------------------
(* What a command builds on. *)

(* Once the document is decoded, it is good if every resource builds. *)
LEMMA LoadedGood ==
    ASSUME IInv, Unambiguous, stage \in {"build", "read"}
    PROVE  Good <=> \A i \in 1..Len(cfg) : Buildable(cfg[i])
<1>1. Len(cfg) = Len(doc.blocks) /\ cfg \in Seq(Resource) /\ \A i \in 1..Len(cfg) : Left(i) = {}
  BY DEF IInv, TypeInv, Left
<1>2. \A i \in 1..Len(cfg) :
          cfg[i] = ReadWithout(doc.blocks[i], {}) /\ Readable(doc.blocks[i])
  BY <1>1 DEF IInv, LoadInv, Readable
<1>3. ValidBlocks
  <2>1. Valid
    BY DEF IInv, CheckedInv
  <2>2. doc.blocks # << >>
    BY <1>1, <2>1 DEF Valid
  <2>3. \A i \in 1..Len(cfg) :
            /\ cfg[i].kind = doc.blocks[i].kind
            /\ cfg[i].name = doc.blocks[i].name
            /\ cfg[i].addr = doc.blocks[i].addr
    <3> TAKE i \in 1..Len(cfg)
    <3> DEFINE b == doc.blocks[i]
    <3>1. cfg[i] = ReadWithout(b, {})
      BY <1>2
    <3> HIDE DEF b
    <3>2. cfg[i].kind = b.kind /\ cfg[i].name = b.name /\ cfg[i].addr = b.addr
      BY <3>1 DEF ReadWithout
    <3> QED
      BY <3>2 DEF b
  <2> QED
    BY <1>1, <2>1, <2>2, <2>3 DEF Valid, ValidBlocks
<1> QED
  BY <1>1, <1>2, <1>3 DEF Good

(* A value that plan cannot encode is one the document gives. *)
LEMMA LoadedUnencodable ==
    ASSUME IInv, Unambiguous, stage = "read",
           NEW a \in DOMAIN cfg[at].spec, ~Encodable(cfg[at], a)
    PROVE  ~EncodableAsWritten
<1> DEFINE b == doc.blocks[at]
           r == cfg[at]
<1>1. at \in 1..Len(cfg) /\ Len(cfg) = Len(doc.blocks) /\ Left(at) = {}
  BY DocumentFacts DEF IInv, TypeInv, Left
<1>2. r = ReadWithout(b, {})
  BY <1>1 DEF IInv, LoadInv
<1> HIDE DEF b, r
<1>3. r.kind = b.kind /\ r.spec = SpecWithout(b, {})
  BY <1>2 DEF ReadWithout
<1>4. PICK f \in {b.flat, b.spec} : a \in DOMAIN f /\ r.spec[a] = f[a]
  BY <1>3 DEF SpecWithout, r
<1>5. ~Encodable([kind |-> b.kind, spec |-> f], a)
  BY <1>3, <1>4 DEF Encodable, r
<1> QED
  BY <1>1, <1>4, <1>5 DEF EncodableAsWritten, b

(* A verdict that fits the document keeps the verdicts consistent. *)
LEMMA VerdictKept ==
    ASSUME IInv, NEW o \in Outcomes \ {"none"}, ExitsWith(o),
           Unambiguous => Fitting([cmd |-> cmd, mock |-> mock, outcome |-> o])
    PROVE  VerdictInv' /\ verdicts' \subseteq Verdicts
<1> DEFINE new == [cmd |-> cmd, mock |-> mock, outcome |-> o]
<1>1. UNCHANGED doc /\ verdicts' = verdicts \cup Verdict(o)
  BY DEF ExitsWith
<1>2. (Unambiguous' <=> Unambiguous) /\ \A y : Fitting(y)' <=> Fitting(y)
  BY <1>1 DEF Fitting, Good, Unambiguous, ValidBlocks, EncodableAsWritten
<1>3. Verdict(o) \subseteq {new} /\ (o = "unreachable" => Verdict(o) = {})
  BY DEF Verdict
<1>4. o # "unreachable" => new \in Verdicts
  BY DEF IInv, TypeInv, Verdicts
<1> HIDE DEF new
<1>5. verdicts' \subseteq Verdicts
  BY <1>1, <1>3, <1>4 DEF IInv, TypeInv
<1>6. Unambiguous => \A y \in verdicts' : Fitting(y)
  BY <1>1, <1>3 DEF IInv, VerdictInv, new
<1> QED
  BY <1>2, <1>5, <1>6 DEF VerdictInv

(* A command that ends leaves the rest of the invariant as it is. *)
LEMMA ExitKeeps ==
    ASSUME IInv, NEW o \in Outcomes \ {"none"}, ExitsWith(o),
           Unambiguous /\ o = "ok" => Good,
           Unambiguous /\ o \in {"undecodable", "invalid", "refused"} => ~Good,
           o = "unopened" => cmd # "validate" /\ ~mock /\ ~doc.rpc,
           Unambiguous /\ o = "unencodable" => cmd = "plan" /\ ~EncodableAsWritten,
           cmd = "show" /\ o = "ok" => Len(shown) = Len(doc.blocks),
           UNCHANGED <<cfg, done, shown>>, at' \in 1..(Len(doc.blocks) + 1)
    PROVE  IInv'
<1>1. /\ stage' = "exited" /\ outcome' = o
      /\ UNCHANGED <<doc, cmd, mock, cfg, done, shown>>
  BY DEF ExitsWith
<1>2. VerdictInv' /\ verdicts' \subseteq Verdicts
  <2>1. Unambiguous => Fitting([cmd |-> cmd, mock |-> mock, outcome |-> o])
    BY DEF Fitting
  <2> QED
    BY <2>1, VerdictKept
<1>3. TypeInv'
  BY <1>1, <1>2 DEF IInv, TypeInv, Stages
<1>4. LoadInv' /\ CheckedInv'
  BY <1>1 DEF LoadInv, CheckedInv
<1>5. ShownInv'
  BY <1>1 DEF IInv, ShownInv
<1> QED
  BY <1>2, <1>3, <1>4, <1>5 DEF IInv

(* What is read of a resource is what its attributes are compared with,    *)
(* and, for show, everything that plan would compare.                      *)
LEMMA ToReadFacts ==
    ASSUME IInv, stage = "read"
    PROVE  /\ ToRead \subseteq Attr
           /\ cmd = "show" =>
                  /\ ToRead \subseteq Getters \cup ProtocolAttrs
                  /\ DOMAIN cfg[at].spec \cup DOMAIN cfg[at].expect \subseteq ToRead
<1> DEFINE r == cfg[at]
<1>1. r \in Resource /\ Buildable(r)
  BY DEF IInv, TypeInv
<1>2. DOMAIN r.spec \subseteq Attr /\ DOMAIN r.expect \subseteq Attr
  <2>1. r.spec \in Partial(Attr, Raw) /\ r.expect \in Partial(Attr, Raw)
    BY <1>1 DEF Resource
  <2> QED
    BY <2>1, PartialFcn
<1>3. \/ /\ r.kind = "protocol" /\ DOMAIN r.expect = {}
         /\ DOMAIN r.spec \subseteq ProtocolAttrs
      \/ /\ r.kind = "contract" /\ DOMAIN r.expect \subseteq Getters
         /\ DOMAIN r.spec \subseteq Settable
  BY <1>1 DEF Buildable, Builds, ContractBuilds, ProtocolBuilds
<1> HIDE DEF r
<1>4. /\ Rows(r) \subseteq Getters \cup ProtocolAttrs
      /\ DOMAIN r.spec \cup DOMAIN r.expect \subseteq Rows(r)
      /\ Rows(r) \subseteq Attr
  BY <1>2, <1>3, AttrAssumption DEF Rows
<1> QED
  BY <1>2, <1>4 DEF ToRead, r

-----------------------------------------------------------------------------
(* The invariant. *)

LEMMA InitIInv == Init => IInv
<1> SUFFICES ASSUME Init PROVE IInv
  OBVIOUS
<1>1. Len(doc.blocks) \in Nat
  BY DocumentFacts DEF Init
<1>2. /\ doc \in Documents /\ mock \in BOOLEAN /\ stage = "exited" /\ outcome = "none"
      /\ cmd \in Command /\ verdicts \subseteq Verdicts
      /\ \A y \in verdicts : Fitting(y)
  BY DEF Init, Command
<1>3. cfg = << >> /\ at = 1 /\ done = {} /\ shown = << >>
  BY DEF Init
<1> QED
  BY <1>1, <1>2, <1>3
  DEF IInv, TypeInv, LoadInv, CheckedInv, VerdictInv, ShownInv, Stages, Outcomes

LEMMA NextIInv == IInv /\ [Next]_vars => IInv'
<1> SUFFICES ASSUME IInv, [Next]_vars PROVE IInv'
  OBVIOUS
<1>t. /\ TypeInv
      /\ doc \in Documents /\ doc.blocks \in Seq(Block) /\ Len(doc.blocks) \in Nat
      /\ \A i \in 1..Len(doc.blocks) : doc.blocks[i] \in Block
      /\ cfg \in Seq(Resource) /\ Len(cfg) \in Nat
      /\ at \in 1..(Len(doc.blocks) + 1)
  BY DocumentFacts DEF IInv, TypeInv
<1>1. ASSUME NEW c \in Command, NEW m \in BOOLEAN, Starts(c, m) PROVE IInv'
  <2>1. /\ cmd' = c /\ mock' = m /\ stage' = "decode" /\ at' = 1
        /\ done' = {} /\ shown' = << >> /\ outcome' = "none"
        /\ UNCHANGED <<doc, verdicts>>
    BY <1>1 DEF Starts
  <2>2. VerdictInv'
    BY <2>1 DEF IInv, VerdictInv, Fitting, Good, Unambiguous, ValidBlocks, EncodableAsWritten
  <2>3. CheckedInv' /\ ShownInv'
    BY <2>1 DEF CheckedInv, ShownInv
  <2>4. CASE doc.blocks = << >>
    <3>1. cfg' = << >> /\ keys' = {}
      BY <1>1, <2>4 DEF Starts
    <3>2. TypeInv'
      BY <1>t, <2>1, <2>4, <3>1 DEF TypeInv, Stages, Outcomes
    <3>3. LoadInv'
      BY <3>1 DEF LoadInv
    <3> QED
      BY <2>2, <2>3, <3>2, <3>3 DEF IInv
  <2>5. CASE doc.blocks # << >>
    <3> DEFINE b == doc.blocks[1]
    <3>1. cfg' = << Blank(b) >> /\ keys' = KeysOf(b)
      BY <1>1, <2>5 DEF Starts
    <3>2. b \in Block /\ 1 <= Len(doc.blocks)
      BY <1>t, <2>5
    <3>3. Blank(b) \in Resource /\ Blank(b) = ReadWithout(b, KeysOf(b))
      BY <3>2, BlankType, BlankReads
    <3>4. cfg' \in Seq(Resource) /\ Len(cfg') = 1 /\ cfg'[1] = Blank(b)
      BY <3>1, <3>3
    <3>5. TypeInv'
      BY <1>t, <2>1, <2>5, <3>1, <3>2, <3>4 DEF TypeInv, Stages, Outcomes, Here
    <3>6. LoadInv'
      BY <2>1, <3>1, <3>3, <3>4 DEF LoadInv, Left
    <3> QED
      BY <2>2, <2>3, <3>5, <3>6 DEF IInv
  <2> QED
    BY <2>4, <2>5
<1>2. CASE DecodeKey
  <2>1. PICK k \in keys :
            /\ ~Undecodable(Here, k)
            /\ cfg' = [cfg EXCEPT ![at] = Decoded(cfg[at], Here, k)]
            /\ keys' = keys \ {k}
    BY <1>2 DEF DecodeKey
  <2>2. /\ stage = "decode"
        /\ UNCHANGED <<doc, cmd, mock, stage, at, done, shown, outcome, verdicts>>
    BY <1>2 DEF DecodeKey
  <2>3. /\ doc.blocks # << >> /\ at \in 1..Len(doc.blocks) /\ Len(cfg) = at
        /\ keys \subseteq KeysOf(Here) /\ Here \in Block
    BY <1>t, <2>1, <2>2 DEF TypeInv, Here
  <2>4. cfg[at] \in Resource /\ Decoded(cfg[at], Here, k) \in Resource
    BY <1>t, <2>1, <2>3, DecodedType
  <2>5. /\ cfg' \in Seq(Resource) /\ Len(cfg') = at
        /\ cfg'[at] = Decoded(cfg[at], Here, k)
        /\ \A i \in 1..Len(cfg) : i # at => cfg'[i] = cfg[i]
    BY <1>t, <2>1, <2>3, <2>4
  <2>6. TypeInv'
    BY <1>t, <2>1, <2>2, <2>3, <2>5 DEF TypeInv, Here
  <2>7. LoadInv'
    <3> SUFFICES ASSUME Unambiguous
                 PROVE  \A i \in 1..Len(cfg') :
                            /\ cfg'[i] = ReadWithout(doc.blocks[i], Left(i)')
                            /\ \A x \in KeysOf(doc.blocks[i]) \ Left(i)' : ~Undecodable(doc.blocks[i], x)
      BY <2>2 DEF LoadInv, Unambiguous
    <3>1. ASSUME NEW i \in 1..Len(cfg)
          PROVE  /\ cfg[i] = ReadWithout(doc.blocks[i], Left(i))
                 /\ \A x \in KeysOf(doc.blocks[i]) \ Left(i) : ~Undecodable(doc.blocks[i], x)
      BY <2>2 DEF IInv, LoadInv
    <3>2. \A i \in 1..Len(cfg) : Left(i) = IF i = at THEN keys ELSE {}
      BY <2>2 DEF Left
    <3>3. \A i \in 1..Len(cfg) : Left(i)' = IF i = at THEN keys \ {k} ELSE {}
      BY <2>1, <2>2 DEF Left
    <3>4. cfg'[at] = ReadWithout(Here, keys \ {k})
      <4>1. cfg[at] = ReadWithout(Here, keys)
        BY <2>3, <3>1, <3>2 DEF Here
      <4>2. DOMAIN Here.flat \cap DOMAIN Here.spec = {}
        BY <2>3 DEF Unambiguous, Here
      <4> QED
        BY <2>1, <2>3, <2>4, <2>5, <4>1, <4>2, DecodedReads
    <3>5. \A x \in KeysOf(Here) \ (keys \ {k}) : ~Undecodable(Here, x)
      BY <2>1, <2>3, <3>1, <3>2 DEF Here
    <3> TAKE i \in 1..Len(cfg')
    <3>6. i \in 1..Len(cfg)
      BY <2>3, <2>5
    <3>7. CASE i = at
      BY <2>3, <3>3, <3>4, <3>5, <3>6, <3>7 DEF Here
    <3>8. CASE i # at
      BY <2>5, <3>1, <3>2, <3>3, <3>6, <3>8
    <3> QED
      BY <3>7, <3>8
  <2>8. VerdictInv' /\ CheckedInv'
    BY <2>2 DEF IInv, VerdictInv, Fitting, CheckedInv, Good, Unambiguous,
       ValidBlocks, EncodableAsWritten
  <2>9. ShownInv'
    BY <2>2 DEF IInv, ShownInv
  <2> QED
    BY <2>6, <2>7, <2>8, <2>9 DEF IInv
<1>3. CASE DecodeFails
  <2>1. PICK k \in keys : Undecodable(Here, k)
    BY <1>3 DEF DecodeFails
  <2>2. /\ stage = "decode" /\ ExitsWith("undecodable")
        /\ UNCHANGED <<cfg, at, keys, done, shown>>
    BY <1>3 DEF DecodeFails
  <2>3. at \in 1..Len(doc.blocks) /\ k \in KeysOf(Here)
    BY <1>t, <2>1, <2>2 DEF TypeInv
  <2>4. ~Good
    BY <2>1, <2>3 DEF Good, Readable, Here
  <2> QED
    BY <1>t, <2>2, <2>4, ExitKeeps DEF Outcomes
<1>4. CASE DecodeNext
  <2> DEFINE b == doc.blocks[at + 1]
  <2>1. /\ stage = "decode" /\ keys = {} /\ at < Len(doc.blocks)
        /\ at' = at + 1 /\ cfg' = Append(cfg, Blank(b)) /\ keys' = KeysOf(b)
        /\ UNCHANGED <<doc, cmd, mock, stage, done, shown, outcome, verdicts>>
    BY <1>4 DEF DecodeNext
  <2>2. doc.blocks # << >> /\ at + 1 \in 1..Len(doc.blocks) /\ Len(cfg) = at /\ b \in Block
    BY <1>t, <2>1 DEF TypeInv
  <2>3. Blank(b) \in Resource /\ Blank(b) = ReadWithout(b, KeysOf(b))
    BY <2>2, BlankType, BlankReads
  <2>4. /\ cfg' \in Seq(Resource) /\ Len(cfg') = at + 1
        /\ cfg'[at + 1] = Blank(b)
        /\ \A i \in 1..at : cfg'[i] = cfg[i]
    BY <1>t, <2>1, <2>2, <2>3, AppendFacts
  <2>5. TypeInv'
    BY <1>t, <2>1, <2>2, <2>4 DEF TypeInv, Here
  <2>6. LoadInv'
    <3> SUFFICES ASSUME Unambiguous
                 PROVE  \A i \in 1..Len(cfg') :
                            /\ cfg'[i] = ReadWithout(doc.blocks[i], Left(i)')
                            /\ \A x \in KeysOf(doc.blocks[i]) \ Left(i)' : ~Undecodable(doc.blocks[i], x)
      BY <2>1 DEF LoadInv, Unambiguous
    <3>1. \A i \in 1..at : Left(i) = {} /\ Left(i)' = {}
      BY <1>t, <2>1 DEF Left
    <3>2. \A i \in {at + 1} : Left(i)' = KeysOf(b)
      BY <2>1 DEF Left
    <3>3. ASSUME NEW i \in 1..at
          PROVE  /\ cfg'[i] = ReadWithout(doc.blocks[i], {})
                 /\ \A x \in KeysOf(doc.blocks[i]) : ~Undecodable(doc.blocks[i], x)
      BY <2>1, <2>2, <2>4, <3>1 DEF IInv, LoadInv
    <3>4. 1..Len(cfg') = 1..at \cup {at + 1}
      BY <1>t, <2>4
    <3> TAKE i \in 1..Len(cfg')
    <3>5. CASE i \in 1..at
      BY <3>1, <3>3, <3>5
    <3>6. CASE i = at + 1
      <4>1. Left(i)' = KeysOf(b) /\ doc.blocks[i] = b /\ cfg'[i] = Blank(b)
        BY <2>4, <3>2, <3>6
      <4> QED
        BY <2>3, <4>1
    <3> QED
      BY <3>4, <3>5, <3>6
  <2>7. VerdictInv' /\ CheckedInv'
    BY <2>1 DEF IInv, VerdictInv, Fitting, CheckedInv, Good, Unambiguous,
       ValidBlocks, EncodableAsWritten
  <2>8. ShownInv'
    BY <2>1 DEF IInv, ShownInv
  <2> QED
    BY <2>5, <2>6, <2>7, <2>8 DEF IInv
<1>5. CASE DecodeEnds /\ Valid
  <2>1. /\ stage = "decode" /\ keys = {} /\ at >= Len(doc.blocks)
        /\ at' = 1
        /\ UNCHANGED <<cfg, keys, done, shown>>
    BY <1>5 DEF DecodeEnds, ExitsWith
  <2>2. /\ stage' = IF cmd = "validate" THEN "build" ELSE "open"
        /\ UNCHANGED <<doc, cmd, mock, outcome, verdicts>>
    BY <1>5 DEF DecodeEnds
  <2>3. Len(cfg) = Len(doc.blocks)
    BY <1>t, <2>1 DEF TypeInv
  <2>4. TypeInv'
    BY <1>t, <2>1, <2>2, <2>3 DEF TypeInv, Stages
  <2>5. LoadInv'
    <3>1. \A i \in 1..Len(cfg) : Left(i) = {} /\ Left(i)' = {}
      BY <2>1, <2>2 DEF Left
    <3> QED
      BY <2>1, <2>2, <3>1 DEF IInv, LoadInv, Unambiguous
  <2>6. CheckedInv'
    BY <1>5, <1>t, <2>1, <2>2 DEF CheckedInv, Valid
  <2>7. VerdictInv' /\ ShownInv'
    BY <2>1, <2>2 DEF IInv, VerdictInv, Fitting, ShownInv, Good, Unambiguous, ValidBlocks,
       EncodableAsWritten
  <2> QED
    BY <2>4, <2>5, <2>6, <2>7 DEF IInv
<1>6. CASE DecodeEnds /\ ~Valid
  <2>1. /\ stage = "decode" /\ keys = {} /\ at >= Len(doc.blocks)
        /\ ExitsWith("invalid") /\ at' = 1
        /\ UNCHANGED <<cfg, done, shown>>
    BY <1>6 DEF DecodeEnds
  <2>2. Len(cfg) = Len(doc.blocks)
    BY <1>t, <2>1 DEF TypeInv
  <2>3. Unambiguous => ~Good
    <3> SUFFICES ASSUME Unambiguous, ValidBlocks PROVE Valid
      BY <1>6 DEF Good
    <3>1. ASSUME NEW i \in 1..Len(cfg)
          PROVE  /\ cfg[i].kind = doc.blocks[i].kind
                 /\ cfg[i].name = doc.blocks[i].name
                 /\ cfg[i].addr = doc.blocks[i].addr
      <4> DEFINE b == doc.blocks[i]
      <4>1. cfg[i] = ReadWithout(b, Left(i))
        BY <2>1 DEF IInv, LoadInv
      <4> HIDE DEF b
      <4>2. cfg[i].kind = b.kind /\ cfg[i].name = b.name /\ cfg[i].addr = b.addr
        BY <4>1 DEF ReadWithout
      <4> QED
        BY <4>2 DEF b
    <3>2. cfg # << >>
      BY <1>t, <2>2 DEF ValidBlocks
    <3> QED
      BY <2>2, <3>1, <3>2 DEF Valid, ValidBlocks
  <2> QED
    BY <1>t, <2>1, <2>3, ExitKeeps DEF Outcomes
<1>7. CASE ValidateEnds
  <2>1. /\ stage = "build" /\ cmd = "validate"
        /\ UNCHANGED <<cfg, at, done, shown>>
    BY <1>7 DEF ValidateEnds
  <2>2. CASE ExitsWith("ok") /\ \A i \in 1..Len(cfg) : Buildable(cfg[i])
    <3>1. Unambiguous => Good
      BY <2>1, <2>2, LoadedGood
    <3> QED
      BY <1>t, <2>1, <2>2, <3>1, ExitKeeps DEF Outcomes
  <2>3. CASE ExitsWith("refused") /\ \E i \in 1..Len(cfg) : ~Buildable(cfg[i])
    <3>1. Unambiguous => ~Good
      BY <2>1, <2>3, LoadedGood
    <3> QED
      BY <1>t, <2>1, <2>3, <3>1, ExitKeeps DEF Outcomes
  <2> QED
    BY <1>7, <2>2, <2>3 DEF ValidateEnds
<1>8. CASE Build
  <2>1. /\ Reads /\ stage = "build" /\ at <= Len(cfg) /\ Buildable(cfg[at])
        /\ stage' = "read" /\ done' = {}
        /\ UNCHANGED <<doc, cmd, mock, cfg, at, keys, shown, outcome, verdicts>>
    BY <1>8 DEF Build
  <2>2. TypeInv'
    BY <1>t, <2>1 DEF TypeInv, Stages
  <2>3. LoadInv' /\ CheckedInv' /\ VerdictInv' /\ ShownInv'
    BY <2>1
    DEF IInv, LoadInv, Left, CheckedInv, Valid, VerdictInv, Fitting, ShownInv, Good,
        Unambiguous, ValidBlocks, EncodableAsWritten
  <2> QED
    BY <2>2, <2>3 DEF IInv
<1>9. CASE BuildFails
  <2>1. /\ Reads /\ stage = "build" /\ at <= Len(cfg) /\ ~Buildable(cfg[at])
        /\ ExitsWith("refused")
        /\ UNCHANGED <<cfg, at, done, shown>>
    BY <1>9 DEF BuildFails
  <2>2. Unambiguous => ~Good
    BY <1>t, <2>1, LoadedGood
  <2> QED
    BY <1>t, <2>1, <2>2, ExitKeeps DEF Outcomes
<1>10. CASE ReadNext
  <2>1. PICK a \in ToRead \ done : done' = done \cup {a}
    BY <1>10 DEF ReadNext
  <2>2. /\ stage = "read"
        /\ UNCHANGED <<doc, cmd, mock, stage, cfg, at, keys, shown, outcome, verdicts>>
    BY <1>10 DEF ReadNext
  <2>3. ToRead' = ToRead /\ ToRead \subseteq Attr
    BY <2>2, ToReadFacts DEF ToRead
  <2>4. TypeInv'
    BY <1>t, <2>1, <2>2, <2>3 DEF TypeInv
  <2>5. LoadInv' /\ CheckedInv' /\ VerdictInv' /\ ShownInv'
    BY <2>2
    DEF IInv, LoadInv, Left, CheckedInv, Valid, VerdictInv, Fitting, ShownInv, Good,
        Unambiguous, ValidBlocks, EncodableAsWritten
  <2> QED
    BY <2>4, <2>5 DEF IInv
<1>11. CASE ResourceDone
  <2> DEFINE row == [name |-> cfg[at].name, rows |-> done]
  <2>1. /\ stage = "read" /\ done = ToRead
        /\ at' = at + 1 /\ stage' = "build" /\ done' = {}
        /\ shown' = IF cmd = "show" THEN Append(shown, row) ELSE shown
        /\ UNCHANGED <<doc, cmd, mock, cfg, keys, outcome, verdicts>>
    BY <1>11 DEF ResourceDone
  <2>2. /\ at <= Len(cfg) /\ Len(cfg) = Len(doc.blocks) /\ Buildable(cfg[at])
        /\ cfg[at] \in Resource /\ shown \in Seq(ShownResource) /\ Len(shown) \in Nat
        /\ Len(shown) = IF cmd = "show" THEN at - 1 ELSE 0
    BY <1>t, <2>1 DEF IInv, TypeInv, ShownInv
  <2>3. cmd = "show" => row \in ShownResource
    <3>1. cfg[at].name \in Nat
      BY <2>2 DEF Resource
    <3>2. cmd = "show" => done \subseteq Getters \cup ProtocolAttrs
      BY <2>1, ToReadFacts
    <3> QED
      BY <3>1, <3>2 DEF ShownResource
  <2>4. cmd = "show" => DOMAIN cfg[at].spec \cup DOMAIN cfg[at].expect \subseteq row.rows
    BY <2>1, ToReadFacts
  <2>5. row.name = cfg[at].name
    OBVIOUS
  <2> HIDE DEF row
  <2>6. /\ shown' \in Seq(ShownResource)
        /\ Len(shown') = IF cmd = "show" THEN at ELSE 0
        /\ \A i \in 1..Len(shown') :
               \/ i \in 1..Len(shown) /\ shown'[i] = shown[i]
               \/ i = at /\ cmd = "show" /\ shown'[i] = row
    BY <1>t, <2>1, <2>2, <2>3, AppendFacts
  <2>7. TypeInv'
    BY <1>t, <2>1, <2>2, <2>6 DEF TypeInv, Stages
  <2>8. LoadInv' /\ VerdictInv'
    BY <2>1 DEF IInv, LoadInv, Left, VerdictInv, Fitting, Good, Unambiguous, ValidBlocks,
       EncodableAsWritten
  <2>9. CheckedInv'
    BY <1>t, <2>1, <2>2 DEF IInv, CheckedInv, Valid
  <2>10. ShownInv'
    <3>1. \A i \in 1..Len(shown') :
              /\ i <= Len(cfg)
              /\ shown'[i].name = cfg[i].name
              /\ DOMAIN cfg[i].spec \cup DOMAIN cfg[i].expect \subseteq shown'[i].rows
      BY <2>2, <2>4, <2>5, <2>6 DEF IInv, ShownInv
    <3> QED
      BY <1>t, <2>1, <2>2, <2>6, <3>1 DEF IInv, ShownInv
  <2> QED
    BY <2>7, <2>8, <2>9, <2>10 DEF IInv
<1>12. CASE Unreachable
  <2>1. ExitsWith("unreachable") /\ UNCHANGED <<cfg, at, done, shown>>
    BY <1>12 DEF Unreachable
  <2> QED
    BY <1>t, <2>1, ExitKeeps DEF Outcomes
<1>13. CASE EncodeFails
  <2>1. /\ stage = "read" /\ cmd = "plan"
        /\ ExitsWith("unencodable") /\ UNCHANGED <<cfg, at, done, shown>>
    BY <1>13 DEF EncodeFails
  <2>2. PICK a \in DOMAIN cfg[at].spec : ~Encodable(cfg[at], a)
    BY <1>13 DEF EncodeFails
  <2>3. Unambiguous => ~EncodableAsWritten
    BY <2>1, <2>2, LoadedUnencodable
  <2> QED
    BY <1>t, <2>1, <2>3, ExitKeeps DEF Outcomes
<1>14. CASE Ends
  <2>1. /\ stage = "build" /\ at > Len(cfg)
        /\ ExitsWith("ok") /\ UNCHANGED <<cfg, at, done, shown>>
    BY <1>14 DEF Ends
  <2>2. \A i \in 1..Len(cfg) : Buildable(cfg[i])
    BY <1>t, <2>1 DEF IInv, CheckedInv
  <2>3. Unambiguous => Good
    BY <2>1, <2>2, LoadedGood
  <2>4. cmd = "show" => Len(shown) = Len(doc.blocks)
    BY <1>t, <2>1 DEF IInv, TypeInv, ShownInv
  <2> QED
    BY <1>t, <2>1, <2>3, <2>4, ExitKeeps DEF Outcomes
<1>15. CASE Open
  <2>1. /\ stage = "open" /\ stage' = "build"
        /\ UNCHANGED <<doc, cmd, mock, cfg, at, keys, done, shown, outcome, verdicts>>
    BY <1>15 DEF Open
  <2>2. TypeInv'
    BY <1>t, <2>1 DEF TypeInv, Stages
  <2>3. LoadInv' /\ CheckedInv' /\ VerdictInv' /\ ShownInv'
    BY <2>1
    DEF IInv, LoadInv, Left, CheckedInv, Valid, VerdictInv, Fitting, ShownInv, Good,
        Unambiguous, ValidBlocks, EncodableAsWritten
  <2> QED
    BY <2>2, <2>3 DEF IInv
<1>16. CASE OpenFails
  <2>1. /\ stage = "open" /\ ~mock /\ ~doc.rpc
        /\ ExitsWith("unopened") /\ UNCHANGED <<cfg, at, done, shown>>
    BY <1>16 DEF OpenFails
  <2>2. cmd # "validate"
    BY <1>t, <2>1 DEF TypeInv
  <2> QED
    BY <1>t, <2>1, <2>2, ExitKeeps DEF Outcomes
<1>17. CASE UNCHANGED vars
  <2>1. /\ UNCHANGED <<doc, cmd, mock, stage, cfg, at, keys, done, shown, outcome, verdicts>>
        /\ Here' = Here /\ ToRead' = ToRead
    BY <1>17 DEF vars, Here, ToRead
  <2>2. TypeInv'
    BY <2>1 DEF IInv, TypeInv
  <2>3. LoadInv' /\ CheckedInv'
    BY <2>1 DEF IInv, LoadInv, Left, CheckedInv, Valid, Unambiguous
  <2>4. VerdictInv'
    BY <2>1 DEF IInv, VerdictInv, Fitting, Good, Unambiguous, ValidBlocks, EncodableAsWritten
  <2>5. ShownInv'
    BY <2>1 DEF IInv, ShownInv
  <2> QED
    BY <2>2, <2>3, <2>4, <2>5 DEF IInv
<1>18. CASE Run
  BY <1>1, <1>18 DEF Run
<1> QED
  BY <1>2, <1>3, <1>4, <1>5, <1>6, <1>7, <1>8, <1>9, <1>10, <1>11, <1>12, <1>13,
     <1>14, <1>15, <1>16, <1>17, <1>18 DEF Next

(* Every state is as the invariant says. *)
LEMMA SpecIInv == Spec => []IInv
BY InitIInv, NextIInv, PTL DEF Spec

-----------------------------------------------------------------------------
(* The theorems. *)

(* Every variable has its type; in particular, no object ever becomes the  *)
(* value of an attribute.                                                  *)
THEOREM TypeCorrect == Spec => []TypeOK
<1>1. IInv => TypeOK
  <2> SUFFICES ASSUME IInv PROVE TypeOK
    OBVIOUS
  <2>1. ASSUME NEW i \in 1..Len(cfg)
        PROVE  Values(cfg[i].spec) \cup Values(cfg[i].expect) \subseteq Raw
    <3>1. cfg[i] \in Resource
      BY DEF IInv, TypeInv
    <3>2. cfg[i].spec \in Partial(Attr, Raw) /\ cfg[i].expect \in Partial(Attr, Raw)
      BY <3>1 DEF Resource
    <3> QED
      BY <3>2, PartialFcn DEF Values
  <2>2. \A i \in 1..Len(shown) : shown[i].rows \subseteq Getters \cup ProtocolAttrs
    <3> TAKE i \in 1..Len(shown)
    <3>1. shown[i] \in ShownResource
      BY DEF IInv, TypeInv
    <3> QED
      BY <3>1 DEF ShownResource
  <2> QED
    BY <2>1, <2>2 DEF IInv, TypeInv, TypeOK, Verdicts
<1> QED
  BY SpecIInv, <1>1, PTL

(* In whatever order the keys came, the configuration a command works on   *)
(* is what the document says.                                              *)
THEOREM LoadsDeclared == Spec => []LoadsWhatIsDeclared
<1>1. IInv => LoadsWhatIsDeclared
  <2> SUFFICES ASSUME IInv, Unambiguous, stage \in {"open", "build", "read"},
                      NEW i \in 1..Len(cfg), NEW a \in Attr, NEW v \in Raw
               PROVE  /\ Says(cfg[i].spec, a, v) <=>
                             Says(doc.blocks[i].flat, a, v) \/ Says(doc.blocks[i].spec, a, v)
                      /\ Says(cfg[i].expect, a, v) <=> Says(doc.blocks[i].expect, a, v)
    BY DEF LoadsWhatIsDeclared
  <2> DEFINE b == doc.blocks[i]
  <2>1. cfg[i] = ReadWithout(b, {})
    BY DEF IInv, LoadInv, Left
  <2>2. DOMAIN b.flat \cap DOMAIN b.spec = {}
    BY DEF IInv, TypeInv, Unambiguous
  <2> HIDE DEF b
  <2>3. cfg[i].spec = SpecWithout(b, {}) /\ cfg[i].expect = b.expect
    BY <2>1 DEF ReadWithout, ExpectWithout
  <2>4. Says(SpecWithout(b, {}), a, v) <=> Says(b.flat, a, v) \/ Says(b.spec, a, v)
    BY <2>2 DEF Says, SpecWithout
  <2> QED
    BY <2>3, <2>4 DEF b
<1> QED
  BY SpecIInv, <1>1, PTL

(* What one command accepts, another refuses only for want of an endpoint  *)
(* or, if it is plan, for a value that fits no argument.                   *)
THEOREM RefusalsHaveCauses == Spec => []RefusedForCause
<1>1. IInv => RefusedForCause
  <2> SUFFICES ASSUME IInv, Unambiguous, NEW x \in verdicts, NEW y \in verdicts,
                      x.outcome = "ok", y.outcome # "ok"
               PROVE  \/ /\ y.outcome = "unopened" /\ y.cmd # "validate"
                         /\ ~y.mock /\ ~doc.rpc
                      \/ y.outcome = "unencodable" /\ y.cmd = "plan" /\ ~EncodableAsWritten
    BY DEF RefusedForCause
  <2>1. Fitting(x) /\ Fitting(y) /\ y \in Verdicts
    BY DEF IInv, TypeInv, VerdictInv
  <2>2. Good
    BY <2>1 DEF Fitting
  <2>3. y.outcome \in {"unopened", "unencodable"}
    BY <2>1, <2>2 DEF Fitting, Verdicts, Outcomes
  <2> QED
    BY <2>1, <2>3 DEF Fitting
<1> QED
  BY SpecIInv, <1>1, PTL

(* What show has printed has every value that plan would compare. *)
THEOREM ShowCovers == Spec => []ShowCoversPlan
<1>1. IInv => ShowCoversPlan
  BY DEF IInv, ShownInv, ShowCoversPlan
<1> QED
  BY SpecIInv, <1>1, PTL
=============================================================================
