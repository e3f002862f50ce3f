------------------------------ MODULE Commands ------------------------------
(***************************************************************************)
(* The commands that read a configuration document - validate, plan and    *)
(* show - run again and again on one document, each from the file to its   *)
(* exit code, all in one environment (env("RPC_URL") is set or it is not).  *)
(*                                                                         *)
(* A document is decoded key by key, in the order of a Go map, which is    *)
(* another one in every run.  Then Validate looks at the whole, and the    *)
(* command builds the resources: validate all of them at once, plan and    *)
(* show one after the other, with the chain read in between.  The values   *)
(* read do not matter here (Reconcile has them), only that a read may fail *)
(* and that a value may have to be encoded.                                *)
(***************************************************************************)
EXTENDS Report

CONSTANTS
    Documents,  \* the documents considered
    NoAddr,     \* the address of a block that gives none
    BadAddr     \* one that is no hex address

(* A value no attribute can have: an object, which stands for a struct. *)
Object == -1

(* The keys of a JSON resource next to its attributes. *)
SpecKey == 0
ExpectKey == -1

Given == Partial(Attr, Raw \cup {Object})

(* A resource as written: flat attributes, those under the key "spec"      *)
(* (JSON only), and those expected.  abi: the ABI file it names is there.  *)
Block ==
    [kind : {"contract", "protocol", "other", "none"}, name : Nat,
     addr : Addr \cup {NoAddr, BadAddr}, abi : BOOLEAN,
     flat : Given, spec : Given, expect : Given]

(* rpc: there is an endpoint, given or in the environment. *)
Document ==
    [format : {"json", "hcl"}, chainId : Nat, rpc : BOOLEAN, blocks : Seq(Block)]

ASSUME DocumentsAssumption ==
    /\ Documents \subseteq Document
    /\ \A d \in Documents : d.format = "hcl" =>
           \A i \in 1..Len(d.blocks) : DOMAIN d.blocks[i].spec = {}

ASSUME NamesAssumption == NoAddr \notin Addr /\ BadAddr \notin Addr \cup {NoAddr}

VARIABLES
    doc,        \* the document
    cmd,        \* the command that runs
    mock,       \* its flag --mock
    stage,      \* where it stands
    cfg,        \* the resources decoded so far, then the configuration
    at,         \* the resource at hand
    keys,       \* its keys still to be decoded
    done,       \* its attributes already read
    shown,      \* the resources show has printed
    outcome,    \* how the command ended
    verdicts    \* history: what the commands so far made of the document, and how

vars == <<doc, cmd, mock, stage, cfg, at, keys, done, shown, outcome, verdicts>>

Command == {"validate", "plan", "show"}
Stages == {"decode", "open", "build", "read", "exited"}
Outcomes ==
    {"none", "ok", "undecodable", "invalid", "unopened", "refused", "unreachable", "unencodable"}

Here == doc.blocks[at]

KeysOf(b) ==
    DOMAIN b.flat
        \cup (IF DOMAIN b.spec # {} THEN {SpecKey} ELSE {})
        \cup (IF DOMAIN b.expect # {} THEN {ExpectKey} ELSE {})

Blank(b) ==
    [kind |-> b.kind, name |-> b.name, addr |-> b.addr, abi |-> b.abi,
     spec |-> [a \in {} |-> 0], expect |-> [a \in {} |-> 0]]

Merged(f, g) ==
    [a \in DOMAIN f \cup DOMAIN g |-> IF a \in DOMAIN g THEN g[a] ELSE f[a]]

Values(f) == {f[a] : a \in DOMAIN f}

Starts(c, m) ==
    /\ cmd' = c
    /\ mock' = m
    /\ stage' = "decode"
    /\ at' = 1
    /\ cfg' = IF doc.blocks = << >> THEN << >> ELSE << Blank(doc.blocks[1]) >>
    /\ keys' = IF doc.blocks = << >> THEN {} ELSE KeysOf(doc.blocks[1])
    /\ done' = {}
    /\ shown' = << >>
    /\ outcome' = "none"
    /\ UNCHANGED <<doc, verdicts>>

Init ==
    /\ doc \in Documents
    /\ cmd = "validate"
    /\ mock = FALSE
    /\ stage = "exited"
    /\ cfg = << >>
    /\ at = 1
    /\ keys = {}
    /\ done = {}
    /\ shown = << >>
    /\ outcome = "none"
    /\ verdicts = {}

(* The command ends: exit code 0 or 1, or 2 and why.  Only a call that     *)
(* fails says nothing of the document.                                     *)
Verdict(o) ==
    IF o = "unreachable" THEN {} ELSE {[cmd |-> cmd, mock |-> mock, outcome |-> o]}

ExitsWith(o) ==
    /\ stage' = "exited"
    /\ outcome' = o
    /\ verdicts' = verdicts \cup Verdict(o)
    /\ UNCHANGED <<doc, cmd, mock>>

-----------------------------------------------------------------------------
(* Somebody runs a command; validate has no --mock. *)
Run ==
    /\ stage = "exited"
    /\ \E c \in Command, m \in BOOLEAN : (m => c # "validate") /\ Starts(c, m)

(* Mutant: the map under "spec" takes the place of what was decoded. *)
DecodedReplacing(r, b, k) ==
    CASE k = SpecKey   -> [r EXCEPT !.spec = b.spec]
      [] k = ExpectKey -> [r EXCEPT !.expect = b.expect]
      [] OTHER         -> [r EXCEPT !.spec = Merged(@, [a \in {k} |-> b.flat[k]])]

(* Resource r with key k of block b decoded: "spec" is merged key by key,  *)
(* "expect" is taken as it is, any other key is an attribute.              *)
Decoded(r, b, k) ==
    CASE k = SpecKey   -> [r EXCEPT !.spec = Merged(@, b.spec)]
      [] k = ExpectKey -> [r EXCEPT !.expect = b.expect]
      [] OTHER         -> [r EXCEPT !.spec = Merged(@, [a \in {k} |-> b.flat[k]])]

(* Mutant: objects are taken like any other value. *)
UndecodableNever(b, k) == FALSE

(* An object is no value of an attribute. *)
Undecodable(b, k) ==
    CASE k = SpecKey   -> Object \in Values(b.spec)
      [] k = ExpectKey -> Object \in Values(b.expect)
      [] OTHER         -> b.flat[k] = Object

(* decodeJSONResource and decodeResourceBody: the next key, in no order. *)
DecodeKey ==
    /\ stage = "decode"
    /\ \E k \in keys :
           /\ ~Undecodable(Here, k)
           /\ cfg' = [cfg EXCEPT ![at] = Decoded(@, Here, k)]
           /\ keys' = keys \ {k}
    /\ UNCHANGED <<doc, cmd, mock, stage, at, done, shown, outcome, verdicts>>

DecodeFails ==
    /\ stage = "decode"
    /\ \E k \in keys : Undecodable(Here, k)
    /\ ExitsWith("undecodable")
    /\ UNCHANGED <<cfg, at, keys, done, shown>>

DecodeNext ==
    /\ stage = "decode"
    /\ keys = {}
    /\ at < Len(doc.blocks)
    /\ at' = at + 1
    /\ cfg' = Append(cfg, Blank(doc.blocks[at + 1]))
    /\ keys' = KeysOf(doc.blocks[at + 1])
    /\ UNCHANGED <<doc, cmd, mock, stage, done, shown, outcome, verdicts>>

(* Config.Validate. *)
Valid ==
    /\ doc.chainId # 0
    /\ cfg # << >>
    /\ \A i \in 1..Len(cfg) : cfg[i].kind # "none" /\ cfg[i].name # 0 /\ cfg[i].addr # NoAddr
    /\ \A i, j \in 1..Len(cfg) : cfg[i].name = cfg[j].name => i = j

DecodeEnds ==
    /\ stage = "decode"
    /\ keys = {}
    /\ at >= Len(doc.blocks)
    /\ \/ /\ Valid
          /\ stage' = IF cmd = "validate" THEN "build" ELSE "open"
          /\ UNCHANGED <<doc, cmd, mock, outcome, verdicts>>
       \/ ~Valid /\ ExitsWith("invalid")
    /\ at' = 1
    /\ UNCHANGED <<cfg, keys, done, shown>>

(* The factory of the resource's type takes it. *)
Buildable(r) ==
    /\ Builds(r)
    /\ r.addr \in Addr
    /\ r.kind = "contract" => r.abi

(* Mutant: the schema is all that validate looks at. *)
ValidateSchema ==
    /\ stage = "build" /\ cmd = "validate"
    /\ ExitsWith("ok")
    /\ UNCHANGED <<cfg, at, keys, done, shown>>

(* validate builds every resource and is done. *)
ValidateEnds ==
    /\ stage = "build" /\ cmd = "validate"
    /\ \/ (\A i \in 1..Len(cfg) : Buildable(cfg[i])) /\ ExitsWith("ok")
       \/ (\E i \in 1..Len(cfg) : ~Buildable(cfg[i])) /\ ExitsWith("refused")
    /\ UNCHANGED <<cfg, at, keys, done, shown>>

-----------------------------------------------------------------------------
(* plan and show. *)

Reads == cmd \in {"plan", "show"}

(* openReader: --mock needs no endpoint, and nothing is built before. *)
Open ==
    /\ stage = "open"
    /\ mock \/ doc.rpc
    /\ stage' = "build"
    /\ UNCHANGED <<doc, cmd, mock, cfg, at, keys, done, shown, outcome, verdicts>>

OpenFails ==
    /\ stage = "open"
    /\ ~mock /\ ~doc.rpc
    /\ ExitsWith("unopened")
    /\ UNCHANGED <<cfg, at, keys, done, shown>>

Build ==
    /\ Reads /\ stage = "build" /\ at <= Len(cfg)
    /\ Buildable(cfg[at])
    /\ stage' = "read"
    /\ done' = {}
    /\ UNCHANGED <<doc, cmd, mock, cfg, at, keys, shown, outcome, verdicts>>

BuildFails ==
    /\ Reads /\ stage = "build" /\ at <= Len(cfg)
    /\ ~Buildable(cfg[at])
    /\ ExitsWith("refused")
    /\ UNCHANGED <<cfg, at, keys, done, shown>>

(* Mutant: a contract, too, is shown by its managed state. *)
RowsManaged(r) == DOMAIN r.spec

(* What show prints of a resource: every getter of a contract (Inspect),   *)
(* the attributes given for a protocol (Refresh).                          *)
Rows(r) == IF r.kind = "contract" THEN Getters ELSE DOMAIN r.spec

ToRead == IF cmd = "show" THEN Rows(cfg[at]) ELSE DOMAIN cfg[at].spec \cup DOMAIN cfg[at].expect

(* The endpoint cannot be dialled, or a call fails (as every call does     *)
(* that the reader behind --mock does not know).                           *)
Unreachable ==
    /\ \/ stage = "open" /\ ~mock /\ doc.rpc
       \/ stage = "read" /\ done # ToRead
    /\ ExitsWith("unreachable")
    /\ UNCHANGED <<cfg, at, keys, done, shown>>

ReadNext ==
    /\ stage = "read"
    /\ \E a \in ToRead \ done :
           /\ \A b \in ToRead \ done : a <= b
           /\ done' = done \cup {a}
    /\ UNCHANGED <<doc, cmd, mock, stage, cfg, at, keys, shown, outcome, verdicts>>

(* Everything was read: show prints the resource, plan plans it. *)
ResourceDone ==
    /\ stage = "read"
    /\ done = ToRead
    /\ at' = at + 1
    /\ stage' = "build"
    /\ done' = {}
    /\ shown' = IF cmd = "show" THEN Append(shown, [name |-> cfg[at].name, rows |-> done])
                                ELSE shown
    /\ UNCHANGED <<doc, cmd, mock, cfg, keys, outcome, verdicts>>

(* A managed attribute has drifted, and its value fits no argument. *)
EncodeFails ==
    /\ stage = "read" /\ cmd = "plan"
    /\ done = ToRead
    /\ \E a \in DOMAIN cfg[at].spec : ~Encodable(cfg[at], a)
    /\ ExitsWith("unencodable")
    /\ UNCHANGED <<cfg, at, keys, done, shown>>

(* The last resource is done: plan prints its plan, drift or not. *)
Ends ==
    /\ Reads /\ stage = "build" /\ at > Len(cfg)
    /\ ExitsWith("ok")
    /\ UNCHANGED <<cfg, at, keys, done, shown>>

Next ==
    \/ Run
    \/ DecodeKey \/ DecodeFails \/ DecodeNext \/ DecodeEnds
    \/ ValidateEnds
    \/ Open \/ OpenFails \/ Build \/ BuildFails
    \/ ReadNext \/ ResourceDone \/ Unreachable \/ EncodeFails \/ Ends

Spec == Init /\ [][Next]_vars

-----------------------------------------------------------------------------
(* Properties. *)

(* Every variable has its type. *)
TypeOK ==
    /\ doc \in Documents
    /\ cmd \in Command
    /\ mock \in BOOLEAN
    /\ stage \in Stages
    /\ \A i \in 1..Len(cfg) : Values(cfg[i].spec) \cup Values(cfg[i].expect) \subseteq Raw
    /\ at \in 1..(Len(doc.blocks) + 1)
    /\ stage \in {"open", "build", "read"} => keys = {} /\ Len(cfg) = Len(doc.blocks)
    /\ done \subseteq Attr
    /\ \A i \in 1..Len(shown) : shown[i].rows \subseteq Getters \cup ProtocolAttrs
    /\ outcome \in Outcomes
    /\ verdicts \subseteq
           [cmd : Command, mock : BOOLEAN, outcome : Outcomes \ {"none", "unreachable"}]

(* No attribute is given both as a flat key and under "spec".  When one    *)
(* is, with two values, the order of a Go map decides which one counts.    *)
Unambiguous == \A i \in 1..Len(doc.blocks) :
    DOMAIN doc.blocks[i].flat \cap DOMAIN doc.blocks[i].spec = {}

(* What the document says, read as a whole. *)
Says(b, a, v) == a \in DOMAIN b /\ b[a] = v

(* "Both formats map to the same schema": the configuration a command      *)
(* works on is what is written, flat or under "spec", in JSON or in HCL,   *)
(* in whatever order the keys came (load.go decodeJSONResource).           *)
LoadsWhatIsDeclared ==
    Unambiguous /\ stage \in {"open", "build", "read"} =>
        \A i \in 1..Len(cfg) : \A a \in Attr, v \in Raw :
            LET b == doc.blocks[i]
            IN  /\ Says(cfg[i].spec, a, v) <=> Says(b.flat, a, v) \/ Says(b.spec, a, v)
                /\ Says(cfg[i].expect, a, v) <=> Says(b.expect, a, v)

(* Each value given for an attribute fits the setter's argument. *)
EncodableAsWritten ==
    \A i \in 1..Len(doc.blocks) :
        LET b == doc.blocks[i]
        IN  \A f \in {b.flat, b.spec} : \A a \in DOMAIN f :
                Encodable([kind |-> b.kind, spec |-> f], a)

(* When one command accepts a document, however often and in whatever      *)
(* order they are run, another refuses it for two reasons only (a call     *)
(* that fails is no refusal): plan or show, without --mock, because it has *)
(* no endpoint; and plan because a value fits no setter's argument, which  *)
(* nothing looks at before it has drifted.  So what plan or show accepts,  *)
(* validate does not refuse; and what validate accepts may fail later, but *)
(* only for what validate does not look at (validate.go ValidateConfig,    *)
(* root.go openReader, planner.go, show.go).                               *)
RefusedForCause ==
    Unambiguous => \A x, y \in verdicts : x.outcome = "ok" /\ y.outcome # "ok" =>
        \/ y.outcome = "unopened" /\ y.cmd # "validate" /\ ~y.mock /\ ~doc.rpc
        \/ y.outcome = "unencodable" /\ y.cmd = "plan" /\ ~EncodableAsWritten

(* What show has printed, even before it fails, is whole resources in the  *)
(* order of the document, each with every value that plan would compare;   *)
(* when it exits with 0 none is missing (show.go, Inspect).                *)
ShowCoversPlan ==
    /\ \A i \in 1..Len(shown) :
           /\ shown[i].name = cfg[i].name
           /\ DOMAIN cfg[i].spec \cup DOMAIN cfg[i].expect \subseteq shown[i].rows
    /\ cmd = "show" /\ outcome = "ok" => Len(shown) = Len(doc.blocks)
=============================================================================
