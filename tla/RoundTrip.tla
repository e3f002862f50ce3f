----------------------------- MODULE RoundTrip -----------------------------
(***************************************************************************)
(* One attribute of a contract and the file that declares it: import       *)
(* writes the file, people edit it, plan compares it with the chain, and   *)
(* the batch a plan exports is executed, while other accounts write to the *)
(* attribute.                                                              *)
(***************************************************************************)
EXTENDS Values

CONSTANTS
    Types,              \* the attribute's possible types
    ChainValues(_),     \* the values considered of a type
    Declarations,       \* what people may write for the attribute
    MaxWrites           \* bound: the number of writes by other accounts

ASSUME BoundAssumption == MaxWrites \in Nat

(* The getters of a contract return values of their types. *)
ASSUME TypesAssumption ==
    \A t \in Types : t \in AbiType /\ \A v \in ChainValues(t) : IsChainValue(t, v)

ASSUME DeclarationsAssumption == \A d \in Declarations : IsGoValue(d)

VARIABLES
    typ,        \* the attribute's ABI type
    onchain,    \* its value
    writes,     \* how often others wrote it
    file,       \* the configuration file: its format and the declared value
    step,       \* where the running command stands
    held,       \* import: the value it read; plan: the canonical desired one
    verdict,    \* what the last plan said
    batch,      \* the exported batch: the canonical value it sets
    imported    \* history: the file is import's, of the value now on chain

vars == <<typ, onchain, writes, file, step, held, verdict, batch, imported>>

Nothing == Go("nil", FALSE, << >>)
File(format, c) == [format |-> format, declared |-> c]
EmptyFile == File("hcl", Nothing)

Init ==
    /\ typ \in Types
    /\ onchain \in ChainValues(typ)
    /\ writes = 0
    /\ file = EmptyFile
    /\ step = "idle"
    /\ held = Nothing
    /\ verdict = "unknown"
    /\ batch = Nothing
    /\ imported = FALSE

ForeignWrite ==
    /\ writes < MaxWrites
    /\ \E v \in ChainValues(typ) \ {onchain} : onchain' = v
    /\ writes' = writes + 1
    /\ imported' = FALSE
    /\ verdict' = "unknown"
    /\ UNCHANGED <<typ, file, step, held, batch>>

(* Somebody edits the file between two commands.  (A hex literal declared  *)
(* for a string is a string like any other.)                               *)
Edit ==
    /\ step = "idle"
    /\ \E f \in {"hcl", "json"}, d \in Declarations :
         /\ d.type = "hex" => typ.kind # "string"
         /\ file' = File(f, d)
    /\ imported' = FALSE
    /\ verdict' = "unknown"
    /\ UNCHANGED <<typ, onchain, writes, step, held, batch>>

-----------------------------------------------------------------------------
(* import *)

(* The getter is read; nothing has been written yet. *)
ImportRead ==
    /\ step = "idle"
    /\ step' = "read"
    /\ held' = GoToCty(Decoded(typ, onchain))
    /\ imported' = TRUE
    /\ verdict' = "unknown"
    /\ UNCHANGED <<typ, onchain, writes, file, batch>>

(* Another getter cannot be read, or the file cannot be created. *)
ImportFails ==
    /\ step = "read"
    /\ step' = "idle"
    /\ held' = Nothing
    /\ imported' = FALSE
    /\ UNCHANGED <<typ, onchain, writes, file, verdict, batch>>

(* os.Create empties the file that was there. *)
ImportCreate ==
    /\ step = "read"
    /\ step' = "created"
    /\ file' = EmptyFile
    /\ UNCHANGED <<typ, onchain, writes, held, verdict, batch, imported>>

(* WriteResource, or the process ends before it. *)
ImportWrite ==
    /\ step = "created"
    /\ step' = "idle"
    /\ file' = File("hcl", held)
    /\ held' = Nothing
    /\ UNCHANGED <<typ, onchain, writes, verdict, batch, imported>>

ImportDies ==
    /\ step = "created"
    /\ step' = "idle"
    /\ held' = Nothing
    /\ imported' = FALSE
    /\ UNCHANGED <<typ, onchain, writes, file, verdict, batch>>

-----------------------------------------------------------------------------
(* plan, and export of what it finds *)

Desired == Loaded(file.format, file.declared)

(* The file is loaded and the resource built. *)
Build ==
    /\ step = "idle"
    /\ Accepts(typ, Desired)
    /\ step' = "built"
    /\ held' = Canonical(typ, Desired)
    /\ verdict' = "unknown"
    /\ UNCHANGED <<typ, onchain, writes, file, batch, imported>>

BuildFails ==
    /\ step = "idle"
    /\ ~Accepts(typ, Desired)
    /\ verdict' = "refused"
    /\ UNCHANGED <<typ, onchain, writes, file, step, held, batch, imported>>

(* Refresh and Plan.  One read: nothing happens in between. *)
Observed == Canonical(typ, Decoded(typ, onchain))

NoDrift ==
    /\ step = "built"
    /\ held = Observed
    /\ verdict' = "no drift"
    /\ step' = "idle"
    /\ held' = Nothing
    /\ UNCHANGED <<typ, onchain, writes, file, batch, imported>>

Drift ==
    /\ step = "built"
    /\ held # Observed
    /\ HasSetterArg(typ, held)
    /\ verdict' = "drift"
    /\ batch' = held
    /\ step' = "idle"
    /\ held' = Nothing
    /\ UNCHANGED <<typ, onchain, writes, file, imported>>

PlanFails ==
    /\ step = "built"
    /\ held # Observed
    /\ ~HasSetterArg(typ, held)
    /\ verdict' = "failed"
    /\ step' = "idle"
    /\ held' = Nothing
    /\ UNCHANGED <<typ, onchain, writes, file, batch, imported>>

(* The batch is executed, or reverts and leaves the chain alone. *)
Execute ==
    /\ batch # Nothing
    /\ onchain' = IF Fits(typ, batch.val) THEN batch.val ELSE onchain
    /\ batch' = Nothing
    /\ imported' = (imported /\ onchain' = onchain)
    /\ verdict' = "unknown"
    /\ UNCHANGED <<typ, writes, file, step, held>>

Next ==
    \/ ForeignWrite \/ Edit
    \/ ImportRead \/ ImportFails \/ ImportCreate \/ ImportWrite \/ ImportDies
    \/ Build \/ BuildFails \/ NoDrift \/ Drift \/ PlanFails
    \/ Execute

Spec == Init /\ [][Next]_vars

-----------------------------------------------------------------------------
(* Properties. *)

(* The types of the variables. *)
TypeOK ==
    /\ typ \in Types
    /\ onchain \in Seq(Int) /\ Fits(typ, onchain) /\ SizeFits(typ, onchain)
    /\ writes \in 0..MaxWrites
    /\ step \in {"idle", "read", "created", "built"}
    /\ verdict \in {"unknown", "refused", "no drift", "drift", "failed"}
    /\ batch # Nothing => HasSetterArg(typ, batch)

(* Whatever a contract holds and whoever wrote it, Refresh can take it:    *)
(* canonical has a form for every value of every supported type            *)
(* (value.go, types.go).                                                   *)
RefreshAccepts == Accepts(typ, Decoded(typ, onchain))

(* The value survives the file: its numbers are ints, its strings in       *)
(* normal form, and it is not a list of uint8.                             *)
SurvivesFile(t, v) ==
    CASE t.kind = "num"    -> /\ \A k \in DOMAIN v : IsInt(v[k])
                              /\ ~(t.list /\ IsByteNumber(t))
      [] t.kind = "string" -> Map(Composed, v) = v
      [] OTHER             -> TRUE

(* "an immediate plan against the same state reports no drift", for the    *)
(* values that survive the file, also after a batch that reverted          *)
(* (import.go).                                                            *)
ImportedValueSurvives ==
    imported /\ SurvivesFile(typ, onchain) => verdict \in {"unknown", "no drift"}

(* What a plan answers is about what the file declares: it compares and    *)
(* sets that number itself when an int can hold it - the conversions on    *)
(* the way lose nothing - and to a file that declares nothing, such as one *)
(* an import emptied and left, it answers neither that the chain matches   *)
(* nor that it drifted.  A value whose batch reverts is never reported as  *)
(* set (load.go, value.go, import.go).                                     *)
VerdictIsDeclared ==
    verdict \in {"drift", "no drift"} =>
        /\ file.declared # Nothing
        /\ file.declared.type = "number"
             /\ (\A k \in DOMAIN file.declared.val : IsInt(file.declared.val[k]))
           => IF verdict = "drift" THEN batch.val = file.declared.val
                                   ELSE onchain = file.declared.val

(* A batch that was executed and did not revert leaves the chain with the  *)
(* value the plan wanted: the next refresh finds its canonical form.       *)
ExecutionSettles ==
    [][Execute /\ onchain' # onchain => Observed' = batch]_vars

(* "converge actual state to desired state": what a plan sets is the       *)
(* number the file declares (concepts.md).                                 *)
DesiredIsDeclared ==
    verdict = "drift" /\ file.declared.type = "number" => batch.val = file.declared.val
=============================================================================
