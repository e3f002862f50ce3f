------------------------------ MODULE Workflow ------------------------------
(***************************************************************************)
(* The loop around `chainform export`: people edit the configuration, run  *)
(* export into one shared file, load that file into the Safe, sign and     *)
(* execute, and start over.                                                *)
(*                                                                         *)
(* Nothing ties the steps together.  An export reads the chain attribute   *)
(* by attribute, empties the file (os.Create) and only then writes to it;  *)
(* two exports may do so at once.  A batch waits in the Safe while the     *)
(* chain, the file and the configuration move on; it may be loaded twice,  *)
(* executed out of order, or rejected.  The endpoint an export reads from  *)
(* may be of another chain, since nobody asks it for its chain id.         *)
(***************************************************************************)
EXTENDS Report, Batch, FiniteSets

CONSTANTS
    User,       \* the people, or CI jobs, who export
    Configs,    \* the versions of the configuration
    Genesis,    \* the chain states considered at the start
    Elsewhere,  \* the state of the chain a wrong endpoint reads
    MaxQueue,   \* bound: batches waiting in the Safe
    MaxFaults   \* bound: edits, foreign writes, failures and mistakes

ASSUME ConfigsAssumption ==
    /\ Configs \subseteq Seq(ResourceConfig)
    /\ \A c \in Configs : c # << >> /\ Accepted(c) /\ FitsSetters(c) /\ Unaliased(c)

ASSUME ChainAssumption == Genesis \subseteq ChainState /\ Elsewhere \in ChainState

ASSUME BoundAssumption == MaxQueue \in Nat \ {0} /\ MaxFaults \in Nat

VARIABLES
    chain,      \* what the contracts hold
    declared,   \* the configuration file's current version
    run,        \* for each user, the export under way
    file,       \* the output file, batch.json
    queue,      \* the batches loaded into the Safe and not yet executed
    faults      \* how many faults there have been

vars == <<chain, declared, run, file, queue, faults>>

(* What an export writes: the operations.  The configuration and the       *)
(* values they were planned from are history: no guard looks at them once  *)
(* the batch is planned.                                                   *)
NothingPlanned == [cfg |-> << >>, saw |-> NothingRead, ops |-> << >>]

(* alone is history: since this export emptied the file, no other export   *)
(* has had it open.                                                        *)
Idle == [step |-> "idle", stray |-> FALSE, alone |-> FALSE, plan |-> NothingPlanned]

(* The length of a batch document: a set operation carries an argument.    *)
OpSize(op) == IF op.method = "set" THEN 2 ELSE 1
Size(ops) ==
    1 + Len(ops) + Cardinality({k \in 1..Len(ops) : OpSize(ops[k]) = 2})

EmptyFile == [size |-> 0, whole |-> FALSE, plan |-> NothingPlanned]

Init ==
    /\ chain \in Genesis
    /\ declared \in Configs
    /\ run = [u \in User |-> Idle]
    /\ file = EmptyFile
    /\ queue = << >>
    /\ faults = 0

-----------------------------------------------------------------------------
(* What goes wrong, or merely changes, a bounded number of times.          *)

Fault == faults < MaxFaults /\ faults' = faults + 1

(* Another account writes to a contract. *)
ForeignWrite ==
    /\ Fault
    /\ \E s \in Slot : \E v \in ValuesOf(s[2]) \ {chain[s]} :
           chain' = [chain EXCEPT ![s] = v]
    /\ UNCHANGED <<declared, run, file, queue>>

(* A change to the configuration is merged. *)
Edit ==
    /\ Fault
    /\ declared' \in Configs \ {declared}
    /\ UNCHANGED <<chain, run, file, queue>>

(* A signer rejects a batch. *)
Reject(k) ==
    /\ Fault
    /\ queue' = [j \in 1..(Len(queue) - 1) |-> IF j < k THEN queue[j] ELSE queue[j + 1]]
    /\ UNCHANGED <<chain, declared, run, file>>

(* buildPlan fails: no plan, and the file is not touched. *)
ExportFails(u) ==
    /\ run[u].step = "reading"
    /\ Fault
    /\ run' = [run EXCEPT ![u] = Idle]
    /\ UNCHANGED <<chain, declared, file, queue>>

(* The export is killed, or its write fails, once the file is open.  What  *)
(* a full disk lets through is the part up to some length.                 *)
ExportDies(u) ==
    /\ run[u].step = "created"
    /\ Fault
    /\ run' = [run EXCEPT ![u] = Idle]
    /\ \/ UNCHANGED file
       \/ \E n \in (file.size + 1)..(Size(run[u].plan.ops) - 1) :
              file' = [size |-> n, whole |-> FALSE, plan |-> NothingPlanned]
    /\ UNCHANGED <<chain, declared, queue>>

-----------------------------------------------------------------------------
(* One export. *)

(* buildPlan loads the configuration, then dials whatever endpoint it      *)
(* names.                                                                  *)
Begin(u) ==
    /\ run[u].step = "idle"
    /\ \E stray \in BOOLEAN :
           /\ IF stray THEN Fault ELSE UNCHANGED faults
           /\ run' = [run EXCEPT ![u] =
                         [Idle EXCEPT !.step = "reading", !.stray = stray,
                                      !.plan.cfg = declared]]
    /\ UNCHANGED <<chain, declared, file, queue>>

(* The next attribute is read, and compared. *)
Read(u) ==
    /\ run[u].step = "reading"
    /\ LET c == run[u].plan.cfg
           saw == run[u].plan.saw
           state == IF run[u].stray THEN Elsewhere ELSE chain
       IN  \E p \in NextRead(c, saw) :
               run' = [run EXCEPT
                   ![u].plan.saw = WithRead(c, saw, p, state),
                   ![u].plan.ops = WithOp(c, @, p, Observed(c, p, state))]
    /\ UNCHANGED <<chain, declared, file, queue, faults>>

(* Mutant: the file is opened, and the plan written, as soon as it can be. *)
PlannedEarly(u) == run[u].step = "reading"

(* The plan is there: os.Create empties the file, whoever has it open. *)
Planned(u) ==
    /\ run[u].step = "reading"
    /\ ReadAll(run[u].plan.cfg, run[u].plan.saw)

Opened(u) ==
    run' = [w \in User |->
        IF w = u THEN [run[u] EXCEPT !.step = "created", !.stray = FALSE,
                          !.alone = \A x \in User \ {u} : run[x].step # "created"]
        ELSE [run[w] EXCEPT !.alone = FALSE]]

(* Mutant: the file is opened without O_TRUNC. *)
CreateKeeping(u) ==
    /\ Planned(u)
    /\ Opened(u)
    /\ UNCHANGED <<chain, declared, file, queue, faults>>

Create(u) ==
    /\ Planned(u)
    /\ Opened(u)
    /\ file' = EmptyFile
    /\ UNCHANGED <<chain, declared, queue, faults>>

(* The batch is encoded in one write from the start of the file: what was  *)
(* there beyond its end stays.                                             *)
Write(u) ==
    /\ run[u].step = "created"
    /\ LET p == run[u].plan
           n == Size(p.ops)
       IN  file' = IF file.size <= n
                   THEN [size |-> n, whole |-> TRUE, plan |-> p]
                   ELSE [size |-> file.size, whole |-> FALSE, plan |-> NothingPlanned]
    /\ run' = [run EXCEPT ![u] = Idle]
    /\ UNCHANGED <<chain, declared, queue, faults>>

-----------------------------------------------------------------------------
(* The Safe. *)

(* The file is loaded if it is a batch, and has a transaction in it. *)
Load ==
    /\ file.whole
    /\ file.plan.ops # << >>
    /\ Len(queue) < MaxQueue
    /\ queue' = Append(queue, file.plan)
    /\ UNCHANGED <<chain, declared, run, file, faults>>

(* A batch is executed, as a whole or not at all. *)
Execute(k) ==
    /\ chain' = After(queue[k].ops, chain)
    /\ queue' = [j \in 1..(Len(queue) - 1) |-> IF j < k THEN queue[j] ELSE queue[j + 1]]
    /\ UNCHANGED <<declared, run, file, faults>>

-----------------------------------------------------------------------------
Export(u) == Begin(u) \/ Read(u) \/ Create(u) \/ Write(u)

Next ==
    \/ ForeignWrite \/ Edit
    \/ \E u \in User : ExportFails(u) \/ ExportDies(u) \/ Export(u)
    \/ Load
    \/ \E k \in 1..Len(queue) : Execute(k) \/ Reject(k)

(* People keep walking through the loop the guide describes: every export  *)
(* goes on, a file that is there to be loaded again and again is loaded,   *)
(* and a batch in the Safe does not wait for ever.                         *)
Spec ==
    /\ Init /\ [][Next]_vars
    /\ \A u \in User : WF_vars(Export(u))
    /\ SF_vars(Load)
    /\ WF_vars(\E k \in 1..Len(queue) : Execute(k))

-----------------------------------------------------------------------------
(* Properties. *)

(* A plan: what was read of a configuration, and the operations for it.    *)
PlanOK(p) ==
    /\ p.cfg \in Configs \cup {<< >>}
    /\ DOMAIN p.saw \subseteq Declared(p.cfg)
    /\ \A d \in DOMAIN p.saw : p.saw[d] \in Nat
    /\ p.ops \in Seq({OpFor(p.cfg, d[1], d[2]) : d \in Managed(p.cfg)})

Finished(p) == p.cfg # << >> /\ ReadAll(p.cfg, p.saw)

(* Every variable has its type; what is loaded, and what a file holds that *)
(* can be, is a plan read to its end.                                      *)
TypeOK ==
    /\ chain \in ChainState
    /\ declared \in Configs
    /\ \A u \in User :
           /\ run[u].step \in {"idle", "reading", "created"}
           /\ run[u].stray \in BOOLEAN
           /\ run[u].alone \in BOOLEAN
           /\ PlanOK(run[u].plan)
    /\ file.size \in Nat
    /\ file.whole \in BOOLEAN
    /\ PlanOK(file.plan)
    /\ file.whole => Finished(file.plan)
    /\ Len(queue) <= MaxQueue
    /\ \A k \in 1..Len(queue) : PlanOK(queue[k]) /\ Finished(queue[k])
    /\ faults \in 0..MaxFaults

(* A batch changes a slot only to the value that the configuration it was  *)
(* exported from declares for it, however old it is, however often it was  *)
(* loaded and whatever endpoint was read: an operation says what to set,   *)
(* never by how much (protocol.go and contract.go Plan, safe.go).          *)
ExecutionSetsDeclared ==
    [][\A k \in 1..Len(queue) : Execute(k) =>
          \A s \in Slot : chain'[s] # chain[s] =>
              \E p \in Managed(queue[k].cfg) :
                  /\ SlotOf(queue[k].cfg, p) = s
                  /\ chain'[s] = queue[k].cfg[p[1]].spec[p[2]]]_vars

(* A batch in the Safe goes through and brings the chain to what it was    *)
(* planned for if the attributes it manages are now as its export saw them *)
(* - even if they moved meanwhile and moved back, if other exports and     *)
(* other batches came between, or if another chain was read.               *)
QueuedStillFits ==
    \A k \in 1..Len(queue) :
        LET q == queue[k]
        IN  (\A p \in Managed(q.cfg) : Observed(q.cfg, p, chain) = q.saw[p])
            => /\ Executes(q.ops, chain)
               /\ \A p \in Managed(q.cfg) :
                      Matches(q.cfg, p, Observed(q.cfg, p, After(q.ops, chain)))

(* An export that had the file to itself since it opened it leaves its own *)
(* batch there, whatever the file held before: a longer batch, an empty    *)
(* file or half of one (commands.go newExportCmd).                         *)
ExportReplaces ==
    [][\A u \in User : Write(u) /\ run[u].alone =>
          file'.whole /\ file'.plan = run[u].plan]_vars

(* The chain is as the configuration in force declares. *)
InSync ==
    \A p \in Managed(declared) : Matches(declared, p, Observed(declared, p, chain))

(* "When the change lands, plan returns to No drift and your CI gate goes  *)
(* green": once nothing goes wrong any more, the loop brings the chain to  *)
(* the configuration and keeps it there, though stale batches may still    *)
(* be executed and exports still overwrite each other's file.              *)
Converges == <>[]InSync
=============================================================================
