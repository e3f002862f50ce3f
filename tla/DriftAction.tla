---------------------------- MODULE DriftAction ----------------------------
(***************************************************************************)
(* The GitHub action around `chainform plan` (action.yml), in a job that   *)
(* may use it several times and that is scheduled again and again.         *)
(*                                                                         *)
(* A use of the action installs the binary, runs plan into a text file,    *)
(* runs it once more for the JSON file when asked to, classifies the exit  *)
(* code of the first run alone, writes the outputs and gates the job.  The *)
(* chain moves all the while.  The files are in RUNNER_TEMP, under one     *)
(* name each: the uses of one job share them.                              *)
(***************************************************************************)
EXTENDS Report

CONSTANTS
    Jobs,       \* the jobs considered: sequences of uses of the action
    Genesis     \* the chain states considered at the start

(* A use: the configuration and the inputs that matter. *)
Use == [cfg : Seq(ResourceConfig), json : BOOLEAN, failOnDrift : BOOLEAN]

ASSUME JobsAssumption == Jobs \subseteq Seq(Use) /\ << >> \notin Jobs

ASSUME ChainAssumption == Genesis \subseteq ChainState

VARIABLES
    chain,      \* what the contracts hold
    job,        \* the uses of the action in the job
    at,         \* the use under way
    step,       \* where it stands
    saw,        \* what the plan run under way has read
    code,       \* the exit code of the text run
    files,      \* the text and the JSON plan file in RUNNER_TEMP
    outputs,    \* the outputs of each use so far
    result,     \* the job's result
    read,       \* history: what the text run of each use read
    moved       \* history: the chain moved since this use's text run began

control == <<job, at, step, result>>
history == <<read, moved>>
vars == <<chain, job, at, step, saw, code, files, outputs, result, read, moved>>

Running == "running"
Steps == {"install", "text", "json", "classify", "gate", "over"}

NoCode == -1
NoOutputs == [drift |-> FALSE, code |-> NoCode]

(* A file holds nothing, or the plan of one use, told by what was read. *)
Blank == [use |-> 0, saw |-> NothingRead]

Cfg == job[at].cfg

Begun(j) ==
    /\ job = j
    /\ at = 1
    /\ step = "install"
    /\ saw = NothingRead
    /\ code = NoCode
    /\ files = [text |-> Blank, json |-> Blank]
    /\ outputs = [i \in 1..Len(j) |-> NoOutputs]
    /\ result = Running
    /\ read = [i \in 1..Len(j) |-> NothingRead]
    /\ moved = FALSE

Init == chain \in Genesis /\ \E j \in Jobs : Begun(j)

-----------------------------------------------------------------------------
(* Other accounts write to the chain, at any time and without end. *)
ForeignWrite ==
    /\ \E s \in Slot : \E v \in ValuesOf(s[2]) \ {chain[s]} :
           chain' = [chain EXCEPT ![s] = v]
    /\ moved' = (moved \/ step \notin {"install", "over"})
    /\ UNCHANGED <<control, saw, code, files, outputs, read>>

(* The job ends: the uses that follow are skipped. *)
EndsAs(r) == step' = "over" /\ result' = r /\ UNCHANGED <<job, at>>

(* The release is downloaded and checked, or built; then tee opens, and    *)
(* empties, the text file.                                                 *)
Install ==
    /\ step = "install"
    /\ step' = "text"
    /\ files' = [files EXCEPT !.text = Blank]
    /\ saw' = NothingRead
    /\ moved' = FALSE
    /\ UNCHANGED <<chain, job, at, result, code, outputs, read>>

(* No release of that version, no asset for this runner, a wrong checksum. *)
InstallFails ==
    /\ step = "install"
    /\ EndsAs("failure")
    /\ UNCHANGED <<chain, saw, code, files, outputs, history>>

-----------------------------------------------------------------------------
(* The two runs of plan. *)

Planning == step \in {"text", "json"}

(* The next attribute is read, of a resource that could be built. *)
Read ==
    /\ Planning
    /\ \E p \in NextRead(Cfg, saw) :
           /\ Builds(Cfg[p[1]])
           /\ saw' = WithRead(Cfg, saw, p, chain)
    /\ UNCHANGED <<chain, control, code, files, outputs, history>>

(* The run can end with a plan: every resource was built, everything read, *)
(* and the operations due were encoded.                                    *)
HasPlan ==
    /\ ReadAll(Cfg, saw)
    /\ \A i \in 1..Len(Cfg) : Builds(Cfg[i])
    /\ \A p \in Managed(Cfg) :
           saw[p] # Cfg[p[1]].spec[p[2]] => Encodable(Cfg[p[1]], p[2])

(* Mutant: $? after the pipeline, which is tee's. *)
CodeOfTee(drifted) == 0

(* PIPESTATUS[0]. *)
CodeOf(drifted) == IF drifted THEN 1 ELSE 0

AfterText == IF job[at].json THEN "json" ELSE "classify"

(* Mutant: the JSON run appends to its file. *)
JsonFileAppended == files.json

(* The JSON file once it was opened for a run, if one is asked for. *)
JsonFileOpened == IF job[at].json THEN Blank ELSE files.json

(* The text run prints its plan and exits; the JSON run, if one is asked   *)
(* for, opens its file.                                                    *)
TextEnds ==
    /\ step = "text"
    /\ HasPlan
    /\ code' = CodeOf(Drifted(Cfg, saw))
    /\ files' = [text |-> [use |-> at, saw |-> saw], json |-> JsonFileOpened]
    /\ read' = [read EXCEPT ![at] = saw]
    /\ step' = AfterText
    /\ saw' = NothingRead
    /\ UNCHANGED <<chain, job, at, outputs, result, moved>>

(* It prints nothing and exits with 2.  The JSON run is started all the    *)
(* same.                                                                   *)
TextFails ==
    /\ step = "text"
    /\ code' = 2
    /\ files' = [files EXCEPT !.json = JsonFileOpened]
    /\ step' = AfterText
    /\ saw' = NothingRead
    /\ UNCHANGED <<chain, job, at, outputs, result, history>>

(* Mutant: summary.empty, which counts operations only. *)
JsonEmptyFalse(c, seen) == \E p \in Managed(c) : ~Matches(c, p, seen[p])

(* The verdict of the JSON document: operationCount and                    *)
(* failedAssertionCount.                                                   *)
JsonVerdict(c, seen) ==
    \/ \E p \in Managed(c) : ~Matches(c, p, seen[p])
    \/ \E p \in Expected(c) : ~Matches(c, p, seen[p])

(* The JSON run ends; nobody looks at its exit code. *)
JsonEnds ==
    /\ step = "json"
    /\ HasPlan
    /\ files' = [files EXCEPT !.json = [use |-> at, saw |-> saw]]
    /\ step' = "classify"
    /\ saw' = NothingRead
    /\ UNCHANGED <<chain, job, at, code, outputs, result, history>>

(* It fails and leaves the file it was to write empty. *)
JsonFails ==
    /\ step = "json"
    /\ step' = "classify"
    /\ saw' = NothingRead
    /\ UNCHANGED <<chain, job, at, code, files, outputs, result, history>>

-----------------------------------------------------------------------------
(* Mutant: only drift is told apart, every other code is taken for 0. *)
ClassifyAnyCode ==
    /\ step = "classify"
    /\ outputs' = [outputs EXCEPT ![at] = [drift |-> code = 1, code |-> code]]
    /\ step' = "gate"
    /\ UNCHANGED <<chain, job, at, saw, code, files, result, history>>

(* 0 and 1 are answers and become outputs, anything else is a failure. *)
Classify ==
    /\ step = "classify"
    /\ IF code \in {0, 1}
       THEN /\ outputs' = [outputs EXCEPT ![at] = [drift |-> code = 1, code |-> code]]
            /\ step' = "gate"
            /\ UNCHANGED <<job, at, result>>
       ELSE EndsAs("failure") /\ UNCHANGED outputs
    /\ UNCHANGED <<chain, saw, code, files, history>>

(* Mutant: the gate looks at the last use only. *)
GateAtTheEnd ==
    /\ step = "gate"
    /\ IF outputs[at].drift /\ job[at].failOnDrift /\ at = Len(job)
       THEN EndsAs("failure")
       ELSE IF at = Len(job) THEN EndsAs("success")
       ELSE at' = at + 1 /\ step' = "install" /\ UNCHANGED <<job, result>>
    /\ UNCHANGED <<chain, saw, code, files, outputs, history>>

(* Drift fails the job if it is to; else the job goes on. *)
Gate ==
    /\ step = "gate"
    /\ \/ /\ outputs[at].drift /\ job[at].failOnDrift
          /\ EndsAs("failure")
       \/ /\ ~(outputs[at].drift /\ job[at].failOnDrift)
          /\ at = Len(job)
          /\ EndsAs("success")
       \/ /\ ~(outputs[at].drift /\ job[at].failOnDrift)
          /\ at < Len(job)
          /\ at' = at + 1
          /\ step' = "install"
          /\ UNCHANGED <<job, result>>
    /\ UNCHANGED <<chain, saw, code, files, outputs, history>>

(* The job is cancelled, or has used up its time. *)
Cancel ==
    /\ step # "over"
    /\ EndsAs("cancelled")
    /\ UNCHANGED <<chain, saw, code, files, outputs, history>>

(* The schedule starts the job again, with an empty RUNNER_TEMP. *)
Schedule ==
    /\ step = "over"
    /\ at' = 1 /\ step' = "install" /\ result' = Running
    /\ saw' = NothingRead /\ code' = NoCode
    /\ files' = [text |-> Blank, json |-> Blank]
    /\ outputs' = [i \in 1..Len(job) |-> NoOutputs]
    /\ read' = [i \in 1..Len(job) |-> NothingRead]
    /\ moved' = FALSE
    /\ UNCHANGED <<chain, job>>

(* What the runner does, with the node's answers or without. *)
Runner ==
    \/ Install \/ InstallFails \/ Read \/ TextEnds \/ TextFails
    \/ JsonEnds \/ JsonFails \/ Classify \/ Gate \/ Cancel \/ Schedule

Next == ForeignWrite \/ Runner

(* A job that does not go on by itself is cut off by its time limit, and   *)
(* the schedule starts the next one.  Nothing obliges the node to answer.  *)
Spec == Init /\ [][Next]_vars /\ WF_vars(Runner)

-----------------------------------------------------------------------------
(* Properties. *)

(* Every variable has its type. *)
TypeOK ==
    /\ chain \in ChainState
    /\ job \in Jobs
    /\ at \in 1..Len(job)
    /\ step \in Steps
    /\ step # "over" => DOMAIN saw \subseteq Declared(Cfg)
    /\ code \in {NoCode, 0, 1, 2}
    /\ \A f \in {"text", "json"} : files[f].use \in 0..at
    /\ \A i \in 1..Len(job) :
           outputs[i] \in [drift : BOOLEAN, code : {0, 1}] \cup {NoOutputs}
    /\ result \in {Running, "success", "failure", "cancelled"}
    /\ result = Running <=> step # "over"

(* An output is written only by a use whose text run came to a plan, and   *)
(* says what that run read, whatever the JSON run did after it and however *)
(* the chain moved (action.yml, PIPESTATUS and the classification).        *)
OutputsHonest ==
    \A i \in 1..Len(job) : outputs[i] # NoOutputs =>
        /\ ReadAll(job[i].cfg, read[i])
        /\ outputs[i].drift <=> Drifted(job[i].cfg, read[i])

(* A green job: every use that gates read each declared attribute with its *)
(* declared value - not the last use only, and none was skipped.           *)
GreenMeansMatched ==
    result = "success" =>
        \A i \in 1..Len(job) :
            /\ outputs[i] # NoOutputs
            /\ job[i].failOnDrift =>
                   \A p \in Declared(job[i].cfg) : Matches(job[i].cfg, p, read[i][p])

(* The JSON plan of a use, when there is one, gives the verdict of its     *)
(* drift output if nobody wrote to the chain from the first run to the     *)
(* second (plan.go RenderJSON and HasDrift).                               *)
JsonAgrees ==
    outputs[at] # NoOutputs /\ files.json.use = at /\ ~moved =>
        (JsonVerdict(Cfg, files.json.saw) <=> outputs[at].drift)

(* A use that has written its outputs names files of its own: the text     *)
(* file holds what its text run read, and the JSON file, if it was asked   *)
(* for, is empty or its own, and never the plan an earlier use left under  *)
(* the same name.  (An earlier use's files are gone by then.)              *)
FilesAreThisUses ==
    outputs[at] # NoOutputs =>
        /\ files.text = [use |-> at, saw |-> read[at]]
        /\ job[at].json => files.json = Blank \/ files.json.use = at

(* The job tells its reader that all is well. *)
Green == result = "success" /\ \A i \in 1..Len(job) : ~outputs[i].drift

(* The slot of declaration p is not what use i of the job declares. *)
Off(i, p) ==
    /\ i <= Len(job)
    /\ p \in Declared(job[i].cfg)
    /\ ~Matches(job[i].cfg, p, Observed(job[i].cfg, p, chain))

(* Bound: the uses of a job, and the resources of a configuration, that    *)
(* the next property looks at.                                             *)
Few == 1..2

(* "Adding a schedule: trigger turns the same gate into periodic           *)
(* monitoring": an attribute that stays off, in a chain that may go on     *)
(* moving elsewhere and with a node that may fail, ends the green jobs,    *)
(* and jobs go on ending.                                                  *)
DriftIsNoticed ==
    \A i \in Few, p \in Few \X Attr :
        <>[]Off(i, p) => /\ <>[](step = "over" => ~Green)
                      /\ []<>(step = "over")
=============================================================================
