-------------------------- MODULE DriftActionProofs --------------------------
(***************************************************************************)
(* Proofs about DriftAction, for jobs of any length, any configurations    *)
(* and any number of writes by others.                                     *)
(*                                                                         *)
(* The properties are about outputs and files that are there; what makes   *)
(* them inductive is what holds on the way: between the text run and the   *)
(* classification the exit code speaks of this use (AnswerInv), what two   *)
(* runs read is one snapshot unless the chain moved (SnapshotInv), and     *)
(* the uses are gone through in order (OrderInv).                          *)
(***************************************************************************)
EXTENDS DriftAction, ReportLemmas

(* The text run of the use under way came to a plan. *)
Answered == code \in {0, 1}

Before == {"install", "text", "json", "classify"}

TypeInv ==
    /\ chain \in ChainState
    /\ job \in Jobs
    /\ at \in 1..Len(job)
    /\ step \in Steps
    /\ step # "over" => DOMAIN saw \subseteq Declared(Cfg)
    /\ step \in {"install", "classify", "gate"} => saw = NothingRead
    /\ code \in {NoCode, 0, 1, 2}
    /\ DOMAIN files = {"text", "json"}
    /\ files.text.use \in 0..at
    /\ files.json.use \in 0..at
    /\ step \in {"install", "text", "json"} => files.json.use # at
    /\ outputs \in [1..Len(job) -> [drift : BOOLEAN, code : {0, 1}] \cup {NoOutputs}]
    /\ DOMAIN read = 1..Len(job)
    /\ result \in {Running, "success", "failure", "cancelled"}
    /\ result = Running <=> step # "over"

(* Every use before this one has written its outputs and passed its gate;  *)
(* this one has if it is past classifying, and none after it has.          *)
OrderInv ==
    /\ \A i \in 1..Len(job) : i < at =>
           outputs[i] # NoOutputs /\ (job[i].failOnDrift => ~outputs[i].drift)
    /\ step \in Before => outputs[at] = NoOutputs
    /\ step = "gate" => outputs[at] # NoOutputs
    /\ \A i \in 1..Len(job) : i > at => outputs[i] = NoOutputs
    /\ result = "success" =>
           /\ at = Len(job)
           /\ outputs[at] # NoOutputs
           /\ job[at].failOnDrift => ~outputs[at].drift

(* Before it is classified, an exit code of 0 or 1 says what this use read,*)
(* and the files are this use's.                                           *)
AnswerInv ==
    step \in {"json", "classify"} =>
        /\ Answered =>
               /\ ReadAll(Cfg, read[at])
               /\ code = 1 <=> Drifted(Cfg, read[at])
               /\ files.text = [use |-> at, saw |-> read[at]]
        /\ job[at].json => files.json = Blank \/ files.json.use = at

(* While nobody writes to the chain, what is read is what it holds. *)
SnapshotInv ==
    ~moved =>
        /\ Planning => \A p \in DOMAIN saw : saw[p] = Observed(Cfg, p, chain)
        /\ step = "json" /\ Answered =>
               \A p \in Declared(Cfg) : read[at][p] = Observed(Cfg, p, chain)

(* So the two runs of a use read the same. *)
SameInv ==
    /\ outputs[at] # NoOutputs \/ (step = "classify" /\ Answered)
    /\ files.json.use = at
    /\ ~moved
    => /\ ReadAll(Cfg, files.json.saw)
       /\ \A p \in Declared(Cfg) : files.json.saw[p] = read[at][p]

IInv ==
    /\ TypeInv
    /\ OrderInv
    /\ OutputsHonest
    /\ FilesAreThisUses
    /\ AnswerInv
    /\ SnapshotInv
    /\ SameInv

-----------------------------------------------------------------------------
(* A job is a list of uses of the action, and not an empty one. *)
LEMMA JobFacts ==
    ASSUME NEW j \in Jobs
    PROVE  /\ j \in Seq(Use)
           /\ Len(j) \in Nat
           /\ Len(j) >= 1
           /\ \A i \in 1..Len(j) : j[i].cfg \in Seq(ResourceConfig)
<1>1. j \in Seq(Use) /\ j # << >>
  BY JobsAssumption
<1>2. \A i \in 1..Len(j) : j[i] \in Use
  BY <1>1
<1>3. \A i \in 1..Len(j) : j[i].cfg \in Seq(ResourceConfig)
  BY <1>2 DEF Use
<1> QED
  BY <1>1, <1>3

(* Nothing has been read of anything yet. *)
LEMMA NothingReadFacts == DOMAIN NothingRead = {}
BY DEF NothingRead

LEMMA InitIInv == Init => IInv
<1> SUFFICES ASSUME Init PROVE IInv
  OBVIOUS
<1>1. PICK j \in Jobs : Begun(j)
  BY DEF Init
<1>2. job = j /\ Len(job) \in Nat /\ Len(job) >= 1
  BY <1>1, JobFacts DEF Begun
<1>3. \A i \in 1..Len(job) : outputs[i] = NoOutputs
  BY <1>1, <1>2 DEF Begun
<1>4. TypeInv
  BY <1>1, <1>2, NothingReadFacts, ChainAssumption DEF Init, Begun, TypeInv, Steps, Blank, Running
<1> QED
  BY <1>1, <1>2, <1>3, <1>4
  DEF Begun, IInv, OrderInv, OutputsHonest, FilesAreThisUses, AnswerInv, SnapshotInv,
      SameInv, Planning, Running

(* The end of a job changes nothing but that it has ended. *)
LEMMA EndKeeps ==
    ASSUME IInv, NEW r \in {"success", "failure", "cancelled"}, EndsAs(r),
           r = "success" => /\ at = Len(job)
                            /\ outputs[at] # NoOutputs
                            /\ job[at].failOnDrift => ~outputs[at].drift,
           UNCHANGED <<chain, saw, code, files, outputs, history>>
    PROVE  IInv'
<1>1. /\ step' = "over" /\ result' = r
      /\ UNCHANGED <<job, at, chain, saw, code, files, outputs, read, moved>>
  BY DEF EndsAs, history
<1>2. TypeInv'
  BY <1>1 DEF IInv, TypeInv, Steps, Running, Cfg
<1>3. OrderInv'
  BY <1>1 DEF IInv, OrderInv, Before
<1> QED
  BY <1>1, <1>2, <1>3
  DEF IInv, OutputsHonest, FilesAreThisUses, AnswerInv, SnapshotInv, SameInv,
      Planning, Answered, Cfg

-----------------------------------------------------------------------------
LEMMA NextIInv == IInv /\ [Next]_vars => IInv'
<1> SUFFICES ASSUME IInv, [Next]_vars PROVE IInv'
  OBVIOUS
<1>t. /\ TypeInv
      /\ at \in 1..Len(job) /\ Len(job) \in Nat
      /\ job \in Jobs
  BY JobFacts DEF IInv, TypeInv
<1>1. CASE ForeignWrite
  <2>1. chain' \in ChainState
    <3>1. PICK s \in Slot : \E v \in ValuesOf(s[2]) : chain' = [chain EXCEPT ![s] = v]
      BY <1>1 DEF ForeignWrite
    <3>2. PICK v \in ValuesOf(s[2]) : chain' = [chain EXCEPT ![s] = v]
      BY <3>1
    <3>3. chain \in ChainState
      BY <1>t DEF TypeInv
    <3>4. [chain EXCEPT ![s] = v] \in ChainState
      BY <3>3, WriteKeepsChain
    <3> QED
      BY <3>2, <3>4
  <2>2. /\ moved' = (moved \/ step \notin {"install", "over"})
        /\ UNCHANGED <<job, at, step, result, saw, code, files, outputs, read>>
    BY <1>1 DEF ForeignWrite, control
  <2>3. TypeInv' /\ OrderInv' /\ OutputsHonest' /\ FilesAreThisUses' /\ AnswerInv'
    BY <2>1, <2>2
    DEF IInv, TypeInv, OrderInv, OutputsHonest, FilesAreThisUses, AnswerInv, Cfg, Answered
  <2>4. SnapshotInv'
    BY <2>2 DEF SnapshotInv, Planning
  <2>5. SameInv'
    BY <2>2 DEF IInv, SameInv, Cfg, Answered
  <2> QED
    BY <2>3, <2>4, <2>5 DEF IInv
<1>2. CASE Install
  <2>1. /\ step = "install" /\ step' = "text"
        /\ files' = [files EXCEPT !.text = Blank]
        /\ saw' = NothingRead
        /\ UNCHANGED <<chain, job, at, result, code, outputs, read>>
    BY <1>2 DEF Install
  <2>2. DOMAIN files' = {"text", "json"} /\ files'.text = Blank /\ files'.json = files.json
    BY <1>t, <2>1 DEF TypeInv
  <2>3. TypeInv'
    BY <1>t, <2>1, <2>2, NothingReadFacts DEF TypeInv, Steps, Blank, Cfg, Running
  <2>4. outputs[at] = NoOutputs
    BY <2>1 DEF IInv, OrderInv, Before
  <2>5. OrderInv' /\ OutputsHonest' /\ FilesAreThisUses' /\ AnswerInv' /\ SameInv'
    BY <1>t, <2>1, <2>4
    DEF IInv, OrderInv, Before, OutputsHonest, FilesAreThisUses, AnswerInv, SameInv
  <2>6. SnapshotInv'
    BY <2>1, NothingReadFacts DEF SnapshotInv
  <2> QED
    BY <2>3, <2>5, <2>6 DEF IInv
<1>3. CASE InstallFails
  BY <1>3, EndKeeps DEF InstallFails
<1>4. CASE Read
  <2>1. PICK p \in NextRead(Cfg, saw) : saw' = WithRead(Cfg, saw, p, chain)
    BY <1>4 DEF Read
  <2>2. /\ Planning
        /\ UNCHANGED <<chain, job, at, step, result, code, files, outputs, read, moved>>
    BY <1>4 DEF Read, control, history
  <2>3. p \in Declared(Cfg) /\ Cfg' = Cfg
    BY <2>2 DEF NextRead, Cfg
  <2>4. /\ DOMAIN saw' = DOMAIN saw \cup {p}
        /\ \A q \in DOMAIN saw' : saw'[q] = Observed(Cfg, q, chain) \/ (q \in DOMAIN saw /\ saw'[q] = saw[q])
    BY <2>1 DEF WithRead
  <2>5. TypeInv'
    BY <1>t, <2>2, <2>3, <2>4 DEF TypeInv, Planning
  <2>6. SnapshotInv'
    BY <2>2, <2>3, <2>4 DEF IInv, SnapshotInv, Planning, Answered
  <2>7. OrderInv' /\ OutputsHonest' /\ FilesAreThisUses' /\ AnswerInv' /\ SameInv'
    BY <2>2, <2>3
    DEF IInv, OrderInv, OutputsHonest, FilesAreThisUses, AnswerInv, SameInv, Answered
  <2> QED
    BY <2>5, <2>6, <2>7 DEF IInv
<1>5. CASE TextEnds
  <2>1. /\ step = "text" /\ HasPlan
        /\ code' = CodeOf(Drifted(Cfg, saw))
        /\ files' = [text |-> [use |-> at, saw |-> saw], json |-> JsonFileOpened]
        /\ read' = [read EXCEPT ![at] = saw]
        /\ step' = AfterText
        /\ saw' = NothingRead
        /\ UNCHANGED <<chain, job, at, outputs, result, moved>>
    BY <1>5 DEF TextEnds
  <2>2. /\ DOMAIN files' = {"text", "json"}
        /\ files'.text = [use |-> at, saw |-> saw]
        /\ files'.json = files.json \/ files'.json = Blank
        /\ job[at].json => files'.json = Blank
    BY <2>1 DEF JsonFileOpened
  <2>3. /\ code' \in {0, 1}
        /\ code' = 1 <=> Drifted(Cfg, saw)
    BY <2>1 DEF CodeOf
  <2>4. /\ read'[at] = saw
        /\ \A i \in 1..Len(job) : i # at => read'[i] = read[i]
        /\ DOMAIN read' = 1..Len(job)
    BY <1>t, <2>1 DEF TypeInv
  <2>5. step' \in {"json", "classify"} /\ Cfg' = Cfg
    BY <2>1 DEF AfterText, Cfg
  <2>6. outputs[at] = NoOutputs /\ files.json.use \in 0..at /\ files.json.use # at /\ Blank.use = 0
    BY <1>t, <2>1 DEF IInv, TypeInv, OrderInv, Before, Blank
  <2>7. TypeInv'
    BY <1>t, <2>1, <2>2, <2>3, <2>4, <2>5, <2>6, NothingReadFacts
    DEF TypeInv, Steps, Running
  <2>8. OrderInv'
    BY <1>t, <2>1, <2>5 DEF IInv, OrderInv, TypeInv, Before, Running
  <2>9. OutputsHonest' /\ FilesAreThisUses'
    BY <1>t, <2>1, <2>4, <2>6 DEF IInv, OutputsHonest, FilesAreThisUses
  <2>10. AnswerInv'
    BY <2>1, <2>2, <2>3, <2>4, <2>5 DEF AnswerInv, HasPlan
  <2>11. SnapshotInv'
    <3>1. ~moved => \A p \in Declared(Cfg) : saw[p] = Observed(Cfg, p, chain)
      BY <2>1 DEF IInv, SnapshotInv, Planning, HasPlan, ReadAll
    <3> QED
      BY <2>1, <2>4, <2>5, <3>1, NothingReadFacts DEF SnapshotInv
  <2>12. SameInv'
    BY <1>t, <2>1, <2>2, <2>6 DEF SameInv
  <2> QED
    BY <2>7, <2>8, <2>9, <2>10, <2>11, <2>12 DEF IInv
<1>6. CASE TextFails
  <2>1. /\ step = "text"
        /\ code' = 2
        /\ files' = [files EXCEPT !.json = JsonFileOpened]
        /\ step' = AfterText
        /\ saw' = NothingRead
        /\ UNCHANGED <<chain, job, at, outputs, result, read, moved>>
    BY <1>6 DEF TextFails, history
  <2>2. /\ DOMAIN files' = {"text", "json"}
        /\ files'.text = files.text
        /\ files'.json = files.json \/ files'.json = Blank
        /\ job[at].json => files'.json = Blank
    BY <1>t, <2>1 DEF JsonFileOpened, TypeInv
  <2>3. step' \in {"json", "classify"} /\ Cfg' = Cfg /\ code' \notin {0, 1}
    BY <2>1 DEF AfterText, Cfg
  <2>4. outputs[at] = NoOutputs /\ files.json.use \in 0..at /\ files.json.use # at /\ Blank.use = 0
    BY <1>t, <2>1 DEF IInv, TypeInv, OrderInv, Before, Blank
  <2>5. TypeInv'
    BY <1>t, <2>1, <2>2, <2>3, <2>4, NothingReadFacts DEF TypeInv, Steps, Running
  <2>6. OrderInv'
    BY <1>t, <2>1, <2>3 DEF IInv, OrderInv, TypeInv, Before, Running
  <2>7. OutputsHonest' /\ FilesAreThisUses' /\ AnswerInv' /\ SameInv'
    BY <1>t, <2>1, <2>2, <2>3, <2>4
    DEF IInv, OutputsHonest, FilesAreThisUses, AnswerInv, SameInv, Answered
  <2>8. SnapshotInv'
    BY <2>1, <2>3, NothingReadFacts DEF SnapshotInv, Answered
  <2> QED
    BY <2>5, <2>6, <2>7, <2>8 DEF IInv
<1>7. CASE JsonEnds
  <2>1. /\ step = "json" /\ HasPlan
        /\ files' = [files EXCEPT !.json = [use |-> at, saw |-> saw]]
        /\ step' = "classify"
        /\ saw' = NothingRead
        /\ UNCHANGED <<chain, job, at, code, outputs, result, read, moved>>
    BY <1>7 DEF JsonEnds, history
  <2>2. /\ DOMAIN files' = {"text", "json"}
        /\ files'.text = files.text
        /\ files'.json = [use |-> at, saw |-> saw]
        /\ Cfg' = Cfg
    BY <1>t, <2>1 DEF TypeInv, Cfg
  <2>3. outputs[at] = NoOutputs /\ ReadAll(Cfg, saw)
    BY <2>1 DEF IInv, OrderInv, Before, HasPlan
  <2>4. TypeInv'
    BY <1>t, <2>1, <2>2, NothingReadFacts DEF TypeInv, Steps, Running
  <2>5. OrderInv'
    BY <1>t, <2>1 DEF IInv, OrderInv, TypeInv, Before, Running
  <2>6. OutputsHonest' /\ FilesAreThisUses' /\ AnswerInv'
    BY <1>t, <2>1, <2>2, <2>3
    DEF IInv, OutputsHonest, FilesAreThisUses, AnswerInv, Answered
  <2>7. SnapshotInv'
    BY <2>1, NothingReadFacts DEF SnapshotInv, Planning
  <2>8. SameInv'
    <3>1. Answered /\ ~moved => \A p \in Declared(Cfg) : saw[p] = read[at][p]
      BY <2>1, <2>3 DEF IInv, SnapshotInv, Planning, ReadAll
    <3> QED
      BY <2>1, <2>2, <2>3, <3>1 DEF SameInv, Answered
  <2> QED
    BY <2>4, <2>5, <2>6, <2>7, <2>8 DEF IInv
<1>8. CASE JsonFails
  <2>1. /\ step = "json"
        /\ step' = "classify"
        /\ saw' = NothingRead
        /\ UNCHANGED <<chain, job, at, code, files, outputs, result, read, moved>>
    BY <1>8 DEF JsonFails, history
  <2>2. Cfg' = Cfg /\ files.json.use # at
    BY <1>t, <2>1 DEF Cfg, TypeInv
  <2>3. TypeInv'
    BY <1>t, <2>1, <2>2, NothingReadFacts DEF TypeInv, Steps, Running
  <2>4. OrderInv'
    BY <1>t, <2>1 DEF IInv, OrderInv, TypeInv, Before, Running
  <2>5. OutputsHonest' /\ FilesAreThisUses' /\ AnswerInv' /\ SameInv'
    BY <1>t, <2>1, <2>2
    DEF IInv, OutputsHonest, FilesAreThisUses, AnswerInv, SameInv, Answered
  <2>6. SnapshotInv'
    BY <2>1, NothingReadFacts DEF SnapshotInv, Planning
  <2> QED
    BY <2>3, <2>4, <2>5, <2>6 DEF IInv
<1>9. CASE Classify /\ code \in {0, 1}
  <2> DEFINE out == [drift |-> code = 1, code |-> code]
  <2>1. /\ step = "classify" /\ step' = "gate"
        /\ outputs' = [outputs EXCEPT ![at] = out]
        /\ UNCHANGED <<chain, job, at, result, saw, code, files, read, moved>>
    BY <1>9 DEF Classify, history
  <2>2. /\ out \in [drift : BOOLEAN, code : {0, 1}]
        /\ out # NoOutputs
        /\ out.drift <=> code = 1
    <3>1. code \in {0, 1} /\ (code = 1) \in BOOLEAN
      BY <1>9
    <3>2. out \in [drift : BOOLEAN, code : {0, 1}]
      BY <3>1
    <3>3. out.code = code /\ NoOutputs.code = NoCode /\ NoCode \notin {0, 1}
      BY DEF NoOutputs, NoCode
    <3>4. out # NoOutputs
      BY <3>1, <3>3
    <3>5. out.drift <=> code = 1
      OBVIOUS
    <3> QED
      BY <3>2, <3>4, <3>5
  <2> HIDE DEF out
  <2>3. /\ outputs'[at] = out
        /\ \A i \in 1..Len(job) : i # at => outputs'[i] = outputs[i]
        /\ outputs' \in [1..Len(job) -> [drift : BOOLEAN, code : {0, 1}] \cup {NoOutputs}]
    BY <1>t, <2>1, <2>2 DEF TypeInv
  <2>4. /\ ReadAll(Cfg, read[at])
        /\ code = 1 <=> Drifted(Cfg, read[at])
        /\ files.text = [use |-> at, saw |-> read[at]]
        /\ job[at].json => files.json = Blank \/ files.json.use = at
        /\ Cfg' = Cfg
    BY <1>9, <2>1 DEF IInv, AnswerInv, Answered, Cfg
  <2>5. TypeInv'
    BY <1>t, <2>1, <2>3, <2>4 DEF TypeInv, Steps, Running
  <2>6. OrderInv'
    BY <1>t, <2>1, <2>2, <2>3 DEF IInv, OrderInv, TypeInv, Before, Running
  <2>7. OutputsHonest' /\ FilesAreThisUses'
    BY <1>t, <2>1, <2>2, <2>3, <2>4 DEF IInv, OutputsHonest, FilesAreThisUses, Cfg
  <2>8. AnswerInv' /\ SnapshotInv'
    BY <2>1 DEF AnswerInv, SnapshotInv, Planning
  <2>9. SameInv'
    BY <1>9, <2>1, <2>4 DEF IInv, SameInv, Answered
  <2> QED
    BY <2>5, <2>6, <2>7, <2>8, <2>9 DEF IInv
<1>10. CASE Classify /\ code \notin {0, 1}
  <2>1. EndsAs("failure") /\ UNCHANGED <<chain, saw, code, files, outputs, history>>
    BY <1>10 DEF Classify
  <2> QED
    BY <2>1, EndKeeps
<1>11. CASE Gate /\ step' = "over"
  <2>1. /\ UNCHANGED <<chain, saw, code, files, outputs, history>>
        /\ step = "gate"
        /\ \/ EndsAs("failure")
           \/ /\ ~(outputs[at].drift /\ job[at].failOnDrift)
              /\ at = Len(job)
              /\ EndsAs("success")
    BY <1>11 DEF Gate
  <2>2. outputs[at] # NoOutputs
    BY <2>1 DEF IInv, OrderInv
  <2> QED
    BY <2>1, <2>2, EndKeeps
<1>12. CASE Gate /\ step' # "over"
  <2>1. /\ step = "gate" /\ step' = "install"
        /\ at' = at + 1 /\ at < Len(job)
        /\ ~(outputs[at].drift /\ job[at].failOnDrift)
        /\ UNCHANGED <<job, result, chain, saw, code, files, outputs, read, moved>>
    BY <1>12 DEF Gate, EndsAs, history
  <2>2. at' \in 1..Len(job)
    BY <1>t, <2>1
  <2>3. saw = NothingRead /\ files.json.use \in 0..at /\ files.text.use \in 0..at
    BY <1>t, <2>1 DEF TypeInv
  <2>4. TypeInv'
    BY <1>t, <2>1, <2>2, <2>3, NothingReadFacts DEF TypeInv, Steps, Running
  <2>5. outputs'[at'] = NoOutputs
    BY <1>t, <2>1, <2>2 DEF IInv, OrderInv
  <2>6. OrderInv'
    BY <1>t, <2>1, <2>2, <2>5 DEF IInv, OrderInv, TypeInv, Before, Running
  <2>7. OutputsHonest'
    BY <2>1 DEF IInv, OutputsHonest
  <2>8. FilesAreThisUses' /\ AnswerInv' /\ SnapshotInv' /\ SameInv'
    BY <2>1, <2>5 DEF FilesAreThisUses, AnswerInv, SnapshotInv, SameInv, Planning
  <2> QED
    BY <2>4, <2>6, <2>7, <2>8 DEF IInv
<1>13. CASE Cancel
  BY <1>13, EndKeeps DEF Cancel
<1>14. CASE Schedule
  <2>1. /\ at' = 1 /\ step' = "install" /\ result' = Running
        /\ saw' = NothingRead /\ code' = NoCode
        /\ files' = [text |-> Blank, json |-> Blank]
        /\ outputs' = [i \in 1..Len(job) |-> NoOutputs]
        /\ read' = [i \in 1..Len(job) |-> NothingRead]
        /\ UNCHANGED <<chain, job>>
    BY <1>14 DEF Schedule
  <2>2. Len(job) >= 1 /\ \A i \in 1..Len(job) : outputs'[i] = NoOutputs
    BY <1>t, <2>1, JobFacts
  <2>3. TypeInv'
    BY <1>t, <2>1, <2>2, NothingReadFacts DEF TypeInv, Steps, Blank, Running
  <2> QED
    BY <1>t, <2>1, <2>2, <2>3
    DEF IInv, OrderInv, OutputsHonest, FilesAreThisUses, AnswerInv, SnapshotInv,
        SameInv, Planning, Running
<1>15. CASE UNCHANGED vars
  BY <1>15
  DEF vars, control, history, IInv, TypeInv, OrderInv, OutputsHonest, FilesAreThisUses,
      AnswerInv, SnapshotInv, SameInv, Planning, Answered, Cfg
<1> QED
  BY <1>1, <1>2, <1>3, <1>4, <1>5, <1>6, <1>7, <1>8, <1>9, <1>10, <1>11, <1>12,
     <1>13, <1>14, <1>15 DEF Next, Runner

(* Every state is as the invariant says. *)
LEMMA SpecIInv == Spec => []IInv
BY InitIInv, NextIInv, PTL DEF Spec

-----------------------------------------------------------------------------
(* The theorems. *)

(* Every variable has its type: in particular a run reads what its own use *)
(* declares and nothing else, a file holds the plan of this use or of one  *)
(* before it, and the job has a result exactly when it is over.            *)
THEOREM TypeCorrect == Spec => []TypeOK
<1>1. IInv => TypeOK
  BY DEF IInv, TypeInv, TypeOK
<1> QED
  BY SpecIInv, <1>1, PTL

(* What a use puts out is what its text run read, however the chain moved  *)
(* and whatever became of the JSON run.                                    *)
THEOREM OutputsAreHonest == Spec => []OutputsHonest
<1>1. IInv => OutputsHonest
  BY DEF IInv
<1> QED
  BY SpecIInv, <1>1, PTL

(* A green job read every declared attribute of every use that gates with  *)
(* its declared value.                                                     *)
THEOREM GreenIsMatched == Spec => []GreenMeansMatched
<1>1. IInv => GreenMeansMatched
  <2> SUFFICES ASSUME IInv, result = "success", NEW i \in 1..Len(job)
               PROVE  /\ outputs[i] # NoOutputs
                      /\ job[i].failOnDrift =>
                             \A p \in Declared(job[i].cfg) : Matches(job[i].cfg, p, read[i][p])
    BY DEF GreenMeansMatched
  <2>1. at = Len(job) /\ Len(job) \in Nat
    BY JobFacts DEF IInv, TypeInv, OrderInv
  <2>2. outputs[i] # NoOutputs /\ (job[i].failOnDrift => ~outputs[i].drift)
    BY <2>1 DEF IInv, OrderInv
  <2> QED
    BY <2>2 DEF IInv, OutputsHonest, Drifted, ReadAll
<1> QED
  BY SpecIInv, <1>1, PTL

(* If nobody wrote to the chain from the first run to the second, the JSON *)
(* plan gives the verdict of the drift output.                             *)
THEOREM JsonAgreesWithText == Spec => []JsonAgrees
<1>1. IInv => JsonAgrees
  <2> SUFFICES ASSUME IInv, outputs[at] # NoOutputs, files.json.use = at, ~moved
               PROVE  JsonVerdict(Cfg, files.json.saw) <=> outputs[at].drift
    BY DEF JsonAgrees
  <2>1. \A p \in Declared(Cfg) : files.json.saw[p] = read[at][p]
    BY DEF IInv, SameInv
  <2>2. ReadAll(Cfg, read[at]) /\ (outputs[at].drift <=> Drifted(Cfg, read[at]))
    BY DEF IInv, TypeInv, OutputsHonest, Cfg
  <2>3. JsonVerdict(Cfg, files.json.saw)
        <=> \E p \in Declared(Cfg) : ~Matches(Cfg, p, files.json.saw[p])
    BY DEF JsonVerdict, Declared
  <2> QED
    BY <2>1, <2>2, <2>3 DEF Drifted, ReadAll
<1> QED
  BY SpecIInv, <1>1, PTL

(* The files a use names once it has written its outputs are its own.      *)
THEOREM FilesAreOwn == Spec => []FilesAreThisUses
<1>1. IInv => FilesAreThisUses
  BY DEF IInv
<1> QED
  BY SpecIInv, <1>1, PTL
=============================================================================
