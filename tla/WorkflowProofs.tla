--------------------------- MODULE WorkflowProofs ---------------------------
(***************************************************************************)
(* Proofs about Workflow, for any number of users, configurations and      *)
(* waiting batches.                                                        *)
(*                                                                         *)
(* The inductive invariant IInv says of every plan there is - being made,  *)
(* in the file, in the Safe - that its operations are exactly those that   *)
(* the values it was made from call for (SoundPlan); and of an export that *)
(* has had the file to itself, that the file is still empty (AloneInv).    *)
(***************************************************************************)
EXTENDS Workflow, ReportLemmas, FiniteSetTheorems

PlanRecord ==
    [cfg : Configs \cup {<< >>}, saw : Partial(Nat \X Attr, Nat), ops : Seq(Operation)]

(* What a plan holds is what its reads call for. *)
SoundPlan ==
    {p \in PlanRecord : InOrder(p.cfg, p.saw) /\ ExactPlan(p.cfg, p.saw, p.ops)}

FinishedPlan == {p \in SoundPlan : Finished(p)}

Exporting ==
    [step : {"idle", "reading", "created"}, stray : BOOLEAN, alone : BOOLEAN,
     plan : SoundPlan]

(* An export that has had the file to itself finds it empty. *)
AloneInv ==
    \A u \in User : run[u].step = "created" /\ run[u].alone =>
        /\ file.size = 0
        /\ \A x \in User \ {u} : run[x].step # "created"

TypeInv ==
    /\ chain \in ChainState
    /\ declared \in Configs
    /\ run \in [User -> Exporting]
    /\ file \in [size : Nat, whole : BOOLEAN, plan : SoundPlan]
    /\ queue \in Seq(FinishedPlan)
    /\ Len(queue) <= MaxQueue
    /\ faults \in 0..MaxFaults

IInv ==
    /\ TypeInv
    /\ \A u \in User : run[u].step = "reading" => run[u].plan.cfg # << >>
    /\ \A u \in User : run[u].step = "created" => Finished(run[u].plan)
    /\ file.whole => Finished(file.plan)
    /\ AloneInv

-----------------------------------------------------------------------------
(* Lemmas about sequences. *)

(* A list of things that are all of a kind. *)
LEMMA ElementsIn ==
    ASSUME NEW S, NEW T, NEW q \in Seq(S), Elements(q) \subseteq T
    PROVE  q \in Seq(T)
<1>1. \A k \in 1..Len(q) : q[k] \in T
  BY DEF Elements
<1> QED
  BY <1>1

(* A queue without its k-th element. *)
Without(q, k) == [j \in 1..(Len(q) - 1) |-> IF j < k THEN q[j] ELSE q[j + 1]]

LEMMA WithoutFacts ==
    ASSUME NEW S, NEW q \in Seq(S), NEW k \in 1..Len(q)
    PROVE  /\ Without(q, k) \in Seq(S)
           /\ Len(Without(q, k)) = Len(q) - 1
<1>1. Len(q) - 1 \in Nat
  OBVIOUS
<1>2. \A j \in 1..(Len(q) - 1) : Without(q, k)[j] \in S
  BY <1>1 DEF Without
<1>3. Without(q, k) \in [1..(Len(q) - 1) -> S]
  BY <1>2 DEF Without
<1> QED
  BY <1>1, <1>3

-----------------------------------------------------------------------------
(* Lemmas about plans. *)

(* Any version of the configuration is a list of resources. *)
LEMMA ConfigFacts ==
    ASSUME NEW c \in Configs \cup {<< >>}
    PROVE  c \in Seq(ResourceConfig)
<1>1. << >> \in Seq(ResourceConfig)
  OBVIOUS
<1>2. Configs \subseteq Seq(ResourceConfig)
  BY ConfigsAssumption
<1> QED
  BY <1>1, <1>2

LEMMA SoundPlanFacts ==
    ASSUME NEW p \in SoundPlan
    PROVE  /\ p = [cfg |-> p.cfg, saw |-> p.saw, ops |-> p.ops]
           /\ p.cfg \in Configs \cup {<< >>}
           /\ p.cfg \in Seq(ResourceConfig)
           /\ p.saw \in Partial(Nat \X Attr, Nat)
           /\ \A d \in DOMAIN p.saw : p.saw[d] \in Nat
           /\ p.ops \in Seq(Operation)
           /\ InOrder(p.cfg, p.saw)
           /\ ExactPlan(p.cfg, p.saw, p.ops)
<1>1. p \in PlanRecord /\ InOrder(p.cfg, p.saw) /\ ExactPlan(p.cfg, p.saw, p.ops)
  BY DEF SoundPlan
<1>2. /\ p = [cfg |-> p.cfg, saw |-> p.saw, ops |-> p.ops]
      /\ p.cfg \in Configs \cup {<< >>}
      /\ p.saw \in Partial(Nat \X Attr, Nat)
      /\ p.ops \in Seq(Operation)
  BY <1>1 DEF PlanRecord
<1> QED
  BY <1>1, <1>2, ConfigFacts, PartialFcn

(* A sound plan is a plan as the runs' type invariant has it. *)
LEMMA SoundPlanOK ==
    ASSUME NEW p \in SoundPlan
    PROVE  PlanOK(p)
<1>1. Elements(p.ops) \subseteq {OpFor(p.cfg, d[1], d[2]) : d \in Managed(p.cfg)}
  <2>1. Elements(p.ops) = OpsFor(p.cfg, Due(p.cfg, p.saw))
    BY SoundPlanFacts DEF ExactPlan
  <2>2. Due(p.cfg, p.saw) \subseteq Managed(p.cfg)
    BY DEF Due
  <2> QED
    BY <2>1, <2>2 DEF OpsFor
<1>2. p.ops \in Seq({OpFor(p.cfg, d[1], d[2]) : d \in Managed(p.cfg)})
  BY <1>1, SoundPlanFacts, ElementsIn
<1> QED
  BY <1>2, SoundPlanFacts DEF PlanOK, InOrder

LEMMA NothingPlannedSound == NothingPlanned \in SoundPlan
<1>1. NothingRead \in Partial(Nat \X Attr, Nat)
  BY DEF NothingRead, Partial
<1> QED
  BY <1>1, NothingDue DEF NothingPlanned, SoundPlan, PlanRecord

(* An export starts with nothing planned. *)
LEMMA StartSound ==
    ASSUME NEW c \in Configs
    PROVE  [NothingPlanned EXCEPT !.cfg = c] \in SoundPlan
<1>1. [NothingPlanned EXCEPT !.cfg = c] = [cfg |-> c, saw |-> NothingRead, ops |-> << >>]
  BY DEF NothingPlanned
<1>2. NothingRead \in Partial(Nat \X Attr, Nat)
  BY DEF NothingRead, Partial
<1>3. [cfg |-> c, saw |-> NothingRead, ops |-> << >>] \in PlanRecord
  BY <1>2 DEF PlanRecord
<1>4. InOrder(c, NothingRead) /\ ExactPlan(c, NothingRead, << >>)
  BY NothingDue
<1> QED
  BY <1>1, <1>3, <1>4 DEF SoundPlan

(* A plan stays sound with the next read. *)
LEMMA ReadSound ==
    ASSUME NEW p \in SoundPlan, NEW s \in ChainState, NEW d \in NextRead(p.cfg, p.saw)
    PROVE  [cfg |-> p.cfg, saw |-> WithRead(p.cfg, p.saw, d, s),
            ops |-> WithOp(p.cfg, p.ops, d, Observed(p.cfg, d, s))] \in SoundPlan
<1> DEFINE c == p.cfg
           after == WithRead(c, p.saw, d, s)
           ops == WithOp(c, p.ops, d, Observed(c, d, s))
<1>1. /\ c \in Configs \cup {<< >>}
      /\ c \in Seq(ResourceConfig)
      /\ p.saw \in Partial(Nat \X Attr, Nat)
      /\ InOrder(c, p.saw)
      /\ ExactPlan(c, p.saw, p.ops)
  BY SoundPlanFacts
<1>2. d \in Declared(c)
  BY DEF NextRead
<1>3. InOrder(c, after)
  BY <1>1, OrderKept
<1>4. ExactPlan(c, after, ops)
  BY <1>1, ExactKept
<1>5. after \in Partial(Nat \X Attr, Nat)
  <2>1. Observed(c, d, s) \in Nat
    BY <1>1, <1>2, ObservedNat
  <2>2. /\ DOMAIN p.saw \subseteq Nat \X Attr
        /\ \A q \in DOMAIN p.saw : p.saw[q] \in Nat
    BY <1>1, PartialFcn
  <2>3. d \in Nat \X Attr
    BY <1>1, <1>2 DEF Declared, Managed, Expected
  <2>4. after \in [DOMAIN p.saw \cup {d} -> Nat]
    BY <2>1, <2>2 DEF WithRead
  <2> QED
    BY <2>2, <2>3, <2>4 DEF Partial
<1> HIDE DEF after, ops
<1>6. ops \in Seq(Operation)
  BY <1>4 DEF ExactPlan
<1>7. [cfg |-> c, saw |-> after, ops |-> ops] \in PlanRecord
  BY <1>1, <1>5, <1>6 DEF PlanRecord
<1> QED
  BY <1>3, <1>4, <1>7 DEF SoundPlan, after, ops

(* A read replaces two of a plan's three parts. *)
LEMMA ReadReplaces ==
    ASSUME NEW p \in PlanRecord, NEW saw, NEW ops
    PROVE  [p EXCEPT !.saw = saw, !.ops = ops] = [cfg |-> p.cfg, saw |-> saw, ops |-> ops]
<1>1. PICK before, planned : p = [cfg |-> p.cfg, saw |-> before, ops |-> planned]
  BY DEF PlanRecord
<1> DEFINE c == p.cfg
<1> HIDE DEF c
<1>2. [[cfg |-> c, saw |-> before, ops |-> planned] EXCEPT !.saw = saw]
      = [cfg |-> c, saw |-> saw, ops |-> planned]
  OBVIOUS
<1>3. [[cfg |-> c, saw |-> saw, ops |-> planned] EXCEPT !.ops = ops]
      = [cfg |-> c, saw |-> saw, ops |-> ops]
  OBVIOUS
<1> QED
  BY <1>1, <1>2, <1>3 DEF c

(* A finished plan is one that executing it lives up to. *)
LEMMA FinishedPlanFor ==
    ASSUME NEW p \in FinishedPlan
    PROVE  /\ PlanFor(p.cfg, Due(p.cfg, p.saw), p.ops)
           /\ \A d \in Managed(p.cfg) : d \in Due(p.cfg, p.saw) <=> ~Matches(p.cfg, d, p.saw[d])
<1>1. p \in SoundPlan /\ Finished(p)
  BY DEF FinishedPlan
<1>2. p.cfg \in Configs /\ ReadAll(p.cfg, p.saw)
  BY <1>1, SoundPlanFacts DEF Finished
<1>3. /\ p.cfg \in Seq(ResourceConfig)
      /\ Accepted(p.cfg)
      /\ Unaliased(p.cfg)
  BY <1>2, ConfigsAssumption
<1>4. PlanFor(p.cfg, Due(p.cfg, p.saw), p.ops)
  <2>1. ExactPlan(p.cfg, p.saw, p.ops)
    BY <1>1, SoundPlanFacts
  <2>2. Due(p.cfg, p.saw) \subseteq Managed(p.cfg)
    BY DEF Due
  <2> QED
    BY <1>3, <2>1, <2>2 DEF PlanFor, ExactPlan, Accepted, Unaliased
<1>5. ASSUME NEW d \in Managed(p.cfg)
      PROVE  d \in Due(p.cfg, p.saw) <=> ~Matches(p.cfg, d, p.saw[d])
  <2>1. d \in Declared(p.cfg) /\ d \in DOMAIN p.saw
    BY <1>2 DEF Declared, ReadAll
  <2>2. Builds(p.cfg[d[1]])
    BY <1>3, <2>1, DeclaredPair DEF Accepted
  <2>3. d \notin Expected(p.cfg)
    BY <2>1, <2>2, BuiltApart, DeclaredPair
  <2> QED
    BY <2>1, <2>3 DEF Due, Matches
<1> QED
  BY <1>4, <1>5

-----------------------------------------------------------------------------
(* A document has a length. *)
LEMMA SizeNat ==
    ASSUME NEW ops \in Seq(Operation)
    PROVE  Size(ops) \in Nat /\ Size(ops) >= 1
<1> DEFINE sets == {k \in 1..Len(ops) : OpSize(ops[k]) = 2}
<1>1. Len(ops) \in Nat /\ IsFiniteSet(1..Len(ops))
  BY FS_Interval
<1>2. IsFiniteSet(sets)
  BY <1>1, FS_Subset
<1>3. Cardinality(sets) \in Nat
  BY <1>2, FS_CardinalityType
<1> HIDE DEF sets
<1>4. 1 + Len(ops) + Cardinality(sets) \in Nat /\ 1 + Len(ops) + Cardinality(sets) >= 1
  BY <1>1, <1>3
<1> QED
  BY <1>4 DEF Size, sets

-----------------------------------------------------------------------------
(* The invariant. *)

LEMMA InitIInv == Init => IInv
<1> SUFFICES ASSUME Init PROVE IInv
  OBVIOUS
<1>1. Idle \in Exporting
  BY NothingPlannedSound DEF Idle, Exporting
<1>2. run \in [User -> Exporting] /\ \A u \in User : run[u].step = "idle"
  BY <1>1 DEF Init, Idle
<1>3. file \in [size : Nat, whole : BOOLEAN, plan : SoundPlan] /\ file.whole = FALSE
  BY NothingPlannedSound DEF Init, EmptyFile
<1>4. queue \in Seq(FinishedPlan) /\ Len(queue) <= MaxQueue
  BY BoundAssumption DEF Init
<1>5. chain \in ChainState /\ declared \in Configs /\ faults \in 0..MaxFaults
  BY ChainAssumption, BoundAssumption DEF Init
<1> QED
  BY <1>2, <1>3, <1>4, <1>5 DEF IInv, TypeInv, AloneInv

(* A fault is one of a bounded number. *)
LEMMA FaultType ==
    ASSUME faults \in 0..MaxFaults, Fault
    PROVE  faults' \in 0..MaxFaults
BY BoundAssumption DEF Fault

(* An export that gives up, or is done, frees whoever else has the file    *)
(* open from nothing: nobody who was alone shares it with another.         *)
LEMMA IdleKeepsRun ==
    ASSUME IInv, NEW u \in User, run' = [run EXCEPT ![u] = Idle]
    PROVE  /\ run' \in [User -> Exporting]
           /\ run'[u].step = "idle"
           /\ \A x \in User \ {u} : run'[x] = run[x]
           /\ \A x \in User : run'[x].step = "reading" => run'[x].plan.cfg # << >>
           /\ \A x \in User : run'[x].step = "created" => Finished(run'[x].plan)
<1>1. Idle \in Exporting /\ Idle.step = "idle"
  BY NothingPlannedSound DEF Idle, Exporting
<1>2. run \in [User -> Exporting]
  BY DEF IInv, TypeInv
<1>3. run'[u] = Idle /\ \A x \in User \ {u} : run'[x] = run[x]
  BY <1>2
<1>4. run' \in [User -> Exporting]
  BY <1>1, <1>2
<1>5. \A x \in User : run'[x] = run[x] \/ run'[x].step = "idle"
  BY <1>1, <1>3
<1> QED
  BY <1>1, <1>3, <1>4, <1>5 DEF IInv

LEMMA NextIInv == IInv /\ [Next]_vars => IInv'
<1> SUFFICES ASSUME IInv, [Next]_vars PROVE IInv'
  OBVIOUS
<1>t. TypeInv /\ run \in [User -> Exporting]
  BY DEF IInv, TypeInv
<1>f. /\ file \in [size : Nat, whole : BOOLEAN, plan : SoundPlan]
      /\ file.size \in Nat
      /\ file.plan \in SoundPlan
      /\ file.whole => Finished(file.plan)
  BY DEF IInv, TypeInv
<1>q. \A u \in User :
          /\ run[u].plan \in SoundPlan
          /\ run[u].step = "created" => Finished(run[u].plan)
  BY <1>t DEF Exporting, IInv
<1>1. CASE ForeignWrite
  <2>1. PICK s \in Slot : \E v \in ValuesOf(s[2]) : chain' = [chain EXCEPT ![s] = v]
    BY <1>1 DEF ForeignWrite
  <2>v. PICK v \in ValuesOf(s[2]) : chain' = [chain EXCEPT ![s] = v]
    BY <2>1
  <2>2. chain' \in ChainState
    <3>1. chain \in ChainState
      BY <1>t DEF TypeInv
    <3>2. [chain EXCEPT ![s] = v] \in ChainState
      BY <3>1, WriteKeepsChain
    <3> QED
      BY <2>v, <3>2
  <2>3. faults' \in 0..MaxFaults
    BY <1>t, <1>1, FaultType DEF TypeInv, ForeignWrite
  <2> QED
    BY <1>1, <2>2, <2>3 DEF ForeignWrite, IInv, TypeInv, AloneInv
<1>2. CASE Edit
  <2>1. declared' \in Configs
    BY <1>2 DEF Edit
  <2>2. faults' \in 0..MaxFaults
    BY <1>t, <1>2, FaultType DEF TypeInv, Edit
  <2> QED
    BY <1>2, <2>1, <2>2 DEF Edit, IInv, TypeInv, AloneInv
<1>3. ASSUME NEW u \in User, ExportFails(u) PROVE IInv'
  <2>1. run' = [run EXCEPT ![u] = Idle]
    BY <1>3 DEF ExportFails
  <2>2. faults' \in 0..MaxFaults
    BY <1>t, <1>3, FaultType DEF TypeInv, ExportFails
  <2>3. AloneInv'
    <3>1. run'[u].step = "idle" /\ \A x \in User \ {u} : run'[x] = run[x]
      BY <2>1, IdleKeepsRun
    <3> QED
      BY <1>3, <3>1 DEF ExportFails, IInv, AloneInv
  <2> QED
    BY <1>3, <2>1, <2>2, <2>3, IdleKeepsRun DEF ExportFails, IInv, TypeInv
<1>4. ASSUME NEW u \in User, ExportDies(u) PROVE IInv'
  <2>1. run' = [run EXCEPT ![u] = Idle] /\ run[u].step = "created"
    BY <1>4 DEF ExportDies
  <2>2. faults' \in 0..MaxFaults
    BY <1>t, <1>4, FaultType DEF TypeInv, ExportDies
  <2>3. AloneInv'
    <3>1. run'[u].step = "idle" /\ \A x \in User \ {u} : run'[x] = run[x]
      BY <2>1, IdleKeepsRun
    <3> QED
      BY <2>1, <3>1 DEF IInv, AloneInv
  <2>4. /\ file' \in [size : Nat, whole : BOOLEAN, plan : SoundPlan]
        /\ file'.whole => Finished(file'.plan)
    <3>1. CASE UNCHANGED file
      BY <1>f, <3>1
    <3>2. ASSUME NEW n \in (file.size + 1)..(Size(run[u].plan.ops) - 1),
                 file' = [size |-> n, whole |-> FALSE, plan |-> NothingPlanned]
          PROVE  /\ file' \in [size : Nat, whole : BOOLEAN, plan : SoundPlan]
                 /\ file'.whole => Finished(file'.plan)
      <4>1. n \in Nat
        <5>1. Size(run[u].plan.ops) \in Nat
          BY <1>q, SoundPlanFacts, SizeNat
        <5> QED
          BY <1>f, <5>1
      <4> QED
        BY <3>2, <4>1, NothingPlannedSound
    <3> QED
      BY <1>4, <3>1, <3>2 DEF ExportDies
  <2> QED
    BY <1>4, <2>1, <2>2, <2>3, <2>4, IdleKeepsRun DEF ExportDies, IInv, TypeInv
<1>5. ASSUME NEW u \in User, Begin(u) PROVE IInv'
  <2> DEFINE plan == [NothingPlanned EXCEPT !.cfg = declared]
  <2>1. plan \in SoundPlan /\ plan.cfg # << >>
    <3>1. declared \in Configs
      BY <1>t DEF TypeInv
    <3> QED
      BY <3>1, StartSound, ConfigsAssumption DEF NothingPlanned
  <2>2. PICK stray \in BOOLEAN :
            run' = [run EXCEPT ![u] =
                [step |-> "reading", stray |-> stray, alone |-> FALSE, plan |-> plan]]
    BY <1>5 DEF Begin, Idle
  <2> HIDE DEF plan
  <2>3. [step |-> "reading", stray |-> stray, alone |-> FALSE, plan |-> plan] \in Exporting
    BY <2>1 DEF Exporting
  <2>4. /\ run' \in [User -> Exporting]
        /\ run'[u].step = "reading" /\ run'[u].plan = plan
        /\ \A x \in User \ {u} : run'[x] = run[x]
    BY <1>t, <2>2, <2>3
  <2>5. faults' \in 0..MaxFaults
    BY <1>t, <1>5, FaultType DEF TypeInv, Begin
  <2>6. AloneInv'
    BY <1>5, <2>4 DEF Begin, IInv, AloneInv
  <2> QED
    BY <1>5, <2>1, <2>4, <2>5, <2>6 DEF Begin, IInv, TypeInv
<1>6. ASSUME NEW u \in User, Read(u) PROVE IInv'
  <2> DEFINE c == run[u].plan.cfg
             saw == run[u].plan.saw
             state == IF run[u].stray THEN Elsewhere ELSE chain
  <2>1. PICK p \in NextRead(c, saw) :
            run' = [run EXCEPT
                ![u].plan.saw = WithRead(c, saw, p, state),
                ![u].plan.ops = WithOp(c, @, p, Observed(c, p, state))]
    BY <1>6 DEF Read
  <2> DEFINE plan == [cfg |-> c, saw |-> WithRead(c, saw, p, state),
                      ops |-> WithOp(c, run[u].plan.ops, p, Observed(c, p, state))]
  <2>2. state \in ChainState
    BY <1>t, ChainAssumption DEF TypeInv
  <2>3. plan \in SoundPlan
    <3>1. run[u].plan \in SoundPlan
      BY <1>q
    <3> HIDE DEF state
    <3> QED
      BY <2>2, <3>1, ReadSound
  <2>4. /\ run' \in [User -> Exporting]
        /\ run'[u].step = "reading" /\ run'[u].plan = plan
        /\ \A x \in User \ {u} : run'[x] = run[x]
    <3> DEFINE before == run[u]
    <3>1. /\ before \in Exporting
          /\ before.step = "reading"
          /\ before.plan \in PlanRecord
      BY <1>t, <1>6, <1>q DEF Read, SoundPlan
    <3>2. run'[u] = [before EXCEPT !.plan = plan]
      <4> DEFINE seen == WithRead(c, saw, p, state)
                 ops == WithOp(c, before.plan.ops, p, Observed(c, p, state))
      <4>1. run'[u] = [before EXCEPT !.plan.saw = seen, !.plan.ops = ops]
        BY <1>t, <2>1
      <4> HIDE DEF seen, ops, before
      <4>2. [before EXCEPT !.plan.saw = seen, !.plan.ops = ops]
            = [before EXCEPT !.plan = [@ EXCEPT !.saw = seen, !.ops = ops]]
        BY <3>1 DEF Exporting
      <4>3. [before.plan EXCEPT !.saw = seen, !.ops = ops] = [cfg |-> c, saw |-> seen, ops |-> ops]
        <5>1. before.plan.cfg = c
          BY DEF before
        <5> QED
          BY <3>1, <5>1, ReadReplaces
      <4>4. run'[u] = [before EXCEPT !.plan = [cfg |-> c, saw |-> seen, ops |-> ops]]
        BY <4>1, <4>2, <4>3
      <4> QED
        BY <4>4 DEF seen, ops, before
    <3>3. \A x \in User \ {u} : run'[x] = run[x]
      BY <1>t, <2>1
    <3>4. [before EXCEPT !.plan = plan] \in Exporting
      BY <2>3, <3>1 DEF Exporting
    <3> QED
      BY <1>t, <2>1, <3>1, <3>2, <3>3, <3>4 DEF Exporting
  <2>5. c # << >>
    BY <1>6 DEF Read, IInv
  <2> HIDE DEF plan
  <2>6. AloneInv'
    BY <1>6, <2>4 DEF Read, IInv, AloneInv
  <2> QED
    BY <1>6, <2>4, <2>5, <2>6 DEF Read, IInv, TypeInv, plan
<1>7. ASSUME NEW u \in User, Create(u) PROVE IInv'
  <2> DEFINE alone == \A x \in User \ {u} : run[x].step # "created"
  <2>1. /\ run' = [w \in User |->
               IF w = u THEN [run[u] EXCEPT !.step = "created", !.stray = FALSE,
                                 !.alone = alone]
               ELSE [run[w] EXCEPT !.alone = FALSE]]
        /\ file' = EmptyFile
        /\ Finished(run[u].plan)
    BY <1>7 DEF Create, Opened, Planned, Finished, IInv
  <2>2. /\ run'[u] \in Exporting
        /\ run'[u].step = "created" /\ run'[u].plan = run[u].plan
        /\ run'[u].alone = alone
    BY <1>t, <2>1 DEF Exporting
  <2> HIDE DEF alone
  <2>3. ASSUME NEW w \in User \ {u}
        PROVE  /\ run'[w] \in Exporting
               /\ run'[w].step = run[w].step /\ run'[w].plan = run[w].plan
               /\ run'[w].alone = FALSE
    BY <1>t, <2>1 DEF Exporting
  <2>4. run' \in [User -> Exporting]
    BY <2>1, <2>2, <2>3
  <2>5. /\ file' \in [size : Nat, whole : BOOLEAN, plan : SoundPlan]
        /\ file'.size = 0 /\ file'.whole = FALSE
    BY <2>1, NothingPlannedSound DEF EmptyFile
  <2>6. AloneInv'
    BY <2>2, <2>3, <2>5 DEF AloneInv, alone
  <2> QED
    BY <1>7, <2>1, <2>2, <2>3, <2>4, <2>5, <2>6 DEF Create, IInv, TypeInv
<1>8. ASSUME NEW u \in User, Write(u) PROVE IInv'
  <2>1. run' = [run EXCEPT ![u] = Idle] /\ run[u].step = "created"
    BY <1>8 DEF Write
  <2>2. AloneInv'
    <3>1. run'[u].step = "idle" /\ \A x \in User \ {u} : run'[x] = run[x]
      BY <2>1, IdleKeepsRun
    <3> QED
      BY <2>1, <3>1 DEF IInv, AloneInv
  <2>3. /\ file' \in [size : Nat, whole : BOOLEAN, plan : SoundPlan]
        /\ file'.whole => Finished(file'.plan)
    <3> DEFINE p == run[u].plan
               n == Size(p.ops)
    <3>1. file' = IF file.size <= n
                  THEN [size |-> n, whole |-> TRUE, plan |-> p]
                  ELSE [size |-> file.size, whole |-> FALSE, plan |-> NothingPlanned]
      BY <1>8 DEF Write
    <3>2. p \in SoundPlan /\ Finished(p)
      BY <1>q, <2>1
    <3>3. n \in Nat
      BY <3>2, SoundPlanFacts, SizeNat
    <3> HIDE DEF p, n
    <3> QED
      BY <1>f, <3>1, <3>2, <3>3, NothingPlannedSound
  <2> QED
    BY <1>8, <2>1, <2>2, <2>3, IdleKeepsRun DEF Write, IInv, TypeInv
<1>9. CASE Load
  <2>1. file.plan \in FinishedPlan
    BY <1>f, <1>9 DEF Load, FinishedPlan
  <2>2. queue' \in Seq(FinishedPlan) /\ Len(queue') <= MaxQueue
    <3>1. queue \in Seq(FinishedPlan) /\ Len(queue) \in Nat
      BY <1>t DEF TypeInv
    <3> QED
      BY <1>9, <2>1, <3>1, AppendFacts, BoundAssumption DEF Load
  <2> QED
    BY <1>9, <2>2 DEF Load, IInv, TypeInv, AloneInv
<1>10. ASSUME NEW k \in 1..Len(queue), Execute(k) \/ Reject(k) PROVE IInv'
  <2>1. queue' = Without(queue, k)
    BY <1>10 DEF Execute, Reject, Without
  <2>2. queue' \in Seq(FinishedPlan) /\ Len(queue') <= MaxQueue
    <3>1. queue \in Seq(FinishedPlan) /\ Len(queue) \in Nat /\ Len(queue) <= MaxQueue
      BY <1>t DEF TypeInv
    <3> QED
      BY <2>1, <3>1, WithoutFacts, BoundAssumption
  <2>3. chain' \in ChainState
    <3>1. CASE Reject(k)
      BY <1>t, <3>1 DEF Reject, TypeInv
    <3>2. CASE Execute(k)
      <4>1. chain \in ChainState /\ queue[k] \in FinishedPlan
        BY <1>t DEF TypeInv
      <4>2. PlanFor(queue[k].cfg, Due(queue[k].cfg, queue[k].saw), queue[k].ops)
        BY <4>1, FinishedPlanFor
      <4> QED
        BY <3>2, <4>1, <4>2, BatchSetsDeclared DEF Execute
    <3> QED
      BY <1>10, <3>1, <3>2
  <2>4. faults' \in 0..MaxFaults
    BY <1>t, <1>10, FaultType DEF TypeInv, Execute, Reject
  <2> QED
    BY <1>10, <2>2, <2>3, <2>4 DEF Execute, Reject, IInv, TypeInv, AloneInv
<1>11. CASE UNCHANGED vars
  BY <1>11 DEF vars, IInv, TypeInv, AloneInv
<1> QED
  BY <1>1, <1>2, <1>3, <1>4, <1>5, <1>6, <1>7, <1>8, <1>9, <1>10, <1>11 DEF Next, Export

(* Every state is as the invariant says. *)
LEMMA SpecIInv == Spec => []IInv
BY InitIInv, NextIInv, PTL DEF Spec

-----------------------------------------------------------------------------
(* The theorems. *)

(* Every plan in the making, in the file or in the Safe is of a version of *)
(* the configuration, read from its own declarations, with operations for  *)
(* what it manages; what a whole file or the Safe holds was read to its    *)
(* end.                                                                    *)
THEOREM TypeCorrect == Spec => []TypeOK
<1>1. IInv => TypeOK
  <2> SUFFICES ASSUME IInv PROVE TypeOK
    OBVIOUS
  <2>1. \A u \in User :
            /\ run[u].step \in {"idle", "reading", "created"}
            /\ run[u].stray \in BOOLEAN
            /\ run[u].alone \in BOOLEAN
            /\ run[u].plan \in SoundPlan
    BY DEF IInv, TypeInv, Exporting
  <2>2. \A u \in User : PlanOK(run[u].plan)
    BY <2>1, SoundPlanOK
  <2>3. /\ file.size \in Nat
        /\ file.whole \in BOOLEAN
        /\ file.plan \in SoundPlan
    BY DEF IInv, TypeInv
  <2>4. PlanOK(file.plan)
    BY <2>3, SoundPlanOK
  <2>5. \A k \in 1..Len(queue) : queue[k] \in FinishedPlan
    BY DEF IInv, TypeInv
  <2>6. \A k \in 1..Len(queue) : PlanOK(queue[k]) /\ Finished(queue[k])
    BY <2>5, SoundPlanOK DEF FinishedPlan
  <2> QED
    BY <2>1, <2>2, <2>3, <2>4, <2>6 DEF IInv, TypeInv, TypeOK
<1> QED
  BY SpecIInv, <1>1, PTL

(* However long a batch has waited and whatever was done meanwhile, if the *)
(* chain now is as its export saw it, executing it goes through and leaves *)
(* the chain as its configuration declares.                                *)
THEOREM QueuedFits == Spec => []QueuedStillFits
<1>1. IInv => QueuedStillFits
  <2> SUFFICES ASSUME IInv, NEW k \in 1..Len(queue),
                      \A p \in Managed(queue[k].cfg) :
                          Observed(queue[k].cfg, p, chain) = queue[k].saw[p]
               PROVE  /\ Executes(queue[k].ops, chain)
                      /\ \A p \in Managed(queue[k].cfg) :
                             Matches(queue[k].cfg, p,
                                 Observed(queue[k].cfg, p, After(queue[k].ops, chain)))
    BY DEF QueuedStillFits
  <2> DEFINE c == queue[k].cfg
             due == Due(c, queue[k].saw)
  <2>1. queue[k] \in FinishedPlan /\ chain \in ChainState
    BY DEF IInv, TypeInv
  <2>2. /\ PlanFor(c, due, queue[k].ops)
        /\ \A p \in Managed(c) : p \in due <=> ~Matches(c, p, queue[k].saw[p])
    BY <2>1, FinishedPlanFor
  <2>3. \A p \in Managed(c) : p \in due <=> ~Matches(c, p, Observed(c, p, chain))
    BY <2>2
  <2> HIDE DEF c, due
  <2>4. /\ Executes(queue[k].ops, chain)
        /\ \A p \in Managed(c) : Matches(c, p, Observed(c, p, After(queue[k].ops, chain)))
    BY <2>1, <2>2, <2>3, BatchCorrects
  <2> QED
    BY <2>4 DEF c
<1> QED
  BY SpecIInv, <1>1, PTL

(* Whatever batch is executed, on whatever chain, a slot changes only to   *)
(* the value that batch's configuration declares for it.                   *)
THEOREM ExecutionDeclared == Spec => ExecutionSetsDeclared
<1>1. IInv /\ [Next]_vars =>
          [\A k \in 1..Len(queue) : Execute(k) =>
              \A s \in Slot : chain'[s] # chain[s] =>
                  \E p \in Managed(queue[k].cfg) :
                      /\ SlotOf(queue[k].cfg, p) = s
                      /\ chain'[s] = queue[k].cfg[p[1]].spec[p[2]]]_vars
  <2> SUFFICES ASSUME IInv, NEW k \in 1..Len(queue), Execute(k),
                      NEW s \in Slot, chain'[s] # chain[s]
               PROVE  \E p \in Managed(queue[k].cfg) :
                          /\ SlotOf(queue[k].cfg, p) = s
                          /\ chain'[s] = queue[k].cfg[p[1]].spec[p[2]]
    OBVIOUS
  <2> DEFINE c == queue[k].cfg
             due == Due(c, queue[k].saw)
  <2>1. queue[k] \in FinishedPlan /\ chain \in ChainState
    BY DEF IInv, TypeInv
  <2>2. PlanFor(c, due, queue[k].ops) /\ due \subseteq Managed(c)
    BY <2>1, FinishedPlanFor DEF PlanFor
  <2>3. chain' = After(queue[k].ops, chain)
    BY DEF Execute
  <2> HIDE DEF c, due
  <2>4. \E p \in due : SlotOf(c, p) = s /\ chain'[s] = c[p[1]].spec[p[2]]
    BY <2>1, <2>2, <2>3, BatchSetsDeclared
  <2> QED
    BY <2>2, <2>4 DEF c
<1> QED
  BY SpecIInv, <1>1, PTL DEF Spec, ExecutionSetsDeclared

(* An export that had the file to itself leaves its own batch there.       *)
THEOREM ExportReplacesFile == Spec => ExportReplaces
<1>1. IInv /\ [Next]_vars =>
          [\A u \in User : Write(u) /\ run[u].alone =>
              file'.whole /\ file'.plan = run[u].plan]_vars
  <2> SUFFICES ASSUME IInv, NEW u \in User, Write(u), run[u].alone
               PROVE  file'.whole /\ file'.plan = run[u].plan
    OBVIOUS
  <2>1. file.size = 0
    BY DEF IInv, AloneInv, Write
  <2>2. Size(run[u].plan.ops) \in Nat
    <3>1. run[u].plan \in SoundPlan
      BY DEF IInv, TypeInv, Exporting
    <3> QED
      BY <3>1, SoundPlanFacts, SizeNat
  <2>3. file' = [size |-> Size(run[u].plan.ops), whole |-> TRUE, plan |-> run[u].plan]
    BY <2>1, <2>2 DEF Write
  <2> QED
    BY <2>3
<1> QED
  BY SpecIInv, <1>1, PTL DEF Spec, ExportReplaces
=============================================================================
