-------------------------- MODULE ReconcileProofs --------------------------
(***************************************************************************)
(* What holds of Reconcile for every configuration, every chain and every  *)
(* interleaving of the run with other accounts' writes.                    *)
(*                                                                         *)
(* The inductive invariant IInv adds three things to the properties: the   *)
(* control state (ControlInv), that the State map holds what was read for  *)
(* this very resource (StateIsSeen), and the exit code read against the    *)
(* plan (ExitMeansDrift).  Each conjunct has a lemma of its own, ...Step,  *)
(* with one step per action.                                               *)
(***************************************************************************)
EXTENDS Reconcile, BatchLemmas

(* The types of the parts of a configuration. *)
LEMMA ConfigFacts ==
    ASSUME NEW c \in Configs
    PROVE  /\ c \in Seq(ResourceConfig)
           /\ c # << >>
           /\ Len(c) \in Nat \ {0}
           /\ \A r \in 1..Len(c) :
                  /\ c[r] \in ResourceConfig
                  /\ c[r].addr \in Addr
                  /\ DOMAIN c[r].spec \subseteq Attr
                  /\ DOMAIN c[r].expect \subseteq Attr
                  /\ \A a \in DOMAIN c[r].spec : c[r].spec[a] \in Raw
                  /\ \A a \in DOMAIN c[r].expect : c[r].expect[a] \in Raw
<1>1. c \in Seq(ResourceConfig) /\ c # << >>
  BY ConfigsAssumption
<1>2. Len(c) \in Nat \ {0}
  BY <1>1
<1> QED
  BY <1>1, <1>2, ResourceFacts

(* The assertion for an expected attribute is an assertion. *)
LEMMA AssertionForType ==
    ASSUME NEW c \in Configs, NEW r \in 1..Len(c), NEW a \in DOMAIN c[r].expect,
           NEW v \in Nat
    PROVE  AssertionFor(c, r, a, v) \in Assertion
<1>1. a \in Attr /\ c[r].expect[a] \in Raw
  BY ConfigFacts
<1> QED
  BY <1>1 DEF AssertionFor, Assertion

-----------------------------------------------------------------------------
(* The current resource and what its loops range over are declared.        *)
LEMMA NamesDeclared ==
    ASSUME TypeOK, phase \in Loops
    PROVE  /\ res \in 1..Len(cfg)
           /\ Resource \in ResourceConfig
           /\ Names \subseteq Attr
           /\ \A a \in Names : <<res, a>> \in Declared(cfg)
           /\ phase \in {"refresh", "plan"} => Names = DOMAIN Resource.spec
           /\ phase \in {"refreshExpects", "assert"} => Names = DOMAIN Resource.expect
<1>1. res \in 1..Len(cfg)
  BY ConfigFacts DEF TypeOK
<1>2. /\ Resource \in ResourceConfig
      /\ DOMAIN Resource.spec \subseteq Attr
      /\ DOMAIN Resource.expect \subseteq Attr
  BY <1>1, ConfigFacts DEF TypeOK, Resource
<1>3. /\ phase \in {"refresh", "plan"} => Names = DOMAIN Resource.spec
      /\ phase \in {"refreshExpects", "assert"} => Names = DOMAIN Resource.expect
  BY DEF Names
<1>4. \A a \in Names : <<res, a>> \in Declared(cfg)
  BY <1>1, <1>2, <1>3 DEF Declared, Managed, Expected, Resource, Loops, Reading
<1> QED
  BY <1>1, <1>2, <1>3, <1>4 DEF Loops, Reading

(* TypeOK is inductive relative to ControlInv and StateIsSeen: a value is  *)
(* compared and asserted only because the State map holds it.              *)
LEMMA InitType == Init => TypeOK
<1> SUFFICES ASSUME Init PROVE TypeOK
  OBVIOUS
<1>1. heads \in Seq(ChainState) /\ heads # << >> /\ Len(heads) = 1
  <2>1. PICK c \in ChainState : heads = <<c>>
    BY ChainAssumption DEF Init
  <2> QED
    BY <2>1
<1>2. cfg \in Configs /\ Len(cfg) \in Nat \ {0}
  BY ConfigFacts DEF Init
<1>3. call \in EthCall /\ call.head <= Len(heads)
  BY <1>1 DEF Init, NoCall, EthCall
<1>4. DOMAIN current = {} /\ DOMAIN seen = {}
  BY DEF Init, NoState, NothingSeen
<1>5. ops \in Seq(Operation) /\ asserts \in Seq(Assertion)
  BY DEF Init
<1>6. res \in 1..(Len(cfg) + 1) /\ begun \in 0..Len(heads) /\ done \subseteq Attr
  BY <1>1, <1>2 DEF Init
<1> QED
  BY <1>1, <1>2, <1>3, <1>4, <1>5, <1>6
  DEF Init, TypeOK, Loops, Reading, Running, ExitNoDrift, ExitDrift, ExitFailure

(* One step per action; a comparison needs the attribute in the State map. *)
LEMMA TypeStep ==
    TypeOK /\ ControlInv /\ StateIsSeen /\ [Next]_vars => TypeOK'
<1> SUFFICES ASSUME TypeOK, ControlInv, StateIsSeen, [Next]_vars
             PROVE  TypeOK'
  OBVIOUS
<1> USE DEF environment, results, history
<1>t. /\ heads \in Seq(ChainState)
      /\ Len(heads) \in Nat \ {0}
      /\ call \in EthCall /\ call.head <= Len(heads)
      /\ ops \in Seq(Operation)
      /\ asserts \in Seq(Assertion)
  BY DEF TypeOK
<1>0. CASE UNCHANGED vars
  BY <1>0 DEF vars, TypeOK, Loops, Reading
<1>1. CASE ForeignWrite
  <2>1. PICK s \in Slot : \E v \in ValuesOf(s[2]) \ {Head_[s]} :
            heads' = Append(heads, [Head_ EXCEPT ![s] = v])
    BY <1>1 DEF ForeignWrite
  <2>2. PICK v \in ValuesOf(s[2]) : heads' = Append(heads, [Head_ EXCEPT ![s] = v])
    BY <2>1
  <2> DEFINE moved == [Head_ EXCEPT ![s] = v]
  <2>3. Head_ \in ChainState
    BY DEF TypeOK, Head_
  <2>4. moved \in ChainState /\ heads' = Append(heads, moved)
    BY <2>2, <2>3, WriteKeepsChain
  <2> HIDE DEF moved
  <2>5. /\ heads' \in Seq(ChainState)
        /\ heads' # << >>
        /\ Len(heads') = Len(heads) + 1
        /\ Len(heads) \in Nat
    <3>1. Append(heads, moved) \in Seq(ChainState)
      BY <2>4, <1>t, AppendFacts
    <3>2. Len(Append(heads, moved)) = Len(heads) + 1
      BY <2>4, <1>t, AppendFacts
    <3>3. heads' \in Seq(ChainState) /\ Len(heads') = Len(heads) + 1
      BY <2>4, <3>1, <3>2
    <3>4. Append(heads, moved) # << >>
      BY <2>4, <1>t, AppendFacts
    <3> QED
      BY <2>4, <3>3, <3>4, <1>t
  <2>6. call'.head <= Len(heads') /\ begun' \in 0..Len(heads')
    BY <1>1, <2>5, <1>t DEF ForeignWrite, EthCall, TypeOK
  <2>7. \A p \in DOMAIN seen' : seen'[p] \in 1..Len(heads')
    BY <1>1, <2>5 DEF ForeignWrite, TypeOK
  <2> QED
    BY <1>1, <2>5, <2>6, <2>7 DEF ForeignWrite, TypeOK, Loops, Reading
<1>2. CASE Interrupt
  BY <1>2 DEF Interrupt, TypeOK, Loops, Reading
<1>3. CASE Fail
  <2>1. call' \in EthCall /\ call'.head <= Len(heads)
    BY <1>3 DEF Fail, NoCall, EthCall, TypeOK
  <2> QED
    BY <1>3, <2>1 DEF Fail, TypeOK, Loops, Reading
<1>4. CASE Load
  BY <1>4 DEF Load, TypeOK, Loops, Reading
<1>5. CASE Build
  BY <1>5 DEF Build, TypeOK, Loops, Reading, NoState
<1>6. CASE Issue
  <2>1. PICK a \in Upcoming : call' = [attr |-> a, head |-> 0]
    BY <1>6 DEF Issue
  <2>2. a \in Attr
    BY <1>6, NamesDeclared DEF Issue, Upcoming, Left, Loops
  <2> QED
    BY <1>6, <2>1, <2>2, <1>t DEF Issue, TypeOK, Loops, Reading, EthCall
<1>7. CASE Answer
  <2>1. call' \in EthCall /\ call'.head <= Len(heads)
    BY <1>7, <1>t DEF Answer, EthCall
  <2> QED
    BY <1>7, <2>1 DEF Answer, TypeOK, Loops, Reading
<1>8. CASE Receive
  <2>1. /\ call.attr \in Names
        /\ phase \in Loops
    BY <1>8 DEF Receive, ControlInv, Upcoming, Left, Loops
  <2>2. /\ <<res, call.attr>> \in Declared(cfg)
        /\ call.attr \in Attr
        /\ Resource \in ResourceConfig
        /\ Resource.addr \in Addr
    BY <2>1, NamesDeclared DEF ResourceConfig
  <2>3. call.head \in 1..Len(heads)
    BY <1>8, <1>t DEF Receive, EthCall
  <2>4. heads[call.head] \in [Slot -> Raw]
    BY <2>3 DEF TypeOK, ChainState
  <2>5. heads[call.head][<<Resource.addr, call.attr>>] \in Raw
    BY <2>2, <2>4 DEF Slot
  <2> DEFINE value == Decode(Resource, heads[call.head][<<Resource.addr, call.attr>>])
  <2>6. value \in Nat
    BY <2>2, <2>5, DecodeNat
  <2>7a. /\ current' = Put(current, call.attr, value)
         /\ seen' = Put(seen, <<res, call.attr>>, call.head)
    BY <1>8 DEF Receive
  <2> HIDE DEF value
  <2>7. /\ DOMAIN current' \subseteq Attr
        /\ \A a \in DOMAIN current' : current'[a] \in Nat
    BY <2>7a, <2>2, <2>6 DEF Put, TypeOK
  <2>8. /\ DOMAIN seen' \subseteq Declared(cfg)
        /\ \A p \in DOMAIN seen' : seen'[p] \in 1..Len(heads)
    BY <2>7a, <2>2, <2>3 DEF Put, TypeOK
  <2>9. done' \subseteq Attr /\ call' \in EthCall /\ call'.head <= Len(heads)
    BY <1>8, <2>2 DEF Receive, TypeOK, NoCall, EthCall
  <2> QED
    BY <1>8, <2>7, <2>8, <2>9 DEF Receive, TypeOK, Loops, Reading
<1>9. CASE PlanAttr
  <2>1. PICK a \in Upcoming :
            /\ done' = done \cup {a}
            /\ ops' = ops \/ ops' = Append(ops, OpFor(cfg, res, a))
    BY <1>9 DEF PlanAttr
  <2>2. phase \in Loops /\ a \in DOMAIN Resource.spec /\ a \in Attr /\ res \in 1..Len(cfg)
    BY <1>9, NamesDeclared DEF PlanAttr, Upcoming, Left, Loops
  <2>3. OpFor(cfg, res, a) \in Operation
    BY <2>2, ConfigFacts, OpForType DEF TypeOK, Resource
  <2>4. ops' \in Seq(Operation)
    BY <2>1, <2>3, <1>t, AppendFacts
  <2> QED
    BY <1>9, <2>1, <2>2, <2>4 DEF PlanAttr, TypeOK, Loops, Reading
<1>10. CASE AssertAttr
  <2>1. PICK a \in Upcoming :
            /\ done' = done \cup {a}
            /\ asserts' = Append(asserts, AssertionFor(cfg, res, a, current[a]))
    BY <1>10 DEF AssertAttr
  <2>2. /\ phase \in Loops
        /\ a \in DOMAIN Resource.expect
        /\ a \in Attr
        /\ res \in 1..Len(cfg)
    BY <1>10, NamesDeclared DEF AssertAttr, Upcoming, Left, Loops
  <2>3. current[a] \in Nat
    BY <1>10, <2>2 DEF AssertAttr, StateIsSeen, Held, TypeOK
  <2>4. AssertionFor(cfg, res, a, current[a]) \in Assertion
    BY <2>2, <2>3, AssertionForType DEF TypeOK, Resource
  <2>5. asserts' \in Seq(Assertion)
    BY <2>1, <2>4, <1>t, AppendFacts
  <2> QED
    BY <1>10, <2>1, <2>2, <2>5 DEF AssertAttr, TypeOK, Loops, Reading
<1>11. CASE Advance
  <2>1. res \in 1..Len(cfg)
    BY <1>11, NamesDeclared DEF Advance
  <2>2. /\ phase' \in {"build"} \cup Loops
        /\ res' \in 1..(Len(cfg) + 1)
        /\ phase' \in Loops => res' <= Len(cfg)
    BY <1>11, <2>1, ConfigFacts DEF Advance, Loops, Reading, TypeOK
  <2> QED
    BY <1>11, <2>2 DEF Advance, TypeOK, Loops, Reading
<1>12. CASE Finish
  BY <1>12 DEF Finish, TypeOK, Loops, Reading
<1>13. CASE Exited
  BY <1>13, <1>0 DEF Exited
<1> QED
  BY <1>0, <1>1, <1>2, <1>3, <1>4, <1>5, <1>6, <1>7, <1>8, <1>9, <1>10, <1>11,
     <1>12, <1>13
  DEF Next, Step, LoadFails, BuildFails, AbiFails, CallFails, Cancelled, PlanFails,
      RenderFails

-----------------------------------------------------------------------------
(* The control state at the start, and step by step. *)
LEMMA InitControl == Init => ControlInv
BY DEF Init, ControlInv, Loops, Reading, Running, ExitNoDrift, ExitDrift, NoCall

(* The attribute a loop takes next comes after all those it has handled    *)
(* and before all those it has left.                                       *)
LEMMA UpcomingFacts ==
    ASSUME TypeOK, ControlInv, phase \in Loops, NEW a \in Upcoming
    PROVE  /\ a \in Names
           /\ a \notin done
           /\ \A x \in done : x < a
           /\ done \cup {a} \subseteq Names
           /\ \A b \in Names \ (done \cup {a}) : a < b
<1>1. /\ a \in Left
      /\ \A b \in Left : a <= b
      /\ Left \subseteq Names
      /\ Names \subseteq Attr
      /\ Attr \subseteq Nat
  BY NamesDeclared, AttrAssumption DEF Upcoming, Left
<1>2. \A b \in Names \ (done \cup {a}) : b \in Left /\ b # a
  BY DEF Left
<1> QED
  BY <1>1, <1>2 DEF ControlInv, Left

(* No step leaves the loops' order or the phases' succession. *)
LEMMA ControlStep ==
    TypeOK /\ ControlInv /\ [Next]_vars => ControlInv'
<1> SUFFICES ASSUME TypeOK, ControlInv, [Next]_vars
             PROVE  ControlInv'
  OBVIOUS
<1> USE DEF environment, results, history
<1>s. ASSUME UNCHANGED <<exit, phase, res, cfg, call, done>>
      PROVE  ControlInv'
  BY <1>s DEF ControlInv, Upcoming, Left, Names, Resource
<1>0. CASE UNCHANGED vars
  BY <1>0, <1>s DEF vars
<1>1. CASE ForeignWrite
  BY <1>1, <1>s DEF ForeignWrite
<1>2. CASE Interrupt
  BY <1>2, <1>s DEF Interrupt
<1>3. CASE Fail
  BY <1>3 DEF Fail, ControlInv, Running, ExitFailure, ExitNoDrift, ExitDrift,
              Loops, Reading
<1>4. CASE Load
  BY <1>4 DEF Load, ControlInv, Loops, Reading
<1>5. CASE Build
  <2>1. /\ phase' = "refresh" /\ done' = {} /\ Builds(cfg[res]) /\ call = NoCall
        /\ cfg' = cfg /\ res' = res /\ exit' = exit /\ call' = NoCall
    BY <1>5 DEF Build, ControlInv, Resource, Reading
  <2>2. \A r \in 1..Len(cfg) : r < res \/ r = res => Builds(cfg[r])
    BY <2>1 DEF ControlInv
  <2> QED
    BY <1>5, <2>1, <2>2 DEF Build, ControlInv, Loops, Reading
<1>6. CASE Issue
  <2>1. PICK a \in Upcoming : call' = [attr |-> a, head |-> 0]
    BY <1>6 DEF Issue
  <2>2. call'.attr = a
    BY <2>1
  <2>3. Upcoming' = Upcoming /\ Left' = Left /\ Names' = Names
    BY <1>6 DEF Issue, Upcoming, Left, Names, Resource
  <2> QED
    BY <1>6, <2>1, <2>2, <2>3 DEF Issue, ControlInv
<1>7. CASE Answer
  <2>1. call'.attr = call.attr
    BY <1>7 DEF Answer, TypeOK, EthCall
  <2>2. Upcoming' = Upcoming /\ Left' = Left /\ Names' = Names
    BY <1>7 DEF Answer, Upcoming, Left, Names, Resource
  <2> QED
    BY <1>7, <2>1, <2>2 DEF Answer, ControlInv
<1>8. ASSUME NEW a \in Upcoming, phase \in Loops, done' = done \cup {a},
             UNCHANGED <<phase, res, cfg>>
      PROVE  /\ Names' = Names
             /\ done' \subseteq Names'
             /\ \A x \in done', b \in Left' : x < b
  <2>1. Names' = Names
    BY <1>8 DEF Names, Resource
  <2>2. Left' = Names \ (done \cup {a})
    BY <1>8, <2>1 DEF Left
  <2> QED
    BY <1>8, <2>1, <2>2, UpcomingFacts DEF Left, ControlInv
<1>9. CASE PlanAttr
  <2>1. PICK a \in Upcoming : done' = done \cup {a}
    BY <1>9 DEF PlanAttr
  <2> QED
    BY <1>9, <2>1, <1>8 DEF PlanAttr, ControlInv, Loops, Reading
<1>10. CASE AssertAttr
  <2>1. PICK a \in Upcoming : done' = done \cup {a}
    BY <1>10 DEF AssertAttr
  <2> QED
    BY <1>10, <2>1, <1>8 DEF AssertAttr, ControlInv, Loops, Reading
<1>11. CASE Receive
  <2>1. phase \in Reading /\ call.attr \in Upcoming /\ done' = done \cup {call.attr}
    BY <1>11 DEF Receive, ControlInv
  <2> QED
    BY <1>11, <2>1, <1>8 DEF Receive, ControlInv, Loops
<1>12. CASE Advance
  <2>1. /\ done' = {} /\ call' = NoCall /\ cfg' = cfg /\ exit' = exit
        /\ phase' # "exited" /\ phase # "exited"
    BY <1>12 DEF Advance, Loops, Reading
  <2>2. \A r \in 1..Len(cfg) : r < res \/ r = res => Builds(cfg[r])
    BY <1>12 DEF Advance, ControlInv
  <2>3. (phase = "assert" /\ phase' = "build" /\ res' = res + 1) \/ res' = res
    BY <1>12 DEF Advance, Loops, Reading
  <2>4. \A r \in 1..Len(cfg) :
            r < res' \/ (r = res' /\ phase' \in Loops) => Builds(cfg[r])
    BY <2>2, <2>3 DEF TypeOK, Loops, Reading
  <2> QED
    BY <2>1, <2>4 DEF ControlInv, Running, ExitNoDrift, ExitDrift
<1>13. CASE Finish
  BY <1>13 DEF Finish, ControlInv, TypeOK, Loops, Reading, Running, ExitNoDrift,
               ExitDrift
<1>14. CASE Exited
  BY <1>14, <1>0 DEF Exited
<1> QED
  BY <1>0, <1>1, <1>2, <1>3, <1>4, <1>5, <1>6, <1>7, <1>9, <1>10, <1>11,
     <1>12, <1>13, <1>14
  DEF Next, Step, LoadFails, BuildFails, AbiFails, CallFails, Cancelled, PlanFails,
      RenderFails

-----------------------------------------------------------------------------
(* A head once seen is not rewritten. *)
LEMMA SeenStable ==
    ASSUME TypeOK, ForeignWrite, NEW p \in DOMAIN seen
    PROVE  SeenValue(p)' = SeenValue(p)
<1>1. seen[p] \in 1..Len(heads) /\ seen'[p] = seen[p] /\ cfg' = cfg
  BY DEF TypeOK, ForeignWrite, history
<1>2. PICK s \in Slot : \E v \in ValuesOf(s[2]) \ {Head_[s]} :
          heads' = Append(heads, [Head_ EXCEPT ![s] = v])
  BY DEF ForeignWrite
<1>3. PICK v : heads' = Append(heads, [Head_ EXCEPT ![s] = v])
  BY <1>2
<1> DEFINE moved == [Head_ EXCEPT ![s] = v]
<1>4. heads' = Append(heads, moved) /\ heads \in Seq(ChainState)
  BY <1>3 DEF TypeOK
<1> HIDE DEF moved
<1>5. heads'[seen[p]] = heads[seen[p]]
  BY <1>1, <1>4
<1> QED
  BY <1>1, <1>5 DEF SeenValue, Observed, SlotOf

(* Nothing is declared before the first resource. *)
LEMMA InitSeen == Init => StateIsSeen
<1> SUFFICES ASSUME Init PROVE StateIsSeen
  OBVIOUS
<1>1. cfg \in Configs /\ res = 1 /\ phase \notin Loops
  BY DEF Init, Loops, Reading
<1>2. \A p \in Declared(cfg) : ~(p[1] < res)
  BY <1>1, DeclaredPair
<1> QED
  BY <1>1, <1>2 DEF StateIsSeen

(* A loop that ends has read all it ranges over; Build starts a new map. *)
LEMMA SeenStep ==
    TypeOK /\ ControlInv /\ StateIsSeen /\ [Next]_vars => StateIsSeen'
<1> SUFFICES ASSUME TypeOK, ControlInv, StateIsSeen, [Next]_vars
             PROVE  StateIsSeen'
  OBVIOUS
<1> USE DEF environment, results, history
<1>s. ASSUME UNCHANGED <<heads, phase, res, cfg, current, seen>>,
             phase \in Loops => Held' = Held
      PROVE  StateIsSeen'
  BY <1>s DEF StateIsSeen, SeenValue, Observed, SlotOf, Declared, Managed, Expected
<1>n. ASSUME phase' \notin Loops, UNCHANGED <<res, cfg, seen>>
      PROVE  StateIsSeen'
  BY <1>n DEF StateIsSeen, Declared, Managed, Expected
<1>0. CASE UNCHANGED vars
  BY <1>0, <1>s DEF vars, Held, Resource
<1>1. CASE ForeignWrite
  <2>1. /\ \A p \in DOMAIN seen : SeenValue(p)' = SeenValue(p)
        /\ Held' = Held
    BY <1>1, SeenStable DEF Held, Resource, ForeignWrite
  <2> QED
    BY <1>1, <2>1 DEF ForeignWrite, StateIsSeen, Declared, Managed, Expected
<1>2. CASE Interrupt
  BY <1>2, <1>s DEF Interrupt, Held, Resource
<1>3. CASE Fail
  BY <1>3, <1>n DEF Fail, Loops, Reading
<1>4. CASE Load
  BY <1>4, <1>n DEF Load, Loops, Reading
<1>5. CASE Build
  <2>1. Held' = {}
    BY <1>5 DEF Build, Held
  <2> QED
    BY <1>5, <2>1 DEF Build, StateIsSeen, Declared, Managed, Expected
<1>6. CASE Issue
  BY <1>6, <1>s DEF Issue, Held, Resource
<1>7. CASE Answer
  BY <1>7, <1>s DEF Answer, Held, Resource
<1>8. CASE Receive
  <2>a. PICK a : a = call.attr
    OBVIOUS
  <2>v. PICK value : value = Decode(Resource, heads[call.head][<<Resource.addr, a>>])
    OBVIOUS
  <2>h. PICK head : head = call.head
    OBVIOUS
  <2>1. /\ phase \in Reading
        /\ current' = Put(current, a, value)
        /\ seen' = Put(seen, <<res, a>>, head)
        /\ done' = done \cup {a}
        /\ UNCHANGED <<heads, phase, res, cfg>>
    BY <1>8, <2>a, <2>v, <2>h DEF Receive, ControlInv
  <2>2. Held' = Held \cup {a}
    BY <2>1 DEF Held, Reading, Resource
  <2>3. /\ DOMAIN current' = DOMAIN current \cup {a}
        /\ DOMAIN seen' = DOMAIN seen \cup {<<res, a>>}
        /\ current'[a] = value
        /\ seen'[<<res, a>>] = head
        /\ \A b \in DOMAIN current : b # a => current'[b] = current[b]
        /\ \A p \in DOMAIN seen : p # <<res, a>> => seen'[p] = seen[p]
    BY <2>1 DEF Put
  <2>4. SeenValue(<<res, a>>)' = value
    BY <2>1, <2>3, <2>v, <2>h DEF SeenValue, Observed, SlotOf, Resource
  <2>5. ASSUME NEW b \in Held, b # a
        PROVE  /\ b \in DOMAIN current'
               /\ <<res, b>> \in DOMAIN seen'
               /\ current'[b] = SeenValue(<<res, b>>)'
    <3>1. /\ b \in DOMAIN current
          /\ <<res, b>> \in DOMAIN seen
          /\ current[b] = SeenValue(<<res, b>>)
      BY <2>1 DEF StateIsSeen, Loops
    <3>2. SeenValue(<<res, b>>)' = SeenValue(<<res, b>>)
      BY <2>1, <2>3, <2>5, <3>1 DEF SeenValue, Observed, SlotOf
    <3> QED
      BY <2>3, <2>5, <3>1, <3>2
  <2>6. \A p \in Declared(cfg)' : p[1] < res' => p \in DOMAIN seen'
    BY <2>1, <2>3 DEF StateIsSeen, Declared, Managed, Expected
  <2> QED
    BY <2>1, <2>2, <2>3, <2>4, <2>5, <2>6 DEF StateIsSeen
<1>9. CASE PlanAttr
  BY <1>9, <1>s DEF PlanAttr, Held, Resource
<1>10. CASE AssertAttr
  BY <1>10, <1>s DEF AssertAttr, Held, Resource
<1>11. CASE Advance
  <2>1. /\ phase \in Loops /\ Names \subseteq done /\ cfg' = cfg /\ done' = {}
        /\ UNCHANGED <<heads, current, seen>>
        /\ res \in 1..Len(cfg)
    BY <1>11, NamesDeclared DEF Advance, Left
  <2>2. CASE phase = "assert"
    <3>1. phase' = "build" /\ res' = res + 1
      BY <1>11, <2>2 DEF Advance
    <3>2. ASSUME NEW p \in Declared(cfg), p[1] < res + 1
          PROVE  p \in DOMAIN seen
      <4>1. p = <<p[1], p[2]>> /\ p[1] \in 1..Len(cfg)
        BY DeclaredPair DEF TypeOK
      <4>2. CASE p[1] = res
        <5>1. p[2] \in Held
          BY <4>2, <2>2, DeclaredPair DEF Held, Resource, Declared, TypeOK
        <5> QED
          BY <4>1, <4>2, <5>1, <2>1 DEF StateIsSeen
      <4>3. CASE p[1] < res
        BY <4>3 DEF StateIsSeen
      <4> QED
        BY <2>1, <3>2, <4>1, <4>2, <4>3
    <3> QED
      BY <2>1, <3>1, <3>2 DEF StateIsSeen, Loops, Reading, Declared, Managed, Expected
  <2>3. CASE phase # "assert"
    <3>1. res' = res
      BY <1>11, <2>3 DEF Advance
    <3>2. Held' \subseteq Held
      BY <1>11, <2>1, <2>3, <3>1 DEF Advance, Held, Names, Resource, Loops, Reading
    <3> QED
      BY <2>1, <3>1, <3>2
      DEF StateIsSeen, SeenValue, Observed, SlotOf, Declared, Managed, Expected
  <2> QED
    BY <2>2, <2>3
<1>12. CASE Finish
  BY <1>12, <1>n DEF Finish, Loops, Reading
<1>13. CASE Exited
  BY <1>13, <1>0 DEF Exited
<1> QED
  BY <1>0, <1>1, <1>2, <1>3, <1>4, <1>5, <1>6, <1>7, <1>8, <1>9, <1>10, <1>11,
     <1>12, <1>13
  DEF Next, Step, LoadFails, BuildFails, AbiFails, CallFails, Cancelled, PlanFails,
      RenderFails

(* Every variable keeps its type: the plan holds only well-formed calls    *)
(* and assertions, and no loop runs past the last resource (Planner.Run).  *)
THEOREM TypeCorrect == Spec => []TypeOK
<1>1. Init => TypeOK /\ ControlInv /\ StateIsSeen
  BY InitType, InitControl, InitSeen
<1>2. TypeOK /\ ControlInv /\ StateIsSeen /\ [Next]_vars
          => (TypeOK /\ ControlInv /\ StateIsSeen)'
  BY TypeStep, ControlStep, SeenStep
<1> QED
  BY <1>1, <1>2, PTL DEF Spec

-----------------------------------------------------------------------------
(* What is handled has been read. *)
LEMMA HandledSeen ==
    ASSUME TypeOK, ControlInv, StateIsSeen, exit # ExitFailure
    PROVE  /\ Handled("plan", {"assert"}) \subseteq DOMAIN seen
           /\ Handled("assert", {}) \subseteq DOMAIN seen
<1>1. SUFFICES ASSUME NEW p \in Declared(cfg),
                      \/ phase = "exited"
                      \/ p[1] < res
                      \/ p[1] = res /\ phase \in {"plan", "assert"}
               PROVE  p \in DOMAIN seen
  BY DEF Handled
<1>2. cfg \in Configs /\ p = <<p[1], p[2]>> /\ p[1] \in 1..Len(cfg)
  BY DeclaredPair DEF TypeOK
<1>3. CASE phase = "exited"
  <2>1. res = Len(cfg) + 1
    BY <1>3 DEF ControlInv, TypeOK
  <2> QED
    BY <1>2, <2>1 DEF StateIsSeen
<1>4. CASE p[1] < res
  BY <1>4 DEF StateIsSeen
<1>5. CASE p[1] = res /\ phase \in {"plan", "assert"}
  <2>1. p[2] \in Held
    BY <1>2, <1>5, DeclaredPair DEF Held, Resource, Declared
  <2> QED
    BY <1>2, <1>5, <2>1 DEF StateIsSeen, Loops
<1> QED
  BY <1>1, <1>3, <1>4, <1>5

(* The empty plan is exact when nothing has been handled. *)
LEMMA InitExact == Init => PlanIsExact
<1> SUFFICES ASSUME Init PROVE PlanIsExact
  OBVIOUS
<1>1. Elements(ops) = {} /\ Elements(asserts) = {}
  BY DEF Init, Elements
<1>2. cfg \in Configs /\ res = 1 /\ phase = "load"
  BY DEF Init
<1>3. Handled("plan", {"assert"}) = {} /\ Handled("assert", {}) = {}
  BY <1>2, DeclaredPair DEF Handled
<1>4. OpsDue = {} /\ AssertionsDue = {}
  BY <1>3 DEF OpsDue, AssertionsDue
<1> QED
  BY <1>1, <1>4 DEF PlanIsExact

(* PlanAttr and AssertAttr add what is due for the attribute they handle;  *)
(* no other step changes what is due.                                      *)
LEMMA ExactStep ==
    TypeOK /\ ControlInv /\ StateIsSeen /\ PlanIsExact /\ [Next]_vars => PlanIsExact'
<1> SUFFICES ASSUME TypeOK, ControlInv, StateIsSeen, PlanIsExact, [Next]_vars
             PROVE  PlanIsExact'
  OBVIOUS
<1> USE DEF environment, results, history
(* A step that adds nothing to the plan, handles no attribute and keeps    *)
(* what was read for those handled preserves the invariant.                *)
<1>s. ASSUME UNCHANGED <<cfg, ops, asserts>>, exit # ExitFailure,
             (Managed(cfg) \cap Handled("plan", {"assert"}))'
                 = Managed(cfg) \cap Handled("plan", {"assert"}),
             (Expected(cfg) \cap Handled("assert", {}))'
                 = Expected(cfg) \cap Handled("assert", {}),
             \A p \in DOMAIN seen :
                p \in Handled("plan", {"assert"}) \cup Handled("assert", {})
                    => SeenValue(p)' = SeenValue(p)
      PROVE  PlanIsExact'
  <2>1. OpsDue' = OpsDue
    <3>1. \A p \in Managed(cfg) \cap Handled("plan", {"assert"}) :
              SeenValue(p)' = SeenValue(p)
      BY <1>s, HandledSeen
    <3>2. {q \in Managed(cfg) \cap Handled("plan", {"assert"}) :
               ~Matches(cfg, q, SeenValue(q))}'
            = {q \in Managed(cfg) \cap Handled("plan", {"assert"}) :
               ~Matches(cfg, q, SeenValue(q))}
      BY <1>s, <3>1 DEF Matches, Managed, Expected
    <3> QED
      BY <1>s, <3>2 DEF OpsDue
  <2>2. AssertionsDue' = AssertionsDue
    <3>1. \A p \in Expected(cfg) \cap Handled("assert", {}) :
              SeenValue(p)' = SeenValue(p)
      BY <1>s, HandledSeen
    <3> QED
      BY <1>s, <3>1 DEF AssertionsDue
  <2> QED
    BY <1>s, <2>1, <2>2 DEF PlanIsExact, Elements
<1>f. ASSUME exit' = ExitFailure PROVE PlanIsExact'
  BY <1>f DEF PlanIsExact
(* Most steps do not even move the control state the plan depends on.      *)
<1>u. ASSUME UNCHANGED <<heads, cfg, phase, res, done, ops, asserts, seen, exit>>
      PROVE  PlanIsExact'
  <2>1. CASE exit = ExitFailure
    BY <1>u, <2>1, <1>f
  <2>2. CASE exit # ExitFailure
    BY <1>u, <2>2, <1>s
    DEF Handled, Declared, Managed, Expected, SeenValue, Observed, SlotOf
  <2> QED
    BY <2>1, <2>2
<1>0. CASE UNCHANGED vars
  BY <1>0, <1>u DEF vars
<1>1. CASE ForeignWrite
  <2>1. \A p \in DOMAIN seen : SeenValue(p)' = SeenValue(p)
    BY <1>1, SeenStable
  <2>2. CASE exit = ExitFailure
    BY <1>1, <2>2, <1>f DEF ForeignWrite
  <2>3. CASE exit # ExitFailure
    BY <1>1, <2>1, <2>3, <1>s DEF ForeignWrite, Handled, Declared, Managed, Expected
  <2> QED
    BY <2>2, <2>3
<1>2. CASE Interrupt
  BY <1>2, <1>u DEF Interrupt
<1>3. CASE Fail
  BY <1>3, <1>f DEF Fail
(* The phases in which nothing of the current resource is handled.         *)
<1>r. ASSUME phase \in {"load", "build"} \cup Reading,
             phase' \in {"load", "build"} \cup Reading,
             UNCHANGED <<cfg, res, ops, asserts>>, exit # ExitFailure,
             \A p \in DOMAIN seen : p[1] < res => SeenValue(p)' = SeenValue(p)
      PROVE  PlanIsExact'
  BY <1>r, <1>s DEF Handled, Declared, Managed, Expected, Reading
<1>4. CASE Load
  BY <1>4, <1>r DEF Load, SeenValue, Observed, SlotOf, ControlInv, Running, ExitFailure
<1>5. CASE Build
  BY <1>5, <1>r
  DEF Build, SeenValue, Observed, SlotOf, ControlInv, Running, ExitFailure, Reading
<1>6. CASE Issue
  BY <1>6, <1>u DEF Issue
<1>7. CASE Answer
  BY <1>7, <1>u DEF Answer
<1>8. CASE Receive
  <2>1. PICK a, head : a = call.attr /\ head = call.head
    OBVIOUS
  <2>2. /\ phase \in Reading
        /\ seen' = Put(seen, <<res, a>>, head)
        /\ exit # ExitFailure
    BY <1>8, <2>1 DEF Receive, ControlInv, Reading, Running, ExitFailure
  <2>3. \A p \in DOMAIN seen : p # <<res, a>> => seen'[p] = seen[p]
    BY <2>2 DEF Put
  <2>4. \A p \in DOMAIN seen : p[1] < res => SeenValue(p)' = SeenValue(p)
    <3>1. \A p \in DOMAIN seen : p[1] < res => p # <<res, a>>
      BY DEF TypeOK
    <3> QED
      BY <1>8, <2>3, <3>1 DEF Receive, SeenValue, Observed, SlotOf
  <2> QED
    BY <1>8, <2>2, <2>4, <1>r DEF Receive
<1>9. CASE PlanAttr
  <2> PICK a \in Upcoming :
          /\ done' = done \cup {a}
          /\ \/ /\ current[a] = Resource.spec[a]
                /\ UNCHANGED ops
             \/ /\ current[a] # Resource.spec[a]
                /\ ops' = Append(ops, OpFor(cfg, res, a))
    BY <1>9 DEF PlanAttr
  <2> DEFINE pair == <<res, a>>
             due == {q \in Managed(cfg) \cap Handled("plan", {"assert"}) :
                        ~Matches(cfg, q, SeenValue(q))}
  <2>1. /\ phase = "plan" /\ phase' = "plan" /\ exit # ExitFailure
        /\ UNCHANGED <<heads, cfg, res, asserts, seen, exit>>
    BY <1>9 DEF PlanAttr, ControlInv, Running, ExitFailure
  <2>2. /\ a \in DOMAIN Resource.spec
        /\ a \notin DOMAIN Resource.expect
        /\ a \notin done
        /\ res \in 1..Len(cfg)
        /\ a \in Attr
    <3>1. Builds(Resource)
      BY <2>1, NamesDeclared DEF ControlInv, Loops, Resource
    <3> QED
      BY <2>1, <3>1, BuiltApart, UpcomingFacts, NamesDeclared DEF Loops
  <2>3. pair \in Managed(cfg) /\ pair \notin Expected(cfg) /\ pair \in Declared(cfg)
    BY <2>2 DEF Managed, Expected, Declared, Resource
  <2>4. current[a] = SeenValue(pair)
    BY <2>1, <2>2 DEF StateIsSeen, Held, Loops
  <2>5. Matches(cfg, pair, SeenValue(pair)) <=> current[a] = Resource.spec[a]
    BY <2>3, <2>4 DEF Matches, Resource
  <2>6. Handled("plan", {"assert"})' = Handled("plan", {"assert"}) \cup {pair}
    BY <2>1, <2>3, DeclaredPair DEF Handled, TypeOK, Declared, Managed, Expected
  <2>7. Handled("assert", {})' = Handled("assert", {})
    BY <2>1 DEF Handled, Declared, Managed, Expected
  <2>8. \A p : SeenValue(p)' = SeenValue(p)
    BY <2>1 DEF SeenValue, Observed, SlotOf
  <2>9. AssertionsDue' = AssertionsDue
    BY <2>1, <2>7, <2>8 DEF AssertionsDue, Expected
  <2>10. due' = IF current[a] = Resource.spec[a] THEN due ELSE due \cup {pair}
    <3>1. \A q : Matches(cfg, q, SeenValue(q))' <=> Matches(cfg, q, SeenValue(q))
      BY <2>1, <2>8 DEF Matches, Managed, Expected
    <3> QED
      BY <2>1, <2>3, <2>5, <2>6, <3>1 DEF Managed
  <2>11. OpsDue' = IF current[a] = Resource.spec[a]
                   THEN OpsDue ELSE OpsDue \cup {OpFor(cfg, res, a)}
    <3> HIDE DEF due
    <3>1. OpsDue = {OpFor(cfg, p[1], p[2]) : p \in due}
      BY DEF OpsDue, due
    <3>2. OpsDue' = {OpFor(cfg, p[1], p[2]) : p \in due'}
      BY <2>1 DEF OpsDue, due
    <3>3. CASE current[a] = Resource.spec[a]
      BY <2>10, <3>1, <3>2, <3>3
    <3>4. CASE current[a] # Resource.spec[a]
      <4>1. due' = due \cup {pair}
        BY <2>10, <3>4
      <4>2. OpsDue' = {OpFor(cfg, p[1], p[2]) : p \in due} \cup {OpFor(cfg, pair[1], pair[2])}
        BY <3>2, <4>1
      <4> QED
        BY <3>1, <3>4, <4>2
    <3> QED
      BY <3>3, <3>4
  <2>12. Elements(ops)' = IF current[a] = Resource.spec[a]
                          THEN Elements(ops) ELSE Elements(ops) \cup {OpFor(cfg, res, a)}
    <3>1. OpFor(cfg, res, a) \in Operation /\ ops \in Seq(Operation)
      BY <2>2, ConfigFacts, OpForType DEF TypeOK, Resource
    <3>2. CASE current[a] = Resource.spec[a]
      BY <3>2 DEF Elements
    <3>3. CASE current[a] # Resource.spec[a]
      <4>1. Elements(Append(ops, OpFor(cfg, res, a))) = Elements(ops) \cup {OpFor(cfg, res, a)}
        BY <3>1, ElementsAppend
      <4> QED
        BY <3>3, <4>1 DEF Elements
    <3> QED
      BY <3>2, <3>3
  <2> QED
    BY <2>1, <2>9, <2>11, <2>12 DEF PlanIsExact, Elements
<1>10. CASE AssertAttr
  <2> PICK a \in Upcoming :
          /\ done' = done \cup {a}
          /\ asserts' = Append(asserts, AssertionFor(cfg, res, a, current[a]))
    BY <1>10 DEF AssertAttr
  <2> DEFINE pair == <<res, a>>
  <2>1. /\ phase = "assert" /\ phase' = "assert" /\ exit # ExitFailure
        /\ UNCHANGED <<heads, cfg, res, ops, seen, exit>>
    BY <1>10 DEF AssertAttr, ControlInv, Running, ExitFailure
  <2>2. /\ a \in DOMAIN Resource.expect
        /\ res \in 1..Len(cfg)
        /\ a \in Attr
    BY <2>1, UpcomingFacts, NamesDeclared DEF Loops
  <2>3. pair \in Expected(cfg) /\ pair \in Declared(cfg)
    BY <2>2 DEF Expected, Declared, Resource
  <2>4. current[a] = SeenValue(pair) /\ current[a] \in Nat
    BY <2>1, <2>2 DEF StateIsSeen, Held, Loops, TypeOK
  <2>6. Handled("assert", {})' = Handled("assert", {}) \cup {pair}
    BY <2>1, <2>3, DeclaredPair DEF Handled, TypeOK, Declared, Managed, Expected
  <2>7. Handled("plan", {"assert"})' = Handled("plan", {"assert"})
    BY <2>1 DEF Handled, Declared, Managed, Expected
  <2>8. \A p : SeenValue(p)' = SeenValue(p)
    BY <2>1 DEF SeenValue, Observed, SlotOf
  <2>9. OpsDue' = OpsDue
    <3>1. \A q : Matches(cfg, q, SeenValue(q))' <=> Matches(cfg, q, SeenValue(q))
      BY <2>1, <2>8 DEF Matches, Managed, Expected
    <3> QED
      BY <2>1, <2>7, <3>1 DEF OpsDue, Managed
  <2>10. AssertionsDue' = AssertionsDue \cup {AssertionFor(cfg, res, a, current[a])}
    <3> DEFINE due == Expected(cfg) \cap Handled("assert", {})
    <3>1. due' = due \cup {pair}
      BY <2>1, <2>3, <2>6 DEF Expected
    <3> HIDE DEF due
    <3>2. AssertionsDue = {AssertionFor(cfg, p[1], p[2], SeenValue(p)) : p \in due}
      BY DEF AssertionsDue, due
    <3>3. AssertionsDue' = {AssertionFor(cfg, p[1], p[2], SeenValue(p)) : p \in due'}
      BY <2>1, <2>8 DEF AssertionsDue, due
    <3> QED
      BY <2>4, <3>1, <3>2, <3>3
  <2>11. Elements(asserts)' = Elements(asserts) \cup {AssertionFor(cfg, res, a, current[a])}
    <3>1. /\ AssertionFor(cfg, res, a, current[a]) \in Assertion
          /\ asserts \in Seq(Assertion)
      BY <2>2, <2>4, AssertionForType DEF TypeOK, Resource
    <3>2. Elements(Append(asserts, AssertionFor(cfg, res, a, current[a])))
              = Elements(asserts) \cup {AssertionFor(cfg, res, a, current[a])}
      BY <3>1, ElementsAppend
    <3> QED
      BY <3>2 DEF Elements
  <2> QED
    BY <2>1, <2>9, <2>10, <2>11 DEF PlanIsExact, Elements
<1>11. CASE Advance
  <2>1. /\ phase \in Loops /\ Names \subseteq done /\ exit # ExitFailure
        /\ UNCHANGED <<heads, cfg, ops, asserts, seen, exit>>
        /\ res \in 1..Len(cfg)
    BY <1>11, NamesDeclared
    DEF Advance, Left, ControlInv, Running, ExitFailure, Loops, Reading
  <2>2. \A p : SeenValue(p)' = SeenValue(p)
    BY <2>1 DEF SeenValue, Observed, SlotOf
  <2>3. (Managed(cfg) \cap Handled("plan", {"assert"}))'
            = Managed(cfg) \cap Handled("plan", {"assert"})
    BY <1>11, <2>1, DeclaredPair
    DEF Advance, Handled, Managed, Expected, Declared, Names, Resource, Loops, Reading, TypeOK
  <2>4. (Expected(cfg) \cap Handled("assert", {}))' = Expected(cfg) \cap Handled("assert", {})
    BY <1>11, <2>1, DeclaredPair
    DEF Advance, Handled, Managed, Expected, Declared, Names, Resource, Loops, Reading, TypeOK
  <2> QED
    BY <2>1, <2>2, <2>3, <2>4, <1>s
<1>12. CASE Finish
  <2>1. /\ res = Len(cfg) + 1 /\ phase = "build" /\ exit # ExitFailure
        /\ UNCHANGED <<heads, cfg, ops, asserts, seen>> /\ phase' = "exited"
    BY <1>12 DEF Finish, TypeOK, ControlInv, Running, ExitFailure
  <2>2. /\ Handled("plan", {"assert"})' = Handled("plan", {"assert"})
        /\ Handled("assert", {})' = Handled("assert", {})
    BY <2>1, DeclaredPair DEF Handled, Declared, Managed, Expected, TypeOK
  <2>3. \A p : SeenValue(p)' = SeenValue(p)
    BY <2>1 DEF SeenValue, Observed, SlotOf
  <2> QED
    BY <2>1, <2>2, <2>3, <1>s DEF Managed, Expected
<1>13. CASE Exited
  BY <1>13, <1>0 DEF Exited
<1> QED
  BY <1>0, <1>1, <1>2, <1>3, <1>4, <1>5, <1>6, <1>7, <1>8, <1>9, <1>10, <1>11,
     <1>12, <1>13
  DEF Next, Step, LoadFails, BuildFails, AbiFails, CallFails, Cancelled, PlanFails,
      RenderFails

-----------------------------------------------------------------------------
(* What is appended comes after everything listed: the loops take the      *)
(* names in order, and what is listed has been handled.                    *)
LEMMA OrderStep ==
    TypeOK /\ ControlInv /\ StateIsSeen /\ PlanIsExact /\ PlanInOrder /\ [Next]_vars
        => PlanInOrder'
<1> SUFFICES ASSUME TypeOK, ControlInv, StateIsSeen, PlanIsExact, PlanInOrder,
                    [Next]_vars
             PROVE  PlanInOrder'
  OBVIOUS
<1> USE DEF environment, results, history
<1>u. ASSUME UNCHANGED <<ops, asserts>> PROVE PlanInOrder'
  BY <1>u DEF PlanInOrder, Ordered
<1>1. CASE UNCHANGED vars
  BY <1>1, <1>u DEF vars
<1>2. CASE Fail
  BY <1>2 DEF Fail, PlanInOrder, Ordered
<1>3. CASE PlanAttr
  <2> PICK a \in Upcoming : UNCHANGED ops \/ ops' = Append(ops, OpFor(cfg, res, a))
    BY <1>3 DEF PlanAttr
  <2>1. phase = "plan" /\ exit # ExitFailure /\ asserts' = asserts
    BY <1>3 DEF PlanAttr, ControlInv, Running, ExitFailure
  <2>2. /\ \A x \in done : x < a
        /\ OpFor(cfg, res, a) \in Operation
        /\ ops \in Seq(Operation)
    BY <2>1, UpcomingFacts, NamesDeclared, ConfigFacts, OpForType DEF TypeOK, Loops, Resource
  <2>3. ASSUME NEW k \in 1..Len(ops)
        PROVE  Precedes(ops[k], OpFor(cfg, res, a))
    <3>1. ops[k] \in OpsDue
      BY <2>1 DEF PlanIsExact, Elements
    <3>2. PICK p \in Handled("plan", {"assert"}) : ops[k] = OpFor(cfg, p[1], p[2])
      BY <3>1 DEF OpsDue
    <3>3. p[1] < res \/ (p[1] = res /\ p[2] \in done)
      BY <2>1, <3>2 DEF Handled
    <3> QED
      BY <2>2, <3>2, <3>3 DEF OpFor, Precedes
  <2>4. Ordered(Append(ops, OpFor(cfg, res, a)))
    BY <2>2, <2>3, OrderedAppend DEF PlanInOrder
  <2> QED
    BY <2>1, <2>4 DEF PlanInOrder, Ordered
<1>4. CASE AssertAttr
  <2> PICK a \in Upcoming : asserts' = Append(asserts, AssertionFor(cfg, res, a, current[a]))
    BY <1>4 DEF AssertAttr
  <2>1. phase = "assert" /\ exit # ExitFailure /\ ops' = ops
    BY <1>4 DEF AssertAttr, ControlInv, Running, ExitFailure
  <2>2. /\ a \in DOMAIN Resource.expect
        /\ \A x \in done : x < a
        /\ res \in 1..Len(cfg)
        /\ cfg \in Configs
    BY <2>1, UpcomingFacts, NamesDeclared DEF Loops, TypeOK
  <2>3. current[a] \in Nat
    BY <2>1, <2>2 DEF StateIsSeen, Held, Loops, TypeOK
  <2>4. /\ AssertionFor(cfg, res, a, current[a]) \in Assertion
        /\ asserts \in Seq(Assertion)
    BY <2>2, <2>3, AssertionForType DEF TypeOK, Resource
  <2>5. ASSUME NEW k \in 1..Len(asserts)
        PROVE  Precedes(asserts[k], AssertionFor(cfg, res, a, current[a]))
    <3>1. asserts[k] \in AssertionsDue
      BY <2>1 DEF PlanIsExact, Elements
    <3>2. PICK p \in Handled("assert", {}) :
              asserts[k] = AssertionFor(cfg, p[1], p[2], SeenValue(p))
      BY <3>1 DEF AssertionsDue
    <3>3. p[1] < res \/ (p[1] = res /\ p[2] \in done)
      BY <2>1, <3>2 DEF Handled
    <3> QED
      BY <2>2, <3>2, <3>3 DEF AssertionFor, Precedes
  <2>6. Ordered(Append(asserts, AssertionFor(cfg, res, a, current[a])))
    BY <2>4, <2>5, OrderedAppend DEF PlanInOrder
  <2> QED
    BY <2>1, <2>6 DEF PlanInOrder, Ordered
<1> QED
  BY <1>1, <1>2, <1>3, <1>4, <1>u
  DEF Next, Step, LoadFails, BuildFails, AbiFails, CallFails, Cancelled, PlanFails,
      RenderFails,
      ForeignWrite, Interrupt, Load, Build, Issue, Answer, Receive, Advance, Finish,
      Exited, vars

-----------------------------------------------------------------------------
(* The exit code against the plan, not yet against the chain. *)
ExitMeansDrift ==
    /\ exit = ExitNoDrift => ~HasDrift(ops, asserts)
    /\ exit = ExitDrift   => HasDrift(ops, asserts)
    /\ exit = ExitFailure => ops = << >> /\ asserts = << >>

(* Finish is the only step that reports success. *)
LEMMA ExitStep ==
    ControlInv /\ ExitMeansDrift /\ [Next]_vars => ExitMeansDrift'
<1> SUFFICES ASSUME ControlInv, ExitMeansDrift, [Next]_vars
             PROVE  ExitMeansDrift'
  OBVIOUS
<1> USE DEF environment, results, history
<1>u. ASSUME UNCHANGED <<ops, asserts, exit>> PROVE ExitMeansDrift'
  BY <1>u DEF ExitMeansDrift, HasDrift, Satisfied
<1>1. CASE UNCHANGED vars
  BY <1>1, <1>u DEF vars
<1>2. CASE Fail
  BY <1>2 DEF Fail, ExitMeansDrift, ExitNoDrift, ExitDrift, ExitFailure
<1>3. CASE PlanAttr \/ AssertAttr
  BY <1>3
  DEF PlanAttr, AssertAttr, ControlInv, ExitMeansDrift, Running, ExitNoDrift,
      ExitDrift, ExitFailure
<1>4. CASE Finish
  <2>1. HasDrift(ops, asserts)' <=> HasDrift(ops, asserts)
    BY <1>4 DEF Finish, HasDrift, Satisfied
  <2> QED
    BY <1>4, <2>1 DEF Finish, ExitMeansDrift, ExitNoDrift, ExitDrift, ExitFailure
<1> QED
  BY <1>1, <1>2, <1>3, <1>4, <1>u
  DEF Next, Step, LoadFails, BuildFails, AbiFails, CallFails, Cancelled, PlanFails,
      RenderFails,
      ForeignWrite, Interrupt, Load, Build, Issue, Answer, Receive, Advance, Exited, vars

(* With an exact plan, the verdict on the plan is the verdict on the reads. *)
LEMMA ExactIsHonest ==
    ASSUME TypeOK, ControlInv, PlanIsExact, exit # ExitFailure, res = Len(cfg) + 1,
           phase \in {"build", "exited"}
    PROVE  HasDrift(ops, asserts) <=>
               \E p \in Declared(cfg) : ~Matches(cfg, p, SeenValue(p))
<1>1. /\ cfg \in Configs
      /\ ops \in Seq(Operation)
      /\ asserts \in Seq(Assertion)
  BY DEF TypeOK
<1>2. /\ Managed(cfg) \cap Handled("plan", {"assert"}) = Managed(cfg)
      /\ Expected(cfg) \cap Handled("assert", {}) = Expected(cfg)
  BY <1>1, DeclaredPair DEF Handled, Declared
<1>3. \A p \in Declared(cfg) : ~(p \in Managed(cfg) /\ p \in Expected(cfg))
  <2> SUFFICES ASSUME NEW p \in Declared(cfg)
               PROVE  ~(p \in Managed(cfg) /\ p \in Expected(cfg))
    OBVIOUS
  <2>1. p[1] \in 1..Len(cfg) /\ p[1] < res
    BY <1>1, DeclaredPair
  <2>2. Builds(cfg[p[1]])
    BY <2>1 DEF ControlInv
  <2> QED
    BY <1>1, <2>2, BuiltApart, DeclaredPair
<1>4. Elements(ops) =
          {OpFor(cfg, p[1], p[2]) :
              p \in {q \in Managed(cfg) : ~Matches(cfg, q, SeenValue(q))}}
  BY <1>2 DEF PlanIsExact, OpsDue
<1>5. Elements(asserts) = {AssertionFor(cfg, p[1], p[2], SeenValue(p)) : p \in Expected(cfg)}
  BY <1>2 DEF PlanIsExact, AssertionsDue
<1>6. ops # << >> <=> \E p \in Managed(cfg) : ~Matches(cfg, p, SeenValue(p))
  <2>1. ops # << >> <=> Elements(ops) # {}
    BY <1>1 DEF Elements
  <2> QED
    BY <1>4, <2>1
<1>7. (\E k \in 1..Len(asserts) : ~Satisfied(asserts[k]))
          <=> \E p \in Expected(cfg) : ~Matches(cfg, p, SeenValue(p))
  <2>1. (\E k \in 1..Len(asserts) : ~Satisfied(asserts[k]))
            <=> \E x \in Elements(asserts) : ~Satisfied(x)
    BY DEF Elements
  <2>2. \A p \in Expected(cfg) :
            Satisfied(AssertionFor(cfg, p[1], p[2], SeenValue(p)))
                <=> Matches(cfg, p, SeenValue(p))
    BY <1>3 DEF Satisfied, AssertionFor, Matches, Declared
  <2> QED
    BY <1>5, <2>1, <2>2
<1> QED
  BY <1>6, <1>7 DEF HasDrift, Declared

(* At the end everything is handled, so the plan speaks for every read. *)
LEMMA HonestFromExact ==
    TypeOK /\ ControlInv /\ PlanIsExact /\ ExitMeansDrift => ExitCodeHonest
<1> SUFFICES ASSUME TypeOK, ControlInv, PlanIsExact, ExitMeansDrift
             PROVE  ExitCodeHonest
  OBVIOUS
<1>1. CASE exit \in {ExitNoDrift, ExitDrift}
  <2>1. /\ res = Len(cfg) + 1
        /\ phase = "exited"
        /\ exit # ExitFailure
    BY <1>1 DEF ControlInv, ExitNoDrift, ExitDrift, ExitFailure, Running, TypeOK
  <2>2. HasDrift(ops, asserts) <=>
            \E p \in Declared(cfg) : ~Matches(cfg, p, SeenValue(p))
    BY <2>1, ExactIsHonest
  <2> QED
    BY <1>1, <2>1, <2>2 DEF ExitCodeHonest, ExitMeansDrift, ExitNoDrift, ExitDrift
<1>2. CASE exit \notin {ExitNoDrift, ExitDrift}
  BY <1>2 DEF ExitCodeHonest, ExitMeansDrift
<1> QED
  BY <1>1, <1>2

-----------------------------------------------------------------------------
(* The inductive invariant. *)
IInv ==
    /\ TypeOK
    /\ ControlInv
    /\ StateIsSeen
    /\ PlanIsExact
    /\ PlanInOrder
    /\ ExitMeansDrift

(* The inductive invariant holds at the start. *)
LEMMA InitIInv == Init => IInv
<1>1. Init => PlanInOrder
  BY DEF Init, PlanInOrder, Ordered
<1>2. Init => ExitMeansDrift
  BY DEF Init, ExitMeansDrift, Running, ExitNoDrift, ExitDrift, ExitFailure
<1> QED
  BY <1>1, <1>2, InitType, InitControl, InitSeen, InitExact DEF IInv

(* Every conjunct is preserved, each with the help of those before it. *)
LEMMA StepIInv == IInv /\ [Next]_vars => IInv'
BY TypeStep, ControlStep, SeenStep, ExactStep, OrderStep, ExitStep DEF IInv

(* The inductive invariant holds in every reachable state. *)
LEMMA InvariantHolds == Spec => []IInv
BY InitIInv, StepIInv, PTL DEF Spec

(* While it is built and when it is printed, the plan holds exactly the    *)
(* operations and assertions the reads call for (Planner.Run).             *)
THEOREM PlanCorrect == Spec => []PlanIsExact
<1>1. IInv => PlanIsExact
  BY DEF IInv
<1> QED
  BY <1>1, InvariantHolds, PTL

(* The plan is in configuration order, then name order, and lists nothing  *)
(* twice (attrNames, expectNames).                                         *)
THEOREM OrderCorrect == Spec => []PlanInOrder
<1>1. IInv => PlanInOrder
  BY DEF IInv
<1> QED
  BY <1>1, InvariantHolds, PTL

(* Exit code 0 means every read matched, 1 that one did not, and a failed  *)
(* run shows no plan (exit.go).                                            *)
THEOREM ExitCorrect == Spec => []ExitCodeHonest
<1>1. IInv => ExitCodeHonest
  BY HonestFromExact DEF IInv
<1> QED
  BY <1>1, InvariantHolds, PTL

-----------------------------------------------------------------------------
(* Answers come from the head of the moment, and the run has begun by then. *)
LEMMA FreshStep ==
    TypeOK /\ ControlInv /\ ReadsAreFresh /\ [Next]_vars => ReadsAreFresh'
<1> SUFFICES ASSUME TypeOK, ControlInv, ReadsAreFresh, [Next]_vars
             PROVE  ReadsAreFresh'
  OBVIOUS
<1> USE DEF environment, results, history
<1>t. Len(heads) \in Nat \ {0} /\ call \in EthCall /\ begun \in 0..Len(heads)
  BY DEF TypeOK
<1>u. ASSUME UNCHANGED <<phase, begun, call, seen>> PROVE ReadsAreFresh'
  BY <1>u DEF ReadsAreFresh
<1>1. CASE UNCHANGED vars
  BY <1>1, <1>u DEF vars
<1>2. CASE Fail
  BY <1>2 DEF Fail, ReadsAreFresh, NoCall, Loops, Reading
<1>3. CASE Load
  <2>1. call.head = 0
    BY <1>3 DEF Load, ControlInv, NoCall, Reading
  <2> QED
    BY <1>3, <1>t, <2>1 DEF Load, ReadsAreFresh, Loops, Reading
<1>4. CASE Build \/ Advance
  BY <1>4 DEF Build, Advance, ReadsAreFresh, Loops, Reading
<1>5. CASE Finish
  BY <1>5 DEF Finish, ReadsAreFresh, Loops, Reading
<1>6. CASE Issue
  BY <1>6 DEF Issue, ReadsAreFresh
<1>7. CASE Answer
  <2>1. call'.head = Len(heads)
    BY <1>7, <1>t DEF Answer, EthCall
  <2> QED
    BY <1>7, <1>t, <2>1 DEF Answer, ReadsAreFresh
<1>8. CASE Receive
  <2>1. PICK p, head : p = <<res, call.attr>> /\ head = call.head
    OBVIOUS
  <2>2. seen' = Put(seen, p, head) /\ begun <= head
    BY <1>8, <2>1 DEF Receive, ReadsAreFresh
  <2>3. \A q \in DOMAIN seen' : begun <= seen'[q]
    BY <2>2 DEF Put, ReadsAreFresh
  <2>4. phase # "load"
    BY <1>8 DEF Receive, ControlInv, Reading
  <2> QED
    BY <1>8, <2>3, <2>4 DEF Receive, ReadsAreFresh, NoCall
<1> QED
  BY <1>1, <1>2, <1>3, <1>4, <1>5, <1>6, <1>7, <1>8, <1>u
  DEF Next, Step, LoadFails, BuildFails, AbiFails, CallFails, Cancelled, PlanFails,
      RenderFails,
      ForeignWrite, Interrupt, PlanAttr, AssertAttr, Exited, vars

(* Every value read is one the chain held during the run. *)
LEMMA FreshHolds == Spec => []ReadsAreFresh
<1>1. Init => ReadsAreFresh
  BY DEF Init, ReadsAreFresh, NothingSeen, NoCall, Loops, Reading
<1>2. IInv /\ ReadsAreFresh /\ [Next]_vars => ReadsAreFresh'
  BY FreshStep DEF IInv
<1> QED
  BY <1>1, <1>2, InvariantHolds, PTL DEF Spec

(* The promise speaks of configurations in the same words. *)
LEMMA SameWords ==
    /\ \A c : Promise!Managed(c) = Managed(c)
    /\ \A c : Promise!Expected(c) = Expected(c)
    /\ \A c : Promise!Declared(c) = Declared(c)
    /\ \A c, p, s : Promise!Observed(c, p, s) = Observed(c, p, s)
    /\ \A c, p, v : Promise!Matches(c, p, v) <=> Matches(c, p, v)
    /\ \A c, i, a : Promise!OpFor(c, i, a) = OpFor(c, i, a)
    /\ \A c, i, a, v : Promise!AssertionFor(c, i, a, v) = AssertionFor(c, i, a, v)
    /\ \A q : Promise!Elements(q) = Elements(q)
    /\ \A q : Promise!Ordered(q) <=> Ordered(q)
    /\ Promise!Slot = Slot
    /\ \A a : Promise!ValuesOf(a) = ValuesOf(a)
BY DEF Promise!Managed, Managed, Promise!Expected, Expected, Promise!Declared,
       Declared, Promise!Observed, Observed, Promise!Decode, Decode, Promise!SlotOf,
       SlotOf, Promise!Matches, Matches, Promise!OpFor, OpFor, Promise!MethodFor, MethodFor,
       Promise!NoArg, NoArg, Promise!AssertionFor, AssertionFor,
       Promise!Elements, Elements,
       Promise!Ordered, Ordered, Promise!Precedes, Precedes, Promise!Slot, Slot,
       Promise!ValuesOf, ValuesOf, Promise!Raw, Raw

(* The end of a run is the promise's one step: the report is decided from  *)
(* the heads the run read.                                                 *)
LEMMA FinishReports ==
    ASSUME IInv, IInv', ReadsAreFresh, Finish
    PROVE  Promise!Report
<1> USE DEF environment, results, history
<1>1. /\ exit = Running /\ phase = "build" /\ res = Len(cfg) + 1 /\ begun # 0
      /\ exit' \in {ExitNoDrift, ExitDrift} /\ exit' # Running
      /\ UNCHANGED <<heads, cfg, begun, ops, asserts, seen>>
      /\ exit # ExitFailure
      /\ exit' = IF HasDrift(ops, asserts) THEN 1 ELSE 0
  BY DEF Finish, IInv, ControlInv, TypeOK, ReadsAreFresh, Running, ExitNoDrift,
         ExitDrift, ExitFailure
<1>2. TypeOK /\ ControlInv /\ StateIsSeen /\ PlanIsExact /\ PlanInOrder /\ cfg \in Configs
  BY DEF IInv, TypeOK
<1>3. DOMAIN seen = Declared(cfg)
  <2>1. \A p \in Declared(cfg) : p[1] < res
    BY <1>1, <1>2, ConfigFacts, DeclaredPair
  <2> QED
    BY <1>2, <2>1 DEF TypeOK, StateIsSeen
<1> DEFINE saw == [p \in Declared(cfg) |-> seen[p]]
<1>4. saw \in [Declared(cfg) -> begun..Len(heads)]
  <2>1. \A p \in Declared(cfg) : seen[p] \in 1..Len(heads) /\ begun <= seen[p]
    BY <1>2, <1>3 DEF TypeOK, ReadsAreFresh
  <2>2. begun \in Nat /\ Len(heads) \in Nat
    BY <1>2 DEF TypeOK
  <2> QED
    BY <2>1, <2>2
<1>5. \A p \in Declared(cfg) : Observed(cfg, p, heads[saw[p]]) = SeenValue(p)
  BY DEF SeenValue
<1>6. /\ Managed(cfg) \cap Handled("plan", {"assert"}) = Managed(cfg)
      /\ Expected(cfg) \cap Handled("assert", {}) = Expected(cfg)
  BY <1>1, <1>2, DeclaredPair DEF Handled, Declared
<1> HIDE DEF saw
<1>7. Elements(ops) = Promise!OpsDue(saw)
  <2>1. {q \in Managed(cfg) : ~Matches(cfg, q, SeenValue(q))}
            = {q \in Managed(cfg) : ~Matches(cfg, q, Observed(cfg, q, heads[saw[q]]))}
    BY <1>5 DEF Declared
  <2> QED
    BY <1>1, <1>2, <1>6, <2>1, SameWords DEF PlanIsExact, OpsDue, Promise!OpsDue
<1>8. Elements(asserts) = Promise!AssertionsDue(saw)
  <2>1. \A p \in Expected(cfg) : SeenValue(p) = Observed(cfg, p, heads[saw[p]])
    BY <1>5 DEF Declared
  <2> QED
    BY <1>1, <1>2, <1>6, <2>1, SameWords
    DEF PlanIsExact, AssertionsDue, Promise!AssertionsDue
<1>9. exit' = IF \A p \in Declared(cfg) : Matches(cfg, p, Observed(cfg, p, heads[saw[p]]))
              THEN 0 ELSE 1
  <2>1. HasDrift(ops, asserts) <=>
            \E p \in Declared(cfg) : ~Matches(cfg, p, SeenValue(p))
    BY <1>1, <1>2, ExactIsHonest
  <2> QED
    BY <1>1, <1>5, <2>1
<1>10. Ordered(ops) /\ Ordered(asserts)
  BY <1>2 DEF PlanInOrder
<1> QED
  BY <1>1, <1>4, <1>7, <1>8, <1>9, <1>10, SameWords
  DEF Promise!Report, Promise!Running, Running

(* The run implements the promise: nothing it shows could not have been    *)
(* decided in one step from values the chain held during the run.          *)
THEOREM RunKeepsPromise == Spec => KeepsPromise
<1> USE DEF environment, results, history
<1>1. Init => Promise!Init
  BY DEF Init, Promise!Init, Running, Promise!Running
<1>2. IInv /\ IInv' /\ ReadsAreFresh /\ [Next]_vars
          => [Promise!Next]_(Promise!vars)
  <2> SUFFICES ASSUME IInv, IInv', ReadsAreFresh, [Next]_vars
               PROVE  [Promise!Next]_(Promise!vars)
    OBVIOUS
  <2>t. /\ ControlInv
        /\ ControlInv'
    BY DEF IInv
  <2>u. ASSUME UNCHANGED <<heads, cfg, begun, exit>>,
               exit = Running \/ UNCHANGED <<ops, asserts>>
        PROVE  UNCHANGED Promise!vars
    BY <2>u DEF Promise!vars, Running
  <2>1. CASE UNCHANGED vars
    BY <2>1, <2>u DEF vars
  <2>2. CASE ForeignWrite
    <3>1. PICK s \in Slot : \E v \in ValuesOf(s[2]) \ {Head_[s]} :
              heads' = Append(heads, [Head_ EXCEPT ![s] = v])
      BY <2>2 DEF ForeignWrite
    <3>2. \E v \in ValuesOf(s[2]) :
              heads' = Append(heads, [heads[Len(heads)] EXCEPT ![s] = v])
      BY <3>1 DEF Head_
    <3> QED
      BY <2>2, <3>2, SameWords DEF ForeignWrite, Promise!Write, Promise!Next
  <2>3. CASE Load
    BY <2>3, <2>t
    DEF Load, ControlInv, ReadsAreFresh, Promise!Begin, Promise!Next,
        Promise!Running, Running
  <2>4. CASE Fail /\ exit = Running
    BY <2>4 DEF Fail, Promise!GiveUp, Promise!Next, Promise!Running, Running, ExitFailure
  <2>5. CASE Finish
    BY <2>5, FinishReports DEF Promise!Next
  <2>6. CASE Build \/ Issue \/ Answer \/ Receive \/ PlanAttr \/ AssertAttr \/ Advance
              \/ Interrupt
    <3>1. exit = Running
      BY <2>6, <2>t
      DEF Build, Issue, Answer, Receive, PlanAttr, AssertAttr, Advance, Interrupt,
          ControlInv, Loops, Reading
    <3> QED
      BY <2>6, <2>u, <3>1
      DEF Build, Issue, Answer, Receive, PlanAttr, AssertAttr, Advance, Interrupt
  <2>7. CASE Exited
    BY <2>7, <2>1 DEF Exited
  <2>8. ASSUME LoadFails \/ BuildFails \/ AbiFails \/ CallFails \/ Cancelled \/ PlanFails
                      \/ RenderFails
        PROVE  Fail /\ exit = Running
    BY <2>8, <2>t
    DEF LoadFails, BuildFails, AbiFails, CallFails, Cancelled, PlanFails, RenderFails, ControlInv,
        Reading
  <2> QED
    BY <2>1, <2>2, <2>3, <2>4, <2>5, <2>6, <2>7, <2>8 DEF Next, Step
<1> QED
  BY <1>1, <1>2, InvariantHolds, FreshHolds, PTL DEF Spec, KeepsPromise, Promise!Spec

-----------------------------------------------------------------------------
(* An exact plan without aliases has one operation per drifted slot, and   *)
(* each acts on the very value that was read.                              *)
LEMMA ConvergesFromExact ==
    IInv => PlanConverges
<1> SUFFICES ASSUME IInv, exit \in {ExitNoDrift, ExitDrift}, NoAliases(cfg),
                    \A p \in Managed(cfg) : StillAsSeen(p)
             PROVE  /\ Executes(ops, Head_)
                    /\ \A p \in Managed(cfg) :
                           Matches(cfg, p, Observed(cfg, p, After(ops, Head_)))
                    /\ \A s \in Slot \ {SlotOf(cfg, p) : p \in Managed(cfg)} :
                           After(ops, Head_)[s] = Head_[s]
  BY DEF PlanConverges
<1>1. /\ TypeOK /\ ControlInv /\ StateIsSeen /\ PlanIsExact /\ PlanInOrder
      /\ cfg \in Configs /\ cfg \in Seq(ResourceConfig)
      /\ ops \in Seq(Operation)
      /\ heads \in Seq(ChainState) /\ Len(heads) \in Nat \ {0}
      /\ exit # ExitFailure /\ phase = "exited" /\ res = Len(cfg) + 1
  BY ConfigFacts
  DEF IInv, TypeOK, ControlInv, ExitNoDrift, ExitDrift, ExitFailure, Running
<1>2. Head_ \in ChainState /\ \A i \in 1..Len(cfg) : Builds(cfg[i])
  BY <1>1, ConfigFacts DEF Head_, ControlInv
(* The head still holds what was read. *)
<1>3. ASSUME NEW p \in Managed(cfg)
      PROVE  Observed(cfg, p, Head_) = SeenValue(p)
  <2>1. p \in Declared(cfg) /\ p[1] \in 1..Len(cfg)
    BY DeclaredPair DEF Declared
  <2>2. p \in DOMAIN seen
    BY <1>1, <2>1, ConfigFacts DEF StateIsSeen
  <2>3. Len(heads) \in seen[p]..Len(heads)
    BY <1>1, <2>2 DEF TypeOK
  <2>4. Head_[SlotOf(cfg, p)] = heads[seen[p]][SlotOf(cfg, p)]
    BY <2>3 DEF StillAsSeen, Head_
  <2> QED
    BY <2>4 DEF Observed, SeenValue
<1> DEFINE due == {p \in Managed(cfg) : ~Matches(cfg, p, SeenValue(p))}
<1>4. Elements(ops) = OpsFor(cfg, due)
  <2>1. Managed(cfg) \cap Handled("plan", {"assert"}) = Managed(cfg)
    BY <1>1 DEF Handled, Declared
  <2> QED
    BY <1>1, <2>1 DEF PlanIsExact, OpsDue, OpsFor
<1>5. PlanFor(cfg, due, ops)
  BY <1>1, <1>2, <1>4 DEF PlanFor, NoAliases, PlanInOrder
<1>6. \A p \in Managed(cfg) : p \in due <=> ~Matches(cfg, p, Observed(cfg, p, Head_))
  BY <1>3
<1> HIDE DEF due
<1> QED
  BY <1>2, <1>5, <1>6, BatchCorrects

(* The printed plan, executed before its slots move, goes through, leaves  *)
(* every managed slot as desired and touches no other (contract.go Plan).  *)
THEOREM PlanExecutesToDesired == Spec => []PlanConverges
BY ConvergesFromExact, InvariantHolds, PTL
=============================================================================
