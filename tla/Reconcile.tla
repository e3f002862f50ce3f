----------------------------- MODULE Reconcile -----------------------------
(***************************************************************************)
(* One `chainform plan` process, from the start of buildPlan to its exit   *)
(* code, running against a chain other people write to.                    *)
(*                                                                         *)
(* Planner.Run takes the resources in configuration order.  For each it    *)
(* builds the resource, reads every managed and every expected attribute   *)
(* with an eth_call of its own against the node's latest block, compares,  *)
(* and appends the operations and assertions to the plan.  Any error       *)
(* discards the whole plan.  Between two calls the chain may move and the  *)
(* user may interrupt the process.                                         *)
(***************************************************************************)
EXTENDS Configuration, Batch

CONSTANTS
    Configs,    \* the configurations considered (parsed and validated)
    Genesis,    \* the chain states considered at the start
    MaxHeads    \* bound: the number of chain states in a behaviour

ASSUME ConfigsAssumption ==
    /\ Configs \subseteq Seq(ResourceConfig)
    /\ \A c \in Configs : c # << >>

ASSUME ChainAssumption ==
    /\ Genesis \subseteq ChainState
    /\ MaxHeads \in Nat

VARIABLES
    heads,          \* the chain's states so far, the last one is its head
    interrupted,    \* the process's context is cancelled (SIGINT)
    cfg,            \* the configuration being planned
    phase,          \* where Planner.Run stands in the current resource
    res,            \* the current resource, Len(cfg) + 1 when all are done
    done,           \* the attributes the current loop has handled
    call,           \* the eth_call in flight: its attribute, the head answering
    current,        \* the State map that Refresh fills
    ops,            \* Plan.Operations
    asserts,        \* Plan.Assertions
    exit,           \* the process's exit code
    begun,          \* history: the head at which the run began
    seen            \* history: the head each declared attribute was read at

environment == <<heads, interrupted>>
results == <<ops, asserts, exit>>
history == <<begun, seen>>
vars == <<heads, interrupted, cfg, phase, res, done, call, current,
          ops, asserts, exit, begun, seen>>

Running == -1
ExitNoDrift == 0
ExitDrift == 1
ExitFailure == 2

EthCall == [attr : Attr \cup {0}, head : Nat]
NoCall == [attr |-> 0, head |-> 0]
NoState == [a \in {} |-> 0]
NothingSeen == [p \in {} |-> 0]

Head_ == heads[Len(heads)]
Resource == cfg[res]

(* The loops of a resource, in the order the code runs them. *)
Reading == {"refresh", "refreshExpects"}
Loops == Reading \cup {"plan", "assert"}

(* What the current loop ranges over, attrNames or expectNames, and the    *)
(* name it takes next: they are sorted.                                    *)
Names ==
    IF phase \in {"refresh", "plan"} THEN DOMAIN Resource.spec
                                     ELSE DOMAIN Resource.expect
Left == Names \ done

(* Mutant: the map's own order. *)
AnyLeft == Left

Upcoming == {a \in Left : \A b \in Left : a <= b}

Put(f, k, v) == [x \in DOMAIN f \cup {k} |-> IF x = k THEN v ELSE f[x]]

Init ==
    /\ heads \in {<<c>> : c \in Genesis}
    /\ interrupted = FALSE
    /\ cfg \in Configs
    /\ phase = "load"
    /\ res = 1
    /\ done = {}
    /\ call = NoCall
    /\ current = NoState
    /\ ops = << >>
    /\ asserts = << >>
    /\ exit = Running
    /\ begun = 0
    /\ seen = NothingSeen

-----------------------------------------------------------------------------
(* The environment: other accounts write to the chain, a user hits ^C. *)

ForeignWrite ==
    /\ Len(heads) < MaxHeads
    /\ \E s \in Slot : \E v \in ValuesOf(s[2]) \ {Head_[s]} :
           heads' = Append(heads, [Head_ EXCEPT ![s] = v])
    /\ UNCHANGED <<interrupted, cfg, phase, res, done, call, current, results, history>>

Interrupt ==
    /\ exit = Running
    /\ ~interrupted
    /\ interrupted' = TRUE
    /\ UNCHANGED <<heads, cfg, phase, res, done, call, current, results, history>>

-----------------------------------------------------------------------------
(* The process. *)

(* An error at any point: main prints it and exits with ExitFailure; the   *)
(* plan built so far is dropped.                                           *)
Fail ==
    /\ exit' = ExitFailure
    /\ phase' = "exited"
    /\ ops' = << >>
    /\ asserts' = << >>
    /\ call' = NoCall
    /\ UNCHANGED <<environment, cfg, res, done, current, history>>

(* buildPlan: the configuration is read and the reader opened. *)
Load ==
    /\ phase = "load"
    /\ phase' = "build"
    /\ begun' = Len(heads)
    /\ UNCHANGED <<environment, cfg, res, done, call, current, results, seen>>

(* config.Load or openReader fails: no file, no rpc, no connection. *)
LoadFails == phase = "load" /\ Fail

Build ==
    /\ phase = "build"
    /\ res <= Len(cfg)
    /\ Builds(Resource)
    /\ phase' = "refresh"
    /\ done' = {}
    /\ current' = NoState
    /\ UNCHANGED <<environment, cfg, res, call, results, history>>

(* The factory refuses the declaration. *)
BuildFails ==
    /\ phase = "build"
    /\ res <= Len(cfg)
    /\ ~Builds(Resource)
    /\ Fail

(* The contract's ABI file is missing or is not an ABI. *)
AbiFails ==
    /\ phase = "build"
    /\ res <= Len(cfg)
    /\ Resource.kind = "contract"
    /\ Fail

(* Refresh issues the eth_call for the next attribute. *)
Issue ==
    /\ phase \in Reading
    /\ call = NoCall
    /\ ~interrupted
    /\ \E a \in Upcoming : call' = [attr |-> a, head |-> 0]
    /\ UNCHANGED <<environment, cfg, phase, res, done, current, results, history>>

(* Mutant: the call names a block resolved once and for all. *)
AnswerAtFirstHead ==
    /\ call # NoCall
    /\ call.head = 0
    /\ call' = [call EXCEPT !.head = 1]
    /\ UNCHANGED <<environment, cfg, phase, res, done, current, results, history>>

(* The node evaluates the call at its latest block. *)
Answer ==
    /\ call # NoCall
    /\ call.head = 0
    /\ call' = [call EXCEPT !.head = Len(heads)]
    /\ UNCHANGED <<environment, cfg, phase, res, done, current, results, history>>

(* Mutant: the loop does not move past the attribute. *)
ReceiveAgain ==
    /\ call # NoCall
    /\ call.head # 0
    /\ current' = Put(current, call.attr,
                      Decode(Resource, heads[call.head][<<Resource.addr, call.attr>>]))
    /\ seen' = Put(seen, <<res, call.attr>>, call.head)
    /\ call' = NoCall
    /\ UNCHANGED <<environment, cfg, phase, res, done, results, begun>>

(* The answer arrives, is decoded and stored in the State map. *)
Receive ==
    /\ call # NoCall
    /\ call.head # 0
    /\ LET a == call.attr
           s == heads[call.head]
       IN  /\ current' = Put(current, a, Decode(Resource, s[<<Resource.addr, a>>]))
           /\ seen' = Put(seen, <<res, a>>, call.head)
           /\ done' = done \cup {a}
    /\ call' = NoCall
    /\ UNCHANGED <<environment, cfg, phase, res, results, begun>>

(* The call returns an error, or a value that canonical refuses. *)
CallFails == call # NoCall /\ Fail

(* Mutant: the context is not passed on to the call. *)
CancelledBetweenCalls ==
    /\ interrupted
    /\ phase \in Reading
    /\ call = NoCall /\ Left # {}
    /\ Fail

(* A cancelled context makes the call in flight, or the next one, fail. *)
Cancelled ==
    /\ interrupted
    /\ phase \in Reading
    /\ call # NoCall \/ Left # {}
    /\ Fail

(* Mutant: the comparison is skipped. *)
PlanAttrAlways ==
    /\ phase = "plan"
    /\ \E a \in Upcoming :
           /\ done' = done \cup {a}
           /\ ops' = Append(ops, OpFor(cfg, res, a))
    /\ UNCHANGED <<environment, cfg, phase, res, call, current, asserts, exit, history>>

(* Plan, and Pack of the operation, for the next managed attribute. *)
PlanAttr ==
    /\ phase = "plan"
    /\ \E a \in Upcoming :
           /\ done' = done \cup {a}
           /\ \/ /\ current[a] = Resource.spec[a]
                 /\ UNCHANGED ops
              \/ /\ current[a] # Resource.spec[a]
                 /\ Encodable(Resource, a)
                 /\ ops' = Append(ops, OpFor(cfg, res, a))
    /\ UNCHANGED <<environment, cfg, phase, res, call, current, asserts, exit, history>>

PlanFails ==
    /\ phase = "plan"
    /\ \E a \in Upcoming : current[a] # Resource.spec[a] /\ ~Encodable(Resource, a)
    /\ Fail

AssertAttr ==
    /\ phase = "assert"
    /\ \E a \in Upcoming :
           /\ done' = done \cup {a}
           /\ asserts' = Append(asserts, AssertionFor(cfg, res, a, current[a]))
    /\ UNCHANGED <<environment, cfg, phase, res, call, current, ops, exit, history>>

(* A loop is over: the next one starts, or the next resource does. *)
Advance ==
    /\ phase \in Loops
    /\ call = NoCall
    /\ Left = {}
    /\ phase' = CASE phase = "refresh"        -> "refreshExpects"
                  [] phase = "refreshExpects" -> "plan"
                  [] phase = "plan"           -> "assert"
                  [] phase = "assert"         -> "build"
    /\ res' = IF phase = "assert" THEN res + 1 ELSE res
    /\ done' = {}
    /\ UNCHANGED <<environment, cfg, call, current, results, history>>

(* Mutant: the process exits with the number of operations. *)
FinishCounting ==
    /\ phase = "build"
    /\ res > Len(cfg)
    /\ phase' = "exited"
    /\ exit' = Len(ops)
    /\ UNCHANGED <<environment, cfg, res, done, call, current, ops, asserts, history>>

(* The plan is rendered and the process exits, drift or not. *)
Finish ==
    /\ phase = "build"
    /\ res > Len(cfg)
    /\ phase' = "exited"
    /\ exit' = IF HasDrift(ops, asserts) THEN ExitDrift ELSE ExitNoDrift
    /\ UNCHANGED <<environment, cfg, res, done, call, current, ops, asserts, history>>

(* The output cannot be written: RenderJSON returns the error.  The start  *)
(* of a document may be written already; it is no plan.                    *)
RenderFails ==
    /\ phase = "build"
    /\ res > Len(cfg)
    /\ Fail

(* The steps the process takes by itself, without the node or the user. *)
Step ==
    \/ Load \/ Build \/ BuildFails \/ Issue \/ Receive \/ Cancelled
    \/ PlanAttr \/ PlanFails \/ AssertAttr \/ Advance \/ Finish

Exited == phase = "exited" /\ UNCHANGED vars

Next ==
    \/ ForeignWrite \/ Interrupt
    \/ LoadFails \/ AbiFails \/ RenderFails \/ Answer \/ CallFails
    \/ Step
    \/ Exited

(* The process is scheduled; nothing obliges the node to answer, for no    *)
(* call has a deadline.                                                    *)
Spec == Init /\ [][Next]_vars /\ WF_vars(Step)

(* ... unless it answers every call, if only with an error. *)
AnsweringNode == WF_vars(Answer \/ CallFails)

-----------------------------------------------------------------------------
(* Properties. *)

(* Every variable has its type. *)
TypeOK ==
    /\ heads \in Seq(ChainState) /\ heads # << >>
    /\ interrupted \in BOOLEAN
    /\ cfg \in Configs
    /\ phase \in {"load", "build", "exited"} \cup Loops
    /\ res \in 1..(Len(cfg) + 1)
    /\ phase \in Loops => res <= Len(cfg)
    /\ done \subseteq Attr
    /\ call \in EthCall /\ call.head <= Len(heads)
    /\ DOMAIN current \subseteq Attr
    /\ \A a \in DOMAIN current : current[a] \in Nat
    /\ ops \in Seq(Operation)
    /\ asserts \in Seq(Assertion)
    /\ exit \in {Running, ExitNoDrift, ExitDrift, ExitFailure}
    /\ begun \in 0..Len(heads)
    /\ DOMAIN seen \subseteq Declared(cfg)
    /\ \A p \in DOMAIN seen : seen[p] \in 1..Len(heads)

SeenValue(p) == Observed(cfg, p, heads[seen[p]])

(* The attributes of the current resource that Refresh has stored. *)
Held ==
    CASE phase = "refresh"        -> done
      [] phase = "refreshExpects" -> DOMAIN Resource.spec \cup done
      [] OTHER                    -> DOMAIN Resource.spec \cup DOMAIN Resource.expect

(* The declarations the plan and assert loops have handled so far. *)
Handled(loop, rest) ==
    IF phase = "exited" THEN Declared(cfg)
    ELSE {p \in Declared(cfg) :
             \/ p[1] < res
             \/ p[1] = res /\ phase \in rest
             \/ p[1] = res /\ phase = loop /\ p[2] \in done}

(* The control state of the run: what every step may rely on.  It is the   *)
(* part of the inductive invariant that is not a property of its own.      *)
ControlInv ==
    /\ exit = Running <=> phase # "exited"
    /\ exit \in {ExitNoDrift, ExitDrift} => res = Len(cfg) + 1
    /\ call # NoCall => phase \in Reading /\ call.attr \in Upcoming
    /\ phase \in Loops => done \subseteq Names /\ \A a \in done, b \in Left : a < b
    /\ \A r \in 1..Len(cfg) :
           r < res \/ (r = res /\ phase \in Loops) => Builds(cfg[r])

(* The State map of the current resource holds the values read for that    *)
(* resource in this run, and every earlier declaration has been read.      *)
StateIsSeen ==
    /\ phase \in Loops =>
           \A a \in Held :
               /\ a \in DOMAIN current
               /\ <<res, a>> \in DOMAIN seen
               /\ current[a] = SeenValue(<<res, a>>)
    /\ \A p \in Declared(cfg) : p[1] < res => p \in DOMAIN seen

(* Every read, and an answer on its way, is of a head the chain had during *)
(* this run.                                                               *)
ReadsAreFresh ==
    /\ phase = "load" => begun = 0 /\ DOMAIN seen = {}
    /\ phase \in {"build"} \cup Loops => begun # 0
    /\ call.head # 0 => begun <= call.head
    /\ \A p \in DOMAIN seen : begun <= seen[p]

(* What the plan must hold by now: an operation for each managed attribute *)
(* that was read with another value, an assertion for each expected one.   *)
OpsDue ==
    {OpFor(cfg, p[1], p[2]) :
        p \in {q \in Managed(cfg) \cap Handled("plan", {"assert"}) :
                  ~Matches(cfg, q, SeenValue(q))}}

AssertionsDue ==
    {AssertionFor(cfg, p[1], p[2], SeenValue(p)) :
        p \in Expected(cfg) \cap Handled("assert", {})}

(* While it is built, the plan is exactly what the reads call for: no      *)
(* drifted attribute is left out, an attribute that matched or that is     *)
(* only expected never gets an operation, and no value read for one        *)
(* resource is compared with another's (Planner.Run, contractResource.Plan *)
(* and Assert).                                                            *)
PlanIsExact ==
    exit # ExitFailure =>
        Elements(ops) = OpsDue /\ Elements(asserts) = AssertionsDue

(* The plan is listed in configuration order and, in a resource, by name,  *)
(* with no attribute listed twice: two runs that read the same values      *)
(* print the same plan (contract.go attrNames, expectNames).               *)
PlanInOrder == Ordered(ops) /\ Ordered(asserts)

(* The exit code: 0 when every declared attribute matched when it was read *)
(* and 1 when one did not.  A run that failed, even in its last resource,  *)
(* shows no part of its plan (exit.go, HasDrift, main.go).                 *)
ExitCodeHonest ==
    /\ exit = ExitNoDrift => \A p \in Declared(cfg) : Matches(cfg, p, SeenValue(p))
    /\ exit = ExitDrift => \E p \in Declared(cfg) : ~Matches(cfg, p, SeenValue(p))
    /\ exit = ExitFailure => ops = << >> /\ asserts = << >>

(* No two resources manage the same slot. *)
NoAliases(c) ==
    \A p, q \in Managed(c) : SlotOf(c, p) = SlotOf(c, q) => p = q

(* The slot of p has not moved since the run read it. *)
StillAsSeen(p) ==
    \A k \in seen[p]..Len(heads) : heads[k][SlotOf(cfg, p)] = heads[seen[p]][SlotOf(cfg, p)]

(* Executing the printed plan on a chain whose managed slots have not      *)
(* moved since they were read goes through, leaves every one of them with  *)
(* its desired value and touches no other slot, whatever was written to    *)
(* the rest of the chain meanwhile.                                        *)
PlanConverges ==
    exit \in {ExitNoDrift, ExitDrift} /\ NoAliases(cfg)
      /\ (\A p \in Managed(cfg) : StillAsSeen(p))
    => /\ Executes(ops, Head_)
       /\ \A p \in Managed(cfg) : Matches(cfg, p, Observed(cfg, p, After(ops, Head_)))
       /\ \A s \in Slot \ {SlotOf(cfg, p) : p \in Managed(cfg)} :
              After(ops, Head_)[s] = Head_[s]

(* A run on a chain nobody else writes to. *)
Undisturbed == begun # 0 /\ Len(heads) = begun

(* The values on chain, not as decoded by Refresh, at head k. *)
DesiredAt(k) ==
    \A p \in Declared(cfg) : Matches(cfg, p, heads[k][SlotOf(cfg, p)])

(* "No drift. Actual on-chain state matches desired state.": there was a   *)
(* moment of the run at which it did (plan.go Render, exit.go).            *)
NoDriftAtSomeMoment ==
    exit = ExitNoDrift => \E k \in begun..Len(heads) : DesiredAt(k)

(* The same claim on a chain nobody writes to during the run.              *)
NoDriftMeansDesired ==
    exit = ExitNoDrift /\ Undisturbed => DesiredAt(begun)

(* "The ordered set of operations that, when executed, converge actual     *)
(* state to desired state": for every configuration that is accepted, on a *)
(* chain nobody writes to, executing the plan leaves the managed slots as  *)
(* desired.                                                                *)
AcceptedPlanConverges ==
    exit \in {ExitNoDrift, ExitDrift} /\ Undisturbed =>
        \A p \in Managed(cfg) : Matches(cfg, p, Observed(cfg, p, After(ops, Head_)))

(* The run implements the promise: nothing of the plan is visible before   *)
(* the process ends, and then it is all there or nothing is.               *)
Promise == INSTANCE DriftReport WITH
    ops     <- IF exit = Running THEN << >> ELSE ops,
    asserts <- IF exit = Running THEN << >> ELSE asserts

KeepsPromise == Promise!Spec

(* An interrupted run ends, even when the node never answers. *)
InterruptEnds == interrupted ~> exit # Running

(* A run ends when the node answers its calls. *)
RunEnds == AnsweringNode => <>(exit # Running)
=============================================================================
