---------------------------- MODULE DriftReport ----------------------------
(***************************************************************************)
(* What `chainform plan` promises its caller, with the reading of the      *)
(* chain reduced to one step: the report is decided from values each       *)
(* declared attribute really had on chain at some moment of the run; it    *)
(* lists, in plan order, one operation for every managed attribute that    *)
(* differed and no other, and one assertion for every expected one; its    *)
(* exit code says whether anything differed.  A run that cannot do this    *)
(* reports nothing.                                                        *)
(***************************************************************************)
EXTENDS Configuration

CONSTANTS Configs, Genesis, MaxHeads

VARIABLES heads, cfg, begun, ops, asserts, exit

vars == <<heads, cfg, begun, ops, asserts, exit>>

Running == -1

Init ==
    /\ heads \in {<<c>> : c \in Genesis}
    /\ cfg \in Configs
    /\ begun = 0
    /\ ops = << >>
    /\ asserts = << >>
    /\ exit = Running

(* The chain moves. *)
Write ==
    /\ Len(heads) < MaxHeads
    /\ \E s \in Slot : \E v \in ValuesOf(s[2]) :
           heads' = Append(heads, [heads[Len(heads)] EXCEPT ![s] = v])
    /\ UNCHANGED <<cfg, begun, ops, asserts, exit>>

Begin ==
    /\ exit = Running
    /\ begun = 0
    /\ begun' = Len(heads)
    /\ UNCHANGED <<heads, cfg, ops, asserts, exit>>

(* The operations and the assertions due when declaration p was read at    *)
(* head saw[p].                                                            *)
OpsDue(saw) ==
    {OpFor(cfg, p[1], p[2]) :
        p \in {q \in Managed(cfg) : ~Matches(cfg, q, Observed(cfg, q, heads[saw[q]]))}}

AssertionsDue(saw) ==
    {AssertionFor(cfg, p[1], p[2], Observed(cfg, p, heads[saw[p]])) : p \in Expected(cfg)}

Report ==
    /\ exit = Running
    /\ begun # 0
    /\ \E saw \in [Declared(cfg) -> begun..Len(heads)] :
           /\ Elements(ops') = OpsDue(saw)
           /\ Ordered(ops')
           /\ Elements(asserts') = AssertionsDue(saw)
           /\ Ordered(asserts')
           /\ exit' = IF \A p \in Declared(cfg) :
                             Matches(cfg, p, Observed(cfg, p, heads[saw[p]]))
                      THEN 0 ELSE 1
    /\ UNCHANGED <<heads, cfg, begun>>

GiveUp ==
    /\ exit = Running
    /\ exit' = 2
    /\ UNCHANGED <<heads, cfg, begun, ops, asserts>>

Next == Write \/ Begin \/ Report \/ GiveUp

Spec == Init /\ [][Next]_vars
=============================================================================
