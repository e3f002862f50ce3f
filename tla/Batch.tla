------------------------------- MODULE Batch -------------------------------
(***************************************************************************)
(* What executing a plan's operations does to the chain.  The contracts    *)
(* are outside the program; they are modelled from how the code uses them: *)
(* setX(v) stores v, pause() and unpause() revert when there is nothing to *)
(* change, and a Safe batch is executed as a whole or not at all.          *)
(***************************************************************************)
EXTENDS Configuration

OpSlot(op) == <<op.to, op.attr>>

(* The value an operation leaves in its slot. *)
Result(op) == CASE op.method = "set" -> op.arg
                [] op.method = "on"  -> 1
                [] op.method = "off" -> 0

OnSlot(ops, s) == {k \in 1..Len(ops) : OpSlot(ops[k]) = s}

(* The value of slot s of chain state c when the first n operations ran. *)
ValueAfter(ops, n, c, s) ==
    LET prior == {k \in OnSlot(ops, s) : k <= n}
    IN  IF prior = {} THEN c[s]
        ELSE Result(ops[CHOOSE k \in prior : \A j \in prior : j <= k])

(* Operation k reverts: a toggle that finds its slot already toggled. *)
Reverts(ops, k, c) ==
    /\ ops[k].method # "set"
    /\ ValueAfter(ops, k - 1, c, OpSlot(ops[k])) = Result(ops[k])

Executes(ops, c) == \A k \in 1..Len(ops) : ~Reverts(ops, k, c)

(* The chain after the batch was executed on c. *)
After(ops, c) ==
    IF Executes(ops, c) THEN [s \in Slot |-> ValueAfter(ops, Len(ops), c, s)]
                        ELSE c
=============================================================================
