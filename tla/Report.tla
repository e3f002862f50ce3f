------------------------------- MODULE Report -------------------------------
(***************************************************************************)
(* One reconciliation pass as its callers see it: which declaration it     *)
(* reads next, what it keeps of an answer, and what it then reports.       *)
(* Reconcile has the pass in full; this is its outline, shared by the      *)
(* models of what is done around a pass (Workflow, DriftAction, Commands). *)
(*                                                                         *)
(* saw maps the declarations read so far to the values read.  Comparing is *)
(* done with the reading: a pass shows nothing before its last read, so    *)
(* nobody can tell.                                                        *)
(***************************************************************************)
EXTENDS Configuration

NothingRead == [p \in {} |-> 0]

(* A resource reads what it manages, then what it expects, each by name.   *)
ReadBefore(c, p, q) ==
    \/ p[1] < q[1]
    \/ p[1] = q[1] /\ p \in Managed(c) /\ q \notin Managed(c)
    \/ p[1] = q[1] /\ (p \in Managed(c) <=> q \in Managed(c)) /\ p[2] < q[2]

NextRead(c, saw) ==
    LET left == Declared(c) \ DOMAIN saw
    IN  {p \in left : \A q \in left \ {p} : ReadBefore(c, p, q)}

(* saw after declaration p was read in chain state s. *)
WithRead(c, saw, p, s) ==
    [q \in DOMAIN saw \cup {p} |-> IF q = p THEN Observed(c, p, s) ELSE saw[q]]

ReadAll(c, saw) == DOMAIN saw = Declared(c)

(* Mutant: a managed attribute gets its operation whether it differs or not. *)
WithOpAlways(c, ops, p, v) ==
    IF p \in Managed(c) THEN Append(ops, OpFor(c, p[1], p[2])) ELSE ops

(* The operations after p was read as v: one more if p is managed and      *)
(* differs.                                                                *)
WithOp(c, ops, p, v) ==
    IF p \in Managed(c) /\ v # c[p[1]].spec[p[2]]
    THEN Append(ops, OpFor(c, p[1], p[2]))
    ELSE ops

(* Something that was read differs, managed or expected: HasDrift. *)
Drifted(c, saw) == \E p \in DOMAIN saw : ~Matches(c, p, saw[p])

(* No two resources manage the same slot. *)
Unaliased(c) == \A p, q \in Managed(c) : SlotOf(c, p) = SlotOf(c, q) => p = q

(* ValidateConfig accepts c: every resource builds. *)
Accepted(c) == \A i \in 1..Len(c) : Builds(c[i])

(* What ValidateConfig does not look at: that a setter takes each value.   *)
FitsSetters(c) == \A p \in Managed(c) : Encodable(c[p[1]], p[2])
=============================================================================
