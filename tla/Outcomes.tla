----------------------------- MODULE Outcomes -----------------------------
(***************************************************************************)
(* Operations that may throw.  An operation on a record of variables is    *)
(* the set of its outcomes: the record afterwards, and whether it returned *)
(* or threw.                                                               *)
(***************************************************************************)

Returns(r) == [after |-> r, ok |-> TRUE]
Throws(r)  == [after |-> r, ok |-> FALSE]

\* The outcomes of Op after those of an earlier part that did not throw.
Then(outcomes, Op(_)) ==
  {o \in outcomes : ~o.ok} \cup UNION {Op(o.after) : o \in {o \in outcomes : o.ok}}
=============================================================================
