--------------------------- MODULE MCPolicyAdmission ---------------------------
EXTENDS PolicyAdmission, TLC

CONSTANTS p1, p2, s1, s2

Pick(m, e) == [model |-> m, effort |-> e]
Entry(base, below, above) == [base |-> base, below |-> below, above |-> above]

Targets == [p \in {p1, p2} |-> IF p = p1 THEN 75 ELSE 25]
StepPoints == <<10, 30>>
OneFamily == [p \in {p1, p2} |-> "seat"]

Balanced == [heavy |-> Entry(Pick("mid", "low"), <<Pick("small", Unset)>>, <<Pick("big", "high")>>),
             light |-> Entry(Pick("small", Unset), <<>>, <<>>)]
Frugal == [Balanced EXCEPT !.heavy = Entry(Pick("mid", "low"), <<Pick("small", Unset)>>, <<>>)]

PromotedTables == {Balanced, Frugal}

Budget(n, enforced) == [turns |-> n, enforce |-> enforced]
Shipped == [budget |-> Budget(1, TRUE), table |-> Balanced, escalate |-> TRUE]

Edits == {[budget |-> Budget(2, TRUE)]}
Earlier == {[p \in {p1, p2} |-> [first |-> 1, later |-> 0]]}
Interchangeable == Permutations({s1, s2})

Request(p, role, asked, group) == [provider |-> p, role |-> role, asked |-> asked, group |-> group]
Quiet == [available |-> TRUE, windows |-> {[used |-> 99, current |-> FALSE]}]
Busy == [available |-> FALSE, windows |-> {[used |-> 92, current |-> TRUE], [used |-> 10, current |-> TRUE]}]
Asked == {[req |-> Request(p1, "heavy", Nothing, NoGroup), report |-> Quiet],
          [req |-> Request(p1, "heavy", Pick(Unset, "high"), "g"), report |-> Busy]}
================================================================================
