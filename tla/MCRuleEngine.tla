---------------------------- MODULE MCRuleEngine ----------------------------
(* Three sources, two ports and versions of a rule that count matches, or  *)
(* distinct ports; two rule files and two threads serving requests.        *)
EXTENDS RuleEngine, TLC

CONSTANTS src1, src2, src3, port1, port2, nobody, f1, f2, c1, c2

ThreeGroups == {src1, src2, src3}
TwoValues == {port1, port2}
TwoFiles == {f1, f2}
TwoCallers == {c1, c2}

Alike == UNION {Permutations(s) : s \in {ThreeGroups, TwoValues, TwoFiles, TwoCallers}}

Versions == {[threshold |-> 2, window |-> 1, distinct |-> FALSE],
             [threshold |-> 3, window |-> 2, distinct |-> FALSE],
             [threshold |-> 2, window |-> 1, distinct |-> TRUE]}
=============================================================================
