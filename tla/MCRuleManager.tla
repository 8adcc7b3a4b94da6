--------------------------- MODULE MCRuleManager ---------------------------
(* Two resources.  a1 and a2 differ in the threshold and may share a       *)
(* statistic, a1b is a1 under another ID (or ProbeNum), queue throttles    *)
(* without a statistic, node uses the resource's.                          *)
EXTENDS RuleManager

CONSTANTS r1, r2, k1

Rule(res, key, limit, other) ==
  [res |-> res, key |-> key, limit |-> limit, other |-> other, valid |-> TRUE, supported |-> TRUE]

a1 == Rule(r1, k1, 1, 1)
a2 == Rule(r1, k1, 2, 1)
a1b == Rule(r1, k1, 1, 2)
queue == Rule(r1, Nop, 1, 1)
node == Rule(r1, Node, 1, 1)
b1 == Rule(r2, k1, 1, 1)
invalid == [Rule(r1, k1, 3, 1) EXCEPT !.valid = FALSE]
unsupported == [Rule(r1, k1, 4, 1) EXCEPT !.supported = FALSE]

MCResources == {r1, r2}
MCRules == {a1, a2, a1b, queue, node, b1, invalid, unsupported}

Of(rules1, rules2) == [res \in MCResources |-> IF res = r1 THEN rules1 ELSE rules2]
MCLoads == {Of(<<a2, a1>>, <<>>), Of(<<invalid, a1b>>, <<b1>>)}
MCResourceLoads == {<<r1, <<>>>>, <<r1, <<b1, unsupported, invalid, a1>>>>, <<r1, <<a2, Nil>>>>}
MCAdditions == {<<a2, node, queue>>}
=============================================================================
