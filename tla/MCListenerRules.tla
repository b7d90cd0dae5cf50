-------------------------- MODULE MCListenerRules --------------------------
EXTENDS ListenerRuleSync, TLC

CONSTANTS r1, r2, r3, r4

MCRows == {r1, r2, r3, r4}
MCExtIds == {"e1", "e2"}
MCAttrs == {"a1", "a2"}

\* Row slots are interchangeable: nothing in the sync or the tasks depends
\* on which slot a row takes.
RowSymmetry == Permutations(MCRows)
=============================================================================
