---------------------------- MODULE MC_AiKvRaft ----------------------------
EXTENDS AiKvRaft, TLC

CONSTANTS c1, c2

\* Client commands are interchangeable.
MCSymmetry == Permutations({c1, c2})

=============================================================================
