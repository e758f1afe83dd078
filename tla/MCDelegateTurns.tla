--------------------------- MODULE MCDelegateTurns ---------------------------
\* Small instances of DelegateTurns: the first call's task needs two approvals,
\* which go up one at a time, and the second's needs one.
EXTENDS DelegateTurns

CONSTANTS first, second, send, pay, post

MCTaskOf == [g \in {send, pay, post} |-> IF g = post THEN second ELSE first]
=============================================================================
