---------------------------- MODULE MCGateResume ----------------------------
\* A small instance of GateResume: two gated calls of one subject, so that a
\* permission created by one decision covers the other call too.
EXTENDS GateResume

MCSubjectOf == [c \in Calls |-> CHOOSE s \in Subjects : TRUE]
=============================================================================
