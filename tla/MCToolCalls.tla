---------------------------- MODULE MCToolCalls -----------------------------
\* A small instance of ToolCalls: lists that fit, that fit half, that remove.
EXTENDS ToolCalls

CONSTANT a

Op(op) == [op |-> op, key |-> a]
SomePatches == {<<Op("put")>>, <<Op("put"), Op("misfit")>>, <<Op("drop")>>}
=============================================================================
