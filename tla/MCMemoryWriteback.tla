-------------------------- MODULE MCMemoryWriteback --------------------------
\* A small instance of MemoryWriteback: two summarising agents and a sibling that
\* keeps everything.
EXTENDS MemoryWriteback

CONSTANTS analyst, planner, checker

KeepMixed == [a \in {analyst, planner, checker} |-> IF a = checker THEN "full" ELSE "summarised"]
=============================================================================
