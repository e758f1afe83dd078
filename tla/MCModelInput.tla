---------------------------- MODULE MCModelInput ----------------------------
\* A small instance of ModelInput: an agent that summarises, whose model may mistype a
\* tool, and a sibling that keeps everything.
EXTENDS ModelInput

CONSTANTS analyst, checker

Group == {analyst, checker}
KeepMixed == [a \in Group |-> IF a = analyst THEN "summarised" ELSE "full"]
ToolsApart == [a \in Group |-> IF a = analyst THEN {"s___read", "expert"} ELSE {"s___find"}]
AskedFor == [a \in Group |-> IF a = analyst THEN {"s___read", "reed"} ELSE {"s___find"}]
=============================================================================
