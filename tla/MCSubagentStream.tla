-------------------------- MODULE MCSubagentStream --------------------------
\* A small instance of SubagentStream: a delegate that calls another.
EXTENDS SubagentStream

CONSTANTS lead, aide

CallerChain == [a \in Agents |-> IF a = lead THEN Entry ELSE lead]
CallsEach == [x \in Workers |-> IF x \in {aide, Entry} THEN 1 ELSE 2]
LeadsSecond == {<<lead, 2>>}
=============================================================================
