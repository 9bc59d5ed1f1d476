---------------------------- MODULE MCTaskRunner ----------------------------
EXTENDS TaskRunner

\* Three sources, and a node that uses the outputs of two.
MCNodes == 1 .. 4
MCDeps  == [n \in MCNodes |-> IF n = 4 THEN {1, 2} ELSE {}]
=============================================================================
