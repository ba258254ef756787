--------------------------- MODULE MCBsonContext ----------------------------
(* Two processes of two threads; the default context and two of a caller.  *)
EXTENDS BsonContext, TLC

MCPid == [p \in Processes |-> IF p = Root THEN 9 ELSE 10]

MCFlagSets == {{"THREAD_SAFE", "DISABLE_PID_CACHE"}, {"DISABLE_PID_CACHE"}, {}}

Symmetry == Permutations(Threads)

=============================================================================
