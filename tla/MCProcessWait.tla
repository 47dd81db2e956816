--------------------------- MODULE MCProcessWait ---------------------------
(* ProcessWait on small instances.                                          *)
EXTENDS ProcessWait

CONSTANTS c1, c2, g1, g2

MCGroup == [c \in Children |-> IF c = c1 THEN g1 ELSE g2]
ThreadSymmetry == Permutations(Threads)

AnyChild(want, nohang, nowait) ==
    [by |-> "all", who |-> c1, want |-> want, nohang |-> nohang, nowait |-> nowait]
Pid(c, want, nohang, nowait) ==
    [by |-> "pid", who |-> c, want |-> want, nohang |-> nohang, nowait |-> nowait]
PGid(g, want, nohang, nowait) ==
    [by |-> "pgid", who |-> g, want |-> want, nohang |-> nohang, nowait |-> nowait]

\* wait() and waitpid(c1, WNOHANG | WUNTRACED)
MixedRequests ==
    {AnyChild({"exited"}, FALSE, FALSE), Pid(c1, {"exited", "stopped"}, TRUE, FALSE)}
\* waitpid(c1) and waitid(g1, WEXITED | WCONTINUED | WNOWAIT), which peeks
LiveRequests ==
    {Pid(c1, {"exited"}, FALSE, FALSE), PGid(g1, {"exited", "continued"}, FALSE, TRUE)}
AnyRequests == {AnyChild({"exited"}, FALSE, FALSE)}
=============================================================================
