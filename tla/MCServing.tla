----------------------------- MODULE MCServing -----------------------------
(* The programs' threads for TLC: a server with a few requests; and, apart   *)
(* from it, the prefetch threads of ThreadedScheduler, three layers of two   *)
(* tensors over a run.  In a behaviour only the part in focus moves.         *)
EXTENDS Serving, ThreadedScheduler

VARIABLE focus

TwoInit == focus \in {"server", "threads"} /\ Init /\ ThreadedInit

ServerStep == focus = "server" /\ Next /\ UNCHANGED <<focus, threadedVars>>
ThreadStep == focus = "threads" /\ ThreadedNext /\ UNCHANGED <<focus, vars>>

TwoSpec ==
    /\ TwoInit /\ [][ServerStep \/ ThreadStep]_<<focus, vars, threadedVars>>
    /\ \A r \in Requests : /\ WF_vars(focus = "server" /\ Handler(r))
                          /\ WF_vars(focus = "server" /\ Daemon(r))
    /\ WF_threadedVars(focus = "threads" /\ MovePart)
    /\ WF_threadedVars(focus = "threads" /\ MoveDone)
    /\ WF_threadedVars(focus = "threads" /\ Sweep)
=============================================================================
