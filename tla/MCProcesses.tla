---------------------------- MODULE MCProcesses -----------------------------
(***************************************************************************)
(* Processes with up to four processes.                                    *)
(***************************************************************************)
EXTENDS Processes

CONSTANTS p0, p1, p2, p3

Setting(pids, processes, rs, names, exits, maxCalls, maxForks) ==
    [NumTotalPID |-> pids, rs |-> rs, Syscalls |-> names, Arguments |-> 0..(pids - 1),
     ExitStatus |-> exits, MaxProcesses |-> processes, MaxCalls |-> maxCalls,
     MaxForks |-> maxForks]

\* Without time slices: at most two processes at a time, and every call; three, so that a
\* process has two children, and a killed thread is not alone on the ready list.
Pair == Setting(2, 3, FALSE, {"Fork", "Yield", "Join", "Kill"}, {1, 2}, 3, 2)
PairHalt == Setting(2, 3, FALSE, {"Fork", "Join", "Halt"}, {1, 2}, 2, 2)
Siblings == Setting(3, 3, FALSE, {"Fork", "Join", "Kill"}, {1, 2}, 3, 2)

\* With time slices: processes with one child; with two; two processes that fork when one
\* PID is left; a process killed while it is being forked; processes that kill each other.
\* The processes of SlicedForks and SlicedForkKill run on and do not exit.
Sliced == Setting(2, 3, TRUE, {"Fork", "Join"}, {1, 2}, 2, 2)
SlicedSiblings == Setting(3, 3, TRUE, {"Fork", "Join"}, {1}, 2, 2)
SlicedForks == Setting(3, 4, TRUE, {"Fork"}, {}, 2, 2)
SlicedForkKill ==
    [Setting(3, 3, TRUE, {"Fork", "Kill"}, {}, 2, 2) EXCEPT !.Arguments = {2}]
SlicedKill == Setting(2, 3, TRUE, {"Fork", "Kill"}, {1}, 2, 1)

AllMachines ==
    {Pair, PairHalt, Siblings, Sliced, SlicedSiblings, SlicedForks,
     SlicedForkKill, SlicedKill}

=============================================================================
