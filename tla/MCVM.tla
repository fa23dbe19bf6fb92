-------------------------------- MODULE MCVM --------------------------------
(***************************************************************************)
(* Instances of VM for model checking: few frames and pages.               *)
(***************************************************************************)
EXTENDS VM

CONSTANTS p0, p1, p2

Setting(rs, frames, pages, pageSize, end, pids, ops, names, maxCalls) ==
    [rs |-> rs, NumPhysPages |-> frames, numPages |-> pages, PageSize |-> pageSize,
     CodeDataEnd |-> end, PIDs |-> pids, Ops |-> ops, Calls |-> names, MaxCalls |-> maxCalls]

All == {"load", "store", "stray"}
Memory == {"load", "store"}
Stores == {"store"}

\* Two processes of two pages in two or three frames: eviction and copy-on-write.
Paging == {Setting(FALSE, n, 2, 1, [x |-> 1], 2, All, {"Fork"}, 1) : n \in {2, 3}}

\* A page that holds the end of the data and the start of zero-filled memory: one process of
\* three pages in two frames, and a process and its child in enough frames.
Straddling ==
    {Setting(FALSE, 2, 3, 2, [x |-> 3], 1, Memory, {}, 0),
     Setting(FALSE, 3, 1, 2, [x |-> 1], 2, Memory, {"Fork"}, 1)}

\* Three processes that exec and exit, in two and three frames; two that also exec a program
\* whose data fill two pages, or three, which is more than they have.
Releases ==
    {Setting(FALSE, 2, 1, 1, [x |-> 1], 3, Memory, {"Fork", "Exec", "Exit"}, 3),
     Setting(FALSE, 3, 1, 1, [x |-> 1], 3, Memory, {"Fork", "Exec"}, 3),
     Setting(FALSE, 2, 2, 1, [x |-> 1, y |-> 2], 2, Stores, {"Fork", "Exec", "Exit"}, 2),
     Setting(FALSE, 2, 2, 1, [x |-> 1, y |-> 3], 1, All, {"Exec"}, 1)}

\* Processes that read and write: page by page, across an end of data, and when they share.
Copying ==
    {Setting(FALSE, 2, 3, 1, [x |-> 1], 1, All, {"Read", "Write"}, 1),
     Setting(FALSE, 2, 2, 2, [x |-> 3], 1, All, {"Read", "Write"}, 1),
     Setting(FALSE, 2, 2, 1, [x |-> 1], 2, Stores, {"Fork", "Read"}, 2),
     Setting(FALSE, 2, 1, 1, [x |-> 1], 3, Memory, {"Fork", "Read"}, 3)}

\* Processes that share pages under time slices, and fork, exit, exec or read.
Sliced ==
    {Setting(TRUE, 2, 2, 1, [x |-> 1], 2, Memory, {"Fork"}, 1),
     Setting(TRUE, 2, 1, 1, [x |-> 1], 2, Memory, {"Fork", "Exit"}, 2),
     Setting(TRUE, 2, 1, 1, [x |-> 1], 3, Stores, {"Fork", "Exec"}, 3),
     Setting(TRUE, 2, 1, 1, [x |-> 1], 3, Stores, {"Fork", "Read"}, 3),
     Setting(TRUE, 2, 2, 1, [x |-> 1], 2, Stores, {"Fork", "Read"}, 2)}

AllSettings == Paging \cup Straddling \cup Releases \cup Copying \cup Sliced

=============================================================================
