------------------------------ MODULE SynchList -----------------------------
(***************************************************************************)
(* The synchronized list (threads/synchlist.cc): a list whose Remove waits *)
(* until there is an item.  Every operation is one kernel call with the    *)
(* code before it; the module that extends this one runs them in the       *)
(* order of SynchList::Append (LockList, AppendItem, UnlockList) and       *)
(* SynchList::Remove (LockList, AwaitItem while empty, TakeItem).          *)
(***************************************************************************)
EXTENDS Threads

CONSTANTS
    List,        \* the SynchList objects
    listLock,    \* SynchList::lock of each
    listEmpty    \* SynchList::listEmpty of each

ASSUME SynchListAssumption ==
    /\ listLock \in [List -> Lock]
    /\ listEmpty \in [List -> Condition]
    /\ IsInjective(listLock)
    /\ IsInjective(listEmpty)

VARIABLE list    \* SynchList::list

SynchListInit == list = [q \in List |-> <<>>]

LockList(q) == Acquire(listLock[q]) /\ UNCHANGED list

UnlockList(q) == Release(listLock[q]) /\ UNCHANGED list

\* Mutant of AppendItem: nobody is told that the list is not empty any more.
AppendItemSilently(q, item) ==
    /\ InUser
    /\ list' = [list EXCEPT ![q] = Append(@, item)]
    /\ UNCHANGED threadVars

AppendItem(q, item) ==
    /\ list' = [list EXCEPT ![q] = Append(@, item)]
    /\ Signal(listEmpty[q], listLock[q])

AwaitItem(q) ==
    /\ list[q] = <<>>
    /\ Wait(listEmpty[q], listLock[q])
    /\ UNCHANGED list

\* The item is Head(list[q]); the lock is released before it is returned.
TakeItem(q) ==
    /\ list[q] # <<>>
    /\ list' = [list EXCEPT ![q] = Tail(@)]
    /\ Release(listLock[q])

=============================================================================
