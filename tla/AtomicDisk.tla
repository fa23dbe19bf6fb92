----------------------------- MODULE AtomicDisk -----------------------------
(***************************************************************************)
(* What the synchronous disk promises its callers (filesys/synchdisk.h):   *)
(* a call of ReadSector or WriteSector takes effect at one moment between  *)
(* its start and its return, the buffer of a read then holds the contents  *)
(* of the sector, and every call returns.                                  *)
(***************************************************************************)
CONSTANTS Thread, Sector, Data, InitData

VARIABLES
    sectors,   \* the contents of the disk
    phase,     \* of every thread: "idle", "called" or "done"
    op,        \* the call it makes: kind, sector and, of a write, the data
    buffer     \* the buffer of its last read

diskVars == <<sectors, phase, op, buffer>>

Operation == [kind : {"read", "write"}, sector : Sector, data : Data]

Init ==
    /\ sectors = [s \in Sector |-> InitData]
    /\ phase = [t \in Thread |-> "idle"]
    /\ op \in [Thread -> Operation]
    /\ buffer = [t \in Thread |-> InitData]

Call(t) ==
    /\ phase[t] = "idle"
    /\ phase' = [phase EXCEPT ![t] = "called"]
    /\ \E o \in Operation : op' = [op EXCEPT ![t] = o]
    /\ UNCHANGED <<sectors, buffer>>

Effect(t) ==
    /\ phase[t] = "called"
    /\ phase' = [phase EXCEPT ![t] = "done"]
    /\ \/ /\ op[t].kind = "read"
          /\ buffer' = [buffer EXCEPT ![t] = sectors[op[t].sector]]
          /\ UNCHANGED sectors
       \/ /\ op[t].kind = "write"
          /\ sectors' = [sectors EXCEPT ![op[t].sector] = op[t].data]
          /\ UNCHANGED buffer
    /\ UNCHANGED op

Return(t) ==
    /\ phase[t] = "done"
    /\ phase' = [phase EXCEPT ![t] = "idle"]
    /\ UNCHANGED <<sectors, op, buffer>>

Next == \E t \in Thread : Call(t) \/ Effect(t) \/ Return(t)

\* What may happen, and what must.
Safety == Init /\ [][Next]_diskVars

Spec ==
    /\ Safety
    /\ \A t \in Thread : WF_diskVars(Effect(t)) /\ WF_diskVars(Return(t))

=============================================================================
