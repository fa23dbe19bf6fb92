-------------------------------- MODULE Mips --------------------------------
(***************************************************************************)
(* The simulated MIPS processor (machine/mipssim.cc, machine.cc) as user   *)
(* threads share it: one instruction at a time, delayed loads and branch   *)
(* delay slots, exceptions that restart the instruction, interrupts        *)
(* between instructions, context switches, and the registers that Fork and *)
(* Exec write.                                                             *)
(*                                                                         *)
(* A byte has ByteBits bits (8 in the code), so that a word of four bytes  *)
(* is small enough to enumerate; every mask and shift scales with it.  The *)
(* fields of an instruction are a record; a program is any sequence of     *)
(* instructions from the setting's set.  The repository has a second       *)
(* simulator of the same processor, bin/execute.c, without delayed loads,  *)
(* exceptions or threads: every thread also runs on it (the history        *)
(* variable ref), and the two are compared.                                *)
(***************************************************************************)
EXTENDS Execute

CONSTANTS Thread, MemBytes, Settings, None

ASSUME MipsAssumption ==
    /\ {2, 4, 29} \subseteq GPR
    /\ MemBytes \in Nat /\ MemBytes % 4 = 0 /\ MemBytes >= 16

VARIABLES
    setting,    \* the instructions, operands and bounds of this behaviour
    registers,  \* Machine::registers
    current,    \* currentThread
    saved,      \* Thread::userRegisters
    space,      \* AddrSpace::userRegisters
    mode,       \* where a thread is: in user code, or in which handler
    mem,        \* the memory a thread's addresses translate to
    raw,        \* the instruction at a thread's PC once it was fetched, or None
    prev,       \* the last instruction a thread completed, or None
    ref,        \* history: the thread run by bin/execute.c
    same,       \* history: so far the two simulators are meant to agree
    left,       \* instructions, faults and interrupts left (bounds)
    stopped     \* "no", or why Nachos stopped

vars == <<setting, registers, current, saved, space, mode, mem, raw, prev, ref, same, left,
          stopped>>
user == <<raw, prev, mem>>
history == <<ref, same>>

HiReg == 32
LoReg == 33
PCReg == 34
NextPCReg == 35
PrevPCReg == 36
LoadReg == 37
LoadValueReg == 38
BadVAddrReg == 39
Registers == GPR \cup 32 .. 39

(***************************************************************************)
(* Decoding.                                                               *)
(***************************************************************************)
opTable ==
    <<"SPECIAL", "BCOND", "J", "JAL", "BEQ", "BNE", "BLEZ", "BGTZ",
      "ADDI", "ADDIU", "SLTI", "SLTIU", "ANDI", "ORI", "XORI", "LUI",
      "UNIMP", "UNIMP", "UNIMP", "UNIMP", "RES", "RES", "RES", "RES",
      "RES", "RES", "RES", "RES", "RES", "RES", "RES", "RES",
      "LB", "LH", "LWL", "LW", "LBU", "LHU", "LWR", "RES",
      "SB", "SH", "SWL", "SW", "RES", "RES", "SWR", "RES",
      "UNIMP", "UNIMP", "UNIMP", "UNIMP", "RES", "RES", "RES", "RES",
      "UNIMP", "UNIMP", "UNIMP", "UNIMP", "RES", "RES", "RES", "RES">>

specialTable ==
    <<"SLL", "RES", "SRL", "SRA", "SLLV", "RES", "SRLV", "SRAV",
      "JR", "JALR", "RES", "RES", "SYSCALL", "UNIMP", "RES", "RES",
      "MFHI", "MTHI", "MFLO", "MTLO", "RES", "RES", "RES", "RES",
      "MULT", "MULTU", "DIV", "DIVU", "RES", "RES", "RES", "RES",
      "ADD", "ADDU", "SUB", "SUBU", "AND", "OR", "XOR", "NOR",
      "RES", "RES", "SLT", "SLTU", "RES", "RES", "RES", "RES">>
        \o [n \in 1 .. 16 |-> "RES"]

BcondOp(rt) ==
    CASE rt = 0 -> "BLTZ" [] rt = 1 -> "BGEZ" [] rt = 16 -> "BLTZAL" [] rt = 17 -> "BGEZAL"
      [] OTHER -> "UNIMP"

\* A raw instruction w has fields major, rs, rt, rd, shamt, funct and imm (the immediate, or
\* the target of a jump).
Decode(w) ==
    LET row == opTable[w.major + 1] IN
    [opCode |-> CASE row = "SPECIAL" -> specialTable[w.funct + 1]
                  [] row = "BCOND" -> BcondOp(w.rt)
                  [] OTHER -> row,
     rs |-> w.rs, rt |-> w.rt, rd |-> w.rd,
     extra |-> CASE row = "SPECIAL" -> w.shamt
                 [] row \in {"J", "JAL"} -> w.imm
                 [] OTHER -> SignExtend(w.imm, HalfBase)]

(***************************************************************************)
(* Memory: what Translate (machine/translate.cc) allows, little-endian.    *)
(***************************************************************************)
Translate(addr, size) ==
    IF addr % size # 0 \/ addr + size > MemBytes THEN "AddressError" ELSE "none"

(***************************************************************************)
(* The cases of OneInstruction's switch.  Each gives the outcome of a      *)
(* decoded instruction i from registers R and memory m: an exception, or   *)
(* the new registers and memory, the pc after the delay slot, and the      *)
(* delayed load.                                                           *)
(***************************************************************************)
Ok(R, m) == [regs |-> R, mem |-> m, pcAfter |-> Wrap(R[NextPCReg] + 4), load |-> 0, value |-> 0,
             trap |-> "none", bad |-> 0]
Set(R, m, r, v) == [Ok(R, m) EXCEPT !.regs[r] = v]
Raise(R, m, which, addr) == [Ok(R, m) EXCEPT !.trap = which, !.bad = addr]
Branch(R, m, to) == [Ok(R, m) EXCEPT !.pcAfter = to]
Load(R, m, r, v) == [Ok(R, m) EXCEPT !.load = r, !.value = v]
Store(R, m, addr, size, v) ==
    IF Translate(addr, size) # "none" THEN Raise(R, m, Translate(addr, size), addr)
    ELSE [Ok(R, m) EXCEPT !.mem = WriteMem(m, addr, size, v)]

SumOverflowsUnsigned(a, b, sum) == sum < a
SumOverflows(a, b, sum) == Negative(a) = Negative(b) /\ Negative(a) # Negative(sum)

\* OP_ADD, OP_ADDI, OP_ADDIU, OP_ADDU.
Add(i, R, m) ==
    LET a == R[i.rs]
        b == IF i.opCode \in {"ADD", "ADDU"} THEN R[i.rt] ELSE i.extra
        sum == Wrap(a + b)
    IN IF i.opCode \in {"ADD", "ADDI"} /\ SumOverflows(a, b, sum)
       THEN Raise(R, m, "Overflow", 0)
       ELSE Set(R, m, IF i.opCode \in {"ADD", "ADDU"} THEN i.rd ELSE i.rt, sum)

\* OP_AND, OP_ANDI.
AndInstr(i, R, m) ==
    IF i.opCode = "AND" THEN Set(R, m, i.rd, R[i.rs] & R[i.rt])
    ELSE Set(R, m, i.rt, R[i.rs] & (i.extra % HalfBase))

\* OP_BEQ .. OP_BNE: the AL forms link first, whether or not they branch.
ConditionalBranch(i, R, m) ==
    LET linked == IF i.opCode \in {"BGEZAL", "BLTZAL"}
                  THEN [R EXCEPT ![31] = Wrap(R[NextPCReg] + 4)] ELSE R
        a == linked[i.rs]
        taken == CASE i.opCode = "BEQ" -> a = linked[i.rt]
                   [] i.opCode = "BNE" -> a # linked[i.rt]
                   [] i.opCode \in {"BGEZ", "BGEZAL"} -> ~Negative(a)
                   [] i.opCode \in {"BLTZ", "BLTZAL"} -> Negative(a)
                   [] i.opCode = "BGTZ" -> Signed(a) > 0
                   [] i.opCode = "BLEZ" -> Signed(a) <= 0
    IN IF taken THEN Branch(linked, m, Wrap(R[NextPCReg] + IndexToAddr(i.extra)))
                ELSE Ok(linked, m)

\* OP_DIV, OP_DIVU.  The host traps when the quotient of DIV does not fit (x86).
Divide(i, R, m) ==
    LET a == R[i.rs]
        b == R[i.rt]
        q == IF i.opCode = "DIV" THEN Quotient(Signed(a), Signed(b)) ELSE a \div b
        rest == IF i.opCode = "DIV" THEN Signed(a) - q * Signed(b) ELSE a % b
    IN CASE b = 0 -> Ok([R EXCEPT ![LoReg] = 0, ![HiReg] = 0], m)
         [] b # 0 /\ i.opCode = "DIV" /\ q = SIGN_BIT -> Raise(R, m, "SIGFPE", 0)
         [] OTHER -> Ok([R EXCEPT ![LoReg] = Wrap(q), ![HiReg] = Wrap(rest)], m)

\* OP_JAL, OP_J, OP_JALR, OP_JR: JALR links before it reads the register it jumps to.
JumpInstr(i, R, m) ==
    LET link == Wrap(R[NextPCReg] + 4)
        linked == CASE i.opCode = "JAL" -> [R EXCEPT ![31] = link]
                    [] i.opCode = "JALR" -> [R EXCEPT ![i.rd] = link]
                    [] OTHER -> R
    IN Branch(linked, m, IF i.opCode \in {"J", "JAL"} THEN JumpTo(link, i.extra)
                         ELSE linked[i.rs])

\* OP_LB, OP_LBU, OP_LH, OP_LHU.
LoadNarrow(i, R, m) ==
    LET addr == Wrap(R[i.rs] + i.extra)
        size == IF i.opCode \in {"LB", "LBU"} THEN 1 ELSE 2
        value == ReadMem(m, addr, size)
    IN IF Translate(addr, size) # "none" THEN Raise(R, m, "AddressError", addr)
       ELSE Load(R, m, i.rt, IF i.opCode \in {"LB", "LH"}
                             THEN SignExtend(value, ByteBase ^ size) ELSE value)

\* OP_LUI, OP_LW.
LoadWord(i, R, m) ==
    LET addr == Wrap(R[i.rs] + i.extra) IN
    CASE i.opCode = "LUI" -> Set(R, m, i.rt, Wrap(i.extra * HalfBase))
      [] i.opCode = "LW" /\ Translate(addr, 4) # "none" -> Raise(R, m, "AddressError", addr)
      [] OTHER -> Load(R, m, i.rt, ReadMem(m, addr, 4))

\* OP_LWL, OP_LWR: an ASSERT leaves only the first case of each switch.
LoadPartial(i, R, m) ==
    LET addr == Wrap(R[i.rs] + i.extra)
        old == IF R[LoadReg] = i.rt THEN R[LoadValueReg] ELSE R[i.rt]
        value == ReadMem(m, addr, 4)
    IN CASE addr % 4 # 0 -> Raise(R, m, "assert", 0)
         [] addr % 4 = 0 /\ Translate(addr, 4) # "none" -> Raise(R, m, "AddressError", addr)
         [] OTHER -> Load(R, m, i.rt, IF i.opCode = "LWL" THEN value
                          ELSE old - (old % ByteBase) + (value \div ByteBase ^ 3))

\* OP_MFHI, OP_MFLO, OP_MTHI, OP_MTLO.
HiLo(i, R, m) ==
    CASE i.opCode = "MFHI" -> Set(R, m, i.rd, R[HiReg])
      [] i.opCode = "MFLO" -> Set(R, m, i.rd, R[LoReg])
      [] i.opCode = "MTHI" -> Set(R, m, HiReg, R[i.rs])
      [] i.opCode = "MTLO" -> Set(R, m, LoReg, R[i.rs])

\* Mult: the loop over a's bits, n of them left, and the sign of the result.
RECURSIVE MultLoop(_, _, _, _, _, _)
MultLoop(n, a, bHi, bLo, hi, lo) ==
    LET odd == a % 2 = 1
        lo1 == IF odd THEN Wrap(lo + bLo) ELSE lo
        hi1 == IF odd THEN Wrap(hi + Bit(lo1 < bLo) + bHi) ELSE hi
    IN IF n = 0 THEN <<hi, lo>>
       ELSE IF odd /\ a < 2 THEN <<hi1, lo1>>
       ELSE MultLoop(n - 1, ShiftRight(a, 1), Wrap(2 * bHi + Bit(Negative(bLo))),
                     Wrap(2 * bLo), hi1, lo1)

NegateNoCarry(hi, lo) == <<Complement(hi), Wrap(-lo)>>
\* The two's complement of a double word.
Negate(hi, lo) == <<Wrap(Complement(hi) + Bit(lo = 0)), Wrap(-lo)>>

Mult(a, b, signedArith) ==
    LET magnitude(x) == IF signedArith /\ Negative(x) THEN Wrap(-x) ELSE x
        negative == signedArith /\ Negative(a) # Negative(b)
        r == MultLoop(WordBits, magnitude(a), 0, magnitude(b), 0, 0)
    IN CASE a = 0 \/ b = 0 -> <<0, 0>>
         [] a # 0 /\ b # 0 /\ negative -> Negate(r[1], r[2])
         [] OTHER -> r

\* OP_MULT, OP_MULTU.
MultInstr(i, R, m) ==
    LET r == Mult(R[i.rs], R[i.rt], i.opCode = "MULT")
    IN Ok([R EXCEPT ![HiReg] = r[1], ![LoReg] = r[2]], m)

\* OP_NOR, OP_OR, OP_ORI.  OR reads rs twice.
OrInstr(i, R, m) ==
    CASE i.opCode = "NOR" -> Set(R, m, i.rd, Complement(R[i.rs] | R[i.rt]))
      [] i.opCode = "OR" -> Set(R, m, i.rd, R[i.rs] | R[i.rs])
      [] i.opCode = "ORI" -> Set(R, m, i.rt, R[i.rs] | (i.extra % HalfBase))

\* OP_SB, OP_SH.
StoreNarrow(i, R, m) ==
    Store(R, m, Wrap(R[i.rs] + i.extra), IF i.opCode = "SB" THEN 1 ELSE 2, R[i.rt])

\* OP_SLL, OP_SLLV.
ShiftLeftInstr(i, R, m) ==
    Set(R, m, i.rd, ShiftLeft(R[i.rt], IF i.opCode = "SLL" THEN i.extra ELSE R[i.rs] % WordBits))

\* OP_SLT, OP_SLTI, OP_SLTIU, OP_SLTU.
Compare(i, R, m) ==
    LET a == R[i.rs]
        b == IF i.opCode \in {"SLT", "SLTU"} THEN R[i.rt] ELSE i.extra
    IN Set(R, m, IF i.opCode \in {"SLT", "SLTU"} THEN i.rd ELSE i.rt,
           Bit(IF i.opCode \in {"SLT", "SLTI"} THEN Signed(a) < Signed(b) ELSE a < b))

\* OP_SRA, OP_SRAV, OP_SRL, OP_SRLV: SRL and SRLV shift a signed tmp.
ShiftRightInstr(i, R, m) ==
    Set(R, m, i.rd,
        ShiftRight(R[i.rt], IF i.opCode \in {"SRA", "SRL"} THEN i.extra ELSE R[i.rs] % WordBits))

\* OP_SUB, OP_SUBU.
Subtract(i, R, m) ==
    LET a == R[i.rs]
        b == R[i.rt]
        diff == Wrap(a - b)
    IN IF i.opCode = "SUB" /\ Negative(a) # Negative(b) /\ Negative(a) # Negative(diff)
       THEN Raise(R, m, "Overflow", 0) ELSE Set(R, m, i.rd, diff)

\* OP_SW, OP_SWL, OP_SWR: an ASSERT leaves only the first case of the last two switches.
StoreWord(i, R, m) ==
    LET addr == Wrap(R[i.rs] + i.extra)
        low == ByteBase ^ 3
    IN CASE i.opCode # "SW" /\ addr % 4 # 0 -> Raise(R, m, "assert", 0)
         [] i.opCode = "SWR" /\ addr % 4 = 0 /\ Translate(addr, 4) = "none" ->
                Store(R, m, addr, 4, (ReadMem(m, addr, 4) % low) + (R[i.rt] % ByteBase) * low)
         [] OTHER -> Store(R, m, addr, 4, R[i.rt])

\* OP_SYSCALL, OP_XOR, OP_XORI, OP_RES, OP_UNIMP.
Rest(i, R, m) ==
    CASE i.opCode = "SYSCALL" -> Raise(R, m, "Syscall", 0)
      [] i.opCode = "XOR" -> Set(R, m, i.rd, R[i.rs] ^^ R[i.rt])
      [] i.opCode = "XORI" -> Set(R, m, i.rt, R[i.rs] ^^ (i.extra % HalfBase))
      [] i.opCode \in {"RES", "UNIMP"} -> Raise(R, m, "IllegalInstr", 0)

Jumps == {"J", "JAL", "JR", "JALR"}
Stores == {"SB", "SH", "SW", "SWL", "SWR"}

\* The switch of OneInstruction.
Outcome(i, R, m) ==
    LET op == i.opCode IN
    CASE op \in {"ADD", "ADDI", "ADDIU", "ADDU"} -> Add(i, R, m)
      [] op \in {"AND", "ANDI"} -> AndInstr(i, R, m)
      [] op \in Branches -> ConditionalBranch(i, R, m)
      [] op \in {"DIV", "DIVU"} -> Divide(i, R, m)
      [] op \in Jumps -> JumpInstr(i, R, m)
      [] op \in {"LB", "LBU", "LH", "LHU"} -> LoadNarrow(i, R, m)
      [] op \in {"LUI", "LW"} -> LoadWord(i, R, m)
      [] op \in {"LWL", "LWR"} -> LoadPartial(i, R, m)
      [] op \in {"MFHI", "MFLO", "MTHI", "MTLO"} -> HiLo(i, R, m)
      [] op \in {"MULT", "MULTU"} -> MultInstr(i, R, m)
      [] op \in {"NOR", "OR", "ORI"} -> OrInstr(i, R, m)
      [] op \in {"SB", "SH"} -> StoreNarrow(i, R, m)
      [] op \in {"SLL", "SLLV"} -> ShiftLeftInstr(i, R, m)
      [] op \in {"SLT", "SLTI", "SLTIU", "SLTU"} -> Compare(i, R, m)
      [] op \in {"SRA", "SRAV", "SRL", "SRLV"} -> ShiftRightInstr(i, R, m)
      [] op \in {"SUB", "SUBU"} -> Subtract(i, R, m)
      [] op \in {"SW", "SWL", "SWR"} -> StoreWord(i, R, m)
      [] OTHER -> Rest(i, R, m)

(***************************************************************************)
(* The state machine.                                                      *)
(***************************************************************************)
DelayedLoad(R, nextReg, nextValue) ==
    [[R EXCEPT ![R[LoadReg]] = R[LoadValueReg]]
        EXCEPT ![LoadReg] = nextReg, ![LoadValueReg] = nextValue, ![0] = 0]

\* AddrSpace::InitRegisters; the machine's constructor has zeroed them too.
InitRegisters ==
    [[r \in Registers |-> 0] EXCEPT ![NextPCReg] = 4, ![29] = MemBytes - 16]

AsExecute(R, m) ==
    [Reg |-> [r \in GPR |-> R[r]], HI |-> R[HiReg], LO |-> R[LoReg],
     pc |-> R[PCReg], npc |-> R[NextPCReg], mem |-> m]

\* StartProcess has started one process; its program has since put some values into r1 and r2.
Init ==
    /\ setting \in Settings
    /\ \E a, b \in setting.operands :
           registers = [InitRegisters EXCEPT ![1] = a, ![2] = b]
    /\ \E t \in Thread :
           /\ current = t
           /\ mode = [u \in Thread |-> IF u = t THEN "user" ELSE "none"]
    /\ saved = [t \in Thread |-> None]
    /\ space = [t \in Thread |-> None]
    /\ mem = [t \in Thread |-> setting.mem]
    /\ raw = [t \in Thread |-> None]
    /\ prev = [t \in Thread |-> None]
    /\ ref = [t \in Thread |-> AsExecute(registers, setting.mem)]
    /\ same = [t \in Thread |-> TRUE]
    /\ left = [steps |-> setting.steps, faults |-> setting.faults, slices |-> setting.slices]
    /\ stopped = "no"

RaiseExceptionPending(R, which, badVAddr) ==
    /\ registers' = [R EXCEPT ![BadVAddrReg] = badVAddr]
    /\ mode' = [mode EXCEPT ![current] = which]
\* Machine::RaiseException up to its call of ExceptionHandler.
RaiseException(R, which, badVAddr) ==
    /\ registers' = DelayedLoad([R EXCEPT ![BadVAddrReg] = badVAddr], 0, 0)
    /\ mode' = [mode EXCEPT ![current] = which]

\* The instructions that may be at the current thread's PC: the one it has fetched already, for
\* an instruction that is restarted.
Fetched == IF raw[current] = None THEN setting.instructions ELSE {raw[current]}
Running == stopped = "no" /\ mode[current] = "user" /\ left.steps > 0

\* When are the two simulators meant to agree?  The instruction after a load does not name the
\* loaded register, and the one after a branch or a jump is none itself, nor a system call.
Links == {"BGEZAL", "BLTZAL", "JAL"}
Keeps(i) ==
    prev[current] # None =>
        LET p == Decode(prev[current]) IN
        /\ p.opCode \in Loads /\ p.rt # 0 =>
               p.rt \notin {i.rs, i.rt, i.rd} \cup (IF i.opCode \in Links THEN {31} ELSE {})
        /\ p.opCode \in Branches \cup Jumps => i.opCode \notin Branches \cup Jumps \cup {"SYSCALL"}

\* And the instruction is none of those that they execute differently.
Magnitude(i, x) == IF i.opCode = "MULT" THEN AbsInt(Signed(x)) ELSE x
Differs(i, R) ==
    LET a == R[i.rs]
        b == R[i.rt]
        op == i.opCode
    IN CASE op = "OR" -> (a | b) # a
         [] op = "SRL" -> Negative(b) /\ i.extra > 0
         [] op = "SRLV" -> a >= WordBits \/ (Negative(b) /\ a > 0)
         [] op \in {"SLLV", "SRAV"} -> a >= WordBits
         [] op \in {"ANDI", "ORI", "XORI"} -> Negative(i.extra)
         [] op \in {"MULT", "MULTU"} -> Magnitude(i, a) >= HalfBase \/ Magnitude(i, b) >= HalfBase
         [] op \in {"DIV", "DIVU"} -> b = 0
         [] op = "JALR" -> i.rd = i.rs
         [] op \in {"J", "JAL"} -> R[PCReg] \div Region # Wrap(R[PCReg] + 8) \div Region
         [] op \in {"LWL", "LWR", "SWL", "SWR"} -> TRUE
         [] OTHER -> FALSE

\* The registers after an instruction that completed.
Advance(R, out) ==
    [DelayedLoad(out.regs, out.load, out.value) EXCEPT
        ![PrevPCReg] = R[PCReg], ![PCReg] = R[NextPCReg], ![NextPCReg] = out.pcAfter]

\* Machine::OneInstruction, when its memory references translate.
OneInstruction ==
    /\ Running
    /\ \E w \in Fetched :
        LET i == Decode(w)
            out == Outcome(i, registers, mem[current])
        IN CASE out.trap = "none" ->
                    /\ registers' = Advance(registers, out)
                    /\ mem' = [mem EXCEPT ![current] = out.mem]
                    /\ raw' = [raw EXCEPT ![current] = None]
                    /\ prev' = [prev EXCEPT ![current] = w]
                    /\ same' = [same EXCEPT ![current] = @ /\ Keeps(i) /\ ~Differs(i, registers)]
                    /\ ref' = IF same'[current]
                              THEN [ref EXCEPT ![current] = runprogram(@, w)] ELSE ref
                    /\ left' = [left EXCEPT !.steps = @ - 1]
                    /\ UNCHANGED <<mode, stopped>>
             [] out.trap \in {"assert", "SIGFPE"} ->
                    /\ stopped' = out.trap
                    /\ UNCHANGED <<registers, mode, user, history, left>>
             [] OTHER ->
                    /\ RaiseException(registers, out.trap, out.bad)
                    /\ raw' = [raw EXCEPT ![current] = w]
                    /\ same' = [same EXCEPT ![current] = @ /\ Keeps(i)]
                    /\ left' = [left EXCEPT !.steps = @ - 1]
                    /\ UNCHANGED <<mem, prev, ref, stopped>>
    /\ UNCHANGED <<setting, current, saved, space>>

\* OneInstruction, when the fetch or the data reference meets a page that is not in memory (or
\* is shared): the instruction is restarted once the handler returns.
MemoryFault ==
    /\ Running /\ left.faults > 0
    /\ \E w \in Fetched :
        LET i == Decode(w)
            data == IF i.opCode \in Loads \cup Stores
                       /\ Outcome(i, registers, mem[current]).trap = "none"
                    THEN {Wrap(registers[i.rs] + i.extra)} ELSE {}
        IN /\ \E addr \in {registers[PCReg]} \cup data :
                  RaiseException(registers, "PageFault", addr)
           /\ raw' = [raw EXCEPT ![current] = w]
    /\ left' = [left EXCEPT !.faults = @ - 1]
    /\ UNCHANGED <<setting, current, saved, space, mem, prev, history, stopped>>

(***************************************************************************)
(* The kernel: ExceptionHandler and the system calls that write the        *)
(* user's registers (userprog/exception.cc), and the context switch.       *)
(***************************************************************************)
Handling(which) == stopped = "no" /\ mode[current] = which
Return == mode' = [mode EXCEPT ![current] = "user"]

UpdatePCRegs(R) ==
    [R EXCEPT ![PCReg] = Wrap(@ + 4), ![PrevPCReg] = Wrap(@ + 4), ![NextPCReg] = Wrap(@ + 4)]

\* A system call is the end of its instruction; in bin/execute.c pc and npc move on as well.
CallDone(result) ==
    /\ Return
    /\ raw' = [raw EXCEPT ![current] = None]
    /\ prev' = [prev EXCEPT ![current] = raw[current]]
    /\ ref' = [ref EXCEPT ![current].pc = ref[current].npc, ![current].npc = Wrap(@ + 4),
                          ![current].Reg[2] = IF result = None THEN @ ELSE result]

\* PageFaultHandler and ReadOnlyExceptionHandler repair the page (module VM) and return.
FaultRepaired ==
    /\ Handling("PageFault") /\ Return
    /\ UNCHANGED <<setting, registers, current, saved, space, user, history, left, stopped>>

\* Every other exception ends in ASSERT(FALSE).
UnexpectedException ==
    /\ stopped = "no" /\ mode[current] \in {"AddressError", "Overflow", "IllegalInstr"}
    /\ stopped' = mode[current]
    /\ UNCHANGED <<setting, registers, current, saved, space, mode, user, history, left>>

\* Yield, and the system calls that return a value in register 2 (a Fork that fails too).
SystemCall ==
    /\ Handling("Syscall")
    /\ \E result \in setting.results :
           /\ registers' = UpdatePCRegs(IF result = None THEN registers
                                        ELSE [registers EXCEPT ![2] = result])
           /\ CallDone(result)
    /\ UNCHANGED <<setting, current, saved, space, mem, same, left, stopped>>

\* ExecSystemcall: the new program starts with registers of its own, and 1 in register 2.
Exec ==
    /\ Handling("Syscall") /\ setting.exec
    /\ registers' = [InitRegisters EXCEPT ![2] = 1]
    /\ mem' = [mem EXCEPT ![current] = setting.mem]
    /\ ref' = [ref EXCEPT ![current] = AsExecute(registers', setting.mem)]
    /\ raw' = [raw EXCEPT ![current] = None]
    /\ prev' = [prev EXCEPT ![current] = None]
    /\ same' = [same EXCEPT ![current] = TRUE]
    /\ Return
    /\ UNCHANGED <<setting, current, saved, space, left, stopped>>

SaveUserRegisters(sp, t, R) == [sp EXCEPT ![t] = R]
RestoreUserRegisters(t) == space[t]

\* ForkSystemcall, step 1: SaveUserRegisters.  Creating the process may then wait for locks.
ForkSave ==
    /\ Handling("Syscall") /\ \E t \in Thread : mode[t] = "none"
    /\ space' = SaveUserRegisters(space, current, registers)
    /\ mode' = [mode EXCEPT ![current] = "Fork"]
    /\ UNCHANGED <<setting, registers, current, saved, user, history, left, stopped>>

\* Steps 2 to 5: the child gets the parent's memory and registers, and a PC of its own, which
\* is put into the machine's registers to be saved from there; its thread is made ready.
ForkChild ==
    /\ Handling("Fork")
    /\ \E t \in Thread :
        /\ mode[t] = "none"
        /\ LET pc == registers[4] IN
           /\ registers' = [registers EXCEPT ![PCReg] = pc, ![NextPCReg] = Wrap(pc + 4),
                                             ![PrevPCReg] = Wrap(pc - 4)]
           /\ ref' = [ref EXCEPT ![t] = [ref[current] EXCEPT !.pc = pc, !.npc = Wrap(pc + 4)]]
        /\ space' = SaveUserRegisters(space, t, registers')
        /\ mem' = [mem EXCEPT ![t] = mem[current]]
        /\ same' = [same EXCEPT ![t] = same[current]]
        /\ mode' = [mode EXCEPT ![current] = "Forked", ![t] = "Dummy"]
    /\ UNCHANGED <<setting, current, saved, raw, prev, left, stopped>>

ForkReturnNoRestore ==
    /\ Handling("Forked")
    /\ registers' = UpdatePCRegs([registers EXCEPT ![2] = 1])
    /\ CallDone(1)
    /\ UNCHANGED <<setting, current, saved, space, mem, same, left, stopped>>
\* Steps 6 and 7: the parent gets its registers back, and the child's PID.
ForkReturn ==
    /\ Handling("Forked")
    /\ registers' = UpdatePCRegs([RestoreUserRegisters(current) EXCEPT ![2] = 1])
    /\ CallDone(1)
    /\ UNCHANGED <<setting, current, saved, space, mem, same, left, stopped>>

\* Dummy: what a forked thread does first.
Dummy ==
    /\ Handling("Dummy")
    /\ registers' = RestoreUserRegisters(current)
    /\ Return
    /\ UNCHANGED <<setting, current, saved, space, user, history, left, stopped>>

SaveUserState(R) == saved' = [saved EXCEPT ![current] = R]
RestoreUserState(R, t) == registers' = IF saved[t] = None THEN R ELSE saved[t]

\* Scheduler::Run, with R in the machine's registers: SaveUserState, SWITCH, and the next
\* thread's RestoreUserState.  A thread that never ran starts in ThreadRoot, and restores nothing.
Switch(R, t) ==
    /\ SaveUserState(R)
    /\ RestoreUserState(R, t)
    /\ current' = t

\* A thread in the kernel waits for a lock or for the disk, or yields.
KernelSwitch ==
    /\ stopped = "no" /\ mode[current] # "user"
    /\ \E t \in Thread \ {current} : mode[t] # "none" /\ Switch(registers, t)
    /\ UNCHANGED <<setting, space, mode, user, history, left, stopped>>

\* An interrupt after an instruction, or in the kernel: CheckIfDue finishes the delayed load
\* before it calls the handler; the timer's makes the thread yield when it returns.
Interrupt ==
    /\ stopped = "no" /\ left.slices > 0
    /\ left' = [left EXCEPT !.slices = @ - 1]
    /\ LET R == DelayedLoad(registers, 0, 0) IN
       \/ registers' = R /\ UNCHANGED <<current, saved>>
       \/ \E t \in Thread \ {current} : mode[t] # "none" /\ Switch(R, t)
    /\ UNCHANGED <<setting, space, mode, user, history, stopped>>

Next ==
    \/ OneInstruction \/ MemoryFault \/ FaultRepaired \/ UnexpectedException
    \/ SystemCall \/ Exec \/ ForkSave \/ ForkChild \/ ForkReturn \/ Dummy
    \/ KernelSwitch \/ Interrupt

Spec == Init /\ [][Next]_vars

(***************************************************************************)
(* Properties.                                                             *)
(***************************************************************************)
Word == 0 .. WordBase - 1
UserRegisters(t) == IF t = current THEN registers ELSE saved[t]

\* Machine::registers holds words, and a register number in LoadReg; register 0 is 0.
TypeOK ==
    /\ DOMAIN registers = Registers
    /\ \A r \in Registers : registers[r] \in Word
    /\ registers[LoadReg] \in GPR
    /\ registers[0] = 0
    /\ current \in Thread /\ mode[current] # "none"

\* machine.cc and mipssim.cc against bin/execute.c: a program that keeps MIPS's rules on delay
\* slots, and uses none of the instructions that the two simulate differently, has in Nachos
\* the registers, the memory and the program counters that it has there, once its pending
\* load is counted in.  Page faults that restart an instruction (in a delay slot too),
\* interrupts, context switches and the registers that Fork borrows do not show.
SameAsExecute ==
    \A t \in Thread :
        mode[t] = "user" /\ same[t] =>
            LET here == AsExecute(DelayedLoad(UserRegisters(t), 0, 0), mem[t])
            IN [here EXCEPT !.Reg[0] = 0] = [ref[t] EXCEPT !.Reg[0] = 0]

\* RaiseException and CheckIfDue finish the delayed load before the kernel runs: in the kernel,
\* and in the registers of a thread that is switched out or forked, no load is pending that
\* could later overwrite what a system call wrote.
NothingPendingInKernel ==
    \A t \in Thread :
        /\ mode[t] \notin {"none", "user", "Dummy"} => UserRegisters(t)[LoadReg] = 0
        /\ t # current /\ saved[t] # None => saved[t][LoadReg] = 0
        /\ space[t] # None => space[t][LoadReg] = 0

\* The invariant of the registers: R0 is zero, and the kernel never runs while a delayed
\* load is still to be written.
RegistersInv == TypeOK /\ NothingPendingInKernel

\* OneInstruction's sign tests: ADD, ADDI and SUB raise OverflowException exactly when the sum
\* or the difference of the ints is not an int.
OverflowIsExact ==
    stopped = "no" =>
        \A w \in setting.instructions :
            LET i == Decode(w)
                a == Signed(registers[i.rs])
                b == Signed(IF i.opCode = "ADDI" THEN i.extra ELSE registers[i.rt])
                exact == IF i.opCode = "SUB" THEN a - b ELSE a + b
            IN i.opCode \in {"ADD", "ADDI", "SUB"} =>
                 (Outcome(i, registers, mem[current]).trap = "Overflow"
                    <=> exact \notin -SIGN_BIT .. SIGN_BIT - 1)

\* Mult's shift-and-add loop, its early exit and its two's complement of a double word give the
\* double-length product of any two words, signed or not; DIV and DIVU give the truncated
\* quotient and the remainder that goes with it.
MultDivAreExact ==
    stopped = "no" =>
        \A w \in setting.instructions :
            LET i == Decode(w)
                a == registers[i.rs]
                b == registers[i.rt]
                out == Outcome(i, registers, mem[current])
                hi == out.regs[HiReg]
                lo == out.regs[LoReg]
            IN CASE i.opCode = "MULT" -> Signed(hi) * WordBase + lo = Signed(a) * Signed(b)
                 [] i.opCode = "MULTU" -> hi * WordBase + lo = a * b
                 [] i.opCode = "DIV" /\ b # 0 /\ out.trap = "none" ->
                        /\ Signed(lo) * Signed(b) + Signed(hi) = Signed(a)
                        /\ AbsInt(Signed(hi)) < AbsInt(Signed(b))
                        /\ hi # 0 => Negative(hi) = Negative(a)
                 [] i.opCode = "DIVU" /\ b # 0 -> lo * b + hi = a /\ hi < b
                 [] OTHER -> TRUE

=============================================================================
