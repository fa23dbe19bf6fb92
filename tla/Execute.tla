------------------------------- MODULE Execute -------------------------------
(***************************************************************************)
(* bin/execute.c: the stand-alone simulator of the MIPS processor that     *)
(* comes with the tools in bin/.  Loads take effect at once, there are no  *)
(* exceptions and there is one program.  A state is a record of Reg, HI,   *)
(* LO, pc, npc and mem; a raw instruction w has the fields major, rs, rt,  *)
(* rd, shamt, funct and imm (an immediate, or the target of a jump).       *)
(***************************************************************************)
EXTENDS MipsWord

\* The opcode numbers of bin/encode.h.
Normal ==
    [J |-> 2, JAL |-> 3, BEQ |-> 4, BNE |-> 5, BLEZ |-> 6, BGTZ |-> 7, ADDI |-> 8,
     ADDIU |-> 9, SLTI |-> 10, SLTIU |-> 11, ANDI |-> 12, ORI |-> 13, XORI |-> 14, LUI |-> 15,
     LB |-> 32, LH |-> 33, LWL |-> 34, LW |-> 35, LBU |-> 36, LHU |-> 37, LWR |-> 38,
     SB |-> 40, SH |-> 41, SWL |-> 42, SW |-> 43, SWR |-> 46]

Special ==
    [SLL |-> 0, SRL |-> 2, SRA |-> 3, SLLV |-> 4, SRLV |-> 6, SRAV |-> 7, JR |-> 8, JALR |-> 9,
     SYSCALL |-> 12, BREAK |-> 13, MFHI |-> 16, MTHI |-> 17, MFLO |-> 18, MTLO |-> 19,
     MULT |-> 24, MULTU |-> 25, DIV |-> 26, DIVU |-> 27, ADD |-> 32, ADDU |-> 33, SUB |-> 34,
     SUBU |-> 35, AND |-> 36, OR |-> 37, XOR |-> 38, NOR |-> 39, SLT |-> 42, SLTU |-> 43]

Bcond == [BLTZ |-> 0, BGEZ |-> 1, BLTZAL |-> 16, BGEZAL |-> 17]

Named(table, number) ==
    LET names == {n \in DOMAIN table : table[n] = number}
    IN IF names = {} THEN "u" ELSE CHOOSE n \in names : TRUE

\* The case of runprogram's switch that an instruction reaches.
Name(w) == CASE w.major = 0 -> Named(Special, w.funct)
             [] w.major = 1 -> Named(Bcond, w.rt)
             [] OTHER -> Named(Normal, w.major)

immed(w) == SignExtend(w.imm, HalfBase)

\* I_SLL .. I_SRAV.  The shifts by a register do not mask the count.
ShiftCase(name, w, Reg) ==
    LET count == IF name \in {"SLL", "SRL", "SRA"} THEN w.shamt ELSE Reg[w.rs]
        x == Reg[w.rt]
    IN CASE name \in {"SLL", "SLLV"} -> ShiftLeft(x, count)
         [] name \in {"SRL", "SRLV"} -> x \div 2 ^ count
         [] name \in {"SRA", "SRAV"} -> ShiftRight(x, count)

\* I_MULT and I_MULTU: HI is the sum of three of the four partial products.
MultCase(name, a, b) ==
    LET neg == name = "MULT" /\ Negative(a) # Negative(b)
        t1 == IF name = "MULT" THEN Wrap(AbsInt(Signed(a))) ELSE a
        t2 == IF name = "MULT" THEN Wrap(AbsInt(Signed(b))) ELSE b
        high(t) == t \div HalfBase
        low(t) == t % HalfBase
        LO == Wrap(t1 * t2)
        HI == Wrap(high(t1) * high(t2)
                     + ShiftRight(Wrap(high(t1) * low(t2)), 2 * ByteBits)
                     + ShiftRight(Wrap(high(t2) * low(t1)), 2 * ByteBits))
    IN IF neg THEN [HI |-> Wrap(Complement(HI) + Bit(LO = 0)), LO |-> Wrap(-LO)]
              ELSE [HI |-> HI, LO |-> LO]

\* I_DIV and I_DIVU, for a divisor that is not 0.
DivCase(name, a, b) ==
    IF name = "DIV"
    THEN LET q == Quotient(Signed(a), Signed(b))
         IN [LO |-> Wrap(q), HI |-> Wrap(Signed(a) - q * Signed(b))]
    ELSE [LO |-> a \div b, HI |-> a % b]

\* I_ADD .. I_SLTU: ADD and SUB do not trap.
ArithCase(name, a, b) ==
    CASE name \in {"ADD", "ADDU"} -> Wrap(a + b)
      [] name \in {"SUB", "SUBU"} -> Wrap(a - b)
      [] name = "AND" -> a & b
      [] name = "OR" -> a | b
      [] name = "XOR" -> a ^^ b
      [] name = "NOR" -> Complement(a | b)
      [] name = "SLT" -> Bit(Signed(a) < Signed(b))
      [] name = "SLTU" -> Bit(a < b)

\* I_ADDI .. I_LUI: the immediates are sign-extended, those of ANDI, ORI and XORI too.
ImmedCase(name, a, imm) ==
    CASE name \in {"ADDI", "ADDIU"} -> Wrap(a + imm)
      [] name = "SLTI" -> Bit(Signed(a) < Signed(imm))
      [] name = "SLTIU" -> Bit(a < imm)
      [] name = "ANDI" -> a & imm
      [] name = "ORI" -> a | imm
      [] name = "XORI" -> a ^^ imm
      [] name = "LUI" -> Wrap(imm * HalfBase)

\* I_LB .. I_LWR, at an address that is a multiple of the size.
LoadCase(name, m, addr, old) ==
    CASE name = "LB" -> SignExtend(ReadMem(m, addr, 1), ByteBase)
      [] name = "LBU" -> ReadMem(m, addr, 1)
      [] name = "LH" -> SignExtend(ReadMem(m, addr, 2), HalfBase)
      [] name = "LHU" -> ReadMem(m, addr, 2)
      [] name = "LWL" -> old | ReadMem(m, addr, 4)
      [] name \in {"LW", "LWR"} -> ReadMem(m, addr, 4)

\* I_BCOND and I_BEQ .. I_BGTZ.
BranchCase(name, a, b) ==
    CASE name \in {"BLTZ", "BLTZAL"} -> Negative(a)
      [] name \in {"BGEZ", "BGEZAL"} -> ~Negative(a)
      [] name = "BEQ" -> a = b
      [] name = "BNE" -> a # b
      [] name = "BLEZ" -> Signed(a) <= 0
      [] name = "BGTZ" -> Signed(a) > 0

Branches == {"BLTZ", "BLTZAL", "BGEZ", "BGEZAL", "BEQ", "BNE", "BLEZ", "BGTZ"}
Loads == {"LB", "LBU", "LH", "LHU", "LWL", "LW", "LWR"}

\* A jump stays in the region of memory that its address xpc is in: the top bits of the word
\* (4 of 32 in the code, 1 of every 8 here).
Region == 2 ^ (WordBits - (WordBits + 7) \div 8)
JumpTo(xpc, target) == (xpc \div Region) * Region + (IndexToAddr(target) % Region)

\* I_SB .. I_SW.
StoreCase(name, m, addr, b) ==
    WriteMem(m, addr, CASE name = "SB" -> 1 [] name = "SH" -> 2 [] name = "SW" -> 4, b)

\* I_MFHI .. I_MTLO.
MoveCase(name, s, rd, a) ==
    CASE name = "MFHI" -> [s EXCEPT !.Reg[rd] = s.HI]
      [] name = "MFLO" -> [s EXCEPT !.Reg[rd] = s.LO]
      [] name = "MTHI" -> [s EXCEPT !.HI = a]
      [] name = "MTLO" -> [s EXCEPT !.LO = a]

\* runprogram: one turn of its loop, for an instruction that is not a system call.
runprogram(s, w) ==
    LET name == Name(w)
        xpc == s.pc
        Reg0 == [s.Reg EXCEPT ![0] = 0]
        a == Reg0[w.rs]
        b == Reg0[w.rt]
        addr == Wrap(a + immed(w))
        next == [s EXCEPT !.Reg = Reg0, !.pc = s.npc, !.npc = Wrap(s.npc + 4)]
        Link(r) == [next EXCEPT !.Reg[r] = Wrap(xpc + 8)]
        Jump(n, to) == [n EXCEPT !.npc = to]
        linked == IF name \in {"BLTZAL", "BGEZAL", "JAL"} THEN Link(31) ELSE next
    IN CASE name \in {"SLL", "SRL", "SRA", "SLLV", "SRLV", "SRAV"} ->
                [next EXCEPT !.Reg[w.rd] = ShiftCase(name, w, Reg0)]
         [] name = "JR" -> Jump(next, a)
         [] name = "JALR" -> Jump(Link(w.rd), a)
         [] name \in {"MFHI", "MFLO", "MTHI", "MTLO"} -> MoveCase(name, next, w.rd, a)
         [] name \in {"MULT", "MULTU"} ->
                [next EXCEPT !.HI = MultCase(name, a, b).HI, !.LO = MultCase(name, a, b).LO]
         [] name \in {"DIV", "DIVU"} ->
                [next EXCEPT !.HI = DivCase(name, a, b).HI, !.LO = DivCase(name, a, b).LO]
         [] name \in {"ADD", "ADDU", "SUB", "SUBU", "AND", "OR", "XOR", "NOR", "SLT", "SLTU"} ->
                [next EXCEPT !.Reg[w.rd] = ArithCase(name, a, b)]
         [] name \in Branches ->
                IF BranchCase(name, linked.Reg[w.rs], linked.Reg[w.rt])
                THEN Jump(linked, Wrap(xpc + 4 + IndexToAddr(immed(w)))) ELSE linked
         [] name \in {"J", "JAL"} -> Jump(linked, JumpTo(xpc, w.imm))
         [] name \in {"ADDI", "ADDIU", "SLTI", "SLTIU", "ANDI", "ORI", "XORI", "LUI"} ->
                [next EXCEPT !.Reg[w.rt] = ImmedCase(name, a, immed(w))]
         [] name \in Loads -> [next EXCEPT !.Reg[w.rt] = LoadCase(name, s.mem, addr, b)]
         [] name \in {"SB", "SH", "SW"} -> [next EXCEPT !.mem = StoreCase(name, @, addr, b)]

=============================================================================
