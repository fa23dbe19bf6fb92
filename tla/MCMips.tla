------------------------------- MODULE MCMips -------------------------------
(***************************************************************************)
(* The processor for TLC: two threads, bytes of two bits (words of eight). *)
(***************************************************************************)
EXTENDS Mips, TLC

CONSTANTS u1, u2

TwoThreads == {u1, u2}
Symmetry == Permutations(TwoThreads)
SomeGPR == {0, 1, 2, 4, 29, 31}

\* An instruction of the given name, as the tables of mipssim.h encode it.
Encode(name, s, t, d, x) ==
    LET index(table) == CHOOSE n \in 0 .. 63 : table[n + 1] = name
        bcond == [BLTZ |-> 0, BGEZ |-> 1, BLTZAL |-> 16, BGEZAL |-> 17]
        isBcond == name \in DOMAIN bcond
        isSpecial == \E n \in 1 .. 48 : specialTable[n] = name
    IN [major |-> CASE isBcond -> 1 [] isSpecial -> 0 [] OTHER -> index(opTable),
        funct |-> IF isSpecial THEN index(specialTable) ELSE 0,
        rs |-> s, rt |-> IF isBcond THEN bcond[name] ELSE t, rd |-> d,
        shamt |-> x % 8, imm |-> x]

\* Every instruction once, on any two words.
Arithmetic ==
    {Encode(n, 1, 2, d, 3) : d \in {0, 1, 4}, n \in
        {"ADD", "ADDU", "SUB", "SUBU", "AND", "OR", "XOR", "NOR", "SLT", "SLTU", "SLLV", "SRLV",
         "SRAV", "SLL", "SRL", "SRA", "MULT", "MULTU", "DIV", "DIVU", "JALR"}}
    \cup {Encode(n, 1, 4, 0, x) : x \in {3, 9}, n \in
        {"ADDI", "ADDIU", "SLTI", "SLTIU", "ANDI", "ORI", "XORI", "LUI", "LB", "LBU", "LH",
         "LHU", "LW", "LWL", "LWR"}}
    \cup {Encode(n, 1, 2, 0, 14) : n \in
        {"BEQ", "BNE", "BLEZ", "BGTZ", "BLTZ", "BGEZ", "BLTZAL", "BGEZAL", "J", "JAL", "JR",
         "SB", "SH", "SW", "SWL", "SWR", "MTHI", "MTLO", "MFHI", "MFLO", "RES", "UNIMP"}}

\* Sequences of instructions around delay slots.
Flow ==
    {Encode("LW", 0, 1, 0, 0), Encode("LB", 0, 0, 0, 1), Encode("LWR", 0, 1, 0, 4),
     Encode("LW", 0, 4, 0, 4), Encode("ADDU", 1, 2, 1, 0), Encode("ADDU", 2, 4, 4, 0),
     Encode("BNE", 2, 0, 0, 2), Encode("BGEZAL", 2, 0, 0, 3), Encode("JALR", 2, 0, 31, 0),
     Encode("J", 0, 0, 0, 5), Encode("SW", 0, 2, 0, 0), Encode("MULT", 2, 4, 0, 0),
     Encode("MFLO", 0, 0, 2, 0), Encode("SYSCALL", 0, 0, 0, 0)}

\* Longer ones, of fewer instructions.
Chain ==
    {Encode("LW", 0, 1, 0, 0), Encode("ADDU", 2, 4, 4, 0), Encode("BNE", 2, 0, 0, 2),
     Encode("JALR", 2, 0, 31, 0), Encode("SW", 0, 2, 0, 0), Encode("SYSCALL", 0, 0, 0, 0)}

Bytes == [k \in 0 .. MemBytes - 1 |-> (k * k + k + 3) % 4]

MCSettings ==
    {[instructions |-> Arithmetic, operands |-> {0, 1, 2, 3, 7, 12, 16, 100, 126, 127, 128,
                                                 129, 131, 254, 255},
      steps |-> 1, faults |-> 0, slices |-> 0, results |-> {None}, exec |-> FALSE, mem |-> Bytes],
     [instructions |-> Flow, operands |-> {4},
      steps |-> 3, faults |-> 1, slices |-> 1, results |-> {None, 0}, exec |-> TRUE, mem |-> Bytes],
     [instructions |-> Chain, operands |-> {4},
      steps |-> 4, faults |-> 1, slices |-> 1, results |-> {0}, exec |-> FALSE, mem |-> Bytes]}

=============================================================================
