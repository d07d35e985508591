--------------------------- MODULE MCIjvmFrontend ---------------------------
(***************************************************************************)
(* Small binaries for IjvmFrontend: main, and one method behind it.  A     *)
(* program is written as two sequences of instructions whose jumps name    *)
(* the number of an instruction; `binary_of` lays them out.                *)
(***************************************************************************)
EXTENDS IjvmFrontend

\* One instruction: r is the number of the instruction a jump goes to, 0 for
\* a target outside of the text section; s is the variable.
I(o, r, s) == [op |-> o, ref |-> r, slot |-> s]
Op(o)      == I(o, 1, 0)
To(o, r)   == I(o, r, 0)
Name(o, s) == I(o, 1, s)

Bytes(i) == 1 + operands(i.op, FALSE)

\* Where the k-th instruction of is lies, from `base` on.
place(is, base) ==
    LET f[k \in 1 .. Len(is) + 1] == IF k = 1 THEN base ELSE f[k - 1] + Bytes(is[k - 1])
    IN  f

\* main, then the method with this header; its jumps go into main.
binary_of(main, header, code) ==
    LET in_main == place(main, 0)
        address == in_main[Len(main) + 1]
        in_code == place(code, address + HeaderSize)
        size    == in_code[Len(code) + 1]
        instr(i) == [op |-> i.op, func |-> address, narrow |-> i.slot, wide |-> i.slot,
                     to |-> IF i.ref \in 1 .. Len(main) THEN in_main[i.ref] ELSE size + 1]
        starts(o, is, p) == \E k \in DOMAIN is : p[k] = o
        nr(o, is, p) == CHOOSE k \in DOMAIN is : p[k] = o
    IN  [size   |-> size,
         header |-> [o \in 0 .. size - 1 |-> header],
         text   |-> [o \in 0 .. size - 1 |->
                       CASE starts(o, main, in_main) -> instr(main[nr(o, main, in_main)])
                         [] starts(o, code, in_code) -> instr(code[nr(o, code, in_code)])
                         [] OTHER                -> instr(Op("INVALID"))]]

TwoWords   == [args |-> 2, vars |-> 0]
OneOfEach  == [args |-> 1, vars |-> 1]

Jumps(ops, n) == {To(o, r) : o \in ops, r \in 1 .. n}

\* Every shape of control flow of up to four instructions.
Shapes == {<<a, b, c, d>> : a, b, c \in {Op("STACK")} \cup Jumps({"GOTO", "IFEQ"}, 4),
                            d \in {Op("HALT"), To("GOTO", 2), To("IFEQ", 1)}}

\* Every kind of instruction, in main and in the method.
Some == {Op("STACK"), Op("BIPUSH"), Op("LDC_W"), Op("INVOKEVIRTUAL"), Op("INVALID"), Op("IRETURN"),
         Op("ERR"), Name("ILOAD", 0), Name("ISTORE", 5), Name("IINC", 1),
         To("IFLT", 3), To("ICMPEQ", 2), To("ICMPEQ", 3), To("GOTO", 0), To("IFEQ", 0)}

Mains == {<<a, b, c>> : a, b \in Some, c \in {Op("HALT"), To("GOTO", 1)}}
Methods == {<<Name("ILOAD", 1), Op("IRETURN")>>, <<Name("ISTORE", 2), Op("IRETURN")>>,
            <<Name("IINC", 0), Op("IRETURN")>>, <<Op("INVOKEVIRTUAL"), To("IFEQ", 2), Op("IRETURN")>>,
            <<Op("STACK")>>, << >>, <<Op("INVALID")>>}

\* A wide variable, an unreachable WIDE, and one with nothing behind it.
WideBinaries ==
    {binary_of(<<Op("WIDE"), Name(o, s), Op("STACK"), Op("HALT")>>, TwoWords, c) :
        o \in VarOps, s \in {0, 5}, c \in {<<Op("IRETURN")>>, <<Op("WIDE")>>}} \cup
    {binary_of(<<Op("INVOKEVIRTUAL"), Op("HALT")>>, TwoWords, c) :
        c \in {<<Op("IRETURN"), Op("WIDE")>>, <<Op("WIDE")>>, <<Op("STACK"), Op("WIDE")>>}}

\* A binary without its last n bytes: a header or an instruction is cut.
cut(b, n) == [size |-> b.size - n,
              header |-> [o \in 0 .. b.size - n - 1 |-> b.header[o]],
              text   |-> [o \in 0 .. b.size - n - 1 |-> b.text[o]]]

CutBinaries ==
    {cut(binary_of(<<Op("INVOKEVIRTUAL"), i, j>>, TwoWords, << >>), n) :
        i \in {Op("STACK"), Op("HALT")}, j \in {Op("HALT"), To("GOTO", 2), Name("ILOAD", 1)},
        n \in 1 .. 6}

MCBinaries ==
    {binary_of(m, TwoWords, <<Op("IRETURN")>>) : m \in Shapes} \cup
    {binary_of(m, h, c) : m \in Mains, h \in {TwoWords, OneOfEach}, c \in Methods} \cup
    WideBinaries \cup
    CutBinaries

-----------------------------------------------------------------------------
(* Where code and documentation part.                                      *)

\* if (x) A else B; C, as the compiler of this repository lays it out.
TrailingBinaries ==
    {binary_of(<<Name("ILOAD", 0), To("IFEQ", 5), Op("STACK"), To("GOTO", 6),
                 Op("STACK"), Op("HALT")>>, TwoWords, << >>)}

=============================================================================
