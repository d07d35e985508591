---------------------------- MODULE JasRoundTrip ----------------------------
(***************************************************************************)
(* The two ends of the JAS format: JASAssembler writes down the calls that *)
(* a frontend makes (src/src/backends/jas_assembler.cpp), jas_compile      *)
(* reads the text and makes calls of its own                               *)
(* (src/src/frontends/jas/compile.cpp).  A call is a record [op, name, n,  *)
(* args, vars]; the calls of a run are one of Scripts.                     *)
(***************************************************************************)
EXTENDS RecursiveDescent

CONSTANT Scripts

VARIABLES
    script,           \* the calls that are made
    said,             \* how many of them have been made
    constant_order,   \* Assembler's
    constant_map,
    cs,               \* JASAssembler's text, and its flags
    fn_declared,
    accessible_vars,
    heard             \* the calls the reader makes

written == <<script, said, constant_order, constant_map, cs, fn_declared, accessible_vars>>
vars    == <<readVars, written, heard>>

\* Calls.
CallOf(o, nm, k, as, vs) == [op |-> o, name |-> nm, n |-> k, args |-> as, vars |-> vs]

PlainOf(o)         == CallOf(o, "", 0, << >>, << >>)
NamedOf(o, nm)     == CallOf(o, nm, 0, << >>, << >>)
ConstantOf(nm, k)  == CallOf("constant", nm, k, << >>, << >>)
FunctionOf(nm, as, vs) == CallOf("function", nm, 0, as, vs)

ReadableOps == {"DUP", "ERR", "HALT", "IADD", "IAND", "IN", "IOR", "IRETURN", "ISUB", "NOP",
                "OUT", "POP", "SWAP", "WIDE", "NEWARRAY", "IALOAD", "IASTORE", "NETBIND",
                "NETCONNECT", "NETIN", "NETOUT", "NETCLOSE", "SHL", "SHR", "IMUL", "IDIV"}
PlainOps == ReadableOps \cup {"GC"}
NameOps  == {"GOTO", "IFEQ", "IFLT", "ICMPEQ", "ILOAD", "INVOKEVIRTUAL", "ISTORE", "LDC_W", "IINC"}
ImmOps   == {"BIPUSH", "IINC"}

keywords == {"constant", "main", "method", "var", "end", "IF_ICMPEQ"}
              \cup PlainOps \cup NameOps \cup ImmOps

\* The calls there are: an Assembler takes a byte or a word, a name where it has
\* one, and the names of arguments and variables with a function only.
JasCalls ==
    {c \in [op : STRING, name : STRING, n : INT32_MIN .. INT32_MAX,
            args : Seq(STRING), vars : Seq(STRING)] :
        /\ c.op \in {"constant", "function", "label"} \cup PlainOps \cup NameOps \cup ImmOps
        /\ c.op \in PlainOps \cup (ImmOps \ NameOps) => c.name = ""
        /\ c.op \in ImmOps => c.n \in I8_MIN .. I8_MAX
        /\ c.op \notin ImmOps \cup {"constant"} => c.n = 0
        /\ c.op # "function" => c.args = << >> /\ c.vars = << >>}

ASSUME ScriptsAssumption == Scripts \subseteq Seq(JasCalls)

Init ==
    /\ script \in Scripts
    /\ said = 0
    /\ constant_order = << >> /\ constant_map = [c \in {} |-> 0]
    /\ cs = << >>
    /\ fn_declared = FALSE
    /\ accessible_vars = {}
    /\ heard = << >>
    /\ files = [f \in {} |-> << >>] /\ srcs = << >> /\ cache = << >>
    /\ todo = <<Call("toplevel")>> /\ built = << >> /\ taken = << >>
    /\ phase = "writing"

-----------------------------------------------------------------------------
(* The writer.  A name is written bare: the reader takes some for keywords. *)

Word(w) == IF w \in keywords THEN Keyword(w) ELSE Identifier(w)

Words(ws) == [i \in DOMAIN ws |-> Word(ws[i])]

Ending(w) == <<Period, Keyword("end"), Operator("-"), Keyword(w)>>

Signed(k) == IF k < 0 THEN <<Operator("-"), Decimal(-k)>> ELSE <<Decimal(k)>>

\* A word in hexadecimal is written without a sign.
Hex(k) == Hexadecimal(IF k < 0 THEN k + 2 * (INT32_MAX + 1) ELSE k)

\* Words with commas between them.
Listed(ws) == [i \in 1 .. 2 * Len(ws) - 1 |-> IF i % 2 = 0 THEN Comma ELSE Word(ws[(i + 1) \div 2])]

\* The end of the function in front of a method.
closing == IF fn_declared THEN Ending("method") ELSE Ending("main")

instruction(call) ==
    <<Word(IF call.op = "ICMPEQ" THEN "IF_ICMPEQ" ELSE call.op)>>
      \o (IF call.op \in NameOps THEN <<Word(call.name)>> ELSE << >>)
      \o (IF call.op \in ImmOps THEN Signed(call.n) ELSE << >>)

\* The next call, and what it does to the text.
Make1(op) == phase = "writing" /\ said < Len(script) /\ script[said + 1].op = op
next_call == script[said + 1]

Said ==
    /\ said' = said + 1
    /\ UNCHANGED <<readVars, script, heard>>

\* Mutant of constant_value: the first value stays.
constant_value_First(call) ==
    IF call.name \in DOMAIN constant_map THEN constant_map[call.name] ELSE call.n

constant_value(call) == call.n

constant ==
    /\ Make1("constant")
    /\ constant_order' = IF next_call.name \in DOMAIN constant_map THEN constant_order
                         ELSE Append(constant_order, next_call.name)
    /\ constant_map' = [c \in DOMAIN constant_map \cup {next_call.name} |->
                           IF c = next_call.name THEN constant_value(next_call) ELSE constant_map[c]]
    /\ Said /\ UNCHANGED <<cs, fn_declared, accessible_vars>>

\* What begins a function, and ends the one in front of it; its variables.
header(f, end) ==
    IF f.name = "main" THEN <<Period, Keyword("main")>>
    ELSE end \o <<Period, Keyword("method"), Word(f.name), BracesOpen>>
             \o Listed(f.args) \o <<BracesClose>>

declared(f) ==
    IF f.vars = << >> THEN << >> ELSE <<Period, Keyword("var")>> \o Words(f.vars) \o Ending("var")

\* Mutant of variables: those of the functions before stay accessible.
variables_Kept(call) == accessible_vars \cup ToSet(call.args) \cup ToSet(call.vars)

variables(call) == ToSet(call.args) \cup ToSet(call.vars)

function ==
    /\ Make1("function")
    /\ LET f == next_call
       IN  /\ cs' = cs \o (header(f, closing) \o declared(f))
           /\ fn_declared' = (fn_declared \/ f.name # "main")
           /\ accessible_vars' = variables(f)
    /\ Said /\ UNCHANGED <<constant_order, constant_map>>

label ==
    /\ Make1("label")
    /\ cs' = cs \o <<Word(next_call.name), Colon>>
    /\ Said /\ UNCHANGED <<constant_order, constant_map, fn_declared, accessible_vars>>

Instruction ==
    /\ \E op \in PlainOps \cup NameOps \cup ImmOps : Make1(op)
    /\ cs' = cs \o instruction(next_call)
    /\ Said /\ UNCHANGED <<constant_order, constant_map, fn_declared, accessible_vars>>

constants_text ==
    IF constant_order = << >> THEN << >>
    ELSE <<Period, Keyword("constant")>>
           \o [i \in 1 .. 2 * Len(constant_order) |->
                 IF i % 2 = 1 THEN Word(constant_order[(i + 1) \div 2])
                 ELSE Hex(constant_map[constant_order[i \div 2]])]
           \o Ending("constant")

\* The text is complete; the reader opens it.
compile ==
    /\ phase = "writing" /\ said = Len(script)
    /\ files' = [f \in {"out"} |-> constants_text \o cs \o closing]
    /\ srcs' = <<[name |-> "out", rest |-> files'["out"]]>>
    /\ phase' = "parsing"
    /\ UNCHANGED <<cache, todo, built, taken, written, heard>>

-----------------------------------------------------------------------------
(* The reader.                                                             *)

\* `.end-w`, behind the period when that has been read.
parse_end(w) == <<Expect("Period"), ExpectOne("Keyword", "end"), ExpectOne("Operator", "-"),
                  ExpectOne("Keyword", w)>>

parse_constant_block(t) ==
    IF t.type = "Identifier"
    THEN <<parse_identifier, Call("value"), Make("constant"), Call("constants")>>
    ELSE parse_end("constant")

parse_optional_vars(t) ==
    IF t.type = "Period"
    THEN <<Discard, ExpectOne("Keyword", "var"), Call("var_names")>>
    ELSE << >>

parse_vars(t) ==
    IF t.type = "Identifier"
    THEN <<parse_identifier, Make("var"), Call("var_names")>>
    ELSE parse_end("var")

parse_jas_op(t) ==
    IF t.value \in ReadableOps \cup NameOps \cup ImmOps \cup {"IF_ICMPEQ"}
    THEN <<Discard, Push(PlainOf(IF t.value = "IF_ICMPEQ" THEN "ICMPEQ" ELSE t.value))>>
           \o (IF t.value \in NameOps \cup {"IF_ICMPEQ"} THEN <<parse_identifier, Make("name")>> ELSE << >>)
           \o (IF t.value \in ImmOps THEN <<Call("immediate"), Make("immediate")>> ELSE << >>)
           \o <<Make("call")>>
    ELSE <<Fail>>

parse_main == <<Discard, Push(FunctionOf("main", << >>, << >>)), Call("braces")>>

parse_braces(t) == IF t.type = "BracesOpen" THEN <<Discard, Expect("BracesClose")>> ELSE << >>

parse_named == <<Discard, parse_identifier, Make("method"), Expect("BracesOpen"), Call("args"),
                 Expect("BracesClose")>>

parse_args(t) ==
    IF t.type = "Identifier" THEN <<parse_identifier, Make("arg"), Call("more_args")>> ELSE << >>

more_args(t) ==
    IF t.type = "Comma" THEN <<Discard, parse_identifier, Make("arg"), Call("more_args")>> ELSE << >>

\* The instructions of a method, and its labels.
parse_code(t) ==
    CASE t.type = "Identifier" -> <<parse_identifier, Expect("Colon"), Make("label"), Call("code")>>
      [] t.type = "Keyword"    -> <<Call("op"), Call("code")>>
      [] OTHER -> << >>

parse_method(t) ==
    (IF t.value = "main" THEN parse_main ELSE parse_named)
      \o <<Call("vars"), Make("call"), Call("code")>>
      \o parse_end(IF t.value = "main" THEN "main" ELSE "method")

parse_block(t) ==
    CASE is_next(t, "Keyword", {"constant"}) -> <<Discard, Call("constants")>>
      [] is_next(t, "Keyword", {"main", "method"}) -> parse_method(t)
      [] OTHER -> <<Fail>>

\* The first thing that does not begin with a period ends the program.
parse_toplevel(t) ==
    IF t.type = "Period" THEN <<Discard, Call("block"), Call("toplevel")>> ELSE <<Make("end")>>

Rule(r, t) ==
    CASE r = "toplevel"  -> parse_toplevel(t)
      [] r = "block"     -> parse_block(t)
      [] r = "constants" -> parse_constant_block(t)
      [] r = "value"     -> parse_value(t, INT32_MIN, INT32_MAX)
      [] r = "braces"    -> parse_braces(t)
      [] r = "args"      -> parse_args(t)
      [] r = "more_args" -> more_args(t)
      [] r = "vars"      -> parse_optional_vars(t)
      [] r = "var_names" -> parse_vars(t)
      [] r = "code"      -> parse_code(t)
      [] r = "op"        -> parse_jas_op(t)
      [] r = "immediate" -> parse_value(t, I8_MIN, I8_MAX)

making(what) == phase = "parsing" /\ Head(todo).do = "make" /\ Head(todo).a = what

Compose ==
    /\ phase = "parsing" /\ Head(todo).do = "make"
    /\ LET what == Head(todo).a
       IN  \/ what = "negative"  /\ Becomes(1, Val(i32(-top(1).value)))
           \/ what = "name"      /\ Becomes(2, [top(2) EXCEPT !.name = top(1).identifier])
           \/ what = "immediate" /\ Becomes(2, [top(2) EXCEPT !.n = top(1).value])
           \/ what = "method"    /\ Becomes(1, FunctionOf(top(1).identifier, << >>, << >>))
           \/ what = "arg"       /\ Becomes(2, [top(2) EXCEPT !.args = Append(@, top(1).identifier)])
           \/ what = "var"       /\ Becomes(2, [top(2) EXCEPT !.vars = Append(@, top(1).identifier)])
    /\ UNCHANGED <<written, heard>>

\* The reader calls its assembler.
Calls(k, call) ==
    /\ heard' = Append(heard, call)
    /\ todo' = Tail(todo)
    /\ built' = SubSeq(built, 1, Len(built) - k)
    /\ UNCHANGED <<files, srcs, cache, phase, taken, written>>

Speak ==
    \/ making("call")     /\ Calls(1, top(1))
    \/ making("label")    /\ Calls(1, NamedOf("label", top(1).identifier))
    \/ making("constant") /\ Calls(2, ConstantOf(top(2).identifier, top(1).value))

\* The loop over the blocks ends, with or without text behind it.
EndOfProgram ==
    /\ making("end")
    /\ phase' = "done"
    /\ UNCHANGED <<files, srcs, cache, todo, built, taken, written, heard>>

Write == constant \/ function \/ label \/ Instruction \/ compile

Read ==
    /\ ReadToken \/ OutOfTokens \/ Descend(Rule) \/ Consume \/ Refuse \/ Keep
    /\ UNCHANGED <<written, heard>>

Next == Write \/ Read \/ Compose \/ Speak \/ EndOfProgram

Spec == Init /\ [][Next]_vars

-----------------------------------------------------------------------------
(* Correctness.                                                            *)

\* Between two blocks, and at the end, nothing is half-read.
Settled ==
    Head(todo).do \in {"call", "make"} /\ Head(todo).a \in {"toplevel", "end"} =>
        Len(todo) = 1 /\ built = << >>

\* The variables keep their types; is_var knows the variables of the function
\* that was begun last, and no others; a block takes all that was read for it.
TypeOK ==
    /\ phase \in {"writing", "parsing", "done", "error"}
    /\ said \in 0 .. Len(script)
    /\ ToSet(constant_order) = DOMAIN constant_map
    /\ Len(cache) <= 1
    /\ \A v \in accessible_vars :
          LET begun == {i \in 1 .. said : script[i].op = "function"}
          IN  v \in ToSet(script[Max(begun)].args) \cup ToSet(script[Max(begun)].vars)
    /\ Settled

\* What s has at the positions in S, in their order.
ranked(S, i)  == {p \in S : Cardinality({q \in S : q <= p}) = i}
InOrder(s, S) == [i \in 1 .. Cardinality(S) |-> s[CHOOSE p \in ranked(S, i) : TRUE]]

\* Among the first n calls of s: those that are no constants, the constants
\* of a name, and the ones that are the first with theirs.
CodeIn(s, n)         == {i \in 1 .. n : s[i].op # "constant"}
ConstantIn(s, nm, n) == {i \in 1 .. n : s[i].op = "constant" /\ s[i].name = nm}
FirstIn(s, n) ==
    {i \in 1 .. n : s[i].op = "constant" /\ ConstantIn(s, s[i].name, i - 1) = {}}

code == InOrder(script, CodeIn(script, Len(script)))

\* What was said, in the order in which the text has it: first the constants,
\* each with its last value.
Announced ==
    LET first     == InOrder(script, FirstIn(script, Len(script)))
        value(nm) == script[Max(ConstantIn(script, nm, Len(script)))].n
    IN  [i \in DOMAIN first |-> ConstantOf(first[i].name, value(first[i].name))] \o code

\* The frontends begin with a function; main has no arguments.
Protocol ==
    /\ code # << >> => code[1].op = "function"
    /\ \A i \in DOMAIN code : code[i].name = "main" => code[i].args = << >>

\* What the reader can read: one main and it comes first, no name that is one
\* of the reader's keywords, no GC, no least byte, and no function that has
\* neither a variable nor an instruction.
Readable ==
    LET is_function(i) == i > Len(code) \/ code[i].op = "function"
        names(call) == ToSet(call.args) \cup ToSet(call.vars)
                         \cup (IF call.op = "function" THEN {call.name} \ {"main"} ELSE {call.name})
    IN  /\ code # << >>
        /\ \A i \in DOMAIN code :
              /\ (code[i].op = "function" /\ code[i].name = "main") <=> i = 1
              /\ code[i].op # "GC"
              /\ code[i].op \in ImmOps => code[i].n # I8_MIN
              /\ is_function(i) => code[i].vars # << >> \/ ~ is_function(i + 1)
        /\ \A i \in DOMAIN Announced : names(Announced[i]) \cap keywords = {}

\* What the JAS backend writes, the JAS frontend reads.
RoundTrip == Protocol /\ Readable => phase # "error"

\* A text that is read at all is read as what was said: no call is lost, added,
\* moved or changed, whatever the names and numbers in it.
NeverMisread == Protocol /\ phase = "done" => heard = Announced

=============================================================================
