--------------------------- MODULE MCJasRoundTrip ---------------------------
(***************************************************************************)
(* A small instance of JasRoundTrip: a byte is -4..3, a word -16..15.      *)
(* Every instruction in a main of its own, and every few calls of a small  *)
(* vocabulary, with names that the reader takes for keywords.              *)
(***************************************************************************)
EXTENDS JasRoundTrip

Bytes == {I8_MIN, -3, 0, I8_MAX}

main == FunctionOf("main", << >>, << >>)

Instructions ==
    {PlainOf(o) : o \in PlainOps}
      \cup {NamedOf(o, nm) : o \in NameOps \ {"IINC"}, nm \in {"x", "IN", "main"}}
      \cup {CallOf("IINC", nm, k, << >>, << >>) : nm \in {"x", "var"}, k \in Bytes}
      \cup {CallOf("BIPUSH", "", k, << >>, << >>) : k \in Bytes}

Words1 == {INT32_MIN, -3, -1, 0, INT32_MAX}

OneByOne ==
    {<<main, i, PlainOf("HALT")>> : i \in Instructions}
      \cup {<<ConstantOf("c", k), main, NamedOf("LDC_W", "c")>> : k \in Words1}

Vocabulary ==
    {ConstantOf("c", 2), ConstantOf("c", -3), ConstantOf("DUP", 1),
     main, FunctionOf("main", << >>, <<"a", "b">>), FunctionOf("f", <<"a", "end">>, << >>),
     FunctionOf("f", <<"a", "b">>, <<"c">>), FunctionOf("g", << >>, << >>),
     NamedOf("label", "l"), NamedOf("label", "POP"), NamedOf("label", "main"), PlainOf("DUP"), NamedOf("ILOAD", "a")}

MCScripts == OneByOne \cup BoundedSeq(Vocabulary, 4)

=============================================================================
