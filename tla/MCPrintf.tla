------------------------------ MODULE MCPrintf ------------------------------
(***************************************************************************)
(* Calls for checking Printf with words of 6 bits.                         *)
(***************************************************************************)
EXTENDS Printf

To(sink, items) == [sink |-> sink, items |-> items]

\* The words at which a numeral grows or the sign changes by every numeric
\* directive; several directives in one format; a letter that is also a directive;
\* a string argument that is empty and one that looks like a directive; "%%" in both.
SomeCalls ==
  {To("terminal", <<Lit("d"), Number(k, n)>>) : k \in {"d", "u", "x"}, n \in {0, 9, 10, 31, 32, 63}}
  \cup {To("serial", <<Number("x", 63), Percent, Lit("x")>>),
        To("serial", <<Str(<<"%", "d">>), Number("d", 33)>>),
        To("terminal", <<Percent, Lit("d"), Number("u", 10)>>),
        To("terminal", <<Str(<<>>), Number("u", 10), Number("d", 63)>>)}
=============================================================================
