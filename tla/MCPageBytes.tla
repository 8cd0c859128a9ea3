----------------------------- MODULE MCPageBytes -----------------------------
(***************************************************************************)
(* Instances of PageBytes with the sizes of the code.  The tables are: of  *)
(* every type; without columns; of degree 2 (six strings, and two at the   *)
(* edge of the page); of degree 1; and around 255 columns.                 *)
(***************************************************************************)
EXTENDS PageBytes

CONSTANTS short, long, students, withZero

Repeat(t, n) == [j \in 1 .. n |-> t]
AnyColumns ==
  {<<"int", "char", "bool", "float", "double", "string">>, << >>,
   Repeat("string", 6), Repeat("string", 9) \o Repeat("char", 46),
   Repeat("string", 8) \o Repeat("char", 174), Repeat("string", 10),
   Repeat("bool", 255), Repeat("char", 256), Repeat("char", 257)}
WideColumns == {Repeat("string", 31)}

Texts == {short, long}
Names == {students, withZero}
FilledWith == {0, 30}

\* long has MAX_STR_SZ characters or more, withZero is students, a zero byte and more.
Strings(s) ==
  CASE s = withZero -> students
    [] s \in {long} \X (1 .. MaxCells) \X (1 .. 10) -> Noise
    [] OTHER -> s
=============================================================================
