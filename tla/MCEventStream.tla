---------------------------- MODULE MCEventStream ----------------------------
(* Small instances of EventStream for TLC. *)
EXTENDS EventStream, TLC

\* A text that is shown in two parts, the end, one whose later line takes
\* the place of its first and ends the client, one whose second part fails, and
\* nothing.
Tagged(t) == [Line(t) EXCEPT !.tag = "data"]
SomeData == {<<Line("y"), Blank, Tagged("z")>>, <<EndText>>,
             <<Line("y"), [Tagged("exit") EXCEPT !.pad = TRUE]>>,
             <<Line("y"), Blank, Line("z")>>, <<Blank>>}
=============================================================================
