----------------------------- MODULE MCGateway -----------------------------
(* Bodies around the boundaries of the transformation, and their modes. *)
EXTENDS Gateway

Result(size) ==
  [size |-> size, width |-> 1, named |-> TRUE, error |-> FALSE, plain |-> TRUE,
   allowed |-> TRUE]
Body1(mode, slack, results) ==
  [mode |-> mode, json |-> TRUE, slack |-> slack, results |-> results]

\* An envelope of single-byte text has 2 + 2 + 2 bytes, and 2 more in JSON: replacing a
\* result of 8 gains nothing, one of 9 a byte; three-byte characters preserve nothing.
Mixed ==
  <<Result(9), [Result(9) EXCEPT !.allowed = FALSE], [Result(9) EXCEPT !.plain = FALSE],
    [Result(6) EXCEPT !.width = 3], Result(6), Result(3), [Result(9) EXCEPT !.named = FALSE]>>

MCInputs ==
  { Body1("off", 1, <<Result(9)>>),
    Body1("observe", 0, <<Result(9), [Result(9) EXCEPT !.error = TRUE]>>),
    Body1("envelope", 0, <<Result(8)>>),
    Body1("envelope", 1, Mixed),
    [Body1("envelope", 0, <<Result(9)>>) EXCEPT !.json = FALSE] }
=============================================================================
