--------------------------- MODULE MCFrameReception ---------------------------
EXTENDS FrameReception

Coded(payload, fcs16, pad, drop, jammed, errors) ==
  [payload |-> payload, fcs16 |-> fcs16, coded |-> TRUE, pad |-> pad,
   drop |-> drop, jammed |-> jammed, errors |-> errors]

Uncoded(payload, fcs16, drop, errors) ==
  [Coded(payload, fcs16, 0, drop, {}, errors) EXCEPT !.coded = FALSE]

Octet == <<1, 0, 1, 1, 0, 0, 1, 0>>

\* All bits of the blocks behind the header, and the first ones of its symbols
\* only, which turns the PSDU into its complement.
Jammed == 33 .. 96
Complemented == {i \in Jammed : i % 2 = 1}

\* Both parities of the length, both paddings, both check sequences, frames
\* with a damage that cannot be corrected, and of one coded and two uncoded
\* frames every pair of bits damaged.
McSetups ==
  {Coded(Octet, TRUE, 1, TRUE, {}, 2),
   Coded(<<>>, TRUE, 0, FALSE, {}, 1),
   Coded(Octet \o Octet, TRUE, 1, FALSE, {}, 1),
   Coded(Octet, FALSE, 0, TRUE, {}, 1),
   Coded(Octet, TRUE, 1, FALSE, Jammed, 1),
   Coded(Octet, TRUE, 0, FALSE, Complemented, 1),
   Uncoded(Octet, TRUE, TRUE, 2),
   Uncoded(Octet, FALSE, FALSE, 2)}
=============================================================================
