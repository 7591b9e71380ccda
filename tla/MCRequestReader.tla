-------------------------- MODULE MCRequestReader --------------------------
(* Small conversations for the reader.                                     *)
EXTENDS RequestReader

GET == <<"*", "1", "cr", "lf", "$", "1", "cr", "lf", "x", "cr", "lf">>
TwoBulks == <<"*", "2", "cr", "lf", "$", "1", "cr", "lf", "*", "cr", "lf",
              "$", "0", "cr", "lf", "cr", "lf">>

\* Custom and RESP requests, short and long, with the other protocol's
\* prefix inside, and an empty message, which the reader skips.
Both == {<<>>, <<"x">>, <<"x", "*">>, GET, TwoBulks}
=============================================================================
