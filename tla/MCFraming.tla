----------------------------- MODULE MCFraming -----------------------------
(***************************************************************************)
(* Framing with bytes of four values: 3 is the delimiter.                  *)
(***************************************************************************)
EXTENDS Framing

\* Bodies that hold delimiters, look like headers or are empty.
ShortBodies == {<<>>, <<3>>, <<1, 3>>, <<3, 0, 1>>}

\* One body whose length does not fit in a byte.
LongBodies == {<<0>>, <<0, 1, 2, 0>>}
=============================================================================
