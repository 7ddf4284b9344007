--------------------------- MODULE MCFrameExtract ---------------------------
(* Values for TLC.  131 is an exception to function 3; 9 is a function the   *)
(* driver does not know, so that four bytes of noise are a candidate whose  *)
(* CRC is judged.  The check value stands for the CRC: it depends on every  *)
(* byte and on its place.                                                    *)
EXTENDS FrameExtract, Functions

Check(s) == LET sum == FoldFunctionOnSet(LAMBDA x, y : x + y, 0, s, DOMAIN s)
                mix == FoldFunctionOnSet(LAMBDA x, y : x + y, 0,
                         [i \in DOMAIN s |-> i * s[i]], DOMAIN s)
            IN  <<sum % 256, mix % 256>>

Replies == {<<1, 131, 2>>, <<1, 3, 1, 7>>, <<1, 6, 0, 0, 0, 0>>}
Garbage == {3, 9}
=============================================================================
