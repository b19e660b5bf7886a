----------------------------- MODULE MCChannel -----------------------------
(* The channel with a small set of threads and items.  Two threads are    *)
(* enough for a producer and a consumer; the third makes two of a kind    *)
(* sleep on the one condition variable.                                    *)
EXTENDS Channel

CONSTANTS t1, t2, t3, e1, x1

ThreeThreads == {t1, t2, t3}
OneElement == {e1}
OneException == {x1}
=============================================================================
