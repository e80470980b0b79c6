--------------------------- MODULE MCReadWriteLock ---------------------------
(* Three threads; the first may nest two read guards.                        *)
EXTENDS ReadWriteLock, TLC

CONSTANTS t1, t2, t3, g1, g2, g3, g4

MCThreads == {t1, t2, t3}
MCGuards == {g1, g2, g3, g4}
MCThreadOf == (g1 :> t1) @@ (g2 :> t1) @@ (g3 :> t2) @@ (g4 :> t3)
=============================================================================
