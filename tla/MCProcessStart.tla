---------------------------- MODULE MCProcessStart --------------------------
EXTENDS ProcessStart
S(v, m, f) == [vaddr |-> v, msize |-> m, fsize |-> f]
MCPrograms == {<<S(0, 3, 3), S(4, 3, 1)>>, <<S(1, 4, 2)>>, <<S(0, 3, 2), S(3, 2, 2)>>}
=============================================================================
