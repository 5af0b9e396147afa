----------------------------- MODULE MCBatchLocks -----------------------------
(* BatchLocks with three batches that can wait for each other in a ring of two *)
(* or of three; one has a small image, which comes first.  The smallest spells *)
(* a digest in upper case at first, and in lower case when it is repeated.     *)
EXTENDS BatchLocks

CONSTANTS b1, b2, b3, small, i1, i2, i3

Overlapping == [b \in Batches |-> CASE b = b1 -> {small, i1, i2}
                                    [] b = b2 -> {i1, i2, i3}
                                    [] b = b3 -> {i1, i3}]

FirstOfSmallest == {<<b3, 1>>}
=============================================================================
