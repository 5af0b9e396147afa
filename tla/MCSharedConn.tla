---------------------------- MODULE MCSharedConn ----------------------------
(* SharedConn on small sets of requests, one kind of RPC per model value. *)
EXTENDS SharedConn

CONSTANTS lot, first, second, finish

MCKind == [r \in Requests |-> CASE r = lot -> "lot"
                                [] r \in {first, second} -> "presign"
                                [] r = finish -> "complete"]

=============================================================================
