---------------------------- MODULE MCPresignBatch ----------------------------
(* PresignBatch with a few images, in small units and in units of 2 MiB. *)
EXTENDS PresignBatch

CONSTANTS small, either, large

\* With PartSize 5 and Threshold 15: below the threshold, on both sides of it,
\* and large with a last part that is not full.
SmallUnits == [d \in Images |-> CASE d = small  -> {14}
                                  [] d = either -> {14, 15}
                                  [] d = large  -> {26}]

\* In units of 2 MiB: sizes at the threshold, at 2^31 bytes and at the limit of
\* the protobuf rule.
ServiceUnits == [d \in Images |-> CASE d = small  -> {75}
                                    [] d = either -> {1023}
                                    [] d = large  -> {3072}]
=============================================================================
