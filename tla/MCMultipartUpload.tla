------------------------- MODULE MCMultipartUpload -------------------------
(* MultipartUpload with a few clients, uploads and attempts. *)
EXTENDS MultipartUpload

\* One part size, two parts.
OnePlan == <<2>>

\* The next deployment cuts the same image into three parts.
TwoPlans == <<2, 3>>
=============================================================================
