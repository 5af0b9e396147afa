------------------------------- MODULE PartPlan -------------------------------
(***************************************************************************)
(* How an image is cut for its upload: the size class (extractFileData),   *)
(* the size that reaches the database, the number of parts (the generated  *)
(* column part_count) and the parts that get a url.                        *)
(*                                                                         *)
(* Sizes are multiples of a unit. With a unit of 2 MiB the service has     *)
(* PartSize 5, Threshold 75 and the protobuf rule allows sizes to 3072;    *)
(* Word, 2^31 bytes, is 1024.                                              *)
(***************************************************************************)
EXTENDS Integers

CONSTANTS PartSize,    \* the constant partSize
          Threshold,   \* the constant multipartThreshold
          Word         \* 2^31: an int32 is at least -Word and less than Word

ASSUME PartSizeAssumption == PartSize \in Nat \ {0}
ASSUME ThresholdAssumption == Threshold \in Nat \ {0}
ASSUME WordAssumption == Word \in Nat \ {0}

\* The parts ListParts returns in one answer; no call asks for a second.
PageSize == 1000

UploadType(size) == IF size < Threshold THEN "singleUpload" ELSE "multiUpload"

\* The conversion int32(file.FileSize).
Int32(size) == ((size + Word) % (2 * Word)) - Word

\* Mutant: part_count rounds down.
PartCountDown(size) == size \div PartSize

\* The column part_count; the division of PostgreSQL truncates.
PartCount(size) == LET n == size + PartSize - 1 IN
                   IF n >= 0 THEN n \div PartSize ELSE -((-n) \div PartSize)

\* generate_series(1, part_count).
Parts(size) == 1..PartCount(size)

\* The parts that ListParts does not list (listNotUploadedParts).
Missing(parts, listed) == {n \in parts : n \notin listed}

\* The piece of the image that a client puts under a part number.
InPart(unit, n) == (n - 1) * PartSize < unit /\ unit <= n * PartSize

\* Every piece of an image of this size belongs to exactly one of the parts, and
\* no part is empty.
CutsExactly(parts, size) ==
  /\ \A unit \in 1..size : \E n \in parts : InPart(unit, n)
  /\ \A unit \in 1..size : \A m, n \in parts : InPart(unit, m) /\ InPart(unit, n) => m = n
  /\ \A n \in parts : \E unit \in 1..size : InPart(unit, n)
=============================================================================
