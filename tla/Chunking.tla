------------------------------ MODULE Chunking ------------------------------
(***************************************************************************)
(* How the bytes of an upload are cut into parts (src/src/handlers/init.rs *)
(* and src/src/handlers/part.rs), and where the SMB backend puts them      *)
(* (src/src/storage/smb.rs).  Sizes are those below 2^53 that the          *)
(* quotient in floating point represents, with fewer than 2^31 parts.      *)
(***************************************************************************)
EXTENDS Integers

\* ceil(total / chunk); 0 of an empty upload.
TotalPartsOf(total, chunk) == (total + chunk - 1) \div chunk

\* Mutant of TotalPartsOf: one part too many when chunk divides total.
TotalPartsOfPlusOne(total, chunk) == (total \div chunk) + 1

Parts(total, chunk) == 0 .. TotalPartsOf(total, chunk) - 1

\* Mutant of ExpectedSize: the case of a remainder of zero is forgotten.
ExpectedSizeRemainder(total, chunk, p) ==
    IF p = TotalPartsOf(total, chunk) - 1 THEN total % chunk ELSE chunk

\* The size that the token of part p carries; no other body is accepted.
ExpectedSize(total, chunk, p) ==
    IF p = TotalPartsOf(total, chunk) - 1 /\ total % chunk # 0 THEN total % chunk ELSE chunk

\* The byte of the final file where part p begins.
Offset(chunk, p) == p * chunk

\* Mutant of FirstMissingPart: rounds up.
FirstMissingPartUp(eof, chunk) == (eof + chunk - 1) \div chunk

\* The part from which a finalization resumes a partial of eof bytes.
FirstMissingPart(eof, chunk) == eof \div chunk
=============================================================================
