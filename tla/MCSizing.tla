------------------------------ MODULE MCSizing ------------------------------
(* A small instance of Sizing: all texts of up to five characters over     *)
(* digits, blanks and letters of suffixes, and every size_t of six bits.   *)
EXTENDS Sizing

MCTexts == BoundedSeq({"0", "3", " ", "K", "G", "I", "b"}, 5)
MCPayloads == 0 .. 63

=============================================================================
