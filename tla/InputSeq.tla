------------------------------ MODULE InputSeq ------------------------------
(***************************************************************************)
(* Sequence numbers of the example's inputs, compared the same way by the  *)
(* client and the server (src/examples/shared/src/lib.rs).                 *)
(***************************************************************************)
EXTENDS Integers

CONSTANT SeqSpace               \* 2^32 in the code: sequence numbers wrap

(* Wrapping difference, newer when it lies in the lower half of the range.   *)
is_newer_input_seq(candidate, latest) ==
    LET delta == (candidate - latest) % SeqSpace
    IN  delta # 0 /\ delta < (SeqSpace - 1) \div 2
=============================================================================
