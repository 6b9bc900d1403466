----------------------------- MODULE MCLmpCodec -----------------------------
(* Every header around the valid ones, payloads up to one byte over the     *)
(* limit of a small MaxSize, with the empty byte, the terminator and others. *)
EXTENDS LmpCodec

Payloads == UNION {[1 .. n -> {0, 3, 127}] : n \in 0 .. MaxSize - HeaderSize}

MCCandidates ==
  [version : 0 .. 3, type : 0 .. 6, arg : {0, 1, 2, 3, 6, 7}, flags : {0, 127},
   payload : Payloads]
=============================================================================
