----------------------------- MODULE MCRuleParse -----------------------------
(* Operands 0, inside, at and beyond the limit.  Lists of protocols, ICMP  *)
(* types and codes are taken only if they are one equality, so that other  *)
(* comparisons are tried with one operand.                                 *)
EXTENDS RuleParse, TLC

MCPortOps ==
  NumericOps({3}) \cup {op \in NumericOps({0, PortMax}) : ~op.And \/ (op.LT /\ ~op.EQ)}
  \cup [And : {FALSE}, LT : {FALSE}, GT : BOOLEAN, EQ : {TRUE}, Value : {PortMax + 1}]
MCByteOps ==
  {[And |-> FALSE, LT |-> FALSE, GT |-> FALSE, EQ |-> TRUE, Value |-> v] : v \in 0 .. ByteMax + 1}
  \cup [And : {FALSE}, LT : {FALSE}, GT : {TRUE}, EQ : BOOLEAN, Value : {protoTCP}]
MCFlagOps == BitmaskOps((SUBSET FlagBits) \cup {HighBits})
(* Source and destination ports share reduceRange: one of them is varied   *)
(* in full.                                                                *)
MCMaxList ==
  [c \in Numeric \cup {"TCPFlags"} |->
     CASE c = "SrcPort" -> 3 [] c \in {"Proto", "TCPFlags"} -> 2 [] OTHER -> 1]

Symmetric == Permutations(FlagBits)
=============================================================================
