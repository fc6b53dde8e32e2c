------------------------------ MODULE Translate ------------------------------
(***************************************************************************)
(* From a FlowSpec NLRI to a VPP ACL rule (internal/flowspec and           *)
(* internal/translate), and what each of the two matches.  A rule that has *)
(* no equivalent ACL rule is to be rejected, never approximated.           *)
(*                                                                         *)
(* Numbers are scaled down: PortMax is 65535, ByteMax 255.  A prefix is    *)
(* its family and offset, and an address is in it or not; flags are sets   *)
(* of bits.                                                                *)
(***************************************************************************)
EXTENDS Integers, Sequences, FiniteSets, SequencesExt

CONSTANTS
  PortMax,    \* the largest port
  ByteMax,    \* the largest protocol, ICMP type and ICMP code
  FlagBits,   \* the bits of the TCP flags byte
  HighBits    \* bits of a flag operand beyond that byte

ASSUME TranslateAssumption ==
  /\ PortMax \in Nat /\ ByteMax \in Nat
  /\ FlagBits \cap HighBits = {}
  /\ 5 <= ByteMax /\ ByteMax <= PortMax   \* the protocols below and one more

protoICMP == 1
protoTCP == 2
protoUDP == 3
protoICMPv6 == 4

Families == {"ipv4", "ipv6"}

(* NumericOp and BitmaskOp: the bits of one operator and its operand.      *)
NumericOps(values) ==
  [And : BOOLEAN, LT : BOOLEAN, GT : BOOLEAN, EQ : BOOLEAN, Value : values]
BitmaskOps(values) == [And : BOOLEAN, Not : BOOLEAN, Match : BOOLEAN, Value : values]

Numeric == {"Proto", "DstPort", "SrcPort", "ICMPType", "ICMPCode"}

-----------------------------------------------------------------------------
(* Sets of intervals <<lo, hi>>.                                           *)

(* Mutant: adjacent intervals stay apart.                                  *)
NormalizeOverlapOnly(s) ==
  LET Merge(out, iv) ==
        IF out # <<>> /\ iv[1] <= Last(out)[2]
        THEN Front(out) \o <<<<Last(out)[1], IF iv[2] > Last(out)[2] THEN iv[2] ELSE Last(out)[2]>>>>
        ELSE Append(out, iv)
  IN ToSet(FoldLeft(Merge, <<>>,
             SetToSortSeq(s, LAMBDA a, b : a[1] < b[1] \/ (a[1] = b[1] /\ a[2] < b[2]))))

(* normalize: sort, then merge what overlaps or adjoins.                   *)
Normalize(s) ==
  LET Merge(out, iv) ==
        IF out # <<>> /\ iv[1] <= Last(out)[2] + 1
        THEN Front(out) \o <<<<Last(out)[1], IF iv[2] > Last(out)[2] THEN iv[2] ELSE Last(out)[2]>>>>
        ELSE Append(out, iv)
  IN ToSet(FoldLeft(Merge, <<>>,
             SetToSortSeq(s, LAMBDA a, b : a[1] < b[1] \/ (a[1] = b[1] /\ a[2] < b[2]))))

UnionSets(a, b) == Normalize(a \cup b)

IntersectSets(a, b) ==
  LET Lo(p) == IF p[2][1] > p[1][1] THEN p[2][1] ELSE p[1][1]
      Hi(p) == IF p[2][2] < p[1][2] THEN p[2][2] ELSE p[1][2]
  IN Normalize({<<Lo(p), Hi(p)>> : p \in {q \in a \X b : Lo(q) <= Hi(q)}})

(* opToSet refuses an operand beyond max, unless the operator ignores it.  *)
OutOfRange(op, max) == op.Value > max /\ ~(op.LT = op.GT /\ op.GT = op.EQ)

(* opToSet: the values that satisfy one operator; an empty range is none.  *)
OpToSet(op, max) ==
  LET v   == op.Value
      lo  == IF op.LT THEN 0 ELSE IF op.EQ THEN v ELSE v + 1
      hi  == IF op.GT THEN max ELSE IF op.EQ THEN v ELSE v - 1
      set == CASE ~op.LT /\ ~op.GT /\ ~op.EQ -> {<<0, max>>}
               [] op.LT /\ op.GT /\ op.EQ    -> {}
               [] op.LT /\ op.GT /\ ~op.EQ   -> {<<0, v - 1>>, <<v + 1, max>>}
               [] OTHER                      -> {<<lo, hi>>}
  IN {iv \in set : iv[1] <= iv[2]}

(* The union of the terms of ops; a term is a run of ANDed items.          *)
TermsUnion(ops, max) ==
  LET Item(acc, i) ==
        LET set == OpToSet(ops[i], max)
        IN IF i = 1 THEN [result |-> {}, cur |-> set]
           ELSE IF ops[i].And THEN [acc EXCEPT !.cur = IntersectSets(@, set)]
           ELSE [result |-> UnionSets(acc.result, acc.cur), cur |-> set]
      all == FoldLeft(Item, [result |-> {}, cur |-> {}], [i \in DOMAIN ops |-> i])
  IN UnionSets(all.result, all.cur)

(* reduceRange: a set with one interval, or not a single range.            *)
ReduceRange(ops, max) ==
  IF ops = <<>> THEN {<<0, max>>}
  ELSE IF \E i \in DOMAIN ops : OutOfRange(ops[i], max) THEN {}
  ELSE TermsUnion(ops, max)

Single(set) == Cardinality(set) = 1
TheOne(set) == CHOOSE iv \in set : TRUE

(* reduceProto and reduceExact: at most one item, an equality in range.    *)
Exact(ops) ==
  \/ ops = <<>>
  \/ /\ Len(ops) = 1
     /\ ops[1].EQ /\ ~ops[1].LT /\ ~ops[1].GT
     /\ ops[1].Value <= ByteMax

-----------------------------------------------------------------------------
(* Mutant: a multi-bit match-any is taken for all of the bits.             *)
FlagOpOKAnyBits(op) ==
  /\ op.Value \subseteq FlagBits /\ op.Value # {}
  /\ op.Match /\ op.Not => Cardinality(op.Value) = 1

(* reduceTCPFlags: which single items it takes.                            *)
FlagOpOK(op) ==
  /\ op.Value \subseteq FlagBits /\ op.Value # {}
  /\ op.Match = op.Not => Cardinality(op.Value) = 1

SetBits(ops) == UNION {ops[i].Value : i \in {j \in DOMAIN ops : ~ops[j].Not}}
ClearBits(ops) == UNION {ops[i].Value : i \in {j \in DOMAIN ops : ops[j].Not}}

ReducibleFlags(ops) ==
  /\ \A i \in DOMAIN ops : FlagOpOK(ops[i]) /\ (i > 1 => ops[i].And)
  /\ SetBits(ops) \cap ClearBits(ops) = {}

-----------------------------------------------------------------------------
(* The protocol of the ACL rule: the one given, or the one that TCP flags  *)
(* or an ICMP type or code imply; 0 for none.                              *)
EffectiveProto(r) ==
  IF r.Proto # <<>> THEN r.Proto[1].Value
  ELSE IF r.TCPFlags # <<>> THEN protoTCP
  ELSE IF r.ICMPType # <<>> \/ r.ICMPCode # <<>>
    THEN (IF r.Family = "ipv6" THEN protoICMPv6 ELSE protoICMP)
  ELSE 0

Icmp(r) == r.ICMPType # <<>> \/ r.ICMPCode # <<>>

(* parseAction: any other community than a rate of zero spoils the drop.   *)
IsDrop(communities) == communities = {"rate 0"}

PrefixOK(p, family) == p.has => p.offset = 0 /\ p.family = family

(* Translate accepts the rule.  The order of its checks decides only which *)
(* reason a rejection reports.                                             *)
Translatable(r) ==
  LET proto == EffectiveProto(r)
  IN /\ IsDrop(r.Communities)
     /\ ~r.Unsupported
     /\ PrefixOK(r.Dst, r.Family) /\ PrefixOK(r.Src, r.Family)
     /\ Exact(r.Proto) /\ Exact(r.ICMPType) /\ Exact(r.ICMPCode)
     /\ ReducibleFlags(r.TCPFlags)
     /\ r.TCPFlags # <<>> => proto = protoTCP
     /\ Icmp(r) => proto = (IF r.Family = "ipv6" THEN protoICMPv6 ELSE protoICMP)
     /\ r.SrcPort # <<>> \/ r.DstPort # <<>> => proto \in {protoTCP, protoUDP}
     /\ Single(ReduceRange(r.SrcPort, PortMax)) /\ Single(ReduceRange(r.DstPort, PortMax))

IcmpRange(ops) == IF ops = <<>> THEN <<0, ByteMax>> ELSE <<ops[1].Value, ops[1].Value>>

Translate(r) ==
  [IsIPv6 |-> r.Family = "ipv6",
   AnyDst |-> ~r.Dst.has,
   AnySrc |-> ~r.Src.has,
   Proto  |-> EffectiveProto(r),
   First  |-> IF Icmp(r) THEN IcmpRange(r.ICMPType) ELSE TheOne(ReduceRange(r.SrcPort, PortMax)),
   Second |-> IF Icmp(r) THEN IcmpRange(r.ICMPCode) ELSE TheOne(ReduceRange(r.DstPort, PortMax)),
   Value  |-> SetBits(r.TCPFlags),
   Mask   |-> SetBits(r.TCPFlags) \cup ClearBits(r.TCPFlags)]

-----------------------------------------------------------------------------
(* What the two match.  A packet has addresses that are in the rule's      *)
(* prefix or not, a protocol, two numbers (ports, or ICMP type and code)   *)
(* and TCP flags.                                                          *)
ProtoICMPOf(family) == IF family = "ipv6" THEN protoICMPv6 ELSE protoICMP

(* The packets of a family; what a protocol has no field for is 0 or none. *)
Packets ==
  [family \in Families |->
     LET Of(protos, max, flags) ==
           [inDst : BOOLEAN, inSrc : BOOLEAN, proto : protos,
            first : 0 .. max, second : 0 .. max, flags : flags]
         l4 == {protoTCP, protoUDP, ProtoICMPOf(family)}
     IN Of({protoTCP}, PortMax, SUBSET FlagBits)
        \cup Of({protoUDP}, PortMax, {{}})
        \cup Of({ProtoICMPOf(family)}, ByteMax, {{}})
        \cup Of((0 .. ByteMax) \ l4, 0, {{}})]

(* RFC 8955: some term of the list has only items that hold.  The term of  *)
(* item i runs from the last item at or before it that is not ANDed.       *)
Holds(op, v) == (op.LT /\ v < op.Value) \/ (op.EQ /\ v = op.Value) \/ (op.GT /\ v > op.Value)
                \/ ~(op.LT \/ op.EQ \/ op.GT)

False(op) == op.LT /\ op.GT /\ op.EQ

HoldsBits(op, flags) ==
  LET all == IF op.Match THEN op.Value \subseteq flags ELSE op.Value \cap flags # {}
  IN IF op.Not THEN ~all ELSE all

(* The items of the term that starts at i.                                 *)
TermAt(ops, i) == {j \in i .. Len(ops) : \A k \in i + 1 .. j : ops[k].And}

Starts(ops) == {i \in DOMAIN ops : i = 1 \/ ~ops[i].And}

NumericMatch(ops, v) ==
  ops = <<>> \/ \E i \in Starts(ops) : \A j \in TermAt(ops, i) : Holds(ops[j], v) /\ ~False(ops[j])

BitmaskMatch(ops, flags) ==
  ops = <<>> \/ \E i \in Starts(ops) : \A j \in TermAt(ops, i) : HoldsBits(ops[j], flags)

(* The packets that the NLRI matches.  A component on a field that a       *)
(* packet does not have does not match.                                    *)
RulePackets(r) ==
  LET Values(c) == {v \in 0 .. PortMax : NumericMatch(r[c], v)}
      proto == Values("Proto")
      src   == Values("SrcPort")
      dst   == Values("DstPort")
      type  == Values("ICMPType")
      code  == Values("ICMPCode")
      flags == {f \in SUBSET FlagBits : BitmaskMatch(r.TCPFlags, f)}
      ports == r.SrcPort # <<>> \/ r.DstPort # <<>>
  IN {p \in Packets[r.Family] :
        /\ r.Dst.has => p.inDst
        /\ r.Src.has => p.inSrc
        /\ p.proto \in proto
        /\ ports => p.proto \in {protoTCP, protoUDP}
        /\ Icmp(r) => p.proto = ProtoICMPOf(r.Family)
        /\ r.TCPFlags # <<>> => p.proto = protoTCP
        /\ p.first \in src \cap type
        /\ p.second \in dst \cap code
        /\ p.proto = protoTCP => p.flags \in flags}

(* The packets that an ACL rule matches in VPP: protocol 0 is any.         *)
AclPackets(a) ==
  {p \in Packets[IF a.IsIPv6 THEN "ipv6" ELSE "ipv4"] :
     /\ a.AnyDst \/ p.inDst
     /\ a.AnySrc \/ p.inSrc
     /\ \/ a.Proto = 0
        \/ /\ a.Proto = p.proto
           /\ p.first \in a.First[1] .. a.First[2]
           /\ p.second \in a.Second[1] .. a.Second[2]
           /\ p.flags \cap a.Mask = a.Value}
=============================================================================
