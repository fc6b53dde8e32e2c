------------------------------ MODULE Emission ------------------------------
(***************************************************************************)
(* From a sampled packet to the ACL rule that drops it: a rule's config is *)
(* compiled (internal/detector/compile.go), a packet header is decoded     *)
(* (internal/packet), matched and reduced to the descriptor of its         *)
(* instance, and the instance emits a FlowSpec rule (internal/detector/    *)
(* rule.go), which Translate turns into an ACL rule.  Counting, admission  *)
(* and triggers are in Targets and Mitigation: here any instance may fire. *)
(*                                                                         *)
(* Addresses are numbers of Width[family] bits, protocols and ports are    *)
(* scaled as in Translate, a list of a filter is a set.                    *)
(***************************************************************************)
EXTENDS Translate

CONSTANTS
  Width,        \* family -> bits of an address
  MaxExt,       \* IPv6 extension headers walked
  Scenarios,    \* configs, each with the packets of the wire
  MaxPackets    \* bound: packets counted

ASSUME EmissionAssumption ==
  Width["ipv4"] <= Width["ipv6"] /\ 0 < Width["ipv4"]

VARIABLES
  scenario,   \* the config and the packets, fixed
  status,     \* "new", "loaded" or "refused"
  counted,    \* packets that the rule has counted
  events      \* events of its instances: key and FlowSpec rule

vars == <<scenario, status, counted, events>>

config == scenario.config

EmitFields == {"family", "proto", "src", "dst", "srcPort", "dstPort", "icmpType", "icmpCode"}

-----------------------------------------------------------------------------
(* compileRule: what it refuses, and what it derives from the config.      *)

(* parseTCPFlags: tokens are a flag, or a flag that must be clear.         *)
Care(tokens) == {t.bit : t \in tokens}
Want(tokens) == {t.bit : t \in {u \in tokens : ~u.neg}}
FlagsOK(tokens) == Care(tokens) \subseteq FlagBits

(* aggAddrBits: -1 is a full host.                                         *)
AddrBitsOK(c, bits) ==
  bits = -1 \/ (bits \in 0 .. Width["ipv6"] /\ (c.family = "ipv4" => bits <= Width["ipv4"]))

(* aggPort.                                                                *)
AggPortOK(agg) ==
  CASE agg.mode = "range"  -> {agg.lo, agg.hi} \subseteq 0 .. PortMax /\ agg.lo <= agg.hi
    [] agg.mode = "bucket" -> agg.step > 0
    [] OTHER               -> TRUE

ProtoOnlyTCP(c) == c.protos = {protoTCP}

(* The match section.                                                      *)
FiltersOK(c) ==
  /\ \A f \in {c.srcPorts, c.dstPorts} : f \subseteq 0 .. PortMax
  /\ \A f \in {c.icmpTypes, c.icmpCodes} : f \subseteq 0 .. ByteMax
  /\ FlagsOK(c.flags)

(* The aggregate section: ports need a protocol.                           *)
AggregatesOK(c) ==
  /\ AddrBitsOK(c, c.srcBits) /\ AddrBitsOK(c, c.dstBits)
  /\ AggPortOK(c.srcPortAgg) /\ AggPortOK(c.dstPortAgg)
  /\ c.protoWild => c.srcPortAgg.mode = "all" /\ c.dstPortAgg.mode = "all"

(* compileAction and compileTCPEmit.                                       *)
ActionOK(c) == c.action = "drop" /\ c.ttl > 0 /\ FlagsOK(c.emitFlags.tokens)

(* TCP flags, matched or emitted, need a filter for TCP.                   *)
FlagsHaveTCP(c) == c.flags # {} \/ c.emitFlags.mode = "template" => ProtoOnlyTCP(c)

(* validateVars: a template names fields of the descriptor.                *)
VarsOK(c) == \A f \in EmitFields : c.emit[f].mode # "unknown"

Compiles(c) == FiltersOK(c) /\ AggregatesOK(c) /\ ActionOK(c) /\ FlagsHaveTCP(c) /\ VarsOK(c)

-----------------------------------------------------------------------------
(* The decoder.  A packet has a chain ext of IPv6 extension headers, of    *)
(* which, with the header of its protocol after them, the sampler captured *)
(* the first "captured".  A later fragment ends the chain that is there to *)
(* read; an IPv4 packet can be one as well.                                *)

ExtProto(h) == IF h = "hop" THEN 0 ELSE ByteMax

(* The protocol number of the i-th header.                                 *)
HeaderProto(p, i) == IF i <= Len(p.ext) THEN ExtProto(p.ext[i]) ELSE p.proto

(* skipIPv6ExtHeaders: where the walk stops, what it takes for the         *)
(* protocol there, and whether there is a header of it to read.            *)
SkipExtHeaders(p) ==
  LET Later(i) == i <= Len(p.ext) /\ i <= p.captured /\ p.ext[i] = "later"
      Stops(i) == i > MaxExt \/ i > Len(p.ext) \/ i > p.captured \/ Later(i)
      i == CHOOSE k \in 1 .. Len(p.ext) + 1 : Stops(k) /\ \A j \in 1 .. k - 1 : ~Stops(j)
  IN IF i <= MaxExt /\ Later(i)
     THEN [proto |-> HeaderProto(p, i + 1), l4 |-> FALSE]
     ELSE [proto |-> HeaderProto(p, i), l4 |-> i <= p.captured]

(* DecodeIPv4, DecodeIPv6 and fillPorts: a field that is not read is 0.    *)
Decode(p) ==
  LET l3    == IF p.family = "ipv6" THEN SkipExtHeaders(p)
               ELSE [proto |-> p.proto, l4 |-> ~p.later /\ p.captured > 0]
      ports == l3.l4 /\ l3.proto \in {protoTCP, protoUDP}
      icmp  == l3.l4 /\ l3.proto \in {protoICMP, protoICMPv6}
  IN [family   |-> p.family, src |-> p.src, dst |-> p.dst, len |-> p.len,
      proto    |-> l3.proto,
      srcPort  |-> IF ports THEN p.first ELSE 0,
      dstPort  |-> IF ports THEN p.second ELSE 0,
      flags    |-> IF l3.l4 /\ l3.proto = protoTCP THEN p.flags ELSE {},
      icmpType |-> IF icmp THEN p.first ELSE 0,
      icmpCode |-> IF icmp THEN p.second ELSE 0]

-----------------------------------------------------------------------------
(* prefixOf and maskAddr: bits beyond the family's are a full host.        *)
Bits(family, bits) == IF bits < 0 \/ bits > Width[family] THEN Width[family] ELSE bits
MaskAddr(family, addr, bits) ==
  LET unit == 2 ^ (Width[family] - Bits(family, bits)) IN (addr \div unit) * unit
PrefixOf(family, addr, bits) == [family |-> family, addr |-> addr, bits |-> Bits(family, bits)]
InPrefix(prefix, family, addr) ==
  /\ prefix.family = family
  /\ MaskAddr(family, addr, prefix.bits) = MaskAddr(family, prefix.addr, prefix.bits)

(* A filter that is empty, or absent as a prefix, imposes no constraint.   *)
InList(list, v) == list = {} \/ v \in list
InFilter(filter, family, addr) == \A prefix \in filter : InPrefix(prefix, family, addr)

(* matches.  A bound of the packet length that is 0 is not set.            *)
Matches(c, s) ==
  /\ c.family \in {"", s.family}
  /\ InList(c.protos, s.proto)
  /\ InFilter(c.srcFilter, s.family, s.src) /\ InFilter(c.dstFilter, s.family, s.dst)
  /\ InList(c.srcPorts, s.srcPort) /\ InList(c.dstPorts, s.dstPort)
  /\ s.flags \cap Care(c.flags) = Want(c.flags)
  /\ c.icmpTypes # {} \/ c.icmpCodes # {} => s.proto \in {protoICMP, protoICMPv6}
  /\ InList(c.icmpTypes, s.icmpType) /\ InList(c.icmpCodes, s.icmpCode)
  /\ c.len.lt # 0 => s.len < c.len.lt
  /\ c.len.lte # 0 => s.len <= c.len.lte
  /\ c.len.gt # 0 => s.len > c.len.gt
  /\ c.len.gte # 0 => s.len >= c.len.gte

AllPorts == <<0, PortMax>>

(* portAgg.reduce.                                                         *)
Reduce(agg, port) ==
  CASE agg.mode = "all"    -> AllPorts
    [] agg.mode = "range"  -> <<agg.lo, agg.hi>>
    [] agg.mode = "bucket" -> LET base == (port \div agg.step) * agg.step
                                  end  == base + agg.step - 1
                              IN <<base, IF end > PortMax THEN PortMax ELSE end>>
    [] OTHER               -> <<port, port>>

(* descriptorFor: a protocol, type or code that is wild is {}, else a      *)
(* singleton.                                                              *)
DescriptorFor(c, s) ==
  LET ports == ~c.protoWild /\ s.proto \in {protoTCP, protoUDP}
      icmp  == ~c.protoWild /\ s.proto \in {protoICMP, protoICMPv6}
  IN [family   |-> s.family,
      proto    |-> IF c.protoWild THEN {} ELSE {s.proto},
      src      |-> MaskAddr(s.family, s.src, c.srcBits),
      dst      |-> MaskAddr(s.family, s.dst, c.dstBits),
      srcPort  |-> IF ports THEN Reduce(c.srcPortAgg, s.srcPort) ELSE AllPorts,
      dstPort  |-> IF ports THEN Reduce(c.dstPortAgg, s.dstPort) ELSE AllPorts,
      icmpType |-> IF icmp /\ ~c.icmpTypeAll THEN {s.icmpType} ELSE {},
      icmpCode |-> IF icmp /\ ~c.icmpCodeAll THEN {s.icmpCode} ELSE {}]

-----------------------------------------------------------------------------
(* The FlowSpec rule of an instance.  A field is emitted as the descriptor *)
(* has it ("default"), not at all ("wildcard"), as a literal, or by a      *)
(* template of its own variable ("own").                                   *)

EqOp(v) == [And |-> FALSE, LT |-> FALSE, GT |-> FALSE, EQ |-> TRUE, Value |-> v]

(* Mutant: the lower end is left out.                                      *)
PortRangeOpsExclusive(range) ==
  IF range[1] = range[2] THEN <<EqOp(range[1])>>
  ELSE <<[And |-> FALSE, LT |-> FALSE, GT |-> TRUE, EQ |-> FALSE, Value |-> range[1]],
         [And |-> TRUE, LT |-> TRUE, GT |-> FALSE, EQ |-> TRUE, Value |-> range[2]]>>

(* portRangeOps.                                                           *)
PortRangeOps(range) ==
  IF range[1] = range[2] THEN <<EqOp(range[1])>>
  ELSE <<[And |-> FALSE, LT |-> FALSE, GT |-> TRUE, EQ |-> TRUE, Value |-> range[1]],
         [And |-> TRUE, LT |-> TRUE, GT |-> FALSE, EQ |-> TRUE, Value |-> range[2]]>>

(* Mutant: the bits that must be clear are an alternative.                 *)
TcpFlagOpsOr(care, want) ==
  (IF want = {} THEN <<>> ELSE <<[And |-> FALSE, Not |-> FALSE, Match |-> TRUE, Value |-> want]>>)
  \o (IF care \ want = {} THEN <<>>
      ELSE <<[And |-> FALSE, Not |-> TRUE, Match |-> FALSE, Value |-> care \ want]>>)

(* tcpFlagOps: all bits of want set, then none of the others of care.      *)
TcpFlagOps(care, want) ==
  (IF want = {} THEN <<>> ELSE <<[And |-> FALSE, Not |-> FALSE, Match |-> TRUE, Value |-> want]>>)
  \o (IF care \ want = {} THEN <<>>
      ELSE <<[And |-> want # {}, Not |-> TRUE, Match |-> FALSE, Value |-> care \ want]>>)

(* tcpEmitSpec.resolve: by default the match filter.                       *)
EmitFlags(c) ==
  CASE c.emitFlags.mode = "wildcard" -> <<>>
    [] c.emitFlags.mode = "template" -> TcpFlagOps(Care(c.emitFlags.tokens), Want(c.emitFlags.tokens))
    [] OTHER                         -> TcpFlagOps(Care(c.flags), Want(c.flags))

(* resolveDescriptorVar renders what is wild as "any" and a range of ports *)
(* with a dash: neither parses as the value of a field.                    *)
Unparsable(field, c, d) ==
  CASE field = "family"                           -> FALSE
    [] field \in {"proto", "icmpType", "icmpCode"} -> d[field] = {}
    [] field = "src"                              -> c.srcBits = 0
    [] field = "dst"                              -> c.dstBits = 0
    [] OTHER                                      -> d[field][1] # d[field][2]

(* buildFlowSpec fails: a template does not parse.  The error of a family  *)
(* is ignored.                                                             *)
BuildFails(c, d) ==
  \E field \in EmitFields \ {"family"} :
    \/ c.emit[field].mode = "own" /\ Unparsable(field, c, d)
    \/ c.emit[field].mode = "literal" /\ field \in {"srcPort", "dstPort"} /\ c.emit[field].value > PortMax
    \/ c.emit[field].mode = "literal" /\ field \in {"proto", "icmpType", "icmpCode"}
         /\ c.emit[field].value > ByteMax

(* emitPrefix; a host or a shorter prefix, and none for /0.                *)
EmitPrefix(e, family, addr, bits) ==
  LET Prefix(has, p) == [has |-> has, family |-> p.family, offset |-> 0, addr |-> p.addr, bits |-> p.bits]
  IN CASE e.mode = "literal"                                  -> Prefix(TRUE, e.value)
       [] e.mode = "wildcard" \/ (e.mode = "default" /\ bits = 0) ->
            Prefix(FALSE, PrefixOf(family, addr, bits))
       [] OTHER                                               -> Prefix(TRUE, PrefixOf(family, addr, bits))

(* emitPort.                                                               *)
EmitPort(e, range) ==
  CASE e.mode = "literal"                                       -> <<EqOp(e.value)>>
    [] e.mode = "wildcard" \/ (e.mode = "default" /\ range = AllPorts) -> <<>>
    [] OTHER                                                    -> PortRangeOps(range)

(* Mutant: a type or code of 0 is taken for none.                          *)
EmitValueNotZero(e, value) ==
  CASE e.mode = "literal"                              -> <<EqOp(e.value)>>
    [] e.mode = "wildcard" \/ (e.mode # "literal" /\ value \in {{}, {0}}) -> <<>>
    [] OTHER                                           -> <<EqOp(CHOOSE v \in value : TRUE)>>

(* emitICMP, and the protocol likewise.                                    *)
EmitValue(e, value) ==
  CASE e.mode = "literal"                   -> <<EqOp(e.value)>>
    [] e.mode = "wildcard" \/ (e.mode # "literal" /\ value = {}) -> <<>>
    [] OTHER                                -> <<EqOp(CHOOSE v \in value : TRUE)>>

BuildFlowSpec(c, d) ==
  [Family   |-> IF c.emit["family"].mode = "literal" THEN c.emit["family"].value ELSE d.family,
   Proto    |-> EmitValue(c.emit["proto"], d.proto),
   Src      |-> EmitPrefix(c.emit["src"], d.family, d.src, c.srcBits),
   Dst      |-> EmitPrefix(c.emit["dst"], d.family, d.dst, c.dstBits),
   SrcPort  |-> EmitPort(c.emit["srcPort"], d.srcPort),
   DstPort  |-> EmitPort(c.emit["dstPort"], d.dstPort),
   TCPFlags |-> EmitFlags(c),
   ICMPType |-> EmitValue(c.emit["icmpType"], d.icmpType),
   ICMPCode |-> EmitValue(c.emit["icmpCode"], d.icmpCode),
   Unsupported |-> FALSE, Communities |-> {"rate 0"}]

-----------------------------------------------------------------------------
KeyOf(p) == DescriptorFor(config, Decode(p))

Init ==
  /\ scenario \in Scenarios
  /\ status = "new"
  /\ counted = {} /\ events = {}

(* compileRule: the rule is loaded or refused; its history, ratio gates    *)
(* and terms are checked in Targets.                                       *)
Compile ==
  /\ status = "new"
  /\ status' = IF Compiles(config) THEN "loaded" ELSE "refused"
  /\ UNCHANGED <<scenario, counted, events>>

(* Rule.Observe: a packet is decoded, and counted if it matches.           *)
Observe(p) ==
  /\ status = "loaded"
  /\ Cardinality(counted) < MaxPackets
  /\ Matches(config, Decode(p))
  /\ counted' = counted \cup {p}
  /\ UNCHANGED <<scenario, status, events>>

(* evalInstance, when the trigger asks for an event.                       *)
Fire(key) ==
  /\ ~BuildFails(config, key)
  /\ events' = events \cup {[key |-> key, rule |-> BuildFlowSpec(config, key)]}
  /\ UNCHANGED <<scenario, status, counted>>

Next ==
  \/ Compile
  \/ \E p \in scenario.packets : Observe(p)
  \/ \E p \in counted : Fire(KeyOf(p))

Spec == Init /\ [][Next]_vars

-----------------------------------------------------------------------------

(* The packet as VPP sees it, against the prefixes of a rule.              *)
Seen(rule, p) ==
  LET l4   == p.proto \in {protoTCP, protoUDP, ProtoICMPOf(p.family)}
      In(prefix, addr) == prefix.has => InPrefix(prefix, p.family, addr)
  IN [inDst  |-> In(rule.Dst, p.dst), inSrc |-> In(rule.Src, p.src), proto |-> p.proto,
      first  |-> IF l4 THEN p.first ELSE 0, second |-> IF l4 THEN p.second ELSE 0,
      flags  |-> IF p.proto = protoTCP THEN p.flags ELSE {}]

Dropped(rule, p) ==
  /\ Translatable(rule)
  /\ p.family = rule.Family
  /\ Seen(rule, p) \in AclPackets(Translate(rule))

(* The sampler captured the header of the packet's protocol.               *)
Readable(p) == ~p.later /\ p.captured > Len(p.ext) /\ Len(p.ext) <= MaxExt

(* No field of the FlowSpec is given by the config.                        *)
NoLiteral(c) == c.emitFlags.mode # "template" /\ \A f \in EmitFields : c.emit[f].mode # "literal"

NoOverride(c) == c.emitFlags.mode = "default" /\ \A f \in EmitFields : c.emit[f].mode \in {"default", "own"}

(* A range of ports that is copied verbatim need not hold the port.        *)
PortsHold(key, s) ==
  s.proto \in {protoTCP, protoUDP} /\ key.proto # {} =>
    s.srcPort \in key.srcPort[1] .. key.srcPort[2] /\ s.dstPort \in key.dstPort[1] .. key.dstPort[2]

(* "Detection accounting and mitigation granularity stay aligned": what an *)
(* instance was charged with, its rule drops once it is an ACL rule, for   *)
(* any mix of filters, aggregates and wildcards, through the IPv6 headers  *)
(* before the protocol's own.                                              *)
DropsWhatItCounted ==
  \A e \in events, p \in counted :
    /\ KeyOf(p) = e.key /\ Readable(p) /\ NoLiteral(config) /\ PortsHold(e.key, Decode(p))
    /\ Translatable(e.rule)
    => Dropped(e.rule, p)

(* A rule without overrides drops no packet of another instance, nor one   *)
(* whose TCP flags the filter excludes: of the aggregates it is as narrow  *)
(* as what was detected.  Protocol 0 is any to VPP.                        *)
DropsOnlyItsInstance ==
  NoOverride(config) =>
    \A e \in events, p \in scenario.packets :
      e.key.proto # {0} /\ Readable(p) /\ Dropped(e.rule, p) =>
        KeyOf(p) = e.key /\ (p.proto = protoTCP => p.flags \cap Care(config.flags) = Want(config.flags))

(* Ports are emitted under a protocol that the config widened to any.      *)
PortsWithoutProto(rule) ==
  rule.Proto = <<>> /\ rule.TCPFlags = <<>> /\ (rule.SrcPort # <<>> \/ rule.DstPort # <<>>)

(* ICMP in IPv6, or ICMPv6 in IPv4.                                        *)
StrayICMP(key) == key.proto \subseteq {protoICMP, protoICMPv6} /\ key.proto # {ProtoICMPOf(key.family)}

(* What a loaded rule emits without literals can be installed: Translate   *)
(* takes every list of operators the detector builds, ports and flags come *)
(* with a protocol that has them.  The two cases that it refuses are       *)
(* named.                                                                  *)
Installable ==
  NoLiteral(config) =>
    \A e \in events :
      Translatable(e.rule) \/ PortsWithoutProto(e.rule) \/ (Icmp(e.rule) /\ StrayICMP(e.key))

=============================================================================
