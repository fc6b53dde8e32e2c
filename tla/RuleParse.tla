------------------------------ MODULE RuleParse ------------------------------
(***************************************************************************)
(* A FlowSpec rule as ParseNLRI builds it, component by component          *)
(* (internal/flowspec/parse.go), so that every rule with a few components  *)
(* is a state, and what Translate makes of it is checked in each.          *)
(***************************************************************************)
EXTENDS Translate

CONSTANTS
  PortOps, ByteOps, FlagOps,   \* operators of the lists, some not valid
  MaxItems,                    \* bound: items and other components in a rule
  MaxList                      \* bound: component -> items in its list

VARIABLES
  rule,      \* the rule so far
  parsed,    \* its components
  items      \* their number, each item of a list counted

vars == <<rule, parsed, items>>

NoPrefix == [has |-> FALSE, family |-> "ipv4", offset |-> 0]

EmptyRule(family) ==
  [Family |-> family, Dst |-> NoPrefix, Src |-> NoPrefix,
   Proto |-> <<>>, DstPort |-> <<>>, SrcPort |-> <<>>,
   ICMPType |-> <<>>, ICMPCode |-> <<>>, TCPFlags |-> <<>>,
   Unsupported |-> FALSE, Communities |-> {"rate 0"}]

Init ==
  /\ rule \in {EmptyRule(f) : f \in Families}
  /\ parsed = {}
  /\ items = 0

Order == <<"Dst", "Src", "Proto", "DstPort", "SrcPort", "ICMPType", "ICMPCode",
           "TCPFlags", "Unsupported", "Communities">>

(* An NLRI has each component at most once and in the order of the types;  *)
(* the path attributes follow.                                             *)
Component(c, n) ==
  /\ \E i \in DOMAIN Order : c = Order[i] /\ parsed \subseteq ToSet(SubSeq(Order, 1, i - 1))
  /\ parsed' = parsed \cup {c}
  /\ items' = items + n
  /\ items' <= MaxItems

(* parsePrefix; an IPv4 prefix has no offset.                              *)
ParsePrefix(c, family, offset) ==
  /\ Component(c, 1)
  /\ rule' = [rule EXCEPT ![c] = [has |-> TRUE, family |-> family, offset |-> offset]]

OpsOf(c) == IF c \in {"DstPort", "SrcPort"} THEN PortOps ELSE ByteOps

(* numericOps: the list of a component.  The And of a first item is        *)
(* ignored, so that it is not varied.                                      *)
ParseNumeric(c) ==
  \E n \in 1 .. MaxList[c] :
    /\ Component(c, n)
    /\ \E ops \in [1 .. n -> OpsOf(c)] :
         ~ops[1].And /\ rule' = [rule EXCEPT ![c] = ops]

(* bitmaskOps, likewise.                                                   *)
ParseFlags ==
  \E n \in 1 .. MaxList["TCPFlags"] :
    /\ Component("TCPFlags", n)
    /\ \E ops \in [1 .. n -> FlagOps] :
         ~ops[1].And /\ rule' = [rule EXCEPT !.TCPFlags = ops]

(* Fragment, generic port, packet length, DSCP, labels, unknown types.     *)
ParseUnsupported ==
  /\ Component("Unsupported", 1)
  /\ rule' = [rule EXCEPT !.Unsupported = TRUE]

(* The action: a rate of zero may be absent or not the only community.     *)
ParseCommunities(cs) ==
  /\ Component("Communities", 1)
  /\ rule' = [rule EXCEPT !.Communities = cs]

Next ==
  \/ \E c \in {"Dst", "Src"}, family \in Families, offset \in {0, 1} :
       (family = "ipv4" => offset = 0) /\ ParsePrefix(c, family, offset)
  \/ \E c \in Numeric : ParseNumeric(c)
  \/ ParseFlags
  \/ ParseUnsupported
  \/ \E cs \in SUBSET {"rate 0", "rate", "redirect"} : ParseCommunities(cs)

Spec == Init /\ [][Next]_vars

-----------------------------------------------------------------------------

(* Protocol 0 as a value, which VPP takes for any protocol.                *)
ProtoZero(r) == r.Proto # <<>> /\ r.Proto[1].Value = 0

(* Translate is exact: a rule it accepts drops the packets that the NLRI   *)
(* matches and no others, whatever mix of prefixes, protocol, ports, ICMP  *)
(* type and code and flags it has, protocols inferred and absent           *)
(* components included, unless it asks for protocol 0.                     *)
Equivalent ==
  Translatable(rule) /\ ~ProtoZero(rule) => RulePackets(rule) = AclPackets(Translate(rule))

(* reduceRange refuses no more than it must: operands in range, a port     *)
(* list is accepted exactly when the ports it matches are one range.       *)
RangeComplete ==
  \A c \in {"SrcPort", "DstPort"} :
    rule[c] # <<>> /\ (\A i \in DOMAIN rule[c] : rule[c][i].Value <= PortMax) =>
      LET set == {v \in 0 .. PortMax : NumericMatch(rule[c], v)}
      IN Single(ReduceRange(rule[c], PortMax)) <=>
           /\ set # {}
           /\ \A lo, hi \in set : lo .. hi \subseteq set
=============================================================================
