----------------------------- MODULE MCEmission -----------------------------
(* Scenarios vary one group of fields each, with the packets that tell its *)
(* values apart; everything else is left out of the config.                *)
EXTENDS Emission

MCWidth == [ipv4 |-> 1, ipv6 |-> 2]

Default == [mode |-> "default"]
Modes(lit) == {Default, [mode |-> "wildcard"], [mode |-> "own"], [mode |-> "literal", value |-> lit]}
Exactly == [mode |-> "exact"]
Every == [mode |-> "all"]

Plain ==
  [family |-> "", protos |-> {}, srcFilter |-> {}, dstFilter |-> {}, srcPorts |-> {}, dstPorts |-> {},
   icmpTypes |-> {}, icmpCodes |-> {}, flags |-> {},
   len |-> [lt |-> 0, lte |-> 0, gt |-> 0, gte |-> 0],
   protoWild |-> FALSE, srcBits |-> -1, dstBits |-> -1, srcPortAgg |-> Exactly, dstPortAgg |-> Exactly,
   icmpTypeAll |-> FALSE, icmpCodeAll |-> FALSE,
   action |-> "drop", ttl |-> 1, emit |-> [f \in EmitFields |-> Default],
   emitFlags |-> [mode |-> "default", tokens |-> {}]]

Wild(c) == [c EXCEPT !.protoWild = TRUE, !.srcPortAgg = Every, !.dstPortAgg = Every]

Udp == [family |-> "ipv6", src |-> 1, dst |-> 1, ext |-> <<>>, later |-> FALSE, captured |-> 1,
        proto |-> protoUDP, first |-> 1, second |-> 1, flags |-> {}, len |-> 1]

Addresses ==
  LET configs == {[Plain EXCEPT !.family = family, !.srcBits = src, !.dstBits = dst, !.srcFilter = filter,
                                !.emit["src"] = emit, !.emit["family"] = ef] :
                    family \in Families \cup {""}, src \in -1 .. 2, dst \in {-1, 1},
                    filter \in {{}, {PrefixOf("ipv6", 3, 1)}},
                    emit \in {Default, [mode |-> "own"], [mode |-> "literal", value |-> PrefixOf("ipv6", 2, 1)]},
                    ef \in {Default, [mode |-> "literal", value |-> "ipv4"]}}
      packets == {[Udp EXCEPT !.src = src, !.dst = dst] : src \in 0 .. 3, dst \in {0, 1, 3}}
                 \cup {[Udp EXCEPT !.family = "ipv4", !.src = src, !.dst = dst] : src, dst \in 0 .. 1}
  IN [config : configs, packets : {packets}]

Ports ==
  LET configs == {[Plain EXCEPT !.srcPortAgg = agg, !.dstPortAgg = dst, !.emit["proto"] = proto,
                                !.emit["srcPort"] = port] :
                    agg \in {Exactly, Every, [mode |-> "range", lo |-> 1, hi |-> 3]}
                            \cup {[mode |-> "bucket", step |-> n] : n \in {1, 2, 4, 7}},
                    dst \in {Exactly, Every}, proto \in Modes(protoTCP), port \in Modes(3)}
      packets == {[Udp EXCEPT !.proto = proto, !.first = first, !.second = second] :
                    proto \in {protoTCP, protoUDP, protoICMPv6}, first \in {0, 1, 3, 5}, second \in {0, 3}}
  IN [config : configs, packets : {packets}]

Icmps ==
  LET configs == {[c EXCEPT !.icmpTypes = types, !.icmpCodes = codes, !.icmpTypeAll = ta, !.icmpCodeAll = ca,
                            !.family = family, !.emit["icmpType"] = emit] :
                    c \in {Plain, Wild(Plain)}, types \in {{}, {0, 3}}, codes \in {{}, {0}},
                    ta, ca \in BOOLEAN, family \in {"", "ipv6"}, emit \in Modes(3)}
      packets == {[Udp EXCEPT !.family = family, !.proto = proto, !.first = first, !.second = second] :
                    family \in Families, proto \in {protoICMP, protoICMPv6}, first, second \in {0, 3}}
                 \cup {Udp}
  IN [config : configs, packets : {packets}]

Flags ==
  LET tokens  == SUBSET [bit : FlagBits, neg : BOOLEAN] \cup {[bit : HighBits, neg : {FALSE}]}
      configs == {[c EXCEPT !.flags = flags, !.protos = protos, !.emitFlags = emit] :
                    c \in {Plain, Wild(Plain)}, flags \in tokens,
                    protos \in {{protoTCP}, {}, {protoTCP, protoUDP}},
                    emit \in [mode : {"default", "wildcard"}, tokens : {{}}]
                             \cup [mode : {"template"}, tokens : {[bit : FlagBits, neg : {TRUE}]}]}
      packets == {[Udp EXCEPT !.proto = protoTCP, !.flags = flags] : flags \in SUBSET FlagBits}
                 \cup {Udp}
  IN [config : configs, packets : {packets}]

Chains ==
  LET chains  == {<<>>, <<"hop">>, <<"hop", "first">>, <<"options", "later">>, <<"hop", "options", "hop">>,
                  <<"hop", "options", "later">>}
      configs == {[Plain EXCEPT !.dstPorts = ports, !.len = len] :
                    ports \in {{}, {1}},
                    len \in {Plain.len, [lt |-> 2, lte |-> 0, gt |-> 0, gte |-> 1],
                             [lt |-> 0, lte |-> 1, gt |-> 1, gte |-> 0]}}
      packets == {[Udp EXCEPT !.ext = chain, !.later = "later" \in ToSet(chain), !.captured = n, !.len = len] :
                    chain \in chains, n \in 0 .. 4, len \in {1, 2}}
                 \cup {[Udp EXCEPT !.family = "ipv4", !.later = later, !.captured = n] :
                         later \in BOOLEAN, n \in 0 .. 1}
  IN [config : configs, packets : {{p \in packets : p.captured <= Len(p.ext) + 1}}]

Refused ==
  [config : {[Plain EXCEPT !.srcPorts = {PortMax + 1}], [Plain EXCEPT !.icmpCodes = {ByteMax + 1}],
             [Plain EXCEPT !.dstPortAgg = [mode |-> "range", lo |-> 3, hi |-> 1]],
             [Plain EXCEPT !.srcPortAgg = [mode |-> "bucket", step |-> 0]],
             [Plain EXCEPT !.protoWild = TRUE], [Plain EXCEPT !.family = "ipv4", !.dstBits = 2],
             [Plain EXCEPT !.emit["dst"] = [mode |-> "unknown"]],
             [Plain EXCEPT !.action = "rate"], [Plain EXCEPT !.ttl = 0]},
   packets : {{Udp}}]

MCScenarios == Addresses \cup Ports \cup Icmps \cup Flags \cup Chains \cup Refused
=============================================================================
