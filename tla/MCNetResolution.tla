--------------------------- MODULE MCNetResolution ---------------------------
(***************************************************************************)
(* NetResolution with a shop behind a CDN: its name resolves to a silent   *)
(* IPv6 and to an answering IPv4 address, which the CDN's name shares.     *)
(***************************************************************************)
EXTENDS NetResolution, TLC

Shop == <<"shop", ".", "com">>
Cdn == <<"cdn", ".", "net">>
Ipv6Text == <<":", ":", "1">>

MCIpText == "a4" :> <<"a4">> @@ "b4" :> <<"b4">> @@ "a6" :> Ipv6Text
MCHosts == Shop :> <<"a4", "a6">> @@ Cdn :> <<"a4", "b4">>
MCReach == "a4" :> "ok" @@ "b4" :> "refused" @@ "a6" :> "silent"
MCCountry == "a4" :> "CN" @@ "b4" :> "" @@ "a6" :> ""
MCAsked ==
    {Sock("a4", "443"), Domain(Shop, "443"), Domain(<<"[">> \o Ipv6Text \o <<"]">>, "443")}

Ip(ip) == [type |-> "ip", ip |-> ip]
Cname(d) == [type |-> "cname", name |-> d]
Dns(d, as) == [port |-> "53", queries |-> <<d>>, answers |-> as]
MCPackets ==
    {Dns(Shop, <<Cname(Cdn), Ip("a4")>>), Dns(Cdn, <<Ip("a4"), [type |-> "txt"]>>),
     [port |-> "5353", queries |-> <<Cdn>>, answers |-> <<>>]}

To(n) == [net |-> n, ipv4 |-> TRUE, ipv6 |-> FALSE]
MCRuleLists ==
    {<<[type |-> "src_ipcidr", ipcidr |-> {"s2"}, target |-> To("resolve")],
       [type |-> "domain", method |-> "keyword", domain |-> <<<<"shop">>>>, target |-> To("local")],
       [type |-> "geoip", country |-> "CN", target |-> To("blackhole")]>>,
     <<[type |-> "domain", method |-> "match", domain |-> <<<<"+", ".", "net">>>>, target |-> To("noop")],
       [type |-> "ipcidr", ipcidr |-> {"a6"}, target |-> To("resolve")],
       [type |-> "domain", method |-> "suffix", domain |-> <<<<".", "com">>>>, target |-> To("resolve")],
       [type |-> "any", target |-> To("local")]>>}
=============================================================================
