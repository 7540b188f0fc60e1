------------------------------ MODULE MCServers ------------------------------
(***************************************************************************)
(* Every server and client, asked for addresses of all forms, and          *)
(* forward_udp with two clients, one of them with a reserved peer as well. *)
(***************************************************************************)
EXTENDS Servers, TLC

CONSTANTS c1, c2, p, q

Ipv6Text == <<":", ":", "1">>
InBrackets == <<"[">> \o Ipv6Text \o <<"]">>
Shop == <<"shop", ".", "com">>
MCIpText == "a4" :> <<"a4">> @@ "a6" :> Ipv6Text

Asks == {Sock("a4", "443"), Sock("a6", "443"), Domain(Shop, "443"), Domain(InBrackets, "443")}
Pages == {Text(Shop), Text(Shop \o <<":", "443">>), Text(InBrackets),
          Text(InBrackets \o <<":", "443">>), NoAddr}
Go(es, cs, as) == [entry : es, client : cs, ask : as]
MCScenarios ==
    Go({"mixed", "socks5"}, {"socks5", "eager"}, Asks)
    \cup Go({"mixed", "socks5"}, {"udp"}, {Sock("a4", "0"), Domain(Shop, "0")})
    \cup Go({"mixed", "http"}, {"http"}, Asks)
    \cup Go({"mixed"}, {"password", "bind", "quiet"}, {Sock("a4", "443")})
    \cup Go({"mixed"}, {"get"}, Pages)
    \cup Go({"forward"}, {"raw"}, Asks)
    \cup Go({"redir", "tproxy"}, {"raw"}, {Sock("a4", "443"), Sock("a6", "443")})
    \cup Go({"forwardudp", "tproxyudp"}, {"none"}, {Sock("a4", "53")})

MCData == <<Byte("d1"), Byte("d2")>>
MCBanner == <<Byte("b1"), Byte("b2")>>
MCUdpTargets == {Sock("a4", "53"), Domain(InBrackets, "53")}
MCFlows == {<<c1, p>>, <<c1, q>>, <<c2, p>>}
MCForwardTarget == Sock("a4", "53")
=============================================================================
