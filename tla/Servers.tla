------------------------------- MODULE Servers -------------------------------
(***************************************************************************)
(* The servers of rd-std that relay: one connection, association or UDP    *)
(* channel of ProxyServer, or the UDP side of tproxy, which is forward_udp *)
(* over its UdpSource (UdpForward).                                        *)
(***************************************************************************)
EXTENDS ProxyServer, UdpForward

TProxyUdp == how.entry = "tproxyudp"

ServersInit == Init /\ ForwardInit
ConnectionStep == ~TProxyUdp /\ Next /\ UNCHANGED forwardVars
\* serve_udp of tproxy.
ForwardStep == TProxyUdp /\ ForwardNext /\ UNCHANGED vars
ServersNext == ConnectionStep \/ ForwardStep

ServersSpec == ServersInit /\ [][ServersNext]_<<vars, forwardVars>>
=============================================================================
