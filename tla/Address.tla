------------------------------- MODULE Address -------------------------------
(***************************************************************************)
(* Address of src/rd-interface/src/address.rs.  A text is a sequence of    *)
(* tokens: labels, dots, colons, brackets, port numbers.  IpText gives the *)
(* text of an IP address; that of an IPv6 address contains colons.         *)
(***************************************************************************)
EXTENDS Naturals, Sequences, SequencesExt

CONSTANTS V4, V6,       \* the IP addresses of the two families
          IpText,       \* [V4 \cup V6 -> text]
          PortTexts     \* the tokens that parse as a u16

ASSUME AddressAssumption ==
    /\ V4 \cap V6 = {}
    /\ IpText \in [V4 \cup V6 -> Seq(STRING)]
    /\ \A i, j \in V4 \cup V6 : IpText[i] = IpText[j] => i = j
    /\ \A i \in V4 \cup V6 : IpText[i] # <<>> /\ Head(IpText[i]) # "["
    /\ PortTexts \subseteq STRING /\ ":" \notin PortTexts

Sock(ip, p) == [type |-> "sock", ip |-> ip, port |-> p]
Domain(d, p) == [type |-> "domain", domain |-> d, port |-> p]
NoAddr == [type |-> "none"]
Addresses == [type : {"sock"}, ip : V4 \cup V6, port : PortTexts]
             \cup [type : {"domain"}, domain : Seq(STRING), port : PortTexts]

ParsesAsIp(text) == \E ip \in V4 \cup V6 : IpText[ip] = text
ParseIp(text) == CHOOSE ip \in V4 \cup V6 : IpText[ip] = text

strip_brackets(host) ==
    IF Len(host) >= 2 /\ Head(host) = "[" /\ Last(host) = "]"
      THEN SubSeq(host, 2, Len(host) - 1) ELSE host

host_to_address(host, port) ==
    IF ParsesAsIp(strip_brackets(host))
      THEN Sock(ParseIp(strip_brackets(host)), port) ELSE Domain(host, port)

\* rsplitn(2, ':'): what follows the last colon must be a port.
Colons(text) == {i \in DOMAIN text : text[i] = ":"}
LastColon(text) == CHOOSE i \in Colons(text) : \A j \in Colons(text) : j <= i
HasPort(text) ==
    /\ Colons(text) # {}
    /\ LastColon(text) = Len(text) - 1
    /\ Last(text) \in PortTexts
HostPart(text) == SubSeq(text, 1, Len(text) - 2)

into_address(text) ==
    IF HasPort(text) THEN host_to_address(HostPart(text), Last(text)) ELSE NoAddr

Display(a) ==
    (CASE a.type = "domain" -> a.domain
       [] a.type = "sock" /\ a.ip \in V4 -> IpText[a.ip]
       [] a.type = "sock" /\ a.ip \in V6 -> <<"[">> \o IpText[a.ip] \o <<"]">>)
    \o <<":", a.port>>

\* AddressDomain: Display and FromStr, its form in the context.
DomainToText(d, p) == d \o <<":", p>>
DomainFromText(text) == Domain(HostPart(text), Last(text))

to_normalized(a) ==
    IF a.type = "domain" THEN host_to_address(a.domain, a.port) ELSE a
to_socket_addr(a) ==
    IF to_normalized(a).type = "sock" THEN to_normalized(a) ELSE NoAddr

\* The unspecified address of the family.
AnyOf(ip) == IF ip \in V4 THEN "0.0.0.0" ELSE "::"
any_addr_port(a) == Sock(AnyOf(a.ip), "0")

\* resolve: only a true domain reaches the resolver, which answers by hosts.
resolve(a, hosts) ==
    IF to_normalized(a).type = "sock" THEN <<to_normalized(a).ip>>
    ELSE IF a.domain \in DOMAIN hosts THEN hosts[a.domain] ELSE <<>>
=============================================================================
