---------------------------- MODULE NetResolution ----------------------------
(***************************************************************************)
(* What becomes of a connection on its way out: RunningServerNet notes the *)
(* destination in the context, the DNS sniffer turns an IP address back    *)
(* into the name that was looked up, the rule net picks a target by the    *)
(* first rule that matches, through its cache, and the target dials: local *)
(* (happy eyeballs), resolve (own resolver, one address after the other),  *)
(* blackhole or noop.  UDP goes through the same rules once, with the      *)
(* first packet (src/rd-std/src/sniffer, rule, builtin).                   *)
(***************************************************************************)
EXTENDS Integers, FiniteSets, Address

CONSTANTS
    Requests,           \* the connections and UDP sockets
    Sources,            \* IP addresses of clients
    Asked,              \* addresses clients ask for
    Packets,            \* UDP packets with a DNS answer: [port, queries, answers]
    RuleLists,          \* the rule lists a config may have
    Hosts,              \* what the resolvers answer: domain -> sequence of IPs
    Reach,              \* what an IP does with a SYN: "ok", "refused", "silent"
    Country,            \* the country of an IP, "" if the database does not have it
    SnifferTTL, SnifferCapacity, CnameLimit, RuleCacheSize,
    MaxTime, MaxPackets,
    UdpUsers, MaxSends  \* the requests that may be UDP, and packets of each

\* A sequence, whatever its elements are.
IsSequence(s) == s \in Seq(Range(s))
RuleTypes == {"domain", "ipcidr", "src_ipcidr", "geoip", "any"}

\* Durations and capacities are not zero; addresses, answers, rules and what
\* resolvers give have the form their types give them; the text of an IP
\* address has no brackets, and resolvers know no name that spells one.
ASSUME NetAssumption ==
    /\ {SnifferTTL, SnifferCapacity, RuleCacheSize} \subseteq Nat \ {0}
    /\ CnameLimit \in Nat
    /\ \A a \in Asked :
         \/ a.type = "sock" /\ a = Sock(a.ip, a.port)
         \/ a.type = "domain" /\ a = Domain(a.domain, a.port) /\ IsSequence(a.domain)
    /\ \A p \in Packets :
         /\ IsSequence(p.answers) /\ IsSequence(p.queries)
         /\ \A i \in DOMAIN p.queries : IsSequence(p.queries[i])
    /\ \A rs \in RuleLists : IsSequence(rs) /\ \A i \in DOMAIN rs : rs[i].type \in RuleTypes
    /\ \A d \in DOMAIN Hosts : IsSequence(Hosts[d]) /\ ~ParsesAsIp(strip_brackets(d))
    /\ \A ip \in V4 \cup V6 : strip_brackets(IpText[ip]) = IpText[ip]

VARIABLES
    records,            \* sniffer: IP -> the name that was looked up
    cname_map,          \* sniffer: alias -> the name that was looked up
    rule,               \* the rules
    cache,              \* rule net: MatchContext -> index of the rule
    req,                \* the requests
    now,
    seen                \* history: the answers the sniffer has recorded

vars == <<records, cname_map, rule, cache, req, now, seen>>

Sniff == INSTANCE LruTimeCache WITH TTL <- SnifferTTL, Capacity <- SnifferCapacity
\* LruCache::with_capacity: nothing expires, so time stands still.
RuleCache == INSTANCE LruTimeCache WITH TTL <- 1, Capacity <- RuleCacheSize

None == "none"
NewReq == [pc |-> "new", kind |-> None, src |-> None, asked |-> NoAddr, addr |-> NoAddr,
           destDomain |-> <<>>, destSock |-> NoAddr, rule |-> 0, plan |-> <<>>,
           try |-> <<>>, out |-> None, udp |-> "unbound", again |-> FALSE,
           to |-> None, sent |-> {}]

Init ==
    /\ records = Sniff!NewCache(0)
    /\ cname_map = Sniff!NewCache(0)
    /\ rule \in RuleLists
    /\ cache = RuleCache!NewCache(0)
    /\ req = [r \in Requests |-> NewReq]
    /\ now = 0
    /\ seen = {}

Set(r, rec) == req' = [req EXCEPT ![r] = rec]

\* The request is over, and all it holds is dropped but the result.
End(out) == [NewReq EXCEPT !.pc = "end", !.out = out]

-----------------------------------------------------------------------------
(* The DNS sniffer.                                                        *)

\* A bug for the checks: the alias is filed under the name that was looked up.
RecordSwapped(p, answer, names) ==
    CASE answer.type = "ip" ->
           <<Sniff!Insert(names[1], answer.ip, p.queries[1], now), names[2]>>
      [] answer.type = "cname" ->
           <<names[1], Sniff!Insert(names[2], p.queries[1], answer.name, now)>>
      [] OTHER -> names

\* One answer of the packet, into <<records, cname_map>>: both map to the name
\* that was looked up.
RecordAnswer(p, answer, names) ==
    CASE answer.type = "ip" ->
           <<Sniff!Insert(names[1], answer.ip, p.queries[1], now), names[2]>>
      [] answer.type = "cname" ->
           <<names[1], Sniff!Insert(names[2], answer.name, p.queries[1], now)>>
      [] OTHER -> names

\* The answers of the packet one after the other.
RecordAll(p, answers) ==
    LET names[i \in 0..Len(answers)] ==
          IF i = 0 THEN <<records, cname_map>> ELSE RecordAnswer(p, answers[i], names[i - 1])
    IN  names[Len(answers)]

\* Reply(p): a socket bound through the sniffer receives p.  Packets of other
\* ports and messages without exactly one question go by unrecorded.
Reply(p) ==
    /\ Cardinality(seen) < MaxPackets
    /\ p \notin seen
    /\ LET heard == p.port = "53" /\ Len(p.queries) = 1
           after == IF heard THEN RecordAll(p, p.answers) ELSE <<records, cname_map>>
       IN  /\ records' = after[1]
           /\ cname_map' = after[2]
           /\ seen' = IF heard THEN seen \cup {p} ELSE seen
    /\ UNCHANGED <<rule, cache, req, now>>

\* The walk over cname_map (peek: no use counted), at most CnameLimit long.
Known(d) == d \in Sniff!Keys(Sniff!RemoveExpired(cname_map, now))
Walk(start) ==
    LET walk[n \in 0..CnameLimit] ==
          IF n = 0 THEN start
          ELSE IF Known(walk[n - 1]) THEN Sniff!Value(cname_map, walk[n - 1])
          ELSE walk[n - 1]
    IN  walk[CnameLimit]

-----------------------------------------------------------------------------
(* RunningServerNet and the sniffer on the way out.                        *)

Connect(r) ==
    /\ req[r].pc = "new"
    /\ \E src \in Sources, a \in Asked :
         Set(r, [req[r] EXCEPT
                  !.pc = "sniffer", !.kind = "tcp", !.src = src, !.asked = a, !.addr = a,
                  !.destDomain = IF a.type = "domain" THEN DomainToText(a.domain, a.port) ELSE @,
                  !.destSock = IF a.type = "sock" THEN a ELSE @])
    /\ UNCHANGED <<records, cname_map, rule, cache, now, seen>>

\* tcp_connect of DNSSnifferNet: the address becomes the name, in the context too.
Recover(r) ==
    /\ req[r].pc = "sniffer"
    /\ LET a == req[r].addr
           hit == a.type = "sock" /\ a.ip \in Sniff!Keys(Sniff!RemoveExpired(records, now))
           name == Walk(Sniff!Value(records, a.ip))
       IN  /\ records' = IF a.type = "sock" THEN Sniff!Get(records, a.ip, now) ELSE records
           /\ Set(r, IF hit THEN [req[r] EXCEPT !.pc = "rule", !.addr = Domain(name, a.port),
                                                !.destDomain = DomainToText(name, a.port)]
                     ELSE [req[r] EXCEPT !.pc = "rule"])
    /\ UNCHANGED <<cname_map, rule, cache, now, seen>>

\* udp_bind: nothing is bound yet, and no destination is in the context, nor the
\* source if the forward server binds.
BindUdp(r) ==
    /\ req[r].pc = "new" /\ r \in UdpUsers
    /\ \E src \in Sources \cup {None} :
         Set(r, [req[r] EXCEPT !.pc = "udp", !.kind = "udp", !.src = src])
    /\ UNCHANGED <<records, cname_map, rule, cache, now, seen>>

-----------------------------------------------------------------------------
(* The rule net.                                                           *)

\* A bug for the checks: the source is not part of the key.
ContextWithoutSource(q) ==
    [address |-> to_normalized(q.addr), src |-> None,
     destSock |-> q.destSock,
     destDomain |-> IF q.destDomain = <<>> THEN NoAddr ELSE DomainFromText(q.destDomain)]

from_context_address(q) ==
    [address |-> to_normalized(q.addr), src |-> q.src,
     destSock |-> q.destSock,
     destDomain |-> IF q.destDomain = <<>> THEN NoAddr ELSE DomainFromText(q.destDomain)]

get_domain(mc) == IF mc.address.type = "domain" THEN mc.address ELSE mc.destDomain
get_socket_addr(mc) == IF mc.address.type = "sock" THEN mc.address ELSE mc.destSock

\* domain.rs: contains, ends_with, equality, "+." for a domain and all below it.
TestDomain(m, d) ==
    \E i \in DOMAIN m.domain : LET e == m.domain[i] IN
      CASE m.method = "keyword" -> e \in SubSeqs(d)
        [] m.method = "suffix" -> IsSuffix(e, d)
        [] m.method = "match" ->
             IF IsPrefix(<<"+", ".">>, e)
               THEN IsSuffix(Tail(e), d) \/ d = Tail(Tail(e))
               ELSE d = e

\* The matchers; one that finds no name or no address does not match.
DomainMatches(m, mc) ==
    get_domain(mc).type = "domain" /\ TestDomain(m, get_domain(mc).domain)
IpCidrMatches(m, mc) ==
    get_socket_addr(mc).type = "sock" /\ get_socket_addr(mc).ip \in m.ipcidr
SrcIpCidrMatches(m, mc) == mc.src # None /\ mc.src \in m.ipcidr
GeoIpMatches(m, mc) ==
    get_socket_addr(mc).type = "sock" /\ Country[get_socket_addr(mc).ip] = m.country

match_rule(m, mc) ==
    CASE m.type = "domain" -> DomainMatches(m, mc)
      [] m.type = "ipcidr" -> IpCidrMatches(m, mc)
      [] m.type = "src_ipcidr" -> SrcIpCidrMatches(m, mc)
      [] m.type = "geoip" -> GeoIpMatches(m, mc)
      [] m.type = "any" -> TRUE

Matching(mc) == {i \in DOMAIN rule : match_rule(rule[i], mc)}
Least(S) == CHOOSE i \in S : \A j \in S : i <= j

\* The target takes over: a TCP connection is resolved and dialled, a UDP
\* socket is bound.
Matched(q, i) == [q EXCEPT !.rule = i, !.pc = IF @ = "udprule" THEN "udpbind" ELSE "resolve"]

\* The lookup in the cache, under its lock.
HitCache(r) ==
    /\ req[r].pc \in {"rule", "udprule"}
    /\ LET mc == from_context_address(req[r]) IN
         /\ cache' = RuleCache!Get(cache, mc, 0)
         /\ Set(r, IF mc \in RuleCache!Keys(cache)
                     THEN Matched(req[r], RuleCache!Value(cache, mc))
                     ELSE [req[r] EXCEPT !.out = "missed"])
    /\ req[r].out # "missed"
    /\ UNCHANGED <<records, cname_map, rule, now, seen>>

\* The first rule that matches goes into the cache, under its lock again.
MatchRules(r) ==
    /\ req[r].pc \in {"rule", "udprule"} /\ req[r].out = "missed"
    /\ LET mc == from_context_address(req[r])
           q == [req[r] EXCEPT !.out = None]
       IN  IF Matching(mc) = {}
             THEN Set(r, [q EXCEPT !.pc = "end", !.out = "NotMatched"]) /\ UNCHANGED cache
             ELSE /\ Set(r, Matched(q, Least(Matching(mc))))
                  /\ cache' = RuleCache!Insert(cache, mc, Least(Matching(mc)), 0)
    /\ UNCHANGED <<records, cname_map, rule, now, seen>>

-----------------------------------------------------------------------------
(* The targets, for TCP.                                                   *)

Target(r) == rule[req[r].rule].target
Families(t) == (IF t.ipv4 THEN V4 ELSE {}) \cup (IF t.ipv6 THEN V6 ELSE {})

\* Resolver::lookup_host of the local net; ResolveNet asks its own net and
\* keeps the families it is configured for.
LookupHost(d) == IF d \in DOMAIN Hosts THEN Hosts[d] ELSE <<>>
OfFamily(ips, F) ==
    LET kept[i \in 0..Len(ips)] ==
          IF i = 0 THEN <<>>
          ELSE IF ips[i] \in F THEN Append(kept[i - 1], ips[i]) ELSE kept[i - 1]
    IN  kept[Len(ips)]
LookupFamilies(t) == [d \in DOMAIN Hosts |-> OfFamily(Hosts[d], Families(t))]

\* itertools::interleave, IPv6 first.
Alternate(s, t) ==
    LET at(u, i) == IF i \in DOMAIN u THEN <<u[i]>> ELSE <<>>
        pairs[i \in 0..(Len(s) + Len(t))] ==
          IF i = 0 THEN <<>> ELSE pairs[i - 1] \o at(s, i) \o at(t, i)
    IN  pairs[Len(s) + Len(t)]
HappyOrder(ips) == Alternate(OfFamily(ips, V6), OfFamily(ips, V4))

Plan(r) ==
    IF Target(r).net = "local" THEN HappyOrder(resolve(req[r].addr, Hosts))
    ELSE resolve(req[r].addr, LookupFamilies(Target(r)))

\* blackhole connects at once.
Blackhole(r) ==
    /\ req[r].pc = "resolve" /\ Target(r).net = "blackhole"
    /\ Set(r, End("blackhole"))
    /\ UNCHANGED <<records, cname_map, rule, cache, now, seen>>

\* noop provides nothing.
NotProvided(r) ==
    /\ req[r].pc \in {"resolve", "udpbind"} /\ Target(r).net = "noop"
    /\ Set(r, End("NotImplemented"))
    /\ UNCHANGED <<records, cname_map, rule, cache, now, seen>>

\* local and resolve look the name up, which may fail, and find no address.
Resolve(r) ==
    /\ req[r].pc = "resolve" /\ Target(r).net \in {"local", "resolve"}
    /\ \/ /\ Plan(r) # <<>>
          /\ Set(r, [req[r] EXCEPT !.pc = "dial", !.plan = Plan(r),
                                   !.try = [i \in DOMAIN Plan(r) |-> "sleep"]])
       \/ /\ Plan(r) = <<>> \/ to_normalized(req[r].addr).type = "domain"
          /\ Set(r, End("LookupFailed"))
    /\ UNCHANGED <<records, cname_map, rule, cache, now, seen>>

\* A bug for the checks: an attempt waits until the one before it has failed.
AfterFailures(r, i) == \A j \in 1..(i - 1) : req[r].try[j] = "failed"

\* The local net starts attempt i after i * 250 ms, whatever became of the
\* earlier ones; the resolve net starts it when they have failed.
MayStart(r, i) ==
    IF Target(r).net = "local" THEN \A j \in 1..(i - 1) : req[r].try[j] # "sleep"
    ELSE \A j \in 1..(i - 1) : req[r].try[j] = "failed"

StartAttempt(r) ==
    /\ req[r].pc = "dial"
    /\ \E i \in DOMAIN req[r].plan :
         /\ req[r].try[i] = "sleep" /\ MayStart(r, i)
         /\ Set(r, [req[r] EXCEPT !.try[i] = "connecting"])
    /\ UNCHANGED <<records, cname_map, rule, cache, now, seen>>

Attempted(r, i, ok) ==
    LET q == [req[r] EXCEPT !.try[i] = "failed"]
    IN  IF ok THEN [End("connected") EXCEPT !.addr = q.addr, !.to = q.plan[i]]
        ELSE IF \A j \in DOMAIN q.try : q.try[j] = "failed"
          THEN End("error") ELSE q

\* The peer answers: the first Ok is the result and drops the other attempts,
\* an error is the result once there is no attempt left.
Answered(r) ==
    /\ req[r].pc = "dial"
    /\ \E i \in DOMAIN req[r].plan :
         /\ req[r].try[i] = "connecting" /\ Reach[req[r].plan[i]] # "silent"
         /\ Set(r, Attempted(r, i, Reach[req[r].plan[i]] = "ok"))
    /\ UNCHANGED <<records, cname_map, rule, cache, now, seen>>

\* connect_timeout, or the kernel, gives up on a silent peer; it may take any
\* time.
TimedOut(r) ==
    /\ req[r].pc = "dial"
    /\ \E i \in DOMAIN req[r].plan :
         /\ req[r].try[i] = "connecting" /\ Reach[req[r].plan[i]] = "silent"
         /\ Set(r, Attempted(r, i, FALSE))
    /\ UNCHANGED <<records, cname_map, rule, cache, now, seen>>

-----------------------------------------------------------------------------
(* UDP: UdpConnector asks the rules with the first packet; the local       *)
(* socket resolves the target of each packet before it is sent.            *)

UdpUnchanged == UNCHANGED <<records, cname_map, rule, cache, now, seen>>

\* send_to with the next packet, once the last one is done.
SendTo(r) ==
    /\ req[r].pc = "udp" /\ req[r].addr = NoAddr /\ Cardinality(req[r].sent) < MaxSends
    /\ \E a \in Asked :
         /\ \A s \in req[r].sent : s[1] # a
         /\ Set(r, [req[r] EXCEPT !.addr = a, !.asked = a,
                                  !.pc = IF req[r].udp = "unbound" THEN "udprule" ELSE "udp"])
    /\ UdpUnchanged

\* udp_bind of the target to an address that nobody chose: the first that binds,
\* and resolve leaves it to its net.
UdpBind(r) ==
    /\ req[r].pc = "udpbind" /\ Target(r).net \in {"local", "resolve"}
    /\ \/ Set(r, [req[r] EXCEPT !.pc = "udp", !.udp = "Idle", !.again = TRUE])
       \/ Set(r, End("error"))
    /\ UdpUnchanged

\* Packets to a blackhole stay pending for ever.
UdpBlackhole(r) ==
    /\ req[r].pc = "udpbind" /\ Target(r).net = "blackhole"
    /\ Set(r, End("blackhole"))
    /\ UdpUnchanged

\* poll_send_to in state Idle.
PollIdle(r) ==
    /\ req[r].pc = "udp" /\ req[r].udp = "Idle" /\ req[r].addr # NoAddr
    /\ Set(r, IF req[r].addr.type = "sock"
                THEN [req[r] EXCEPT !.udp = "Sending", !.to = req[r].addr.ip]
                ELSE [req[r] EXCEPT !.udp = "LookupHost"])
    /\ UdpUnchanged

\* The lookup (also of an IP spelt as a name) gives the first address, or the
\* socket's user gets the error and drops it.
PollLookup(r) ==
    /\ req[r].pc = "udp" /\ req[r].udp = "LookupHost"
    /\ LET ips == IF ParsesAsIp(req[r].addr.domain) THEN <<ParseIp(req[r].addr.domain)>>
                  ELSE LookupHost(req[r].addr.domain)
       IN  \/ /\ ips # <<>>
              /\ Set(r, [req[r] EXCEPT !.udp = "Sending", !.to = ips[1]])
           \/ Set(r, End("error"))
    /\ UdpUnchanged

\* The packet is out and the socket Idle.  The connector has sent the first
\* packet itself, and then the caller's poll_send_to sends it again.
SentKeepsState(q) ==        \* a bug for the checks: the socket stays in Sending
    [q EXCEPT !.addr = IF q.again THEN @ ELSE NoAddr, !.again = FALSE,
              !.sent = @ \cup {<<q.asked, q.to>>}]
Sent(q) ==
    [q EXCEPT !.addr = IF q.again THEN @ ELSE NoAddr, !.again = FALSE,
              !.sent = @ \cup {<<q.asked, q.to>>}, !.udp = "Idle"]

\* The kernel takes the packet, or the user gets the error and drops the socket.
PollSending(r) ==
    /\ req[r].pc = "udp" /\ req[r].udp = "Sending" /\ req[r].addr # NoAddr
    /\ \/ Set(r, Sent(req[r]))
       \/ Set(r, End("error"))
    /\ UdpUnchanged

-----------------------------------------------------------------------------
Tick ==
    /\ now < MaxTime
    /\ now' = now + 1
    /\ UNCHANGED <<records, cname_map, rule, cache, req, seen>>

Route(r) == Connect(r) \/ BindUdp(r) \/ Recover(r) \/ HitCache(r) \/ MatchRules(r)
ToTarget(r) == Blackhole(r) \/ NotProvided(r) \/ Resolve(r)
Dial(r) == StartAttempt(r) \/ Answered(r)
UdpStep(r) ==
    SendTo(r) \/ UdpBind(r) \/ UdpBlackhole(r) \/ PollIdle(r) \/ PollLookup(r) \/ PollSending(r)
Next ==
    \/ \E r \in Requests : Route(r) \/ ToTarget(r) \/ Dial(r) \/ TimedOut(r) \/ UdpStep(r)
    \/ \E p \in Packets : Reply(p)
    \/ Tick

Spec == Init /\ [][Next]_vars
\* Every timer ends and every peer but a silent one answers; a silent peer need
\* not time out.
FairSpec == Spec /\ \A r \in Requests : WF_vars(Dial(r))

-----------------------------------------------------------------------------
(* Properties.                                                             *)

\* What the rules have to go by for a request: the names and addresses the
\* client gave and the sniffer found.
DomainOf(q) ==
    IF to_normalized(q.addr).type = "domain" \/ (q.kind = "tcp" /\ q.addr.type = "domain")
      THEN q.addr ELSE NoAddr
IpOf(q) ==
    IF to_normalized(q.addr).type = "sock" THEN to_normalized(q.addr)
    ELSE IF q.kind = "tcp" /\ q.asked.type = "sock" THEN q.asked ELSE NoAddr
Applies(m, q) ==
    match_rule(m, [address |-> IF DomainOf(q) # NoAddr THEN DomainOf(q) ELSE IpOf(q),
                   src |-> q.src, destSock |-> IpOf(q), destDomain |-> DomainOf(q)])

\* Whatever requests went before and filled or emptied the cache, a request is
\* routed by the first rule that applies to its own source, name and address,
\* and is refused only if none does.
RoutedByFirstMatch ==
    \A r \in Requests : LET q == req[r] IN
      /\ q.pc \in {"resolve", "dial", "udpbind"} =>
           /\ Applies(rule[q.rule], q)
           /\ \A i \in 1..(q.rule - 1) : ~Applies(rule[i], q)
      /\ q.out = "NotMatched" => \A i \in DOMAIN rule : ~Applies(rule[i], q)

\* What the answers recorded so far say: name was looked up with ip in the
\* answer, or with alias as the name it stands for.
AnsweredWith(ip, name) == \E p \in seen :
    /\ p.queries[1] = name
    /\ \E i \in DOMAIN p.answers : p.answers[i].type = "ip" /\ p.answers[i].ip = ip
AliasedTo(alias, name) == \E p \in seen :
    /\ p.queries[1] = name
    /\ \E i \in DOMAIN p.answers : p.answers[i].type = "cname" /\ p.answers[i].name = alias
\* A chain of answers leads from ip to name, through at most CnameLimit aliases.
LeadsTo(ip, name) ==
    \E chain \in [0..CnameLimit -> {p.queries[1] : p \in seen}] :
      /\ AnsweredWith(ip, chain[0])
      /\ \A n \in 1..CnameLimit :
           chain[n] = chain[n - 1] \/ AliasedTo(chain[n - 1], chain[n])
      /\ chain[CnameLimit] = name

\* A connection to an IP address is given a name only if somebody looked that
\* name up and was answered with this address, through aliases maybe, however
\* answers were overwritten, evicted or expired.
RecoveredWasAnswered ==
    \A r \in Requests :
      req[r].kind = "tcp" /\ req[r].asked.type = "sock" /\ req[r].addr.type = "domain"
        => LeadsTo(req[r].asked.ip, req[r].addr.domain)

\* The local socket sends each packet to an address of its own target, and a
\* TCP connection ends at an address of the name it was resolved from.
ArrivesAtTarget ==
    \A r \in Requests :
      /\ \A s \in req[r].sent : s[2] \in ToSet(resolve(s[1], Hosts))
      /\ req[r].out = "connected" => req[r].to \in ToSet(resolve(req[r].addr, Hosts))

\* A silent address does not keep the local net from connecting to another
\* address of the same name that answers.
ReachableConnects ==
    \A r \in Requests :
      (/\ req[r].pc = "dial" /\ Target(r).net = "local"
       /\ \E i \in DOMAIN req[r].plan : Reach[req[r].plan[i]] = "ok")
      ~> req[r].out = "connected"
=============================================================================
