----------------------------- MODULE UdpChannel -----------------------------
(***************************************************************************)
(* The UDP side of a proxy: the sockets of Socks5Client at one end, at the *)
(* other the channel that connect_udp relays, Socks5UdpSocket of the       *)
(* SOCKS5 server or ListenUdpChannel of the forward server                 *)
(* (src/rd-std/src/socks5, src/rd-std/src/builtin/forward.rs).  A datagram *)
(* is a header and an id in place of the payload; a reply is received when *)
(* it is sent.                                                             *)
(***************************************************************************)
EXTENDS Integers, FiniteSets, Address

CONSTANTS UdpClients, UdpTargets, ForwardTarget, MaxDatagrams

NoPacket == <<>>
\* The forward server's own address.
Own == [type |-> "own"]
NoOne == "nobody"

ASSUME UdpAssumption ==
    /\ NoOne \notin UdpClients
    /\ UdpTargets \subseteq Addresses /\ ForwardTarget \in Addresses

VARIABLES chan,         \* the channel: its state, kind, client, send_buf
          control,      \* the TCP connection that keeps an association
          socket,       \* the client's sockets: the packet, the send_buf, and the
                        \* first of the datagrams of other senders not yet read
          uplink,       \* datagrams that have come to the server
          replies,      \* what remote peers have sent back
          asked,        \* history: id -> who sent it, and the target
          forwarded,    \* history: what has left the server, in order
          answers           \* history: replies as the clients got them

udpVars == <<chan, control, socket, uplink, replies, asked, forwarded, answers>>

UdpInit(kind, state) ==
    /\ chan = [kind |-> kind, state |-> state, client |-> NoOne, send_buf |-> NoPacket]
    /\ control = "open"
    /\ socket = [c \in UdpClients |-> [open |-> TRUE, packet |-> NoPacket, send_buf |-> NoPacket, stray |-> NoPacket]]
    /\ uplink = <<>> /\ replies = <<>> /\ asked = <<>> /\ forwarded = <<>> /\ answers = <<>>

\* The two address types, variant by variant.
ra2sa(a) ==
    IF a.type = "domain" THEN [atyp |-> "domain", host |-> a.domain, port |-> a.port]
    ELSE [atyp |-> "ip", host |-> a.ip, port |-> a.port]
sa2ra(s) == IF s.atyp = "domain" THEN Domain(s.host, s.port) ELSE Sock(s.host, s.port)

pack_udp(a, id) == [rsv |-> 0, frag |-> 0, addr |-> ra2sa(a), id |-> id]
\* Fragments are refused.
parse_udp(d) == IF d.rsv = 0 /\ d.frag = 0 THEN sa2ra(d.addr) ELSE NoAddr

-----------------------------------------------------------------------------
(* The client's socket.                                                    *)

SendPacket(c) ==
    /\ chan.state = "open" /\ chan.kind = "socks5"
    /\ socket[c].open /\ socket[c].packet = NoPacket /\ Len(asked) < MaxDatagrams
    /\ \E a \in UdpTargets :
         /\ socket' = [socket EXCEPT ![c].packet = <<[addr |-> a, id |-> Len(asked) + 1]>>]
         /\ asked' = Append(asked, [client |-> c, addr |-> a])
    /\ UNCHANGED <<chan, control, uplink, replies, forwarded, answers>>

\* poll_send_to packs the packet unless it did so in an earlier call, and keeps
\* it while the socket is not ready.  After an error the caller drops the socket.
Packed(buf, p) == IF buf = NoPacket THEN <<pack_udp(p.addr, p.id)>> ELSE buf

\* A bug for the checks: the packet stays in the buffer.
SentKeepsBuffer(buf) == buf
SentBuffer(buf) == NoPacket

PollSend(c) ==
    /\ socket[c].packet # NoPacket
    /\ LET buf == Packed(socket[c].send_buf, Head(socket[c].packet)) IN
         \/ socket' = [socket EXCEPT ![c].send_buf = buf] /\ UNCHANGED uplink
         \/ socket' = [socket EXCEPT ![c].open = FALSE, ![c].packet = NoPacket] /\ UNCHANGED uplink
         \/ /\ socket' = [socket EXCEPT ![c].send_buf = SentBuffer(buf), ![c].packet = NoPacket]
            /\ uplink' = Append(uplink, [from |-> c, data |-> Head(buf)])
    /\ UNCHANGED <<chan, control, replies, asked, forwarded, answers>>

\* A datagram that another sender than the server sends to the client's socket,
\* with bytes that parse_udp takes or not.
Stray(c) ==
    /\ chan.state = "open" /\ chan.kind = "socks5" /\ chan.client = c
    /\ socket[c].open /\ socket[c].stray = NoPacket
    /\ \E frag \in {0, 1} :
         socket' = [socket EXCEPT ![c].stray = <<[rsv |-> 0, frag |-> frag, addr |-> ra2sa(ForwardTarget), id |-> 0]>>]
    /\ UNCHANGED <<chan, control, uplink, replies, asked, forwarded, answers>>

\* poll_recv_from finds no more than that: it is pending, and the buffer with
\* what it has read is given up.
PollRecvPending(c) ==
    /\ socket[c].open /\ socket[c].stray # NoPacket
    /\ socket' = [socket EXCEPT ![c].stray = NoPacket]
    /\ UNCHANGED <<chan, control, uplink, replies, asked, forwarded, answers>>

\* poll_recv_from of the client's socket, with a reply d of server_addr: it reads
\* until one comes, does not clear the buffer between, and then takes off the
\* header at the head of it, that of a datagram of another sender if there was
\* one.  It may also not parse or name no socket address.
RecvFrom(s, d) == to_socket_addr(parse_udp(IF s.stray = NoPacket THEN d ELSE Head(s.stray)))
Receive(c, d) ==
    LET s == socket[c]
        from == RecvFrom(s, d)
    IN  /\ socket' = [socket EXCEPT ![c] =
             IF ~s.open THEN s
             ELSE IF from = NoAddr THEN [s EXCEPT !.open = FALSE, !.packet = NoPacket]
             ELSE [s EXCEPT !.stray = NoPacket]]
        /\ answers' = IF ~s.open \/ from = NoAddr THEN answers
                      ELSE Append(answers, [client |-> c, id |-> d.id, from |-> from,
                                            alone |-> s.stray = NoPacket])

\* The forward server has any UDP client, and no header.
SendPlain(c) ==
    /\ chan.state = "open" /\ chan.kind = "forward" /\ Len(asked) < MaxDatagrams
    /\ uplink' = Append(uplink, [from |-> c, data |-> [id |-> Len(asked) + 1]])
    /\ asked' = Append(asked, [client |-> c, addr |-> ForwardTarget])
    /\ UNCHANGED <<chan, control, socket, replies, forwarded, answers>>

\* A client that sends a fragment.
SendFragment(c) ==
    /\ chan.state = "open" /\ chan.kind = "socks5" /\ uplink = <<>> /\ Len(asked) > 0
    /\ uplink' = <<[from |-> c, data |-> [rsv |-> 0, frag |-> 1, addr |-> ra2sa(asked[1].addr), id |-> 0]]>>
    /\ UNCHANGED <<chan, control, socket, replies, asked, forwarded, answers>>

-----------------------------------------------------------------------------
(* The channel, polled by connect_udp; an error ends the relay.            *)

Leaves(addr, d) == forwarded' = Append(forwarded, [addr |-> addr, id |-> d.id])

\* poll_send_to of Socks5UdpSocket keeps the first sender as its client; a
\* datagram that does not parse is an error.
TakeSocks5 ==
    /\ chan.state = "open" /\ chan.kind = "socks5" /\ uplink # <<>>
    /\ uplink' = Tail(uplink)
    /\ LET d == Head(uplink)
           addr == parse_udp(d.data)
       IN  /\ chan' = [chan EXCEPT !.client = IF @ = NoOne THEN d.from ELSE @,
                                   !.state = IF addr = NoAddr THEN "ended" ELSE @]
           /\ IF addr = NoAddr THEN UNCHANGED forwarded ELSE Leaves(addr, d.data)
    /\ UNCHANGED <<control, socket, replies, asked, answers>>

\* poll_send_to of ListenUdpChannel keeps the latest; its target is fixed.
TakeForward ==
    /\ chan.state = "open" /\ chan.kind = "forward" /\ uplink # <<>>
    /\ uplink' = Tail(uplink)
    /\ chan' = [chan EXCEPT !.client = Head(uplink).from]
    /\ Leaves(ForwardTarget, Head(uplink).data)
    /\ UNCHANGED <<control, socket, replies, asked, answers>>

\* A peer answers a packet, from the address it went to, or sends one nobody
\* has asked for.
PeerReplies ==
    /\ chan.state = "open"
    /\ \/ \E n \in DOMAIN forwarded : LET f == forwarded[n] IN
            /\ \A i \in DOMAIN replies : replies[i].id # f.id
            /\ \A i \in DOMAIN answers : answers[i].id # f.id
            /\ to_normalized(f.addr).type = "sock"
            /\ replies' = Append(replies, [from |-> to_normalized(f.addr), id |-> f.id])
       \/ /\ chan.client = NoOne /\ replies = <<>>
          /\ replies' = <<[from |-> to_normalized(ForwardTarget), id |-> 0]>>
    /\ UNCHANGED <<chan, control, socket, uplink, asked, forwarded, answers>>

\* poll_recv_from of Socks5UdpSocket: only an error on the control connection
\* ends the association, and only a reply looks for it.  The reply is packed
\* once; the socket may be not ready, or fail.
GiveReplySocks5 ==
    /\ chan.state = "open" /\ chan.kind = "socks5" /\ replies # <<>>
    /\ LET buf == Packed(chan.send_buf, [addr |-> Head(replies).from, id |-> Head(replies).id])
           ready == control # "reset" /\ chan.client # NoOne
       IN  \/ /\ chan' = [chan EXCEPT !.state = "ended"]
              /\ UNCHANGED <<socket, replies, answers>>
           \/ /\ ready
              /\ chan' = [chan EXCEPT !.send_buf = buf]
              /\ UNCHANGED <<socket, replies, answers>>
           \/ /\ ready
              /\ chan' = [chan EXCEPT !.send_buf = SentBuffer(buf)]
              /\ replies' = Tail(replies)
              /\ Receive(chan.client, Head(buf))
    /\ UNCHANGED <<control, uplink, asked, forwarded>>

\* poll_recv_from of ListenUdpChannel: dropped before the first client came; an
\* error of the socket makes it try again.  The reply's source is not passed on.
GiveReplyForward ==
    /\ chan.state = "open" /\ chan.kind = "forward" /\ replies # <<>>
    /\ replies' = Tail(replies)
    /\ answers' = IF chan.client = NoOne THEN answers
              ELSE Append(answers, [client |-> chan.client, id |-> Head(replies).id,
                                from |-> Own, alone |-> TRUE])
    /\ UNCHANGED <<chan, control, socket, uplink, asked, forwarded>>

\* The client closes its control connection, or it breaks.
CloseControl ==
    /\ chan.state = "open" /\ chan.kind = "socks5" /\ control = "open"
    /\ control' \in {"eof", "reset"}
    /\ UNCHANGED <<chan, socket, uplink, replies, asked, forwarded, answers>>

UdpNext ==
    \/ \E c \in UdpClients : SendPacket(c) \/ PollSend(c) \/ Stray(c) \/ PollRecvPending(c)
                            \/ SendFragment(c) \/ SendPlain(c)
    \/ TakeSocks5 \/ TakeForward \/ PeerReplies \/ GiveReplySocks5 \/ GiveReplyForward \/ CloseControl

-----------------------------------------------------------------------------
\* Through both send buffers, both headers and any number of polls that found
\* the socket not ready, a packet leaves for the target its sender gave, at most
\* once; its reply is received at most once, an association answers nobody but
\* its first sender, and a reply is taken to come from elsewhere than it did only
\* if a datagram of another sender was before it in the client's buffer.
DatagramsIntact ==
    /\ \A i \in DOMAIN forwarded :
         /\ forwarded[i].addr = asked[forwarded[i].id].addr
         /\ \A j \in DOMAIN forwarded : forwarded[i].id = forwarded[j].id => i = j
    /\ \A i \in {j \in DOMAIN answers : answers[j].id # 0} :
         /\ \A j \in DOMAIN answers : answers[i].id = answers[j].id => i = j
         /\ chan.kind = "socks5" =>
              /\ answers[i].client = answers[1].client
              /\ answers[i].alone => answers[i].from = to_normalized(asked[answers[i].id].addr)
=============================================================================
