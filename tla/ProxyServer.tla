----------------------------- MODULE ProxyServer -----------------------------
(***************************************************************************)
(* One connection through a proxy server of rd-std: the mixed server peeks *)
(* at the first byte and hands over to SOCKS5 or HTTP; these, and the      *)
(* forward, redir and tproxy servers, find out the target, dial it and     *)
(* relay.  The clients are Socks5Client and HttpClient of rd-std, and      *)
(* foreign ones.  A TCP stream is a sequence of messages; the first byte   *)
(* of a connection is a message of its own.                                *)
(***************************************************************************)
EXTENDS UdpChannel

CONSTANTS Scenarios,    \* [entry: the server, client: the client, ask: what it asks for]
          Data, Banner  \* what the client's user writes, and what the target writes

Text(text) == [type |-> "text", text |-> text]

\* Clients talk to servers of their protocol; addresses have the form their
\* type gives them.
Texts == [type : {"text"}, text : Seq(STRING)]
Payloads == [t : STRING, a : {NoAddr}]
ASSUME ScenariosAssumption ==
    /\ Scenarios \subseteq
         [entry : {"mixed", "socks5"},
          client : {"socks5", "eager", "udp", "bind", "password"}, ask : Addresses]
         \cup [entry : {"mixed", "http"}, client : {"http"}, ask : Addresses]
         \cup [entry : {"mixed", "http"}, client : {"get"}, ask : Texts \cup {NoAddr}]
         \cup [entry : {"mixed", "socks5", "http"}, client : {"quiet"}, ask : Addresses]
         \cup [entry : {"forward", "redir", "tproxy"}, client : {"raw"}, ask : Addresses]
         \cup [entry : {"forwardudp", "tproxyudp"}, client : {"none"}, ask : Addresses]
    /\ Data \in Seq(Payloads) /\ Banner \in Seq(Payloads)
    /\ "80" \in PortTexts

VARIABLES how,          \* the scenario
          client,       \* the client: its script, write buffer, what its user got
          server,       \* the task of the connection
          up, down,     \* the two directions of the connection, in flight
          shut,         \* the server has closed the connection
          remote        \* the target: the address dialled, what it got and has to send

tcpVars == <<how, client, server, up, down, shut, remote>>
vars == <<tcpVars, udpVars>>

Msg(t, a) == [t |-> t, a |-> a]
Byte(t) == Msg(t, NoAddr)

-----------------------------------------------------------------------------
(* The clients as scripts of writes, flushes and reads.                    *)

Write(ms) == [op |-> "write", ms |-> ms]
Flush == [op |-> "flush", ms |-> <<>>]
Read(t) == [op |-> "read", ms |-> <<Byte(t)>>]

\* A bug for the checks: the command stays in the BufWriter.
SendCommandUnflushed(cmd, a) ==
    <<Write(<<Byte("ver"), Byte("noauth")>>), Flush, Read("ver"), Read("noauth"),
      Write(<<Msg(cmd, ra2sa(a))>>), Read("success")>>

\* Socks5Client::send_command.
send_command(cmd, a) ==
    <<Write(<<Byte("ver"), Byte("noauth")>>), Flush, Read("ver"), Read("noauth"),
      Write(<<Msg(cmd, ra2sa(a))>>), Flush, Read("success")>>

\* HttpClient::tcp_connect; hyper writes the request out.
HttpConnect(a) ==
    <<Write(<<Byte("C"), Msg("CONNECT", Text(Display(a)))>>), Flush, Read("200")>>

\* Foreign clients: one that does not wait for replies, one that offers only a
\* password, one that asks for BIND, one that sends a request for a page, one
\* that closes at once, one that knows no proxy; none of them for UDP alone.
Script(h) ==
    CASE h.client = "socks5" -> send_command("connect", h.ask)
      [] h.client = "udp" -> send_command("udp", h.ask)
      [] h.client = "http" -> HttpConnect(h.ask)
      [] h.client = "eager" ->
           <<Write(<<Byte("ver"), Byte("noauth"), Msg("connect", ra2sa(h.ask))>> \o Data), Flush,
             Read("ver"), Read("noauth"), Read("success")>>
      [] h.client = "password" ->
           <<Write(<<Byte("ver"), Byte("password")>>), Flush, Read("ver"), Read("noauth")>>
      [] h.client = "bind" -> send_command("bind", h.ask)
      [] h.client = "get" -> <<Write(<<Byte("G"), Msg("GET", h.ask)>>), Flush, Read("200")>>
      [] h.client = "quiet" -> <<[op |-> "close", ms |-> <<>>]>>
      [] h.client \in {"raw", "none"} -> <<>>

\* What a client that does not wait has written already is not its user's to write.
Unwritten(h) == IF h.client \in {"eager", "get", "udp", "none"} THEN <<>> ELSE Data

\* The UDP side of the forward server and of tproxy, apart from their TCP side.
UdpOnly == how.client = "none"

Init ==
    /\ how \in Scenarios
    /\ client = [script |-> Script(how), buf |-> <<>>, state |-> "run",
                 data |-> Unwritten(how), got |-> <<>>]
    /\ server = [pc |-> IF UdpOnly THEN "off" ELSE "listen", peeked |-> <<>>, dst |-> NoAddr]
    /\ up = <<>> /\ down = <<>> /\ shut = FALSE
    /\ remote = [addr |-> NoAddr, got |-> <<>>, data |-> Banner]
    /\ IF how.entry = "forwardudp" THEN UdpInit("forward", "open") ELSE UdpInit("socks5", "off")

NextOp == Head(client.script)
Continue(c) == [c EXCEPT !.script = Tail(@)]

ClientWrites ==
    /\ client.state = "run" /\ client.script # <<>>
    /\ \/ /\ NextOp.op = "write"
          /\ client' = [Continue(client) EXCEPT !.buf = @ \o NextOp.ms]
          /\ UNCHANGED up
       \/ /\ NextOp.op = "flush"
          /\ client' = [Continue(client) EXCEPT !.buf = <<>>]
          /\ up' = up \o client.buf
       \/ /\ NextOp.op = "close"
          /\ client' = [client EXCEPT !.state = "failed"]
          /\ UNCHANGED up
    /\ UNCHANGED <<how, server, down, shut, remote, udpVars>>

\* A bug for the checks: the last reply is read through a buffer, then dropped.
LastReadAhead == how.client = "http" \/ Len(client.script) = 1

\* hyper reads ahead, and HttpClient keeps the connection without what it has
\* read; Socks5Client buffers its writes only.
ReadsAhead == how.client = "http"

\* A reply: another one than the script's is an error.
ClientReads ==
    /\ client.state = "run" /\ client.script # <<>> /\ NextOp.op = "read"
    /\ \/ /\ down # <<>> /\ Head(down) = Head(NextOp.ms)
          /\ \E k \in 0..(Len(down) - 1) :
               /\ k > 0 => ReadsAhead
               /\ down' = SubSeq(down, k + 2, Len(down))
          /\ client' = Continue(client)
       \/ /\ down # <<>> /\ Head(down) # Head(NextOp.ms)
          /\ client' = [client EXCEPT !.state = "failed"]
          /\ down' = Tail(down)
       \/ /\ down = <<>> /\ shut
          /\ client' = [client EXCEPT !.state = "failed"]
          /\ UNCHANGED down
    /\ UNCHANGED <<how, server, up, shut, remote, udpVars>>

\* The connection is open to the client's user, who writes and reads, or finds
\* it closed.
UserWrites ==
    /\ client.state = "run" /\ client.script = <<>> /\ client.data # <<>>
    /\ up' = Append(up, Head(client.data))
    /\ client' = [client EXCEPT !.data = Tail(@)]
    /\ UNCHANGED <<how, server, down, shut, remote, udpVars>>
UserReads ==
    /\ client.state = "run" /\ client.script = <<>>
    /\ IF down # <<>>
         THEN down' = Tail(down) /\ client' = [client EXCEPT !.got = Append(@, Head(down))]
         ELSE shut /\ client' = [client EXCEPT !.state = "failed"] /\ UNCHANGED down
    /\ UNCHANGED <<how, server, up, shut, remote, udpVars>>

-----------------------------------------------------------------------------
(* The server's end of the stream.                                         *)

\* PeekableTcpStream: what was peeked is read again first.
In == server.peeked \o up
Rest(n) == SubSeq(server.peeked, n + 1, Len(server.peeked))
UpAfter(n) ==
    IF n <= Len(server.peeked) THEN up ELSE SubSeq(up, n - Len(server.peeked) + 1, Len(up))
ClientGone == client.state = "failed"

\* The task goes on at pc after reading n messages and writing out the
\* messages out; at "closed" and, after an error of a net, at "failed" the
\* connection is dropped.
Serve(pc, n, out, dst) ==
    /\ server' = [pc |-> pc, peeked |-> Rest(n), dst |-> dst]
    /\ up' = UpAfter(n)
    /\ down' = down \o out
    /\ shut' = (pc \in {"closed", "failed"})
    /\ UNCHANGED <<how, client>>

\* The accept loops and how each task begins.  The forward server knows its
\* target, redir and tproxy learn it from the kernel: the original destination,
\* or the local address of the accepted socket.
MixedAccepts == how.entry = "mixed" /\ Serve("peek", 0, <<>>, NoAddr)
Socks5Accepts == how.entry = "socks5" /\ Serve("hello", 0, <<>>, NoAddr)
HttpAccepts == how.entry = "http" /\ Serve("request", 0, <<>>, NoAddr)
ForwardAccepts == how.entry = "forward" /\ Serve("dial", 0, <<>>, how.ask)
RedirAccepts == how.entry = "redir" /\ Serve("dial", 0, <<>>, how.ask)
TProxyAccepts == how.entry = "tproxy" /\ Serve("dial", 0, <<>>, how.ask)

\* An accept that fails ends the server.
Accept ==
    /\ server.pc = "listen"
    /\ \/ MixedAccepts \/ Socks5Accepts \/ HttpAccepts
       \/ ForwardAccepts \/ RedirAccepts \/ TProxyAccepts
       \/ Serve("failed", 0, <<>>, NoAddr)
    /\ UNCHANGED <<remote, udpVars>>

\* A bug for the checks: the peeked byte is in the stream twice.
PeekedTwice(m) == <<m, m>>
Peeked(m) == <<m>>

\* The mixed server; a client that is gone before the first byte is no error.
Peek ==
    /\ server.pc = "peek"
    /\ \/ /\ up # <<>>
          /\ server' = [server EXCEPT !.peeked = Peeked(Head(up)),
                                      !.pc = IF Head(up).t = "ver" THEN "hello" ELSE "request"]
          /\ up' = Tail(up)
          /\ UNCHANGED <<how, client, down, shut>>
       \/ up = <<>> /\ ClientGone /\ Serve("closed", 0, <<>>, NoAddr)
    /\ UNCHANGED <<remote, udpVars>>

\* handle_command_request: version and methods, the method chosen (which is not
\* looked at again), then the command.
Hello ==
    /\ server.pc = "hello"
    /\ \/ /\ Len(In) >= 2 /\ In[1].t = "ver"
          /\ Serve("command", 2, <<Byte("ver"), Byte(IF In[2].t = "noauth" THEN "noauth" ELSE "refused")>>, NoAddr)
       \/ /\ (Len(In) >= 1 /\ In[1].t # "ver") \/ (Len(In) < 2 /\ ClientGone)
          /\ Serve("closed", 0, <<>>, NoAddr)
    /\ UNCHANGED <<remote, udpVars>>
CommandRequest ==
    /\ server.pc = "command"
    /\ \/ In # <<>> /\ In[1].t = "connect" /\ Serve("dial", 1, <<>>, sa2ra(In[1].a))
       \/ /\ In # <<>> /\ In[1].t = "udp"
          /\ IF In[1].a.atyp = "domain"
               THEN Serve("closed", 1, <<Byte("unsupported")>>, NoAddr)
               ELSE Serve("associate", 1, <<>>, any_addr_port(sa2ra(In[1].a)))
       \/ In # <<>> /\ In[1].t = "bind" /\ Serve("closed", 1, <<>>, NoAddr)
       \/ In = <<>> /\ ClientGone /\ Serve("closed", 0, <<>>, NoAddr)
    /\ UNCHANGED <<remote, udpVars>>

\* UDP ASSOCIATE: the outer socket (an error is reported), the socket for the
\* client (an error is not), then the relay.
Associate ==
    /\ server.pc = "associate"
    /\ \/ /\ Serve("udp", 0, <<Byte("success")>>, server.dst)
          /\ chan' = [chan EXCEPT !.state = "open"]
       \/ Serve("failed", 0, <<Byte("error")>>, NoAddr) /\ UNCHANGED chan
       \/ Serve("failed", 0, <<>>, NoAddr) /\ UNCHANGED chan
    /\ UNCHANGED <<remote, control, socket, uplink, replies, asked, forwarded, answers>>

\* proxy of the HTTP server: the authority, with the default port.
WithDefaultPort(text) == IF Colons(text) = {} THEN text \o <<":", "80">> ELSE text

\* A request.  CONNECT is answered before the target is dialled; an address
\* that does not parse closes the connection.
Request ==
    /\ server.pc = "request"
    /\ \/ /\ Len(In) >= 2 /\ In[2].a.type = "text"
          /\ LET dst == into_address(WithDefaultPort(In[2].a.text)) IN
               IF dst = NoAddr THEN Serve("closed", 2, <<>>, NoAddr)
               ELSE IF In[2].t = "CONNECT" THEN Serve("dial", 2, <<Byte("200")>>, dst)
               ELSE Serve("dial", 2, <<>>, dst)
       \/ /\ Len(In) >= 2 /\ In[2].a.type = "none"
          /\ Serve("request", 2, <<Byte("400")>>, NoAddr)
       \/ Len(In) < 2 /\ ClientGone /\ Serve("closed", 0, <<>>, NoAddr)
    /\ UNCHANGED <<remote, udpVars>>

\* net.tcp_connect.  Only SOCKS5 reports the outcome.
Report(outcome) == IF how.client \in {"socks5", "eager"} THEN <<Byte(outcome)>> ELSE <<>>
Dial ==
    /\ server.pc = "dial" /\ how.client # "get"
    /\ remote' = [remote EXCEPT !.addr = server.dst]
    /\ Serve("relay", 0, Report("success"), server.dst)
    /\ UNCHANGED udpVars
DialFails ==
    /\ server.pc = "dial"
    /\ Serve("failed", 0, Report("error"), NoAddr)
    /\ UNCHANGED <<remote, udpVars>>

\* A page is fetched on behalf of the client, who may ask for another.
Fetch ==
    /\ server.pc = "dial" /\ how.client = "get"
    /\ remote' = [remote EXCEPT !.addr = server.dst, !.got = <<Byte("GET")>>]
    /\ Serve("request", 0, <<Byte("200")>>, NoAddr)
    /\ UNCHANGED udpVars

\* connect_tcp, one message at a time.
RelayUp ==
    /\ server.pc = "relay" /\ In # <<>>
    /\ remote' = [remote EXCEPT !.got = Append(@, In[1])]
    /\ Serve("relay", 1, <<>>, server.dst)
    /\ UNCHANGED udpVars
RelayDown ==
    /\ server.pc = "relay" /\ remote.data # <<>>
    /\ remote' = [remote EXCEPT !.data = Tail(@)]
    /\ Serve("relay", 0, <<Head(remote.data)>>, server.dst)
    /\ UNCHANGED udpVars

ClientNext == ClientWrites \/ ClientReads \/ UserWrites \/ UserReads
ServerNext ==
    \/ Accept \/ Peek \/ Hello \/ CommandRequest \/ Associate \/ Request
    \/ Dial \/ DialFails \/ Fetch \/ RelayUp \/ RelayDown
Next == ClientNext \/ ServerNext \/ (UdpNext /\ UNCHANGED tcpVars)

Spec == Init /\ [][Next]_vars

-----------------------------------------------------------------------------
(* Properties.                                                             *)

\* The target dialled is the address the client asked for, whichever of the
\* address formats of SOCKS5, the request line or the kernel it went through,
\* with port 80 if it gave none.
Wanted ==
    IF how.ask.type # "text" THEN to_normalized(how.ask)
    ELSE IF HasPort(how.ask.text) THEN into_address(how.ask.text)
    ELSE host_to_address(how.ask.text, "80")
TargetPreserved ==
    /\ remote.addr # NoAddr => to_normalized(remote.addr) = Wanted
    /\ DatagramsIntact

\* The target gets what the user of the client wrote, in order and nothing of
\* the handshake, also if the client did not wait for it; the user gets what
\* the target wrote, from the first message on through SOCKS5 and the
\* transparent servers, from some message on through HttpClient.
IsSuffixOfPrefix(s, t) == s \in SubSeqs(t)
StreamsIntact ==
    remote.addr # NoAddr /\ how.client # "get" =>
      /\ IsPrefix(remote.got, Data)
      /\ IF how.client = "http" THEN IsSuffixOfPrefix(client.got, Banner)
         ELSE IsPrefix(client.got, Banner)

\* The clients and the servers of this repository understand each other, also
\* when the mixed server has to guess the protocol and when a client does not
\* wait for the replies: only an error of a net ends a handshake.
HandshakesAgree ==
    \/ how.client \in {"socks5", "eager", "http", "raw"}
    \/ how.client = "udp" /\ how.ask.type = "sock"
    => server.pc # "closed" /\ (client.state = "failed" => server.pc = "failed")

\* No handshake is stuck on a buffer that was not flushed or on a peer that
\* waits as well: when neither end can go on, the client's connection is open
\* or has failed, and what was written into an open tunnel has arrived.
EveryoneServed ==
    UdpOnly \/ ENABLED ClientNext \/ ENABLED ServerNext
    \/ /\ client.script = <<>> \/ client.state = "failed"
       /\ server.pc = "relay" /\ client.state = "run" => remote.got = Data /\ client.data = <<>>
=============================================================================
