-------------------------------- MODULE Net --------------------------------
(***************************************************************************)
(* The network stack: TCP sockets, and the exchange of single datagrams.   *)
(***************************************************************************)
EXTENDS Integers, Sequences, SequencesExt, FiniteSets

-----------------------------------------------------------------------------
(***************************************************************************)
(* TCP sockets: the socket table, connect, send, receive, poll and close,  *)
(* and the handling of segments that arrive (src/src/net/sockets.rs,       *)
(* src/src/net/protocol.rs and the TcpSocket of src/src/net/mod.rs).       *)
(*                                                                         *)
(* A call polls the adapter in a loop, so it is a sequence of steps.  A    *)
(* system call runs with interrupts off: while task's call is in progress  *)
(* the calls of the kernel (HTTP and TLS run in the main loop) stand       *)
(* still.  Segments arrive at any time.                                    *)
(*                                                                         *)
(* Outside the code.  A server sends the bytes NetStream and then FIN,     *)
(* within the window that it was offered, cut into segments anyhow, and    *)
(* again and again; or it resets the connection.  The network may lose,    *)
(* repeat, reorder and delay segments for ever, which is why a segment     *)
(* that may have been sent once may arrive at any later time.              *)
(***************************************************************************)

CONSTANTS
    NetTask,               \* a user task
    NetPorts,              \* local ports, 49152 .. 60999 in the code
    NetSeqSpace,           \* sequence numbers wrap here, at 2^32 in the code
    NetIsn,                \* the server's first sequence number
    NetStream,             \* what the server has to say
    TCP_RX_WINDOW, TCP_OUT_OF_ORDER_MAX, TCP_MSS, TCP_MAX_RETRIES,
    MAX_SOCKETS_PER_TASK, MAX_SOCKETS_TOTAL,
    NetCalls,              \* bound: calls that are made
    NetFaults              \* bound: transmissions that fail, resets

VARIABLE net

Kernel == "kernel"  \* KERNEL_SOCKET_OWNER
NetCaller == {Kernel, NetTask}
NoSocket == [state |-> "none"]
IdleCall == [op |-> "idle"]
Ended == [op |-> "ended"]  \* the task has exited

Plus(a, b) == (a + b) % NetSeqSpace
Minus(a, b) == (a - b) % NetSeqSpace
AtOrAfter(current, target) == Minus(current, target) < NetSeqSpace \div 2

SumLen(segments) == FoldSeq(LAMBDA s, n : n + Len(s.data), 0, segments)
Buffered(s) == Len(s.rx) + SumLen(s.pending)
Window(s) == IF Buffered(s) > TCP_RX_WINDOW THEN 0 ELSE TCP_RX_WINDOW - Buffered(s)

Owned(n, c) == {i \in DOMAIN n.sockets : n.sockets[i] # NoSocket /\ n.sockets[i].owner = c}
Open(n) == {i \in DOMAIN n.sockets : n.sockets[i] # NoSocket}

NewSocket(c, port) ==
    [owner |-> c, port |-> port, remote |-> FALSE, seq |-> port, acked |-> port, ack |-> 0,
     state |-> "Closed", rx |-> <<>>, pending |-> <<>>, peer_closed |-> FALSE,
     readers |-> {}, writers |-> {},
     taken |-> <<>>, joins |-> 0]  \* history: what recv returned, how often it connected

\* What has been sent to the server of this local port, and what it has seen.
NoConn == [isn |-> 0, limit |-> 0, out |-> {}, got |-> 0]

\* Our acknowledgement as a position in the server's stream.
Position(ack) == Minus(ack, NetIsn + 1)
Offer(conn, ack, window) ==
    LET edge == Position(ack) + window
    IN [conn EXCEPT !.limit = IF Position(ack) <= Len(NetStream) + 1 /\ edge > @ THEN edge ELSE @]

\* The segment that a step sends after it has released NET_STATE.
SendAck(n, s) == [n EXCEPT !.conns[s.port] = Offer(@, s.ack, Window(s))]

\* Tasks taken from the wait lists run again.
WakeSock(n, tasks) == [n EXCEPT !.asleep = IF NetTask \in tasks THEN <<>> ELSE @]

Connected(s) == s.state \in {"Established", "CloseWait"}

----------------------------------------------------------------------------
(* Received data. *)

Append_payload(s, data) ==
    IF Buffered(s) + Len(data) > TCP_RX_WINDOW THEN [ok |-> FALSE, s |-> s]
    ELSE [ok |-> TRUE, s |-> [s EXCEPT !.rx = @ \o data, !.ack = Plus(@, Len(data))]]

\* A pending segment is taken over, or stays where it was when there is no room.
TakePending(s, k) ==
    IF Buffered(s) > TCP_RX_WINDOW THEN s
    ELSE [s EXCEPT !.rx = @ \o s.pending[k].data, !.ack = Plus(@, Len(s.pending[k].data)),
                   !.pending = RemoveAt(@, k)]

\* One round of the loop: the first pending segment that is next in line.
DrainOne(s) ==
    LET k == SelectInSeq(s.pending, LAMBDA p : p.seq = s.ack)
    IN IF k = 0 THEN s ELSE TakePending(s, k)

\* No more than TCP_OUT_OF_ORDER_MAX segments are pending.
Drain(s) == FoldLeft(LAMBDA x, y : DrainOne(x), s, [k \in 1 .. TCP_OUT_OF_ORDER_MAX |-> k])

\* Mutant: no room is needed for a segment that came too early.
StoreOver(s, seq, data) ==
    IF Len(s.pending) >= TCP_OUT_OF_ORDER_MAX \/ Minus(seq, s.ack) > TCP_RX_WINDOW THEN [ok |-> FALSE, s |-> s]
    ELSE [ok |-> TRUE, s |-> [s EXCEPT !.pending = Append(@, [seq |-> seq, data |-> data])]]

Store_pending(s, seq, data) ==
    IF \/ Len(s.pending) >= TCP_OUT_OF_ORDER_MAX
       \/ \E k \in DOMAIN s.pending : s.pending[k].seq = seq
       \/ Minus(seq, s.ack) > TCP_RX_WINDOW
       \/ Buffered(s) + Len(data) > TCP_RX_WINDOW
    THEN [ok |-> FALSE, s |-> s]
    ELSE [ok |-> TRUE, s |-> [s EXCEPT !.pending = Append(@, [seq |-> seq, data |-> data])]]

Drained(r) == [r EXCEPT !.s = IF r.ok THEN Drain(@) ELSE @]

Receive_payload(s, seq, data) ==
    IF ~AtOrAfter(s.ack, seq) THEN Store_pending(s, seq, data)
    ELSE IF seq # s.ack /\ Minus(s.ack, seq) >= Len(data) THEN [ok |-> FALSE, s |-> s]
    ELSE Drained(Append_payload(s, SubSeq(data, Minus(s.ack, seq) + 1, Len(data))))

----------------------------------------------------------------------------
(* A segment arrives: handle_tcp(). *)

AfterAck(s, g) ==
    IF g.ackno # -1 /\ AtOrAfter(g.ackno, s.acked) THEN [s EXCEPT !.acked = g.ackno, !.writers = {}] ELSE s

ReadersWoken(r) == [r.s EXCEPT !.readers = IF r.ok THEN {} ELSE @]
AfterData(s, g) == IF g.data = <<>> THEN s ELSE ReadersWoken(Receive_payload(s, g.seq, g.data))

Ends(s) == [s EXCEPT !.ack = Plus(@, 1), !.peer_closed = TRUE, !.state = "CloseWait",
                     !.readers = {}, !.writers = {}]

\* Mutant: a FIN is taken whenever it comes.
FinAny(s, g) == IF g.fin THEN Ends(s) ELSE s

AfterFin(s, g) == IF g.fin /\ Plus(g.seq, Len(g.data)) = s.ack THEN Ends(s) ELSE s

Reset(s) == [s EXCEPT !.peer_closed = TRUE, !.state = "Closed", !.pending = <<>>, !.readers = {}, !.writers = {}]

JoinedSocket(s, g) ==
    [s EXCEPT !.seq = g.ackno, !.acked = g.ackno, !.ack = Plus(g.seq, 1),
              !.state = "Established", !.writers = {}]

\* The first socket of the port that is in a state to take the segment.
Takers(n, port, g) ==
    {i \in Open(n) :
        /\ n.sockets[i].port = port
        /\ \/ n.sockets[i].state = "SynSent" /\ g.syn
           \/ Connected(n.sockets[i])}

TakeSegment(s, g) ==
    IF s.state = "SynSent" THEN JoinedSocket(s, g)
    ELSE IF g.rst THEN Reset(s)
    ELSE AfterFin(AfterData(AfterAck(s, g), g), g)

\* The socket becomes t: the waiters that it lost are woken, then the answer
\* is sent.
Becomes(n, i, s, t, answers) ==
    LET m == WakeSock([n EXCEPT !.sockets[i] = t], (s.readers \ t.readers) \cup (s.writers \ t.writers))
    IN IF answers THEN SendAck(m, t) ELSE m

HandledBy(n, i, s, g) ==
    Becomes(n, i, s, TakeSegment(s, g),
            s.state = "SynSent" \/ (~g.rst /\ (g.data # <<>> \/ g.fin)))

Handle_tcp(n, port, g) ==
    LET takers == Takers(n, port, g)
        i == CHOOSE x \in takers : \A y \in takers : x <= y
    IN IF takers = {} THEN n ELSE HandledBy(n, i, n.sockets[i], g)

\* The segments that the server of a connection may have sent: the answer to
\* the SYN, a part of the stream within the window with an acknowledgement,
\* FIN after the last byte, a reset.
Segments(conn) ==
    LET base == [syn |-> FALSE, fin |-> FALSE, rst |-> FALSE, seq |-> 0, ackno |-> -1, data |-> <<>>]
        Data(from, to, a) ==
            [base EXCEPT !.seq = Plus(NetIsn + 1, from), !.ackno = Plus(conn.isn + 1, a),
                         !.data = SubSeq(NetStream, from + 1, to)]
        slices == {<<from, to>> \in (0 .. Len(NetStream)) \X (0 .. Len(NetStream)) :
                     from <= to /\ to <= conn.limit /\ to - from <= TCP_MSS}
    IN {[base EXCEPT !.syn = TRUE, !.seq = NetIsn, !.ackno = Plus(conn.isn, 1)]}
       \cup {Data(x[1], x[2], a) : x \in slices, a \in 0 .. conn.got}
       \cup {[Data(x[1], x[2], conn.got) EXCEPT !.fin = TRUE] :
               x \in {y \in slices : y[2] = Len(NetStream)}}
       \cup {[base EXCEPT !.rst = TRUE]}

NetArrive ==
    \E port \in DOMAIN net.conns :
        /\ net.conns[port] # NoConn
        /\ \E g \in Segments(net.conns[port]) :
              /\ g.rst => net.faults > 0
              /\ LET n == Handle_tcp(net, port, g)
                 IN net' = IF g.rst THEN [n EXCEPT !.faults = @ - 1] ELSE n

\* External: the server gets a segment that is next in line.
NetServer ==
    \E port \in DOMAIN net.conns :
        LET conn == net.conns[port]
        IN \E g \in conn.out :
              /\ g.seq = Plus(conn.isn + 1, conn.got)
              /\ net' = [net EXCEPT !.conns[port].got = @ + g.len, !.conns[port].out = @ \ {g}]

----------------------------------------------------------------------------
(* The calls. *)

Returned(n, c) == [n EXCEPT !.calls[c] = IdleCall]

Socket_open(n, c) ==
    LET free == {i \in 1 .. Len(n.sockets) : n.sockets[i] = NoSocket}
        i == IF free = {} THEN Len(n.sockets) + 1 ELSE CHOOSE x \in free : \A y \in free : x <= y
        s == NewSocket(c, n.next_port)
    IN IF \/ Cardinality(Open(n)) >= MAX_SOCKETS_TOTAL
          \/ c # Kernel /\ Cardinality(Owned(n, c)) >= MAX_SOCKETS_PER_TASK
       THEN n
       ELSE [n EXCEPT !.sockets = IF i > Len(@) THEN Append(@, s) ELSE [@ EXCEPT ![i] = s],
                      !.conns = [p \in DOMAIN @ |-> IF p = n.next_port THEN NoConn ELSE @[p]],
                      !.next_port = (@ + 1) % NetPorts]

\* The SYN of a try is sent; the server is told the whole window.
Socket_connect(n, c, i) ==
    LET s == n.sockets[i]
    IN [n EXCEPT !.sockets[i].remote = TRUE, !.sockets[i].state = "SynSent", !.sockets[i].joins = @ + 1,
                 !.conns[s.port] = [NoConn EXCEPT !.isn = s.seq, !.limit = TCP_RX_WINDOW],
                 !.calls[c] = [op |-> "connect", i |-> i, tries |-> 1]]

\* The next part of the left bytes is numbered and sent.
SendPart(n, c, i, left) ==
    LET s == n.sockets[i]
        take == IF left > TCP_MSS THEN TCP_MSS ELSE left
    IN IF s.state # "Established" THEN Returned(n, c)
       ELSE [SendAck(n, s) EXCEPT
                !.sockets[i].seq = Plus(@, take),
                !.conns[s.port].out = @ \cup {[seq |-> s.seq, len |-> take]},
                !.calls[c] = [op |-> "send", i |-> i, left |-> left, take |-> take,
                              seq |-> s.seq, tries |-> 1]]

\* socket_tx_acked() of the part that is on its way.
TxAcked(n, call) == AtOrAfter(n.sockets[call.i].acked, Plus(call.seq, call.take))

\* The condition for which the loop of a call looks after every poll.
Arrived(n, call) ==
    LET s == n.sockets[call.i]
    IN \/ call.op = "connect" /\ s.state = "Established"
       \/ call.op = "send" /\ TxAcked(n, call)
       \/ call.op = "recv" /\ (s.rx # <<>> \/ s.peer_closed)

\* recv takes what there is, and offers the window again when it was shut.
Take(n, c, call) ==
    LET s == n.sockets[call.i]
        k == IF call.want < Len(s.rx) THEN call.want ELSE Len(s.rx)
        t == [s EXCEPT !.rx = SubSeq(@, k + 1, Len(@)), !.taken = @ \o SubSeq(s.rx, 1, k)]
        m == Returned([n EXCEPT !.sockets[call.i] = t], c)
    IN IF k > 0 /\ Window(s) = 0 /\ Window(t) > 0 /\ s.remote /\ Connected(s) THEN SendAck(m, t) ELSE m

Finish(n, c) ==
    LET call == n.calls[c]
    IN IF call.op = "recv" THEN Take(n, c, call)
       ELSE IF call.op = "send" /\ call.take < call.left THEN SendPart(n, c, call.i, call.left - call.take)
       ELSE Returned(n, c)

\* The spins of a try are used up.  The segment goes out again, which adds
\* nothing to what may arrive; after the last try the call ends with an error.
TimesOut(n, c) ==
    IF n.calls[c].op = "recv" \/ n.calls[c].tries = TCP_MAX_RETRIES THEN Returned(n, c)
    ELSE [n EXCEPT !.calls[c].tries = @ + 1]

Close(n, i) ==
    LET s == n.sockets[i]
    IN WakeSock([n EXCEPT !.sockets[i] = NoSocket], s.readers \cup s.writers)

\* FALSE is no event; the mask is what the caller asks for.
Revents(s, events) ==
    LET gone == s.peer_closed \/ (s.state = "Closed" /\ s.remote)
    IN {e \in events : \/ e = "READ" /\ (s.rx # <<>> \/ gone)
                       \/ e = "WRITE" /\ Connected(s) /\ ~s.peer_closed}
       \cup {e \in {"HANGUP"} : gone}

\* poll: the task is registered with the socket and sleeps unless it is ready.
PollSocket(n, i, events) ==
    IF Revents(n.sockets[i], events) # {} THEN n
    ELSE [n EXCEPT !.sockets[i].readers = IF "READ" \in events THEN @ \cup {NetTask} ELSE @,
                   !.sockets[i].writers = IF "WRITE" \in events THEN @ \cup {NetTask} ELSE @,
                   !.asleep = <<i, events>>]

\* The task that slept is taken off the list again.
UnregisterSock(s) == IF s = NoSocket THEN s ELSE [s EXCEPT !.readers = @ \ {NetTask}, !.writers = @ \ {NetTask}]

Runs(c) == IF c = Kernel THEN net.calls[NetTask] \in {IdleCall, Ended} ELSE net.asleep = <<>>

NetCall(c) ==
    /\ Runs(c) /\ net.calls[c] = IdleCall /\ net.left > 0
    /\ LET n == [net EXCEPT !.left = @ - 1]
       IN \/ net' = Socket_open(n, c)
          \/ \E i \in Owned(net, c) :
                \/ /\ c # Kernel \/ net.sockets[i].joins = 0
                   /\ net' = Socket_connect(n, c, i)
                \/ \E len \in 1 .. TCP_MSS + 1 : net' = SendPart(n, c, i, len)
                \/ \E want \in 1 .. 2 : net' = [n EXCEPT !.calls[c] = [op |-> "recv", i |-> i, want |-> want]]
                \/ net' = Close(n, i)
                \/ /\ c = NetTask
                   /\ \E events \in (SUBSET {"READ", "WRITE"}) \ {{}} : net' = PollSocket(n, i, events)

\* A round of the loop of a call finds what it waits for, gives up, or cannot
\* transmit.
NetWait(c) ==
    /\ Runs(c) /\ net.calls[c] \notin {IdleCall, Ended}
    /\ \/ Arrived(net, net.calls[c]) /\ net' = Finish(net, c)
       \/ ~Arrived(net, net.calls[c]) /\ net' = TimesOut(net, c)
       \/ /\ net.calls[c].op # "recv" /\ net.faults > 0
          /\ net' = [Returned(net, c) EXCEPT !.faults = @ - 1]

\* A sleeping task is woken by something else (its timeout, a signal).
NetOtherWake ==
    /\ net.asleep # <<>>
    /\ net' = [net EXCEPT !.asleep = <<>>,
                          !.sockets = [i \in DOMAIN @ |-> UnregisterSock(@[i])]]

\* The task ends: close_owner_sockets().
NetExit ==
    /\ net.calls[NetTask] = IdleCall
    /\ net' = [net EXCEPT !.sockets = [i \in DOMAIN @ |-> IF i \in Owned(net, NetTask) THEN NoSocket ELSE @[i]],
                          !.asleep = <<>>, !.calls[NetTask] = Ended]

NetInit ==
    net = [sockets |-> <<>>, next_port |-> 0, conns |-> [p \in 0 .. NetPorts - 1 |-> NoConn],
           calls |-> [c \in NetCaller |-> IdleCall], asleep |-> <<>>, left |-> NetCalls, faults |-> NetFaults]

NetNext ==
    \/ \E c \in NetCaller : NetCall(c) \/ NetWait(c)
    \/ NetArrive \/ NetServer \/ NetOtherWake \/ NetExit

----------------------------------------------------------------------------
\* Sockets and calls have their types: a call in progress has its socket, and
\* no more bytes are buffered than the window has room for.
NetTypeOK ==
    /\ \A i \in Open(net) :
          /\ net.sockets[i].state \in {"Closed", "SynSent", "Established", "CloseWait"}
          /\ Buffered(net.sockets[i]) <= TCP_RX_WINDOW
          /\ Len(net.sockets[i].pending) <= TCP_OUT_OF_ORDER_MAX
    /\ \A c \in NetCaller : net.calls[c] \notin {IdleCall, Ended} => net.calls[c].i \in Owned(net, c)
    /\ Cardinality(Open(net)) <= MAX_SOCKETS_TOTAL

Once(s) == s.joins = 1

\* recv returns the bytes of the server in order, each once, whatever the
\* network does to the segments: what was received is a prefix of what was
\* sent, and after a FIN it is all of it.
StreamIsExact ==
    \A i \in Open(net) :
        LET s == net.sockets[i]
        IN Once(s) =>
             /\ IsPrefix(s.taken \o s.rx, NetStream)
             /\ s.state = "CloseWait" => s.taken \o s.rx = NetStream

\* What counts as acknowledged has reached the server, so that a send that
\* returns without an error has delivered its bytes.
AckedIsDelivered ==
    \A i \in Open(net) :
        LET s == net.sockets[i] IN
        Once(s) /\ Connected(s) => Minus(s.acked, net.conns[s.port].isn + 1) <= net.conns[s.port].got

\* A task does not sleep in poll on a socket that has what it asked for:
\* handle_tcp() takes it from the lists with everything that makes it ready.
NoSleepOnReady ==
    net.asleep # <<>> => Revents(net.sockets[net.asleep[1]], net.asleep[2]) = {}

-----------------------------------------------------------------------------
(***************************************************************************)
(* ARP, ping and the DNS resolver with its cache (src/src/net/protocol.rs, *)
(* src/src/net/mod.rs and icmp_ping() of src/src/net/sockets.rs).          *)
(*                                                                         *)
(* A call sends a datagram and polls until its answer is there.  A system  *)
(* call of a task holds the CPU while it polls; a call of the main loop is *)
(* overtaken by one.  Outside the code: hosts answer ARP requests, pings   *)
(* and queries late or never, in any order.  Counters of packets and the   *)
(* IPv4 and UDP headers are left out.                                      *)
(***************************************************************************)

CONSTANTS
    DgHosts,              \* names that the DNS server knows
    DgLocal,              \* hosts of the local network; the others are behind the gateway
    DNS_CACHE_MAX,
    DNS_CACHE_TTL_TICKS,
    DgTicks,              \* bound: the clock
    DgCalls,              \* bound: calls that are made
    DgFaults              \* bound: transmissions that fail

VARIABLE dg

DgCaller == {"main", "task"}
AtRest == [op |-> "rest"]
DnsServer == "dns"
Gateway == "gw"
Example == "example.com"  \* the name that is answered without a network

\* The address that the DNS has for a name.
Address(h) == <<h>>

RouteNextHop(host) == IF host \in DgLocal \cup {DnsServer} THEN host ELSE Gateway

Rest(d, c) == [d EXCEPT !.calls[c] = AtRest]

\* A call ends with an address.  (said is history: what was answered last.)
Says(d, c, h, a) == [Rest(d, c) EXCEPT !.said = <<h, a>>]

----------------------------------------------------------------------------
(* The cache. *)

Fresh(d) == SelectSeq(d.cache, LAMBDA e : d.now - e.tick <= DNS_CACHE_TTL_TICKS)
CacheAt(cache, h) == SelectInSeq(cache, LAMBDA e : e.host = h)

\* A known name keeps its place; a new one may push the oldest out.
CacheRemember(d, h, a) ==
    LET e == [host |-> h, addr |-> a, tick |-> d.now]
        k == CacheAt(d.cache, h)
        longer == Append(d.cache, e)
    IN [d EXCEPT !.cache = IF k # 0 THEN [@ EXCEPT ![k] = e]
                           ELSE IF Len(longer) > DNS_CACHE_MAX THEN Tail(longer) ELSE longer]

----------------------------------------------------------------------------
(* Calls. *)

\* send_ipv4(): what is to be sent waits for the hardware address of the next
\* hop, for which the caller polls.
Transmit(d, c, call) ==
    LET hop == RouteNextHop(call.to)
    IN IF hop \in d.arp
       THEN [d EXCEPT !.calls[c] = [call EXCEPT !.sent = TRUE], !.wire = @ \cup {[call EXCEPT !.sent = TRUE]}]
       ELSE [d EXCEPT !.calls[c] = call, !.wire = @ \cup {[op |-> "arp", to |-> hop]}]

\* A query is numbered, remembered as awaited, and sent.
Query(d, c, h) ==
    LET call == [op |-> "dns", to |-> DnsServer, host |-> h, id |-> d.txid, sent |-> FALSE]
    IN Transmit([d EXCEPT !.txid = @ + 1, !.waits = @ \cup {[id |-> d.txid, result |-> <<>>]}], c, call)

Resolve(d, c, h) ==
    LET k == CacheAt(d.cache, h)
    IN IF ~d.dns THEN d
       ELSE IF k # 0 THEN Says(d, c, h, d.cache[k].addr)
       ELSE IF d.link THEN Query(d, c, h)
       ELSE IF d.offline_api /\ h = Example THEN Says(CacheRemember(d, h, Address(h)), c, h, Address(h))
       ELSE d

ResolveHost(d, c, h) == Resolve([d EXCEPT !.cache = IF d.dns THEN Fresh(d) ELSE @], c, h)

\* The ticks at which it was sent identify a ping.
Ping(d, c, h) ==
    IF ~d.link THEN d
    ELSE Transmit([d EXCEPT !.icmp_wait = d.now, !.last_ping_ok = FALSE], c,
                  [op |-> "ping", to |-> h, id |-> d.now, sent |-> FALSE])

\* The main loop stands still during the system call of a task.
DgRuns(c) == c = "main" => dg.calls["task"] = AtRest

DgCall ==
    \E c \in DgCaller :
        /\ DgRuns(c) /\ dg.calls[c] = AtRest /\ dg.left > 0
        /\ LET d == [dg EXCEPT !.left = @ - 1]
           IN \E h \in DgHosts : \/ dg' = ResolveHost(d, c, h)
                                 \/ c = "main" /\ dg' = Ping(d, c, h)

\* take_dns_result() of one's own number, and last_ping_ok.
AwaitedResult(d, call) == {w \in d.waits : w.id = call.id /\ w.result # <<>>}

Answered(d, call) == IF call.op = "dns" THEN AwaitedResult(d, call) # {} ELSE d.last_ping_ok

TakeAnswer(d, c, call, w) ==
    Says(CacheRemember([d EXCEPT !.waits = @ \ {w}], call.host, w.result), c, call.host, w.result)

DgWait ==
    \E c \in DgCaller :
        LET call == dg.calls[c]
        IN /\ DgRuns(c) /\ call # AtRest
           /\ \/ ~call.sent /\ RouteNextHop(call.to) \in dg.arp /\ dg' = Transmit(dg, c, call)
              \/ /\ call.sent /\ Answered(dg, call)
                 /\ IF call.op = "dns"
                    THEN \E w \in AwaitedResult(dg, call) : dg' = TakeAnswer(dg, c, call, w)
                    ELSE dg' = [Rest(dg, c) EXCEPT !.said = <<"pong", call.to>>]

\* The polls are used up.  A query that got no answer is forgotten; one that
\* could not be sent is left among the waits.
DgTimeout ==
    \E c \in DgCaller :
        LET call == dg.calls[c]
        IN /\ DgRuns(c) /\ call # AtRest /\ dg.now < DgTicks
           /\ call.sent \/ dg.faults > 0
           /\ dg' = [Rest(dg, c) EXCEPT !.now = @ + 1,
                        !.faults = IF call.sent THEN @ ELSE @ - 1,
                        !.waits = IF call.sent /\ call.op = "dns" THEN {w \in @ : w.id # call.id} ELSE @]

----------------------------------------------------------------------------
(* Frames that arrive. *)

\* Every ARP packet is remembered, the answers to our requests among them.
Handle_arp(d, host) == [d EXCEPT !.arp = @ \cup {host}, !.wire = @ \ {[op |-> "arp", to |-> host]}]

Handle_icmp(d, m) ==
    [d EXCEPT !.wire = @ \ {m},
              !.last_ping_ok = @ \/ d.icmp_wait = m.id,
              !.icmp_wait = IF @ = m.id THEN -1 ELSE @]

\* The answer goes to the query with its number, if that is still awaited.
Handle_dns(d, m) ==
    [d EXCEPT !.waits = {IF w.id = m.id THEN [w EXCEPT !.result = Address(m.host)] ELSE w : w \in @},
              !.wire = @ \ {m}]

DgArrive ==
    \/ \E host \in DgLocal \cup {DnsServer, Gateway} :
          host \notin dg.arp /\ dg.link /\ dg' = Handle_arp(dg, host)
    \/ \E m \in dg.wire : m.op = "ping" /\ dg' = Handle_icmp(dg, m)
    \/ \E m \in dg.wire : m.op = "dns" /\ dg' = Handle_dns(dg, m)

DgTick == dg.now < DgTicks /\ dg' = [dg EXCEPT !.now = @ + 1]

DgStarts ==
    {[link |-> link, dns |-> dns, offline_api |-> offline_api, arp |-> {}, cache |-> <<>>,
      waits |-> {}, txid |-> 0, icmp_wait |-> -1, last_ping_ok |-> FALSE, now |-> 0,
      calls |-> [c \in DgCaller |-> AtRest], wire |-> {}, said |-> <<>>,
      left |-> DgCalls, faults |-> DgFaults] : link, dns, offline_api \in BOOLEAN}
DgInit == dg \in DgStarts

DgNext == DgCall \/ DgWait \/ DgTimeout \/ DgArrive \/ DgTick

----------------------------------------------------------------------------
\* The cache holds a name once and no more names than it may; a query in
\* progress is awaited.
DgTypeOK ==
    /\ Len(dg.cache) <= DNS_CACHE_MAX
    /\ \A i, j \in DOMAIN dg.cache : i # j => dg.cache[i].host # dg.cache[j].host
    /\ \A c \in DgCaller :
          dg.calls[c] # AtRest /\ dg.calls[c].op = "dns" => \E w \in dg.waits : w.id = dg.calls[c].id

\* An address is the one of the name that was asked for, however late the
\* answers to earlier queries come, in the cache and in what a call returns;
\* and a ping succeeds only if that host answered that ping.
AnswersAreOwn ==
    /\ \A k \in DOMAIN dg.cache : dg.cache[k].addr = Address(dg.cache[k].host)
    /\ dg.said # <<>> /\ dg.said[1] # "pong" => dg.said[2] = Address(dg.said[1])
    /\ \A c \in DgCaller :
          LET call == dg.calls[c] IN
          call # AtRest /\ call.op = "ping" /\ call.sent /\ dg.last_ping_ok => call \notin dg.wire

\* Queries that nobody waits for are forgotten, except those whose datagram
\* could not be sent: resolve_host_addrs() returns early and leaves the wait.
WaitsAreBounded ==
    Cardinality(dg.waits) <= Cardinality({c \in DgCaller : dg.calls[c] # AtRest}) + (DgFaults - dg.faults)
=============================================================================
