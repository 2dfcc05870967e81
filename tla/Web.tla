-------------------------------- MODULE Web --------------------------------
(***************************************************************************)
(* What the browser and wget get over the network: the requests, and the   *)
(* decoding of a body that comes in chunks.                                *)
(***************************************************************************)
EXTENDS Integers, Sequences, SequencesExt, FiniteSets

-----------------------------------------------------------------------------
(***************************************************************************)
(* HTTP and HTTPS requests of the browser and of wget: addresses tried in  *)
(* turn, trust roots tried in turn, redirects (src/src/net/http.rs,        *)
(* https_exchange() of src/src/tls.rs).                                    *)
(*                                                                         *)
(* The socket calls are reduced to how they end; module Net has them.      *)
(* Outside the code: a host has addresses, and a server presents a chain   *)
(* that ends in one root, or one that does not fit its name; embedded_tls  *)
(* verifies it against the one root that it is given.                      *)
(***************************************************************************)

CONSTANTS
    WebHosts,             \* names
    WebAddrs,             \* a host's addresses, in the order of the DNS
    WebRoots,             \* TRUST_ROOTS, a sequence
    HTTP_MAX_REDIRECTS, TLS_ROOT_CACHE_MAX,
    WebRequests,          \* bound: requests that are made
    WebFaults             \* bound: connections and transmissions that fail

VARIABLE web

NoRequest == [at |-> "rest"]

\* The root that ends the chain of the server at an address, or "name" for a
\* chain that is for another name, or "none" for one that no root vouches for.
Chains == {"name", "none"} \cup Range(WebRoots)

ClosedSocket(w) == [w EXCEPT !.sockets = @ - 1]

\* The request ends; what it returns is kept.
Done(w, result) == [w EXCEPT !.req = NoRequest, !.result = result]
WebError(w) == Done(w, [ok |-> FALSE])

\* http_request_response_follow(): checks, and the resolution of the name.
Follow(w, scheme, host, method, redirects) ==
    IF ~w.http \/ host = "bad" \/ (w.link # "up" /\ scheme = "https") \/ w.link = "down" THEN WebError(w)
    ELSE IF w.link = "offline"
         THEN Done(w, [ok |-> TRUE, host |-> host, scheme |-> scheme, root |-> "none", redirects |-> redirects])
    ELSE [w EXCEPT !.req = [at |-> "address", scheme |-> scheme, host |-> host, method |-> method,
                            redirects |-> redirects, addr |-> 1, root |-> 0, tries |-> <<>>, sent |-> 0, late |-> FALSE,
                            before |-> w.faults]]  \* history

\* cached_root(), and the roots in their order with the cached one left out.
RootEntry(w, host) == SelectInSeq(w.roots, LAMBDA e : e.host = host)
CachedRoot(w, host) == IF RootEntry(w, host) = 0 THEN "none" ELSE w.roots[RootEntry(w, host)].root

\* Mutant: the cached root stands for all.
CachedOnly(w, host) ==
    IF CachedRoot(w, host) = "none" THEN WebRoots ELSE <<CachedRoot(w, host)>>

RootsToTry(w, host) ==
    IF CachedRoot(w, host) = "none" THEN WebRoots
    ELSE <<CachedRoot(w, host)>> \o SelectSeq(WebRoots, LAMBDA r : r # CachedRoot(w, host))

RememberRoot(w, host, r) ==
    LET k == RootEntry(w, host)
        longer == Append(w.roots, [host |-> host, root |-> r])
    IN [w EXCEPT !.roots = IF k # 0 THEN [@ EXCEPT ![k].root = r]
                           ELSE IF Len(longer) > TLS_ROOT_CACHE_MAX THEN Tail(longer) ELSE longer]

\* The next address, or the error of the last one.
NextAddr(w) ==
    IF w.req.addr < WebAddrs THEN [w EXCEPT !.req.addr = @ + 1, !.req.root = 0, !.req.at = "address"]
    ELSE WebError(w)

\* The next root at this address.  The roots are looked up when the address
\* is taken up.
NextRoot(w) ==
    IF w.req.root < Len(w.req.tries) THEN [w EXCEPT !.req.root = @ + 1, !.req.at = "connect"]
    ELSE NextAddr(w)

WebStart ==
    \E scheme \in {"http", "https"}, host \in WebHosts, method \in {"GET", "POST"} :
        /\ web.req = NoRequest /\ web.left > 0
        /\ web' = Follow([web EXCEPT !.left = @ - 1], scheme, host, method, 0)

\* An address is taken up: a socket is opened; a full table ends the request
\* of http, and is one more failed root for https.
WebAddress ==
    /\ web.req.at = "address"
    /\ web' = IF web.req.scheme = "https"
              THEN NextRoot([web EXCEPT !.req.tries = RootsToTry(web, web.req.host)])
              ELSE [web EXCEPT !.req.at = "connect"]

\* KernelTcpStream::connect(), or socket_open() and socket_connect().
WebConnect ==
    /\ web.req.at = "connect"
    /\ \/ web' = [web EXCEPT !.sockets = @ + 1,
                             !.req.at = IF web.req.scheme = "https" THEN "handshake" ELSE "send"]
       \/ /\ web.faults > 0
          /\ LET w == [web EXCEPT !.faults = @ - 1]
             IN web' = IF web.req.scheme = "https" THEN NextRoot(w) ELSE NextAddr(w)

\* tls.open() with one root.
WebHandshake ==
    /\ web.req.at = "handshake"
    /\ LET chain == web.chain[web.req.host]
       IN \/ /\ chain = web.req.tries[web.req.root]
             /\ web' = [web EXCEPT !.req.at = "send"]
          \/ chain = "name" /\ web' = WebError(ClosedSocket(web))
          \/ /\ chain # "name" /\ chain # web.req.tries[web.req.root]
             /\ web' = NextRoot(ClosedSocket(web))
          \/ /\ web.faults > 0
             /\ web' = NextRoot(ClosedSocket([web EXCEPT !.faults = @ - 1]))

\* The request is sent.  It may have arrived although its acknowledgement did
\* not: http then goes to the next address, https gives up.
WebSend ==
    /\ web.req.at = "send"
    /\ \/ web' = [web EXCEPT !.req.at = "read", !.req.sent = @ + 1]
       \/ /\ web.faults > 0
          /\ \E arrived \in 0 .. 1 :
                LET w == ClosedSocket([web EXCEPT !.faults = @ - 1, !.req.sent = @ + arrived, !.req.late = TRUE])
                IN web' = IF web.req.scheme = "https" THEN WebError(w) ELSE NextAddr(w)

\* redirect_request_parts(): only 307 and 308 repeat the method and the body.
NextMethod(status, method) == IF status = 307 THEN method ELSE "GET"

RedirectedTo(w, scheme, host, status) ==
    IF w.req.redirects >= HTTP_MAX_REDIRECTS THEN WebError(w)
    ELSE Follow(w, scheme, host, NextMethod(status, w.req.method), w.req.redirects + 1)

\* finish_web_response(), after the socket was closed.
FinishResponse(w, status, scheme, host) ==
    LET root == IF w.req.scheme = "https" THEN w.req.tries[w.req.root] ELSE "none"
        v == IF w.req.scheme = "https" /\ root # CachedRoot(w, w.req.host)
             THEN RememberRoot(w, w.req.host, root) ELSE w
    IN IF status = 200
       THEN Done(v, [ok |-> TRUE, host |-> w.req.host, scheme |-> w.req.scheme, root |-> root,
                     redirects |-> w.req.redirects])
       ELSE RedirectedTo(v, scheme, host, status)

\* The response is read to its end; nothing comes and the time is up, where
\* https goes to the next address and http gives up; the server closes
\* without a byte; or what came cannot be decoded.
WebRead ==
    /\ web.req.at = "read"
    /\ \/ \E status \in {200, 302, 307}, scheme \in {"http", "https"}, host \in WebHosts :
             /\ status = 200 => scheme = "http" /\ host = web.req.host
             /\ web' = FinishResponse(ClosedSocket(web), status, scheme, host)
       \/ /\ web.faults > 0
          /\ LET w == ClosedSocket([web EXCEPT !.faults = @ - 1])
             IN \/ web' = IF web.req.scheme = "https" THEN NextAddr([w EXCEPT !.req.late = TRUE]) ELSE WebError(w)
                \/ web' = WebError(w)

WebStarts ==
    {[link |-> link, http |-> http, chain |-> chain, roots |-> <<>>, req |-> NoRequest, result |-> [ok |-> FALSE],
      sockets |-> 0, left |-> WebRequests, faults |-> WebFaults] :
        http \in BOOLEAN, link \in {"up", "offline", "down"}, chain \in [WebHosts \ {"bad"} -> Chains]}
WebInit == web \in WebStarts

\* The server renews its certificate, perhaps from another authority.
WebRenew ==
    \E h \in WebHosts \ {"bad"}, c \in Chains :
        web.req = NoRequest /\ web.left > 0 /\ web.faults > 0 /\ web.chain[h] # c
        /\ web' = [web EXCEPT !.chain[h] = c, !.faults = @ - 1]

WebNext ==
    \/ WebStart \/ WebAddress \/ WebConnect \/ WebHandshake \/ WebSend \/ WebRead \/ WebRenew

----------------------------------------------------------------------------
\* A request has a socket exactly while it speaks to a server: every way out
\* of a request closes it.
WebTypeOK ==
    web.sockets = IF web.req.at \in {"handshake", "send", "read"} THEN 1 ELSE 0

\* A request reaches a server at most once, unless the time was up while the
\* outcome was unknown.
SentOnce == web.req # NoRequest /\ web.req.sent > 1 => web.req.late

\* What is reported as verified by a root was verified by it for this host,
\* and nothing that came over plain HTTP is.  An https request ends at the
\* handshake only when no root vouches for the server, or something failed: a
\* root that was remembered before the server changed its authority does not
\* shut out the others.
TlsIsHonest ==
    LET r == web.req IN
       /\ (r # NoRequest /\ r.at = "read" /\ web'.req = NoRequest /\ web'.result.ok) =>
             web'.result.root = IF r.scheme = "https" THEN web.chain[r.host] ELSE "none"
       /\ (r # NoRequest /\ r.at = "handshake" /\ web'.req = NoRequest /\ web'.faults = r.before)
             => web.chain[r.host] \notin Range(WebRoots)

-----------------------------------------------------------------------------
(***************************************************************************)
(* The body of an HTTP response that is sent in chunks, byte by byte: when *)
(* the TLS client stops reading (http_response_complete() of              *)
(* src/src/tls.rs) and what the decoder makes of what was read             *)
(* (decode_chunked_body_bytes() of src/src/net/http.rs).  The headers have *)
(* been read; a chunk size is one digit here and has no extension.         *)
(***************************************************************************)

CONSTANTS WbBytes,   \* bytes of the content, framing bytes among them
          WbLen,     \* bound: bytes of a chunk
          WbChunks   \* bound: chunks

VARIABLE wb

CR == "cr"
LF == "lf"
Digit == ("0" :> 0) @@ ("1" :> 1) @@ ("2" :> 2)
DigitOf(n) == CHOOSE d \in DOMAIN Digit : Digit[d] = n

\* What the server sends.
Chunk(data) == <<DigitOf(Len(data)), CR, LF>> \o data \o <<CR, LF>>
Encoded(chunks) == FlattenSeq([k \in DOMAIN chunks |-> Chunk(chunks[k])]) \o <<"0", CR, LF, CR, LF>>

ByteAt(b, p) == IF p \in DOMAIN b THEN b[p] ELSE "none"

\* find_crlf() of the decoder: the first line feed, and the carriage return
\* before it if there is one.
First(S) == IF S = {} THEN 0 ELSE CHOOSE i \in S : \A j \in S : i <= j
Without(b, p, i) == IF i > p /\ ByteAt(b, i - 1) = CR THEN i - 1 ELSE i
LineEnd(b, p) == Without(b, p, First({i \in p .. Len(b) : b[i] = LF}))
\* find_crlf() of tls.rs: the first pair.
PairEnd(b, p) == First({i \in p .. Len(b) - 1 : b[i] = CR /\ b[i + 1] = LF})

\* parse_hex_usize(): -1 for what is no number.
ChunkSize(line) == IF Len(line) = 1 /\ line[1] \in DOMAIN Digit THEN Digit[line[1]] ELSE -1

\* One round of chunked_body_complete() at p: where the next begins, 0 when
\* the body is not complete, -1 when it is.
CompleteAt(b, p) ==
    LET end == PairEnd(b, p)
        size == IF end = 0 THEN -1 ELSE ChunkSize(SubSeq(b, p, end - 1))
        after == end + 2 + size
    IN IF size = -1 \/ ByteAt(b, after) # CR \/ ByteAt(b, after + 1) # LF THEN 0
       ELSE IF size = 0 THEN -1 ELSE after + 2

Chunked_body_complete(b) ==
    LET from[p \in 1 .. Len(b) + 3] ==
          IF p > Len(b) THEN FALSE
          ELSE LET next == CompleteAt(b, p) IN IF next > 0 THEN from[next] ELSE next = -1
    IN from[1]

\* The chunk at p: its bytes, and where the next begins (-1 at the last chunk,
\* 0 when the body is malformed).
ChunkAt(b, p) ==
    LET end == LineEnd(b, p)
        size == IF end = 0 THEN -1 ELSE ChunkSize(SubSeq(b, p, end - 1))
        pos == IF ByteAt(b, end) = CR THEN end + 2 ELSE end + 1
        after == pos + size
        next == IF ByteAt(b, after) = CR /\ ByteAt(b, after + 1) = LF THEN after + 2
                ELSE IF ByteAt(b, after) = LF THEN after + 1
                ELSE IF after > Len(b) THEN after ELSE 0
    IN IF size = -1 \/ after - 1 > Len(b) THEN [data |-> <<>>, next |-> 0]
       ELSE IF size = 0 THEN [data |-> <<>>, next |-> -1]
       ELSE [data |-> SubSeq(b, pos, after - 1), next |-> next]

\* The decoded bytes, or "error".  A body that ends after a chunk is taken.
Decode_chunked_body(b) ==
    LET decode[p \in 1 .. Len(b) + 3] ==
          IF p > Len(b) THEN [ok |-> p > 1, out |-> <<>>]
          ELSE LET c == ChunkAt(b, p)
               IN IF c.next <= 0 THEN [ok |-> c.next = -1, out |-> <<>>]
                  ELSE [ok |-> decode[c.next].ok, out |-> c.data \o decode[c.next].out]
    IN decode[1]

Received == SubSeq(wb.body, 1, wb.n)

ChunkData == UNION {[1 .. l -> WbBytes] : l \in 1 .. WbLen}

WbStarts ==
    {[body |-> Encoded(chunks), content |-> FlattenSeq(chunks), n |-> 0] :
        chunks \in UNION {[1 .. k -> ChunkData] : k \in 0 .. WbChunks}}
WbInit == wb \in WbStarts

\* The read loop takes the next bytes until the response is complete.
WbRead ==
    /\ ~Chunked_body_complete(Received) /\ wb.n < Len(wb.body)
    /\ wb' = [wb EXCEPT !.n = @ + 1]

WbNext == WbRead

\* The client stops reading with the last byte of the body, not before it and
\* not only when the server closes, whatever the content looks like; and the
\* content is what is then decoded.
ReadsTheBody ==
    /\ Chunked_body_complete(Received) <=> wb.n = Len(wb.body)
    /\ wb.n = Len(wb.body) => Decode_chunked_body(Received) = [ok |-> TRUE, out |-> wb.content]
=============================================================================
