-------------------------- MODULE HttpRequestReader --------------------------
(***************************************************************************)
(* HttpConnection_on_readable of src/http_server.c: the bytes of one       *)
(* connection, cut into reads at any place, become requests, and after an  *)
(* upgrade WebSocket frames (src/ws_protocol.c).                           *)
(*                                                                         *)
(* A byte string is a sequence of tokens: a request line, a header line,   *)
(* the empty line "end", a byte of a body; the two header bytes of a frame *)
(* are an opcode and a length.  A token counts as one byte of a buffer.    *)
(***************************************************************************)
EXTENDS Integers, SequencesExt

CONSTANTS
    Requests,     \* what the peer may send one after another
    MaxRequests,  \* bound: requests of one connection
    HeaderMax,    \* sizeof header_buf
    RecvMax,      \* sizeof buf - 1
    WsMax         \* MAX_WS_PAYLOAD_SIZE + 4096

VARIABLES
    sent,         \* history: all that the peer sends, request by request
    polite,       \* the peer waits for the answer before it sends the next request
    wire,         \* bytes not sent yet
    inbox,        \* bytes in the socket
    header_buf, ws_in_buf,
    reading,      \* conn->state with conn->req: [state, head, body]
    mode,         \* "HTTP", "WS"
    closed,       \* the connection was shut down
    answer,       \* the error answer that went before, or 0
    handled       \* history: requests dispatched and frames passed on

readVars == <<sent, polite, wire, inbox, header_buf, ws_in_buf, reading, mode, closed,
              answer, handled>>

NoRequest == [state |-> "READ_HEADER", head |-> <<>>, body |-> <<>>]

ReadInit ==
    /\ \E n \in 1 .. MaxRequests : sent \in [1 .. n -> Requests]
    /\ polite \in BOOLEAN
    /\ wire = FlattenSeq(sent)
    /\ inbox = <<>> /\ header_buf = <<>> /\ ws_in_buf = <<>> /\ handled = <<>>
    /\ reading = NoRequest
    /\ mode = "HTTP"
    /\ closed = FALSE
    /\ answer = 0

-----------------------------------------------------------------------------
Count(s, S) == Cardinality({i \in DOMAIN s : s[i] \in S})
Has(s, x) == x \in Range(s)

Lengths == {"length:0", "length:1", "length:2", "length:bad", "length:big"}

\* the request line: 400 or 414
request_line(head) ==
    CASE head = <<>> \/ Head(head) \in {"line:bad", "line:query"} -> 400
      [] Head(head) = "line:long" -> 414
      [] OTHER -> 0

\* a name that is no token, a second Content-Length, Transfer-Encoding
HttpConnection_parse_headers(head) ==
    IF Has(head, "name:bad") \/ Has(head, "encoding") \/ Count(head, Lengths) > 1 THEN 400 ELSE 0

parse_content_length_strict(head) ==
    CASE Has(head, "length:bad") -> 400
      [] Has(head, "length:big") -> 413
      [] OTHER -> 0

\* conn->req->body_len
body_len(head) ==
    CASE Has(head, "length:1") -> 1 [] Has(head, "length:2") -> 2 [] OTHER -> 0

head_error(head) ==
    IF request_line(head) # 0 THEN request_line(head)
    ELSE IF HttpConnection_parse_headers(head) # 0 THEN 400
    ELSE parse_content_length_strict(head)

\* WsUpgrade_handler and the router answer 101
upgrades(head) == Head(head) = "GET" /\ Has(head, "upgrade")

\* ws_decode_frame3: the number of bytes of the first frame, 0 when more are needed, -1
ws_decode_frame3(buf) ==
    IF Len(buf) < 2 THEN 0
    ELSE IF buf[1] = "continuation" \/ (buf[1] = "close" /\ buf[2] = "1") THEN -1
    ELSE LET total == 2 + (CASE buf[2] = "1" -> 1 [] buf[2] = "2" -> 2 [] OTHER -> 0)
         IN  IF Len(buf) < total THEN 0 ELSE total

Fin(c, s) == [at |-> c, rest |-> s, done |-> <<>>]

\* HttpConnection_process_ws_frames: what is left of buf, the messages passed on, and
\* whether a CLOSE frame goes out
RECURSIVE process_ws_frames(_)
process_ws_frames(buf) ==
    LET n == ws_decode_frame3(buf)
        rest == SubSeq(buf, n + 1, Len(buf))
    IN  IF n = 0 THEN Fin("open", buf)
        ELSE IF n = -1 THEN Fin("closing", buf)
        ELSE IF buf[1] = "close" THEN Fin("closing", rest)
        ELSE LET r == process_ws_frames(rest)
             IN  IF buf[1] = "ping" THEN r
                 ELSE [r EXCEPT !.done = <<SubSeq(buf, 1, n)>> \o @]

-----------------------------------------------------------------------------
\* n bytes arrive; a polite peer sends the next request after the answer
PeerSends(n) ==
    /\ ~closed /\ n \in 1 .. Len(wire)
    /\ LET due == Min({Len(handled) + 1, Len(sent)})
           gone == Len(FlattenSeq(sent)) - Len(wire)
       IN  polite /\ mode = "HTTP" => gone + n <= Len(FlattenSeq(SubSeq(sent, 1, due)))
    /\ inbox' = inbox \o SubSeq(wire, 1, n)
    /\ wire' = SubSeq(wire, n + 1, Len(wire))
    /\ UNCHANGED <<sent, polite, header_buf, ws_in_buf, reading, mode, closed, answer, handled>>

Shut(code) ==
    /\ closed' = TRUE
    /\ answer' = code
    /\ UNCHANGED <<header_buf, ws_in_buf, reading, mode, handled>>

\* the request is complete: dispatch, then upgrade, close or keep alive
Dispatch(head, body, rest) ==
    /\ answer' = answer
    /\ IF upgrades(head)
       THEN LET r == process_ws_frames(rest)
            IN  /\ mode' = "WS"
                /\ header_buf' = <<>>
                /\ ws_in_buf' = r.rest
                /\ closed' = (r.at = "closing")
                /\ handled' = Append(handled, head \o <<"end">> \o body) \o r.done
       ELSE /\ handled' = Append(handled, head \o <<"end">> \o body)
            /\ header_buf' = rest
            /\ closed' = Has(head, "close")
            /\ UNCHANGED <<mode, ws_in_buf>>
    /\ reading' = NoRequest

\* the body bytes that came with the header
Begun(head, tail) ==
    LET n == Min({body_len(head), Len(tail)})
        body == SubSeq(tail, 1, n)
    IN  IF n < body_len(head)
        THEN /\ reading' = [state |-> "READ_BODY", head |-> head, body |-> body]
             /\ header_buf' = <<>>
             /\ UNCHANGED <<ws_in_buf, mode, closed, answer, handled>>
        ELSE Dispatch(head, body, SubSeq(tail, n + 1, Len(tail)))

\* HTTP_STATE_READ_HEADER: one recv
read_header ==
    /\ ~closed /\ mode = "HTTP" /\ reading.state = "READ_HEADER" /\ inbox # <<>>
    /\ LET n == Min({RecvMax, Len(inbox)})
           buf == header_buf \o SubSeq(inbox, 1, n)
           end == Min({i \in DOMAIN buf : buf[i] = "end"} \cup {Len(buf) + 1})
           head == SubSeq(buf, 1, end - 1)
       IN  /\ inbox' = SubSeq(inbox, n + 1, Len(inbox))
           /\ IF Len(buf) >= HeaderMax THEN Shut(431)
              ELSE IF end > Len(buf)
              THEN /\ header_buf' = buf
                   /\ UNCHANGED <<ws_in_buf, reading, mode, closed, answer, handled>>
              ELSE IF head_error(head) # 0 THEN Shut(head_error(head))
              ELSE Begun(head, SubSeq(buf, end + 1, Len(buf)))
    /\ UNCHANGED <<sent, polite, wire>>

\* HTTP_STATE_READ_BODY reads no byte past the body
ReadBodyPast ==
    /\ ~closed /\ mode = "HTTP" /\ reading.state = "READ_BODY" /\ inbox # <<>>
    /\ LET missing == body_len(reading.head) - Len(reading.body)
           body == reading.body \o inbox
       IN  /\ inbox' = <<>>
           /\ IF Len(inbox) < missing
              THEN /\ reading' = [reading EXCEPT !.body = body]
                   /\ UNCHANGED <<header_buf, ws_in_buf, mode, closed, answer, handled>>
              ELSE Dispatch(reading.head, body, header_buf)
    /\ UNCHANGED <<sent, polite, wire>>

read_body ==
    /\ ~closed /\ mode = "HTTP" /\ reading.state = "READ_BODY" /\ inbox # <<>>
    /\ LET missing == body_len(reading.head) - Len(reading.body)
           n == Min({missing, Len(inbox)})
           body == reading.body \o SubSeq(inbox, 1, n)
       IN  /\ inbox' = SubSeq(inbox, n + 1, Len(inbox))
           /\ IF n < missing
              THEN /\ reading' = [reading EXCEPT !.body = body]
                   /\ UNCHANGED <<header_buf, ws_in_buf, mode, closed, answer, handled>>
              ELSE Dispatch(reading.head, body, header_buf)
    /\ UNCHANGED <<sent, polite, wire>>

\* CONN_MODE_WS: a recv into the free part of ws_in_buf, then its frames
read_frames ==
    /\ ~closed /\ mode = "WS" /\ inbox # <<>>
    /\ LET n == Min({WsMax - Len(ws_in_buf), Len(inbox)})
           r == process_ws_frames(ws_in_buf \o SubSeq(inbox, 1, n))
       IN  IF n = 0
           THEN inbox' = inbox /\ Shut(0)
           ELSE /\ inbox' = SubSeq(inbox, n + 1, Len(inbox))
                /\ ws_in_buf' = r.rest
                /\ closed' = (r.at = "closing")
                /\ handled' = handled \o r.done
                /\ UNCHANGED <<header_buf, reading, mode, answer>>
    /\ UNCHANGED <<sent, polite, wire>>

HttpConnection_on_readable == read_header \/ read_body \/ read_frames

ReadNext == (\E n \in 1 .. Len(wire) : PeerSends(n)) \/ HttpConnection_on_readable

-----------------------------------------------------------------------------
\* What the bytes s mean when they are read at once and without limits.
RECURSIVE Meaning(_)
Meaning(s) ==
    LET ends == {i \in DOMAIN s : s[i] = "end"}
        end == Min(ends)
        head == SubSeq(s, 1, end - 1)
        last == end + body_len(head)
        rest == SubSeq(s, last + 1, Len(s))
    IN  IF ends = {} THEN <<>>
        ELSE IF head_error(head) # 0 \/ last > Len(s) THEN <<>>
        ELSE <<SubSeq(s, 1, last)>>
             \o (IF upgrades(head) THEN process_ws_frames(rest).done
                 ELSE IF Has(head, "close") THEN <<>>
                 ELSE Meaning(rest))

\* Wherever the reads cut the bytes (in a header, in a body, between a request, the
\* frames after an upgrade, and in header_buf where the next request waits), what is
\* dispatched is what the bytes mean, in their order: no byte of a body is taken for a
\* request or the other way round.
SplitIndependent == IsPrefix(handled, Meaning(FlattenSeq(sent)))

\* A peer that waits for its answers is served in full: once all it sent is read, no
\* complete request or frame is left in a buffer, and only a header that does not leave
\* room for a whole read in header_buf is refused for its size.
PoliteIsServed ==
    /\ polite /\ wire = <<>> /\ inbox = <<>> /\ ~closed => handled = Meaning(FlattenSeq(sent))
    /\ polite /\ answer = 431 => Len(header_buf) >= HeaderMax - RecvMax

\* Every request is read as it was meant, and a waiting peer's in full.
RequestsWhole == SplitIndependent /\ PoliteIsServed
==============================================================================
