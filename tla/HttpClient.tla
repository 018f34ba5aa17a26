------------------------------ MODULE HttpClient ------------------------------
(***************************************************************************)
(* impl_execute of src/http_client.c with src/http_transport.c and         *)
(* HttpResponseParser_parse_with_options of src/http_response_parser.c:    *)
(* one call of a blocking client, its redirects and its cookie jar.        *)
(*                                                                         *)
(* The server is any peer: on each connection it means to send one of      *)
(* Answers, a sequence of lines and body bytes, and it may close the       *)
(* connection after any of them.  A line is a token, "end" the empty one.  *)
(***************************************************************************)
EXTENDS Integers, SequencesExt

CONSTANTS
    Calls,          \* requests of the program: [method, body, expect]
    Answers,        \* what a peer may mean: [lines, status, body, framing, method]
    Cookie,         \* a Set-Cookie token -> [name, value, domain]
    Host,           \* a Location token -> host, or Same
    Same,           \* the location has no host
    FirstHost,
    MaxRedirects,   \* options.max_redirects
    MaxInfo,        \* HTTP_MAX_INFORMATIONAL
    MaxHeaders,     \* HTTP_MAX_HEADER_COUNT
    MaxBody,        \* HTTP_MAX_BODY
    MaxCalls        \* bound: calls of the program

VARIABLES
    pc, req, host, redirects,
    answer,         \* what the peer means to send on this connection
    coming,         \* lines and bytes it has not sent
    inbox, eof,
    info,           \* interim responses so far
    skipped,        \* header lines of the block that is skipped
    res,            \* the response that is parsed
    uploads,        \* history: bodies sent on this connection
    jar,            \* cookie_jar
    latest,         \* history: the last cookie received for each identity
    offered,        \* the Cookie header of this connection
    returned,       \* what execute returned: [res, whole, alive] or Null
    calls

clientVars == <<pc, req, host, redirects, answer, coming, inbox, eof, info, skipped, res,
                uploads, jar, latest, offered, returned, calls>>
wireVars == <<answer, coming, eof>>
callVars == <<req, host, redirects, calls, offered>>

Null == [alive |-> FALSE]

Blank == [status |-> 0, lengths |-> <<>>, encoded |-> FALSE, chunked |-> FALSE,
          cookies |-> <<>>, location |-> "none", headers |-> 0, body |-> <<>>, left |-> 0]

NoCall == [method |-> "GET", body |-> FALSE, expect |-> FALSE]
NoAnswer == [lines |-> <<>>, status |-> 0, body |-> <<>>, framing |-> "length", method |-> "GET"]

ClientInit ==
    /\ pc = "idle" /\ req = NoCall /\ host = FirstHost /\ redirects = 0
    /\ answer = NoAnswer /\ coming = <<>> /\ inbox = <<>> /\ eof = FALSE
    /\ info = 0 /\ skipped = 0 /\ res = Blank /\ uploads = 0
    /\ jar = <<>> /\ latest = {} /\ offered = <<>> /\ returned = Null /\ calls = 0

-----------------------------------------------------------------------------
\* strcmp on the name and the domains (the path is the same for all cookies)
Identity(c) == <<c.name, c.domain>>

AppendOnly(cookies, c) == Append(cookies, c)

update_cookie_jar(cookies, c) ==
    LET i == SelectInSeq(cookies, LAMBDA d : Identity(d) = Identity(c))
    IN  Append(IF i = 0 THEN cookies ELSE RemoveAt(cookies, i), c)

\* execute returns NULL
Fail ==
    /\ pc' = "idle"
    /\ returned' = Null
    /\ UNCHANGED <<callVars, wireVars, inbox, info, skipped, res, uploads, jar, latest>>

execute(r) ==
    /\ pc = "idle" /\ calls < MaxCalls
    /\ calls' = calls + 1
    /\ pc' = "connect"
    /\ req' = r
    /\ host' = FirstHost
    /\ redirects' = 0
    /\ returned' = Null
    /\ UNCHANGED <<wireVars, inbox, info, skipped, res, uploads, jar, latest, offered>>

\* A peer that was asked to expect the body and needs it sends 100 first
Fits(a) == a.method = req.method /\ (req.expect <=> Head(a.lines) = "100")

HttpTransport_connect ==
    /\ pc = "connect"
    /\ \/ Fail
       \/ \E a \in Answers :
            /\ Fits(a)
            /\ answer' = a
            /\ coming' = a.lines
            /\ inbox' = <<>> /\ eof' = FALSE
            /\ info' = 0 /\ skipped' = 0 /\ res' = Blank /\ uploads' = 0
            /\ pc' = "head"
            /\ UNCHANGED <<callVars, jar, latest, returned>>

\* a cookie without a domain goes to every host
cookie_matches(c) == c.domain \in {"none", host}

\* HttpTransport_send of the head; the write fails when the peer is gone
send_head ==
    /\ pc = "head"
    /\ \/ eof /\ Fail
       \/ /\ pc' = IF req.expect THEN "expect" ELSE IF req.body THEN "body" ELSE "status"
          /\ offered' = SelectSeq(jar, cookie_matches)
          /\ UNCHANGED <<req, host, redirects, calls, wireVars, inbox, info, skipped, res, uploads, jar,
                         latest, returned>>

\* MultipartWriter_stream_send or HttpTransport_send of the body
send_body ==
    /\ pc = "body"
    /\ \/ eof /\ Fail
       \/ /\ uploads' = uploads + 1
          /\ pc' = IF req.expect THEN "expect" ELSE "status"
          /\ UNCHANGED <<callVars, wireVars, inbox, info, skipped, res, jar, latest, returned>>

-----------------------------------------------------------------------------
\* the end of the stream is taken for a read that would block
WaitsOn(p) == pc = p /\ inbox # <<>>

\* HttpTransport_recv_line and _getc wait for a token, or fail at the end of the stream
Waits(p) == pc = p /\ (inbox # <<>> \/ eof)
Ended == inbox = <<>>
Took == inbox' = Tail(inbox)
line == IF Ended THEN "nothing" ELSE Head(inbox)

Interim == {"100", "103"}
Final == {"200", "204", "302"}

\* the status line: in the loop of Expect: 100-continue and in the parser
StatusLine(p, skip) ==
    /\ Waits(p)
    /\ \/ line \notin Interim \cup Final /\ Fail
       \/ /\ line \in Interim
          /\ IF info = MaxInfo THEN Fail
             ELSE /\ Took
                  /\ info' = info + 1
                  /\ skipped' = 0
                  /\ res' = [res EXCEPT !.status = IF line = "100" THEN 100 ELSE 103]
                  /\ pc' = skip
                  /\ UNCHANGED <<callVars, wireVars, uploads, jar, latest, returned>>
       \/ /\ line \in Final
          /\ Took
          /\ res' = [Blank EXCEPT !.status = CASE line = "200" -> 200 [] line = "204" -> 204
                                              [] OTHER -> 302]
          /\ pc' = "headers"
          /\ UNCHANGED <<callVars, wireVars, info, skipped, uploads, jar, latest, returned>>

expect_status == StatusLine("expect", "expect_skip")
parse_status == StatusLine("status", "interim_skip")

\* the header lines of an interim response; next(p) says what follows them
SkipLine(p, next) ==
    /\ Waits(p)
    /\ IF Ended \/ (line # "end" /\ skipped = MaxHeaders) THEN Fail
       ELSE /\ Took
            /\ skipped' = IF line = "end" THEN 0 ELSE skipped + 1
            /\ pc' = IF line = "end" THEN next ELSE p
            /\ UNCHANGED <<callVars, wireVars, info, res, uploads, jar, latest, returned>>

\* the body goes out at the first 100
AfterInterim == IF res.status = 100 /\ uploads = 0 THEN "body" ELSE "expect"

recv_expect_header_block == SkipLine("expect_skip", AfterInterim)
skip_interim == SkipLine("interim_skip", "status")

-----------------------------------------------------------------------------
\* parse_content_length of the header line
ContentLength == [len \in {"len:0", "len:1", "len:2", "len:big"} |->
    CASE len = "len:0" -> 0 [] len = "len:1" -> 1 [] len = "len:2" -> 2 [] OTHER -> MaxBody + 1]

Noted(r, l) ==
    CASE l \in DOMAIN ContentLength -> [r EXCEPT !.lengths = Append(@, ContentLength[l])]
      [] l = "chunked" -> [r EXCEPT !.encoded = TRUE, !.chunked = TRUE]
      [] l \in DOMAIN Cookie -> [r EXCEPT !.cookies = Append(@, Cookie[l])]
      [] l \in DOMAIN Host -> [r EXCEPT !.location = l]
      [] OTHER -> r

has_body(r) == req.method # "HEAD" /\ r.status # 204

\* Content-Length with Transfer-Encoding, two that differ, or one too large
Framed(r) ==
    LET n == Len(r.lengths)
    IN  /\ ~(n > 0 /\ r.encoded)
        /\ \A i \in 1 .. n : r.lengths[i] = r.lengths[1] /\ r.lengths[i] <= MaxBody

\* the last header line: how the body will be read
Planned(r) ==
    IF ~has_body(r) THEN "finish"
    ELSE IF r.chunked THEN "size"
    ELSE IF r.lengths = <<>> THEN "to_eof"
    ELSE IF r.lengths[1] = 0 THEN "finish" ELSE "length"

parse_headers ==
    /\ Waits("headers")
    /\ IF Ended \/ (line # "end" /\ res.headers = MaxHeaders) \/ line = "len:bad" THEN Fail
       ELSE IF line # "end"
       THEN /\ Took
            /\ res' = [Noted(res, line) EXCEPT !.headers = @ + 1]
            /\ UNCHANGED <<pc, callVars, wireVars, info, skipped, uploads, jar, latest, returned>>
       ELSE IF has_body(res) /\ ~Framed(res) THEN Fail
       ELSE /\ Took
            /\ pc' = Planned(res)
            /\ res' = [res EXCEPT !.left = IF Planned(res) = "length" THEN res.lengths[1] ELSE 0]
            /\ UNCHANGED <<callVars, wireVars, info, skipped, uploads, jar, latest, returned>>

TakesByte(next) ==
    /\ Took
    /\ res' = [res EXCEPT !.body = Append(@, line), !.left = @ - 1]
    /\ pc' = IF res.left = 1 THEN next ELSE pc
    /\ UNCHANGED <<callVars, wireVars, info, skipped, uploads, jar, latest, returned>>

read_length == Waits("length") /\ IF Ended THEN Fail ELSE TakesByte("finish")

read_chunk == Waits("data") /\ IF Ended THEN Fail ELSE TakesByte("crlf")

ChunkSize == [l \in {"size:0", "size:1", "size:2"} |->
    CASE l = "size:0" -> 0 [] l = "size:1" -> 1 [] OTHER -> 2]

\* parse_chunk_size, and the cap on all chunks together
chunk_size ==
    /\ Waits("size")
    /\ IF Ended \/ line \notin DOMAIN ChunkSize THEN Fail
       ELSE IF ChunkSize[line] > MaxBody - Len(res.body) THEN Fail
       ELSE /\ Took
            /\ res' = [res EXCEPT !.left = ChunkSize[line]]
            /\ skipped' = 0
            /\ pc' = IF ChunkSize[line] = 0 THEN "trailer" ELSE "data"
            /\ UNCHANGED <<callVars, wireVars, info, uploads, jar, latest, returned>>

chunk_crlf ==
    /\ Waits("crlf")
    /\ IF Ended \/ line # "crlf" THEN Fail
       ELSE /\ Took
            /\ pc' = "size"
            /\ UNCHANGED <<callVars, wireVars, info, skipped, res, uploads, jar, latest, returned>>

skip_trailer == SkipLine("trailer", "finish")

\* a body without a length ends with the connection
read_to_eof ==
    /\ Waits("to_eof")
    /\ IF Ended
       THEN pc' = "finish" /\ UNCHANGED <<callVars, wireVars, inbox, info, skipped, res, uploads, jar,
                                          latest, returned>>
       ELSE IF Len(res.body) >= MaxBody THEN Fail
       ELSE TakesByte("to_eof")

-----------------------------------------------------------------------------
Redirects(r) == r.status = 302 /\ r.location # "none"

\* the cookies go to the jar; then follow the redirect or return
Finish ==
    /\ pc = "finish"
    /\ jar' = FoldLeft(update_cookie_jar, jar, res.cookies)
    /\ latest' = FoldLeft(LAMBDA S, c : {d \in S : Identity(d) # Identity(c)} \cup {c},
                          latest, res.cookies)
    /\ IF Redirects(res)
       THEN /\ redirects' = redirects + 1
            /\ host' = IF Host[res.location] = Same THEN host ELSE Host[res.location]
            \* res is released; the loop ends with it when the redirects are used up
            /\ IF redirects + 1 <= MaxRedirects
               THEN pc' = "connect" /\ UNCHANGED returned
               ELSE pc' = "idle" /\ returned' = [alive |-> FALSE, res |-> res]
       ELSE /\ pc' = "idle"
            /\ returned' = [alive |-> TRUE, res |-> res]
            /\ UNCHANGED <<host, redirects>>
    /\ UNCHANGED <<req, calls, offered, wireVars, inbox, info, skipped, res, uploads>>

\* The peer sends, and closes at the end of its answer or before.  It waits for the
\* body it asked for.
Talking == pc \notin {"idle", "connect", "finish"} /\ ~eof
Owes == req.body /\ uploads = 0 /\ (coming # <<>> /\ Head(coming) \in Final)

PeerSends ==
    /\ Talking /\ coming # <<>> /\ ~Owes
    /\ inbox' = Append(inbox, Head(coming))
    /\ coming' = Tail(coming)
    /\ UNCHANGED <<pc, callVars, answer, eof, info, skipped, res, uploads, jar, latest, returned>>

PeerCloses ==
    /\ Talking
    /\ eof' = TRUE
    /\ UNCHANGED <<pc, callVars, answer, coming, inbox, info, skipped, res, uploads, jar, latest, returned>>

Reading ==
    \/ expect_status \/ recv_expect_header_block \/ parse_status \/ skip_interim \/ parse_headers
    \/ read_length \/ chunk_size \/ read_chunk \/ chunk_crlf \/ skip_trailer \/ read_to_eof

Client == HttpTransport_connect \/ send_head \/ send_body \/ Reading \/ Finish

ClientNext == (\E r \in Calls : execute(r)) \/ Client \/ PeerSends \/ PeerCloses

-----------------------------------------------------------------------------
\* A response that execute returns has the status and the body its peer meant, however
\* the body was framed and whatever interim responses came before; a connection that
\* breaks off gives no response, unless its end is the only mark of the end of the body.
ReturnedIsWhole ==
    returned.alive =>
        /\ returned.res.status = answer.status
        /\ IF answer.framing = "eof" THEN IsPrefix(returned.res.body, answer.body)
           ELSE returned.res.body = answer.body

\* A body is sent once on each connection, and with Expect: 100-continue only when the
\* peer has sent 100, not another interim response.
BodyWaitsForContinue ==
    /\ uploads <= 1
    /\ req.expect /\ pc = "body" => res.status = 100

\* The jar holds one cookie for each name and domain, and it is the last one received,
\* over all redirects and calls; a request offers exactly those that match its host.
JarIsLatest ==
    /\ Range(jar) = latest /\ IsInjective(jar)
    /\ pc \notin {"idle", "connect", "head"} =>
           Range(offered) = {c \in latest : c.domain \in {"none", host}}

\* What a call sends and returns is right over interim responses, redirects and calls.
AnswersRight == ReturnedIsWhole /\ BodyWaitsForContinue /\ JarIsLatest

\* A call returns, whichever peer it talks to: one that sends all it means to and closes,
\* or closes before.
CallReturns == pc # "idle" ~> pc = "idle"

\* execute returns a response its caller owns.
ReturnedIsOwned == pc = "idle" /\ "res" \in DOMAIN returned => returned.alive
==============================================================================
