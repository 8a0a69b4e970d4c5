----------------------------- MODULE HttpServer -----------------------------
(***************************************************************************)
(* The HTTP server of bench/http on one connection: HttpServer::onMessage  *)
(* runs HttpContext::parseRequest over the connection's input Buffer each  *)
(* time bytes arrive, and answers a request once its header is complete.   *)
(*                                                                         *)
(* The text is a sequence of symbols: "cr", "lf", the request lines        *)
(* "get11" and "get10" (HTTP/1.1 and 1.0), the header lines "close",       *)
(* "keepalive" (of the field Connection) and "other", and "junk", which is *)
(* no request line and has no colon.  TCP may cut it anywhere.  Requests   *)
(* with a known method and a broken rest are left out: parsed a second     *)
(* time they fail the assert of setMethod().                               *)
(***************************************************************************)
EXTENDS Buffer, SequencesExt

CONSTANT Streams        \* what a client may send in all

VARIABLES input,        \* the connection's _input_buffer
          context,      \* its HttpContext: state_ and what request_ keeps
          stream, sent, \* the client's bytes, and how many have arrived
          answers,      \* the responses that were sent
          open          \* the write side: shutdown() was not called

httpVars == <<input, context, stream, sent, answers, open>>

RequestLine == {"get11", "get10"}
Header == {"close", "keepalive", "other"}
Symbol == {"cr", "lf", "junk"} \cup RequestLine \cup Header

\* Nothing but the end of the line follows a request line on its line.
ASSUME StreamsAssumption ==
  \A s \in Streams :
    /\ s \in Seq(Symbol)
    /\ \A i \in 1..Len(s) : s[i] \in RequestLine =>
         /\ i < Len(s) => s[i + 1] = "cr"
         /\ i + 1 < Len(s) => s[i + 2] = "lf"

NewContext == [state |-> "kExpectRequestLine", version |-> "", connection |-> ""]

HttpInit ==
  /\ input = NewBuffer
  /\ context = NewContext
  /\ stream \in Streams
  /\ sent = 0
  /\ answers = <<>>
  /\ open = TRUE

\* Variant: a carriage return ends the line.
ends_line__cr(text, i) == text[i] = "cr"
ends_line(text, i) == text[i] = "cr" /\ i < Len(text) /\ text[i + 1] = "lf"

\* The length of the first line, or -1.
find_CRLF(text) ==
  LET ends == {i \in 1..Len(text) : ends_line(text, i)}
  IN IF ends = {} THEN -1 ELSE (CHOOSE i \in ends : \A j \in ends : i <= j) - 1

HasColon(line) == ToSet(line) \cap Header # {}

\* The field is what stands before the first colon, and the value is stripped
\* of white space; a later line of the same field replaces an earlier.
addHeader(c, line) ==
  IF line[1] \notin {"close", "keepalive"} THEN c
  ELSE [c EXCEPT !.connection =
          IF ToSet(Tail(line)) \subseteq {"cr", "lf"} THEN line[1] ELSE "unknown"]

processRequestLine(line) == Len(line) = 1 /\ line[1] \in RequestLine

\* The loop of parseRequest(): its local variables are ok and hasMore, and a
\* turn with a complete line takes one of the two branches.
first_line(b) == SubSeq(to_string(b), 1, find_CRLF(to_string(b)))
retrieve_line(b) == retrieve(b, find_CRLF(to_string(b)) + 2)

expectRequestLine(p, line) ==
  IF processRequestLine(line)
  THEN [p EXCEPT !.ctx = [@ EXCEPT !.state = "kExpectHeaders", !.version = line[1]],
                 !.buf = retrieve_line(@)]
  ELSE [p EXCEPT !.ok = FALSE, !.hasMore = FALSE]

expectHeaders(p, line) ==
  IF HasColon(line)
  THEN [p EXCEPT !.ctx = addHeader(@, line), !.buf = retrieve_line(@)]
  ELSE [p EXCEPT !.ctx = [@ EXCEPT !.state = "kGotAll"], !.buf = retrieve_line(@),
                 !.hasMore = FALSE]

\* In state kGotAll a turn does nothing, and the next one neither.
turn_of_loop(p) ==
  IF ~p.hasMore \/ p.ctx.state = "kGotAll" THEN p
  ELSE IF find_CRLF(to_string(p.buf)) = -1 THEN [p EXCEPT !.hasMore = FALSE]
  ELSE IF p.ctx.state = "kExpectRequestLine" THEN expectRequestLine(p, first_line(p.buf))
  ELSE expectHeaders(p, first_line(p.buf))

\* A turn that goes on takes a line out of the buffer, so that one more turn
\* than there are bytes is the last, unless the loop never ends.
parseRequest(c, b) ==
  LET run[k \in 0..readable_bytes(b) + 1] ==
        IF k = 0 THEN [ctx |-> c, buf |-> b, ok |-> TRUE, hasMore |-> TRUE]
        ELSE turn_of_loop(run[k - 1])
  IN run[readable_bytes(b) + 1]

reset(c) == NewContext

\* HttpServer::onRequest(); the user's callback leaves the response's
\* closeConnection as it is.
closes(c) == c.connection = "close" \/ (c.version = "get10" /\ c.connection # "keepalive")

Answer(c) == <<c.version, closes(c)>>

\* What parseRequest() makes of the buffer after n bytes more.
Parsed(n) == parseRequest(context, read_fd(input, SubSeq(stream, sent + 1, sent + n)))

\* Bytes arrive; TcpConnection::handle_read() and onMessage().  TcpConnection
\* sends nothing after shutdown().
onMessage(n) ==
  /\ n <= Len(stream) - sent /\ n <= ReadLimit(input)
  /\ sent' = sent + n
  /\ LET parsed == Parsed(n)
         got == parsed.ctx.state = "kGotAll"
         response == IF ~parsed.ok THEN <<"400">>
                     ELSE IF got THEN <<Answer(parsed.ctx)>> ELSE <<>>
     IN /\ input' = parsed.buf
        /\ context' = IF got THEN reset(parsed.ctx) ELSE parsed.ctx
        /\ answers' = IF open THEN answers \o response ELSE answers
        /\ open' = (open /\ parsed.ok /\ ~(got /\ closes(parsed.ctx)))
  /\ UNCHANGED stream

HttpNext == \E n \in 1..Len(stream) : onMessage(n)

HttpSpec == HttpInit /\ [][HttpNext]_httpVars

(***************************************************************************)
(* The reference: the text is read once, symbol by symbol, and each line   *)
(* is obeyed as it ends.                                                   *)
(***************************************************************************)
Start(c, out, isOpen) == [line |-> <<>>, ctx |-> c, out |-> out, open |-> isOpen]

Obey(acc, line) ==
  LET c == acc.ctx IN
  IF ~acc.open THEN Start(c, acc.out, FALSE)
  ELSE IF c.state = "kExpectRequestLine" THEN
    IF processRequestLine(line)
    THEN Start([c EXCEPT !.state = "kExpectHeaders", !.version = line[1]], acc.out, TRUE)
    ELSE Start(c, Append(acc.out, "400"), FALSE)
  ELSE IF HasColon(line) THEN Start(addHeader(c, line), acc.out, TRUE)
  ELSE Start(NewContext, Append(acc.out, Answer(c)), ~closes(c))

Serve(acc, symbol) ==
  IF symbol = "lf" /\ acc.line # <<>> /\ Last(acc.line) = "cr" THEN Obey(acc, Front(acc.line))
  ELSE [acc EXCEPT !.line = Append(@, symbol)]

Served(acc, text) ==
  LET run[k \in 0..Len(text)] == IF k = 0 THEN acc ELSE Serve(run[k - 1], text[k])
  IN run[Len(text)]

Wanted(c, text, isOpen) == Served(Start(c, <<>>, isOpen), text).out

\* The loop of parseRequest() ends, whatever arrives next: it has no branch for
\* kGotAll, in which the parser would spin and its loop thread with it.
ParserReturns ==
  \A n \in 0..Len(stream) - sent : n <= ReadLimit(input) => ~Parsed(n).hasMore

\* However the text is cut, the answers sent and those that the input buffer
\* and the parser's state still call for are together the answers to the text
\* that arrived: no request is lost, split or answered twice; and the parser
\* comes back from whatever arrives next.  (At most one request is answered per
\* message: the next one waits in the buffer for more bytes.)
RequestsConserved ==
  /\ answers \o Wanted(context, to_string(input), open)
       = Wanted(NewContext, SubSeq(stream, 1, sent), TRUE)
  /\ ParserReturns
=============================================================================
