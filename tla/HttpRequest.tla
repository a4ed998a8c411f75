---------------------------- MODULE HttpRequest ----------------------------
(***************************************************************************)
(* http_request.cpp: the line by line state machine that turns the raw     *)
(* text of one request, as extractOneRequest() cuts it, into a method, a   *)
(* path, a body and the wish to keep the connection.  headers_ is left     *)
(* out: only getHeader() reads it, which the server does not call.         *)
(***************************************************************************)
EXTENDS HttpText

Methods == {"GET", "POST", "PUT", "DELETE"}

\* One layer of percent-encoding, '+' included, comes off.
UrlDecode(t) == Text(t.text, IF t.layers = 0 THEN 0 ELSE t.layers - 1)

\* HttpRequest::HttpRequest(); "failed" stands for return false.
Unparsed ==
  [state |-> "REQUEST_LINE", method |-> "BAD_METHOD", path |-> Text("", 0),
   keepAlive |-> FALSE, body |-> <<>>]

Reject(r) == [r EXCEPT !.state = "failed"]

ParseRequestLine(r, line) ==
  IF line.is = "request" /\ line.method \in Methods
  THEN [r EXCEPT !.state = "HEADERS",
                 !.method = line.method,
                 !.path = UrlDecode(line.path),
                 !.keepAlive = line.version = "1.1"]
  ELSE Reject(r)

\* The header Connection, in any case, has the last word on keep-alive.
\* Mutant: a header that names neither value resets it.
MutantWishes(r, line) == ToLower(line.key) = "connection" /\ ToLower(line.value) # "close"
Wishes(r, line) ==
  IF ToLower(line.key) # "connection" THEN r.keepAlive
  ELSE CASE ToLower(line.value) = "close" -> FALSE
         [] ToLower(line.value) = "keep-alive" -> TRUE
         [] OTHER -> r.keepAlive

ParseHeader(r, line) ==
  IF line.is = "header" THEN [r EXCEPT !.keepAlive = Wishes(r, line)] ELSE Reject(r)

\* The empty line ends the request of a GET, and its body is never looked
\* at; whatever follows it is the body of the others.
ParseBody(r, rest) ==
  IF r.method = "GET" THEN [r EXCEPT !.state = "FINISH"]
  ELSE [r EXCEPT !.state = "BODY", !.body = rest]

ParseLine(r, data, i) ==
  CASE r.state = "REQUEST_LINE" -> ParseRequestLine(r, data[i])
    [] r.state = "HEADERS" ->
         IF data[i] = Blank THEN ParseBody(r, SubSeq(data, i + 1, Len(data)))
         ELSE ParseHeader(r, data[i])
    [] OTHER -> r      \* parse() has returned

\* parsed[i] is what the first i lines have made of it.
Parse(data) ==
  LET parsed[i \in 0..Len(data)] ==
        IF i = 0 THEN Unparsed ELSE ParseLine(parsed[i - 1], data, i)
  IN parsed[Len(data)]

ParseOk(r) == r.state \in {"FINISH", "BODY"}
=============================================================================
