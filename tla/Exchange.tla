------------------------------ MODULE Exchange ------------------------------
(***************************************************************************)
(* What a client of one connection sees of processConnectionTask(): each   *)
(* request cut from the stream is parsed, routed or looked up, answered    *)
(* and written, and the connection goes on or is closed.                   *)
(***************************************************************************)
EXTENDS Connection, RequestRouter

CONSTANT HeadUnits    \* units of a response head

Reserved ==
  {"", "/", "/register", "/login", "Bad Request", "forbidden", "welcome",
   "not found", "method not allowed", "username and password required",
   "registered", "username already exists", "login ok", "invalid credentials"}

\* The texts of Page() are no names of files, nor are the paths that the
\* server answers without a file; none of them has ".." in it.  The extension
\* is a part of the name.
ASSUME ExchangeAssumption ==
  /\ HeadUnits \in Nat \ {0} /\ HeadUnits < MaxHead
  /\ Dotted \cap ({"/index.html"} \cup Reserved) = {}
  /\ \A name \in DOMAIN Files :
       /\ Files[name].kind \in {"regular", "directory"}
       /\ Files[name].size \in 0..MaxFile
       /\ name \notin Reserved
       /\ name = "/index.html" => Files[name].ext = "html"

VARIABLE replies      \* what the heads of the responses say, and their bodies

exchangeVars == <<vars, replies>>

ExchangeInit == Init /\ replies = <<>>

\* The answer to a parsed request; ok is the answer of the user service,
\* works says whether a file that is there could be mapped.
Reply(r, ok, works) ==
  IF ~ParseOk(r) THEN Page(400, "text/plain", "Bad Request")
  ELSE IF Handles(r) THEN Route(r, ok)
  ELSE Prepare(r.path, works)

\* What registerUser() or loginUser() is called with.
Asked(r) ==
  IF ParseOk(r) /\ Handles(r) /\ Asks(r) THEN <<Username(r), Password(r)>> ELSE <<>>

KeepAlive(r) == ParseOk(r) /\ r.keepAlive

\* processConnectionTask() from parse() to setCloseAfterWrite().
Respond(ok, works) ==
  LET request == Parse(Last(extracted))
      reply == Reply(request, ok, works)
      close == ~KeepAlive(request)
  IN
  /\ phase = "respond"
  /\ IF reply.file = NoFile
     THEN AppendWriteData(HeadUnits + reply.text, close)
     ELSE SetMappedWriteData(HeadUnits, reply.file, close)
  /\ replies' =
       Append(replies, [head |-> BuildHeader(reply, ~close), body |-> reply.body,
                        asked |-> Asked(request), ok |-> ok, works |-> works])

ExchangeNext ==
  \/ (Transfer \/ Over) /\ UNCHANGED replies
  \/ \E ok, works \in BOOLEAN : Respond(ok, works)

ExchangeSpec == ExchangeInit /\ [][ExchangeNext]_exchangeVars
-----------------------------------------------------------------------------
(* What the client asked for, told from its own request *)

Method(k) == requests[k].line.method
Path(k) == requests[k].line.path
Names(k, path) == Path(k).text = path /\ Path(k).layers <= 1
Wants(k, name) ==
  Names(k, name) \/ (name = "/index.html" /\ Names(k, "/"))

\* A request line with a known method, and header lines, up to the body.
WellFormed(k) ==
  /\ requests[k].line.is = "request" /\ Method(k) \in Methods
  /\ \A i \in 1..Len(requests[k].headers) : requests[k].headers[i].is = "header"

\* The first value of a key in the body, decoded once.
Given(k, key) ==
  LET i == SelectInSeq(requests[k].body, LAMBDA t : t.is = "pair" /\ t.key = key) IN
  IF i = 0 THEN Text("", 0) ELSE UrlDecode(requests[k].body[i].value)

\* A request that the user service is due to be asked for: a POST to one of
\* its two paths that has both values.
Posts(k) ==
  /\ WellFormed(k) /\ Method(k) = "POST"
  /\ Names(k, "/register") \/ Names(k, "/login")
Gives(k) == Given(k, "username").text # "" /\ Given(k, "password").text # ""
Due(k) == Posts(k) /\ Gives(k)

\* Where the last word on the connection is in the headers.
Said(k) ==
  SelectLastInSeq(requests[k].headers, LAMBDA h :
    ToLower(h.key) = "connection" /\ ToLower(h.value) \in {"close", "keep-alive"})

Status(k) == replies[k].head.status
Shows(k, page) == replies[k].body = Text(page, 0)

\* Each request gets its own answer, whatever stood before it in the stream
\* and whatever its body looks like: 400 if it is malformed, or a POST to the
\* user service without both values; 403 if there is ".." in its path once it
\* is decoded; under 200 the file that it names, whether by its name or as the
\* root, and a file for nothing else; and 404 only if it names no such file.
Serves(k, name) ==
  Wants(k, name) /\ Files[name].kind = "regular" /\ name \notin Dotted

RepliesRight ==
  \A k \in 1..Len(replies) :
    /\ Status(k) = 400 <=> ~WellFormed(k) \/ (Posts(k) /\ ~Gives(k))
    /\ Status(k) = 403 <=> WellFormed(k) /\ \E text \in Dotted : Names(k, text)
    /\ WellFormed(k) /\ replies[k].works =>
         \A name \in DOMAIN Files : Shows(k, name) <=> Serves(k, name)
    /\ \A name \in DOMAIN Files : Shows(k, name) => Status(k) = 200
    /\ Status(k) = 404 =>
         \A name \in DOMAIN Files : ~(Serves(k, name) /\ replies[k].works)

\* The user service is asked for every POST to its two paths that has a user
\* name and a password, with the first of each, decoded once, and for nothing
\* else; and the client is told what it has answered, as no other client is.
Verdict(k) ==
  IF Names(k, "/register") THEN IF replies[k].ok THEN 201 ELSE 409
  ELSE IF replies[k].ok THEN 200 ELSE 401

ServiceAsked ==
  \A k \in 1..Len(replies) :
    /\ replies[k].asked =
         IF Due(k) THEN <<Given(k, "username"), Given(k, "password")>> ELSE <<>>
    /\ Due(k) => Status(k) = Verdict(k)
    /\ Due(k) <=> Status(k) \in {201, 401, 409} \/ Shows(k, "login ok")

\* A client that trusts Content-Length finds each response where the one
\* before it ends.
StartOf[k \in Nat] ==
  IF k <= 1 THEN 1 ELSE StartOf[k - 1] + HeadUnits + replies[k - 1].head.declares

Delimited ==
  \A k \in 1..Len(replies) :
    StartOf[k] <= Len(wire) => wire[StartOf[k]] = [resp |-> k, part |-> "head", at |-> 1]

\* A response says that the connection stays open if the last word of the
\* request was keep-alive, and the connection ends after the first that
\* does not say so, and after no other.
CloseAnnounced ==
  \A k \in 1..Len(replies) :
    LET stays == IF Said(k) = 0 THEN requests[k].line.version = "1.1"
                 ELSE ToLower(requests[k].headers[Said(k)].value) = "keep-alive"
    IN
    /\ replies[k].head.keepAlive <=> WellFormed(k) /\ stays
    /\ ~replies[k].head.keepAlive <=>
         k = Len(replies) /\ (phase = "closed" \/ closeAfterWrite)

\* prepare() maps the file and says of it what build() says of its copy, but
\* for a directory, which only prepare() tells from a file.
PreparedAsBuilt ==
  \A k \in 1..Len(replies) :
    LET path == UrlDecode(Path(k))
        built == Build(path)
    IN
    (/\ WellFormed(k) /\ replies[k].head.type # Json /\ replies[k].works
     /\ FileAt(path).kind # "directory") =>
      /\ replies[k].head = BuildHeader(built, replies[k].head.keepAlive)
      /\ replies[k].body = built.body
=============================================================================
