----------------------------- MODULE MCExchange -----------------------------
(* Instances of Exchange for TLC. *)
EXTENDS Exchange, TLC

WebRoot ==
  "/index.html" :> [kind |-> "regular", size |-> 2, ext |-> "html"]
    @@ "/a.png" :> [kind |-> "regular", size |-> 1, ext |-> "png"]
    @@ "/empty" :> [kind |-> "regular", size |-> 0, ext |-> "none"]
    @@ "/a..png" :> [kind |-> "regular", size |-> 1, ext |-> "png"]
    @@ "/sub" :> [kind |-> "directory", size |-> 0, ext |-> "none"]
WithDots == {"/../x", "/a..png"}

Request(line, headers, body) == [line |-> line, headers |-> headers, body |-> body]
Get(name, n) == RequestLine("GET", Text(name, n), "1.1")
Post(name, n) == RequestLine("POST", Text(name, n), "1.1")
Of(n) == <<Length("LENGTH", n)>>
User(name) == Pair("username", Text(name, 1))
Pass == Pair("password", Text("secret", 0))

\* Paths, encoded once, twice or not at all.
Pages ==
  {Request(Get("/", 0), <<>>, <<>>),
   Request(Get("/a.png", 1), <<Header("CONNECTION", "CLOSE")>>, <<>>),
   Request(RequestLine("PUT", Text("/empty", 0), "1.0"),
           <<Header("connection", "close"), Header("CONNECTION", "keep-alive")>>, <<>>),
   Request(Get("/sub", 0), <<Header("connection", "upgrade")>>, <<>>),
   Request(Get("/a.png", 2), <<>>, <<>>),
   Request(Get("/../x", 1), <<>>, <<>>),
   Request(Get("/a..png", 0), <<Header("accept", "content-length")>>, <<>>)}

\* Forms, and bodies that look like headers or like another request.
Forms ==
  {Request(Post("/register", 1), Of(3), <<User("ann"), Pass, User("bob")>>),
   Request(Post("/login", 0), Of(3), <<Blank, Pass, User("ann")>>),
   Request(Post("/login", 0), Of(2), <<User(""), Pass>>),
   Request(Post("/login", 2), Of(2), <<Post("/login", 0), Blank>>),
   Request(Get("/login", 0), Of(2), <<User("ann"), Pass>>)}

Broken ==
  {Request(Junk, <<>>, <<>>),
   Request(Get("/", 0), <<Junk>> \o Of(1), <<Blank>>),
   Request(RequestLine("BREW", Text("/", 0), "1.1"), Of(1), <<Length("content-length", 2)>>)}

\* Every one of them is well framed.
WholeRequests == {r \in Pages \cup Forms \cup Broken : WellFramed(r)}

\* Requests that declare no body, with "content-length:" in a longer name, in
\* a value, in the request line.
NamesAlike ==
  {Request(Get("/", 0), <<Length("x-content-length", 1)>>, <<>>),
   Request(Get("/", 0), <<Holding(Header("cookie", "content-length:"), 1)>>, <<>>),
   Request(Holding(Get("/?content-length:", 0), 1), <<>>, <<>>)}

=============================================================================
