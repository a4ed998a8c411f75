--------------------------- MODULE RequestRouter ---------------------------
(***************************************************************************)
(* request_router.cpp: the two paths that the user service answers.        *)
(***************************************************************************)
EXTENDS HttpRequest, HttpResponse

Json == "application/json"

Handles(r) == r.path \in {Text("/register", 0), Text("/login", 0)}

\* Where the first pair of that key is, or 0.
\* Mutant: the last one.
IsPair(t, key) == t.is = "pair" /\ t.key = key
MutantFind(body, key) == SelectLastInSeq(body, LAMBDA t : IsPair(t, key))
Find(body, key) == SelectInSeq(body, LAMBDA t : IsPair(t, key))

FormValue(body, key) ==
  LET i == Find(body, key) IN IF i = 0 THEN Text("", 0) ELSE UrlDecode(body[i].value)

Username(r) == FormValue(r.body, "username")
Password(r) == FormValue(r.body, "password")
HasBoth(r) == Username(r).text # "" /\ Password(r).text # ""

\* The user service is asked only for a POST with both values.
Asks(r) == r.method = "POST" /\ HasBoth(r)

\* ok is what registerUser() or loginUser() returns.
Route(r, ok) ==
  IF r.method # "POST" THEN Page(405, Json, "method not allowed")
  ELSE IF ~Asks(r) THEN Page(400, Json, "username and password required")
  ELSE IF r.path.text = "/register"
  THEN IF ok THEN Page(201, Json, "registered")
       ELSE Page(409, Json, "username already exists")
  ELSE IF ok THEN Page(200, Json, "login ok")
  ELSE Page(401, Json, "invalid credentials")
=============================================================================
