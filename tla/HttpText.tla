------------------------------ MODULE HttpText ------------------------------
(***************************************************************************)
(* The text that arrives on a connection, as a sequence of tokens: a       *)
(* request line, a header line, the empty line that ends the headers, a    *)
(* part of a body.  White space that the code skips is not in a token, but *)
(* upper case and percent-encoding are.                                    *)
(***************************************************************************)
EXTENDS Naturals, Sequences, SequencesExt

CONSTANT NoFile    \* the size of no mapped file

\* A text and the layers of percent-encoding around it.
Text(t, n) == [text |-> t, layers |-> n]

\* A line of the head may hold "content-length:", in any case and anywhere in
\* it; n is the number right after the first one, 0 where no digits follow.
RequestLine(method, path, version) ==
  [is |-> "request", method |-> method, path |-> path, version |-> version,
   holds |-> FALSE, n |-> 0]
Header(key, value) ==
  [is |-> "header", key |-> key, value |-> value, holds |-> FALSE, n |-> 0]
Holding(line, n) == [line EXCEPT !.holds = TRUE, !.n = n]
Length(key, n) == Holding(Header(key, "digits"), n)

Pair(key, value) == [is |-> "pair", key |-> key, value |-> value]
Junk  == [is |-> "junk", holds |-> FALSE, n |-> 0]  \* not one of the others
Blank == [is |-> "blank"]

Texts == [text: STRING, layers: Nat]
Token ==
  [is: {"request"}, method: STRING, path: Texts, version: STRING,
   holds: BOOLEAN, n: Nat]
    \cup [is: {"header"}, key: STRING, value: STRING, holds: BOOLEAN, n: Nat]
    \cup [is: {"pair"}, key: STRING, value: Texts]
    \cup [is: {"junk"}, holds: BOOLEAN, n: Nat]
    \cup {Blank}

Lowered == [CONNECTION |-> "connection", CLOSE |-> "close", LENGTH |-> "content-length"]
ToLower(s) == IF s \in DOMAIN Lowered THEN Lowered[s] ELSE s
=============================================================================
