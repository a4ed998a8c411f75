--------------------------- MODULE ExchangeProofs ---------------------------
(***************************************************************************)
(* Every invariant of Exchange and of the Connection below it.  The        *)
(* inductive invariant is ExchangeInv, with CutInv for requests that are   *)
(* Framed: it says what is in the buffer and on the wire, and which        *)
(* request each reply answers.                                             *)
(***************************************************************************)
EXTENDS Exchange, WellFoundedInduction, SequenceTheorems, TLAPS

(* Natural numbers and sequences: the least number, induction, FlattenSeq() *)

\* A set of natural numbers has a least one.
LEMMA Least ==
  ASSUME NEW T \in SUBSET Nat, T # {}
  PROVE  \E x \in T : \A y \in T : x <= y
<1>1. PICK R : IsWellFoundedOn(R, Nat) /\ R = OpToRel(<, Nat)
  BY NatLessThanWellFounded
<1>2. \A x, y \in T : <<y, x>> \in R <=> y < x
  BY <1>1 DEF OpToRel
<1>4. IsWellFoundedOn(R, Nat)
  BY <1>1
<1>3. PICK x \in T : \A y \in T : <<y, x>> \notin R
  BY <1>4, WFMin
<1>5. \A y \in T : ~(y < x)
  BY <1>2, <1>3, Zenon
<1>6. \A y \in T : y \in Nat
  OBVIOUS
<1> QED
  BY <1>5, <1>6

\* Induction, for a set instead of a predicate.
LEMMA Induction ==
  ASSUME NEW T, 0 \in T, \A n \in Nat : n \in T => n + 1 \in T
  PROVE  Nat \subseteq T
<1> SUFFICES ASSUME Nat \ T # {} PROVE FALSE
  OBVIOUS
<1>1. PICK x \in Nat \ T : \A y \in Nat \ T : x <= y
  BY Least
<1>2. x # 0 /\ x - 1 \in Nat /\ x - 1 \in T
  BY <1>1
<1> QED
  BY <1>1, <1>2

\* f is what FlattenSeq() computes of the first n of s.
Flattens(f, s, n) ==
  f = [i \in 1..n |-> IF i = 1 THEN s[i] ELSE f[i - 1] \o s[i]]

\* Such an f, at one place.
LEMMA FlattensAt ==
  ASSUME NEW U, NEW s \in Seq(U), NEW f, NEW n \in Nat, Flattens(f, s, n), NEW i \in 1..n
  PROVE  f[i] = IF i = 1 THEN s[i] ELSE f[i - 1] \o s[i]
<1>1. PICK g : g = [j \in 1..n |-> IF j = 1 THEN s[j] ELSE f[j - 1] \o s[j]]
  OBVIOUS
<1>2. g[i] = IF i = 1 THEN s[i] ELSE f[i - 1] \o s[i]
  BY <1>1
<1>3. f = g
  BY <1>1, Zenon DEF Flattens
<1> QED
  BY <1>2, <1>3

\* There is one for every number of parts.
LEMMA FlattensExists ==
  ASSUME NEW U, NEW s \in Seq(U), NEW n \in Nat
  PROVE  \E f : Flattens(f, s, n)
<1> DEFINE T == {m \in Nat : \E f : Flattens(f, s, m)}
<1>1. 0 \in T
  <2>1. Flattens([i \in 1..0 |-> 0], s, 0)
    BY DEF Flattens
  <2> QED
    BY <2>1
<1>2. ASSUME NEW m \in Nat, m \in T PROVE m + 1 \in T
  <2>1. PICK f : Flattens(f, s, m)
    BY <1>2
  <2> DEFINE g == [i \in 1..(m + 1) |->
                     IF i <= m THEN f[i] ELSE IF i = 1 THEN s[i] ELSE f[i - 1] \o s[i]]
  <2>2. ASSUME NEW i \in 1..(m + 1)
        PROVE  g[i] = IF i = 1 THEN s[i] ELSE g[i - 1] \o s[i]
    <3>1. \A j \in 1..m : g[j] = f[j]
      OBVIOUS
    <3>2. CASE i <= m
      <4>1. f[i] = IF i = 1 THEN s[i] ELSE f[i - 1] \o s[i]
        BY <2>1, <3>2, FlattensAt
      <4>2. g[i] = f[i] /\ (i # 1 => g[i - 1] = f[i - 1])
        BY <3>1, <3>2
      <4> QED
        BY <4>1, <4>2
    <3>3. CASE i = m + 1
      <4>1. i # 1 => g[i - 1] = f[i - 1]
        BY <3>1, <3>3
      <4> QED
        BY <3>3, <4>1
    <3> QED
      BY <3>2, <3>3
  <2>3. Flattens(g, s, m + 1)
    <3>1. g = [i \in 1..(m + 1) |-> IF i = 1 THEN s[i] ELSE g[i - 1] \o s[i]]
      BY <2>2
    <3> QED
      BY <3>1 DEF Flattens
  <2> QED
    BY <2>3
<1> HIDE DEF T
<1>3. Nat \subseteq T
  BY <1>1, <1>2, Induction
<1> QED
  BY <1>3 DEF T

\* FlattenSeq() is its last value.
LEMMA FlattenValue ==
  ASSUME NEW U, NEW s \in Seq(U), Len(s) # 0
  PROVE  \E f : Flattens(f, s, Len(s)) /\ FlattenSeq(s) = f[Len(s)]
<1> DEFINE f == CHOOSE f : Flattens(f, s, Len(s))
<1>1. Flattens(f, s, Len(s))
  BY FlattensExists
<1>2. FlattenSeq(s) = f[Len(s)]
  BY DEF FlattenSeq, Flattens
<1> QED
  BY <1>1, <1>2

\* Where two sequences agree, so do their flattenings.
LEMMA FlattensAgree ==
  ASSUME NEW k \in Nat, NEW n \in Nat, k <= n,
         NEW U, NEW s \in Seq(U), NEW t \in Seq(U), \A i \in 1..k : s[i] = t[i],
         NEW f, NEW g, Flattens(f, s, k), Flattens(g, t, n)
  PROVE  \A i \in 1..k : f[i] = g[i]
<1> DEFINE T == {i \in Nat : i \in 1..k => f[i] = g[i]}
<1>1. 0 \in T
  OBVIOUS
<1>2. ASSUME NEW i \in Nat, i \in T PROVE i + 1 \in T
  <2> SUFFICES ASSUME i + 1 \in 1..k PROVE f[i + 1] = g[i + 1]
    OBVIOUS
  <2>1. f[i + 1] = IF i + 1 = 1 THEN s[i + 1] ELSE f[i + 1 - 1] \o s[i + 1]
    BY FlattensAt
  <2>2. g[i + 1] = IF i + 1 = 1 THEN t[i + 1] ELSE g[i + 1 - 1] \o t[i + 1]
    BY FlattensAt
  <2>3. i # 0 => f[i] = g[i]
    BY <1>2
  <2>4. s[i + 1] = t[i + 1]
    OBVIOUS
  <2>5. i + 1 - 1 = i
    OBVIOUS
  <2> QED
    BY <2>1, <2>2, <2>3, <2>4, <2>5
<1> HIDE DEF T
<1>3. Nat \subseteq T
  BY <1>1, <1>2, Induction
<1> QED
  BY <1>3 DEF T

\* The same for a sequence and one that is longer by one.
LEMMA FlattensLonger ==
  ASSUME NEW n \in Nat \ {0}, NEW U, NEW s \in Seq(U), NEW t \in Seq(U), 
         \A i \in 1..n : s[i] = t[i],
         NEW f, NEW g, Flattens(f, s, n), Flattens(g, t, n + 1)
  PROVE  f[n] = g[n]
<1>1. n + 1 \in Nat /\ n <= n + 1 /\ n \in 1..n
  OBVIOUS
<1>2. \A i \in 1..n : f[i] = g[i]
  BY <1>1, FlattensAgree
<1> QED
  BY <1>1, <1>2

\* Of no parts, nothing comes.
LEMMA FlattenEmpty ==
  ASSUME NEW s, Len(s) = 0
  PROVE  FlattenSeq(s) = s
BY DEF FlattenSeq

\* One part more adds itself at the end.
LEMMA FlattenOneMore ==
  ASSUME NEW U, NEW s \in Seq(U), NEW t \in Seq(U), NEW n \in Nat,
         Len(s) = n, Len(t) = n + 1, \A i \in 1..n : s[i] = t[i]
  PROVE  FlattenSeq(t) = IF n = 0 THEN t[n + 1] ELSE FlattenSeq(s) \o t[n + 1]
<1>1. PICK g : Flattens(g, t, n + 1) /\ FlattenSeq(t) = g[n + 1]
  BY FlattenValue
<1>2. g[n + 1] = IF n + 1 = 1 THEN t[n + 1] ELSE g[n + 1 - 1] \o t[n + 1]
  BY <1>1, FlattensAt
<1>3. CASE n = 0
  BY <1>1, <1>2, <1>3
<1>4. CASE n # 0
  <2>1. PICK f : Flattens(f, s, n) /\ FlattenSeq(s) = f[n]
    BY <1>4, FlattenValue
  <2>2. f[n] = g[n]
    <3>1. n \in Nat \ {0} /\ Flattens(f, s, n) /\ Flattens(g, t, n + 1)
      BY <1>1, <1>4, <2>1
    <3> QED
      BY <3>1, FlattensLonger
  <2>3. g[n + 1] = g[n] \o t[n + 1]
    <3>1. n + 1 # 1 /\ n + 1 - 1 = n
      BY <1>4
    <3> QED
      BY <1>2, <3>1, Zenon
  <2> QED
    BY <1>1, <1>4, <2>1, <2>2, <2>3
<1> QED
  BY <1>3, <1>4

\* FlattenSeq() of one part more.
LEMMA FlattenPush ==
  ASSUME NEW U, NEW s \in Seq(U), NEW x \in U
  PROVE  FlattenSeq(Append(s, x)) = IF s = <<>> THEN x ELSE FlattenSeq(s) \o x
<1>1. PICK t \in Seq(U) : t = Append(s, x)
  <2>1. Append(s, x) \in Seq(U)
    BY AppendProperties
  <2> QED
    BY <2>1, Zenon
<1>2. PICK n \in Nat : n = Len(s)
  OBVIOUS
<1>3. Len(t) = n + 1 /\ t[n + 1] = x /\ \A i \in 1..n : s[i] = t[i]
  BY <1>1, <1>2
<1>4. FlattenSeq(t) = IF n = 0 THEN t[n + 1] ELSE FlattenSeq(s) \o t[n + 1]
  BY <1>2, <1>3, FlattenOneMore
<1>5. s = <<>> <=> n = 0
  BY <1>2
<1> QED
  BY <1>1, <1>3, <1>4, <1>5

\* The same for parts that are sequences: the new part stands at the end.
LEMMA FlattenAppend ==
  ASSUME NEW S, NEW s \in Seq(Seq(S)), NEW x \in Seq(S)
  PROVE  FlattenSeq(Append(s, x)) = FlattenSeq(s) \o x
<1>1. FlattenSeq(Append(s, x)) = IF s = <<>> THEN x ELSE FlattenSeq(s) \o x
  BY FlattenPush
<1>2. CASE s = <<>>
  <2>1. FlattenSeq(s) = <<>>
    BY <1>2, FlattenEmpty
  <2>2. <<>> \o x = x
    OBVIOUS
  <2> QED
    BY <1>1, <1>2, <2>1, <2>2
<1> QED
  BY <1>1, <1>2

\* What is before the last element.
LEMMA Butlast ==
  ASSUME NEW S, NEW s \in Seq(S), NEW n \in Nat, Len(s) = n + 1
  PROVE  \E t \in Seq(S), x \in S : s = Append(t, x) /\ Len(t) = n
<1>1. s # <<>>
  OBVIOUS
<1>2. PICK t \in Seq(S), x \in S : s = Append(t, x)
  BY <1>1, SequenceEmptyOrAppend
<1>3. Len(t) = n
  BY <1>2
<1> QED
  BY <1>2, <1>3

\* FlattenSeq() of sequences over S is a sequence over S.
LEMMA FlattenType ==
  ASSUME NEW S
  PROVE  \A s \in Seq(Seq(S)) : FlattenSeq(s) \in Seq(S)
<1> DEFINE T == {n \in Nat : \A s \in Seq(Seq(S)) : Len(s) = n => FlattenSeq(s) \in Seq(S)}
<1>1. 0 \in T
  <2> SUFFICES ASSUME NEW s \in Seq(Seq(S)), Len(s) = 0
               PROVE  FlattenSeq(s) \in Seq(S)
    OBVIOUS
  <2>1. s = <<>>
    OBVIOUS
  <2>2. FlattenSeq(s) = s
    BY FlattenEmpty
  <2>3. <<>> \in Seq(S)
    BY EmptySeq
  <2> QED
    BY <2>1, <2>2, <2>3, Zenon
<1>2. ASSUME NEW n \in Nat, n \in T PROVE n + 1 \in T
  <2> SUFFICES ASSUME NEW s \in Seq(Seq(S)), Len(s) = n + 1
               PROVE  FlattenSeq(s) \in Seq(S)
    OBVIOUS
  <2>1. PICK t \in Seq(Seq(S)), x \in Seq(S) : s = Append(t, x) /\ Len(t) = n
    BY Butlast
  <2>2. FlattenSeq(s) = FlattenSeq(t) \o x /\ FlattenSeq(t) \in Seq(S)
    BY <1>2, <2>1, FlattenAppend
  <2> QED
    BY <2>2
<1> HIDE DEF T
<1>3. Nat \subseteq T
  BY <1>1, <1>2, Induction
<1> QED
  BY <1>3 DEF T

Begins(first, whole, S) == \E rest \in Seq(S) : whole = first \o rest

\* What begins a sequence begins what the sequence grows to.
LEMMA BeginsStill ==
  ASSUME NEW S, NEW first \in Seq(S), NEW whole, NEW last \in Seq(S),
         Begins(first, whole, S)
  PROVE  Begins(first, whole \o last, S)
<1>1. PICK rest \in Seq(S) : whole = first \o rest
  BY DEF Begins
<1>2. (first \o rest) \o last = first \o (rest \o last)
  BY ConcatAssociative
<1>3. rest \o last \in Seq(S)
  BY ConcatProperties
<1> QED
  BY <1>1, <1>2, <1>3 DEF Begins

\* The first k of the parts make up the beginning of the whole.
StartsWith(s, k, S) == Begins(FlattenSeq(SubSeq(s, 1, k)), FlattenSeq(s), S)

\* All the parts are a beginning of the whole.
LEMMA FlattenWhole ==
  ASSUME NEW S, NEW s \in Seq(Seq(S))
  PROVE  StartsWith(s, Len(s), S)
<1>1. SubSeq(s, 1, Len(s)) = s
  OBVIOUS
<1>2. FlattenSeq(s) \in Seq(S)
  BY FlattenType
<1>3. FlattenSeq(s) = FlattenSeq(s) \o <<>> /\ <<>> \in Seq(S)
  BY <1>2
<1> QED
  BY <1>1, <1>3 DEF StartsWith, Begins

\* A beginning stays one when a part is added.
LEMMA FlattenGrows ==
  ASSUME NEW S, NEW t \in Seq(Seq(S)), NEW x \in Seq(S),
         NEW k \in 0..Len(t), StartsWith(t, k, S)
  PROVE  StartsWith(Append(t, x), k, S)
<1>1. SubSeq(Append(t, x), 1, k) = SubSeq(t, 1, k) /\ SubSeq(t, 1, k) \in Seq(Seq(S))
  OBVIOUS
<1>2. FlattenSeq(SubSeq(t, 1, k)) \in Seq(S)
  BY <1>1, FlattenType
<1>3. FlattenSeq(Append(t, x)) = FlattenSeq(t) \o x
  BY FlattenAppend
<1>4. Begins(FlattenSeq(SubSeq(t, 1, k)), FlattenSeq(t) \o x, S)
  BY <1>2, BeginsStill DEF StartsWith
<1> QED
  BY <1>1, <1>3, <1>4 DEF StartsWith

\* Any number of the first parts is a beginning of the whole.
LEMMA FlattenPrefix ==
  ASSUME NEW S
  PROVE  \A s \in Seq(Seq(S)) : \A k \in 0..Len(s) : StartsWith(s, k, S)
<1> DEFINE T == {n \in Nat : \A s \in Seq(Seq(S)) : Len(s) = n =>
                              \A k \in 0..n : StartsWith(s, k, S)}
<1>1. 0 \in T
  BY FlattenWhole
<1>2. ASSUME NEW n \in Nat, n \in T PROVE n + 1 \in T
  <2> SUFFICES ASSUME NEW s \in Seq(Seq(S)), Len(s) = n + 1, NEW k \in 0..(n + 1)
               PROVE  StartsWith(s, k, S)
    OBVIOUS
  <2>1. PICK t \in Seq(Seq(S)), x \in Seq(S) : s = Append(t, x) /\ Len(t) = n
    BY Butlast
  <2>2. CASE k = n + 1
    BY <2>2, FlattenWhole
  <2>3. CASE k # n + 1
    <3>1. k \in 0..Len(t) /\ StartsWith(t, k, S)
      BY <1>2, <2>1, <2>3
    <3> QED
      BY <2>1, <3>1, FlattenGrows
  <2> QED
    BY <2>2, <2>3
<1> HIDE DEF T
<1>3. Nat \subseteq T
  BY <1>1, <1>2, Induction
<1> QED
  BY <1>3 DEF T

\* What Append() does.
LEMMA Appended ==
  ASSUME NEW T, NEW s \in Seq(T), NEW x \in T
  PROVE  /\ Append(s, x) \in Seq(T) /\ Len(Append(s, x)) = Len(s) + 1
         /\ Append(s, x)[Len(s) + 1] = x
         /\ \A i \in 1..Len(s) : Append(s, x)[i] = s[i]
OBVIOUS

\* What concatenation does.
LEMMA Joined ==
  ASSUME NEW T, NEW a \in Seq(T), NEW b \in Seq(T)
  PROVE  /\ a \o b \in Seq(T) /\ Len(a \o b) = Len(a) + Len(b)
         /\ \A i \in 1..Len(a) : (a \o b)[i] = a[i]
         /\ \A i \in 1..Len(b) : (a \o b)[Len(a) + i] = b[i]
OBVIOUS

\* The first k parts of a sequence of sequences, and the next.
LEMMA FlattenNext ==
  ASSUME NEW S, NEW w \in Seq(Seq(S)), NEW k \in 0..Len(w), k # Len(w)
  PROVE  FlattenSeq(SubSeq(w, 1, k + 1)) = FlattenSeq(SubSeq(w, 1, k)) \o w[k + 1]
<1>1. k + 1 \in 1..Len(w) /\ w[k + 1] \in Seq(S)
  OBVIOUS
<1>2. PICK x \in Seq(S) : x = w[k + 1]
  BY <1>1
<1>3. SubSeq(w, 1, k) \in Seq(Seq(S)) /\ SubSeq(w, 1, k + 1) \in Seq(Seq(S))
  BY <1>1
<1>4. PICK a \in Seq(Seq(S)), b \in Seq(Seq(S)) :
        a = SubSeq(w, 1, k) /\ b = SubSeq(w, 1, k + 1)
  BY <1>3
<1>5. /\ Len(a) = k /\ \A i \in 1..k : a[i] = w[i]
      /\ Len(b) = k + 1 /\ \A i \in 1..(k + 1) : b[i] = w[i]
  BY <1>1, <1>4
<1>6. /\ Append(a, x) \in Seq(Seq(S)) /\ Len(Append(a, x)) = k + 1
      /\ Append(a, x)[k + 1] = x /\ \A i \in 1..k : Append(a, x)[i] = a[i]
  BY <1>5, Appended
<1>7. \A i \in 1..(k + 1) : b[i] = Append(a, x)[i]
  <2>1. ASSUME NEW i \in 1..(k + 1), i # k + 1 PROVE i \in 1..k
    BY <2>1
  <2> QED
    BY <1>2, <1>5, <1>6, <2>1
<1>8. b = Append(a, x)
  BY <1>5, <1>6, <1>7, SeqEqual
<1>9. FlattenSeq(Append(a, x)) = FlattenSeq(a) \o x
  BY FlattenAppend
<1> QED
  BY <1>2, <1>4, <1>8, <1>9

-----------------------------------------------------------------------------
(* Requests as sequences of tokens *)

Request == [line: Token, headers: Seq(Token), body: Seq(Token)]
Wholes(rs) == [i \in 1..Len(rs) |-> Whole(rs[i])]

\* The parts of the text of a request, for any tokens.
LEMMA Around ==
  ASSUME NEW T, NEW x \in T, NEW h \in Seq(T), NEW y \in T, NEW b \in Seq(T),
         NEW w
  PROVE  w = <<x>> \o h \o <<y>> \o b =>
         /\ w \in Seq(T) /\ Len(w) = Len(h) + 2 + Len(b)
         /\ w[1] = x
         /\ \A i \in 1..Len(h) : w[i + 1] = h[i]
         /\ w[Len(h) + 2] = y
         /\ \A i \in 1..Len(b) : w[Len(h) + 2 + i] = b[i]
  OBVIOUS

\* The parts of Whole(): request line, headers, empty line, body.
LEMMA WholeParts ==
  ASSUME NEW r \in Request
  PROVE  /\ Whole(r) \in Seq(Token)
         /\ Len(Whole(r)) = Len(r.headers) + 2 + Len(r.body)
         /\ Whole(r)[1] = r.line
         /\ \A i \in 1..Len(r.headers) : Whole(r)[i + 1] = r.headers[i]
         /\ Whole(r)[Len(r.headers) + 2] = Blank
         /\ \A i \in 1..Len(r.body) : Whole(r)[Len(r.headers) + 2 + i] = r.body[i]
<1>1. Blank \in Token
  BY DEF Token
<1>2. r.line \in Token /\ r.headers \in Seq(Token) /\ r.body \in Seq(Token)
  BY DEF Request
<1>3. Whole(r) = <<r.line>> \o r.headers \o <<Blank>> \o r.body
  BY DEF Whole
<1>4. PICK x \in Token, h \in Seq(Token), b \in Seq(Token) :
        x = r.line /\ h = r.headers /\ b = r.body
  BY <1>2
<1>5. PICK w : w = <<x>> \o h \o <<Blank>> \o b
  OBVIOUS
<1>6. /\ w \in Seq(Token) /\ Len(w) = Len(h) + 2 + Len(b) /\ w[1] = x
      /\ \A i \in 1..Len(h) : w[i + 1] = h[i]
      /\ w[Len(h) + 2] = Blank
      /\ \A i \in 1..Len(b) : w[Len(h) + 2 + i] = b[i]
  BY <1>1, <1>5, Around
<1>7. w = Whole(r)
  BY <1>3, <1>4, <1>5
<1> QED
  BY <1>4, <1>6, <1>7

\* The stream is the requests, one behind the other.
LEMMA WholesType ==
  ASSUME NEW rs \in Seq(Request)
  PROVE  /\ Wholes(rs) \in Seq(Seq(Token)) /\ Len(Wholes(rs)) = Len(rs)
         /\ \A i \in 1..Len(rs) : Wholes(rs)[i] = Whole(rs[i])
         /\ Stream(rs) = FlattenSeq(Wholes(rs)) /\ Stream(rs) \in Seq(Token)
<1>1. ASSUME NEW i \in 1..Len(rs) PROVE Whole(rs[i]) \in Seq(Token)
  <2>1. rs[i] \in Request
    OBVIOUS
  <2> QED
    BY <2>1, WholeParts
<1>2. /\ Wholes(rs) \in Seq(Seq(Token)) /\ Len(Wholes(rs)) = Len(rs)
      /\ \A i \in 1..Len(rs) : Wholes(rs)[i] = Whole(rs[i])
  BY <1>1 DEF Wholes
<1>3. Stream(rs) = FlattenSeq(Wholes(rs))
  BY DEF Stream, Wholes
<1> QED
  BY <1>2, <1>3, FlattenType

-----------------------------------------------------------------------------
(* What SelectInSeq() finds, and the length of a request *)

\* Min() of a set of natural numbers.
LEMMA FirstOne ==
  ASSUME NEW T \in SUBSET Nat, T # {}
  PROVE  Min(T) \in T /\ \A y \in T : Min(T) <= y
<1>1. \E x \in T : \A y \in T : x <= y
  BY Least
<1> QED
  BY <1>1 DEF Min

\* Max() of a set of numbers up to n.
LEMMA LastOne ==
  ASSUME NEW n \in Nat, NEW T \in SUBSET (1..n), T # {}
  PROVE  Max(T) \in T /\ \A y \in T : Max(T) >= y
<1> DEFINE U == {n - x : x \in T}
<1>1. PICK z \in U : \A y \in U : z <= y
  <2>1. U \in SUBSET Nat /\ U # {}
    <3>1. \A x \in T : n - x \in Nat
      OBVIOUS
    <3> QED
      BY <3>1
  <2> HIDE DEF U
  <2> QED
    BY <2>1, Least
<1>2. \E x \in T : \A y \in T : x >= y
  <2>1. PICK x \in T : z = n - x
    BY <1>1
  <2>2. ASSUME NEW y \in T PROVE x >= y
    <3>1. n - y \in U
      OBVIOUS
    <3>2. n - x <= n - y
      BY <1>1, <2>1, <3>1
    <3> QED
      BY <3>2
  <2> QED
    BY <2>2
<1> QED
  BY <1>2 DEF Max

\* i is the first, or the last, of the positions in T, or 0.
FirstIn(T, i, n) ==
  /\ i \in 0..n
  /\ i = 0 => T = {}
  /\ i # 0 => i \in T /\ \A j \in 1..(i - 1) : j \notin T

LastIn(T, i, n) ==
  /\ i \in 0..n
  /\ i = 0 => T = {}
  /\ i # 0 => i \in T /\ \A j \in (i + 1)..n : j \notin T

\* What SelectInSeq() computes is the first index of a set.
LEMMA SelectFirst ==
  ASSUME NEW n \in Nat, NEW T \in SUBSET (1..n)
  PROVE  FirstIn(T, IF T # {} THEN Min(T) ELSE 0, n)
<1>1. CASE T = {}
  BY <1>1 DEF FirstIn
<1>2. CASE T # {}
  <2>1. T \in SUBSET Nat
    OBVIOUS
  <2>2. PICK i : i = Min(T)
    OBVIOUS
  <2>3. i \in T /\ \A y \in T : i <= y
    BY <1>2, <2>1, <2>2, FirstOne
  <2>4. ASSUME NEW j \in 1..(i - 1) PROVE j \notin T
    BY <2>3
  <2> QED
    BY <1>2, <2>2, <2>3, <2>4 DEF FirstIn
<1> QED
  BY <1>1, <1>2

\* What SelectLastInSeq() computes is the last.
LEMMA SelectLast ==
  ASSUME NEW n \in Nat, NEW T \in SUBSET (1..n)
  PROVE  LastIn(T, IF T # {} THEN Max(T) ELSE 0, n)
<1>1. CASE T = {}
  BY <1>1 DEF LastIn
<1>2. CASE T # {}
  <2>2. PICK i : i = Max(T)
    OBVIOUS
  <2>3. i \in T /\ \A y \in T : i >= y
    BY <1>2, <2>2, LastOne
  <2>4. ASSUME NEW j \in (i + 1)..n PROVE j \notin T
    BY <2>3
  <2> QED
    BY <1>2, <2>2, <2>3, <2>4 DEF LastIn
<1> QED
  BY <1>1, <1>2

\* h is where the first empty line of b is, or 0.
FirstBlank(b, h) == FirstIn({i \in 1..Len(b) : b[i] = Blank}, h, Len(b))

\* HeadersLen() finds the first empty line.
LEMMA HeadersLenIs ==
  ASSUME NEW b \in Seq(Token)
  PROVE  FirstBlank(b, HeadersLen(b))
<1> DEFINE T == {i \in 1..Len(b) : b[i] = Blank}
<1>1. HeadersLen(b) = IF T # {} THEN Min(T) ELSE 0
  BY DEF HeadersLen, SelectInSeq, IsBlank
<1>2. T \in SUBSET (1..Len(b))
  OBVIOUS
<1> HIDE DEF T
<1>3. FirstIn(T, HeadersLen(b), Len(b))
  <2>1. PICK n \in Nat : n = Len(b)
    OBVIOUS
  <2>2. FirstIn(T, IF T # {} THEN Min(T) ELSE 0, n)
    BY <1>2, <2>1, SelectFirst
  <2> QED
    BY <1>1, <2>1, <2>2
<1> QED
  BY <1>3 DEF FirstBlank, T

\* i is where the first line is that holds "content-length:", or 0.
FirstLength(hs, i) == FirstIn({j \in 1..Len(hs) : IsLength(hs[j])}, i, Len(hs))

\* ParseContentLength() looks at the first such line.
LEMMA LengthSelected ==
  ASSUME NEW hs \in Seq(Token)
  PROVE  FirstLength(hs, SelectInSeq(hs, IsLength))
<1> DEFINE T == {i \in 1..Len(hs) : IsLength(hs[i])}
<1>1. SelectInSeq(hs, IsLength) = IF T # {} THEN Min(T) ELSE 0
  BY DEF SelectInSeq
<1>2. T \in SUBSET (1..Len(hs))
  OBVIOUS
<1> HIDE DEF T
<1>3. FirstIn(T, SelectInSeq(hs, IsLength), Len(hs))
  <2>1. PICK n \in Nat : n = Len(hs)
    OBVIOUS
  <2>2. FirstIn(T, IF T # {} THEN Min(T) ELSE 0, n)
    BY <1>2, <2>1, SelectFirst
  <2> QED
    BY <1>1, <2>1, <2>2
<1> QED
  BY <1>3 DEF FirstLength, T

\* A content length is a natural number, and so is one that overflows.
LEMMA LengthType ==
  ASSUME NEW hs \in Seq(Token)
  PROVE  ParseContentLength(hs) \in Nat
<1>1. PICK i : i = SelectInSeq(hs, IsLength)
  OBVIOUS
<1>2. FirstLength(hs, i)
  BY <1>1, LengthSelected
<1>3. ParseContentLength(hs)
        = IF i = 0 THEN 0 ELSE IF hs[i].n < SizeMod THEN hs[i].n ELSE 0
  BY <1>1 DEF ParseContentLength
<1>4. CASE i # 0
  <2>1. hs[i] \in Token /\ hs[i].is \in {"request", "header", "junk"}
    BY <1>2, <1>4 DEF FirstLength, FirstIn, IsLength
  <2>2. hs[i].n \in Nat
    BY <2>1 DEF Token, Junk, Blank
  <2> QED
    BY <1>3, <2>2
<1> QED
  BY <1>3, <1>4

\* So is the size of a request, and its headers are in the buffer.
LEMMA TotalLenType ==
  ASSUME NEW b \in Seq(Token)
  PROVE  TotalLen(b) \in Nat /\ HeadersLen(b) \in 0..Len(b)
<1>1. PICK h \in 0..Len(b) : h = HeadersLen(b)
  BY HeadersLenIs DEF FirstBlank, FirstIn
<1>2. PICK hs \in Seq(Token) : hs = SubSeq(b, 1, h)
  <2>1. SubSeq(b, 1, h) \in Seq(Token)
    OBVIOUS
  <2> QED
    BY <2>1
<1>3. PICK n \in Nat : n = ParseContentLength(hs)
  BY LengthType
<1>4. TotalLen(b) = (h + n) % SizeMod
  BY <1>1, <1>2, <1>3 DEF TotalLen
<1> QED
  BY <1>1, <1>4, ConnectionAssumption

-----------------------------------------------------------------------------
(* Units, and what is left of two iovecs *)

\* What is left of a sequence behind its first n elements.
LEMMA Rest ==
  ASSUME NEW S, NEW v \in Seq(S), NEW n \in 0..Len(v)
  PROVE  /\ SubSeq(v, n + 1, Len(v)) \in Seq(S)
         /\ Len(SubSeq(v, n + 1, Len(v))) = Len(v) - n
         /\ \A i \in 1..(Len(v) - n) : SubSeq(v, n + 1, Len(v))[i] = v[n + i]
OBVIOUS

Unit == [resp: Nat, part: {"head", "file"}, at: Nat]

\* The units of a part, one by one.
LEMMA UnitsParts ==
  ASSUME NEW k \in Nat, NEW part \in {"head", "file"}, NEW from \in Nat, NEW n \in Nat
  PROVE  /\ Units(k, part, from, n) \in Seq(Unit)
         /\ Len(Units(k, part, from, n)) = n
         /\ \A i \in 1..n : Units(k, part, from, n)[i]
                              = [resp |-> k, part |-> part, at |-> from + i]
BY DEF Units, Unit

RestIs(k, part, from, n, m) ==
  SubSeq(Units(k, part, from, n), m + 1, n) = Units(k, part, from + m, n - m)

\* What is left of the units after m of them.
LEMMA UnitsRest ==
  ASSUME NEW k \in Nat, NEW part \in {"head", "file"}, NEW from \in Nat, NEW n \in Nat,
         NEW m \in 0..n
  PROVE  RestIs(k, part, from, n, m)
<1> DEFINE u == Units(k, part, from, n)
           v == Units(k, part, from + m, n - m)
<1>1. /\ u \in Seq(Unit) /\ Len(u) = n
      /\ \A i \in 1..n : u[i] = [resp |-> k, part |-> part, at |-> from + i]
  BY DEF Units, Unit
<1>2. from + m \in Nat /\ n - m \in Nat
  OBVIOUS
<1>3. /\ v \in Seq(Unit) /\ Len(v) = n - m
      /\ \A i \in 1..(n - m) : v[i] = [resp |-> k, part |-> part, at |-> from + m + i]
  BY <1>2 DEF Units, Unit
<1> HIDE DEF u, v
<1>4. /\ SubSeq(u, m + 1, n) \in Seq(Unit) /\ Len(SubSeq(u, m + 1, n)) = n - m
      /\ \A i \in 1..(n - m) : SubSeq(u, m + 1, n)[i] = u[m + i]
  <2>1. u \in Seq(Unit) /\ Len(u) = n
    BY <1>1
  <2> QED
    BY <2>1, Rest
<1>5. ASSUME NEW i \in 1..(n - m) PROVE SubSeq(u, m + 1, n)[i] = v[i]
  <2>1. m + i \in 1..n /\ from + (m + i) = from + m + i
    OBVIOUS
  <2> QED
    BY <1>1, <1>3, <1>4, <2>1
<1>6. SubSeq(u, m + 1, n) = v
  BY <1>3, <1>4, <1>5, SeqEqual
<1> QED
  BY <1>1, <1>6 DEF u, v, RestIs

\* The two ends of a concatenation.
LEMMA TailOfFirst ==
  ASSUME NEW S, NEW a \in Seq(S), NEW b \in Seq(S), NEW n \in 0..Len(a)
  PROVE  SubSeq(a \o b, n + 1, Len(a) + Len(b)) = SubSeq(a, n + 1, Len(a)) \o b
<1> DEFINE c == SubSeq(a \o b, n + 1, Len(a) + Len(b))
           d == SubSeq(a, n + 1, Len(a)) \o b
<1>1. c \in Seq(S) /\ Len(c) = Len(a) + Len(b) - n
  OBVIOUS
<1>2. d \in Seq(S) /\ Len(d) = Len(a) + Len(b) - n
  OBVIOUS
<1>3. ASSUME NEW i \in 1..Len(c) PROVE c[i] = d[i]
  <2>1. c[i] = (a \o b)[n + i]
    <3>1. a \o b \in Seq(S) /\ Len(a \o b) = Len(a) + Len(b)
      OBVIOUS
    <3> QED
      BY <1>1, <3>1
  <2>2. CASE n + i <= Len(a)
    BY <1>1, <2>1, <2>2
  <2>3. CASE n + i > Len(a)
    BY <1>1, <2>1, <2>3
  <2> QED
    BY <2>2, <2>3
<1> QED
  BY <1>1, <1>2, <1>3, SeqEqual

\* Behind the first of two sequences.
LEMMA TailOfSecond ==
  ASSUME NEW S, NEW a \in Seq(S), NEW b \in Seq(S), NEW n \in 0..Len(b)
  PROVE  SubSeq(a \o b, Len(a) + n + 1, Len(a) + Len(b)) = SubSeq(b, n + 1, Len(b))
<1> DEFINE c == SubSeq(a \o b, Len(a) + n + 1, Len(a) + Len(b))
           d == SubSeq(b, n + 1, Len(b))
<1>1. c \in Seq(S) /\ Len(c) = Len(b) - n
  OBVIOUS
<1>2. d \in Seq(S) /\ Len(d) = Len(b) - n
  OBVIOUS
<1>3. ASSUME NEW i \in 1..Len(c) PROVE c[i] = d[i]
  <2>1. c[i] = (a \o b)[Len(a) + n + i]
    BY <1>1
  <2>2. (a \o b)[Len(a) + n + i] = b[n + i]
    BY <1>1, SMTT(30)
  <2>3. d[i] = b[n + i]
    BY <1>1
  <2> QED
    BY <2>1, <2>2, <2>3
<1> QED
  BY <1>1, <1>2, <1>3, SeqEqual

\* Cut anywhere, a sequence is its two parts.
LEMMA Halves ==
  ASSUME NEW S, NEW v \in Seq(S), NEW n \in 0..Len(v)
  PROVE  /\ SubSeq(v, 1, n) \in Seq(S) /\ SubSeq(v, n + 1, Len(v)) \in Seq(S)
         /\ SubSeq(v, 1, n) \o SubSeq(v, n + 1, Len(v)) = v
<1>1. SubSeq(v, 1, n) \in Seq(S) /\ SubSeq(v, n + 1, Len(v)) \in Seq(S)
  BY Rest
<1>2. PICK a \in Seq(S), b \in Seq(S) :
        a = SubSeq(v, 1, n) /\ b = SubSeq(v, n + 1, Len(v))
  BY <1>1
<1>3. Len(a) = n /\ \A i \in 1..n : a[i] = v[i]
  BY <1>2
<1>4. Len(b) = Len(v) - n /\ \A i \in 1..(Len(v) - n) : b[i] = v[n + i]
  BY <1>2, Rest
<1>5. a \o b \in Seq(S) /\ Len(a \o b) = Len(v)
  BY <1>3, <1>4
<1>6. ASSUME NEW i \in 1..Len(v) PROVE (a \o b)[i] = v[i]
  BY <1>3, <1>4
<1>7. a \o b = v
  BY <1>5, <1>6, SeqEqual
<1> QED
  BY <1>1, <1>2, <1>7

\* What is taken off the front of v and put behind w is not lost.
LEMMA TwoParts ==
  ASSUME NEW S, NEW w \in Seq(S), NEW v \in Seq(S), NEW n \in 0..Len(v)
  PROVE  (w \o SubSeq(v, 1, n)) \o SubSeq(v, n + 1, Len(v)) = w \o v
<1>0. /\ SubSeq(v, 1, n) \in Seq(S) /\ SubSeq(v, n + 1, Len(v)) \in Seq(S)
      /\ SubSeq(v, 1, n) \o SubSeq(v, n + 1, Len(v)) = v
  BY Halves
<1>1. PICK a \in Seq(S), b \in Seq(S) :
        a = SubSeq(v, 1, n) /\ b = SubSeq(v, n + 1, Len(v)) /\ a \o b = v
  BY <1>0
<1>2. (w \o a) \o b = w \o (a \o b)
  BY ConcatAssociative, SMTT(30)
<1> QED
  BY <1>1, <1>2

\* What the iovecs hold after n units are what they held behind the n-th.
DrainedTo(k, from, head, at, file, n, h, f) ==
  Units(k, "head", from + h, head - h) \o Units(k, "file", at + f, file - f)
    = SubSeq(Units(k, "head", from, head) \o Units(k, "file", at, file),
             n + 1, head + file)

\* consumeWriteData(n) leaves what is behind the n-th unit of the iovecs.
LEMMA Drained ==
  ASSUME NEW k \in Nat, NEW from \in Nat, NEW head \in Nat,
         NEW at \in Nat, NEW file \in Nat,
         NEW n \in 1..(head + file), NEW h \in 0..head, NEW f \in 0..file,
         h = Lesser(n, head), f = Lesser(n - h, file)
  PROVE  DrainedTo(k, from, head, at, file, n, h, f)
<1> SUFFICES Units(k, "head", from + h, head - h) \o Units(k, "file", at + f, file - f)
               = SubSeq(Units(k, "head", from, head) \o Units(k, "file", at, file),
                        n + 1, head + file)
  BY DEF DrainedTo
<1>0. "head" \in {"head", "file"} /\ "file" \in {"head", "file"}
  OBVIOUS
<1>1. /\ Units(k, "head", from, head) \in Seq(Unit)
      /\ Len(Units(k, "head", from, head)) = head
      /\ Units(k, "file", at, file) \in Seq(Unit)
      /\ Len(Units(k, "file", at, file)) = file
  BY DEF Units, Unit
<1>2. PICK a \in Seq(Unit), b \in Seq(Unit) :
        /\ a = Units(k, "head", from, head) /\ Len(a) = head
        /\ b = Units(k, "file", at, file) /\ Len(b) = file
  BY <1>1
<1>3. CASE n <= head
  <2>1. h = n /\ f = 0 /\ n \in 0..Len(a)
    BY <1>2, <1>3 DEF Lesser
  <2>2. SubSeq(a \o b, n + 1, Len(a) + Len(b)) = SubSeq(a, n + 1, Len(a)) \o b
    BY <2>1, TailOfFirst
  <2>3. SubSeq(a, n + 1, Len(a)) = Units(k, "head", from + h, head - h)
    <3>1. RestIs(k, "head", from, head, h)
      BY <1>0, UnitsRest
    <3> QED
      BY <1>2, <2>1, <3>1 DEF RestIs
  <2>4. b = Units(k, "file", at + f, file - f)
    BY <1>2, <2>1
  <2> QED
    BY <1>2, <2>2, <2>3, <2>4
<1>4. CASE n > head
  <2>1. h = head /\ f = n - head
    BY <1>4 DEF Lesser
  <2>2. SubSeq(a \o b, Len(a) + f + 1, Len(a) + Len(b)) = SubSeq(b, f + 1, Len(b))
    BY <1>2, TailOfSecond
  <2>3. SubSeq(b, f + 1, Len(b)) = Units(k, "file", at + f, file - f)
    <3>1. RestIs(k, "file", at, file, f)
      BY <1>0, UnitsRest
    <3> QED
      BY <1>2, <3>1 DEF RestIs
  <2>4. Units(k, "head", from + h, head - h) = <<>>
    BY <2>1 DEF Units
  <2>5. PICK c \in Seq(Unit) : c = Units(k, "file", at + f, file - f)
    <3>1. Units(k, "file", at + f, file - f) \in Seq(Unit)
      <4>1. PICK from2 \in Nat, left \in Nat : from2 = at + f /\ left = file - f
        BY SMTT(30)
      <4>2. Units(k, "file", from2, left) \in Seq(Unit)
        BY DEF Units, Unit
      <4> QED
        BY <4>1, <4>2
    <3> QED
      BY <3>1
  <2>6. <<>> \o c = c
    OBVIOUS
  <2>7. Len(a) + f + 1 = n + 1 /\ Len(a) + Len(b) = head + file
    <3>1. f = n - head
      BY <2>1
    <3>2. head + f + 1 = n + 1
      BY <3>1
    <3> QED
      BY <1>2, <3>2
  <2> QED
    BY <1>2, <2>2, <2>3, <2>4, <2>5, <2>6, <2>7
<1>5. n <= head \/ n > head
  OBVIOUS
<1> QED
  BY <1>3, <1>4, <1>5

-----------------------------------------------------------------------------
(* Types *)

Sizes == [head: 1..MaxHead, file: 0..MaxFile]

\* A page is sent without a file.
IsPage(reply) == reply.text \in {0, 1} /\ reply.file = NoFile

\* What Page() returns is a page.
LEMMA PageIsPage ==
  ASSUME NEW status, NEW type, NEW name
  PROVE  IsPage(Page(status, type, name))
BY DEF IsPage, Page

\* A response has a text of at most one unit or a file that fits.
LEMMA ReplyShape ==
  ASSUME NEW r, NEW ok, NEW works
  PROVE  /\ Reply(r, ok, works).text \in {0, 1}
         /\ Reply(r, ok, works).file \in 0..MaxFile \cup {NoFile}
<1>1. CASE ~ParseOk(r)
  <2>1. IsPage(Reply(r, ok, works))
    BY <1>1, PageIsPage, ZenonT(40) DEF Reply
  <2> QED
    BY <2>1 DEF IsPage
<1>2. CASE ParseOk(r) /\ Handles(r)
  <2>1. IsPage(Route(r, ok))
    <3>1. CASE r.method # "POST"
      BY <3>1, PageIsPage, ZenonT(40) DEF Route
    <3>2. CASE r.method = "POST" /\ ~Asks(r)
      BY <3>2, PageIsPage, ZenonT(40) DEF Route
    <3>3. CASE r.method = "POST" /\ Asks(r) /\ r.path.text = "/register"
      <4>1. Route(r, ok) = Page(201, Json, "registered")
              \/ Route(r, ok) = Page(409, Json, "username already exists")
        BY <3>3 DEF Route
      <4> QED
        BY <4>1, PageIsPage, ZenonT(40)
    <3>4. CASE r.method = "POST" /\ Asks(r) /\ r.path.text # "/register"
      <4>1. Route(r, ok) = Page(200, Json, "login ok")
              \/ Route(r, ok) = Page(401, Json, "invalid credentials")
        BY <3>4 DEF Route
      <4> QED
        BY <4>1, PageIsPage, ZenonT(40)
    <3> QED
      BY <3>1, <3>2, <3>3, <3>4
  <2>2. Reply(r, ok, works) = Route(r, ok)
    BY <1>2 DEF Reply
  <2> QED
    BY <2>1, <2>2 DEF IsPage
<1>3. CASE ParseOk(r) /\ ~Handles(r)
  <2> DEFINE path == r.path
  <2>1. Reply(r, ok, works) = Prepare(path, works)
    BY <1>3 DEF Reply
  <2> HIDE DEF path
  <2>2. CASE HasDots(path) \/ ~OpenFile(FileAt(path), works)
    <3>1. IsPage(Prepare(path, works))
      <4>1. \/ Prepare(path, works) = Page(403, Html, "forbidden")
            \/ Prepare(path, works) = Page(200, Html, "welcome")
            \/ Prepare(path, works) = Page(404, Html, "not found")
        BY <2>2 DEF Prepare
      <4>2. /\ IsPage(Page(403, Html, "forbidden"))
            /\ IsPage(Page(200, Html, "welcome"))
            /\ IsPage(Page(404, Html, "not found"))
        BY DEF IsPage, Page
      <4> QED
        BY <4>1, <4>2
    <3> QED
      BY <2>1, <3>1 DEF IsPage
  <2>3. CASE ~HasDots(path) /\ OpenFile(FileAt(path), works)
    <3>1. FileAt(path) # Absent
      BY <2>3 DEF OpenFile, Absent
    <3>2. FileAt(path).size \in 0..MaxFile
      BY <3>1, ExchangeAssumption DEF FileAt
    <3>3. /\ Prepare(path, works).text = 0
          /\ Prepare(path, works).file = FileAt(path).size
      BY <2>3 DEF Prepare
    <3> QED
      BY <2>1, <3>2, <3>3
  <2> QED
    BY <2>2, <2>3
<1> QED
  BY <1>1, <1>2, <1>3

\* appendWriteData() is setMappedWriteData() without a file.
LEMMA StartParts ==
  ASSUME NEW h, NEW c
  PROVE  AppendWriteData(h, c) <=> SetMappedWriteData(h, NoFile, c)
BY DEF AppendWriteData, SetMappedWriteData

\* What Respond() does of the connection, whatever the answer is.
LEMMA RespondStarts ==
  ASSUME NEW ok \in BOOLEAN, NEW works \in BOOLEAN, Respond(ok, works)
  PROVE  \E head \in 1..MaxHead, file \in 0..MaxFile \cup {NoFile}, close \in BOOLEAN :
           SetMappedWriteData(head, file, close)
<1> DEFINE request == Parse(Last(extracted))
           reply == Reply(request, ok, works)
           close == ~KeepAlive(request)
<1>1. reply.text \in {0, 1} /\ reply.file \in 0..MaxFile \cup {NoFile}
  BY ReplyShape
<1>2. IF reply.file = NoFile
      THEN AppendWriteData(HeadUnits + reply.text, close)
      ELSE SetMappedWriteData(HeadUnits, reply.file, close)
  BY DEF Respond
<1>3. close \in BOOLEAN
  OBVIOUS
<1>4. HeadUnits + reply.text \in 1..MaxHead /\ HeadUnits \in 1..MaxHead
  BY <1>1, ExchangeAssumption, ConnectionAssumption
<1> HIDE DEF request, reply, close
<1>5. CASE reply.file = NoFile
  BY <1>1, <1>2, <1>3, <1>4, <1>5, StartParts
<1>6. CASE reply.file # NoFile
  BY <1>1, <1>2, <1>3, <1>4, <1>6
<1> QED
  BY <1>5, <1>6

Typed ==
  /\ requests \in Seq(Request) /\ \A i \in 1..Len(requests) : requests[i] \in Requests
  /\ unread \in Seq(Token) /\ readBuf \in Seq(Token)
  /\ extracted \in Seq(Seq(Token))
  /\ phase \in {"read", "respond", "write", "closed"}
  /\ writeSize \in 0..MaxHead
  /\ fileSize \in 0..MaxFile \cup {NoFile}
  /\ writeOffset \in 0..writeSize
  /\ fileOffset \in 0..(IF fileSize = NoFile THEN 0 ELSE fileSize)
  /\ closeAfterWrite \in BOOLEAN
  /\ responses \in Seq(Sizes)
  /\ wire \in Seq(Unit)

\* What is left of head and file, under the types.
LEMMA LeftType ==
  ASSUME Typed
  PROVE  /\ HeadLeft \in 0..MaxHead /\ FileLeft \in 0..MaxFile
         /\ HeadLeft = writeSize - writeOffset
         /\ FileLeft = (IF fileSize = NoFile THEN 0 ELSE fileSize) - fileOffset
BY ConnectionAssumption DEF Typed, HeadLeft, FileLeft

\* What consumeWriteData(n) takes of each is not more than what is left.
LEMMA TakenType ==
  ASSUME Typed, NEW n \in 1..(HeadLeft + FileLeft)
  PROVE  /\ HeadTaken(n) \in 0..HeadLeft /\ FileTaken(n) \in 0..FileLeft
         /\ HeadTaken(n) = Lesser(n, HeadLeft) /\ FileTaken(n) = Lesser(n - HeadTaken(n), FileLeft)
BY LeftType DEF HeadTaken, FileTaken, Lesser

\* The iovecs hold what is left of both.
LEMMA IovType ==
  ASSUME Typed
  PROVE  /\ Iov \in Seq(Unit) /\ Len(Iov) = HeadLeft + FileLeft
<1>1. HeadLeft \in Nat /\ FileLeft \in Nat /\ Len(responses) \in Nat
      /\ writeOffset \in Nat /\ fileOffset \in Nat
  BY LeftType DEF Typed
<1>2. PICK a, b : a = Units(Len(responses), "head", writeOffset, HeadLeft)
                  /\ b = Units(Len(responses), "file", fileOffset, FileLeft)
  OBVIOUS
<1>3. a \in Seq(Unit) /\ Len(a) = HeadLeft /\ b \in Seq(Unit) /\ Len(b) = FileLeft
  BY <1>1, <1>2 DEF Units, Unit
<1>4. a \o b \in Seq(Unit) /\ Len(a \o b) = HeadLeft + FileLeft
  BY <1>1, <1>3
<1> QED
  BY <1>2, <1>4 DEF Iov

-----------------------------------------------------------------------------
(* What is on the wire *)

Answer(k, r) == Units(k, "head", 0, r.head) \o Units(k, "file", 0, r.file)
Answers(rs) == [k \in 1..Len(rs) |-> Answer(k, rs[k])]
All == FlattenSeq(Answers(responses))

\* The last response is the one that is being written, and what is on the
\* wire with what the iovecs still hold is every response, whole.
WireInv ==
  /\ phase = "write" =>
       /\ responses # <<>>
       /\ responses[Len(responses)]
            = [head |-> writeSize, file |-> IF fileSize = NoFile THEN 0 ELSE fileSize]
       /\ wire \o Iov = All
  /\ phase # "write" => wire = All

\* A response is a sequence of units.
LEMMA AnswerType ==
  ASSUME NEW k \in Nat, NEW r \in Sizes
  PROVE  Answer(k, r) \in Seq(Unit)
<1>1. PICK h \in Nat, f \in Nat : h = r.head /\ f = r.file
  BY ConnectionAssumption DEF Sizes
<1>2. PICK a, b : a = Units(k, "head", 0, h) /\ b = Units(k, "file", 0, f)
  OBVIOUS
<1>3. a \in Seq(Unit) /\ b \in Seq(Unit)
  BY <1>2 DEF Units, Unit
<1>4. a \o b \in Seq(Unit)
  BY <1>3
<1> QED
  BY <1>1, <1>2, <1>4 DEF Answer

\* Responses are sequences of units.
LEMMA AnswersType ==
  ASSUME NEW rs \in Seq(Sizes)
  PROVE  Answers(rs) \in Seq(Seq(Unit)) /\ Len(Answers(rs)) = Len(rs)
<1>1. ASSUME NEW k \in 1..Len(rs) PROVE Answer(k, rs[k]) \in Seq(Unit)
  <2>1. rs[k] \in Sizes /\ k \in Nat
    OBVIOUS
  <2> QED
    BY <2>1, AnswerType
<1> QED
  BY <1>1 DEF Answers

\* One response more is one answer more.
LEMMA AnswersPush ==
  ASSUME NEW rs \in Seq(Sizes), NEW r \in Sizes, NEW n \in Nat, n = Len(rs) + 1
  PROVE  /\ Answers(Append(rs, r)) = Append(Answers(rs), Answer(n, r))
         /\ Answer(n, r) \in Seq(Unit)
<1>1. Answer(n, r) \in Seq(Unit)
  BY AnswerType
<1>2. PICK a \in Seq(Unit) : a = Answer(n, r)
  BY <1>1
<1>3. PICK s \in Seq(Seq(Unit)) : s = Answers(rs) /\ Len(s) = Len(rs)
                                  /\ \A k \in 1..Len(rs) : s[k] = Answer(k, rs[k])
  BY AnswersType DEF Answers
<1>4. PICK rs2 \in Seq(Sizes) : rs2 = Append(rs, r)
  <2>1. Append(rs, r) \in Seq(Sizes)
    OBVIOUS
  <2> QED
    BY <2>1
<1>5. Len(rs2) = n /\ rs2[n] = r /\ \A k \in 1..Len(rs) : rs2[k] = rs[k]
  BY <1>4
<1>6. PICK t \in Seq(Seq(Unit)) : t = Answers(rs2) /\ Len(t) = n
                                  /\ \A k \in 1..n : t[k] = Answer(k, rs2[k])
  BY <1>5, AnswersType DEF Answers
<1>7. Append(s, a) \in Seq(Seq(Unit)) /\ Len(Append(s, a)) = n
  BY <1>3
<1>8. ASSUME NEW k \in 1..n PROVE t[k] = Append(s, a)[k]
  <2>1. CASE k = n
    <3>1. Append(s, a)[n] = a
      BY <1>3
    <3>2. t[n] = Answer(n, r)
      BY <1>5, <1>6
    <3> QED
      BY <1>2, <2>1, <3>1, <3>2
  <2>2. CASE k # n
    <3>1. k \in 1..Len(rs)
      BY <2>2
    <3>2. Append(s, a)[k] = s[k]
      BY <1>3, <3>1
    <3>3. t[k] = Answer(k, rs[k])
      BY <1>5, <1>6, <3>1
    <3> QED
      BY <1>3, <3>1, <3>2, <3>3
  <2> QED
    BY <2>1, <2>2
<1>9. t = Append(s, a)
  BY <1>6, <1>7, <1>8, SeqEqual
<1> QED
  BY <1>1, <1>2, <1>3, <1>4, <1>6, <1>9

\* A new response is put behind all that has been sent.
LEMMA AnswersGrow ==
  ASSUME NEW rs \in Seq(Sizes), NEW r \in Sizes
  PROVE  FlattenSeq(Answers(Append(rs, r))) = FlattenSeq(Answers(rs)) \o Answer(Len(rs) + 1, r)
<1>1. PICK n \in Nat : n = Len(rs) + 1
  OBVIOUS
<1>2. Answers(Append(rs, r)) = Append(Answers(rs), Answer(n, r)) /\ Answer(n, r) \in Seq(Unit)
  BY <1>1, AnswersPush
<1>3. PICK s \in Seq(Seq(Unit)), a \in Seq(Unit) : s = Answers(rs) /\ a = Answer(n, r)
  BY <1>2, AnswersType
<1>4. FlattenSeq(Append(s, a)) = FlattenSeq(s) \o a
  BY FlattenAppend
<1> QED
  BY <1>1, <1>2, <1>3, <1>4

\* writev() takes n units of v off the iovecs and puts them on the wire.
GoesOn(w, k, from, head, at, file, n, h, f) ==
  (w \o SubSeq(Units(k, "head", from, head) \o Units(k, "file", at, file), 1, n))
    \o (Units(k, "head", from + h, head - h) \o Units(k, "file", at + f, file - f))
  = w \o (Units(k, "head", from, head) \o Units(k, "file", at, file))

\* A writev() of n units moves them from the iovecs to the wire.
LEMMA WriteGoesOn ==
  ASSUME NEW w \in Seq(Unit), NEW k \in Nat,
         NEW from \in Nat, NEW head \in Nat, NEW at \in Nat, NEW file \in Nat,
         NEW n \in 1..(head + file), NEW h \in 0..head, NEW f \in 0..file,
         h = Lesser(n, head), f = Lesser(n - h, file)
  PROVE  GoesOn(w, k, from, head, at, file, n, h, f)
<1>1. /\ Units(k, "head", from, head) \in Seq(Unit)
      /\ Len(Units(k, "head", from, head)) = head
      /\ Units(k, "file", at, file) \in Seq(Unit)
      /\ Len(Units(k, "file", at, file)) = file
  BY DEF Units, Unit
<1>2. PICK a \in Seq(Unit), b \in Seq(Unit) :
        /\ a = Units(k, "head", from, head) /\ Len(a) = head
        /\ b = Units(k, "file", at, file) /\ Len(b) = file
  BY <1>1
<1>3. a \o b \in Seq(Unit) /\ Len(a \o b) = head + file
  BY <1>2, ConcatProperties, ZenonT(40)
<1>4. PICK v \in Seq(Unit) : v = a \o b /\ Len(v) = head + file
  BY <1>3
<1>5. n \in 0..Len(v)
  BY <1>4
<1>6. (w \o SubSeq(v, 1, n)) \o SubSeq(v, n + 1, Len(v)) = w \o v
  BY <1>5, TwoParts
<1>7. Units(k, "head", from + h, head - h) \o Units(k, "file", at + f, file - f)
        = SubSeq(Units(k, "head", from, head) \o Units(k, "file", at, file),
                 n + 1, head + file)
  <2>1. DrainedTo(k, from, head, at, file, n, h, f)
    BY Drained
  <2> QED
    BY <2>1 DEF DrainedTo
<1> QED
  BY <1>2, <1>4, <1>6, <1>7 DEF GoesOn

-----------------------------------------------------------------------------
(* The steps: types and the wire *)

\* A step of the exchange as the connection sees it.
ConnStep ==
  \/ \E k \in 1..Len(unread) : AppendReadData(k)
  \/ ExtractOneRequest
  \/ \E n \in 1..Len(Iov) : Writev(n)
  \/ ClearWriteData
  \/ \E head \in 1..MaxHead, file \in 0..MaxFile \cup {NoFile}, close \in BOOLEAN :
       SetMappedWriteData(head, file, close)
  \/ UNCHANGED vars

\* Every step of the exchange is one of the connection.
LEMMA StepOfConn ==
  ASSUME [ExchangeNext]_exchangeVars
  PROVE  ConnStep
<1>1. CASE ExchangeNext
  <2>1. CASE Transfer
    <3>1. ASSUME NEW n \in 1..(MaxHead + MaxFile), Writev(n) PROVE n \in 1..Len(Iov)
      BY <3>1 DEF Writev
    <3> QED
      BY <2>1, <3>1 DEF Transfer, ConnStep
  <2>2. CASE Over
    BY <2>2 DEF Over, ConnStep
  <2>3. CASE \E ok, works \in BOOLEAN : Respond(ok, works)
    BY <2>3, RespondStarts DEF ConnStep
  <2> QED
    BY <1>1, <2>1, <2>2, <2>3 DEF ExchangeNext
<1>2. CASE UNCHANGED exchangeVars
  BY <1>2 DEF exchangeVars, ConnStep
<1> QED
  BY <1>1, <1>2

\* A new connection has the types.
LEMMA TypedInit ==
  ASSUME ExchangeInit
  PROVE  Typed
<1>1. requests \in Seq(Request) /\ \A i \in 1..Len(requests) : requests[i] \in Requests
  <2>1. PICK m \in 0..MaxRequests : requests \in [1..m -> Requests]
    BY DEF ExchangeInit, Init, BoundedSeq, SeqOf
  <2>2. Requests \subseteq Request
    BY ConnectionAssumption DEF Request
  <2> QED
    BY <2>1, <2>2, ConnectionAssumption
<1>2. unread \in Seq(Token)
  <2>1. Stream(requests) \in Seq(Token)
    BY <1>1, WholesType
  <2> QED
    BY <2>1 DEF ExchangeInit, Init
<1>3. /\ <<>> \in Seq(Token) /\ <<>> \in Seq(Seq(Token))
      /\ <<>> \in Seq(Sizes) /\ <<>> \in Seq(Unit)
  OBVIOUS
<1>4. 0 \in 0..MaxHead /\ 0 \in 0..0
  BY ConnectionAssumption
<1>5. /\ readBuf = <<>> /\ extracted = <<>> /\ responses = <<>> /\ wire = <<>>
      /\ phase = "read" /\ writeSize = 0 /\ fileSize = NoFile
      /\ writeOffset = 0 /\ fileOffset = 0 /\ closeAfterWrite = FALSE
  BY DEF ExchangeInit, Init
<1>6. /\ readBuf \in Seq(Token) /\ extracted \in Seq(Seq(Token))
      /\ responses \in Seq(Sizes) /\ wire \in Seq(Unit)
  BY <1>3, <1>5
<1>7. /\ phase \in {"read", "respond", "write", "closed"}
      /\ writeSize \in 0..MaxHead
      /\ fileSize \in 0..MaxFile \cup {NoFile}
      /\ writeOffset \in 0..writeSize
      /\ fileOffset \in 0..(IF fileSize = NoFile THEN 0 ELSE fileSize)
      /\ closeAfterWrite \in BOOLEAN
  BY <1>4, <1>5
<1> QED
  BY <1>1, <1>2, <1>6, <1>7 DEF Typed

\* appendReadData() keeps the types.
LEMMA AppendReadTyped ==
  ASSUME Typed, NEW k \in 1..Len(unread), AppendReadData(k)
  PROVE  Typed'
<1>1. PICK u \in Seq(Token), b \in Seq(Token) : u = unread /\ b = readBuf
  BY DEF Typed
<1>2. SubSeq(u, k + 1, Len(u)) \in Seq(Token) /\ b \o SubSeq(u, 1, k) \in Seq(Token)
  BY <1>1
<1>3. unread' \in Seq(Token) /\ readBuf' \in Seq(Token)
  BY <1>1, <1>2 DEF AppendReadData
<1> QED
  BY <1>3 DEF Typed, AppendReadData, output

\* extractOneRequest() keeps the types.
LEMMA ExtractTyped ==
  ASSUME Typed, ExtractOneRequest
  PROVE  Typed'
<1>1. PICK n : n = TotalLen(readBuf)
  OBVIOUS
<1>2. PICK b \in Seq(Token) : b = readBuf
  BY DEF Typed
<1>3. n \in 0..Len(b)
  <2>1. Len(b) >= n
    BY <1>1, <1>2 DEF ExtractOneRequest, Complete
  <2>2. n \in Nat
    BY <1>1, <1>2, TotalLenType
  <2> QED
    BY <2>1, <2>2
<1>4. SubSeq(b, 1, n) \in Seq(Token) /\ SubSeq(b, n + 1, Len(b)) \in Seq(Token)
  BY <1>3
<1>5. readBuf' \in Seq(Token) /\ extracted' \in Seq(Seq(Token))
  <2>1. readBuf' = SubSeq(b, n + 1, Len(b)) /\ extracted' = Append(extracted, SubSeq(b, 1, n))
    BY <1>1, <1>2 DEF ExtractOneRequest
  <2>2. extracted \in Seq(Seq(Token))
    BY DEF Typed
  <2> QED
    BY <1>4, <2>1, <2>2
<1> QED
  BY <1>5 DEF Typed, ExtractOneRequest, output

\* writev() with consumeWriteData() keeps the types.
LEMMA WritevTyped ==
  ASSUME Typed, NEW n \in 1..Len(Iov), Writev(n)
  PROVE  Typed'
<1>1. n \in 1..(HeadLeft + FileLeft)
  BY IovType
<1>2. HeadTaken(n) \in 0..HeadLeft /\ FileTaken(n) \in 0..FileLeft
  BY <1>1, TakenType
<1>3. /\ writeOffset' = writeOffset + HeadTaken(n)
      /\ fileOffset' = fileOffset + FileTaken(n)
      /\ wire' = wire \o SubSeq(Iov, 1, n)
  BY DEF Writev, ConsumeWriteData
<1>4. wire' \in Seq(Unit)
  <2>1. PICK v \in Seq(Unit), w \in Seq(Unit) : v = Iov /\ w = wire
    BY IovType DEF Typed
  <2>2. w \o SubSeq(v, 1, n) \in Seq(Unit)
    BY <2>1
  <2> QED
    BY <1>3, <2>1, <2>2
<1>5. writeOffset' \in 0..writeSize
  <2>1. PICK w \in Nat, h \in 0..HeadLeft :
          w = writeOffset /\ h = HeadTaken(n) /\ writeOffset' = w + h
    <3>1. writeOffset \in Nat
      BY DEF Typed
    <3> QED
      BY <1>2, <1>3, <3>1
  <2>2. HeadLeft = writeSize - w /\ writeSize \in Nat
    BY <2>1, LeftType DEF Typed
  <2> QED
    BY <2>1, <2>2
<1>6. fileOffset' \in 0..(IF fileSize = NoFile THEN 0 ELSE fileSize)
  <2>1. PICK o \in Nat, f \in 0..FileLeft :
          o = fileOffset /\ f = FileTaken(n) /\ fileOffset' = o + f
    <3>1. fileOffset \in Nat
      BY DEF Typed
    <3> QED
      BY <1>2, <1>3, <3>1
  <2>2. PICK size \in Nat : size = IF fileSize = NoFile THEN 0 ELSE fileSize
    BY ConnectionAssumption DEF Typed
  <2>3. FileLeft = size - o
    BY <2>1, <2>2, LeftType
  <2> QED
    BY <2>1, <2>2, <2>3
<1> QED
  BY <1>4, <1>5, <1>6 DEF Typed, Writev, input

\* clearWriteData() keeps the types.
LEMMA ClearTyped ==
  ASSUME Typed, ClearWriteData
  PROVE  Typed'
<1>1. 0 \in 0..MaxHead /\ 0 \in 0..0 /\ phase' \in {"read", "closed"}
  BY ConnectionAssumption DEF ClearWriteData, AfterWrite
<1> QED
  BY <1>1 DEF Typed, ClearWriteData, input

\* setMappedWriteData() keeps the types.
LEMMA StartTyped ==
  ASSUME Typed, NEW head \in 1..MaxHead, NEW file \in 0..MaxFile \cup {NoFile},
         NEW close \in BOOLEAN, SetMappedWriteData(head, file, close)
  PROVE  Typed'
<1>1. [head |-> head, file |-> IF file = NoFile THEN 0 ELSE file] \in Sizes
  BY ConnectionAssumption DEF Sizes
<1>2. responses' \in Seq(Sizes)
  BY <1>1 DEF Typed, SetMappedWriteData, Start
<1>3. head \in 0..MaxHead /\ 0 \in 0..head
  OBVIOUS
<1>4. 0 \in 0..(IF file = NoFile THEN 0 ELSE file)
  BY ConnectionAssumption
<1> QED
  BY <1>2, <1>3, <1>4 DEF Typed, SetMappedWriteData, Start, input

\* Every step keeps the types.
LEMMA TypedNext ==
  ASSUME Typed, ConnStep
  PROVE  Typed'
<1>1. CASE UNCHANGED vars
  BY <1>1 DEF vars, input, output, Typed
<1> QED
  BY <1>1, AppendReadTyped, ExtractTyped, WritevTyped, ClearTyped, StartTyped
  DEF ConnStep
-----------------------------------------------------------------------------
\* The test of fileOffset in FileLeft never fails under the types.
LEMMA LeftOf ==
  ASSUME NEW size \in Nat, NEW off \in 0..size
  PROVE  (IF off < size THEN size - off ELSE 0) = size - off
OBVIOUS

\* Nothing is on a new connection.
LEMMA WireInit ==
  ASSUME ExchangeInit
  PROVE  WireInv
<1>1. Len(Answers(<<>>)) = 0 /\ Answers(<<>>) = <<>>
  BY DEF Answers
<1>2. FlattenSeq(Answers(<<>>)) = <<>>
  BY <1>1, FlattenEmpty
<1> QED
  BY <1>2 DEF ExchangeInit, Init, WireInv, All

\* writev() keeps wire and iovecs together.
LEMMA WritevWire ==
  ASSUME Typed, WireInv, NEW n \in 1..Len(Iov), Writev(n)
  PROVE  WireInv'
<1>1. n \in 1..(HeadLeft + FileLeft)
  BY IovType
<1>2. PICK k \in Nat, w \in Seq(Unit), from \in Nat, head \in Nat, at \in Nat, file \in Nat :
        /\ k = Len(responses) /\ w = wire /\ from = writeOffset /\ head = HeadLeft
        /\ at = fileOffset /\ file = FileLeft
  <2>1. /\ Len(responses) \in Nat /\ wire \in Seq(Unit)
        /\ writeOffset \in Nat /\ fileOffset \in Nat
    BY DEF Typed
  <2>2. HeadLeft \in Nat /\ FileLeft \in Nat
    BY LeftType
  <2> QED
    BY <2>1, <2>2
<1>3. PICK h \in 0..head, f \in 0..file :
        h = HeadTaken(n) /\ f = FileTaken(n) /\ h = Lesser(n, head) /\ f = Lesser(n - h, file)
  BY <1>1, <1>2, TakenType
<1>4. GoesOn(w, k, from, head, at, file, n, h, f)
  BY <1>1, <1>2, <1>3, WriteGoesOn
<1>5. Iov' = Units(k, "head", from + h, head - h) \o Units(k, "file", at + f, file - f)
  <2>1. /\ writeOffset' = from + h /\ fileOffset' = at + f
        /\ writeSize' = writeSize /\ fileSize' = fileSize /\ responses' = responses
    BY <1>2, <1>3 DEF Writev, ConsumeWriteData
  <2>2. Typed'
    BY WritevTyped
  <2>3. HeadLeft' = head - h
    <3>1. HeadLeft' = writeSize' - writeOffset'
      BY DEF HeadLeft
    <3>2. head = writeSize - from
      BY <1>2, LeftType
    <3> QED
      BY <2>1, <3>1, <3>2 DEF Typed
  <2>4. FileLeft' = file - f
    <3>1. FileLeft' = (IF fileSize' = NoFile THEN 0 ELSE fileSize') - fileOffset'
      <4>1. /\ fileSize' \in 0..MaxFile \cup {NoFile}
            /\ fileOffset' \in 0..(IF fileSize' = NoFile THEN 0 ELSE fileSize')
        BY <2>2 DEF Typed
      <4>2. FileLeft' = IF fileSize' = NoFile THEN 0
                        ELSE IF fileOffset' < fileSize' THEN fileSize' - fileOffset' ELSE 0
        BY DEF FileLeft
      <4>3. CASE fileSize' = NoFile
        BY <4>1, <4>2, <4>3
      <4>4. CASE fileSize' # NoFile
        <5>1. fileSize' \in Nat /\ fileOffset' \in 0..fileSize'
          BY <4>1, <4>4, ConnectionAssumption
        <5>2. PICK size \in Nat : size = fileSize'
          BY <5>1
        <5>3. PICK off \in 0..size : off = fileOffset'
          BY <5>1, <5>2
        <5>4. (IF off < size THEN size - off ELSE 0) = size - off
          BY LeftOf
        <5> QED
          BY <4>2, <4>4, <5>2, <5>3, <5>4
      <4> QED
        BY <4>3, <4>4
    <3>2. file = (IF fileSize = NoFile THEN 0 ELSE fileSize) - at
      BY <1>2, LeftType
    <3>3. (IF fileSize = NoFile THEN 0 ELSE fileSize) \in Nat
      BY ConnectionAssumption DEF Typed
    <3> QED
      BY <2>1, <3>1, <3>2, <3>3
  <2> QED
    BY <1>2, <2>1, <2>3, <2>4 DEF Iov
<1>6. /\ wire' = w \o SubSeq(Iov, 1, n) /\ phase' = "write" /\ phase = "write"
      /\ UNCHANGED <<responses, writeSize, fileSize>>
  BY <1>2 DEF Writev
<1>7. Iov = Units(k, "head", from, head) \o Units(k, "file", at, file)
  BY <1>2 DEF Iov
<1>8. wire' \o Iov' = w \o Iov
  BY <1>4, <1>5, <1>6, <1>7 DEF GoesOn
<1> QED
  BY <1>2, <1>6, <1>8 DEF WireInv, All

\* clearWriteData() comes when all has been written.
LEMMA ClearWire ==
  ASSUME Typed, WireInv, ClearWriteData
  PROVE  WireInv'
<1>1. HeadLeft = 0 /\ FileLeft = 0
  BY LeftType DEF ClearWriteData, HasWriteData
<1>2. Len(Iov) = 0 /\ Iov \in Seq(Unit)
  BY <1>1, IovType
<1>3. wire \o Iov = wire
  <2>1. PICK w \in Seq(Unit) : w = wire
    BY DEF Typed
  <2>2. w \o <<>> = w
    OBVIOUS
  <2>3. Iov = <<>>
    BY <1>2
  <2> QED
    BY <2>1, <2>2, <2>3
<1> QED
  BY <1>3 DEF WireInv, All, ClearWriteData, AfterWrite

\* A new response is put behind what has been sent.
LEMMA StartWire ==
  ASSUME Typed, WireInv, NEW head \in 1..MaxHead, NEW file \in 0..MaxFile \cup {NoFile},
         NEW close \in BOOLEAN, SetMappedWriteData(head, file, close)
  PROVE  WireInv'
<1>1. PICK r \in Sizes : r = [head |-> head, file |-> IF file = NoFile THEN 0 ELSE file]
  <2>1. [head |-> head, file |-> IF file = NoFile THEN 0 ELSE file] \in Sizes
    BY ConnectionAssumption DEF Sizes
  <2> QED
    BY <2>1
<1>2. PICK rs \in Seq(Sizes) : rs = responses
  BY DEF Typed
<1>3. /\ phase = "respond" /\ phase' = "write" /\ wire' = wire
      /\ responses' = Append(rs, r) /\ writeSize' = head /\ fileSize' = file
      /\ writeOffset' = 0 /\ fileOffset' = 0
  BY <1>1, <1>2 DEF SetMappedWriteData, Start
<1>4. Append(rs, r) # <<>> /\ Append(rs, r)[Len(Append(rs, r))] = r
      /\ Len(Append(rs, r)) = Len(rs) + 1
  OBVIOUS
<1>5. FlattenSeq(Answers(Append(rs, r))) = FlattenSeq(Answers(rs)) \o Answer(Len(rs) + 1, r)
  BY AnswersGrow
<1>6. Iov' = Answer(Len(rs) + 1, r)
  <2>1. HeadLeft' = r.head
    BY <1>1, <1>3 DEF HeadLeft
  <2>2. FileLeft' = r.file
    BY <1>1, <1>3, ConnectionAssumption DEF FileLeft
  <2> QED
    BY <1>3, <1>4, <2>1, <2>2 DEF Iov, Answer
<1>7. wire' \o Iov' = All'
  BY <1>2, <1>3, <1>5, <1>6 DEF WireInv, All
<1> QED
  BY <1>1, <1>3, <1>4, <1>7 DEF WireInv

\* Every step keeps what is said of the wire.
LEMMA WireNext ==
  ASSUME Typed, WireInv, ConnStep
  PROVE  WireInv'
<1>1. CASE UNCHANGED <<phase, output>>
  BY <1>1 DEF output, WireInv, All, Iov, HeadLeft, FileLeft
<1>2. CASE \E k \in 1..Len(unread) : AppendReadData(k)
  BY <1>2 DEF AppendReadData, output, WireInv, All
<1>3. CASE ExtractOneRequest
  BY <1>3 DEF ExtractOneRequest, output, WireInv, All
<1>4. UNCHANGED vars => UNCHANGED <<phase, output>>
  BY DEF vars
<1> QED
  BY <1>1, <1>2, <1>3, <1>4, WritevWire, ClearWire, StartWire DEF ConnStep

-----------------------------------------------------------------------------
(* Cutting the stream into requests *)

\* The request line or its like, the header lines and the empty line.
HeadOf(r) == <<r.line>> \o r.headers \o <<Blank>>

\* The parts of the head of a request.
LEMMA HeadParts ==
  ASSUME NEW r \in Request
  PROVE  /\ HeadOf(r) \in Seq(Token) /\ Len(HeadOf(r)) = Len(r.headers) + 2
         /\ HeadOf(r)[1] = r.line
         /\ \A i \in 1..Len(r.headers) : HeadOf(r)[i + 1] = r.headers[i]
         /\ HeadOf(r)[Len(r.headers) + 2] = Blank
         /\ Len(r.headers) \in Nat /\ Len(r.body) \in Nat
<1>1. Blank \in Token
  BY DEF Token
<1>2. r.line \in Token /\ r.headers \in Seq(Token) /\ r.body \in Seq(Token)
  BY DEF Request
<1>3. PICK x \in Token, h \in Seq(Token), y \in Token :
        x = r.line /\ h = r.headers /\ y = Blank
  BY <1>1, <1>2
<1>4. PICK w : w = <<x>> \o h \o <<y>>
  OBVIOUS
<1>5. /\ w \in Seq(Token) /\ Len(w) = Len(h) + 2
      /\ w[1] = x
      /\ \A i \in 1..Len(h) : w[i + 1] = h[i]
      /\ w[Len(h) + 2] = y
  BY <1>4
<1>6. w = HeadOf(r)
  BY <1>3, <1>4 DEF HeadOf
<1>7. Len(r.headers) \in Nat /\ Len(r.body) \in Nat
  BY <1>2
<1> QED
  BY <1>3, <1>5, <1>6, <1>7

Assoc(s, t, u) == (s \o t) \o u = s \o (t \o u)

\* Concatenation is associative.
LEMMA ConcatAssoc ==
  ASSUME NEW S, NEW s \in Seq(S), NEW t \in Seq(S), NEW u \in Seq(S)
  PROVE  Assoc(s, t, u)
BY ConcatAssociative DEF Assoc

\* Two sequences that are the same to their ends are the same where both are.
LEMMA SameFront ==
  ASSUME NEW S, NEW a \in Seq(S), NEW b \in Seq(S), NEW c \in Seq(S), NEW d \in Seq(S),
         a \o b = c \o d
  PROVE  \A i \in 1..Len(a) : i <= Len(c) => a[i] = c[i]
<1> SUFFICES ASSUME NEW i \in 1..Len(a), i <= Len(c) PROVE a[i] = c[i]
  OBVIOUS
<1>1. (a \o b)[i] = a[i]
  OBVIOUS
<1>2. (c \o d)[i] = c[i]
  OBVIOUS
<1> QED
  BY <1>1, <1>2

\* If two splits of a sequence differ, the longer first part has the shorter
\* in it.
LEMMA SameCut ==
  ASSUME NEW S, NEW a \in Seq(S), NEW b \in Seq(S), NEW c \in Seq(S), NEW d \in Seq(S),
         a \o b = c \o d, Len(a) >= Len(c)
  PROVE  /\ SubSeq(a, 1, Len(c)) = c
         /\ SubSeq(a, Len(c) + 1, Len(a)) \o b = d
<1>1. PICK n \in 0..Len(a) : n = Len(c)
  OBVIOUS
<1>2. PICK x \in Seq(S), y \in Seq(S) :
        x = SubSeq(a, 1, n) /\ y = SubSeq(a, n + 1, Len(a)) /\ x \o y = a
  <2>1. /\ SubSeq(a, 1, n) \in Seq(S) /\ SubSeq(a, n + 1, Len(a)) \in Seq(S)
        /\ SubSeq(a, 1, n) \o SubSeq(a, n + 1, Len(a)) = a
    BY Halves
  <2> QED
    BY <2>1
<1>3. Len(x) = n /\ \A i \in 1..n : x[i] = a[i]
  BY <1>2
<1>4. \A i \in 1..n : a[i] = c[i]
  BY <1>1, SameFront
<1>5. x = c
  BY <1>1, <1>3, <1>4, SeqEqual
<1>6. Assoc(x, y, b)
  BY ConcatAssoc
<1>7. c \o (y \o b) = c \o d
  BY <1>2, <1>5, <1>6 DEF Assoc
<1>8. y \o b \in Seq(S)
  BY ConcatProperties
<1>9. y \o b = d
  BY <1>7, <1>8, ConcatSimplifications
<1> QED
  BY <1>1, <1>2, <1>5, <1>9

\* A request is its head and its body.
LEMMA WholeSplit ==
  ASSUME NEW r \in Request
  PROVE  /\ Len(Whole(r)) = Len(HeadOf(r)) + Len(r.body)
         /\ \A i \in 1..Len(HeadOf(r)) : Whole(r)[i] = HeadOf(r)[i]
<1>1. PICK w \in Seq(Token), h \in Seq(Token), b \in Seq(Token) :
        w = Whole(r) /\ h = HeadOf(r) /\ b = r.body
  BY WholeParts, HeadParts DEF Request
<1>2. w = h \o b
  BY <1>1 DEF Whole, HeadOf
<1>3. Len(w) = Len(h) + Len(b) /\ \A i \in 1..Len(h) : w[i] = h[i]
  BY <1>2
<1> QED
  BY <1>1, <1>3

\* The first empty line of a request is the one behind its headers.
LEMMA HeadEnds ==
  ASSUME NEW r \in Request, WellFramed(r), NEW i \in 1..Len(HeadOf(r))
  PROVE  HeadOf(r)[i] = Blank <=> i = Len(HeadOf(r))
<1>1. PICK n \in Nat : n = Len(r.headers)
  BY HeadParts
<1>2. CASE i = 1
  BY <1>1, <1>2, HeadParts DEF WellFramed
<1>3. CASE i # 1 /\ i # n + 2
  <2>1. i - 1 \in 1..n /\ i = (i - 1) + 1
    BY <1>1, <1>3, HeadParts
  <2>2. HeadOf(r)[i] = r.headers[i - 1]
    BY <1>1, <2>1, HeadParts
  <2> QED
    BY <1>1, <1>3, <2>1, <2>2, HeadParts DEF WellFramed
<1>4. CASE i = n + 2
  BY <1>1, <1>4, HeadParts
<1> QED
  BY <1>2, <1>3, <1>4

FirstDeclared(r, i) ==
  FirstIn({j \in 1..Len(r.headers) : IsDeclared(r.headers[j])}, i, Len(r.headers))

\* Declared() looks at the first Content-Length.
LEMMA DeclaredSelected ==
  ASSUME NEW r \in Request
  PROVE  FirstDeclared(r, SelectInSeq(r.headers, IsDeclared))
<1> DEFINE T == {i \in 1..Len(r.headers) : IsDeclared(r.headers[i])}
<1>1. SelectInSeq(r.headers, IsDeclared) = IF T # {} THEN Min(T) ELSE 0
  BY DEF SelectInSeq
<1>2. T \in SUBSET (1..Len(r.headers))
  OBVIOUS
<1> HIDE DEF T
<1>3. FirstIn(T, SelectInSeq(r.headers, IsDeclared), Len(r.headers))
  <2>1. PICK n \in Nat : n = Len(r.headers)
    BY HeadParts
  <2>2. FirstIn(T, IF T # {} THEN Min(T) ELSE 0, n)
    BY <1>2, <2>1, SelectFirst
  <2> QED
    BY <1>1, <2>1, <2>2
<1> QED
  BY <1>3 DEF FirstDeclared, T

\* In the headers of a request that is framed well the server reads the
\* length that the client has declared.
LEMMA LengthUnderstood ==
  ASSUME NEW r \in Request, WellFramed(r)
  PROVE  ParseContentLength(HeadOf(r)) = Len(r.body)
<1>1. PICK hs \in Seq(Token), n \in Nat : hs = HeadOf(r) /\ n = Len(r.headers)
  BY HeadParts
<1>2. PICK i : i = SelectInSeq(hs, IsLength) /\ FirstLength(hs, i)
  BY LengthSelected
<1>3. PICK d : d = SelectInSeq(r.headers, IsDeclared) /\ FirstDeclared(r, d)
  BY DeclaredSelected
<1>4. /\ Len(hs) = n + 2 /\ hs[1] = r.line /\ hs[n + 2] = Blank
      /\ \A j \in 1..n : hs[j + 1] = r.headers[j]
  BY <1>1, HeadParts
<1>5. \A j \in 1..n : IsLength(r.headers[j]) <=> IsDeclared(r.headers[j])
  BY <1>1 DEF WellFramed, IsLength, IsDeclared
<1>6. ~IsLength(hs[1]) /\ ~IsLength(hs[n + 2])
  BY <1>4 DEF WellFramed, IsLength, Blank
<1>7. \A j \in 2..(n + 1) : IsLength(hs[j]) <=> IsDeclared(r.headers[j - 1])
  <2> SUFFICES ASSUME NEW j \in 2..(n + 1)
               PROVE  IsLength(hs[j]) <=> IsDeclared(r.headers[j - 1])
    OBVIOUS
  <2>1. PICK k \in 1..n : j = k + 1
    <3>1. j - 1 \in 1..n /\ j = (j - 1) + 1
      OBVIOUS
    <3> QED
      BY <3>1
  <2>2. hs[j] = r.headers[k] /\ j - 1 = k
    BY <1>4, <2>1
  <2> QED
    BY <1>5, <2>2
<1>8. /\ d \in 0..n
      /\ d = 0 => \A j \in 1..n : ~IsDeclared(r.headers[j])
      /\ d # 0 => /\ IsDeclared(r.headers[d])
                  /\ \A j \in 1..(d - 1) : ~IsDeclared(r.headers[j])
  <2> DEFINE T == {j \in 1..n : IsDeclared(r.headers[j])}
  <2>1. FirstIn(T, d, n)
    BY <1>1, <1>3 DEF FirstDeclared
  <2>2. \A j \in 1..n : j \in T <=> IsDeclared(r.headers[j])
    OBVIOUS
  <2> HIDE DEF T
  <2>3. /\ d \in 0..n
        /\ d = 0 => T = {}
        /\ d # 0 => d \in T /\ \A j \in 1..(d - 1) : j \notin T
    BY <2>1 DEF FirstIn
  <2> QED
    BY <2>2, <2>3
<1>9. /\ i \in 0..(n + 2)
      /\ i = 0 => \A j \in 1..(n + 2) : ~IsLength(hs[j])
      /\ i # 0 => /\ IsLength(hs[i])
                  /\ \A j \in 1..(i - 1) : ~IsLength(hs[j])
  <2> DEFINE T == {j \in 1..(n + 2) : IsLength(hs[j])}
  <2>1. FirstIn(T, i, n + 2)
    BY <1>2, <1>4 DEF FirstLength
  <2>2. \A j \in 1..(n + 2) : j \in T <=> IsLength(hs[j])
    OBVIOUS
  <2> HIDE DEF T
  <2>3. /\ i \in 0..(n + 2)
        /\ i = 0 => T = {}
        /\ i # 0 => i \in T /\ \A j \in 1..(i - 1) : j \notin T
    BY <2>1 DEF FirstIn
  <2> QED
    BY <2>2, <2>3
<1>10. ParseContentLength(hs)
         = IF i = 0 THEN 0 ELSE IF hs[i].n < SizeMod THEN hs[i].n ELSE 0
  BY <1>2 DEF ParseContentLength
<1>11. Len(r.body) = IF d = 0 THEN 0 ELSE r.headers[d].n
  BY <1>3 DEF WellFramed, Declared
<1>12. Len(r.body) < SizeMod /\ Len(r.body) \in Nat
  <2>1. Len(Whole(r)) = Len(r.headers) + 2 + Len(r.body) /\ Len(Whole(r)) < SizeMod
    BY WholeParts DEF WellFramed
  <2> QED
    <3>1. PICK a \in Nat, b \in Nat, w \in Nat :
            a = Len(r.headers) /\ b = Len(r.body) /\ w = SizeMod
      BY HeadParts, ConnectionAssumption
    <3>2. a + 2 + b < w
      BY <2>1, <3>1
    <3>3. b < w
      BY <3>2
    <3> QED
      BY <3>1, <3>3
<1>13. CASE d = 0
  <2>1. i = 0
    <3> SUFFICES ASSUME i # 0 PROVE FALSE
      OBVIOUS
    <3>1. i # 1 /\ i # n + 2 /\ IsLength(hs[i])
      BY <1>6, <1>9
    <3>2. i \in 2..(n + 1) /\ i - 1 \in 1..n
      BY <1>9, <3>1
    <3> QED
      BY <1>7, <1>8, <1>13, <3>1, <3>2
  <2> QED
    BY <1>1, <1>10, <1>11, <1>13, <2>1
<1>14. CASE d # 0
  <2>1. d \in 1..n /\ d + 1 \in 2..(n + 1) /\ (d + 1) - 1 = d
    BY <1>8, <1>14
  <2>2. IsLength(hs[d + 1])
    BY <1>7, <1>8, <1>14, <2>1
  <2>3. i # 0 /\ i <= d + 1
    BY <1>9, <2>1, <2>2
  <2>4. i = d + 1
    <3> SUFFICES ASSUME i < d + 1 PROVE FALSE
      BY <1>9, <2>1, <2>3
    <3>1. i # 1 /\ IsLength(hs[i])
      BY <1>6, <1>9, <2>3
    <3>2. i \in 2..(n + 1) /\ i - 1 \in 1..(d - 1)
      BY <1>9, <2>1, <2>3, <3>1
    <3> QED
      BY <1>7, <1>8, <1>14, <3>1, <3>2
  <2>5. hs[i] = r.headers[d]
    BY <1>4, <2>1, <2>4
  <2> QED
    BY <1>1, <1>10, <1>11, <1>12, <1>14, <2>3, <2>5
<1> QED
  BY <1>13, <1>14

\* A small number is its own remainder.
LEMMA ModSmall ==
  ASSUME NEW a \in Nat, NEW m \in Nat \ {0}, a < m
  PROVE  a % m = a
OBVIOUS

\* In a buffer that begins like a well framed request, TotalLen() is the
\* length of that request as soon as its head is there.
LEMMA CutSize ==
  ASSUME NEW r \in Request, WellFramed(r), NEW buf \in Seq(Token),
         \A i \in 1..Len(buf) : i <= Len(Whole(r)) => buf[i] = Whole(r)[i]
  PROVE  /\ HeadersLen(buf) # 0 => TotalLen(buf) = Len(Whole(r))
         /\ HeadersLen(buf) = 0 => Len(buf) < Len(Whole(r))
<1>1. PICK h : h = HeadersLen(buf)
  OBVIOUS
<1>2. PICK n \in Nat, len \in Nat, m \in Nat :
        /\ n = Len(r.headers) + 2 /\ n = Len(HeadOf(r))
        /\ m = Len(r.body) /\ len = Len(Whole(r)) /\ len = n + m /\ n > 0
  BY HeadParts, WholeSplit
<1>3. \A i \in 1..Len(buf) : i <= n => buf[i] = HeadOf(r)[i]
  BY <1>2, WholeSplit
<1>4. \A i \in 1..Len(buf) : i <= n => (buf[i] = Blank <=> i = n)
  BY <1>2, <1>3, HeadEnds
<1>5. /\ h \in 0..Len(buf)
      /\ h = 0 => \A i \in 1..Len(buf) : buf[i] # Blank
      /\ h # 0 => buf[h] = Blank /\ \A i \in 1..(h - 1) : buf[i] # Blank
  <2> DEFINE T == {i \in 1..Len(buf) : buf[i] = Blank}
  <2>1. FirstIn(T, h, Len(buf))
    BY <1>1, HeadersLenIs DEF FirstBlank
  <2>2. \A i \in 1..Len(buf) : i \in T <=> buf[i] = Blank
    OBVIOUS
  <2> HIDE DEF T
  <2>3. /\ h \in 0..Len(buf)
        /\ h = 0 => T = {}
        /\ h # 0 => h \in T /\ \A j \in 1..(h - 1) : j \notin T
    BY <2>1 DEF FirstIn
  <2> QED
    BY <2>2, <2>3
<1>6. CASE h = 0
  <2>1. Len(buf) < n
    BY <1>2, <1>4, <1>5, <1>6
  <2> QED
    BY <1>1, <1>2, <1>6, <2>1
<1>7. CASE h # 0
  <2>1. h = n
    <3>1. h \in 1..Len(buf)
      BY <1>5, <1>7
    <3>2. CASE h < n
      BY <1>4, <1>5, <1>7, <3>1, <3>2
    <3>3. CASE h > n
      <4>1. n \in 1..Len(buf) /\ n \in 1..(h - 1)
        BY <1>2, <3>1, <3>3
      <4> QED
        BY <1>4, <1>5, <1>7, <4>1
    <3> QED
      BY <1>2, <3>1, <3>2, <3>3
  <2>2. SubSeq(buf, 1, h) = HeadOf(r)
    <3>1. PICK hs \in Seq(Token) : hs = HeadOf(r)
      BY HeadParts
    <3>2. PICK c \in Seq(Token) : c = SubSeq(buf, 1, h)
      <4>1. SubSeq(buf, 1, h) \in Seq(Token)
        BY <1>5
      <4> QED
        BY <4>1
    <3>3. Len(c) = n /\ \A i \in 1..n : c[i] = buf[i] /\ i \in 1..Len(buf)
      BY <1>5, <2>1, <3>2
    <3>4. Len(hs) = n /\ \A i \in 1..n : c[i] = hs[i]
      BY <1>2, <1>3, <3>1, <3>3
    <3>5. c = hs
      BY <3>3, <3>4, SeqEqual
    <3> QED
      BY <3>1, <3>2, <3>5
  <2>3. ParseContentLength(SubSeq(buf, 1, h)) = m
    BY <1>2, <2>2, LengthUnderstood
  <2>4. TotalLen(buf) = (n + m) % SizeMod
    BY <1>1, <2>1, <2>3 DEF TotalLen
  <2>5. n + m < SizeMod
    BY <1>2 DEF WellFramed
  <2>6. TotalLen(buf) = n + m
    <3>1. PICK s \in Nat : s = n + m
      OBVIOUS
    <3>2. PICK w \in Nat \ {0} : w = SizeMod
      BY ConnectionAssumption
    <3>3. s % w = s
      BY <2>5, <3>1, <3>2, ModSmall
    <3> QED
      BY <2>4, <3>1, <3>2, <3>3
  <2> QED
    BY <1>1, <1>2, <1>7, <2>6
<1> QED
  BY <1>6, <1>7

UpTo(rs, k) == FlattenSeq(SubSeq(Wholes(rs), 1, k))
LeftFrom(rs, k, p) == UpTo(rs, k) \o p = Stream(rs)

\* The first requests of the stream, as tokens.
LEMMA UpToType ==
  ASSUME NEW rs \in Seq(Request), NEW k \in 0..Len(rs)
  PROVE  UpTo(rs, k) \in Seq(Token)
<1>1. PICK w \in Seq(Seq(Token)) : w = Wholes(rs) /\ Len(w) = Len(rs)
  BY WholesType
<1>2. SubSeq(w, 1, k) \in Seq(Seq(Token))
  BY <1>1
<1>3. FlattenSeq(SubSeq(w, 1, k)) \in Seq(Token)
  BY <1>2, FlattenType
<1> QED
  BY <1>1, <1>3 DEF UpTo

\* One request more.
LEMMA UpToGrows ==
  ASSUME NEW rs \in Seq(Request), NEW k \in 0..Len(rs), k # Len(rs)
  PROVE  /\ UpTo(rs, k + 1) = UpTo(rs, k) \o Whole(rs[k + 1])
         /\ k + 1 \in 1..Len(rs) /\ rs[k + 1] \in Request
         /\ Whole(rs[k + 1]) \in Seq(Token)
<1>1. PICK w \in Seq(Seq(Token)) :
        w = Wholes(rs) /\ Len(w) = Len(rs) /\ \A i \in 1..Len(rs) : w[i] = Whole(rs[i])
  BY WholesType
<1>2. k + 1 \in 1..Len(rs) /\ rs[k + 1] \in Request
  OBVIOUS
<1>3. Whole(rs[k + 1]) \in Seq(Token)
  BY <1>2, WholeParts
<1>4. k \in 0..Len(w) /\ k # Len(w) /\ w[k + 1] = Whole(rs[k + 1])
  BY <1>1, <1>2
<1>5. FlattenSeq(SubSeq(w, 1, k + 1)) = FlattenSeq(SubSeq(w, 1, k)) \o w[k + 1]
  BY <1>4, FlattenNext
<1> QED
  BY <1>1, <1>2, <1>3, <1>4, <1>5 DEF UpTo

\* All of them are the stream, and none of them is nothing.
LEMMA UpToAll ==
  ASSUME NEW rs \in Seq(Request)
  PROVE  UpTo(rs, Len(rs)) = Stream(rs) /\ UpTo(rs, 0) = <<>>
<1>1. PICK w \in Seq(Seq(Token)) : w = Wholes(rs) /\ Len(w) = Len(rs) /\ Stream(rs) = FlattenSeq(w)
  BY WholesType
<1>2. SubSeq(w, 1, Len(w)) = w /\ SubSeq(w, 1, 0) = <<>>
  OBVIOUS
<1>3. FlattenSeq(<<>>) = <<>>
  BY FlattenEmpty
<1> QED
  BY <1>1, <1>2, <1>3 DEF UpTo

\* Behind the first k requests comes the next, or nothing.
LEMMA WhatIsLeft ==
  ASSUME NEW rs \in Seq(Request), NEW k \in 0..Len(rs), NEW p \in Seq(Token),
         LeftFrom(rs, k, p)
  PROVE  /\ k = Len(rs) => p = <<>>
         /\ k # Len(rs) => Begins(Whole(rs[k + 1]), p, Token)
<1>1. CASE k = Len(rs)
  <2>1. PICK f \in Seq(Token) : f = UpTo(rs, k)
    BY UpToType
  <2>2. f \o p = f
    BY <1>1, <2>1, UpToAll DEF LeftFrom
  <2>3. p = <<>>
    BY <2>2, ConcatSimplifications
  <2> QED
    BY <1>1, <2>3
<1>2. CASE k # Len(rs)
  <2>1. PICK f \in Seq(Token), x \in Seq(Token) :
          f = UpTo(rs, k) /\ x = Whole(rs[k + 1]) /\ UpTo(rs, k + 1) = f \o x
    BY <1>2, UpToType, UpToGrows
  <2>2. PICK rest \in Seq(Token) : Stream(rs) = UpTo(rs, k + 1) \o rest
    <3>1. PICK w \in Seq(Seq(Token)), j \in 0..Len(rs) :
            /\ w = Wholes(rs) /\ Len(w) = Len(rs) /\ Stream(rs) = FlattenSeq(w)
            /\ j = k + 1
      BY <1>2, WholesType
    <3>2. StartsWith(w, j, Token)
      BY <3>1, FlattenPrefix
    <3> QED
      BY <3>1, <3>2 DEF StartsWith, Begins, UpTo
  <2>3. Assoc(f, x, rest)
    BY ConcatAssoc
  <2>4. f \o p = f \o (x \o rest)
    BY <2>1, <2>2, <2>3 DEF Assoc, LeftFrom
  <2>5. PICK y \in Seq(Token) : y = x \o rest
    <3>1. x \o rest \in Seq(Token)
      BY ConcatProperties
    <3> QED
      BY <3>1
  <2>6. p = y
    BY <2>4, <2>5, ConcatSimplifications
  <2> QED
    BY <1>2, <2>1, <2>5, <2>6 DEF Begins
<1> QED
  BY <1>1, <1>2

\* The next request of a stream of well framed ones is taken out of the
\* buffer whole, and it is taken as soon as it is there.
LEMMA NextCut ==
  ASSUME NEW rs \in Seq(Request), NEW k \in 0..Len(rs),
         NEW buf \in Seq(Token), NEW rest \in Seq(Token),
         \A i \in 1..Len(rs) : WellFramed(rs[i]),
         LeftFrom(rs, k, buf \o rest)
  PROVE  /\ Complete(buf) =>
              /\ k # Len(rs)
              /\ SubSeq(buf, 1, TotalLen(buf)) = Whole(rs[k + 1])
              /\ LeftFrom(rs, k + 1, SubSeq(buf, TotalLen(buf) + 1, Len(buf)) \o rest)
         /\ rest = <<>> /\ ~Complete(buf) => k = Len(rs)
<1>1. PICK p \in Seq(Token) : p = buf \o rest
  <2>1. buf \o rest \in Seq(Token)
    BY ConcatProperties
  <2> QED
    BY <2>1
<1>2. CASE k = Len(rs)
  <2>1. buf \o rest = <<>>
    BY <1>1, <1>2, WhatIsLeft
  <2>2. buf = <<>>
    BY <2>1, ConcatSimplifications
  <2>3. HeadersLen(buf) = 0
    <3>1. HeadersLen(buf) \in 0..Len(buf)
      BY TotalLenType
    <3>2. Len(buf) = 0
      BY <2>2
    <3> QED
      BY <3>1, <3>2
  <2> QED
    BY <1>2, <2>3 DEF Complete
<1>3. CASE k # Len(rs)
  <2>1. PICK r \in Request, w \in Seq(Token) :
          r = rs[k + 1] /\ w = Whole(r) /\ WellFramed(r)
    BY <1>3, UpToGrows
  <2>2. PICK later \in Seq(Token) : buf \o rest = w \o later
    BY <1>1, <1>3, <2>1, WhatIsLeft, ZenonT(40) DEF Begins
  <2>3. \A i \in 1..Len(buf) : i <= Len(w) => buf[i] = w[i]
    BY <2>2, SameFront
  <2>4. /\ HeadersLen(buf) # 0 => TotalLen(buf) = Len(w)
        /\ HeadersLen(buf) = 0 => Len(buf) < Len(w)
    BY <2>1, <2>3, CutSize
  <2>5. ASSUME Complete(buf)
        PROVE  /\ SubSeq(buf, 1, TotalLen(buf)) = w
               /\ LeftFrom(rs, k + 1, SubSeq(buf, TotalLen(buf) + 1, Len(buf)) \o rest)
    <3>1. TotalLen(buf) = Len(w) /\ Len(buf) >= Len(w)
      BY <2>4, <2>5 DEF Complete
    <3>2. SubSeq(buf, 1, Len(w)) = w /\ SubSeq(buf, Len(w) + 1, Len(buf)) \o rest = later
      BY <2>2, <3>1, SameCut
    <3>3. PICK f \in Seq(Token) : f = UpTo(rs, k)
      BY UpToType
    <3>4. UpTo(rs, k + 1) = f \o w
      BY <1>3, <2>1, <3>3, UpToGrows
    <3>5. Assoc(f, w, later)
      BY ConcatAssoc
    <3>6. LeftFrom(rs, k + 1, later)
      BY <2>2, <3>3, <3>4, <3>5 DEF Assoc, LeftFrom
    <3> QED
      BY <3>1, <3>2, <3>6
  <2>6. ASSUME rest = <<>> PROVE Complete(buf)
    <3>1. buf = w \o later
      <4>1. buf \o <<>> = buf
        OBVIOUS
      <4> QED
        BY <2>2, <2>6, <4>1
    <3>2. Len(buf) >= Len(w)
      <4>1. Len(w \o later) >= Len(w)
        OBVIOUS
      <4> QED
        BY <3>1, <4>1
    <3> QED
      BY <2>4, <3>2 DEF Complete
  <2> QED
    BY <1>3, <2>1, <2>5, <2>6
<1> QED
  BY <1>2, <1>3

-----------------------------------------------------------------------------
(* The requests that have been cut off *)

\* What has been cut off the stream is its first requests, and the others are
\* still in the buffer or on their way.
CutInv ==
  /\ Len(extracted) <= Len(requests)
  /\ \A i \in 1..Len(extracted) : extracted[i] = Whole(requests[i])
  /\ LeftFrom(requests, Len(extracted), readBuf \o unread)

\* On a new connection the whole stream is to come.
LEMMA CutInit ==
  ASSUME ExchangeInit, Typed
  PROVE  CutInv
<1>1. PICK rs \in Seq(Request) : rs = requests
  BY DEF Typed
<1>2. PICK s \in Seq(Token) : s = Stream(rs)
  BY WholesType
<1>3. UpTo(rs, 0) = <<>> /\ <<>> \o (<<>> \o s) = s
  BY UpToAll
<1>4. LeftFrom(rs, 0, <<>> \o s)
  BY <1>2, <1>3 DEF LeftFrom
<1> QED
  BY <1>1, <1>2, <1>4 DEF ExchangeInit, Init, CutInv

\* appendReadData() moves tokens from the socket to the buffer.
LEMMA AppendReadCut ==
  ASSUME Typed, CutInv, NEW k \in 1..Len(unread), AppendReadData(k)
  PROVE  CutInv'
<1>1. PICK u \in Seq(Token), b \in Seq(Token) : u = unread /\ b = readBuf
  BY DEF Typed
<1>2. PICK n \in 0..Len(u) : n = k
  BY <1>1
<1>3. PICK x \in Seq(Token), y \in Seq(Token) :
        x = SubSeq(u, 1, n) /\ y = SubSeq(u, n + 1, Len(u)) /\ x \o y = u
  <2>1. /\ SubSeq(u, 1, n) \in Seq(Token) /\ SubSeq(u, n + 1, Len(u)) \in Seq(Token)
        /\ SubSeq(u, 1, n) \o SubSeq(u, n + 1, Len(u)) = u
    BY Halves
  <2> QED
    BY <2>1
<1>4. Assoc(b, x, y)
  BY ConcatAssoc
<1>5. readBuf' = b \o x /\ unread' = y
  BY <1>1, <1>2, <1>3 DEF AppendReadData
<1>6. readBuf' \o unread' = readBuf \o unread
  BY <1>1, <1>3, <1>4, <1>5 DEF Assoc
<1>7. UNCHANGED <<requests, extracted>>
  BY DEF AppendReadData
<1> QED
  BY <1>6, <1>7 DEF CutInv

\* extractOneRequest() cuts the next request off, whole.
LEMMA ExtractCut ==
  ASSUME Typed, CutInv, \A r \in Requests : WellFramed(r), ExtractOneRequest
  PROVE  CutInv'
<1>1. PICK rs \in Seq(Request), buf \in Seq(Token), rest \in Seq(Token),
           ex \in Seq(Seq(Token)) :
        rs = requests /\ buf = readBuf /\ rest = unread /\ ex = extracted
  BY DEF Typed
<1>2. PICK k \in 0..Len(rs) : k = Len(ex)
  <2>1. Len(ex) \in 0..Len(rs)
    BY <1>1 DEF CutInv
  <2> QED
    BY <2>1
<1>3. \A i \in 1..Len(rs) : WellFramed(rs[i])
  BY <1>1 DEF Typed
<1>4. LeftFrom(rs, k, buf \o rest) /\ Complete(buf)
  BY <1>1, <1>2 DEF CutInv, ExtractOneRequest
<1>5. /\ k # Len(rs)
      /\ SubSeq(buf, 1, TotalLen(buf)) = Whole(rs[k + 1])
      /\ LeftFrom(rs, k + 1, SubSeq(buf, TotalLen(buf) + 1, Len(buf)) \o rest)
  BY <1>3, <1>4, NextCut
<1>6. PICK w \in Seq(Token) : w = Whole(rs[k + 1])
  BY <1>5, UpToGrows
<1>7. /\ extracted' = Append(ex, w) /\ requests' = rs /\ unread' = rest
      /\ readBuf' = SubSeq(buf, TotalLen(buf) + 1, Len(buf))
  BY <1>1, <1>5, <1>6 DEF ExtractOneRequest
<1>8. Len(Append(ex, w)) = k + 1 /\ k + 1 <= Len(rs)
  BY <1>2, <1>5
<1>9. \A i \in 1..(k + 1) : Append(ex, w)[i] = Whole(rs[i])
  <2> SUFFICES ASSUME NEW i \in 1..(k + 1) PROVE Append(ex, w)[i] = Whole(rs[i])
    OBVIOUS
  <2>1. CASE i = k + 1
    <3>1. Append(ex, w)[k + 1] = w
      BY <1>2
    <3> QED
      BY <1>6, <2>1, <3>1
  <2>2. CASE i # k + 1
    <3>1. i \in 1..Len(ex)
      BY <1>2, <2>2
    <3>2. Append(ex, w)[i] = ex[i]
      BY <3>1
    <3>3. ex[i] = Whole(rs[i])
      BY <1>1, <3>1 DEF CutInv
    <3> QED
      BY <3>2, <3>3
  <2> QED
    BY <2>1, <2>2
<1> QED
  BY <1>5, <1>7, <1>8, <1>9 DEF CutInv

\* Every step keeps what is said of the stream.
LEMMA CutNext ==
  ASSUME Typed, CutInv, \A r \in Requests : WellFramed(r), ConnStep
  PROVE  CutInv'
<1>1. CASE UNCHANGED <<requests, input>>
  BY <1>1 DEF input, CutInv
<1>2. UNCHANGED vars => UNCHANGED <<requests, input>>
  BY DEF vars
<1>3. ClearWriteData => UNCHANGED <<requests, input>>
  BY DEF ClearWriteData
<1>4. \A n \in 1..Len(Iov) : Writev(n) => UNCHANGED <<requests, input>>
  BY DEF Writev
<1>5. \A head \in 1..MaxHead, file \in 0..MaxFile \cup {NoFile}, close \in BOOLEAN :
        SetMappedWriteData(head, file, close) => UNCHANGED <<requests, input>>
  BY DEF SetMappedWriteData, Start
<1> QED
  BY <1>1, <1>2, <1>3, <1>4, <1>5, AppendReadCut, ExtractCut DEF ConnStep

\* So the requests that have been cut are the client's, and none stays when
\* nothing is left to read.
LEMMA CutAll ==
  ASSUME Typed, CutInv, \A r \in Requests : WellFramed(r)
  PROVE  ExtractedExact /\ AllExtracted
<1>1. PICK rs \in Seq(Request), buf \in Seq(Token), rest \in Seq(Token) :
        rs = requests /\ buf = readBuf /\ rest = unread
  BY DEF Typed
<1>2. PICK k \in 0..Len(rs) : k = Len(extracted)
  <2>1. Len(extracted) \in 0..Len(rs)
    BY <1>1 DEF CutInv, Typed
  <2> QED
    BY <2>1
<1>3. \A i \in 1..Len(rs) : WellFramed(rs[i])
  BY <1>1 DEF Typed
<1>4. LeftFrom(rs, k, buf \o rest)
  BY <1>1, <1>2 DEF CutInv
<1>5. rest = <<>> /\ ~Complete(buf) => k = Len(rs)
  BY <1>3, <1>4, NextCut
<1>6. AllExtracted
  BY <1>1, <1>2, <1>5 DEF AllExtracted, Idle
<1>7. ExtractedExact
  <2>1. \A i \in 1..Len(extracted) : i <= Len(requests)
    BY <1>1, <1>2
  <2> QED
    BY <2>1 DEF CutInv, ExtractedExact
<1> QED
  BY <1>6, <1>7
-----------------------------------------------------------------------------
\* What is not read yet is the end of the stream.
Suffix == \E first \in Seq(Token) : Stream(requests) = first \o unread

\* At first the whole stream is to be read.
LEMMA SuffixInit ==
  ASSUME ExchangeInit, Typed
  PROVE  Suffix
<1>1. PICK u \in Seq(Token) : u = unread /\ u = Stream(requests)
  BY DEF Typed, ExchangeInit, Init
<1>2. <<>> \o u = u /\ <<>> \in Seq(Token)
  OBVIOUS
<1> QED
  BY <1>1, <1>2 DEF Suffix

\* What is to be read stays an end of the stream.
LEMMA SuffixNext ==
  ASSUME Typed, Suffix, ConnStep
  PROVE  Suffix'
<1>1. CASE UNCHANGED <<requests, unread>>
  BY <1>1 DEF Suffix
<1>2. CASE \E k \in 1..Len(unread) : AppendReadData(k)
  <2>1. PICK k \in 1..Len(unread) : AppendReadData(k)
    BY <1>2
  <2>2. PICK u \in Seq(Token), first \in Seq(Token) :
          u = unread /\ Stream(requests) = first \o u
    BY DEF Typed, Suffix
  <2>3. PICK n \in 0..Len(u) : n = k
    BY <2>2
  <2>4. PICK x \in Seq(Token), y \in Seq(Token) :
          x = SubSeq(u, 1, n) /\ y = SubSeq(u, n + 1, Len(u)) /\ x \o y = u
    <3>1. /\ SubSeq(u, 1, n) \in Seq(Token) /\ SubSeq(u, n + 1, Len(u)) \in Seq(Token)
          /\ SubSeq(u, 1, n) \o SubSeq(u, n + 1, Len(u)) = u
      BY Halves
    <3> QED
      BY <3>1
  <2>5. Assoc(first, x, y)
    BY ConcatAssoc
  <2>6. unread' = y /\ requests' = requests
    BY <2>1, <2>2, <2>3, <2>4 DEF AppendReadData
  <2>7. first \o x \in Seq(Token)
    BY ConcatProperties
  <2> QED
    BY <2>2, <2>4, <2>5, <2>6, <2>7 DEF Assoc, Suffix
<1>3. UNCHANGED vars => UNCHANGED <<requests, unread>>
  BY DEF vars, input
<1>4. ClearWriteData => UNCHANGED <<requests, unread>>
  BY DEF ClearWriteData, input
<1>5. \A n \in 1..Len(Iov) : Writev(n) => UNCHANGED <<requests, unread>>
  BY DEF Writev, input
<1>6. \A head \in 1..MaxHead, file \in 0..MaxFile \cup {NoFile}, close \in BOOLEAN :
        SetMappedWriteData(head, file, close) => UNCHANGED <<requests, unread>>
  BY DEF SetMappedWriteData, Start, input
<1>7. ExtractOneRequest => UNCHANGED <<requests, unread>>
  BY DEF ExtractOneRequest
<1> QED
  BY <1>1, <1>2, <1>3, <1>4, <1>5, <1>6, <1>7 DEF ConnStep

\* An end of a sequence is a suffix, as SequencesExt says it.
LEMMA EndIsSuffix ==
  ASSUME NEW S, NEW a \in Seq(S), NEW b \in Seq(S)
  PROVE  IsSuffix(b, a \o b)
<1>1. PICK c \in Seq(S) : c = a \o b /\ Len(c) = Len(a) + Len(b)
  <2>1. a \o b \in Seq(S) /\ Len(a \o b) = Len(a) + Len(b)
    BY ConcatProperties
  <2> QED
    BY <2>1
<1>2. \A i \in 1..Len(b) : c[Len(a) + i] = b[i]
  BY <1>1
<1>3. PICK rb \in Seq(S), rc \in Seq(S) : rb = Reverse(b) /\ rc = Reverse(c)
  <2>1. Reverse(b) \in Seq(S) /\ Reverse(c) \in Seq(S)
    BY DEF Reverse
  <2> QED
    BY <2>1
<1>4. Len(rb) = Len(b) /\ \A i \in 1..Len(b) : rb[i] = b[Len(b) - i + 1]
  BY <1>3 DEF Reverse
<1>5. Len(rc) = Len(c) /\ \A i \in 1..Len(c) : rc[i] = c[Len(c) - i + 1]
  BY <1>3 DEF Reverse
<1>6. ASSUME NEW i \in 1..Len(b) PROVE rb[i] = rc[i]
  <2>1. PICK j \in 1..Len(b) : j = Len(b) - i + 1
    <3>1. Len(b) - i + 1 \in 1..Len(b)
      OBVIOUS
    <3> QED
      BY <3>1
  <2>2. i \in 1..Len(c) /\ Len(c) - i + 1 = Len(a) + j
    BY <1>1, <2>1
  <2> QED
    BY <1>2, <1>4, <1>5, <2>1, <2>2
<1>7. PICK n \in 0..Len(rc) : n = Len(rb)
  BY <1>1, <1>4, <1>5
<1>8. SubSeq(rb, 1, n) = SubSeq(rc, 1, n)
  <2>1. PICK x \in Seq(S), y \in Seq(S) : x = SubSeq(rb, 1, n) /\ y = SubSeq(rc, 1, n)
    <3>1. SubSeq(rb, 1, n) \in Seq(S) /\ SubSeq(rc, 1, n) \in Seq(S)
      BY <1>7
    <3> QED
      BY <3>1
  <2>2. Len(x) = n /\ \A i \in 1..n : x[i] = rb[i]
    BY <1>7, <2>1
  <2>3. Len(y) = n /\ \A i \in 1..n : y[i] = rc[i]
    BY <1>7, <2>1
  <2>4. \A i \in 1..n : x[i] = y[i]
    BY <1>4, <1>6, <1>7, <2>2, <2>3
  <2> QED
    BY <2>1, <2>2, <2>3, <2>4, SeqEqual
<1> QED
  BY <1>1, <1>3, <1>7, <1>8 DEF IsSuffix, IsPrefix

\* The type invariant of Connection follows.
LEMMA TypedImplies ==
  ASSUME Typed, Suffix
  PROVE  TypeOK
<1>1. IsSuffix(unread, Stream(requests))
  <2>1. PICK u \in Seq(Token), first \in Seq(Token) :
          u = unread /\ Stream(requests) = first \o u
    BY DEF Typed, Suffix
  <2>2. IsSuffix(u, first \o u)
    BY EndIsSuffix
  <2> QED
    BY <2>1, <2>2
<1>2. \A i \in 1..Len(responses) : responses[i] \in [head: 1..MaxHead, file: 0..MaxFile]
  <2>1. responses \in Seq(Sizes)
    BY DEF Typed
  <2>2. \A i \in 1..Len(responses) : responses[i] \in Sizes
    BY <2>1
  <2> QED
    BY <2>2 DEF Sizes
<1> QED
  BY <1>1, <1>2 DEF Typed, TypeOK

\* WireExact follows.
LEMMA WireImplies ==
  ASSUME Typed, WireInv
  PROVE  WireExact
<1>1. Answers(responses) = [k \in 1..Len(responses) |-> Response(k)]
  BY DEF Answers, Answer, Response
<1>2. CASE phase = "write"
  <2>1. PICK w \in Seq(Unit), v \in Seq(Unit) : w = wire /\ v = Iov
    BY IovType DEF Typed
  <2>2. w \o v = All
    BY <1>2, <2>1 DEF WireInv
  <2>3. Len(w) <= Len(w \o v) /\ SubSeq(w, 1, Len(w)) = SubSeq(w \o v, 1, Len(w))
    <3>1. PICK x \in Seq(Unit) : x = w \o v /\ Len(x) = Len(w) + Len(v)
      <4>1. w \o v \in Seq(Unit) /\ Len(w \o v) = Len(w) + Len(v)
        BY ConcatProperties
      <4> QED
        BY <4>1
    <3>2. \A i \in 1..Len(w) : x[i] = w[i]
      BY <3>1
    <3>3. PICK y \in Seq(Unit) : y = SubSeq(x, 1, Len(w))
      <4>1. SubSeq(x, 1, Len(w)) \in Seq(Unit)
        BY <3>1
      <4> QED
        BY <4>1
    <3>4. Len(y) = Len(w) /\ \A i \in 1..Len(w) : y[i] = x[i]
      BY <3>1, <3>3
    <3>5. y = w
      BY <3>2, <3>4, SeqEqual
    <3>6. SubSeq(w, 1, Len(w)) = w
      OBVIOUS
    <3>7. Len(w) <= Len(x)
      BY <3>1
    <3> QED
      BY <3>1, <3>3, <3>5, <3>6, <3>7
  <2>4. IsPrefix(wire, All)
    BY <2>1, <2>2, <2>3 DEF IsPrefix
  <2> QED
    BY <1>1, <1>2, <2>4 DEF WireExact, All
<1>3. CASE phase # "write"
  BY <1>1, <1>3 DEF WireExact, WireInv, All
<1> QED
  BY <1>2, <1>3

-----------------------------------------------------------------------------
(* The replies and what they answer *)

\* What is said, and sent, to the request with that text.
Told(raw, ok, works) ==
  LET reply == Reply(Parse(raw), ok, works) IN
  [head |-> BuildHeader(reply, KeepAlive(Parse(raw))), body |-> reply.body,
   asked |-> Asked(Parse(raw)), ok |-> ok, works |-> works]

Sent(raw, ok, works) ==
  LET reply == Reply(Parse(raw), ok, works) IN
  IF reply.file = NoFile THEN [head |-> HeadUnits + reply.text, file |-> 0]
  ELSE [head |-> HeadUnits, file |-> reply.file]

Tolds == {Told(raw, ok, works) : raw \in Seq(Token), ok \in BOOLEAN, works \in BOOLEAN}

Answered(reply, response, raw) ==
  /\ reply.ok \in BOOLEAN /\ reply.works \in BOOLEAN
  /\ reply = Told(raw, reply.ok, reply.works)
  /\ response = Sent(raw, reply.ok, reply.works)

\* Each reply answers the request of its number, and only the last, once it
\* has been made, may close the connection.
RepliesInv ==
  /\ replies \in Seq(Tolds) /\ Len(replies) = Len(responses)
  /\ Len(extracted) = IF phase = "respond" THEN Len(replies) + 1 ELSE Len(replies)
  /\ \A k \in 1..Len(replies) : Answered(replies[k], responses[k], extracted[k])
  /\ \A k \in 1..Len(replies) :
       ~replies[k].head.keepAlive <=> k = Len(replies) /\ closeAfterWrite
  /\ phase \in {"read", "respond"} => ~closeAfterWrite
  /\ phase = "closed" => closeAfterWrite

\* No request, no reply.
LEMMA RepliesInit ==
  ASSUME ExchangeInit
  PROVE  RepliesInv
<1>1. <<>> \in Seq(Tolds) /\ Len(<<>>) = 0
  OBVIOUS
<1> QED
  BY <1>1 DEF ExchangeInit, Init, RepliesInv

\* A request that was cut waits for its reply.
LEMMA ExtractReplies ==
  ASSUME Typed, RepliesInv, ExtractOneRequest, UNCHANGED replies
  PROVE  RepliesInv'
<1>1. PICK ex \in Seq(Seq(Token)), x \in Seq(Token) :
        ex = extracted /\ x = SubSeq(readBuf, 1, TotalLen(readBuf))
  <2>1. PICK b \in Seq(Token) : b = readBuf
    BY DEF Typed
  <2>2. TotalLen(b) \in Nat /\ TotalLen(b) <= Len(b)
    BY <2>1, TotalLenType DEF ExtractOneRequest, Complete
  <2>3. SubSeq(b, 1, TotalLen(b)) \in Seq(Token)
    BY <2>2
  <2> QED
    BY <2>1, <2>3 DEF Typed
<1>2. /\ phase = "read" /\ phase' = "respond" /\ extracted' = Append(ex, x)
      /\ UNCHANGED <<responses, closeAfterWrite>>
  BY <1>1 DEF ExtractOneRequest, output
<1>3. Len(Append(ex, x)) = Len(ex) + 1 /\ \A k \in 1..Len(ex) : Append(ex, x)[k] = ex[k]
  OBVIOUS
<1>4. Len(ex) = Len(replies)
  BY <1>1, <1>2 DEF RepliesInv
<1>5. \A k \in 1..Len(replies) : Answered(replies[k], responses[k], extracted'[k])
  BY <1>1, <1>2, <1>3, <1>4 DEF RepliesInv
<1> QED
  BY <1>2, <1>3, <1>4, <1>5 DEF RepliesInv

\* clearWriteData() closes after the reply that said so.
LEMMA ClearReplies ==
  ASSUME Typed, RepliesInv, ClearWriteData, UNCHANGED replies
  PROVE  RepliesInv'
BY DEF Typed, RepliesInv, ClearWriteData, AfterWrite, input

\* The reply that is added answers the last request.
LEMMA RespondReplies ==
  ASSUME Typed, RepliesInv, NEW ok \in BOOLEAN, NEW works \in BOOLEAN, Respond(ok, works)
  PROVE  RepliesInv'
<1> DEFINE raw == Last(extracted)
           reply == Reply(Parse(raw), ok, works)
           close == ~KeepAlive(Parse(raw))
<1>1. phase = "respond" /\ phase' = "write" /\ UNCHANGED extracted
  BY DEF Respond, AppendWriteData, SetMappedWriteData, Start, input
<1>2. PICK n \in Nat : n = Len(replies) /\ Len(extracted) = n + 1 /\ Len(responses) = n
  BY <1>1 DEF RepliesInv
<1>3. raw = extracted[n + 1] /\ raw \in Seq(Token)
  <2>1. PICK ex \in Seq(Seq(Token)) : ex = extracted
    BY DEF Typed
  <2>2. n + 1 \in 1..Len(ex)
    BY <1>2, <2>1
  <2>3. ex[n + 1] \in Seq(Token)
    BY <2>2
  <2> QED
    BY <1>2, <2>1, <2>3 DEF Last
<1>4. PICK t \in Tolds : t = Told(raw, ok, works)
  BY <1>3 DEF Tolds
<1>5. /\ t.ok = ok /\ t.works = works
      /\ t.head.keepAlive <=> KeepAlive(Parse(raw))
  BY <1>4 DEF Told, BuildHeader
<1>6. PICK rs \in Seq(Tolds), sz \in Seq(Sizes) : rs = replies /\ sz = responses
  BY DEF Typed, RepliesInv
<1>7. replies' = Append(rs, t)
  <2>1. KeepAlive(Parse(raw)) \in BOOLEAN
    BY DEF KeepAlive
  <2>2. (~close) = KeepAlive(Parse(raw))
    BY <2>1
  <2>3. replies' = Append(replies, [head |-> BuildHeader(reply, ~close), body |-> reply.body,
                                    asked |-> Asked(Parse(raw)), ok |-> ok, works |-> works])
    BY DEF Respond
  <2>4. t = [head |-> BuildHeader(reply, KeepAlive(Parse(raw))), body |-> reply.body,
             asked |-> Asked(Parse(raw)), ok |-> ok, works |-> works]
    BY <1>4 DEF Told
  <2> QED
    BY <1>6, <2>2, <2>3, <2>4
<1>8. PICK s \in Sizes : s = Sent(raw, ok, works) /\ responses' = Append(sz, s)
                         /\ closeAfterWrite' = close
  <2>1. reply.text \in {0, 1} /\ reply.file \in 0..MaxFile \cup {NoFile}
    BY ReplyShape
  <2>2. CASE reply.file = NoFile
    <3>1. AppendWriteData(HeadUnits + reply.text, close)
      BY <2>2 DEF Respond
    <3>2. HeadUnits + reply.text \in 1..MaxHead
      BY <2>1, ExchangeAssumption, ConnectionAssumption
    <3>3. [head |-> HeadUnits + reply.text, file |-> 0] \in Sizes
      BY <3>2, ConnectionAssumption DEF Sizes
    <3>4. Sent(raw, ok, works) = [head |-> HeadUnits + reply.text, file |-> 0]
      BY <2>2 DEF Sent
    <3> QED
      BY <1>6, <3>1, <3>3, <3>4 DEF AppendWriteData, Start
  <2>3. CASE reply.file # NoFile
    <3>1. SetMappedWriteData(HeadUnits, reply.file, close)
      BY <2>3 DEF Respond
    <3>2. HeadUnits \in 1..MaxHead
      BY ExchangeAssumption, ConnectionAssumption
    <3>3. [head |-> HeadUnits, file |-> reply.file] \in Sizes
      BY <2>1, <2>3, <3>2 DEF Sizes
    <3>4. Sent(raw, ok, works) = [head |-> HeadUnits, file |-> reply.file]
      BY <2>3 DEF Sent
    <3> QED
      BY <1>6, <2>3, <3>1, <3>3, <3>4 DEF SetMappedWriteData, Start
  <2> QED
    BY <2>2, <2>3
<1> HIDE DEF raw, reply, close
<1>9. /\ Append(rs, t) \in Seq(Tolds) /\ Len(Append(rs, t)) = n + 1
      /\ Append(rs, t)[n + 1] = t /\ \A k \in 1..n : Append(rs, t)[k] = rs[k]
  BY <1>2, <1>6
<1>10. /\ Len(Append(sz, s)) = n + 1
       /\ Append(sz, s)[n + 1] = s /\ \A k \in 1..n : Append(sz, s)[k] = sz[k]
  BY <1>2, <1>6
<1>11. ASSUME NEW k \in 1..(n + 1)
       PROVE  Answered(replies'[k], responses'[k], extracted'[k])
  <2>1. CASE k = n + 1
    <3>1. Answered(t, s, extracted[n + 1])
      BY <1>3, <1>4, <1>5, <1>8 DEF Answered
    <3> QED
      BY <1>1, <1>7, <1>8, <1>9, <1>10, <2>1, <3>1
  <2>2. CASE k # n + 1
    <3>1. k \in 1..n
      BY <2>2
    <3>2. Answered(rs[k], sz[k], extracted[k])
      BY <1>2, <1>6, <3>1 DEF RepliesInv
    <3> QED
      BY <1>1, <1>7, <1>8, <1>9, <1>10, <3>1, <3>2
  <2> QED
    BY <2>1, <2>2
<1>12. ASSUME NEW k \in 1..(n + 1)
       PROVE  ~replies'[k].head.keepAlive <=> k = n + 1 /\ closeAfterWrite'
  <2>1. CASE k = n + 1
    BY <1>5, <1>7, <1>8, <1>9, <2>1 DEF close
  <2>2. CASE k # n + 1
    <3>1. k \in 1..n /\ ~closeAfterWrite
      BY <1>1, <2>2 DEF RepliesInv
    <3>2. rs[k].head.keepAlive
      BY <1>2, <1>6, <3>1 DEF RepliesInv
    <3> QED
      BY <1>7, <1>9, <2>2, <3>1, <3>2
  <2> QED
    BY <2>1, <2>2
<1> QED
  BY <1>1, <1>2, <1>7, <1>8, <1>9, <1>10, <1>11, <1>12 DEF RepliesInv

\* Every step keeps replies and requests together.
LEMMA RepliesNext ==
  ASSUME Typed, RepliesInv, [ExchangeNext]_exchangeVars
  PROVE  RepliesInv'
<1>1. CASE UNCHANGED <<replies, responses, extracted, phase, closeAfterWrite>>
  BY <1>1 DEF RepliesInv
<1>2. CASE Transfer /\ UNCHANGED replies
  <2>1. \A k \in 1..Len(unread) : AppendReadData(k) =>
          UNCHANGED <<responses, extracted, phase, closeAfterWrite>>
    BY DEF AppendReadData, output
  <2>2. \A n \in 1..(MaxHead + MaxFile) : Writev(n) =>
          UNCHANGED <<responses, extracted, phase, closeAfterWrite>>
    BY DEF Writev, input
  <2> QED
    BY <1>1, <1>2, <2>1, <2>2, ExtractReplies, ClearReplies DEF Transfer
<1>3. CASE Over /\ UNCHANGED replies
  BY <1>1, <1>3 DEF Over, vars, input, output
<1>4. CASE UNCHANGED exchangeVars
  BY <1>1, <1>4 DEF exchangeVars, vars, input, output
<1> QED
  BY <1>2, <1>3, <1>4, RespondReplies DEF ExchangeNext

-----------------------------------------------------------------------------
(* What the parser makes of one request *)

\* f is what Parse() computes of the first n lines of data.
Parses(f, data, n) ==
  f = [i \in 0..n |-> IF i = 0 THEN Unparsed ELSE ParseLine(f[i - 1], data, i)]

\* Such an f, at one line.
LEMMA ParsesAt ==
  ASSUME NEW f, NEW data, NEW n \in Nat, Parses(f, data, n), NEW i \in 0..n
  PROVE  f[i] = IF i = 0 THEN Unparsed ELSE ParseLine(f[i - 1], data, i)
<1>1. PICK g : g = [j \in 0..n |-> IF j = 0 THEN Unparsed ELSE ParseLine(f[j - 1], data, j)]
  OBVIOUS
<1>2. g[i] = IF i = 0 THEN Unparsed ELSE ParseLine(f[i - 1], data, i)
  BY <1>1
<1>3. f = g
  BY <1>1, Zenon DEF Parses
<1> QED
  BY <1>2, <1>3

\* There is one for every number of lines.
LEMMA ParsesExists ==
  ASSUME NEW data
  PROVE  \A n \in Nat : \E f : Parses(f, data, n)
<1> DEFINE T == {n \in Nat : \E f : Parses(f, data, n)}
<1>1. 0 \in T
  <2> DEFINE f == [i \in 0..0 |-> Unparsed]
  <2>1. f = [i \in 0..0 |-> IF i = 0 THEN Unparsed ELSE ParseLine(f[i - 1], data, i)]
    OBVIOUS
  <2>2. Parses(f, data, 0)
    BY <2>1 DEF Parses
  <2> QED
    BY <2>2
<1>2. ASSUME NEW n \in Nat, n \in T PROVE n + 1 \in T
  <2>1. PICK f : Parses(f, data, n)
    BY <1>2
  <2> DEFINE g == [i \in 0..(n + 1) |->
                     IF i <= n THEN f[i] ELSE ParseLine(f[i - 1], data, i)]
  <2>2. ASSUME NEW i \in 0..(n + 1)
        PROVE  g[i] = IF i = 0 THEN Unparsed ELSE ParseLine(g[i - 1], data, i)
    <3>1. \A j \in 0..n : g[j] = f[j]
      OBVIOUS
    <3>2. CASE i <= n
      <4>1. f[i] = IF i = 0 THEN Unparsed ELSE ParseLine(f[i - 1], data, i)
        BY <2>1, <3>2, ParsesAt
      <4>2. g[i] = f[i] /\ (i # 0 => g[i - 1] = f[i - 1])
        BY <3>1, <3>2
      <4> QED
        BY <4>1, <4>2
    <3>3. CASE i = n + 1
      <4>1. g[i - 1] = f[i - 1] /\ i # 0
        BY <3>1, <3>3
      <4>2. g[i] = ParseLine(f[i - 1], data, i)
        BY <3>3
      <4> QED
        BY <4>1, <4>2
    <3> QED
      BY <3>2, <3>3
  <2>3. g = [i \in 0..(n + 1) |-> IF i = 0 THEN Unparsed ELSE ParseLine(g[i - 1], data, i)]
    BY <2>2
  <2>4. Parses(g, data, n + 1)
    BY <2>3 DEF Parses
  <2> QED
    BY <2>4
<1> HIDE DEF T
<1>3. Nat \subseteq T
  BY <1>1, <1>2, Induction
<1> QED
  BY <1>3 DEF T

\* Parse() is its last value.
LEMMA ParseValue ==
  ASSUME NEW S, NEW data \in Seq(S)
  PROVE  \E f : Parses(f, data, Len(data)) /\ Parse(data) = f[Len(data)]
<1> DEFINE f == CHOOSE f : Parses(f, data, Len(data))
<1>1. Parses(f, data, Len(data))
  BY ParsesExists
<1>2. Parse(data) = f[Len(data)]
  BY DEF Parse, Parses
<1> QED
  BY <1>1, <1>2
-----------------------------------------------------------------------------
IsParsing(p) ==
  /\ p = [state |-> p.state, method |-> p.method, path |-> p.path,
          keepAlive |-> p.keepAlive, body |-> p.body]
  /\ p.keepAlive \in BOOLEAN

LineOk(r) == r.line.is = "request" /\ r.line.method \in Methods
HeadOk(r, n) == LineOk(r) /\ \A i \in 1..n : r.headers[i].is = "header"

\* A header with a word on the connection, and what the first n headers have
\* made of the wish to keep it.
Word(h) == ToLower(h.key) = "connection" /\ ToLower(h.value) \in {"close", "keep-alive"}
Keeps(r, n, keep) ==
  /\ (\A i \in 1..n : ~Word(r.headers[i])) => (keep <=> r.line.version = "1.1")
  /\ \A i \in 1..n :
       Word(r.headers[i]) /\ (\A j \in (i + 1)..n : ~Word(r.headers[j])) =>
         (keep <=> ToLower(r.headers[i].value) = "keep-alive")

\* What the first line and n headers have made of the request.
After(r, n, p) ==
  /\ IsParsing(p)
  /\ HeadOk(r, n) =>
       /\ p.state = "HEADERS" /\ p.method = r.line.method
       /\ p.path = UrlDecode(r.line.path) /\ p.body = <<>>
       /\ Keeps(r, n, p.keepAlive)
  /\ ~HeadOk(r, n) => p.state = "failed"

\* Reject() fails the request and keeps its shape.
LEMMA Rejected ==
  ASSUME NEW p, IsParsing(p), NEW q, q = Reject(p)
  PROVE  IsParsing(q) /\ q.state = "failed"
<1>1. q = [p EXCEPT !.state = "failed"]
  BY DEF Reject
<1> QED
  BY <1>1 DEF IsParsing

\* After the request line.
LEMMA AfterLine ==
  ASSUME NEW r \in Request, NEW p, p = ParseRequestLine(Unparsed, r.line)
  PROVE  After(r, 0, p)
<1>1. PICK u : u = Unparsed
  OBVIOUS
<1>2. IsParsing(u) /\ u.body = <<>>
  BY <1>1 DEF Unparsed, IsParsing
<1>3. CASE LineOk(r)
  <2>1. p = [u EXCEPT !.state = "HEADERS",
                 !.method = r.line.method,
                 !.path = UrlDecode(r.line.path),
                 !.keepAlive = r.line.version = "1.1"]
    BY <1>1, <1>3 DEF ParseRequestLine, LineOk
  <2>2. /\ p.state = "HEADERS" /\ p.method = r.line.method
        /\ p.path = UrlDecode(r.line.path) /\ p.body = <<>>
        /\ p.keepAlive <=> r.line.version = "1.1"
        /\ IsParsing(p)
    BY <1>2, <2>1 DEF IsParsing
  <2> QED
    BY <1>3, <2>2 DEF After, HeadOk, Keeps
<1>4. CASE ~LineOk(r)
  <2>1. p = Reject(u)
    BY <1>1, <1>4 DEF ParseRequestLine, LineOk
  <2>2. IsParsing(p) /\ p.state = "failed"
    BY <1>2, <2>1, Rejected
  <2> QED
    BY <1>4, <2>2 DEF After, HeadOk
<1> QED
  BY <1>3, <1>4

\* One header more.
LEMMA AfterHeader ==
  ASSUME NEW r \in Request, NEW n \in Nat, n < Len(r.headers),
         NEW h \in Token, h = r.headers[n + 1], h # Blank,
         NEW p, After(r, n, p),
         NEW data, NEW i, data[i] = h
  PROVE  After(r, n + 1, ParseLine(p, data, i))
<1>1. HeadOk(r, n + 1) <=> HeadOk(r, n) /\ h.is = "header"
  BY DEF HeadOk
<1>2. IsParsing(p)
  BY DEF After
<1>3. CASE ~HeadOk(r, n)
  <2>1. p.state = "failed"
    BY <1>3 DEF After
  <2>2. ParseLine(p, data, i) = p
    BY <2>1 DEF ParseLine
  <2> QED
    BY <1>1, <1>2, <1>3, <2>1, <2>2 DEF After
<1>4. CASE HeadOk(r, n)
  <2>1. /\ p.state = "HEADERS" /\ p.method = r.line.method
        /\ p.path = UrlDecode(r.line.path) /\ p.body = <<>>
        /\ Keeps(r, n, p.keepAlive)
    BY <1>4 DEF After
  <2>2. ParseLine(p, data, i) = ParseHeader(p, h)
    BY <2>1 DEF ParseLine
  <2>3. CASE h.is # "header"
    <3>1. PICK q : q = Reject(p)
      OBVIOUS
    <3>2. ParseHeader(p, h) = q
      BY <2>3, <3>1 DEF ParseHeader
    <3>3. IsParsing(q) /\ q.state = "failed"
      BY <1>2, <3>1, Rejected
    <3> QED
      BY <1>1, <2>2, <2>3, <3>2, <3>3 DEF After
  <2>4. CASE h.is = "header"
    <3>1. ParseHeader(p, h) = [p EXCEPT !.keepAlive = Wishes(p, h)]
      BY <2>4 DEF ParseHeader
    <3>2. /\ Wishes(p, h) \in BOOLEAN
          /\ ~Word(h) => Wishes(p, h) = p.keepAlive
          /\ Word(h) => (Wishes(p, h) <=> ToLower(h.value) = "keep-alive")
      BY <1>2 DEF Wishes, Word, IsParsing
    <3>3. PICK q : q = [p EXCEPT !.keepAlive = Wishes(p, h)]
      OBVIOUS
    <3>4. /\ IsParsing(q) /\ q.keepAlive = Wishes(p, h) /\ q.state = p.state
          /\ q.method = p.method /\ q.path = p.path /\ q.body = p.body
      BY <1>2, <3>2, <3>3 DEF IsParsing
    <3>5. Keeps(r, n + 1, q.keepAlive)
      <4>1. CASE Word(h)
        <5>1. q.keepAlive <=> ToLower(h.value) = "keep-alive"
          BY <3>2, <3>4, <4>1
        <5>2. ~(\A j \in 1..(n + 1) : ~Word(r.headers[j]))
          BY <4>1
        <5>3. ASSUME NEW j \in 1..(n + 1), \A l \in (j + 1)..(n + 1) : ~Word(r.headers[l])
              PROVE  j = n + 1
          BY <4>1, <5>3
        <5> QED
          BY <5>1, <5>2, <5>3 DEF Keeps
      <4>2. CASE ~Word(h)
        <5>1. q.keepAlive = p.keepAlive
          BY <3>2, <3>4, <4>2
        <5>2. (\A j \in 1..(n + 1) : ~Word(r.headers[j])) =>
                \A j \in 1..n : ~Word(r.headers[j])
          OBVIOUS
        <5>3. ASSUME NEW j \in 1..(n + 1), Word(r.headers[j]),
                     \A l \in (j + 1)..(n + 1) : ~Word(r.headers[l])
              PROVE  j \in 1..n /\ \A l \in (j + 1)..n : ~Word(r.headers[l])
          BY <4>2, <5>3
        <5> QED
          BY <2>1, <5>1, <5>2, <5>3 DEF Keeps
      <4> QED
        BY <4>1, <4>2
    <3> QED
      BY <1>1, <1>4, <2>1, <2>2, <2>4, <3>1, <3>3, <3>4, <3>5 DEF After
  <2> QED
    BY <2>3, <2>4
<1> QED
  BY <1>3, <1>4

\* What has become of a request at its empty line and behind it.
Done(r, n, p) ==
  /\ ParseOk(p) <=> HeadOk(r, n)
  /\ p.state \notin {"REQUEST_LINE", "HEADERS"}
  /\ ParseOk(p) =>
       /\ p.method = r.line.method /\ p.path = UrlDecode(r.line.path)
       /\ p.body = IF p.method = "GET" THEN <<>> ELSE r.body
       /\ p.keepAlive \in BOOLEAN /\ Keeps(r, n, p.keepAlive)

\* The empty line ends the headers, and the rest is the body.
LEMMA BlankEnds ==
  ASSUME NEW r \in Request, NEW n \in Nat, NEW p, After(r, n, p),
         NEW data, NEW i, data[i] = Blank,
         SubSeq(data, i + 1, Len(data)) = r.body
  PROVE  Done(r, n, ParseLine(p, data, i))
<1>1. CASE ~HeadOk(r, n)
  <2>1. p.state = "failed"
    BY <1>1 DEF After
  <2>2. ParseLine(p, data, i) = p
    BY <2>1 DEF ParseLine
  <2> QED
    BY <1>1, <2>1, <2>2 DEF Done, ParseOk
<1>2. CASE HeadOk(r, n)
  <2>1. /\ p.state = "HEADERS" /\ p.method = r.line.method
        /\ p.path = UrlDecode(r.line.path) /\ p.body = <<>>
        /\ Keeps(r, n, p.keepAlive) /\ IsParsing(p)
    BY <1>2 DEF After
  <2>2. ParseLine(p, data, i) = ParseBody(p, r.body)
    BY <2>1 DEF ParseLine
  <2>3. CASE p.method = "GET"
    <3>1. PICK q : q = [p EXCEPT !.state = "FINISH"]
      OBVIOUS
    <3>2. ParseLine(p, data, i) = q
      BY <2>2, <2>3, <3>1 DEF ParseBody
    <3>3. /\ q.state = "FINISH" /\ q.method = p.method /\ q.path = p.path
          /\ q.body = p.body /\ q.keepAlive = p.keepAlive
      BY <2>1, <3>1 DEF IsParsing
    <3> QED
      BY <1>2, <2>1, <2>3, <3>2, <3>3 DEF Done, ParseOk, IsParsing
  <2>4. CASE p.method # "GET"
    <3>1. PICK q : q = [p EXCEPT !.state = "BODY", !.body = r.body]
      OBVIOUS
    <3>2. ParseLine(p, data, i) = q
      BY <2>2, <2>4, <3>1 DEF ParseBody
    <3>3. /\ q.state = "BODY" /\ q.method = p.method /\ q.path = p.path
          /\ q.body = r.body /\ q.keepAlive = p.keepAlive
      BY <2>1, <3>1 DEF IsParsing
    <3> QED
      BY <1>2, <2>1, <2>4, <3>2, <3>3 DEF Done, ParseOk, IsParsing
  <2> QED
    BY <2>3, <2>4
<1> QED
  BY <1>1, <1>2

\* parse(), given a well framed request, has read its line, its headers and
\* its body, whatever the body looks like.
LEMMA ParsedWhole ==
  ASSUME NEW r \in Request, WellFramed(r)
  PROVE  Done(r, Len(r.headers), Parse(Whole(r)))
<1>1. PICK w \in Seq(Token), n \in Nat, m \in Nat :
        w = Whole(r) /\ n = Len(r.headers) /\ m = Len(r.body)
  BY WholeParts, HeadParts
<1>2. /\ Len(w) = n + 2 + m /\ w[1] = r.line /\ w[n + 2] = Blank
      /\ \A i \in 1..n : w[i + 1] = r.headers[i]
      /\ \A i \in 1..m : w[n + 2 + i] = r.body[i]
  BY <1>1, WholeParts
<1>3. PICK len \in Nat : len = n + 2 + m
  OBVIOUS
<1>4. PICK f : Parses(f, w, len) /\ Parse(w) = f[len]
  BY <1>2, <1>3, ParseValue
<1>5. SubSeq(w, n + 2 + 1, Len(w)) = r.body
  <2>1. PICK b \in Seq(Token), k \in 0..Len(w) : b = r.body /\ k = n + 2
    BY <1>2 DEF Request
  <2>2. PICK c \in Seq(Token) :
          /\ c = SubSeq(w, k + 1, Len(w)) /\ Len(c) = Len(w) - k
          /\ \A i \in 1..(Len(w) - k) : c[i] = w[k + i]
    <3>1. /\ SubSeq(w, k + 1, Len(w)) \in Seq(Token)
          /\ Len(SubSeq(w, k + 1, Len(w))) = Len(w) - k
          /\ \A i \in 1..(Len(w) - k) : SubSeq(w, k + 1, Len(w))[i] = w[k + i]
      BY Rest
    <3> QED
      BY <3>1
  <2>3. Len(c) = m /\ Len(b) = m /\ \A i \in 1..m : c[i] = b[i]
    <3>1. Len(w) - k = m /\ Len(b) = m
      BY <1>1, <1>2, <2>1
    <3>2. ASSUME NEW i \in 1..m PROVE c[i] = b[i]
      <4>1. c[i] = w[n + 2 + i]
        BY <2>1, <2>2, <3>1
      <4> QED
        BY <1>2, <2>1, <4>1
    <3> QED
      BY <2>2, <3>1, <3>2
  <2>4. c = b
    BY <2>3, SeqEqual
  <2> QED
    BY <2>1, <2>2, <2>4
<1>6. After(r, 0, f[1])
  <2>1. f[0] = Unparsed
    BY <1>4, ParsesAt
  <2>2. f[1] = ParseLine(f[0], w, 1)
    <3>1. 1 \in 0..len /\ 1 - 1 = 0
      BY <1>3
    <3> QED
      BY <1>4, <3>1, ParsesAt
  <2>3. f[1] = ParseRequestLine(Unparsed, r.line)
    <3>1. Unparsed.state = "REQUEST_LINE"
      BY DEF Unparsed
    <3> QED
      BY <1>2, <2>1, <2>2, <3>1 DEF ParseLine
  <2> QED
    BY <2>3, AfterLine
<1>7. \A i \in Nat : i <= n => After(r, i, f[i + 1])
  <2> DEFINE T == {i \in Nat : i <= n => After(r, i, f[i + 1])}
  <2>1. 0 \in T
    BY <1>6
  <2>2. ASSUME NEW i \in Nat, i \in T PROVE i + 1 \in T
    <3> SUFFICES ASSUME i + 1 <= n PROVE After(r, i + 1, f[i + 2])
      OBVIOUS
    <3>1. After(r, i, f[i + 1])
      BY <2>2
    <3>2. PICK j \in 0..len : j = i + 2
      BY <1>3
    <3>3. f[j] = ParseLine(f[i + 1], w, j)
      <4>1. j # 0 /\ j - 1 = i + 1
        BY <3>2
      <4> QED
        BY <1>4, <4>1, ParsesAt
    <3>4. PICK h \in Token : h = r.headers[i + 1] /\ h # Blank
      <4>1. i + 1 \in 1..Len(r.headers)
        BY <1>1
      <4>2. r.headers[i + 1] \in Token
        BY <4>1 DEF Request
      <4> QED
        BY <4>1, <4>2 DEF WellFramed
    <3>5. w[j] = h
      <4>1. i + 1 \in 1..n /\ j = (i + 1) + 1
        BY <3>2
      <4> QED
        BY <1>2, <3>4, <4>1
    <3>6. i < Len(r.headers)
      BY <1>1
    <3>7. After(r, i + 1, ParseLine(f[i + 1], w, j))
      BY <3>1, <3>4, <3>5, <3>6, AfterHeader
    <3> QED
      BY <3>2, <3>3, <3>7
  <2> HIDE DEF T
  <2>3. Nat \subseteq T
    BY <2>1, <2>2, Induction
  <2> QED
    BY <2>3 DEF T
<1>8. Done(r, n, f[n + 2])
  <2>1. PICK j \in 0..len : j = n + 2
    BY <1>3
  <2>2. f[j] = ParseLine(f[n + 1], w, j)
    <3>1. j # 0 /\ j - 1 = n + 1
      BY <2>1
    <3> QED
      BY <1>4, <3>1, ParsesAt
  <2>3. w[j] = Blank /\ SubSeq(w, j + 1, Len(w)) = r.body
    BY <1>2, <1>5, <2>1
  <2>4. After(r, n, f[n + 1])
    BY <1>7
  <2> QED
    BY <2>1, <2>2, <2>3, <2>4, BlankEnds
<1>9. \A i \in Nat : i <= m => f[n + 2 + i] = f[n + 2]
  <2> DEFINE T == {i \in Nat : i <= m => f[n + 2 + i] = f[n + 2]}
  <2>1. 0 \in T
    OBVIOUS
  <2>2. ASSUME NEW i \in Nat, i \in T PROVE i + 1 \in T
    <3> SUFFICES ASSUME i + 1 <= m PROVE f[n + 2 + (i + 1)] = f[n + 2]
      OBVIOUS
    <3>1. f[n + 2 + i] = f[n + 2]
      BY <2>2
    <3>2. PICK j \in 0..len : j = n + 2 + (i + 1)
      BY <1>3
    <3>3. f[j] = ParseLine(f[n + 2 + i], w, j)
      <4>1. j # 0 /\ j - 1 = n + 2 + i
        BY <3>2
      <4> QED
        BY <1>4, <4>1, ParsesAt
    <3>4. ParseLine(f[n + 2], w, j) = f[n + 2]
      BY <1>8 DEF Done, ParseLine
    <3> QED
      BY <3>1, <3>2, <3>3, <3>4
  <2> HIDE DEF T
  <2>3. Nat \subseteq T
    BY <2>1, <2>2, Induction
  <2> QED
    BY <2>3 DEF T
<1>10. f[n + 2 + m] = f[n + 2]
  BY <1>9
<1> QED
  BY <1>1, <1>3, <1>4, <1>8, <1>10

-----------------------------------------------------------------------------
(* What the router and prepare() make of it *)

\* The path of a request that was parsed is the client's, decoded once.
LEMMA PathDecoded ==
  ASSUME NEW r \in Request, NEW n, HeadOk(r, n), NEW path, path = UrlDecode(r.line.path)
  PROVE  /\ path = Text(path.text, path.layers)
         /\ path.text = r.line.path.text
         /\ path.layers \in Nat /\ r.line.path.layers \in Nat
         /\ path.layers = 0 <=> r.line.path.layers <= 1
<1>1. r.line \in Token /\ r.line.is = "request"
  BY DEF Request, HeadOk, LineOk
<1>2. r.line.path \in Texts
  BY <1>1 DEF Token, Junk, Blank
<1>3. PICK t \in STRING, l \in Nat : t = r.line.path.text /\ l = r.line.path.layers
  BY <1>2 DEF Texts
<1>4. path = [text |-> t, layers |-> IF l = 0 THEN 0 ELSE l - 1]
  BY <1>3 DEF UrlDecode, Text
<1>5. path.text = t /\ path.layers = IF l = 0 THEN 0 ELSE l - 1
  BY <1>4
<1>6. path.layers \in Nat /\ (path.layers = 0 <=> l <= 1)
  <2>1. CASE l = 0
    BY <1>5, <2>1
  <2>2. CASE l # 0
    BY <1>5, <2>2
  <2> QED
    BY <2>1, <2>2
<1> QED
  BY <1>3, <1>4, <1>5, <1>6 DEF Text

\* The request names that path.
Named(r, name) == r.line.path.text = name /\ r.line.path.layers <= 1
Dots(r) == \E text \in Dotted : Named(r, text)

Says(reply, status, type, name) ==
  reply.status = status /\ reply.type = type /\ reply.body = Text(name, 0)

\* Page() says what it is given.
LEMMA PageSays ==
  ASSUME NEW status, NEW type, NEW name, NEW reply, reply = Page(status, type, name)
  PROVE  Says(reply, status, type, name)
BY DEF Page, Says

\* The file that the path opens.
Opens(path, works, reply) ==
  /\ path.layers = 0 /\ works /\ FileName(path) \in DOMAIN Files
  /\ Files[FileName(path)].kind = "regular"
  /\ Says(reply, 200, GetMimeType(FileAt(path).ext), FileName(path))

Handled(r, p, ok, reply) ==
  \/ ~Asks(p) /\ p.method # "POST" /\ Says(reply, 405, Json, "method not allowed")
  \/ ~Asks(p) /\ p.method = "POST" /\ Says(reply, 400, Json, "username and password required")
  \/ Asks(p) /\ Named(r, "/register") /\ ok /\ Says(reply, 201, Json, "registered")
  \/ Asks(p) /\ Named(r, "/register") /\ ~ok /\ Says(reply, 409, Json, "username already exists")
  \/ Asks(p) /\ Named(r, "/login") /\ ok /\ Says(reply, 200, Json, "login ok")
  \/ Asks(p) /\ Named(r, "/login") /\ ~ok /\ Says(reply, 401, Json, "invalid credentials")

Prepared(r, p, works, reply) ==
  \/ Dots(r) /\ Says(reply, 403, Html, "forbidden")
  \/ ~Dots(r) /\ Opens(p.path, works, reply)
  \/ /\ ~Dots(r) /\ Named(r, "/") /\ Says(reply, 200, Html, "welcome")
     /\ ~OpenFile(FileAt(p.path), works)
  \/ /\ ~Dots(r) /\ ~Named(r, "/") /\ Says(reply, 404, Html, "not found")
     /\ ~OpenFile(FileAt(p.path), works)

\* A path is a constant of the code when the client has named it, encoded at
\* most once.
LEMMA NamedPath ==
  ASSUME NEW r \in Request, NEW n, HeadOk(r, n), NEW path, path = UrlDecode(r.line.path),
         NEW name
  PROVE  path = Text(name, 0) <=> Named(r, name)
<1>1. /\ path = Text(path.text, path.layers)
      /\ path.text = r.line.path.text
      /\ path.layers = 0 <=> r.line.path.layers <= 1
  BY PathDecoded
<1> QED
  BY <1>1 DEF Named, Text

\* What handle() answers, case by case.
LEMMA HandledCases ==
  ASSUME NEW r \in Request, NEW n, HeadOk(r, n), NEW p, Done(r, n, p),
         NEW ok, NEW reply, reply = Route(p, ok), Handles(p)
  PROVE  Handled(r, p, ok, reply)
<1>1. p.path = UrlDecode(r.line.path)
  BY DEF Done
<1>2. /\ p.path = Text("/register", 0) <=> Named(r, "/register")
      /\ p.path = Text("/login", 0) <=> Named(r, "/login")
  BY <1>1, NamedPath
<1>3. CASE p.method # "POST"
  <2>1. reply = Page(405, Json, "method not allowed") /\ ~Asks(p)
    BY <1>3 DEF Route, Asks
  <2>2. Says(reply, 405, Json, "method not allowed") /\ ~Asks(p)
    BY <2>1, PageSays
  <2> QED
    BY <1>3, <2>1, <2>2 DEF Handled
<1>4. CASE p.method = "POST" /\ ~Asks(p)
  <2>1. reply = Page(400, Json, "username and password required")
    BY <1>4 DEF Route
  <2>2. Says(reply, 400, Json, "username and password required")
    BY <2>1, PageSays
  <2> QED
    BY <1>4, <2>1, <2>2 DEF Handled
<1>5. CASE Asks(p) /\ Named(r, "/register")
  <2>1. p.method = "POST" /\ p.path.text = "/register"
    BY <1>2, <1>5 DEF Asks, Text
  <2>2. reply = IF ok THEN Page(201, Json, "registered")
                ELSE Page(409, Json, "username already exists")
    BY <1>5, <2>1 DEF Route
  <2>3. CASE ok
    <3>1. reply = Page(201, Json, "registered")
      BY <2>2, <2>3
    <3>2. Says(reply, 201, Json, "registered")
      BY <3>1, PageSays
    <3> QED
      BY <1>5, <2>3, <3>1, <3>2 DEF Handled
  <2>4. CASE ~ok
    <3>1. reply = Page(409, Json, "username already exists")
      BY <2>2, <2>4
    <3>2. Says(reply, 409, Json, "username already exists")
      BY <3>1, PageSays
    <3> QED
      BY <1>5, <2>4, <3>1, <3>2 DEF Handled
  <2> QED
    BY <2>3, <2>4
<1>6. CASE Asks(p) /\ Named(r, "/login")
  <2>1. p.method = "POST" /\ p.path.text = "/login"
    BY <1>2, <1>6 DEF Asks, Text
  <2>2. reply = IF ok THEN Page(200, Json, "login ok")
                ELSE Page(401, Json, "invalid credentials")
    BY <1>6, <2>1 DEF Route
  <2>3. CASE ok
    <3>1. reply = Page(200, Json, "login ok")
      BY <2>2, <2>3
    <3>2. Says(reply, 200, Json, "login ok")
      BY <3>1, PageSays
    <3> QED
      BY <1>6, <2>3, <3>1, <3>2 DEF Handled
  <2>4. CASE ~ok
    <3>1. reply = Page(401, Json, "invalid credentials")
      BY <2>2, <2>4
    <3>2. Says(reply, 401, Json, "invalid credentials")
      BY <3>1, PageSays
    <3> QED
      BY <1>6, <2>4, <3>1, <3>2 DEF Handled
  <2> QED
    BY <2>3, <2>4
<1>7. Named(r, "/register") \/ Named(r, "/login")
  BY <1>2 DEF Handles
<1> QED
  BY <1>3, <1>4, <1>5, <1>6, <1>7

\* What prepare() answers, case by case.
LEMMA PreparedCases ==
  ASSUME NEW r \in Request, NEW n, HeadOk(r, n), NEW p, Done(r, n, p),
         NEW works, NEW reply, reply = Prepare(p.path, works)
  PROVE  Prepared(r, p, works, reply)
<1>1. p.path = UrlDecode(r.line.path)
  BY DEF Done
<1>2. p.path = Text("/", 0) <=> Named(r, "/")
  BY <1>1, NamedPath
<1>3. HasDots(p.path) <=> Dots(r)
  <2>1. p.path.text = r.line.path.text /\ (p.path.layers = 0 <=> r.line.path.layers <= 1)
    BY <1>1, PathDecoded
  <2> QED
    BY <2>1 DEF HasDots, Dots, Named
<1>4. CASE HasDots(p.path)
  <2>1. reply = Page(403, Html, "forbidden")
    BY <1>4 DEF Prepare
  <2>2. Says(reply, 403, Html, "forbidden")
    BY <2>1, PageSays
  <2> QED
    BY <1>3, <1>4, <2>1, <2>2 DEF Prepared
<1>5. CASE ~HasDots(p.path) /\ OpenFile(FileAt(p.path), works)
  <2>1. /\ reply.status = 200 /\ reply.type = GetMimeType(FileAt(p.path).ext)
        /\ reply.body = Text(FileName(p.path), 0)
    BY <1>5 DEF Prepare
  <2>2. FileAt(p.path).kind = "regular" /\ works
    BY <1>5 DEF OpenFile
  <2>3. FileAt(p.path) # Absent
    BY <2>2 DEF Absent
  <2>4. /\ p.path.layers = 0 /\ FileName(p.path) \in DOMAIN Files
        /\ FileAt(p.path) = Files[FileName(p.path)]
    BY <2>3 DEF FileAt
  <2> QED
    BY <1>3, <1>5, <2>1, <2>2, <2>4 DEF Prepared, Opens, Says
<1>6. CASE ~HasDots(p.path) /\ ~OpenFile(FileAt(p.path), works) /\ p.path = Root
  <2>1. reply = Page(200, Html, "welcome")
    BY <1>6 DEF Prepare
  <2>2. Says(reply, 200, Html, "welcome")
    BY <2>1, PageSays
  <2> QED
    BY <1>2, <1>3, <1>6, <2>1, <2>2 DEF Prepared, Root
<1>7. CASE ~HasDots(p.path) /\ ~OpenFile(FileAt(p.path), works) /\ p.path # Root
  <2>1. reply = Page(404, Html, "not found")
    BY <1>7 DEF Prepare
  <2>2. Says(reply, 404, Html, "not found")
    BY <2>1, PageSays
  <2> QED
    BY <1>2, <1>3, <1>7, <2>1, <2>2 DEF Prepared, Root
<1> QED
  BY <1>4, <1>5, <1>6, <1>7

\* Texts tell their names apart.
LEMMA SameText ==
  ASSUME NEW a, NEW b
  PROVE  Text(a, 0) = Text(b, 0) <=> a = b
BY DEF Text

\* The name that the request shows when there is a file of that name.
Wanted(r, name) == Named(r, name) \/ (name = "/index.html" /\ Named(r, "/"))

\* No file has the name of a page.
LEMMA NoReserved ==
  ASSUME NEW name \in DOMAIN Files
  PROVE  name \notin Reserved
BY ExchangeAssumption

\* The file of a path is the one that the client has named.
LEMMA FileWanted ==
  ASSUME NEW r \in Request, NEW n, HeadOk(r, n), NEW path, path = UrlDecode(r.line.path),
         NEW name \in DOMAIN Files, NEW works
  PROVE  /\ path.layers = 0 => (FileName(path) = name <=> Wanted(r, name))
         /\ Wanted(r, name) => path.layers = 0
         /\ Wanted(r, name) /\ Files[name].kind = "regular" /\ works =>
              OpenFile(FileAt(path), works)
         /\ Wanted(r, name) => ~Named(r, "/register") /\ ~Named(r, "/login")
         /\ Wanted(r, name) => (Dots(r) <=> name \in Dotted)
<1>1. /\ path = Text(path.text, path.layers)
      /\ path.text = r.line.path.text
      /\ path.layers = 0 <=> r.line.path.layers <= 1
  BY PathDecoded
<1>2. name # "/" /\ name # "/register" /\ name # "/login"
  BY NoReserved DEF Reserved
<1>3. Wanted(r, name) => path.layers = 0
  BY <1>1 DEF Wanted, Named
<1>4. path = Root <=> Named(r, "/")
  BY NamedPath DEF Root
<1>5. ASSUME path.layers = 0
      PROVE  FileName(path) = name <=> Wanted(r, name)
  <2>1. CASE path = Root
    <3>1. FileName(path) = "/index.html"
      BY <2>1 DEF FileName
    <3>2. path.text = "/"
      BY <2>1 DEF Root, Text
    <3> QED
      BY <1>1, <1>2, <1>4, <2>1, <3>1, <3>2 DEF Wanted, Named
  <2>2. CASE path # Root
    <3>1. FileName(path) = path.text
      BY <2>2 DEF FileName
    <3> QED
      BY <1>1, <1>4, <1>5, <2>2, <3>1 DEF Wanted, Named
  <2> QED
    BY <2>1, <2>2
<1>6. Wanted(r, name) /\ Files[name].kind = "regular" /\ works =>
        OpenFile(FileAt(path), works)
  BY <1>3, <1>5 DEF FileAt, OpenFile
<1>7. Wanted(r, name) => ~Named(r, "/register") /\ ~Named(r, "/login")
  BY <1>2 DEF Wanted, Named
<1>8. Wanted(r, name) => (Dots(r) <=> name \in Dotted)
  <2>1. "/" \notin Dotted /\ "/index.html" \notin Dotted
    BY ExchangeAssumption, Zenon DEF Reserved
  <2> QED
    BY <2>1 DEF Wanted, Named, Dots
<1> QED
  BY <1>3, <1>5, <1>6, <1>7, <1>8

\* What a client tells replies apart by.
Bad(reply) == reply.status = 400
Forbidden(reply) == reply.status = 403
Missing(reply) == reply.status = 404
Fine(reply) == reply.status = 200
Showing(reply, text) == reply.body = Text(text, 0)

\* A POST to the user service without both values.
Lacks(p) == Handles(p) /\ p.method = "POST" /\ ~Asks(p)

\* The file that the reply is due to show.
Gets(r, name, works) ==
  Wanted(r, name) /\ Files[name].kind = "regular" /\ name \notin Dotted /\ works

Right(r, n, p, works, reply) ==
  /\ Bad(reply) <=> (~HeadOk(r, n) \/ Lacks(p))
  /\ HeadOk(r, n) /\ Dots(r) <=> Forbidden(reply)
  /\ HeadOk(r, n) /\ works =>
       \A name \in DOMAIN Files : Showing(reply, name) <=> Gets(r, name, works)
  /\ \A name \in DOMAIN Files : Showing(reply, name) => Fine(reply)
  /\ Missing(reply) => \A name \in DOMAIN Files : ~Gets(r, name, works)

\* A page is no file.
LEMMA PageShown ==
  ASSUME NEW reply, NEW text \in Reserved, Showing(reply, text)
  PROVE  \A name \in DOMAIN Files : ~Showing(reply, name)
<1> SUFFICES ASSUME NEW name \in DOMAIN Files, Showing(reply, name) PROVE FALSE
  OBVIOUS
<1>1. Text(text, 0) = Text(name, 0)
  BY DEF Showing
<1>2. text = name
  BY <1>1, SameText
<1> QED
  BY <1>2, NoReserved

\* A page whose text is no name of a file, for a path that opens none.
LEMMA PageRight ==
  ASSUME NEW r, NEW n, HeadOk(r, n), NEW p, NEW works, NEW reply,
         NEW text \in Reserved, Showing(reply, text),
         Bad(reply) <=> Lacks(p), Forbidden(reply) <=> Dots(r),
         \A name \in DOMAIN Files : ~Gets(r, name, works)
  PROVE  Right(r, n, p, works, reply)
<1>1. \A name \in DOMAIN Files : ~Showing(reply, name)
  BY PageShown
<1> QED
  BY <1>1 DEF Right

\* The three statuses are told from the others.
Plain(reply) == ~Bad(reply) /\ ~Forbidden(reply) /\ ~Missing(reply)

\* What a reply says, it shows.
LEMMA SaysShows ==
  ASSUME NEW reply, NEW status, NEW type, NEW text, Says(reply, status, type, text)
  PROVE  Showing(reply, text)
BY DEF Says, Showing

\* 400 is a bad request, and nothing else.
LEMMA SaysBad ==
  ASSUME NEW reply, NEW type, NEW text, Says(reply, 400, type, text)
  PROVE  Bad(reply) /\ ~Forbidden(reply) /\ ~Missing(reply)
BY DEF Says, Bad, Forbidden, Missing

\* 403 is forbidden, and nothing else.
LEMMA SaysForbidden ==
  ASSUME NEW reply, NEW type, NEW text, Says(reply, 403, type, text)
  PROVE  Forbidden(reply) /\ ~Bad(reply)
BY DEF Says, Bad, Forbidden

\* 404 is neither bad nor forbidden.
LEMMA SaysMissing ==
  ASSUME NEW reply, NEW type, NEW text, Says(reply, 404, type, text)
  PROVE  ~Forbidden(reply) /\ ~Bad(reply)
BY DEF Says, Bad, Forbidden

\* Any other status is none of the three.
LEMMA SaysPlain ==
  ASSUME NEW reply, NEW status \in {200, 201, 401, 405, 409}, NEW type, NEW text,
         Says(reply, status, type, text)
  PROVE  Plain(reply)
<1>1. reply.status = status
  BY DEF Says
<1> QED
  BY <1>1 DEF Plain, Bad, Forbidden, Missing

\* A file that is opened is the one that was asked for.
LEMMA FileRight ==
  ASSUME NEW r \in Request, NEW n, HeadOk(r, n), NEW p, ~Handles(p), NEW works, NEW reply,
         NEW path, path = UrlDecode(r.line.path), Opens(path, works, reply),
         ~Dots(r)
  PROVE  Right(r, n, p, works, reply)
<1>1. /\ path.layers = 0 /\ works /\ FileName(path) \in DOMAIN Files
      /\ Files[FileName(path)].kind = "regular"
      /\ Says(reply, 200, GetMimeType(FileAt(path).ext), FileName(path))
  BY DEF Opens
<1>2. Showing(reply, FileName(path))
  BY <1>1, SaysShows
<1>3. ~Bad(reply) /\ ~Forbidden(reply) /\ ~Missing(reply)
  BY <1>1, SaysPlain DEF Plain
<1>4. Fine(reply)
  BY <1>1 DEF Says, Fine
<1>5. ASSUME NEW name \in DOMAIN Files
      PROVE  Showing(reply, name) <=> Gets(r, name, works)
  <2>1. Showing(reply, name) <=> FileName(path) = name
    BY <1>2, SameText DEF Showing
  <2>2. FileName(path) = name <=> Wanted(r, name)
    BY <1>1, FileWanted
  <2>3. Wanted(r, name) => name \notin Dotted
    BY FileWanted
  <2> QED
    BY <1>1, <2>1, <2>2, <2>3 DEF Gets
<1> QED
  BY <1>3, <1>4, <1>5 DEF Right, Lacks

HandledSays(text, p, reply) ==
  /\ Showing(reply, text) /\ ~Forbidden(reply) /\ ~Missing(reply)
  /\ Bad(reply) <=> p.method = "POST" /\ ~Asks(p)

\* A reply of the router shows a page and no file.
LEMMA HandledPage ==
  ASSUME NEW r, NEW p, NEW ok, NEW reply, Handled(r, p, ok, reply)
  PROVE  \E text \in Reserved : HandledSays(text, p, reply)
<1>1. CASE ~Asks(p) /\ p.method # "POST" /\ Says(reply, 405, Json, "method not allowed")
  <2>1. "method not allowed" \in Reserved
    BY DEF Reserved
  <2>2. Showing(reply, "method not allowed")
    BY <1>1, SaysShows
  <2>3. ~Bad(reply) /\ ~Forbidden(reply) /\ ~Missing(reply)
    <3>1. \E text : Says(reply, 405, Json, text)
      BY <1>1, Zenon
    <3> QED
      BY <3>1 DEF Says, Bad, Forbidden, Missing
  <2>4. HandledSays("method not allowed", p, reply)
    BY <1>1, <2>2, <2>3 DEF HandledSays
  <2> QED
    BY <2>1, <2>4
<1>2. CASE ~Asks(p) /\ p.method = "POST" /\ Says(reply, 400, Json, "username and password required")
  <2>1. "username and password required" \in Reserved
    BY DEF Reserved
  <2>2. Showing(reply, "username and password required")
    BY <1>2, SaysShows
  <2>3. Bad(reply) /\ ~Forbidden(reply) /\ ~Missing(reply)
    BY <1>2, SaysBad
  <2>4. HandledSays("username and password required", p, reply)
    BY <1>2, <2>2, <2>3 DEF HandledSays
  <2> QED
    BY <2>1, <2>4
<1>3. CASE Asks(p) /\ Says(reply, 201, Json, "registered")
  <2>1. "registered" \in Reserved
    BY DEF Reserved
  <2>2. Showing(reply, "registered")
    BY <1>3, SaysShows
  <2>3. ~Bad(reply) /\ ~Forbidden(reply) /\ ~Missing(reply)
    <3>1. \E text : Says(reply, 201, Json, text)
      BY <1>3, Zenon
    <3> QED
      BY <3>1 DEF Says, Bad, Forbidden, Missing
  <2>4. HandledSays("registered", p, reply)
    BY <1>3, <2>2, <2>3 DEF HandledSays
  <2> QED
    BY <2>1, <2>4
<1>4. CASE Asks(p) /\ Says(reply, 409, Json, "username already exists")
  <2>1. "username already exists" \in Reserved
    BY DEF Reserved
  <2>2. Showing(reply, "username already exists")
    BY <1>4, SaysShows
  <2>3. ~Bad(reply) /\ ~Forbidden(reply) /\ ~Missing(reply)
    <3>1. \E text : Says(reply, 409, Json, text)
      BY <1>4, Zenon
    <3> QED
      BY <3>1 DEF Says, Bad, Forbidden, Missing
  <2>4. HandledSays("username already exists", p, reply)
    BY <1>4, <2>2, <2>3 DEF HandledSays
  <2> QED
    BY <2>1, <2>4
<1>5. CASE Asks(p) /\ Says(reply, 200, Json, "login ok")
  <2>1. "login ok" \in Reserved
    BY DEF Reserved
  <2>2. Showing(reply, "login ok")
    BY <1>5, SaysShows
  <2>3. ~Bad(reply) /\ ~Forbidden(reply) /\ ~Missing(reply)
    <3>1. \E text : Says(reply, 200, Json, text)
      BY <1>5, Zenon
    <3> QED
      BY <3>1 DEF Says, Bad, Forbidden, Missing
  <2>4. HandledSays("login ok", p, reply)
    BY <1>5, <2>2, <2>3 DEF HandledSays
  <2> QED
    BY <2>1, <2>4
<1>6. CASE Asks(p) /\ Says(reply, 401, Json, "invalid credentials")
  <2>1. "invalid credentials" \in Reserved
    BY DEF Reserved
  <2>2. Showing(reply, "invalid credentials")
    BY <1>6, SaysShows
  <2>3. ~Bad(reply) /\ ~Forbidden(reply) /\ ~Missing(reply)
    <3>1. \E text : Says(reply, 401, Json, text)
      BY <1>6, Zenon
    <3> QED
      BY <3>1 DEF Says, Bad, Forbidden, Missing
  <2>4. HandledSays("invalid credentials", p, reply)
    BY <1>6, <2>2, <2>3 DEF HandledSays
  <2> QED
    BY <2>1, <2>4
<1> QED
  BY <1>1, <1>2, <1>3, <1>4, <1>5, <1>6, ZenonT(40) DEF Handled

\* The reply to a parsed request is the right one.
LEMMA RightReply ==
  ASSUME NEW r \in Request, NEW n, NEW p, Done(r, n, p),
         NEW ok, NEW works, NEW reply, reply = Reply(p, ok, works)
  PROVE  Right(r, n, p, works, reply)
<1>1. CASE ~HeadOk(r, n)
  <2>1. ~ParseOk(p)
    BY <1>1 DEF Done
  <2>2. reply = Page(400, "text/plain", "Bad Request")
    BY <2>1 DEF Reply
  <2>3. Says(reply, 400, "text/plain", "Bad Request")
    BY <2>2, PageSays
  <2>4. Bad(reply) /\ ~Forbidden(reply) /\ ~Missing(reply)
    BY <2>3, SaysBad
  <2>5. Showing(reply, "Bad Request") /\ "Bad Request" \in Reserved
    BY <2>3, SaysShows DEF Reserved
  <2>6. \A name \in DOMAIN Files : ~Showing(reply, name)
    BY <2>5, PageShown
  <2> QED
    BY <1>1, <2>4, <2>6 DEF Right
<1>2. CASE HeadOk(r, n) /\ Handles(p)
  <2>1. ParseOk(p) /\ p.path = UrlDecode(r.line.path)
    BY <1>2 DEF Done
  <2>2. reply = Route(p, ok)
    BY <1>2, <2>1 DEF Reply
  <2>3. Handled(r, p, ok, reply)
    BY <1>2, <2>2, HandledCases
  <2>4. Named(r, "/register") \/ Named(r, "/login")
    <3>1. /\ p.path = Text("/register", 0) <=> Named(r, "/register")
          /\ p.path = Text("/login", 0) <=> Named(r, "/login")
      BY <1>2, <2>1, NamedPath
    <3> QED
      BY <1>2, <3>1 DEF Handles
  <2>5. \A name \in DOMAIN Files : ~Gets(r, name, works)
    <3> SUFFICES ASSUME NEW name \in DOMAIN Files, Wanted(r, name) PROVE FALSE
      BY DEF Gets
    <3>1. ~Named(r, "/register") /\ ~Named(r, "/login")
      BY <1>2, <2>1, FileWanted
    <3> QED
      BY <2>4, <3>1
  <2>6. ~Dots(r)
    <3>1. "/register" \notin Dotted /\ "/login" \notin Dotted
      BY ExchangeAssumption, Zenon DEF Reserved
    <3> QED
      BY <2>4, <3>1 DEF Dots, Named
  <2>7. PICK text \in Reserved : HandledSays(text, p, reply)
    BY <2>3, HandledPage
  <2>8. /\ Showing(reply, text) /\ ~Forbidden(reply)
        /\ Bad(reply) <=> Lacks(p)
    BY <1>2, <2>7 DEF HandledSays, Lacks
  <2> QED
    BY <1>2, <2>5, <2>6, <2>8, PageRight
<1>3. CASE HeadOk(r, n) /\ ~Handles(p)
  <2>1. ParseOk(p) /\ p.path = UrlDecode(r.line.path)
    BY <1>3 DEF Done
  <2>2. reply = Prepare(p.path, works)
    BY <1>3, <2>1 DEF Reply
  <2>3. Prepared(r, p, works, reply)
    BY <1>3, <2>2, PreparedCases
  <2>4. CASE Dots(r) /\ Says(reply, 403, Html, "forbidden")
    <3>1. \A name \in DOMAIN Files : ~Gets(r, name, works)
      <4> SUFFICES ASSUME NEW name \in DOMAIN Files, Wanted(r, name), name \notin Dotted
                   PROVE  FALSE
        BY DEF Gets
      <4>1. ~Dots(r)
        BY <1>3, <2>1, FileWanted
      <4> QED
        BY <2>4, <4>1
    <3>2. "forbidden" \in Reserved /\ ~Lacks(p)
      BY <1>3 DEF Reserved, Lacks
    <3>3. Showing(reply, "forbidden") /\ Forbidden(reply) /\ ~Bad(reply)
      BY <2>4, SaysShows, SaysForbidden
    <3> QED
      BY <1>3, <2>4, <3>1, <3>2, <3>3, PageRight
  <2>5. CASE ~Dots(r) /\ Opens(p.path, works, reply)
    BY <1>3, <2>1, <2>5, FileRight
  <2>6. CASE ~Dots(r) /\ ~OpenFile(FileAt(p.path), works)
    <3>1. \A name \in DOMAIN Files : ~Gets(r, name, works)
      <4> SUFFICES ASSUME NEW name \in DOMAIN Files, Gets(r, name, works) PROVE FALSE
        OBVIOUS
      <4>1. Wanted(r, name) /\ Files[name].kind = "regular" /\ works
        BY DEF Gets
      <4>2. OpenFile(FileAt(p.path), works)
        BY <1>3, <2>1, <4>1, FileWanted
      <4> QED
        BY <2>6, <4>2
    <3>2. CASE Says(reply, 200, Html, "welcome")
      <4>1. "welcome" \in Reserved /\ ~Lacks(p)
        BY <1>3 DEF Reserved, Lacks
      <4>2. Showing(reply, "welcome") /\ ~Forbidden(reply) /\ ~Bad(reply)
        BY <3>2, SaysShows, SaysPlain DEF Plain
      <4> QED
        BY <1>3, <2>6, <3>1, <4>1, <4>2, PageRight
    <3>3. CASE Says(reply, 404, Html, "not found")
      <4>1. "not found" \in Reserved /\ ~Lacks(p)
        BY <1>3 DEF Reserved, Lacks
      <4>2. Showing(reply, "not found") /\ ~Forbidden(reply) /\ ~Bad(reply)
        BY <3>3, SaysShows, SaysMissing, ZenonT(40)
      <4> QED
        BY <1>3, <2>6, <3>1, <4>1, <4>2, PageRight
    <3>4. CASE Opens(p.path, works, reply)
      BY <1>3, <2>1, <2>6, <3>4, FileRight
    <3> QED
      BY <2>3, <2>6, <3>2, <3>3, <3>4 DEF Prepared
  <2> QED
    BY <2>3, <2>4, <2>5, <2>6 DEF Prepared
<1> QED
  BY <1>1, <1>2, <1>3

-----------------------------------------------------------------------------
(* The theorems *)

\* What holds of every exchange, and what holds when each request is framed
\* by its own head.
ExchangeInv == Typed /\ Suffix /\ WireInv /\ RepliesInv
Framed == \A r \in Requests : WellFramed(r)

\* The inductive invariant of the exchange.
LEMMA ExchangeInvariant == ExchangeSpec => []ExchangeInv
<1>1. ExchangeInit => ExchangeInv
  BY TypedInit, SuffixInit, WireInit, RepliesInit DEF ExchangeInv
<1>2. ExchangeInv /\ [ExchangeNext]_exchangeVars => ExchangeInv'
  <2> SUFFICES ASSUME ExchangeInv, [ExchangeNext]_exchangeVars PROVE ExchangeInv'
    OBVIOUS
  <2>1. Typed /\ Suffix /\ WireInv /\ RepliesInv
    BY DEF ExchangeInv
  <2>2. ConnStep
    BY StepOfConn
  <2>3. Typed' /\ Suffix'
    BY <2>1, <2>2, TypedNext, SuffixNext
  <2>4. WireInv'
    BY <2>1, <2>2, WireNext
  <2>5. RepliesInv'
    BY <2>1, RepliesNext
  <2> QED
    BY <2>3, <2>4, <2>5 DEF ExchangeInv
<1> QED
  BY <1>1, <1>2, PTL DEF ExchangeSpec

\* And what it says of the stream, when each request is well framed.
LEMMA CutInvariant ==
  ASSUME Framed
  PROVE  ExchangeSpec => []CutInv
<1>1. ExchangeInit => CutInv
  BY TypedInit, CutInit
<1>2. ExchangeInv /\ CutInv /\ [ExchangeNext]_exchangeVars => CutInv'
  <2> SUFFICES ASSUME ExchangeInv, CutInv, [ExchangeNext]_exchangeVars PROVE CutInv'
    OBVIOUS
  <2>1. Typed
    BY DEF ExchangeInv
  <2>2. ConnStep
    BY StepOfConn
  <2> QED
    BY <2>1, <2>2, CutNext DEF Framed
<1> QED
  BY <1>1, <1>2, ExchangeInvariant, PTL DEF ExchangeSpec

\* The variables of the connection keep their types: offsets within what is
\* sent, what is unread an end of what the client sends.
THEOREM ExchangeTypeCorrect == ExchangeSpec => []TypeOK
<1>1. ExchangeInv => TypeOK
  BY TypedImplies DEF ExchangeInv
<1> QED
  BY <1>1, ExchangeInvariant, PTL

\* However writev() splits what the iovecs hold, consumeWriteData() makes the
\* client receive each response whole: header before file, no gap, no
\* repetition.
THEOREM WireWhole == ExchangeSpec => []WireExact
<1>1. ExchangeInv => WireExact
  BY WireImplies DEF ExchangeInv
<1> QED
  BY <1>1, ExchangeInvariant, PTL

\* When each request declares its length, extractOneRequest() hands the
\* client's requests to the parser one by one, however read() splits or joins
\* them and whatever a body contains.
THEOREM RequestsExact ==
  ASSUME Framed
  PROVE  ExchangeSpec => []ExtractedExact
<1>1. ExchangeInv /\ CutInv => ExtractedExact
  BY CutAll DEF ExchangeInv, Framed
<1> QED
  BY <1>1, ExchangeInvariant, CutInvariant, PTL

\* And no complete request stays in the buffer once everything has been read.
THEOREM NoneLeftBehind ==
  ASSUME Framed
  PROVE  ExchangeSpec => []AllExtracted
<1>1. ExchangeInv /\ CutInv => AllExtracted
  BY CutAll DEF ExchangeInv, Framed
<1> QED
  BY <1>1, ExchangeInvariant, CutInvariant, PTL
-----------------------------------------------------------------------------
\* The request of a reply, what was parsed of it, and the answer.
LEMMA Heard ==
  ASSUME ExchangeInv, CutInv, Framed, NEW k \in 1..Len(replies)
  PROVE  \E r \in Request :
           /\ r = requests[k] /\ WellFramed(r)
           /\ Answered(replies[k], responses[k], Whole(r))
           /\ Done(r, Len(r.headers), Parse(Whole(r)))
<1>1. Typed /\ RepliesInv /\ ExtractedExact
  BY CutAll DEF ExchangeInv, Framed
<1>2. k \in 1..Len(extracted)
  <2>1. Len(replies) \in Nat
    BY <1>1 DEF RepliesInv
  <2> QED
    BY <1>1, <2>1 DEF RepliesInv
<1>3. PICK rs \in Seq(Request) : rs = requests
  BY <1>1 DEF Typed
<1>4. k \in 1..Len(rs) /\ extracted[k] = Whole(requests[k])
  BY <1>1, <1>2, <1>3 DEF ExtractedExact
<1>5. PICK r \in Request : r = requests[k] /\ r \in Requests
  BY <1>1, <1>3, <1>4 DEF Typed
<1>6. WellFramed(r)
  BY <1>5 DEF Framed
<1>7. Answered(replies[k], responses[k], Whole(r))
  BY <1>1, <1>4, <1>5 DEF RepliesInv
<1>8. Done(r, Len(r.headers), Parse(Whole(r)))
  BY <1>6, ParsedWhole
<1> QED
  BY <1>5, <1>6, <1>7, <1>8

\* The head and the body that are told are those of the reply.
LEMMA ToldIs ==
  ASSUME NEW raw, NEW ok, NEW works, NEW t, t = Told(raw, ok, works),
         NEW reply, reply = Reply(Parse(raw), ok, works)
  PROVE  /\ t.head = BuildHeader(reply, KeepAlive(Parse(raw)))
         /\ t.head.status = reply.status /\ t.head.type = reply.type
         /\ t.head.declares = BodySize(reply)
         /\ t.head.keepAlive = KeepAlive(Parse(raw))
         /\ t.body = reply.body /\ t.asked = Asked(Parse(raw))
         /\ t.ok = ok /\ t.works = works
<1>1. t = [head |-> BuildHeader(reply, KeepAlive(Parse(raw))), body |-> reply.body,
           asked |-> Asked(Parse(raw)), ok |-> ok, works |-> works]
  BY DEF Told
<1>2. /\ t.head = BuildHeader(reply, KeepAlive(Parse(raw)))
      /\ t.body = reply.body /\ t.asked = Asked(Parse(raw))
      /\ t.ok = ok /\ t.works = works
  BY <1>1
<1> QED
  BY <1>2 DEF BuildHeader

\* The first value of a key in the body of the client's own request is the one
\* that the router takes.
LEMMA FormValueIs ==
  ASSUME NEW k, NEW key
  PROVE  FormValue(requests[k].body, key) = Given(k, key)
<1>1. Find(requests[k].body, key)
        = SelectInSeq(requests[k].body, LAMBDA t : t.is = "pair" /\ t.key = key)
  BY DEF Find, IsPair, SelectInSeq
<1> QED
  BY <1>1 DEF FormValue, Given

\* A request is for the user service when the router handles it as a POST, and
\* the router finds the values that the client gave.
LEMMA PostedIs ==
  ASSUME NEW k, NEW r \in Request, r = requests[k], NEW n, WellFormed(k) <=> HeadOk(r, n),
         NEW p, Done(r, n, p)
  PROVE  /\ Posts(k) <=> ParseOk(p) /\ Handles(p) /\ p.method = "POST"
         /\ Posts(k) => /\ Username(p) = Given(k, "username")
                        /\ Password(p) = Given(k, "password")
         /\ Due(k) <=> ParseOk(p) /\ Handles(p) /\ Asks(p)
         /\ Posts(k) /\ ~Gives(k) <=> ParseOk(p) /\ Lacks(p)
<1>1. ParseOk(p) <=> WellFormed(k)
  BY DEF Done
<1>2. CASE ~WellFormed(k)
  BY <1>1, <1>2 DEF Posts, Due
<1>3. CASE WellFormed(k)
  <2>1. /\ HeadOk(r, n) /\ p.method = r.line.method /\ p.path = UrlDecode(r.line.path)
        /\ p.method = "POST" => p.body = r.body
    BY <1>3 DEF Done
  <2>2. Method(k) = p.method
    BY <2>1 DEF Method
  <2>3. Handles(p) <=> Names(k, "/register") \/ Names(k, "/login")
    <3>1. /\ p.path = Text("/register", 0) <=> Named(r, "/register")
          /\ p.path = Text("/login", 0) <=> Named(r, "/login")
      BY <2>1, NamedPath
    <3>2. /\ Named(r, "/register") <=> Names(k, "/register")
          /\ Named(r, "/login") <=> Names(k, "/login")
      BY Zenon DEF Names, Named, Path
    <3> QED
      BY <3>1, <3>2, Zenon DEF Handles
  <2>4. Posts(k) <=> ParseOk(p) /\ Handles(p) /\ p.method = "POST"
    BY <1>1, <1>3, <2>2, <2>3, Zenon DEF Posts
  <2>5. ASSUME Posts(k)
        PROVE  Username(p) = Given(k, "username") /\ Password(p) = Given(k, "password")
    <3>1. p.body = requests[k].body
      BY <2>1, <2>4, <2>5
    <3> QED
      BY <3>1, FormValueIs, Zenon DEF Username, Password
  <2>6. Posts(k) => (Gives(k) <=> HasBoth(p))
    BY <2>5, Zenon DEF Gives, HasBoth
  <2> QED
    BY <1>1, <2>4, <2>5, <2>6, Zenon DEF Due, Asks, Lacks
<1> QED
  BY <1>2, <1>3

RightAt(k) ==
  /\ Status(k) = 400 <=> ~WellFormed(k) \/ (Posts(k) /\ ~Gives(k))
  /\ Status(k) = 403 <=> WellFormed(k) /\ \E text \in Dotted : Names(k, text)
  /\ WellFormed(k) /\ replies[k].works =>
       \A name \in DOMAIN Files : Shows(k, name) <=> Serves(k, name)
  /\ \A name \in DOMAIN Files : Shows(k, name) => Status(k) = 200
  /\ Status(k) = 404 =>
       \A name \in DOMAIN Files : ~(Serves(k, name) /\ replies[k].works)

\* RepliesRight, for one reply.
LEMMA ReplyAtRight ==
  ASSUME ExchangeInv, CutInv, Framed, NEW k \in 1..Len(replies)
  PROVE  RightAt(k)
<1>1. PICK r \in Request :
        /\ r = requests[k] /\ WellFramed(r)
        /\ Answered(replies[k], responses[k], Whole(r))
        /\ Done(r, Len(r.headers), Parse(Whole(r)))
  BY Heard
<1>2. PICK t, ok, works : t = replies[k] /\ ok = t.ok /\ works = t.works
  OBVIOUS
<1>3. t = Told(Whole(r), ok, works) /\ works \in BOOLEAN
  BY <1>1, <1>2 DEF Answered
<1>4. PICK p, reply : p = Parse(Whole(r)) /\ reply = Reply(p, ok, works)
  OBVIOUS
<1>5. t.head.status = reply.status /\ t.body = reply.body
  BY <1>3, <1>4, ToldIs
<1>6. PICK n : n = Len(r.headers)
  OBVIOUS
<1>7. Right(r, n, p, works, reply)
  BY <1>1, <1>4, <1>6, RightReply
<1>8. WellFormed(k) <=> HeadOk(r, n)
  BY <1>1, <1>6 DEF WellFormed, Method, HeadOk, LineOk
<1>9. /\ \A name : Names(k, name) <=> Named(r, name)
      /\ \A name : Wants(k, name) <=> Wanted(r, name)
  BY <1>1, Zenon DEF Wants, Wanted, Names, Named, Path
<1>10. \A page : Shows(k, page) <=> Showing(reply, page)
  BY <1>2, <1>5 DEF Shows, Showing
<1>11. Posts(k) /\ ~Gives(k) <=> ParseOk(p) /\ Lacks(p)
  BY <1>1, <1>4, <1>6, <1>8, PostedIs
<1>12. /\ Status(k) = 400 <=> Bad(reply)
       /\ Status(k) = 403 <=> Forbidden(reply)
       /\ Status(k) = 404 <=> Missing(reply)
       /\ Status(k) = 200 <=> Fine(reply)
  BY <1>2, <1>5 DEF Status, Bad, Forbidden, Missing, Fine
<1>13. /\ Bad(reply) <=> (~HeadOk(r, n) \/ Lacks(p))
       /\ HeadOk(r, n) /\ Dots(r) <=> Forbidden(reply)
       /\ HeadOk(r, n) /\ works =>
            \A name \in DOMAIN Files : Showing(reply, name) <=> Gets(r, name, works)
       /\ \A name \in DOMAIN Files : Showing(reply, name) => Fine(reply)
       /\ Missing(reply) => \A name \in DOMAIN Files : ~Gets(r, name, works)
  BY <1>7 DEF Right
<1>14. Status(k) = 400 <=> ~WellFormed(k) \/ (Posts(k) /\ ~Gives(k))
  <2>1. ParseOk(p) <=> HeadOk(r, n)
    BY <1>1, <1>4, <1>6 DEF Done
  <2> QED
    BY <1>8, <1>11, <1>12, <1>13, <2>1, ZenonT(40)
<1>15. Status(k) = 403 <=> WellFormed(k) /\ \E text \in Dotted : Names(k, text)
  <2>1. Dots(r) <=> \E text \in Dotted : Names(k, text)
    BY <1>9, Zenon DEF Dots
  <2>2. Status(k) = 403 <=> HeadOk(r, n) /\ Dots(r)
    BY <1>12, <1>13
  <2> QED
    BY <1>8, <2>1, <2>2, Zenon
<1>16. \A name \in DOMAIN Files : Gets(r, name, works) <=> Serves(k, name) /\ replies[k].works
  BY <1>2, <1>9 DEF Gets, Serves
<1>17. WellFormed(k) /\ replies[k].works =>
         \A name \in DOMAIN Files : Shows(k, name) <=> Serves(k, name)
  BY <1>2, <1>8, <1>10, <1>13, <1>16
<1>18. \A name \in DOMAIN Files : Shows(k, name) => Status(k) = 200
  BY <1>10, <1>12, <1>13
<1>19. Status(k) = 404 =>
         \A name \in DOMAIN Files : ~(Serves(k, name) /\ replies[k].works)
  BY <1>12, <1>13, <1>16
<1> QED
  BY <1>14, <1>15, <1>17, <1>18, <1>19, Zenon DEF RightAt

\* Each well framed request gets its own answer: 400 if it is malformed or a
\* POST to the user service without both values, 403 for a path with "..", a
\* file under 200 if it names one that can be opened and for nothing else, and
\* 404 only for a path that names none.
THEOREM RepliesAreRight ==
  ASSUME Framed
  PROVE  ExchangeSpec => []RepliesRight
<1>1. ExchangeInv /\ CutInv => RepliesRight
  <2>1. ExchangeInv /\ CutInv => \A k \in 1..Len(replies) : RightAt(k)
    BY ReplyAtRight
  <2> QED
    BY <2>1, Zenon DEF RepliesRight, RightAt
<1> QED
  BY <1>1, ExchangeInvariant, CutInvariant, PTL

HeardAs(k, r, p, reply) ==
  /\ r = requests[k] /\ p = Parse(Whole(r))
  /\ replies[k].ok \in BOOLEAN /\ replies[k].works \in BOOLEAN
  /\ reply = Reply(p, replies[k].ok, replies[k].works)
  /\ Done(r, Len(r.headers), p)
  /\ WellFormed(k) <=> HeadOk(r, Len(r.headers))
  /\ replies[k].head = BuildHeader(reply, KeepAlive(p))
  /\ replies[k].head.keepAlive = KeepAlive(p)
  /\ replies[k].body = reply.body /\ replies[k].asked = Asked(p)
  /\ replies[k].head.status = reply.status /\ replies[k].head.type = reply.type
  /\ replies[k].head.declares = BodySize(reply)

\* Every reply has such a request.
LEMMA HeardReply ==
  ASSUME ExchangeInv, CutInv, Framed, NEW k \in 1..Len(replies)
  PROVE  \E r \in Request : \E p, reply : HeardAs(k, r, p, reply)
<1>1. PICK r \in Request :
        /\ r = requests[k] /\ WellFramed(r)
        /\ Answered(replies[k], responses[k], Whole(r))
        /\ Done(r, Len(r.headers), Parse(Whole(r)))
  BY Heard
<1>2. PICK t, ok, works : t = replies[k] /\ ok = t.ok /\ works = t.works
  OBVIOUS
<1>3. t = Told(Whole(r), ok, works) /\ ok \in BOOLEAN /\ works \in BOOLEAN
  BY <1>1, <1>2 DEF Answered
<1>4. PICK p, reply : p = Parse(Whole(r)) /\ reply = Reply(p, ok, works)
  OBVIOUS
<1>5. /\ t.head = BuildHeader(reply, KeepAlive(p))
      /\ t.head.keepAlive = KeepAlive(p)
      /\ t.body = reply.body /\ t.asked = Asked(p)
      /\ t.head.status = reply.status /\ t.head.type = reply.type
      /\ t.head.declares = BodySize(reply)
  BY <1>3, <1>4, ToldIs
<1>6. WellFormed(k) <=> HeadOk(r, Len(r.headers))
  BY <1>1 DEF WellFormed, Method, HeadOk, LineOk
<1>7. HeardAs(k, r, p, reply)
  BY <1>1, <1>2, <1>3, <1>4, <1>5, <1>6 DEF HeardAs
<1> QED
  BY <1>7
-----------------------------------------------------------------------------
\* Said() finds the last header that has a word on the connection.
LEMMA LastWord ==
  ASSUME NEW hs \in Seq(Token)
  PROVE  LET i == SelectLastInSeq(hs, LAMBDA h :
                    ToLower(h.key) = "connection" /\ ToLower(h.value) \in {"close", "keep-alive"})
         IN LastIn({j \in 1..Len(hs) : Word(hs[j])}, i, Len(hs))
<1> DEFINE T == {j \in 1..Len(hs) : Word(hs[j])}
<1>1. SelectLastInSeq(hs, LAMBDA h :
        ToLower(h.key) = "connection" /\ ToLower(h.value) \in {"close", "keep-alive"})
      = IF T # {} THEN Max(T) ELSE 0
  BY DEF SelectLastInSeq, Word
<1>2. T \in SUBSET (1..Len(hs)) /\ Len(hs) \in Nat
  OBVIOUS
<1>3. LastIn(T, IF T # {} THEN Max(T) ELSE 0, Len(hs))
  BY <1>2, SelectLast
<1> QED
  BY <1>1, <1>3

\* What Said(k) makes of the headers is what the parser has made of them.
LEMMA StaysIs ==
  ASSUME NEW r \in Request, NEW n \in Nat, n = Len(r.headers), NEW keep \in BOOLEAN,
         Keeps(r, n, keep), NEW i, LastIn({j \in 1..n : Word(r.headers[j])}, i, n)
  PROVE  keep <=> IF i = 0 THEN r.line.version = "1.1"
                  ELSE ToLower(r.headers[i].value) = "keep-alive"
<1>1. CASE i = 0
  <2>1. \A j \in 1..n : ~Word(r.headers[j])
    BY <1>1 DEF LastIn
  <2> QED
    BY <1>1, <2>1 DEF Keeps
<1>2. CASE i # 0
  <2>1. /\ i \in 1..n /\ Word(r.headers[i])
        /\ \A j \in (i + 1)..n : ~Word(r.headers[j])
    BY <1>2 DEF LastIn
  <2> QED
    BY <1>2, <2>1 DEF Keeps
<1> QED
  BY <1>1, <1>2

StaysOf(k) ==
  IF Said(k) = 0 THEN requests[k].line.version = "1.1"
  ELSE ToLower(requests[k].headers[Said(k)].value) = "keep-alive"

\* CloseAnnounced, for one reply.
LEMMA AnnouncedAt ==
  ASSUME ExchangeInv, CutInv, Framed, NEW k \in 1..Len(replies)
  PROVE  /\ replies[k].head.keepAlive <=> WellFormed(k) /\ StaysOf(k)
         /\ ~replies[k].head.keepAlive <=>
              k = Len(replies) /\ (phase = "closed" \/ closeAfterWrite)
<1>0. PICK r \in Request : \E p, reply : HeardAs(k, r, p, reply)
  BY HeardReply
<1>1. PICK p :
        /\ r = requests[k]
        /\ Done(r, Len(r.headers), p)
        /\ WellFormed(k) <=> HeadOk(r, Len(r.headers))
        /\ replies[k].head.keepAlive = KeepAlive(p)
  BY <1>0 DEF HeardAs
<1>2. PICK n \in Nat : n = Len(r.headers)
  BY HeadParts
<1>3. replies[k].head.keepAlive <=> WellFormed(k) /\ StaysOf(k)
  <2>1. CASE ~HeadOk(r, n)
    BY <1>1, <1>2, <2>1 DEF Done, KeepAlive
  <2>2. CASE HeadOk(r, n)
    <3>1. ParseOk(p) /\ p.keepAlive \in BOOLEAN /\ Keeps(r, n, p.keepAlive)
      BY <1>1, <1>2, <2>2 DEF Done
    <3>2. PICK hs \in Seq(Token) : hs = r.headers
      BY DEF Request
    <3>3. LastIn({j \in 1..n : Word(r.headers[j])}, Said(k), n)
      BY <1>1, <1>2, <3>2, LastWord DEF Said
    <3>4. p.keepAlive <=> StaysOf(k)
      BY <1>1, <1>2, <3>1, <3>3, StaysIs DEF StaysOf
    <3> QED
      BY <1>1, <1>2, <2>2, <3>1, <3>4 DEF KeepAlive
  <2> QED
    BY <2>1, <2>2
<1>4. ~replies[k].head.keepAlive <=> k = Len(replies) /\ closeAfterWrite
  BY DEF ExchangeInv, RepliesInv
<1>5. phase = "closed" => closeAfterWrite
  BY DEF ExchangeInv, RepliesInv
<1> QED
  BY <1>3, <1>4, <1>5

\* The response tells the client whether the connection goes on, by the last
\* word of its request, and it ends after the first response that says so and
\* after no other.
THEOREM ClosesAnnounced ==
  ASSUME Framed
  PROVE  ExchangeSpec => []CloseAnnounced
<1>1. ExchangeInv /\ CutInv => CloseAnnounced
  BY AnnouncedAt DEF CloseAnnounced, StaysOf
<1> QED
  BY <1>1, ExchangeInvariant, CutInvariant, PTL
-----------------------------------------------------------------------------
SameHead(a, b) == a.status = b.status /\ a.type = b.type /\ BodySize(a) = BodySize(b)

\* prepare() and build() agree on every path that is no directory.
LEMMA PreparedIsBuilt ==
  ASSUME NEW path, FileAt(path).kind # "directory",
         NEW a, NEW b, a = Prepare(path, TRUE), b = Build(path)
  PROVE  SameHead(a, b) /\ a.body = b.body
<1>1. PICK f : f = FileAt(path)
  OBVIOUS
<1>2. CASE HasDots(path)
  <2>1. a = Page(403, Html, "forbidden") /\ b = Page(403, Html, "forbidden")
    BY <1>2 DEF Prepare, Build
  <2> QED
    BY <2>1, Zenon DEF SameHead
<1>3. CASE ~HasDots(path) /\ f.kind # "regular"
  <2>1. ~OpenFile(FileAt(path), TRUE) /\ FileAt(path).kind # "regular"
    BY <1>1, <1>3 DEF OpenFile
  <2>2. CASE path = Root
    <3>1. a = Page(200, Html, "welcome") /\ b = Page(200, Html, "welcome")
      BY <1>3, <2>1, <2>2 DEF Prepare, Build
    <3> QED
      BY <3>1, Zenon DEF SameHead
  <2>3. CASE path # Root
    <3>1. a = Page(404, Html, "not found") /\ b = Page(404, Html, "not found")
      BY <1>3, <2>1, <2>3 DEF Prepare, Build
    <3> QED
      BY <3>1, Zenon DEF SameHead
  <2> QED
    BY <2>2, <2>3
<1>4. CASE ~HasDots(path) /\ f.kind = "regular"
  <2>1. /\ a.status = 200 /\ a.type = GetMimeType(f.ext)
        /\ a.body = Text(FileName(path), 0) /\ a.text = 0 /\ a.file = f.size
    BY <1>1, <1>4 DEF Prepare, OpenFile
  <2>2. f # Absent
    BY <1>4 DEF Absent
  <2>3. FileName(path) \in DOMAIN Files /\ f = Files[FileName(path)]
    BY <1>1, <2>2 DEF FileAt
  <2>4. f.size \in Nat /\ f.size # NoFile
    BY <2>3, ExchangeAssumption, ConnectionAssumption
  <2>5. BodySize(a) = f.size
    BY <2>1, <2>4 DEF BodySize
  <2>6. PICK c : c = ReadFileContent(path)
    OBVIOUS
  <2>7. c = [status |-> 200, type |-> GetMimeType(f.ext), body |-> Text(FileName(path), 0),
             text |-> f.size, file |-> NoFile]
    BY <1>1, <2>6 DEF ReadFileContent
  <2>10. /\ c.status = 200 /\ c.type = GetMimeType(f.ext)
        /\ c.body = Text(FileName(path), 0) /\ c.text = f.size /\ c.file = NoFile
    BY <2>7
  <2>8. CASE path # Root
    <3>1. b = c
      BY <1>1, <1>4, <2>6, <2>8 DEF Build
    <3>2. /\ b.status = 200 /\ b.type = GetMimeType(f.ext)
          /\ b.body = Text(FileName(path), 0) /\ b.text = f.size /\ b.file = NoFile
      BY <2>10, <3>1
    <3>3. BodySize(b) = f.size
      BY <3>2 DEF BodySize
    <3> QED
      BY <2>1, <2>5, <3>2, <3>3, ZenonT(40) DEF SameHead
  <2>9. CASE path = Root
    <3>1. b = [c EXCEPT !.type = Html]
      BY <1>1, <1>4, <2>6, <2>9 DEF Build
    <3>2. /\ b.status = 200 /\ b.type = Html /\ b.body = Text(FileName(path), 0)
          /\ b.text = f.size /\ b.file = NoFile
      BY <2>7, <3>1
    <3>3. BodySize(b) = f.size
      BY <3>2 DEF BodySize
    <3>4. FileName(path) = "/index.html"
      BY <2>9 DEF FileName
    <3>5. f.ext = "html"
      BY <2>3, <3>4, ExchangeAssumption
    <3>6. GetMimeType(f.ext) = Html
      BY <3>5 DEF GetMimeType, MimeTypes
    <3>7. a.status = b.status
      BY <2>1, <3>2
    <3>8. a.type = b.type /\ a.body = b.body
      <4>1. a.type = GetMimeType(f.ext)
        BY <2>1, Zenon
      <4>2. a.type = Html
        BY <3>6, <4>1, Zenon
      <4>3. b.type = Html
        BY <3>2, Zenon
      <4>4. a.body = Text(FileName(path), 0) /\ b.body = Text(FileName(path), 0)
        BY <2>1, <3>2, Zenon
      <4> QED
        BY <4>2, <4>3, <4>4, Zenon
    <3>9. BodySize(a) = BodySize(b)
      BY <2>5, <3>3, Zenon
    <3> QED
      BY <3>7, <3>8, <3>9, Zenon DEF SameHead
  <2> QED
    BY <2>8, <2>9
<1> QED
  BY <1>2, <1>3, <1>4

\* The router answers in JSON.
LEMMA RouteIsJson ==
  ASSUME NEW p, NEW ok
  PROVE  Route(p, ok).type = Json
<1>1. \A status, name : Page(status, Json, name).type = Json
  BY DEF Page
<1>2. CASE p.method # "POST"
  BY <1>1, <1>2, ZenonT(40) DEF Route
<1>3. CASE p.method = "POST" /\ ~Asks(p)
  BY <1>1, <1>3, ZenonT(40) DEF Route
<1>4. CASE p.method = "POST" /\ Asks(p) /\ p.path.text = "/register"
  <2>1. \/ Route(p, ok) = Page(201, Json, "registered")
        \/ Route(p, ok) = Page(409, Json, "username already exists")
    BY <1>4, Zenon DEF Route
  <2> QED
    BY <1>1, <2>1, ZenonT(40)
<1>5. CASE p.method = "POST" /\ Asks(p) /\ p.path.text # "/register"
  <2>1. \/ Route(p, ok) = Page(200, Json, "login ok")
        \/ Route(p, ok) = Page(401, Json, "invalid credentials")
    BY <1>5, Zenon DEF Route
  <2> QED
    BY <1>1, <2>1, ZenonT(40)
<1> QED
  BY <1>2, <1>3, <1>4, <1>5

BuiltAt(k) ==
  LET path == UrlDecode(Path(k))
      built == Build(path)
  IN
  (/\ WellFormed(k) /\ replies[k].head.type # Json /\ replies[k].works
   /\ FileAt(path).kind # "directory") =>
    /\ replies[k].head = BuildHeader(built, replies[k].head.keepAlive)
    /\ replies[k].body = built.body

\* PreparedAsBuilt, for one reply.
LEMMA PreparedAt ==
  ASSUME ExchangeInv, CutInv, Framed, NEW k \in 1..Len(replies)
  PROVE  BuiltAt(k)
<1> SUFFICES ASSUME NEW path, path = UrlDecode(Path(k)), NEW built, built = Build(path),
                    WellFormed(k), replies[k].head.type # Json, replies[k].works,
                    FileAt(path).kind # "directory"
             PROVE  /\ replies[k].head = BuildHeader(built, replies[k].head.keepAlive)
                    /\ replies[k].body = built.body
  BY Zenon DEF BuiltAt
<1>0. PICK r \in Request : \E p, reply : HeardAs(k, r, p, reply)
  BY HeardReply
<1>1. PICK p, reply : HeardAs(k, r, p, reply)
  BY <1>0
<1> DEFINE ok == replies[k].ok
           works == replies[k].works
<1>8. /\ r = requests[k] /\ reply = Reply(p, ok, works) /\ works \in BOOLEAN
      /\ Done(r, Len(r.headers), p) /\ HeadOk(r, Len(r.headers))
  BY <1>1 DEF HeardAs
<1>9. /\ replies[k].head = BuildHeader(reply, KeepAlive(p))
      /\ replies[k].head.keepAlive = KeepAlive(p)
      /\ replies[k].body = reply.body /\ replies[k].head.type = reply.type
  BY <1>1 DEF HeardAs
<1> HIDE DEF ok
<1>2. ParseOk(p) /\ p.path = path /\ works = TRUE
  BY <1>8 DEF Done, Path
<1>3. ~Handles(p)
  <2>1. Handles(p) => reply = Route(p, ok)
    BY <1>8, <1>2 DEF Reply
  <2> QED
    BY <1>9, <2>1, RouteIsJson
<1>4. reply = Prepare(path, TRUE)
  BY <1>8, <1>2, <1>3 DEF Reply
<1>5. SameHead(reply, built) /\ reply.body = built.body
  BY <1>4, PreparedIsBuilt
<1>6. BuildHeader(reply, KeepAlive(p)) = BuildHeader(built, KeepAlive(p))
  BY <1>5 DEF SameHead, BuildHeader
<1> QED
  BY <1>9, <1>5, <1>6

\* What prepare() says of a mapped file is what build() says of its copy,
\* directories left aside.
THEOREM PreparedLikeBuilt ==
  ASSUME Framed
  PROVE  ExchangeSpec => []PreparedAsBuilt
<1>1. ExchangeInv /\ CutInv => PreparedAsBuilt
  <2>1. ExchangeInv /\ CutInv => \A k \in 1..Len(replies) : BuiltAt(k)
    BY PreparedAt
  <2> QED
    BY <2>1, Zenon DEF PreparedAsBuilt, BuiltAt
<1> QED
  BY <1>1, ExchangeInvariant, CutInvariant, PTL

\* What tells a client that the user service was asked, and what it has
\* answered.
LoginOk(text) == text = "login ok"
Served(reply) == reply.status \in {201, 401, 409} \/ reply.body = Text("login ok", 0)
Ruling(r, ok) ==
  IF Named(r, "/register") THEN IF ok THEN 201 ELSE 409
  ELSE IF ok THEN 200 ELSE 401

\* 201, 401 and 409 tell of the user service.
LEMMA SaysServed ==
  ASSUME NEW reply, NEW status \in {201, 401, 409}, NEW type, NEW text,
         Says(reply, status, type, text)
  PROVE  Served(reply)
BY DEF Says, Served

\* Any other status tells nothing of it, but for the page of a login.
LEMMA SaysNothing ==
  ASSUME NEW reply, NEW status \in {200, 400, 403, 404, 405}, NEW type, NEW text,
         Says(reply, status, type, text), ~LoginOk(text)
  PROVE  ~Served(reply)
<1>1. reply.status \notin {201, 401, 409}
  BY DEF Says
<1>2. reply.body # Text("login ok", 0)
  <2> SUFFICES ASSUME reply.body = Text("login ok", 0) PROVE FALSE
    OBVIOUS
  <2>1. Text(text, 0) = Text("login ok", 0)
    BY Zenon DEF Says
  <2>2. text = "login ok"
    BY <2>1, SameText, Zenon
  <2> QED
    BY <2>2, Zenon DEF LoginOk
<1> QED
  BY <1>1, <1>2, ZenonT(40) DEF Served

\* The router tells of the service when it has asked it, and what it said.
LEMMA HandledServed ==
  ASSUME NEW r, NEW p, NEW ok, NEW reply, Handled(r, p, ok, reply)
  PROVE  (Served(reply) <=> Asks(p)) /\ (Asks(p) => reply.status = Ruling(r, ok))
<1>1. CASE ~Asks(p) /\ Says(reply, 405, Json, "method not allowed")
  <2>1. ~LoginOk("method not allowed")
    BY DEF LoginOk
  <2>2. \E text : Says(reply, 405, Json, text) /\ ~LoginOk(text)
    BY <1>1, <2>1, Zenon
  <2>3. ~Served(reply)
    BY <2>2, SaysNothing
  <2> QED
    BY <1>1, <2>3, Zenon
<1>2. CASE ~Asks(p) /\ Says(reply, 400, Json, "username and password required")
  <2>1. ~LoginOk("username and password required")
    BY DEF LoginOk
  <2>2. \E text : Says(reply, 400, Json, text) /\ ~LoginOk(text)
    BY <1>2, <2>1, Zenon
  <2>3. ~Served(reply)
    BY <2>2, SaysNothing
  <2> QED
    BY <1>2, <2>3, Zenon
<1>3. Named(r, "/login") => ~Named(r, "/register")
  BY DEF Named
<1>4. CASE /\ Asks(p) /\ Named(r, "/register") /\ ok
           /\ Says(reply, 201, Json, "registered")
  <2>1. Served(reply)
    BY <1>4, SaysServed
  <2> QED
    BY <1>4, <2>1, Zenon DEF Says, Ruling
<1>5. CASE /\ Asks(p) /\ Named(r, "/register") /\ ~ok
           /\ Says(reply, 409, Json, "username already exists")
  <2>1. \E text : Says(reply, 409, Json, text)
    BY <1>5, Zenon
  <2>2. Served(reply)
    BY <2>1, SaysServed
  <2> QED
    BY <1>5, <2>2, Zenon DEF Says, Ruling
<1>6. CASE /\ Asks(p) /\ Named(r, "/login") /\ ok
           /\ Says(reply, 200, Json, "login ok")
  <2>1. Served(reply)
    BY <1>6, Zenon DEF Says, Served
  <2> QED
    BY <1>3, <1>6, <2>1, Zenon DEF Says, Ruling
<1>7. CASE /\ Asks(p) /\ Named(r, "/login") /\ ~ok
           /\ Says(reply, 401, Json, "invalid credentials")
  <2>1. \E text : Says(reply, 401, Json, text)
    BY <1>7, Zenon
  <2>2. Served(reply)
    BY <2>1, SaysServed
  <2> QED
    BY <1>3, <1>7, <2>2, Zenon DEF Says, Ruling
<1> QED
  BY <1>1, <1>2, <1>4, <1>5, <1>6, <1>7, ZenonT(40) DEF Handled

\* prepare() tells nothing of the service.
LEMMA PreparedServed ==
  ASSUME NEW r, NEW p, NEW works, NEW reply, Prepared(r, p, works, reply)
  PROVE  ~Served(reply)
<1>1. CASE Says(reply, 403, Html, "forbidden")
  <2>1. ~LoginOk("forbidden")
    BY DEF LoginOk
  <2> QED
    BY <1>1, <2>1, SaysNothing
<1>2. CASE Opens(p.path, works, reply)
  <2>1. /\ FileName(p.path) \in DOMAIN Files
        /\ Says(reply, 200, GetMimeType(FileAt(p.path).ext), FileName(p.path))
    BY <1>2 DEF Opens
  <2>2. ~LoginOk(FileName(p.path))
    BY <2>1, NoReserved DEF Reserved, LoginOk
  <2> QED
    BY <2>1, <2>2, SaysNothing
<1>3. CASE Says(reply, 200, Html, "welcome")
  <2>1. ~LoginOk("welcome")
    BY DEF LoginOk
  <2> QED
    BY <1>3, <2>1, SaysNothing
<1>4. CASE Says(reply, 404, Html, "not found")
  <2>1. ~LoginOk("not found")
    BY DEF LoginOk
  <2>2. \E text : Says(reply, 404, Html, text) /\ ~LoginOk(text)
    BY <1>4, <2>1, Zenon
  <2> QED
    BY <2>2, SaysNothing
<1> QED
  BY <1>1, <1>2, <1>3, <1>4, Zenon DEF Prepared

\* The same for every reply.
LEMMA ReplyServed ==
  ASSUME NEW r \in Request, NEW n, NEW p, Done(r, n, p),
         NEW ok, NEW works, NEW reply, reply = Reply(p, ok, works)
  PROVE  /\ Served(reply) <=> ParseOk(p) /\ Handles(p) /\ Asks(p)
         /\ ParseOk(p) /\ Handles(p) /\ Asks(p) => reply.status = Ruling(r, ok)
<1>1. CASE ~ParseOk(p)
  <2>1. reply = Page(400, "text/plain", "Bad Request")
    BY <1>1 DEF Reply
  <2>2. Says(reply, 400, "text/plain", "Bad Request")
    BY <2>1, PageSays
  <2>3. ~LoginOk("Bad Request")
    BY DEF LoginOk
  <2>4. \E type, text : Says(reply, 400, type, text) /\ ~LoginOk(text)
    BY <2>2, <2>3, Zenon
  <2>5. ~Served(reply)
    BY <2>4, SaysNothing
  <2> QED
    BY <1>1, <2>5
<1>2. CASE ParseOk(p) /\ Handles(p)
  <2>1. HeadOk(r, n) /\ reply = Route(p, ok)
    BY <1>2 DEF Done, Reply
  <2>2. Handled(r, p, ok, reply)
    BY <1>2, <2>1, HandledCases
  <2> QED
    BY <1>2, <2>2, HandledServed
<1>3. CASE ParseOk(p) /\ ~Handles(p)
  <2>1. HeadOk(r, n) /\ reply = Prepare(p.path, works)
    BY <1>3 DEF Done, Reply
  <2>2. Prepared(r, p, works, reply)
    BY <2>1, PreparedCases
  <2> QED
    BY <1>3, <2>2, PreparedServed
<1> QED
  BY <1>1, <1>2, <1>3

ServiceAt(k) ==
  /\ replies[k].asked =
       IF Due(k) THEN <<Given(k, "username"), Given(k, "password")>> ELSE <<>>
  /\ Due(k) => Status(k) = Verdict(k)
  /\ Due(k) <=> Status(k) \in {201, 401, 409} \/ Shows(k, "login ok")

\* ServiceAsked, for one reply.
LEMMA AskedAt ==
  ASSUME ExchangeInv, CutInv, Framed, NEW k \in 1..Len(replies)
  PROVE  ServiceAt(k)
<1>1. PICK r \in Request : \E p, reply : HeardAs(k, r, p, reply)
  BY HeardReply
<1>2. PICK p, reply : HeardAs(k, r, p, reply)
  BY <1>1
<1>3. PICK ok, works, n : ok = replies[k].ok /\ works = replies[k].works /\ n = Len(r.headers)
  OBVIOUS
<1>4. /\ r = requests[k] /\ reply = Reply(p, ok, works)
      /\ Done(r, n, p) /\ (WellFormed(k) <=> HeadOk(r, n))
      /\ replies[k].body = reply.body /\ replies[k].asked = Asked(p)
      /\ replies[k].head.status = reply.status
  BY <1>2, <1>3 DEF HeardAs
<1>5. /\ Due(k) <=> ParseOk(p) /\ Handles(p) /\ Asks(p)
      /\ Posts(k) => /\ Username(p) = Given(k, "username")
                     /\ Password(p) = Given(k, "password")
  BY <1>4, PostedIs
<1>6. /\ Served(reply) <=> Due(k)
      /\ Due(k) => reply.status = Ruling(r, ok)
  BY <1>4, <1>5, ReplyServed
<1>7. Served(reply) <=> Status(k) \in {201, 401, 409} \/ Shows(k, "login ok")
  BY <1>4, ZenonT(40) DEF Served, Status, Shows
<1>8. Ruling(r, ok) = Verdict(k)
  <2>1. Named(r, "/register") <=> Names(k, "/register")
    BY <1>4, Zenon DEF Names, Named, Path
  <2> QED
    BY <1>3, <2>1, Zenon DEF Ruling, Verdict
<1>9. Due(k) => Status(k) = Verdict(k)
  BY <1>4, <1>6, <1>8 DEF Status
<1>10. Asked(p) = IF Due(k) THEN <<Given(k, "username"), Given(k, "password")>> ELSE <<>>
  <2>1. Due(k) => Posts(k)
    BY DEF Due
  <2>2. Asked(p) = IF Due(k) THEN <<Username(p), Password(p)>> ELSE <<>>
    BY <1>5, Zenon DEF Asked
  <2> QED
    BY <1>5, <2>1, <2>2, Zenon
<1> QED
  BY <1>4, <1>6, <1>7, <1>9, <1>10, ZenonT(40) DEF ServiceAt

\* The user service is asked for every well framed POST to its two paths that
\* has both values, with the first of each, decoded once, and for nothing
\* else; and its answer decides the status that the client is told.
THEOREM ServiceIsAsked ==
  ASSUME Framed
  PROVE  ExchangeSpec => []ServiceAsked
<1>1. ExchangeInv /\ CutInv => ServiceAsked
  <2>1. ExchangeInv /\ CutInv => \A k \in 1..Len(replies) : ServiceAt(k)
    BY AskedAt
  <2> QED
    BY <2>1, Zenon DEF ServiceAsked, ServiceAt
<1> QED
  BY <1>1, ExchangeInvariant, CutInvariant, PTL

-----------------------------------------------------------------------------
(* Where a response starts *)

\* Where response k starts when the one before it starts at b.
Behind(rs, k, b) == IF k <= 1 THEN 1 ELSE b + HeadUnits + rs[k - 1].head.declares

Starts(f, rs, n) == f = [k \in 0..n |-> Behind(rs, k, f[k - 1])]
AllStarts(f, rs) == f = [k \in Nat |-> Behind(rs, k, f[k - 1])]

\* Such an f, at one response.
LEMMA StartsAt ==
  ASSUME NEW f, NEW rs, NEW n \in Nat, Starts(f, rs, n), NEW i \in 0..n
  PROVE  f[i] = Behind(rs, i, f[i - 1])
<1>1. PICK g : g = [k \in 0..n |-> Behind(rs, k, f[k - 1])]
  OBVIOUS
<1>2. g[i] = Behind(rs, i, f[i - 1])
  BY <1>1
<1>3. f = g
  BY <1>1, Zenon DEF Starts
<1> QED
  BY <1>2, <1>3

\* There is one up to every response.
LEMMA StartsExists ==
  ASSUME NEW rs
  PROVE  \A n \in Nat : \E f : Starts(f, rs, n)
<1> DEFINE T == {n \in Nat : \E f : Starts(f, rs, n)}
<1>1. 0 \in T
  <2> DEFINE f == [k \in 0..0 |-> 1]
  <2>1. f = [k \in 0..0 |-> Behind(rs, k, f[k - 1])]
    BY DEF Behind
  <2>2. Starts(f, rs, 0)
    BY <2>1 DEF Starts
  <2> QED
    BY <2>2
<1>2. ASSUME NEW n \in Nat, n \in T PROVE n + 1 \in T
  <2>1. PICK f : Starts(f, rs, n)
    BY <1>2
  <2> DEFINE g == [k \in 0..(n + 1) |-> IF k <= n THEN f[k] ELSE Behind(rs, k, f[k - 1])]
  <2>2. ASSUME NEW k \in 0..(n + 1) PROVE g[k] = Behind(rs, k, g[k - 1])
    <3>1. \A j \in 0..n : g[j] = f[j]
      OBVIOUS
    <3>2. k # 0 => g[k - 1] = f[k - 1]
      BY <3>1
    <3>3. Behind(rs, k, g[k - 1]) = Behind(rs, k, f[k - 1])
      <4>1. CASE k = 0
        BY <4>1 DEF Behind
      <4>2. CASE k # 0
        BY <3>2, <4>2
      <4> QED
        BY <4>1, <4>2
    <3>4. CASE k <= n
      BY <2>1, <3>1, <3>3, <3>4, StartsAt
    <3>5. CASE k = n + 1
      BY <3>3, <3>5
    <3> QED
      BY <3>4, <3>5
  <2>3. g = [k \in 0..(n + 1) |-> Behind(rs, k, g[k - 1])]
    BY <2>2
  <2>4. Starts(g, rs, n + 1)
    BY <2>3 DEF Starts
  <2> QED
    BY <2>4
<1> HIDE DEF T
<1>3. Nat \subseteq T
  BY <1>1, <1>2, Induction
<1> QED
  BY <1>3 DEF T

\* Two of them agree where both are defined.
LEMMA StartsAgree ==
  ASSUME NEW rs, NEW m \in Nat, NEW n \in Nat, m <= n,
         NEW f, NEW g, Starts(f, rs, m), Starts(g, rs, n)
  PROVE  \A i \in 0..m : f[i] = g[i]
<1> DEFINE T == {i \in Nat : i <= m => f[i] = g[i]}
<1>1. 0 \in T
  <2>1. 0 \in 0..m /\ 0 \in 0..n
    OBVIOUS
  <2>2. f[0] = Behind(rs, 0, f[0 - 1]) /\ g[0] = Behind(rs, 0, g[0 - 1])
    BY <2>1, StartsAt
  <2>3. f[0] = 1 /\ g[0] = 1
    BY <2>2 DEF Behind
  <2> QED
    BY <2>3
<1>2. ASSUME NEW i \in Nat, i \in T PROVE i + 1 \in T
  <2> SUFFICES ASSUME i + 1 <= m PROVE f[i + 1] = g[i + 1]
    OBVIOUS
  <2>1. PICK j \in Nat : j = i + 1
    OBVIOUS
  <2>2. j \in 0..m /\ j \in 0..n /\ j - 1 = i /\ f[i] = g[i]
    BY <1>2, <2>1
  <2>3. f[j] = Behind(rs, j, f[j - 1]) /\ g[j] = Behind(rs, j, g[j - 1])
    BY <2>2, StartsAt
  <2>4. f[j] = g[j]
    BY <2>2, <2>3
  <2> QED
    BY <2>1, <2>4
<1> HIDE DEF T
<1>3. Nat \subseteq T
  BY <1>1, <1>2, Induction
<1> QED
  BY <1>3 DEF T

\* So there is one for all responses.
LEMMA AllStartsExist ==
  ASSUME NEW rs
  PROVE  \E f : AllStarts(f, rs)
<1> DEFINE h(n) == CHOOSE f : Starts(f, rs, n)
<1>1. ASSUME NEW n \in Nat PROVE Starts(h(n), rs, n)
  BY StartsExists
<1> HIDE DEF h
<1> DEFINE f == [k \in Nat |-> h(k)[k]]
<1>2. ASSUME NEW k \in Nat PROVE f[k] = Behind(rs, k, f[k - 1])
  <2>1. k \in 0..k /\ Starts(h(k), rs, k)
    BY <1>1
  <2>2. h(k)[k] = Behind(rs, k, h(k)[k - 1])
    BY <2>1, StartsAt
  <2>3. CASE k = 0
    BY <2>2, <2>3 DEF Behind
  <2>4. CASE k # 0
    <3>1. PICK j \in Nat : j = k - 1 /\ j <= k /\ j \in 0..j
      BY <2>4
    <3>2. Starts(h(j), rs, j)
      BY <1>1
    <3>3. h(j)[j] = h(k)[j]
      BY <2>1, <3>1, <3>2, StartsAgree
    <3> QED
      BY <2>2, <3>1, <3>3
  <2> QED
    BY <2>3, <2>4
<1>3. f = [k \in Nat |-> Behind(rs, k, f[k - 1])]
  BY <1>2
<1>4. AllStarts(f, rs)
  BY <1>3 DEF AllStarts
<1> QED
  BY <1>4

\* StartOf is such a function.
LEMMA StartOfIs ==
  ASSUME NEW k \in Nat
  PROVE  StartOf[k] = IF k <= 1 THEN 1
                      ELSE StartOf[k - 1] + HeadUnits + replies[k - 1].head.declares
<1>1. PICK rs : rs = replies
  OBVIOUS
<1> DEFINE F == CHOOSE f : AllStarts(f, rs)
<1>2. AllStarts(F, rs)
  BY AllStartsExist
<1>3. StartOf = F
  BY <1>1 DEF StartOf, AllStarts, Behind
<1> HIDE DEF F
<1>4. PICK g : g = [j \in Nat |-> Behind(rs, j, F[j - 1])]
  OBVIOUS
<1>5. F = g
  BY <1>2, <1>4, Zenon DEF AllStarts
<1>6. g[k] = Behind(rs, k, F[k - 1])
  BY <1>4
<1> QED
  BY <1>1, <1>3, <1>5, <1>6 DEF Behind

\* A response is as long as it says, and begins with its head.
LEMMA AnswerLength ==
  ASSUME NEW k \in Nat, NEW r \in Sizes
  PROVE  /\ Answer(k, r) \in Seq(Unit) /\ Len(Answer(k, r)) = r.head + r.file
         /\ Len(Answer(k, r)) \in Nat \ {0}
         /\ Answer(k, r)[1] = [resp |-> k, part |-> "head", at |-> 1]
<1>1. PICK h \in Nat \ {0}, f \in Nat : h = r.head /\ f = r.file
  BY ConnectionAssumption DEF Sizes
<1>2. PICK a, b : a = Units(k, "head", 0, h) /\ b = Units(k, "file", 0, f)
  OBVIOUS
<1>3. /\ a \in Seq(Unit) /\ b \in Seq(Unit) /\ Len(a) = h /\ Len(b) = f
      /\ a[1] = [resp |-> k, part |-> "head", at |-> 1]
  BY <1>2 DEF Units, Unit
<1>4. a \o b \in Seq(Unit) /\ Len(a \o b) = h + f /\ (a \o b)[1] = a[1]
  BY <1>1, <1>3
<1> QED
  BY <1>1, <1>2, <1>3, <1>4 DEF Answer

\* HeadUnits and the declared length are what is sent.
LEMMA DeclaresLength ==
  ASSUME NEW raw, NEW ok, NEW works, NEW t, t = Told(raw, ok, works),
         NEW s \in Sizes, s = Sent(raw, ok, works)
  PROVE  s.head + s.file = HeadUnits + t.head.declares /\ t.head.declares \in Nat
<1>1. PICK reply : reply = Reply(Parse(raw), ok, works)
  OBVIOUS
<1>2. t.head.declares = BodySize(reply)
  BY <1>1, ToldIs
<1>3. reply.text \in {0, 1} /\ reply.file \in 0..MaxFile \cup {NoFile}
  BY <1>1, ReplyShape
<1>4. CASE reply.file = NoFile
  <2>1. s = [head |-> HeadUnits + reply.text, file |-> 0]
    BY <1>1, <1>4 DEF Sent
  <2>2. t.head.declares = reply.text
    BY <1>2, <1>4 DEF BodySize
  <2> QED
    BY <1>3, <2>1, <2>2, ExchangeAssumption
<1>5. CASE reply.file # NoFile
  <2>1. s = [head |-> HeadUnits, file |-> reply.file]
    BY <1>1, <1>5 DEF Sent
  <2>2. t.head.declares = reply.file
    BY <1>2, <1>5 DEF BodySize
  <2> QED
    BY <1>3, <1>5, <2>1, <2>2, ExchangeAssumption, ConnectionAssumption
<1> QED
  BY <1>4, <1>5

\* The units of the first k responses.
Sizing(rs, k) == Len(FlattenSeq(SubSeq(Answers(rs), 1, k)))

\* The next response stands behind those, and begins with its head.
LEMMA SizingNext ==
  ASSUME NEW rs \in Seq(Sizes), NEW k \in 0..Len(rs), k # Len(rs)
  PROVE  /\ Sizing(rs, k) \in Nat
         /\ Sizing(rs, k + 1) = Sizing(rs, k) + rs[k + 1].head + rs[k + 1].file
         /\ Sizing(rs, k) + 1 <= Len(FlattenSeq(Answers(rs)))
         /\ FlattenSeq(Answers(rs))[Sizing(rs, k) + 1]
              = [resp |-> k + 1, part |-> "head", at |-> 1]
<1>1. PICK w \in Seq(Seq(Unit)) : w = Answers(rs) /\ Len(w) = Len(rs)
                                  /\ \A i \in 1..Len(rs) : w[i] = Answer(i, rs[i])
  BY AnswersType DEF Answers
<1>2. PICK j \in 1..Len(rs) : j = k + 1
  <2>1. k + 1 \in 1..Len(rs)
    OBVIOUS
  <2> QED
    BY <2>1
<1>3. rs[j] \in Sizes /\ j \in Nat
  OBVIOUS
<1>4. PICK x \in Seq(Unit) : x = Answer(j, rs[j])
  BY <1>3, AnswerLength
<1>5. /\ Len(x) = rs[j].head + rs[j].file /\ Len(x) \in Nat \ {0}
      /\ x[1] = [resp |-> j, part |-> "head", at |-> 1]
  BY <1>3, <1>4, AnswerLength
<1>6. /\ SubSeq(w, 1, k) \in Seq(Seq(Unit)) /\ SubSeq(w, 1, j) \in Seq(Seq(Unit))
      /\ k \in 0..Len(w) /\ k # Len(w) /\ j \in 0..Len(w)
  BY <1>1, <1>2
<1>7. PICK front \in Seq(Unit), whole \in Seq(Unit) :
        front = FlattenSeq(SubSeq(w, 1, k)) /\ whole = FlattenSeq(w)
  BY <1>1, <1>6, FlattenType
<1>8. FlattenSeq(SubSeq(w, 1, j)) = front \o x
  BY <1>1, <1>2, <1>4, <1>6, <1>7, FlattenNext
<1>9. front \o x \in Seq(Unit) /\ Len(front \o x) = Len(front) + Len(x)
      /\ (front \o x)[Len(front) + 1] = x[1]
  <2>1. 1 \in 1..Len(x)
    BY <1>5
  <2> QED
    BY <2>1, Joined
<1>10. PICK rest \in Seq(Unit) : whole = (front \o x) \o rest
  <2>1. StartsWith(w, j, Unit)
    BY <1>6, FlattenPrefix
  <2> QED
    BY <1>7, <1>8, <2>1 DEF StartsWith, Begins
<1>11. PICK fx \in Seq(Unit) : fx = front \o x
  BY <1>9
<1>12. /\ Len(whole) = Len(fx) + Len(rest)
       /\ \A i \in 1..Len(fx) : whole[i] = fx[i]
  BY <1>10, <1>11, Joined
<1>13. Len(front) + 1 \in 1..Len(fx)
  BY <1>5, <1>9, <1>11
<1>14. whole[Len(front) + 1] = x[1] /\ Len(front) + 1 <= Len(whole)
  <2>1. PICK n \in 1..Len(fx) : n = Len(front) + 1
    BY <1>13
  <2>2. whole[n] = fx[n] /\ fx[n] = x[1] /\ n <= Len(whole)
    <3>1. whole[n] = fx[n]
      BY <1>12, <2>1
    <3>2. fx[n] = x[1]
      BY <1>9, <1>11, <2>1
    <3>3. Len(fx) \in Nat /\ Len(rest) \in Nat /\ Len(whole) = Len(fx) + Len(rest)
      BY <1>12
    <3>4. n <= Len(whole)
      BY <2>1, <3>3
    <3> QED
      BY <3>1, <3>2, <3>4
  <2> QED
    BY <2>1, <2>2
<1>15. Sizing(rs, k) = Len(front) /\ Sizing(rs, k + 1) = Len(front) + Len(x)
  BY <1>1, <1>2, <1>7, <1>8, <1>9 DEF Sizing
<1>16. PICK r \in Sizes : r = rs[j]
  BY <1>3
<1>17. PICK h \in Nat, f \in Nat, n \in Nat : h = r.head /\ f = r.file /\ n = Len(front)
  BY ConnectionAssumption DEF Sizes
<1>18. Sizing(rs, k) = n /\ Sizing(rs, k + 1) = n + h + f
  <2>1. Len(x) = r.head + r.file
    BY <1>5, <1>16
  <2>2. Sizing(rs, k) = n /\ Sizing(rs, k + 1) = n + Len(x)
    BY <1>15, <1>17
  <2>3. n + Len(x) = n + h + f
    BY <1>17, <2>1, SMTT(30)
  <2> QED
    BY <2>2, <2>3
<1>19. FlattenSeq(Answers(rs)) = whole
  BY <1>1, <1>7
<1> QED
  BY <1>2, <1>5, <1>14, <1>16, <1>17, <1>18, <1>19

\* StartOf[k + 1] is one unit behind the first k responses.
LEMMA StartsBehind ==
  ASSUME ExchangeInv
  PROVE  \A k \in Nat : k < Len(replies) => StartOf[k + 1] = Sizing(responses, k) + 1
<1>1. PICK rs \in Seq(Sizes), ts \in Seq(Tolds) :
        rs = responses /\ ts = replies /\ Len(rs) = Len(ts)
  BY DEF ExchangeInv, RepliesInv, Typed
<1> DEFINE T == {k \in Nat : k < Len(ts) => StartOf[k + 1] = Sizing(rs, k) + 1}
<1>2. 0 \in T
  <2>1. StartOf[1] = 1
    BY StartOfIs
  <2>2. Sizing(rs, 0) = 0
    <3>1. PICK w \in Seq(Seq(Unit)) : w = Answers(rs)
      BY AnswersType
    <3>2. SubSeq(w, 1, 0) = <<>>
      OBVIOUS
    <3>3. FlattenSeq(<<>>) = <<>>
      BY FlattenEmpty
    <3>4. Sizing(rs, 0) = Len(FlattenSeq(SubSeq(w, 1, 0)))
      BY <3>1 DEF Sizing
    <3>5. Len(<<>>) = 0
      OBVIOUS
    <3>6. FlattenSeq(SubSeq(w, 1, 0)) = <<>>
      BY <3>2, <3>3, Zenon
    <3> QED
      BY <3>4, <3>5, <3>6, Zenon
  <2> QED
    BY <2>1, <2>2
<1>3. ASSUME NEW k \in Nat, k \in T PROVE k + 1 \in T
  <2> SUFFICES ASSUME k + 1 < Len(ts) PROVE StartOf[(k + 1) + 1] = Sizing(rs, k + 1) + 1
    OBVIOUS
  <2>1. PICK j \in 1..Len(ts) : j = k + 1
    BY <1>3
  <2>2. StartOf[j + 1] = StartOf[j] + HeadUnits + replies[j].head.declares
    <3>1. j + 1 \in Nat /\ ~(j + 1 <= 1) /\ (j + 1) - 1 = j
      OBVIOUS
    <3>2. StartOf[j + 1] = IF j + 1 <= 1 THEN 1
            ELSE StartOf[(j + 1) - 1] + HeadUnits + replies[(j + 1) - 1].head.declares
      BY <3>1, StartOfIs
    <3> QED
      BY <3>1, <3>2
  <2>3. StartOf[j] = Sizing(rs, k) + 1
    BY <1>3, <2>1
  <2>4. rs[j] \in Sizes
    BY <1>1
  <2>5. /\ rs[j].head + rs[j].file = HeadUnits + replies[j].head.declares
        /\ replies[j].head.declares \in Nat
    <3>1. Answered(replies[j], responses[j], extracted[j])
      BY <1>1 DEF ExchangeInv, RepliesInv
    <3>2. /\ replies[j] = Told(extracted[j], replies[j].ok, replies[j].works)
          /\ rs[j] = Sent(extracted[j], replies[j].ok, replies[j].works)
      BY <1>1, <3>1 DEF Answered
    <3> QED
      BY <2>4, <3>2, DeclaresLength
  <2>6. k \in 0..Len(rs) /\ k # Len(rs)
    BY <1>1
  <2>7. Sizing(rs, k) \in Nat /\ Sizing(rs, j) = Sizing(rs, k) + rs[j].head + rs[j].file
    BY <2>1, <2>6, SizingNext
  <2>8. PICK h \in Nat, f \in Nat, n \in Nat :
          h = rs[j].head /\ f = rs[j].file /\ n = Sizing(rs, k)
    <3>1. PICK r \in Sizes : r = rs[j]
      BY <2>4
    <3>2. r.head \in Nat /\ r.file \in Nat
      BY ConnectionAssumption DEF Sizes
    <3> QED
      BY <2>7, <3>1, <3>2
  <2>9. PICK d \in Nat : d = replies[j].head.declares
    BY <2>5
  <2>10. (n + 1) + HeadUnits + d = n + 1 + h + f
    <3>1. h + f = HeadUnits + d
      BY <2>5, <2>8, <2>9
    <3> QED
      BY <3>1, ExchangeAssumption
  <2>11. StartOf[j + 1] = (n + 1) + HeadUnits + d
    BY <2>2, <2>3, <2>8, <2>9
  <2>12. Sizing(rs, j) = n + h + f
    BY <2>7, <2>8
  <2>13. n + 1 + h + f = (n + h + f) + 1
    OBVIOUS
  <2> QED
    BY <2>1, <2>10, <2>11, <2>12, <2>13
<1> HIDE DEF T
<1>4. Nat \subseteq T
  BY <1>2, <1>3, Induction
<1> QED
  BY <1>1, <1>4 DEF T

\* A client that trusts Content-Length finds each response where the one
\* before it ends. No assumption on the requests is needed.
THEOREM DelimitedByLength == ExchangeSpec => []Delimited
<1>1. ExchangeInv => Delimited
  <2> SUFFICES ASSUME ExchangeInv, NEW k \in 1..Len(replies), StartOf[k] <= Len(wire)
               PROVE  wire[StartOf[k]] = [resp |-> k, part |-> "head", at |-> 1]
    BY DEF Delimited
  <2>1. PICK rs \in Seq(Sizes), ts \in Seq(Tolds) :
          rs = responses /\ ts = replies /\ Len(rs) = Len(ts)
    BY DEF ExchangeInv, RepliesInv, Typed
  <2>2. PICK j \in 0..Len(rs) : k = j + 1 /\ j # Len(rs)
    <3>1. k - 1 \in 0..Len(rs) /\ k - 1 # Len(rs) /\ k = (k - 1) + 1
      BY <2>1
    <3> QED
      BY <3>1
  <2>3. StartOf[k] = Sizing(rs, j) + 1
    BY <2>1, <2>2, StartsBehind
  <2>4. PICK whole \in Seq(Unit) : whole = FlattenSeq(Answers(rs)) /\ whole = All
    BY <2>1, AnswersType, FlattenType DEF All
  <2>5. PICK n \in Nat \ {0} :
          n = Sizing(rs, j) + 1 /\ whole[n] = [resp |-> k, part |-> "head", at |-> 1]
    <3>1. /\ Sizing(rs, j) \in Nat
          /\ whole[Sizing(rs, j) + 1] = [resp |-> j + 1, part |-> "head", at |-> 1]
      BY <2>2, <2>4, SizingNext
    <3>2. Sizing(rs, j) + 1 \in Nat \ {0}
      BY <3>1
    <3> QED
      BY <2>2, <3>1, <3>2
  <2>6. \E w \in Seq(Unit), v \in Seq(Unit) : w = wire /\ w \o v = whole
    <3>1. Typed /\ WireInv
      BY DEF ExchangeInv
    <3>2. PICK w \in Seq(Unit) : w = wire
      BY <3>1 DEF Typed
    <3>3. CASE phase = "write"
      <4>1. PICK v \in Seq(Unit) : v = Iov
        BY <3>1, IovType
      <4> QED
        BY <2>4, <3>1, <3>2, <3>3, <4>1 DEF WireInv
    <3>4. CASE phase # "write"
      <4>1. <<>> \in Seq(Unit) /\ w \o <<>> = w
        OBVIOUS
      <4> QED
        BY <2>4, <3>1, <3>2, <3>4, <4>1 DEF WireInv
    <3> QED
      BY <3>3, <3>4
  <2>7. PICK w \in Seq(Unit), v \in Seq(Unit) : w = wire /\ w \o v = whole
    BY <2>6
  <2>8. n \in 1..Len(w)
    BY <2>3, <2>5, <2>7
  <2>9. (w \o v)[n] = w[n]
    BY <2>8
  <2> QED
    BY <2>3, <2>5, <2>7, <2>9
<1> QED
  BY <1>1, ExchangeInvariant, PTL
=============================================================================
