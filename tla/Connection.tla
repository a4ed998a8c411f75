----------------------------- MODULE Connection -----------------------------
(***************************************************************************)
(* One keep-alive connection as the thread that owns it sees it: the read  *)
(* buffer that extractOneRequest() cuts into requests, and the write       *)
(* buffer and mapped file that writev() and consumeWriteData() drain.      *)
(*                                                                         *)
(* The stream is a sequence of the tokens of HttpText, one unit each.      *)
(***************************************************************************)
EXTENDS HttpText

CONSTANTS
  Requests,     \* what clients send: records [line, headers, body]
  MaxRequests,  \* bound: requests on the connection
  SizeMod,      \* 2^w, w the width of size_t
  MaxHead,      \* bound: units of writeBuf_
  MaxFile       \* bound: units of mappedFile_

ASSUME ConnectionAssumption ==
  /\ SizeMod \in Nat \ {0} /\ MaxRequests \in Nat
  /\ MaxHead \in Nat \ {0} /\ MaxFile \in Nat
  /\ NoFile \notin Nat
  /\ Requests \subseteq [line: Token, headers: Seq(Token), body: Seq(Token)]

VARIABLES
  requests,    \* what the client sends, one after the other
  unread,      \* tokens read() has not returned
  readBuf,     \* readBuf_
  extracted,   \* the raw requests handed to HttpRequest::parse()
  phase,       \* of the owner: "read", "respond", "write", in the end "closed"
  writeSize,   \* writeBuf_.size()
  fileSize,    \* mappedFile_->size(), or NoFile
  writeOffset, fileOffset,
  closeAfterWrite,
  responses,   \* every response so far, [head, file]
  wire         \* the units writev() has put on the socket

input  == <<unread, readBuf, extracted>>
output == <<writeSize, fileSize, writeOffset, fileOffset, closeAfterWrite,
            responses, wire>>
vars   == <<requests, input, phase, output>>

Whole(r) == <<r.line>> \o r.headers \o <<Blank>> \o r.body
Stream(rs) == FlattenSeq([i \in 1..Len(rs) |-> Whole(rs[i])])
Lesser(a, b) == IF a < b THEN a ELSE b

TypeOK ==
  /\ \A i \in 1..Len(requests) : requests[i] \in Requests
  /\ IsSuffix(unread, Stream(requests))
  /\ phase \in {"read", "respond", "write", "closed"}
  /\ writeSize \in 0..MaxHead
  /\ fileSize \in 0..MaxFile \cup {NoFile}
  /\ writeOffset \in 0..writeSize
  /\ fileOffset \in 0..(IF fileSize = NoFile THEN 0 ELSE fileSize)
  /\ closeAfterWrite \in BOOLEAN
  /\ \A i \in 1..Len(responses) :
       responses[i] \in [head: 1..MaxHead, file: 0..MaxFile]

Init ==
  /\ requests \in BoundedSeq(Requests, MaxRequests)
  /\ unread = Stream(requests)
  /\ readBuf = <<>> /\ extracted = <<>>
  /\ phase = "read"
  /\ writeSize = 0 /\ fileSize = NoFile
  /\ writeOffset = 0 /\ fileOffset = 0 /\ closeAfterWrite = FALSE
  /\ responses = <<>> /\ wire = <<>>

-----------------------------------------------------------------------------
(* Reading *)

\* read() returns any part of what has arrived.
AppendReadData(k) ==
  /\ phase = "read" /\ k \in 1..Len(unread)
  /\ readBuf' = readBuf \o SubSeq(unread, 1, k)
  /\ unread' = SubSeq(unread, k + 1, Len(unread))
  /\ UNCHANGED <<requests, extracted, phase, output>>

IsBlank(token) == token = Blank

\* "content-length:" is looked for anywhere in the text of the head: another
\* name that ends like it, a value or the request line will do.
IsLength(token) == token.is \in {"request", "header", "junk"} /\ token.holds

\* The length of the headers with their empty line, 0 when it is missing.
\* Mutant: rfind(), which takes an empty line of the body for it.
MutantHeadersLen(buf) == SelectLastInSeq(buf, IsBlank)
HeadersLen(buf) == SelectInSeq(buf, IsBlank)

\* The first number after it; stoul() throws out_of_range on what does not
\* fit, which counts as 0.
ParseContentLength(headers) ==
  LET i == SelectInSeq(headers, IsLength) IN
  IF i = 0 THEN 0 ELSE IF headers[i].n < SizeMod THEN headers[i].n ELSE 0

\* headersLen + contentLength, in size_t.
TotalLen(buf) ==
  LET h == HeadersLen(buf) IN
  (h + ParseContentLength(SubSeq(buf, 1, h))) % SizeMod

\* Mutant: <= for < in the test of the size.
MutantComplete(buf) == HeadersLen(buf) # 0 /\ Len(buf) > TotalLen(buf)
Complete(buf) == HeadersLen(buf) # 0 /\ Len(buf) >= TotalLen(buf)

ExtractOneRequest ==
  /\ phase = "read" /\ Complete(readBuf)
  /\ extracted' = Append(extracted, SubSeq(readBuf, 1, TotalLen(readBuf)))
  /\ readBuf' = SubSeq(readBuf, TotalLen(readBuf) + 1, Len(readBuf))
  /\ phase' = "respond"
  /\ UNCHANGED <<requests, unread, output>>

-----------------------------------------------------------------------------
(* Writing *)

\* What processConnectionTask() does with either, and setCloseAfterWrite().
Start(head, file, close) ==
  /\ phase = "respond"
  /\ writeSize' = head
  /\ fileSize' = file
  /\ closeAfterWrite' = close
  /\ responses' =
       Append(responses, [head |-> head, file |-> IF file = NoFile THEN 0 ELSE file])
  /\ phase' = "write"
  /\ UNCHANGED <<requests, input, wire>>

AppendWriteData(head, close) ==
  Start(head, NoFile, close) /\ writeOffset' = 0 /\ fileOffset' = 0

SetMappedWriteData(head, file, close) ==
  Start(head, file, close) /\ writeOffset' = 0 /\ fileOffset' = 0

HeadLeft == writeSize - writeOffset
FileLeft ==
  IF fileSize = NoFile THEN 0
  ELSE IF fileOffset < fileSize THEN fileSize - fileOffset ELSE 0
HasWriteData == HeadLeft > 0 \/ FileLeft > 0

Units(k, part, from, n) == [i \in 1..n |-> [resp |-> k, part |-> part, at |-> from + i]]

\* The two iovecs of handleWrite(): the rest of the header, the rest of the
\* file.
Iov ==
  Units(Len(responses), "head", writeOffset, HeadLeft)
    \o Units(Len(responses), "file", fileOffset, FileLeft)

\* consumeWriteData(n): what the header does not absorb comes off the file.
\* Mutants: the header absorbs all of it, or the file is charged with all.
MutantHeadTaken(n) == n
HeadTaken(n) == Lesser(n, HeadLeft)

MutantFileTaken(n) == Lesser(n, FileLeft)
FileTaken(n) == Lesser(n - HeadTaken(n), FileLeft)

ConsumeWriteData(n) ==
  /\ writeOffset' = writeOffset + HeadTaken(n)
  /\ fileOffset' = fileOffset + FileTaken(n)

\* writev() takes any part of it; EAGAIN and the wait for EPOLLOUT in
\* between change nothing.
Writev(n) ==
  /\ phase = "write" /\ n \in 1..Len(Iov)
  /\ wire' = wire \o SubSeq(Iov, 1, n)
  /\ ConsumeWriteData(n)
  /\ UNCHANGED <<requests, input, phase, writeSize, fileSize, closeAfterWrite,
                 responses>>

\* clearWriteData(), and closeConnection() when the response said so.
AfterWrite == IF closeAfterWrite THEN "closed" ELSE "read"

ClearWriteData ==
  /\ phase = "write" /\ ~HasWriteData
  /\ writeSize' = 0 /\ fileSize' = NoFile
  /\ writeOffset' = 0 /\ fileOffset' = 0
  /\ phase' = AfterWrite
  /\ UNCHANGED <<requests, input, closeAfterWrite, responses, wire>>

-----------------------------------------------------------------------------
\* Nothing to read, nothing to cut: the server waits for the client.
Idle == phase = "read" /\ unread = <<>> /\ ~Complete(readBuf)

Transfer ==
  \/ \E k \in 1..Len(unread) : AppendReadData(k)
  \/ ExtractOneRequest
  \/ \E n \in 1..(MaxHead + MaxFile) : Writev(n)
  \/ ClearWriteData

Over == (Idle \/ phase = "closed") /\ UNCHANGED vars
-----------------------------------------------------------------------------
\* The length that the client of a request declares: the first header of that
\* name counts.
IsDeclared(h) == h.is = "header" /\ ToLower(h.key) = "content-length"
Declared(r) ==
  LET i == SelectInSeq(r.headers, IsDeclared) IN
  IF i = 0 THEN 0 ELSE r.headers[i].n

\* A request line or what stands for one, lines up to the empty one, and a
\* body of the declared length.  The text "content-length:" stands in the
\* headers of that name and nowhere else in the head: not in the request line,
\* a value or a longer name.  The size is one that size_t can hold.
WellFramed(r) ==
  /\ r.line # Blank /\ ~IsLength(r.line)
  /\ \A i \in 1..Len(r.headers) :
       r.headers[i] # Blank /\ (IsLength(r.headers[i]) <=> IsDeclared(r.headers[i]))
  /\ Declared(r) = Len(r.body)
  /\ Len(Whole(r)) < SizeMod

\* The requests handed to the parser are the client's, one by one, however
\* read() splits or joins them and whatever a body contains.
ExtractedExact ==
  \A i \in 1..Len(extracted) :
    /\ i <= Len(requests)
    /\ extracted[i] = Whole(requests[i])

\* No complete request stays in the buffer once everything has been read.
AllExtracted == Idle => Len(extracted) = Len(requests)

\* The client receives each response whole, header before file, without a
\* gap or a repetition, however writev() splits it.
Response(k) ==
  Units(k, "head", 0, responses[k].head) \o Units(k, "file", 0, responses[k].file)

WireExact ==
  LET all == FlattenSeq([k \in 1..Len(responses) |-> Response(k)]) IN
  IF phase = "write" THEN IsPrefix(wire, all) ELSE wire = all
=============================================================================
