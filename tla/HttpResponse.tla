---------------------------- MODULE HttpResponse ----------------------------
(***************************************************************************)
(* http_response.cpp: the answer to a path.  prepare() maps the file, and  *)
(* the server uses it; build() reads it, and the unit tests use it.  A     *)
(* body is the name of what it shows, and the page of an error has one     *)
(* unit; the wording of pages and header lines is left out.                *)
(***************************************************************************)
EXTENDS HttpRequest

CONSTANTS
  Files,    \* under the web root: name -> [kind, size, ext]
  Dotted    \* the texts with ".." in them

Html == "text/html"
MimeTypes == [html |-> Html, png |-> "image/png"]
GetMimeType(ext) ==
  IF ext \in DOMAIN MimeTypes THEN MimeTypes[ext] ELSE "application/octet-stream"

Root == Text("/", 0)
Absent == [kind |-> "absent", size |-> 0, ext |-> "none"]
FileName(path) == IF path = Root THEN "/index.html" ELSE path.text
FileAt(path) ==
  IF path.layers = 0 /\ FileName(path) \in DOMAIN Files
  THEN Files[FileName(path)] ELSE Absent

\* path.find("..") in the decoded path, where dots that are still encoded do
\* not show.
\* Mutant: the test is missing.
MutantHasDots(path) == FALSE
HasDots(path) == path.layers = 0 /\ path.text \in Dotted

Page(status, type, name) ==
  [status |-> status, type |-> type, body |-> Text(name, 0), text |-> 1, file |-> NoFile]

\* MappedFile::open(): open(), fstat() and mmap() of a regular file, unless
\* a limit of the system makes one of them fail.  An empty file is opened,
\* and not mapped.
\* Mutant: an empty file cannot be opened.
MutantOpenFile(file, works) == file.kind = "regular" /\ file.size > 0 /\ works
OpenFile(file, works) == file.kind = "regular" /\ works

\* Any method will do.
Prepare(path, works) ==
  IF HasDots(path) THEN Page(403, Html, "forbidden")
  ELSE IF OpenFile(FileAt(path), works)
  THEN [status |-> 200, type |-> GetMimeType(FileAt(path).ext), body |-> Text(FileName(path), 0),
        text |-> 0, file |-> FileAt(path).size]
  ELSE IF path = Root THEN Page(200, Html, "welcome")
  ELSE Page(404, Html, "not found")

\* build(), whose body is what readFileContent() has copied.  An ifstream
\* opens a directory too, of no certain size: that case is left out.
ReadFileContent(path) ==
  [status |-> 200, type |-> GetMimeType(FileAt(path).ext), body |-> Text(FileName(path), 0),
   text |-> FileAt(path).size, file |-> NoFile]

Build(path) ==
  IF HasDots(path) THEN Page(403, Html, "forbidden")
  ELSE IF path = Root
  THEN IF FileAt(path).kind = "regular"
       THEN [ReadFileContent(path) EXCEPT !.type = Html]
       ELSE Page(200, Html, "welcome")
  ELSE IF FileAt(path).kind = "regular" THEN ReadFileContent(path)
  ELSE Page(404, Html, "not found")

\* bodySize(), and what buildHeader() and buildText() tell the client.
\* Mutant: the length of the text alone.
MutantBodySize(r) == r.text
BodySize(r) == IF r.file = NoFile THEN r.text ELSE r.file

BuildHeader(r, keepAlive) ==
  [status |-> r.status, type |-> r.type, declares |-> BodySize(r),
   keepAlive |-> keepAlive]
=============================================================================
