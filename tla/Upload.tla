------------------------------- MODULE Upload -------------------------------
(***************************************************************************)
(* An upload through cgi-io: the multipart parser, which is fed the        *)
(* request in pieces, and the callbacks that collect session, file name    *)
(* and file.  The parser takes one symbol at a time; `last' is a symbol    *)
(* that a piece ends with.  It hands on the part of a run of symbols that  *)
(* lies in the current piece (pending), so every cut shows in what the     *)
(* callbacks get.                                                          *)
(***************************************************************************)
EXTENDS Integers, SequencesExt

CONSTANTS Bytes,       \* the symbols a file is made of
          Files        \* the files that are uploaded

Boundary == <<"-", "B">>
CRLF == <<"cr", "lf">>
Delimiter == CRLF \o Boundary
Parts == {"sessionid", "filename", "filedata"}
Disposition == <<"content", "-", "disp">>
Sid == <<"s1", "s2">>
Path == <<"n1", "n2">>

VARIABLES file,      \* the file that is sent; a browser picks a boundary not in it
          valid,     \* whether the session exists and is not expired
          pos,       \* the symbol that is parsed next
          st, index, \* p->state, p->index
          pending,   \* buf[mark .. i - 1]
          h,         \* the state of cgi-io, and what it has done
          cut        \* history: a piece ended inside a name or inside session or path

vars == <<file, valid, pos, st, index, pending, h, cut>>

----------------------------------------------------------------------------
(* The request, as the browser sends it.                                    *)

Value(name) == <<":", "space", "form", name, "quote">> \o CRLF
Part(name, data) ==
  Boundary \o CRLF \o Disposition \o Value(name)
    \o (IF name = "filedata" THEN <<"content", "-", "type", ":", "space", "mime">> \o CRLF
                             ELSE <<>>)
    \o CRLF \o data \o CRLF
Request(f) == Part("sessionid", Sid) \o Part("filename", Path) \o Part("filedata", f)
                \o Boundary \o <<"-", "-">> \o CRLF

Here == Request(file)[pos]
More == pos <= Len(Request(file)) /\ st # "stopped"

\* A cut after this symbol splits what the callbacks want in one piece.
Splits(r, i) ==
  \/ r[i] \in {"form"} \cup Parts \cup {"s1", "s2", "n1", "n2"}
  \/ r[i] \in {"content", "-"} /\ i + 2 <= Len(r)
       /\ \E k \in 1 .. 2 : r[i + k] = "disp"

----------------------------------------------------------------------------
(* The callbacks.  Each yields the states it may lead to; an answer other   *)
(* than "none" makes the parser stop.                                       *)

Old == <<"old">>
Gone == <<"gone">>
Unset == [cd |-> FALSE,        \* is_content_disposition
          part |-> "unknown",  \* parttype
          sid |-> "none", path |-> "none",
          temp |-> <<>>,       \* the temporary file
          target |-> Old,      \* the file on the path that was sent
          elsewhere |-> FALSE, \* whether another path was written
          answer |-> "none"]

Fail(s, why) == [s EXCEPT !.answer = why]

HeaderField(s, data) == {[s EXCEPT !.cd = IsPrefix(data, Disposition)]}

\* The loop looks for the closing quote up to one byte after the piece, where
\* anything may be; parts[] is matched by prefix, and the last match counts.
HeaderValue(s, data) ==
  IF ~s.cd \/ ~IsPrefix(<<"form">>, data) THEN {s}
  ELSE CASE Len(data) = 1 -> {s, [s EXCEPT !.part = "filedata"]}
         [] Len(data) = 2 -> {s, [s EXCEPT !.part = data[2]]}
         [] OTHER -> {[s EXCEPT !.part = data[2]]}

Access(s) == s.sid = "whole" /\ valid

DataBegin(s) ==
  IF s.part # "filedata" THEN {s}
  ELSE IF s.sid = "none"  THEN {Fail(s, "File data without session")}
  ELSE IF s.path = "none" THEN {Fail(s, "File data without name")}
  ELSE IF ~Access(s)      THEN {Fail(s, "Access to path denied by ACL")}
  ELSE {s, Fail(s, "Failed to create temporary file")}

\* A session or a name that comes in pieces is overwritten by its last piece; of
\* an empty name canonicalize_path makes "/".
Data(s, data) ==
  CASE s.part = "sessionid" -> {[s EXCEPT !.sid = IF data = Sid THEN "whole" ELSE "piece"]}
    [] s.part = "filename"  -> {[s EXCEPT !.path = CASE data = Path -> "whole"
                                                     [] data = <<>> -> "root"
                                                     [] OTHER -> "piece"]}
    [] s.part = "filedata"  -> {[s EXCEPT !.temp = @ \o data]}
                                 \cup (IF data = <<>> THEN {}
                                       ELSE {Fail(s, "I/O failure while writing temporary file")})
    [] OTHER -> {s}

Written(s, content) == IF s.path = "whole" THEN [s EXCEPT !.target = content]
                                           ELSE [s EXCEPT !.elsewhere = TRUE]

\* Faulty variant of FileCopy: a copy that fails is left where it is.
FileCopyKeeps(s) ==
  IF s.temp = <<>> THEN {Fail(s, "No file data received")}
  ELSE {Fail(Written(s, SubSeq(s.temp, 1, k)), "I/O failure while writing target file") :
          k \in 0 .. Len(s.temp)}
\* Unlink the target, link the temporary file in its place or else copy it.
\* A copy that fails is unlinked; a directory like "/" cannot be.
FileCopy(s) ==
  LET gone == IF s.path = "whole" THEN [s EXCEPT !.target = Gone] ELSE s
      stored == Written(s, s.temp)
  IN  IF s.temp = <<>> THEN {Fail(s, "No file data received")}
      ELSE {Fail(s, "Failed to unlink existing file")} \cup
           IF s.path = "root" THEN {} ELSE
           {Fail(gone, "Failed to open target file"),
            Fail(gone, "I/O failure while writing target file"),
            Fail(gone, "Failed to chmod target file"),      \* of a copy
            Fail(stored, "Failed to chmod target file"),    \* of a link
            Fail(stored, "stored")}

DataEnd(s) ==
  CASE s.part = "sessionid" /\ ~Access(s) -> {Fail(s, "Upload permission denied")}
    [] s.part = "filedata" -> FileCopy(s)
    [] OTHER -> {[s EXCEPT !.part = "unknown"]}

----------------------------------------------------------------------------
(* multipart_parser_execute                                                 *)

\* Go on with the next symbol in state t, or stop if a callback says so.  A new
\* piece begins with nothing pending.
Goto(t, i, last, keep) ==
  /\ pos' = pos + 1
  /\ st' = IF h'.answer # "none" THEN "stopped" ELSE t
  /\ index' = i
  /\ pending' = IF last THEN <<>> ELSE keep
  /\ cut' = (cut \/ (last /\ Splits(Request(file), pos)))
  /\ UNCHANGED <<file, valid>>
Quiet == UNCHANGED h
Seen == Append(pending, Here)

StartBoundary(last) ==
  /\ More /\ st = "start"
  /\ Here = (Boundary \o CRLF)[index + 1]
  /\ Quiet
  /\ IF index = Len(Boundary) + 1 THEN Goto("field", 0, last, <<>>)
                                  ELSE Goto("start", index + 1, last, <<>>)

\* The hyphen skips the test for the end of the piece.
HeaderName(last) ==
  /\ More /\ st = "field"
  /\ CASE Here = "cr" -> Quiet /\ Goto("headers_almost_done", index, last, <<>>)
       [] Here = ":"  -> /\ h' \in HeaderField(h, pending)
                         /\ Goto("value_start", index, last, <<>>)
       [] Here = "-"  -> Quiet /\ Goto("field", index, last, Seen)
       [] OTHER       -> /\ IF last THEN h' \in HeaderField(h, Seen) ELSE Quiet
                         /\ Goto("field", index, last, Seen)

HeadersAlmostDone(last) ==
  /\ More /\ st = "headers_almost_done" /\ Here = "lf"
  /\ Quiet
  /\ Goto("data_start", index, last, <<>>)

ValueStart(last) ==
  /\ More /\ st = "value_start" /\ Here = "space"
  /\ Quiet
  /\ Goto("value_start", index, last, <<>>)

\* At the end of a piece the value is handed on again, together with its CR.
HeaderBody(last) ==
  /\ More /\ st \in {"value_start", "value"} /\ ~(st = "value_start" /\ Here = "space")
  /\ IF Here = "cr"
       THEN /\ \E s \in HeaderValue(h, pending) :
                 IF last THEN h' \in HeaderValue(s, Seen) ELSE h' = s
            /\ Goto("value_almost_done", index, last, <<>>)
       ELSE /\ IF last THEN h' \in HeaderValue(h, Seen) ELSE Quiet
            /\ Goto("value", index, last, Seen)

ValueAlmostDone(last) ==
  /\ More /\ st = "value_almost_done" /\ Here = "lf"
  /\ Quiet
  /\ Goto("field", index, last, <<>>)

\* Bytes of a part.
PartData(last) ==
  /\ More /\ st \in {"data_start", "data"}
  /\ \E s \in IF st = "data_start" THEN DataBegin(h) ELSE {h} :
       IF s.answer # "none" THEN h' = s
       ELSE IF Here = "cr"  THEN h' \in Data(s, pending)
       ELSE IF last         THEN h' \in Data(s, Seen)
       ELSE h' = s
  /\ IF Here = "cr" THEN Goto("almost_boundary", index, last, <<>>)
                    ELSE Goto("data", index, last, Seen)

AlmostBoundary(last) ==
  /\ More /\ st = "almost_boundary" /\ Here = "lf"
  /\ Quiet
  /\ Goto("boundary", 0, last, <<>>)

\* Faulty variant of NoBoundary: only the line end before the supposed boundary is handed on.
NoBoundaryShort ==
  /\ More
  /\ \/ st = "almost_boundary" /\ Here # "lf"
     \/ st = "boundary" /\ Here # Boundary[index + 1]
  /\ h' \in Data(h, IF st = "boundary" THEN CRLF ELSE <<"cr">>)
  /\ st' = "data" /\ pending' = <<>>
  /\ UNCHANGED <<file, valid, pos, index, cut>>

\* What looked like a boundary was data: it is handed on from the lookbehind
\* buffer, and the symbol is looked at again.
NoBoundary ==
  /\ More
  /\ \/ st = "almost_boundary" /\ Here # "lf"
     \/ st = "boundary" /\ Here # Boundary[index + 1]
  /\ h' \in Data(h, IF st = "boundary" THEN SubSeq(Delimiter, 1, 2 + index) ELSE <<"cr">>)
  /\ st' = IF h'.answer # "none" THEN "stopped" ELSE "data"
  /\ pending' = <<>>
  /\ UNCHANGED <<file, valid, pos, index, cut>>

InBoundary(last) ==
  /\ More /\ st = "boundary" /\ Here = Boundary[index + 1]
  /\ IF index + 1 = Len(Boundary)
       THEN h' \in DataEnd(h) /\ Goto("almost_end", index + 1, last, <<>>)
       ELSE Quiet /\ Goto("boundary", index + 1, last, <<>>)

AfterBoundary(last) ==
  /\ More /\ Quiet
  /\ \/ st = "almost_end" /\ Here = "-" /\ Goto("final_hyphen", index, last, <<>>)
     \/ st = "almost_end" /\ Here = "cr" /\ Goto("data_end", index, last, <<>>)
     \/ st = "final_hyphen" /\ Here = "-" /\ Goto("end", index, last, <<>>)
     \/ st = "data_end" /\ Here = "lf" /\ Goto("field", index, last, <<>>)
     \/ st = "end" /\ Goto("end", index, last, <<>>)

----------------------------------------------------------------------------

Init == /\ file \in Files /\ valid \in BOOLEAN
        /\ pos = 1 /\ st = "start" /\ index = 0 /\ pending = <<>>
        /\ h = Unset /\ cut = FALSE

\* Nothing is uploaded.
Unused == /\ file = <<>> /\ valid = FALSE
          /\ pos = 1 /\ st = "stopped" /\ index = 0 /\ pending = <<>>
          /\ h = Unset /\ cut = FALSE

Parse(last) ==
  \/ StartBoundary(last) \/ HeaderName(last) \/ HeadersAlmostDone(last)
  \/ ValueStart(last) \/ HeaderBody(last) \/ ValueAlmostDone(last)
  \/ PartData(last) \/ AlmostBoundary(last) \/ InBoundary(last) \/ AfterBoundary(last)
Next == NoBoundary \/ \E last \in BOOLEAN : Parse(last)

----------------------------------------------------------------------------

\* The browser picks a boundary that is not in the file.
UploadAssumption ==
  /\ Files \subseteq Seq(Bytes)
  /\ \A f \in Files : ~ \E i \in 0 .. Len(f) - 4 : SubSeq(f, i + 1, i + 4) = Delimiter

UploadTypeOK ==
  /\ pos \in 1 .. Len(Request(file)) + 1
  /\ st \in {"start", "field", "headers_almost_done", "value_start", "value",
             "value_almost_done", "data_start", "data", "almost_boundary", "boundary",
             "almost_end", "final_hyphen", "data_end", "end", "stopped"}
  /\ index \in 0 .. Len(Boundary) + 1
  /\ h.part \in Parts \cup {"unknown"}
  /\ h.sid \in {"none", "whole", "piece"}
  /\ h.path \in {"none", "whole", "piece", "root"}
  /\ cut \in BOOLEAN

\* The temporary file is a prefix of the file that was sent, wherever the
\* request is cut into pieces and however much of it looks like a boundary; it
\* is the whole file when the upload is answered as stored.
Promise == INSTANCE ByteStream
             WITH sent <- file, out <- h.temp, ended <- h.answer = "stored"
UploadInOrder == Promise!Spec

\* The target is the old file, the new one or, after a failure that was
\* answered, none, and never a part of the new one; an upload that is answered
\* as stored is stored under the name that was sent, unless the name was cut.
TargetIntact ==
  /\ h.target \in {Old, Gone, file}
  /\ h.target # Old => h.answer # "none"
  /\ (h.answer = "stored" /\ ~cut) => h.target = file /\ ~h.elsewhere

\* A request that was read to its end has been answered, unless a piece ended
\* inside a header name or a part name: then the part is not recognised, the
\* file is dropped and the program ends without an answer.
WholeUploadIsAnswered ==
  (pos > Len(Request(file)) /\ ~cut) => h.answer # "none"
=============================================================================
