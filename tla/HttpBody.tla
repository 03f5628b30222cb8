------------------------------ MODULE HttpBody ------------------------------
(***************************************************************************)
(* How a reply is read from a socket: the line source of nixio.util, the   *)
(* two chunk readers, and the three programs that use them: the socket     *)
(* forwarder ("forward"), request_to_buffer ("buffer") and request_to_file *)
(* ("file") of the HTTP client.  A symbol stands for a byte or for a piece *)
(* of a header line that no reader looks into.                             *)
(***************************************************************************)
EXTENDS Integers, FiniteSetsExt, SequencesExt

CONSTANTS Replies,       \* what the server may reply: a body, and where it is cut
                         \* into chunks, of which the last is empty
          Limit,         \* BUFFERSIZE: how much the line source holds
          MaxAttempts    \* how often a file is downloaded (bound)

RepliesAssumption ==
  /\ Limit \in Nat /\ Limit >= 3              \* the longest header line fits
  /\ MaxAttempts \in Nat
  /\ \A r \in Replies : LET last == Len(r.cuts) IN
       /\ r.body \in Seq(Range(r.body)) /\ r.cuts \in Seq(Nat) /\ last > 1
       /\ r.cuts[1] = 0 /\ r.cuts[last - 1] = Len(r.body) /\ r.cuts[last] = Len(r.body)
       /\ \A i, j \in 1 .. last - 1 : i < j => r.cuts[i] < r.cuts[j]
       /\ \A i \in 1 .. last - 1 : r.cuts[i + 1] - r.cuts[i] <= 9

Hex == <<"0", "1", "2", "3", "4", "5", "6", "7", "8", "9">>
CRLF == <<"cr", "lf">>

VARIABLES reader,     \* the program that reads, "none" before there is one
          reply,      \* the body and its cuts
          rest,       \* what the server has still to send on this connection
          open,       \* whether it has not closed the connection
          off, code,  \* the offset that was asked for, the status of the reply
          buffer,     \* what was received and not yet used
          phase,
          te,         \* response.headers["Transfer-Encoding"] == "chunked"
          out,        \* what has been passed on, for "file" the file
          attempts,
          truncated,  \* history: the server closed before it had sent all
          leaked,     \* history: the header block itself was truncated
          claimed     \* history: the reader reported the whole body

net == <<rest, open, truncated>>
vars == <<reader, reply, rest, open, off, code, buffer, phase, te, out,
          attempts, truncated, leaked, claimed>>

NoReply == [body |-> <<>>, cuts |-> <<>>]
Smaller(a, b) == IF a < b THEN a ELSE b
Drop(s, n) == SubSeq(s, n + 1, Len(s))
Body == reply.body

----------------------------------------------------------------------------
(* The server and the connection.                                           *)

Header(chunked) ==
  <<"status">> \o CRLF \o (IF chunked THEN <<"te">> \o CRLF ELSE <<>>) \o CRLF
Chunk(c) == <<Hex[Len(c) + 1]>> \o CRLF \o c \o CRLF
\* Chunk i starts behind what is before it and five symbols for each chunk.
Cut(i) == reply.cuts[i]
Start(i) == Cut(i) + 5 * (i - 1)
ChunkAt(p) == CHOOSE i \in 1 .. Len(reply.cuts) - 1 : Start(i) < p /\ p <= Start(i + 1)
Encoded ==
  [p \in 1 .. Start(Len(reply.cuts)) |->
     LET i == ChunkAt(p) IN Chunk(SubSeq(Body, Cut(i) + 1, Cut(i + 1)))[p - Start(i)]]

\* What may be received next when n symbols are asked for: what has arrived,
\* or the empty string once the connection is closed.
Received(n) == IF open THEN {SubSeq(rest, 1, k) : k \in 1 .. Smaller(n, Len(rest))}
                       ELSE {<<>>}
Take(got) == /\ rest' = Drop(rest, Len(got))
             /\ UNCHANGED <<open, truncated>>

\* recvall(n): n symbols, or fewer because the server has closed first.
ReceivedAll(n) == {SubSeq(rest, 1, k) : k \in 0 .. Smaller(n, Len(rest))}
TakeAll(got, n) ==
  IF Len(got) = n THEN Take(got)
                  ELSE /\ open' = FALSE
                       /\ rest' = <<>>
                       /\ truncated' = (truncated \/ Len(rest) > Len(got))

\* The server has sent its reply; it was asked to close the connection.
ServerDone == /\ reader # "none" /\ open /\ rest = <<>>
              /\ open' = FALSE
              /\ UNCHANGED <<reader, reply, rest, off, code, buffer, phase, te, out,
                             attempts, truncated, leaked, claimed>>
\* The server dies, or the connection is lost.
ServerDies == /\ open /\ rest # <<>>
              /\ open' = FALSE /\ rest' = <<>> /\ truncated' = TRUE
              /\ UNCHANGED <<reader, reply, off, code, buffer, phase, te, out,
                             attempts, leaked, claimed>>

----------------------------------------------------------------------------
(* linesource                                                               *)

Eol(b) == LET ends == {i \in DOMAIN b : b[i] = "lf"} IN IF ends = {} THEN 0 ELSE Min(ends)
HasLine == Eol(buffer) > 0
Line == LET e == Eol(buffer) - 1
        IN  SubSeq(buffer, 1, IF e > 0 /\ buffer[e] = "cr" THEN e - 1 ELSE e)
InHeader == phase \in {"status", "headers"}

\* A line is complete: the status line, a header, or the empty line.
ReadLine ==
  /\ InHeader /\ HasLine
  /\ buffer' = Drop(buffer, Eol(buffer))
  /\ phase' = IF phase = "headers" /\ Line = <<>> THEN "flush" ELSE "headers"
  /\ te' = (te \/ Line = <<"te">>)
  /\ UNCHANGED <<reader, reply, off, code, out, attempts, leaked, claimed, net>>

FillLine ==
  /\ InHeader /\ ~HasLine /\ Len(buffer) < Limit
  /\ \E got \in Received(Limit - Len(buffer)) :
       /\ got # <<>>
       /\ buffer' = buffer \o got
       /\ Take(got)
  /\ UNCHANGED <<reader, reply, off, code, phase, te, out, attempts, leaked, claimed>>

\* Faulty variant of NoLine: the end of the stream is not noticed.
NoLineFull ==
  /\ InHeader /\ ~HasLine /\ Len(buffer) >= Limit
  /\ phase' = "failed"
  /\ UNCHANGED <<reader, reply, off, code, buffer, te, out, attempts, leaked, claimed, net>>

\* The source returns nil: nothing more comes, or the line does not fit.  The
\* forwarder matches a nil status line and dies; a nil among the headers ends
\* them for it like the empty line, and the rest of the buffer is the body.
NoLine ==
  /\ InHeader /\ ~HasLine
  /\ Len(buffer) >= Limit \/ ~open
  /\ IF reader = "forward" /\ phase = "headers"
       THEN phase' = "flush" /\ leaked' = TRUE
       ELSE phase' = "failed" /\ UNCHANGED leaked
  /\ UNCHANGED <<reader, reply, off, code, buffer, te, out, attempts, claimed, net>>

----------------------------------------------------------------------------
(* The body                                                                 *)

\* request_raw returns linesrc(true) .. sock:readall(): everything until the
\* server closes.  The forwarder goes on with what it has.
Flush ==
  /\ phase = "flush"
  /\ IF reader = "forward"
       THEN UNCHANGED <<buffer, net>>
       ELSE \E got \in ReceivedAll(Len(rest)) :
              /\ buffer' = buffer \o got
              /\ open' = FALSE
              /\ rest' = <<>>
              /\ truncated' = (truncated \/ Len(got) < Len(rest))
  /\ phase' = "source"
  /\ UNCHANGED <<reader, reply, off, code, te, out, attempts, leaked, claimed>>

\* readall returns nil when nothing comes for rcvtimeo seconds, and the
\* concatenation raises an error.
ReadTimesOut ==
  /\ phase = "flush" /\ reader # "forward" /\ open
  /\ phase' = "failed"
  /\ UNCHANGED <<reader, reply, off, code, buffer, te, out, attempts, leaked, claimed, net>>

\* request_to_file accepts 206 if it asked for a range, otherwise 200.
Accepted == reader # "file" \/ code = (IF off > 0 THEN 206 ELSE 200)

\* Faulty variant of Source: a plain body is taken from the socket only.
SourceSocket ==
  /\ phase = "source"
  /\ phase' = IF ~Accepted THEN "failed" ELSE IF te THEN "chunk" ELSE "block"
  /\ UNCHANGED <<reader, reply, off, code, buffer, te, out, attempts, leaked, claimed, net>>

\* The buffer is the first block of a plain body.
Source ==
  /\ phase = "source"
  /\ IF ~Accepted THEN phase' = "failed" /\ UNCHANGED <<buffer, out>>
     ELSE IF te   THEN phase' = "chunk" /\ UNCHANGED <<buffer, out>>
     ELSE /\ phase' = "block"
          /\ out' = out \o buffer
          /\ buffer' = <<>>
  /\ UNCHANGED <<reader, reply, off, code, te, attempts, leaked, claimed, net>>

\* The process is killed while it writes the buffer to the file.
Killed ==
  /\ phase = "source" /\ reader = "file" /\ Accepted
  /\ \E k \in 0 .. Len(buffer) : out' = out \o SubSeq(buffer, 1, k)
  /\ phase' = "failed"
  /\ UNCHANGED <<reader, reply, off, code, buffer, te, attempts, leaked, claimed, net>>

\* blocksource
Block ==
  /\ phase = "block"
  /\ \E got \in Received(Limit) :
       /\ out' = out \o got
       /\ Take(got)
       /\ phase' = IF got = <<>> THEN "done" ELSE "block"
       /\ claimed' = (claimed \/ (got = <<>> /\ ~truncated))
  /\ UNCHANGED <<reader, reply, off, code, buffer, te, attempts, leaked>>

Digits == ToSet(Hex)
HasSize == /\ Len(buffer) >= 3
           /\ buffer[1] \in Digits
           /\ SubSeq(buffer, 2, 3) = CRLF
Size == (CHOOSE i \in DOMAIN Hex : Hex[i] = buffer[1]) - 1

\* The size line is not there yet.  On a closed connection recv returns the
\* empty string again and again, and the loop never ends: no step.
FillChunk ==
  /\ phase = "chunk" /\ ~HasSize
  /\ \E got \in Received(Limit) :
       /\ got # <<>>
       /\ buffer' = buffer \o got
       /\ Take(got)
  /\ UNCHANGED <<reader, reply, off, code, phase, te, out, attempts, leaked, claimed>>

\* Faulty variant of Missing: the forwarder counts like the HTTP client.
MissingEmptied(have) == IF Len(have) >= Size + 2 THEN 0
                        ELSE IF Len(have) < Size THEN Size + 2 - Len(have) ELSE Size + 5

\* How much is received beyond the buffer, of which have follows the size line.
Missing(have) ==
  IF Len(have) >= Size + 2 THEN 0
  ELSE IF reader = "forward" \/ Len(have) < Size THEN Size + 2 - Len(have)
  ELSE Size + 2 + 3   \* httpclient.lua:52 counts on a buffer it has emptied

NextChunk ==
  /\ phase = "chunk" /\ HasSize /\ Size > 0
  /\ LET have == Drop(buffer, 3)
         n == Missing(have)
     IN  \E got \in ReceivedAll(n) :
           /\ TakeAll(got, n)
           /\ out' = out \o SubSeq(have \o got, 1, Smaller(Size, Len(have \o got)))
           /\ buffer' = IF n = 0 THEN Drop(have, Size + 2) ELSE <<>>
  /\ UNCHANGED <<reader, reply, off, code, phase, te, attempts, leaked, claimed>>

LastChunk ==
  /\ phase = "chunk" /\ HasSize /\ Size = 0
  /\ phase' = "done"
  /\ claimed' = TRUE
  /\ UNCHANGED <<reader, reply, off, code, buffer, te, out, attempts, leaked, net>>

----------------------------------------------------------------------------
(* Requests                                                                 *)

\* prepare_fd seeks to the end of the file, and the request asks for what is
\* missing.  A server may have nothing to add, or not know of ranges.
Attempt ==
  /\ reader = "file" /\ phase \in {"idle", "done", "failed"} /\ attempts < MaxAttempts
  /\ attempts' = attempts + 1
  /\ off' = Len(out)
  /\ code' \in {200, 416} \cup (IF 0 < off' /\ off' < Len(Body) THEN {206} ELSE {})
  /\ rest' = Header(FALSE) \o (IF code' = 200 THEN Body
                              ELSE IF code' = 206 THEN Drop(Body, off') ELSE <<>>)
  /\ open' = TRUE /\ truncated' = FALSE /\ buffer' = <<>>
  /\ phase' = "status"
  /\ UNCHANGED <<reader, reply, te, out, leaked, claimed>>

Rest == /\ off = 0 /\ code = 200 /\ buffer = <<>> /\ te = FALSE /\ out = <<>>
        /\ attempts = 0 /\ truncated = FALSE /\ leaked = FALSE /\ claimed = FALSE

Init == /\ reader \in {"forward", "buffer", "file"}
        /\ reply \in Replies
        /\ open = (reader # "file")
        /\ \E chunked \in BOOLEAN :
             rest = IF reader = "file" THEN <<>>
                    ELSE Header(chunked) \o (IF chunked THEN Encoded ELSE Body)
        /\ phase = IF reader = "file" THEN "idle" ELSE "status"
        /\ Rest

\* No reply is read.
Unused == /\ reader = "none" /\ reply = NoReply /\ open = FALSE /\ rest = <<>>
          /\ phase = "none"
          /\ Rest

Read == \/ ReadLine \/ FillLine \/ NoLine \/ Flush \/ Source \/ Block
        \/ FillChunk \/ NextChunk \/ LastChunk
Next == Read \/ ReadTimesOut \/ Killed \/ Attempt \/ ServerDone \/ ServerDies

\* The kernel schedules a reader that has something to read, and a server that
\* has replied to "Connection: close" closes the connection.
Fairness == WF_vars(Read) /\ WF_vars(ServerDone)

----------------------------------------------------------------------------

TypeOK ==
  /\ reader \in {"none", "forward", "buffer", "file"}
  /\ reply \in Replies \cup {NoReply}
  /\ open \in BOOLEAN /\ (open => reader # "none")
  /\ off \in 0 .. Len(Body) /\ code \in {200, 206, 416}
  /\ phase \in {"none", "idle", "status", "headers", "flush", "source", "block",
                "chunk", "done", "failed"}
  /\ (InHeader /\ reader = "forward") => Len(buffer) <= Limit
  /\ te \in BOOLEAN /\ truncated \in BOOLEAN /\ leaked \in BOOLEAN /\ claimed \in BOOLEAN
  /\ attempts \in 0 .. MaxAttempts

\* What a reader passes on is a prefix of the body, however the reply is cut
\* into pieces and framed into chunks, over all attempts of a download; when it
\* reports the end (for a plain body: of a reply that was sent in full) it is the
\* whole body.  A reply that ends inside its header block is left out: the
\* forwarder passes the rest of that block on (socket_forwarder:127-154).
Promise == INSTANCE ByteStream
             WITH sent <- Body, out <- IF leaked THEN <<>> ELSE out, ended <- claimed
ResponseInOrder == Promise!Spec

\* The forwarder and request_to_buffer come to an end, unless a chunked reply
\* breaks off: then the chunk readers ask the closed socket for ever.
ReaderStops ==
  (reader \in {"forward", "buffer"}) => <>(phase \in {"done", "failed"} \/ (truncated /\ te))

\* The forwarder and request_to_buffer pass on the whole of a reply that is sent
\* in full without a time-out.
CompleteIsPassedOn ==
  (reader \in {"forward", "buffer"}) => <>(truncated \/ phase = "failed" \/ out = Body)
=============================================================================
