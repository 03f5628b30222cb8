------------------------------- MODULE Session -------------------------------
(***************************************************************************)
(* luci/luci-base/luasrc/sauth.lua: login sessions as files below          *)
(* /tmp/luci-sessions, read and rewritten by every CGI process.  A process *)
(* handles one request: a visit (dispatcher session_retrieve), a logout    *)
(* (a visit that then kills its session) or a login (setup: reap all       *)
(* sessions, write a new one, retrieve it).  A request that presents a     *)
(* stale cookie along with credentials is a refused visit and a login.     *)
(* Nothing locks the files: a rewrite truncates the file and fills it in   *)
(* two steps, and a file may be unlinked while another process has it open.*)
(***************************************************************************)
EXTENDS Naturals

CONSTANTS Sids,         \* session identifiers
          Procs,        \* CGI processes
          NoFile,       \* there is no such session file
          Truncated,    \* the file is there, but empty
          SessionTime,  \* luci.sauth.sessiontime, in ticks
          Stall,        \* bound: how long one request takes at most
          Horizon       \* bound: length of a behaviour in ticks

ASSUME TimesAssumption ==
  /\ {SessionTime, Stall, Horizon} \subseteq Nat
  /\ 2 * Stall < SessionTime
  /\ NoFile # Truncated
  /\ {NoFile, Truncated} \cap Nat = {}

VARIABLES
  now,      \* uptime
  stored,   \* per session, NoFile, Truncated or the atime in its file
  request,  \* the request each process handles
  used,     \* session ids drawn so far
  known,    \* session ids handed out to a browser
  refused,  \* sessions for which a request was answered "login required"
  ended,    \* sessions that were logged out
  lastUse,  \* when the owner logged in or last came back
  lapsed    \* sessions once left alone for longer than Patience

owners == <<ended, lastUse, lapsed>>
sessionVars == <<now, stored, request, used, known, refused, owners>>

Time == 0 .. Horizon
Patience == SessionTime - 2 * Stall
Expired(atime) == atime + SessionTime < now

\* A request: the next step, what it is there for, the session it works on,
\* the sessions reap has left, the id a login has drawn, when the request
\* came in, and, once it has opened a file, the time it will write there and
\* whether that file still has a name.
Labels == {"check", "load", "open", "fill", "expire", "kill", "reap"}
Jobs == {"visit", "logout", "reap", "create", "retrieve"}
Idle == [at |-> "idle"]
Requests == [at : Labels, job : Jobs, sid : Sids, scan : SUBSET Sids,
             own : Sids, since : Time, stamp : Time, linked : BOOLEAN]

SessionTypeOK ==
  /\ now \in Time
  /\ stored \in [Sids -> {NoFile, Truncated} \cup Time]
  /\ request \in [Procs -> Requests \cup {Idle}]
  /\ used \subseteq Sids /\ known \subseteq used
  /\ refused \subseteq Sids
  /\ ended \subseteq known /\ lapsed \subseteq used
  /\ lastUse \in [Sids -> Time]

SessionInit ==
  /\ now = 0
  /\ stored = [s \in Sids |-> NoFile]
  /\ request = [p \in Procs |-> Idle]
  /\ used = {} /\ known = {}
  /\ refused = {}
  /\ ended = {} /\ lapsed = {}
  /\ lastUse = [s \in Sids |-> 0]

At(p, label) == request[p] # Idle /\ request[p].at = label
Goto(p, label) == request' = [request EXCEPT ![p].at = label]
Finish(p) == request' = [request EXCEPT ![p] = Idle]
Sid(p) == request[p].sid

Incoming(at, job, s, scan) ==
  [at |-> at, job |-> job, sid |-> s, scan |-> scan, own |-> s,
   since |-> now, stamp |-> 0, linked |-> FALSE]

-----------------------------------------------------------------------------
(* Faulty variants of the steps below, one per property: each breaks it.   *)

\* A visit is served from the file without refreshing it.
LoadAliveOnly(p) ==
  /\ At(p, "load")
  /\ stored[Sid(p)] \notin {NoFile, Truncated}
  /\ ~Expired(stored[Sid(p)])
  /\ IF request[p].job = "visit"
     THEN Finish(p) /\ lastUse' = [lastUse EXCEPT ![Sid(p)] = now]
     ELSE Goto(p, "open") /\ UNCHANGED lastUse
  /\ UNCHANGED <<now, stored, used, known, refused, ended, lapsed>>

-----------------------------------------------------------------------------
(* Requests.                                                               *)

\* A browser presents the cookie of a session it was given.
Visit(p, s, job) ==
  /\ request[p] = Idle
  /\ s \in known
  /\ job \in {"visit", "logout"}
  /\ request' = [request EXCEPT ![p] = Incoming("check", job, s, {})]
  /\ UNCHANGED <<now, stored, used, known, refused, owners>>

\* setup: the password is right, a session id is drawn, reap lists the files.
Login(p, s) ==
  /\ request[p] = Idle
  /\ s \notin used
  /\ used' = used \cup {s}
  /\ LET files == {t \in Sids : stored[t] # NoFile}
     IN  request' = [request EXCEPT ![p] = Incoming("reap", "reap", s, files)]
  /\ lastUse' = [lastUse EXCEPT ![s] = now]
  /\ UNCHANGED <<now, stored, known, refused, ended, lapsed>>

\* reap reads the next file; after the last one the new session is written.
ReapNext(p, s) ==
  /\ At(p, "reap")
  /\ s \in request[p].scan
  /\ request' = [request EXCEPT ![p].scan = @ \ {s}, ![p].sid = s,
                                ![p].at = "check"]
  /\ UNCHANGED <<now, stored, used, known, refused, owners>>

ReapDone(p) ==
  /\ At(p, "reap")
  /\ request[p].scan = {}
  /\ request' = [request EXCEPT ![p].sid = request[p].own,
                                ![p].job = "create", ![p].at = "open"]
  /\ UNCHANGED <<now, stored, used, known, refused, owners>>

-----------------------------------------------------------------------------
(* read(id), by whatever request.                                          *)

\* read returned nil: reap goes on, everybody else is refused.
Absent(p) ==
  IF request[p].job = "reap" THEN Goto(p, "reap") /\ UNCHANGED refused
  ELSE Finish(p) /\ refused' = refused \cup {Sid(p)}

\* Is the file there?
CheckFile(p) ==
  /\ At(p, "check")
  /\ IF stored[Sid(p)] = NoFile THEN Absent(p)
     ELSE Goto(p, "load") /\ UNCHANGED refused
  /\ UNCHANGED <<now, stored, used, known, owners>>

Readable(s) == stored[s] \notin {NoFile, Truncated}

\* By now it is empty or gone and parses to nil, which read indexes: the
\* request dies with an error.
LoadFails(p) ==
  /\ At(p, "load")
  /\ ~Readable(Sid(p))
  /\ Finish(p)
  /\ UNCHANGED <<now, stored, used, known, refused, owners>>

LoadExpired(p) ==
  /\ At(p, "load")
  /\ Readable(Sid(p)) /\ Expired(stored[Sid(p)])
  /\ Goto(p, "expire")
  /\ UNCHANGED <<now, stored, used, known, refused, owners>>

LoadAlive(p) ==
  /\ At(p, "load")
  /\ Readable(Sid(p)) /\ ~Expired(stored[Sid(p)])
  /\ Goto(p, "open")
  /\ UNCHANGED <<now, stored, used, known, refused, owners>>

\* write(id): take the time, open the file and truncate it.
OpenFile(p) ==
  /\ At(p, "open")
  /\ request' = [request EXCEPT ![p].at = "fill", ![p].stamp = now,
                                ![p].linked = TRUE]
  /\ stored' = [stored EXCEPT ![Sid(p)] = Truncated]
  /\ UNCHANGED <<now, used, known, refused, owners>>

Later(s, t) == IF s < t THEN t ELSE s

\* What follows the write: a visit is served, a logout kills the session, a
\* reap goes on, a login retrieves the session it created and hands it out.
AfterWrite(p) ==
  LET job == request[p].job
  IN  \/ job \in {"visit", "retrieve"} /\ Finish(p)
      \/ job = "logout" /\ Goto(p, "kill")
      \/ job = "reap" /\ Goto(p, "reap")
      \/ /\ job = "create"
         /\ request' = [request EXCEPT ![p].at = "check", ![p].job = "retrieve"]

FillFile(p) ==
  /\ At(p, "fill")
  /\ stored' = IF request[p].linked
               THEN [stored EXCEPT ![Sid(p)] = request[p].stamp] ELSE stored
  /\ lastUse' = IF request[p].job = "reap" THEN lastUse
                ELSE [lastUse EXCEPT ![Sid(p)] = Later(@, request[p].since)]
  /\ known' = IF request[p].job = "retrieve" THEN known \cup {Sid(p)} ELSE known
  /\ AfterWrite(p)
  /\ UNCHANGED <<now, used, refused, ended, lapsed>>

\* kill(id), by p: whoever has the file open goes on with the unlinked one.
Unlinked(p, next) ==
  /\ stored' = [stored EXCEPT ![Sid(p)] = NoFile]
  /\ request' = [q \in Procs |->
       IF q = p THEN next
       ELSE IF At(q, "fill") /\ Sid(q) = Sid(p)
            THEN [request[q] EXCEPT !.linked = FALSE]
            ELSE request[q]]

\* read kills the session it has found expired.
Expire(p) ==
  /\ At(p, "expire")
  /\ IF request[p].job = "reap"
     THEN Unlinked(p, [request[p] EXCEPT !.at = "reap"]) /\ UNCHANGED refused
     ELSE Unlinked(p, Idle) /\ refused' = refused \cup {Sid(p)}
  /\ UNCHANGED <<now, used, known, owners>>

\* action_logout kills the session of its request.
Kill(p) ==
  /\ At(p, "kill")
  /\ Unlinked(p, Idle)
  /\ ended' = ended \cup {Sid(p)}
  /\ UNCHANGED <<now, used, known, refused, lastUse, lapsed>>

\* A second passes; no request takes longer than Stall.
Tick ==
  /\ now < Horizon
  /\ \A p \in Procs : request[p] # Idle => now < request[p].since + Stall
  /\ now' = now + 1
  /\ lapsed' = lapsed \cup {s \in used : now' > lastUse[s] + Patience}
  /\ UNCHANGED <<stored, request, used, known, refused, ended, lastUse>>

Step(p) ==
  \/ \E s \in Sids : ReapNext(p, s)
  \/ ReapDone(p)
  \/ CheckFile(p) \/ LoadFails(p) \/ LoadExpired(p) \/ LoadAlive(p)
  \/ OpenFile(p) \/ FillFile(p) \/ Expire(p) \/ Kill(p)

SessionNext ==
  \/ \E p \in Procs, s \in Sids :
       Login(p, s) \/ \E job \in {"visit", "logout"} : Visit(p, s, job)
  \/ \E p \in Procs : Step(p)
  \/ Tick

SessionSpec == SessionInit /\ [][SessionNext]_sessionVars

-----------------------------------------------------------------------------
(* Properties.                                                             *)

\* Whoever comes back often enough and has not logged out stays logged in,
\* whatever logins, logouts and visits of others go on at the same time.
RegularUseIsServed == refused \subseteq ended \cup lapsed

\* A session file that nobody is writing is complete.
WrittenFilesComplete ==
  \A s \in Sids :
    stored[s] = Truncated => \E p \in Procs : At(p, "fill") /\ Sid(p) = s

\* What a session file says is never older than the last visit by more than
\* the time a request takes, so nobody's visit is undone by a slower one.
VisitsCount ==
  \A s \in known :
    Readable(s) => stored[s] + Stall >= lastUse[s]

\* What sauth.lua says of kill: it kills the session.  A request that was
\* reading the file at the same time writes it back.
LogoutIsFinal == \A s \in ended : stored[s] = NoFile
=============================================================================
