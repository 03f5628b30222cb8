--------------------------- MODULE GatewayProofs ----------------------------
(***************************************************************************)
(* Proofs about Gateway: login sessions, for any number of processes and   *)
(* sessions, any session time and any bound on how long a request takes    *)
(* that is below half of it; uploads, for any files without the delimiter, *)
(* over any symbols, that come in any pieces; and the plug-in manager, for *)
(* any trees of directories, names and number of clicks.                   *)
(***************************************************************************)
EXTENDS Gateway, FiniteSetTheorems, WellFoundedInduction, TLAPS

-----------------------------------------------------------------------------
(* The inductive invariant of sessions.                                    *)

Gone(s) == s \in ended \cup lapsed

\* What a request has done, whatever the others did in between.
RequestOf(p) ==
  LET r == request[p] IN
  r # Idle =>
    /\ r.sid \in used /\ r.own \in used /\ r.scan \subseteq used
    /\ r.since <= now /\ now <= r.since + Stall
    /\ r.at = "kill" => r.job = "logout"
    /\ r.at = "reap" => r.job = "reap"
    /\ r.at = "fill" => r.since <= r.stamp /\ r.stamp <= now
    /\ r.at = "expire" => r.sid \in lapsed
    /\ r.job \in {"visit", "logout"} => r.sid \in known
    /\ r.job = "create" => r.at \in {"open", "fill"}
    /\ (r.job = "retrieve" \/ (r.job = "create" /\ r.at = "fill"))
         => (stored[r.sid] = NoFile => Gone(r.sid))

\* What a session file says of its session.
SessionOf(s) ==
  /\ stored[s] # NoFile => s \in used
  /\ lastUse[s] <= now
  /\ (s \in used /\ lastUse[s] + Patience < now) => s \in lapsed
  /\ stored[s] = Truncated =>
       \E p \in Procs : At(p, "fill") /\ Sid(p) = s /\ request[p].linked
  /\ Readable(s) => lastUse[s] <= stored[s] + Stall
  /\ (s \in known /\ stored[s] = NoFile) => Gone(s)

\* A process that writes to a file without a name has taken its time before
\* whoever created the file that has the name now.
Overtaken(p) ==
  (At(p, "fill") /\ ~request[p].linked) =>
    /\ Readable(Sid(p)) => request[p].stamp <= stored[Sid(p)]
    /\ \A q \in Procs : (At(q, "fill") /\ Sid(q) = Sid(p) /\ request[q].linked)
                           => request[p].stamp <= request[q].stamp

SessionInv ==
  /\ SessionTypeOK
  /\ \A p \in Procs : RequestOf(p) /\ Overtaken(p)
  /\ \A s \in Sids : SessionOf(s)
  /\ RegularUseIsServed

LEMMA RequestsAreBusy == \A r \in Requests : r # Idle /\ r.at \in Labels
BY DEF Requests, Idle, Labels

LEMMA SessionStart == SessionInit => SessionInv
BY TimesAssumption, RequestsAreBusy
DEF SessionInit, SessionInv, SessionTypeOK, RequestOf, Overtaken, SessionOf,
    RegularUseIsServed, At, Readable, Gone, Time, Patience

\* A step of p that neither ends at a file being written nor starts there and
\* leaves the files and the owners alone.
LEMMA QuietStep ==
  ASSUME SessionInv, NEW p \in Procs, ~At(p, "fill"), ~At(p, "fill")',
         \A q \in Procs : q # p => request'[q] = request[q],
         request' \in [Procs -> Requests \cup {Idle}],
         UNCHANGED <<now, stored, used, known, owners>>,
         RequestOf(p)',
         refused' \subseteq Sids, RegularUseIsServed'
  PROVE  SessionInv'
<1>. USE DEF SessionInv, owners
<1>1. SessionTypeOK'
  BY DEF SessionTypeOK
<1>2. ASSUME NEW q \in Procs
      PROVE  RequestOf(q)' /\ Overtaken(q)'
  <2>1. RequestOf(q)'
    BY DEF RequestOf, Gone
  <2>2. Overtaken(q)'
    BY DEF Overtaken, At, Sid, Readable
  <2>. QED
    BY <2>1, <2>2
<1>3. ASSUME NEW s \in Sids
      PROVE  SessionOf(s)'
  BY DEF SessionOf, At, Sid, Readable, Gone
<1>. QED
  BY <1>1, <1>2, <1>3

\* A request that goes on with the same session.
LEMMA GoesOn ==
  ASSUME NEW p \in Procs, RequestOf(p), request[p] # Idle, NEW r,
         request'[p] = r, r.at \notin {"kill", "fill"},
         r.at = "reap" => r.job = "reap",
         r.at = "expire" => r.sid \in lapsed,
         r.job = "create" => r.at = "open",
         r.sid = request[p].sid, r.own = request[p].own, r.scan = request[p].scan,
         r.job = request[p].job, r.since = request[p].since,
         UNCHANGED <<now, stored, used, known, ended, lapsed>>
  PROVE  RequestOf(p)'
BY DEF RequestOf, Gone

\* The steps that only read.
LEMMA QuietSteps ==
  ASSUME SessionInv, NEW p \in Procs,
         \/ \E s \in Sids, job \in {"visit", "logout"} : Visit(p, s, job)
         \/ \E s \in Sids : ReapNext(p, s)
         \/ ReapDone(p) \/ CheckFile(p)
         \/ LoadFails(p) \/ LoadExpired(p) \/ LoadAlive(p)
  PROVE  SessionInv'
<1>. USE RequestsAreBusy, TimesAssumption DEF SessionInv, SessionTypeOK, At, Sid, Goto, Finish
<1>1. RequestOf(p) /\ request[p] \in Requests \cup {Idle}
  OBVIOUS
<1>2. ASSUME NEW s \in Sids, NEW job \in {"visit", "logout"}, Visit(p, s, job)
      PROVE  SessionInv'
  <2>. DEFINE r == Incoming("check", job, s, {})
  <2>1. r \in Requests /\ r.at = "check" /\ r.job = job /\ r.sid = s /\ r.own = s
        /\ r.scan = {} /\ r.since = now
    BY <1>2 DEF Incoming, Requests, Labels, Jobs, Time
  <2>2. request' = [request EXCEPT ![p] = r] /\ s \in known
        /\ UNCHANGED <<now, stored, used, known, refused, owners>> /\ request[p] = Idle
    BY <1>2 DEF Visit
  <2>. HIDE DEF r
  <2>3. RequestOf(p)'
    BY <2>1, <2>2 DEF RequestOf, owners, Time
  <2>. QED
    BY <2>1, <2>2, <2>3, QuietStep DEF owners, RegularUseIsServed
<1>3. ASSUME NEW s \in Sids, ReapNext(p, s)
      PROVE  SessionInv'
  <2>. DEFINE r == [request[p] EXCEPT !.scan = @ \ {s}, !.sid = s, !.at = "check"]
  <2>1. request[p] \in Requests /\ request[p].at = "reap" /\ s \in request[p].scan
    BY <1>3 DEF ReapNext, Idle
  <2>2. /\ r \in Requests /\ r.at = "check" /\ r.sid = s
        /\ r.scan = request[p].scan \ {s}
        /\ r.job = request[p].job /\ r.own = request[p].own /\ r.since = request[p].since
    BY <2>1 DEF Requests, Labels
  <2>3. request' = [request EXCEPT ![p] = r]
        /\ UNCHANGED <<now, stored, used, known, refused, owners>>
    BY <1>3 DEF ReapNext
  <2>. HIDE DEF r
  <2>4. RequestOf(p)'
    BY <1>1, <2>1, <2>2, <2>3 DEF RequestOf, owners
  <2>. QED
    BY <2>1, <2>2, <2>3, <2>4, QuietStep DEF owners, RegularUseIsServed
<1>4. CASE ReapDone(p)
  <2>. DEFINE r == [request[p] EXCEPT !.sid = request[p].own, !.job = "create", !.at = "open"]
  <2>1. request[p] \in Requests /\ request[p].at = "reap"
    BY <1>4 DEF ReapDone, Idle
  <2>2. /\ r \in Requests /\ r.at = "open" /\ r.sid = request[p].own /\ r.job = "create"
        /\ r.scan = request[p].scan /\ r.own = request[p].own /\ r.since = request[p].since
    BY <2>1 DEF Requests, Labels, Jobs
  <2>3. request' = [request EXCEPT ![p] = r]
        /\ UNCHANGED <<now, stored, used, known, refused, owners>>
    BY <1>4 DEF ReapDone
  <2>. HIDE DEF r
  <2>4. RequestOf(p)'
    BY <1>1, <2>1, <2>2, <2>3 DEF RequestOf, owners
  <2>. QED
    BY <2>1, <2>2, <2>3, <2>4, QuietStep DEF owners, RegularUseIsServed
\* To go on at a label without touching anything else.
<1>5. ASSUME NEW label \in Labels, request[p] # Idle, ~At(p, "fill"), label # "fill",
             Goto(p, label), UNCHANGED <<now, stored, used, known, refused, owners>>,
             label # "kill",
             label = "expire" => request[p].sid \in lapsed,
             label = "reap" => request[p].job = "reap",
             request[p].job = "create" => label = "open"
      PROVE  SessionInv'
  <2>. DEFINE r == [request[p] EXCEPT !.at = label]
  <2>1. request[p] \in Requests
    BY <1>5
  <2>2. /\ r \in Requests /\ r.at = label /\ r.sid = request[p].sid /\ r.job = request[p].job
        /\ r.scan = request[p].scan /\ r.own = request[p].own /\ r.since = request[p].since
    BY <2>1 DEF Requests
  <2>3. request' = [request EXCEPT ![p] = r]
    BY <1>5
  <2>. HIDE DEF r
  <2>4. RequestOf(p)'
    <3>1. request'[p] = r
      BY <2>3
    <3>. QED
      BY <1>1, <1>5, <2>2, <3>1, GoesOn DEF owners
  <2>. QED
    BY <1>5, <2>1, <2>2, <2>3, <2>4, QuietStep DEF owners, RegularUseIsServed
\* A request that ends.
<1>6. ASSUME ~At(p, "fill"), Finish(p), UNCHANGED <<now, stored, used, known, owners>>,
             refused' \subseteq Sids, RegularUseIsServed'
      PROVE  SessionInv'
  BY <1>6, QuietStep DEF RequestOf, owners
<1>7. CASE CheckFile(p)
  <2>1. request[p] \in Requests /\ request[p].at = "check" /\ request[p] # Idle
    BY <1>7 DEF CheckFile
  <2>2. CASE stored[Sid(p)] # NoFile
    BY <1>1, <1>5, <1>7, <2>1, <2>2 DEF CheckFile, Labels, RequestOf
  <2>3. CASE stored[Sid(p)] = NoFile /\ request[p].job = "reap"
    BY <1>1, <1>5, <1>7, <2>1, <2>3 DEF CheckFile, Absent, Labels
  <2>4. CASE stored[Sid(p)] = NoFile /\ request[p].job # "reap"
    <3>1. request[p].sid \in Sids /\ request[p].job \in Jobs
      BY <2>1 DEF Requests
    <3>2. Gone(request[p].sid)
      BY <1>1, <2>1, <2>4, <3>1 DEF RequestOf, SessionOf, Jobs
    <3>3. /\ Finish(p) /\ refused' = refused \cup {Sid(p)}
          /\ UNCHANGED <<now, stored, used, known, owners>>
      BY <1>7, <2>4 DEF CheckFile, Absent
    <3>4. RegularUseIsServed' /\ refused' \subseteq Sids
      BY <3>1, <3>2, <3>3 DEF RegularUseIsServed, Gone, owners
    <3>. QED
      BY <1>6, <2>1, <3>3, <3>4
  <2>. QED
    BY <2>2, <2>3, <2>4
<1>8. CASE LoadFails(p)
  BY <1>6, <1>8 DEF LoadFails, RegularUseIsServed, owners
<1>9. CASE LoadAlive(p)
  <2>1. request[p] \in Requests /\ request[p].at = "load" /\ request[p] # Idle
    BY <1>9 DEF LoadAlive
  <2>. QED
    BY <1>1, <1>5, <1>9, <2>1 DEF LoadAlive, Labels, RequestOf
\* What has expired has been left alone for longer than Patience.
<1>10. CASE LoadExpired(p)
  <2>1. request[p] \in Requests /\ request[p].at = "load" /\ request[p] # Idle
    BY <1>10 DEF LoadExpired
  <2>4. request[p].sid \in Sids /\ request[p].sid \in used
    BY <1>1, <2>1 DEF Requests, RequestOf
  <2>5. request[p].sid \in lapsed
    <3>1. Readable(request[p].sid) /\ stored[request[p].sid] + SessionTime < now
      BY <1>10 DEF LoadExpired, Expired
    <3>2. stored[request[p].sid] \in Nat /\ lastUse[request[p].sid] \in Nat /\ now \in Nat
      BY <2>4, <3>1 DEF Readable, Time
    <3>3. lastUse[request[p].sid] + Patience < now
      BY <2>4, <3>1, <3>2 DEF SessionOf, Patience
    <3>. QED
      BY <2>4, <3>3 DEF SessionOf
  <2>. QED
    BY <1>1, <1>5, <1>10, <2>1, <2>5 DEF LoadExpired, Labels, RequestOf
<1>. QED
  BY <1>2, <1>3, <1>4, <1>7, <1>8, <1>9, <1>10

LEMMA LoginStep ==
  ASSUME SessionInv, NEW p \in Procs, NEW s \in Sids, Login(p, s)
  PROVE  SessionInv'
<1>. USE RequestsAreBusy, TimesAssumption DEF SessionInv, SessionTypeOK, At, Sid
<1>. DEFINE files == {t \in Sids : stored[t] # NoFile}
            r == Incoming("reap", "reap", s, files)
<1>1. /\ r \in Requests /\ r.at = "reap" /\ r.job = "reap" /\ r.sid = s /\ r.own = s
      /\ r.scan = files /\ r.since = now
  BY DEF Incoming, Requests, Labels, Jobs, Time
<1>2. files \subseteq used
  BY DEF SessionOf
<1>3. /\ request' = [request EXCEPT ![p] = r] /\ request[p] = Idle
      /\ s \notin used /\ used' = used \cup {s}
      /\ lastUse' = [lastUse EXCEPT ![s] = now]
      /\ UNCHANGED <<now, stored, known, refused, ended, lapsed>>
  BY DEF Login
<1>. HIDE DEF r, files
<1>4. SessionTypeOK'
  BY <1>1, <1>3
<1>5. ASSUME NEW q \in Procs
      PROVE  RequestOf(q)' /\ Overtaken(q)'
  <2>1. RequestOf(q)'
    <3>1. CASE q = p
      BY <1>1, <1>2, <1>3, <3>1 DEF RequestOf, Gone, Time
    <3>2. CASE q # p
      <4>1. RequestOf(q) /\ request'[q] = request[q]
        BY <1>3, <3>2
      <4>. QED
        BY <1>3, <4>1 DEF RequestOf, Gone
    <3>. QED
      BY <3>1, <3>2
  <2>2. Overtaken(q)'
    BY <1>1, <1>3 DEF Overtaken, Readable
  <2>. QED
    BY <2>1, <2>2
<1>6. ASSUME NEW t \in Sids
      PROVE  SessionOf(t)'
  <2>1. SessionOf(t) /\ stored'[t] = stored[t] /\ now' = now
    BY <1>3
  <2>2. CASE t = s
    <3>1. stored[t] = NoFile /\ lastUse'[t] = now /\ t \notin known'
      BY <1>3, <2>1, <2>2 DEF SessionOf
    <3>. QED
      BY <1>3, <2>1, <3>1 DEF SessionOf, Readable, Patience, Time
  <2>3. CASE t # s
    <3>1. lastUse'[t] = lastUse[t] /\ (t \in used' <=> t \in used)
      BY <1>3, <2>3
    <3>2. \A q \in Procs : At(q, "fill") => request'[q] = request[q]
      BY <1>3
    <3>. QED
      BY <1>3, <2>1, <3>1, <3>2 DEF SessionOf, Readable, Gone
  <2>. QED
    BY <2>2, <2>3
<1>7. RegularUseIsServed'
  BY <1>3 DEF RegularUseIsServed
<1>. QED
  BY <1>4, <1>5, <1>6, <1>7

LEMMA OpenFileStep ==
  ASSUME SessionInv, NEW p \in Procs, OpenFile(p)
  PROVE  SessionInv'
<1>. USE RequestsAreBusy, TimesAssumption DEF SessionInv, SessionTypeOK, At, Sid
<1>. DEFINE r == [request[p] EXCEPT !.at = "fill", !.stamp = now, !.linked = TRUE]
            s == request[p].sid
<1>1. request[p] \in Requests /\ request[p].at = "open" /\ RequestOf(p) /\ now \in Time
  BY DEF OpenFile
<1>2. /\ r \in Requests /\ r.at = "fill" /\ r.stamp = now /\ r.linked = TRUE
      /\ r.sid = s /\ r.own = request[p].own /\ r.scan = request[p].scan
      /\ r.job = request[p].job /\ r.since = request[p].since /\ s \in Sids
  BY <1>1 DEF Requests, Labels
<1>3. /\ request' = [request EXCEPT ![p] = r]
      /\ stored' = [stored EXCEPT ![s] = Truncated]
      /\ UNCHANGED <<now, used, known, refused, owners>>
  BY DEF OpenFile
<1>. HIDE DEF r, s
<1>4. SessionTypeOK'
  BY <1>2, <1>3 DEF owners
<1>5. request'[p] = r /\ \A q \in Procs : q # p => request'[q] = request[q]
  BY <1>3
<1>6. stored'[s] = Truncated /\ \A t \in Sids : t # s => stored'[t] = stored[t]
  BY <1>2, <1>3
<1>7. ASSUME NEW q \in Procs
      PROVE  RequestOf(q)' /\ Overtaken(q)'
  <2>1. RequestOf(q)'
    <3>1. CASE q = p
      BY <1>1, <1>2, <1>3, <1>5, <1>6, <3>1 DEF RequestOf, s, Requests, owners, Time
    <3>2. CASE q # p
      <4>1. RequestOf(q) /\ request'[q] = request[q]
        BY <1>5, <3>2
      <4>2. request[q] # Idle => request[q].sid \in Sids
        BY DEF Requests
      <4>. QED
        BY <1>3, <1>6, <4>1, <4>2 DEF RequestOf, Gone, owners
    <3>. QED
      BY <3>1, <3>2
  <2>2. Overtaken(q)'
    <3>. SUFFICES ASSUME request'[q] # Idle, request'[q].at = "fill", ~request'[q].linked
                  PROVE  Overtaken(q)'
      BY DEF Overtaken
    <3>1. q # p /\ request'[q] = request[q] /\ request[q] # Idle
      BY <1>2, <1>5
    <3>2. request[q].stamp \in Nat /\ request[q].stamp <= now /\ request[q].sid \in Sids
      BY <3>1 DEF RequestOf, Requests, Time
    <3>3. Overtaken(q)
      OBVIOUS
    <3>. QED
      BY <1>2, <1>5, <1>6, <3>1, <3>2, <3>3 DEF Overtaken, Readable
  <2>. QED
    BY <2>1, <2>2
<1>8. ASSUME NEW t \in Sids
      PROVE  SessionOf(t)'
  <2>1. CASE t = s
    BY <1>1, <1>2, <1>3, <1>5, <1>6, <2>1 DEF SessionOf, RequestOf, Readable, s, owners
  <2>2. CASE t # s
    <3>1. SessionOf(t) /\ stored'[t] = stored[t]
      BY <1>6, <2>2
    <3>2. \A q \in Procs : At(q, "fill") => request'[q] = request[q]
      BY <1>1, <1>5
    <3>. QED
      BY <1>3, <3>1, <3>2 DEF SessionOf, Readable, Gone, owners
  <2>. QED
    BY <2>1, <2>2
<1>9. RegularUseIsServed'
  BY <1>3 DEF RegularUseIsServed, owners
<1>. QED
  BY <1>4, <1>7, <1>8, <1>9

LEMMA FillFileStep ==
  ASSUME SessionInv, NEW p \in Procs, FillFile(p)
  PROVE  SessionInv'
<1>. USE RequestsAreBusy, TimesAssumption DEF SessionInv, SessionTypeOK, At, Sid
<1>. DEFINE r == request[p]
            s == request[p].sid
<1>1. r \in Requests /\ r.at = "fill" /\ RequestOf(p) /\ Overtaken(p) /\ r # Idle
  BY DEF FillFile
<1>2. /\ s \in Sids /\ r.stamp \in Time /\ r.since \in Time /\ r.stamp \in Nat
      /\ r.since \in Nat /\ now \in Nat /\ r.job \in Jobs
  BY <1>1 DEF Requests, Time
<1>3. /\ stored' = IF r.linked THEN [stored EXCEPT ![s] = r.stamp] ELSE stored
      /\ lastUse' = IF r.job = "reap" THEN lastUse
                    ELSE [lastUse EXCEPT ![s] = Later(@, r.since)]
      /\ known' = IF r.job = "retrieve" THEN known \cup {s} ELSE known
      /\ AfterWrite(p)
      /\ UNCHANGED <<now, used, refused, ended, lapsed>>
  BY DEF FillFile
\* What becomes of the request.
<1>4. /\ request' \in [Procs -> Requests \cup {Idle}]
      /\ \A q \in Procs : q # p => request'[q] = request[q]
      /\ \/ request'[p] = Idle
         \/ r.job = "logout" /\ request'[p] = [r EXCEPT !.at = "kill"]
         \/ r.job = "reap" /\ request'[p] = [r EXCEPT !.at = "reap"]
         \/ r.job = "create" /\ request'[p] = [r EXCEPT !.at = "check", !.job = "retrieve"]
  <2>1. \E x \in Requests \cup {Idle} :
          /\ request' = [request EXCEPT ![p] = x]
          /\ \/ x = Idle
             \/ r.job = "logout" /\ x = [r EXCEPT !.at = "kill"]
             \/ r.job = "reap" /\ x = [r EXCEPT !.at = "reap"]
             \/ r.job = "create" /\ x = [r EXCEPT !.at = "check", !.job = "retrieve"]
    <3>1. /\ [r EXCEPT !.at = "kill"] \in Requests /\ [r EXCEPT !.at = "reap"] \in Requests
          /\ [r EXCEPT !.at = "check", !.job = "retrieve"] \in Requests
      BY <1>1 DEF Requests, Labels, Jobs
    <3>. QED
      BY <1>3, <3>1 DEF AfterWrite, Finish, Goto
  <2>. QED
    BY <2>1
<1>5. request'[p] = Idle \/
        /\ request'[p].sid = s /\ request'[p].own = r.own /\ request'[p].scan = r.scan
        /\ request'[p].since = r.since
        /\ \/ r.job = "logout" /\ request'[p].job = "logout" /\ request'[p].at = "kill"
           \/ r.job = "reap" /\ request'[p].job = "reap" /\ request'[p].at = "reap"
           \/ r.job = "create" /\ request'[p].job = "retrieve" /\ request'[p].at = "check"
  BY <1>1, <1>4 DEF Requests
\* What becomes of the file.
<1>6. /\ \A t \in Sids : t # s => stored'[t] = stored[t] /\ lastUse'[t] = lastUse[t]
      /\ r.linked => stored'[s] = r.stamp
      /\ ~r.linked => stored'[s] = stored[s]
      /\ lastUse'[s] = lastUse[s] \/ (lastUse'[s] = r.since /\ lastUse[s] <= r.since)
      /\ lastUse[s] \in Nat
  <2>1. lastUse[s] \in Nat
    BY <1>2 DEF Time
  <2>2. lastUse'[s] = lastUse[s] \/ (lastUse'[s] = r.since /\ lastUse[s] <= r.since)
    BY <1>2, <1>3, <2>1 DEF Later
  <2>. QED
    BY <1>2, <1>3, <2>1, <2>2
<1>. HIDE DEF r, s
<1>7. SessionTypeOK'
  <2>1. stored' \in [Sids -> {NoFile, Truncated} \cup Time]
    BY <1>2, <1>3
  <2>2. lastUse' \in [Sids -> Time]
    <3>1. Later(lastUse[s], r.since) \in Time
      BY <1>2 DEF Later
    <3>. QED
      BY <1>2, <1>3, <3>1
  <2>3. s \in used
    BY <1>1 DEF RequestOf, r, s
  <2>. QED
    BY <1>3, <1>4, <2>1, <2>2, <2>3
<1>8. ASSUME NEW q \in Procs
      PROVE  RequestOf(q)' /\ Overtaken(q)'
  <2>0. \A t \in Sids : stored'[t] = NoFile => stored[t] = NoFile
    BY <1>2, <1>6
  <2>1. RequestOf(q)'
    <3>1. CASE q = p
      <4>1. SUFFICES ASSUME request'[p] # Idle PROVE RequestOf(p)'
        BY <3>1 DEF RequestOf
      <4>. QED
        BY <1>1, <1>2, <1>3, <1>5, <2>0, <4>1 DEF RequestOf, r, s, Gone
    <3>2. CASE q # p
      <4>1. RequestOf(q) /\ request'[q] = request[q]
        BY <1>4, <3>2
      <4>2. request[q] # Idle => request[q].sid \in Sids
        BY DEF Requests
      <4>. QED
        BY <1>3, <2>0, <4>1, <4>2 DEF RequestOf, Gone
    <3>. QED
      BY <3>1, <3>2
  <2>2. Overtaken(q)'
    <3>. SUFFICES ASSUME request'[q] # Idle, request'[q].at = "fill", ~request'[q].linked
                  PROVE  Overtaken(q)'
      BY DEF Overtaken
    <3>1. q # p /\ request'[q] = request[q]
      BY <1>4, <1>5
    <3>2. \A o \in Procs : request'[o] # Idle /\ request'[o].at = "fill" => request'[o] = request[o]
      BY <1>4, <1>5
    <3>3. Overtaken(q) /\ request[q] \in Requests
      BY <3>1
    <3>4. request[q].sid \in Sids
      BY <3>3 DEF Requests
    <3>. QED
      BY <1>1, <1>6, <3>1, <3>2, <3>3, <3>4 DEF Overtaken, Readable, r, s
  <2>. QED
    BY <2>1, <2>2
<1>9. ASSUME NEW t \in Sids
      PROVE  SessionOf(t)'
  <2>0. \A q \in Procs : At(q, "fill") /\ q # p => request'[q] = request[q]
    BY <1>4
  <2>1. CASE t = s
    <3>0. SessionOf(s)
      BY <1>2
    <3>1. s \in used /\ r.since <= r.stamp /\ r.stamp <= now /\ now <= r.since + Stall
      BY <1>1 DEF RequestOf, r, s
    <3>2. /\ lastUse'[s] \in Nat /\ lastUse[s] <= lastUse'[s] /\ lastUse'[s] <= now
      BY <1>2, <1>6, <3>0, <3>1 DEF SessionOf
    <3>3. (s \in used' /\ lastUse'[s] + Patience < now') => s \in lapsed'
      BY <1>2, <1>3, <1>6, <3>0, <3>2 DEF SessionOf, Patience
    <3>4. stored[s] \in {NoFile, Truncated} \/ stored[s] \in Nat
      BY <1>2 DEF Time
    <3>5. CASE r.linked
      <4>1. stored'[s] = r.stamp /\ stored'[s] \notin {NoFile, Truncated}
        BY <1>2, <1>6, <3>5
      <4>2. lastUse'[s] <= stored'[s] + Stall
        BY <1>2, <3>1, <3>2, <4>1
      <4>. QED
        BY <1>3, <2>1, <3>1, <3>2, <3>3, <4>1, <4>2 DEF SessionOf, Readable
    <3>6. CASE ~r.linked
      <4>1. stored'[s] = stored[s]
        BY <1>6, <3>6
      <4>2. stored'[s] = Truncated =>
              \E q \in Procs : At(q, "fill")' /\ Sid(q)' = s /\ request'[q].linked
        BY <2>0, <3>0, <3>6, <4>1 DEF SessionOf, r
      <4>3. Readable(t)' => lastUse'[s] <= stored'[s] + Stall
        <5>1. SUFFICES ASSUME Readable(t)' PROVE lastUse'[s] <= stored'[s] + Stall
          OBVIOUS
        <5>2. Readable(s) /\ stored[s] \in Nat
          BY <2>1, <3>4, <4>1, <5>1 DEF Readable
        <5>3. r.stamp <= stored[s]
          BY <1>1, <3>6, <5>2 DEF Overtaken, r, s
        <5>. QED
          BY <1>2, <1>6, <3>0, <3>1, <4>1, <5>2, <5>3 DEF SessionOf
      <4>4. (s \in known' /\ stored'[s] = NoFile) => Gone(t)'
        <5>1. s \in known' => s \in known \/ r.job = "retrieve"
          BY <1>3
        <5>2. r.job = "retrieve" /\ stored[s] = NoFile => Gone(s)
          BY <1>1 DEF RequestOf, r, s
        <5>3. s \in known /\ stored[s] = NoFile => Gone(s)
          BY <3>0 DEF SessionOf
        <5>4. Gone(t)' <=> Gone(s)
          BY <1>3, <2>1 DEF Gone
        <5>. QED
          BY <4>1, <5>1, <5>2, <5>3, <5>4
      <4>. QED
        BY <1>3, <2>1, <3>1, <3>2, <3>3, <4>2, <4>3, <4>4 DEF SessionOf
    <3>. QED
      BY <3>5, <3>6
  <2>2. CASE t # s
    <3>1. SessionOf(t) /\ stored'[t] = stored[t] /\ lastUse'[t] = lastUse[t]
      BY <1>6, <2>2
    <3>2. t \in known' => t \in known
      BY <1>3, <2>2
    <3>. QED
      BY <1>3, <2>0, <2>2, <3>1, <3>2 DEF SessionOf, Readable, Gone, s
  <2>. QED
    BY <2>1, <2>2
<1>10. RegularUseIsServed'
  BY <1>3 DEF RegularUseIsServed
<1>. QED
  BY <1>7, <1>8, <1>9, <1>10

\* A session file is removed only when its session was logged out or has been
\* left alone for too long.
LEMMA UnlinkStep ==
  ASSUME SessionInv, NEW p \in Procs, Expire(p) \/ Kill(p)
  PROVE  SessionInv'
<1>. USE RequestsAreBusy, TimesAssumption DEF SessionInv, SessionTypeOK, At, Sid
<1>. DEFINE r == request[p]
            s == request[p].sid
            written(q) == q # p /\ At(q, "fill") /\ Sid(q) = s
<1>1. r \in Requests /\ r.at \in {"expire", "kill"} /\ RequestOf(p) /\ r # Idle
  BY DEF Expire, Kill
<1>2. s \in Sids /\ [r EXCEPT !.at = "reap"] \in Requests
  BY <1>1 DEF Requests, Labels
<1>3. PICK next \in {Idle, [r EXCEPT !.at = "reap"]} :
        /\ next = Idle \/ (r.at = "expire" /\ r.job = "reap")
        /\ Unlinked(p, next)
  BY DEF Expire, Kill
<1>4. /\ r.at = "expire" => s \in lapsed
      /\ r.at = "kill" => s \in known /\ s \in ended'
  BY <1>1 DEF RequestOf, Kill, Expire
<1>5. /\ UNCHANGED <<now, used, known, lastUse, lapsed>>
      /\ ended' = ended \/ (ended' = ended \cup {s} /\ s \in known)
      /\ refused' = refused \/ refused' = refused \cup {s}
      /\ s \in ended' \cup lapsed'
  BY <1>1, <1>4 DEF Expire, Kill, owners
<1>6. /\ stored'[s] = NoFile
      /\ \A t \in Sids : t # s => stored'[t] = stored[t]
      /\ stored' \in [Sids -> {NoFile, Truncated} \cup Time]
  BY <1>2, <1>3 DEF Unlinked
<1>7. /\ request'[p] = next
      /\ \A q \in Procs : ~written(q) /\ q # p => request'[q] = request[q]
      /\ \A q \in Procs : written(q) => request'[q] = [request[q] EXCEPT !.linked = FALSE]
  BY <1>3 DEF Unlinked
<1>8. \A q \in Procs : q # p /\ request[q] # Idle =>
        /\ request'[q].sid = request[q].sid /\ request'[q].own = request[q].own
        /\ request'[q].scan = request[q].scan /\ request'[q].job = request[q].job
        /\ request'[q].at = request[q].at /\ request'[q].since = request[q].since
        /\ request'[q].stamp = request[q].stamp
        /\ request'[q].sid = s /\ request'[q].at = "fill" => request'[q].linked = FALSE
        /\ request'[q].sid # s => request'[q].linked = request[q].linked
  <2>. SUFFICES ASSUME NEW q \in Procs, q # p, request[q] # Idle
                PROVE  /\ request'[q].sid = request[q].sid /\ request'[q].own = request[q].own
                       /\ request'[q].scan = request[q].scan /\ request'[q].job = request[q].job
                       /\ request'[q].at = request[q].at /\ request'[q].since = request[q].since
                       /\ request'[q].stamp = request[q].stamp
                       /\ request'[q].sid = s /\ request'[q].at = "fill" => request'[q].linked = FALSE
                       /\ request'[q].sid # s => request'[q].linked = request[q].linked
    OBVIOUS
  <2>1. request[q] \in Requests
    OBVIOUS
  <2>2. CASE written(q)
    <3>1. request'[q] = [request[q] EXCEPT !.linked = FALSE]
      BY <1>7, <2>2
    <3>2. request[q].sid = s
      BY <2>2
    <3>. QED
      BY <2>1, <3>1, <3>2 DEF Requests
  <2>3. CASE ~written(q)
    BY <1>7, <2>3
  <2>. QED
    BY <2>2, <2>3
<1>9. \A q \in Procs : q # p => (request'[q] = Idle <=> request[q] = Idle)
  <2>. SUFFICES ASSUME NEW q \in Procs, q # p
                PROVE  request'[q] = Idle <=> request[q] = Idle
    OBVIOUS
  <2>1. CASE written(q)
    <3>1. request[q] \in Requests
      BY <2>1
    <3>2. [request[q] EXCEPT !.linked = FALSE] \in Requests
      BY <3>1 DEF Requests
    <3>. QED
      BY <1>7, <2>1, <3>2
  <2>2. CASE ~written(q)
    BY <1>7, <2>2
  <2>. QED
    BY <2>1, <2>2
<1>10. request' \in [Procs -> Requests \cup {Idle}]
  <2>1. \A q \in Procs : written(q) => [request[q] EXCEPT !.linked = FALSE] \in Requests
    BY DEF Requests
  <2>2. request' = [q \in Procs |-> IF q = p THEN next
                      ELSE IF written(q) THEN [request[q] EXCEPT !.linked = FALSE]
                                         ELSE request[q]]
    BY <1>3 DEF Unlinked
  <2>. HIDE DEF written
  <2>. QED
    BY <1>2, <1>3, <2>1, <2>2 DEF r
<1>11. next = Idle \/
         /\ next.sid = s /\ next.own = r.own /\ next.scan = r.scan /\ next.job = "reap"
         /\ next.at = "reap" /\ next.since = r.since
  BY <1>1, <1>3 DEF Requests
<1>. HIDE DEF r, s, written
<1>12. SessionTypeOK'
  BY <1>2, <1>5, <1>6, <1>10
<1>13. ASSUME NEW q \in Procs
       PROVE  RequestOf(q)' /\ Overtaken(q)'
  <2>1. RequestOf(q)'
    <3>1. CASE q = p
      BY <1>1, <1>5, <1>7, <1>11, <3>1 DEF RequestOf, r, s
    <3>2. CASE q # p
      <4>1. SUFFICES ASSUME request[q] # Idle PROVE RequestOf(q)'
        BY <1>9, <3>2 DEF RequestOf
      <4>2. RequestOf(q) /\ request[q].sid \in Sids
        BY <4>1 DEF Requests
      <4>3. stored'[request[q].sid] = NoFile =>
              stored[request[q].sid] = NoFile \/ request[q].sid = s
        BY <1>6, <4>2
      <4>. QED
        BY <1>5, <1>8, <3>2, <4>1, <4>2, <4>3 DEF RequestOf, Gone
    <3>. QED
      BY <3>1, <3>2
  <2>2. Overtaken(q)'
    <3>. SUFFICES ASSUME request'[q] # Idle, request'[q].at = "fill", ~request'[q].linked
                  PROVE  Overtaken(q)'
      BY DEF Overtaken
    <3>1. q # p /\ request[q] # Idle /\ request[q].sid \in Sids
      <4>1. q # p
        BY <1>7, <1>11
      <4>. QED
        BY <1>9, <4>1 DEF Requests
    <3>2. CASE request'[q].sid = s
      <4>1. \A o \in Procs : (request'[o] # Idle /\ request'[o].at = "fill" /\ request'[o].sid = s)
                               => ~request'[o].linked
        BY <1>7, <1>8, <1>9, <1>11
      <4>. QED
        BY <1>6, <3>2, <4>1 DEF Overtaken, Readable
    <3>3. CASE request'[q].sid # s
      <4>1. \A o \in Procs : (request'[o] # Idle /\ request'[o].at = "fill" /\ request'[o].sid # s)
              => /\ request[o] # Idle /\ request[o].at = "fill" /\ request[o].sid = request'[o].sid
                 /\ request[o].stamp = request'[o].stamp /\ request[o].linked = request'[o].linked
        BY <1>7, <1>8, <1>9, <1>11
      <4>2. Overtaken(q)
        OBVIOUS
      <4>. QED
        BY <1>6, <1>8, <3>1, <3>3, <4>1, <4>2 DEF Overtaken, Readable
    <3>. QED
      BY <3>2, <3>3
  <2>. QED
    BY <2>1, <2>2
<1>14. ASSUME NEW t \in Sids
       PROVE  SessionOf(t)'
  <2>1. SessionOf(t)
    OBVIOUS
  <2>2. CASE t = s
    BY <1>5, <1>6, <2>1, <2>2 DEF SessionOf, Readable, Gone
  <2>3. CASE t # s
    <3>1. \A o \in Procs : (request[o] # Idle /\ request[o].at = "fill" /\ request[o].sid # s)
            => /\ request'[o] # Idle /\ request'[o].at = "fill" /\ request[o].sid = request'[o].sid
               /\ request[o].linked = request'[o].linked
      BY <1>1, <1>8, <1>9 DEF r
    <3>2. stored'[t] = stored[t]
      BY <1>6, <2>3
    <3>. QED
      BY <1>5, <2>1, <2>3, <3>1, <3>2 DEF SessionOf, Readable, Gone
  <2>. QED
    BY <2>2, <2>3
<1>15. RegularUseIsServed'
  BY <1>5 DEF RegularUseIsServed
<1>. QED
  BY <1>12, <1>13, <1>14, <1>15

LEMMA TickStep == SessionInv /\ Tick => SessionInv'
<1>. SUFFICES ASSUME SessionInv, Tick PROVE SessionInv'
  OBVIOUS
<1>. USE RequestsAreBusy, TimesAssumption DEF SessionInv, SessionTypeOK, At, Sid
<1>1. /\ now < Horizon /\ now' = now + 1 /\ now \in Nat
      /\ \A p \in Procs : request[p] # Idle => now < request[p].since + Stall
      /\ lapsed' = lapsed \cup {s \in used : now + 1 > lastUse[s] + Patience}
      /\ UNCHANGED <<stored, request, used, known, refused, ended, lastUse>>
  BY DEF Tick, Time
<1>2. SessionTypeOK'
  BY <1>1 DEF Time
<1>3. ASSUME NEW p \in Procs
      PROVE  RequestOf(p)' /\ Overtaken(p)'
  <2>1. RequestOf(p)'
    <3>. SUFFICES ASSUME request[p] # Idle PROVE RequestOf(p)'
      BY <1>1 DEF RequestOf
    <3>1. RequestOf(p) /\ request[p].since \in Nat /\ request[p].stamp \in Nat
      BY DEF Requests, Time
    <3>. QED
      BY <1>1, <3>1 DEF RequestOf, Gone
  <2>2. Overtaken(p)'
    BY <1>1 DEF Overtaken, Readable
  <2>. QED
    BY <2>1, <2>2
<1>4. ASSUME NEW s \in Sids
      PROVE  SessionOf(s)'
  <2>1. SessionOf(s) /\ lastUse[s] \in Nat
    BY DEF Time
  <2>. QED
    BY <1>1, <2>1 DEF SessionOf, Readable, Gone
<1>5. RegularUseIsServed'
  BY <1>1 DEF RegularUseIsServed
<1>. QED
  BY <1>2, <1>3, <1>4, <1>5

LEMMA SessionStep == SessionInv /\ [SessionNext]_sessionVars => SessionInv'
<1>. SUFFICES ASSUME SessionInv, [SessionNext]_sessionVars PROVE SessionInv'
  OBVIOUS
<1>1. CASE UNCHANGED sessionVars
  BY <1>1 DEF sessionVars, owners, SessionInv, SessionTypeOK, RequestOf, Overtaken,
              SessionOf, RegularUseIsServed, At, Sid, Readable, Gone
<1>2. CASE SessionNext
  BY <1>2, QuietSteps, LoginStep, OpenFileStep, FillFileStep, UnlinkStep, TickStep
  DEF SessionNext, Step
<1>. QED
  BY <1>1, <1>2

LEMMA SessionsKept == SessionSpec => []SessionInv
BY SessionStart, SessionStep, PTL DEF SessionSpec

-----------------------------------------------------------------------------
(* Gateway.                                                                *)

LEMMA SessionInvHolds ==
  SessionInv => /\ SessionTypeOK
                /\ RegularUseIsServed
                /\ WrittenFilesComplete
                /\ VisitsCount
BY DEF SessionInv, SessionOf, SessionTypeOK, WrittenFilesComplete, VisitsCount

\* Whoever comes back often enough and has not logged out is never sent back
\* to the login page, a file that nobody is writing is complete, and no visit
\* is undone by a slower one: whatever any number of visits, logouts, logins
\* and reaps that sauth.lua runs do to the session files at the same time.
THEOREM SessionsStayAlive == Spec => []SessionsHold
<1>. DEFINE PartInv == part = "sessions" => SessionInv
<1>1. Init => PartInv
  BY SessionStart DEF Init
<1>2. PartInv /\ [Next]_vars => PartInv'
  <2>. SUFFICES ASSUME SessionInv, part = "sessions", [Next]_vars PROVE SessionInv'
    BY DEF Next, vars
  <2>1. [SessionNext]_sessionVars
    BY DEF Next, vars
  <2>. QED
    BY <2>1, SessionStep
<1>3. PartInv => SessionsHold
  BY SessionInvHolds DEF SessionsHold
<1>. HIDE DEF PartInv
<1>. QED
  BY <1>1, <1>2, <1>3, PTL DEF Spec
-----------------------------------------------------------------------------
(* An upload: what is sent.                                                *)

R == Multipart!Request(file)
Symbols == Bytes \cup {"-", "B", "cr", "lf", "content", "disp", "type", "mime", ":", "space",
                       "form", "quote", "s1", "s2", "n1", "n2"} \cup Multipart!Parts

\* r is s, of length n, with t, of length m, after it.
Joined(s, n, t, m, r) ==
  /\ r \in Seq(Symbols) /\ Len(r) = n + m
  /\ \A i \in 1 .. n : r[i] = s[i]
  /\ \A i \in 1 .. m : r[n + i] = t[i]

LEMMA Concat == \A s, t \in Seq(Symbols) : Joined(s, Len(s), t, Len(t), s \o t)
BY DEF Joined

LEMMA Literals ==
  /\ {"-", "B", "cr", "lf", "content", "disp", "type", "mime", ":", "space",
      "form", "quote", "s1", "s2", "n1", "n2"} \subseteq Symbols
  /\ Multipart!Parts \subseteq Symbols
BY DEF Symbols

LEMMA Tuples ==
  /\ \A y, z \in Symbols :
       LET s == <<y, z>> IN s \in Seq(Symbols) /\ Len(s) = 2 /\ s[1] = y /\ s[2] = z
  /\ \A x, y, z \in Symbols :
       LET s == <<x, y, z>>
       IN s \in Seq(Symbols) /\ Len(s) = 3 /\ s[1] = x /\ s[2] = y /\ s[3] = z
  /\ \A v, w, x, y, z \in Symbols :
       LET s == <<v, w, x, y, z>>
       IN /\ s \in Seq(Symbols) /\ Len(s) = 5
          /\ s[1] = v /\ s[2] = w /\ s[3] = x /\ s[4] = y /\ s[5] = z
  /\ \A u, v, w, x, y, z \in Symbols :
       LET s == <<u, v, w, x, y, z>>
       IN /\ s \in Seq(Symbols) /\ Len(s) = 6
          /\ s[1] = u /\ s[2] = v /\ s[3] = w /\ s[4] = x /\ s[5] = y /\ s[6] = z
OBVIOUS

LEMMA Pieces ==
  /\ Multipart!CRLF \in Seq(Symbols) /\ Len(Multipart!CRLF) = 2
  /\ Multipart!CRLF[1] = "cr" /\ Multipart!CRLF[2] = "lf"
  /\ Multipart!Boundary \in Seq(Symbols) /\ Len(Multipart!Boundary) = 2
  /\ Multipart!Boundary[1] = "-" /\ Multipart!Boundary[2] = "B"
  /\ Multipart!Disposition \in Seq(Symbols) /\ Len(Multipart!Disposition) = 3
  /\ Multipart!Disposition[1] = "content" /\ Multipart!Disposition[2] = "-"
  /\ Multipart!Disposition[3] = "disp"
  /\ Multipart!Sid \in Seq(Symbols) /\ Len(Multipart!Sid) = 2
  /\ Multipart!Sid[1] = "s1" /\ Multipart!Sid[2] = "s2"
  /\ Multipart!Path \in Seq(Symbols) /\ Len(Multipart!Path) = 2
  /\ Multipart!Path[1] = "n1" /\ Multipart!Path[2] = "n2"
  /\ LET hyphens == <<"-", "-">>
     IN hyphens \in Seq(Symbols) /\ Len(hyphens) = 2 /\ hyphens[1] = "-" /\ hyphens[2] = "-"
<1>1. /\ Multipart!CRLF \in Seq(Symbols) /\ Len(Multipart!CRLF) = 2
      /\ Multipart!CRLF[1] = "cr" /\ Multipart!CRLF[2] = "lf"
  BY Tuples, Literals DEF Multipart!CRLF
<1>2. /\ Multipart!Boundary \in Seq(Symbols) /\ Len(Multipart!Boundary) = 2
      /\ Multipart!Boundary[1] = "-" /\ Multipart!Boundary[2] = "B"
  BY Tuples, Literals DEF Multipart!Boundary
<1>3. /\ Multipart!Disposition \in Seq(Symbols) /\ Len(Multipart!Disposition) = 3
      /\ Multipart!Disposition[1] = "content" /\ Multipart!Disposition[2] = "-"
      /\ Multipart!Disposition[3] = "disp"
  BY Tuples, Literals DEF Multipart!Disposition
<1>4. /\ Multipart!Sid \in Seq(Symbols) /\ Len(Multipart!Sid) = 2
      /\ Multipart!Sid[1] = "s1" /\ Multipart!Sid[2] = "s2"
  BY Tuples, Literals DEF Multipart!Sid
<1>5. /\ Multipart!Path \in Seq(Symbols) /\ Len(Multipart!Path) = 2
      /\ Multipart!Path[1] = "n1" /\ Multipart!Path[2] = "n2"
  BY Tuples, Literals DEF Multipart!Path
<1>6. LET hyphens == <<"-", "-">>
      IN hyphens \in Seq(Symbols) /\ Len(hyphens) = 2 /\ hyphens[1] = "-" /\ hyphens[2] = "-"
  BY Tuples, Literals
<1>. QED
  BY <1>1, <1>2, <1>3, <1>4, <1>5, <1>6

\* p is a part of the request, of which x symbols come before the data.
IsPart(name, data, x, p) ==
  /\ p \in Seq(Symbols) /\ Len(p) = x + Len(data) + 2
  /\ p[1] = "-" /\ p[2] = "B" /\ p[3] = "cr" /\ p[4] = "lf"
  /\ p[5] = "content" /\ p[6] = "-" /\ p[7] = "disp" /\ p[8] = ":" /\ p[9] = "space"
  /\ p[10] = "form" /\ p[11] = name /\ p[12] = "quote" /\ p[13] = "cr" /\ p[14] = "lf"
  /\ name = "filedata" => /\ p[15] = "content" /\ p[16] = "-" /\ p[17] = "type"
                          /\ p[18] = ":" /\ p[19] = "space" /\ p[20] = "mime"
                          /\ p[21] = "cr" /\ p[22] = "lf"
  /\ p[x - 1] = "cr" /\ p[x] = "lf"
  /\ \A i \in 1 .. Len(data) : p[x + i] = data[i]
  /\ p[x + Len(data) + 1] = "cr" /\ p[x + Len(data) + 2] = "lf"

LEMMA PartIs ==
  ASSUME NEW name \in Multipart!Parts, NEW data \in Seq(Symbols)
  PROVE  IsPart(name, data, IF name = "filedata" THEN 24 ELSE 16, Multipart!Part(name, data))
<1>. DEFINE a == Multipart!Boundary \o Multipart!CRLF
            b == a \o Multipart!Disposition
            v == <<":", "space", "form", name, "quote">> \o Multipart!CRLF
            c == b \o v
            t == <<"content", "-", "type", ":", "space", "mime">> \o Multipart!CRLF
            e == IF name = "filedata" THEN t ELSE <<>>
            d == c \o e
            f == d \o Multipart!CRLF
            g == f \o data
            p == g \o Multipart!CRLF
<1>. DEFINE x == IF name = "filedata" THEN 24 ELSE 16
<1>1. a \in Seq(Symbols) /\ Len(a) = 4 /\ a[1] = "-" /\ a[2] = "B" /\ a[3] = "cr" /\ a[4] = "lf"
  <2>2. Joined(Multipart!Boundary, 2, Multipart!CRLF, 2, a)
    BY Pieces, Concat
  <2>. QED
    BY Pieces, <2>2 DEF Joined
<1>. HIDE DEF a
<1>2. /\ b \in Seq(Symbols) /\ Len(b) = 7 /\ \A i \in 1 .. 4 : b[i] = a[i]
      /\ b[5] = "content" /\ b[6] = "-" /\ b[7] = "disp"
  <2>2. Joined(a, 4, Multipart!Disposition, 3, b)
    BY <1>1, Pieces, Concat
  <2>. HIDE DEF b
  <2>. QED
    BY <1>1, Pieces, <2>2 DEF Joined
<1>. HIDE DEF b
<1>3. /\ v \in Seq(Symbols) /\ Len(v) = 7
      /\ v[1] = ":" /\ v[2] = "space" /\ v[3] = "form" /\ v[4] = name /\ v[5] = "quote"
      /\ v[6] = "cr" /\ v[7] = "lf"
  <2>. DEFINE w == <<":", "space", "form", name, "quote">>
  <2>1. /\ w \in Seq(Symbols) /\ Len(w) = 5
        /\ w[1] = ":" /\ w[2] = "space" /\ w[3] = "form" /\ w[4] = name /\ w[5] = "quote"
    BY Tuples, Literals
  <2>2. Joined(w, 5, Multipart!CRLF, 2, v)
    <3>. HIDE DEF w
    <3>1. v = w \o Multipart!CRLF
      BY DEF w
    <3>. QED
      BY Pieces, <2>1, <3>1, Concat
  <2>. HIDE DEF w, v
  <2>3. /\ v \in Seq(Symbols) /\ Len(v) = 5 + 2 /\ \A i \in 1 .. 5 : v[i] = w[i]
        /\ \A i \in 1 .. 2 : v[5 + i] = Multipart!CRLF[i]
    BY Pieces, <2>1, <2>2 DEF Joined
  <2>4. v[5 + 1] = "cr" /\ v[5 + 2] = "lf"
    BY Pieces, <2>3
  <2>5. v[6] = "cr" /\ v[7] = "lf"
    BY <2>4
  <2>7. v \in Seq(Symbols) /\ Len(v) = 7
    BY <2>3
  <2>6. v[1] = w[1] /\ v[2] = w[2] /\ v[3] = w[3] /\ v[4] = w[4] /\ v[5] = w[5]
    BY <2>3
  <2>. QED
    BY <2>1, <2>5, <2>6, <2>7
<1>. HIDE DEF v
<1>4. /\ c \in Seq(Symbols) /\ Len(c) = 14 /\ \A i \in 1 .. 7 : c[i] = b[i]
      /\ \A i \in 1 .. 7 : c[7 + i] = v[i]
  <2>1. Joined(b, 7, v, 7, c)
    BY <1>2, <1>3, Concat
  <2>. HIDE DEF c
  <2>2. /\ c \in Seq(Symbols) /\ Len(c) = 7 + 7 /\ \A i \in 1 .. 7 : c[i] = b[i]
        /\ \A i \in 1 .. 7 : c[7 + i] = v[i]
    BY <1>2, <1>3, <2>1 DEF Joined
  <2>. QED
    BY <2>2
<1>. HIDE DEF c
<1>5. /\ t \in Seq(Symbols) /\ Len(t) = 8
      /\ t[1] = "content" /\ t[2] = "-" /\ t[3] = "type" /\ t[4] = ":" /\ t[5] = "space"
      /\ t[6] = "mime" /\ t[7] = "cr" /\ t[8] = "lf"
  <2>. DEFINE w == <<"content", "-", "type", ":", "space", "mime">>
  <2>1. /\ w \in Seq(Symbols) /\ Len(w) = 6
        /\ w[1] = "content" /\ w[2] = "-" /\ w[3] = "type" /\ w[4] = ":" /\ w[5] = "space"
        /\ w[6] = "mime"
    BY Tuples, Literals
  <2>2. Joined(w, 6, Multipart!CRLF, 2, t)
    <3>. HIDE DEF w
    <3>1. t = w \o Multipart!CRLF
      BY DEF w
    <3>. QED
      BY Pieces, <2>1, <3>1, Concat
  <2>. HIDE DEF w, t
  <2>3. /\ t \in Seq(Symbols) /\ Len(t) = 6 + 2 /\ \A i \in 1 .. 6 : t[i] = w[i]
        /\ \A i \in 1 .. 2 : t[6 + i] = Multipart!CRLF[i]
    BY Pieces, <2>1, <2>2 DEF Joined
  <2>4. t[6 + 1] = "cr" /\ t[6 + 2] = "lf"
    BY Pieces, <2>3
  <2>5. t[7] = "cr" /\ t[8] = "lf"
    BY <2>4
  <2>7. t \in Seq(Symbols) /\ Len(t) = 8
    BY <2>3
  <2>6. t[1] = w[1] /\ t[2] = w[2] /\ t[3] = w[3] /\ t[4] = w[4] /\ t[5] = w[5] /\ t[6] = w[6]
    BY <2>3
  <2>. QED
    BY <2>1, <2>5, <2>6, <2>7
<1>. HIDE DEF t
<1>6. e \in Seq(Symbols) /\ Len(e) = x - 16 /\ (name = "filedata" => e = t)
  <2>1. CASE name = "filedata"
    <3>1. e = t /\ x = 24
      BY <2>1
    <3>. HIDE DEF e, x
    <3>2. x - 16 = 8
      BY <3>1
    <3>. QED
      BY <1>5, <3>1, <3>2
  <2>2. CASE name # "filedata"
    BY <2>2
  <2>. QED
    BY <2>1, <2>2
<1>7. x \in {16, 24} /\ Len(data) \in Nat /\ (name = "filedata" <=> x = 24)
  OBVIOUS
<1>8. p = Multipart!Part(name, data)
  BY DEF Multipart!Part, Multipart!Value, a, b, c, v, t
<1>. HIDE DEF e, x
<1>9. /\ d \in Seq(Symbols) /\ Len(d) = x - 2 /\ \A i \in 1 .. 14 : d[i] = c[i]
      /\ name = "filedata" => \A i \in 1 .. 8 : d[14 + i] = t[i]
  <2>1. Joined(c, 14, e, x - 16, d)
    BY <1>4, <1>6, Concat
  <2>. HIDE DEF d
  <2>2. Len(e) = x - 16 /\ Len(c) = 14
    BY <1>4, <1>6
  <2>3. x - 16 \in Nat /\ 14 + (x - 16) = x - 2 /\ (name = "filedata" => x - 16 = 8)
    BY <1>7
  <2>4. /\ d \in Seq(Symbols) /\ Len(d) = 14 + (x - 16) /\ \A i \in 1 .. 14 : d[i] = c[i]
        /\ \A i \in 1 .. x - 16 : d[14 + i] = e[i]
    BY <2>1, <2>2, <2>3 DEF Joined
  <2>. QED
    BY <1>6, <2>3, <2>4
<1>. HIDE DEF d
<1>a. /\ f \in Seq(Symbols) /\ Len(f) = x /\ \A i \in 1 .. x - 2 : f[i] = d[i]
      /\ f[x - 1] = "cr" /\ f[x] = "lf"
  <2>1. Joined(d, x - 2, Multipart!CRLF, 2, f)
    BY Pieces, <1>9, Concat
  <2>. HIDE DEF f
  <2>. QED
    BY Pieces, <1>7, <1>9, <2>1 DEF Joined
<1>. HIDE DEF f
<1>b. /\ g \in Seq(Symbols) /\ Len(g) = x + Len(data) /\ \A i \in 1 .. x : g[i] = f[i]
      /\ \A i \in 1 .. Len(data) : g[x + i] = data[i]
  <2>1. Joined(f, x, data, Len(data), g)
    BY <1>a, Concat
  <2>. HIDE DEF g
  <2>2. \A i \in 1 .. Len(data) : x + i \in x + 1 .. x + Len(data) /\ (x + i) - x = i
    BY <1>7
  <2>. QED
    BY <1>7, <1>a, <2>1, <2>2 DEF Joined
<1>. HIDE DEF g
<1>c. /\ p \in Seq(Symbols) /\ Len(p) = x + Len(data) + 2
      /\ \A i \in 1 .. x + Len(data) : p[i] = g[i]
      /\ p[x + Len(data) + 1] = "cr" /\ p[x + Len(data) + 2] = "lf"
  <2>1. Joined(g, x + Len(data), Multipart!CRLF, 2, p)
    BY Pieces, <1>b, Concat
  <2>. HIDE DEF p
  <2>. QED
    BY Pieces, <1>7, <1>b, <2>1 DEF Joined
<1>. HIDE DEF p
<1>d. \A i \in 1 .. x : p[i] = f[i]
  BY <1>7, <1>b, <1>c
<1>e. \A i \in 1 .. x - 2 : p[i] = d[i]
  BY <1>7, <1>a, <1>d
<1>f. \A i \in 1 .. 14 : p[i] = c[i]
  <2>1. \A i \in 1 .. 14 : i \in 1 .. x - 2
    BY <1>7
  <2>. QED
    BY <1>9, <1>e, <2>1
<1>g. name = "filedata" => \A i \in 1 .. 8 : p[14 + i] = t[i]
  <2>1. x = 24 => \A i \in 1 .. 8 : 14 + i \in 1 .. x - 2
    OBVIOUS
  <2>. QED
    BY <1>7, <1>9, <1>e, <2>1
<1>h. (\A i \in 1 .. 7 : p[i] = b[i]) /\ (\A i \in 1 .. 7 : p[7 + i] = v[i])
  <2>1. \A i \in 1 .. 7 : i \in 1 .. 14 /\ 7 + i \in 1 .. 14
    OBVIOUS
  <2>. QED
    BY <1>4, <1>f, <2>1
<1>i. p[x - 1] = "cr" /\ p[x] = "lf"
  BY <1>7, <1>a, <1>d
<1>j. \A i \in 1 .. Len(data) : p[x + i] = data[i]
  BY <1>7, <1>b, <1>c
<1>k. /\ p[1] = "-" /\ p[2] = "B" /\ p[3] = "cr" /\ p[4] = "lf"
      /\ p[5] = "content" /\ p[6] = "-" /\ p[7] = "disp"
  <2>1. \A i \in 1 .. 4 : p[i] = a[i]
    BY <1>2, <1>h
  <2>2. p[1] = a[1] /\ p[2] = a[2] /\ p[3] = a[3] /\ p[4] = a[4] /\ p[5] = b[5] /\ p[6] = b[6] /\ p[7] = b[7]
    BY <1>h, <2>1
  <2>. QED
    BY <1>1, <1>2, <2>2
<1>l. /\ p[8] = ":" /\ p[9] = "space" /\ p[10] = "form" /\ p[11] = name /\ p[12] = "quote"
      /\ p[13] = "cr" /\ p[14] = "lf"
  <2>1. /\ p[7 + 1] = v[1] /\ p[7 + 2] = v[2] /\ p[7 + 3] = v[3] /\ p[7 + 4] = v[4]
        /\ p[7 + 5] = v[5] /\ p[7 + 6] = v[6] /\ p[7 + 7] = v[7]
    BY <1>h
  <2>2. /\ p[8] = v[1] /\ p[9] = v[2] /\ p[10] = v[3] /\ p[11] = v[4] /\ p[12] = v[5]
        /\ p[13] = v[6] /\ p[14] = v[7]
    BY <2>1
  <2>. QED
    BY <1>3, <2>2
<1>m. name = "filedata" => /\ p[15] = "content" /\ p[16] = "-" /\ p[17] = "type"
                           /\ p[18] = ":" /\ p[19] = "space" /\ p[20] = "mime"
                           /\ p[21] = "cr" /\ p[22] = "lf"
  <2>1. name = "filedata" =>
          /\ p[14 + 1] = t[1] /\ p[14 + 2] = t[2] /\ p[14 + 3] = t[3] /\ p[14 + 4] = t[4]
          /\ p[14 + 5] = t[5] /\ p[14 + 6] = t[6] /\ p[14 + 7] = t[7] /\ p[14 + 8] = t[8]
    BY <1>g
  <2>2. name = "filedata" =>
          /\ p[15] = t[1] /\ p[16] = t[2] /\ p[17] = t[3] /\ p[18] = t[4]
          /\ p[19] = t[5] /\ p[20] = t[6] /\ p[21] = t[7] /\ p[22] = t[8]
    BY <2>1
  <2>. QED
    BY <1>5, <2>2
<1>n. IsPart(name, data, x, p)
  BY <1>c, <1>i, <1>j, <1>k, <1>l, <1>m DEF IsPart
<1>. QED
  BY <1>8, <1>n DEF x

\* The symbols before the file, and those after it.
Opening(r) ==
  /\ r[1] = "-" /\ r[2] = "B" /\ r[3] = "cr" /\ r[4] = "lf"
  /\ r[5] = "content" /\ r[6] = "-" /\ r[7] = "disp" /\ r[8] = ":"
  /\ r[9] = "space" /\ r[10] = "form" /\ r[11] = "sessionid" /\ r[12] = "quote"
  /\ r[13] = "cr" /\ r[14] = "lf" /\ r[15] = "cr" /\ r[16] = "lf"
  /\ r[17] = "s1" /\ r[18] = "s2" /\ r[19] = "cr" /\ r[20] = "lf"
  /\ r[21] = "-" /\ r[22] = "B" /\ r[23] = "cr" /\ r[24] = "lf"
  /\ r[25] = "content" /\ r[26] = "-" /\ r[27] = "disp" /\ r[28] = ":"
  /\ r[29] = "space" /\ r[30] = "form" /\ r[31] = "filename" /\ r[32] = "quote"
  /\ r[33] = "cr" /\ r[34] = "lf" /\ r[35] = "cr" /\ r[36] = "lf"
  /\ r[37] = "n1" /\ r[38] = "n2" /\ r[39] = "cr" /\ r[40] = "lf"
  /\ r[41] = "-" /\ r[42] = "B" /\ r[43] = "cr" /\ r[44] = "lf"
  /\ r[45] = "content" /\ r[46] = "-" /\ r[47] = "disp" /\ r[48] = ":"
  /\ r[49] = "space" /\ r[50] = "form" /\ r[51] = "filedata" /\ r[52] = "quote"
  /\ r[53] = "cr" /\ r[54] = "lf" /\ r[55] = "content" /\ r[56] = "-"
  /\ r[57] = "type" /\ r[58] = ":" /\ r[59] = "space" /\ r[60] = "mime"
  /\ r[61] = "cr" /\ r[62] = "lf" /\ r[63] = "cr" /\ r[64] = "lf"

Closing(r, n) ==
  /\ r[n + 65] = "cr" /\ r[n + 66] = "lf" /\ r[n + 67] = "-" /\ r[n + 68] = "B"
  /\ r[n + 69] = "-" /\ r[n + 70] = "-" /\ r[n + 71] = "cr" /\ r[n + 72] = "lf"

LEMMA SeqGrows ==
  ASSUME NEW S, NEW T, S \subseteq T
  PROVE  \A q \in Seq(S) : q \in Seq(T)
OBVIOUS

LEMMA RequestIs ==
  ASSUME NEW f \in Seq(Bytes)
  PROVE  LET r == Multipart!Request(f) IN
         /\ r \in Seq(Symbols) /\ Len(r) = Len(f) + 72
         /\ Opening(r) /\ Closing(r, Len(f))
         /\ \A i \in 1 .. Len(f) : r[64 + i] = f[i]
<1>. DEFINE p1 == Multipart!Part("sessionid", Multipart!Sid)
            p2 == Multipart!Part("filename", Multipart!Path)
            p3 == Multipart!Part("filedata", f)
            a == p1 \o p2
            b == a \o p3
            c == b \o Multipart!Boundary
            hyphens == <<"-", "-">>
            d == c \o hyphens
            r == d \o Multipart!CRLF
<1>0. f \in Seq(Symbols) /\ Len(f) \in Nat
  <2>1. Bytes \subseteq Symbols
    BY DEF Symbols
  <2>. QED
    BY <2>1, SeqGrows
<1>1. hyphens \in Seq(Symbols) /\ Len(hyphens) = 2 /\ hyphens[1] = "-" /\ hyphens[2] = "-"
  BY Pieces
<1>. HIDE DEF hyphens
<1>6. /\ IsPart("sessionid", Multipart!Sid, 16, p1)
      /\ IsPart("filename", Multipart!Path, 16, p2)
      /\ IsPart("filedata", f, 24, p3)
  <2>1. {"sessionid", "filename", "filedata"} \subseteq Multipart!Parts
    BY DEF Multipart!Parts
  <2>2. \A name \in Multipart!Parts : \A data \in Seq(Symbols) :
          IsPart(name, data, IF name = "filedata" THEN 24 ELSE 16, Multipart!Part(name, data))
    BY PartIs
  <2>. QED
    BY <1>0, Pieces, <2>1, <2>2
<1>. HIDE DEF p1, p2, p3
<1>7. /\ p1 \in Seq(Symbols) /\ Len(p1) = 20 /\ p2 \in Seq(Symbols) /\ Len(p2) = 20
      /\ p3 \in Seq(Symbols) /\ Len(p3) = Len(f) + 26
  <2>1. /\ p1 \in Seq(Symbols) /\ Len(p1) = 16 + 2 + 2 /\ p2 \in Seq(Symbols) /\ Len(p2) = 16 + 2 + 2
        /\ p3 \in Seq(Symbols) /\ Len(p3) = 24 + Len(f) + 2
    BY Pieces, <1>6 DEF IsPart
  <2>2. 24 + Len(f) + 2 = Len(f) + 26
    BY <1>0
  <2>. QED
    BY <2>1, <2>2
<1>8. Joined(p1, 20, p2, 20, a)
  BY <1>7, Concat
<1>. HIDE DEF a
<1>9. a \in Seq(Symbols) /\ Len(a) = 40
  BY <1>8 DEF Joined
<1>a. Joined(a, 40, p3, Len(f) + 26, b)
  BY <1>7, <1>9, Concat
<1>. HIDE DEF b
<1>b. b \in Seq(Symbols) /\ Len(b) = Len(f) + 66
  BY <1>0, <1>a DEF Joined
<1>c. Joined(b, Len(f) + 66, Multipart!Boundary, 2, c)
  BY Pieces, <1>b, Concat
<1>. HIDE DEF c
<1>d. c \in Seq(Symbols) /\ Len(c) = Len(f) + 68
  BY <1>0, <1>c DEF Joined
<1>e. Joined(c, Len(f) + 68, hyphens, 2, d)
  BY <1>1, <1>d, Concat
<1>. HIDE DEF d
<1>f. d \in Seq(Symbols) /\ Len(d) = Len(f) + 70
  BY <1>0, <1>e DEF Joined
<1>g. Joined(d, Len(f) + 70, Multipart!CRLF, 2, r)
  BY Pieces, <1>f, Concat
<1>h. r = Multipart!Request(f)
  BY DEF Multipart!Request, a, b, c, d, p1, p2, p3, hyphens
<1>. HIDE DEF r
<1>. DEFINE n == Len(f)
<1>i. n \in Nat
  BY <1>0
<1>. HIDE DEF n
<1>j. r \in Seq(Symbols) /\ Len(r) = n + 72
  BY <1>g, <1>i DEF Joined, n
<1>k. /\ \A i \in 1 .. 20 : r[i] = p1[i] /\ r[20 + i] = p2[i]
      /\ \A i \in 1 .. n + 26 : r[40 + i] = p3[i]
      /\ \A i \in 1 .. 2 : r[n + 66 + i] = Multipart!Boundary[i]
      /\ \A i \in 1 .. 2 : r[n + 68 + i] = hyphens[i]
      /\ \A i \in 1 .. 2 : r[n + 70 + i] = Multipart!CRLF[i]
  <2>1. /\ \A i \in 1 .. n + 66 : r[i] = b[i]
        /\ \A i \in 1 .. 2 : r[n + 66 + i] = Multipart!Boundary[i]
        /\ \A i \in 1 .. 2 : r[n + 68 + i] = hyphens[i]
        /\ \A i \in 1 .. 2 : r[n + 70 + i] = Multipart!CRLF[i]
    <3>1. /\ \A i \in 1 .. n + 66 : c[i] = b[i]
          /\ \A i \in 1 .. 2 : c[n + 66 + i] = Multipart!Boundary[i]
      BY <1>c DEF Joined, n
    <3>2. /\ \A i \in 1 .. n + 68 : d[i] = c[i]
          /\ \A i \in 1 .. 2 : d[n + 68 + i] = hyphens[i]
      BY <1>e DEF Joined, n
    <3>3. /\ \A i \in 1 .. n + 70 : r[i] = d[i]
          /\ \A i \in 1 .. 2 : r[n + 70 + i] = Multipart!CRLF[i]
      BY <1>g DEF Joined, n
    <3>4. /\ \A i \in 1 .. n + 66 : i \in 1 .. n + 68 /\ i \in 1 .. n + 70
          /\ \A i \in 1 .. 2 : /\ n + 66 + i \in 1 .. n + 68 /\ n + 66 + i \in 1 .. n + 70
                              /\ n + 68 + i \in 1 .. n + 70
      BY <1>i
    <3>. QED
      BY <3>1, <3>2, <3>3, <3>4
  <2>2. /\ \A i \in 1 .. 40 : b[i] = a[i]
        /\ \A i \in 1 .. n + 26 : b[40 + i] = p3[i]
        /\ \A i \in 1 .. 20 : a[i] = p1[i]
        /\ \A i \in 1 .. 20 : a[20 + i] = p2[i]
    BY <1>8, <1>a, <1>i DEF Joined, n
  <2>3. /\ \A i \in 1 .. 20 : i \in 1 .. 40 /\ 20 + i \in 1 .. 40 /\ i \in 1 .. n + 66 /\ 20 + i \in 1 .. n + 66
        /\ \A i \in 1 .. n + 26 : 40 + i \in 1 .. n + 66
    BY <1>i
  <2>4. \A i \in 1 .. 20 : r[i] = p1[i] /\ r[20 + i] = p2[i]
    <3>1. ASSUME NEW i \in 1 .. 20
          PROVE  r[i] = p1[i] /\ r[20 + i] = p2[i]
      <4>1. r[i] = b[i] /\ r[20 + i] = b[20 + i]
        BY <2>1, <2>3
      <4>2. b[i] = a[i] /\ b[20 + i] = a[20 + i]
        BY <2>2, <2>3
      <4>. QED
        BY <2>2, <4>1, <4>2
    <3>. QED
      BY <3>1
  <2>5. \A i \in 1 .. n + 26 : r[40 + i] = p3[i]
    BY <2>1, <2>2, <2>3
  <2>. QED
    BY <2>1, <2>4, <2>5
<1>l. /\ \A i \in 1 .. n : r[64 + i] = f[i]
      /\ r[n + 65] = "cr" /\ r[n + 66] = "lf"
  <2>1. /\ \A i \in 1 .. n : p3[24 + i] = f[i]
        /\ p3[24 + n + 1] = "cr" /\ p3[24 + n + 2] = "lf"
    BY <1>6 DEF IsPart, n
  <2>2. /\ \A i \in 1 .. n : 24 + i \in 1 .. n + 26 /\ 40 + (24 + i) = 64 + i
        /\ 24 + n + 1 \in 1 .. n + 26 /\ 24 + n + 2 \in 1 .. n + 26
        /\ 40 + (24 + n + 1) = n + 65 /\ 40 + (24 + n + 2) = n + 66
    BY <1>i
  <2>3. \A i \in 1 .. n : r[64 + i] = r[40 + (24 + i)] /\ r[40 + (24 + i)] = p3[24 + i]
    BY <1>k, <2>2
  <2>4. r[40 + (24 + n + 1)] = p3[24 + n + 1] /\ r[40 + (24 + n + 2)] = p3[24 + n + 2]
    BY <1>k, <2>2
  <2>. QED
    BY <2>1, <2>2, <2>3, <2>4
<1>m. Closing(r, n)
  <2>1. /\ r[n + 66 + 1] = "-" /\ r[n + 66 + 2] = "B" /\ r[n + 68 + 1] = "-"
        /\ r[n + 68 + 2] = "-" /\ r[n + 70 + 1] = "cr" /\ r[n + 70 + 2] = "lf"
    BY <1>1, <1>k, Pieces
  <2>2. /\ n + 66 + 1 = n + 67 /\ n + 66 + 2 = n + 68 /\ n + 68 + 1 = n + 69
        /\ n + 68 + 2 = n + 70 /\ n + 70 + 1 = n + 71 /\ n + 70 + 2 = n + 72
    BY <1>i
  <2>. QED
    BY <1>l, <2>1, <2>2 DEF Closing
<1>o. Opening(r)
  <2>1. /\ \A i \in 1 .. 20 : r[i] = p1[i]
        /\ \A i \in 1 .. 20 : r[20 + i] = p2[i]
        /\ \A i \in 1 .. 24 : r[40 + i] = p3[i]
    <3>1. \A i \in 1 .. 24 : i \in 1 .. n + 26
      BY <1>i
    <3>. QED
      BY <1>k, <3>1
  <2>2. /\ p1[17] = "s1" /\ p1[18] = "s2" /\ p1[15] = "cr" /\ p1[16] = "lf"
        /\ p1[19] = "cr" /\ p1[20] = "lf"
    <3>0. /\ p1[16 - 1] = "cr" /\ p1[16] = "lf"
          /\ \A i \in 1 .. Len(Multipart!Sid) : p1[16 + i] = Multipart!Sid[i]
          /\ p1[16 + Len(Multipart!Sid) + 1] = "cr" /\ p1[16 + Len(Multipart!Sid) + 2] = "lf"
      BY <1>6 DEF IsPart
    <3>1. /\ p1[16 - 1] = "cr" /\ p1[16] = "lf" /\ \A i \in 1 .. 2 : p1[16 + i] = Multipart!Sid[i]
          /\ p1[16 + 2 + 1] = "cr" /\ p1[16 + 2 + 2] = "lf"
      BY <3>0, Pieces
    <3>2. p1[16 + 1] = "s1" /\ p1[16 + 2] = "s2"
      BY <3>1, Pieces
    <3>. QED
      BY <3>1, <3>2
  <2>3. /\ p2[17] = "n1" /\ p2[18] = "n2" /\ p2[15] = "cr" /\ p2[16] = "lf"
        /\ p2[19] = "cr" /\ p2[20] = "lf"
    <3>0. /\ p2[16 - 1] = "cr" /\ p2[16] = "lf"
          /\ \A i \in 1 .. Len(Multipart!Path) : p2[16 + i] = Multipart!Path[i]
          /\ p2[16 + Len(Multipart!Path) + 1] = "cr" /\ p2[16 + Len(Multipart!Path) + 2] = "lf"
      BY <1>6 DEF IsPart
    <3>1. /\ p2[16 - 1] = "cr" /\ p2[16] = "lf" /\ \A i \in 1 .. 2 : p2[16 + i] = Multipart!Path[i]
          /\ p2[16 + 2 + 1] = "cr" /\ p2[16 + 2 + 2] = "lf"
      BY <3>0, Pieces
    <3>2. p2[16 + 1] = "n1" /\ p2[16 + 2] = "n2"
      BY <3>1, Pieces
    <3>. QED
      BY <3>1, <3>2
  <2>4. p3[23] = "cr" /\ p3[24] = "lf"
    <3>1. p3[24 - 1] = "cr" /\ p3[24] = "lf"
      BY <1>6 DEF IsPart
    <3>. QED
      BY <3>1
  <2>5. /\ r[1] = p1[1] /\ r[2] = p1[2] /\ r[3] = p1[3] /\ r[4] = p1[4]
        /\ r[5] = p1[5] /\ r[6] = p1[6] /\ r[7] = p1[7] /\ r[8] = p1[8]
        /\ r[9] = p1[9] /\ r[10] = p1[10] /\ r[11] = p1[11] /\ r[12] = p1[12]
        /\ r[13] = p1[13] /\ r[14] = p1[14] /\ r[15] = p1[15] /\ r[16] = p1[16]
        /\ r[17] = p1[17] /\ r[18] = p1[18] /\ r[19] = p1[19] /\ r[20] = p1[20]
    BY <2>1
  <2>6. /\ r[21] = p2[1] /\ r[22] = p2[2] /\ r[23] = p2[3] /\ r[24] = p2[4]
        /\ r[25] = p2[5] /\ r[26] = p2[6] /\ r[27] = p2[7] /\ r[28] = p2[8]
        /\ r[29] = p2[9] /\ r[30] = p2[10] /\ r[31] = p2[11] /\ r[32] = p2[12]
        /\ r[33] = p2[13] /\ r[34] = p2[14] /\ r[35] = p2[15] /\ r[36] = p2[16]
        /\ r[37] = p2[17] /\ r[38] = p2[18] /\ r[39] = p2[19] /\ r[40] = p2[20]
    <3>1. /\ r[20 + 1] = p2[1] /\ r[20 + 2] = p2[2] /\ r[20 + 3] = p2[3] /\ r[20 + 4] = p2[4]
          /\ r[20 + 5] = p2[5] /\ r[20 + 6] = p2[6] /\ r[20 + 7] = p2[7] /\ r[20 + 8] = p2[8]
          /\ r[20 + 9] = p2[9] /\ r[20 + 10] = p2[10] /\ r[20 + 11] = p2[11] /\ r[20 + 12] = p2[12]
          /\ r[20 + 13] = p2[13] /\ r[20 + 14] = p2[14] /\ r[20 + 15] = p2[15] /\ r[20 + 16] = p2[16]
          /\ r[20 + 17] = p2[17] /\ r[20 + 18] = p2[18] /\ r[20 + 19] = p2[19] /\ r[20 + 20] = p2[20]
      BY <2>1
    <3>. QED
      BY <3>1
  <2>7. /\ r[41] = p3[1] /\ r[42] = p3[2] /\ r[43] = p3[3] /\ r[44] = p3[4]
        /\ r[45] = p3[5] /\ r[46] = p3[6] /\ r[47] = p3[7] /\ r[48] = p3[8]
        /\ r[49] = p3[9] /\ r[50] = p3[10] /\ r[51] = p3[11] /\ r[52] = p3[12]
        /\ r[53] = p3[13] /\ r[54] = p3[14] /\ r[55] = p3[15] /\ r[56] = p3[16]
        /\ r[57] = p3[17] /\ r[58] = p3[18] /\ r[59] = p3[19] /\ r[60] = p3[20]
        /\ r[61] = p3[21] /\ r[62] = p3[22] /\ r[63] = p3[23] /\ r[64] = p3[24]
    <3>1. /\ r[40 + 1] = p3[1] /\ r[40 + 2] = p3[2] /\ r[40 + 3] = p3[3] /\ r[40 + 4] = p3[4]
          /\ r[40 + 5] = p3[5] /\ r[40 + 6] = p3[6] /\ r[40 + 7] = p3[7] /\ r[40 + 8] = p3[8]
          /\ r[40 + 9] = p3[9] /\ r[40 + 10] = p3[10] /\ r[40 + 11] = p3[11] /\ r[40 + 12] = p3[12]
          /\ r[40 + 13] = p3[13] /\ r[40 + 14] = p3[14] /\ r[40 + 15] = p3[15] /\ r[40 + 16] = p3[16]
          /\ r[40 + 17] = p3[17] /\ r[40 + 18] = p3[18] /\ r[40 + 19] = p3[19] /\ r[40 + 20] = p3[20]
          /\ r[40 + 21] = p3[21] /\ r[40 + 22] = p3[22] /\ r[40 + 23] = p3[23] /\ r[40 + 24] = p3[24]
      BY <2>1
    <3>. QED
      BY <3>1
  <2>8. /\ r[1] = "-" /\ r[2] = "B" /\ r[3] = "cr" /\ r[4] = "lf"
        /\ r[5] = "content" /\ r[6] = "-" /\ r[7] = "disp" /\ r[8] = ":"
        /\ r[9] = "space" /\ r[10] = "form" /\ r[11] = "sessionid" /\ r[12] = "quote"
        /\ r[13] = "cr" /\ r[14] = "lf" /\ r[15] = "cr" /\ r[16] = "lf"
        /\ r[17] = "s1" /\ r[18] = "s2" /\ r[19] = "cr" /\ r[20] = "lf"
    <3>1. /\ p1[1] = "-" /\ p1[2] = "B" /\ p1[3] = "cr" /\ p1[4] = "lf"
          /\ p1[5] = "content" /\ p1[6] = "-" /\ p1[7] = "disp" /\ p1[8] = ":"
          /\ p1[9] = "space" /\ p1[10] = "form" /\ p1[11] = "sessionid" /\ p1[12] = "quote"
          /\ p1[13] = "cr" /\ p1[14] = "lf" /\ p1[15] = "cr" /\ p1[16] = "lf"
          /\ p1[17] = "s1" /\ p1[18] = "s2" /\ p1[19] = "cr" /\ p1[20] = "lf"
      BY <1>6, <2>2 DEF IsPart
    <3>. QED
      BY <3>1, <2>5
  <2>9. /\ r[21] = "-" /\ r[22] = "B" /\ r[23] = "cr" /\ r[24] = "lf"
        /\ r[25] = "content" /\ r[26] = "-" /\ r[27] = "disp" /\ r[28] = ":"
        /\ r[29] = "space" /\ r[30] = "form" /\ r[31] = "filename" /\ r[32] = "quote"
        /\ r[33] = "cr" /\ r[34] = "lf" /\ r[35] = "cr" /\ r[36] = "lf"
        /\ r[37] = "n1" /\ r[38] = "n2" /\ r[39] = "cr" /\ r[40] = "lf"
    <3>1. /\ p2[1] = "-" /\ p2[2] = "B" /\ p2[3] = "cr" /\ p2[4] = "lf"
          /\ p2[5] = "content" /\ p2[6] = "-" /\ p2[7] = "disp" /\ p2[8] = ":"
          /\ p2[9] = "space" /\ p2[10] = "form" /\ p2[11] = "filename" /\ p2[12] = "quote"
          /\ p2[13] = "cr" /\ p2[14] = "lf" /\ p2[15] = "cr" /\ p2[16] = "lf"
          /\ p2[17] = "n1" /\ p2[18] = "n2" /\ p2[19] = "cr" /\ p2[20] = "lf"
      BY <1>6, <2>3 DEF IsPart
    <3>. QED
      BY <3>1, <2>6
  <2>a. /\ r[41] = "-" /\ r[42] = "B" /\ r[43] = "cr" /\ r[44] = "lf"
        /\ r[45] = "content" /\ r[46] = "-" /\ r[47] = "disp" /\ r[48] = ":"
        /\ r[49] = "space" /\ r[50] = "form" /\ r[51] = "filedata" /\ r[52] = "quote"
        /\ r[53] = "cr" /\ r[54] = "lf" /\ r[55] = "content" /\ r[56] = "-"
        /\ r[57] = "type" /\ r[58] = ":" /\ r[59] = "space" /\ r[60] = "mime"
        /\ r[61] = "cr" /\ r[62] = "lf" /\ r[63] = "cr" /\ r[64] = "lf"
    <3>1. /\ p3[1] = "-" /\ p3[2] = "B" /\ p3[3] = "cr" /\ p3[4] = "lf"
          /\ p3[5] = "content" /\ p3[6] = "-" /\ p3[7] = "disp" /\ p3[8] = ":"
          /\ p3[9] = "space" /\ p3[10] = "form" /\ p3[11] = "filedata" /\ p3[12] = "quote"
          /\ p3[13] = "cr" /\ p3[14] = "lf" /\ p3[15] = "content" /\ p3[16] = "-"
          /\ p3[17] = "type" /\ p3[18] = ":" /\ p3[19] = "space" /\ p3[20] = "mime"
          /\ p3[21] = "cr" /\ p3[22] = "lf" /\ p3[23] = "cr" /\ p3[24] = "lf"
      BY <1>6, <2>4 DEF IsPart
    <3>. QED
      BY <3>1, <2>7
  <2>. QED
    BY <2>8, <2>9, <2>a DEF Opening
<1>. QED
  BY <1>h, <1>j, <1>l, <1>m, <1>o DEF n

-----------------------------------------------------------------------------
(* Runs of symbols of the request.                                         *)

LEMMA RunGrows ==
  ASSUME NEW S, NEW s \in Seq(S), NEW m \in Nat, NEW n \in Nat, 1 <= m, m <= n, n <= Len(s)
  PROVE  Append(SubSeq(s, m, n - 1), s[n]) = SubSeq(s, m, n)
OBVIOUS

LEMMA RunIsEmpty ==
  ASSUME NEW S, NEW s \in Seq(S), NEW n \in Nat, 1 <= n, n <= Len(s) + 1
  PROVE  SubSeq(s, n, n - 1) = <<>>
OBVIOUS

LEMMA RunIs ==
  ASSUME NEW S, NEW s \in Seq(S), NEW m \in Nat, NEW n \in Nat, 1 <= m, m <= n + 1, n <= Len(s)
  PROVE  /\ SubSeq(s, m, n) \in Seq(S) /\ Len(SubSeq(s, m, n)) = n + 1 - m
         /\ \A i \in 1 .. n + 1 - m : SubSeq(s, m, n)[i] = s[m + i - 1]
OBVIOUS

\* A beginning of the file and the symbols after it are a longer beginning.
LEMMA FileGrows ==
  ASSUME NEW S, NEW r \in Seq(S), NEW f \in Seq(S), Len(r) >= Len(f) + 64,
         \A i \in 1 .. Len(f) : r[64 + i] = f[i],
         NEW m \in Nat, NEW n \in Nat, 65 <= m, m <= n + 1, n <= Len(f) + 64
  PROVE  SubSeq(f, 1, m - 65) \o SubSeq(r, m, n) = SubSeq(f, 1, n - 64)
BY SMTT(30)

-----------------------------------------------------------------------------
(* The invariant of an upload.                                             *)

L == Len(file)
Run(m) == SubSeq(R, m, pos - 1)

\* Where in the request the parser is before the file: in each of its states
\* at a few places only.
InHead ==
  /\ st \in {"start", "field", "headers_almost_done", "value_start", "value",
             "value_almost_done", "data_start", "data", "almost_boundary", "boundary",
             "almost_end", "data_end"}
  /\ st = "start" => pos \in 1 .. 4 /\ index = pos - 1
  /\ st = "field" => pos \in {5, 6, 7, 8, 15, 25, 26, 27, 28, 35, 45, 46, 47, 48, 55, 56, 57, 58, 63}
  /\ st = "value_start" => pos \in {9, 10, 29, 30, 49, 50, 59, 60}
  /\ st = "value" => pos \in {11, 12, 13, 31, 32, 33, 51, 52, 53, 61}
  /\ st = "value_almost_done" => pos \in {14, 34, 54, 62}
  /\ st = "headers_almost_done" => pos \in {16, 36, 64}
  /\ st = "data_start" => pos \in {17, 37, 65}
  /\ st = "data" => pos \in {18, 19, 38, 39}
  /\ st = "almost_boundary" => pos \in {20, 40}
  /\ st = "boundary" => \/ pos \in {21, 41} /\ index = 0
                        \/ pos \in {22, 42} /\ index = 1
  /\ st = "almost_end" => pos \in {23, 43}
  /\ st = "data_end" => pos \in {24, 44}

\* In the file and after it.  What has been taken for the beginning of a
\* delimiter is one so far.
InFile ==
  \/ st = "data" /\ pos <= L + 65
  \/ st = "almost_boundary" /\ pos <= L + 66 /\ R[pos - 1] = "cr"
  \/ /\ st = "boundary" /\ index = 0 /\ pos \in 67 .. L + 67
     /\ R[pos - 2] = "cr" /\ R[pos - 1] = "lf"
  \/ /\ st = "boundary" /\ index = 1 /\ pos \in 68 .. L + 68
     /\ R[pos - 3] = "cr" /\ R[pos - 2] = "lf" /\ R[pos - 1] = "-"
  \/ st = "almost_end" /\ pos = L + 69
  \/ st = "final_hyphen" /\ pos = L + 70
  \/ st = "end" /\ pos > L + 70

PlaceInv == IF pos <= 65 THEN InHead ELSE InFile

\* What is pending is the symbols before this one, of the same value or file.
PendingInv ==
  /\ st \in {"value_start", "data_start"} => pending = <<>>
  /\ st \in {"field", "value", "data"} =>
       \E m \in 1 .. pos :
         /\ pending = Run(m)
         /\ st = "value" => \/ pos <= 13 /\ m >= 10
                            \/ pos \in 31 .. 33 /\ m >= 30
                            \/ pos \in 51 .. 53 /\ m >= 50
                            \/ m >= 60
         /\ pos > 65 => m >= 65 /\ (h.part = "filedata" => h.temp = SubSeq(file, 1, m - 65))

\* What the callbacks have made of it.  What is taken for file data too early
\* lacks a session or a path.
CallbackInv ==
  /\ h.answer = "none" /\ h.target = Multipart!Old /\ ~h.elsewhere
  /\ pos <= 65 \/ h.part # "filedata" => h.temp = <<>>
  /\ pos <= 17 => h.sid = "none"
  /\ pos <= 37 => h.path = "none"
  /\ h.part \in IF pos <= 22 THEN {"unknown", "sessionid", "filedata"}
                ELSE IF pos <= 42 THEN {"unknown", "filename", "filedata"}
                ELSE {"unknown", "filedata"}
  /\ pos \in 18 .. 22 \cup 38 .. 42 \/ st \in {"almost_end", "final_hyphen", "end"}
       => h.part # "filedata"
  /\ pos > 65 /\ h.part = "filedata" =>
       /\ st = "almost_boundary" => h.temp = SubSeq(file, 1, pos - 66)
       /\ st = "boundary" => h.temp = SubSeq(file, 1, pos - 67 - index)

\* What an upload that was answered has left.
EndInv ==
  /\ h.answer # "none"
  /\ h.target \in {Multipart!Old, Multipart!Gone, file}
  /\ h.answer = "stored" => h.temp = file

\* The states of cgi-io.
Texts == Seq(Symbols)
Targets == {Multipart!Old, Multipart!Gone} \cup Texts
PartTypes == Multipart!Parts \cup {"unknown"}
Failures ==
  {"File data without session", "File data without name", "Access to path denied by ACL",
   "Failed to create temporary file", "I/O failure while writing temporary file",
   "No file data received", "Failed to unlink existing file", "Failed to open target file",
   "I/O failure while writing target file", "Failed to chmod target file",
   "Upload permission denied"}
States ==
  [cd : BOOLEAN, part : PartTypes, sid : {"none", "whole", "piece"},
   path : {"none", "whole", "piece", "root"}, temp : Texts, target : Targets,
   elsewhere : BOOLEAN, answer : Failures \cup {"none", "stored"}]

UploadInv ==
  /\ file \in Files /\ Multipart!UploadTypeOK /\ h \in States
  /\ IF st = "stopped" THEN EndInv ELSE PlaceInv /\ PendingInv /\ CallbackInv

\* The name that the form has at this place.
NameAt(at) == IF at <= 13 THEN "sessionid" ELSE IF at <= 33 THEN "filename" ELSE "filedata"

\* As long as no name was cut every part is recognised, and the session and the
\* path come in one piece.  The parts begin after 0, 20 and 40 symbols.
Starts == {0, 20, 40}
UncutAt(b) ==
  /\ pos \in b + 5 .. b + 7 => pending = Run(b + 5)
  /\ pos = b + 8 => pending = Run(b + 5) \/ (pending = <<>> /\ h.cd)
  /\ pos \in b + 9 .. b + 13 => h.cd
  /\ pos \in b + 11 .. b + 12 => pending = Run(b + 10)
  /\ pos = b + 13 => pending = Run(b + 10) \/ h.part = NameAt(b + 10)
  /\ pos \in b + 14 .. (IF b = 40 THEN L + 68 ELSE b + 22) => h.part = NameAt(b + 10)

Uncut ==
  /\ \A b \in Starts : UncutAt(b)
  /\ pos \in 18 .. 19 => pending = Run(17)
  /\ pos \in 38 .. 39 => pending = Run(37)
  /\ pos >= 20 => h.sid = "whole"
  /\ pos >= 40 => h.path = "whole"
  /\ pos <= L + 68

UncutInv ==
  ~cut => IF st = "stopped" THEN h.answer = "stored" => h.target = file /\ ~h.elsewhere
                            ELSE Uncut

-----------------------------------------------------------------------------
(* What the callbacks do.                                                  *)

LEMMA Facts ==
  ASSUME file \in Files
  PROVE  /\ file \in Seq(Symbols) /\ L \in Nat
         /\ R \in Seq(Symbols) /\ Len(R) = L + 72 /\ Opening(R) /\ Closing(R, L)
         /\ \A i \in 1 .. L : R[64 + i] = file[i]
<1>1. file \in Seq(Bytes)
  BY GatewayAssumption DEF Multipart!UploadAssumption
<1>2. /\ R \in Seq(Symbols) /\ Len(R) = L + 72 /\ Opening(R) /\ Closing(R, L)
      /\ \A i \in 1 .. L : R[64 + i] = file[i]
  BY <1>1, RequestIs DEF R, L
<1>3. file \in Seq(Symbols)
  <2>1. Bytes \subseteq Symbols
    BY DEF Symbols
  <2>. QED
    BY <1>1, <2>1, SeqGrows
<1>4. L \in Nat
  BY <1>1 DEF L
<1>. QED
  BY <1>2, <1>3, <1>4

\* What two states of cgi-io have in common unless a callback is about data.
Alike(s, t) ==
  /\ t.sid = s.sid /\ t.path = s.path /\ t.temp = s.temp
  /\ t.target = s.target /\ t.elsewhere = s.elsewhere

LEMMA HeaderFieldIs ==
  ASSUME NEW s \in States, NEW d, NEW t \in Multipart!HeaderField(s, d)
  PROVE  /\ t \in States /\ Alike(s, t) /\ t.answer = s.answer /\ t.part = s.part
         /\ t.cd <=> Multipart!IsPrefix(d, Multipart!Disposition)
BY DEF States, Failures, Multipart!HeaderField, Alike, Multipart!IsPrefix

LEMMA HeaderValueIs ==
  ASSUME NEW s \in States, NEW d \in Seq(Symbols),
         (Len(d) >= 2 /\ Multipart!IsPrefix(<<"form">>, d)) => d[2] \in PartTypes,
         NEW t \in Multipart!HeaderValue(s, d)
  PROVE  /\ t \in States /\ Alike(s, t) /\ t.answer = s.answer /\ t.cd = s.cd
         /\ \/ t.part = s.part /\ ~(s.cd /\ Multipart!IsPrefix(<<"form">>, d) /\ Len(d) > 2)
            \/ /\ s.cd /\ Multipart!IsPrefix(<<"form">>, d)
               /\ \/ t.part = "filedata" /\ Len(d) = 1
                  \/ t.part = d[2] /\ Len(d) >= 2
<1>. DEFINE prefixed == Multipart!IsPrefix(<<"form">>, d)
            second == d[2]
            n == Len(d)
<1>1. n \in Nat /\ (prefixed => n >= 1)
  BY DEF Multipart!IsPrefix
<1>2. (n >= 2 /\ prefixed) => second \in PartTypes
  OBVIOUS
<1>3. \/ t = s /\ ~(s.cd /\ prefixed /\ n > 2)
      \/ s.cd /\ prefixed /\ n = 1 /\ t = [s EXCEPT !.part = "filedata"]
      \/ s.cd /\ prefixed /\ n >= 2 /\ t = [s EXCEPT !.part = second]
  <2>1. CASE ~s.cd \/ ~prefixed
    BY <2>1 DEF Multipart!HeaderValue
  <2>2. CASE s.cd /\ prefixed
    <3>0. Multipart!HeaderValue(s, d) =
            CASE n = 1 -> {s, [s EXCEPT !.part = "filedata"]}
              [] n = 2 -> {s, [s EXCEPT !.part = second]}
              [] OTHER -> {[s EXCEPT !.part = second]}
      BY <2>2 DEF Multipart!HeaderValue
    <3>. HIDE DEF prefixed, n, second
    <3>1. CASE n = 1
      BY <2>2, <3>0, <3>1
    <3>2. CASE n = 2
      BY <2>2, <3>0, <3>2
    <3>3. CASE n > 2
      BY <1>1, <2>2, <3>0, <3>3
    <3>. QED
      BY <1>1, <2>2, <3>1, <3>2, <3>3
  <2>. QED
    BY <2>1, <2>2
<1>. HIDE DEF prefixed, n, second
<1>4. "filedata" \in PartTypes
  BY DEF PartTypes, Multipart!Parts
<1>5. /\ t \in States /\ Alike(s, t) /\ t.answer = s.answer /\ t.cd = s.cd
      /\ \/ t.part = s.part /\ ~(s.cd /\ prefixed /\ n > 2)
         \/ s.cd /\ prefixed /\ n = 1 /\ t.part = "filedata"
         \/ s.cd /\ prefixed /\ n >= 2 /\ t.part = second
  <2>1. CASE t = s /\ ~(s.cd /\ prefixed /\ n > 2)
    BY <2>1 DEF Alike
  <2>2. CASE s.cd /\ prefixed /\ n = 1 /\ t = [s EXCEPT !.part = "filedata"]
    BY <1>4, <2>2 DEF Alike, States, Failures
  <2>3. CASE s.cd /\ prefixed /\ n >= 2 /\ t = [s EXCEPT !.part = second]
    BY <1>2, <2>3 DEF Alike, States, Failures
  <2>. QED
    BY <1>3, <2>1, <2>2, <2>3
<1>. QED
  BY <1>5 DEF prefixed, n, second

LEMMA DataBeginIs ==
  ASSUME NEW s \in States, s.answer = "none", NEW t \in Multipart!DataBegin(s)
  PROVE  /\ t \in States /\ Alike(s, t) /\ t.cd = s.cd /\ t.part = s.part
         /\ t.answer # "stored"
         /\ (s.part = "filedata" /\ (s.sid = "none" \/ s.path = "none")) => t.answer # "none"
         /\ s.part # "filedata" => t = s
<1>1. CASE s.part # "filedata"
  BY <1>1 DEF Multipart!DataBegin, Alike
<1>2. CASE s.part = "filedata"
  <2>1. \/ t = s /\ s.sid # "none" /\ s.path # "none"
        \/ t = [s EXCEPT !.answer = "File data without session"]
        \/ t = [s EXCEPT !.answer = "File data without name"]
        \/ t = [s EXCEPT !.answer = "Access to path denied by ACL"]
        \/ t = [s EXCEPT !.answer = "Failed to create temporary file"]
    <3>1. CASE s.sid = "none"
      BY <1>2, <3>1 DEF Multipart!DataBegin, Multipart!Fail
    <3>2. CASE s.sid # "none" /\ s.path = "none"
      BY <1>2, <3>2 DEF Multipart!DataBegin, Multipart!Fail
    <3>3. CASE s.sid # "none" /\ s.path # "none" /\ ~Multipart!Access(s)
      BY <1>2, <3>3 DEF Multipart!DataBegin, Multipart!Fail
    <3>4. CASE s.sid # "none" /\ s.path # "none" /\ Multipart!Access(s)
      BY <1>2, <3>4 DEF Multipart!DataBegin, Multipart!Fail
    <3>. QED
      BY <3>1, <3>2, <3>3, <3>4
  <2>2. CASE t = s /\ s.sid # "none" /\ s.path # "none"
    BY <1>2, <2>2 DEF Alike
  <2>3. ASSUME NEW v \in Failures, t = [s EXCEPT !.answer = v]
        PROVE  /\ t \in States /\ Alike(s, t) /\ t.cd = s.cd /\ t.part = s.part
               /\ t.answer = v
    BY <2>3 DEF Alike, States, Failures
  <2>4. (t = s /\ s.sid # "none" /\ s.path # "none") \/ \E v \in Failures : t = [s EXCEPT !.answer = v]
    BY <2>1 DEF Failures
  <2>5. \A v \in Failures : v # "none" /\ v # "stored"
    BY DEF Failures
  <2>. QED
    BY <1>2, <2>2, <2>3, <2>4, <2>5
<1>. QED
  BY <1>1, <1>2

LEMMA DataIs ==
  ASSUME NEW s \in States, s.answer = "none", NEW d \in Seq(Symbols),
         NEW t \in Multipart!Data(s, d)
  PROVE  /\ t \in States /\ t.cd = s.cd /\ t.part = s.part /\ t.target = s.target
         /\ t.elsewhere = s.elsewhere /\ t.answer # "stored"
         /\ s.part # "sessionid" => t.sid = s.sid
         /\ (s.part = "sessionid" /\ d = Multipart!Sid) => t.sid = "whole"
         /\ s.part # "filename" => t.path = s.path
         /\ (s.part = "filename" /\ d = Multipart!Path) => t.path = "whole"
         /\ s.part # "filedata" => t.temp = s.temp /\ t.answer = "none"
         /\ (s.part = "filedata" /\ t.answer = "none") => t.temp = s.temp \o d
         /\ t.answer # "none" => t.temp = s.temp
<1>1. CASE s.part = "sessionid"
  <2>1. \E v \in {"whole", "piece"} :
          t = [s EXCEPT !.sid = v] /\ (d = Multipart!Sid => v = "whole")
    BY <1>1 DEF Multipart!Data
  <2>. QED
    BY <1>1, <2>1 DEF States, Failures
<1>2. CASE s.part = "filename"
  <2>. DEFINE v == CASE d = Multipart!Path -> "whole"
                     [] d = <<>> -> "root"
                     [] OTHER -> "piece"
  <2>1. t = [s EXCEPT !.path = v]
    BY <1>2 DEF Multipart!Data
  <2>2. v \in {"whole", "root", "piece"} /\ (d = Multipart!Path => v = "whole")
    <3>1. <<>> # Multipart!Path
      BY DEF Multipart!Path
    <3>. QED
      BY <3>1
  <2>. HIDE DEF v
  <2>. QED
    BY <1>2, <2>1, <2>2 DEF States, Failures
<1>3. CASE s.part = "filedata"
  <2>. DEFINE longer == s.temp \o d
  <2>1. \/ t = [s EXCEPT !.temp = longer]
        \/ t = [s EXCEPT !.answer = "I/O failure while writing temporary file"]
    BY <1>3 DEF Multipart!Data, Multipart!Fail
  <2>2. longer \in Texts
    BY DEF States, Texts
  <2>. HIDE DEF longer
  <2>3. /\ t \in States /\ t.cd = s.cd /\ t.part = s.part /\ t.target = s.target
        /\ t.elsewhere = s.elsewhere /\ t.answer # "stored"
        /\ t.sid = s.sid /\ t.path = s.path
        /\ t.answer = "none" => t.temp = longer
        /\ t.answer # "none" => t.temp = s.temp
    <3>1. CASE t = [s EXCEPT !.temp = longer]
      BY <2>2, <3>1 DEF States, Failures
    <3>2. CASE t = [s EXCEPT !.answer = "I/O failure while writing temporary file"]
      BY <3>2 DEF States, Failures
    <3>. QED
      BY <2>1, <3>1, <3>2
  <2>. QED
    BY <1>3, <2>3 DEF longer
<1>4. CASE s.part \notin {"sessionid", "filename", "filedata"}
  <2>1. t = s
    BY <1>4 DEF Multipart!Data
  <2>. QED
    BY <1>4, <2>1
<1>. QED
  BY <1>1, <1>2, <1>3, <1>4

LEMMA DataEndIs ==
  ASSUME NEW s \in States, s.answer = "none", NEW t \in Multipart!DataEnd(s)
  PROVE  /\ t \in States /\ t.cd = s.cd /\ t.sid = s.sid /\ t.path = s.path /\ t.temp = s.temp
         /\ s.part # "filedata" => /\ t.target = s.target /\ t.elsewhere = s.elsewhere
                                   /\ t.answer # "stored"
                                   /\ t.answer = "none" => t.part = "unknown"
         /\ s.part = "filedata" =>
              /\ t.answer # "none"
              /\ t.target \in {s.target, Multipart!Gone, s.temp}
              /\ (t.answer = "stored" /\ s.path = "whole") =>
                   t.target = s.temp /\ t.elsewhere = s.elsewhere
<1>1. CASE s.part = "filedata"
  <2>1. t \in Multipart!FileCopy(s)
    BY <1>1 DEF Multipart!DataEnd
  <2>2. PICK v \in Failures \cup {"stored"}, g \in {s, [s EXCEPT !.target = Multipart!Gone],
                                             Multipart!Written(s, s.temp)} :
          /\ t = [g EXCEPT !.answer = v]
          /\ v = "stored" => g = Multipart!Written(s, s.temp)
    <3>. DEFINE gone == IF s.path = "whole" THEN [s EXCEPT !.target = Multipart!Gone] ELSE s
                stored1 == Multipart!Written(s, s.temp)
    <3>1. \/ t = Multipart!Fail(s, "No file data received")
          \/ t = Multipart!Fail(s, "Failed to unlink existing file")
          \/ t = Multipart!Fail(gone, "Failed to open target file")
          \/ t = Multipart!Fail(gone, "I/O failure while writing target file")
          \/ t = Multipart!Fail(gone, "Failed to chmod target file")
          \/ t = Multipart!Fail(stored1, "Failed to chmod target file")
          \/ t = Multipart!Fail(stored1, "stored")
      BY <2>1 DEF Multipart!FileCopy
    <3>2. gone \in {s, [s EXCEPT !.target = Multipart!Gone]}
      OBVIOUS
    <3>. HIDE DEF gone, stored1
    <3>3. stored1 = Multipart!Written(s, s.temp)
      BY DEF stored1
    <3>4. \E v \in Failures \cup {"stored"}, g \in {s, gone, stored1} :
            t = Multipart!Fail(g, v) /\ (v = "stored" => g = stored1)
      <4>1. \/ \E v \in Failures : t = Multipart!Fail(s, v)
            \/ \E v \in Failures : t = Multipart!Fail(gone, v)
            \/ \E v \in Failures \cup {"stored"} : t = Multipart!Fail(stored1, v)
        BY <3>1 DEF Failures
      <4>2. "stored" \notin Failures
        BY DEF Failures
      <4>. QED
        BY <4>1, <4>2
    <3>. QED
      BY <3>2, <3>3, <3>4 DEF Multipart!Fail
  <2>3. \/ g = s
        \/ g = [s EXCEPT !.target = Multipart!Gone]
        \/ g = Multipart!Written(s, s.temp) /\ s.path = "whole" /\ g = [s EXCEPT !.target = s.temp]
        \/ g = Multipart!Written(s, s.temp) /\ s.path # "whole" /\ g = [s EXCEPT !.elsewhere = TRUE]
    BY <2>2 DEF Multipart!Written
  <2>4. s.temp \in Targets /\ Multipart!Gone \in Targets
    BY DEF States, Failures, Targets
  <2>5. /\ g \in States /\ g.cd = s.cd /\ g.sid = s.sid /\ g.path = s.path /\ g.temp = s.temp
        /\ g.target \in {s.target, Multipart!Gone, s.temp}
        /\ (g = Multipart!Written(s, s.temp) /\ s.path = "whole") =>
             g.target = s.temp /\ g.elsewhere = s.elsewhere
    <3>1. CASE g = s
      BY <3>1 DEF Multipart!Written, States
    <3>2. CASE g = [s EXCEPT !.target = Multipart!Gone]
      BY <2>4, <3>2 DEF Multipart!Written, States
    <3>3. CASE s.path = "whole" /\ g = [s EXCEPT !.target = s.temp]
      BY <2>4, <3>3 DEF States, Failures
    <3>4. CASE s.path # "whole" /\ g = [s EXCEPT !.elsewhere = TRUE]
      BY <3>4 DEF States, Failures
    <3>. QED
      BY <2>3, <3>1, <3>2, <3>3, <3>4
  <2>6. /\ t \in States /\ t.cd = g.cd /\ t.sid = g.sid /\ t.path = g.path /\ t.temp = g.temp
        /\ t.target = g.target /\ t.elsewhere = g.elsewhere /\ t.answer = v
    BY <2>2, <2>5 DEF States, Failures
  <2>7. v # "none"
    BY DEF Failures
  <2>. QED
    BY <1>1, <2>2, <2>5, <2>6, <2>7
<1>2. CASE s.part # "filedata"
  <2>1. \/ t = [s EXCEPT !.part = "unknown"]
        \/ t = [s EXCEPT !.answer = "Upload permission denied"]
    BY <1>2 DEF Multipart!DataEnd, Multipart!Fail
  <2>2. "unknown" \in PartTypes
    BY DEF PartTypes
  <2>3. CASE t = [s EXCEPT !.part = "unknown"]
    BY <1>2, <2>2, <2>3 DEF States, Failures
  <2>4. CASE t = [s EXCEPT !.answer = "Upload permission denied"]
    BY <1>2, <2>4 DEF States, Failures
  <2>. QED
    BY <2>1, <2>3, <2>4
<1>. QED
  BY <1>1, <1>2

-----------------------------------------------------------------------------
(* Every step of the parser keeps its place.                               *)

\* The request stays as it is.
LEMMA Steady ==
  ASSUME file' = file
  PROVE  R' = R /\ L' = L
BY DEF R, L

\* What a step that takes a symbol leads to.
Moves(t, i) ==
  pos' = pos + 1 /\ st' = t /\ index' = i /\ R' = R /\ L' = L

LEMMA GoneTo ==
  ASSUME NEW t, NEW i, NEW last, NEW keep, Multipart!Goto(t, i, last, keep), st' # "stopped"
  PROVE  Moves(t, i)
BY Steady DEF Multipart!Goto, Moves

LEMMA Place ==
  ASSUME file \in Files, Multipart!UploadTypeOK, PlaceInv
  PROVE  /\ pos \in Nat /\ pos >= 1 /\ pos <= L + 73
         /\ (Multipart!More <=> pos <= L + 72 /\ st # "stopped")
         /\ Multipart!Here = R[pos]
         /\ st = "start" => pos \in 1 .. 4 /\ index = pos - 1
BY Facts DEF PlaceInv, InHead, InFile, R, L, Multipart!More, Multipart!Here, Multipart!UploadTypeOK

\* What the symbols before the file are.
LEMMA Spots ==
  ASSUME file \in Files, NEW p
  PROVE  /\ p \in {1, 6, 21, 26, 41, 46, 56} => R[p] = "-"
         /\ p \in {2, 22, 42} => R[p] = "B"
         /\ p \in {3, 13, 15, 19, 23, 33, 35, 39, 43, 53, 61, 63} => R[p] = "cr"
         /\ p \in {4, 14, 16, 20, 24, 34, 36, 40, 44, 54, 62, 64} => R[p] = "lf"
         /\ p \in {5, 25, 45, 55} => R[p] = "content"
         /\ p \in {7, 27, 47} => R[p] = "disp"
         /\ p = 57 => R[p] = "type"
         /\ p \in {8, 28, 48, 58} => R[p] = ":"
         /\ p \in {9, 29, 49, 59} => R[p] = "space"
         /\ p \in {10, 30, 50} => R[p] = "form"
         /\ p = 11 => R[p] = "sessionid"
         /\ p = 31 => R[p] = "filename"
         /\ p = 51 => R[p] = "filedata"
         /\ p \in {12, 32, 52} => R[p] = "quote"
         /\ p = 60 => R[p] = "mime"
         /\ p = 17 => R[p] = "s1"
         /\ p = 18 => R[p] = "s2"
         /\ p = 37 => R[p] = "n1"
         /\ p = 38 => R[p] = "n2"
<1>1. Opening(R)
  BY Facts
<1>. QED
  BY <1>1 DEF Opening

LEMMA PlaceStart ==
  ASSUME file \in Files, Multipart!UploadTypeOK, PlaceInv, NEW last, Multipart!StartBoundary(last),
         st' # "stopped"
  PROVE  PlaceInv'
<1>1. st = "start" /\ pos \in 1 .. 4 /\ index = pos - 1
  BY Place DEF Multipart!StartBoundary
<1>2. IF index = 3 THEN Moves("field", 0) ELSE Moves("start", index + 1)
  BY <1>1, GoneTo, Pieces DEF Multipart!StartBoundary
<1>. QED
  BY <1>1, <1>2 DEF Moves, PlaceInv, InHead

LEMMA PlaceField ==
  ASSUME file \in Files, Multipart!UploadTypeOK, PlaceInv, NEW last, Multipart!HeaderName(last),
         st' # "stopped"
  PROVE  PlaceInv'
<1>1. /\ st = "field"
      /\ CASE R[pos] = "cr" -> Moves("headers_almost_done", index)
           [] R[pos] = ":" -> Moves("value_start", index)
           [] OTHER -> Moves("field", index)
  BY Place, GoneTo DEF Multipart!HeaderName
<1>2. /\ pos \in {5, 6, 7, 8, 15, 25, 26, 27, 28, 35, 45, 46, 47, 48, 55, 56, 57, 58, 63}
  BY <1>1, Place DEF PlaceInv, InHead, InFile
<1>3. /\ R[pos] = "cr" => pos \in {15, 35, 63}
      /\ R[pos] = ":" => pos \in {8, 28, 48, 58}
      /\ (R[pos] # "cr" /\ R[pos] # ":") => pos \in {5, 6, 7, 25, 26, 27, 45, 46, 47, 55, 56, 57}
  <2>1. pos \in {15, 35, 63} \/ pos \in {8, 28, 48, 58} \/ pos \in {5, 6, 7, 25, 26, 27, 45, 46, 47, 55, 56, 57}
    BY <1>2
  <2>2. CASE pos \in {15, 35, 63}
    BY <2>2, Spots
  <2>3. CASE pos \in {8, 28, 48, 58}
    BY <2>3, Spots
  <2>4. CASE pos \in {5, 6, 7, 25, 26, 27, 45, 46, 47, 55, 56, 57}
    BY <2>4, Spots
  <2>. QED
    BY <2>1, <2>2, <2>3, <2>4
<1>. QED
  BY <1>1, <1>2, <1>3 DEF Moves, PlaceInv, InHead

LEMMA PlaceHeaders ==
  ASSUME file \in Files, Multipart!UploadTypeOK, PlaceInv, NEW last,
         Multipart!HeadersAlmostDone(last), st' # "stopped"
  PROVE  PlaceInv'
<1>1. st = "headers_almost_done" /\ Moves("data_start", index)
  BY Place, GoneTo DEF Multipart!HeadersAlmostDone
<1>2. pos \in {16, 36, 64}
  BY <1>1 DEF PlaceInv, InHead, InFile
<1>. QED
  BY <1>1, <1>2 DEF Moves, PlaceInv, InHead

LEMMA PlaceValueStart ==
  ASSUME file \in Files, Multipart!UploadTypeOK, PlaceInv, NEW last,
         Multipart!ValueStart(last), st' # "stopped"
  PROVE  PlaceInv'
<1>1. st = "value_start" /\ R[pos] = "space" /\ Moves("value_start", index)
  BY Place, GoneTo DEF Multipart!ValueStart
<1>2. pos \in {9, 10, 29, 30, 49, 50, 59, 60}
  BY <1>1 DEF PlaceInv, InHead, InFile
<1>3. pos \notin {10, 30, 50, 60}
  BY <1>1, Spots
<1>. QED
  BY <1>1, <1>2, <1>3 DEF Moves, PlaceInv, InHead

LEMMA PlaceValue ==
  ASSUME file \in Files, Multipart!UploadTypeOK, PlaceInv, NEW last,
         Multipart!HeaderBody(last), st' # "stopped"
  PROVE  PlaceInv'
<1>1. /\ st \in {"value_start", "value"} /\ ~(st = "value_start" /\ R[pos] = "space")
      /\ IF R[pos] = "cr" THEN Moves("value_almost_done", index) ELSE Moves("value", index)
  BY Place, GoneTo DEF Multipart!HeaderBody
<1>2. pos \in {9, 10, 29, 30, 49, 50, 59, 60} \cup {11, 12, 13, 31, 32, 33, 51, 52, 53, 61}
      /\ (pos \in {9, 29, 49, 59} => st = "value_start")
  BY <1>1 DEF PlaceInv, InHead, InFile
<1>3. pos \notin {9, 29, 49, 59}
  BY <1>1, <1>2, Spots
<1>4. IF R[pos] = "cr" THEN pos \in {13, 33, 53, 61}
                       ELSE pos \in {10, 11, 12, 30, 31, 32, 50, 51, 52, 60}
  <2>1. CASE pos \in {13, 33, 53, 61}
    BY <2>1, Spots
  <2>2. CASE pos \in {10, 30, 50}
    BY <2>2, Spots
  <2>3. CASE pos \in {11, 31, 51}
    BY <2>3, Spots
  <2>4. CASE pos \in {12, 32, 52, 60}
    BY <2>4, Spots
  <2>. QED
    BY <1>2, <1>3, <2>1, <2>2, <2>3, <2>4
<1>. QED
  BY <1>1, <1>4 DEF Moves, PlaceInv, InHead

LEMMA PlaceValueDone ==
  ASSUME file \in Files, Multipart!UploadTypeOK, PlaceInv, NEW last,
         Multipart!ValueAlmostDone(last), st' # "stopped"
  PROVE  PlaceInv'
<1>1. st = "value_almost_done" /\ Moves("field", index)
  BY Place, GoneTo DEF Multipart!ValueAlmostDone
<1>2. pos \in {14, 34, 54, 62}
  BY <1>1 DEF PlaceInv, InHead, InFile
<1>. QED
  BY <1>1, <1>2 DEF Moves, PlaceInv, InHead

LEMMA PlaceData ==
  ASSUME file \in Files, Multipart!UploadTypeOK, PlaceInv, NEW last,
         Multipart!PartData(last), st' # "stopped"
  PROVE  PlaceInv'
<1>1. /\ st \in {"data_start", "data"}
      /\ IF R[pos] = "cr" THEN Moves("almost_boundary", index) ELSE Moves("data", index)
  BY Place, GoneTo DEF Multipart!PartData
<1>2. CASE pos < 65
  <2>1. pos \in {17, 37, 18, 19, 38, 39}
    BY <1>1, <1>2, Place DEF PlaceInv, InHead
  <2>2. IF R[pos] = "cr" THEN pos \in {19, 39} ELSE pos \in {17, 18, 37, 38}
    <3>1. CASE pos \in {19, 39}
      BY <3>1, Spots
    <3>2. CASE pos = 17 \/ pos = 18
      BY <3>2, Spots
    <3>3. CASE pos = 37 \/ pos = 38
      BY <3>3, Spots
    <3>. QED
      BY <2>1, <3>1, <3>2, <3>3
  <2>. QED
    BY <1>1, <2>1, <2>2 DEF Moves, PlaceInv, InHead
<1>3. CASE pos >= 65
  <2>1. pos <= L + 65 /\ L \in Nat
    BY <1>1, <1>3, Facts DEF PlaceInv, InHead, InFile
  <2>2. (pos = L + 65) => R[pos] = "cr"
    BY Facts DEF Closing
  <2>3. pos \in Nat /\ (pos + 1) - 1 = pos
    BY Place
  <2>. QED
    BY <1>1, <1>3, <2>1, <2>2, <2>3 DEF Moves, PlaceInv, InFile
<1>. QED
  BY <1>2, <1>3, Place

LEMMA PlaceAlmostBoundary ==
  ASSUME file \in Files, Multipart!UploadTypeOK, PlaceInv, NEW last,
         Multipart!AlmostBoundary(last), st' # "stopped"
  PROVE  PlaceInv'
<1>1. st = "almost_boundary" /\ R[pos] = "lf" /\ Moves("boundary", 0)
  BY Place, GoneTo DEF Multipart!AlmostBoundary
<1>2. CASE pos <= 65
  BY <1>1, <1>2 DEF Moves, PlaceInv, InHead
<1>3. CASE pos > 65
  <2>1. pos <= L + 66 /\ L \in Nat /\ R[pos - 1] = "cr"
    BY <1>1, <1>3, Facts, Place DEF PlaceInv, InFile
  <2>2. pos \in Nat /\ (pos + 1) - 1 = pos /\ (pos + 1) - 2 = pos - 1
    BY Place
  <2>. QED
    BY <1>1, <1>3, <2>1, <2>2 DEF Moves, PlaceInv, InFile
<1>. QED
  BY <1>2, <1>3, Place

LEMMA PlaceNoBoundary ==
  ASSUME file \in Files, Multipart!UploadTypeOK, PlaceInv, Multipart!NoBoundary
  PROVE  pos \in 66 .. L + 65 /\ (st' # "stopped" => PlaceInv')
<1>1. /\ \/ st = "almost_boundary" /\ R[pos] # "lf"
         \/ st = "boundary" /\ R[pos] # Multipart!Boundary[index + 1]
      /\ pos' = pos /\ R' = R /\ L' = L /\ st' \in {"stopped", "data"}
  BY Place, Steady DEF Multipart!NoBoundary
<1>2. pos > 65
  <2>1. CASE pos <= 65 /\ st = "almost_boundary"
    <3>1. pos \in {20, 40}
      BY <2>1 DEF PlaceInv, InHead
    <3>. QED
      BY <1>1, <2>1, <3>1, Spots
  <2>2. CASE pos <= 65 /\ st = "boundary"
    <3>1. (pos \in {21, 41} /\ index + 1 = 1) \/ (pos \in {22, 42} /\ index + 1 = 2)
      BY <2>2 DEF PlaceInv, InHead
    <3>2. (pos \in {21, 41} => R[pos] = "-") /\ (pos \in {22, 42} => R[pos] = "B")
      BY Spots
    <3>. QED
      BY <1>1, <2>2, <3>1, <3>2, Pieces
  <2>. QED
    BY <1>1, <2>1, <2>2, Place
<1>3. pos <= L + 65 /\ L \in Nat
  <2>1. L \in Nat /\ Closing(R, L)
    BY Facts
  <2>2. InFile
    BY <1>2, Place DEF PlaceInv
  <2>3. CASE st = "almost_boundary"
    <3>1. pos <= L + 66
      BY <2>2, <2>3 DEF InFile
    <3>2. pos # L + 66
      BY <1>1, <2>1, <2>3 DEF Closing
    <3>. QED
      BY <2>1, <3>1, <3>2, Place
  <2>4. CASE st = "boundary" /\ index = 0
    <3>1. pos \in 67 .. L + 67 /\ R[pos - 2] = "cr" /\ R[pos - 1] = "lf" /\ R[pos] # "-"
      BY <1>1, <2>2, <2>4, Pieces DEF InFile
    <3>2. pos # L + 67
      BY <2>1, <3>1 DEF Closing
    <3>3. pos # L + 66
      <4>1. (L + 66) - 1 = L + 65
        BY <2>1
      <4>. QED
        BY <2>1, <3>1, <4>1 DEF Closing
    <3>. QED
      BY <2>1, <3>1, <3>2, <3>3
  <2>5. CASE st = "boundary" /\ index = 1
    <3>1. /\ pos \in 68 .. L + 68 /\ R[pos - 3] = "cr" /\ R[pos - 2] = "lf" /\ R[pos - 1] = "-"
          /\ R[pos] # "B"
      BY <1>1, <2>2, <2>5, Pieces DEF InFile
    <3>2. pos # L + 68
      BY <2>1, <3>1 DEF Closing
    <3>3. pos # L + 67 /\ pos # L + 66
      <4>1. (L + 67) - 1 = L + 66 /\ (L + 66) - 1 = L + 65
        BY <2>1
      <4>. QED
        BY <2>1, <3>1, <4>1 DEF Closing
    <3>. QED
      BY <2>1, <3>1, <3>2, <3>3
  <2>. QED
    BY <1>1, <2>2, <2>3, <2>4, <2>5 DEF InFile
<1>. QED
  BY <1>1, <1>2, <1>3, Place DEF PlaceInv, InFile

\* The file has no delimiter in it, so the first one ends it.
LEMMA DelimiterIsTheEnd ==
  ASSUME file \in Files, NEW p \in 68 .. L + 68,
         R[p - 3] = "cr", R[p - 2] = "lf", R[p - 1] = "-", R[p] = "B"
  PROVE  p = L + 68
<1>0. /\ L \in Nat /\ Closing(R, L) /\ file \in Seq(Symbols)
      /\ \A i \in 1 .. L : R[64 + i] = file[i]
  BY Facts
<1>1. CASE p <= L + 64
  <2>. DEFINE q == p - 68
  <2>1. q \in 0 .. L - 4 /\ p - 3 = 64 + (q + 1) /\ p - 2 = 64 + (q + 2) /\ p - 1 = 64 + (q + 3)
        /\ p = 64 + (q + 4)
    BY <1>0, <1>1
  <2>. HIDE DEF q
  <2>2. q + 1 \in 1 .. L /\ q + 2 \in 1 .. L /\ q + 3 \in 1 .. L /\ q + 4 \in 1 .. L
    BY <1>0, <2>1
  <2>3. file[q + 1] = "cr" /\ file[q + 2] = "lf" /\ file[q + 3] = "-" /\ file[q + 4] = "B"
    BY <1>0, <2>1, <2>2
  <2>. DEFINE d == SubSeq(file, q + 1, q + 4)
  <2>4. d \in Seq(Symbols) /\ Len(d) = 4 /\ d[1] = "cr" /\ d[2] = "lf" /\ d[3] = "-" /\ d[4] = "B"
    <3>1. /\ d \in Seq(Symbols) /\ Len(d) = (q + 4) + 1 - (q + 1)
          /\ \A i \in 1 .. (q + 4) + 1 - (q + 1) : d[i] = file[(q + 1) + i - 1]
      <4>1. /\ q + 1 \in Nat /\ q + 4 \in Nat /\ 1 <= q + 1 /\ q + 1 <= (q + 4) + 1
            /\ q + 4 <= Len(file)
        BY <1>0, <2>1, <2>2 DEF L
      <4>2. PICK k, e \in Nat : k = q + 1 /\ e = q + 4
        BY <4>1
      <4>3. /\ SubSeq(file, k, e) \in Seq(Symbols) /\ Len(SubSeq(file, k, e)) = e + 1 - k
            /\ \A i \in 1 .. e + 1 - k : SubSeq(file, k, e)[i] = file[k + i - 1]
        <5>1. 1 <= k /\ k <= e + 1 /\ e <= Len(file) /\ file \in Seq(Symbols)
          BY <1>0, <4>1, <4>2
        <5>. HIDE DEF d
        <5>. QED
          BY <5>1, RunIs
      <4>. QED
        BY <4>2, <4>3
    <3>. HIDE DEF d
    <3>2. (q + 4) + 1 - (q + 1) = 4 /\ (q + 1) + 1 - 1 = q + 1 /\ (q + 1) + 2 - 1 = q + 2
          /\ (q + 1) + 3 - 1 = q + 3 /\ (q + 1) + 4 - 1 = q + 4
      BY <2>1
    <3>3. /\ d[1] = file[(q + 1) + 1 - 1] /\ d[2] = file[(q + 1) + 2 - 1]
          /\ d[3] = file[(q + 1) + 3 - 1] /\ d[4] = file[(q + 1) + 4 - 1]
      BY <3>1, <3>2
    <3>. QED
      BY <2>3, <3>1, <3>2, <3>3
  <2>. HIDE DEF d
  <2>5. d = Multipart!Delimiter
    <3>. DEFINE e == Multipart!CRLF \o Multipart!Boundary
    <3>1. e = Multipart!Delimiter
      BY DEF Multipart!Delimiter
    <3>2. Joined(Multipart!CRLF, 2, Multipart!Boundary, 2, e)
      BY Concat, Pieces
    <3>. HIDE DEF e
    <3>3. /\ e \in Seq(Symbols) /\ Len(e) = 4 /\ e[1] = "cr" /\ e[2] = "lf"
          /\ e[2 + 1] = "-" /\ e[2 + 2] = "B"
      BY <3>2, Pieces DEF Joined
    <3>4. \A i \in 1 .. 4 : d[i] = e[i]
      BY <2>4, <3>3
    <3>. QED
      BY <2>4, <3>1, <3>3, <3>4
  <2>6. \A i \in 0 .. L - 4 : SubSeq(file, i + 1, i + 4) # Multipart!Delimiter
    BY GatewayAssumption DEF Multipart!UploadAssumption, L
  <2>. QED
    BY <2>1, <2>5, <2>6 DEF d
<1>2. CASE p \in {L + 65, L + 66, L + 67}
  BY <1>0, <1>2 DEF Closing
<1>. QED
  BY <1>0, <1>1, <1>2

LEMMA PlaceBoundary ==
  ASSUME file \in Files, Multipart!UploadTypeOK, PlaceInv, NEW last,
         Multipart!InBoundary(last)
  PROVE  /\ st' # "stopped" => PlaceInv'
         /\ (pos > 65 /\ index = 1) => pos = L + 68
<1>1. /\ st = "boundary" /\ R[pos] = Multipart!Boundary[index + 1]
      /\ st' # "stopped" =>
           IF index + 1 = 2 THEN Moves("almost_end", index + 1) ELSE Moves("boundary", index + 1)
  BY Place, GoneTo, Pieces DEF Multipart!InBoundary
<1>2. CASE pos <= 65
  BY <1>1, <1>2 DEF Moves, PlaceInv, InHead
<1>3. CASE pos > 65 /\ index = 0
  <2>1. pos \in 67 .. L + 67 /\ L \in Nat /\ R[pos - 2] = "cr" /\ R[pos - 1] = "lf" /\ R[pos] = "-"
    BY <1>1, <1>3, Facts, Place, Pieces DEF PlaceInv, InFile
  <2>2. (pos + 1) - 3 = pos - 2 /\ (pos + 1) - 2 = pos - 1 /\ (pos + 1) - 1 = pos
    BY Place
  <2>. QED
    BY <1>1, <1>3, <2>1, <2>2 DEF Moves, PlaceInv, InFile
<1>4. CASE pos > 65 /\ index # 0
  <2>1. /\ index = 1 /\ pos \in 68 .. L + 68
        /\ R[pos - 3] = "cr" /\ R[pos - 2] = "lf" /\ R[pos - 1] = "-" /\ R[pos] = "B"
    BY <1>1, <1>4, Place, Pieces DEF PlaceInv, InFile
  <2>2. pos = L + 68 /\ L \in Nat
    BY <2>1, DelimiterIsTheEnd, Facts
  <2>. QED
    BY <1>1, <1>4, <2>1, <2>2 DEF Moves, PlaceInv, InFile
<1>. QED
  BY <1>2, <1>3, <1>4, Place

LEMMA PlaceAfter ==
  ASSUME file \in Files, Multipart!UploadTypeOK, PlaceInv, NEW last,
         Multipart!AfterBoundary(last), st' # "stopped"
  PROVE  PlaceInv'
<1>1. \/ st = "almost_end" /\ R[pos] = "-" /\ Moves("final_hyphen", index)
      \/ st = "almost_end" /\ R[pos] = "cr" /\ Moves("data_end", index)
      \/ st = "final_hyphen" /\ R[pos] = "-" /\ Moves("end", index)
      \/ st = "data_end" /\ R[pos] = "lf" /\ Moves("field", index)
      \/ st = "end" /\ Moves("end", index)
  BY Place, GoneTo DEF Multipart!AfterBoundary
<1>2. CASE pos <= 65
  <2>1. (st = "almost_end" /\ pos \in {23, 43}) \/ (st = "data_end" /\ pos \in {24, 44})
    BY <1>1, <1>2 DEF PlaceInv, InHead
  <2>2. pos \in {23, 43} => R[pos] = "cr"
    BY Spots
  <2>. QED
    BY <1>1, <1>2, <2>1, <2>2 DEF Moves, PlaceInv, InHead
<1>3. CASE pos > 65
  <2>1. L \in Nat /\ Closing(R, L)
    BY Facts
  <2>2. \/ st = "almost_end" /\ pos = L + 69
        \/ st = "final_hyphen" /\ pos = L + 70
        \/ st = "end" /\ pos > L + 70
    BY <1>1, <1>3, Place DEF PlaceInv, InFile
  <2>3. pos = L + 69 => R[pos] = "-"
    BY <2>1 DEF Closing
  <2>. QED
    BY <1>1, <1>3, <2>1, <2>2, <2>3, Place DEF Moves, PlaceInv, InFile
<1>. QED
  BY <1>2, <1>3, Place

-----------------------------------------------------------------------------
(* Every step keeps the invariant, and passes on what is next in the file  *)
(* or nothing.                                                             *)

Reads ==
  \/ h'.temp = h.temp /\ h'.answer # "stored"
  \/ /\ \E a, b \in 0 .. L : a <= b /\ h.temp = SubSeq(file, 1, a) /\ h'.temp = SubSeq(file, 1, b)
     /\ h'.answer # "stored"
  \/ h'.answer = "stored" /\ h'.temp = h.temp /\ h.temp = file

\* What is wanted of a step.
Kept == UploadInv' /\ Reads

Running == UploadInv /\ st # "stopped"

PStates == {"start", "field", "headers_almost_done", "value_start", "value",
            "value_almost_done", "data_start", "data", "almost_boundary", "boundary",
            "almost_end", "final_hyphen", "data_end", "end"}

LEMMA Given ==
  ASSUME Running
  PROVE  /\ file \in Files /\ Multipart!UploadTypeOK /\ h \in States
         /\ PlaceInv /\ PendingInv /\ CallbackInv
         /\ h.answer = "none"
BY DEF Running, UploadInv, CallbackInv

LEMMA Typed ==
  ASSUME Running, NEW t \in PStates, NEW i \in 0 .. 3, NEW last \in BOOLEAN, NEW keep,
         Multipart!More, Multipart!Goto(t, i, last, keep), h' \in States
  PROVE  /\ file' \in Files /\ Multipart!UploadTypeOK' /\ file' = file /\ R' = R /\ L' = L
         /\ pos' = pos + 1 /\ index' = i /\ pending' = IF last THEN <<>> ELSE keep
         /\ st' = IF h'.answer # "none" THEN "stopped" ELSE t
<1>1. file' = file /\ R' = R /\ L' = L
  BY Steady DEF Multipart!Goto
<1>2. /\ pos' = pos + 1 /\ index' = i /\ pending' = IF last THEN <<>> ELSE keep
      /\ st' = IF h'.answer # "none" THEN "stopped" ELSE t
      /\ cut' \in BOOLEAN
  BY Given DEF Multipart!Goto, Multipart!UploadTypeOK
<1>3. pos' \in 1 .. Len(Multipart!Request(file)) + 1
  BY <1>2, Given, Place, Facts DEF Multipart!UploadTypeOK, R
<1>4. index' \in 0 .. Len(Multipart!Boundary) + 1
  BY <1>2, Pieces
<1>5. st' \in {"start", "field", "headers_almost_done", "value_start", "value",
               "value_almost_done", "data_start", "data", "almost_boundary", "boundary",
               "almost_end", "final_hyphen", "data_end", "end", "stopped"}
  BY <1>2 DEF PStates
<1>6. /\ h'.part \in Multipart!Parts \cup {"unknown"} /\ h'.sid \in {"none", "whole", "piece"}
      /\ h'.path \in {"none", "whole", "piece", "root"}
  BY DEF States, PartTypes
<1>7. Multipart!UploadTypeOK'
  BY <1>1, <1>2, <1>3, <1>4, <1>5, <1>6 DEF Multipart!UploadTypeOK
<1>. QED
  BY <1>1, <1>2, <1>7, Given

\* What is pending, and this symbol.
LEMMA SeenIs ==
  ASSUME Running, Multipart!More, NEW m \in 1 .. pos, pending = Run(m)
  PROVE  /\ Multipart!Seen = SubSeq(R, m, pos) /\ Multipart!Seen \in Seq(Symbols)
         /\ pending \in Seq(Symbols)
         /\ (pos' = pos + 1 /\ R' = R) => Multipart!Seen = Run(m)'
<1>1. /\ R \in Seq(Symbols) /\ m \in Nat /\ pos \in Nat /\ 1 <= m /\ m <= pos /\ pos <= Len(R)
      /\ pos - 1 \in Nat /\ m <= (pos - 1) + 1 /\ pos - 1 <= Len(R) /\ (pos + 1) - 1 = pos
      /\ m <= pos + 1
  BY Given, Facts, Place
<1>2. Append(SubSeq(R, m, pos - 1), R[pos]) = SubSeq(R, m, pos)
  BY <1>1, RunGrows
<1>3. SubSeq(R, m, pos) \in Seq(Symbols) /\ SubSeq(R, m, pos - 1) \in Seq(Symbols)
  BY <1>1, RunIs
<1>4. Multipart!Seen = SubSeq(R, m, pos)
  BY <1>2, Given, Place DEF Multipart!Seen, Run
<1>5. (pos' = pos + 1 /\ R' = R) => Run(m)' = SubSeq(R, m, pos)
  BY <1>1 DEF Run
<1>. QED
  BY <1>3, <1>4, <1>5 DEF Run

LEMMA NothingIsPending ==
  ASSUME Running, Multipart!More
  PROVE  /\ Run(pos) = <<>>
         /\ \A m : (pos' = pos + 1 /\ R' = R /\ m = pos + 1) => Run(m)' = <<>>
<1>1. /\ R \in Seq(Symbols) /\ pos \in Nat /\ 1 <= pos /\ pos <= Len(R) + 1
      /\ pos + 1 \in Nat /\ 1 <= pos + 1 /\ pos + 1 <= Len(R) + 1
  BY Given, Facts, Place
<1>2. SubSeq(R, pos, pos - 1) = <<>> /\ SubSeq(R, pos + 1, (pos + 1) - 1) = <<>>
  BY <1>1, RunIsEmpty
<1>. QED
  BY <1>2 DEF Run

\* A step of the head that leaves nothing pending.
LEMMA NothingLeft ==
  ASSUME Running, Multipart!More, pos' = pos + 1, R' = R, pending' = <<>>, pos <= 64,
         st' \notin {"value", "data"}
  PROVE  PendingInv'
<1>1. PICK m : m = pos + 1
  OBVIOUS
<1>2. Run(m)' = <<>> /\ m \in 1 .. pos' /\ ~(pos' > 65)
  BY <1>1, NothingIsPending, Given, Place
<1>. QED
  BY <1>2 DEF PendingInv

\* A step before the file that is not about data.
LEMMA CallbacksBefore ==
  ASSUME Running, h' \in States, Alike(h, h'), h'.answer = "none",
         pos' = pos + 1, R' = R, L' = L, pos <= 64, pos \notin {17, 22, 37, 42},
         st' \notin {"almost_end", "final_hyphen", "end"},
         \/ h'.part = h.part
         \/ pos <= 16 /\ h'.part \in {"sessionid", "filedata"}
         \/ pos \in 23 .. 36 /\ h'.part \in {"filename", "filedata"}
         \/ pos \in 43 .. 64 /\ h'.part = "filedata"
  PROVE  CallbackInv' /\ Reads
<1>1. CallbackInv /\ pos \in Nat
  BY Given, Place
<1>2. Reads
  BY DEF Reads, Alike
<1>3. /\ h'.answer = "none" /\ h'.target = Multipart!Old /\ ~h'.elsewhere /\ h'.temp = <<>>
      /\ pos' <= 17 => h'.sid = "none"
      /\ pos' <= 37 => h'.path = "none"
  BY <1>1 DEF Alike, CallbackInv
<1>4. h'.part \in IF pos' <= 22 THEN {"unknown", "sessionid", "filedata"}
                  ELSE IF pos' <= 42 THEN {"unknown", "filename", "filedata"}
                  ELSE {"unknown", "filedata"}
  BY <1>1 DEF CallbackInv
<1>5. pos' \in 18 .. 22 \cup 38 .. 42 => h'.part # "filedata"
  BY <1>1 DEF CallbackInv
<1>6. ~(pos' > 65)
  BY <1>1
<1>. QED
  BY <1>2, <1>3, <1>4, <1>5, <1>6 DEF CallbackInv

LEMMA StepStart ==
  ASSUME Running, NEW last \in BOOLEAN, Multipart!StartBoundary(last)
  PROVE  Kept
<1>1. /\ Multipart!More /\ st = "start" /\ pos \in 1 .. 4 /\ index = pos - 1 /\ h' = h
      /\ IF index = 3 THEN Multipart!Goto("field", 0, last, <<>>)
                      ELSE Multipart!Goto("start", index + 1, last, <<>>)
  BY Given, Place, Pieces DEF Multipart!StartBoundary, Multipart!Quiet
<1>2. h' \in States /\ h'.answer = "none" /\ Alike(h, h') /\ h'.part = h.part
  BY <1>1, Given DEF Alike
<1>3. PICK t \in {"field", "start"}, i \in 0 .. 3 : Multipart!Goto(t, i, last, <<>>)
  BY <1>1
<1>4. /\ file' \in Files /\ Multipart!UploadTypeOK' /\ file' = file /\ R' = R /\ L' = L
      /\ pos' = pos + 1 /\ pending' = <<>> /\ st' = t
  BY <1>1, <1>2, <1>3, Typed DEF PStates
<1>5. PlaceInv'
  BY <1>1, <1>4, Given, PlaceStart
<1>6. PendingInv'
  BY <1>1, <1>4, NothingLeft
<1>7. CallbackInv' /\ Reads
  BY <1>1, <1>2, <1>4, CallbacksBefore
<1>. QED
  BY <1>2, <1>4, <1>5, <1>6, <1>7 DEF Kept, UploadInv

LEMMA StepField ==
  ASSUME Running, NEW last \in BOOLEAN, Multipart!HeaderName(last)
  PROVE  Kept
<1>1. Multipart!More /\ st = "field"
  BY DEF Multipart!HeaderName
<1>2. pos \in {5, 6, 7, 8, 15, 25, 26, 27, 28, 35, 45, 46, 47, 48, 55, 56, 57, 58, 63}
  BY <1>1, Given, Place DEF PlaceInv, InHead, InFile
<1>3. PICK t \in {"field", "value_start", "headers_almost_done"}, keep \in {<<>>, Multipart!Seen} :
        /\ Multipart!Goto(t, index, last, keep)
        /\ keep # <<>> => t = "field"
  BY <1>1, Given, Place DEF Multipart!HeaderName
<1>4. h' = h \/ \E d : h' \in Multipart!HeaderField(h, d)
  BY DEF Multipart!HeaderName, Multipart!Quiet
<1>5. h' \in States /\ h'.answer = "none" /\ Alike(h, h') /\ h'.part = h.part
  <2>1. CASE h' = h
    BY <2>1, Given DEF Alike
  <2>2. CASE \E d : h' \in Multipart!HeaderField(h, d)
    BY <2>2, Given, HeaderFieldIs
  <2>. QED
    BY <1>4, <2>1, <2>2
<1>6. index \in 0 .. 3
  BY Given, Pieces DEF Multipart!UploadTypeOK
<1>7. /\ file' \in Files /\ Multipart!UploadTypeOK' /\ file' = file /\ R' = R /\ L' = L
      /\ pos' = pos + 1 /\ pending' = (IF last THEN <<>> ELSE keep) /\ st' = t
  BY <1>1, <1>3, <1>5, <1>6, Typed DEF PStates
<1>8. PlaceInv'
  BY <1>3, <1>7, Given, PlaceField
<1>9. PendingInv'
  <2>1. CASE pending' = <<>>
    BY <1>1, <1>2, <1>3, <1>7, <2>1, NothingLeft
  <2>2. CASE pending' = Multipart!Seen /\ t = "field"
    <3>1. PICK m \in 1 .. pos : pending = Run(m)
      BY <1>1, Given DEF PendingInv
    <3>2. pending' = Run(m)' /\ m \in 1 .. pos' /\ ~(pos' > 65)
      BY <1>1, <1>2, <1>7, <2>2, <3>1, SeenIs, Given, Place
    <3>. QED
      BY <1>7, <2>2, <3>2 DEF PendingInv
  <2>. QED
    BY <1>3, <1>7, <2>1, <2>2
<1>a. CallbackInv' /\ Reads
  BY <1>2, <1>3, <1>5, <1>7, CallbacksBefore
<1>. QED
  BY <1>3, <1>5, <1>7, <1>8, <1>9, <1>a DEF Kept, UploadInv

\* A step of the head that no callback sees, and that leaves nothing pending.
LEMMA QuietRead ==
  ASSUME Running, Multipart!More, NEW last \in BOOLEAN, NEW t \in PStates, h' = h,
         Multipart!Goto(t, index, last, <<>>), PlaceInv', pos <= 64, pos \notin {17, 22, 37, 42},
         t \notin {"value", "data", "almost_end", "final_hyphen", "end"}
  PROVE  Kept
<1>1. h' \in States /\ h'.answer = "none" /\ Alike(h, h') /\ h'.part = h.part
  BY Given DEF Alike
<1>2. index \in 0 .. 3
  BY Given, Pieces DEF Multipart!UploadTypeOK
<1>3. /\ file' \in Files /\ Multipart!UploadTypeOK' /\ file' = file /\ R' = R /\ L' = L
      /\ pos' = pos + 1 /\ pending' = <<>> /\ st' = t
  BY <1>1, <1>2, Typed
<1>4. PendingInv'
  BY <1>3, NothingLeft
<1>5. CallbackInv' /\ Reads
  BY <1>1, <1>3, CallbacksBefore
<1>. QED
  BY <1>1, <1>3, <1>4, <1>5 DEF Kept, UploadInv, PStates

LEMMA StepHeaders ==
  ASSUME Running, NEW last \in BOOLEAN, Multipart!HeadersAlmostDone(last)
  PROVE  Kept
<1>1. /\ Multipart!More /\ st = "headers_almost_done" /\ h' = h
      /\ Multipart!Goto("data_start", index, last, <<>>)
  BY DEF Multipart!HeadersAlmostDone, Multipart!Quiet
<1>2. pos \in {16, 36, 64}
  BY <1>1, Given, Place DEF PlaceInv, InHead, InFile
<1>3. st' # "stopped"
  BY <1>1, Given DEF Multipart!Goto
<1>4. PlaceInv'
  BY <1>3, Given, PlaceHeaders
<1>. QED
  BY <1>1, <1>2, <1>4, QuietRead DEF PStates

LEMMA StepValueStart ==
  ASSUME Running, NEW last \in BOOLEAN, Multipart!ValueStart(last)
  PROVE  Kept
<1>1. /\ Multipart!More /\ st = "value_start" /\ h' = h
      /\ Multipart!Goto("value_start", index, last, <<>>)
  BY DEF Multipart!ValueStart, Multipart!Quiet
<1>2. pos \in {9, 10, 29, 30, 49, 50, 59, 60}
  BY <1>1, Given, Place DEF PlaceInv, InHead, InFile
<1>3. st' # "stopped"
  BY <1>1, Given DEF Multipart!Goto
<1>4. PlaceInv'
  BY <1>3, Given, PlaceValueStart
<1>. QED
  BY <1>1, <1>2, <1>4, QuietRead DEF PStates

LEMMA StepValueDone ==
  ASSUME Running, NEW last \in BOOLEAN, Multipart!ValueAlmostDone(last)
  PROVE  Kept
<1>1. /\ Multipart!More /\ st = "value_almost_done" /\ h' = h
      /\ Multipart!Goto("field", index, last, <<>>)
  BY DEF Multipart!ValueAlmostDone, Multipart!Quiet
<1>2. pos \in {14, 34, 54, 62}
  BY <1>1, Given, Place DEF PlaceInv, InHead, InFile
<1>3. st' # "stopped"
  BY <1>1, Given DEF Multipart!Goto
<1>4. PlaceInv'
  BY <1>3, Given, PlaceValueDone
<1>. QED
  BY <1>1, <1>2, <1>4, QuietRead DEF PStates

\* What is handed on of a value begins with "form" only if it is from its beginning.
LEMMA FormIs ==
  ASSUME Running, Multipart!More, NEW m \in 1 .. pos, NEW e \in {pos - 1, pos},
         \/ pos \in 10 .. 13 /\ m >= 10
         \/ pos \in 30 .. 33 /\ m >= 30
         \/ pos \in 50 .. 53 /\ m >= 50
         \/ pos \in 60 .. 61 /\ m >= 60,
         NEW d, d = SubSeq(R, m, e), Multipart!IsPrefix(<<"form">>, d)
  PROVE  /\ m \in {10, 30, 50} /\ pos <= 53 /\ m <= pos
         /\ Len(d) = e + 1 - m /\ Len(d) >= 1
         /\ Len(d) >= 2 => d[2] = NameAt(pos)
<1>1. R \in Seq(Symbols) /\ m \in Nat /\ e \in Nat /\ 1 <= m /\ m <= e + 1 /\ e <= Len(R)
  BY Given, Facts, Place
<1>2. /\ d \in Seq(Symbols) /\ Len(d) = e + 1 - m
      /\ \A i \in 1 .. e + 1 - m : d[i] = R[m + i - 1]
  BY <1>1, RunIs
<1>3. Len(d) >= 1 /\ d[1] = "form"
  <2>. DEFINE form == <<"form">>
  <2>1. Len(form) = 1 /\ form[1] = "form" /\ form \in Seq(Symbols)
    BY Literals
  <2>. HIDE DEF form
  <2>2. Len(d) >= 1 /\ SubSeq(form, 1, 1) = SubSeq(d, 1, 1)
    BY <2>1 DEF Multipart!IsPrefix, form
  <2>3. SubSeq(form, 1, 1)[1] = form[1] /\ SubSeq(d, 1, 1)[1] = d[1]
    BY <1>2, <2>1, <2>2
  <2>. QED
    BY <2>1, <2>2, <2>3
<1>4. R[m] = "form"
  <2>1. 1 \in 1 .. e + 1 - m /\ m + 1 - 1 = m
    BY <1>1, <1>2, <1>3
  <2>. QED
    BY <1>2, <1>3, <2>1
<1>5. m \in {10, 30, 50} /\ pos <= 53 /\ m <= pos
  <2>1. m \in 10 .. 13 \/ m \in 30 .. 33 \/ m \in 50 .. 53 \/ m \in 60 .. 61
    BY <1>1
  <2>2. CASE m \in {11, 31, 51, 60}
    BY <1>4, <2>2, Spots, Given
  <2>3. CASE m \in {12, 13, 32, 33}
    BY <1>4, <2>3, Spots, Given
  <2>4. CASE m \in {52, 53, 61}
    BY <1>4, <2>4, Spots, Given
  <2>. QED
    BY <2>1, <2>2, <2>3, <2>4
<1>6. Len(d) >= 2 => d[2] = R[m + 1]
  <2>1. Len(d) >= 2 => 2 \in 1 .. e + 1 - m /\ m + 2 - 1 = m + 1
    BY <1>1, <1>2
  <2>. QED
    BY <1>2, <2>1
<1>7. m + 1 \in {11, 31, 51} /\ R[m + 1] = NameAt(pos)
  <2>1. R[11] = "sessionid" /\ R[31] = "filename" /\ R[51] = "filedata"
    BY Spots, Given
  <2>2. \/ m = 10 /\ m + 1 = 11 /\ pos <= 13
        \/ m = 30 /\ m + 1 = 31 /\ pos <= 33 /\ ~(pos <= 13)
        \/ m = 50 /\ m + 1 = 51 /\ ~(pos <= 33) /\ ~(pos <= 13)
    BY <1>5, Given, Place
  <2>. QED
    BY <2>1, <2>2 DEF NameAt
<1>. QED
  BY <1>2, <1>3, <1>5, <1>6, <1>7

\* Where a value is, and from where on it is pending.
InValue(m) ==
  \/ pos \in 10 .. 13 /\ m >= 10
  \/ pos \in 30 .. 33 /\ m >= 30
  \/ pos \in 50 .. 53 /\ m >= 50
  \/ pos \in 60 .. 61 /\ m >= 60

LEMMA ValueIs ==
  ASSUME Running, Multipart!More, NEW m \in 1 .. pos, NEW e \in {pos - 1, pos}, InValue(m),
         NEW s \in States, NEW d, d = SubSeq(R, m, e), NEW t \in Multipart!HeaderValue(s, d)
  PROVE  /\ t \in States /\ Alike(s, t) /\ t.answer = s.answer /\ t.cd = s.cd
         /\ t.part = s.part \/ (pos <= 53 /\ t.part \in {"filedata", NameAt(pos)})
<1>1. d \in Seq(Symbols)
  <2>1. R \in Seq(Symbols) /\ m \in Nat /\ e \in Nat /\ 1 <= m /\ m <= e + 1 /\ e <= Len(R)
    BY Given, Facts, Place
  <2>. QED
    BY <2>1, RunIs
<1>2. Multipart!IsPrefix(<<"form">>, d) => pos <= 53 /\ (Len(d) >= 2 => d[2] = NameAt(pos))
  BY FormIs DEF InValue
<1>3. NameAt(pos) \in PartTypes
  BY DEF NameAt, PartTypes, Multipart!Parts
<1>. QED
  BY <1>1, <1>2, <1>3, HeaderValueIs

\* Where the parser is in a value.
LEMMA ValuePlace ==
  ASSUME Running, NEW last, Multipart!HeaderBody(last)
  PROVE  /\ Multipart!More /\ pos \in {10, 11, 12, 13, 30, 31, 32, 33, 50, 51, 52, 53, 60, 61}
         /\ (R[pos] = "cr" <=> pos \in {13, 33, 53, 61})
         /\ \E m \in 1 .. pos : pending = Run(m) /\ InValue(m)
<1>1. Multipart!More /\ st \in {"value_start", "value"} /\ ~(st = "value_start" /\ R[pos] = "space")
  BY Given, Place DEF Multipart!HeaderBody
<1>2. CASE st = "value_start"
  <2>1. pos \in {9, 10, 29, 30, 49, 50, 59, 60}
    BY <1>2, Given, Place DEF PlaceInv, InHead, InFile
  <2>2. pos \notin {9, 29, 49, 59}
    BY <1>1, <1>2, Spots, Given
  <2>3. R[pos] # "cr"
    <3>1. CASE pos \in {10, 30, 50}
      BY <3>1, Spots, Given
    <3>2. CASE pos = 60
      BY <3>2, Spots, Given
    <3>. QED
      BY <2>1, <2>2, <3>1, <3>2
  <2>4. pending = Run(pos)
    BY <1>1, <1>2, NothingIsPending, Given DEF PendingInv
  <2>5. InValue(pos) /\ pos \in 1 .. pos
    BY <2>1, <2>2 DEF InValue
  <2>. QED
    BY <1>1, <2>1, <2>2, <2>3, <2>4, <2>5
<1>3. CASE st = "value"
  <2>1. pos \in {11, 12, 13, 31, 32, 33, 51, 52, 53, 61}
    BY <1>3, Given, Place DEF PlaceInv, InHead, InFile
  <2>2. R[pos] = "cr" <=> pos \in {13, 33, 53, 61}
    <3>1. CASE pos \in {13, 33, 53, 61}
      BY <3>1, Spots, Given
    <3>2. CASE pos \in {11, 31, 51}
      BY <3>2, Spots, Given
    <3>3. CASE pos \in {12, 32, 52}
      BY <3>3, Spots, Given
    <3>. QED
      BY <2>1, <3>1, <3>2, <3>3
  <2>3. PICK m \in 1 .. pos :
          /\ pending = Run(m)
          /\ \/ pos <= 13 /\ m >= 10
             \/ pos \in 31 .. 33 /\ m >= 30
             \/ pos \in 51 .. 53 /\ m >= 50
             \/ m >= 60
    BY <1>3, Given DEF PendingInv
  <2>4. InValue(m)
    BY <2>1, <2>3 DEF InValue
  <2>. QED
    BY <1>1, <2>1, <2>2, <2>3, <2>4
<1>. QED
  BY <1>1, <1>2, <1>3

\* What comes of a value.
LEMMA ValueEffect ==
  ASSUME Running, NEW last \in BOOLEAN, Multipart!HeaderBody(last)
  PROVE  /\ h' \in States /\ h'.answer = "none" /\ Alike(h, h') /\ h'.cd = h.cd
         /\ h'.part = h.part \/ (pos <= 53 /\ h'.part \in {"filedata", NameAt(pos)})
<1>1. /\ Multipart!More /\ pos \in {10, 11, 12, 13, 30, 31, 32, 33, 50, 51, 52, 53, 60, 61}
      /\ (R[pos] = "cr" <=> pos \in {13, 33, 53, 61})
  BY ValuePlace
<1>2. PICK m \in 1 .. pos : pending = Run(m) /\ InValue(m)
  BY ValuePlace
<1>3. pending = SubSeq(R, m, pos - 1) /\ Multipart!Seen = SubSeq(R, m, pos)
  BY <1>1, <1>2, SeenIs DEF Run
<1>4. \A s \in States : \A t \in Multipart!HeaderValue(s, pending) \cup Multipart!HeaderValue(s, Multipart!Seen) :
        /\ t \in States /\ Alike(s, t) /\ t.answer = s.answer /\ t.cd = s.cd
        /\ t.part = s.part \/ (pos <= 53 /\ t.part \in {"filedata", NameAt(pos)})
  <2>1. ASSUME NEW e \in {pos - 1, pos}, NEW s \in States, NEW d, d = SubSeq(R, m, e),
               NEW t \in Multipart!HeaderValue(s, d)
        PROVE  /\ t \in States /\ Alike(s, t) /\ t.answer = s.answer /\ t.cd = s.cd
               /\ t.part = s.part \/ (pos <= 53 /\ t.part \in {"filedata", NameAt(pos)})
    BY <1>1, <1>2, <2>1, ValueIs
  <2>2. pending = SubSeq(R, m, pos - 1) => \A s \in States : \A t \in Multipart!HeaderValue(s, pending) :
            /\ t \in States /\ Alike(s, t) /\ t.answer = s.answer /\ t.cd = s.cd
            /\ t.part = s.part \/ (pos <= 53 /\ t.part \in {"filedata", NameAt(pos)})
    BY <2>1
  <2>3. Multipart!Seen = SubSeq(R, m, pos) => \A s \in States : \A t \in Multipart!HeaderValue(s, Multipart!Seen) :
            /\ t \in States /\ Alike(s, t) /\ t.answer = s.answer /\ t.cd = s.cd
            /\ t.part = s.part \/ (pos <= 53 /\ t.part \in {"filedata", NameAt(pos)})
    BY <2>1
  <2>. QED
    BY <1>3, <2>2, <2>3
<1>5. \/ h' = h
      \/ h' \in Multipart!HeaderValue(h, pending)
      \/ h' \in Multipart!HeaderValue(h, Multipart!Seen)
      \/ \E s \in Multipart!HeaderValue(h, pending) : h' \in Multipart!HeaderValue(s, Multipart!Seen)
  BY DEF Multipart!HeaderBody, Multipart!Quiet
<1>6. /\ h' \in States /\ h'.answer = "none" /\ Alike(h, h') /\ h'.cd = h.cd
      /\ h'.part = h.part \/ (pos <= 53 /\ h'.part \in {"filedata", NameAt(pos)})
  <2>0. h \in States /\ h.answer = "none" /\ Alike(h, h)
    BY Given DEF Alike
  <2>1. CASE \E s \in Multipart!HeaderValue(h, pending) : h' \in Multipart!HeaderValue(s, Multipart!Seen)
    <3>1. PICK s \in Multipart!HeaderValue(h, pending) : h' \in Multipart!HeaderValue(s, Multipart!Seen)
      BY <2>1
    <3>2. /\ s \in States /\ Alike(h, s) /\ s.answer = "none" /\ s.cd = h.cd
          /\ s.part = h.part \/ (pos <= 53 /\ s.part \in {"filedata", NameAt(pos)})
      BY <1>4, <2>0
    <3>3. /\ h' \in States /\ Alike(s, h') /\ h'.answer = s.answer /\ h'.cd = s.cd
          /\ h'.part = s.part \/ (pos <= 53 /\ h'.part \in {"filedata", NameAt(pos)})
      BY <1>4, <3>1, <3>2
    <3>. QED
      BY <3>2, <3>3 DEF Alike
  <2>. QED
    BY <1>4, <1>5, <2>0, <2>1
<1>. QED
  BY <1>6

LEMMA StepValue ==
  ASSUME Running, NEW last \in BOOLEAN, Multipart!HeaderBody(last)
  PROVE  Kept
<1>1. /\ Multipart!More /\ pos \in {10, 11, 12, 13, 30, 31, 32, 33, 50, 51, 52, 53, 60, 61}
      /\ (R[pos] = "cr" <=> pos \in {13, 33, 53, 61})
  BY ValuePlace
<1>2. PICK m \in 1 .. pos : pending = Run(m) /\ InValue(m)
  BY ValuePlace
<1>6. /\ h' \in States /\ h'.answer = "none" /\ Alike(h, h')
      /\ h'.part = h.part \/ (pos <= 53 /\ h'.part \in {"filedata", NameAt(pos)})
  BY ValueEffect
<1>7. PICK t, keep :
        /\ t \in {"value_almost_done", "value"}
        /\ Multipart!Goto(t, index, last, keep)
        /\ t = "value_almost_done" => keep = <<>>
        /\ t = "value" => keep = Multipart!Seen /\ R[pos] # "cr"
  BY <1>1, Given, Place DEF Multipart!HeaderBody
<1>8. index \in 0 .. 3
  BY Given, Pieces DEF Multipart!UploadTypeOK
<1>9. /\ file' \in Files /\ Multipart!UploadTypeOK' /\ file' = file /\ R' = R /\ L' = L
      /\ pos' = pos + 1 /\ pending' = (IF last THEN <<>> ELSE keep) /\ st' = t
  BY <1>1, <1>6, <1>7, <1>8, Typed DEF PStates
<1>a. PlaceInv'
  BY <1>7, <1>9, Given, PlaceValue
<1>b. PendingInv'
  <2>1. CASE t = "value_almost_done"
    BY <1>1, <1>7, <1>9, <2>1, NothingLeft
  <2>2. CASE t = "value"
    <3>1. PICK k \in {m, pos + 1} : pending' = Run(k)'
      <4>1. CASE last
        <5>1. PICK k : k = pos + 1
          OBVIOUS
        <5>2. Run(k)' = <<>>
          BY <1>1, <1>9, <5>1, NothingIsPending
        <5>. QED
          BY <1>9, <4>1, <5>1, <5>2
      <4>2. CASE ~last
        BY <1>1, <1>2, <1>7, <1>9, <2>2, <4>2, SeenIs
      <4>. QED
        BY <4>1, <4>2
    <3>2. k \in 1 .. pos' /\ ~(pos' > 65)
      BY <1>1, <1>9
    <3>3. \/ pos' <= 13 /\ k >= 10
          \/ pos' \in 31 .. 33 /\ k >= 30
          \/ pos' \in 51 .. 53 /\ k >= 50
          \/ k >= 60
      <4>1. pos \notin {13, 33, 53, 61}
        BY <1>1, <1>7, <2>2
      <4>. QED
        BY <1>1, <1>2, <1>9, <4>1 DEF InValue
    <3>. QED
      BY <1>9, <2>2, <3>1, <3>2, <3>3 DEF PendingInv
  <2>. QED
    BY <1>7, <2>1, <2>2
<1>c. CallbackInv' /\ Reads
  <2>1. \/ h'.part = h.part
        \/ pos <= 16 /\ h'.part \in {"sessionid", "filedata"}
        \/ pos \in 23 .. 36 /\ h'.part \in {"filename", "filedata"}
        \/ pos \in 43 .. 64 /\ h'.part = "filedata"
    BY <1>1, <1>6 DEF NameAt
  <2>. QED
    BY <1>1, <1>6, <1>7, <1>9, <2>1, CallbacksBefore
<1>. QED
  BY <1>6, <1>7, <1>9, <1>a, <1>b, <1>c DEF Kept, UploadInv

\* What is pending of the file makes the temporary file longer.
LEMMA FileRuns ==
  ASSUME file \in Files, NEW m \in Nat, NEW e \in Nat, 65 <= m, m <= e + 1, e <= L + 64
  PROVE  /\ SubSeq(file, 1, m - 65) \o SubSeq(R, m, e) = SubSeq(file, 1, e - 64)
         /\ m - 65 \in 0 .. L /\ e - 64 \in 0 .. L /\ m - 65 <= e - 64
<1>1. /\ file \in Seq(Symbols) /\ R \in Seq(Symbols) /\ L \in Nat /\ L = Len(file)
      /\ Len(R) = L + 72 /\ \A i \in 1 .. L : R[64 + i] = file[i]
  BY Facts DEF L
<1>2. Len(R) >= Len(file) + 64 /\ e <= Len(file) + 64
  BY <1>1
<1>3. SubSeq(file, 1, m - 65) \o SubSeq(R, m, e) = SubSeq(file, 1, e - 64)
  BY <1>1, <1>2, FileGrows
<1>. QED
  BY <1>1, <1>3

LEMMA FileBegins ==
  ASSUME file \in Files
  PROVE  SubSeq(file, 1, 0) = <<>>
<1>1. file \in Seq(Symbols) /\ Len(file) \in Nat
  BY Facts
<1>. QED
  BY <1>1, RunIsEmpty

\* Where the parser is in a part's data.
LEMMA DataPlace ==
  ASSUME Running, NEW last, Multipart!PartData(last)
  PROVE  /\ Multipart!More /\ st \in {"data_start", "data"}
         /\ pos \in {17, 18, 19, 37, 38, 39} \/ pos \in 65 .. L + 65
         /\ st = "data_start" => pos \in {17, 37, 65}
         /\ (R[pos] # "cr" /\ pos >= 65) => pos <= L + 64
         /\ (R[pos] = "cr" /\ pos < 65) => pos \in {19, 39}
         /\ \E m \in 1 .. pos :
              /\ pending = Run(m)
              /\ pos >= 65 => m >= 65 /\ (h.part = "filedata" => h.temp = SubSeq(file, 1, m - 65))
<1>1. Multipart!More /\ st \in {"data_start", "data"}
  BY DEF Multipart!PartData
<1>2. /\ pos \in {17, 18, 19, 37, 38, 39} \/ pos \in 65 .. L + 65
      /\ st = "data_start" => pos \in {17, 37, 65}
  BY <1>1, Given, Place, Facts DEF PlaceInv, InHead, InFile
<1>3. (R[pos] # "cr" /\ pos >= 65) => pos <= L + 64
  <2>1. R[L + 65] = "cr" /\ L \in Nat
    BY Given, Facts DEF Closing
  <2>. QED
    BY <1>2, <2>1
<1>4. (R[pos] = "cr" /\ pos < 65) => pos \in {19, 39}
  BY <1>2, Spots, Given
<1>5. \E m \in 1 .. pos :
        /\ pending = Run(m)
        /\ pos >= 65 => m >= 65 /\ (h.part = "filedata" => h.temp = SubSeq(file, 1, m - 65))
  <2>1. CASE st = "data_start"
    <3>1. pending = Run(pos) /\ pos \in 1 .. pos
      BY <1>1, <2>1, NothingIsPending, Given, Place DEF PendingInv
    <3>2. pos >= 65 => pos = 65 /\ pos - 65 = 0
      BY <1>2, <2>1
    <3>3. pos >= 65 => h.temp = <<>>
      BY <3>2, Given DEF CallbackInv
    <3>. QED
      BY <3>1, <3>2, <3>3, FileBegins, Given
  <2>2. CASE st = "data"
    <3>1. pos # 65
      BY <2>2, Given, Place DEF PlaceInv, InHead
    <3>2. PICK m \in 1 .. pos :
            /\ pending = Run(m)
            /\ pos > 65 => m >= 65 /\ (h.part = "filedata" => h.temp = SubSeq(file, 1, m - 65))
      BY <2>2, Given DEF PendingInv
    <3>. QED
      BY <1>2, <3>1, <3>2
  <2>. QED
    BY <1>1, <2>1, <2>2
<1>. QED
  BY <1>1, <1>2, <1>3, <1>4, <1>5

\* What comes of a part's data.
LEMMA DataEffect ==
  ASSUME Running, NEW last \in BOOLEAN, Multipart!PartData(last),
         NEW m \in 1 .. pos, pending = Run(m)
  PROVE  /\ h' \in States /\ h'.cd = h.cd /\ h'.part = h.part /\ h'.target = h.target
         /\ h'.elsewhere = h.elsewhere /\ h'.answer # "stored"
         /\ h'.answer # "none" => h'.temp = h.temp
         /\ h'.answer = "none" =>
              /\ h.part = "filedata" => pos >= 65
              /\ h.part # "filename" => h'.path = h.path
              /\ h.part # "sessionid" => h'.sid = h.sid
              /\ h.part # "filedata" => h'.temp = h.temp
              /\ h.part = "filedata" =>
                   h'.temp = IF R[pos] = "cr" THEN h.temp \o SubSeq(R, m, pos - 1)
                             ELSE IF last THEN h.temp \o SubSeq(R, m, pos) ELSE h.temp
<1>1. PICK s \in IF st = "data_start" THEN Multipart!DataBegin(h) ELSE {h} :
        IF s.answer # "none" THEN h' = s
        ELSE IF Multipart!Here = "cr" THEN h' \in Multipart!Data(s, pending)
        ELSE IF last THEN h' \in Multipart!Data(s, Multipart!Seen)
        ELSE h' = s
  BY DEF Multipart!PartData
<1>2. /\ Multipart!More /\ st \in {"data_start", "data"}
      /\ pos \in {17, 18, 19, 37, 38, 39} \/ pos \in 65 .. L + 65
      /\ st = "data_start" => pos \in {17, 37, 65}
  BY DataPlace
<1>3. /\ s \in States /\ Alike(h, s) /\ s.cd = h.cd /\ s.part = h.part
      /\ s.answer # "stored"
      /\ (s.answer = "none" /\ h.part = "filedata") => pos >= 65
  <2>1. CASE st = "data_start"
    <3>1. /\ s \in States /\ Alike(h, s) /\ s.cd = h.cd /\ s.part = h.part
          /\ s.answer # "stored"
          /\ (h.part = "filedata" /\ (h.sid = "none" \/ h.path = "none")) => s.answer # "none"
      BY <1>1, <2>1, Given, DataBeginIs
    <3>2. pos < 65 => h.sid = "none" \/ h.path = "none"
      BY <1>2, <2>1, Given DEF CallbackInv
    <3>3. pos < 65 \/ pos >= 65
      BY <1>2, <2>1
    <3>. QED
      BY <3>1, <3>2, <3>3
  <2>2. CASE st = "data"
    <3>1. s = h
      BY <1>1, <2>2
    <3>2. h.part = "filedata" => pos >= 65
      <4>1. pos # 17 /\ pos # 37
        BY <2>2, Given, Place DEF PlaceInv, InHead
      <4>. QED
        BY <1>2, <4>1, Given, Facts DEF CallbackInv
    <3>. QED
      BY <3>1, <3>2, Given DEF Alike
  <2>. QED
    BY <1>2, <2>1, <2>2
<1>4. pending = SubSeq(R, m, pos - 1) /\ Multipart!Seen = SubSeq(R, m, pos)
      /\ pending \in Seq(Symbols) /\ Multipart!Seen \in Seq(Symbols)
  BY <1>2, SeenIs DEF Run
<1>5. Multipart!Here = R[pos]
  BY Given, Place
<1>6. CASE s.answer # "none" \/ (Multipart!Here # "cr" /\ ~last)
  <2>1. h' = s
    BY <1>1, <1>6
  <2>. QED
    BY <1>3, <1>5, <1>6, <2>1 DEF Alike
<1>7. CASE s.answer = "none" /\ Multipart!Here = "cr"
  <2>1. h' \in Multipart!Data(s, pending)
    BY <1>1, <1>7
  <2>0. s \in States /\ s.answer = "none" /\ pending \in Seq(Symbols)
    BY <1>3, <1>4, <1>7
  <2>2. /\ h' \in States /\ h'.cd = s.cd /\ h'.part = s.part /\ h'.target = s.target
        /\ h'.elsewhere = s.elsewhere /\ h'.answer # "stored"
        /\ s.part # "sessionid" => h'.sid = s.sid
        /\ s.part # "filename" => h'.path = s.path
        /\ s.part # "filedata" => h'.temp = s.temp /\ h'.answer = "none"
        /\ (s.part = "filedata" /\ h'.answer = "none") => h'.temp = s.temp \o pending
        /\ h'.answer # "none" => h'.temp = s.temp
    BY <2>0, <2>1, DataIs
  <2>. QED
    BY <1>3, <1>4, <1>5, <1>7, <2>2 DEF Alike
<1>8. CASE s.answer = "none" /\ Multipart!Here # "cr" /\ last
  <2>1. h' \in Multipart!Data(s, Multipart!Seen)
    BY <1>1, <1>8
  <2>0. s \in States /\ s.answer = "none" /\ Multipart!Seen \in Seq(Symbols)
    BY <1>3, <1>4, <1>8
  <2>2. /\ h' \in States /\ h'.cd = s.cd /\ h'.part = s.part /\ h'.target = s.target
        /\ h'.elsewhere = s.elsewhere /\ h'.answer # "stored"
        /\ s.part # "sessionid" => h'.sid = s.sid
        /\ s.part # "filename" => h'.path = s.path
        /\ s.part # "filedata" => h'.temp = s.temp /\ h'.answer = "none"
        /\ (s.part = "filedata" /\ h'.answer = "none") => h'.temp = s.temp \o Multipart!Seen
        /\ h'.answer # "none" => h'.temp = s.temp
    BY <2>0, <2>1, DataIs
  <2>. QED
    BY <1>3, <1>4, <1>5, <1>8, <2>2 DEF Alike
<1>. QED
  BY <1>6, <1>7, <1>8

\* A step that ends the parser without storing the file.
LEMMA Stops ==
  ASSUME Running, h' \in States, h'.target \in {Multipart!Old, Multipart!Gone, file}, file' = file,
         h'.temp = h.temp, h'.answer # "none", h'.answer = "stored" => h.temp = file,
         st' = "stopped", Multipart!UploadTypeOK'
  PROVE  Kept
<1>1. EndInv'
  BY DEF EndInv
<1>2. UploadInv'
  BY <1>1, Given DEF UploadInv
<1>3. Reads
  BY DEF Reads
<1>. QED
  BY <1>2, <1>3 DEF Kept

LEMMA StepData ==
  ASSUME Running, NEW last \in BOOLEAN, Multipart!PartData(last)
  PROVE  Kept
<1>1. /\ Multipart!More /\ st \in {"data_start", "data"}
      /\ pos \in {17, 18, 19, 37, 38, 39} \/ pos \in 65 .. L + 65
      /\ (R[pos] # "cr" /\ pos >= 65) => pos <= L + 64
      /\ (R[pos] = "cr" /\ pos < 65) => pos \in {19, 39}
  BY DataPlace
<1>2. PICK m \in 1 .. pos :
        /\ pending = Run(m)
        /\ pos >= 65 => m >= 65 /\ (h.part = "filedata" => h.temp = SubSeq(file, 1, m - 65))
  BY DataPlace
<1>3. /\ h' \in States /\ h'.cd = h.cd /\ h'.part = h.part /\ h'.target = h.target
      /\ h'.elsewhere = h.elsewhere /\ h'.answer # "stored"
      /\ h'.answer # "none" => h'.temp = h.temp
      /\ h'.answer = "none" =>
           /\ h.part = "filedata" => pos >= 65
           /\ h.part # "filename" => h'.path = h.path
           /\ h.part # "sessionid" => h'.sid = h.sid
           /\ h.part # "filedata" => h'.temp = h.temp
           /\ h.part = "filedata" =>
                h'.temp = IF R[pos] = "cr" THEN h.temp \o SubSeq(R, m, pos - 1)
                          ELSE IF last THEN h.temp \o SubSeq(R, m, pos) ELSE h.temp
  BY <1>2, DataEffect
<1>4. PICK t, keep :
        /\ t \in {"almost_boundary", "data"}
        /\ Multipart!Goto(t, index, last, keep)
        /\ t = "almost_boundary" => keep = <<>> /\ R[pos] = "cr"
        /\ t = "data" => keep = Multipart!Seen /\ R[pos] # "cr"
  BY Given, Place DEF Multipart!PartData
<1>5. index \in 0 .. 3
  BY Given, Pieces DEF Multipart!UploadTypeOK
<1>6. /\ file' \in Files /\ Multipart!UploadTypeOK' /\ file' = file /\ R' = R /\ L' = L
      /\ pos' = pos + 1 /\ index' = index /\ pending' = (IF last THEN <<>> ELSE keep)
      /\ st' = IF h'.answer # "none" THEN "stopped" ELSE t
  BY <1>1, <1>3, <1>4, <1>5, Typed DEF PStates
<1>7. h.target = Multipart!Old /\ ~h.elsewhere /\ L \in Nat
  BY Given, Facts DEF CallbackInv
<1>8. CASE h'.answer # "none"
  BY <1>3, <1>6, <1>7, <1>8, Stops
<1>9. CASE h'.answer = "none"
  <2>1. st' = t /\ PlaceInv'
    BY <1>4, <1>6, <1>9, Given, PlaceData
  <2>. DEFINE n == IF R[pos] = "cr" THEN pos - 65 ELSE IF last THEN pos - 64 ELSE m - 65
  <2>2. h.part = "filedata" =>
          /\ m - 65 \in 0 .. L /\ n \in 0 .. L /\ m - 65 <= n
          /\ h.temp = SubSeq(file, 1, m - 65) /\ h'.temp = SubSeq(file, 1, n)
    <3>. SUFFICES ASSUME h.part = "filedata"
                  PROVE  /\ m - 65 \in 0 .. L /\ n \in 0 .. L /\ m - 65 <= n
                         /\ h.temp = SubSeq(file, 1, m - 65) /\ h'.temp = SubSeq(file, 1, n)
      OBVIOUS
    <3>1. /\ pos \in 65 .. L + 65 /\ m \in Nat /\ 65 <= m /\ m <= pos
          /\ h.temp = SubSeq(file, 1, m - 65)
      BY <1>1, <1>2, <1>3, <1>9
    <3>2. CASE R[pos] = "cr"
      <4>1. pos - 1 \in Nat /\ m <= (pos - 1) + 1 /\ pos - 1 <= L + 64 /\ (pos - 1) - 64 = pos - 65
        BY <1>7, <3>1
      <4>2. /\ SubSeq(file, 1, m - 65) \o SubSeq(R, m, pos - 1) = SubSeq(file, 1, (pos - 1) - 64)
            /\ m - 65 \in 0 .. L /\ (pos - 1) - 64 \in 0 .. L /\ m - 65 <= (pos - 1) - 64
        BY <3>1, <4>1, FileRuns, Given
      <4>3. n = pos - 65
        BY <3>2
      <4>. QED
        BY <1>3, <1>9, <3>1, <3>2, <4>1, <4>2, <4>3
    <3>3. CASE R[pos] # "cr" /\ last
      <4>1. pos \in Nat /\ m <= pos + 1 /\ pos <= L + 64
        BY <1>1, <1>7, <3>1, <3>3
      <4>2. /\ SubSeq(file, 1, m - 65) \o SubSeq(R, m, pos) = SubSeq(file, 1, pos - 64)
            /\ m - 65 \in 0 .. L /\ pos - 64 \in 0 .. L /\ m - 65 <= pos - 64
        BY <3>1, <4>1, FileRuns, Given
      <4>3. n = pos - 64
        BY <3>3
      <4>. QED
        BY <1>3, <1>9, <3>1, <3>3, <4>2, <4>3
    <3>4. CASE R[pos] # "cr" /\ ~last
      <4>1. n = m - 65 /\ m - 65 \in 0 .. L
        BY <1>1, <1>7, <3>1, <3>4
      <4>. QED
        BY <1>3, <1>9, <3>1, <3>4, <4>1
    <3>. QED
      BY <3>2, <3>3, <3>4
  <2>3. Reads
    BY <1>3, <1>9, <2>2 DEF Reads
  <2>4. PendingInv'
    <3>1. CASE t = "almost_boundary"
      BY <2>1, <3>1 DEF PendingInv
    <3>2. CASE t = "data"
      <4>1. PICK k : /\ pending' = Run(k)' /\ k \in 1 .. pos' /\ (pos >= 65 => k >= 65)
                     /\ k = IF last THEN pos + 1 ELSE m
        <5>1. PICK k : k = IF last THEN pos + 1 ELSE m
          OBVIOUS
        <5>2. CASE last
          <6>1. Run(k)' = <<>>
            BY <1>1, <1>6, <5>1, <5>2, NothingIsPending
          <6>. QED
            BY <1>1, <1>6, <1>7, <5>1, <5>2, <6>1
        <5>3. CASE ~last
          <6>1. pending' = Run(m)'
            BY <1>1, <1>2, <1>4, <1>6, <3>2, <5>3, SeenIs
          <6>. QED
            BY <1>1, <1>2, <1>6, <1>7, <5>1, <5>3, <6>1
        <5>. QED
          BY <5>2, <5>3
      <4>2. h'.part = "filedata" => h'.temp = SubSeq(file', 1, k - 65)
        <5>1. n = k - 65
          BY <1>1, <1>4, <1>7, <3>2, <4>1
        <5>. HIDE DEF n
        <5>. QED
          BY <1>3, <1>6, <2>2, <5>1
      <4>3. pos' > 65 => k >= 65
        BY <1>1, <1>6, <1>7, <4>1
      <4>. QED
        BY <2>1, <3>2, <4>1, <4>2, <4>3 DEF PendingInv
    <3>. QED
      BY <1>4, <3>1, <3>2
  <2>5. CallbackInv'
    <3>1. /\ h'.answer = "none" /\ h'.target = Multipart!Old /\ ~h'.elsewhere
          /\ pos' <= 17 => h'.sid = "none"
      BY <1>1, <1>3, <1>6, <1>7, <1>9
    <3>2. (pos' <= 65 \/ h'.part # "filedata") => h'.temp = <<>>
      <4>1. h.part # "filedata" => h.temp = <<>>
        BY Given DEF CallbackInv
      <4>2. h.part = "filedata" => pos' > 65
        BY <1>1, <1>3, <1>6, <1>9
      <4>. QED
        BY <1>3, <1>9, <4>1, <4>2, <1>1, <1>6
    <3>3. pos' <= 37 => h'.path = "none"
      <4>1. pos' <= 37 => pos \in {17, 18, 19}
        BY <1>1, <1>6
      <4>2. pos \in {17, 18, 19} => h.path = "none" /\ h.part # "filename"
        BY Given DEF CallbackInv
      <4>. QED
        BY <1>3, <1>9, <4>1, <4>2
    <3>4. h'.part \in IF pos' <= 22 THEN {"unknown", "sessionid", "filedata"}
                      ELSE IF pos' <= 42 THEN {"unknown", "filename", "filedata"}
                      ELSE {"unknown", "filedata"}
      <4>1. h.part \in IF pos <= 22 THEN {"unknown", "sessionid", "filedata"}
                        ELSE IF pos <= 42 THEN {"unknown", "filename", "filedata"}
                        ELSE {"unknown", "filedata"}
        BY Given DEF CallbackInv
      <4>2. (pos' <= 22 <=> pos <= 22) /\ (pos' <= 42 <=> pos <= 42)
        BY <1>1, <1>6, <1>7
      <4>. QED
        BY <1>3, <4>1, <4>2
    <3>5. (pos' \in 18 .. 22 \cup 38 .. 42 \/ st' \in {"almost_end", "final_hyphen", "end"})
            => h'.part # "filedata"
      BY <1>1, <1>3, <1>4, <1>6, <1>9, <2>1
    <3>6. (pos' > 65 /\ h'.part = "filedata" /\ st' = "almost_boundary") =>
             h'.temp = SubSeq(file', 1, pos' - 66)
      <4>1. t = "almost_boundary" => n = pos - 65
        BY <1>4
      <4>2. pos' - 66 = pos - 65
        BY <1>1, <1>6, <1>7
      <4>. HIDE DEF n
      <4>. QED
        BY <1>3, <1>6, <2>1, <2>2, <4>1, <4>2
    <3>. QED
      BY <1>4, <2>1, <3>1, <3>2, <3>3, <3>4, <3>5, <3>6 DEF CallbackInv
  <2>. QED
    BY <1>3, <1>4, <1>6, <2>1, <2>3, <2>4, <2>5 DEF Kept, UploadInv
<1>. QED
  BY <1>8, <1>9

LEMMA StepAlmostBoundary ==
  ASSUME Running, NEW last \in BOOLEAN, Multipart!AlmostBoundary(last)
  PROVE  Kept
<1>1. /\ Multipart!More /\ st = "almost_boundary" /\ h' = h
      /\ Multipart!Goto("boundary", 0, last, <<>>)
  BY DEF Multipart!AlmostBoundary, Multipart!Quiet
<1>2. h' \in States /\ h'.answer = "none"
  BY <1>1, Given
<1>3. /\ file' \in Files /\ Multipart!UploadTypeOK' /\ file' = file /\ R' = R /\ L' = L
      /\ pos' = pos + 1 /\ index' = 0 /\ st' = "boundary"
  BY <1>1, <1>2, Typed DEF PStates
<1>4. PlaceInv'
  BY <1>3, Given, PlaceAlmostBoundary
<1>5. PendingInv'
  BY <1>3 DEF PendingInv
<1>6. pos \in {20, 40} \/ pos > 65
  BY <1>1, Given, Place DEF PlaceInv, InHead
<1>7. pos \in Nat /\ pos' - 67 - 0 = pos - 66
  BY <1>3, Given, Place
<1>8. CallbackInv'
  <2>1. /\ h.answer = "none" /\ h.target = Multipart!Old /\ ~h.elsewhere
        /\ pos' <= 65 \/ h.part # "filedata" => h.temp = <<>>
        /\ pos' <= 17 => h.sid = "none"
        /\ pos' <= 37 => h.path = "none"
    BY <1>3, <1>6, <1>7, Given DEF CallbackInv
  <2>2. /\ h.part \in IF pos' <= 22 THEN {"unknown", "sessionid", "filedata"}
                      ELSE IF pos' <= 42 THEN {"unknown", "filename", "filedata"}
                      ELSE {"unknown", "filedata"}
        /\ pos' \in 18 .. 22 \cup 38 .. 42 => h.part # "filedata"
    BY <1>3, <1>6, <1>7, Given DEF CallbackInv
  <2>3. (pos' > 65 /\ h.part = "filedata") => h.temp = SubSeq(file, 1, pos - 66)
    BY <1>1, <1>3, <1>6, <1>7, Given DEF CallbackInv
  <2>. QED
    BY <1>1, <1>3, <1>7, <2>1, <2>2, <2>3 DEF CallbackInv
<1>9. Reads
  BY <1>1, <1>2 DEF Reads
<1>. QED
  BY <1>2, <1>3, <1>4, <1>5, <1>8, <1>9 DEF Kept, UploadInv

\* What looked like a delimiter is the symbols that have been read of it.
LEMMA Lookbehind ==
  ASSUME Running, Multipart!More, Multipart!NoBoundary
  PROVE  LET d == IF st = "boundary" THEN SubSeq(Multipart!Delimiter, 1, 2 + index) ELSE <<"cr">>
             m == IF st = "boundary" THEN pos - 2 - index ELSE pos - 1
         IN  /\ d = SubSeq(R, m, pos - 1) /\ d \in Seq(Symbols) /\ m \in Nat /\ m >= 65 /\ m <= pos
             /\ h.part = "filedata" => h.temp = SubSeq(file, 1, m - 65)
<1>1. pos \in 66 .. L + 65 /\ L \in Nat /\ R \in Seq(Symbols) /\ Len(R) = L + 72
  BY Given, PlaceNoBoundary, Facts
<1>2. \/ st = "almost_boundary" /\ R[pos - 1] = "cr"
      \/ /\ st = "boundary" /\ index = 0 /\ pos >= 67
         /\ R[pos - 2] = "cr" /\ R[pos - 1] = "lf"
      \/ /\ st = "boundary" /\ index = 1 /\ pos >= 68
         /\ R[pos - 3] = "cr" /\ R[pos - 2] = "lf" /\ R[pos - 1] = "-"
  <2>1. InFile
    BY <1>1, Given DEF PlaceInv
  <2>2. st \in {"almost_boundary", "boundary"}
    BY DEF Multipart!NoBoundary
  <2>. QED
    BY <1>1, <2>1, <2>2 DEF InFile
<1>3. /\ (h.part = "filedata" /\ st = "almost_boundary") => h.temp = SubSeq(file, 1, pos - 66)
      /\ (h.part = "filedata" /\ st = "boundary") => h.temp = SubSeq(file, 1, pos - 67 - index)
  BY <1>1, Given DEF CallbackInv
<1>4. \A m \in Nat : (65 <= m /\ m <= pos) =>
        /\ SubSeq(R, m, pos - 1) \in Seq(Symbols) /\ Len(SubSeq(R, m, pos - 1)) = pos - m
        /\ \A i \in 1 .. pos - m : SubSeq(R, m, pos - 1)[i] = R[m + i - 1]
  <2>. SUFFICES ASSUME NEW m \in Nat, 65 <= m, m <= pos
                PROVE  /\ SubSeq(R, m, pos - 1) \in Seq(Symbols)
                       /\ Len(SubSeq(R, m, pos - 1)) = pos - m
                       /\ \A i \in 1 .. pos - m : SubSeq(R, m, pos - 1)[i] = R[m + i - 1]
    OBVIOUS
  <2>1. 1 <= m /\ pos - 1 \in Nat /\ m <= (pos - 1) + 1 /\ pos - 1 <= Len(R) /\ (pos - 1) + 1 - m = pos - m
    BY <1>1
  <2>2. /\ SubSeq(R, m, pos - 1) \in Seq(Symbols) /\ Len(SubSeq(R, m, pos - 1)) = (pos - 1) + 1 - m
        /\ \A i \in 1 .. (pos - 1) + 1 - m : SubSeq(R, m, pos - 1)[i] = R[m + i - 1]
    BY <1>1, <2>1, RunIs
  <2>. QED
    BY <2>1, <2>2
<1>5. CASE st = "almost_boundary"
  <2>. DEFINE d == <<"cr">>
              e == SubSeq(R, pos - 1, pos - 1)
  <2>1. d \in Seq(Symbols) /\ Len(d) = 1 /\ d[1] = "cr"
    BY Literals
  <2>2. pos - 1 \in Nat /\ 65 <= pos - 1 /\ pos - 1 <= pos /\ pos - (pos - 1) = 1
        /\ (pos - 1) + 1 - 1 = pos - 1 /\ (pos - 1) - 65 = pos - 66
    BY <1>1
  <2>3. e \in Seq(Symbols) /\ Len(e) = 1 /\ e[1] = R[pos - 1]
    BY <1>4, <2>2
  <2>. HIDE DEF d, e
  <2>4. d = e
    BY <1>2, <1>5, <2>1, <2>3
  <2>5. d = <<"cr">> /\ e = SubSeq(R, pos - 1, pos - 1)
    BY DEF d, e
  <2>. QED
    BY <1>3, <1>5, <2>1, <2>2, <2>4, <2>5
<1>6. CASE st = "boundary"
  <2>. DEFINE d == SubSeq(Multipart!Delimiter, 1, 2 + index)
              m == pos - 2 - index
              e == SubSeq(R, m, pos - 1)
  <2>0. index \in {0, 1} /\ m \in Nat /\ m >= 65 /\ m <= pos /\ pos - m = 2 + index
        /\ m - 65 = pos - 67 - index
    BY <1>1, <1>2, <1>6
  <2>1. /\ d \in Seq(Symbols) /\ Len(d) = 2 + index /\ d[1] = "cr" /\ d[2] = "lf"
        /\ index = 1 => d[3] = "-"
    <3>. DEFINE c == Multipart!CRLF \o Multipart!Boundary
    <3>1. c = Multipart!Delimiter
      BY DEF Multipart!Delimiter
    <3>2. Joined(Multipart!CRLF, 2, Multipart!Boundary, 2, c)
      BY Concat, Pieces
    <3>. HIDE DEF c
    <3>3. c \in Seq(Symbols) /\ Len(c) = 4 /\ c[1] = "cr" /\ c[2] = "lf" /\ c[2 + 1] = "-"
      BY <3>2, Pieces DEF Joined
    <3>4. /\ d \in Seq(Symbols) /\ Len(d) = (2 + index) + 1 - 1
          /\ \A i \in 1 .. (2 + index) + 1 - 1 : d[i] = c[1 + i - 1]
      <4>1. 2 + index \in Nat /\ 2 + index <= Len(c) /\ 1 <= (2 + index) + 1
        BY <2>0, <3>3
      <4>2. d = SubSeq(c, 1, 2 + index)
        BY <3>1
      <4>3. PICK n \in Nat : n = 2 + index
        BY <4>1
      <4>. HIDE DEF d
      <4>4. /\ SubSeq(c, 1, n) \in Seq(Symbols) /\ Len(SubSeq(c, 1, n)) = n + 1 - 1
            /\ \A i \in 1 .. n + 1 - 1 : SubSeq(c, 1, n)[i] = c[1 + i - 1]
        <5>1. PICK k \in Nat : k = 1
          OBVIOUS
        <5>2. /\ SubSeq(c, k, n) \in Seq(Symbols) /\ Len(SubSeq(c, k, n)) = n + 1 - k
              /\ \A i \in 1 .. n + 1 - k : SubSeq(c, k, n)[i] = c[k + i - 1]
          <6>1. c \in Seq(Symbols) /\ 1 <= k /\ k <= n + 1 /\ n <= Len(c)
            BY <3>3, <4>1, <4>3, <5>1
          <6>. QED
            BY <6>1, RunIs
        <5>. QED
          BY <5>1, <5>2
      <4>. QED
        BY <4>2, <4>3, <4>4
    <3>. HIDE DEF d
    <3>5. (2 + index) + 1 - 1 = 2 + index /\ 1 \in 1 .. 2 + index /\ 2 \in 1 .. 2 + index
          /\ (index = 1 => 3 \in 1 .. 2 + index)
      BY <2>0
    <3>6. d[1] = c[1] /\ d[2] = c[2] /\ (index = 1 => d[3] = c[3])
      BY <3>4, <3>5
    <3>. QED
      BY <3>3, <3>4, <3>5, <3>6
  <2>2. /\ e \in Seq(Symbols) /\ Len(e) = 2 + index
        /\ \A i \in 1 .. 2 + index : e[i] = R[m + i - 1]
    BY <1>4, <2>0
  <2>3. \A i \in 1 .. 2 + index : d[i] = e[i]
    <3>1. CASE index = 0
      <4>1. m + 1 - 1 = pos - 2 /\ m + 2 - 1 = pos - 1 /\ 1 \in 1 .. 2 + index /\ 2 \in 1 .. 2 + index
        BY <1>1, <3>1
      <4>. HIDE DEF d, e, m
      <4>2. e[1] = R[pos - 2] /\ e[2] = R[pos - 1]
        BY <2>2, <4>1
      <4>3. \A i \in 1 .. 2 + index : i = 1 \/ i = 2
        BY <3>1
      <4>. QED
        BY <1>2, <1>6, <2>1, <3>1, <4>2, <4>3
    <3>2. CASE index = 1
      <4>1. m + 1 - 1 = pos - 3 /\ m + 2 - 1 = pos - 2 /\ m + 3 - 1 = pos - 1
            /\ 1 \in 1 .. 2 + index /\ 2 \in 1 .. 2 + index /\ 3 \in 1 .. 2 + index
        BY <1>1, <3>2
      <4>. HIDE DEF d, e, m
      <4>2. e[1] = R[pos - 3] /\ e[2] = R[pos - 2] /\ e[3] = R[pos - 1]
        BY <2>2, <4>1
      <4>3. \A i \in 1 .. 2 + index : i = 1 \/ i = 2 \/ i = 3
        BY <3>2
      <4>. QED
        BY <1>2, <1>6, <2>1, <3>2, <4>2, <4>3
    <3>. QED
      BY <2>0, <3>1, <3>2
  <2>. HIDE DEF d, e
  <2>4. d = e
    BY <2>1, <2>2, <2>3
  <2>5. d = SubSeq(Multipart!Delimiter, 1, 2 + index) /\ e = SubSeq(R, m, pos - 1)
    BY DEF d, e
  <2>. QED
    BY <1>3, <1>6, <2>0, <2>1, <2>4, <2>5
<1>. QED
  BY <1>2, <1>5, <1>6

LEMMA StepNoBoundary ==
  ASSUME Running, Multipart!NoBoundary
  PROVE  Kept
<1>1. Multipart!More /\ pos \in 66 .. L + 65 /\ L \in Nat
  BY Given, Facts, PlaceNoBoundary DEF Multipart!NoBoundary
<1>. DEFINE d == IF st = "boundary" THEN SubSeq(Multipart!Delimiter, 1, 2 + index) ELSE <<"cr">>
            m == IF st = "boundary" THEN pos - 2 - index ELSE pos - 1
<1>2. /\ d = SubSeq(R, m, pos - 1) /\ d \in Seq(Symbols) /\ m \in Nat /\ m >= 65 /\ m <= pos
      /\ h.part = "filedata" => h.temp = SubSeq(file, 1, m - 65)
  BY <1>1, Lookbehind
<1>3. /\ h' \in Multipart!Data(h, d) /\ pending' = <<>>
      /\ st' = (IF h'.answer # "none" THEN "stopped" ELSE "data")
      /\ file' = file /\ pos' = pos /\ index' = index /\ cut' = cut
  BY DEF Multipart!NoBoundary
<1>. HIDE DEF d, m
<1>4. /\ h' \in States /\ h'.cd = h.cd /\ h'.part = h.part /\ h'.target = h.target
      /\ h'.elsewhere = h.elsewhere /\ h'.answer # "stored"
      /\ h.part # "filedata" => h'.temp = h.temp /\ h'.answer = "none"
      /\ (h.part = "filedata" /\ h'.answer = "none") => h'.temp = h.temp \o d
      /\ h'.answer # "none" => h'.temp = h.temp
  BY <1>2, <1>3, Given, DataIs
<1>5. R' = R /\ L' = L /\ file' \in Files
  BY <1>3, Given, Steady
<1>6. Multipart!UploadTypeOK'
  BY <1>3, <1>4, <1>5, Given DEF Multipart!UploadTypeOK, States, PartTypes
<1>7. CASE h'.answer # "none"
  BY <1>3, <1>4, <1>6, <1>7, Stops, Given DEF CallbackInv
<1>8. CASE h'.answer = "none"
  <2>1. st' = "data" /\ PlaceInv'
    BY <1>3, <1>8, Given, PlaceNoBoundary
  <2>2. h.part = "filedata" =>
          /\ m - 65 \in 0 .. L /\ pos - 65 \in 0 .. L /\ m - 65 <= pos - 65
          /\ h.temp = SubSeq(file, 1, m - 65) /\ h'.temp = SubSeq(file, 1, pos - 65)
    <3>. SUFFICES ASSUME h.part = "filedata"
                  PROVE  /\ m - 65 \in 0 .. L /\ pos - 65 \in 0 .. L /\ m - 65 <= pos - 65
                         /\ h.temp = SubSeq(file, 1, m - 65)
                         /\ h'.temp = SubSeq(file, 1, pos - 65)
      OBVIOUS
    <3>1. pos - 1 \in Nat /\ m <= (pos - 1) + 1 /\ pos - 1 <= L + 64 /\ (pos - 1) - 64 = pos - 65
      BY <1>1, <1>2
    <3>2. /\ SubSeq(file, 1, m - 65) \o SubSeq(R, m, pos - 1) = SubSeq(file, 1, (pos - 1) - 64)
          /\ m - 65 \in 0 .. L /\ (pos - 1) - 64 \in 0 .. L /\ m - 65 <= (pos - 1) - 64
      BY <1>2, <3>1, FileRuns, Given
    <3>. QED
      BY <1>2, <1>4, <1>8, <3>1, <3>2
  <2>3. Reads
    BY <1>4, <1>8, <2>2 DEF Reads
  <2>4. PendingInv'
    <3>1. PICK k : k = pos
      OBVIOUS
    <3>2. Run(k)' = <<>>
      BY <1>1, <1>3, <1>5, <3>1, NothingIsPending DEF Run
    <3>3. k \in 1 .. pos' /\ k >= 65
      BY <1>1, <1>3, <3>1
    <3>4. h'.part = "filedata" => h'.temp = SubSeq(file', 1, k - 65)
      BY <1>3, <1>4, <2>2, <3>1
    <3>. QED
      BY <1>3, <2>1, <3>2, <3>3, <3>4 DEF PendingInv
  <2>5. CallbackInv'
    <3>1. /\ h'.answer = "none" /\ h'.target = Multipart!Old /\ ~h'.elsewhere
          /\ h'.part # "filedata" => h'.temp = <<>>
          /\ h'.part \in {"unknown", "filedata"}
      BY <1>1, <1>4, <1>8, Given DEF CallbackInv
    <3>2. pos' \in Nat /\ pos' > 65
      BY <1>1, <1>3
    <3>. QED
      BY <2>1, <3>1, <3>2 DEF CallbackInv
  <2>. QED
    BY <1>4, <1>5, <1>6, <2>1, <2>3, <2>4, <2>5 DEF Kept, UploadInv
<1>. QED
  BY <1>7, <1>8

LEMMA StepBoundary ==
  ASSUME Running, NEW last \in BOOLEAN, Multipart!InBoundary(last)
  PROVE  Kept
<1>1. /\ Multipart!More /\ st = "boundary"
      /\ IF index = 1
           THEN h' \in Multipart!DataEnd(h) /\ Multipart!Goto("almost_end", 2, last, <<>>)
           ELSE h' = h /\ Multipart!Goto("boundary", index + 1, last, <<>>)
  <2>1. index \in Int
    BY Given DEF Multipart!UploadTypeOK
  <2>2. index + 1 = 2 <=> index = 1
    BY <2>1
  <2>. QED
    BY <2>2, Pieces DEF Multipart!InBoundary, Multipart!Quiet
<1>2. /\ index \in {0, 1}
      /\ (index = 0 /\ pos \in {21, 41}) \/ (index = 1 /\ pos \in {22, 42}) \/ pos > 65
  BY <1>1, Given, Place DEF PlaceInv, InHead, InFile
<1>3. CASE index = 0
  <2>1. h' \in States /\ h'.answer = "none" /\ h' = h
    BY <1>1, <1>3, Given
  <2>2. /\ file' \in Files /\ Multipart!UploadTypeOK' /\ file' = file /\ R' = R /\ L' = L
        /\ pos' = pos + 1 /\ index' = 1 /\ st' = "boundary"
    BY <1>1, <1>3, <2>1, Typed DEF PStates
  <2>3. PlaceInv'
    BY <2>2, Given, PlaceBoundary
  <2>4. PendingInv'
    BY <2>2 DEF PendingInv
  <2>5. pos \in Nat /\ pos' - 67 - 1 = pos - 67 - 0
    BY <2>2, Given, Place
  <2>6. CallbackInv'
    <3>1. /\ h.answer = "none" /\ h.target = Multipart!Old /\ ~h.elsewhere
          /\ pos' <= 65 \/ h.part # "filedata" => h.temp = <<>>
          /\ pos' <= 17 => h.sid = "none"
          /\ pos' <= 37 => h.path = "none"
      BY <1>2, <1>3, <2>2, <2>5, Given DEF CallbackInv
    <3>2. /\ h.part \in IF pos' <= 22 THEN {"unknown", "sessionid", "filedata"}
                        ELSE IF pos' <= 42 THEN {"unknown", "filename", "filedata"}
                        ELSE {"unknown", "filedata"}
          /\ pos' \in 18 .. 22 \cup 38 .. 42 => h.part # "filedata"
      BY <1>2, <1>3, <2>2, <2>5, Given DEF CallbackInv
    <3>3. (pos' > 65 /\ h.part = "filedata") => h.temp = SubSeq(file, 1, pos - 67 - 0)
      BY <1>1, <1>2, <1>3, <2>2, <2>5, Given DEF CallbackInv
    <3>. QED
      BY <2>1, <2>2, <2>5, <3>1, <3>2, <3>3 DEF CallbackInv
  <2>7. Reads
    BY <2>1 DEF Reads
  <2>. QED
    BY <2>1, <2>2, <2>3, <2>4, <2>6, <2>7 DEF Kept, UploadInv
<1>4. CASE index = 1
  <2>1. /\ h' \in States /\ h'.cd = h.cd /\ h'.sid = h.sid /\ h'.path = h.path /\ h'.temp = h.temp
        /\ h.part # "filedata" => /\ h'.target = h.target /\ h'.elsewhere = h.elsewhere
                                  /\ h'.answer # "stored"
                                  /\ h'.answer = "none" => h'.part = "unknown"
        /\ h.part = "filedata" => /\ h'.answer # "none"
                                  /\ h'.target \in {h.target, Multipart!Gone, h.temp}
    BY <1>1, <1>4, Given, DataEndIs
  <2>2. /\ file' \in Files /\ Multipart!UploadTypeOK' /\ file' = file /\ R' = R /\ L' = L
        /\ pos' = pos + 1 /\ index' = 2 /\ pending' = <<>>
        /\ st' = IF h'.answer # "none" THEN "stopped" ELSE "almost_end"
    BY <1>1, <1>4, <2>1, Typed DEF PStates
  <2>3. h.part = "filedata" => pos = L + 68 /\ h.temp = file
    <3>. SUFFICES ASSUME h.part = "filedata"
                  PROVE  pos = L + 68 /\ h.temp = file
      OBVIOUS
    <3>1. pos > 65
      BY <1>2, <1>4, Given DEF CallbackInv
    <3>2. pos = L + 68 /\ L \in Nat
      BY <1>4, <3>1, Given, Facts, PlaceBoundary
    <3>3. h.temp = SubSeq(file, 1, pos - 67 - 1) /\ pos - 67 - 1 = L
      BY <1>1, <1>4, <3>1, <3>2, Given DEF CallbackInv
    <3>4. SubSeq(file, 1, L) = file
      BY Given, Facts DEF L
    <3>. QED
      BY <3>2, <3>3, <3>4
  <2>4. h.target = Multipart!Old /\ ~h.elsewhere
    BY Given DEF CallbackInv
  <2>5. CASE h'.answer # "none"
    BY <2>1, <2>2, <2>3, <2>4, <2>5, Stops
  <2>6. CASE h'.answer = "none"
    <3>1. /\ h.part # "filedata" /\ h'.part = "unknown" /\ st' = "almost_end"
          /\ h'.target = h.target /\ h'.elsewhere = h.elsewhere
      BY <2>1, <2>2, <2>6
    <3>2. PlaceInv'
      BY <2>2, <3>1, Given, PlaceBoundary
    <3>3. PendingInv'
      BY <3>1 DEF PendingInv
    <3>4. CallbackInv'
      <4>1. /\ h'.temp = <<>>
            /\ pos' <= 17 => h'.sid = "none"
            /\ pos' <= 37 => h'.path = "none"
        BY <1>2, <1>4, <2>1, <2>2, <3>1, Given, Place DEF CallbackInv
      <4>. QED
        BY <2>4, <2>6, <3>1, <4>1 DEF CallbackInv
    <3>5. Reads
      BY <2>1, <2>6 DEF Reads
    <3>. QED
      BY <2>1, <2>2, <3>1, <3>2, <3>3, <3>4, <3>5 DEF Kept, UploadInv
  <2>. QED
    BY <2>5, <2>6
<1>. QED
  BY <1>2, <1>3, <1>4

LEMMA StepAfter ==
  ASSUME Running, NEW last \in BOOLEAN, Multipart!AfterBoundary(last)
  PROVE  Kept
<1>1. PICK t \in {"final_hyphen", "data_end", "end", "field"} :
        /\ Multipart!More /\ h' = h /\ Multipart!Goto(t, index, last, <<>>)
        /\ st \in {"almost_end", "final_hyphen", "data_end", "end"}
        /\ t \in {"final_hyphen", "end"} => st \in {"almost_end", "final_hyphen", "end"}
        /\ t = "field" => st = "data_end"
  BY DEF Multipart!AfterBoundary, Multipart!Quiet
<1>2. h' \in States /\ h'.answer = "none"
  BY <1>1, Given
<1>3. index \in 0 .. 3
  BY Given, Pieces DEF Multipart!UploadTypeOK
<1>4. /\ file' \in Files /\ Multipart!UploadTypeOK' /\ file' = file /\ R' = R /\ L' = L
      /\ pos' = pos + 1 /\ st' = t /\ pending' = <<>>
  BY <1>1, <1>2, <1>3, Typed DEF PStates
<1>5. PlaceInv'
  BY <1>1, <1>4, Given, PlaceAfter
<1>6. pos \in {23, 24, 43, 44} \/ (pos > 65 /\ t # "field" /\ st # "data_end")
  BY <1>1, Given, Place DEF PlaceInv, InHead, InFile
<1>7. PendingInv'
  <2>1. CASE t = "field"
    <3>1. pos <= 64 /\ st' \notin {"value", "data"}
      BY <1>4, <1>6, <2>1
    <3>. QED
      BY <1>1, <1>4, <3>1, NothingLeft
  <2>2. CASE t # "field"
    BY <1>4, <2>2 DEF PendingInv
  <2>. QED
    BY <2>1, <2>2
<1>8. CallbackInv'
  <2>0. /\ pos' <= 17 => pos <= 17
        /\ pos' <= 37 => pos <= 37
        /\ pos' <= 65 <=> pos <= 65
        /\ pos' <= 22 <=> pos <= 22
        /\ pos' <= 42 <=> pos <= 42
    BY <1>4, <1>6, Given, Place
  <2>1. /\ h.answer = "none" /\ h.target = Multipart!Old /\ ~h.elsewhere
        /\ pos' <= 65 \/ h.part # "filedata" => h.temp = <<>>
        /\ pos' <= 17 => h.sid = "none"
        /\ pos' <= 37 => h.path = "none"
    BY <2>0, Given DEF CallbackInv
  <2>2. h.part \in IF pos' <= 22 THEN {"unknown", "sessionid", "filedata"}
                   ELSE IF pos' <= 42 THEN {"unknown", "filename", "filedata"}
                   ELSE {"unknown", "filedata"}
    BY <2>0, Given DEF CallbackInv
  <2>3. /\ pos' \notin 18 .. 22 \cup 38 .. 42
        /\ st' \in {"almost_end", "final_hyphen", "end"} => h.part # "filedata"
    <3>1. pos' \notin 18 .. 22 \cup 38 .. 42
      BY <1>4, <1>6, Given, Place
    <3>2. st \in {"almost_end", "final_hyphen", "end"} => h.part # "filedata"
      BY Given DEF CallbackInv
    <3>3. st' \in {"almost_end", "final_hyphen", "end"} => st \in {"almost_end", "final_hyphen", "end"}
      BY <1>1, <1>4
    <3>. QED
      BY <3>1, <3>2, <3>3
  <2>. QED
    BY <1>1, <1>4, <2>1, <2>2, <2>3 DEF CallbackInv
<1>9. Reads
  BY <1>1, <1>2 DEF Reads
<1>. QED
  BY <1>2, <1>4, <1>5, <1>7, <1>8, <1>9 DEF Kept, UploadInv

LEMMA UploadStep ==
  ASSUME UploadInv, Multipart!Next
  PROVE  Running /\ Kept
<1>1. Multipart!More
  BY DEF Multipart!Next, Multipart!Parse, Multipart!StartBoundary, Multipart!HeaderName,
         Multipart!HeadersAlmostDone, Multipart!ValueStart, Multipart!HeaderBody,
         Multipart!ValueAlmostDone, Multipart!PartData, Multipart!AlmostBoundary,
         Multipart!InBoundary, Multipart!AfterBoundary, Multipart!NoBoundary
<1>2. Running
  BY <1>1 DEF Running, Multipart!More
<1>3. CASE Multipart!NoBoundary
  BY <1>2, <1>3, StepNoBoundary
<1>4. ASSUME NEW last \in BOOLEAN, Multipart!Parse(last)
      PROVE  Kept
  <2>1. CASE Multipart!StartBoundary(last)
    BY <1>2, <2>1, StepStart
  <2>2. CASE Multipart!HeaderName(last)
    BY <1>2, <2>2, StepField
  <2>3. CASE Multipart!HeadersAlmostDone(last)
    BY <1>2, <2>3, StepHeaders
  <2>4. CASE Multipart!ValueStart(last)
    BY <1>2, <2>4, StepValueStart
  <2>5. CASE Multipart!HeaderBody(last)
    BY <1>2, <2>5, StepValue
  <2>6. CASE Multipart!ValueAlmostDone(last)
    BY <1>2, <2>6, StepValueDone
  <2>7. CASE Multipart!PartData(last)
    BY <1>2, <2>7, StepData
  <2>8. CASE Multipart!AlmostBoundary(last)
    BY <1>2, <2>8, StepAlmostBoundary
  <2>9. CASE Multipart!InBoundary(last)
    BY <1>2, <2>9, StepBoundary
  <2>a. CASE Multipart!AfterBoundary(last)
    BY <1>2, <2>a, StepAfter
  <2>. QED
    BY <1>4, <2>1, <2>2, <2>3, <2>4, <2>5, <2>6, <2>7, <2>8, <2>9, <2>a DEF Multipart!Parse
<1>. QED
  BY <1>2, <1>3, <1>4 DEF Multipart!Next

LEMMA UploadStart ==
  ASSUME Multipart!Init
  PROVE  UploadInv
<1>1. /\ file \in Files /\ pos = 1 /\ st = "start" /\ index = 0 /\ pending = <<>>
      /\ h = Multipart!Unset /\ cut = FALSE
  BY DEF Multipart!Init
<1>2. /\ h.answer = "none" /\ h.target = Multipart!Old /\ ~h.elsewhere /\ h.temp = <<>>
      /\ h.sid = "none" /\ h.path = "none" /\ h.part = "unknown"
  BY <1>1 DEF Multipart!Unset
<1>3. h \in States
  <2>1. <<>> \in Texts /\ Multipart!Old \in Targets /\ "unknown" \in PartTypes
    BY DEF Texts, Targets, PartTypes
  <2>. QED
    BY <1>1, <2>1 DEF Multipart!Unset, States
<1>4. Multipart!UploadTypeOK
  <2>1. Len(Multipart!Request(file)) + 1 >= 1 /\ Len(Multipart!Request(file)) \in Nat
    BY <1>1, Facts DEF R
  <2>. QED
    <3>1. pos \in 1 .. Len(Multipart!Request(file)) + 1
      BY <1>1, <2>1
    <3>2. index \in 0 .. Len(Multipart!Boundary) + 1
      BY <1>1, Pieces
    <3>. QED
      BY <1>1, <1>2, <3>1, <3>2 DEF Multipart!UploadTypeOK
<1>5. PlaceInv
  BY <1>1 DEF PlaceInv, InHead
<1>6. PendingInv
  BY <1>1 DEF PendingInv
<1>7. CallbackInv
  BY <1>1, <1>2 DEF CallbackInv
<1>. QED
  BY <1>1, <1>3, <1>4, <1>5, <1>6, <1>7 DEF UploadInv

LEMMA UploadRests ==
  ASSUME UploadInv, UNCHANGED uploadVars
  PROVE  UploadInv'
<1>1. /\ file' = file /\ pos' = pos /\ st' = st /\ index' = index /\ pending' = pending
      /\ h' = h /\ cut' = cut
  BY DEF uploadVars
<1>2. R' = R /\ L' = L
  BY <1>1, Steady
<1>3. Multipart!UploadTypeOK' <=> Multipart!UploadTypeOK
  BY <1>1 DEF Multipart!UploadTypeOK
<1>4. PlaceInv' <=> PlaceInv
  BY <1>1, <1>2 DEF PlaceInv, InHead, InFile
<1>5. PendingInv' <=> PendingInv
  BY <1>1, <1>2 DEF PendingInv, Run
<1>6. (CallbackInv' <=> CallbackInv) /\ (EndInv' <=> EndInv)
  BY <1>1 DEF CallbackInv, EndInv
<1>. QED
  BY <1>1, <1>3, <1>4, <1>5, <1>6 DEF UploadInv

\* At any time the temporary file is a beginning of the file that was sent, in
\* whatever pieces the request came, and it is all of it when the upload is
\* answered as stored.
THEOREM UploadsArriveInOrder == Spec => UploadInOrder
<1>. DEFINE P == Multipart!Promise!Deliver \/ Multipart!Promise!Finish
            v == <<file, h.temp, h.answer = "stored">>
            Inv == IF part = "upload" THEN UploadInv
                   ELSE h.temp = <<>> /\ h.answer = "none"
<1>1. Init => Inv /\ Multipart!Promise!Init
  <2>. SUFFICES ASSUME Init PROVE Inv /\ Multipart!Promise!Init
    OBVIOUS
  <2>1. h = Multipart!Unset
    BY DEF Init, UploadOff, Multipart!Unused, Multipart!Init
  <2>2. h.temp = <<>> /\ h.answer = "none"
    BY <2>1 DEF Multipart!Unset
  <2>3. part = "upload" => UploadInv
    BY UploadStart DEF Init
  <2>. QED
    BY <2>2, <2>3 DEF Multipart!Promise!Init
<1>2. Inv /\ [Next]_vars => Inv' /\ [P]_v
  <2>. SUFFICES ASSUME Inv, [Next]_vars PROVE Inv' /\ [P]_v
    OBVIOUS
  <2>1. CASE part = "upload" /\ Multipart!Next /\ part' = part
    <3>1. Running /\ UploadInv' /\ Reads
      BY <2>1, UploadStep DEF Kept
    <3>2. file' = file /\ h.answer = "none"
      BY <2>1, <3>1, Given DEF Multipart!Next, Multipart!Parse, Multipart!StartBoundary,
         Multipart!HeaderName, Multipart!Goto,
         Multipart!HeadersAlmostDone, Multipart!ValueStart, Multipart!HeaderBody,
         Multipart!ValueAlmostDone, Multipart!PartData, Multipart!AlmostBoundary,
         Multipart!InBoundary, Multipart!AfterBoundary, Multipart!NoBoundary
    <3>3. CASE h'.temp = h.temp /\ h'.answer # "stored"
      <4>1. v' = v
        BY <3>2, <3>3
      <4>. QED
        BY <2>1, <3>1, <4>1
    <3>4. CASE /\ \E a, b \in 0 .. L : a <= b /\ h.temp = SubSeq(file, 1, a) /\ h'.temp = SubSeq(file, 1, b)
               /\ h'.answer # "stored"
      <4>1. PICK a, b \in 0 .. L : a <= b /\ h.temp = SubSeq(file, 1, a) /\ h'.temp = SubSeq(file, 1, b)
        BY <3>4
      <4>2. a = b => v' = v
        BY <3>2, <3>4, <4>1
      <4>3. a < b => Multipart!Promise!Deliver
        <5>. SUFFICES ASSUME a < b PROVE Multipart!Promise!Deliver
          OBVIOUS
        <5>1. h'.temp \in Multipart!Promise!Prefixes(file)
          BY <4>1 DEF Multipart!Promise!Prefixes, L
        <5>2. file \in Seq(Symbols) /\ L = Len(file) /\ L \in Nat
          BY <3>1, Given, Facts DEF L
        <5>3. Multipart!Promise!IsStrictPrefix(h.temp, h'.temp)
          <6>1. /\ h.temp \in Seq(Symbols) /\ h'.temp \in Seq(Symbols)
                /\ Len(h.temp) = a /\ Len(h'.temp) = b
                /\ \A i \in 1 .. a : h.temp[i] = file[i]
                /\ \A i \in 1 .. b : h'.temp[i] = file[i]
            BY <4>1, <5>2
          <6>. QED
            BY <6>1 DEF Multipart!Promise!IsStrictPrefix, Multipart!Promise!IsPrefix
        <5>. QED
          BY <3>2, <3>4, <5>1, <5>3 DEF Multipart!Promise!Deliver
      <4>. QED
        BY <2>1, <3>1, <4>1, <4>2, <4>3
    <3>5. CASE h'.answer = "stored" /\ h'.temp = h.temp /\ h.temp = file
      <4>1. Multipart!Promise!Finish
        BY <3>2, <3>5 DEF Multipart!Promise!Finish
      <4>. QED
        BY <2>1, <3>1, <4>1
    <3>. QED
      BY <3>1, <3>3, <3>4, <3>5 DEF Reads
  <2>2. CASE part' = part /\ UNCHANGED uploadVars
    <3>1. v' = v
      BY <2>2 DEF uploadVars
    <3>2. Inv'
      BY <2>2, UploadRests DEF uploadVars
    <3>. QED
      BY <3>1, <3>2
  <2>3. (part = "upload" /\ Multipart!Next /\ part' = part) \/ (part' = part /\ UNCHANGED uploadVars)
    BY DEF Next, vars
  <2>. QED
    BY <2>1, <2>2, <2>3
<1>. QED
  BY <1>1, <1>2, PTL DEF Spec, UploadInOrder, Multipart!UploadInOrder, Multipart!Promise!Spec

-----------------------------------------------------------------------------
(* As long as no piece ends inside a name, or inside the session or the    *)
(* path, the parts are recognised.                                         *)

\* The symbols of the names, the session and the path.
Telling ==
  {5, 6, 7, 8, 10, 11, 12, 13, 17, 18, 19, 25, 26, 27, 28, 30, 31, 32, 33, 37, 38, 39,
   45, 46, 47, 48, 50, 51, 52, 53}

LEMMA NotCut ==
  ASSUME Running, NEW last \in BOOLEAN, NEW t, NEW i, NEW keep,
         Multipart!Goto(t, i, last, keep), ~cut',
         pos \in {5, 6, 25, 26, 45, 46, 10, 11, 30, 31, 50, 51, 17, 18, 37, 38}
  PROVE  ~last
<1>1. Multipart!Splits(R, pos) => ~last
  BY DEF Multipart!Goto, R
<1>2. CASE pos \in {10, 11, 30, 31, 50, 51, 17, 18, 37, 38}
  <2>1. R[pos] \in {"form", "sessionid", "filename", "filedata", "s1", "s2", "n1", "n2"}
    <3>1. CASE pos \in {10, 30, 50}
      BY <3>1, Spots, Given
    <3>2. CASE pos \in {11, 31, 51}
      BY <3>2, Spots, Given
    <3>3. CASE pos \in {17, 18, 37, 38}
      BY <3>3, Spots, Given
    <3>. QED
      BY <1>2, <3>1, <3>2, <3>3
  <2>2. Multipart!Splits(R, pos)
    BY <2>1 DEF Multipart!Splits, Multipart!Parts
  <2>. QED
    BY <1>1, <2>2
<1>3. CASE pos \in {5, 6, 25, 26, 45, 46}
  <2>1. Len(R) = L + 72 /\ L \in Nat
    BY Given, Facts
  <2>2. R[pos] \in {"content", "-"}
    <3>1. CASE pos \in {5, 25, 45}
      BY <3>1, Spots, Given
    <3>2. CASE pos \in {6, 26, 46}
      BY <3>2, Spots, Given
    <3>. QED
      BY <1>3, <3>1, <3>2
  <2>3. \E k \in 1 .. 2 : R[pos + k] = "disp"
    <3>1. R[7] = "disp" /\ R[27] = "disp" /\ R[47] = "disp"
      BY Spots, Given
    <3>2. CASE pos \in {5, 25, 45}
      <4>1. pos + 2 \in {7, 27, 47} /\ 2 \in 1 .. 2
        BY <3>2
      <4>. QED
        BY <3>1, <4>1
    <3>3. CASE pos \in {6, 26, 46}
      <4>1. pos + 1 \in {7, 27, 47} /\ 1 \in 1 .. 2
        BY <3>3
      <4>. QED
        BY <3>1, <4>1
    <3>. QED
      BY <1>3, <3>2, <3>3
  <2>4. pos + 2 <= Len(R)
    BY <1>3, <2>1
  <2>5. Multipart!Splits(R, pos)
    BY <2>2, <2>3, <2>4 DEF Multipart!Splits
  <2>. QED
    BY <1>1, <2>5
<1>. QED
  BY <1>2, <1>3

\* A run of symbols is the sequence that has the same symbols.
LEMMA SameRun ==
  ASSUME NEW S, NEW s \in Seq(S), NEW m \in Nat, NEW n \in Nat, 1 <= m, m <= n + 1, n <= Len(s),
         NEW d \in Seq(S), Len(d) = n + 1 - m, \A i \in 1 .. n + 1 - m : d[i] = s[m + i - 1]
  PROVE  SubSeq(s, m, n) = d
<1>1. /\ SubSeq(s, m, n) \in Seq(S) /\ Len(SubSeq(s, m, n)) = n + 1 - m
      /\ \A i \in 1 .. n + 1 - m : SubSeq(s, m, n)[i] = s[m + i - 1]
  BY RunIs
<1>. QED
  BY <1>1

LEMMA TellingRuns ==
  ASSUME file \in Files
  PROVE  /\ \A b \in Starts : SubSeq(R, b + 5, b + 7) = Multipart!Disposition
         /\ SubSeq(R, 17, 18) = Multipart!Sid
         /\ SubSeq(R, 37, 38) = Multipart!Path
<1>1. R \in Seq(Symbols) /\ Len(R) = L + 72 /\ L \in Nat
  BY Facts
<1>2. ASSUME NEW b \in Starts
      PROVE  SubSeq(R, b + 5, b + 7) = Multipart!Disposition
  <2>1. b + 5 \in {5, 25, 45} /\ b + 6 \in {6, 26, 46} /\ b + 7 \in {7, 27, 47}
    BY DEF Starts
  <2>2. R[b + 5] = "content" /\ R[b + 6] = "-" /\ R[b + 7] = "disp"
    BY <2>1, Spots
  <2>3. PICK m \in Nat, n \in Nat : m = b + 5 /\ n = b + 7
    BY <2>1
  <2>4. 1 <= m /\ m <= n + 1 /\ n <= Len(R) /\ n + 1 - m = 3
    BY <1>1, <2>1, <2>3 DEF Starts
  <2>5. m + 1 - 1 = b + 5 /\ m + 2 - 1 = b + 6 /\ m + 3 - 1 = b + 7
    BY <2>3 DEF Starts
  <2>6. \A i \in 1 .. n + 1 - m : Multipart!Disposition[i] = R[m + i - 1]
    <3>1. \A i \in 1 .. n + 1 - m : i = 1 \/ i = 2 \/ i = 3
      BY <2>4
    <3>2. R[m + 1 - 1] = "content" /\ R[m + 2 - 1] = "-" /\ R[m + 3 - 1] = "disp"
      BY <2>2, <2>5
    <3>3. /\ Multipart!Disposition[1] = "content" /\ Multipart!Disposition[2] = "-"
          /\ Multipart!Disposition[3] = "disp"
      BY Pieces
    <3>. QED
      BY <3>1, <3>2, <3>3
  <2>7. SubSeq(R, m, n) = Multipart!Disposition
    <3>1. \A d \in Seq(Symbols) :
            Len(d) = n + 1 - m /\ (\A i \in 1 .. n + 1 - m : d[i] = R[m + i - 1])
              => SubSeq(R, m, n) = d
      BY <1>1, <2>4, SameRun
    <3>2. Multipart!Disposition \in Seq(Symbols) /\ Len(Multipart!Disposition) = n + 1 - m
      BY <2>4, Pieces
    <3>. QED
      BY <2>6, <3>1, <3>2
  <2>. QED
    BY <2>3, <2>7
<1>3. ASSUME NEW m \in {17, 37}, NEW d \in Seq(Symbols), Len(d) = 2,
             d[1] = R[m], d[2] = R[m + 1]
      PROVE  SubSeq(R, m, m + 1) = d
  <2>1. PICK n \in Nat : n = m + 1
    OBVIOUS
  <2>2. m \in Nat /\ 1 <= m /\ m <= n + 1 /\ n <= Len(R) /\ n + 1 - m = 2 /\ m + 1 - 1 = m /\ m + 2 - 1 = m + 1
    BY <1>1, <2>1
  <2>3. \A i \in 1 .. n + 1 - m : d[i] = R[m + i - 1]
    <3>1. \A i \in 1 .. n + 1 - m : i = 1 \/ i = 2
      BY <2>2
    <3>. QED
      BY <1>3, <2>2, <3>1
  <2>4. SubSeq(R, m, n) = d
    BY <1>1, <1>3, <2>2, <2>3, SameRun
  <2>. QED
    BY <2>1, <2>4
<1>4. SubSeq(R, 17, 17 + 1) = Multipart!Sid
  <2>1. R[17] = "s1" /\ R[17 + 1] = "s2"
    BY Spots
  <2>. QED
    BY <1>3, <2>1, Pieces
<1>5. SubSeq(R, 37, 37 + 1) = Multipart!Path
  <2>1. R[37] = "n1" /\ R[37 + 1] = "n2"
    BY Spots
  <2>. QED
    BY <1>3, <2>1, Pieces
<1>. QED
  BY <1>2, <1>4, <1>5

\* A step that is not about a name, the session or the path.
LEMMA RestUncut ==
  ASSUME Running, Uncut, Multipart!More, pos' = pos + 1, R' = R, L' = L,
         pos \notin Telling, pos < L + 68,
         pos \in {4, 24, 44} => pending' = <<>>,
         h'.cd = h.cd \/ pos > 53,
         pos \notin {22, 42} => h'.part = h.part, h'.sid = h.sid, h'.path = h.path
  PROVE  Uncut'
<1>1. pos \in Nat /\ L \in Nat /\ pos >= 1
  BY Given, Place, Facts
<1>2. ASSUME NEW b \in Starts
      PROVE  UncutAt(b)'
  <2>1. UncutAt(b) /\ b \in {0, 20, 40}
    BY DEF Uncut, Starts
  <2>2. pos' \in b + 5 .. b + 7 => pending' = Run(b + 5)'
    <3>0. pos' \in b + 5 .. b + 7 => pos = b + 4
      <4>1. pos' \in b + 5 .. b + 7 => pos \in {b + 4, b + 5, b + 6}
        BY <1>1, <2>1
      <4>2. b + 5 \in Telling /\ b + 6 \in Telling
        <5>1. b + 5 \in {5, 25, 45} /\ b + 6 \in {6, 26, 46}
          BY <2>1
        <5>. QED
          BY <5>1 DEF Telling
      <4>. QED
        BY <4>1, <4>2
    <3>1. pos = b + 4 => pending' = <<>>
      BY <2>1
    <3>2. pos = b + 4 => b + 5 = pos + 1
      BY <1>1, <2>1
    <3>. QED
      BY <3>0, <3>1, <3>2, NothingIsPending
  <2>3. pos' # b + 8 /\ pos' \notin b + 11 .. b + 12 /\ pos' # b + 13
    BY <1>1, <2>1 DEF Telling
  <2>4. pos' \in b + 9 .. b + 13 => h'.cd
    BY <1>1, <2>1 DEF Telling, UncutAt
  <2>5. pos' \in b + 14 .. (IF b = 40 THEN L' + 68 ELSE b + 22) => h'.part = NameAt(b + 10)'
    <3>1. pos' \in b + 14 .. (IF b = 40 THEN L' + 68 ELSE b + 22) =>
            /\ pos \in b + 14 .. (IF b = 40 THEN L + 68 ELSE b + 22)
            /\ pos \notin {22, 42}
      BY <1>1, <2>1 DEF Telling
    <3>. QED
      BY <2>1, <3>1 DEF UncutAt, NameAt
  <2>. QED
    BY <2>2, <2>3, <2>4, <2>5 DEF UncutAt
<1>3. /\ pos' \notin 18 .. 19 /\ pos' \notin 38 .. 39
      /\ pos' >= 20 => h'.sid = "whole"
      /\ pos' >= 40 => h'.path = "whole"
      /\ pos' <= L' + 68
  BY <1>1 DEF Uncut, Telling
<1>. QED
  BY <1>2, <1>3 DEF Uncut, Starts

\* A step about the names that are at the start of a part.
LEMMA NameUncut ==
  ASSUME Running, Uncut, pos' = pos + 1, L' = L, NEW b \in Starts, pos \in b + 5 .. b + 13,
         h'.sid = h.sid, h'.path = h.path, UncutAt(b)'
  PROVE  Uncut'
<1>1. L \in Nat /\ b \in {0, 20, 40}
  BY Given, Facts DEF Starts
<1>2. ASSUME NEW c \in Starts
      PROVE  UncutAt(c)'
  <2>1. CASE c = b
    BY <2>1
  <2>2. CASE c # b
    <3>1. /\ pos' \notin c + 5 .. c + 7 /\ pos' # c + 8 /\ pos' \notin c + 9 .. c + 13
          /\ pos' \notin c + 11 .. c + 12 /\ pos' # c + 13
          /\ pos' \notin c + 14 .. (IF c = 40 THEN L' + 68 ELSE c + 22)
      BY <1>1, <2>2 DEF Starts
    <3>. QED
      BY <3>1 DEF UncutAt
  <2>. QED
    BY <2>1, <2>2
<1>3. /\ pos' \notin 18 .. 19 /\ pos' \notin 38 .. 39
      /\ pos' >= 20 => h'.sid = "whole"
      /\ pos' >= 40 => h'.path = "whole"
      /\ pos' <= L' + 68
  BY <1>1 DEF Uncut
<1>. QED
  BY <1>2, <1>3 DEF Uncut, Starts

\* What is wanted of a step, given that nothing is cut up to here.
Good == Running /\ Uncut /\ Kept /\ ~cut'
StaysGood == h'.answer # "stored" /\ (st' # "stopped" => Uncut')

LEMMA Went ==
  ASSUME Running, Multipart!More, NEW t, NEW i, NEW last \in BOOLEAN, NEW keep,
         Multipart!Goto(t, i, last, keep)
  PROVE  /\ pos' = pos + 1 /\ R' = R /\ L' = L /\ pending' = IF last THEN <<>> ELSE keep
         /\ st' # "stopped" => h'.answer = "none" /\ st' = t
BY Steady DEF Multipart!Goto

\* A step that no callback sees and that leaves nothing pending.
LEMMA QuietUncut ==
  ASSUME Good, Multipart!More, NEW t, NEW i, NEW last \in BOOLEAN,
         Multipart!Goto(t, i, last, <<>>), h' = h, pos \notin Telling, pos < L + 68
  PROVE  StaysGood
<1>1. Running /\ Uncut
  BY DEF Good
<1>2. pos' = pos + 1 /\ R' = R /\ L' = L /\ pending' = <<>>
  BY <1>1, Went
<1>3. Uncut'
  BY <1>1, <1>2, RestUncut
<1>. QED
  BY <1>1, <1>3, Given DEF StaysGood

LEMMA QuietUncutSteps ==
  ASSUME Good, NEW last \in BOOLEAN,
         \/ Multipart!StartBoundary(last) \/ Multipart!HeadersAlmostDone(last)
         \/ Multipart!ValueStart(last) \/ Multipart!ValueAlmostDone(last)
         \/ Multipart!AlmostBoundary(last) \/ Multipart!AfterBoundary(last)
  PROVE  StaysGood
<1>1. Running /\ Uncut /\ L \in Nat /\ pos \in Nat /\ pos <= L + 68
  BY Given, Facts, Place DEF Good, Uncut
<1>2. \E t, i : Multipart!More /\ h' = h /\ Multipart!Goto(t, i, last, <<>>)
  BY DEF Multipart!StartBoundary, Multipart!HeadersAlmostDone, Multipart!ValueStart,
         Multipart!ValueAlmostDone, Multipart!AlmostBoundary, Multipart!AfterBoundary, Multipart!Quiet
<1>3. st \in {"start", "headers_almost_done", "value_start", "value_almost_done",
              "almost_boundary", "almost_end", "final_hyphen", "data_end", "end"}
      /\ (st = "value_start" => R[pos] = "space")
  BY <1>1, Given, Place DEF Multipart!StartBoundary, Multipart!HeadersAlmostDone, Multipart!ValueStart,
         Multipart!ValueAlmostDone, Multipart!AlmostBoundary, Multipart!AfterBoundary
<1>4. pos \notin Telling /\ pos < L + 68
  <2>1. CASE pos <= 65
    <3>1. InHead
      BY <1>1, <2>1, Given DEF PlaceInv
    <3>2. pos \notin Telling \/ pos \in {10, 30, 50}
      BY <1>3, <3>1 DEF InHead, Telling
    <3>3. pos \in {10, 30, 50} => R[pos] # "space" /\ st = "value_start"
      <4>1. pos \in {10, 30, 50} => R[pos] # "space"
        BY <1>1, Spots, Given
      <4>2. pos \in {10, 30, 50} => st = "value_start"
        BY <1>3, <3>1 DEF InHead
      <4>. QED
        BY <4>1, <4>2
    <3>. QED
      BY <1>1, <1>3, <2>1, <3>2, <3>3
  <2>2. CASE pos > 65
    <3>1. InFile
      BY <1>1, <2>2, Given DEF PlaceInv
    <3>2. st = "almost_boundary" /\ pos <= L + 66
      BY <1>1, <1>3, <3>1 DEF InFile
    <3>. QED
      BY <1>1, <2>2, <3>2 DEF Telling
  <2>. QED
    BY <1>1, <2>1, <2>2
<1>. QED
  BY <1>2, <1>4, QuietUncut

LEMMA FieldUncut ==
  ASSUME Good, NEW last \in BOOLEAN, Multipart!HeaderName(last)
  PROVE  StaysGood
<1>1. Running /\ Uncut /\ ~cut' /\ L \in Nat /\ Multipart!More /\ st = "field"
  BY Given, Facts DEF Good, Multipart!HeaderName
<1>2. pos \in {5, 6, 7, 8, 15, 25, 26, 27, 28, 35, 45, 46, 47, 48, 55, 56, 57, 58, 63}
  BY <1>1, Given, Place DEF PlaceInv, InHead, InFile
<1>3. PICK t, keep : Multipart!Goto(t, index, last, keep)
  BY <1>1 DEF Multipart!HeaderName
<1>4. /\ pos' = pos + 1 /\ R' = R /\ L' = L /\ pending' = IF last THEN <<>> ELSE keep
  BY <1>1, <1>3, Went
<1>5. h' \in States /\ h'.answer = "none" /\ Alike(h, h') /\ h'.part = h.part
  <2>1. h' = h \/ \E d : h' \in Multipart!HeaderField(h, d)
    BY DEF Multipart!HeaderName, Multipart!Quiet
  <2>2. CASE h' = h
    BY <1>1, <2>2, Given DEF Alike
  <2>3. CASE \E d : h' \in Multipart!HeaderField(h, d)
    BY <1>1, <2>3, Given, HeaderFieldIs
  <2>. QED
    BY <2>1, <2>2, <2>3
<1>6. CASE pos \in {15, 35, 55, 56, 57, 58, 63}
  <2>1. h'.cd = h.cd \/ pos > 53
    <3>1. CASE pos \in {15, 35}
      <4>1. R[pos] = "cr"
        BY <1>1, <3>1, Spots, Given
      <4>2. h' = h
        BY <1>1, <4>1, Given, Place DEF Multipart!HeaderName, Multipart!Quiet
      <4>. QED
        BY <4>2
    <3>. QED
      BY <1>6, <3>1
  <2>2. pos \notin Telling /\ pos < L + 68 /\ pos \notin {4, 24, 44}
    BY <1>1, <1>6 DEF Telling
  <2>3. Uncut'
    BY <1>1, <1>4, <1>5, <2>1, <2>2, RestUncut DEF Alike
  <2>. QED
    BY <1>5, <2>3 DEF StaysGood
<1>7. CASE pos \in {5, 6, 7, 8, 25, 26, 27, 28, 45, 46, 47, 48}
  <2>1. PICK b \in Starts : b \in {0, 20, 40} /\ pos \in b + 5 .. b + 8
    BY <1>7 DEF Starts
  <2>2. UncutAt(b)
    BY <1>1 DEF Uncut
  <2>3. CASE pos = b + 8
    <3>1. R[pos] = ":"
      BY <1>1, <2>1, <2>3, Spots, Given
    <3>2. h' \in Multipart!HeaderField(h, pending)
      BY <1>1, <3>1, Given, Place DEF Multipart!HeaderName
    <3>3. Multipart!IsPrefix(pending, Multipart!Disposition)
      <4>1. CASE pending = <<>>
        <5>1. SubSeq(<<>>, 1, 0) = <<>> /\ SubSeq(Multipart!Disposition, 1, 0) = <<>>
          BY Pieces, RunIsEmpty
        <5>. QED
          BY <4>1, <5>1, Pieces DEF Multipart!IsPrefix
      <4>2. CASE pending = Run(b + 5)
        <5>1. pending = SubSeq(R, b + 5, b + 7)
          BY <2>1, <2>3, <4>2 DEF Run
        <5>2. pending = Multipart!Disposition
          BY <1>1, <5>1, TellingRuns, Given
        <5>. QED
          BY <5>2, Pieces DEF Multipart!IsPrefix
      <4>. QED
        BY <2>2, <2>3, <4>1, <4>2 DEF UncutAt
    <3>4. h'.cd
      BY <1>1, <3>2, <3>3, Given, HeaderFieldIs
    <3>5. UncutAt(b)'
      BY <1>4, <2>1, <2>3, <3>4 DEF UncutAt
    <3>. QED
      BY <1>1, <1>4, <1>5, <2>1, <3>5, NameUncut DEF StaysGood, Alike
  <2>4. CASE pos \in b + 5 .. b + 7
    <3>1. R[pos] \notin {"cr", ":"} /\ (pos = b + 7 <=> R[pos] # "content" /\ R[pos] # "-")
      <4>1. CASE pos = b + 5
        <5>1. pos \in {5, 25, 45}
          BY <2>1, <4>1
        <5>2. R[pos] = "content"
          BY <1>1, <5>1, Spots, Given
        <5>. QED
          BY <2>1, <4>1, <5>2
      <4>2. CASE pos = b + 6
        <5>1. pos \in {6, 26, 46}
          BY <2>1, <4>2
        <5>2. R[pos] = "-"
          BY <1>1, <5>1, Spots, Given
        <5>. QED
          BY <2>1, <4>2, <5>2
      <4>3. CASE pos = b + 7
        <5>1. pos \in {7, 27, 47}
          BY <2>1, <4>3
        <5>2. R[pos] = "disp"
          BY <1>1, <5>1, Spots, Given
        <5>. QED
          BY <2>1, <4>3, <5>2
      <4>. QED
        BY <2>1, <2>4, <4>1, <4>2, <4>3
    <3>2. /\ Multipart!Goto("field", index, last, Multipart!Seen)
          /\ pos = b + 7 /\ last => h' \in Multipart!HeaderField(h, Multipart!Seen)
      BY <1>1, <3>1, Given, Place DEF Multipart!HeaderName
    <3>3. pos # b + 7 => ~last
      <4>1. pos # b + 7 => pos \in {5, 6, 25, 26, 45, 46}
        BY <2>1, <2>4
      <4>. QED
        BY <1>1, <3>2, <4>1, NotCut
    <3>4. pending' = IF last THEN <<>> ELSE Multipart!Seen
      BY <1>1, <3>2, Went
    <3>5. PICK m \in 1 .. pos : m = b + 5
      BY <2>1, <2>4
    <3>6. pending = Run(m)
      BY <2>2, <2>4, <3>5 DEF UncutAt
    <3>7. Multipart!Seen = SubSeq(R, m, pos) /\ Multipart!Seen = Run(m)'
      BY <1>1, <1>4, <3>6, SeenIs
    <3>8. CASE ~last
      <4>1. pending' = Run(b + 5)'
        BY <3>4, <3>5, <3>7, <3>8
      <4>2. pos' \in b + 5 .. b + 8
        BY <1>4, <2>1, <2>4
      <4>3. UncutAt(b)'
        BY <2>1, <4>1, <4>2 DEF UncutAt
      <4>. QED
        BY <1>1, <1>4, <1>5, <2>1, <4>3, NameUncut DEF StaysGood, Alike
    <3>9. CASE last
      <4>1. pos = b + 7 /\ pos' = b + 8 /\ pending' = <<>>
        BY <1>4, <2>1, <3>3, <3>4, <3>9
      <4>2. Multipart!Seen = Multipart!Disposition
        BY <1>1, <3>5, <3>7, <4>1, TellingRuns, Given
      <4>3. Multipart!IsPrefix(Multipart!Seen, Multipart!Disposition)
        BY <4>2, Pieces DEF Multipart!IsPrefix
      <4>4. h'.cd
        BY <1>1, <3>2, <3>9, <4>1, <4>3, Given, HeaderFieldIs
      <4>5. UncutAt(b)'
        BY <2>1, <4>1, <4>4 DEF UncutAt
      <4>. QED
        BY <1>1, <1>4, <1>5, <2>1, <4>5, NameUncut DEF StaysGood, Alike
    <3>. QED
      BY <3>8, <3>9
  <2>. QED
    BY <2>1, <2>3, <2>4
<1>. QED
  BY <1>2, <1>6, <1>7

\* A value that is handed on as far as its quote gives the part its name.
LEMMA NameIs ==
  ASSUME Running, Multipart!More, NEW m \in 1 .. pos, NEW e \in {pos - 1, pos}, InValue(m),
         NEW b \in Starts, pos \in b + 10 .. b + 13, e >= b + 12,
         NEW s \in States, s.cd, NEW t \in Multipart!HeaderValue(s, SubSeq(R, m, e))
  PROVE  /\ t \in States /\ t.cd
         /\ t.part = NameAt(b + 10) \/ (t.part = s.part /\ m # b + 10)
<1>0. PICK d : d = SubSeq(R, m, e)
  OBVIOUS
<1>1. /\ b \in {0, 20, 40} /\ pos \in Nat /\ m \in Nat /\ e \in Nat /\ m >= b + 10 /\ m <= e + 1
      /\ pos \in 10 .. 13 \/ pos \in 30 .. 33 \/ pos \in 50 .. 53
  BY Given, Place DEF Starts, InValue
<1>2. NameAt(pos) = NameAt(b + 10) /\ NameAt(pos) \in PartTypes
  BY <1>1 DEF NameAt, PartTypes, Multipart!Parts
<1>3. R \in Seq(Symbols) /\ e <= Len(R) /\ 1 <= m
  <2>1. R \in Seq(Symbols) /\ Len(R) = L + 72 /\ L \in Nat /\ pos <= L + 72
    BY Given, Facts, Place
  <2>. QED
    BY <1>1, <2>1
<1>4. /\ d \in Seq(Symbols) /\ Len(d) = e + 1 - m
      /\ \A i \in 1 .. e + 1 - m : d[i] = R[m + i - 1]
  <2>1. /\ SubSeq(R, m, e) \in Seq(Symbols) /\ Len(SubSeq(R, m, e)) = e + 1 - m
        /\ \A i \in 1 .. e + 1 - m : SubSeq(R, m, e)[i] = R[m + i - 1]
    BY <1>1, <1>3, RunIs
  <2>. QED
    BY <1>0, <2>1
<1>5. Multipart!IsPrefix(<<"form">>, d) =>
        m = b + 10 /\ Len(d) > 2 /\ d[2] = NameAt(pos)
  <2>. SUFFICES ASSUME Multipart!IsPrefix(<<"form">>, d)
                PROVE  m = b + 10 /\ Len(d) > 2 /\ d[2] = NameAt(pos)
    OBVIOUS
  <2>1. m \in {10, 30, 50} /\ (Len(d) >= 2 => d[2] = NameAt(pos))
    BY <1>0, FormIs DEF InValue
  <2>2. m = b + 10
    BY <1>1, <2>1
  <2>. QED
    BY <1>1, <1>4, <2>1, <2>2
<1>6. m = b + 10 => Multipart!IsPrefix(<<"form">>, d)
  <2>. SUFFICES ASSUME m = b + 10
                PROVE  Multipart!IsPrefix(<<"form">>, d)
    OBVIOUS
  <2>0. m \in {10, 30, 50} /\ e + 1 - m >= 3 /\ m + 1 - 1 = m
    BY <1>1
  <2>1. m \in {10, 30, 50} /\ Len(d) >= 3 /\ 1 \in 1 .. e + 1 - m /\ m + 1 - 1 = m
    <3>1. Len(d) >= 3
      BY <1>4, <2>0
    <3>2. 1 \in 1 .. e + 1 - m
      BY <1>1, <2>0
    <3>. QED
      BY <2>0, <3>1, <3>2
  <2>2. d[1] = "form"
    <3>1. R[m] = "form"
      <4>1. R[10] = "form" /\ R[30] = "form" /\ R[50] = "form"
        BY Given, Spots
      <4>. QED
        BY <2>1, <4>1
    <3>2. d[1] = R[m]
      BY <1>4, <2>1
    <3>. QED
      BY <3>1, <3>2
  <2>. DEFINE form == <<"form">>
  <2>3. Len(form) = 1 /\ form[1] = "form" /\ form \in Seq(Symbols)
    BY Literals
  <2>. HIDE DEF form
  <2>4. SubSeq(form, 1, 1) = SubSeq(d, 1, 1)
    <3>1. SubSeq(form, 1, 1) = form
      BY <2>3
    <3>2. SubSeq(d, 1, 1) = form
      BY <1>4, <2>1, <2>2, <2>3
    <3>. QED
      BY <3>1, <3>2
  <2>5. Multipart!IsPrefix(form, d)
    BY <1>4, <2>1, <2>3, <2>4 DEF Multipart!IsPrefix
  <2>. QED
    BY <2>5 DEF form
<1>7. /\ t \in States /\ t.cd = s.cd
      /\ \/ t.part = s.part /\ ~(s.cd /\ Multipart!IsPrefix(<<"form">>, d) /\ Len(d) > 2)
         \/ /\ s.cd /\ Multipart!IsPrefix(<<"form">>, d)
            /\ \/ t.part = "filedata" /\ Len(d) = 1
               \/ t.part = d[2] /\ Len(d) >= 2
  BY <1>0, <1>2, <1>4, <1>5, HeaderValueIs
<1>. QED
  BY <1>2, <1>4, <1>5, <1>6, <1>7

LEMMA ValueUncut ==
  ASSUME Good, NEW last \in BOOLEAN, Multipart!HeaderBody(last)
  PROVE  StaysGood
<1>1. Running /\ Uncut /\ ~cut' /\ L \in Nat
  BY Given, Facts DEF Good
<1>2. /\ Multipart!More /\ pos \in {10, 11, 12, 13, 30, 31, 32, 33, 50, 51, 52, 53, 60, 61}
      /\ (R[pos] = "cr" <=> pos \in {13, 33, 53, 61})
  BY <1>1, ValuePlace
<1>3. PICK m \in 1 .. pos : pending = Run(m) /\ InValue(m)
  BY <1>1, ValuePlace
<1>4. /\ h' \in States /\ h'.answer = "none" /\ Alike(h, h') /\ h'.cd = h.cd
      /\ h'.part = h.part \/ (pos <= 53 /\ h'.part \in {"filedata", NameAt(pos)})
  BY <1>1, ValueEffect
<1>5. PICK t, keep : Multipart!Goto(t, index, last, keep) /\ (R[pos] # "cr" => keep = Multipart!Seen)
  BY <1>1, <1>2, Given, Place DEF Multipart!HeaderBody
<1>6. pos' = pos + 1 /\ R' = R /\ L' = L /\ pending' = IF last THEN <<>> ELSE keep
  BY <1>1, <1>2, <1>5, Went
<1>7. CASE pos \in {60, 61}
  <2>1. pos \notin Telling /\ pos < L + 68 /\ pos > 53 /\ pos \notin {4, 24, 44}
    BY <1>1, <1>7 DEF Telling
  <2>2. Uncut'
    BY <1>1, <1>2, <1>4, <1>6, <2>1, RestUncut DEF Alike
  <2>. QED
    BY <1>4, <2>2 DEF StaysGood
<1>8. CASE pos \in {10, 11, 12, 13, 30, 31, 32, 33, 50, 51, 52, 53}
  <2>1. PICK b \in Starts : b \in {0, 20, 40} /\ pos \in b + 10 .. b + 13
    BY <1>8 DEF Starts
  <2>2. UncutAt(b) /\ h.cd
    BY <1>1, <2>1 DEF Uncut, UncutAt
  <2>3. pending = SubSeq(R, m, pos - 1) /\ Multipart!Seen = SubSeq(R, m, pos)
    BY <1>1, <1>2, <1>3, SeenIs DEF Run
  <2>4. pos # b + 13 => pending = Run(b + 10) /\ b + 10 \in 1 .. pos
    <3>1. CASE pos = b + 10
      <4>1. m = b + 10
        BY <1>3, <2>1, <3>1 DEF InValue
      <4>. QED
        BY <1>3, <4>1
    <3>2. CASE pos \in b + 11 .. b + 12
      BY <2>1, <2>2, <3>2 DEF UncutAt
    <3>. QED
      BY <2>1, <3>1, <3>2
  <2>5. CASE pos \in b + 10 .. b + 11
    <3>1. pos \in {10, 11, 30, 31, 50, 51}
      BY <2>1, <2>5
    <3>2. ~last
      BY <1>1, <1>5, <3>1, NotCut
    <3>3. pending' = Multipart!Seen
      BY <1>2, <1>5, <1>6, <3>1, <3>2
    <3>4. PICK k \in 1 .. pos : k = b + 10 /\ pending = Run(k)
      BY <2>1, <2>4, <2>5
    <3>5. pending' = Run(k)'
      BY <1>1, <1>2, <1>6, <3>3, <3>4, SeenIs
    <3>6. UncutAt(b)'
      BY <1>4, <1>6, <2>1, <2>2, <2>5, <3>4, <3>5 DEF UncutAt
    <3>. QED
      BY <1>1, <1>4, <1>6, <2>1, <3>6, NameUncut DEF StaysGood, Alike
  <2>6. CASE pos = b + 12
    <3>1. PICK k \in 1 .. pos : k = b + 10 /\ pending = Run(k)
      BY <2>1, <2>4, <2>6
    <3>2. Multipart!Seen = SubSeq(R, k, pos) /\ (Run(k)' = Multipart!Seen)
      BY <1>1, <1>2, <1>6, <3>1, SeenIs
    <3>3. R[pos] # "cr"
      BY <1>2, <2>1, <2>6
    <3>4. CASE ~last
      <4>1. pending' = Run(k)'
        BY <1>5, <1>6, <3>2, <3>3, <3>4
      <4>2. UncutAt(b)'
        BY <1>4, <1>6, <2>1, <2>2, <2>6, <3>1, <4>1 DEF UncutAt
      <4>. QED
        BY <1>1, <1>4, <1>6, <2>1, <4>2, NameUncut DEF StaysGood, Alike
    <3>5. CASE last
      <4>1. h' \in Multipart!HeaderValue(h, Multipart!Seen)
        BY <1>1, <3>3, <3>5, Given, Place DEF Multipart!HeaderBody
      <4>2. InValue(k) /\ pos >= b + 12
        BY <2>1, <2>6, <3>1 DEF InValue
      <4>3. h'.part = NameAt(b + 10)
        <5>1. h' \in Multipart!HeaderValue(h, SubSeq(R, k, pos)) /\ h \in States
          BY <1>1, <3>2, <4>1, Given
        <5>2. h'.part = NameAt(b + 10) \/ (h'.part = h.part /\ k # b + 10)
          BY <1>1, <1>2, <2>1, <2>2, <4>2, <5>1, NameIs
        <5>. QED
          BY <3>1, <5>2
      <4>4. NameAt(b + 10)' = NameAt(b + 10)
        BY DEF NameAt
      <4>5. UncutAt(b)'
        BY <1>4, <1>6, <2>1, <2>2, <2>6, <4>3, <4>4 DEF UncutAt
      <4>. QED
        BY <1>1, <1>4, <1>6, <2>1, <4>5, NameUncut DEF StaysGood, Alike
    <3>. QED
      BY <3>4, <3>5
  <2>7. CASE pos = b + 13
    <3>1. R[pos] = "cr"
      BY <1>2, <2>1, <2>7
    <3>2. PICK s \in Multipart!HeaderValue(h, pending) :
            IF last THEN h' \in Multipart!HeaderValue(s, Multipart!Seen) ELSE h' = s
      BY <1>1, <3>1, Given, Place DEF Multipart!HeaderBody
    <3>3. PICK k \in 1 .. pos :
            /\ pending = SubSeq(R, k, pos - 1) /\ Multipart!Seen = SubSeq(R, k, pos) /\ InValue(k)
            /\ k = b + 10 \/ h.part = NameAt(b + 10)
      <4>1. CASE h.part = NameAt(b + 10)
        BY <1>3, <2>3, <4>1
      <4>2. CASE pending = Run(b + 10)
        <5>1. PICK k \in 1 .. pos : k = b + 10
          BY <2>1, <2>7
        <5>2. InValue(k) /\ pending = Run(k)
          BY <2>1, <2>7, <4>2, <5>1 DEF InValue
        <5>3. pending = SubSeq(R, k, pos - 1) /\ Multipart!Seen = SubSeq(R, k, pos)
          BY <1>1, <1>2, <5>2, SeenIs DEF Run
        <5>. QED
          BY <5>1, <5>2, <5>3
      <4>. QED
        BY <2>2, <2>7, <4>1, <4>2 DEF UncutAt
    <3>4. s \in States /\ s.cd /\ s.part = NameAt(b + 10)
      <4>1. pos - 1 >= b + 12 /\ h \in States
        BY <1>1, <2>1, <2>7, Given
      <4>2. /\ s \in States /\ s.cd
            /\ s.part = NameAt(b + 10) \/ (s.part = h.part /\ k # b + 10)
        <5>1. s \in Multipart!HeaderValue(h, SubSeq(R, k, pos - 1))
          BY <3>2, <3>3
        <5>. QED
          BY <1>1, <1>2, <2>1, <2>2, <3>3, <4>1, <5>1, NameIs
      <4>. QED
        BY <3>3, <4>2
    <3>5. h'.part = NameAt(b + 10)
      <4>1. CASE last
        <5>1. pos >= b + 12
          BY <2>1, <2>7
        <5>2. h'.part = NameAt(b + 10) \/ h'.part = s.part
          <6>1. h' \in Multipart!HeaderValue(s, SubSeq(R, k, pos))
            BY <3>2, <3>3, <4>1
          <6>. QED
            BY <1>1, <1>2, <2>1, <3>3, <3>4, <5>1, <6>1, NameIs
        <5>. QED
          BY <3>4, <5>2
      <4>. QED
        BY <3>2, <3>4, <4>1
    <3>6. NameAt(b + 10)' = NameAt(b + 10)
      BY DEF NameAt
    <3>7. UncutAt(b)'
      BY <1>6, <2>1, <2>7, <3>5, <3>6 DEF UncutAt
    <3>. QED
      BY <1>1, <1>4, <1>6, <2>1, <3>7, NameUncut DEF StaysGood, Alike
  <2>. QED
    BY <2>1, <2>5, <2>6, <2>7
<1>. QED
  BY <1>2, <1>7, <1>8

LEMMA DataUncut ==
  ASSUME Good, NEW last \in BOOLEAN, Multipart!PartData(last)
  PROVE  StaysGood
<1>1. Running /\ Uncut /\ ~cut' /\ L \in Nat /\ pos \in Nat
  BY Given, Facts, Place DEF Good
<1>2. /\ Multipart!More /\ st \in {"data_start", "data"}
      /\ pos \in {17, 18, 19, 37, 38, 39} \/ pos \in 65 .. L + 65
      /\ st = "data_start" => pos \in {17, 37, 65}
      /\ (R[pos] = "cr" /\ pos < 65) => pos \in {19, 39}
  BY <1>1, DataPlace
<1>3. PICK m \in 1 .. pos : pending = Run(m)
  BY <1>1, DataPlace
<1>4. /\ h' \in States /\ h'.cd = h.cd /\ h'.part = h.part /\ h'.answer # "stored"
      /\ h'.answer = "none" => /\ h.part # "filename" => h'.path = h.path
                               /\ h.part # "sessionid" => h'.sid = h.sid
  BY <1>1, <1>3, DataEffect
<1>5. PICK t, keep : Multipart!Goto(t, index, last, keep) /\ (R[pos] # "cr" => keep = Multipart!Seen)
  BY <1>1, Given, Place DEF Multipart!PartData
<1>6. /\ pos' = pos + 1 /\ R' = R /\ L' = L /\ pending' = (IF last THEN <<>> ELSE keep)
      /\ st' # "stopped" => h'.answer = "none"
  BY <1>1, <1>2, <1>5, Went
<1>. SUFFICES ASSUME st' # "stopped"
              PROVE  Uncut'
  BY <1>4 DEF StaysGood
<1>7. CASE pos \in 65 .. L + 65
  <2>1. h.part = "filedata"
    <3>1. UncutAt(40)
      BY <1>1 DEF Uncut, Starts
    <3>2. pos \in 40 + 14 .. L + 68
      BY <1>1, <1>7
    <3>. QED
      BY <3>1, <3>2 DEF UncutAt, NameAt
  <2>2. h'.path = h.path /\ h'.sid = h.sid
    BY <1>4, <1>6, <2>1
  <2>3. pos \notin Telling /\ pos < L + 68 /\ pos \notin {4, 24, 44}
    BY <1>1, <1>7 DEF Telling
  <2>. QED
    BY <1>1, <1>2, <1>4, <1>6, <2>2, <2>3, RestUncut
<1>8. CASE pos \in {17, 18, 19, 37, 38, 39}
  <2>1. h.part = IF pos <= 19 THEN "sessionid" ELSE "filename"
    <3>1. UncutAt(0) /\ UncutAt(20)
      BY <1>1 DEF Uncut, Starts
    <3>2. pos \in 0 + 14 .. 0 + 22 \/ (pos \in 20 + 14 .. 20 + 22 /\ ~(pos <= 19))
      BY <1>8
    <3>. QED
      BY <1>8, <3>1, <3>2 DEF UncutAt, NameAt
  <2>2. PICK k \in 1 .. pos : k = (IF pos <= 19 THEN 17 ELSE 37) /\ pending = Run(k)
    <3>1. CASE pos \in {17, 37}
      <4>1. st = "data_start"
        BY <1>1, <1>2, <3>1, Given DEF PlaceInv, InHead
      <4>2. pending = Run(pos)
        BY <1>1, <1>2, <4>1, NothingIsPending, Given DEF PendingInv
      <4>. QED
        BY <3>1, <4>2
    <3>2. CASE pos \in {18, 19, 38, 39}
      <4>1. pending = IF pos <= 19 THEN Run(17) ELSE Run(37)
        BY <1>1, <3>2 DEF Uncut
      <4>. QED
        BY <3>2, <4>1
    <3>. QED
      BY <1>8, <3>1, <3>2
  <2>3. Multipart!DataBegin(h) = {h}
    BY <2>1 DEF Multipart!DataBegin
  <2>4. /\ IF R[pos] = "cr" THEN h' \in Multipart!Data(h, pending)
           ELSE IF last THEN h' \in Multipart!Data(h, Multipart!Seen)
           ELSE h' = h
    BY <1>1, <2>3, Given, Place DEF Multipart!PartData
  <2>5. UncutAt(0)' /\ UncutAt(20)' /\ UncutAt(40)'
    <3>1. UncutAt(0) /\ UncutAt(20)
      BY <1>1 DEF Uncut, Starts
    <3>2. ASSUME NEW b \in {0, 20, 40}
          PROVE  UncutAt(b)'
      <4>1. /\ pos' \notin b + 5 .. b + 7 /\ pos' # b + 8 /\ pos' \notin b + 9 .. b + 13
            /\ pos' \notin b + 11 .. b + 12 /\ pos' # b + 13
        BY <1>6, <1>8
      <4>2. pos' \in b + 14 .. (IF b = 40 THEN L' + 68 ELSE b + 22) =>
              /\ b \in {0, 20}
              /\ pos \in b + 14 .. (IF b = 40 THEN L + 68 ELSE b + 22)
        BY <1>6, <1>8
      <4>3. pos' \in b + 14 .. (IF b = 40 THEN L' + 68 ELSE b + 22) => h'.part = NameAt(b + 10)'
        BY <1>4, <3>1, <4>2 DEF UncutAt, NameAt
      <4>. QED
        BY <4>1, <4>3 DEF UncutAt
    <3>. QED
      BY <3>2
  <2>6. CASE pos \in {17, 18, 37, 38}
    <3>1. R[pos] # "cr" /\ ~last
      BY <1>1, <1>2, <1>5, <2>6, NotCut
    <3>2. h' = h /\ pending' = Multipart!Seen
      BY <1>5, <1>6, <2>4, <3>1
    <3>3. pending' = Run(k)'
      BY <1>1, <1>2, <1>6, <2>2, <3>2, SeenIs
    <3>4. /\ pos' \in 18 .. 19 => pending' = Run(17)'
          /\ pos' \in 38 .. 39 => pending' = Run(37)'
      BY <1>6, <2>2, <2>6, <3>3
    <3>5. /\ pos' >= 20 => h'.sid = "whole"
          /\ pos' >= 40 => h'.path = "whole"
          /\ pos' <= L' + 68
      BY <1>1, <1>6, <2>6, <3>2 DEF Uncut
    <3>. QED
      BY <2>5, <3>4, <3>5 DEF Uncut, Starts
  <2>7. CASE pos \in {19, 39}
    <3>1. R[pos] = "cr"
      BY <1>1, <2>7, Spots, Given
    <3>2. h' \in Multipart!Data(h, pending) /\ pending \in Seq(Symbols)
      BY <1>1, <1>2, <2>2, <2>4, <3>1, SeenIs
    <3>3. pending = IF pos <= 19 THEN Multipart!Sid ELSE Multipart!Path
      <4>1. pending = SubSeq(R, k, pos - 1)
        BY <2>2 DEF Run
      <4>2. CASE pos = 19
        <5>1. k = 17 /\ pos - 1 = 18
          BY <2>2, <4>2
        <5>. QED
          BY <1>1, <4>1, <4>2, <5>1, TellingRuns, Given
      <4>3. CASE pos = 39
        <5>1. k = 37 /\ pos - 1 = 38
          BY <2>2, <4>3
        <5>. QED
          BY <1>1, <4>1, <4>3, <5>1, TellingRuns, Given
      <4>. QED
        BY <2>7, <4>2, <4>3
    <3>4. IF pos <= 19 THEN h'.sid = "whole" ELSE h'.path = "whole" /\ h'.sid = h.sid
      BY <1>1, <2>1, <3>2, <3>3, DataIs, Given
    <3>5. /\ pos' >= 20 => h'.sid = "whole"
          /\ pos' >= 40 => h'.path = "whole"
          /\ pos' <= L' + 68 /\ pos' \notin 18 .. 19 /\ pos' \notin 38 .. 39
      BY <1>1, <1>6, <2>7, <3>4 DEF Uncut
    <3>. QED
      BY <2>5, <3>5 DEF Uncut, Starts
  <2>. QED
    BY <1>8, <2>6, <2>7
<1>. QED
  BY <1>2, <1>7, <1>8

LEMMA NoBoundaryUncut ==
  ASSUME Good, Multipart!NoBoundary
  PROVE  StaysGood
<1>1. Running /\ Uncut /\ L \in Nat /\ Multipart!More /\ pos \in 66 .. L + 65
  BY Given, Facts, PlaceNoBoundary DEF Good, Multipart!NoBoundary
<1>2. pos' = pos /\ R' = R /\ L' = L /\ (st' # "stopped" => h'.answer = "none")
  BY Steady DEF Multipart!NoBoundary
<1>3. h.part = "filedata"
  <2>1. UncutAt(40)
    BY <1>1 DEF Uncut, Starts
  <2>2. pos \in 40 + 14 .. L + 68
    BY <1>1
  <2>. QED
    BY <2>1, <2>2 DEF UncutAt, NameAt
<1>4. h'.part = h.part /\ h'.sid = h.sid /\ h'.path = h.path /\ h'.answer # "stored"
  <2>1. PICK d : h' \in Multipart!Data(h, d) /\ d \in Seq(Symbols)
    BY <1>1, Lookbehind DEF Multipart!NoBoundary
  <2>. QED
    BY <1>1, <1>3, <2>1, DataIs, Given
<1>5. Uncut'
  <2>1. ASSUME NEW b \in {0, 20, 40}
        PROVE  UncutAt(b)'
    <3>1. /\ pos' \notin b + 5 .. b + 7 /\ pos' # b + 8 /\ pos' \notin b + 9 .. b + 13
          /\ pos' \notin b + 11 .. b + 12 /\ pos' # b + 13
      BY <1>1, <1>2
    <3>2. pos' \in b + 14 .. (IF b = 40 THEN L' + 68 ELSE b + 22) => b = 40
      BY <1>1, <1>2
    <3>. QED
      BY <1>3, <1>4, <3>1, <3>2 DEF UncutAt, NameAt
  <2>2. /\ pos' \notin 18 .. 19 /\ pos' \notin 38 .. 39 /\ pos' <= L' + 68
        /\ pos >= 20 /\ pos >= 40
    BY <1>1, <1>2
  <2>3. h'.sid = "whole" /\ h'.path = "whole"
    BY <1>1, <1>4, <2>2 DEF Uncut
  <2>. QED
    BY <2>1, <2>2, <2>3 DEF Uncut, Starts
<1>. QED
  BY <1>4, <1>5 DEF StaysGood

LEMMA BoundaryUncut ==
  ASSUME Good, NEW last \in BOOLEAN, Multipart!InBoundary(last)
  PROVE  IF st' = "stopped" THEN h'.answer = "stored" => h'.target = file' /\ ~h'.elsewhere
                            ELSE Uncut'
<1>1. Running /\ Uncut /\ L \in Nat /\ pos \in Nat
  BY Given, Facts, Place DEF Good
<1>2. /\ Multipart!More /\ st = "boundary"
      /\ IF index = 1
           THEN h' \in Multipart!DataEnd(h) /\ Multipart!Goto("almost_end", 2, last, <<>>)
           ELSE h' = h /\ Multipart!Goto("boundary", index + 1, last, <<>>)
  <2>1. index \in Int
    BY <1>1, Given DEF Multipart!UploadTypeOK
  <2>2. index + 1 = 2 <=> index = 1
    BY <2>1
  <2>. QED
    BY <2>2, Pieces DEF Multipart!InBoundary, Multipart!Quiet
<1>3. /\ index \in {0, 1}
      /\ index = 0 => pos \in {21, 41} \/ (pos > 65 /\ pos <= L + 67)
      /\ index = 1 => pos \in {22, 42} \/ pos = L + 68
  <2>1. CASE pos <= 65
    BY <1>1, <1>2, <2>1, Given DEF PlaceInv, InHead
  <2>2. CASE pos > 65
    <3>1. index = 1 => pos = L + 68
      BY <1>1, <2>2, PlaceBoundary, Given
    <3>. QED
      BY <1>1, <1>2, <2>2, <3>1, Given DEF PlaceInv, InFile
  <2>. QED
    BY <1>1, <2>1, <2>2
<1>4. CASE index = 0
  <2>1. h' = h /\ Multipart!Goto("boundary", index + 1, last, <<>>)
    BY <1>2, <1>4
  <2>2. pos \notin Telling /\ pos < L + 68
    BY <1>1, <1>3, <1>4 DEF Telling
  <2>3. StaysGood
    BY <1>2, <2>1, <2>2, QuietUncut
  <2>. QED
    BY <2>3 DEF StaysGood
<1>5. CASE index = 1
  <2>1. /\ h' \in States /\ h'.cd = h.cd /\ h'.sid = h.sid /\ h'.path = h.path
        /\ h.part # "filedata" => h'.answer # "stored"
        /\ h.part = "filedata" => /\ h'.answer # "none"
                                  /\ (h'.answer = "stored" /\ h.path = "whole") =>
                                       h'.target = h.temp /\ h'.elsewhere = h.elsewhere
    BY <1>1, <1>2, <1>5, Given, DataEndIs
  <2>2. /\ pos' = pos + 1 /\ R' = R /\ L' = L /\ pending' = <<>> /\ file' = file
        /\ st' # "stopped" => h'.answer = "none"
    BY <1>1, <1>2, <1>5, Went DEF Multipart!Goto
  <2>3. CASE pos \in {22, 42}
    <3>1. h.part # "filedata"
      BY <1>1, <2>3, Given DEF CallbackInv
    <3>2. pos \notin Telling /\ pos < L + 68
      BY <1>1, <2>3 DEF Telling
    <3>3. Uncut'
      BY <1>1, <1>2, <2>1, <2>2, <2>3, <3>2, RestUncut
    <3>. QED
      BY <2>1, <3>1, <3>3
  <2>4. CASE pos = L + 68
    <3>1. h.part = "filedata"
      <4>1. UncutAt(40)
        BY <1>1 DEF Uncut, Starts
      <4>2. pos \in 40 + 14 .. L + 68
        BY <1>1, <2>4
      <4>. QED
        BY <4>1, <4>2 DEF UncutAt, NameAt
    <3>2. h.path = "whole"
      BY <1>1, <2>4 DEF Uncut
    <3>3. h'.answer = "stored" => h.temp = file
      BY DEF Good, Kept, Reads
    <3>4. ~h.elsewhere
      BY <1>1, Given DEF CallbackInv
    <3>. QED
      BY <2>1, <2>2, <3>1, <3>2, <3>3, <3>4
  <2>. QED
    BY <1>3, <1>5, <2>3, <2>4
<1>. QED
  BY <1>3, <1>4, <1>5

LEMMA UncutStep ==
  ASSUME UploadInv, UncutInv, Multipart!Next
  PROVE  UncutInv'
<1>. SUFFICES ASSUME ~cut'
              PROVE  IF st' = "stopped" THEN h'.answer = "stored" => h'.target = file' /\ ~h'.elsewhere
                                        ELSE Uncut'
  BY DEF UncutInv
<1>1. Running /\ Kept
  BY UploadStep
<1>2. ~cut
  <2>1. (\E last, t, i, keep : Multipart!Goto(t, i, last, keep)) \/ cut' = cut
    BY DEF Multipart!Next, Multipart!Parse, Multipart!StartBoundary, Multipart!HeaderName,
           Multipart!HeadersAlmostDone, Multipart!ValueStart, Multipart!HeaderBody,
           Multipart!ValueAlmostDone, Multipart!PartData, Multipart!AlmostBoundary,
           Multipart!InBoundary, Multipart!AfterBoundary, Multipart!NoBoundary
  <2>. QED
    BY <2>1 DEF Multipart!Goto
<1>3. Good
  BY <1>1, <1>2 DEF Good, UncutInv, Running
<1>4. CASE Multipart!NoBoundary
  BY <1>3, <1>4, NoBoundaryUncut DEF StaysGood
<1>5. ASSUME NEW last \in BOOLEAN, Multipart!Parse(last)
      PROVE  IF st' = "stopped" THEN h'.answer = "stored" => h'.target = file' /\ ~h'.elsewhere
                                ELSE Uncut'
  <2>1. CASE \/ Multipart!StartBoundary(last) \/ Multipart!HeadersAlmostDone(last)
             \/ Multipart!ValueStart(last) \/ Multipart!ValueAlmostDone(last)
             \/ Multipart!AlmostBoundary(last) \/ Multipart!AfterBoundary(last)
    BY <1>3, <2>1, QuietUncutSteps DEF StaysGood
  <2>2. CASE Multipart!HeaderName(last)
    BY <1>3, <2>2, FieldUncut DEF StaysGood
  <2>3. CASE Multipart!HeaderBody(last)
    BY <1>3, <2>3, ValueUncut DEF StaysGood
  <2>4. CASE Multipart!PartData(last)
    BY <1>3, <2>4, DataUncut DEF StaysGood
  <2>5. CASE Multipart!InBoundary(last)
    BY <1>3, <2>5, BoundaryUncut
  <2>. QED
    BY <1>5, <2>1, <2>2, <2>3, <2>4, <2>5 DEF Multipart!Parse
<1>. QED
  BY <1>4, <1>5 DEF Multipart!Next

LEMMA UncutStart ==
  ASSUME Multipart!Init
  PROVE  UncutInv
<1>1. /\ file \in Files /\ pos = 1 /\ st = "start"
  BY DEF Multipart!Init
<1>2. L \in Nat
  BY <1>1, Facts
<1>3. ASSUME NEW b \in {0, 20, 40} PROVE UncutAt(b)
  BY <1>1 DEF UncutAt
<1>4. Uncut
  BY <1>1, <1>2, <1>3 DEF Uncut, Starts
<1>. QED
  BY <1>1, <1>4 DEF UncutInv

LEMMA UncutRests ==
  ASSUME UncutInv, UNCHANGED uploadVars
  PROVE  UncutInv'
<1>1. /\ file' = file /\ pos' = pos /\ st' = st /\ pending' = pending /\ h' = h /\ cut' = cut
  BY DEF uploadVars
<1>2. R' = R /\ L' = L
  BY <1>1, Steady
<1>3. ASSUME NEW b \in Starts PROVE UncutAt(b)' <=> UncutAt(b)
  BY <1>1, <1>2 DEF UncutAt, Run, NameAt
<1>4. Uncut' <=> Uncut
  BY <1>1, <1>2, <1>3 DEF Uncut, Run, Starts
<1>. QED
  BY <1>1, <1>4 DEF UncutInv

\* What an upload leaves on the path is the old file, the new one or, after a
\* failure that was answered, none; and an upload of which no name was cut is
\* stored under the name that was sent, and is answered.
THEOREM UploadsAreWhole == Spec => []UploadIsWhole
<1>. DEFINE Inv == part = "upload" => UploadInv /\ UncutInv
<1>1. Init => Inv
  BY UploadStart, UncutStart DEF Init
<1>2. Inv /\ [Next]_vars => Inv'
  <2>. SUFFICES ASSUME Inv, [Next]_vars, part' = "upload" PROVE UploadInv' /\ UncutInv'
    OBVIOUS
  <2>1. CASE part = "upload" /\ Multipart!Next /\ part' = part
    BY <2>1, UploadStep, UncutStep DEF Kept
  <2>2. CASE part' = part /\ UNCHANGED uploadVars
    BY <2>2, UploadRests, UncutRests
  <2>3. (part = "upload" /\ Multipart!Next /\ part' = part) \/ (part' = part /\ UNCHANGED uploadVars)
    BY DEF Next, vars
  <2>. QED
    BY <2>1, <2>2, <2>3
<1>3. Inv => UploadIsWhole
  <2>. SUFFICES ASSUME part = "upload", UploadInv, UncutInv
                PROVE  UploadIsWhole
    BY DEF UploadIsWhole
  <2>1. CASE st = "stopped"
    BY <2>1 DEF UploadIsWhole, UploadInv, EndInv, UncutInv,
                Multipart!TargetIntact, Multipart!WholeUploadIsAnswered
  <2>2. CASE st # "stopped"
    <3>1. Running /\ L \in Nat /\ Len(Multipart!Request(file)) = L + 72 /\ pos \in Nat
      BY <2>2, Given, Facts, Place DEF Running, R
    <3>2. ~cut => pos <= L + 68
      BY <2>2 DEF UncutInv, Uncut
    <3>. QED
      BY <2>2, <3>1, <3>2, Given DEF UploadIsWhole, CallbackInv, Running,
                Multipart!TargetIntact, Multipart!WholeUploadIsAnswered
  <2>. QED
    BY <2>1, <2>2
<1>. QED
  BY <1>1, <1>2, <1>3, PTL DEF Spec
-----------------------------------------------------------------------------
(* Plug-ins: paths and the tree of directories.                            *)

LEMMA FiniteIs == \A S : Manager!IsFiniteSet(S) <=> IsFiniteSet(S)
BY DEF Manager!IsFiniteSet, IsFiniteSet

LEMMA CountIs == \A S : Manager!Cardinality(S) = Cardinality(S)
BY FiniteIs DEF Manager!Cardinality, Cardinality

PathNames == Manager!PlainNames \cup Manager!MarkedNames

LEMMA PrefixIs ==
  ASSUME NEW S, NEW s \in Seq(S), NEW t \in Seq(S)
  PROVE  Manager!IsPrefix(s, t) <=> Len(s) <= Len(t) /\ \A i \in 1 .. Len(s) : s[i] = t[i]
<1>1. ASSUME Len(s) <= Len(t)
      PROVE  SubSeq(s, 1, Len(s)) = SubSeq(t, 1, Len(s)) <=> \A i \in 1 .. Len(s) : s[i] = t[i]
  <2>1. SubSeq(s, 1, Len(s)) = s
    OBVIOUS
  <2>0. Len(s) \in Nat /\ 1 <= Len(s) + 1 /\ Len(s) <= Len(t)
    BY <1>1
  <2>2. PICK u \in Seq(S) : u = SubSeq(t, 1, Len(s))
    <3>1. SubSeq(t, 1, Len(s)) \in Seq(S)
      BY <2>0, RunIs
    <3>. QED
      BY <3>1, Zenon
  <2>3. Len(u) = Len(s) /\ \A i \in 1 .. Len(s) : u[i] = t[i]
    BY <1>1, <2>2
  <2>4. (\A i \in 1 .. Len(s) : s[i] = t[i]) => s = u
    BY <2>3
  <2>. QED
    BY <2>1, <2>2, <2>3, <2>4
<1>. QED
  BY <1>1 DEF Manager!IsPrefix

LEMMA CutOfCut ==
  ASSUME NEW S, NEW s \in Seq(S), NEW n \in 0 .. Len(s), NEW k \in 0 .. n
  PROVE  /\ SubSeq(s, 1, n) \in Seq(S) /\ Len(SubSeq(s, 1, n)) = n
         /\ SubSeq(SubSeq(s, 1, n), 1, k) = SubSeq(s, 1, k)
<1>1. /\ n \in Nat /\ 1 <= n + 1 /\ n <= Len(s) /\ n + 1 - 1 = n
      /\ k \in Nat /\ 1 <= k + 1 /\ k <= n /\ k <= Len(s) /\ k + 1 - 1 = k
  OBVIOUS
<1>2. PICK c : c = SubSeq(s, 1, n)
  OBVIOUS
<1>3. c \in Seq(S) /\ Len(c) = n /\ \A i \in 1 .. n : c[i] = s[i]
  <2>1. SubSeq(s, 1, n) \in Seq(S) /\ Len(SubSeq(s, 1, n)) = n
    BY <1>1
  <2>2. \A i \in 1 .. n : SubSeq(s, 1, n)[i] = s[i]
    BY <1>1
  <2>. QED
    BY <1>2, <2>1, <2>2, Zenon
<1>4. PICK d, e : d = SubSeq(c, 1, k) /\ e = SubSeq(s, 1, k)
  OBVIOUS
<1>5. d \in Seq(S) /\ Len(d) = k /\ \A i \in 1 .. k : d[i] = c[i]
  BY <1>1, <1>3, <1>4
<1>6. e \in Seq(S) /\ Len(e) = k /\ \A i \in 1 .. k : e[i] = s[i]
  BY <1>1, <1>4
<1>7. \A i \in 1 .. k : d[i] = e[i]
  BY <1>1, <1>3, <1>5, <1>6
<1>8. d = e
  BY <1>5, <1>6, <1>7
<1>. QED
  BY <1>2, <1>3, <1>4, <1>8

\* What lies above a directory that is not below old is not below it either.
LEMMA CutBelow ==
  ASSUME NEW S, NEW old \in Seq(S), NEW p \in Seq(S), NEW n \in 1 .. Len(p), ~Manager!IsPrefix(old, p)
  PROVE  ~Manager!IsPrefix(old, SubSeq(p, 1, n))
<1>. SUFFICES ASSUME Manager!IsPrefix(old, SubSeq(p, 1, n)) PROVE FALSE
  OBVIOUS
<1>1. n \in Nat /\ 1 <= n /\ n <= n + 1 /\ n <= Len(p) /\ Len(old) \in Nat
  OBVIOUS
<1>2. PICK c \in Seq(S) : c = SubSeq(p, 1, n)
  <2>1. SubSeq(p, 1, n) \in Seq(S)
    BY <1>1, RunIs
  <2>. QED
    BY <2>1, Zenon
<1>3. Len(c) = n /\ \A i \in 1 .. n : c[i] = p[i]
  <2>1. Len(SubSeq(p, 1, n)) = n /\ \A i \in 1 .. n : SubSeq(p, 1, n)[i] = p[i]
    BY <1>1
  <2>. QED
    BY <1>2, <2>1, Zenon
<1>4. Len(old) <= n /\ \A i \in 1 .. Len(old) : old[i] = c[i]
  <2>1. Manager!IsPrefix(old, c)
    BY <1>2, Zenon
  <2>2. Len(old) <= Len(c) /\ \A i \in 1 .. Len(old) : old[i] = c[i]
    BY <2>1, PrefixIs
  <2>. QED
    BY <1>3, <2>2
<1>5. Len(old) <= Len(p)
  BY <1>1, <1>4
<1>6. \A i \in 1 .. Len(old) : old[i] = p[i]
  BY <1>1, <1>3, <1>4
<1>. QED
  BY <1>5, <1>6, PrefixIs

\* With a directory a tree holds all it lies in.
LEMMA Above ==
  ASSUME NEW t, Manager!IsTree(t), NEW p \in DOMAIN t,
         NEW r \in Manager!Directories, r # <<>>, Manager!IsPrefix(r, p)
  PROVE  r \in DOMAIN t
<1>1. p \in Seq(PathNames) /\ r \in Seq(PathNames)
  BY DEF Manager!IsTree, Manager!Directories, PathNames
<1>2. Len(r) \in 1 .. Len(p) /\ \A i \in 1 .. Len(r) : r[i] = p[i]
  BY <1>1, PrefixIs
<1>3. r = SubSeq(p, 1, Len(r))
  BY <1>1, <1>2
<1>. QED
  BY <1>2, <1>3 DEF Manager!IsTree

\* mkdir -p adds what is missing and changes nothing.
LEMMA MakeDirIs ==
  ASSUME NEW t, Manager!IsTree(t), NEW path \in Manager!Directories
  PROVE  LET made == Manager!MakeDir(t, path) IN
         /\ Manager!IsTree(made)
         /\ \A p \in DOMAIN t : p \in DOMAIN made /\ made[p] = t[p]
         /\ \A n \in 1 .. Len(path) : SubSeq(path, 1, n) \in DOMAIN made
         /\ \A p \in DOMAIN made \ DOMAIN t : made[p] = None
<1>. DEFINE cuts == {SubSeq(path, 1, n) : n \in 1 .. Len(path)}
            made == Manager!MakeDir(t, path)
<1>1. DOMAIN made = DOMAIN t \cup cuts
  BY DEF Manager!MakeDir
<1>2. \A p \in DOMAIN t : made[p] = t[p]
  BY DEF Manager!MakeDir
<1>3. \A p \in DOMAIN made \ DOMAIN t : made[p] = None
  BY DEF Manager!MakeDir
<1>4. made \in [DOMAIN made -> Ids \cup {None}]
  <2>1. made = [p \in DOMAIN made |-> made[p]]
    BY DEF Manager!MakeDir
  <2>2. \A p \in DOMAIN made : made[p] \in Ids \cup {None}
    BY <1>2, <1>3 DEF Manager!IsTree
  <2>. QED
    BY <2>1, <2>2
<1>5. path \in Seq(PathNames)
  BY DEF Manager!Directories, PathNames
<1>6. ASSUME NEW p \in cuts
      PROVE  /\ p \in Manager!Directories /\ p # <<>>
             /\ \A n \in 1 .. Len(p) : SubSeq(p, 1, n) \in cuts
  <2>1. PICK m \in 1 .. Len(path) : p = SubSeq(path, 1, m)
    OBVIOUS
  <2>2. p \in Seq(PathNames) /\ Len(p) = m
    BY <1>5, <2>1, CutOfCut
  <2>3. ASSUME NEW n \in 1 .. Len(p) PROVE SubSeq(p, 1, n) \in cuts
    <3>1. n \in 0 .. m /\ n \in 1 .. Len(path)
      BY <1>5, <2>2
    <3>2. m \in 0 .. Len(path)
      BY <1>5
    <3>3. SubSeq(p, 1, n) = SubSeq(path, 1, n)
      BY <1>5, <2>1, <3>1, <3>2, CutOfCut
    <3>. QED
      BY <3>1, <3>3
  <2>. QED
    BY <2>2, <2>3 DEF Manager!Directories, PathNames
<1>9. IsFiniteSet(DOMAIN made)
  <2>1. Len(path) \in Int
    BY <1>5
  <2>2. IsFiniteSet(1 .. Len(path))
    BY <2>1, FS_Interval
  <2>3. [n \in 1 .. Len(path) |-> SubSeq(path, 1, n)] \in Surjection(1 .. Len(path), cuts)
    BY DEF Surjection
  <2>4. IsFiniteSet(cuts)
    <3>. HIDE DEF cuts
    <3>. QED
      BY <2>2, <2>3, FS_Surjection
  <2>5. IsFiniteSet(DOMAIN t)
    BY FiniteIs DEF Manager!IsTree
  <2>. HIDE DEF cuts, made
  <2>. QED
    BY <1>1, <2>4, <2>5, FS_Union
<1>7. Manager!IsTree(made)
  <2>. HIDE DEF cuts, made
  <2>1. DOMAIN made \subseteq Manager!Directories
    BY <1>1, <1>6 DEF Manager!IsTree
  <2>2. ASSUME NEW p \in DOMAIN made
        PROVE  p # <<>> /\ \A n \in 1 .. Len(p) : SubSeq(p, 1, n) \in DOMAIN made
    BY <1>1, <1>6 DEF Manager!IsTree
  <2>. QED
    BY <1>4, <1>9, <2>1, <2>2, FiniteIs DEF Manager!IsTree
<1>. QED
  BY <1>1, <1>2, <1>3, <1>7

\* Where a directory p goes when old becomes dest.
To(old, dest, p) == dest \o SubSeq(p, Len(old) + 1, Len(p))

Goes(old, dest, p, r) ==
  /\ Len(r) = Len(dest) + (Len(p) - Len(old))
  /\ \A i \in 1 .. Len(dest) : r[i] = dest[i]
  /\ \A i \in 1 .. Len(p) - Len(old) : r[Len(dest) + i] = p[Len(old) + i]

LEMMA ToIs ==
  ASSUME NEW S, NEW old \in Seq(S), NEW dest \in Seq(S), NEW p \in Seq(S), Manager!IsPrefix(old, p)
  PROVE  /\ To(old, dest, p) \in Seq(S) /\ Goes(old, dest, p, To(old, dest, p))
         /\ Manager!IsPrefix(dest, To(old, dest, p))
<1>1. Len(old) <= Len(p) /\ Len(p) \in Nat /\ Len(old) \in Nat
  BY PrefixIs
<1>2. PICK m \in Nat, n \in Nat : m = Len(old) + 1 /\ n = Len(p)
  BY <1>1
<1>3. 1 <= m /\ m <= n + 1 /\ n <= Len(p) /\ n + 1 - m = Len(p) - Len(old)
  BY <1>1, <1>2
<1>4. PICK tail \in Seq(S) : tail = SubSeq(p, m, n)
  BY <1>3, RunIs
<1>5. Len(tail) = Len(p) - Len(old) /\ \A i \in 1 .. Len(p) - Len(old) : tail[i] = p[m + i - 1]
  BY <1>3, <1>4, RunIs
<1>6. \A i \in 1 .. Len(p) - Len(old) : tail[i] = p[Len(old) + i]
  <2>1. \A i \in 1 .. Len(p) - Len(old) : m + i - 1 = Len(old) + i
    BY <1>1, <1>2
  <2>. QED
    BY <1>5, <2>1
<1>7. To(old, dest, p) = dest \o tail
  BY <1>2, <1>4 DEF To
<1>8. /\ dest \o tail \in Seq(S) /\ Len(dest \o tail) = Len(dest) + Len(tail)
      /\ \A i \in 1 .. Len(dest) : (dest \o tail)[i] = dest[i]
      /\ \A i \in 1 .. Len(tail) : (dest \o tail)[Len(dest) + i] = tail[i]
  OBVIOUS
<1>9. Manager!IsPrefix(dest, dest \o tail)
  <2>1. Len(dest) <= Len(dest \o tail)
    BY <1>8
  <2>. QED
    BY <1>8, <2>1, PrefixIs
<1>10. Goes(old, dest, p, dest \o tail)
  BY <1>5, <1>6, <1>8 DEF Goes
<1>. QED
  BY <1>7, <1>8, <1>9, <1>10

LEMMA ToApart ==
  ASSUME NEW S, NEW old \in Seq(S), NEW dest \in Seq(S),
         NEW p \in Seq(S), NEW q \in Seq(S), Manager!IsPrefix(old, p), Manager!IsPrefix(old, q),
         To(old, dest, p) = To(old, dest, q)
  PROVE  p = q
<1>1. Len(old) <= Len(p) /\ \A i \in 1 .. Len(old) : old[i] = p[i]
  BY PrefixIs
<1>2. Len(old) <= Len(q) /\ \A i \in 1 .. Len(old) : old[i] = q[i]
  BY PrefixIs
<1>0. PICK r : r = To(old, dest, p) /\ r = To(old, dest, q)
  OBVIOUS
<1>3. /\ Len(r) = Len(dest) + (Len(p) - Len(old))
      /\ \A i \in 1 .. Len(p) - Len(old) : r[Len(dest) + i] = p[Len(old) + i]
  <2>1. Goes(old, dest, p, To(old, dest, p))
    BY ToIs, Zenon
  <2>. QED
    BY <1>0, <2>1 DEF Goes
<1>4. /\ Len(r) = Len(dest) + (Len(q) - Len(old))
      /\ \A i \in 1 .. Len(q) - Len(old) : r[Len(dest) + i] = q[Len(old) + i]
  <2>1. Goes(old, dest, q, To(old, dest, q))
    BY ToIs, Zenon
  <2>. QED
    BY <1>0, <2>1 DEF Goes
<1>5. Len(p) = Len(q) /\ Len(p) \in Nat /\ Len(q) \in Nat /\ Len(old) \in Nat /\ Len(dest) \in Nat
  BY <1>3, <1>4
<1>6. ASSUME NEW i \in 1 .. Len(p) PROVE p[i] = q[i]
  <2>1. CASE i <= Len(old)
    BY <1>1, <1>2, <2>1, <1>5
  <2>2. CASE i > Len(old)
    <3>1. PICK k \in 1 .. Len(p) - Len(old) : i = Len(old) + k
      <4>1. i - Len(old) \in 1 .. Len(p) - Len(old) /\ i = Len(old) + (i - Len(old))
        BY <1>5, <2>2
      <4>. QED
        BY <4>1
    <3>. QED
      BY <1>3, <1>4, <1>5, <3>1
  <2>. QED
    BY <1>5, <2>1, <2>2
<1>. QED
  BY <1>5, <1>6

\* What lies above a moved directory, below where it went, has been moved too.
MovedAbove(old, dest, p, n) ==
  \E k \in Nat : /\ k >= Len(old) /\ k <= Len(p)
                 /\ Manager!IsPrefix(old, SubSeq(p, 1, k))
                 /\ SubSeq(To(old, dest, p), 1, n) = To(old, dest, SubSeq(p, 1, k))

LEMMA ToAbove ==
  ASSUME NEW S, NEW old \in Seq(S), NEW dest \in Seq(S), NEW p \in Seq(S), Manager!IsPrefix(old, p),
         NEW n \in Nat, Len(dest) <= n, n <= Len(To(old, dest, p))
  PROVE  MovedAbove(old, dest, p, n)
<1>1. Len(old) <= Len(p) /\ \A i \in 1 .. Len(old) : old[i] = p[i]
  BY PrefixIs
<1>0. PICK r \in Seq(S) : r = To(old, dest, p)
  BY ToIs, Zenon
<1>2. /\ Len(r) = Len(dest) + (Len(p) - Len(old))
      /\ \A i \in 1 .. Len(dest) : r[i] = dest[i]
      /\ \A i \in 1 .. Len(p) - Len(old) : r[Len(dest) + i] = p[Len(old) + i]
  <2>1. Goes(old, dest, p, To(old, dest, p))
    BY ToIs, Zenon
  <2>. QED
    BY <1>0, <2>1 DEF Goes
<1>3. Len(p) \in Nat /\ Len(old) \in Nat /\ Len(dest) \in Nat
  OBVIOUS
<1>4. PICK k \in Nat : k = Len(old) + (n - Len(dest))
  <2>1. n - Len(dest) \in Nat
    BY <1>3
  <2>2. Len(old) + (n - Len(dest)) \in Nat
    BY <1>3, <2>1
  <2>. QED
    BY <2>2, Zenon
<1>5. k >= Len(old) /\ k <= Len(p) /\ k <= k + 1 /\ 1 <= k + 1 /\ k + 1 - 1 = k
  BY <1>0, <1>2, <1>3, <1>4
<1>6. PICK c \in Seq(S) : c = SubSeq(p, 1, k)
  <2>1. SubSeq(p, 1, k) \in Seq(S)
    BY <1>5, RunIs
  <2>. QED
    BY <2>1, Zenon
<1>7. Len(c) = k /\ \A i \in 1 .. k : c[i] = p[i]
  BY <1>5, <1>6
<1>8. Manager!IsPrefix(old, c)
  <2>1. \A i \in 1 .. Len(old) : old[i] = c[i]
    BY <1>1, <1>3, <1>5, <1>7
  <2>. QED
    BY <1>5, <1>7, <2>1, PrefixIs
<1>9. PICK t \in Seq(S) : t = To(old, dest, c)
  BY <1>8, ToIs, Zenon
<1>10. /\ Len(t) = Len(dest) + (k - Len(old))
       /\ \A i \in 1 .. Len(dest) : t[i] = dest[i]
       /\ \A i \in 1 .. k - Len(old) : t[Len(dest) + i] = c[Len(old) + i]
  <2>1. Goes(old, dest, c, To(old, dest, c))
    BY <1>8, ToIs, Zenon
  <2>. QED
    BY <1>7, <1>9, <2>1 DEF Goes
<1>11. PICK d \in Seq(S) : d = SubSeq(r, 1, n)
  <2>1. SubSeq(r, 1, n) \in Seq(S)
    BY <1>0, RunIs
  <2>. QED
    BY <2>1, Zenon
<1>12. Len(d) = n /\ \A i \in 1 .. n : d[i] = r[i]
  BY <1>0, <1>11
<1>13. Len(t) = n
  BY <1>3, <1>4, <1>10
<1>14. ASSUME NEW i \in 1 .. n PROVE d[i] = t[i]
  <2>1. CASE i <= Len(dest)
    <3>1. i \in 1 .. Len(dest)
      BY <1>3, <2>1
    <3>2. t[i] = dest[i] /\ r[i] = dest[i] /\ d[i] = r[i]
      BY <1>2, <1>10, <1>12, <3>1, Zenon
    <3>. QED
      BY <3>2
  <2>2. CASE i > Len(dest)
    <3>1. PICK j \in 1 .. k - Len(old) : i = Len(dest) + j
      <4>1. i - Len(dest) \in 1 .. k - Len(old) /\ i = Len(dest) + (i - Len(dest))
        BY <1>3, <1>4, <2>2
      <4>. QED
        BY <4>1
    <3>2. j \in 1 .. Len(p) - Len(old) /\ Len(old) + j \in 1 .. k
      BY <1>3, <1>5, <3>1
    <3>3. r[Len(dest) + j] = p[Len(old) + j] /\ c[Len(old) + j] = p[Len(old) + j]
      BY <1>2, <1>7, <3>2
    <3>4. t[Len(dest) + j] = c[Len(old) + j]
      BY <1>10, <3>1
    <3>. QED
      BY <1>12, <3>1, <3>3, <3>4
  <2>. QED
    BY <1>3, <2>1, <2>2
<1>15. d = t
  BY <1>12, <1>13, <1>14
<1>. QED
  BY <1>0, <1>5, <1>6, <1>8, <1>9, <1>11, <1>15 DEF MovedAbove

-----------------------------------------------------------------------------
(* Plug-ins: what mv does to a tree.                                       *)

\* Every plug-in of t is in u.
Keeps(t, u) == \A p \in DOMAIN t : t[p] # None => \E q \in DOMAIN u : u[q] = t[p]

\* What is in u was in t, and is there as often.
Arises(t, u) ==
  /\ \A q \in DOMAIN u : u[q] # None => \E p \in DOMAIN t : t[p] = u[q]
  /\ Manager!Once(t) => Manager!Once(u)

\* A move of old to where nothing but an empty directory is, which makes u of t.
Free(t, old, dest) ==
  /\ dest \in Manager!Directories /\ dest # <<>>
  /\ \A n \in 1 .. Len(dest) - 1 : SubSeq(dest, 1, n) \in DOMAIN t
  /\ ~Manager!IsPrefix(old, dest)
  /\ dest \in DOMAIN t => /\ t[dest] = None
                          /\ \A p \in DOMAIN t : ~Manager!IsStrictPrefix(dest, p)
Move(t, old, dest, moved, u) ==
  /\ moved = {p \in DOMAIN t : Manager!IsPrefix(old, p)}
  /\ DOMAIN u = (DOMAIN t \ moved) \cup {To(old, dest, p) : p \in moved}
  /\ u = [q \in DOMAIN u |-> u[q]]
  /\ \A q \in DOMAIN u :
       IF \E p \in moved : To(old, dest, p) = q
       THEN \E p \in moved : To(old, dest, p) = q /\ u[q] = t[p]
       ELSE u[q] = t[q]

LEMMA MoveIs ==
  ASSUME NEW t, Manager!IsTree(t), NEW old \in DOMAIN t,
         NEW dest, Free(t, old, dest), NEW moved, NEW u, Move(t, old, dest, moved, u)
  PROVE  Manager!IsTree(u) /\ Keeps(t, u) /\ Arises(t, u)
<1>. USE DEF Free, Move
<1>1. /\ old \in Seq(PathNames) /\ dest \in Seq(PathNames)
      /\ \A p \in DOMAIN t : p \in Seq(PathNames) /\ p # <<>>
  BY DEF Manager!IsTree, Manager!Directories, PathNames
<1>2. Len(old) >= 1 /\ Len(dest) >= 1 /\ Len(old) \in Nat /\ Len(dest) \in Nat
  BY <1>1
<1>3. \A p \in moved : p \in DOMAIN t /\ p \in Seq(PathNames) /\ Manager!IsPrefix(old, p)
  BY <1>1
<1>4. \A p \in moved : /\ To(old, dest, p) \in Seq(PathNames)
                       /\ Goes(old, dest, p, To(old, dest, p))
                       /\ Manager!IsPrefix(dest, To(old, dest, p))
  BY <1>1, <1>3, ToIs, Zenon
<1>5. \A p \in moved : Len(To(old, dest, p)) >= Len(dest)
  <2>. SUFFICES ASSUME NEW p \in moved PROVE Len(To(old, dest, p)) >= Len(dest)
    OBVIOUS
  <2>1. Manager!IsPrefix(dest, To(old, dest, p)) /\ To(old, dest, p) \in Seq(PathNames)
    BY <1>4
  <2>. QED
    BY <1>1, <2>1 DEF Manager!IsPrefix
\* Nothing is below the place it goes to, but perhaps an empty directory there.
<1>6. ASSUME NEW p \in DOMAIN t, Manager!IsPrefix(dest, p)
      PROVE  p = dest /\ t[p] = None
  <2>1. dest \in DOMAIN t
    BY <1>6, Above
  <2>. QED
    BY <1>6, <2>1 DEF Manager!IsStrictPrefix
<1>7. DOMAIN u \subseteq Manager!Directories /\ \A q \in DOMAIN u : q # <<>>
  <2>1. ASSUME NEW p \in moved
        PROVE  To(old, dest, p) \in Manager!Directories /\ To(old, dest, p) # <<>>
    <3>1. PICK r \in Seq(PathNames) : r = To(old, dest, p)
      BY <1>4
    <3>2. Len(r) >= 1
      BY <1>2, <1>5, <3>1
    <3>. QED
      BY <3>1, <3>2 DEF Manager!Directories, PathNames
  <2>2. \A p \in DOMAIN t : p \in Manager!Directories /\ p # <<>>
    BY DEF Manager!IsTree
  <2>. QED
    BY <2>1, <2>2
<1>8. u \in [DOMAIN u -> Ids \cup {None}]
  <2>1. \A p \in DOMAIN t : t[p] \in Ids \cup {None}
    BY DEF Manager!IsTree
  <2>2. ASSUME NEW q \in DOMAIN u PROVE u[q] \in Ids \cup {None}
    <3>1. CASE \E p \in moved : To(old, dest, p) = q
      BY <1>3, <2>1, <3>1
    <3>2. CASE ~\E p \in moved : To(old, dest, p) = q
      <4>1. q \in DOMAIN t /\ u[q] = t[q]
        BY <3>2
      <4>. QED
        BY <2>1, <4>1
    <3>. QED
      BY <3>1, <3>2
  <2>. QED
    BY <2>2
\* What is above the place it goes to has not been moved.
<1>9. ASSUME NEW n \in 1 .. Len(dest) - 1
      PROVE  SubSeq(dest, 1, n) \in DOMAIN t \ moved
  <2>1. n \in 1 .. Len(dest)
    BY <1>2
  <2>. QED
    BY <1>1, <2>1, CutBelow
<1>10. ASSUME NEW q \in DOMAIN u, NEW n \in 1 .. Len(q)
       PROVE  SubSeq(q, 1, n) \in DOMAIN u
  <2>1. CASE q \in DOMAIN t \ moved
    <3>1. q \in DOMAIN t /\ q \in Seq(PathNames) /\ ~Manager!IsPrefix(old, q)
      BY <1>1, <2>1
    <3>2. SubSeq(q, 1, n) \in DOMAIN t /\ ~Manager!IsPrefix(old, SubSeq(q, 1, n))
      BY <1>1, <3>1, CutBelow DEF Manager!IsTree
    <3>. QED
      BY <3>2
  <2>2. CASE \E p \in moved : q = To(old, dest, p)
    <3>1. PICK p \in moved : q = To(old, dest, p)
      BY <2>2
    <3>2. q \in Seq(PathNames) /\ Len(q) >= Len(dest) /\ n \in Nat /\ n <= Len(q)
      BY <1>4, <1>5, <3>1
    <3>3. CASE n >= Len(dest)
      <4>1. PICK k \in Nat : /\ k >= Len(old) /\ k <= Len(p)
                             /\ Manager!IsPrefix(old, SubSeq(p, 1, k))
                             /\ SubSeq(q, 1, n) = To(old, dest, SubSeq(p, 1, k))
        <5>1. /\ n \in Nat /\ Len(dest) <= n /\ n <= Len(To(old, dest, p))
              /\ p \in Seq(PathNames) /\ Manager!IsPrefix(old, p)
          BY <1>3, <3>1, <3>2, <3>3
        <5>2. MovedAbove(old, dest, p, n)
          BY <1>1, <5>1, ToAbove, Zenon
        <5>. QED
          BY <3>1, <5>2 DEF MovedAbove
      <4>2. k \in 1 .. Len(p)
        BY <1>2, <1>3, <4>1
      <4>3. SubSeq(p, 1, k) \in moved
        BY <1>3, <4>1, <4>2 DEF Manager!IsTree
      <4>. QED
        BY <4>1, <4>3
    <3>4. CASE n < Len(dest)
      <4>1. Manager!IsPrefix(dest, q)
        BY <1>4, <3>1
      <4>2. \A i \in 1 .. Len(dest) : dest[i] = q[i]
        BY <1>1, <3>2, <4>1, PrefixIs
      <4>3. n \in 1 .. Len(dest) - 1
        BY <1>2, <3>2, <3>4
      <4>4. \A i \in 1 .. n : dest[i] = q[i]
        BY <1>2, <4>2, <4>3
      <4>5. SubSeq(q, 1, n) = SubSeq(dest, 1, n)
        <5>1. n \in Nat /\ 1 <= n /\ n <= n + 1 /\ n + 1 - 1 = n /\ n <= Len(q) /\ n <= Len(dest)
          BY <1>2, <3>2, <4>3
        <5>2. PICK c \in Seq(PathNames) : c = SubSeq(dest, 1, n)
          <6>1. SubSeq(dest, 1, n) \in Seq(PathNames)
            BY <1>1, <5>1, RunIs
          <6>. QED
            BY <6>1, Zenon
        <5>3. Len(c) = n /\ \A i \in 1 .. n : c[i] = dest[i]
          BY <1>1, <5>1, <5>2
        <5>4. PICK e \in Seq(PathNames) : e = SubSeq(q, 1, n)
          <6>1. SubSeq(q, 1, n) \in Seq(PathNames)
            BY <3>2, <5>1, RunIs
          <6>. QED
            BY <6>1, Zenon
        <5>5. Len(e) = n /\ \A i \in 1 .. n : e[i] = q[i]
          BY <3>2, <5>1, <5>4
        <5>6. e = c
          BY <4>4, <5>3, <5>5
        <5>. QED
          BY <5>2, <5>4, <5>6
      <4>. QED
        BY <1>9, <4>3, <4>5
    <3>. QED
      BY <1>2, <3>2, <3>3, <3>4
  <2>. QED
    BY <2>1, <2>2
<1>11. Keeps(t, u)
  <2>. SUFFICES ASSUME NEW p \in DOMAIN t, t[p] # None
                PROVE  \E q \in DOMAIN u : u[q] = t[p]
    BY DEF Keeps
  <2>1. CASE p \in moved
    <3>1. PICK q \in DOMAIN u : q = To(old, dest, p)
      BY <2>1
    <3>2. PICK r \in moved : To(old, dest, r) = q /\ u[q] = t[r]
      BY <2>1, <3>1
    <3>3. r = p
      BY <1>1, <1>3, <2>1, <3>1, <3>2, ToApart
    <3>. QED
      BY <3>2, <3>3
  <2>2. CASE p \notin moved
    <3>1. p \in DOMAIN u
      BY <2>2
    <3>2. ~\E r \in moved : To(old, dest, r) = p
      BY <1>4, <1>6
    <3>. QED
      BY <3>1, <3>2
  <2>. QED
    BY <2>1, <2>2
\* Each of u comes from one place in t, and goes nowhere else.
<1>12. ASSUME NEW q \in DOMAIN u
       PROVE  \E p \in DOMAIN t : /\ u[q] = t[p]
                                  /\ q = IF p \in moved THEN To(old, dest, p) ELSE p
  <2>1. CASE \E p \in moved : To(old, dest, p) = q
    BY <1>3, <2>1
  <2>2. CASE ~\E p \in moved : To(old, dest, p) = q
    <3>1. q \in DOMAIN t \ moved /\ u[q] = t[q]
      BY <2>2
    <3>. QED
      BY <3>1
  <2>. QED
    BY <2>1, <2>2
<1>13. Arises(t, u)
  <2>1. ASSUME Manager!Once(t), NEW q \in DOMAIN u, NEW r \in DOMAIN u, u[q] = u[r], u[q] # None
        PROVE  q = r
    <3>1. PICK p \in DOMAIN t : u[q] = t[p] /\ q = IF p \in moved THEN To(old, dest, p) ELSE p
      BY <1>12
    <3>2. PICK o \in DOMAIN t : u[r] = t[o] /\ r = IF o \in moved THEN To(old, dest, o) ELSE o
      BY <1>12
    <3>3. p = o
      BY <2>1, <3>1, <3>2 DEF Manager!Once
    <3>. QED
      BY <3>1, <3>2, <3>3
  <2>2. Manager!Once(t) => Manager!Once(u)
    BY <2>1 DEF Manager!Once
  <2>. QED
    BY <1>12, <2>2 DEF Arises
<1>14. IsFiniteSet(DOMAIN u)
  <2>. DEFINE image == {To(old, dest, p) : p \in moved}
  <2>1. IsFiniteSet(DOMAIN t) /\ IsFiniteSet(moved) /\ IsFiniteSet(DOMAIN t \ moved)
    BY FiniteIs, FS_Subset DEF Manager!IsTree
  <2>2. [p \in moved |-> To(old, dest, p)] \in Surjection(moved, image)
    BY DEF Surjection
  <2>3. DOMAIN u = (DOMAIN t \ moved) \cup image
    OBVIOUS
  <2>4. IsFiniteSet(image)
    <3>. HIDE DEF image
    <3>. QED
      BY <2>1, <2>2, FS_Surjection
  <2>5. PICK stay, came : stay = DOMAIN t \ moved /\ came = image
    OBVIOUS
  <2>6. IsFiniteSet(stay \cup came)
    <3>1. IsFiniteSet(stay) /\ IsFiniteSet(came)
      BY <2>1, <2>4, <2>5
    <3>. QED
      BY <3>1, FS_Union
  <2>. QED
    BY <2>3, <2>5, <2>6
<1>. QED
  BY <1>7, <1>8, <1>10, <1>11, <1>13, <1>14, FiniteIs DEF Manager!IsTree

\* rename keeps every plug-in and leaves a tree.
LEMMA MovedKeeps ==
  ASSUME NEW t, Manager!IsTree(t), NEW old, NEW new \in Manager!Directories, new # <<>>,
         \A n \in 1 .. Len(new) - 1 : SubSeq(new, 1, n) \in DOMAIN t
  PROVE  /\ Manager!IsTree(Manager!Moved(t, old, new)) /\ Keeps(t, Manager!Moved(t, old, new))
         /\ Arises(t, Manager!Moved(t, old, new))
<1>. DEFINE dest == IF new \in DOMAIN t THEN Append(new, Manager!Last(old)) ELSE new
            moved == {p \in DOMAIN t : Manager!IsPrefix(old, p)}
            to(p) == dest \o SubSeq(p, Len(old) + 1, Len(p))
            from(q) == CHOOSE p \in moved : to(p) = q
            full == t[dest] # None \/ \E p \in DOMAIN t : Manager!IsStrictPrefix(dest, p)
            stays == old \notin DOMAIN t \/ Manager!IsPrefix(old, dest) \/ (dest \in DOMAIN t /\ full)
            u == [q \in (DOMAIN t \ moved) \cup {to(p) : p \in moved} |->
                    IF \E p \in moved : to(p) = q THEN t[from(q)] ELSE t[q]]
<1>1. Manager!Moved(t, old, new) = IF stays THEN t ELSE u
  BY DEF Manager!Moved
<1>2. CASE stays
  BY <1>1, <1>2 DEF Keeps, Arises
<1>3. CASE ~stays
  <2>1. old \in DOMAIN t /\ ~Manager!IsPrefix(old, dest) /\ ~(dest \in DOMAIN t /\ full)
    BY <1>3
  <2>2. old \in Seq(PathNames) /\ old # <<>> /\ new \in Seq(PathNames)
    BY <2>1 DEF Manager!IsTree, Manager!Directories, PathNames
  <2>3. dest \in Manager!Directories /\ dest # <<>>
    <3>1. Manager!Last(old) \in PathNames
      BY <2>2 DEF Manager!Last
    <3>2. Append(new, Manager!Last(old)) \in Seq(PathNames) /\ Append(new, Manager!Last(old)) # <<>>
      BY <2>2, <3>1
    <3>. QED
      BY <3>2 DEF Manager!Directories, PathNames
  <2>4. \A n \in 1 .. Len(dest) - 1 : SubSeq(dest, 1, n) \in DOMAIN t
    <3>1. CASE new \notin DOMAIN t
      BY <3>1
    <3>2. CASE new \in DOMAIN t
      <4>. SUFFICES ASSUME NEW n \in 1 .. Len(dest) - 1 PROVE SubSeq(dest, 1, n) \in DOMAIN t
        OBVIOUS
      <4>1. PICK l \in PathNames : l = Manager!Last(old)
        BY <2>2 DEF Manager!Last
      <4>2. dest = Append(new, l)
        BY <3>2, <4>1
      <4>3. n \in 1 .. Len(new)
        BY <2>2, <4>2
      <4>4. SubSeq(Append(new, l), 1, n) = SubSeq(new, 1, n)
        BY <2>2, <4>3
      <4>. QED
        BY <3>2, <4>2, <4>3, <4>4 DEF Manager!IsTree
    <3>. QED
      BY <3>1, <3>2
  <2>5. dest \in DOMAIN t => t[dest] = None /\ \A p \in DOMAIN t : ~Manager!IsStrictPrefix(dest, p)
    BY <2>1
  <2>6. \A p : to(p) = To(old, dest, p)
    BY DEF To
  <2>7. DOMAIN u = (DOMAIN t \ moved) \cup {To(old, dest, p) : p \in moved}
    <3>1. {to(p) : p \in moved} = {To(old, dest, p) : p \in moved}
      BY DEF To
    <3>. QED
      BY <3>1
  <2>8. u = [q \in DOMAIN u |-> u[q]]
    OBVIOUS
  <2>9. ASSUME NEW q \in DOMAIN u
        PROVE  IF \E p \in moved : To(old, dest, p) = q
               THEN \E p \in moved : To(old, dest, p) = q /\ u[q] = t[p]
               ELSE u[q] = t[q]
    <3>1. u[q] = IF \E p \in moved : to(p) = q THEN t[from(q)] ELSE t[q]
      OBVIOUS
    <3>2. CASE \E p \in moved : to(p) = q
      <4>1. from(q) \in moved /\ to(from(q)) = q
        BY <3>2
      <4>2. u[q] = t[from(q)]
        BY <3>1, <3>2
      <4>3. To(old, dest, from(q)) = q
        BY <2>6, <4>1
      <4>. QED
        BY <4>1, <4>2, <4>3
    <3>3. CASE ~\E p \in moved : to(p) = q
      BY <2>6, <3>1, <3>3
    <3>. QED
      BY <3>2, <3>3
  <2>10. PICK v : v = u
    OBVIOUS
  <2>11. PICK m : m = moved
    OBVIOUS
  <2>12. PICK d : d = dest
    OBVIOUS
  <2>. HIDE DEF u, moved, dest
  <2>13. Manager!IsTree(v) /\ Keeps(t, v) /\ Arises(t, v)
    <3>1. Free(t, old, d)
      BY <2>1, <2>3, <2>4, <2>5, <2>12 DEF Free
    <3>2. m = {p \in DOMAIN t : Manager!IsPrefix(old, p)}
      BY <2>11 DEF moved
    <3>3. Move(t, old, d, m, v)
      BY <2>7, <2>8, <2>9, <2>10, <2>11, <2>12, <3>2 DEF Move
    <3>. QED
      BY <2>1, <3>1, <3>3, MoveIs
  <2>. QED
    BY <1>1, <1>3, <2>10, <2>13
<1>. QED
  BY <1>2, <1>3

\* What a command to rename may ask for.
Sound(old, new) ==
  \/ old = <<>> /\ new \in Seq(Seq(Nat)) /\ Len(new) <= 1
  \/ new \in Manager!Directories /\ new # <<>>

\* Directories that are made are empty.
LEMMA MadeArises ==
  ASSUME NEW t, Manager!IsTree(t), NEW path \in Manager!Directories
  PROVE  Arises(t, Manager!MakeDir(t, path))
<1>1. PICK made : made = Manager!MakeDir(t, path)
  OBVIOUS
<1>2. /\ \A p \in DOMAIN t : p \in DOMAIN made /\ made[p] = t[p]
      /\ \A p \in DOMAIN made \ DOMAIN t : made[p] = None
  BY <1>1, MakeDirIs
<1>3. \A q \in DOMAIN made : made[q] # None => q \in DOMAIN t /\ made[q] = t[q]
  BY <1>2
<1>4. Manager!Once(t) => Manager!Once(made)
  BY <1>3 DEF Manager!Once
<1>. QED
  BY <1>1, <1>3, <1>4 DEF Arises

LEMMA RenamedKeeps ==
  ASSUME NEW t, t = tree, Manager!IsTree(t), NEW old, NEW new, Sound(old, new)
  PROVE  /\ Manager!IsTree(Manager!Renamed(old, new)) /\ Keeps(t, Manager!Renamed(old, new))
         /\ Arises(t, Manager!Renamed(old, new))
<1>1. CASE old = <<>> /\ new \in Seq(Seq(Nat)) /\ Len(new) <= 1
  <2>1. Manager!Front(new) \in Seq(PathNames) /\ Len(Manager!Front(new)) = 0
    BY <1>1 DEF Manager!Front
  <2>2. /\ Manager!IsTree(Manager!MakeDir(t, Manager!Front(new))) /\ Keeps(t, Manager!MakeDir(t, Manager!Front(new)))
        /\ Arises(t, Manager!MakeDir(t, Manager!Front(new)))
    <3>1. Manager!Front(new) \in Manager!Directories
      BY <2>1 DEF Manager!Directories, PathNames
    <3>2. Arises(t, Manager!MakeDir(t, Manager!Front(new)))
      BY <3>1, MadeArises
    <3>. QED
      BY <3>1, <3>2, MakeDirIs DEF Keeps
  <2>3. <<>> \notin DOMAIN Manager!MakeDir(t, Manager!Front(new))
    BY <2>2 DEF Manager!IsTree
  <2>4. Manager!Renamed(old, new) = Manager!MakeDir(t, Manager!Front(new))
    BY <1>1, <2>3 DEF Manager!Renamed, Manager!Moved
  <2>. QED
    BY <2>2, <2>4
<1>2. CASE new \in Manager!Directories /\ new # <<>>
  <2>1. new \in Seq(PathNames) /\ Len(new) \in Nat /\ Len(new) >= 1
    BY <1>2 DEF Manager!Directories, PathNames
  <2>2. PICK f \in Seq(PathNames) : f = Manager!Front(new) /\ Len(f) = Len(new) - 1 /\ f = SubSeq(new, 1, Len(new) - 1)
    <3>1. PICK n \in Nat : n = Len(new) - 1
      BY <2>1
    <3>2. SubSeq(new, 1, n) \in Seq(PathNames) /\ Len(SubSeq(new, 1, n)) = n
      BY <2>1, <3>1
    <3>. QED
      BY <3>1, <3>2 DEF Manager!Front
  <2>3. f \in Manager!Directories
    BY DEF Manager!Directories, PathNames
  <2>4. PICK made : made = Manager!MakeDir(t, f)
    OBVIOUS
  <2>5. /\ Manager!IsTree(made) /\ \A p \in DOMAIN t : p \in DOMAIN made /\ made[p] = t[p]
        /\ \A n \in 1 .. Len(f) : SubSeq(f, 1, n) \in DOMAIN made
    BY <2>3, <2>4, MakeDirIs
  <2>6. ASSUME NEW n \in 1 .. Len(new) - 1 PROVE SubSeq(new, 1, n) \in DOMAIN made
    <3>1. SubSeq(f, 1, n) = SubSeq(new, 1, n)
      BY <2>1, <2>2, CutOfCut
    <3>. QED
      BY <2>2, <2>5, <3>1
  <2>7. /\ Manager!IsTree(Manager!Moved(made, old, new)) /\ Keeps(made, Manager!Moved(made, old, new))
        /\ Arises(made, Manager!Moved(made, old, new))
    BY <1>2, <2>5, <2>6, MovedKeeps
  <2>8. Manager!Renamed(old, new) = Manager!Moved(made, old, new)
    BY <2>2, <2>4 DEF Manager!Renamed
  <2>9. Arises(t, made)
    BY <2>3, <2>4, MadeArises
  <2>10. PICK u : u = Manager!Renamed(old, new)
    OBVIOUS
  <2>11. Keeps(made, u) /\ Arises(made, u)
    BY <2>7, <2>8, <2>10
  <2>12. Arises(t, u)
    <3>1. ASSUME NEW q \in DOMAIN u, u[q] # None PROVE \E p \in DOMAIN t : t[p] = u[q]
      <4>1. PICK r \in DOMAIN made : made[r] = u[q]
        BY <2>11, <3>1 DEF Arises
      <4>. QED
        BY <2>9, <3>1, <4>1 DEF Arises
    <3>. QED
      BY <2>9, <2>11, <3>1 DEF Arises
  <2>. QED
    BY <2>5, <2>7, <2>8, <2>10, <2>11, <2>12 DEF Keeps
<1>. QED
  BY <1>1, <1>2 DEF Sound

-----------------------------------------------------------------------------
(* Plug-ins: the order of lines.                                           *)

LEMMA LeastOf ==
  ASSUME NEW T \in SUBSET Nat, T # {}
  PROVE  \E n \in T : \A m \in T : n <= m
<1>. DEFINE less == OpToRel(<, Nat)
<1>1. IsWellFoundedOn(less, Nat)
  BY NatLessThanWellFounded
<1>2. \A m, n \in Nat : m < n => <<m, n>> \in less
  BY DEF OpToRel
<1>. HIDE DEF less
<1>3. \E n \in T : \A m \in T : ~(<<m, n>> \in less)
  BY <1>1, WFMin
<1>4. PICK n \in T : \A m \in T : ~(<<m, n>> \in less)
  BY <1>3
<1>5. ASSUME NEW m \in T PROVE n <= m
  <2>1. m \in Nat /\ n \in Nat /\ <<m, n>> \notin less
    BY <1>4
  <2>2. m < n => <<m, n>> \in less
    BY <1>2, <2>1
  <2>. QED
    BY <2>1, <2>2
<1>. QED
  BY <1>5

\* Sequences s and t first part at i.
PartAt(s, t, i) ==
  /\ i \in 1 .. Len(s) /\ i \in 1 .. Len(t) /\ s[i] # t[i]
  /\ \A j \in 1 .. i - 1 : s[j] = t[j]
Begins(s, t) == Len(s) < Len(t) /\ \A j \in 1 .. Len(s) : s[j] = t[j]

LEMMA BeginsIs ==
  ASSUME NEW S, NEW s \in Seq(S), NEW t \in Seq(S)
  PROVE  Manager!IsStrictPrefix(s, t) <=> Begins(s, t)
<1>1. Manager!IsPrefix(s, t) <=> Len(s) <= Len(t) /\ \A i \in 1 .. Len(s) : s[i] = t[i]
  BY PrefixIs
<1>2. Len(s) = Len(t) /\ (\A i \in 1 .. Len(s) : s[i] = t[i]) => s = t
  OBVIOUS
<1>3. Len(s) \in Nat /\ Len(t) \in Nat
  OBVIOUS
<1>. QED
  BY <1>1, <1>2, <1>3 DEF Manager!IsStrictPrefix, Begins

LEMMA TheyPart ==
  ASSUME NEW S, NEW s \in Seq(S), NEW t \in Seq(S), s # t
  PROVE  Begins(s, t) \/ Begins(t, s) \/ \E i \in Nat : PartAt(s, t, i)
<1>. DEFINE D == {i \in 1 .. Len(s) : i <= Len(t) /\ s[i] # t[i]}
<1>0. Len(s) \in Nat /\ Len(t) \in Nat
  OBVIOUS
<1>1. CASE D = {}
  <2>1. \A i \in 1 .. Len(s) : i <= Len(t) => s[i] = t[i]
    BY <1>1
  <2>2. Len(s) = Len(t) => s = t
    BY <2>1
  <2>3. Len(s) < Len(t) => Begins(s, t)
    BY <1>0, <2>1 DEF Begins
  <2>4. Len(t) < Len(s) => Begins(t, s)
    BY <1>0, <2>1 DEF Begins
  <2>. QED
    BY <1>0, <2>2, <2>3, <2>4
<1>2. CASE D # {}
  <2>1. D \in SUBSET Nat
    BY <1>0
  <2>2. PICK i \in D : \A j \in D : i <= j
    BY <1>2, <2>1, LeastOf
  <2>3. i \in Nat /\ i \in 1 .. Len(s) /\ i \in 1 .. Len(t) /\ s[i] # t[i]
    BY <1>0, <2>2
  <2>4. ASSUME NEW j \in 1 .. i - 1 PROVE s[j] = t[j]
    <3>1. j \in 1 .. Len(s) /\ j <= Len(t) /\ j < i /\ j \in Nat
      BY <1>0, <2>3
    <3>2. j \notin D
      BY <2>2, <2>3, <3>1
    <3>. QED
      BY <3>1, <3>2
  <2>. QED
    BY <2>3, <2>4 DEF PartAt
<1>. QED
  BY <1>1, <1>2

LEMMA EarlierIs ==
  ASSUME NEW s \in Seq(Nat), NEW t \in Seq(Nat)
  PROVE  Manager!Earlier(s, t) <=> Begins(s, t) \/ \E i \in Nat : PartAt(s, t, i) /\ s[i] < t[i]
<1>1. DOMAIN s = 1 .. Len(s) /\ DOMAIN t = 1 .. Len(t) /\ Len(s) \in Nat /\ Len(t) \in Nat
  OBVIOUS
<1>2. \A i \in 1 .. Len(s) : \A k \in 1 .. Len(t) : s[i] \in Nat /\ t[k] \in Nat
  OBVIOUS
<1>3. ASSUME NEW i \in DOMAIN s \cap DOMAIN t, s[i] < t[i], \A j \in 1 .. i - 1 : s[j] = t[j]
      PROVE  i \in Nat /\ PartAt(s, t, i)
  BY <1>1, <1>2, <1>3 DEF PartAt
<1>4. ASSUME NEW i \in Nat, PartAt(s, t, i)
      PROVE  i \in DOMAIN s \cap DOMAIN t /\ \A j \in 1 .. i - 1 : s[j] = t[j]
  BY <1>1, <1>4 DEF PartAt
<1>. QED
  BY <1>3, <1>4, BeginsIs DEF Manager!Earlier

\* Where they part decides.
LEMMA EarlierAt ==
  ASSUME NEW s \in Seq(Nat), NEW t \in Seq(Nat), NEW i \in Nat, PartAt(s, t, i)
  PROVE  Manager!Earlier(s, t) <=> s[i] < t[i]
<1>1. ~Begins(s, t)
  BY DEF PartAt, Begins
<1>2. ASSUME NEW k \in Nat, PartAt(s, t, k) PROVE k = i
  <2>1. ~(k < i) /\ ~(i < k)
    BY <1>2 DEF PartAt
  <2>. QED
    BY <2>1
<1>. QED
  BY <1>1, <1>2, EarlierIs

LEMMA NeverEarlier ==
  ASSUME NEW s \in Seq(Nat) PROVE ~Manager!Earlier(s, s)
<1>1. ~Begins(s, s)
  BY DEF Begins
<1>2. \A i : ~PartAt(s, s, i)
  BY DEF PartAt
<1>. QED
  BY <1>1, <1>2, EarlierIs

LEMMA OneIsEarlier ==
  ASSUME NEW s \in Seq(Nat), NEW t \in Seq(Nat), s # t
  PROVE  Manager!Earlier(s, t) \/ Manager!Earlier(t, s)
<1>1. CASE Begins(s, t) \/ Begins(t, s)
  BY <1>1, EarlierIs
<1>2. ASSUME NEW i \in Nat, PartAt(s, t, i) PROVE Manager!Earlier(s, t) \/ Manager!Earlier(t, s)
  <2>1. PartAt(t, s, i)
    BY <1>2 DEF PartAt
  <2>2. s[i] \in Nat /\ t[i] \in Nat /\ s[i] # t[i]
    BY <1>2 DEF PartAt
  <2>3. s[i] < t[i] \/ t[i] < s[i]
    BY ONLY <2>2
  <2>. QED
    BY <1>2, <2>1, <2>3, EarlierIs
<1>. QED
  BY <1>1, <1>2, TheyPart

LEMMA EarlierChains ==
  ASSUME NEW s \in Seq(Nat), NEW t \in Seq(Nat), NEW u \in Seq(Nat),
         Manager!Earlier(s, t), Manager!Earlier(t, u)
  PROVE  Manager!Earlier(s, u)
<1>0. /\ Len(s) \in Nat /\ Len(t) \in Nat /\ Len(u) \in Nat
      /\ \A i \in 1 .. Len(s) : s[i] \in Nat
      /\ \A i \in 1 .. Len(t) : t[i] \in Nat
      /\ \A i \in 1 .. Len(u) : u[i] \in Nat
  OBVIOUS
<1>1. CASE Begins(s, t) /\ Begins(t, u)
  <2>1. Begins(s, u)
    BY <1>0, <1>1 DEF Begins
  <2>. QED
    BY <2>1, EarlierIs
<1>2. ASSUME Begins(s, t), NEW i \in Nat, PartAt(t, u, i), t[i] < u[i] PROVE Manager!Earlier(s, u)
  <2>1. CASE i <= Len(s)
    <3>1. i \in 1 .. Len(s) /\ s[i] = t[i] /\ s[i] # u[i] /\ \A j \in 1 .. i - 1 : s[j] = u[j]
      BY <1>0, <1>2, <2>1 DEF Begins, PartAt
    <3>2. PartAt(s, u, i) /\ s[i] < u[i]
      BY <1>2, <3>1 DEF PartAt
    <3>. QED
      BY <3>2, EarlierIs
  <2>2. CASE i > Len(s)
    <3>1. Begins(s, u)
      BY <1>0, <1>2, <2>2 DEF Begins, PartAt
    <3>. QED
      BY <3>1, EarlierIs
  <2>. QED
    BY <1>0, <2>1, <2>2
<1>3. ASSUME NEW i \in Nat, PartAt(s, t, i), s[i] < t[i], Begins(t, u) PROVE Manager!Earlier(s, u)
  <2>1. i \in 1 .. Len(t) /\ t[i] = u[i] /\ \A j \in 1 .. i - 1 : t[j] = u[j]
    BY <1>0, <1>3 DEF Begins, PartAt
  <2>2. PartAt(s, u, i) /\ s[i] < u[i]
    BY <1>0, <1>3, <2>1 DEF Begins, PartAt
  <2>. QED
    BY <2>2, EarlierIs
<1>4. ASSUME NEW i \in Nat, PartAt(s, t, i), s[i] < t[i], NEW k \in Nat, PartAt(t, u, k), t[k] < u[k]
      PROVE  Manager!Earlier(s, u)
  <2>1. CASE i < k
    <3>1. t[i] = u[i] /\ i \in 1 .. Len(u)
      BY <1>4, <2>1 DEF PartAt
    <3>2. PartAt(s, u, i) /\ s[i] < u[i]
      BY <1>4, <2>1, <3>1 DEF PartAt
    <3>. QED
      BY <3>2, EarlierIs
  <2>2. CASE k < i
    <3>1. s[k] = t[k] /\ k \in 1 .. Len(s)
      BY <1>4, <2>2 DEF PartAt
    <3>2. PartAt(s, u, k) /\ s[k] < u[k]
      BY <1>4, <2>2, <3>1 DEF PartAt
    <3>. QED
      BY <3>2, EarlierIs
  <2>3. CASE i = k
    <3>1. i \in 1 .. Len(s) /\ i \in 1 .. Len(t) /\ i \in 1 .. Len(u)
      BY <1>4, <2>3 DEF PartAt
    <3>2. s[i] \in Nat /\ t[i] \in Nat /\ u[i] \in Nat /\ s[i] < t[i] /\ t[i] < u[i]
      BY <1>0, <1>4, <2>3, <3>1
    <3>3. s[i] < u[i] /\ s[i] # u[i]
      BY ONLY <3>2
    <3>4. PartAt(s, u, i)
      BY <1>4, <2>3, <3>1, <3>3 DEF PartAt
    <3>. QED
      BY <3>3, <3>4, EarlierIs
  <2>. QED
    BY <2>1, <2>2, <2>3
<1>. QED
  BY <1>1, <1>2, <1>3, <1>4, EarlierIs

LEMMA JoinedIs ==
  ASSUME NEW S, NEW s \in Seq(S), NEW x \in Seq(S)
  PROVE  /\ s \o x \in Seq(S) /\ Len(s \o x) = Len(s) + Len(x)
         /\ \A i \in 1 .. Len(s) : (s \o x)[i] = s[i]
         /\ \A i \in 1 .. Len(x) : (s \o x)[Len(s) + i] = x[i]
OBVIOUS

\* Neither begins like the other: then nothing behind them counts.
LEMMA BehindDoesNotCount ==
  ASSUME NEW s \in Seq(Nat), NEW t \in Seq(Nat), NEW x \in Seq(Nat), NEW y \in Seq(Nat),
         ~Manager!IsPrefix(s, t), ~Manager!IsPrefix(t, s)
  PROVE  Manager!Earlier(s \o x, t \o y) <=> Manager!Earlier(s, t)
<1>1. s # t /\ ~Begins(s, t) /\ ~Begins(t, s)
  <2>1. Manager!IsPrefix(s, s)
    BY PrefixIs
  <2>. QED
    BY <2>1, BeginsIs DEF Manager!IsStrictPrefix
<1>2. PICK i \in Nat : PartAt(s, t, i)
  BY <1>1, TheyPart
<1>3. PICK v, w : v = s \o x /\ w = t \o y
  OBVIOUS
<1>4. /\ v \in Seq(Nat) /\ Len(v) = Len(s) + Len(x) /\ \A j \in 1 .. Len(s) : v[j] = s[j]
      /\ w \in Seq(Nat) /\ Len(w) = Len(t) + Len(y) /\ \A j \in 1 .. Len(t) : w[j] = t[j]
  BY <1>3, JoinedIs
<1>5. Len(s) \in Nat /\ Len(t) \in Nat /\ Len(x) \in Nat /\ Len(y) \in Nat
  OBVIOUS
<1>6. i \in 1 .. Len(v) /\ i \in 1 .. Len(w) /\ i \in 1 .. Len(s) /\ i \in 1 .. Len(t)
  BY <1>2, <1>4, <1>5 DEF PartAt
<1>7. v[i] = s[i] /\ w[i] = t[i]
  BY <1>4, <1>6
<1>8. ASSUME NEW j \in 1 .. i - 1 PROVE v[j] = w[j]
  <2>1. j \in 1 .. Len(s) /\ j \in 1 .. Len(t)
    BY <1>5, <1>6
  <2>2. s[j] = t[j]
    BY <1>2 DEF PartAt
  <2>. QED
    BY <1>4, <2>1, <2>2
<1>9. PartAt(v, w, i)
  BY <1>2, <1>6, <1>7, <1>8 DEF PartAt
<1>10. Manager!Earlier(v, w) <=> v[i] < w[i]
  BY <1>4, <1>9, EarlierAt
<1>11. Manager!Earlier(s, t) <=> s[i] < t[i]
  BY <1>2, EarlierAt
<1>. QED
  BY <1>3, <1>7, <1>10, <1>11

-----------------------------------------------------------------------------
(* Plug-ins: lines with paths.                                             *)

Letters == Nat \ {Manager!Slash}
Paths == Seq(Seq(Letters)) \ {<<>>}

LEMMA WrittenIs ==
  ASSUME NEW p \in Paths, NEW k \in 1 .. Len(p)
  PROVE  Manager!Written(p, k) \in Seq(Nat) /\ p[k] \in Seq(Nat)
<1>1. p[k] \in Seq(Letters) /\ Seq(Letters) \subseteq Seq(Nat)
  BY DEF Paths, Letters
<1>2. <<Manager!Slash>> \in Seq(Nat) /\ <<>> \in Seq(Nat)
  BY DEF Manager!Slash
<1>. QED
  BY <1>1, <1>2 DEF Manager!Written

LEMMA WrittenOnce ==
  ASSUME NEW p \in Paths, NEW q \in Paths, NEW k \in 1 .. Len(p), k \in 1 .. Len(q),
         Manager!Written(p, k) = Manager!Written(q, k)
  PROVE  p[k] = q[k] /\ (k < Len(p) <=> k < Len(q))
<1>1. PICK a \in Seq(Letters), b \in Seq(Letters) : a = p[k] /\ b = q[k]
  BY DEF Paths
<1>2. a \in Seq(Nat) /\ b \in Seq(Nat) /\ Manager!Slash \in Nat
  BY DEF Letters, Manager!Slash
<1>3. PICK c, d, l : l = <<Manager!Slash>> /\ c = a \o l /\ d = b \o l
  OBVIOUS
<1>4. l \in Seq(Nat) /\ Len(l) = 1 /\ l[1] = Manager!Slash
  BY <1>2, <1>3
<1>5. /\ c \in Seq(Nat) /\ Len(c) = Len(a) + 1 /\ c[Len(a) + 1] = Manager!Slash
      /\ \A i \in 1 .. Len(a) : c[i] = a[i]
  BY <1>2, <1>3, <1>4, JoinedIs
<1>6. /\ d \in Seq(Nat) /\ Len(d) = Len(b) + 1 /\ d[Len(b) + 1] = Manager!Slash
      /\ \A i \in 1 .. Len(b) : d[i] = b[i]
  BY <1>2, <1>3, <1>4, JoinedIs
<1>7. /\ Len(a) \in Nat /\ \A i \in 1 .. Len(a) : a[i] # Manager!Slash
      /\ Len(b) \in Nat /\ \A i \in 1 .. Len(b) : b[i] # Manager!Slash
  BY DEF Letters
<1>8. c # b /\ d # a
  <2>1. Len(b) = Len(a) + 1 => b[Len(a) + 1] # Manager!Slash
    BY <1>7
  <2>2. Len(a) = Len(b) + 1 => a[Len(b) + 1] # Manager!Slash
    BY <1>7
  <2>. QED
    BY <1>5, <1>6, <2>1, <2>2
<1>9. ASSUME c = d PROVE a = b
  <2>1. Len(a) = Len(b)
    BY <1>5, <1>6, <1>7, <1>9
  <2>2. \A i \in 1 .. Len(a) : a[i] = b[i]
    BY <1>5, <1>6, <1>9, <2>1
  <2>. QED
    BY <1>2, <2>1, <2>2
<1>10. a \o <<>> = a /\ b \o <<>> = b
  BY <1>2
<1>11. /\ Manager!Written(p, k) = IF k < Len(p) THEN c ELSE a
       /\ Manager!Written(q, k) = IF k < Len(q) THEN d ELSE b
  BY <1>1, <1>3, <1>10, Zenon DEF Manager!Written
<1>. QED
  BY <1>1, <1>8, <1>9, <1>11, Zenon

\* Names that are the same and have something behind them are written the same.
LEMMA WrittenSame ==
  ASSUME NEW p, NEW q, NEW k, k < Len(p), k < Len(q), p[k] = q[k]
  PROVE  Manager!Written(p, k) = Manager!Written(q, k)
BY DEF Manager!Written

LEMMA LineIs ==
  ASSUME NEW p \in Paths, NEW q \in Paths
  PROVE  Manager!EarlierLine(p, q) <=>
           \E k \in Nat : /\ k \in 1 .. Len(p) /\ k \in 1 .. Len(q)
                          /\ Manager!Earlier(Manager!Written(p, k), Manager!Written(q, k))
                          /\ \A j \in 1 .. k - 1 : p[j] = q[j]
<1>1. DOMAIN p = 1 .. Len(p) /\ DOMAIN q = 1 .. Len(q) /\ Len(p) \in Nat /\ Len(q) \in Nat
  BY DEF Paths
<1>2. \A k : k \in DOMAIN p \cap DOMAIN q <=> k \in Nat /\ k \in 1 .. Len(p) /\ k \in 1 .. Len(q)
  BY <1>1
<1>. QED
  BY <1>2 DEF Manager!EarlierLine

LEMMA NeverEarlierLine ==
  ASSUME NEW p \in Paths PROVE ~Manager!EarlierLine(p, p)
BY LineIs, WrittenIs, NeverEarlier

LEMMA OneLineIsEarlier ==
  ASSUME NEW p \in Paths, NEW q \in Paths, p # q
  PROVE  Manager!EarlierLine(p, q) \/ Manager!EarlierLine(q, p)
<1>0. p \in Seq(Seq(Letters)) /\ q \in Seq(Seq(Letters)) /\ p # <<>> /\ q # <<>>
  BY DEF Paths
<1>. DEFINE Apart(k) == /\ k \in Nat /\ k \in 1 .. Len(p) /\ k \in 1 .. Len(q)
                        /\ Manager!Written(p, k) # Manager!Written(q, k)
                        /\ \A j \in 1 .. k - 1 : p[j] = q[j]
<1>1. ASSUME NEW k, Apart(k) PROVE Manager!EarlierLine(p, q) \/ Manager!EarlierLine(q, p)
  <2>1. Manager!Written(p, k) \in Seq(Nat) /\ Manager!Written(q, k) \in Seq(Nat)
    BY <1>1, WrittenIs
  <2>2. \/ Manager!Earlier(Manager!Written(p, k), Manager!Written(q, k))
        \/ Manager!Earlier(Manager!Written(q, k), Manager!Written(p, k))
    BY <1>1, <2>1, OneIsEarlier
  <2>3. \A j \in 1 .. k - 1 : q[j] = p[j]
    BY <1>1
  <2>. QED
    BY <1>1, <2>2, <2>3, LineIs
<1>2. CASE Begins(p, q)
  <2>1. PICK k \in Nat : k = Len(p) /\ k >= 1
    BY <1>0
  <2>2. k \in 1 .. Len(p) /\ k \in 1 .. Len(q) /\ k < Len(q) /\ ~(k < Len(p)) /\ \A j \in 1 .. k - 1 : p[j] = q[j]
    BY <1>0, <1>2, <2>1 DEF Begins
  <2>3. Manager!Written(p, k) # Manager!Written(q, k)
    BY <2>2, WrittenOnce
  <2>. QED
    BY <1>1, <2>2, <2>3
<1>3. CASE Begins(q, p)
  <2>1. PICK k \in Nat : k = Len(q) /\ k >= 1
    BY <1>0
  <2>2. k \in 1 .. Len(p) /\ k \in 1 .. Len(q) /\ k < Len(p) /\ ~(k < Len(q)) /\ \A j \in 1 .. k - 1 : p[j] = q[j]
    BY <1>0, <1>3, <2>1 DEF Begins
  <2>3. Manager!Written(p, k) # Manager!Written(q, k)
    BY <2>2, WrittenOnce
  <2>. QED
    BY <1>1, <2>2, <2>3
<1>4. ASSUME NEW k \in Nat, PartAt(p, q, k) PROVE Manager!EarlierLine(p, q) \/ Manager!EarlierLine(q, p)
  <2>1. k \in 1 .. Len(p) /\ k \in 1 .. Len(q) /\ p[k] # q[k] /\ \A j \in 1 .. k - 1 : p[j] = q[j]
    BY <1>4 DEF PartAt
  <2>2. Manager!Written(p, k) # Manager!Written(q, k)
    BY <2>1, WrittenOnce
  <2>. QED
    BY <1>1, <2>1, <2>2
<1>. QED
  BY <1>0, <1>2, <1>3, <1>4, TheyPart

LEMMA LinesChain ==
  ASSUME NEW p \in Paths, NEW q \in Paths, NEW r \in Paths,
         Manager!EarlierLine(p, q), Manager!EarlierLine(q, r)
  PROVE  Manager!EarlierLine(p, r)
<1>1. PICK k \in Nat : /\ k \in 1 .. Len(p) /\ k \in 1 .. Len(q)
                       /\ Manager!Earlier(Manager!Written(p, k), Manager!Written(q, k))
                       /\ \A j \in 1 .. k - 1 : p[j] = q[j]
  BY LineIs
<1>2. PICK l \in Nat : /\ l \in 1 .. Len(q) /\ l \in 1 .. Len(r)
                       /\ Manager!Earlier(Manager!Written(q, l), Manager!Written(r, l))
                       /\ \A j \in 1 .. l - 1 : q[j] = r[j]
  BY LineIs
<1>3. Len(p) \in Nat /\ Len(q) \in Nat /\ Len(r) \in Nat
  BY DEF Paths
<1>4. CASE k < l
  <2>1. k \in 1 .. Len(r) /\ k < Len(q) /\ k < Len(r) /\ q[k] = r[k] /\ \A j \in 1 .. k - 1 : p[j] = r[j]
    BY <1>1, <1>2, <1>3, <1>4
  <2>2. Manager!Written(q, k) = Manager!Written(r, k)
    BY <2>1, WrittenSame
  <2>. QED
    BY <1>1, <2>1, <2>2, LineIs
<1>5. CASE l < k
  <2>1. l \in 1 .. Len(p) /\ l < Len(q) /\ l < Len(p) /\ p[l] = q[l] /\ \A j \in 1 .. l - 1 : p[j] = r[j]
    BY <1>1, <1>2, <1>3, <1>5
  <2>2. Manager!Written(p, l) = Manager!Written(q, l)
    BY <2>1, WrittenSame
  <2>. QED
    BY <1>2, <2>1, <2>2, LineIs
<1>6. CASE k = l
  <2>1. /\ Manager!Written(p, k) \in Seq(Nat) /\ Manager!Written(q, k) \in Seq(Nat)
        /\ Manager!Written(r, k) \in Seq(Nat)
    BY <1>1, <1>2, <1>6, WrittenIs
  <2>2. Manager!Earlier(Manager!Written(p, k), Manager!Written(r, k))
    BY <1>1, <1>2, <1>6, <2>1, EarlierChains
  <2>3. \A j \in 1 .. k - 1 : p[j] = r[j]
    BY <1>1, <1>2, <1>6
  <2>. QED
    BY <1>1, <1>2, <1>6, <2>2, <2>3, LineIs
<1>. QED
  BY <1>4, <1>5, <1>6

\* Where two paths part, their names there decide.
LEMMA LineAt ==
  ASSUME NEW p \in Paths, NEW q \in Paths, NEW k \in Nat, PartAt(p, q, k)
  PROVE  Manager!EarlierLine(p, q) <=> Manager!Earlier(Manager!Written(p, k), Manager!Written(q, k))
<1>0. /\ k \in 1 .. Len(p) /\ k \in 1 .. Len(q) /\ p[k] # q[k] /\ \A j \in 1 .. k - 1 : p[j] = q[j]
      /\ Len(p) \in Nat /\ Len(q) \in Nat
  BY DEF PartAt, Paths
<1>1. ASSUME NEW l \in Nat, l \in 1 .. Len(p), l \in 1 .. Len(q),
             Manager!Earlier(Manager!Written(p, l), Manager!Written(q, l)),
             \A j \in 1 .. l - 1 : p[j] = q[j]
      PROVE  l = k
  <2>1. ~(k < l)
    BY <1>0, <1>1
  <2>2. ASSUME l < k PROVE FALSE
    <3>1. p[l] = q[l] /\ l < Len(p) /\ l < Len(q)
      BY <1>0, <1>1, <2>2
    <3>2. Manager!Written(p, l) = Manager!Written(q, l)
      BY <3>1, WrittenSame
    <3>. QED
      BY <1>1, <3>2, WrittenIs, NeverEarlier
  <2>. QED
    BY <2>1, <2>2
<1>. QED
  BY <1>0, <1>1, LineIs

-----------------------------------------------------------------------------
(* Plug-ins: places in an order.                                           *)

\* Of each x in S, below holds those of S that come before it.
Orders(below, S) ==
  /\ below \in [S -> SUBSET S]
  /\ \A x \in S : x \notin below[x]
  /\ \A x, y \in S : y \in below[x] => below[y] \subseteq below[x]
  /\ \A x, y \in S : x # y => x \in below[y] \/ y \in below[x]

\* Each place is taken by one.
LEMMA PlacesAreTaken ==
  ASSUME NEW S, IsFiniteSet(S), NEW below, Orders(below, S)
  PROVE  /\ \A x, y \in S : Cardinality(below[x]) = Cardinality(below[y]) => x = y
         /\ \A n \in 1 .. Cardinality(S) : \E x \in S : Cardinality(below[x]) = n - 1
<1>. DEFINE place == [x \in S |-> Cardinality(below[x])]
            n == Cardinality(S)
            T == 0 .. n - 1
<1>0. n \in Nat
  BY FS_CardinalityType
<1>1. ASSUME NEW x \in S
      PROVE  IsFiniteSet(below[x]) /\ Cardinality(below[x]) \in T
  <2>1. below[x] \in SUBSET (S \ {x})
    BY DEF Orders
  <2>2. IsFiniteSet(S \ {x}) /\ Cardinality(S \ {x}) = n - 1
    BY FS_RemoveElement
  <2>3. IsFiniteSet(below[x]) /\ Cardinality(below[x]) <= n - 1
    BY <2>1, <2>2, FS_Subset
  <2>4. Cardinality(below[x]) \in Nat
    BY <2>3, FS_CardinalityType
  <2>. QED
    BY <1>0, <2>3, <2>4
<1>2. ASSUME NEW x \in S, NEW y \in S, y \in below[x]
      PROVE  Cardinality(below[x]) # Cardinality(below[y])
  <2>1. below[y] \in SUBSET below[x] /\ below[y] # below[x]
    BY <1>2 DEF Orders
  <2>. QED
    BY <1>1, <2>1, FS_Subset
<1>3. ASSUME NEW x \in S, NEW y \in S, Cardinality(below[x]) = Cardinality(below[y]) PROVE x = y
  BY <1>2, <1>3 DEF Orders
<1>4. place \in Injection(S, T)
  BY <1>1, <1>3 DEF Injection, IsInjective
<1>5. IsFiniteSet(T) /\ Cardinality(T) = n
  BY <1>0, FS_Interval
<1>6. place \in Surjection(S, T)
  <2>. HIDE DEF place, T
  <2>. QED
    BY <1>4, <1>5, FS_Injection
<1>7. ASSUME NEW k \in 1 .. n PROVE \E x \in S : Cardinality(below[x]) = k - 1
  <2>1. k - 1 \in T
    BY <1>0
  <2>. QED
    BY <1>6, <2>1 DEF Surjection
<1>. QED
  BY <1>3, <1>7

-----------------------------------------------------------------------------
(* Plug-ins: the page and the start script put them in the same order.     *)

LEMMA NamesAre ==
  ASSUME NEW n \in PathNames
  PROVE  n \in Seq(Letters) /\ n \in Seq(Nat) /\ n # <<>>
<1>1. n \in Seq(Letters) /\ n # <<>>
  BY DEF PathNames, Manager!PlainNames, Manager!MarkedNames, Letters
<1>2. Seq(Letters) \subseteq Seq(Nat)
  BY DEF Letters
<1>. QED
  BY <1>1, <1>2

LEMMA PathIs ==
  ASSUME NEW t, Manager!IsTree(t), NEW p \in DOMAIN t
  PROVE  /\ p \in Paths /\ p \in Seq(PathNames) /\ Len(p) \in Nat /\ Len(p) >= 1
         /\ \A i \in 1 .. Len(p) : p[i] \in PathNames /\ p[i] \in Seq(Nat)
<1>1. p \in Seq(PathNames) /\ p # <<>>
  BY DEF Manager!IsTree, Manager!Directories, PathNames
<1>2. PathNames \subseteq Seq(Letters)
  BY NamesAre
<1>3. p \in Seq(Seq(Letters))
  BY <1>1, <1>2
<1>4. Len(p) \in Nat /\ Len(p) >= 1 /\ \A i \in 1 .. Len(p) : p[i] \in PathNames
  BY <1>1
<1>. QED
  BY <1>1, <1>3, <1>4, NamesAre DEF Paths

LEMMA LinePath ==
  ASSUME Manager!IsTree(tree), NEW p \in DOMAIN tree
  PROVE  /\ Manager!Line(p) \in Paths /\ Len(Manager!Line(p)) = Len(p) + 1
         /\ \A i \in 1 .. Len(p) : Manager!Line(p)[i] = p[i]
<1>1. PICK m : Manager!Line(p) = Append(p, m) /\ (m = <<Manager!SmallEm>> \/ m = <<Manager!Em>>)
  BY DEF Manager!Line
<1>2. Manager!SmallEm \in Letters /\ Manager!Em \in Letters
  BY DEF Manager!SmallEm, Manager!Em, Manager!Slash, Letters
<1>3. m \in Seq(Letters)
  <2>1. \A c \in Letters : <<c>> \in Seq(Letters)
    OBVIOUS
  <2>. QED
    BY <1>1, <1>2, <2>1
<1>4. p \in Paths /\ p \in Seq(Seq(Letters))
  BY PathIs DEF Paths
<1>5. PICK a : a = Append(p, m)
  OBVIOUS
<1>6. a \in Seq(Seq(Letters)) /\ Len(a) = Len(p) + 1 /\ \A i \in 1 .. Len(p) : a[i] = p[i]
  BY <1>3, <1>4, <1>5
<1>7. a # <<>>
  BY <1>4, <1>6
<1>. QED
  BY <1>1, <1>5, <1>6, <1>7 DEF Paths

LEMMA LinesDiffer ==
  ASSUME Manager!IsTree(tree), NEW p \in DOMAIN tree, NEW q \in DOMAIN tree, Manager!Line(p) = Manager!Line(q)
  PROVE  p = q
<1>1. /\ Len(Manager!Line(p)) = Len(p) + 1 /\ \A i \in 1 .. Len(p) : Manager!Line(p)[i] = p[i]
      /\ Len(Manager!Line(q)) = Len(q) + 1 /\ \A i \in 1 .. Len(q) : Manager!Line(q)[i] = q[i]
  BY LinePath
<1>2. p \in Seq(PathNames) /\ q \in Seq(PathNames)
  BY PathIs
<1>3. Len(p) = Len(q) /\ \A i \in 1 .. Len(p) : p[i] = q[i]
  BY <1>1, <1>2
<1>. QED
  BY <1>2, <1>3

LEMMA PluginsAreFinite ==
  ASSUME Manager!IsTree(tree)
  PROVE  /\ IsFiniteSet(Manager!PathsOf) /\ IsFiniteSet(Manager!ToMerge)
         /\ Manager!PathsOf \subseteq DOMAIN tree /\ Manager!ToMerge \subseteq Manager!PathsOf
<1>1. Manager!PathsOf \subseteq DOMAIN tree /\ Manager!ToMerge \subseteq Manager!PathsOf
  BY DEF Manager!PathsOf, Manager!ToMerge
<1>2. IsFiniteSet(DOMAIN tree)
  BY FiniteIs DEF Manager!IsTree
<1>3. Manager!PathsOf \in SUBSET DOMAIN tree /\ Manager!ToMerge \in SUBSET DOMAIN tree
  BY <1>1
<1>. QED
  BY <1>1, <1>2, <1>3, FS_Subset

\* The rows of the page.
LEMMA OrdersIs ==
  ASSUME NEW S, NEW below, below \in [S -> SUBSET S],
         \A p \in S : p \notin below[p],
         \A p, q \in S : p # q => p \in below[q] \/ q \in below[p],
         \A p, q, r \in S : p \in below[q] /\ q \in below[r] => p \in below[r]
  PROVE  Orders(below, S)
<1>1. \A x, y \in S : y \in below[x] => below[y] \subseteq below[x]
  <2>. SUFFICES ASSUME NEW x \in S, NEW y \in S, y \in below[x], NEW z \in below[y] PROVE z \in below[x]
    OBVIOUS
  <2>1. z \in S
    OBVIOUS
  <2>. QED
    BY <2>1
<1>. QED
  BY <1>1 DEF Orders

LEMMA ListOrders ==
  ASSUME Manager!IsTree(tree)
  PROVE  Orders([p \in Manager!PathsOf |-> Manager!Before(p)], Manager!PathsOf)
<1>. DEFINE before(q, p) == Manager!EarlierLine(Manager!Line(q), Manager!Line(p))
            S == Manager!PathsOf
            below == [p \in S |-> Manager!Before(p)]
<1>0. \A p \in S : p \in DOMAIN tree /\ Manager!Line(p) \in Paths
  BY LinePath, PluginsAreFinite
<1>1. \A p \in S : below[p] = {q \in S : before(q, p)}
  BY DEF Manager!Before
<1>2. \A p \in S : ~before(p, p)
  BY <1>0, NeverEarlierLine
<1>3. \A p, q \in S : p # q => before(p, q) \/ before(q, p)
  BY <1>0, LinesDiffer, OneLineIsEarlier
<1>4. \A p, q, r \in S : before(p, q) /\ before(q, r) => before(p, r)
  BY <1>0, LinesChain
<1>5. below \in [S -> SUBSET S]
  BY <1>1
<1>6. PICK b, T : b = below /\ T = S
  OBVIOUS
<1>. HIDE DEF before, S, below
<1>7. Orders(b, T)
  BY <1>1, <1>2, <1>3, <1>4, <1>5, <1>6, OrdersIs
<1>. QED
  BY <1>6, <1>7 DEF S, below

\* What is merged.
LEMMA MergeOrders ==
  ASSUME Manager!IsTree(tree)
  PROVE  Orders([p \in Manager!ToMerge |-> Manager!Ahead(p)], Manager!ToMerge)
<1>. DEFINE before(q, p) == Manager!MergedBefore(q, p)
            S == Manager!ToMerge
            below == [p \in S |-> Manager!Ahead(p)]
<1>0. \A p \in S : p \in Paths /\ p[1] \in Seq(Nat)
  <2>1. \A p \in S : p \in DOMAIN tree
    BY PluginsAreFinite
  <2>. QED
    BY <2>1, PathIs
<1>1. \A p \in S : below[p] = {q \in S : before(q, p)}
  BY DEF Manager!Ahead
<1>2. \A p \in S : ~before(p, p)
  BY <1>0, NeverEarlier, NeverEarlierLine DEF Manager!MergedBefore
<1>3. ASSUME NEW p \in S, NEW q \in S, p # q PROVE before(p, q) \/ before(q, p)
  <2>. HIDE DEF S
  <2>1. CASE p[1] = q[1]
    BY <1>0, <1>3, <2>1, OneLineIsEarlier DEF Manager!MergedBefore
  <2>2. CASE p[1] # q[1]
    BY <1>0, <2>2, OneIsEarlier DEF Manager!MergedBefore
  <2>. QED
    BY <2>1, <2>2
<1>4. ASSUME NEW p \in S, NEW q \in S, NEW r \in S, before(p, q), before(q, r) PROVE before(p, r)
  <2>. HIDE DEF S
  <2>1. CASE Manager!Earlier(p[1], q[1]) /\ Manager!Earlier(q[1], r[1])
    <3>1. Manager!Earlier(p[1], r[1])
      BY <1>0, <2>1, EarlierChains
    <3>. QED
      BY <3>1 DEF Manager!MergedBefore
  <2>2. CASE p[1] = q[1] /\ q[1] = r[1] /\ Manager!EarlierLine(p, q) /\ Manager!EarlierLine(q, r)
    <3>1. Manager!EarlierLine(p, r)
      BY <1>0, <2>2, LinesChain
    <3>. QED
      BY <2>2, <3>1 DEF Manager!MergedBefore
  <2>. QED
    BY <1>4, <2>1, <2>2 DEF Manager!MergedBefore
<1>5. below \in [S -> SUBSET S]
  BY <1>1
<1>6. PICK b, T : b = below /\ T = S
  OBVIOUS
<1>. HIDE DEF before, S, below
<1>7. Orders(b, T)
  BY <1>1, <1>2, <1>3, <1>4, <1>5, <1>6, OrdersIs
<1>. QED
  BY <1>6, <1>7 DEF S, below

LEMMA MergeOrderIs ==
  ASSUME Manager!IsTree(tree)
  PROVE  /\ Cardinality(Manager!ToMerge) \in Nat
         /\ DOMAIN Manager!MergeOrder = 1 .. Cardinality(Manager!ToMerge)
         /\ Len(Manager!MergeOrder) = Cardinality(Manager!ToMerge)
         /\ \A n \in 1 .. Cardinality(Manager!ToMerge) :
              \E p \in Manager!ToMerge : /\ Cardinality(Manager!Ahead(p)) = n - 1
                                         /\ Manager!MergeOrder[n] = tree[p]
<1>. DEFINE S == Manager!ToMerge
            below == [p \in S |-> Manager!Ahead(p)]
<1>0. IsFiniteSet(S) /\ Cardinality(S) \in Nat
  BY PluginsAreFinite, FS_CardinalityType
<1>1. ASSUME NEW n \in 1 .. Cardinality(S) PROVE \E p \in S : Cardinality(Manager!Ahead(p)) = n - 1
  <2>1. Orders(below, S)
    BY MergeOrders
  <2>2. \A p \in S : below[p] = Manager!Ahead(p)
    OBVIOUS
  <2>. HIDE DEF S, below
  <2>3. \E p \in S : Cardinality(below[p]) = n - 1
    BY <1>0, <2>1, PlacesAreTaken
  <2>. QED
    BY <2>2, <2>3
<1>2. ASSUME NEW n \in 1 .. Cardinality(S)
      PROVE  \E p \in S : Cardinality(Manager!Ahead(p)) = n - 1 /\ Manager!MergeOrder[n] = tree[p]
  <2>1. Manager!MergeOrder[n] = tree[CHOOSE p \in S : Cardinality(Manager!Ahead(p)) = n - 1]
    BY CountIs DEF Manager!MergeOrder
  <2>. HIDE DEF S
  <2>2. PICK p : p = CHOOSE q \in S : Cardinality(Manager!Ahead(q)) = n - 1
    OBVIOUS
  <2>3. p \in S /\ Cardinality(Manager!Ahead(p)) = n - 1
    BY <1>1, <2>2
  <2>. QED
    BY <2>1, <2>2, <2>3
<1>3. DOMAIN Manager!MergeOrder = 1 .. Cardinality(S)
  BY CountIs DEF Manager!MergeOrder
<1>4. Len(Manager!MergeOrder) = Cardinality(S)
  <2>1. Manager!MergeOrder = [n \in 1 .. Cardinality(S) |-> Manager!MergeOrder[n]]
    BY CountIs DEF Manager!MergeOrder
  <2>. HIDE DEF S
  <2>. QED
    BY <1>0, <2>1
<1>. QED
  BY <1>0, <1>2, <1>3, <1>4

LEMMA RowsAre ==
  ASSUME Manager!IsTree(tree)
  PROVE  /\ DOMAIN Manager!Listing = {Manager!Number(p) : p \in Manager!PathsOf}
         /\ \A p \in Manager!PathsOf : Manager!Listing[Manager!Number(p)] = Manager!Row(p)
         /\ \A p, q \in Manager!PathsOf : Manager!Number(p) = Manager!Number(q) => p = q
<1>. DEFINE S == Manager!PathsOf
            below == [p \in S |-> Manager!Before(p)]
            data == Manager!JSONConfig(S)
<1>1. \A p, q \in S : Manager!Number(p) = Manager!Number(q) => p = q
  <2>1. Orders(below, S) /\ IsFiniteSet(S)
    BY ListOrders, PluginsAreFinite
  <2>2. \A p \in S : Cardinality(below[p]) = Manager!Number(p)
    BY CountIs DEF Manager!Number
  <2>. HIDE DEF S, below
  <2>. QED
    BY <2>1, <2>2, PlacesAreTaken
<1>2. DOMAIN data = {Manager!Number(p) : p \in S}
  BY DEF Manager!JSONConfig
<1>3. ASSUME NEW p \in S PROVE data[Manager!Number(p)] = p
  <2>1. Manager!Number(p) \in DOMAIN data
    BY <1>2
  <2>2. data[Manager!Number(p)] = CHOOSE q \in S : Manager!Number(q) = Manager!Number(p)
    BY <2>1 DEF Manager!JSONConfig
  <2>. HIDE DEF data, S
  <2>. QED
    BY <1>1, <2>2
<1>4. DOMAIN Manager!Listing = DOMAIN data /\ \A i \in DOMAIN data : Manager!Listing[i] = Manager!Row(data[i])
  BY DEF Manager!Listing
<1>. HIDE DEF data
<1>. QED
  BY <1>1, <1>2, <1>3, <1>4

LEMMA LineAtPart ==
  ASSUME NEW p \in Paths, NEW q \in Paths, NEW k \in Nat, PartAt(p, q, k),
         ~Manager!IsPrefix(p[k], q[k]), ~Manager!IsPrefix(q[k], p[k])
  PROVE  Manager!EarlierLine(p, q) <=> Manager!Earlier(p[k], q[k])
<1>1. k \in 1 .. Len(p) /\ k \in 1 .. Len(q)
  BY DEF PartAt
<1>2. p[k] \in Seq(Nat) /\ q[k] \in Seq(Nat)
  BY <1>1, WrittenIs
<1>3. \A r : \E x \in Seq(Nat) : Manager!Written(r, k) = r[k] \o x
  <2>1. <<>> \in Seq(Nat) /\ <<Manager!Slash>> \in Seq(Nat)
    BY DEF Manager!Slash
  <2>. QED
    BY <2>1 DEF Manager!Written
<1>4. PICK x \in Seq(Nat), y \in Seq(Nat) :
        Manager!Written(p, k) = p[k] \o x /\ Manager!Written(q, k) = q[k] \o y
  BY <1>3
<1>5. Manager!Earlier(p[k] \o x, q[k] \o y) <=> Manager!Earlier(p[k], q[k])
  BY <1>2, BehindDoesNotCount
<1>. QED
  BY <1>4, <1>5, LineAt

LEMMA BeginningIsEarlier ==
  ASSUME NEW p \in Paths, NEW q \in Paths, Begins(p, q)
  PROVE  Manager!EarlierLine(p, q)
<1>0. p \in Seq(Seq(Letters)) /\ Len(p) \in Nat /\ Len(p) >= 1
  BY DEF Paths
<1>1. PICK k \in Nat : k = Len(p)
  BY <1>0
<1>2. /\ k \in 1 .. Len(p) /\ k \in 1 .. Len(q) /\ ~(k < Len(p)) /\ k < Len(q) /\ p[k] = q[k]
      /\ \A j \in 1 .. k - 1 : p[j] = q[j]
  BY <1>0, <1>1 DEF Begins, Paths
<1>3. PICK a \in Seq(Nat), l \in Seq(Nat) : a = p[k] /\ l = <<Manager!Slash>>
  <2>1. p[k] \in Seq(Nat) /\ <<Manager!Slash>> \in Seq(Nat)
    BY <1>2, WrittenIs DEF Manager!Slash
  <2>. QED
    BY <2>1
<1>4. Len(l) = 1
  BY <1>3
<1>5. a \o <<>> = a
  OBVIOUS
<1>6. Manager!Written(p, k) = a /\ Manager!Written(q, k) = a \o l
  BY <1>2, <1>3, <1>5, Zenon DEF Manager!Written
<1>7. Begins(a, a \o l) /\ a \o l \in Seq(Nat)
  <2>1. PICK c : c = a \o l
    OBVIOUS
  <2>2. /\ c \in Seq(Nat) /\ Len(c) = Len(a) + Len(l)
        /\ \A i \in 1 .. Len(a) : c[i] = a[i]
    BY <1>4, <2>1, JoinedIs
  <2>3. Len(a) \in Nat /\ Len(a) < Len(c)
    BY <1>4, <2>2
  <2>4. \A i \in 1 .. Len(a) : a[i] = c[i]
    BY <2>2
  <2>5. Begins(a, c)
    BY <2>3, <2>4 DEF Begins
  <2>. QED
    BY <2>1, <2>2, <2>5
<1>8. Manager!Earlier(Manager!Written(p, k), Manager!Written(q, k))
  BY <1>6, <1>7, EarlierIs
<1>. QED
  BY <1>2, <1>8, LineIs

\* Where names in the same directory do not begin like one another.
LEMMA NamesPart ==
  ASSUME Manager!IsTree(tree), ~Manager!PartWays, NEW p \in DOMAIN tree, NEW q \in DOMAIN tree,
         NEW k \in Nat, PartAt(p, q, k)
  PROVE  ~Manager!IsPrefix(p[k], q[k]) /\ ~Manager!IsPrefix(q[k], p[k])
<1>1. /\ p \in Seq(PathNames) /\ q \in Seq(PathNames)
      /\ k \in 1 .. Len(p) /\ k \in 1 .. Len(q) /\ p[k] # q[k] /\ \A j \in 1 .. k - 1 : p[j] = q[j]
  BY PathIs DEF PartAt
<1>2. PICK c, d : c = SubSeq(p, 1, k) /\ d = SubSeq(q, 1, k)
  OBVIOUS
<1>3. c \in DOMAIN tree /\ d \in DOMAIN tree
  BY <1>1, <1>2 DEF Manager!IsTree
<1>4. k \in 0 .. Len(p) /\ k \in 0 .. Len(q) /\ k - 1 \in Nat /\ k - 1 \in 0 .. k
      /\ k - 1 \in 0 .. Len(p) /\ k - 1 \in 0 .. Len(q)
  BY <1>1
<1>5. c \in Seq(PathNames) /\ d \in Seq(PathNames) /\ Len(c) = k /\ Len(d) = k
  BY <1>1, <1>2, <1>4, CutOfCut
<1>6. c[k] = p[k] /\ d[k] = q[k]
  BY <1>1, <1>2
<1>7. Manager!Last(c) = p[k] /\ Manager!Last(d) = q[k]
  BY <1>5, <1>6 DEF Manager!Last
<1>8. Manager!Front(c) = SubSeq(p, 1, k - 1) /\ Manager!Front(d) = SubSeq(q, 1, k - 1)
  BY <1>1, <1>2, <1>4, <1>5, CutOfCut DEF Manager!Front
<1>9. SubSeq(p, 1, k - 1) = SubSeq(q, 1, k - 1)
  <2>1. PICK m \in Nat : m = k - 1
    BY <1>4
  <2>2. PICK e, f : e = SubSeq(p, 1, m) /\ f = SubSeq(q, 1, m)
    OBVIOUS
  <2>3. e \in Seq(PathNames) /\ f \in Seq(PathNames) /\ Len(e) = m /\ Len(f) = m
    BY <1>1, <1>4, <2>1, <2>2, CutOfCut
  <2>4. 1 <= m + 1 /\ m <= Len(p) /\ m <= Len(q) /\ m + 1 - 1 = m /\ \A i \in 1 .. m : 1 + i - 1 = i
    BY <1>1, <2>1
  <2>5. \A i \in 1 .. m : e[i] = p[i] /\ f[i] = q[i]
    BY <1>1, <2>2, <2>4
  <2>6. \A i \in 1 .. m : e[i] = f[i]
    BY <1>1, <2>1, <2>5
  <2>7. e = f
    BY <2>3, <2>6
  <2>. QED
    BY <2>1, <2>2, <2>7
<1>10. c # d
  BY <1>1, <1>6
<1>11. \A s, t \in DOMAIN tree :
         s # t /\ Len(s) = Len(t) /\ Manager!Front(s) = Manager!Front(t)
           => ~Manager!IsPrefix(Manager!Last(s), Manager!Last(t))
  BY DEF Manager!PartWays
<1>. QED
  BY <1>3, <1>5, <1>7, <1>8, <1>9, <1>10, <1>11

LEMMA SameOrder ==
  ASSUME Manager!IsTree(tree), ~Manager!PartWays, NEW p \in Manager!ToMerge, NEW q \in Manager!ToMerge
  PROVE  Manager!MergedBefore(p, q) <=> Manager!EarlierLine(Manager!Line(p), Manager!Line(q))
<1>1. p \in Manager!PathsOf /\ q \in Manager!PathsOf /\ p \in DOMAIN tree /\ q \in DOMAIN tree
  BY PluginsAreFinite
<1>2. /\ p \in Paths /\ Len(p) \in Nat /\ Len(p) >= 1 /\ p[1] \in Seq(Nat)
      /\ q \in Paths /\ Len(q) \in Nat /\ Len(q) >= 1 /\ q[1] \in Seq(Nat)
  BY <1>1, PathIs
<1>3. PICK l, m : l = Manager!Line(p) /\ m = Manager!Line(q)
  OBVIOUS
<1>4. /\ l \in Paths /\ Len(l) = Len(p) + 1 /\ \A i \in 1 .. Len(p) : l[i] = p[i]
      /\ m \in Paths /\ Len(m) = Len(q) + 1 /\ \A i \in 1 .. Len(q) : m[i] = q[i]
  BY <1>1, <1>3, LinePath
<1>5. p # q => l # m
  BY <1>1, <1>3, LinesDiffer
<1>6. ~Manager!Earlier(p[1], p[1])
  BY <1>2, NeverEarlier
<1>7. CASE p = q
  BY <1>2, <1>3, <1>4, <1>6, <1>7, NeverEarlierLine DEF Manager!MergedBefore
<1>8. CASE Begins(p, q)
  <2>1. p[1] = q[1] /\ p # q
    BY <1>2, <1>8 DEF Begins
  <2>2. Manager!MergedBefore(p, q)
    BY <1>2, <1>8, <2>1, BeginningIsEarlier DEF Manager!MergedBefore
  <2>3. Manager!IsStrictPrefix(p, q)
    BY <1>2, <1>8, BeginsIs DEF Paths
  <2>4. ~Manager!EarlierLine(m, l)
    BY <1>1, <1>3, <2>3 DEF Manager!PartWays
  <2>5. Manager!EarlierLine(l, m)
    BY <1>4, <1>5, <2>1, <2>4, OneLineIsEarlier
  <2>. QED
    BY <1>3, <2>2, <2>5
<1>9. CASE Begins(q, p)
  <2>1. p[1] = q[1]
    BY <1>2, <1>9 DEF Begins
  <2>2. Manager!EarlierLine(q, p)
    BY <1>2, <1>9, BeginningIsEarlier
  <2>3. ~Manager!EarlierLine(p, q)
    BY <1>2, <2>2, LinesChain, NeverEarlierLine
  <2>4. ~Manager!MergedBefore(p, q)
    BY <1>6, <2>1, <2>3 DEF Manager!MergedBefore
  <2>5. Manager!IsStrictPrefix(q, p)
    BY <1>2, <1>9, BeginsIs DEF Paths
  <2>6. ~Manager!EarlierLine(l, m)
    BY <1>1, <1>3, <2>5 DEF Manager!PartWays
  <2>. QED
    BY <1>3, <2>4, <2>6
<1>10. ASSUME NEW k \in Nat, PartAt(p, q, k)
       PROVE  Manager!MergedBefore(p, q) <=> Manager!EarlierLine(l, m)
  <2>1. ~Manager!IsPrefix(p[k], q[k]) /\ ~Manager!IsPrefix(q[k], p[k])
    BY <1>1, <1>10, NamesPart
  <2>2. k \in 1 .. Len(p) /\ k \in 1 .. Len(q) /\ p[k] # q[k] /\ \A j \in 1 .. k - 1 : p[j] = q[j]
    BY <1>10 DEF PartAt
  <2>3. k \in 1 .. Len(l) /\ k \in 1 .. Len(m) /\ l[k] = p[k] /\ m[k] = q[k] /\ \A j \in 1 .. k - 1 : l[j] = m[j]
    BY <1>2, <1>4, <2>2
  <2>4. PartAt(l, m, k)
    BY <2>2, <2>3 DEF PartAt
  <2>5. Manager!EarlierLine(l, m) <=> Manager!Earlier(p[k], q[k])
    <3>1. ~Manager!IsPrefix(l[k], m[k]) /\ ~Manager!IsPrefix(m[k], l[k])
      BY <2>1, <2>3
    <3>2. Manager!EarlierLine(l, m) <=> Manager!Earlier(l[k], m[k])
      BY <1>4, <2>4, <3>1, LineAtPart
    <3>. QED
      BY <2>3, <3>2
  <2>6. CASE k = 1
    BY <2>2, <2>5, <2>6 DEF Manager!MergedBefore
  <2>7. CASE k # 1
    <3>1. p[1] = q[1]
      BY <2>2, <2>7
    <3>2. Manager!EarlierLine(p, q) <=> Manager!Earlier(p[k], q[k])
      BY <1>2, <1>10, <2>1, LineAtPart
    <3>. QED
      BY <1>6, <2>5, <3>1, <3>2 DEF Manager!MergedBefore
  <2>. QED
    BY <2>6, <2>7
<1>. QED
  BY <1>2, <1>3, <1>7, <1>8, <1>9, <1>10, TheyPart DEF Paths

\* So a tree is all it takes for page and start to agree.
LEMMA TheyAgree ==
  ASSUME Manager!IsTree(tree) PROVE Manager!PageAgreesWithStart
<1>. SUFFICES ASSUME ~Manager!PartWays PROVE Manager!PageAgreesWithStart
  BY DEF Manager!PageAgreesWithStart
<1>. DEFINE S == Manager!ToMerge
            list == Manager!Listing
            on == {i \in DOMAIN list : list[i].enabled}
<1>1. S \subseteq Manager!PathsOf /\ IsFiniteSet(S) /\ Manager!PathsOf \subseteq DOMAIN tree
  BY PluginsAreFinite
<1>2. /\ DOMAIN list = {Manager!Number(p) : p \in Manager!PathsOf}
      /\ \A p \in Manager!PathsOf : list[Manager!Number(p)] = Manager!Row(p)
      /\ \A p, q \in Manager!PathsOf : Manager!Number(p) = Manager!Number(q) => p = q
  BY RowsAre
\* Only what is marked at the top is off.
<1>3. \A p \in Manager!PathsOf : Manager!Disabled(p) <=> p \notin S
  <2>. SUFFICES ASSUME NEW p \in Manager!PathsOf PROVE Manager!Disabled(p) <=> Manager!Marked(p[1])
    BY DEF Manager!ToMerge
  <2>1. Manager!Disabled(p) => Manager!Marked(p[1])
    BY DEF Manager!PartWays
  <2>2. 1 \in DOMAIN p
    <3>1. p \in Seq(PathNames) /\ Len(p) \in Nat /\ Len(p) >= 1
      BY <1>1, PathIs
    <3>. QED
      BY <3>1
  <2>. QED
    BY <2>1, <2>2 DEF Manager!Disabled
<1>4. \A p \in Manager!PathsOf : Manager!Row(p).enabled <=> p \in S
  BY <1>3 DEF Manager!Row
<1>5. on = {Manager!Number(p) : p \in S}
  <2>. HIDE DEF S, list
  <2>. QED
    BY <1>1, <1>2, <1>4
<1>6. Cardinality(on) = Cardinality(S)
  <2>. DEFINE f == [p \in S |-> Manager!Number(p)]
  <2>1. f \in Bijection(S, on)
    <3>. HIDE DEF S, on
    <3>. QED
      BY <1>1, <1>2, <1>5 DEF Bijection, Injection, Surjection, IsInjective
  <2>. HIDE DEF S, on, f
  <2>. QED
    BY <1>1, <2>1, FS_Bijection DEF ExistsBijection
<1>7. ASSUME NEW p \in S PROVE Manager!Row(p).index = Cardinality(Manager!Ahead(p)) + 1
  <2>1. p \in Manager!PathsOf /\ ~Manager!Disabled(p)
    BY <1>1, <1>3
  <2>2. {q \in Manager!Before(p) : ~Manager!Disabled(q)} = Manager!Ahead(p)
    <3>1. ASSUME NEW q PROVE q \in Manager!Before(p) /\ ~Manager!Disabled(q) <=> q \in Manager!Ahead(p)
      <4>1. q \in Manager!Ahead(p) <=> q \in S /\ Manager!MergedBefore(q, p)
        BY DEF Manager!Ahead
      <4>2. q \in Manager!Before(p) <=> q \in Manager!PathsOf /\ Manager!EarlierLine(Manager!Line(q), Manager!Line(p))
        BY DEF Manager!Before
      <4>3. q \in S => (Manager!MergedBefore(q, p) <=> Manager!EarlierLine(Manager!Line(q), Manager!Line(p)))
        BY SameOrder
      <4>. HIDE DEF S
      <4>. QED
        BY <1>1, <1>3, <4>1, <4>2, <4>3
    <3>. QED
      BY <3>1
  <2>. QED
    BY <2>1, <2>2, CountIs DEF Manager!Row
<1>8. /\ DOMAIN Manager!MergeOrder = 1 .. Cardinality(S) /\ Len(Manager!MergeOrder) = Cardinality(S)
      /\ \A n \in 1 .. Cardinality(S) :
           \E p \in S : Cardinality(Manager!Ahead(p)) = n - 1 /\ Manager!MergeOrder[n] = tree[p]
  BY MergeOrderIs
<1>9. ASSUME NEW n \in DOMAIN Manager!MergeOrder
      PROVE  \E p \in Manager!PathsOf :
               /\ tree[p] = Manager!MergeOrder[n]
               /\ list[Manager!Number(p)].enabled /\ list[Manager!Number(p)].index = n
  <2>1. PICK p \in S : Cardinality(Manager!Ahead(p)) = n - 1 /\ Manager!MergeOrder[n] = tree[p]
    BY <1>8
  <2>2. p \in Manager!PathsOf /\ list[Manager!Number(p)] = Manager!Row(p) /\ Manager!Row(p).enabled
    BY <1>1, <1>2, <1>4
  <2>3. Manager!Row(p).index = n
    <3>1. n \in Int
      BY <1>8
    <3>. QED
      BY <1>7, <2>1, <3>1
  <2>. QED
    BY <2>1, <2>2, <2>3
<1>10. Len(Manager!MergeOrder) = Manager!Cardinality(on)
  BY <1>6, <1>8, CountIs
<1>. QED
  BY <1>9, <1>10 DEF Manager!PageAgreesWithStart

-----------------------------------------------------------------------------
(* The inductive invariant of the plug-in manager.                         *)

\* What the page knows of a directory was on the list when it was drawn.
RowsInv ==
  \A i \in DOMAIN rows :
    /\ rows[i].name \in {None} \cup Manager!Directories
    /\ rows[i].name # None /\ rows[i].enabled
         => rows[i].name \in Seq(Manager!PlainNames)

\* A command makes no path that a tree cannot hold, and a removal that nothing
\* came before takes what the user was shown.
CommandOf(c) ==
  /\ DOMAIN c = {"op", "old", "new", "id", "row", "heard", "late"}
  /\ c.op \in {"rename", "remove", "clone"}
  /\ c.op = "rename" => Sound(c.old, c.new)
  /\ c.op = "remove" => c.old \in Manager!Directories
  /\ c.op = "clone" => c.new \in Manager!Directories /\ c.new # <<>> /\ c.id \in Ids
RemovalOf(c) ==
  c.op = "remove" /\ ~c.late => Manager!PluginsOf(Manager!Under(c.old)) \subseteq asked

PluginInv ==
  /\ Manager!IsTree(tree)
  /\ RowsInv
  /\ \A c \in sent : CommandOf(c) /\ RemovalOf(c)
  /\ \E S : queue \in Seq(S)
  /\ \A c \in Manager!Range(queue) : CommandOf(c) /\ c.op # "remove"

LEMMA ListingIs ==
  ASSUME NEW t, t = tree, Manager!IsTree(t), NEW i \in DOMAIN Manager!Listing
  PROVE  /\ Manager!Listing[i].name \in {None} \cup Manager!Directories
         /\ Manager!Listing[i].name # None /\ Manager!Listing[i].enabled
              => Manager!Listing[i].name \in Seq(Manager!PlainNames)
<1>. DEFINE data == Manager!JSONConfig(Manager!PathsOf)
<1>1. i \in DOMAIN data /\ Manager!Listing[i] = Manager!Row(data[i])
  BY DEF Manager!Listing
<1>2. PICK p \in Manager!PathsOf : Manager!Number(p) = i
  BY <1>1 DEF Manager!JSONConfig
<1>3. data[i] = CHOOSE q \in Manager!PathsOf : Manager!Number(q) = i
  BY <1>1 DEF Manager!JSONConfig
<1>4. data[i] \in Manager!PathsOf
  BY <1>2, <1>3
<1>5. PICK d : d = data[i]
  OBVIOUS
<1>6. d \in Manager!Directories /\ d \in Seq(PathNames)
  BY <1>4, <1>5 DEF Manager!PathsOf, Manager!IsTree, Manager!Directories, PathNames
<1>7. ~Manager!Disabled(d) => d \in Seq(Manager!PlainNames)
  <2>. SUFFICES ASSUME ~Manager!Disabled(d) PROVE d \in Seq(Manager!PlainNames)
    OBVIOUS
  <2>1. ASSUME NEW k \in 1 .. Len(d) PROVE d[k] \in Manager!PlainNames
    <3>1. d[k] \in PathNames
      BY <1>6
    <3>2. ~Manager!Marked(d[k])
      BY <1>6 DEF Manager!Disabled
    <3>3. d[k] \in Manager!MarkedNames => Manager!Marked(d[k])
      BY DEF Manager!MarkedNames, Manager!Marked
    <3>. QED
      BY <3>1, <3>2, <3>3 DEF PathNames
  <2>. QED
    BY <1>6, <2>1
<1>8. /\ Manager!Listing[i].name = IF tree[d] \in Lower THEN <<>> ELSE d
      /\ Manager!Listing[i].enabled = ~Manager!Disabled(d)
  BY <1>1, <1>5 DEF Manager!Row
<1>9. <<>> \in Seq(Manager!PlainNames) /\ <<>> \in Manager!Directories
  BY DEF Manager!Directories
<1>. QED
  BY <1>6, <1>7, <1>8, <1>9

LEMMA PluginStart == Manager!Init /\ GatewayAssumption => PluginInv
<1>. SUFFICES ASSUME Manager!Init, GatewayAssumption PROVE PluginInv
  OBVIOUS
<1>1. Manager!IsTree(tree)
  BY DEF Manager!Init, GatewayAssumption, Manager!PluginsAssumption
<1>2. RowsInv
  <2>1. rows = Manager!Listing
    BY DEF Manager!Init
  <2>. QED
    BY <1>1, <2>1, ListingIs DEF RowsInv
<1>3. sent = {} /\ queue = <<>>
  BY DEF Manager!Init
<1>4. queue \in Seq({})
  BY <1>3
<1>. QED
  BY <1>1, <1>2, <1>3, <1>4 DEF PluginInv, Manager!Range

LEMMA PluginsKept ==
  ASSUME NEW t, NEW u, Keeps(t, u), t = tree, u = tree'
  PROVE  Manager!OnlyRemovedIsGone
<1>1. Manager!PluginsOf(DOMAIN tree) \subseteq {tree'[p] : p \in DOMAIN tree'}
  <2>. SUFFICES ASSUME NEW x \in Manager!PluginsOf(DOMAIN tree)
                PROVE  x \in {tree'[p] : p \in DOMAIN tree'}
    OBVIOUS
  <2>1. PICK p \in DOMAIN t : x = t[p] /\ x # None
    BY DEF Manager!PluginsOf
  <2>2. PICK q \in DOMAIN u : u[q] = x
    BY <2>1 DEF Keeps
  <2>. QED
    BY <2>2
<1>. QED
  BY <1>1 DEF Manager!OnlyRemovedIsGone

LEMMA ExecuteStep ==
  ASSUME PluginInv, NEW c \in sent, Manager!Execute(c)
  PROVE  PluginInv' /\ Manager!OnlyRemovedIsGone
<1>1. CommandOf(c) /\ RemovalOf(c) /\ Manager!IsTree(tree)
  BY DEF PluginInv
<1>2. \A d \in sent' : CommandOf(d) /\ d.late = TRUE
  <2>1. \A d \in sent : CommandOf(d)
    BY DEF PluginInv
  <2>2. sent' = {[d EXCEPT !.late = TRUE] : d \in sent \ {c}}
    BY DEF Manager!Execute
  <2>3. ASSUME NEW d \in sent' PROVE CommandOf(d) /\ d.late = TRUE
    <3>1. PICK e \in sent : d = [e EXCEPT !.late = TRUE]
      BY <2>2
    <3>2. CommandOf(e)
      BY <2>1
    <3>. QED
      BY <3>1, <3>2 DEF CommandOf
  <2>. QED
    BY <2>3
<1>3. \A d \in sent' : CommandOf(d) /\ RemovalOf(d)'
  BY <1>2 DEF RemovalOf
<1>4. queue' = queue /\ asked' = asked
  BY DEF Manager!Execute
<1>5. RowsInv'
  <2>1. CASE rows' = rows
    BY <2>1 DEF PluginInv, RowsInv
  <2>2. CASE rows' = Manager!Removed(rows, c.row)
    <3>1. ASSUME NEW i \in DOMAIN rows' PROVE i \in DOMAIN rows /\ rows'[i] = rows[i]
      BY <2>2 DEF Manager!Removed
    <3>. QED
      BY <3>1 DEF PluginInv, RowsInv
  <2>. QED
    BY <2>1, <2>2 DEF Manager!Execute
<1>6. ASSUME Manager!IsTree(tree') PROVE PluginInv'
  <2>1. \A d \in sent' : CommandOf(d)' /\ RemovalOf(d)'
    BY <1>3 DEF CommandOf, Sound
  <2>2. \A d \in Manager!Range(queue) : CommandOf(d) /\ d.op # "remove"
    BY DEF PluginInv
  <2>3. \A d \in Manager!Range(queue)' : CommandOf(d)' /\ d.op # "remove"
    BY <1>4, <2>2 DEF CommandOf, Sound, Manager!Range
  <2>4. (\E S : queue \in Seq(S))'
    BY <1>4 DEF PluginInv
  <2>. QED
    BY <1>5, <1>6, <2>1, <2>3, <2>4 DEF PluginInv
<1>7. CASE c.op = "rename"
  <2>1. tree' = Manager!Renamed(c.old, c.new)
    BY <1>7 DEF Manager!Execute
  <2>2. Sound(c.old, c.new)
    BY <1>1, <1>7 DEF CommandOf
  <2>3. PICK t, u : t = tree /\ u = tree'
    OBVIOUS
  <2>4. Manager!IsTree(u) /\ Keeps(t, u)
    BY <1>1, <2>1, <2>2, <2>3, RenamedKeeps
  <2>. QED
    BY <1>6, <2>3, <2>4, PluginsKept
<1>8. CASE c.op = "remove"
  <2>1. tree' = [p \in DOMAIN tree \ Manager!Under(c.old) |-> tree[p]]
    BY <1>8 DEF Manager!Execute
  <2>2. PICK t, u : t = tree /\ u = tree'
    OBVIOUS
  <2>3. Manager!IsTree(u)
    <3>1. c.old \in Seq(PathNames)
      BY <1>1, <1>8 DEF CommandOf, Manager!Directories, PathNames
    <3>2. DOMAIN u = {p \in DOMAIN t : ~Manager!IsPrefix(c.old, p)} /\ \A p \in DOMAIN u : u[p] = t[p]
      BY <2>1, <2>2 DEF Manager!Under
    <3>3. u \in [DOMAIN u -> Ids \cup {None}]
      <4>1. u = [p \in DOMAIN u |-> t[p]]
        BY <2>1, <2>2
      <4>2. \A p \in DOMAIN u : t[p] \in Ids \cup {None}
        BY <1>1, <2>2, <3>2 DEF Manager!IsTree
      <4>. QED
        BY <4>1, <4>2
    <3>4. ASSUME NEW p \in DOMAIN u, NEW n \in 1 .. Len(p) PROVE SubSeq(p, 1, n) \in DOMAIN u
      <4>1. p \in DOMAIN t /\ ~Manager!IsPrefix(c.old, p)
        BY <3>2
      <4>2. p \in Seq(PathNames) /\ SubSeq(p, 1, n) \in DOMAIN t
        BY <1>1, <2>2, <4>1 DEF Manager!IsTree, Manager!Directories, PathNames
      <4>3. ~Manager!IsPrefix(c.old, SubSeq(p, 1, n))
        BY <3>1, <4>1, <4>2, CutBelow
      <4>. QED
        BY <3>2, <4>2, <4>3
    <3>5. IsFiniteSet(DOMAIN u)
      <4>1. IsFiniteSet(DOMAIN t) /\ DOMAIN u \subseteq DOMAIN t
        BY <1>1, <2>2, <3>2, FiniteIs DEF Manager!IsTree
      <4>. QED
        BY <4>1, FS_Subset
    <3>. QED
      BY <1>1, <2>2, <3>2, <3>3, <3>4, <3>5, FiniteIs DEF Manager!IsTree
  <2>4. c.late => Manager!OnlyRemovedIsGone
    BY <1>8 DEF Manager!OnlyRemovedIsGone
  <2>5. ASSUME ~c.late PROVE Manager!OnlyRemovedIsGone
    <3>1. Manager!PluginsOf(Manager!Under(c.old)) \subseteq asked
      BY <1>1, <1>8, <2>5 DEF RemovalOf
    <3>2. ASSUME NEW x \in Manager!PluginsOf(DOMAIN tree) \ {tree'[p] : p \in DOMAIN tree'}
          PROVE  x \in Manager!PluginsOf(Manager!Under(c.old))
      <4>1. PICK p \in DOMAIN t : x = t[p] /\ x # None
        BY <2>2, <3>2 DEF Manager!PluginsOf
      <4>2. p \in Manager!Under(c.old)
        BY <2>1, <2>2, <3>2, <4>1
      <4>. QED
        BY <2>2, <4>1, <4>2 DEF Manager!PluginsOf
    <3>. QED
      BY <3>1, <3>2 DEF Manager!OnlyRemovedIsGone
  <2>. QED
    BY <1>6, <2>2, <2>3, <2>4, <2>5
<1>9. CASE c.op = "clone"
  <2>1. PICK t, u : t = tree /\ u = tree'
    OBVIOUS
  <2>2. CASE u = t
    BY <1>1, <1>6, <2>1, <2>2, PluginsKept DEF Keeps
  <2>3. CASE u # t
    <3>1. PICK made : made = Manager!MakeDir(t, c.new)
      OBVIOUS
    <3>2. /\ u = [made EXCEPT ![c.new] = c.id]
          /\ c.new \in DOMAIN t => t[c.new] = None
      BY <1>9, <2>1, <2>3, <3>1 DEF Manager!Execute
    <3>3. c.new \in Manager!Directories /\ c.new # <<>> /\ c.id \in Ids
      BY <1>1, <1>9 DEF CommandOf
    <3>4. /\ Manager!IsTree(made) /\ \A p \in DOMAIN t : p \in DOMAIN made /\ made[p] = t[p]
          /\ \A n \in 1 .. Len(c.new) : SubSeq(c.new, 1, n) \in DOMAIN made
      BY <1>1, <2>1, <3>1, <3>3, MakeDirIs
    <3>5. DOMAIN u = DOMAIN made
      BY <3>2
    <3>6. u \in [DOMAIN u -> Ids \cup {None}]
      BY <3>2, <3>3, <3>4 DEF Manager!IsTree
    <3>7. Manager!IsTree(u)
      BY <3>4, <3>5, <3>6 DEF Manager!IsTree
    <3>8. Keeps(t, u)
      <4>. SUFFICES ASSUME NEW p \in DOMAIN t, t[p] # None
                    PROVE  \E q \in DOMAIN u : u[q] = t[p]
        BY DEF Keeps
      <4>1. p # c.new /\ p \in DOMAIN made /\ made[p] = t[p]
        BY <3>2, <3>4
      <4>2. p \in DOMAIN u /\ u[p] = t[p]
        BY <3>2, <4>1
      <4>. QED
        BY <4>2
    <3>. QED
      BY <1>6, <2>1, <3>7, <3>8, PluginsKept
  <2>. QED
    BY <2>2, <2>3
<1>. QED
  BY <1>1, <1>7, <1>8, <1>9 DEF CommandOf

LEMMA QueueGrows ==
  ASSUME NEW S, NEW q \in Seq(S), NEW x
  PROVE  /\ Append(q, x) \in Seq(S \cup {x})
         /\ Manager!Range(Append(q, x)) = Manager!Range(q) \cup {x}
<1>0. PICK T : T = S \cup {x}
  OBVIOUS
<1>1. T = S \cup {x} /\ x \in T /\ q \in Seq(T)
  <2>1. S \subseteq T /\ x \in T
    BY <1>0
  <2>2. q \in Seq(T)
    BY <2>1
  <2>. QED
    BY <1>0, <2>1, <2>2
<1>2. PICK a \in Seq(T) : a = Append(q, x)
  <2>1. Append(q, x) \in Seq(T)
    BY <1>1
  <2>. QED
    BY <2>1, Zenon
<1>3. /\ Len(a) = Len(q) + 1 /\ a[Len(q) + 1] = x
      /\ \A i \in 1 .. Len(q) : a[i] = q[i]
  BY <1>1, <1>2
<1>4. /\ DOMAIN a = 1 .. Len(q) + 1
      /\ DOMAIN q = 1 .. Len(q) /\ Len(q) \in Nat
  BY <1>1, <1>3
<1>5. \A y : y \in Manager!Range(a) <=> y \in Manager!Range(q) \cup {x}
  <2>. SUFFICES ASSUME NEW y PROVE (\E i \in 1 .. Len(q) + 1 : a[i] = y) <=> (\E i \in 1 .. Len(q) : q[i] = y) \/ y = x
    BY <1>4 DEF Manager!Range
  <2>1. \A i \in 1 .. Len(q) + 1 : i \in 1 .. Len(q) \/ i = Len(q) + 1
    BY <1>4
  <2>2. Len(q) + 1 \in 1 .. Len(q) + 1 /\ 1 .. Len(q) \subseteq 1 .. Len(q) + 1
    BY <1>4
  <2>. QED
    BY <1>3, <2>1, <2>2
<1>. QED
  BY <1>1, <1>2, <1>5

\* A click on a row or in the dialog adds a sound command to the queue.
LEMMA AskStep ==
  ASSUME PluginInv, NEW command, CommandOf(command), command.op # "remove",
         queue' = Append(queue, command),
         tree' = tree, rows' = rows, sent' = sent, asked' = asked
  PROVE  PluginInv'
<1>1. PICK S : queue \in Seq(S)
  BY DEF PluginInv
<1>2. /\ queue' \in Seq(S \cup {command})
      /\ Manager!Range(queue') = Manager!Range(queue) \cup {command}
  BY <1>1, QueueGrows
<1>3. \A d \in Manager!Range(queue') : CommandOf(d) /\ d.op # "remove"
  BY <1>2 DEF PluginInv
<1>4. \A d \in sent' : CommandOf(d) /\ RemovalOf(d)'
  BY DEF PluginInv, RemovalOf, Manager!PluginsOf, Manager!Under
<1>5. RowsInv' /\ Manager!IsTree(tree')
  BY DEF PluginInv, RowsInv
<1>6. \A d : CommandOf(d)' <=> CommandOf(d)
  BY DEF CommandOf, Sound
<1>7. Manager!Range(queue') = Manager!Range(queue)'
  BY DEF Manager!Range
<1>. QED
  BY <1>2, <1>3, <1>4, <1>5, <1>6, <1>7 DEF PluginInv

\* A step that leaves the tree alone loses nothing.
LEMMA QuietTree == tree' = tree => Manager!OnlyRemovedIsGone
BY DEF Manager!OnlyRemovedIsGone, Manager!PluginsOf

\* The row of a section that is not removed stays.
LEMMA QuietPlugins ==
  ASSUME PluginInv, tree' = tree, asked' = asked,
         RowsInv',
         \E S : queue' \in Seq(S), Manager!Range(queue') \subseteq Manager!Range(queue),
         \A d \in sent' : CommandOf(d) /\ RemovalOf(d)
  PROVE  PluginInv'
<1>1. Manager!IsTree(tree')
  BY DEF PluginInv
<1>2. \A d \in sent' : CommandOf(d)' /\ RemovalOf(d)'
  BY DEF RemovalOf, Manager!PluginsOf, Manager!Under, CommandOf, Sound
<1>3. \A d \in Manager!Range(queue') : CommandOf(d)' /\ d.op # "remove"
  <2>1. \A d \in Manager!Range(queue') : CommandOf(d) /\ d.op # "remove"
    BY DEF PluginInv
  <2>. QED
    BY <2>1 DEF CommandOf, Sound
<1>4. Manager!Range(queue') = Manager!Range(queue)'
  BY DEF Manager!Range
<1>. QED
  BY <1>1, <1>2, <1>3, <1>4 DEF PluginInv

\* The command that enablePlugin asks for.
LEMMA MarkIs ==
  ASSUME NEW path \in Seq(Manager!PlainNames)
  PROVE  Sound(path, Manager!Mark(path))
<1>1. CASE path = <<>>
  <2>1. Manager!Mark(path) = <<<<Manager!Underscore>>>>
    BY <1>1 DEF Manager!Mark
  <2>2. <<Manager!Underscore>> \in Seq(Nat)
    BY DEF Manager!Underscore
  <2>3. PICK n \in Seq(Nat) : n = <<Manager!Underscore>>
    BY <2>2
  <2>4. <<n>> \in Seq(Seq(Nat)) /\ Len(<<n>>) = 1
    OBVIOUS
  <2>5. Manager!Mark(path) = <<n>>
    BY <2>1, <2>3
  <2>6. Manager!Mark(path) \in Seq(Seq(Nat)) /\ Len(Manager!Mark(path)) <= 1
    BY <2>4, <2>5
  <2>. QED
    BY <1>1, <2>6 DEF Sound
<1>2. CASE path # <<>>
  <2>1. PICK n \in Manager!PlainNames : n = path[Len(path)]
    BY <1>2
  <2>2. PICK m : m = <<Manager!Underscore>> \o n
    OBVIOUS
  <2>3. m \in Manager!MarkedNames
    <3>1. n \in Seq(Nat \ {Manager!Slash}) /\ Manager!Underscore \in Nat \ {Manager!Slash}
      BY DEF Manager!PlainNames, Manager!Underscore, Manager!Slash
    <3>2. m \in Seq(Nat \ {Manager!Slash}) /\ m # <<>> /\ m[1] = Manager!Underscore
      BY <2>2, <3>1
    <3>3. Tail(m) = n
      BY <2>2, <3>1
    <3>. QED
      BY <3>2, <3>3 DEF Manager!MarkedNames
  <2>4. PICK k \in Nat : k = Len(path) - 1
    BY <1>2
  <2>5. path \in Seq(PathNames)
    BY DEF PathNames
  <2>6. SubSeq(path, 1, k) \in Seq(PathNames)
    BY <2>4, <2>5
  <2>7. PICK f \in Seq(PathNames) : f = Manager!Front(path)
    BY <2>4, <2>6 DEF Manager!Front
  <2>8. m \in PathNames
    BY <2>3 DEF PathNames
  <2>9. Manager!Mark(path) = Append(f, m)
    BY <1>2, <2>1, <2>2, <2>7 DEF Manager!Mark, Manager!Last
  <2>10. Append(f, m) \in Seq(PathNames) /\ Append(f, m) # <<>>
    BY <2>7, <2>8
  <2>. QED
    BY <2>9, <2>10 DEF Sound, Manager!Directories, PathNames
<1>. QED
  BY <1>1, <1>2

LEMMA UnmarkIs ==
  ASSUME NEW path \in Manager!Directories
  PROVE  Sound(path, Manager!Unmark(path))
<1>1. path \in Seq(PathNames)
  BY DEF Manager!Directories, PathNames
<1>2. ASSUME NEW k \in DOMAIN path
      PROVE  (IF Manager!Marked(path[k]) THEN Tail(path[k]) ELSE path[k]) \in PathNames
  <2>1. path[k] \in PathNames
    BY <1>1
  <2>2. path[k] \in Manager!PlainNames => ~Manager!Marked(path[k])
    BY DEF Manager!PlainNames, Manager!Marked
  <2>3. path[k] \in Manager!MarkedNames => Tail(path[k]) \in Manager!PlainNames
    BY DEF Manager!MarkedNames
  <2>. QED
    BY <2>1, <2>2, <2>3 DEF PathNames
<1>3. PICK u : u = Manager!Unmark(path)
  OBVIOUS
<1>4. u = [k \in 1 .. Len(path) |-> IF Manager!Marked(path[k]) THEN Tail(path[k]) ELSE path[k]]
  BY <1>1, <1>3 DEF Manager!Unmark
<1>5. \A k \in 1 .. Len(path) : u[k] \in PathNames
  BY <1>1, <1>2, <1>4
<1>6. Len(path) \in Nat /\ DOMAIN u = 1 .. Len(path) /\ u = [k \in 1 .. Len(path) |-> u[k]]
  BY <1>1, <1>4
<1>7. u \in Seq(PathNames) /\ Len(u) = Len(path)
  BY <1>5, <1>6
<1>8. CASE path = <<>>
  <2>1. Len(u) = 0 /\ u = <<>>
    BY <1>7, <1>8
  <2>2. u \in Seq(Seq(Nat))
    BY <2>1
  <2>. QED
    BY <1>3, <1>8, <2>1, <2>2 DEF Sound
<1>9. CASE path # <<>>
  <2>1. u # <<>>
    BY <1>1, <1>7, <1>9
  <2>. QED
    BY <1>3, <1>7, <2>1 DEF Sound, Manager!Directories, PathNames
<1>. QED
  BY <1>8, <1>9

LEMMA PluginStep ==
  ASSUME PluginInv, GatewayAssumption, Manager!Next
  PROVE  PluginInv' /\ Manager!OnlyRemovedIsGone
<1>. USE DEF PluginInv
<1>0. PICK S : queue \in Seq(S)
  OBVIOUS
<1>1. CASE Manager!Load
  <2>1. /\ tree' = tree /\ asked' = asked /\ queue' = <<>> /\ rows' = Manager!Listing
        /\ sent' = {[c EXCEPT !.heard = FALSE] : c \in sent}
    BY <1>1 DEF Manager!Load
  <2>2. RowsInv'
    BY <2>1, ListingIs DEF RowsInv
  <2>3. queue' \in Seq({}) /\ Manager!Range(queue') \subseteq Manager!Range(queue)
    BY <2>1 DEF Manager!Range
  <2>4. ASSUME NEW d \in sent' PROVE CommandOf(d) /\ RemovalOf(d)
    <3>1. PICK c \in sent : d = [c EXCEPT !.heard = FALSE]
      BY <2>1
    <3>2. CommandOf(c) /\ RemovalOf(c)
      OBVIOUS
    <3>3. CommandOf(d) /\ d.op = c.op /\ d.old = c.old /\ d.late = c.late
      BY <3>1, <3>2 DEF CommandOf
    <3>. QED
      BY <3>2, <3>3 DEF RemovalOf
  <2>5. PluginInv'
    BY <2>1, <2>2, <2>3, <2>4, QuietPlugins
  <2>. QED
    BY <2>1, <2>5, QuietTree
<1>2. CASE Manager!Frame
  <2>1. /\ tree' = tree /\ asked' = asked /\ queue' = <<>> /\ rows' = rows
        /\ sent' = sent \cup Manager!Range(queue)
    BY <1>2 DEF Manager!Frame
  <2>2. RowsInv'
    BY <2>1 DEF RowsInv
  <2>3. queue' \in Seq({}) /\ Manager!Range(queue') \subseteq Manager!Range(queue)
    BY <2>1 DEF Manager!Range
  <2>4. \A d \in sent' : CommandOf(d) /\ RemovalOf(d)
    BY <2>1 DEF RemovalOf
  <2>5. PluginInv'
    BY <2>1, <2>2, <2>3, <2>4, QuietPlugins
  <2>. QED
    BY <2>1, <2>5, QuietTree
<1>3. CASE Manager!NewPlugin \/ Manager!Dismiss
  <2>1. tree' = tree /\ asked' = asked /\ queue' = queue /\ sent' = sent
    BY <1>3 DEF Manager!NewPlugin, Manager!Dismiss
  <2>2. PICK r : r = rows'
    OBVIOUS
  <2>3. \A i \in DOMAIN r : (i \in DOMAIN rows /\ r[i] = rows[i]) \/ r[i] = Manager!NewRow
    BY <1>3, <2>2 DEF Manager!NewPlugin, Manager!Dismiss, Manager!Added, Manager!Removed
  <2>4. RowsInv'
    <3>1. Manager!NewRow.name = None
      BY DEF Manager!NewRow
    <3>. QED
      BY <2>2, <2>3, <3>1 DEF RowsInv
  <2>5. PluginInv'
    BY <1>0, <2>1, <2>4, QuietPlugins
  <2>. QED
    BY <2>1, <2>5, QuietTree
<1>4. CASE Manager!Restart
  <2>1. tree' = tree /\ asked' = asked /\ queue' = queue /\ sent' = {} /\ rows' = rows
    BY <1>4 DEF Manager!Restart
  <2>2. RowsInv'
    BY <2>1 DEF RowsInv
  <2>3. PluginInv'
    BY <1>0, <2>1, <2>2, QuietPlugins
  <2>. QED
    BY <2>1, <2>3, QuietTree
<1>5. ASSUME NEW i \in DOMAIN rows, Manager!EnablePlugin(i) PROVE PluginInv' /\ Manager!OnlyRemovedIsGone
  <2>. DEFINE new == IF rows[i].enabled THEN Manager!Mark(rows[i].name) ELSE Manager!Unmark(rows[i].name)
              command == Manager!Command("rename", rows[i].name, new)
  <2>1. /\ rows[i].name # None /\ queue' = Append(queue, command)
        /\ tree' = tree /\ rows' = rows /\ sent' = sent /\ asked' = asked
    BY <1>5 DEF Manager!EnablePlugin, Manager!OnRow, Manager!Ask
  <2>2. Sound(rows[i].name, new)
    BY <2>1, MarkIs, UnmarkIs DEF RowsInv
  <2>. HIDE DEF new
  <2>3. CommandOf(command) /\ command.op # "remove"
    BY <2>2 DEF CommandOf, Manager!Command
  <2>. HIDE DEF command
  <2>4. PluginInv'
    BY <2>1, <2>3, AskStep
  <2>. QED
    BY <2>1, <2>4, QuietTree
<1>6. ASSUME NEW i \in DOMAIN rows, NEW new \in Names, Manager!RenamePlugin(i, new)
      PROVE  PluginInv' /\ Manager!OnlyRemovedIsGone
  <2>. DEFINE command == Manager!Command("rename", rows[i].name, new)
  <2>1. /\ queue' = Append(queue, command)
        /\ tree' = tree /\ rows' = rows /\ sent' = sent /\ asked' = asked
    BY <1>6 DEF Manager!RenamePlugin, Manager!Ask
  <2>2. Sound(rows[i].name, new)
    BY DEF Sound, GatewayAssumption, Manager!PluginsAssumption
  <2>3. CommandOf(command) /\ command.op # "remove"
    BY <2>2 DEF CommandOf, Manager!Command
  <2>. HIDE DEF command
  <2>4. PluginInv'
    BY <2>1, <2>3, AskStep
  <2>. QED
    BY <2>1, <2>4, QuietTree
<1>7. ASSUME NEW p \in Ids, NEW new \in Names, Len(new) = 1, Manager!Clone(p, new[1])
      PROVE  PluginInv' /\ Manager!OnlyRemovedIsGone
  <2>. DEFINE command == [Manager!Command("clone", <<>>, <<new[1]>>) EXCEPT !.id = p]
  <2>1. /\ queue' = queue \/ queue' = Append(queue, command)
        /\ tree' = tree /\ rows' = rows /\ sent' = sent /\ asked' = asked
    BY <1>7 DEF Manager!Clone
  <2>2. new \in Manager!Directories /\ new # <<>>
    BY DEF GatewayAssumption, Manager!PluginsAssumption
  <2>3. <<new[1]>> = new
    <3>1. new \in Seq(PathNames)
      BY <2>2 DEF Manager!Directories, PathNames
    <3>. QED
      BY <1>7, <3>1
  <2>4. CommandOf(command) /\ command.op # "remove"
    BY <2>2, <2>3 DEF CommandOf, Manager!Command
  <2>. HIDE DEF command
  <2>5. CASE queue' = queue
    <3>1. RowsInv'
      BY <2>1 DEF RowsInv
    <3>. QED
      BY <1>0, <2>1, <2>5, <3>1, QuietPlugins, QuietTree
  <2>6. CASE queue' = Append(queue, command)
    BY <2>1, <2>4, <2>6, AskStep, QuietTree
  <2>. QED
    BY <2>1, <2>5, <2>6
<1>8. ASSUME NEW i \in DOMAIN rows, Manager!RemovePlugin(i) PROVE PluginInv' /\ Manager!OnlyRemovedIsGone
  <2>. DEFINE late == ~(Manager!PluginsOf(Manager!Under(rows[i].name)) \subseteq rows[i].stands)
              command == [Manager!Command("remove", rows[i].name, <<>>) EXCEPT !.row = i, !.late = late]
  <2>1. /\ rows[i].name # None /\ sent' = sent \cup {command} /\ asked' = asked \cup rows[i].stands
        /\ tree' = tree /\ rows' = rows /\ queue' = queue
    BY <1>8 DEF Manager!RemovePlugin, Manager!OnRow
  <2>2. rows[i].name \in Manager!Directories
    BY <2>1 DEF RowsInv
  <2>3. /\ DOMAIN command = {"op", "old", "new", "id", "row", "heard", "late"}
        /\ command.op = "remove" /\ command.old = rows[i].name /\ command.late = late
    BY DEF Manager!Command
  <2>4. CommandOf(command)
    BY <2>2, <2>3 DEF CommandOf
  <2>. HIDE DEF command
  <2>5. Manager!PluginsOf(Manager!Under(command.old)) \subseteq asked' \/ command.late
    BY <2>1, <2>3
  <2>6. ASSUME NEW d \in sent' PROVE CommandOf(d)' /\ RemovalOf(d)'
    <3>1. CommandOf(d)
      BY <2>1, <2>4
    <3>2. ~d.late /\ d.op = "remove" => Manager!PluginsOf(Manager!Under(d.old)) \subseteq asked'
      BY <2>1, <2>5 DEF RemovalOf
    <3>3. RemovalOf(d)'
      BY <2>1, <3>2 DEF RemovalOf, Manager!PluginsOf, Manager!Under
    <3>. QED
      BY <3>1, <3>3 DEF CommandOf, Sound
  <2>7. RowsInv' /\ Manager!IsTree(tree')
    BY <2>1 DEF RowsInv
  <2>8. (\A d \in Manager!Range(queue) : CommandOf(d) /\ d.op # "remove")'
    <3>1. \A d \in Manager!Range(queue) : CommandOf(d) /\ d.op # "remove"
      OBVIOUS
    <3>. QED
      BY <2>1, <3>1 DEF CommandOf, Sound, Manager!Range
  <2>9. PluginInv'
    BY <1>0, <2>1, <2>6, <2>7, <2>8
  <2>. QED
    BY <2>1, <2>9, QuietTree
<1>9. ASSUME NEW c \in sent, Manager!Execute(c) PROVE PluginInv' /\ Manager!OnlyRemovedIsGone
  <2>. HIDE DEF PluginInv
  <2>. QED
    BY <1>9, ExecuteStep
<1>10. ASSUME NEW c \in sent, Manager!Lost(c) PROVE PluginInv' /\ Manager!OnlyRemovedIsGone
  <2>1. tree' = tree /\ asked' = asked /\ queue' = queue /\ sent' = sent \ {c} /\ rows' = rows
    BY <1>10 DEF Manager!Lost
  <2>2. RowsInv'
    BY <2>1 DEF RowsInv
  <2>3. PluginInv'
    BY <1>0, <2>1, <2>2, QuietPlugins
  <2>. QED
    BY <2>1, <2>3, QuietTree
<1>. HIDE DEF PluginInv
<1>. QED
  BY <1>1, <1>2, <1>3, <1>4, <1>5, <1>6, <1>7, <1>8, <1>9, <1>10 DEF Manager!Next

\* Whatever is renamed, cloned or removed, late, in vain or from a list that is
\* out of date: a plug-in is gone only if the user asked for its removal, but
\* for a removal that came too late (Plugins).
THEOREM NothingElseIsRemoved == Spec => OnlyRemovedIsGone
<1>. DEFINE PartInv == part = "plugins" => PluginInv
<1>1. Init => PartInv
  BY PluginStart, GatewayAssumption DEF Init
<1>2. PartInv /\ [Next]_vars => PartInv' /\ [part = "plugins" => Manager!OnlyRemovedIsGone]_vars
  <2>. SUFFICES ASSUME PartInv, Next
                PROVE  PartInv' /\ (part = "plugins" => Manager!OnlyRemovedIsGone)
    <3>1. CASE UNCHANGED vars
      <4>1. part' = part /\ UNCHANGED pluginVars
        BY <3>1 DEF vars
      <4>2. PluginInv' <=> PluginInv
        BY <4>1 DEF pluginVars, PluginInv, RowsInv, RemovalOf, Manager!PluginsOf, Manager!Under,
                    CommandOf, Sound, Manager!Range
      <4>. QED
        BY <3>1, <4>1, <4>2
    <3>. QED
      BY <3>1
  <2>1. part' = part
    BY DEF Next
  <2>2. CASE part = "plugins"
    <3>1. Manager!Next
      BY <2>2 DEF Next
    <3>. QED
      BY <2>2, <3>1, PluginStep, GatewayAssumption
  <2>. QED
    BY <2>1, <2>2
<1>. QED
  BY <1>1, <1>2, PTL DEF Spec, OnlyRemovedIsGone
-----------------------------------------------------------------------------
(* Plug-ins: each is in one place, and what the page holds is of its type. *)

\* Of directories t, commands under way s and commands that wait w: what is
\* fetched is not there yet, and nothing is fetched twice.
Twice(c, d) == c.op = "clone" /\ d.op = "clone" /\ c.id = d.id
Fetches(t, s, w) ==
  /\ Manager!Once(t)
  /\ \A c \in s \cup w : c.op = "clone" => \A p \in DOMAIN t : t[p] # c.id
  /\ \A c \in s, d \in w : ~Twice(c, d)
  /\ \A c, d \in s : Twice(c, d) => c = d
  /\ \A c, d \in w : Twice(c, d) => c = d
FetchInv == Fetches(tree, sent, Manager!Range(queue))

ShownInv ==
  /\ \A i \in DOMAIN rows : rows[i].enabled \in BOOLEAN /\ rows[i].stands \subseteq Ids
  /\ Manager!Range(merged) \subseteq Ids /\ asked \subseteq Ids
  /\ clicks \in 0 .. MaxClicks

LEMMA ListingIsTyped ==
  ASSUME Manager!IsTree(tree), NEW i \in DOMAIN Manager!Listing
  PROVE  Manager!Listing[i].enabled \in BOOLEAN /\ Manager!Listing[i].stands \subseteq Ids
<1>1. PICK p \in Manager!PathsOf : i = Manager!Number(p)
  BY RowsAre
<1>2. Manager!Listing[i] = Manager!Row(p)
  BY <1>1, RowsAre
<1>3. Manager!Row(p).enabled = ~Manager!Disabled(p) /\ Manager!Row(p).stands = Manager!PluginsOf(Manager!Under(p))
  BY DEF Manager!Row
<1>4. Manager!PluginsOf(Manager!Under(p)) \subseteq Ids
  BY DEF Manager!PluginsOf, Manager!Under, Manager!IsTree
<1>5. Manager!Disabled(p) \in BOOLEAN
  BY DEF Manager!Disabled
<1>. QED
  BY <1>2, <1>3, <1>4, <1>5

LEMMA MergedIsTyped ==
  ASSUME Manager!IsTree(tree) PROVE Manager!Range(Manager!MergeOrder) \subseteq Ids
<1>1. ASSUME NEW p \in Manager!ToMerge PROVE tree[p] \in Ids
  BY DEF Manager!ToMerge, Manager!PathsOf, Manager!IsTree
<1>2. \A n \in DOMAIN Manager!MergeOrder : \E p \in Manager!ToMerge : Manager!MergeOrder[n] = tree[p]
  BY MergeOrderIs
<1>. QED
  BY <1>1, <1>2 DEF Manager!Range

LEMMA FetchStart == Manager!Init /\ GatewayAssumption => FetchInv /\ ShownInv
<1>. SUFFICES ASSUME Manager!Init, GatewayAssumption PROVE FetchInv /\ ShownInv
  OBVIOUS
<1>1. Manager!IsTree(tree) /\ Manager!Once(tree) /\ MaxClicks \in Nat
  BY DEF Manager!Init, GatewayAssumption, Manager!PluginsAssumption
<1>2. sent = {} /\ queue = <<>> /\ asked = {} /\ clicks = 0 /\ rows = Manager!Listing /\ merged = Manager!MergeOrder
  BY DEF Manager!Init
<1>3. FetchInv
  <2>1. Manager!Range(queue) = {}
    BY <1>2 DEF Manager!Range
  <2>. QED
    BY <1>1, <1>2, <2>1 DEF FetchInv, Fetches
<1>4. ShownInv
  <2>1. \A i \in DOMAIN rows : rows[i].enabled \in BOOLEAN /\ rows[i].stands \subseteq Ids
    BY <1>1, <1>2, ListingIsTyped
  <2>2. Manager!Range(merged) \subseteq Ids
    BY <1>1, <1>2, MergedIsTyped
  <2>. QED
    BY <1>1, <1>2, <2>1, <2>2 DEF ShownInv
<1>. QED
  BY <1>3, <1>4

LEMMA ShownStep ==
  ASSUME PluginInv, ShownInv, GatewayAssumption, Manager!Next
  PROVE  ShownInv'
<1>. USE DEF ShownInv
<1>0. Manager!IsTree(tree) /\ MaxClicks \in Nat
  BY DEF PluginInv, GatewayAssumption, Manager!PluginsAssumption
<1>1. Manager!Click => clicks' \in 0 .. MaxClicks
  BY <1>0 DEF Manager!Click
\* Steps that only count, or not even that.
<1>2. ASSUME rows' = rows, merged' = merged, asked' = asked, clicks' \in 0 .. MaxClicks
      PROVE  ShownInv'
  BY <1>2 DEF Manager!Range
<1>3. CASE Manager!Load
  <2>1. rows' = Manager!Listing /\ merged' = merged /\ asked' = asked /\ clicks' = clicks
    BY <1>3 DEF Manager!Load
  <2>2. \A i \in DOMAIN rows' : rows'[i].enabled \in BOOLEAN /\ rows'[i].stands \subseteq Ids
    BY <1>0, <2>1, ListingIsTyped
  <2>. QED
    BY <2>1, <2>2 DEF Manager!Range
<1>4. CASE Manager!Frame \/ \E c \in sent : Manager!Lost(c)
  BY <1>2, <1>4 DEF Manager!Frame, Manager!Lost
<1>5. CASE Manager!NewPlugin \/ Manager!Dismiss
  <2>1. /\ merged' = merged /\ asked' = asked /\ clicks' \in 0 .. MaxClicks
        /\ rows' = Manager!Added(rows, Manager!NewId(rows)) \/ rows' = Manager!Removed(rows, adding)
    BY <1>1, <1>5 DEF Manager!NewPlugin, Manager!Dismiss
  <2>2. PICK r : r = rows'
    OBVIOUS
  <2>3. \A i \in DOMAIN r : (i \in DOMAIN rows /\ r[i] = rows[i]) \/ r[i] = Manager!NewRow
    BY <2>1, <2>2 DEF Manager!Added, Manager!Removed
  <2>4. Manager!NewRow.enabled \in BOOLEAN /\ Manager!NewRow.stands \subseteq Ids
    BY DEF Manager!NewRow
  <2>5. \A i \in DOMAIN r : r[i].enabled \in BOOLEAN /\ r[i].stands \subseteq Ids
    BY <2>3, <2>4
  <2>. QED
    BY <2>1, <2>2, <2>5 DEF Manager!Range
<1>6. CASE Manager!Restart
  <2>1. rows' = rows /\ merged' = Manager!MergeOrder /\ asked' = asked /\ clicks' \in 0 .. MaxClicks
    BY <1>1, <1>6 DEF Manager!Restart
  <2>2. Manager!Range(Manager!MergeOrder) \subseteq Ids
    BY <1>0, MergedIsTyped
  <2>3. PICK m : m = Manager!MergeOrder
    OBVIOUS
  <2>4. (Manager!Range(merged) \subseteq Ids)'
    BY <2>1, <2>2, <2>3 DEF Manager!Range
  <2>. QED
    BY <2>1, <2>4
<1>7. ASSUME NEW i \in DOMAIN rows, Manager!EnablePlugin(i) \/ \E new \in Names : Manager!RenamePlugin(i, new)
      PROVE  ShownInv'
  BY <1>1, <1>2, <1>7 DEF Manager!EnablePlugin, Manager!RenamePlugin, Manager!OnRow, Manager!Ask
<1>8. ASSUME NEW p, NEW name, Manager!Clone(p, name) PROVE ShownInv'
  BY <1>2, <1>8 DEF Manager!Clone
<1>9. ASSUME NEW i \in DOMAIN rows, Manager!RemovePlugin(i) PROVE ShownInv'
  <2>1. /\ rows' = rows /\ merged' = merged /\ asked' = asked \cup rows[i].stands
        /\ clicks' \in 0 .. MaxClicks
    BY <1>1, <1>9 DEF Manager!RemovePlugin, Manager!OnRow
  <2>. QED
    BY <2>1 DEF Manager!Range
<1>10. ASSUME NEW c \in sent, Manager!Execute(c) PROVE ShownInv'
  <2>1. merged' = merged /\ asked' = asked /\ clicks' = clicks
    BY <1>10 DEF Manager!Execute
  <2>2. CASE rows' = rows
    BY <1>2, <2>1, <2>2
  <2>3. CASE rows' = Manager!Removed(rows, c.row)
    <3>1. \A i \in DOMAIN rows' : i \in DOMAIN rows /\ rows'[i] = rows[i]
      BY <2>3 DEF Manager!Removed
    <3>. QED
      BY <2>1, <3>1 DEF Manager!Range
  <2>. QED
    BY <1>10, <2>2, <2>3 DEF Manager!Execute
<1>. HIDE DEF ShownInv
<1>. QED
  BY <1>3, <1>4, <1>5, <1>6, <1>7, <1>8, <1>9, <1>10 DEF Manager!Next

\* A command adds at most the plug-in it fetches, and doubles none.
LEMMA ExecuteFetches ==
  ASSUME PluginInv, FetchInv, NEW c \in sent, Manager!Execute(c), NEW t, NEW u, t = tree, u = tree'
  PROVE  /\ Manager!Once(u)
         /\ \A q \in DOMAIN u : u[q] # None =>
              (\E p \in DOMAIN t : t[p] = u[q]) \/ (c.op = "clone" /\ u[q] = c.id)
<1>1. CommandOf(c) /\ Manager!IsTree(t) /\ Manager!Once(t)
  BY DEF PluginInv, FetchInv, Fetches
<1>2. CASE c.op = "rename"
  <2>1. u = Manager!Renamed(c.old, c.new) /\ Sound(c.old, c.new)
    BY <1>1, <1>2 DEF Manager!Execute, CommandOf
  <2>2. Arises(t, u)
    BY <1>1, <2>1, RenamedKeeps
  <2>. QED
    BY <1>1, <2>2 DEF Arises
<1>3. CASE c.op = "remove"
  <2>1. u = [p \in DOMAIN t \ Manager!Under(c.old) |-> t[p]]
    BY <1>3 DEF Manager!Execute
  <2>2. \A p \in DOMAIN u : p \in DOMAIN t /\ u[p] = t[p]
    BY <2>1
  <2>. QED
    BY <1>1, <2>2 DEF Manager!Once
<1>4. CASE c.op = "clone"
  <2>1. CASE u = t
    BY <1>1, <2>1
  <2>2. CASE u # t
    <3>1. PICK made : made = Manager!MakeDir(t, c.new)
      OBVIOUS
    <3>2. u = [made EXCEPT ![c.new] = c.id]
      BY <1>4, <2>2, <3>1 DEF Manager!Execute
    <3>3. c.new \in Manager!Directories
      BY <1>1, <1>4 DEF CommandOf
    <3>4. Arises(t, made)
      BY <1>1, <3>1, <3>3, MadeArises
    <3>5. Manager!Once(made) /\ \A q \in DOMAIN made : made[q] # None => \E p \in DOMAIN t : t[p] = made[q]
      BY <1>1, <3>4 DEF Arises
    <3>6. \A p \in DOMAIN t : t[p] # c.id
      BY <1>4 DEF FetchInv, Fetches
    <3>7. c.id # None
      BY <1>1, <1>4, GatewayAssumption DEF CommandOf, GatewayAssumption, Manager!PluginsAssumption
    <3>8. \A q \in DOMAIN made : made[q] # c.id
      BY <3>5, <3>6, <3>7
    <3>9. \A q \in DOMAIN u : q \in DOMAIN made /\ u[q] = IF q = c.new THEN c.id ELSE made[q]
      BY <3>2
    <3>10. Manager!Once(u)
      BY <3>5, <3>8, <3>9 DEF Manager!Once
    <3>. QED
      BY <1>4, <3>5, <3>9, <3>10
  <2>. QED
    BY <2>1, <2>2
<1>. QED
  BY <1>1, <1>2, <1>3, <1>4 DEF CommandOf

\* Commands that stay under way fetch what they did.
LEMMA SentFetches ==
  ASSUME NEW t, NEW s, NEW w, Fetches(t, s, w), NEW r, NEW f,
         \A c \in r : \E d \in s : c = f[d] /\ c.op = d.op /\ c.id = d.id
  PROVE  Fetches(t, r, {})
<1>1. ASSUME NEW c \in r, NEW d \in r, Twice(c, d) PROVE c = d
  <2>1. PICK a \in s : c = f[a] /\ c.op = a.op /\ c.id = a.id
    OBVIOUS
  <2>2. PICK b \in s : d = f[b] /\ d.op = b.op /\ d.id = b.id
    OBVIOUS
  <2>3. Twice(a, b)
    BY <1>1, <2>1, <2>2 DEF Twice
  <2>4. a = b
    BY <2>3 DEF Fetches
  <2>. QED
    BY <2>1, <2>2, <2>4
<1>. QED
  BY <1>1 DEF Fetches

LEMMA FetchStep ==
  ASSUME PluginInv, FetchInv, GatewayAssumption, Manager!Next
  PROVE  FetchInv'
<1>0. PICK t, s, w, v : t = tree /\ s = sent /\ w = Manager!Range(queue) /\ v = Manager!Range(queue')
  OBVIOUS
<1>1. Fetches(t, s, w)
  BY <1>0 DEF FetchInv
<1>2. Fetches(tree', sent', v) => FetchInv'
  BY <1>0 DEF FetchInv, Manager!Range
<1>3. queue' = queue => v = w
  BY <1>0
<1>4. queue' = <<>> => v = {}
  BY <1>0 DEF Manager!Range
<1>5. PICK S : queue \in Seq(S)
  BY DEF PluginInv
<1>6. ASSUME NEW x, queue' = Append(queue, x) PROVE v = w \cup {x}
  BY <1>0, <1>5, <1>6, QueueGrows
<1>7. \A c \in s \cup w : CommandOf(c)
  BY <1>0 DEF PluginInv
<1>8. ASSUME tree' = tree, queue' = queue, sent' \subseteq sent PROVE FetchInv'
  <2>1. Fetches(t, sent', w)
    BY <1>0, <1>1, <1>8 DEF Fetches
  <2>. QED
    BY <1>0, <1>2, <1>3, <1>8, <2>1
<1>9. ASSUME NEW command, command.op # "clone", tree' = tree,
             \/ queue' = Append(queue, command) /\ sent' = sent
             \/ queue' = queue /\ sent' = sent \cup {command}
      PROVE  FetchInv'
  <2>1. Fetches(t, s, w \cup {command}) /\ Fetches(t, s \cup {command}, w)
    BY <1>1, <1>9 DEF Fetches, Twice
  <2>. QED
    BY <1>0, <1>2, <1>3, <1>6, <1>9, <2>1
<1>10. CASE Manager!Load
  <2>1. tree' = tree /\ queue' = <<>> /\ sent' = {[c EXCEPT !.heard = FALSE] : c \in sent}
    BY <1>10 DEF Manager!Load
  <2>2. PICK f : f = [d \in s |-> [d EXCEPT !.heard = FALSE]]
    OBVIOUS
  <2>3. \A c \in sent' : \E d \in s : c = f[d] /\ c.op = d.op /\ c.id = d.id
    <3>1. ASSUME NEW d \in s PROVE f[d].op = d.op /\ f[d].id = d.id /\ f[d] = [d EXCEPT !.heard = FALSE]
      BY <1>7, <2>2 DEF CommandOf
    <3>. QED
      BY <1>0, <2>1, <3>1
  <2>4. Fetches(t, sent', {})
    BY <1>1, <2>3, SentFetches
  <2>. QED
    BY <1>0, <1>2, <1>4, <2>1, <2>4
<1>11. CASE Manager!Frame
  <2>1. tree' = tree /\ queue' = <<>> /\ sent' = s \cup w
    BY <1>0, <1>11 DEF Manager!Frame
  <2>2. Fetches(t, s \cup w, {})
    BY <1>1 DEF Fetches, Twice
  <2>. QED
    BY <1>0, <1>2, <1>4, <2>1, <2>2
<1>12. CASE Manager!NewPlugin \/ Manager!Dismiss \/ Manager!Restart
  <2>1. tree' = tree /\ queue' = queue /\ sent' \subseteq sent
    BY <1>12 DEF Manager!NewPlugin, Manager!Dismiss, Manager!Restart
  <2>. QED
    BY <1>8, <2>1
<1>13. ASSUME NEW i \in DOMAIN rows, Manager!EnablePlugin(i) \/ \E new \in Names : Manager!RenamePlugin(i, new)
       PROVE  FetchInv'
  <2>1. PICK new : /\ queue' = Append(queue, Manager!Command("rename", rows[i].name, new))
                   /\ tree' = tree /\ sent' = sent
    BY <1>13 DEF Manager!EnablePlugin, Manager!RenamePlugin, Manager!Ask
  <2>2. PICK command : command = Manager!Command("rename", rows[i].name, new)
    OBVIOUS
  <2>3. command.op # "clone"
    BY <2>2 DEF Manager!Command
  <2>. QED
    BY <1>9, <2>1, <2>2, <2>3
<1>14. ASSUME NEW p \in Ids, NEW name, Manager!Unknown(p), Manager!Clone(p, name)
       PROVE  FetchInv'
  <2>1. PICK command : command = [Manager!Command("clone", <<>>, <<name>>) EXCEPT !.id = p]
    OBVIOUS
  <2>2. tree' = tree /\ sent' = sent /\ (queue' = queue \/ queue' = Append(queue, command))
    BY <1>14, <2>1 DEF Manager!Clone
  <2>3. command.id = p
    BY <2>1 DEF Manager!Command
  <2>4. CASE queue' = queue
    BY <1>8, <2>2, <2>4
  <2>5. CASE queue' = Append(queue, command)
    <3>1. p # None
      BY DEF GatewayAssumption, Manager!PluginsAssumption
    <3>2. \A q \in DOMAIN t : t[q] # p
      BY <1>0, <1>14, <3>1 DEF Manager!Unknown, Manager!PluginsOf
    <3>3. \A c \in s \cup w : c.id # p
      BY <1>0, <1>14 DEF Manager!Unknown
    <3>4. Fetches(t, s, w \cup {command})
      BY <1>1, <2>3, <3>2, <3>3 DEF Fetches, Twice
    <3>. QED
      BY <1>0, <1>2, <1>6, <2>2, <2>5, <3>4
  <2>. QED
    BY <2>2, <2>4, <2>5
<1>15. ASSUME NEW i \in DOMAIN rows, Manager!RemovePlugin(i) PROVE FetchInv'
  <2>1. PICK command :
          /\ command = [Manager!Command("remove", rows[i].name, <<>>) EXCEPT
                         !.row = i,
                         !.late = ~(Manager!PluginsOf(Manager!Under(rows[i].name)) \subseteq rows[i].stands)]
          /\ sent' = sent \cup {command} /\ tree' = tree /\ queue' = queue
    BY <1>15 DEF Manager!RemovePlugin
  <2>2. command.op # "clone"
    BY <2>1 DEF Manager!Command
  <2>. QED
    BY <1>9, <2>1, <2>2
<1>16. ASSUME NEW c \in sent, Manager!Lost(c) PROVE FetchInv'
  <2>1. tree' = tree /\ queue' = queue /\ sent' \subseteq sent
    BY <1>16 DEF Manager!Lost
  <2>. QED
    BY <1>8, <2>1
<1>17. ASSUME NEW c \in sent, Manager!Execute(c) PROVE FetchInv'
  <2>1. queue' = queue /\ sent' = {[d EXCEPT !.late = TRUE] : d \in s \ {c}}
    BY <1>0, <1>17 DEF Manager!Execute
  <2>2. PICK u : u = tree'
    OBVIOUS
  <2>3. /\ Manager!Once(u)
        /\ \A q \in DOMAIN u : u[q] # None =>
             (\E p \in DOMAIN t : t[p] = u[q]) \/ (c.op = "clone" /\ u[q] = c.id)
    BY <1>0, <1>17, <2>2, ExecuteFetches
  <2>4. ASSUME NEW d \in (s \ {c}) \cup w, d.op = "clone", NEW q \in DOMAIN u PROVE u[q] # d.id
    <3>1. d.id # None
      BY <1>7, <2>4 DEF CommandOf, GatewayAssumption, Manager!PluginsAssumption
    <3>2. ~Twice(c, d)
      BY <1>0, <1>1, <2>4 DEF Fetches
    <3>3. ~(c.op = "clone" /\ d.id = c.id)
      BY <2>4, <3>2 DEF Twice
    <3>4. \A p \in DOMAIN t : t[p] # d.id
      BY <1>1, <2>4 DEF Fetches
    <3>. QED
      BY <2>3, <3>1, <3>3, <3>4
  <2>5. PICK f : f = [d \in s \ {c} |-> [d EXCEPT !.late = TRUE]]
    OBVIOUS
  <2>6. \A e \in sent' : \E d \in s \ {c} : e = f[d] /\ e.op = d.op /\ e.id = d.id
    <3>1. ASSUME NEW d \in s \ {c} PROVE f[d].op = d.op /\ f[d].id = d.id /\ f[d] = [d EXCEPT !.late = TRUE]
      BY <1>7, <2>5 DEF CommandOf
    <3>. QED
      BY <2>1, <3>1
  <2>7. \A e, d \in sent' : Twice(e, d) => e = d
    <3>1. Fetches(t, s \ {c}, {})
      BY <1>1 DEF Fetches
    <3>2. Fetches(t, sent', {})
      BY <2>6, <3>1, SentFetches
    <3>. QED
      BY <3>2 DEF Fetches
  <2>8. Fetches(u, sent', w)
    <3>1. ASSUME NEW e \in sent' \cup w, e.op = "clone", NEW q \in DOMAIN u PROVE u[q] # e.id
      BY <2>4, <2>6, <3>1
    <3>2. ASSUME NEW e \in sent', NEW d \in w PROVE ~Twice(e, d)
      <4>1. PICK b \in s : e.op = b.op /\ e.id = b.id
        BY <2>6
      <4>2. ~Twice(b, d)
        BY <1>1 DEF Fetches
      <4>. QED
        BY <4>1, <4>2 DEF Twice
    <3>3. \A e, d \in w : Twice(e, d) => e = d
      BY <1>1 DEF Fetches
    <3>. QED
      BY <2>3, <2>7, <3>1, <3>2, <3>3 DEF Fetches
  <2>. QED
    BY <1>2, <1>3, <2>1, <2>2, <2>8
<1>. QED
  BY <1>10, <1>11, <1>12, <1>13, <1>14, <1>15, <1>16, <1>17 DEF Manager!Next

\* What the page shows as switched on is what the next start merges, in the
\* order shown, and it is of its type: the sections number the rows, a plug-in
\* is in one place, and none is fetched twice (Plugins).
THEOREM PageAndStartAgree == Spec => []PageAgreesWithStart
<1>. DEFINE Inv == part = "plugins" => PluginInv /\ FetchInv /\ ShownInv
<1>1. Init => Inv
  BY PluginStart, FetchStart, GatewayAssumption DEF Init
<1>2. Inv /\ [Next]_vars => Inv'
  <2>. SUFFICES ASSUME Inv, [Next]_vars, part' = "plugins" PROVE (PluginInv /\ FetchInv /\ ShownInv)'
    OBVIOUS
  <2>1. CASE Next
    <3>1. part = "plugins" /\ Manager!Next
      BY <2>1 DEF Next
    <3>. QED
      BY <3>1, PluginStep, FetchStep, ShownStep, GatewayAssumption
  <2>2. CASE UNCHANGED vars
    <3>1. part' = part /\ UNCHANGED pluginVars
      BY <2>2 DEF vars
    <3>2. PluginInv'
      BY <3>1 DEF pluginVars, PluginInv, RowsInv, RemovalOf, Manager!PluginsOf, Manager!Under,
                  CommandOf, Sound, Manager!Range
    <3>3. FetchInv' /\ ShownInv'
      BY <3>1 DEF pluginVars, FetchInv, ShownInv, Manager!Range
    <3>. QED
      BY <3>2, <3>3
  <2>. QED
    BY <2>1, <2>2
<1>3. Inv => PageAgreesWithStart
  <2>. SUFFICES ASSUME PluginInv, FetchInv, ShownInv
                PROVE  Manager!TypeOK /\ Manager!PageAgreesWithStart
    BY DEF PageAgreesWithStart
  <2>1. Manager!IsTree(tree)
    BY DEF PluginInv
  <2>2. Manager!Once(tree)
    BY DEF FetchInv, Fetches
  <2>3. Manager!TypeOK
    BY <2>1, <2>2 DEF Manager!TypeOK, ShownInv
  <2>. QED
    BY <2>1, <2>3, TheyAgree
<1>. QED
  BY <1>1, <1>2, <1>3, PTL DEF Spec
=============================================================================
