-------------------------- MODULE ConnectionProofs --------------------------
(***************************************************************************)
(* Proofs about Connection, for any class files, times, numbers of outages *)
(* and lost requests, and for any replies: a page instantiates no class    *)
(* from a file that depends on itself, a checked apply whose device can be *)
(* reached is confirmed in time, and what is read of a reply is passed on  *)
(* in order and whole.                                                     *)
(***************************************************************************)
EXTENDS Connection, TLAPS

LEMMA Constants == Dialog!TimesAssumption /\ Page!BootAssumption
BY ConnectionAssumption

-----------------------------------------------------------------------------
(* The page that comes up: Boot.                                           *)

There == {c \in Classes : class[c] = "there"}

\* The classes that are there came one after the other, each after all it
\* requires: in every set of them one requires no other of the set.
WholeInv ==
  /\ \A c \in There : needs[c] \subseteq There
  /\ \A S \in SUBSET There : S # {} => \E m \in S : needs[m] \cap S = {}

\* What a class reaches, it reaches through the classes it requires.
LEMMA ReachesIsClosed ==
  ASSUME Page!TypeOK, NEW c \in Classes
  PROVE  /\ needs[c] \subseteq Page!Reaches(c)
         /\ Page!Closed(Page!Reaches(c))
BY DEF Page!Reaches, Page!Closed, Page!TypeOK

LEMMA ReachesIsLeast ==
  ASSUME NEW c, NEW S \in SUBSET Classes, needs[c] \subseteq S, Page!Closed(S)
  PROVE  Page!Reaches(c) \subseteq S
BY DEF Page!Reaches

LEMMA ReachesThroughNeeds ==
  ASSUME Page!TypeOK, NEW c \in Classes, NEW d \in Page!Reaches(c)
  PROVE  \E e \in needs[c] : d = e \/ d \in Page!Reaches(e)
<1>1. needs \in [Classes -> SUBSET Classes]
  BY DEF Page!TypeOK
<1>2. PICK U : U = {x \in Classes : \E e \in needs[c] : x = e \/ x \in Page!Reaches(e)}
  OBVIOUS
<1>3. U \in SUBSET Classes /\ needs[c] \subseteq U
  BY <1>1, <1>2
<1>4. ASSUME NEW x \in U, NEW y \in needs[x]
      PROVE  y \in U
  <2>1. PICK e \in needs[c] : x = e \/ x \in Page!Reaches(e)
    BY <1>2
  <2>2. e \in Classes /\ y \in Classes
    BY <1>1, <1>2
  <2>3. y \in Page!Reaches(e)
    BY <2>1, <2>2, ReachesIsClosed DEF Page!Closed
  <2>. QED
    BY <1>2, <2>1, <2>2, <2>3
<1>5. Page!Closed(U)
  BY <1>4 DEF Page!Closed
<1>6. d \in U
  BY <1>3, <1>5, ReachesIsLeast
<1>. QED
  BY <1>2, <1>6

\* No class that is there depends on itself.
LEMMA NoCircleIsThere ==
  ASSUME Page!TypeOK, WholeInv, NEW d \in There
  PROVE  ~Page!OnCircle(d)
<1>. SUFFICES ASSUME d \in Page!Reaches(d) PROVE FALSE
  BY DEF Page!OnCircle
<1>1. PICK S : S = {e \in There : d \in Page!Reaches(e)}
  OBVIOUS
<1>2. S \in SUBSET There /\ S # {}
  BY <1>1
<1>3. PICK m \in S : needs[m] \cap S = {}
  BY <1>2 DEF WholeInv
<1>4. m \in There /\ m \in Classes /\ d \in Page!Reaches(m)
  BY <1>1, <1>3 DEF There
<1>5. PICK e \in needs[m] : d = e \/ d \in Page!Reaches(e)
  BY <1>4, ReachesThroughNeeds
<1>6. e \in There
  BY <1>4 DEF WholeInv
<1>7. e \in S
  BY <1>1, <1>5, <1>6
<1>. QED
  BY <1>3, <1>5, <1>7

LEMMA WholeIsOnlyWhole == Page!TypeOK /\ WholeInv => OnlyWhole
<1>. SUFFICES ASSUME Page!TypeOK, WholeInv, NEW c \in Classes, class[c] = "there"
              PROVE  ~Page!Circles(c) /\ \A d \in Page!Reaches(c) : class[d] = "there"
  BY DEF OnlyWhole, Page!OnlyWhole
<1>1. c \in There /\ There \in SUBSET Classes
  BY DEF There
<1>2. Page!Reaches(c) \subseteq There
  BY <1>1, ReachesIsLeast DEF WholeInv, Page!Closed
<1>. QED
  BY <1>1, <1>2, NoCircleIsThere DEF Page!Circles, There

\* The table only grows by what is fetched, given up or instantiated.
LEMMA BootTypes ==
  ASSUME Page!TypeOK, [Page!Next]_pageVars
  PROVE  Page!TypeOK'
<1>. USE Constants DEF Page!TypeOK, Page!BootAssumption
<1>1. \A c \in Classes, from \in SUBSET Classes : Page!Chain(c, from) \in SUBSET Classes
  BY DEF Page!Chain
<1>2. ASSUME NEW asked
      PROVE  Page!Requiring(class, asked)
               \in [Classes -> {"absent", "fetching", "waiting", "there", "failed"}]
  BY DEF Page!Requiring
<1>3. ASSUME NEW asked, NEW from \in SUBSET Classes
      PROVE  Page!Chains(class, asked, from) \in [Classes -> SUBSET Classes]
  BY <1>1 DEF Page!Chains
<1>4. Page!Loss => lost' \in 0 .. MaxLost
  BY DEF Page!Loss
<1>5. ASSUME NEW c \in Classes, Page!Require(c)
      PROVE  Page!TypeOK'
  BY <1>2, <1>3, <1>5 DEF Page!Require
<1>6. ASSUME NEW c \in Classes, Page!Arrives(c)
      PROVE  Page!TypeOK'
  <2>1. PICK asked : /\ \E s \in {"waiting", "failed"} :
                          class' = [Page!Requiring(class, asked) EXCEPT ![c] = s]
                     /\ chain' = Page!Chains(class, asked, chain[c])
                     /\ UNCHANGED <<needs, base, boot, lost>>
    BY <1>6 DEF Page!Arrives
  <2>2. chain' \in [Classes -> SUBSET Classes]
    BY <1>3, <2>1
  <2>3. class' \in [Classes -> {"absent", "fetching", "waiting", "there", "failed"}]
    BY <1>2, <2>1
  <2>. QED
    BY <2>1, <2>2, <2>3
<1>7. ASSUME NEW c \in Classes, Page!Instantiate(c) \/ Page!GiveUp(c) \/ Page!IsLost(c)
      PROVE  Page!TypeOK'
  BY <1>4, <1>7 DEF Page!Instantiate, Page!GiveUp, Page!IsLost
<1>8. ASSUME NEW url \in {"ubus", "fallback"}, Page!Probed(url)
      PROVE  Page!TypeOK'
  BY <1>4, <1>8 DEF Page!Probed
<1>9. CASE Page!Setup \/ Page!SetupFails \/ Page!InitDOM
  BY <1>9 DEF Page!Setup, Page!SetupFails, Page!InitDOM
<1>a. ASSUME NEW listed \in BOOLEAN, Page!Features(listed)
      PROVE  Page!TypeOK'
  BY <1>2, <1>3, <1>4, <1>a DEF Page!Features
<1>b. CASE UNCHANGED pageVars
  BY <1>b DEF pageVars
<1>. QED
  BY <1>5, <1>6, <1>7, <1>8, <1>9, <1>a, <1>b DEF Page!Next, Page!Loading, Page!Starting

\* A step adds a class that has all it requires, or none.
LEMMA BootThere ==
  ASSUME Page!TypeOK, [Page!Next]_pageVars
  PROVE  /\ needs' = needs
         /\ \/ There' = There
            \/ \E c \in Classes : /\ c \notin There /\ needs[c] \subseteq There
                                  /\ There' = There \cup {c}
<1>. USE DEF Page!TypeOK, There
<1>1. needs' = needs
  BY DEF Page!Next, pageVars, Page!Require, Page!Loading, Page!Arrives, Page!Instantiate,
    Page!GiveUp, Page!IsLost, Page!Starting, Page!Probed, Page!Setup, Page!SetupFails,
    Page!Features, Page!InitDOM
<1>2. ASSUME NEW asked, class' = Page!Requiring(class, asked)
      PROVE  There' = There
  BY <1>2 DEF Page!Requiring
<1>3. ASSUME NEW c \in Classes, class[c] # "there", NEW s, s # "there",
             class' = [class EXCEPT ![c] = s]
      PROVE  There' = There
  BY <1>3
<1>4. ASSUME NEW c \in Classes, Page!Arrives(c)
      PROVE  There' = There
  <2>1. PICK asked : \E s \in {"waiting", "failed"} :
                       class' = [Page!Requiring(class, asked) EXCEPT ![c] = s]
    BY <1>4 DEF Page!Arrives
  <2>2. class[c] = "fetching"
    BY <1>4 DEF Page!Arrives
  <2>3. PICK t : t = Page!Requiring(class, asked)
    OBVIOUS
  <2>4. /\ DOMAIN t = Classes
        /\ \A d \in Classes : t[d] = "there" <=> class[d] = "there"
    BY <2>3 DEF Page!Requiring
  <2>5. \A d \in Classes : class'[d] = "there" <=> class[d] = "there"
    BY <2>1, <2>2, <2>3, <2>4
  <2>. QED
    BY <2>5
<1>5. ASSUME NEW c \in Classes, Page!Instantiate(c)
      PROVE  /\ c \notin There /\ needs[c] \subseteq There
             /\ There' = There \cup {c}
  BY <1>5 DEF Page!Instantiate
<1>6. ASSUME NEW c \in Classes, Page!GiveUp(c) \/ Page!IsLost(c)
      PROVE  There' = There
  BY <1>3, <1>6 DEF Page!GiveUp, Page!IsLost
<1>7. ASSUME UNCHANGED class
      PROVE  There' = There
  BY <1>7
<1>. QED
  BY <1>1, <1>2, <1>4, <1>5, <1>6, <1>7
  DEF Page!Next, pageVars, Page!Require, Page!Loading, Page!Starting, Page!Probed,
    Page!Setup, Page!SetupFails, Page!Features, Page!InitDOM

LEMMA WholeStep ==
  ASSUME Page!TypeOK, WholeInv, [Page!Next]_pageVars
  PROVE  WholeInv'
<1>1. CASE There' = There /\ needs' = needs
  BY <1>1 DEF WholeInv
<1>2. ASSUME NEW c \in Classes, c \notin There, needs[c] \subseteq There,
             There' = There \cup {c}, needs' = needs
      PROVE  WholeInv'
  <2>1. \A d \in There' : needs'[d] \subseteq There'
    BY <1>2 DEF WholeInv
  <2>2. ASSUME NEW S \in SUBSET There', S # {}
        PROVE  \E m \in S : needs'[m] \cap S = {}
    <3>1. CASE S \cap There = {}
      <4>1. c \in S
        BY <1>2, <2>2, <3>1
      <4>. QED
        BY <1>2, <3>1, <4>1
    <3>2. CASE S \cap There # {}
      <4>1. PICK m \in S \cap There : needs[m] \cap (S \cap There) = {}
        BY <3>2 DEF WholeInv
      <4>2. needs[m] \subseteq There
        BY <4>1 DEF WholeInv
      <4>. QED
        BY <1>2, <4>1, <4>2
    <3>. QED
      BY <3>1, <3>2
  <2>. QED
    BY <2>1, <2>2 DEF WholeInv
<1>. QED
  BY <1>1, <1>2, BootThere

LEMMA WholeStart == Init => Page!TypeOK /\ WholeInv
<1>1. Page!Init => Page!TypeOK /\ There = {}
  BY Constants DEF Page!Init, Page!TypeOK, There, Page!BootAssumption
<1>2. Page!Unused => Page!TypeOK /\ There = {}
  BY Constants DEF Page!Unused, Page!TypeOK, There, Page!BootAssumption
<1>3. There = {} => WholeInv
  BY DEF WholeInv
<1>. QED
  BY <1>1, <1>2, <1>3 DEF Init

LEMMA PageSteps == [Next]_vars => [Page!Next]_pageVars
BY DEF Next, vars

\* A class is instantiated only when all it depends on, directly or not, is
\* there, and never from a file that depends on itself, for any class files,
\* in whatever order they arrive, whoever asks and whatever is lost.
THEOREM ClassesAreWhole == FairSpec => []OnlyWhole
<1>1. Page!TypeOK /\ WholeInv /\ [Next]_vars => (Page!TypeOK /\ WholeInv)'
  BY PageSteps, BootTypes, WholeStep
<1>. QED
  BY <1>1, WholeStart, WholeIsOnlyWhole, PTL DEF FairSpec

-----------------------------------------------------------------------------
(* The checked apply: ApplyDialog.                                         *)

Requests == [kind : Dialog!Kinds, leg : {"sent"}, at : Dialog!Time, since : Dialog!Time]
Answers == [kind : Dialog!Kinds, leg : {"answered"}, at : Dialog!Time, since : Dialog!Time,
            status : Dialog!Statuses]

IsRequest == request # Dialog!None

\* What the browser waits for, and for how long it has: no message takes
\* longer than the link allows, no request is older than its time-out, and the
\* first confirm is sent when the hold-off is over.
ClockInv ==
  /\ IsRequest => request.at <= request.since /\ request.since <= now
  /\ Dialog!Waiting("sent") => request.since = request.at
  /\ IsRequest /\ link = "up"
       => now <= request.since + Delay \/ now <= upSince + Delay
  /\ IsRequest /\ request.kind # "apply" => now <= request.at + Timeout
  /\ dialog = "starting" => (IsRequest => request.kind = "apply")
  /\ dialog = "confirming" => /\ deadline + Holdoff = next + RollbackTime
                              /\ IsRequest => request.kind = "confirm"
                              /\ ~IsRequest => now <= next
  /\ dialog \notin {"starting", "confirming"} => (IsRequest => request.kind = "query")

\* As long as the apply is pending no confirm has been answered, and on a good
\* link the one under way is the first or was sent when the link came back.
PendingInv ==
  dialog = "confirming" /\ server = "pending" /\ IsRequest
    => /\ request.leg = "sent"
       /\ link = "up" => request.at = next \/ request.at <= upSince + Delay

LEMMA Times ==
  /\ {RollbackTime, Holdoff, Timeout, Delay, MaxOutages, Horizon} \subseteq Nat
  /\ RollbackTime > 0 /\ Timeout > 0 /\ 2 * Delay < Timeout
  /\ Dialog!Time \subseteq Nat
  /\ 0 .. Horizon \subseteq Dialog!Time
  /\ \A t \in 0 .. Horizon : t + RollbackTime \in Dialog!Time /\ t + Holdoff \in Dialog!Time
BY Constants DEF Dialog!TimesAssumption, Dialog!Time

LEMMA Fields ==
  /\ \A r \in Requests : r.leg = "sent"
  /\ \A r \in Answers : r.leg = "answered"
  /\ \A r \in Requests \cup Answers :
       r # Dialog!None /\ r.kind \in Dialog!Kinds /\ r.at \in Nat /\ r.since \in Nat
<1>1. /\ \A r \in Requests : r.leg = "sent"
      /\ \A r \in Answers : r.leg = "answered"
      /\ \A r \in Requests \cup Answers : r.kind \in Dialog!Kinds /\ r.at \in Nat /\ r.since \in Nat
  BY Times DEF Requests, Answers
<1>2. Dialog!None.kind \notin Dialog!Kinds
  BY DEF Dialog!None, Dialog!Kinds
<1>3. \A r \in Requests \cup Answers : r # Dialog!None
  BY <1>1, <1>2
<1>. QED
  BY <1>1, <1>3

LEMMA RequestFacts ==
  /\ \A kind \in Dialog!Kinds :
       now \in Dialog!Time =>
         /\ Dialog!Sent(kind) \in Requests
         /\ Dialog!Sent(kind).kind = kind /\ Dialog!Sent(kind).leg = "sent"
         /\ Dialog!Sent(kind).at = now /\ Dialog!Sent(kind).since = now
  /\ \A r \in Requests, status \in Dialog!Statuses :
       now \in Dialog!Time =>
         /\ Dialog!Answered(r, status) \in Answers
         /\ Dialog!Answered(r, status).kind = r.kind
         /\ Dialog!Answered(r, status).leg = "answered"
         /\ Dialog!Answered(r, status).at = r.at
         /\ Dialog!Answered(r, status).since = now
<1>2. ASSUME NEW kind \in Dialog!Kinds, now \in Dialog!Time
      PROVE  /\ Dialog!Sent(kind) \in Requests
             /\ Dialog!Sent(kind).kind = kind /\ Dialog!Sent(kind).leg = "sent"
             /\ Dialog!Sent(kind).at = now /\ Dialog!Sent(kind).since = now
  BY <1>2 DEF Dialog!Sent, Requests
<1>3. ASSUME NEW r \in Requests, NEW status \in Dialog!Statuses, now \in Dialog!Time
      PROVE  /\ Dialog!Answered(r, status) \in Answers
             /\ Dialog!Answered(r, status).kind = r.kind
             /\ Dialog!Answered(r, status).leg = "answered"
             /\ Dialog!Answered(r, status).at = r.at
             /\ Dialog!Answered(r, status).since = now
  BY <1>3 DEF Dialog!Answered, Requests, Answers
<1>. QED
  BY <1>2, <1>3

\* The request that is under way.
LEMMA UnderWay ==
  ASSUME Dialog!TypeOK
  PROVE  /\ IsRequest <=> request \in Requests \cup Answers
         /\ ~IsRequest <=> request = Dialog!None
         /\ Dialog!Waiting("sent") <=> request \in Requests
         /\ Dialog!Waiting("answered") <=> request \in Answers
         /\ IsRequest => /\ request.kind \in Dialog!Kinds /\ request.leg \in {"sent", "answered"}
                         /\ request.at \in Nat /\ request.since \in Nat
<1>1. \/ request = Dialog!None \/ request \in Requests \/ request \in Answers
  BY DEF Dialog!TypeOK, Requests, Answers
<1>. QED
  BY <1>1, Fields DEF IsRequest, Dialog!Waiting

\* All three, and a lemma for each kind of step.
DialogInv == Dialog!TypeOK /\ ClockInv /\ PendingInv

\* The server answers the request it is handed.
LEMMA ServerStep ==
  ASSUME DialogInv, Dialog!HandleApply \/ Dialog!HandleConfirm \/ Dialog!HandleQuery
  PROVE  DialogInv'
<1>1. request \in Requests /\ IsRequest
  BY UnderWay DEF DialogInv, Dialog!HandleApply, Dialog!HandleConfirm, Dialog!HandleQuery
<1>2. PICK status \in Dialog!Statuses : request' = Dialog!Answered(request, status)
  BY DEF Dialog!HandleApply, Dialog!HandleConfirm, Dialog!HandleQuery,
    Dialog!ConfirmStatus, Dialog!Statuses
<1>3. /\ request' \in Answers /\ request'.kind = request.kind /\ request'.leg = "answered"
      /\ request'.at = request.at /\ request'.since = now
      /\ IsRequest' /\ ~Dialog!Waiting("sent")'
  <2>1. now \in Dialog!Time
    BY Times DEF DialogInv, Dialog!TypeOK
  <2>2. /\ request' \in Answers /\ request'.kind = request.kind /\ request'.leg = "answered"
        /\ request'.at = request.at /\ request'.since = now
    BY <1>1, <1>2, <2>1, RequestFacts
  <2>. QED
    BY <2>2, Fields DEF IsRequest, Dialog!Waiting
<1>4. /\ UNCHANGED <<now, link, upSince, outages, dialog, deadline, next, stray>>
      /\ \/ server' = "pending" /\ expiry' = now + RollbackTime /\ request.kind = "apply"
         \/ server' \in {server, "kept"} /\ expiry' = expiry /\ request.kind # "apply"
      /\ server' = "pending" => request.kind # "confirm"
  BY DEF Dialog!HandleApply, Dialog!HandleConfirm, Dialog!HandleQuery, Dialog!linkVars,
    Dialog!serverVars
<1>5. Dialog!TypeOK'
  BY <1>3, <1>4, Times DEF DialogInv, Dialog!TypeOK, Answers
<1>6. /\ request.at \in Nat /\ request.since \in Nat /\ now \in Nat /\ upSince \in Nat
      /\ request.at <= now
  BY <1>1, Times, UnderWay DEF DialogInv, ClockInv, Dialog!TypeOK
<1>7. ClockInv'
  <2>1. now <= now + Delay
    BY <1>6, Times
  <2>. QED
    BY <1>1, <1>3, <1>4, <1>6, <2>1, Times DEF DialogInv, ClockInv
<1>8. PendingInv'
  BY <1>1, <1>3, <1>4 DEF DialogInv, ClockInv, PendingInv
<1>. QED
  BY <1>5, <1>7, <1>8 DEF DialogInv

\* The browser sends a request, on whatever occasion.
LEMMA SendStep ==
  ASSUME DialogInv, NEW kind \in {"confirm", "query"}, request' = Dialog!Sent(kind),
         UNCHANGED <<now, link, upSince, outages, server, expiry, deadline, next>>,
         stray' \in BOOLEAN,
         \/ kind = "confirm" /\ dialog = "confirming" /\ dialog' = "confirming"
         \/ kind = "query" /\ dialog' = "waiting"
  PROVE  /\ Dialog!TypeOK' /\ ClockInv'
         /\ request' \in Requests /\ request'.at = now
<1>1. now \in Dialog!Time /\ now \in Nat /\ kind \in Dialog!Kinds
  BY Times DEF DialogInv, Dialog!TypeOK, Dialog!Kinds
<1>2. /\ request' \in Requests /\ request'.kind = kind /\ request'.leg = "sent"
      /\ request'.at = now /\ request'.since = now /\ IsRequest'
  <2>1. /\ request' \in Requests /\ request'.kind = kind /\ request'.leg = "sent"
        /\ request'.at = now /\ request'.since = now
    BY <1>1, RequestFacts
  <2>. QED
    BY <2>1, Fields DEF IsRequest
<1>3. Dialog!TypeOK'
  BY <1>2, Times DEF DialogInv, Dialog!TypeOK, Requests
<1>4. ClockInv'
  BY <1>1, <1>2, Times DEF DialogInv, ClockInv
<1>. QED
  BY <1>2, <1>3, <1>4

LEMMA BrowserStep ==
  ASSUME DialogInv,
         Dialog!ApplyReply \/ Dialog!ConfirmCall \/ Dialog!QueryReply \/ Dialog!Unhandled
  PROVE  DialogInv'
<1>0. /\ now \in Nat /\ upSince \in Nat /\ next \in Nat /\ deadline \in Nat
      /\ stray \in BOOLEAN
  BY Times DEF DialogInv, Dialog!TypeOK
<1>1. CASE Dialog!ApplyReply
  <2>1. /\ dialog' = "confirming" /\ deadline' = now + RollbackTime /\ next' = now + Holdoff
        /\ request' = Dialog!None
        /\ UNCHANGED <<now, link, upSince, outages, server, expiry, stray>>
    BY <1>1 DEF Dialog!ApplyReply, Dialog!linkVars, Dialog!serverVars
  <2>2. Dialog!TypeOK'
    BY <2>1, Times DEF DialogInv, Dialog!TypeOK
  <2>3. ClockInv' /\ PendingInv'
    BY <1>0, <2>1, Times DEF ClockInv, PendingInv, IsRequest, Dialog!Waiting
  <2>. QED
    BY <2>2, <2>3 DEF DialogInv
<1>2. CASE Dialog!QueryReply \/ Dialog!Unhandled
  <2>1. /\ dialog \notin {"confirming", "applied"} /\ dialog' \in {dialog, "undone"}
        /\ request' = Dialog!None
        /\ UNCHANGED <<now, link, upSince, outages, server, expiry, deadline, next, stray>>
    BY <1>2 DEF Dialog!QueryReply, Dialog!Unhandled, Dialog!linkVars, Dialog!serverVars
  <2>2. Dialog!TypeOK'
    BY <2>1 DEF DialogInv, Dialog!TypeOK
  <2>3. ClockInv' /\ PendingInv'
    BY <2>1 DEF ClockInv, PendingInv, IsRequest, Dialog!Waiting
  <2>. QED
    BY <2>2, <2>3 DEF DialogInv
<1>3. CASE Dialog!ConfirmCall
  <2>1. /\ dialog = "confirming"
        /\ UNCHANGED <<now, link, upSince, outages, server, expiry, deadline, next>>
        /\ stray' \in BOOLEAN
    BY <1>3 DEF Dialog!ConfirmCall, Dialog!linkVars, Dialog!serverVars
  <2>2. CASE dialog' = "waiting" /\ request' = Dialog!Sent("query")
    <3>1. PendingInv'
      BY <2>2 DEF PendingInv
    <3>. QED
      BY <2>1, <2>2, <3>1, SendStep DEF DialogInv
  <2>3. CASE dialog' = "applied" /\ request' = Dialog!None
    <3>1. Dialog!TypeOK'
      BY <2>1, <2>3 DEF DialogInv, Dialog!TypeOK
    <3>2. ClockInv' /\ PendingInv'
      BY <2>3 DEF ClockInv, PendingInv, IsRequest, Dialog!Waiting
    <3>. QED
      BY <3>1, <3>2 DEF DialogInv
  <2>4. CASE /\ request' = Dialog!Sent("confirm") /\ dialog' = dialog
             /\ ~(Dialog!Waiting("answered") /\ link = "up")
    <3>1. /\ Dialog!TypeOK' /\ ClockInv'
          /\ request' \in Requests /\ request'.at = now
      BY <2>1, <2>4, SendStep
    <3>2. \/ ~IsRequest /\ now >= next
          \/ /\ IsRequest
             /\ link = "down" \/ (request.kind # "apply" /\ now >= request.at + Timeout)
      BY <1>3, <2>4 DEF Dialog!ConfirmCall, Dialog!Fails, IsRequest
    <3>3. ASSUME server = "pending", link = "up"
          PROVE  now = next \/ now <= upSince + Delay
      <4>1. CASE ~IsRequest /\ now >= next
        BY <1>0, <2>1, <4>1 DEF DialogInv, ClockInv
      <4>2. CASE IsRequest /\ now >= request.at + Timeout
        <5>1. request.leg = "sent" /\ request.at \in Nat
          BY <2>1, <3>3, <4>2, UnderWay DEF DialogInv, PendingInv
        <5>2. request.since = request.at
          BY <4>2, <5>1 DEF DialogInv, ClockInv, IsRequest, Dialog!Waiting
        <5>3. now <= request.at + Delay \/ now <= upSince + Delay
          BY <3>3, <4>2, <5>2 DEF DialogInv, ClockInv
        <5>. QED
          BY <1>0, <4>2, <5>1, <5>3, Times
      <4>. QED
        BY <3>2, <3>3, <4>1, <4>2
    <3>4. PendingInv'
      BY <2>1, <3>1, <3>3, Fields DEF PendingInv
    <3>. QED
      BY <3>1, <3>4 DEF DialogInv
  <2>. QED
    BY <1>3, <2>2, <2>3, <2>4 DEF Dialog!ConfirmCall
<1>. QED
  BY <1>1, <1>2, <1>3

LEMMA WorldStep ==
  ASSUME DialogInv, \/ Dialog!HandleStray \/ Dialog!TimerFires
                    \/ Dialog!Drop \/ Dialog!Restore \/ Dialog!Tick
  PROVE  DialogInv'
<1>0. /\ now \in Nat /\ upSince \in Nat /\ next \in Nat /\ deadline \in Nat
      /\ IsRequest => request.at \in Nat /\ request.since \in Nat
  BY Times, UnderWay DEF DialogInv, Dialog!TypeOK
<1>1. CASE Dialog!HandleStray \/ Dialog!TimerFires
  <2>1. /\ server' \in {server, "kept", "rolledback"} /\ stray' \in {stray, FALSE}
        /\ UNCHANGED <<now, link, upSince, outages, expiry, dialog, deadline, next, request>>
    BY <1>1 DEF Dialog!HandleStray, Dialog!TimerFires, Dialog!linkVars, Dialog!browserVars
  <2>2. Dialog!TypeOK'
    BY <2>1 DEF DialogInv, Dialog!TypeOK
  <2>3. ClockInv' /\ PendingInv'
    BY <2>1 DEF DialogInv, ClockInv, PendingInv, IsRequest, Dialog!Waiting
  <2>. QED
    BY <2>2, <2>3 DEF DialogInv
<1>2. CASE Dialog!Drop
  <2>1. /\ link' = "down" /\ outages < MaxOutages /\ outages' = outages + 1
        /\ UNCHANGED <<now, upSince, server, expiry, dialog, deadline, next, request, stray>>
    BY <1>2 DEF Dialog!Drop, Dialog!serverVars, Dialog!browserVars
  <2>2. Dialog!TypeOK'
    BY <2>1, Times DEF DialogInv, Dialog!TypeOK
  <2>3. ClockInv' /\ PendingInv'
    BY <2>1 DEF DialogInv, ClockInv, PendingInv, IsRequest, Dialog!Waiting
  <2>. QED
    BY <2>2, <2>3 DEF DialogInv
<1>3. CASE Dialog!Restore
  <2>1. /\ link' = "up" /\ upSince' = now
        /\ UNCHANGED <<now, outages, server, expiry, dialog, deadline, next, request, stray>>
    BY <1>3 DEF Dialog!Restore, Dialog!serverVars, Dialog!browserVars
  <2>2. Dialog!TypeOK'
    BY <2>1, Times DEF DialogInv, Dialog!TypeOK
  <2>3. now <= now + Delay /\ (IsRequest => request.at <= now + Delay)
    BY <1>0, Times DEF DialogInv, ClockInv
  <2>4. ClockInv' /\ PendingInv'
    BY <2>1, <2>3 DEF DialogInv, ClockInv, PendingInv, IsRequest, Dialog!Waiting
  <2>. QED
    BY <2>2, <2>4 DEF DialogInv
<1>4. CASE Dialog!Tick
  <2>1. /\ now < Horizon /\ ~Dialog!Due /\ now' = now + 1
        /\ UNCHANGED <<link, upSince, outages, server, expiry, dialog, deadline, next,
                       request, stray>>
    BY <1>4 DEF Dialog!Tick, Dialog!linkVars, Dialog!serverVars, Dialog!browserVars
  <2>2. Dialog!TypeOK'
    BY <2>1, Times DEF DialogInv, Dialog!TypeOK
  <2>3. /\ dialog = "confirming" /\ ~IsRequest => now < next
        /\ IsRequest /\ request.kind # "apply" => now < request.at + Timeout
        /\ IsRequest /\ link = "up" => now < request.since + Delay \/ now < upSince + Delay
    BY <1>0, <2>1, Times DEF Dialog!Due, IsRequest
  <2>4. /\ dialog = "confirming" /\ ~IsRequest => now + 1 <= next
        /\ IsRequest /\ request.kind # "apply" => now + 1 <= request.at + Timeout
        /\ IsRequest /\ link = "up" => now + 1 <= request.since + Delay \/ now + 1 <= upSince + Delay
        /\ IsRequest => request.at <= request.since /\ request.since <= now + 1
    BY <1>0, <2>3, Times DEF DialogInv, ClockInv
  <2>5. ClockInv' /\ PendingInv'
    BY <2>1, <2>4 DEF DialogInv, ClockInv, PendingInv, IsRequest, Dialog!Waiting
  <2>. QED
    BY <2>2, <2>5 DEF DialogInv
<1>. QED
  BY <1>1, <1>2, <1>3, <1>4

LEMMA DialogStep ==
  ASSUME DialogInv, [Dialog!Next]_dialogVars
  PROVE  DialogInv'
<1>1. CASE UNCHANGED dialogVars
  <2>1. UNCHANGED <<now, link, upSince, outages, server, expiry, dialog, deadline, next,
                    request, stray>>
    BY <1>1 DEF dialogVars
  <2>. QED
    BY <2>1 DEF DialogInv, Dialog!TypeOK, ClockInv, PendingInv, IsRequest, Dialog!Waiting
<1>. QED
  BY <1>1, ServerStep, BrowserStep, WorldStep DEF Dialog!Next, Dialog!Server, Dialog!Browser

LEMMA DialogStart == Init => DialogInv
<1>1. ASSUME Dialog!Init
      PROVE  DialogInv
  <2>1. 0 \in Dialog!Time /\ "apply" \in Dialog!Kinds /\ now = 0
    BY <1>1, Times DEF Dialog!Kinds, Dialog!Init
  <2>2. /\ request \in Requests /\ request.kind = "apply"
        /\ request.at = 0 /\ request.since = 0
    BY <1>1, <2>1, RequestFacts DEF Dialog!Init
  <2>3. Dialog!TypeOK
    <3>1. /\ now \in 0 .. Horizon /\ outages \in 0 .. MaxOutages
          /\ {upSince, expiry, deadline, next} \subseteq Dialog!Time
      BY <1>1, <2>1, Times DEF Dialog!Init
    <3>2. link = "up" /\ server = "clean" /\ dialog = "starting" /\ stray \in BOOLEAN
      BY <1>1 DEF Dialog!Init
    <3>. QED
      BY <2>2, <3>1, <3>2 DEF Dialog!TypeOK, Requests
  <2>4. ClockInv /\ PendingInv
    BY <1>1, <2>2, Times DEF Dialog!Init, ClockInv, PendingInv
  <2>. QED
    BY <2>3, <2>4 DEF DialogInv
<1>2. ASSUME Dialog!Unused
      PROVE  DialogInv
  <2>1. Dialog!TypeOK
    <3>1. /\ now \in 0 .. Horizon /\ outages \in 0 .. MaxOutages
          /\ {upSince, expiry, deadline, next} \subseteq Dialog!Time
      BY <1>2, Times DEF Dialog!Unused
    <3>2. link = "up" /\ server = "kept" /\ dialog = "applied" /\ stray \in BOOLEAN
          /\ request = Dialog!None
      BY <1>2 DEF Dialog!Unused
    <3>. QED
      BY <3>1, <3>2 DEF Dialog!TypeOK
  <2>2. ClockInv /\ PendingInv
    BY <1>2 DEF Dialog!Unused, ClockInv, PendingInv, IsRequest, Dialog!Waiting
  <2>. QED
    BY <2>1, <2>2 DEF DialogInv
<1>. QED
  BY <1>1, <1>2 DEF Init

LEMMA DialogSteps == [Next]_vars => [Dialog!Next]_dialogVars
BY DEF Next, vars

\* The timer finds a pending apply whose device can be reached only in the
\* time a confirm takes, counted from the hold-off and from the last outage.
LEMMA TimerStep ==
  ASSUME DialogInv, [Dialog!Next]_dialogVars,
         server = "pending", server' = "rolledback", dialog = "confirming",
         now >= deadline - RollbackTime + Holdoff + Dialog!Grace, link # "down"
  PROVE  now < upSince + Dialog!Grace
<1>. SUFFICES ASSUME ~(now < upSince + Dialog!Grace) PROVE FALSE
  OBVIOUS
<1>1. /\ now \in Nat /\ upSince \in Nat /\ next \in Nat /\ deadline \in Nat
      /\ IsRequest => request.at \in Nat /\ request.since \in Nat
      /\ link = "up" /\ Dialog!Grace = Timeout + Delay
  BY Times, UnderWay DEF DialogInv, Dialog!TypeOK, Dialog!Grace
<1>2. /\ now >= upSince + Timeout + Delay
      /\ deadline + Holdoff = next + RollbackTime
  BY <1>1, Times DEF DialogInv, ClockInv
<1>3. now >= next + Timeout + Delay
  BY <1>1, <1>2, Times
<1>4. IsRequest
  BY <1>1, <1>3, Times DEF DialogInv, ClockInv
<1>5. request.leg = "sent" /\ (request.at = next \/ request.at <= upSince + Delay)
  BY <1>1, <1>4 DEF DialogInv, PendingInv
<1>6. request.since = request.at
  BY <1>4, <1>5 DEF DialogInv, ClockInv, IsRequest, Dialog!Waiting
<1>7. now <= request.at + Delay \/ now <= upSince + Delay
  BY <1>1, <1>4, <1>6 DEF DialogInv, ClockInv
<1>. QED
  BY <1>1, <1>2, <1>3, <1>4, <1>5, <1>7, Times

\* A device the browser can reach is not rolled back: when the timer fires on
\* an apply that the browser has not confirmed, the link was down or has only
\* just come back, for any times of which a time-out is the longest way there
\* and back, and any number of outages.
THEOREM ReachableDevicesAreKept == FairSpec => ReachableIsKept
<1>1. DialogInv /\ [Next]_vars => DialogInv'
  BY DialogSteps, DialogStep
<1>2. DialogInv /\ [Next]_vars
        => [server = "pending" /\ server' = "rolledback" /\ dialog = "confirming"
            /\ now >= deadline - RollbackTime + Holdoff + Dialog!Grace
              => link = "down" \/ now < upSince + Dialog!Grace]_Dialog!vars
  BY DialogSteps, TimerStep
<1>. QED
  BY <1>1, <1>2, DialogStart, PTL DEF FairSpec, ReachableIsKept, Dialog!ReachableIsKept

-----------------------------------------------------------------------------
(* The checked apply on a link that has not failed.                        *)

\* The stages of the apply, with what was sent when.  The first confirm is on
\* its way at the end of the hold-off, and handled before the timer goes off.
GoodInv ==
  outages = 0 =>
    /\ link = "up" /\ upSince = 0 /\ ~stray
    /\ \/ /\ dialog = "starting" /\ Dialog!Waiting("sent") /\ server = "clean"
       \/ /\ dialog = "starting" /\ Dialog!Waiting("answered") /\ server = "pending"
          /\ expiry = request.since + RollbackTime
       \/ /\ dialog = "confirming" /\ ~IsRequest /\ server = "pending"
          /\ next + RollbackTime <= expiry + Holdoff + Delay
       \/ /\ dialog = "confirming" /\ Dialog!Waiting("sent") /\ server = "pending"
          /\ request.at = next
          /\ next + RollbackTime <= expiry + Holdoff + Delay
       \/ /\ dialog = "confirming" /\ Dialog!Waiting("answered") /\ server = "kept"
          /\ request.at = next /\ request.since <= next + Delay
       \/ /\ dialog = "applied" /\ ~IsRequest /\ server = "kept"

\* While the hold-off and a confirm together are shorter than the time the
\* device waits, neither a time-out nor the timer comes first.
LEMMA GoodTimes ==
  ASSUME Holdoff + 2 * Delay < RollbackTime, DialogInv, GoodInv, outages = 0
  PROVE  /\ ~Dialog!TimerFires
         /\ IsRequest => ~Dialog!Fails
         /\ dialog = "confirming" => now < deadline
         /\ dialog = "starting" => now <= request.since + Delay
         /\ dialog = "confirming" /\ Dialog!Waiting("sent") => now <= next + Delay
<1>1. /\ {now, next, deadline, expiry} \subseteq Nat /\ link = "up" /\ upSince = 0
      /\ IsRequest => request.at \in Nat /\ request.since \in Nat
      /\ Dialog!Waiting("sent") \/ Dialog!Waiting("answered") => IsRequest
  BY Times, UnderWay DEF DialogInv, Dialog!TypeOK, GoodInv, Dialog!Waiting, IsRequest
<1>2. /\ IsRequest => now <= request.since + Delay
      /\ Dialog!Waiting("sent") => request.since = request.at
      /\ dialog = "confirming" => deadline + Holdoff = next + RollbackTime
      /\ dialog = "confirming" /\ ~IsRequest => now <= next
  BY <1>1, Times DEF DialogInv, ClockInv
<1>3. CASE dialog = "starting"
  <2>1. IsRequest /\ request.kind = "apply"
    BY <1>1, <1>3 DEF DialogInv, ClockInv, GoodInv
  <2>2. server = "pending" => now < expiry
    BY <1>1, <1>2, <1>3, <2>1, Times DEF GoodInv
  <2>. QED
    BY <1>1, <1>2, <1>3, <2>1, <2>2 DEF Dialog!TimerFires, Dialog!Fails
<1>4. CASE dialog = "confirming"
  <2>1. now <= next + 2 * Delay /\ (IsRequest => request.at = next)
    BY <1>1, <1>2, <1>4, Times DEF GoodInv
  <2>2. server = "pending" => now <= next + Delay /\ next + RollbackTime <= expiry + Holdoff + Delay
    BY <1>1, <1>2, <1>4, Times DEF GoodInv
  <2>3. now < deadline
    BY <1>1, <1>2, <1>4, <2>1, Times
  <2>4. server = "pending" => now < expiry
    BY <1>1, <2>2, Times
  <2>5. IsRequest => now < request.at + Timeout
    BY <1>1, <2>1, Times
  <2>6. ~Dialog!TimerFires
    BY <1>1, <2>4 DEF Dialog!TimerFires
  <2>7. IsRequest => ~Dialog!Fails
    BY <1>1, <2>5, Times DEF Dialog!Fails
  <2>8. Dialog!Waiting("sent") => now <= next + Delay
    BY <1>1, <1>2, <2>1
  <2>. QED
    BY <1>4, <2>3, <2>6, <2>7, <2>8
<1>5. CASE dialog = "applied"
  BY <1>1, <1>5 DEF GoodInv, Dialog!TimerFires
<1>. QED
  BY <1>3, <1>4, <1>5 DEF GoodInv

LEMMA GoodStep ==
  ASSUME Holdoff + 2 * Delay < RollbackTime, DialogInv, GoodInv, [Dialog!Next]_dialogVars
  PROVE  GoodInv'
<1>. SUFFICES ASSUME outages' = 0 PROVE GoodInv'
  BY DEF GoodInv
<1>0. outages = 0 /\ ~Dialog!Drop
  <2>1. outages \in Nat
    BY Times DEF DialogInv, Dialog!TypeOK
  <2>2. Dialog!Drop => outages' = outages + 1
    BY DEF Dialog!Drop
  <2>3. UNCHANGED outages \/ Dialog!Drop
    BY DEF Dialog!Next, Dialog!Server, Dialog!Browser, dialogVars, Dialog!HandleApply,
      Dialog!HandleConfirm, Dialog!HandleStray, Dialog!HandleQuery, Dialog!TimerFires,
      Dialog!ApplyReply, Dialog!ConfirmCall, Dialog!QueryReply, Dialog!Unhandled,
      Dialog!Restore, Dialog!Tick, Dialog!linkVars
  <2>. QED
    BY <2>1, <2>2, <2>3
<1>1. /\ {now, next, deadline, expiry} \subseteq Nat
      /\ link = "up" /\ upSince = 0 /\ ~stray
      /\ IsRequest => request.at \in Nat /\ request.since \in Nat
      /\ Dialog!Waiting("sent") \/ Dialog!Waiting("answered") => IsRequest
      /\ Dialog!Waiting("sent") <=> request \in Requests
      /\ now \in Dialog!Time
  BY <1>0, Times, UnderWay DEF DialogInv, Dialog!TypeOK, GoodInv, Dialog!Waiting, IsRequest
<1>2. /\ ~Dialog!TimerFires /\ (IsRequest => ~Dialog!Fails)
      /\ dialog = "confirming" => now < deadline
      /\ dialog = "starting" => now <= request.since + Delay
      /\ dialog = "confirming" /\ Dialog!Waiting("sent") => now <= next + Delay
  BY <1>0, GoodTimes
<1>3. /\ dialog = "starting" /\ IsRequest => request.kind = "apply"
      /\ dialog = "confirming" /\ IsRequest => request.kind = "confirm"
      /\ dialog = "confirming" /\ ~IsRequest => now <= next
  BY DEF DialogInv, ClockInv
<1>4. CASE Dialog!HandleApply \/ Dialog!HandleConfirm
  <2>1. Dialog!Waiting("sent") /\ request \in Requests
    BY <1>1, <1>4 DEF Dialog!HandleApply, Dialog!HandleConfirm
  <2>2. PICK status \in Dialog!Statuses : request' = Dialog!Answered(request, status)
    BY <1>4 DEF Dialog!HandleApply, Dialog!HandleConfirm, Dialog!ConfirmStatus, Dialog!Statuses
  <2>3. /\ request' \in Answers /\ request'.leg = "answered"
        /\ request'.at = request.at /\ request'.since = now
    BY <1>1, <2>1, <2>2, RequestFacts
  <2>4. Dialog!Waiting("answered")'
    BY <2>3, Fields DEF Dialog!Waiting
  <2>5. UNCHANGED <<link, upSince, dialog, next, stray>>
    BY <1>4 DEF Dialog!HandleApply, Dialog!HandleConfirm, Dialog!linkVars
  <2>6. CASE Dialog!HandleApply
    <3>1. /\ server' = "pending" /\ expiry' = now + RollbackTime /\ request.kind = "apply"
      BY <2>6 DEF Dialog!HandleApply
    <3>2. dialog = "starting"
      BY <1>0, <1>1, <1>3, <2>1, <3>1 DEF GoodInv
    <3>. QED
      BY <1>1, <2>3, <2>4, <2>5, <3>1, <3>2 DEF GoodInv
  <2>7. CASE Dialog!HandleConfirm
    <3>1. /\ request.kind = "confirm"
          /\ server' = (IF server = "pending" THEN "kept" ELSE server)
      BY <2>7 DEF Dialog!HandleConfirm
    <3>2. dialog = "confirming" /\ server = "pending" /\ request.at = next
      <4>1. request.leg = "sent"
        BY <2>1 DEF Dialog!Waiting
      <4>. QED
        BY <1>0, <1>1, <1>3, <2>1, <3>1, <4>1 DEF GoodInv, Dialog!Waiting
    <3>3. now <= next + Delay
      BY <1>2, <2>1, <3>2
    <3>. QED
      BY <1>1, <2>3, <2>4, <2>5, <3>1, <3>2, <3>3 DEF GoodInv
  <2>. QED
    BY <1>4, <2>6, <2>7
<1>5. CASE Dialog!ApplyReply
  <2>1. /\ Dialog!Waiting("answered") /\ request.kind = "apply"
        /\ dialog' = "confirming" /\ next' = now + Holdoff /\ request' = Dialog!None
        /\ UNCHANGED <<link, upSince, server, expiry, stray>>
    BY <1>5 DEF Dialog!ApplyReply, Dialog!linkVars, Dialog!serverVars
  <2>2. dialog = "starting" /\ server = "pending" /\ expiry = request.since + RollbackTime
    <3>1. request.leg = "answered"
      BY <2>1 DEF Dialog!Waiting
    <3>. QED
      BY <1>0, <1>1, <1>3, <2>1, <3>1 DEF GoodInv, Dialog!Waiting
  <2>3. next' + RollbackTime <= expiry + Holdoff + Delay
    BY <1>1, <1>2, <2>1, <2>2, Times
  <2>. QED
    BY <1>1, <2>1, <2>2, <2>3 DEF GoodInv, IsRequest
<1>6. CASE Dialog!ConfirmCall
  <2>1. /\ dialog = "confirming"
        /\ UNCHANGED <<link, upSince, server, expiry, next>>
        /\ ~Dialog!Waiting("sent") => ~stray'
    <3>1. stray' = (stray \/ Dialog!Waiting("sent"))
      BY <1>6 DEF Dialog!ConfirmCall
    <3>. QED
      BY <1>1, <1>6, <3>1 DEF Dialog!ConfirmCall, Dialog!linkVars, Dialog!serverVars
  <2>2. CASE Dialog!Waiting("answered")
    <3>1. request.leg = "answered" /\ ~Dialog!Waiting("sent") /\ IsRequest
      BY <1>1, <2>2 DEF Dialog!Waiting
    <3>2. server = "kept"
      BY <1>0, <2>1, <3>1 DEF GoodInv
    <3>3. dialog' = "applied" /\ request' = Dialog!None
      BY <1>1, <1>2, <1>6, <2>1, <2>2 DEF Dialog!ConfirmCall
    <3>. QED
      BY <1>1, <2>1, <3>1, <3>2, <3>3 DEF GoodInv, IsRequest
  <2>3. CASE ~Dialog!Waiting("answered")
    <3>1. ~IsRequest /\ now >= next
      BY <1>2, <1>6, <2>3 DEF Dialog!ConfirmCall, IsRequest
    <3>2. request' = Dialog!Sent("confirm") /\ dialog' = "confirming"
      BY <1>1, <1>2, <1>6, <2>1, <2>3 DEF Dialog!ConfirmCall
    <3>3. /\ request' \in Requests /\ request'.leg = "sent" /\ request'.at = now
      BY <1>1, <3>2, RequestFacts DEF Dialog!Kinds
    <3>4. Dialog!Waiting("sent")' /\ now = next
      BY <1>1, <1>3, <2>1, <3>1, <3>3, Fields DEF Dialog!Waiting
    <3>5. server = "pending" /\ next + RollbackTime <= expiry + Holdoff + Delay
      BY <1>0, <1>1, <2>1, <3>1 DEF GoodInv
    <3>6. ~Dialog!Waiting("sent")
      BY <3>1 DEF Dialog!Waiting, IsRequest
    <3>. QED
      BY <1>1, <2>1, <3>2, <3>3, <3>4, <3>5, <3>6 DEF GoodInv
  <2>. QED
    BY <2>2, <2>3
<1>7. CASE Dialog!HandleQuery \/ Dialog!QueryReply \/ Dialog!Unhandled
  <2>1. dialog # "waiting" /\ (Dialog!Waiting("sent") => request.kind # "query")
    BY <1>0, <1>1, <1>3 DEF GoodInv, Dialog!Waiting
  <2>2. ~Dialog!Unhandled
    BY <1>2 DEF Dialog!Unhandled, IsRequest
  <2>. QED
    BY <1>7, <2>1, <2>2 DEF Dialog!HandleQuery, Dialog!QueryReply
<1>8. CASE Dialog!HandleStray
  BY <1>0, <1>8 DEF Dialog!HandleStray, GoodInv
<1>9. CASE Dialog!Restore
  BY <1>1, <1>9 DEF Dialog!Restore
<1>a. CASE Dialog!Tick \/ UNCHANGED dialogVars
  <2>1. UNCHANGED <<link, upSince, server, expiry, dialog, next, request, stray>>
    BY <1>a DEF Dialog!Tick, dialogVars, Dialog!linkVars, Dialog!serverVars, Dialog!browserVars
  <2>. QED
    BY <1>0, <2>1 DEF GoodInv, IsRequest, Dialog!Waiting
<1>. QED
  BY <1>0, <1>2, <1>4, <1>5, <1>6, <1>7, <1>8, <1>9, <1>a
  DEF Dialog!Next, Dialog!Server, Dialog!Browser

LEMMA GoodStart == Init => GoodInv
<1>1. ASSUME Dialog!Init
      PROVE  GoodInv
  <2>1. now \in Dialog!Time /\ "apply" \in Dialog!Kinds
    BY <1>1, Times DEF Dialog!Kinds, Dialog!Init
  <2>2. request \in Requests /\ request.leg = "sent"
    BY <1>1, <2>1, RequestFacts DEF Dialog!Init
  <2>3. Dialog!Waiting("sent")
    BY <2>2, Fields DEF Dialog!Waiting
  <2>. QED
    BY <1>1, <2>3 DEF Dialog!Init, GoodInv
<1>2. Dialog!Unused => GoodInv
  BY DEF Dialog!Unused, GoodInv, IsRequest
<1>. QED
  BY <1>1, <1>2 DEF Init

\* On a link that does not fail "Configuration changes applied." is not shown
\* before the server has kept the configuration, nor "rolled back" at all,
\* whatever the times, if the hold-off and two messages are shorter than the
\* time the device waits (4 and 90 seconds are the defaults).  If they are not,
\* the confirm comes when the timer has gone off, and is answered all the same.
THEOREM GoodLinksTellTheTruth ==
  Holdoff + 2 * Delay < RollbackTime => (FairSpec => []GoodLinkTellsTheTruth)
<1>. SUFFICES ASSUME Holdoff + 2 * Delay < RollbackTime
              PROVE  FairSpec => []GoodLinkTellsTheTruth
  OBVIOUS
<1>1. DialogInv /\ GoodInv /\ [Next]_vars => (DialogInv /\ GoodInv)'
  BY DialogSteps, DialogStep, GoodStep
<1>2. DialogInv /\ GoodInv => GoodLinkTellsTheTruth
  BY DEF DialogInv, GoodInv, GoodLinkTellsTheTruth, Dialog!GoodLinkTellsTheTruth
<1>. QED
  BY <1>1, <1>2, DialogStart, GoodStart, PTL DEF FairSpec

-----------------------------------------------------------------------------
(* The readers of replies: HttpBody.                                       *)

\* Sequence s lies in w, behind k of its elements.
Lies(s, w, k) ==
  k \in Nat /\ k + Len(s) <= Len(w) /\ \A i \in 1 .. Len(s) : s[i] = w[k + i]

\* Sequence s is the elements of w from k + 1 to k + n.
Cutting(s, w, k, n) == Len(s) = n /\ \A i \in 1 .. n : s[i] = w[k + i]

LEMMA Beginning ==
  ASSUME NEW S, NEW s \in Seq(S), NEW n \in 0 .. Len(s)
  PROVE  SubSeq(s, 1, n) \in Seq(S) /\ Cutting(SubSeq(s, 1, n), s, 0, n)
BY DEF Cutting

LEMMA Middle ==
  ASSUME NEW S, NEW s \in Seq(S), NEW a \in 0 .. Len(s), NEW b \in a .. Len(s)
  PROVE  SubSeq(s, a + 1, b) \in Seq(S) /\ Cutting(SubSeq(s, a + 1, b), s, a, b - a)
BY DEF Cutting

LEMMA Remainder ==
  ASSUME NEW S, NEW s \in Seq(S), NEW n \in 0 .. Len(s)
  PROVE  Reading!Drop(s, n) \in Seq(S) /\ Cutting(Reading!Drop(s, n), s, n, Len(s) - n)
BY DEF Cutting, Reading!Drop

LEMMA Concatenation ==
  ASSUME NEW S, NEW s \in Seq(S), NEW t \in Seq(S)
  PROVE  /\ s \o t \in Seq(S) /\ Len(s \o t) = Len(s) + Len(t)
         /\ Lies(s, s \o t, 0) /\ Lies(t, s \o t, Len(s))
BY DEF Lies

\* What lies in what lies in a sequence, lies in it.
LEMMA CuttingLies ==
  ASSUME NEW S, NEW s \in Seq(S), NEW t \in Seq(S), NEW w \in Seq(S), NEW k, NEW j \in Nat, NEW n \in Nat,
         Lies(s, w, k), j + n <= Len(s), Cutting(t, s, j, n)
  PROVE  Lies(t, w, k + j)
<1>1. k \in Nat /\ k + Len(s) <= Len(w) /\ Len(t) = n
  BY DEF Lies, Cutting
<1>2. ASSUME NEW i \in 1 .. n  PROVE t[i] = w[(k + j) + i]
  <2>1. j + i \in 1 .. Len(s) /\ k + (j + i) = (k + j) + i
    BY <1>1
  <2>2. t[i] = s[j + i]
    BY DEF Cutting
  <2>3. s[j + i] = w[k + (j + i)]
    BY <2>1 DEF Lies
  <2>. QED  BY <2>1, <2>2, <2>3
<1>3. k + j \in Nat /\ (k + j) + n <= Len(w)
  BY <1>1
<1>. QED  BY <1>1, <1>2, <1>3 DEF Lies

LEMMA LiesThrough ==
  ASSUME NEW S, NEW s \in Seq(S), NEW t \in Seq(S), NEW w \in Seq(S), NEW k \in Nat, NEW j \in Nat,
         Lies(t, w, k), Len(t) = Len(w) - k, Lies(s, w, k + j)
  PROVE  Lies(s, t, j)
<1>1. /\ Len(s) \in Nat /\ Len(t) \in Nat /\ Len(w) \in Nat
      /\ (k + j) + Len(s) <= Len(w) /\ \A i \in 1 .. Len(s) : s[i] = w[(k + j) + i]
      /\ \A i \in 1 .. Len(t) : t[i] = w[k + i]
  BY DEF Lies
<1>2. j + Len(s) <= Len(t)
  BY <1>1
<1>3. ASSUME NEW i \in 1 .. Len(s)  PROVE s[i] = t[j + i]
  <2>1. j + i \in 1 .. Len(t) /\ k + (j + i) = (k + j) + i
    BY <1>1, <1>2
  <2>. QED  BY <1>1, <2>1
<1>. QED  BY <1>2, <1>3 DEF Lies

LEMMA LiesTogether ==
  ASSUME NEW S, NEW s \in Seq(S), NEW t \in Seq(S), NEW w \in Seq(S), NEW k \in Nat,
         Lies(s, w, k), Lies(t, w, k + Len(s))
  PROVE  Lies(s \o t, w, k)
<1>1. /\ s \o t \in Seq(S) /\ Len(s \o t) = Len(s) + Len(t)
      /\ \A i \in 1 .. Len(s) : (s \o t)[i] = s[i]
      /\ \A i \in 1 .. Len(t) : (s \o t)[Len(s) + i] = t[i]
  BY Concatenation DEF Lies
<1>2. ASSUME NEW i \in 1 .. Len(s) + Len(t)  PROVE (s \o t)[i] = w[k + i]
  <2>1. CASE i <= Len(s)
    BY <1>1, <2>1 DEF Lies
  <2>2. CASE i > Len(s)
    <3>1. i - Len(s) \in 1 .. Len(t) /\ Len(s) + (i - Len(s)) = i /\ k + Len(s) + (i - Len(s)) = k + i
      BY <2>2
    <3>. QED  BY <1>1, <3>1 DEF Lies
  <2>. QED  BY <2>1, <2>2
<1>. QED  BY <1>1, <1>2 DEF Lies

LEMMA LiesWholly ==
  ASSUME NEW S, NEW s \in Seq(S), NEW w \in Seq(S), Lies(s, w, 0), Len(s) = Len(w)
  PROVE  s = w
BY DEF Lies

\* A longer beginning of w is what may be delivered after a shorter one.
LEMMA Delivered ==
  ASSUME NEW S, NEW s \in Seq(S), NEW t \in Seq(S), NEW w \in Seq(S),
         Lies(s, w, 0), Lies(t, w, 0), Len(s) <= Len(t)
  PROVE  s = t \/ (t \in Reading!Promise!Prefixes(w) /\ Reading!Promise!IsStrictPrefix(s, t))
<1>1. t = SubSeq(w, 1, Len(t))
  BY DEF Lies
<1>2. SubSeq(s, 1, Len(s)) = SubSeq(t, 1, Len(s))
  BY DEF Lies
<1>3. Len(t) \in 0 .. Len(w)
  BY DEF Lies
<1>4. t \in Reading!Promise!Prefixes(w)
  BY <1>1, <1>3 DEF Reading!Promise!Prefixes
<1>. QED  BY <1>2, <1>4 DEF Reading!Promise!IsStrictPrefix, Reading!Promise!IsPrefix

\* What a reply consists of.
Symbols ==
  {Reading!Body[i] : i \in DOMAIN Reading!Body} \cup {Reading!Encoded[i] : i \in DOMAIN Reading!Encoded}
    \cup {"status", "te", "cr", "lf"}

\* What the server sends behind the header, and with it.
Sent(chunked) ==
  IF reader # "file" THEN (IF chunked THEN Reading!Encoded ELSE Reading!Body)
  ELSE IF code = 200 THEN Reading!Body
  ELSE IF code = 206 THEN Reading!Drop(Reading!Body, off)
  ELSE <<>>
Whole(chunked) == Reading!Header(chunked) \o Sent(chunked)

\* What has been received and what is on its way is w from its k-th symbol on.
Arriving(w, k) ==
  /\ Lies(buffer, w, k) /\ Lies(rest, w, k + Len(buffer))
  /\ ~truncated => k + Len(buffer) + Len(rest) = Len(w)

\* While a reply is read.
FlowTypes ==
  /\ reader \in {"forward", "buffer", "file"} /\ reply \in Replies
  /\ open \in BOOLEAN /\ te \in BOOLEAN /\ truncated \in BOOLEAN /\ leaked \in BOOLEAN /\ claimed \in BOOLEAN
  /\ buffer \in Seq(Symbols) /\ rest \in Seq(Symbols) /\ out \in Seq(Symbols)
  /\ off \in 0 .. Len(Reading!Body) /\ code \in {200, 206, 416} /\ attempts \in 0 .. MaxAttempts
  /\ phase \in {"idle", "status", "headers", "flush", "source", "block", "chunk", "done", "failed"}
  /\ open \/ rest = <<>>
  /\ truncated => ~open
  /\ IF reader = "file" THEN ~te ELSE phase # "idle" /\ off = 0 /\ code = 200
  /\ phase = "idle" => ~open

\* What has been passed on is a beginning of the body, and the body when that
\* has been claimed.
Passed ==
  /\ leaked \/ Lies(out, Reading!Body, 0)
  /\ claimed => ~leaked /\ out = Reading!Body

\* Nothing of this reply has been passed on.
Unpassed == IF reader = "file" THEN off = Len(out) ELSE out = <<>> /\ ~claimed

\* In the header: zero, three or six symbols of the reply have been used.
HeaderInv ==
  phase \in {"status", "headers"} =>
    /\ ~leaked /\ Unpassed
    /\ reader = "forward" => Len(buffer) <= Limit
    /\ \E chunked \in BOOLEAN, k \in {0, 3, 6} :
         /\ Arriving(Whole(chunked), k)
         /\ reader = "file" => ~chunked
         /\ phase = "status" <=> k = 0
         /\ te <=> k = 6
         /\ te => chunked

\* Behind the header: the buffer begins with what was sent as the body.
SourceInv ==
  phase \in {"flush", "source"} /\ ~leaked =>
    /\ Unpassed /\ Arriving(Sent(te), 0)
    /\ phase = "source" /\ reader # "forward" => ~open

\* In a plain body: what is passed on next follows what has been passed on.
BlockInv ==
  phase = "block" /\ ~leaked =>
    /\ Lies(rest, Reading!Body, Len(out))
    /\ ~truncated => Len(out) + Len(rest) = Len(Reading!Body)

\* In a chunked body: the buffer begins with a whole chunk, the one that comes
\* next, or the reply has broken off.
ChunkInv ==
  phase = "chunk" /\ ~leaked =>
    /\ reader # "file" /\ (reader # "forward" => ~open)
    /\ \/ buffer = <<>> /\ rest = <<>>
       \/ \E i \in 1 .. Len(reply.cuts) - 1 :
            /\ Len(out) = Reading!Cut(i)
            /\ Lies(buffer, Reading!Encoded, Reading!Start(i))
            /\ Lies(rest, Reading!Encoded, Reading!Start(i) + Len(buffer))

\* A forwarder that has run out of a header block goes on with what is not a
\* chunk, on a connection that is closed.
LeakInv ==
  leaked =>
    /\ reader = "forward" /\ truncated /\ ~claimed
    /\ phase \in {"flush", "source", "block", "chunk", "done", "failed"}
    /\ phase \in {"flush", "source", "chunk"} => buffer = <<>> \/ buffer[1] \notin Reading!Digits

FlowInv == FlowTypes /\ Passed /\ HeaderInv /\ SourceInv /\ BlockInv /\ ChunkInv /\ LeakInv
ReadInv == Reading!Unused \/ FlowInv

LEMMA ReadSteps == [Next]_vars => [Reading!Next]_readingVars
BY DEF Next, vars

LEMMA CutsAre ==
  ASSUME reply \in Replies, NEW last, last = Len(reply.cuts)
  PROVE  /\ last \in Nat /\ last > 1
         /\ \A i \in 1 .. last : Reading!Cut(i) \in 0 .. Len(Reading!Body)
         /\ Reading!Cut(1) = 0 /\ Reading!Cut(last - 1) = Len(Reading!Body) /\ Reading!Cut(last) = Len(Reading!Body)
         /\ \A i, j \in 1 .. last - 1 : i < j => Reading!Cut(i) < Reading!Cut(j)
         /\ \A i \in 1 .. last - 1 : Reading!Cut(i + 1) - Reading!Cut(i) \in 0 .. 9
         /\ \E S : Reading!Body \in Seq(S)
<1>. DEFINE L == Len(reply.cuts)
            B == Reading!Body
<1>1. /\ B \in Seq(Reading!Range(B)) /\ reply.cuts \in Seq(Nat) /\ L > 1
      /\ Reading!Cut(1) = 0 /\ Reading!Cut(L - 1) = Len(B) /\ Reading!Cut(L) = Len(B)
      /\ \A i, j \in 1 .. L - 1 : i < j => Reading!Cut(i) < Reading!Cut(j)
      /\ \A i \in 1 .. L - 1 : Reading!Cut(i + 1) - Reading!Cut(i) <= 9
  BY ConnectionAssumption DEF Reading!RepliesAssumption, Reading!Cut, Reading!Body
<1>2. L \in Nat /\ \A i \in 1 .. L : Reading!Cut(i) \in Nat
  BY <1>1 DEF Reading!Cut
<1>3. Len(B) \in Nat
  BY <1>1
<1>. HIDE DEF L, B
<1>4. ASSUME NEW i \in 1 .. L  PROVE Reading!Cut(i) <= Len(B)
  <2>1. i = L \/ i = L - 1 \/ (i \in 1 .. L - 1 /\ L - 1 \in 1 .. L - 1 /\ i < L - 1)
    BY <1>2
  <2>. QED  BY <1>1, <1>2, <1>3, <2>1
<1>5. ASSUME NEW i \in 1 .. L - 1  PROVE Reading!Cut(i + 1) - Reading!Cut(i) \in 0 .. 9
  <2>1. i + 1 \in 1 .. L /\ i \in 1 .. L /\ (i = L - 1 \/ (i + 1 \in 1 .. L - 1 /\ i < i + 1))
    BY <1>2
  <2>2. Reading!Cut(i + 1) \in Nat /\ Reading!Cut(i) \in Nat /\ Reading!Cut(i + 1) - Reading!Cut(i) <= 9
    BY <1>1, <1>2, <2>1
  <2>3. Reading!Cut(i) <= Reading!Cut(i + 1)
    <3>1. CASE i = L - 1
      BY <1>1, <1>2, <3>1
    <3>2. CASE i + 1 \in 1 .. L - 1 /\ i < i + 1
      BY <1>1, <2>2, <3>2
    <3>. QED  BY <2>1, <3>1, <3>2
  <2>. QED  BY <2>2, <2>3
<1>6. last = L
  BY DEF L
<1>. QED  BY <1>1, <1>2, <1>3, <1>4, <1>5, <1>6 DEF B

LEMMA StartsAre ==
  ASSUME reply \in Replies, NEW last, last = Len(reply.cuts)
  PROVE  /\ \A i \in 1 .. last : Reading!Start(i) \in Nat
         /\ Reading!Start(1) = 0
         /\ \A i \in 1 .. last - 1 :
              Reading!Start(i + 1) = Reading!Start(i) + (Reading!Cut(i + 1) - Reading!Cut(i)) + 5
         /\ \A i, j \in 1 .. last : i < j => Reading!Start(i) < Reading!Start(j)
<1>. DEFINE B == Reading!Body
<1>1. /\ last \in Nat /\ last > 1
      /\ \A i \in 1 .. last : Reading!Cut(i) \in 0 .. Len(B)
      /\ Reading!Cut(1) = 0 /\ Reading!Cut(last - 1) = Len(B) /\ Reading!Cut(last) = Len(B)
      /\ \A i, j \in 1 .. last - 1 : i < j => Reading!Cut(i) < Reading!Cut(j)
  BY CutsAre
<1>2. \A i \in 1 .. last : Reading!Cut(i) \in Nat
  BY <1>1
<1>. HIDE DEF B
<1>3. \A i \in 1 .. last : Reading!Start(i) \in Nat
  BY <1>1, <1>2 DEF Reading!Start
<1>4. Reading!Start(1) = 0
  BY <1>1 DEF Reading!Start
<1>5. \A i \in 1 .. last - 1 :
        Reading!Start(i + 1) = Reading!Start(i) + (Reading!Cut(i + 1) - Reading!Cut(i)) + 5
  <2>. TAKE i \in 1 .. last - 1
  <2>1. Reading!Cut(i) \in Nat /\ Reading!Cut(i + 1) \in Nat /\ i \in Nat
    <3>1. i \in 1 .. last /\ i + 1 \in 1 .. last
      BY <1>1
    <3>. QED  BY <1>2, <3>1
  <2>. QED  BY <2>1 DEF Reading!Start
<1>6. \A i, j \in 1 .. last : i < j => Reading!Cut(i) <= Reading!Cut(j)
  <2>. TAKE i, j \in 1 .. last
  <2>. HAVE i < j
  <2>1. j = last \/ (i \in 1 .. last - 1 /\ j \in 1 .. last - 1)
    BY <1>1
  <2>2. Reading!Cut(i) \in Nat /\ Reading!Cut(j) \in Nat
    BY <1>2
  <2>3. CASE j = last
    BY <1>1, <2>2, <2>3
  <2>4. CASE i \in 1 .. last - 1 /\ j \in 1 .. last - 1
    BY <1>1, <2>2, <2>4
  <2>. QED  BY <2>1, <2>3, <2>4
<1>7. \A i, j \in 1 .. last : i < j => Reading!Start(i) < Reading!Start(j)
  <2>. TAKE i, j \in 1 .. last
  <2>. HAVE i < j
  <2>1. Reading!Cut(i) \in Nat /\ Reading!Cut(j) \in Nat /\ Reading!Cut(i) <= Reading!Cut(j)
    BY <1>2, <1>6
  <2>. QED  BY <1>1, <2>1 DEF Reading!Start
<1>. QED  BY <1>3, <1>4, <1>5, <1>7

LEMMA ChunkAtIs ==
  ASSUME reply \in Replies, NEW last, last = Len(reply.cuts), NEW i \in 1 .. last - 1, NEW p \in Nat,
         Reading!Start(i) < p, p <= Reading!Start(i + 1)
  PROVE  Reading!ChunkAt(p) = i
<1>1. /\ \A k \in 1 .. last : Reading!Start(k) \in Nat
      /\ \A k, j \in 1 .. last : k < j => Reading!Start(k) < Reading!Start(j)
      /\ last \in Nat
  BY CutsAre, StartsAre
<1>2. ASSUME NEW j \in 1 .. last - 1, Reading!Start(j) < p, p <= Reading!Start(j + 1)  PROVE j = i
  <2>1. i \in 1 .. last /\ i + 1 \in 1 .. last /\ j \in 1 .. last /\ j + 1 \in 1 .. last
    BY <1>1
  <2>2. ~(i + 1 <= j)
    <3>. SUFFICES ASSUME i + 1 <= j  PROVE FALSE
      OBVIOUS
    <3>1. i + 1 = j \/ i + 1 < j
      BY <2>1, <1>1
    <3>2. Reading!Start(i + 1) <= Reading!Start(j)
      BY <1>1, <2>1, <3>1
    <3>. QED  BY <1>1, <1>2, <2>1, <3>2
  <2>3. ~(j + 1 <= i)
    <3>. SUFFICES ASSUME j + 1 <= i  PROVE FALSE
      OBVIOUS
    <3>1. j + 1 = i \/ j + 1 < i
      BY <2>1, <1>1
    <3>2. Reading!Start(j + 1) <= Reading!Start(i)
      BY <1>1, <2>1, <3>1
    <3>. QED  BY <1>1, <1>2, <2>1, <3>2
  <2>. QED  BY ONLY <2>1, <2>2, <2>3, <1>1
<1>. QED  BY <1>2 DEF Reading!ChunkAt

LEMMA ChunkIs ==
  ASSUME NEW S, NEW c \in Seq(S), Len(c) \in 0 .. 9
  PROVE  LET r == Reading!Chunk(c)
         IN  /\ Len(r) = Len(c) + 5
             /\ r[1] = Reading!Hex[Len(c) + 1] /\ r[2] = "cr" /\ r[3] = "lf"
             /\ \A j \in 1 .. Len(c) : r[3 + j] = c[j]
<1>. DEFINE T == S \cup {Reading!Hex[Len(c) + 1], "cr", "lf"}
            a == <<Reading!Hex[Len(c) + 1]>>
            b == a \o Reading!CRLF
            d == b \o c
<1>1. a \in Seq(T) /\ Len(a) = 1 /\ a[1] = Reading!Hex[Len(c) + 1]
  OBVIOUS
<1>2. Reading!CRLF \in Seq(T) /\ Len(Reading!CRLF) = 2 /\ Reading!CRLF[1] = "cr" /\ Reading!CRLF[2] = "lf"
  BY DEF Reading!CRLF
<1>3. c \in Seq(T)
  OBVIOUS
<1>. HIDE DEF T, a
<1>4. b \in Seq(T) /\ Len(b) = 3 /\ b[1] = a[1] /\ b[2] = "cr" /\ b[3] = "lf"
  <2>1. /\ b \in Seq(T) /\ Len(b) = Len(a) + Len(Reading!CRLF)
        /\ Lies(a, b, 0) /\ Lies(Reading!CRLF, b, Len(a))
    BY <1>1, <1>2, Concatenation
  <2>. HIDE DEF b
  <2>. QED  BY <1>1, <1>2, <2>1 DEF Lies
<1>. HIDE DEF b
<1>5. /\ d \in Seq(T) /\ Len(d) = 3 + Len(c) /\ Lies(b, d, 0) /\ Lies(c, d, 3)
  BY <1>3, <1>4, Concatenation
<1>6. Reading!Chunk(c) = d \o Reading!CRLF
  BY DEF Reading!Chunk, a, b
<1>. HIDE DEF d
<1>7. Len(d \o Reading!CRLF) = Len(d) + 2 /\ Lies(d, d \o Reading!CRLF, 0)
  <2>1. Reading!CRLF \in Seq(T) /\ d \in Seq(T)
    BY <1>2, <1>5
  <2>2. /\ Len(d \o Reading!CRLF) = Len(d) + Len(Reading!CRLF)
        /\ Lies(d, d \o Reading!CRLF, 0)
    BY ONLY <2>1, Concatenation
  <2>. QED  BY <1>2, <2>2
<1>8. Lies(b, Reading!Chunk(c), 0) /\ Lies(c, Reading!Chunk(c), 3) /\ Len(Reading!Chunk(c)) = Len(c) + 5
  BY <1>4, <1>5, <1>6, <1>7 DEF Lies
<1>. QED  BY <1>1, <1>4, <1>8 DEF Lies

\* The i-th chunk of the framed body.
IsChunk(i, n) ==
  LET at == Reading!Start(i)
  IN  /\ Reading!Encoded[at + 1] = Reading!Hex[n + 1]
      /\ Reading!Encoded[at + 2] = "cr" /\ Reading!Encoded[at + 3] = "lf"
      /\ \A j \in 1 .. n : Reading!Encoded[at + 3 + j] = Reading!Body[Reading!Cut(i) + j]

LEMMA EncodedIs ==
  ASSUME reply \in Replies, NEW last, last = Len(reply.cuts)
  PROVE  /\ Reading!Encoded \in Seq(Symbols) /\ Len(Reading!Encoded) = Reading!Start(last)
         /\ \A i \in 1 .. last - 1 : IsChunk(i, Reading!Cut(i + 1) - Reading!Cut(i))
<1>. DEFINE B == Reading!Body
            E == Reading!Encoded
<1>1. /\ last \in Nat /\ last > 1 /\ \A i \in 1 .. last : Reading!Cut(i) \in 0 .. Len(B)
      /\ \A i \in 1 .. last - 1 : Reading!Cut(i + 1) - Reading!Cut(i) \in 0 .. 9
  BY CutsAre
<1>2. PICK S : B \in Seq(S)
  BY CutsAre
<1>3. /\ \A i \in 1 .. last : Reading!Start(i) \in Nat
      /\ \A i \in 1 .. last - 1 :
           Reading!Start(i + 1) = Reading!Start(i) + (Reading!Cut(i + 1) - Reading!Cut(i)) + 5
      /\ \A i, j \in 1 .. last : i < j => Reading!Start(i) < Reading!Start(j)
  BY StartsAre
<1>4. E \in Seq(Symbols) /\ Len(E) = Reading!Start(last)
  <2>1. Reading!Start(last) \in Nat
    BY <1>1, <1>3
  <2>2. DOMAIN E = 1 .. Reading!Start(last) /\ E = [p \in 1 .. Reading!Start(last) |-> E[p]]
    BY DEF Reading!Encoded
  <2>3. \A p \in 1 .. Reading!Start(last) : E[p] \in Symbols
    BY <2>2 DEF Symbols
  <2>. HIDE DEF E
  <2>. QED  BY <2>1, <2>2, <2>3
<1>5. ASSUME NEW i \in 1 .. last - 1  PROVE IsChunk(i, Reading!Cut(i + 1) - Reading!Cut(i))
  <2>. DEFINE n == Reading!Cut(i + 1) - Reading!Cut(i)
              c == SubSeq(B, Reading!Cut(i) + 1, Reading!Cut(i + 1))
              at == Reading!Start(i)
  <2>1. i \in 1 .. last /\ i + 1 \in 1 .. last /\ (i + 1 = last \/ i + 1 < last)
    BY <1>1
  <2>2. /\ n \in 0 .. 9 /\ at \in Nat /\ Reading!Start(i + 1) = at + n + 5
        /\ Reading!Start(i + 1) <= Reading!Start(last)
        /\ Reading!Start(last) \in Nat /\ Reading!Start(i + 1) \in Nat
    <3>1. n \in 0 .. 9
      BY <1>1
    <3>2. at \in Nat /\ Reading!Start(i + 1) \in Nat /\ Reading!Start(last) \in Nat
      BY <1>1, <1>3, <2>1
    <3>3. Reading!Start(i + 1) = at + n + 5
      BY <1>3
    <3>4. Reading!Start(i + 1) <= Reading!Start(last)
      <4>1. CASE i + 1 = last
        BY <3>2, <4>1
      <4>2. CASE i + 1 < last
        <5>1. Reading!Start(i + 1) < Reading!Start(last)
          BY <1>1, <1>3, <2>1, <4>2
        <5>. QED  BY <3>2, <5>1
      <4>. QED  BY <2>1, <4>1, <4>2
    <3>. QED  BY <3>1, <3>2, <3>3, <3>4
  <2>3. Reading!Cut(i) \in 0 .. Len(B) /\ Reading!Cut(i + 1) \in 0 .. Len(B)
    BY <1>1, <2>1
  <2>4. c \in Seq(S) /\ Len(c) = n /\ \A j \in 1 .. n : c[j] = B[Reading!Cut(i) + j]
    <3>1. Reading!Cut(i) \in 0 .. Len(B) /\ Reading!Cut(i + 1) \in Reading!Cut(i) .. Len(B)
      <4>1. PICK x : x = Reading!Cut(i)
        OBVIOUS
      <4>2. PICK y : y = Reading!Cut(i + 1)
        OBVIOUS
      <4>3. PICK m : m = Len(B)
        OBVIOUS
      <4>4. m \in Nat /\ y - x \in 0 .. 9 /\ x \in 0 .. m /\ y \in 0 .. m
        BY <1>2, <2>2, <2>3, <4>1, <4>2, <4>3
      <4>5. y \in x .. m
        BY ONLY <4>4
      <4>. QED  BY <2>3, <4>1, <4>2, <4>3, <4>5
    <3>2. c \in Seq(S) /\ Cutting(c, B, Reading!Cut(i), n)
      <4>. HIDE DEF B
      <4>. QED  BY ONLY <1>2, <3>1, Middle
    <3>. QED  BY <3>2 DEF Cutting
  <2>5. \A q \in 1 .. n + 5 : E[at + q] = Reading!Chunk(c)[q]
    <3>. TAKE q \in 1 .. n + 5
    <3>1. PICK p : p = at + q
      OBVIOUS
    <3>2. /\ p \in Nat /\ at < p /\ p <= Reading!Start(i + 1) /\ p - at = q
          /\ p \in 1 .. Reading!Start(last)
      <4>. HIDE DEF n, at
      <4>. QED  BY ONLY <2>2, <3>1, q \in 1 .. n + 5
    <3>3. Reading!ChunkAt(p) = i
      BY <3>2, ChunkAtIs
    <3>4. \A x \in 1 .. Reading!Start(last) :
            LET k == Reading!ChunkAt(x)
            IN  E[x] = Reading!Chunk(SubSeq(B, Reading!Cut(k) + 1, Reading!Cut(k + 1)))[x - Reading!Start(k)]
      BY DEF Reading!Encoded
    <3>5. p \in 1 .. Reading!Start(last) /\ Reading!ChunkAt(p) = i /\ p - Reading!Start(i) = q
      BY <3>2, <3>3
    <3>6. E[p] = Reading!Chunk(c)[q]
      <4>. HIDE DEF E, B
      <4>. QED  BY ONLY <3>4, <3>5
    <3>. QED  BY <3>1, <3>6
  <2>6. LET r == Reading!Chunk(c)
        IN  /\ r[1] = Reading!Hex[n + 1] /\ r[2] = "cr" /\ r[3] = "lf"
            /\ \A j \in 1 .. n : r[3 + j] = c[j]
    BY <2>2, <2>4, ChunkIs
  <2>. HIDE DEF c, n, at, E, B
  <2>7. 1 \in 1 .. n + 5 /\ 2 \in 1 .. n + 5 /\ 3 \in 1 .. n + 5
        /\ \A j \in 1 .. n : 3 + j \in 1 .. n + 5 /\ at + (3 + j) = at + 3 + j
    BY <2>2
  <2>8. E[at + 1] = Reading!Hex[n + 1] /\ E[at + 2] = "cr" /\ E[at + 3] = "lf"
    BY <2>5, <2>6, <2>7
  <2>9. \A j \in 1 .. n : E[at + 3 + j] = B[Reading!Cut(i) + j]
    BY <2>4, <2>5, <2>6, <2>7
  <2>. QED  BY <2>8, <2>9 DEF IsChunk, E, B, n, at
<1>. QED  BY <1>4, <1>5

\* Sequence r is s, of m elements, and then t, of n elements.
Composed(r, s, m, t, n) ==
  /\ Len(r) = m + n
  /\ \A i \in 1 .. m : r[i] = s[i]
  /\ \A i \in 1 .. n : r[m + i] = t[i]

LEMMA Composition ==
  ASSUME NEW S, NEW s \in Seq(S), NEW t \in Seq(S), NEW m, NEW n, m = Len(s), n = Len(t)
  PROVE  s \o t \in Seq(S) /\ Composed(s \o t, s, m, t, n)
BY DEF Composed

\* The header, symbol by symbol.
HeaderSymbols(h, chunked) ==
  /\ Len(h) = IF chunked THEN 8 ELSE 5
  /\ h[1] = "status" /\ h[2] = "cr" /\ h[3] = "lf"
  /\ IF chunked THEN h[4] = "te" /\ h[5] = "cr" /\ h[6] = "lf" /\ h[7] = "cr" /\ h[8] = "lf"
     ELSE h[4] = "cr" /\ h[5] = "lf"

LEMMA HeaderIs ==
  ASSUME NEW S, {"status", "te", "cr", "lf"} \subseteq S, NEW chunked \in BOOLEAN
  PROVE  Reading!Header(chunked) \in Seq(S) /\ HeaderSymbols(Reading!Header(chunked), chunked)
<1>. DEFINE crlf == Reading!CRLF
            a == <<"status">> \o crlf
            e == <<"te">> \o crlf
            c == a \o (IF chunked THEN e ELSE <<>>)
<1>1. crlf \in Seq(S) /\ Len(crlf) = 2 /\ crlf[1] = "cr" /\ crlf[2] = "lf"
  BY DEF Reading!CRLF
<1>2. Reading!Header(chunked) = c \o crlf
  BY DEF Reading!Header
<1>3. <<"status">> \in Seq(S) /\ <<"te">> \in Seq(S)
  OBVIOUS
<1>. HIDE DEF crlf
<1>4. a \in Seq(S) /\ Len(a) = 3 /\ a[1] = "status" /\ a[2] = "cr" /\ a[3] = "lf"
  <2>1. a \in Seq(S) /\ Composed(a, <<"status">>, 1, crlf, 2)
    BY <1>1, <1>3, Composition
  <2>. HIDE DEF a
  <2>. QED  BY <1>1, <2>1 DEF Composed
<1>5. e \in Seq(S) /\ Len(e) = 3 /\ e[1] = "te" /\ e[2] = "cr" /\ e[3] = "lf"
  <2>1. e \in Seq(S) /\ Composed(e, <<"te">>, 1, crlf, 2)
    BY <1>1, <1>3, Composition
  <2>. HIDE DEF e
  <2>. QED  BY <1>1, <2>1 DEF Composed
<1>. HIDE DEF a, e
<1>6. CASE chunked
  <2>1. c = a \o e
    BY <1>6
  <2>. HIDE DEF c
  <2>2. c \in Seq(S) /\ Composed(c, a, 3, e, 3)
    BY <1>4, <1>5, <2>1, Composition
  <2>3. /\ c \in Seq(S) /\ Len(c) = 6 /\ c[1] = "status" /\ c[2] = "cr" /\ c[3] = "lf"
        /\ c[4] = "te" /\ c[5] = "cr" /\ c[6] = "lf"
    BY <1>4, <1>5, <2>2 DEF Composed
  <2>4. Reading!Header(chunked) \in Seq(S) /\ Composed(Reading!Header(chunked), c, 6, crlf, 2)
    <3>1. c \in Seq(S) /\ crlf \in Seq(S) /\ 6 = Len(c) /\ 2 = Len(crlf)
      BY <1>1, <2>3
    <3>2. c \o crlf \in Seq(S) /\ Composed(c \o crlf, c, 6, crlf, 2)
      BY <3>1, Composition, Zenon
    <3>. QED  BY <1>2, <3>2, Zenon
  <2>5. PICK h : h = Reading!Header(chunked)
    OBVIOUS
  <2>6. h[1] = c[1] /\ h[2] = c[2] /\ h[3] = c[3] /\ h[4] = c[4] /\ h[5] = c[5] /\ h[6] = c[6]
    BY <2>4, <2>5 DEF Composed
  <2>7. h[7] = crlf[1] /\ h[8] = crlf[2] /\ Len(h) = 8
    BY <2>4, <2>5 DEF Composed
  <2>8. HeaderSymbols(h, TRUE)
    BY <1>1, <2>3, <2>6, <2>7 DEF HeaderSymbols
  <2>. QED  BY <1>6, <2>4, <2>5, <2>8
<1>7. CASE ~chunked
  <2>1. c = a
    BY <1>4, <1>7
  <2>. HIDE DEF c
  <2>2. Reading!Header(chunked) \in Seq(S) /\ Composed(Reading!Header(chunked), a, 3, crlf, 2)
    <3>1. a \in Seq(S) /\ crlf \in Seq(S) /\ 3 = Len(a) /\ 2 = Len(crlf)
      BY <1>1, <1>4
    <3>2. a \o crlf \in Seq(S) /\ Composed(a \o crlf, a, 3, crlf, 2)
      BY <3>1, Composition, Zenon
    <3>. QED  BY <1>2, <2>1, <3>2, Zenon
  <2>. QED  BY <1>1, <1>4, <1>7, <2>2 DEF Composed, HeaderSymbols
<1>. QED  BY <1>6, <1>7

LEMMA EolIs ==
  ASSUME NEW S, NEW b \in Seq(S), NEW n \in Nat \ {0},
         \A i \in 1 .. n - 1 : i <= Len(b) => b[i] # "lf",
         n <= Len(b) => b[n] = "lf"
  PROVE  Reading!Eol(b) = IF n <= Len(b) THEN n ELSE 0
<1>. DEFINE ends == {i \in DOMAIN b : b[i] = "lf"}
<1>1. CASE n <= Len(b)
  <2>1. n \in ends /\ \A i \in ends : n <= i
    BY <1>1
  <2>2. ends \subseteq Nat
    OBVIOUS
  <2>. HIDE DEF ends
  <2>3. Reading!Min(ends) = n
    <3>1. \A x \in ends : (\A y \in ends : x <= y) => x = n
      BY <2>1, <2>2
    <3>. QED  BY <2>1, <3>1 DEF Reading!Min
  <2>. QED  BY <1>1, <2>1, <2>3 DEF Reading!Eol, ends
<1>2. CASE ~(n <= Len(b))
  <2>1. ends = {}
    BY <1>2
  <2>. QED  BY <1>2, <2>1 DEF Reading!Eol
<1>. QED  BY <1>1, <1>2

LEMMA SentIs ==
  ASSUME FlowTypes
  PROVE  /\ Reading!Body \in Seq(Symbols) /\ Reading!Encoded \in Seq(Symbols)
         /\ \A chunked \in BOOLEAN : Sent(chunked) \in Seq(Symbols)
<1>1. Reading!Encoded \in Seq(Symbols)
  BY EncodedIs DEF FlowTypes
<1>2. Reading!Body \in Seq(Symbols)
  <2>1. \E S : Reading!Body \in Seq(S)
    BY CutsAre DEF FlowTypes
  <2>2. \A i \in DOMAIN Reading!Body : Reading!Body[i] \in Symbols
    BY DEF Symbols
  <2>. QED  BY <2>1, <2>2
<1>3. off \in 0 .. Len(Reading!Body)
  BY DEF FlowTypes
<1>4. Reading!Drop(Reading!Body, off) \in Seq(Symbols)
  BY <1>2, <1>3, Remainder
<1>. QED  BY <1>1, <1>2, <1>4 DEF Sent

HeaderLength(chunked) == IF chunked THEN 8 ELSE 5

LEMMA WholeIs ==
  ASSUME FlowTypes, NEW chunked \in BOOLEAN
  PROVE  LET w == Whole(chunked)
             n == HeaderLength(chunked)
         IN  /\ w \in Seq(Symbols) /\ Len(w) = n + Len(Sent(chunked))
             /\ \A i \in 1 .. n : w[i] = Reading!Header(chunked)[i]
             /\ Lies(Sent(chunked), w, n)
<1>. DEFINE h == Reading!Header(chunked)
            s == Sent(chunked)
<1>1. h \in Seq(Symbols) /\ HeaderSymbols(h, chunked)
  BY HeaderIs DEF Symbols
<1>2. s \in Seq(Symbols)
  BY SentIs
<1>3. Len(h) = HeaderLength(chunked)
  BY <1>1 DEF HeaderSymbols, HeaderLength
<1>. HIDE DEF h, s
<1>4. /\ h \o s \in Seq(Symbols) /\ Len(h \o s) = Len(h) + Len(s)
      /\ Lies(h, h \o s, 0) /\ Lies(s, h \o s, Len(h))
  BY <1>1, <1>2, Concatenation
<1>5. \A i \in 1 .. Len(h) : (h \o s)[i] = h[i]
  BY <1>4, <1>1 DEF Lies
<1>. QED  BY <1>3, <1>4, <1>5 DEF Whole, h, s

\* The length of the line that begins behind k symbols of the reply.
LineLength(chunked, k) == IF k = 0 \/ (k = 3 /\ chunked) THEN 3 ELSE 2

LEMMA LinesAre ==
  ASSUME FlowTypes, NEW chunked \in BOOLEAN, NEW k \in {0, 3, 6}, k = 6 => chunked,
         Lies(buffer, Whole(chunked), k), NEW n, n = LineLength(chunked, k)
  PROVE  /\ k + n <= HeaderLength(chunked)
         /\ Reading!Eol(buffer) = IF n <= Len(buffer) THEN n ELSE 0
         /\ n <= Len(buffer) => /\ Reading!Line = <<>> <=> n = 2
                                /\ Reading!Line = <<"te">> <=> (k = 3 /\ chunked)
         /\ buffer # <<>> => buffer[1] \in {"status", "te", "cr"}
<1>1. buffer \in Seq(Symbols)
  BY DEF FlowTypes
<1>2. HeaderSymbols(Reading!Header(chunked), chunked)
  BY HeaderIs DEF Symbols
<1>3. \A i \in 1 .. HeaderLength(chunked) : Whole(chunked)[i] = Reading!Header(chunked)[i]
  BY WholeIs
<1>4. n \in {2, 3} /\ k + n <= HeaderLength(chunked)
  BY DEF LineLength, HeaderLength
<1>5. \A i \in 1 .. Len(buffer) : buffer[i] = Whole(chunked)[k + i]
  BY DEF Lies
<1>6. /\ n <= Len(buffer) => buffer[n] = "lf"
      /\ 2 <= Len(buffer) /\ n = 3 => buffer[2] = "cr"
      /\ 1 <= Len(buffer) => buffer[1] = IF n = 2 THEN "cr" ELSE IF k = 0 THEN "status" ELSE "te"
  <2>1. k + 1 \in 1 .. HeaderLength(chunked) /\ k + 2 \in 1 .. HeaderLength(chunked)
        /\ k + n \in 1 .. HeaderLength(chunked)
    <3>1. HeaderLength(chunked) \in Nat /\ k \in Nat
      BY DEF HeaderLength
    <3>. QED  BY ONLY <3>1, <1>4
  <2>2. /\ Whole(chunked)[k + n] = "lf" /\ (n = 3 => Whole(chunked)[k + 2] = "cr")
        /\ Whole(chunked)[k + 1] = IF n = 2 THEN "cr" ELSE IF k = 0 THEN "status" ELSE "te"
    BY <1>2, <1>3, <2>1 DEF HeaderSymbols, LineLength, HeaderLength
  <2>3. Len(buffer) \in Nat
    BY <1>1
  <2>. QED  BY <1>4, <1>5, <2>2, <2>3
<1>7. Reading!Eol(buffer) = IF n <= Len(buffer) THEN n ELSE 0
  <2>1. \A i \in 1 .. n - 1 : i <= Len(buffer) => buffer[i] # "lf"
    BY <1>1, <1>4, <1>6
  <2>. QED  BY <1>1, <1>4, <1>6, <2>1, EolIs
<1>8. ASSUME n <= Len(buffer)
      PROVE  /\ Reading!Line = <<>> <=> n = 2
             /\ Reading!Line = <<"te">> <=> (k = 3 /\ chunked)
  <2>1. Reading!Eol(buffer) = n
    BY <1>7, <1>8
  <2>2. CASE n = 2
    <3>1. Reading!Line = SubSeq(buffer, 1, 0)
      BY <1>1, <1>6, <1>8, <2>1, <2>2 DEF Reading!Line
    <3>2. Reading!Line = <<>>
      BY <1>1, <3>1
    <3>. QED  BY <2>2, <3>2 DEF LineLength
  <2>3. CASE n = 3
    <3>1. Reading!Line = SubSeq(buffer, 1, 1)
      BY <1>1, <1>6, <1>8, <2>1, <2>3 DEF Reading!Line
    <3>2. Len(Reading!Line) = 1 /\ Reading!Line[1] = buffer[1]
      BY <1>1, <1>8, <2>3, <3>1
    <3>3. Reading!Line = <<buffer[1]>>
      <4>1. \A s \in Seq(Symbols) : Len(s) = 1 => s = <<s[1]>>
        OBVIOUS
      <4>2. SubSeq(buffer, 1, 1) \in Seq(Symbols)
        BY <1>1, <1>8, <2>3
      <4>. QED  BY <3>1, <3>2, <4>1, <4>2
    <3>4. buffer[1] = IF k = 0 THEN "status" ELSE "te"
      BY <1>6, <1>8, <2>3
    <3>. QED  BY <2>3, <3>2, <3>3, <3>4 DEF LineLength
  <2>. QED  BY <1>4, <2>2, <2>3
<1>9. buffer # <<>> => buffer[1] \in {"status", "te", "cr"}
  BY <1>1, <1>6
<1>. QED  BY <1>4, <1>7, <1>8, <1>9

LEMMA BodyStays ==
  ASSUME reply' = reply
  PROVE  /\ Reading!Body' = Reading!Body /\ Reading!Encoded' = Reading!Encoded /\ Symbols' = Symbols
         /\ \A i : Reading!Cut(i)' = Reading!Cut(i) /\ Reading!Start(i)' = Reading!Start(i)
BY DEF Reading!Body, Reading!Encoded, Symbols, Reading!Cut, Reading!Start, Reading!ChunkAt

LEMMA SentStays ==
  ASSUME UNCHANGED <<reader, reply, code, off>>
  PROVE  \A chunked : Sent(chunked)' = Sent(chunked) /\ Whole(chunked)' = Whole(chunked)
BY BodyStays DEF Sent, Whole

\* What the reader has done in a step, for those who wait for its output.
Moves ==
  /\ reply' = reply
  /\ leaked => leaked'
  /\ leaked' => leaked \/ out = <<>>
  /\ claimed => claimed'
  /\ claimed' => claimed \/ out' = out
  /\ leaked' \/ Len(out) <= Len(out')

\* A step that ByteStream allows.
Passes == [Reading!Promise!Deliver \/ Reading!Promise!Finish]_<<Reading!Body, IF leaked THEN <<>> ELSE out, claimed>>

LEMMA MovesPass ==
  ASSUME FlowTypes, FlowTypes', Passed, Passed', Moves
  PROVE  Passes
<1>1. Reading!Body' = Reading!Body /\ Symbols' = Symbols
  BY BodyStays DEF Moves
<1>2. /\ out \in Seq(Symbols) /\ out' \in Seq(Symbols) /\ Reading!Body \in Seq(Symbols)
      /\ leaked \in BOOLEAN /\ leaked' \in BOOLEAN /\ claimed \in BOOLEAN /\ claimed' \in BOOLEAN
  BY <1>1, SentIs DEF FlowTypes
<1>3. CASE leaked'
  <2>1. (IF leaked THEN <<>> ELSE out) = <<>> /\ ~claimed' /\ ~claimed
    BY <1>3 DEF Moves, Passed
  <2>. QED  BY <1>1, <1>2, <1>3, <2>1 DEF Passes
<1>4. CASE ~leaked'
  <2>1. ~leaked /\ Len(out) <= Len(out')
    BY <1>4 DEF Moves
  <2>2. Lies(out, Reading!Body, 0) /\ Lies(out', Reading!Body, 0)
    BY <1>1, <1>4, <2>1 DEF Passed
  <2>3. CASE claimed
    <3>1. claimed' /\ out = Reading!Body /\ out' = Reading!Body
      BY <1>1, <2>3 DEF Moves, Passed
    <3>. QED  BY <1>1, <1>2, <1>4, <2>1, <2>3, <3>1 DEF Passes
  <2>4. CASE ~claimed /\ claimed'
    <3>1. out' = out /\ out = Reading!Body
      BY <1>1, <2>4 DEF Moves, Passed
    <3>. QED  BY <1>1, <1>4, <2>1, <2>4, <3>1 DEF Passes, Reading!Promise!Finish
  <2>5. CASE ~claimed /\ ~claimed'
    <3>1. \/ out = out'
          \/ out' \in Reading!Promise!Prefixes(Reading!Body) /\ Reading!Promise!IsStrictPrefix(out, out')
      BY <1>2, <2>1, <2>2, Delivered
    <3>2. claimed' = claimed
      BY <1>2, <2>5
    <3>. QED  BY <1>1, <1>4, <2>1, <2>5, <3>1, <3>2 DEF Passes, Reading!Promise!Deliver
  <2>. QED  BY <1>2, <2>3, <2>4, <2>5
<1>. QED  BY <1>3, <1>4

LEMMA UnusedStep == Reading!Unused /\ [Reading!Next]_readingVars => Reading!Unused' /\ Passes
<1>. SUFFICES ASSUME Reading!Unused, [Reading!Next]_readingVars  PROVE Reading!Unused' /\ Passes
  OBVIOUS
<1>1. UNCHANGED readingVars
  BY DEF Reading!Unused, Reading!Next, Reading!Read, Reading!ReadLine, Reading!FillLine, Reading!NoLine,
         Reading!Flush, Reading!Source, Reading!Block, Reading!FillChunk, Reading!NextChunk,
         Reading!LastChunk, Reading!ReadTimesOut, Reading!Killed, Reading!Attempt, Reading!ServerDone,
         Reading!ServerDies, Reading!InHeader
<1>2. Reading!Unused'
  BY <1>1 DEF readingVars, Reading!Unused, Reading!Rest, Reading!NoReply
<1>. QED  BY <1>1, <1>2, BodyStays DEF readingVars, Passes

\* Of what is behind b in w, j symbols of r have been appended to b.
Appends(S, b, r, w, k, j, c, d) ==
  /\ b \in Seq(S) /\ r \in Seq(S) /\ w \in Seq(S) /\ j \in 0 .. Len(r)
  /\ Lies(b, w, k) /\ Lies(r, w, k + Len(b))
  /\ c = b \o SubSeq(r, 1, j) /\ d = Reading!Drop(r, j)
Appended(S, b, r, w, k, j, c, d) ==
  /\ SubSeq(r, 1, j) \in Seq(S) /\ Len(SubSeq(r, 1, j)) = j
  /\ c \in Seq(S) /\ d \in Seq(S)
  /\ Len(c) = Len(b) + j /\ Len(d) = Len(r) - j
  /\ Lies(c, w, k) /\ Lies(d, w, k + Len(c))

LEMMA Arrived ==
  ASSUME NEW S, NEW b, NEW r, NEW w, NEW k, NEW j, NEW c, NEW d, Appends(S, b, r, w, k, j, c, d)
  PROVE  Appended(S, b, r, w, k, j, c, d)
<1>. USE DEF Appends
<1>. DEFINE g == SubSeq(r, 1, j)
<1>1. g \in Seq(S) /\ Cutting(g, r, 0, j)
  BY Beginning
<1>2. d \in Seq(S) /\ Cutting(d, r, j, Len(r) - j)
  BY Remainder
<1>3. k \in Nat /\ Len(b) \in Nat /\ Len(r) \in Nat /\ k + Len(b) \in Nat
  BY DEF Lies
<1>4. Lies(g, w, k + Len(b))
  <2>1. 0 \in Nat /\ j \in Nat /\ 0 + j <= Len(r)
    BY <1>3
  <2>2. Lies(g, w, (k + Len(b)) + 0)
    BY <1>1, <2>1, CuttingLies
  <2>. QED  BY <1>3, <2>2
<1>5. Lies(d, w, (k + Len(b)) + j)
  <2>1. j \in Nat /\ Len(r) - j \in Nat /\ j + (Len(r) - j) <= Len(r)
    BY <1>3
  <2>. QED  BY <1>2, <2>1, CuttingLies
<1>6. Lies(c, w, k) /\ c \in Seq(S) /\ Len(c) = Len(b) + Len(g)
  BY <1>1, <1>3, <1>4, LiesTogether, Concatenation
<1>7. Len(g) = j /\ Len(d) = Len(r) - j
  BY <1>1, <1>2 DEF Cutting
<1>8. k + (Len(b) + j) = (k + Len(b)) + j
  BY <1>3
<1>. QED  BY <1>1, <1>2, <1>5, <1>6, <1>7, <1>8 DEF Appended

LEMMA ReceivedIs ==
  ASSUME FlowTypes, NEW n \in Int, NEW got \in Reading!Received(n)
  PROVE  \E j \in 0 .. Len(rest) :
           /\ got = SubSeq(rest, 1, j) /\ Len(got) = j
           /\ IF open THEN 0 < j /\ j <= n ELSE j = 0
<1>1. rest \in Seq(Symbols) /\ Len(rest) \in Nat
  BY DEF FlowTypes
<1>2. CASE open
  <2>1. PICK j \in 1 .. Reading!Smaller(n, Len(rest)) : got = SubSeq(rest, 1, j)
    BY <1>2 DEF Reading!Received
  <2>2. j \in 0 .. Len(rest) /\ 0 < j /\ j <= n
    BY <1>1 DEF Reading!Smaller
  <2>3. Len(got) = j
    BY <1>1, <2>1, <2>2, Beginning DEF Cutting
  <2>. QED  BY <1>2, <2>1, <2>2, <2>3
<1>3. CASE ~open
  <2>1. got = <<>> /\ rest = <<>>
    BY <1>3 DEF Reading!Received, FlowTypes
  <2>2. SubSeq(rest, 1, 0) = <<>> /\ 0 \in 0 .. Len(rest) /\ Len(got) = 0
    BY <1>1, <2>1
  <2>. QED  BY <1>3, <2>1, <2>2
<1>. QED  BY <1>2, <1>3 DEF FlowTypes

\* The server closes the connection, or is lost.
LEMMA PeerStep ==
  ASSUME FlowInv, Reading!ServerDone \/ Reading!ServerDies
  PROVE  FlowInv' /\ Moves
<1>. USE DEF FlowInv
<1>1. /\ UNCHANGED <<reader, reply, off, code, buffer, phase, te, out, attempts, leaked, claimed>>
      /\ open /\ open' = FALSE /\ rest' = <<>>
      /\ \/ truncated' = truncated /\ rest = <<>>
         \/ truncated' = TRUE
  BY DEF Reading!ServerDone, Reading!ServerDies
<1>2. /\ Reading!Body' = Reading!Body /\ Reading!Encoded' = Reading!Encoded /\ Symbols' = Symbols
      /\ \A i : Reading!Cut(i)' = Reading!Cut(i) /\ Reading!Start(i)' = Reading!Start(i)
      /\ \A chunked : Sent(chunked)' = Sent(chunked) /\ Whole(chunked)' = Whole(chunked)
  BY <1>1, BodyStays, SentStays
<1>3. ~leaked /\ phase # "idle" /\ buffer \in Seq(Symbols) /\ rest \in Seq(Symbols) /\ out \in Seq(Symbols)
  BY <1>1 DEF FlowTypes, LeakInv
<1>4. FlowTypes'
  <2>1. rest' \in Seq(Symbols)
    BY <1>1
  <2>2. buffer' \in Seq(Symbols)' /\ rest' \in Seq(Symbols)' /\ out' \in Seq(Symbols)'
    BY <1>1, <1>2, <1>3, <2>1
  <2>3. truncated' \in BOOLEAN /\ open' = FALSE /\ rest' = <<>> /\ open' \in BOOLEAN
    BY <1>1 DEF FlowTypes
  <2>4. UNCHANGED <<reader, reply, off, code, buffer, phase, te, out, attempts, leaked, claimed>>
    BY <1>1
  <2>. QED  BY <1>2, <1>3, <2>2, <2>3, <2>4 DEF FlowTypes
<1>5. Passed' /\ Moves
  BY <1>1, <1>2 DEF Passed, Moves
<1>6. \A w, k : Lies(buffer, w, k) => Lies(<<>>, w, k + Len(buffer))
  BY <1>3 DEF Lies
<1>7. \A w, k : Arriving(w, k) => Arriving(w, k)'
  BY <1>1, <1>6 DEF Arriving
<1>8. HeaderInv'
  BY <1>1, <1>2, <1>7 DEF HeaderInv, Unpassed
<1>9. SourceInv'
  BY <1>1, <1>2, <1>3, <1>7 DEF SourceInv, Unpassed, FlowTypes
<1>10. BlockInv'
  <2>1. phase = "block" => Lies(<<>>, Reading!Body, Len(out))
    BY <1>3 DEF BlockInv, Lies
  <2>. QED  BY <1>1, <1>2, <1>3, <2>1 DEF BlockInv
<1>11. ChunkInv'
  BY <1>1, <1>2, <1>3, <1>6 DEF ChunkInv
<1>12. LeakInv'
  BY <1>1, <1>3 DEF LeakInv
<1>. QED  BY <1>4, <1>5, <1>8, <1>9, <1>10, <1>11, <1>12

\* More of a line has come, or no line will.
LEMMA FillLineStep ==
  ASSUME FlowInv, Reading!FillLine
  PROVE  FlowInv' /\ Moves
<1>. USE DEF FlowInv
<1>1. phase \in {"status", "headers"} /\ ~leaked /\ Len(buffer) < Limit
  BY DEF Reading!FillLine, Reading!InHeader, HeaderInv
<1>2. PICK got \in Reading!Received(Limit - Len(buffer)) :
        got # <<>> /\ buffer' = buffer \o got /\ Reading!Take(got)
  BY DEF Reading!FillLine
<1>3. UNCHANGED <<reader, reply, off, code, phase, te, out, attempts, leaked, claimed>>
  BY DEF Reading!FillLine
<1>4. /\ buffer \in Seq(Symbols) /\ rest \in Seq(Symbols) /\ out \in Seq(Symbols) /\ Len(buffer) \in Nat
      /\ Limit \in Nat
  BY ConnectionAssumption DEF FlowTypes, Reading!RepliesAssumption
<1>5. PICK j \in 0 .. Len(rest) :
        got = SubSeq(rest, 1, j) /\ Len(got) = j /\ open /\ j <= Limit - Len(buffer)
  <2>1. Limit - Len(buffer) \in Int
    BY <1>4
  <2>2. PICK j \in 0 .. Len(rest) :
          got = SubSeq(rest, 1, j) /\ Len(got) = j
          /\ IF open THEN 0 < j /\ j <= Limit - Len(buffer) ELSE j = 0
    BY <2>1, ReceivedIs
  <2>3. j # 0
    BY <1>2, <1>4, <2>2
  <2>. QED  BY <2>2, <2>3
<1>6. rest' = Reading!Drop(rest, j) /\ open' = open /\ truncated' = truncated
  BY <1>2, <1>5 DEF Reading!Take
<1>7. /\ Reading!Body' = Reading!Body /\ Symbols' = Symbols
      /\ \A chunked : Sent(chunked)' = Sent(chunked) /\ Whole(chunked)' = Whole(chunked)
  BY <1>3, BodyStays, SentStays
<1>8. PICK chunked \in BOOLEAN, k \in {0, 3, 6} :
         /\ Arriving(Whole(chunked), k)
         /\ reader = "file" => ~chunked
         /\ phase = "status" <=> k = 0
         /\ te <=> k = 6
         /\ te => chunked
  BY <1>1 DEF HeaderInv
<1>9. /\ buffer' \in Seq(Symbols) /\ rest' \in Seq(Symbols)
      /\ Len(buffer') = Len(buffer) + j /\ Len(rest') = Len(rest) - j
      /\ Lies(buffer', Whole(chunked), k) /\ Lies(rest', Whole(chunked), k + Len(buffer'))
  <2>1. PICK w : w = Whole(chunked)
    OBVIOUS
  <2>2. PICK y : y = buffer'
    OBVIOUS
  <2>3. PICK z : z = rest'
    OBVIOUS
  <2>4. w \in Seq(Symbols) /\ Lies(buffer, w, k) /\ Lies(rest, w, k + Len(buffer))
    BY <1>8, <2>1, WholeIs DEF Arriving
  <2>5. got = SubSeq(rest, 1, j) /\ y = buffer \o got /\ z = Reading!Drop(rest, j)
    BY <1>2, <1>5, <1>6, <2>2, <2>3
  <2>6. Appends(Symbols, buffer, rest, w, k, j, y, z)
    BY <1>4, <2>4, <2>5 DEF Appends
  <2>7. Appended(Symbols, buffer, rest, w, k, j, y, z)
    BY ONLY <2>6, Arrived
  <2>. QED  BY <2>1, <2>2, <2>3, <2>7 DEF Appended
<1>10. Arriving(Whole(chunked), k)'
  <2>1. ~truncated => k + Len(buffer') + Len(rest') = Len(Whole(chunked))
    <3>1. ~truncated => k + Len(buffer) + Len(rest) = Len(Whole(chunked))
      BY <1>8 DEF Arriving
    <3>2. k + (Len(buffer) + j) + (Len(rest) - j) = k + Len(buffer) + Len(rest)
      BY ONLY <1>4, k \in {0, 3, 6}, j \in 0 .. Len(rest)
    <3>. QED  BY <1>9, <3>1, <3>2
  <2>. QED  BY <1>6, <1>7, <1>9, <2>1 DEF Arriving
<1>11. FlowTypes'
  BY <1>1, <1>3, <1>5, <1>6, <1>7, <1>9 DEF FlowTypes
<1>12. Passed' /\ Moves
  BY <1>3, <1>4, <1>7 DEF Passed, Moves
<1>13. HeaderInv'
  <2>1. Len(buffer') <= Limit
    BY <1>4, <1>5, <1>9
  <2>. QED  BY <1>1, <1>3, <1>8, <1>10, <2>1 DEF HeaderInv, Unpassed
<1>14. SourceInv' /\ BlockInv' /\ ChunkInv' /\ LeakInv'
  BY <1>1, <1>3 DEF SourceInv, BlockInv, ChunkInv, LeakInv
<1>. QED  BY <1>11, <1>12, <1>13, <1>14

LEMMA NoLineStep ==
  ASSUME FlowInv, Reading!NoLine
  PROVE  FlowInv' /\ Moves
<1>. USE DEF FlowInv
<1>1. /\ phase \in {"status", "headers"} /\ ~leaked /\ ~Reading!HasLine /\ (Len(buffer) >= Limit \/ ~open)
      /\ UNCHANGED <<reader, reply, off, code, buffer, te, out, attempts, claimed, rest, open, truncated>>
  BY DEF Reading!NoLine, Reading!InHeader, HeaderInv, Reading!net
<1>2. Reading!Body' = Reading!Body /\ Symbols' = Symbols
  BY <1>1, BodyStays
<1>3. CASE reader = "forward" /\ phase = "headers"
  <2>1. phase' = "flush" /\ leaked' = TRUE
    BY <1>3 DEF Reading!NoLine
  <2>2. PICK chunked \in BOOLEAN, k \in {0, 3, 6} : Arriving(Whole(chunked), k) /\ (te <=> k = 6) /\ (te => chunked)
    BY <1>1 DEF HeaderInv
  <2>3. PICK n : n = LineLength(chunked, k)
    OBVIOUS
  <2>4. /\ k + n <= HeaderLength(chunked)
        /\ Reading!Eol(buffer) = IF n <= Len(buffer) THEN n ELSE 0
        /\ buffer # <<>> => buffer[1] \in {"status", "te", "cr"}
    <3>1. Lies(buffer, Whole(chunked), k)
      BY <2>2 DEF Arriving
    <3>. QED  BY <2>2, <2>3, <3>1, LinesAre
  <2>5. n \in {2, 3} /\ Len(buffer) \in Nat /\ Len(rest) \in Nat
    BY <2>3 DEF LineLength, FlowTypes
  <2>6. Len(buffer) < n
    BY <1>1, <2>4, <2>5 DEF Reading!HasLine
  <2>7. ~open /\ rest = <<>>
    BY <1>1, <2>5, <2>6, ConnectionAssumption DEF Reading!RepliesAssumption, FlowTypes
  <2>8. truncated
    <3>. SUFFICES ASSUME ~truncated  PROVE FALSE
      BY DEF FlowTypes
    <3>1. k + Len(buffer) + Len(rest) = Len(Whole(chunked))
      BY <2>2 DEF Arriving
    <3>2. Len(Whole(chunked)) = HeaderLength(chunked) + Len(Sent(chunked)) /\ Len(Sent(chunked)) \in Nat
      BY WholeIs, SentIs
    <3>3. Len(rest) = 0 /\ HeaderLength(chunked) \in Nat
      BY <2>7 DEF HeaderLength
    <3>. QED  BY <2>4, <2>5, <2>6, <3>1, <3>2, <3>3
  <2>9. buffer = <<>> \/ buffer[1] \notin Reading!Digits
    <3>1. \A x \in Reading!Digits : x \notin {"status", "te", "cr"}
      BY DEF Reading!Digits, Reading!Hex, Reading!ToSet
    <3>. QED  BY <2>4, <3>1
  <2>10. out = <<>> /\ ~claimed
    BY <1>1, <1>3 DEF HeaderInv, Unpassed
  <2>11. FlowTypes'
    BY <1>1, <1>2, <1>3, <2>1 DEF FlowTypes
  <2>12. Passed' /\ Moves
    BY <1>1, <1>2, <2>1, <2>10 DEF Passed, Moves
  <2>13. HeaderInv' /\ SourceInv' /\ BlockInv' /\ ChunkInv'
    BY <2>1 DEF HeaderInv, SourceInv, BlockInv, ChunkInv
  <2>14. LeakInv'
    BY <1>1, <1>3, <2>1, <2>8, <2>9, <2>10 DEF LeakInv, Reading!Digits
  <2>. QED  BY <2>11, <2>12, <2>13, <2>14
<1>4. CASE ~(reader = "forward" /\ phase = "headers")
  <2>1. phase' = "failed" /\ leaked' = leaked
    BY <1>4 DEF Reading!NoLine
  <2>2. FlowTypes'
    BY <1>1, <1>2, <2>1 DEF FlowTypes
  <2>3. Passed' /\ Moves
    <3>1. out \in Seq(Symbols)
      BY DEF FlowTypes
    <3>. QED  BY <1>1, <1>2, <2>1, <3>1 DEF Passed, Moves
  <2>. QED  BY <1>1, <2>1, <2>2, <2>3 DEF HeaderInv, SourceInv, BlockInv, ChunkInv, LeakInv
<1>. QED  BY <1>3, <1>4

\* Of what is behind k symbols of w, n symbols have been dropped.
Skips(S, b, r, w, k, n, c) ==
  /\ b \in Seq(S) /\ r \in Seq(S) /\ w \in Seq(S) /\ n \in 0 .. Len(b)
  /\ Lies(b, w, k) /\ Lies(r, w, k + Len(b))
  /\ c = Reading!Drop(b, n)
Skipped(S, b, r, w, k, n, c) ==
  /\ c \in Seq(S) /\ Len(c) = Len(b) - n
  /\ k + n \in Nat /\ Lies(c, w, k + n) /\ Lies(r, w, (k + n) + Len(c))

LEMMA Dropped ==
  ASSUME NEW S, NEW b, NEW r, NEW w, NEW k, NEW n, NEW c, Skips(S, b, r, w, k, n, c)
  PROVE  Skipped(S, b, r, w, k, n, c)
<1>. USE DEF Skips
<1>1. c \in Seq(S) /\ Cutting(c, b, n, Len(b) - n)
  BY Remainder
<1>2. k \in Nat /\ Len(b) \in Nat /\ n \in Nat /\ Len(c) = Len(b) - n
  BY <1>1 DEF Lies, Cutting
<1>3. Lies(c, w, k + n)
  <2>1. Len(b) - n \in Nat /\ n + (Len(b) - n) <= Len(b)
    BY <1>2
  <2>. QED  BY <1>1, <1>2, <2>1, CuttingLies
<1>4. (k + n) + Len(c) = k + Len(b) /\ k + n \in Nat
  BY <1>2
<1>. QED  BY <1>1, <1>2, <1>3, <1>4 DEF Skipped

\* A line of the header has been read.
LEMMA ReadLineStep ==
  ASSUME FlowInv, Reading!ReadLine
  PROVE  FlowInv' /\ Moves
<1>. USE DEF FlowInv
<1>1. /\ phase \in {"status", "headers"} /\ ~leaked /\ Reading!HasLine
      /\ UNCHANGED <<reader, reply, off, code, out, attempts, leaked, claimed, rest, open, truncated>>
      /\ buffer' = Reading!Drop(buffer, Reading!Eol(buffer))
      /\ te' = (te \/ Reading!Line = <<"te">>)
  BY DEF Reading!ReadLine, Reading!InHeader, HeaderInv, Reading!net
<1>2. /\ phase = "status" => phase' = "headers"
      /\ phase = "headers" /\ Reading!Line = <<>> => phase' = "flush"
      /\ phase = "headers" /\ Reading!Line # <<>> => phase' = "headers"
  BY DEF Reading!ReadLine
<1>3. /\ Reading!Body' = Reading!Body /\ Symbols' = Symbols
      /\ \A chunked : Sent(chunked)' = Sent(chunked) /\ Whole(chunked)' = Whole(chunked)
  BY <1>1, BodyStays, SentStays
<1>4. PICK chunked \in BOOLEAN, k \in {0, 3, 6} :
         /\ Arriving(Whole(chunked), k)
         /\ reader = "file" => ~chunked
         /\ phase = "status" <=> k = 0
         /\ te <=> k = 6
         /\ te => chunked
  BY <1>1 DEF HeaderInv
<1>5. PICK n : n = LineLength(chunked, k)
  OBVIOUS
<1>6. PICK w : w = Whole(chunked)
  OBVIOUS
<1>7. Lies(buffer, w, k) /\ Lies(rest, w, k + Len(buffer))
      /\ (~truncated => k + Len(buffer) + Len(rest) = Len(w))
  BY <1>4, <1>6 DEF Arriving
<1>8. /\ k + n <= HeaderLength(chunked)
      /\ Reading!Eol(buffer) = IF n <= Len(buffer) THEN n ELSE 0
      /\ n <= Len(buffer) => /\ Reading!Line = <<>> <=> n = 2
                             /\ Reading!Line = <<"te">> <=> (k = 3 /\ chunked)
  BY <1>4, <1>5, <1>6, <1>7, LinesAre
<1>9. /\ buffer \in Seq(Symbols) /\ rest \in Seq(Symbols) /\ out \in Seq(Symbols)
      /\ Len(buffer) \in Nat /\ Len(rest) \in Nat /\ n \in {2, 3} /\ te \in BOOLEAN
  BY <1>5 DEF LineLength, FlowTypes
<1>10. n <= Len(buffer) /\ Reading!Eol(buffer) = n
  BY <1>1, <1>8, <1>9 DEF Reading!HasLine
<1>11. /\ buffer' \in Seq(Symbols) /\ Len(buffer') = Len(buffer) - n
       /\ Lies(buffer', w, k + n) /\ Lies(rest, w, (k + n) + Len(buffer'))
  <2>1. PICK y : y = buffer'
    OBVIOUS
  <2>2. n \in 0 .. Len(buffer) /\ w \in Seq(Symbols)
    BY <1>6, <1>9, <1>10, WholeIs
  <2>3. Skips(Symbols, buffer, rest, w, k, n, y)
    BY <1>1, <1>7, <1>9, <1>10, <2>1, <2>2 DEF Skips
  <2>4. Skipped(Symbols, buffer, rest, w, k, n, y)
    BY ONLY <2>3, Dropped
  <2>. QED  BY <2>1, <2>4 DEF Skipped
<1>12. ~truncated => (k + n) + Len(buffer') + Len(rest) = Len(w)
  <2>1. (k + n) + (Len(buffer) - n) + Len(rest) = k + Len(buffer) + Len(rest)
    BY ONLY <1>9, k \in {0, 3, 6}
  <2>. QED  BY <1>7, <1>11, <2>1
<1>13. te' = (te \/ (k = 3 /\ chunked)) /\ (Reading!Line = <<>> <=> n = 2)
  BY <1>1, <1>8, <1>10
<1>14. n = IF k = 0 \/ (k = 3 /\ chunked) THEN 3 ELSE 2
  BY <1>5 DEF LineLength
<1>15. FlowTypes'
  <2>1. te' \in BOOLEAN /\ (reader = "file" => ~te')
    BY <1>4, <1>9, <1>13 DEF FlowTypes
  <2>2. phase' \in {"headers", "flush"}
    BY <1>1, <1>2
  <2>. QED  BY <1>1, <1>3, <1>11, <2>1, <2>2 DEF FlowTypes
<1>16. Passed' /\ Moves
  BY <1>1, <1>3, <1>9 DEF Passed, Moves
<1>17. BlockInv' /\ ChunkInv' /\ LeakInv'
  BY <1>1, <1>2 DEF BlockInv, ChunkInv, LeakInv
<1>18. CASE n = 3
  <2>1. phase' = "headers" /\ k + n \in {3, 6} /\ (te' <=> k + n = 6) /\ (te' => chunked)
    <3>1. CASE k = 0
      <4>1. phase' = "headers"
        BY <1>2, <1>4, <3>1
      <4>2. te' = FALSE /\ k + n = 3
        BY <1>4, <1>9, <1>13, <1>18, <3>1
      <4>. QED  BY <4>1, <4>2
    <3>2. CASE k = 3 /\ chunked
      <4>1. phase' = "headers"
        BY <1>1, <1>2, <1>13, <1>18
      <4>2. te'
        BY <1>13, <3>2
      <4>3. k + n = 6
        BY <1>18, <3>2
      <4>. QED  BY <3>2, <4>1, <4>2, <4>3
    <3>. QED  BY <1>14, <1>18, <3>1, <3>2
  <2>2. Arriving(Whole(chunked), k + n)'
    BY <1>1, <1>3, <1>6, <1>11, <1>12 DEF Arriving
  <2>3. reader = "forward" => Len(buffer') <= Limit
    <3>1. Limit \in Nat
      BY ConnectionAssumption DEF Reading!RepliesAssumption
    <3>. QED  BY <1>1, <1>9, <1>11, <3>1 DEF HeaderInv
  <2>4. PICK m : m = k + n
    OBVIOUS
  <2>5. HeaderInv'
    <3>1. m \in {0, 3, 6} /\ m # 0 /\ Arriving(Whole(chunked), m)' /\ (te' <=> m = 6)
      BY <2>1, <2>2, <2>4
    <3>2. Unpassed'
      BY <1>1 DEF HeaderInv, Unpassed
    <3>. QED  BY <1>1, <1>4, <2>1, <2>3, <3>1, <3>2 DEF HeaderInv
  <2>6. SourceInv'
    BY <2>1 DEF SourceInv
  <2>. QED  BY <1>15, <1>16, <1>17, <2>5, <2>6
<1>19. CASE n = 2
  <2>1. phase' = "flush" /\ te' = te /\ te = chunked /\ k + n = HeaderLength(chunked)
    BY <1>1, <1>2, <1>4, <1>9, <1>13, <1>14, <1>19 DEF HeaderLength
  <2>2. PICK h : h = HeaderLength(chunked)
    OBVIOUS
  <2>3. PICK s : s = Sent(chunked)
    OBVIOUS
  <2>4. /\ w \in Seq(Symbols) /\ s \in Seq(Symbols) /\ h \in Nat /\ Len(w) = h + Len(s) /\ Lies(s, w, h)
    BY <1>6, <2>2, <2>3, WholeIs, SentIs DEF HeaderLength
  <2>5. PICK y : y = buffer'
    OBVIOUS
  <2>6. y \in Seq(Symbols) /\ Len(y) \in Nat /\ Len(s) \in Nat /\ Len(s) = Len(w) - h
    BY <1>11, <2>4, <2>5
  <2>7. Lies(y, w, h + 0) /\ Lies(rest, w, h + Len(y))
    BY <1>11, <2>1, <2>2, <2>4, <2>5
  <2>8. Lies(y, s, 0)
    BY ONLY <2>4, <2>6, <2>7, LiesThrough, 0 \in Nat
  <2>9. Lies(rest, s, Len(y))
    BY ONLY <1>9, <2>4, <2>6, <2>7, LiesThrough
  <2>10. ~truncated => Len(y) + Len(rest) = Len(s)
    <3>1. ~truncated => h + Len(y) + Len(rest) = Len(w)
      BY <1>12, <2>1, <2>2, <2>5
    <3>2. h \in Nat /\ Len(y) \in Nat /\ Len(rest) \in Nat /\ Len(s) \in Nat /\ Len(w) = h + Len(s)
      BY <1>9, <2>4, <2>6
    <3>3. h + Len(y) + Len(rest) = Len(w) => Len(y) + Len(rest) = Len(s)
      BY ONLY <3>2
    <3>. QED  BY <3>1, <3>3
  <2>11. Arriving(Sent(te), 0)'
    <3>1. Lies(buffer', Sent(te)', 0) /\ Sent(te)' = s
      BY <1>3, <2>1, <2>3, <2>5, <2>8
    <3>2. Lies(rest', Sent(te)', 0 + Len(buffer'))
      BY <1>1, <2>5, <2>6, <2>9, <3>1
    <3>3. ~truncated' => 0 + Len(buffer') + Len(rest') = Len(Sent(te)')
      BY <1>1, <2>5, <2>6, <2>10, <3>1
    <3>. QED  BY <3>1, <3>2, <3>3 DEF Arriving
  <2>12. SourceInv'
    BY <1>1, <2>1, <2>11 DEF SourceInv, HeaderInv, Unpassed
  <2>13. HeaderInv'
    BY <2>1 DEF HeaderInv
  <2>. QED  BY <1>15, <1>16, <1>17, <2>12, <2>13
<1>. QED  BY <1>9, <1>18, <1>19

\* The buffer, and what follows it, are what is missing of a plain body.
Following ==
  /\ Lies(buffer, Reading!Body, Len(out)) /\ Lies(rest, Reading!Body, Len(out) + Len(buffer))
  /\ ~truncated => Len(out) + Len(buffer) + Len(rest) = Len(Reading!Body)

\* What has been passed on is a beginning of the body, now as before.
LEMMA PassedOn ==
  ASSUME FlowTypes, Passed, UNCHANGED <<reply, leaked>>, out' \in Seq(Symbols),
         ~leaked => Lies(out', Reading!Body, 0) /\ Len(out) <= Len(out'),
         claimed => claimed', claimed' => claimed \/ (~leaked /\ out = Reading!Body /\ out' = out)
  PROVE  Passed' /\ Moves
<1>1. Reading!Body' = Reading!Body /\ Reading!Body \in Seq(Symbols)
  BY BodyStays, SentIs
<1>2. Moves
  BY DEF Moves, FlowTypes
<1>3. leaked' \/ Lies(out, Reading!Body, 0)'
  BY <1>1
<1>4. claimed => ~leaked /\ out' = Reading!Body
  <2>. SUFFICES ASSUME claimed  PROVE ~leaked /\ out' = Reading!Body
    OBVIOUS
  <2>1. ~leaked /\ out = Reading!Body
    BY DEF Passed
  <2>2. PICK y : y = out'
    OBVIOUS
  <2>3. PICK b : b = Reading!Body
    OBVIOUS
  <2>4. y \in Seq(Symbols) /\ b \in Seq(Symbols) /\ Lies(y, b, 0) /\ Len(b) <= Len(y)
    BY <1>1, <2>1, <2>2, <2>3
  <2>5. Len(y) = Len(b)
    BY <2>4 DEF Lies
  <2>. QED  BY <2>1, <2>2, <2>3, <2>4, <2>5, LiesWholly
<1>5. claimed' => ~leaked /\ out' = Reading!Body
  BY <1>4
<1>. QED  BY <1>1, <1>2, <1>3, <1>5 DEF Passed

\* What lies in a part of a sequence, lies in the sequence.
LEMMA LiesWithin ==
  ASSUME NEW S, NEW s \in Seq(S), NEW t \in Seq(S), NEW w \in Seq(S), NEW n \in 0 .. Len(w),
         t = Reading!Drop(w, n), NEW j, Lies(s, t, j)
  PROVE  Lies(s, w, n + j)
<1>1. Len(t) = Len(w) - n /\ \A i \in 1 .. Len(w) - n : t[i] = w[n + i]
  BY Remainder DEF Cutting
<1>2. j \in Nat /\ j + Len(s) <= Len(t) /\ \A i \in 1 .. Len(s) : s[i] = t[j + i]
  BY DEF Lies
<1>3. n \in Nat /\ Len(w) \in Nat /\ Len(s) \in Nat
  OBVIOUS
<1>4. ASSUME NEW i \in 1 .. Len(s)  PROVE s[i] = w[(n + j) + i]
  <2>1. j + i \in 1 .. Len(w) - n /\ n + (j + i) = (n + j) + i
    BY <1>1, <1>2, <1>3
  <2>. QED  BY <1>1, <1>2, <2>1
<1>5. n + j \in Nat /\ (n + j) + Len(s) <= Len(w)
  BY <1>1, <1>2, <1>3
<1>. QED  BY <1>4, <1>5 DEF Lies

LEMMA PlainFollows ==
  ASSUME FlowInv, phase = "source", ~leaked, ~te, Reading!Accepted
  PROVE  Following
<1>. USE DEF FlowInv
<1>1. Unpassed /\ Arriving(Sent(te), 0)
  BY DEF SourceInv
<1>2. /\ Reading!Body \in Seq(Symbols) /\ buffer \in Seq(Symbols) /\ rest \in Seq(Symbols) /\ out \in Seq(Symbols)
      /\ te = FALSE /\ off \in 0 .. Len(Reading!Body)
  BY SentIs DEF FlowTypes
<1>3. CASE off = 0
  <2>1. Sent(te) = Reading!Body /\ Len(out) = 0
    BY <1>1, <1>2, <1>3 DEF Sent, Unpassed, Reading!Accepted
  <2>. QED  BY <1>1, <1>2, <2>1 DEF Arriving, Following
<1>4. CASE off # 0
  <2>1. reader = "file" /\ code = 206 /\ Len(out) = off
    BY <1>1, <1>2, <1>4 DEF FlowTypes, Unpassed, Reading!Accepted
  <2>2. PICK w : w = Reading!Body
    OBVIOUS
  <2>3. PICK t : t = Reading!Drop(w, off)
    OBVIOUS
  <2>4. Sent(te) = t /\ w \in Seq(Symbols) /\ off \in 0 .. Len(w)
    BY <1>2, <2>1, <2>2, <2>3 DEF Sent
  <2>5. t \in Seq(Symbols) /\ Len(t) = Len(w) - off
    BY <2>3, <2>4, Remainder DEF Cutting
  <2>6. Lies(buffer, t, 0) /\ Lies(rest, t, Len(buffer)) /\ (~truncated => Len(buffer) + Len(rest) = Len(t))
    BY <1>1, <1>2, <2>4 DEF Arriving
  <2>7. Lies(buffer, w, off + 0) /\ Lies(rest, w, off + Len(buffer))
    BY ONLY <1>2, <2>3, <2>4, <2>5, <2>6, LiesWithin
  <2>8. Len(w) \in Nat /\ Len(buffer) \in Nat /\ Len(rest) \in Nat /\ off \in Nat
    BY <1>2, <2>4
  <2>9. Lies(buffer, w, off)
    BY <2>7, <2>8
  <2>10. ~truncated => off + Len(buffer) + Len(rest) = Len(w)
    BY <2>5, <2>6, <2>8
  <2>. QED  BY <2>1, <2>2, <2>7, <2>9, <2>10 DEF Following
<1>. QED  BY <1>3, <1>4

\* The header has been read: the forwarder goes on with its buffer, the client
\* first reads all there is, or waits for it in vain.
LEMMA FlushStep ==
  ASSUME FlowInv, Reading!Flush
  PROVE  FlowInv' /\ Moves
<1>. USE DEF FlowInv
<1>1. /\ phase = "flush" /\ phase' = "source"
      /\ UNCHANGED <<reader, reply, off, code, te, out, attempts, leaked, claimed>>
  BY DEF Reading!Flush
<1>2. /\ Reading!Body' = Reading!Body /\ Symbols' = Symbols
      /\ \A chunked : Sent(chunked)' = Sent(chunked)
  BY <1>1, BodyStays, SentStays
<1>3. /\ buffer \in Seq(Symbols) /\ rest \in Seq(Symbols) /\ out \in Seq(Symbols)
      /\ Len(buffer) \in Nat /\ Len(rest) \in Nat /\ te \in BOOLEAN /\ truncated \in BOOLEAN
  BY DEF FlowTypes
<1>4. Passed' /\ Moves
  BY <1>1, <1>2, <1>3 DEF Passed, Moves
<1>5. HeaderInv' /\ BlockInv' /\ ChunkInv'
  BY <1>1 DEF HeaderInv, BlockInv, ChunkInv
<1>6. CASE reader = "forward"
  <2>1. UNCHANGED <<buffer, rest, open, truncated>>
    BY <1>6 DEF Reading!Flush, Reading!net
  <2>2. FlowTypes'
    BY <1>1, <1>2, <2>1 DEF FlowTypes
  <2>3. SourceInv'
    BY <1>1, <1>2, <1>6, <2>1 DEF SourceInv, Unpassed, Arriving
  <2>4. LeakInv'
    BY <1>1, <2>1 DEF LeakInv, Reading!Digits
  <2>. QED  BY <1>4, <1>5, <2>2, <2>3, <2>4
<1>7. CASE reader # "forward"
  <2>1. PICK got \in Reading!ReceivedAll(Len(rest)) :
          /\ buffer' = buffer \o got /\ open' = FALSE /\ rest' = <<>>
          /\ truncated' = (truncated \/ Len(got) < Len(rest))
    BY <1>7 DEF Reading!Flush
  <2>2. PICK j \in 0 .. Len(rest) : got = SubSeq(rest, 1, j)
    BY <1>3, <2>1 DEF Reading!ReceivedAll, Reading!Smaller
  <2>3. Arriving(Sent(te), 0) /\ Unpassed /\ ~leaked
    BY <1>1, <1>7 DEF SourceInv, LeakInv
  <2>4. PICK w : w = Sent(te)
    OBVIOUS
  <2>5. PICK y : y = buffer'
    OBVIOUS
  <2>6. PICK z : z = Reading!Drop(rest, j)
    OBVIOUS
  <2>7. Appends(Symbols, buffer, rest, w, 0, j, y, z)
    BY <1>3, <2>1, <2>2, <2>3, <2>4, <2>5, <2>6, SentIs DEF Appends, Arriving
  <2>8. Appended(Symbols, buffer, rest, w, 0, j, y, z)
    BY ONLY <2>7, Arrived
  <2>9. y \in Seq(Symbols) /\ Lies(y, w, 0) /\ Len(got) = j /\ Len(y) = Len(buffer) + j
    BY <2>2, <2>8 DEF Appended
  <2>10. FlowTypes'
    <3>1. /\ buffer' \in Seq(Symbols)' /\ rest' \in Seq(Symbols)' /\ truncated' \in BOOLEAN
          /\ open' = FALSE /\ rest' = <<>>
      BY <1>2, <2>1, <2>5, <2>9
    <3>2. off' \in 0 .. Len(Reading!Body)' /\ out' \in Seq(Symbols)'
      BY <1>1, <1>2, <1>3 DEF FlowTypes
    <3>3. /\ reader' \in {"forward", "buffer", "file"} /\ reply' \in Replies /\ attempts' \in 0 .. MaxAttempts
          /\ te' \in BOOLEAN /\ leaked' \in BOOLEAN /\ claimed' \in BOOLEAN /\ code' \in {200, 206, 416}
      BY <1>1 DEF FlowTypes
    <3>4. IF reader' = "file" THEN ~te' ELSE off' = 0 /\ code' = 200
      BY <1>1 DEF FlowTypes
    <3>. QED  BY <1>1, <3>1, <3>2, <3>3, <3>4 DEF FlowTypes
  <2>11. Arriving(Sent(te), 0)'
    <3>1. Lies(<<>>, w, 0 + Len(y))
      BY <2>9 DEF Lies
    <3>2. ~truncated' => 0 + Len(y) + Len(<<>>) = Len(w)
      <4>. SUFFICES ASSUME ~truncated'  PROVE Len(y) = Len(w)
        BY <2>9
      <4>1. ~truncated /\ ~(j < Len(rest))
        BY <2>1, <2>9
      <4>2. Len(buffer) + Len(rest) = Len(w)
        BY <1>3, <2>3, <2>4, <4>1 DEF Arriving
      <4>. QED  BY <1>3, <2>9, <4>1, <4>2
    <3>. QED  BY <1>1, <1>2, <2>1, <2>4, <2>5, <2>9, <3>1, <3>2 DEF Arriving
  <2>12. SourceInv' /\ LeakInv'
    BY <1>1, <2>1, <2>3, <2>11 DEF SourceInv, LeakInv, Unpassed
  <2>. QED  BY <1>4, <1>5, <2>10, <2>12
<1>. QED  BY <1>6, <1>7

LEMMA ReadTimesOutStep ==
  ASSUME FlowInv, Reading!ReadTimesOut
  PROVE  FlowInv' /\ Moves
<1>. USE DEF FlowInv
<1>1. /\ phase' = "failed"
      /\ UNCHANGED <<reader, reply, off, code, buffer, te, out, attempts, leaked, claimed, rest, open, truncated>>
  BY DEF Reading!ReadTimesOut, Reading!net
<1>2. Reading!Body' = Reading!Body /\ Symbols' = Symbols
  BY <1>1, BodyStays
<1>3. out \in Seq(Symbols) /\ phase = "flush"
  BY DEF FlowTypes, Reading!ReadTimesOut
<1>4. FlowTypes' /\ Passed' /\ Moves
  BY <1>1, <1>2, <1>3 DEF FlowTypes, Passed, Moves
<1>. QED  BY <1>1, <1>4 DEF HeaderInv, SourceInv, BlockInv, ChunkInv, LeakInv

\* The buffer is used up, as the beginning of the body or not at all.
LEMMA SourceStep ==
  ASSUME FlowInv, Reading!Source
  PROVE  FlowInv' /\ Moves
<1>. USE DEF FlowInv
<1>1. /\ phase = "source"
      /\ UNCHANGED <<reader, reply, off, code, te, attempts, leaked, claimed, rest, open, truncated>>
  BY DEF Reading!Source, Reading!net
<1>2. /\ Reading!Body' = Reading!Body /\ Reading!Encoded' = Reading!Encoded /\ Symbols' = Symbols
      /\ \A i : Reading!Cut(i)' = Reading!Cut(i) /\ Reading!Start(i)' = Reading!Start(i)
  BY <1>1, BodyStays
<1>3. /\ buffer \in Seq(Symbols) /\ rest \in Seq(Symbols) /\ out \in Seq(Symbols) /\ reply \in Replies
      /\ Len(buffer) \in Nat /\ Len(rest) \in Nat /\ Len(out) \in Nat
  BY DEF FlowTypes
<1>4. CASE UNCHANGED <<buffer, out>> /\ phase' \in {"failed", "chunk"} /\ (phase' = "chunk" => te)
  <2>1. FlowTypes'
    BY <1>1, <1>2, <1>4 DEF FlowTypes
  <2>2. Passed' /\ Moves
    BY <1>1, <1>2, <1>3, <1>4 DEF Passed, Moves
  <2>3. HeaderInv' /\ SourceInv' /\ BlockInv'
    BY <1>4 DEF HeaderInv, SourceInv, BlockInv
  <2>4. ChunkInv'
    <3>. SUFFICES ASSUME phase' = "chunk", ~leaked'  PROVE ChunkInv'
      BY DEF ChunkInv
    <3>1. te /\ ~leaked /\ reader # "file"
      BY <1>1, <1>4 DEF FlowTypes
    <3>2. out = <<>> /\ Arriving(Reading!Encoded, 0) /\ (reader # "forward" => ~open)
      BY <1>1, <3>1 DEF SourceInv, Unpassed, Sent
    <3>3. PICK last : last = Len(reply.cuts)
      OBVIOUS
    <3>4. 1 \in 1 .. last - 1 /\ Reading!Cut(1) = 0 /\ Reading!Start(1) = 0
      BY <1>3, <3>3, CutsAre, StartsAre
    <3>5. /\ Len(out) = Reading!Cut(1)
          /\ Lies(buffer, Reading!Encoded, Reading!Start(1))
          /\ Lies(rest, Reading!Encoded, Reading!Start(1) + Len(buffer))
      BY <3>2, <3>4 DEF Arriving
    <3>6. /\ Len(out') = Reading!Cut(1)'
          /\ Lies(buffer', Reading!Encoded', Reading!Start(1)')
          /\ Lies(rest', Reading!Encoded', Reading!Start(1)' + Len(buffer'))
      BY <1>1, <1>2, <1>4, <3>5
    <3>7. 1 \in (1 .. Len(reply.cuts) - 1)'
      BY <1>1, <3>3, <3>4
    <3>. QED  BY <1>1, <3>1, <3>2, <3>6, <3>7 DEF ChunkInv
  <2>5. LeakInv'
    BY <1>1, <1>4 DEF LeakInv, Reading!Digits
  <2>. QED  BY <2>1, <2>2, <2>3, <2>4, <2>5
<1>5. CASE Reading!Accepted /\ ~te /\ phase' = "block" /\ out' = out \o buffer /\ buffer' = <<>>
  <2>1. out' \in Seq(Symbols) /\ Len(out') = Len(out) + Len(buffer)
    BY <1>3, <1>5, Concatenation
  <2>2. ~leaked => Following
    BY <1>1, <1>5, PlainFollows
  <2>3. ~leaked => Lies(out', Reading!Body, 0)
    <3>. SUFFICES ASSUME ~leaked  PROVE Lies(out', Reading!Body, 0)
      OBVIOUS
    <3>1. PICK w : w = Reading!Body
      OBVIOUS
    <3>2. w \in Seq(Symbols) /\ Lies(out, w, 0) /\ Lies(buffer, w, 0 + Len(out)) /\ 0 \in Nat
      BY <1>3, <2>2, <3>1, SentIs DEF Following, Passed
    <3>3. Lies(out \o buffer, w, 0)
      BY ONLY <1>3, <3>2, LiesTogether
    <3>. QED  BY <1>5, <3>1, <3>3
  <2>4. FlowTypes'
    <3>1. buffer' \in Seq(Symbols)
      BY <1>5
    <3>. QED  BY <1>1, <1>2, <1>3, <1>5, <2>1, <3>1 DEF FlowTypes
  <2>5. Passed' /\ Moves
    BY <1>1, <1>3, <2>1, <2>3, PassedOn
  <2>6. BlockInv'
    <3>1. ~leaked => Lies(rest, Reading!Body, Len(out')) /\ (~truncated => Len(out') + Len(rest) = Len(Reading!Body))
      BY <2>1, <2>2 DEF Following
    <3>. QED  BY <1>1, <1>2, <3>1 DEF BlockInv
  <2>7. HeaderInv' /\ SourceInv' /\ ChunkInv' /\ LeakInv'
    BY <1>1, <1>5 DEF HeaderInv, SourceInv, ChunkInv, LeakInv
  <2>. QED  BY <2>4, <2>5, <2>6, <2>7
<1>. QED  BY <1>4, <1>5 DEF Reading!Source

LEMMA KilledStep ==
  ASSUME FlowInv, Reading!Killed
  PROVE  FlowInv' /\ Moves
<1>. USE DEF FlowInv
<1>1. /\ phase = "source" /\ reader = "file" /\ Reading!Accepted /\ phase' = "failed"
      /\ UNCHANGED <<reader, reply, off, code, buffer, te, attempts, leaked, claimed, rest, open, truncated>>
  BY DEF Reading!Killed, Reading!net
<1>2. Reading!Body' = Reading!Body /\ Symbols' = Symbols
  BY <1>1, BodyStays
<1>3. /\ buffer \in Seq(Symbols) /\ rest \in Seq(Symbols) /\ out \in Seq(Symbols)
      /\ ~leaked /\ ~te
  BY <1>1 DEF FlowTypes, LeakInv
<1>4. PICK k \in 0 .. Len(buffer) : out' = out \o SubSeq(buffer, 1, k)
  BY DEF Reading!Killed
<1>5. PICK w : w = Reading!Body
  OBVIOUS
<1>6. /\ w \in Seq(Symbols) /\ Lies(out, w, 0) /\ Lies(buffer, w, 0 + Len(out))
      /\ Lies(rest, w, (0 + Len(out)) + Len(buffer))
  BY <1>1, <1>3, <1>5, SentIs, PlainFollows DEF Following, Passed
<1>7. PICK y : y = out'
  OBVIOUS
<1>8. PICK z : z = Reading!Drop(buffer, k)
  OBVIOUS
<1>9. Appends(Symbols, out, buffer, w, 0, k, y, z)
  BY <1>3, <1>4, <1>6, <1>7, <1>8 DEF Appends
<1>10. Appended(Symbols, out, buffer, w, 0, k, y, z)
  BY ONLY <1>9, Arrived
<1>11. out' \in Seq(Symbols) /\ Lies(out', Reading!Body, 0) /\ Len(out) <= Len(out')
  BY <1>3, <1>5, <1>7, <1>10 DEF Appended
<1>12. Passed' /\ Moves
  BY <1>1, <1>11, PassedOn
<1>13. FlowTypes'
  BY <1>1, <1>2, <1>11 DEF FlowTypes
<1>. QED  BY <1>1, <1>3, <1>12, <1>13 DEF HeaderInv, SourceInv, BlockInv, ChunkInv, LeakInv

\* A block of a plain body has been received, or its end.
LEMMA BlockStep ==
  ASSUME FlowInv, Reading!Block
  PROVE  FlowInv' /\ Moves
<1>. USE DEF FlowInv
<1>1. phase = "block" /\ UNCHANGED <<reader, reply, off, code, buffer, te, attempts, leaked>>
  BY DEF Reading!Block
<1>2. PICK got \in Reading!Received(Limit) :
        /\ out' = out \o got /\ Reading!Take(got)
        /\ phase' = IF got = <<>> THEN "done" ELSE "block"
        /\ claimed' = (claimed \/ (got = <<>> /\ ~truncated))
  BY DEF Reading!Block
<1>3. /\ buffer \in Seq(Symbols) /\ rest \in Seq(Symbols) /\ out \in Seq(Symbols) /\ Limit \in Int
      /\ Len(out) \in Nat /\ Len(rest) \in Nat /\ claimed \in BOOLEAN /\ truncated \in BOOLEAN /\ leaked \in BOOLEAN
  BY ConnectionAssumption DEF FlowTypes, Reading!RepliesAssumption
<1>4. PICK j \in 0 .. Len(rest) :
        got = SubSeq(rest, 1, j) /\ Len(got) = j /\ IF open THEN 0 < j /\ j <= Limit ELSE j = 0
  BY <1>3, ReceivedIs
<1>5. rest' = Reading!Drop(rest, j) /\ open' = open /\ truncated' = truncated
  BY <1>2, <1>4 DEF Reading!Take
<1>6. Reading!Body' = Reading!Body /\ Symbols' = Symbols
  BY <1>1, BodyStays
<1>7. /\ out' \in Seq(Symbols) /\ rest' \in Seq(Symbols)
      /\ Len(out') = Len(out) + j /\ Len(rest') = Len(rest) - j
  <2>1. got \in Seq(Symbols)
    BY <1>3, <1>4, Beginning
  <2>2. Len(Reading!Drop(rest, j)) = Len(rest) - j /\ Reading!Drop(rest, j) \in Seq(Symbols)
    BY <1>3, Remainder DEF Cutting
  <2>. QED  BY <1>2, <1>3, <1>4, <1>5, <2>1, <2>2, Concatenation
<1>8. ~leaked => Lies(out', Reading!Body, 0) /\ Lies(rest', Reading!Body, Len(out'))
  <2>. SUFFICES ASSUME ~leaked  PROVE Lies(out', Reading!Body, 0) /\ Lies(rest', Reading!Body, Len(out'))
    OBVIOUS
  <2>1. PICK w : w = Reading!Body
    OBVIOUS
  <2>2. PICK y : y = out'
    OBVIOUS
  <2>3. PICK z : z = rest'
    OBVIOUS
  <2>4. w \in Seq(Symbols) /\ Lies(out, w, 0) /\ Lies(rest, w, 0 + Len(out))
    BY <1>1, <1>3, <2>1, SentIs DEF BlockInv, Passed
  <2>5. Appends(Symbols, out, rest, w, 0, j, y, z)
    BY <1>2, <1>3, <1>4, <1>5, <2>2, <2>3, <2>4 DEF Appends
  <2>6. Appended(Symbols, out, rest, w, 0, j, y, z)
    BY ONLY <2>5, Arrived
  <2>7. Len(y) \in Nat
    BY <1>7, <2>2
  <2>. QED  BY <2>1, <2>2, <2>3, <2>6, <2>7 DEF Appended
<1>9. ~leaked /\ ~truncated => Len(out') + Len(rest') = Len(Reading!Body)
  <2>1. ~leaked /\ ~truncated => Len(out) + Len(rest) = Len(Reading!Body)
    BY <1>1 DEF BlockInv
  <2>2. (Len(out) + j) + (Len(rest) - j) = Len(out) + Len(rest)
    BY ONLY <1>3, j \in 0 .. Len(rest)
  <2>. QED  BY <1>7, <2>1, <2>2
<1>10. open \/ rest' = <<>>
  <2>1. ~open => Len(rest') = 0
    BY <1>3, <1>4, <1>7 DEF FlowTypes
  <2>. QED  BY <1>7, <2>1
<1>11. phase' \in {"done", "block"} /\ claimed' \in BOOLEAN
  BY <1>2, <1>3
<1>12. claimed' => claimed \/ (~leaked /\ out = Reading!Body /\ out' = out)
  <2>. SUFFICES ASSUME claimed', ~claimed  PROVE ~leaked /\ out = Reading!Body /\ out' = out
    OBVIOUS
  <2>1. got = <<>> /\ ~truncated
    BY <1>2
  <2>2. ~leaked
    BY <2>1 DEF LeakInv
  <2>3. j = 0 /\ ~open /\ rest = <<>>
    BY <1>4, <2>1 DEF FlowTypes
  <2>4. out' = out
    BY <1>2, <1>3, <2>1
  <2>5. Len(out) = Len(Reading!Body) /\ Lies(out, Reading!Body, 0)
    BY <1>1, <1>3, <2>1, <2>2, <2>3 DEF BlockInv, Passed
  <2>6. out = Reading!Body
    BY <1>3, <2>5, SentIs, LiesWholly
  <2>. QED  BY <2>2, <2>4, <2>6
<1>13. Passed' /\ Moves
  <2>1. claimed => claimed'
    BY <1>2
  <2>2. Len(out) <= Len(out')
    BY <1>3, <1>7
  <2>. QED  BY <1>1, <1>7, <1>8, <1>12, <2>1, <2>2, PassedOn
<1>14. FlowTypes'
  BY <1>1, <1>3, <1>5, <1>6, <1>7, <1>10, <1>11 DEF FlowTypes
<1>15. BlockInv'
  BY <1>1, <1>5, <1>6, <1>8, <1>9 DEF BlockInv
<1>16. HeaderInv' /\ SourceInv' /\ ChunkInv'
  BY <1>11 DEF HeaderInv, SourceInv, ChunkInv
<1>17. LeakInv'
  <2>1. leaked => ~claimed'
    BY <1>12 DEF LeakInv
  <2>. QED  BY <1>1, <1>5, <1>11, <2>1 DEF LeakInv
<1>. QED  BY <1>13, <1>14, <1>15, <1>16, <1>17

\* The size of a chunk is waited for.
LEMMA FillChunkStep ==
  ASSUME FlowInv, Reading!FillChunk
  PROVE  FlowInv' /\ Moves
<1>. USE DEF FlowInv
<1>1. phase = "chunk" /\ UNCHANGED <<reader, reply, off, code, phase, te, out, attempts, leaked, claimed>>
  BY DEF Reading!FillChunk
<1>2. PICK got \in Reading!Received(Limit) : got # <<>> /\ buffer' = buffer \o got /\ Reading!Take(got)
  BY DEF Reading!FillChunk
<1>3. /\ buffer \in Seq(Symbols) /\ rest \in Seq(Symbols) /\ out \in Seq(Symbols) /\ Limit \in Int
      /\ Len(buffer) \in Nat /\ Len(rest) \in Nat /\ reply \in Replies
  BY ConnectionAssumption DEF FlowTypes, Reading!RepliesAssumption
<1>4. PICK j \in 0 .. Len(rest) : got = SubSeq(rest, 1, j) /\ Len(got) = j /\ open /\ j # 0
  <2>1. PICK j \in 0 .. Len(rest) :
          got = SubSeq(rest, 1, j) /\ Len(got) = j /\ IF open THEN 0 < j /\ j <= Limit ELSE j = 0
    BY <1>3, ReceivedIs
  <2>2. j # 0
    BY <1>2, <1>3, <2>1
  <2>. QED  BY <2>1, <2>2
<1>5. rest' = Reading!Drop(rest, j) /\ open' = open /\ truncated' = truncated
  BY <1>2, <1>4 DEF Reading!Take
<1>6. /\ Reading!Body' = Reading!Body /\ Reading!Encoded' = Reading!Encoded /\ Symbols' = Symbols
      /\ \A i : Reading!Cut(i)' = Reading!Cut(i) /\ Reading!Start(i)' = Reading!Start(i)
  BY <1>1, BodyStays
<1>7. ~leaked /\ rest # <<>>
  BY <1>3, <1>4 DEF FlowTypes, LeakInv
<1>8. PICK i \in 1 .. Len(reply.cuts) - 1 :
        /\ Len(out) = Reading!Cut(i)
        /\ Lies(buffer, Reading!Encoded, Reading!Start(i))
        /\ Lies(rest, Reading!Encoded, Reading!Start(i) + Len(buffer))
  BY <1>1, <1>7 DEF ChunkInv
<1>9. PICK w : w = Reading!Encoded
  OBVIOUS
<1>10. PICK k : k = Reading!Start(i)
  OBVIOUS
<1>11. PICK y : y = buffer'
  OBVIOUS
<1>12. PICK z : z = rest'
  OBVIOUS
<1>13. Appends(Symbols, buffer, rest, w, k, j, y, z)
  BY <1>2, <1>3, <1>4, <1>5, <1>8, <1>9, <1>10, <1>11, <1>12, EncodedIs DEF Appends
<1>14. Appended(Symbols, buffer, rest, w, k, j, y, z)
  BY ONLY <1>13, Arrived
<1>15. FlowTypes'
  <2>1. buffer' \in Seq(Symbols) /\ rest' \in Seq(Symbols)
    BY <1>11, <1>12, <1>14 DEF Appended
  <2>. QED  BY <1>1, <1>3, <1>4, <1>5, <1>6, <2>1 DEF FlowTypes
<1>16. Passed' /\ Moves
  BY <1>1, <1>3, <1>6 DEF Passed, Moves
<1>17. ChunkInv'
  <2>1. /\ Len(out') = Reading!Cut(i)'
        /\ Lies(buffer', Reading!Encoded', Reading!Start(i)')
        /\ Lies(rest', Reading!Encoded', Reading!Start(i)' + Len(buffer'))
    BY <1>1, <1>6, <1>8, <1>9, <1>10, <1>11, <1>12, <1>14 DEF Appended
  <2>2. i \in (1 .. Len(reply.cuts) - 1)'
    BY <1>1
  <2>. QED  BY <1>1, <1>5, <2>1, <2>2 DEF ChunkInv
<1>18. HeaderInv' /\ SourceInv' /\ BlockInv' /\ LeakInv'
  BY <1>1, <1>7 DEF HeaderInv, SourceInv, BlockInv, LeakInv
<1>. QED  BY <1>15, <1>16, <1>17, <1>18

\* The chunk of which the buffer holds the size: how long it is, where it and
\* the next one begin.
ThisChunk(i, at, e) ==
  /\ i \in 1 .. Len(reply.cuts) - 1 /\ at \in Nat /\ e \in 0 .. 9
  /\ at = Reading!Start(i) /\ e = Reading!Size
  /\ Reading!Cut(i + 1) = Reading!Cut(i) + e /\ Reading!Start(i + 1) = at + e + 5
  /\ Reading!Start(i + 1) <= Len(Reading!Encoded)
  /\ \A j \in 1 .. e : Reading!Encoded[at + 3 + j] = Reading!Body[Reading!Cut(i) + j]
  /\ e = 0 => Reading!Cut(i) = Len(Reading!Body)
  /\ e > 0 => i + 1 <= Len(reply.cuts) - 1
  /\ Len(out) = Reading!Cut(i) /\ Len(buffer) >= 3
  /\ Lies(buffer, Reading!Encoded, at) /\ Lies(rest, Reading!Encoded, at + Len(buffer))

LEMMA SizeIs ==
  ASSUME NEW n \in 0 .. 9, buffer[1] = Reading!Hex[n + 1]
  PROVE  Reading!Size = n
<1>1. /\ DOMAIN Reading!Hex = 1 .. 10
      /\ \A i, j \in 1 .. 10 : Reading!Hex[i] = Reading!Hex[j] => i = j
  BY DEF Reading!Hex
<1>2. n + 1 \in 1 .. 10
  OBVIOUS
<1>3. \A i \in DOMAIN Reading!Hex : Reading!Hex[i] = buffer[1] <=> i = n + 1
  BY <1>1, <1>2
<1>. DEFINE c == CHOOSE i \in DOMAIN Reading!Hex : Reading!Hex[i] = buffer[1]
<1>4. c = n + 1
  BY <1>1, <1>2, <1>3
<1>5. Reading!Size = c - 1
  BY DEF Reading!Size
<1>. HIDE DEF c
<1>. QED  BY <1>4, <1>5

LEMMA ChunkBegins ==
  ASSUME FlowInv, phase = "chunk", Reading!HasSize
  PROVE  ~leaked /\ \E i, at, e : ThisChunk(i, at, e)
<1>. USE DEF FlowInv
<1>1. Len(buffer) >= 3 /\ buffer[1] \in Reading!Digits /\ buffer \in Seq(Symbols) /\ reply \in Replies
  BY DEF Reading!HasSize, FlowTypes
<1>2. buffer # <<>>
  BY <1>1
<1>3. ~leaked
  BY <1>1, <1>2 DEF LeakInv
<1>4. PICK i \in 1 .. Len(reply.cuts) - 1 :
        /\ Len(out) = Reading!Cut(i)
        /\ Lies(buffer, Reading!Encoded, Reading!Start(i))
        /\ Lies(rest, Reading!Encoded, Reading!Start(i) + Len(buffer))
  BY <1>2, <1>3 DEF ChunkInv
<1>5. PICK last : last = Len(reply.cuts)
  OBVIOUS
<1>6. PICK e : e = Reading!Cut(i + 1) - Reading!Cut(i)
  OBVIOUS
<1>7. PICK at : at = Reading!Start(i)
  OBVIOUS
<1>8. /\ last \in Nat /\ i \in 1 .. last - 1 /\ i \in 1 .. last /\ i + 1 \in 1 .. last
      /\ (i = last - 1 \/ i + 1 \in 1 .. last - 1) /\ (i + 1 = last \/ i + 1 < last) /\ last \in 1 .. last
  <2>1. last \in Nat /\ i \in 1 .. last - 1
    BY <1>1, <1>5, CutsAre
  <2>. QED  BY ONLY <2>1
<1>9. Reading!Cut(i) \in Nat /\ Reading!Cut(i + 1) \in Nat /\ e \in 0 .. 9
  <2>1. \A k \in 1 .. last : Reading!Cut(k) \in Nat
    <3>1. \A k \in 1 .. last : Reading!Cut(k) \in 0 .. Len(Reading!Body)
      BY <1>1, <1>5, CutsAre
    <3>. QED  BY <3>1
  <2>2. e \in 0 .. 9
    BY <1>1, <1>5, <1>6, <1>8, CutsAre
  <2>. QED  BY <1>8, <2>1, <2>2
<1>10. /\ at \in Nat /\ Reading!Start(i + 1) = at + e + 5
       /\ Reading!Start(i + 1) <= Reading!Start(last)
  <2>1. /\ \A k \in 1 .. last : Reading!Start(k) \in Nat
        /\ \A k, j \in 1 .. last : k < j => Reading!Start(k) < Reading!Start(j)
        /\ Reading!Start(i + 1) = at + e + 5
    BY <1>1, <1>5, <1>6, <1>7, <1>8, StartsAre
  <2>2. at \in Nat /\ Reading!Start(i + 1) \in Nat /\ Reading!Start(last) \in Nat
    BY <1>7, <1>8, <2>1
  <2>3. Reading!Start(i + 1) <= Reading!Start(last)
    <3>1. CASE i + 1 = last
      BY <2>2, <3>1
    <3>2. CASE i + 1 < last
      BY <1>8, <2>1, <2>2, <3>2
    <3>. QED  BY <1>8, <3>1, <3>2
  <2>. QED  BY <2>1, <2>2, <2>3
<1>11. IsChunk(i, e) /\ Len(Reading!Encoded) = Reading!Start(last)
  BY <1>1, <1>5, <1>6, <1>8, EncodedIs
<1>12. buffer[1] = Reading!Hex[e + 1]
  BY <1>1, <1>4, <1>7, <1>11 DEF Lies, IsChunk
<1>13. Reading!Size = e
  BY <1>9, <1>12, SizeIs
<1>14. i = last - 1 => Reading!Cut(i) = Len(Reading!Body) /\ e = 0
  <2>1. Reading!Cut(last - 1) = Len(Reading!Body) /\ Reading!Cut(last) = Len(Reading!Body)
    BY <1>1, <1>5, CutsAre
  <2>2. i = last - 1 => i + 1 = last
    BY <1>8
  <2>. QED  BY <1>6, <1>9, <2>1, <2>2
<1>15. i # last - 1 => e # 0 /\ i + 1 <= last - 1
  <2>1. i # last - 1 => i + 1 \in 1 .. last - 1 /\ i < i + 1 /\ i + 1 <= last - 1
    BY <1>8
  <2>2. i # last - 1 => Reading!Cut(i) < Reading!Cut(i + 1)
    BY <1>1, <1>5, <1>8, <2>1, CutsAre
  <2>. QED  BY <1>6, <1>9, <2>1, <2>2
<1>16. \A j \in 1 .. e : Reading!Encoded[at + 3 + j] = Reading!Body[Reading!Cut(i) + j]
  BY <1>7, <1>11 DEF IsChunk
<1>17. Reading!Cut(i + 1) = Reading!Cut(i) + e
  BY <1>6, <1>9
<1>18. ThisChunk(i, at, e)
  <2>1. e = 0 => Reading!Cut(i) = Len(Reading!Body)
    BY <1>14, <1>15
  <2>2. e > 0 => i + 1 <= Len(reply.cuts) - 1
    BY <1>5, <1>14, <1>15
  <2>3. Reading!Start(i + 1) <= Len(Reading!Encoded)
    BY <1>10, <1>11
  <2>. QED  BY <1>1, <1>4, <1>7, <1>9, <1>10, <1>13, <1>16, <1>17, <2>1, <2>2, <2>3 DEF ThisChunk
<1>. QED  BY <1>3, <1>18

\* The empty chunk: all others have been passed on.
LEMMA LastChunkStep ==
  ASSUME FlowInv, Reading!LastChunk
  PROVE  FlowInv' /\ Moves
<1>. USE DEF FlowInv
<1>1. /\ phase = "chunk" /\ Reading!HasSize /\ Reading!Size = 0 /\ phase' = "done" /\ claimed' = TRUE
      /\ UNCHANGED <<reader, reply, off, code, buffer, te, out, attempts, leaked, rest, open, truncated>>
  BY DEF Reading!LastChunk, Reading!net
<1>2. Reading!Body' = Reading!Body /\ Symbols' = Symbols
  BY <1>1, BodyStays
<1>3. ~leaked /\ \E i, at, e : ThisChunk(i, at, e)
  BY <1>1, ChunkBegins
<1>4. Len(out) = Len(Reading!Body)
  BY <1>1, <1>3 DEF ThisChunk
<1>5. out \in Seq(Symbols) /\ Lies(out, Reading!Body, 0)
  BY <1>3 DEF FlowTypes, Passed
<1>6. out = Reading!Body
  BY <1>4, <1>5, SentIs, LiesWholly
<1>7. Passed' /\ Moves
  BY <1>1, <1>3, <1>5, <1>6, PassedOn
<1>8. FlowTypes'
  BY <1>1, <1>2 DEF FlowTypes
<1>9. HeaderInv' /\ SourceInv' /\ BlockInv' /\ ChunkInv' /\ LeakInv'
  BY <1>1, <1>3 DEF HeaderInv, SourceInv, BlockInv, ChunkInv, LeakInv
<1>. QED  BY <1>7, <1>8, <1>9

\* What the reader passes on of a chunk is a part of the body.
Piece(S, hg, enc, body, at, c, e, t) ==
  /\ hg \in Seq(S) /\ body \in Seq(S) /\ at \in Nat /\ c \in Nat /\ e \in Nat
  /\ Lies(hg, enc, at + 3) /\ \A j \in 1 .. e : enc[at + 3 + j] = body[c + j]
  /\ c + e <= Len(body)
  /\ t = SubSeq(hg, 1, Reading!Smaller(e, Len(hg)))
PieceOf(S, hg, body, c, e, t) ==
  t \in Seq(S) /\ Len(t) = Reading!Smaller(e, Len(hg)) /\ Lies(t, body, c)

LEMMA PieceLies ==
  ASSUME NEW S, NEW hg, NEW enc, NEW body, NEW at, NEW c, NEW e, NEW t, Piece(S, hg, enc, body, at, c, e, t)
  PROVE  PieceOf(S, hg, body, c, e, t)
<1>. USE DEF Piece
<1>1. PICK n : n = Reading!Smaller(e, Len(hg))
  OBVIOUS
<1>2. n \in 0 .. Len(hg) /\ n <= e /\ n \in Nat /\ Len(hg) \in Nat
  BY <1>1 DEF Reading!Smaller
<1>3. t = SubSeq(hg, 1, n)
  BY <1>1
<1>4. t \in Seq(S) /\ Cutting(t, hg, 0, n)
  BY <1>2, <1>3, Beginning
<1>5. Len(t) = n /\ \A i \in 1 .. n : t[i] = hg[i]
  BY <1>2, <1>4 DEF Cutting
<1>6. ASSUME NEW i \in 1 .. n  PROVE t[i] = body[c + i]
  <2>1. i \in 1 .. Len(hg) /\ i \in 1 .. e
    BY <1>2
  <2>2. hg[i] = enc[(at + 3) + i]
    BY <2>1 DEF Lies
  <2>. QED  BY <1>5, <2>1, <2>2
<1>7. c + n <= Len(body)
  BY <1>2
<1>. QED  BY <1>1, <1>2, <1>4, <1>5, <1>6, <1>7 DEF Lies, PieceOf

\* The buffer begins with the next chunk.
Onward(w, i) ==
  /\ buffer \in Seq(Symbols) /\ Len(out) = Reading!Cut(i + 1)
  /\ Lies(buffer, w, Reading!Start(i + 1))
  /\ Lies(rest, w, Reading!Start(i + 1) + Len(buffer))

\* A chunk is passed on: the buffer then begins with the next one, or is empty
\* because the reply has broken off.
LEMMA NextChunkStep ==
  ASSUME FlowInv, Reading!NextChunk
  PROVE  FlowInv' /\ Moves
<1>. USE DEF FlowInv
<1>1. /\ phase = "chunk" /\ Reading!HasSize /\ Reading!Size > 0
      /\ UNCHANGED <<reader, reply, off, code, phase, te, attempts, leaked, claimed>>
  BY DEF Reading!NextChunk
<1>2. PICK have : have = Reading!Drop(buffer, 3)
  OBVIOUS
<1>3. PICK n : n = Reading!Missing(have)
  OBVIOUS
<1>4. PICK e : e = Reading!Size
  OBVIOUS
<1>5. PICK got \in Reading!ReceivedAll(n) :
        /\ Reading!TakeAll(got, n)
        /\ out' = out \o SubSeq(have \o got, 1, Reading!Smaller(e, Len(have \o got)))
        /\ buffer' = IF n = 0 THEN Reading!Drop(have, e + 2) ELSE <<>>
  BY <1>2, <1>3, <1>4 DEF Reading!NextChunk
<1>6. ~leaked /\ \E i, at : ThisChunk(i, at, e)
  BY <1>1, <1>4, ChunkBegins DEF ThisChunk
<1>7. PICK i, at : ThisChunk(i, at, e)
  BY <1>6
<1>8. PICK w : w = Reading!Encoded
  OBVIOUS
<1>9. /\ w \in Seq(Symbols) /\ buffer \in Seq(Symbols) /\ rest \in Seq(Symbols) /\ out \in Seq(Symbols)
      /\ Reading!Body \in Seq(Symbols) /\ reply \in Replies
      /\ Len(buffer) \in Nat /\ Len(rest) \in Nat /\ Len(out) \in Nat /\ at \in Nat /\ e \in 1 .. 9
  <2>1. /\ w \in Seq(Symbols) /\ Reading!Body \in Seq(Symbols)
        /\ buffer \in Seq(Symbols) /\ rest \in Seq(Symbols) /\ out \in Seq(Symbols) /\ reply \in Replies
    BY <1>8, SentIs DEF FlowTypes
  <2>2. at \in Nat /\ e \in 0 .. 9 /\ e > 0
    BY <1>1, <1>4, <1>7 DEF ThisChunk
  <2>3. e \in 1 .. 9
    BY ONLY <2>2
  <2>. QED  BY <2>1, <2>2, <2>3
<1>10. /\ have \in Seq(Symbols) /\ Len(have) = Len(buffer) - 3 /\ Len(have) \in Nat
       /\ Lies(have, w, at + 3) /\ Lies(rest, w, (at + 3) + Len(have))
  <2>1. Skips(Symbols, buffer, rest, w, at, 3, have)
    BY <1>2, <1>7, <1>8, <1>9 DEF Skips, ThisChunk
  <2>2. Skipped(Symbols, buffer, rest, w, at, 3, have)
    BY ONLY <2>1, Dropped
  <2>. QED  BY <1>7, <2>2 DEF Skipped, ThisChunk
<1>11. n \in Nat /\ (n = 0 <=> Len(have) >= e + 2)
       /\ (reader = "forward" /\ n # 0 => n = e + 2 - Len(have))
  <2>1. n = IF Len(have) >= e + 2 THEN 0
            ELSE IF reader = "forward" \/ Len(have) < e THEN e + 2 - Len(have) ELSE e + 2 + 3
    BY <1>3, <1>4 DEF Reading!Missing
  <2>. QED  BY <1>9, <1>10, <2>1
<1>12. PICK j \in 0 .. Len(rest) : got = SubSeq(rest, 1, j) /\ j <= n
  BY <1>5, <1>9, <1>11 DEF Reading!ReceivedAll, Reading!Smaller
<1>13. PICK hg : hg = have \o got
  OBVIOUS
<1>14. PICK z : z = Reading!Drop(rest, j)
  OBVIOUS
<1>15. /\ Len(got) = j /\ hg \in Seq(Symbols) /\ z \in Seq(Symbols)
       /\ Len(hg) = Len(have) + j /\ Len(z) = Len(rest) - j
       /\ Lies(hg, w, at + 3) /\ Lies(z, w, (at + 3) + Len(hg))
  <2>1. PICK k : k = at + 3
    OBVIOUS
  <2>2. Appends(Symbols, have, rest, w, k, j, hg, z)
    BY <1>9, <1>10, <1>12, <1>13, <1>14, <2>1 DEF Appends
  <2>3. Appended(Symbols, have, rest, w, k, j, hg, z)
    BY ONLY <2>2, Arrived
  <2>. QED  BY <1>12, <2>1, <2>3 DEF Appended
<1>16. PICK t : t = SubSeq(hg, 1, Reading!Smaller(e, Len(hg)))
  OBVIOUS
<1>17. t \in Seq(Symbols) /\ Len(t) = Reading!Smaller(e, Len(hg)) /\ Lies(t, Reading!Body, Len(out))
  <2>1. PICK b : b = Reading!Body
    OBVIOUS
  <2>2. PICK c : c = Len(out)
    OBVIOUS
  <2>3. \A x \in 1 .. e : w[at + 3 + x] = b[c + x]
    BY <1>7, <1>8, <2>1, <2>2 DEF ThisChunk
  <2>4. c + e <= Len(b)
    <3>1. i + 1 \in 1 .. Len(reply.cuts) /\ c = Reading!Cut(i) /\ Reading!Cut(i + 1) = c + e
      BY <1>7, <1>9, <2>2, CutsAre DEF ThisChunk
    <3>2. Reading!Cut(i + 1) \in 0 .. Len(b)
      BY <1>9, <2>1, <3>1, CutsAre
    <3>3. Len(b) \in Nat
      BY <1>9, <2>1
    <3>. QED  BY <3>1, <3>2, <3>3
  <2>5. b \in Seq(Symbols) /\ c \in Nat /\ e \in Nat
    BY <1>9, <2>1, <2>2
  <2>6. Piece(Symbols, hg, w, b, at, c, e, t)
    BY <1>9, <1>15, <1>16, <2>3, <2>4, <2>5 DEF Piece
  <2>7. PieceOf(Symbols, hg, b, c, e, t)
    BY ONLY <2>6, PieceLies
  <2>. QED  BY <2>1, <2>2, <2>7 DEF PieceOf
<1>18. out' = out \o t
  BY <1>5, <1>13, <1>16
<1>19. out' \in Seq(Symbols) /\ Len(out') = Len(out) + Len(t) /\ Lies(out', Reading!Body, 0)
  <2>1. PICK b : b = Reading!Body
    OBVIOUS
  <2>2. b \in Seq(Symbols) /\ Lies(out, b, 0) /\ Lies(t, b, 0 + Len(out)) /\ 0 \in Nat
    BY <1>6, <1>9, <1>17, <2>1 DEF Passed
  <2>3. Lies(out \o t, b, 0)
    BY ONLY <1>9, <1>17, <2>2, LiesTogether
  <2>4. out \o t \in Seq(Symbols) /\ Len(out \o t) = Len(out) + Len(t)
    BY <1>9, <1>17, Concatenation
  <2>. QED  BY <1>18, <2>1, <2>3, <2>4
<1>20. Passed' /\ Moves
  <2>1. Len(out) <= Len(out')
    BY <1>9, <1>17, <1>19
  <2>. QED  BY <1>1, <1>6, <1>19, <2>1, PassedOn
<1>21. /\ Reading!Body' = Reading!Body /\ Reading!Encoded' = Reading!Encoded /\ Symbols' = Symbols
       /\ \A x : Reading!Cut(x)' = Reading!Cut(x) /\ Reading!Start(x)' = Reading!Start(x)
  BY <1>1, BodyStays
<1>22. /\ IF j = n THEN rest' = z /\ open' = open /\ truncated' = truncated
          ELSE rest' = <<>> /\ open' = FALSE /\ truncated' \in BOOLEAN
  BY <1>5, <1>12, <1>14, <1>15 DEF Reading!TakeAll, Reading!Take
<1>23. reader # "forward" => ~open /\ j = 0 /\ rest = <<>>
  BY <1>1, <1>6, <1>9 DEF ChunkInv, FlowTypes
<1>24. HeaderInv' /\ SourceInv' /\ BlockInv' /\ LeakInv'
  BY <1>1, <1>6 DEF HeaderInv, SourceInv, BlockInv, LeakInv
<1>25. rest' \in Seq(Symbols) /\ open' \in BOOLEAN /\ truncated' \in BOOLEAN
       /\ (truncated' => ~open') /\ (open' \/ rest' = <<>>) /\ (reader # "forward" => ~open')
  <2>1. CASE j = n
    <3>1. rest = <<>> => z = <<>>
      BY <1>9, <1>12, <1>15
    <3>. QED  BY <1>15, <1>22, <1>23, <2>1, <3>1 DEF FlowTypes
  <2>2. CASE j # n
    <3>1. rest' = <<>> /\ open' = FALSE /\ truncated' \in BOOLEAN
      BY <1>22, <2>2
    <3>2. rest' \in Seq(Symbols)
      BY <3>1
    <3>3. open' \in BOOLEAN
      BY <3>1
    <3>. QED  BY <3>1, <3>2, <3>3
  <2>. QED  BY <2>1, <2>2
<1>26. ASSUME n = 0  PROVE Onward(w, i)'
  <2>1. Len(have) >= e + 2 /\ j = 0 /\ rest' = z /\ z = rest /\ hg = have
    <3>1. Len(have) >= e + 2 /\ j = 0
      BY <1>11, <1>12, <1>26
    <3>2. z = rest /\ got = <<>>
      BY <1>9, <1>12, <1>14, <3>1 DEF Reading!Drop
    <3>3. hg = have
      BY <1>10, <1>13, <3>2
    <3>4. rest' = z
      BY <1>22, <1>26, <3>1
    <3>. QED  BY <3>1, <3>2, <3>3, <3>4
  <2>2. PICK y : y = buffer'
    OBVIOUS
  <2>3. y = Reading!Drop(have, e + 2)
    BY <1>5, <1>26, <2>2
  <2>4. PICK k : k = at + 3
    OBVIOUS
  <2>5. PICK m : m = e + 2
    OBVIOUS
  <2>6. Skips(Symbols, have, rest, w, k, m, y)
    BY <1>9, <1>10, <2>1, <2>3, <2>4, <2>5 DEF Skips
  <2>7. Skipped(Symbols, have, rest, w, k, m, y)
    BY ONLY <2>6, Dropped
  <2>8. k + m = Reading!Start(i + 1)
    BY <1>7, <1>9, <2>4, <2>5 DEF ThisChunk
  <2>9. /\ buffer' \in Seq(Symbols) /\ Lies(buffer', w, Reading!Start(i + 1))
        /\ Lies(rest', w, Reading!Start(i + 1) + Len(buffer'))
    BY <2>1, <2>2, <2>7, <2>8 DEF Skipped
  <2>10. Len(out') = Reading!Cut(i + 1)
    <3>1. Len(t) = e
      BY <1>9, <1>10, <1>17, <2>1 DEF Reading!Smaller
    <3>. QED  BY <1>7, <1>19, <3>1 DEF ThisChunk
  <2>. QED  BY <1>8, <1>21, <2>9, <2>10 DEF Onward
<1>27. ASSUME n # 0, j = n  PROVE Onward(w, i)'
  <2>1. buffer' = <<>> /\ reader = "forward" /\ Len(hg) = e + 2
    BY <1>5, <1>9, <1>10, <1>11, <1>15, <1>23, <1>27
  <2>2. (at + 3) + Len(hg) = Reading!Start(i + 1)
    BY <1>7, <1>9, <2>1 DEF ThisChunk
  <2>3. rest' = z /\ Lies(z, w, Reading!Start(i + 1))
    BY <1>15, <1>22, <1>27, <2>2
  <2>4. Reading!Start(i + 1) \in Nat /\ Reading!Start(i + 1) <= Len(w)
    <3>1. Reading!Start(i + 1) = at + e + 5 /\ Reading!Start(i + 1) <= Len(Reading!Encoded)
      BY <1>7 DEF ThisChunk
    <3>. QED  BY <1>8, <1>9, <3>1
  <2>5. /\ buffer' \in Seq(Symbols) /\ Lies(buffer', w, Reading!Start(i + 1))
        /\ Lies(rest', w, Reading!Start(i + 1) + Len(buffer'))
    <3>1. Len(<<>>) = 0 /\ Reading!Start(i + 1) + 0 = Reading!Start(i + 1)
      BY <2>4
    <3>2. Lies(<<>>, w, Reading!Start(i + 1))
      BY <2>4 DEF Lies
    <3>. QED  BY <2>1, <2>3, <3>1, <3>2
  <2>6. Len(out') = Reading!Cut(i + 1)
    <3>1. Len(t) = e
      BY <1>9, <1>17, <2>1 DEF Reading!Smaller
    <3>. QED  BY <1>7, <1>19, <3>1 DEF ThisChunk
  <2>. QED  BY <1>8, <1>21, <2>5, <2>6 DEF Onward
<1>28. ASSUME n # 0, j # n  PROVE buffer' = <<>> /\ rest' = <<>>
  BY <1>5, <1>22, <1>28
<1>29. Onward(w, i)' \/ (buffer' = <<>> /\ rest' = <<>>)
  BY <1>26, <1>27, <1>28
<1>30. buffer' \in Seq(Symbols)
  <2>1. CASE Onward(w, i)'
    BY <1>21, <2>1 DEF Onward
  <2>2. CASE buffer' = <<>>
    BY <2>2
  <2>. QED  BY <1>29, <2>1, <2>2
<1>31. FlowTypes'
  BY <1>1, <1>19, <1>21, <1>25, <1>30 DEF FlowTypes
<1>32. ChunkInv'
  <2>1. reader # "file"
    BY <1>1, <1>6 DEF ChunkInv
  <2>2. i + 1 \in 1 .. Len(reply'.cuts) - 1
    <3>1. PICK last : last = Len(reply.cuts)
      OBVIOUS
    <3>2. last \in Nat /\ i \in 1 .. last - 1 /\ i + 1 <= last - 1
      <4>1. last \in Nat
        BY <1>9, <3>1, CutsAre
      <4>2. e > 0
        BY <1>9
      <4>. QED  BY <1>7, <3>1, <4>1, <4>2 DEF ThisChunk
    <3>3. i + 1 \in 1 .. last - 1
      BY ONLY <3>2
    <3>. QED  BY <1>1, <3>1, <3>3
  <2>. QED  BY <1>1, <1>8, <1>21, <1>25, <1>29, <2>1, <2>2 DEF ChunkInv, Onward
<1>. QED  BY <1>20, <1>24, <1>31, <1>32

\* The file is downloaded again, from where it ends.
LEMMA AttemptStep ==
  ASSUME FlowInv, Reading!Attempt
  PROVE  FlowInv' /\ Moves
<1>. USE DEF FlowInv
<1>1. /\ reader = "file" /\ attempts < MaxAttempts /\ attempts' = attempts + 1 /\ off' = Len(out)
      /\ code' \in {200, 416} \cup (IF 0 < off' /\ off' < Len(Reading!Body) THEN {206} ELSE {})
      /\ open' = TRUE /\ truncated' = FALSE /\ buffer' = <<>> /\ phase' = "status"
      /\ UNCHANGED <<reader, reply, te, out, leaked, claimed>>
  BY DEF Reading!Attempt
<1>2. rest' = Reading!Header(FALSE) \o (IF code' = 200 THEN Reading!Body
                                       ELSE IF code' = 206 THEN Reading!Drop(Reading!Body, off') ELSE <<>>)
  BY DEF Reading!Attempt
<1>3. Reading!Body' = Reading!Body /\ Symbols' = Symbols
  BY <1>1, BodyStays
<1>4. ~leaked /\ ~te /\ out \in Seq(Symbols) /\ Len(out) \in Nat
  BY <1>1 DEF FlowTypes, LeakInv
<1>5. code' \in {200, 206, 416}
  BY <1>1
<1>6. Sent(FALSE)' = IF code' = 200 THEN Reading!Body
                     ELSE IF code' = 206 THEN Reading!Drop(Reading!Body, off') ELSE <<>>
  BY <1>1, <1>3 DEF Sent, Reading!Drop
<1>7. rest' = Whole(FALSE)'
  BY <1>2, <1>6 DEF Whole, Reading!Header, Reading!CRLF
<1>8. off' \in 0 .. Len(Reading!Body)
  <2>1. Lies(out, Reading!Body, 0)
    BY <1>4 DEF Passed
  <2>2. Reading!Body \in Seq(Symbols)
    BY SentIs
  <2>. QED  BY <1>1, <1>4, <2>1, <2>2 DEF Lies
<1>9. rest' \in Seq(Symbols)
  <2>1. PICK h : h = Reading!Header(FALSE)
    OBVIOUS
  <2>2. PICK s : s = Sent(FALSE)'
    OBVIOUS
  <2>3. h \in Seq(Symbols)
    BY <2>1, HeaderIs DEF Symbols
  <2>4. s \in Seq(Symbols)
    <3>1. Reading!Body \in Seq(Symbols) /\ Reading!Drop(Reading!Body, off') \in Seq(Symbols)
      BY <1>8, SentIs, Remainder
    <3>2. s \in {Reading!Body, Reading!Drop(Reading!Body, off'), <<>>}
      BY <1>6, <2>2
    <3>3. <<>> \in Seq(Symbols)
      OBVIOUS
    <3>. QED  BY <3>1, <3>2, <3>3
  <2>5. rest' = h \o s
    BY <1>2, <1>6, <2>1, <2>2
  <2>. QED  BY <2>3, <2>4, <2>5
<1>10. FlowTypes'
  <2>1. attempts' \in 0 .. MaxAttempts
    BY <1>1, ConnectionAssumption DEF FlowTypes, Reading!RepliesAssumption
  <2>2. buffer' \in Seq(Symbols)
    BY <1>1
  <2>. QED  BY <1>1, <1>3, <1>4, <1>5, <1>8, <1>9, <2>1, <2>2 DEF FlowTypes
<1>11. Passed' /\ Moves
  BY <1>1, <1>3, <1>4 DEF Passed, Moves
<1>12. HeaderInv'
  <2>1. Arriving(Whole(FALSE), 0)'
    <3>1. PICK w : w = rest'
      OBVIOUS
    <3>2. w \in Seq(Symbols) /\ Len(<<>>) = 0
      BY <1>9, <3>1
    <3>3. Lies(<<>>, w, 0) /\ Lies(w, w, 0 + Len(<<>>)) /\ 0 + Len(<<>>) + Len(w) = Len(w)
      BY <3>2 DEF Lies
    <3>. QED  BY <1>1, <1>7, <3>1, <3>3 DEF Arriving
  <2>2. Unpassed' /\ ~leaked' /\ reader' # "forward" /\ te' = FALSE
    BY <1>1, <1>4 DEF Unpassed, FlowTypes
  <2>3. \E chunked \in BOOLEAN, k \in {0, 3, 6} :
          (/\ Arriving(Whole(chunked), k)
           /\ reader = "file" => ~chunked
           /\ phase = "status" <=> k = 0
           /\ te <=> k = 6
           /\ te => chunked)'
    <3>1. FALSE \in BOOLEAN /\ 0 \in {0, 3, 6} /\ 0 # 6
      OBVIOUS
    <3>2. phase' = "status" <=> 0 = 0
      BY <1>1
    <3>3. te' <=> 0 = 6
      BY <2>2, <3>1
    <3>. QED  BY <2>1, <2>2, <3>1, <3>2, <3>3
  <2>. QED  BY <2>2, <2>3 DEF HeaderInv
<1>13. SourceInv' /\ BlockInv' /\ ChunkInv' /\ LeakInv'
  BY <1>1, <1>4 DEF SourceInv, BlockInv, ChunkInv, LeakInv
<1>. QED  BY <1>10, <1>11, <1>12, <1>13

LEMMA FlowStep == FlowInv /\ [Reading!Next]_readingVars => FlowInv' /\ Passes
<1>. SUFFICES ASSUME FlowInv, [Reading!Next]_readingVars  PROVE FlowInv' /\ Passes
  OBVIOUS
<1>1. CASE Reading!Next
  <2>1. FlowInv' /\ Moves
    BY <1>1, ReadLineStep, FillLineStep, NoLineStep, FlushStep, SourceStep, BlockStep, FillChunkStep,
       NextChunkStep, LastChunkStep, ReadTimesOutStep, KilledStep, AttemptStep, PeerStep
    DEF Reading!Next, Reading!Read
  <2>. QED  BY <2>1, MovesPass DEF FlowInv
<1>2. CASE UNCHANGED readingVars
  <2>1. /\ Reading!Body' = Reading!Body /\ Reading!Encoded' = Reading!Encoded /\ Symbols' = Symbols
        /\ \A i : Reading!Cut(i)' = Reading!Cut(i) /\ Reading!Start(i)' = Reading!Start(i)
        /\ \A chunked : Sent(chunked)' = Sent(chunked) /\ Whole(chunked)' = Whole(chunked)
    BY <1>2, BodyStays, SentStays DEF readingVars
  <2>2. UNCHANGED <<reader, reply, rest, open, off, code, buffer, phase, te, out, attempts,
                    truncated, leaked, claimed>>
    BY <1>2 DEF readingVars
  <2>3. FlowTypes' /\ Passed'
    BY <2>1, <2>2 DEF FlowInv, FlowTypes, Passed
  <2>4. \A w, k : Arriving(w, k)' <=> Arriving(w, k)
    BY <2>2 DEF Arriving
  <2>5. HeaderInv' /\ SourceInv'
    BY <2>1, <2>2, <2>4 DEF FlowInv, HeaderInv, SourceInv, Unpassed
  <2>6. BlockInv'
    BY <2>1, <2>2 DEF FlowInv, BlockInv
  <2>7. ChunkInv'
    BY <2>1, <2>2 DEF FlowInv, ChunkInv
  <2>8. LeakInv'
    BY <2>2 DEF FlowInv, LeakInv, Reading!Digits
  <2>9. Passes
    BY <2>1, <2>2 DEF Passes
  <2>. QED  BY <2>3, <2>5, <2>6, <2>7, <2>8, <2>9 DEF FlowInv
<1>. QED  BY <1>1, <1>2

LEMMA ReadStep == ReadInv /\ [Reading!Next]_readingVars => ReadInv' /\ Passes
BY UnusedStep, FlowStep DEF ReadInv

LEMMA ReadTypes == ReadInv => Reading!TypeOK
<1>1. FlowInv => Reading!TypeOK
  BY DEF FlowInv, FlowTypes, HeaderInv, Reading!TypeOK, Reading!InHeader
<1>2. Reading!Unused => Reading!TypeOK
  <2>1. MaxAttempts \in Nat
    BY ConnectionAssumption DEF Reading!RepliesAssumption
  <2>2. Reading!Unused => Len(Reading!Body) = 0
    BY DEF Reading!Unused, Reading!NoReply, Reading!Body
  <2>3. Reading!Unused => off \in 0 .. Len(Reading!Body) /\ attempts \in 0 .. MaxAttempts
    BY <2>1, <2>2 DEF Reading!Unused, Reading!Rest
  <2>. QED  BY <2>3 DEF Reading!Unused, Reading!Rest, Reading!TypeOK, Reading!InHeader
<1>. QED  BY <1>1, <1>2 DEF ReadInv

LEMMA ReadStart == Init => ReadInv /\ Reading!Promise!Init
<1>1. ASSUME Reading!Init  PROVE FlowInv /\ Reading!Promise!Init
  <2>1. /\ reader \in {"forward", "buffer", "file"} /\ reply \in Replies /\ open = (reader # "file")
        /\ phase = IF reader = "file" THEN "idle" ELSE "status"
        /\ off = 0 /\ code = 200 /\ buffer = <<>> /\ te = FALSE /\ out = <<>>
        /\ attempts = 0 /\ truncated = FALSE /\ leaked = FALSE /\ claimed = FALSE
    BY <1>1 DEF Reading!Init, Reading!Rest
  <2>2. PICK chunked \in BOOLEAN :
          rest = IF reader = "file" THEN <<>>
                 ELSE Reading!Header(chunked) \o (IF chunked THEN Reading!Encoded ELSE Reading!Body)
    BY <1>1 DEF Reading!Init
  <2>3. Reading!Body \in Seq(Symbols) /\ Reading!Encoded \in Seq(Symbols)
    <3>1. \E S : Reading!Body \in Seq(S)
      BY <2>1, CutsAre
    <3>2. \A i \in DOMAIN Reading!Body : Reading!Body[i] \in Symbols
      BY DEF Symbols
    <3>3. Reading!Body \in Seq(Symbols)
      BY <3>1, <3>2
    <3>. QED  BY <2>1, <3>3, EncodedIs
  <2>4. rest \in Seq(Symbols)
    <3>1. Reading!Header(chunked) \in Seq(Symbols)
      BY HeaderIs DEF Symbols
    <3>2. \A s \in Seq(Symbols) : Reading!Header(chunked) \o s \in Seq(Symbols)
      BY <3>1
    <3>. QED  BY <2>2, <2>3, <3>2
  <2>5. FlowTypes
    <3>1. MaxAttempts \in Nat
      BY ConnectionAssumption DEF Reading!RepliesAssumption
    <3>2. buffer \in Seq(Symbols) /\ out \in Seq(Symbols)
      BY <2>1
    <3>3. off \in 0 .. Len(Reading!Body) /\ attempts \in 0 .. MaxAttempts
      BY <2>1, <2>3, <3>1
    <3>. QED  BY <2>1, <2>2, <2>4, <3>2, <3>3 DEF FlowTypes
  <2>6. Passed
    BY <2>1, <2>3 DEF Passed, Lies
  <2>7. HeaderInv
    <3>. SUFFICES ASSUME reader # "file"  PROVE HeaderInv
      BY <2>1 DEF HeaderInv
    <3>1. rest = Whole(chunked)
      BY <2>2 DEF Whole, Sent
    <3>2. Arriving(Whole(chunked), 0)
      <4>1. Len(<<>>) = 0 /\ Lies(<<>>, rest, 0) /\ Lies(rest, rest, 0 + Len(<<>>))
            /\ 0 + Len(<<>>) + Len(rest) = Len(rest)
        BY <2>4 DEF Lies
      <4>. QED  BY <2>1, <3>1, <4>1 DEF Arriving
    <3>3. Len(buffer) <= Limit
      BY <2>1, ConnectionAssumption DEF Reading!RepliesAssumption
    <3>. QED  BY <2>1, <3>2, <3>3 DEF HeaderInv, Unpassed
  <2>8. SourceInv /\ BlockInv /\ ChunkInv /\ LeakInv
    BY <2>1 DEF SourceInv, BlockInv, ChunkInv, LeakInv
  <2>. QED  BY <2>1, <2>5, <2>6, <2>7, <2>8 DEF FlowInv, Reading!Promise!Init
<1>2. Reading!Unused => Reading!Promise!Init
  BY DEF Reading!Unused, Reading!Rest, Reading!Promise!Init
<1>. QED  BY <1>1, <1>2 DEF Init, ReadInv

\* What the readers of replies do is what ByteStream promises, for every reply,
\* every way of cutting it into chunks and pieces, any number of attempts: what
\* is passed on is a beginning of the body, and it is the body when the reader
\* reports the end.
THEOREM RepliesArriveInOrder == FairSpec => ResponseInOrder
<1>1. ReadInv /\ [Next]_vars => ReadInv'
  BY ReadStep, ReadSteps
<1>2. ReadInv /\ [Next]_vars => Passes
  BY ReadStep, ReadSteps
<1>. QED
  BY <1>1, <1>2, ReadTypes, ReadStart, PTL
  DEF FairSpec, ResponseInOrder, Reading!ResponseInOrder, Reading!Promise!Spec, Passes
=============================================================================
