-------------------------------- MODULE Boot --------------------------------
(***************************************************************************)
(* How a page comes up, luci.js: LuCI.require fetches class files, loads   *)
(* what they depend on and instantiates them; the constructor of LuCI asks *)
(* for the core classes and the address for ubus calls; setupDOM probes    *)
(* features, loads the preload classes and starts the page.  Whoever asks  *)
(* for a class is given the one promise in the table classes.              *)
(*                                                                         *)
(* And how one comes up again, reboot.js: behind the restart that it has   *)
(* asked for.                                                              *)
(***************************************************************************)
EXTENDS Naturals

CONSTANTS Classes,   \* class files, as numbers: the order a file names them in
          Core,      \* what the constructor asks for: ui, rpc and form
          Preload,   \* the files in resources/preload
          Views,     \* what scripts in the page ask for
          MaxLost    \* bound: requests that fail

BootAssumption ==
  /\ Classes \subseteq Nat /\ MaxLost \in Nat
  /\ Core \cup Preload \cup Views \subseteq Classes

VARIABLES
  needs,   \* the classes a class file requires; does not change
  class,   \* the entry of each class in the table
  chain,   \* the chain of classes that first asked for it, with itself
  base,    \* rpcBaseURL: unasked, asking, ubus or fallback
  boot,    \* how far the page is
  lost,    \* requests that have failed
  device,  \* "running", "stopping", "down" or "restarted"
  slow,    \* does it take the device longer than the hold-off to stop?
  waiting, \* how far the reboot page is
  pings    \* the pings of the round that is under way

vars == <<needs, class, chain, base, boot, lost>>

TypeOK ==
  /\ needs \in [Classes -> SUBSET Classes]
  /\ class \in [Classes -> {"absent", "fetching", "waiting", "there", "failed"}]
  /\ chain \in [Classes -> SUBSET Classes]
  /\ base \in {"asking", "ubus", "fallback"}
  /\ boot \in {"loading", "probing", "preloading", "up", "dead"}
  /\ lost \in 0 .. MaxLost

Chain(c, from) == {c} \cup from

\* require of all classes of the set asked, by a class with the chain from:
\* what is in the table already is not fetched again.
Requiring(table, asked) ==
  [c \in Classes |-> IF c \in asked /\ table[c] = "absent" THEN "fetching" ELSE table[c]]
Chains(table, asked, from) ==
  [c \in Classes |-> IF c \in asked /\ table[c] = "absent" THEN Chain(c, from) ELSE chain[c]]

\* The constructor; the classes of the core are asked for one by one, and no
\* file is there before all have been.
Init ==
  /\ needs \in [Classes -> SUBSET Classes]
  /\ class = [c \in Classes |-> IF c \in Core THEN "fetching" ELSE "absent"]
  /\ chain = [c \in Classes |-> IF c \in Core THEN {c} ELSE {}]
  /\ base \in {"asking", "ubus", "fallback"}
  /\ boot = "loading"
  /\ lost = 0

\* A page that has not come up.
Unused ==
  /\ needs = [c \in Classes |-> {}]
  /\ class = [c \in Classes |-> "failed"]
  /\ chain = [c \in Classes |-> {c}]
  /\ base = "fallback"
  /\ boot = "dead"
  /\ lost = MaxLost

Loss == lost < MaxLost /\ lost' = lost + 1

\* A script in the page asks for a class.
Require(c) ==
  /\ c \in Views /\ class[c] = "absent"
  /\ class' = Requiring(class, {c})
  /\ chain' = Chains(class, {c}, {})
  /\ UNCHANGED <<needs, base, boot, lost>>

-----------------------------------------------------------------------------
(* compileClass.                                                           *)

Circular(c) == {d \in needs[c] : class[d] # "absent" /\ d \in chain[c]}

\* The file is here: its require lines are gone through in order, up to the
\* first that leads back.
Arrives(c) ==
  LET before == {d \in needs[c] : \A e \in Circular(c) : d < e}
      next   == IF Circular(c) = {} THEN "waiting" ELSE "failed"
  IN  /\ class[c] = "fetching"
      /\ class' = [Requiring(class, before) EXCEPT ![c] = next]
      /\ chain' = Chains(class, before, chain[c])
      /\ UNCHANGED <<needs, base, boot, lost>>

\* No answer, or an error: the rejected promise stays in the table.
IsLost(c) ==
  /\ class[c] = "fetching"
  /\ Loss
  /\ class' = [class EXCEPT ![c] = "failed"]
  /\ UNCHANGED <<needs, chain, base, boot>>

\* Faulty variant of Instantiate: the first dependency that is there will do.
InstantiateEarly(c) ==
  /\ class[c] = "waiting" /\ (needs[c] # {} => \E d \in needs[c] : class[d] = "there")
  /\ class' = [class EXCEPT ![c] = "there"]
  /\ UNCHANGED <<needs, chain, base, boot, lost>>

Instantiate(c) ==
  /\ class[c] = "waiting" /\ \A d \in needs[c] : class[d] = "there"
  /\ class' = [class EXCEPT ![c] = "there"]
  /\ UNCHANGED <<needs, chain, base, boot, lost>>

GiveUp(c) ==
  /\ class[c] = "waiting" /\ \E d \in needs[c] : class[d] = "failed"
  /\ class' = [class EXCEPT ![c] = "failed"]
  /\ UNCHANGED <<needs, chain, base, boot, lost>>

-----------------------------------------------------------------------------
(* The constructor and setupDOM.                                           *)

\* probeRPCBaseURL: any failure of the probe means the fallback, for as long
\* as the browser's session storage remembers it.
Probed(url) ==
  /\ base = "asking"
  /\ base' = url
  /\ IF url = "fallback" THEN Loss ELSE UNCHANGED lost
  /\ UNCHANGED <<needs, class, chain, boot>>

Setup ==
  /\ boot = "loading" /\ base # "asking"
  /\ \A c \in Core : class[c] = "there"
  /\ boot' = "probing"
  /\ UNCHANGED <<needs, class, chain, base, lost>>

SetupFails ==
  /\ boot = "loading" /\ \E c \in Core : class[c] = "failed"
  /\ boot' = "dead"
  /\ UNCHANGED <<needs, class, chain, base, lost>>

\* The features are known, or not; so is the list of preload classes.
Features(listed) ==
  /\ boot = "probing"
  /\ IF listed THEN UNCHANGED lost ELSE Loss
  /\ boot' = IF listed THEN "preloading" ELSE "up"
  /\ class' = IF listed THEN Requiring(class, Preload) ELSE class
  /\ chain' = IF listed THEN Chains(class, Preload, {}) ELSE chain
  /\ UNCHANGED <<needs, base>>

\* Faulty variant of InitDOM: the page waits for every preload class.
InitDOMWhenAllThere ==
  /\ boot = "preloading" /\ \A c \in Preload : class[c] = "there"
  /\ boot' = "up"
  /\ UNCHANGED <<needs, class, chain, base, lost>>

\* Promise.all is settled when all are there or one has failed; finally does
\* not mind.
InitDOM ==
  /\ boot = "preloading"
  /\ (\A c \in Preload : class[c] = "there") \/ \E c \in Preload : class[c] = "failed"
  /\ boot' = "up"
  /\ UNCHANGED <<needs, class, chain, base, lost>>

-----------------------------------------------------------------------------
Loading(c) == Arrives(c) \/ Instantiate(c) \/ GiveUp(c)
Starting == Probed("ubus") \/ Setup \/ SetupFails \/ Features(TRUE) \/ InitDOM

Next ==
  \/ \E c \in Classes : Require(c) \/ Loading(c) \/ IsLost(c)
  \/ Starting \/ Probed("fallback") \/ Features(FALSE)

\* Requests are answered, and promises run their handlers.
Fairness == /\ \A c \in Classes : WF_vars(Loading(c))
            /\ WF_vars(Starting)

FairSpec == Init /\ [][Next]_vars /\ Fairness

-----------------------------------------------------------------------------
\* All classes that class c cannot do without: they are in every set that has
\* what c requires and, with a class, what that one requires.
Closed(S) == \A d \in S : needs[d] \subseteq S
Reaches(c) ==
  {d \in Classes : \A S \in SUBSET Classes : needs[c] \subseteq S /\ Closed(S) => d \in S}

OnCircle(c) == c \in Reaches(c)
Circles(c) == \E d \in Reaches(c) \cup {c} : OnCircle(d)

\* A class is instantiated once, and only when all it depends on, directly or
\* not, is there: never from a file that depends on itself, in whatever order
\* the files arrive and whoever asks for them.
OnlyWhole ==
  \A c \in Classes : class[c] = "there" =>
    /\ ~Circles(c)
    /\ \A d \in Reaches(c) : class[d] = "there"

\* Whoever asks for a class is answered, with the class or with an error,
\* unless the class depends on a circle; it is an error only if a request
\* was lost.
RequireIsAnswered ==
  \A c \in Classes :
    []<>\/ class[c] \in {"absent", "there"}
        \/ class[c] = "failed" /\ lost > 0
        \/ Circles(c)

\* A page whose core classes have arrived comes up, even if preload classes
\* fail, unless one of them depends on a circle.
PageComesUp ==
  (\A c \in Core : class[c] = "there") /\ base # "asking"
    ~> boot = "up" \/ \E c \in Preload : Circles(c)

-----------------------------------------------------------------------------
(* The reboot page, reboot.js, and ui.js awaitReconnect: the container is  *)
(* asked to restart, the page pings it until it answers, and goes there.   *)
(* What restarts the container is outside (kill -9 of the process it waits *)
(* for, and the restart policy it runs under).                             *)

Protocols == {"http", "https"}

rebootVars == <<device, slow, waiting, pings>>

Answers == device # "down"
NoPings == [p \in Protocols |-> "none"]

RebootTypeOK ==
  /\ device \in {"running", "stopping", "down", "restarted"} /\ slow \in BOOLEAN
  /\ waiting \in {"idle", "asked", "holding", "polling", "pinging", "leaving", "loaded", "error"}
  /\ pings \in [Protocols -> {"none", "open", "answered", "failed"}]

RebootInit ==
  /\ device = "running" /\ slow \in BOOLEAN
  /\ waiting = "idle" /\ pings = NoPings

\* Nobody asks for a restart.
NoRestart ==
  /\ device = "running" /\ slow = TRUE
  /\ waiting = "loaded" /\ pings = NoPings

-----------------------------------------------------------------------------
(* The device.                                                             *)

Restart ==
  /\ waiting = "asked" /\ device = "running"
  /\ device' = "stopping"
  /\ UNCHANGED <<slow, waiting, pings>>

Stops == device = "stopping" /\ device' = "down" /\ UNCHANGED <<slow, waiting, pings>>
Starts == device = "down" /\ device' = "restarted" /\ UNCHANGED <<slow, waiting, pings>>

-----------------------------------------------------------------------------
(* The page.                                                               *)

HandleReboot ==
  /\ waiting = "idle"
  /\ waiting' = "asked"
  /\ UNCHANGED <<device, slow, pings>>

\* An answer, whatever its code, and a request that fails or times out all
\* lead to awaitReconnect: an error code raises an error, which is caught.
Settled ==
  /\ waiting = "asked"
  /\ waiting' = "holding"
  /\ UNCHANGED <<device, slow, pings>>

\* Five seconds later the pings are a function of the poll loop.
HoldoffEnds ==
  /\ waiting = "holding"
  /\ device = "stopping" => slow
  /\ waiting' = "polling"
  /\ UNCHANGED <<device, slow, pings>>

Round ==
  /\ waiting = "polling"
  /\ waiting' = "pinging"
  /\ pings' = [p \in Protocols |-> "open"]
  /\ UNCHANGED <<device, slow>>

\* uhttpd listens for http only.
PingAnswered(p) ==
  /\ waiting = "pinging" /\ pings[p] = "open"
  /\ p = "http" /\ Answers
  /\ pings' = [pings EXCEPT ![p] = "answered"]
  /\ UNCHANGED <<device, slow, waiting>>

\* pingDevice gives up after a second.
PingFails(p) ==
  /\ waiting = "pinging" /\ pings[p] = "open"
  /\ pings' = [pings EXCEPT ![p] = "failed"]
  /\ UNCHANGED <<device, slow, waiting>>

\* When all have settled, the loop is stopped or waits for its next round.
RoundEnds ==
  /\ waiting = "pinging" /\ \A p \in Protocols : pings[p] # "open"
  /\ waiting' = IF \E p \in Protocols : pings[p] = "answered" THEN "leaving" ELSE "polling"
  /\ pings' = NoPings
  /\ UNCHANGED <<device, slow>>

\* The browser goes there, or shows an error of its own.
Loads ==
  /\ waiting = "leaving"
  /\ waiting' = IF Answers THEN "loaded" ELSE "error"
  /\ UNCHANGED <<device, slow, pings>>

RebootNext ==
  \/ Restart \/ Stops \/ Starts
  \/ HandleReboot \/ Settled \/ HoldoffEnds \/ Round \/ RoundEnds \/ Loads
  \/ \E p \in Protocols : PingAnswered(p) \/ PingFails(p)

\* The container stops and is started again; timers go off, requests and
\* pings are settled; and a device that answers is heard within the second
\* in some round.
RebootFairness ==
  /\ WF_rebootVars(Stops) /\ WF_rebootVars(Starts)
  /\ WF_rebootVars(Settled \/ HoldoffEnds \/ Round \/ RoundEnds \/ Loads)
  /\ \A p \in Protocols : WF_rebootVars(PingFails(p))
  /\ SF_rebootVars(PingAnswered("http"))

-----------------------------------------------------------------------------
\* Who asks for a restart is taken to the device again, whether the restart
\* was refused, its answer lost or the device gone while it was pinged; unless
\* it stops so slowly that the pings find it before it is gone (ui.js:3955).
PageComesBack == ~slow => (waiting = "asked" ~> waiting = "loaded")
=============================================================================
