---------------------------- MODULE NetworkState ----------------------------
(***************************************************************************)
(* The state cache of network.js: initNetworkState, flushCache, and what   *)
(* getDevices adds to the cache.  A refresh asks the router for everything *)
(* at once, then for the list of hostapd objects; while the first answers  *)
(* are out others join it, while the list is out they start another.  Of   *)
(* what is cached the model keeps its age and which ports are in which     *)
(* bridge; the other fields are copied in the same way.                    *)
(***************************************************************************)
EXTENDS Naturals, FiniteSets

CONSTANTS Ports, Bridges,
          Callers,      \* code that flushes the cache and waits for the answer
          Unset,
          MaxChanges,   \* bound: how often the router's state changes
          MaxRefreshes  \* bound: how many refreshes there are

VARIABLES
  router,   \* the state of the router, with its age
  vlans,    \* the bridge-vlan sections of the UCI cache: bridge and port
  cache,    \* _state
  refresh,  \* the refreshes; those that have ended are forgotten
  current,  \* _init: the refresh to join, Unset while there is none
  call,     \* what each caller waits for
  used      \* refreshes so far

netVars == <<router, vlans, cache, refresh, current, call, used>>

RefreshIds == 1 .. MaxRefreshes
Refreshes == [phase : {"asked", "served", "listing"},
              age : 0 .. MaxChanges, bridge : [Ports -> Bridges \cup {Unset}]]
Calls == [of : RefreshIds, since : 0 .. MaxChanges, alone : BOOLEAN]

StateAssumption ==
  /\ MaxChanges \in Nat /\ MaxRefreshes \in Nat
  /\ Unset \notin RefreshIds /\ Unset \notin Refreshes /\ Unset \notin Calls /\ Unset \notin Bridges

NetTypeOK ==
  /\ router \in [age : 0 .. MaxChanges, bridge : [Ports -> Bridges \cup {Unset}]]
  /\ vlans \subseteq Bridges \X Ports
  /\ cache # Unset => /\ cache.bridge \in [Ports -> Bridges \cup {Unset}]
                      /\ \A p \in Ports : cache.bridge[p] # Unset => p \in cache.members[cache.bridge[p]]
  /\ \A i \in RefreshIds : refresh[i] = Unset \/ refresh[i] \in Refreshes
  /\ current \in RefreshIds \cup {Unset} /\ used \in 0 .. MaxRefreshes
  /\ \A c \in Callers : call[c] = Unset \/ call[c] \in Calls

NetInit ==
  /\ router = [age |-> 0, bridge |-> [p \in Ports |-> Unset]]
  /\ vlans = {} /\ cache = Unset
  /\ refresh = [i \in RefreshIds |-> Unset] /\ current = Unset
  /\ call = [c \in Callers |-> Unset] /\ used = 0

UnderWay == {i \in RefreshIds : refresh[i] # Unset}

\* A cable is moved, a bridge made; somebody edits the bridge's VLANs.
Change(p, b) ==
  /\ router.age < MaxChanges /\ router.bridge[p] # b
  /\ router' = [age |-> router.age + 1, bridge |-> [router.bridge EXCEPT ![p] = b]]
  /\ UNCHANGED <<vlans, cache, refresh, current, call, used>>

EditVlans(b, p) ==
  /\ vlans' = IF <<b, p>> \in vlans THEN vlans \ {<<b, p>>} ELSE vlans \cup {<<b, p>>}
  /\ UNCHANGED <<router, cache, refresh, current, call, used>>

\* initNetworkState(refresh): joins the refresh there is, or starts one.
StartOrJoin ==
  IF current # Unset THEN UNCHANGED <<refresh, current, used>>
  ELSE /\ used < MaxRefreshes
       /\ used' = used + 1 /\ current' = used'
       /\ refresh' = [refresh EXCEPT ![used'] = [phase |-> "asked", age |-> 0,
                                                 bridge |-> [p \in Ports |-> Unset]]]

\* A method is called before there is any state: it waits for _init.
FirstUse ==
  /\ cache = Unset
  /\ current = Unset
  /\ StartOrJoin
  /\ UNCHANGED <<router, vlans, cache, call>>

\* flushCache: waits for the refresh itself.
FlushCache(c) ==
  /\ call[c] = Unset
  /\ StartOrJoin
  /\ call' = [call EXCEPT ![c] = [of |-> current', since |-> router.age,
                                  alone |-> UnderWay = {}]]
  /\ UNCHANGED <<router, vlans, cache>>

\* The router looks its state up.
Serve(i) ==
  /\ refresh[i] # Unset /\ refresh[i].phase = "asked"
  /\ refresh' = [refresh EXCEPT ![i] = [phase |-> "served", age |-> router.age,
                                        bridge |-> router.bridge]]
  /\ UNCHANGED <<router, vlans, cache, current, call, used>>

\* The answers are there: _init is cleared, the list of objects asked for.
Fetched(i) ==
  /\ refresh[i] # Unset /\ refresh[i].phase = "served"
  /\ refresh' = [refresh EXCEPT ![i].phase = "listing"]
  /\ current' = Unset
  /\ UNCHANGED <<router, vlans, cache, call, used>>

\* Faulty variant: a state that is there already is kept.
FilledOnce(s) == IF cache = Unset THEN s ELSE cache

Filled(s) == s

\* The list is there, or has failed: the state is in place, callers go on.
Complete(i) ==
  /\ refresh[i] # Unset /\ refresh[i].phase = "listing"
  /\ cache' = Filled([age     |-> refresh[i].age,
                      bridge  |-> refresh[i].bridge,
                      members |-> [b \in Bridges |-> {p \in Ports : refresh[i].bridge[p] = b}]])
  /\ refresh' = [refresh EXCEPT ![i] = Unset]
  /\ call' = [c \in Callers |-> IF call[c] # Unset /\ call[c].of = i THEN Unset ELSE call[c]]
  /\ UNCHANGED <<router, vlans, current, used>>

\* getDevices writes the ports of the VLANs, saved or not, into the state: a
\* port of several bridges is taken for one of the last.
GetDevices ==
  /\ cache # Unset
  /\ LET new(p) == {b \in Bridges : <<b, p>> \in vlans /\ p \notin cache.members[b]}
     IN  \E last \in [Ports -> Bridges \cup {Unset}] :
           /\ \A p \in Ports : last[p] \in IF new(p) = {} THEN {cache.bridge[p]} ELSE new(p)
           /\ cache' = [cache EXCEPT !.bridge = last,
                          !.members = [b \in Bridges |-> @[b] \cup {p \in Ports : b \in new(p)}]]
  /\ UNCHANGED <<router, vlans, refresh, current, call, used>>

NetNext ==
  \/ FirstUse \/ GetDevices
  \/ \E c \in Callers : FlushCache(c)
  \/ \E i \in RefreshIds : Serve(i) \/ Fetched(i) \/ Complete(i)
  \/ \E p \in Ports, b \in Bridges : EditVlans(b, p)
  \/ \E p \in Ports, b \in Bridges \cup {Unset} : Change(p, b)

NetSpec == NetInit /\ [][NetNext]_netVars

-----------------------------------------------------------------------------
(* Properties.                                                             *)

\* Who flushes the cache while no refresh is under way finds it, when the
\* answer is there, at least as new as the router's state was at the call
\* ("fetches updated information", network.js:766), although further flushes
\* start before the first is done (network.js:523) and may end before it.
FlushIsFresh ==
  \A c \in Callers :
    call[c] # Unset /\ call'[c] = Unset /\ call[c].alone
      => cache'.age >= call[c].since
=============================================================================
