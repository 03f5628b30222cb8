--------------------------- MODULE ToolkitProofs ---------------------------
(***************************************************************************)
(* Proofs about the parts of Toolkit, each for any values of the constants *)
(* that the part has.                                                      *)
(***************************************************************************)
EXTENDS Toolkit, PartProofs

-----------------------------------------------------------------------------
\* A behaviour is of one part.
LEMMA PartStays == ASSUME [Next]_vars  PROVE part' = part
BY DEF Next, vars

-----------------------------------------------------------------------------
(* NetworkState.                                                           *)

\* The refresh that a caller waits for has been served, if it has, after the
\* call.
Awaited(c) ==
  call[c] # Unset =>
    LET r == refresh[call[c].of] IN
    /\ call[c].of \in State!RefreshIds /\ call[c].since \in Nat
    /\ call[c].since <= router.age
    /\ call[c].alone => r # Unset /\ (r.phase = "asked" \/ r.age >= call[c].since)

StateInv ==
  /\ router \in [age : 0 .. MaxChanges, bridge : [Ports -> Bridges \cup {Unset}]]
  /\ refresh \in [State!RefreshIds -> State!Refreshes \cup {Unset}]
  /\ current = Unset \/ (current \in State!RefreshIds /\ refresh[current] # Unset /\ refresh[current].phase # "listing")
  /\ used \in 0 .. MaxRefreshes
  /\ DOMAIN call = Callers /\ \A c \in Callers : Awaited(c)

LEMMA StateConstants ==
  /\ MaxChanges \in Nat /\ MaxRefreshes \in Nat
  /\ Unset \notin State!RefreshIds /\ Unset \notin State!Refreshes /\ Unset \notin State!Calls
BY ToolkitAssumption DEF ToolkitAssumption, State!StateAssumption

\* A refresh that is begun, or joined, is under way and not yet listing.
LEMMA BegunOrJoined ==
  ASSUME StateInv, State!StartOrJoin, UNCHANGED router
  PROVE  /\ refresh' \in [State!RefreshIds -> State!Refreshes \cup {Unset}]
         /\ current' \in State!RefreshIds /\ refresh'[current'] # Unset /\ refresh'[current'].phase # "listing"
         /\ used' \in 0 .. MaxRefreshes
         /\ \A i \in State!RefreshIds :
              refresh[i] # Unset => refresh'[i] # Unset /\ (refresh'[i] = refresh[i] \/ refresh'[i].phase = "asked")
         /\ State!UnderWay = {} => refresh'[current'].phase = "asked"
<1>. USE StateConstants DEF StateInv
<1>1. CASE current # Unset
  BY <1>1 DEF State!StartOrJoin, State!UnderWay
<1>2. CASE current = Unset
  <2>. DEFINE r == [phase |-> "asked", age |-> 0, bridge |-> [p \in Ports |-> Unset]]
  <2>1. used < MaxRefreshes /\ used' = used + 1 /\ current' = used' /\ refresh' = [refresh EXCEPT ![used'] = r]
    BY <1>2 DEF State!StartOrJoin
  <2>2. used' \in State!RefreshIds /\ used' \in 0 .. MaxRefreshes
    BY <2>1 DEF State!RefreshIds
  <2>3. r \in State!Refreshes
    BY DEF State!Refreshes
  <2>4. r # Unset /\ r.phase = "asked"
    BY <2>3
  <2>. HIDE DEF r
  <2>5. refresh'[used'] = r
    BY <2>1, <2>2
  <2>6. \A i \in State!RefreshIds : refresh'[i] = refresh[i] \/ refresh'[i] = r
    BY <2>1
  <2>7. refresh' \in [State!RefreshIds -> State!Refreshes \cup {Unset}]
    BY <2>1, <2>3
  <2>. QED  BY <2>1, <2>2, <2>4, <2>5, <2>6, <2>7
<1>. QED  BY <1>1, <1>2

LEMMA AwaitedStays ==
  ASSUME StateInv, router.age <= router'.age, router'.age \in Nat, NEW c \in Callers,
         router.age \in Nat, call'[c] = call[c],
         \A i \in State!RefreshIds :
           refresh[i] # Unset /\ call[c] # Unset /\ call[c].of = i =>
             /\ refresh'[i] # Unset
             /\ \/ refresh'[i] = refresh[i] \/ refresh'[i].phase = "asked"
                \/ refresh'[i].age = router.age
                \/ refresh[i].phase # "asked" /\ refresh'[i].age = refresh[i].age
  PROVE  Awaited(c)'
BY StateConstants DEF StateInv, Awaited

LEMMA StateStep ==
  ASSUME StateInv, State!NetNext  PROVE StateInv'
<1>. USE StateConstants
<1>a. router.age \in Nat
  BY DEF StateInv
<1>0. \A i \in State!RefreshIds : refresh[i] # Unset => refresh[i] \in State!Refreshes
  BY DEF StateInv
<1>1. CASE State!FirstUse
  <2>1. State!StartOrJoin /\ UNCHANGED router /\ call' = call
    BY <1>1 DEF State!FirstUse
  <2>2. ASSUME NEW c \in Callers  PROVE Awaited(c)'
    BY <2>1, BegunOrJoined, AwaitedStays DEF StateInv
  <2>. QED  BY <2>1, <2>2, BegunOrJoined DEF StateInv
<1>2. ASSUME NEW c \in Callers, State!FlushCache(c)  PROVE StateInv'
  <2>1. /\ State!StartOrJoin /\ UNCHANGED router
        /\ call' = [call EXCEPT ![c] = [of |-> current', since |-> router.age, alone |-> State!UnderWay = {}]]
    BY <1>2 DEF State!FlushCache
  <2>2. Awaited(c)'
    <3>. DEFINE a == State!UnderWay = {}
    <3>1. call'[c] = [of |-> current', since |-> router.age, alone |-> a]
      BY <2>1 DEF StateInv
    <3>2. a => refresh'[current'].phase = "asked"
      BY <2>1, BegunOrJoined
    <3>. HIDE DEF a
    <3>3. current' \in State!RefreshIds /\ refresh'[current'] # Unset
      BY <2>1, BegunOrJoined
    <3>. QED  BY <1>a, <2>1, <3>1, <3>2, <3>3 DEF Awaited
  <2>3. ASSUME NEW d \in Callers, d # c  PROVE Awaited(d)'
    BY <2>1, <2>3, BegunOrJoined, AwaitedStays DEF StateInv
  <2>. QED  BY <2>1, <2>2, <2>3, BegunOrJoined DEF StateInv
<1>3. ASSUME NEW i \in State!RefreshIds, State!Serve(i)  PROVE StateInv'
  <2>. DEFINE r == [phase |-> "served", age |-> router.age, bridge |-> router.bridge]
  <2>1. /\ refresh[i] # Unset /\ refresh[i].phase = "asked"
        /\ refresh' = [refresh EXCEPT ![i] = r]
        /\ UNCHANGED <<router, current, call, used>>
    BY <1>3 DEF State!Serve
  <2>2. r \in State!Refreshes /\ r # Unset
    BY DEF State!Refreshes, StateInv
  <2>3. ASSUME NEW c \in Callers  PROVE Awaited(c)'
    BY <2>1, <2>2, AwaitedStays DEF StateInv
  <2>. QED  BY <2>1, <2>2, <2>3 DEF StateInv
<1>4. ASSUME NEW i \in State!RefreshIds, State!Fetched(i)  PROVE StateInv'
  <2>. DEFINE r == [refresh[i] EXCEPT !.phase = "listing"]
  <2>1. /\ refresh[i] # Unset /\ refresh[i].phase = "served"
        /\ refresh' = [refresh EXCEPT ![i] = r] /\ current' = Unset
        /\ UNCHANGED <<router, call, used>>
    BY <1>4 DEF State!Fetched
  <2>2. r \in State!Refreshes /\ r # Unset /\ r.age = refresh[i].age
    BY <1>0, <2>1 DEF State!Refreshes
  <2>3. ASSUME NEW c \in Callers  PROVE Awaited(c)'
    BY <2>1, <2>2, AwaitedStays DEF StateInv
  <2>. QED  BY <2>1, <2>2, <2>3 DEF StateInv
<1>5. ASSUME NEW i \in State!RefreshIds, State!Complete(i)  PROVE StateInv'
  <2>1. /\ refresh[i] # Unset /\ refresh[i].phase = "listing"
        /\ refresh' = [refresh EXCEPT ![i] = Unset]
        /\ call' = [c \in Callers |-> IF call[c] # Unset /\ call[c].of = i THEN Unset ELSE call[c]]
        /\ UNCHANGED <<router, current, used>>
    BY <1>5 DEF State!Complete
  <2>2. ASSUME NEW c \in Callers  PROVE Awaited(c)'
    <3>1. CASE call[c] # Unset /\ call[c].of = i
      BY <2>1, <3>1 DEF Awaited
    <3>2. CASE ~(call[c] # Unset /\ call[c].of = i)
      BY <2>1, <3>2, AwaitedStays DEF StateInv
    <3>. QED  BY <3>1, <3>2
  <2>. QED  BY <2>1, <2>2 DEF StateInv
<1>6. ASSUME UNCHANGED <<refresh, current, call, used>>,
             router' = router \/ router'.age = router.age + 1,
             router' \in [age : 0 .. MaxChanges, bridge : [Ports -> Bridges \cup {Unset}]]
      PROVE  StateInv'
  <2>1. ASSUME NEW c \in Callers  PROVE Awaited(c)'
    BY <1>6, AwaitedStays DEF StateInv
  <2>. QED  BY <1>6, <2>1 DEF StateInv
<1>7. CASE State!GetDevices
  BY <1>6, <1>7 DEF State!GetDevices, StateInv
<1>8. ASSUME NEW p \in Ports, NEW b \in Bridges, State!EditVlans(b, p)  PROVE StateInv'
  BY <1>6, <1>8 DEF State!EditVlans, StateInv
<1>9. ASSUME NEW p \in Ports, NEW b \in Bridges \cup {Unset}, State!Change(p, b)  PROVE StateInv'
  <2>1. router.age < MaxChanges /\ UNCHANGED <<refresh, current, call, used>>
        /\ router' = [age |-> router.age + 1, bridge |-> [router.bridge EXCEPT ![p] = b]]
    BY <1>9 DEF State!Change
  <2>2. [router.bridge EXCEPT ![p] = b] \in [Ports -> Bridges \cup {Unset}]
    BY DEF StateInv
  <2>3. router.age + 1 \in 0 .. MaxChanges
    BY <1>a, <2>1
  <2>. QED  BY <1>6, <2>1, <2>2, <2>3
<1>. QED  BY <1>1, <1>2, <1>3, <1>4, <1>5, <1>7, <1>8, <1>9 DEF State!NetNext

LEMMA OnlyStateSteps ==
  ASSUME part = "state", [Next]_vars  PROVE State!NetNext \/ UNCHANGED stateVars
BY DEF Next, vars

\* Whoever flushes the cache while no refresh is under way finds it, when the
\* answer is there, at least as new as the router was at the call, however many
\* flushes come in between (network.js:523, 766).
THEOREM FlushesAreFresh == Spec => FlushIsFresh
<1>. DEFINE I == part = "state" => StateInv
<1>1. Init => I
  <2>1. SUFFICES ASSUME part = "state", State!NetInit  PROVE StateInv
    BY DEF Init
  <2>. QED  BY <2>1, StateConstants DEF State!NetInit, StateInv, Awaited
<1>2. I /\ [Next]_vars => I'
  <2>1. SUFFICES ASSUME StateInv, State!NetNext \/ UNCHANGED stateVars  PROVE StateInv'
    BY OnlyStateSteps, PartStays
  <2>2. CASE State!NetNext
    BY <2>1, <2>2, StateStep
  <2>3. CASE UNCHANGED stateVars
    BY <2>1, <2>3 DEF stateVars, StateInv, Awaited
  <2>. QED  BY <2>1, <2>2, <2>3
<1>3. I /\ [Next]_vars => [part = "state" => State!FlushIsFresh]_vars
  <2>1. SUFFICES ASSUME StateInv, State!NetNext \/ UNCHANGED stateVars  PROVE State!FlushIsFresh
    BY OnlyStateSteps
  <2>2. CASE UNCHANGED stateVars
    BY <2>2 DEF stateVars, State!FlushIsFresh
  <2>3. ASSUME NEW i \in State!RefreshIds, State!Complete(i)  PROVE State!FlushIsFresh
    <3>1. /\ refresh[i].phase = "listing" /\ cache'.age = refresh[i].age
          /\ call' = [c \in Callers |-> IF call[c] # Unset /\ call[c].of = i THEN Unset ELSE call[c]]
      BY <2>3 DEF State!Complete, State!Filled
    <3>. QED  BY <2>1, <3>1 DEF State!FlushIsFresh, StateInv, Awaited
  <2>4. CASE State!NetNext
    BY <2>1, <2>3, <2>4 DEF State!NetNext, State!FirstUse, State!GetDevices, State!FlushCache,
       State!Serve, State!Fetched, State!EditVlans, State!Change, State!FlushIsFresh, StateInv
  <2>. QED  BY <2>1, <2>2, <2>4
<1>. QED  BY <1>1, <1>2, <1>3, PTL DEF Spec, FlushIsFresh

-----------------------------------------------------------------------------
(* Network.                                                                *)

\* No section refers to n but, it may be, a zone.
Forgotten(n) ==
  /\ iface[n] = None
  /\ \A r \in Refs : ref[r] # n
  /\ \A w \in Radio : wifi[w] # None => n \notin wifi[w]

Deletions == [phase : {"idle", "called", "checked", "cleaned"}, net : Names \cup {None},
              firewall : BOOLEAN, named : BOOLEAN]

DelType == del \in Deletions /\ (del.phase # "idle" => del.net \in Names)
NetworkTypes == Networks!TypeOK /\ DelType
LEMMA NetworkConstants ==
  /\ Radio \in SUBSET Nat /\ MaxCalls \in Nat
  /\ None \notin Names \cup Devs \cup ZoneIds \cup ZoneNames
  /\ None \notin [name : ZoneNames, nets : SUBSET Names]
BY ToolkitAssumption DEF ToolkitAssumption, Networks!NetworkAssumption

LEMMA NetidIsWifi ==
  ASSUME NEW i \in Radio, Networks!TypeOK, Networks!SidByNetid(i) # None
  PROVE  Networks!SidByNetid(i) \in Radio /\ wifi[Networks!SidByNetid(i)] # None
BY DEF Networks!SidByNetid, Networks!There, Networks!TypeOK

LEMMA NamedKeepsTypes ==
  ASSUME DelType, retired \subseteq Names, NEW n \in Names, Networks!Name(n)
  PROVE  DelType' /\ retired' \subseteq Names /\ del'.phase \in {"idle", "called", "checked", "cleaned"}
<1>1. CASE del.net = n
  BY <1>1 DEF Networks!Name, DelType, Deletions
<1>2. CASE del.net # n
  BY <1>2 DEF Networks!Name, DelType, Deletions
<1>. QED  BY <1>1, <1>2

LEMMA NetworkTypesStep ==
  ASSUME NetworkTypes, Networks!NetworkStep  PROVE NetworkTypes'
<1>. USE NetworkConstants DEF NetworkTypes, Networks!TypeOK, Networks!Call, Networks!sections,
     Networks!ghosts, Networks!AppendValue, Networks!RemoveValue
<1>1. ASSUME NEW n \in Names, NEW d \in Devs, Networks!AddNetwork(n, d)  PROVE NetworkTypes'
  <2>1. iface' \in [Names -> (SUBSET Devs) \cup {None}]
    BY <1>1 DEF Networks!AddNetwork
  <2>. QED  BY <1>1, <2>1, NamedKeepsTypes DEF Networks!AddNetwork
<1>2. ASSUME NEW n \in Names, NEW d \in Devs, Networks!AddDevice(n, d)  PROVE NetworkTypes'
  <2>1. iface' \in [Names -> (SUBSET Devs) \cup {None}]
    BY <1>2 DEF Networks!AddDevice
  <2>. QED  BY <1>2, <2>1, NamedKeepsTypes DEF Networks!AddDevice
<1>3. ASSUME NEW n \in Names, NEW d \in Devs, Networks!DeleteDevice(n, d)  PROVE NetworkTypes'
  BY <1>3 DEF Networks!DeleteDevice, DelType
<1>4. ASSUME NEW old \in Names, NEW new \in Names, Networks!RenameNetwork(old, new)  PROVE NetworkTypes'
  <2>1. iface' \in [Names -> (SUBSET Devs) \cup {None}]
    BY <1>4 DEF Networks!RenameNetwork
  <2>2. ref' \in [Refs -> Names \cup {None}]
    BY <1>4 DEF Networks!RenameNetwork
  <2>3. ASSUME NEW w \in Radio, wifi[w] # None
        PROVE  {IF n = old THEN new ELSE n : n \in wifi[w]} \in SUBSET Names
    BY <2>3
  <2>4. wifi' \in [Radio -> (SUBSET Names) \cup {None}]
    BY <1>4, <2>3 DEF Networks!RenameNetwork
  <2>. QED  BY <1>4, <2>1, <2>2, <2>4, NamedKeepsTypes DEF Networks!RenameNetwork
<1>5. ASSUME NEW n \in Names, NEW firewall \in BOOLEAN, Networks!DeleteNetwork(n, firewall)  PROVE NetworkTypes'
  <2>1. del' = [phase |-> "called", net |-> n, firewall |-> firewall, named |-> FALSE]
    BY <1>5 DEF Networks!DeleteNetwork, Networks!Idle
  <2>2. DelType' /\ del'.phase = "called"
    BY <2>1 DEF DelType, Deletions
  <2>. QED  BY <1>5, <2>2 DEF Networks!DeleteNetwork
<1>6. CASE Networks!DeleteChecks
  BY <1>6 DEF Networks!DeleteChecks, Networks!Idle, DelType, Deletions
<1>7. CASE Networks!DeleteCleans
  <2>1. iface' \in [Names -> (SUBSET Devs) \cup {None}]
    BY <1>7 DEF Networks!DeleteCleans, Networks!Cleans
  <2>2. ref' \in [Refs -> Names \cup {None}]
    BY <1>7 DEF Networks!DeleteCleans, Networks!Cleans
  <2>3. wifi' \in [Radio -> (SUBSET Names) \cup {None}]
    BY <1>7 DEF Networks!DeleteCleans, Networks!Cleans
  <2>4. DelType' /\ del'.phase \in {"idle", "cleaned"}
    BY <1>7 DEF Networks!DeleteCleans, Networks!Idle, DelType, Deletions
  <2>. QED  BY <1>7, <2>1, <2>2, <2>3, <2>4 DEF Networks!DeleteCleans
<1>8. CASE Networks!DeleteLeavesZones
  <2>1. zone' \in [ZoneIds -> [name : ZoneNames, nets : SUBSET Names] \cup {None}]
    <3>1. ASSUME NEW z \in ZoneIds, zone[z] # None
          PROVE  Networks!LeavesZone(zone[z], del.net) \in [name : ZoneNames, nets : SUBSET Names]
      BY <3>1 DEF Networks!LeavesZone
    <3>. QED  BY <1>8, <3>1 DEF Networks!DeleteLeavesZones
  <2>2. del.net \in Names /\ DelType' /\ del'.phase = "idle"
    BY <1>8 DEF Networks!DeleteLeavesZones, Networks!Idle, DelType, Deletions
  <2>. QED  BY <1>8, <2>1, <2>2 DEF Networks!DeleteLeavesZones
<1>9. CASE Networks!Applied
  BY <1>9 DEF Networks!Applied, Networks!There, DelType
<1>10. CASE Networks!FlushCache
  BY <1>10 DEF Networks!FlushCache, DelType
<1>. QED  BY <1>1, <1>2, <1>3, <1>4, <1>5, <1>6, <1>7, <1>8, <1>9, <1>10 DEF Networks!NetworkStep

LEMMA WifiTypesStep ==
  ASSUME NetworkTypes, Networks!WifiStep  PROVE NetworkTypes'
<1>. USE NetworkConstants, NetidIsWifi DEF NetworkTypes, Networks!TypeOK, Networks!Call, Networks!sections,
     Networks!ghosts, Networks!AppendValue, Networks!RemoveValue
<1>1. ASSUME NEW i \in Radio, NEW n \in Names, Networks!AddWifiDevice(n, i)  PROVE NetworkTypes'
  BY <1>1, NamedKeepsTypes DEF Networks!AddWifiDevice
<1>2. ASSUME NEW i \in Radio, NEW n \in Names, Networks!DeleteWifiDevice(n, i)  PROVE NetworkTypes'
  BY <1>2 DEF Networks!DeleteWifiDevice, DelType
<1>3. ASSUME NEW i \in Radio, Networks!DeleteWifiNetwork(i)  PROVE NetworkTypes'
  BY <1>3 DEF Networks!DeleteWifiNetwork, DelType
<1>. QED  BY <1>1, <1>2, <1>3 DEF Networks!WifiStep

LEMMA ZoneTypesStep ==
  ASSUME NetworkTypes, Networks!ZoneStep  PROVE NetworkTypes'
<1>. USE NetworkConstants DEF NetworkTypes, Networks!TypeOK, Networks!Call, Networks!ZoneCall, Networks!KeepsNetworks,
     Networks!sections, Networks!ghosts
<1>. DEFINE Zones == [name : ZoneNames, nets : SUBSET Names]
            Ends == [src : ZoneNames \cup {None}, dest : ZoneNames \cup {None}]
<1>1. ASSUME NEW result \in {"read", "unreadable"}, Networks!LoadFirewall(result)  PROVE NetworkTypes'
  BY <1>1 DEF Networks!LoadFirewall, DelType
<1>2. ASSUME NEW nm \in ZoneNames \cup ZoneIds, Networks!DeleteZone(nm)  PROVE NetworkTypes'
  <2>1. zone' \in [ZoneIds -> Zones \cup {None}] /\ fwd' \in [Fwds -> Ends \cup {None}]
    BY <1>2 DEF Networks!DeleteZone, Networks!WithoutZone
  <2>. QED  BY <1>2, <2>1 DEF Networks!DeleteZone, DelType
<1>3. ASSUME NEW old \in ZoneNames, NEW new \in ZoneNames, Networks!RenameZone(old, new)  PROVE NetworkTypes'
  <2>1. ASSUME NEW z \in ZoneIds, zone[z] # None
        PROVE  [zone[z] EXCEPT !.name = IF @ = old THEN new ELSE @] \in Zones
    BY <2>1
  <2>2. zone' \in [ZoneIds -> Zones \cup {None}]
    BY <1>3, <2>1 DEF Networks!RenameZone
  <2>3. fwd' \in [Fwds -> Ends \cup {None}]
    BY <1>3 DEF Networks!RenameZone
  <2>. QED  BY <1>3, <2>2, <2>3 DEF Networks!RenameZone, DelType
<1>4. ASSUME NEW z \in ZoneIds, NEW nm \in ZoneNames, Networks!AddZone(z, nm)  PROVE NetworkTypes'
  <2>1. zone' \in [ZoneIds -> Zones \cup {None}]
    BY <1>4 DEF Networks!AddZone
  <2>. QED  BY <1>4, <2>1 DEF Networks!AddZone, DelType
<1>5. ASSUME NEW z \in ZoneIds, NEW n \in Names, Networks!ZoneAddNetwork(z, n)  PROVE NetworkTypes'
  <2>1. zone' \in [ZoneIds -> Zones \cup {None}]
    BY <1>5 DEF Networks!ZoneAddNetwork, Networks!AppendValue
  <2>. QED  BY <1>5, <2>1, NamedKeepsTypes DEF Networks!ZoneAddNetwork
<1>6. ASSUME NEW z \in ZoneIds, NEW nm \in ZoneNames \cup ZoneIds, NEW out \in BOOLEAN,
             Networks!AddForwarding(z, nm, out)
      PROVE  NetworkTypes'
  <2>1. \A y \in ZoneIds : Networks!Called(y) \in ZoneNames \cup {None}
    BY DEF Networks!Called
  <2>2. Networks!LookupZone(nm) \in ZoneIds
    BY <1>6 DEF Networks!AddForwarding, Networks!LookupZone, Networks!There
  <2>. DEFINE new == IF out THEN [src |-> Networks!Called(z), dest |-> Networks!Called(Networks!LookupZone(nm))]
                            ELSE [src |-> Networks!Called(Networks!LookupZone(nm)), dest |-> Networks!Called(z)]
              free == CHOOSE f \in Networks!Free(fwd) : TRUE
  <2>3. new \in Ends
    BY <2>1, <2>2
  <2>4. free \in Fwds /\ fwd' = [fwd EXCEPT ![free] = new]
    BY <1>6 DEF Networks!AddForwarding, Networks!Free
  <2>5. fwd' \in [Fwds -> Ends \cup {None}]
    BY <2>3, <2>4
  <2>. QED  BY <1>6, <2>5 DEF Networks!AddForwarding, DelType
<1>7. ASSUME NEW z \in ZoneIds, NEW what \in {"src", "dest"}, Networks!DeleteForwardingsBy(z, what)
      PROVE  NetworkTypes'
  <2>1. fwd' \in [Fwds -> Ends \cup {None}]
    BY <1>7 DEF Networks!DeleteForwardingsBy
  <2>. QED  BY <1>7, <2>1 DEF Networks!DeleteForwardingsBy, DelType
<1>. QED  BY <1>1, <1>2, <1>3, <1>4, <1>5, <1>6, <1>7 DEF Networks!ZoneStep

-----------------------------------------------------------------------------
(* What is deleted stays forgotten.                                        *)

\* Somebody names n.
Named(n) == n \notin retired' /\ (del.net = n => del'.named)

LEMMA NameNames ==
  ASSUME DelType, NEW n, Networks!Name(n)  PROVE Named(n)
BY DEF Networks!Name, Named, DelType, Deletions

\* Only who names a network makes anything refer to it.
LEMMA ForgottenStays ==
  ASSUME NetworkTypes, Networks!Next, NEW n \in Names, Forgotten(n)  PROVE Forgotten(n)' \/ Named(n)
<1>. USE NetworkConstants, NameNames DEF NetworkTypes
<1>1. ASSUME UNCHANGED <<iface, ref, wifi>>  PROVE Forgotten(n)'
  BY <1>1 DEF Forgotten
<1>2. ASSUME NEW m \in Names, NEW d \in Devs, Networks!AddNetwork(m, d) \/ Networks!AddDevice(m, d)
      PROVE  Forgotten(n)' \/ Named(n)
  BY <1>2 DEF Networks!AddNetwork, Networks!AddDevice, Forgotten, Networks!TypeOK
<1>3. ASSUME NEW m \in Names, NEW d \in Devs, Networks!DeleteDevice(m, d)  PROVE Forgotten(n)'
  BY <1>3 DEF Networks!DeleteDevice, Forgotten, Networks!TypeOK
<1>4. ASSUME NEW old \in Names, NEW new \in Names, Networks!RenameNetwork(old, new)  PROVE Forgotten(n)' \/ Named(n)
  <2>1. CASE n = new
    BY <1>4, <2>1 DEF Networks!RenameNetwork
  <2>2. CASE n # new
    <3>1. iface'[n] = None
      BY <1>4, <2>2 DEF Networks!RenameNetwork, Forgotten, Networks!TypeOK
    <3>2. ASSUME NEW r \in Refs  PROVE ref'[r] # n
      BY <1>4, <2>2 DEF Networks!RenameNetwork, Forgotten
    <3>3. ASSUME NEW w \in Radio, wifi'[w] # None  PROVE n \notin wifi'[w]
      BY <1>4, <2>2, <3>3 DEF Networks!RenameNetwork, Forgotten
    <3>. QED  BY <3>1, <3>2, <3>3 DEF Forgotten
  <2>. QED  BY <2>1, <2>2
<1>5. ASSUME NEW m \in Names, NEW firewall \in BOOLEAN, Networks!DeleteNetwork(m, firewall)
      PROVE  Forgotten(n)'
  BY <1>1, <1>5 DEF Networks!DeleteNetwork, Networks!sections
<1>6. CASE Networks!DeleteCleans
  BY <1>6 DEF Networks!DeleteCleans, Networks!Cleans, Networks!RemoveValue, Forgotten, Networks!TypeOK
<1>7. CASE Networks!DeleteChecks \/ Networks!DeleteLeavesZones \/ Networks!Applied \/ Networks!FlushCache
  BY <1>1, <1>7 DEF Networks!DeleteChecks, Networks!DeleteLeavesZones, Networks!Applied, Networks!FlushCache,
     Networks!sections
<1>8. ASSUME NEW i \in Radio, NEW m \in Names, Networks!AddWifiDevice(m, i)  PROVE Forgotten(n)' \/ Named(n)
  BY <1>8, NetidIsWifi DEF Networks!AddWifiDevice, Networks!AppendValue, Forgotten, Networks!TypeOK
<1>9. ASSUME NEW i \in Radio, NEW m \in Names, Networks!DeleteWifiDevice(m, i)  PROVE Forgotten(n)'
  BY <1>9, NetidIsWifi DEF Networks!DeleteWifiDevice, Networks!RemoveValue, Forgotten, Networks!TypeOK
<1>10. ASSUME NEW i \in Radio, Networks!DeleteWifiNetwork(i)  PROVE Forgotten(n)'
  BY <1>10 DEF Networks!DeleteWifiNetwork, Forgotten, Networks!TypeOK
<1>11. CASE Networks!ZoneStep
  BY <1>1, <1>11 DEF Networks!ZoneStep, Networks!KeepsNetworks, Networks!sections, Networks!LoadFirewall,
     Networks!DeleteZone, Networks!RenameZone, Networks!AddZone, Networks!ZoneAddNetwork,
     Networks!AddForwarding, Networks!DeleteForwardingsBy
<1>12. CASE Networks!WifiStep
  BY <1>8, <1>9, <1>10, <1>12 DEF Networks!WifiStep
<1>13. CASE Networks!NetworkStep
  BY <1>2, <1>3, <1>4, <1>5, <1>6, <1>7, <1>13 DEF Networks!NetworkStep
<1>. QED  BY <1>11, <1>12, <1>13 DEF Networks!Next

\* No zone has n.
OutOfZones(n) == \A z \in ZoneIds : zone[z] # None => n \notin zone[z].nets

LEMMA OutOfZonesStays ==
  ASSUME NetworkTypes, Networks!Next, NEW n \in Names, OutOfZones(n)  PROVE OutOfZones(n)' \/ Named(n)
<1>. USE NetworkConstants, NameNames DEF NetworkTypes, Networks!TypeOK
<1>1. CASE UNCHANGED zone
  BY <1>1 DEF OutOfZones
<1>2. CASE Networks!DeleteLeavesZones
  BY <1>2 DEF Networks!DeleteLeavesZones, Networks!LeavesZone, Networks!RemoveValue, OutOfZones
<1>3. ASSUME NEW nm \in ZoneNames \cup ZoneIds, Networks!DeleteZone(nm)  PROVE OutOfZones(n)'
  BY <1>3 DEF Networks!DeleteZone, OutOfZones
<1>4. ASSUME NEW old \in ZoneNames, NEW new \in ZoneNames, Networks!RenameZone(old, new)  PROVE OutOfZones(n)'
  BY <1>4 DEF Networks!RenameZone, OutOfZones
<1>5. ASSUME NEW z \in ZoneIds, NEW nm \in ZoneNames, Networks!AddZone(z, nm)  PROVE OutOfZones(n)'
  BY <1>5 DEF Networks!AddZone, OutOfZones
<1>6. ASSUME NEW z \in ZoneIds, NEW m \in Names, Networks!ZoneAddNetwork(z, m)  PROVE OutOfZones(n)' \/ Named(n)
  BY <1>6 DEF Networks!ZoneAddNetwork, Networks!AppendValue, OutOfZones
<1>7. CASE Networks!ZoneStep
  BY <1>1, <1>3, <1>4, <1>5, <1>6, <1>7 DEF Networks!ZoneStep, Networks!LoadFirewall, Networks!sections,
     Networks!AddForwarding, Networks!DeleteForwardingsBy
<1>8. CASE Networks!WifiStep
  BY <1>1, <1>8 DEF Networks!WifiStep, Networks!AddWifiDevice, Networks!DeleteWifiDevice, Networks!DeleteWifiNetwork
<1>9. CASE Networks!NetworkStep
  BY <1>1, <1>2, <1>9 DEF Networks!NetworkStep, Networks!AddNetwork, Networks!AddDevice, Networks!DeleteDevice,
     Networks!RenameNetwork, Networks!DeleteNetwork, Networks!DeleteChecks, Networks!DeleteCleans, Networks!Applied,
     Networks!FlushCache, Networks!sections
<1>. QED  BY <1>7, <1>8, <1>9 DEF Networks!Next

\* Only DeleteCleans gets a deletion as far as the zones, and only
\* DeleteLeavesZones retires a network.
LEMMA DeletionProgress ==
  ASSUME NetworkTypes, Networks!Next
  PROVE  /\ del'.phase = "cleaned" =>
              \/ Networks!DeleteCleans
              \/ del.phase = "cleaned" /\ del'.net = del.net /\ (del.named => del'.named)
         /\ retired' \subseteq retired \/ Networks!DeleteLeavesZones
<1>. USE DEF NetworkTypes, DelType, Deletions
<1>1. CASE \E n \in Names : Networks!Name(n)
  BY <1>1 DEF Networks!Name
<1>2. CASE UNCHANGED <<del, retired>>
  BY <1>2
<1>3. ASSUME NEW n \in Names, NEW firewall \in BOOLEAN, Networks!DeleteNetwork(n, firewall)
      PROVE  del'.phase = "called" /\ retired' = retired
  BY <1>3 DEF Networks!DeleteNetwork, Networks!Idle, Networks!ghosts
<1>4. CASE Networks!DeleteChecks
  BY <1>4 DEF Networks!DeleteChecks, Networks!Idle, Networks!ghosts
<1>5. CASE Networks!DeleteCleans
  BY <1>5 DEF Networks!DeleteCleans
<1>6. CASE Networks!DeleteLeavesZones
  BY <1>6 DEF Networks!DeleteLeavesZones, Networks!Idle
<1>7. CASE Networks!NetworkStep
  BY <1>1, <1>2, <1>3, <1>4, <1>5, <1>6, <1>7 DEF Networks!NetworkStep, Networks!AddNetwork, Networks!AddDevice,
     Networks!DeleteDevice, Networks!RenameNetwork, Networks!Applied, Networks!FlushCache, Networks!ghosts
<1>8. CASE Networks!WifiStep
  BY <1>1, <1>2, <1>8 DEF Networks!WifiStep, Networks!AddWifiDevice, Networks!DeleteWifiDevice,
     Networks!DeleteWifiNetwork, Networks!ghosts
<1>9. CASE Networks!ZoneStep
  BY <1>1, <1>2, <1>9 DEF Networks!ZoneStep, Networks!LoadFirewall, Networks!DeleteZone, Networks!RenameZone,
     Networks!AddZone, Networks!ZoneAddNetwork, Networks!AddForwarding, Networks!DeleteForwardingsBy, Networks!ghosts
<1>. QED  BY <1>7, <1>8, <1>9 DEF Networks!Next

\* A deletion that has only the zones left to do has left nothing else, unless
\* the network has been named since.
DeletionInv ==
  \A n \in Names :
    /\ del.phase = "cleaned" /\ ~del.named /\ del.net = n => Forgotten(n)
    /\ n \in retired => Forgotten(n) /\ OutOfZones(n)

LEMMA DeletionStep ==
  ASSUME NetworkTypes, DeletionInv, Networks!Next  PROVE DeletionInv'
<1>. USE NetworkConstants
<1>a. NetworkTypes /\ Networks!TypeOK /\ DelType
  BY DEF NetworkTypes
<1>1. ASSUME NEW n \in Names, del'.phase = "cleaned", ~del'.named, del'.net = n  PROVE Forgotten(n)'
  <2>1. CASE Networks!DeleteCleans
    <3>1. del.net = n
      BY <1>a, <1>1, <2>1 DEF Networks!DeleteCleans, Networks!Idle, DelType, Deletions
    <3>2. iface'[n] = None /\ (\A r \in Refs : ref'[r] # n)
      BY <1>a, <2>1, <3>1 DEF Networks!DeleteCleans, Networks!Cleans, Networks!TypeOK
    <3>3. \A w \in Radio : wifi'[w] # None => n \notin wifi'[w]
      BY <2>1, <3>1 DEF Networks!DeleteCleans, Networks!Cleans, Networks!RemoveValue
    <3>. QED  BY <3>1, <3>2, <3>3 DEF Forgotten
  <2>2. CASE ~Networks!DeleteCleans
    <3>1. del.phase = "cleaned" /\ del.net = n /\ ~del.named
      BY <1>1, <2>2, DeletionProgress
    <3>2. Forgotten(n)
      BY <3>1 DEF DeletionInv
    <3>. QED  BY <1>1, <3>1, <3>2, ForgottenStays DEF Named
  <2>. QED  BY <2>1, <2>2
<1>2. ASSUME NEW n \in Names, n \in retired'  PROVE Forgotten(n)' /\ OutOfZones(n)'
  <2>1. CASE n \in retired
    BY <1>2, <2>1, ForgottenStays, OutOfZonesStays DEF DeletionInv, Named
  <2>2. CASE n \notin retired
    <3>1. Networks!DeleteLeavesZones
      BY <1>2, <2>2, DeletionProgress
    <3>2. /\ del.phase = "cleaned" /\ ~del.named /\ del.net = n
          /\ UNCHANGED <<iface, ref, wifi>>
          /\ zone' = [z \in ZoneIds |-> IF zone[z] = None THEN None ELSE Networks!LeavesZone(zone[z], n)]
      BY <1>2, <2>2, <3>1 DEF Networks!DeleteLeavesZones
    <3>3. Forgotten(n)'
      BY <3>2 DEF DeletionInv, Forgotten
    <3>4. OutOfZones(n)'
      BY <1>a, <3>2 DEF OutOfZones, Networks!LeavesZone, Networks!RemoveValue, Networks!TypeOK
    <3>. QED  BY <3>3, <3>4
  <2>. QED  BY <2>1, <2>2
<1>. QED  BY <1>1, <1>2 DEF DeletionInv

-----------------------------------------------------------------------------
(* Zones have names of their own, and the ends of forwardings are zones.   *)

NamesDiffer == \A y, z \in ZoneIds : zone[y] # None /\ zone[z] # None /\ zone[y].name = zone[z].name => y = z
IsZone(nm) == \E z \in ZoneIds : zone[z] # None /\ zone[z].name = nm
EndsAreZones ==
  \A f \in Fwds : fwd[f] # None => \A end \in {fwd[f].src, fwd[f].dest} : end # None => IsZone(end)

LEMMA ZonesConnected ==
  ASSUME Networks!TypeOK  PROVE NamesDiffer /\ EndsAreZones <=> Networks!ForwardingsConnectZones
BY DEF NamesDiffer, EndsAreZones, IsZone, Networks!ForwardingsConnectZones, Networks!There, Networks!TypeOK

LEMMA LookupFails ==
  ASSUME Networks!TypeOK, NEW nm \in ZoneNames, Networks!LookupZone(nm) = None  PROVE ~IsZone(nm)
BY NetworkConstants DEF Networks!LookupZone, Networks!There, Networks!TypeOK, IsZone

ConnectInv == NamesDiffer /\ EndsAreZones

\* Names and ends stay what they are.
LEMMA ConnectedStays ==
  ASSUME Networks!TypeOK, ConnectInv, UNCHANGED fwd,
         DOMAIN zone' = ZoneIds,
         \A z \in ZoneIds : /\ zone[z] = None <=> zone'[z] = None
                            /\ zone[z] # None => zone'[z].name = zone[z].name
  PROVE  ConnectInv'
<1>1. NamesDiffer'
  BY DEF ConnectInv, NamesDiffer
<1>2. \A nm : IsZone(nm) => IsZone(nm)'
  BY DEF IsZone
<1>. QED  BY <1>1, <1>2 DEF ConnectInv, EndsAreZones

LEMMA ConnectStep ==
  ASSUME Networks!TypeOK, ConnectInv, Networks!Next  PROVE ConnectInv'
<1>. USE NetworkConstants DEF ConnectInv
<1>a. /\ zone \in [ZoneIds -> [name : ZoneNames, nets : SUBSET Names] \cup {None}]
      /\ fwd \in [Fwds -> [src : ZoneNames \cup {None}, dest : ZoneNames \cup {None}] \cup {None}]
  BY DEF Networks!TypeOK
<1>0. CASE UNCHANGED <<zone, fwd>>
  BY <1>0 DEF NamesDiffer, EndsAreZones, IsZone
<1>1. CASE Networks!DeleteLeavesZones
  <2>1. ASSUME NEW z \in ZoneIds, zone[z] # None
        PROVE  /\ Networks!LeavesZone(zone[z], del.net) \in [name : ZoneNames, nets : SUBSET Names]
               /\ Networks!LeavesZone(zone[z], del.net).name = zone[z].name
    BY <1>a, <2>1 DEF Networks!LeavesZone, Networks!RemoveValue
  <2>3. DOMAIN zone' = ZoneIds /\ UNCHANGED fwd
    BY <1>a, <1>1 DEF Networks!DeleteLeavesZones
  <2>4. ASSUME NEW z \in ZoneIds
        PROVE  (zone[z] = None <=> zone'[z] = None) /\ (zone[z] # None => zone'[z].name = zone[z].name)
    BY <1>1, <2>1 DEF Networks!DeleteLeavesZones
  <2>. QED  BY <2>3, <2>4, ConnectedStays
<1>2. ASSUME NEW nm \in ZoneNames \cup ZoneIds, Networks!DeleteZone(nm)  PROVE ConnectInv'
  <2>. DEFINE byId == nm \in Networks!There(zone)
              name == IF byId THEN zone[nm].name ELSE nm
              gone == IF byId THEN {nm} ELSE {z \in Networks!There(zone) : zone[z].name = nm}
  <2>1. /\ zone' = [z \in ZoneIds |-> IF z \in gone THEN None ELSE zone[z]]
        /\ fwd' = Networks!WithoutZone(name)
    BY <1>2 DEF Networks!DeleteZone
  <2>2. \A z \in gone : z \in ZoneIds /\ zone[z] # None /\ zone[z].name = name
    BY <1>a DEF Networks!There
  <2>. HIDE DEF name, gone
  <2>3. NamesDiffer'
    BY <2>1 DEF NamesDiffer
  <2>4. \A other : other # name /\ IsZone(other) => IsZone(other)'
    BY <2>1, <2>2 DEF IsZone
  <2>5. ASSUME NEW f \in Fwds, fwd'[f] # None, NEW end \in {fwd'[f].src, fwd'[f].dest}, end # None
        PROVE  IsZone(end)'
    <3>1. fwd[f] # None /\ fwd'[f] = fwd[f] /\ end # name
      BY <2>1, <2>5 DEF Networks!WithoutZone
    <3>. QED  BY <2>4, <2>5, <3>1 DEF EndsAreZones
  <2>. QED  BY <2>3, <2>5 DEF EndsAreZones
<1>3. ASSUME NEW old \in ZoneNames, NEW new \in ZoneNames, Networks!RenameZone(old, new)  PROVE ConnectInv'
  <2>. DEFINE renamed(nm) == IF nm = old THEN new ELSE nm
  <2>1. /\ zone' = [z \in ZoneIds |-> IF zone[z] = None THEN None ELSE [zone[z] EXCEPT !.name = renamed(@)]]
        /\ fwd' = [f \in Fwds |-> IF fwd[f] = None THEN None
                                  ELSE [src |-> renamed(fwd[f].src), dest |-> renamed(fwd[f].dest)]]
        /\ ~IsZone(new)
    BY <1>3, LookupFails DEF Networks!RenameZone
  <2>2. ASSUME NEW z \in ZoneIds, zone[z] # None
        PROVE  zone'[z] # None /\ zone'[z].name = renamed(zone[z].name)
    <3>1. zone'[z] = [zone[z] EXCEPT !.name = renamed(@)]
      BY <2>1, <2>2
    <3>2. zone'[z] \in [name : ZoneNames, nets : SUBSET Names] /\ zone'[z].name = renamed(zone[z].name)
      BY <1>a, <2>2, <3>1
    <3>. QED  BY <3>2
  <2>3. \A z \in ZoneIds : zone[z] = None => zone'[z] = None
    BY <2>1
  <2>4. NamesDiffer'
    BY <2>1, <2>2, <2>3 DEF NamesDiffer, IsZone
  <2>5. \A nm : IsZone(nm) => IsZone(renamed(nm))'
    BY <2>2 DEF IsZone
  <2>. HIDE DEF renamed
  <2>6. ASSUME NEW f \in Fwds, fwd'[f] # None, NEW end \in {fwd'[f].src, fwd'[f].dest}, end # None
        PROVE  IsZone(end)'
    <3>1. /\ fwd[f] # None /\ end \in {renamed(fwd[f].src), renamed(fwd[f].dest)}
      BY <2>1, <2>6
    <3>2. PICK e \in {fwd[f].src, fwd[f].dest} : end = renamed(e)
      BY <3>1
    <3>3. e # None
      BY <2>6, <3>2 DEF renamed
    <3>. QED  BY <2>5, <3>1, <3>2, <3>3 DEF EndsAreZones
  <2>. QED  BY <2>4, <2>6 DEF EndsAreZones
<1>4. ASSUME NEW z \in ZoneIds, NEW nm \in ZoneNames, Networks!AddZone(z, nm)  PROVE ConnectInv'
  <2>1. /\ zone[z] = None /\ ~IsZone(nm) /\ UNCHANGED fwd
        /\ zone' = [zone EXCEPT ![z] = [name |-> nm, nets |-> {}]]
    BY <1>4, LookupFails DEF Networks!AddZone
  <2>2. NamesDiffer'
    BY <1>a, <2>1 DEF NamesDiffer, IsZone
  <2>3. \A other : IsZone(other) => IsZone(other)'
    BY <1>a, <2>1 DEF IsZone
  <2>. QED  BY <2>1, <2>2, <2>3 DEF EndsAreZones
<1>5. ASSUME NEW z \in ZoneIds, NEW n \in Names, Networks!ZoneAddNetwork(z, n)  PROVE ConnectInv'
  <2>1. /\ zone[z] # None /\ UNCHANGED fwd
        /\ zone' = [zone EXCEPT ![z] = [zone[z] EXCEPT !.nets = Networks!AppendValue(zone[z].nets, n)]]
    BY <1>a, <1>5 DEF Networks!ZoneAddNetwork
  <2>2. [zone[z] EXCEPT !.nets = Networks!AppendValue(zone[z].nets, n)] \in [name : ZoneNames, nets : SUBSET Names]
    BY <1>a, <2>1 DEF Networks!AppendValue
  <2>3. ASSUME NEW y \in ZoneIds
        PROVE  (zone[y] = None <=> zone'[y] = None) /\ (zone[y] # None => zone'[y].name = zone[y].name)
    BY <1>a, <2>1, <2>2
  <2>. QED  BY <1>a, <2>1, <2>3, ConnectedStays
<1>6. ASSUME NEW z \in ZoneIds, NEW nm \in ZoneNames \cup ZoneIds, NEW out \in BOOLEAN,
             Networks!AddForwarding(z, nm, out)
      PROVE  ConnectInv'
  <2>1. \A y \in ZoneIds : Networks!Called(y) # None => IsZone(Networks!Called(y))
    BY DEF Networks!Called, IsZone
  <2>2. Networks!LookupZone(nm) \in ZoneIds
    BY <1>a, <1>6 DEF Networks!AddForwarding, Networks!LookupZone, Networks!There
  <2>. DEFINE me == Networks!Called(z)
              it == Networks!Called(Networks!LookupZone(nm))
              new == IF out THEN [src |-> me, dest |-> it] ELSE [src |-> it, dest |-> me]
              free == CHOOSE f \in Networks!Free(fwd) : TRUE
  <2>3. new.src \in {me, it} /\ new.dest \in {me, it}
    OBVIOUS
  <2>4. free \in Fwds /\ fwd' = [fwd EXCEPT ![free] = new] /\ UNCHANGED zone
    BY <1>a, <1>6 DEF Networks!AddForwarding, Networks!Free
  <2>5. \A end \in {me, it} : end # None => IsZone(end)
    BY <2>1, <2>2
  <2>. HIDE DEF new, me, it, free
  <2>6. \A f \in Fwds : fwd'[f] = fwd[f] \/ fwd'[f] = new
    BY <1>a, <2>4
  <2>7. NamesDiffer' /\ \A end : IsZone(end) => IsZone(end)'
    BY <2>4 DEF NamesDiffer, IsZone
  <2>8. ASSUME NEW f \in Fwds, fwd'[f] # None, NEW end \in {fwd'[f].src, fwd'[f].dest}, end # None
        PROVE  IsZone(end)'
    <3>1. CASE fwd'[f] = fwd[f]
      BY <2>7, <2>8, <3>1 DEF EndsAreZones
    <3>2. CASE fwd'[f] = new
      BY <2>3, <2>5, <2>7, <2>8, <3>2
    <3>. QED  BY <2>6, <3>1, <3>2
  <2>. QED  BY <2>7, <2>8 DEF EndsAreZones
<1>7. ASSUME NEW z \in ZoneIds, NEW what \in {"src", "dest"}, Networks!DeleteForwardingsBy(z, what)
      PROVE  ConnectInv'
  <2>1. UNCHANGED zone /\ \A f \in Fwds : fwd'[f] \in {fwd[f], None}
    BY <1>7 DEF Networks!DeleteForwardingsBy
  <2>. QED  BY <2>1 DEF NamesDiffer, EndsAreZones, IsZone
<1>8. CASE Networks!ZoneStep
  BY <1>0, <1>2, <1>3, <1>4, <1>5, <1>6, <1>7, <1>8 DEF Networks!ZoneStep, Networks!LoadFirewall, Networks!sections
<1>9. CASE Networks!WifiStep
  BY <1>0, <1>9 DEF Networks!WifiStep, Networks!AddWifiDevice, Networks!DeleteWifiDevice, Networks!DeleteWifiNetwork
<1>10. CASE Networks!NetworkStep
  BY <1>0, <1>1, <1>10 DEF Networks!NetworkStep, Networks!AddNetwork, Networks!AddDevice, Networks!DeleteDevice,
     Networks!RenameNetwork, Networks!DeleteNetwork, Networks!DeleteChecks, Networks!DeleteCleans, Networks!Applied,
     Networks!FlushCache, Networks!sections
<1>. QED  BY <1>8, <1>9, <1>10 DEF Networks!Next

NetworkInv == NetworkTypes /\ DeletionInv /\ ConnectInv

LEMMA OnlyNetworkSteps ==
  ASSUME part = "network", [Next]_vars  PROVE Networks!Next \/ UNCHANGED networkVars
BY DEF Next, vars

LEMMA NetworkInit == ASSUME Networks!Init  PROVE NetworkInv
<1>. USE NetworkConstants DEF Networks!Init
<1>1. Networks!There(iface) \subseteq Names
  BY DEF Networks!There
<1>2. PICK nm \in ZoneNames, z \in ZoneIds :
        zone = [i \in ZoneIds |-> IF i = z THEN [name |-> nm, nets |-> Networks!There(iface)] ELSE None]
  OBVIOUS
<1>3. zone \in [ZoneIds -> [name : ZoneNames, nets : SUBSET Names] \cup {None}]
  BY <1>1, <1>2
<1>4. wifi \in [Radio -> (SUBSET Names) \cup {None}] /\ ref \in [Refs -> Names \cup {None}]
  BY <1>1
<1>5. NetworkTypes
  BY <1>1, <1>3, <1>4 DEF NetworkTypes, DelType, Deletions, Networks!TypeOK, Networks!Idle
<1>6. DeletionInv
  BY DEF DeletionInv, Networks!Idle
<1>7. ConnectInv
  BY <1>2 DEF ConnectInv, NamesDiffer, EndsAreZones
<1>. QED  BY <1>5, <1>6, <1>7 DEF NetworkInv

LEMMA NetworkInvHolds == Spec => [](part = "network" => NetworkInv)
<1>. DEFINE I == part = "network" => NetworkInv
<1>1. Init => I
  BY NetworkInit DEF Init
<1>2. I /\ [Next]_vars => I'
  <2>1. SUFFICES ASSUME NetworkInv, Networks!Next \/ UNCHANGED networkVars  PROVE NetworkInv'
    BY OnlyNetworkSteps, PartStays
  <2>2. CASE Networks!Next
    <3>1. NetworkTypes'
      BY <2>1, <2>2, NetworkTypesStep, WifiTypesStep, ZoneTypesStep DEF NetworkInv, Networks!Next
    <3>2. DeletionInv' /\ ConnectInv'
      BY <2>1, <2>2, DeletionStep, ConnectStep DEF NetworkInv, NetworkTypes
    <3>. QED  BY <3>1, <3>2 DEF NetworkInv
  <2>3. CASE UNCHANGED networkVars
    BY <2>1, <2>3 DEF networkVars, NetworkInv, NetworkTypes, DelType, Networks!TypeOK, DeletionInv, Forgotten,
       OutOfZones, ConnectInv, NamesDiffer, EndsAreZones, IsZone
  <2>. QED  BY <2>1, <2>2, <2>3
<1>. QED  BY <1>1, <1>2, PTL DEF Spec

\* A network that deleteNetwork has deleted and that nobody has named since is
\* referred to by nothing, whatever else was changed while it waited; and no
\* order of changes leaves a forwarding that leads nowhere (network.js:857-950,
\* firewall.js).
THEOREM DeletedNetworksAreForgotten == Spec => []DeletedIsForgotten
<1>1. ASSUME NetworkInv  PROVE Networks!DeletedIsForgotten /\ Networks!ForwardingsConnectZones
  <2>1. Networks!TypeOK /\ ConnectInv
    BY <1>1 DEF NetworkInv, NetworkTypes
  <2>2. Networks!DeletedIsForgotten
    BY <1>1, <2>1 DEF NetworkInv, DeletionInv, Forgotten, OutOfZones, Networks!DeletedIsForgotten, Networks!There,
       Networks!TypeOK
  <2>. QED  BY <2>1, <2>2, ZonesConnected DEF ConnectInv
<1>2. (part = "network" => NetworkInv) => DeletedIsForgotten
  BY <1>1 DEF DeletedIsForgotten
<1>. QED  BY <1>2, NetworkInvHolds, PTL

-----------------------------------------------------------------------------
(* ClassSystem: PartProofs has the lemmas.                                 *)

LEMMA OnlyClassSteps ==
  ASSUME part = "classes", [Next]_vars  PROVE ClassNext \/ UNCHANGED classVars
BY DEF Next, vars

\* A method that calls super reaches the nearest ancestor that has the method,
\* for any tree of classes, any objects and calls nested as deep as one likes,
\* as long as no other object of its class climbs and no error cuts a climb
\* short; and when all have returned nothing of their climbs is left
\* (luci.js:241-299).
THEOREM SuperReachesTheNext == Spec => []SuperClimbs
<1>. DEFINE I == part = "classes" => ClassInv
<1>1. Init => I
  <2>1. SUFFICES ASSUME part = "classes", ClassInit  PROVE ClassInv
    BY DEF Init
  <2>2. ClassTypes
    BY <2>1 DEF ClassInit, ClassTypes
  <2>3. DOMAIN stack = {}
    BY <2>1 DEF ClassInit
  <2>4. Chained
    BY <2>3 DEF Chained
  <2>. DEFINE h == [n \in Nat |-> 0]
  <2>5. h \in [Nat -> Nat]
    OBVIOUS
  <2>. HIDE DEF h
  <2>6. ASSUME NEW c \in Classes  PROVE Climbing(h, c, stack, context[c], Up, soiled)
    <3>1. Climbers(stack, c) = {} /\ context[c] = <<>>
      BY <2>1, <2>3 DEF Climbers, ClassInit
    <3>2. Len(context[c]) = 0
      BY <3>1
    <3>. QED  BY <3>1, <3>2 DEF Climbing, Climb, Unbroken
  <2>. QED  BY <2>2, <2>4, <2>5, <2>6 DEF ClassInv
<1>2. I /\ [Next]_vars => I'
  <2>1. SUFFICES ASSUME ClassInv, ClassNext \/ UNCHANGED classVars  PROVE ClassInv'
    BY OnlyClassSteps, PartStays
  <2>2. CASE ClassNext
    BY <2>1, <2>2, ClassStep
  <2>3. CASE UNCHANGED classVars
    <3>1. Up' = Up /\ Classes' = Classes
      BY <2>3, UpKept DEF classVars
    <3>2. UNCHANGED <<defines, stack, context, pending, soiled>>
      BY <2>3 DEF classVars
    <3>3. ClassTypes' /\ Chained'
      BY <2>1, <3>2 DEF ClassInv, ClassTypes, Frames, Chained, Begun, SameObject, Classes
    <3>4. PICK h \in [Nat -> Nat] : \A c \in Classes : Climbing(h, c, stack, context[c], Up, soiled)
      BY <2>1 DEF ClassInv
    <3>5. \A c \in Classes' : Climbing(h, c, stack', context'[c], Up', soiled')
      BY <3>1, <3>2, <3>4
    <3>. QED  BY <3>3, <3>5 DEF ClassInv
  <2>. QED  BY <2>1, <2>2, <2>3
<1>3. I => SuperClimbs
  BY ClimbsAreRight DEF SuperClimbs
<1>. QED  BY <1>1, <1>2, <1>3, PTL DEF Spec

-----------------------------------------------------------------------------
(* CbiDepends.                                                             *)

\* The field is shown if and only if it has an alternative that is met.
Settled(f) ==
  Legacy!ParentInDocument(f) => (Legacy!InDocument(f) <=> Legacy!Check(cbiPage.deps[f]))

\* As long as nothing has moved, what the pass has gone by is settled.
CbiInv ==
  /\ Legacy!CbiTypeOK
  /\ \A p \in DOMAIN children : Legacy!InPlace(children[p], cbiPage.index)
  /\ ~moved => \A f \in Legacy!Dependent \ cbiAhead : Settled(f)
  /\ passes = 0 => cbiAhead = {} /\ ~moved

LEMMA CbiConstants ==
  ASSUME NEW s \in Shapes
  PROVE  /\ DOMAIN s.index = DOMAIN s.parent /\ DOMAIN s.deps = DOMAIN s.parent
         /\ \A f, g \in DOMAIN s.parent : s.index[f] \in Nat /\ (s.index[f] = s.index[g] => f = g)
         /\ Top \notin DOMAIN s.parent
         /\ \A f \in DOMAIN s.parent : s.parent[f] \in DOMAIN s.parent \cup {Top}
         /\ DOMAIN s.children = DOMAIN s.parent \cup {Top}
         /\ \A p \in DOMAIN s.children : /\ s.children[p] \in Seq({f \in DOMAIN s.parent : s.parent[f] = p})
                                         /\ Legacy!InPlace(s.children[p], s.index)
BY ToolkitAssumption DEF ToolkitAssumption, Legacy!CbiAssumption, Legacy!Draws

\* A field that its parent holds is where its parent is.
LEMMA InDocumentUp ==
  ASSUME Legacy!CbiTypeOK, NEW f \in Legacy!Fields
  PROVE  Legacy!InDocument(f) <=> f \in Legacy!Range(children[cbiPage.parent[f]]) /\ Legacy!ParentInDocument(f)
<1>1. ASSUME Legacy!InDocument(f)
      PROVE  f \in Legacy!Range(children[cbiPage.parent[f]]) /\ Legacy!ParentInDocument(f)
  <2>1. PICK line \in SUBSET Legacy!Fields :
          /\ f \in line
          /\ \A g \in line : /\ g \in Legacy!Range(children[cbiPage.parent[g]])
                             /\ cbiPage.parent[g] \in line \cup {Top}
    BY <1>1 DEF Legacy!InDocument
  <2>2. cbiPage.parent[f] # Top => cbiPage.parent[f] \in line
    BY <2>1
  <2>. QED  BY <2>1, <2>2 DEF Legacy!ParentInDocument, Legacy!InDocument
<1>2. ASSUME f \in Legacy!Range(children[cbiPage.parent[f]]), Legacy!ParentInDocument(f)
      PROVE  Legacy!InDocument(f)
  <2>1. CASE cbiPage.parent[f] = Top
    <3>. DEFINE line == {f}
    <3>1. line \in SUBSET Legacy!Fields /\ f \in line
      OBVIOUS
    <3>2. \A g \in line : g \in Legacy!Range(children[cbiPage.parent[g]]) /\ cbiPage.parent[g] \in line \cup {Top}
      BY <1>2, <2>1
    <3>. QED  BY <3>1, <3>2 DEF Legacy!InDocument
  <2>2. CASE cbiPage.parent[f] # Top
    <3>1. PICK above \in SUBSET Legacy!Fields :
            /\ cbiPage.parent[f] \in above
            /\ \A g \in above : /\ g \in Legacy!Range(children[cbiPage.parent[g]])
                                /\ cbiPage.parent[g] \in above \cup {Top}
      BY <1>2, <2>2 DEF Legacy!ParentInDocument, Legacy!InDocument
    <3>. DEFINE line == above \cup {f}
    <3>2. line \in SUBSET Legacy!Fields /\ f \in line
      OBVIOUS
    <3>3. \A g \in line : g \in Legacy!Range(children[cbiPage.parent[g]]) /\ cbiPage.parent[g] \in line \cup {Top}
      BY <1>2, <3>1
    <3>. QED  BY <3>2, <3>3 DEF Legacy!InDocument
  <2>. QED  BY <2>1, <2>2
<1>. QED  BY <1>1, <1>2

\* A sequence of two parts.
\* A field that is taken out of its place leaves the others in theirs.
LEMMA WithoutInPlace ==
  ASSUME NEW S, NEW seq \in Seq(S), NEW index, \A g \in S : index[g] \in Nat,
         Legacy!InPlace(seq, index), NEW f \in Legacy!Range(seq)
  PROVE  Legacy!Without(seq, f) \in Seq(S) /\ Legacy!InPlace(Legacy!Without(seq, f), index)
<1>. DEFINE i == CHOOSE j \in DOMAIN seq : seq[j] = f
            n == Len(seq)
            r == RemoveAt(seq, i)
<1>1. i \in DOMAIN seq
  BY DEF Legacy!Range
<1>2. n \in Nat /\ i \in 1 .. n /\ DOMAIN seq = 1 .. n
  BY <1>1
<1>3. Legacy!Without(seq, f) = r
  BY DEF Legacy!Without, Legacy!RemoveAt, RemoveAt
<1>. HIDE DEF i
<1>4. r \in Seq(S) /\ DOMAIN r = 1 .. n - 1 /\ TakenFrom(r, seq, n, i)
  BY <1>2, TakenOut
<1>. HIDE DEF n, r
<1>. DEFINE a == [k \in 1 .. n |-> index[seq[k]]]
            b == [k \in 1 .. n - 1 |-> index[r[k]]]
<1>5. \A k \in 1 .. n : a[k] \in Int
  BY <1>2
<1>6. \A k, l \in 1 .. n : k < l => a[k] < a[l]
  BY <1>2 DEF Legacy!InPlace
<1>7. TakenFrom(b, a, n, i)
  <2>1. \A k \in 1 .. i - 1 : k \in 1 .. n /\ k \in 1 .. n - 1
    BY ONLY <1>2
  <2>2. \A k \in i .. n - 1 : k + 1 \in 1 .. n /\ k \in 1 .. n - 1
    BY ONLY <1>2
  <2>. QED  BY <1>4, <2>1, <2>2 DEF TakenFrom
<1>. HIDE DEF a, b
<1>8. \A k, l \in 1 .. n - 1 : k < l => b[k] < b[l]
  BY ONLY <1>2, <1>5, <1>6, <1>7, RisesWithout
<1>. QED  BY <1>3, <1>4, <1>8 DEF b, Legacy!InPlace

\* A field that is put back stands before the first with a greater index.
LEMMA InsertedInPlace ==
  ASSUME Legacy!CbiTypeOK, NEW S \in SUBSET Legacy!Fields, NEW seq \in Seq(S),
         Legacy!InPlace(seq, cbiPage.index), NEW f \in S, f \notin Legacy!Range(seq)
  PROVE  /\ Legacy!Inserted(seq, f) \in Seq(S)
         /\ Legacy!InPlace(Legacy!Inserted(seq, f), cbiPage.index)
<1>. DEFINE n == Len(seq)
            index == cbiPage.index
            later == {j \in DOMAIN seq : index[seq[j]] > index[f]}
            i == Legacy!Min(later \cup {n + 1})
            r == InsertAt(seq, i, f)
<1>1. n = Len(seq) /\ n \in Nat /\ DOMAIN seq = 1 .. n
  OBVIOUS
<1>2. \A g, e \in Legacy!Fields : index[g] \in Nat /\ (index[g] = index[e] => g = e)
  BY CbiConstants DEF Legacy!CbiTypeOK, Legacy!Fields
<1>3. \A k \in 1 .. n : seq[k] \in S /\ seq[k] \in Legacy!Fields /\ seq[k] # f
  BY <1>1 DEF Legacy!Range
<1>4. i \in 1 .. n + 1 /\ (\A k \in 1 .. i - 1 : k \in 1 .. n /\ k \notin later) /\ (i \in 1 .. n => i \in later)
  <2>. DEFINE T == later \cup {n + 1}
  <2>1. T \in SUBSET (1 .. n + 1) /\ T # {}
    BY <1>1
  <2>2. i = Min(T)
    BY DEF Legacy!Min, Min
  <2>. HIDE DEF T, i, n
  <2>3. i \in T /\ \A k \in T : i <= k
    BY ONLY <1>1, <2>1, <2>2, LeastIsIn, n + 1 \in Nat
  <2>4. i \in 1 .. n + 1
    BY <2>1, <2>3
  <2>5. \A k \in 1 .. i - 1 : k \in 1 .. n /\ ~(i <= k)
    BY ONLY <1>1, <2>4
  <2>6. i \in 1 .. n => i # n + 1
    BY ONLY <1>1
  <2>. QED  BY <2>3, <2>4, <2>5, <2>6 DEF T
<1>5. Legacy!Inserted(seq, f) = r
  BY DEF Legacy!Inserted, Legacy!InsertAt, InsertAt
<1>. HIDE DEF n, index, later, i
<1>6. r \in Seq(S) /\ DOMAIN r = 1 .. n + 1 /\ PutInto(r, seq, n, i, f)
  <2>1. n \in Nat /\ n = Len(seq) /\ i \in 1 .. n + 1
    BY <1>1, <1>4
  <2>. QED  BY ONLY <2>1, seq \in Seq(S), f \in S, PutIn
<1>. HIDE DEF r
<1>. DEFINE a == [k \in 1 .. n |-> index[seq[k]]]
            b == [k \in 1 .. n + 1 |-> index[r[k]]]
            x == index[f]
<1>7. \A k \in 1 .. n : a[k] = index[seq[k]] /\ a[k] \in Int /\ x \in Int /\ a[k] # x
  BY <1>2, <1>3
<1>8. \A k, l \in 1 .. n : k < l => a[k] < a[l]
  BY <1>1 DEF Legacy!InPlace, index
<1>9. \A k \in 1 .. i - 1 : a[k] < x
  <2>1. \A k \in 1 .. i - 1 : k \in 1 .. n /\ ~(index[seq[k]] > x)
    BY <1>1, <1>4 DEF later
  <2>. HIDE DEF a, x
  <2>. QED  BY <1>7, <2>1
<1>10. i \in 1 .. n => x < a[i]
  BY <1>4, <1>7 DEF later
<1>11. PutInto(b, a, n, i, x)
  <2>1. \A k \in 1 .. i - 1 : k \in 1 .. n /\ k \in 1 .. n + 1
    BY ONLY <1>1, <1>4
  <2>2. \A k \in i + 1 .. n + 1 : k - 1 \in 1 .. n /\ k \in 1 .. n + 1
    BY ONLY <1>1, <1>4
  <2>. QED  BY <1>4, <1>6, <2>1, <2>2 DEF PutInto
<1>12. x \in Int
  BY <1>2
<1>. HIDE DEF a, b, x
<1>13. \A k, l \in 1 .. n + 1 : k < l => b[k] < b[l]
  BY ONLY <1>1, <1>4, <1>7, <1>8, <1>9, <1>10, <1>11, <1>12, RisesWith
<1>. QED  BY <1>5, <1>6, <1>13 DEF b, index, Legacy!InPlace

\* What is settled remains so while nothing changes.
LEMMA SettledSame ==
  ASSUME UNCHANGED <<cbiPage, children, inputs>>
  PROVE  /\ Legacy!Fields' = Legacy!Fields /\ Legacy!Dependent' = Legacy!Dependent
         /\ \A f : Settled(f)' = Settled(f)
<1>1. Legacy!Fields' = Legacy!Fields /\ Legacy!Dependent' = Legacy!Dependent
  BY DEF Legacy!Fields, Legacy!Dependent
<1>2. \A e : Legacy!InDocument(e)' = Legacy!InDocument(e)
  BY <1>1 DEF Legacy!InDocument
<1>3. \A f : Legacy!ParentInDocument(f)' = Legacy!ParentInDocument(f)
  BY <1>2 DEF Legacy!ParentInDocument
<1>4. \A f : Legacy!Check(cbiPage.deps[f])' = Legacy!Check(cbiPage.deps[f])
  BY <1>2 DEF Legacy!Check, Legacy!Met, Legacy!CheckValue
<1>. QED  BY <1>1, <1>2, <1>3, <1>4 DEF Settled

LEMMA EntryStep ==
  ASSUME CbiInv, NEW f, Legacy!Entry(f)  PROVE CbiInv'
<1>. DEFINE p == cbiPage.parent[f]
            holds == Legacy!Check(cbiPage.deps[f])
            out == Legacy!InDocument(f) /\ ~holds
            back == ~Legacy!InDocument(f) /\ Legacy!ParentInDocument(f) /\ holds
<1>1. /\ f \in cbiAhead /\ cbiAhead' = cbiAhead \ {f}
      /\ moved' = (moved \/ out \/ back)
      /\ UNCHANGED <<cbiPage, inputs, passes, entered>>
      /\ children' = IF out THEN [children EXCEPT ![p] = Legacy!Without(@, f)]
                     ELSE IF back THEN [children EXCEPT ![p] = Legacy!Inserted(@, f)]
                     ELSE children
  BY DEF Legacy!Entry, Legacy!Foremost
<1>2. Legacy!CbiTypeOK
  BY DEF CbiInv
<1>3. /\ f \in Legacy!Fields /\ f \in Legacy!Dependent /\ p \in DOMAIN children
      /\ cbiPage \in Shapes /\ DOMAIN children = Legacy!Fields \cup {Top}
      /\ \A g \in Legacy!Fields : cbiPage.index[g] \in Nat
  BY <1>1, <1>2, CbiConstants DEF Legacy!CbiTypeOK, Legacy!Dependent, Legacy!Fields
<1>. DEFINE S == {g \in Legacy!Fields : cbiPage.parent[g] = p}
<1>4. children[p] \in Seq(S) /\ Legacy!InPlace(children[p], cbiPage.index) /\ f \in S
  BY <1>2, <1>3 DEF CbiInv, Legacy!CbiTypeOK
<1>5. out => f \in Legacy!Range(children[p])
  BY <1>2, <1>3, InDocumentUp
<1>6. back => f \notin Legacy!Range(children[p])
  BY <1>2, <1>3, InDocumentUp
<1>7. ASSUME out  PROVE Legacy!Without(children[p], f) \in Seq(S) /\ Legacy!InPlace(Legacy!Without(children[p], f), cbiPage.index)
  <2>1. \A g \in S : cbiPage.index[g] \in Nat
    BY <1>3
  <2>. QED  BY <1>4, <1>5, <1>7, <2>1, WithoutInPlace
<1>8. ASSUME back  PROVE Legacy!Inserted(children[p], f) \in Seq(S) /\ Legacy!InPlace(Legacy!Inserted(children[p], f), cbiPage.index)
  <2>1. S \in SUBSET Legacy!Fields
    OBVIOUS
  <2>. QED  BY <1>2, <1>4, <1>6, <1>8, <2>1, InsertedInPlace
<1>. HIDE DEF out, back, S
<1>9. /\ DOMAIN children' = DOMAIN children
      /\ \A q \in DOMAIN children : q # p => children'[q] = children[q]
      /\ children'[p] \in Seq(S) /\ Legacy!InPlace(children'[p], cbiPage.index)
  <2>1. CASE out
    BY <1>1, <1>3, <1>7, <2>1
  <2>2. CASE ~out /\ back
    BY <1>1, <1>3, <1>8, <2>2
  <2>3. CASE ~out /\ ~back
    BY <1>1, <1>3, <1>4, <2>3
  <2>. QED  BY <2>1, <2>2, <2>3
<1>10. Legacy!Fields' = Legacy!Fields /\ Legacy!Dependent' = Legacy!Dependent
  BY <1>1 DEF Legacy!Fields, Legacy!Dependent
<1>11. ASSUME NEW q \in DOMAIN children
       PROVE  /\ children'[q] \in Seq({g \in Legacy!Fields : cbiPage.parent[g] = q})
              /\ Legacy!InPlace(children'[q], cbiPage.index)
  BY <1>2, <1>9 DEF CbiInv, Legacy!CbiTypeOK, S
<1>12. Legacy!CbiTypeOK'
  BY <1>1, <1>2, <1>9, <1>10, <1>11 DEF Legacy!CbiTypeOK
<1>13. ~moved' => \A g \in Legacy!Dependent' \ cbiAhead' : Settled(g)'
  <2>. SUFFICES ASSUME ~moved', NEW g \in Legacy!Dependent, g \notin cbiAhead \/ g = f  PROVE Settled(g)'
    BY <1>1, <1>10
  <2>1. ~moved /\ ~out /\ ~back /\ children' = children
    BY <1>1
  <2>2. Settled(g)
    <3>1. CASE g # f
      BY <2>1, <3>1 DEF CbiInv
    <3>2. CASE g = f
      BY <1>2, <1>3, <2>1, <3>2, InDocumentUp DEF Settled, out, back
    <3>. QED  BY <3>1, <3>2
  <2>3. UNCHANGED <<cbiPage, children, inputs>>
    BY <1>1, <2>1
  <2>. QED  BY <2>2, <2>3, SettledSame
<1>14. passes' = 0 => cbiAhead' = {} /\ ~moved'
  BY <1>1 DEF CbiInv
<1>. QED  BY <1>1, <1>9, <1>11, <1>12, <1>13, <1>14 DEF CbiInv

LEMMA CbiStep ==
  ASSUME CbiInv, Legacy!Next  PROVE CbiInv'
<1>1. Legacy!CbiTypeOK
  BY DEF CbiInv
<1>2. ASSUME NEW f \in cbiAhead, Legacy!Entry(f)  PROVE CbiInv'
  BY <1>2, EntryStep
<1>3. CASE Legacy!Finish
  <2>1. /\ cbiAhead = {} /\ passes \in Nat /\ moved' = FALSE
        /\ cbiAhead' = (IF moved THEN Legacy!Dependent ELSE {})
        /\ passes' = (IF moved THEN passes + 1 ELSE 0)
        /\ UNCHANGED <<cbiPage, children, inputs, entered>>
    BY <1>1, <1>3 DEF Legacy!Finish, Legacy!Unsettled, Legacy!Fresh, Legacy!CbiTypeOK
  <2>2. Legacy!Fields' = Legacy!Fields /\ Legacy!Dependent' = Legacy!Dependent
    BY <2>1, SettledSame
  <2>3. Legacy!CbiTypeOK'
    <3>1. cbiAhead' \in SUBSET Legacy!Dependent /\ passes' \in Nat /\ moved' \in BOOLEAN
      <4>1. cbiAhead' \subseteq Legacy!Dependent
        BY <2>1
      <4>2. passes + 1 \in Nat /\ 0 \in Nat
        BY <2>1
      <4>3. passes' \in Nat
        BY <2>1, <4>2, Zenon
      <4>. QED  BY <2>1, <4>1, <4>3
    <3>. QED  BY <1>1, <2>1, <2>2, <3>1 DEF Legacy!CbiTypeOK
  <2>4. \A p \in DOMAIN children' : Legacy!InPlace(children'[p], cbiPage'.index)
    BY <2>1 DEF CbiInv
  <2>5. ~moved' => \A f \in Legacy!Dependent' \ cbiAhead' : Settled(f)'
    <3>1. \A f : Settled(f)' = Settled(f)
      BY <2>1, SettledSame
    <3>. QED  BY <2>1, <2>2, <3>1 DEF CbiInv
  <2>6. passes' = 0 => cbiAhead' = {} /\ ~moved'
    BY <2>1
  <2>. QED  BY <2>3, <2>4, <2>5, <2>6 DEF CbiInv
<1>4. ASSUME NEW f \in Legacy!Fields, NEW v \in Values, Legacy!Input(f, v)  PROVE CbiInv'
  <2>1. /\ cbiAhead' = Legacy!Dependent /\ passes' = 1
        /\ inputs' = [inputs EXCEPT ![f] = v] /\ UNCHANGED <<cbiPage, children, moved>>
    BY <1>4 DEF Legacy!Input
  <2>2. Legacy!Fields' = Legacy!Fields /\ Legacy!Dependent' = Legacy!Dependent
    BY <2>1 DEF Legacy!Fields, Legacy!Dependent
  <2>3. Legacy!CbiTypeOK'
    BY <1>1, <2>1, <2>2 DEF Legacy!CbiTypeOK
  <2>. QED  BY <2>1, <2>2, <2>3 DEF CbiInv
<1>. QED  BY <1>2, <1>3, <1>4 DEF Legacy!Next

LEMMA CbiMeans ==
  ASSUME CbiInv  PROVE Legacy!OnlyMetAreShown
<1>. SUFFICES ASSUME passes = 0  PROVE
       LET is(c) == IF Legacy!InDocument(c.on) THEN inputs[c.on] = c.is ELSE c.is = ""
           met(a) == (~a.default /\ \A c \in a.conds : is(c)) # a.reverse
       IN  /\ \A f \in Legacy!Dependent :
                Legacy!ParentInDocument(f) =>
                  (Legacy!InDocument(f) <=> \E a \in Legacy!Range(cbiPage.deps[f]) : met(a) \/ a.default)
           /\ \A p \in DOMAIN children : Legacy!InPlace(children[p], cbiPage.index)
  BY DEF Legacy!OnlyMetAreShown
<1>. DEFINE is(c) == IF Legacy!InDocument(c.on) THEN inputs[c.on] = c.is ELSE c.is = ""
            met(a) == (~a.default /\ \A c \in a.conds : is(c)) # a.reverse
<1>1. \A f \in Legacy!Dependent : Settled(f)
  BY DEF CbiInv
<1>2. \A a : met(a) <=> Legacy!Met(a)
  BY DEF Legacy!Met, Legacy!CheckValue
<1>. HIDE DEF met
<1>3. \A deps : Legacy!Check(deps) <=> \E a \in Legacy!Range(deps) : met(a) \/ a.default
  BY <1>2 DEF Legacy!Check, Legacy!Range
<1>4. \A f \in Legacy!Dependent :
        Legacy!ParentInDocument(f) =>
          (Legacy!InDocument(f) <=> \E a \in Legacy!Range(cbiPage.deps[f]) : met(a) \/ a.default)
  BY <1>1, <1>3 DEF Settled
<1>. QED  BY <1>4 DEF CbiInv, met

LEMMA OnlyCbiSteps ==
  ASSUME part = "legacy", [Next]_vars  PROVE Legacy!Next \/ UNCHANGED legacyVars
BY DEF Next, vars

\* Once an update is over exactly those fields are shown whose conditions the
\* shown fields meet, each in its place, for any fields in one another that
\* depend on each other in any way (cbi.js:180-219).
THEOREM ShownFieldsAreMet == Spec => []OnlyMetAreShown
<1>. DEFINE I == part = "legacy" => CbiInv
<1>1. Init => I
  <2>1. SUFFICES ASSUME part = "legacy", Legacy!Init  PROVE CbiInv
    BY DEF Init
  <2>2. cbiPage \in Shapes /\ children = cbiPage.children /\ cbiAhead = Legacy!Dependent
    BY <2>1 DEF Legacy!Init
  <2>3. Legacy!CbiTypeOK
    <3>1. inputs \in [Legacy!Fields -> Values] /\ passes = 1 /\ moved = FALSE
      BY <2>1 DEF Legacy!Init
    <3>2. DOMAIN children = Legacy!Fields \cup {Top}
      BY <2>2, CbiConstants DEF Legacy!Fields
    <3>3. \A p \in DOMAIN children : children[p] \in Seq({f \in Legacy!Fields : cbiPage.parent[f] = p})
      BY <2>2, CbiConstants DEF Legacy!Fields
    <3>. QED  BY <2>2, <3>1, <3>2, <3>3 DEF Legacy!CbiTypeOK
  <2>4. \A p \in DOMAIN children : Legacy!InPlace(children[p], cbiPage.index)
    BY <2>2, CbiConstants
  <2>5. Legacy!Dependent \ cbiAhead = {} /\ passes = 1
    BY <2>1, <2>2 DEF Legacy!Init
  <2>. QED  BY <2>3, <2>4, <2>5 DEF CbiInv
<1>2. I /\ [Next]_vars => I'
  <2>1. SUFFICES ASSUME CbiInv, Legacy!Next \/ UNCHANGED legacyVars  PROVE CbiInv'
    BY OnlyCbiSteps, PartStays
  <2>2. CASE Legacy!Next
    BY <2>1, <2>2, CbiStep
  <2>3. CASE UNCHANGED legacyVars
    <3>1. UNCHANGED <<cbiPage, children, inputs, cbiAhead, moved, passes>>
      BY <2>3 DEF legacyVars
    <3>2. /\ Legacy!Fields' = Legacy!Fields /\ Legacy!Dependent' = Legacy!Dependent
          /\ \A f : Settled(f)' = Settled(f)
      BY <3>1, SettledSame
    <3>. QED  BY <2>1, <3>1, <3>2 DEF CbiInv, Legacy!CbiTypeOK
  <2>. QED  BY <2>1, <2>2, <2>3
<1>3. I => OnlyMetAreShown
  BY CbiMeans DEF OnlyMetAreShown
<1>. QED  BY <1>1, <1>2, <1>3, PTL DEF Spec

-----------------------------------------------------------------------------
(* FileBrowser.                                                            *)

FilesInv == DOMAIN browsing = Widgets /\ Browser!OneBrowserOpen

LEMMA FilesStep == ASSUME FilesInv, Browser!Next  PROVE FilesInv'
<1>. USE DEF FilesInv, Browser!OneBrowserOpen
<1>1. CASE UNCHANGED browsing
  BY <1>1
<1>2. ASSUME NEW w \in Widgets, browsing' = [browsing EXCEPT ![w] = FALSE]  PROVE FilesInv'
  BY <1>2
<1>3. ASSUME NEW r \in waits, Browser!Browsed(r)  PROVE FilesInv'
  BY <1>3 DEF Browser!Browsed, Browser!Opens
<1>4. \/ UNCHANGED browsing \/ \E w \in Widgets : browsing' = [browsing EXCEPT ![w] = FALSE]
      \/ \E r \in waits : Browser!Browsed(r)
  BY DEF Browser!Next, Browser!HandleFileBrowser, Browser!Reset, Browser!Cancel, Browser!Enter,
         Browser!Select, Browser!HandleUpload, Browser!HandleDelete, Browser!Answer, Browser!Listed,
         Browser!Removed, Browser!Uploaded
<1>. QED  BY <1>1, <1>2, <1>3, <1>4

LEMMA FilesInvHolds == Spec => [](part = "files" => FilesInv)
<1>1. Init => (part = "files" => FilesInv)
  BY DEF Init, Browser!Init, FilesInv, Browser!OneBrowserOpen
<1>2. (part = "files" => FilesInv) /\ [Next]_vars => (part = "files" => FilesInv)'
  <2>. SUFFICES ASSUME part = "files" => FilesInv, [Next]_vars, part' = "files"  PROVE FilesInv'
    OBVIOUS
  <2>1. part = "files" /\ FilesInv
    BY PartStays
  <2>2. Browser!Next \/ UNCHANGED fileVars
    BY <2>1 DEF Next, vars
  <2>3. CASE UNCHANGED fileVars
    BY <2>1, <2>3 DEF fileVars, FilesInv, Browser!OneBrowserOpen
  <2>. QED  BY <2>1, <2>2, <2>3, FilesStep
<1>. QED  BY <1>1, <1>2, PTL DEF Spec

-----------------------------------------------------------------------------
(* Changes.                                                                *)

\* The last answer that is awaited will be right, and so is the indicator when
\* none is.
Counts ==
  ~excused => IF asked = <<>> THEN indicator = staged ELSE asked[Len(asked)] \in {Unread, staged}

ChangesInv ==
  /\ asked \in Seq(0 .. MaxStaged \cup {Unread}) /\ staged \in 0 .. MaxStaged
  /\ Counts /\ (box # "reverted" => list = indicator)

LEMMA ChangesConstants == MaxStaged \in Nat \ {0}
BY ToolkitAssumption DEF ToolkitAssumption, Changed!ChangesAssumption

\* An answer that is taken leaves the others that are awaited.
LEMMA AnswerTaken ==
  ASSUME ChangesInv, NEW i \in DOMAIN asked, NEW rest, rest = Changed!RemoveAt(asked, i)
  PROVE  /\ rest \in Seq(0 .. MaxStaged \cup {Unread})
         /\ i = 1 => IF rest = <<>> THEN Len(asked) = 1 ELSE rest[Len(rest)] = asked[Len(asked)]
<1>. DEFINE S == 0 .. MaxStaged \cup {Unread}
            n == Len(asked)
<1>1. asked \in Seq(S) /\ n \in Nat /\ n = Len(asked) /\ i \in 1 .. n
  BY DEF ChangesInv
<1>2. rest = RemoveAt(asked, i)
  BY DEF Changed!RemoveAt, RemoveAt
<1>. HIDE DEF S, n
<1>3. rest \in Seq(S) /\ DOMAIN rest = 1 .. n - 1 /\ TakenFrom(rest, asked, n, i)
  BY ONLY <1>1, <1>2, TakenOut
<1>4. Len(rest) = n - 1
  <2>1. Len(rest) \in Nat /\ 1 .. Len(rest) = 1 .. n - 1
    BY <1>3
  <2>. QED  BY ONLY <1>1, <2>1
<1>5. ASSUME i = 1  PROVE IF rest = <<>> THEN n = 1 ELSE rest[Len(rest)] = asked[n]
  <2>1. CASE rest = <<>>
    <3>1. Len(rest) = 0
      BY <2>1
    <3>2. n \in Nat /\ Len(rest) = n - 1
      BY <1>1, <1>4
    <3>3. n = 1
      BY ONLY <3>1, <3>2
    <3>. QED  BY <2>1, <3>3
  <2>2. CASE rest # <<>>
    <3>1. n - 1 # 0
      BY <1>3, <1>4, <2>2, EmptySeq
    <3>2. n - 1 \in 1 .. n - 1 /\ n - 1 + 1 = n
      BY <1>1, <3>1
    <3>3. rest[n - 1] = asked[n - 1 + 1]
      BY <1>3, <1>5, <3>2 DEF TakenFrom
    <3>. QED  BY <1>4, <2>2, <3>2, <3>3
  <2>. QED  BY <2>1, <2>2
<1>. QED  BY <1>1, <1>3, <1>5 DEF S

LEMMA ChangesStep == ASSUME ChangesInv, Changed!ChangesNext  PROVE ChangesInv'
<1>. USE ChangesConstants DEF ChangesInv
<1>a. asked # <<>> => Len(asked) \in DOMAIN asked
  OBVIOUS
<1>1. CASE Changed!Saved
  <2>1. asked' \in Seq(0 .. MaxStaged \cup {Unread}) /\ staged' \in 0 .. MaxStaged
    BY <1>1 DEF Changed!Saved
  <2>2. Counts'
    <3>1. CASE asked' = Append(asked, Unread)
      <4>1. asked' # <<>> /\ asked'[Len(asked')] = Unread
        BY <3>1
      <4>. QED  BY <4>1 DEF Counts
    <3>2. CASE excused'
      BY <3>2 DEF Counts
    <3>. QED  BY <1>1, <3>1, <3>2 DEF Changed!Saved
  <2>. QED  BY <1>1, <2>1, <2>2 DEF Changed!Saved
<1>2. ASSUME NEW n \in 0 .. MaxStaged, Changed!Abroad(n)  PROVE ChangesInv'
  BY <1>2 DEF Changed!Abroad, Counts
<1>3. ASSUME NEW i \in DOMAIN asked, Changed!Serve(i)  PROVE ChangesInv'
  <2>1. asked' = [asked EXCEPT ![i] = staged] /\ UNCHANGED <<staged, indicator, list, box, excused>>
    BY <1>3 DEF Changed!Serve
  <2>2. asked' \in Seq(0 .. MaxStaged \cup {Unread}) /\ Len(asked') = Len(asked) /\ asked' # <<>> /\ asked # <<>>
    BY <1>3, <2>1
  <2>3. asked'[Len(asked')] \in {asked[Len(asked)], staged}
    BY <1>a, <2>1, <2>2
  <2>. QED  BY <2>1, <2>2, <2>3 DEF Counts
<1>4. ASSUME NEW i \in DOMAIN asked, Changed!Arrive(i)  PROVE ChangesInv'
  <2>1. /\ asked[i] # Unread /\ asked' = Changed!RemoveAt(asked, i)
        /\ list' = asked[i] /\ indicator' = asked[i] /\ excused' = (excused \/ i > 1)
        /\ UNCHANGED <<staged, box>>
    BY <1>4 DEF Changed!Arrive
  <2>2. /\ asked' \in Seq(0 .. MaxStaged \cup {Unread})
        /\ i = 1 => IF asked' = <<>> THEN Len(asked) = 1 ELSE asked'[Len(asked')] = asked[Len(asked)]
    BY <2>1, AnswerTaken
  <2>3. Counts'
    <3>. SUFFICES ASSUME ~excused'  PROVE IF asked' = <<>> THEN indicator' = staged' ELSE asked'[Len(asked')] \in {Unread, staged'}
      BY DEF Counts
    <3>1. ~excused /\ ~(i > 1)
      BY <2>1, Zenon
    <3>2. asked # <<>> /\ i \in Nat \ {0}
      OBVIOUS
    <3>3. i = 1
      BY <3>1, <3>2
    <3>4. asked[Len(asked)] \in {Unread, staged}
      BY <3>1, <3>2 DEF Counts
    <3>. QED  BY <2>1, <2>2, <3>3, <3>4
  <2>. QED  BY <2>1, <2>2, <2>3
<1>5. ASSUME NEW i \in DOMAIN asked, Changed!Lost(i)  PROVE ChangesInv'
  <2>1. asked' \in Seq(0 .. MaxStaged \cup {Unread})
    BY <1>5, AnswerTaken DEF Changed!Lost
  <2>. QED  BY <1>5, <2>1 DEF Changed!Lost, Counts
<1>6. CASE Changed!DisplayChanges \/ Changed!Close \/ Changed!Revert \/ Changed!RevertRefused
  BY <1>6 DEF Changed!DisplayChanges, Changed!Close, Changed!Revert, Changed!RevertRefused, Counts
<1>7. CASE Changed!Reverted
  <2>1. /\ staged' = 0 /\ box' = "reverted" /\ indicator' = 0
        /\ excused' = (excused \/ asked # <<>>) /\ UNCHANGED asked
    BY <1>7 DEF Changed!Reverted
  <2>2. ~excused' => asked' = <<>>
    BY <2>1, Zenon
  <2>3. Counts'
    BY <2>1, <2>2 DEF Counts
  <2>. QED  BY <2>1, <2>3
<1>8. CASE Changed!RevertUnheard
  BY <1>8 DEF Changed!RevertUnheard, Counts
<1>9. CASE Changed!Timeout
  <2>1. CASE asked' = <<Unread>> /\ indicator' = 0 /\ list' = 0 /\ UNCHANGED staged
    <3>1. asked' # <<>> /\ asked'[Len(asked')] = Unread
      BY <2>1
    <3>2. asked' \in Seq(0 .. MaxStaged \cup {Unread})
      BY <2>1
    <3>. QED  BY <2>1, <3>1, <3>2 DEF Counts
  <2>2. CASE box = "refused" /\ box' = "none" /\ UNCHANGED <<asked, indicator, list, excused, staged>>
    BY <2>2 DEF Counts
  <2>. QED  BY <1>9, <2>1, <2>2 DEF Changed!Timeout
<1>. QED
  BY <1>1, <1>2, <1>3, <1>4, <1>5, <1>6, <1>7, <1>8, <1>9 DEF Changed!ChangesNext

LEMMA ChangesInvHolds == Spec => [](part = "changes" => ChangesInv)
<1>1. Init => (part = "changes" => ChangesInv)
  <2>. SUFFICES ASSUME Changed!ChangesInit  PROVE ChangesInv
    BY DEF Init
  <2>1. asked = <<Unread>> /\ staged \in 0 .. 1 /\ list = indicator
    BY DEF Changed!ChangesInit
  <2>2. asked # <<>> /\ asked[Len(asked)] = Unread /\ asked \in Seq(0 .. MaxStaged \cup {Unread})
    BY <2>1
  <2>. QED  BY <2>1, <2>2, ChangesConstants DEF ChangesInv, Counts
<1>2. (part = "changes" => ChangesInv) /\ [Next]_vars => (part = "changes" => ChangesInv)'
  <2>. SUFFICES ASSUME part = "changes" => ChangesInv, [Next]_vars, part' = "changes"  PROVE ChangesInv'
    OBVIOUS
  <2>1. part = "changes" /\ ChangesInv
    BY PartStays
  <2>2. Changed!ChangesNext \/ UNCHANGED changeVars
    BY <2>1 DEF Next, vars
  <2>3. CASE UNCHANGED changeVars
    BY <2>1, <2>3 DEF changeVars, ChangesInv, Counts
  <2>. QED  BY <2>1, <2>2, <2>3, ChangesStep
<1>. QED  BY <1>1, <1>2, PTL DEF Spec

-----------------------------------------------------------------------------
(* Overlay.                                                                *)

LEMMA OverlayConstants ==
  /\ Ids \subseteq Nat /\ Somebody \notin Uploads \X {"choosing", "sending"}
BY ToolkitAssumption DEF ToolkitAssumption, Layer!OverlayAssumption

\* The dialog is that of an upload, in one of the two states in which it has
\* one, or somebody else's.
Answerable ==
  /\ DOMAIN uploads = Uploads /\ dialog \in {Somebody} \cup (Uploads \X {"choosing", "sending"})
  /\ ~disturbed =>
       /\ \A u \in Uploads : uploads[u] \in {"choosing", "sending"} => overlaid /\ dialog = <<u, uploads[u]>>
       /\ overlaid /\ dialog # Somebody => uploads[dialog[1]] \in {"choosing", "sending", "lost"}

LEMMA DialogsStep == ASSUME Answerable, Layer!Dialogs  PROVE Answerable'
<1>. USE OverlayConstants DEF Answerable, Layer!ShowModal, Layer!HideModal, Layer!Settle, Layer!OnTop
<1>1. ASSUME NEW u \in Uploads, Layer!UploadFile(u)  PROVE Answerable'
  BY <1>1 DEF Layer!UploadFile
<1>2. ASSUME NEW u \in Uploads, Layer!ChooseFile(u)  PROVE Answerable'
  BY <1>2 DEF Layer!ChooseFile
<1>3. ASSUME NEW u \in Uploads, Layer!CancelUpload(u)  PROVE Answerable'
  BY <1>3 DEF Layer!CancelUpload
<1>4. ASSUME NEW u \in Uploads, Layer!SendFile(u)  PROVE Answerable'
  BY <1>4 DEF Layer!SendFile
<1>5. ASSUME NEW u \in Uploads, NEW how \in {"rejected", "resolved"}, Layer!Replied(u, how)  PROVE Answerable'
  BY <1>5 DEF Layer!Replied
<1>6. ASSUME NEW u \in Uploads, Layer!Garbled(u)  PROVE Answerable'
  BY <1>6 DEF Layer!Garbled
<1>7. CASE Layer!Disturb
  BY <1>7 DEF Layer!Disturb
<1>8. CASE Layer!Dismiss
  BY <1>8 DEF Layer!Dismiss
<1>. QED
  BY <1>1, <1>2, <1>3, <1>4, <1>5, <1>6, <1>7, <1>8 DEF Layer!Dialogs, Layer!Failed, Layer!Done

Tooltips == [of : Targets, opaque : BOOLEAN, placed : BOOLEAN, timer : BOOLEAN]
TooltipInv == tooltip \in Tooltips /\ Layer!TooltipStays

LEMMA TooltipStep ==
  ASSUME TooltipInv, (\E t \in Targets : Layer!ShowTooltip(t)) \/ Layer!HideTooltip \/ Layer!TooltipTimeout
  PROVE  TooltipInv'
<1>. USE DEF TooltipInv, Layer!TooltipStays
<1>1. ASSUME NEW t \in Targets, Layer!ShowTooltip(t)  PROVE TooltipInv'
  BY <1>1 DEF Layer!ShowTooltip, Tooltips
<1>2. CASE Layer!HideTooltip
  <2>1. tooltip' = [tooltip EXCEPT !.opaque = FALSE, !.timer = TRUE]
    BY <1>2 DEF Layer!HideTooltip
  <2>2. tooltip' \in Tooltips /\ tooltip'.opaque = FALSE
    BY <2>1 DEF Tooltips
  <2>. QED  BY <2>2
<1>3. CASE Layer!TooltipTimeout
  <2>1. tooltip.timer /\ tooltip' = [tooltip EXCEPT !.placed = FALSE, !.timer = FALSE]
    BY <1>3 DEF Layer!TooltipTimeout
  <2>2. tooltip' \in Tooltips /\ tooltip'.opaque = tooltip.opaque
    BY <2>1 DEF Tooltips
  <2>. QED  BY <2>1, <2>2
<1>. QED  BY <1>1, <1>2, <1>3

\* Notifications from the newest to the oldest: those that fade have been
\* dismissed, and those that have not are there.
Messages == [id : Nat, fades : BOOLEAN]
Newer(msgs) == \A i, j \in DOMAIN msgs : i < j => msgs[i].id > msgs[j].id
MessagesInv ==
  /\ messages \in Seq(Messages) /\ raised \in Nat
  /\ Newer(messages)
  /\ \A i \in DOMAIN messages : messages[i].id <= raised /\ (messages[i].fades => messages[i].id \in dismissed)
  /\ \A m \in 1 .. raised : m \in dismissed \/ \E i \in DOMAIN messages : messages[i].id = m

LEMMA Raised ==
  ASSUME MessagesInv, Layer!AddNotification  PROVE MessagesInv'
<1>. DEFINE one == <<[id |-> raised + 1, fades |-> FALSE]>>
            n == Len(messages)
<1>1. messages' = one \o messages /\ raised' = raised + 1 /\ UNCHANGED dismissed /\ raised \in Nat
  BY DEF Layer!AddNotification, MessagesInv
<1>2. /\ one \in Seq(Messages) /\ Len(one) = 1 /\ one[1].id = raised + 1 /\ one[1].fades = FALSE
      /\ messages \in Seq(Messages) /\ n \in Nat /\ n = Len(messages) /\ DOMAIN messages = 1 .. n
  BY <1>1 DEF MessagesInv, Messages
<1>. HIDE DEF one, n
<1>. DEFINE all == one \o messages
<1>3. /\ all \in Seq(Messages) /\ DOMAIN all = 1 .. 1 + n
      /\ \A k \in 1 .. 1 : all[k] = one[k]
      /\ \A k \in 1 + 1 .. 1 + n : all[k] = messages[k - 1]
  <2>1. one \in Seq(Messages) /\ messages \in Seq(Messages) /\ 1 = Len(one) /\ n = Len(messages)
    BY <1>2
  <2>2. PICK m : m = 1
    OBVIOUS
  <2>3. /\ m = Len(one) /\ all \in Seq(Messages) /\ DOMAIN all = 1 .. m + n
        /\ \A k \in 1 .. m : all[k] = one[k]
        /\ \A k \in m + 1 .. m + n : all[k] = messages[k - m]
    <3>1. one \in Seq(Messages) /\ messages \in Seq(Messages) /\ m = Len(one) /\ n = Len(messages)
      BY <2>1, <2>2
    <3>. QED  BY ONLY <3>1, Joined
  <2>. QED  BY <2>2, <2>3
<1>. HIDE DEF all
<1>4. all[1].id = raised + 1 /\ all[1].fades = FALSE
  BY <1>2, <1>3
<1>5. \A k \in 2 .. n + 1 : all[k] = messages[k - 1] /\ k - 1 \in DOMAIN messages
  BY <1>2, <1>3
<1>6. \A i \in 1 .. n : messages[i].id \in Nat
  <2>1. \A i \in 1 .. n : messages[i] \in Messages
    BY <1>2
  <2>. QED  BY ONLY <2>1 DEF Messages
<1>7. Newer(all)
  <2>1. ASSUME NEW i \in 1 .. 1 + n, NEW j \in 1 .. 1 + n, i < j, i = 1  PROVE all[i].id > all[j].id
    <3>1. j \in 2 .. n + 1 /\ j - 1 \in 1 .. n
      BY <1>2, <2>1
    <3>2. all[j].id <= raised /\ all[j].id \in Nat
      BY <1>2, <1>5, <1>6, <3>1 DEF MessagesInv
    <3>. QED  BY <1>1, <1>4, <2>1, <3>2
  <2>2. ASSUME NEW i \in 1 .. 1 + n, NEW j \in 1 .. 1 + n, i < j, i # 1  PROVE all[i].id > all[j].id
    <3>1. i \in 2 .. n + 1 /\ j \in 2 .. n + 1 /\ i - 1 < j - 1
      BY <1>2, <2>2
    <3>. QED  BY <1>5, <3>1 DEF MessagesInv, Newer
  <2>. QED  BY <1>3, <2>1, <2>2 DEF Newer
<1>8. ASSUME NEW i \in 1 .. 1 + n  PROVE all[i].id <= raised + 1 /\ (all[i].fades => all[i].id \in dismissed)
  <2>1. CASE i = 1
    BY <1>1, <1>4, <2>1
  <2>2. CASE i # 1
    <3>1. i \in 2 .. n + 1
      BY <1>2, <2>2
    <3>2. i - 1 \in DOMAIN messages /\ all[i] = messages[i - 1] /\ messages[i - 1].id \in Nat
      BY <1>2, <1>5, <1>6, <3>1
    <3>3. messages[i - 1].id <= raised /\ (messages[i - 1].fades => messages[i - 1].id \in dismissed)
      BY <3>2 DEF MessagesInv
    <3>. QED  BY <1>1, <3>2, <3>3
  <2>. QED  BY <2>1, <2>2
<1>9. ASSUME NEW m \in 1 .. raised + 1  PROVE m \in dismissed \/ \E i \in 1 .. 1 + n : all[i].id = m
  <2>1. CASE m = raised + 1
    BY <1>2, <1>4, <2>1
  <2>2. CASE m # raised + 1
    <3>1. m \in 1 .. raised
      BY <1>1, <2>2
    <3>2. m \in dismissed \/ \E i \in 1 .. n : messages[i].id = m
      BY <1>2, <3>1 DEF MessagesInv
    <3>3. ASSUME NEW i \in 1 .. n, messages[i].id = m  PROVE \E j \in 1 .. 1 + n : all[j].id = m
      <4>1. i + 1 \in 2 .. n + 1 /\ i + 1 \in 1 .. 1 + n /\ (i + 1) - 1 = i
        BY <1>2
      <4>2. all[i + 1] = messages[(i + 1) - 1]
        BY <1>5, <4>1
      <4>. QED  BY <3>3, <4>1, <4>2
    <3>. QED  BY <3>2, <3>3
  <2>. QED  BY <2>1, <2>2
<1>10. messages' = all /\ raised' \in Nat
  BY <1>1 DEF all
<1>. QED  BY <1>1, <1>3, <1>7, <1>8, <1>9, <1>10 DEF MessagesInv

LEMMA Faded ==
  ASSUME MessagesInv, NEW i \in DOMAIN messages, Layer!FadeOut(i)  PROVE MessagesInv'
<1>1. /\ messages' = [messages EXCEPT ![i].fades = TRUE] /\ dismissed' = dismissed \cup {messages[i].id}
      /\ UNCHANGED raised
  BY DEF Layer!FadeOut
<1>2. messages \in Seq(Messages) /\ \A k \in DOMAIN messages : messages[k] \in Messages
  BY DEF MessagesInv
<1>. DEFINE faded == [messages[i] EXCEPT !.fades = TRUE]
<1>3. faded \in Messages /\ faded.id = messages[i].id
  BY <1>2 DEF Messages
<1>4. messages' = [messages EXCEPT ![i] = faded]
  BY <1>1
<1>. HIDE DEF faded
<1>5. messages' \in Seq(Messages) /\ DOMAIN messages' = DOMAIN messages
  BY <1>2, <1>3, <1>4
<1>6. \A k \in DOMAIN messages : messages'[k].id = messages[k].id /\ (k # i => messages'[k] = messages[k])
  BY <1>3, <1>4
<1>7. \A k \in DOMAIN messages : messages'[k].fades => messages'[k].id \in dismissed'
  BY <1>1, <1>6 DEF MessagesInv
<1>8. \A m \in 1 .. raised : m \in dismissed' \/ \E k \in DOMAIN messages : messages'[k].id = m
  BY <1>1, <1>6 DEF MessagesInv
<1>. QED  BY <1>1, <1>5, <1>6, <1>7, <1>8 DEF MessagesInv, Newer

\* What is taken out when it has faded has been dismissed.
LEMMA Vanished ==
  ASSUME MessagesInv, NEW i \in DOMAIN messages, Layer!Transitionend(i)  PROVE MessagesInv'
<1>1. UNCHANGED <<raised, dismissed>> /\ messages' = IF messages[i].fades THEN Layer!RemoveAt(messages, i) ELSE messages
  BY DEF Layer!Transitionend
<1>2. CASE ~messages[i].fades
  BY <1>1, <1>2 DEF MessagesInv
<1>3. CASE messages[i].fades
  <2>. DEFINE n == Len(messages)
              r == RemoveAt(messages, i)
  <2>1. /\ messages \in Seq(Messages) /\ n \in Nat /\ n = Len(messages) /\ i \in 1 .. n
        /\ DOMAIN messages = 1 .. n
    BY DEF MessagesInv
  <2>. HIDE DEF n
  <2>2. r \in Seq(Messages) /\ DOMAIN r = 1 .. n - 1 /\ TakenFrom(r, messages, n, i)
    BY ONLY <2>1, TakenOut
  <2>3. messages' = r
    BY <1>1, <1>3 DEF Layer!RemoveAt, RemoveAt
  <2>. HIDE DEF r
  <2>4. \A k \in 1 .. i - 1 : k \in 1 .. n - 1 /\ k \in 1 .. n
    BY ONLY <2>1
  <2>5. \A k \in i .. n - 1 : k \in 1 .. n - 1 /\ k + 1 \in 1 .. n
    BY ONLY <2>1
  <2>6. \A k \in 1 .. n : messages[k].id \in Nat
    <3>1. \A k \in 1 .. n : messages[k] \in Messages
      BY <2>1
    <3>. QED  BY ONLY <3>1 DEF Messages
  <2>7. \A k \in 1 .. n - 1 : \E l \in DOMAIN messages : r[k] = messages[l]
    <3>1. \A k \in 1 .. n - 1 : k \in 1 .. i - 1 \/ k \in i .. n - 1
      BY ONLY <2>1
    <3>. QED  BY <2>1, <2>2, <2>4, <2>5, <3>1 DEF TakenFrom
  <2>8. Newer(r)
    <3>. DEFINE a == [k \in 1 .. n |-> 0 - messages[k].id]
                b == [k \in 1 .. n - 1 |-> 0 - r[k].id]
    <3>1. TakenFrom(b, a, n, i)
      BY <2>2, <2>4, <2>5 DEF TakenFrom
    <3>2. \A k \in 1 .. n : a[k] = 0 - messages[k].id /\ a[k] \in Int
      BY <2>6
    <3>3. \A k, l \in 1 .. n : k < l => a[k] < a[l]
      <4>1. \A k, l \in 1 .. n : k < l => messages[k].id > messages[l].id
        BY <2>1 DEF MessagesInv, Newer
      <4>. HIDE DEF a
      <4>. QED  BY ONLY <2>6, <3>2, <4>1
    <3>4. \A k \in 1 .. n - 1 : b[k] = 0 - r[k].id /\ r[k].id \in Nat
      BY <2>1, <2>6, <2>7
    <3>. HIDE DEF a, b
    <3>5. \A k, l \in 1 .. n - 1 : k < l => b[k] < b[l]
      BY ONLY <2>1, <3>1, <3>2, <3>3, RisesWithout
    <3>6. \A k, l \in 1 .. n - 1 : k < l => r[k].id > r[l].id
      BY ONLY <3>4, <3>5
    <3>. QED  BY <2>2, <3>6 DEF Newer
  <2>9. ASSUME NEW m \in 1 .. raised  PROVE m \in dismissed \/ \E k \in 1 .. n - 1 : r[k].id = m
    <3>1. PICK l \in 1 .. n : m \in dismissed \/ messages[l].id = m
      BY <2>1 DEF MessagesInv
    <3>2. CASE l = i
      BY <1>3, <3>1, <3>2 DEF MessagesInv
    <3>3. CASE l < i
      <4>1. l \in 1 .. i - 1 /\ l \in 1 .. n - 1
        BY <2>1, <3>3
      <4>. QED  BY <2>2, <3>1, <4>1 DEF TakenFrom
    <3>4. CASE i < l
      <4>1. l - 1 \in i .. n - 1 /\ l - 1 \in 1 .. n - 1 /\ (l - 1) + 1 = l
        BY <2>1, <3>4
      <4>2. r[l - 1] = messages[(l - 1) + 1]
        BY <2>2, <4>1 DEF TakenFrom
      <4>. QED  BY <3>1, <4>1, <4>2
    <3>. QED  BY <2>1, <3>2, <3>3, <3>4
  <2>10. \A k \in 1 .. n - 1 : r[k].id <= raised /\ (r[k].fades => r[k].id \in dismissed)
    <3>1. \A l \in DOMAIN messages : messages[l].id <= raised /\ (messages[l].fades => messages[l].id \in dismissed)
      BY DEF MessagesInv
    <3>. QED  BY ONLY <2>7, <3>1
  <2>11. raised \in Nat /\ UNCHANGED <<raised, dismissed>>
    BY <1>1 DEF MessagesInv
  <2>. QED  BY ONLY <2>2, <2>3, <2>8, <2>9, <2>10, <2>11 DEF MessagesInv
<1>. QED  BY <1>2, <1>3

\* Indicators from left to right.
Marks == [id : Nat, style : {"active", "inactive"}, clickable : BOOLEAN]
IndicatorsInv ==
  /\ indicators \in Seq(Marks)
  /\ \A i, j \in DOMAIN indicators : i < j => indicators[i].id < indicators[j].id

LEMMA HiddenInOrder ==
  ASSUME IndicatorsInv, NEW id \in Ids, Layer!HideIndicator(id)  PROVE IndicatorsInv'
<1>. DEFINE places == Layer!Shown(id)
            n == Len(indicators)
<1>1. indicators' = IF places = {} THEN indicators ELSE Layer!RemoveAt(indicators, Layer!Min(places))
  BY DEF Layer!HideIndicator
<1>2. CASE places = {}
  BY <1>1, <1>2 DEF IndicatorsInv
<1>3. CASE places # {}
  <2>. DEFINE i == Layer!Min(places)
              r == RemoveAt(indicators, i)
  <2>1. indicators \in Seq(Marks) /\ n \in Nat /\ n = Len(indicators) /\ DOMAIN indicators = 1 .. n
    BY DEF IndicatorsInv
  <2>2. i \in 1 .. n
    <3>1. places \in SUBSET (1 .. n)
      BY <2>1 DEF Layer!Shown
    <3>2. i = Min(places)
      BY DEF Layer!Min, Min
    <3>. HIDE DEF n, places, i
    <3>. QED  BY <1>3, <2>1, <3>1, <3>2, LeastIsIn
  <2>. HIDE DEF n, i
  <2>3. r \in Seq(Marks) /\ DOMAIN r = 1 .. n - 1 /\ TakenFrom(r, indicators, n, i)
    BY ONLY <2>1, <2>2, TakenOut
  <2>4. indicators' = r
    BY <1>1, <1>3 DEF Layer!RemoveAt, RemoveAt, i
  <2>. HIDE DEF r
  <2>. DEFINE a == [k \in 1 .. n |-> indicators[k].id]
              b == [k \in 1 .. n - 1 |-> r[k].id]
  <2>5. TakenFrom(b, a, n, i)
    <3>1. \A k \in 1 .. i - 1 : k \in 1 .. n - 1 /\ k \in 1 .. n
      BY ONLY <2>1, <2>2
    <3>2. \A k \in i .. n - 1 : k \in 1 .. n - 1 /\ k + 1 \in 1 .. n
      BY ONLY <2>1, <2>2
    <3>. QED  BY <2>3, <3>1, <3>2 DEF TakenFrom
  <2>6. \A k \in 1 .. n : a[k] \in Int
    <3>1. \A k \in 1 .. n : indicators[k] \in Marks
      BY <2>1
    <3>. QED  BY <3>1 DEF Marks
  <2>7. \A k, l \in 1 .. n : k < l => a[k] < a[l]
    BY <2>1 DEF IndicatorsInv
  <2>. HIDE DEF a, b
  <2>8. \A k, l \in 1 .. n - 1 : k < l => b[k] < b[l]
    BY ONLY <2>1, <2>2, <2>5, <2>6, <2>7, RisesWithout
  <2>. QED  BY <2>3, <2>4, <2>8 DEF IndicatorsInv, b
<1>. QED  BY <1>2, <1>3

LEMMA ShownInPlace ==
  ASSUME IndicatorsInv, NEW id \in Ids, NEW handler \in BOOLEAN, NEW style \in {"active", "inactive"},
         Layer!ShowIndicator(id, handler, style)
  PROVE  IndicatorsInv'
<1>. DEFINE n == Len(indicators)
            mark == [id |-> id, style |-> style, clickable |-> handler]
<1>1. indicators \in Seq(Marks) /\ n \in Nat /\ n = Len(indicators) /\ DOMAIN indicators = 1 .. n
  BY DEF IndicatorsInv
<1>2. \A k \in 1 .. n : indicators[k] \in Marks
  BY <1>1
<1>3. \A k \in 1 .. n : indicators[k].id \in Nat
  BY ONLY <1>2 DEF Marks
<1>4. mark \in Marks /\ mark.id = id /\ id \in Nat
  BY OverlayConstants DEF Marks
<1>5. CASE Layer!Shown(id) # {}
  <2>. DEFINE restyled(k) == IF k \in Layer!Shown(id) THEN [indicators[k] EXCEPT !.style = style] ELSE indicators[k]
  <2>1. indicators' = [k \in DOMAIN indicators |-> restyled(k)]
    BY <1>5 DEF Layer!ShowIndicator
  <2>2. \A k \in 1 .. n : restyled(k) \in Marks /\ restyled(k).id = indicators[k].id
    BY <1>2 DEF Marks
  <2>. HIDE DEF n, restyled
  <2>3. indicators' = [k \in 1 .. n |-> restyled(k)]
    BY <1>1, <2>1
  <2>4. indicators' \in Seq(Marks) /\ DOMAIN indicators' = 1 .. n
    BY <1>1, <2>2, <2>3
  <2>5. \A k \in 1 .. n : indicators'[k].id = indicators[k].id
    BY <2>2, <2>3
  <2>. QED  BY <1>1, <2>4, <2>5 DEF IndicatorsInv
<1>6. CASE Layer!Shown(id) = {}
  <2>. DEFINE later == {k \in DOMAIN indicators : indicators[k].id > id}
              i == Layer!Place(id)
              r == InsertAt(indicators, i, mark)
              T == later \cup {n + 1}
  <2>1. T \in SUBSET (1 .. n + 1) /\ T # {} /\ i = Min(T)
    BY <1>1 DEF Layer!Place, Layer!Min, Min
  <2>2. \A k \in 1 .. n : indicators[k].id # id
    BY <1>1, <1>6 DEF Layer!Shown
  <2>3. indicators' = r
    BY <1>6 DEF Layer!ShowIndicator, Layer!InsertAt, InsertAt
  <2>. HIDE DEF T, i, n, mark
  <2>4. i \in T /\ \A k \in T : i <= k
    <3>1. n + 1 \in Nat
      BY <1>1
    <3>. QED  BY ONLY <2>1, <3>1, LeastIsIn
  <2>5. i \in 1 .. n + 1
    BY <2>1, <2>4
  <2>6. /\ \A k \in 1 .. i - 1 : k \in 1 .. n /\ ~(i <= k)
        /\ i \in 1 .. n => i # n + 1
    BY ONLY <1>1, <2>5
  <2>7. (\A k \in 1 .. i - 1 : k \in 1 .. n /\ k \notin later) /\ (i \in 1 .. n => i \in later)
    BY <2>4, <2>6 DEF T
  <2>8. r \in Seq(Marks) /\ DOMAIN r = 1 .. n + 1 /\ PutInto(r, indicators, n, i, mark)
    BY ONLY <1>1, <1>4, <2>5, PutIn
  <2>. HIDE DEF r
  <2>. DEFINE a == [k \in 1 .. n |-> indicators[k].id]
              b == [k \in 1 .. n + 1 |-> r[k].id]
  <2>9. PutInto(b, a, n, i, id)
    <3>1. \A k \in 1 .. i - 1 : k \in 1 .. n /\ k \in 1 .. n + 1
      BY ONLY <1>1, <2>5
    <3>2. \A k \in i + 1 .. n + 1 : k - 1 \in 1 .. n /\ k \in 1 .. n + 1
      BY ONLY <1>1, <2>5
    <3>. QED  BY <1>4, <2>5, <2>8, <3>1, <3>2 DEF PutInto
  <2>10. \A k \in 1 .. n : a[k] = indicators[k].id /\ a[k] \in Int /\ a[k] # id
    BY <1>3, <2>2
  <2>11. \A k, l \in 1 .. n : k < l => a[k] < a[l]
    BY <1>1 DEF IndicatorsInv
  <2>12. \A k \in 1 .. i - 1 : a[k] < id
    <3>1. \A k \in 1 .. i - 1 : k \in 1 .. n /\ ~(indicators[k].id > id)
      BY <1>1, <2>7
    <3>. HIDE DEF a
    <3>. QED  BY <1>4, <2>10, <3>1
  <2>13. i \in 1 .. n => id < a[i]
    BY <1>4, <2>7, <2>10
  <2>14. id \in Int
    BY <1>4
  <2>. HIDE DEF a, b
  <2>15. \A k, l \in 1 .. n + 1 : k < l => b[k] < b[l]
    BY ONLY <1>1, <2>5, <2>9, <2>10, <2>11, <2>12, <2>13, <2>14, RisesWith
  <2>. QED  BY <2>3, <2>8, <2>15 DEF b, IndicatorsInv
<1>. QED  BY <1>5, <1>6

OverlayInv == Answerable /\ TooltipInv /\ MessagesInv /\ IndicatorsInv

LEMMA OverlayStep == ASSUME OverlayInv, Layer!OverlayNext  PROVE OverlayInv'
<1>1. CASE Layer!Dialogs /\ UNCHANGED <<tooltip, messages, raised, dismissed, indicators>>
  BY <1>1, DialogsStep DEF OverlayInv, TooltipInv, Layer!TooltipStays, MessagesInv, IndicatorsInv, Newer
<1>a. UNCHANGED <<messages, raised, dismissed>> => (MessagesInv => MessagesInv')
  BY DEF MessagesInv, Newer
<1>b. UNCHANGED indicators => (IndicatorsInv => IndicatorsInv')
  BY DEF IndicatorsInv
<1>c. UNCHANGED <<overlaid, dialog, uploads, attached, disturbed>> => (Answerable => Answerable')
  BY DEF Answerable
<1>d. UNCHANGED tooltip => (TooltipInv => TooltipInv')
  BY DEF TooltipInv, Layer!TooltipStays
<1>2. CASE /\ \/ \E t \in Targets : Layer!ShowTooltip(t)
              \/ Layer!HideTooltip \/ Layer!TooltipTimeout
           /\ UNCHANGED <<Layer!dialogVars, messages, raised, dismissed, indicators>>
  <2>1. TooltipInv'
    BY <1>2, TooltipStep DEF OverlayInv
  <2>. QED  BY <1>a, <1>b, <1>c, <1>2, <2>1 DEF OverlayInv, Layer!dialogVars
<1>3. CASE /\ \/ Layer!AddNotification
              \/ \E i \in DOMAIN messages : Layer!FadeOut(i) \/ Layer!Transitionend(i)
           /\ UNCHANGED <<Layer!dialogVars, tooltip, indicators>>
  <2>1. MessagesInv'
    BY <1>3, Raised, Faded, Vanished DEF OverlayInv
  <2>. QED  BY <1>b, <1>c, <1>d, <1>3, <2>1 DEF OverlayInv, Layer!dialogVars
<1>4. CASE /\ \E id \in Ids : \/ Layer!HideIndicator(id)
                              \/ \E handler \in BOOLEAN, style \in {"active", "inactive"} :
                                   Layer!ShowIndicator(id, handler, style)
           /\ UNCHANGED <<Layer!dialogVars, tooltip, messages, raised, dismissed>>
  <2>1. IndicatorsInv'
    BY <1>4, HiddenInOrder, ShownInPlace DEF OverlayInv
  <2>. QED  BY <1>a, <1>c, <1>d, <1>4, <2>1 DEF OverlayInv, Layer!dialogVars
<1>. QED  BY <1>1, <1>2, <1>3, <1>4 DEF Layer!OverlayNext

LEMMA OverlayInvHolds == Spec => [](part = "overlay" => OverlayInv)
<1>1. Init => (part = "overlay" => OverlayInv)
  <2>. SUFFICES ASSUME Layer!OverlayInit  PROVE OverlayInv
    BY DEF Init
  <2>. USE DEF Layer!OverlayInit
  <2>1. Answerable
    BY DEF Answerable
  <2>2. TooltipInv
    BY DEF TooltipInv, Tooltips, Layer!TooltipStays
  <2>3. MessagesInv
    BY DEF MessagesInv, Newer
  <2>4. IndicatorsInv
    BY DEF IndicatorsInv
  <2>. QED  BY <2>1, <2>2, <2>3, <2>4 DEF OverlayInv
<1>2. (part = "overlay" => OverlayInv) /\ [Next]_vars => (part = "overlay" => OverlayInv)'
  <2>. SUFFICES ASSUME part = "overlay" => OverlayInv, [Next]_vars, part' = "overlay"  PROVE OverlayInv'
    OBVIOUS
  <2>1. part = "overlay" /\ OverlayInv
    BY PartStays
  <2>2. Layer!OverlayNext \/ UNCHANGED overlayVars
    BY <2>1 DEF Next, vars
  <2>3. CASE UNCHANGED overlayVars
    BY <2>1, <2>3 DEF overlayVars, OverlayInv, Answerable, TooltipInv, Layer!TooltipStays, MessagesInv,
                      Newer, IndicatorsInv
  <2>. QED  BY <2>1, <2>2, <2>3, OverlayStep
<1>. QED  BY <1>1, <1>2, PTL DEF Spec

LEMMA OverlayMeans ==
  ASSUME OverlayInv
  PROVE  Layer!UploadIsAnswerable /\ Layer!TooltipStays /\ Layer!ShownInOrder
<1>1. Layer!UploadIsAnswerable
  BY DEF OverlayInv, Answerable, Layer!UploadIsAnswerable, Layer!OnTop
<1>2. Layer!TooltipStays
  BY DEF OverlayInv, TooltipInv
<1>3. Layer!ShownInOrder
  <2>1. (1 .. raised) \ dismissed \subseteq {messages[i].id : i \in DOMAIN messages}
    BY DEF OverlayInv, MessagesInv
  <2>. QED  BY <2>1 DEF OverlayInv, MessagesInv, IndicatorsInv, Newer, Layer!ShownInOrder
<1>. QED  BY <1>1, <1>2, <1>3

-----------------------------------------------------------------------------
\* Of whatever is built from the parts, what is shown is so: one file browser
\* is open at most, the indicator counts the staged changes, uploads can be
\* answered, and tooltip, notifications and indicators stand where they should.
THEOREM WhatIsShownIsSo == Spec => []PartsShowWhatIs
<1>1. FilesInv => Browser!OneBrowserOpen
  BY DEF FilesInv
<1>2. ChangesInv => Changed!IndicatorCounts
  BY DEF ChangesInv, Counts, Changed!IndicatorCounts
<1>3. /\ part = "files" => FilesInv
      /\ part = "changes" => ChangesInv
      /\ part = "overlay" => OverlayInv
      => PartsShowWhatIs
  BY <1>1, <1>2, OverlayMeans DEF PartsShowWhatIs
<1>. QED  BY <1>3, FilesInvHolds, ChangesInvHolds, OverlayInvHolds, PTL

-----------------------------------------------------------------------------
(* Tabs.                                                                   *)

\* The session data hold what was last chosen in a group, unless another group
\* with its path has written over it.
Remembered(g) ==
  /\ stored.page = page /\ PathOf[g] \in DOMAIN stored.index
  /\ stored.index[PathOf[g]] = chosen[g]

TabsInv ==
  /\ page \in DOMAIN Views /\ (\E p, x : stored = [page |-> p, index |-> x])
  /\ DOMAIN active = Groups /\ DOMAIN marked = Groups /\ DOMAIN chosen = Groups
  /\ \A g \in Groups : active[g] # NoPane => g \in Views[page]
  /\ \A g \in Groups : chosen[g] # NoPane => g \in Views[page] /\ (g \notin crossed => Remembered(g))

LEMMA TabsConstants ==
  /\ \A p \in DOMAIN Views : Views[p] \subseteq Groups
  /\ \A g \in Groups : Panes[g] \in Nat \ {0} /\ NoPane \notin TabMenu!PanesOf(g)
BY ToolkitAssumption DEF ToolkitAssumption, TabMenu!TabsAssumption, TabMenu!PanesOf

\* What is stored for a group leaves what is stored for others with other paths.
LEMMA StoredIsThere ==
  ASSUME TabsInv, NEW g \in Groups, NEW i
  PROVE  LET s == TabMenu!SetActiveTabId(stored, page, g, i) IN
         /\ \E p, x : s = [page |-> p, index |-> x]
         /\ s.page = page /\ PathOf[g] \in DOMAIN s.index /\ s.index[PathOf[g]] = i
         /\ \A q : q # PathOf[g] /\ stored.page = page /\ q \in DOMAIN stored.index =>
              q \in DOMAIN s.index /\ s.index[q] = stored.index[q]
<1>. DEFINE state == TabMenu!ActiveTabState(stored, page)
            x2 == [q \in DOMAIN state.index \cup {PathOf[g]} |-> IF q = PathOf[g] THEN i ELSE state.index[q]]
            s == TabMenu!SetActiveTabId(stored, page, g, i)
<1>1. PICK x : state = [page |-> page, index |-> x] /\ (stored.page = page => x = stored.index)
  BY DEF TabsInv, TabMenu!ActiveTabState
<1>2. s = [state EXCEPT !.index = x2]
  BY DEF TabMenu!SetActiveTabId
<1>3. s = [page |-> page, index |-> x2]
  BY <1>1, <1>2
<1>4. DOMAIN x2 = DOMAIN x \cup {PathOf[g]} /\ x2[PathOf[g]] = i
      /\ \A q \in DOMAIN x : q # PathOf[g] => x2[q] = x[q]
  BY <1>1
<1>. HIDE DEF x2, s
<1>5. s.page = page /\ s.index = x2
  BY <1>3
<1>. QED  BY <1>1, <1>3, <1>4, <1>5 DEF s

\* A pane of a group is made the active one, and stored.
LEMMA ChosenIsRemembered ==
  ASSUME TabsInv, NEW g \in Groups, g \in Views[page], NEW i, page' = page,
         stored' = TabMenu!SetActiveTabId(stored, page, g, i),
         chosen' = [chosen EXCEPT ![g] = i],
         crossed' = (crossed \cup TabMenu!Crosses(page, g)) \ {g}
  PROVE  /\ \E p, x : stored' = [page |-> p, index |-> x]
         /\ DOMAIN chosen' = Groups
         /\ \A h \in Groups : chosen'[h] # NoPane => h \in Views[page'] /\ (h \notin crossed' => Remembered(h)')
<1>1. /\ \E p, x : stored' = [page |-> p, index |-> x]
      /\ stored'.page = page /\ PathOf[g] \in DOMAIN stored'.index /\ stored'.index[PathOf[g]] = i
      /\ \A q : q # PathOf[g] /\ stored.page = page /\ q \in DOMAIN stored.index =>
           q \in DOMAIN stored'.index /\ stored'.index[q] = stored.index[q]
  BY StoredIsThere
<1>2. DOMAIN chosen' = Groups /\ chosen'[g] = i /\ \A h \in Groups \ {g} : chosen'[h] = chosen[h]
  BY DEF TabsInv
<1>3. Remembered(g)'
  BY <1>1, <1>2 DEF Remembered
<1>4. ASSUME NEW h \in Groups \ {g}, chosen'[h] # NoPane, h \notin crossed'  PROVE Remembered(h)'
  <2>1. chosen[h] # NoPane /\ h \notin crossed /\ h \notin TabMenu!Crosses(page, g)
    BY <1>2, <1>4
  <2>2. h \in Views[page] /\ Remembered(h)
    BY <2>1 DEF TabsInv
  <2>3. PathOf[h] # PathOf[g]
    BY <2>1, <2>2 DEF TabMenu!Crosses
  <2>. QED  BY <1>1, <1>2, <2>2, <2>3 DEF Remembered
<1>5. \A h \in Groups : chosen'[h] # NoPane => h \in Views[page']
  BY <1>2 DEF TabsInv
<1>. QED  BY <1>1, <1>2, <1>3, <1>4, <1>5

LEMMA DrawStep == ASSUME TabsInv, NEW g \in Groups, TabMenu!DrawGroup(g)  PROVE TabsInv'
<1>. DEFINE i == TabMenu!Selected(stored, page, g)
<1>1. g \in Views[page] /\ page' = page /\ TabMenu!InitTabGroup(stored, page, g)
  BY DEF TabMenu!DrawGroup
<1>2. /\ DOMAIN active' = Groups /\ DOMAIN marked' = Groups
      /\ \A h \in Groups : active'[h] # NoPane => h \in Views[page']
  BY <1>1 DEF TabMenu!InitTabGroup, TabsInv
<1>3. CASE i \in TabMenu!PanesOf(g)
  <2>1. /\ stored' = TabMenu!SetActiveTabId(stored, page, g, i)
        /\ chosen' = [chosen EXCEPT ![g] = i]
        /\ crossed' = (crossed \cup TabMenu!Crosses(page, g)) \ {g}
    BY <1>1, <1>3 DEF TabMenu!InitTabGroup
  <2>. HIDE DEF i
  <2>. QED  BY <1>1, <1>2, <2>1, ChosenIsRemembered DEF TabsInv
<1>4. CASE i \notin TabMenu!PanesOf(g)
  <2>1. /\ stored' = TabMenu!ActiveTabState(stored, page) /\ crossed' = crossed
        /\ DOMAIN chosen' = Groups /\ \A h \in Groups : chosen'[h] = chosen[h]
    BY <1>1, <1>4 DEF TabMenu!InitTabGroup, TabsInv
  <2>2. \E p, x : stored' = [page |-> p, index |-> x]
    BY <2>1 DEF TabMenu!ActiveTabState, TabsInv
  <2>3. \A h \in Groups : Remembered(h) => Remembered(h)'
    BY <1>1, <2>1 DEF TabMenu!ActiveTabState, Remembered
  <2>. QED  BY <1>1, <1>2, <2>1, <2>2, <2>3 DEF TabsInv
<1>. QED  BY <1>3, <1>4

LEMMA TabsStep == ASSUME TabsInv, TabMenu!TabsNext  PROVE TabsInv'
<1>1. ASSUME NEW g \in Groups, NEW i \in TabMenu!PanesOf(g), TabMenu!Depend(g, i)  PROVE TabsInv'
  BY <1>1 DEF TabMenu!Depend, TabsInv, Remembered
<1>2. ASSUME NEW g \in Groups, NEW i \in TabMenu!PanesOf(g), TabMenu!SwitchTab(g, i)  PROVE TabsInv'
  <2>1. /\ page' = page /\ active[g] # NoPane
        /\ active' = [active EXCEPT ![g] = i] /\ marked' = [marked EXCEPT ![g] = i]
        /\ stored' = TabMenu!SetActiveTabId(stored, page, g, i)
        /\ chosen' = [chosen EXCEPT ![g] = i]
        /\ crossed' = (crossed \cup TabMenu!Crosses(page, g)) \ {g}
    BY <1>2 DEF TabMenu!SwitchTab
  <2>2. g \in Views[page]
    BY <2>1 DEF TabsInv
  <2>3. /\ DOMAIN active' = Groups /\ DOMAIN marked' = Groups
        /\ \A h \in Groups : active'[h] # NoPane => h \in Views[page']
    BY <2>1, <2>2 DEF TabsInv
  <2>. QED  BY <2>1, <2>2, <2>3, ChosenIsRemembered DEF TabsInv
<1>3. ASSUME NEW p \in DOMAIN Views, TabMenu!Goto(p)  PROVE TabsInv'
  <2>1. /\ page' = p /\ active' = [g \in Groups |-> NoPane] /\ marked' = [g \in Groups |-> NoPane]
        /\ stored' = stored
    BY <1>3 DEF TabMenu!Goto, TabMenu!Undrawn
  <2>2. CASE p = page
    <3>1. chosen' = chosen /\ crossed' = crossed
      BY <1>3, <2>2 DEF TabMenu!Goto
    <3>. QED  BY <2>1, <2>2, <3>1 DEF TabsInv, Remembered
  <2>3. CASE p # page
    <3>1. chosen' = [g \in Groups |-> NoPane]
      BY <1>3, <2>3 DEF TabMenu!Goto, TabMenu!Undrawn
    <3>. QED  BY <2>1, <3>1 DEF TabsInv
  <2>. QED  BY <2>2, <2>3
<1>. QED  BY <1>1, <1>2, <1>3, DrawStep DEF TabMenu!TabsNext

\* A group that is drawn shows what was chosen in it before.
LEMMA DrawnAsChosen ==
  ASSUME TabsInv, NEW g \in Groups, TabMenu!DrawGroup(g), active'[g] # NoPane
  PROVE  /\ TabMenu!Filled(g) # {} => active'[g] \in TabMenu!Filled(g)
         /\ marked'[g] = active'[g]
         /\ chosen[g] \in TabMenu!Filled(g) /\ g \notin crossed => active'[g] = chosen[g]
<1>. DEFINE i == TabMenu!Selected(stored, page, g)
            j == TabMenu!GetActiveTabId(stored, page, g)
<1>1. TabMenu!InitTabGroup(stored, page, g)
  BY DEF TabMenu!DrawGroup
<1>2. active'[g] = i /\ marked'[g] = i
  BY <1>1 DEF TabMenu!InitTabGroup, TabsInv
<1>3. i = IF j \in TabMenu!Filled(g) \/ TabMenu!Filled(g) = {} THEN j
          ELSE CHOOSE k \in TabMenu!Filled(g) : \A l \in TabMenu!Filled(g) : k <= l
  BY DEF TabMenu!Selected
<1>4. ASSUME TabMenu!Filled(g) # {}  PROVE \E k \in TabMenu!Filled(g) : \A l \in TabMenu!Filled(g) : k <= l
  <2>. DEFINE n == Panes[g]
              T == {k + 1 : k \in TabMenu!Filled(g)}
  <2>1. n \in Nat /\ \A k \in TabMenu!Filled(g) : k \in 0 .. n - 1
    BY TabsConstants DEF TabMenu!Filled, TabMenu!PanesOf
  <2>2. T \in SUBSET (1 .. n) /\ T # {}
    BY <1>4, <2>1
  <2>. HIDE DEF n
  <2>3. \E k \in T : \A l \in T : k <= l
    <3>. HIDE DEF T
    <3>. QED  BY ONLY <2>1, <2>2, LeastNatural
  <2>4. PICK m \in TabMenu!Filled(g) : \A l \in T : m + 1 <= l
    BY <2>3
  <2>5. \A l \in TabMenu!Filled(g) : m + 1 <= l + 1
    BY <2>4
  <2>. HIDE DEF T
  <2>6. \A l \in TabMenu!Filled(g) : m <= l
    BY <2>1, <2>5
  <2>. QED  BY <2>6
<1>5. ASSUME chosen[g] \in TabMenu!Filled(g), g \notin crossed  PROVE j = chosen[g]
  <2>1. chosen[g] # NoPane
    BY <1>5, TabsConstants DEF TabMenu!Filled
  <2>2. Remembered(g)
    BY <1>5, <2>1 DEF TabsInv
  <2>. QED  BY <2>2 DEF Remembered, TabMenu!GetActiveTabId, TabMenu!ActiveTabState
<1>. HIDE DEF i, j
<1>. QED  BY <1>2, <1>3, <1>4, <1>5

\* A group of tabs that is drawn anew, or on a page that is loaded again, shows
\* the tab that was last chosen in it, and one that is not empty.
THEOREM TabsAreRemembered == Spec => [][part = "tabs" => TabMenu!TabIsRemembered]_vars
<1>1. Init => (part = "tabs" => TabsInv)
  BY DEF Init, TabMenu!TabsInit, TabMenu!Undrawn, TabsInv
<1>2. (part = "tabs" => TabsInv) /\ [Next]_vars => (part = "tabs" => TabsInv)'
  <2>. SUFFICES ASSUME part = "tabs" => TabsInv, [Next]_vars, part' = "tabs"  PROVE TabsInv'
    OBVIOUS
  <2>1. part = "tabs" /\ TabsInv
    BY PartStays
  <2>2. TabMenu!TabsNext \/ UNCHANGED tabVars
    BY <2>1 DEF Next, vars
  <2>3. CASE UNCHANGED tabVars
    BY <2>1, <2>3 DEF tabVars, TabsInv, Remembered
  <2>. QED  BY <2>1, <2>2, <2>3, TabsStep
<1>3. TabsInv => TabMenu!TabIsRemembered
  BY DrawnAsChosen DEF TabMenu!TabIsRemembered
<1>4. (part = "tabs" => TabsInv) => [part = "tabs" => TabMenu!TabIsRemembered]_vars
  BY <1>3
<1>. QED  BY <1>1, <1>2, <1>4, PTL DEF Spec
-----------------------------------------------------------------------------
(* Menu: PartProofs has the lemmas.                                        *)

\* What scrubMenu leaves in the menu and what dispatch makes of a path agree, for
\* any finite tree in which the first child of each entry is an entry: no entry
\* of the pages that menu-bootstrap.js draws leads to an error page, and whatever
\* page has nothing hidden above it is found by clicking, from any page.
THEOREM MenusLead == Spec => []MenuLeads
<1>. DEFINE I == part = "menu" => MenuInv
<1>1. Init => I
  BY MenuMeans DEF Init
<1>2. I /\ [Next]_vars => I'
  <2>. SUFFICES ASSUME I, [Next]_vars, part' = "menu"  PROVE MenuInv'
    OBVIOUS
  <2>1. part = "menu" /\ MenuInv
    BY PartStays
  <2>2. MenuNext \/ UNCHANGED menuVars
    BY <2>1 DEF Next, vars
  <2>3. CASE UNCHANGED menuVars
    BY <2>1, <2>3 DEF menuVars, MenuInv, MenuTree, Scrubbed, Pages, Above
  <2>. QED  BY <2>1, <2>2, <2>3, MenuStep
<1>3. I => MenuLeads
  BY LinksLeadOn, PagesAreThere DEF MenuLeads
<1>. QED  BY <1>1, <1>2, <1>3, PTL DEF Spec
=============================================================================
