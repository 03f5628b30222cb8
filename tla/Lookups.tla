------------------------------ MODULE Lookups ------------------------------
(***************************************************************************)
(* What network.js looks up in the state of the network: wireless networks *)
(* by the names they go by, and the networks that lead to the outside.     *)
(*                                                                         *)
(* A wireless network is a section of the UCI cache.  It goes by its own   *)
(* name, by its place among those of its radio ("radio0.network1"), and,   *)
(* when it runs, by the name of its interface.  The state of the radios    *)
(* refers to the section by name or, when it has none of its own, by its   *)
(* place among all ("@wifi-iface[0]").  The cache is edited; the state     *)
(* stays as it was read.                                                   *)
(***************************************************************************)
EXTENDS Integers, SequencesExt

CONSTANTS Radios,     \* the names of the radios, in order
          Given,      \* names that a user may give to a section
          Made,       \* names that the cache makes for new sections, in order
          Ifnames,    \* the interfaces of running networks
          Faces,      \* networks with a state, by numbers in the order of their names
          Metrics,
          None,
          MaxEdits    \* bound: edits of the cache

VARIABLES
  saved,     \* the wireless networks that the server has: name, radio, anonymous
  wireless,  \* those of the cache
  radios,    \* of each radio, its interfaces: name and section
  routes,    \* the default routes: of which network, with what metric of its
  edits

lookupVars == <<saved, wireless, radios, routes, edits>>

-----------------------------------------------------------------------------
(* Names.                                                                  *)

ByName(x) == [radio |-> None, place |-> 0, name |-> x]
ByPlace(r, i) == [radio |-> r, place |-> i, name |-> None]

\* What the state calls section i.
RefOf(s, i) == IF s[i].anonymous THEN [index |-> i, name |-> None] ELSE [index |-> 0, name |-> s[i].name]
\* uci.get: an index counts the sections of the cache as it is now.
Resolved(ref) ==
  IF ref.index = 0 THEN ref.name
  ELSE IF ref.index \in DOMAIN wireless THEN wireless[ref.index].name ELSE None

Section(x) == SelectSeq(wireless, LAMBDA s : s.name = x)
OfRadio(r) == SelectSeq(wireless, LAMBDA s : s.radio = r)

\* getWifiSidByNetid and getWifiNetidBySid
SidByNetid(net) ==
  IF net.radio # None /\ net.place \in DOMAIN OfRadio(net.radio)
    THEN OfRadio(net.radio)[net.place].name ELSE None
NetidBySid(x) ==
  IF Section(x) = <<>> THEN None
  ELSE LET r == Section(x)[1].radio
       IN  ByPlace(r, CHOOSE i \in DOMAIN OfRadio(r) : OfRadio(r)[i].name = x)

\* The interfaces of all radios, in the order in which they are gone through.
Running == FlattenSeq([i \in DOMAIN Radios |-> radios[Radios[i]]])

\* getWifiStateBySid: the first interface whose section is this one; an index
\* is believed of an anonymous section only.
StateBySid(x) ==
  LET of == SelectSeq(Running, LAMBDA n : Resolved(n.section) = x)
  IN  IF Section(x) = <<>> \/ of = <<>> THEN None
      ELSE IF ~Section(x)[1].anonymous /\ of[1].section.index # 0 THEN None
      ELSE of[1]
StateByIfname(x) ==
  LET of == SelectSeq(Running, LAMBDA n : n.ifname = x) IN IF of = <<>> THEN None ELSE of[1]

\* lookupWifiNetwork: by place, by interface, by section, without a state.  A
\* network is a section, its place, and its state.
Found(sid, netid, state) == [sid |-> sid, netid |-> netid, state |-> state]
LookupWifiNetwork(net) ==
  IF SidByNetid(net) # None THEN Found(SidByNetid(net), net, StateBySid(SidByNetid(net)))
  ELSE IF StateByIfname(net.name) # None
    THEN LET state == StateByIfname(net.name)
         IN  Found(state.section, IF state.section.index = 0 THEN NetidBySid(state.section.name)
                                  ELSE NetidBySid(Resolved(state.section)), state)
  ELSE Found(net.name, NetidBySid(net.name), StateBySid(net.name))

\* getWifiNetworks: each by the name of its section.
WifiNetworks == [i \in DOMAIN wireless |-> LookupWifiNetwork(ByName(wireless[i].name))]

-----------------------------------------------------------------------------
(* The edits of the cache.                                                 *)

Edit == edits < MaxEdits /\ edits' = edits + 1 /\ UNCHANGED <<saved, radios, routes>>

\* addWifiNetwork: only of a radio that there is.
AddWifiNetwork(r) ==
  LET free == SelectSeq(Made, LAMBDA x : Section(x) = <<>> /\ \A i \in DOMAIN saved : saved[i].name # x)
  IN  /\ Edit /\ free # <<>>
      /\ wireless' = Append(wireless, [name |-> free[1], radio |-> r, anonymous |-> TRUE])

\* deleteWifiNetwork: the section by its place, or the one the state names.
\* An index is not resolved: then nothing is removed, and it returns true.
SidToDelete(net) ==
  IF SidByNetid(net) # None THEN SidByNetid(net)
  ELSE IF StateByIfname(net.name) # None THEN StateByIfname(net.name).section.name
  ELSE None
DeleteWifiNetwork(net) ==
  /\ Edit
  /\ wireless' = SelectSeq(wireless, LAMBDA s : s.name # SidToDelete(net))

-----------------------------------------------------------------------------
(* The networks that lead to the outside.                                  *)

\* getStatusByRoute: the state of a network, once for each of its default
\* routes in the main table, by metric and by name.
Sooner(a, b) == a.metric < b.metric \/ (a.metric = b.metric /\ a.face < b.face)
StatusByRoute == SetToSortSeq({i \in DOMAIN routes : ~routes[i].table},
                              LAMBDA i, j : Sooner(routes[i], routes[j]) \/ (~Sooner(routes[j], routes[i]) /\ i < j))
\* getWANNetworks and getWAN6Networks: each network once.
WanNetworks ==
  FoldLeft(LAMBDA rv, i : IF routes[i].face \in Range(rv) THEN rv ELSE Append(rv, routes[i].face),
           <<>>, StatusByRoute)

-----------------------------------------------------------------------------
\* The server has two wireless networks, some of them running; or there are
\* routes, whose metric is that of the network.
Sections == [name : Given \cup Range(Made), radio : Range(Radios), anonymous : BOOLEAN]
OneMetric(rs) == \A i, j \in DOMAIN rs : rs[i].face = rs[j].face => rs[i].metric = rs[j].metric
WirelessInit ==
  /\ saved \in {s \in [1 .. 2 -> Sections] :
                  s[1].name # s[2].name /\ \A i \in 1 .. 2 : s[i].anonymous <=> s[i].name \in Range(Made)}
  /\ \E names \in [1 .. 2 -> Ifnames \cup {None}] :
       /\ names[1] # names[2] \/ names[1] = None
       /\ radios = [r \in Range(Radios) |->
                      LET up == SelectSeq(<<1, 2>>, LAMBDA i : saved[i].radio = r /\ names[i] # None)
                      IN  [k \in DOMAIN up |-> [ifname |-> names[up[k]], section |-> RefOf(saved, up[k])]]]
  /\ routes = <<>>
RoutesInit ==
  /\ saved = <<>> /\ radios = [r \in Range(Radios) |-> <<>>]
  /\ routes \in {rs \in [1 .. 3 -> [face : Faces, table : BOOLEAN, metric : Metrics]] : OneMetric(rs)}
LookupsInit == (WirelessInit \/ RoutesInit) /\ wireless = saved /\ edits = 0

LookupsNext ==
  \/ \E r \in Range(Radios) : AddWifiNetwork(r)
  \/ \E r \in Range(Radios), i \in 1 .. 2 : DeleteWifiNetwork(ByPlace(r, i))
  \/ \E x \in Ifnames : DeleteWifiNetwork(ByName(x))

-----------------------------------------------------------------------------
LookupsTypeOK ==
  /\ Range(wireless) \subseteq Sections
  /\ \A i, j \in DOMAIN wireless : i # j => wireless[i].name # wireless[j].name
  /\ edits \in 0 .. MaxEdits

\* Each wireless network is found under its own name and under its place, with
\* the state of its own interface: unless it is named like an interface, and,
\* where the state counts sections, once one of those it counted is removed
\* (network.js:149).  Refers to lookupWifiNetwork, getWifiNetworks and the
\* functions they use (network.js).
Countable == IsPrefix(saved, wireless) \/ \A n \in Range(Running) : n.section.index = 0
OwnState(x) ==
  LET of == {n \in Range(Running) : \E i \in DOMAIN saved : saved[i].name = x /\ n.section = RefOf(saved, i)}
  IN  IF of = {} THEN None ELSE CHOOSE n \in of : TRUE
WifiIsFound ==
  \A i \in DOMAIN wireless :
    LET x == wireless[i].name
    IN  /\ LookupWifiNetwork(NetidBySid(x)).sid = x
        /\ Countable => LookupWifiNetwork(NetidBySid(x)).state = OwnState(x)
        /\ x \notin Ifnames => WifiNetworks[i].sid = x /\ WifiNetworks[i].netid = NetidBySid(x)

\* The networks with a default route are listed once each, and none before one
\* with a smaller metric.  Refers to getStatusByRoute, getWANNetworks (network.js).
WanNetworksOrdered ==
  /\ Range(WanNetworks) = {routes[i].face : i \in {k \in DOMAIN routes : ~routes[k].table}}
  /\ \A i, j \in DOMAIN WanNetworks : i < j =>
       \E a, b \in DOMAIN routes : /\ routes[a].face = WanNetworks[i] /\ routes[b].face = WanNetworks[j]
                                   /\ Sooner(routes[a], routes[b])
=============================================================================
