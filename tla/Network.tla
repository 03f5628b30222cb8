------------------------------ MODULE Network ------------------------------
(***************************************************************************)
(* The browser's model of networks, wireless networks and firewall zones:  *)
(* network.js and firewall.js on top of the UCI cache.  A caller adds,     *)
(* renames and deletes networks, puts devices and wireless networks into   *)
(* them and edits zones and forwardings.  Everything happens in one step   *)
(* but deleteNetwork, which waits three times and is overtaken by the rest.*)
(*                                                                         *)
(* Of a section the model keeps what refers to another section; values are *)
(* sets.  Names are valid and a configuration other than the firewall's is *)
(* loaded; nothing uses zones before the firewall's is.                    *)
(***************************************************************************)
EXTENDS Naturals, FiniteSets

CONSTANTS Names,      \* of networks
          Devs,       \* of network devices
          Refs,       \* alias, route, route6 and ifstate sections
          Radio,      \* the wireless networks of one radio, 1 .. n in file order
          ZoneIds,    \* section ids of zones; one may be some zone's name
          ZoneNames,
          Fwds,       \* section ids of forwardings
          None,       \* no such section, no such option
          MaxCalls    \* bound: calls of the interface

NetworkAssumption ==
  /\ Radio \in SUBSET Nat /\ MaxCalls \in Nat
  /\ None \notin Names \cup Devs \cup ZoneIds \cup ZoneNames
  /\ None \notin [name : ZoneNames, nets : SUBSET Names]

VARIABLES
  iface,    \* interface sections: their option device
  ref,      \* the network a section refers to, None when it is deleted
  wifi,     \* the networks a wireless network is part of, None when deleted
  zone,     \* zones: their name and networks
  fwd,      \* forwardings: from zone, to zone
  fw,       \* the firewall's configuration: unread, read or unreadable
  running,  \* the networks netifd runs
  ifaces,   \* _state.ifaces: those it ran when the state was read last
  del,      \* the deleteNetwork under way
  retired,  \* networks deleted, and not named by anybody since
  calls

sections == <<iface, ref, wifi, zone, fwd>>
ghosts == <<retired>>
vars == <<sections, fw, running, ifaces, del, ghosts, calls>>

Idle == [phase |-> "idle", net |-> None, firewall |-> FALSE, named |-> FALSE]

TypeOK ==
  /\ iface \in [Names -> (SUBSET Devs) \cup {None}]
  /\ ref \in [Refs -> Names \cup {None}]
  /\ wifi \in [Radio -> (SUBSET Names) \cup {None}]
  /\ zone \in [ZoneIds -> [name : ZoneNames, nets : SUBSET Names] \cup {None}]
  /\ fwd \in [Fwds -> [src : ZoneNames \cup {None}, dest : ZoneNames \cup {None}] \cup {None}]
  /\ fw \in {"unread", "read", "unreadable"}
  /\ running \subseteq Names /\ ifaces \subseteq Names
  /\ del.phase \in {"idle", "called", "checked", "cleaned"}
  /\ retired \subseteq Names
  /\ calls \in 0 .. MaxCalls

There(table) == {s \in DOMAIN table : table[s] # None}
Free(table) == DOMAIN table \ There(table)
Called(z) == IF zone[z] = None THEN None ELSE zone[z].name

Init ==
  /\ iface \in [Names -> {{}, None}] /\ There(iface) # {}
  /\ ref \in [Refs -> There(iface)]
  /\ wifi \in [Radio -> {{n} : n \in There(iface)}]
  /\ \E nm \in ZoneNames, z \in ZoneIds :
       zone = [i \in ZoneIds |-> IF i = z THEN [name |-> nm, nets |-> There(iface)] ELSE None]
  /\ fwd = [f \in Fwds |-> None]
  /\ fw = "unread"
  /\ running = There(iface) /\ ifaces = running
  /\ del = Idle /\ retired = {}
  /\ calls = 0

Call == calls < MaxCalls /\ calls' = calls + 1

\* A list of names in an option: one is added, one is taken out.
AppendValue(values, v) == values \cup {v}
RemoveValue(values, v) == values \ {v}

\* Zone.deleteNetwork.
LeavesZone(z, n) == [z EXCEPT !.nets = RemoveValue(@, n)]

\* Somebody uses the name n: it does not count as deleted any more.
Name(n) == /\ retired' = retired \ {n}
           /\ del' = IF del.net = n THEN [del EXCEPT !.named = TRUE] ELSE del

-----------------------------------------------------------------------------
(* Networks.                                                               *)

\* isEmpty looks for a wireless network of that section id, not for one in
\* the network: only the option device counts.
IsEmpty(n) == iface[n] \in {{}, None}

\* getNetwork: a section, or a network netifd ran when the state was read.
Exists(n) == iface[n] # None \/ n \in ifaces

\* addNetwork with the option device.  What exists and is empty is changed,
\* which does nothing where there is no section.
AddNetwork(n, d) ==
  /\ Call
  /\ Exists(n) => IsEmpty(n)
  /\ iface' = IF Exists(n) /\ iface[n] = None THEN iface ELSE [iface EXCEPT ![n] = {d}]
  /\ Name(n)
  /\ UNCHANGED <<ref, wifi, zone, fwd, fw, running, ifaces>>

\* renameNetwork: sections, wireless networks, but no firewall zones.
RenameNetwork(old, new) ==
  LET renamed(n) == IF n = old THEN new ELSE n
  IN  /\ Call
      /\ iface[old] # None /\ iface[new] = None
      /\ iface' = [iface EXCEPT ![new] = iface[old], ![old] = None]
      /\ ref' = [r \in Refs |-> renamed(ref[r])]
      /\ wifi' = [w \in Radio |-> IF wifi[w] = None THEN None ELSE {renamed(n) : n \in wifi[w]}]
          /\ Name(new)
      /\ UNCHANGED <<zone, fwd, fw, running, ifaces>>

\* deleteNetwork asks for the firewall class, which may not be available.
DeleteNetwork(n, firewall) ==
  /\ Call
  /\ del.phase = "idle"
  /\ del' = [Idle EXCEPT !.phase = "called", !.net = n, !.firewall = firewall]
  /\ UNCHANGED <<sections, fw, running, ifaces, ghosts>>

DeleteChecks ==
  /\ del.phase = "called"
  /\ del' = IF iface[del.net] = None THEN Idle ELSE [del EXCEPT !.phase = "checked"]
  /\ UNCHANGED <<sections, fw, running, ifaces, ghosts, calls>>

\* Faulty variant of Cleans: wireless networks keep the network.
CleansSectionsOnly(n) ==
  /\ iface' = [iface EXCEPT ![n] = None]
  /\ ref' = [r \in Refs |-> IF ref[r] = n THEN None ELSE ref[r]]
  /\ wifi' = wifi

\* The network, the sections that refer to it, the wireless networks in it.
Cleans(n) ==
  /\ iface' = [iface EXCEPT ![n] = None]
  /\ ref' = [r \in Refs |-> IF ref[r] = n THEN None ELSE ref[r]]
  /\ wifi' = [w \in Radio |-> IF wifi[w] = None THEN None ELSE RemoveValue(wifi[w], n)]

DeleteCleans ==
  /\ del.phase = "checked"
  /\ Cleans(del.net)
  /\ del' = IF del.firewall THEN [del EXCEPT !.phase = "cleaned", !.named = FALSE] ELSE Idle
  /\ UNCHANGED <<zone, fwd, fw, running, ifaces, retired, calls>>

\* Zone.deleteNetwork in every zone; none is found where loading has failed.
DeleteLeavesZones ==
  /\ del.phase = "cleaned" /\ fw # "unread"
  /\ zone' = IF fw # "read" THEN zone
             ELSE [z \in ZoneIds |-> IF zone[z] = None THEN None
                                     ELSE LeavesZone(zone[z], del.net)]
  /\ retired' = IF fw = "read" /\ ~del.named THEN retired \cup {del.net} ELSE retired
  /\ del' = Idle
  /\ UNCHANGED <<iface, ref, wifi, fwd, fw, running, ifaces, calls>>

\* initFirewallState: a load that fails is not told from one that does not.
LoadFirewall(result) ==
  /\ fw = "unread"
  /\ fw' = result
  /\ UNCHANGED <<sections, running, ifaces, del, ghosts, calls>>

\* What has been saved is applied, and netifd runs it; flushCache reads that.
Applied ==
  /\ Call
  /\ running' = There(iface)
  /\ UNCHANGED <<sections, fw, ifaces, del, ghosts>>

FlushCache ==
  /\ Call
  /\ ifaces' = running
  /\ UNCHANGED <<sections, fw, running, del, ghosts>>

-----------------------------------------------------------------------------
(* Devices and wireless networks.  A wireless network is known by its      *)
(* netid, its place among those of its radio.                              *)

SidByNetid(i) ==
  LET found == {w \in There(wifi) : Cardinality({v \in There(wifi) : v <= w}) = i}
  IN  IF found = {} THEN None ELSE CHOOSE w \in found : TRUE

\* addDevice, deleteDevice of a network looked up before.  Setting an option
\* of a section that is gone does nothing.
AddDevice(n, d) ==
  /\ Call
  /\ iface' = IF iface[n] = None THEN iface ELSE [iface EXCEPT ![n] = AppendValue(@, d)]
  /\ Name(n)
  /\ UNCHANGED <<ref, wifi, zone, fwd, fw, running, ifaces>>

AddWifiDevice(n, i) ==
  /\ Call
  /\ SidByNetid(i) # None
  /\ wifi' = [wifi EXCEPT ![SidByNetid(i)] = AppendValue(@, n)]
  /\ Name(n)
  /\ UNCHANGED <<iface, ref, zone, fwd, fw, running, ifaces>>

DeleteDevice(n, d) ==
  /\ Call
  /\ iface[n] # None
  /\ iface' = [iface EXCEPT ![n] = RemoveValue(@, d)]
  /\ UNCHANGED <<ref, wifi, zone, fwd, fw, running, ifaces, del, ghosts>>

DeleteWifiDevice(n, i) ==
  /\ Call
  /\ SidByNetid(i) # None
  /\ wifi' = [wifi EXCEPT ![SidByNetid(i)] = RemoveValue(@, n)]
  /\ UNCHANGED <<iface, ref, zone, fwd, fw, running, ifaces, del, ghosts>>

DeleteWifiNetwork(i) ==
  /\ Call
  /\ SidByNetid(i) # None
  /\ wifi' = [wifi EXCEPT ![SidByNetid(i)] = None]
  /\ UNCHANGED <<iface, ref, zone, fwd, fw, running, ifaces, del, ghosts>>

-----------------------------------------------------------------------------
(* Zones and forwardings.                                                  *)

\* lookupZone: a section id is taken first, then a name.
LookupZone(nm) ==
  LET named == {z \in There(zone) : zone[z].name = nm}
  IN  IF nm \in There(zone) THEN nm
      ELSE IF named = {} THEN None ELSE CHOOSE z \in named : TRUE

ZoneCall == Call /\ fw = "read"
KeepsNetworks == UNCHANGED <<iface, ref, wifi, fw, running, ifaces>>

AddZone(z, nm) ==
  /\ ZoneCall /\ KeepsNetworks
  /\ LookupZone(nm) = None /\ zone[z] = None /\ z \notin ZoneNames
  /\ zone' = [zone EXCEPT ![z] = [name |-> nm, nets |-> {}]]
  /\ UNCHANGED <<fwd, del, ghosts>>

WithoutZone(nm) ==
  [f \in Fwds |-> IF fwd[f] # None /\ nm \in {fwd[f].src, fwd[f].dest} THEN None ELSE fwd[f]]

DeleteZone(nm) ==
  LET byId == nm \in There(zone)
      name == IF byId THEN zone[nm].name ELSE nm
      gone == IF byId THEN {nm} ELSE {z \in There(zone) : zone[z].name = nm}
  IN  /\ ZoneCall /\ KeepsNetworks
      /\ gone # {}
      /\ zone' = [z \in ZoneIds |-> IF z \in gone THEN None ELSE zone[z]]
      /\ fwd' = WithoutZone(name)
      /\ UNCHANGED <<del, ghosts>>

RenameZone(old, new) ==
  LET renamed(nm) == IF nm = old THEN new ELSE nm
  IN  /\ ZoneCall /\ KeepsNetworks
      /\ LookupZone(new) = None
      /\ \E z \in There(zone) : zone[z].name = old
      /\ zone' = [z \in ZoneIds |-> IF zone[z] = None THEN None
                                    ELSE [zone[z] EXCEPT !.name = renamed(@)]]
      /\ fwd' = [f \in Fwds |-> IF fwd[f] = None THEN None
                   ELSE [src |-> renamed(fwd[f].src), dest |-> renamed(fwd[f].dest)]]
      /\ UNCHANGED <<del, ghosts>>

ZoneAddNetwork(z, n) ==
  /\ ZoneCall /\ KeepsNetworks
  /\ zone[z] # None /\ iface[n] # None /\ n \notin zone[z].nets
  /\ zone' = [zone EXCEPT ![z].nets = AppendValue(@, n)]
  /\ Name(n)
  /\ UNCHANGED fwd

\* addForwardingTo (out) and addForwardingFrom (not out) of the zone object z,
\* which may outlive its section: then it has no name.
AddForwarding(z, nm, out) ==
  LET me    == Called(z)
      other == LookupZone(nm)
      new   == IF out THEN [src |-> me, dest |-> Called(other)]
                      ELSE [src |-> Called(other), dest |-> me]
  IN  /\ ZoneCall /\ KeepsNetworks
      /\ other # None /\ Called(other) # me
      /\ me = None \/ \A f \in Fwds : fwd[f] # new
      /\ Free(fwd) # {}
      /\ fwd' = [fwd EXCEPT ![CHOOSE f \in Free(fwd) : TRUE] = new]
      /\ UNCHANGED <<zone, del, ghosts>>

\* deleteForwardingsBy: one without both ends is passed over.
DeleteForwardingsBy(z, what) ==
  LET mine(f) == fwd[f] # None /\ fwd[f].src # None /\ fwd[f].dest # None /\ fwd[f][what] = Called(z)
  IN  /\ ZoneCall /\ KeepsNetworks
      /\ \E f \in Fwds : mine(f)
      /\ fwd' = [f \in Fwds |-> IF mine(f) THEN None ELSE fwd[f]]
      /\ UNCHANGED <<zone, del, ghosts>>

-----------------------------------------------------------------------------
NetworkStep ==
  \/ \E n \in Names, d \in Devs : AddNetwork(n, d) \/ AddDevice(n, d) \/ DeleteDevice(n, d)
  \/ \E old, new \in Names : RenameNetwork(old, new)
  \/ \E n \in Names, firewall \in BOOLEAN : DeleteNetwork(n, firewall)
  \/ DeleteChecks \/ DeleteCleans \/ DeleteLeavesZones
  \/ Applied \/ FlushCache

WifiStep ==
  \E i \in Radio : \/ \E n \in Names : AddWifiDevice(n, i) \/ DeleteWifiDevice(n, i)
                   \/ DeleteWifiNetwork(i)

ZoneStep ==
  \/ \E result \in {"read", "unreadable"} : LoadFirewall(result)
  \/ \E nm \in ZoneNames \cup ZoneIds : DeleteZone(nm)
  \/ \E old, new \in ZoneNames : RenameZone(old, new)
  \/ \E z \in ZoneIds :
       \/ \E nm \in ZoneNames : AddZone(z, nm)
       \/ \E n \in Names : ZoneAddNetwork(z, n)
       \/ \E nm \in ZoneNames \cup ZoneIds, out \in BOOLEAN : AddForwarding(z, nm, out)
       \/ \E what \in {"src", "dest"} : DeleteForwardingsBy(z, what)

Next == NetworkStep \/ WifiStep \/ ZoneStep
Spec == Init /\ [][Next]_vars

-----------------------------------------------------------------------------
\* A network that deleteNetwork has deleted, firewall and all, and that
\* nobody has named since is referred to by no section of any configuration,
\* whatever else was changed while it waited.
DeletedIsForgotten ==
  \A n \in retired :
    /\ iface[n] = None
    /\ \A r \in Refs : ref[r] # n
    /\ \A w \in There(wifi) : n \notin wifi[w]
    /\ \A z \in There(zone) : n \notin zone[z].nets

\* Zones have names of their own, and the ends of a forwarding are zones: no
\* order of adding, renaming and deleting leaves one that leads nowhere, and
\* a section id that is some other zone's name misleads none of them.
ForwardingsConnectZones ==
  /\ \A y, z \in There(zone) : zone[y].name = zone[z].name => y = z
  /\ \A f \in There(fwd) : \A end \in {fwd[f].src, fwd[f].dest} \ {None} :
       \E z \in There(zone) : zone[z].name = end
=============================================================================
