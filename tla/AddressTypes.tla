---------------------------- MODULE AddressTypes ----------------------------
(***************************************************************************)
(* The data types of addresses and ports, validation.js.  A type that is   *)
(* made of others has them applied one after the other; apply puts the     *)
(* part that is meant into the register, value, and nothing puts the text  *)
(* back, so that the next alternative is asked about what is left there.   *)
(*                                                                         *)
(* A text is a sequence of pieces: numbers, names, addresses of both       *)
(* families and the signs between them.  A number behind the last colon of *)
(* an IPv6 address is its port, and does not make another address of it.   *)
(***************************************************************************)
EXTENDS Naturals, SequencesExt

CONSTANT Texts    \* what may be in a field

VARIABLES
  entered,   \* what is in the field
  kind,      \* the type it is checked against
  verdict    \* what the check said of it: unknown, valid or invalid

addressVars == <<entered, kind, verdict>>

-----------------------------------------------------------------------------
(* Pieces of text.                                                         *)

Piece(of, n, ok) == [of |-> of, n |-> n, ok |-> ok]
Sign(c) == Piece(c, 0, TRUE)
Number(n) == Piece("number", n, TRUE)
Quad(ok) == Piece("quad", 0, ok)            \* four numbers, all below 256 or not
Name == Piece("name", 0, TRUE)              \* letters, digits and underscores
Dotted == Piece("dotted", 0, TRUE)          \* with dots or hyphens in between
AddressPieces == {"quad", "groups"}

IsA(v, of) == Len(v) = 1 /\ v[1].of = of
Digits(n) == IF n < 10 THEN 1 ELSE IF n < 100 THEN 2 ELSE IF n < 1000 THEN 3 ELSE 4

\* The signs of a text with what they stand between.
Signs(v) == [i \in DOMAIN v |-> v[i].of]
Masked(v, of, digits) == Signs(v) = <<of, "/", "number">> /\ Digits(v[3].n) <= digits
MaskedBelow(v, of, digits) == Signs(v) = <<of, "/", "-", "number">> /\ Digits(v[4].n) <= digits
NetAndMask(v, of) == Signs(v) = <<of, "/", of>>

\* parseIPv4 and parseIPv6, parseInteger.
Parses(v, of) == IsA(v, of) /\ v[1].ok
Integer(v) == IsA(v, "number") \/ Signs(v) = <<"-", "number">>

-----------------------------------------------------------------------------
(* A type applied to the register: what it says and what it leaves there.  *)

Outcome(ok, left) == [ok |-> ok, left |-> left]

Width(of) == IF of = "quad" THEN 32 ELSE 128
\* ip4prefix and ip6prefix, applied to the last piece when the address is one.
Prefixed(v, of) ==
  IF v[1].ok THEN Outcome(Last(v).n <= Width(of), <<Last(v)>>) ELSE Outcome(FALSE, v)
PrefixDigits(of) == IF of = "quad" THEN 2 ELSE 3

\* ip4addr and ip6addr; only the former takes a mask that is written out.
Addr(v, of, nomask) ==
  IF ~nomask /\ Masked(v, of, PrefixDigits(of)) THEN Prefixed(v, of)
  ELSE Outcome(Parses(v, of) \/ (~nomask /\ of = "quad" /\ NetAndMask(v, of) /\ v[1].ok /\ v[3].ok), v)
\* cidr4 and cidr6
Cidr(v, of, negative) ==
  IF \/ Masked(v, of, PrefixDigits(of))
     \/ negative /\ MaskedBelow(v, of, PrefixDigits(of))
    THEN Prefixed(v, of) ELSE Outcome(FALSE, v)
\* ipnet4 and ipnet6
Net(v, of) == Outcome(NetAndMask(v, of) /\ v[1].ok /\ v[3].ok, v)

UciName(v) == Outcome(IsA(v, "name") \/ IsA(v, "number"), v)
Hostname(v) ==
  LET letters == \E i \in DOMAIN v : v[i].of \in {"name", "dotted", "-"}
      allowed == \A i \in DOMAIN v : v[i].of \in {"name", "number", "dotted", "quad", "-"}
  IN  Outcome(UciName(v).ok \/ (v # <<>> /\ allowed /\ letters /\ v[1].of # "-" /\ Last(v).of # "-"), v)
Port(v) ==
  Outcome(Integer(v) /\ Last(v).n <= 65535 /\ (Len(v) = 1 \/ Last(v).n = 0), v)
PortRange(v) ==
  IF Signs(v) = <<"number", "-", "number">> THEN Outcome(v[1].n <= v[3].n /\ v[3].n <= 65535, v)
  ELSE Port(v)
HostId(v) == Outcome(IsA(v, "name") \/ (Parses(v, "groups") /\ v[1].n = 0), v)

\* a || b: b is asked about what a has left.
Or2(a, b) == IF a.ok THEN a ELSE b

IpAddr(v, nomask) ==
  LET four == Addr(v, "quad", nomask) IN Or2(four, Addr(four.left, "groups", nomask))
CidrAny(v, negative) ==
  LET four == Cidr(v, "quad", negative) IN Or2(four, Cidr(four.left, "groups", negative))
\* ipmask4 and ipmask6
IpMaskOf(v, of, negative) ==
  LET cidr == Cidr(v, of, negative)
      net  == Net(cidr.left, of)
  IN  Or2(cidr, Or2(net, Addr(net.left, of, FALSE)))
IpMask(v, negative) ==
  LET four == IpMaskOf(v, "quad", negative) IN Or2(four, IpMaskOf(four.left, "groups", negative))
Host(v, ipv4only) ==
  Or2(Hostname(v), IF ipv4only THEN Addr(v, "quad", TRUE) ELSE IpAddr(v, TRUE))

\* Faulty variant of Network: names are tried last, as in the type's message
\* "hostname or IP address range" the other way round.
NetworkNamesLast(v) ==
  LET four == Addr(v, "quad", FALSE)
      six  == Addr(four.left, "groups", FALSE)
  IN  Or2(four, Or2(six, Or2(UciName(six.left), Hostname(six.left))))
Network(v) ==
  LET name == Or2(UciName(v), Hostname(v))
      four == Addr(name.left, "quad", FALSE)
  IN  Or2(name, Or2(four, Addr(four.left, "groups", FALSE)))

\* The parts before and after the colon, if there is one alone and they are
\* no address of many colons.
Colons(v) == {i \in DOMAIN v : v[i].of = ":"}
Behind(v) == SubSeq(v, Len(v), Len(v))
Ahead(v) == IF Len(v) < 3 THEN <<>> ELSE SubSeq(v, 1, Len(v) - 2)
EndsInPort(v) == Colons(v) = {Len(v) - 1}
NoGroups(v) == \A i \in DOMAIN v : v[i].of # "groups"

\* hostport and ip4addrport: what is ahead of the colon, then what is behind.
Both(a, v) == IF a.ok THEN Port(Behind(v)) ELSE a
HostPort(v, ipv4only) ==
  IF EndsInPort(v) /\ NoGroups(v) THEN Both(Host(Ahead(v), ipv4only), v) ELSE Outcome(FALSE, v)
Ip4AddrPort(v) ==
  IF EndsInPort(v) /\ NoGroups(v) THEN Both(Addr(Ahead(v), "quad", TRUE), v) ELSE Outcome(FALSE, v)

Bracketed(v) == Len(v) = 5 /\ v[1].of = "[" /\ v[3].of = "]"
IpAddrPort(v, bracket) ==
  IF ~EndsInPort(v) \/ Last(v).of # "number" THEN Outcome(FALSE, v)
  ELSE IF NoGroups(v) /\ ~Bracketed(v) /\ Len(v) > 2 THEN Both(Addr(Ahead(v), "quad", TRUE), v)
  ELSE IF bracket = Bracketed(v)
    THEN Both(Addr(IF bracket THEN <<v[2]>> ELSE Ahead(v), "groups", TRUE), v)
  ELSE Outcome(FALSE, v)

-----------------------------------------------------------------------------
\* The types, with the argument they take.
TypeNames == {"ip4addr", "ip6addr", "ipaddr", "cidr", "ipmask", "ip6hostid", "port", "portrange",
          "host", "network", "hostport", "ip4addrport", "ipaddrport"} \X BOOLEAN

Applied(k, v) ==
  CASE k[1] = "ip4addr" -> Addr(v, "quad", k[2])
    [] k[1] = "ip6addr" -> Addr(v, "groups", k[2])
    [] k[1] = "ipaddr" -> IpAddr(v, k[2])
    [] k[1] = "cidr" -> CidrAny(v, k[2])
    [] k[1] = "ipmask" -> IpMask(v, k[2])
    [] k[1] = "ip6hostid" -> HostId(v)
    [] k[1] = "port" -> Port(v)
    [] k[1] = "portrange" -> PortRange(v)
    [] k[1] = "host" -> Host(v, k[2])
    [] k[1] = "network" -> Network(v)
    [] k[1] = "hostport" -> HostPort(v, k[2])
    [] k[1] = "ip4addrport" -> Ip4AddrPort(v)
    [] k[1] = "ipaddrport" -> IpAddrPort(v, k[2])

AddressInit == entered = <<>> /\ kind \in TypeNames /\ verdict = "unknown"

\* The user edits the field, and the events run the validator, which starts
\* from the field each time: one edit is enough.
Enter(text) ==
  /\ verdict = "unknown"
  /\ entered' = text
  /\ verdict' = IF Applied(kind, text).ok THEN "valid" ELSE "invalid"
  /\ UNCHANGED kind

AddressNext == \E text \in Texts : Enter(text)

-----------------------------------------------------------------------------
\* What the types mean, of the text as it is.
MeansAddr(v, of, nomask) ==
  \/ Parses(v, of)
  \/ ~nomask /\ Masked(v, of, 3) /\ v[1].ok /\ Digits(v[3].n) <= PrefixDigits(of) /\ v[3].n <= Width(of)
  \/ ~nomask /\ of = "quad" /\ NetAndMask(v, of) /\ v[1].ok /\ v[3].ok
MeansCidr(v, of, negative) ==
  \/ Masked(v, of, 3) /\ v[1].ok /\ v[3].n <= Width(of)
  \/ negative /\ MaskedBelow(v, of, 3) /\ v[1].ok /\ v[4].n <= Width(of)
MeansName(v) ==
  /\ v # <<>> /\ \A i \in DOMAIN v : v[i].of \notin {"groups", "/", ":", "[", "]"}
  /\ v[1].of # "-" /\ Last(v).of # "-"
  /\ Signs(v) # <<"quad">>
MeansPort(v) == v # <<>> /\ Last(v).of = "number" /\ Last(v).n <= 65535 /\ (Len(v) = 1 \/ v = <<Sign("-"), Number(0)>>)
MeansHost(v, ipv4only) == MeansName(v) \/ Parses(v, "quad") \/ (~ipv4only /\ Parses(v, "groups"))

Means(k, v) ==
  CASE k[1] = "ip4addr" -> MeansAddr(v, "quad", k[2])
    [] k[1] = "ip6addr" -> MeansAddr(v, "groups", k[2])
    [] k[1] = "ipaddr" -> \E of \in AddressPieces : MeansAddr(v, of, k[2])
    [] k[1] = "cidr" -> \E of \in AddressPieces : MeansCidr(v, of, k[2])
    [] k[1] = "ipmask" -> \E of \in AddressPieces :
         MeansCidr(v, of, k[2]) \/ MeansAddr(v, of, FALSE) \/ (NetAndMask(v, of) /\ v[1].ok /\ v[3].ok)
    [] k[1] = "ip6hostid" -> IsA(v, "name") \/ (Parses(v, "groups") /\ v[1].n = 0)
    [] k[1] = "port" -> MeansPort(v)
    [] k[1] = "portrange" -> \/ MeansPort(v)
                             \/ \E a, b \in {x.n : x \in Range(v)} :
                                  a <= b /\ b <= 65535 /\ v = <<Number(a), Sign("-"), Number(b)>>
    [] k[1] = "host" -> MeansHost(v, k[2])
    [] k[1] = "network" -> MeansName(v) \/ \E of \in AddressPieces : MeansAddr(v, of, FALSE)
    [] k[1] = "hostport" ->
         /\ Len(v) > 2 /\ v[Len(v) - 1] = Sign(":") /\ ":" \notin Range(Signs(Ahead(v)))
         /\ NoGroups(v) /\ MeansHost(Ahead(v), k[2]) /\ MeansPort(Behind(v))
    [] k[1] = "ip4addrport" ->
         Signs(v) = <<"quad", ":", "number">> /\ v[1].ok /\ v[3].n <= 65535
    [] k[1] = "ipaddrport" ->
         \/ Signs(v) = <<"quad", ":", "number">> /\ v[1].ok /\ v[3].n <= 65535
         \/ ~k[2] /\ Signs(v) = <<"groups", ":", "number">> /\ v[1].ok /\ v[3].n <= 65535
         \/ k[2] /\ Signs(v) = <<"[", "groups", "]", ":", "number">> /\ v[2].ok /\ v[5].n <= 65535

\* A field of a type that has several alternatives is marked by what is in it:
\* no alternative accepts, or refuses, what an earlier one has left in the
\* register.  Refers to apply and the types of validation.js.
AlternativesSeeTheText == verdict # "unknown" => (verdict = "valid" <=> Means(kind, entered))

AddressTypeOK == entered \in Texts \cup {<<>>} /\ kind \in TypeNames /\ verdict \in {"unknown", "valid", "invalid"}
=============================================================================
