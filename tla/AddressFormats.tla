----------------------------- MODULE AddressFormats -----------------------------
(***************************************************************************)
(* What an address means: how IPv4Address, IPv6Address and unixAddress are *)
(* read from text and from C structures, written back to C structures and  *)
(* text, compared and ordered.                                             *)
(*                                                                         *)
(* One address `a` is constructed; `b` starts as a copy of it and goes     *)
(* through any number of conversions: copies (every copy of an address is  *)
(* a round trip through a C structure), the kernel (bind, then             *)
(* localAddress), and names (an address constructed from b.name()).        *)
(*                                                                         *)
(* A text is kept in the parts its accepted formats have: scheme, host,    *)
(* brackets, port.  Texts of other forms are not modelled.  A conversion   *)
(* that throws is no step.                                                 *)
(*                                                                         *)
(* A unix address read from a C structure may fill sun_path.  Written back *)
(* it has its zero behind sun_path, in an octet that is somebody else's:   *)
(* undefined behaviour.  No octet of the address is lost by it, so a       *)
(* conversion still gives the structure it gives here, unless the program  *)
(* is ended, and then there is no step.  What else was in that octet is    *)
(* not state of this module.                                               *)
(***************************************************************************)
EXTENDS Integers, SequencesExt

CONSTANTS
  Octets,        \* the octets that addresses and paths are made of, with 0
  WrittenPorts,  \* the port numbers that texts name
  PathSize       \* sizeof(sockaddr_un::sun_path)

ASSUME FormatAssumption ==
  /\ 0 \in Octets /\ Octets \subseteq 0..255
  /\ WrittenPorts \subseteq Nat
  /\ PathSize \in Nat \ {0}

VARIABLES
  a,    \* the address that was constructed
  b,    \* what became of it
  via   \* history: the kinds of conversion on the way from a to b

vars == <<a, b, via>>

(* The enumerators are the C library's: AF_UNIX, AF_INET, AF_INET6; 0xFF   *)
(* is the tag of a default-constructed address.                            *)
unix == 1
IPv4 == 2
IPv6 == 10
NoDomain == 255

PortModulus == 65536
NoPort == -1
NoScheme == "none"

-----------------------------------------------------------------------------
(* Texts and the resolver.                                                 *)

(* A host is a name, or an address in numbers, for IPv6 possibly with a    *)
(* scope ("fe80::1%eth0").                                                 *)
Named4 == <<10, 0, 0, 1>>
Named6 == <<0, 1, 0, 2>>
HostName == [kind |-> NoDomain, octets |-> <<>>, scope |-> 0]
Numeric(d, octets, scope) == [kind |-> d, octets |-> octets, scope |-> scope]

(* Addresses have 4 octets, IPv6 addresses here too: two groups of 16 bits.*)
Wire == {<<x, 0, 0, y>> : x, y \in Octets}

Hosts == {HostName} \cup {Numeric(IPv4, w, 0) : w \in Wire}
                    \cup {Numeric(IPv6, w, s) : w \in Wire, s \in {0, 1}}

Text(scheme, host, bracketed, port) ==
  [scheme |-> scheme, host |-> host, bracketed |-> bracketed, port |-> port]

Texts ==
  {Text(s, h, FALSE, p) : s \in {NoScheme, "http"},
     h \in {x \in Hosts : x.kind # IPv6}, p \in WrittenPorts \cup {NoPort}}
  \cup {Text(NoScheme, h, FALSE, NoPort) : h \in {x \in Hosts : x.kind = IPv6}}
  \cup {Text(NoScheme, h, TRUE, p) : h \in {x \in Hosts : x.kind = IPv6}, p \in WrittenPorts}

(* getaddrinfo.  It gives the same answer to the same question. *)
Resolves(d, host) == host.kind \in {d, NoDomain}
ResolvedOctets(d, host) ==
  IF host # HostName THEN host.octets ELSE IF d = IPv4 THEN Named4 ELSE Named6
ServicePort(scheme) == IF scheme = "http" THEN 80 ELSE 0

-----------------------------------------------------------------------------
(* Network order.                                                          *)

htons(n) == <<n \div 256, n % 256>>
ntohs(w) == w[1] * 256 + w[2]

(* swapEndian, between the octets on the wire and groups of 16 bits. *)
Groups(octets) == <<ntohs(SubSeq(octets, 1, 2)), ntohs(SubSeq(octets, 3, 4))>>
Octetted(groups) == htons(groups[1]) \o htons(groups[2])

-----------------------------------------------------------------------------
(* Addresses: the tag, whether there is a pointee, and the pointee.        *)
(* m_flowInfo is treated in all places as m_scopeId is, and left out.      *)

NoPointee(d) == [dom |-> d, has |-> FALSE]

Blank == NoPointee(NoDomain)

InetAddress(d, octets, port, scope, name) ==
  [dom |-> d, has |-> TRUE,
   addr |-> IF d = IPv6 THEN Groups(octets) ELSE octets,
   port |-> port, scope |-> scope, name |-> name]

unixAddress(path) == [dom |-> unix, has |-> TRUE, path |-> path]

(* IPv4Address(string), IPv6Address(string): the formats each accepts.  A  *)
(* port alone, for an any address, makes the text "0.0.0.0:port".          *)
IPv4Accepts(t) == Resolves(IPv4, t.host) /\ ~t.bracketed

IPv6Accepts(t) ==
  /\ Resolves(IPv6, t.host)
  /\ t.port # NoPort => t.bracketed \/ t.scheme # NoScheme

Accepts(d, t) == IF d = IPv4 THEN IPv4Accepts(t) ELSE IPv6Accepts(t)

ParsedPortAlwaysService(t) == ServicePort(t.scheme)

ParsedPort(t) ==
  LET written == IF t.port = NoPort THEN 0 ELSE t.port % PortModulus
  IN  IF written = 0 THEN ServicePort(t.scheme) ELSE written

FromText(d, t) ==
  InetAddress(d, ResolvedOctets(d, t.host), ParsedPort(t), t.host.scope, t)

(* address(string): IPv6 first, then IPv4. *)
Guess(t) == IF Accepts(IPv6, t) THEN IPv6 ELSE IPv4

(* What a unix address can hold; what unixAddress(string) accepts.         *)
Paths == UNION {[1..n -> Octets] : n \in 0..PathSize}

TextPaths == {p \in Paths : Len(p) + 1 <= PathSize}

IsNamed(x) == x.path # <<>> /\ x.path[1] # 0

-----------------------------------------------------------------------------
(* C structures, with their length.  For unix the length counts: octets    *)
(* beyond it are not initialized.  Of a pathname that fills sun_path it is *)
(* one more than the structure has, as the kernel's is.                    *)

FamilySize == 2
PathOffset == 2
Garbage == 256

SizeOf(path) ==
  CASE path = <<>>   -> FamilySize
    [] path # <<>> /\ path[1] = 0  -> Len(path) + FamilySize
    [] path # <<>> /\ path[1] # 0  -> PathOffset + Len(path) + 1

(* Where the conversion puts its zero: sun_path[m_addr.size()].            *)
Terminator(path) == Len(path) + 1

UnixStruct(path) ==
  LET size == SizeOf(path)
  IN  [family |-> unix, len |-> size,
       path |-> [i \in 1..PathSize |->
                   IF i > size - PathOffset THEN Garbage
                   ELSE IF i = Terminator(path) THEN 0 ELSE path[i]]]

(* operator sockaddr_in and sockaddr_in6. *)
IPv4Struct(x) ==
  [family |-> IPv4, addr |-> x.addr, port |-> htons(x.port), scope |-> 0]

IPv6Struct(x) ==
  [family |-> IPv6, addr |-> Octetted(x.addr), port |-> htons(x.port), scope |-> x.scope]

(* address::operator sockaddr_storage. *)
ToStruct(x) ==
  CASE x.dom = unix -> UnixStruct(x.path)
    [] x.dom = IPv4 -> IPv4Struct(x)
    [] x.dom = IPv6 -> IPv6Struct(x)

(* unixAddress(sockaddr_un, len). *)
PathOfKeepingEnd(s) == SubSeq(s.path \o <<Garbage>>, 1, s.len - FamilySize)

PathOfOneMore(s) ==
  IF s.len > PathOffset + 1 /\ s.path[1] # 0
  THEN SubSeq(s.path, 1, s.len - PathOffset - 1)
  ELSE SubSeq(s.path \o <<Garbage>>, 1, s.len - FamilySize + 1)

PathOf(s) ==
  IF s.len > PathOffset + 1 /\ s.path[1] # 0
  THEN SubSeq(s.path, 1, s.len - PathOffset - 1)
  ELSE IF s.len > FamilySize THEN SubSeq(s.path, 1, s.len - FamilySize) ELSE <<>>

(* IPv4Address(sockaddr_in), IPv6Address(sockaddr_in6): the name is        *)
(* inet_ntop's text, which has no scope, and the port.                     *)
NameOfWithoutPort(s) ==
  Text(NoScheme, Numeric(s.family, s.addr, 0), s.family = IPv6, 0)

NameOf(s) ==
  Text(NoScheme, Numeric(s.family, s.addr, 0), s.family = IPv6, ntohs(s.port))

IPv4FromStruct(s) == InetAddress(IPv4, s.addr, ntohs(s.port), 0, NameOf(s))

IPv6FromStruct(s) == InetAddress(IPv6, s.addr, ntohs(s.port), s.scope, NameOf(s))

(* address::assign. *)
FromStruct(s) ==
  CASE s.family = unix -> unixAddress(PathOf(s))
    [] s.family = IPv4 -> IPv4FromStruct(s)
    [] s.family = IPv6 -> IPv6FromStruct(s)

-----------------------------------------------------------------------------
(* Comparison.                                                             *)

(* operator< of std::array and std::vector. *)
SeqLess(s, t) ==
  \E n \in 0..Len(s) :
    /\ n < Len(t)
    /\ SubSeq(s, 1, n) = SubSeq(t, 1, n)
    /\ n < Len(s) => s[n + 1] < t[n + 1]

PointeeEqual(x, y) ==
  IF x.dom = unix THEN x.path = y.path ELSE x.addr = y.addr /\ x.port = y.port

PointeeLessByAddress(x, y) ==
  IF x.dom = unix THEN SeqLess(x.path, y.path) ELSE SeqLess(x.addr, y.addr)

PointeeLess(x, y) ==
  IF x.dom = unix THEN SeqLess(x.path, y.path)
  ELSE IF x.addr # y.addr THEN SeqLess(x.addr, y.addr) ELSE x.port < y.port

(* address::operator==, operator<.  Without a pointee the pointers are     *)
(* compared.                                                               *)
Equal(x, y) ==
  /\ x.dom = y.dom
  /\ IF x.has /\ y.has THEN PointeeEqual(x, y) ELSE x.has = y.has

Less(x, y) ==
  IF x.dom # y.dom THEN x.dom < y.dom
  ELSE IF x.has /\ y.has THEN PointeeLess(x, y) ELSE ~x.has /\ y.has

-----------------------------------------------------------------------------
Init == a = Blank /\ b = Blank /\ via = {}

Construct(x) == a = Blank /\ a' = x /\ b' = x /\ via' = {}

(* address(string, domain) and address(string). *)
ConstructFromText(t, d) ==
  /\ Accepts(d, t)
  /\ Construct(FromText(d, t))

ConstructGuessing(t) == ConstructFromText(t, Guess(t))

ConstructFromPath(path) == Construct(unixAddress(path))

(* address(sockaddr_storage, len), of what the kernel returns. *)
ConstructFromStruct(s) == Construct(FromStruct(s))

Becomes(x, how) == b' = x /\ via' = via \cup {how} /\ UNCHANGED a

(* address(const address&). *)
Copy == Becomes(IF b.has THEN FromStruct(ToStruct(b)) ELSE NoPointee(b.dom), "copy")

(* bind, then localAddress: the kernel ends a pathname at its first zero,  *)
(* and refuses a length that is not a sockaddr_un's.  Of an unnamed        *)
(* address, bind would make another one.                                   *)
CutAtZero(path) ==
  LET zeros == {i \in 1..Len(path) : path[i] = 0}
  IN  IF zeros = {} \/ path[1] = 0 THEN path
      ELSE SubSeq(path, 1, (CHOOSE i \in zeros : \A j \in zeros : i <= j) - 1)

Bind ==
  /\ b.has /\ b.dom = unix /\ b.path # <<>>
  /\ SizeOf(b.path) <= PathOffset + PathSize
  /\ Becomes(FromStruct(UnixStruct(CutAtZero(b.path))), "bind")

(* address(b.name(), b.addressDomain()).  An abstract or unnamed unix      *)
(* address has no name but a description.                                  *)
Rename ==
  /\ b.has
  /\ IF b.dom = unix
     THEN IsNamed(b) /\ b.path \in TextPaths /\ Becomes(unixAddress(b.path), "name")
     ELSE Accepts(b.dom, b.name) /\ Becomes(FromText(b.dom, b.name), "name")

(* The move constructor and assignment leave the tag. *)
MoveAway == b.has /\ Becomes(NoPointee(b.dom), "move")

(* Unix addresses of others too: abstract names and unterminated pathnames *)
(* can be as long as sun_path.                                             *)
Structs ==
  {UnixStruct(p) : p \in Paths}
  \cup {[family |-> d, addr |-> w, port |-> htons(p), scope |-> IF d = IPv6 THEN s ELSE 0] :
          d \in {IPv4, IPv6}, w \in Wire, p \in {0, 80}, s \in {0, 1}}

Next ==
  \/ \E t \in Texts : ConstructGuessing(t) \/ \E d \in {IPv4, IPv6} : ConstructFromText(t, d)
  \/ \E p \in TextPaths : ConstructFromPath(p)
  \/ \E s \in Structs : ConstructFromStruct(s)
  \/ Copy \/ Bind \/ Rename \/ MoveAway

Spec == Init /\ [][Next]_vars

-----------------------------------------------------------------------------
(* Properties.                                                             *)

Inets ==
  [dom : {IPv4, IPv6}, has : {TRUE}, addr : Seq(0..(PortModulus - 1)),
   port : 0..(PortModulus - 1), scope : {0, 1},
   name : [scheme : {NoScheme, "http"}, host : Hosts \cup {Numeric(IPv4, Named4, 0), Numeric(IPv6, Named6, 0)},
           bracketed : BOOLEAN, port : {NoPort} \cup Nat]]

Addresses ==
  Inets \cup {unixAddress(p) : p \in Paths}
        \cup {NoPointee(d) : d \in {unix, IPv4, IPv6, NoDomain}}

TypeOK == {a, b} \subseteq Addresses /\ via \subseteq {"copy", "bind", "name", "move"}

InnerZero(x) == x.has /\ x.dom = unix /\ CutAtZero(x.path) # x.path

(* "Addresses do not match after casting to and from sockaddr struct":     *)
(* however often an address is copied, and also bound and read back, its C *)
(* structure, length included, stays what it was: unnamed, abstract (zeros *)
(* included), pathname, both up to all of sun_path, every port and scope.  *)
CopiesKeepStruct ==
  b.has /\ "name" \notin via /\ ("bind" \in via => ~InnerZero(a)) => ToStruct(b) = ToStruct(a)

(* "NULL-terminate": an address that leaves room for the zero, as the      *)
(* constructor from a text demands, still does after any sequence of       *)
(* copies, binds and names, so that no conversion writes its zero behind   *)
(* sun_path.  (One that fills sun_path, as the kernel's may, has no room.) *)
TerminatorInside ==
  b.has /\ b.dom = unix /\ a.path \in TextPaths => Terminator(b.path) \in 1..PathSize

(* "This string should be usable to construct an identical address": an    *)
(* address constructed from the name of a copy of an address constructed   *)
(* from a name, and so on, is the same by operator==, if it has a name at  *)
(* all.  (By its C structure it is not: the name of a copy has no scope.)  *)
NamesRebuild ==
  b.has /\ ("bind" \in via => ~InnerZero(a)) => Equal(a, b)

(* "port is overwritten by 443": a port that is written wins over the      *)
(* scheme's, and survives everything.  Written as 0 or above 65535 it does *)
(* not: those are reduced modulo 2^16, and 0 counts as not written.        *)
PortAsWritten ==
  a.has /\ b.has /\ a.dom # unix /\ a.name.port \in 1..(PortModulus - 1) =>
    b.port = a.name.port

(* Of two addresses, blank and moved-from ones and other domains included, *)
(* exactly one of <, == and > holds, and < is transitive: addresses can be *)
(* the keys of a map.                                                      *)
Samples ==
  {Blank} \cup {NoPointee(d) : d \in {unix, IPv4, IPv6}}
  \cup {unixAddress(p) : p \in {q \in Paths : Len(q) <= 2}}
  \cup {FromStruct([family |-> d, addr |-> w, port |-> htons(p), scope |-> 0]) :
          d \in {IPv4, IPv6}, w \in Wire, p \in {0, 80}}

OrderIsTotal ==
  \A x \in Samples :
    /\ {Less(b, x), Equal(b, x), Less(x, b)} = BOOLEAN
    /\ ~(Less(b, x) /\ Less(x, b))
    /\ Equal(b, x) => ~Less(b, x) /\ ~Less(x, b)
    /\ Less(b, x) => \A y \in Samples : Less(x, y) => Less(b, y)
=============================================================================
