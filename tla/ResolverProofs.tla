--------------------------- MODULE ResolverProofs ---------------------------
(***************************************************************************)
(* Theorems about Resolver, for every set of host names, interfaces and    *)
(* zones, and whatever strings.ToLower does to labels that are not in      *)
(* lower case.                                                             *)
(***************************************************************************)
EXTENDS Resolver, SequenceTheorems, TLAPS

\* The index that is cached is the one of the loopback interface, never an error.
CacheInv == loopback \in {-1, Lo}

\* Nothing is cached at first.
LEMMA InitCache == Init => CacheInv
BY DEF Init, CacheInv

\* An error of net.Interfaces leaves the cache as it is.
LEMMA CacheKept ==
    ASSUME CacheInv, NEW os \in {0, Lo}
    PROVE  Cached(os) \in {-1, Lo} /\ Loopback(os) \in {os, Lo}
BY ResolverAssumption DEF CacheInv, Cached, Loopback

\* Only NewHostNameResolver and MustLoopback touch the cache.
LEMMA NextCache == ASSUME CacheInv, [Next]_vars PROVE CacheInv'
<1>1. ASSUME NEW q, NEW os \in {0, Lo}, NewHostNameResolver(q, os) PROVE CacheInv'
  BY <1>1, CacheKept DEF NewHostNameResolver, CacheInv
<1>2. CASE MustLoopback(Lo)
  BY <1>2, CacheKept DEF MustLoopback, CacheInv
<1>3. ASSUME NEW w, NEW i, NEW h, Found(w, i, h) PROVE CacheInv'
  BY <1>3 DEF Found, NewAddressResolver, addressResolverCallback, hostnameResolverCallback,
     serviceResolverCallback, CacheInv
<1>4. ASSUME NEW w, NEW i, Failure(w, i) PROVE CacheInv'
  BY <1>4 DEF Failure, NewAddressResolver, addressResolverCallback, hostnameResolverCallback,
     serviceResolverCallback, CacheInv
<1>5. CASE UNCHANGED vars
  BY <1>5 DEF vars, CacheInv
<1> QED
  BY <1>1, <1>2, <1>3, <1>4, <1>5 DEF Next

\* A step is an answer of NewHostNameResolver, an event of one of the three
\* callbacks, or neither.
LEMMA Steps ==
    ASSUME [Next]_vars
    PROVE  \/ \E q \in Queries, os \in {0, Lo} : NewHostNameResolver(q, os)
           \/ UNCHANGED <<event, asked, answer>>
           \/ \E c \in CAddresses \cup {NULL} : \E ev, i, h :
                 hostnameResolverCallback(ev, i, h, c)
           \/ \E c \in CAddresses \cup {NULL} : \E w, ev, i, names :
                 serviceResolverCallback(w, ev, i, names, c)
           \/ \E a \in Addresses : \E w, ev, i, h : NewAddressResolver(w, ev, i, h, a)
<1>1. ASSUME NEW w, NEW i, NEW h, Found(w, i, h)
      PROVE  \/ \E c \in CAddresses : \E ev : hostnameResolverCallback(ev, i, h, c)
             \/ \E c \in CAddresses \cup {NULL} : \E ev, names :
                   serviceResolverCallback(w, ev, i, names, c)
             \/ \E a \in Addresses : \E ev : NewAddressResolver(w, ev, i, h, a)
  BY <1>1, Zenon DEF Found
<1>2. ASSUME NEW w, NEW i, Failure(w, i)
      PROVE  \/ \E ev, h : hostnameResolverCallback(ev, i, h, NULL)
             \/ \E ev, names : serviceResolverCallback(w, ev, i, names, NULL)
             \/ \E a \in Addresses : \E ev, h : NewAddressResolver(w, ev, i, h, a)
  BY <1>2, Zenon DEF Failure
<1>3. CASE MustLoopback(Lo) \/ UNCHANGED vars
  BY <1>3 DEF MustLoopback, vars
<1>4. CASE \E w \in BOOLEAN, i \in IfIndexes \ {-1} :
             Failure(w, i) \/ \E h \in Hostnames : Found(w, i, h)
  BY <1>1, <1>2, <1>4, Zenon
<1> QED
  BY <1>3, <1>4 DEF Next
-----------------------------------------------------------------------------
\* What NewHostNameResolver says of localhost.
LEMMA Answer ==
    ASSUME NEW q, NEW idx \in {0, Lo}
    PROVE  /\ idx = Lo /\ q.ifidx = Lo =>
                IF q.proto \in DOMAIN LoopbackAddr
                THEN LocalAnswer(q, idx).kind = "local"
                ELSE LocalAnswer(q, idx).kind = "error"
           /\ idx = 0 => LocalAnswer(q, idx).kind = "error"
           /\ q.ifidx # Lo => LocalAnswer(q, idx).kind # "local"
BY ResolverAssumption DEF LocalAnswer, Failed, ByAvahi

\* A query is answered as Answer says, and no other step is about one.
LEMMA NextLocalhost ==
    ASSUME CacheInv, LocalhostAnswered, [Next]_vars
    PROVE  LocalhostAnswered'
<1>1. ASSUME NEW q, NEW os \in {0, Lo}, NewHostNameResolver(q, os)
      PROVE  LocalhostAnswered'
  <2>1. /\ asked' = [kind |-> "name", query |-> q, os |-> os]
        /\ answer' = IF ForLocalhost(q) THEN LocalAnswer(q, Loopback(os)) ELSE ByAvahi
    BY <1>1 DEF NewHostNameResolver
  <2>2. Loopback(os) \in {0, Lo} /\ (Loopback(os) = 0 => os = 0)
    BY CacheKept, ResolverAssumption
  <2>3. asked'.kind = "name" /\ asked'.query = q /\ asked'.os = os
    BY <2>1
  <2> DEFINE ans == LocalAnswer(q, Loopback(os))
  <2>4. CASE ForLocalhost(q) /\ q.ifidx = Lo
    <3>1. answer' = ans
      BY <2>1, <2>4
    <3>2. /\ ans.kind \in {"local", "error"}
          /\ ans.kind = "error" => os = 0 \/ q.proto \notin DOMAIN LoopbackAddr
      BY <2>2, <2>4, Answer
    <3>3. ans # ByAvahi
      BY <3>2 DEF ByAvahi
    <3> QED
      BY <2>3, <2>4, <3>1, <3>2, <3>3 DEF LocalhostAnswered, ForLocalhost, LoopbackAddr, ByAvahi
  <2>5. CASE ForLocalhost(q) /\ q.ifidx # Lo
    BY <2>1, <2>2, <2>3, <2>5, Answer DEF LocalhostAnswered, ForLocalhost
  <2>6. CASE ~ForLocalhost(q)
    BY <2>1, <2>3, <2>6 DEF LocalhostAnswered, ForLocalhost, ByAvahi
  <2> QED
    BY <2>4, <2>5, <2>6
<1>2. ASSUME asked'.kind \in {"resolved", "service", "address"} PROVE LocalhostAnswered'
  BY <1>2 DEF LocalhostAnswered
<1>3. ASSUME NEW ev, NEW i, NEW h, NEW c, hostnameResolverCallback(ev, i, h, c)
      PROVE  LocalhostAnswered'
  BY <1>2, <1>3 DEF hostnameResolverCallback
<1>4. ASSUME NEW w, NEW ev, NEW i, NEW names, NEW c,
             serviceResolverCallback(w, ev, i, names, c)
      PROVE  LocalhostAnswered'
  BY <1>2, <1>4 DEF serviceResolverCallback
<1>5. ASSUME NEW w, NEW ev, NEW i, NEW h, NEW a, NewAddressResolver(w, ev, i, h, a)
      PROVE  LocalhostAnswered'
  BY <1>2, <1>5 DEF NewAddressResolver, addressResolverCallback
<1>6. CASE UNCHANGED <<event, asked, answer>>
  BY <1>6 DEF LocalhostAnswered, ForLocalhost
<1> QED
  BY <1>1, <1>3, <1>4, <1>5, <1>6, Steps
-----------------------------------------------------------------------------
\* Avahi gets an address of its own kind, mapped ones as IPv4.
LEMMA MakeType ==
    ASSUME NEW a \in Addresses, makeAvahiAddress(a) # ErrInvalidAddress
    PROVE  makeAvahiAddress(a) \in CAddresses
BY DEF Addresses, CAddresses, makeAvahiAddress, ErrInvalidAddress, Unmap, Addr4, NoAddr

\* An address of Avahi is a pair of a family and bits, and mapped ones are IPv6.
LEMMA CAddress ==
    ASSUME NEW c \in CAddresses
    PROVE  /\ c = [proto |-> c.proto, bits |-> c.bits]
           /\ \/ c.proto = "IP4" /\ c.bits \in V4
              \/ c.proto = "IP6" /\ c.bits \in V4 \cup V6
BY DEF CAddresses

\* What a change of the zone does to an address.
LEMMA Rezoned ==
    ASSUME NEW f, NEW b, NEW z, NEW y, NEW a, a = [family |-> f, bits |-> b, zone |-> z]
    PROVE  [a EXCEPT !.zone = y] = [family |-> f, bits |-> b, zone |-> y]
<1>1. [[family |-> f, bits |-> b, zone |-> z] EXCEPT !.zone = y]
        = [family |-> f, bits |-> b, zone |-> y]
  OBVIOUS
<1> QED
  BY <1>1, Zenon

\* What is decoded from an address of Avahi, apart from its zone, which an IPv4
\* address has not.
LEMMA Decoded ==
    ASSUME NEW c \in CAddresses, NEW i
    PROVE  LET addr == decodeAvahiAddress(i, c)
           IN  \E zone : /\ addr = [family |-> c.proto, bits |-> c.bits, zone |-> zone]
                         /\ c.proto = "IP4" => zone = ""
<1> DEFINE addr == decodeAvahiAddress(i, c)
<1>1. CASE c.proto = "IP4"
  <2>1. addr = [family |-> c.proto, bits |-> c.bits, zone |-> ""]
    BY <1>1 DEF decodeAvahiAddress, Addr4
  <2> QED
    BY <1>1, <2>1
<1>2. CASE c.proto = "IP6"
  <2> DEFINE none == ""
             ip == [family |-> "IP6", bits |-> c.bits, zone |-> none]
             z == zoneName(i)
  <2>1. addr = IF IsLinkLocalUnicast(ip) THEN [ip EXCEPT !.zone = z] ELSE ip
    BY <1>2 DEF decodeAvahiAddress, Addr6
  <2> HIDE DEF z, addr
  <2>2. ip = [family |-> "IP6", bits |-> c.bits, zone |-> none]
    OBVIOUS
  <2> HIDE DEF ip, none
  <2>3. [ip EXCEPT !.zone = z] = [family |-> "IP6", bits |-> c.bits, zone |-> z]
    BY <2>2, Rezoned
  <2>4. addr = [family |-> c.proto, bits |-> c.bits, zone |-> z]
          \/ addr = [family |-> c.proto, bits |-> c.bits, zone |-> ""]
    BY <1>2, <2>1, <2>2, <2>3 DEF none
  <2>5. c.proto # "IP4"
    BY <1>2
  <2> QED
    BY <2>4, <2>5 DEF addr
<1> QED
  BY <1>1, <1>2, CAddress

\* The address of Avahi is what the address decoded from it is made into, but for
\* a mapped one, which is made into IPv4.
LEMMA MakeInvertsDecode ==
    ASSUME NEW c \in CAddresses, NEW i
    PROVE  LET addr == decodeAvahiAddress(i, c)
           IN  /\ makeAvahiAddress(addr)
                     = [proto |-> IF c.bits \in V4 THEN "IP4" ELSE c.proto, bits |-> c.bits]
               /\ Unmap(addr) = IF c.bits \in V4 THEN Addr4(c.bits) ELSE addr
               /\ addr # NoAddr
<1> DEFINE addr == decodeAvahiAddress(i, c)
<1>1. PICK zone : /\ addr = [family |-> c.proto, bits |-> c.bits, zone |-> zone]
                  /\ c.proto = "IP4" => zone = ""
  BY Decoded
<1> HIDE DEF addr
<1>2. Unmap(addr) = IF c.bits \in V4 THEN Addr4(c.bits) ELSE addr
  BY <1>1, CAddress DEF Unmap, Addr4
<1> DEFINE f == IF c.bits \in V4 THEN "IP4" ELSE c.proto
<1>3. Unmap(addr).family = f /\ Unmap(addr).bits = c.bits
  <2>1. CASE c.bits \in V4
    <3>1. Unmap(addr) = Addr4(c.bits) /\ f = "IP4"
      BY <1>2, <2>1
    <3>2. Addr4(c.bits).family = "IP4" /\ Addr4(c.bits).bits = c.bits
      BY DEF Addr4
    <3> QED
      BY <3>1, <3>2, Zenon
  <2>2. CASE c.bits \notin V4
    <3>1. Unmap(addr) = addr /\ f = c.proto
      BY <1>2, <2>2
    <3>2. addr.family = c.proto /\ addr.bits = c.bits
      BY <1>1
    <3> QED
      BY <3>1, <3>2
  <2> QED
    BY <2>1, <2>2
<1>4. addr # NoAddr /\ Unmap(addr) # NoAddr
  <2>1. NoAddr.family = "none" /\ c.proto # "none" /\ f # "none"
    BY CAddress DEF NoAddr
  <2>2. addr.family = c.proto
    BY <1>1
  <2> QED
    BY <1>3, <2>1, <2>2
<1>5. makeAvahiAddress(addr)
        = [proto |-> IF c.bits \in V4 THEN "IP4" ELSE c.proto, bits |-> c.bits]
  BY <1>3, <1>4 DEF makeAvahiAddress
<1> QED
  BY <1>2, <1>4, <1>5 DEF addr

\* So it comes back from Avahi as what it is when it is not mapped.
LEMMA ComesBack ==
    ASSUME NEW c \in CAddresses, NEW i
    PROVE  LET addr == decodeAvahiAddress(i, c)
           IN  decodeAvahiAddress(i, makeAvahiAddress(addr)) = Unmap(addr)
<1> DEFINE addr == decodeAvahiAddress(i, c)
           made == [proto |-> IF c.bits \in V4 THEN "IP4" ELSE c.proto, bits |-> c.bits]
<1>1. /\ makeAvahiAddress(addr) = made
      /\ Unmap(addr) = IF c.bits \in V4 THEN Addr4(c.bits) ELSE addr
  BY MakeInvertsDecode
<1>2. CASE c.bits \in V4
  <2>1. made.proto = "IP4" /\ made.bits = c.bits
    BY <1>2
  <2> HIDE DEF made, addr
  <2>2. decodeAvahiAddress(i, made) = Addr4(c.bits)
    BY <2>1 DEF decodeAvahiAddress, Addr4
  <2> QED
    BY <1>1, <1>2, <2>2 DEF addr
<1>3. CASE c.bits \notin V4
  <2>1. made = c
    BY <1>3, CAddress
  <2> HIDE DEF made
  <2> QED
    BY <1>1, <1>3, <2>1
<1> QED
  BY <1>2, <1>3

\* Without its zone, the address is its family and its bits.
LEMMA Plain ==
    ASSUME NEW c \in CAddresses, NEW i
    PROVE  WithoutZone(decodeAvahiAddress(i, c))
             = [family |-> c.proto, bits |-> c.bits, zone |-> ""]
<1> DEFINE ip == decodeAvahiAddress(i, c)
           none == ""
<1>1. PICK zone : ip = [family |-> c.proto, bits |-> c.bits, zone |-> zone]
  BY Decoded
<1> HIDE DEF ip, none
<1>2. [ip EXCEPT !.zone = none] = [family |-> c.proto, bits |-> c.bits, zone |-> none]
  BY <1>1, Rezoned
<1> QED
  BY <1>2, Zenon DEF ip, none, WithoutZone

\* An address that comes back from Avahi is the one that was asked for, apart
\* from its zone.
LEMMA Mirrored ==
    ASSUME NEW a \in Addresses, makeAvahiAddress(a) # ErrInvalidAddress, NEW i
    PROVE  WithoutZone(decodeAvahiAddress(i, makeAvahiAddress(a))) = WithoutZone(Unmap(a))
<1> DEFINE u == Unmap(a)
           c == makeAvahiAddress(a)
           ip == decodeAvahiAddress(i, c)
<1>1. c = [proto |-> u.family, bits |-> u.bits]
  BY DEF makeAvahiAddress
<1>2. u = [family |-> u.family, bits |-> u.bits, zone |-> u.zone]
  <2>1. a = [family |-> a.family, bits |-> a.bits, zone |-> a.zone]
    BY DEF Addresses, NoAddr
  <2> QED
    BY <2>1 DEF Unmap, Addr4
<1>3. WithoutZone(ip) = [family |-> c.proto, bits |-> c.bits, zone |-> ""]
  BY MakeType, Plain
<1>4. c.proto = u.family /\ c.bits = u.bits
  BY <1>1
<1> HIDE DEF u, c, ip
<1> DEFINE none == ""
<1>5. [u EXCEPT !.zone = none] = [family |-> u.family, bits |-> u.bits, zone |-> none]
  <2> HIDE DEF none
  <2> QED
    BY <1>2, Rezoned
<1>6. WithoutZone(ip) = WithoutZone(u)
  BY <1>3, <1>4, <1>5, Zenon DEF WithoutZone
<1> QED
  BY <1>6, Zenon DEF u, c, ip

\* One of the decoders of records is for the address, and the other is not.
LEMMA OneDecodes ==
    ASSUME NEW c \in CAddresses
    PROVE  LET rdata == [len |-> IF c.proto = "IP4" THEN 4 ELSE 16, bits |-> c.bits]
           IN  {DNSDecodeA(rdata), DNSDecodeAAAA(rdata)}
                 = {[family |-> c.proto, bits |-> c.bits, zone |-> ""], NoAddr}
<1> DEFINE rdata == [len |-> IF c.proto = "IP4" THEN 4 ELSE 16, bits |-> c.bits]
           plain == [family |-> c.proto, bits |-> c.bits, zone |-> ""]
<1>1. CASE c.proto = "IP4"
  <2>1. rdata.len = 4 /\ rdata.bits = c.bits
    BY <1>1
  <2>2. DNSDecodeA(rdata) = plain /\ DNSDecodeAAAA(rdata) = NoAddr
    BY <1>1, <2>1 DEF DNSDecodeA, DNSDecodeAAAA, Addr4
  <2> QED
    BY <2>2
<1>2. CASE c.proto = "IP6"
  <2>1. rdata.len = 16 /\ rdata.bits = c.bits
    BY <1>2
  <2>2. DNSDecodeA(rdata) = NoAddr /\ DNSDecodeAAAA(rdata) = plain
    BY <1>2, <2>1 DEF DNSDecodeA, DNSDecodeAAAA, Addr6
  <2> QED
    BY <2>2
<1> QED
  BY <1>1, <1>2, CAddress

\* What AddressSurvives says of every event: it can be made again, and decoded.
LEMMA EventSurvives ==
    ASSUME NEW c \in CAddresses \cup {NULL}, NEW i,
           event'.ifidx = i, event'.addr = decodeAvahiAddress(i, c),
           asked'.kind = "address" =>
               WithoutZone(event'.addr) = WithoutZone(Unmap(asked'.addr))
    PROVE  AddressSurvives'
<1>1. CASE c = NULL
  <2>1. event'.addr = NoAddr
    BY <1>1 DEF decodeAvahiAddress, NULL, NoAddr
  <2> QED
    BY <2>1 DEF AddressSurvives
<1>2. CASE c \in CAddresses
  <2> DEFINE addr == event'.addr
             made == makeAvahiAddress(addr)
  <2>1. /\ made = [proto |-> IF c.bits \in V4 THEN "IP4" ELSE c.proto, bits |-> c.bits]
        /\ decodeAvahiAddress(event'.ifidx, made) = Unmap(addr)
    BY <1>2, MakeInvertsDecode, ComesBack
  <2>2. made \in CAddresses
    BY <1>2, <2>1, CAddress DEF CAddresses
  <2> HIDE DEF made, addr
  <2>3. WithoutZone(Unmap(addr)) = [family |-> made.proto, bits |-> made.bits, zone |-> ""]
    BY <2>1, <2>2, Plain
  <2>4. LET rdata == [len |-> IF made.proto = "IP4" THEN 4 ELSE 16, bits |-> made.bits]
        IN  {DNSDecodeA(rdata), DNSDecodeAAAA(rdata)} = {WithoutZone(Unmap(addr)), NoAddr}
    BY <2>2, <2>3, OneDecodes
  <2> QED
    BY <2>1, <2>4 DEF AddressSurvives, made, addr
<1> QED
  BY <1>1, <1>2

\* Each event is as EventSurvives has it.
LEMMA NextSurvives == ASSUME AddressSurvives, [Next]_vars PROVE AddressSurvives'
<1>1. ASSUME NEW q, NEW os, NewHostNameResolver(q, os) PROVE AddressSurvives'
  BY <1>1 DEF NewHostNameResolver, AddressSurvives
<1>2. ASSUME NEW c \in CAddresses \cup {NULL}, NEW ev, NEW i, NEW h,
             hostnameResolverCallback(ev, i, h, c)
      PROVE  AddressSurvives'
  <2>1. event'.ifidx = i /\ event'.addr = decodeAvahiAddress(i, c) /\ asked'.kind = "resolved"
    BY <1>2 DEF hostnameResolverCallback
  <2> QED
    BY <2>1, EventSurvives
<1>3. ASSUME NEW c \in CAddresses \cup {NULL}, NEW w, NEW ev, NEW i, NEW names,
             serviceResolverCallback(w, ev, i, names, c)
      PROVE  AddressSurvives'
  <2>1. event'.ifidx = i /\ event'.addr = decodeAvahiAddress(i, c) /\ asked'.kind = "service"
    BY <1>3 DEF serviceResolverCallback
  <2> QED
    BY <2>1, EventSurvives
<1>4. ASSUME NEW a \in Addresses, NEW w, NEW ev, NEW i, NEW h,
             NewAddressResolver(w, ev, i, h, a)
      PROVE  AddressSurvives'
  <2>1. /\ event'.ifidx = i /\ event'.addr = decodeAvahiAddress(i, makeAvahiAddress(a))
        /\ asked'.addr = a /\ makeAvahiAddress(a) # ErrInvalidAddress
    BY <1>4 DEF NewAddressResolver, addressResolverCallback
  <2> QED
    BY <2>1, MakeType, Mirrored, EventSurvives
<1>5. CASE UNCHANGED <<event, asked, answer>>
  BY <1>5 DEF AddressSurvives
<1> QED
  BY <1>1, <1>2, <1>3, <1>4, <1>5, Steps
-----------------------------------------------------------------------------
\* ToLower leaves the forced name as it is: isLocalhost knows it.
LEMMA ForcedName == IsLocalhost(<<"localhost", "localdomain">>)
<1> DEFINE f == <<"localhost", "localdomain">>
           g == [i \in DOMAIN f |->
                    IF f[i] \in DOMAIN LowerCase THEN LowerCase[f[i]] ELSE f[i]]
<1>1. DOMAIN f = 1 .. 2 /\ f[1] = "localhost" /\ f[2] = "localdomain"
  OBVIOUS
<1>2. g = [i \in 1 .. 2 |-> f[i]]
  BY <1>1, ResolverAssumption
<1>3. g = f
  BY <1>1, <1>2
<1> QED
  BY <1>3 DEF IsLocalhost

\* The name that ForceLocalhost makes, as FQDN has it.
LEMMA ForcedFQDN ==
    FQDN([hostname |-> <<"localhost">>, domain |-> <<"localdomain">>])
      = <<"localhost", "localdomain">>
<1> DEFINE h == <<"localhost">>
           d == <<"localdomain">>
           f == <<"localhost", "localdomain">>
           S == {"localhost", "localdomain"}
<1>1. h \in Seq(S) /\ d \in Seq(S) /\ f \in Seq(S)
  OBVIOUS
<1>2. Len(h) = 1 /\ Len(d) = 1 /\ Len(f) = 2 /\ h[1] = f[1] /\ d[1] = f[2]
  OBVIOUS
<1> HIDE DEF h, d, f, S
<1>3. /\ h \o d \in Seq(S) /\ Len(h \o d) = Len(h) + Len(d)
      /\ \A i \in 1 .. Len(h) + Len(d) :
            (h \o d)[i] = IF i <= Len(h) THEN h[i] ELSE d[i - Len(h)]
  BY <1>1, ConcatProperties
<1>4. \A i \in 1 .. Len(f) : (h \o d)[i] = f[i]
  BY <1>2, <1>3
<1>5. h \o d = f
  BY <1>1, <1>2, <1>3, <1>4, SeqEqual
<1> QED
  BY <1>5 DEF FQDN, h, d, f

\* Each constructor of addresses has its family, and a loopback address has one.
LEMMA Families ==
    /\ \A b : Addr4(b).family = "IP4" /\ Addr6(b).family = "IP6"
    /\ \A addr : IsLoopback(addr) => addr.family \in {"IP4", "IP6"}
BY DEF Addr4, Addr6, IsLoopback, IsOneOf

\* The answers of HostNameResolver are loopback addresses of the family asked for.
LEMMA LoopbackAnswers ==
    /\ LoopbackAddr["IP4"] = Addr4("127.0.0.1") /\ LoopbackAddr["IP6"] = Addr6("::1")
    /\ IsLoopback(Addr4("127.0.0.1")) /\ IsLoopback(Addr6("::1"))
    /\ {"IP4", "IP6"} \subseteq DOMAIN LoopbackAddr
<1>1. LoopbackAddr["IP4"] = Addr4("127.0.0.1") /\ LoopbackAddr["IP6"] = Addr6("::1")
  BY DEF LoopbackAddr
<1>2. IsLoopback(Addr4("127.0.0.1")) /\ IsLoopback(Addr6("::1"))
  <2>1. Addr4("127.0.0.1").family = "IP4" /\ Addr4("127.0.0.1").bits = "127.0.0.1"
    BY DEF Addr4
  <2>2. Addr6("::1").family = "IP6" /\ Addr6("::1").bits = "::1"
    BY DEF Addr6
  <2> QED
    BY <2>1, <2>2 DEF IsLoopback, IsOneOf
<1>3. {"IP4", "IP6"} \subseteq DOMAIN LoopbackAddr
  BY DEF LoopbackAddr
<1> QED
  BY <1>1, <1>2, <1>3

\* What LoopbackRoundTrip says of an event with that name: a query for it on
\* the loopback interface is answered with such an address.
LEMMA LeadsBack ==
    ASSUME event'.fqdn = <<"localhost", "localdomain">>
    PROVE  LoopbackRoundTrip'
<1> DEFINE q == BackQuery(event')
           f == event'.addr.family
           back == LocalAnswer(q, Lo)
<1> SUFFICES ASSUME IsLoopback(event'.addr)
             PROVE  /\ ForLocalhost(q) /\ back.kind = "local"
                    /\ IsLoopback(back.addr) /\ back.addr.family = event'.addr.family
                    /\ event'.addr \in {Addr4("127.0.0.1"), Addr6("::1")} =>
                         back.addr = event'.addr
  BY DEF LoopbackRoundTrip, BackQuery
<1>1. /\ q.workarounds /\ q.use = {"multicast"} /\ q.hostname = <<"localhost", "localdomain">>
      /\ q.ifidx = Lo /\ q.proto = f
  BY DEF BackQuery
<1>2. f \in {"IP4", "IP6"}
  BY Families
<1> HIDE DEF q, f
<1>3. ForLocalhost(q)
  BY <1>1, ForcedName DEF ForLocalhost
<1>4. back = [kind |-> "local", ifidx |-> q.ifidx, hostname |-> q.hostname,
              addr |-> LoopbackAddr[f]]
  BY <1>1, <1>2, LoopbackAnswers, ResolverAssumption DEF LocalAnswer
<1>5. back.kind = "local" /\ back.addr = LoopbackAddr[f]
  BY <1>4
<1> HIDE DEF back
<1>6. IsLoopback(back.addr) /\ back.addr.family = f
  BY <1>2, <1>5, LoopbackAnswers, Families
<1>7. event'.addr \in {Addr4("127.0.0.1"), Addr6("::1")} => back.addr = event'.addr
  BY <1>5, LoopbackAnswers, Families DEF f
<1> QED
  BY <1>3, <1>5, <1>6, <1>7 DEF f

\* With the workarounds, both events with a loopback address have that name.
LEMMA NextRoundTrip == ASSUME LoopbackRoundTrip, [Next]_vars PROVE LoopbackRoundTrip'
<1>1. ASSUME NEW q, NEW os, NewHostNameResolver(q, os) PROVE LoopbackRoundTrip'
  BY <1>1 DEF NewHostNameResolver, LoopbackRoundTrip
<1>2. ASSUME NEW ev, NEW i, NEW h, NEW c, hostnameResolverCallback(ev, i, h, c)
      PROVE  LoopbackRoundTrip'
  BY <1>2 DEF hostnameResolverCallback, LoopbackRoundTrip
<1>3. ASSUME NEW w, NEW ev, NEW i, NEW names, NEW c,
             serviceResolverCallback(w, ev, i, names, c)
      PROVE  LoopbackRoundTrip'
  <2> DEFINE ip == decodeAvahiAddress(i, c)
  <2>1. event'.addr = ip /\ event'.fqdn = FQDN(ForceLocalhost(w, ip, names))
        /\ asked'.workarounds = w
    BY <1>3 DEF serviceResolverCallback
  <2>2. CASE w /\ IsLoopback(ip)
    BY <2>1, <2>2, ForcedFQDN, LeadsBack DEF ForceLocalhost
  <2>3. CASE ~(w /\ IsLoopback(ip))
    BY <2>1, <2>3 DEF LoopbackRoundTrip
  <2> QED
    BY <2>2, <2>3
<1>4. ASSUME NEW w, NEW ev, NEW i, NEW h, NEW a, NewAddressResolver(w, ev, i, h, a)
      PROVE  LoopbackRoundTrip'
  <2> DEFINE ip == decodeAvahiAddress(i, makeAvahiAddress(a))
  <2>1. /\ event'.addr = ip /\ asked'.workarounds = w
        /\ event'.fqdn = IF w /\ IsLoopback(ip) THEN <<"localhost", "localdomain">> ELSE h
    BY <1>4 DEF NewAddressResolver, addressResolverCallback
  <2>2. CASE w /\ IsLoopback(ip)
    BY <2>1, <2>2, LeadsBack
  <2>3. CASE ~(w /\ IsLoopback(ip))
    BY <2>1, <2>3 DEF LoopbackRoundTrip
  <2> QED
    BY <2>2, <2>3
<1>5. CASE UNCHANGED <<event, asked, answer>>
  BY <1>5 DEF LoopbackRoundTrip
<1> QED
  BY <1>1, <1>2, <1>3, <1>4, <1>5, Steps
-----------------------------------------------------------------------------
\* Whatever net.Interfaces said earlier, the cache holds the index or nothing.
THEOREM CacheIsRight == Spec => []CacheInv
BY InitCache, NextCache, PTL DEF Spec

\* doc.go:426: with the workarounds a query for localhost on the loopback
\* interface never goes to Avahi, nor does it fail because net.Interfaces has
\* failed earlier; and no query elsewhere is answered locally.
THEOREM LocalhostIsAnswered == Spec => []LocalhostAnswered
<1>1. Init => LocalhostAnswered
  BY DEF Init, Nothing, LocalhostAnswered
<1> QED
  BY <1>1, NextLocalhost, CacheIsRight, PTL DEF Spec

\* An address survives its way through the package, in both directions, and what
\* is lost of a mapped one is that it was.
THEOREM AddressIsKept == Spec => []AddressSurvives
<1>1. Init => AddressSurvives
  BY DEF Init, AddressSurvives
<1> QED
  BY <1>1, NextSurvives, PTL DEF Spec

\* client.go:62-68: with the workarounds the name that comes with a loopback
\* address is one that HostNameResolver resolves to a loopback address of its
\* family, and 127.0.0.1 and ::1 to themselves.
THEOREM NameLeadsBack == Spec => []LoopbackRoundTrip
<1>1. Init => LoopbackRoundTrip
  BY DEF Init, LoopbackRoundTrip
<1> QED
  BY <1>1, NextRoundTrip, PTL DEF Spec
=============================================================================
