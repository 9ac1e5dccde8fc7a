------------------------------ MODULE Resolver ------------------------------
(***************************************************************************)
(* What the resolvers make of names and addresses, with the workarounds    *)
(* for the loopback interface that ClientLoopbackWorkarounds enables:      *)
(* hostnameresolver.go, addressresolver.go, serviceresolver.go,            *)
(* loopback.go, localhost.go.                                              *)
(*                                                                         *)
(* A host name or a domain is a sequence of labels.  Events have the       *)
(* fields that are more than a copy of what Avahi passes.                  *)
(***************************************************************************)
EXTENDS Records

CONSTANTS
    Lo,         \* the index of the loopback interface
    LowerCase,  \* strings.ToLower, for the labels that it changes
    Hostnames,  \* the host names there are
    IfIndexes,  \* interfaces: -1 for any, loopback, and others
    Zones       \* of IPv6 addresses, "" for none

\* net.Interfaces counts from one; ToLower leaves lower case alone.
ASSUME ResolverAssumption ==
    /\ Lo \in Nat \ {0}
    /\ {"localhost", "localdomain"} \cap DOMAIN LowerCase = {}

VARIABLES
    loopback,   \* the index cached by Loopback, or -1
    event,      \* the last event that a callback has made ...
    asked,      \* ... with what was asked for,
    answer      \* or the last answer of NewHostNameResolver

vars == <<loopback, event, asked, answer>>

Nothing == [kind |-> "none"]

Init ==
    /\ loopback = -1
    /\ event = Nothing
    /\ asked = Nothing
    /\ answer = Nothing

IsLocalhost(hostname) ==
    [i \in DOMAIN hostname |->
        IF hostname[i] \in DOMAIN LowerCase THEN LowerCase[hostname[i]] ELSE hostname[i]]
    \in {<<"localhost">>, <<"localhost", "localdomain">>}

\* The result of Loopback: an index, or 0 for an error.  os is the first
\* loopback interface among net.Interfaces, 0 when that fails or has none.
Loopback(os) == IF loopback # -1 THEN loopback ELSE os

\* Mutant of Cached: the error is stored too.
CachedError(os) == Loopback(os)

\* The cache after a call of Loopback.
Cached(os) == IF Loopback(os) = 0 THEN loopback ELSE Loopback(os)

\* The application asks for the index too, and goes on unless it panics.
MustLoopback(os) ==
    /\ Loopback(os) # 0
    /\ loopback' = Cached(os)
    /\ UNCHANGED <<event, asked, answer>>
-----------------------------------------------------------------------------
(* HostNameResolver *)

LoopbackAddr == [IP4 |-> Addr4("127.0.0.1"), IP6 |-> Addr6("::1"), unspec |-> Addr6("::1")]

ByAvahi == [kind |-> "avahi"]
Failed(err) == [kind |-> "error", err |-> err]

\* q.use is flags & (LookupUseWideArea | LookupUseMulticast).
ForLocalhost(q) ==
    q.workarounds /\ q.use = {"multicast"} /\ IsLocalhost(q.hostname)

\* addrproto is not looked at; idx is the result of Loopback.
LocalAnswer(q, idx) ==
    CASE idx = 0 -> Failed("no loopback")
      [] idx # 0 /\ q.ifidx # idx -> ByAvahi
      [] idx # 0 /\ q.ifidx = idx /\ q.proto \notin DOMAIN LoopbackAddr ->
            Failed("ErrInvalidProtocol")
      [] OTHER -> [kind |-> "local", ifidx |-> q.ifidx, hostname |-> q.hostname,
                   addr |-> LoopbackAddr[q.proto]]

NewHostNameResolver(q, os) ==
    /\ answer' = IF ForLocalhost(q) THEN LocalAnswer(q, Loopback(os)) ELSE ByAvahi
    /\ loopback' = IF ForLocalhost(q) THEN Cached(os) ELSE loopback
    /\ asked' = [kind |-> "name", query |-> q, os |-> os]
    /\ event' = Nothing
-----------------------------------------------------------------------------
(* The callbacks *)

Err(ev) == IF ev = "failure" THEN "errno" ELSE "none"

\* The answer of Avahi; no workaround applies to it.
hostnameResolverCallback(ev, ifidx, hostname, caddr) ==
    /\ event' = [kind |-> ev, ifidx |-> ifidx, err |-> Err(ev), fqdn |-> hostname,
                 addr |-> decodeAvahiAddress(ifidx, caddr)]
    /\ asked' = [kind |-> "resolved", workarounds |-> FALSE]
    /\ answer' = Nothing
    /\ UNCHANGED loopback

\* Mutant of ForceLocalhost: the domain is the one that Avahi reported.
ForceHostname(workarounds, ip, names) ==
    IF workarounds /\ IsLoopback(ip) THEN [names EXCEPT !.hostname = <<"localhost">>] ELSE names

\* "Avahi erroneously uses a real host name and domain".
ForceLocalhost(workarounds, ip, names) ==
    IF workarounds /\ IsLoopback(ip)
    THEN [hostname |-> <<"localhost">>, domain |-> <<"localdomain">>] ELSE names

\* ServiceResolverEvent.FQDN.
FQDN(names) == names.hostname \o names.domain

serviceResolverCallback(workarounds, ev, ifidx, names, caddr) ==
    LET ip == decodeAvahiAddress(ifidx, caddr)
    IN  /\ event' = [kind |-> ev, ifidx |-> ifidx, addr |-> ip, err |-> Err(ev),
                     fqdn |-> FQDN(ForceLocalhost(workarounds, ip, names))]
        /\ asked' = [kind |-> "service", workarounds |-> workarounds]
        /\ answer' = Nothing
        /\ UNCHANGED loopback

\* Avahi hands the address back that the constructor has passed.
addressResolverCallback(workarounds, ev, ifidx, hostname, caddr, addr) ==
    LET ip == decodeAvahiAddress(ifidx, caddr)
    IN  /\ event' = [kind |-> ev, ifidx |-> ifidx, addr |-> ip, err |-> Err(ev),
                     fqdn |-> IF workarounds /\ IsLoopback(ip)
                              THEN <<"localhost", "localdomain">> ELSE hostname]
        /\ asked' = [kind |-> "address", workarounds |-> workarounds, addr |-> addr]
        /\ answer' = Nothing
        /\ UNCHANGED loopback

\* The constructor and the event that comes of it, unless the address is none.
NewAddressResolver(workarounds, ev, ifidx, hostname, addr) ==
    /\ makeAvahiAddress(addr) # ErrInvalidAddress
    /\ addressResolverCallback(workarounds, ev, ifidx, hostname, makeAvahiAddress(addr), addr)
-----------------------------------------------------------------------------
(* What the application asks, and what Avahi answers *)

Queries == [workarounds : BOOLEAN, use : SUBSET {"multicast", "widearea"},
            hostname : Hostnames, ifidx : IfIndexes,
            proto : {"IP4", "IP6", "unspec", "bad"}]

\* netip.Addr of the application: the zero one, IPv4, and IPv6, also mapped.
Addresses ==
    {NoAddr} \cup [family : {"IP4"}, bits : V4, zone : {""}]
             \cup [family : {"IP6"}, bits : V4 \cup V6, zone : Zones]

\* An AAAA record may hold a mapped address.
CAddresses == [proto : {"IP4"}, bits : V4] \cup [proto : {"IP6"}, bits : V4 \cup V6]

NoNames == [hostname |-> <<>>, domain |-> <<>>]

Found(workarounds, ifidx, name) ==
    \/ \E a \in Addresses : NewAddressResolver(workarounds, "found", ifidx, name, a)
    \/ \E c \in CAddresses : hostnameResolverCallback("found", ifidx, name, c)
    \/ \E c \in CAddresses \cup {NULL}, domain \in Hostnames :
          serviceResolverCallback(workarounds, "found", ifidx,
                                  [hostname |-> name, domain |-> domain], c)

Failure(workarounds, ifidx) ==
    \/ \E a \in Addresses : NewAddressResolver(workarounds, "failure", ifidx, <<>>, a)
    \/ hostnameResolverCallback("failure", ifidx, <<>>, NULL)
    \/ serviceResolverCallback(workarounds, "failure", ifidx, NoNames, NULL)

Next ==
    \/ \E q \in Queries, os \in {0, Lo} : NewHostNameResolver(q, os)
    \/ MustLoopback(Lo)
    \/ \E w \in BOOLEAN, i \in IfIndexes \ {-1} :
          Failure(w, i) \/ \E h \in Hostnames : Found(w, i, h)

Spec == Init /\ [][Next]_vars
-----------------------------------------------------------------------------
(* Properties *)

\* An address survives its way through the package, apart from the mapped form:
\* the AddressResolver gets back the host address it was asked for, as IPv4 if
\* it is one, with the zone of the interface if it is link-local
\* (addressresolver.go:50, "mirrored"); and what an event reports can be
\* published and comes back from there, and can be decoded from the record by
\* that one of the two decoders that is for it (doc.go:457-460).
AddressSurvives ==
    event # Nothing =>
        LET addr  == event.addr
            caddr == makeAvahiAddress(addr)
            rdata == [len |-> IF caddr.proto = "IP4" THEN 4 ELSE 16, bits |-> caddr.bits]
        IN  /\ asked.kind = "address" =>
                 WithoutZone(addr) = WithoutZone(Unmap(asked.addr))
            /\ addr # NoAddr =>
                 /\ decodeAvahiAddress(event.ifidx, caddr) = Unmap(addr)
                 /\ {DNSDecodeA(rdata), DNSDecodeAAAA(rdata)}
                       = {WithoutZone(Unmap(addr)), NoAddr}

\* "IPv4 addresses are represented as 4-byte netip.Addr, not as 16-byte
\* IP6-mapped IP4 addresses" (doc.go:449-450), in whatever form they are
\* received.
ReportedUnmapped == event # Nothing => event.addr = Unmap(event.addr)

\* The query for the name of the event on the loopback interface.
BackQuery(ev) ==
    [workarounds |-> TRUE, use |-> {"multicast"}, hostname |-> ev.fqdn, ifidx |-> Lo,
     proto |-> ev.addr.family]

\* With the workarounds, the name that comes with a loopback address leads
\* back: HostNameResolver resolves it by itself on the loopback interface to a
\* loopback address of the same family, and to that very address if it is
\* 127.0.0.1 or ::1 (client.go:62-68, doc.go:431-439).  It does not lead from
\* 127.0.0.2 to 127.0.0.2: to netip all of 127.0.0.0/8 is loopback.
LoopbackRoundTrip ==
    event # Nothing /\ asked.workarounds /\ IsLoopback(event.addr) =>
        LET back == LocalAnswer(BackQuery(event), Lo)
        IN  /\ ForLocalhost(BackQuery(event)) /\ back.kind = "local"
            /\ IsLoopback(back.addr) /\ back.addr.family = event.addr.family
            /\ event.addr \in {Addr4("127.0.0.1"), Addr6("::1")} => back.addr = event.addr

\* Avahi "doesn't resolve neither localhost nor localhost.localdomain"
\* (doc.go:426): with the workarounds such a query on the loopback interface
\* never goes to Avahi, and it fails only if the protocol is wrong or the
\* interfaces cannot be listed at this very moment, not because they could not
\* be earlier.  No query elsewhere is answered locally.
LocalhostAnswered ==
    asked.kind = "name" =>
        IF ForLocalhost(asked.query) /\ asked.query.ifidx = Lo
        THEN /\ answer # ByAvahi
             /\ answer.kind = "error" =>
                  asked.os = 0 \/ asked.query.proto \notin DOMAIN LoopbackAddr
        ELSE answer.kind # "local"
=============================================================================
