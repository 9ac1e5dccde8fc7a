------------------------------ MODULE Records -------------------------------
(***************************************************************************)
(* The data that crosses the border to C and to DNS: TXT records and IP    *)
(* addresses (dns.go, glue.go).                                            *)
(*                                                                         *)
(* A string is a sequence of bytes.  Of an address the code looks at the   *)
(* family, at whether it is an IPv4 address in IPv6 form, and at whether   *)
(* it is loopback or link-local: an address is a record with its family,   *)
(* the name of its bits and its zone; IPv6 with the bits of an IPv4        *)
(* address is the mapped form.  The RDATA of an A or AAAA record is its    *)
(* length with the name of its bits.  Allocation in C succeeds.            *)
(***************************************************************************)
EXTENDS Integers, Sequences, TLC

CONSTANTS
    IfName,     \* if_indextoname: the name of each interface there is
    Sees4In6    \* netip.Addr.IsLoopback and the like see what a mapped address is,
                \* as they do since Go 1.21.11 and 1.22.4

ASSUME RecordsAssumption == Sees4In6 \in BOOLEAN
-----------------------------------------------------------------------------
(* The TXT strings of a service.  DNSDecodeTXT has a module of its own. *)

\* An AvahiStringList is the sequence of its nodes.  The loop puts the strings
\* in front of each other from the last down to the second.  Go panics on the
\* address of the first byte of an empty string: then ok is FALSE.
makeAvahiStringList(txt) ==
    [ok   |-> \A i \in 2 .. Len(txt) : txt[i] # <<>>,
     list |-> [i \in 1 .. Len(txt) - 1 |-> [size |-> Len(txt[i + 1]), text |-> txt[i + 1]]]]

decodeAvahiStringList(list) ==
    [i \in DOMAIN list |-> SubSeq(list[i].text, 1, list[i].size)]
-----------------------------------------------------------------------------
(* Addresses *)

V4 == {"127.0.0.1", "127.0.0.2", "169.254.0.1", "192.0.2.1"}
V6 == {"::1", "fe80::1", "2001:db8::1"}

Addr4(bits) == [family |-> "IP4", bits |-> bits, zone |-> ""]
Addr6(bits) == [family |-> "IP6", bits |-> bits, zone |-> ""]

\* The zero netip.Addr.
NoAddr == [family |-> "none", bits |-> "", zone |-> ""]

WithoutZone(addr) == [addr EXCEPT !.zone = ""]

\* An IPv4 address has no zone.
Unmap(addr) == IF addr.family = "IP6" /\ addr.bits \in V4 THEN Addr4(addr.bits) ELSE addr

\* The address is one of these of IPv4, or one of these of IPv6.
IsOneOf(addr, bits4, bits6) ==
    \/ addr.bits \in bits4 /\ (addr.family = "IP4" \/ (addr.family = "IP6" /\ Sees4In6))
    \/ addr.family = "IP6" /\ addr.bits \in bits6

IsLoopback(addr) == IsOneOf(addr, {"127.0.0.1", "127.0.0.2"}, {"::1"})
IsLinkLocalUnicast(addr) == IsOneOf(addr, {"169.254.0.1"}, {"fe80::1"})

\* C has addresses without a zone; NULL is one too.
ErrInvalidAddress == [proto |-> "invalid", bits |-> ""]
NULL == [proto |-> "NULL", bits |-> ""]

\* Mutant of makeAvahiAddress: a mapped address stays IPv6.
MakeMapped(addr) ==
    IF addr = NoAddr THEN ErrInvalidAddress ELSE [proto |-> addr.family, bits |-> addr.bits]

makeAvahiAddress(addr) ==
    LET a == Unmap(addr)
    IN  IF a = NoAddr THEN ErrInvalidAddress ELSE [proto |-> a.family, bits |-> a.bits]

\* An interface that is gone is named by its number.
zoneName(ifindex) == IF ifindex \in DOMAIN IfName THEN IfName[ifindex] ELSE ToString(ifindex)

decodeAvahiAddress(ifindex, caddr) ==
    LET ip == CASE caddr.proto = "IP4" -> Addr4(caddr.bits)
                [] caddr.proto = "IP6" -> Addr6(caddr.bits)
                [] OTHER -> NoAddr
    IN  IF ip.family = "IP6" /\ IsLinkLocalUnicast(ip)
        THEN [ip EXCEPT !.zone = zoneName(ifindex)] ELSE ip

\* Mutant of DNSDecodeA: the length is not looked at.
DecodeAnyA(rdata) == Addr4(rdata.bits)

DNSDecodeA(rdata) == IF rdata.len = 4 THEN Addr4(rdata.bits) ELSE NoAddr
DNSDecodeAAAA(rdata) == IF rdata.len = 16 THEN Addr6(rdata.bits) ELSE NoAddr
=============================================================================
