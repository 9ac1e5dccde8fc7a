----------------------------- MODULE MCRecords ------------------------------
(* Records, Resolver and DecodeTXT for TLC: DNSDecodeTXT is called with any  *)
(* RDATA, or the resolvers with one argument after the other, or a TXT       *)
(* record is put together string by string.                                  *)
EXTENDS Resolver, DecodeTXT, SequencesExt

CONSTANTS
    Sizes,      \* what RDATA consists of: sizes, which are content as well
    MaxRData,   \* bound: the length of RDATA
    MaxStrings  \* bound: how many strings

VARIABLE strings
recordsVars == <<vars, decodeVars, strings>>

MCIfName == 1 :> "lo" @@ 2 :> "eth0"
MCLowerCase == "LocalHost" :> "localhost"
MCIfIndexes == {-1, 1, 2, 3}

MCHostnames == {<<"localhost">>, <<"LocalHost", "localdomain">>, <<"host", "local">>}

\* A constant of DecodeTXT.
MCRData == BoundedSeq(Sizes, MaxRData)

RecordsInit == Init /\ DecodeInit /\ strings = <<>>

Decode == DecodeNext /\ UNCHANGED <<vars, strings>>

\* With nothing to decode, the others have their turn.
NoRData == rdata = <<>> /\ ret = "txt"

GrowStrings(s) ==
    /\ NoRData /\ vars = <<-1, Nothing, Nothing, Nothing>>
    /\ Len(strings) < MaxStrings
    /\ strings' = Append(strings, s)
    /\ UNCHANGED <<vars, decodeVars>>

Resolve == NoRData /\ strings = <<>> /\ Next /\ UNCHANGED <<decodeVars, strings>>

\* Another RDATA, or another list of strings.
ClearRData ==
    /\ ret # "none"
    /\ rdata' = <<>> /\ at' = 1 /\ txt' = <<>> /\ ret' = "none" /\ strings' = <<>>
    /\ UNCHANGED vars

RecordsNext ==
    \/ Decode
    \/ \E s \in BoundedSeq({1}, 2) : GrowStrings(s)
    \/ ClearRData
    \/ Resolve

RecordsSpec == RecordsInit /\ [][RecordsNext]_recordsVars
-----------------------------------------------------------------------------
\* What is published is the list that was given (entrygroup.go:76, "TXT record
\* ("key=value"...)"): the strings that C gets are those of the application.
TxtPublished ==
    (\A i \in DOMAIN strings : strings[i] # <<>>) =>
        decodeAvahiStringList(makeAvahiStringList(strings).list) = strings
=============================================================================
