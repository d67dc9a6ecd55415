----------------------------- MODULE BGPValues -----------------------------
(***************************************************************************)
(* The value model of the filter engine (src/unnamed/part_002,             *)
(* src/unnamed/part_001): BGP communities and extended communities, their  *)
(* canonical string rendering, the per-type filter value equality and the  *)
(* route-side community lookups of BGPInfo.                                *)
(*                                                                         *)
(* A filter value (Go FilterValue, an interface{}) is a record             *)
(*   [kind |-> k, v |-> x]                                                 *)
(* with k the dynamic Go type:                                             *)
(*   "int"       x \in Int                 (ASN, address family)           *)
(*   "string"    x a source id             (string)                        *)
(*   "strptr"    x = <<ptr, id>>           (pointer to a string)           *)
(*   "community" x a sequence of integers  (Community)                     *)
(*   "ext"       x = <<tag, int, int>>     (ExtCommunity)                  *)
(* A rendered string is a sequence of characters: the digit strings        *)
(* "0".."9", ":" , "-", and source ids and ext tags as single atoms.       *)
(***************************************************************************)
EXTENDS Integers, Sequences, SequencesExt

IntVal(n)       == [kind |-> "int", v |-> n]
StrVal(id)      == [kind |-> "string", v |-> id]
PtrVal(ptr, id) == [kind |-> "strptr", v |-> <<ptr, id>>]
CommVal(c)      == [kind |-> "community", v |-> c]
ExtVal(c)       == [kind |-> "ext", v |-> c]

DigitChar == <<"0", "1", "2", "3", "4", "5", "6", "7", "8", "9">>

(* strconv.Itoa: decimal digits, most significant first.                   *)
RECURSIVE Digits(_)
Digits(n) == IF n < 10 THEN <<DigitChar[n + 1]>>
                       ELSE Digits(n \div 10) \o <<DigitChar[(n % 10) + 1]>>

Itoa(n) == IF n < 0 THEN <<"-">> \o Digits(-n) ELSE Digits(n)

(* Join rendered parts with ":".                                           *)
JoinColon(parts) ==
    FlattenSeq([i \in 1..Len(parts) |->
                  IF i = 1 THEN parts[i] ELSE <<":">> \o parts[i]])

(* Mutation of CommunityString: components rendered without separator.   *)
CommunityStringNoSep(c) == FlattenSeq([i \in 1..Len(c) |-> Itoa(c[i])])

(* Community.String: "" for an empty community, else colon-joined ints.    *)
CommunityString(c) == JoinColon([i \in 1..Len(c) |-> Itoa(c[i])])

(* ExtCommunity.String: the type tag, then colon-joined ints.              *)
ExtCommunityString(c) ==
    IF Len(c) < 1 THEN <<>>
    ELSE JoinColon(<< <<c[1]>> >> \o [i \in 1..Len(c) - 1 |-> Itoa(c[i + 1])])

(* filterValueAsString: the key of the per-group index.                    *)
FilterValueAsString(val) ==
    CASE val.kind = "int"       -> Itoa(val.v)
      [] val.kind = "strptr"    -> << val.v[2] >>
      [] val.kind = "string"    -> << val.v >>
      [] val.kind = "community" -> CommunityString(val.v)
      [] val.kind = "ext"       -> ExtCommunityString(val.v)

(* searchFilterCmpString: two string pointers compare by pointer          *)
(* identity, any other pair by the strings they denote.                    *)
Deref(val) == IF val.kind = "strptr" THEN val.v[2] ELSE val.v

SearchFilterCmpString(a, b) ==
    IF a.kind = "strptr" /\ b.kind = "strptr" THEN a.v[1] = b.v[1]
    ELSE Deref(a) = Deref(b)

(* searchFilterCmpCommunity: same length, equal components in order.       *)
SearchFilterCmpCommunity(a, b) ==
    /\ Len(a.v) = Len(b.v)
    /\ \A i \in 1..Len(a.v) : a.v[i] = b.v[i]

(* searchFilterCmpExtCommunity: both of length 3, equal components.        *)
SearchFilterCmpExtCommunity(a, b) ==
    /\ Len(a.v) = 3 /\ Len(b.v) = 3
    /\ a.v[1] = b.v[1] /\ a.v[2] = b.v[2] /\ a.v[3] = b.v[3]

(* SearchFilter.Equal: the comparator is chosen by the type of the other   *)
(* filter's value.                                                         *)
FilterEqual(a, b) ==
    CASE b.kind = "community"             -> SearchFilterCmpCommunity(a, b)
      [] b.kind = "ext"                   -> SearchFilterCmpExtCommunity(a, b)
      [] b.kind = "int"                   -> a.v = b.v
      [] b.kind \in {"string", "strptr"}  -> SearchFilterCmpString(a, b)

(* BGPInfo.HasCommunity / HasExtCommunity / HasLargeCommunity.             *)
HasCommunity(bgp, c) ==
    /\ Len(c) = 2
    /\ \E k \in 1..Len(bgp.communities) :
         LET com == bgp.communities[k]
         IN  Len(com) = Len(c) /\ com[1] = c[1] /\ com[2] = c[2]

HasExtCommunity(bgp, c) ==
    /\ Len(c) = 3
    /\ \E k \in 1..Len(bgp.ext) :
         LET com == bgp.ext[k]
         IN  Len(com) = Len(c) /\ com[1] = c[1] /\ com[2] = c[2] /\ com[3] = c[3]

HasLargeCommunity(bgp, c) ==
    /\ Len(c) = 3
    /\ \E k \in 1..Len(bgp.large) :
         LET com == bgp.large[k]
         IN  Len(com) = Len(c) /\ com[1] = c[1] /\ com[2] = c[2] /\ com[3] = c[3]
=============================================================================
