---------------------------- MODULE NeighborFilter ----------------------------
(***************************************************************************)
(* NeighborFilter of src/unnamed/part_001: a filter built from the name    *)
(* and asn query parameters, and Match, applied by the neighbors endpoint  *)
(* to every neighbor of a route server.                                    *)
(*                                                                         *)
(* A query value is a sequence of atoms, << >> being the empty string: a   *)
(* name the sequence of its characters, an asn value one text, which      *)
(* strconv.Atoi accepts or rejects.  A query maps each key it   *)
(* names to the list of its values (url.Values).  Numerals maps the texts  *)
(* strconv.Atoi accepts to their integers.                                 *)
(***************************************************************************)
EXTENDS Integers, Sequences

CONSTANTS
    Numerals,    \* decimal text |-> integer
    Neighbors,   \* [asn |-> Int, desc |-> character sequence]
    Queries      \* url.Values given to NeighborFilterFromQuery

VARIABLES
    served,      \* the queries the endpoint has answered
    listings,    \* the neighbors each served query matched
    accepted     \* whether each served query was answered with a filter

vars == <<served, listings, accepted>>

(* url.Values.Get: the first value of a key, "" when there is none.       *)
QueryGet(q, key) ==
    IF key \in DOMAIN q /\ q[key] # << >> THEN q[key][1] ELSE << >>

(* strconv.Atoi, its error discarded: a rejected value leaves asn at 0.    *)
AtoiOK(v) == Len(v) = 1 /\ v[1] \in DOMAIN Numerals
Atoi(v)   == IF AtoiOK(v) THEN Numerals[v[1]] ELSE 0

(* NeighborFilterFromQuery: the first name and the first asn value; an asn *)
(* only when the parameter is not empty.                                   *)
NeighborFilterFromQuery(q) ==
    [name |-> QueryGet(q, "name"),
     asn  |-> IF QueryGet(q, "asn") # << >> THEN Atoi(QueryGet(q, "asn")) ELSE 0]

(* Neighbor.MatchName: partial match of the name in the description.      *)
MatchName(n, name) ==
    \E i \in 1..Len(n.desc) + 1 :
        \E j \in i - 1..Len(n.desc) : SubSeq(n.desc, i, j) = name

MatchASN(n, asn) == n.asn = asn

(* Mutation of Match: the test that a name was given dropped.             *)
MatchWithoutNameCheck(f, n) ==
    \/ MatchName(n, f.name)
    \/ f.asn > 0 /\ MatchASN(n, f.asn)

(* NeighborFilter.Match: the name test, then the ASN test.                *)
Match(f, n) ==
    \/ f.name # << >> /\ MatchName(n, f.name)
    \/ f.asn > 0 /\ MatchASN(n, f.asn)

Init ==
    /\ served   = {}
    /\ listings = [q \in Queries |-> {}]
    /\ accepted = [q \in Queries |-> FALSE]

(* The filter is built from the query and applied to every neighbor;      *)
(* NeighborFilterFromQuery has no error result, so every query is served. *)
Serve(q) ==
    LET f == NeighborFilterFromQuery(q)
    IN  /\ served'   = served \cup {q}
        /\ listings' = [listings EXCEPT ![q] = {n \in Neighbors : Match(f, n)}]
        /\ accepted' = [accepted EXCEPT ![q] = TRUE]

Next == \E q \in Queries : Serve(q)

Spec == Init /\ [][Next]_vars

-----------------------------------------------------------------------------
(* What the doc comment of NeighborFilterFromQuery promises: a neighbor is *)
(* listed exactly when the request named part of its description, or gave *)
(* its ASN as a positive number.  A request with an empty name, or with no *)
(* usable asn, must not list a neighbor on that account.                   *)
Requested(q, n) ==
    \/ LET name == QueryGet(q, "name")
       IN  Len(name) > 0 /\ MatchName(n, name)
    \/ LET v == QueryGet(q, "asn")
       IN  AtoiOK(v) /\ Atoi(v) > 0 /\ Atoi(v) = n.asn

(* The listing of every served query is the set of neighbors the request  *)
(* asked for, whichever parameters it gave and in whatever order queries  *)
(* are served.                                                             *)
ListingFollowsRequest ==
    \A q \in served : \A n \in Neighbors : n \in listings[q] <=> Requested(q, n)

(* Spec section 7: query-parameter values are parsed strictly; a value     *)
(* that is not an integer is an unparseable-integer error, not a filter    *)
(* that silently drops the ASN test.                                       *)
AsnValuesParsedStrictly ==
    \A q \in served :
        QueryGet(q, "asn") # << >> /\ ~AtoiOK(QueryGet(q, "asn")) => ~accepted[q]
=============================================================================
