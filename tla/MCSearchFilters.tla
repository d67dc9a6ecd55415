--------------------------- MODULE MCSearchFilters ---------------------------
(***************************************************************************)
(* Model-checking instance of SearchFilters: two route servers, two        *)
(* lookup routes whose communities 1:23 and 12:3 differ only in where the *)
(* separator falls, a standard, an extended and a large community, and     *)
(* requests that parse, fail to parse, and name an unknown key.            *)
(***************************************************************************)
EXTENDS SearchFilters

CONSTANTS rs1, rs2,        \* route server ids
          p1, p2, p3,      \* string pointers: p1, p2 pooled, p3 a second copy of rs1
          nrs1, nrs2,      \* route server names
          d1, d2,          \* neighbor descriptions
          rt, x            \* a type tag, a word strconv.Atoi rejects

MCRoute(ptr, id, name, asn, desc, af, comms, ext, large) ==
    [rs  |-> [ptr |-> ptr, id |-> id, name |-> name],
     nb  |-> [asn |-> asn, desc |-> desc],
     af  |-> af,
     bgp |-> [communities |-> comms, ext |-> ext, large |-> large]]

(* Observed: two routes of different servers sharing an ASN and 1:23.    *)
R1 == MCRoute(p1, rs1, nrs1, 1, d1, 4, << <<1, 23>>, <<12, 3>> >>, << >>, << >>)
R2 == MCRoute(p2, rs2, nrs2, 1, d2, 6, << <<1, 23>> >>, << >>, << <<1, 2, 3>> >>)
MCRoutes == {R1, R2}
MCRequestRoutes == {R1}

(* A route listing 1:23 twice, as BGPInfo.Communities may.               *)
R3 == MCRoute(p1, rs1, nrs1, 1, d1, 4, << <<1, 23>>, <<1, 23>> >>, << >>, << >>)
MCDuplicateRoutes == {R1, R3}
MCObservedRoutes  == {R1, R2, R3}

(* A route whose server id is not the pooled pointer for rs1.            *)
R4 == MCRoute(p3, rs1, nrs1, 1, d1, 4, << <<1, 23>> >>, << >>, << >>)
MCUnpooledRoutes == {R1, R4}

(* Matched: routes that pass or fail each facet of the requests below.    *)
C1 == MCRoute(p2, rs2, nrs2, 2, d2, 6, << <<1, 23>> >>, << <<rt, 1, 2>> >>,
              << <<1, 2, 3>> >>)
C2 == MCRoute(p1, rs1, nrs1, 1, d1, 4, << <<12, 3>> >>, << <<rt, 1, 2>> >>, << >>)
C3 == MCRoute(p2, rs2, nrs2, 3, d2, 4, << <<1, 23>>, <<12, 3>> >>, << >>,
              << <<1, 2, 3>> >>)
MCCandidates == {R1, R2, C1, C2, C3}

(* sources=rs1&asns=1,2&communities=1:23,12:3 *)
Q1 == ("sources" :> << << <<rs1>> >> >>)
      @@ ("asns" :> << << <<1>>, <<2>> >> >>)
      @@ ("communities" :> << << <<1, 23>>, <<12, 3>> >> >>)
(* sources=rs2&large_communities=1:2:3&ext_communities=rt:1:2&addr_family=6&q=x *)
Q2 == ("sources" :> << << <<rs2>> >> >>)
      @@ ("large_communities" :> << << <<1, 2, 3>> >> >>)
      @@ ("ext_communities" :> << << <<rt, 1, 2>> >> >>)
      @@ ("addr_family" :> << << <<6>> >> >>)
      @@ ("q" :> << << <<x>> >> >>)
(* asns=x *)
Q3 == ("asns" :> << << <<x>> >> >>)
MCQueries == {Q1, Q2, Q3}
MCErrorQueries == {Q3}
(* communities=1:2:3 *)
Q4 == ("communities" :> << << <<1, 2, 3>> >> >>)
(* addr_family=260 *)
Q5 == ("addr_family" :> << << <<260>> >> >>)
MCSegmentQueries == {Q4}
MCWrapQueries == {Q5}

Tok(hash, text) == [hash |-> hash, text |-> text]
(* #1:23 #rt:1:2 x *)
T1 == << Tok(TRUE, <<1, 23>>), Tok(TRUE, <<rt, 1, 2>>), Tok(FALSE, <<x>>) >>
(* #1 *)
T2 == << Tok(TRUE, <<1>>) >>
MCTokenLists == {T1, T2}

(* lastOp is written by every step and read by no action: states that     *)
(* differ only in it have the same futures.                                *)
MCView == <<heap, sets, shared, origin, carried>>
=============================================================================
