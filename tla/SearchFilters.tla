---------------------------- MODULE SearchFilters ----------------------------
(***************************************************************************)
(* The faceted filter engine of src/unnamed/part_001: SearchFilterGroup    *)
(* (a list of *SearchFilter with a string index) and SearchFilters (six    *)
(* groups in a fixed order), built from observed routes, query parameters *)
(* and tokens, combined, subtracted, merged and matched against routes.    *)
(*                                                                         *)
(* Go pointers are modelled: every *SearchFilter lives in heap, a group    *)
(* holds heap addresses.  Combine and Sub copy addresses, not filters, so  *)
(* a result shares its filters with its inputs exactly as the code does.   *)
(* Positions and index entries are 1-based (Go: 0-based).                  *)
(***************************************************************************)
EXTENDS Integers, Sequences, SequencesExt, FiniteSets, TLC, BGPValues, QueryParse

CONSTANTS
    Routes,        \* the lookup routes the builders observe
    Candidates,    \* the routes MatchRoute is asked about
    Queries,       \* url.Values given to FiltersFromQuery
    TokenLists,    \* token lists given to FiltersFromTokens
    MaxSets,       \* bound on the number of SearchFilters allocated
    MaxFilters,    \* bound on the number of SearchFilter objects allocated
    MaxCard,       \* bound on any cardinality counter
    Lifecycle      \* TRUE: a set whose filters are shared is never mutated

AddrFamilyIPv4 == 4
AddrFamilyIPv6 == 6

VARIABLES
    heap,     \* heap[p]: the SearchFilter at address p ([value, name, card])
    sets,     \* sets[h]: the groups of the SearchFilters with handle h
    shared,   \* handles whose filters are referenced by a derived set
    origin,   \* how each set was made: observed, query, tokens, combine, sub
    carried,  \* carried[h][g][v]: AddFilter arguments of h's builder calls holding v
    lastOp    \* the operation of the last step and the set it targeted

vars == <<heap, sets, shared, origin, carried, lastOp>>

Handles == 1..Len(sets)
GroupIds == 1..Len(SearchKeys)

-----------------------------------------------------------------------------
(* SearchFilterGroup                                                       *)

NewGroup(key) == [key |-> key, filters |-> << >>, idx |-> [r \in {} |-> 0]]

(* NewSearchFilters: six empty groups, in the order of SearchKeys.        *)
EmptyGroups == [g \in GroupIds |-> NewGroup(SearchKeys[g])]

(* GetGroupByKey: the fixed position of a key.                             *)
GetGroupByKey(key) ==
    CASE key = SearchKeySources          -> 1
      [] key = SearchKeyASNS             -> 2
      [] key = SearchKeyCommunities      -> 3
      [] key = SearchKeyExtCommunities   -> 4
      [] key = SearchKeyLargeCommunities -> 5
      [] key = SearchKeyAddrFamily       -> 6

Ref(hp, p) == FilterValueAsString(hp[p].value)

Refs(hp, g) == {Ref(hp, g.filters[i]) : i \in 1..Len(g.filters)}

(* Mutation of AddFilter: the appended filter keeps the cardinality it   *)
(* was built with (filter.Cardinality = 1 dropped).                        *)
AddFilterKeepCard(st, key, filter) ==
    LET gi  == GetGroupByKey(key)
        g   == st.groups[gi]
        ref == FilterValueAsString(filter.value)
    IN  IF ref \in DOMAIN g.idx
        THEN [st EXCEPT !.heap[g.filters[g.idx[ref]]].card = @ + 1]
        ELSE [heap   |-> Append(st.heap, filter),
              groups |-> [st.groups EXCEPT
                            ![gi].filters = Append(@, Len(st.heap) + 1),
                            ![gi].idx     = @ @@ (ref :> Len(g.filters) + 1)]]

(* AddFilter on the group at key of st = [heap, groups]: an index hit      *)
(* increments the present filter, a miss appends the filter with           *)
(* cardinality 1 and indexes its position.                                 *)
AddFilter(st, key, filter) ==
    LET gi  == GetGroupByKey(key)
        g   == st.groups[gi]
        ref == FilterValueAsString(filter.value)
        p   == Len(st.heap) + 1
    IN  IF ref \in DOMAIN g.idx
        THEN [st EXCEPT !.heap[g.filters[g.idx[ref]]].card = @ + 1]
        ELSE [heap   |-> Append(st.heap, [filter EXCEPT !.card = 1]),
              groups |-> [st.groups EXCEPT
                            ![gi].filters = Append(@, p),
                            ![gi].idx     = @ @@ (ref :> Len(g.filters) + 1)]]

(* AddFilters, and every builder: a sequence of <<key, filter>> calls.     *)
RECURSIVE AddFilters(_, _)
AddFilters(st, adds) ==
    IF adds = << >> THEN st
    ELSE AddFilters(AddFilter(st, Head(adds)[1], Head(adds)[2]), Tail(adds))

(* FindFilter / Contains: linear scan with SearchFilter.Equal.             *)
FindFilter(hp, fs, p) ==
    SelectInSeq(fs, LAMBDA q : FilterEqual(hp[q].value, hp[p].value))

GroupContains(hp, fs, p) == FindFilter(hp, fs, p) # 0

(* rebuildIndex: the last position of each rendered value wins.            *)
RebuildIndex(hp, fs) ==
    [r \in {Ref(hp, fs[i]) : i \in 1..Len(fs)} |->
        CHOOSE i \in 1..Len(fs) :
            /\ Ref(hp, fs[i]) = r
            /\ \A j \in i + 1..Len(fs) : Ref(hp, fs[j]) # r]

(* Filterable matchers of selectCmpFuncByKey; a value of the wrong Go      *)
(* type never matches.  The address family is converted with uint8().    *)
MatchSourceID(route, id) == route.rs.id = id
MatchASN(route, asn)     == route.nb.asn = asn
MatchAddrFamily(route, family) == route.af = family

SearchFilterMatch(key, route, val) ==
    CASE key = SearchKeySources ->
            val.kind = "string" /\ MatchSourceID(route, val.v)
      [] key = SearchKeyASNS ->
            val.kind = "int" /\ MatchASN(route, val.v)
      [] key = SearchKeyCommunities ->
            val.kind = "community" /\ HasCommunity(route.bgp, val.v)
      [] key = SearchKeyExtCommunities ->
            val.kind = "ext" /\ HasExtCommunity(route.bgp, val.v)
      [] key = SearchKeyLargeCommunities ->
            val.kind = "community" /\ HasLargeCommunity(route.bgp, val.v)
      [] key = SearchKeyAddrFamily ->
            val.kind = "int" /\ MatchAddrFamily(route, val.v % 256)
      [] OTHER -> FALSE

(* MatchAny / MatchAll: an empty group matches everything.                 *)
MatchAny(hp, g, route) ==
    \/ g.filters = << >>
    \/ \E i \in 1..Len(g.filters) :
          SearchFilterMatch(g.key, route, hp[g.filters[i]].value)

(* Mutation of MatchAll: one matching filter suffices.                    *)
MatchAllAsAny(hp, g, route) ==
    \/ g.filters = << >>
    \/ \E i \in 1..Len(g.filters) :
          SearchFilterMatch(g.key, route, hp[g.filters[i]].value)

MatchAll(hp, g, route) ==
    \/ g.filters = << >>
    \/ \A i \in 1..Len(g.filters) :
          SearchFilterMatch(g.key, route, hp[g.filters[i]].value)

-----------------------------------------------------------------------------
(* SearchFilters                                                           *)

(* MatchRoute: any source, any ASN, all communities of each kind, any      *)
(* address family.                                                         *)
MatchRoute(hp, s, route) ==
    /\ MatchAny(hp, s[GetGroupByKey(SearchKeySources)], route)
    /\ MatchAny(hp, s[GetGroupByKey(SearchKeyASNS)], route)
    /\ MatchAll(hp, s[GetGroupByKey(SearchKeyCommunities)], route)
    /\ MatchAll(hp, s[GetGroupByKey(SearchKeyExtCommunities)], route)
    /\ MatchAll(hp, s[GetGroupByKey(SearchKeyLargeCommunities)], route)
    /\ MatchAny(hp, s[GetGroupByKey(SearchKeyAddrFamily)], route)

HasGroup(s, key) == s[GetGroupByKey(key)].filters # << >>

(* Combine, one group: own filters, then each filter of the other group   *)
(* not yet contained, then a rebuilt index.                                *)
RECURSIVE AppendMissing(_, _, _)
AppendMissing(hp, acc, ofs) ==
    IF ofs = << >> THEN acc
    ELSE AppendMissing(hp, IF GroupContains(hp, acc, Head(ofs)) THEN acc
                                                             ELSE Append(acc, Head(ofs)),
                       Tail(ofs))

(* Mutation of CombineGroup: the left group's index is kept, not rebuilt. *)
CombineGroupStaleIndex(hp, g, og) ==
    [key |-> g.key, filters |-> AppendMissing(hp, g.filters, og.filters),
     idx |-> g.idx]

CombineGroup(hp, g, og) ==
    LET fs == AppendMissing(hp, g.filters, og.filters)
    IN  [key |-> g.key, filters |-> fs, idx |-> RebuildIndex(hp, fs)]

(* Mutation of SubGroup: Contains asked of the own group, not the other.  *)
SubGroupSelf(hp, g, og) ==
    LET fs == SelectSeq(g.filters, LAMBDA p : ~GroupContains(hp, g.filters, p))
    IN  [key |-> g.key, filters |-> fs, idx |-> RebuildIndex(hp, fs)]

(* Sub, one group: own filters the other group does not contain.          *)
SubGroup(hp, g, og) ==
    LET fs == SelectSeq(g.filters, LAMBDA p : ~GroupContains(hp, og.filters, p))
    IN  [key |-> g.key, filters |-> fs, idx |-> RebuildIndex(hp, fs)]

(* Mutation of MergeFilter: the copy runs the other way, into the filter  *)
(* found in the other group.                                               *)
MergeFilterReversed(hp, ofs, p) ==
    LET k == FindFilter(hp, ofs, p)
    IN  IF k = 0 THEN hp
        ELSE [hp EXCEPT ![ofs[k]].name = hp[p].name,
                        ![ofs[k]].card = hp[p].card]

(* Mutation of MergeFilter: the whole filter is copied, value included,   *)
(* as *filter = *otherFilter would.                                        *)
MergeFilterTakesValue(hp, ofs, p) ==
    LET k == FindFilter(hp, ofs, p)
    IN  IF k = 0 THEN hp ELSE [hp EXCEPT ![p] = hp[ofs[k]]]

(* MergeProperties, one filter: copy name and cardinality of the first    *)
(* equal filter of the other group, if there is one.                       *)
MergeFilter(hp, ofs, p) ==
    LET k == FindFilter(hp, ofs, p)
    IN  IF k = 0 THEN hp
        ELSE [hp EXCEPT ![p].name = hp[ofs[k]].name,
                        ![p].card = hp[ofs[k]].card]

RECURSIVE MergeGroup(_, _, _)
MergeGroup(hp, fs, ofs) ==
    IF fs = << >> THEN hp
    ELSE MergeGroup(MergeFilter(hp, ofs, Head(fs)), Tail(fs), ofs)

RECURSIVE MergeGroups(_, _, _, _)
MergeGroups(hp, s, o, gi) ==
    IF gi > Len(s) THEN hp
    ELSE MergeGroups(MergeGroup(hp, s[gi].filters, o[gi].filters), s, o, gi + 1)

MergeHeap(hp, s, o) == MergeGroups(hp, s, o, 1)

(* The AddFilter calls of the builders.                                    *)
CommunityAdds(bgp) ==
    [i \in 1..Len(bgp.communities) |->
        << SearchKeyCommunities,
           [value |-> CommVal(bgp.communities[i]),
            name |-> CommunityString(bgp.communities[i]), card |-> 0] >>]
    \o [i \in 1..Len(bgp.ext) |->
        << SearchKeyExtCommunities,
           [value |-> ExtVal(bgp.ext[i]),
            name |-> ExtCommunityString(bgp.ext[i]), card |-> 0] >>]
    \o [i \in 1..Len(bgp.large) |->
        << SearchKeyLargeCommunities,
           [value |-> CommVal(bgp.large[i]),
            name |-> CommunityString(bgp.large[i]), card |-> 0] >>]

LookupRouteAdds(r) ==
    << << SearchKeySources,
          [value |-> PtrVal(r.rs.ptr, r.rs.id), name |-> <<r.rs.name>>,
           card |-> 0] >>,
       << SearchKeyASNS,
          [value |-> IntVal(r.nb.asn), name |-> <<r.nb.desc>>, card |-> 0] >> >>
    \o CommunityAdds(r.bgp)

AddrFamilyAdd(af) ==
    << SearchKeyAddrFamily,
       [value |-> IntVal(af),
        name |-> IF af = AddrFamilyIPv6 THEN <<"IPv6">> ELSE <<"IPv4">>,
        card |-> 1] >>

AddrFamilyAdds(ip4, ip6) ==
    (IF ip4 THEN << AddrFamilyAdd(AddrFamilyIPv4) >> ELSE << >>)
    \o (IF ip6 THEN << AddrFamilyAdd(AddrFamilyIPv6) >> ELSE << >>)

-----------------------------------------------------------------------------
(* The state machine: one action per operation of SearchFilters.           *)

Init ==
    /\ heap    = << >>
    /\ sets    = << >>
    /\ shared  = {}
    /\ origin  = << >>
    /\ carried = << >>
    /\ lastOp  = [op |-> "none", target |-> 0]

NoCarried == [gi \in GroupIds |-> [r \in {} |-> 0]]

(* The carried ghost: per group, each value of the calls' AddFilter       *)
(* arguments with the number of arguments that held it.                    *)
Carry(c, adds) ==
    [gi \in GroupIds |->
        LET ix   == {j \in 1..Len(adds) : GetGroupByKey(adds[j][1]) = gi}
            vals == {adds[j][2].value : j \in ix}
            n(v) == Cardinality({j \in ix : adds[j][2].value = v})
        IN  [v \in DOMAIN c[gi] \cup vals |->
                (IF v \in DOMAIN c[gi] THEN c[gi][v] ELSE 0) + n(v)]]

WithinBounds(hp) ==
    /\ Len(hp) <= MaxFilters
    /\ \A p \in DOMAIN hp : hp[p].card <= MaxCard

(* Under the lifecycle a set is mutated only while nothing shares it.      *)
Mutable(h) == ~Lifecycle \/ h \notin shared

Allocate(groups, how) ==
    /\ Len(sets) < MaxSets
    /\ sets'    = Append(sets, groups)
    /\ origin'  = Append(origin, how)
    /\ carried' = Append(carried, NoCarried)
    /\ lastOp'  = [op |-> how.op, target |-> Len(sets) + 1]

(* A builder call on set h: the AddFilter calls adds, in order.  Sets are *)
(* populated one pass at a time: only the newest set is built, since the   *)
(* interleaving of independent passes changes heap addresses only.         *)
Build(h, adds, op) ==
    LET st == AddFilters([heap |-> heap, groups |-> sets[h]], adds)
    IN  /\ h = Len(sets)
        /\ Mutable(h)
        /\ Lifecycle => origin[h].op = "observed"
        /\ WithinBounds(st.heap)
        /\ heap'    = st.heap
        /\ sets'    = [sets EXCEPT ![h] = st.groups]
        /\ carried' = [carried EXCEPT ![h] = Carry(@, adds)]
        /\ lastOp'  = [op |-> op, target |-> h]
        /\ UNCHANGED <<shared, origin>>

NewSearchFilters ==
    /\ Allocate(EmptyGroups, [op |-> "observed", args |-> << >>])
    /\ UNCHANGED <<heap, shared>>

UpdateFromLookupRoute(h, r) == Build(h, LookupRouteAdds(r), "lookup_route")

UpdateFromRoute(h, r) == Build(h, CommunityAdds(r.bgp), "route")

SetFilterAddrFamilies(h, ip4, ip6) ==
    Build(h, AddrFamilyAdds(ip4, ip6), "addr_families")

(* FiltersFromQuery / FiltersFromTokens: a new set, or an error and none.  *)
NewFromAdds(adds, how) ==
    LET st == AddFilters([heap |-> heap, groups |-> EmptyGroups], adds)
    IN  /\ WithinBounds(st.heap)
        /\ heap' = st.heap
        /\ Allocate(st.groups, how)
        /\ UNCHANGED shared

ParseError(op) ==
    /\ lastOp' = [op |-> op, target |-> 0]
    /\ UNCHANGED <<heap, sets, shared, origin, carried>>

FiltersFromQuery(q) ==
    /\ QueryParseOK(q)
    /\ NewFromAdds(QueryAdds(q), [op |-> "query", args |-> q])

FiltersFromQueryError(q) ==
    /\ ~QueryParseOK(q)
    /\ ParseError("query_error")

FiltersFromTokens(t) ==
    /\ TokensParseOK(t)
    /\ NewFromAdds(TokenAdds(t), [op |-> "tokens", args |-> t])

FiltersFromTokensError(t) ==
    /\ ~TokensParseOK(t)
    /\ ParseError("tokens_error")

(* Mutation of Combine: the result groups are also stored into the left   *)
(* input (a combined group built on the left group's own list).            *)
CombineIntoLeft(a, b) ==
    LET res == [gi \in GroupIds |-> CombineGroup(heap, sets[a][gi], sets[b][gi])]
    IN  /\ Len(sets) < MaxSets
        /\ sets'    = Append([sets EXCEPT ![a] = res], res)
        /\ origin'  = Append(origin, [op |-> "combine", args |-> <<a, b>>])
        /\ carried' = Append(carried, NoCarried)
        /\ lastOp'  = [op |-> "combine", target |-> Len(sets) + 1]
        /\ shared'  = shared \cup {a, b, Len(sets) + 1}
        /\ UNCHANGED heap

(* Combine and Sub allocate a result holding the inputs' filter addresses. *)
Combine(a, b) ==
    /\ Allocate([gi \in GroupIds |-> CombineGroup(heap, sets[a][gi], sets[b][gi])],
                [op |-> "combine", args |-> <<a, b>>])
    /\ shared' = shared \cup {a, b, Len(sets) + 1}
    /\ UNCHANGED heap

Sub(a, b) ==
    /\ Allocate([gi \in GroupIds |-> SubGroup(heap, sets[a][gi], sets[b][gi])],
                [op |-> "sub", args |-> <<a, b>>])
    /\ shared' = shared \cup {a, Len(sets) + 1}
    /\ UNCHANGED heap

(* MergeProperties: a request-parsed set takes labels and counts from b.   *)
MergeProperties(a, b) ==
    /\ Mutable(a)
    /\ Lifecycle => origin[a].op \in {"query", "tokens"}
    /\ heap'   = MergeHeap(heap, sets[a], sets[b])
    /\ lastOp' = [op |-> "merge", target |-> a]
    /\ UNCHANGED <<sets, shared, origin, carried>>

(* MatchRoute: a request's filters tested against a route; nothing changes.*)
Match(h, r) ==
    /\ origin[h].op \in {"query", "tokens"}
    /\ lastOp' = [op |-> IF MatchRoute(heap, sets[h], r) THEN "match" ELSE "no_match",
                  target |-> 0]
    /\ UNCHANGED <<heap, sets, shared, origin, carried>>

Next ==
    \/ NewSearchFilters
    \/ \E h \in Handles, r \in Routes :
          \/ UpdateFromLookupRoute(h, r)
          \/ UpdateFromRoute(h, r)
    \/ \E h \in Handles, r \in Candidates : Match(h, r)
    \/ \E h \in Handles, ip4, ip6 \in BOOLEAN : SetFilterAddrFamilies(h, ip4, ip6)
    \/ \E q \in Queries : FiltersFromQuery(q) \/ FiltersFromQueryError(q)
    \/ \E t \in TokenLists : FiltersFromTokens(t) \/ FiltersFromTokensError(t)
    \/ \E a, b \in Handles :
          \/ Combine(a, b)
          \/ Sub(a, b)
          \/ MergeProperties(a, b)

Spec == Init /\ [][Next]_vars

-----------------------------------------------------------------------------
(* The refinement mapping to FilterSets: a group is the bag of its         *)
(* filters' values, each with the count of the filter object.  Values are  *)
(* the bag's elements, a *string standing for the id it points to: for    *)
(* the pooled route-server ids of the runs, equal elements are exactly the *)
(* values Equal and the index identify.                                    *)
BagValue(v) == IF v.kind = "strptr" THEN StrVal(v.v[2]) ELSE v

FilterBag(hp, g) ==
    LET ps == {g.filters[i] : i \in 1..Len(g.filters)}
    IN  [v \in {BagValue(hp[p].value) : p \in ps} |->
            hp[CHOOSE p \in ps : BagValue(hp[p].value) = v].card]

Abstract == INSTANCE FilterSets WITH
    Facets <- GroupIds,
    fsets  <- [h \in Handles |-> [gi \in GroupIds |-> FilterBag(heap, sets[h][gi])]],
    frozen <- shared,
    made   <- origin

-----------------------------------------------------------------------------
(* Properties                                                              *)

KeyKinds == << {"string", "strptr"}, {"int"}, {"community"}, {"ext"},
               {"community"}, {"int"} >>

Content(hp, s) ==
    [gi \in GroupIds |-> [i \in 1..Len(s[gi].filters) |-> hp[s[gi].filters[i]]]]

(* Every filter has a count in 1..MaxCard and a value of the Go type its   *)
(* group holds; every group sits at its key's position.                    *)
TypeOK ==
    /\ \A p \in DOMAIN heap : heap[p].card \in 1..MaxCard
    /\ \A h \in Handles :
         /\ DOMAIN sets[h] = GroupIds
         /\ \A gi \in GroupIds :
              /\ sets[h][gi].key = SearchKeys[gi]
              /\ \A i \in 1..Len(sets[h][gi].filters) :
                   /\ sets[h][gi].filters[i] \in DOMAIN heap
                   /\ heap[sets[h][gi].filters[i]].value.kind \in KeyKinds[gi]
    /\ shared \subseteq Handles

(* AddFilter, Combine and Sub keep each group's index the exact inverse   *)
(* of its filter positions: every filter is indexed under its rendered     *)
(* value at its own position, so no value is held twice (spec 3).          *)
IndexIsInverse ==
    \A h \in Handles, gi \in GroupIds :
        LET g == sets[h][gi]
        IN  /\ DOMAIN g.idx = Refs(heap, g)
            /\ \A i \in 1..Len(g.filters) : g.idx[Ref(heap, g.filters[i])] = i

(* A set built by UpdateFromLookupRoute, UpdateFromRoute and               *)
(* SetFilterAddrFamilies holds one filter per value the calls added, and   *)
(* its cardinality is the number of AddFilter arguments that held the      *)
(* value: the index lookup finds the filter of an equal value and only of  *)
(* an equal value, over any number of calls.  A route listing a community *)
(* twice counts it twice (part_001:438), as the comment on the disabled    *)
(* Communities.Unique accepts (part_002:188-190).                          *)
CardinalityCountsEntries ==
    \A h \in Handles :
        origin[h].op = "observed" =>
            \A gi \in GroupIds :
                LET g == sets[h][gi]
                IN  /\ DOMAIN carried[h][gi] = {heap[g.filters[i]].value : i \in 1..Len(g.filters)}
                    /\ \A i \in 1..Len(g.filters) :
                          heap[g.filters[i]].card = carried[h][gi][heap[g.filters[i]].value]

(* A Combine step yields, per group, the union of its inputs' values with *)
(* the left input's filter objects first (left-biased); a Sub step yields *)
(* the left input's filters whose values the right one lacks (spec 4.2).  *)
DerivedSetsAlgebra ==
    [][lastOp'.op \in {"combine", "sub"} =>
         LET h == lastOp'.target
             a == origin'[h].args[1]
             b == origin'[h].args[2]
         IN  \A gi \in GroupIds :
               LET res == sets'[h][gi]
                   ga  == sets[a][gi]
                   gb  == sets[b][gi]
               IN  /\ lastOp'.op = "combine" =>
                        /\ Refs(heap', res) = Refs(heap, ga) \cup Refs(heap, gb)
                        /\ IsPrefix(ga.filters, res.filters)
                   /\ lastOp'.op = "sub" =>
                        /\ Refs(heap', res) = Refs(heap, ga) \ Refs(heap, gb)
                        /\ ToSet(res.filters) \subseteq ToSet(ga.filters)]_vars

(* What a request means (spec 4.2, 6): a route passes when its source is   *)
(* one of the listed, its ASN one of the listed, it carries every listed  *)
(* community (2 segments: standard, 3: large; a non-integer first segment *)
(* names an extended one), and its address family is one of the listed.   *)
SpecHasCommunity(c, r) ==
    \/ Len(c) = 2 /\ Contains(r.bgp.communities, c)
    \/ Len(c) = 3 /\ Contains(r.bgp.large, c)

SpecQueryMatch(q, r) ==
    \A k \in QueryKeys(q) :
        LET items == QueryGet(q, k)
        IN  CASE k = SearchKeySources ->
                    \E i \in 1..Len(items) : items[i][1] = r.rs.id
              [] k = SearchKeyASNS ->
                    \E i \in 1..Len(items) : items[i][1] = r.nb.asn
              [] k = SearchKeyExtCommunities ->
                    \A i \in 1..Len(items) : Contains(r.bgp.ext, items[i])
              [] k = SearchKeyAddrFamily ->
                    \E i \in 1..Len(items) : items[i][1] = r.af
              [] OTHER ->
                    \A i \in 1..Len(items) : SpecHasCommunity(items[i], r)

SpecTokensMatch(t, r) ==
    \A i \in {j \in 1..Len(t) : t[j].hash} :
        IF t[i].text[1] \notin Int THEN Contains(r.bgp.ext, t[i].text)
                                   ELSE SpecHasCommunity(t[i].text, r)

(* MatchRoute of a set parsed by FiltersFromQuery or FiltersFromTokens     *)
(* accepts exactly the routes the request asks for.                        *)
QueryMatchesSpec ==
    \A h \in Handles, r \in Candidates :
        /\ origin[h].op = "query" =>
              (MatchRoute(heap, sets[h], r) <=> SpecQueryMatch(origin[h].args, r))
        /\ origin[h].op = "tokens" =>
              (MatchRoute(heap, sets[h], r) <=> SpecTokensMatch(origin[h].args, r))

(* An operation changes no set but the one it targets: Combine and Sub    *)
(* leave their inputs as they were, and a later mutation of one set never *)
(* shows through another (spec 3, 5).                                      *)
SetsChangeOnlyWhenTargeted ==
    [][\A h \in Handles :
          h # lastOp'.target => Content(heap', sets'[h]) = Content(heap, sets[h])]_vars

(* The engine implements FilterSets: every builder call counts each value *)
(* it carries once, Combine and Sub results carry their inputs' counts     *)
(* (left-biased for Combine), MergeProperties copies the other set's       *)
(* counts, and no step changes a set once it was handed to Combine or Sub. *)
ImplementsFilterSets == Abstract!Spec

=============================================================================
