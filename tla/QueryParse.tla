----------------------------- MODULE QueryParse -----------------------------
(***************************************************************************)
(* The builders' input side (src/unnamed/part_001): the six search keys,  *)
(* the per-key value parsers, FiltersFromQuery's and FiltersFromTokens'    *)
(* parse steps, producing the sequence of AddFilter calls they make.       *)
(*                                                                         *)
(* Input text is abstracted to what the parsers tell apart: a query is a   *)
(* function from key to the list of its values (url.Values), a value is    *)
(* the sequence of its comma-separated items, an item the sequence of its  *)
(* colon-separated segments.  A segment is an integer when strconv.Atoi    *)
(* accepts it, and a model value (a word such as RPKI) when it does not.   *)
(***************************************************************************)
EXTENDS Integers, Sequences, SequencesExt, BGPValues

SearchKeySources          == "sources"
SearchKeyASNS             == "asns"
SearchKeyCommunities      == "communities"
SearchKeyExtCommunities   == "ext_communities"
SearchKeyLargeCommunities == "large_communities"
SearchKeyAddrFamily       == "addr_family"

(* The group order of NewSearchFilters; positional operations rely on it. *)
SearchKeys == << SearchKeySources, SearchKeyASNS, SearchKeyCommunities,
                 SearchKeyExtCommunities, SearchKeyLargeCommunities,
                 SearchKeyAddrFamily >>

(* A filter as built by a parser: no label, no count yet.                  *)
NoName == << >>
ParsedFilter(val) == [value |-> val, name |-> NoName, card |-> 0]

Parsed(ok, val) == [ok |-> ok, value |-> val]

(* parseStringValue, parseIntValue, parseCommunityValue and                *)
(* parseExtCommunityValue, selected by the parser FiltersFromQuery passes. *)
ParseValue(parser, item) ==
    CASE parser = "string"    -> Parsed(TRUE, StrVal(item[1]))
      [] parser = "int"       -> Parsed(Len(item) = 1 /\ item[1] \in Int,
                                        IntVal(item[1]))
      [] parser = "community" -> Parsed(\A i \in 1..Len(item) : item[i] \in Int,
                                        CommVal(item))
      [] parser = "ext"       -> Parsed(Len(item) = 3 /\ item[2] \in Int
                                          /\ item[3] \in Int,
                                        ExtVal(item))

(* The parser FiltersFromQuery uses for each recognised key.               *)
KeyParser == [k \in {SearchKeySources, SearchKeyASNS, SearchKeyCommunities,
                     SearchKeyExtCommunities, SearchKeyLargeCommunities,
                     SearchKeyAddrFamily} |->
                CASE k = SearchKeySources          -> "string"
                  [] k = SearchKeyASNS             -> "int"
                  [] k = SearchKeyCommunities      -> "community"
                  [] k = SearchKeyExtCommunities   -> "ext"
                  [] k = SearchKeyLargeCommunities -> "community"
                  [] k = SearchKeyAddrFamily       -> "int"]

(* url.Values.Get: the first value given for a key.                        *)
QueryGet(q, key) == q[key][1]

QueryKeys(q) == {k \in DOMAIN q : k \in DOMAIN KeyParser}

(* FiltersFromQuery: parse the items of every recognised key; one parse    *)
(* error fails the whole call, else the AddFilter calls <<key, filter>>.   *)
QueryParseOK(q) ==
    \A k \in QueryKeys(q) :
        \A i \in 1..Len(QueryGet(q, k)) :
            ParseValue(KeyParser[k], QueryGet(q, k)[i]).ok

QueryAdds(q) ==
    FlattenSeq([g \in 1..Len(SearchKeys) |->
        LET k == SearchKeys[g]
        IN  IF k \in QueryKeys(q)
            THEN [i \in 1..Len(QueryGet(q, k)) |->
                    << k, ParsedFilter(ParseValue(KeyParser[k],
                                                  QueryGet(q, k)[i]).value) >>]
            ELSE << >>])

(* parseCommunityFilterText: the key is chosen by the first segment being  *)
(* an integer and by the number of segments.                               *)
CommunityText(ok, key, val) == [ok |-> ok, key |-> key, value |-> val]

ParseCommunityFilterText(text) ==
    IF Len(text) < 2
    THEN CommunityText(FALSE, SearchKeyCommunities, CommVal(text))
    ELSE IF text[1] \notin Int
    THEN CommunityText(ParseValue("ext", text).ok, SearchKeyExtCommunities,
                       ExtVal(text))
    ELSE CommunityText(ParseValue("community", text).ok,
                       IF Len(text) = 2 THEN SearchKeyCommunities
                                        ELSE SearchKeyLargeCommunities,
                       CommVal(text))

(* FiltersFromTokens: tokens without the '#' marker are skipped.           *)
MarkedTokens(tokens) == SelectSeq(tokens, LAMBDA t : t.hash)

TokensParseOK(tokens) ==
    \A i \in 1..Len(MarkedTokens(tokens)) :
        ParseCommunityFilterText(MarkedTokens(tokens)[i].text).ok

TokenAdds(tokens) ==
    [i \in 1..Len(MarkedTokens(tokens)) |->
        LET p == ParseCommunityFilterText(MarkedTokens(tokens)[i].text)
        IN  << p.key, ParsedFilter(p.value) >>]
=============================================================================
