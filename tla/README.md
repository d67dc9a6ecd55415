# TLA+ models of the alice-lg search-filter engine

This directory holds TLA+ models of the route-search filter engine in alice-lg's `api` package. They are checked with TLC.

## The system and its parts

Source files are under `src/`. Line numbers are per file.

| Part | Source | State | Operations |
|---|---|---|---|
| Value model | `unnamed/part_002` 160-326 | none (values) | `Community.String`, `ExtCommunity.String`, `BGPInfo.HasCommunity/HasExtCommunity/HasLargeCommunity` |
| Filter equality and index key | `unnamed/part_001` 48-182 | none | `SearchFilter.Equal`, `searchFilterCmp*`, `filterValueAsString` |
| `SearchFilterGroup` | `unnamed/part_001` 139-349 | `Filters []*SearchFilter`, `filtersIdx map[string]int`, per-filter `Cardinality`, `Name` | `AddFilter`, `AddFilters`, `FindFilter`, `Contains`, `rebuildIndex`, `MatchAny`, `MatchAll` |
| `SearchFilters` | `unnamed/part_001` 351-753 | six groups in a fixed key order | `NewSearchFilters`, `UpdateFromLookupRoute`, `UpdateFromRoute`, `SetFilterAddrFamilies`, `Combine`, `Sub`, `MergeProperties`, `MatchRoute`, `HasGroup` |
| Request builders | `unnamed/part_001` 527-645 | none (they build sets) | `FiltersFromQuery`, `parseCommunityFilterText`, `FiltersFromTokens` |
| `NeighborFilter` | `unnamed/part_001` 755-804 | name, ASN | `NeighborFilterFromQuery`, `Match` |
| Community config parser | `unnamed/part_000` | a `BGPCommunityMap` being filled | `parseAndMergeCommunities`, `parseRangeCommunitiesSet`, `parseRangeCommunity`, `parseRejectionCandidateCommunities` |
| Map decoders | `pkg/decoders/maps.go` | none | `MapGet`, `MapGetString`, `MapGetBool` |
| Birdwatcher client | `pkg/sources/birdwatcher/client.go` | the api base; per call a request, a response body, a decoded map | `NewClient`, `GetEndpoint`, `GetJSON` |

### How the parts interact

A store (not under `src/`) builds one `SearchFilters` set per route-server refresh. It does this with `UpdateFromLookupRoute` or `UpdateFromRoute` once per route, plus `SetFilterAddrFamilies`, so each filter's `Cardinality` counts the list entries that carry its value. That is one per route, unless a route lists a value twice.

The route-server sources fetch their tables with the Birdwatcher client. Each source runs a refresh goroutine that calls `GetJSON` and reads fields of the reply with the map decoders. At start-up the configuration loader fills the community label directory and the range sets with the community config parser. The neighbors endpoint filters neighbors with `NeighborFilter`.

A search request becomes a set through `FiltersFromQuery` or `FiltersFromTokens`. The set is used with `MatchRoute` on every candidate route. The set built from the results is then combined with `Combine` or `Sub` against other sets, and `MergeProperties` copies labels and counts from an observed set into the request set.

### What makes the engine hard

- **Filter objects are shared.** `Combine` and `Sub` copy `*SearchFilter` pointers into a new set. A result therefore shares filter objects with its inputs.
- **Two notions of identity coexist.** Each group has a string-keyed index (`filterValueAsString`) beside a per-type `Equal`. For `*string` values, `Equal` compares by pointer identity.
- **Counts depend on call sequences.** A cardinality is correct only if the sequence of builder calls is the one the counting assumes.
- **Conversions matter.** The result depends on the rendered string and the `uint8` address family.

## Modules

**`BGPValues`: the value model.**
- A filter value is a record `[kind, v]` whose kind is the Go dynamic type: int, string, `*string` as `<<ptr, id>>`, Community, or ExtCommunity.
- `CommunityString`, `ExtCommunityString` and `FilterValueAsString` render values the way the Go code does. The rendered string is a sequence of digit characters, `:` and atoms. This makes index collisions visible.
- `FilterEqual` dispatches on the type of the other value, as `SearchFilter.Equal` does.
- `HasCommunity` and its siblings model the `BGPInfo` lookups.

**`QueryParse`: the request side.**
- A query maps each key to its values. A value is a sequence of comma items, and an item is a sequence of colon segments. A segment is an integer, or a model value for a word that `strconv.Atoi` rejects.
- `QueryAdds` and `TokenAdds` give the exact sequence of `AddFilter` calls that `FiltersFromQuery` and `FiltersFromTokens` make.
- `QueryParseOK` and `TokensParseOK` say whether a call succeeds.
- The value parsers (`parseIntValue`, `parseCommunityValue`, ...) are not under `src/`. `ParseValue` is modelled from the spec and is marked `spec_modelled`.

**`SearchFilters`: the engine.**

State:

| Variable | What it holds |
|---|---|
| `heap` | the `*SearchFilter` objects (`[value, name, card]`) |
| `sets` | the `SearchFilters` values. Each is six groups `[key, filters: Seq(address), idx: string -> position]` |
| `shared` | the sets whose filters have been handed to a `Combine` or `Sub` result |
| `origin` | bookkeeping: how each set was made |
| `carried` | ghost counter: for each observed set and value, how many builder calls carried the value |
| `lastOp` | the last step and the set it targeted |

Actions:
- There is one action per exported operation: `NewSearchFilters`, `UpdateFromLookupRoute`, `UpdateFromRoute`, `SetFilterAddrFamilies`, `FiltersFromQuery`, `FiltersFromTokens`, their error returns, `Combine`, `Sub`, `MergeProperties` and `Match` (`MatchRoute`).
- Each builder action applies the whole call: every `AddFilter` of `UpdateSourcesFromLookupRoute`, `UpdateASNSFromLookupRoute` and `UpdateCommunitiesFromLookupRoute`, in order.
- `AddFilter` is translated line by line. An index hit increments the indexed filter. A miss forces `Cardinality = 1` on the new filter, appends it and indexes it.
- `Combine` and `Sub` append addresses, not copies, and end with `rebuildIndex`. The last position wins there.
- `MergeProperties` writes `Name` and `Cardinality` into the heap objects in place.

**`FilterSets`: what the engine promises.**
- This abstract specification has no groups, indexes or pointers. A set is, per facet, a bag from filter value to count.
- An observation raises the counts of the values it carries. The code counts a value once per list entry, so a route listing it twice raises it by two.
- `Combine` appends the union of its inputs, taking a value's count from the left input when both hold the value.
- `Sub` appends the left input's values that the right input lacks.
- `MergeProperties` gives a set's values the other set's counts.
- A set handed to `Combine` or `Sub` is frozen.
- `made` records how each set came about, including the order of the inputs. Without it, a `Combine` with its arguments swapped would pass as the abstract `Combine(b, a)`.

`SearchFilters` maps each group to the bag of its filter objects' values and counts, `shared` to `frozen`, and `origin` to `made`. `ImplementsFilterSets == Abstract!Spec` is checked as a property in `request_filters`. There it covers parsing, the set algebra on request sets, and their reconciliation with an observed set. The set algebra on observed sets is checked directly by `DerivedSetsAlgebra` and `SetsChangeOnlyWhenTargeted`.

**`MCSearchFilters`** instantiates `SearchFilters` with concrete routes, queries and tokens, and defines `MCView`.

**`Decoders`: the map decoders.**
- A Go `any` is a record `[type, s, m]`. Its type tells apart `map[string]any` (what `encoding/json` makes of an object) from the defined type `ClientResponse`, for which the assertion `m.(map[string]any)` fails.
- `MapGet` follows maps.go line by line. `MapGetString` and `MapGetBool` return `Returned(v)` or `Panicked`, because their assertions `val.(string)` and `val.(bool)` are unchecked.

**`JSONFetch`: what `GetJSON` promises.** This is an abstract specification with no HTTP in it. Each caller is idle, pending or replied. A reply is an error with an empty map, or no error and one of the objects the server can produce.

**`Birdwatcher`: the client shared by refresh goroutines.**
- Per caller, `pc` follows `GetJSON` through `client.Do` (`waiting`) and `io.ReadAll` (`reading`) to its return (`done`). `body` is the response body, and `result` is the returned `ClientResponse` and error.
- The actions are `GetEndpoint` (with the `NewRequestWithContext` error path), `DoFails`, `Respond`, `ReadFails`, `ReadAll` (`make`, `json.Unmarshal`, the deferred `Close`) and `Timeout` (the context's deadline, during `Do` or `ReadAll`).
- The caller's side has two actions. `Discard` drops an error reply. `Decode` reads one field with a decoder; a panic there is not recovered and sets `crashed`.
- `json.Unmarshal` into a map is modelled by what it does. An object's keys are merged, `null` leaves the map as it is, and an array, a scalar or invalid text is an error.
- The server and network are the environment. They may fail, answer any document, or never answer.
- **No fairness.** With a deadline, every call returning would follow from the timer's fairness alone, whatever `GetJSON` does. Without one, a hung server holds the call forever, because the `http.Client` has no `Timeout` (client.go:40), and spec §5 leaves timeouts to the callers. So no liveness property is stated.
- **Refinement.** `Fetch == INSTANCE JSONFetch WITH ...` maps `pc` to idle, pending or replied, and `result` to the reply once the call is done. `ImplementsJSONFetch == Fetch!Spec` is checked as a temporal property.

**`CommunityConfig`: the community config parser (part_000).**
- A section body is a sequence of lines, and a line is a sequence of atoms: digit strings, words, and the separators `:`, `-`, `=`, `,`, `#` and blank.
- `ParseRangeCommunity`, `ParseRangeLines`, `MergeLines` and `RejectLines` translate the four functions. They use `strings.Split`, `SplitN(_, _, 2)` and `TrimSpace` on atom sequences, and `strconv.Atoi` through the `Numerals` constant.
- The loader that calls these functions is not under `src/`. It is modelled as the actions `LoadRanges`, `MergeLabels` and `LoadRejectCandidates`. They may run in any order, and the last two write one `BGPCommunityMap`.
- `BGPCommunityMap.Set`, `BGPCommunityRange.Type` and `IntListFromStrings` are not under `src/`, so they are modelled from the spec and marked `spec_modelled`.
- The properties compare each result with a reference written from the spec's section rules (§4.3, §6): `SpecRanges`, `SpecMerge` and `SpecCandidates`.

**`NeighborFilter`.**
- `NeighborFilterFromQuery` takes the first `name` and `asn` values and discards the `Atoi` error. `Match` is the name test, then the ASN test.
- The action `Serve(q)` applies the filter to every neighbor. It records the listing of each query served.
- `Neighbor.MatchName`, a partial match, and `MatchASN` are modelled from the doc comment and the spec.

### Mutation operators kept in the modules

Each mutant is an operator placed just before the definition it replaces. The properties must catch it:

| Mutant | What it does |
|---|---|
| `CommunityStringNoSep` | renders a community without separators |
| `AddFilterKeepCard` | does not reset the cardinality of a new filter |
| `CombineGroupStaleIndex` | skips `rebuildIndex` |
| `SubGroupSelf` | compares against the wrong group |
| `MergeFilterReversed` | writes into the other set |
| `MergeFilterTakesValue` | copies the whole filter, value included |
| `CombineIntoLeft` | mutates the left input |
| `MatchAllAsAny` | uses `MatchAny` for `MatchAll` |
| `MapGetNilOnMissing`, `MapGetKeyCheckInverted` | return nil for a missing key; invert the key check |
| `ReadFailsNoClose` | returns the read error before the deferred `Close` |
| `ReadAllReusingResult` | decodes into the caller's previous map |
| `ParseRangeLinesSkipErrors` | skips a bad range line instead of failing the set |
| `MergeLinesSplitAll` | splits a label line at every `=` |
| `RejectLinesCountPerLine` | restarts the candidate counter on every line |
| `MatchWithoutNameCheck` | tests an empty name too |

## Abstraction choices and why they are sound

- **Only the newest set may be built.** Builder actions target only the newest set. Builder calls on independent sets commute; interleaving them only permutes heap addresses, so every reachable shape of shared filters is still reached.
- **The `Lifecycle` constant models how the store uses sets.** When `Lifecycle` is TRUE:
  - a set is built completely before it is read;
  - a set handed to `Combine`/`Sub` is never mutated afterwards;
  - `MergeProperties` targets only request sets.

  With `Lifecycle = FALSE`, a builder step on a `Combine` result changes the result's input through a shared pointer, and `SetsChangeOnlyWhenTargeted` fails. This case is listed as a hazard in `PROJECT.json`.
- **`VIEW MCView` leaves out `lastOp`.** Every step writes `lastOp`, but no action reads it. It is used only by the action properties, which are evaluated on the step.
- **No fairness and no liveness in the engine.** The engine is synchronous library code: every operation terminates, and nothing waits. The Birdwatcher client does wait, but see its fairness note above.
- **Deadlock is checked.** It is avoided by the always-enabled read-only `Match` and by the error query `Q3`. Both are real operations.

## Runs

| Run | Cfg | Expect | What it shows |
|---|---|---|---|
| `observed_sets` | `MCObserved.cfg` | pass | See below. |
| `request_filters` | `MCRequests.cfg` | pass | See below. |
| `query_community_segments` | `MCQuerySegments.cfg` | violation | `communities=1:2:3` becomes a standard-community filter of length 3, which `HasCommunity` never matches. Spec §6 says the segment count decides the kind. |
| `addr_family_wrap` | `MCAddrFamilyWrap.cfg` | violation | `addr_family=260` passes through `uint8()` (part_001:278) and matches IPv4 routes. |
| `client_get_json` | `MCClient.cfg` | pass | See below. |
| `decode_wrong_type_panics` | `MCDecodeWrongType.cfg` | violation | A server sending `"version": 2` or `null` makes `MapGetString` panic in the refresh goroutine, and the process ends (maps.go:23). |
| `decode_client_response` | `MCDecodeResponse.cfg` | violation | `MapGetString(resp, "error", "")` on the `ClientResponse` itself returns the fallback, even when the reply holds `"error"` (maps.go:7). |
| `community_config` | `MCConfig.cfg` | pass | See below. |
| `label_comment_lines` | `MCConfigComments.cfg` | violation | `# 65000:2 = old` becomes the label of the key `# 65000:2`. Spec §6 says `#` lines are comments. |
| `reject_spaced_list` | `MCConfigSpacedList.cfg` | violation | `communities = 65000:1, 65000:2` registers ` 65000:2` with a leading blank (part_000:141). |
| `neighbor_filter` | `MCNeighbors.cfg` | pass | See below. |
| `neighbor_asn_word` | `MCNeighborsAsnWord.cfg` | violation | `asn=abc` gives a filter without an ASN test, not the unparseable-integer error of spec §7 (part_001:775). |

**`observed_sets`** (`MCObserved.cfg`) checks `TypeOK`, `IndexIsInverse`, `CardinalityCountsEntries`, `DerivedSetsAlgebra` and `SetsChangeOnlyWhenTargeted`. Over every sequence of builder calls, `Combine` and `Sub` on sets built from routes R1 (IPv4), R2 (IPv6) and R3 (R1's server, listing `1:23` twice):
- every index is an exact inverse;
- an observed set holds one filter per value, and its count is the number of `AddFilter` arguments that held the value. R3's duplicate entry counts twice, as the code does (part_001:438) and as the comment on the disabled `Communities.Unique` accepts (part_002:188-190);
- every `Combine` result is a left-biased union and every `Sub` result a difference;
- no step changes a set it did not target.

The run reaches 318,170 distinct states in about 2 minutes.

**`request_filters`** (`MCRequests.cfg`) checks `QueryMatchesSpec`, `SetsChangeOnlyWhenTargeted` and `ImplementsFilterSets`. The refinement covers parsing, `Combine`, `Sub` and `MergeProperties` on request sets. Every count in this run is 1 (`MaxCard = 1`), so for `MergeProperties` it shows only that the step changes no other set and no value. A count of 2 here makes the run take more than 5 minutes. Sets parsed from queries Q1 and Q2 and token list T1 match exactly the candidates that the request's meaning selects. This holds for all kinds of key and for string, int, community, large and ext values, and also after `MergeProperties`. Q1 names `sources=rs1` while the observed set of route R1 holds the same id as the pooled `*string` p1, so `MergeProperties` finds them equal and reconciles them. If the merge carried the observed value over, `searchFilterMatchSource` would reject it (part_001:233) and R1 would stop matching its own request; `QueryMatchesSpec` catches that (mutant `MergeFilterTakesValue`). The refinement mapping lets a `*string` stand for the id it points to (`BagValue`), as `Equal` does. The run reaches 17,144 distinct states in about 30 seconds.

**`client_get_json`** (`MCClient.cfg`) checks `BodyClosedOnReturn`, `DecodersNeverPanic`, `LookupsFindPresentKeys` and `ImplementsJSONFetch`. Two goroutines share one client, and each has a deadline that can fire during `Do` or the body read. The server may answer a status object, an object missing a field, an error object, a flat object, `null`, an array or text that is not JSON. The run shows three things:
- bodies are closed on every return path;
- the nested lookups `status.version` and `status.ok` never panic on these documents and find present keys;
- the client refines `JSONFetch`.

**`community_config`** (`MCConfig.cfg`) checks `RangesFollowSpec`, `LabelsFollowSpec` and `RejectCandidatesFollowSpec`. It loads, in every order:
- range bodies with comments, blank and indented lines, standard, large, ranged and RPKI ext lines, and bodies that fail;
- label bodies with a label containing `=`, a malformed line, and an override of an earlier label;
- rejection sections with two `communities` lines and an unrelated key.

The range set, the label directory and the candidate numbering follow the spec's section rules after every step. The run reaches 190 distinct states.

**`neighbor_filter`** (`MCNeighbors.cfg`) checks `ListingFollowsRequest`. The run uses three neighbors, one with ASN 0. The queries give a name, an ASN, both, an empty name, a repeated `asn` key, `asn=0`, `asn=-5`, and an unknown key. Every listing holds exactly the neighbors whose description contains the non-empty requested name or whose ASN is the positive requested one. The run reaches 256 distinct states.

### Bounds

| Bound | Value | Why it is enough |
|---|---|---|
| `MaxSets` | 3 (2 in `MCQuerySegments.cfg` and `MCAddrFamilyWrap.cfg`) | Allows an observed set, a second set and a `Combine` or `Sub` of them, or a combine of a set with itself. |
| `MaxFilters` | 6-9 heap objects | Admits a route's full set of filters and a second route's new ones. |
| `MaxCard` | 2 | Enough for a repeated value to reach a second count. |

- **Routes.** R3 repeats a community within one route. R1 and R2 share ASN 1 and community `1:23`, so counts above 1 and `Sub` removals happen. They differ in source, family and the communities `12:3` and `1:2:3`. `1:23` and `12:3` collide when rendered without a separator, which is why `CommunityStringNoSep` is caught.
- **Candidates.** C1-C3 vary one attribute each.
- **Queries.** Q1 and Q2 together use every key, and both a matching and a missing value. Q1's source is also the source of the observed route R1.
- **Birdwatcher: two callers.** They are enough for interleaved calls on one client. Seven documents cover every branch of `json.Unmarshal` as `GetJSON` uses it. Each caller's state is its `pc`, so a longer loop repeats states already seen.
- **Community config.** Three or four bodies per section kind reach every branch of the four functions: comment, blank, error, each range type, the fall-through, `=` in a label, override, and a second `communities` line.
- **NeighborFilter.** The queries reach every branch of `NeighborFilterFromQuery` and `Match`: an empty parameter, a rejected `Atoi`, zero and negative ASNs, and name-only and ASN-only matches.

## Findings

Each violation run above is recorded in `PROJECT.json` as a finding:
- in the search-filter engine, two spec/code divergences in request parsing;
- in the decoders, a panic on a wrong-typed field, and `MapGet` rejecting `ClientResponse`;
- in the community config parser, comment lines registered as labels, and untrimmed rejection items;
- in `NeighborFilter`, the discarded `Atoi` error.

Other cases are listed as hazards with a note. The checker allows at most 12 runs, and all 12 are in use, so these cases have no violation run of their own:
- a route listing a community twice counts it twice. Spec §4.2 speaks of "N routes carry community X", but the code's comment at part_002:188-190 accepts the difference. `observed_sets` checks what the code does;
- two unpooled `*string` copies of one id;
- `Lifecycle = FALSE`;
- an api base ending in `//` keeps one slash, so URLs get an empty segment. The comment at client.go:24 says "Strip trailing slashes", but `TrimSuffix` strips one;
- a four-token range line.

## Not modelled

| Item | Why, or the plan |
|---|---|
| Matching a set built from observation | The spec's lifecycle (spec 3) matches only request sets. Their reconciliation with observed `*string` sources is checked (see `request_filters`). Matching an observed set itself would reject every source filter (part_001:233), and nothing in `src/` does it. |
| Repeated query keys in `FiltersFromQuery` | `query.Get` takes the first value, and the models do the same. The spec does not say what a repeated key means, so no property states it. |
| API response and status types (part_002) | Data declarations without behaviour. `RouteServers` only supplies `Len`, `Less` (by `Order`) and `Swap` to `sort.Sort`, which is not under `src/`. |
| `NeighborFilterFromQueryString` | It only wraps `url.ParseQuery`. |
| `strconv.Atoi` overflow | It clamps with a range error. No input in the modelled paths reaches it. |
| The HTTP transport | The server and network are left as nondeterministic environment actions. |
