------------------------------ MODULE FilterSets ------------------------------
(***************************************************************************)
(* What the filter engine promises (spec 3, 4.1, 4.2, 5), without groups,  *)
(* indexes or pointers: a filter set is, per facet, a bag from filter      *)
(* value to count.                                                         *)
(*                                                                         *)
(*  - an observation counts each value once per entry carrying it;       *)
(*  - Combine is a new set, the union of its inputs, a value's count taken *)
(*    from the left input when both hold it;                               *)
(*  - Sub is a new set, the left input's values the right one lacks, with *)
(*    their counts;                                                        *)
(*  - MergeProperties gives a set's values the counts the other set has    *)
(*    for them;                                                            *)
(*  - a set handed to Combine or Sub is frozen: nothing changes it again.  *)
(* made records how each set came about, the inputs of Combine and Sub in  *)
(* their order.                                                            *)
(***************************************************************************)
EXTENDS Integers, Sequences

CONSTANTS Facets   \* the facet positions of a filter set

VARIABLES
    fsets,    \* fsets[h][f]: the bag of set h's facet f, value |-> count
    frozen,   \* the sets that are inputs or results of Combine or Sub
    made      \* made[h]: how set h came about, [op, args]

vars == <<fsets, frozen, made>>

Handles == 1..Len(fsets)

EmptySet == [f \in Facets |-> [v \in {} |-> 0]]

CombineBags(a, b) ==
    [f \in Facets |-> [v \in DOMAIN a[f] \cup DOMAIN b[f] |->
                          IF v \in DOMAIN a[f] THEN a[f][v] ELSE b[f][v]]]

SubBags(a, b) ==
    [f \in Facets |-> [v \in DOMAIN a[f] \ DOMAIN b[f] |-> a[f][v]]]

MergeBags(a, b) ==
    [f \in Facets |-> [v \in DOMAIN a[f] |->
                          IF v \in DOMAIN b[f] THEN b[f][v] ELSE a[f][v]]]

(* Bag b2 is b1 with counts raised; a new value has a count of at least 1. *)
Counted(b1, b2) ==
    /\ DOMAIN b1 \subseteq DOMAIN b2
    /\ \A v \in DOMAIN b2 :
         b2[v] - (IF v \in DOMAIN b1 THEN b1[v] ELSE 0) \in Nat
    /\ \A v \in DOMAIN b2 \ DOMAIN b1 : b2[v] >= 1

Init ==
    /\ fsets  = << >>
    /\ frozen = {}
    /\ made   = << >>

New ==
    /\ fsets' = Append(fsets, EmptySet)
    /\ made'  = Append(made, [op |-> "observed", args |-> << >>])
    /\ UNCHANGED frozen

(* A request is parsed into a new set; its content is not promised here. *)
Parse ==
    /\ Len(fsets') = Len(fsets) + 1
    /\ SubSeq(fsets', 1, Len(fsets)) = fsets
    /\ Len(made') = Len(made) + 1
    /\ SubSeq(made', 1, Len(made)) = made
    /\ made'[Len(made')].op \in {"query", "tokens"}
    /\ UNCHANGED frozen

(* One route (or one address-family pass) observed into the newest set.   *)
Observe(h) ==
    /\ h = Len(fsets)
    /\ h \notin frozen
    /\ Len(fsets') = Len(fsets)
    /\ \A g \in Handles \ {h} : fsets'[g] = fsets[g]
    /\ \A f \in Facets : Counted(fsets[h][f], fsets'[h][f])
    /\ UNCHANGED <<frozen, made>>

Combine(a, b) ==
    /\ fsets'  = Append(fsets, CombineBags(fsets[a], fsets[b]))
    /\ frozen' = frozen \cup {a, b, Len(fsets) + 1}
    /\ made'   = Append(made, [op |-> "combine", args |-> <<a, b>>])

Sub(a, b) ==
    /\ fsets'  = Append(fsets, SubBags(fsets[a], fsets[b]))
    /\ frozen' = frozen \cup {a, Len(fsets) + 1}
    /\ made'   = Append(made, [op |-> "sub", args |-> <<a, b>>])

MergeProperties(a, b) ==
    /\ a \notin frozen
    /\ fsets'  = [fsets EXCEPT ![a] = MergeBags(@, fsets[b])]
    /\ UNCHANGED <<frozen, made>>

Next ==
    \/ New
    \/ \E h \in Handles : Observe(h)
    \/ \E a, b \in Handles : Combine(a, b) \/ Sub(a, b) \/ MergeProperties(a, b)
    \/ Parse

Spec == Init /\ [][Next]_vars
=============================================================================
