--------------------------- MODULE CommunityConfig ---------------------------
(***************************************************************************)
(* The community configuration parsers of src/unnamed/part_000:            *)
(* parseRangeCommunitiesSet (with parseRangeCommunity),                   *)
(* parseAndMergeCommunities and parseRejectionCandidateCommunities, run   *)
(* on the section bodies of a configuration load.                          *)
(*                                                                         *)
(* Text is a sequence of string atoms: numerals ("65000"), words ("RPKI"), *)
(* and the separators ":", "-", "=", ",", "#" and " ".  A body is its     *)
(* sequence of lines (strings.Split on "\n").  Numerals maps each numeral *)
(* to its integer, so strconv.Atoi accepts exactly a single numeral atom. *)
(***************************************************************************)
EXTENDS Integers, Sequences, FiniteSetsExt, TLC

CONSTANTS
    Numerals,       \* numeral atom -> integer
    RangeBodies,    \* bodies of range-set sections
    LabelBodies,    \* bodies of community -> label sections
    RejectBodies    \* bodies of the rejection_candidates section

VARIABLES
    ranges,     \* [err, std, large, ext]: the last parsed BGPCommunitiesSet
    directory,  \* the BGPCommunityMap: community text -> label
    last        \* [op, body]: the last section parsed

vars == <<ranges, directory, last>>

(* strings.TrimSpace, strings.HasPrefix.                                   *)
TrimSpace(s) ==
    LET keep == {i \in 1..Len(s) : s[i] # " "}
    IN  IF keep = {} THEN << >> ELSE SubSeq(s, Min(keep), Max(keep))

HasPrefix(s, a) == Len(s) > 0 /\ s[1] = a

(* strings.Split and strings.SplitN(_, _, 2) on a one-atom separator.      *)
RECURSIVE SplitOn(_, _)
SplitOn(s, sep) ==
    LET at == {i \in 1..Len(s) : s[i] = sep}
    IN  IF at = {} THEN << s >>
        ELSE << SubSeq(s, 1, Min(at) - 1) >> \o SplitOn(SubSeq(s, Min(at) + 1, Len(s)), sep)

SplitN2(s, sep) ==
    LET at == {i \in 1..Len(s) : s[i] = sep}
    IN  IF at = {} THEN << s >>
        ELSE << SubSeq(s, 1, Min(at) - 1), SubSeq(s, Min(at) + 1, Len(s)) >>

(* strconv.Atoi.                                                           *)
AtoiOK(tok) == Len(tok) = 1 /\ tok[1] \in DOMAIN Numerals
Atoi(tok)   == IF AtoiOK(tok) THEN Numerals[tok[1]] ELSE 0

(* decoders.IntListFromStrings, and the elements of a BGPCommunityRange:  *)
(* a [low, high] pair of integers, or an ext type tag.                    *)
IntListFromStrings(p) == [i \in 1..Len(p) |-> Atoi(p[i])]

IntsElem(p) == [tag |-> << >>, ints |-> IntListFromStrings(p)]
TagElem(t)  == [tag |-> t, ints |-> << >>]

Parsed(ok, r) == [ok |-> ok, range |-> r]

(* parseRangeCommunity: colon tokens, each a "low-high" range or a single *)
(* value; the first low bound not an integer makes it an ext community,   *)
(* which needs exactly three tokens.                                      *)
ParseRangeCommunity(s) ==
    LET tokens == SplitOn(s, ":")
        parts  == [i \in 1..Len(tokens) |->
                     LET v == SplitN2(tokens[i], "-")
                     IN  IF Len(v) = 1 THEN << v[1], v[1] >> ELSE << v[1], v[2] >>]
        isExt  == ~AtoiOK(parts[1][1])
    IN  IF Len(tokens) < 2 THEN Parsed(FALSE, << >>)
        ELSE IF isExt /\ Len(parts) # 3 THEN Parsed(FALSE, << >>)
        ELSE IF isExt
             THEN Parsed(TRUE, << TagElem(parts[1][1]), IntsElem(parts[2]), IntsElem(parts[3]) >>)
             ELSE Parsed(TRUE, [i \in 1..Len(parts) |-> IntsElem(parts[i])])

(* BGPCommunityRange.Type.                                                 *)
RangeType(r) ==
    CASE Len(r) = 2                    -> "std"
      [] Len(r) = 3 /\ r[1].tag # << >> -> "ext"
      [] Len(r) = 3                    -> "large"
      [] OTHER                         -> "none"

NoRanges == [err |-> FALSE, std |-> << >>, large |-> << >>, ext |-> << >>]

(* The switch on comm.Type(): a range of no known type falls through.     *)
AddByType(acc, r) ==
    CASE RangeType(r) = "std"   -> [acc EXCEPT !.std   = Append(@, r)]
      [] RangeType(r) = "large" -> [acc EXCEPT !.large = Append(@, r)]
      [] RangeType(r) = "ext"   -> [acc EXCEPT !.ext   = Append(@, r)]
      [] OTHER                  -> acc

ContentLine(line) == line # << >> /\ ~HasPrefix(line, "#")

(* Mutation of ParseRangeLines: a bad line is skipped instead of ending   *)
(* the parse.                                                              *)
RECURSIVE ParseRangeLinesSkipErrors(_, _)
ParseRangeLinesSkipErrors(lines, acc) ==
    IF lines = << >> THEN acc
    ELSE LET line == TrimSpace(Head(lines))
             r    == ParseRangeCommunity(line)
         IN  IF ~ContentLine(line) \/ ~r.ok
             THEN ParseRangeLinesSkipErrors(Tail(lines), acc)
             ELSE ParseRangeLinesSkipErrors(Tail(lines), AddByType(acc, r.range))

(* parseRangeCommunitiesSet: blank and comment lines skipped, the first   *)
(* line that does not parse fails the whole set.                          *)
RECURSIVE ParseRangeLines(_, _)
ParseRangeLines(lines, acc) ==
    IF lines = << >> THEN acc
    ELSE LET line == TrimSpace(Head(lines))
             r    == ParseRangeCommunity(line)
         IN  IF ~ContentLine(line) THEN ParseRangeLines(Tail(lines), acc)
             ELSE IF ~r.ok THEN [NoRanges EXCEPT !.err = TRUE]
             ELSE ParseRangeLines(Tail(lines), AddByType(acc, r.range))

ParseRangeCommunitiesSet(body) == ParseRangeLines(body, NoRanges)

(* BGPCommunityMap.Set: the label of a community, the last one set wins.  *)
Set(dir, community, label) == (community :> label) @@ dir

(* Mutation of MergeLines: strings.Split instead of SplitN(_, "=", 2).    *)
RECURSIVE MergeLinesSplitAll(_, _)
MergeLinesSplitAll(dir, lines) ==
    IF lines = << >> THEN dir
    ELSE LET kv == SplitOn(Head(lines), "=")
         IN  IF Len(kv) # 2 THEN MergeLinesSplitAll(dir, Tail(lines))
             ELSE MergeLinesSplitAll(Set(dir, TrimSpace(kv[1]), TrimSpace(kv[2])), Tail(lines))

(* parseAndMergeCommunities: a line without "=" is skipped; otherwise the *)
(* trimmed key gets the trimmed label.                                     *)
RECURSIVE MergeLines(_, _)
MergeLines(dir, lines) ==
    IF lines = << >> THEN dir
    ELSE LET kv == SplitN2(Head(lines), "=")
         IN  IF Len(kv) # 2 THEN MergeLines(dir, Tail(lines))
             ELSE MergeLines(Set(dir, TrimSpace(kv[1]), TrimSpace(kv[2])), Tail(lines))

(* fmt.Sprintf("reject-candidate-%d", n).                                  *)
RejectLabel(n) == << "reject-candidate-", CHOOSE a \in DOMAIN Numerals : Numerals[a] = n >>

(* One community after the other, n counted on.                            *)
RECURSIVE SetCandidates(_, _)
SetCandidates(acc, items) ==
    IF items = << >> THEN acc
    ELSE SetCandidates([dir |-> Set(acc.dir, Head(items), RejectLabel(acc.n + 1)),
                        n   |-> acc.n + 1], Tail(items))

(* Mutation of RejectLines: the candidate counter restarts on every line. *)
RECURSIVE RejectLinesCountPerLine(_, _)
RejectLinesCountPerLine(acc, lines) ==
    IF lines = << >> THEN acc
    ELSE LET kv == SplitN2(Head(lines), "=")
         IN  IF Len(kv) # 2 \/ TrimSpace(kv[1]) # << "communities" >>
             THEN RejectLinesCountPerLine(acc, Tail(lines))
             ELSE RejectLinesCountPerLine(
                      SetCandidates([acc EXCEPT !.n = 0], SplitOn(TrimSpace(kv[2]), ",")),
                      Tail(lines))

(* parseRejectionCandidateCommunities: malformed lines and other keys are *)
(* skipped; the communities value is split on "," and every item labelled *)
(* with the running count n.                                               *)
RECURSIVE RejectLines(_, _)
RejectLines(acc, lines) ==
    IF lines = << >> THEN acc
    ELSE LET kv == SplitN2(Head(lines), "=")
         IN  IF Len(kv) # 2 \/ TrimSpace(kv[1]) # << "communities" >>
             THEN RejectLines(acc, Tail(lines))
             ELSE RejectLines(SetCandidates(acc, SplitOn(TrimSpace(kv[2]), ",")), Tail(lines))

Init ==
    /\ ranges    = NoRanges
    /\ directory = << >>
    /\ last      = [op |-> "none", body |-> << >>]

LoadRanges(b) ==
    /\ ranges' = ParseRangeCommunitiesSet(b)
    /\ last'   = [op |-> "ranges", body |-> b]
    /\ UNCHANGED directory

MergeLabels(b) ==
    /\ directory' = MergeLines(directory, b)
    /\ last'      = [op |-> "labels", body |-> b]
    /\ UNCHANGED ranges

LoadRejectCandidates(b) ==
    /\ directory' = RejectLines([dir |-> directory, n |-> 0], b).dir
    /\ last'      = [op |-> "reject", body |-> b]
    /\ UNCHANGED ranges

Next ==
    \/ \E b \in RangeBodies  : LoadRanges(b)
    \/ \E b \in LabelBodies  : MergeLabels(b)
    \/ \E b \in RejectBodies : LoadRejectCandidates(b)

Spec == Init /\ [][Next]_vars

-----------------------------------------------------------------------------
(* The rules of spec sections 3, 4.3 and 6.                                *)

ContentLines(body) == SelectSeq([i \in 1..Len(body) |-> TrimSpace(body[i])], ContentLine)

(* Section 3: the kind of a range line, by its number of colon tokens and *)
(* whether the first one is an integer; a line of no kind is an error     *)
(* (strict parsing, section 7).                                            *)
SpecKind(line) ==
    LET tokens   == SplitOn(line, ":")
        firstInt == AtoiOK(SplitN2(tokens[1], "-")[1])
    IN  CASE Len(tokens) < 2                   -> "error"
          [] ~firstInt /\ Len(tokens) # 3      -> "error"
          [] ~firstInt                         -> "ext"
          [] Len(tokens) = 2                   -> "std"
          [] Len(tokens) = 3                   -> "large"
          [] OTHER                             -> "error"

SpecRanges(body, kind) ==
    LET ls == SelectSeq(ContentLines(body), LAMBDA l : SpecKind(l) = kind)
    IN  [i \in 1..Len(ls) |-> ParseRangeCommunity(ls[i]).range]

(* Section 4.3(1) and 6: every non-blank line that is not a "#" comment   *)
(* and has the form key = label sets that label.                           *)
RECURSIVE SpecMerge(_, _)
SpecMerge(dir, lines) ==
    IF lines = << >> THEN dir
    ELSE LET kv == SplitN2(Head(lines), "=")
         IN  IF ~ContentLine(TrimSpace(Head(lines))) \/ Len(kv) # 2
             THEN SpecMerge(dir, Tail(lines))
             ELSE SpecMerge(Set(dir, TrimSpace(kv[1]), TrimSpace(kv[2])), Tail(lines))

(* Section 4.3(1): each bare community of the list, numbered by position. *)
RECURSIVE SpecCandidates(_, _)
SpecCandidates(acc, lines) ==
    IF lines = << >> THEN acc
    ELSE LET kv    == SplitN2(Head(lines), "=")
             items == SplitOn(TrimSpace(kv[2]), ",")
         IN  IF Len(kv) # 2 \/ TrimSpace(kv[1]) # << "communities" >>
             THEN SpecCandidates(acc, Tail(lines))
             ELSE SpecCandidates(
                      SetCandidates(acc, [i \in 1..Len(items) |-> TrimSpace(items[i])]),
                      Tail(lines))

(* A range-set load either fails, exactly when some content line is not a *)
(* valid range of a kind section 3 names, or files every content line     *)
(* under its kind, in file order, and nothing else.                       *)
RangesFollowSpec ==
    last.op = "ranges" =>
        IF \E l \in Range(ContentLines(last.body)) : SpecKind(l) = "error"
        THEN ranges.err
        ELSE /\ ~ranges.err
             /\ ranges.std   = SpecRanges(last.body, "std")
             /\ ranges.large = SpecRanges(last.body, "large")
             /\ ranges.ext   = SpecRanges(last.body, "ext")

(* Merging a label section into the directory sets exactly the labels of  *)
(* its key = label lines, later lines overriding, comments ignored.       *)
LabelsFollowSpec ==
    [][last'.op = "labels" => directory' = SpecMerge(directory, last'.body)]_vars

(* Loading rejection candidates labels every listed community, as written *)
(* without surrounding blanks, reject-candidate-n for the n-th community  *)
(* of the section.                                                         *)
RejectCandidatesFollowSpec ==
    [][last'.op = "reject" =>
         directory' = SpecCandidates([dir |-> directory, n |-> 0], last'.body).dir]_vars
=============================================================================
