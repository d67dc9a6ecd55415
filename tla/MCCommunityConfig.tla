-------------------------- MODULE MCCommunityConfig --------------------------
(***************************************************************************)
(* Section bodies for CommunityConfig: range sets with comments, blanks,   *)
(* indentation, ranges and all three kinds, label sections that override  *)
(* each other, and rejection candidates over two lines.                    *)
(***************************************************************************)
EXTENDS CommunityConfig

MCNumerals ==
    ("1" :> 1) @@ ("2" :> 2) @@ ("3" :> 3) @@ ("4" :> 4) @@ ("100" :> 100)
    @@ ("666" :> 666) @@ ("64512" :> 64512) @@ ("65000" :> 65000)
    @@ ("65534" :> 65534) @@ ("65535" :> 65535)

(* # blackholes / (blank) / "  65535:666" / 64512-65534:100 /              *)
(* 65000:1:2 / RPKI:1-2:3                                                  *)
RangesAll ==
    << <<"#", " ", "blackholes">>, << >>, <<" ", " ", "65535", ":", "666">>,
       <<"64512", "-", "65534", ":", "100">>, <<"65000", ":", "1", ":", "2">>,
       <<"RPKI", ":", "1", "-", "2", ":", "3">> >>
(* 65535:666 / 65000 : a line of one token fails the set.                  *)
RangesShort == << <<"65535", ":", "666">>, <<"65000">> >>
(* RPKI:1 : an ext line of two tokens fails the set.                       *)
RangesShortExt == << <<"RPKI", ":", "1">>, <<"65000", ":", "1">> >>
(* 65535:666 / 1:2:3:4 : a four-token line Type() matches no case of.     *)
RangesFourTokens == << <<"65535", ":", "666">>, <<"1", ":", "2", ":", "3", ":", "4">> >>

MCRangeBodies    == {RangesAll, RangesShort, RangesShortExt}
MCFourTokenBodies == {RangesAll, RangesFourTokens}

(* 65535:666 = blackhole / 65000:1=a=b / malformed                         *)
Labels1 == << <<"65535", ":", "666", " ", "=", " ", "blackhole">>,
              <<"65000", ":", "1", "=", "a", "=", "b">>, <<"malformed">> >>
(* 65535:666=bh                                                            *)
Labels2 == << <<"65535", ":", "666", "=", "bh">> >>
(* # 65000:2 = old : a commented-out entry.                                *)
LabelsComment == << <<"#", " ", "65000", ":", "2", " ", "=", " ", "old">> >>

(* 65000:2 = graceful shutdown                                            *)
Labels3 == << <<"65000", ":", "2", " ", "=", " ", "graceful", " ", "shutdown">> >>

MCLabelBodies        == {Labels1, Labels2, Labels3}
MCCommentLabelBodies == {Labels1, LabelsComment}

(* communities = 65000:1,65000:2 / other=x / communities=65000:3          *)
Reject1 == << <<"communities", " ", "=", " ", "65000", ":", "1", ",", "65000", ":", "2">>,
              <<"other", "=", "x">>, <<"communities", "=", "65000", ":", "3">> >>
(* communities = 65000:1, 65000:2 : blanks after the comma.                *)
RejectSpaced == << <<"communities", " ", "=", " ", "65000", ":", "1", ",", " ",
                     "65000", ":", "2">> >>

(* communities=65535:666                                                   *)
Reject2 == << <<"communities", "=", "65535", ":", "666">> >>

MCRejectBodies       == {Reject1, Reject2}
MCSpacedRejectBodies == {RejectSpaced}
=============================================================================
