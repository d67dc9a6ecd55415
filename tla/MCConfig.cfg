SPECIFICATION Spec
CONSTANTS
    Numerals <- MCNumerals
    RangeBodies <- MCRangeBodies
    LabelBodies <- MCLabelBodies
    RejectBodies <- MCRejectBodies
INVARIANT RangesFollowSpec
PROPERTIES
    LabelsFollowSpec
    RejectCandidatesFollowSpec
