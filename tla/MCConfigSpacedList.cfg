SPECIFICATION Spec
CONSTANTS
    Numerals <- MCNumerals
    RangeBodies <- MCRangeBodies
    LabelBodies <- MCLabelBodies
    RejectBodies <- MCSpacedRejectBodies
PROPERTY RejectCandidatesFollowSpec
