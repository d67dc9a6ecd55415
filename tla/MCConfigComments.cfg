SPECIFICATION Spec
CONSTANTS
    Numerals <- MCNumerals
    RangeBodies <- MCRangeBodies
    LabelBodies <- MCCommentLabelBodies
    RejectBodies <- MCRejectBodies
PROPERTY LabelsFollowSpec
