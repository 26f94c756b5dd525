SPECIFICATION MCSpec
CONSTANTS
    w1 = w1  w2 = w2
    Documents <- MCDocuments
    MaxTokens = 3
    OverlapTokens = 2
    Windows = {w1, w2}
    Questions <- MCQuestions
    OverrideEnabled = TRUE
    N = 4
    Limit = 3
    Top = 3
    Terms = 2
    Scale <- MCScale
    Answers <- MCAnswers
    MaxLength = 4
    MinKeep = 2
    Longest <- MCLongest
SYMMETRY Symmetry
INVARIANTS
    ConversationHolds
    GroundedAnswer
    SearchIsSound
    ChunksAreRight
    ReaderGetsAll
    CleaningKeepsTheText
\* A conversation, a search and a text end.
CHECK_DEADLOCK FALSE
