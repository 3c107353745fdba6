SPECIFICATION Spec
CONSTANTS
    Depth <- MCDepth
    AnswerLevel <- MCAnswerLevel
INVARIANTS
    TextKeepsItsPlace
    RulesNest
    ListsStayUnderTheirHeading
    AnswerNests
CONSTRAINT
    ShortDocuments
CHECK_DEADLOCK FALSE
