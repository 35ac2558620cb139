SPECIFICATION LiveSpec
CONSTANTS
    Configs <- MCConfigs
    Stores <- MCStores
    Filings <- MCFilings
    Facts <- MCFacts
    Writes = 2
    Batch = 1
    MaxDrawers = 2
    Limit = 1
    Kind <- MCKind
    Logs = {"Log"}
    Stripped <- MCStripped
    Questions <- MCQuestions
    Asked = 2
    Ladder <- MCLadder
    Quiz <- MCQuiz
    Turns = 2
    Uses = 2
INVARIANTS
    QuietReadsAreWhole
    EdgesEnd
    NothingInvented
    NoResultsIsTrue
    CallsAreSearches
PROPERTY CommandEnds
