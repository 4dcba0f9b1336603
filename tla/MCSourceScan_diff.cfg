\* A page scanned unchanged once is handed on as a whole at the next change.
SPECIFICATION FairSpec
CONSTANTS
    r1 = r1  r2 = r2  s1 = s1  s2 = s2  b1 = b1  b2 = b2  k1 = k1
    NoCache = NoCache
    Run <- OneRun  Nightly <- OneRun  Source <- OneSource
    Block <- TwoBlocks  Story <- OneStory  Tells <- TellsOne
    Short <- MCNone  Irrelevant <- MCNone
    NotionRow <- NotionResumes
    Shows <- AnyPage
    Resets = FALSE  MaxFaults = 0
PROPERTIES DiffOnlyNew
