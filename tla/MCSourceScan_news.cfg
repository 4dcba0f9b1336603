\* One run: two sources that tell the same news, or one page that changes.
SPECIFICATION FairSpec
CONSTANTS
    r1 = r1  r2 = r2  s1 = s1  s2 = s2  b1 = b1  b2 = b2  k1 = k1
    NoCache = NoCache
    Run <- OneRun  Nightly <- OneRun  Source <- TwoSources
    Block <- TwoBlocks  Story <- OneStory  Tells <- TellsOne
    Short <- MCNone  Irrelevant <- SecondBlock
    NotionRow <- NotionResumes  Shows <- TellersOrChanging
    Resets = FALSE  MaxFaults = 2
INVARIANTS TypeOK
PROPERTIES DropsAreKnown NewsReachesPipeline
