\* Two overlapping runs of one source, faults, resets and a changing page.
SPECIFICATION Spec
CONSTANTS
    r1 = r1  r2 = r2  s1 = s1  s2 = s2  b1 = b1  b2 = b2  k1 = k1
    NoCache = NoCache
    Run <- TwoRuns  Nightly <- MCNone  Source <- OneSource
    Block <- TwoBlocks  Story <- OneStory  Tells <- TellsOne
    Short <- SecondBlock  Irrelevant <- MCNone
    NotionRow <- NotionResumes
    Shows <- AnyPage
    Resets = TRUE  MaxFaults = 1
SYMMETRY Runs
INVARIANTS NewsHandedOn NoKeyConflict
