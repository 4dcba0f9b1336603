\* Two overlapping workers, one shared name, faults.
SPECIFICATION FairSpec
CONSTANTS
    w1 = w1  w2 = w2  n1 = n1  s1 = s1  s2 = s2
    Worker <- MCWorker  Name <- MCName  Finding <- MCFinding  Batch <- MCBatch
    Source <- MCSource  SourceOf <- MCSourceOf  Hints <- MCHints  Named <- MCNamed
    Guess <- MCGuess  Answers <- MCAnswers  Sourceable <- MCSourceable  Ageing <- MCAgeing
    Faulty <- MCFaulty  MaxTries = 2  MaxFaults = 1
INVARIANTS TypeOK SourceCountExact MentionedIsCounted SkippedIsScored
PROPERTIES MentionedIsScored ImplementsLedger
