\* One cycle; the LLM finds a signal not applicable.
SPECIFICATION Spec
CONSTANTS
    w1 = w1  w2 = w2  c1 = c1  c2 = c2  c3 = c3  f1 = f1
    Library <- MCLibrary  Category <- MCCategory  Weight <- MCWeight  Quota <- MCQuota
    VetoNumbers <- MCVetoNumbers  BatchSize = 2
    Worker = {w1}  Company <- MCCompany  Known <- MCKnown  Triage <- MCTriage
    Graded <- MCGraded  Answers <- MCAnswers  Scopes <- MCScopes  Forced <- MCForced
    Month = {1, 2}  AutoLimit = 1  Faulty = {}  Depths = {"full"}  MaxTries = 2  MaxFaults = 0
PROPERTIES AnsweredScanIsKept
