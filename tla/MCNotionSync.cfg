\* Two overlapping runs, two sources, a watch target, two findings.
SPECIFICATION FairSpec
CONSTANTS
    w1 = w1  w2 = w2  s1 = s1  s2 = s2  s3 = s3  t1 = t1  f1 = f1  f2 = f2
    Worker <- MCWorker  Source <- MCSource  Target = {t1}  Finding = {f1, f2}
    Parent <- MCParent  Scopes <- MCScopes
    Batch = 1  DailyLimit = 1  ParentLimit = 2  MaxPages = 3  MaxScans = 1  MaxCuts = 1
INVARIANTS TypeOK OnePagePerRow DigestOnce GrowthCapped
PROPERTIES CollisionsAreForeign RoundTrip FindingsFollowNotion
