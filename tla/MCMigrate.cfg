SPECIFICATION FairSpec
CONSTANTS
    p = p  pa = pa  k = k  kp = kp  ki = ki  kj = kj  ke = ke  s = s
    t = t  ti = ti  c = c  ck = ck  ci = ci  b = b  bi = bi  be = be
    NoMap = NoMap
    Torn = Torn
    Walk <- TheWalk
    Kind <- TheKind
    Parent <- TheParent
    Refs <- TheRefs
    AtFirst = {p, k, s, c}
    PageLimit = 1
    MaxImagesPerItem = 3
    MaxEdits = 2
    MaxCuts = 2
INVARIANTS TypeOK OneSurplusPerCut OnlyCutImagesMissing VerifiedIsWhole
PROPERTIES DumpIsWhole EventuallyRestored
CHECK_DEADLOCK FALSE
