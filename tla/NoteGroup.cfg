SPECIFICATION FairSpec
CONSTANTS
    Agents = {a1, a2}
    Main = main
    Findings = {f}
    Refs = {2}
    Contracted = {a1}
    Nobody = nobody
    MaxPosts <- One
    BriefSize = 1
    ReqsCap = 1
INVARIANTS AckedIsLogged NothingSkipped ToldOnce HandoffIsComplete
PROPERTIES GroupEnds
CHECK_DEADLOCK FALSE
