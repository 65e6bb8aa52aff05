SPECIFICATION FairSpec
CONSTANTS
    Agents = {a1}
    Main = main
    Findings = {f}
    Refs = {}
    Contracted = {}
    Nobody = nobody
    MaxPosts <- One
    BriefSize = 0
    ReqsCap = 1
PROPERTIES AppendReturns
CHECK_DEADLOCK FALSE
