SPECIFICATION FairSpec
CONSTANTS
    t1 = t1
    t2 = t2
    p1 = p1
    p2 = p2
    c1 = c1
    c2 = c2
    Tokens <- MCTokens
    Posts <- MCPosts
    Commits <- MCCommits
    Reopen = Reopen
    Repository = Repository
    None = None
    Ttl = 0
    ChallengeTtl = 0
    MaxTime = 1
    MaxCrashes = 1
CHECK_DEADLOCK FALSE
INVARIANTS TypeOK OneLaunchPerToken PreviewedSource NothingRunsUntrusted
PROPERTIES AuthorizedStarts
