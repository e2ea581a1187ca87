SPECIFICATION Spec
CONSTANTS
  f = f
  g = g
  s = s
  m1 = m1
  m2 = m2
  t1 = t1
  t2 = t2
  Files <- MCFiles
  Mine <- MCMine
  Theirs <- MCTheirs
  Seeds <- MCSeeds
  FileOf <- MCFileOf
  Pushes <- MCPushes
  Requests <- MCRequests
  MaxStash = 2
  MaxRemote = 2
INVARIANTS TypeOK NothingLost PullRestores
PROPERTIES PublishCommits
CHECK_DEADLOCK FALSE
