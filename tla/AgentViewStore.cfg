CONSTANTS
  claude = claude
  codex = codex
  Providers = {claude, codex}
  Observers = {codex}
  Renamers = {claude}
  StartingVersions <- ClaudeStarts
  MaxChanges = 2
  MaxReloads = 2
  MaxTransientRefreshes = 2
SPECIFICATION FairSpec
INVARIANT FreshOrWarned
PROPERTIES NeverBack LoadingEnds Settles
CHECK_DEADLOCK FALSE
