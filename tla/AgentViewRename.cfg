CONSTANTS
  claude = claude
  codex = codex
  Providers = {claude, codex}
  Observers = {codex}
  Renamers = {claude}
  StartingVersions <- ClaudeStarts
  MaxChanges = 1
  MaxReloads = 2
  MaxTransientRefreshes = 1
SPECIFICATION Spec
PROPERTIES OthersUntouched
CHECK_DEADLOCK FALSE
