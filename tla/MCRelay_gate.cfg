SPECIFICATION RelaySpec
CONSTANTS
  Ids = {a}
  Budgets = {1, 9}
  MaxSecrets = 3
  MaxCrashes = 1
  Turns = {t1, t2}
  Kinds = {"chat", "stream", "transcribe"}
  Budget = 2
  MaxTokens = 2
  HasAuditor = TRUE
  RequireAudit = TRUE
  MaxTurns = 3
SYMMETRY Symmetry
INVARIANTS RevokedStaysRevoked KeysInv OverspendBounded RelayInv
CHECK_DEADLOCK FALSE
