SPECIFICATION FairSpec
CONSTANTS
  status = status
  sessions = sessions
  Job = {status, sessions}
  Remotes = 2
  Attempts = 2
  MaxCalls = 2
INVARIANTS
  NoOvertaking
  OkExecuted
  OncePerAttempt
PROPERTIES
  Returns
CHECK_DEADLOCK FALSE
