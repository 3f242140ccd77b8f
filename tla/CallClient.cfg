CONSTANTS
  dm = dm  gr = gr
  Calls = {dm, gr}
  Group = {gr}
  Conv <- TwoConversations
  MaxAttempts = 2
  MaxInbox = 1
  MaxRequests = 2
  None = None
SPECIFICATION Spec
INVARIANTS MediaHasCall ActiveHasMedia LeftIsTold
CHECK_DEADLOCK FALSE
