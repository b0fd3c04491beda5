CONSTANTS
  General = General
  Bot = Bot
  Ids = {c1, c2}
  Users = {1, 2}
  Lists <- MCLists
  Batches <- MCBatches
  Emojis = {e1}
  ViewIds = {v1}
  Labels = {"l"}
  None = None
  MaxTime = 2
  MaxPosts = 2
  MaxCalls = 4
SPECIFICATION Spec
CHECK_DEADLOCK FALSE
INVARIANTS
  OneDirectPerGroup
  RefusedOnlyByRestart
PROPERTIES
  NoCollateralLoss
  MessagesStay
