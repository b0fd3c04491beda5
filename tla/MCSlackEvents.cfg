\* A message that mentions the bot, a follow-up, two subscriptions, a response
\* URL, a reset and the clock. The bounds let it stop.
CONSTANTS
  m1 = m1
  m2 = m2
  alice = alice
  bot = bot
  general = general
  random = random
  a1 = a1
  a2 = a2
  Messages = {m1, m2}
  ChannelOf <- Places
  AuthorOf <- Authors
  Mentioning = {m1}
  Channels = {general, random}
  Users = {alice, bot}
  Bot = bot
  Apps = {a1, a2}
  Interests <- Wishes
  None = None
  Urls = {u1}
  UrlUses = 2
  UrlLife = 0
  Persistent = FALSE
  MaxTime = 1
  MaxResets = 1
SPECIFICATION FairSpec
CHECK_DEADLOCK FALSE
INVARIANTS
  UrlBounded
PROPERTIES
  DeletedStaysDeleted
  FeedKept
  EveryAppServed
