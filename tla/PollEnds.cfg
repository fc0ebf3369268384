CONSTANTS
  Users = {u1}
  Order <- UserFirst
  MaxGen = 1
  MaxPosts = 1
  MaxOther = 1
  Backlog = 1
  Damage = FALSE
  Stale = FALSE
SPECIFICATION ZFairSpec
PROPERTY PollEnds
