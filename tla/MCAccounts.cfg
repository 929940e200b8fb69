CONSTANTS
  Names = {alice, bob}
  Ids = {d1, d2}
  ChallengeTtl = 1
  SessionTtl = 1
  MaxNow = 2
  MaxNonces = 2
  MaxPosts = 1
  MaxCrashes = 1
SPECIFICATION FairSpec
INVARIANTS
  ChallengeComparedOnce
  SessionsAreSigned
  LeftoversHaveOwners
PROPERTIES
  DeletionCompletes
CHECK_DEADLOCK FALSE
