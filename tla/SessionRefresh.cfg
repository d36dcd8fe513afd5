\* Two requests and two logouts share one session; two refreshes succeed.
SPECIFICATION FairSpec
CONSTANTS
  Requests = {r1, r2}
  Logouts = {l1, l2}
  MaxTokens = 3
INVARIANTS
  TypeOK
  RefreshTokenUsedOnce
  RetriesWithNewerToken
  LoggedOutForGood
  UnauthenticatedMeansGone
PROPERTY AllAnswered
CHECK_DEADLOCK FALSE
