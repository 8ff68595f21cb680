SPECIFICATION FairSpec
CONSTANTS
  Services = {s1}
  Checks = {k1}
  Launch = Launch
  Exit = Exit
  MaxInFlight = 3
  MaxTokens = 2
  NoToken = NoToken
INVARIANT InUseIsKept
PROPERTIES StaysSignedOut LoadingEnds InvalidSessionFadesOut
