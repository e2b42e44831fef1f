\* Two processes, each with a call that refreshes; two providers.
CONSTANTS
  p1 = p1  p2 = p2  c1 = c1  c2 = c2
  Processes = {p1, p2}
  Calls = {c1, c2}
  None = None
  OwnerOf <- Owners
  Providers = {q1, q2}
  MaxTokens = 3
  Expiring = {1}
SPECIFICATION Spec
SYMMETRY Swaps
INVARIANT RefreshTokenUsedOnce
PROPERTIES OthersUntouched LogoutStays
CHECK_DEADLOCK FALSE
