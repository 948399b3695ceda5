CONSTANTS
  SBox <- SBoxTable
  InvSBox <- InvSBoxTable
  Texts <- SomeTexts
  Keys <- SomeKeys
  MAX_BYTES = 32
  Behind <- SomeBytes

SPECIFICATION Spec
INVARIANT BlocksRestored
INVARIANT TextShown
INVARIANT MatchesStandard
INVARIANT JavaAgrees
