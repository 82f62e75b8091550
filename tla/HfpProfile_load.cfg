SPECIFICATION HfpSpec
CONSTANTS
  Bad = Bad
  Strtol <- MCStrtol
  IntHalf = 32768
  Profiles <- MCProfiles
\* A profile is loaded once.
CHECK_DEADLOCK FALSE
INVARIANT HfpTypeOK ParserExact NothingSkipped
