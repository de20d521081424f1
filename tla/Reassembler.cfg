SPECIFICATION HostedSpec
CONSTANTS
  Octet = {a, b}
  MaxTotal = 4
  MaxFragments = 3
  Fragments <- MCFragments
INVARIANTS
  Bounded
  Intact
\* The caller stops for good at the first error.
CHECK_DEADLOCK FALSE
