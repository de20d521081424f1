SPECIFICATION Spec
CONSTANTS
  Stores <- MCStores
  Selectors <- MCSelectors
  Offers <- MCOffers
  Threads = {t1, t2}
INVARIANTS
  SelectionIsUnique
  KeyIsReleasedOnce
\* A signer is dropped in the end.
CHECK_DEADLOCK FALSE
