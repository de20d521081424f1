SPECIFICATION Spec
CONSTANTS
  Stores <- MCStores
  Selectors <- MCSelectors
  Offers <- MCOffers
  Threads = {t1, t2}
INVARIANTS
  ContextOutlivesSigning
CHECK_DEADLOCK FALSE
