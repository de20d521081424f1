SPECIFICATION FilesSpec
CONSTANTS
  Procs = {"p1", "p2"}
  Subjects = {"s1", "s2"}
  Prints = {"t1", "t2"}
  Creds <- MCCreds
  MaxSteps = 3
  Sizes = {1, 2}
  MaxSaves = 3
INVARIANTS
  PublishedCertKept
\* Publishes stop at MaxSteps.
CHECK_DEADLOCK FALSE
