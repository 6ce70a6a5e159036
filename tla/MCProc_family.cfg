SPECIFICATION FairSpec
CONSTANTS
  NPROC = 3
  MAXPID = 4
INVARIANTS FamilySafe EntriesAccounted
PROPERTIES  OrphansReaped
CHECK_DEADLOCK FALSE
