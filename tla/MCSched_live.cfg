SPECIFICATION TimedSpec
CONSTANTS
  CPU = {c1}
  NPROC = 3
  None = None
PROPERTIES  Scheduled
