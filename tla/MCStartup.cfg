\* Two processes, two starts, one fault.
SPECIFICATION FairSpec
CONSTANTS
  Procs = {server, command}
  Pasts = {{}, {"node"}, {"legacy", "node"}}
  Orphaned = {{"node"}}
  MaxFiles = 3
  MaxAttempts = 2
  MaxFaults = 1
  MaxStarts = 2
CHECK_DEADLOCK FALSE
INVARIANTS TypeOK ServesTheDatabase MigratedWithBackup
PROPERTY StartEnds
