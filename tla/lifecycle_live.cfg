\* A guest with one vCPU that the operator starts, stops, suspends and resumes.
SPECIFICATION FairSpec
CONSTANTS
  VM = {1}
  Vcpu = {0}
  Task = {t1, t2, t3}
  NoTask = NoTask
  GuestExits = {}
  RemoteVcpu = FALSE
  BootVMs = {}
  Commands = {"create", "start", "stop", "restart", "suspend", "resume"}
  ForceFlags = {FALSE}
  MaxCommands = 6
  MaxPoll = 3
INVARIANT NotifiedPrimaryAwake
PROPERTIES FollowsLifecycle BootRuns ResumeWakes StopCompletes
CHECK_DEADLOCK FALSE
