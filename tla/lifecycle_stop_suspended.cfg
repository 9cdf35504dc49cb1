\* A suspended guest is stopped.
SPECIFICATION FairSpec
CONSTANTS
  VM = {1}
  Vcpu = {0}
  Task = {t1, t2, t3}
  NoTask = NoTask
  GuestExits = {}
  RemoteVcpu = FALSE
  BootVMs = {}
  Commands = {"create", "start", "stop", "suspend", "resume"}
  ForceFlags = {FALSE}
  MaxCommands = 6
  MaxPoll = 2
PROPERTIES StopWakesSuspended
CHECK_DEADLOCK FALSE
