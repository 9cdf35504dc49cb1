\* A running guest is deleted with --force.
SPECIFICATION Spec
CONSTANTS
  VM = {1}
  Vcpu = {0}
  Task = {t1, t2, t3}
  NoTask = NoTask
  GuestExits = {}
  RemoteVcpu = FALSE
  BootVMs = {}
  Commands = {"create", "start", "delete"}
  ForceFlags = {TRUE}
  MaxCommands = 6
  MaxPoll = 2
PROPERTIES CleanupAfterExit
CHECK_DEADLOCK FALSE
