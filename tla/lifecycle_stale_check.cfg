\* A guest that shuts itself down while the operator suspends and resumes it.
SPECIFICATION Spec
CONSTANTS
  VM = {1}
  Vcpu = {0}
  Task = {t1, t2}
  NoTask = NoTask
  GuestExits = {"SystemDown"}
  RemoteVcpu = TRUE
  BootVMs = {}
  Commands = {"create", "start", "suspend", "resume"}
  ForceFlags = {FALSE}
  MaxCommands = 4
  MaxPoll = 0
PROPERTY StoppingBecomesStopped
CHECK_DEADLOCK FALSE
