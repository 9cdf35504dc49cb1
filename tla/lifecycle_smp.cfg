\* A guest with three vCPUs, from boot until every vCPU has exited.
SPECIFICATION Spec
CONSTANTS
  VM = {1}
  Vcpu = {0, 1, 2}
  Task = {t1, t2, t3}
  NoTask = NoTask
  GuestExits = {"Halt", "CpuDown", "CpuUp", "SystemDown", "SendIPI", "Err"}
  RemoteVcpu = TRUE
  BootVMs = {1}
  Commands = {}
  ForceFlags = {}
  MaxCommands = 0
  MaxPoll = 0
INVARIANTS CountExact NoMissedStop TasksJoinable
CHECK_DEADLOCK FALSE
