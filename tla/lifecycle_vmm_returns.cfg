\* Two guests with two vCPUs each, from boot until vmm::start returns.
SPECIFICATION Spec
CONSTANTS
  VM = {1, 2}
  Vcpu = {0, 1}
  Task = {t1, t2, t3, t4}
  NoTask = NoTask
  GuestExits = {"CpuUp", "SystemDown", "Err"}
  RemoteVcpu = FALSE
  BootVMs = {1, 2}
  Commands = {}
  ForceFlags = {}
  MaxCommands = 0
  MaxPoll = 0
PROPERTIES VmmReturnsWhenStopped
CHECK_DEADLOCK FALSE
