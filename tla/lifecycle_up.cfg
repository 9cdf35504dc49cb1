\* Guests with one vCPU; VM 1 at boot, VM 2 created later; every command.
SPECIFICATION FairSpec
CONSTANTS
  VM = {1, 2}
  Vcpu = {0}
  Task = {t1, t2, t3, t4}
  NoTask = NoTask
  GuestExits = {"Halt", "SystemDown", "Err"}
  RemoteVcpu = TRUE
  BootVMs = {1}
  Commands = {"create", "start", "stop", "restart", "suspend", "resume", "delete"}
  ForceFlags = {FALSE, TRUE}
  MaxCommands = 3
  MaxPoll = 2
INVARIANTS TypeOK StoppedMeansExited RunningCovered NoLostEntry
PROPERTIES VmmReturnsWhenStopped VmmReturns
CHECK_DEADLOCK FALSE
