\* Two VMs with one vCPU each.
SPECIFICATION Spec
CONSTANTS
  VM = {v1, v2}
  Key = {k1}
  Frame = {f1, f2}
  NoFrame = NoFrame
  VcpuNum = 1
  MaxGpa = 3
  Manners = {FALSE}
PROPERTIES UnpublishKeepsSubscribed
CHECK_DEADLOCK FALSE
