\* Two VMs with two vCPUs each; guests that follow the protocol and guests that do not.
SPECIFICATION Spec
CONSTANTS
  VM = {v1, v2}
  Key = {k1}
  Frame = {f1, f2}
  NoFrame = NoFrame
  VcpuNum = 2
  MaxGpa = 2
  Manners = {FALSE, TRUE}
INVARIANTS TypeOK FrameOwnership UnpublishedHasSubscriber NoStaleMapping
CHECK_DEADLOCK FALSE
