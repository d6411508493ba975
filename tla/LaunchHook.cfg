SPECIFICATION Spec
CONSTANTS
  Threads = {t1, t2}
  Devices = {d1, d2}
  CpuDevices = {}
  Keys = {k1}
  DefaultConfigs = {a, b}
  ExpandedConfigs = {b, c}
  SwitchPolicy = "any"
  MaxSwitches = 2
  MaxFailures = 1
  None = None
INVARIANT OriginalConfigFound
