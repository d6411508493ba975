SPECIFICATION FairSpec
CONSTANTS
  Threads = {t1, t2}
  Devices = {d1, d2}
  CpuDevices = {}
  Keys = {k1}
  DefaultConfigs = {a}
  ExpandedConfigs = {b, c}
  SwitchPolicy = "warmed"
  MaxSwitches = 2
  MaxFailures = 1
  None = None
INVARIANTS TypeOK SerializedFirstRun LaunchesWantedSpace
  TablesMatchSpaces SwitchSettles
PROPERTIES KernelsStoredOnce CallsReturn
\* a thread that waits for ever is a violation of CallsReturn
CHECK_DEADLOCK FALSE
