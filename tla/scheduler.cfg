CONSTANTS
  MaxProcesses = 4
  BootThreads = 4
  MaxPid = 5
  ThreadApi = {"return", "free"}
SPECIFICATION RRFairSpec
INVARIANTS OneRunning ReadyIsDispatchable NoLockup AckBeforeSwitch
PROPERTIES ZombieStaysDead BoundedBypass NoStarvation TimerServed
