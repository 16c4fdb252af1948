SPECIFICATION Spec
CONSTANTS
  Key <- MCKey
  Caller <- MCCaller
  Worker <- MCWorker
  KeyOf <- MCKeyOf
  NoWorker = NoWorker
  Capacity = 2
  ShedRemaining = 2
  Drains <- MCDrains
  Hooked <- MCHooked
  MaxJobs <- MCMaxJobs
  MaxDeaths = 1
INVARIANTS
  OneWorkerPerKey
  QuietMeansSettled
  NoSilentDrop
PROPERTIES
  FifoSpec
  EventuallyQuiet
CHECK_DEADLOCK FALSE
