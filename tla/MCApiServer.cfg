SPECIFICATION ServerSpec
CONSTANTS
  Slots <- SlotsDef
  Rows <- RowsDef
  Order <- OrderDef
  StepOf <- StepOfDef
  Asks <- AsksDef
  Window <- WindowDef
  MaxFlushes = 2
  MaxFaults = 1
  Requests = {"q1", "q2"}
  Threads = 2
  MaxRuns = 2
  MaxJobs = 2
INVARIANTS SlotsWhole NoOwnFailure ReadersSeeSchedules
PROPERTIES AnswersAreCurrent RefinesAtomicStore EveryRequestAnswered
CHECK_DEADLOCK FALSE
