CONSTANTS
  Clients = {"c1", "c2"}
  BufferSize = 3
  RequestSizes = {1, 2, 3, 5}
  MaxEvents = 2
SPECIFICATION Spec
INVARIANTS TypesOK ParsesWhatIsGiven FindsTheMatch ScriptReadsAsWritten
           TranslatesTheStream SelectsAndReports RunsAsWritten UnansweredIsAccountedFor
           CallsAreHeard NothingTypedIsLost StoresAreMaps
           ParsesWhatItMeans InterfacesAgree SearchFindsNearest
PROPERTY RequestsAreAnswered
CHECK_DEADLOCK FALSE
