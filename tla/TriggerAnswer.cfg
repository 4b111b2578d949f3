CONSTANTS
  Messages = {m1}
  Servers = {v1}
  Answerers = {p1}
  Targets = {"t1","t2"}
  Policies = {"callback"}
  AdmissionFaults = {}
  MaxCallbacks = 2
  MaxAnswers = 2
  MaxEdits = 1
  MaxRedeliveries = 1
SPECIFICATION TriggersSpec
INVARIANT AcceptedEventIsAnswered
CHECK_DEADLOCK FALSE
