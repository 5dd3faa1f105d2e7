SPECIFICATION Spec
CONSTANTS
  Callers = {c1}
  NoThread = NoThread
  EvalLimit = 10
  MaxCalls = 1
PROPERTY NoResponseMeansNone
