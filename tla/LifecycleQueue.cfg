SPECIFICATION Spec
CONSTANTS
  MaxTerms = 1
  MaxHups = 0
  MaxAborts = 0
PROPERTY QueuedIsNotACrash
