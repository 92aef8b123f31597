SPECIFICATION Spec
CONSTANTS
  NumSharers = 3
  NetThreads = {n1, n2}
  NoThread = NoThread
INVARIANTS MutexesMatchCode StackExclusion WaitsUpward
PROPERTY ImplementsReadersWriter
