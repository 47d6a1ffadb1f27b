CONSTANTS
  k1 = k1
  k2 = k2
  k3 = k3
  Tasks <- MCTasks
SPECIFICATION Spec
SYMMETRY MCSymmetry
\* Every task may end up panicked: then nothing more happens.
CHECK_DEADLOCK FALSE
PROPERTY TryLockNoneOnlyIfBorrowed
