CONSTANTS
  f1 = f1
  f2 = f2
  f3 = f3
  d1 = d1
  d2 = d2
  NoDriver = NoDriver
  Fds <- MCFds
  Drivers <- MCDrivers
  MT = TRUE
SYMMETRY MCSymmetry
SPECIFICATION Spec
PROPERTY EventsOnlyForLive
