SPECIFICATION Spec
CONSTANTS
  Interfaces = {i1, i2, i3, i4}
  NoInterface = NoInterface
  MaxInterfaces = 3
  GapOpen = FALSE
  LookupMayFail = {FALSE}
  FindsLeaving = FALSE
  NotifierMayFail = FALSE
SYMMETRY InterfaceSymmetry
INVARIANTS
  TypeOK
  HooksLeadToTheShim
  TableLoaded
  EventsMatchStudio
  ResourcesOwned
PROPERTIES
  ProbeTellsNews
