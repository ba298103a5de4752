SPECIFICATION DriverSpec
CONSTANTS
  Procs <- FiveProcs
  Used = {"surface", "buffer", "mixer"}
  ObjectsPerHeap = 2
  Attribs <- ThreeAttribs
  MaxList = 3
  VDPAU_MAX_CONFIG_ATTRIBUTES = 3
  Default <- RTFormat
  Failing <- AllFailing
  NONE = NONE
INVARIANTS
  NothingLeftBehind
  NeverFaults
  ConfigsComplete
