CONSTANTS
  Setups <- MCSetups
  Accesses <- MCAccesses
  Guests <- MCGuests
  IoPrograms <- MCIoPrograms
  FwBuilds <- MCFwBuilds
  FwPrograms <- MCFwPrograms
  Machines <- MCMachines
  Images <- MCImages
  Madts <- MCMadts
SPECIFICATION Spec
CHECK_DEADLOCK FALSE
INVARIANTS
  TypeOK DevicesFound DataArrives
PROPERTIES
  RegistersRight ExitsEnd TransfersRight CoresFinish TablesRight
