CONSTANTS
  InstrPrograms <- MCInstrPrograms
  Capabilities <- MCCapabilities
  Configs <- MCConfigs
  Copies <- MCCopies
SPECIFICATION Spec
CHECK_DEADLOCK FALSE
INVARIANTS
  TypeOK EmulatedRight StartsTheReader EntriesRight RoutedRight EntriesReadBack
  CopiesAreBytewise
PROPERTIES
  RestKept AllStart KeysAreRead FlatSpec LoadedRight
