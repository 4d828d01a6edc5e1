CONSTANTS
  HALF = 16
  AddressMod = 29
  Memory <- MCMemory
  Decode <- MCDecode
  Start = 2
  Vector <- MCVector
  IsrCode <- MCIsrCode
  MaxOwed = 2
SPECIFICATION FairMSpec
INVARIANTS TypeOK ReturnIsKept
PROPERTIES ProgramSpec InstructionsTakeTheirTime UrgentIsServed
