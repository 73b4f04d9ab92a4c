SPECIFICATION FairSpec
CONSTANTS
  bit = bit
  bin = bin
  elf = elf
  Images = {bit, bin, elf}
  Suffix <- ImageSuffix
  MaxCalls = 3
INVARIANTS IInv FlashedImageLoaded BootWithoutReset
PROPERTIES OperationEnds
CHECK_DEADLOCK FALSE
