\* The sleep may be too short; commands and the power-on task fail; an output may be longer than a pipe holds.
CONSTANTS
  Pipes = {p1, p2, p3, p4, p5}
  Stdout = Stdout
  Capacity = 2
  MaxOutput = 3
  MayBeLate = TRUE
  CommandsFail = TRUE
  PowerOnFails = TRUE
SPECIFICATION FairSpec
INVARIANTS
  TypeOK
  StdoutNeverCaptured
  OneResponse
  ReadsOwnOutput
  StdoutRestored
PROPERTIES
  CommandsAreAtomic
  RespondsUnlessOff
