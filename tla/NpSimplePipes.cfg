SPECIFICATION FairSpec
CONSTANTS
  Typed <- PipeLines
  Cap = 2
  MaxProc = 8
  Shell = Shell
INVARIANT TypeOK
INVARIANT WholeInput
INVARIANT EndsAreManaged
INVARIANT NobodyForgotten
PROPERTY LineEnds
