CONSTANTS
  NumberOf <- MCNumberOf
  Documents <- MCDocuments
  Plugins <- MCPlugins
  KnownTypes <- MCKnownTypes
  KnownValues <- MCKnownValues
  NamesIn <- MCNamesIn
  FieldOf <- MCFieldOf
  DirectoryOf <- MCDirectoryOf
  FileIn <- MCFileIn
  Absolute <- MCAbsolute
  TypeFiles <- MCTypeFiles
  Texts <- MCTexts
  Executed <- MCExecuted
  Watched <- MCWatched
  Marked <- MCMarked
  Halted <- MCHalted
  RunBy <- MCRunBy
  Verbosity <- MCVerbosity
  Lines <- MCLines
  Expected <- MCExpected
  Told <- MCTold
  OnDisk <- MCOnDisk
SPECIFICATION ProgramSpec
INVARIANTS
  TextIsWhole
  IndexMeansOneInstruction
  ClientKnowsInstructions
  ClientKnowsVariables
  EndsAsDescribed
  ExitMeansVerdict
CHECK_DEADLOCK FALSE
