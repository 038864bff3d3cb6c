SPECIFICATION Spec
CONSTANTS
  CommandLines <- MCCommandLines
  ResponseFiles <- MCResponseFiles
  Contents <- MCContents
  FunctionName = {"main", "h"}
INVARIANTS
  ResponseActsAsCommandLine
  CommandLineWins
  RefusedForCause
  IndexPageWhole
  PicturesAreCurrent
  ReportShowsFilesAsked
