SPECIFICATION Spec
CONSTANTS
  Callers = {c1, c2, c3}
  Root <- MCRoot
  Paths <- MCPaths
  Sizes = {1, 2}
  Failures = {"disk", "crash"}
SYMMETRY Symmetry
INVARIANTS
  FilesStayBelowRoot
  UploadsAreWhole
  UntornFilesAreWhole
CHECK_DEADLOCK FALSE
