CONSTANTS
  Entries <- MCEntries
  MaxEntries = 3
  Paths <- MCPaths
  Segments <- MCSegments
  Bytes <- MCBytes
  ReadNames <- MCReadNames
  ReadPaths <- MCReadPaths
SPECIFICATION Spec
INVARIANT TypeOK
INVARIANT LongestPrefixWins
INVARIANT TargetsStayApart
