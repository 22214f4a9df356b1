CONSTANTS
  Query = {"q", "p"}
  Table <- MCTable
  Scans <- MCScans
  ResultOf <- MCResultOf
  Unfiltered = {"b"}
  Absent = Absent
  Garbage = Garbage
SPECIFICATION Spec
INVARIANTS TypeOK ServesTables MappingsOwned
PROPERTY FilesNeverRewritten
