SPECIFICATION Spec
CONSTANTS
  Kinds = {"sha1", "annotated", "lightweight", "branch", "default"}
  MaxCommits = 3
  MaxFaults = 3
INVARIANTS Inv
PROPERTIES ArchiveRight Heals
