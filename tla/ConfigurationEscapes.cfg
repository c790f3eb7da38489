CONSTANTS
  PlainBytes = {2, 100000, 370000, 393216}
  MarkupBytes = {0, 1, 1000, 65536, 65537, 90000}
  Separators = {0, 1, 65536}
  SpaceBytes = {0, 20000, 200000}
  OtherBytes = {200, 30000}
SPECIFICATION ConfigurationSpec
INVARIANTS CommandsArrive
CHECK_DEADLOCK FALSE
