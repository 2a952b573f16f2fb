SPECIFICATION HookSpec
CONSTANTS
  Windows = {w1}
  FeedSize = 2
  FileSize = 2
  MaxLog = 4
  MaxFaults = 2
INVARIANTS HookTypeOK RaisedOnce RaisedWasOpen
PROPERTY QuestionsSurface
