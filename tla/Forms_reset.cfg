SPECIFICATION Spec
CONSTANTS
  None = None
  Sids = {old}
  o1 = o1
  o2 = o2
  fl = fl
  Opts <- MCOpts
  Vals = {A, B}
  On = A
  Whole = Whole
  Old = {old}
  Named = {old}
  Flags = {fl}
  Needs <- MCNeeds
  Bad = Bad
  Buttons = {save}
  MaxEvents = 5
  FieldOrder <- MCFieldOrder
  Entries = {"0", "1"}
  Off = "0"
  Empty = ""
  Absent = Absent
  Shapes = {}
  MaxEdits = 0
  Rows0 <- MCRows0
  Others = {"x"}
  Strangers = {"f"}
  TempIds = {"n"}
  NoRow = NoRow
  FirstPlace = 1
  MaxActs = 0
PROPERTIES ResetReverts
CHECK_DEADLOCK FALSE
