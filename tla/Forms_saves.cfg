SPECIFICATION Spec
CONSTANTS
  None = None
  Sids = {old, new}
  o1 = o1
  o2 = o2
  fl = fl
  Opts <- MCOpts
  Vals = {A, B}
  On = A
  Whole = Whole
  Old = {old}
  Named = {old}
  Flags = {fl}
  Needs <- MCNeeds
  Bad = Bad
  Buttons = {save, add}
  MaxEvents = 4
  FieldOrder <- MCFieldOrder
  Entries = {"0", "1"}
  Off = "0"
  Empty = ""
  Absent = Absent
  Shapes <- MCShapes
  MaxEdits = 2
  Rows0 <- MCRows0
  Others = {"x"}
  Strangers = {"f"}
  TempIds = {"n"}
  NoRow = NoRow
  FirstPlace = 1
  MaxActs = 3
INVARIANTS CacheAgrees QuietFormIsCurrent FieldsSettle TableOrderHolds
PROPERTIES SaveStoresWhatIsShown SaveLeavesUntouched SharedIsKept
SYMMETRY Sym
CHECK_DEADLOCK FALSE
