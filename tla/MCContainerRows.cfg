SPECIFICATION RowsSpec
CONSTANTS
  i1 = i1
  Service = {j1}
  Stateful = {}
  DockerId = {i1, i2}
  FirstId <- FirstIds
  Level = {Unset}
  LabelSettings <- NoLabels
  UiSettings <- Manual
  Candidate = {Unparsed}
  CurrentVersion <- Version100
  Unparsed = Unparsed
  Unset = Unset
  NoId = NoId
  MaxInbox = 2
PROPERTIES
  HeartbeatsKeepSettings
