SPECIFICATION Spec
CONSTANTS
  ama = ama  kofi = kofi  esi = esi  tag1 = tag1  None = None
  Visits = {ama, kofi}
  WalkIns = {esi}
  Tags = {tag1}
  Devices <- MCDevices
  MaxCalls = 2
  MaxTagCalls = 1
  MaxRows = 2
INVARIANTS KioskInv ConfirmsWhatIsShown
PROPERTY ScreenClears
CHECK_DEADLOCK FALSE
