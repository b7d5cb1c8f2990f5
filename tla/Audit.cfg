SPECIFICATION Spec
CONSTANTS
  Writers = {w1, w2}
  Users = {ama}
  Actions = {deny}
  Reported = {deny}
  NoUser = NoUser
  Free = Free
  MaxSeq = 3
  MaxEdits = 2
INVARIANTS VouchedStays NoFalseAlarm AuditInv
SYMMETRY Symmetry
CHECK_DEADLOCK FALSE
