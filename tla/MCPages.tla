------------------------------ MODULE MCPages ------------------------------
EXTENDS Pages
Open(page, role, others, served) ==
  [page |-> page, role |-> role, others |-> others, served |-> served]
MCSessions ==
  {Open("reception", "receptionist", {"checkIn"}, 2),
   Open("security", "security_guard", {"raise", "resolve"}, 1),
   Open("security", "security_manager", {"remove"}, 1),
   Open("security", "system_administrator", {"registerWalkIn", "checkOut", "raise"}, 1),
   Open("security", "system_administrator", {"checkIn", "resend"}, 2),
   Open("appointments", "auditor", {"approve", "resend", "deny", "cancel"}, 2),
   Open("appointments", "auditor", {"checkIn", "deny"}, 2),
   Open("appointments", "host",
        {"submitPreReg", "checkIn", "registerWalkIn", "checkOut", "guardScan"}, 1),
   Open("detail", "host", {"resend"}, 2),
   Open("detail", "host", {"deny"}, 2),
   Open("detail", "security_manager", {"checkIn"}, 1),
   Open("detail", "receptionist", {"checkIn"}, 2),
   Open("muster", "security_guard",
        {"checkIn", "registerWalkIn", "checkOut", "deny", "resend"}, 1)}
=============================================================================
