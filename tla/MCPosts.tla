------------------------------ MODULE MCPosts ------------------------------
EXTENDS Posts, TLC
CONSTANTS ama, kofi, desk, gate, d1, d2, t1, t2, c1, c2, r1, r2
MCRolesOf == ama :> {"receptionist"} @@ kofi :> {"security_guard", "system_administrator"}
MCKind == desk :> "reception" @@ gate :> "exit"
MCStaff == desk :> {ama} @@ gate :> {ama, kofi}
MCPlace == d1 :> desk @@ d2 :> gate
MCSymmetry == Permutations(Tablets) \cup Permutations(Codes)
              \cup Permutations(SessionIds)
=============================================================================
