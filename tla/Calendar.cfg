SPECIFICATION Spec
CONSTANTS
  h1 = h1
  h2 = h2
  h3 = h3
  h4 = h4
  o1 = o1
  Bookings = {b1, b2, b3}
  Hosts <- MCHosts
  Rooms <- MCRooms
  People = {p1, p2}
  NoRoom = NoRoom
  RoomOf <- MCRoomOf
  MaxTime = 2
  Requests = {r1}
INVARIANT NoDoubleBooking
SYMMETRY Symmetry
CHECK_DEADLOCK FALSE
