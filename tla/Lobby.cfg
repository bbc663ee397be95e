SPECIFICATION Spec
CONSTANTS
  r1 = r1
  r2 = r2
  NoRoom = NoRoom
  RoomIds = {r1, r2}
SYMMETRY MCSymmetry
INVARIANTS CallIsLeftAlone StartMatchesInvite
