SPECIFICATION Spec
CONSTANTS
  r1 = r1  ca = ca  cb = cb  p1 = p1  p2 = p2  p3 = p3  p4 = p4
  NoPeer = NoPeer
  NoRoom = NoRoom
  RoomIds = {r1}
  Clients = {ca, cb}
  Peers = {p1, p2, p3}
  ClientOf <- MCClientOf
  TTL = 1
  Grace = 1
  MaxRooms = 0
  MaxTime = 0
  Stalling = {}
  Kinds = {"relay", "reply"}
  Talkers = {p1, p3}
  MaxFrames = 1
SYMMETRY MCSymmetry
INVARIANTS
  PairIsAnnounced
  NothingLostSilently
PROPERTIES
  RoomsSpec
