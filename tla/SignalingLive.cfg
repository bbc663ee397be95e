SPECIFICATION FairSpec
CONSTANTS
  r1 = r1  ca = ca  cb = cb  p1 = p1  p2 = p2  p3 = p3  p4 = p4
  NoPeer = NoPeer
  NoRoom = NoRoom
  RoomIds = {r1}
  Clients = {ca, cb}
  Peers = {p1, p2}
  ClientOf <- MCClientOf
  TTL = 1
  Grace = 0
  MaxRooms = 0
  MaxTime = 0
  Stalling = {p2}
  Kinds = {"relay", "hangup"}
  Talkers = {p1}
  MaxFrames = 3
INVARIANTS RelayedInOrder NothingLostSilently
PROPERTIES DeadConnectionEnds HangupEndsCall SeatIsVacated
