SPECIFICATION HFairSpec
CONSTANTS
  r1 = r1  r2 = r2
  ca = ca  cb = cb  cc = cc
  p1 = p1  p2 = p2  p3 = p3  p4 = p4
  NoPeer = NoPeer
  RoomIds = {r1, r2}
  Clients = {ca, cb, cc}
  Peers = {p1, p2, p3, p4}
  ClientOf <- MCClientOf
  TTL = 2
  Grace = 1
  MaxRooms = 1
  MaxTime = 2
INVARIANTS
  Coherent
  TwoParty
  Capacity
PROPERTIES
  GraceHonoured
  OwnLeaveOnly
  KilledOnRemoval
  AdmissionSpec
  EveryRoomEnds
