CONSTANTS
  Peers = {p, q}
  MaxClicks = 2
  MaxMoves = 2
  MaxDrops = 1
SYMMETRY Symm
SPECIFICATION Spec
INVARIANTS
  TypeOK
  
  ShownFriendsAreReal
  
  RequestsAreShown
CHECK_DEADLOCK FALSE
