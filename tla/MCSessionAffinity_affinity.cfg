SPECIFICATION Spec
CONSTANTS
  p1 = p1
  p2 = p2
  conv = conv
  NoAccount = NoAccount
  NoKey = NoKey
  Requests = {r1, r2}
  Accounts = {a1, a2}
  Keys = {p1, p2, conv}
  Sessions <- SharedConversation
SYMMETRY Symmetry
INVARIANTS GroupsClosed
PROPERTIES NeverSplit LostOnlyWithAccount
