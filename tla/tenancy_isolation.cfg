SPECIFICATION Spec
CONSTANTS
  n1 = n1
  Caller = {c1, c2}
  Handler = {h1, h2}
  Number = {n1, n2}
  Item = {i1}
  Link <- LinkFirst
  Nobody = Nobody
  Recycled = {n1}
  MaxRefs = 2
SYMMETRY Alike
INVARIANTS
  ActsOnOwn
  ShownAreOwn
  CreatorOwns
  ItemOwnerReceived
