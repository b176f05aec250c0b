SPECIFICATION Spec
CONSTANTS
  o1 = o1
  o2 = o2
  o3 = o3
  s1 = s1
  s2 = s2
  s3 = s3
  s4 = s4
  Null = Null
  Objects = {o1, o2, o3}
  Cells = {s1, s2, s3, s4}
  Urls <- TwoUrls
  MaxFrames = 2
INVARIANT Ownership
PROPERTY CallsReachOwnUrl
SYMMETRY Symmetry
