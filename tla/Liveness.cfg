SPECIFICATION Spec
CONSTANTS
  u1 = u1
  s1 = s1
  r1 = r1
  h1 = h1
  h2 = h2
  c1 = c1
  c2 = c2
  Nobody = Nobody
  NoProof = NoProof
PROPERTIES
  CommitsSettle
  RequestsFinish
