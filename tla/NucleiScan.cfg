SPECIFICATION Spec
CONSTANTS
  j1 = j1
  j2 = j2
  j3 = j3
  k1 = k1
  k2 = k2
  p1 = p1
  Jobs <- MCJobs
  Keys = {k1, k2}
  Plain = {p1}
  Profile <- MCProfile
  MaxEvents = 2
INVARIANTS
  OwnTemplatesOnly
  SuccessIsHonest
