SPECIFICATION Spec
CONSTANTS
  d1 = d1
  d2 = d2
  forged = forged
  u1 = u1
  u2 = u2
  Request = {r1, r2}
  Delivery = {d1, d2, forged}
  Update = {u1, u2}
  Batch <- Crossed
  Genuine <- GenuineBodies
  MaxCopies = 2
  MaxFaults = 2
INVARIANTS
  QueuedIsStored
  AckedIsPublished
  MarkedIsNotForgotten
