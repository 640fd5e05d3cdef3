SPECIFICATION Spec
CONSTANTS
  sys = sys
  co = co
  e1 = e1
  e2 = e2
  e3 = e3
  e4 = e4
  w1 = w1
  w2 = w2
  k1 = k1
  k2 = k2
  Partitions <- MCPartitions
  Events <- MCEvents
  Writers <- MCWriters
  Keys <- MCKeys
  FirstKey = k1
  Genesis = Genesis
  Nobody = Nobody
  NoRow = NoRow
  MaxDamage = 1
SYMMETRY Symmetric
INVARIANTS TypeOK NeverForks UndamagedVerifies DamageIsReported
PROPERTIES ImplementsLog
