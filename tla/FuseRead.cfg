SPECIFICATION FairSpec
CONSTANTS
  Requests = {r1, r2}
  Workers = {w1, w2}
  Archives = {a1}
  Buffers = {0, 1, 2, 3}
  Chunks = 4
  Free = Free
INVARIANTS
  TypeOK
  AnsweredOnce
  BuffersSharedOut
PROPERTIES
  IsAPool
  RefusedOnlyWhenOverloaded
  EveryReadAnswered
