CONSTANTS
  Key = {k1, k2}
  Op = {o1, o2, o3, o4}
  NoOp = NoOp
SPECIFICATION FairSpec
 
PROPERTIES  ImplementsFifoMutex
