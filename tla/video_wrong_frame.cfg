SPECIFICATION Spec
CONSTANTS
  P = 3
  Orders <- RepeatOrders
INVARIANT EveryFrameRight
