SPECIFICATION Spec
CONSTANTS
  P = 4
  Orders <- RepeatOrders
INVARIANTS TypeOK CacheFresh CachedRight ForwardRight
PROPERTY NoSeekBack
