SPECIFICATION Spec
CONSTANTS
  P = 6
  forward_seek_threshold = 2
  Streams <- MCMistakable
INVARIANT FlushedRight
