SPECIFICATION Spec
CONSTANTS
  P = 6
  forward_seek_threshold = 2
  Streams <- MCStreams
INVARIANTS TypeOK Right DelayExact RetriesOnlyOnFault
PROPERTY Serves
