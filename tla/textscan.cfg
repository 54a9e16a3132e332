CONSTANTS
  Streams <- MCStreams
  iHeadLen = 10
SPECIFICATION Spec
INVARIANTS PromisedHeard OneForEachFrame Resynchronised
