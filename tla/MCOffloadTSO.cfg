\* Safety, refinement and progress with store buffers.
CONSTANTS
  Friends = {f1, f2, f3}
  Hakase = hakase
  NoFrame = NoFrame
  MaxOffloads = 2
  BufferSize = 8
SPECIFICATION FairSpec
INVARIANTS
  OneCpuPerStack
  ExactlyOnce
  ResultVisible
PROPERTIES
  ServiceSpec
  AllOffloadsComplete
