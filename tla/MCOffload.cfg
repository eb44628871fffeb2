\* The protocol, its refinement of OffloadService, and that requests are served
\* under fair CPUs.  Three friend cores compete for the lock, so that one holds
\* it while another tests it and a third fails its compare-and-swap; two
\* OFFLOADs per core let flags and context left over from one request meet the
\* next request of the same and of another core.
CONSTANTS
  Friends = {f1, f2, f3}
  Hakase = hakase
  NoFrame = NoFrame
  MaxOffloads = 2
SPECIFICATION FairSpec
INVARIANTS
  TypeOK
  OneCpuPerStack
  BlockRunsOnHakase
  ExactlyOnce
  Handshake
PROPERTIES
  ContextStable
  ServiceSpec
  RequestServed
