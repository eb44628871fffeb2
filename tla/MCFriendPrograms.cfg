\* Every program; copy_on_write with 2 pages in each half of its table.
SPECIFICATION Spec
CONSTANT CowPages = 2
CHECK_DEADLOCK FALSE
INVARIANTS
  NoStaleAccess
  OutputCorrect
  HandlerTransparent
PROPERTIES
  EndsPassed
