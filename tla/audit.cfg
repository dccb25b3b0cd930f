\* Two overlapping writers that may fail anywhere: links lead back, only forks break the chain.
CONSTANTS
  Writer = {w1, w2}
  Limit = 2
  FailAt = {"read", "created", "stored", "indexed"}
  MaxEvents = 3
SPECIFICATION Spec
INVARIANTS LinksLeadBack BrokenOnlyByFork
CHECK_DEADLOCK FALSE
