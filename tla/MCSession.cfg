CONSTANTS
  MaxAdds = 3
  MaxBreaks = 2
  MaxBad = 1
  InboxCap = 2
SPECIFICATION FairSpec
INVARIANTS
  KeyIsFresh
  SampBaseKnown
  InitedAfterGreeting
  TerminatedForAReason
PROPERTIES
  ChannelSpec
  LoaderFinishes
  Drained
  BreakNoticed
