SPECIFICATION Spec
CONSTANTS
  Retries = 3
  MaxInbox = 3
INVARIANT BeliefIsJustified
INVARIANT GrantIsNoticed
INVARIANT StopsAreReset
