SPECIFICATION Spec
CONSTANTS
  Probes = {probe}
  Askers = {adjudicator}
  Items = {first, second}
  Types = {message, reasoning}
  None = None
INVARIANT IInv
PROPERTY NoChildAfterFailure
PROPERTY ResultsAreClean
PROPERTY CallsEnd
