SPECIFICATION Spec
CONSTANTS
  Traders = {t1}
  Watchers = {w1, w2}
  MaxPosts = 2
  Local = Local
  Limit = 2
SYMMETRY Commands
INVARIANTS
  TableIsTrue RestingIsTracked
PROPERTIES
  RefreshCatchesUp
