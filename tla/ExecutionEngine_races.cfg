\* Two threads race a buy and a larger sell of one symbol, filled in parts, in
\* one part or overfilled, at two prices, through three fills.
CONSTANTS
  o1 = o1
  o2 = o2
  t1 = t1
  t2 = t2
  btc = btc
  Orders = {o1, o2}
  Symbols = {btc}
  Threads = {t1, t2}
  NoThread = NoThread
  OrderOf <- BuyAndLargerSell
  Prices = {1, 3}
  FillQuantities = {1, 3}
  MaxFills = 3
SPECIFICATION Spec
SYMMETRY ThreadSymmetry
INVARIANTS StatusMatchesFill PositionsReconcile ReportsInOrder PnLReconciles
           AverageIsVolumeWeighted
PROPERTY ImplementsAtomicEngine
CHECK_DEADLOCK FALSE
