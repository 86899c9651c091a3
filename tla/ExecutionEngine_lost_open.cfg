\* A late fill brings a cancelled order back, unlisted.
CONSTANTS
  o1 = o1
  o2 = o2
  t1 = t1
  t2 = t2
  btc = btc
  Orders = {o1, o2}
  Symbols = {btc}
  Threads = {t1, t2}
  NoThread = NoThread
  OrderOf <- BuyAndSell
  Prices = {1}
  FillQuantities = {1, 2}
  MaxFills = 3
SPECIFICATION Spec
INVARIANT OpenOrdersAreAllActive
CHECK_DEADLOCK FALSE
