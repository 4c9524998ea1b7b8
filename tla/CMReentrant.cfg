\* Callers hand on the context they were given: one request, one goroutine it may start.
SPECIFICATION FairSpec
CONSTANTS
  m1 = m1
  r1 = r1
  w1 = w1
  t1 = t1
  t2 = t2
  s1 = s1
  NoTx = NoTx
  NoScope = NoScope
  NoMgr = NoMgr
  NoCall = NoCall
  Managers = {m1}
  Roots = {r1}
  Workers = {w1}
  Txs = {t1, t2}
  Stmts = {s1}
  MaxOpen = 1
  MaxDepth = 2
  Outcomes = {"nil", "err", "panic"}
  Passes = {"own"}
INVARIANTS
  CallbackIsAtomic
  OneTransactionPerStack
PROPERTIES
  CallsReturn
  TransactionsClose
CHECK_DEADLOCK FALSE
