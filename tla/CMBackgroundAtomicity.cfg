\* A generated method without a context parameter is called inside a callback.
SPECIFICATION Spec
CONSTANTS
  m1 = m1
  r1 = r1
  t1 = t1
  t2 = t2
  s1 = s1
  NoTx = NoTx
  NoScope = NoScope
  NoMgr = NoMgr
  NoCall = NoCall
  Managers = {m1}
  Roots = {r1}
  Workers = {}
  Txs = {t1, t2}
  Stmts = {s1}
  MaxOpen = 2
  MaxDepth = 2
  Outcomes = {"nil", "err", "panic"}
  Passes = {"own", "background"}
SYMMETRY TxStmtSymmetry
INVARIANTS
  CallbackIsAtomic
CHECK_DEADLOCK FALSE
