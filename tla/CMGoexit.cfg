\* A callback ends its goroutine, as require.NoError does in a failing test.
SPECIFICATION Spec
CONSTANTS
  m1 = m1
  r1 = r1
  t1 = t1
  s1 = s1
  NoTx = NoTx
  NoScope = NoScope
  NoMgr = NoMgr
  NoCall = NoCall
  Managers = {m1}
  Roots = {r1}
  Workers = {}
  Txs = {t1}
  Stmts = {s1}
  MaxOpen = 1
  MaxDepth = 2
  Outcomes = {"nil", "err", "panic", "goexit"}
  Passes = {"own"}
SYMMETRY TxStmtSymmetry
INVARIANTS
  OwnerClosesItsTx
CHECK_DEADLOCK FALSE
