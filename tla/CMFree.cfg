\* Callers hand on any context they can reach; callbacks end in every way.
SPECIFICATION Spec
CONSTANTS
  m1 = m1
  r1 = r1
  w1 = w1
  t1 = t1
  t2 = t2
  s1 = s1
  NoTx = NoTx
  NoScope = NoScope
  NoMgr = NoMgr
  NoCall = NoCall
  Managers = {m1}
  Roots = {r1}
  Workers = {w1}
  Txs = {t1, t2}
  Stmts = {s1}
  MaxOpen = 2
  MaxDepth = 2
  Outcomes = {"nil", "err", "panic", "goexit"}
  Passes = {"own", "background", "captured"}
SYMMETRY TxStmtSymmetry
INVARIANTS
  TypeOK
  FailedCallbackNeverCommits
  ReplyTellsTheOutcome
  OpenTxIsOwned
  EffectsFollowTheContext
  IInv
PROPERTIES
  UnitRefinement
CHECK_DEADLOCK FALSE
