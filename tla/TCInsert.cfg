\* INSERT templates on Postgres, with RETURNING where a template may have it.
SPECIFICATION BodySpec
CONSTANTS
  StringParams = {}
  PtrParams = {}
  OtherParams = {"id"}
  Undeclared = {}
  Exprs = {"a"}
  Texts <- MCInsertTexts
  Spelled = {"returning_at"}
  Dialects = {"postgres"}
  IdMethods = {TRUE}
  MaxTokens = 4
  MaxLeaves = 4
INVARIANTS
  OneReturningClause
CHECK_DEADLOCK FALSE
