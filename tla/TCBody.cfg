\* Templates of up to six tokens, compiled for each dialect and run.
SPECIFICATION BodySpec
CONSTANTS
  StringParams = {"col"}
  PtrParams = {"dir"}
  OtherParams = {"id", "n"}
  Undeclared = {"x"}
  Exprs = {"a", "b"}
  Texts <- MCTexts
  Spelled = {}
  Dialects = {"mysql", "postgres"}
  IdMethods = {TRUE}
  MaxTokens = 6
  MaxLeaves = 2
INVARIANTS
  BodyTypeOK
  AcceptsWellFormed
  StrconvIffUsed
  BodyMeansTemplate
  DollarsNameTheirArgs
CHECK_DEADLOCK FALSE
