\* An array or results that share a type, in a file without any other peculiarity.
SPECIFICATION GoSpec
CONSTANTS
  Dirs <- MCPlainDirs
  Declarations <- MCTypedDeclarations
  MaxMethods = 2
  Arrays = {"[4]"}
  Opaque = {"func()", "interface{}"}
  Versions = {"v2", "v3"}
  Dialects = {"mysql", "postgres"}
  Entries <- MCPlainEntries
  ImplOf <- MCImplOf
  NewOf <- MCNewOf
  PackageName <- MCPackageName
  Declares <- MCDeclares
  Exports <- MCExports
INVARIANTS
  MatchesInterface
CHECK_DEADLOCK FALSE
