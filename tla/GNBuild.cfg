\* Documented signatures only, in a file without any peculiarity.
SPECIFICATION GoSpec
CONSTANTS
  Dirs <- MCPlainDirs
  Declarations <- MCPlainDeclarations
  MaxMethods = 2
  Arrays = {"[4]"}
  Opaque = {"func()", "interface{}"}
  Versions = {"v2", "v3"}
  Dialects = {"mysql", "postgres"}
  Entries <- MCPlainEntries
  ImplOf <- MCImplOf
  NewOf <- MCNewOf
  PackageName <- MCPackageName
  Declares <- MCDeclares
  Exports <- MCExports
INVARIANTS
  GeneratedFileBuilds
CHECK_DEADLOCK FALSE
