\* One output file for one or two interfaces, in any of the dialects.
SPECIFICATION GoSpec
CONSTANTS
  Dirs <- MCDirs
  Declarations <- MCDeclarations
  MaxMethods = 2
  Arrays = {"[4]"}
  Opaque = {"func()", "interface{}"}
  Versions = {"v2", "v3"}
  Dialects = {"mysql", "postgres"}
  Entries <- MCEntries
  ImplOf <- MCImplOf
  NewOf <- MCNewOf
  PackageName <- MCPackageName
  Declares <- MCDeclares
  Exports <- MCExports
INVARIANTS
  TypeOK
  SignaturesAreKept
  TableIsEnforced
  ContextIsForwarded
  IdComesBack
  PlainFilesBuild
CHECK_DEADLOCK FALSE
