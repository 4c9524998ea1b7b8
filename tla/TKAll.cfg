\* Any short template, longer ones made of actions and stray braces, and doc
\* comments of up to three lines.
SPECIFICATION Spec
CONSTANTS
  Docs <- MCDocs
  KindOf <- MCKindOf
  Symbols <- MCSymbols
  Words = {"a"}
INVARIANTS
  TypeOK
  NothingLost
  TextsAreMaximal
  TemplateIsTheRest
  KindIsLeadingKeyword
CHECK_DEADLOCK FALSE
