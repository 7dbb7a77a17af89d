SPECIFICATION Spec
CONSTANTS
  Letters = {"a"}
  NULL = NULL
  Lines <- MCLines
  RepSize = 10
INVARIANTS
  TypeOK
  ReadsOneLine
  ParsesReply
  HeapAccounted
  VerdictAgrees
