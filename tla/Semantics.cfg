CONSTANTS
    Programs <- MCPrograms
    Builtins <- MCBuiltins
    LiteralType <- MCLiteral
    Variadic = {"println"}
SPECIFICATION Spec
CHECK_DEADLOCK FALSE
INVARIANTS
  DeclarationsRight
  FlowRight
  TypesRight
