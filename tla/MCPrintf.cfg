SPECIFICATION PrintfSpec
CONSTANTS
  LongMod = 256  ShortMod = 16  PointerDigits = 2  Arg = {0, 7, 128, 255, 300}  MaxDirective = 4
INVARIANT DoneDirectives
CHECK_DEADLOCK FALSE
