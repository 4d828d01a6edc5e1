SPECIFICATION MCSpec
CONSTANTS
  HALF = 8
  Digits = 3
  BANK = 256
  EBS = 2
  EBUNIT = 4
  FBUNIT = 4
  EDOPUNIT = 2
  ZMOD = 4
  Memory = {16, 17, 18, 19, 20, 21, 22, 23, 48, 49, 305}
  Programs = {"one", "two", "pairs", "clock", "timers", "banks", "editing"}
INVARIANTS TypeOK BanksAgree
PROPERTIES SumsAreExact ProductsAreExact DivisionsAgree
CHECK_DEADLOCK FALSE
