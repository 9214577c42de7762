SPECIFICATION Spec
CONSTANTS
  ROOTSTATE = 4
  BASE = 8
  BITSPERSUBEXP = 4
  LEAFW_MAXPOP1 = 3
  LEAF_MAXPOP1 <- MCLeaf
  IMMED_MAXPOP1 <- MCImmed
  BRANCHLMAXJPS = 2
  ALLOCSIZES = {3, 5, 7, 11, 15, 23, 32, 47, 64}
  BPW = 4
  BRANCHL_MAX_POP = 7
  BRANCHB_MIN_POP = 4
  BRANCHB_MAX_POP = 5
  BTOU_POP_INCREMENT = 2
  JPSPERCL = 2
  PastTable = {0}
  Programs <- MCPrograms
  Plenty = 99
  MaxShortages = 1
INVARIANTS WellFormed LeastCompressed WordsCounted NoLeak InPlaceTables GetAgrees ItsOwnIndex Neighbours Gaps Positions
PROPERTY MapSpec
CHECK_DEADLOCK FALSE
