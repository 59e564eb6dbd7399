CONSTANTS
  r1 = r1
  r2 = r2
  blank = blank
  asked = asked
  other = other
  Refs = {r1, r2}
  Blank = blank
  MaxItems = 2
  MaxRefs = 2
  Products = {asked, other}
  Asked = {asked}
SPECIFICATION TurnSpec
INVARIANTS BlocksIffMeshDenies SnippetIsTraced StatusIsTrue ListIsHonest GetIsHonest
CHECK_DEADLOCK FALSE
