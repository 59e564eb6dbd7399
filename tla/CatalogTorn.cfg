CONSTANTS
  asked = asked
  other = other
  Products = {asked, other}
  Asked = {asked}
SPECIFICATION Spec
INVARIANTS NeverRaises
CHECK_DEADLOCK FALSE
