CONSTANTS
  asked = asked
  other = other
  Products = {asked, other}
  Asked = {asked}
SPECIFICATION Spec
INVARIANTS CatalogNeedsOrg
CHECK_DEADLOCK FALSE
