\* One page, two edits, two saves by anybody.
SPECIFICATION PageSpec
CONSTANTS
  None = none
  Broken = broken
  Sent = sent
  Failed = failed
  OutboundTags = {"direct", "blocked", "IPv4", "proxy", "spare"}
  BalancerTags = {"b1", "b2"}
  Stored <- MCStored
  Default <- MCDefault
  OutboundForms <- MCOutboundForms
  RuleForms <- MCRuleForms
  BalancerForms <- MCBalancerForms
  MaxEdits = 2
  MaxVer = 1
  MaxSubs = 1
INVARIANTS TextMatchesTemplate ObservatoriesNeeded
PROPERTIES TargetsKept SavedNotReverted UnsavedCanBeSaved
