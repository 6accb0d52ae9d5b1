SPECIFICATION ChangesSpec
CONSTANTS
  a = a
  b = b
  owner = owner
  rule = rule
  link = link
  Servers = {a, b}
  Alone = a
  Edits = {owner, rule, link}
  RuleEdits = {rule}
  Connecting = {link}
  Nobody = Nobody
  Stale = Stale
  MaxFaults = 2
INVARIANT NeverForgotten
PROPERTIES AppliedWasRead PromiseKept
