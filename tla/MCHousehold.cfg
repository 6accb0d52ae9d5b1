SPECIFICATION HouseholdSpec
CONSTANTS
  g = g
  h = h
  d = d
  e = e
  lan = lan
  r1 = r1
  r2 = r2
  Nowhere = Nowhere
  Groups = {g, h}
  Asked = {g}
  Devices = {d, e}
  Zones = {lan}
  Requests = {r1, r2}
  MaxAsks = 3
  MaxHour = 1
  Week = 3
  Day = 3
  Drawn <- DrawnWindows
  Open = Open
  Ends = {Open, 5}
INVARIANTS PlanIsWanted ToldTruly DrawnTruly
PROPERTIES EndedStaysEnded ComesToBeWanted
