CONSTANTS
  Coros = {a, b, c, d}
  First = a
  Conds = {k1}
  Notifies = {"notify_one", "notify_all"}
  Nobody = nobody
SPECIFICATION SimpleSpec
PROPERTIES
  TurnsComeRound
  
