SPECIFICATION Spec
CONSTANTS
  Slots = {s1}
  FadeMs = 1
  MaxBlock = 2
  Params = {p1}
  Top = 1
  Rates = {2, 3}
  SmoothingMs = 1
PROPERTIES EditNeverReverts
