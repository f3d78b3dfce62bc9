CONSTANTS
  owner = owner
  g1 = g1
  g2 = g2
  Owner = owner
  Guests = {g1, g2}
SPECIFICATION PanelsSpec
SYMMETRY GuestSymmetry
INVARIANT GuestsSeeEverybody
CHECK_DEADLOCK FALSE
