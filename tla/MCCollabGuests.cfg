CONSTANTS
  owner = owner
  g1 = g1
  g2 = g2
  Owner = owner
  Guests = {g1, g2}
  MaxEdits = 1
  MaxVisits = 1
SPECIFICATION CollabSpec
SYMMETRY GuestSymmetry
INVARIANT GuestsHaveEverything
CHECK_DEADLOCK FALSE
