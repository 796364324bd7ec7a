SPECIFICATION Spec
CONSTANTS
  Call = {c1, c2}
  MaxAccidents = 1
  Email = {e1, e2}
  Renter = {e1}
  Role = {"admin", "manager", "land_renter"}
  Decision = {"active"}
  Password = {w1, w2}
  Code = {k1, k2}
  Profile = {p1}
  Season = {s1, s2, s3}
  Month = {m1, m2}
  Entry = {i1, i2}
  Name = {n1, n2}
  PlantSeason = {q1}
  Errand = {r1, r2}
  SerialModes = {TRUE, FALSE}
CHECK_DEADLOCK FALSE
SYMMETRY Symm
INVARIANTS AccountsHold CatalogueHolds StandardsHold
