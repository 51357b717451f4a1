SPECIFICATION Spec
CONSTANTS
  t1 = t1  t2 = t2  a1 = a1  a2 = a2  u1 = u1  u2 = u2
  nobody = nobody  star = star  public = public  bad = bad
  docs = docs  notes = notes  photos = photos  dashed = dashed  undashed = undashed
  music = music
  Tab = {t1, t2}
  App = {a1, a2}
  User = {u1, u2}
  Nobody = nobody
  Name = {docs, notes, photos, dashed, undashed, music, star, public}
  Star = star
  Public = public
  Bad = bad
  Kept <- MCKept
  Level = {"none", "r", "rw", "rwx"}
  Begins <- MCBegins
  Asked <- MCAsked
  Days = {1, 3}
  Path <- MCPath
  Privileges <- MCPrivileges
  MaxAge = 2
  MaxRequests = 4
  MaxFaults = 1
SYMMETRY Symmetric
INVARIANTS TypeOK GrantedAsShown AccessAsShown PrivilegesEarned PageStaysValid
CHECK_DEADLOCK FALSE
