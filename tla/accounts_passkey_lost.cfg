CONSTANTS
  Browser = {b1, b2}
  User = {u1}
  Contact = {k1}
  Invite = {i1, i2}
  Passkey = {p1, p2}
  NoName = NoName
  NoContact = NoContact
  NoInvite = NoInvite
  MaxRequests = 7
  MaxFaults = 0
SPECIFICATION Spec
INVARIANT PasskeysStay
CHECK_DEADLOCK FALSE
