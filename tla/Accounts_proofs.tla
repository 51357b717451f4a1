-------------------------- MODULE Accounts_proofs --------------------------
(***************************************************************************)
(* Theorems about Accounts for every set of browsers, users, contacts,     *)
(* invitations and passkeys, with S3 failures and crashes.                 *)
(*                                                                         *)
(* A user's record lives in S3, in the sessions of browsers and in the     *)
(* memory of handlers.  The invariant says, browser by browser, what each  *)
(* place of a handler knows of these copies, and that a copy which no      *)
(* write has made out of date holds every passkey of the record.           *)
(***************************************************************************)
EXTENDS Accounts, TLAPS

\* Open invitations have a contact; so has every user, and only users have
\* passkeys.
BlobsOK ==
  /\ \A i \in Invite : invites[i].state = "open" => invites[i].contact \in Contact
  /\ \A n \in User : /\ account[n].state = "user" => account[n].contact \in Contact
                     /\ account[n].state # "user" => account[n].keys = {}

\* What the handler of a browser holds at each place.
Places(b) ==
  /\ pc[b] \in {"expired", "contact", "user"} => session[b] = NoSession /\ page[b] \in Invite
  /\ pc[b] \notin {"idle", "expired"} => buf[b].contact \in Contact
  /\ pc[b] \in {"user", "versioning", "create", "record", "write"} => buf[b].name \in User
  /\ pc[b] \in {"versioning", "create", "record"} =>
       session[b].user = buf[b] /\ session[b].synthetic
  /\ pc[b] = "write" => account[buf[b].name].state = "user"

\* A session holds a user who exists, or one made up from an invite.
SessionOK(b) ==
  /\ session[b].regChallenge => HasUser(session[b]) /\ ~session[b].synthetic
  /\ HasUser(session[b]) /\ ~session[b].synthetic =>
       session[b].user.name \in User /\ account[session[b].user.name].state = "user"

\* Registering a passkey adds it to the session's user.
Registers(b) ==
  pc[b] = "write" /\ op[b] = "register" =>
    /\ session[b].regChallenge
    /\ buf[b].name = session[b].user.name
    /\ \A p \in buf[b].keys \ session[b].user.keys : owner[p] = buf[b].name

\* Copies that are not out of date hold the record's passkeys.  A handler that
\* logs in has read the record; the session's copy does not matter then.
Fresh(b) ==
  b \notin outdated =>
    /\ pc[b] = "write" => account[buf[b].name].keys \subseteq buf[b].keys
    /\ HasUser(session[b]) /\ ~session[b].synthetic =>
         \/ pc[b] = "write" /\ op[b] # "register"
         \/ account[session[b].user.name].keys \subseteq session[b].user.keys

BrowserOK(b) == Places(b) /\ SessionOK(b) /\ Registers(b) /\ Fresh(b)

ConfirmedOK ==
  \A p \in confirmed : /\ owner[p] \in User
                       /\ owner[p] \in raced \/ p \in account[owner[p]].keys

Inv == TypeOK /\ BlobsOK /\ (\A b \in Browser : BrowserOK(b)) /\ OneCreator /\ ConfirmedOK

-----------------------------------------------------------------------------
(* Values.                                                                 *)

LEMMA Values ==
  /\ Nobody \in UserType /\ NoSession \in SessionType
  /\ Nobody.name = NoName /\ Nobody.contact = NoContact
  /\ NoSession.user = Nobody /\ NoSession.synthetic = FALSE /\ NoSession.regChallenge = FALSE
  /\ NoName \notin User /\ NoContact \notin Contact
BY NoneAssumption DEF Nobody, NoSession, UserType, SessionType

LEMMA InitInv == Init => Inv
<1> SUFFICES ASSUME Init
             PROVE  Inv
  OBVIOUS
<1>1. TypeOK
  BY Values, BoundAssumption DEF Init, TypeOK, Label
<1>2. BlobsOK
  BY DEF Init, BlobsOK
<1>3. \A b \in Browser : BrowserOK(b)
  BY Values DEF Init, BrowserOK, Places, SessionOK, Registers, Fresh, HasUser
<1>4. OneCreator
  BY DEF Init, OneCreator, Creates
<1>5. ConfirmedOK
  BY DEF Init, ConfirmedOK
<1> QED
  BY <1>1, <1>2, <1>3, <1>4, <1>5 DEF Inv

\* A browser's handler and session stay as they are while others move.
LEMMA OthersStay ==
  ASSUME Inv, NEW d \in Browser,
         session'[d] = session[d], pc'[d] = pc[d], op'[d] = op[d], buf'[d] = buf[d],
         page'[d] = page[d], d \in outdated => d \in outdated',
         \A n \in User : account[n].state = "user" => account'[n].state = "user",
         \A n \in User : \/ account'[n].keys \subseteq account[n].keys
                         \/ d \in outdated'
                         \/ n \notin {session[d].user.name, buf[d].name},
         \A p \in Passkey : owner[p] # NoName => owner'[p] = owner[p]
  PROVE  BrowserOK(d)'
<1>1. BrowserOK(d) /\ buf[d] \in UserType /\ session[d] \in SessionType
  BY DEF Inv, TypeOK
<1>2. Places(d)'
  BY <1>1 DEF BrowserOK, Places
<1>3. SessionOK(d)'
  BY <1>1 DEF BrowserOK, SessionOK, HasUser
<1>4. Registers(d)'
  <2> SUFFICES ASSUME pc[d] = "write", op[d] = "register"
               PROVE  /\ session[d].regChallenge
                      /\ buf[d].name = session[d].user.name
                      /\ \A p \in buf[d].keys \ session[d].user.keys : owner'[p] = buf[d].name
    BY DEF Registers
  <2>1. buf[d].name # NoName /\ buf[d].keys \subseteq Passkey
    BY <1>1, Values DEF BrowserOK, Places, UserType
  <2> QED
    BY <1>1, <2>1 DEF BrowserOK, Registers
<1>5. Fresh(d)'
  <2> SUFFICES ASSUME d \notin outdated'
               PROVE  /\ pc[d] = "write" => account'[buf[d].name].keys \subseteq buf[d].keys
                      /\ HasUser(session[d]) /\ ~session[d].synthetic =>
                           \/ pc[d] = "write" /\ op[d] # "register"
                           \/ account'[session[d].user.name].keys \subseteq session[d].user.keys
    BY DEF Fresh, HasUser
  <2>1. d \notin outdated
    OBVIOUS
  <2>2. pc[d] = "write" => account'[buf[d].name].keys \subseteq buf[d].keys
    BY <1>1, <2>1 DEF BrowserOK, Fresh, Places
  <2>3. HasUser(session[d]) /\ ~session[d].synthetic =>
          \/ pc[d] = "write" /\ op[d] # "register"
          \/ account'[session[d].user.name].keys \subseteq session[d].user.keys
    BY <1>1, <2>1 DEF BrowserOK, Fresh, SessionOK
  <2> QED
    BY <2>2, <2>3
<1> QED
  BY <1>2, <1>3, <1>4, <1>5 DEF BrowserOK

-----------------------------------------------------------------------------
(* The shape of a step.                                                    *)

\* Only browser b's handler and session move.
Others(b) ==
  \A d \in Browser \ {b} :
    /\ session'[d] = session[d] /\ pc'[d] = pc[d] /\ op'[d] = op[d]
    /\ buf'[d] = buf[d] /\ page'[d] = page[d]

LEMMA AnswerFacts ==
  ASSUME TypeOK, NEW b \in Browser, NEW s \in SessionType, Answer(b, s)
  PROVE  /\ session' \in [Browser -> SessionType]
         /\ pc' \in [Browser -> Label]
         /\ op' \in [Browser -> {"none", "register", "login", "oauth"}]
         /\ buf' \in [Browser -> UserType]
         /\ session'[b] = s /\ pc'[b] = "idle" /\ op'[b] = "none" /\ buf'[b] = Nobody
         /\ page' = page => Others(b)
         /\ Elsewhere(b) => Others(b)
BY Values DEF TypeOK, Answer, Label, Others, Elsewhere

LEMMA ContinueFacts ==
  ASSUME TypeOK, NEW b \in Browser, NEW l \in Label, NEW user \in UserType, Continue(b, l, user)
  PROVE  /\ pc' \in [Browser -> Label]
         /\ buf' \in [Browser -> UserType]
         /\ pc'[b] = l /\ buf'[b] = user
         /\ \A d \in Browser \ {b} : pc'[d] = pc[d] /\ buf'[d] = buf[d]
BY DEF TypeOK, Continue

\* What session s of an idle browser is known to hold.
Known(s, fresh) ==
  /\ s.regChallenge => HasUser(s) /\ ~s.synthetic
  /\ HasUser(s) /\ ~s.synthetic =>
       /\ s.user.name \in User
       /\ account[s.user.name].state = "user"
       /\ fresh => account[s.user.name].keys \subseteq s.user.keys

LEMMA IdleIsKnown ==
  ASSUME Inv, NEW b \in Browser, pc[b] # "write" \/ op[b] = "register"
  PROVE  Known(session[b], b \notin outdated)
BY DEF Inv, BrowserOK, SessionOK, Fresh, Known

LEMMA KnownIsOK ==
  ASSUME NEW b \in Browser, pc'[b] = "idle", Known(session[b], b \notin outdated)'
  PROVE  BrowserOK(b)'
BY DEF BrowserOK, Places, SessionOK, Registers, Fresh, Known, HasUser

LEMMA EmptyIsKnown ==
  ASSUME NEW s, s.user = Nobody, ~s.regChallenge, NEW fresh
  PROVE  Known(s, fresh)
BY Values DEF Known, HasUser

\* A step of one browser keeps the others' part of the invariant.
LEMMA Compose ==
  ASSUME Inv, NEW b \in Browser, Others(b), BrowserOK(b)',
         TypeOK', BlobsOK', OneCreator', ConfirmedOK',
         outdated \ {b} \subseteq outdated',
         \A n \in User : account[n].state = "user" => account'[n].state = "user",
         \A d \in Browser \ {b}, n \in User :
           \/ account'[n].keys \subseteq account[n].keys
           \/ d \in outdated'
           \/ n \notin {session[d].user.name, buf[d].name},
         \A p \in Passkey : owner[p] # NoName => owner'[p] = owner[p]
  PROVE  Inv'
<1>1. ASSUME NEW d \in Browser PROVE BrowserOK(d)'
  <2>1. CASE d = b
    BY <2>1
  <2>2. CASE d # b
    BY <2>2, OthersStay DEF Others
  <2> QED
    BY <2>1, <2>2
<1> QED
  BY <1>1 DEF Inv

\* A step of one browser that writes no account and creates none.
LEMMA Unwritten ==
  ASSUME Inv, NEW b \in Browser, Others(b), BrowserOK(b)', TypeOK',
         account' = account, confirmed' = confirmed, raced \subseteq raced',
         \A i \in Invite : invites'[i] = invites[i] \/ invites'[i].state = "gone",
         outdated \ {b} \subseteq outdated',
         \A p \in Passkey : owner[p] # NoName => owner'[p] = owner[p],
         pc'[b] # "record", pc[b] # "record" \/ faults' > 0, faults > 0 => faults' > 0
  PROVE  Inv'
<1>1. BlobsOK'
  BY DEF Inv, BlobsOK
<1>2. OneCreator'
  <2>1. \A d \in Browser, n \in User : Creates(d, n)' => Creates(d, n)
    BY DEF Creates, Others
  <2>2. \A d \in Browser, n \in User : Creates(d, n) => Creates(d, n)' \/ faults' > 0
    BY DEF Creates, Others
  <2> QED
    BY <2>1, <2>2 DEF Inv, OneCreator
<1>3. ConfirmedOK'
  <2>1. \A p \in confirmed : owner'[p] = owner[p]
    BY Values DEF Inv, TypeOK, ConfirmedOK
  <2> QED
    BY <2>1 DEF Inv, ConfirmedOK
<1> QED
  BY <1>1, <1>2, <1>3, Compose

LEMMA GoneFacts ==
  ASSUME TypeOK, NEW i \in Invite, Gone(i)
  PROVE  /\ invites' \in [Invite -> [state : {"unsent", "open", "gone"},
                              contact : Contact \cup {NoContact}, name : User \cup {NoName}]]
         /\ \A j \in Invite : invites'[j] = invites[j] \/ invites'[j].state = "gone"
<1> DEFINE Blob == [state : {"unsent", "open", "gone"},
                    contact : Contact \cup {NoContact}, name : User \cup {NoName}]
           blob == [invites[i] EXCEPT !.state = "gone"]
<1>1. invites \in [Invite -> Blob] /\ invites[i] \in Blob
  BY DEF TypeOK
<1>2. blob \in Blob /\ blob.state = "gone"
  BY <1>1
<1>3. invites' = [invites EXCEPT ![i] = blob]
  BY <1>1 DEF Gone
<1> HIDE DEF Blob, blob
<1>4. /\ invites' \in [Invite -> Blob] /\ invites'[i] = blob
      /\ \A j \in Invite \ {i} : invites'[j] = invites[j]
  BY <1>1, <1>2, <1>3
<1> QED
  BY <1>2, <1>4 DEF Blob

\* A handler answers, leaving s in the session, and writes no account.
LEMMA Answered ==
  ASSUME Inv, NEW b \in Browser, NEW s \in SessionType, Answer(b, s),
         Known(s, b \notin outdated'), pc[b] # "record",
         contacts' \in [Contact -> User \cup {NoName}], requests' \in Nat,
         invites' = invites \/ (page[b] \in Invite /\ Gone(page[b])),
         outdated' \subseteq Browser, outdated \ {b} \subseteq outdated',
         account' = account, owner' = owner, page' = page \/ Elsewhere(b), confirmed' = confirmed,
         raced' = raced, faults' = faults
  PROVE  Inv'
<1>1. TypeOK
  BY DEF Inv
<1>2. /\ session' \in [Browser -> SessionType] /\ pc' \in [Browser -> Label]
      /\ op' \in [Browser -> {"none", "register", "login", "oauth"}]
      /\ buf' \in [Browser -> UserType]
      /\ session'[b] = s /\ pc'[b] = "idle" /\ Others(b)
  BY <1>1, AnswerFacts
<1>3. /\ invites' \in [Invite -> [state : {"unsent", "open", "gone"},
                             contact : Contact \cup {NoContact}, name : User \cup {NoName}]]
      /\ \A i \in Invite : invites'[i] = invites[i] \/ invites'[i].state = "gone"
  BY <1>1, GoneFacts DEF TypeOK
<1>4. TypeOK'
  BY <1>1, <1>2, <1>3 DEF TypeOK, Elsewhere
<1>5. BrowserOK(b)'
  <2>1. Known(session[b], b \notin outdated)'
    BY <1>2 DEF Known, HasUser
  <2> QED
    BY <1>2, <2>1, KnownIsOK
<1> QED
  BY <1>2, <1>3, <1>4, <1>5, Unwritten

LEMMA ClearedIsKnown ==
  ASSUME NEW s, NEW fresh
  PROVE  Cleared(s) \in SessionType /\ Known(Cleared(s), fresh)
BY Values, EmptyIsKnown DEF Cleared

-----------------------------------------------------------------------------
(* Invitations.                                                            *)

LEMMA SendInviteInv ==
  ASSUME Inv, NEW i \in Invite, SendInvite(i)
  PROVE  Inv'
<1>1. TypeOK'
  BY DEF Inv, TypeOK, SendInvite, history
<1>2. BlobsOK'
  BY DEF Inv, TypeOK, BlobsOK, SendInvite
<1>3. \A b \in Browser : BrowserOK(b)'
  BY OthersStay DEF Inv, SendInvite, history
<1>4. OneCreator' /\ ConfirmedOK'
  BY DEF Inv, OneCreator, Creates, ConfirmedOK, SendInvite, history
<1> QED
  BY <1>1, <1>2, <1>3, <1>4 DEF Inv

LEMMA AcceptInv ==
  ASSUME Inv, NEW b \in Browser, NEW i \in Invite, Accept(b, i)
  PROVE  Inv'
<1> DEFINE user == [Nobody EXCEPT !.name = invites[i].name, !.contact = invites[i].contact]
<1>1. /\ TypeOK /\ BlobsOK /\ pc[b] = "idle" /\ requests' \in Nat
      /\ page' = [page EXCEPT ![b] = i] /\ UNCHANGED <<blobs, owner, history, faults>>
  BY DEF Inv, Accept, Receive, TypeOK
<1>2. CASE invites[i].state = "gone" /\ Answer(b, Cleared(session[b]))
  <2>1. Cleared(session[b]) = NoSession /\ NoSession \in SessionType
    BY Values DEF Cleared
  <2>2. /\ session' \in [Browser -> SessionType] /\ pc' \in [Browser -> Label]
        /\ op' \in [Browser -> {"none", "register", "login", "oauth"}]
        /\ buf' \in [Browser -> UserType]
        /\ session'[b] = NoSession /\ pc'[b] = "idle"
    BY <1>1, <1>2, <2>1, AnswerFacts
  <2>3. Others(b)
    BY <1>1, <1>2 DEF Others, Answer, TypeOK
  <2>4. TypeOK'
    BY <1>1, <2>2 DEF TypeOK, blobs, history
  <2>5. BrowserOK(b)'
    <3>1. Known(session[b], b \notin outdated)'
      BY <2>2, Values DEF Known, HasUser
    <3> QED
      BY <2>2, <3>1, KnownIsOK
  <2> QED
    BY <1>1, <2>2, <2>3, <2>4, <2>5, Unwritten DEF blobs, history
<1>3. CASE /\ invites[i].state = "open"
           /\ \E l \in {"contact", "expired"} : Continue(b, l, user)
           /\ session' = [session EXCEPT ![b] = Cleared(@)]
           /\ UNCHANGED op
  <2>1. PICK l \in {"contact", "expired"} : Continue(b, l, user)
    BY <1>3
  <2>2. user \in UserType /\ user.contact \in Contact
    BY <1>1, <1>3 DEF Nobody, UserType, TypeOK, BlobsOK
  <2>3. l \in Label
    BY DEF Label
  <2>4. /\ pc' \in [Browser -> Label] /\ buf' \in [Browser -> UserType]
        /\ pc'[b] = l /\ buf'[b] = user
        /\ \A d \in Browser \ {b} : pc'[d] = pc[d] /\ buf'[d] = buf[d]
    BY <1>1, <2>1, <2>2, <2>3, ContinueFacts
  <2>5. /\ session' \in [Browser -> SessionType] /\ session'[b] = NoSession
        /\ page' \in [Browser -> Invite \cup {NoInvite}] /\ page'[b] = i
        /\ \A d \in Browser \ {b} : session'[d] = session[d] /\ page'[d] = page[d]
    BY <1>1, <1>3, Values DEF TypeOK, Cleared
  <2>6. TypeOK'
    BY <1>1, <1>3, <2>4, <2>5 DEF TypeOK, blobs, history
  <2>7. Others(b)
    BY <1>3, <2>4, <2>5 DEF Others
  <2>8. BrowserOK(b)'
    BY <2>2, <2>4, <2>5, Values DEF BrowserOK, Places, SessionOK, Registers, Fresh, HasUser
  <2> QED
    BY <1>1, <2>4, <2>6, <2>7, <2>8, Unwritten DEF blobs, history
<1> QED
  BY <1>2, <1>3 DEF Accept

LEMMA AcceptExpiredInv ==
  ASSUME Inv, NEW b \in Browser, AcceptExpired(b)
  PROVE  Inv'
<1>1. Cleared(session[b]) \in SessionType /\ Known(Cleared(session[b]), b \notin outdated')
  BY ClearedIsKnown
<1>2. page[b] \in Invite /\ TypeOK
  BY DEF Inv, AcceptExpired, BrowserOK, Places
<1> QED
  BY <1>1, <1>2, Answered DEF AcceptExpired, Same, Quietly, TypeOK

LEMMA SyntheticIsKnown ==
  ASSUME NEW b \in Browser, NEW user \in UserType, NEW fresh, session[b] = NoSession
  PROVE  LET s == [session[b] EXCEPT !.user = user, !.synthetic = TRUE]
         IN  s \in SessionType /\ Known(s, fresh)
BY Values DEF Known, SessionType, HasUser, NoSession

LEMMA AcceptContactInv ==
  ASSUME Inv, NEW b \in Browser, AcceptContact(b)
  PROVE  Inv'
<1> DEFINE k == buf[b].contact
           name == IF buf[b].name = NoName THEN contacts[k] ELSE buf[b].name
           user == [buf[b] EXCEPT !.name = name]
           s == [session[b] EXCEPT !.user = user, !.synthetic = TRUE]
<1>1. /\ TypeOK /\ pc[b] = "contact" /\ session[b] = NoSession /\ page[b] \in Invite
      /\ k \in Contact
  BY DEF Inv, AcceptContact, BrowserOK, Places
<1>2. name \in User \cup {NoName} /\ user \in UserType /\ user.contact = k /\ user.name = name
  BY <1>1 DEF TypeOK, UserType
<1>3. contacts' \in [Contact -> User \cup {NoName}]
  BY <1>1, <1>2 DEF AcceptContact, UpsertContact, TypeOK
<1>4. CASE name = NoName
  <2>1. Answer(b, s)
    BY <1>4 DEF AcceptContact, Synthetic
  <2>2. s \in SessionType /\ Known(s, b \notin outdated')
    BY <1>1, <1>2, SyntheticIsKnown
  <2> QED
    BY <1>1, <1>3, <2>1, <2>2, Answered DEF AcceptContact, Same, Quietly, TypeOK
<1>5. CASE name # NoName
  <2>1. Continue(b, "user", user) /\ UNCHANGED <<session, op>>
    BY <1>5 DEF AcceptContact
  <2>2. "user" \in Label
    BY DEF Label
  <2>3. /\ pc' \in [Browser -> Label] /\ buf' \in [Browser -> UserType]
        /\ pc'[b] = "user" /\ buf'[b] = user
        /\ \A d \in Browser \ {b} : pc'[d] = pc[d] /\ buf'[d] = buf[d]
    BY <1>1, <1>2, <2>1, <2>2, ContinueFacts
  <2>4. UNCHANGED <<invites, account, outdated, requests, owner, page, confirmed, raced, faults>>
    BY DEF AcceptContact, Same, Quietly
  <2>5. TypeOK'
    BY <1>1, <1>3, <2>1, <2>3, <2>4 DEF TypeOK
  <2>6. Others(b)
    BY <2>1, <2>3, <2>4 DEF Others
  <2>7. BrowserOK(b)'
    BY <1>1, <1>2, <1>5, <2>1, <2>3, <2>4, Values
       DEF BrowserOK, Places, SessionOK, Registers, Fresh, HasUser
  <2> QED
    BY <1>1, <2>3, <2>4, <2>5, <2>6, <2>7, Unwritten
<1> QED
  BY <1>4, <1>5

LEMMA UserIsTyped ==
  ASSUME TypeOK, NEW n \in User
  PROVE  /\ UserOf(n) \in UserType
         /\ UserOf(n).name = n /\ UserOf(n).contact = account[n].contact
         /\ UserOf(n).keys = account[n].keys
BY DEF TypeOK, UserOf, UserType

LEMMA AcceptUserInv ==
  ASSUME Inv, NEW b \in Browser, AcceptUser(b)
  PROVE  Inv'
<1> DEFINE n == buf[b].name
<1>1. /\ TypeOK /\ pc[b] = "user" /\ session[b] = NoSession /\ n \in User
      /\ buf[b] \in UserType
  BY DEF Inv, AcceptUser, BrowserOK, Places, TypeOK
<1>2. /\ UNCHANGED <<blobs, requests, owner, page, confirmed, raced, faults>>
      /\ outdated' = outdated \ {b}
  BY DEF AcceptUser, Same, Quietly
<1>3. PICK s : s \in SessionType /\ Known(s, b \notin outdated') /\ Answer(b, s)
  <2>1. CASE account[n].state = "none"
    BY <1>1, <2>1, SyntheticIsKnown DEF AcceptUser, Synthetic
  <2>2. CASE account[n].state = "bucket"
    BY <2>2, ClearedIsKnown DEF AcceptUser
  <2>3. CASE account[n].state \notin {"none", "bucket"}
    <3> DEFINE s == [session[b] EXCEPT !.user = UserOf(n)]
    <3>1. Answer(b, s)
      BY <2>3 DEF AcceptUser
    <3>2. UserOf(n) \in UserType /\ UserOf(n).name = n /\ UserOf(n).keys = account[n].keys
      BY <1>1, UserIsTyped
    <3>3. s \in SessionType /\ s.user = UserOf(n) /\ ~s.regChallenge
      BY <1>1, <3>2, Values DEF SessionType, NoSession
    <3>4. account[n].state = "user"
      BY <1>1, <2>3 DEF TypeOK
    <3>5. Known(s, b \notin outdated')
      BY <1>1, <3>2, <3>3, <3>4 DEF Known
    <3> QED
      BY <3>1, <3>3, <3>5
  <2> QED
    BY <2>1, <2>2, <2>3
<1> QED
  BY <1>1, <1>2, <1>3, Answered DEF blobs, TypeOK

LEMMA CancelInviteInv ==
  ASSUME Inv, NEW b \in Browser, CancelInvite(b)
  PROVE  Inv'
<1>1. Cleared(session[b]) \in SessionType /\ Known(Cleared(session[b]), b \notin outdated')
  BY ClearedIsKnown
<1>2. page[b] \in Invite /\ TypeOK
  BY DEF Inv, CancelInvite, TypeOK
<1> QED
  BY <1>1, <1>2, Answered DEF CancelInvite, Same, Quietly, Receive, TypeOK

-----------------------------------------------------------------------------
(* Creating a user.                                                        *)

LEMMA OptionsInv ==
  ASSUME Inv, NEW b \in Browser, Options(b)
  PROVE  Inv'
<1> DEFINE s == session[b]
<1>1. /\ TypeOK /\ pc[b] = "idle" /\ s \in SessionType /\ requests' \in Nat
      /\ Known(s, b \notin outdated)
      /\ UNCHANGED <<invites, account, outdated, owner, page, confirmed, raced, faults>>
  BY IdleIsKnown DEF Inv, Options, Receive, TypeOK, Same, Quietly
<1>2. CASE Answer(b, Cleared(s)) /\ UNCHANGED contacts
  BY <1>1, <1>2, ClearedIsKnown, Answered DEF TypeOK
<1>3. ASSUME HasUser(s),
             NEW n \in IF s.synthetic THEN User ELSE {s.user.name},
             contacts' = [contacts EXCEPT ![s.user.contact] = n]
      PROVE  /\ n \in User /\ s.user.contact \in Contact
             /\ contacts' \in [Contact -> User \cup {NoName}]
  <2>1. n \in User
    BY <1>1, <1>3 DEF Known
  <2>2. s.user.contact \in Contact
    BY <1>1, <1>3 DEF HasUser, SessionType, UserType
  <2> QED
    BY <1>1, <1>3, <2>1, <2>2 DEF TypeOK
<1>4. ASSUME HasUser(s), ~s.synthetic, NEW n \in {s.user.name},
             contacts' = [contacts EXCEPT ![s.user.contact] = n],
             Answer(b, [s EXCEPT !.regChallenge = TRUE])
      PROVE  Inv'
  <2> DEFINE t == [s EXCEPT !.regChallenge = TRUE]
  <2>1. t \in SessionType /\ t.user = s.user /\ t.synthetic = s.synthetic
    BY <1>1 DEF SessionType
  <2>2. Known(t, b \notin outdated')
    BY <1>1, <1>4, <2>1 DEF Known, HasUser
  <2>3. contacts' \in [Contact -> User \cup {NoName}]
    BY <1>3, <1>4
  <2> QED
    BY <1>1, <1>4, <2>1, <2>2, <2>3, Answered DEF TypeOK
<1>5. ASSUME HasUser(s), s.synthetic, NEW n \in User,
             contacts' = [contacts EXCEPT ![s.user.contact] = n],
             session' = [session EXCEPT ![b].user.name = n],
             Continue(b, "versioning", [s.user EXCEPT !.name = n]), UNCHANGED op
      PROVE  Inv'
  <2> DEFINE user == [s.user EXCEPT !.name = n]
  <2>1. /\ user \in UserType /\ user.name = n /\ user.contact = s.user.contact
        /\ s.user.contact \in Contact /\ contacts' \in [Contact -> User \cup {NoName}]
    BY <1>1, <1>3, <1>5 DEF SessionType, UserType
  <2>2. "versioning" \in Label
    BY DEF Label
  <2>3. /\ pc' \in [Browser -> Label] /\ buf' \in [Browser -> UserType]
        /\ pc'[b] = "versioning" /\ buf'[b] = user
        /\ \A d \in Browser \ {b} : pc'[d] = pc[d] /\ buf'[d] = buf[d]
    BY <1>1, <1>5, <2>1, <2>2, ContinueFacts
  <2>4. session' = [session EXCEPT ![b] = [s EXCEPT !.user = user]]
    BY <1>1, <1>5 DEF TypeOK, SessionType
  <2>5. /\ [s EXCEPT !.user = user] \in SessionType
        /\ [s EXCEPT !.user = user].user = user
        /\ [s EXCEPT !.user = user].synthetic = s.synthetic
        /\ [s EXCEPT !.user = user].regChallenge = s.regChallenge
    BY <1>1, <2>1 DEF SessionType
  <2>6. /\ session' \in [Browser -> SessionType] /\ session'[b].user = user
        /\ session'[b].synthetic /\ ~session'[b].regChallenge
        /\ \A d \in Browser \ {b} : session'[d] = session[d]
    BY <1>1, <1>5, <2>4, <2>5 DEF TypeOK, Known
  <2>7. TypeOK'
    BY <1>1, <1>5, <2>1, <2>3, <2>6 DEF TypeOK
  <2>8. Others(b)
    BY <1>1, <1>5, <2>3, <2>6 DEF Others
  <2>9. BrowserOK(b)'
    BY <2>1, <2>3, <2>6 DEF BrowserOK, Places, SessionOK, Registers, Fresh
  <2> QED
    BY <1>1, <2>3, <2>7, <2>8, <2>9, Unwritten
<1>6. CASE \E n \in IF s.synthetic THEN User ELSE {s.user.name} :
             /\ HasUser(s)
             /\ contacts' = [contacts EXCEPT ![s.user.contact] = n]
             /\ IF s.synthetic
                THEN /\ session' = [session EXCEPT ![b].user.name = n]
                     /\ Continue(b, "versioning", [s.user EXCEPT !.name = n])
                     /\ UNCHANGED op
                ELSE Answer(b, [s EXCEPT !.regChallenge = TRUE])
  <2>1. CASE s.synthetic
    BY <1>5, <1>6, <2>1
  <2>2. CASE ~s.synthetic
    BY <1>4, <1>6, <2>2
  <2> QED
    BY <2>1, <2>2
<1> QED
  BY <1>2, <1>6 DEF Options, UpsertContact

LEMMA TakenInv ==
  ASSUME Inv, NEW b \in Browser, pc[b] \in {"versioning", "create"}, Taken(b)
  PROVE  Inv'
<1>1. TypeOK /\ session[b] \in SessionType
  BY DEF Inv, TypeOK
<1>2. UNCHANGED <<blobs, outdated, requests, owner, page, confirmed, raced, faults>>
  BY DEF Taken, Same, Quietly
<1>3. Known(session[b], b \notin outdated')
  BY <1>2, IdleIsKnown
<1> QED
  BY <1>1, <1>2, <1>3, Answered DEF Taken, blobs, TypeOK

\* createUser goes on to its next request.
LEMMA CreatingMoves ==
  ASSUME Inv, NEW b \in Browser, pc[b] \in {"versioning", "create"},
         NEW l \in {"create", "record"}, Continue(b, l, buf[b]),
         UNCHANGED <<session, op, page, outdated>>
  PROVE  /\ pc' \in [Browser -> Label] /\ buf' \in [Browser -> UserType]
         /\ pc'[b] = l /\ buf'[b] = buf[b] /\ buf[b].name \in User
         /\ Others(b) /\ BrowserOK(b)'
<1>1. TypeOK /\ buf[b] \in UserType /\ l \in Label /\ BrowserOK(b)
  BY DEF Inv, TypeOK, Label
<1>2. /\ pc' \in [Browser -> Label] /\ buf' \in [Browser -> UserType]
      /\ pc'[b] = l /\ buf'[b] = buf[b]
      /\ \A d \in Browser \ {b} : pc'[d] = pc[d] /\ buf'[d] = buf[d]
  BY <1>1, ContinueFacts
<1>3. Others(b)
  BY <1>2 DEF Others
<1>4. BrowserOK(b)'
  BY <1>1, <1>2 DEF BrowserOK, Places, SessionOK, Registers, Fresh, HasUser
<1> QED
  BY <1>1, <1>2, <1>3, <1>4 DEF BrowserOK, Places

LEMMA CheckBucketInv ==
  ASSUME Inv, NEW b \in Browser, CheckBucket(b)
  PROVE  Inv'
<1>1. CASE Taken(b)
  BY <1>1, TakenInv DEF CheckBucket
<1>2. CASE ~Taken(b)
  <2>1. /\ pc[b] = "versioning" /\ Continue(b, "create", buf[b])
        /\ UNCHANGED <<blobs, session, op, outdated, requests, owner, page, confirmed, raced, faults>>
    BY <1>2 DEF CheckBucket, Same, Quietly
  <2>2. /\ pc' \in [Browser -> Label] /\ buf' \in [Browser -> UserType]
        /\ pc'[b] = "create" /\ Others(b) /\ BrowserOK(b)'
    BY <2>1, CreatingMoves
  <2>3. TypeOK'
    BY <2>1, <2>2 DEF Inv, TypeOK, blobs
  <2> QED
    BY <2>1, <2>2, <2>3, Unwritten DEF blobs
<1> QED
  BY <1>1, <1>2

LEMMA CreateBucketInv ==
  ASSUME Inv, NEW b \in Browser, CreateBucket(b)
  PROVE  Inv'
<1> DEFINE n == buf[b].name
<1>1. CASE Taken(b)
  BY <1>1, TakenInv DEF CreateBucket
<1>2. CASE ~Taken(b)
  <2>1. /\ pc[b] = "create" /\ account[n].state = "none" /\ Continue(b, "record", buf[b])
        /\ account' = [account EXCEPT ![n].state = "bucket"]
        /\ UNCHANGED <<invites, contacts, session, op, outdated, requests, owner, page,
                       confirmed, raced, faults>>
    BY <1>2 DEF CreateBucket, Same, Quietly, Exists
  <2>2. /\ pc' \in [Browser -> Label] /\ buf' \in [Browser -> UserType]
        /\ pc'[b] = "record" /\ buf'[b] = buf[b] /\ n \in User /\ Others(b)
    BY <2>1, CreatingMoves
  <2>3. /\ BrowserOK(b)'
    BY <2>1, CreatingMoves
  <2>4. /\ account'[n].state = "bucket" /\ account'[n].keys = account[n].keys
        /\ \A m \in User \ {n} : account'[m] = account[m]
        /\ account' \in [User -> [state : {"none", "bucket", "user"},
                                  contact : Contact \cup {NoContact}, keys : SUBSET Passkey]]
    <3> DEFINE Record == [state : {"none", "bucket", "user"},
                          contact : Contact \cup {NoContact}, keys : SUBSET Passkey]
               bucket == [account[n] EXCEPT !.state = "bucket"]
    <3>1. account \in [User -> Record] /\ account[n] \in Record
      BY <2>2 DEF Inv, TypeOK
    <3>2. bucket \in Record /\ bucket.state = "bucket" /\ bucket.keys = account[n].keys
      BY <3>1
    <3>3. account' = [account EXCEPT ![n] = bucket]
      BY <2>1, <2>2, <3>1
    <3> HIDE DEF Record, bucket
    <3>4. /\ account' \in [User -> Record] /\ account'[n] = bucket
          /\ \A m \in User \ {n} : account'[m] = account[m]
      BY <2>2, <3>1, <3>2, <3>3
    <3> QED
      BY <3>2, <3>4 DEF Record
  <2>5. TypeOK'
    BY <2>1, <2>2, <2>4 DEF Inv, TypeOK
  <2>6. BlobsOK'
    BY <2>1, <2>4 DEF Inv, BlobsOK
  <2>7. \A d \in Browser : ~Creates(d, n)
    BY <2>1, <2>2 DEF Inv, OneCreator
  <2>8. OneCreator'
    <3>1. \A d \in Browser \ {b}, m \in User : Creates(d, m)' <=> Creates(d, m)
      BY <2>2 DEF Creates, Others
    <3>2. \A m \in User : Creates(b, m)' <=> m = n
      BY <2>2 DEF Creates
    <3>3. \A m \in User : ~Creates(b, m)
      BY <2>1 DEF Creates
    <3> QED
      BY <2>1, <2>2, <2>4, <2>7, <3>1, <3>2, <3>3 DEF Inv, OneCreator
  <2>9. ConfirmedOK'
    BY <2>1, <2>2, <2>4 DEF Inv, ConfirmedOK
  <2> QED
    BY <2>1, <2>2, <2>3, <2>4, <2>5, <2>6, <2>8, <2>9, Compose
<1> QED
  BY <1>1, <1>2

\* The record of a user is written from the handler's memory.
LEMMA PutFacts ==
  ASSUME Inv, NEW b \in Browser, pc[b] \in {"record", "write"}, Put(b, buf[b])
  PROVE  /\ buf[b].name \in User /\ buf[b].contact \in Contact /\ buf[b] \in UserType
         /\ account' \in [User -> [state : {"none", "bucket", "user"},
                                   contact : Contact \cup {NoContact}, keys : SUBSET Passkey]]
         /\ account'[buf[b].name].state = "user"
         /\ account'[buf[b].name].contact = buf[b].contact
         /\ account'[buf[b].name].keys = buf[b].keys
         /\ \A n \in User \ {buf[b].name} : account'[n] = account[n]
         /\ outdated' \subseteq Browser /\ outdated \ {b} \subseteq outdated'
         /\ \A d \in Browser \ {b} :
              buf[b].name \in {session[d].user.name, buf[d].name} => d \in outdated'
<1>1. TypeOK /\ buf[b].name \in User /\ buf[b].contact \in Contact /\ buf[b] \in UserType
  BY DEF Inv, TypeOK, BrowserOK, Places
<1>2. buf[b].keys \subseteq Passkey
  BY <1>1 DEF UserType
<1> DEFINE record == [state |-> "user", contact |-> buf[b].contact, keys |-> buf[b].keys]
           Record == [state : {"none", "bucket", "user"},
                      contact : Contact \cup {NoContact}, keys : SUBSET Passkey]
<1>3. record \in Record
  BY <1>1, <1>2
<1>4. account \in [User -> Record] /\ account' = [account EXCEPT ![buf[b].name] = record]
  BY <1>1 DEF TypeOK, Put
<1> HIDE DEF record, Record
<1>5. /\ account' \in [User -> Record] /\ account'[buf[b].name] = record
      /\ \A n \in User \ {buf[b].name} : account'[n] = account[n]
  BY <1>1, <1>3, <1>4
<1> QED
  BY <1>1, <1>5 DEF record, Record, Put, TypeOK

\* A handler writes the record and answers; if s has a user, it is the written one.
LEMMA Written ==
  ASSUME Inv, NEW b \in Browser, NEW s \in SessionType, Answer(b, s),
         pc[b] \in {"record", "write"}, Put(b, buf[b]),
         s.regChallenge => HasUser(s) /\ ~s.synthetic,
         HasUser(s) /\ ~s.synthetic => s.user = buf[b],
         confirmed' \subseteq Passkey, raced' \subseteq User, requests' \in Nat, faults' \in Nat,
         faults > 0 => faults' > 0, ConfirmedOK',
         UNCHANGED <<invites, contacts, owner, page>>
  PROVE  Inv'
<1> DEFINE n == buf[b].name
<1>1. /\ TypeOK /\ n \in User /\ account'[n].state = "user" /\ account'[n].contact = buf[b].contact
      /\ buf[b].contact \in Contact /\ account'[n].keys = buf[b].keys
      /\ \A m \in User \ {n} : account'[m] = account[m]
      /\ outdated \ {b} \subseteq outdated'
      /\ \A d \in Browser \ {b} : n \in {session[d].user.name, buf[d].name} => d \in outdated'
  BY PutFacts DEF Inv
<1>2. /\ session' \in [Browser -> SessionType] /\ pc' \in [Browser -> Label]
      /\ op' \in [Browser -> {"none", "register", "login", "oauth"}]
      /\ buf' \in [Browser -> UserType]
      /\ session'[b] = s /\ pc'[b] = "idle" /\ Others(b)
  BY <1>1, AnswerFacts
<1>3. TypeOK'
  BY <1>1, <1>2, PutFacts DEF TypeOK
<1>4. BrowserOK(b)'
  <2>1. Known(session[b], b \notin outdated)'
    BY <1>1, <1>2 DEF Known, HasUser
  <2> QED
    BY <1>2, <2>1, KnownIsOK
<1>5. BlobsOK'
  BY <1>1 DEF Inv, BlobsOK
<1>6. OneCreator'
  <2>1. \A d \in Browser \ {b}, m \in User : Creates(d, m)' <=> Creates(d, m)
    BY <1>2 DEF Creates, Others
  <2>2. \A m \in User : ~Creates(b, m)'
    BY <1>2 DEF Creates
  <2>3. \A d \in Browser \ {b} : ~Creates(d, n)
    <3>1. CASE pc[b] = "record"
      BY <1>1, <3>1 DEF Inv, OneCreator, Creates
    <3>2. CASE pc[b] = "write"
      BY <1>1, <3>2 DEF Inv, OneCreator, BrowserOK, Places
    <3> QED
      BY <3>1, <3>2
  <2>4. \A m \in User \ {n} : ~Creates(b, m)
    BY DEF Creates
  <2> QED
    BY <1>1, <2>1, <2>2, <2>3, <2>4 DEF Inv, OneCreator
<1> QED
  BY <1>1, <1>2, <1>3, <1>4, <1>5, <1>6, Compose

\* A write keeps the confirmed passkeys unless its copy is out of date.
LEMMA WrittenKeys ==
  ASSUME Inv, NEW b \in Browser, pc[b] \in {"record", "write"}, Put(b, buf[b]),
         raced \subseteq raced',
         pc[b] = "write" /\ b \in outdated => buf[b].name \in raced' \/ account' = account
  PROVE  \A p \in confirmed : owner[p] \in raced' \/ p \in account'[owner[p]].keys
<1> DEFINE n == buf[b].name
<1>1. /\ n \in User /\ account'[n].keys = buf[b].keys
      /\ \A m \in User \ {n} : account'[m] = account[m]
  BY PutFacts
<1>2. n \in raced' \/ account[n].keys \subseteq buf[b].keys
  <2>1. CASE pc[b] = "record"
    <3>1. account[n].state = "bucket"
      BY <1>1, <2>1 DEF Inv, OneCreator, Creates
    <3> QED
      BY <1>1, <3>1 DEF Inv, BlobsOK
  <2>2. CASE pc[b] = "write" /\ b \in outdated
    BY <1>1, <2>2
  <2>3. CASE pc[b] = "write" /\ b \notin outdated
    BY <2>3 DEF Inv, BrowserOK, Fresh
  <2> QED
    BY <2>1, <2>2, <2>3
<1> QED
  BY <1>1, <1>2 DEF Inv, ConfirmedOK

LEMMA CreateRecordInv ==
  ASSUME Inv, NEW b \in Browser, CreateRecord(b)
  PROVE  Inv'
<1> DEFINE s == [session[b] EXCEPT !.synthetic = FALSE, !.regChallenge = TRUE]
<1>1. /\ TypeOK /\ pc[b] = "record" /\ session[b] \in SessionType /\ session[b].user = buf[b]
      /\ Put(b, buf[b]) /\ Answer(b, s)
      /\ UNCHANGED <<invites, contacts, requests, owner, page, confirmed, raced, faults>>
  BY DEF Inv, TypeOK, CreateRecord, BrowserOK, Places, Same, Quietly
<1>2. s \in SessionType /\ s.user = buf[b] /\ ~s.synthetic
  BY <1>1 DEF SessionType
<1>3. HasUser(s)
  BY <1>1, <1>2, PutFacts, Values DEF HasUser
<1>4. \A p \in confirmed : owner[p] \in raced \/ p \in account'[owner[p]].keys
  BY <1>1, WrittenKeys
<1>5. ConfirmedOK'
  BY <1>1, <1>4 DEF Inv, ConfirmedOK
<1> HIDE DEF s
<1> QED
  BY <1>1, <1>2, <1>3, <1>5, Written DEF TypeOK

-----------------------------------------------------------------------------
(* Passkeys and logins.                                                    *)

LEMMA VerifyRegistrationInv ==
  ASSUME Inv, NEW b \in Browser, VerifyRegistration(b)
  PROVE  Inv'
<1> DEFINE s == session[b]
<1>1. /\ TypeOK /\ pc[b] = "idle" /\ s \in SessionType /\ requests' \in Nat /\ s.regChallenge
      /\ page[b] \in Invite /\ Gone(page[b]) /\ Known(s, b \notin outdated)
      /\ UNCHANGED <<contacts, account, page, confirmed, outdated, raced, faults>>
  BY IdleIsKnown DEF Inv, VerifyRegistration, Receive, TypeOK, history
<1>2. CASE Answer(b, Cleared(s)) /\ UNCHANGED owner
  BY <1>1, <1>2, ClearedIsKnown, Answered DEF TypeOK
<1>3. ASSUME NEW p \in Passkey, owner[p] = NoName,
             owner' = [owner EXCEPT ![p] = s.user.name],
             Continue(b, "write", WithKey(s.user, p)),
             op' = [op EXCEPT ![b] = "register"], UNCHANGED session
      PROVE  Inv'
  <2> DEFINE user == WithKey(s.user, p)
  <2>1. /\ HasUser(s) /\ ~s.synthetic /\ s.user \in UserType /\ s.user.name \in User
        /\ account[s.user.name].state = "user"
        /\ b \notin outdated => account[s.user.name].keys \subseteq s.user.keys
    BY <1>1 DEF Known, SessionType
  <2>2. /\ user \in UserType /\ user.name = s.user.name /\ user.contact = s.user.contact
        /\ user.keys = s.user.keys \cup {p}
    BY <1>3, <2>1 DEF WithKey, UserType
  <2>3. "write" \in Label /\ user.contact \in Contact
    BY <2>1, <2>2 DEF Label, HasUser, UserType
  <2> HIDE DEF user
  <2>4. /\ pc' \in [Browser -> Label] /\ buf' \in [Browser -> UserType]
        /\ pc'[b] = "write" /\ buf'[b] = user
        /\ \A d \in Browser \ {b} : pc'[d] = pc[d] /\ buf'[d] = buf[d]
    BY <1>1, <1>3, <2>2, <2>3, ContinueFacts DEF user
  <2>5. /\ owner' \in [Passkey -> User \cup {NoName}] /\ owner'[p] = s.user.name
        /\ \A q \in Passkey : owner[q] # NoName => owner'[q] = owner[q]
    BY <1>1, <1>3, <2>1 DEF TypeOK
  <2>6. /\ op' \in [Browser -> {"none", "register", "login", "oauth"}] /\ op'[b] = "register"
        /\ \A d \in Browser \ {b} : op'[d] = op[d]
    BY <1>1, <1>3 DEF TypeOK
  <2>7. /\ invites' \in [Invite -> [state : {"unsent", "open", "gone"},
                             contact : Contact \cup {NoContact}, name : User \cup {NoName}]]
        /\ \A i \in Invite : invites'[i] = invites[i] \/ invites'[i].state = "gone"
    BY <1>1, GoneFacts
  <2>8. TypeOK'
    BY <1>1, <1>3, <2>4, <2>5, <2>6, <2>7 DEF TypeOK
  <2>9. Others(b)
    BY <1>1, <1>3, <2>4, <2>6 DEF Others
  <2>10. BrowserOK(b)'
    <3>1. session'[b] = s
      BY <1>3
    <3> QED
      BY <1>1, <2>1, <2>2, <2>3, <2>4, <2>5, <2>6, <3>1
         DEF BrowserOK, Places, SessionOK, Registers, Fresh, HasUser
  <2> QED
    BY <1>1, <2>4, <2>5, <2>7, <2>8, <2>9, <2>10, Unwritten
<1> QED
  BY <1>2, <1>3 DEF VerifyRegistration

LEMMA VerifyPasskeyInv ==
  ASSUME Inv, NEW b \in Browser, NEW p \in Passkey, NEW n \in User \cup {NoName},
         NEW o \in {"login", "oauth"}, pc[b] = "idle", requests' \in Nat,
         VerifyPasskey(b, p, n, o)
  PROVE  Inv'
<1>1. /\ TypeOK /\ BlobsOK /\ outdated' = outdated \ {b}
      /\ UNCHANGED <<blobs, owner, page, confirmed, raced, faults>>
  BY DEF Inv, VerifyPasskey, Same, Quietly
<1>2. CASE n # NoName /\ account[n].state = "user" /\ p \in account[n].keys
  <2>1. /\ n \in User /\ Continue(b, "write", UserOf(n))
        /\ op' = [op EXCEPT ![b] = o] /\ UNCHANGED session
    BY <1>2 DEF VerifyPasskey
  <2>2. /\ UserOf(n) \in UserType /\ UserOf(n).name = n /\ UserOf(n).contact = account[n].contact
        /\ UserOf(n).keys = account[n].keys
    BY <1>1, <2>1, UserIsTyped
  <2>3. "write" \in Label /\ account[n].contact \in Contact
    BY <1>1, <1>2, <2>1 DEF Label, BlobsOK
  <2>4. /\ pc' \in [Browser -> Label] /\ buf' \in [Browser -> UserType]
        /\ pc'[b] = "write" /\ buf'[b] = UserOf(n)
        /\ \A d \in Browser \ {b} : pc'[d] = pc[d] /\ buf'[d] = buf[d]
    BY <1>1, <2>1, <2>2, <2>3, ContinueFacts
  <2>5. /\ op' \in [Browser -> {"none", "register", "login", "oauth"}]
        /\ op'[b] # "register" /\ \A d \in Browser \ {b} : op'[d] = op[d]
    BY <1>1, <2>1 DEF TypeOK
  <2>6. TypeOK'
    BY <1>1, <2>1, <2>4, <2>5 DEF TypeOK, blobs
  <2>7. Others(b)
    BY <1>1, <2>1, <2>4, <2>5 DEF Others
  <2>8. BrowserOK(b)'
    <3>1. SessionOK(b)
      BY DEF Inv, BrowserOK
    <3> QED
      BY <1>1, <1>2, <2>1, <2>2, <2>3, <2>4, <2>5, <3>1
         DEF BrowserOK, Places, SessionOK, Registers, Fresh, HasUser, blobs
  <2> QED
    BY <1>1, <2>4, <2>6, <2>7, <2>8, Unwritten DEF blobs
<1>3. CASE ~(n # NoName /\ account[n].state = "user" /\ p \in account[n].keys)
  <2>1. Answer(b, Cleared(session[b]))
    BY <1>3 DEF VerifyPasskey
  <2> QED
    BY <1>1, <2>1, ClearedIsKnown, Answered DEF blobs, TypeOK
<1> QED
  BY <1>2, <1>3

LEMMA LoginInv ==
  ASSUME Inv, NEW b \in Browser, NEW p \in Passkey, Login(b, p)
  PROVE  Inv'
<1>1. PICK n \in {owner[p], session[b].user.name} : VerifyPasskey(b, p, n, "login")
  BY DEF Login
<1>2. n \in User \cup {NoName} /\ pc[b] = "idle" /\ requests' \in Nat
  BY <1>1 DEF Inv, TypeOK, Login, Receive, SessionType, UserType
<1> QED
  BY <1>1, <1>2, VerifyPasskeyInv

LEMMA OauthInv ==
  ASSUME Inv, NEW b \in Browser, NEW p \in Passkey, Oauth(b, p)
  PROVE  Inv'
<1>1. /\ session[b].oauth \in User \cup {NoName} /\ pc[b] = "idle" /\ requests' \in Nat
      /\ VerifyPasskey(b, p, session[b].oauth, "oauth")
  BY DEF Inv, TypeOK, Oauth, Receive, SessionType
<1> QED
  BY <1>1, VerifyPasskeyInv

\* An idle browser's session, but for challenges of logins.
LEMMA StillKnown ==
  ASSUME Inv, NEW b \in Browser, pc[b] = "idle", NEW n \in User \cup {NoName}
  PROVE  LET s == session[b] IN
         /\ s \in SessionType /\ Known(s, b \notin outdated)
         /\ [s EXCEPT !.loginChallenge = TRUE] \in SessionType
         /\ Known([s EXCEPT !.loginChallenge = TRUE], b \notin outdated)
         /\ [s EXCEPT !.oauth = n] \in SessionType
         /\ Known([s EXCEPT !.oauth = n], b \notin outdated)
<1> DEFINE s == session[b]
<1>1. s \in SessionType /\ Known(s, b \notin outdated)
  BY IdleIsKnown DEF Inv, TypeOK
<1>2. [s EXCEPT !.loginChallenge = TRUE] \in SessionType /\ [s EXCEPT !.oauth = n] \in SessionType
  BY <1>1 DEF SessionType
<1>3. /\ Known([s EXCEPT !.loginChallenge = TRUE], b \notin outdated)
      /\ Known([s EXCEPT !.oauth = n], b \notin outdated)
  BY <1>1 DEF Known, SessionType, HasUser
<1> QED
  BY <1>1, <1>2, <1>3

LEMMA LoginPageInv ==
  ASSUME Inv, NEW b \in Browser, LoginPage(b)
  PROVE  Inv'
<1> DEFINE s == IF HasUser(session[b]) THEN session[b] ELSE Cleared(session[b])
           t == [s EXCEPT !.loginChallenge = TRUE]
<1>1. /\ TypeOK /\ pc[b] = "idle" /\ requests' \in Nat /\ Answer(b, t)
      /\ page' = page \/ Elsewhere(b)
      /\ UNCHANGED <<blobs, outdated, owner, confirmed, raced, faults>>
  BY DEF Inv, TypeOK, LoginPage, Receive, Quietly
<1>2. t \in SessionType /\ Known(t, b \notin outdated)
  <2>1. CASE HasUser(session[b])
    BY <1>1, <2>1, StillKnown
  <2>2. CASE ~HasUser(session[b])
    <3>1. t = [NoSession EXCEPT !.loginChallenge = TRUE]
      BY <2>2 DEF Cleared
    <3>2. t \in SessionType /\ t.user = Nobody /\ ~t.regChallenge
      BY <3>1, Values DEF SessionType
    <3> QED
      BY <3>2, Values DEF Known, HasUser
  <2> QED
    BY <2>1, <2>2
<1> HIDE DEF t
<1> QED
  BY <1>1, <1>2, Answered DEF blobs, TypeOK

LEMMA OauthPageInv ==
  ASSUME Inv, NEW b \in Browser, NEW n \in User, OauthPage(b, n)
  PROVE  Inv'
<1> DEFINE s == session[b]
<1>1. /\ TypeOK /\ pc[b] = "idle" /\ requests' \in Nat
      /\ page' = page \/ Elsewhere(b)
      /\ UNCHANGED <<blobs, outdated, owner, confirmed, raced, faults>>
  BY DEF Inv, TypeOK, OauthPage, Receive, Quietly
<1>2. CASE Answer(b, [s EXCEPT !.oauth = n])
  BY <1>1, <1>2, StillKnown, Answered DEF blobs, TypeOK
<1>3. CASE Answer(b, Cleared(s))
  BY <1>1, <1>3, ClearedIsKnown, Answered DEF blobs, TypeOK
<1> QED
  BY <1>2, <1>3 DEF OauthPage

LEMMA AccountPageInv ==
  ASSUME Inv, NEW b \in Browser, AccountPage(b)
  PROVE  Inv'
<1> DEFINE s == session[b]
           n == s.user.name
           t == [s EXCEPT !.user = UserOf(n)]
<1>1. /\ TypeOK /\ BlobsOK /\ pc[b] = "idle" /\ requests' \in Nat
      /\ page' = page \/ Elsewhere(b)
      /\ UNCHANGED <<blobs, owner, confirmed, raced, faults>>
  BY DEF Inv, TypeOK, AccountPage, Receive, Quietly
<1>2. s \in SessionType /\ Known(s, b \notin outdated)
  BY <1>1, StillKnown
<1>3. CASE n = NoName
  BY <1>1, <1>3, ClearedIsKnown, Answered DEF AccountPage, blobs, TypeOK
<1>4. CASE n # NoName /\ account[n].state = "user"
  <2>1. Answer(b, t) /\ outdated' = outdated \ {b} /\ n \in User
    BY <1>2, <1>4 DEF AccountPage, SessionType, UserType
  <2>2. /\ UserOf(n) \in UserType /\ UserOf(n).name = n /\ UserOf(n).keys = account[n].keys
        /\ UserOf(n).contact = account[n].contact
    BY <1>1, <2>1, UserIsTyped
  <2>3. /\ t \in SessionType /\ t.user = UserOf(n)
        /\ t.regChallenge = s.regChallenge /\ t.synthetic = s.synthetic
    BY <1>2, <2>2 DEF SessionType
  <2>4. HasUser(t)
    BY <1>1, <1>4, <2>1, <2>2, <2>3, Values DEF HasUser, BlobsOK
  <2>5. Known(t, b \notin outdated')
    BY <1>2, <1>4, <2>1, <2>2, <2>3, <2>4 DEF Known
  <2> HIDE DEF t
  <2> QED
    BY <1>1, <2>1, <2>3, <2>5, Answered DEF blobs, TypeOK
<1>5. CASE n # NoName /\ account[n].state # "user"
  BY <1>1, <1>2, <1>5, Answered DEF AccountPage, blobs, TypeOK
<1> QED
  BY <1>3, <1>4, <1>5

LEMMA LogoutInv ==
  ASSUME Inv, NEW b \in Browser, Logout(b)
  PROVE  Inv'
<1>1. /\ TypeOK /\ pc[b] = "idle" /\ requests' \in Nat /\ Answer(b, NoSession)
      /\ page' = page \/ Elsewhere(b)
      /\ UNCHANGED <<blobs, outdated, owner, confirmed, raced, faults>>
  BY DEF Inv, TypeOK, Logout, Receive, Quietly
<1>2. NoSession \in SessionType /\ Known(NoSession, b \notin outdated')
  BY Values DEF Known, HasUser
<1> QED
  BY <1>1, <1>2, Answered DEF blobs, TypeOK

LEMMA AfterwardsIsTyped ==
  ASSUME Inv, NEW b \in Browser, pc[b] = "write"
  PROVE  LET s == Afterwards(b) IN
         /\ s \in SessionType
         /\ s.regChallenge => HasUser(s) /\ ~s.synthetic
         /\ HasUser(s) /\ ~s.synthetic => s.user = buf[b]
<1>1. session[b] \in SessionType /\ buf[b] \in UserType /\ buf[b].contact \in Contact
  BY DEF Inv, TypeOK, BrowserOK, Places
<1>2. CASE op[b] = "register"
  <2> DEFINE s == [session[b] EXCEPT !.user = buf[b], !.regChallenge = FALSE]
  <2>1. Afterwards(b) = s
    BY <1>2 DEF Afterwards
  <2>2. s \in SessionType /\ s.user = buf[b] /\ ~s.regChallenge
    BY <1>1 DEF SessionType
  <2> QED
    BY <2>1, <2>2
<1>3. CASE op[b] = "login"
  <2> DEFINE s == [NoSession EXCEPT !.user = buf[b], !.oauth = session[b].oauth]
  <2>1. Afterwards(b) = s
    BY <1>3 DEF Afterwards
  <2>2. s \in SessionType /\ s.user = buf[b] /\ ~s.regChallenge
    BY <1>1, Values DEF SessionType
  <2> QED
    BY <2>1, <2>2
<1>4. CASE op[b] \notin {"register", "login"}
  <2> DEFINE s == [NoSession EXCEPT !.oauth = session[b].oauth]
  <2>1. Afterwards(b) = s
    BY <1>4 DEF Afterwards
  <2>2. s \in SessionType /\ s.user = NoSession.user /\ ~s.regChallenge
    BY <1>1, Values DEF SessionType
  <2>3. ~HasUser(s)
    BY <2>2, Values DEF HasUser
  <2> QED
    BY <2>1, <2>2, <2>3
<1> QED
  BY <1>2, <1>3, <1>4

LEMMA UpdateUserInv ==
  ASSUME Inv, NEW b \in Browser, UpdateUser(b)
  PROVE  Inv'
<1> DEFINE n == buf[b].name
           new == buf[b].keys \ session[b].user.keys
<1>1. /\ TypeOK /\ pc[b] = "write" /\ n \in User /\ account[n].state = "user"
      /\ UNCHANGED <<invites, contacts, owner, page, requests, faults>>
      /\ buf[b].keys \subseteq Passkey /\ Exists(n)
  BY DEF Inv, TypeOK, UpdateUser, BrowserOK, Places, UserType, Exists
<1>2. /\ Put(b, buf[b]) /\ Answer(b, Afterwards(b))
      /\ confirmed' = IF op[b] = "register" THEN confirmed \cup new ELSE confirmed
      /\ raced' = IF b \in outdated THEN raced \cup {n} ELSE raced
  BY <1>1 DEF UpdateUser
<1>3. confirmed' \subseteq Passkey /\ raced' \subseteq User /\ raced \subseteq raced'
  BY <1>1, <1>2 DEF TypeOK
<1>4. \A p \in confirmed : owner[p] \in raced' \/ p \in account'[owner[p]].keys
  BY <1>1, <1>2, <1>3, WrittenKeys
<1>5. op[b] = "register" => \A p \in new : owner[p] = n /\ p \in account'[n].keys
  <2>1. account'[n].keys = buf[b].keys
    BY <1>1, <1>2, PutFacts
  <2> QED
    BY <1>1, <2>1 DEF Inv, BrowserOK, Registers
<1>6. ConfirmedOK'
  BY <1>1, <1>2, <1>4, <1>5 DEF Inv, ConfirmedOK
<1>7. LET s == Afterwards(b) IN
      /\ s \in SessionType
      /\ s.regChallenge => HasUser(s) /\ ~s.synthetic
      /\ HasUser(s) /\ ~s.synthetic => s.user = buf[b]
  BY <1>1, AfterwardsIsTyped
<1> QED
  BY <1>1, <1>2, <1>3, <1>6, <1>7, Written DEF TypeOK

-----------------------------------------------------------------------------
(* Failures.                                                               *)

LEMMA FailsInv ==
  ASSUME Inv, NEW b \in Browser, Fails(b)
  PROVE  Inv'
<1>1. /\ TypeOK /\ pc[b] # "idle" /\ faults' = faults + 1 /\ Answer(b, Cleared(session[b]))
      /\ UNCHANGED <<invites, contacts, owner, page, confirmed, requests>>
      /\ faults' \in Nat /\ faults' > 0
  BY DEF Inv, TypeOK, Fails
<1>2. /\ Cleared(session[b]) \in SessionType
      /\ Cleared(session[b]) = NoSession
  BY ClearedIsKnown DEF Cleared
<1>3. CASE UNCHANGED <<account, outdated>>
  <2>1. /\ session' \in [Browser -> SessionType] /\ pc' \in [Browser -> Label]
        /\ op' \in [Browser -> {"none", "register", "login", "oauth"}]
        /\ buf' \in [Browser -> UserType]
        /\ session'[b] = NoSession /\ pc'[b] = "idle" /\ Others(b)
    BY <1>1, <1>2, AnswerFacts
  <2>2. raced' = raced
    BY <1>3 DEF Fails
  <2>3. TypeOK'
    BY <1>1, <1>3, <2>1, <2>2 DEF TypeOK
  <2>4. BrowserOK(b)'
    <3>1. Known(session[b], b \notin outdated)'
      BY <2>1, Values DEF Known, HasUser
    <3> QED
      BY <2>1, <3>1, KnownIsOK
  <2> QED
    BY <1>1, <1>3, <2>1, <2>2, <2>3, <2>4, Unwritten
<1>4. CASE pc[b] \in {"record", "write"} /\ Exists(buf[b].name) /\ Put(b, buf[b])
  <2>1. buf[b].name \in User
    BY <1>4, PutFacts
  <2>2. /\ raced \subseteq raced' /\ raced' \subseteq User
        /\ b \in outdated => buf[b].name \in raced' \/ account' = account
    BY <1>1, <2>1 DEF Fails, TypeOK
  <2>3. \A p \in confirmed : owner[p] \in raced' \/ p \in account'[owner[p]].keys
    BY <1>4, <2>2, WrittenKeys
  <2>4. ConfirmedOK'
    BY <1>1, <2>3 DEF Inv, ConfirmedOK
  <2>5. ~NoSession.regChallenge /\ ~HasUser(NoSession)
    BY Values DEF HasUser
  <2> QED
    BY <1>1, <1>2, <1>4, <2>2, <2>4, <2>5, Written DEF TypeOK
<1> QED
  BY <1>3, <1>4 DEF Fails

LEMMA CrashInv ==
  ASSUME Inv, Crash
  PROVE  Inv'
<1>1. /\ TypeOK /\ UNCHANGED <<blobs, owner, page, confirmed, outdated, raced, requests>>
      /\ faults' \in Nat /\ faults' > 0
      /\ session' = [b \in Browser |-> NoSession] /\ pc' = [b \in Browser |-> "idle"]
      /\ op' = [b \in Browser |-> "none"] /\ buf' = [b \in Browser |-> Nobody]
  BY DEF Inv, TypeOK, Crash, history
<1>2. TypeOK'
  BY <1>1, Values DEF TypeOK, blobs, Label
<1>3. ASSUME NEW b \in Browser PROVE BrowserOK(b)'
  <2>1. session'[b] = NoSession /\ pc'[b] = "idle"
    BY <1>1
  <2>2. Known(session[b], b \notin outdated)'
    BY <2>1, Values DEF Known, HasUser
  <2> QED
    BY <2>1, <2>2, KnownIsOK
<1>4. BlobsOK' /\ ConfirmedOK'
  BY <1>1 DEF Inv, BlobsOK, ConfirmedOK, blobs
<1>5. OneCreator'
  BY <1>1 DEF OneCreator, Creates
<1> QED
  BY <1>2, <1>3, <1>4, <1>5 DEF Inv

-----------------------------------------------------------------------------
(* Theorems.                                                               *)

LEMMA NextInv == Inv /\ [Next]_vars => Inv'
<1> SUFFICES ASSUME Inv, [Next]_vars
             PROVE  Inv'
  OBVIOUS
<1>1. ASSUME NEW i \in Invite, SendInvite(i) PROVE Inv'
  BY <1>1, SendInviteInv
<1>2. ASSUME NEW b \in Browser, Request(b) PROVE Inv'
  BY <1>2, AcceptInv, CancelInviteInv, OptionsInv, VerifyRegistrationInv, LoginPageInv,
     LoginInv, OauthInv, OauthPageInv, AccountPageInv, LogoutInv DEF Request
<1>3. ASSUME NEW b \in Browser, Step(b) PROVE Inv'
  BY <1>3, AcceptExpiredInv, AcceptContactInv, AcceptUserInv, CheckBucketInv, CreateBucketInv,
     CreateRecordInv, UpdateUserInv DEF Step
<1>4. ASSUME NEW b \in Browser, Fails(b) PROVE Inv'
  BY <1>4, FailsInv
<1>5. CASE Crash
  BY <1>5, CrashInv
<1>6. CASE UNCHANGED vars
  BY <1>6 DEF Inv, TypeOK, BlobsOK, BrowserOK, Places, SessionOK, Registers, Fresh, HasUser,
     OneCreator, Creates, ConfirmedOK, vars, blobs, history
<1> QED
  BY <1>1, <1>2, <1>3, <1>4, <1>5, <1>6 DEF Next

LEMMA SpecInv == Spec => []Inv
<1> QED
  BY InitInv, NextInv, PTL DEF Spec

\* Accounts, invitations, sessions and handlers have their types.
THEOREM TypeCorrect == Spec => []TypeOK
<1>1. Inv => TypeOK
  BY DEF Inv
<1> QED
  BY <1>1, SpecInv, PTL

\* However many browsers pick a username at once, one of them creates the user,
\* and no bucket stays without a record unless something failed (createUser).
THEOREM CreatorCorrect == Spec => []OneCreator
<1>1. Inv => OneCreator
  BY DEF Inv
<1> QED
  BY <1>1, SpecInv, PTL

\* Wherever a browser went since its invite, the challenge of a registration in
\* its session belongs to a user who exists (verifyRegistration).
THEOREM ChallengeCorrect == Spec => []ChallengeHasAccount
<1>1. Inv => ChallengeHasAccount
  BY DEF Inv, BrowserOK, SessionOK, ChallengeHasAccount
<1> QED
  BY <1>1, SpecInv, PTL

\* A confirmed passkey is lost only when a copy of the record is written that
\* another write had made out of date: no fault, login, or order of pages loses
\* it otherwise (updateUser).
THEOREM ConfirmedCorrect == Spec => []ConfirmedPasskeys
<1>1. Inv => ConfirmedPasskeys
  BY DEF Inv, ConfirmedOK, ConfirmedPasskeys
<1> QED
  BY <1>1, SpecInv, PTL
=============================================================================
