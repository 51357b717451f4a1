------------------------------ MODULE Accounts ------------------------------
(***************************************************************************)
(* Accounts of the modular server: invitations, the creation of users,     *)
(* passkeys and logins (lib/routes/admin.js, login.js, oauth.js and        *)
(* account.js), over user records in S3 (createUser, getUser, updateUser   *)
(* and the admin blobs of lib/routes/S3_store_router.js).                  *)
(*                                                                         *)
(* A user is a bucket with a record, which holds the passkeys.  Every      *)
(* change reads the whole record and later writes it all: within a request *)
(* when logging in, but from one request to another, in the browser's      *)
(* session, when redeeming an invite.  There is no lock and no condition.  *)
(*                                                                         *)
(* An action is one S3 request with what its handler does until the next.  *)
(* A browser shows one page and sends its requests one after the other.    *)
(* Left out: privileges, usage counters and dates; requests for an invite  *)
(* and the bootstrap owner, who has an invite like everybody else; and     *)
(* deleteUser, which nothing in the server calls.                          *)
(***************************************************************************)
EXTENDS Naturals

CONSTANTS
  Browser,      \* browsers, each with its session
  User,         \* usernames
  Contact,      \* contact URLs
  Invite,       \* the tokens of invitations; none is made twice
  Passkey,      \* credentials; an authenticator makes none of them twice
  NoName,       \* no username
  NoContact,    \* no contact URL
  NoInvite,     \* no token
  MaxRequests,  \* bound on the requests of a behaviour
  MaxFaults     \* bound on S3 failures and crashes

ASSUME NoneAssumption == NoName \notin User /\ NoContact \notin Contact /\ NoInvite \notin Invite
ASSUME BoundAssumption == {MaxRequests, MaxFaults} \subseteq Nat

VARIABLES
  invites,   \* the blobs invites/<token>.yaml
  contacts,  \* the blobs contactUrls/<contact>.yaml: the username of a contact
  account,   \* each user's bucket and the record in it
  owner,     \* the user for whom a browser's authenticator made a passkey
  session,   \* req.session of each browser
  page,      \* the token in the address of the page that the browser shows
  pc,        \* where the handler of each browser's request is
  op,        \* what it will answer once it has written the user's record
  buf,       \* the user it has in memory
  confirmed, \* passkeys whose registration was answered with 201
  outdated,  \* browsers with a copy of a record that was written since
  raced,     \* users whose record was written from such a copy
  requests, faults  \* how much of the bounds is used

blobs == <<invites, contacts, account>>
history == <<confirmed, outdated, raced>>
vars == <<blobs, owner, session, page, pc, op, buf, history, requests, faults>>

-----------------------------------------------------------------------------
(* Users and sessions.                                                     *)

Nobody == [name |-> NoName, contact |-> NoContact, keys |-> {}]

\* Mutant of UserOf: the record does not tell its user's name.
Nameless(n) == [contact |-> account[n].contact, keys |-> account[n].keys]

\* A user as getUser reads it.
UserOf(n) == [name |-> n, contact |-> account[n].contact, keys |-> account[n].keys]

NoSession == [user |-> Nobody, synthetic |-> FALSE, regChallenge |-> FALSE,
              loginChallenge |-> FALSE, oauth |-> NoName]

\* Mutant of Cleared: the challenge of an abandoned registration stays.
KeepsChallenge(s) == [NoSession EXCEPT !.regChallenge = s.regChallenge]

\* removeUserDataFromSession
Cleared(s) == NoSession

\* session.user is set.
HasUser(s) == s.user.contact # NoContact

Init ==
  /\ invites = [i \in Invite |-> [state |-> "unsent", contact |-> NoContact, name |-> NoName]]
  /\ contacts = [k \in Contact |-> NoName]
  /\ account = [n \in User |-> [state |-> "none", contact |-> NoContact, keys |-> {}]]
  /\ owner = [p \in Passkey |-> NoName]
  /\ session = [b \in Browser |-> NoSession]
  /\ page = [b \in Browser |-> NoInvite]
  /\ pc = [b \in Browser |-> "idle"]
  /\ op = [b \in Browser |-> "none"]
  /\ buf = [b \in Browser |-> Nobody]
  /\ confirmed = {}
  /\ outdated = {}
  /\ raced = {}
  /\ requests = 0
  /\ faults = 0

\* A request comes in and its first S3 request takes effect.  If that fails, the
\* session is cleared as by Logout, or stays.
Receive(b) ==
  /\ pc[b] = "idle"
  /\ requests < MaxRequests
  /\ requests' = requests + 1

Continue(b, l, user) ==
  /\ pc' = [pc EXCEPT ![b] = l]
  /\ buf' = [buf EXCEPT ![b] = user]

\* The response is sent and the session saved.  A request without the challenge
\* that it needs is answered at once and changes nothing.
Answer(b, s) ==
  /\ session' = [session EXCEPT ![b] = s]
  /\ pc' = [pc EXCEPT ![b] = "idle"]
  /\ op' = [op EXCEPT ![b] = "none"]
  /\ buf' = [buf EXCEPT ![b] = Nobody]

Quietly == UNCHANGED <<owner, confirmed, raced, faults>>

Same == Quietly /\ UNCHANGED page

\* The browser shows a page that is not an invite's.
Elsewhere(b) == page' = [page EXCEPT ![b] = NoInvite]

-----------------------------------------------------------------------------
(* Invitations.                                                            *)

\* generateInviteURL, for a user, or for a contact who may pick a name.
SendInvite(i) ==
  /\ invites[i].state = "unsent"
  /\ \E k \in Contact, n \in User \cup {NoName} :
       invites' = [invites EXCEPT ![i] = [state |-> "open", contact |-> k, name |-> n]]
  /\ UNCHANGED <<contacts, account, owner, session, page, pc, op, buf, history, requests, faults>>

Gone(i) == invites' = [invites EXCEPT ![i].state = "gone"]

UpsertContact(k, n) == contacts' = [contacts EXCEPT ![k] = n]

\* GET /admin/acceptInvite: loadAdmin reads the invite.
Accept(b, i) ==
  /\ Receive(b)
  /\ invites[i].state # "unsent"
  /\ page' = [page EXCEPT ![b] = i]
  /\ \/ /\ invites[i].state = "open"
        /\ \E l \in {"contact", "expired"} :
             Continue(b, l, [Nobody EXCEPT !.name = invites[i].name, !.contact = invites[i].contact])
        /\ session' = [session EXCEPT ![b] = Cleared(@)]
        /\ UNCHANGED op
     \/ invites[i].state = "gone" /\ Answer(b, Cleared(session[b]))
  /\ UNCHANGED <<blobs, owner, history, faults>>

AcceptExpired(b) ==
  /\ pc[b] = "expired"
  /\ Gone(page[b])
  /\ Answer(b, Cleared(session[b]))
  /\ UNCHANGED <<contacts, account, outdated, requests>> /\ Same

\* A user that does not exist yet, made up from the invite.
Synthetic(b, user) ==
  Answer(b, [session[b] EXCEPT !.user = user, !.synthetic = TRUE])

\* The contact's username is written if the invite has one, and read if not.
AcceptContact(b) ==
  LET k == buf[b].contact
      name == IF buf[b].name = NoName THEN contacts[k] ELSE buf[b].name
      user == [buf[b] EXCEPT !.name = name]
  IN  /\ pc[b] = "contact"
      /\ UpsertContact(k, name)
      /\ IF name = NoName THEN Synthetic(b, user)
         ELSE Continue(b, "user", user) /\ UNCHANGED <<session, op>>
      /\ UNCHANGED <<invites, account, outdated, requests>> /\ Same

\* A bucket without a record is an error, no bucket means a new user.
AcceptUser(b) ==
  LET n == buf[b].name IN
  /\ pc[b] = "user"
  /\ CASE account[n].state = "none" -> Synthetic(b, buf[b])
       [] account[n].state = "bucket" -> Answer(b, Cleared(session[b]))
       [] OTHER -> Answer(b, [session[b] EXCEPT !.user = UserOf(n)])
  /\ outdated' = outdated \ {b}
  /\ UNCHANGED <<blobs, requests>> /\ Same

\* POST /admin/cancelInvite
CancelInvite(b) ==
  /\ Receive(b)
  /\ page[b] # NoInvite
  /\ Gone(page[b])
  /\ Answer(b, Cleared(session[b]))
  /\ UNCHANGED <<contacts, account, outdated>> /\ Same

-----------------------------------------------------------------------------
(* getRegistrationOptions and createUser.                                  *)

\* The page of an invite lets a new user pick a name, and sends others' own.
Options(b) ==
  LET s == session[b] IN
  /\ Receive(b)
  /\ page[b] # NoInvite
  /\ \/ ~HasUser(s) /\ Answer(b, Cleared(s)) /\ UNCHANGED contacts
     \/ \E n \in IF s.synthetic THEN User ELSE {s.user.name} :
          /\ HasUser(s)
          /\ UpsertContact(s.user.contact, n)
          /\ IF s.synthetic
             THEN /\ session' = [session EXCEPT ![b].user.name = n]
                  /\ Continue(b, "versioning", [s.user EXCEPT !.name = n])
                  /\ UNCHANGED op
             ELSE Answer(b, [s EXCEPT !.regChallenge = TRUE])
  /\ UNCHANGED <<invites, account, outdated>> /\ Same

Exists(n) == account[n].state # "none"

\* "Username is already taken": the session stays, for another name.
Taken(b) ==
  /\ Exists(buf[b].name)
  /\ Answer(b, session[b])
  /\ UNCHANGED <<blobs, outdated, requests>> /\ Same

CheckBucket(b) ==
  /\ pc[b] = "versioning"
  /\ \/ Taken(b)
     \/ /\ ~Exists(buf[b].name)
        /\ Continue(b, "create", buf[b])
        /\ UNCHANGED <<blobs, session, op, outdated, requests>> /\ Same

\* Mutant of CreateBucket: a bucket that was made meanwhile is taken as one's own.
OwnedByYou(b) ==
  /\ pc[b] = "create"
  /\ account' = [account EXCEPT ![buf[b].name].state = "bucket"]
  /\ Continue(b, "record", buf[b])
  /\ UNCHANGED <<invites, contacts, session, op, outdated, requests>> /\ Same

CreateBucket(b) ==
  /\ pc[b] = "create"
  /\ \/ Taken(b)
     \/ /\ ~Exists(buf[b].name)
        /\ account' = [account EXCEPT ![buf[b].name].state = "bucket"]
        /\ Continue(b, "record", buf[b])
        /\ UNCHANGED <<invites, contacts, session, op, outdated, requests>> /\ Same

\* The record of user is written by b: other copies of it are out of date.
Put(b, user) ==
  /\ account' = [account EXCEPT ![user.name] =
                   [state |-> "user", contact |-> user.contact, keys |-> user.keys]]
  /\ outdated' = (outdated \ {b}) \cup
       {d \in Browser \ {b} : user.name \in {session[d].user.name, buf[d].name}}

CreateRecord(b) ==
  /\ pc[b] = "record"
  /\ Put(b, buf[b])
  /\ Answer(b, [session[b] EXCEPT !.synthetic = FALSE, !.regChallenge = TRUE])
  /\ UNCHANGED <<invites, contacts, requests>> /\ Same

-----------------------------------------------------------------------------
(* Registering a passkey, and logging in with one.                         *)

\* Mutant of WithKey: the new passkey replaces the user's others.
OnlyKey(user, p) == [user EXCEPT !.keys = {p}]

WithKey(user, p) == [user EXCEPT !.keys = @ \cup {p}]

\* POST /admin/verifyRegistration: the invite is deleted, then the response of
\* the authenticator is verified, which may fail.
VerifyRegistration(b) ==
  LET s == session[b] IN
  /\ Receive(b)
  /\ s.regChallenge /\ page[b] # NoInvite
  /\ Gone(page[b])
  /\ \/ Answer(b, Cleared(s)) /\ UNCHANGED owner
     \/ \E p \in Passkey :
          /\ owner[p] = NoName
          /\ owner' = [owner EXCEPT ![p] = s.user.name]
          /\ Continue(b, "write", WithKey(s.user, p))
          /\ op' = [op EXCEPT ![b] = "register"]
          /\ UNCHANGED session
  /\ UNCHANGED <<contacts, account, page, history, faults>>

\* The response of an authenticator that has passkey p of user n: getUser and
\* verifyCredential.  The user will be written back, with the use of p noted.
VerifyPasskey(b, p, n, o) ==
  /\ IF n # NoName /\ account[n].state = "user" /\ p \in account[n].keys
     THEN /\ Continue(b, "write", UserOf(n))
          /\ op' = [op EXCEPT ![b] = o]
          /\ UNCHANGED session
     ELSE Answer(b, Cleared(session[b]))
  /\ outdated' = outdated \ {b}
  /\ UNCHANGED blobs /\ Same

\* GET /account/login or /admin/login
LoginPage(b) ==
  LET s == IF HasUser(session[b]) THEN session[b] ELSE Cleared(session[b]) IN
  /\ Receive(b)
  /\ Answer(b, [s EXCEPT !.loginChallenge = TRUE])
  /\ Elsewhere(b)
  /\ UNCHANGED <<blobs, outdated>> /\ Quietly

\* POST verify-authentication: the user is the one the authenticator names or, if
\* it names none, the one in the session.
Login(b, p) ==
  /\ Receive(b)
  /\ session[b].loginChallenge
  /\ owner[p] # NoName
  /\ \E n \in {owner[p], session[b].user.name} : VerifyPasskey(b, p, n, "login")

\* GET /oauth/:username; the user is only read when nobody is logged in.
OauthPage(b, n) ==
  LET s == session[b] IN
  /\ Receive(b)
  /\ Answer(b, IF HasUser(s) \/ account[n].state = "user" THEN [s EXCEPT !.oauth = n]
               ELSE Cleared(s))
  /\ Elsewhere(b)
  /\ UNCHANGED <<blobs, outdated>> /\ Quietly

\* POST /oauth
Oauth(b, p) ==
  /\ Receive(b)
  /\ session[b].oauth # NoName
  /\ owner[p] # NoName
  /\ VerifyPasskey(b, p, session[b].oauth, "oauth")

\* What is left in the session when a user was written: login and OAuth start a
\* new session, and only login puts the user into it.  A granted page's parameters
\* stay: the redirect saves the session before the handler deletes them.
Afterwards(b) ==
  CASE op[b] = "register" -> [session[b] EXCEPT !.user = buf[b], !.regChallenge = FALSE]
    [] op[b] = "login" -> [NoSession EXCEPT !.user = buf[b], !.oauth = session[b].oauth]
    [] OTHER -> [NoSession EXCEPT !.oauth = session[b].oauth]

\* updateUser
UpdateUser(b) ==
  LET n == buf[b].name IN
  /\ pc[b] = "write"
  /\ IF Exists(n)
     THEN /\ Put(b, buf[b])
          /\ Answer(b, Afterwards(b))
          /\ confirmed' = IF op[b] = "register" THEN confirmed \cup (buf[b].keys \ session[b].user.keys)
                          ELSE confirmed
          /\ raced' = IF b \in outdated THEN raced \cup {n} ELSE raced
     ELSE Answer(b, Cleared(session[b])) /\ UNCHANGED <<account, history>>
  /\ UNCHANGED <<invites, contacts, owner, page, requests, faults>>

\* GET /account
AccountPage(b) ==
  LET s == session[b]
      n == s.user.name
  IN  /\ Receive(b)
      /\ IF n = NoName THEN Answer(b, Cleared(s)) /\ UNCHANGED outdated
         ELSE IF account[n].state = "user"
         THEN Answer(b, [s EXCEPT !.user = UserOf(n)]) /\ outdated' = outdated \ {b}
         ELSE Answer(b, s) /\ UNCHANGED outdated
      /\ Elsewhere(b)
      /\ UNCHANGED blobs /\ Quietly

\* GET logout, or the session expires after twenty minutes.
Logout(b) ==
  /\ Receive(b)
  /\ Answer(b, NoSession)
  /\ Elsewhere(b) \/ UNCHANGED page
  /\ UNCHANGED <<blobs, outdated>> /\ Quietly

-----------------------------------------------------------------------------
(* Failures.                                                               *)

\* An S3 request fails, or does what it should and its answer is lost.
Fails(b) ==
  /\ faults < MaxFaults
  /\ pc[b] # "idle"
  /\ faults' = faults + 1
  /\ \/ UNCHANGED <<account, outdated>>
     \/ pc[b] \in {"record", "write"} /\ Exists(buf[b].name) /\ Put(b, buf[b])
  /\ raced' = IF b \in outdated /\ account' # account THEN raced \cup {buf[b].name} ELSE raced
  /\ Answer(b, Cleared(session[b]))
  /\ UNCHANGED <<invites, contacts, owner, page, confirmed, requests>>

\* Sessions are kept in memory.
Crash ==
  /\ faults < MaxFaults
  /\ faults' = faults + 1
  /\ session' = [b \in Browser |-> NoSession]
  /\ pc' = [b \in Browser |-> "idle"]
  /\ op' = [b \in Browser |-> "none"]
  /\ buf' = [b \in Browser |-> Nobody]
  /\ UNCHANGED <<blobs, owner, page, history, requests>>

Request(b) ==
  \/ (\E i \in Invite : Accept(b, i)) \/ CancelInvite(b) \/ Options(b) \/ VerifyRegistration(b)
  \/ LoginPage(b) \/ (\E p \in Passkey : Login(b, p) \/ Oauth(b, p))
  \/ (\E n \in User : OauthPage(b, n)) \/ AccountPage(b) \/ Logout(b)

Step(b) ==
  \/ AcceptExpired(b) \/ AcceptContact(b) \/ AcceptUser(b)
  \/ CheckBucket(b) \/ CreateBucket(b) \/ CreateRecord(b) \/ UpdateUser(b)

Next ==
  \/ \E i \in Invite : SendInvite(i)
  \/ \E b \in Browser : Request(b) \/ Step(b) \/ Fails(b)
  \/ Crash

Spec == Init /\ [][Next]_vars

-----------------------------------------------------------------------------
(* Properties.                                                             *)

UserType == [name : User \cup {NoName}, contact : Contact \cup {NoContact}, keys : SUBSET Passkey]

SessionType == [user : UserType, synthetic : BOOLEAN, regChallenge : BOOLEAN,
                loginChallenge : BOOLEAN, oauth : User \cup {NoName}]

Label == {"idle", "expired", "contact", "user", "versioning", "create", "record", "write"}

\* Every variable has its type (the blobs, the sessions and the handlers).
TypeOK ==
  /\ invites \in [Invite -> [state : {"unsent", "open", "gone"},
                             contact : Contact \cup {NoContact}, name : User \cup {NoName}]]
  /\ contacts \in [Contact -> User \cup {NoName}]
  /\ account \in [User -> [state : {"none", "bucket", "user"},
                           contact : Contact \cup {NoContact}, keys : SUBSET Passkey]]
  /\ owner \in [Passkey -> User \cup {NoName}]
  /\ session \in [Browser -> SessionType]
  /\ page \in [Browser -> Invite \cup {NoInvite}]
  /\ pc \in [Browser -> Label]
  /\ op \in [Browser -> {"none", "register", "login", "oauth"}]
  /\ buf \in [Browser -> UserType]
  /\ confirmed \subseteq Passkey /\ outdated \subseteq Browser /\ raced \subseteq User
  /\ requests \in Nat /\ faults \in Nat

Creates(b, n) == pc[b] = "record" /\ buf[b].name = n

\* Two browsers that pick one username at once: one of them makes the bucket and
\* it alone writes the record, into a bucket that has none; and unless S3 failed
\* or the server crashed no bucket stays without a record (createUser and
\* allocateUserStorage, which check for the bucket before they make it).
OneCreator ==
  \A n \in User :
    /\ \A b, d \in Browser : Creates(b, n) /\ Creates(d, n) => b = d
    /\ \A b \in Browser : Creates(b, n) => account[n].state = "bucket"
    /\ account[n].state = "bucket" => faults > 0 \/ \E b \in Browser : Creates(b, n)

\* A browser with the challenge of a registration has a user in its session, who
\* exists, whichever pages it went through since the invite: verifyRegistration
\* writes that user without another look (admin.js, login.js, oauth.js).
ChallengeHasAccount ==
  \A b \in Browser : session[b].regChallenge =>
    /\ HasUser(session[b]) /\ ~session[b].synthetic
    /\ session[b].user.name \in User
    /\ account[session[b].user.name].state = "user"

\* Unless the user's record was written from a copy that another write had made
\* out of date, every passkey that was confirmed to a browser is in the record,
\* though it went through sessions, logins and faults (updateUser).
ConfirmedPasskeys ==
  \A p \in confirmed : owner[p] \in raced \/ p \in account[owner[p]].keys

\* notes/modular-server.md:146, "An invite for an existing account will allow a
\* user to create a passkey", and 148, "does not invalidate any existing
\* passkeys": a passkey that was confirmed stays in the user's record.
PasskeysStay ==
  faults = 0 => \A p \in confirmed : p \in account[owner[p]].keys
=============================================================================
