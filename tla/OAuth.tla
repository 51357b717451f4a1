------------------------------- MODULE OAuth -------------------------------
(***************************************************************************)
(* How an app gets a token from the modular server and what the token is   *)
(* good for: the authorization pages (lib/routes/oauth.js), the logins     *)
(* that share a session with them (lib/routes/login.js,                    *)
(* lib/util/updateSessionPrivileges.js), and the check of each storage     *)
(* request (lib/routes/storage_common.js).                                 *)
(*                                                                         *)
(* One browser with several tabs: browsers share no session.  A handler    *)
(* works on a copy of the session, loaded when its request comes in and    *)
(* saved as its response ends (express-session), so the handlers of two    *)
(* tabs overwrite each other's session.  What a handler does after it      *)
(* ended the response is not saved: oauth.js's removeUserDataFromSession   *)
(* and its finally block come too late.                                    *)
(*                                                                         *)
(* A request's serial number stands for the random values made for it: the *)
(* challenge of its page, the id of its new session.  Passkeys are of one  *)
(* user each; verification is that of the library.  Records' privileges    *)
(* are a constant, since nothing in the server changes them.               *)
(* Left out: rate limiting, redirection to HTTPS, ranges, and requests of  *)
(* an app that lack a parameter.  Names in scopes are taken without the    *)
(* slashes before and after them, which neither page nor token keeps.      *)
(***************************************************************************)
EXTENDS Naturals, Sequences

CONSTANTS
  Tab,          \* tabs of the browser; each waits for its answers
  App,          \* apps, by their origins
  User,         \* users
  Nobody,       \* no user
  Name,         \* names in scopes and of folders in the root
  Star,          \* the name "*"
  Public,       \* the folder name "public"
  Bad,          \* an empty segment of a path, or one of dots
  Kept,         \* Kept[n]: n without characters outside \w*: and capitals; Bad if none is left
  Level,        \* what follows the first colon of a scope; "none" if it has no colon
  Begins,       \* Begins[l]: how l, stripped like a name, begins up to the next colon
  Asked,        \* the scopes apps ask for, sequences of names with levels
  Days,         \* durations the user may grant
  Path,         \* paths of storage requests
  Privileges,   \* Privileges[u]: those in u's record
  MaxAge,       \* days after which no token is accepted ('30d')
  MaxRequests,  \* bound on the requests of a behaviour
  MaxFaults     \* bound on failures, expired sessions and restarts

ASSUME NameAssumption == /\ {Star, Public} \subseteq Name /\ Star # Public
                         /\ Bad \notin Name
                         /\ Kept \in [Name -> Name \cup {Bad}] /\ Kept[Star] = Star
ASSUME LevelAssumption == /\ {"none", "r", "rw"} \subseteq Level
                          /\ Begins \in [Level -> {"r", "rw", "other"}]
                          /\ Begins["r"] = "r" /\ Begins["rw"] = "rw"
ASSUME AskedAssumption == Asked \subseteq Seq(Name \X Level)
ASSUME PathAssumption == Path \subseteq [segs : Seq(Name \cup {Bad}), folder : BOOLEAN]
ASSUME UserAssumption ==
  /\ Nobody \notin User \cup App
  /\ Privileges \in [User -> SUBSET {"STORE", "ADMIN", "OWNER"}]
ASSUME BoundAssumption == /\ Days \subseteq Nat /\ MaxAge \in Nat
                          /\ MaxRequests \in Nat /\ MaxFaults \in Nat

VARIABLES
  store,     \* the session store: a session for each id
  live,      \* ids of the sessions in it
  cookie,    \* the session id in the browser's cookie; 0: none
  pc,        \* where the handler of each tab's request is
  serial,    \* the number of its request
  sid, sess, \* req.session: its id and the handler's copy
  op,        \* what the request presents: an OAuth request, or a credential
  page,      \* what each tab shows
  tokens,    \* the tokens that apps were sent
  allowed,   \* history: the pages on which the user pressed Allow
  valid,     \* history: the challenge of the last page, if nothing ended it
  requests, faults  \* how much of the bounds is used

sessions == <<store, live, cookie>>
handlers == <<pc, serial, sid, sess, op>>
history == <<allowed, valid>>
bounds == <<requests, faults>>
vars == <<sessions, handlers, page, tokens, history, bounds>>

-----------------------------------------------------------------------------
(* Scopes and paths.                                                       *)

Scopes(asked) == {asked[i] : i \in DOMAIN asked}

\* The access that the page names for level l: none for a level it does not know.
Displayed(l) ==
  IF l \in {"none", "rw"} THEN "rw" ELSE IF l = "r" THEN "r" ELSE "nothing"

\* parseScope and the page: each name as asked, with the level it had last.
Shown(asked) ==
  {<<asked[i][1], Displayed(asked[i][2])>> :
     i \in {j \in DOMAIN asked : \A k \in DOMAIN asked : k > j => asked[k][1] # asked[j][1]}}

\* The scopes that POST /oauth puts into the token, as checkToken reads them: the
\* name is stripped; ":rw" is added to all levels but r and rw, yet of a scope
\* that had one, the check takes what it begins with.
Granted(asked) ==
  {<<Kept[s[1]], IF s[2] = "none" THEN "rw" ELSE Begins[s[2]]>> : s \in Scopes(asked)}

\* Mutant of RequiredName: of the two segments, jwtErrors' choice.
SecondSegment(segs) ==
  LET i == IF Len(segs) >= 2 /\ segs[2] = Public THEN 3 ELSE 2
  IN  IF Len(segs) >= i THEN segs[i] ELSE Star

\* checkToken: the first folder, or the first in /public/, or "*" for the root.
RequiredName(segs) ==
  LET i == IF Len(segs) >= 1 /\ segs[1] = Public THEN 2 ELSE 1
  IN  IF Len(segs) >= i THEN segs[i] ELSE Star

RequiredLevels(method) == IF method = "GET" THEN {"r", "rw"} ELSE {"rw"}

Covers(scopes, method, segs) ==
  \E s \in scopes : s[1] \in {RequiredName(segs), Star} /\ s[2] \in RequiredLevels(method)

\* validPathParam.
ValidPath(path) == \A i \in DOMAIN path.segs : path.segs[i] # Bad

\* validWritePath too: what is answered 400.
Malformed(r) == ~ValidPath(r.path) \/ (r.method # "GET" /\ r.path.folder)

PublicDocument(r) ==
  r.method = "GET" /\ ~r.path.folder /\ Len(r.path.segs) >= 2 /\ r.path.segs[1] = Public

NoToken == [aud |-> Nobody, sub |-> Nobody, scopes |-> {}, days |-> 0]

\* The library refuses the token, for its exp or for maxAge.
Expired(k, age) == age >= k.days \/ age >= MaxAge

\* storage_common.js on a storage request r with token k, age days old: the
\* status of its answer, or 200 where the store's router takes over.
Status(k, r, age) ==
  CASE Malformed(r) -> 400
    [] ~Malformed(r) /\ PublicDocument(r) -> 200
    [] OTHER -> IF k = NoToken \/ Expired(k, age) \/ k.sub # r.user \/ k.aud # r.origin
                THEN 401
                ELSE IF Covers(k.scopes, r.method, r.path.segs) THEN 200 ELSE 403

-----------------------------------------------------------------------------
(* Sessions.                                                               *)

NoParams == [app |-> Nobody, user |-> Nobody, asked |-> <<>>, challenge |-> 0]

\* who and admins are history: the user verified last, and the users who were
\* verified at /admin/ since the session began.
NewSession == [params |-> NoParams, login |-> 0, user |-> Nobody, privileges |-> {},
               who |-> Nobody, admins |-> {}]

\* removeUserDataFromSession.
Cleared == NewSession

Blank == [kind |-> "blank", params |-> NoParams, offers |-> {}]

NoOp == [params |-> NoParams, user |-> Nobody, challenge |-> 0, at |-> "oauth",
         days |-> 0]

\* Mutant of NewPrivileges: what the session had is kept, whoever the user is.
KeepsOld(s, u, isAdminLogin) ==
  s.privileges \cup (IF isAdminLogin THEN Privileges[u] ELSE Privileges[u] \ {"ADMIN", "OWNER"})

\* updateSessionPrivileges.
NewPrivileges(s, u, isAdminLogin) ==
  (s.privileges \cap Privileges[u])
    \cup (IF isAdminLogin THEN Privileges[u] ELSE Privileges[u] \ {"ADMIN", "OWNER"})

\* Mutant of Regenerated: the regenerated session has no oauthParams.
ForgetsParams(s, u, isAdminLogin) ==
  [params |-> NoParams, login |-> 0, user |-> Nobody,
   privileges |-> NewPrivileges(s, u, isAdminLogin),
   who |-> u, admins |-> s.admins \cup (IF isAdminLogin THEN {u} ELSE {})]

\* The session that updateSessionPrivileges leaves.
Regenerated(s, u, isAdminLogin) ==
  [params |-> s.params, login |-> 0, user |-> Nobody,
   privileges |-> NewPrivileges(s, u, isAdminLogin),
   who |-> u, admins |-> s.admins \cup (IF isAdminLogin THEN {u} ELSE {})]

Init ==
  /\ store = [i \in 1..MaxRequests |-> NewSession]
  /\ live = {}
  /\ cookie = 0
  /\ pc = [t \in Tab |-> "idle"]
  /\ serial = [t \in Tab |-> 0]
  /\ sid = [t \in Tab |-> 0]
  /\ sess = [t \in Tab |-> NewSession]
  /\ op = [t \in Tab |-> NoOp]
  /\ page = [t \in Tab |-> Blank]
  /\ tokens = {}
  /\ allowed = {} /\ valid = 0
  /\ requests = 0 /\ faults = 0

\* A request of tab t: the session is loaded, or begun if there is none.  Two
\* requests at once: either's save may undo the other's.
Accept(t, r, l) ==
  /\ pc[t] = "idle"
  /\ requests < MaxRequests
  /\ requests' = requests + 1
  /\ pc' = [pc EXCEPT ![t] = l]
  /\ serial' = [serial EXCEPT ![t] = requests + 1]
  /\ sid' = [sid EXCEPT ![t] = IF cookie \in live THEN cookie ELSE requests + 1]
  /\ sess' = [sess EXCEPT ![t] = IF cookie \in live THEN store[cookie] ELSE NewSession]
  /\ op' = [op EXCEPT ![t] = r]
  /\ valid' = IF \E u \in Tab : pc[u] # "idle" THEN 0 ELSE valid
  /\ UNCHANGED <<sessions, tokens, faults>>

\* Session i is destroyed in the store; the browser's cookie may still name it.
Destroy(i) ==
  /\ store' = [j \in DOMAIN store |-> IF j = i THEN NewSession ELSE store[j]]
  /\ live' = live \ {i}

\* The response ends and session s of id i is saved.
EndAndSave(t, i, s) ==
  /\ store' = [store EXCEPT ![i] = s]
  /\ live' = live \cup {i}
  /\ cookie' = i
  /\ pc' = [pc EXCEPT ![t] = "idle"]
  /\ serial' = [serial EXCEPT ![t] = 0]
  /\ sid' = [sid EXCEPT ![t] = 0]
  /\ sess' = [sess EXCEPT ![t] = NewSession]
  /\ op' = [op EXCEPT ![t] = NoOp]

\* The response ends and the session was not changed.
EndUnsaved(t) ==
  /\ pc' = [pc EXCEPT ![t] = "idle"]
  /\ serial' = [serial EXCEPT ![t] = 0]
  /\ sid' = [sid EXCEPT ![t] = 0]
  /\ sess' = [sess EXCEPT ![t] = NewSession]
  /\ op' = [op EXCEPT ![t] = NoOp]
  /\ UNCHANGED sessions

Continue(t, l) == pc' = [pc EXCEPT ![t] = l]

Show(t, p) == page' = [page EXCEPT ![t] = p]

Fault == faults < MaxFaults /\ faults' = faults + 1

-----------------------------------------------------------------------------
(* The authorization page: GET /oauth/:username.                           *)

Open(t, app, u, asked) ==
  LET p == [app |-> app, user |-> u, asked |-> asked, challenge |-> 0]
  IN  /\ Accept(t, [NoOp EXCEPT !.params = p], "options")
      /\ UNCHANGED <<page, allowed>>

\* Mutant of Offers: of the session's user, even where there is none.
OffersOfSession(t, named) == {sess[t].user}

\* The page offers the passkeys of the user of the session, or of the one named.
Offers(t, named) ==
  IF sess[t].user # Nobody THEN {sess[t].user} ELSE named

\* The page with its challenge.  Unless another handler is at work, it is
\* the one that the session is for.
ShowPage(t) ==
  LET p == [op[t].params EXCEPT !.challenge = serial[t]]
  IN  /\ pc[t] = "options"
      /\ EndAndSave(t, sid[t], [sess[t] EXCEPT !.params = p])
      /\ Show(t, [kind |-> "oauth", params |-> p, offers |-> Offers(t, {p.user})])
      /\ valid' = IF \A u \in Tab \ {t} : pc[u] = "idle" THEN serial[t] ELSE 0
      /\ UNCHANGED <<tokens, allowed, bounds>>

\* loginOptsWCreds fails.  The session is cleared before the page is rendered.
PageFails(t) ==
  /\ pc[t] \in {"options", "login", "admin"}
  /\ Fault
  /\ EndAndSave(t, sid[t], Cleared)
  /\ Show(t, Blank)
  /\ valid' = 0
  /\ UNCHANGED <<tokens, allowed, requests>>

-----------------------------------------------------------------------------
(* The user's answer: oauth.mjs and POST /oauth.  Of a denial the server    *)
(* hears nothing.                                                          *)

\* The user chooses a passkey that the page offers, which signs its challenge.
Credential(t, u, at, days) ==
  [params |-> NoParams, user |-> u, challenge |-> page[t].params.challenge,
   at |-> at, days |-> days]

Allow(t, u, days) ==
  /\ page[t].kind = "oauth" /\ u \in page[t].offers
  /\ Accept(t, Credential(t, u, "oauth", days), "oauth")
  /\ allowed' = allowed \cup {page[t].params}
  /\ UNCHANGED page

\* verifyCredential: the passkey is the user's and signed this challenge.
Verified(t, u, challenge) == op[t].user = u /\ op[t].challenge = challenge

\* Mutant of VerifiedForPage: whichever page the credential was made on.
VerifiedForAny(t) ==
  op[t].user = sess[t].params.user /\ sess[t].params.challenge # 0

\* What POST /oauth asks, of the parameters in the session.
VerifiedForPage(t) ==
  /\ sess[t].params # NoParams
  /\ Verified(t, sess[t].params.user, sess[t].params.challenge)

\* No parameters in the session, no such passkey, or another page's challenge.
\* The page says so, and the session is cleared after it was saved.
NotVerified(t) ==
  /\ pc[t] = "oauth" /\ ~VerifiedForPage(t)
  /\ EndUnsaved(t)
  /\ Show(t, Blank)
  /\ UNCHANGED <<tokens, history, bounds>>

\* updateUser fails; so does the session's clearing.
UpdateFails(t) ==
  /\ pc[t] = "oauth" /\ VerifiedForPage(t)
  /\ Fault
  /\ EndUnsaved(t)
  /\ Show(t, Blank)
  /\ UNCHANGED <<tokens, history, requests>>

\* updateSessionPrivileges: the old session goes, a new one begins.
Regenerate(t) ==
  /\ pc[t] = "oauth" /\ VerifiedForPage(t)
  /\ Destroy(sid[t])
  /\ sid' = [sid EXCEPT ![t] = serial[t]]
  /\ sess' = [sess EXCEPT ![t] = Regenerated(sess[t], op[t].user, FALSE)]
  /\ Continue(t, "sign")
  /\ UNCHANGED <<cookie, serial, op, page, tokens, history, bounds>>

\* The token, if the user may have one.  Either way the parameters are saved
\* in the new session: the finally block runs after it.
Sign(t) ==
  LET p == sess[t].params
  IN  /\ pc[t] = "sign"
      /\ EndAndSave(t, sid[t], sess[t])
      /\ Show(t, Blank)
      /\ tokens' = IF "STORE" \in sess[t].privileges
                   THEN tokens \cup {[aud |-> p.app, sub |-> p.user,
                                      scopes |-> Granted(p.asked), days |-> op[t].days]}
                   ELSE tokens
      /\ valid' = 0
      /\ UNCHANGED <<allowed, bounds>>

-----------------------------------------------------------------------------
(* Logins, at /account/ and at /admin/, and the end of sessions.           *)

OpenLogin(t, l) ==
  /\ l \in {"login", "admin"}
  /\ Accept(t, NoOp, l)
  /\ UNCHANGED <<page, allowed>>

\* GET login: a session without a user is cleared.
LoginPage(t) ==
  LET s == IF sess[t].user = Nobody THEN Cleared ELSE sess[t]
  IN  /\ pc[t] \in {"login", "admin"}
      /\ EndAndSave(t, sid[t], [s EXCEPT !.login = serial[t]])
      /\ Show(t, [kind |-> pc[t], params |-> [NoParams EXCEPT !.challenge = serial[t]],
                  offers |-> Offers(t, User)])
      /\ valid' = IF sess[t].user = Nobody THEN 0 ELSE valid
      /\ UNCHANGED <<tokens, allowed, bounds>>

Submit(t, u) ==
  /\ page[t].kind \in {"login", "admin"} /\ u \in page[t].offers
  /\ Accept(t, Credential(t, u, page[t].kind, 0), "check")
  /\ UNCHANGED <<page, allowed>>

\* POST verify-authentication, up to the new session.
Login(t) ==
  /\ pc[t] = "check" /\ sess[t].login # 0
  /\ Verified(t, op[t].user, sess[t].login)
  /\ Destroy(sid[t])
  /\ sid' = [sid EXCEPT ![t] = serial[t]]
  /\ sess' = [sess EXCEPT ![t] = [Regenerated(sess[t], op[t].user, op[t].at = "admin")
                                    EXCEPT !.user = op[t].user]]
  /\ Continue(t, "loggedIn")
  /\ UNCHANGED <<cookie, serial, op, page, tokens, history, bounds>>

LoggedIn(t) ==
  /\ pc[t] = "loggedIn"
  /\ EndAndSave(t, sid[t], sess[t])
  /\ Show(t, Blank)
  /\ UNCHANGED <<tokens, history, bounds>>

\* No challenge in the session: nothing changes.
LoginTooLate(t) ==
  /\ pc[t] = "check" /\ sess[t].login = 0
  /\ EndUnsaved(t)
  /\ UNCHANGED <<page, tokens, history, bounds>>

LoginFails(t) ==
  /\ pc[t] = "check" /\ sess[t].login # 0
  /\ \/ ~Verified(t, op[t].user, sess[t].login) /\ UNCHANGED faults
     \/ Fault
  /\ EndAndSave(t, sid[t], Cleared)
  /\ valid' = 0
  /\ UNCHANGED <<page, tokens, allowed, requests>>

\* GET logout: the session is destroyed.  A handler that has a copy of it
\* saves it again.
Logout(t) ==
  /\ pc[t] = "idle" /\ requests < MaxRequests
  /\ requests' = requests + 1
  /\ Destroy(cookie)
  /\ valid' = 0
  /\ Show(t, Blank)
  /\ UNCHANGED <<cookie, handlers, tokens, allowed, faults>>

\* Twenty minutes after the session was saved.
SessionExpires ==
  /\ cookie \in live
  /\ Fault
  /\ Destroy(cookie)
  /\ valid' = 0
  /\ UNCHANGED <<cookie, handlers, page, tokens, allowed, requests>>

\* The end of the process: sessions are in memory.
Restart ==
  /\ Fault
  /\ store' = [i \in DOMAIN store |-> NewSession]
  /\ live' = {}
  /\ pc' = [t \in Tab |-> "idle"]
  /\ serial' = [t \in Tab |-> 0]
  /\ sid' = [t \in Tab |-> 0]
  /\ sess' = [t \in Tab |-> NewSession]
  /\ op' = [t \in Tab |-> NoOp]
  /\ page' = [t \in Tab |-> IF pc[t] = "idle" THEN page[t] ELSE Blank]
  /\ valid' = 0
  /\ UNCHANGED <<cookie, tokens, allowed, requests>>

Authorization(t) ==
  \/ \E app \in App, u \in User, asked \in Asked : Open(t, app, u, asked)
  \/ ShowPage(t) \/ PageFails(t)
  \/ \E u \in User, days \in Days : Allow(t, u, days)
  \/ NotVerified(t) \/ UpdateFails(t) \/ Regenerate(t) \/ Sign(t)

LoggingIn(t) ==
  \/ \E l \in {"login", "admin"} : OpenLogin(t, l)
  \/ LoginPage(t)
  \/ \E u \in User : Submit(t, u)
  \/ Login(t) \/ LoggedIn(t) \/ LoginTooLate(t) \/ LoginFails(t)
  \/ Logout(t)

Next ==
  \/ \E t \in Tab : Authorization(t) \/ LoggingIn(t)
  \/ SessionExpires
  \/ Restart

Spec == Init /\ [][Next]_vars

-----------------------------------------------------------------------------
(* Properties.                                                             *)

PageParams == [app : App, user : User, asked : Asked, challenge : 1..requests]

Sessions ==
  [params : PageParams \cup {NoParams}, login : 0..requests, user : User \cup {Nobody},
   privileges : SUBSET {"STORE", "ADMIN", "OWNER"}, who : User \cup {Nobody}, admins : SUBSET User]

Ops ==
  [params : [app : App, user : User, asked : Asked, challenge : {0}] \cup {NoParams},
   user : User \cup {Nobody}, challenge : 0..requests,
   at : {"oauth", "login", "admin"}, days : Days \cup {0}]

Pages ==
  {Blank}
    \cup [kind : {"oauth"}, params : PageParams, offers : SUBSET User]
    \cup [kind : {"login", "admin"}, offers : SUBSET User,
          params : {[NoParams EXCEPT !.challenge = c] : c \in 1..requests}]

\* The variables have their types.
TypeOK ==
  /\ store \in [1..MaxRequests -> Sessions]
  /\ live \subseteq 1..requests /\ cookie \in 0..requests
  /\ pc \in [Tab -> {"idle", "options", "oauth", "sign", "login", "admin", "check", "loggedIn"}]
  /\ serial \in [Tab -> 0..requests] /\ sid \in [Tab -> 0..requests]
  /\ sess \in [Tab -> Sessions] /\ op \in [Tab -> Ops] /\ page \in [Tab -> Pages]
  /\ tokens \subseteq [aud : App, sub : User, days : Days,
                       scopes : SUBSET ((Name \cup {Bad}) \X {"r", "rw", "other"})]
  /\ allowed \subseteq PageParams
  /\ valid \in 0..requests
  /\ requests \in 0..MaxRequests /\ faults \in 0..MaxFaults

\* A token is for the app, user and scopes of a page on which the user pressed
\* Allow: of several pages open in one session, never those of another
\* (oauth.js, verifyCredential against oauthParams.challenge).
GrantedAsShown ==
  \A k \in tokens : \E p \in allowed :
    k.aud = p.app /\ k.sub = p.user /\ k.scopes = Granted(p.asked)

\* The path is in the folder of the name, or in that of the name in /public/.
InModule(name, segs) ==
  \/ name = Star
  \/ Len(segs) >= 1 /\ segs[1] = name
  \/ Len(segs) >= 2 /\ segs[1] = Public /\ segs[2] = name

\* What the page p says that the app may do.
SaidToAllow(p, r) ==
  \E s \in Shown(p.asked) : /\ InModule(s[1], r.path.segs)
                            /\ s[2] = "rw" \/ (s[2] = "r" /\ r.method = "GET")

\* Scopes that the page shows in one way and the token gives in another: names
\* that lose characters, the name "public", levels that the page does not know,
\* and a name asked for twice with different levels.
Odd(asked) ==
  {s \in Scopes(asked) :
     \/ Kept[s[1]] # s[1] \/ s[1] = Public
     \/ Displayed(s[2]) = "nothing"
     \/ \E t \in Scopes(asked) : t[1] = s[1] /\ Displayed(t[2]) # Displayed(s[2])}

\* An odd scope of p is about the path of r, by its name or by what is kept of it.
Doubtful(p, r) ==
  \E s \in Odd(p.asked) : InModule(s[1], r.path.segs) \/ InModule(Kept[s[1]], r.path.segs)

\* The page p names the module that r is in, up to the characters that are lost.
Mentioned(p, r) == \E s \in Shown(p.asked) : InModule(Kept[s[1]], r.path.segs)

Request == [user : User, origin : App, method : {"GET", "PUT"}, path : Path]

\* The pages on which the user allowed what the token gives.
PagesOf(k) == {p \in allowed : p.app = k.aud /\ p.user = k.sub /\ Granted(p.asked) = k.scopes}

\* Without a token a storage request gets past the checks exactly if it is well
\* formed and reads a public document.  With one, any other must be for the
\* token's user and origin, while the token is not too old, and in a module that
\* an allowed page named; and, unless an odd scope is about its path, it gets
\* past exactly if that page said that the app may do this there (parseScope for
\* the page, POST /oauth for the token and checkToken each read the scopes in
\* their own way; for odd scopes they disagree).
AccessAsShown ==
  \A k \in tokens, r \in Request :
    LET toAll == ~Malformed(r) /\ PublicDocument(r)
        inForce(age) == /\ ~Malformed(r) /\ k.sub = r.user /\ k.aud = r.origin
                        /\ age < k.days /\ age < MaxAge
        passes(age) == Status(k, r, age) = 200
    IN  /\ Status(NoToken, r, 0) = 200 <=> toAll
        /\ \A age \in 1..MaxAge :
             /\ passes(age) => toAll \/ (inForce(age) /\ \E p \in PagesOf(k) : Mentioned(p, r))
             /\ \A p \in PagesOf(k) :
                  \/ passes(age) <=> toAll \/ (inForce(age) /\ SaidToAllow(p, r))
                  \/ Doubtful(p, r)

\* A session's privileges are those of the user verified last, whoever's it was
\* before, and it administers only if an administrator logged in at /admin/
\* (updateSessionPrivileges, with logins and grants in any order).
PrivilegesEarned ==
  \A i \in live :
    /\ store[i].privileges # {} =>
         store[i].who # Nobody /\ store[i].privileges \subseteq Privileges[store[i].who]
    /\ store[i].privileges \cap {"ADMIN", "OWNER"}
         \subseteq UNION {Privileges[u] : u \in store[i].admins}

\* The page shown last can still be answered: until the session ends or is
\* cleared or two requests overlap, it has the page's parameters, even if the
\* user logs in in another tab meanwhile (updateSessionPrivileges keeps them).
PageStaysValid ==
  valid # 0 /\ (\A t \in Tab : pc[t] = "idle") =>
    cookie \in live /\ store[cookie].params.challenge = valid

=============================================================================
