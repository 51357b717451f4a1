---------------------------- MODULE OAuth_proofs ----------------------------
(***************************************************************************)
(* Theorems about OAuth for every set of tabs, apps, users, names, scopes  *)
(* and paths.                                                              *)
(*                                                                         *)
(* The challenge of a page is what ties a token to what the user saw: no   *)
(* two pages have the same, wherever a session or a tab holds them, so a   *)
(* credential that verifies against the session's parameters was given on  *)
(* the page with exactly these parameters.                                 *)
(***************************************************************************)
EXTENDS OAuth, WellFoundedInduction, TLAPS

\* What a handler holds at each place.
HandlerOK(t) ==
  /\ pc[t] # "idle" => serial[t] \in 1..requests /\ sid[t] \in 1..requests
  /\ pc[t] = "options" => op[t].params # NoParams
  /\ pc[t] \in {"oauth", "sign"} => op[t].days \in Days
  /\ pc[t] \in {"oauth", "check"} => op[t].user \in User
  /\ pc[t] = "sign" => sess[t].params # NoParams

TypeInv == TypeOK /\ \A t \in Tab : HandlerOK(t)

\* The parameters of pages, wherever they are.
Held ==
  ({store[i].params : i \in 1..MaxRequests} \cup {sess[t].params : t \in Tab}
     \cup {page[t].params : t \in {u \in Tab : page[u].kind = "oauth"}} \cup allowed)
    \ {NoParams}

\* A challenge tells pages apart, and requests at work have not used theirs.
Agree == \A p, q \in Held : p.challenge = q.challenge => p = q
Unused(t) == pc[t] # "idle" => \A p \in Held : p.challenge # serial[t]
Serials ==
  \A t, u \in Tab : t # u /\ pc[t] # "idle" /\ pc[u] # "idle" => serial[t] # serial[u]

\* The credential of POST /oauth is for a page that the user allowed; once it
\* is verified, the session's parameters are those of that page.
CredentialOK(t) ==
  /\ pc[t] = "oauth" => \E p \in allowed : p.challenge = op[t].challenge
  /\ pc[t] = "sign" => sess[t].params \in allowed

PagesInv ==
  /\ TypeInv /\ Agree /\ Serials
  /\ \A t \in Tab : Unused(t) /\ CredentialOK(t)

GrantInv == PagesInv /\ GrantedAsShown

\* The privileges of one session.
SessionEarned(s) ==
  /\ s.privileges # {} => s.who # Nobody /\ s.privileges \subseteq Privileges[s.who]
  /\ s.privileges \cap {"ADMIN", "OWNER"} \subseteq UNION {Privileges[u] : u \in s.admins}

EarnedInv ==
  /\ TypeInv
  /\ \A i \in 1..MaxRequests : SessionEarned(store[i])
  /\ \A t \in Tab : SessionEarned(sess[t])

-----------------------------------------------------------------------------
(* Types.                                                                  *)

\* Later requests leave the values of earlier ones their types.
LEMMA Grows ==
  ASSUME requests \in Nat, requests' \in Nat, requests <= requests'
  PROVE  /\ PageParams \subseteq PageParams'
         /\ Sessions \subseteq Sessions'
         /\ Ops \subseteq Ops'
         /\ Pages \subseteq Pages'
         /\ 0..requests \subseteq 0..requests'
         /\ 1..requests \subseteq 1..requests'
  <1>1. 0..requests \subseteq 0..requests' /\ 1..requests \subseteq 1..requests'
    OBVIOUS
  <1>2. PageParams \subseteq PageParams'
    BY <1>1 DEF PageParams
  <1>3. Sessions \subseteq Sessions'
    BY <1>1, <1>2 DEF Sessions
  <1>4. Ops \subseteq Ops'
    BY <1>1 DEF Ops
  <1>5. Pages \subseteq Pages'
    BY <1>1, <1>2 DEF Pages
  <1> QED  BY <1>1, <1>2, <1>3, <1>4, <1>5

\* The values of every session, page and request that is empty.
LEMMA Empties ==
  ASSUME requests \in Nat
  PROVE  NewSession \in Sessions /\ NoOp \in Ops /\ Blank \in Pages
  BY DEF NewSession, Sessions, NoOp, Ops, Blank, Pages

\* The session after a verification.
LEMMA RegeneratedType ==
  ASSUME requests \in Nat, NEW s \in Sessions, NEW u \in User, NEW a \in BOOLEAN
  PROVE  /\ Regenerated(s, u, a) \in Sessions
         /\ Regenerated(s, u, a).params = s.params
         /\ Regenerated(s, u, a).who = u
         /\ Regenerated(s, u, a).privileges = NewPrivileges(s, u, a)
         /\ s.admins \subseteq Regenerated(s, u, a).admins
         /\ a => u \in Regenerated(s, u, a).admins
  <1>1. NewPrivileges(s, u, a) \in SUBSET {"STORE", "ADMIN", "OWNER"}
    BY UserAssumption DEF NewPrivileges, Sessions
  <1>2. s.params \in PageParams \cup {NoParams} /\ s.admins \subseteq User
    BY DEF Sessions
  <1> DEFINE admins == s.admins \cup (IF a THEN {u} ELSE {})
  <1>3. admins \in SUBSET User /\ s.admins \subseteq admins /\ (a => u \in admins)
    BY <1>2
  <1>4. Regenerated(s, u, a) =
          [params |-> s.params, login |-> 0, user |-> Nobody,
           privileges |-> NewPrivileges(s, u, a), who |-> u, admins |-> admins]
    BY DEF Regenerated
  <1> HIDE DEF admins
  <1>5. ASSUME NEW p \in PageParams \cup {NoParams}, NEW d \in SUBSET User,
               NEW q \in SUBSET {"STORE", "ADMIN", "OWNER"}
        PROVE  [params |-> p, login |-> 0, user |-> Nobody, privileges |-> q, who |-> u,
                admins |-> d] \in Sessions
    BY DEF Sessions
  <1>6. Regenerated(s, u, a) \in Sessions
    BY <1>1, <1>2, <1>3, <1>4, <1>5
  <1> QED  BY <1>3, <1>4, <1>6

\* What a token's scopes look like.
LEMMA GrantedType ==
  ASSUME NEW asked \in Asked
  PROVE  Granted(asked) \subseteq (Name \cup {Bad}) \X {"r", "rw", "other"}
  <1>1. Scopes(asked) \subseteq Name \X Level
    BY AskedAssumption DEF Scopes
  <1> QED  BY <1>1, NameAssumption, LevelAssumption DEF Granted

LEMMA InitType == Init => TypeInv
  <1> SUFFICES ASSUME Init PROVE TypeInv
    OBVIOUS
  <1>1. requests = 0 /\ MaxRequests \in Nat /\ MaxFaults \in Nat
    BY BoundAssumption DEF Init
  <1>2. NewSession \in Sessions /\ NoOp \in Ops /\ Blank \in Pages
    BY <1>1, Empties
  <1>3. TypeOK
    BY <1>1, <1>2 DEF Init, TypeOK
  <1>4. \A t \in Tab : HandlerOK(t)
    BY DEF Init, HandlerOK
  <1> QED  BY <1>3, <1>4 DEF TypeInv

Places == {"idle", "options", "oauth", "sign", "login", "admin", "check", "loggedIn"}
Tokens == [aud : App, sub : User, days : Days,
           scopes : SUBSET ((Name \cup {Bad}) \X {"r", "rw", "other"})]

\* A step of one tab.
LEMMA OneTab ==
  ASSUME TypeInv, NEW t \in Tab, NEW l \in Places,
         requests' \in 0..MaxRequests, requests <= requests',
         NEW n \in 0..requests', NEW i \in 0..requests',
         NEW s \in Sessions', NEW o \in Ops', NEW g \in Pages',
         pc' = [pc EXCEPT ![t] = l], serial' = [serial EXCEPT ![t] = n],
         sid' = [sid EXCEPT ![t] = i], sess' = [sess EXCEPT ![t] = s],
         op' = [op EXCEPT ![t] = o], page' = [page EXCEPT ![t] = g],
         store' \in [1..MaxRequests -> Sessions'], live' \subseteq 1..requests',
         cookie' \in 0..requests', tokens' \subseteq Tokens, allowed' \subseteq PageParams',
         valid' \in 0..requests', faults' \in 0..MaxFaults,
         HandlerOK(t)'
  PROVE  TypeInv'
  <1>1. requests \in Nat /\ requests' \in Nat
    BY BoundAssumption DEF TypeInv, TypeOK
  <1>2. /\ Sessions \subseteq Sessions' /\ Ops \subseteq Ops' /\ Pages \subseteq Pages'
        /\ 0..requests \subseteq 0..requests' /\ 1..requests \subseteq 1..requests'
    BY <1>1, Grows
  <1>3. /\ pc' \in [Tab -> Places] /\ serial' \in [Tab -> 0..requests']
        /\ sid' \in [Tab -> 0..requests'] /\ sess' \in [Tab -> Sessions']
        /\ op' \in [Tab -> Ops'] /\ page' \in [Tab -> Pages']
    BY <1>2 DEF TypeInv, TypeOK, Places
  <1>4. TypeOK'
    BY <1>3 DEF TypeOK, Places, Tokens
  <1>5. ASSUME NEW u \in Tab, u # t PROVE HandlerOK(u)'
    <2>1. /\ pc[u]' = pc[u] /\ serial[u]' = serial[u] /\ sid[u]' = sid[u]
          /\ sess[u]' = sess[u] /\ op[u]' = op[u]
      BY <1>5 DEF TypeInv, TypeOK
    <2> QED  BY <1>2, <2>1 DEF TypeInv, HandlerOK
  <1> QED  BY <1>4, <1>5 DEF TypeInv

\* A request comes in.
LEMMA AcceptType ==
  ASSUME TypeInv, NEW t \in Tab, NEW l \in Places \ {"idle", "sign"}, NEW r \in Ops,
         Accept(t, r, l), UNCHANGED page, allowed' \subseteq PageParams,
         l = "options" => r.params # NoParams,
         l = "oauth" => r.days \in Days,
         l \in {"oauth", "check"} => r.user \in User
  PROVE  TypeInv'
  <1>1. /\ requests \in Nat /\ requests' = requests + 1 /\ requests' \in 0..MaxRequests
        /\ requests <= requests' /\ requests' \in Nat
    BY BoundAssumption DEF TypeInv, TypeOK, Accept
  <1>2. PageParams \subseteq PageParams' /\ Sessions \subseteq Sessions' /\ Ops \subseteq Ops'
        /\ Pages \subseteq Pages'
    BY <1>1, Grows
  <1>3. store' \in [1..MaxRequests -> Sessions'] /\ live' \subseteq 1..requests'
        /\ cookie' \in 0..requests' /\ tokens' \subseteq Tokens
        /\ allowed' \subseteq PageParams' /\ valid' \in 0..requests'
        /\ faults' \in 0..MaxFaults
    BY <1>1, <1>2 DEF TypeInv, TypeOK, Accept, sessions, Tokens
  <1> DEFINE i == IF cookie \in live THEN cookie ELSE requests + 1
             s == IF cookie \in live THEN store[cookie] ELSE NewSession
  <1>4. i \in 1..requests'
    BY <1>1 DEF TypeInv, TypeOK
  <1>5. s \in Sessions'
    <2>1. NewSession \in Sessions
      BY <1>1, Empties
    <2>2. cookie \in live => cookie \in 1..MaxRequests
      BY <1>1, BoundAssumption DEF TypeInv, TypeOK
    <2> QED  BY <1>2, <2>1, <2>2 DEF TypeInv, TypeOK
  <1>6. /\ pc' = [pc EXCEPT ![t] = l] /\ serial' = [serial EXCEPT ![t] = requests + 1]
        /\ sid' = [sid EXCEPT ![t] = i] /\ sess' = [sess EXCEPT ![t] = s]
        /\ op' = [op EXCEPT ![t] = r] /\ page' = [page EXCEPT ![t] = page[t]]
    BY DEF Accept, TypeInv, TypeOK
  <1>7. HandlerOK(t)'
    <2>1. pc[t]' = l /\ serial[t]' = requests + 1 /\ sid[t]' = i /\ op[t]' = r
      BY <1>6 DEF TypeInv, TypeOK
    <2> QED  BY <1>1, <1>4, <2>1 DEF HandlerOK
  <1>8. page[t] \in Pages' /\ r \in Ops' /\ requests + 1 \in 0..requests' /\ i \in 0..requests'
        /\ l \in Places
    BY <1>1, <1>2, <1>4 DEF TypeInv, TypeOK
  <1> HIDE DEF i, s
  <1> QED  BY <1>1, <1>3, <1>5, <1>6, <1>7, <1>8, OneTab

\* A response ends, with or without a session to save.
LEMMA EndType ==
  ASSUME TypeInv, NEW t \in Tab, NEW g \in Pages,
         \/ \E i \in 1..requests, s \in Sessions : EndAndSave(t, i, s)
         \/ EndUnsaved(t),
         page' = [page EXCEPT ![t] = g], tokens' \subseteq Tokens,
         UNCHANGED <<allowed, requests>>, valid' \in 0..requests, faults' \in 0..MaxFaults
  PROVE  TypeInv'
  <1>1. requests \in Nat /\ requests <= MaxRequests /\ requests' = requests
        /\ requests' \in 0..MaxRequests
    BY BoundAssumption DEF TypeInv, TypeOK
  <1>2. PageParams' = PageParams /\ Sessions' = Sessions /\ Ops' = Ops /\ Pages' = Pages
    BY <1>1 DEF PageParams, Sessions, Ops, Pages
  <1>3. NewSession \in Sessions /\ NoOp \in Ops
    BY <1>1, Empties
  <1>4. /\ pc' = [pc EXCEPT ![t] = "idle"] /\ serial' = [serial EXCEPT ![t] = 0]
        /\ sid' = [sid EXCEPT ![t] = 0] /\ sess' = [sess EXCEPT ![t] = NewSession]
        /\ op' = [op EXCEPT ![t] = NoOp]
    BY DEF EndAndSave, EndUnsaved
  <1>5. store' \in [1..MaxRequests -> Sessions'] /\ live' \subseteq 1..requests'
        /\ cookie' \in 0..requests'
    <2>1. CASE EndUnsaved(t)
      BY <1>1, <1>2, <2>1 DEF TypeInv, TypeOK, EndUnsaved, sessions
    <2>2. CASE \E i \in 1..requests, s \in Sessions : EndAndSave(t, i, s)
      <3>1. PICK i \in 1..requests, s \in Sessions : EndAndSave(t, i, s)
        BY <2>2
      <3> QED  BY <1>1, <1>2, <3>1, BoundAssumption DEF TypeInv, TypeOK, EndAndSave
    <2> QED  BY <2>1, <2>2
  <1>6. HandlerOK(t)'
    <2>1. pc[t]' = "idle"
      BY <1>4 DEF TypeInv, TypeOK
    <2> QED  BY <2>1 DEF HandlerOK
  <1>7. allowed' \subseteq PageParams' /\ valid' \in 0..requests' /\ 0 \in 0..requests'
        /\ requests <= requests' /\ "idle" \in Places
    BY <1>1, <1>2 DEF TypeInv, TypeOK, Places
  <1> QED  BY <1>1, <1>2, <1>3, <1>4, <1>5, <1>6, <1>7, OneTab

\* A handler goes on with the session that it regenerated.
LEMMA RegenerateType ==
  ASSUME TypeInv, NEW t \in Tab, NEW l \in {"sign", "loggedIn"}, NEW s \in Sessions,
         Destroy(sid[t]), sid' = [sid EXCEPT ![t] = serial[t]],
         sess' = [sess EXCEPT ![t] = s], Continue(t, l),
         UNCHANGED <<cookie, serial, op, page, tokens, history, bounds>>,
         serial[t] \in 1..requests,
         l = "sign" => s.params # NoParams /\ op[t].days \in Days
  PROVE  TypeInv'
  <1>1. requests \in Nat /\ requests' = requests /\ requests' \in 0..MaxRequests
        /\ requests <= requests' /\ faults' = faults
    BY BoundAssumption DEF TypeInv, TypeOK, bounds
  <1>2. PageParams' = PageParams /\ Sessions' = Sessions /\ Ops' = Ops /\ Pages' = Pages
    BY <1>1 DEF PageParams, Sessions, Ops, Pages
  <1>3. /\ serial' = [serial EXCEPT ![t] = serial[t]] /\ op' = [op EXCEPT ![t] = op[t]]
        /\ page' = [page EXCEPT ![t] = page[t]] /\ pc' = [pc EXCEPT ![t] = l]
    BY DEF TypeInv, TypeOK, Continue
  <1>4. store' \in [1..MaxRequests -> Sessions'] /\ live' \subseteq 1..requests'
    <2>1. NewSession \in Sessions
      BY <1>1, Empties
    <2> QED  BY <1>1, <1>2, <2>1 DEF TypeInv, TypeOK, Destroy
  <1>5. HandlerOK(t)'
    <2>1. /\ pc[t]' = l /\ serial[t]' = serial[t] /\ sid[t]' = serial[t] /\ op[t]' = op[t]
          /\ sess[t]' = s
      BY <1>3 DEF TypeInv, TypeOK
    <2> QED  BY <1>1, <2>1 DEF HandlerOK
  <1>6. /\ l \in Places /\ serial[t] \in 0..requests' /\ op[t] \in Ops' /\ page[t] \in Pages'
        /\ s \in Sessions' /\ cookie' \in 0..requests' /\ tokens' \subseteq Tokens
        /\ allowed' \subseteq PageParams' /\ valid' \in 0..requests' /\ faults' \in 0..MaxFaults
    BY <1>1, <1>2 DEF TypeInv, TypeOK, Places, Tokens, history
  <1> QED  BY <1>1, <1>3, <1>4, <1>5, <1>6, OneTab

LEMMA OpenType ==
  ASSUME TypeInv, NEW t \in Tab, NEW app \in App, NEW u \in User, NEW asked \in Asked,
         Open(t, app, u, asked)
  PROVE  TypeInv'
  <1> DEFINE p == [app |-> app, user |-> u, asked |-> asked, challenge |-> 0]
             r == [NoOp EXCEPT !.params = p]
  <1>1. p # NoParams
    BY UserAssumption DEF NoParams
  <1>2. r = [params |-> p, user |-> Nobody, challenge |-> 0, at |-> "oauth", days |-> 0]
    BY DEF NoOp
  <1>3. requests \in Nat
    BY DEF TypeInv, TypeOK
  <1>4. r \in Ops
    BY <1>2, <1>3 DEF Ops
  <1>5. Accept(t, r, "options") /\ UNCHANGED page /\ allowed' \subseteq PageParams
    BY DEF Open, TypeInv, TypeOK
  <1>6. "options" \in Places \ {"idle", "sign"} /\ r.params # NoParams
    BY <1>1, <1>2 DEF Places
  <1> HIDE DEF p, r
  <1> QED  BY <1>4, <1>5, <1>6, AcceptType

LEMMA OpenLoginType ==
  ASSUME TypeInv, NEW t \in Tab, NEW l \in {"login", "admin"}, OpenLogin(t, l)
  PROVE  TypeInv'
  <1>1. requests \in Nat
    BY DEF TypeInv, TypeOK
  <1>2. NoOp \in Ops
    BY <1>1, Empties
  <1>3. Accept(t, NoOp, l) /\ UNCHANGED page /\ allowed' \subseteq PageParams
    BY DEF OpenLogin, TypeInv, TypeOK
  <1>4. l \in Places \ {"idle", "sign"} /\ l \notin {"options", "oauth", "check"}
    BY DEF Places
  <1> QED  BY <1>2, <1>3, <1>4, AcceptType

\* What pages look like.
LEMMA PageType ==
  ASSUME TypeInv, NEW t \in Tab
  PROVE  /\ page[t].kind \in {"blank", "oauth", "login", "admin"}
         /\ page[t].offers \subseteq User
         /\ page[t].kind = "oauth" => page[t].params \in PageParams
         /\ page[t].kind # "blank" => page[t].params.challenge \in 1..requests
  <1>1. page[t] \in Pages
    BY DEF TypeInv, TypeOK
  <1>2. CASE page[t] = Blank
    BY <1>2 DEF Blank
  <1>3. CASE page[t] \in [kind : {"oauth"}, params : PageParams, offers : SUBSET User]
    BY <1>3 DEF PageParams
  <1>4. CASE page[t] \in [kind : {"login", "admin"}, offers : SUBSET User,
                          params : {[NoParams EXCEPT !.challenge = c] : c \in 1..requests}]
    BY <1>4 DEF NoParams
  <1> QED  BY <1>1, <1>2, <1>3, <1>4 DEF Pages

LEMMA AllowType ==
  ASSUME TypeInv, NEW t \in Tab, NEW u \in User, NEW days \in Days, Allow(t, u, days)
  PROVE  TypeInv'
  <1> DEFINE r == Credential(t, u, "oauth", days)
  <1>1. page[t].kind = "oauth" /\ Accept(t, r, "oauth") /\ UNCHANGED page
        /\ allowed' = allowed \cup {page[t].params}
    BY DEF Allow
  <1>2. page[t].params \in PageParams /\ page[t].params.challenge \in 1..requests
    BY <1>1, PageType
  <1>3. allowed' \subseteq PageParams
    BY <1>1, <1>2 DEF TypeInv, TypeOK
  <1>4. r \in Ops /\ r.days = days /\ r.user = u
    BY <1>2 DEF Credential, Ops
  <1>5. "oauth" \in Places \ {"idle", "sign"}
    BY DEF Places
  <1> HIDE DEF r
  <1> QED  BY <1>1, <1>3, <1>4, <1>5, AcceptType

LEMMA SubmitType ==
  ASSUME TypeInv, NEW t \in Tab, NEW u \in User, Submit(t, u)
  PROVE  TypeInv'
  <1> DEFINE r == Credential(t, u, page[t].kind, 0)
  <1>1. page[t].kind \in {"login", "admin"} /\ Accept(t, r, "check") /\ UNCHANGED page
        /\ allowed' = allowed
    BY DEF Submit
  <1>2. page[t].params.challenge \in 1..requests
    BY <1>1, PageType
  <1>3. r \in Ops /\ r.user = u
    BY <1>1, <1>2 DEF Credential, Ops
  <1>4. "check" \in Places \ {"idle", "sign"} /\ allowed' \subseteq PageParams
    BY <1>1 DEF Places, TypeInv, TypeOK
  <1> HIDE DEF r
  <1> QED  BY <1>1, <1>3, <1>4, AcceptType

\* What every handler at work may use.
LEMMA AtWork ==
  ASSUME TypeInv, NEW t \in Tab
  PROVE  /\ requests \in Nat /\ requests \in 0..MaxRequests
         /\ sess[t] \in Sessions /\ op[t] \in Ops /\ page[t] \in Pages
         /\ Cleared \in Sessions /\ Blank \in Pages
         /\ serial[t] \in Nat /\ valid \in 0..requests /\ tokens \subseteq Tokens
         /\ faults \in 0..MaxFaults
         /\ pc[t] # "idle" => serial[t] \in 1..requests /\ sid[t] \in 1..requests
         /\ Fault => faults' \in 0..MaxFaults
  <1>1. requests \in Nat
    BY DEF TypeInv, TypeOK
  <1>2. Cleared \in Sessions /\ Blank \in Pages
    BY <1>1, Empties DEF Cleared
  <1>3. Fault => faults' \in 0..MaxFaults
    BY BoundAssumption DEF TypeInv, TypeOK, Fault
  <1> QED  BY <1>1, <1>2, <1>3 DEF TypeInv, TypeOK, HandlerOK, Tokens

LEMMA ShowPageType ==
  ASSUME TypeInv, NEW t \in Tab, ShowPage(t)
  PROVE  TypeInv' /\ [op[t].params EXCEPT !.challenge = serial[t]] \in PageParams
  <1> DEFINE p == [op[t].params EXCEPT !.challenge = serial[t]]
             s == [sess[t] EXCEPT !.params = p]
             g == [kind |-> "oauth", params |-> p, offers |-> Offers(t, {p.user})]
  <1>1. /\ pc[t] = "options" /\ EndAndSave(t, sid[t], s) /\ page' = [page EXCEPT ![t] = g]
        /\ valid' \in {serial[t], 0} /\ UNCHANGED <<tokens, allowed, requests, faults>>
    BY DEF ShowPage, Show, bounds
  <1>2. sess[t] \in Sessions /\ serial[t] \in 1..requests /\ sid[t] \in 1..requests
        /\ requests \in Nat /\ faults' \in 0..MaxFaults /\ tokens' \subseteq Tokens
    BY <1>1, AtWork
  <1>3. op[t].params \in [app : App, user : User, asked : Asked, challenge : {0}]
    BY <1>1 DEF TypeInv, TypeOK, HandlerOK, Ops
  <1>4. p \in PageParams /\ p.user \in User
    BY <1>2, <1>3 DEF PageParams
  <1> HIDE DEF p
  <1>5. s \in Sessions
    BY <1>2, <1>4 DEF Sessions
  <1>6. Offers(t, {p.user}) \subseteq User
    BY <1>2, <1>4 DEF Offers, Sessions
  <1>7. g \in Pages
    BY <1>4, <1>6 DEF Pages
  <1>8. UNCHANGED <<allowed, requests>> /\ valid' \in 0..requests
    BY <1>1, <1>2
  <1> HIDE DEF s, g
  <1>9. TypeInv'
    BY <1>1, <1>2, <1>5, <1>7, <1>8, EndType
  <1> QED  BY <1>4, <1>9 DEF p

LEMMA LoginPageType ==
  ASSUME TypeInv, NEW t \in Tab, LoginPage(t)
  PROVE  TypeInv'
  <1> DEFINE s0 == IF sess[t].user = Nobody THEN Cleared ELSE sess[t]
             s == [s0 EXCEPT !.login = serial[t]]
             g == [kind |-> pc[t], params |-> [NoParams EXCEPT !.challenge = serial[t]],
                   offers |-> Offers(t, User)]
  <1>1. /\ pc[t] \in {"login", "admin"} /\ EndAndSave(t, sid[t], s)
        /\ page' = [page EXCEPT ![t] = g]
        /\ valid' \in {0, valid} /\ UNCHANGED <<tokens, allowed, requests, faults>>
    BY DEF LoginPage, Show, bounds
  <1>2. sess[t] \in Sessions /\ serial[t] \in 1..requests /\ sid[t] \in 1..requests
        /\ requests \in Nat /\ faults' \in 0..MaxFaults /\ tokens' \subseteq Tokens
        /\ Cleared \in Sessions /\ valid \in 0..requests
    BY <1>1, AtWork
  <1>3. s0 \in Sessions
    BY <1>2
  <1> HIDE DEF s0
  <1>4. s \in Sessions
    BY <1>2, <1>3 DEF Sessions
  <1>5. Offers(t, User) \subseteq User
    BY <1>2 DEF Offers, Sessions
  <1>6. g \in Pages
    BY <1>1, <1>2, <1>5 DEF Pages
  <1>7. UNCHANGED <<allowed, requests>> /\ valid' \in 0..requests
    BY <1>1, <1>2
  <1> HIDE DEF s, g
  <1> QED  BY <1>1, <1>2, <1>4, <1>6, <1>7, EndType

\* The user whom a verified handler of POST /oauth is at work for.
LEMMA VerifiedType ==
  ASSUME TypeInv, NEW t \in Tab, pc[t] = "oauth", VerifiedForPage(t)
  PROVE  /\ op[t].user \in User /\ sess[t].params \in PageParams
         /\ op[t].user = sess[t].params.user
         /\ op[t].challenge = sess[t].params.challenge
  BY DEF TypeInv, TypeOK, HandlerOK, Sessions, VerifiedForPage, Verified

LEMMA RegenerateStepType ==
  ASSUME TypeInv, NEW t \in Tab, Regenerate(t)
  PROVE  TypeInv'
  <1> DEFINE s == Regenerated(sess[t], op[t].user, FALSE)
  <1>1. /\ pc[t] = "oauth" /\ VerifiedForPage(t) /\ Destroy(sid[t])
        /\ sid' = [sid EXCEPT ![t] = serial[t]] /\ sess' = [sess EXCEPT ![t] = s]
        /\ Continue(t, "sign")
        /\ UNCHANGED <<cookie, serial, op, page, tokens, history, bounds>>
    BY DEF Regenerate
  <1>2. op[t].user \in User /\ sess[t].params # NoParams
    BY <1>1, VerifiedType DEF VerifiedForPage
  <1>3. sess[t] \in Sessions /\ requests \in Nat /\ serial[t] \in 1..requests
    BY <1>1, AtWork
  <1>4. s \in Sessions /\ s.params # NoParams
    BY <1>2, <1>3, RegeneratedType
  <1>5. op[t].days \in Days
    BY <1>1 DEF TypeInv, HandlerOK
  <1> HIDE DEF s
  <1> QED  BY <1>1, <1>3, <1>4, <1>5, RegenerateType

LEMMA LoginType ==
  ASSUME TypeInv, NEW t \in Tab, Login(t)
  PROVE  TypeInv'
  <1> DEFINE r == Regenerated(sess[t], op[t].user, op[t].at = "admin")
             s == [r EXCEPT !.user = op[t].user]
  <1>1. /\ pc[t] = "check" /\ Destroy(sid[t])
        /\ sid' = [sid EXCEPT ![t] = serial[t]] /\ sess' = [sess EXCEPT ![t] = s]
        /\ Continue(t, "loggedIn")
        /\ UNCHANGED <<cookie, serial, op, page, tokens, history, bounds>>
    BY DEF Login
  <1>2. op[t].user \in User
    BY <1>1 DEF TypeInv, HandlerOK
  <1>3. sess[t] \in Sessions /\ requests \in Nat /\ serial[t] \in 1..requests
    BY <1>1, AtWork
  <1>4. (op[t].at = "admin") \in BOOLEAN
    OBVIOUS
  <1>5. r \in Sessions
    BY <1>2, <1>3, <1>4, RegeneratedType
  <1> HIDE DEF r
  <1>6. s \in Sessions
    BY <1>2, <1>5 DEF Sessions
  <1> HIDE DEF s
  <1> QED  BY <1>1, <1>3, <1>6, RegenerateType

LEMMA SignType ==
  ASSUME TypeInv, NEW t \in Tab, Sign(t)
  PROVE  TypeInv'
  <1> DEFINE p == sess[t].params
             k == [aud |-> p.app, sub |-> p.user, scopes |-> Granted(p.asked),
                   days |-> op[t].days]
  <1>1. /\ pc[t] = "sign" /\ EndAndSave(t, sid[t], sess[t])
        /\ page' = [page EXCEPT ![t] = Blank] /\ tokens' \subseteq tokens \cup {k}
        /\ valid' = 0 /\ UNCHANGED <<allowed, requests, faults>>
    BY DEF Sign, Show, bounds
  <1>2. sess[t] \in Sessions /\ sid[t] \in 1..requests /\ requests \in Nat
        /\ faults' \in 0..MaxFaults /\ tokens \subseteq Tokens /\ Blank \in Pages
    BY <1>1, AtWork
  <1>3. op[t].days \in Days /\ p \in PageParams
    BY <1>1, <1>2 DEF TypeInv, HandlerOK, Sessions
  <1>4. p.app \in App /\ p.user \in User /\ p.asked \in Asked
    BY <1>3 DEF PageParams
  <1> HIDE DEF p
  <1>5. k \in Tokens
    BY <1>3, <1>4, GrantedType DEF Tokens
  <1>6. tokens' \subseteq Tokens /\ UNCHANGED <<allowed, requests>> /\ valid' \in 0..requests
    BY <1>1, <1>2, <1>5
  <1> QED  BY <1>1, <1>2, <1>6, EndType

\* Handlers that end with an error, or with the session they have.
LEMMA EndsType ==
  ASSUME TypeInv, NEW t \in Tab,
         \/ PageFails(t) \/ NotVerified(t) \/ UpdateFails(t)
         \/ LoggedIn(t) \/ LoginTooLate(t) \/ LoginFails(t)
  PROVE  TypeInv'
  <1>1. /\ requests \in Nat /\ sess[t] \in Sessions /\ page[t] \in Pages
        /\ Cleared \in Sessions /\ Blank \in Pages /\ valid \in 0..requests
        /\ tokens \subseteq Tokens /\ faults \in 0..MaxFaults
        /\ pc[t] # "idle" => sid[t] \in 1..requests
        /\ Fault => faults' \in 0..MaxFaults
    BY AtWork
  <1>2. 0 \in 0..requests
    BY <1>1
  <1>3. CASE PageFails(t)
    <2>1. /\ pc[t] # "idle" /\ EndAndSave(t, sid[t], Cleared) /\ Fault
          /\ page' = [page EXCEPT ![t] = Blank]
          /\ valid' = 0 /\ UNCHANGED <<tokens, allowed, requests>>
      BY <1>3 DEF PageFails, Show
    <2> QED  BY <1>1, <1>2, <2>1, EndType
  <1>4. CASE NotVerified(t)
    <2>1. /\ EndUnsaved(t) /\ page' = [page EXCEPT ![t] = Blank]
          /\ UNCHANGED <<tokens, allowed, valid, requests, faults>>
      BY <1>4 DEF NotVerified, Show, history, bounds
    <2> QED  BY <1>1, <2>1, EndType
  <1>5. CASE UpdateFails(t)
    <2>1. /\ EndUnsaved(t) /\ page' = [page EXCEPT ![t] = Blank] /\ Fault
          /\ UNCHANGED <<tokens, allowed, valid, requests>>
      BY <1>5 DEF UpdateFails, Show, history
    <2> QED  BY <1>1, <2>1, EndType
  <1>6. CASE LoggedIn(t)
    <2>1. /\ pc[t] # "idle" /\ EndAndSave(t, sid[t], sess[t])
          /\ page' = [page EXCEPT ![t] = Blank]
          /\ UNCHANGED <<tokens, allowed, valid, requests, faults>>
      BY <1>6 DEF LoggedIn, Show, history, bounds
    <2> QED  BY <1>1, <2>1, EndType
  <1>7. CASE LoginTooLate(t)
    <2>1. /\ EndUnsaved(t) /\ page' = [page EXCEPT ![t] = page[t]]
          /\ UNCHANGED <<tokens, allowed, valid, requests, faults>>
      BY <1>7 DEF LoginTooLate, history, bounds, TypeInv, TypeOK
    <2> QED  BY <1>1, <2>1, EndType
  <1>8. CASE LoginFails(t)
    <2>1. /\ pc[t] # "idle" /\ EndAndSave(t, sid[t], Cleared)
          /\ page' = [page EXCEPT ![t] = page[t]] /\ valid' = 0
          /\ (Fault \/ UNCHANGED faults) /\ UNCHANGED <<tokens, allowed, requests>>
      BY <1>8 DEF LoginFails, TypeInv, TypeOK
    <2>2. faults' \in 0..MaxFaults
      BY <1>1, <2>1
    <2> QED  BY <1>1, <1>2, <2>1, <2>2, EndType
  <1> QED  BY <1>3, <1>4, <1>5, <1>6, <1>7, <1>8

\* Sessions that end while handlers go on.
LEMMA SessionEndsType ==
  ASSUME TypeInv, SessionExpires \/ \E t \in Tab : Logout(t)
  PROVE  TypeInv' /\ UNCHANGED <<handlers, tokens, allowed>>
  <1>1. requests \in Nat /\ MaxRequests \in Nat /\ MaxFaults \in Nat /\ 0 \in 0..requests
    BY BoundAssumption DEF TypeInv, TypeOK
  <1>2. /\ requests' \in 0..MaxRequests /\ requests <= requests' /\ requests' \in Nat
        /\ faults' \in 0..MaxFaults /\ live' \subseteq live /\ valid' = 0
        /\ store' \in {store, [j \in DOMAIN store |-> IF j = cookie THEN NewSession ELSE store[j]]}
        /\ \A u \in Tab : page[u]' \in {page[u], Blank}
        /\ page' = [u \in Tab |-> page'[u]]
        /\ UNCHANGED <<cookie, handlers, tokens, allowed>>
    <2>1. page \in [Tab -> Pages] /\ requests \in 0..MaxRequests /\ faults \in 0..MaxFaults
      BY DEF TypeInv, TypeOK
    <2>2. CASE SessionExpires
      <3>1. /\ Destroy(cookie) /\ Fault /\ valid' = 0
            /\ UNCHANGED <<cookie, handlers, page, tokens, allowed, requests>>
        BY <2>2 DEF SessionExpires
      <3>2. page' = [u \in Tab |-> page'[u]]
        BY <2>1, <3>1
      <3> QED  BY <1>1, <2>1, <3>1, <3>2 DEF Destroy, Fault
    <2>3. CASE \E t \in Tab : Logout(t)
      <3>1. PICK t \in Tab : Logout(t)
        BY <2>3
      <3>2. /\ Destroy(cookie) /\ valid' = 0 /\ page' = [page EXCEPT ![t] = Blank]
            /\ requests < MaxRequests /\ requests' = requests + 1
            /\ UNCHANGED <<cookie, handlers, tokens, allowed, faults>>
        BY <3>1 DEF Logout, Show
      <3>3. page' = [u \in Tab |-> page'[u]] /\ \A u \in Tab : page[u]' \in {page[u], Blank}
        BY <2>1, <3>2
      <3>4. requests' \in 0..MaxRequests /\ requests <= requests' /\ requests' \in Nat
        BY <1>1, <2>1, <3>2
      <3> QED  BY <1>1, <2>1, <3>2, <3>3, <3>4 DEF Destroy
    <2> QED  BY <2>2, <2>3
  <1>3. /\ PageParams \subseteq PageParams' /\ Sessions \subseteq Sessions'
        /\ Ops \subseteq Ops' /\ Pages \subseteq Pages'
        /\ 0..requests \subseteq 0..requests' /\ 1..requests \subseteq 1..requests'
    BY <1>1, <1>2, Grows
  <1>4. NewSession \in Sessions /\ Blank \in Pages
    BY <1>1, Empties
  <1>5. store' \in [1..MaxRequests -> Sessions'] /\ page' \in [Tab -> Pages']
    BY <1>2, <1>3, <1>4 DEF TypeInv, TypeOK
  <1>6. TypeOK'
    BY <1>2, <1>3, <1>5 DEF TypeInv, TypeOK, handlers
  <1>7. \A u \in Tab : HandlerOK(u)'
    BY <1>2, <1>3 DEF TypeInv, HandlerOK, handlers
  <1> QED  BY <1>2, <1>6, <1>7 DEF TypeInv

LEMMA RestartType ==
  ASSUME TypeInv, Restart
  PROVE  TypeInv'
  <1>1. /\ requests \in Nat /\ requests' = requests /\ MaxFaults \in Nat
        /\ NewSession \in Sessions /\ NoOp \in Ops /\ Blank \in Pages
    BY Empties, BoundAssumption DEF TypeInv, TypeOK, Restart
  <1>2. PageParams' = PageParams /\ Sessions' = Sessions /\ Ops' = Ops /\ Pages' = Pages
    BY <1>1 DEF PageParams, Sessions, Ops, Pages
  <1>3. /\ store' \in [1..MaxRequests -> Sessions'] /\ sess' \in [Tab -> Sessions']
        /\ op' \in [Tab -> Ops'] /\ page' \in [Tab -> Pages']
    BY <1>1, <1>2 DEF TypeInv, TypeOK, Restart
  <1>4. TypeOK'
    BY <1>1, <1>2, <1>3 DEF TypeInv, TypeOK, Restart, Fault
  <1>5. \A u \in Tab : HandlerOK(u)'
    BY DEF Restart, HandlerOK
  <1> QED  BY <1>4, <1>5 DEF TypeInv

LEMMA NextType ==
  ASSUME TypeInv, [Next]_vars
  PROVE  TypeInv'
  <1>1. CASE UNCHANGED vars
    BY <1>1 DEF vars, sessions, handlers, history, bounds, TypeInv, TypeOK, HandlerOK,
                PageParams, Sessions, Ops, Pages
  <1>2. ASSUME NEW t \in Tab, Authorization(t) PROVE TypeInv'
    BY <1>2, OpenType, ShowPageType, EndsType, AllowType, RegenerateStepType, SignType
       DEF Authorization
  <1>3. ASSUME NEW t \in Tab, LoggingIn(t) PROVE TypeInv'
    BY <1>3, OpenLoginType, LoginPageType, SubmitType, LoginType, EndsType, SessionEndsType
       DEF LoggingIn
  <1>4. CASE SessionExpires \/ Restart
    BY <1>4, SessionEndsType, RestartType
  <1> QED  BY <1>1, <1>2, <1>3, <1>4 DEF Next

LEMMA TypeInvariant == Spec => []TypeInv
  <1>1. TypeInv /\ [Next]_vars => TypeInv'
    BY NextType
  <1> QED  BY <1>1, InitType, PTL DEF Spec

\* Every variable has its type in every reachable state.
THEOREM TypeCorrect == Spec => []TypeOK
  <1>1. TypeInv => TypeOK
    BY DEF TypeInv
  <1> QED  BY <1>1, TypeInvariant, PTL

-----------------------------------------------------------------------------
(* What is granted was shown.                                              *)

LEMMA HeldType ==
  ASSUME TypeInv, NEW p \in Held
  PROVE  p \in PageParams /\ p.challenge \in 1..requests
  <1>1. p \in PageParams
    <2>1. ASSUME NEW i \in 1..MaxRequests PROVE store[i].params \in PageParams \cup {NoParams}
      BY DEF TypeInv, TypeOK, Sessions
    <2>2. ASSUME NEW t \in Tab PROVE sess[t].params \in PageParams \cup {NoParams}
      BY DEF TypeInv, TypeOK, Sessions
    <2>3. ASSUME NEW t \in Tab, page[t].kind = "oauth" PROVE page[t].params \in PageParams
      BY <2>3, PageType
    <2> QED  BY <2>1, <2>2, <2>3 DEF Held, TypeInv, TypeOK
  <1> QED  BY <1>1 DEF PageParams

\* No step but ShowPage adds a page.
LEMMA KeepsPages ==
  ASSUME PagesInv, NEW t \in Tab, Held' \subseteq Held,
         \A u \in Tab : pc'[u] # "idle" =>
           \/ pc[u] # "idle" /\ serial'[u] = serial[u]
           \/ u = t /\ serial'[u] = requests + 1
  PROVE  Agree' /\ Serials' /\ \A u \in Tab : Unused(u)'
  <1>1. \A p \in Held' : p \in Held /\ p.challenge \in 1..requests
    BY HeldType DEF PagesInv
  <1>2. requests \in Nat
    BY DEF PagesInv, TypeInv, TypeOK
  <1>3. \A u \in Tab : pc[u] # "idle" => serial[u] \in 1..requests
    BY DEF PagesInv, TypeInv, HandlerOK
  <1>4. Agree'
    BY <1>1 DEF PagesInv, Agree
  <1>5. Serials'
    BY <1>2, <1>3 DEF PagesInv, Serials
  <1>6. ASSUME NEW u \in Tab PROVE Unused(u)'
    BY <1>1, <1>2 DEF PagesInv, Unused
  <1> QED  BY <1>4, <1>5, <1>6

LEMMA StoreHeld ==
  ASSUME NEW i \in 1..MaxRequests
  PROVE  store[i].params \in Held \cup {NoParams}
  BY DEF Held

LEMMA SessHeld ==
  ASSUME NEW t \in Tab
  PROVE  sess[t].params \in Held \cup {NoParams}
  BY DEF Held

\* A step of one tab adds no page if its session and its page are held.
LEMMA TabHeld ==
  ASSUME TypeInv, NEW t \in Tab, NEW s, NEW g,
         s.params \in Held \cup {NoParams},
         sess' = [sess EXCEPT ![t] = s], page' = [page EXCEPT ![t] = g],
         g.kind = "oauth" => g.params \in Held \cup {NoParams},
         \A i \in 1..MaxRequests : store'[i].params \in Held \cup {NoParams},
         allowed' \subseteq Held \cup {NoParams}
  PROVE  Held' \subseteq Held
  <1>1. \A u \in Tab : sess'[u].params \in Held \cup {NoParams}
    <2>1. \A u \in Tab : sess'[u] \in {sess[u], s}
      BY DEF TypeInv, TypeOK
    <2> QED  BY <2>1, SessHeld
  <1>2. \A u \in Tab : page'[u].kind = "oauth" => page'[u].params \in Held \cup {NoParams}
    <2>1. \A u \in Tab : page'[u] \in {page[u], g}
      BY DEF TypeInv, TypeOK
    <2>2. \A u \in Tab : page[u].kind = "oauth" => page[u].params \in Held \cup {NoParams}
      BY DEF Held
    <2> QED  BY <2>1, <2>2
  <1>3. SUFFICES ASSUME NEW p, p \in Held' PROVE p \in Held \cup {NoParams}
    BY DEF Held
  <1>4. \/ \E i \in 1..MaxRequests : p = store'[i].params
        \/ \E u \in Tab : p = sess'[u].params
        \/ \E u \in Tab : page'[u].kind = "oauth" /\ p = page'[u].params
        \/ p \in allowed'
    BY <1>3 DEF Held
  <1> QED  BY <1>1, <1>2, <1>4

LEMMA AllowedHeld ==
  ASSUME TypeInv
  PROVE  allowed \subseteq Held
  <1>1. NoParams \notin PageParams
    BY UserAssumption DEF NoParams, PageParams
  <1> QED  BY <1>1 DEF TypeInv, TypeOK, Held

LEMMA AcceptHeld ==
  ASSUME TypeInv, NEW t \in Tab, NEW r, NEW l, Accept(t, r, l), UNCHANGED page,
         allowed' \subseteq Held
  PROVE  Held' \subseteq Held
  <1> DEFINE s == IF cookie \in live THEN store[cookie] ELSE NewSession
  <1>1. cookie \in live => cookie \in 1..MaxRequests
    BY BoundAssumption DEF TypeInv, TypeOK
  <1>2. s.params \in Held \cup {NoParams}
    BY <1>1, StoreHeld DEF NewSession
  <1>3. /\ sess' = [sess EXCEPT ![t] = s] /\ page' = [page EXCEPT ![t] = page[t]]
        /\ store' = store
    BY DEF Accept, sessions, TypeInv, TypeOK
  <1>4. \A i \in 1..MaxRequests : store'[i].params \in Held \cup {NoParams}
    BY <1>3, StoreHeld
  <1>5. page[t].kind = "oauth" => page[t].params \in Held \cup {NoParams}
    BY DEF Held
  <1> HIDE DEF s
  <1> QED  BY <1>2, <1>3, <1>4, <1>5, TabHeld

LEMMA EndHeld ==
  ASSUME TypeInv, NEW t \in Tab, NEW g,
         \/ \E i \in 1..requests, s \in Sessions :
              EndAndSave(t, i, s) /\ s.params \in Held \cup {NoParams}
         \/ EndUnsaved(t),
         page' = [page EXCEPT ![t] = g], g.kind = "oauth" => g = page[t],
         UNCHANGED allowed
  PROVE  Held' \subseteq Held
  <1>1. sess' = [sess EXCEPT ![t] = NewSession] /\ NewSession.params = NoParams
    BY DEF EndAndSave, EndUnsaved, NewSession
  <1>2. \A i \in 1..MaxRequests : store'[i].params \in Held \cup {NoParams}
    <2>1. CASE EndUnsaved(t)
      BY <2>1, StoreHeld DEF EndUnsaved, sessions
    <2>2. ASSUME NEW i \in 1..requests, NEW s \in Sessions, EndAndSave(t, i, s),
                 s.params \in Held \cup {NoParams}
          PROVE  \A j \in 1..MaxRequests : store'[j].params \in Held \cup {NoParams}
      <3>1. \A j \in 1..MaxRequests : store'[j] \in {store[j], s}
        BY <2>2 DEF EndAndSave, TypeInv, TypeOK
      <3> QED  BY <2>2, <3>1, StoreHeld
    <2> QED  BY <2>1, <2>2
  <1>3. g.kind = "oauth" => g.params \in Held \cup {NoParams}
    BY DEF Held
  <1>4. allowed' \subseteq Held \cup {NoParams}
    BY AllowedHeld
  <1> QED  BY <1>1, <1>2, <1>3, <1>4, TabHeld

LEMMA RegenerateHeld ==
  ASSUME TypeInv, NEW t \in Tab, NEW s, s.params = sess[t].params,
         Destroy(sid[t]), sess' = [sess EXCEPT ![t] = s], UNCHANGED <<page, allowed>>
  PROVE  Held' \subseteq Held
  <1>1. \A i \in 1..MaxRequests : store'[i].params \in Held \cup {NoParams}
    <2>1. NewSession.params = NoParams
      BY DEF NewSession
    <2>2. \A i \in 1..MaxRequests : store'[i] \in {store[i], NewSession}
      BY DEF Destroy, TypeInv, TypeOK
    <2> QED  BY <2>1, <2>2, StoreHeld
  <1>2. page' = [page EXCEPT ![t] = page[t]]
    BY DEF TypeInv, TypeOK
  <1>3. page[t].kind = "oauth" => page[t].params \in Held \cup {NoParams}
    BY DEF Held
  <1>4. s.params \in Held \cup {NoParams} /\ allowed' \subseteq Held \cup {NoParams}
    BY SessHeld, AllowedHeld
  <1> QED  BY <1>1, <1>2, <1>3, <1>4, TabHeld

\* The credentials of the other tabs.
LEMMA OthersCredentials ==
  ASSUME PagesInv, NEW t \in Tab, allowed \subseteq allowed', CredentialOK(t)',
         \A u \in Tab \ {t} : pc'[u] = pc[u] /\ op'[u] = op[u] /\ sess'[u] = sess[u]
  PROVE  \A u \in Tab : CredentialOK(u)'
  BY DEF PagesInv, CredentialOK

\* Requests that come in.
LEMMA AcceptPages ==
  ASSUME PagesInv, TypeInv', NEW t \in Tab, NEW r, NEW l, l # "sign", Accept(t, r, l),
         UNCHANGED page, allowed \subseteq allowed', allowed' \subseteq Held,
         l = "oauth" => \E p \in allowed' : p.challenge = r.challenge
  PROVE  PagesInv'
  <1>1. /\ pc' = [pc EXCEPT ![t] = l] /\ serial' = [serial EXCEPT ![t] = requests + 1]
        /\ op' = [op EXCEPT ![t] = r]
    BY DEF Accept
  <1>2. Held' \subseteq Held
    BY AcceptHeld DEF PagesInv
  <1>3. /\ \A u \in Tab \ {t} : /\ pc'[u] = pc[u] /\ op'[u] = op[u] /\ sess'[u] = sess[u]
                                /\ serial'[u] = serial[u]
        /\ serial'[t] = requests + 1 /\ pc'[t] = l /\ op'[t] = r
    BY <1>1 DEF Accept, PagesInv, TypeInv, TypeOK
  <1>4. Agree' /\ Serials' /\ \A u \in Tab : Unused(u)'
    BY <1>2, <1>3, KeepsPages
  <1>5. \A u \in Tab : CredentialOK(u)'
    <2>1. CredentialOK(t)'
      BY <1>3 DEF CredentialOK
    <2> QED  BY <1>3, <2>1, OthersCredentials
  <1> QED  BY <1>4, <1>5 DEF PagesInv

\* Responses that end.
LEMMA EndPages ==
  ASSUME PagesInv, TypeInv', NEW t \in Tab, NEW g,
         \/ \E i \in 1..requests, s \in Sessions :
              EndAndSave(t, i, s) /\ s.params \in Held \cup {NoParams}
         \/ EndUnsaved(t),
         page' = [page EXCEPT ![t] = g], g.kind = "oauth" => g = page[t],
         UNCHANGED allowed
  PROVE  PagesInv'
  <1>1. /\ pc' = [pc EXCEPT ![t] = "idle"] /\ serial' = [serial EXCEPT ![t] = 0]
        /\ op' = [op EXCEPT ![t] = NoOp] /\ sess' = [sess EXCEPT ![t] = NewSession]
    BY DEF EndAndSave, EndUnsaved
  <1>2. Held' \subseteq Held
    BY EndHeld DEF PagesInv
  <1>3. /\ \A u \in Tab \ {t} : /\ pc'[u] = pc[u] /\ op'[u] = op[u] /\ sess'[u] = sess[u]
                                /\ serial'[u] = serial[u]
        /\ pc'[t] = "idle"
    BY <1>1 DEF PagesInv, TypeInv, TypeOK
  <1>4. Agree' /\ Serials' /\ \A u \in Tab : Unused(u)'
    BY <1>2, <1>3, KeepsPages
  <1>5. \A u \in Tab : CredentialOK(u)'
    <2>1. CredentialOK(t)'
      BY <1>3 DEF CredentialOK
    <2> QED  BY <1>3, <2>1, OthersCredentials
  <1> QED  BY <1>4, <1>5 DEF PagesInv

\* A new page has a challenge that no other has.
LEMMA ShowPagePages ==
  ASSUME PagesInv, TypeInv', NEW t \in Tab, ShowPage(t)
  PROVE  PagesInv'
  <1> DEFINE p == [op[t].params EXCEPT !.challenge = serial[t]]
             s == [sess[t] EXCEPT !.params = p]
             g == [kind |-> "oauth", params |-> p, offers |-> Offers(t, {p.user})]
  <1>1. /\ pc[t] = "options" /\ EndAndSave(t, sid[t], s) /\ page' = [page EXCEPT ![t] = g]
        /\ UNCHANGED allowed
    BY DEF ShowPage, Show
  <1>2. p \in PageParams
    BY ShowPageType DEF PagesInv
  <1>3. op[t].params \in [app : App, user : User, asked : Asked, challenge : {0}]
    BY <1>1 DEF PagesInv, TypeInv, TypeOK, HandlerOK, Ops
  <1>4. p.challenge = serial[t]
    BY <1>3
  <1>5. sess[t] \in Sessions
    BY DEF PagesInv, TypeInv, TypeOK
  <1> HIDE DEF p
  <1>6. s.params = p /\ g.params = p
    BY <1>5 DEF Sessions
  <1> HIDE DEF s, g
  <1>7. /\ pc' = [pc EXCEPT ![t] = "idle"] /\ serial' = [serial EXCEPT ![t] = 0]
        /\ op' = [op EXCEPT ![t] = NoOp] /\ sess' = [sess EXCEPT ![t] = NewSession]
        /\ store' = [store EXCEPT ![sid[t]] = s]
    BY <1>1 DEF EndAndSave
  <1>8. /\ \A u \in Tab \ {t} : /\ pc'[u] = pc[u] /\ op'[u] = op[u] /\ sess'[u] = sess[u]
                                /\ serial'[u] = serial[u]
        /\ pc'[t] = "idle" /\ NewSession.params = NoParams
        /\ \A u \in Tab : page'[u] \in {page[u], g} /\ sess'[u] \in {sess[u], NewSession}
        /\ \A i \in 1..MaxRequests : store'[i] \in {store[i], s}
    BY <1>1, <1>7 DEF PagesInv, TypeInv, TypeOK, NewSession
  <1>9. Held' \subseteq Held \cup {p}
    <2>1. SUFFICES ASSUME NEW q, q \in Held' PROVE q \in Held \cup {p, NoParams}
      BY DEF Held
    <2>2. \/ \E i \in 1..MaxRequests : q = store'[i].params
          \/ \E u \in Tab : q = sess'[u].params
          \/ \E u \in Tab : page'[u].kind = "oauth" /\ q = page'[u].params
          \/ q \in allowed'
      BY <2>1 DEF Held
    <2>3. \A u \in Tab : page[u].kind = "oauth" => page[u].params \in Held \cup {NoParams}
      BY DEF Held
    <2> QED  BY <1>1, <1>6, <1>8, <2>2, <2>3, StoreHeld, SessHeld, AllowedHeld DEF PagesInv
  <1>10. \A q \in Held : q.challenge # serial[t]
    BY <1>1 DEF PagesInv, Unused
  <1>11. Agree'
    BY <1>4, <1>9, <1>10 DEF PagesInv, Agree
  <1>12. Serials'
    BY <1>8 DEF PagesInv, Serials
  <1>13. ASSUME NEW u \in Tab PROVE Unused(u)'
    <2>1. CASE u = t
      BY <1>8, <2>1 DEF Unused
    <2>2. CASE u # t
      <3>1. pc'[u] = pc[u] /\ serial'[u] = serial[u]
        BY <1>8, <2>2
      <3>2. pc[u] # "idle" => serial[u] # serial[t]
        BY <1>1, <2>2 DEF PagesInv, Serials
      <3> QED  BY <1>4, <1>9, <3>1, <3>2 DEF PagesInv, Unused
    <2> QED  BY <2>1, <2>2
  <1>14. \A u \in Tab : CredentialOK(u)'
    <2>1. CredentialOK(t)'
      BY <1>8 DEF CredentialOK
    <2>2. allowed \subseteq allowed'
      BY <1>1
    <2> QED  BY <1>8, <2>1, <2>2, OthersCredentials
  <1> QED  BY <1>11, <1>12, <1>13, <1>14 DEF PagesInv

\* Verification leads to the parameters of the page that was allowed.
LEMMA RegeneratePages ==
  ASSUME PagesInv, TypeInv', NEW t \in Tab, Regenerate(t)
  PROVE  PagesInv'
  <1> DEFINE s == Regenerated(sess[t], op[t].user, FALSE)
  <1>1. /\ pc[t] = "oauth" /\ VerifiedForPage(t) /\ Destroy(sid[t])
        /\ sess' = [sess EXCEPT ![t] = s] /\ Continue(t, "sign")
        /\ UNCHANGED <<serial, op, page, allowed>>
    BY DEF Regenerate, history
  <1>2. /\ op[t].user \in User /\ sess[t].params # NoParams
        /\ op[t].challenge = sess[t].params.challenge
    BY <1>1, VerifiedType DEF VerifiedForPage, PagesInv
  <1>3. s.params = sess[t].params
    BY <1>2, AtWork, RegeneratedType DEF PagesInv
  <1> HIDE DEF s
  <1>4. Held' \subseteq Held
    BY <1>1, <1>3, RegenerateHeld DEF PagesInv
  <1>5. /\ \A u \in Tab \ {t} : /\ pc'[u] = pc[u] /\ op'[u] = op[u] /\ sess'[u] = sess[u]
        /\ pc'[t] = "sign" /\ sess'[t] = s
    BY <1>1 DEF Continue, PagesInv, TypeInv, TypeOK
  <1>6. Agree' /\ Serials' /\ \A u \in Tab : Unused(u)'
    <2>1. \A u \in Tab : pc'[u] # "idle" => pc[u] # "idle" /\ serial'[u] = serial[u]
      BY <1>1, <1>5
    <2> QED  BY <1>4, <2>1, KeepsPages
  <1>7. sess[t].params \in allowed
    <2>1. PICK p \in allowed : p.challenge = op[t].challenge
      BY <1>1 DEF PagesInv, CredentialOK
    <2>2. p \in Held /\ sess[t].params \in Held
      BY <1>2, AllowedHeld, SessHeld DEF PagesInv
    <2>3. p = sess[t].params
      BY <1>2, <2>1, <2>2 DEF PagesInv, Agree
    <2> QED  BY <2>1, <2>3
  <1>8. \A u \in Tab : CredentialOK(u)'
    <2>1. CredentialOK(t)'
      BY <1>1, <1>3, <1>5, <1>7 DEF CredentialOK
    <2> QED  BY <1>1, <1>5, <2>1, OthersCredentials
  <1> QED  BY <1>6, <1>8 DEF PagesInv

LEMMA LoginPages ==
  ASSUME PagesInv, TypeInv', NEW t \in Tab, Login(t)
  PROVE  PagesInv'
  <1> DEFINE r == Regenerated(sess[t], op[t].user, op[t].at = "admin")
             s == [r EXCEPT !.user = op[t].user]
  <1>1. /\ pc[t] = "check" /\ Destroy(sid[t])
        /\ sess' = [sess EXCEPT ![t] = s] /\ Continue(t, "loggedIn")
        /\ UNCHANGED <<serial, op, page, allowed>>
    BY DEF Login, history
  <1>2. op[t].user \in User
    BY <1>1 DEF PagesInv, TypeInv, HandlerOK
  <1>3. (op[t].at = "admin") \in BOOLEAN
    OBVIOUS
  <1>4. r \in Sessions /\ r.params = sess[t].params
    BY <1>2, <1>3, AtWork, RegeneratedType DEF PagesInv
  <1> HIDE DEF r
  <1>5. s.params = sess[t].params
    BY <1>4 DEF Sessions
  <1> HIDE DEF s
  <1>6. Held' \subseteq Held
    BY <1>1, <1>5, RegenerateHeld DEF PagesInv
  <1>7. /\ \A u \in Tab \ {t} : /\ pc'[u] = pc[u] /\ op'[u] = op[u] /\ sess'[u] = sess[u]
        /\ pc'[t] = "loggedIn"
    BY <1>1 DEF Continue, PagesInv, TypeInv, TypeOK
  <1>8. Agree' /\ Serials' /\ \A u \in Tab : Unused(u)'
    <2>1. \A u \in Tab : pc'[u] # "idle" => pc[u] # "idle" /\ serial'[u] = serial[u]
      BY <1>1, <1>7
    <2> QED  BY <1>6, <2>1, KeepsPages
  <1>9. \A u \in Tab : CredentialOK(u)'
    <2>1. CredentialOK(t)'
      BY <1>7 DEF CredentialOK
    <2> QED  BY <1>1, <1>7, <2>1, OthersCredentials
  <1> QED  BY <1>8, <1>9 DEF PagesInv

\* The requests that come in, one by one.
LEMMA RequestsPages ==
  ASSUME PagesInv, TypeInv', NEW t \in Tab,
         \/ \E app \in App, u \in User, asked \in Asked : Open(t, app, u, asked)
         \/ \E u \in User, days \in Days : Allow(t, u, days)
         \/ \E l \in {"login", "admin"} : OpenLogin(t, l)
         \/ \E u \in User : Submit(t, u)
  PROVE  PagesInv'
  <1>1. allowed \subseteq Held
    BY AllowedHeld DEF PagesInv
  <1>2. ASSUME NEW app \in App, NEW u \in User, NEW asked \in Asked, Open(t, app, u, asked)
        PROVE  PagesInv'
    <2> DEFINE r == [NoOp EXCEPT !.params = [app |-> app, user |-> u, asked |-> asked,
                                             challenge |-> 0]]
    <2>1. Accept(t, r, "options") /\ UNCHANGED <<page, allowed>>
      BY <1>2 DEF Open
    <2> HIDE DEF r
    <2> QED  BY <1>1, <2>1, AcceptPages
  <1>3. ASSUME NEW u \in User, NEW days \in Days, Allow(t, u, days) PROVE PagesInv'
    <2> DEFINE r == Credential(t, u, "oauth", days)
    <2>1. /\ page[t].kind = "oauth" /\ Accept(t, r, "oauth") /\ UNCHANGED page
          /\ allowed' = allowed \cup {page[t].params}
      BY <1>3 DEF Allow
    <2>2. page[t].params \in PageParams
      BY <2>1, PageType DEF PagesInv
    <2>3. page[t].params # NoParams
      BY <2>2, UserAssumption DEF PageParams, NoParams
    <2>4. allowed \subseteq allowed' /\ allowed' \subseteq Held
      BY <1>1, <2>1, <2>3 DEF Held
    <2>5. \E p \in allowed' : p.challenge = r.challenge
      BY <2>1 DEF Credential
    <2> HIDE DEF r
    <2> QED  BY <2>1, <2>4, <2>5, AcceptPages
  <1>4. ASSUME NEW l \in {"login", "admin"}, OpenLogin(t, l) PROVE PagesInv'
    <2>1. Accept(t, NoOp, l) /\ UNCHANGED <<page, allowed>> /\ l \notin {"sign", "oauth"}
      BY <1>4 DEF OpenLogin
    <2> QED  BY <1>1, <2>1, AcceptPages
  <1>5. ASSUME NEW u \in User, Submit(t, u) PROVE PagesInv'
    <2> DEFINE r == Credential(t, u, page[t].kind, 0)
    <2>1. Accept(t, r, "check") /\ UNCHANGED <<page, allowed>>
      BY <1>5 DEF Submit
    <2> HIDE DEF r
    <2> QED  BY <1>1, <2>1, AcceptPages
  <1> QED  BY <1>2, <1>3, <1>4, <1>5

\* The responses that end, one by one.
LEMMA EndsPages ==
  ASSUME PagesInv, TypeInv', NEW t \in Tab,
         \/ PageFails(t) \/ NotVerified(t) \/ UpdateFails(t) \/ Sign(t) \/ LoginPage(t)
         \/ LoggedIn(t) \/ LoginTooLate(t) \/ LoginFails(t)
  PROVE  PagesInv'
  <1>1. /\ sess[t] \in Sessions /\ Cleared \in Sessions /\ requests \in Nat
        /\ pc[t] # "idle" => sid[t] \in 1..requests /\ serial[t] \in 1..requests
    BY AtWork DEF PagesInv
  <1>2. sess[t].params \in Held \cup {NoParams} /\ Cleared.params \in Held \cup {NoParams}
    BY SessHeld DEF Cleared, NewSession
  <1>3. Blank.kind # "oauth" /\ page = [page EXCEPT ![t] = page[t]]
    BY DEF Blank, PagesInv, TypeInv, TypeOK
  <1>4. CASE PageFails(t)
    <2>1. /\ pc[t] # "idle" /\ EndAndSave(t, sid[t], Cleared)
          /\ page' = [page EXCEPT ![t] = Blank] /\ UNCHANGED allowed
      BY <1>4 DEF PageFails, Show
    <2> QED  BY <1>1, <1>2, <1>3, <2>1, EndPages
  <1>5. CASE NotVerified(t) \/ UpdateFails(t)
    <2>1. EndUnsaved(t) /\ page' = [page EXCEPT ![t] = Blank] /\ UNCHANGED allowed
      BY <1>5 DEF NotVerified, UpdateFails, Show, history
    <2> QED  BY <1>3, <2>1, EndPages
  <1>6. CASE Sign(t) \/ LoggedIn(t)
    <2>1. /\ pc[t] # "idle" /\ EndAndSave(t, sid[t], sess[t])
          /\ page' = [page EXCEPT ![t] = Blank] /\ UNCHANGED allowed
      BY <1>6 DEF Sign, LoggedIn, Show, history
    <2> QED  BY <1>1, <1>2, <1>3, <2>1, EndPages
  <1>7. CASE LoginTooLate(t)
    <2>1. EndUnsaved(t) /\ page' = [page EXCEPT ![t] = page[t]] /\ UNCHANGED allowed
      BY <1>3, <1>7 DEF LoginTooLate, history
    <2> QED  BY <1>3, <2>1, EndPages
  <1>8. CASE LoginFails(t)
    <2>1. /\ pc[t] # "idle" /\ EndAndSave(t, sid[t], Cleared)
          /\ page' = [page EXCEPT ![t] = page[t]] /\ UNCHANGED allowed
      BY <1>3, <1>8 DEF LoginFails
    <2> QED  BY <1>1, <1>2, <1>3, <2>1, EndPages
  <1>9. CASE LoginPage(t)
    <2> DEFINE s0 == IF sess[t].user = Nobody THEN Cleared ELSE sess[t]
               s == [s0 EXCEPT !.login = serial[t]]
               g == [kind |-> pc[t], params |-> [NoParams EXCEPT !.challenge = serial[t]],
                     offers |-> Offers(t, User)]
    <2>1. /\ pc[t] \in {"login", "admin"} /\ EndAndSave(t, sid[t], s)
          /\ page' = [page EXCEPT ![t] = g] /\ UNCHANGED allowed
      BY <1>9 DEF LoginPage, Show
    <2>2. s0 \in Sessions /\ s0.params \in Held \cup {NoParams} /\ g.kind # "oauth"
      BY <1>1, <1>2, <2>1
    <2> HIDE DEF s0
    <2>3. s \in Sessions /\ s.params \in Held \cup {NoParams}
      BY <1>1, <2>1, <2>2 DEF Sessions
    <2> HIDE DEF s, g
    <2> QED  BY <1>1, <2>1, <2>2, <2>3, EndPages
  <1> QED  BY <1>4, <1>5, <1>6, <1>7, <1>8, <1>9

\* Steps that are no tab's handler, and those that only end a session.
LEMMA OtherPages ==
  ASSUME PagesInv, TypeInv',
         Restart \/ SessionExpires \/ (\E t \in Tab : Logout(t)) \/ UNCHANGED vars
  PROVE  PagesInv'
  <1>1. /\ UNCHANGED allowed
        /\ \A u \in Tab : page'[u] \in {page[u], Blank} /\ sess'[u] \in {sess[u], NewSession}
        /\ \A i \in 1..MaxRequests : store'[i] \in {store[i], NewSession}
        /\ \A u \in Tab : pc'[u] # "idle" =>
             /\ pc'[u] = pc[u] /\ serial'[u] = serial[u] /\ op'[u] = op[u]
             /\ sess'[u] = sess[u]
    <2>1. CASE Restart
      BY <2>1 DEF Restart, PagesInv, TypeInv, TypeOK
    <2>2. CASE SessionExpires
      BY <2>2 DEF SessionExpires, Destroy, handlers, PagesInv, TypeInv, TypeOK
    <2>3. CASE \E t \in Tab : Logout(t)
      BY <2>3 DEF Logout, Destroy, Show, handlers, PagesInv, TypeInv, TypeOK
    <2>4. CASE UNCHANGED vars
      BY <2>4 DEF vars, sessions, handlers, history, PagesInv, TypeInv, TypeOK
    <2> QED  BY <2>1, <2>2, <2>3, <2>4
  <1>2. Held' \subseteq Held
    <2>1. SUFFICES ASSUME NEW q, q \in Held' PROVE q \in Held \cup {NoParams}
      BY DEF Held
    <2>2. \/ \E i \in 1..MaxRequests : q = store'[i].params
          \/ \E u \in Tab : q = sess'[u].params
          \/ \E u \in Tab : page'[u].kind = "oauth" /\ q = page'[u].params
          \/ q \in allowed'
      BY <2>1 DEF Held
    <2>3. \A u \in Tab : page[u].kind = "oauth" => page[u].params \in Held \cup {NoParams}
      BY DEF Held
    <2>4. NewSession.params = NoParams /\ Blank.params = NoParams
      BY DEF NewSession, Blank
    <2> QED  BY <1>1, <2>2, <2>3, <2>4, StoreHeld, SessHeld, AllowedHeld DEF PagesInv
  <1>3. Agree'
    BY <1>2 DEF PagesInv, Agree
  <1>4. Serials'
    BY <1>1 DEF PagesInv, Serials
  <1>5. \A u \in Tab : Unused(u)'
    BY <1>1, <1>2 DEF PagesInv, Unused
  <1>6. \A u \in Tab : CredentialOK(u)'
    BY <1>1 DEF PagesInv, CredentialOK
  <1> QED  BY <1>3, <1>4, <1>5, <1>6 DEF PagesInv

LEMMA NextPages ==
  ASSUME PagesInv, [Next]_vars
  PROVE  PagesInv'
  <1>1. TypeInv'
    BY NextType DEF PagesInv
  <1>2. ASSUME NEW t \in Tab, Authorization(t) PROVE PagesInv'
    BY <1>1, <1>2, RequestsPages, ShowPagePages, EndsPages, RegeneratePages DEF Authorization
  <1>3. ASSUME NEW t \in Tab, LoggingIn(t) PROVE PagesInv'
    BY <1>1, <1>3, RequestsPages, EndsPages, LoginPages, OtherPages DEF LoggingIn
  <1> QED  BY <1>1, <1>2, <1>3, OtherPages DEF Next

\* Only Sign makes tokens.
LEMMA TokensFrom ==
  ASSUME TypeInv, [Next]_vars
  PROVE  /\ allowed \subseteq allowed'
         /\ tokens' = tokens \/ \E t \in Tab : Sign(t)
  <1>1. ASSUME NEW t \in Tab, Authorization(t)
        PROVE  allowed \subseteq allowed' /\ (tokens' = tokens \/ Sign(t))
    BY <1>1 DEF Authorization, Open, Accept, ShowPage, PageFails, Allow, NotVerified,
                UpdateFails, Regenerate, Sign, history
  <1>2. ASSUME NEW t \in Tab, LoggingIn(t)
        PROVE  allowed \subseteq allowed' /\ tokens' = tokens
    BY <1>2 DEF LoggingIn, OpenLogin, Accept, LoginPage, Submit, Login, LoggedIn,
                LoginTooLate, LoginFails, Logout, history
  <1>3. CASE SessionExpires \/ Restart \/ UNCHANGED vars
    BY <1>3 DEF SessionExpires, Restart, vars, history
  <1> QED  BY <1>1, <1>2, <1>3 DEF Next

LEMMA NextGrants ==
  ASSUME GrantInv, [Next]_vars
  PROVE  GrantInv'
  <1>1. PagesInv'
    BY NextPages DEF GrantInv
  <1>2. GrantedAsShown'
    <2>1. allowed \subseteq allowed' /\ (tokens' = tokens \/ \E t \in Tab : Sign(t))
      BY TokensFrom DEF GrantInv, PagesInv
    <2>2. CASE tokens' = tokens
      BY <2>1, <2>2 DEF GrantInv, GrantedAsShown
    <2>3. ASSUME NEW t \in Tab, Sign(t) PROVE GrantedAsShown'
      <3> DEFINE p == sess[t].params
                 k == [aud |-> p.app, sub |-> p.user, scopes |-> Granted(p.asked),
                       days |-> op[t].days]
      <3>1. pc[t] = "sign" /\ tokens' \subseteq tokens \cup {k}
        BY <2>3 DEF Sign
      <3>2. p \in allowed'
        BY <2>1, <3>1 DEF GrantInv, PagesInv, CredentialOK
      <3>3. k.aud = p.app /\ k.sub = p.user /\ k.scopes = Granted(p.asked)
        OBVIOUS
      <3> HIDE DEF p, k
      <3> QED  BY <2>1, <3>1, <3>2, <3>3 DEF GrantInv, GrantedAsShown
    <2> QED  BY <2>1, <2>2, <2>3
  <1> QED  BY <1>1, <1>2 DEF GrantInv

LEMMA InitGrants == Init => GrantInv
  <1> SUFFICES ASSUME Init PROVE GrantInv
    OBVIOUS
  <1>1. TypeInv
    BY InitType
  <1>2. Held = {}
    <2>1. NewSession.params = NoParams /\ Blank.kind # "oauth"
      BY DEF NewSession, Blank
    <2> QED  BY <2>1 DEF Init, Held
  <1>3. Agree /\ \A t \in Tab : Unused(t)
    BY <1>2 DEF Agree, Unused
  <1>4. Serials /\ \A t \in Tab : CredentialOK(t)
    BY DEF Init, Serials, CredentialOK
  <1>5. GrantedAsShown
    BY DEF Init, GrantedAsShown
  <1> QED  BY <1>1, <1>3, <1>4, <1>5 DEF GrantInv, PagesInv

LEMMA GrantInvariant == Spec => []GrantInv
  <1>1. GrantInv /\ [Next]_vars => GrantInv'
    BY NextGrants
  <1> QED  BY <1>1, InitGrants, PTL DEF Spec

\* Every token is for the app, the user and the scopes of one page on which the
\* user pressed Allow, however many pages share the session.
THEOREM GrantedCorrect == Spec => []GrantedAsShown
  <1>1. GrantInv => GrantedAsShown
    BY DEF GrantInv
  <1> QED  BY <1>1, GrantInvariant, PTL

-----------------------------------------------------------------------------
(* What a token opens.                                                     *)

\* checkToken's choice of a segment finds only names whose module the path is in,
\* and all of them but "public".
LEMMA NameRequired ==
  ASSUME NEW m \in Name \cup {Bad}, NEW segs \in Seq(Name \cup {Bad})
  PROVE  /\ m \in {RequiredName(segs), Star} => InModule(m, segs)
         /\ m # Public /\ InModule(m, segs) => m \in {RequiredName(segs), Star}
  <1>1. Len(segs) \in Nat
    OBVIOUS
  <1>2. CASE Len(segs) = 0
    BY <1>1, <1>2 DEF RequiredName, InModule
  <1>3. CASE Len(segs) # 0 /\ segs[1] # Public
    <2>1. RequiredName(segs) = segs[1]
      BY <1>1, <1>3 DEF RequiredName
    <2> QED  BY <1>1, <1>3, <2>1 DEF InModule
  <1>4. CASE Len(segs) = 1 /\ segs[1] = Public
    <2>1. RequiredName(segs) = Star
      BY <1>1, <1>4 DEF RequiredName
    <2> QED  BY <1>1, <1>4, <2>1 DEF InModule
  <1>5. CASE Len(segs) >= 2 /\ segs[1] = Public
    <2>1. RequiredName(segs) = segs[2]
      BY <1>1, <1>5 DEF RequiredName
    <2> QED  BY <1>1, <1>5, <2>1 DEF InModule
  <1>6. Len(segs) = 0 \/ Len(segs) = 1 \/ Len(segs) >= 2
    <2>1. \A n \in Nat : n = 0 \/ n = 1 \/ n >= 2
      OBVIOUS
    <2> QED  BY <1>1, <2>1
  <1>7. CASE Len(segs) = 1
    BY <1>3, <1>4, <1>7
  <1>8. CASE Len(segs) >= 2
    BY <1>1, <1>3, <1>5, <1>8
  <1> QED  BY <1>2, <1>6, <1>7, <1>8

\* What checkToken finds in the token is what one of the scopes asked for gives.
LEMMA CoversOf ==
  ASSUME NEW asked \in Asked, NEW segs, NEW method
  PROVE  Covers(Granted(asked), method, segs) <=>
           \E s \in Scopes(asked) :
              /\ Kept[s[1]] \in {RequiredName(segs), Star}
              /\ (IF s[2] = "none" THEN "rw" ELSE Begins[s[2]]) \in RequiredLevels(method)
  <1> DEFINE Given(s) == <<Kept[s[1]], IF s[2] = "none" THEN "rw" ELSE Begins[s[2]]>>
  <1>1. Granted(asked) = {Given(s) : s \in Scopes(asked)}
    BY DEF Granted
  <1>2. \A s : Given(s)[1] = Kept[s[1]]
               /\ Given(s)[2] = IF s[2] = "none" THEN "rw" ELSE Begins[s[2]]
    OBVIOUS
  <1> HIDE DEF Given
  <1>3. Covers(Granted(asked), method, segs) <=>
          \E s \in Scopes(asked) : /\ Given(s)[1] \in {RequiredName(segs), Star}
                                   /\ Given(s)[2] \in RequiredLevels(method)
    BY <1>1 DEF Covers
  <1> QED  BY <1>2, <1>3

\* A set of the positions of a sequence has a last one.
LEMMA LastOf ==
  ASSUME NEW n \in Nat, NEW S \in SUBSET (1..n), S # {}
  PROVE  \E j \in S : \A k \in S : k <= j
  <1> DEFINE T == {n - k : k \in S}
  <1>1. T \subseteq Nat /\ T # {}
    <2>1. \A k \in S : n - k \in Nat
      OBVIOUS
    <2> QED  BY <2>1
  <1>2. PICK m \in T : \A x \in T : ~(<<x, m>> \in OpToRel(<, Nat))
    BY <1>1, NatLessThanWellFounded, WFMin
  <1>3. PICK j \in S : m = n - j
    BY <1>2
  <1>4. ASSUME NEW k \in S
        PROVE  k <= j
    <2>1. n - k \in T /\ {n - k, m} \subseteq Nat
      BY <1>1, <1>2
    <2>2. ~(n - k < m)
      BY <1>2, <2>1 DEF OpToRel
    <2> QED  BY <1>3, <2>1, <2>2
  <1> QED  BY <1>4

\* What the page shows are scopes asked for, and every name is shown.
LEMMA ShownOf ==
  ASSUME NEW asked \in Asked
  PROVE  /\ \A s \in Shown(asked) :
              \E t \in Scopes(asked) : s[1] = t[1] /\ s[2] = Displayed(t[2])
         /\ \A t \in Scopes(asked) : \E s \in Shown(asked) : s[1] = t[1]
  <1> DEFINE Show1(i) == <<asked[i][1], Displayed(asked[i][2])>>
             Final(j) == \A k \in DOMAIN asked : k > j => asked[k][1] # asked[j][1]
  <1>1. asked \in Seq(Name \X Level) /\ Len(asked) \in Nat /\ DOMAIN asked = 1..Len(asked)
    BY AskedAssumption
  <1>2. \A s : s \in Shown(asked) <=> \E i \in DOMAIN asked : Final(i) /\ s = Show1(i)
    BY DEF Shown
  <1>3. \A i : Show1(i)[1] = asked[i][1] /\ Show1(i)[2] = Displayed(asked[i][2])
    OBVIOUS
  <1>4. ASSUME NEW t \in Scopes(asked)
        PROVE  \E s \in Shown(asked) : s[1] = t[1]
    <2> DEFINE Same == {i \in DOMAIN asked : asked[i][1] = t[1]}
    <2>1. PICK i \in DOMAIN asked : asked[i] = t
      BY DEF Scopes
    <2>2. i \in Same /\ Same \subseteq 1..Len(asked)
      BY <1>1, <2>1
    <2>3. PICK j \in Same : \A k \in Same : k <= j
      <3> HIDE DEF Same
      <3> QED  BY <1>1, <2>2, LastOf
    <2>4. j \in DOMAIN asked /\ Final(j) /\ Show1(j)[1] = t[1]
      BY <1>1, <1>3, <2>2, <2>3
    <2> HIDE DEF Final, Show1
    <2> QED  BY <1>2, <2>4
  <1>5. ASSUME NEW s \in Shown(asked)
        PROVE  \E t \in Scopes(asked) : s[1] = t[1] /\ s[2] = Displayed(t[2])
    <2> HIDE DEF Final, Show1
    <2>1. PICK i \in DOMAIN asked : s = Show1(i)
      BY <1>2
    <2>2. asked[i] \in Scopes(asked)
      BY DEF Scopes
    <2> QED  BY <1>3, <2>1, <2>2
  <1> QED  BY <1>4, <1>5

\* A scope that is not odd is in the token as the page shows it.
LEMMA PlainScopes ==
  ASSUME NEW asked \in Asked, NEW t \in Scopes(asked), t \notin Odd(asked)
  PROVE  /\ Kept[t[1]] = t[1] /\ t[1] \in Name /\ t[1] # Public
         /\ Displayed(t[2]) \in {"r", "rw"}
         /\ (IF t[2] = "none" THEN "rw" ELSE Begins[t[2]]) = Displayed(t[2])
         /\ \A u \in Scopes(asked) : u[1] = t[1] => Displayed(u[2]) = Displayed(t[2])
  <1>1. t \in Name \X Level
    BY AskedAssumption DEF Scopes
  <1> QED  BY <1>1, LevelAssumption DEF Odd, Displayed

\* Beside odd scopes the token's scopes cover what the page said, and in any case
\* only what it mentions.
LEMMA CoversAsSaid ==
  ASSUME NEW p \in PageParams, NEW r \in Request
  PROVE  LET covers == Covers(Granted(p.asked), r.method, r.path.segs) IN
         /\ covers => Mentioned(p, r)
         /\ Doubtful(p, r) \/ (covers <=> SaidToAllow(p, r))
  <1> DEFINE asked == p.asked
             segs == r.path.segs
             method == r.method
             Level1(t) == IF t[2] = "none" THEN "rw" ELSE Begins[t[2]]
             Opens(t) == /\ Kept[t[1]] \in {RequiredName(segs), Star}
                         /\ Level1(t) \in RequiredLevels(method)
  <1>1. asked \in Asked /\ segs \in Seq(Name \cup {Bad}) /\ method \in {"GET", "PUT"}
    BY PathAssumption DEF PageParams, Request
  <1>2. \A t \in Scopes(asked) : t[1] \in Name /\ Kept[t[1]] \in Name \cup {Bad}
    BY <1>1, AskedAssumption, NameAssumption DEF Scopes
  <1>3. Covers(Granted(asked), method, segs) <=> \E t \in Scopes(asked) : Opens(t)
    BY <1>1, CoversOf
  <1>4. ASSUME NEW t \in Scopes(asked), Opens(t)
        PROVE  InModule(Kept[t[1]], segs)
    BY <1>1, <1>2, <1>4, NameRequired
  <1>5. ASSUME NEW t \in Scopes(asked), Opens(t)
        PROVE  Mentioned(p, r)
    <2>1. PICK s \in Shown(asked) : s[1] = t[1]
      BY <1>1, ShownOf
    <2> QED  BY <1>4, <1>5, <2>1 DEF Mentioned
  <1>6. ASSUME ~Doubtful(p, r), NEW t \in Scopes(asked), Opens(t)
        PROVE  SaidToAllow(p, r)
    <2>1. t \notin Odd(asked)
      BY <1>4, <1>6 DEF Doubtful
    <2>2. PICK s \in Shown(asked) : s[1] = t[1]
      BY <1>1, ShownOf
    <2>3. PICK u \in Scopes(asked) : s[1] = u[1] /\ s[2] = Displayed(u[2])
      BY <1>1, ShownOf
    <2>4. s[2] = Displayed(t[2]) /\ Level1(t) = Displayed(t[2]) /\ Kept[t[1]] = t[1]
      BY <1>1, <2>1, <2>2, <2>3, PlainScopes
    <2>5. InModule(s[1], segs)
      BY <1>4, <1>6, <2>2, <2>4
    <2>6. s[2] = "rw" \/ (s[2] = "r" /\ method = "GET")
      BY <1>1, <1>6, <2>4 DEF RequiredLevels
    <2> QED  BY <2>5, <2>6 DEF SaidToAllow
  <1>7. ASSUME ~Doubtful(p, r), SaidToAllow(p, r)
        PROVE  \E t \in Scopes(asked) : Opens(t)
    <2>1. PICK s \in Shown(asked) :
            InModule(s[1], segs) /\ (s[2] = "rw" \/ (s[2] = "r" /\ method = "GET"))
      BY <1>7 DEF SaidToAllow
    <2>2. PICK t \in Scopes(asked) : s[1] = t[1] /\ s[2] = Displayed(t[2])
      BY <1>1, ShownOf
    <2>3. t \notin Odd(asked)
      BY <1>7, <2>1, <2>2 DEF Doubtful
    <2>4. Level1(t) = s[2] /\ Kept[t[1]] = s[1] /\ s[1] # Public /\ s[1] \in Name
      BY <1>1, <2>2, <2>3, PlainScopes
    <2>5. Kept[t[1]] \in {RequiredName(segs), Star}
      BY <1>1, <2>1, <2>4, NameRequired
    <2>6. Level1(t) \in RequiredLevels(method)
      BY <1>1, <2>1, <2>4 DEF RequiredLevels
    <2> QED  BY <2>5, <2>6
  <1> HIDE DEF Opens
  <1> QED  BY <1>3, <1>5, <1>6, <1>7

\* The statuses of storage_common.js.
LEMMA StatusOK ==
  ASSUME NEW k, NEW r, NEW age
  PROVE  Status(k, r, age) = 200 <=>
           /\ ~Malformed(r)
           /\ \/ PublicDocument(r)
              \/ /\ k # NoToken /\ ~Expired(k, age) /\ k.sub = r.user /\ k.aud = r.origin
                 /\ Covers(k.scopes, r.method, r.path.segs)
  <1>1. CASE Malformed(r)
    BY <1>1 DEF Status
  <1>2. CASE ~Malformed(r) /\ PublicDocument(r)
    BY <1>2 DEF Status
  <1>3. CASE ~Malformed(r) /\ ~PublicDocument(r)
    <2>1. Status(k, r, age) =
            IF k = NoToken \/ Expired(k, age) \/ k.sub # r.user \/ k.aud # r.origin
            THEN 401 ELSE IF Covers(k.scopes, r.method, r.path.segs) THEN 200 ELSE 403
      BY <1>3 DEF Status
    <2> QED  BY <1>3, <2>1
  <1> QED  BY <1>1, <1>2, <1>3

LEMMA AccessFromGrants ==
  ASSUME TypeInv, GrantedAsShown
  PROVE  AccessAsShown
  <1> DEFINE toAll(r) == ~Malformed(r) /\ PublicDocument(r)
             inForce(k, r, age) == /\ ~Malformed(r) /\ k.sub = r.user /\ k.aud = r.origin
                                   /\ age < k.days /\ age < MaxAge
             passes(k, r, age) == Status(k, r, age) = 200
             covers(k, r) == Covers(k.scopes, r.method, r.path.segs)
  <1>1. ASSUME NEW r \in Request
        PROVE  Status(NoToken, r, 0) = 200 <=> toAll(r)
    BY StatusOK
  <1>2. ASSUME NEW k \in tokens, NEW r \in Request, NEW age \in 1..MaxAge
        PROVE  passes(k, r, age) <=> toAll(r) \/ (inForce(k, r, age) /\ covers(k, r))
    <2>1. k \in Tokens /\ k.days \in Nat /\ MaxAge \in Nat
      BY BoundAssumption DEF TypeInv, TypeOK, Tokens
    <2>2. k # NoToken
      BY <2>1, UserAssumption DEF Tokens, NoToken
    <2>3. ~Expired(k, age) <=> age < k.days /\ age < MaxAge
      BY <2>1 DEF Expired
    <2>4. passes(k, r, age) <=>
            /\ ~Malformed(r)
            /\ \/ PublicDocument(r)
               \/ /\ k # NoToken /\ ~Expired(k, age) /\ k.sub = r.user /\ k.aud = r.origin
                  /\ covers(k, r)
      BY StatusOK
    <2> QED  BY <2>2, <2>3, <2>4
  <1>3. ASSUME NEW k \in tokens, NEW r \in Request, NEW p \in PagesOf(k)
        PROVE  /\ covers(k, r) => Mentioned(p, r)
               /\ Doubtful(p, r) \/ (covers(k, r) <=> SaidToAllow(p, r))
    <2>1. p \in PageParams /\ Granted(p.asked) = k.scopes
      BY DEF PagesOf, TypeInv, TypeOK
    <2> QED  BY <2>1, CoversAsSaid
  <1>4. ASSUME NEW k \in tokens
        PROVE  \E p \in allowed : p \in PagesOf(k)
    BY DEF GrantedAsShown, PagesOf
  <1> HIDE DEF toAll, inForce, passes, covers
  <1>5. ASSUME NEW k \in tokens, NEW r \in Request, NEW age \in 1..MaxAge
        PROVE  /\ passes(k, r, age) =>
                    toAll(r) \/ (inForce(k, r, age) /\ \E p \in PagesOf(k) : Mentioned(p, r))
               /\ \A p \in PagesOf(k) :
                    \/ passes(k, r, age) <=>
                         toAll(r) \/ (inForce(k, r, age) /\ SaidToAllow(p, r))
                    \/ Doubtful(p, r)
    BY <1>2, <1>3, <1>4
  <1> QED  BY <1>1, <1>5 DEF AccessAsShown, toAll, inForce, passes

\* For all names, levels, scopes, paths and ages: beyond public documents a request
\* gets past the checks only into a module that a page allowed for this app and
\* user mentions; and where no odd scope of the page is about the path, it gets
\* past exactly if the page said so in the user's words, the name as it was asked.
THEOREM AccessCorrect == Spec => []AccessAsShown
  <1>1. TypeInv /\ GrantedAsShown => AccessAsShown
    BY AccessFromGrants
  <1> QED  BY <1>1, TypeInvariant, GrantedCorrect, PTL

-----------------------------------------------------------------------------
(* Privileges.                                                             *)

LEMMA RegeneratedEarned ==
  ASSUME requests \in Nat, NEW s \in Sessions, SessionEarned(s), NEW u \in User,
         NEW a \in BOOLEAN
  PROVE  SessionEarned(Regenerated(s, u, a))
  <1> DEFINE r == Regenerated(s, u, a)
  <1>1. /\ r.who = u /\ r.privileges = NewPrivileges(s, u, a)
        /\ s.admins \subseteq r.admins /\ (a => u \in r.admins)
    BY RegeneratedType
  <1>2. NewPrivileges(s, u, a) \subseteq Privileges[u]
    BY DEF NewPrivileges
  <1>3. u # Nobody
    BY UserAssumption
  <1>4. ASSUME NEW x \in NewPrivileges(s, u, a) \cap {"ADMIN", "OWNER"}
        PROVE  x \in UNION {Privileges[v] : v \in r.admins}
    <2>1. CASE x \in s.privileges
      BY <1>1, <1>4, <2>1 DEF SessionEarned
    <2>2. CASE x \notin s.privileges
      <3>1. a /\ x \in Privileges[u]
        BY <1>4, <2>2 DEF NewPrivileges
      <3> QED  BY <1>1, <3>1
    <2> QED  BY <2>1, <2>2
  <1> HIDE DEF r
  <1>5. SessionEarned(r)
    BY <1>1, <1>2, <1>3, <1>4 DEF SessionEarned
  <1> QED  BY <1>5 DEF r

LEMMA NewEarned == SessionEarned(NewSession) /\ SessionEarned(Cleared)
  BY DEF SessionEarned, NewSession, Cleared

\* A step that gives one tab the session s, and changes sessions of the store
\* to s0 or to nothing.
LEMMA EarnedStep ==
  ASSUME EarnedInv, TypeInv', NEW t \in Tab, NEW s, NEW s0,
         SessionEarned(s), SessionEarned(s0),
         \A u \in Tab : sess'[u] \in {sess[u], s},
         \A i \in 1..MaxRequests : store'[i] \in {store[i], s0, NewSession}
  PROVE  EarnedInv'
  <1>1. \A u \in Tab : SessionEarned(sess'[u])
    BY DEF EarnedInv
  <1>2. \A i \in 1..MaxRequests : SessionEarned(store'[i])
    BY NewEarned DEF EarnedInv
  <1> QED  BY <1>1, <1>2 DEF EarnedInv, SessionEarned

LEMMA AcceptEarned ==
  ASSUME EarnedInv, TypeInv', NEW t \in Tab, NEW r, NEW l, Accept(t, r, l)
  PROVE  EarnedInv'
  <1> DEFINE s == IF cookie \in live THEN store[cookie] ELSE NewSession
  <1>1. cookie \in live => cookie \in 1..MaxRequests
    BY BoundAssumption DEF EarnedInv, TypeInv, TypeOK
  <1>2. SessionEarned(s)
    BY <1>1, NewEarned DEF EarnedInv
  <1>3. sess' = [sess EXCEPT ![t] = s] /\ store' = store
    BY DEF Accept, sessions
  <1> HIDE DEF s
  <1>4. \A u \in Tab : sess'[u] \in {sess[u], s}
    BY <1>3 DEF EarnedInv, TypeInv, TypeOK
  <1> QED  BY <1>2, <1>3, <1>4, EarnedStep

LEMMA EndEarned ==
  ASSUME EarnedInv, TypeInv', NEW t \in Tab,
         \/ \E i \in 1..requests, s \in Sessions : EndAndSave(t, i, s) /\ SessionEarned(s)
         \/ EndUnsaved(t)
  PROVE  EarnedInv'
  <1>1. sess' = [sess EXCEPT ![t] = NewSession]
    BY DEF EndAndSave, EndUnsaved
  <1>2. \A u \in Tab : sess'[u] \in {sess[u], NewSession}
    BY <1>1 DEF EarnedInv, TypeInv, TypeOK
  <1>3. CASE EndUnsaved(t)
    <2>1. store' = store
      BY <1>3 DEF EndUnsaved, sessions
    <2> QED  BY <1>2, <2>1, NewEarned, EarnedStep
  <1>4. ASSUME NEW i \in 1..requests, NEW s \in Sessions, EndAndSave(t, i, s),
               SessionEarned(s)
        PROVE  EarnedInv'
    <2>1. \A j \in 1..MaxRequests : store'[j] \in {store[j], s}
      BY <1>4 DEF EndAndSave, EarnedInv, TypeInv, TypeOK
    <2> QED  BY <1>2, <1>4, <2>1, NewEarned, EarnedStep
  <1> QED  BY <1>3, <1>4

LEMMA NextEarned ==
  ASSUME EarnedInv, [Next]_vars
  PROVE  EarnedInv'
  <1>1. TypeInv'
    BY NextType DEF EarnedInv
  <1>2. ASSUME NEW t \in Tab, Authorization(t) \/ LoggingIn(t) PROVE EarnedInv'
    <2>1. /\ sess[t] \in Sessions /\ op[t] \in Ops /\ requests \in Nat /\ Cleared \in Sessions
          /\ pc[t] # "idle" => serial[t] \in 1..requests /\ sid[t] \in 1..requests
      BY AtWork DEF EarnedInv
    <2>2. SessionEarned(sess[t])
      BY DEF EarnedInv
    <2>3. CASE \/ \E app \in App, u \in User, asked \in Asked : Open(t, app, u, asked)
               \/ \E u \in User, days \in Days : Allow(t, u, days)
               \/ \E l \in {"login", "admin"} : OpenLogin(t, l)
               \/ \E u \in User : Submit(t, u)
      BY <1>1, <2>3, AcceptEarned DEF Open, Allow, OpenLogin, Submit
    <2>4. CASE ShowPage(t)
      <3> DEFINE p == [op[t].params EXCEPT !.challenge = serial[t]]
                 s == [sess[t] EXCEPT !.params = p]
      <3>1. pc[t] = "options" /\ EndAndSave(t, sid[t], s)
        BY <2>4 DEF ShowPage
      <3>2. p \in PageParams
        BY <2>4, ShowPageType DEF EarnedInv
      <3> HIDE DEF p
      <3>3. s \in Sessions /\ SessionEarned(s)
        BY <2>1, <2>2, <3>2 DEF Sessions, SessionEarned
      <3> HIDE DEF s
      <3> QED  BY <1>1, <2>1, <3>1, <3>3, EndEarned
    <2>5. CASE PageFails(t) \/ LoginFails(t)
      <3>1. pc[t] # "idle" /\ EndAndSave(t, sid[t], Cleared)
        BY <2>5 DEF PageFails, LoginFails
      <3> QED  BY <1>1, <2>1, <3>1, NewEarned, EndEarned
    <2>6. CASE NotVerified(t) \/ UpdateFails(t) \/ LoginTooLate(t)
      BY <1>1, <2>6, EndEarned DEF NotVerified, UpdateFails, LoginTooLate
    <2>7. CASE Sign(t) \/ LoggedIn(t)
      <3>1. pc[t] # "idle" /\ EndAndSave(t, sid[t], sess[t])
        BY <2>7 DEF Sign, LoggedIn
      <3> QED  BY <1>1, <2>1, <2>2, <3>1, EndEarned
    <2>8. CASE LoginPage(t)
      <3> DEFINE s0 == IF sess[t].user = Nobody THEN Cleared ELSE sess[t]
                 s == [s0 EXCEPT !.login = serial[t]]
      <3>1. pc[t] # "idle" /\ EndAndSave(t, sid[t], s)
        BY <2>8 DEF LoginPage
      <3>2. s0 \in Sessions /\ SessionEarned(s0)
        BY <2>1, <2>2, NewEarned
      <3> HIDE DEF s0
      <3>3. s \in Sessions /\ SessionEarned(s)
        BY <2>1, <3>1, <3>2 DEF Sessions, SessionEarned
      <3> HIDE DEF s
      <3> QED  BY <1>1, <2>1, <3>1, <3>3, EndEarned
    <2>9. CASE Regenerate(t)
      <3> DEFINE s == Regenerated(sess[t], op[t].user, FALSE)
      <3>1. pc[t] = "oauth" /\ Destroy(sid[t]) /\ sess' = [sess EXCEPT ![t] = s]
        BY <2>9 DEF Regenerate
      <3>2. op[t].user \in User
        BY <3>1 DEF EarnedInv, TypeInv, HandlerOK
      <3>3. SessionEarned(s)
        BY <2>1, <2>2, <3>2, RegeneratedEarned
      <3> HIDE DEF s
      <3>4. /\ \A u \in Tab : sess'[u] \in {sess[u], s}
            /\ \A i \in 1..MaxRequests : store'[i] \in {store[i], NewSession}
        BY <3>1 DEF Destroy, EarnedInv, TypeInv, TypeOK
      <3> QED  BY <1>1, <3>3, <3>4, EarnedStep
    <2>10. CASE Login(t)
      <3> DEFINE r == Regenerated(sess[t], op[t].user, op[t].at = "admin")
                 s == [r EXCEPT !.user = op[t].user]
      <3>1. pc[t] = "check" /\ Destroy(sid[t]) /\ sess' = [sess EXCEPT ![t] = s]
        BY <2>10 DEF Login
      <3>2. op[t].user \in User
        BY <3>1 DEF EarnedInv, TypeInv, HandlerOK
      <3>3. (op[t].at = "admin") \in BOOLEAN
        OBVIOUS
      <3>4. r \in Sessions /\ SessionEarned(r)
        BY <2>1, <2>2, <3>2, <3>3, RegeneratedType, RegeneratedEarned
      <3> HIDE DEF r
      <3>5. SessionEarned(s)
        BY <3>4 DEF Sessions, SessionEarned
      <3> HIDE DEF s
      <3>6. /\ \A u \in Tab : sess'[u] \in {sess[u], s}
            /\ \A i \in 1..MaxRequests : store'[i] \in {store[i], NewSession}
        BY <3>1 DEF Destroy, EarnedInv, TypeInv, TypeOK
      <3> QED  BY <1>1, <3>5, <3>6, EarnedStep
    <2>11. CASE Logout(t)
      <3>1. /\ \A u \in Tab : sess'[u] = sess[u]
            /\ \A i \in 1..MaxRequests : store'[i] \in {store[i], NewSession}
        BY <2>11 DEF Logout, Destroy, handlers, EarnedInv, TypeInv, TypeOK
      <3> QED  BY <1>1, <3>1, NewEarned, EarnedStep
    <2> QED  BY <1>2, <2>3, <2>4, <2>5, <2>6, <2>7, <2>8, <2>9, <2>10, <2>11
             DEF Authorization, LoggingIn
  <1>3. CASE SessionExpires \/ Restart \/ UNCHANGED vars
    <2>1. /\ \A u \in Tab : sess'[u] \in {sess[u], NewSession}
          /\ \A i \in 1..MaxRequests : store'[i] \in {store[i], NewSession}
      BY <1>3 DEF SessionExpires, Restart, Destroy, handlers, vars, sessions, EarnedInv,
                  TypeInv, TypeOK
    <2>2. \A u \in Tab : SessionEarned(sess'[u])
      BY <2>1, NewEarned DEF EarnedInv
    <2>3. \A i \in 1..MaxRequests : SessionEarned(store'[i])
      BY <2>1, NewEarned DEF EarnedInv
    <2> QED  BY <1>1, <2>2, <2>3 DEF EarnedInv, SessionEarned
  <1> QED  BY <1>2, <1>3 DEF Next

\* A session has the privileges of the user verified last and no others, whoever
\* was verified in it before.
THEOREM PrivilegesCorrect == Spec => []PrivilegesEarned
  <1>1. Init => EarnedInv
    <2>1. Init => \A i \in 1..MaxRequests : SessionEarned(store[i])
      BY NewEarned DEF Init
    <2>2. Init => \A t \in Tab : SessionEarned(sess[t])
      BY NewEarned DEF Init
    <2> QED  BY <2>1, <2>2, InitType DEF EarnedInv
  <1>2. EarnedInv /\ [Next]_vars => EarnedInv'
    BY NextEarned
  <1>3. EarnedInv => PrivilegesEarned
    <2>1. EarnedInv => live \subseteq 1..MaxRequests
      BY BoundAssumption DEF EarnedInv, TypeInv, TypeOK
    <2> QED  BY <2>1 DEF EarnedInv, PrivilegesEarned, SessionEarned
  <1> QED  BY <1>1, <1>2, <1>3, PTL DEF Spec

-----------------------------------------------------------------------------
(* The page that stays valid.                                              *)

\* While the last page counts, at most one handler is at work.  Its session has
\* the page's parameters; so has the stored one, unless it is being regenerated.
ValidInv ==
  /\ TypeInv
  /\ valid # 0 =>
       /\ \A t, u \in Tab : pc[t] # "idle" /\ pc[u] # "idle" => t = u
       /\ \A t \in Tab : pc[t] # "idle" => sess[t].params.challenge = valid
       /\ (\A t \in Tab : pc[t] \notin {"sign", "loggedIn"}) =>
            cookie \in live /\ store[cookie].params.challenge = valid

\* A session is saved that has the parameters of the last page.
LEMMA SavedValid ==
  ASSUME TypeInv, TypeInv', NEW t \in Tab, NEW i \in 1..requests, NEW s \in Sessions,
         EndAndSave(t, i, s),
         valid' # 0 => s.params.challenge = valid' /\ \A u \in Tab \ {t} : pc[u] = "idle"
  PROVE  ValidInv'
  <1>1. /\ pc'[t] = "idle" /\ \A u \in Tab \ {t} : pc'[u] = pc[u]
        /\ cookie' = i /\ i \in live' /\ store'[i] = s
    BY BoundAssumption DEF EndAndSave, TypeInv, TypeOK
  <1>2. valid' # 0 => \A u \in Tab : pc'[u] = "idle"
    BY <1>1
  <1> QED  BY <1>1, <1>2 DEF ValidInv

LEMMA NextValid ==
  ASSUME ValidInv, [Next]_vars
  PROVE  ValidInv'
  <1>1. TypeInv /\ TypeInv'
    BY NextType DEF ValidInv
  <1>2. ASSUME NEW t \in Tab, Authorization(t) \/ LoggingIn(t) PROVE ValidInv'
    <2>1. /\ sess[t] \in Sessions /\ op[t] \in Ops /\ requests \in Nat /\ Cleared \in Sessions
          /\ pc[t] # "idle" => serial[t] \in 1..requests /\ sid[t] \in 1..requests
      BY <1>1, AtWork
    <2>2. pc[t] # "idle" /\ valid # 0 =>
            sess[t].params.challenge = valid /\ \A u \in Tab \ {t} : pc[u] = "idle"
      BY DEF ValidInv
    <2>3. CASE \/ \E app \in App, u \in User, asked \in Asked : Open(t, app, u, asked)
               \/ \E u \in User, days \in Days : Allow(t, u, days)
               \/ \E l \in {"login", "admin"} : OpenLogin(t, l)
               \/ \E u \in User : Submit(t, u)
      <3>1. PICK r, l : Accept(t, r, l) /\ l \notin {"sign", "loggedIn"}
        <4>1. ASSUME NEW app \in App, NEW u \in User, NEW asked \in Asked,
                     Open(t, app, u, asked)
              PROVE  \E r, l : Accept(t, r, l) /\ l \notin {"sign", "loggedIn"}
          BY <4>1 DEF Open
        <4>2. ASSUME NEW u \in User, NEW days \in Days, Allow(t, u, days)
              PROVE  \E r, l : Accept(t, r, l) /\ l \notin {"sign", "loggedIn"}
          BY <4>2 DEF Allow
        <4>3. ASSUME NEW l \in {"login", "admin"}, OpenLogin(t, l)
              PROVE  \E r, m : Accept(t, r, m) /\ m \notin {"sign", "loggedIn"}
          BY <4>3 DEF OpenLogin
        <4>4. ASSUME NEW u \in User, Submit(t, u)
              PROVE  \E r, l : Accept(t, r, l) /\ l \notin {"sign", "loggedIn"}
          BY <4>4 DEF Submit
        <4> QED  BY <2>3, <4>1, <4>2, <4>3, <4>4
      <3>2. /\ valid' # 0 => valid' = valid /\ \A u \in Tab : pc[u] = "idle"
            /\ cookie \in live => sess'[t] = store[cookie]
            /\ UNCHANGED <<store, live, cookie>>
            /\ pc'[t] = l /\ \A u \in Tab \ {t} : pc'[u] = pc[u]
        BY <1>1, <3>1 DEF Accept, sessions, TypeInv, TypeOK
      <3> QED  BY <1>1, <3>1, <3>2 DEF ValidInv
    <2>4. CASE ShowPage(t)
      <3> DEFINE p == [op[t].params EXCEPT !.challenge = serial[t]]
                 s == [sess[t] EXCEPT !.params = p]
      <3>1. /\ pc[t] = "options" /\ EndAndSave(t, sid[t], s)
            /\ valid' # 0 => valid' = serial[t] /\ \A u \in Tab \ {t} : pc[u] = "idle"
        BY <2>4 DEF ShowPage
      <3>2. op[t].params \in [app : App, user : User, asked : Asked, challenge : {0}]
        BY <1>1, <3>1 DEF TypeInv, TypeOK, HandlerOK, Ops
      <3>3. p \in PageParams /\ p.challenge = serial[t]
        BY <1>1, <2>4, <3>2, ShowPageType
      <3> HIDE DEF p
      <3>4. s \in Sessions /\ s.params = p
        BY <2>1, <3>3 DEF Sessions
      <3> HIDE DEF s
      <3> QED  BY <1>1, <2>1, <3>1, <3>3, <3>4, SavedValid
    <2>5. CASE PageFails(t) \/ LoginFails(t)
      <3>1. pc[t] # "idle" /\ EndAndSave(t, sid[t], Cleared) /\ valid' = 0
        BY <2>5 DEF PageFails, LoginFails
      <3> QED  BY <1>1, <3>1 DEF ValidInv
    <2>6. CASE NotVerified(t) \/ UpdateFails(t) \/ LoginTooLate(t)
      <3>1. /\ pc[t] \notin {"idle", "sign", "loggedIn"} /\ EndUnsaved(t)
            /\ UNCHANGED <<sessions, valid>>
        BY <2>6 DEF NotVerified, UpdateFails, LoginTooLate, history, EndUnsaved
      <3>2. /\ pc'[t] = "idle" /\ \A u \in Tab \ {t} : pc'[u] = pc[u] /\ sess'[u] = sess[u]
            /\ UNCHANGED <<store, live, cookie, valid>>
        BY <1>1, <3>1 DEF EndUnsaved, sessions, TypeInv, TypeOK
      <3>3. valid # 0 => \A u \in Tab : pc[u] \notin {"sign", "loggedIn"}
        BY <2>2, <3>1
      <3> QED  BY <1>1, <2>2, <3>1, <3>2, <3>3 DEF ValidInv
    <2>7. CASE Sign(t)
      <3>1. valid' = 0
        BY <2>7 DEF Sign
      <3> QED  BY <1>1, <3>1 DEF ValidInv
    <2>8. CASE LoggedIn(t)
      <3>1. pc[t] # "idle" /\ EndAndSave(t, sid[t], sess[t]) /\ valid' = valid
        BY <2>8 DEF LoggedIn, history
      <3> QED  BY <1>1, <2>1, <2>2, <3>1, SavedValid
    <2>9. CASE LoginPage(t)
      <3> DEFINE s0 == IF sess[t].user = Nobody THEN Cleared ELSE sess[t]
                 s == [s0 EXCEPT !.login = serial[t]]
      <3>1. /\ pc[t] # "idle" /\ EndAndSave(t, sid[t], s)
            /\ valid' # 0 => sess[t].user # Nobody /\ valid' = valid
        BY <2>9 DEF LoginPage
      <3>2. s0 \in Sessions /\ (sess[t].user # Nobody => s0.params = sess[t].params)
        BY <2>1
      <3> HIDE DEF s0
      <3>3. s \in Sessions /\ s.params = s0.params
        BY <2>1, <3>1, <3>2 DEF Sessions
      <3> HIDE DEF s
      <3> QED  BY <1>1, <2>1, <2>2, <3>1, <3>2, <3>3, SavedValid
    <2>10. CASE Regenerate(t) \/ Login(t)
      <3>1. PICK s, l :
              /\ l \in {"sign", "loggedIn"}
              /\ pc[t] # "idle" /\ sess' = [sess EXCEPT ![t] = s] /\ Continue(t, l)
              /\ s.params = sess[t].params /\ valid' = valid
        <4>1. CASE Regenerate(t)
          <5> DEFINE s == Regenerated(sess[t], op[t].user, FALSE)
          <5>1. s.params = sess[t].params
            BY DEF Regenerated
          <5>2. /\ pc[t] # "idle" /\ sess' = [sess EXCEPT ![t] = s] /\ Continue(t, "sign")
                /\ valid' = valid
            BY <4>1 DEF Regenerate, history
          <5> HIDE DEF s
          <5> QED  BY <5>1, <5>2
        <4>2. CASE Login(t)
          <5> DEFINE r == Regenerated(sess[t], op[t].user, op[t].at = "admin")
                     s == [r EXCEPT !.user = op[t].user]
          <5>1. op[t].user \in User
            BY <1>1, <4>2 DEF Login, TypeInv, HandlerOK
          <5>2. (op[t].at = "admin") \in BOOLEAN
            OBVIOUS
          <5>3. r \in Sessions /\ r.params = sess[t].params
            BY <2>1, <5>1, <5>2, RegeneratedType
          <5> HIDE DEF r
          <5>4. s.params = sess[t].params
            BY <5>3 DEF Sessions
          <5>5. /\ pc[t] # "idle" /\ sess' = [sess EXCEPT ![t] = s] /\ Continue(t, "loggedIn")
                /\ valid' = valid
            BY <4>2 DEF Login, history, r
          <5> HIDE DEF s
          <5> QED  BY <5>4, <5>5
        <4> QED  BY <2>10, <4>1, <4>2
      <3>2. pc'[t] = l /\ sess'[t] = s /\ \A u \in Tab \ {t} : pc'[u] = pc[u]
        BY <1>1, <3>1 DEF Continue, TypeInv, TypeOK
      <3> QED  BY <1>1, <2>2, <3>1, <3>2 DEF ValidInv
    <2>11. CASE Logout(t)
      BY <1>1, <2>11 DEF Logout, ValidInv
    <2> QED  BY <1>2, <2>3, <2>4, <2>5, <2>6, <2>7, <2>8, <2>9, <2>10, <2>11
             DEF Authorization, LoggingIn
  <1>3. CASE SessionExpires \/ Restart
    BY <1>1, <1>3 DEF SessionExpires, Restart, ValidInv
  <1>4. CASE UNCHANGED vars
    BY <1>1, <1>4 DEF vars, sessions, handlers, history, ValidInv
  <1> QED  BY <1>2, <1>3, <1>4 DEF Next

\* The page shown last can be answered until its session ends, is cleared, or two
\* requests overlap; logging in meanwhile does not cost it.
THEOREM PageCorrect == Spec => []PageStaysValid
  <1>1. Init => ValidInv
    BY InitType DEF Init, ValidInv
  <1>2. ValidInv /\ [Next]_vars => ValidInv'
    BY NextValid
  <1>3. ValidInv => PageStaysValid
    BY DEF ValidInv, PageStaysValid
  <1> QED  BY <1>1, <1>2, <1>3, PTL DEF Spec

=============================================================================
