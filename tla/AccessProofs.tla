---------------------------- MODULE AccessProofs ----------------------------
(* Who gets in and under which name, for any number of users, requests,     *)
(* registries, names, clocks and orders: what Access, Secrets, Domains,     *)
(* Dns01 and RateLimit guarantee.                                           *)
EXTENDS Access, Secrets, Domains, Dns01, RateLimit, FiniteSetTheorems, SequenceTheorems,
        WellFoundedInduction, TLAPS

Somebody == Users \cup {Nobody}
SessionRows == [user : Somebody, expires : Nat, created : Nat \cup {Nobody}]
AccessStages == {"idle", "resolve", "session", "token", "touch", "act", "hashed", "mint"}
AccessReqs == [at : AccessStages, cred : Sessions \cup Tokens \cup {"admin", "none"},
               row : {Nobody} \cup SessionRows \cup [user : Somebody], user : Somebody,
               super : BOOLEAN, barred : SUBSET Users, dead : SUBSET Sessions]

AccountsOK ==
  /\ users \subseteq Users /\ gone \subseteq Users /\ users \cap gone = {}
  /\ supers \subseteq users /\ initialized \in BOOLEAN

RowsOK ==
  /\ now \in Nat /\ used \in [Sessions -> Nat]
  /\ session \in [Sessions -> SessionRows \cup {Nobody}]
  /\ token \in [Tokens -> Somebody]

RequestsOK ==
  /\ req \in [Clients -> AccessReqs]
  /\ \A c \in Clients :
       /\ ReqAt(c, "resolve") => /\ req[c].cred \in {"admin"} \cup Sessions \cup Tokens
                                /\ req[c].user = Nobody
       /\ ReqAt(c, "session") => req[c].row \in SessionRows /\ req[c].cred \in Sessions
       /\ ReqAt(c, "token") => req[c].row \in [user : Somebody] /\ req[c].cred \notin Sessions

(* Types: what the tables, the clock and the requests under way may hold. A *)
(* request that looks at a session or a token has read its row, and one     *)
(* that is being resolved has no user yet.                                  *)
AccessTypeOK == AccountsOK /\ RowsOK /\ RequestsOK

(* A new daemon, or an old one with a session from before sessions had a    *)
(* birth date, is well typed.                                               *)
LEMMA AccessTypesInit == AccessInit => AccessTypeOK
  <1> SUFFICES ASSUME AccessInit PROVE AccessTypeOK OBVIOUS
  <1>1. AccountsOK BY DEF AccessInit, AccountsOK
  <1>2. RowsOK BY AccessAssumption DEF AccessInit, RowsOK, Somebody, SessionRows
  <1>3. NoReq \in AccessReqs BY DEF NoReq, AccessReqs, AccessStages, Somebody
  <1>4. RequestsOK BY <1>3 DEF AccessInit, RequestsOK, ReqAt, NoReq
  <1> QED BY <1>1, <1>2, <1>4 DEF AccessTypeOK

(* One step of the request of one client. *)
ClientStep(c) ==
  \/ \E cred \in {"admin"} \cup Sessions \cup Tokens : Begin(c, cred)
  \/ resolve_auth(c) \/ user_for_session_q(c) \/ user_for_api_token_q(c) \/ require_auth(c)
  \/ \E k \in Tokens : create_api_token_q(c, k) \/ revoke_api_token_q(c, k)
  \/ login_handler(c) \/ logout_handler(c) \/ revoke_all_sessions_handler(c)
  \/ \E u \in Users : \/ \E super \in BOOLEAN : create_user_handler(c, u, super)
                      \/ delete_user_handler(c, u) \/ bootstrap_admin(c, u)
  \/ bootstrap_handler(c) \/ Answer(c)

(* No request makes an account row of an id that was deleted, or a super    *)
(* admin of somebody who has no row.                                        *)
LEMMA AccountsStep ==
  ASSUME AccountsOK, NEW c \in Clients, ClientStep(c)
  PROVE  AccountsOK'
  <1> USE DEF AccountsOK
  <1>1. CASE UNCHANGED accounts BY <1>1 DEF accounts
  <1>2. ASSUME NEW u \in Users, NEW super \in BOOLEAN, create_user_handler(c, u, super)
        PROVE  AccountsOK'
    BY <1>2 DEF create_user_handler, create_user_q
  <1>3. ASSUME NEW u \in Users, delete_user_handler(c, u) PROVE AccountsOK'
    BY <1>3 DEF delete_user_handler, delete_user_q
  <1>4. ASSUME NEW u \in Users, bootstrap_admin(c, u) PROVE AccountsOK'
    BY <1>1, <1>4 DEF bootstrap_admin, create_user_q
  <1> QED
    BY <1>1, <1>2, <1>3, <1>4
    DEF ClientStep, Begin, resolve_auth, user_for_session_q, user_for_api_token_q, require_auth,
        create_api_token_q, revoke_api_token_q, login_handler, verify_login_q, create_session_q,
        logout_handler, revoke_all_sessions_handler, bootstrap_handler, Answer, accessTables

(* Sessions, tokens and the times of use keep their types, the renewal of a *)
(* session (touch_session_q) included.                                      *)
LEMMA RowsStep ==
  ASSUME AccessTypeOK, NEW c \in Clients, ClientStep(c)
  PROVE  RowsOK'
  <1> USE DEF AccessTypeOK, RowsOK, Somebody
  <1>1. CASE UNCHANGED <<now, used, session, token>> BY <1>1
  <1>2. CASE user_for_session_q(c)
    BY <1>2 DEF user_for_session_q, RequestsOK, ReqAt
  <1>3. CASE require_auth(c)
    <2>1. ASSUME NEW row \in SessionRows PROVE Renewed(row) \in SessionRows
      BY AccessAssumption DEF Renewed, SessionRows, MinOf
    <2> QED BY <1>3, <2>1 DEF require_auth, touch_session_q
  <1>4. ASSUME NEW k \in Tokens, create_api_token_q(c, k) \/ revoke_api_token_q(c, k)
        PROVE  RowsOK'
    BY <1>4 DEF create_api_token_q, revoke_api_token_q, RequestsOK, AccessReqs
  <1>5. ASSUME NEW s \in Sessions, create_session_q(c, s) PROVE RowsOK'
    BY <1>5, AccessAssumption DEF create_session_q, RequestsOK, AccessReqs, SessionRows
  <1>6. CASE logout_handler(c) \/ revoke_all_sessions_handler(c)
    BY <1>6 DEF logout_handler, revoke_all_sessions_handler, delete_session_q, delete_all_sessions_q
  <1>7. ASSUME NEW u \in Users, delete_user_handler(c, u) PROVE RowsOK'
    BY <1>7 DEF delete_user_handler, delete_user_q
  <1> QED
    BY <1>1, <1>2, <1>3, <1>4, <1>5, <1>6, <1>7
    DEF ClientStep, Begin, resolve_auth, user_for_api_token_q, login_handler, verify_login_q,
        create_user_handler, bootstrap_admin, bootstrap_handler, Answer, accessTables

(* The requests keep their types through the middleware and the handlers. *)
LEMMA RequestsStep ==
  ASSUME AccessTypeOK, NEW c \in Clients, ClientStep(c)
  PROVE  RequestsOK'
  <1> USE DEF AccessTypeOK, RequestsOK, ReqAt, AccessStages
  <1>0. NoReq \in AccessReqs /\ NoReq.at = "idle" BY DEF NoReq, AccessReqs, AccessStages, Somebody
  <1>1. CASE Done(c) BY <1>0, <1>1 DEF Done
  <1>2. ASSUME NEW cred \in {"admin"} \cup Sessions \cup Tokens, Begin(c, cred)
        PROVE  RequestsOK'
    BY <1>0, <1>2 DEF Begin, AccountsOK, AccessReqs, NoReq
  <1>8. req[c] \in AccessReqs OBVIOUS
  <1>9. ASSUME NEW r \in AccessReqs, r.at \notin {"resolve", "session", "token"},
               req' = [req EXCEPT ![c] = r]
        PROVE  RequestsOK'
    BY <1>9
  <1>3. CASE resolve_auth(c)
    <2>1. CASE req' = [req EXCEPT ![c].at = "touch", ![c].super = TRUE]
      BY <1>8, <1>9, <2>1 DEF AccessReqs
    <2>2. CASE /\ req[c].cred \in Sessions /\ session[req[c].cred] # Nobody
               /\ req' = [req EXCEPT ![c].at = "session", ![c].row = session[req[c].cred]]
      <3>1. session[req[c].cred] \in SessionRows BY <2>2 DEF RowsOK
      <3> QED BY <1>8, <2>2, <3>1 DEF AccessReqs
    <2>3. CASE /\ req[c].cred \notin Sessions /\ ReqAt(c, "resolve") /\ req[c].cred # "admin"
               /\ req' = [req EXCEPT ![c].at = "token", ![c].row = [user |-> token[req[c].cred]]]
      <3>1. [user |-> token[req[c].cred]] \in [user : Somebody] BY <2>3 DEF RowsOK
      <3> QED BY <1>8, <2>3, <3>1 DEF AccessReqs
    <2> QED BY <1>1, <1>3, <2>1, <2>2, <2>3 DEF resolve_auth
  <1>4. CASE user_for_session_q(c) \/ user_for_api_token_q(c)
    <2>1. ASSUME NEW u \in users, NEW b \in BOOLEAN,
                 req' = [req EXCEPT ![c] = [@ EXCEPT !.at = "touch", !.user = u, !.super = b]]
          PROVE  RequestsOK'
      BY <1>8, <1>9, <2>1 DEF AccessReqs, AccountsOK, Somebody
    <2>2. ASSUME NEW u, Principal(c, get_user_q(u)) PROVE RequestsOK'
      <3>1. PICK b \in BOOLEAN : b = (get_user_q(u) \in supers)
        <4> WITNESS (get_user_q(u) \in supers) \in BOOLEAN
        <4> QED OBVIOUS
      <3>2. CASE get_user_q(u) = Nobody BY <1>0, <1>9, <2>2, <3>2 DEF Principal
      <3>3. CASE get_user_q(u) # Nobody
        <4>1. get_user_q(u) = u /\ u \in users BY <3>3 DEF get_user_q
        <4>2. req' = [req EXCEPT ![c] = [@ EXCEPT !.at = "touch", !.user = u, !.super = b]]
          BY <2>2, <3>1, <3>3, <4>1, Zenon DEF Principal
        <4> QED BY <2>1, <4>1, <4>2
      <3> QED BY <3>2, <3>3
    <2> QED BY <1>1, <1>4, <2>2 DEF user_for_session_q, user_for_api_token_q
  <1>5. CASE require_auth(c)
    BY <1>5, <1>8, <1>9 DEF require_auth, AccessReqs
  <1>6. ASSUME NEW u \in Users, verify_login_q(c, u) PROVE RequestsOK'
    BY <1>0, <1>6 DEF verify_login_q, AccessReqs, Somebody, NoReq
  <1>7. CASE bootstrap_handler(c)
    BY <1>1, <1>7 DEF bootstrap_handler, Then, AccessReqs
  <1> QED
    BY <1>1, <1>2, <1>3, <1>4, <1>5, <1>6, <1>7
    DEF ClientStep, login_handler, create_session_q, create_api_token_q, revoke_api_token_q,
        logout_handler, revoke_all_sessions_handler, create_user_handler, delete_user_handler,
        bootstrap_admin, Answer

(* Every step preserves the types. *)
LEMMA AccessTypes ==
  ASSUME AccessTypeOK, [AccessNext]_accessVars
  PROVE  AccessTypeOK'
  <1>1. CASE UNCHANGED accessVars
    BY <1>1 DEF accessVars, accessTables, accounts, AccessTypeOK, AccountsOK, RowsOK, RequestsOK, ReqAt
  <1>2. CASE Hour
    BY <1>2 DEF Hour, accessTables, accounts, AccessTypeOK, AccountsOK, RowsOK, RequestsOK, ReqAt
  <1>3. ASSUME NEW c \in Clients, ClientStep(c) PROVE AccessTypeOK'
    BY <1>3, AccountsStep, RowsStep, RequestsStep DEF AccessTypeOK
  <1> QED BY <1>1, <1>2, <1>3 DEF AccessNext, ClientStep

(* What makes DeletedUsersAreOut inductive: users that were deleted before  *)
(* a request began are still deleted.                                       *)
DeletedInv ==
  /\ \A c \in Clients : req[c].barred \subseteq gone
  /\ DeletedUsersAreOut

(* The only step that gives a request a user is the join of its row with    *)
(* the table of users (get_user_q), which never finds a deleted one.        *)
LEMMA DeletedStep ==
  ASSUME AccessTypeOK, DeletedInv, [AccessNext]_accessVars
  PROVE  DeletedInv'
  <1> USE DEF AccessTypeOK, AccessStages, DeletedInv, DeletedUsersAreOut, Admitted, ReqAt
  <1>0. NoReq.barred = {} /\ NoReq.at = "idle" BY DEF NoReq
  <1>1. ASSUME UNCHANGED req, gone \subseteq gone' PROVE DeletedInv' BY <1>1
  <1>2. ASSUME NEW c \in Clients, ClientStep(c) PROVE DeletedInv'
    <2>1. gone \subseteq gone'
      BY <1>2 DEF ClientStep, Begin, resolve_auth, user_for_session_q, user_for_api_token_q, require_auth,
        create_api_token_q, revoke_api_token_q, login_handler, verify_login_q, create_session_q,
        logout_handler, revoke_all_sessions_handler, bootstrap_handler, Answer, accessTables, accounts,
        create_user_handler, delete_user_handler, delete_user_q, bootstrap_admin
    <2> USE <2>1
    <2>2. CASE Done(c) BY <1>0, <2>2 DEF Done, RequestsOK
    <2>3. ASSUME NEW cred \in {"admin"} \cup Sessions \cup Tokens, Begin(c, cred)
          PROVE  DeletedInv'
      BY <2>3 DEF Begin, NoReq, RequestsOK
    <2>4. CASE resolve_auth(c)
      <3>1. ASSUME req' = [req EXCEPT ![c].at = "touch", ![c].super = TRUE], req[c].user = Nobody
            PROVE  DeletedInv'
        BY <3>1, AccessAssumption DEF AccountsOK, RequestsOK, AccessReqs
      <3> QED BY <2>2, <2>4, <3>1 DEF resolve_auth, RequestsOK, AccessReqs, Somebody, RowsOK
    <2>5. CASE user_for_session_q(c) \/ user_for_api_token_q(c)
      <3>1. ASSUME NEW u, Principal(c, get_user_q(u)) PROVE DeletedInv'
        BY <1>0, <3>1, AccessAssumption DEF Principal, get_user_q, AccountsOK, RequestsOK, AccessReqs
      <3> QED BY <2>2, <2>5, <3>1 DEF user_for_session_q, user_for_api_token_q
    <2>6. CASE require_auth(c) BY <2>6 DEF require_auth, RequestsOK, AccessReqs
    <2>7. ASSUME NEW u \in Users, verify_login_q(c, u) PROVE DeletedInv'
      BY <2>7 DEF verify_login_q, NoReq, RequestsOK
    <2>8. CASE bootstrap_handler(c)
      BY <2>2, <2>8 DEF bootstrap_handler, Then, Acts, RequestsOK, AccessReqs
    <2> QED
      BY <1>2, <2>2, <2>3, <2>4, <2>5, <2>6, <2>7, <2>8
      DEF ClientStep, login_handler, create_session_q, create_api_token_q, revoke_api_token_q,
          logout_handler, revoke_all_sessions_handler, create_user_handler, delete_user_handler,
          bootstrap_admin, Answer
  <1> QED
    BY <1>1, <1>2 DEF AccessNext, ClientStep, Hour, accessVars, accessTables, accounts

(* Nobody acts as a user that was deleted before the request began, for any *)
(* number of users, sessions, tokens and concurrent requests.               *)
THEOREM DeletedUsersStayOut == AccessSpec => []DeletedUsersAreOut
  <1>1. AccessInit => AccessTypeOK BY AccessTypesInit
  <1>2. AccessInit => DeletedInv
    BY DEF AccessInit, DeletedInv, DeletedUsersAreOut, Admitted, NoReq
  <1>3. AccessTypeOK /\ [AccessNext]_accessVars => AccessTypeOK' BY AccessTypes
  <1>4. AccessTypeOK /\ DeletedInv /\ [AccessNext]_accessVars => DeletedInv' BY DeletedStep
  <1> QED BY <1>1, <1>2, <1>3, <1>4, PTL DEF AccessSpec, DeletedInv

(* The bootstrap has run at most once, and not without leaving the setting  *)
(* behind that stops the next one.                                          *)
BootInv == boots \in {0, 1} /\ (boots = 1 => initialized) /\ (initialized => supers # {})

(* Two racing bootstraps meet at the setting, which the transaction reads   *)
(* again; the last super admin cannot be deleted.                           *)
LEMMA BootStep ==
  ASSUME AccessTypeOK, BootInv, [AccessNext]_accessVars
  PROVE  BootInv'
  <1> USE DEF BootInv, AccessTypeOK, AccountsOK
  <1>1. CASE UNCHANGED accounts BY <1>1 DEF accounts
  <1>2. ASSUME NEW c \in Clients, NEW u \in Users, NEW super \in BOOLEAN,
               create_user_handler(c, u, super)
        PROVE  BootInv'
    BY <1>2 DEF create_user_handler, create_user_q
  <1>3. ASSUME NEW c \in Clients, NEW u \in Users, delete_user_handler(c, u) PROVE BootInv'
    <2>1. Cardinality({u}) = 1 BY FS_Singleton
    <2>2. supers # {u} \/ u \notin supers BY <1>3, <2>1 DEF delete_user_handler, delete_user_q
    <2>3. supers # {} => supers \ {u} # {} BY <2>2
    <2> QED BY <1>3, <2>3 DEF delete_user_handler, delete_user_q
  <1>4. ASSUME NEW c \in Clients, NEW u \in Users, bootstrap_admin(c, u) PROVE BootInv'
    BY <1>1, <1>4 DEF bootstrap_admin, create_user_q
  <1> QED
    BY <1>1, <1>2, <1>3, <1>4
    DEF AccessNext, Begin, resolve_auth, user_for_session_q, user_for_api_token_q, require_auth,
        create_api_token_q, revoke_api_token_q, login_handler, verify_login_q, create_session_q,
        logout_handler, revoke_all_sessions_handler, bootstrap_handler, Answer, Hour, accessTables,
        accessVars

(* The bootstrap makes one account, and from then on there is a super       *)
(* admin, whatever else is created and deleted meanwhile.                   *)
THEOREM BootstrappedOnce == AccessSpec => []OneBootstrap
  <1>1. ASSUME AccessInit PROVE BootInv
    <2>1. PICK old \in SUBSET Sessions, u \in Users :
            users = (IF old = {} THEN {} ELSE {u}) /\ supers = users /\ initialized = (old # {})
      BY <1>1 DEF AccessInit
    <2>2. initialized => old # {} BY <2>1
    <2> QED BY <1>1, <2>1, <2>2 DEF AccessInit, BootInv
  <1>2. AccessTypeOK /\ BootInv /\ [AccessNext]_accessVars => BootInv' BY BootStep
  <1>3. BootInv => OneBootstrap BY DEF BootInv, OneBootstrap
  <1> QED BY <1>1, <1>2, <1>3, AccessTypesInit, AccessTypes, PTL DEF AccessSpec

(* No row, stored or held by a request that read it, outlives the last use  *)
(* of its session by more than the sliding life, and a renewal keeps the    *)
(* date of birth.                                                           *)
ExpiryOK ==
  /\ \A s \in Sessions : /\ used[s] <= now
                         /\ session[s] # Nobody =>
                              s \in minted /\ session[s].expires <= used[s] + Sliding
  /\ \A c \in Clients : ReqAt(c, "session") =>
       LET s == req[c].cred IN
       /\ s \in minted /\ req[c].row.expires <= used[s] + Sliding
       /\ session[s] # Nobody => session[s].created = req[c].row.created

(* Every step preserves it: a renewal counts as a use, and a session that   *)
(* is removed between the two looks of a request stays removed.             *)
LEMMA ExpiryStep ==
  ASSUME AccessTypeOK, ExpiryOK, [AccessNext]_accessVars
  PROVE  ExpiryOK'
  <1> USE DEF AccessTypeOK, RequestsOK, ExpiryOK, ReqAt
  <1>1. CASE UNCHANGED accessVars BY <1>1 DEF accessVars, accessTables
  <1>2. CASE Hour BY <1>2, AccessAssumption DEF Hour, accessTables, RowsOK
  <1>3. ASSUME NEW c \in Clients, ClientStep(c) PROVE ExpiryOK'
    <2>0. NoReq.at = "idle" BY DEF NoReq
    <2>1. ASSUME UNCHANGED <<now, used, session>>, minted \subseteq minted',
                 \/ Done(c)
                 \/ \E r : req' = [req EXCEPT ![c] = r] /\ r.at # "session"
          PROVE  ExpiryOK'
      BY <2>0, <2>1 DEF Done
    <2>2. CASE resolve_auth(c)
      <3>1. CASE /\ req[c].cred \in Sessions /\ session[req[c].cred] # Nobody
                 /\ req' = [req EXCEPT ![c].at = "session", ![c].row = session[req[c].cred]]
        BY <2>2, <3>1 DEF resolve_auth, AccessReqs, accessTables
      <3> QED BY <2>1, <2>2, <3>1 DEF resolve_auth, accessTables, AccessReqs
    <2>3. ASSUME Done(c), UNCHANGED <<now, used, minted>>,
                 \A s \in Sessions : session'[s] \in {Nobody, session[s]}
          PROVE  ExpiryOK'
      BY <2>0, <2>3 DEF Done
    <2>4. CASE user_for_session_q(c)
      <3>1. CASE Lapsed(req[c].row)
        BY <2>3, <2>4, <3>1 DEF user_for_session_q, RowsOK
      <3>2. CASE ~Lapsed(req[c].row)
        <4>1. /\ UNCHANGED <<session, now, minted>>
              /\ \A s \in Sessions : used'[s] \in {used[s], now}
          BY <2>4, <3>2 DEF user_for_session_q, RowsOK
        <4>2. \A q \in Clients : req'[q].at = "session" => req'[q] = req[q]
          BY <2>0, <2>4, <3>2 DEF user_for_session_q, Principal, AccessReqs
        <4> QED BY <4>1, <4>2, AccessAssumption DEF RowsOK, SessionRows
      <3> QED BY <3>1, <3>2
    <2>5. CASE require_auth(c)
      <3>1. \A q \in Clients : req'[q].at = "session" => req'[q] = req[q]
        BY <2>5 DEF require_auth, AccessReqs
      <3>2. CASE req[c].cred \notin Sessions
        BY <2>5, <3>1, <3>2 DEF require_auth
      <3>3. CASE req[c].cred \in Sessions
        <4> DEFINE t == req[c].cred
        <4>1. /\ UNCHANGED <<now, minted>> /\ used' = [used EXCEPT ![t] = now]
              /\ session' = IF session[t] = Nobody THEN session
                            ELSE [session EXCEPT ![t] = Renewed(session[t])]
          BY <2>5, <3>3 DEF require_auth, touch_session_q
        <4>2. session[t] # Nobody =>
                /\ Renewed(session[t]).expires <= now + Sliding
                /\ Renewed(session[t]).created = session[t].created
          BY <3>3, AccessAssumption DEF Renewed, MinOf, RowsOK, SessionRows
        <4>3. \A s \in Sessions :
                /\ used'[s] <= now' /\ used[s] <= used'[s]
                /\ session'[s] # Nobody => s \in minted /\ session'[s].expires <= used'[s] + Sliding
                                           /\ session'[s].created = session[s].created
                                           /\ session[s] # Nobody
          BY <3>3, <4>1, <4>2 DEF RowsOK
        <4> QED BY <3>1, <4>1, <4>3, AccessAssumption DEF RowsOK, SessionRows
      <3> QED BY <3>2, <3>3
    <2>6. ASSUME NEW s \in Sessions, create_session_q(c, s) PROVE ExpiryOK'
      <3>1. \A q \in Clients : req'[q].at = "session" => req'[q] = req[q]
        BY <2>0, <2>6 DEF create_session_q, Done
      <3>2. /\ UNCHANGED now /\ used' = [used EXCEPT ![s] = now] /\ minted' = minted \cup {s} /\ s \notin minted
            /\ session' = [session EXCEPT ![s] = [user |-> req[c].user, expires |-> now + Sliding, created |-> now]]
        BY <2>6 DEF create_session_q
      <3> QED BY <3>1, <3>2, AccessAssumption DEF RowsOK
    <2>7. CASE logout_handler(c) \/ revoke_all_sessions_handler(c)
      BY <2>3, <2>7 DEF logout_handler, revoke_all_sessions_handler, delete_session_q, delete_all_sessions_q
    <2>8. ASSUME NEW u \in Users, delete_user_handler(c, u) PROVE ExpiryOK'
      BY <2>3, <2>8 DEF delete_user_handler, delete_user_q
    <2>9. ASSUME NEW cred \in {"admin"} \cup Sessions \cup Tokens, Begin(c, cred)
          PROVE  ExpiryOK'
      BY <2>1, <2>9 DEF Begin, accessTables, NoReq
    <2>10. ASSUME NEW u \in Users, verify_login_q(c, u) PROVE ExpiryOK'
      BY <2>1, <2>10 DEF verify_login_q, accessTables, NoReq
    <2>11. CASE user_for_api_token_q(c)
      <3>1. \A q \in Clients : req'[q].at = "session" => req'[q] = req[q]
        BY <2>0, <2>11 DEF user_for_api_token_q, Principal, AccessReqs
      <3> QED BY <2>11, <3>1 DEF user_for_api_token_q, accessTables
    <2>12. CASE bootstrap_handler(c)
      <3>1. \A q \in Clients : req'[q].at = "session" => req'[q] = req[q]
        BY <2>0, <2>12 DEF bootstrap_handler, Then, Done, AccessReqs
      <3> QED BY <2>12, <3>1 DEF bootstrap_handler, accessTables
    <2> QED
      BY <1>3, <2>1, <2>2, <2>4, <2>5, <2>6, <2>7, <2>8, <2>9, <2>10, <2>11, <2>12
      DEF ClientStep, login_handler, create_api_token_q, revoke_api_token_q,
          create_user_handler, bootstrap_admin, Answer, accessTables
  <1> QED BY <1>1, <1>2, <1>3 DEF AccessNext, ClientStep

(* A session token that was handed out is never given a second row, nor     *)
(* another date of birth.                                                   *)
LEMMA SessionStaysTheSame ==
  ASSUME AccessTypeOK, ExpiryOK, NEW c \in Clients, ClientStep(c), NEW s \in Sessions, s \in minted
  PROVE  /\ minted \subseteq minted'
         /\ session'[s] # Nobody => session[s] # Nobody /\ session'[s].created = session[s].created
  <1> USE DEF AccessTypeOK, RowsOK
  <1>1. CASE UNCHANGED <<session, minted>> BY <1>1
  <1>2. CASE user_for_session_q(c) BY <1>2 DEF user_for_session_q
  <1>3. CASE require_auth(c)
    <2>1. CASE UNCHANGED session BY <1>3, <2>1 DEF require_auth
    <2>2. CASE /\ session[req[c].cred] # Nobody
               /\ session' = [session EXCEPT ![req[c].cred] = Renewed(session[req[c].cred])]
      BY <1>3, <2>2 DEF require_auth, Renewed, SessionRows
    <2> QED BY <1>3, <2>1, <2>2 DEF require_auth, touch_session_q
  <1>4. ASSUME NEW t \in Sessions, create_session_q(c, t) PROVE session'[s] = session[s] /\ minted \subseteq minted'
    BY <1>4 DEF create_session_q
  <1>5. CASE logout_handler(c) \/ revoke_all_sessions_handler(c)
    BY <1>5 DEF logout_handler, revoke_all_sessions_handler, delete_session_q, delete_all_sessions_q
  <1>6. ASSUME NEW u \in Users, delete_user_handler(c, u)
        PROVE  minted' = minted /\ session'[s] \in {Nobody, session[s]}
    BY <1>6 DEF delete_user_handler, delete_user_q
  <1> QED
    BY <1>1, <1>2, <1>3, <1>4, <1>5, <1>6
    DEF ClientStep, Begin, resolve_auth, user_for_api_token_q, login_handler, verify_login_q,
        create_api_token_q, revoke_api_token_q, create_user_handler, bootstrap_admin,
        bootstrap_handler, Answer, accessTables

(* Some request that the session admitted is about to renew it. *)
Touched(s) == \E c \in Clients : req[c].at = "touch" /\ req[c].cred = s

(* A session that nobody used for its sliding life is used again by no      *)
(* step: whoever holds its row finds it expired and removes it.             *)
LEMMA UnusedStaysUnused ==
  ASSUME AccessTypeOK, ExpiryOK, NEW c \in Clients, ClientStep(c), NEW s \in Sessions, s \in minted,
         now > used[s] + Sliding, ~Touched(s), session'[s] # Nobody
  PROVE  used'[s] = used[s] /\ ~Touched(s)'
  <1> USE DEF AccessTypeOK, RequestsOK, ReqAt, Touched
  <1>0. NoReq.at = "idle" BY DEF NoReq
  <1>1. ASSUME used'[s] = used[s], NEW r, req' = [req EXCEPT ![c] = r],
               r.at # "touch" \/ r.cred # s
        PROVE  used'[s] = used[s] /\ ~Touched(s)'
    BY <1>1
  <1>2. ASSUME UNCHANGED used, Done(c) PROVE used'[s] = used[s] /\ ~Touched(s)'
    BY <1>0, <1>1, <1>2 DEF Done
  <1>3. ASSUME NEW cred \in {"admin"} \cup Sessions \cup Tokens, Begin(c, cred)
        PROVE  used'[s] = used[s] /\ ~Touched(s)'
    BY <1>1, <1>3 DEF Begin, NoReq
  <1>4. CASE resolve_auth(c)
    <2>1. "admin" # s BY AccessAssumption
    <2>2. UNCHANGED used BY <1>4 DEF resolve_auth
    <2> QED BY <1>2, <1>4, <2>1, <2>2 DEF resolve_auth, AccessReqs
  <1>5. CASE user_for_session_q(c)
    <2>1. CASE req[c].cred = s
      <3>1. Lapsed(req[c].row)
        BY <1>5, <2>1, AccessAssumption DEF user_for_session_q, ExpiryOK, Lapsed, RowsOK, SessionRows
      <3>2. session'[s] = Nobody BY <1>5, <2>1, <3>1 DEF user_for_session_q, RowsOK
      <3> QED BY <3>2
    <2>2. CASE req[c].cred # s
      <3>1. used'[s] = used[s] BY <1>5, <2>2 DEF user_for_session_q, RowsOK
      <3>2. CASE Done(c) BY <1>0, <1>1, <3>1, <3>2 DEF Done
      <3>3. ASSUME NEW u, Principal(c, u) PROVE ~Touched(s)'
        BY <1>0, <2>2, <3>3 DEF Principal, AccessReqs
      <3> QED BY <1>5, <3>1, <3>2, <3>3 DEF user_for_session_q
    <2> QED BY <2>1, <2>2
  <1>6. CASE user_for_api_token_q(c)
    BY <1>0, <1>6 DEF user_for_api_token_q, Principal, AccessReqs
  <1>7. CASE require_auth(c)
    <2>1. req[c].cred # s BY <1>7 DEF require_auth
    <2>2. used'[s] = used[s] BY <1>7, <2>1 DEF require_auth, RowsOK
    <2> QED BY <1>7, <2>2 DEF require_auth, AccessReqs
  <1>8. ASSUME NEW u \in Users, verify_login_q(c, u) PROVE used'[s] = used[s] /\ ~Touched(s)'
    BY <1>1, <1>8 DEF verify_login_q, NoReq
  <1>9. ASSUME NEW t \in Sessions, create_session_q(c, t) PROVE used'[s] = used[s] /\ ~Touched(s)'
    BY <1>0, <1>1, <1>9 DEF create_session_q, Done, RowsOK
  <1>10. CASE bootstrap_handler(c)
    BY <1>0, <1>10 DEF bootstrap_handler, Then, Done, AccessReqs
  <1> QED
    BY <1>2, <1>3, <1>4, <1>5, <1>6, <1>7, <1>8, <1>9, <1>10
    DEF ClientStep, login_handler, create_api_token_q, revoke_api_token_q, logout_handler,
        revoke_all_sessions_handler, create_user_handler, delete_user_handler, bootstrap_admin, Answer

(* An ended session stays ended, whatever renewals are under way. *)
LEMMA EndedStaysEnded ==
  ASSUME AccessTypeOK, ExpiryOK, [AccessNext]_accessVars, NEW s \in Sessions, Ended(s)
  PROVE  Ended(s)'
  <1> USE DEF Ended
  <1>1. CASE UNCHANGED accessVars BY <1>1 DEF accessVars, accessTables
  <1>2. CASE Hour
    BY <1>2, AccessAssumption DEF Hour, accessTables, AccessTypeOK, RowsOK, SessionRows
  <1>3. ASSUME NEW c \in Clients, ClientStep(c) PROVE Ended(s)'
    <2>1. now' = now
      BY <1>3 DEF ClientStep, Begin, resolve_auth, user_for_session_q, user_for_api_token_q, require_auth,
        create_api_token_q, revoke_api_token_q, login_handler, verify_login_q, create_session_q,
        logout_handler, revoke_all_sessions_handler, bootstrap_handler, Answer,
        create_user_handler, delete_user_handler, bootstrap_admin
    <2>2. /\ s \in minted'
          /\ session'[s] # Nobody => session[s] # Nobody /\ session'[s].created = session[s].created
      BY <1>3, SessionStaysTheSame
    <2>3. CASE session'[s] = Nobody BY <2>2, <2>3
    <2>4. CASE session'[s] # Nobody /\ now > used[s] + Sliding /\ ~Touched(s)
      <3>1. used'[s] = used[s] /\ ~Touched(s)' BY <1>3, <2>4, UnusedStaysUnused
      <3> QED BY <2>1, <2>2, <2>4, <3>1 DEF Touched
    <2>5. CASE session'[s] # Nobody /\ session[s].created # Nobody /\ now > session[s].created + Absolute
      BY <2>1, <2>2, <2>5
    <2> QED BY <2>2, <2>3, <2>4, <2>5 DEF Touched
  <1> QED BY <1>1, <1>2, <1>3 DEF AccessNext, ClientStep

(* What makes SessionsEnd inductive: the sessions that had ended when a     *)
(* request began are still ended, and a request that came with one of them  *)
(* holds an expired row at most.                                            *)
DeadInv ==
  /\ \A c \in Clients :
       /\ \A s \in req[c].dead : Ended(s)
       /\ ReqAt(c, "session") /\ req[c].cred \in req[c].dead => Lapsed(req[c].row)
  /\ SessionsEnd

(* Every step preserves it. *)
LEMMA DeadStep ==
  ASSUME AccessTypeOK, ExpiryOK, DeadInv, [AccessNext]_accessVars
  PROVE  DeadInv'
  <1> USE DEF AccessTypeOK, RequestsOK, DeadInv, SessionsEnd, ReqAt, Admitted, AccessStages
  <1>0. \A s \in Sessions : Ended(s) => Ended(s)' BY EndedStaysEnded
  <1>1. CASE UNCHANGED <<req, now>>
    <2>1. \A c \in Clients : Lapsed(req[c].row) => Lapsed(req[c].row)' BY <1>1 DEF Lapsed
    <2> QED BY <1>0, <1>1, <2>1 DEF AccessReqs
  <1>2. CASE Hour
    <2>1. ASSUME NEW c \in Clients, ReqAt(c, "session"), Lapsed(req[c].row)
          PROVE  Lapsed(req[c].row)'
      BY <1>2, <2>1, AccessAssumption DEF Hour, Lapsed, RowsOK, SessionRows
    <2>2. req' = req BY <1>2 DEF Hour
    <2> QED BY <1>0, <2>1, <2>2 DEF AccessReqs
  <1>3. ASSUME NEW c \in Clients, ClientStep(c) PROVE DeadInv'
    <2>1. now' = now
      BY <1>3 DEF ClientStep, Begin, resolve_auth, user_for_session_q, user_for_api_token_q, require_auth,
        create_api_token_q, revoke_api_token_q, login_handler, verify_login_q, create_session_q,
        logout_handler, revoke_all_sessions_handler, bootstrap_handler, Answer,
        create_user_handler, delete_user_handler, bootstrap_admin
    <2>2. ASSUME NEW r \in AccessReqs, req' = [req EXCEPT ![c] = r],
                 \A s \in r.dead : Ended(s),
                 r.at = "session" /\ r.cred \in r.dead => Lapsed(r.row),
                 r.at \in {"touch", "act", "hashed"} => r.cred \notin r.dead
          PROVE  DeadInv'
      <3>1. \A q \in Clients : req'[q] = IF q = c THEN r ELSE req[q] BY <2>2
      <3>2. ASSUME NEW q \in Clients PROVE \A s \in req'[q].dead : Ended(s)'
        BY <1>0, <2>2, <3>1 DEF AccessReqs
      <3>3. ASSUME NEW q \in Clients, req'[q].at = "session", req'[q].cred \in req'[q].dead
            PROVE  Lapsed(req[q].row)'
        BY <2>1, <2>2, <3>1, <3>3 DEF Lapsed
      <3>4. ASSUME NEW q \in Clients, Admitted(q)' PROVE req'[q].cred \notin req'[q].dead
        BY <2>2, <3>1, <3>4 DEF AccessReqs
      <3> QED BY <3>2, <3>3, <3>4
    <2>3. NoReq \in AccessReqs /\ NoReq.at = "idle" /\ NoReq.dead = {} BY DEF NoReq, AccessReqs, Somebody
    <2>4. CASE Done(c) BY <2>2, <2>3, <2>4 DEF Done
    <2>5. ASSUME NEW cred \in {"admin"} \cup Sessions \cup Tokens, Begin(c, cred)
          PROVE  DeadInv'
      <3> DEFINE r == [NoReq EXCEPT !.at = "resolve", !.cred = cred, !.barred = gone,
                                    !.dead = {s \in Sessions : Ended(s)}]
      <3>1. r \in AccessReqs /\ r.at = "resolve" /\ r.dead = {s \in Sessions : Ended(s)}
        BY DEF NoReq, AccessReqs, Somebody, AccountsOK
      <3>2. req' = [req EXCEPT ![c] = r] BY <2>5 DEF Begin
      <3> HIDE DEF r
      <3> QED BY <2>2, <3>1, <3>2
    <2>6. req[c] \in AccessReqs OBVIOUS
    <2>7. CASE resolve_auth(c)
      <3>1. CASE req[c].cred = "admin"
        <4>1. "admin" \notin req[c].dead BY <2>6, AccessAssumption DEF AccessReqs
        <4> DEFINE r == [req[c] EXCEPT !.at = "touch", !.super = TRUE]
        <4>2. r \in AccessReqs /\ r.at = "touch" /\ r.dead = req[c].dead /\ r.cred = "admin"
          BY <2>6, <3>1 DEF AccessReqs
        <4>3. req' = [req EXCEPT ![c] = r] BY <2>7, <3>1 DEF resolve_auth
        <4> HIDE DEF r
        <4> QED BY <2>2, <4>1, <4>2, <4>3
      <3>2. CASE req[c].cred \in Sessions /\ session[req[c].cred] # Nobody /\ req[c].cred # "admin"
        <4> DEFINE t == req[c].cred
                   r == [req[c] EXCEPT !.at = "session", !.row = session[t]]
        <4>1. session[t] \in SessionRows BY <3>2 DEF RowsOK
        <4>2. r \in AccessReqs /\ r.at = "session" /\ r.dead = req[c].dead /\ r.cred = t /\ r.row = session[t]
          BY <2>6, <4>1 DEF AccessReqs
        <4>3. req' = [req EXCEPT ![c] = r] BY <2>7, <3>2 DEF resolve_auth
        <4>4. t \in req[c].dead => Lapsed(session[t])
          BY <3>2, <4>1, AccessAssumption DEF Ended, Lapsed, ExpiryOK, RowsOK, SessionRows
        <4> HIDE DEF r
        <4> QED BY <2>2, <4>2, <4>3, <4>4
      <3>3. CASE req[c].cred \notin Sessions /\ token[req[c].cred] # Nobody /\ req[c].cred # "admin"
        <4> DEFINE r == [req[c] EXCEPT !.at = "token", !.row = [user |-> token[req[c].cred]]]
        <4>1. [user |-> token[req[c].cred]] \in [user : Somebody] BY <2>7, <3>3 DEF resolve_auth, RowsOK
        <4>2. r \in AccessReqs /\ r.at = "token" /\ r.dead = req[c].dead
          BY <2>6, <4>1 DEF AccessReqs
        <4>3. req' = [req EXCEPT ![c] = r] BY <2>7, <3>3 DEF resolve_auth
        <4> HIDE DEF r
        <4> QED BY <2>2, <4>2, <4>3
      <3> QED BY <2>4, <2>7, <3>1, <3>2, <3>3 DEF resolve_auth
    <2>8. ASSUME NEW u, Principal(c, get_user_q(u)), req[c].cred \notin req[c].dead
          PROVE  DeadInv'
      <3>1. CASE get_user_q(u) = Nobody BY <2>2, <2>3, <2>8, <3>1 DEF Principal
      <3>2. CASE get_user_q(u) # Nobody
        <4>1. PICK b \in BOOLEAN : b = (get_user_q(u) \in supers)
          <5> WITNESS (get_user_q(u) \in supers) \in BOOLEAN
          <5> QED OBVIOUS
        <4> DEFINE r == [req[c] EXCEPT !.at = "touch", !.user = u, !.super = b]
        <4>2. get_user_q(u) = u /\ u \in users BY <3>2 DEF get_user_q
        <4>3. r \in AccessReqs /\ r.at = "touch" /\ r.dead = req[c].dead /\ r.cred = req[c].cred
          BY <2>6, <4>2 DEF AccessReqs, AccountsOK, Somebody
        <4>4. req' = [req EXCEPT ![c] = r] BY <2>8, <3>2, <4>1, <4>2, Zenon DEF Principal
        <4> HIDE DEF r
        <4> QED BY <2>2, <2>8, <4>3, <4>4
      <3> QED BY <3>1, <3>2
    <2>9. CASE user_for_session_q(c) BY <2>4, <2>8, <2>9 DEF user_for_session_q
    <2>10. CASE user_for_api_token_q(c) BY <2>6, <2>8, <2>10 DEF user_for_api_token_q, AccessReqs
    <2>11. CASE require_auth(c)
      <3> DEFINE r == [req[c] EXCEPT !.at = "act", !.row = Nobody]
      <3>1. r \in AccessReqs /\ r.at = "act" /\ r.dead = req[c].dead /\ r.cred = req[c].cred
        BY <2>6 DEF AccessReqs
      <3>2. req' = [req EXCEPT ![c] = r] BY <2>11 DEF require_auth
      <3> HIDE DEF r
      <3> QED BY <2>2, <2>11, <3>1, <3>2 DEF require_auth
    <2>12. ASSUME NEW u \in Users, verify_login_q(c, u) PROVE DeadInv'
      <3> DEFINE r == [NoReq EXCEPT !.at = "mint", !.user = u]
      <3>1. r \in AccessReqs /\ r.at = "mint" /\ r.dead = {} BY DEF NoReq, AccessReqs, Somebody
      <3>2. req' = [req EXCEPT ![c] = r] BY <2>12 DEF verify_login_q
      <3> HIDE DEF r
      <3> QED BY <2>2, <3>1, <3>2
    <2>13. CASE bootstrap_handler(c)
      <3>1. CASE Then(c, "hashed")
        <4> DEFINE r == [req[c] EXCEPT !.at = "hashed"]
        <4>1. r \in AccessReqs /\ r.at = "hashed" /\ r.dead = req[c].dead /\ r.cred = req[c].cred
          BY <2>6 DEF AccessReqs
        <4>2. req' = [req EXCEPT ![c] = r] BY <3>1 DEF Then
        <4> HIDE DEF r
        <4> QED BY <2>2, <2>13, <4>1, <4>2 DEF bootstrap_handler, Acts
      <3> QED BY <2>4, <2>13, <3>1 DEF bootstrap_handler
    <2> QED
      BY <1>3, <2>4, <2>5, <2>7, <2>9, <2>10, <2>11, <2>12, <2>13
      DEF ClientStep, login_handler, create_session_q, create_api_token_q, revoke_api_token_q,
          logout_handler, revoke_all_sessions_handler, create_user_handler, delete_user_handler,
          bootstrap_admin, Answer
  <1> QED BY <1>1, <1>2, <1>3 DEF AccessNext, ClientStep, accessVars

(* A session that had ended when a request began, by a logout, a            *)
(* revocation, disuse or age, does not admit the request: for every pair of *)
(* lifetimes, every clock and any number of requests and sessions.          *)
THEOREM SessionsReallyEnd == AccessSpec => []SessionsEnd
  <1>1. AccessInit => ExpiryOK
    BY AccessAssumption DEF AccessInit, ExpiryOK, ReqAt, NoReq
  <1>2. AccessInit => DeadInv
    BY DEF AccessInit, DeadInv, SessionsEnd, Admitted, ReqAt, NoReq
  <1>3. AccessTypeOK /\ ExpiryOK /\ [AccessNext]_accessVars => ExpiryOK' BY ExpiryStep
  <1>4. AccessTypeOK /\ ExpiryOK /\ DeadInv /\ [AccessNext]_accessVars => DeadInv' BY DeadStep
  <1>5. DeadInv => SessionsEnd BY DEF DeadInv
  <1> QED BY <1>1, <1>2, <1>3, <1>4, <1>5, AccessTypesInit, AccessTypes, PTL DEF AccessSpec

-----------------------------------------------------------------------------
(* The stages of a request between the opening of its plaintext file and    *)
(* the removal of it.                                                       *)
Encrypting == {"open", "write", "sops", "seal", "fill", "unlink", "give up"}
SecretStages == Encrypting \cup {"none", "store", "clear", "drop", "decrypt", "pull"}
AnyRef == Refs \cup {NoRef}
SecretFiles == {Missing, Torn} \cup [state : {"whole"}, payload : [reg : Nat, form : Kinds]]
SecretReqs == [pc : SecretStages, verb : {"none", "create", "update", "delete", "deploy"}, reg : Nat,
               kind : Kinds, ref : AnyRef, file : SecretFiles]

(* Types: a request that touches a file has a reference. *)
SecretsTypeOK ==
  /\ regs \in Nat /\ refs \in 0 .. MaxRefs
  /\ regRows \in [DOMAIN regRows -> [kind : Kinds, ref : AnyRef]] /\ DOMAIN regRows \subseteq Nat
  /\ plain \in [Refs -> SecretFiles] /\ sealed \in [Refs -> SecretFiles]
  /\ reqs \in [Requesters -> SecretReqs]
  /\ \A c \in Requesters : reqs[c].pc \in Encrypting \cup {"clear"} => reqs[c].ref \in Refs

(* The steps that begin a request, and those that carry it on. *)
Asks(c) ==
  \/ \E kind \in Kinds : create_registry(c, kind) \/ \E r \in 1 .. regs : update_registry(c, r, kind)
  \/ \E r \in 1 .. regs : ReadRegistry(c, r) \/ registry_q(c, r)
(* ... carry it on. *)
Proceeds(c) ==
  encrypt(c) \/ delete(c) \/ Store(c) \/ delete_registry_q(c) \/ decrypt(c) \/ Pulled(c) \/ Cut(c)

(* A file is missing, torn or whole, and these are different. *)
LEMMA FilesDistinct ==
  /\ Missing \in SecretFiles /\ Torn \in SecretFiles
  /\ Missing.state = "missing" /\ Torn.state = "torn"
  /\ \A p \in [reg : Nat, form : Kinds] : /\ Content(p) \in SecretFiles /\ Content(p).state = "whole"
                                          /\ Content(p).payload = p
  /\ \A f \in SecretFiles : f.state = "whole" => f.payload.reg \in Nat
  BY DEF Missing, Torn, Content, SecretFiles

(* A requester without a request. *)
LEMMA NoRequestType == NoRequest \in SecretReqs /\ NoRequest.pc = "none" /\ NoRequest.ref = NoRef
                       /\ NoRequest.file = Missing
  BY FilesDistinct DEF NoRequest, SecretReqs, SecretStages, AnyRef, Kinds

(* One requester's request becomes r; the others stay. *)
LEMMA ReqUpdate ==
  ASSUME SecretsTypeOK, NEW c \in Requesters, NEW r \in SecretReqs, reqs' = [reqs EXCEPT ![c] = r],
         r.pc \in Encrypting \cup {"clear"} => r.ref \in Refs
  PROVE  /\ reqs' \in [Requesters -> SecretReqs]
         /\ \A q \in Requesters : reqs'[q].pc \in Encrypting \cup {"clear"} => reqs'[q].ref \in Refs
  BY DEF SecretsTypeOK

(* What a new request may know: no file, and a reference that is fresh or   *)
(* that the row of its registry holds.                                      *)
Enters(c, r) ==
  /\ reqs' = [reqs EXCEPT ![c] = r] /\ reqs[c] = NoRequest
  /\ r.file = Missing /\ r.pc # "pull"
  /\ \/ refs' = refs /\ (r.ref = NoRef \/ (r.reg \in DOMAIN regRows /\ regRows[r.reg].ref = r.ref))
     \/ refs' = refs + 1 /\ r.ref = refs'

(* Every request begins like that. *)
LEMMA AsksTypes ==
  ASSUME SecretsTypeOK, NEW c \in Requesters, Asks(c)
  PROVE  /\ SecretsTypeOK'
         /\ UNCHANGED <<regRows, plain, sealed>>
         /\ UNCHANGED <<reqs, refs>> \/ \E r \in SecretReqs : Enters(c, r)
  <1> USE DEF SecretsTypeOK
  <1> DEFINE Goal == /\ SecretsTypeOK'
                     /\ UNCHANGED <<regRows, plain, sealed>>
                     /\ UNCHANGED <<reqs, refs>> \/ \E r \in SecretReqs : Enters(c, r)
  <1>0. ASSUME NEW r \in SecretReqs, reqs' = [reqs EXCEPT ![c] = r], reqs[c] = NoRequest,
               r.file = Missing, r.pc # "pull", regs' \in Nat, refs' \in 0 .. MaxRefs,
               UNCHANGED <<regRows, plain, sealed>>,
               r.pc \in Encrypting \cup {"clear"} => r.ref \in Refs,
               \/ refs' = refs /\ (r.ref = NoRef \/ (r.reg \in DOMAIN regRows /\ regRows[r.reg].ref = r.ref))
               \/ refs' = refs + 1 /\ r.ref = refs'
        PROVE  Goal
    BY <1>0, ReqUpdate DEF Enters
  <1>1. ASSUME NEW kind \in Kinds, create_registry(c, kind) PROVE Goal
    <2> DEFINE r == [pc |-> IF kind = "anonymous" THEN "store" ELSE "open", verb |-> "create", reg |-> regs + 1,
                     kind |-> kind, ref |-> IF kind = "anonymous" THEN NoRef ELSE generate, file |-> Missing]
    <2>1. /\ reqs' = [reqs EXCEPT ![c] = r] /\ reqs[c] = NoRequest /\ UNCHANGED <<regRows, plain, sealed>>
          /\ regs' = regs + 1 /\ refs' = IF kind = "anonymous" THEN refs ELSE refs + 1
          /\ kind # "anonymous" => refs < MaxRefs
      BY <1>1 DEF create_registry, Ask
    <2>2. kind # "anonymous" => generate \in Refs /\ generate = refs'
      BY <2>1, SecretsAssumption DEF Refs, generate
    <2>3. r \in SecretReqs
      <3>1. r.pc \in SecretStages /\ r.ref \in AnyRef
        BY <2>2 DEF SecretStages, Encrypting, AnyRef
      <3> QED BY <3>1, FilesDistinct DEF SecretReqs
    <2>4. r.pc \in Encrypting \cup {"clear"} => r.ref \in Refs
      BY <2>2 DEF Encrypting
    <2>5. r.file = Missing /\ r.pc # "pull" /\ regs' \in Nat /\ refs' \in 0 .. MaxRefs
      BY <2>1, SecretsAssumption
    <2>6. \/ refs' = refs /\ r.ref = NoRef
          \/ refs' = refs + 1 /\ r.ref = refs'
      BY <2>1, <2>2
    <2> HIDE DEF r, Goal
    <2> QED BY <1>0, <2>1, <2>3, <2>4, <2>5, <2>6
  <1>2. ASSUME NEW kind \in Kinds, NEW q \in 1 .. regs, update_registry(c, q, kind) PROVE Goal
    <2> DEFINE old == regRows[q].ref
               fresh == kind # "anonymous" /\ old = NoRef
               r == [pc |-> CASE kind # "anonymous" -> "open"
                              [] kind = "anonymous" /\ old # NoRef -> "clear"
                              [] OTHER -> "store",
                     verb |-> "update", reg |-> q, kind |-> kind,
                     ref |-> IF fresh THEN generate ELSE old, file |-> Missing]
    <2>1. /\ reqs' = [reqs EXCEPT ![c] = r] /\ reqs[c] = NoRequest /\ UNCHANGED <<regRows, plain, sealed>>
          /\ regs' = regs /\ refs' = IF fresh THEN refs + 1 ELSE refs
          /\ fresh => refs < MaxRefs
          /\ q \in DOMAIN regRows
      BY <1>2 DEF update_registry, Ask
    <2>2. fresh => generate \in Refs /\ generate = refs'
      BY <2>1, SecretsAssumption DEF Refs, generate
    <2>3. old \in AnyRef BY <2>1
    <2>4. r \in SecretReqs /\ r.ref = IF fresh THEN generate ELSE old
      <3>1. r.pc \in {"open", "clear", "store"}
        BY DEF Kinds
      <3>2. r.pc \in SecretStages BY <3>1 DEF SecretStages, Encrypting
      <3>3. r.ref \in AnyRef
        BY <2>2, <2>3 DEF AnyRef
      <3> QED BY <3>2, <3>3, FilesDistinct DEF SecretReqs
    <2>5. r.pc \in Encrypting \cup {"clear"} => r.ref \in Refs
      BY <2>2, <2>3 DEF Encrypting, AnyRef, Kinds
    <2>6. r.file = Missing /\ r.pc # "pull" /\ regs' \in Nat /\ refs' \in 0 .. MaxRefs /\ r.reg = q
      BY <2>1, SecretsAssumption
    <2>7. \/ refs' = refs /\ r.ref = old
          \/ refs' = refs + 1 /\ r.ref = refs'
      BY <2>1, <2>2, <2>4
    <2> HIDE DEF r, Goal
    <2> QED BY <1>0, <2>1, <2>4, <2>5, <2>6, <2>7
  <1>3. ASSUME NEW q \in 1 .. regs, ReadRegistry(c, q) \/ registry_q(c, q) PROVE Goal
    <2>1. CASE UNCHANGED reqs BY <1>3, <2>1 DEF ReadRegistry, registry_q
    <2>2. ASSUME NEW pc \in {"drop", "decrypt"}, NEW verb \in {"delete", "deploy"},
                 reqs' = [reqs EXCEPT ![c] = [pc |-> pc, verb |-> verb, reg |-> q, kind |-> regRows[q].kind,
                                              ref |-> regRows[q].ref, file |-> Missing]],
                 q \in DOMAIN regRows
          PROVE  Goal
      <3> DEFINE r == [pc |-> pc, verb |-> verb, reg |-> q, kind |-> regRows[q].kind,
                       ref |-> regRows[q].ref, file |-> Missing]
      <3>1. r \in SecretReqs
        BY <2>2, FilesDistinct DEF SecretReqs, SecretStages
      <3>2. r.file = Missing /\ r.pc \in {"drop", "decrypt"} /\ r.reg = q /\ r.ref = regRows[q].ref
        OBVIOUS
      <3>3. reqs[c] = NoRequest /\ UNCHANGED <<regRows, regs, refs, plain, sealed>>
        BY <1>3 DEF ReadRegistry, registry_q, Ask
      <3>4. reqs' = [reqs EXCEPT ![c] = r] BY <2>2
      <3> HIDE DEF r, Goal
      <3> QED BY <1>0, <2>2, <3>1, <3>2, <3>3, <3>4 DEF Encrypting
    <2> HIDE DEF Goal
    <2> QED BY <1>3, <2>1, <2>2 DEF ReadRegistry, registry_q
  <1> QED BY <1>1, <1>2, <1>3 DEF Asks

(* A request that moves on keeps what it knows ... *)
LEMMA MoveTypes ==
  ASSUME SecretsTypeOK, NEW c \in Requesters, NEW pc \in SecretStages, Move(c, pc),
         pc \in Encrypting \cup {"clear"} => reqs[c].ref \in Refs
  PROVE  /\ reqs' \in [Requesters -> SecretReqs]
         /\ \A q \in Requesters : reqs'[q].pc \in Encrypting \cup {"clear"} => reqs'[q].ref \in Refs
         /\ \A q \in Requesters : /\ reqs'[q].ref = reqs[q].ref /\ reqs'[q].reg = reqs[q].reg
                                  /\ reqs'[q].kind = reqs[q].kind /\ reqs'[q].file = reqs[q].file
                                  /\ reqs'[q].pc = IF q = c THEN pc ELSE reqs[q].pc
  <1> DEFINE r == [reqs[c] EXCEPT !.pc = pc]
  <1>1. /\ r \in SecretReqs /\ r.pc = pc /\ r.ref = reqs[c].ref /\ r.reg = reqs[c].reg
        /\ r.kind = reqs[c].kind /\ r.file = reqs[c].file
    BY DEF SecretsTypeOK, SecretReqs
  <1>2. reqs' = [reqs EXCEPT ![c] = r] BY DEF Move
  <1>3. \A q \in Requesters : reqs'[q] = IF q = c THEN r ELSE reqs[q]
    BY <1>2 DEF SecretsTypeOK
  <1> HIDE DEF r
  <1> QED BY <1>1, <1>2, <1>3, ReqUpdate

(* ... and one that ends forgets it. *)
LEMMA RespondTypes ==
  ASSUME SecretsTypeOK, NEW c \in Requesters, Respond(c)
  PROVE  /\ reqs' \in [Requesters -> SecretReqs]
         /\ \A q \in Requesters : reqs'[q].pc \in Encrypting \cup {"clear"} => reqs'[q].ref \in Refs
         /\ \A q \in Requesters : reqs'[q] = IF q = c THEN NoRequest ELSE reqs[q]
  BY NoRequestType, ReqUpdate DEF Respond, SecretsTypeOK, Encrypting

(* Registry r has a claim to reference f: its row names f, a request for it *)
(* uses f, or a file of f, on the disk or in the hands of a request, was    *)
(* supplied for it.                                                         *)
Claim(f, r) ==
  \/ r \in DOMAIN regRows /\ regRows[r].ref = f
  \/ \E c \in Requesters :
       /\ reqs[c].ref = f
       /\ reqs[c].reg = r \/ (reqs[c].file.state = "whole" /\ reqs[c].file.payload.reg = r)
  \/ plain[f].state = "whole" /\ plain[f].payload.reg = r
  \/ sealed[f].state = "whole" /\ sealed[f].payload.reg = r

(* A step adds no claim. *)
NoNewClaim == \A f \in Refs, r \in Nat : Claim(f, r)' => Claim(f, r)

(* Encryption adds no claim: what goes into a file of f was supplied for    *)
(* the registry of the request, or was in a file of f already.              *)
LEMMA EncryptStep ==
  ASSUME SecretsTypeOK, NEW c \in Requesters, encrypt(c)
  PROVE  SecretsTypeOK' /\ NoNewClaim
  <1>0. UNCHANGED <<regRows, regs, refs>> BY DEF encrypt
  <1>1. Encrypting \subseteq SecretStages /\ "store" \in SecretStages /\ NoRef \notin Refs
    BY DEF Encrypting, SecretStages, NoRef, Refs
  <1>2. ASSUME NEW pc \in SecretStages, Move(c, pc), reqs[c].ref \in Refs,
               plain' \in [Refs -> SecretFiles], sealed' \in [Refs -> SecretFiles],
               \A f \in Refs : \/ plain'[f] \in {plain[f], Missing, Torn}
                               \/ /\ f = reqs[c].ref
                                  /\ plain'[f].payload.reg = reqs[c].reg,
               \A f \in Refs : \/ sealed'[f] \in {sealed[f], Missing, Torn}
                               \/ f = reqs[c].ref /\ sealed'[f] = reqs[c].file
        PROVE  SecretsTypeOK' /\ NoNewClaim
    <2>1. SecretsTypeOK' BY <1>0, <1>2, MoveTypes DEF SecretsTypeOK
    <2>2. \A q \in Requesters : reqs'[q].ref = reqs[q].ref /\ reqs'[q].reg = reqs[q].reg /\ reqs'[q].file = reqs[q].file
      BY <1>2, MoveTypes
    <2>3. ASSUME NEW f \in Refs, NEW r \in Nat, Claim(f, r)' PROVE Claim(f, r)
      <3>1. CASE r \in DOMAIN regRows' /\ regRows'[r].ref = f BY <1>0, <3>1 DEF Claim
      <3>2. ASSUME NEW q \in Requesters, reqs'[q].ref = f,
                   reqs'[q].reg = r \/ (reqs'[q].file.state = "whole" /\ reqs'[q].file.payload.reg = r)
            PROVE  Claim(f, r)
        BY <2>2, <3>2 DEF Claim
      <3>3. CASE plain'[f].state = "whole" /\ plain'[f].payload.reg = r
        BY <1>2, <3>3, FilesDistinct DEF Claim
      <3>4. CASE sealed'[f].state = "whole" /\ sealed'[f].payload.reg = r
        <4>1. CASE f = reqs[c].ref /\ sealed'[f] = reqs[c].file BY <3>4, <4>1 DEF Claim
        <4>2. CASE sealed'[f] \in {sealed[f], Missing, Torn} BY <3>4, <4>2, FilesDistinct DEF Claim
        <4> QED BY <1>2, <4>1, <4>2
      <3> QED BY <2>3, <3>1, <3>2, <3>3, <3>4 DEF Claim
    <2> QED BY <2>1, <2>3 DEF NoNewClaim
  <1>3. ASSUME Respond(c), sealed' = sealed,
               plain' \in [Refs -> SecretFiles],
               \A f \in Refs : plain'[f] \in {plain[f], Missing}
        PROVE  SecretsTypeOK' /\ NoNewClaim
    <2>1. SecretsTypeOK' BY <1>0, <1>3, RespondTypes DEF SecretsTypeOK
    <2>2. \A q \in Requesters : reqs'[q] = IF q = c THEN NoRequest ELSE reqs[q]
      BY <1>3, RespondTypes
    <2>3. ASSUME NEW f \in Refs, NEW r \in Nat, Claim(f, r)' PROVE Claim(f, r)
      BY <1>0, <1>1, <1>3, <2>2, <2>3, FilesDistinct, NoRequestType DEF Claim
    <2> QED BY <2>1, <2>3 DEF NoNewClaim
  <1>4. reqs[c] \in SecretReqs /\ (reqs[c].pc \in Encrypting => reqs[c].ref \in Refs)
    BY DEF SecretsTypeOK
  <1>5. plain \in [Refs -> SecretFiles] /\ sealed \in [Refs -> SecretFiles] BY DEF SecretsTypeOK
  <1>6. CASE write_file_mode(c)
    <2>1. CASE /\ RegAt(c, "open") /\ plain' = [plain EXCEPT ![reqs[c].ref] = Torn] /\ Move(c, "write")
               /\ UNCHANGED sealed
      BY <1>1, <1>2, <1>4, <1>5, <2>1, FilesDistinct DEF RegAt, Encrypting
    <2>2. CASE /\ RegAt(c, "write") /\ Move(c, "sops") /\ UNCHANGED sealed
               /\ plain' = [plain EXCEPT ![reqs[c].ref] =
                    Written(@, Content([reg |-> reqs[c].reg, form |-> reqs[c].kind]))]
      <3> DEFINE p == [reg |-> reqs[c].reg, form |-> reqs[c].kind]
      <3>1. p \in [reg : Nat, form : Kinds] BY <1>4 DEF SecretReqs
      <3>2. /\ Content(p) \in SecretFiles /\ Content(p).payload.reg = reqs[c].reg
        BY <3>1, FilesDistinct
      <3>3. reqs[c].ref \in Refs BY <1>4, <2>2 DEF RegAt, Encrypting
      <3>4. /\ plain' \in [Refs -> SecretFiles]
            /\ \A f \in Refs : \/ plain'[f] \in {plain[f], Missing, Torn}
                               \/ f = reqs[c].ref /\ plain'[f].payload.reg = reqs[c].reg
        BY <1>5, <2>2, <3>2, <3>3, FilesDistinct DEF Written
      <3> QED BY <1>1, <1>2, <1>5, <2>2, <3>3, <3>4 DEF Encrypting
    <2>3. CASE Respond(c) /\ UNCHANGED <<plain, sealed>> BY <1>3, <1>5, <2>3
    <2> QED BY <1>6, <2>1, <2>2, <2>3 DEF write_file_mode
  <1>7. CASE Sops(c)
    <2>1. reqs[c].ref \in Refs BY <1>4, <1>7 DEF Sops, RegAt, Encrypting
    <2>2. CASE plain[reqs[c].ref].state = "whole"
      <3> DEFINE r == [reqs[c] EXCEPT !.pc = "seal", !.file = plain[reqs[c].ref]]
      <3>1. plain[reqs[c].ref] \in SecretFiles BY <1>5, <2>1
      <3>2. /\ r \in SecretReqs /\ r.ref = reqs[c].ref /\ r.reg = reqs[c].reg
            /\ r.file = plain[reqs[c].ref] /\ r.pc = "seal"
        BY <1>1, <1>4, <3>1 DEF SecretReqs, Encrypting
      <3>3. reqs' = [reqs EXCEPT ![c] = r] /\ UNCHANGED <<plain, sealed>> BY <1>7, <2>2 DEF Sops
      <3>4. \A q \in Requesters : reqs'[q] = IF q = c THEN r ELSE reqs[q] BY <3>3 DEF SecretsTypeOK
      <3> HIDE DEF r
      <3>5. SecretsTypeOK' BY <1>0, <2>1, <3>2, <3>3, ReqUpdate DEF SecretsTypeOK
      <3>6. NoNewClaim BY <1>0, <2>1, <3>2, <3>3, <3>4 DEF NoNewClaim, Claim
      <3> QED BY <3>5, <3>6
    <2>3. CASE plain[reqs[c].ref].state # "whole"
      <3>1. Move(c, "give up") /\ UNCHANGED <<plain, sealed>> BY <1>7, <2>3 DEF Sops, Move
      <3> QED BY <1>1, <1>2, <1>5, <2>1, <3>1 DEF Encrypting
    <2> QED BY <2>2, <2>3
  <1>8. CASE SopsFails(c) BY <1>1, <1>2, <1>4, <1>5, <1>8 DEF SopsFails, RegAt, Encrypting
  <1>9. CASE Seal(c)
    <2>1. CASE /\ RegAt(c, "seal") /\ sealed' = [sealed EXCEPT ![reqs[c].ref] = Torn]
               /\ \E next \in {"fill", "give up"} : Move(c, next)
               /\ UNCHANGED plain
      BY <1>1, <1>2, <1>4, <1>5, <2>1, FilesDistinct DEF RegAt, Encrypting
    <2>2. CASE /\ RegAt(c, "fill") /\ sealed' = [sealed EXCEPT ![reqs[c].ref] = Written(@, reqs[c].file)]
               /\ Move(c, "unlink") /\ UNCHANGED plain
      <3>1. reqs[c].file \in SecretFiles /\ reqs[c].ref \in Refs BY <1>4, <2>2 DEF SecretReqs, RegAt, Encrypting
      <3> QED BY <1>1, <1>2, <1>5, <2>2, <3>1, FilesDistinct DEF RegAt, Encrypting, Written
    <2> QED BY <1>9, <2>1, <2>2 DEF Seal
  <1>10. CASE Unlink(c)
    <2>1. /\ UNCHANGED sealed /\ plain' \in [Refs -> SecretFiles]
          /\ \A f \in Refs : plain'[f] \in {plain[f], Missing}
      BY <1>5, <1>10, FilesDistinct DEF Unlink
    <2>2. CASE RegAt(c, "unlink") /\ Move(c, "store")
      BY <1>1, <1>2, <1>4, <1>5, <2>1, <2>2 DEF RegAt, Encrypting
    <2>3. CASE Respond(c) BY <1>3, <2>1, <2>3
    <2> QED BY <1>10, <2>2, <2>3 DEF Unlink
  <1> QED BY <1>6, <1>7, <1>8, <1>9, <1>10 DEF encrypt

(* Neither do the deletion of a file, the rows that are stored and deleted, *)
(* and decryption.                                                          *)
LEMMA OtherSteps ==
  ASSUME SecretsTypeOK, NEW c \in Requesters,
         delete(c) \/ Store(c) \/ delete_registry_q(c) \/ decrypt(c) \/ Pulled(c) \/ Cut(c)
  PROVE  SecretsTypeOK' /\ NoNewClaim
  <1>1. {"store", "clear", "pull"} \subseteq SecretStages /\ NoRef \notin Refs
    BY DEF SecretStages, NoRef, Refs
  <1>2. reqs[c] \in SecretReqs BY DEF SecretsTypeOK
  <1>3. ASSUME NEW r \in SecretReqs, reqs' = [reqs EXCEPT ![c] = r],
               r.pc \in Encrypting \cup {"clear"} => r.ref \in Refs,
               \/ r.ref = NoRef
               \/ /\ r.ref = reqs[c].ref /\ r.reg = reqs[c].reg
                  /\ \/ r.file = reqs[c].file
                     \/ r.ref \in Refs /\ r.file = sealed[r.ref],
               UNCHANGED <<regs, refs, plain>>,
               sealed' \in [Refs -> SecretFiles], \A f \in Refs : sealed'[f] \in {sealed[f], Missing},
               regRows' \in [DOMAIN regRows' -> [kind : Kinds, ref : AnyRef]],
               DOMAIN regRows' \subseteq DOMAIN regRows \cup {reqs[c].reg},
               \A q \in DOMAIN regRows' : \/ q \in DOMAIN regRows /\ regRows'[q] = regRows[q]
                                          \/ q = reqs[c].reg /\ regRows'[q].ref = reqs[c].ref
        PROVE  SecretsTypeOK' /\ NoNewClaim
    <2>1. SecretsTypeOK'
      <3>1. reqs[c].reg \in Nat BY <1>2 DEF SecretReqs
      <3> QED BY <1>3, <3>1, ReqUpdate DEF SecretsTypeOK
    <2>2. \A q \in Requesters : reqs'[q] = IF q = c THEN r ELSE reqs[q] BY <1>3 DEF SecretsTypeOK
    <2>3. ASSUME NEW f \in Refs, NEW g \in Nat, Claim(f, g)' PROVE Claim(f, g)
      <3>1. CASE g \in DOMAIN regRows' /\ regRows'[g].ref = f BY <1>3, <3>1 DEF Claim
      <3>2. ASSUME NEW q \in Requesters, reqs'[q].ref = f,
                   reqs'[q].reg = g \/ (reqs'[q].file.state = "whole" /\ reqs'[q].file.payload.reg = g)
            PROVE  Claim(f, g)
        <4>1. CASE q # c BY <2>2, <3>2, <4>1 DEF Claim
        <4>2. CASE q = c BY <1>1, <1>3, <2>2, <3>2, <4>2 DEF Claim
        <4> QED BY <4>1, <4>2
      <3>3. CASE plain'[f].state = "whole" /\ plain'[f].payload.reg = g
        BY <1>3, <3>3 DEF Claim
      <3>4. CASE sealed'[f].state = "whole" /\ sealed'[f].payload.reg = g
        BY <1>3, <3>4, FilesDistinct DEF Claim
      <3> QED BY <2>3, <3>1, <3>2, <3>3, <3>4 DEF Claim
    <2> QED BY <2>1, <2>3 DEF NoNewClaim
  <1>4. NoRequest.pc \notin Encrypting \cup {"clear"} BY NoRequestType DEF Encrypting
  <1>5. /\ regRows \in [DOMAIN regRows -> [kind : Kinds, ref : AnyRef]]
        /\ sealed \in [Refs -> SecretFiles]
    BY DEF SecretsTypeOK
  <1>6. ASSUME Respond(c), UNCHANGED <<regRows, regs, refs, plain, sealed>>
        PROVE  SecretsTypeOK' /\ NoNewClaim
    BY <1>3, <1>4, <1>5, <1>6, NoRequestType DEF Respond
  <1>7. CASE delete(c)
    <2>1. /\ UNCHANGED <<regRows, regs, refs, plain>> /\ sealed' \in [Refs -> SecretFiles]
          /\ \A f \in Refs : sealed'[f] \in {sealed[f], Missing}
      BY <1>5, <1>7, FilesDistinct DEF delete
    <2>2. CASE Respond(c) BY <1>3, <1>4, <1>5, <2>1, <2>2, NoRequestType DEF Respond
    <2>3. CASE reqs' = [reqs EXCEPT ![c] = [@ EXCEPT !.pc = "store", !.ref = NoRef]]
      <3> DEFINE r == [reqs[c] EXCEPT !.pc = "store", !.ref = NoRef]
      <3>1. r \in SecretReqs /\ r.ref = NoRef /\ r.pc = "store"
        BY <1>1, <1>2 DEF SecretReqs, AnyRef
      <3>2. reqs' = [reqs EXCEPT ![c] = r] BY <2>3
      <3> HIDE DEF r
      <3> QED BY <1>3, <1>5, <2>1, <3>1, <3>2 DEF Encrypting
    <2> QED BY <1>7, <2>2, <2>3 DEF delete, Respond
  <1>8. CASE Store(c)
    <2> DEFINE row == [kind |-> reqs[c].kind, ref |-> reqs[c].ref]
    <2>1. row \in [kind : Kinds, ref : AnyRef] /\ row.ref = reqs[c].ref BY <1>2 DEF SecretReqs
    <2>2. Respond(c) /\ UNCHANGED <<regs, refs, plain, sealed>> BY <1>8 DEF Store
    <2>3. CASE UNCHANGED regRows BY <1>6, <2>2, <2>3
    <2>4. CASE create_registry_q(reqs[c].reg, row) \/ update_registry_q(reqs[c].reg, row)
      <3> HIDE DEF row
      <3>1. /\ regRows' \in [DOMAIN regRows' -> [kind : Kinds, ref : AnyRef]]
            /\ DOMAIN regRows' \subseteq DOMAIN regRows \cup {reqs[c].reg}
            /\ \A q \in DOMAIN regRows' : \/ q \in DOMAIN regRows /\ regRows'[q] = regRows[q]
                                          \/ q = reqs[c].reg /\ regRows'[q].ref = reqs[c].ref
        BY <1>5, <2>1, <2>4 DEF create_registry_q, update_registry_q
      <3> QED BY <1>3, <1>4, <1>5, <2>2, <3>1, NoRequestType DEF Respond
    <2> QED BY <1>8, <2>3, <2>4 DEF Store
  <1>9. CASE delete_registry_q(c)
    <2>1. CASE Respond(c) /\ UNCHANGED regRows
      BY <1>6, <1>9, <2>1 DEF delete_registry_q
    <2>2. CASE regRows' = [q \in DOMAIN regRows \ {reqs[c].reg} |-> regRows[q]]
      <3>1. /\ regRows' \in [DOMAIN regRows' -> [kind : Kinds, ref : AnyRef]]
            /\ DOMAIN regRows' \subseteq DOMAIN regRows \cup {reqs[c].reg}
            /\ \A q \in DOMAIN regRows' : q \in DOMAIN regRows /\ regRows'[q] = regRows[q]
        BY <1>5, <2>2
      <3>2. UNCHANGED <<regs, refs, plain, sealed>> BY <1>9 DEF delete_registry_q
      <3>3. CASE Respond(c) BY <1>3, <1>4, <1>5, <3>1, <3>2, <3>3, NoRequestType DEF Respond
      <3>4. CASE reqs[c].ref # NoRef /\ Move(c, "clear")
        <4> DEFINE r == [reqs[c] EXCEPT !.pc = "clear"]
        <4>1. /\ r \in SecretReqs /\ r.ref = reqs[c].ref /\ r.reg = reqs[c].reg
              /\ r.file = reqs[c].file /\ r.ref \in Refs
          BY <1>1, <1>2, <3>4 DEF SecretReqs, AnyRef
        <4>2. reqs' = [reqs EXCEPT ![c] = r] BY <3>4 DEF Move
        <4> HIDE DEF r
        <4> QED BY <1>3, <1>5, <3>1, <3>2, <4>1, <4>2
      <3> QED BY <1>9, <2>2, <3>3, <3>4 DEF delete_registry_q
    <2> QED BY <1>9, <2>1, <2>2 DEF delete_registry_q
  <1>10. CASE decrypt(c)
    <2> DEFINE file == IF reqs[c].ref = NoRef THEN Missing ELSE sealed[reqs[c].ref]
    <2>1. UNCHANGED <<regRows, regs, refs, plain, sealed>> BY <1>10 DEF decrypt
    <2>2. CASE Respond(c) BY <1>6, <2>1, <2>2
    <2>3. CASE reqs' = [reqs EXCEPT ![c] = [@ EXCEPT !.pc = "pull", !.file = file]]
      <3>1. file \in SecretFiles /\ (reqs[c].ref = NoRef \/ (reqs[c].ref \in Refs /\ file = sealed[reqs[c].ref]))
        BY <1>2, <1>5, FilesDistinct DEF SecretReqs, AnyRef
      <3> HIDE DEF file
      <3> DEFINE r == [reqs[c] EXCEPT !.pc = "pull", !.file = file]
      <3>2. r \in SecretReqs /\ r.ref = reqs[c].ref /\ r.reg = reqs[c].reg /\ r.file = file /\ r.pc = "pull"
        BY <1>1, <1>2, <3>1 DEF SecretReqs
      <3>3. reqs' = [reqs EXCEPT ![c] = r] BY <2>3
      <3> HIDE DEF r
      <3> QED BY <1>3, <1>5, <2>1, <3>1, <3>2, <3>3 DEF Encrypting
    <2> QED BY <1>10, <2>2, <2>3, Zenon DEF decrypt
  <1>11. CASE Pulled(c) BY <1>6, <1>11 DEF Pulled
  <1>12. CASE Cut(c) BY <1>6, <1>12 DEF Cut
  <1> QED BY <1>7, <1>8, <1>9, <1>10, <1>11, <1>12

(* The claims to a reference are all of one registry, and only references   *)
(* that were given out are claimed.                                         *)
ClaimsAgree ==
  \A f \in Refs : /\ \A r, q \in Nat : Claim(f, r) /\ Claim(f, q) => r = q
                  /\ \A r \in Nat : Claim(f, r) => f <= refs

(* The inductive invariant behind CredentialIsItsOwn. *)
SecretsInv == SecretsTypeOK /\ ClaimsAgree /\ CredentialIsItsOwn

(* Only a fresh reference gets a new claim, and it has no other. *)
LEMMA ClaimsStep ==
  ASSUME SecretsTypeOK, ClaimsAgree, NEW c \in Requesters, Asks(c) \/ Proceeds(c)
  PROVE  SecretsTypeOK' /\ ClaimsAgree'
  <1>1. ASSUME SecretsTypeOK', NoNewClaim, refs' = refs PROVE SecretsTypeOK' /\ ClaimsAgree'
    BY <1>1 DEF ClaimsAgree, NoNewClaim
  <1>2. CASE Proceeds(c)
    <2>1. refs' = refs
      BY <1>2 DEF Proceeds, encrypt, delete, Store, delete_registry_q, decrypt, Pulled, Cut
    <2> QED BY <1>1, <1>2, <2>1, EncryptStep, OtherSteps DEF Proceeds
  <1>3. CASE Asks(c)
    <2>1. SecretsTypeOK' /\ UNCHANGED <<regRows, plain, sealed>> BY <1>3, AsksTypes
    <2>2. CASE UNCHANGED <<reqs, refs>>
      <3>1. \A f, r : Claim(f, r)' <=> Claim(f, r) BY <2>1, <2>2 DEF Claim
      <3> QED BY <1>1, <2>1, <2>2, <3>1 DEF NoNewClaim
    <2>3. ASSUME NEW r \in SecretReqs, Enters(c, r) PROVE SecretsTypeOK' /\ ClaimsAgree'
      <3>0. NoRef \notin Refs BY DEF NoRef, Refs
      <3>1. \A q \in Requesters : reqs'[q] = IF q = c THEN r ELSE reqs[q]
        BY <2>3 DEF Enters, SecretsTypeOK
      <3>2. r.file.state # "whole" BY <2>3, FilesDistinct DEF Enters
      <3>3. ASSUME NEW f \in Refs, NEW g \in Nat, Claim(f, g)'
            PROVE  Claim(f, g) \/ (f = r.ref /\ g = r.reg)
        BY <2>1, <3>1, <3>2, <3>3 DEF Claim
      <3>4. CASE refs' = refs /\ (r.ref = NoRef \/ (r.reg \in DOMAIN regRows /\ regRows[r.reg].ref = r.ref))
        <4>1. \A f \in Refs : f = r.ref => Claim(f, r.reg) BY <3>0, <3>4 DEF Claim
        <4>2. NoNewClaim BY <3>3, <4>1 DEF NoNewClaim
        <4> QED BY <1>1, <2>1, <3>4, <4>2
      <3>5. CASE refs' = refs + 1 /\ r.ref = refs'
        <4>1. \A f \in Refs, g \in Nat : Claim(f, g) => f <= refs /\ f # refs'
          BY <3>5 DEF ClaimsAgree, SecretsTypeOK, Refs
        <4>2. \A f \in Refs, g \in Nat : Claim(f, g)' => f <= refs'
          BY <3>3, <3>5, <4>1 DEF SecretsTypeOK, Refs
        <4>3. \A f \in Refs, g, q \in Nat : Claim(f, g)' /\ Claim(f, q)' => g = q
          BY <3>3, <3>5, <4>1 DEF ClaimsAgree
        <4> QED BY <2>1, <4>2, <4>3 DEF ClaimsAgree
      <3> QED BY <2>3, <3>4, <3>5 DEF Enters
    <2> QED BY <1>3, <2>2, <2>3, AsksTypes
  <1> QED BY <1>2, <1>3

(* A request that starts to pull has read the file of its row's reference:  *)
(* both are claims to that reference, so the file was supplied for the      *)
(* registry it pulls from.                                                  *)
LEMMA OwnStep ==
  ASSUME SecretsInv, NEW c \in Requesters, Asks(c) \/ Proceeds(c)
  PROVE  CredentialIsItsOwn'
  <1> USE DEF SecretsInv
  <1>1. ASSUME \A q \in Requesters : \/ reqs'[q].pc # "pull"
                                     \/ reqs'[q] = reqs[q]
        PROVE  CredentialIsItsOwn'
    BY <1>1 DEF CredentialIsItsOwn, RegAt
  <1>2. CASE Respond(c) BY <1>1, <1>2, RespondTypes, NoRequestType
  <1>3. ASSUME NEW pc \in SecretStages \ {"pull"}, Move(c, pc) PROVE CredentialIsItsOwn'
    <2>1. \A q \in Requesters : reqs'[q] = IF q = c THEN [reqs[c] EXCEPT !.pc = pc] ELSE reqs[q]
      BY <1>3 DEF Move, SecretsTypeOK
    <2>2. [reqs[c] EXCEPT !.pc = pc].pc = pc BY DEF SecretsTypeOK, SecretReqs
    <2> QED BY <1>1, <2>1, <2>2
  <1>4. CASE Asks(c)
    <2>1. ASSUME NEW r \in SecretReqs, Enters(c, r) PROVE CredentialIsItsOwn'
      BY <1>1, <2>1 DEF Enters, SecretsTypeOK
    <2> QED BY <1>1, <1>4, <2>1, AsksTypes
  <1>5. {"write", "sops", "fill", "give up", "unlink", "store", "clear"} \subseteq SecretStages \ {"pull"}
    BY DEF SecretStages, Encrypting
  <1>6. CASE encrypt(c)
    <2>1. CASE Sops(c)
      <3>1. ASSUME NEW r, reqs' = [reqs EXCEPT ![c] = r], r.pc # "pull" PROVE CredentialIsItsOwn'
        BY <1>1, <3>1 DEF SecretsTypeOK
      <3>2. /\ [reqs[c] EXCEPT !.pc = "seal", !.file = plain[reqs[c].ref]].pc = "seal"
            /\ [reqs[c] EXCEPT !.pc = "give up"].pc = "give up"
        BY DEF SecretsTypeOK, SecretReqs
      <3> QED BY <2>1, <3>1, <3>2 DEF Sops
    <2> QED BY <1>2, <1>3, <1>5, <1>6, <2>1 DEF encrypt, write_file_mode, SopsFails, Seal, Unlink
  <1>7. CASE delete(c)
    <2>1. [reqs[c] EXCEPT !.pc = "store", !.ref = NoRef].pc = "store" BY DEF SecretsTypeOK, SecretReqs
    <2>2. CASE reqs' = [reqs EXCEPT ![c] = [@ EXCEPT !.pc = "store", !.ref = NoRef]]
      BY <1>1, <2>1, <2>2 DEF SecretsTypeOK
    <2> QED BY <1>2, <1>7, <2>2 DEF delete, Respond
  <1>8. CASE Store(c) \/ delete_registry_q(c) \/ Pulled(c) \/ Cut(c)
    BY <1>2, <1>3, <1>5, <1>8 DEF Store, delete_registry_q, Pulled, Cut
  <1>9. CASE decrypt(c)
    <2> DEFINE file == IF reqs[c].ref = NoRef THEN Missing ELSE sealed[reqs[c].ref]
               r == [reqs[c] EXCEPT !.pc = "pull", !.file = file]
    <2>1. CASE ~Respond(c)
      <3>1. /\ reqs' = [reqs EXCEPT ![c] = r]
            /\ reqs[c].ref # NoRef => file.state = "whole"
            /\ resolve_registry_auth(reqs[c].kind, file)
        BY <1>9, <2>1, Zenon DEF decrypt
      <3>2. /\ r.pc = "pull" /\ r.file = file /\ r.ref = reqs[c].ref /\ r.reg = reqs[c].reg /\ r.kind = reqs[c].kind
            /\ reqs[c].ref \in AnyRef /\ reqs[c].reg \in Nat
        BY DEF SecretsTypeOK, SecretReqs
      <3>3. ASSUME reqs[c].kind # "anonymous" PROVE file.state = "whole" /\ file.payload.reg = reqs[c].reg
        <4>1. file.state = "whole" /\ reqs[c].ref \in Refs
          BY <3>1, <3>2, <3>3, FilesDistinct DEF resolve_registry_auth, AnyRef
        <4>2. file = sealed[reqs[c].ref] /\ file.payload.reg \in Nat
          BY <4>1, FilesDistinct DEF Refs, NoRef, SecretsTypeOK
        <4>3. Claim(reqs[c].ref, file.payload.reg) BY <4>1, <4>2 DEF Claim
        <4>4. Claim(reqs[c].ref, reqs[c].reg) BY DEF Claim
        <4> QED BY <3>2, <4>1, <4>2, <4>3, <4>4 DEF ClaimsAgree
      <3>4. \A q \in Requesters : reqs'[q] = IF q = c THEN r ELSE reqs[q] BY <3>1 DEF SecretsTypeOK
      <3> HIDE DEF r, file
      <3> QED BY <3>2, <3>3, <3>4 DEF CredentialIsItsOwn, RegAt
    <2> QED BY <1>2, <2>1
  <1> QED BY <1>4, <1>6, <1>7, <1>8, <1>9 DEF Proceeds

(* The invariant holds in every reachable state. *)
THEOREM SecretsInvariant == SecretsSpec => []SecretsInv
  <1>1. ASSUME SecretsInit PROVE SecretsInv
    <2>1. SecretsTypeOK
      <3>1. regs \in Nat /\ refs \in 0 .. MaxRefs BY <1>1, SecretsAssumption DEF SecretsInit
      <3>2. regRows \in [DOMAIN regRows -> [kind : Kinds, ref : AnyRef]] /\ DOMAIN regRows = {}
        BY <1>1 DEF SecretsInit
      <3>3. plain \in [Refs -> SecretFiles] /\ sealed \in [Refs -> SecretFiles]
        BY <1>1, FilesDistinct DEF SecretsInit
      <3>4. reqs = [c \in Requesters |-> NoRequest] BY <1>1 DEF SecretsInit
      <3>5. /\ reqs \in [Requesters -> SecretReqs]
            /\ \A c \in Requesters : reqs[c].pc \notin Encrypting \cup {"clear"}
        BY <3>4, NoRequestType DEF Encrypting
      <3> QED BY <3>1, <3>2, <3>3, <3>5 DEF SecretsTypeOK
    <2>2. \A f \in Refs, r \in Nat : ~Claim(f, r)
      BY <1>1, FilesDistinct, NoRequestType DEF SecretsInit, Claim, Refs, NoRef
    <2>3. CredentialIsItsOwn
      BY <1>1, NoRequestType DEF SecretsInit, CredentialIsItsOwn, RegAt
    <2> QED BY <2>1, <2>2, <2>3 DEF SecretsInv, ClaimsAgree
  <1>2. ASSUME SecretsInv, [SecretsNext]_secretVars PROVE SecretsInv'
    <2>1. CASE UNCHANGED secretVars
      BY <1>2, <2>1 DEF secretVars, SecretsInv, SecretsTypeOK, ClaimsAgree, Claim, CredentialIsItsOwn, RegAt
    <2>2. ASSUME NEW r \in 1 .. regs, NameRegistry(r) PROVE SecretsInv'
      BY <1>2, <2>2 DEF NameRegistry, SecretsInv, SecretsTypeOK, ClaimsAgree, Claim, CredentialIsItsOwn, RegAt
    <2>3. ASSUME NEW c \in Requesters, Asks(c) \/ Proceeds(c) PROVE SecretsInv'
      BY <1>2, <2>3, ClaimsStep, OwnStep DEF SecretsInv
    <2> QED BY <1>2, <2>1, <2>2, <2>3 DEF SecretsNext, Asks, Proceeds
  <1> QED BY <1>1, <1>2, PTL DEF SecretsSpec

(* However requests on registries overlap, fail and are cut short, a pull   *)
(* uses a whole credential that was supplied for its own registry: for any  *)
(* number of registries, references and requests.                           *)
THEOREM CredentialsAreTheirOwn == SecretsSpec => []CredentialIsItsOwn
  BY SecretsInvariant, PTL DEF SecretsInv

(* A plaintext file has a writer that will remove it, or was left behind by *)
(* a mishap that is on record: every step preserves this.                   *)
LEMMA BriefStep ==
  ASSUME SecretsTypeOK, PlaintextIsBrief, NEW c \in Requesters, Asks(c) \/ Proceeds(c)
  PROVE  PlaintextIsBrief'
  <1> DEFINE Busy(q, f) == reqs[q].ref = f /\ reqs[q].pc \in Encrypting
  <1>0. \A f \in Refs : plain[f] # Missing => f \in leftover \/ \E q \in Requesters : Busy(q, f)
    BY DEF PlaintextIsBrief, Encrypting
  <1>1. ASSUME \A f \in Refs : plain'[f] # Missing => f \in leftover' \/ \E q \in Requesters : Busy(q, f)'
        PROVE  PlaintextIsBrief'
    <2>1. ASSUME NEW f \in Refs, NEW q \in Requesters, Busy(q, f)'
          PROVE  reqs'[q] # NoRequest /\ reqs'[q].ref = f
                 /\ reqs'[q].pc \in {"open", "write", "sops", "seal", "fill", "unlink", "give up"}
      BY <2>1, NoRequestType DEF Encrypting
    <2>2. ASSUME NEW f \in Refs, plain'[f] # Missing, f \notin leftover'
          PROVE  \E q \in Requesters : reqs'[q] # NoRequest /\ reqs'[q].ref = f
                   /\ reqs'[q].pc \in {"open", "write", "sops", "seal", "fill", "unlink", "give up"}
      <3>1. PICK q \in Requesters : Busy(q, f)' BY <1>1, <2>2
      <3> HIDE DEF Busy
      <3> QED BY <2>1, <3>1
    <2> QED BY <2>2 DEF PlaintextIsBrief
  <1>2. ASSUME leftover \subseteq leftover',
               \A f \in Refs :
                 \/ plain'[f] = Missing
                 \/ f \in leftover'
                 \/ \E q \in Requesters : Busy(q, f)'
                 \/ /\ plain[f] # Missing
                    /\ \A q \in Requesters : Busy(q, f) => Busy(q, f)'
        PROVE  PlaintextIsBrief'
    <2> HIDE DEF Busy
    <2> QED BY <1>0, <1>1, <1>2
  <1>3. ASSUME NEW pc \in Encrypting, Move(c, pc), reqs[c].ref \in Refs, UNCHANGED leftover,
               \A f \in Refs : f = reqs[c].ref \/ plain'[f] = plain[f]
        PROVE  PlaintextIsBrief'
    <2>1. \A q \in Requesters : /\ reqs'[q].ref = reqs[q].ref
                                /\ reqs'[q].pc = IF q = c THEN pc ELSE reqs[q].pc
      BY <1>3, MoveTypes DEF SecretStages
    <2> QED BY <1>2, <1>3, <2>1
  <1>4. ASSUME UNCHANGED <<plain, leftover>>, NEW r, reqs' = [reqs EXCEPT ![c] = r], reqs[c].pc \notin Encrypting
        PROVE  PlaintextIsBrief'
    <2>1. \A q \in Requesters, f \in Refs : Busy(q, f) => Busy(q, f)' BY <1>4 DEF SecretsTypeOK
    <2> HIDE DEF Busy
    <2> QED BY <1>2, <1>4, <2>1
  <1>5. plain \in [Refs -> SecretFiles] /\ (reqs[c].pc \in Encrypting => reqs[c].ref \in Refs) BY DEF SecretsTypeOK
  <1>6. CASE Asks(c)
    <2>1. UNCHANGED <<plain, leftover>>
      BY <1>6 DEF Asks, create_registry, update_registry, ReadRegistry, registry_q
    <2>2. CASE UNCHANGED reqs BY <1>2, <2>1, <2>2
    <2>3. ASSUME NEW r \in SecretReqs, Enters(c, r) PROVE PlaintextIsBrief'
      BY <1>4, <2>1, <2>3, NoRequestType DEF Enters, Encrypting
    <2> QED BY <1>6, <2>2, <2>3, AsksTypes
  <1>7. CASE encrypt(c)
    <2>1. CASE write_file_mode(c)
      <3>1. CASE /\ RegAt(c, "open") /\ plain' = [plain EXCEPT ![reqs[c].ref] = Torn] /\ Move(c, "write")
                 /\ UNCHANGED leftover
        BY <1>3, <1>5, <3>1 DEF RegAt, Encrypting
      <3>2. CASE /\ RegAt(c, "write") /\ Move(c, "sops") /\ UNCHANGED leftover
                 /\ plain' = [plain EXCEPT ![reqs[c].ref] =
                      Written(@, Content([reg |-> reqs[c].reg, form |-> reqs[c].kind]))]
        BY <1>3, <1>5, <3>2 DEF RegAt, Encrypting
      <3>3. CASE /\ Respond(c) /\ leftover' = leftover \cup {reqs[c].ref} /\ UNCHANGED plain
        BY <1>2, <3>3, RespondTypes
      <3> QED BY <2>1, <3>1, <3>2, <3>3 DEF write_file_mode
    <2>2. CASE Sops(c)
      <3>1. CASE plain[reqs[c].ref].state = "whole"
        <4> DEFINE r == [reqs[c] EXCEPT !.pc = "seal", !.file = plain[reqs[c].ref]]
        <4>1. r.pc = "seal" /\ r.ref = reqs[c].ref BY DEF SecretsTypeOK, SecretReqs
        <4>2. reqs' = [reqs EXCEPT ![c] = r] /\ UNCHANGED <<plain, leftover>> BY <2>2, <3>1 DEF Sops
        <4>3. \A q \in Requesters : reqs'[q] = IF q = c THEN r ELSE reqs[q] BY <4>2 DEF SecretsTypeOK
        <4> HIDE DEF r
        <4>4. \A q \in Requesters, f \in Refs : Busy(q, f) => Busy(q, f)' BY <4>1, <4>3 DEF Encrypting
        <4> HIDE DEF Busy
        <4> QED BY <1>2, <4>2, <4>4
      <3>2. CASE plain[reqs[c].ref].state # "whole"
        <4>1. Move(c, "give up") /\ UNCHANGED <<plain, leftover>> BY <2>2, <3>2 DEF Sops, Move
        <4> QED BY <1>3, <1>5, <2>2, <4>1 DEF Sops, RegAt, Encrypting
      <3> QED BY <3>1, <3>2
    <2>3. CASE SopsFails(c) BY <1>3, <1>5, <2>3 DEF SopsFails, RegAt, Encrypting
    <2>4. CASE Seal(c) BY <1>3, <1>5, <2>4 DEF Seal, RegAt, Encrypting
    <2>5. CASE Unlink(c)
      <3>1. reqs[c].ref \in Refs BY <1>5, <2>5 DEF Unlink, RegAt, Encrypting
      <3>2. plain' = [plain EXCEPT ![reqs[c].ref] = Missing] /\ UNCHANGED leftover BY <2>5 DEF Unlink
      <3>3. \A q \in Requesters : q # c => reqs'[q] = reqs[q]
        BY <2>5 DEF Unlink, Move, Respond, SecretsTypeOK
      <3>4. \A q \in Requesters, f \in Refs : f # reqs[c].ref /\ Busy(q, f) => Busy(q, f)' BY <3>3
      <3> HIDE DEF Busy
      <3> QED BY <1>2, <1>5, <3>1, <3>2, <3>4
    <2> QED BY <1>7, <2>1, <2>2, <2>3, <2>4, <2>5 DEF encrypt
  <1>8. CASE Cut(c)
    <2>1. \A q \in Requesters : q # c => reqs'[q] = reqs[q]
      BY <1>8 DEF Cut, Respond, SecretsTypeOK
    <2>2. UNCHANGED plain /\ leftover \subseteq leftover' /\ (reqs[c].ref # NoRef => reqs[c].ref \in leftover')
      BY <1>8 DEF Cut
    <2>3. \A q \in Requesters, f \in Refs : Busy(q, f) => f \in leftover' \/ Busy(q, f)'
      BY <2>1, <2>2 DEF Refs, NoRef
    <2> HIDE DEF Busy
    <2> QED BY <1>2, <2>2, <2>3
  <1>9. CASE delete(c) \/ Store(c) \/ delete_registry_q(c) \/ decrypt(c) \/ Pulled(c)
    <2>1. UNCHANGED <<plain, leftover>> /\ reqs[c].pc \notin Encrypting
      BY <1>9 DEF delete, Store, delete_registry_q, decrypt, Pulled, RegAt, Encrypting
    <2>2. \E r : reqs' = [reqs EXCEPT ![c] = r]
      BY <1>9, Zenon DEF delete, Store, delete_registry_q, decrypt, Pulled, Respond, Move
    <2> QED BY <1>4, <2>1, <2>2
  <1> QED BY <1>6, <1>7, <1>8, <1>9 DEF Proceeds

(* Plaintext lies on the disk only while some request encrypts it, unless   *)
(* one was cut short or could not write it.                                 *)
THEOREM PlaintextStaysBrief == SecretsSpec => []PlaintextIsBrief
  <1>1. SecretsInit => PlaintextIsBrief BY DEF SecretsInit, PlaintextIsBrief
  <1>2. ASSUME SecretsInv, PlaintextIsBrief, [SecretsNext]_secretVars PROVE PlaintextIsBrief'
    <2>1. CASE UNCHANGED secretVars BY <1>2, <2>1 DEF secretVars, PlaintextIsBrief
    <2>2. ASSUME NEW r \in 1 .. regs, NameRegistry(r) PROVE PlaintextIsBrief'
      BY <1>2, <2>2 DEF NameRegistry, PlaintextIsBrief
    <2>3. ASSUME NEW c \in Requesters, Asks(c) \/ Proceeds(c) PROVE PlaintextIsBrief'
      BY <1>2, <2>3, BriefStep DEF SecretsInv
    <2> QED BY <1>2, <2>1, <2>2, <2>3 DEF SecretsNext, Asks, Proceeds
  <1> QED BY <1>1, <1>2, SecretsInvariant, PTL DEF SecretsSpec

-----------------------------------------------------------------------------
(* The states of a row, and the stages of a verification. *)
Statuses == {"pending", "verified", "failed"}
VerifyStages == {"admit", "resolve", "askHere", "askElsewhere", "matched", "unmatched",
                 "succeed", "fail", "publish"}
Rows == [service : Services, hostname : Names, status : Statuses]
DomainCalls ==
  [pc : {"ready", "unroute"}]
    \cup [pc : {"sync"}, service : Services, missing : SUBSET Names]
    \cup [pc : VerifyStages, id : Nat, hostname : Names]
    \cup [pc : {"delete"}, id : Nat, was : Statuses]

(* Types: a request in a verification carries the id and the name it read. *)
DomainsTypeOK ==
  /\ inserted \in Nat
  /\ rows \in [DOMAIN rows -> Rows] /\ DOMAIN rows \subseteq 1 .. inserted
  /\ calls \in [Callers -> DomainCalls]

(* A verification that found its token did so for the id it carries. *)
ProofInHand ==
  \A c \in Callers : calls[c].pc \in {"matched", "succeed"} => calls[c].id \in proved

(* The inductive invariant. *)
DomainsInv == DomainsTypeOK /\ VerifiedWasProved /\ ProofInHand

(* Every step preserves the types. *)
LEMMA DomainsTypes ==
  ASSUME DomainsTypeOK, [DomainsNext]_domainVars
  PROVE  DomainsTypeOK'
  <1> USE DEF DomainsTypeOK, DomainCalls, Rows, Statuses, VerifyStages
  <1>1. CASE UNCHANGED domainVars BY <1>1 DEF domainVars
  <1>2. ASSUME NEW c \in Callers, NEW svc \in Services, NEW name \in Names,
               create_service_domain(c, svc, name)
        PROVE  DomainsTypeOK'
    BY <1>2 DEF create_service_domain, put_service_domain_q
  <1>3. ASSUME NEW c \in Callers, NEW svc \in Services, NEW names \in SUBSET Names,
               sync_domain_rows(c, svc, names)
        PROVE  DomainsTypeOK'
    BY <1>3 DEF sync_domain_rows
  <1>4. ASSUME NEW c \in Callers, NEW name \in Names, SyncName(c, name)
        PROVE  DomainsTypeOK'
    <2>1. calls[c] \in [pc : {"sync"}, service : Services, missing : SUBSET Names]
      BY <1>4 DEF SyncName
    <2>2. calls' \in [Callers -> DomainCalls] BY <1>4, <2>1 DEF SyncName, Ready
    <2>3. inserted' \in Nat /\ rows' \in [DOMAIN rows' -> Rows] /\ DOMAIN rows' \subseteq 1 .. inserted'
      BY <1>4, <2>1 DEF SyncName, put_service_domain_q
    <2> QED BY <2>2, <2>3
  <1>5. ASSUME NEW c \in Callers, NEW svc \in Services, NEW id \in 1 .. MaxRows,
               ReadForVerify(c, svc, id) \/ ReadForDelete(c, svc, id)
        PROVE  DomainsTypeOK'
    BY <1>5 DEF ReadForVerify, ReadForDelete, get_service_domain_q
  <1>6. ASSUME NEW c \in Callers,
               \/ EnterGuard(c) \/ Resolve(c) \/ Fetch(c) \/ LeaveGuard(c)
               \/ StoreVerified(c) \/ PublishVerified(c) \/ StoreFailed(c) \/ Disconnect(c)
        PROVE  DomainsTypeOK'
    <2>1. calls[c] \in [pc : VerifyStages, id : Nat, hostname : Names]
      BY <1>6 DEF EnterGuard, Resolve, Fetch, LeaveGuard, StoreVerified, PublishVerified,
         StoreFailed, Disconnect
    <2>2. calls' \in [Callers -> DomainCalls]
      BY <1>6, <2>1 DEF EnterGuard, Resolve, Fetch, LeaveGuard, StoreVerified, PublishVerified,
         StoreFailed, Disconnect, Ready
    <2>3. inserted' = inserted /\ rows' \in [DOMAIN rows -> Rows]
      BY <1>6, <2>1 DEF EnterGuard, Resolve, Fetch, LeaveGuard, StoreVerified, PublishVerified,
         StoreFailed, Disconnect, update_service_domain_status_q
    <2> QED BY <2>2, <2>3
  <1>7. ASSUME NEW c \in Callers, delete_service_domain_q(c) \/ Unroute(c)
        PROVE  DomainsTypeOK'
    BY <1>7 DEF delete_service_domain_q, Unroute, Ready
  <1>8. ASSUME NEW name \in Claimable, Repoint(name) PROVE DomainsTypeOK'
    BY <1>8 DEF Repoint
  <1> QED BY <1>1, <1>2, <1>3, <1>4, <1>5, <1>6, <1>7, <1>8 DEF DomainsNext

(* Every step preserves the rest: the status is written to the row with the *)
(* id that was proved, if that row is still there, and a new row is pending *)
(* whatever its name.                                                       *)
LEMMA DomainsProofs ==
  ASSUME DomainsInv, [DomainsNext]_domainVars
  PROVE  VerifiedWasProved' /\ ProofInHand'
  <1> USE DEF DomainsInv, DomainsTypeOK, VerifiedWasProved, ProofInHand
  <1>1. CASE UNCHANGED domainVars BY <1>1 DEF domainVars
  <1>2. ASSUME NEW c \in Callers, NEW svc \in Services, NEW name \in Names,
               create_service_domain(c, svc, name)
        PROVE  VerifiedWasProved' /\ ProofInHand'
    BY <1>2 DEF create_service_domain, put_service_domain_q
  <1>3. ASSUME NEW c \in Callers, NEW svc \in Services, NEW names \in SUBSET Names,
               sync_domain_rows(c, svc, names)
        PROVE  VerifiedWasProved' /\ ProofInHand'
    BY <1>3 DEF sync_domain_rows
  <1>4. ASSUME NEW c \in Callers, NEW name \in Names, SyncName(c, name)
        PROVE  VerifiedWasProved' /\ ProofInHand'
    BY <1>4 DEF SyncName, put_service_domain_q, Ready, DomainCalls, VerifyStages
  <1>5. ASSUME NEW c \in Callers, NEW svc \in Services, NEW id \in 1 .. MaxRows,
               ReadForVerify(c, svc, id) \/ ReadForDelete(c, svc, id)
        PROVE  VerifiedWasProved' /\ ProofInHand'
    BY <1>5 DEF ReadForVerify, ReadForDelete
  <1>6. ASSUME NEW c \in Callers,
               \/ EnterGuard(c) \/ Resolve(c) \/ Fetch(c) \/ LeaveGuard(c)
               \/ StoreVerified(c) \/ PublishVerified(c) \/ StoreFailed(c) \/ Disconnect(c)
        PROVE  VerifiedWasProved' /\ ProofInHand'
    <2>1. calls[c] \in [pc : VerifyStages, id : Nat, hostname : Names]
      BY <1>6 DEF EnterGuard, Resolve, Fetch, LeaveGuard, StoreVerified, PublishVerified,
         StoreFailed, Disconnect, DomainCalls, VerifyStages
    <2>2. ProofInHand'
      BY <1>6, <2>1 DEF EnterGuard, Resolve, Fetch, LeaveGuard, StoreVerified, PublishVerified,
         StoreFailed, Disconnect, Ready, VerifyStages
    <2>3. VerifiedWasProved'
      BY <1>6, <2>1 DEF EnterGuard, Resolve, Fetch, LeaveGuard, StoreVerified, PublishVerified,
         StoreFailed, Disconnect, update_service_domain_status_q, Rows
    <2> QED BY <2>2, <2>3
  <1>7. ASSUME NEW c \in Callers, delete_service_domain_q(c) \/ Unroute(c)
        PROVE  VerifiedWasProved' /\ ProofInHand'
    BY <1>7 DEF delete_service_domain_q, Unroute, Ready
  <1>8. ASSUME NEW name \in Claimable, Repoint(name) PROVE VerifiedWasProved' /\ ProofInHand'
    BY <1>8 DEF Repoint
  <1> QED BY <1>1, <1>2, <1>3, <1>4, <1>5, <1>6, <1>7, <1>8 DEF DomainsNext

(* A verified row carries its own proof or was backfilled, for any number   *)
(* of rows, names, services and overlapping requests.                       *)
THEOREM VerifiedAlwaysProved == DomainsSpec => []VerifiedWasProved
  <1>1. ASSUME DomainsInit PROVE DomainsInv
    <2>1. inserted \in Nat BY <1>1 DEF DomainsInit
    <2>2. /\ rows \in [1 .. inserted -> [service : Services, hostname : Names, status : {"verified"}]]
          /\ backfilled = 1 .. inserted /\ calls = [c \in Callers |-> Ready]
      BY <1>1 DEF DomainsInit
    <2>3. rows \in [DOMAIN rows -> Rows] /\ DOMAIN rows = 1 .. inserted
      BY <2>2 DEF Rows, Statuses
    <2>4. Ready \in DomainCalls /\ Ready.pc = "ready" BY DEF Ready, DomainCalls
    <2>5. calls \in [Callers -> DomainCalls] BY <2>2, <2>4
    <2>6. VerifiedWasProved BY <2>2, <2>3 DEF VerifiedWasProved
    <2>7. ProofInHand BY <2>2, <2>4 DEF ProofInHand
    <2> QED BY <2>1, <2>3, <2>5, <2>6, <2>7 DEF DomainsInv, DomainsTypeOK
  <1>2. DomainsInv /\ [DomainsNext]_domainVars => DomainsInv'
    BY DomainsTypes, DomainsProofs DEF DomainsInv
  <1> QED BY <1>1, <1>2, PTL DEF DomainsSpec, DomainsInv

-----------------------------------------------------------------------------
(* A record of an earlier order is on record as stray; one of the current   *)
(* order may also be among the handles that will be removed.                *)
Accounted(rec) ==
  \/ rec.value \in stray \cup killed
  \/ solve.pc # "idle" /\ rec.value = order /\ rec.name \in handles

(* What makes OnlyStrayRecordsStay inductive: as long as nothing was        *)
(* presented there is nothing to remove.                                    *)
DnsInv ==
  /\ "pc" \in DOMAIN solve
  /\ solve.pc \in {"lookup", "present"} => handles = {}
  /\ \A rec \in txt : Accounted(rec)

(* Every step preserves it: a record appears together with its handle or as *)
(* a stray one, and the cleanup is reached on every way out.                *)
LEMMA DnsStep ==
  ASSUME DnsInv, [DnsNext]_dnsVars
  PROVE  DnsInv'
  <1> USE DEF DnsInv, Accounted, Fail, Return
  <1>1. CASE UNCHANGED dnsVars BY <1>1 DEF dnsVars
  <1>2. CASE BeginOrder BY <1>2 DEF BeginOrder, Idle
  <1>3. CASE resolve_cname
    <2>1. /\ UNCHANGED <<txt, order, handles, stray, killed>> /\ handles = {}
      BY <1>3 DEF resolve_cname
    <2>2. ASSUME NEW aim, FollowCname(aim) PROVE "pc" \in DOMAIN solve'
      <3>1. CASE Fail BY <3>1
      <3>2. CASE solve' = [solve EXCEPT !.pc = "present"] BY <3>2
      <3>3. CASE solve' = [solve EXCEPT !.name = aim, !.visited = @ \cup {aim}, !.hops = @ + 1,
                                        !.asked = 0, !.answered = FALSE]
        BY <3>3
      <3> QED BY <2>2, <3>1, <3>2, <3>3, Zenon DEF FollowCname
    <2>3. ASSUME NEW heard, NextResolver(heard) PROVE "pc" \in DOMAIN solve'
      <3>1. CASE Fail BY <3>1
      <3>2. CASE solve' = [solve EXCEPT !.pc = "present"] BY <3>2
      <3>3. CASE solve' = [solve EXCEPT !.asked = @ + 1, !.answered = heard] BY <3>3
      <3> QED BY <2>3, <3>1, <3>2, <3>3, Zenon DEF NextResolver
    <2>4. "pc" \in DOMAIN solve' BY <1>3, <2>2, <2>3, Zenon DEF resolve_cname
    <2> QED BY <2>1, <2>4
  <1>4. ASSUME NEW zone, create_txt(zone), solve.pc = "present", UNCHANGED <<order, killed>>
        PROVE  DnsInv'
    BY <1>4 DEF create_txt
  <1>5. CASE CloudflarePresent BY <1>4, <1>5 DEF CloudflarePresent
  <1>6. CASE ExecPresent BY <1>4, <1>6 DEF ExecPresent
  <1>7. CASE Propagate BY <1>7 DEF Propagate
  <1>8. CASE AwaitTxt BY <1>8 DEF AwaitTxt
  <1>9. CASE Finalize BY <1>9 DEF Finalize
  <1>10. CASE Cleanup BY <1>10 DEF Cleanup, Idle, solve_dns01
  <1>11. CASE Killed BY <1>11 DEF Killed, Idle
  <1> QED BY <1>1, <1>2, <1>3, <1>5, <1>6, <1>7, <1>8, <1>9, <1>10, <1>11 DEF DnsNext

(* Between orders no challenge record is left behind, except those whose    *)
(* creation was never acknowledged, whose removal failed or whose order was *)
(* cut short: for every alias graph, set of zones, hop limit and number of  *)
(* resolvers, and wherever the daemon ends.                                 *)
THEOREM RecordsAreRemoved == DnsSpec => []OnlyStrayRecordsStay
  <1>1. DnsInit => DnsInv BY DEF DnsInit, DnsInv, Idle
  <1>2. DnsInv /\ [DnsNext]_dnsVars => DnsInv' BY DnsStep
  <1>3. DnsInv => OnlyStrayRecordsStay BY DEF DnsInv, Accounted, OnlyStrayRecordsStay, Idle
  <1> QED BY <1>1, <1>2, <1>3, PTL DEF DnsSpec

-----------------------------------------------------------------------------
(* A set of natural numbers has a least one.                                *)
LEMMA LeastNat ==
  ASSUME NEW S \in SUBSET Nat, S # {}
  PROVE  \E m \in S : \A k \in S : m <= k
  <1> DEFINE R == OpToRel(<, Nat)
  <1>1. IsWellFoundedOn(R, Nat) BY NatLessThanWellFounded
  <1>2. \A x, y \in Nat : x < y => <<x, y>> \in R
    BY DEF OpToRel
  <1> HIDE DEF R
  <1>3. PICK x \in S : \A y \in S : ~(<<y, x>> \in R)
    BY <1>1, WFMin
  <1>4. ASSUME NEW y \in S PROVE x <= y
    <2>1. ~(y < x) BY <1>2, <1>3
    <2> QED BY <2>1
  <1> QED BY <1>4

(* A set of positions that holds all positions before its own is counted by *)
(* its last one.                                                            *)
LEMMA FrontSet ==
  ASSUME NEW n \in Nat, NEW S \in SUBSET (1 .. n),
         \A i \in S : \A j \in 1 .. i : j \in S
  PROVE  S = 1 .. Cardinality(S) /\ Cardinality(S) \in 0 .. n
  <1> DEFINE T == (1 .. n + 1) \ S
  <1>1. T \in SUBSET Nat /\ n + 1 \in T OBVIOUS
  <1>2. PICK m \in T : \A k \in T : m <= k
    <2> HIDE DEF T
    <2> QED BY <1>1, LeastNat
  <1>3. m \in 1 .. n + 1 /\ m \notin S BY <1>2
  <1>4. ASSUME NEW j \in 1 .. m - 1 PROVE j \in S
    <2>1. j \in 1 .. n + 1 /\ ~(m <= j) BY <1>3
    <2>2. j \notin T BY <1>2, <2>1
    <2> QED BY <2>1, <2>2
  <1>5. ASSUME NEW i \in S PROVE i \in 1 .. m - 1
    <2>1. i \in 1 .. n OBVIOUS
    <2>2. m <= i => m \in 1 .. i BY <2>1, <1>3
    <2>3. ~(m <= i) BY <2>2, <1>3
    <2> QED BY <2>1, <2>3, <1>3
  <1>6. S = 1 .. m - 1 BY <1>4, <1>5
  <1>7. Cardinality(1 .. m - 1) = m - 1
    BY <1>3, FS_Interval
  <1> QED BY <1>3, <1>6, <1>7

-----------------------------------------------------------------------------
(* Times in the order of the clock, none of them to come. *)
Ordered(t) ==
  /\ t \in Seq(Nat)
  /\ \A i, j \in 1 .. Len(t) : i <= j => t[i] <= t[j]
  /\ \A i \in 1 .. Len(t) : t[i] <= clock

Bucket(ip) == IF ip \in DOMAIN buckets THEN buckets[ip] ELSE <<>>

(* b is what a bucket still holds of the attempts h that were let through:  *)
(* the latest, and all of them but for those that are out of the window.    *)
Remembers(b, h) ==
  /\ Len(b) <= Len(h) /\ Len(b) <= MaxAttempts
  /\ \A i \in 1 .. Len(b) : b[i] = h[Len(h) - Len(b) + i]
  /\ \A i \in 1 .. Len(h) - Len(b) : clock - h[i] >= Window

Tracked(b, h) ==
  /\ Ordered(b) /\ Ordered(h) /\ Remembers(b, h)
  /\ Len(h) <= MaxAttempts + 1
  /\ Len(h) > MaxAttempts => h[Len(h)] - h[1] >= Window

(* The inductive invariant of the limiter. *)
LimitInv ==
  /\ clock \in Nat /\ DOMAIN buckets \subseteq Ips /\ DOMAIN admitted = Ips
  /\ admitted = [ip \in Ips |-> admitted[ip]]
  /\ \A ip \in Ips : Tracked(Bucket(ip), admitted[ip])

(* What retain leaves is the end of a bucket, behind what has expired. *)
LEMMA LiveIsTheEnd ==
  ASSUME clock \in Nat, NEW t, Ordered(t)
  PROVE  \E n \in 0 .. Len(t) :
           /\ Live(t) \in Seq(Nat) /\ Len(Live(t)) = Len(t) - n
           /\ \A i \in 1 .. Len(t) - n : Live(t)[i] = t[n + i]
           /\ \A i \in 1 .. n : clock - t[i] >= Window
  <1> DEFINE E == Expired(t)
             n == Cardinality(E)
  <1>1. t \in Seq(Nat) /\ Len(t) \in Nat /\ DOMAIN t = 1 .. Len(t)
        /\ \A i \in 1 .. Len(t) : t[i] \in Nat
    BY DEF Ordered
  <1>2. E \in SUBSET (1 .. Len(t)) BY <1>1 DEF Expired
  <1>3. ASSUME NEW i \in E, NEW j \in 1 .. i PROVE j \in E
    <2>1. i \in 1 .. Len(t) /\ j \in 1 .. Len(t) /\ j <= i BY <1>1, <1>2
    <2>2. t[j] <= t[i] BY <2>1 DEF Ordered
    <2>3. clock - t[i] >= Window BY DEF Expired
    <2> QED BY <1>1, <2>1, <2>2, <2>3, LimitAssumption DEF Expired
  <1>4. E = 1 .. n /\ n \in 0 .. Len(t)
    <2> HIDE DEF E
    <2> QED BY <1>1, <1>2, <1>3, FrontSet
  <1>5. Live(t) = SubSeq(t, n + 1, Len(t)) BY DEF Live
  <1>6. \A i \in 1 .. n : clock - t[i] >= Window BY <1>4 DEF Expired
  <1> HIDE DEF n
  <1>7. /\ Live(t) \in Seq(Nat) /\ Len(Live(t)) = Len(t) - n
        /\ \A i \in 1 .. Len(t) - n : Live(t)[i] = t[n + i]
    <2>1. n \in Nat /\ n <= Len(t) /\ \A i \in n + 1 .. Len(t) : t[i] \in Nat BY <1>1, <1>4
    <2>2. /\ SubSeq(t, n + 1, Len(t)) \in Seq(Nat)
          /\ Len(SubSeq(t, n + 1, Len(t))) = IF n + 1 <= Len(t) THEN Len(t) - (n + 1) + 1 ELSE 0
          /\ \A i \in 1 .. Len(t) - (n + 1) + 1 : SubSeq(t, n + 1, Len(t))[i] = t[(n + 1) + i - 1]
      BY <1>1, <2>1, SubSeqProperties
    <2>3. \A i \in 1 .. Len(t) - n : i \in 1 .. Len(t) - (n + 1) + 1 /\ (n + 1) + i - 1 = n + i
      BY <1>1, <2>1
    <2>4. Len(Live(t)) = Len(t) - n
      <3> DEFINE lt == Len(t)
                 ls == Len(SubSeq(t, n + 1, Len(t)))
      <3>1. ls = IF n + 1 <= lt THEN lt - (n + 1) + 1 ELSE 0 BY <2>2
      <3>2. n \in Nat /\ lt \in Nat /\ n <= lt BY <1>1, <2>1
      <3> HIDE DEF lt, ls
      <3>3. ls = lt - n BY <3>1, <3>2
      <3> QED BY <3>3, <1>5 DEF lt, ls
    <2>5. ASSUME NEW i \in 1 .. Len(t) - n PROVE Live(t)[i] = t[n + i]
      <3> DEFINE s == SubSeq(t, n + 1, Len(t))
      <3>1. s[i] = t[(n + 1) + i - 1] BY <2>2, <2>3
      <3>2. (n + 1) + i - 1 = n + i BY <2>3
      <3> HIDE DEF s
      <3>3. s[i] = t[n + i] BY <3>1, <3>2
      <3> QED BY <3>3, <1>5 DEF s
    <2> QED BY <1>5, <2>2, <2>4, <2>5
  <1> QED BY <1>4, <1>6, <1>7

(* Retaining by age forgets only what is out of the window. *)
LEMMA TrackedLive ==
  ASSUME LimitInv, NEW b, NEW h, Tracked(b, h)
  PROVE  Tracked(Live(b), h) /\ (Live(b) = <<>> => Tracked(<<>>, h))
  <1>1. /\ b \in Seq(Nat) /\ h \in Seq(Nat) /\ clock \in Nat /\ Len(b) \in Nat /\ Len(h) \in Nat
        /\ Ordered(b) /\ Ordered(h) /\ Len(b) <= Len(h)
    BY DEF Tracked, Ordered, LimitInv, Remembers
  <1>2. PICK n \in 0 .. Len(b) :
           /\ Live(b) \in Seq(Nat) /\ Len(Live(b)) = Len(b) - n
           /\ \A i \in 1 .. Len(b) - n : Live(b)[i] = b[n + i]
           /\ \A i \in 1 .. n : clock - b[i] >= Window
    BY <1>1, LiveIsTheEnd
  <1> DEFINE l == Live(b)
             ll == Len(l)
             lb == Len(b)
             lh == Len(h)
  <1>0. /\ l \in Seq(Nat) /\ ll \in Nat /\ lb \in Nat /\ lh \in Nat /\ n \in Nat
        /\ ll = lb - n /\ n <= lb /\ lb <= lh
        /\ \A i \in 1 .. ll : l[i] = b[n + i] /\ n + i \in 1 .. lb
        /\ \A i \in 1 .. lb : b[i] = h[lh - lb + i]
        /\ \A i \in 1 .. lh - lb : clock - h[i] >= Window
    BY <1>1, <1>2 DEF Tracked, Remembers
  <1> HIDE DEF l, ll, lb, lh
  <1>3. Ordered(l)
    <2>0. /\ \A i, j \in 1 .. lb : i <= j => b[i] <= b[j]
          /\ \A i \in 1 .. lb : b[i] <= clock
      BY <1>1 DEF Ordered, lb
    <2>1. ASSUME NEW i \in 1 .. ll, NEW j \in 1 .. ll, i <= j PROVE l[i] <= l[j]
      <3>1. n + i <= n + j BY <1>0, <2>1
      <3> QED BY <1>0, <2>0, <3>1
    <2>2. \A i \in 1 .. ll : l[i] <= clock BY <1>0, <2>0
    <2> QED BY <1>0, <2>1, <2>2 DEF Ordered, ll
  <1>4. ASSUME NEW i \in 1 .. lh - ll PROVE clock - h[i] >= Window
    <2>1. CASE i <= lh - lb BY <2>1, <1>0
    <2>2. CASE i > lh - lb
      <3> DEFINE j == i - (lh - lb)
      <3>1. j \in 1 .. n /\ j \in 1 .. lb /\ i = lh - lb + j BY <2>2, <1>0
      <3>2. b[j] = h[i] BY <3>1, <1>0
      <3> QED BY <3>1, <3>2, <1>2
    <2> QED BY <2>1, <2>2, <1>0
  <1>5. ASSUME NEW i \in 1 .. ll PROVE l[i] = h[lh - ll + i]
    <2>1. l[i] = b[n + i] /\ b[n + i] = h[lh - lb + (n + i)] BY <1>0
    <2>2. lh - lb + (n + i) = lh - ll + i BY <1>0
    <2> QED BY <2>1, <2>2
  <1>6. ll <= lh /\ ll <= MaxAttempts
    BY <1>0, LimitAssumption DEF Tracked, Remembers, lb
  <1>7. Tracked(l, h)
    BY <1>1, <1>3, <1>4, <1>5, <1>6 DEF Tracked, Remembers, ll, lh
  <1> QED BY <1>7 DEF l

(* An attempt that is let through. *)
LEMMA TrackedAppend ==
  ASSUME LimitInv, NEW b, NEW h, Tracked(b, h), Len(b) < MaxAttempts
  PROVE  Tracked(Append(b, clock), Latest(Append(h, clock)))
  <1>1. /\ b \in Seq(Nat) /\ h \in Seq(Nat) /\ clock \in Nat /\ Len(b) \in Nat /\ Len(h) \in Nat
        /\ Ordered(b) /\ Ordered(h) /\ Len(b) <= Len(h) /\ Len(h) <= MaxAttempts + 1
    BY DEF Tracked, Ordered, LimitInv, Remembers
  <1> DEFINE c == Append(b, clock)
             g == Append(h, clock)
             l == Latest(g)
             k == Len(g) - Len(l)
  <1>2. /\ c \in Seq(Nat) /\ Len(c) = Len(b) + 1 /\ c[Len(b) + 1] = clock
        /\ \A i \in 1 .. Len(b) : c[i] = b[i]
        /\ g \in Seq(Nat) /\ Len(g) = Len(h) + 1 /\ g[Len(h) + 1] = clock
        /\ \A i \in 1 .. Len(h) : g[i] = h[i]
    BY <1>1
  <1>3. Ordered(c) /\ Ordered(g) BY <1>1, <1>2 DEF Ordered
  <1> HIDE DEF c, g
  <1>4. /\ l \in Seq(Nat) /\ k \in {0, 1} /\ Len(l) = Len(g) - k /\ Len(l) <= MaxAttempts + 1
        /\ \A i \in 1 .. Len(l) : l[i] = g[k + i]
        /\ k = 1 => Len(h) = MaxAttempts + 1
    <2>1. CASE Len(g) > MaxAttempts + 1
      <3>0. Len(g) \in Nat /\ Len(g) = MaxAttempts + 2 /\ Len(h) = MaxAttempts + 1
        <4> DEFINE lg == Len(g)
                   lh == Len(h)
        <4>1. lg = lh + 1 /\ lg > MaxAttempts + 1 BY <2>1, <1>2
        <4>2. lh \in Nat /\ lh <= MaxAttempts + 1 BY <1>1
        <4> HIDE DEF lg, lh
        <4>3. lg \in Nat /\ lg = MaxAttempts + 2 /\ lh = MaxAttempts + 1 BY <4>1, <4>2, LimitAssumption
        <4> QED BY <4>3 DEF lg, lh
      <3>1. Len(g) \in Nat /\ Len(g) = MaxAttempts + 2 /\ \A i \in 2 .. Len(g) : g[i] \in Nat
        BY <3>0, <1>2
      <3>2. /\ SubSeq(g, 2, Len(g)) \in Seq(Nat)
            /\ Len(SubSeq(g, 2, Len(g))) = IF 2 <= Len(g) THEN Len(g) - 2 + 1 ELSE 0
            /\ \A i \in 1 .. Len(g) - 2 + 1 : SubSeq(g, 2, Len(g))[i] = g[2 + i - 1]
        BY <3>1, SubSeqProperties
      <3>3. l = SubSeq(g, 2, Len(g)) BY <2>1 DEF Latest
      <3>4. l \in Seq(Nat) /\ Len(l) = Len(g) - 1 BY <3>1, <3>2, <3>3, LimitAssumption
      <3>5. ASSUME NEW i \in 1 .. Len(l) PROVE l[i] = g[1 + i]
        <4>1. i \in 1 .. Len(g) - 2 + 1 /\ 2 + i - 1 = 1 + i BY <3>1, <3>4
        <4> QED BY <4>1, <3>2, <3>3
      <3>6. k = 1 BY <3>1, <3>4
      <3> QED BY <3>0, <3>1, <3>4, <3>5, <3>6, LimitAssumption
    <2>2. CASE ~(Len(g) > MaxAttempts + 1)
      <3>1. l = g /\ k = 0 BY <2>2, <1>1, <1>2 DEF Latest
      <3> QED BY <3>1, <2>2, <1>1, <1>2, LimitAssumption
    <2> QED BY <2>1, <2>2
  <1> HIDE DEF l, k
  <1> DEFINE lb == Len(b)
             lh == Len(h)
             lc == Len(c)
             ll == Len(l)
  <1>5. /\ lb \in Nat /\ lh \in Nat /\ lc \in Nat /\ ll \in Nat /\ k \in Nat
        /\ lc = lb + 1 /\ ll = lh + 1 - k /\ lb <= lh /\ k <= 1 /\ lb < MaxAttempts
        /\ lc <= ll /\ lc <= MaxAttempts
        /\ \A i \in 1 .. ll : l[i] = g[k + i] /\ k + i \in 1 .. lh + 1
        /\ \A i \in 1 .. lb : c[i] = b[i] /\ b[i] = h[lh - lb + i]
        /\ \A i \in 1 .. lh : g[i] = h[i]
        /\ \A i \in 1 .. lh - lb : clock - h[i] >= Window
        /\ c[lb + 1] = clock /\ g[lh + 1] = clock
    <2>1. \A i \in 1 .. Len(b) : b[i] = h[Len(h) - Len(b) + i] BY DEF Tracked, Remembers
    <2>2. \A i \in 1 .. Len(h) - Len(b) : clock - h[i] >= Window BY DEF Tracked, Remembers
    <2>3. lb \in Nat /\ lh \in Nat /\ k \in Nat /\ k <= 1 /\ lb <= lh BY <1>1, <1>4
    <2>4. lc = lb + 1 /\ ll = lh + 1 - k BY <1>1, <1>2, <1>4
    <2>5. k = 1 => lh = MaxAttempts + 1 BY <1>4
    <2>6. lb < MaxAttempts OBVIOUS
    <2>7. \A i \in 1 .. ll : l[i] = g[k + i] BY <1>4
    <2>8. c[lb + 1] = clock /\ g[lh + 1] = clock BY <1>2
    <2>9. /\ \A i \in 1 .. lb : c[i] = b[i] /\ b[i] = h[lh - lb + i]
          /\ \A i \in 1 .. lh : g[i] = h[i]
      BY <2>1, <1>2
    <2>10. \A i \in 1 .. lh - lb : clock - h[i] >= Window BY <2>2
    <2> HIDE DEF lb, lh, lc, ll
    <2>11. lc \in Nat /\ ll \in Nat /\ lc <= ll /\ lc <= MaxAttempts
      BY <2>3, <2>4, <2>5, <2>6, LimitAssumption
    <2>12. \A i \in 1 .. ll : k + i \in 1 .. lh + 1 BY <2>3, <2>4
    <2> QED BY <2>3, <2>4, <2>6, <2>7, <2>8, <2>9, <2>10, <2>11, <2>12
  <1> HIDE DEF lb, lh, lc, ll
  <1>6. Ordered(l)
    <2>1. \A i, j \in 1 .. lh + 1 : i <= j => g[i] <= g[j] BY <1>2, <1>3 DEF Ordered, lh
    <2>2. \A i \in 1 .. lh + 1 : g[i] <= clock BY <1>2, <1>3 DEF Ordered, lh
    <2>3. \A i, j \in 1 .. ll : i <= j => l[i] <= l[j] BY <1>5, <2>1
    <2> QED BY <1>4, <1>5, <2>2, <2>3 DEF Ordered, ll
  <1>8. ASSUME NEW i \in 1 .. lc PROVE c[i] = l[ll - lc + i]
    <2>1. ll - lc + i \in 1 .. ll /\ k + (ll - lc + i) = lh - lb + i BY <1>5
    <2>2. l[ll - lc + i] = g[lh - lb + i] BY <2>1, <1>5
    <2>4. CASE i <= lb
      <3>1. i \in 1 .. lb /\ lh - lb + i \in 1 .. lh BY <2>4, <1>5
      <3> QED BY <3>1, <2>2, <1>5
    <2>5. CASE i = lb + 1
      <3>1. lh - lb + i = lh + 1 BY <2>5, <1>5
      <3> QED BY <3>1, <2>2, <2>5, <1>5
    <2> QED BY <2>4, <2>5, <1>5
  <1>9. ASSUME NEW i \in 1 .. ll - lc PROVE clock - l[i] >= Window
    <2>1. k + i \in 1 .. lh - lb /\ i \in 1 .. ll /\ k + i \in 1 .. lh BY <1>5
    <2>2. l[i] = h[k + i] BY <2>1, <1>5
    <2> QED BY <2>1, <2>2, <1>5
  <1>10. ll > MaxAttempts => l[ll] - l[1] >= Window
    <2> HAVE ll > MaxAttempts
    <2>1. 1 \in 1 .. ll - lc /\ ll \in 1 .. ll /\ k + ll = lh + 1 BY <1>5, LimitAssumption
    <2>2. clock - l[1] >= Window BY <2>1, <1>9
    <2>3. l[ll] = g[lh + 1] BY <2>1, <1>5
    <2> QED BY <2>2, <2>3, <1>5
  <1>11. Tracked(c, l)
    BY <1>3, <1>4, <1>5, <1>6, <1>8, <1>9, <1>10 DEF Tracked, Remembers, lc, ll
  <1> QED BY <1>11 DEF c, l, g

(* An attempt is counted under the address of the client that made it,      *)
(* whatever header it sent.                                                 *)
LEMMA CountedUnderIp ==
  ASSUME NEW ip \in Ips, NEW claimed, NEW via \in BOOLEAN
  PROVE  extract_client_ip(via, ip, IF via THEN upstream_request_filter(ip, claimed) ELSE claimed) = ip
  BY LimitAssumption DEF extract_client_ip, upstream_request_filter, insert_header

LEMMA AttemptTracked ==
  ASSUME LimitInv, NEW ip \in Ips, NEW claimed, NEW via \in BOOLEAN, Attempt(ip, claimed, via)
  PROVE  LimitInv'
  <1> DEFINE r == bucket_check(ip)
             due == ops + 1 >= SweepInterval
             kept == IF due THEN retain_live(buckets) ELSE DOMAIN buckets
             old == IF ip \in kept THEN Live(buckets[ip]) ELSE <<>>
             ok == Len(old) < MaxAttempts
  <1>1. /\ buckets' = r.buckets /\ clock' = clock
        /\ admitted' = IF r.ok THEN [admitted EXCEPT ![ip] = Latest(Append(@, clock))] ELSE admitted
    BY CountedUnderIp DEF Attempt
  <1>2. /\ r.ok = ok
        /\ r.buckets = [k \in kept \cup {ip} |->
             IF k # ip THEN buckets[k] ELSE IF ok THEN Append(old, clock) ELSE old]
    BY DEF bucket_check
  <1>3. /\ clock \in Nat /\ kept \subseteq DOMAIN buckets /\ DOMAIN buckets \subseteq Ips
        /\ admitted = [k \in Ips |-> admitted[k]]
    BY DEF LimitInv, retain_live
  <1>4. \A k \in Ips : Tracked(Bucket(k), admitted[k]) BY DEF LimitInv
  <1>5. ASSUME NEW k \in Ips, k \notin kept PROVE Tracked(<<>>, admitted[k])
    <2>1. CASE k \in DOMAIN buckets
      <3>1. Live(buckets[k]) = <<>> /\ Bucket(k) = buckets[k]
        BY <1>5, <2>1 DEF retain_live, Bucket
      <3> QED BY <3>1, <1>4, TrackedLive
    <2>2. CASE k \notin DOMAIN buckets BY <2>2, <1>4 DEF Bucket
    <2> QED BY <2>1, <2>2
  <1>6. Tracked(old, admitted[ip])
    <2>1. CASE ip \in kept
      <3>1. Bucket(ip) = buckets[ip] BY <2>1, <1>3 DEF Bucket
      <3> QED BY <3>1, <2>1, <1>4, TrackedLive
    <2>2. CASE ip \notin kept BY <2>2, <1>5
    <2> QED BY <2>1, <2>2
  <1> HIDE DEF kept, old, r, ok
  <1>7. DOMAIN buckets' = kept \cup {ip} BY <1>1, <1>2
  <1>8. ASSUME NEW k \in Ips PROVE Tracked(Bucket(k)', admitted'[k])
    <2>1. CASE k = ip
      <3>1. Bucket(k)' = IF ok THEN Append(old, clock) ELSE old BY <2>1, <1>1, <1>2, <1>7 DEF Bucket
      <3>2. CASE ok
        <4>1. admitted'[k] = Latest(Append(admitted[ip], clock)) BY <3>2, <2>1, <1>1, <1>2, <1>3
        <4> QED BY <3>1, <3>2, <4>1, <1>6, TrackedAppend DEF ok
      <3>3. CASE ~ok BY <3>1, <3>3, <2>1, <1>1, <1>2, <1>6
      <3> QED BY <3>2, <3>3
    <2>2. CASE k # ip
      <3>1. admitted'[k] = admitted[k] BY <2>2, <1>1, <1>3
      <3>2. CASE k \in kept
        <4>1. Bucket(k)' = buckets[k] /\ Bucket(k) = buckets[k]
          BY <2>2, <3>2, <1>1, <1>2, <1>3, <1>7 DEF Bucket
        <4> QED BY <3>1, <4>1, <1>4
      <3>3. CASE k \notin kept
        <4>1. Bucket(k)' = <<>> BY <2>2, <3>3, <1>7 DEF Bucket
        <4> QED BY <3>1, <3>3, <4>1, <1>5
      <3> QED BY <3>2, <3>3
    <2> QED BY <2>1, <2>2
  <1>9. \A k \in Ips : Tracked(Bucket(k), admitted[k])'
    BY <1>1, <1>8 DEF Tracked, Ordered, Remembers
  <1>10. DOMAIN admitted' = Ips /\ admitted' = [k \in Ips |-> admitted'[k]] BY <1>1, <1>3
  <1> QED BY <1>1, <1>3, <1>7, <1>9, <1>10 DEF LimitInv

(* No client gets more than MaxAttempts requests through in any window, for *)
(* any addresses, limits and headers.                                       *)
THEOREM WindowAlwaysRespected == LimitSpec => []WindowRespected
  <1>1. LimitInit => LimitInv
    BY LimitAssumption DEF LimitInit, LimitInv, Tracked, Ordered, Remembers, Bucket
  <1>2. LimitInv /\ [LimitNext]_limitVars => LimitInv'
    <2> SUFFICES ASSUME LimitInv, [LimitNext]_limitVars PROVE LimitInv' OBVIOUS
    <2>1. CASE UNCHANGED limitVars
      BY <2>1 DEF limitVars, LimitInv, Tracked, Ordered, Remembers, Bucket
    <2>2. CASE Elapse
      <3>1. clock \in Nat /\ clock' = clock + 1 /\ UNCHANGED <<buckets, admitted>>
        BY <2>2 DEF Elapse, LimitInv
      <3>2. ASSUME NEW k \in Ips PROVE Tracked(Bucket(k), admitted[k])'
        <4>1. Tracked(Bucket(k), admitted[k]) BY DEF LimitInv
        <4>2. Bucket(k)' = Bucket(k) /\ admitted'[k] = admitted[k] BY <3>1 DEF Bucket
        <4> DEFINE b == Bucket(k)
                   h == admitted[k]
        <4>3. b' = b /\ h' = h BY <4>2
        <4> HIDE DEF b, h
        <4>4. Tracked(b, h) BY <4>1 DEF b, h
        <4>5. b \in Seq(Nat) /\ h \in Seq(Nat) /\ clock \in Nat BY <4>4 DEF Tracked, Ordered, LimitInv
        <4>6. \A i \in 1 .. Len(h) - Len(b) : clock + 1 - h[i] >= Window
          BY <4>4, <4>5, LimitAssumption DEF Tracked, Remembers
        <4>7. Ordered(b)' /\ Ordered(h)' BY <3>1, <4>3, <4>4, <4>5 DEF Ordered, Tracked
        <4>10. /\ Len(b) <= Len(h) /\ Len(b) <= MaxAttempts
               /\ \A i \in 1 .. Len(b) : b[i] = h[Len(h) - Len(b) + i]
          BY <4>4 DEF Tracked, Remembers
        <4>11. \A i \in 1 .. Len(h)' - Len(b)' : clock' - h'[i] >= Window 
          <5>1. Len(h)' = Len(h) /\ Len(b)' = Len(b) BY <4>3
          <5>2. clock' = clock + 1 BY <3>1
          <5>3. \A i \in 1 .. Len(h) - Len(b) : clock' - h'[i] >= Window
            <6> SUFFICES ASSUME NEW i \in 1 .. Len(h) - Len(b) PROVE clock' - h'[i] >= Window OBVIOUS
            <6>1. i \in 1 .. Len(h) BY <4>5, <4>10
            <6>2. h[i] \in Nat /\ h'[i] = h[i] BY <6>1, <4>3, <4>5
            <6>3. clock + 1 - h[i] >= Window BY <4>6
            <6> QED BY <6>2, <6>3, <5>2, <4>5
          <5> QED BY <5>1, <5>3
        <4>12. \A i \in 1 .. Len(b)' : b'[i] = h'[Len(h)' - Len(b)' + i] BY <4>3, <4>10
        <4>8. Remembers(b, h)' BY <4>3, <4>10, <4>11, <4>12 DEF Remembers
        <4>9. Tracked(b, h)' BY <4>3, <4>4, <4>7, <4>8 DEF Tracked
        <4> QED BY <4>9 DEF b, h
      <3> QED BY <3>1, <3>2 DEF LimitInv
    <2>3. ASSUME NEW ip \in Ips, NEW claimed \in Ips \cup {NoHeader}, NEW via \in BOOLEAN,
                 Attempt(ip, claimed, via)
          PROVE  LimitInv'
      BY <2>3, AttemptTracked
    <2> QED BY <2>1, <2>2, <2>3 DEF LimitNext
  <1>3. LimitInv => WindowRespected BY DEF LimitInv, Tracked, WindowRespected
  <1> QED BY <1>1, <1>2, <1>3, PTL DEF LimitSpec

=============================================================================
