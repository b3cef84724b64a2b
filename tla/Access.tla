------------------------------ MODULE Access -------------------------------
(***************************************************************************)
(* Who is let in: users, sessions and API tokens (src/api/auth.rs,         *)
(* bootstrap.rs, users.rs, tokens.rs, src/auth, src/repo/sqlite/users.rs,  *)
(* tokens.rs) and the login of the command line (src/cli/client/auth.rs).  *)
(* The store has one connection behind a lock: every call of it is a step, *)
(* and a request is several calls.  The principal of a request is resolved *)
(* once, before its handler, and may be out of date when the handler acts. *)
(***************************************************************************)
EXTENDS Naturals, FiniteSets

CONSTANTS
  Users,       \* user ids; an id is never given twice
  Sessions,    \* session tokens, random and never given twice
  Tokens,      \* API tokens
  Clients,     \* requests under way at once
  Sliding,     \* life of a session without use (24 hours)
  Absolute,    \* life of a session (7 days)
  MaxTime,     \* bound: the clock
  Nobody

ASSUME AccessAssumption ==
  /\ Sliding \in Nat /\ Absolute \in Nat /\ MaxTime \in Nat
  /\ Nobody \notin Users /\ "admin" \notin Sessions \cup Tokens

VARIABLES
  users,       \* the rows of users
  supers,      \* those of them that are super admins
  gone,        \* users that were deleted
  initialized, \* the setting admin_initialized
  boots,       \* accounts that the bootstrap has made
  session,     \* session[s]: its row, or Nobody
  token,       \* token[k]: the user of its row, or Nobody
  minted,      \* session and API tokens handed out
  used,        \* used[s]: when s last let a request in or was renewed
  now,
  req          \* req[c]: the request of client c

accounts == <<users, supers, gone, initialized, boots>>
accessTables == <<accounts, session, token>>
accessVars == <<accessTables, minted, used, now, req>>

NoReq == [at |-> "idle", cred |-> "none", row |-> Nobody, user |-> Nobody, super |-> FALSE,
          barred |-> {}, dead |-> {}]

(* A new daemon, or one that runs since before sessions had a birth date    *)
(* and holds such a session of a super admin.                               *)
AccessInit ==
  /\ \E old \in SUBSET Sessions, u \in Users :
       /\ Cardinality(old) <= 1
       /\ users = (IF old = {} THEN {} ELSE {u}) /\ supers = users /\ initialized = (old # {})
       /\ session = [s \in Sessions |->
                       IF s \in old THEN [user |-> u, expires |-> Sliding, created |-> Nobody] ELSE Nobody]
       /\ minted = old
  /\ gone = {} /\ boots = 0 /\ token = [k \in Tokens |-> Nobody]
  /\ used = [s \in Sessions |-> 0] /\ now = 0 /\ req = [c \in Clients |-> NoReq]

ReqAt(c, where) == req[c].at = where
Done(c) == req' = [req EXCEPT ![c] = NoReq]
Then(c, where) == req' = [req EXCEPT ![c].at = where]
Acts(c) == req[c].at = "act"

(* A session that was taken away, or that has not been used for too long,   *)
(* or that is too old.                                                      *)
Ended(s) ==
  /\ s \in minted
  /\ \/ session[s] = Nobody
     \/ now > used[s] + Sliding /\ ~\E c \in Clients : req[c].at = "touch" /\ req[c].cred = s
     \/ session[s] # Nobody /\ session[s].created # Nobody /\ now > session[s].created + Absolute

(* A request comes with the administrator's token or one that was handed    *)
(* out; what it asks for matters once its handler runs.                     *)
Begin(c, cred) ==
  /\ ReqAt(c, "idle") /\ cred \in minted \cup {"admin"}
  /\ req' = [req EXCEPT ![c] = [NoReq EXCEPT !.at = "resolve", !.cred = cred, !.barred = gone,
                                             !.dead = {s \in Sessions : Ended(s)}]]
  /\ UNCHANGED <<accessTables, minted, used, now>>

-----------------------------------------------------------------------------
(* The middleware *)

(* The first look at the table; the administrator's token needs none, and a *)
(* string that is no session is looked for among the API tokens.            *)
resolve_auth(c) ==
  /\ ReqAt(c, "resolve")
  /\ LET cred == req[c].cred IN
     IF cred = "admin"
     THEN req' = [req EXCEPT ![c].at = "touch", ![c].super = TRUE]
     ELSE IF cred \in Sessions
     THEN IF session[cred] = Nobody THEN Done(c)
          ELSE req' = [req EXCEPT ![c].at = "session", ![c].row = session[cred]]
     ELSE IF token[cred] = Nobody THEN Done(c)
          ELSE req' = [req EXCEPT ![c].at = "token", ![c].row = [user |-> token[cred]]]
  /\ UNCHANGED <<accessTables, minted, used, now>>

get_user_q(u) == IF u \in users THEN u ELSE Nobody

Principal(c, u) ==
  req' = [req EXCEPT ![c] = IF u = Nobody THEN NoReq
                            ELSE [@ EXCEPT !.at = "touch", !.user = u, !.super = (u \in supers)]]

(* The second look.  The row may have been renewed or removed since the     *)
(* first; what has expired is removed.                                      *)
Lapsed(row) ==
  \/ now > row.expires
  \/ row.created # Nobody /\ now > row.created + Absolute

(* Slip: the user is taken from the session's row. *)
user_for_session_q_Unjoined(c) ==
  /\ ReqAt(c, "session")
  /\ LET s == req[c].cred row == req[c].row IN
     IF Lapsed(row)
     THEN session' = [session EXCEPT ![s] = Nobody] /\ Done(c) /\ UNCHANGED used
     ELSE /\ Principal(c, row.user) /\ used' = [used EXCEPT ![s] = now] /\ UNCHANGED session
  /\ UNCHANGED <<accounts, token, minted, now>>

user_for_session_q(c) ==
  /\ ReqAt(c, "session")
  /\ LET s == req[c].cred row == req[c].row IN
     IF Lapsed(row)
     THEN session' = [session EXCEPT ![s] = Nobody] /\ Done(c) /\ UNCHANGED used
     ELSE /\ Principal(c, get_user_q(row.user))
          /\ used' = [used EXCEPT ![s] = IF row.user \in users THEN now ELSE @]
          /\ UNCHANGED session
  /\ UNCHANGED <<accounts, token, minted, now>>

user_for_api_token_q(c) ==
  /\ ReqAt(c, "token")
  /\ Principal(c, get_user_q(req[c].row.user))
  /\ UNCHANGED <<accessTables, minted, used, now>>

MinOf(a, b) == IF a <= b THEN a ELSE b
Renewed(row) ==
  [row EXCEPT !.expires = IF row.created = Nobody THEN now + Sliding
                          ELSE MinOf(now + Sliding, row.created + Absolute)]

(* An update: a session that is gone stays gone. *)
touch_session_q(s, row) ==
  session' = IF session[s] = Nobody THEN session ELSE [session EXCEPT ![s] = Renewed(session[s])]

require_auth(c) ==
  /\ ReqAt(c, "touch")
  /\ req' = [req EXCEPT ![c].at = "act", ![c].row = Nobody]
  /\ IF req[c].cred \in Sessions
     THEN touch_session_q(req[c].cred, req[c].row) /\ used' = [used EXCEPT ![req[c].cred] = now]
     ELSE UNCHANGED <<session, used>>
  /\ UNCHANGED <<accounts, token, minted, now>>

-----------------------------------------------------------------------------
(* Sessions and tokens *)
verify_login_q(c, u) ==
  /\ ReqAt(c, "idle") /\ u \in users
  /\ req' = [req EXCEPT ![c] = [NoReq EXCEPT !.at = "mint", !.user = u]]
  /\ UNCHANGED <<accessTables, minted, used, now>>

create_session_q(c, s) ==
  /\ ReqAt(c, "mint") /\ s \notin minted
  /\ session' = [session EXCEPT ![s] = [user |-> req[c].user, expires |-> now + Sliding, created |-> now]]
  /\ minted' = minted \cup {s} /\ used' = [used EXCEPT ![s] = now]
  /\ Done(c)
  /\ UNCHANGED <<accounts, token, now>>

(* The password is checked in one call of the store and the session stored  *)
(* in the next.                                                             *)
login_handler(c) ==
  (\E u \in Users : verify_login_q(c, u)) \/ (\E s \in Sessions : create_session_q(c, s))

create_api_token_q(c, k) ==
  /\ Acts(c) /\ req[c].user # Nobody /\ k \notin minted /\ Done(c)
  /\ token' = [token EXCEPT ![k] = req[c].user]
  /\ minted' = minted \cup {k}
  /\ UNCHANGED <<accounts, session, used, now>>

(* Only tokens of the caller are revoked.  The list is read before the row  *)
(* goes; in between it can only lose rows, since a token keeps its owner.   *)
list_api_tokens_q(u) == {k \in Tokens : token[k] = u /\ u # Nobody}

revoke_api_token_q(c, k) ==
  /\ Acts(c) /\ k \in list_api_tokens_q(req[c].user) /\ Done(c)
  /\ token' = [token EXCEPT ![k] = Nobody]
  /\ UNCHANGED <<accounts, session, minted, used, now>>

(* What came as the credential is removed if it is a session. *)
delete_session_q(cred) == session' = [s \in Sessions |-> IF s = cred THEN Nobody ELSE session[s]]

logout_handler(c) ==
  /\ Acts(c) /\ Done(c)
  /\ delete_session_q(req[c].cred)
  /\ UNCHANGED <<accounts, token, minted, used, now>>

SessionsOf(u) == {s \in Sessions : session[s] # Nobody /\ session[s].user = u}
delete_all_sessions_q(u) ==
  session' = [s \in Sessions |-> IF s \in SessionsOf(u) THEN Nobody ELSE session[s]]

revoke_all_sessions_handler(c) ==
  /\ Acts(c) /\ req[c].user # Nobody /\ Done(c)
  /\ delete_all_sessions_q(req[c].user)
  /\ UNCHANGED <<accounts, token, minted, used, now>>

-----------------------------------------------------------------------------
(* Accounts *)
create_user_q(u, super) ==
  /\ u \notin users \cup gone
  /\ users' = users \cup {u} /\ supers' = IF super THEN supers \cup {u} ELSE supers

create_user_handler(c, u, super) ==
  /\ Acts(c) /\ req[c].super
  /\ create_user_q(u, super) /\ Done(c)
  /\ UNCHANGED <<gone, initialized, boots, session, token, minted, used, now>>

(* Every row of the user goes, in one lock; not if it is the last super     *)
(* admin.                                                                   *)
delete_user_q(u) ==
  /\ u \in users /\ ~(u \in supers /\ Cardinality(supers) <= 1)
  /\ session' = [s \in Sessions |-> IF s \in SessionsOf(u) THEN Nobody ELSE session[s]]
  /\ token' = [k \in Tokens |-> IF token[k] = u THEN Nobody ELSE token[k]]
  /\ users' = users \ {u} /\ supers' = supers \ {u} /\ gone' = gone \cup {u}

delete_user_handler(c, u) ==
  /\ Acts(c) /\ req[c].super
  /\ delete_user_q(u) /\ Done(c)
  /\ UNCHANGED <<initialized, boots, minted, used, now>>

(* The handler looks at the setting, hashes the password and only then      *)
(* opens the transaction.                                                   *)
bootstrap_handler(c) ==
  /\ Acts(c) /\ req[c].super
  /\ IF initialized THEN Done(c) ELSE Then(c, "hashed")
  /\ UNCHANGED <<accessTables, minted, used, now>>

bootstrap_admin(c, u) ==
  /\ ReqAt(c, "hashed") /\ Done(c)
  /\ IF initialized THEN UNCHANGED accounts
     ELSE /\ create_user_q(u, TRUE)
          /\ initialized' = TRUE /\ boots' = boots + 1 /\ UNCHANGED gone
  /\ UNCHANGED <<session, token, minted, used, now>>

-----------------------------------------------------------------------------
(* What only reads (me_handler, list_sessions_handler), and what is         *)
(* refused, leaves no trace.                                                *)
Answer(c) ==
  /\ Acts(c) /\ Done(c)
  /\ UNCHANGED <<accessTables, minted, used, now>>

Hour ==
  /\ now < MaxTime /\ now' = now + 1
  /\ UNCHANGED <<accessTables, minted, used, req>>

AccessNext ==
  \/ Hour
  \/ \E c \in Clients :
       \/ \E cred \in {"admin"} \cup Sessions \cup Tokens : Begin(c, cred)
       \/ resolve_auth(c) \/ user_for_session_q(c) \/ user_for_api_token_q(c) \/ require_auth(c)
       \/ \E k \in Tokens : create_api_token_q(c, k) \/ revoke_api_token_q(c, k)
       \/ login_handler(c) \/ logout_handler(c) \/ revoke_all_sessions_handler(c)
       \/ \E u \in Users : \/ \E super \in BOOLEAN : create_user_handler(c, u, super)
                           \/ delete_user_handler(c, u) \/ bootstrap_admin(c, u)
       \/ bootstrap_handler(c) \/ Answer(c)

AccessSpec == AccessInit /\ [][AccessNext]_accessVars

-----------------------------------------------------------------------------
Admitted(c) == req[c].at \in {"touch", "act", "write", "hashed"}

(* Nobody acts as a user that was deleted before the request began: a login *)
(* or a token that was under way while the user was deleted leaves a row    *)
(* behind, but the row opens nothing.                                       *)
DeletedUsersAreOut ==
  \A c \in Clients : Admitted(c) => req[c].user \notin req[c].barred

(* A session that had ended when a request began, by a logout, by a         *)
(* revocation, unused for 24 hours or 7 days old, does not admit it,        *)
(* whatever renewals of it were under way.                                  *)
SessionsEnd ==
  \A c \in Clients : Admitted(c) => req[c].cred \notin req[c].dead

(* The bootstrap makes one account, also when two callers race, and from    *)
(* then on there is a super admin.                                          *)
OneBootstrap == boots <= 1 /\ (initialized => supers # {})
=============================================================================
