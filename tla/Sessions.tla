------------------------------ MODULE Sessions ------------------------------
(***************************************************************************)
(* Accounts and refresh tokens.  B2B, B2C and moderation hold the same     *)
(* code in their apps/auth: register, login, refresh and logout are chains *)
(* of one-statement transactions over users, refresh_tokens and            *)
(* refresh_blacklist.  They differ in how an account comes to be: sellers  *)
(* register with an INN, buyers without, and an administrator creates,     *)
(* blocks and unblocks moderators.  A behaviour is one service's.          *)
(*                                                                         *)
(* A token is named by the request that issued it: a request issues one    *)
(* pair at most, and uuid4 repeats no name.  Passwords are right and       *)
(* password_changed_at is empty, since nothing writes it.                  *)
(***************************************************************************)
EXTENDS FiniteSets

CONSTANTS
    Requests,
    Emails,
    Inns,
    InnOf,        \* the INN that comes with an email, unique in B2B
    NoToken

ASSUME SessionsAssumption ==
    /\ InnOf \in [Emails -> Inns]
    /\ NoToken \notin Requests

VARIABLES
    service,      \* b2b, b2c or moderation; never changes
    account,      \* users: absent, active or blocked
    tokens,       \* refresh_tokens: jti
    blacklist,    \* refresh_blacklist: jti
    expired,      \* tokens past their exp
    req

sessionsVars == <<service, account, tokens, blacklist, expired, req>>

Services == {"b2b", "b2c", "moderation"}
Kinds == {"register", "login", "refresh", "logout"}
Running == {"email", "inn", "insert",             \* registration
            "blacklist", "row", "account",        \* the checks of a refresh
            "revoke", "delete", "issue"}
Finished == {"ok", "lost", "known", "refused", "failed", "died"}
Idle == [kind |-> "none", email |-> "none", token |-> NoToken, chain |-> NoToken,
         pc |-> "idle", at |-> "idle"]

(***************************************************************************)
(* chain names the login or registration that a token descends from; at is *)
(* where a request was when its process died.  "ok" is a request whose     *)
(* answer arrived and "lost" one that died between its last commit and its *)
(* answer; "known" is a logout of a token that was revoked already.        *)
(***************************************************************************)
SessionsTypeOK ==
    /\ service \in Services
    /\ account \in [Emails -> {"absent", "active", "blocked"}]
    /\ tokens \subseteq Requests
    /\ blacklist \subseteq Requests
    /\ expired \subseteq Requests
    /\ req \in [Requests ->
            [kind : Kinds \cup {"none"}, email : Emails \cup {"none"},
             token : Requests \cup {NoToken}, chain : Requests \cup {NoToken},
             pc : Running \cup Finished \cup {"idle"}, at : Running \cup {"idle"}]]
    /\ \A r \in Requests : IF req[r].pc = "idle" THEN req[r] = Idle
                         ELSE req[r].email \in Emails /\ req[r].chain \in Requests

\* users.inn is UNIQUE; buyers and moderators have none.
InnsUnique ==
    service = "b2b" => \A e, f \in Emails :
        account[e] # "absent" /\ account[f] # "absent" /\ InnOf[e] = InnOf[f] => e = f

SessionsInit ==
    /\ service \in Services
    /\ account \in [Emails -> {"absent", "active"}]
    /\ InnsUnique
    /\ tokens = {}
    /\ blacklist = {}
    /\ expired = {}
    /\ req = [r \in Requests |-> Idle]

Enter(r, to) == req' = [req EXCEPT ![r].pc = to]

\* The last commit of a request: its answer arrives or its process dies first.
Answer(r) == Enter(r, "ok") \/ Enter(r, "lost")

InnTaken(e) ==
    service = "b2b" /\ \E f \in Emails : account[f] # "absent" /\ InnOf[f] = InnOf[e]

-----------------------------------------------------------------------------
(* Requests arrive. *)

Begin(r, kind, email, token, chain, pc) ==
    /\ req[r].pc = "idle"
    /\ req' = [req EXCEPT ![r] = [kind |-> kind, email |-> email, token |-> token,
                                  chain |-> chain, pc |-> pc, at |-> "idle"]]
    /\ UNCHANGED <<service, account, tokens, blacklist, expired>>

BeginRegister(r) ==
    \E e \in Emails : Begin(r, "register", e, NoToken, r, "email")

BeginLogin(r) == \E e \in Emails : Begin(r, "login", e, NoToken, r, "account")

Issued(t) ==
    /\ \/ req[t].kind \in {"login", "refresh"}
       \/ req[t].kind = "register" /\ service # "moderation"
    /\ req[t].pc \in {"ok", "lost"}

\* A client presents a token it was given; decode refuses an expired one.
Presentable(t) ==
    /\ Issued(t)
    /\ req[t].pc = "ok"
    /\ t \notin expired

BeginRefresh(r) ==
    \E t \in Requests :
        /\ Presentable(t)
        /\ Begin(r, "refresh", req[t].email, t, req[t].chain, "blacklist")

BeginLogout(r) ==
    \E t \in Requests :
        /\ Presentable(t)
        /\ Begin(r, "logout", req[t].email, t, req[t].chain, "blacklist")

-----------------------------------------------------------------------------
(* Registration: two lookups, then the INSERT under the UNIQUE columns.    *)

CheckEmail(r) ==
    /\ req[r].pc = "email"
    /\ IF account[req[r].email] # "absent" THEN Enter(r, "refused")
       ELSE Enter(r, IF service = "b2b" THEN "inn" ELSE "insert")
    /\ UNCHANGED <<service, account, tokens, blacklist, expired>>

CheckInn(r) ==
    /\ req[r].pc = "inn"
    /\ Enter(r, IF InnTaken(req[r].email) THEN "refused" ELSE "insert")
    /\ UNCHANGED <<service, account, tokens, blacklist, expired>>

Taken(e) == account[e] # "absent" \/ InnTaken(e)

InsertAccount(r) ==
    /\ req[r].pc = "insert"
    /\ IF Taken(req[r].email)
       THEN Enter(r, "failed") /\ UNCHANGED account
       ELSE /\ account' = [account EXCEPT ![req[r].email] = "active"]
            /\ IF service = "moderation" THEN Answer(r) ELSE Enter(r, "issue")
    /\ UNCHANGED <<service, tokens, blacklist, expired>>

-----------------------------------------------------------------------------
(* Refresh reads three tables, revokes, deletes and issues; logout looks   *)
(* into the blacklist and inserts.  The primary key of the blacklist lets  *)
(* one of them in.                                                         *)

CheckBlacklist(r) ==
    /\ req[r].pc = "blacklist"
    /\ IF req[r].token \in blacklist
       THEN Enter(r, IF req[r].kind = "logout" THEN "known" ELSE "refused")
       ELSE Enter(r, IF req[r].kind = "logout" THEN "revoke" ELSE "row")
    /\ UNCHANGED <<service, account, tokens, blacklist, expired>>

CheckRow(r) ==
    /\ req[r].pc = "row"
    /\ Enter(r, IF req[r].token \in tokens THEN "account" ELSE "refused")
    /\ UNCHANGED <<service, account, tokens, blacklist, expired>>

\* Of a login as well, whose account may be absent.
CheckAccount(r) ==
    /\ req[r].pc = "account"
    /\ IF account[req[r].email] # "active" THEN Enter(r, "refused")
       ELSE Enter(r, IF req[r].kind = "login" THEN "issue" ELSE "revoke")
    /\ UNCHANGED <<service, account, tokens, blacklist, expired>>

\* Mutant: the blacklist is not unique.
MutantRevokeTwice(r) ==
    /\ req[r].pc = "revoke"
    /\ blacklist' = blacklist \cup {req[r].token}
    /\ IF req[r].kind = "refresh" THEN Enter(r, "delete") ELSE Answer(r)
    /\ UNCHANGED <<service, account, tokens, expired>>

\* A logout deletes the row, as a refresh does, in place of revoking.
MutantLogoutDeletes(r) ==
    /\ req[r].pc = "revoke"
    /\ IF req[r].kind = "refresh"
       THEN /\ req[r].token \notin blacklist
            /\ blacklist' = blacklist \cup {req[r].token}
            /\ Enter(r, "delete")
            /\ UNCHANGED tokens
       ELSE tokens' = tokens \ {req[r].token} /\ Answer(r) /\ UNCHANGED blacklist
    /\ UNCHANGED <<service, account, expired>>

Revoke(r) ==
    /\ req[r].pc = "revoke"
    /\ IF req[r].token \in blacklist
       THEN Enter(r, "failed") /\ UNCHANGED blacklist
       ELSE /\ blacklist' = blacklist \cup {req[r].token}
            /\ IF req[r].kind = "refresh" THEN Enter(r, "delete") ELSE Answer(r)
    /\ UNCHANGED <<service, account, tokens, expired>>

\* DELETE ... WHERE user_id = in place of jti =.
MutantDeleteRow(r) ==
    /\ req[r].pc = "delete"
    /\ tokens' = {t \in tokens : req[t].email # req[r].email}
    /\ Enter(r, "issue")
    /\ UNCHANGED <<service, account, blacklist, expired>>

DeleteRow(r) ==
    /\ req[r].pc = "delete"
    /\ tokens' = tokens \ {req[r].token}
    /\ Enter(r, "issue")
    /\ UNCHANGED <<service, account, blacklist, expired>>

IssueRow(r) ==
    /\ req[r].pc = "issue"
    /\ tokens' = tokens \cup {r}
    /\ Answer(r)
    /\ UNCHANGED <<service, account, blacklist, expired>>

-----------------------------------------------------------------------------
(* What happens around the requests. *)

\* An administrator of moderation: one UPDATE of is_active.
UpdateModerator(e) ==
    /\ service = "moderation"
    /\ account[e] # "absent"
    /\ \E state \in {"active", "blocked"} :
        /\ account[e] # state
        /\ account' = [account EXCEPT ![e] = state]
    /\ UNCHANGED <<service, tokens, blacklist, expired, req>>

Expire(t) ==
    /\ t \in tokens \ expired
    /\ expired' = expired \cup {t}
    /\ UNCHANGED <<service, account, tokens, blacklist, req>>

\* The process stops between two transactions, or a statement fails.
Die(r) ==
    /\ req[r].pc \in Running
    /\ req' = [req EXCEPT ![r].pc = "died", ![r].at = req[r].pc]
    /\ UNCHANGED <<service, account, tokens, blacklist, expired>>

Register(r) == BeginRegister(r) \/ CheckEmail(r) \/ CheckInn(r) \/ InsertAccount(r)
Login(r) == BeginLogin(r) \/ CheckAccount(r)
Refresh(r) ==
    BeginRefresh(r) \/ CheckBlacklist(r) \/ CheckRow(r) \/ Revoke(r) \/ DeleteRow(r)
Logout(r) == BeginLogout(r)

SessionsNext ==
    \/ \E r \in Requests :
        Register(r) \/ Login(r) \/ Refresh(r) \/ Logout(r) \/ IssueRow(r) \/ Die(r)
    \/ \E e \in Emails : UpdateModerator(e)
    \/ \E t \in Requests : Expire(t)

SessionsSpec == SessionsInit /\ [][SessionsNext]_sessionsVars

-----------------------------------------------------------------------------
(* Properties. *)

\* Requests that used their token up: their INSERT into the blacklist is in.
UsesUp(r) ==
    /\ req[r].kind \in {"refresh", "logout"}
    /\ \/ req[r].pc \in {"delete", "issue", "ok", "lost"}
       \/ req[r].pc = "died" /\ req[r].at \in {"delete", "issue"}

Registered(r) ==
    /\ req[r].kind = "register"
    /\ \/ req[r].pc \in {"issue", "ok", "lost"}
       \/ req[r].pc = "died" /\ req[r].at = "issue"

\* Tokens that a refresh would accept, and refreshes between a token and its heir.
Live(t) == t \in tokens \ blacklist
Carries(r) == Live(r) \/ (req[r].kind = "refresh" /\ req[r].pc \in {"delete", "issue"})

\* refresh and logout: whatever races, one request at most uses a token up, so a
\* token has one heir and a refresh cannot get past a logout of its token.
TokenIsUsedOnce ==
    \A r, q \in Requests :
        UsesUp(r) /\ UsesUp(q) /\ req[r].token = req[q].token => r = q

\* Rotation: a login or registration has at most one token that still works,
\* however many refreshes of old and new tokens overlap.
OneLiveTokenPerLogin ==
    \A s, t \in Requests : Live(s) /\ Live(t) /\ req[s].chain = req[t].chain => s = t

\* logout: once its own INSERT is in, the login it belongs to has no token that
\* works and none under way.
LogoutEndsLogin ==
    \A l \in Requests :
        req[l].kind = "logout" /\ UsesUp(l)
            => \A r \in Requests : req[r].chain = req[l].chain => ~Carries(r)

\* refresh revokes the old token before it stores the new one, in transactions of
\* their own: a login whose client got a token loses it only by a logout, or by a
\* refresh that died in between or whose answer was lost.
LoginsEndForAReason ==
    \A c \in Requests : req[c].chain = c /\ Issued(c) /\ req[c].pc = "ok" =>
        \E r \in Requests :
            /\ req[r].chain = c
            /\ \/ Carries(r) /\ req[r].pc # "lost"
               \/ req[r].kind = "logout" /\ UsesUp(r)
               \/ req[r].kind = "refresh" /\ UsesUp(r) /\ req[r].pc \in {"died", "lost"}

\* register: checks and INSERT are apart, yet no two sellers share an INN and
\* no email has been registered by two requests.
AccountsAreUnique ==
    /\ InnsUnique
    /\ \A r, q \in Requests :
        Registered(r) /\ Registered(q) /\ req[r].email = req[q].email => r = q

-----------------------------------------------------------------------------
(* What a reader of logout might expect, and the code does not keep: a     *)
(* logout that finds its token revoked by a refresh under way answers 204, *)
(* and the refresh then issues the next token.                             *)
LogoutAlwaysEndsLogin ==
    \A l \in Requests :
        req[l].kind = "logout" /\ req[l].pc \in {"ok", "known"}
            => \A r \in Requests : req[r].chain = req[l].chain => ~Live(r)

=============================================================================
