------------------------------ MODULE Accounts ------------------------------
(***************************************************************************)
(* Users, their credentials (auth rows) and their groups.  Registration    *)
(* comes by sign-up, LDAP, a trusted header, OAuth, an administrator or    *)
(* SCIM; every one of them is a few commits with awaits between them.      *)
(*                                                                         *)
(* A handler is a program: the list of its commits.  A commit is an        *)
(* operator from database to database, and a request of another client     *)
(* may run between two commits.                                            *)
(***************************************************************************)
EXTENDS Naturals, Sequences, FiniteSets, SequencesExt, Server

CONSTANTS User, Email, Group, AccountClient,
          DefaultRole,           \* ui.default_user_role
          MaxAccountRequests     \* bound: requests

ASSUME AccountAssumption == DefaultRole \in {"pending", "user"} /\ IsFiniteSet(User) /\ IsFiniteSet(Group)

VARIABLES db,       \* the tables
          job,      \* per client: the rest of its program
          accountRequests,
          promoted, \* users whom the first-account rule made administrators
          tidy      \* no two requests on one account overlapped, SCIM touched no credentials

accountVars == <<db, job, accountRequests, promoted, tidy>>

NoUser == [in |-> FALSE, role |-> "pending", email |-> None, sub |-> FALSE, scim |-> FALSE, age |-> 0]
NoAuth == [in |-> FALSE, email |-> None]
Users(d) == {u \in User : d.user[u].in}
Free(d, e) == \A u \in Users(d) : d.user[u].email # e
ByEmail(d, e) == {u \in Users(d) : d.user[u].email = e}
HasAdmin(d) == \E u \in Users(d) : d.user[u].role = "admin"
get_first_user(d) == CHOOSE u \in Users(d) : \A v \in Users(d) : d.user[u].age <= d.user[v].age

AccountInit ==
    /\ db = [user |-> [u \in User |-> NoUser], auth |-> [u \in User |-> NoAuth],
             groups |-> {}, member |-> {}, signup |-> TRUE]
    /\ job = [c \in AccountClient |-> <<>>]
    /\ accountRequests = 0 /\ promoted = {} /\ tidy = TRUE

-----------------------------------------------------------------------------
(* Commits.  s.u is the account, s.v what is written.                       *)
Do(name, u, v) == [do |-> name, u |-> u, v |-> v]

insert_new_user(d, u, v) ==
    [d EXCEPT !.user[u] = [in |-> TRUE, role |-> v.role, email |-> v.email, sub |-> v.sub, scim |-> v.scim,
                           age |-> Cardinality(Users(d))]]
insert_new_auth(d, u, v) == [insert_new_user(d, u, v) EXCEPT !.auth[u] = [in |-> TRUE, email |-> v.email]]
update_user_role_by_id(d, u, role) == IF d.user[u].in THEN [d EXCEPT !.user[u].role = role] ELSE d
update_user_oauth_by_id(d, u) == IF d.user[u].in THEN [d EXCEPT !.user[u].sub = TRUE] ELSE d
update_user_scim_by_id(d, u) == IF d.user[u].in THEN [d EXCEPT !.user[u].scim = TRUE] ELSE d
AuthEmail(d, u, e) == IF d.auth[u].in THEN [d EXCEPT !.auth[u].email = e] ELSE d
UserEmail(d, u, e) == IF d.user[u].in THEN [d EXCEPT !.user[u].email = e] ELSE d
DeleteUser(d, u) == [d EXCEPT !.user[u] = NoUser]
DeleteAuth(d, u) == [d EXCEPT !.auth[u] = NoAuth]
insert_new_group(d, g) == [d EXCEPT !.groups = @ \cup {g}]
delete_group_by_id(d, g) == [d EXCEPT !.groups = @ \ {g}]
add_users_to_group(d, u, g) == IF g \in d.groups THEN [d EXCEPT !.member = @ \cup {<<g, u>>}] ELSE d
remove_users_from_group(d, u, g) == IF g \in d.groups THEN [d EXCEPT !.member = @ \ {<<g, u>>}] ELSE d
set_group_user_ids_by_id(d, g, us) == [d EXCEPT !.member = {m \in @ : m[1] # g} \cup ({g} \X us)]
remove_user_from_all_groups(d, u) == [d EXCEPT !.member = {m \in @ : m[2] # u \/ m[1] \notin d.groups}]
sync_groups_by_group_names(d, u, gs) ==
    [d EXCEPT !.member = {m \in @ : m[2] # u \/ m[1] \in gs \/ m[1] \notin d.groups} \cup ((gs \cap d.groups) \X {u})]

Commit(d, s) ==
    CASE s.do = "insert_auth" -> insert_new_auth(d, s.u, s.v)
      [] s.do = "insert_user" -> insert_new_user(d, s.u, s.v)
      [] s.do = "promote" -> update_user_role_by_id(d, s.u, "admin")
      [] s.do = "close" -> [d EXCEPT !.signup = FALSE]
      [] s.do = "role" -> update_user_role_by_id(d, s.u, s.v)
      [] s.do = "oauth" -> update_user_oauth_by_id(d, s.u)
      [] s.do = "scim" -> update_user_scim_by_id(d, s.u)
      [] s.do = "auth_email" -> AuthEmail(d, s.u, s.v)
      [] s.do = "user_email" -> UserEmail(d, s.u, s.v)
      [] s.do = "delete_user" -> DeleteUser(d, s.u)
      [] s.do = "delete_auth" -> DeleteAuth(d, s.u)
      [] s.do = "group" -> insert_new_group(d, s.v)
      [] s.do = "ungroup" -> delete_group_by_id(d, s.v)
      [] s.do = "join" -> add_users_to_group(d, s.u, s.v)
      [] s.do = "leave" -> remove_users_from_group(d, s.u, s.v)
      [] s.do = "members" -> set_group_user_ids_by_id(d, s.v.group, s.v.users)
      [] s.do = "leave_all" -> remove_user_from_all_groups(d, s.u)
      [] s.do = "sync" -> sync_groups_by_group_names(d, s.u, s.v)
      [] OTHER -> d

\* An email that is taken makes the database refuse the commit, and an auth
\* row that is not there ends the change of an email.
Refused(d, s) ==
    \/ s.do \in {"insert_auth", "insert_user"} /\ ~Free(d, s.v.email)
    \/ s.do = "user_email" /\ \E u \in ByEmail(d, s.v) : u # s.u

-----------------------------------------------------------------------------
(* Programs                                                                 *)
Row(e, role, sub, scim) == [email |-> e, role |-> role, sub |-> sub, scim |-> scim]
\* apply_default_group_assignment
DefaultGroup(u) == Do("join", u, CHOOSE g \in Group : TRUE)

\* The account is inserted with the default role, then counted, and becomes
\* the administrator when it is the only one.
signup_handler_CheckFirst(u, e) ==
    IF Users(db) = {} THEN <<Do("insert_auth", u, Row(e, "admin", FALSE, FALSE)), Do("promote", u, None), Do("close", u, None)>>
    ELSE <<Do("insert_auth", u, Row(e, DefaultRole, FALSE, FALSE))>>
signup_handler(u, e) ==
    <<Do("insert_auth", u, Row(e, DefaultRole, FALSE, FALSE)), Do("count", u, "close"), DefaultGroup(u)>>

ldap_auth(u, e, gs) ==
    (IF Free(db, e) THEN <<Do("insert_auth", u, Row(e, DefaultRole, FALSE, FALSE)), Do("count", u, None), DefaultGroup(u)>>
     ELSE <<>>) \o (IF gs = {} THEN <<>> ELSE SetToSeq({Do("group", u, g) : g \in gs \ db.groups}) \o <<Do("sync", u, gs)>>)
signin_trusted(u, e, gs, role) ==
    (IF Free(db, e) THEN signup_handler(u, e) ELSE <<>>)
    \o (IF gs = {} THEN <<>> ELSE <<Do("sync", u, gs)>>) \o (IF role = None THEN <<>> ELSE <<Do("role", u, role)>>)
add_user(u, e, role) == <<Do("insert_auth", u, Row(e, role, FALSE, FALSE)), DefaultGroup(u)>>
create_admin_user(u, e) == <<Do("insert_auth", u, Row(e, "admin", FALSE, FALSE))>>

\* The role an OAuth sign-in gives: claim is None without role management.
get_user_role(u, claim) ==
    CASE u # None /\ Cardinality(Users(db)) = 1 -> "admin"
      [] u = None /\ Users(db) = {} -> DefaultRole
      [] claim # None -> claim
      [] u = None -> DefaultRole
      [] OTHER -> db.user[u].role
update_user_groups(u, gs) ==
    IF gs = {} THEN <<>>
    ELSE SetToSeq({Do("group", u, g) : g \in gs \ db.groups}
                  \cup {Do("leave", u, g) : g \in {x \in db.groups \ gs : <<x, u>> \in db.member}})
         \o SetToSeq({Do("join", u, g) : g \in {x \in gs : <<x, u>> \notin db.member}})
oauth_known(u, e, claim, gs) ==
    <<Do("oauth", u, None), Do("role", u, get_user_role(u, claim))>>
    \o (IF Free(db, e) THEN <<Do("auth_email", u, e), Do("user_email", u, e)>> ELSE <<>>) \o update_user_groups(u, gs)
oauth_new(u, e, claim, gs) ==
    <<Do("insert_auth", u, Row(e, get_user_role(None, claim), TRUE, FALSE)), Do("count", u, None), DefaultGroup(u)>>
    \o update_user_groups(u, gs)

update_user_by_id(u, role, e) ==
    (IF e = None THEN <<>> ELSE <<Do("auth_email", u, e), Do("user_email", u, e)>>)
    \o <<Do("user_email", u, IF e = None THEN db.user[u].email ELSE e)>>
    \o (IF role = None THEN <<>> ELSE <<Do("role", u, role)>>)
delete_user_by_id(u) == <<Do("leave_all", u, None), Do("delete_user", u, None), Do("delete_auth", u, None)>>

scim_create_user(u, e, active) ==
    <<Do("insert_user", u, Row(e, IF active THEN "user" ELSE "pending", FALSE, FALSE)), Do("scim", u, None)>>
scim_update_user(u, e, active) ==
    <<Do("user_email", u, e)>>
    \o (IF db.user[u].role = "admin" THEN <<>> ELSE <<Do("role", u, IF active THEN "user" ELSE "pending")>>)
scim_patch_user(u, active) ==
    IF db.user[u].role = "admin" THEN <<>> ELSE <<Do("role", u, IF active THEN "user" ELSE "pending")>>
scim_delete_user(u) == <<Do("leave_all", u, None), Do("delete_user", u, None)>>
scim_create_group(g, us) == <<Do("group", None, g), Do("members", None, [group |-> g, users |-> us])>>
scim_update_group(g, us) == <<Do("members", None, [group |-> g, users |-> us])>>
scim_patch_group(g, u, op) == <<Do(op, u, g)>>

-----------------------------------------------------------------------------
(* A request: its checks, then its program.                                 *)
MayStart(c) == /\ accountRequests < MaxAccountRequests
               /\ job[c] = <<>> /\ c = CHOOSE x \in AccountClient : job[x] = <<>>   \* slots are alike
StartIf(c, u, sound, prog) ==
    /\ accountRequests' = accountRequests + 1 /\ prog # <<>>
    /\ job' = [job EXCEPT ![c] = prog]
    /\ tidy' = (tidy /\ sound /\ \A d \in AccountClient : job[d] = <<>> \/ Head(job[d]).u # u)
    /\ UNCHANGED <<db, promoted>>
Start(c, u, prog) == StartIf(c, u, TRUE, prog)

Unused(u) == ~db.user[u].in /\ ~db.auth[u].in
             /\ \A c \in AccountClient : job[c] = <<>> \/ \A i \in 1..Len(job[c]) : job[c][i].u # u
New(u) == Unused(u) /\ u = CHOOSE x \in User : Unused(x)   \* ids are alike

signup(c, u, e) == New(u) /\ (Users(db) = {} \/ db.signup) /\ Free(db, e) /\ Start(c, u, signup_handler(u, e))
Startup(c, u, e) == New(u) /\ Users(db) = {} /\ Start(c, u, create_admin_user(u, e))
Ldap(c, u, e) ==
    /\ \/ New(u) /\ Free(db, e)
       \/ u \in ByEmail(db, e) /\ db.auth[u].email = e
    /\ \E gs \in {{}, Group} : Start(c, u, ldap_auth(u, e, gs))
\* What the proxy or the provider says of the user: nothing, or its role and groups.
Asserted == {[role |-> None, groups |-> {}], [role |-> "user", groups |-> Group]}
Trusted(c, u, e) ==
    /\ \/ New(u) /\ Free(db, e)
       \/ u \in ByEmail(db, e) /\ db.auth[u].email = e
    /\ \E h \in Asserted : Start(c, u, signin_trusted(u, e, h.groups, h.role))
\* By subject, or by email when accounts are merged; else a new account.
OAuth(c, u, e) ==
    \E h \in Asserted :
       \/ db.user[u].in /\ (db.user[u].sub \/ u \in ByEmail(db, e)) /\ Start(c, u, oauth_known(u, e, h.role, h.groups))
       \/ New(u) /\ Free(db, e) /\ Start(c, u, oauth_new(u, e, h.role, h.groups))
Admin(c, u, e) ==
    /\ HasAdmin(db)
    /\ \/ \E role \in {"user", "admin"} : New(u) /\ Free(db, e) /\ Start(c, u, add_user(u, e, role))
       \/ \E role \in {None, "pending", "admin"} :
             /\ db.user[u].in /\ (u = get_first_user(db) => role \in {None, "admin"})
             /\ \/ Free(db, e) /\ Start(c, u, update_user_by_id(u, role, e))
                \/ Start(c, u, update_user_by_id(u, role, None))
       \/ db.user[u].in /\ u # get_first_user(db) /\ Start(c, u, delete_user_by_id(u))
GroupAdmin(c, g) ==
    /\ HasAdmin(db)
    /\ \/ g \notin db.groups /\ Start(c, None, <<Do("group", None, g)>>)
       \/ \E u \in Users(db), op \in {"join", "leave"} : g \in db.groups /\ Start(c, None, <<Do(op, u, g)>>)
       \/ g \in db.groups /\ Start(c, None, <<Do("ungroup", None, g)>>)
\* SCIM sees the accounts that OAuth or SCIM made; their auth rows it leaves alone.
Scim(c, u, e, active) ==
    \/ New(u) /\ Free(db, e) /\ Start(c, u, scim_create_user(u, e, active))
    \/ /\ db.user[u].in /\ (db.user[u].sub \/ db.user[u].scim)
       /\ \E prog \in {scim_update_user(u, e, active), scim_patch_user(u, active), scim_delete_user(u)} :
             StartIf(c, u, ~db.auth[u].in, prog)
ScimGroup(c, g) ==
    \/ \E us \in SUBSET User : g \notin db.groups /\ HasAdmin(db) /\ Start(c, None, scim_create_group(g, us))
    \/ /\ g \in db.groups
       /\ \/ \E us \in SUBSET User : Start(c, None, scim_update_group(g, us))
          \/ \E u \in User, op \in {"join", "leave"} : Start(c, None, scim_patch_group(g, u, op))

\* The next commit of a request.
Counted(d, s) ==
    IF Cardinality(Users(d)) = 1
    THEN <<Do("promote", s.u, None)>> \o (IF s.v = "close" THEN <<Do("close", s.u, None)>> ELSE <<>>) ELSE <<>>
AccountStep(c) ==
    LET s == Head(job[c]) IN
    /\ job[c] # <<>>
    /\ IF Refused(db, s)
       THEN /\ job' = [job EXCEPT ![c] = <<>>]
            /\ tidy' = (tidy /\ s.do # "user_email") /\ UNCHANGED <<db, promoted>>
       ELSE /\ db' = Commit(db, s)
            /\ job' = [job EXCEPT ![c] = (IF s.do = "count" THEN Counted(db, s) ELSE <<>>) \o Tail(@)]
            /\ promoted' = IF s.do = "promote" /\ db.user[s.u].in THEN promoted \cup {s.u}
                           ELSE IF s.do = "delete_user" THEN promoted \ {s.u} ELSE promoted
            /\ UNCHANGED tidy
    /\ UNCHANGED accountRequests

AccountNext ==
    \E c \in AccountClient :
       \/ AccountStep(c)
       \/ MayStart(c) /\ \E u \in User, e \in Email :
             \/ signup(c, u, e) \/ Startup(c, u, e) \/ Ldap(c, u, e) \/ Trusted(c, u, e) \/ OAuth(c, u, e)
             \/ Admin(c, u, e) \/ \E active \in BOOLEAN : Scim(c, u, e, active)
       \/ MayStart(c) /\ \E g \in Group : GroupAdmin(c, g) \/ ScimGroup(c, g)

AccountSpec == AccountInit /\ [][AccountNext]_accountVars

-----------------------------------------------------------------------------
AccountTypeOK ==
    /\ \A u \in User : db.user[u].role \in {"pending", "user", "admin"} /\ db.user[u].email \in Email \cup {None}
    /\ db.groups \subseteq Group /\ db.member \subseteq Group \X User

AccountIdle == \A c \in AccountClient : job[c] = <<>>

\* However registrations interleave, the rule for the first account makes at
\* most one of them administrator, and two accounts never share an email.
OneFirstAdmin ==
    /\ Cardinality(promoted) <= 1
    /\ \A u, v \in Users(db) : u # v => db.user[u].email # db.user[v].email

\* Credentials follow the account: the email one signs in with (auth row) is
\* the one the account shows (user row), and a deleted account leaves none.
CredentialsFollow ==
    AccountIdle /\ tidy => \A u \in User : db.auth[u].in => db.user[u].in /\ db.auth[u].email = db.user[u].email

\* Accounts: one first administrator, no email twice, credentials that follow the account.
AccountsHold == AccountTypeOK /\ OneFirstAdmin /\ CredentialsFollow
=============================================================================
