---------------------------- MODULE TenantAccounts ----------------------------
(***************************************************************************)
(* Organizations, their accounts and the refresh tokens of the accounts.   *)
(* A request reads committed rows, decides, and writes at its end; two     *)
(* requests overlap freely, and only the unique constraints on the name of *)
(* an organization and on the address of an account stop the later one.    *)
(*                                                                         *)
(* A password is right or the request changes nothing (the audit entry of  *)
(* a refused login is rolled back with the rest), so passwords are left    *)
(* out.  So are the endpoints that end with an exception on every path:    *)
(* logging out, creating and listing users, renaming the organization.     *)
(***************************************************************************)
EXTENDS FiniteSets, Naturals

CONSTANTS
  Organizations,   \* names of organizations
  Scripted,        \* those that a script has set up
  Accounts,        \* identifiers of users, each used once
  Mailboxes,       \* e-mail addresses, whatever their letters' case
  Forms,           \* what an admin may ask for: values of some columns of a user
  Tokens,          \* refresh tokens, each generated once
  Clients          \* requests in flight together

VARIABLES
  organization,   \* names of the organizations that have a row
  user,           \* rows of the users: organization, address, role, active
  token,          \* rows of the refresh tokens: owner, first token of the session, and
                  \* whether it is live, revoked or expired
  doing,          \* what each request is doing
  rewritten,      \* history: accounts whose address an admin has changed
  raced           \* history: tokens exchanged by requests that overlapped

accountVars == <<organization, user, token, doing, rewritten, raced>>

-----------------------------------------------------------------------------
\* Analysts and viewers are alike here.
Role == {"admin", "member"}

\* An address as it is stored or typed: all its letters small, or not.
Address == [box : Mailboxes, small : BOOLEAN]
Lower(a) == [a EXCEPT !.small = TRUE]

ASSUME AccountsAssumption ==
  /\ Scripted \subseteq Organizations
  /\ \A form \in Forms :
       /\ "org" \notin DOMAIN form
       /\ "mail" \in DOMAIN form => form.mail \in Address
       /\ "role" \in DOMAIN form => form.role \in Role
       /\ "active" \in DOMAIN form => form.active \in BOOLEAN

NoUser == [role |-> "none"]
NoToken == [owner |-> "none"]

Nothing == [at |-> "nothing"]

AccountsInit ==
  /\ organization = Scripted
  /\ user = [u \in Accounts |-> NoUser]
  /\ token = [t \in Tokens |-> NoToken]
  /\ doing = [r \in Clients |-> Nothing]
  /\ rewritten = {}
  /\ raced = {}

Known == {u \in Accounts : user[u] # NoUser}
Issued == {t \in Tokens : token[t] # NoToken}
Live == {t \in Issued : token[t].is = "live"}

\* The accounts stored under the small letters of what was typed.
Named(a) == {u \in Known : user[u].mail = Lower(a)}

\* A bearer token opens the request of a user who is active when it begins.
Bearers == {u \in Known : user[u].active}
Admins == {u \in Bearers : user[u].role = "admin"}

Begins(r, what) == doing[r] = Nothing /\ doing' = [doing EXCEPT ![r] = what]
Returns(r) == doing' = [doing EXCEPT ![r] = Nothing]

\* A new token of account u, in the session that began with `first`.
Issue(u, first) == [owner |-> u, first |-> first, is |-> "live"]

-----------------------------------------------------------------------------
(* Registration. *)

\* An organization is joined by who types its slug: the plain one that a script gave
\* it, or the one with a random suffix that its founder was given.  A name that is
\* no slug founds an organization, unless the name is taken and the request fails.
Founds(o) == o \notin organization

\* Seeded fault: the address is stored as it was typed.
StoredAsTyped(a) == a

StoredAddress(a) == Lower(a)

RegisterBegin(r) ==
  \E o \in Organizations, a \in Address, as \in Role :
    /\ Named(a) = {}
    /\ Begins(r, [at |-> "registering", org |-> o, founds |-> Founds(o),
                  mail |-> StoredAddress(a), role |-> as])
    /\ UNCHANGED <<organization, user, token, rewritten, raced>>

\* Whether the unique constraints let the rows of the request in.
Admitted(r) ==
  /\ doing[r].founds => doing[r].org \notin organization
  /\ \A u \in Known : user[u].mail # doing[r].mail

Founded(r) == IF Admitted(r) THEN organization \cup {doing[r].org} ELSE organization

RegisterCommit(r) ==
  /\ doing[r].at = "registering"
  /\ organization' = Founded(r)
  /\ \/ /\ Admitted(r)
        /\ \E u \in Accounts \ Known, t \in Tokens \ Issued :
             /\ user' = [user EXCEPT ![u] = [org |-> doing[r].org, mail |-> doing[r].mail,
                                             role |-> doing[r].role, active |-> TRUE]]
             /\ token' = [token EXCEPT ![t] = Issue(u, t)]
     \/ ~Admitted(r) /\ UNCHANGED <<user, token>>
  /\ Returns(r)
  /\ UNCHANGED <<rewritten, raced>>

-----------------------------------------------------------------------------
(* Sessions. *)

\* The password is right, and the account is active when it is read.
LoginBegin(r) ==
  \E a \in Address : \E u \in Named(a) :
    /\ user[u].active
    /\ Begins(r, [at |-> "login", user |-> u])
    /\ UNCHANGED <<organization, user, token, rewritten, raced>>

LoginCommit(r) ==
  /\ doing[r].at = "login"
  /\ \E t \in Tokens \ Issued :
       token' = [token EXCEPT ![t] = Issue(doing[r].user, t)]
  /\ Returns(r)
  /\ UNCHANGED <<organization, user, rewritten, raced>>

RefreshBegin(r) ==
  \E t \in Live :
    /\ user[token[t].owner].active
    /\ Begins(r, [at |-> "refresh", token |-> t])
    /\ UNCHANGED <<organization, user, token, rewritten, raced>>

\* Seeded fault: the old token stays usable.
KeptUsable(t) == token[t]

Revoked(t) == [token[t] EXCEPT !.is = "revoked"]

\* The old token is revoked by its identifier, whatever it has become since.
RefreshCommit(r) ==
  /\ doing[r].at = "refresh"
  /\ LET old == doing[r].token IN
     /\ \E t \in Tokens \ Issued :
          token' = [token EXCEPT ![old] = Revoked(old),
                                 ![t] = Issue(token[old].owner, token[old].first)]
     /\ raced' = IF token[old].is = "revoked" THEN raced \cup {old} ELSE raced
  /\ Returns(r)
  /\ UNCHANGED <<organization, user, rewritten>>

\* The lifetime of a refresh token ends.
Expire ==
  /\ \E t \in Live : token' = [token EXCEPT ![t].is = "expired"]
  /\ UNCHANGED <<organization, user, doing, rewritten, raced>>

-----------------------------------------------------------------------------
(* Administration. *)

FilledIn(form, row) ==
  [c \in DOMAIN row |-> IF c \in DOMAIN form THEN form[c] ELSE row[c]]

\* An admin changes a user of the same organization, the address as it is typed.
UpdateBegin(r) ==
  \E admin \in Admins, u \in Known, form \in Forms :
    /\ user[u].org = user[admin].org
    /\ Begins(r, [at |-> "updating", user |-> u, seen |-> user[u],
                  wanted |-> FilledIn(form, user[u])])
    /\ UNCHANGED <<organization, user, token, rewritten, raced>>

\* Seeded fault: the whole row is written.
WholeRow(r) == doing[r].wanted

\* The columns that the request has changed are written, the others left alone.
ChangedColumns(r) ==
  [c \in DOMAIN doing[r].wanted |->
     IF doing[r].wanted[c] # doing[r].seen[c] THEN doing[r].wanted[c]
     ELSE user[doing[r].user][c]]

UpdateCommit(r) ==
  /\ doing[r].at = "updating"
  /\ LET u == doing[r].user
         row == ChangedColumns(r)
     IN \/ /\ \A v \in Known \ {u} : user[v].mail # row.mail
           /\ user' = [user EXCEPT ![u] = row]
           /\ rewritten' = IF row.mail # user[u].mail THEN rewritten \cup {u}
                           ELSE rewritten
        \/ /\ \E v \in Known \ {u} : user[v].mail = row.mail
           /\ UNCHANGED <<user, rewritten>>
  /\ Returns(r)
  /\ UNCHANGED <<organization, token, raced>>

\* A request that fails or is cut off is rolled back.
RollBack(r) ==
  /\ doing[r] # Nothing
  /\ Returns(r)
  /\ UNCHANGED <<organization, user, token, rewritten, raced>>

-----------------------------------------------------------------------------
AccountsNext ==
  \/ \E r \in Clients :
       \/ RegisterBegin(r) \/ RegisterCommit(r)
       \/ LoginBegin(r) \/ LoginCommit(r)
       \/ RefreshBegin(r) \/ RefreshCommit(r)
       \/ UpdateBegin(r) \/ UpdateCommit(r)
       \/ RollBack(r)
  \/ Expire

AccountsSpec == AccountsInit /\ [][AccountsNext]_accountVars

-----------------------------------------------------------------------------
(* Properties. *)

\* The address of an account finds that account and no other when it is typed
\* with any capitals, unless an admin has changed it since: register and login
\* agree on small letters, update_user does not.
FoundByAddress ==
  \A u \in Known \ rewritten : Named(user[u].mail) = {u}

\* A session has one live refresh token, however long the chain of exchanges,
\* unless two overlapping requests have exchanged the same one (AuthService.refresh
\* reads the token and revokes it without holding its row).
OneLiveToken ==
  \A first \in Issued :
    LET session == {t \in Issued : token[t].first = first} IN
    session \cap raced = {} => Cardinality(session \cap Live) <= 1

\* An account that was deactivated becomes active again only through an admin who
\* had seen it inactive: an overlapping change of its role or of its address does
\* not bring it back (update_user writes the columns it has changed).
DeactivationStands ==
  [][\A u \in Known : user'[u].active /\ ~user[u].active =>
       \E r \in Clients : doing[r].at = "updating" /\ doing[r].user = u
                           /\ ~doing[r].seen.active]_accountVars

==============================================================================
