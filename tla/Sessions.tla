------------------------------ MODULE Sessions ------------------------------
(***************************************************************************)
(* Users, their sessions and the editing of accounts. A session is a       *)
(* cookie that names the user with a digest of email and password hash     *)
(* (User.get_id), and load_user accepts it as long as the row yields the   *)
(* same digest. UserResource.post works on the user that load_user has     *)
(* read at the beginning of the request, writes the changed columns, and   *)
(* then renews the session from that copy: the row may have changed        *)
(* meanwhile, and the copy is not refreshed (expire_on_commit is off). A   *)
(* hash is a number: each encryption has a salt of its own.                *)
(***************************************************************************)
EXTENDS Naturals

CONSTANTS
  Accounts,    \* the users that may come to exist
  Browsers,    \* each with one session at a time
  Emails,
  First,       \* the user that setup creates ...
  FirstEmail,  \* ... and the email given to it
  MaxHash      \* bound: the passwords that are set

ASSUME SessionsAssumption ==
  First \in Accounts /\ FirstEmail \in Emails /\ MaxHash \in Nat \ {0}

VARIABLES
  account,  \* the rows of the users
  hashes,   \* the passwords set so far
  cookie,   \* the session of each browser
  edit,     \* the UserResource.post that each browser waits for
  typed     \* history: the users and passwords typed in at each browser

sessionVars == <<account, hashes, cookie, edit, typed>>

Nothing == [pc |-> "nothing"]
NoRow == [exists |-> FALSE]

Row(e, h, d) == [exists |-> TRUE, email |-> e, hash |-> h, disabled |-> d]

\* get_id, with the user: the identity that a session holds.
Identity(u, row) == [pc |-> "open", user |-> u, email |-> row.email, hash |-> row.hash]

SessionsInit ==
  /\ account = [u \in Accounts |-> NoRow]
  /\ hashes = 0
  /\ cookie = [b \in Browsers |-> Nothing]
  /\ edit = [b \in Browsers |-> Nothing]
  /\ typed = [b \in Browsers |-> {}]

Known == {u \in Accounts : account[u].exists}

\* The index on organization and email is unique.
Free(e, u) == \A v \in Known : v # u => account[v].email # e

\* load_user
Accepted(b) ==
  /\ cookie[b] # Nothing
  /\ ~account[cookie[b].user].disabled
  /\ cookie[b] = Identity(cookie[b].user, account[cookie[b].user])

-----------------------------------------------------------------------------
(* Opening and closing a session                                           *)

\* verify_password, of a user that is found by email.
Login(b, u) ==
  /\ u \in Known
  /\ ~account[u].disabled
  /\ cookie' = [cookie EXCEPT ![b] = Identity(u, account[u])]
  /\ typed' = [typed EXCEPT ![b] = @ \cup {<<u, account[u].hash>>}]
  /\ UNCHANGED <<account, hashes, edit>>

Logout(b) ==
  /\ cookie' = [cookie EXCEPT ![b] = Nothing]
  /\ UNCHANGED <<account, hashes, edit, typed>>

-----------------------------------------------------------------------------
(* Users                                                                   *)

\* setup, unless there is an organization: the first user and a session.
Setup(b) ==
  /\ Known = {}
  /\ hashes' = hashes + 1
  /\ account' = [account EXCEPT ![First] = Row(FirstEmail, hashes + 1, FALSE)]
  /\ cookie' = [cookie EXCEPT ![b] = Identity(First, Row(FirstEmail, hashes + 1, FALSE))]
  /\ typed' = [typed EXCEPT ![b] = @ \cup {<<First, hashes + 1>>}]
  /\ UNCHANGED edit

\* UserListResource.post, with a password of the server's; or the create
\* command, with one given to it.
NewUser(u, e) ==
  /\ u \notin Known
  /\ Free(e, u)
  /\ hashes < MaxHash
  /\ hashes' = hashes + 1
  /\ account' = [account EXCEPT ![u] = Row(e, hashes + 1, FALSE)]
  /\ UNCHANGED <<cookie, edit, typed>>

CreateUser(b, u, e) == Accepted(b) /\ NewUser(u, e)
CreateByCommand(u, e) == Known # {} /\ NewUser(u, e)

\* create_root makes the organization too, if there is none yet.
CreateRoot(u, e) == NewUser(u, e)

\* UserDisableResource.post: of somebody else.
Disable(b, u) ==
  /\ Accepted(b)
  /\ u \in Known \ {cookie[b].user}
  /\ account' = [account EXCEPT ![u].disabled = TRUE]
  /\ UNCHANGED <<hashes, cookie, edit, typed>>

\* UserDisableResource.delete: sessions of before are accepted again.
Enable(b, u) ==
  /\ Accepted(b)
  /\ u \in Known
  /\ account' = [account EXCEPT ![u].disabled = FALSE]
  /\ UNCHANGED <<hashes, cookie, edit, typed>>

\* reset_password_with_token: whoever has the link sets a password, without a
\* session before or after.
ResetWithToken(b, u) ==
  /\ u \in Known
  /\ hashes < MaxHash
  /\ hashes' = hashes + 1
  /\ account' = [account EXCEPT ![u].hash = hashes + 1]
  /\ typed' = [typed EXCEPT ![b] = @ \cup {<<u, hashes + 1>>}]
  /\ UNCHANGED <<cookie, edit>>

\* The password command, given by whoever runs the server.
ResetByCommand(u) ==
  /\ u \in Known
  /\ hashes < MaxHash
  /\ hashes' = hashes + 1
  /\ account' = [account EXCEPT ![u].hash = hashes + 1]
  /\ UNCHANGED <<cookie, edit, typed>>

-----------------------------------------------------------------------------
(* UserResource.post                                                       *)

\* The user is read, and the email set in the copy; other fields of the form do
\* not matter here. Administrators may edit others, Groups says who they are.
EditEmail(b, u, e) ==
  /\ edit[b] = Nothing
  /\ Accepted(b)
  /\ u \in Known
  /\ edit' = [edit EXCEPT ![b] =
       [pc |-> IF e = account[u].email THEN "name" ELSE "email", user |-> u, own |-> u = cookie[b].user, copy |->
        [account[u] EXCEPT !.email = e]]]
  /\ UNCHANGED <<account, hashes, cookie, typed>>

\* The old password is verified against the copy, and the new one set in it.
EditPassword(b, u) ==
  /\ edit[b] = Nothing
  /\ Accepted(b)
  /\ u \in Known
  /\ hashes < MaxHash
  /\ hashes' = hashes + 1
  /\ typed' = [typed EXCEPT ![b] = @ \cup {<<u, account[u].hash>>, <<u, hashes + 1>>}]
  /\ edit' = [edit EXCEPT ![b] =
       [pc |-> "password", user |-> u, own |-> u = cookie[b].user, copy |->
        [account[u] EXCEPT !.hash = hashes + 1]]]
  /\ UNCHANGED <<account, cookie>>

\* Only the columns that were changed in the copy are written.
Saved(r) ==
  CASE r.pc = "email" -> [account[r.user] EXCEPT !.email = r.copy.email]
    [] r.pc = "password" -> [account[r.user] EXCEPT !.hash = r.copy.hash]
    [] OTHER -> account[r.user]

\* Mutant: the copy is refreshed by the commit (expire_on_commit).
SaveRefreshed(b) ==
  LET r == edit[b]
  IN /\ r # Nothing
     /\ Free(Saved(r).email, r.user)
     /\ account' = [account EXCEPT ![r.user] = Saved(r)]
     /\ cookie' = IF r.own THEN [cookie EXCEPT ![b] = Identity(r.user, Saved(r))] ELSE cookie
     /\ edit' = [edit EXCEPT ![b] = Nothing]
     /\ UNCHANGED <<hashes, typed>>

\* The commit, and login_user if this is the user's own account.
Save(b) ==
  LET r == edit[b]
  IN /\ r # Nothing
     /\ Free(Saved(r).email, r.user)
     /\ account' = [account EXCEPT ![r.user] = Saved(r)]
     /\ cookie' = IF r.own THEN [cookie EXCEPT ![b] = Identity(r.user, r.copy)] ELSE cookie
     /\ edit' = [edit EXCEPT ![b] = Nothing]
     /\ UNCHANGED <<hashes, typed>>

\* IntegrityError: "Username already taken."
Refuse(b) ==
  /\ edit[b] # Nothing
  /\ ~Free(Saved(edit[b]).email, edit[b].user)
  /\ edit' = [edit EXCEPT ![b] = Nothing]
  /\ UNCHANGED <<account, hashes, cookie, typed>>

-----------------------------------------------------------------------------
SessionsNext ==
  \/ \E u \in Accounts : ResetByCommand(u) \/ \E e \in Emails : CreateByCommand(u, e) \/ CreateRoot(u, e)
  \/ \E b \in Browsers :
      \/ Setup(b) \/ Logout(b) \/ Save(b) \/ Refuse(b)
      \/ \E u \in Accounts :
           \/ Login(b, u) \/ Disable(b, u) \/ Enable(b, u)
           \/ ResetWithToken(b, u) \/ EditPassword(b, u)
           \/ \E e \in Emails : CreateUser(b, u, e) \/ EditEmail(b, u, e)

SessionsSpec == SessionsInit /\ [][SessionsNext]_sessionVars

-----------------------------------------------------------------------------
(* Properties                                                              *)

Hashes == 1..hashes
Rows == [exists : {TRUE}, email : Emails, hash : Hashes, disabled : BOOLEAN]

\* The types of the state: emails are unique, and no hash is one of the future.
SessionsTypeOK ==
  /\ hashes \in 0..MaxHash
  /\ Known = {} => hashes = 0
  /\ account \in [Accounts -> {NoRow} \cup Rows]
  /\ \A u, v \in Known : account[u].email = account[v].email => u = v
  /\ cookie \in [Browsers -> {Nothing} \cup [pc : {"open"}, user : Known, email : Emails, hash : Hashes]]
  /\ edit \in [Browsers -> {Nothing} \cup
       [pc : {"name", "email", "password"}, user : Known, own : BOOLEAN, copy : Rows]]
  /\ typed \in [Browsers -> SUBSET (Known \X Hashes)]

\* users.py:336-344 with authentication.py:111-126: a session that is accepted
\* is one of somebody who has typed the password that now holds, at this
\* browser: renewing a session after an edit that raced with a change of the
\* password does not carry it over to the new password.
AcceptedTypedPassword ==
  \A b \in Browsers : Accepted(b) =>
    <<cookie[b].user, account[cookie[b].user].hash>> \in typed[b]

=============================================================================
