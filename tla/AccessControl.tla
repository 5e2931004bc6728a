---------------------------- MODULE AccessControl ----------------------------
(***************************************************************************)
(* Users and what they may do: the handlers of apps/admin/view.py that     *)
(* create, change and delete a user, set who may use a service group and   *)
(* withdraw all access to a group, behind the middlewares that look for a  *)
(* token and ask for the rights of the one who calls; and the middleware   *)
(* that lets the users of a group in, by login, for its service.           *)
(*                                                                         *)
(* A policy is known by its uid, the user and the resource, and allows     *)
(* some methods.  Users and policies are kept in memory, where no call     *)
(* ever suspends, or in a database (sql), where every call does, and is a  *)
(* transaction of its own.  Each storage call is an action; turn is the    *)
(* request that goes on without giving the event loop away.                *)
(*                                                                         *)
(* A path or a list may spell an id in another way than the server does,   *)
(* such as "02": the handlers look for the user under int() of it, and for *)
(* policies, mostly, under the string.                                     *)
(*                                                                         *)
(* py_abac is external: a policy allows what its targets, subject,         *)
(* resource and actions say, and get_for_target with an empty subject      *)
(* yields every policy of the resource.                                    *)
(***************************************************************************)
EXTENDS Naturals, Sequences, FiniteSets, Functions

CONSTANTS Requests,
          Methods,     \* the methods a policy allows or does not
          Admin,       \* the admin application as a resource
          Groups,      \* the service groups as resources
          OtherNames,  \* ids of users and groups, spelled otherwise than the server does
          Reads,       \* the user or the group that int() makes of each of them
          Logins,
          Jobs,        \* what requests may ask
          FirstUsers,  \* how many users there are at first; the first one is ADMIN_USER
          Faults,      \* "cut": a client, or the database, goes away
          None

Users == Nat \ {0}

(* What requests call the users and the groups.  (What int() refuses ends a request *)
(* before it changes anything, and is left out.)                                    *)
UserNames == Users \cup {n \in OtherNames : Reads[n] \in Users}
GroupNames == Groups \cup {n \in OtherNames : Reads[n] \in Groups}
IdOf(name) == IF name \in OtherNames THEN Reads[name] ELSE name

Resources == {Admin} \cup GroupNames

(* What a request may ask, in whose name. *)
JobTypes ==
    [kind: {"create"}, by: Users, login: Logins, bad: BOOLEAN, grant: SUBSET Methods]
    \cup [kind: {"change"}, by: Users, user: UserNames, login: Logins, bad: BOOLEAN,
          grant: SUBSET Methods]
    \cup [kind: {"delete"}, by: Users, user: UserNames]
    \cup [kind: {"allow"}, by: Users, group: GroupNames, list: Seq(UserNames)]
    \cup [kind: {"remove"}, by: Users, group: GroupNames]
    \cup [kind: {"use"}, login: Logins, group: GroupNames]

ASSUME AccessAssumption ==
    /\ Jobs \subseteq JobTypes
    /\ FirstUsers \in Users
    /\ Admin \notin Groups
    /\ OtherNames \cap (Users \cup Groups \cup {Admin}) = {}
    /\ Reads \in [OtherNames -> Users \cup Groups]
    /\ {"post", "delete"} \subseteq Methods
    /\ Faults \subseteq {"cut"}
    /\ None \notin Requests

VARIABLES
    sql,      \* users and policies are in the database, not in memory
    logins,   \* the users: a function from their ids to their logins
    lastId,   \* the id given last
    rights,   \* the policies: a function from <<user, resource>> to the methods allowed
    at,       \* at[r]: the call request r makes next, or how it ended
    job,      \* job[r]: what it asks
    subject,  \* subject[r]: the user its next policy is for
    before,   \* before[r]: the users it has read, of a group
    todo,     \* todo[r]: what is left of its list
    turn,     \* the request that has the event loop, or None
    mixed     \* history, for the properties: requests that met another one

vars == <<sql, logins, lastId, rights, at, job, subject, before, todo, turn, mixed>>
store == <<logins, lastId, rights>>
local == <<subject, before, todo>>

Ended == {"ok", "refused", "failed"}
Active(r) == at[r] \notin Ended \cup {"idle"}

(* A call of a storage suspends the handler if it goes to the database.  Nothing *)
(* else does: csrf_middleware has read the body before. *)
Goto(r, where) ==
    /\ at' = [at EXCEPT ![r] = where]
    /\ turn' = IF sql \/ where \in Ended THEN None ELSE r
Calls(r, what) == at[r] = what /\ turn \in {None, r}

Allowed(u, res) == IF <<u, res>> \in DOMAIN rights THEN rights[<<u, res>>] ELSE {}
(* Those with a policy for a resource, as their policies have them. *)
UsersOf(res) == {p[1] : p \in {q \in DOMAIN rights : q[2] = res}}

(* admin_app_context has made ADMIN_USER with all rights; requests before these *)
(* have made the others, with some. *)
Init ==
    /\ sql \in BOOLEAN
    /\ lastId = FirstUsers
    /\ logins \in {f \in [1..FirstUsers -> Logins] : IsInjective(f)}
    /\ \E have \in SUBSET ((2..FirstUsers) \X Resources) :
          rights = [p \in have \cup {<<1, Admin>>} |-> Methods]
    /\ at = [r \in Requests |-> "idle"]
    /\ job = [r \in Requests |-> None]
    /\ subject = [r \in Requests |-> None]
    /\ before = [r \in Requests |-> {}]
    /\ todo = [r \in Requests |-> <<>>]
    /\ turn = None
    /\ mixed = {}

-----------------------------------------------------------------------------
(* The middleware *)

(* A request begins, and meets those under way. *)
Meet(r) ==
    mixed' = LET others == {q \in Requests : Active(q)}
             IN  IF others = {} THEN mixed ELSE mixed \cup others \cup {r}

MethodOf(j) == IF j.kind \in {"delete", "remove"} THEN "delete" ELSE "post"

(* csrf_middleware: what is posted must have the token of the session. *)
Untokened(j) == MethodOf(j) = "post"
(* authorized_userid: the session names a user, who must exist. *)
Known(u) == u \in DOMAIN logins
Identify(r, j) ==
    /\ j.kind # "use"
    /\ Calls(r, "idle")
    /\ job' = [job EXCEPT ![r] = j]
    /\ \/ Goto(r, IF Known(j.by) THEN "permit" ELSE "refused")
       \/ Untokened(j) /\ Goto(r, "refused")
    /\ Meet(r)
    /\ UNCHANGED <<store, local, sql>>

(* permits: a policy of the user for the admin application that allows the method; *)
(* then the handler starts. *)
FirstCall(j) == CASE j.kind = "create" -> "add"
                  [] j.kind = "change" -> "load"
                  [] j.kind = "allow" -> "settings"
                  [] j.kind = "delete" -> "drop"
                  [] j.kind = "remove" -> "purge"
Permit(r) ==
    /\ Calls(r, "permit")
    /\ Goto(r, IF MethodOf(job[r]) \in Allowed(job[r].by, Admin)
               THEN FirstCall(job[r]) ELSE "refused")
    /\ UNCHANGED <<store, local, sql, job, mixed>>

(* BasicAuthMiddleware: the user of a login, the first there is, and a policy of the *)
(* user for the group.  (All passwords have one hash, so any is right.)  A login     *)
(* nobody has ends in an exception. *)
Having(login) == {u \in DOMAIN logins : logins[u] = login}
Authenticate(r, j) ==
    /\ j.kind = "use"
    /\ Calls(r, "idle")
    /\ job' = [job EXCEPT ![r] = j]
    /\ \/ \E u \in Having(j.login) :
             /\ \A v \in Having(j.login) : u <= v
             /\ subject' = [subject EXCEPT ![r] = u]
             /\ Goto(r, "enter")
       \/ Having(j.login) = {} /\ Goto(r, "failed") /\ UNCHANGED subject
    /\ Meet(r)
    /\ UNCHANGED <<store, before, todo, sql>>

Enter(r) ==
    /\ Calls(r, "enter")
    /\ Goto(r, IF MethodOf(job[r]) \in Allowed(subject[r], job[r].group)
               THEN "ok" ELSE "refused")
    /\ UNCHANGED <<store, local, sql, job, mixed>>

-----------------------------------------------------------------------------
(* post_user_form *)

(* set_access_policy, unless nothing is to be allowed. *)
GrantNext(r) == Goto(r, IF job[r].grant = {} THEN "ok" ELSE "grant")

(* A login, an email or a text that is not valid (or too long) raises. *)
Rejected(j) == j.bad

(* create_new_user: the user is made before the repository looks for the login. *)
Taken(login, others) == \E u \in others : logins[u] = login
NewIdByCount == Cardinality(DOMAIN logins) + 1
NewId == lastId + 1
NotCounted == lastId
Counted == NewId
AddUser(r) ==
    /\ Calls(r, "add")
    /\ \/ Rejected(job[r]) /\ Goto(r, "failed") /\ UNCHANGED <<store, subject>>
       \/ /\ ~Rejected(job[r]) /\ Taken(job[r].login, DOMAIN logins)
          /\ Goto(r, "refused")
          /\ UNCHANGED <<store, subject>>
       \/ /\ ~Rejected(job[r]) /\ ~Taken(job[r].login, DOMAIN logins)
          /\ logins' = [u \in DOMAIN logins \cup {NewId} |->
                           IF u = NewId THEN job[r].login ELSE logins[u]]
          /\ lastId' = Counted
          /\ subject' = [subject EXCEPT ![r] = NewId]
          /\ GrantNext(r)
          /\ UNCHANGED rights
    /\ UNCHANGED <<before, todo, sql, job, mixed>>

(* update_user, up to the repository's update: the object in memory is the stored *)
(* one, so its login is changed when a later field raises (bad: an email that is  *)
(* not valid, or any password, as all have one hash). *)
Renamed(u, login) == [logins EXCEPT ![u] = login]
LoadUser(r) ==
    LET u == IdOf(job[r].user) IN
    /\ Calls(r, "load")
    /\ logins' = IF ~sql /\ u \in DOMAIN logins THEN Renamed(u, job[r].login) ELSE logins
    /\ Goto(r, IF u \notin DOMAIN logins \/ Rejected(job[r]) THEN "failed" ELSE "save")
    /\ UNCHANGED <<lastId, rights, local, sql, job, mixed>>

(* The database refuses a login twice, and updates nothing if the user is gone. *)
SaveUser(r) ==
    LET u == IdOf(job[r].user) IN
    /\ Calls(r, "save")
    /\ IF sql /\ u \in DOMAIN logins
       THEN IF Taken(job[r].login, DOMAIN logins \ {u})
            THEN Goto(r, "failed") /\ UNCHANGED logins
            ELSE Goto(r, "unset") /\ logins' = Renamed(u, job[r].login)
       ELSE Goto(r, "unset") /\ UNCHANGED logins
    /\ subject' = [subject EXCEPT ![r] = job[r].user]
    /\ UNCHANGED <<lastId, rights, before, todo, sql, job, mixed>>

(* unset_access_policy: in memory a policy must be there, the database deletes *)
(* whatever there is. *)
Missing(p) == ~sql /\ p \notin DOMAIN rights
Without(p) == rights' = [q \in DOMAIN rights \ {p} |-> rights[q]]

Unset(r) ==
    LET p == <<subject[r], Admin>> IN
    /\ Calls(r, "unset")
    /\ Without(p)
    /\ IF Missing(p) THEN Goto(r, "failed") ELSE GrantNext(r)
    /\ UNCHANGED <<logins, lastId, local, sql, job, mixed>>

(* set_access_policy: the storage refuses a second policy of one uid. *)
Add(r, p, methods, next) ==
    IF p \in DOMAIN rights
    THEN Goto(r, "failed") /\ UNCHANGED rights
    ELSE /\ Goto(r, next)
         /\ rights' = [q \in DOMAIN rights \cup {p} |->
                          IF q = p THEN methods ELSE rights[q]]

Grant(r) ==
    /\ Calls(r, "grant")
    /\ Add(r, <<subject[r], Admin>>, job[r].grant, "ok")
    /\ UNCHANGED <<logins, lastId, local, sql, job, mixed>>

-----------------------------------------------------------------------------
(* delete_user: the user goes first. *)

DropUser(r) ==
    LET u == IdOf(job[r].user) IN
    /\ Calls(r, "drop")
    /\ logins' = [v \in DOMAIN logins \ {u} |-> logins[v]]
    /\ Goto(r, IF ~sql /\ u \notin DOMAIN logins THEN "refused" ELSE "sweep")
    /\ UNCHANGED <<lastId, rights, local, sql, job, mixed>>

(* delete_user_access_data looks for policies of the user as the path spells her id, *)
(* and asks the first for its own id, which it has not. *)
NoneLooked(u) == FALSE
SomeLeft(u) == \E p \in DOMAIN rights : p[1] = u
Sweep(r) ==
    /\ Calls(r, "sweep")
    /\ Goto(r, IF SomeLeft(job[r].user) THEN "failed" ELSE "ok")
    /\ UNCHANGED <<store, local, sql, job, mixed>>

-----------------------------------------------------------------------------
(* post_service_group_allowed_users: reads who has access, then goes through the list. *)

Settings(r) ==
    /\ Calls(r, "settings")
    /\ before' = [before EXCEPT ![r] = UsersOf(job[r].group)]
    /\ todo' = [todo EXCEPT ![r] = job[r].list]
    /\ Goto(r, "check")
    /\ UNCHANGED <<store, subject, sql, job, mixed>>

(* The next of the list has access already, or must exist to be given it. *)
NotStruck(r, u) == before
Struck(r, u) == [before EXCEPT ![r] = @ \ {u}]
Check(r) ==
    LET u == Head(todo[r]) IN
    /\ Calls(r, "check")
    /\ \/ /\ todo[r] = <<>>
          /\ Goto(r, "withdraw")
          /\ UNCHANGED local
       \/ /\ todo[r] # <<>> /\ u \in before[r]
          /\ before' = Struck(r, u)
          /\ todo' = [todo EXCEPT ![r] = Tail(@)]
          /\ Goto(r, "check")
          /\ UNCHANGED subject
       \/ /\ todo[r] # <<>> /\ u \notin before[r]
          /\ subject' = [subject EXCEPT ![r] = u]
          /\ todo' = [todo EXCEPT ![r] = Tail(@)]
          /\ Goto(r, IF IdOf(u) \in DOMAIN logins THEN "admit" ELSE "failed")
          /\ UNCHANGED before
    /\ UNCHANGED <<store, sql, job, mixed>>

Admit(r) ==
    /\ Calls(r, "admit")
    /\ Add(r, <<subject[r], job[r].group>>, Methods, "check")
    /\ UNCHANGED <<logins, lastId, local, sql, job, mixed>>

(* Those who had access and are not on the list lose it, one by one. *)
Withdraw(r) ==
    /\ Calls(r, "withdraw")
    /\ IF before[r] = {}
       THEN Goto(r, "ok") /\ UNCHANGED <<rights, before>>
       ELSE \E u \in before[r] :
               LET p == <<u, job[r].group>> IN
               /\ Without(p)
               /\ before' = [before EXCEPT ![r] = @ \ {u}]
               /\ Goto(r, IF Missing(p) THEN "failed" ELSE "withdraw")
    /\ UNCHANGED <<logins, lastId, subject, todo, sql, job, mixed>>

-----------------------------------------------------------------------------
(* delete_service_group: delete_resource_access_data goes through the policies of *)
(* the group, under its own spelling, and deletes each.  The database gives them    *)
(* all at once; the library's storage in memory may object to a change while it is *)
(* gone through.  (What follows, the device and the record of the group, is in     *)
(* DeviceGroups.) *)

Purge(r) ==
    /\ Calls(r, "purge")
    /\ before' = [before EXCEPT ![r] = UsersOf(IdOf(job[r].group))]
    /\ Goto(r, "purging")
    /\ UNCHANGED <<store, subject, todo, sql, job, mixed>>

PurgeNext(r) ==
    /\ Calls(r, "purging")
    /\ IF before[r] = {}
       THEN Goto(r, "ok") /\ UNCHANGED <<rights, before>>
       ELSE \E u \in before[r] :
               /\ Without(<<u, IdOf(job[r].group)>>)
               /\ before' = [before EXCEPT ![r] = @ \ {u}]
               /\ \/ Goto(r, "purging")
                  \/ ~sql /\ Goto(r, "failed")
    /\ UNCHANGED <<logins, lastId, subject, todo, sql, job, mixed>>

-----------------------------------------------------------------------------
(* The client goes away, which cancels the handler where it waits, or the *)
(* database does: either way the handler ends in an exception. *)
Cut(r) ==
    /\ "cut" \in Faults
    /\ Active(r) /\ turn = None
    /\ at' = [at EXCEPT ![r] = "failed"]
    /\ UNCHANGED <<store, local, sql, job, turn, mixed>>

Progress(r) ==
    \/ Permit(r) \/ Enter(r)
    \/ AddUser(r) \/ LoadUser(r) \/ SaveUser(r) \/ Unset(r) \/ Grant(r)
    \/ DropUser(r) \/ Sweep(r)
    \/ Settings(r) \/ Check(r) \/ Admit(r) \/ Withdraw(r)
    \/ Purge(r) \/ PurgeNext(r)

Next == \E r \in Requests :
            \/ \E j \in Jobs : Identify(r, j) \/ Authenticate(r, j)
            \/ Progress(r)
            \/ Cut(r)

Spec == Init /\ [][Next]_vars

-----------------------------------------------------------------------------
(* Properties *)

TypeOK ==
    /\ sql \in BOOLEAN
    /\ lastId \in Users
    /\ DOMAIN logins \subseteq 1..lastId
    /\ logins \in [DOMAIN logins -> Logins]
    /\ DOMAIN rights \subseteq UserNames \X Resources
    /\ rights \in [DOMAIN rights -> SUBSET Methods]
    /\ at \in [Requests -> Ended \cup {"idle", "permit", "enter", "add", "load", "save",
                   "unset", "grant", "drop", "sweep", "settings", "check", "admit",
                   "withdraw", "purge", "purging"}]
    /\ job \in [Requests -> Jobs \cup {None}]
    /\ subject \in [Requests -> UserNames \cup {None}]
    /\ before \in [Requests -> SUBSET UserNames]
    /\ todo \in [Requests -> Seq(UserNames)]
    /\ turn \in Requests \cup {None}
    /\ mixed \subseteq Requests

(* Policies outlive their user, as delete_user_access_data fails, and a request    *)
(* may be giving some to a user who is deleted meanwhile, under any spelling of    *)
(* her id.  Whatever became of the users before, a new one starts without any      *)
(* right, to the admin application or to a group. *)
NobodyInherits ==
    [][\A u \in DOMAIN logins' \ DOMAIN logins :
          \A p \in DOMAIN rights' : IdOf(p[1]) # u]_vars

(* Whatever meets whatever, and wherever a handler stops: a policy is set or       *)
(* withdrawn only as a request under way asks, under the very names it asks with.  *)
(* A request about a group never takes access from a name it lists. *)
SetAsAsked(j, p, methods) ==
    \/ j.kind = "create" /\ p[2] = Admin /\ methods = j.grant
    \/ j.kind = "change" /\ p = <<j.user, Admin>> /\ methods = j.grant
    \/ j.kind = "allow" /\ p[2] = j.group /\ p[1] \in Range(j.list) /\ methods = Methods
WithdrawnAsAsked(j, p) ==
    \/ j.kind = "change" /\ p = <<j.user, Admin>>
    \/ j.kind = "allow" /\ p[2] = j.group /\ p[1] \notin Range(j.list)
    \/ j.kind = "remove" /\ p[2] = IdOf(j.group)
RightsAsAsked ==
    [][/\ \A p \in DOMAIN rights' :
             \/ p \in DOMAIN rights /\ rights'[p] = rights[p]
             \/ \E r \in Requests : Active(r) /\ SetAsAsked(job[r], p, rights'[p])
       /\ \A p \in DOMAIN rights \ DOMAIN rights' :
             \E r \in Requests : Active(r) /\ WithdrawnAsAsked(job[r], p)]_vars

(* A request that is answered with success, and met no other on its way, has done  *)
(* to the user, by id, and to the policies, by the name it was asked with, exactly *)
(* what it was asked, whichever way the storages are.  Where it spells ids as the  *)
(* server does, that is all there is to do: a deleted user has no right left.      *)
(* Where it does not, success means less: DELETE /users/02 deletes user 2 and only *)
(* the policies of "02", POST /users/02 changes user 2 and the rights of "02",     *)
(* which nobody has, and user 2 keeps hers; only removing a group finds it under   *)
(* any spelling.  A group is used by a user there is, whoever had the login before.*)
Done(j) ==
    CASE j.kind = "create" ->
            \E u \in DOMAIN logins : logins[u] = j.login /\ Allowed(u, Admin) = j.grant
      [] j.kind = "change" ->
            /\ IdOf(j.user) \in DOMAIN logins /\ logins[IdOf(j.user)] = j.login
            /\ Allowed(j.user, Admin) = j.grant
      [] j.kind = "delete" ->
            /\ IdOf(j.user) \notin DOMAIN logins
            /\ \A p \in DOMAIN rights : p[1] # j.user
      [] j.kind = "allow" -> UsersOf(j.group) = Range(j.list)
      [] j.kind = "remove" -> UsersOf(IdOf(j.group)) = {}
      [] j.kind = "use" ->
            \E u \in DOMAIN logins : logins[u] = j.login /\ "post" \in Allowed(u, j.group)
OkIsDone ==
    [][\A r \in Requests :
          at[r] # "ok" /\ at'[r] = "ok" /\ r \notin mixed => Done(job[r])']_vars
=============================================================================
