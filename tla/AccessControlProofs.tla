------------------------- MODULE AccessControlProofs -------------------------
(* Proofs about AccessControl, for any requests, methods, groups, logins, jobs, *)
(* number of first users and faults. *)
EXTENDS AccessControl, TLAPS

-----------------------------------------------------------------------------
(* The inductive invariant *)

(* A handler makes the calls of its own kind of job. *)
KindsOf(where) ==
    CASE where = "add" -> {"create"}
      [] where \in {"load", "save", "unset"} -> {"change"}
      [] where = "grant" -> {"create", "change"}
      [] where \in {"drop", "sweep"} -> {"delete"}
      [] where \in {"settings", "check", "admit", "withdraw"} -> {"allow"}
      [] where \in {"purge", "purging"} -> {"remove"}
      [] where = "permit" -> {"create", "change", "delete", "allow", "remove"}
      [] where = "enter" -> {"use"}
      [] OTHER -> {"create", "change", "delete", "allow", "remove", "use"}
JobInv ==
    \A r \in Requests : at[r] # "idle" => job[r] \in Jobs /\ job[r].kind \in KindsOf(at[r])

(* The names of ids that have been given out. *)
GivenNames == {n \in UserNames : IdOf(n) \in 1..lastId}

(* Whom the next policy is for: somebody who has, or had, an id. *)
SubjectInv ==
    \A r \in Requests :
        /\ at[r] = "save" => job[r].user \in GivenNames
        /\ at[r] \in {"unset", "grant", "admit"} => subject[r] \in GivenNames
        /\ at[r] \in {"unset", "grant"} /\ job[r].kind = "change" => subject[r] = job[r].user
        /\ at[r] = "admit" => subject[r] \in Range(job[r].list)

(* What is left to do of a list is of the list, and a user who had access and is *)
(* listed is not struck off before it is met. *)
ListInv ==
    \A r \in Requests :
        /\ at[r] \in {"check", "admit"} =>
              /\ Range(todo[r]) \subseteq Range(job[r].list)
              /\ before[r] \cap Range(job[r].list) \subseteq Range(todo[r])
        /\ at[r] = "withdraw" => before[r] \cap Range(job[r].list) = {}

(* All policies are for ids that have been given out. *)
RightsInv == \A p \in DOMAIN rights : p[1] \in GivenNames

Inv == JobInv /\ SubjectInv /\ ListInv /\ RightsInv

Places == Ended \cup {"idle", "permit", "enter", "add", "load", "save", "unset", "grant", "drop",
                     "sweep", "settings", "check", "admit", "withdraw", "purge", "purging"}

-----------------------------------------------------------------------------
(* What the lines of a job are. *)
LEMMA JobFacts ==
  ASSUME NEW j \in Jobs
  PROVE  /\ j.kind \in {"create", "change", "delete", "allow", "remove", "use"}
         /\ j.kind \in {"create", "change"} => j.login \in Logins /\ j.grant \in SUBSET Methods
         /\ j.kind \in {"change", "delete"} => j.user \in UserNames
         /\ j.kind = "allow" => j.group \in GroupNames /\ j.list \in Seq(UserNames)
         /\ j.kind = "remove" => j.group \in GroupNames
<1>1. j \in JobTypes
  BY AccessAssumption
<1> QED
  BY <1>1 DEF JobTypes

(* What int() makes of a name is a user or a group, and the one who is called so by the *)
(* server's own spelling.                                                               *)
LEMMA NameFacts ==
  /\ Users \subseteq UserNames /\ Groups \subseteq GroupNames
  /\ \A n \in UserNames : IdOf(n) \in Users
  /\ \A n \in GroupNames : IdOf(n) \in Groups
  /\ \A u \in Users : IdOf(u) = u
BY AccessAssumption DEF UserNames, GroupNames, IdOf

(* The members of a sequence are its first one and those of its tail. *)
LEMMA RangeOfTail ==
  ASSUME NEW S, NEW s \in Seq(S), s # <<>>
  PROVE  /\ Head(s) \in Range(s) /\ Head(s) \in S /\ Tail(s) \in Seq(S)
         /\ Range(Tail(s)) \subseteq Range(s)
         /\ Range(s) \subseteq {Head(s)} \cup Range(Tail(s))
<1>1. Len(s) \in Nat \ {0} /\ s = [i \in 1..Len(s) |-> s[i]]
  OBVIOUS
<1>2. Head(s) = s[1] /\ 1 \in DOMAIN s
  BY <1>1
<1>3. /\ Len(Tail(s)) = Len(s) - 1 /\ DOMAIN Tail(s) = 1..(Len(s) - 1)
      /\ \A i \in 1..(Len(s) - 1) : Tail(s)[i] = s[i + 1]
  BY <1>1
<1>4. \A i \in DOMAIN Tail(s) : Tail(s)[i] = s[i + 1] /\ i + 1 \in DOMAIN s
  BY <1>1, <1>3
<1>5. \A i \in DOMAIN s : i = 1 \/ (i - 1 \in DOMAIN Tail(s) /\ Tail(s)[i - 1] = s[i])
  BY <1>1, <1>3
<1>6. Head(s) \in S /\ Tail(s) \in Seq(S)
  OBVIOUS
<1>7. Range(Tail(s)) \subseteq Range(s)
  BY <1>4 DEF Range
<1>8. Range(s) \subseteq {Head(s)} \cup Range(Tail(s))
  BY <1>2, <1>5 DEF Range
<1> QED
  BY <1>2, <1>6, <1>7, <1>8 DEF Range

-----------------------------------------------------------------------------
(* Typing *)

(* A handler that goes on, to whatever call, is well formed. *)
LEMMA GotoTypes ==
  ASSUME TypeOK, NEW r \in Requests, NEW where \in Places, Goto(r, where)
  PROVE  at' \in [Requests -> Places] /\ turn' \in Requests \cup {None}
BY DEF TypeOK, Places, Goto

(* So are the policies when one is set or withdrawn. *)
LEMMA RightsTypes ==
  ASSUME TypeOK, NEW p \in UserNames \X Resources, NEW methods \in SUBSET Methods,
         \/ rights' = [q \in DOMAIN rights \cup {p} |-> IF q = p THEN methods ELSE rights[q]]
         \/ Without(p)
         \/ UNCHANGED rights
  PROVE  DOMAIN rights' \subseteq UserNames \X Resources
         /\ rights' \in [DOMAIN rights' -> SUBSET Methods]
BY DEF TypeOK, Without

(* The first state is well formed. *)
LEMMA TypeInit == ASSUME Init PROVE TypeOK /\ Inv
<1>1. FirstUsers \in Users /\ Admin \in Resources /\ 1 \in 1..FirstUsers
  BY AccessAssumption DEF Users, Resources
<1>2. /\ logins \in [1..FirstUsers -> Logins]
      /\ lastId = FirstUsers
  BY DEF Init
<1>3. /\ DOMAIN rights \subseteq (1..FirstUsers) \X Resources
      /\ rights \in [DOMAIN rights -> SUBSET Methods]
  <2>1. PICK have \in SUBSET ((2..FirstUsers) \X Resources) :
           rights = [p \in have \cup {<<1, Admin>>} |-> Methods]
    BY DEF Init
  <2>2. <<1, Admin>> \in (1..FirstUsers) \X Resources
    BY <1>1
  <2>3. have \subseteq (1..FirstUsers) \X Resources
    <3>1. 2..FirstUsers \subseteq 1..FirstUsers
      BY <1>1 DEF Users
    <3> QED
      BY <3>1
  <2> QED
    BY <2>1, <2>2, <2>3
<1>4. 1..FirstUsers \subseteq Users /\ Users \subseteq UserNames
  BY <1>1, NameFacts DEF Users
<1>5. TypeOK
  BY <1>1, <1>2, <1>3, <1>4 DEF Init, TypeOK, Ended
<1>6. RightsInv
  BY <1>2, <1>3, <1>4, NameFacts DEF RightsInv, GivenNames
<1> QED
  BY <1>5, <1>6 DEF Init, Inv, JobInv, SubjectInv, ListInv

(* Whoever is identified, each call of a handler and each cut lead from a well *)
(* formed state to another. *)
LEMMA TypeStep == ASSUME TypeOK, Inv, [Next]_vars PROVE TypeOK'
<1> USE DEF Places, Ended
<1>1. ASSUME NEW r \in Requests, NEW j \in Jobs, Identify(r, j) PROVE TypeOK'
  <2>1. job' \in [Requests -> Jobs \cup {None}]
    BY <1>1 DEF Identify, TypeOK
  <2>2. at' \in [Requests -> Places] /\ turn' \in Requests \cup {None}
    BY <1>1, GotoTypes DEF Identify
  <2>3. mixed' \subseteq Requests
    BY <1>1 DEF Identify, Meet, TypeOK
  <2> QED
    BY <1>1, <2>1, <2>2, <2>3 DEF Identify, TypeOK, store, local
<1>18. ASSUME NEW r \in Requests, NEW j \in Jobs, Authenticate(r, j) PROVE TypeOK'
  <2>1. job' \in [Requests -> Jobs \cup {None}]
    BY <1>18 DEF Authenticate, TypeOK
  <2>2. at' \in [Requests -> Places] /\ turn' \in Requests \cup {None}
    BY <1>18, GotoTypes DEF Authenticate
  <2>3. mixed' \subseteq Requests
    BY <1>18 DEF Authenticate, Meet, TypeOK
  <2>4. Having(j.login) \subseteq Users
    BY DEF Having, TypeOK, Users
  <2>5. subject' \in [Requests -> UserNames \cup {None}]
    BY <1>18, <2>4, NameFacts DEF Authenticate, TypeOK
  <2> QED
    BY <1>18, <2>1, <2>2, <2>3, <2>5 DEF Authenticate, TypeOK, store
<1>19. ASSUME NEW r \in Requests, Enter(r) PROVE TypeOK'
  <2>1. at' \in [Requests -> Places] /\ turn' \in Requests \cup {None}
    BY <1>19, GotoTypes DEF Enter
  <2> QED
    BY <1>19, <2>1 DEF Enter, TypeOK, store, local
<1>2. ASSUME NEW r \in Requests, Permit(r) PROVE TypeOK'
  <2>1. job[r].kind \in {"create", "change", "delete", "allow", "remove"}
    BY <1>2 DEF Inv, JobInv, KindsOf, Permit, Calls
  <2>2. FirstCall(job[r]) \in Places
    BY <2>1 DEF FirstCall
  <2>3. at' \in [Requests -> Places] /\ turn' \in Requests \cup {None}
    BY <1>2, <2>2, GotoTypes DEF Permit
  <2> QED
    BY <1>2, <2>3 DEF Permit, TypeOK, store, local
<1>3. ASSUME NEW r \in Requests, AddUser(r) PROVE TypeOK'
  <2>1. job[r] \in Jobs /\ job[r].login \in Logins
    BY <1>3, JobFacts DEF Inv, JobInv, KindsOf, AddUser, Calls
  <2>2. at' \in [Requests -> Places] /\ turn' \in Requests \cup {None}
    BY <1>3, GotoTypes DEF AddUser, GrantNext
  <2>3. /\ lastId' \in Users /\ DOMAIN logins' \subseteq 1..lastId'
        /\ logins' \in [DOMAIN logins' -> Logins]
        /\ subject' \in [Requests -> UserNames \cup {None}]
    <3>1. CASE UNCHANGED <<store, subject>>
      BY <3>1 DEF TypeOK, store
    <3>2. CASE /\ logins' = [u \in DOMAIN logins \cup {NewId} |->
                                IF u = NewId THEN job[r].login ELSE logins[u]]
               /\ lastId' = NewId /\ subject' = [subject EXCEPT ![r] = NewId]
      <4>1. NewId \in Users /\ 1..lastId \subseteq 1..NewId /\ NewId \in 1..NewId
        BY DEF NewId, TypeOK, Users
      <4> QED
        BY <3>2, <4>1, <2>1, NameFacts DEF TypeOK
    <3> QED
      BY <1>3, <3>1, <3>2 DEF AddUser, Counted
  <2>4. UNCHANGED rights
    BY <1>3 DEF AddUser, store
  <2> QED
    BY <1>3, <2>2, <2>3, <2>4 DEF AddUser, TypeOK
<1>4. ASSUME NEW r \in Requests, LoadUser(r) PROVE TypeOK'
  <2>1. job[r].login \in Logins
    BY <1>4, JobFacts DEF Inv, JobInv, KindsOf, LoadUser, Calls
  <2>2. at' \in [Requests -> Places] /\ turn' \in Requests \cup {None}
    BY <1>4, GotoTypes DEF LoadUser
  <2>3. DOMAIN logins' = DOMAIN logins /\ logins' \in [DOMAIN logins -> Logins]
    BY <1>4, <2>1 DEF Renamed, LoadUser, TypeOK
  <2> QED
    BY <1>4, <2>2, <2>3 DEF LoadUser, TypeOK, local
<1>5. ASSUME NEW r \in Requests, SaveUser(r) PROVE TypeOK'
  <2>1. job[r].login \in Logins /\ job[r].user \in UserNames
    BY <1>5, JobFacts DEF Inv, JobInv, KindsOf, SaveUser, Calls
  <2>2. at' \in [Requests -> Places] /\ turn' \in Requests \cup {None}
    BY <1>5, GotoTypes DEF SaveUser
  <2>3. DOMAIN logins' = DOMAIN logins /\ logins' \in [DOMAIN logins -> Logins]
    BY <1>5, <2>1 DEF Renamed, SaveUser, TypeOK
  <2>4. subject' \in [Requests -> UserNames \cup {None}]
    BY <1>5, <2>1 DEF SaveUser, TypeOK
  <2> QED
    BY <1>5, <2>2, <2>3, <2>4 DEF SaveUser, TypeOK
<1>6. ASSUME NEW r \in Requests, Unset(r) PROVE TypeOK'
  <2>1. <<subject[r], Admin>> \in UserNames \X Resources
    BY <1>6 DEF Inv, SubjectInv, GivenNames, Unset, Calls, Resources
  <2>2. at' \in [Requests -> Places] /\ turn' \in Requests \cup {None}
    BY <1>6, GotoTypes DEF Unset, GrantNext
  <2>3. DOMAIN rights' \subseteq UserNames \X Resources
        /\ rights' \in [DOMAIN rights' -> SUBSET Methods]
    BY <1>6, <2>1, {} \in SUBSET Methods, RightsTypes DEF Unset
  <2> QED
    BY <1>6, <2>2, <2>3 DEF Unset, TypeOK, local
<1>7. ASSUME NEW r \in Requests, Grant(r) PROVE TypeOK'
  <2>0. job[r].grant \in SUBSET Methods
    BY <1>7, JobFacts DEF Inv, JobInv, KindsOf, Grant, Calls
  <2>1. <<subject[r], Admin>> \in UserNames \X Resources
    BY <1>7 DEF Inv, SubjectInv, GivenNames, Grant, Calls, Resources
  <2>2. at' \in [Requests -> Places] /\ turn' \in Requests \cup {None}
    BY <1>7, GotoTypes DEF Grant, Add
  <2>3. DOMAIN rights' \subseteq UserNames \X Resources
        /\ rights' \in [DOMAIN rights' -> SUBSET Methods]
    BY <1>7, <2>0, <2>1, RightsTypes DEF Grant, Add
  <2> QED
    BY <1>7, <2>2, <2>3 DEF Grant, TypeOK, local
<1>8. ASSUME NEW r \in Requests, DropUser(r) PROVE TypeOK'
  <2>1. at' \in [Requests -> Places] /\ turn' \in Requests \cup {None}
    BY <1>8, GotoTypes DEF DropUser
  <2>2. DOMAIN logins' \subseteq DOMAIN logins /\ logins' \in [DOMAIN logins' -> Logins]
    BY <1>8 DEF DropUser, TypeOK
  <2> QED
    BY <1>8, <2>1, <2>2 DEF DropUser, TypeOK, local
<1>9. ASSUME NEW r \in Requests, Sweep(r) PROVE TypeOK'
  <2>1. at' \in [Requests -> Places] /\ turn' \in Requests \cup {None}
    BY <1>9, GotoTypes DEF Sweep
  <2> QED
    BY <1>9, <2>1 DEF Sweep, TypeOK, store, local
<1>10. ASSUME NEW r \in Requests, Settings(r) PROVE TypeOK'
  <2>1. at' \in [Requests -> Places] /\ turn' \in Requests \cup {None}
    BY <1>10, GotoTypes DEF Settings
  <2>2. UsersOf(job[r].group) \subseteq UserNames
    BY DEF UsersOf, TypeOK
  <2>3. job[r].list \in Seq(UserNames)
    <3>1. job[r] \in Jobs /\ job[r].kind = "allow"
      BY <1>10 DEF TypeOK, Inv, JobInv, KindsOf, Settings, Calls
    <3> QED
      BY <3>1, JobFacts
  <2>4. before' \in [Requests -> SUBSET UserNames] /\ todo' \in [Requests -> Seq(UserNames)]
    <3>1. /\ before' = [before EXCEPT ![r] = UsersOf(job[r].group)]
          /\ todo' = [todo EXCEPT ![r] = job[r].list]
      BY <1>10 DEF Settings
    <3>2. before \in [Requests -> SUBSET UserNames] /\ todo \in [Requests -> Seq(UserNames)]
      BY DEF TypeOK
    <3>3. before' \in [Requests -> SUBSET UserNames]
      BY <2>2, <3>1, <3>2
    <3>4. todo' \in [Requests -> Seq(UserNames)]
      BY <2>3, <3>1, <3>2
    <3> QED
      BY <3>3, <3>4
  <2>5. UNCHANGED <<store, subject, sql, job, mixed>>
    BY <1>10 DEF Settings
  <2> QED
    BY <2>1, <2>4, <2>5 DEF TypeOK, store
<1>11. ASSUME NEW r \in Requests, Check(r) PROVE TypeOK'
  <2>1. at' \in [Requests -> Places] /\ turn' \in Requests \cup {None}
    BY <1>11, GotoTypes DEF Check
  <2>2. todo[r] \in Seq(UserNames)
    BY DEF TypeOK
  <2>3. todo[r] # <<>> => Head(todo[r]) \in UserNames /\ Tail(todo[r]) \in Seq(UserNames)
    BY <2>2, RangeOfTail
  <2>4. /\ before' = before \/ before' = [before EXCEPT ![r] = @ \ {Head(todo[r])}]
        /\ \/ todo' = todo /\ subject' = subject
           \/ /\ todo[r] # <<>> /\ todo' = [todo EXCEPT ![r] = Tail(@)]
              /\ subject' = subject \/ subject' = [subject EXCEPT ![r] = Head(todo[r])]
        /\ UNCHANGED <<store, sql, job, mixed>>
    BY <1>11 DEF Check, Struck, local
  <2>5. before' \in [Requests -> SUBSET UserNames]
    <3>1. before \in [Requests -> SUBSET UserNames]
      BY DEF TypeOK
    <3>2. [before EXCEPT ![r] = @ \ {Head(todo[r])}] \in [Requests -> SUBSET UserNames]
      BY <3>1
    <3> QED
      BY <2>4, <3>1, <3>2
  <2>6. todo' \in [Requests -> Seq(UserNames)] /\ subject' \in [Requests -> UserNames \cup {None}]
    <3>1. todo \in [Requests -> Seq(UserNames)] /\ subject \in [Requests -> UserNames \cup {None}]
      BY DEF TypeOK
    <3>2. todo[r] # <<>> => /\ [todo EXCEPT ![r] = Tail(@)] \in [Requests -> Seq(UserNames)]
                            /\ [subject EXCEPT ![r] = Head(todo[r])]
                                   \in [Requests -> UserNames \cup {None}]
      BY <2>3, <3>1
    <3> QED
      BY <2>4, <3>1, <3>2
  <2> QED
    BY <2>1, <2>4, <2>5, <2>6 DEF TypeOK, store
<1>12. ASSUME NEW r \in Requests, Admit(r) PROVE TypeOK'
  <2>1. <<subject[r], job[r].group>> \in UserNames \X Resources
    <3>1. job[r].group \in GroupNames
      BY <1>12, JobFacts DEF Inv, JobInv, KindsOf, Admit, Calls
    <3> QED
      BY <1>12, <3>1 DEF Inv, SubjectInv, GivenNames, Admit, Calls, Resources
  <2>2. at' \in [Requests -> Places] /\ turn' \in Requests \cup {None}
    BY <1>12, GotoTypes DEF Admit, Add
  <2>3. DOMAIN rights' \subseteq UserNames \X Resources
        /\ rights' \in [DOMAIN rights' -> SUBSET Methods]
    BY <1>12, <2>1, RightsTypes DEF Admit, Add
  <2> QED
    BY <1>12, <2>2, <2>3 DEF Admit, TypeOK, local
<1>13. ASSUME NEW r \in Requests, Withdraw(r) PROVE TypeOK'
  <2>1. job[r].group \in Resources
    BY <1>13, JobFacts DEF Inv, JobInv, KindsOf, Withdraw, Calls, Resources
  <2>2. at' \in [Requests -> Places] /\ turn' \in Requests \cup {None}
    BY <1>13, GotoTypes DEF Withdraw
  <2>3. before' \in [Requests -> SUBSET UserNames]
    BY <1>13 DEF Withdraw, TypeOK
  <2>4. \/ UNCHANGED rights
        \/ \E u \in UserNames : Without(<<u, job[r].group>>)
    BY <1>13 DEF Withdraw, TypeOK
  <2>5. DOMAIN rights' \subseteq UserNames \X Resources
        /\ rights' \in [DOMAIN rights' -> SUBSET Methods]
    BY <2>1, <2>4, {} \in SUBSET Methods, RightsTypes DEF TypeOK
  <2> QED
    BY <1>13, <2>2, <2>3, <2>5 DEF Withdraw, TypeOK
<1>14. ASSUME NEW r \in Requests, Purge(r) PROVE TypeOK'
  <2>1. at' \in [Requests -> Places] /\ turn' \in Requests \cup {None}
    BY <1>14, GotoTypes DEF Purge
  <2>2. UsersOf(IdOf(job[r].group)) \subseteq UserNames
    BY DEF UsersOf, TypeOK
  <2> QED
    BY <1>14, <2>1, <2>2 DEF Purge, TypeOK, store
<1>15. ASSUME NEW r \in Requests, PurgeNext(r) PROVE TypeOK'
  <2>1. IdOf(job[r].group) \in Resources
    BY <1>15, JobFacts, NameFacts DEF Inv, JobInv, KindsOf, PurgeNext, Calls, Resources
  <2>2. at' \in [Requests -> Places] /\ turn' \in Requests \cup {None}
    BY <1>15, GotoTypes DEF PurgeNext
  <2>3. before' \in [Requests -> SUBSET UserNames]
    BY <1>15 DEF PurgeNext, TypeOK
  <2>4. \/ UNCHANGED rights
        \/ \E u \in UserNames : Without(<<u, IdOf(job[r].group)>>)
    BY <1>15 DEF PurgeNext, TypeOK
  <2>5. DOMAIN rights' \subseteq UserNames \X Resources
        /\ rights' \in [DOMAIN rights' -> SUBSET Methods]
    BY <2>1, <2>4, {} \in SUBSET Methods, RightsTypes DEF TypeOK
  <2> QED
    BY <1>15, <2>2, <2>3, <2>5 DEF PurgeNext, TypeOK
<1>16. ASSUME NEW r \in Requests, Cut(r) PROVE TypeOK'
  BY <1>16 DEF Cut, TypeOK, store, local
<1>17. CASE UNCHANGED vars
  BY <1>17 DEF vars, TypeOK
<1> QED
  BY <1>1, <1>2, <1>3, <1>4, <1>5, <1>6, <1>7, <1>8, <1>9, <1>10, <1>11, <1>12, <1>13,
     <1>14, <1>15, <1>16, <1>17, <1>18, <1>19 DEF Next, Progress

-----------------------------------------------------------------------------
(* The invariant, step by step.  First what is common to many calls: a handler goes *)
(* on to a call of its kind of job, *)
LEMMA JobKept ==
  ASSUME TypeOK, JobInv, NEW r \in Requests, NEW where \in Places, Goto(r, where),
         UNCHANGED job, at[r] # "idle", job[r].kind \in KindsOf(where)
  PROVE  JobInv'
BY DEF TypeOK, JobInv, Goto

(* to one that needs no subject, *)
LEMMA SubjectKept ==
  ASSUME TypeOK, SubjectInv, NEW r \in Requests, NEW where \in Places, Goto(r, where),
         where \notin {"save", "unset", "grant", "admit"},
         \A q \in Requests \ {r} : job'[q] = job[q] /\ subject'[q] = subject[q],
         GivenNames \subseteq GivenNames'
  PROVE  SubjectInv'
BY DEF TypeOK, SubjectInv, Goto

(* to one that works on no list, *)
LEMMA ListKept ==
  ASSUME TypeOK, ListInv, NEW r \in Requests, NEW where \in Places, Goto(r, where),
         where \notin {"check", "admit", "withdraw"},
         \A q \in Requests \ {r} :
             job'[q] = job[q] /\ todo'[q] = todo[q] /\ before'[q] = before[q]
  PROVE  ListInv'
BY DEF TypeOK, ListInv, Goto

(* and policies stay, or are withdrawn, or one is set for an id given out. *)
LEMMA RightsKept ==
  ASSUME TypeOK, RightsInv, GivenNames \subseteq GivenNames',
         NEW p, p[1] \in GivenNames,
         DOMAIN rights' \subseteq DOMAIN rights \cup {p}
  PROVE  RightsInv'
BY DEF TypeOK, RightsInv

(* An id that is given out stays so. *)
LEMMA IdsGrow ==
  ASSUME TypeOK, [Next]_vars
  PROVE  GivenNames \subseteq GivenNames' /\ 1 \in 1..lastId
<1>1. lastId \in Nat \ {0} /\ (lastId' = lastId \/ lastId' = lastId + 1)
  <2>1. lastId \in Nat \ {0}
    BY DEF TypeOK, Users
  <2>2. lastId' = lastId \/ lastId' = lastId + 1
    <3>1. ASSUME NEW r \in Requests, Progress(r) PROVE lastId' = lastId \/ lastId' = lastId + 1
      BY <3>1 DEF Progress, store, Permit, Enter, AddUser, LoadUser, SaveUser, Unset, Grant,
              DropUser, Sweep, Settings, Check, Admit, Withdraw, Purge, PurgeNext, NewId, Counted
    <3>2. ASSUME NEW r \in Requests, Cut(r) \/ \E j \in Jobs : Identify(r, j) \/ Authenticate(r, j)
          PROVE  UNCHANGED lastId
      BY <3>2 DEF store, Identify, Authenticate, Cut
    <3> QED
      BY <3>1, <3>2 DEF Next, vars, store
  <2> QED
    BY <2>1, <2>2
<1>2. 1..lastId \subseteq 1..lastId' /\ 1 \in 1..lastId
  BY <1>1
<1> QED
  BY <1>2 DEF GivenNames

(* Each call keeps the invariant. *)
LEMMA InvStep == ASSUME TypeOK, Inv, [Next]_vars PROVE Inv'
<1> USE DEF Places, Ended
<1>0. GivenNames \subseteq GivenNames' /\ 1 \in 1..lastId /\ lastId \in Users
  BY IdsGrow DEF TypeOK
<1>1. ASSUME NEW r \in Requests, NEW j \in Jobs, Identify(r, j) PROVE Inv'
  <2>1. PICK where \in {"permit", "refused"} : Goto(r, where)
    BY <1>1 DEF Identify
  <2>2. job' = [job EXCEPT ![r] = j]
    BY <1>1 DEF Identify
  <2>3. JobInv'
    <3>1. j.kind \in KindsOf(where)
      BY <1>1, <2>1, JobFacts DEF KindsOf, Identify
    <3> QED
      BY <2>1, <2>2, <3>1 DEF Inv, JobInv, Goto, TypeOK
  <2>4. UNCHANGED <<lastId, rights, subject, todo, before>>
    BY <1>1 DEF Identify, store, local
  <2>5. SubjectInv'
    BY <1>0, <2>1, <2>2, <2>4, SubjectKept DEF Inv, TypeOK
  <2>6. ListInv'
    BY <2>1, <2>2, <2>4, ListKept DEF Inv, TypeOK
  <2>7. RightsInv'
    BY <2>4 DEF Inv, RightsInv, GivenNames
  <2> QED
    BY <2>3, <2>5, <2>6, <2>7 DEF Inv
<1>18. ASSUME NEW r \in Requests, NEW j \in Jobs, Authenticate(r, j) PROVE Inv'
  <2>1. PICK where \in {"enter", "failed"} : Goto(r, where)
    BY <1>18 DEF Authenticate
  <2>2. job' = [job EXCEPT ![r] = j] /\ j.kind = "use"
    BY <1>18 DEF Authenticate
  <2>3. JobInv'
    <3>1. j.kind \in KindsOf(where)
      BY <2>1, <2>2 DEF KindsOf
    <3> QED
      BY <2>1, <2>2, <3>1 DEF Inv, JobInv, Goto, TypeOK
  <2>4. UNCHANGED <<lastId, rights, todo, before>>
    BY <1>18 DEF Authenticate, store
  <2>5. SubjectInv'
    <3>1. \A q \in Requests \ {r} :
             at'[q] = at[q] /\ job'[q] = job[q] /\ subject'[q] = subject[q]
      BY <1>18, <2>1, <2>2 DEF Authenticate, Goto, TypeOK
    <3>2. at'[r] = where
      BY <2>1 DEF Goto, TypeOK
    <3> QED
      BY <2>1, <2>4, <3>1, <3>2 DEF Inv, SubjectInv, GivenNames
  <2>6. ListInv'
    BY <2>1, <2>2, <2>4, ListKept DEF Inv, TypeOK
  <2>7. RightsInv'
    BY <2>4 DEF Inv, RightsInv, GivenNames
  <2> QED
    BY <2>3, <2>5, <2>6, <2>7 DEF Inv
<1>19. ASSUME NEW r \in Requests, Enter(r) PROVE Inv'
  <2>1. at[r] = "enter" /\ UNCHANGED <<job, lastId, rights, subject, todo, before>>
    BY <1>19 DEF Enter, Calls, store, local
  <2>2. PICK where \in {"ok", "refused"} : Goto(r, where)
    BY <1>19 DEF Enter
  <2>3. job[r].kind \in KindsOf(where)
    BY <2>1, <2>2 DEF Inv, JobInv, KindsOf
  <2>4. JobInv'
    BY <2>1, <2>2, <2>3, JobKept DEF Inv
  <2>5. SubjectInv' /\ ListInv'
    BY <1>0, <2>1, <2>2, SubjectKept, ListKept DEF Inv
  <2> QED
    BY <2>1, <2>4, <2>5 DEF Inv, RightsInv, GivenNames
<1>2. ASSUME NEW r \in Requests, Permit(r) PROVE Inv'
  <2>1. at[r] = "permit" /\ UNCHANGED <<job, lastId, rights, subject, todo, before>>
    BY <1>2 DEF Permit, Calls, store, local
  <2>2. job[r].kind \in {"create", "change", "delete", "allow", "remove"}
    BY <2>1 DEF Inv, JobInv, KindsOf
  <2>3. PICK where \in {FirstCall(job[r]), "refused"} : Goto(r, where)
    BY <1>2 DEF Permit
  <2>4. /\ where \in Places \ {"save", "unset", "grant", "admit", "check", "withdraw"}
        /\ job[r].kind \in KindsOf(where)
    BY <2>2, <2>3 DEF FirstCall, KindsOf
  <2>5. JobInv'
    BY <2>1, <2>3, <2>4, JobKept DEF Inv
  <2>6. SubjectInv' /\ ListInv'
    BY <1>0, <2>1, <2>3, <2>4, SubjectKept, ListKept DEF Inv
  <2> QED
    BY <2>1, <2>5, <2>6 DEF Inv, RightsInv, GivenNames
<1>3. ASSUME NEW r \in Requests, AddUser(r) PROVE Inv'
  <2>1. at[r] = "add" /\ UNCHANGED <<job, rights, todo, before>>
    BY <1>3 DEF AddUser, Calls, store
  <2>2. job[r].kind = "create"
    BY <2>1 DEF Inv, JobInv, KindsOf
  <2>3. PICK where \in {"ok", "failed", "refused", "grant"} : Goto(r, where)
    BY <1>3 DEF AddUser, GrantNext
  <2>4. JobInv'
    BY <2>1, <2>2, <2>3, JobKept DEF Inv, KindsOf
  <2>5. ListInv'
    BY <2>1, <2>3, ListKept DEF Inv
  <2>6. SubjectInv'
    <3>1. CASE UNCHANGED <<store, subject>> /\ where # "grant"
      BY <1>0, <2>1, <2>3, <3>1, SubjectKept DEF Inv, store
    <3>2. CASE lastId' = NewId /\ subject' = [subject EXCEPT ![r] = NewId]
      <4>1. NewId \in GivenNames'
        BY <1>0, <3>2, NameFacts DEF NewId, Users, GivenNames
      <4> QED
        BY <1>0, <2>1, <2>2, <2>3, <3>2, <4>1 DEF Inv, SubjectInv, GivenNames, Goto, TypeOK
    <3>3. where = "grant" => lastId' = NewId /\ subject' = [subject EXCEPT ![r] = NewId]
      BY <1>3, <2>3 DEF AddUser, GrantNext, Goto, Counted, TypeOK
    <3> QED
      BY <1>3, <3>1, <3>2, <3>3 DEF AddUser, Counted
  <2>7. RightsInv'
    BY <1>0, <2>1 DEF Inv, RightsInv, GivenNames
  <2> QED
    BY <2>4, <2>5, <2>6, <2>7 DEF Inv
<1>4. ASSUME NEW r \in Requests, LoadUser(r) PROVE Inv'
  <2>1. at[r] = "load" /\ UNCHANGED <<job, lastId, rights, subject, todo, before>>
    BY <1>4 DEF LoadUser, Calls, local
  <2>2. job[r].kind = "change"
    BY <2>1 DEF Inv, JobInv, KindsOf
  <2>3. PICK where \in {"failed", "save"} :
          Goto(r, where) /\ (where = "save" => IdOf(job[r].user) \in DOMAIN logins)
    BY <1>4 DEF LoadUser
  <2>4. JobInv' /\ ListInv'
    BY <2>1, <2>2, <2>3, JobKept, ListKept DEF Inv, KindsOf
  <2>5. where = "save" => job[r].user \in GivenNames
    <3>1. job[r].user \in UserNames
      BY <2>1, <2>2, JobFacts DEF Inv, JobInv
    <3> QED
      BY <2>3, <3>1 DEF GivenNames, TypeOK
  <2>6. SubjectInv'
    BY <2>1, <2>3, <2>5 DEF Inv, SubjectInv, GivenNames, Goto, TypeOK
  <2> QED
    BY <2>1, <2>4, <2>6 DEF Inv, RightsInv, GivenNames
<1>5. ASSUME NEW r \in Requests, SaveUser(r) PROVE Inv'
  <2>1. at[r] = "save" /\ UNCHANGED <<job, lastId, rights, todo, before>>
    BY <1>5 DEF SaveUser, Calls
  <2>2. job[r].kind = "change" /\ job[r].user \in GivenNames
    BY <2>1 DEF Inv, JobInv, SubjectInv, KindsOf
  <2>3. PICK where \in {"failed", "unset"} : Goto(r, where)
    BY <1>5 DEF SaveUser
  <2>4. JobInv' /\ ListInv'
    BY <2>1, <2>2, <2>3, JobKept, ListKept DEF Inv, KindsOf
  <2>5. SubjectInv'
    <3>1. subject' = [subject EXCEPT ![r] = job[r].user]
      BY <1>5 DEF SaveUser
    <3> QED
      BY <2>1, <2>2, <2>3, <3>1 DEF Inv, SubjectInv, GivenNames, Goto, TypeOK
  <2> QED
    BY <2>1, <2>4, <2>5 DEF Inv, RightsInv, GivenNames
<1>6. ASSUME NEW r \in Requests, Unset(r) PROVE Inv'
  <2>1. at[r] = "unset" /\ UNCHANGED <<job, lastId, subject, todo, before>>
    BY <1>6 DEF Unset, Calls, local
  <2>2. job[r].kind = "change"
    BY <2>1 DEF Inv, JobInv, KindsOf
  <2>3. PICK where \in {"failed", "ok", "grant"} : Goto(r, where)
    BY <1>6 DEF Unset, GrantNext
  <2>4. JobInv' /\ ListInv'
    BY <2>1, <2>2, <2>3, JobKept, ListKept DEF Inv, KindsOf
  <2>5. SubjectInv'
    BY <2>1, <2>2, <2>3 DEF Inv, SubjectInv, GivenNames, Goto, TypeOK
  <2>6. DOMAIN rights' \subseteq DOMAIN rights
    BY <1>6 DEF Unset, Without
  <2> QED
    BY <2>1, <2>4, <2>5, <2>6 DEF Inv, RightsInv, GivenNames
<1>7. ASSUME NEW r \in Requests, Grant(r) PROVE Inv'
  <2>1. at[r] = "grant" /\ UNCHANGED <<job, lastId, subject, todo, before>>
    BY <1>7 DEF Grant, Calls, local
  <2>2. job[r].kind \in {"create", "change"} /\ subject[r] \in GivenNames
    BY <2>1 DEF Inv, JobInv, SubjectInv, KindsOf
  <2>3. PICK where \in {"failed", "ok"} : Goto(r, where)
    BY <1>7 DEF Grant, Add
  <2>4. JobInv' /\ ListInv'
    BY <2>1, <2>2, <2>3, JobKept, ListKept DEF Inv, KindsOf
  <2>5. SubjectInv'
    BY <1>0, <2>1, <2>3, SubjectKept DEF Inv
  <2>6. DOMAIN rights' \subseteq DOMAIN rights \cup {<<subject[r], Admin>>}
    BY <1>7 DEF Grant, Add
  <2>7. RightsInv'
    BY <1>0, <2>2, <2>6, RightsKept, <<subject[r], Admin>>[1] = subject[r] DEF Inv
  <2> QED
    BY <2>4, <2>5, <2>7 DEF Inv
<1>8. ASSUME NEW r \in Requests, DropUser(r) PROVE Inv'
  <2>1. at[r] = "drop" /\ UNCHANGED <<job, lastId, rights, subject, todo, before>>
    BY <1>8 DEF DropUser, Calls, local
  <2>2. job[r].kind = "delete"
    BY <2>1 DEF Inv, JobInv, KindsOf
  <2>3. PICK where \in {"refused", "sweep"} : Goto(r, where)
    BY <1>8 DEF DropUser
  <2>4. JobInv' /\ ListInv' /\ SubjectInv'
    BY <1>0, <2>1, <2>2, <2>3, JobKept, ListKept, SubjectKept DEF Inv, KindsOf
  <2> QED
    BY <2>1, <2>4 DEF Inv, RightsInv, GivenNames
<1>9. ASSUME NEW r \in Requests, Sweep(r) PROVE Inv'
  <2>1. at[r] = "sweep" /\ UNCHANGED <<job, lastId, rights, subject, todo, before>>
    BY <1>9 DEF Sweep, Calls, store, local
  <2>2. job[r].kind = "delete"
    BY <2>1 DEF Inv, JobInv, KindsOf
  <2>3. PICK where \in {"ok", "failed"} : Goto(r, where)
    BY <1>9 DEF Sweep
  <2>4. JobInv' /\ ListInv' /\ SubjectInv'
    BY <1>0, <2>1, <2>2, <2>3, JobKept, ListKept, SubjectKept DEF Inv, KindsOf
  <2> QED
    BY <2>1, <2>4 DEF Inv, RightsInv, GivenNames
<1>10. ASSUME NEW r \in Requests, Settings(r) PROVE Inv'
  <2>1. at[r] = "settings" /\ Goto(r, "check") /\ UNCHANGED <<job, lastId, rights, subject>>
    BY <1>10 DEF Settings, Calls, store
  <2>2. job[r].kind = "allow"
    BY <2>1 DEF Inv, JobInv, KindsOf
  <2>3. JobInv' /\ SubjectInv'
    BY <1>0, <2>1, <2>2, JobKept, SubjectKept DEF Inv, KindsOf
  <2>4. ListInv'
    <3>1. todo' = [todo EXCEPT ![r] = job[r].list]
          /\ before' = [before EXCEPT ![r] = UsersOf(job[r].group)]
      BY <1>10 DEF Settings
    <3> QED
      BY <2>1, <3>1 DEF Inv, ListInv, Goto, TypeOK
  <2> QED
    BY <2>1, <2>3, <2>4 DEF Inv, RightsInv, GivenNames
<1>11. ASSUME NEW r \in Requests, Check(r) PROVE Inv'
  <2> DEFINE u == Head(todo[r])
  <2>1. at[r] = "check" /\ UNCHANGED <<job, lastId, rights>>
    BY <1>11 DEF Check, Calls, store
  <2>2. job[r].kind = "allow" /\ todo[r] \in Seq(UserNames)
    BY <2>1 DEF Inv, JobInv, KindsOf, TypeOK
  <2>3. /\ Range(todo[r]) \subseteq Range(job[r].list)
        /\ before[r] \cap Range(job[r].list) \subseteq Range(todo[r])
    BY <2>1 DEF Inv, ListInv
  <2>4. CASE todo[r] = <<>> /\ Goto(r, "withdraw") /\ UNCHANGED local
    <3>1. Range(todo[r]) = {}
      BY <2>4 DEF Range
    <3>2. JobInv' /\ SubjectInv'
      BY <1>0, <2>1, <2>2, <2>4, JobKept, SubjectKept DEF Inv, KindsOf, local
    <3>3. ListInv'
      BY <2>1, <2>3, <2>4, <3>1 DEF Inv, ListInv, Goto, TypeOK, local
    <3> QED
      BY <2>1, <3>2, <3>3 DEF Inv, RightsInv, GivenNames
  <2>5. CASE /\ todo[r] # <<>> /\ u \in before[r]
             /\ before' = Struck(r, u)
             /\ todo' = [todo EXCEPT ![r] = Tail(@)]
             /\ Goto(r, "check")
             /\ UNCHANGED subject
    <3>1. /\ Range(Tail(todo[r])) \subseteq Range(todo[r])
          /\ Range(todo[r]) \subseteq {u} \cup Range(Tail(todo[r]))
      BY <2>2, <2>5, RangeOfTail
    <3>2. JobInv' /\ SubjectInv'
      BY <1>0, <2>1, <2>2, <2>5, JobKept, SubjectKept DEF Inv, KindsOf
    <3>3. /\ Range(todo'[r]) \subseteq Range(job[r].list)
          /\ before'[r] \cap Range(job[r].list) \subseteq Range(todo'[r])
      BY <2>3, <2>5, <3>1 DEF Struck, TypeOK
    <3>4. ListInv'
      BY <2>1, <2>5, <3>3 DEF Inv, ListInv, Goto, TypeOK, Struck
    <3> QED
      BY <2>1, <3>2, <3>4 DEF Inv, RightsInv, GivenNames
  <2>6. CASE /\ todo[r] # <<>> /\ u \notin before[r]
             /\ subject' = [subject EXCEPT ![r] = u]
             /\ todo' = [todo EXCEPT ![r] = Tail(@)]
             /\ Goto(r, IF IdOf(u) \in DOMAIN logins THEN "admit" ELSE "failed")
             /\ UNCHANGED before
    <3>1. /\ Range(Tail(todo[r])) \subseteq Range(todo[r]) /\ u \in Range(todo[r])
          /\ Range(todo[r]) \subseteq {u} \cup Range(Tail(todo[r]))
      BY <2>2, <2>6, RangeOfTail
    <3>2. PICK where \in {"admit", "failed"} :
            Goto(r, where) /\ (where = "admit" => IdOf(u) \in DOMAIN logins)
      BY <2>6
    <3>3. JobInv'
      BY <2>1, <2>2, <3>2, JobKept DEF Inv, KindsOf
    <3>7. where = "admit" => u \in GivenNames
      <4>1. u \in UserNames
        BY <2>2, <2>6, RangeOfTail
      <4> QED
        BY <3>2, <4>1 DEF GivenNames, TypeOK
    <3>4. SubjectInv'
      BY <2>1, <2>3, <2>6, <3>1, <3>2, <3>7 DEF Inv, SubjectInv, GivenNames, Goto, TypeOK
    <3>5. /\ Range(todo'[r]) \subseteq Range(job[r].list)
          /\ before'[r] \cap Range(job[r].list) \subseteq Range(todo'[r])
      BY <2>3, <2>6, <3>1 DEF TypeOK
    <3>6. ListInv'
      BY <2>1, <2>6, <3>2, <3>5 DEF Inv, ListInv, Goto, TypeOK
    <3> QED
      BY <2>1, <3>3, <3>4, <3>6 DEF Inv, RightsInv, GivenNames
  <2> QED
    BY <1>11, <2>4, <2>5, <2>6 DEF Check
<1>12. ASSUME NEW r \in Requests, Admit(r) PROVE Inv'
  <2>1. at[r] = "admit" /\ UNCHANGED <<job, lastId, subject, todo, before>>
    BY <1>12 DEF Admit, Calls, local
  <2>2. job[r].kind = "allow" /\ subject[r] \in GivenNames
    BY <2>1 DEF Inv, JobInv, SubjectInv, KindsOf
  <2>3. PICK where \in {"failed", "check"} : Goto(r, where)
    BY <1>12 DEF Admit, Add
  <2>4. JobInv' /\ SubjectInv'
    BY <1>0, <2>1, <2>2, <2>3, JobKept, SubjectKept DEF Inv, KindsOf
  <2>5. ListInv'
    BY <2>1, <2>3 DEF Inv, ListInv, Goto, TypeOK
  <2>6. DOMAIN rights' \subseteq DOMAIN rights \cup {<<subject[r], job[r].group>>}
    BY <1>12 DEF Admit, Add
  <2>7. RightsInv'
    BY <1>0, <2>2, <2>6, RightsKept, <<subject[r], job[r].group>>[1] = subject[r] DEF Inv
  <2> QED
    BY <2>4, <2>5, <2>7 DEF Inv
<1>13. ASSUME NEW r \in Requests, Withdraw(r) PROVE Inv'
  <2>1. at[r] = "withdraw" /\ UNCHANGED <<job, lastId, subject, todo>>
    BY <1>13 DEF Withdraw, Calls
  <2>2. job[r].kind = "allow"
    BY <2>1 DEF Inv, JobInv, KindsOf
  <2>3. PICK where \in {"ok", "failed", "withdraw"} : Goto(r, where)
    BY <1>13 DEF Withdraw
  <2>4. JobInv' /\ SubjectInv'
    BY <1>0, <2>1, <2>2, <2>3, JobKept, SubjectKept DEF Inv, KindsOf
  <2>5. ListInv'
    <3>1. (\A q \in Requests \ {r} : before'[q] = before[q]) /\ before'[r] \subseteq before[r]
      BY <1>13 DEF Withdraw, TypeOK
    <3> QED
      BY <2>1, <2>3, <3>1 DEF Inv, ListInv, Goto, TypeOK
  <2>6. DOMAIN rights' \subseteq DOMAIN rights
    BY <1>13 DEF Withdraw, Without
  <2> QED
    BY <2>1, <2>4, <2>5, <2>6 DEF Inv, RightsInv, GivenNames
<1>14. ASSUME NEW r \in Requests, Purge(r) PROVE Inv'
  <2>1. /\ at[r] = "purge" /\ Goto(r, "purging")
        /\ UNCHANGED <<job, lastId, rights, subject, todo>>
    BY <1>14 DEF Purge, Calls, store
  <2>2. job[r].kind = "remove"
    BY <2>1 DEF Inv, JobInv, KindsOf
  <2>3. \A q \in Requests \ {r} : before'[q] = before[q]
    BY <1>14 DEF Purge, TypeOK
  <2>4. JobInv' /\ SubjectInv' /\ ListInv'
    BY <1>0, <2>1, <2>2, <2>3, JobKept, SubjectKept, ListKept DEF Inv, KindsOf
  <2> QED
    BY <2>1, <2>4 DEF Inv, RightsInv, GivenNames
<1>15. ASSUME NEW r \in Requests, PurgeNext(r) PROVE Inv'
  <2>1. at[r] = "purging" /\ UNCHANGED <<job, lastId, subject, todo>>
    BY <1>15 DEF PurgeNext, Calls
  <2>2. job[r].kind = "remove"
    BY <2>1 DEF Inv, JobInv, KindsOf
  <2>3. PICK where \in {"ok", "failed", "purging"} : Goto(r, where)
    BY <1>15 DEF PurgeNext
  <2>4. \A q \in Requests \ {r} : before'[q] = before[q]
    BY <1>15 DEF PurgeNext, TypeOK
  <2>5. JobInv' /\ SubjectInv' /\ ListInv'
    BY <1>0, <2>1, <2>2, <2>3, <2>4, JobKept, SubjectKept, ListKept DEF Inv, KindsOf
  <2>6. DOMAIN rights' \subseteq DOMAIN rights
    BY <1>15 DEF PurgeNext, Without
  <2> QED
    BY <2>1, <2>5, <2>6 DEF Inv, RightsInv, GivenNames
<1>16. ASSUME NEW r \in Requests, Cut(r) PROVE Inv'
  <2>1. at' = [at EXCEPT ![r] = "failed"] /\ at[r] # "idle"
    BY <1>16 DEF Cut, Active
  <2>2. job[r].kind \in KindsOf("failed")
    BY <2>1, JobFacts DEF Inv, JobInv, KindsOf
  <2>3. UNCHANGED <<job, lastId, rights, subject, todo, before>>
    BY <1>16 DEF Cut, store, local
  <2>4. JobInv'
    BY <2>1, <2>2, <2>3 DEF Inv, JobInv, TypeOK
  <2>5. SubjectInv' /\ ListInv'
    BY <2>1, <2>3 DEF Inv, SubjectInv, GivenNames, ListInv, TypeOK
  <2> QED
    BY <2>3, <2>4, <2>5 DEF Inv, RightsInv, GivenNames
<1>17. CASE UNCHANGED vars
  BY <1>17 DEF vars, Inv, JobInv, SubjectInv, ListInv, RightsInv, GivenNames
<1> QED
  BY <1>1, <1>2, <1>3, <1>4, <1>5, <1>6, <1>7, <1>8, <1>9, <1>10, <1>11, <1>12, <1>13,
     <1>14, <1>15, <1>16, <1>17, <1>18, <1>19 DEF Next, Progress

-----------------------------------------------------------------------------
(* What holds in every run *)

(* The state is well formed, and the invariant holds. *)
LEMMA Always == Spec => [](TypeOK /\ Inv)
<1>1. Init => TypeOK /\ Inv
  BY TypeInit
<1>2. TypeOK /\ Inv /\ [Next]_vars => (TypeOK /\ Inv)'
  BY TypeStep, InvStep
<1> QED
  BY <1>1, <1>2, PTL DEF Spec

(* Users, policies and requests are well formed in every reachable state. *)
THEOREM TypeCorrect == Spec => []TypeOK
BY Always, PTL

(* A user who is new has an id above all that were given out, and policies are for *)
(* those only: whatever is left of deleted users, nobody inherits it. *)
THEOREM NoInheritance == Spec => NobodyInherits
<1> DEFINE New == \A u \in DOMAIN logins' \ DOMAIN logins : \A p \in DOMAIN rights' : IdOf(p[1]) # u
<1>1. TypeOK /\ Inv /\ [Next]_vars => [New]_vars
  <2> SUFFICES ASSUME TypeOK, Inv, [Next]_vars, NEW u \in DOMAIN logins' \ DOMAIN logins,
                      NEW p \in DOMAIN rights'
               PROVE  IdOf(p[1]) # u
    OBVIOUS
  <2>1. PICK r \in Requests : AddUser(r)
    BY DEF Next, Progress, vars, store, local, Identify, Authenticate, Permit, Enter, Renamed,
       LoadUser, SaveUser, Unset,
       Grant, DropUser, Sweep, Settings, Check, Admit, Withdraw, Purge, PurgeNext, Cut
  <2>2. u = NewId /\ UNCHANGED rights
    BY <2>1 DEF AddUser, store
  <2>3. IdOf(p[1]) \in 1..lastId /\ lastId \in Nat
    BY <2>2 DEF Inv, RightsInv, GivenNames, TypeOK, Users
  <2> QED
    BY <2>2, <2>3 DEF NewId
<1> QED
  BY <1>1, Always, PTL DEF Spec, NobodyInherits

(* No policy is set or withdrawn but as a request under way asks for it, whatever *)
(* requests meet and wherever they stop. *)
THEOREM NoOtherRights == Spec => RightsAsAsked
<1> DEFINE SetOnes == \A p \in DOMAIN rights' :
             \/ p \in DOMAIN rights /\ rights'[p] = rights[p]
             \/ \E r \in Requests : Active(r) /\ SetAsAsked(job[r], p, rights'[p])
           WithdrawnOnes == \A p \in DOMAIN rights \ DOMAIN rights' :
             \E r \in Requests : Active(r) /\ WithdrawnAsAsked(job[r], p)
<1>1. TypeOK /\ Inv /\ [Next]_vars => [SetOnes /\ WithdrawnOnes]_vars
  <2> SUFFICES ASSUME TypeOK, Inv, [Next]_vars PROVE SetOnes /\ WithdrawnOnes
    OBVIOUS
  <2>1. ASSUME NEW r \in Requests, Unset(r) PROVE SetOnes /\ WithdrawnOnes
    <3>1. Active(r) /\ job[r].kind = "change" /\ subject[r] = job[r].user
      BY <2>1 DEF Unset, Calls, Inv, JobInv, SubjectInv, KindsOf, Active, Ended
    <3>2. Without(<<job[r].user, Admin>>)
      BY <2>1, <3>1 DEF Unset
    <3> QED
      BY <3>1, <3>2 DEF Without, WithdrawnAsAsked
  <2>2. ASSUME NEW r \in Requests, Grant(r) PROVE SetOnes /\ WithdrawnOnes
    <3>1. /\ Active(r) /\ job[r].kind \in {"create", "change"}
          /\ job[r].kind = "change" => subject[r] = job[r].user
      BY <2>2 DEF Grant, Calls, Inv, JobInv, SubjectInv, KindsOf, Active, Ended
    <3>2. CASE UNCHANGED rights
      BY <3>2
    <3>3. CASE rights' = [q \in DOMAIN rights \cup {<<subject[r], Admin>>} |->
                            IF q = <<subject[r], Admin>> THEN job[r].grant ELSE rights[q]]
      <4>1. SetAsAsked(job[r], <<subject[r], Admin>>, job[r].grant)
        BY <3>1 DEF SetAsAsked
      <4> QED
        BY <3>1, <3>3, <4>1
    <3> QED
      BY <2>2, <3>2, <3>3 DEF Grant, Add
  <2>3. ASSUME NEW r \in Requests, Admit(r) PROVE SetOnes /\ WithdrawnOnes
    <3>1. Active(r) /\ job[r].kind = "allow" /\ subject[r] \in Range(job[r].list)
      BY <2>3 DEF Admit, Calls, Inv, JobInv, SubjectInv, KindsOf, Active, Ended
    <3>2. CASE UNCHANGED rights
      BY <3>2
    <3>3. CASE rights' = [q \in DOMAIN rights \cup {<<subject[r], job[r].group>>} |->
                            IF q = <<subject[r], job[r].group>> THEN Methods ELSE rights[q]]
      <4>1. SetAsAsked(job[r], <<subject[r], job[r].group>>, Methods)
        BY <3>1 DEF SetAsAsked
      <4> QED
        BY <3>1, <3>3, <4>1
    <3> QED
      BY <2>3, <3>2, <3>3 DEF Admit, Add
  <2>4. ASSUME NEW r \in Requests, Withdraw(r) PROVE SetOnes /\ WithdrawnOnes
    <3>1. /\ Active(r) /\ job[r].kind = "allow"
          /\ before[r] \cap Range(job[r].list) = {}
      BY <2>4 DEF Withdraw, Calls, Inv, JobInv, ListInv, KindsOf, Active, Ended
    <3>2. CASE UNCHANGED rights
      BY <3>2
    <3>3. ASSUME NEW u \in before[r], Without(<<u, job[r].group>>)
          PROVE  SetOnes /\ WithdrawnOnes
      BY <3>1, <3>3 DEF Without, WithdrawnAsAsked
    <3> QED
      BY <2>4, <3>2, <3>3 DEF Withdraw
  <2>5. ASSUME NEW r \in Requests, PurgeNext(r) PROVE SetOnes /\ WithdrawnOnes
    <3>1. Active(r) /\ job[r].kind = "remove"
      BY <2>5 DEF PurgeNext, Calls, Inv, JobInv, KindsOf, Active, Ended
    <3>2. CASE UNCHANGED rights
      BY <3>2
    <3>3. ASSUME NEW u \in before[r], Without(<<u, IdOf(job[r].group)>>)
          PROVE  SetOnes /\ WithdrawnOnes
      BY <3>1, <3>3 DEF Without, WithdrawnAsAsked
    <3> QED
      BY <2>5, <3>2, <3>3 DEF PurgeNext
  <2>6. CASE UNCHANGED rights
    BY <2>6
  <2> QED
    BY <2>1, <2>2, <2>3, <2>4, <2>5, <2>6
       DEF Next, Progress, vars, store, Identify, Authenticate, Permit, Enter,
       AddUser, LoadUser, SaveUser, DropUser, Sweep, Settings, Check, Purge, Cut
<1> QED
  BY <1>1, Always, PTL DEF Spec, RightsAsAsked

-----------------------------------------------------------------------------
(* Success means done *)

(* What a handler that met no other request has done so far, at the call it makes next. *)
SoFar(r) ==
    LET j == job[r]
        listed == Range(j.list)
        using == UsersOf(j.group)
        user == IdOf(j.user)
    IN
    /\ at[r] = "enter" \/ (at[r] = "grant" /\ j.kind = "create") =>
           subject[r] \in DOMAIN logins /\ logins[subject[r]] = j.login
    /\ at[r] = "save" => user \in DOMAIN logins /\ (~sql => logins[user] = j.login)
    /\ at[r] = "unset" \/ (at[r] = "grant" /\ j.kind = "change") =>
           user \in DOMAIN logins /\ logins[user] = j.login
    /\ at[r] = "sweep" => user \notin DOMAIN logins
    /\ at[r] \in {"check", "admit"} => before[r] \subseteq using
    /\ at[r] \in {"check", "admit", "withdraw"} => using \subseteq listed \cup before[r]
    /\ at[r] = "check" => listed \subseteq using \cup Range(todo[r])
    /\ at[r] = "admit" => listed \subseteq using \cup Range(todo[r]) \cup {subject[r]}
    /\ at[r] = "withdraw" => listed \subseteq using
    /\ at[r] = "purging" => UsersOf(IdOf(j.group)) \subseteq before[r]

(* One that has met no other is the only one under way. *)
AloneInv ==
    \A r \in Requests : Active(r) /\ r \notin mixed =>
        SoFar(r) /\ \A q \in Requests : Active(q) => q = r

(* A policy that is set or withdrawn changes who has access to its resource, and nothing *)
(* else does. *)
LEMMA UsersWith ==
  ASSUME TypeOK, NEW u \in UserNames, NEW res \in Resources, NEW methods,
         rights' = [q \in DOMAIN rights \cup {<<u, res>>} |->
                       IF q = <<u, res>> THEN methods ELSE rights[q]]
  PROVE  UsersOf(res)' = UsersOf(res) \cup {u} /\ Allowed(u, res)' = methods
<1>1. DOMAIN rights' = DOMAIN rights \cup {<<u, res>>} /\ rights'[<<u, res>>] = methods
  OBVIOUS
<1>2. UsersOf(res)' = UsersOf(res) \cup {u}
  BY <1>1 DEF UsersOf
<1> QED
  BY <1>1, <1>2 DEF Allowed

LEMMA UsersWithout ==
  ASSUME TypeOK, NEW u \in UserNames, NEW res \in Resources, Without(<<u, res>>)
  PROVE  UsersOf(res)' = UsersOf(res) \ {u} /\ Allowed(u, res)' = {}
<1>1. DOMAIN rights' = DOMAIN rights \ {<<u, res>>}
  BY DEF Without
<1>2. \A p \in DOMAIN rights : p = <<p[1], p[2]>>
  BY DEF TypeOK
<1>3. UsersOf(res)' = UsersOf(res) \ {u}
  BY <1>1, <1>2 DEF UsersOf
<1> QED
  BY <1>1, <1>3 DEF Allowed

(* Each call adds to it, and the last one makes it all that was asked. *)
LEMMA ProgressDoes ==
  ASSUME TypeOK, Inv, NEW r \in Requests, SoFar(r), Progress(r)
  PROVE  (Active(r)' => SoFar(r)') /\ (at'[r] = "ok" => Done(job[r])')
<1> DEFINE Goal == (Active(r)' => SoFar(r)') /\ (at'[r] = "ok" => Done(job[r])')
<1> DEFINE j == job[r]
<1>0. /\ \A where : Goto(r, where) => at'[r] = where
      /\ job[r].kind \in KindsOf(at[r]) \/ at[r] = "idle"
  BY DEF Goto, TypeOK, Inv, JobInv
<1>1. ASSUME at'[r] \in {"failed", "refused", "add", "load", "drop", "settings", "purge"} PROVE Goal
  BY <1>1 DEF Active, Ended, SoFar
<1>2. CASE Permit(r)
  <2>1. PICK where \in {"refused", "add", "load", "drop", "settings", "purge"} : Goto(r, where)
    <3>1. at[r] = "permit" /\ job[r].kind \in {"create", "change", "delete", "allow", "remove"}
      BY <1>0, <1>2 DEF Permit, Calls, KindsOf
    <3> QED
      BY <1>2, <3>1 DEF Permit, FirstCall
  <2> QED
    BY <1>0, <1>1, <2>1
<1>3. CASE Enter(r)
  <2>1. /\ at[r] = "enter" /\ job[r].kind = "use" /\ UNCHANGED <<logins, rights, job>>
        /\ subject[r] \in DOMAIN logins /\ logins[subject[r]] = job[r].login
    BY <1>0, <1>3 DEF Enter, Calls, KindsOf, SoFar, store
  <2>2. CASE Goto(r, "refused")
    BY <1>0, <1>1, <2>2
  <2>3. CASE Goto(r, "ok") /\ "post" \in Allowed(subject[r], job[r].group)
    BY <1>0, <2>1, <2>3 DEF Done, Allowed, Active, Ended
  <2> QED
    BY <1>3, <2>1, <2>2, <2>3 DEF Enter, MethodOf
<1>4. CASE AddUser(r)
  <2>1. at[r] = "add" /\ job[r].kind = "create" /\ UNCHANGED job
    BY <1>0, <1>4 DEF AddUser, Calls, KindsOf
  <2>2. CASE Goto(r, "failed") \/ Goto(r, "refused")
    BY <1>0, <1>1, <2>2
  <2>3. CASE /\ logins' = [u \in DOMAIN logins \cup {NewId} |->
                              IF u = NewId THEN job[r].login ELSE logins[u]]
             /\ subject' = [subject EXCEPT ![r] = NewId] /\ GrantNext(r) /\ UNCHANGED rights
    <3>1. PICK u : u = NewId
      OBVIOUS
    <3>2. u \in DOMAIN logins' /\ logins'[u] = job[r].login /\ subject'[r] = u
      BY <2>3, <3>1 DEF TypeOK
    <3>3. Allowed(u, Admin)' = {}
      <4>1. IdOf(NewId) = NewId /\ lastId \in Nat /\ NewId = lastId + 1
        <5>1. NewId \in Users /\ lastId \in Nat
          BY DEF NewId, TypeOK, Users
        <5> QED
          BY <5>1, NameFacts DEF NewId
      <4>2. NewId \notin GivenNames
        BY <4>1 DEF GivenNames
      <4> QED
        BY <2>3, <3>1, <4>2 DEF Inv, RightsInv, Allowed
    <3>4. CASE Goto(r, "grant")
      BY <1>0, <2>1, <3>2, <3>4 DEF SoFar
    <3>5. CASE Goto(r, "ok") /\ job[r].grant = {}
      BY <1>0, <2>1, <3>2, <3>3, <3>5 DEF Done, Active, Ended
    <3> QED
      BY <2>3, <3>4, <3>5 DEF GrantNext
  <2> QED
    BY <1>4, <2>2, <2>3 DEF AddUser
<1>5. CASE LoadUser(r)
  <2>1. at[r] = "load" /\ job[r].kind = "change" /\ UNCHANGED <<job, sql>>
    BY <1>0, <1>5 DEF LoadUser, Calls, KindsOf
  <2>2. CASE Goto(r, "failed")
    BY <1>0, <1>1, <2>2
  <2>3. CASE Goto(r, "save") /\ IdOf(job[r].user) \in DOMAIN logins
    <3>1. IdOf(job[r].user) \in DOMAIN logins' /\ (~sql => logins'[IdOf(job[r].user)] = job[r].login)
      BY <1>5, <2>3 DEF LoadUser, Renamed
    <3> QED
      BY <1>0, <2>1, <2>3, <3>1 DEF SoFar, Active, Ended
  <2> QED
    BY <1>5, <2>2, <2>3 DEF LoadUser
<1>6. CASE SaveUser(r)
  <2>1. /\ at[r] = "save" /\ job[r].kind = "change" /\ UNCHANGED <<job, sql>>
        /\ IdOf(job[r].user) \in DOMAIN logins /\ (~sql => logins[IdOf(job[r].user)] = job[r].login)
    BY <1>0, <1>6 DEF SaveUser, Calls, KindsOf, SoFar
  <2>2. CASE Goto(r, "failed")
    BY <1>0, <1>1, <2>2
  <2>3. CASE Goto(r, "unset") /\ IdOf(job[r].user) \in DOMAIN logins'
             /\ logins'[IdOf(job[r].user)] = job[r].login
    BY <1>0, <2>1, <2>3 DEF SoFar, Active, Ended
  <2> QED
    BY <1>6, <2>1, <2>2, <2>3 DEF SaveUser, Renamed
<1>7. CASE Unset(r)
  <2>1. /\ at[r] = "unset" /\ job[r].kind = "change" /\ UNCHANGED <<job, logins>>
        /\ IdOf(job[r].user) \in DOMAIN logins /\ logins[IdOf(job[r].user)] = job[r].login
        /\ subject[r] = job[r].user /\ job[r].user \in UserNames
    BY <1>0, <1>7 DEF Unset, Calls, KindsOf, SoFar, Inv, SubjectInv, GivenNames
  <2>2. Without(<<job[r].user, Admin>>)
    BY <1>7, <2>1 DEF Unset
  <2>3. CASE Goto(r, "failed")
    BY <1>0, <1>1, <2>3
  <2>4. CASE Goto(r, "grant")
    BY <1>0, <2>1, <2>4 DEF SoFar
  <2>5. CASE Goto(r, "ok") /\ job[r].grant = {}
    <3>1. <<job[r].user, Admin>> \notin DOMAIN rights'
      BY <2>2 DEF Without
    <3> QED
      BY <1>0, <2>1, <2>5, <3>1 DEF Done, Allowed, Active, Ended
  <2> QED
    BY <1>7, <2>3, <2>4, <2>5 DEF Unset, GrantNext
<1>8. CASE Grant(r)
  <2>1. /\ at[r] = "grant" /\ job[r].kind \in {"create", "change"} /\ UNCHANGED <<job, logins>>
        /\ job[r].kind = "create" =>
               subject[r] \in DOMAIN logins /\ logins[subject[r]] = job[r].login
        /\ job[r].kind = "change" =>
               /\ subject[r] = job[r].user /\ IdOf(job[r].user) \in DOMAIN logins
               /\ logins[IdOf(job[r].user)] = job[r].login
    BY <1>0, <1>8 DEF Grant, Calls, KindsOf, SoFar, Inv, SubjectInv
  <2>2. CASE Goto(r, "failed")
    BY <1>0, <1>1, <2>2
  <2>3. CASE /\ Goto(r, "ok")
             /\ rights' = [q \in DOMAIN rights \cup {<<subject[r], Admin>>} |->
                              IF q = <<subject[r], Admin>> THEN job[r].grant ELSE rights[q]]
    <3>1. /\ <<subject[r], Admin>> \in DOMAIN rights'
          /\ rights'[<<subject[r], Admin>>] = job[r].grant
      BY <2>3
    <3>2. at'[r] = "ok" /\ UNCHANGED <<job, logins>>
      BY <1>0, <2>1, <2>3
    <3>3. CASE job[r].kind = "create"
      <4>1. PICK u : u = subject[r]
        OBVIOUS
      <4> QED
        BY <2>1, <3>1, <3>2, <3>3, <4>1 DEF Done, Allowed, Active, Ended
    <3>4. CASE job[r].kind = "change"
      BY <2>1, <3>1, <3>2, <3>4 DEF Done, Allowed, Active, Ended
    <3> QED
      BY <2>1, <3>3, <3>4
  <2> QED
    BY <1>8, <2>2, <2>3 DEF Grant, Add
<1>9. CASE DropUser(r)
  <2>1. at[r] = "drop" /\ job[r].kind = "delete" /\ UNCHANGED job
        /\ IdOf(job[r].user) \notin DOMAIN logins'
    BY <1>0, <1>9 DEF DropUser, Calls, KindsOf
  <2>2. CASE Goto(r, "refused")
    BY <1>0, <1>1, <2>2
  <2>3. CASE Goto(r, "sweep")
    BY <1>0, <2>1, <2>3 DEF SoFar
  <2> QED
    BY <1>9, <2>2, <2>3 DEF DropUser
<1>10. CASE Sweep(r)
  <2>1. /\ at[r] = "sweep" /\ job[r].kind = "delete" /\ UNCHANGED <<job, logins, rights>>
        /\ IdOf(job[r].user) \notin DOMAIN logins
    BY <1>0, <1>10 DEF Sweep, Calls, KindsOf, SoFar, store
  <2>2. CASE Goto(r, "failed")
    BY <1>0, <1>1, <2>2
  <2>3. CASE Goto(r, "ok") /\ ~SomeLeft(job[r].user)
    BY <1>0, <2>1, <2>3 DEF SomeLeft, Done, Active, Ended
  <2> QED
    BY <1>10, <2>2, <2>3 DEF Sweep
<1>11. CASE Settings(r)
  <2>1. /\ at[r] = "settings" /\ Goto(r, "check") /\ UNCHANGED <<job, rights>>
        /\ before'[r] = UsersOf(job[r].group) /\ todo'[r] = job[r].list
    BY <1>11 DEF Settings, Calls, store, TypeOK
  <2> QED
    BY <1>0, <2>1 DEF SoFar, UsersOf
<1>12. CASE Check(r)
  <2> DEFINE u == Head(todo[r])
             listed == Range(job[r].list)
             using == UsersOf(job[r].group)
  <2>1. /\ at[r] = "check" /\ UNCHANGED <<job, rights>> /\ todo[r] \in Seq(UserNames)
        /\ before[r] \subseteq using /\ using \subseteq listed \cup before[r]
        /\ listed \subseteq using \cup Range(todo[r]) /\ Range(todo[r]) \subseteq listed
        /\ UsersOf(job[r].group)' = using /\ Range(job[r].list)' = listed
    BY <1>12 DEF Check, Calls, store, SoFar, UsersOf, Inv, ListInv, TypeOK
  <2>2. CASE todo[r] = <<>> /\ Goto(r, "withdraw") /\ UNCHANGED local
    <3>1. Range(todo[r]) = {} /\ UNCHANGED before
      BY <2>2 DEF Range, local
    <3> QED
      BY <1>0, <2>1, <2>2, <3>1 DEF SoFar
  <2>3. todo[r] # <<>> => /\ Range(todo[r]) \subseteq {u} \cup Range(Tail(todo[r]))
                          /\ u \in Range(todo[r])
    BY <2>1, RangeOfTail
  <2>4. CASE /\ todo[r] # <<>> /\ u \in before[r] /\ before' = Struck(r, u)
             /\ todo' = [todo EXCEPT ![r] = Tail(@)] /\ Goto(r, "check")
    <3>1. before'[r] = before[r] \ {u} /\ todo'[r] = Tail(todo[r])
      BY <2>4 DEF Struck, TypeOK
    <3> QED
      BY <1>0, <2>1, <2>3, <2>4, <3>1 DEF SoFar
  <2>5. CASE /\ todo[r] # <<>> /\ subject' = [subject EXCEPT ![r] = u] /\ UNCHANGED before
             /\ todo' = [todo EXCEPT ![r] = Tail(@)] /\ Goto(r, "admit")
    <3>1. subject'[r] = u /\ todo'[r] = Tail(todo[r])
      BY <2>5 DEF TypeOK
    <3> QED
      BY <1>0, <2>1, <2>3, <2>5, <3>1 DEF SoFar
  <2>6. CASE Goto(r, "failed")
    BY <1>0, <1>1, <2>6
  <2> QED
    BY <1>12, <2>2, <2>4, <2>5, <2>6 DEF Check
<1>13. CASE Admit(r)
  <2> DEFINE listed == Range(job[r].list)
             using == UsersOf(job[r].group)
  <2>1. /\ at[r] = "admit" /\ job[r].kind = "allow" /\ UNCHANGED <<job, subject, todo, before>>
        /\ before[r] \subseteq using /\ using \subseteq listed \cup before[r]
        /\ listed \subseteq using \cup Range(todo[r]) \cup {subject[r]}
        /\ subject[r] \in listed /\ subject[r] \in UserNames
    BY <1>0, <1>13 DEF Admit, Calls, local, SoFar, KindsOf, Inv, SubjectInv,
        GivenNames
  <2>2. job[r].group \in Resources
    BY <1>0, <2>1, JobFacts DEF Inv, JobInv, Resources
  <2>3. CASE Goto(r, "failed")
    BY <1>0, <1>1, <2>3
  <2>4. CASE /\ Goto(r, "check")
             /\ rights' = [q \in DOMAIN rights \cup {<<subject[r], job[r].group>>} |->
                              IF q = <<subject[r], job[r].group>> THEN Methods ELSE rights[q]]
    <3>1. PICK g : g = job[r].group
      OBVIOUS
    <3>2. PICK u : u = subject[r]
      OBVIOUS
    <3>3. UsersOf(g)' = UsersOf(g) \cup {u}
      BY <2>1, <2>2, <2>4, <3>1, <3>2, UsersWith
    <3> QED
      BY <1>0, <2>1, <2>4, <3>1, <3>2, <3>3 DEF SoFar
  <2> QED
    BY <1>13, <2>3, <2>4 DEF Admit, Add
<1>14. ASSUME NEW u \in before[r], NEW g, g \in Resources, Without(<<u, g>>)
       PROVE  UsersOf(g)' = UsersOf(g) \ {u}
  BY <1>14, UsersWithout DEF TypeOK
<1>15. CASE Withdraw(r)
  <2>1. PICK g : g = job[r].group
    OBVIOUS
  <2> DEFINE listed == Range(job[r].list)
  <2>2. /\ at[r] = "withdraw" /\ job[r].kind = "allow" /\ UNCHANGED job
        /\ UsersOf(g) \subseteq listed \cup before[r] /\ listed \subseteq UsersOf(g)
        /\ before[r] \cap listed = {}
    BY <1>0, <1>15, <2>1 DEF Withdraw, Calls, KindsOf, SoFar, Inv, ListInv
  <2>3. g \in Resources
    BY <1>0, <2>1, <2>2, JobFacts DEF Inv, JobInv, Resources
  <2>4. CASE before[r] = {} /\ Goto(r, "ok") /\ UNCHANGED rights
    <3>1. UsersOf(g)' = listed
      BY <2>2, <2>4 DEF UsersOf
    <3> QED
      BY <1>0, <2>1, <2>2, <2>4, <3>1 DEF Done, Active, Ended
  <2>5. ASSUME NEW u \in before[r], Without(<<u, g>>), Goto(r, "withdraw"),
               before' = [before EXCEPT ![r] = @ \ {u}]
        PROVE  Goal
    <3>1. UsersOf(g)' = UsersOf(g) \ {u} /\ before'[r] = before[r] \ {u}
      BY <1>14, <2>1, <2>3, <2>5 DEF TypeOK
    <3> QED
      BY <1>0, <2>1, <2>2, <2>5, <3>1 DEF SoFar
  <2>6. CASE Goto(r, "failed")
    BY <1>0, <1>1, <2>6
  <2> QED
    BY <1>15, <2>1, <2>4, <2>5, <2>6 DEF Withdraw
<1>16. CASE Purge(r)
  <2>1. /\ at[r] = "purge" /\ Goto(r, "purging") /\ UNCHANGED <<job, rights>>
        /\ before'[r] = UsersOf(IdOf(job[r].group))
    BY <1>16 DEF Purge, Calls, store, TypeOK
  <2> QED
    BY <1>0, <2>1 DEF SoFar, UsersOf
<1>17. CASE PurgeNext(r)
  <2>1. PICK g : g = IdOf(job[r].group)
    OBVIOUS
  <2>2. /\ at[r] = "purging" /\ job[r].kind = "remove" /\ UNCHANGED job
        /\ UsersOf(g) \subseteq before[r]
    BY <1>0, <1>17, <2>1 DEF PurgeNext, Calls, KindsOf, SoFar
  <2>3. g \in Resources
    BY <1>0, <2>1, <2>2, JobFacts, NameFacts DEF Inv, JobInv, Resources
  <2>4. CASE before[r] = {} /\ Goto(r, "ok") /\ UNCHANGED rights
    <3>1. UsersOf(g)' = {}
      BY <2>2, <2>4 DEF UsersOf
    <3> QED
      BY <1>0, <2>1, <2>2, <2>4, <3>1 DEF Done, Active, Ended
  <2>5. ASSUME NEW u \in before[r], Without(<<u, g>>), Goto(r, "purging"),
               before' = [before EXCEPT ![r] = @ \ {u}]
        PROVE  Goal
    <3>1. UsersOf(g)' = UsersOf(g) \ {u} /\ before'[r] = before[r] \ {u}
      BY <1>14, <2>1, <2>3, <2>5 DEF TypeOK
    <3> QED
      BY <1>0, <2>1, <2>2, <2>5, <3>1 DEF SoFar
  <2>6. CASE Goto(r, "failed")
    BY <1>0, <1>1, <2>6
  <2> QED
    BY <1>17, <2>1, <2>4, <2>5, <2>6 DEF PurgeNext
<1> QED
  BY <1>2, <1>3, <1>4, <1>5, <1>6, <1>7, <1>8, <1>9, <1>10, <1>11, <1>12, <1>13, <1>15, <1>16,
     <1>17 DEF Progress

(* Whoever arrives meets those under way, and a handler that goes on is under way. *)
LEMMA StepsOfOne ==
  ASSUME TypeOK, Inv, [Next]_vars
  PROVE  \/ \E r \in Requests : /\ Progress(r) /\ Active(r)
                                /\ UNCHANGED <<job, mixed, sql>>
                                /\ \A q \in Requests : q # r => at'[q] = at[q]
         \/ \E r \in Requests : /\ at[r] = "idle" /\ Meet(r)
                                /\ at'[r] \in {"permit", "enter", "refused", "failed"}
                                /\ at'[r] = "enter" => SoFar(r)'
                                /\ \A q \in Requests : q # r => at'[q] = at[q]
         \/ \E r \in Requests : /\ at' = [at EXCEPT ![r] = "failed"]
                                /\ UNCHANGED <<logins, rights, job, subject, before, todo,
                                               sql, mixed>>
         \/ UNCHANGED vars
<1>1. ASSUME NEW r \in Requests, Progress(r)
      PROVE  /\ Active(r) /\ UNCHANGED <<job, mixed, sql>>
             /\ \A q \in Requests : q # r => at'[q] = at[q]
  BY <1>1 DEF Progress, Permit, Enter, AddUser, LoadUser, SaveUser, Unset, Grant, GrantNext,
         DropUser, Sweep, Settings, Check, Admit, Add, Withdraw, Purge, PurgeNext, Calls, Goto,
         Active, Ended, TypeOK
<1>2. ASSUME NEW r \in Requests, NEW j \in Jobs, Identify(r, j)
      PROVE  /\ at[r] = "idle" /\ Meet(r) /\ at'[r] \in {"permit", "refused"}
             /\ \A q \in Requests : q # r => at'[q] = at[q]
  BY <1>2 DEF Identify, Calls, Goto, TypeOK
<1>3. ASSUME NEW r \in Requests, NEW j \in Jobs, Authenticate(r, j)
      PROVE  /\ at[r] = "idle" /\ Meet(r) /\ at'[r] \in {"enter", "failed"}
             /\ at'[r] = "enter" => SoFar(r)'
             /\ \A q \in Requests : q # r => at'[q] = at[q]
  <2>1. /\ at[r] = "idle" /\ Meet(r) /\ at'[r] \in {"enter", "failed"}
        /\ \A q \in Requests : q # r => at'[q] = at[q]
    BY <1>3 DEF Authenticate, Calls, Goto, TypeOK
  <2>2. at'[r] = "enter" => /\ subject'[r] \in DOMAIN logins'
                            /\ logins'[subject'[r]] = job'[r].login
    BY <1>3 DEF Authenticate, Goto, TypeOK, store, Having
  <2> QED
    BY <2>1, <2>2 DEF SoFar
<1>4. ASSUME NEW r \in Requests, Cut(r)
      PROVE  /\ at' = [at EXCEPT ![r] = "failed"]
             /\ UNCHANGED <<logins, rights, job, subject, before, todo, sql, mixed>>
  BY <1>4 DEF Cut, store, local
<1> QED
  BY <1>1, <1>2, <1>3, <1>4 DEF Next

(* A handler under way that has met no other is alone, and has done what its calls do. *)
LEMMA AloneStep == ASSUME TypeOK, Inv, AloneInv, [Next]_vars PROVE AloneInv'
<1>1. ASSUME NEW r \in Requests, Progress(r), Active(r), UNCHANGED <<job, mixed, sql>>,
             \A q \in Requests : q # r => at'[q] = at[q]
      PROVE  AloneInv'
  <2>1. \A q \in Requests : Active(q)' => Active(q)
    BY <1>1 DEF Active
  <2> SUFFICES ASSUME NEW q \in Requests, Active(q)', q \notin mixed
               PROVE  SoFar(q)' /\ \A p \in Requests : Active(p)' => p = q
    BY <1>1 DEF AloneInv
  <2>2. q = r /\ SoFar(q) /\ \A p \in Requests : Active(p) => p = q
    BY <1>1, <2>1 DEF AloneInv
  <2> QED
    BY <1>1, <2>1, <2>2, ProgressDoes
<1>2. ASSUME NEW r \in Requests, at[r] = "idle", Meet(r),
             at'[r] \in {"permit", "enter", "refused", "failed"}, at'[r] = "enter" => SoFar(r)',
             \A q \in Requests : q # r => at'[q] = at[q]
      PROVE  AloneInv'
  <2>1. \A q \in Requests : q # r => (Active(q)' <=> Active(q))
    BY <1>2 DEF Active
  <2>2. ~Active(r)
    BY <1>2 DEF Active
  <2> SUFFICES ASSUME NEW q \in Requests, Active(q)', q \notin mixed'
               PROVE  SoFar(q)' /\ \A p \in Requests : Active(p)' => p = q
    BY DEF AloneInv
  <2>3. q = r /\ \A p \in Requests : ~Active(p)
    BY <1>2, <2>1, <2>2 DEF Meet
  <2>4. at'[r] # "enter" => SoFar(r)'
    BY <1>2 DEF SoFar
  <2> QED
    BY <1>2, <2>1, <2>3, <2>4
<1>3. ASSUME NEW r \in Requests, at' = [at EXCEPT ![r] = "failed"],
             UNCHANGED <<logins, rights, job, subject, before, todo, sql, mixed>>
      PROVE  AloneInv'
  <2>1. \A q \in Requests : Active(q)' => q # r /\ Active(q) /\ at'[q] = at[q]
    BY <1>3 DEF Active, Ended, TypeOK
  <2> SUFFICES ASSUME NEW q \in Requests, Active(q)', q \notin mixed
               PROVE  SoFar(q)' /\ \A p \in Requests : Active(p)' => p = q
    BY <1>3 DEF AloneInv
  <2>2. SoFar(q) /\ \A p \in Requests : Active(p) => p = q
    BY <2>1 DEF AloneInv
  <2> QED
    BY <1>3, <2>1, <2>2 DEF SoFar, UsersOf
<1>4. CASE UNCHANGED vars
  BY <1>4 DEF vars, AloneInv, Active, SoFar, UsersOf
<1> QED
  BY <1>1, <1>2, <1>3, <1>4, StepsOfOne

(* A request that is answered with success and met no other has done, to the user by her id *)
(* and to the policies by the name asked for, exactly what it was asked, in memory as in a   *)
(* database.  Where ids are spelled as the server spells them, a user has the login and the  *)
(* rights given, a deleted one is gone with all rights, a group's users are those listed.    *)
(* With another spelling, such as "02", success says less: user 2 is changed or gone, and    *)
(* only the policies of "02" are as asked, not those of 2.                                   *)
THEOREM SuccessIsDone == Spec => OkIsDone
<1> DEFINE Truly == \A r \in Requests :
              at[r] # "ok" /\ at'[r] = "ok" /\ r \notin mixed => Done(job[r])'
<1>1. Init => AloneInv
  BY DEF Init, AloneInv, Active
<1>2. TypeOK /\ Inv /\ AloneInv /\ [Next]_vars => AloneInv'
  BY AloneStep
<1>3. TypeOK /\ Inv /\ AloneInv /\ [Next]_vars => [Truly]_vars
  <2> SUFFICES ASSUME TypeOK, Inv, AloneInv, [Next]_vars, NEW r \in Requests,
                      at[r] # "ok", at'[r] = "ok", r \notin mixed
               PROVE  Done(job[r])'
    OBVIOUS
  <2>1. Progress(r) /\ Active(r)
    BY StepsOfOne DEF TypeOK, vars
  <2> QED
    BY <2>1, ProgressDoes DEF AloneInv
<1> QED
  BY <1>1, <1>2, <1>3, Always, PTL DEF Spec, OkIsDone

=============================================================================
