-------------------------- MODULE MCAccessControl --------------------------
(* A small instance of AccessControl: an administrator, a second user who may be *)
(* one too, another to come, one service group; "02" and "01" are the second user *)
(* and the group, spelled otherwise. *)
EXTENDS AccessControl, TLC

CONSTANTS r1, r2, r3, l1, l2, g1, id02, id01

SomeRequests == {r1, r2, r3}
OneGroup == {g1}
OtherSpellings == {id02, id01}
ReadAs == id02 :> 2 @@ id01 :> g1
AllLogins == {l1, l2}
AllMethods == {"post", "delete"}

SomeJobs ==
    [kind: {"create"}, by: {1}, login: AllLogins, bad: BOOLEAN, grant: {{}}]
    \cup [kind: {"change"}, by: {1}, user: {2}, login: AllLogins, bad: BOOLEAN,
          grant: {{"post"}}]
    \cup [kind: {"change"}, by: {1}, user: {id02}, login: AllLogins, bad: {FALSE}, grant: {{}}]
    \cup [kind: {"delete"}, by: {1}, user: {2, id02}]
    \cup [kind: {"allow"}, by: {1}, group: {g1}, list: {<<2, id02, 2>>}]
    \cup [kind: {"remove"}, by: {2}, group: {id01}]
    \cup [kind: {"use"}, login: AllLogins, group: {g1}]

(* Neither requests nor logins are told apart by the jobs. *)
Alike == Permutations(SomeRequests) \cup Permutations(AllLogins)
=============================================================================
