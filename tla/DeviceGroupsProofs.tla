------------------------- MODULE DeviceGroupsProofs -------------------------
(* Proofs about DeviceGroups, for any number of groups, choice of drivers, *)
(* requests, kinds, faults and bound of the queues. *)
EXTENDS DeviceGroups, TLAPS

-----------------------------------------------------------------------------
(* The inductive invariant *)

Releasing(q) == req[q].at \in {"joining", "closing"}

(* An adapter exists from its connection on; one that was attached, or is now, *)
(* comes from a request to run that ended well. *)
Made(a) == req[a].kind = "run" /\ req[a].at = "ok"

(* What a listed device is. *)
ListedInv ==
    \A g \in Groups : Attached(g) =>
        attached[g] \in opened /\ Made(attached[g]) /\ req[attached[g]].group = g

(* Who detaches an adapter has it alone, open and off the list. *)
ReleasingInv ==
    \A q \in Requests : Releasing(q) =>
        /\ req[q].held \in opened /\ Made(req[q].held)
        /\ \A g \in Groups : attached[g] # req[q].held
        /\ req[q].at = "closing" => queued[req[q].held] = 0

AloneInv ==
    \A p, q \in Requests : Releasing(p) /\ Releasing(q) /\ req[p].held = req[q].held => p = q

(* Who makes an adapter holds none yet. *)
MakingInv ==
    \A q \in Requests : req[q].at \in {"connecting", "asking"} =>
        /\ req[q].kind = "run" /\ req[q].held = None /\ req[q].group \in Groups
        /\ req[q].at = "asking" => q \in opened

(* Commands wait on open adapters that were attached. *)
QueuedInv == \A a \in Requests : queued[a] > 0 => a \in opened /\ Made(a)

Inv == ListedInv /\ ReleasingInv /\ AloneInv /\ MakingInv /\ QueuedInv

(* Devices are made for groups whose ids have been given. *)
IdsInv ==
    /\ \A g \in Groups : Attached(g) => g <= lastId
    /\ \A q \in Requests : req[q].at \in {"connecting", "asking"} => req[q].group <= lastId

-----------------------------------------------------------------------------
(* Typing *)

Records == [kind : Kinds \cup {"none"}, group : Groups \cup {None},
            at : Ended \cup {"idle", "connecting", "asking", "joining", "closing"},
            held : Requests \cup {None}, todo : SUBSET Groups]

(* A handler that goes on to another await keeps its record well formed. *)
LEMMA AtTypes ==
  ASSUME TypeOK, NEW q \in Requests,
         NEW where \in Ended \cup {"idle", "connecting", "asking", "joining", "closing"}
  PROVE  At(q, where) \in Records /\ [req EXCEPT ![q] = At(q, where)] \in [Requests -> Records]
BY DEF TypeOK, Records, At, Adapters

(* So does one that begins, at whatever await, with or without an adapter. *)
LEMMA NewTypes ==
  ASSUME TypeOK, NEW q \in Requests, NEW g \in Groups \cup {None}, NEW kind \in Kinds,
         NEW where \in Ended \cup {"idle", "connecting", "asking", "joining", "closing"},
         NEW a \in Requests \cup {None}, NEW todo \in SUBSET Groups
  PROVE  /\ [req EXCEPT ![q] = New(kind, g, where)] \in [Requests -> Records]
         /\ [req EXCEPT ![q] = [New(kind, g, where) EXCEPT !.held = a]]
                \in [Requests -> Records]
         /\ [req EXCEPT ![q] = [New(kind, g, where) EXCEPT !.todo = todo]]
                \in [Requests -> Records]
         /\ [req EXCEPT ![q] = [New(kind, g, where) EXCEPT !.held = a, !.todo = todo]]
                \in [Requests -> Records]
BY DEF TypeOK, Records, New, Adapters

(* The next group of a manager that is being closed. *)
LEMMA CloseNextTypes ==
  ASSUME TypeOK, NEW q \in Requests, NEW todo \in SUBSET Groups, "close" \in Kinds,
         CloseNext(q, todo)
  PROVE  req' \in [Requests -> Records] /\ attached' \in [Groups -> Requests \cup {None}]
<1>1. CASE todo = {} /\ req' = [req EXCEPT ![q] = New("close", None, "ok")] /\ UNCHANGED attached
  BY <1>1, NewTypes DEF TypeOK, Adapters, Ended
<1>2. ASSUME NEW g \in todo, Attached(g), Popped(g),
             req' = [req EXCEPT ![q] = [New("close", None, "joining")
                                        EXCEPT !.held = attached[g], !.todo = todo \ {g}]]
      PROVE  req' \in [Requests -> Records] /\ attached' \in [Groups -> Requests \cup {None}]
  <2>1. attached[g] \in Requests \cup {None} /\ todo \ {g} \in SUBSET Groups
    BY DEF TypeOK, Adapters
  <2> QED
    BY <1>2, <2>1, NewTypes DEF TypeOK, Adapters, Popped
<1>3. ASSUME NEW g \in todo, UNCHANGED attached,
             req' = [req EXCEPT ![q] = [New("close", None, "error")
                                        EXCEPT !.todo = todo \ {g}]]
      PROVE  req' \in [Requests -> Records] /\ attached' \in [Groups -> Requests \cup {None}]
  <2>1. todo \ {g} \in SUBSET Groups
    OBVIOUS
  <2> QED
    BY <1>3, <2>1, NewTypes DEF TypeOK, Adapters, Ended
<1> QED
  BY <1>1, <1>2, <1>3 DEF CloseNext

(* The groups stored have ids that were given, and settings of theirs. *)
GroupsOK == /\ lastId \in 0..MaxGroups
            /\ DOMAIN records \subseteq 1..lastId
            /\ records \in [DOMAIN records -> Settings]

(* A group that is deleted takes only its own record with it. *)
LEMMA DroppedTypes ==
  ASSUME GroupsOK, NEW g, Dropped(g), UNCHANGED lastId
  PROVE  GroupsOK'
<1>1. DOMAIN records' = DOMAIN records \ {g}
  BY DEF Dropped
<1> QED
  BY <1>1 DEF Dropped, GroupsOK

(* A group that is made gets an id of its own. *)
LEMMA AddGroupTypes ==
  ASSUME GroupsOK, NEW settings \in Settings, AddGroup(settings)
  PROVE  GroupsOK' /\ lastId' = lastId + 1 /\ DOMAIN records' = DOMAIN records \cup {lastId + 1}
<1>1. lastId' = lastId + 1 /\ lastId + 1 \in 1..MaxGroups /\ lastId \in Nat /\ MaxGroups \in Nat
  BY BoundsAssumption DEF AddGroup, NewId, Groups, GroupsOK
<1>2. DOMAIN records' = DOMAIN records \cup {lastId + 1}
  BY DEF AddGroup, NewId
<1>3. \A g \in DOMAIN records' : records'[g] \in Settings
  BY <1>2 DEF AddGroup, NewId, GroupsOK
<1>4. records' = [g \in DOMAIN records' |-> records'[g]]
  BY <1>2 DEF AddGroup, NewId
<1>5. DOMAIN records' \subseteq 1..lastId'
  BY <1>1, <1>2 DEF GroupsOK
<1>6. lastId' \in 0..MaxGroups
  BY <1>1
<1> QED
  BY <1>1, <1>2, <1>3, <1>4, <1>5, <1>6 DEF GroupsOK

(* A group that is changed stays where it is. *)
LEMMA UpdateGroupTypes ==
  ASSUME GroupsOK, NEW g \in Groups, NEW settings \in Settings, UpdateGroup(g, settings)
  PROVE  GroupsOK' /\ UNCHANGED lastId /\ DOMAIN records' = DOMAIN records
<1>1. g \in DOMAIN records /\ Updated(records[g], settings) \in Settings
  BY DEF UpdateGroup, Found, Updated, Settings, GroupsOK
<1> QED
  BY <1>1 DEF UpdateGroup, GroupsOK

(* The end of a deletion. *)
LEMMA DeleteRecordTypes ==
  ASSUME TypeOK, NEW q \in Requests, DeleteRecord(q, req[q]), UNCHANGED lastId
  PROVE  req' \in [Requests -> Records] /\ GroupsOK'
<1>1. GroupsOK'
  <2>1. GroupsOK
    BY DEF TypeOK, GroupsOK
  <2>2. CASE Dropped(req[q].group)
    BY <2>1, <2>2, DroppedTypes
  <2>3. CASE UNCHANGED records
    BY <2>1, <2>3 DEF GroupsOK
  <2> QED
    BY <2>2, <2>3 DEF DeleteRecord
<1>2. \/ req' = [req EXCEPT ![q] = At(q, "ok")]
      \/ req' = [req EXCEPT ![q] = At(q, "error")]
  BY DEF DeleteRecord, At
<1> QED
  BY <1>1, <1>2, AtTypes DEF Ended

(* Every state is well formed: Init makes such a state. *)
LEMMA TypeInit == ASSUME Init PROVE TypeOK
<1>1. /\ lastId \in 0..MaxGroups
      /\ DOMAIN records \subseteq 1..lastId
      /\ records \in [DOMAIN records -> Settings]
  BY BoundsAssumption DEF Init
<1> QED
  BY <1>1 DEF Init, TypeOK, Adapters

(* And every handler, at each of its awaits, every command and every loss of a *)
(* client leads to one. *)
LEMMA TypeStep == ASSUME TypeOK, [Next]_vars PROVE TypeOK'
<1>0. /\ GroupsOK
      /\ alone \in BOOLEAN
      /\ driver \in [Requests -> Drivers \cup {"none"}]
      /\ attached \in [Groups -> Requests \cup {None}]
      /\ opened \subseteq Requests
      /\ queued \in [Requests -> Nat]
      /\ hung \subseteq Requests
      /\ stored \subseteq {"shared"}
      /\ ident \in [Requests -> {"none", "id", "record"}]
      /\ req \in [Requests -> Records]
  BY DEF TypeOK, Adapters, Records, GroupsOK
<1>1. ASSUME NEW q \in Requests, NEW g \in Groups, Run(q, g) PROVE TypeOK'
  <2> DEFINE where == IF Enabled(g) /\ ~Attached(g) THEN "connecting" ELSE "refused"
  <2>1. where \in Ended \cup {"idle", "connecting", "asking", "joining", "closing"}
    BY DEF Ended
  <2>2. New("run", g, where).kind \in Kinds /\ New("run", g, where).kind = "run"
    BY <1>1 DEF Run, Handle, New
  <2>3. req' \in [Requests -> Records]
    <3>1. Handle(q, New("run", g, where))
      BY <1>1 DEF Run
    <3>2. req' = [req EXCEPT ![q] = New("run", g, where)]
      BY <3>1 DEF Handle
    <3>3. "run" \in Kinds
      BY <2>2
    <3> HIDE DEF where
    <3> QED
      BY <2>1, <3>2, <3>3, NewTypes
  <2>4. driver' \in [Requests -> Drivers \cup {"none"}]
    <3>1. Found(g) => records[g].driver \in Drivers
      BY <1>0 DEF Found, GroupsOK, Settings
    <3> QED
      BY <1>0, <1>1, <3>1 DEF Run
  <2> QED
    BY <1>0, <1>1, <2>3, <2>4 DEF Run, TypeOK, Adapters, Records, GroupsOK, groupVars
<1>2. ASSUME NEW q \in Requests, Connected(q) PROVE TypeOK'
  <2>1. req' \in [Requests -> Records]
    BY <1>2, AtTypes DEF Connected, Ended
  <2> QED
    BY <1>0, <1>2, <2>1 DEF Connected, TypeOK, Adapters, Records, GroupsOK, groupVars
<1>3. ASSUME NEW q \in Requests, Identified(q) PROVE TypeOK'
  <2>1. req' \in [Requests -> Records]
    BY <1>3, AtTypes DEF Identified, Ended
  <2>2. stored' \subseteq {"shared"}
    BY <1>0, <1>3 DEF Identified, Storable, Hashable
  <2>3. attached' \in [Groups -> Requests \cup {None}]
    BY <1>0, <1>3 DEF Identified, AddDevice
  <2>4. ident' \in [Requests -> {"none", "id", "record"}]
    BY <1>0, <1>3 DEF Identified
  <2> QED
    BY <1>0, <1>3, <2>1, <2>2, <2>3, <2>4 DEF Identified, TypeOK, Adapters, Records, GroupsOK, groupVars
<1>4. ASSUME NEW q \in Requests, NEW g \in Groups, Stop(q, g) PROVE TypeOK'
  <2>1. attached[g] \in Requests \cup {None}
    BY <1>0
  <2>2. req' \in [Requests -> Records]
    <3>1. CASE Handle(q, [New("stop", g, "joining") EXCEPT !.held = attached[g]])
      <4>1. "stop" \in Kinds
        BY <3>1 DEF Handle, New
      <4> QED
        BY <2>1, <3>1, <4>1, NewTypes DEF Handle
    <3>2. CASE Handle(q, New("stop", g, "refused"))
      <4>1. "stop" \in Kinds
        BY <3>2 DEF Handle, New
      <4> QED
        BY <3>2, <4>1, NewTypes DEF Handle, Ended
    <3> QED
      BY <1>4, <3>1, <3>2 DEF Stop
  <2>3. attached' \in [Groups -> Requests \cup {None}]
    BY <1>0, <1>4 DEF Stop, Popped
  <2> QED
    BY <1>0, <1>4, <2>2, <2>3 DEF Stop, TypeOK, Adapters, Records, GroupsOK, groupVars
<1>5. ASSUME NEW q \in Requests, NEW g \in Groups, Delete(q, g) PROVE TypeOK'
  <2>1. attached[g] \in Requests \cup {None}
    BY <1>0
  <2> DEFINE where == IF Found(g) THEN "ok" ELSE "error"
  <2>2. req' \in [Requests -> Records]
    <3>1. CASE Handle(q, [New("delete", g, "joining") EXCEPT !.held = attached[g]])
      <4>1. "delete" \in Kinds
        BY <3>1 DEF Handle, New
      <4> QED
        BY <2>1, <3>1, <4>1, NewTypes DEF Handle
    <3>2. CASE Handle(q, New("delete", g, where))
      <4>1. "delete" \in Kinds
        BY <3>2 DEF Handle, New
      <4>2. where \in Ended
        BY DEF Ended
      <4> QED
        BY <3>2, <4>1, <4>2, NewTypes DEF Handle
    <3> QED
      BY <1>5, <3>1, <3>2 DEF Delete
  <2>3. attached' \in [Groups -> Requests \cup {None}]
    BY <1>0, <1>5 DEF Delete, Popped
  <2>4. GroupsOK'
    <3>1. UNCHANGED lastId /\ (Dropped(g) \/ UNCHANGED records)
      BY <1>5 DEF Delete
    <3>2. CASE Dropped(g)
      BY <1>0, <3>1, <3>2, DroppedTypes
    <3>3. CASE UNCHANGED records
      BY <1>0, <3>1, <3>3 DEF GroupsOK
    <3> QED
      BY <3>1, <3>2, <3>3
  <2> QED
    BY <1>0, <1>5, <2>2, <2>3, <2>4 DEF Delete, TypeOK, Adapters, Records, GroupsOK, groupVars
<1>6. ASSUME NEW q \in Requests, Close(q) PROVE TypeOK'
  <2>1. {g \in Groups : Attached(g)} \in SUBSET Groups
    OBVIOUS
  <2>2. req' \in [Requests -> Records] /\ attached' \in [Groups -> Requests \cup {None}]
    BY <1>6, <2>1, CloseNextTypes DEF Close
  <2> QED
    BY <1>0, <1>6, <2>2 DEF Close, TypeOK, Adapters, Records, GroupsOK, groupVars
<1>7. ASSUME NEW q \in Requests, Joined(q) PROVE TypeOK'
  <2>1. req' \in [Requests -> Records]
    BY <1>7, AtTypes DEF Joined
  <2> QED
    BY <1>0, <1>7, <2>1 DEF Joined, TypeOK, Adapters, Records, GroupsOK, groupVars
<1>8. ASSUME NEW q \in Requests, Detached(q) PROVE TypeOK'
  <2>0. req[q] \in Records
    BY <1>0
  <2>1. req[q].todo \in SUBSET Groups /\ (req[q].kind = "close" => "close" \in Kinds)
    BY <2>0 DEF Records
  <2>2. /\ req' \in [Requests -> Records]
        /\ attached' \in [Groups -> Requests \cup {None}]
        /\ GroupsOK'
    <3>0. UNCHANGED lastId /\ (UNCHANGED records => GroupsOK')
      BY <1>0, <1>8 DEF Detached, GroupsOK
    <3>1. CASE req' = [req EXCEPT ![q] = At(q, "ok")] /\ UNCHANGED <<records, attached>>
      BY <1>0, <3>0, <3>1, AtTypes DEF Ended
    <3>2. CASE DeleteRecord(q, req[q]) /\ UNCHANGED attached
      BY <1>0, <3>0, <3>2, DeleteRecordTypes
    <3>3. CASE req[q].kind = "close" /\ CloseNext(q, req[q].todo) /\ UNCHANGED records
      BY <1>0, <3>0, <2>1, <3>3, CloseNextTypes
    <3>4. CASE req' = [req EXCEPT ![q] = At(q, "error")] /\ UNCHANGED <<records, attached>>
      BY <1>0, <3>0, <3>4, AtTypes DEF Ended
    <3> QED
      BY <1>8, <3>1, <3>2, <3>3, <3>4 DEF Detached
  <2> QED
    BY <1>0, <1>8, <2>2 DEF Detached, ClosesAdapter, TypeOK, Adapters, Records, GroupsOK, groupVars
<1>9. ASSUME NEW q \in Requests, Disconnect(q) PROVE TypeOK'
  <2>1. req' \in [Requests -> Records]
    BY <1>9, AtTypes DEF Disconnect, Ended
  <2> QED
    BY <1>0, <1>9, <2>1 DEF Disconnect, TypeOK, Adapters, Records, GroupsOK, groupVars
<1>10. ASSUME NEW g \in Groups, Put(g) PROVE TypeOK'
  <2>1. attached[g] \in Requests
    BY <1>0, <1>10 DEF Put, Attached
  <2> QED
    BY <1>0, <1>10, <2>1 DEF Put, TypeOK, Adapters, Records, GroupsOK, groupVars
<1>11. ASSUME NEW a \in Requests, Serve(a) PROVE TypeOK'
  <2>1. queued[a] - 1 \in Nat
    BY <1>0, <1>11 DEF Serve
  <2> QED
    BY <1>0, <1>11, <2>1 DEF Serve, Done, TypeOK, Adapters, Records, GroupsOK, groupVars
<1>12. ASSUME NEW settings \in Settings, AddGroup(settings) PROVE TypeOK'
  <2>1. GroupsOK'
    BY <1>0, <1>12, AddGroupTypes
  <2> QED
    BY <1>0, <1>12, <2>1 DEF AddGroup, TypeOK, Adapters, Records, GroupsOK
<1>13. ASSUME NEW g \in Groups, NEW settings \in Settings, UpdateGroup(g, settings) PROVE TypeOK'
  <2>1. GroupsOK'
    BY <1>0, <1>13, UpdateGroupTypes
  <2> QED
    BY <1>0, <1>13, <2>1 DEF UpdateGroup, TypeOK, Adapters, Records, GroupsOK
<1>14. ASSUME NEW a \in Requests, Hang(a) PROVE TypeOK'
  BY <1>0, <1>14 DEF Hang, TypeOK, Adapters, Records, GroupsOK, groupVars
<1>15. CASE UNCHANGED vars
  BY <1>0, <1>15 DEF vars, TypeOK, Adapters, Records, GroupsOK, groupVars
<1> QED
  BY <1>1, <1>2, <1>3, <1>4, <1>5, <1>6, <1>7, <1>8, <1>9, <1>10, <1>11, <1>12,
     <1>13, <1>14, <1>15
     DEF Next, Arrive, Progress

(* Every state of the groups, their devices and the requests is well formed. *)
THEOREM TypeCorrect == Spec => []TypeOK
BY TypeInit, TypeStep, PTL DEF Spec

-----------------------------------------------------------------------------
(* The steps of the inductive invariant *)

(* At the start nothing is attached, open or in progress. *)
LEMMA InvInit == ASSUME Init PROVE Inv
BY DEF Init, Inv, ListedInv, ReleasingInv, AloneInv, MakingInv, QueuedInv, Attached, Releasing

(* What a step of q's handler may close: the adapter it has detached, when *)
(* nothing is queued for it. *)
MayClose(q) == IF req[q].at = "closing" THEN {req[q].held} ELSE {}

(* Adapters that were attached, are listed or are being detached by others stay as *)
(* they are when q's handler goes on. *)
LEMMA OthersStay ==
  ASSUME TypeOK, Inv, NEW q \in Requests, ~Made(q),
         NEW r, req' = [req EXCEPT ![q] = r], opened \ opened' \subseteq MayClose(q)
  PROVE  /\ req'[q] = r /\ \A p \in Requests : p # q => req'[p] = req[p]
         /\ \A p \in Requests : Made(p) => Made(p)' /\ req'[p] = req[p]
         /\ \A g \in Groups : Attached(g) => attached[g] \in opened'
         /\ \A p \in Requests : p # q /\ Releasing(p) => req[p].held \in opened'
         /\ \A a \in Requests : queued[a] > 0 => a \in opened'
         /\ \A a \in opened : a # None
<1>1. req'[q] = r /\ \A p \in Requests : p # q => req'[p] = req[p]
  BY DEF TypeOK
<1>2. \A p \in Requests : Made(p) => Made(p)' /\ req'[p] = req[p]
  BY <1>1 DEF Made
<1>3. MayClose(q) # {} => Releasing(q) /\ MayClose(q) = {req[q].held} /\ queued[req[q].held] = 0
  BY DEF MayClose, Releasing, Inv, ReleasingInv
<1>4. \A g \in Groups : Attached(g) => attached[g] \in opened'
  BY <1>3 DEF Inv, ListedInv, ReleasingInv
<1>5. \A p \in Requests : p # q /\ Releasing(p) => req[p].held \in opened'
  BY <1>3 DEF Inv, ReleasingInv, AloneInv
<1>6. \A a \in Requests : queued[a] > 0 => a \in opened'
  BY <1>3 DEF Inv, QueuedInv
<1>7. \A a \in opened : a # None
  BY NamesAssumption DEF TypeOK, Adapters
<1> QED
  BY <1>1, <1>2, <1>4, <1>5, <1>6, <1>7

(* A handler that has no adapter to detach: one that ends, is refused, or is making *)
(* a device. *)
LEMMA Settles ==
  ASSUME TypeOK, Inv, NEW q \in Requests, ~Made(q),
         NEW r, req' = [req EXCEPT ![q] = r], r.at \notin {"joining", "closing"},
         r.at \in {"connecting", "asking"} =>
             /\ r.kind = "run" /\ r.held = None /\ r.group \in Groups
             /\ r.at = "asking" => q \in opened',
         opened \ opened' \subseteq MayClose(q),
         UNCHANGED queued,
         \A g \in Groups : attached'[g] \in {attached[g], None}
  PROVE  Inv'
<1>1. /\ req'[q] = r /\ \A p \in Requests : p # q => req'[p] = req[p]
      /\ \A p \in Requests : Made(p) => Made(p)' /\ req'[p] = req[p]
      /\ \A g \in Groups : Attached(g) => attached[g] \in opened'
      /\ \A p \in Requests : p # q /\ Releasing(p) => req[p].held \in opened'
      /\ \A a \in Requests : queued[a] > 0 => a \in opened'
      /\ \A a \in opened : a # None
  BY OthersStay
<1>2. \A p \in Requests : Releasing(p)' => p # q /\ Releasing(p) /\ req'[p] = req[p]
  BY <1>1 DEF Releasing
<1>3. \A g \in Groups : attached[g] \in Requests \cup {None}
  BY DEF TypeOK, Adapters
<1>4. \A p \in Requests : req[p].held \in Requests \cup {None}
  BY DEF TypeOK, Adapters
<1>5. ListedInv'
  BY <1>1, <1>3 DEF Inv, ListedInv, Attached
<1>6. ReleasingInv'
  BY <1>1, <1>2, <1>4 DEF Inv, ReleasingInv
<1>7. AloneInv'
  BY <1>2 DEF Inv, AloneInv
<1>8. MakingInv'
  <2>1. \A p \in Requests : req[p].at = "asking" /\ p \in opened /\ p # q => p \in opened'
    <3> SUFFICES ASSUME NEW p \in Requests, req[p].at = "asking", p \in opened, p # q,
                        p \notin opened'
                 PROVE  FALSE
      OBVIOUS
    <3>1. p = req[q].held /\ Releasing(q)
      BY DEF MayClose, Releasing
    <3> QED
      BY <3>1 DEF Inv, ReleasingInv, Made
  <2> QED
    BY <1>1, <2>1 DEF Inv, MakingInv
<1>9. QueuedInv'
  BY <1>1 DEF Inv, QueuedInv
<1> QED
  BY <1>5, <1>6, <1>7, <1>8, <1>9 DEF Inv

(* So does a handler that ends at one of its awaits, whatever it has detached. *)
LEMMA Ends ==
  ASSUME TypeOK, Inv, NEW q \in Requests, ~Made(q), NEW where \in Ended,
         req' = [req EXCEPT ![q] = At(q, where)],
         opened \ opened' \subseteq MayClose(q), UNCHANGED <<attached, queued>>
  PROVE  Inv'
<1> DEFINE r == At(q, where)
<1>1. r.at = where
  BY DEF At, TypeOK, Adapters
<1>2. where \notin {"joining", "closing", "connecting", "asking"}
  BY DEF Ended
<1>3. req' = [req EXCEPT ![q] = r]
  OBVIOUS
<1> HIDE DEF r
<1> QED
  BY <1>1, <1>2, <1>3, Settles

(* And one that is refused at once. *)
LEMMA Refused ==
  ASSUME TypeOK, Inv, NEW q \in Requests, req[q].at = "idle", NEW where \in Ended,
         NEW kind, NEW g, req' = [req EXCEPT ![q] = New(kind, g, where)],
         UNCHANGED <<attached, opened, queued>>
  PROVE  Inv'
<1> DEFINE r == New(kind, g, where)
<1>1. r.at = where /\ ~Made(q)
  BY DEF New, Made
<1>2. where \notin {"joining", "closing", "connecting", "asking"}
  BY DEF Ended
<1>3. req' = [req EXCEPT ![q] = r]
  OBVIOUS
<1> HIDE DEF r
<1> QED
  BY <1>1, <1>2, <1>3, Settles

(* A handler that takes g's device off the list, to wait for its commands. *)
LEMMA Takes ==
  ASSUME TypeOK, Inv, NEW q \in Requests, ~Made(q), req[q].at \notin {"connecting", "asking"},
         NEW g \in Groups, Attached(g), Popped(g),
         NEW r, req' = [req EXCEPT ![q] = r], r.at = "joining", r.held = attached[g],
         opened \ opened' \subseteq MayClose(q),
         UNCHANGED queued
  PROVE  Inv'
<1>1. /\ req'[q] = r /\ \A p \in Requests : p # q => req'[p] = req[p]
      /\ \A p \in Requests : Made(p) => Made(p)' /\ req'[p] = req[p]
      /\ \A h \in Groups : Attached(h) => attached[h] \in opened'
      /\ \A p \in Requests : p # q /\ Releasing(p) => req[p].held \in opened'
      /\ \A a \in Requests : queued[a] > 0 => a \in opened'
      /\ \A a \in opened : a # None
  BY OthersStay
<1>2. \A p \in Requests : p # q /\ Releasing(p)' => Releasing(p) /\ req'[p] = req[p]
  BY <1>1 DEF Releasing
<1>3. attached'[g] = None /\ \A h \in Groups : h # g => attached'[h] = attached[h]
  BY DEF Popped, TypeOK
<1>4. \A h \in Groups : attached[h] = attached[g] => h = g
  BY DEF Inv, ListedInv, Attached
<1>5. attached[g] \in Requests /\ attached[g] # None /\ Made(attached[g])
  BY DEF TypeOK, Adapters, Attached, Inv, ListedInv
<1>6. \A p \in Requests : req[p].held \in Requests \cup {None}
  BY DEF TypeOK, Adapters
<1>7. ListedInv'
  <2>1. \A h \in Groups : attached[h] \in Requests \cup {None}
    BY DEF TypeOK, Adapters
  <2> QED
    BY <1>1, <1>3, <2>1 DEF Inv, ListedInv, Attached
<1>8. ReleasingInv'
  <2> SUFFICES ASSUME NEW p \in Requests, Releasing(p)'
               PROVE  /\ req'[p].held \in opened' /\ Made(req[p].held)'
                      /\ \A h \in Groups : attached'[h] # req'[p].held
                      /\ req'[p].at = "closing" => queued'[req'[p].held] = 0
    BY DEF ReleasingInv, Made
  <2>1. CASE p = q
    BY <1>1, <1>3, <1>4, <1>5, <2>1 DEF Made
  <2>2. CASE p # q
    BY <1>1, <1>2, <1>3, <1>6, <2>2 DEF Inv, ReleasingInv, Made
  <2> QED
    BY <2>1, <2>2
<1>9. AloneInv'
  <2>1. \A p \in Requests : p # q /\ Releasing(p)' => req'[p].held # attached[g]
    BY <1>2 DEF Inv, ReleasingInv
  <2> QED
    BY <1>1, <1>2, <2>1 DEF Inv, AloneInv
<1>10. MakingInv'
  <2>1. \A p \in Requests : req[p].at = "asking" /\ p \in opened => p \in opened'
    <3> SUFFICES ASSUME NEW p \in Requests, req[p].at = "asking", p \in opened, p \notin opened'
                 PROVE  FALSE
      OBVIOUS
    <3>1. p = req[q].held /\ Releasing(q)
      BY DEF MayClose, Releasing
    <3> QED
      BY <3>1 DEF Inv, ReleasingInv, Made
  <2> QED
    BY <1>1, <2>1 DEF Inv, MakingInv
<1>11. QueuedInv'
  BY <1>1 DEF Inv, QueuedInv
<1> QED
  BY <1>7, <1>8, <1>9, <1>10, <1>11 DEF Inv

(* A run that attaches the device it has made. *)
LEMMA Attaches ==
  ASSUME TypeOK, Inv, NEW q \in Requests, req[q].at = "asking", AddDevice(q, req[q].group),
         req' = [req EXCEPT ![q] = At(q, "ok")], UNCHANGED <<opened, queued>>
  PROVE  Inv'
<1>1. /\ req[q].kind = "run" /\ req[q].group \in Groups /\ q \in opened /\ ~Made(q)
      /\ ~Releasing(q)
  BY DEF Inv, MakingInv, Made, Releasing
<1>2. /\ req'[q].kind = "run" /\ req'[q].at = "ok" /\ req'[q].group = req[q].group
      /\ \A p \in Requests : p # q => req'[p] = req[p]
  BY <1>1 DEF TypeOK, At, Adapters
<1>3. \A p \in Requests : Made(p) => Made(p)' /\ req'[p] = req[p]
  BY <1>1, <1>2 DEF Made
<1>4. \A p \in Requests : Releasing(p)' => Releasing(p) /\ req'[p] = req[p] /\ p # q
  BY <1>1, <1>2 DEF Releasing
<1>5. attached'[req[q].group] = q /\ \A g \in Groups : g # req[q].group => attached'[g] = attached[g]
  BY <1>1 DEF AddDevice, TypeOK
<1>6. \A p \in Requests : req[p].held \in Requests \cup {None}
  BY DEF TypeOK, Adapters
<1>7. \A g \in Groups : attached[g] \in Requests \cup {None}
  BY DEF TypeOK, Adapters
<1>8. ListedInv'
  BY <1>1, <1>2, <1>3, <1>5, <1>7 DEF Inv, ListedInv, Attached, Made
<1>9. ReleasingInv'
  <2>1. \A p \in Requests : Releasing(p) => req[p].held # q /\ req[p].held \in Requests
    BY <1>1, <1>6, NamesAssumption DEF Inv, ReleasingInv, TypeOK, Adapters
  <2> QED
    BY <1>3, <1>4, <1>5, <2>1 DEF Inv, ReleasingInv
<1>10. AloneInv'
  BY <1>4 DEF Inv, AloneInv
<1>11. MakingInv'
  BY <1>2 DEF Inv, MakingInv
<1>12. QueuedInv'
  BY <1>3 DEF Inv, QueuedInv
<1> QED
  BY <1>8, <1>9, <1>10, <1>11, <1>12 DEF Inv

(* A detach whose commands are done goes on to close its adapter. *)
LEMMA Moves ==
  ASSUME TypeOK, Inv, NEW q \in Requests, Joined(q)
  PROVE  Inv'
<1>1. /\ req[q].at = "joining" /\ queued[req[q].held] = 0 /\ Releasing(q) /\ ~Made(q)
      /\ UNCHANGED <<attached, opened, queued>>
  BY DEF Joined, AllExecuted, Releasing, Made
<1>2. /\ req'[q].at = "closing" /\ req'[q].held = req[q].held
      /\ \A p \in Requests : p # q => req'[p] = req[p]
  BY DEF Joined, TypeOK, At, Adapters
<1>3. \A p \in Requests : Made(p) => Made(p)' /\ req'[p] = req[p]
  BY <1>1, <1>2 DEF Made
<1>4. \A p \in Requests : Releasing(p)' <=> Releasing(p)
  BY <1>1, <1>2 DEF Releasing
<1>5. \A p \in Requests : req'[p].held = req[p].held /\ (p # q => req'[p].at = req[p].at)
  BY <1>2
<1>6. \A p \in Requests : req[p].held \in Requests \cup {None}
  BY DEF TypeOK, Adapters
<1>7. \A g \in Groups : attached[g] \in Requests \cup {None}
  BY DEF TypeOK, Adapters
<1>8. ListedInv'
  BY <1>1, <1>3, <1>7 DEF Inv, ListedInv, Attached
<1>9. ReleasingInv'
  <2>1. \A p \in Requests : Releasing(p) => req[p].held \in Requests
    BY <1>6, NamesAssumption DEF Inv, ReleasingInv, TypeOK, Adapters
  <2> QED
    BY <1>1, <1>3, <1>4, <1>5, <2>1 DEF Inv, ReleasingInv
<1>10. AloneInv'
  BY <1>4, <1>5 DEF Inv, AloneInv
<1>11. MakingInv'
  BY <1>1, <1>2 DEF Inv, MakingInv
<1>12. QueuedInv'
  BY <1>1, <1>3 DEF Inv, QueuedInv
<1> QED
  BY <1>8, <1>9, <1>10, <1>11, <1>12 DEF Inv

(* close() that goes on to its next group, after a detach or at its start. *)
LEMMA Nexts ==
  ASSUME TypeOK, Inv, NEW q \in Requests, ~Made(q), req[q].at \notin {"connecting", "asking"},
         NEW todo \in SUBSET Groups, CloseNext(q, todo),
         opened \ opened' \subseteq MayClose(q), UNCHANGED queued
  PROVE  Inv'
<1>1. CASE req' = [req EXCEPT ![q] = New("close", None, "ok")] /\ UNCHANGED attached
  <2> DEFINE r == New("close", None, "ok")
  <2>1. r.at = "ok"
    BY DEF New
  <2> QED
    BY <1>1, <2>1, Settles
<1>2. ASSUME NEW g \in todo, Attached(g), Popped(g),
             req' = [req EXCEPT ![q] = [New("close", None, "joining")
                                        EXCEPT !.held = attached[g], !.todo = todo \ {g}]]
      PROVE  Inv'
  <2> DEFINE r == [New("close", None, "joining") EXCEPT !.held = attached[g], !.todo = todo \ {g}]
  <2>1. r.at = "joining" /\ r.held = attached[g]
    BY DEF New
  <2>2. req' = [req EXCEPT ![q] = r]
    BY <1>2
  <2> HIDE DEF r
  <2> QED
    BY <1>2, <2>1, <2>2, Takes
<1>3. ASSUME NEW g \in todo, UNCHANGED attached,
             req' = [req EXCEPT ![q] = [New("close", None, "error")
                                        EXCEPT !.todo = todo \ {g}]]
      PROVE  Inv'
  <2> DEFINE r == [New("close", None, "error") EXCEPT !.todo = todo \ {g}]
  <2>1. r.at = "error"
    BY DEF New
  <2>2. req' = [req EXCEPT ![q] = r]
    BY <1>3
  <2> HIDE DEF r
  <2> QED
    BY <1>3, <2>1, <2>2, Settles
<1> QED
  BY <1>1, <1>2, <1>3 DEF CloseNext

(* Every step of handlers, commands and clients keeps the invariant. *)
LEMMA InvStep == ASSUME TypeOK, Inv, [Next]_vars PROVE Inv'
<1>1. ASSUME NEW q \in Requests, NEW g \in Groups, Run(q, g) PROVE Inv'
  <2> DEFINE r == New("run", g, IF Enabled(g) /\ ~Attached(g) THEN "connecting" ELSE "refused")
  <2>1. /\ req' = [req EXCEPT ![q] = r] /\ req[q].at = "idle"
        /\ UNCHANGED <<attached, opened, queued>>
    BY <1>1 DEF Run, Handle
  <2>2. r.at \in {"connecting", "refused"} /\ r.kind = "run" /\ r.held = None /\ r.group = g
    BY DEF New
  <2> HIDE DEF r
  <2> QED
    BY <2>1, <2>2, Settles DEF Made
<1>2. ASSUME NEW q \in Requests, Connected(q) PROVE Inv'
  <2>1. req[q].at = "connecting" /\ UNCHANGED <<attached, queued>> /\ ~Made(q) /\ opened \subseteq opened'
    BY <1>2 DEF Connected, Made
  <2>2. req[q].kind = "run" /\ req[q].held = None /\ req[q].group \in Groups
    BY <2>1 DEF Inv, MakingInv
  <2>3. CASE q \in opened' /\ req' = [req EXCEPT ![q] = At(q, "asking")]
    <3> DEFINE r == At(q, "asking")
    <3>1. r.at = "asking" /\ r.kind = "run" /\ r.held = None /\ r.group \in Groups
      BY <2>2 DEF At, TypeOK, Adapters
    <3>2. req' = [req EXCEPT ![q] = r]
      BY <2>3
    <3> HIDE DEF r
    <3> QED
      BY <2>1, <2>3, <3>1, <3>2, Settles
  <2>4. CASE req' = [req EXCEPT ![q] = At(q, "error")]
    BY <2>1, <2>4, Ends DEF Ended
  <2> QED
    BY <1>2, <2>3, <2>4 DEF Connected
<1>3. ASSUME NEW q \in Requests, Identified(q) PROVE Inv'
  <2>1. req[q].at = "asking" /\ UNCHANGED <<opened, queued>> /\ ~Made(q)
    BY <1>3 DEF Identified, Made
  <2>2. CASE AddDevice(q, req[q].group) /\ req' = [req EXCEPT ![q] = At(q, "ok")]
    BY <2>1, <2>2, Attaches
  <2>3. CASE UNCHANGED attached /\ req' = [req EXCEPT ![q] = At(q, "error")]
    BY <2>1, <2>3, Ends DEF Ended
  <2> QED
    BY <1>3, <2>2, <2>3 DEF Identified
<1>4. ASSUME NEW q \in Requests, NEW g \in Groups, Stop(q, g) PROVE Inv'
  <2>1. CASE Attached(g) /\ Popped(g) /\ Handle(q, [New("stop", g, "joining") EXCEPT !.held = attached[g]])
    <3> DEFINE r == [New("stop", g, "joining") EXCEPT !.held = attached[g]]
    <3>1. r.at = "joining" /\ r.held = attached[g]
      BY DEF New
    <3>2. req' = [req EXCEPT ![q] = r] /\ req[q].at = "idle" /\ UNCHANGED <<opened, queued>>
      BY <1>4, <2>1 DEF Handle, Stop
    <3> HIDE DEF r
    <3> QED
      BY <2>1, <3>1, <3>2, Takes DEF Made
  <2>2. CASE UNCHANGED attached /\ Handle(q, New("stop", g, "refused"))
    <3>1. /\ req' = [req EXCEPT ![q] = New("stop", g, "refused")] /\ req[q].at = "idle"
          /\ UNCHANGED <<opened, queued>>
      BY <1>4, <2>2 DEF Handle, Stop
    <3> QED
      BY <2>2, <3>1, Refused DEF Ended
  <2> QED
    BY <1>4, <2>1, <2>2 DEF Stop
<1>5. ASSUME NEW q \in Requests, NEW g \in Groups, Delete(q, g) PROVE Inv'
  <2>1. CASE Attached(g) /\ Popped(g) /\ Handle(q, [New("delete", g, "joining") EXCEPT !.held = attached[g]])
    <3> DEFINE r == [New("delete", g, "joining") EXCEPT !.held = attached[g]]
    <3>1. r.at = "joining" /\ r.held = attached[g]
      BY DEF New
    <3>2. req' = [req EXCEPT ![q] = r] /\ req[q].at = "idle" /\ UNCHANGED <<opened, queued>>
      BY <1>5, <2>1 DEF Handle, Delete
    <3> HIDE DEF r
    <3> QED
      BY <2>1, <3>1, <3>2, Takes DEF Made
  <2>2. CASE /\ UNCHANGED attached
             /\ Handle(q, New("delete", g, IF Found(g) THEN "ok" ELSE "error"))
    <3>1. /\ req[q].at = "idle" /\ UNCHANGED <<opened, queued>>
          /\ req' = [req EXCEPT ![q] = New("delete", g, IF Found(g) THEN "ok" ELSE "error")]
      BY <1>5, <2>2 DEF Handle, Delete
    <3>2. (IF Found(g) THEN "ok" ELSE "error") \in Ended
      BY DEF Ended
    <3> QED
      BY <2>2, <3>1, <3>2, Refused
  <2> QED
    BY <1>5, <2>1, <2>2 DEF Delete
<1>6. ASSUME NEW q \in Requests, Close(q) PROVE Inv'
  <2>1. {g \in Groups : Attached(g)} \in SUBSET Groups
    OBVIOUS
  <2> QED
    BY <1>6, <2>1, Nexts DEF Close, Made
<1>7. ASSUME NEW q \in Requests, Joined(q) PROVE Inv'
  BY <1>7, Moves
<1>8. ASSUME NEW q \in Requests, Detached(q) PROVE Inv'
  <2>1. req[q].at = "closing" /\ UNCHANGED queued /\ ~Made(q)
    BY <1>8 DEF Detached, Made
  <2>2. opened \ opened' \subseteq MayClose(q)
    BY <1>8, <2>1 DEF Detached, ClosesAdapter, MayClose
  <2>3. CASE req' = [req EXCEPT ![q] = At(q, "ok")] /\ UNCHANGED attached
    BY <2>1, <2>2, <2>3, Ends DEF Ended
  <2>4. CASE req' = [req EXCEPT ![q] = At(q, "error")] /\ UNCHANGED attached
    BY <2>1, <2>2, <2>4, Ends DEF Ended
  <2>5. CASE CloseNext(q, req[q].todo)
    <3>1. req[q].todo \in SUBSET Groups
      BY DEF TypeOK
    <3> QED
      BY <2>1, <2>2, <2>5, <3>1, Nexts
  <2>6. DeleteRecord(q, req[q]) => \/ req' = [req EXCEPT ![q] = At(q, "ok")]
                                   \/ req' = [req EXCEPT ![q] = At(q, "error")]
    BY DEF DeleteRecord, At
  <2> QED
    BY <1>8, <2>3, <2>4, <2>5, <2>6 DEF Detached
<1>9. ASSUME NEW q \in Requests, Disconnect(q) PROVE Inv'
  <2>1. /\ req' = [req EXCEPT ![q] = At(q, "gone")] /\ UNCHANGED <<attached, queued>> /\ ~Made(q)
        /\ opened \ opened' \subseteq MayClose(q)
    BY <1>9 DEF Disconnect, InProgress, Ended, Made, MayClose
  <2> QED
    BY <2>1, Ends DEF Ended
<1>10. ASSUME NEW g \in Groups, Put(g) PROVE Inv'
  <2>1. UNCHANGED <<attached, opened, req>> /\ Attached(g) /\ attached[g] \in opened /\ Made(attached[g])
    BY <1>10 DEF Put, Inv, ListedInv
  <2>2. \A a \in Requests : a # attached[g] => queued'[a] = queued[a]
    BY <1>10 DEF Put, TypeOK, Adapters
  <2>3. \A q \in Requests : Releasing(q) => req[q].held \in Requests /\ req[q].held # attached[g]
    BY NamesAssumption DEF Inv, ReleasingInv, TypeOK, Adapters
  <2>4. ListedInv' /\ AloneInv' /\ MakingInv'
    BY <2>1 DEF Inv, ListedInv, AloneInv, MakingInv, Attached, Made, Releasing
  <2>5. ReleasingInv'
    BY <2>1, <2>2, <2>3 DEF Inv, ReleasingInv, Made, Releasing
  <2>6. QueuedInv'
    BY <2>1, <2>2 DEF Inv, QueuedInv, Made
  <2> QED
    BY <2>4, <2>5, <2>6 DEF Inv
<1>11. ASSUME NEW a \in Requests, Serve(a) PROVE Inv'
  <2>1. UNCHANGED <<attached, opened, req>> /\ queued[a] > 0
    BY <1>11 DEF Serve
  <2>2. \A b \in Requests : b # a => queued'[b] = queued[b]
    BY <1>11 DEF Serve, Done, TypeOK, Adapters
  <2>3. \A q \in Requests : req[q].at = "closing" => req[q].held \in Requests /\ req[q].held # a
    BY <2>1, NamesAssumption DEF Inv, ReleasingInv, Releasing, TypeOK, Adapters
  <2>4. ListedInv' /\ AloneInv' /\ MakingInv'
    BY <2>1 DEF Inv, ListedInv, AloneInv, MakingInv, Attached, Made, Releasing
  <2>5. ReleasingInv'
    BY <2>1, <2>2, <2>3 DEF Inv, ReleasingInv, Made, Releasing
  <2>6. QueuedInv'
    BY <2>1, <2>2 DEF Inv, QueuedInv, Made
  <2> QED
    BY <2>4, <2>5, <2>6 DEF Inv
<1>12. CASE \E settings \in Settings :
               AddGroup(settings) \/ \E g \in Groups : UpdateGroup(g, settings)
  <2>1. UNCHANGED <<attached, opened, queued, req>>
    BY <1>12 DEF AddGroup, UpdateGroup
  <2> QED
    BY <2>1 DEF Inv, ListedInv, ReleasingInv, AloneInv, MakingInv, QueuedInv,
                Attached, Made, Releasing
<1>13. CASE UNCHANGED vars \/ \E a \in Requests : Hang(a)
  <2>1. UNCHANGED <<attached, opened, queued, req>>
    BY <1>13 DEF vars, Hang
  <2> QED
    BY <2>1 DEF Inv, ListedInv, ReleasingInv, AloneInv, MakingInv, QueuedInv,
                Attached, Made, Releasing
<1> QED
  BY <1>1, <1>2, <1>3, <1>4, <1>5, <1>6, <1>7, <1>8, <1>9, <1>10, <1>11, <1>12, <1>13
     DEF Next, Arrive, Progress


(* It holds in every reachable state. *)
THEOREM Invariance == Spec => [](TypeOK /\ Inv)
<1>1. Init => TypeOK /\ Inv
  BY TypeInit, InvInit
<1>2. TypeOK /\ Inv /\ [Next]_vars => (TypeOK /\ Inv)'
  BY TypeStep, InvStep
<1> QED
  BY <1>1, <1>2, PTL DEF Spec

-----------------------------------------------------------------------------
(* What follows from it *)

(* A stop or a deletion closes no adapter under the commands it has accepted, *)
(* however requests, failures and lost clients interleave. *)
THEOREM CommandsServedOpen == Spec => []CommandsOnOpenAdapter
<1>1. Inv => CommandsOnOpenAdapter
  BY DEF Inv, QueuedInv, CommandsOnOpenAdapter, Adapters
<1> QED
  BY <1>1, Invariance, PTL

(* A listed device is open, belongs to its group and is nobody's to close. *)
THEOREM ListedIsOpen == Spec => []AttachedIsOpen
<1>1. TypeOK /\ Inv => AttachedIsOpen
  <2> SUFFICES ASSUME TypeOK, Inv, NEW g \in Groups, Attached(g),
                      NEW q \in Requests, InProgress(q)
               PROVE  req[q].held # attached[g]
    BY DEF AttachedIsOpen, Inv, ListedInv
  <2>1. CASE Releasing(q)
    BY <2>1 DEF Inv, ReleasingInv
  <2>2. CASE ~Releasing(q)
    <3>1. req[q].at \in {"connecting", "asking"}
      BY <2>2 DEF InProgress, Releasing, TypeOK
    <3> QED
      BY <3>1 DEF Inv, MakingInv, Attached
  <2> QED
    BY <2>1, <2>2
<1> QED
  BY <1>1, Invariance, PTL

(* Devices stand, and are on their way, at ids that were given. *)
LEMMA IdsStep == ASSUME TypeOK, Inv, IdsInv, [Next]_vars PROVE IdsInv'
<1>1. lastId \in Nat /\ \A g \in DOMAIN records : g <= lastId
  BY DEF TypeOK
<1>2. lastId' \in {lastId, lastId + 1}
  BY DEF Next, Arrive, Progress, Run, Stop, Delete, Close, Connected, Identified, Joined,
         Detached, Disconnect, Put, Serve, Hang, AddGroup, UpdateGroup, NewId, groupVars, vars
<1>3. \A q \in Requests : req'[q].at \in {"connecting", "asking"} => req'[q].group <= lastId
  <2> DEFINE Kept(r) == r.at \in {"connecting", "asking"} => r.group <= lastId
  <2>0. \A q \in Requests : Kept(req[q])
    BY DEF IdsInv
  <2>1. ASSUME NEW q \in Requests, NEW r, Kept(r), req' = [req EXCEPT ![q] = r]
        PROVE  \A p \in Requests : Kept(req'[p])
    BY <2>0, <2>1 DEF TypeOK
  <2>2. ASSUME NEW q \in Requests, NEW where, req' = [req EXCEPT ![q] = At(q, where)],
               req[q].at \in {"connecting", "asking"} \/ where \notin {"connecting", "asking"}
        PROVE  \A p \in Requests : Kept(req'[p])
    <3>1. At(q, where).at = where /\ At(q, where).group = req[q].group
      BY DEF At, TypeOK
    <3>2. Kept(At(q, where))
      BY <2>0, <2>2, <3>1
    <3> HIDE DEF Kept
    <3> QED
      BY <2>1, <2>2, <3>2
  <2>3. ASSUME NEW q \in Requests, NEW todo, CloseNext(q, todo)
        PROVE  \A p \in Requests : Kept(req'[p])
    <3>1. ASSUME NEW r, req' = [req EXCEPT ![q] = r], r.at \in {"ok", "joining", "error"}
          PROVE  \A p \in Requests : Kept(req'[p])
      BY <2>1, <3>1
    <3>2. CASE req' = [req EXCEPT ![q] = New("close", None, "ok")]
      <4>1. New("close", None, "ok").at = "ok"
        BY DEF New
      <4> HIDE DEF Kept
      <4> QED
        BY <3>1, <3>2, <4>1
    <3>3. ASSUME NEW g, req' = [req EXCEPT ![q] = [New("close", None, "joining")
                                     EXCEPT !.held = attached[g], !.todo = todo \ {g}]]
          PROVE  \A p \in Requests : Kept(req'[p])
      <4> DEFINE r == [New("close", None, "joining")
                       EXCEPT !.held = attached[g], !.todo = todo \ {g}]
      <4>1. r.at = "joining"
        BY DEF New
      <4>2. req' = [req EXCEPT ![q] = r]
        BY <3>3
      <4> HIDE DEF Kept, r
      <4> QED
        BY <3>1, <4>1, <4>2
    <3>4. ASSUME NEW g, req' = [req EXCEPT ![q] = [New("close", None, "error")
                                     EXCEPT !.todo = todo \ {g}]]
          PROVE  \A p \in Requests : Kept(req'[p])
      <4> DEFINE r == [New("close", None, "error") EXCEPT !.todo = todo \ {g}]
      <4>1. r.at = "error"
        BY DEF New
      <4>2. req' = [req EXCEPT ![q] = r]
        BY <3>4
      <4> HIDE DEF Kept, r
      <4> QED
        BY <3>1, <4>1, <4>2
    <3> HIDE DEF Kept
    <3> QED
      BY <2>3, <3>2, <3>3, <3>4 DEF CloseNext
  <2>4. ASSUME NEW q \in Requests, NEW g \in Groups, Run(q, g)
        PROVE  \A p \in Requests : Kept(req'[p])
    <3> DEFINE r == New("run", g, IF Enabled(g) /\ ~Attached(g) THEN "connecting" ELSE "refused")
    <3>1. req' = [req EXCEPT ![q] = r]
      BY <2>4 DEF Run, Handle
    <3>2. Kept(r)
      BY <1>1 DEF New, Enabled, Found
    <3> HIDE DEF Kept, r
    <3> QED
      BY <2>1, <3>1, <3>2
  <2>5. ASSUME NEW q \in Requests, NEW g \in Groups, Stop(q, g) \/ Delete(q, g)
        PROVE  \A p \in Requests : Kept(req'[p])
    <3>1. PICK r : req' = [req EXCEPT ![q] = r] /\ r.at \in {"joining", "refused", "ok", "error"}
      BY <2>5 DEF Stop, Delete, Handle, New
    <3>2. Kept(r)
      BY <3>1
    <3> HIDE DEF Kept
    <3> QED
      BY <2>1, <3>1, <3>2
  <2>6. ASSUME NEW q \in Requests, DeleteRecord(q, req[q])
        PROVE  \A p \in Requests : Kept(req'[p])
    <3>1. req' = [req EXCEPT ![q] = At(q, "ok")] \/ req' = [req EXCEPT ![q] = At(q, "error")]
      BY <2>6 DEF DeleteRecord, At
    <3> HIDE DEF Kept
    <3> QED
      BY <2>2, <3>1
  <2>7. ASSUME NEW q \in Requests, Detached(q) PROVE \A p \in Requests : Kept(req'[p])
    <3> HIDE DEF Kept
    <3> QED
      BY <2>2, <2>3, <2>6, <2>7 DEF Detached
  <2>8. ASSUME NEW q \in Requests, Connected(q) \/ Identified(q) \/ Joined(q) \/ Disconnect(q)
        PROVE  \A p \in Requests : Kept(req'[p])
    <3> HIDE DEF Kept
    <3> QED
      BY <2>2, <2>8 DEF Connected, Identified, Joined, Disconnect
  <2>9. ASSUME NEW q \in Requests, Close(q) PROVE \A p \in Requests : Kept(req'[p])
    <3> HIDE DEF Kept
    <3> QED
      BY <2>3, <2>9 DEF Close
  <2>10. ASSUME UNCHANGED req PROVE \A p \in Requests : Kept(req'[p])
    BY <2>0, <2>10
  <2> HIDE DEF Kept
  <2>11. \A q \in Requests : Kept(req'[q])
    BY <2>4, <2>5, <2>7, <2>8, <2>9, <2>10
       DEF Next, Arrive, Progress, Put, Serve, Hang, AddGroup, UpdateGroup, vars
  <2> QED
    BY <2>11 DEF Kept
<1>4. \A g \in Groups : attached'[g] # None => g <= lastId
  <2>0. \A g \in Groups : Attached(g) => g <= lastId
    BY DEF IdsInv
  <2>1. ASSUME NEW h, Popped(h) PROVE \A g \in Groups : attached'[g] # None => g <= lastId
    BY <2>0, <2>1 DEF Popped, Attached, TypeOK
  <2>2. ASSUME NEW q \in Requests, Identified(q)
        PROVE  \A g \in Groups : attached'[g] # None => g <= lastId
    <3>1. req[q].group <= lastId
      BY <2>2 DEF Identified, IdsInv
    <3> QED
      BY <2>0, <2>2, <3>1 DEF Identified, AddDevice, Attached, TypeOK
  <2>3. CASE UNCHANGED attached
    BY <2>0, <2>3 DEF Attached
  <2> QED
    BY <2>1, <2>2, <2>3
       DEF Next, Arrive, Progress, Run, Stop, Delete, Close, CloseNext, Connected, Joined, Detached,
           DeleteRecord, Disconnect, Put, Serve, Hang, AddGroup, UpdateGroup, vars
<1>5. \A g \in Groups : Attached(g)' => g <= lastId'
  BY <1>1, <1>2, <1>4 DEF Attached, Groups
<1>6. \A q \in Requests : req'[q].at \in {"connecting", "asking"} => req'[q].group <= lastId'
  <2>1. \A q \in Requests : req'[q].at \in {"connecting", "asking"} => req'[q].group \in Groups
    BY InvStep DEF Inv, MakingInv
  <2> QED
    BY <1>1, <1>2, <1>3, <2>1 DEF Groups
<1> QED
  BY <1>5, <1>6 DEF IdsInv

(* A group that is made finds no device at its id. *)
LEMMA NewGroupsAreBare ==
  ASSUME TypeOK, IdsInv, [Next]_vars, NEW g \in DOMAIN records' \ DOMAIN records
  PROVE  ~Attached(g)
<1>0. GroupsOK /\ lastId \in Nat
  BY DEF TypeOK, GroupsOK
<1>1. ASSUME NEW settings \in Settings, AddGroup(settings) PROVE ~Attached(g)
  <2>1. g = lastId + 1 /\ g \in Groups
    BY <1>0, <1>1, AddGroupTypes DEF AddGroup, NewId
  <2> QED
    BY <1>0, <2>1 DEF IdsInv
<1>2. ASSUME NEW h \in Groups, NEW settings \in Settings, UpdateGroup(h, settings) PROVE FALSE
  BY <1>0, <1>2, UpdateGroupTypes
<1>3. ASSUME NEW h, Dropped(h) PROVE FALSE
  BY <1>3 DEF Dropped
<1>4. CASE UNCHANGED records
  BY <1>4
<1> QED
  BY <1>1, <1>2, <1>3, <1>4
     DEF Next, Arrive, Progress, Run, Stop, Delete, Close, CloseNext, Connected, Identified, Joined,
         Detached, DeleteRecord, Disconnect, Put, Serve, Hang, groupVars, vars

(* However stale the check of a run, no device is evicted from its group: what a *)
(* step changes in the list is an empty place or leaves one. *)
LEMMA EvictsNothing ==
  ASSUME TypeOK, [Next]_vars, NEW g \in Groups, Attached(g)
  PROVE  attached'[g] \in {attached[g], None}
<1>1. ASSUME NEW h \in Groups, Popped(h) PROVE attached'[g] \in {attached[g], None}
  BY <1>1 DEF Popped, TypeOK
<1>2. ASSUME NEW q \in Requests, NEW todo \in SUBSET Groups, CloseNext(q, todo)
      PROVE  attached'[g] \in {attached[g], None}
  BY <1>1, <1>2 DEF CloseNext
<1>3. ASSUME NEW q \in Requests, Identified(q) PROVE attached'[g] \in {attached[g], None}
  <2>1. CASE AddDevice(q, req[q].group)
    <3>1. req[q].group # g
      BY <2>1 DEF AddDevice
    <3> QED
      BY <2>1, <3>1 DEF AddDevice, TypeOK
  <2> QED
    BY <1>3, <2>1 DEF Identified
<1>4. ASSUME NEW q \in Requests, NEW h \in Groups, Run(q, h) \/ Stop(q, h) \/ Delete(q, h)
      PROVE  attached'[g] \in {attached[g], None}
  BY <1>1, <1>4 DEF Run, Stop, Delete
<1>5. ASSUME NEW q \in Requests, Close(q) \/ Detached(q)
      PROVE  attached'[g] \in {attached[g], None}
  <2>1. req[q].todo \in SUBSET Groups
    BY DEF TypeOK
  <2>2. {h \in Groups : Attached(h)} \in SUBSET Groups
    OBVIOUS
  <2> QED
    BY <1>2, <1>5, <2>1, <2>2 DEF Close, Detached
<1>6. CASE UNCHANGED attached
  BY <1>6
<1> QED
  BY <1>3, <1>4, <1>5, <1>6
     DEF Next, Arrive, Progress, Connected, Joined, Disconnect, Put, Serve, Hang, AddGroup,
         UpdateGroup, vars

(* No request ever takes the place of an attached device, and no new group finds one *)
(* at its place. *)
THEOREM NothingEvicted == Spec => NeverEvicts
<1>1. Init => IdsInv
  BY DEF Init, IdsInv, Attached
<1>2. TypeOK /\ Inv /\ IdsInv /\ [Next]_vars => IdsInv'
  BY IdsStep
<1>3. TypeOK /\ IdsInv /\ [Next]_vars =>
          [/\ \A g \in Groups : Attached(g) => attached'[g] \in {attached[g], None}
           /\ \A g \in DOMAIN records' \ DOMAIN records : ~Attached(g)]_vars
  BY EvictsNothing, NewGroupsAreBare
<1> QED
  BY <1>1, <1>2, <1>3, Invariance, PTL DEF Spec, NeverEvicts

-----------------------------------------------------------------------------
(* Whose the open adapters are *)

(* An adapter is open from its connection on, when its request has come that far. *)
OpenedInv == \A a \in opened : /\ req[a].at \in {"asking", "ok", "error", "gone"}
                               /\ req[a].group \in Groups

(* It is its group's, of whoever detaches it or has failed to, or its maker's, who is *)
(* about to list it or has failed to. *)
Listed(a) == \E g \in Groups : attached[g] = a
Taken(a) == \E q \in Requests : Releasing(q) /\ req[q].held = a
Abandoned(a) == \E q \in Requests : req[q].at \in {"error", "gone"} /\ req[q].held = a
OwnersInv ==
    \A a \in opened :
        Listed(a) \/ Taken(a) \/ Abandoned(a) \/ req[a].at \in {"asking", "error", "gone"}

(* No handler that goes on loses sight of an adapter: what it takes off the list it *)
(* holds, and what it holds it closes or fails with. *)
LEMMA OwnersFrame ==
  ASSUME TypeOK, Inv, OpenedInv, OwnersInv, NEW q \in Requests, req[q].at \notin Ended,
         NEW r, req' = [req EXCEPT ![q] = r],
         opened' \ opened \subseteq {q},
         q \in opened' => /\ r.group \in Groups
                          /\ \/ r.at \in {"asking", "error", "gone"}
                             \/ r.at = "ok" /\ attached'[r.group] = q,
         \A g \in Groups : Attached(g) => \/ attached'[g] = attached[g]
                                          \/ r.at = "joining" /\ r.held = attached[g],
         Releasing(q) /\ req[q].held \in opened' =>
             r.held = req[q].held /\ r.at \in {"joining", "closing", "error", "gone"}
  PROVE  OpenedInv' /\ OwnersInv'
<1>1. /\ req'[q] = r /\ \A p \in Requests : p # q => req'[p] = req[p]
      /\ opened \subseteq Requests
  BY DEF TypeOK, Adapters
<1>2. ASSUME NEW a \in opened', a # q PROVE a \in opened /\ req'[a] = req[a]
  BY <1>1, <1>2
<1>3. OpenedInv'
  BY <1>1, <1>2 DEF OpenedInv
<1>4. ASSUME NEW a \in opened', a # q
      PROVE  Listed(a)' \/ Taken(a)' \/ Abandoned(a)' \/ req'[a].at \in {"asking", "error", "gone"}
  <2>1. CASE Listed(a)
    <3>1. PICK g \in Groups : attached[g] = a
      BY <2>1 DEF Listed
    <3>2. a # None
      BY <1>1, <1>2, <1>4, NamesAssumption
    <3>3. attached'[g] = a \/ (r.at = "joining" /\ r.held = a)
      BY <3>1, <3>2 DEF Attached
    <3> QED
      BY <1>1, <3>3 DEF Listed, Taken, Releasing
  <2>2. CASE Taken(a)
    <3>1. PICK p \in Requests : Releasing(p) /\ req[p].held = a
      BY <2>2 DEF Taken
    <3>2. CASE p = q
      BY <1>1, <3>1, <3>2 DEF Taken, Abandoned, Releasing
    <3>3. CASE p # q
      BY <1>1, <3>1, <3>3 DEF Taken, Releasing
    <3> QED
      BY <3>2, <3>3
  <2>3. CASE Abandoned(a)
    <3>1. PICK p \in Requests : req[p].at \in {"error", "gone"} /\ req[p].held = a
      BY <2>3 DEF Abandoned
    <3>2. req'[p] = req[p]
      BY <1>1, <3>1 DEF Ended
    <3> QED
      BY <3>1, <3>2 DEF Abandoned
  <2>4. a \in opened /\ req'[a] = req[a]
    BY <1>2, <1>4
  <2> QED
    BY <2>1, <2>2, <2>3, <2>4 DEF OwnersInv
<1>5. q \in opened' => Listed(q)' \/ req'[q].at \in {"asking", "error", "gone"}
  BY <1>1 DEF Listed
<1>6. OwnersInv'
  BY <1>4, <1>5 DEF OwnersInv
<1> QED
  BY <1>3, <1>6

(* At the start nothing is open, and every handler, command and lost client leaves an *)
(* owner to each open adapter. *)
LEMMA OwnersStep ==
  ASSUME TypeOK, Inv, OpenedInv, OwnersInv, [Next]_vars
  PROVE  OpenedInv' /\ OwnersInv'
<1> DEFINE Goal == OpenedInv' /\ OwnersInv'
<1>0. \A q \in Requests : req[q].at = "idle" => q \notin opened /\ ~Releasing(q)
  BY DEF OpenedInv, Releasing
<1>1. ASSUME NEW q \in Requests, NEW r, req[q].at = "idle", req' = [req EXCEPT ![q] = r],
             UNCHANGED opened,
             \A g \in Groups : Attached(g) => \/ attached'[g] = attached[g]
                                              \/ r.at = "joining" /\ r.held = attached[g]
      PROVE  Goal
  BY <1>0, <1>1, OwnersFrame DEF Ended
<1>2. ASSUME NEW q \in Requests, NEW todo \in SUBSET Groups, CloseNext(q, todo),
             req[q].at \notin Ended, opened' \subseteq opened, q \notin opened',
             Releasing(q) => req[q].held \notin opened'
      PROVE  Goal
  <2>1. PICK r : /\ req' = [req EXCEPT ![q] = r]
                 /\ \A g \in Groups : Attached(g) => \/ attached'[g] = attached[g]
                                                     \/ r.at = "joining" /\ r.held = attached[g]
    <3>1. CASE req' = [req EXCEPT ![q] = New("close", None, "ok")] /\ UNCHANGED attached
      BY <3>1
    <3>2. ASSUME NEW g \in todo, Attached(g), Popped(g),
                 req' = [req EXCEPT ![q] = [New("close", None, "joining")
                                            EXCEPT !.held = attached[g], !.todo = todo \ {g}]]
          PROVE  \E r : /\ req' = [req EXCEPT ![q] = r]
                        /\ \A h \in Groups : Attached(h) =>
                               \/ attached'[h] = attached[h]
                               \/ r.at = "joining" /\ r.held = attached[h]
      <4> DEFINE r == [New("close", None, "joining")
                       EXCEPT !.held = attached[g], !.todo = todo \ {g}]
      <4>1. r.at = "joining" /\ r.held = attached[g]
        BY DEF New
      <4>2. \A h \in Groups : h # g => attached'[h] = attached[h]
        BY <3>2 DEF Popped, TypeOK
      <4>3. req' = [req EXCEPT ![q] = r]
        BY <3>2
      <4> HIDE DEF r
      <4> QED
        BY <4>1, <4>2, <4>3
    <3>3. CASE UNCHANGED attached /\ \E g \in todo :
                  req' = [req EXCEPT ![q] = [New("close", None, "error")
                                             EXCEPT !.todo = todo \ {g}]]
      BY <3>3
    <3> QED
      BY <1>2, <3>1, <3>2, <3>3 DEF CloseNext
  <2> QED
    BY <1>2, <2>1, OwnersFrame
<1>3. ASSUME NEW q \in Requests, NEW g \in Groups, Run(q, g) PROVE Goal
  BY <1>1, <1>3 DEF Run, Handle
<1>4. ASSUME NEW q \in Requests, NEW g \in Groups, Stop(q, g) \/ Delete(q, g) PROVE Goal
  <2>1. /\ req[q].at = "idle" /\ UNCHANGED opened
        /\ \E r : /\ req' = [req EXCEPT ![q] = r]
                  /\ UNCHANGED attached \/ (Popped(g) /\ r.at = "joining" /\ r.held = attached[g])
    <3>1. \A kind : [New(kind, g, "joining") EXCEPT !.held = attached[g]].at = "joining"
                    /\ [New(kind, g, "joining") EXCEPT !.held = attached[g]].held = attached[g]
      BY DEF New
    <3> QED
      BY <1>4, <3>1 DEF Stop, Delete, Handle
  <2>2. Popped(g) => \A h \in Groups : h # g => attached'[h] = attached[h]
    BY DEF Popped, TypeOK
  <2> QED
    BY <1>1, <2>1, <2>2
<1>5. ASSUME NEW q \in Requests, Close(q) PROVE Goal
  <2>1. /\ req[q].at = "idle" /\ UNCHANGED opened /\ CloseNext(q, {g \in Groups : Attached(g)})
        /\ {g \in Groups : Attached(g)} \in SUBSET Groups
    BY <1>5 DEF Close
  <2> QED
    BY <1>0, <1>2, <2>1 DEF Ended
<1>6. ASSUME NEW q \in Requests, Connected(q) PROVE Goal
  <2>1. req[q].at = "connecting" /\ UNCHANGED attached /\ req[q].group \in Groups
    BY <1>6 DEF Connected, Inv, MakingInv
  <2>2. ~Releasing(q) /\ q \notin opened /\ req[q].at \notin Ended
    BY <2>1 DEF Releasing, OpenedInv, Ended
  <2>3. PICK r : /\ req' = [req EXCEPT ![q] = r] /\ r.group = req[q].group
                 /\ r.at \in {"asking", "error"} /\ opened' \ opened \subseteq {q}
    <3>1. \A where : At(q, where).at = where /\ At(q, where).group = req[q].group
      BY DEF At, TypeOK
    <3> QED
      BY <1>6, <3>1 DEF Connected
  <2> QED
    BY <2>1, <2>2, <2>3, OwnersFrame
<1>7. ASSUME NEW q \in Requests, Identified(q) PROVE Goal
  <2>1. req[q].at = "asking" /\ UNCHANGED opened /\ req[q].group \in Groups
    BY <1>7 DEF Identified, Inv, MakingInv
  <2>2. ~Releasing(q) /\ req[q].at \notin Ended
    BY <2>1 DEF Releasing, Ended
  <2>3. PICK r : /\ req' = [req EXCEPT ![q] = r] /\ r.group = req[q].group
                 /\ \/ r.at = "ok" /\ AddDevice(q, r.group)
                    \/ r.at = "error" /\ UNCHANGED attached
    <3>1. \A where : At(q, where).at = where /\ At(q, where).group = req[q].group
      BY DEF At, TypeOK
    <3> QED
      BY <1>7, <3>1 DEF Identified
  <2>4. AddDevice(q, r.group) =>
            /\ attached'[r.group] = q
            /\ \A g \in Groups : Attached(g) => attached'[g] = attached[g]
    BY <2>1, <2>3 DEF AddDevice, TypeOK
  <2> QED
    BY <2>1, <2>2, <2>3, <2>4, OwnersFrame
<1>8. ASSUME NEW q \in Requests, Joined(q) PROVE Goal
  <2>1. req[q].at = "joining" /\ UNCHANGED <<attached, opened>>
    BY <1>8 DEF Joined
  <2>2. q \notin opened /\ req[q].at \notin Ended
    BY <2>1 DEF OpenedInv, Ended
  <2>3. PICK r : req' = [req EXCEPT ![q] = r] /\ r.at = "closing" /\ r.held = req[q].held
    <3>1. At(q, "closing").at = "closing" /\ At(q, "closing").held = req[q].held
      BY DEF At, TypeOK
    <3> QED
      BY <1>8, <3>1 DEF Joined
  <2> QED
    BY <2>1, <2>2, <2>3, OwnersFrame
<1>9. ASSUME NEW q \in Requests, Detached(q) PROVE Goal
  <2>1. req[q].at = "closing" /\ q \notin opened /\ req[q].at \notin Ended
    BY <1>9 DEF Detached, OpenedInv, Ended
  <2>2. CASE ClosesAdapter(req[q].held) /\ req[q].kind = "close" /\ CloseNext(q, req[q].todo)
    <3>1. req[q].todo \in SUBSET Groups /\ opened' \subseteq opened /\ req[q].held \notin opened'
      BY <2>2 DEF TypeOK, ClosesAdapter
    <3> QED
      BY <1>2, <2>1, <2>2, <3>1
  <2>3. CASE UNCHANGED attached /\ \E r : /\ req' = [req EXCEPT ![q] = r]
                                          /\ \/ ClosesAdapter(req[q].held)
                                             \/ /\ UNCHANGED opened /\ r.at = "error"
                                                /\ r.held = req[q].held
    <3>1. PICK r : /\ req' = [req EXCEPT ![q] = r]
                   /\ \/ ClosesAdapter(req[q].held)
                      \/ UNCHANGED opened /\ r.at = "error" /\ r.held = req[q].held
      BY <2>3
    <3>2. opened' \subseteq opened /\ (req[q].held \in opened' => r.at = "error" /\ r.held = req[q].held)
      BY <3>1 DEF ClosesAdapter
    <3> QED
      BY <2>1, <2>3, <3>1, <3>2, OwnersFrame
  <2>4. At(q, "error").at = "error" /\ At(q, "error").held = req[q].held
    BY DEF At, TypeOK
  <2> QED
    BY <1>9, <2>2, <2>3, <2>4 DEF Detached, DeleteRecord
<1>10. ASSUME NEW q \in Requests, Disconnect(q) PROVE Goal
  <2>1. PICK r : /\ req' = [req EXCEPT ![q] = r] /\ r.at = "gone"
                 /\ r.held = req[q].held /\ r.group = req[q].group
    <3>1. /\ At(q, "gone").at = "gone" /\ At(q, "gone").held = req[q].held
          /\ At(q, "gone").group = req[q].group
      BY DEF At, TypeOK
    <3> QED
      BY <1>10, <3>1 DEF Disconnect
  <2>2. /\ req[q].at \notin Ended /\ UNCHANGED attached
        /\ opened' \ opened \subseteq {q}
        /\ req[q].at = "connecting" \/ opened' \subseteq opened
    BY <1>10 DEF Disconnect, InProgress
  <2>3. q \in opened' => req[q].group \in Groups
    BY <2>2 DEF OpenedInv, Inv, MakingInv
  <2> QED
    BY <2>1, <2>2, <2>3, OwnersFrame
<1>11. CASE UNCHANGED <<attached, opened, req>>
  BY <1>11 DEF OpenedInv, OwnersInv, Listed, Taken, Abandoned, Releasing
<1> QED
  BY <1>3, <1>4, <1>5, <1>6, <1>7, <1>8, <1>9, <1>10, <1>11
     DEF Next, Arrive, Progress, Put, Serve, Hang, AddGroup, UpdateGroup, vars

(* Every reachable state has it. *)
THEOREM OwnersInvariance == Spec => [](OpenedInv /\ OwnersInv)
<1>1. Init => OpenedInv /\ OwnersInv
  BY DEF Init, OpenedInv, OwnersInv
<1>2. TypeOK /\ Inv /\ OpenedInv /\ OwnersInv /\ [Next]_vars => (OpenedInv /\ OwnersInv)'
  BY OwnersStep
<1> QED
  BY <1>1, <1>2, Invariance, PTL DEF Spec

(* An adapter stays open behind a request only when that request ended with an exception *)
(* or was cancelled; any other open adapter is listed or in somebody's hands. *)
THEOREM OnlyErrorsLeak == Spec => []LeaksAreErrors
<1>1. TypeOK /\ OpenedInv /\ OwnersInv => LeaksAreErrors
  <2> SUFFICES ASSUME TypeOK, OwnersInv, NEW a \in opened,
                      ~Listed(a)
               PROVE  InHand(a) \/ LeftBehind(a)
    BY DEF LeaksAreErrors, Listed
  <2>1. a \in Requests
    BY DEF TypeOK, Adapters
  <2>2. Taken(a) => InHand(a)
    BY DEF Taken, InHand, InProgress, Releasing, Ended
  <2>3. Abandoned(a) \/ req[a].at \in {"error", "gone"} => LeftBehind(a)
    BY <2>1 DEF Abandoned, LeftBehind
  <2>4. req[a].at = "asking" => InHand(a)
    BY <2>1 DEF InHand, InProgress, Ended
  <2> QED
    BY <2>2, <2>3, <2>4 DEF OwnersInv
<1> QED
  BY <1>1, Invariance, OwnersInvariance, PTL

-----------------------------------------------------------------------------
(* One administrator at a time *)

(* One request is under way; a listed device's group is there and enabled, as is that of *)
(* a device on its way to the list, which is empty; so is the list where a device was *)
(* that is on its way to be closed. *)
OneAtATime == \A p, q \in Requests : InProgress(p) /\ InProgress(q) => p = q
EnabledInv == \A g \in Groups : Attached(g) => Enabled(g)
RunInv == \A q \in Requests : req[q].at \in {"connecting", "asking"} =>
              Enabled(req[q].group) /\ ~Attached(req[q].group)
EmptiedInv == \A q \in Requests : Releasing(q) =>
              /\ ~Attached(req[req[q].held].group)
              /\ req[q].kind = "delete" => ~Attached(req[q].group)

SoloInv == OneAtATime /\ EnabledInv /\ RunInv /\ EmptiedInv

(* When q alone is under way, what its step has to show is about q, the group it works *)
(* on and the device it holds. *)
LEMMA SoloFrame ==
  ASSUME TypeOK, Inv, SoloInv, NEW q \in Requests,
         \A p \in Requests : p # q => ~InProgress(p),
         NEW r, req' = [req EXCEPT ![q] = r],
         EnabledInv',
         r.at \in {"connecting", "asking"} => Enabled(r.group)' /\ ~Attached(r.group)',
         r.at \in {"joining", "closing"} =>
             /\ r.held # q /\ r.held \in Requests
             /\ attached'[req[r.held].group] = None
             /\ r.kind = "delete" => ~Attached(r.group)'
  PROVE  SoloInv'
<1>1. req'[q] = r /\ \A p \in Requests : p # q => req'[p] = req[p]
  BY DEF TypeOK
<1>2. \A p \in Requests : p # q => ~InProgress(p)'
  BY <1>1 DEF InProgress
<1>3. \A p \in Requests : p # q => req'[p].at \notin {"connecting", "asking", "joining", "closing"}
  BY <1>2 DEF InProgress, Ended
<1>4. OneAtATime'
  BY <1>2 DEF OneAtATime
<1>5. RunInv'
  BY <1>1, <1>3 DEF RunInv
<1>6. EmptiedInv'
  BY <1>1, <1>3 DEF EmptiedInv, Releasing, Attached
<1> QED
  BY <1>4, <1>5, <1>6 DEF SoloInv

(* A group stays there and enabled unless its own record is dropped. *)
LEMMA EnabledStays ==
  ASSUME TypeOK, NEW g, Enabled(g),
         \/ UNCHANGED records
         \/ \E settings \in Settings : AddGroup(settings)
         \/ \E h \in Groups, settings \in Settings : UpdateGroup(h, settings)
         \/ \E h : Dropped(h) /\ h # g
  PROVE  Enabled(g)'
<1>1. CASE UNCHANGED records
  BY <1>1 DEF Enabled, Found
<1>2. ASSUME NEW settings \in Settings, AddGroup(settings) PROVE Enabled(g)'
  <2>1. lastId + 1 # g
    BY DEF Enabled, Found, TypeOK
  <2> QED
    BY <1>2, <2>1 DEF AddGroup, NewId, Enabled, Found
<1>3. ASSUME NEW h \in Groups, NEW settings \in Settings, UpdateGroup(h, settings) PROVE Enabled(g)'
  <2>1. records[h] \in Settings
    BY <1>3 DEF UpdateGroup, Found, TypeOK
  <2>2. Updated(records[h], settings).enabled = records[h].enabled
    BY <2>1 DEF Updated, Settings
  <2> QED
    BY <1>3, <2>2 DEF UpdateGroup, Enabled, Found, TypeOK
<1>4. ASSUME NEW h, Dropped(h), h # g PROVE Enabled(g)'
  BY <1>4 DEF Dropped, Enabled, Found
<1> QED
  BY <1>1, <1>2, <1>3, <1>4

(* close() that goes on, with every listed device's group there and enabled. *)
LEMMA SoloNexts ==
  ASSUME TypeOK, Inv, SoloInv, NEW q \in Requests, ~Made(q),
         \A p \in Requests : p # q => ~InProgress(p),
         NEW todo \in SUBSET Groups, CloseNext(q, todo),
         UNCHANGED records
  PROVE  SoloInv'
<1>1. \A g \in Groups : Attached(g) => Enabled(g)'
  BY EnabledStays DEF SoloInv, EnabledInv
<1>2. \A where : New("close", None, where).at = where /\ New("close", None, where).kind = "close"
  BY DEF New
<1>3. CASE req' = [req EXCEPT ![q] = New("close", None, "ok")] /\ UNCHANGED attached
  <2> DEFINE r == New("close", None, "ok")
  <2>1. r.at = "ok" /\ req' = [req EXCEPT ![q] = r] /\ EnabledInv'
    BY <1>1, <1>2, <1>3 DEF EnabledInv, Attached
  <2> HIDE DEF r
  <2> QED
    BY <1>3, <2>1, SoloFrame
<1>4. ASSUME NEW g \in todo, Attached(g), Popped(g),
             req' = [req EXCEPT ![q] = [New("close", None, "joining")
                                        EXCEPT !.held = attached[g], !.todo = todo \ {g}]]
      PROVE  SoloInv'
  <2> DEFINE r == [New("close", None, "joining") EXCEPT !.held = attached[g], !.todo = todo \ {g}]
  <2>1. r.at = "joining" /\ r.kind = "close" /\ r.held = attached[g]
    BY DEF New
  <2>2. attached'[g] = None /\ \A h \in Groups : h # g => attached'[h] = attached[h]
    BY <1>4 DEF Popped, TypeOK
  <2>3. attached[g] \in Requests /\ Made(attached[g]) /\ req[attached[g]].group = g
    BY <1>4 DEF Inv, ListedInv, TypeOK, Adapters, Attached
  <2>4. req' = [req EXCEPT ![q] = r]
    BY <1>4
  <2>5. EnabledInv'
    BY <1>1, <2>2 DEF EnabledInv, Attached
  <2> HIDE DEF r
  <2> QED
    BY <2>1, <2>2, <2>3, <2>4, <2>5, SoloFrame
<1>5. ASSUME NEW g \in todo, UNCHANGED attached,
             req' = [req EXCEPT ![q] = [New("close", None, "error")
                                        EXCEPT !.todo = todo \ {g}]]
      PROVE  SoloInv'
  <2> DEFINE r == [New("close", None, "error") EXCEPT !.todo = todo \ {g}]
  <2>1. r.at = "error" /\ req' = [req EXCEPT ![q] = r] /\ EnabledInv'
    BY <1>1, <1>5 DEF New, EnabledInv, Attached
  <2> HIDE DEF r
  <2> QED
    BY <1>5, <2>1, SoloFrame
<1> QED
  BY <1>3, <1>4, <1>5 DEF CloseNext

(* A request that arrives when none is under way. *)
LEMMA SoloArrive ==
  ASSUME TypeOK, Inv, alone, SoloInv, NEW q \in Requests, Arrive(q)
  PROVE  SoloInv'
<1>1. req[q].at = "idle" /\ \A p \in Requests : ~InProgress(p)
  BY DEF Arrive, Run, Stop, Delete, Close, Handle, MayAsk
<1>2. ~Made(q)
  BY <1>1 DEF Made
<1>3. \A kind, g, where : /\ New(kind, g, where).at = where /\ New(kind, g, where).kind = kind
                          /\ New(kind, g, where).group = g
  BY DEF New
<1>4. ASSUME NEW g \in Groups, Run(q, g) PROVE SoloInv'
  <2> DEFINE r == New("run", g, IF Enabled(g) /\ ~Attached(g) THEN "connecting" ELSE "refused")
  <2>1. req' = [req EXCEPT ![q] = r] /\ UNCHANGED <<records, attached>>
    BY <1>4 DEF Run, Handle, groupVars
  <2>2. /\ r.at \in {"connecting", "refused"} /\ r.group = g
        /\ r.at = "connecting" => Enabled(g)' /\ ~Attached(g)'
    BY <1>3, <2>1 DEF Enabled, Found, Attached
  <2>3. EnabledInv'
    BY <2>1, EnabledStays DEF SoloInv, EnabledInv, Attached
  <2> HIDE DEF r
  <2> QED
    BY <1>1, <1>2, <2>1, <2>2, <2>3, SoloFrame
<1>5. ASSUME NEW g \in Groups, NEW kind \in {"stop", "delete"}, Attached(g), Popped(g),
             Handle(q, [New(kind, g, "joining") EXCEPT !.held = attached[g]]),
             UNCHANGED records
      PROVE  SoloInv'
  <2> DEFINE r == [New(kind, g, "joining") EXCEPT !.held = attached[g]]
  <2>1. r.at = "joining" /\ r.group = g /\ r.held = attached[g]
    BY DEF New
  <2>2. attached'[g] = None /\ \A h \in Groups : h # g => attached'[h] = attached[h]
    BY <1>5 DEF Popped, TypeOK
  <2>3. attached[g] \in Requests /\ Made(attached[g]) /\ req[attached[g]].group = g
    BY <1>5 DEF Inv, ListedInv, TypeOK, Adapters, Attached
  <2>4. req' = [req EXCEPT ![q] = r]
    BY <1>5 DEF Handle
  <2>5. EnabledInv'
    BY <1>5, <2>2, EnabledStays DEF SoloInv, EnabledInv, Attached
  <2>6. ~Attached(g)'
    BY <2>2 DEF Attached
  <2> HIDE DEF r
  <2> QED
    BY <1>1, <1>2, <1>5, <2>1, <2>2, <2>3, <2>4, <2>5, <2>6, SoloFrame
<1>6. ASSUME NEW g \in Groups, NEW kind, NEW where \in Ended, Handle(q, New(kind, g, where)),
             UNCHANGED attached,
             UNCHANGED records \/ (Dropped(g) /\ ~Attached(g))
      PROVE  SoloInv'
  <2> DEFINE r == New(kind, g, where)
  <2>1. r.at = where /\ req' = [req EXCEPT ![q] = r]
    BY <1>3, <1>6 DEF Handle
  <2>2. EnabledInv'
    BY <1>6, EnabledStays DEF SoloInv, EnabledInv, Attached
  <2>3. where \notin {"joining", "closing", "connecting", "asking"}
    BY DEF Ended
  <2> HIDE DEF r
  <2> QED
    BY <1>1, <1>2, <1>6, <2>1, <2>2, <2>3, SoloFrame
<1>7. ASSUME NEW g \in Groups, Stop(q, g) PROVE SoloInv'
  <2>1. UNCHANGED records
    BY <1>7 DEF Stop, groupVars
  <2>2. CASE Attached(g) /\ Popped(g) /\ Handle(q, [New("stop", g, "joining") EXCEPT !.held = attached[g]])
    BY <1>5, <2>1, <2>2
  <2>3. CASE UNCHANGED attached /\ Handle(q, New("stop", g, "refused"))
    BY <1>6, <2>1, <2>3 DEF Ended
  <2> QED
    BY <1>7, <2>2, <2>3 DEF Stop
<1>8. ASSUME NEW g \in Groups, Delete(q, g) PROVE SoloInv'
  <2>2. CASE /\ Attached(g) /\ Popped(g) /\ UNCHANGED records
             /\ Handle(q, [New("delete", g, "joining") EXCEPT !.held = attached[g]])
    BY <1>5, <2>2
  <2>3. CASE /\ ~Attached(g) /\ Dropped(g) /\ UNCHANGED attached
             /\ Handle(q, New("delete", g, IF Found(g) THEN "ok" ELSE "error"))
    <3>1. (IF Found(g) THEN "ok" ELSE "error") \in Ended
      BY DEF Ended
    <3> QED
      BY <1>6, <2>3, <3>1
  <2> QED
    BY <1>8, <2>2, <2>3 DEF Delete
<1>9. ASSUME Close(q) PROVE SoloInv'
  <2>1. /\ CloseNext(q, {g \in Groups : Attached(g)}) /\ UNCHANGED records
        /\ {g \in Groups : Attached(g)} \in SUBSET Groups
    BY <1>9 DEF Close, groupVars
  <2> QED
    BY <1>1, <1>2, <2>1, SoloNexts
<1> QED
  BY <1>4, <1>7, <1>8, <1>9 DEF Arrive

(* The request under way goes on, whatever fails. *)
LEMMA SoloProgress ==
  ASSUME TypeOK, Inv, OpenedInv, SoloInv, NEW q \in Requests, Progress(q)
  PROVE  SoloInv'
<1>1. /\ req[q].at \in {"connecting", "asking", "joining", "closing"} /\ req[q].at \notin Ended
      /\ ~Made(q)
  BY DEF Progress, Connected, Identified, Joined, Detached, Ended, Made
<1>2. \A p \in Requests : p # q => ~InProgress(p)
  BY <1>1 DEF SoloInv, OneAtATime, InProgress, Ended
<1>3. \A where : /\ At(q, where).at = where /\ At(q, where).group = req[q].group
                 /\ At(q, where).held = req[q].held /\ At(q, where).kind = req[q].kind
  BY DEF At, TypeOK, Adapters
<1>4. ASSUME NEW where \in {"ok", "error"}, req' = [req EXCEPT ![q] = At(q, where)], EnabledInv'
      PROVE  SoloInv'
  <2> DEFINE r == At(q, where)
  <2>1. r.at = where /\ req' = [req EXCEPT ![q] = r]
    BY <1>3, <1>4
  <2> HIDE DEF r
  <2> QED
    BY <1>2, <1>4, <2>1, SoloFrame
<1>5. CASE Connected(q)
  <2>1. req[q].at = "connecting" /\ UNCHANGED <<records, attached>>
    BY <1>5 DEF Connected, groupVars
  <2>2. EnabledInv'
    BY <2>1 DEF SoloInv, EnabledInv, Enabled, Found, Attached
  <2>3. PICK g : g = req[q].group
    OBVIOUS
  <2>4. Enabled(g)' /\ ~Attached(g)'
    BY <2>1, <2>3 DEF SoloInv, RunInv, Enabled, Found, Attached
  <2>5. CASE req' = [req EXCEPT ![q] = At(q, "asking")]
    <3> DEFINE r == At(q, "asking")
    <3>1. r.at = "asking" /\ r.group = g /\ req' = [req EXCEPT ![q] = r]
      BY <1>3, <2>3, <2>5
    <3> HIDE DEF r
    <3> QED
      BY <1>2, <2>2, <2>4, <3>1, SoloFrame
  <2> QED
    BY <1>4, <1>5, <2>2, <2>5 DEF Connected
<1>6. CASE Identified(q)
  <2>1. /\ req[q].at = "asking" /\ UNCHANGED records
        /\ req[q].group \in Groups /\ Enabled(req[q].group)
    BY <1>6 DEF Identified, groupVars, Inv, MakingInv, SoloInv, RunInv
  <2>2. CASE AddDevice(q, req[q].group) /\ req' = [req EXCEPT ![q] = At(q, "ok")]
    <3>1. \A g \in Groups : g # req[q].group => attached'[g] = attached[g]
      BY <2>1, <2>2 DEF AddDevice, TypeOK
    <3>2. EnabledInv'
      BY <2>1, <3>1 DEF SoloInv, EnabledInv, Enabled, Found, Attached
    <3> QED
      BY <1>4, <2>2, <3>2
  <2>3. CASE UNCHANGED attached /\ req' = [req EXCEPT ![q] = At(q, "error")]
    <3>1. EnabledInv'
      BY <2>1, <2>3 DEF SoloInv, EnabledInv, Enabled, Found, Attached
    <3> QED
      BY <1>4, <2>3, <3>1
  <2> QED
    BY <1>6, <2>2, <2>3 DEF Identified
<1>7. ASSUME Joined(q) \/ Detached(q)
      PROVE  /\ Releasing(q) /\ req[q].held \in Requests /\ req[q].held # q /\ q \notin opened
             /\ attached[req[req[q].held].group] = None
             /\ req[q].kind = "delete" => ~Attached(req[q].group)
  <2>1. Releasing(q)
    BY <1>7 DEF Joined, Detached, Releasing
  <2>2. req[q].held \in opened /\ Made(req[q].held)
    BY <2>1 DEF Inv, ReleasingInv
  <2> QED
    BY <1>1, <2>1, <2>2
       DEF TypeOK, Adapters, OpenedInv, Releasing, SoloInv, EmptiedInv, Attached
<1>8. CASE Joined(q)
  <2> DEFINE r == At(q, "closing")
  <2>1. UNCHANGED <<records, attached>> /\ req' = [req EXCEPT ![q] = r]
    BY <1>8 DEF Joined, groupVars
  <2>2. r.at = "closing" /\ r.group = req[q].group /\ r.held = req[q].held /\ r.kind = req[q].kind
    BY <1>3
  <2>3. PICK g : g = req[q].group
    OBVIOUS
  <2>4. EnabledInv' /\ (req[q].kind = "delete" => ~Attached(g)')
    BY <1>7, <1>8, <2>1, <2>3 DEF SoloInv, EnabledInv, Enabled, Found, Attached
  <2> HIDE DEF r
  <2> QED
    BY <1>2, <1>7, <1>8, <2>1, <2>2, <2>3, <2>4, SoloFrame
<1>9. CASE Detached(q)
  <2>1. ASSUME NEW where \in {"ok", "error"}, req' = [req EXCEPT ![q] = At(q, where)],
               UNCHANGED attached,
               UNCHANGED records \/ (Dropped(req[q].group) /\ ~Attached(req[q].group))
        PROVE  SoloInv'
    <3>1. EnabledInv'
      BY <2>1, EnabledStays DEF SoloInv, EnabledInv, Attached
    <3> QED
      BY <1>4, <2>1, <3>1
  <2>2. CASE req' = [req EXCEPT ![q] = At(q, "ok")] /\ UNCHANGED <<records, attached>>
    BY <2>1, <2>2
  <2>3. CASE req' = [req EXCEPT ![q] = At(q, "error")] /\ UNCHANGED <<records, attached>>
    BY <2>1, <2>3
  <2>4. CASE req[q].kind = "delete" /\ DeleteRecord(q, req[q]) /\ UNCHANGED attached
    BY <1>7, <1>9, <2>1, <2>4 DEF DeleteRecord, At
  <2>5. CASE CloseNext(q, req[q].todo) /\ UNCHANGED records
    <3>1. req[q].todo \in SUBSET Groups
      BY DEF TypeOK
    <3> QED
      BY <1>1, <1>2, <2>5, <3>1, SoloNexts
  <2> QED
    BY <1>9, <2>2, <2>3, <2>4, <2>5 DEF Detached
<1> QED
  BY <1>5, <1>6, <1>8, <1>9 DEF Progress

(* Whether there is one administrator at a time never changes. *)
LEMMA SoloStays == ASSUME [Next]_vars PROVE alone' = alone
BY DEF Next, Arrive, Progress, Run, Stop, Delete, Close, Connected, Identified, Joined,
       Detached, Disconnect, Put, Serve, Hang, AddGroup, UpdateGroup, vars

(* Every step keeps what one administrator at a time adds. *)
LEMMA SoloStep ==
  ASSUME TypeOK, Inv, OpenedInv, alone => SoloInv, [Next]_vars
  PROVE  (alone => SoloInv)'
<1> SUFFICES ASSUME alone PROVE SoloInv'
  BY SoloStays
<1>1. ASSUME UNCHANGED <<attached, req>>,
             \A g \in DOMAIN records : Enabled(g) => Enabled(g)'
      PROVE  SoloInv'
  BY <1>1 DEF SoloInv, OneAtATime, EnabledInv, RunInv, EmptiedInv, Enabled, Found,
              Attached, InProgress, Releasing
<1>2. CASE \E settings \in Settings :
               AddGroup(settings) \/ \E g \in Groups : UpdateGroup(g, settings)
  BY <1>1, <1>2, EnabledStays DEF AddGroup, UpdateGroup
<1>3. CASE UNCHANGED <<records, attached, req>>
  BY <1>1, <1>3, EnabledStays
<1>4. ASSUME NEW q \in Requests, Arrive(q) \/ Progress(q) PROVE SoloInv'
  BY <1>4, SoloArrive, SoloProgress
<1>5. ASSUME NEW q \in Requests, Disconnect(q) PROVE SoloInv'
  <2> DEFINE r == At(q, "gone")
  <2>1. InProgress(q) /\ UNCHANGED <<records, attached>> /\ req' = [req EXCEPT ![q] = r]
    BY <1>5 DEF Disconnect, groupVars
  <2>2. \A p \in Requests : p # q => ~InProgress(p)
    BY <2>1 DEF SoloInv, OneAtATime
  <2>3. r.at = "gone"
    BY DEF At, TypeOK
  <2>4. EnabledInv'
    BY <2>1 DEF SoloInv, EnabledInv, Enabled, Found, Attached
  <2> HIDE DEF r
  <2> QED
    BY <2>1, <2>2, <2>3, <2>4, SoloFrame
<1> QED
  BY <1>2, <1>3, <1>4, <1>5 DEF Next, Put, Serve, Hang, groupVars, vars

(* For one administrator at a time it holds in every reachable state. *)
THEOREM SoloInvariance == Spec => [](alone => SoloInv)
<1>1. Init => SoloInv
  BY DEF Init, SoloInv, OneAtATime, EnabledInv, RunInv, EmptiedInv, InProgress,
         Attached, Releasing
<1>2. TypeOK /\ Inv /\ OpenedInv /\ OwnersInv /\ (alone => SoloInv) /\ [Next]_vars
          => (alone => SoloInv)'
  BY SoloStep
<1> QED
  BY <1>1, <1>2, Invariance, OwnersInvariance, PTL DEF Spec

(* For one administrator at a time, whatever device or client fails, two adapters are open *)
(* for one group only if a request that failed or was cancelled left one of them behind. *)
THEOREM OneWorkerPerDevice == Spec => []OneAdapterPerDevice
<1>1. TypeOK /\ Inv /\ OpenedInv /\ OwnersInv /\ (alone => SoloInv) => OneAdapterPerDevice
  <2> SUFFICES ASSUME TypeOK, Inv, OpenedInv, OwnersInv, SoloInv,
                      NEW a \in opened, NEW b \in opened, req[a].group = req[b].group,
                      ~LeftBehind(a), ~LeftBehind(b)
               PROVE  a = b
    BY DEF OneAdapterPerDevice
  <2>1. a \in Requests /\ b \in Requests /\ a # None /\ b # None /\ req[a].group \in Groups
    BY NamesAssumption DEF TypeOK, Adapters, OpenedInv
  <2>2. ASSUME NEW c \in Requests, c \in opened, ~LeftBehind(c)
        PROVE  \/ attached[req[c].group] = c
               \/ \E q \in Requests : InProgress(q) /\ Releasing(q) /\ req[q].held = c
               \/ InProgress(c) /\ req[c].at = "asking"
    <3>1. ~Abandoned(c) /\ req[c].at \notin {"error", "gone"}
      BY <2>2 DEF LeftBehind, Abandoned
    <3>2. Listed(c) => attached[req[c].group] = c
      BY <2>2, NamesAssumption DEF Listed, Inv, ListedInv, Attached
    <3> QED
      BY <2>2, <3>1, <3>2 DEF OwnersInv, Taken, InProgress, Releasing, Ended
  <2>3. ASSUME NEW c \in Requests, NEW q \in Requests, Releasing(q), req[q].held = c
        PROVE  ~Attached(req[c].group)
    BY <2>3 DEF SoloInv, EmptiedInv
  <2>4. ASSUME NEW c \in Requests, req[c].at = "asking"
        PROVE  ~Attached(req[c].group) /\ ~Releasing(c)
    BY <2>4 DEF SoloInv, RunInv, Releasing
  <2>5. CASE Attached(req[a].group)
    BY <2>1, <2>2, <2>3, <2>4, <2>5
  <2>6. CASE ~Attached(req[a].group)
    <3>1. attached[req[a].group] # a /\ attached[req[b].group] # b
      BY <2>1, <2>6 DEF Attached
    <3> QED
      BY <2>1, <2>2, <2>4, <3>1 DEF SoloInv, OneAtATime
  <2> QED
    BY <2>5, <2>6
<1> QED
  BY <1>1, Invariance, OwnersInvariance, SoloInvariance, PTL

(* For one administrator at a time, a listed device's group is there and enabled, so that *)
(* the device can be stopped. *)
THEOREM ListedCanBeStopped == Spec => []DevicesCanBeStopped
<1>1. (alone => SoloInv) => DevicesCanBeStopped
  BY DEF SoloInv, EnabledInv, DevicesCanBeStopped
<1> QED
  BY <1>1, SoloInvariance, PTL

=============================================================================
