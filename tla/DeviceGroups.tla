---------------------------- MODULE DeviceGroups ----------------------------
(***************************************************************************)
(* Making, changing, starting, stopping and deleting service groups: the   *)
(* handlers of the admin application (FiscalServicesManagementView in      *)
(* apps/admin/view.py), the storage of groups, the device creation service *)
(* they await and the tables of DeviceGroupManager they act on.            *)
(*                                                                         *)
(* A handler runs from one await to the next, and other requests run in    *)
(* between.  The awaits that let them are those of the device: connecting, *)
(* asking for its data, waiting for its commands, closing it.  The group   *)
(* storage and the registrator storage are the ones in memory, whose       *)
(* coroutines never suspend.                                               *)
(*                                                                         *)
(* An adapter carries the name of the request that created it.  The        *)
(* invoker that add_device makes for it is known by what CommandInvoker    *)
(* establishes: it serves the commands put to it one by one, as long as    *)
(* each comes to an end, and join() returns when none is left.             *)
(***************************************************************************)
EXTENDS Naturals, FiniteSets

CONSTANTS MaxGroups,   \* bound: the groups made
          FirstGroups, \* how many there are at first
          Drivers,     \* the drivers there are to choose from: "test", "atol"
          Requests,    \* requests of administrators
          Kinds,       \* what they ask: "run", "stop", "delete", "close"
          MaxQueue,    \* bound: commands in one queue
          Faults,      \* what may go wrong: the device refuses "connect", "info" or
                       \* "close", the client goes away: "disconnect", a command
                       \* never ends: "hang"
          None

ASSUME NamesAssumption == None \notin Requests
ASSUME BoundsAssumption == /\ MaxGroups \in Nat /\ FirstGroups \in 0..MaxGroups
                           /\ MaxQueue \in Nat
ASSUME KindsAssumption == /\ Drivers \subseteq {"test", "atol"}
                          /\ Kinds \subseteq {"run", "stop", "delete", "close"}
                          /\ Faults \subseteq {"connect", "info", "close", "disconnect",
                                               "hang"}

VARIABLES
    records,   \* the service groups stored: a function from their ids to their settings
    lastId,    \* the id given last
    attached,  \* attached[g]: the adapter in _fiscal_devices, its invoker in _invokers
    opened,    \* adapters whose connection and worker thread are open
    queued,    \* queued[a]: commands a's invoker has accepted and not done
    hung,      \* adapters whose invoker is at a command that never ends
    stored,    \* registrator data in the storage: objects, all under the id 1
    driver,    \* driver[a]: the driver of the adapter a, or "none"
    ident,     \* ident[a]: what the creation service made a's id: "none", "id", "record"
    req,       \* req[q]: [kind, group, at, held, todo]
    alone      \* never changes: there is one administrator, who makes a request when
               \* the one before has ended

vars == <<records, lastId, attached, opened, queued, hung, stored, driver, ident, req, alone>>
groupVars == <<records, lastId>>

Groups == 1..MaxGroups
Settings == [enabled : BOOLEAN, driver : Drivers]

Ended == {"ok", "refused", "error", "gone"}
InProgress(q) == req[q].at \notin Ended \cup {"idle"}
Attached(g) == attached[g] # None

(* _get_service_group and _get_enabled_service_group *)
Found(g) == g \in DOMAIN records
Enabled(g) == Found(g) /\ records[g].enabled

Init ==
    /\ records \in [1..FirstGroups -> Settings]
    /\ lastId = FirstGroups
    /\ attached = [g \in Groups |-> None]
    /\ opened = {}
    /\ queued = [a \in Requests |-> 0]
    /\ hung = {}
    /\ stored = {}
    /\ driver = [a \in Requests |-> "none"]
    /\ ident = [a \in Requests |-> "none"]
    /\ req = [q \in Requests |-> [kind |-> "none", group |-> None, at |-> "idle",
                                  held |-> None, todo |-> {}]]
    /\ alone \in BOOLEAN

MayAsk == alone => \A q \in Requests : ~InProgress(q)

At(q, where) == [req[q] EXCEPT !.at = where]

(* A request arrives; what the handler does up to its first await leaves it as r. *)
Handle(q, r) ==
    /\ req[q].at = "idle"
    /\ r.kind \in Kinds
    /\ MayAsk
    /\ req' = [req EXCEPT ![q] = r]

New(kind, g, where) == [kind |-> kind, group |-> g, at |-> where, held |-> None, todo |-> {}]

-----------------------------------------------------------------------------
(* post_service_group, which never awaits anything that suspends: a form without an *)
(* id makes a group, *)
NewIdByCount == Cardinality(DOMAIN records) + 1
NewId == lastId + 1
AddGroup(settings) ==
    /\ MayAsk
    /\ NewId \in Groups
    /\ records' = [g \in DOMAIN records \cup {NewId} |->
                      IF g = NewId THEN settings ELSE records[g]]
    /\ lastId' = NewId
    /\ UNCHANGED <<attached, opened, queued, hung, stored, driver, ident, req, alone>>

(* one with the id of a group changes it: its driver, but not whether it is enabled, *)
(* as the setter of is_enabled assigns to a name of its own. *)
Updated(old, new) == [old EXCEPT !.driver = new.driver]
UpdateGroup(g, settings) ==
    /\ MayAsk
    /\ Found(g)
    /\ records' = [records EXCEPT ![g] = Updated(@, settings)]
    /\ UNCHANGED <<lastId, attached, opened, queued, hung, stored, driver, ident, req, alone>>

-----------------------------------------------------------------------------
(* "running": _run_fiscal_device *)

(* The group exists, is enabled and has no device: go and create one, with the *)
(* driver it has now. *)
Run(q, g) ==
    /\ Handle(q, New("run", g, IF Enabled(g) /\ ~Attached(g) THEN "connecting"
                                                            ELSE "refused"))
    /\ driver' = [driver EXCEPT ![q] = IF Found(g) THEN records[g].driver ELSE "none"]
    /\ UNCHANGED <<groupVars, attached, opened, queued, hung, stored, ident, alone>>

(* The factory has made an adapter, or failed and opened nothing. *)
Connected(q) ==
    /\ req[q].at = "connecting"
    /\ \/ opened' = opened \cup {q} /\ req' = [req EXCEPT ![q] = At(q, "asking")]
       \/ "connect" \in Faults /\ req' = [req EXCEPT ![q] = At(q, "error")] /\ UNCHANGED opened
    /\ UNCHANGED <<groupVars, attached, queued, hung, stored, driver, ident, alone>>

(* The data of the test device is one object of its class; the atol adapter *)
(* makes a new one each time, with a number in it that cannot be hashed. *)
Data(q) == IF driver[q] = "atol" THEN q ELSE "shared"
Hashable(data) == data = "shared"
Storable(data) == data \in stored \/ Hashable(data)

(* add_device refuses to take the place of a device that is attached. *)
AddDeviceUnchecked(q, g) == attached' = [attached EXCEPT ![g] = q]

AddDevice(q, g) ==
    /\ ~Attached(g)
    /\ attached' = [attached EXCEPT ![g] = q]

(* The device has told its data: get_id finds the very object and returns its *)
(* record, or add stores it under the id 1; then add_device.  Each exception *)
(* ends the request and leaves the adapter as it is. *)
Identified(q) ==
    /\ req[q].at = "asking"
    /\ \/ /\ Storable(Data(q))
          /\ stored' = stored \cup {Data(q)}
          /\ ident' = [ident EXCEPT ![q] = IF Data(q) \in stored THEN "record" ELSE "id"]
          /\ \/ AddDevice(q, req[q].group) /\ req' = [req EXCEPT ![q] = At(q, "ok")]
             \/ /\ Attached(req[q].group)
                /\ req' = [req EXCEPT ![q] = At(q, "error")]
                /\ UNCHANGED attached
       \/ /\ "info" \in Faults \/ ~Storable(Data(q))
          /\ req' = [req EXCEPT ![q] = At(q, "error")]
          /\ UNCHANGED <<attached, stored, ident>>
    /\ UNCHANGED <<groupVars, opened, queued, hung, driver, alone>>

-----------------------------------------------------------------------------
(* detach_device, in the hands of three callers *)

PopForgotten(g) == attached' = attached
Popped(g) == attached' = [attached EXCEPT ![g] = None]
CloseForgotten(a) == opened' = opened
ClosesAdapter(a) == opened' = opened \ {a}

(* "stopped": _stop_fiscal_device, whose check and pop no await separates. *)
Stop(q, g) ==
    /\ IF Enabled(g) /\ Attached(g)
       THEN /\ Handle(q, [New("stop", g, "joining") EXCEPT !.held = attached[g]])
            /\ Popped(g)
       ELSE /\ Handle(q, New("stop", g, "refused"))
            /\ UNCHANGED attached
    /\ UNCHANGED <<groupVars, opened, queued, hung, stored, driver, ident, alone>>

(* The record of a group leaves the storage. *)
Dropped(g) == records' = [h \in DOMAIN records \ {g} |-> records[h]]

(* delete_service_group detaches the device it finds, then deletes the record. *)
DeleteRecord(q, r) ==
    IF Found(r.group)
    THEN Dropped(r.group) /\ req' = [req EXCEPT ![q] = [r EXCEPT !.at = "ok"]]
    ELSE req' = [req EXCEPT ![q] = [r EXCEPT !.at = "error"]] /\ UNCHANGED records

Delete(q, g) ==
    /\ \/ /\ Attached(g)
          /\ Handle(q, [New("delete", g, "joining") EXCEPT !.held = attached[g]])
          /\ Popped(g)
          /\ UNCHANGED records
       \/ /\ ~Attached(g)
          /\ Handle(q, New("delete", g, IF Found(g) THEN "ok" ELSE "error"))
          /\ Dropped(g)
          /\ UNCHANGED attached
    /\ UNCHANGED <<lastId, opened, queued, hung, stored, driver, ident, alone>>

(* close() of the manager goes through the groups it finds at its start, and *)
(* detach_device raises when it meets one that is detached by then. *)
CloseNext(q, todo) ==
    \/ /\ todo = {}
       /\ req' = [req EXCEPT ![q] = New("close", None, "ok")]
       /\ UNCHANGED attached
    \/ \E g \in todo :
          \/ /\ Attached(g)
             /\ Popped(g)
             /\ req' = [req EXCEPT ![q] = [New("close", None, "joining")
                                           EXCEPT !.held = attached[g], !.todo = todo \ {g}]]
          \/ /\ ~Attached(g)
             /\ req' = [req EXCEPT ![q] = [New("close", None, "error")
                                           EXCEPT !.todo = todo \ {g}]]
             /\ UNCHANGED attached

Close(q) ==
    /\ req[q].at = "idle"
    /\ "close" \in Kinds
    /\ MayAsk
    /\ CloseNext(q, {g \in Groups : Attached(g)})
    /\ UNCHANGED <<groupVars, opened, queued, hung, stored, driver, ident, alone>>

(* wait_all_executed: the queue's join returns when nothing is unfinished. *)
JoinSkipped(a) == TRUE
AllExecuted(a) == queued[a] = 0

Joined(q) ==
    /\ req[q].at = "joining"
    /\ AllExecuted(req[q].held)
    /\ req' = [req EXCEPT ![q] = At(q, "closing")]
    /\ UNCHANGED <<groupVars, attached, opened, queued, hung, stored, driver, ident, alone>>

(* The adapter is closed, or refuses; the caller goes on with what it has to do. *)
Detached(q) ==
    /\ req[q].at = "closing"
    /\ \/ /\ ClosesAdapter(req[q].held)
          /\ \/ /\ req[q].kind = "stop"
                /\ req' = [req EXCEPT ![q] = At(q, "ok")]
                /\ UNCHANGED <<records, attached>>
             \/ req[q].kind = "delete" /\ DeleteRecord(q, req[q]) /\ UNCHANGED attached
             \/ req[q].kind = "close" /\ CloseNext(q, req[q].todo) /\ UNCHANGED records
       \/ /\ "close" \in Faults
          /\ req' = [req EXCEPT ![q] = At(q, "error")]
          /\ UNCHANGED <<records, attached, opened>>
    /\ UNCHANGED <<lastId, queued, hung, stored, driver, ident, alone>>

(* The server cancels the handler of a client that has gone, at its await.  A  *)
(* job that waits for the adapter's thread is withdrawn, one that runs goes on. *)
Disconnect(q) ==
    /\ "disconnect" \in Faults
    /\ InProgress(q) /\ req[q].kind # "close"
    /\ req' = [req EXCEPT ![q] = At(q, "gone")]
    /\ \/ UNCHANGED opened
       \/ req[q].at = "connecting" /\ opened' = opened \cup {q}
       \/ req[q].at = "closing" /\ opened' = opened \ {req[q].held}
    /\ UNCHANGED <<groupVars, attached, queued, hung, stored, driver, ident, alone>>

-----------------------------------------------------------------------------
(* Commands *)

(* process_command puts to the invoker of the attached device, or raises. *)
Put(g) ==
    /\ Attached(g)
    /\ queued[attached[g]] < MaxQueue
    /\ queued' = [queued EXCEPT ![attached[g]] = @ + 1]
    /\ UNCHANGED <<groupVars, attached, opened, hung, stored, driver, ident, req, alone>>

(* An invoker has executed a command on its adapter, with success or without. *)
DoneTwice(a) == queued' = [queued EXCEPT ![a] = @ - 2]
DoneForgotten(a) == queued' = queued
Done(a) == queued' = [queued EXCEPT ![a] = @ - 1]

Serve(a) ==
    /\ queued[a] > 0 /\ a \notin hung
    /\ Done(a)
    /\ UNCHANGED <<groupVars, attached, opened, hung, stored, driver, ident, req, alone>>

(* The command an invoker is at never ends: a registration that comes when the *)
(* shift was closed automatically, or could never be read, waits for good      *)
(* (adapters/base.py, 280 and 306; AutoCloseIsFinal in ShiftRegistratorProofs). *)
Hang(a) ==
    /\ "hang" \in Faults
    /\ queued[a] > 0
    /\ hung' = hung \cup {a}
    /\ UNCHANGED <<groupVars, attached, opened, queued, stored, driver, ident, req, alone>>

-----------------------------------------------------------------------------
Arrive(q) == \/ \E g \in Groups : Run(q, g) \/ Stop(q, g) \/ Delete(q, g)
             \/ Close(q)

Progress(q) == Connected(q) \/ Identified(q) \/ Joined(q) \/ Detached(q)

Next == \/ \E settings \in Settings :
               AddGroup(settings) \/ \E g \in Groups : UpdateGroup(g, settings)
        \/ \E q \in Requests : Arrive(q) \/ Progress(q) \/ Disconnect(q)
        \/ \E g \in Groups : Put(g)
        \/ \E a \in Requests : Serve(a) \/ Hang(a)

Spec == Init /\ [][Next]_vars

(* The loop resumes a handler whose await is over, devices answer, and an      *)
(* invoker serves what is put to it until one of its commands never ends.      *)
(* Nobody has to make a request.                                               *)
FairSpec == Spec /\ \A q \in Requests : WF_vars(Progress(q)) /\ WF_vars(Serve(q))

-----------------------------------------------------------------------------
(* Properties *)

Adapters == Requests

TypeOK ==
    /\ alone \in BOOLEAN
    /\ lastId \in 0..MaxGroups
    /\ DOMAIN records \subseteq 1..lastId
    /\ records \in [DOMAIN records -> Settings]
    /\ attached \in [Groups -> Adapters \cup {None}]
    /\ opened \subseteq Adapters
    /\ queued \in [Adapters -> Nat]
    /\ hung \subseteq Adapters
    /\ stored \subseteq {"shared"}
    /\ driver \in [Adapters -> Drivers \cup {"none"}]
    /\ ident \in [Adapters -> {"none", "id", "record"}]
    /\ req \in [Requests -> [kind : Kinds \cup {"none"}, group : Groups \cup {None},
                            at : Ended \cup {"idle", "connecting", "asking", "joining", "closing"},
                            held : Adapters \cup {None}, todo : SUBSET Groups]]

(* Commands accepted before a stop or a deletion run on an adapter that is open *)
(* to their end, also when the group has a new device by then. *)
CommandsOnOpenAdapter == \A a \in Adapters : queued[a] > 0 => a \in opened

(* A device that is listed is open, was made for this group and is nobody's to *)
(* close: whoever closes an adapter has taken it off the list before. *)
AttachedIsOpen ==
    \A g \in Groups : Attached(g) =>
        /\ attached[g] \in opened
        /\ req[attached[g]].group = g
        /\ \A q \in Requests : InProgress(q) => req[q].held # attached[g]

(* The check of a run is stale when the device is made, so add_device checks     *)
(* again (147 and 148): no request ever takes the place of an attached device.   *)
(* Nor does a new group find one at its place, though the group of a run may be  *)
(* deleted before its device is attached: an id is not given twice.              *)
NeverEvicts ==
    [][/\ \A g \in Groups : Attached(g) => attached'[g] \in {attached[g], None}
       /\ \A g \in DOMAIN records' \ DOMAIN records : ~Attached(g)]_vars

(* The request that has an adapter on its way to or from the list. *)
InHand(a) == \E q \in Requests : InProgress(q) /\ (q = a \/ req[q].held = a)
LeftBehind(a) ==
    \E q \in Requests : req[q].at \in {"error", "gone"} /\ (q = a \/ req[q].held = a)

(* An open adapter that is not attached is in the hands of a request; only one *)
(* that ended with an exception or was cancelled leaves an adapter open behind. *)
LeaksAreErrors ==
    \A a \in opened : (\E g \in Groups : attached[g] = a) \/ InHand(a) \/ LeftBehind(a)

(* One worker per device keeps the operations on it apart (adapters/base.py,     *)
(* 161 to 163).  For one administrator at a time, whatever device or client      *)
(* fails and whatever drivers the group has had, two adapters of a group are     *)
(* open at once only if a request that failed or was cancelled left one behind.  *)
OneAdapterPerDevice ==
    alone => \A a, b \in opened :
        req[a].group = req[b].group => a = b \/ LeftBehind(a) \/ LeftBehind(b)

(* For one administrator at a time, whatever fails on the way, an attached device *)
(* belongs to a group that is there and enabled, so that it can be stopped (110   *)
(* to 125 in view.py).                                                            *)
DevicesCanBeStopped == alone => \A g \in Groups : Attached(g) => Enabled(g)

(* After close() no device is provided for any of the groups it went through. *)
CloseDetachesAll ==
    \A q \in Requests : req[q].kind = "close" /\ req[q].at \in Ended =>
        \A g \in req[q].todo : ~Attached(g)

(* Every request is answered, whatever runs meanwhile and fails, but for one case *)
(* in the code: a stop, a deletion or a closing waits for ever in join() (manager, *)
(* 189) when the invoker of its adapter is at a command that never ends.           *)
WaitsForHung(q) == req[q].at = "joining" /\ req[q].held \in hung
EveryRequestAnswered == \A q \in Requests : InProgress(q) ~> ~InProgress(q) \/ WaitsForHung(q)
=============================================================================
