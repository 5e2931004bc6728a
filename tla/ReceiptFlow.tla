----------------------------- MODULE ReceiptFlow -----------------------------
(***************************************************************************)
(* The way of a receipt through a service group: the handler of the POST   *)
(* request (apps/service_group/views.py) numbers it, announces it to the   *)
(* event dispatcher, whose subscriber saves it in the read model, and puts *)
(* a command to the group's invoker; the command registers it on the       *)
(* device and announces the outcome, for subscribers to update the record. *)
(*                                                                         *)
(* The read model is the repository in memory, whose coroutines never      *)
(* suspend and which a restart empties, or the one in MongoDB (durable),   *)
(* whose calls are awaited, may fail and outlive the server.  Events and   *)
(* commands are in memory in both cases.                                   *)
(*                                                                         *)
(* Invoker and device are taken as CommandInvoker and ShiftRegistrator     *)
(* have them: commands run one at a time in the order they were made, and  *)
(* a registration is answered, refused, or refused after the fact, or never *)
(* ends, as none does once the shift was closed automatically.             *)
(***************************************************************************)
EXTENDS Naturals, Sequences, FiniteSets, FiniteSetsExt, Functions

CONSTANTS Receipts,
          Faults,      \* what may go wrong: "save", "device", "reread", "stop",
                       \* "hang", "disconnect"
          MaxRestarts, \* bound: restarts of the server
          MaxDevices,  \* bound: devices started between two restarts
          None

ASSUME FlowAssumption ==
    /\ Faults \subseteq {"save", "device", "reread", "stop", "hang", "disconnect"}
    /\ MaxRestarts \in Nat
    /\ MaxDevices \in Nat \ {0}

VARIABLES
    durable,   \* the read model wired in: MongoMotorReceiptRepository, not the one in memory
    records,   \* the read model: a function from ids to [receipt, state]
    last,      \* what the id generator yielded last
    id,        \* id[r]: the id r got, None before
    events,    \* the event storage: how many events of a type it has for a receipt
    queue,     \* queue[d]: the commands of device d's invoker, the one that runs first
    journal,   \* the receipts that devices have registered, in their memory for good
    device,    \* the device started last
    running,   \* it is attached to the group
    pc,        \* pc[r]: how far r has come
    hung,      \* the devices whose invoker is at a command that never ends
    late,      \* receipts whose saving was cancelled, which MongoDB may yet carry out
    restarts,
    met        \* history, for the properties: the faults met, as <<fault, receipt>>;
               \* "save" is a saving that failed or was cancelled

vars == <<durable, records, last, id, events, queue, journal, device, running, pc, hung, late,
          restarts, met>>

Goto(r, where) == pc' = [pc EXCEPT ![r] = where]
Types == {"created", "registered", "failed"}
NoEvents == [type \in Types |-> [r \in Receipts |-> 0]]
Log(type, r) == events' = [events EXCEPT ![type][r] = @ + 1]

(* What get_last_id answers, of which gen yields the successor. *)
StartIdNone(recs) == IF DOMAIN recs = {} THEN None ELSE Max(DOMAIN recs) + 1
StartIdZero(recs) == 0
StartId(recs) == IF ~durable THEN 0
                 ELSE IF DOMAIN recs = {} THEN 1 ELSE Max(DOMAIN recs) + 1

NoRecords == <<>>

Init ==
    /\ durable \in BOOLEAN
    /\ records = NoRecords
    /\ last = StartId(NoRecords)
    /\ id = [r \in Receipts |-> None]
    /\ events = NoEvents
    /\ queue = [d \in 1..MaxDevices |-> <<>>]
    /\ journal = {}
    /\ device = 1
    /\ running = TRUE
    /\ pc = [r \in Receipts |-> "idle"]
    /\ hung = {}
    /\ late = {}
    /\ restarts = 0
    /\ met = {}

-----------------------------------------------------------------------------
(* The request *)

TakeId(r) == last' = last + 1 /\ id' = [id EXCEPT ![r] = last + 1]

(* The data of ReceiptCreated: the receipt as it is, and a state. *)
CreatedData(r) == [receipt |-> r, state |-> "created"]

(* ReceiptCreatedHandler saves the event's data; an exception of the storage *)
(* ends in the dispatcher. *)
Stored(r, i) ==
    records' = [j \in DOMAIN records \cup {i} |-> IF j = i THEN CreatedData(r) ELSE records[j]]

Save(r, i) ==
    \/ Stored(r, i) /\ UNCHANGED met
    \/ /\ durable /\ "save" \in Faults
       /\ met' = met \cup {<<"save", r>>}
       /\ UNCHANGED records

(* process: the command is put, or the group has no device and a KeyError ends *)
(* the request.  (is_service_provided, asked before, looks for the group under  *)
(* a string where the manager keeps numbers, and so lets every request pass.) *)
Process(r) ==
    \/ running /\ queue' = [queue EXCEPT ![device] = Append(@, r)] /\ Goto(r, "queued")
    \/ ~running /\ Goto(r, "error") /\ UNCHANGED queue

(* In memory the handler runs through from the checked receipt to its answer.  (A *)
(* receipt that the forms or its own classes refuse gets no number and changes     *)
(* nothing here: ReceiptIntake is about those.) *)
PostUnsaved(r) ==
    /\ pc[r] = "idle"
    /\ TakeId(r)
    /\ Log("created", r)
    /\ Process(r)
    /\ UNCHANGED <<records, journal, device, running, restarts, late, hung, durable, met>>

Post(r) ==
    /\ pc[r] = "idle"
    /\ TakeId(r)
    /\ Log("created", r)
    /\ \/ ~durable /\ Save(r, last + 1) /\ Process(r)
       \/ durable /\ Goto(r, "saving") /\ UNCHANGED <<records, queue, met>>
    /\ UNCHANGED <<journal, device, running, restarts, late, hung, durable>>

(* MongoDB has answered: the handler goes on. *)
Saved(r) ==
    /\ pc[r] = "saving"
    /\ Save(r, id[r])
    /\ Process(r)
    /\ UNCHANGED <<last, id, events, journal, device, running, restarts, late, hung, durable>>

(* The client goes away while its receipt is being saved, and the server cancels *)
(* the handler at this await.  The cancellation ends in the dispatcher like any   *)
(* exception of a subscriber (event_dispatchers.py, 53: CancelledError is an      *)
(* Exception of Python 3.7), so the handler goes on and puts the command, while   *)
(* the record is there, comes late or never.                                      *)
Disconnect(r) ==
    /\ "disconnect" \in Faults
    /\ pc[r] = "saving"
    /\ late' = late \cup {r}
    /\ met' = met \cup {<<"save", r>>}
    /\ Process(r)
    /\ UNCHANGED <<records, last, id, events, journal, device, running, restarts, hung, durable>>

(* The driver's thread, which nobody cancels, has saved the record. *)
Land(r) ==
    /\ r \in late
    /\ late' = late \ {r}
    /\ Stored(r, id[r])
    /\ UNCHANGED <<last, id, events, queue, journal, device, running, pc, restarts, hung, durable,
                   met>>

-----------------------------------------------------------------------------
(* The command *)

(* The device registers the receipt or refuses it; it may also have registered *)
(* it and yet the call fails, when reading the shift afterwards does.           *)
Execute(r) ==
    /\ pc[r] = "queued"
    /\ \E d \in DOMAIN queue \ hung : queue[d] # <<>> /\ r = Head(queue[d])
    /\ \/ journal' = journal \cup {r} /\ Goto(r, "registered") /\ UNCHANGED met
       \/ "device" \in Faults /\ Goto(r, "refused") /\ UNCHANGED <<journal, met>>
       \/ /\ "reread" \in Faults
          /\ journal' = journal \cup {r}
          /\ met' = met \cup {<<"reread", r>>}
          /\ Goto(r, "refused")
    /\ UNCHANGED <<records, last, id, events, queue, device, running, restarts, late, hung, durable>>

(* update of the read model: without an id in the data, or a record under it, *)
(* it changes nothing. *)
Update(data) ==
    IF "id" \in DOMAIN data /\ data.id \in DOMAIN records
    THEN records' = [records EXCEPT ![data.id].state = data.state]
    ELSE UNCHANGED records

(* The data of ReceiptRegistationFailed is the state alone. *)
FailedData == [state |-> "failed"]

(* ReceiptRegistered's handler first reads the data of the device and adds it to *)
(* the event's.  In memory get looks for the fields of the data in the wrapper    *)
(* that add stored; with MongoDB it returns a dict, which has no as_dict. *)
Wrapper == {"data", "hash", "id"}
RegistratorRead == ~durable /\ "registration_number" \in Wrapper

(* What ReceiptRegistered carries of the receipt's fiscal data, under its id. *)
RegisteredData(r) == [id |-> id[r], state |-> "success"]
HandleRegistered(r) ==
    IF RegistratorRead THEN Update(RegisteredData(r)) ELSE UNCHANGED records

(* The invoker has executed r's command and is at its next one. *)
Done(r) ==
    queue' = [d \in DOMAIN queue |->
                 IF queue[d] # <<>> /\ Head(queue[d]) = r THEN Tail(queue[d]) ELSE queue[d]]

(* The command announces the outcome, handlers and all, and is done. *)
ReportUnchecked(r) ==
    /\ pc[r] \in {"registered", "refused"}
    /\ Log("registered", r) /\ HandleRegistered(r) /\ Goto(r, "done")
    /\ Done(r)
    /\ UNCHANGED <<last, id, journal, device, running, restarts, late, hung, durable, met>>

ReportSuccess(r) ==
    /\ pc[r] = "registered"
    /\ Log("registered", r) /\ HandleRegistered(r) /\ Goto(r, "done")
    /\ Done(r)
    /\ UNCHANGED <<last, id, journal, device, running, restarts, late, hung, durable, met>>

Report(r) ==
    /\ \/ /\ pc[r] = "registered"
          /\ Log("registered", r) /\ HandleRegistered(r) /\ Goto(r, "done")
       \/ /\ pc[r] = "refused"
          /\ Log("failed", r) /\ Update(FailedData) /\ Goto(r, "failed")
    /\ Done(r)
    /\ UNCHANGED <<last, id, journal, device, running, restarts, late, hung, durable, met>>

-----------------------------------------------------------------------------
(* The group's device is stopped and started; the server dies and starts again *)

StopDevice ==
    /\ "stop" \in Faults
    /\ running
    /\ running' = FALSE
    /\ UNCHANGED <<records, last, id, events, queue, journal, device, pc, restarts, late, hung,
                   durable, met>>

(* Another device is started; the one before may still have commands to do. *)
StartDevice ==
    /\ ~running
    /\ device < MaxDevices
    /\ device' = device + 1
    /\ running' = TRUE
    /\ UNCHANGED <<records, last, id, events, queue, journal, pc, restarts, late, hung, durable, met>>

(* The registration of r never ends: it came when the shift was closed            *)
(* automatically or could not be read (base.py, 280 and 306; AutoCloseIsFinal in   *)
(* ShiftRegistratorProofs).  Its invoker comes to no other command.                *)
Hang(r) ==
    /\ "hang" \in Faults
    /\ pc[r] = "queued"
    /\ \E d \in DOMAIN queue \ hung :
           queue[d] # <<>> /\ r = Head(queue[d]) /\ hung' = hung \cup {d}
    /\ UNCHANGED <<records, last, id, events, queue, journal, device, running, pc, restarts, late,
                   durable, met>>

InServer(r) == pc[r] \in {"saving", "queued", "registered", "refused"}
Finished(r) == pc[r] \in {"done", "failed"}

Restart ==
    /\ restarts < MaxRestarts
    /\ restarts' = restarts + 1
    /\ records' = IF durable THEN records ELSE NoRecords
    /\ last' = StartId(records')
    /\ events' = NoEvents
    /\ queue' = [d \in 1..MaxDevices |-> <<>>]
    /\ device' = 0
    /\ running' = FALSE
    /\ hung' = {}
    /\ late' = {}
    /\ pc' = [r \in Receipts |-> IF InServer(r) THEN "lost" ELSE pc[r]]
    /\ UNCHANGED <<durable, id, journal, met>>

-----------------------------------------------------------------------------
Next == \/ \E r \in Receipts : \/ Post(r) \/ Saved(r) \/ Disconnect(r)
                               \/ Land(r) \/ Execute(r) \/ Report(r) \/ Hang(r)
        \/ StopDevice \/ StartDevice \/ Restart

Spec == Init /\ [][Next]_vars

(* MongoDB answers, the loop resumes what is ready, and a device answers until a *)
(* registration on it never ends.                                                *)
FairSpec == Spec /\ \A r \in Receipts : WF_vars(Saved(r) \/ Execute(r) \/ Report(r))

-----------------------------------------------------------------------------
(* What a client is answered *)

(* get of a repository.  In memory the record under the number; MongoDB looks for a *)
(* field 'company_id' too, which no record has, and finds none. *)
Absent == [state |-> "null"]
Get(i) == IF i \notin DOMAIN records \/ durable THEN Absent ELSE records[i]

(* ReceiptReadServiceView.get_receipt for the number r got. *)
Shown(r) == Get(id[r]).state

-----------------------------------------------------------------------------
(* Properties *)

TypeOK ==
    /\ durable \in BOOLEAN
    /\ IsFiniteSet(DOMAIN records) /\ DOMAIN records \subseteq Nat
    /\ \A i \in DOMAIN records :
           records[i] \in [receipt : Receipts, state : {"created", "success", "failed"}]
    /\ last \in Nat
    /\ id \in [Receipts -> Nat \cup {None}]
    /\ events \in [Types -> [Receipts -> Nat]]
    /\ queue \in [1..MaxDevices -> Seq(Receipts)]
    /\ device \in 0..MaxDevices
    /\ journal \subseteq Receipts
    /\ running \in BOOLEAN
    /\ pc \in [Receipts -> {"idle", "saving", "queued", "registered", "refused", "done",
                            "failed", "error", "lost"}]
    /\ hung \subseteq 1..MaxDevices
    /\ late \subseteq Receipts
    /\ restarts \in 0..MaxRestarts
    /\ met \subseteq {"save", "reread"} \X Receipts

(* What is queued, or in the journal of a device, has its own record under its     *)
(* number, also after restarts when the record is durable.  The code has one        *)
(* exception: a receipt whose saving failed, or was cancelled as its client went    *)
(* away, is put all the same.  It has no record then, never that of another while   *)
(* its command is there.                                                            *)
OnRecord(r) == id[r] \in DOMAIN records /\ records[id[r]].receipt = r
Unsaved(r) == <<"save", r>> \in met

RecordedFirst ==
    \A r \in Receipts :
        /\ pc[r] \in {"queued", "registered", "refused"} =>
               OnRecord(r) \/ (Unsaved(r) /\ id[r] \notin DOMAIN records)
        /\ durable /\ r \in journal => OnRecord(r) \/ Unsaved(r)

(* A record is its receipt's for good: none is ever replaced by that of another,    *)
(* whatever was lost, saved late or in progress when the server began.  (A number   *)
(* whose record was never saved is given again after a restart.)                    *)
NeverOverwritten ==
    [][\A i \in DOMAIN records \cap DOMAIN records' :
           records'[i].receipt = records[i].receipt]_vars

(* The event storage tells the truth since the start of the server: a receipt it *)
(* has as registered is in the device's journal, one it has as failed is not     *)
(* unless the device's answer was lost, and each outcome comes once, after the   *)
(* creation, when the command is done. *)
EventsTellTruth ==
    \A r \in Receipts :
        /\ events["registered"][r] > 0 => r \in journal
        /\ events["failed"][r] > 0 => r \notin journal \/ <<"reread", r>> \in met
        /\ events["registered"][r] + events["failed"][r] <= events["created"][r]
        /\ restarts = 0 => (Finished(r) <=> events["registered"][r] + events["failed"][r] = 1)

(* A request that is answered with success has its receipt in process: it comes *)
(* to an outcome, though the device be stopped, unless the server dies, or its  *)
(* own registration, or one before it, never ends.                              *)
Stuck(r) == \E d \in hung : r \in Range(queue[d])
AcceptedIsProcessed ==
    \A r \in Receipts : pc[r] = "queued" ~> Finished(r) \/ pc[r] = "lost" \/ Stuck(r)

(* The client reads state "success" of a receipt that has been registered (the  *)
(* example of the readme). *)
SuccessIsShown == \A r \in Receipts : pc[r] = "done" => Shown(r) = "success"
=============================================================================
