-------------------------- MODULE ReceiptFlowProofs --------------------------
(* Proofs about ReceiptFlow, for any receipts, faults and bounds. *)
EXTENDS ReceiptFlow, FiniteSetTheorems, TLAPS

-----------------------------------------------------------------------------
(* The inductive invariant *)

(* The keys of the read model have a greatest one, from which a restart goes on. *)
KeysInv ==
    DOMAIN records # {} => \E m \in DOMAIN records : \A i \in DOMAIN records : i <= m

(* A receipt whose number is in use: it is in the server, or its record yet to come. *)
Numbered(r) == InServer(r) \/ r \in late

(* Numbers up to last are given out, and one in use is nobody else's, on record or *)
(* not; the record of a receipt that is being saved, or whose saving was cancelled *)
(* and may yet be carried out, is not there.                                       *)
NumberInv ==
    /\ \A i \in DOMAIN records : i <= last
    /\ \A r \in Receipts : Numbered(r) =>
           /\ id[r] \in Nat /\ id[r] <= last
           /\ id[r] \in DOMAIN records => records[id[r]].receipt = r
    /\ \A r \in Receipts : pc[r] = "saving" \/ r \in late =>
           durable /\ id[r] \notin DOMAIN records
    /\ \A q, r \in Receipts : Numbered(q) /\ Numbered(r) /\ id[q] = id[r] => q = r

(* A receipt that a command is about has its record, but one whose saving failed. *)
SavedInv ==
    \A r \in Receipts : Unsaved(r) \/
        /\ pc[r] \in {"queued", "registered", "refused"} => OnRecord(r)
        /\ durable /\ r \in journal => OnRecord(r)

(* What is in the journal of the devices when a receipt has come so far. *)
JournalInv ==
    \A r \in Receipts :
        /\ pc[r] \in {"idle", "saving", "queued"} => r \notin journal
        /\ pc[r] \in {"registered", "done"} => r \in journal
        /\ pc[r] \in {"refused", "failed"} => r \notin journal \/ <<"reread", r>> \in met

(* The events of a receipt that has come so far, in this run of the server. *)
EventInv ==
    \A r \in Receipts :
        /\ InServer(r) => events["created"][r] = 1
        /\ events["registered"][r] # 0 => pc[r] = "done"
        /\ events["failed"][r] # 0 => pc[r] = "failed"
        /\ events["registered"][r] \in {0, events["created"][r]}
        /\ events["failed"][r] \in {0, events["created"][r]}
        /\ events["created"][r] \in {0, 1}
        /\ pc[r] = "idle" => events["created"][r] = 0
        /\ restarts = 0 /\ pc[r] = "done" => events["registered"][r] = 1
        /\ restarts = 0 /\ pc[r] = "failed" => events["failed"][r] = 1

DeviceInv == running => device \in 1..MaxDevices

(* The handler of a receipt whose saving was cancelled has gone on. *)
LateInv == \A r \in late : pc[r] \notin {"idle", "saving"}

Inv == KeysInv /\ NumberInv /\ SavedInv /\ JournalInv /\ EventInv /\ DeviceInv /\ LateInv
IInv == TypeOK /\ Inv

(* The parts of the type invariant. *)
RecordTypes ==
    /\ IsFiniteSet(DOMAIN records) /\ DOMAIN records \subseteq Nat
    /\ \A i \in DOMAIN records :
           records[i] \in [receipt : Receipts, state : {"created", "success", "failed"}]
Places == {"idle", "saving", "queued", "registered", "refused", "done", "failed", "error",
           "lost"}

-----------------------------------------------------------------------------
(* The read model *)

(* No record is lost, and none becomes another receipt's. *)
Keeps ==
    /\ DOMAIN records \subseteq DOMAIN records'
    /\ \A i \in DOMAIN records : records'[i].receipt = records[i].receipt

(* A record under a number that none has. *)
LEMMA StoredAdds ==
  ASSUME IInv, NEW r \in Receipts, NEW i \in Nat, i \notin DOMAIN records, Stored(r, i)
  PROVE  /\ RecordTypes' /\ KeysInv' /\ Keeps
         /\ DOMAIN records' = DOMAIN records \cup {i}
         /\ records'[i].receipt = r
<1>1. RecordTypes /\ KeysInv
  BY DEF IInv, Inv, TypeOK, RecordTypes
<1>2. records' = [j \in DOMAIN records \cup {i} |-> IF j = i THEN CreatedData(r) ELSE records[j]]
  BY DEF Stored
<1>3. DOMAIN records' = DOMAIN records \cup {i}
  BY <1>2
<1>4. /\ records'[i] = CreatedData(r)
      /\ \A j \in DOMAIN records : records'[j] = records[j]
  BY <1>2
<1>5. IsFiniteSet(DOMAIN records')
  BY <1>1, <1>3, FS_AddElement DEF RecordTypes
<1>6. RecordTypes'
  BY <1>1, <1>3, <1>4, <1>5 DEF RecordTypes, CreatedData
<1>7. KeysInv'
  <2>1. CASE DOMAIN records = {}
    BY <1>3, <2>1 DEF KeysInv
  <2>2. CASE DOMAIN records # {}
    <3>1. PICK m \in DOMAIN records : \A j \in DOMAIN records : j <= m
      BY <1>1, <2>2 DEF KeysInv
    <3>2. m \in Nat /\ DOMAIN records \subseteq Nat
      BY <1>1, <3>1 DEF RecordTypes
    <3>3. CASE m <= i
      <4>1. \A j \in DOMAIN records \cup {i} : j <= i
        BY <3>1, <3>2, <3>3
      <4> QED
        BY <1>3, <4>1 DEF KeysInv
    <3>4. CASE ~(m <= i)
      <4>1. \A j \in DOMAIN records \cup {i} : j <= m
        BY <3>1, <3>2, <3>4
      <4> QED
        BY <1>3, <3>1, <4>1 DEF KeysInv
    <3> QED
      BY <3>3, <3>4
  <2> QED
    BY <2>1, <2>2
<1> QED
  BY <1>3, <1>4, <1>6, <1>7 DEF Keeps, CreatedData

(* Saving under a number that no record has, which may fail. *)
LEMMA SaveAdds ==
  ASSUME IInv, NEW r \in Receipts, NEW i \in Nat, i \notin DOMAIN records, Save(r, i)
  PROVE  /\ RecordTypes' /\ KeysInv' /\ Keeps
         /\ DOMAIN records' \subseteq DOMAIN records \cup {i}
         /\ i \in DOMAIN records' => records'[i].receipt = r
         /\ met' = met \/ met' = met \cup {<<"save", r>>}
         /\ <<"save", r>> \notin met' => i \in DOMAIN records'
<1>1. CASE UNCHANGED records /\ met' = met \cup {<<"save", r>>}
  BY <1>1 DEF IInv, Inv, TypeOK, RecordTypes, KeysInv, Keeps
<1>2. CASE Stored(r, i) /\ met' = met
  BY <1>2, StoredAdds
<1> QED
  BY <1>1, <1>2 DEF Save

(* The handlers of an outcome change no record. *)
LEMMA OutcomesChangeNothing ==
  /\ \A r : HandleRegistered(r) => UNCHANGED records
  /\ Update(FailedData) => UNCHANGED records
<1>1. \A r : HandleRegistered(r) => UNCHANGED records
  BY DEF HandleRegistered, RegistratorRead, Wrapper
<1>2. Update(FailedData) => UNCHANGED records
  BY DEF Update, FailedData
<1> QED
  BY <1>1, <1>2

(* The number a restart goes on from is above all records. *)
LEMMA StartIdAbove ==
  ASSUME IInv
  PROVE  StartId(records) \in Nat /\ (durable => \A i \in DOMAIN records : i <= StartId(records))
<1>1. DOMAIN records \subseteq Nat /\ KeysInv
  BY DEF IInv, Inv, TypeOK
<1>2. CASE DOMAIN records = {} \/ ~durable
  BY <1>2 DEF StartId
<1>3. CASE DOMAIN records # {} /\ durable
  <2>1. /\ Max(DOMAIN records) \in DOMAIN records
        /\ \A i \in DOMAIN records : Max(DOMAIN records) >= i
    <3>1. PICK m \in DOMAIN records : \A i \in DOMAIN records : i <= m
      BY <1>1, <1>3 DEF KeysInv
    <3>2. \A i \in DOMAIN records : m >= i
      BY <1>1, <3>1
    <3> QED
      BY <3>2 DEF Max
  <2> QED
    BY <1>1, <1>3, <2>1 DEF StartId
<1> QED
  BY <1>2, <1>3

-----------------------------------------------------------------------------
(* The actions *)

(* A step that leaves the read model alone keeps what only it matters to. *)
LEMMA RecordsUnchanged ==
  ASSUME IInv, UNCHANGED records
  PROVE  RecordTypes' /\ KeysInv' /\ Keeps
BY DEF IInv, Inv, TypeOK, RecordTypes, KeysInv, Keeps

(* Nor does a step that gives no number and begins no saving disturb the numbers. *)
LEMMA NumbersUnchanged ==
  ASSUME IInv, UNCHANGED <<records, last, id, durable, late>>,
         \A q \in Receipts : /\ InServer(q)' => InServer(q)
                             /\ pc'[q] = "saving" => pc[q] = "saving"
  PROVE  NumberInv'
<1>1. NumberInv
  BY DEF IInv, Inv
<1>2. \A q \in Receipts : Numbered(q)' => Numbered(q)
  BY DEF Numbered, InServer
<1>3. \A q \in Receipts : Numbered(q) =>
          /\ id[q] \in Nat /\ id[q] <= last
          /\ id[q] \in DOMAIN records => records[id[q]].receipt = q
  BY <1>1 DEF NumberInv
<1>4. \A q, r \in Receipts : Numbered(q) /\ Numbered(r) /\ id[q] = id[r] => q = r
  BY <1>1 DEF NumberInv
<1>5. /\ \A i \in DOMAIN records : i <= last
      /\ \A q \in Receipts : pc[q] = "saving" \/ q \in late => durable /\ id[q] \notin DOMAIN records
  BY <1>1 DEF NumberInv
<1> QED
  BY <1>2, <1>3, <1>4, <1>5 DEF NumberInv

LEMMA ExecuteStep ==
  ASSUME IInv, NEW r \in Receipts, Execute(r)
  PROVE  TypeOK' /\ Inv' /\ (Keeps \/ DOMAIN records' = {})
<1>1. RecordTypes' /\ KeysInv' /\ Keeps /\ UNCHANGED records
  <2>1. UNCHANGED records
    BY DEF Execute
  <2> QED
    BY <2>1, RecordsUnchanged
<1>2. TypeOK'
  <2>1. pc' \in [Receipts -> Places]
    BY DEF Execute, Goto, IInv, TypeOK, Places
  <2>2. journal' \subseteq Receipts
    BY DEF Execute, IInv, TypeOK
  <2>3. met' \subseteq {"save", "reread"} \X Receipts
    BY DEF Execute, IInv, TypeOK
  <2> QED
    BY <2>1, <2>2, <2>3 DEF Execute, IInv, TypeOK, Places
<1>3. NumberInv'
  <2>1. /\ UNCHANGED <<records, last, id, durable, late>>
        /\ \A q \in Receipts : /\ InServer(q)' => InServer(q)
                               /\ pc'[q] = "saving" => pc[q] = "saving"
    BY DEF Execute, Goto, IInv, TypeOK, InServer
  <2> QED
    BY <2>1, NumbersUnchanged
<1>4. SavedInv'
  <2> SUFFICES ASSUME NEW q \in Receipts, ~Unsaved(q)'
               PROVE  /\ pc'[q] \in {"queued", "registered", "refused"} => OnRecord(q)'
                      /\ durable' /\ q \in journal' => OnRecord(q)'
    BY DEF SavedInv
  <2>1. /\ UNCHANGED <<records, id, durable>> /\ pc[r] = "queued"
        /\ journal' = journal \/ journal' = journal \cup {r}
        /\ \A o \in Receipts : o # r => pc'[o] = pc[o]
    BY DEF Execute, Goto, IInv, TypeOK
  <2>2. OnRecord(q)' <=> OnRecord(q)
    BY <2>1 DEF OnRecord
  <2>3. ~Unsaved(q)
    BY DEF Execute, Unsaved
  <2>4. /\ pc[q] \in {"queued", "registered", "refused"} => OnRecord(q)
        /\ durable /\ q \in journal => OnRecord(q)
    BY <2>3 DEF IInv, Inv, SavedInv
  <2>5. CASE q = r
    BY <2>1, <2>2, <2>4, <2>5
  <2>6. CASE q # r
    BY <2>1, <2>2, <2>4, <2>6
  <2> QED
    BY <2>5, <2>6
<1>5. JournalInv'
  BY DEF Execute, Goto, IInv, Inv, TypeOK, JournalInv
<1>6. EventInv'
  BY DEF Execute, Goto, IInv, Inv, TypeOK, EventInv, InServer
<1>7. DeviceInv' /\ LateInv'
  BY DEF Execute, Goto, IInv, Inv, TypeOK, DeviceInv, LateInv
<1> QED
  BY <1>1, <1>2, <1>3, <1>4, <1>5, <1>6, <1>7 DEF Inv

LEMMA ReportStep ==
  ASSUME IInv, NEW r \in Receipts, Report(r)
  PROVE  TypeOK' /\ Inv' /\ (Keeps \/ DOMAIN records' = {})
<1>1. RecordTypes' /\ KeysInv' /\ Keeps /\ UNCHANGED records
  <2>1. UNCHANGED records
    BY OutcomesChangeNothing DEF Report
  <2> QED
    BY <2>1, RecordsUnchanged
<1>2. TypeOK'
  <2>1. queue' \in [1..MaxDevices -> Seq(Receipts)]
    <3> DEFINE e(d) == IF queue[d] # <<>> /\ Head(queue[d]) = r THEN Tail(queue[d]) ELSE queue[d]
    <3>1. queue \in [1..MaxDevices -> Seq(Receipts)]
      BY DEF IInv, TypeOK
    <3>2. ASSUME NEW d \in 1..MaxDevices PROVE e(d) \in Seq(Receipts)
      <4>1. queue[d] \in Seq(Receipts)
        BY <3>1
      <4> QED
        BY <4>1
    <3>3. queue' = [d \in 1..MaxDevices |-> e(d)]
      BY <3>1 DEF Report, Done
    <3> HIDE DEF e
    <3> QED
      BY <3>2, <3>3
  <2>2. events' \in [Types -> [Receipts -> Nat]]
    <3>1. \E type \in Types : events' = [events EXCEPT ![type][r] = @ + 1]
      BY DEF Report, Log, Types
    <3>2. events \in [Types -> [Receipts -> Nat]]
      BY DEF IInv, TypeOK
    <3> QED
      BY <3>1, <3>2
  <2>3. pc' \in [Receipts -> Places]
    BY DEF Report, Goto, IInv, TypeOK, Places
  <2>4. UNCHANGED <<last, id, journal, device, running, restarts, late, hung, durable, met>>
    BY DEF Report
  <2> QED
    BY <1>1, <2>1, <2>2, <2>3, <2>4 DEF IInv, TypeOK, Places
<1>3. NumberInv'
  <2>1. /\ UNCHANGED <<records, last, id, durable, late>>
        /\ \A q \in Receipts : /\ InServer(q)' => InServer(q)
                               /\ pc'[q] = "saving" => pc[q] = "saving"
    BY <1>1 DEF Report, Goto, IInv, TypeOK, InServer
  <2> QED
    BY <2>1, NumbersUnchanged
<1>4. SavedInv'
  BY <1>1 DEF Report, Goto, IInv, Inv, TypeOK, SavedInv, OnRecord, Unsaved
<1>5. JournalInv'
  <2>1. UNCHANGED <<journal, met>> /\ JournalInv
    BY DEF Report, IInv, Inv
  <2>2. \A q \in Receipts : q # r => pc'[q] = pc[q]
    BY DEF Report, Goto, IInv, TypeOK
  <2>3. \/ pc[r] = "registered" /\ pc'[r] = "done"
        \/ pc[r] = "refused" /\ pc'[r] = "failed"
    BY DEF Report, Goto, IInv, TypeOK
  <2> QED
    BY <2>1, <2>2, <2>3 DEF JournalInv
<1>6. EventInv'
  <2>1. /\ events \in [Types -> [Receipts -> Nat]] /\ pc \in [Receipts -> Places]
        /\ EventInv /\ UNCHANGED restarts
    BY DEF Report, IInv, Inv, TypeOK, Places
  <2>2. PICK type \in {"registered", "failed"}, where \in {"done", "failed"} :
            /\ pc[r] \in {"registered", "refused"}
            /\ type = "registered" <=> where = "done"
            /\ pc' = [pc EXCEPT ![r] = where]
            /\ events' = [events EXCEPT ![type][r] = @ + 1]
    BY DEF Report, Goto, Log
  <2>3. ASSUME NEW q \in Receipts, q # r
        PROVE  pc'[q] = pc[q] /\ \A t \in Types : events'[t][q] = events[t][q]
    BY <2>1, <2>2, <2>3 DEF Types
  <2>4. /\ pc'[r] = where /\ events[type][r] = 0 /\ events'[type][r] = 1
        /\ \A t \in Types \ {type} : events'[t][r] = events[t][r]
        /\ events["created"][r] = 1 /\ events["registered"][r] = 0 /\ events["failed"][r] = 0
    BY <2>1, <2>2 DEF Types, EventInv, InServer
  <2>5. \A q \in Receipts \ {r} : (InServer(q)' <=> InServer(q)) /\ ~InServer(r)'
    BY <2>2, <2>3, <2>4 DEF InServer
  <2>6. \A t \in Types, q \in Receipts \ {r} : events'[t][q] = events[t][q]
    BY <2>3
  <2>7. ASSUME NEW q \in Receipts
        PROVE  /\ InServer(q)' => events'["created"][q] = 1
               /\ events'["registered"][q] # 0 => pc'[q] = "done"
               /\ events'["failed"][q] # 0 => pc'[q] = "failed"
               /\ events'["registered"][q] \in {0, events'["created"][q]}
               /\ events'["failed"][q] \in {0, events'["created"][q]}
               /\ events'["created"][q] \in {0, 1}
               /\ pc'[q] = "idle" => events'["created"][q] = 0
               /\ restarts' = 0 /\ pc'[q] = "done" => events'["registered"][q] = 1
               /\ restarts' = 0 /\ pc'[q] = "failed" => events'["failed"][q] = 1
    <3>1. CASE q = r
      BY <2>2, <2>4, <2>5, <3>1 DEF Types
    <3>2. CASE q # r
      <4>1. EventInv /\ (InServer(q)' <=> InServer(q)) /\ pc'[q] = pc[q] /\ restarts' = restarts
        BY <2>1, <2>3, <2>5, <3>2
      <4>2. /\ events'["created"][q] = events["created"][q]
            /\ events'["registered"][q] = events["registered"][q]
            /\ events'["failed"][q] = events["failed"][q]
        BY <2>6, <3>2 DEF Types
      <4> QED
        BY <4>1, <4>2 DEF EventInv
    <3> QED
      BY <3>1, <3>2
  <2> QED
    BY <2>7 DEF EventInv
<1>7. DeviceInv' /\ LateInv'
  <2>1. DeviceInv'
    BY DEF Report, IInv, Inv, DeviceInv
  <2>2. \A q \in Receipts : pc'[q] \in {"idle", "saving"} => pc[q] \in {"idle", "saving"}
    BY DEF Report, Goto, IInv, TypeOK
  <2>3. late' = late /\ late \subseteq Receipts
    BY DEF Report, IInv, TypeOK
  <2> QED
    BY <2>1, <2>2, <2>3 DEF IInv, Inv, LateInv
<1> QED
  BY <1>1, <1>2, <1>3, <1>4, <1>5, <1>6, <1>7 DEF Inv

LEMMA StopDeviceStep ==
  ASSUME IInv, StopDevice
  PROVE  TypeOK' /\ Inv' /\ (Keeps \/ DOMAIN records' = {})
<1>1. RecordTypes' /\ KeysInv' /\ Keeps /\ UNCHANGED records
  <2>1. UNCHANGED records
    BY DEF StopDevice
  <2> QED
    BY <2>1, RecordsUnchanged
<1>2. TypeOK'
  BY DEF StopDevice, IInv, TypeOK
<1>3. NumberInv'
  BY NumbersUnchanged DEF StopDevice, InServer
<1>4. SavedInv'
  BY DEF StopDevice, IInv, Inv, SavedInv, OnRecord, Unsaved
<1>5. JournalInv'
  BY DEF StopDevice, IInv, Inv, JournalInv
<1>6. EventInv'
  BY DEF StopDevice, IInv, Inv, EventInv, InServer
<1>7. DeviceInv' /\ LateInv'
  BY DEF StopDevice, Goto, IInv, Inv, TypeOK, DeviceInv, LateInv
<1> QED
  BY <1>1, <1>2, <1>3, <1>4, <1>5, <1>6, <1>7 DEF Inv

LEMMA HangStep ==
  ASSUME IInv, NEW r \in Receipts, Hang(r)
  PROVE  TypeOK' /\ Inv' /\ (Keeps \/ DOMAIN records' = {})
<1>1. RecordTypes' /\ KeysInv' /\ Keeps /\ UNCHANGED records
  <2>1. UNCHANGED records
    BY DEF Hang
  <2> QED
    BY <2>1, RecordsUnchanged
<1>2. TypeOK'
  BY DEF Hang, IInv, TypeOK
<1>3. NumberInv'
  BY NumbersUnchanged DEF Hang, InServer
<1>4. SavedInv'
  BY DEF Hang, IInv, Inv, SavedInv, OnRecord, Unsaved
<1>5. JournalInv'
  BY DEF Hang, IInv, Inv, JournalInv
<1>6. EventInv'
  BY DEF Hang, IInv, Inv, EventInv, InServer
<1>7. DeviceInv' /\ LateInv'
  BY DEF Hang, Goto, IInv, Inv, TypeOK, DeviceInv, LateInv
<1> QED
  BY <1>1, <1>2, <1>3, <1>4, <1>5, <1>6, <1>7 DEF Inv

LEMMA StartDeviceStep ==
  ASSUME IInv, StartDevice
  PROVE  TypeOK' /\ Inv' /\ (Keeps \/ DOMAIN records' = {})
<1>1. RecordTypes' /\ KeysInv' /\ Keeps /\ UNCHANGED records
  <2>1. UNCHANGED records
    BY DEF StartDevice
  <2> QED
    BY <2>1, RecordsUnchanged
<1>2. TypeOK'
  BY FlowAssumption DEF StartDevice, IInv, TypeOK
<1>3. NumberInv'
  BY NumbersUnchanged DEF StartDevice, InServer
<1>4. SavedInv'
  BY DEF StartDevice, IInv, Inv, SavedInv, OnRecord, Unsaved
<1>5. JournalInv'
  BY DEF StartDevice, IInv, Inv, JournalInv
<1>6. EventInv'
  BY DEF StartDevice, IInv, Inv, EventInv, InServer
<1>7. DeviceInv' /\ LateInv'
  BY FlowAssumption DEF StartDevice, Goto, IInv, Inv, TypeOK, DeviceInv, LateInv
<1> QED
  BY <1>1, <1>2, <1>3, <1>4, <1>5, <1>6, <1>7 DEF Inv


(* A number that is nobody's: of a receipt that is posted, and of one being saved. *)
LEMMA NextIsFree ==
  ASSUME IInv
  PROVE  last + 1 \in Nat /\ last + 1 \notin DOMAIN records
BY DEF IInv, Inv, TypeOK, NumberInv

(* What Process does. *)
LEMMA ProcessTypes ==
  ASSUME IInv, NEW r \in Receipts, Process(r)
  PROVE  /\ queue' \in [1..MaxDevices -> Seq(Receipts)]
         /\ pc' = [pc EXCEPT ![r] = "queued"] \/ pc' = [pc EXCEPT ![r] = "error"]
<1>1. queue \in [1..MaxDevices -> Seq(Receipts)] /\ DeviceInv
  BY DEF IInv, Inv, TypeOK
<1>2. CASE running /\ queue' = [queue EXCEPT ![device] = Append(@, r)] /\ Goto(r, "queued")
  <2>1. device \in 1..MaxDevices
    BY <1>1, <1>2 DEF DeviceInv
  <2>2. Append(queue[device], r) \in Seq(Receipts)
    BY <1>1, <2>1
  <2>3. queue' = [queue EXCEPT ![device] = Append(queue[device], r)]
    BY <1>2
  <2>4. queue' \in [1..MaxDevices -> Seq(Receipts)]
    BY <1>1, <2>1, <2>2, <2>3
  <2> QED
    BY <1>2, <2>4 DEF Goto
<1>3. CASE ~running /\ Goto(r, "error") /\ UNCHANGED queue
  BY <1>1, <1>3 DEF Goto
<1> QED
  BY <1>2, <1>3 DEF Process

LEMMA PostStep ==
  ASSUME IInv, NEW r \in Receipts, Post(r)
  PROVE  TypeOK' /\ Inv' /\ (Keeps \/ DOMAIN records' = {})
<1>1. /\ pc[r] = "idle" /\ pc \in [Receipts -> Places]
      /\ last \in Nat /\ id \in [Receipts -> Nat \cup {None}]
      /\ last' = last + 1 /\ id' = [id EXCEPT ![r] = last + 1]
      /\ events' = [events EXCEPT !["created"][r] = @ + 1]
      /\ UNCHANGED <<journal, device, running, restarts, late, hung, durable>>
  BY DEF Post, TakeId, Log, IInv, TypeOK, Places
<1>2. /\ RecordTypes' /\ KeysInv' /\ Keeps
      /\ DOMAIN records' \subseteq DOMAIN records \cup {last + 1}
      /\ met' = met \/ met' = met \cup {<<"save", r>>}
      /\ \/ /\ ~durable
            /\ last + 1 \in DOMAIN records' => records'[last + 1].receipt = r
            /\ <<"save", r>> \notin met' => last + 1 \in DOMAIN records'
            /\ pc' = [pc EXCEPT ![r] = "queued"] \/ pc' = [pc EXCEPT ![r] = "error"]
         \/ durable /\ pc' = [pc EXCEPT ![r] = "saving"] /\ UNCHANGED records
      /\ queue' \in [1..MaxDevices -> Seq(Receipts)]
  <2>1. CASE ~durable /\ Save(r, last + 1) /\ Process(r)
    BY <2>1, NextIsFree, SaveAdds, ProcessTypes
  <2>2. CASE durable /\ Goto(r, "saving") /\ UNCHANGED <<records, queue, met>>
    BY <2>2, RecordsUnchanged DEF Goto, IInv, TypeOK, Keeps
  <2> QED
    BY <2>1, <2>2 DEF Post
<1>3. TypeOK'
  <2>1. pc' \in [Receipts -> Places] /\ last' \in Nat /\ id' \in [Receipts -> Nat \cup {None}]
    BY <1>1, <1>2 DEF Places
  <2>2. events' \in [Types -> [Receipts -> Nat]]
    BY <1>1 DEF IInv, TypeOK, Types
  <2>3. met' \subseteq {"save", "reread"} \X Receipts
    BY <1>2 DEF IInv, TypeOK
  <2> QED
    BY <1>1, <1>2, <2>1, <2>2 DEF IInv, TypeOK, RecordTypes, Places
<1>4. NumberInv'
  <2>1. NumberInv /\ last + 1 \in Nat /\ last + 1 \notin DOMAIN records
    BY NextIsFree DEF IInv, Inv
  <2>2. \A i \in DOMAIN records' : i <= last'
    BY <1>1, <1>2, <2>1 DEF IInv, TypeOK, NumberInv
  <2>3. /\ id'[r] = last + 1
        /\ last + 1 \in DOMAIN records' => records'[last + 1].receipt = r
        /\ \A q \in Receipts : q # r => id'[q] = id[q] /\ pc'[q] = pc[q]
    BY <1>1, <1>2, <2>1
  <2>4. ASSUME NEW q \in Receipts, q # r, Numbered(q)'
        PROVE  /\ Numbered(q) /\ id'[q] = id[q] /\ id[q] \in Nat /\ id[q] <= last
               /\ id[q] \in DOMAIN records' => records'[id[q]].receipt = q
               /\ id[q] # last + 1
    <3>1. Numbered(q) /\ id'[q] = id[q]
      BY <1>1, <2>3, <2>4 DEF Numbered, InServer
    <3>2. id[q] \in Nat /\ id[q] <= last /\ (id[q] \in DOMAIN records => records[id[q]].receipt = q)
      BY <2>1, <3>1 DEF NumberInv
    <3>3. id[q] # last + 1
      BY <1>1, <3>2
    <3> QED
      BY <1>2, <3>1, <3>2, <3>3 DEF Keeps
  <2>5. \A q \in Receipts : Numbered(q)' =>
            /\ id'[q] \in Nat /\ id'[q] <= last'
            /\ id'[q] \in DOMAIN records' => records'[id'[q]].receipt = q
    <3> TAKE q \in Receipts
    <3> HAVE Numbered(q)'
    <3>1. CASE q = r
      BY <1>1, <2>1, <2>3, <3>1
    <3>2. CASE q # r
      BY <1>1, <2>4, <3>2
    <3> QED
      BY <3>1, <3>2
  <2>6. \A q \in Receipts : pc'[q] = "saving" \/ q \in late' =>
            durable' /\ id'[q] \notin DOMAIN records'
    <3> TAKE q \in Receipts
    <3> HAVE pc'[q] = "saving" \/ q \in late'
    <3>1. CASE ~durable
      <4>1. pc[q] # "saving" /\ q \notin late
        BY <2>1, <3>1 DEF NumberInv
      <4> QED
        BY <1>1, <1>2, <2>3, <3>1, <4>1
    <3>2. CASE durable /\ UNCHANGED records
      <4>1. CASE q = r
        BY <1>1, <2>1, <2>3, <3>2, <4>1
      <4>2. CASE q # r
        BY <1>1, <2>1, <2>3, <3>2, <4>2 DEF NumberInv
      <4> QED
        BY <4>1, <4>2
    <3> QED
      BY <1>2, <3>1, <3>2
  <2>7. \A q, o \in Receipts : Numbered(q)' /\ Numbered(o)' /\ id'[q] = id'[o] => o = q
    <3> TAKE q, o \in Receipts
    <3> HAVE Numbered(q)' /\ Numbered(o)' /\ id'[q] = id'[o]
    <3>1. CASE q # r /\ o # r
      BY <2>1, <2>4, <3>1 DEF NumberInv
    <3>2. CASE q = r \/ o = r
      BY <2>3, <2>4, <3>2
    <3> QED
      BY <3>1, <3>2
  <2> QED
    BY <2>2, <2>5, <2>6, <2>7 DEF NumberInv
<1>5. SavedInv'
  <2> SUFFICES ASSUME NEW q \in Receipts, <<"save", q>> \notin met'
               PROVE  /\ pc'[q] \in {"queued", "registered", "refused"} => OnRecord(q)'
                      /\ durable' /\ q \in journal' => OnRecord(q)'
    BY DEF SavedInv, Unsaved
  <2>1. <<"save", q>> \notin met
    BY <1>2
  <2>2. CASE q = r
    <3>1. r \notin journal' /\ id'[r] = last + 1
      BY <1>1 DEF IInv, Inv, JournalInv
    <3> QED
      BY <1>1, <1>2, <2>2, <3>1 DEF OnRecord
  <2>3. CASE q # r
    <3>1. id'[q] = id[q] /\ pc'[q] = pc[q]
      BY <1>1, <1>2, <2>3
    <3>2. OnRecord(q) => OnRecord(q)'
      BY <1>2, <3>1 DEF OnRecord, Keeps
    <3> QED
      BY <1>1, <2>1, <3>1, <3>2 DEF IInv, Inv, SavedInv, Unsaved
  <2> QED
    BY <2>2, <2>3
<1>6. JournalInv'
  BY <1>1, <1>2 DEF IInv, Inv, JournalInv
<1>7. EventInv'
  BY <1>1, <1>2 DEF IInv, Inv, TypeOK, EventInv, InServer, Types
<1>8. DeviceInv' /\ LateInv'
  <2>1. \A q \in Receipts : q # r => pc'[q] = pc[q]
    BY <1>1, <1>2
  <2>2. r \notin late /\ late \subseteq Receipts
    BY <1>1 DEF IInv, Inv, TypeOK, LateInv
  <2> QED
    BY <1>1, <2>1, <2>2 DEF IInv, Inv, DeviceInv, LateInv
<1> QED
  BY <1>2, <1>3, <1>4, <1>5, <1>6, <1>7, <1>8 DEF Inv

(* The two ways in which a saving comes to an end. *)
LEMMA SavingEnds ==
  ASSUME IInv, NEW r \in Receipts, pc[r] = "saving",
         RecordTypes', KeysInv', Keeps,
         DOMAIN records' \subseteq DOMAIN records \cup {id[r]},
         met' = met \/ met' = met \cup {<<"save", r>>},
         queue' \in [1..MaxDevices -> Seq(Receipts)],
         NEW w \in {"queued", "error"}, pc' = [pc EXCEPT ![r] = w],
         id[r] \in DOMAIN records' => records'[id[r]].receipt = r,
         <<"save", r>> \notin met' => id[r] \in DOMAIN records',
         late' = late \/ (late' = late \cup {r} /\ UNCHANGED records),
         UNCHANGED <<last, id, events, journal, device, running, restarts, hung, durable>>
  PROVE  TypeOK' /\ Inv'
<1>1. pc' \in [Receipts -> Places] /\ pc \in [Receipts -> Places]
  BY DEF IInv, TypeOK, Places
<1>2. TypeOK'
  <2>1. met' \subseteq {"save", "reread"} \X Receipts
    BY DEF IInv, TypeOK
  <2> QED
    BY <1>1, <2>1 DEF IInv, TypeOK, RecordTypes, Places
<1>3. NumberInv'
  <2>1. NumberInv /\ Numbered(r) /\ durable /\ id[r] \in Nat /\ id[r] <= last
    BY DEF IInv, Inv, NumberInv, Numbered, InServer
  <2>2. \A i \in DOMAIN records' : i <= last'
    BY <2>1 DEF NumberInv
  <2>3. \A q \in Receipts : Numbered(q)' => Numbered(q)
    BY <1>1, <2>1 DEF Numbered, InServer
  <2>4. \A q \in Receipts : Numbered(q)' =>
            /\ id'[q] \in Nat /\ id'[q] <= last'
            /\ id'[q] \in DOMAIN records' => records'[id'[q]].receipt = q
    <3> TAKE q \in Receipts
    <3> HAVE Numbered(q)'
    <3>1. Numbered(q)
      BY <2>3
    <3>2. CASE q = r
      BY <2>1, <3>2
    <3>3. CASE q # r
      <4>1. id[q] # id[r]
        BY <2>1, <3>1, <3>3 DEF NumberInv
      <4>2. id[q] \in Nat /\ id[q] <= last /\ (id[q] \in DOMAIN records => records[id[q]].receipt = q)
        BY <2>1, <3>1 DEF NumberInv
      <4> QED
        BY <4>1, <4>2 DEF Keeps
    <3> QED
      BY <3>2, <3>3
  <2>5. \A q \in Receipts : pc'[q] = "saving" \/ q \in late' =>
            durable' /\ id'[q] \notin DOMAIN records'
    <3> TAKE q \in Receipts
    <3> HAVE pc'[q] = "saving" \/ q \in late'
    <3>1. pc'[q] = "saving" => pc[q] = "saving" /\ q # r
      BY <1>1
    <3>2. CASE q = r /\ q \notin late
      BY <2>1, <3>1, <3>2 DEF NumberInv
    <3>3. CASE q = r /\ q \in late
      BY <3>3 DEF IInv, Inv, LateInv
    <3>4. CASE q # r
      <4>1. pc[q] = "saving" \/ q \in late
        BY <3>1, <3>4
      <4>2. Numbered(q) /\ id[q] \notin DOMAIN records
        BY <2>1, <4>1 DEF NumberInv, Numbered, InServer
      <4>3. id[q] # id[r]
        BY <2>1, <3>4, <4>2 DEF NumberInv
      <4> QED
        BY <2>1, <4>2, <4>3
    <3> QED
      BY <3>2, <3>3, <3>4
  <2>6. \A q, o \in Receipts : Numbered(q)' /\ Numbered(o)' /\ id'[q] = id'[o] => q = o
    BY <2>1, <2>3 DEF NumberInv
  <2> QED
    BY <2>2, <2>4, <2>5, <2>6 DEF NumberInv
<1>4. SavedInv'
  <2> SUFFICES ASSUME NEW q \in Receipts, <<"save", q>> \notin met'
               PROVE  /\ pc'[q] \in {"queued", "registered", "refused"} => OnRecord(q)'
                      /\ durable' /\ q \in journal' => OnRecord(q)'
    BY DEF SavedInv, Unsaved
  <2>1. <<"save", q>> \notin met
    OBVIOUS
  <2>2. CASE q = r
    <3>1. r \notin journal' /\ pc'[r] = w
      BY <1>1 DEF IInv, Inv, JournalInv
    <3> QED
      BY <2>2, <3>1 DEF OnRecord
  <2>3. CASE q # r
    <3>1. pc'[q] = pc[q]
      BY <2>3
    <3>2. OnRecord(q) => OnRecord(q)'
      BY DEF OnRecord, Keeps
    <3> QED
      BY <2>1, <3>1, <3>2 DEF IInv, Inv, SavedInv, Unsaved
  <2> QED
    BY <2>2, <2>3
<1>5. JournalInv'
  BY <1>1 DEF IInv, Inv, JournalInv
<1>6. EventInv'
  BY <1>1 DEF IInv, Inv, EventInv, InServer
<1>7. DeviceInv' /\ LateInv'
  BY DEF Goto, IInv, Inv, TypeOK, DeviceInv, LateInv
<1> QED
  BY <1>2, <1>3, <1>4, <1>5, <1>6, <1>7 DEF Inv

(* The receipt that is being saved, under a number that is its own. *)
LEMMA SavingNumber ==
  ASSUME IInv, NEW r \in Receipts, pc[r] = "saving"
  PROVE  id[r] \in Nat /\ id[r] \notin DOMAIN records /\ durable
BY DEF IInv, Inv, NumberInv, Numbered, InServer

LEMMA SavedStep ==
  ASSUME IInv, NEW r \in Receipts, Saved(r)
  PROVE  TypeOK' /\ Inv' /\ (Keeps \/ DOMAIN records' = {})
<1>1. /\ pc[r] = "saving" /\ Save(r, id[r]) /\ Process(r)
      /\ UNCHANGED <<last, id, events, journal, device, running, restarts, late, hung, durable>>
  BY DEF Saved
<1>2. id[r] \in Nat /\ id[r] \notin DOMAIN records
  BY <1>1, SavingNumber
<1>3. /\ RecordTypes' /\ KeysInv' /\ Keeps
      /\ DOMAIN records' \subseteq DOMAIN records \cup {id[r]}
      /\ met' = met \/ met' = met \cup {<<"save", r>>}
      /\ id[r] \in DOMAIN records' => records'[id[r]].receipt = r
      /\ <<"save", r>> \notin met' => id[r] \in DOMAIN records'
  BY <1>1, <1>2, SaveAdds
<1>4. /\ queue' \in [1..MaxDevices -> Seq(Receipts)]
      /\ \E w \in {"queued", "error"} : pc' = [pc EXCEPT ![r] = w]
  BY <1>1, ProcessTypes
<1> QED
  BY <1>1, <1>3, <1>4, SavingEnds

LEMMA DisconnectStep ==
  ASSUME IInv, NEW r \in Receipts, Disconnect(r)
  PROVE  TypeOK' /\ Inv' /\ (Keeps \/ DOMAIN records' = {})
<1>1. /\ pc[r] = "saving" /\ late' = late \cup {r} /\ met' = met \cup {<<"save", r>>} /\ Process(r)
      /\ UNCHANGED <<records, last, id, events, journal, device, running, restarts, hung, durable>>
  BY DEF Disconnect
<1>2. id[r] \notin DOMAIN records
  BY <1>1, SavingNumber
<1>3. RecordTypes' /\ KeysInv' /\ Keeps
  BY <1>1, RecordsUnchanged
<1>4. /\ queue' \in [1..MaxDevices -> Seq(Receipts)]
      /\ \E w \in {"queued", "error"} : pc' = [pc EXCEPT ![r] = w]
  BY <1>1, ProcessTypes
<1> QED
  BY <1>1, <1>2, <1>3, <1>4, SavingEnds

LEMMA LandStep ==
  ASSUME IInv, NEW r \in Receipts, Land(r)
  PROVE  TypeOK' /\ Inv' /\ (Keeps \/ DOMAIN records' = {})
<1>1. /\ r \in late /\ late' = late \ {r} /\ Stored(r, id[r])
      /\ UNCHANGED <<last, id, events, queue, journal, device, running, pc, restarts, hung, durable,
                     met>>
  BY DEF Land
<1>2. NumberInv /\ Numbered(r) /\ id[r] \in Nat /\ id[r] <= last /\ id[r] \notin DOMAIN records
  BY <1>1 DEF IInv, Inv, NumberInv, Numbered
<1>3. /\ RecordTypes' /\ KeysInv' /\ Keeps
      /\ DOMAIN records' = DOMAIN records \cup {id[r]} /\ records'[id[r]].receipt = r
  BY <1>1, <1>2, StoredAdds
<1>4. TypeOK'
  <2>1. late' \subseteq Receipts
    BY <1>1 DEF IInv, TypeOK
  <2> QED
    BY <1>1, <1>3, <2>1 DEF IInv, TypeOK, RecordTypes
<1>5. NumberInv'
  <2>1. \A i \in DOMAIN records' : i <= last'
    BY <1>1, <1>2, <1>3 DEF NumberInv
  <2>2. \A q \in Receipts : Numbered(q)' => Numbered(q)
    BY <1>1 DEF Numbered, InServer
  <2>3. \A q \in Receipts : Numbered(q)' =>
            /\ id'[q] \in Nat /\ id'[q] <= last'
            /\ id'[q] \in DOMAIN records' => records'[id'[q]].receipt = q
    <3> TAKE q \in Receipts
    <3> HAVE Numbered(q)'
    <3>1. Numbered(q)
      BY <2>2
    <3>2. id[q] \in Nat /\ id[q] <= last /\ (id[q] \in DOMAIN records => records[id[q]].receipt = q)
      BY <1>2, <3>1 DEF NumberInv
    <3>3. id[q] = id[r] => q = r
      BY <1>2, <3>1 DEF NumberInv
    <3> QED
      BY <1>1, <1>3, <3>2, <3>3 DEF Keeps
  <2>4. \A q \in Receipts : pc'[q] = "saving" \/ q \in late' =>
            durable' /\ id'[q] \notin DOMAIN records'
    <3> TAKE q \in Receipts
    <3> HAVE pc'[q] = "saving" \/ q \in late'
    <3>1. q # r
      BY <1>1 DEF IInv, Inv, LateInv
    <3>2. (pc[q] = "saving" \/ q \in late) /\ Numbered(q)
      BY <1>1 DEF Numbered, InServer
    <3>3. durable /\ id[q] \notin DOMAIN records /\ id[q] # id[r]
      BY <1>2, <3>1, <3>2 DEF NumberInv
    <3> QED
      BY <1>1, <1>3, <3>3
  <2>5. \A q, o \in Receipts : Numbered(q)' /\ Numbered(o)' /\ id'[q] = id'[o] => q = o
    BY <1>1, <1>2, <2>2 DEF NumberInv
  <2> QED
    BY <2>1, <2>3, <2>4, <2>5 DEF NumberInv
<1>6. SavedInv'
  BY <1>1, <1>3 DEF IInv, Inv, SavedInv, OnRecord, Unsaved, Keeps
<1>7. JournalInv'
  BY <1>1 DEF IInv, Inv, JournalInv
<1>8. EventInv'
  BY <1>1 DEF IInv, Inv, EventInv, InServer
<1>9. DeviceInv' /\ LateInv'
  BY <1>1 DEF IInv, Inv, DeviceInv, LateInv
<1> QED
  BY <1>3, <1>4, <1>5, <1>6, <1>7, <1>8, <1>9 DEF Inv

LEMMA RestartStep ==
  ASSUME IInv, Restart
  PROVE  TypeOK' /\ Inv' /\ (Keeps \/ DOMAIN records' = {})
<1>1. /\ records' = IF durable THEN records ELSE NoRecords
      /\ last' = StartId(records') /\ events' = NoEvents
      /\ pc' = [r \in Receipts |-> IF InServer(r) THEN "lost" ELSE pc[r]]
      /\ running' = FALSE /\ device' = 0 /\ restarts' = restarts + 1 /\ hung' = {} /\ late' = {}
      /\ UNCHANGED <<durable, id, journal, met>>
  BY DEF Restart
<1>2. \A r \in Receipts : pc'[r] \notin {"saving", "queued", "registered", "refused"}
  BY <1>1 DEF InServer
<1>3. /\ RecordTypes' /\ KeysInv' /\ (Keeps \/ DOMAIN records' = {})
      /\ durable => UNCHANGED records
  <2>1. CASE durable
    BY <1>1, <2>1, RecordsUnchanged
  <2>2. CASE ~durable
    <3>1. DOMAIN records' = {}
      BY <1>1, <2>2 DEF NoRecords
    <3> QED
      BY <2>2, <3>1, FS_EmptySet DEF RecordTypes, KeysInv
  <2> QED
    BY <2>1, <2>2
<1>4. last' \in Nat /\ \A i \in DOMAIN records' : i <= last'
  <2>1. CASE durable
    BY <1>1, <2>1, StartIdAbove
  <2>2. CASE ~durable
    BY <1>1, <2>2 DEF NoRecords, StartId
  <2> QED
    BY <2>1, <2>2
<1>5. TypeOK'
  <2>1. pc' \in [Receipts -> Places]
    BY <1>1 DEF IInv, TypeOK, Places
  <2>2. queue' \in [1..MaxDevices -> Seq(Receipts)]
    BY DEF Restart
  <2>3. events' \in [Types -> [Receipts -> Nat]]
    BY <1>1 DEF NoEvents, Types
  <2>4. restarts' \in 0..MaxRestarts /\ device' \in 0..MaxDevices
    BY FlowAssumption DEF Restart, IInv, TypeOK
  <2> QED
    BY <1>1, <1>3, <1>4, <2>2, <2>3, <2>4 DEF IInv, TypeOK, RecordTypes
<1>6. NumberInv'
  BY <1>1, <1>2, <1>4 DEF NumberInv, Numbered, InServer
<1>7. SavedInv'
  BY <1>1, <1>2, <1>3 DEF IInv, Inv, SavedInv, OnRecord, Unsaved
<1>8. JournalInv'
  BY <1>1, <1>2 DEF IInv, Inv, JournalInv, InServer
<1>9. EventInv'
  <2>1. \A type \in Types, r \in Receipts : events'[type][r] = 0
    BY <1>1 DEF NoEvents
  <2>2. restarts' # 0
    BY <1>1 DEF IInv, TypeOK
  <2> QED
    BY <1>2, <2>1, <2>2 DEF EventInv, InServer, Types
<1>10. DeviceInv' /\ LateInv'
  BY <1>1 DEF DeviceInv, LateInv
<1> QED
  BY <1>3, <1>5, <1>6, <1>7, <1>8, <1>9, <1>10 DEF Inv

-----------------------------------------------------------------------------
(* The invariant, and the theorems *)

LEMMA InvInit == Init => IInv
<1> SUFFICES ASSUME Init PROVE IInv
  OBVIOUS
<1>1. DOMAIN records = {} /\ last \in Nat
  BY DEF Init, NoRecords, StartId
<1>2. TypeOK
  BY <1>1, FlowAssumption, FS_EmptySet DEF Init, TypeOK, NoEvents
<1>3. KeysInv /\ NumberInv /\ DeviceInv /\ LateInv
  BY <1>1, FlowAssumption
     DEF Init, KeysInv, NumberInv, Numbered, InServer, DeviceInv, LateInv
<1>4. SavedInv /\ JournalInv
  BY DEF Init, SavedInv, JournalInv
<1>5. EventInv
  BY DEF Init, EventInv, InServer, NoEvents, Types
<1> QED
  BY <1>2, <1>3, <1>4, <1>5 DEF IInv, Inv

LEMMA InvStep ==
  ASSUME IInv, [Next]_vars
  PROVE  IInv' /\ (Keeps \/ DOMAIN records' = {})
<1>1. CASE UNCHANGED vars
  <2>1. TypeOK'
    BY <1>1 DEF vars, IInv, TypeOK
  <2>2. Inv' /\ Keeps
    BY <1>1 DEF vars, IInv, Inv, KeysInv, NumberInv, Numbered, SavedInv, OnRecord, Unsaved, JournalInv,
                EventInv, InServer, DeviceInv, LateInv, Keeps
  <2> QED
    BY <2>1, <2>2 DEF IInv
<1>2. ASSUME NEW r \in Receipts,
             \/ Post(r) \/ Saved(r) \/ Disconnect(r) \/ Land(r)
             \/ Execute(r) \/ Report(r) \/ Hang(r)
      PROVE  IInv' /\ (Keeps \/ DOMAIN records' = {})
  BY <1>2, PostStep, SavedStep, DisconnectStep, LandStep, ExecuteStep, ReportStep, HangStep DEF IInv
<1>3. CASE StopDevice \/ StartDevice \/ Restart
  BY <1>3, StopDeviceStep, StartDeviceStep, RestartStep DEF IInv
<1> QED
  BY <1>1, <1>2, <1>3 DEF Next

LEMMA Invariance == Spec => []IInv
<1>1. IInv /\ [Next]_vars => IInv'
  BY InvStep
<1> QED
  BY <1>1, InvInit, PTL DEF Spec

(* The state of the way of the receipts is what TypeOK says. *)
THEOREM TypeCorrect == Spec => []TypeOK
<1>1. IInv => TypeOK
  BY DEF IInv
<1> QED
  BY <1>1, Invariance, PTL

(* What is queued at a device, or in its journal, has its own record under its number, and  *)
(* keeps it through restarts when the record is durable; or its saving failed or was       *)
(* cancelled, which the code takes no notice of, and then no receipt's record is under the *)
(* number of its command (views.py, post; event_dispatchers.py, 53; events.py,             *)
(* ReceiptCreatedHandler; the id generator of di_containers.py).                           *)
THEOREM RecordComesFirst == Spec => []RecordedFirst
<1>1. IInv => RecordedFirst
  <2> SUFFICES ASSUME IInv, NEW r \in Receipts
               PROVE  /\ pc[r] \in {"queued", "registered", "refused"} =>
                             OnRecord(r) \/ (Unsaved(r) /\ id[r] \notin DOMAIN records)
                      /\ durable /\ r \in journal => OnRecord(r) \/ Unsaved(r)
    BY DEF RecordedFirst
  <2>1. durable /\ r \in journal => OnRecord(r) \/ Unsaved(r)
    BY DEF IInv, Inv, SavedInv
  <2>2. ASSUME pc[r] \in {"queued", "registered", "refused"}
        PROVE  OnRecord(r) \/ (Unsaved(r) /\ id[r] \notin DOMAIN records)
    <3>1. OnRecord(r) \/ Unsaved(r)
      BY <2>2 DEF IInv, Inv, SavedInv
    <3>2. id[r] \in DOMAIN records => OnRecord(r)
      BY <2>2 DEF IInv, Inv, NumberInv, Numbered, InServer, OnRecord
    <3> QED
      BY <3>1, <3>2
  <2> QED
    BY <2>1, <2>2
<1> QED
  BY <1>1, Invariance, PTL

(* The event storage tells what became of a receipt, once. *)
THEOREM EventsAreTrue == Spec => []EventsTellTruth
<1>1. IInv => EventsTellTruth
  <2> SUFFICES ASSUME IInv, NEW r \in Receipts
               PROVE  /\ events["registered"][r] > 0 => r \in journal
                      /\ events["failed"][r] > 0 => r \notin journal \/ <<"reread", r>> \in met
                      /\ events["registered"][r] + events["failed"][r] <= events["created"][r]
                      /\ restarts = 0 =>
                            (Finished(r) <=> events["registered"][r] + events["failed"][r] = 1)
    BY DEF EventsTellTruth
  <2> DEFINE c == events["created"][r]
             g == events["registered"][r]
             f == events["failed"][r]
  <2>1. c \in {0, 1} /\ g \in {0, c} /\ f \in {0, c} /\ (g = 0 \/ f = 0)
    BY DEF IInv, Inv, EventInv
  <2>2. (g # 0 => pc[r] = "done") /\ (f # 0 => pc[r] = "failed")
    BY DEF IInv, Inv, EventInv
  <2>3. restarts = 0 => (pc[r] = "done" => g = 1) /\ (pc[r] = "failed" => f = 1)
    BY DEF IInv, Inv, EventInv
  <2>4. /\ pc[r] = "done" => r \in journal
        /\ pc[r] = "failed" => r \notin journal \/ <<"reread", r>> \in met
    BY DEF IInv, Inv, JournalInv
  <2> HIDE DEF c, g, f
  <2>5. /\ g > 0 => r \in journal
        /\ f > 0 => r \notin journal \/ <<"reread", r>> \in met
        /\ g + f <= c
        /\ restarts = 0 => ((pc[r] = "done" \/ pc[r] = "failed") <=> g + f = 1)
    BY <2>1, <2>2, <2>3, <2>4
  <2> QED
    BY <2>5 DEF c, g, f, Finished
<1> QED
  BY <1>1, Invariance, PTL

(* A record stays its receipt's, whatever is saved, late or lost, and restarts go on above it. *)
THEOREM NumbersAreUnique == Spec => NeverOverwritten
<1>1. IInv /\ [Next]_vars =>
        [\A i \in DOMAIN records \cap DOMAIN records' : records'[i].receipt = records[i].receipt]_vars
  BY InvStep DEF Keeps
<1> QED
  BY <1>1, Invariance, PTL DEF Spec, NeverOverwritten

-----------------------------------------------------------------------------
(* What the read model tells of an outcome *)

(* Every record is as its receipt was created. *)
Unchanging == \A i \in DOMAIN records : records[i].state = "created"

(* Neither handler updates a record: one reads what it cannot, the other has no id. *)
LEMMA NothingUpdated ==
  ASSUME NEW r \in Receipts, Report(r)
  PROVE  records' = records
<1>1. ~RegistratorRead
  BY DEF RegistratorRead, Wrapper
<1>2. "id" \notin DOMAIN FailedData
  BY DEF FailedData
<1> QED
  BY <1>1, <1>2 DEF Report, HandleRegistered, Update

LEMMA StoredCreates ==
  ASSUME NEW r, NEW i, Unchanging, Stored(r, i)
  PROVE  Unchanging'
<1>1. CreatedData(r).state = "created"
  BY DEF CreatedData
<1> QED
  BY <1>1 DEF Stored, Unchanging

LEMMA UnchangingStep == ASSUME Unchanging, [Next]_vars PROVE Unchanging'
<1>1. CASE \E r \in Receipts : \E i : Stored(r, i)
  BY <1>1, StoredCreates
<1>2. CASE UNCHANGED records
  BY <1>2 DEF Unchanging
<1>3. CASE records' = NoRecords
  BY <1>3 DEF NoRecords, Unchanging
<1>4. \A r \in Receipts : Report(r) => UNCHANGED records
  BY NothingUpdated
<1> QED
  BY <1>1, <1>2, <1>3, <1>4
     DEF Next, Post, Saved, Save, Disconnect, Land, Execute, Hang, StopDevice, StartDevice, Restart,
         vars

(* No record ever leaves the state "created", and no client ever reads "success" or         *)
(* "failed" of a receipt, though it be registered or refused, whatever the faults, the     *)
(* restarts and the read model (readme.txt, line 120; storages.py, line 109).              *)
OutcomeNeverShown ==
    /\ \A i \in DOMAIN records : records[i].state = "created"
    /\ \A r \in Receipts : Shown(r) \notin {"success", "failed"}

THEOREM OutcomesStayUnknown == Spec => []OutcomeNeverShown
<1>1. Init => Unchanging
  BY DEF Init, NoRecords, Unchanging
<1>2. Unchanging /\ [Next]_vars => Unchanging'
  BY UnchangingStep
<1>3. Unchanging => OutcomeNeverShown
  BY DEF Unchanging, OutcomeNeverShown, Shown, Get, Absent
<1> QED
  BY <1>1, <1>2, <1>3, PTL DEF Spec

-----------------------------------------------------------------------------
(* The whole way of a receipt implements ReceiptDevice *)

(* Issued is what a device has in its journal, told what the command announced. *)
Issued == [r \in Receipts |-> IF r \in journal THEN 1 ELSE 0]
Told == [r \in Receipts |-> CASE pc[r] = "done" -> "ok"
                               [] pc[r] = "failed" -> "failed"
                               [] OTHER -> "none"]

Device == INSTANCE ReceiptDevice
          WITH canLose <- "reread" \in Faults, issuesNone <- FALSE,
               issued <- Issued, told <- Told

(* An answer is lost only where that may happen. *)
LossInv == \A r \in Receipts : <<"reread", r>> \in met => "reread" \in Faults

LEMMA LossStep ==
  ASSUME LossInv, [Next]_vars
  PROVE  LossInv'
<1>1. CASE UNCHANGED met
  BY <1>1 DEF LossInv
<1>2. CASE \E q \in Receipts : met' = met \cup {<<"save", q>>}
  BY <1>2 DEF LossInv
<1>3. CASE \E q \in Receipts : Execute(q)
  BY <1>3 DEF Execute, LossInv
<1> QED
  BY <1>1, <1>2, <1>3
     DEF Next, Post, Saved, Save, Disconnect, Land, Report, Hang, StopDevice, StartDevice, Restart, vars

(* A receipt that is told to have come to an end was told before, or is now. *)
LEMMA ToldStays ==
  ASSUME TypeOK, NEW q \in Receipts, NEW where, Goto(q, where),
         pc[q] \notin {"done", "failed"}, where \notin {"done", "failed"}
  PROVE  Told' = Told
<1>1. \A r \in Receipts : r # q => pc'[r] = pc[r]
  BY DEF Goto, TypeOK
<1>2. pc'[q] = where
  BY DEF Goto, TypeOK
<1> QED
  BY <1>1, <1>2 DEF Told

LEMMA ExecuteIssues ==
  ASSUME IInv, NEW r \in Receipts, Execute(r)
  PROVE  [Device!Next]_<<"reread" \in Faults, FALSE, Issued, Told>>
<1>1. TypeOK /\ pc[r] = "queued" /\ r \notin journal
  BY DEF IInv, Inv, JournalInv, Execute
<1>2. Told' = Told
  BY <1>1, ToldStays DEF Execute
<1>3. CASE journal' = journal
  BY <1>2, <1>3 DEF Issued
<1>4. CASE journal' = journal \cup {r}
  <2>1. Issued' = [Issued EXCEPT ![r] = 1] /\ Issued[r] = 0 /\ Told[r] = "none"
    BY <1>1, <1>4 DEF Issued, Told
  <2> QED
    BY <1>2, <2>1 DEF Device!Next, Device!Issue
<1> QED
  BY <1>3, <1>4 DEF Execute

LEMMA ReportTells ==
  ASSUME IInv, LossInv, NEW r \in Receipts, Report(r)
  PROVE  Device!Next
<1>1. PICK answer \in {"ok", "failed"} :
          /\ answer = "ok" => pc[r] = "registered" /\ Goto(r, "done")
          /\ answer = "failed" => pc[r] = "refused" /\ Goto(r, "failed")
  BY DEF Report
<1>2. Issued' = Issued /\ Told[r] = "none"
  BY <1>1 DEF Report, Issued, Told
<1>3. Told' = [Told EXCEPT ![r] = answer]
  <2>1. \A q \in Receipts : q # r => pc'[q] = pc[q]
    BY <1>1 DEF Goto, IInv, TypeOK
  <2>2. pc'[r] = (IF answer = "ok" THEN "done" ELSE "failed")
    BY <1>1 DEF Goto, IInv, TypeOK
  <2> QED
    BY <2>1, <2>2 DEF Told
<1>4. /\ answer = "ok" => Issued[r] > 0
      /\ answer = "failed" => Issued[r] = 0 \/ "reread" \in Faults
  <2>1. pc[r] = "registered" => r \in journal
    BY DEF IInv, Inv, JournalInv
  <2>2. pc[r] = "refused" => r \notin journal \/ "reread" \in Faults
    BY DEF IInv, Inv, JournalInv, LossInv
  <2> QED
    BY <1>1, <2>1, <2>2 DEF Issued
<1> QED
  BY <1>2, <1>3, <1>4 DEF Device!Next, Device!Tell

LEMMA RefinesStep ==
  ASSUME IInv, LossInv, [Next]_vars
  PROVE  [Device!Next]_<<"reread" \in Faults, FALSE, Issued, Told>>
<1>1. ASSUME NEW r \in Receipts, Post(r) \/ Saved(r) \/ Disconnect(r)
      PROVE  Issued' = Issued /\ Told' = Told
  <2>1. Issued' = Issued
    BY <1>1 DEF Post, Saved, Disconnect, Issued
  <2>2. pc[r] \in {"idle", "saving"}
    BY <1>1 DEF Post, Saved, Disconnect
  <2>3. \E where \in {"saving", "queued", "error"} : Goto(r, where)
    BY <1>1 DEF Post, Saved, Disconnect, Process
  <2> QED
    BY <2>1, <2>2, <2>3, ToldStays DEF IInv
<1>2. CASE Restart
  <2>1. Issued' = Issued
    BY <1>2 DEF Restart, Issued
  <2>2. Told' = Told
    BY <1>2 DEF Restart, InServer, Told, IInv, TypeOK
  <2> QED
    BY <2>1, <2>2
<1>3. CASE UNCHANGED <<journal, pc>>
  BY <1>3 DEF Issued, Told
<1> QED
  BY <1>1, <1>2, <1>3, ExecuteIssues, ReportTells DEF Next, Land, Hang, StopDevice, StartDevice, vars

(* From its request to the announced outcome, over restarts of the server and changes of   *)
(* the device, a receipt is registered as ReceiptDevice says: it is issued at most once,   *)
(* announced as registered only when it is and, unless an answer of the device gets lost,  *)
(* as failed only when it is not.                                                          *)
THEOREM ImplementsDevice == Spec => Device!Spec
<1>1. Init => Device!Init /\ LossInv
  BY DEF Init, Device!Init, Issued, Told, LossInv
<1>2. LossInv /\ [Next]_vars => LossInv'
  BY LossStep
<1>3. IInv /\ LossInv /\ [Next]_vars =>
          [Device!Next]_<<"reread" \in Faults, FALSE, Issued, Told>>
  BY RefinesStep
<1> QED
  BY <1>1, <1>2, <1>3, Invariance, PTL DEF Spec, Device!Spec
==============================================================================
