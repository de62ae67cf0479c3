--------------------------- MODULE DatabaseRecord ---------------------------
(***************************************************************************)
(* src/DatabaseRecord.ts for one row: the instances that services hold,    *)
(* and the calls of load, insert, update, delete, unCache and              *)
(* readExtraData on them, against one Memcached item and one row per table.*)
(*                                                                         *)
(* A call runs without interruption from one await to the next.  pc names  *)
(* the request it awaits; Serve carries that request out on the server,    *)
(* and one action per await runs the code from the answer to the next      *)
(* await.  What that code computes is a function from frame to frame: the  *)
(* call's locals together with the instance it is a method of.             *)
(*                                                                         *)
(* Metadata and dependencies are taken to be resolved already (module      *)
(* Metadata has how): initialise then reaches its last line without a      *)
(* request.  The hooks noRecord and foundRecord do nothing.  Values are    *)
(* those JSON gives back unchanged.                                        *)
(***************************************************************************)
EXTENDS Cache, DatabasePool

CONSTANTS
  Instance,        (* DatabaseRecord objects for this row, of any process. *)
  Task,            (* What each call may be: Task[c] is a set of TaskType. *)
  MaxCasAttempts,  (* MAX_CAS_ATTEMPTS; 5 in the code.                     *)
  CacheEnabled,    (* Cache.isEnabled().                                   *)
  Overlap,         (* May a caller start a method on an instance before    *)
                   (* its previous one has settled?                        *)
  Evictions,       (* May Memcached drop the item?                         *)
  InitialRows, InitialExtras  (* What the tables may hold at first.        *)

Op == {"load", "insert", "update", "delete", "unCache", "readExtra"}

(* mark: delete(timeoutSeconds) with a positive timeout.  force: the       *)
(* option forceRead of load.  throws: some listener of the event the call  *)
(* fires throws.                                                           *)
TaskType == [op: Op, on: Instance, arg: Payload,
             mark: BOOLEAN, force: BOOLEAN, throws: BOOLEAN]

ASSUME TaskAssumption ==
  /\ Task \in [Call -> SUBSET TaskType]
  /\ \A c \in Call : \A t \in Task[c] :
       /\ Touched(t.arg) \cap DerivedField = {}  \* no such column to assign to
       /\ ~t.arg.extraTableRead /\ t.arg.id = "none"
ASSUME BoundAssumption == MaxCasAttempts \in Nat \ {0}
ASSUME SettingAssumption ==
  /\ CacheEnabled \in BOOLEAN
  /\ Overlap \in BOOLEAN
  /\ ~(Overlap /\ SharedExtraKey)  \* OwnKey is that of the instance as it is
  /\ Evictions \in BOOLEAN
  /\ InitialRows \subseteq Row
  /\ InitialExtras \subseteq ExtraRow

VARIABLES inst, call

vars == <<item, casSeq, row, extra, reply, inst, call>>

GetsPoints == {"cached", "fresh", "refresh", "reread"}
CachePoints == GetsPoints \cup {"store", "cas", "del", "mark"}
DbPoints == {"select", "insertBase", "updateBase", "deleteBase",
             "selectExtra", "updateExtra", "insertExtra", "deleteExtra"}
Settled == {"resolved", "rejected"}
Pc == CachePoints \cup DbPoints \cup Settled \cup {"new"}

(* has: is this.record loaded?  view: the columns as properties of the     *)
(* object itself, which is how services read them.  Token 0 is casToken    *)
(* null.                                                                   *)
InstanceType == [has: BOOLEAN, record: Payload, view: [Field -> Cell], token: Nat,
                 force: BOOLEAN, inCache: BOOLEAN]

(* upd: the sanitised update.  val, tok, att: the value being stored, the  *)
(* casToken and the attempt of performCasUpdate.                           *)
CallType == [task: TaskType, pc: Pc, upd: Payload, val: Payload,
             tok: Nat, att: Nat]

NewInstance(force) == [has |-> FALSE, record |-> Blank, view |-> Blank.col, token |-> 0,
                       force |-> force, inCache |-> FALSE]

-----------------------------------------------------------------------------
(* Code from one await to the next, as functions of a frame f: f.k is the  *)
(* call and f.o the instance.                                              *)

Frame(c) == [k |-> call[c], o |-> inst[call[c].task.on]]

Go(f, pc) == [f EXCEPT !.k.pc = pc]

(* The locals of performCasUpdate go out of scope.                         *)
Forget(f) == [f EXCEPT !.k = [@ EXCEPT !.val = Blank, !.tok = 0, !.att = 0]]

Resolve(f) == Go(Forget(f), "resolved")
Reject(f) == Go(Forget(f), "rejected")

(* fireEvent: a listener that throws makes the method reject.              *)
Fire(f, g) == IF f.k.task.throws THEN Reject(f) ELSE g

(* Fault for a mutant: the deletion marker passes for a record.            *)
UsableOrDeleted(r) == r.st \in {"record", "deleted"}
(* An entry that is an object, neither missing nor the deletion marker.    *)
Usable(r) == r.st = "record"

(* applyRecordToInstance: Object.assign(this, p) leaves alone what p lacks. *)
ApplyRecordToInstance(view, p) ==
  [f \in Field |-> IF p.col[f] = Absent THEN view[f] ELSE p.col[f]]

(* Fault for a mutant: only the payload loses the fields.                  *)
ClearNothing(view, u) == view
(* clearFieldFromInstance, for what applyUpdateToRecord deletes.           *)
ClearFields(view, u) ==
  [f \in Field |-> IF f \in Dependents(u) \/ u.col[f] = Null THEN Absent ELSE view[f]]

(* Fault for a mutant: the properties of the object are forgotten.         *)
SetRecordOnly(f, p) == [f EXCEPT !.o = [@ EXCEPT !.has = TRUE, !.record = p]]
(* this.record = p, and its columns become properties of the instance.     *)
SetRecord(f, p) ==
  [f EXCEPT !.o = [@ EXCEPT !.has = TRUE, !.record = p,
                            !.view = ApplyRecordToInstance(f.o.view, p)]]

(* Fault for a mutant: the token that came with the record is dropped.     *)
AdoptRecordOnly(f, r) == SetRecord(f, r.val)
(* this.casToken = cas, and the record that came with it.                  *)
Adopt(f, r) == [SetRecord(f, r.val) EXCEPT !.o.token = r.cas]

(* mergeRecord assigns the update alone to the instance.                   *)
Merge(f, u) ==
  [f EXCEPT !.o = [@ EXCEPT !.has = TRUE, !.record = MergeRecord(f.o.record, u),
                            !.view = ApplyRecordToInstance(f.o.view, u)]]

(* getPrimaryKeyValue returns the key (otherwise it throws, or MySQL       *)
(* refuses an undefined parameter).                                        *)
Keyed(o) == o.has /\ o.record.id # "none"

(* Is it the key of this record?                                           *)
OwnKey(o) == o.record.id = "own"

ExtraTable == ExtraField # {}
ExtraColumns(u) == Touched(u) \cap ExtraField
BaseColumns(u) == Touched(u) \cap BaseField

Invalidate(f) == IF CacheEnabled THEN Go(f, "del") ELSE Resolve(f)

(* persistUpdate, from the extra table's statement on.                     *)
PersistExtra(f) ==
  CASE ExtraColumns(f.k.upd) = {} -> Fire(f, Resolve(f))
    [] ExtraColumns(f.k.upd) # {} /\ ~Keyed(f.o) -> Reject(f)
    [] OTHER -> Go(f, "updateExtra")

PersistUpdate(f) ==
  IF BaseColumns(f.k.upd) # {} THEN Go(f, "updateBase") ELSE PersistExtra(f)

AfterUpdateCache(f) ==
  IF f.k.task.op = "readExtra" THEN Resolve(f) ELSE PersistUpdate(Forget(f))

PerformCasUpdate(f, record, token, attempt) ==
  IF attempt > MaxCasAttempts
  THEN AfterUpdateCache(f)
  ELSE [f EXCEPT !.k = [@ EXCEPT !.pc = "cas", !.val = ApplyUpdate(record, f.k.upd),
                                 !.tok = token, !.att = attempt],
                 !.o.view = ClearFields(f.o.view, f.k.upd)]

UpdateCache(f) ==
  IF CacheEnabled /\ f.o.token # 0
  THEN PerformCasUpdate(f, f.o.record, f.o.token, 1)
  ELSE AfterUpdateCache(Merge(f, f.k.upd))

Update(f) ==
  LET u == IF f.o.has THEN Sanitise(f.k.task.arg, f.o.record) ELSE f.k.task.arg
  IN  IF Touched(u) = {} THEN Resolve(f) ELSE UpdateCache([f EXCEPT !.k.upd = u])

ReadExtraData(f) ==
  IF ExtraTable /\ f.o.has /\ ~f.o.record.extraTableRead
  THEN Go(f, "selectExtra")
  ELSE Resolve(f)

(* insert once its new instance is loaded.                                 *)
InsertExtraRow(f) ==
  CASE ExtraColumns(f.k.task.arg) = {} -> Fire(f, Resolve(f))
    [] ExtraColumns(f.k.task.arg) # {} /\ ~Keyed(f.o) -> Reject(f)
    [] OTHER -> Go(f, "insertExtra")

(* What each method does once initialise or ensureRecordLoaded is done.    *)
Body(f) ==
  CASE f.k.task.op = "load" -> Resolve(f)
    [] f.k.task.op = "insert" -> InsertExtraRow(f)
    [] f.k.task.op = "update" -> Update(f)
    [] f.k.task.op = "delete" -> Go(f, "deleteBase")
    [] OTHER -> ReadExtraData(f)

Initialise(f) == Go(f, IF f.o.force \/ ~CacheEnabled THEN "select" ELSE "cached")

EnsureRecordLoaded(f) == IF f.o.has THEN Body(f) ELSE Initialise(f)

-----------------------------------------------------------------------------
(* The caller.  load and insert make the instance and hand it over when    *)
(* they resolve; the other methods need it.                                *)

Makes(c, i) == call[c].task.op \in {"load", "insert"} /\ call[c].task.on = i

Active(c) == call[c].pc \notin Settled \cup {"new"}

Startable(c) ==
  LET i == call[c].task.on
  IN  /\ call[c].pc = "new"
      /\ IF Makes(c, i)
         THEN \A d \in Call : Makes(d, i) => call[d].pc = "new"
         ELSE /\ \E d \in Call : Makes(d, i) /\ call[d].pc = "resolved"
              /\ Overlap \/ \A d \in Call : call[d].task.on = i => ~Active(d)

Resume(c, f) ==
  /\ inst' = [inst EXCEPT ![f.k.task.on] = f.o]
  /\ call' = [call EXCEPT ![c] = f.k]
  /\ UNCHANGED <<item, casSeq, row, extra>>

(* The method is called, and runs up to its first await.                   *)
Start(c) ==
  LET f == Frame(c)
      fresh(force) == [f EXCEPT !.o = NewInstance(force)]
  IN  /\ Startable(c)
      /\ Resume(c, CASE f.k.task.op = "load" -> Initialise(fresh(f.k.task.force))
                     [] f.k.task.op = "insert" -> Go(fresh(TRUE), "insertBase")
                     [] f.k.task.op = "unCache" -> Invalidate(f)
                     [] OTHER -> EnsureRecordLoaded(f))
      /\ UNCHANGED reply

-----------------------------------------------------------------------------
(* The servers carry out the request a call awaits.                        *)

(* Does the INSERT of persistUpdate, made of the assignments of the        *)
(* UPDATE, have a parameter for each placeholder?                          *)
WellFormed(k) == k.task.op = "insert" \/ \A f \in ExtraField : k.upd.col[f] \notin Literal

Written(k) == IF k.task.op = "insert" THEN k.task.arg ELSE k.upd

CacheServe(c) ==
  LET k == call[c]
  IN  /\ UNCHANGED <<row, extra, inst, call>>
      /\ \/ k.pc \in GetsPoints /\ Gets(c)
         \/ k.pc = "store" /\ inst[k.task.on].force /\ Set(c, k.val)
         \/ k.pc = "store" /\ ~inst[k.task.on].force /\ Add(c, "record", k.val)
         \/ k.pc = "cas" /\ Cas(c, k.val, k.tok)
         \/ k.pc = "del" /\ Del(c)
         \/ k.pc = "mark" /\ Add(c, "deleted", Blank)
         \/ k.pc \in CachePoints /\ CacheFails(c)

DbServe(c) ==
  LET k == call[c]  own == OwnKey(inst[k.task.on])
  IN  /\ UNCHANGED <<item, casSeq, inst, call>>
      /\ \/ k.pc = "select" /\ SelectRow(c)
         \/ k.pc = "insertBase" /\ InsertRow(c, k.task.arg)
         \/ k.pc = "updateBase" /\ UpdateRow(c, k.upd)
         \/ k.pc = "deleteBase" /\ DeleteRow(c)
         \/ k.pc = "selectExtra" /\ SelectExtra(c, own)
         \/ k.pc = "insertExtra" /\ InsertExtra(c, Written(k), own, WellFormed(k))
         \/ k.pc = "updateExtra" /\ UpdateExtra(c, k.upd, own)
         \/ k.pc = "deleteExtra" /\ DeleteExtra(c, own)
         \/ k.pc \in DbPoints /\ DbFails(c)

Serve(c) == CacheServe(c) \/ DbServe(c)

-----------------------------------------------------------------------------
(* One action per await: the code from the answer r to the next await.     *)

Answered(c, pc) ==
  /\ call[c].pc = pc
  /\ reply[c] # Waiting
  /\ reply' = [reply EXCEPT ![c] = Waiting]

(* tryLoadFromCache, and the end of initialise.                            *)
Cached(c) ==
  LET f == Frame(c)  r == reply[c]
  IN  /\ Answered(c, "cached")
      /\ Resume(c, CASE Usable(r) -> Body([Adopt(f, r) EXCEPT !.o.inCache = TRUE])
                     [] ~Usable(r) /\ f.o.has -> Body(f)
                     [] OTHER -> Go(f, "select"))

(* loadFromDatabase, up to writeToCache.                                   *)
Selected(c) ==
  LET f == Frame(c)  r == reply[c]
      loaded == SetRecord(f, r.val)
  IN  /\ Answered(c, "select")
      /\ Resume(c, CASE r.st = "err" -> Reject(f)
                     [] r.st = "none" -> Body(f)
                     [] r.st = "record" /\ CacheEnabled ->
                          [loaded EXCEPT !.k = [@ EXCEPT !.pc = "store", !.val = r.val]]
                     [] OTHER -> Body([loaded EXCEPT !.o.inCache = FALSE]))

(* writeToCache: what became of the set or the add.                        *)
Stored(c) ==
  LET f == [Frame(c) EXCEPT !.k.val = Blank]
  IN  /\ Answered(c, "store")
      /\ Resume(c, IF reply[c].st = "err"
                   THEN Body([f EXCEPT !.o.inCache = FALSE])
                   ELSE Go(f, "fresh"))

(* writeToCache: the entry it finds there, and the end of initialise.      *)
Fresh(c) ==
  LET f == Frame(c)
      g == IF Usable(reply[c]) THEN Adopt(f, reply[c]) ELSE f
  IN  /\ Answered(c, "fresh")
      /\ Resume(c, Body([g EXCEPT !.o.inCache = FALSE]))

CasAnswered(c) ==
  LET f == Frame(c)  r == reply[c]
  IN  /\ Answered(c, "cas")
      /\ Resume(c, CASE r.st = "true" -> Go(f, "refresh")
                     [] r.st = "false" -> Go([f EXCEPT !.k.val = Blank, !.k.tok = 0], "reread")
                     [] OTHER -> AfterUpdateCache(f))

(* After a successful CAS.                                                 *)
Refreshed(c) ==
  LET f == Frame(c)  r == reply[c]
      candidate == SetRecord(f, f.k.val)
  IN  /\ Answered(c, "refresh")
      /\ Resume(c, AfterUpdateCache(CASE Usable(r) -> Adopt(f, r)
                                      [] r.st = "err" -> f
                                      [] OTHER -> candidate))

(* Fault for a mutant: the retry takes the new token, but builds the       *)
(* candidate on the record the instance had.                               *)
RetryFromOld(f, r) == PerformCasUpdate(f, f.o.record, r.cas, f.k.att + 1)
(* After a refused CAS: the retry starts from the entry read back, and     *)
(* casToken stays what it was.                                             *)
RetryFrom(f, r) ==
  PerformCasUpdate(SetRecord(f, r.val), r.val, r.cas, f.k.att + 1)

(* Fault for a mutant: a missing entry is retried like a changed one.      *)
RereadForever(c) ==
  LET f == Frame(c)  r == reply[c]
  IN  /\ Answered(c, "reread")
      /\ Resume(c, IF Usable(r) THEN RetryFrom(f, r) ELSE Go(f, "cas"))

Reread(c) ==
  LET f == Frame(c)  r == reply[c]
  IN  /\ Answered(c, "reread")
      /\ Resume(c, IF Usable(r) THEN RetryFrom(f, r) ELSE AfterUpdateCache(f))

(* Fault for a mutant: the columns of the extra table are forgotten when   *)
(* the base table had columns to update.                                   *)
UpdatedBaseOnly(c) ==
  /\ Answered(c, "updateBase")
  /\ Resume(c, IF reply[c].st = "err" THEN Reject(Frame(c)) ELSE Resolve(Frame(c)))

UpdatedBase(c) ==
  LET f == Frame(c)
  IN  /\ Answered(c, "updateBase")
      /\ Resume(c, IF reply[c].st = "err" THEN Reject(f) ELSE PersistExtra(f))

UpdatedExtra(c) ==
  LET f == Frame(c)  r == reply[c]
  IN  /\ Answered(c, "updateExtra")
      /\ Resume(c, CASE r.st = "err" -> Reject(f)
                     [] r.st = "false" -> Go(f, "insertExtra")
                     [] OTHER -> Fire(f, Resolve(f)))

(* The INSERT of persistUpdate, or that of insert.                         *)
InsertedExtra(c) ==
  LET f == Frame(c)
  IN  /\ Answered(c, "insertExtra")
      /\ Resume(c, IF reply[c].st = "err" THEN Reject(f) ELSE Fire(f, Resolve(f)))

InsertedBase(c) ==
  LET f == Frame(c)
  IN  /\ Answered(c, "insertBase")
      /\ Resume(c, IF reply[c].st = "err" THEN Reject(f) ELSE Initialise(f))

DeletedBase(c) ==
  LET f == Frame(c)
  IN  /\ Answered(c, "deleteBase")
      /\ Resume(c, CASE reply[c].st = "err" \/ (ExtraTable /\ ~Keyed(f.o)) -> Reject(f)
                     [] reply[c].st # "err" /\ ~ExtraTable -> Fire(f, Invalidate(f))
                     [] OTHER -> Go(f, "deleteExtra"))

DeletedExtra(c) ==
  LET f == Frame(c)
  IN  /\ Answered(c, "deleteExtra")
      /\ Resume(c, IF reply[c].st = "err" THEN Reject(f) ELSE Fire(f, Invalidate(f)))

Invalidated(c) ==
  LET f == Frame(c)
  IN  /\ Answered(c, "del")
      /\ Resume(c, IF reply[c].st # "err" /\ f.k.task.op = "delete" /\ f.k.task.mark
                   THEN Go(f, "mark")
                   ELSE Resolve(f))

Marked(c) ==
  /\ Answered(c, "mark")
  /\ Resume(c, Resolve(Frame(c)))

SelectedExtra(c) ==
  LET f == Frame(c)  r == reply[c]
      u == IF r.st = "none" THEN DefaultsPayload ELSE r.val
  IN  /\ Answered(c, "selectExtra")
      /\ Resume(c, IF r.st = "err"
                   THEN Reject(f)
                   ELSE UpdateCache(Merge([f EXCEPT !.k.upd = u], u)))

Continue(c) ==
  \/ Cached(c) \/ Selected(c) \/ Stored(c) \/ Fresh(c)
  \/ CasAnswered(c) \/ Refreshed(c) \/ Reread(c)
  \/ UpdatedBase(c) \/ UpdatedExtra(c) \/ InsertedExtra(c) \/ InsertedBase(c)
  \/ DeletedBase(c) \/ DeletedExtra(c) \/ Invalidated(c) \/ Marked(c)
  \/ SelectedExtra(c)

-----------------------------------------------------------------------------
Init ==
  /\ item = NoItem
  /\ casSeq = 0
  /\ row \in InitialRows
  /\ extra \in InitialExtras
  /\ reply = [c \in Call |-> Waiting]
  /\ inst = [i \in Instance |-> NewInstance(FALSE)]
  /\ \E task \in [Call -> UNION {Task[c] : c \in Call}] :
       /\ \A c \in Call : task[c] \in Task[c]
       /\ call = [c \in Call |-> [task |-> task[c], pc |-> "new", upd |-> Blank,
                                  val |-> Blank, tok |-> 0, att |-> 0]]

Evict ==
  /\ Evictions
  /\ Expire
  /\ UNCHANGED <<row, extra, inst, call>>

(* Nothing is under way and no call can start.                             *)
Quiescent == \A c \in Call : ~Active(c) /\ ~Startable(c)
Quiet == Quiescent /\ UNCHANGED vars

Next ==
  \/ \E c \in Call : Start(c) \/ Serve(c) \/ Continue(c)
  \/ Evict
  \/ Quiet

Spec == Init /\ [][Next]_vars

(* Each server answers in the end, or its client reports an error, and     *)
(* the event loop runs what was answered.  No caller need call anything.   *)
FairSpec == Spec /\ \A c \in Call : WF_vars(Serve(c)) /\ WF_vars(Continue(c))
=============================================================================
