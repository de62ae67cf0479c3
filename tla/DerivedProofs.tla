--------------------------- MODULE DerivedProofs ----------------------------
(***************************************************************************)
(* Proofs about DatabaseRecord: type correctness, and that the cached      *)
(* record never shows a derived column next to other parent values than    *)
(* those it was computed from.                                             *)
(*                                                                         *)
(* The code between two awaits is a composition of functions on frames, so *)
(* most of the proof says that each of those functions maps a sound frame  *)
(* to a sound frame.                                                       *)
(***************************************************************************)
EXTENDS RecordConsistency, TLAPS

USE FieldAssumption, CellAssumption, ComputedAssumption

NoDerived(u) == \A d \in DerivedField : u.col[d] = Absent
OnlyExtra(u) == \A f \in BaseField \cup DerivedField : u.col[f] = Absent

FrameType == [k: CallType, o: InstanceType]

(* A record paired with a token, and a value on its way to the cache, are  *)
(* well derived.  A record without a token need not be: mergeRecord leaves *)
(* derived columns as they are.                                            *)
FrameSound(f) ==
  /\ NoDerived(f.k.task.arg)
  /\ NoDerived(f.k.upd)
  /\ f.k.pc \in {"store", "cas", "refresh"} => WellDerived(f.k.val)
  /\ f.o.token # 0 => WellDerived(f.o.record)
  /\ f.o.token # 0 => CacheEnabled
  /\ f.k.pc \in CachePoints => CacheEnabled

FrameOK(f) == f \in FrameType /\ FrameSound(f)

ReplySound(c) ==
  /\ WellDerived(reply[c].val)
  /\ call[c].pc = "selectExtra" => OnlyExtra(reply[c].val)
  /\ call[c].pc = "new" => reply[c] = Waiting

DerivedInv ==
  /\ TypeOK
  /\ WellDerived(item.val)
  /\ \A c \in Call : ReplySound(c) /\ FrameSound(Frame(c))
  /\ \A i \in Instance : inst[i].token # 0 => WellDerived(inst[i].record) /\ CacheEnabled

-----------------------------------------------------------------------------
(* Payloads.                                                               *)

LEMMA BlankType == Blank \in Payload /\ NoDerived(Blank) /\ WellDerived(Blank)
BY DEF Blank, Payload, KeyCell, Field, Cell, NoDerived, WellDerived

LEMMA BlankView == Blank.col \in [Field -> Cell]
BY DEF Blank, Cell

LEMMA MergeRecordType ==
  ASSUME NEW p \in Payload, NEW u \in Payload
  PROVE  MergeRecord(p, u) \in Payload
BY DEF MergeRecord, Payload

LEMMA ApplyUpdateType ==
  ASSUME NEW p \in Payload, NEW u \in Payload
  PROVE  ApplyUpdate(p, u) \in Payload
BY DEF ApplyUpdate, MergeRecord, Payload, Cell

(* Deleting the dependents of what an update touches keeps a payload well  *)
(* derived.                                                                *)
LEMMA ApplyUpdateWellDerived ==
  ASSUME NEW p \in Payload, NEW u \in Payload, WellDerived(p), NoDerived(u)
  PROVE  WellDerived(ApplyUpdate(p, u))
<1> SUFFICES ASSUME NEW d \in DerivedField, ApplyUpdate(p, u).col[d] # Absent
             PROVE  /\ \A q \in Parents[d] : ApplyUpdate(p, u).col[q] \in DbCell
                    /\ ApplyUpdate(p, u).col[d] = Derived(d, ApplyUpdate(p, u).col)
  BY DEF WellDerived
<1>1. d \in Field /\ \A q \in Parents[d] : q \in Field \ DerivedField
  BY DEF Field
<1>2. u.col[d] = Absent
  BY DEF NoDerived
<1>3. \A q \in Parents[d] : u.col[q] = Absent
  BY <1>1 DEF ApplyUpdate, MergeRecord, Dependents, Payload
<1>4. ApplyUpdate(p, u).col[d] = p.col[d]
  BY <1>1, <1>2, <1>3 DEF ApplyUpdate, MergeRecord, Dependents, Payload
<1>5. \A q \in Parents[d] : ApplyUpdate(p, u).col[q] = p.col[q]
  BY <1>1, <1>3 DEF ApplyUpdate, MergeRecord, Dependents, Payload
<1>6. Derived(d, ApplyUpdate(p, u).col) = Derived(d, p.col)
  BY <1>5 DEF Derived
<1> QED BY <1>4, <1>5, <1>6 DEF WellDerived

LEMMA SanitiseType ==
  ASSUME NEW u \in Payload, NEW p \in Payload
  PROVE  /\ Sanitise(u, p) \in Payload
         /\ NoDerived(u) => NoDerived(Sanitise(u, p))
BY DEF Sanitise, Payload, Cell, NoDerived, Field

LEMMA DecorateRecordType ==
  ASSUME NEW r \in Row
  PROVE  DecorateRecord(r) \in Payload /\ WellDerived(DecorateRecord(r))
<1>1. \A f \in BaseField : r.col[f] \in DbCell
  BY DEF Row
<1>2. \A d \in DerivedField : Derived(d, r.col) \in DbCell
  BY <1>1 DEF Derived
<1>3. DecorateRecord(r) \in Payload
  BY <1>1, <1>2 DEF DecorateRecord, Payload, KeyCell, Cell
<1>4. ASSUME NEW d \in DerivedField
      PROVE  /\ \A q \in Parents[d] : DecorateRecord(r).col[q] \in DbCell
             /\ DecorateRecord(r).col[d] = Derived(d, DecorateRecord(r).col)
  <2>1. \A q \in Parents[d] : DecorateRecord(r).col[q] = r.col[q]
    BY DEF DecorateRecord, Field
  <2>2. DecorateRecord(r).col[d] = Derived(d, r.col)
    BY DEF DecorateRecord, Field
  <2>3. Derived(d, DecorateRecord(r).col) = Derived(d, r.col)
    BY <2>1 DEF Derived
  <2> QED BY <1>1, <2>1, <2>2, <2>3
<1> QED BY <1>3, <1>4 DEF WellDerived

LEMMA ExtraPayloadType ==
  ASSUME NEW cells \in [ExtraField -> DbCell]
  PROVE  ExtraPayload(cells) \in Payload /\ OnlyExtra(ExtraPayload(cells))
BY DEF ExtraPayload, Blank, Payload, KeyCell, Cell, OnlyExtra, Field

LEMMA DefaultsPayloadType == DefaultsPayload \in Payload /\ OnlyExtra(DefaultsPayload)
<1>1. ExtraTableDefaults \in [ExtraField -> DbCell]
  BY CellAssumption DEF ExtraTableDefaults, DbCell
<1>2. ExtraPayload(ExtraTableDefaults) \in Payload /\ OnlyExtra(ExtraPayload(ExtraTableDefaults))
  BY <1>1, ExtraPayloadType
<1> QED BY <1>2 DEF DefaultsPayload, Payload, KeyCell, OnlyExtra

LEMMA AssignType ==
  ASSUME NEW S \in SUBSET Field, NEW cols \in [S -> DbCell], NEW u \in Payload, NEW v \in Value
  PROVE  Assign(cols, u, v) \in [S -> DbCell]
<1>1. DOMAIN cols = S
  OBVIOUS
<1>2. \A f \in S : u.col[f] \in Cell
  BY DEF Payload
<1> QED BY <1>1, <1>2 DEF Assign, Cell, DbCell

LEMMA MergeOnlyExtra ==
  ASSUME NEW p \in Payload, NEW u \in Payload, WellDerived(p), OnlyExtra(u)
  PROVE  WellDerived(MergeRecord(p, u))
<1>1. \A f \in BaseField \cup DerivedField : MergeRecord(p, u).col[f] = p.col[f]
  BY DEF MergeRecord, OnlyExtra, Field
<1>2. \A d \in DerivedField : Derived(d, MergeRecord(p, u).col) = Derived(d, p.col)
  BY <1>1 DEF Derived
<1> QED BY <1>1, <1>2 DEF WellDerived

LEMMA OnlyExtraNoDerived ==
  ASSUME NEW u, OnlyExtra(u)
  PROVE  NoDerived(u)
BY DEF OnlyExtra, NoDerived

-----------------------------------------------------------------------------
(* Frames.                                                                 *)

LEMMA GoOK ==
  ASSUME NEW f, FrameOK(f), NEW pc \in Pc,
         pc \in CachePoints => CacheEnabled,
         pc \in {"store", "cas", "refresh"} => WellDerived(f.k.val)
  PROVE  FrameOK(Go(f, pc))
BY DEF FrameOK, FrameSound, FrameType, CallType, Go

LEMMA ForgetOK ==
  ASSUME NEW f, FrameOK(f)
  PROVE  FrameOK(Forget(f))
BY BlankType DEF FrameOK, FrameSound, FrameType, CallType, Forget

LEMMA SettledPc == "resolved" \in Pc /\ "rejected" \in Pc
                   /\ {"resolved", "rejected"} \cap CachePoints = {}
BY DEF Pc, Settled, CachePoints, GetsPoints

LEMMA ResolveOK ==
  ASSUME NEW f, FrameOK(f)
  PROVE  FrameOK(Resolve(f))
BY ForgetOK, GoOK, SettledPc DEF Resolve

LEMMA RejectOK ==
  ASSUME NEW f, FrameOK(f)
  PROVE  FrameOK(Reject(f))
BY ForgetOK, GoOK, SettledPc DEF Reject

LEMMA FireOK ==
  ASSUME NEW f, FrameOK(f), NEW g, FrameOK(g)
  PROVE  FrameOK(Fire(f, g))
BY RejectOK DEF Fire

(* What the instance shows of its record.                                  *)
LEMMA ViewType ==
  ASSUME NEW view \in [Field -> Cell], NEW u \in Payload
  PROVE  /\ ApplyRecordToInstance(view, u) \in [Field -> Cell]
         /\ ClearFields(view, u) \in [Field -> Cell]
BY DEF ApplyRecordToInstance, ClearFields, Payload, Cell

LEMMA SetRecordOK ==
  ASSUME NEW f, FrameOK(f), NEW p \in Payload, WellDerived(p)
  PROVE  FrameOK(SetRecord(f, p))
<1>1. f.o.view \in [Field -> Cell]
  BY DEF FrameOK, FrameType, InstanceType
<1>2. ApplyRecordToInstance(f.o.view, p) \in [Field -> Cell]
  BY <1>1, ViewType
<1> QED BY <1>2 DEF FrameOK, FrameSound, FrameType, InstanceType, SetRecord

LEMMA AdoptOK ==
  ASSUME NEW f, FrameOK(f), NEW r \in Reply, WellDerived(r.val), CacheEnabled
  PROVE  FrameOK(Adopt(f, r))
<1> DEFINE g == SetRecord(f, r.val)
<1>1. r.val \in Payload /\ r.cas \in Nat
  BY DEF Reply
<1>2. FrameOK(g) /\ g.o.record = r.val
  BY <1>1, SetRecordOK DEF SetRecord, FrameOK, FrameType, InstanceType
<1> HIDE DEF g
<1>3. FrameOK([g EXCEPT !.o.token = r.cas])
  BY <1>1, <1>2 DEF FrameOK, FrameSound, FrameType, InstanceType
<1> QED BY <1>3 DEF Adopt, g

LEMMA MergeOK ==
  ASSUME NEW f, FrameOK(f), NEW u \in Payload, f.o.token = 0 \/ OnlyExtra(u)
  PROVE  FrameOK(Merge(f, u))
<1>1. f.o.record \in Payload
  BY DEF FrameOK, FrameType, InstanceType
<1>2. MergeRecord(f.o.record, u) \in Payload
  BY <1>1, MergeRecordType
<1>3. f.o.token # 0 => WellDerived(MergeRecord(f.o.record, u))
  BY <1>1, MergeOnlyExtra DEF FrameOK, FrameSound
<1>4. f.o.view \in [Field -> Cell]
  BY DEF FrameOK, FrameType, InstanceType
<1>5. ApplyRecordToInstance(f.o.view, u) \in [Field -> Cell]
  BY <1>4, ViewType
<1> QED BY <1>2, <1>3, <1>5 DEF FrameOK, FrameSound, FrameType, InstanceType, Merge

LEMMA InvalidateOK ==
  ASSUME NEW f, FrameOK(f)
  PROVE  FrameOK(Invalidate(f))
BY GoOK, ResolveOK DEF Invalidate, Pc, CachePoints, GetsPoints

LEMMA DbPointPc ==
  ASSUME NEW pc \in DbPoints
  PROVE  pc \in Pc \ CachePoints /\ pc \notin {"store", "cas", "refresh"}
BY DEF Pc, DbPoints, CachePoints, GetsPoints

LEMMA PersistExtraOK ==
  ASSUME NEW f, FrameOK(f)
  PROVE  FrameOK(PersistExtra(f))
<1>1. FrameOK(Go(f, "updateExtra"))
  BY GoOK, DbPointPc DEF DbPoints
<1> QED BY <1>1, FireOK, ResolveOK, RejectOK DEF PersistExtra

LEMMA PersistUpdateOK ==
  ASSUME NEW f, FrameOK(f)
  PROVE  FrameOK(PersistUpdate(f))
<1>1. FrameOK(Go(f, "updateBase"))
  BY GoOK, DbPointPc DEF DbPoints
<1> QED BY <1>1, PersistExtraOK DEF PersistUpdate

LEMMA AfterUpdateCacheOK ==
  ASSUME NEW f, FrameOK(f)
  PROVE  FrameOK(AfterUpdateCache(f))
BY ForgetOK, ResolveOK, PersistUpdateOK DEF AfterUpdateCache

(* The candidate of a CAS is well derived when the record it starts from   *)
(* is.                                                                     *)
LEMMA PerformCasUpdateOK ==
  ASSUME NEW f, FrameOK(f), NEW record \in Payload, WellDerived(record), CacheEnabled,
         NEW token \in Nat, NEW attempt \in Nat
  PROVE  FrameOK(PerformCasUpdate(f, record, token, attempt))
<1> DEFINE candidate == ApplyUpdate(record, f.k.upd)
<1>1. f.k.upd \in Payload /\ NoDerived(f.k.upd)
  BY DEF FrameOK, FrameSound, FrameType, CallType
<1>2. candidate \in Payload /\ WellDerived(candidate)
  BY <1>1, ApplyUpdateType, ApplyUpdateWellDerived
<1> HIDE DEF candidate
<1> DEFINE g == [f EXCEPT !.k = [@ EXCEPT !.pc = "cas", !.val = candidate,
                                         !.tok = token, !.att = attempt],
                         !.o.view = ClearFields(f.o.view, f.k.upd)]
<1>3. f.o.view \in [Field -> Cell]
  BY DEF FrameOK, FrameType, InstanceType
<1>4. ClearFields(f.o.view, f.k.upd) \in [Field -> Cell]
  BY <1>1, <1>3, ViewType
<1>5. FrameOK(g)
  BY <1>2, <1>4 DEF FrameOK, FrameSound, FrameType, CallType, InstanceType, Pc, CachePoints
<1> QED BY <1>5, AfterUpdateCacheOK DEF PerformCasUpdate, candidate

LEMMA UpdateCacheOK ==
  ASSUME NEW f, FrameOK(f)
  PROVE  FrameOK(UpdateCache(f))
<1>1. CASE CacheEnabled /\ f.o.token # 0
  <2>1. f.o.record \in Payload /\ f.o.token \in Nat /\ WellDerived(f.o.record)
    BY <1>1 DEF FrameOK, FrameSound, FrameType, InstanceType
  <2> QED BY <1>1, <2>1, PerformCasUpdateOK DEF UpdateCache
<1>2. CASE ~(CacheEnabled /\ f.o.token # 0)
  <2>1. f.o.token = 0 /\ f.k.upd \in Payload
    BY <1>2 DEF FrameOK, FrameSound, FrameType, CallType, InstanceType
  <2>2. FrameOK(Merge(f, f.k.upd))
    BY <2>1, MergeOK
  <2> QED BY <1>2, <2>2, AfterUpdateCacheOK DEF UpdateCache
<1> QED BY <1>1, <1>2

LEMMA SetUpdOK ==
  ASSUME NEW f, FrameOK(f), NEW u \in Payload, NoDerived(u)
  PROVE  FrameOK([f EXCEPT !.k.upd = u])
BY DEF FrameOK, FrameSound, FrameType, CallType

LEMMA UpdateOK ==
  ASSUME NEW f, FrameOK(f)
  PROVE  FrameOK(Update(f))
<1> DEFINE u == IF f.o.has THEN Sanitise(f.k.task.arg, f.o.record) ELSE f.k.task.arg
<1>1. f.k.task.arg \in Payload /\ NoDerived(f.k.task.arg) /\ f.o.record \in Payload
  BY DEF FrameOK, FrameSound, FrameType, CallType, TaskType, InstanceType
<1>2. u \in Payload /\ NoDerived(u)
  BY <1>1, SanitiseType
<1> HIDE DEF u
<1>3. FrameOK(UpdateCache([f EXCEPT !.k.upd = u]))
  BY <1>2, SetUpdOK, UpdateCacheOK
<1> QED BY <1>3, ResolveOK DEF Update, u

LEMMA BodyOK ==
  ASSUME NEW f, FrameOK(f)
  PROVE  FrameOK(Body(f))
<1>1. \A pc \in DbPoints : FrameOK(Go(f, pc))
  BY GoOK, DbPointPc
<1>2. FrameOK(ReadExtraData(f))
  BY <1>1, ResolveOK DEF ReadExtraData, DbPoints
<1>3. FrameOK(InsertExtraRow(f))
  BY <1>1, ResolveOK, RejectOK, FireOK DEF InsertExtraRow, DbPoints
<1> QED BY <1>1, <1>2, <1>3, ResolveOK, UpdateOK DEF Body, DbPoints

LEMMA InitialiseOK ==
  ASSUME NEW f, FrameOK(f)
  PROVE  FrameOK(Initialise(f))
<1>1. FrameOK(Go(f, "select"))
  BY GoOK, DbPointPc DEF DbPoints
<1>2. CacheEnabled => FrameOK(Go(f, "cached"))
  BY GoOK DEF Pc, CachePoints, GetsPoints
<1> QED BY <1>1, <1>2 DEF Initialise

LEMMA EnsureRecordLoadedOK ==
  ASSUME NEW f, FrameOK(f)
  PROVE  FrameOK(EnsureRecordLoaded(f))
BY BodyOK, InitialiseOK DEF EnsureRecordLoaded

LEMMA RetryFromOK ==
  ASSUME NEW f, FrameOK(f), NEW r \in Reply, WellDerived(r.val), CacheEnabled
  PROVE  FrameOK(RetryFrom(f, r))
<1> DEFINE g == SetRecord(f, r.val)
<1>1. FrameOK(g)
  BY SetRecordOK DEF Reply
<1> HIDE DEF g
<1>2. r.val \in Payload /\ r.cas \in Nat /\ f.k.att + 1 \in Nat
  BY DEF Reply, FrameOK, FrameType, CallType
<1> QED BY <1>1, <1>2, PerformCasUpdateOK DEF RetryFrom, g

-----------------------------------------------------------------------------
(* Steps.                                                                  *)

LEMMA FrameOfCall ==
  ASSUME DerivedInv, NEW c \in Call
  PROVE  FrameOK(Frame(c))
BY DEF DerivedInv, TypeOK, FrameOK, FrameType, Frame, CallType, TaskType

LEMMA WaitingType ==
  /\ \A s \in ReplyStatus : Answer(s) \in Reply /\ Answer(s).val = Blank
  /\ Waiting \in Reply /\ Waiting.val = Blank
  /\ OnlyExtra(Blank)
BY BlankType DEF Waiting, Answer, Reply, ReplyStatus, OnlyExtra, Blank, Field

LEMMA ResumeOK ==
  ASSUME DerivedInv, NEW c \in Call, NEW f, FrameOK(f), Resume(c, f),
         reply' = [reply EXCEPT ![c] = Waiting]
  PROVE  DerivedInv'
<1> DEFINE i == f.k.task.on
<1>1. f.k \in CallType /\ f.o \in InstanceType /\ i \in Instance
  BY DEF FrameOK, FrameType, CallType, TaskType
<1>2. /\ inst' = [inst EXCEPT ![i] = f.o]
      /\ call' = [call EXCEPT ![c] = f.k]
      /\ UNCHANGED <<item, casSeq, row, extra>>
  BY DEF Resume
<1> HIDE DEF i
<1>3. TypeOK'
  BY <1>1, <1>2, WaitingType DEF DerivedInv, TypeOK
<1>4. WellDerived(item.val)'
  BY <1>2 DEF DerivedInv
<1>5. \A j \in Instance :
        inst'[j].token # 0 => WellDerived(inst'[j].record) /\ CacheEnabled
  BY <1>1, <1>2 DEF DerivedInv, TypeOK, FrameOK, FrameSound
<1>6. ASSUME NEW d \in Call PROVE ReplySound(d)' /\ FrameSound(Frame(d))'
  <2>1. CASE d = c
    <3>1. reply'[c] = Waiting /\ call'[c] = f.k
      BY <1>2 DEF DerivedInv, TypeOK
    <3>2. ReplySound(c)'
      BY <3>1, WaitingType, BlankType DEF ReplySound
    <3>3. Frame(c)'.k = f.k /\ Frame(c)'.o = f.o
      BY <1>1, <1>2, <3>1 DEF DerivedInv, TypeOK, Frame, i
    <3> QED BY <2>1, <3>2, <3>3 DEF FrameSound, FrameOK
  <2>2. CASE d # c
    <3>1. reply'[d] = reply[d] /\ call'[d] = call[d]
      BY <2>2, <1>2 DEF DerivedInv, TypeOK
    <3>2. ReplySound(d) /\ FrameSound(Frame(d))
      BY DEF DerivedInv
    <3>3. ReplySound(d)'
      BY <3>1, <3>2 DEF ReplySound
    <3>4. call[d].task.on \in Instance
      BY DEF DerivedInv, TypeOK, CallType, TaskType
    <3>5. FrameSound(Frame(d))'
      BY <1>5, <3>1, <3>2, <3>4 DEF FrameSound, Frame
    <3> QED BY <3>3, <3>5
  <2> QED BY <2>1, <2>2
<1> QED BY <1>3, <1>4, <1>5, <1>6 DEF DerivedInv

LEMMA SettleOK ==
  ASSUME DerivedInv, NEW c \in Call, NEW r \in Reply, NEW lossy \in BOOLEAN,
         Settle(c, r, lossy), WellDerived(r.val),
         call[c].pc # "new",
         call[c].pc = "selectExtra" => OnlyExtra(r.val),
         UNCHANGED <<inst, call>>,
         item' \in Item, WellDerived(item'.val), casSeq' \in Nat,
         row' \in Row, extra' \in ExtraRow
  PROVE  DerivedInv'
<1>1. PICK s \in {r, Answer("err")} : reply' = [reply EXCEPT ![c] = s]
  BY DEF Settle
<1>2. s \in Reply /\ WellDerived(s.val) /\ (call[c].pc = "selectExtra" => OnlyExtra(s.val))
  BY <1>1, WaitingType, BlankType DEF ReplyStatus
<1>3. TypeOK'
  BY <1>1, <1>2 DEF DerivedInv, TypeOK
<1>4. ASSUME NEW d \in Call PROVE ReplySound(d)' /\ FrameSound(Frame(d))'
  <2>1. ReplySound(d)'
    BY <1>1, <1>2 DEF DerivedInv, TypeOK, ReplySound
  <2>2. FrameSound(Frame(d))'
    BY DEF DerivedInv, FrameSound, Frame
  <2> QED BY <2>1, <2>2
<1> QED BY <1>3, <1>4 DEF DerivedInv

LEMMA ItemType ==
  ASSUME DerivedInv
  PROVE  item \in Item /\ item \in Reply /\ WellDerived(item.val)
BY DEF DerivedInv, TypeOK, Item, Reply, ReplyStatus

LEMMA StoreOK ==
  ASSUME DerivedInv, NEW s \in {"record", "deleted"}, NEW v \in Payload, WellDerived(v),
         Store(s, v)
  PROVE  item' \in Item /\ WellDerived(item'.val) /\ casSeq' \in Nat
BY DEF DerivedInv, TypeOK, Store, Item

LEMMA CacheServeOK ==
  ASSUME DerivedInv, NEW c \in Call, CacheServe(c)
  PROVE  DerivedInv'
<1> DEFINE k == call[c]
           same == UNCHANGED <<item, casSeq>>
<1>1. UNCHANGED <<row, extra, inst, call>>
  BY DEF CacheServe
<1>2. row' \in Row /\ extra' \in ExtraRow /\ k \in CallType
  BY <1>1 DEF DerivedInv, TypeOK
<1>3. k.pc \in {"store", "cas"} => k.val \in Payload /\ WellDerived(k.val)
  BY <1>2 DEF DerivedInv, FrameSound, Frame, CallType
<1>4. same => item' \in Item /\ WellDerived(item'.val) /\ casSeq' \in Nat
  BY ItemType DEF DerivedInv, TypeOK
<1>5. NoItem \in Item /\ WellDerived(NoItem.val)
  BY BlankType DEF NoItem, Item
<1>6. /\ \A s \in {"err", "true", "false"} : Answer(s) \in Reply /\ WellDerived(Answer(s).val)
      /\ CacheFaults \in BOOLEAN
  BY WaitingType, BlankType, CacheFaultsAssumption DEF ReplyStatus
<1>7. CASE k.pc \in GetsPoints /\ Gets(c)
  <2>1. Settle(c, item, FALSE) /\ same
    BY <1>7 DEF Gets
  <2>2. k.pc \notin {"new", "selectExtra"}
    BY <1>7 DEF GetsPoints
  <2> QED BY <1>1, <1>2, <1>4, <2>1, <2>2, ItemType, SettleOK
<1>8. CASE k.pc = "store" /\ Set(c, k.val)
  <2>1. Store("record", k.val) /\ Settle(c, Answer("true"), CacheFaults)
    BY <1>8 DEF Set
  <2>2. item' \in Item /\ WellDerived(item'.val) /\ casSeq' \in Nat
    BY <1>3, <1>8, <2>1, StoreOK
  <2> QED BY <1>1, <1>2, <1>6, <1>8, <2>1, <2>2, SettleOK
<1>9. ASSUME NEW s \in {"record", "deleted"}, NEW v \in Payload, WellDerived(v),
             Add(c, s, v), k.pc \in {"store", "mark"}
      PROVE  DerivedInv'
  <2>1. CASE Store(s, v) /\ Settle(c, Answer("true"), CacheFaults)
    <3>1. item' \in Item /\ WellDerived(item'.val) /\ casSeq' \in Nat
      BY <1>9, <2>1, StoreOK
    <3> QED BY <1>1, <1>2, <1>6, <1>9, <2>1, <3>1, SettleOK
  <2>2. CASE Settle(c, Answer("false"), CacheFaults) /\ same
    BY <1>1, <1>2, <1>4, <1>6, <1>9, <2>2, SettleOK
  <2> QED BY <1>9, <2>1, <2>2 DEF Add
<1>10. CASE k.pc = "cas" /\ Cas(c, k.val, k.tok)
  <2>1. CASE Store("record", k.val) /\ Settle(c, Answer("true"), CacheFaults)
    <3>1. item' \in Item /\ WellDerived(item'.val) /\ casSeq' \in Nat
      BY <1>3, <1>10, <2>1, StoreOK
    <3> QED BY <1>1, <1>2, <1>6, <1>10, <2>1, <3>1, SettleOK
  <2>2. CASE Settle(c, Answer("false"), CacheFaults) /\ same
    BY <1>1, <1>2, <1>4, <1>6, <1>10, <2>2, SettleOK
  <2> QED BY <1>10, <2>1, <2>2 DEF Cas
<1>11. CASE k.pc = "del" /\ Del(c)
  <2>1. item' = NoItem /\ casSeq' = casSeq /\ Settle(c, Answer("true"), CacheFaults)
    BY <1>11 DEF Del
  <2>2. casSeq' \in Nat
    BY <2>1 DEF DerivedInv, TypeOK
  <2> QED BY <1>1, <1>2, <1>5, <1>6, <1>11, <2>1, <2>2, SettleOK
<1>12. CASE k.pc \in CachePoints /\ CacheFails(c)
  <2>1. Settle(c, Answer("err"), FALSE) /\ same
    BY <1>12 DEF CacheFails
  <2>2. k.pc \notin {"new", "selectExtra"}
    BY <1>12 DEF CachePoints, GetsPoints
  <2> QED BY <1>1, <1>2, <1>4, <1>6, <2>1, <2>2, SettleOK
<1> QED BY <1>3, <1>7, <1>8, <1>9, <1>10, <1>11, <1>12, BlankType DEF CacheServe

(* The statements on the rows, and the payloads made of them.              *)
LEMMA DbServeOK ==
  ASSUME DerivedInv, NEW c \in Call, DbServe(c)
  PROVE  DerivedInv'
<1> DEFINE k == call[c]
<1>1. UNCHANGED <<item, casSeq, inst, call>>
  BY DEF DbServe
<1>2. /\ item' \in Item /\ WellDerived(item'.val) /\ casSeq' \in Nat
      /\ k \in CallType /\ row \in Row /\ extra \in ExtraRow
  BY <1>1, ItemType DEF DerivedInv, TypeOK
<1>3. /\ \A s \in ReplyStatus : /\ Answer(s) \in Reply /\ WellDerived(Answer(s).val)
                               /\ OnlyExtra(Answer(s).val)
      /\ DbFaults \in BOOLEAN
  BY WaitingType, BlankType, DbFaultsAssumption
<1>4. k.upd \in Payload /\ k.task.arg \in Payload /\ Written(k) \in Payload
  BY <1>2 DEF CallType, TaskType, Written
<1>5. BaseField \in SUBSET Field /\ ExtraField \in SUBSET Field
  BY DEF Field
<1>6. k.pc \in DbPoints => k.pc # "new"
  BY DEF DbPoints
<1>7. ASSUME NEW s \in ReplyStatus, NEW lossy \in BOOLEAN, Settle(c, Answer(s), lossy),
             k.pc \in DbPoints, row' \in Row, extra' \in ExtraRow
      PROVE  DerivedInv'
  BY <1>1, <1>2, <1>3, <1>6, <1>7, SettleOK
<1>8. CASE k.pc = "select" /\ SelectRow(c)
  <2>1. DecorateRecord(row) \in Payload /\ WellDerived(DecorateRecord(row))
    BY <1>2, DecorateRecordType
  <2> DEFINE r == [st |-> "record", val |-> DecorateRecord(row), cas |-> 0]
  <2>2. r \in Reply /\ WellDerived(r.val)
    BY <2>1 DEF Reply, ReplyStatus
  <2>3. UNCHANGED <<row, extra>> /\ (Settle(c, r, FALSE) \/ Settle(c, Answer("none"), FALSE))
    BY <1>8 DEF SelectRow, Query
  <2> HIDE DEF r
  <2> QED BY <1>1, <1>2, <1>7, <1>8, <2>2, <2>3, SettleOK DEF ReplyStatus, DbPoints
<1>9. CASE k.pc = "selectExtra" /\ SelectExtra(c, OwnKey(inst[k.task.on]))
  <2>1. extra.col \in [ExtraField -> DbCell]
    BY <1>2 DEF ExtraRow
  <2>2. ExtraPayload(extra.col) \in Payload /\ OnlyExtra(ExtraPayload(extra.col))
    BY <2>1, ExtraPayloadType
  <2> DEFINE r == [st |-> "record", val |-> ExtraPayload(extra.col), cas |-> 0]
  <2>3. r \in Reply /\ WellDerived(r.val) /\ OnlyExtra(r.val)
    BY <2>2 DEF Reply, ReplyStatus, OnlyExtra, WellDerived
  <2>4. UNCHANGED <<row, extra>> /\ (Settle(c, r, FALSE) \/ Settle(c, Answer("none"), FALSE))
    BY <1>9 DEF SelectExtra, Query
  <2> HIDE DEF r
  <2> QED BY <1>1, <1>2, <1>7, <1>9, <2>3, <2>4, SettleOK DEF ReplyStatus, DbPoints
<1>10. CASE k.pc = "insertBase" /\ InsertRow(c, k.task.arg)
  <2> DEFINE empty == [f \in BaseField |-> Null]
  <2>1. empty \in [BaseField -> DbCell]
    BY DEF DbCell
  <2>2. \A v \in Value : [has |-> TRUE, col |-> Assign(empty, k.task.arg, v)] \in Row
    BY <1>4, <1>5, <2>1, AssignType DEF Row
  <2>3. row' \in Row /\ extra' \in ExtraRow
    BY <1>2, <1>10, <2>2 DEF InsertRow
  <2>4. Settle(c, Answer("err"), FALSE) \/ Settle(c, Answer("true"), DbFaults)
    BY <1>10 DEF InsertRow, Execute
  <2> QED BY <1>3, <1>7, <1>10, <2>3, <2>4 DEF ReplyStatus, DbPoints
<1>11. CASE k.pc = "updateBase" /\ UpdateRow(c, k.upd)
  <2>1. \A v \in Value : [row EXCEPT !.col = Assign(@, k.upd, v)] \in Row
    BY <1>2, <1>4, <1>5, AssignType DEF Row
  <2>2. row' \in Row /\ extra' \in ExtraRow
    BY <1>2, <1>11, <2>1 DEF UpdateRow
  <2>3. Settle(c, Answer("true"), DbFaults) \/ Settle(c, Answer("false"), DbFaults)
    BY <1>11 DEF UpdateRow, Execute
  <2> QED BY <1>3, <1>7, <1>11, <2>2, <2>3 DEF ReplyStatus, DbPoints
<1>12. CASE k.pc = "deleteBase" /\ DeleteRow(c)
  <2>1. row' \in Row /\ extra' \in ExtraRow
    BY <1>2, <1>12 DEF DeleteRow, Row
  <2>2. Settle(c, Answer("true"), DbFaults) \/ Settle(c, Answer("false"), DbFaults)
    BY <1>12 DEF DeleteRow, Execute
  <2> QED BY <1>3, <1>7, <1>12, <2>1, <2>2 DEF ReplyStatus, DbPoints
<1>13. CASE /\ k.pc = "insertExtra"
            /\ InsertExtra(c, Written(k), OwnKey(inst[k.task.on]), WellFormed(k))
  <2> DEFINE empty == [f \in ExtraField |-> ExtraOmitted]
  <2>1. empty \in [ExtraField -> DbCell]
    BY CellAssumption DEF DbCell
  <2>2. \A v \in Value : [has |-> TRUE, col |-> Assign(empty, Written(k), v)] \in ExtraRow
    BY <1>4, <1>5, <2>1, AssignType DEF ExtraRow
  <2>3. row' \in Row /\ extra' \in ExtraRow
    BY <1>2, <1>13, <2>2 DEF InsertExtra
  <2>4. Settle(c, Answer("err"), FALSE) \/ Settle(c, Answer("true"), DbFaults)
    BY <1>13 DEF InsertExtra, Execute
  <2> QED BY <1>3, <1>7, <1>13, <2>3, <2>4 DEF ReplyStatus, DbPoints
<1>14. CASE k.pc = "updateExtra" /\ UpdateExtra(c, k.upd, OwnKey(inst[k.task.on]))
  <2>1. \A v \in Value : [extra EXCEPT !.col = Assign(@, k.upd, v)] \in ExtraRow
    BY <1>2, <1>4, <1>5, AssignType DEF ExtraRow
  <2>2. row' \in Row /\ extra' \in ExtraRow
    BY <1>2, <1>14, <2>1 DEF UpdateExtra
  <2>3. Settle(c, Answer("true"), DbFaults) \/ Settle(c, Answer("false"), DbFaults)
    BY <1>14 DEF UpdateExtra, Execute
  <2> QED BY <1>3, <1>7, <1>14, <2>2, <2>3 DEF ReplyStatus, DbPoints
<1>15. CASE k.pc = "deleteExtra" /\ DeleteExtra(c, OwnKey(inst[k.task.on]))
  <2>1. row' \in Row /\ extra' \in ExtraRow
    BY <1>2, <1>15 DEF DeleteExtra, ExtraRow
  <2>2. Settle(c, Answer("true"), DbFaults) \/ Settle(c, Answer("false"), DbFaults)
    BY <1>15 DEF DeleteExtra, Execute
  <2> QED BY <1>3, <1>7, <1>15, <2>1, <2>2 DEF ReplyStatus, DbPoints
<1>16. CASE k.pc \in DbPoints /\ DbFails(c)
  BY <1>2, <1>7, <1>16 DEF DbFails, ReplyStatus
<1> QED BY <1>8, <1>9, <1>10, <1>11, <1>12, <1>13, <1>14, <1>15, <1>16 DEF DbServe

(* An action that runs a call on with a sound frame preserves the          *)
(* invariant.  What the action may rely on is the frame and the answer.    *)
LEMMA AnswerOK ==
  ASSUME DerivedInv, NEW c \in Call, NEW pc, Answered(c, pc)
  PROVE  /\ FrameOK(Frame(c)) /\ Frame(c).k.pc = pc
         /\ reply[c] \in Reply /\ WellDerived(reply[c].val)
         /\ pc = "selectExtra" => OnlyExtra(reply[c].val)
         /\ pc \in CachePoints => CacheEnabled
         /\ reply' = [reply EXCEPT ![c] = Waiting]
<1>1. FrameOK(Frame(c)) /\ Frame(c).k.pc = pc
  BY FrameOfCall DEF Answered, Frame
<1>2. reply[c] \in Reply /\ ReplySound(c)
  BY DEF DerivedInv, TypeOK
<1> QED BY <1>1, <1>2 DEF Answered, ReplySound, FrameOK, FrameSound

LEMMA Points ==
  /\ GetsPoints \cup {"store", "cas", "del", "mark"} = CachePoints
  /\ CachePoints \subseteq Pc /\ DbPoints \subseteq Pc
  /\ GetsPoints = {"cached", "fresh", "refresh", "reread"}
  /\ DbPoints \cap {"store", "cas", "refresh"} = {}
BY DEF CachePoints, GetsPoints, DbPoints, Pc

LEMMA InCacheOK ==
  ASSUME NEW f, FrameOK(f), NEW b \in BOOLEAN
  PROVE  FrameOK([f EXCEPT !.o.inCache = b])
BY DEF FrameOK, FrameSound, FrameType, InstanceType

LEMMA CachedOK ==
  ASSUME DerivedInv, NEW c \in Call, Cached(c)
  PROVE  DerivedInv'
<1> DEFINE f == Frame(c)
           r == reply[c]
<1>1. Answered(c, "cached")
  BY DEF Cached
<1>2. FrameOK(f) /\ r \in Reply /\ WellDerived(r.val) /\ CacheEnabled
      /\ reply' = [reply EXCEPT ![c] = Waiting]
  BY <1>1, AnswerOK, Points
<1> HIDE DEF f, r
<1>3. FrameOK(Body([Adopt(f, r) EXCEPT !.o.inCache = TRUE]))
  BY <1>2, AdoptOK, InCacheOK, BodyOK
<1>4. FrameOK(Body(f)) /\ FrameOK(Go(f, "select"))
  BY <1>2, BodyOK, GoOK, DbPointPc DEF DbPoints
<1> QED BY <1>2, <1>3, <1>4, ResumeOK DEF Cached, f, r

LEMMA SelectedOK ==
  ASSUME DerivedInv, NEW c \in Call, Selected(c)
  PROVE  DerivedInv'
<1> DEFINE f == Frame(c)
           r == reply[c]
           loaded == SetRecord(f, r.val)
           storing == [loaded EXCEPT !.k = [@ EXCEPT !.pc = "store", !.val = r.val]]
<1>1. FrameOK(f) /\ r \in Reply /\ WellDerived(r.val) /\ reply' = [reply EXCEPT ![c] = Waiting]
  BY AnswerOK DEF Selected
<1> HIDE DEF f, r
<1>2. FrameOK(loaded)
  BY <1>1, SetRecordOK DEF Reply
<1> HIDE DEF loaded
<1>3. CacheEnabled => FrameOK(storing)
  BY <1>1, <1>2, Points DEF FrameOK, FrameSound, FrameType, CallType, Reply
<1>4. FrameOK(Body([loaded EXCEPT !.o.inCache = FALSE]))
  BY <1>2, InCacheOK, BodyOK
<1> HIDE DEF storing
<1>5. FrameOK(Reject(f)) /\ FrameOK(Body(f))
  BY <1>1, RejectOK, BodyOK
<1> QED BY <1>1, <1>3, <1>4, <1>5, ResumeOK DEF Selected, f, r, loaded, storing

LEMMA StoredOK ==
  ASSUME DerivedInv, NEW c \in Call, Stored(c)
  PROVE  DerivedInv'
<1> DEFINE f == [Frame(c) EXCEPT !.k.val = Blank]
<1>1. FrameOK(Frame(c)) /\ CacheEnabled /\ reply' = [reply EXCEPT ![c] = Waiting]
  BY AnswerOK, Points DEF Stored
<1>2. FrameOK(f)
  BY <1>1, BlankType DEF FrameOK, FrameSound, FrameType, CallType
<1> HIDE DEF f
<1>3. FrameOK(Body([f EXCEPT !.o.inCache = FALSE])) /\ FrameOK(Go(f, "fresh"))
  BY <1>1, <1>2, InCacheOK, BodyOK, GoOK, Points
<1> QED BY <1>1, <1>3, ResumeOK DEF Stored, f

LEMMA FreshOK ==
  ASSUME DerivedInv, NEW c \in Call, Fresh(c)
  PROVE  DerivedInv'
<1> DEFINE f == Frame(c)
           g == IF Usable(reply[c]) THEN Adopt(f, reply[c]) ELSE f
<1>1. /\ FrameOK(f) /\ CacheEnabled /\ reply' = [reply EXCEPT ![c] = Waiting]
      /\ reply[c] \in Reply /\ WellDerived(reply[c].val)
  BY AnswerOK, Points DEF Fresh
<1> HIDE DEF f
<1>2. FrameOK(g)
  BY <1>1, AdoptOK
<1> HIDE DEF g
<1>3. FrameOK(Body([g EXCEPT !.o.inCache = FALSE]))
  BY <1>2, InCacheOK, BodyOK
<1> QED BY <1>1, <1>3, ResumeOK DEF Fresh, f, g

LEMMA CasAnsweredOK ==
  ASSUME DerivedInv, NEW c \in Call, CasAnswered(c)
  PROVE  DerivedInv'
<1> DEFINE f == Frame(c)
           g == [f EXCEPT !.k.val = Blank, !.k.tok = 0]
<1>1. /\ FrameOK(f) /\ f.k.pc = "cas" /\ CacheEnabled
      /\ reply' = [reply EXCEPT ![c] = Waiting]
  BY AnswerOK, Points DEF CasAnswered
<1> HIDE DEF f
<1>2. FrameOK(g)
  BY <1>1, BlankType DEF FrameOK, FrameSound, FrameType, CallType
<1>3. WellDerived(f.k.val)
  BY <1>1 DEF FrameOK, FrameSound
<1> HIDE DEF g
<1>4. FrameOK(Go(f, "refresh")) /\ FrameOK(Go(g, "reread")) /\ FrameOK(AfterUpdateCache(f))
  BY <1>1, <1>2, <1>3, GoOK, Points, AfterUpdateCacheOK
<1> QED BY <1>1, <1>4, ResumeOK DEF CasAnswered, f, g

LEMMA RefreshedOK ==
  ASSUME DerivedInv, NEW c \in Call, Refreshed(c)
  PROVE  DerivedInv'
<1> DEFINE f == Frame(c)
           r == reply[c]
           candidate == SetRecord(f, f.k.val)
<1>1. /\ FrameOK(f) /\ f.k.pc = "refresh" /\ CacheEnabled
      /\ r \in Reply /\ WellDerived(r.val) /\ reply' = [reply EXCEPT ![c] = Waiting]
  BY AnswerOK, Points DEF Refreshed
<1> HIDE DEF f, r
<1>2. FrameOK(candidate)
  <2>1. f.k.val \in Payload /\ WellDerived(f.k.val)
    BY <1>1 DEF FrameOK, FrameSound, FrameType, CallType
  <2> QED BY <1>1, <2>1, SetRecordOK
<1> HIDE DEF candidate
<1>3. FrameOK(Adopt(f, r))
  BY <1>1, AdoptOK
<1>4. /\ FrameOK(AfterUpdateCache(Adopt(f, r))) /\ FrameOK(AfterUpdateCache(f))
      /\ FrameOK(AfterUpdateCache(candidate))
  BY <1>1, <1>2, <1>3, AfterUpdateCacheOK
<1> QED BY <1>1, <1>4, ResumeOK DEF Refreshed, f, r, candidate

LEMMA RereadOK ==
  ASSUME DerivedInv, NEW c \in Call, Reread(c)
  PROVE  DerivedInv'
<1>1. /\ FrameOK(Frame(c)) /\ CacheEnabled
      /\ reply[c] \in Reply /\ WellDerived(reply[c].val)
      /\ reply' = [reply EXCEPT ![c] = Waiting]
  BY AnswerOK, Points DEF Reread
<1>2. FrameOK(RetryFrom(Frame(c), reply[c])) /\ FrameOK(AfterUpdateCache(Frame(c)))
  BY <1>1, RetryFromOK, AfterUpdateCacheOK
<1> QED BY <1>1, <1>2, ResumeOK DEF Reread

(* The answers of the database, and the end of an invalidation.            *)
LEMMA DbAnswersOK ==
  ASSUME DerivedInv, NEW c \in Call,
         \/ UpdatedBase(c) \/ UpdatedExtra(c) \/ InsertedExtra(c) \/ InsertedBase(c)
         \/ DeletedBase(c) \/ DeletedExtra(c) \/ Invalidated(c) \/ Marked(c)
  PROVE  DerivedInv'
<1> DEFINE f == Frame(c)
<1>1. FrameOK(f)
  BY FrameOfCall
<1>2. reply' = [reply EXCEPT ![c] = Waiting]
  BY DEF UpdatedBase, UpdatedExtra, InsertedExtra, InsertedBase, DeletedBase, DeletedExtra,
         Invalidated, Marked, Answered
<1>3. call[c].pc = "del" => CacheEnabled
  BY <1>1 DEF FrameOK, FrameSound, Frame, CachePoints
<1> HIDE DEF f
<1>4. FrameOK(Resolve(f)) /\ FrameOK(Reject(f)) /\ FrameOK(Fire(f, Resolve(f)))
  BY <1>1, ResolveOK, RejectOK, FireOK
<1>5. FrameOK(PersistExtra(f)) /\ FrameOK(Initialise(f)) /\ FrameOK(Fire(f, Invalidate(f)))
  BY <1>1, PersistExtraOK, InitialiseOK, InvalidateOK, FireOK
<1>6. FrameOK(Go(f, "insertExtra")) /\ FrameOK(Go(f, "deleteExtra"))
  BY <1>1, GoOK, DbPointPc DEF DbPoints
<1>7. call[c].pc = "del" => FrameOK(Go(f, "mark"))
  BY <1>1, <1>3, GoOK, Points
<1>8. CASE UpdatedBase(c)
  BY <1>2, <1>4, <1>5, <1>8, ResumeOK DEF UpdatedBase, f
<1>9. CASE UpdatedExtra(c)
  BY <1>2, <1>4, <1>6, <1>9, ResumeOK DEF UpdatedExtra, f
<1>10. CASE InsertedExtra(c)
  BY <1>2, <1>4, <1>10, ResumeOK DEF InsertedExtra, f
<1>11. CASE InsertedBase(c)
  BY <1>2, <1>4, <1>5, <1>11, ResumeOK DEF InsertedBase, f
<1>12. CASE DeletedBase(c)
  BY <1>2, <1>4, <1>5, <1>6, <1>12, ResumeOK DEF DeletedBase, f
<1>13. CASE DeletedExtra(c)
  BY <1>2, <1>4, <1>5, <1>13, ResumeOK DEF DeletedExtra, f
<1>14. CASE Invalidated(c)
  BY <1>2, <1>4, <1>7, <1>14, ResumeOK DEF Invalidated, Answered, f
<1>15. CASE Marked(c)
  BY <1>2, <1>4, <1>15, ResumeOK DEF Marked, f
<1> QED BY <1>8, <1>9, <1>10, <1>11, <1>12, <1>13, <1>14, <1>15

LEMMA SelectedExtraOK ==
  ASSUME DerivedInv, NEW c \in Call, SelectedExtra(c)
  PROVE  DerivedInv'
<1> DEFINE f == Frame(c)
           r == reply[c]
           u == IF r.st = "none" THEN DefaultsPayload ELSE r.val
<1>1. FrameOK(f) /\ r \in Reply /\ OnlyExtra(r.val) /\ reply' = [reply EXCEPT ![c] = Waiting]
  BY AnswerOK DEF SelectedExtra
<1> HIDE DEF f, r
<1>2. u \in Payload /\ OnlyExtra(u)
  BY <1>1, ExtraPayloadType, DefaultsPayloadType DEF Reply
<1> HIDE DEF u
<1>3. FrameOK([f EXCEPT !.k.upd = u])
  BY <1>1, <1>2, SetUpdOK, OnlyExtraNoDerived
<1>4. FrameOK(UpdateCache(Merge([f EXCEPT !.k.upd = u], u)))
  BY <1>2, <1>3, MergeOK, UpdateCacheOK
<1> QED BY <1>1, <1>4, RejectOK, ResumeOK DEF SelectedExtra, f, r, u

LEMMA StartOK ==
  ASSUME DerivedInv, NEW c \in Call, Start(c)
  PROVE  DerivedInv'
<1> DEFINE f == Frame(c)
           fresh(force) == [f EXCEPT !.o = NewInstance(force)]
<1>1. FrameOK(f) /\ f.k.task.force \in BOOLEAN
  BY FrameOfCall DEF FrameOK, FrameType, CallType, TaskType
<1>2. reply' = [reply EXCEPT ![c] = Waiting]
  <2>1. call[c].pc = "new" /\ reply' = reply
    BY DEF Start, Startable
  <2> QED BY <2>1 DEF DerivedInv, TypeOK, ReplySound
<1> HIDE DEF f
<1>3. \A force \in BOOLEAN : FrameOK(fresh(force))
  BY <1>1, BlankType, BlankView DEF FrameOK, FrameSound, FrameType, InstanceType, NewInstance
<1> HIDE DEF fresh
<1>4. /\ FrameOK(Initialise(fresh(f.k.task.force)))
      /\ FrameOK(Go(fresh(TRUE), "insertBase"))
  BY <1>1, <1>3, InitialiseOK, GoOK, DbPointPc DEF DbPoints
<1>5. FrameOK(Invalidate(f)) /\ FrameOK(EnsureRecordLoaded(f))
  BY <1>1, InvalidateOK, EnsureRecordLoadedOK
<1> QED BY <1>2, <1>4, <1>5, ResumeOK DEF Start, f, fresh

LEMMA EvictOK ==
  ASSUME DerivedInv, Evict
  PROVE  DerivedInv'
<1>1. item' = NoItem /\ UNCHANGED <<casSeq, row, extra, reply, inst, call>>
  BY DEF Evict, Expire
<1>2. NoItem \in Item /\ WellDerived(NoItem.val)
  BY BlankType DEF NoItem, Item
<1>3. TypeOK'
  BY <1>1, <1>2 DEF DerivedInv, TypeOK
<1> QED BY <1>1, <1>2, <1>3 DEF DerivedInv, ReplySound, FrameSound, Frame

LEMMA InitOK ==
  ASSUME Init
  PROVE  DerivedInv
<1>1. PICK task \in [Call -> UNION {Task[c] : c \in Call}] :
        /\ \A c \in Call : task[c] \in Task[c]
        /\ call = [c \in Call |-> [task |-> task[c], pc |-> "new", upd |-> Blank,
                                   val |-> Blank, tok |-> 0, att |-> 0]]
  BY DEF Init
<1>2. \A c \in Call : task[c] \in TaskType /\ Touched(task[c].arg) \cap DerivedField = {}
  BY <1>1, TaskAssumption
<1>3. \A c \in Call : NoDerived(task[c].arg)
  BY <1>2 DEF NoDerived, Touched, Field
<1>4. \A i \in Instance : inst[i] \in InstanceType /\ inst[i].token = 0
  BY BlankType, BlankView DEF Init, NewInstance, InstanceType
<1>5. call \in [Call -> CallType]
  BY <1>1, <1>2, BlankType DEF CallType, Pc
<1>6. TypeOK
  BY <1>4, <1>5, BlankType, WaitingType, SettingAssumption DEF Init, TypeOK, NoItem, Item
<1>7. WellDerived(item.val)
  BY BlankType DEF Init, NoItem
<1>8. ASSUME NEW c \in Call PROVE ReplySound(c) /\ FrameSound(Frame(c))
  <2>1. /\ call[c].pc = "new" /\ call[c].upd = Blank /\ call[c].task = task[c]
        /\ reply[c] = Waiting
    BY <1>1 DEF Init
  <2>2. task[c].on \in Instance
    BY <1>2 DEF TaskType
  <2> QED BY <1>3, <1>4, <2>1, <2>2, BlankType, WaitingType
          DEF ReplySound, FrameSound, Frame, CachePoints, GetsPoints
<1> QED BY <1>4, <1>6, <1>7, <1>8 DEF DerivedInv

-----------------------------------------------------------------------------
(* The invariant holds in every reachable state.                           *)
THEOREM DerivedInvariance == Spec => []DerivedInv
<1>1. Init => DerivedInv
  BY InitOK
<1>2. DerivedInv /\ [Next]_vars => DerivedInv'
  <2> SUFFICES ASSUME DerivedInv, [Next]_vars PROVE DerivedInv'
    OBVIOUS
  <2>1. CASE UNCHANGED vars
    BY <2>1 DEF vars, DerivedInv, TypeOK, ReplySound, FrameSound, Frame
  <2>2. ASSUME NEW c \in Call, Continue(c) PROVE DerivedInv'
    BY <2>2, CachedOK, SelectedOK, StoredOK, FreshOK, CasAnsweredOK, RefreshedOK, RereadOK,
       DbAnswersOK, SelectedExtraOK DEF Continue
  <2>3. CASE Next
    BY <2>1, <2>2, <2>3, StartOK, CacheServeOK, DbServeOK, EvictOK DEF Next, Serve, Quiet
  <2> QED BY <2>1, <2>3
<1> QED BY <1>1, <1>2, PTL DEF Spec

(* Every variable keeps its type, for any set of calls, instances, columns *)
(* and faults.                                                             *)
THEOREM TypeCorrect == Spec => []TypeOK
BY DerivedInvariance, PTL DEF DerivedInv

(* The cached record never shows a derived column next to other parent     *)
(* values than those it was computed from: with overlapping calls,         *)
(* evictions, cache and database errors, and whatever the bound on CAS     *)
(* attempts.                                                               *)
THEOREM CacheWellDerived == Spec => []DerivedAgrees
<1>1. DerivedInv => DerivedAgrees
  BY DEF DerivedInv, DerivedAgrees
<1> QED BY <1>1, DerivedInvariance, PTL
=============================================================================
