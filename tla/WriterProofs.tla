---------------------------- MODULE WriterProofs ----------------------------
(***************************************************************************)
(* Proofs about DatabaseRecord: with one instance that inserts, updates    *)
(* and reads the extra row, while any number of others load the record,    *)
(* what is acknowledged is in the tables, and the extra columns of the     *)
(* cached record agree with the extra row.                                 *)
(***************************************************************************)
EXTENDS CoherentProofs

(* A record with a key has that of its row, and the row is there: what     *)
(* KeyInv says of every record that is held, cached or on its way.         *)
TrueKey(p) == p.id = "none" \/ (p.id = "own" /\ row.has)

KeyFrame(f) ==
  /\ FrameOK(f) /\ f.k.task.arg.id = "none" /\ f.k.upd.id = "none"
  /\ TrueKey(f.k.val) /\ TrueKey(f.o.record)

KeyInv ==
  /\ TrueKey(item.val)
  /\ \A i \in Instance : TrueKey(inst[i].record)
  /\ \A c \in Call :
       /\ call[c].task.arg.id = "none" /\ call[c].upd.id = "none"
       /\ TrueKey(call[c].val) /\ TrueKey(reply[c].val)
       /\ call[c].pc = "selectExtra" => reply[c].val.id = "none"

-----------------------------------------------------------------------------
(* Keys: nothing deletes the row, and without a shared name no payload but *)
(* a selected row brings a key.                                            *)

LEMMA KeylessPayloads ==
  /\ Blank.id = "none" /\ TrueKey(Blank)
  /\ \A s : Answer(s).val = Blank
  /\ \A cells : ExtraPayload(cells).id = "none"
  /\ ~SharedExtraKey => DefaultsPayload.id = "none"
<1>1. Blank.id = "none" /\ \A cells : ExtraPayload(cells).id = "none"
  BY DEF Blank, ExtraPayload
<1>2. ~SharedExtraKey => DefaultsPayload.id = "none"
  <2> DEFINE p == ExtraPayload(ExtraTableDefaults)
  <2>1. p \in Payload
    BY ExtraPayloadType, CellAssumption DEF ExtraTableDefaults, DbCell
  <2> HIDE DEF p
  <2>2. DefaultsPayload = [p EXCEPT !.id = IF SharedExtraKey THEN "default" ELSE "none"]
    BY DEF DefaultsPayload, p
  <2> QED BY <2>1, <2>2 DEF Payload
<1> QED BY <1>1, <1>2 DEF TrueKey, Answer

LEMMA KeyKept ==
  ASSUME NEW p \in Payload, NEW u \in Payload, u.id = "none"
  PROVE  /\ MergeRecord(p, u).id = p.id /\ ApplyUpdate(p, u).id = p.id
         /\ Sanitise(u, p).id = "none"
BY DEF MergeRecord, ApplyUpdate, Sanitise, Payload

LEMMA GoKey ==
  ASSUME NEW f, KeyFrame(f), NEW pc \in Pc,
         pc \in CachePoints => CacheEnabled,
         pc \in {"store", "cas", "refresh"} => WellDerived(f.k.val)
  PROVE  KeyFrame(Go(f, pc))
<1>1. FrameOK(Go(f, pc))
  BY GoOK DEF KeyFrame
<1> QED BY <1>1 DEF KeyFrame, FrameOK, FrameType, CallType, Go

LEMMA ForgetKey ==
  ASSUME NEW f, KeyFrame(f)
  PROVE  KeyFrame(Forget(f))
<1>1. FrameOK(Forget(f))
  BY ForgetOK DEF KeyFrame
<1> QED BY <1>1, KeylessPayloads DEF KeyFrame, FrameOK, FrameType, CallType, Forget

LEMMA SettleKey ==
  ASSUME NEW f, KeyFrame(f)
  PROVE  KeyFrame(Resolve(f)) /\ KeyFrame(Reject(f)) /\ KeyFrame(Fire(f, Resolve(f)))
<1>1. KeyFrame(Resolve(f)) /\ KeyFrame(Reject(f))
  BY ForgetKey, GoKey, SettledPc DEF Resolve, Reject
<1> QED BY <1>1 DEF Fire

LEMMA SetRecordKey ==
  ASSUME NEW f, KeyFrame(f), NEW p \in Payload, WellDerived(p), TrueKey(p)
  PROVE  KeyFrame(SetRecord(f, p))
<1>1. FrameOK(SetRecord(f, p))
  BY SetRecordOK DEF KeyFrame
<1> QED BY <1>1 DEF KeyFrame, FrameOK, FrameType, InstanceType, SetRecord

LEMMA AdoptKey ==
  ASSUME NEW f, KeyFrame(f), NEW r \in Reply, WellDerived(r.val), TrueKey(r.val), CacheEnabled
  PROVE  KeyFrame(Adopt(f, r))
<1> DEFINE g == SetRecord(f, r.val)
<1>1. FrameOK(Adopt(f, r))
  BY AdoptOK DEF KeyFrame
<1>2. KeyFrame(g)
  BY SetRecordKey DEF Reply
<1>3. Adopt(f, r) = [g EXCEPT !.o.token = r.cas]
  BY DEF Adopt
<1> HIDE DEF g
<1> QED BY <1>1, <1>2, <1>3 DEF KeyFrame, FrameOK, FrameType, InstanceType

LEMMA MergeKey ==
  ASSUME NEW f, KeyFrame(f), NEW u \in Payload, u.id = "none", f.o.token = 0 \/ OnlyExtra(u)
  PROVE  KeyFrame(Merge(f, u))
<1>1. FrameOK(Merge(f, u)) /\ f \in FrameType /\ f.o.record \in Payload
  BY MergeOK DEF KeyFrame, FrameOK, FrameType, InstanceType
<1>2. /\ Merge(f, u).k = f.k
      /\ Merge(f, u).o = [f.o EXCEPT !.has = TRUE, !.record = MergeRecord(f.o.record, u),
                                     !.view = ApplyRecordToInstance(f.o.view, u)]
  BY <1>1, MergeFacts
<1>3. Merge(f, u).o.record.id = f.o.record.id
  BY <1>1, <1>2, KeyKept DEF FrameType, InstanceType
<1> QED BY <1>1, <1>2, <1>3 DEF KeyFrame, TrueKey

LEMMA PersistExtraKey ==
  ASSUME NEW f, KeyFrame(f)
  PROVE  KeyFrame(PersistExtra(f))
<1>1. KeyFrame(Go(f, "updateExtra"))
  BY GoKey, DbPointPc DEF DbPoints
<1> QED BY <1>1, SettleKey DEF PersistExtra

LEMMA AfterUpdateCacheKey ==
  ASSUME NEW f, KeyFrame(f)
  PROVE  KeyFrame(AfterUpdateCache(f))
<1>1. KeyFrame(Forget(f)) /\ KeyFrame(Resolve(f))
  BY ForgetKey, SettleKey
<1>2. KeyFrame(Go(Forget(f), "updateBase")) /\ KeyFrame(PersistExtra(Forget(f)))
  BY <1>1, GoKey, PersistExtraKey, DbPointPc DEF DbPoints
<1> QED BY <1>1, <1>2 DEF AfterUpdateCache, PersistUpdate

(* The extra table's statement follows only with a key.                    *)
LEMMA StatementKeyed ==
  ASSUME NEW f \in FrameType
  PROVE  AfterUpdateCache(f).k.pc = "updateExtra" => Keyed(AfterUpdateCache(f).o)
<1>1. \A h \in FrameType : PersistExtra(h).k.pc = "updateExtra" => Keyed(PersistExtra(h).o)
  <2> SUFFICES ASSUME NEW h \in FrameType, PersistExtra(h).k.pc = "updateExtra"
               PROVE  Keyed(PersistExtra(h).o)
    OBVIOUS
  <2>1. Resolve(h).k.pc = "resolved" /\ Reject(h).k.pc = "rejected"
    BY SettleFacts
  <2>2. ~(ExtraColumns(h.k.upd) # {} /\ ~Keyed(h.o)) /\ ExtraColumns(h.k.upd) # {}
    BY <2>1 DEF PersistExtra, Fire
  <2>3. PersistExtra(h).o = h.o
    BY PersistExtraFacts
  <2> QED BY <2>2, <2>3
<1>2. Forget(f) \in FrameType /\ Resolve(f).k.pc = "resolved"
  BY ForgetFacts, SettleFacts
<1>3. Go(Forget(f), "updateBase").k.pc = "updateBase"
  BY <1>2, GoFacts
<1> QED BY <1>1, <1>2, <1>3 DEF AfterUpdateCache, PersistUpdate

LEMMA PerformCasUpdateKey ==
  ASSUME NEW f, KeyFrame(f), NEW record \in Payload, WellDerived(record), TrueKey(record),
         CacheEnabled, NEW token \in Nat, NEW attempt \in Nat
  PROVE  KeyFrame(PerformCasUpdate(f, record, token, attempt))
<1> DEFINE g == PerformCasUpdate(f, record, token, attempt)
<1>1. FrameOK(g) /\ f \in FrameType
  BY PerformCasUpdateOK DEF KeyFrame, FrameOK
<1>2. CASE attempt > MaxCasAttempts
  BY <1>2, AfterUpdateCacheKey DEF PerformCasUpdate
<1>3. CASE ~(attempt > MaxCasAttempts)
  <2>1. Candidate(f, g, record, token, attempt)
    BY <1>1, <1>3, PerformCasUpdateFacts
  <2> HIDE DEF g
  <2>2. f.k.upd \in Payload /\ f.o \in InstanceType /\ f.k.upd.id = "none"
    BY <1>1 DEF FrameType, CallType, KeyFrame
  <2>3. g.k.val.id = record.id /\ g.o.record = f.o.record
    BY <2>1, <2>2, KeyKept DEF Candidate, InstanceType
  <2> QED BY <1>1, <2>1, <2>3 DEF KeyFrame, TrueKey, Candidate, Kept, g
<1> QED BY <1>2, <1>3

LEMMA UpdateCacheKey ==
  ASSUME NEW f, KeyFrame(f)
  PROVE  KeyFrame(UpdateCache(f))
<1>1. CASE CacheEnabled /\ f.o.token # 0
  <2>1. f.o.record \in Payload /\ f.o.token \in Nat /\ WellDerived(f.o.record)
        /\ TrueKey(f.o.record)
    BY <1>1 DEF KeyFrame, FrameOK, FrameSound, FrameType, InstanceType
  <2> QED BY <1>1, <2>1, PerformCasUpdateKey DEF UpdateCache
<1>2. CASE ~(CacheEnabled /\ f.o.token # 0)
  <2>1. f.o.token = 0 /\ f.k.upd \in Payload /\ f.k.upd.id = "none"
    BY <1>2 DEF KeyFrame, FrameOK, FrameSound, FrameType, CallType, InstanceType
  <2>2. KeyFrame(Merge(f, f.k.upd))
    BY <2>1, MergeKey
  <2> QED BY <1>2, <2>2, AfterUpdateCacheKey DEF UpdateCache
<1> QED BY <1>1, <1>2

LEMMA SetUpdKey ==
  ASSUME NEW f, KeyFrame(f), NEW u \in Payload, NoDerived(u), u.id = "none"
  PROVE  KeyFrame([f EXCEPT !.k.upd = u])
<1>1. FrameOK([f EXCEPT !.k.upd = u])
  BY SetUpdOK DEF KeyFrame
<1> QED BY <1>1 DEF KeyFrame, FrameOK, FrameType, CallType

LEMMA BodyKey ==
  ASSUME NEW f, KeyFrame(f)
  PROVE  KeyFrame(Body(f))
<1>1. \A pc \in DbPoints : KeyFrame(Go(f, pc))
  BY GoKey, DbPointPc
<1>2. KeyFrame(ReadExtraData(f)) /\ KeyFrame(InsertExtraRow(f))
  BY <1>1, SettleKey DEF ReadExtraData, InsertExtraRow, DbPoints
<1>3. KeyFrame(Update(f))
  <2> DEFINE u == IF f.o.has THEN Sanitise(f.k.task.arg, f.o.record) ELSE f.k.task.arg
  <2>1. f.k.task.arg \in Payload /\ NoDerived(f.k.task.arg) /\ f.o.record \in Payload
        /\ f.k.task.arg.id = "none"
    BY DEF KeyFrame, FrameOK, FrameSound, FrameType, CallType, TaskType, InstanceType
  <2>2. u \in Payload /\ NoDerived(u) /\ u.id = "none"
    BY <2>1, SanitiseType, KeyKept
  <2> HIDE DEF u
  <2>3. KeyFrame(UpdateCache([f EXCEPT !.k.upd = u]))
    BY <2>2, SetUpdKey, UpdateCacheKey
  <2> QED BY <2>3, SettleKey DEF Update, u
<1> QED BY <1>1, <1>2, <1>3, SettleKey DEF Body, DbPoints

LEMMA InitialiseKey ==
  ASSUME NEW f, KeyFrame(f)
  PROVE  KeyFrame(Initialise(f))
<1>1. KeyFrame(Go(f, "select"))
  BY GoKey, DbPointPc DEF DbPoints
<1>2. CacheEnabled => KeyFrame(Go(f, "cached"))
  BY GoKey DEF Pc, CachePoints, GetsPoints
<1> QED BY <1>1, <1>2 DEF Initialise

LEMMA InCacheKey ==
  ASSUME NEW f, KeyFrame(f), NEW b \in BOOLEAN
  PROVE  KeyFrame([f EXCEPT !.o.inCache = b])
<1>1. FrameOK([f EXCEPT !.o.inCache = b])
  BY InCacheOK DEF KeyFrame
<1> QED BY <1>1 DEF KeyFrame, FrameOK, FrameType, InstanceType

(* What a step of the code may rely on.                                    *)
LEMMA AnswerKey ==
  ASSUME DerivedInv, KeyInv, NEW c \in Call, NEW pc, Answered(c, pc)
  PROVE  /\ KeyFrame(Frame(c)) /\ Frame(c).k.pc = pc
         /\ reply[c] \in Reply /\ WellDerived(reply[c].val) /\ TrueKey(reply[c].val)
         /\ pc = "selectExtra" => OnlyExtra(reply[c].val) /\ reply[c].val.id = "none"
         /\ pc \in CachePoints => CacheEnabled
         /\ reply' = [reply EXCEPT ![c] = Waiting]
<1>1. /\ FrameOK(Frame(c)) /\ Frame(c).k.pc = pc /\ reply[c] \in Reply
      /\ WellDerived(reply[c].val) /\ (pc = "selectExtra" => OnlyExtra(reply[c].val))
      /\ (pc \in CachePoints => CacheEnabled) /\ reply' = [reply EXCEPT ![c] = Waiting]
  BY AnswerOK
<1>2. Frame(c).k = call[c] /\ Frame(c).o = inst[call[c].task.on] /\ call[c].task.on \in Instance
  BY DEF Frame, DerivedInv, TypeOK, CallType, TaskType
<1> QED BY <1>1, <1>2 DEF KeyInv, KeyFrame

LEMMA ResumeKey ==
  ASSUME DerivedInv, KeyInv, NEW c \in Call, NEW f, KeyFrame(f), Resume(c, f),
         reply' = [reply EXCEPT ![c] = Waiting]
  PROVE  KeyInv'
<1>1. /\ f.k \in CallType /\ f.k.task.on \in Instance
      /\ inst' = [inst EXCEPT ![f.k.task.on] = f.o] /\ call' = [call EXCEPT ![c] = f.k]
      /\ UNCHANGED <<item, row>>
  BY DEF KeyFrame, FrameOK, FrameType, CallType, TaskType, Resume
<1>2. TrueKey(item.val)' /\ \A p : TrueKey(p)' <=> TrueKey(p)
  BY <1>1 DEF KeyInv, TrueKey
<1>3. \A i \in Instance : TrueKey(inst'[i].record)
  BY <1>1 DEF KeyInv, KeyFrame, DerivedInv, TypeOK
<1>4. \A d \in Call : /\ call'[d] = IF d = c THEN f.k ELSE call[d]
                      /\ reply'[d] = IF d = c THEN Waiting ELSE reply[d]
  BY <1>1 DEF DerivedInv, TypeOK
<1>5. Waiting.val = Blank
  BY WaitingType
<1>6. ASSUME NEW d \in Call
      PROVE  /\ call'[d].task.arg.id = "none" /\ call'[d].upd.id = "none"
             /\ TrueKey(call'[d].val) /\ TrueKey(reply'[d].val)
             /\ call'[d].pc = "selectExtra" => reply'[d].val.id = "none"
  BY <1>4, <1>5, KeylessPayloads DEF KeyInv, KeyFrame
<1> QED BY <1>2, <1>3, <1>6 DEF KeyInv, TrueKey

LEMMA LoadingKey ==
  ASSUME DerivedInv, KeyInv, NEW c \in Call,
         Cached(c) \/ Selected(c) \/ Stored(c) \/ Fresh(c)
  PROVE  KeyInv'
<1> DEFINE f == Frame(c)
           r == reply[c]
           a == Adopt(f, r)
           l == SetRecord(f, r.val)
           s == [l EXCEPT !.k = [@ EXCEPT !.pc = "store", !.val = r.val]]
           t == [f EXCEPT !.k.val = Blank]
<1>1. \/ Answered(c, "cached") \/ Answered(c, "select") \/ Answered(c, "store")
      \/ Answered(c, "fresh")
  BY DEF Cached, Selected, Stored, Fresh
<1>2. /\ KeyFrame(f) /\ r \in Reply /\ WellDerived(r.val) /\ TrueKey(r.val)
      /\ reply' = [reply EXCEPT ![c] = Waiting]
  BY <1>1, AnswerKey
<1>3. CacheEnabled \/ Selected(c)
  BY AnswerKey, Points DEF Cached, Stored, Fresh
<1> HIDE DEF f, r
<1>4. CacheEnabled => KeyFrame(a)
  BY <1>2, AdoptKey
<1>5. KeyFrame(l)
  BY <1>2, SetRecordKey DEF Reply
<1> HIDE DEF a, l
<1>6. CacheEnabled => KeyFrame(s)
  BY <1>2, <1>5, Points DEF KeyFrame, FrameOK, FrameSound, FrameType, CallType, Reply
<1>7. KeyFrame(t)
  BY <1>2, BlankType, KeylessPayloads DEF KeyFrame, FrameOK, FrameSound, FrameType, CallType
<1> HIDE DEF s, t
<1>8. /\ CacheEnabled => KeyFrame(Body([a EXCEPT !.o.inCache = TRUE]))
      /\ CacheEnabled => KeyFrame(Body([a EXCEPT !.o.inCache = FALSE]))
      /\ KeyFrame(Body([l EXCEPT !.o.inCache = FALSE])) /\ KeyFrame(Body(f))
      /\ KeyFrame(Body([t EXCEPT !.o.inCache = FALSE]))
      /\ KeyFrame(Body([f EXCEPT !.o.inCache = FALSE]))
  BY <1>2, <1>4, <1>5, <1>7, InCacheKey, BodyKey
<1>9. /\ KeyFrame(Go(f, "select")) /\ KeyFrame(Reject(f))
      /\ CacheEnabled => KeyFrame(Go(t, "fresh"))
  BY <1>2, <1>7, GoKey, SettleKey, DbPointPc, Points DEF DbPoints
<1>10. CASE Cached(c)
  BY <1>2, <1>3, <1>8, <1>9, <1>10, ResumeKey DEF Cached, Selected, Answered, f, r, a
<1>11. CASE Selected(c)
  BY <1>2, <1>6, <1>8, <1>9, <1>11, ResumeKey DEF Selected, f, r, l, s
<1>12. CASE Stored(c)
  BY <1>2, <1>3, <1>8, <1>9, <1>12, ResumeKey DEF Stored, Selected, Answered, f, t
<1>13. CASE Fresh(c)
  BY <1>2, <1>3, <1>8, <1>13, ResumeKey DEF Fresh, Selected, Answered, f, r, a
<1> QED BY <1>10, <1>11, <1>12, <1>13

LEMMA CasKey ==
  ASSUME DerivedInv, KeyInv, NEW c \in Call, CasAnswered(c) \/ Refreshed(c) \/ Reread(c)
  PROVE  KeyInv'
<1> DEFINE f == Frame(c)
           r == reply[c]
           g == [f EXCEPT !.k.val = Blank, !.k.tok = 0]
           s == SetRecord(f, r.val)
<1>1. Answered(c, "cas") \/ Answered(c, "refresh") \/ Answered(c, "reread")
  BY DEF CasAnswered, Refreshed, Reread
<1>2. /\ KeyFrame(f) /\ r \in Reply /\ WellDerived(r.val) /\ TrueKey(r.val)
      /\ f.k.pc \in {"cas", "refresh", "reread"} /\ CacheEnabled
      /\ reply' = [reply EXCEPT ![c] = Waiting]
  BY <1>1, AnswerKey, Points
<1>3. f.k.pc = "cas" \/ ~CasAnswered(c)
  BY <1>1, AnswerKey DEF CasAnswered
<1>4. f.k.pc = "refresh" \/ ~Refreshed(c)
  BY <1>1, AnswerKey DEF Refreshed
<1> HIDE DEF f, r
<1>5. f.k.val \in Payload /\ TrueKey(f.k.val) /\ r.val \in Payload /\ r.cas \in Nat
      /\ f.k.att + 1 \in Nat
  BY <1>2 DEF KeyFrame, FrameOK, FrameType, CallType, Reply
<1>6. f.k.pc \in {"cas", "refresh"} => WellDerived(f.k.val)
  BY <1>2 DEF KeyFrame, FrameOK, FrameSound
<1>7. KeyFrame(g)
  BY <1>2, BlankType, KeylessPayloads DEF KeyFrame, FrameOK, FrameSound, FrameType, CallType
<1>8. KeyFrame(Adopt(f, r)) /\ KeyFrame(s)
      /\ (f.k.pc \in {"cas", "refresh"} => KeyFrame(SetRecord(f, f.k.val)))
  BY <1>2, <1>5, <1>6, AdoptKey, SetRecordKey
<1> HIDE DEF g, s
<1>9. s.k = f.k
  BY <1>2 DEF s, SetRecord, KeyFrame, FrameOK, FrameType
<1>10. KeyFrame(PerformCasUpdate(s, r.val, r.cas, f.k.att + 1))
  BY <1>2, <1>5, <1>8, PerformCasUpdateKey
<1>11. KeyFrame(AfterUpdateCache(f)) /\ KeyFrame(AfterUpdateCache(Adopt(f, r)))
       /\ (f.k.pc \in {"cas", "refresh"} => KeyFrame(AfterUpdateCache(SetRecord(f, f.k.val))))
  BY <1>2, <1>8, AfterUpdateCacheKey
<1>12. KeyFrame(Go(g, "reread")) /\ (f.k.pc = "cas" => KeyFrame(Go(f, "refresh")))
  BY <1>2, <1>6, <1>7, GoKey, Points
<1>13. CASE CasAnswered(c)
  BY <1>2, <1>3, <1>11, <1>12, <1>13, ResumeKey DEF CasAnswered, f, r, g
<1>14. CASE Refreshed(c)
  BY <1>2, <1>4, <1>11, <1>14, ResumeKey DEF Refreshed, f, r
<1>15. CASE Reread(c)
  BY <1>2, <1>10, <1>11, <1>15, ResumeKey DEF Reread, RetryFrom, f, r, s
<1> QED BY <1>13, <1>14, <1>15

LEMMA AnsweredKey ==
  ASSUME DerivedInv, KeyInv, ViewInv, ~SharedExtraKey, NEW c \in Call,
         \/ UpdatedBase(c) \/ UpdatedExtra(c) \/ InsertedExtra(c) \/ InsertedBase(c)
         \/ DeletedBase(c) \/ DeletedExtra(c) \/ Invalidated(c) \/ Marked(c)
         \/ SelectedExtra(c)
  PROVE  KeyInv'
<1> DEFINE f == Frame(c)
           r == reply[c]
           u == IF r.st = "none" THEN DefaultsPayload ELSE r.val
<1>1. ~(DeletedBase(c) \/ DeletedExtra(c) \/ Invalidated(c) \/ Marked(c))
  BY DEF ViewInv, Dropping, DeletedBase, DeletedExtra, Invalidated, Marked, Answered
<1>2. PICK pc : Answered(c, pc) /\ (SelectedExtra(c) => pc = "selectExtra")
  BY <1>1 DEF UpdatedBase, UpdatedExtra, InsertedExtra, InsertedBase, SelectedExtra, Answered
<1>3. /\ KeyFrame(f) /\ r \in Reply /\ reply' = [reply EXCEPT ![c] = Waiting]
      /\ SelectedExtra(c) => OnlyExtra(r.val) /\ r.val.id = "none"
  BY <1>2, AnswerKey
<1> HIDE DEF f, r
<1>4. /\ KeyFrame(Resolve(f)) /\ KeyFrame(Reject(f)) /\ KeyFrame(Fire(f, Resolve(f)))
      /\ KeyFrame(PersistExtra(f)) /\ KeyFrame(Initialise(f)) /\ KeyFrame(Go(f, "insertExtra"))
  BY <1>3, SettleKey, PersistExtraKey, InitialiseKey, GoKey, DbPointPc DEF DbPoints
<1>5. SelectedExtra(c) => KeyFrame(UpdateCache(Merge([f EXCEPT !.k.upd = u], u)))
  <2>1. SelectedExtra(c) => u \in Payload /\ OnlyExtra(u) /\ u.id = "none"
    BY <1>3, DefaultsPayloadType, KeylessPayloads DEF Reply
  <2> HIDE DEF u
  <2>2. SelectedExtra(c) => KeyFrame([f EXCEPT !.k.upd = u])
    BY <1>3, <2>1, SetUpdKey, OnlyExtraNoDerived
  <2> QED BY <2>1, <2>2, MergeKey, UpdateCacheKey
<1>6. CASE UpdatedBase(c)
  BY <1>3, <1>4, <1>6, ResumeKey DEF UpdatedBase, f
<1>7. CASE UpdatedExtra(c)
  BY <1>3, <1>4, <1>7, ResumeKey DEF UpdatedExtra, f
<1>8. CASE InsertedExtra(c)
  BY <1>3, <1>4, <1>8, ResumeKey DEF InsertedExtra, f
<1>9. CASE InsertedBase(c)
  BY <1>3, <1>4, <1>9, ResumeKey DEF InsertedBase, f
<1>10. CASE SelectedExtra(c)
  BY <1>3, <1>4, <1>5, <1>10, ResumeKey DEF SelectedExtra, f, r, u
<1> QED BY <1>1, <1>6, <1>7, <1>8, <1>9, <1>10

LEMMA StartKey ==
  ASSUME DerivedInv, KeyInv, ViewInv, NEW c \in Call, Start(c)
  PROVE  KeyInv'
<1> DEFINE f == Frame(c)
           fresh(force) == [f EXCEPT !.o = NewInstance(force)]
<1>1. f.k = call[c] /\ f.o = inst[call[c].task.on] /\ call[c].task.on \in Instance
  BY DEF Frame, DerivedInv, TypeOK, CallType, TaskType
<1>2. KeyFrame(f) /\ f.k.task.force \in BOOLEAN /\ f.k.task.op # "unCache"
  BY <1>1, FrameOfCall DEF KeyInv, KeyFrame, FrameOK, FrameType, CallType, TaskType, ViewInv
<1>3. reply' = [reply EXCEPT ![c] = Waiting]
  <2>1. call[c].pc = "new" /\ reply' = reply
    BY DEF Start, Startable
  <2> QED BY <2>1 DEF DerivedInv, TypeOK, ReplySound
<1> HIDE DEF f
<1>4. \A force \in BOOLEAN : KeyFrame(fresh(force))
  BY <1>2, BlankType, BlankView, KeylessPayloads
     DEF KeyFrame, FrameOK, FrameSound, FrameType, InstanceType, NewInstance
<1> HIDE DEF fresh
<1>5. /\ KeyFrame(Initialise(fresh(f.k.task.force)))
      /\ KeyFrame(Go(fresh(TRUE), "insertBase"))
      /\ KeyFrame(EnsureRecordLoaded(f))
  BY <1>2, <1>4, InitialiseKey, GoKey, BodyKey, DbPointPc DEF DbPoints, EnsureRecordLoaded
<1> QED BY <1>2, <1>3, <1>5, ResumeKey DEF Start, f, fresh

(* A server's answer, when the row stays and no other key comes with it.   *)
LEMMA ServeKey ==
  ASSUME TypeOK, KeyInv, NEW c \in Call, NEW s, reply' = [reply EXCEPT ![c] = s],
         UNCHANGED <<inst, call>>, row.has => row'.has,
         TrueKey(s.val)', call[c].pc = "selectExtra" => s.val.id = "none",
         TrueKey(item.val)'
  PROVE  KeyInv'
<1>1. \A p : TrueKey(p) => TrueKey(p)'
  BY DEF TrueKey
<1>2. \A d \in Call : reply'[d] = IF d = c THEN s ELSE reply[d]
  BY DEF TypeOK
<1>3. ASSUME NEW d \in Call
      PROVE  /\ TrueKey(reply[d].val)'
             /\ call'[d].pc = "selectExtra" => reply'[d].val.id = "none"
  <2>1. CASE d = c
    BY <1>2, <2>1 DEF TrueKey
  <2>2. CASE d # c
    BY <1>2, <2>2 DEF TrueKey, KeyInv
  <2> QED BY <2>1, <2>2
<1>4. ASSUME NEW d \in Call
      PROVE  /\ call'[d].task.arg.id = "none" /\ call'[d].upd.id = "none"
             /\ TrueKey(call[d].val)'
  BY DEF TrueKey, KeyInv
<1>5. \A i \in Instance : TrueKey(inst[i].record)'
  BY DEF TrueKey, KeyInv
<1> QED BY <1>3, <1>4, <1>5 DEF KeyInv

LEMMA CacheServeKey ==
  ASSUME DerivedInv, KeyInv, ViewInv, NEW c \in Call, CacheServe(c)
  PROVE  KeyInv'
<1>1. TypeOK /\ item \in Item /\ call[c].pc \notin Dropping
  BY DEF DerivedInv, TypeOK, ViewInv
<1>2. PICK s : CacheServed(c, s)
  BY <1>1, CacheServeCases
<1>3. /\ reply' = [reply EXCEPT ![c] = s] /\ UNCHANGED <<inst, call, row>>
      /\ call[c].pc # "selectExtra"
  BY <1>2 DEF CacheServed, CachePoints, GetsPoints
<1>4. s = item \/ \E a : s = Answer(a)
  BY <1>1, <1>2 DEF CacheServed, Dropping
<1>5. TrueKey(s.val)
  BY <1>4, KeylessPayloads DEF KeyInv
<1>6. item' = item \/ item'.val = call[c].val
  BY <1>1, <1>2 DEF CacheServed, Dropping, Store
<1>7. TrueKey(item'.val)
  BY <1>6 DEF KeyInv
<1>8. TrueKey(s.val)' /\ TrueKey(item.val)'
  BY <1>3, <1>5, <1>7 DEF TrueKey
<1> QED BY <1>1, <1>3, <1>8, ServeKey

LEMMA DbServeKey ==
  ASSUME DerivedInv, KeyInv, ViewInv, NEW c \in Call, DbServe(c)
  PROVE  KeyInv'
<1> DEFINE k == call[c]
           own == OwnKey(inst[k.task.on])
<1>1. TypeOK /\ row \in Row /\ k.pc \notin Dropping /\ UNCHANGED <<item, inst, call>>
  BY DbServeAnswers DEF DerivedInv, TypeOK, ViewInv
<1> HIDE DEF own
<1>2. ASSUME NEW s, reply' = [reply EXCEPT ![c] = s], TrueKey(s.val)', row.has => row'.has,
             k.pc = "selectExtra" => s.val.id = "none"
      PROVE  KeyInv'
  <2>1. TrueKey(item.val)'
    BY <1>1, <1>2 DEF KeyInv, TrueKey
  <2> QED BY <1>1, <1>2, <2>1, ServeKey
<1>3. ASSUME row.has => row'.has, NEW a, reply' = [reply EXCEPT ![c] = Answer(a)]
      PROVE  KeyInv'
  BY <1>2, <1>3, KeylessPayloads DEF TrueKey
<1>4. ASSUME row.has => row'.has, NEW b \in BOOLEAN, Execute(c, b)
      PROVE  KeyInv'
  <2>1. Settle(c, Answer("true"), DbFaults) \/ Settle(c, Answer("false"), DbFaults)
    BY <1>4 DEF Execute
  <2> QED BY <1>3, <1>4, <2>1, SettleCases, DbFaultsAssumption
<1>5. CASE k.pc = "select" /\ SelectRow(c)
  <2> DEFINE q == [st |-> "record", val |-> DecorateRecord(row), cas |-> 0]
  <2>1. /\ UNCHANGED row
        /\ (row.has /\ Settle(c, q, FALSE)) \/ Settle(c, Answer("none"), FALSE)
    BY <1>5 DEF SelectRow, Query
  <2>2. q.val = DecorateRecord(row)
    OBVIOUS
  <2> HIDE DEF q
  <2>3. PICK s : /\ reply' = [reply EXCEPT ![c] = s]
                 /\ s = Answer("none") \/ (row.has /\ s.val = DecorateRecord(row))
    BY <2>1, <2>2, SettleCases
  <2>4. s = Answer("none") \/ (row.has /\ s.val.id = "own")
    BY <2>3 DEF DecorateRecord
  <2>5. TrueKey(s.val)'
    BY <2>1, <2>4, KeylessPayloads DEF TrueKey
  <2> QED BY <1>2, <1>5, <2>1, <2>3, <2>5
<1>6. CASE k.pc = "selectExtra" /\ SelectExtra(c, own)
  <2> DEFINE q == [st |-> "record", val |-> ExtraPayload(extra.col), cas |-> 0]
  <2>1. UNCHANGED row /\ (Settle(c, q, FALSE) \/ Settle(c, Answer("none"), FALSE))
    BY <1>6 DEF SelectExtra, Query
  <2>2. q.val = ExtraPayload(extra.col)
    OBVIOUS
  <2> HIDE DEF q
  <2>3. PICK s : /\ reply' = [reply EXCEPT ![c] = s]
                 /\ s = Answer("none") \/ s.val = ExtraPayload(extra.col)
    BY <2>1, <2>2, SettleCases
  <2>4. s.val.id = "none"
    BY <2>3, KeylessPayloads
  <2>5. TrueKey(s.val)'
    BY <2>4 DEF TrueKey
  <2> QED BY <1>2, <2>1, <2>3, <2>4, <2>5
<1>7. CASE k.pc = "insertBase" /\ InsertRow(c, k.task.arg)
  <2>1. row.has => row'.has
    BY <1>7 DEF InsertRow
  <2>2. Settle(c, Answer("err"), FALSE) \/ Execute(c, TRUE)
    BY <1>7 DEF InsertRow
  <2> QED BY <1>3, <1>4, <2>1, <2>2, SettleCases
<1>8. CASE k.pc = "updateBase" /\ UpdateRow(c, k.upd)
  <2>1. row.has => row'.has
    BY <1>1, <1>8 DEF UpdateRow, Row
  <2>2. Execute(c, row.has) /\ row.has \in BOOLEAN
    BY <1>1, <1>8 DEF UpdateRow, Row
  <2> QED BY <1>4, <2>1, <2>2
<1>9. CASE k.pc = "insertExtra" /\ InsertExtra(c, Written(k), own, WellFormed(k))
  <2>1. UNCHANGED row /\ (Settle(c, Answer("err"), FALSE) \/ Execute(c, TRUE))
    BY <1>9 DEF InsertExtra
  <2> QED BY <1>3, <1>4, <2>1, SettleCases
<1>10. CASE k.pc = "updateExtra" /\ UpdateExtra(c, k.upd, own)
  <2>1. UNCHANGED row /\ (Execute(c, TRUE) \/ Execute(c, FALSE))
    BY <1>10 DEF UpdateExtra
  <2> QED BY <1>4, <2>1
<1>11. CASE k.pc \in DbPoints /\ DbFails(c)
  BY <1>3, <1>11, SettleCases DEF DbFails
<1>12. /\ k.pc # "deleteBase" /\ k.pc # "deleteExtra"
       /\ \/ k.pc = "select" /\ SelectRow(c)
          \/ k.pc = "insertBase" /\ InsertRow(c, k.task.arg)
          \/ k.pc = "updateBase" /\ UpdateRow(c, k.upd)
          \/ k.pc = "selectExtra" /\ SelectExtra(c, own)
          \/ k.pc = "insertExtra" /\ InsertExtra(c, Written(k), own, WellFormed(k))
          \/ k.pc = "updateExtra" /\ UpdateExtra(c, k.upd, own)
          \/ k.pc \in DbPoints /\ DbFails(c)
  BY <1>1 DEF DbServe, Dropping, own
<1> QED BY <1>5, <1>6, <1>7, <1>8, <1>9, <1>10, <1>11, <1>12

(* Without a shared key name, and with no deletions, a key is that of the  *)
(* record's row in every reachable state.                                  *)
THEOREM KeyInvariance ==
  ASSUME Lasting, ~SharedExtraKey
  PROVE  Spec => []KeyInv
<1>1. Init => KeyInv
  <2> SUFFICES ASSUME Init PROVE KeyInv
    OBVIOUS
  <2>1. \A c \in Call : /\ call[c].task \in Task[c] /\ call[c].pc = "new"
                        /\ call[c].upd = Blank /\ call[c].val = Blank /\ reply[c] = Waiting
    BY DEF Init
  <2>2. \A c \in Call : call[c].task.arg.id = "none"
    BY <2>1, TaskAssumption
  <2>3. item.val = Blank /\ \A i \in Instance : inst[i].record = Blank
    BY DEF Init, NoItem, NewInstance
  <2> QED BY <2>1, <2>2, <2>3, KeylessPayloads, WaitingType DEF KeyInv
<1>2. DerivedInv /\ ViewInv /\ KeyInv /\ [Next]_vars => KeyInv'
  <2> SUFFICES ASSUME DerivedInv, ViewInv, KeyInv, [Next]_vars PROVE KeyInv'
    OBVIOUS
  <2>1. CASE UNCHANGED vars
    BY <2>1 DEF vars, KeyInv, TrueKey
  <2>2. ASSUME NEW c \in Call, Continue(c) PROVE KeyInv'
    BY <2>2, LoadingKey, CasKey, AnsweredKey DEF Continue
  <2>3. ~Evict
    BY DEF Evict, Lasting
  <2> QED BY <2>1, <2>2, <2>3, StartKey, CacheServeKey, DbServeKey DEF Next, Serve, Quiet
<1> QED BY <1>1, <1>2, DerivedInvariance, ViewInvariance, PTL DEF Spec

-----------------------------------------------------------------------------
(* One writer.                                                             *)

(* An instance through which more is done than loads from the cache.       *)
Writes(i) == \E c \in Call : \E t \in Task[c] : t.on = i /\ (t.op # "load" \/ t.force)

(* One instance writes, one method at a time; nothing takes the record out *)
(* of the cache, the database answers, what an INSERT leaves in extra      *)
(* columns is the default that readExtraData reports, and the extra        *)
(* table's key column has a name of its own.                               *)
Sole ==
  /\ Lasting /\ ~Overlap /\ CacheEnabled /\ ~DbFaults
  /\ ~SharedExtraKey /\ ExtraOmitted = ExtraDefault
  /\ \A i \in Instance : \A j \in Instance : Writes(i) /\ Writes(j) => i = j
  /\ \A c \in Call : \A t \in Task[c] : \A x \in ExtraField : t.arg.col[x] \notin Literal

Column == BaseField \cup ExtraField

(* The table has the value v in the column x, or an expression put one     *)
(* there.                                                                  *)
InTable(x, v) == IF x \in BaseField THEN v \in Literal \cup {row.col[x]} ELSE v = ExtraView[x]

BaseWritten(u) == \A x \in BaseColumns(u) : InTable(x, u.col[x])
ExtraWritten(u) == \A x \in ExtraColumns(u) : InTable(x, u.col[x])

NoExtra(p) == \A x \in ExtraField : p.col[x] = Absent

(* What a call has published and not yet written.                          *)
Debt(k, x) ==
  /\ k.task.op = "update" /\ k.upd.col[x] # Absent
  /\ \/ k.pc \in {"refresh", "updateBase"}
     \/ k.pc \in {"updateExtra", "insertExtra"} /\ x \in ExtraField

Owed(c, x) ==
  IF reply[c] = Waiting THEN Debt(call[c], x)
  ELSE /\ call[c].task.op = "update" /\ call[c].upd.col[x] # Absent
       /\ \/ call[c].pc = "refresh"
          \/ call[c].pc = "cas" /\ reply[c] = Answer("true")
          \/ call[c].pc = "updateBase" /\ x \in ExtraField
          \/ call[c].pc = "updateExtra" /\ x \in ExtraField /\ reply[c] # Answer("true")

(* What a call that resolves has done.  Nothing is stored by an update     *)
(* where no row is.                                                        *)
Acked(t) == (row.has => Holds(t.arg)) /\ (t.op = "insert" => row.has)

(* A record selected from the table.                                       *)
Selection(p, i) ==
  /\ row.has /\ p.id = "own" /\ NoExtra(p)
  /\ item.st = "none" \/ Writes(i) => SameBase(p)

FrameSole(f) ==
  LET k == f.k  o == f.o
  IN  /\ k.pc = "insertBase" => k.task.op = "insert" /\ ~o.has
      /\ k.task.op = "insert" /\ k.pc \in {"cached", "select", "store", "fresh", "insertExtra"} =>
           row.has /\ BaseWritten(k.task.arg)
      /\ k.pc = "store" => Selection(k.val, k.task.on)
      /\ k.pc = "fresh" => item.st = "record"
      /\ k.pc # "reread"
      /\ k.pc \in CasPoints => k.task.op \in {"update", "readExtra"}
      /\ k.pc = "selectExtra" => k.task.op = "readExtra" /\ o.has
      /\ k.pc \in {"updateBase", "updateExtra"} => k.task.op = "update"
      /\ k.pc = "insertExtra" => k.task.op \in {"insert", "update"}
      /\ k.pc \in {"updateExtra", "insertExtra"} => Keyed(o)
      /\ k.task.op = "readExtra" /\ k.pc \in CasPoints =>
           /\ OnlyExtra(k.upd)
           /\ \A x \in ExtraField : k.upd.col[x] \in {Absent, ExtraView[x]}
      /\ k.task.op = "update" /\ k.pc \in CasPoints \cup Writing /\ row.has =>
           /\ Within(k.upd, k.task.arg)
           /\ \A x \in Touched(k.task.arg) \ Touched(k.upd) : InTable(x, k.task.arg.col[x])
      /\ k.task.op = "update" /\ k.pc \in Writing /\ row.has => o.token # 0
      /\ k.task.op = "update" /\ k.pc \in {"updateExtra", "insertExtra"} /\ row.has =>
           BaseWritten(k.upd)

(* The value v has the update u on top of the record p.                    *)
Puts(v, p, u) ==
  \A x \in Column :
    IF u.col[x] = Absent THEN v.col[x] = p.col[x] ELSE v.col[x] \in {Absent, u.col[x]}

(* A request that has not been carried out.                                *)
Asks(f) ==
  LET k == f.k
  IN  /\ k.pc = "cas" => k.tok = item.cas /\ k.val.id = "own" /\ Puts(k.val, item.val, k.upd)
      /\ k.pc = "insertExtra" /\ k.task.op = "update" /\ row.has => ~extra.has

(* One that has.                                                           *)
ReplySole(c) ==
  LET k == call[c]  r == reply[c]
  IN  /\ k.pc \in GetsPoints /\ r.st = "record" /\ Writes(k.task.on) => r = item
      /\ k.pc = "select" => IF r.st = "record" THEN Selection(r.val, k.task.on)
                            ELSE r.st = "none" /\ (Writes(k.task.on) => ~row.has)
      /\ k.pc = "store" => r.st \in {"true", "false"} /\ item.st = "record"
      /\ k.pc = "fresh" => r.st = "record"
      /\ k.pc = "cas" => r = Answer("true")
      /\ k.pc = "insertBase" =>
           r.st = "err" \/ (r.st = "true" /\ row.has /\ BaseWritten(k.task.arg))
      /\ k.pc = "updateBase" => r.st # "err" /\ (row.has => BaseWritten(k.upd))
      /\ k.pc = "selectExtra" => /\ r.st \in {"record", "none"}
                                 /\ row.has => (r.st = "none" <=> ~extra.has)
                                 /\ row.has /\ r.st = "record" => r.val = ExtraPayload(extra.col)
      /\ k.pc = "updateExtra" =>
           /\ r \in {Answer("true"), Answer("false")}
           /\ row.has => IF r = Answer("true") THEN ExtraWritten(k.upd) ELSE ~extra.has
      /\ k.pc = "insertExtra" =>
           /\ r.st \in {"true", "err"}
           /\ r.st = "true" => ExtraWritten(Written(k))
           /\ k.task.op = "update" /\ row.has => r.st = "true"

InstanceSole(i) ==
  /\ Writes(i) =>
       /\ inst[i].token # 0 =>
            Busy(i) \/ (inst[i].token = item.cas /\ inst[i].record = item.val)
       /\ row.has /\ inst[i].has /\ inst[i].token = 0 =>
            \E c \in Call : call[c].task.on = i /\ call[c].pc \in Storing
  /\ ~Writes(i) => ~inst[i].force

Made == \E d \in Call : /\ call[d].task.op \in {"load", "insert"} /\ call[d].pc = "resolved"
                        /\ Writes(call[d].task.on)

(* The cached record shows the tables, or what is owed to them.            *)
ItemSole ==
  item.st = "record" =>
    /\ row.has /\ item.val.id = "own"
    /\ NoExtra(item.val) \/ Made
    /\ \A x \in Column :
         /\ \A c \in Call : Owed(c, x) => item.val.col[x] \in {Absent, call[c].upd.col[x]}
         /\ \/ item.val.col[x] = Absent \/ InTable(x, item.val.col[x])
            \/ \E c \in Call : Owed(c, x)

CallSole(c) ==
  /\ call[c].task \in Task[c]
  /\ FrameSole(Frame(c))
  /\ IF reply[c] = Waiting THEN Asks(Frame(c)) ELSE ReplySole(c)

SoleInv ==
  /\ ItemSole
  /\ \A i \in Instance : InstanceSole(i)
  /\ \A c \in Call : CallSole(c)

Held == DerivedInv /\ TokenInv /\ ViewInv /\ KeyInv /\ SoleInv

-----------------------------------------------------------------------------
(* Who writes, and who owes.                                               *)

LEMMA OwedActs ==
  ASSUME NEW c \in Call, NEW x, Owed(c, x)
  PROVE  Active(c) /\ call[c].task.op = "update" /\ call[c].upd.col[x] # Absent
BY DEF Owed, Debt, Active, Settled

LEMMA ReadersLoad ==
  ASSUME NEW c \in Call, NEW t \in Task[c], ~Writes(t.on)
  PROVE  t.op = "load" /\ ~t.force
BY DEF Writes

(* The instance that writes has one method under way.                      *)
LEMMA SoleWriter ==
  ASSUME Sole, Held, NEW c \in Call, Alone(c), Writes(call[c].task.on),
         NEW d \in Call, d # c, Writes(call[d].task.on)
  PROVE  ~Active(d)
<1>1. TypeOK
  BY DEF Held, DerivedInv
<1>2. call[c].task.on \in Instance /\ call[d].task.on \in Instance
  BY <1>1 DEF TypeOK, CallType, TaskType
<1>3. call[c].task.on = call[d].task.on
  BY <1>2 DEF Sole
<1> QED BY <1>3 DEF Alone

(* While one of its methods is under way nothing else is owed.             *)
LEMMA SoleDebtor ==
  ASSUME Sole, Held, NEW c \in Call, Alone(c), Writes(call[c].task.on),
         NEW d \in Call, NEW x, Owed(d, x)
  PROVE  d = c
<1>1. Active(d) /\ call[d].task.op = "update" /\ call[d].task \in Task[d]
  BY OwedActs DEF Held, SoleInv, CallSole
<1>2. Writes(call[d].task.on)
  BY <1>1, ReadersLoad
<1> QED BY <1>1, <1>2, SoleWriter

(* The key that an instance has is that of its record.                     *)
LEMMA KeyIsOwn ==
  ASSUME KeyInv, NEW i \in Instance, Keyed(inst[i])
  PROVE  OwnKey(inst[i])
BY DEF KeyInv, TrueKey, Keyed, OwnKey

(* A column in the cached record that nothing is owed for is in the table. *)
LEMMA SettledColumns ==
  ASSUME Sole, Held, NEW c \in Call, Alone(c), Writes(call[c].task.on), item.st = "record",
         NEW x \in Column, ~Owed(c, x), item.val.col[x] # Absent
  PROVE  InTable(x, item.val.col[x])
<1>1. ~\E d \in Call : Owed(d, x)
  BY SoleDebtor
<1> QED BY <1>1 DEF Held, SoleInv, ItemSole

-----------------------------------------------------------------------------
(* Frames.                                                                 *)

(* A writing instance at rest holds the record that is cached.             *)
Calm(f) ==
  /\ Writes(f.k.task.on) =>
       /\ f.o.token # 0 => f.o.token = item.cas /\ f.o.record = item.val
       /\ row.has /\ f.o.has => f.o.token # 0
  /\ ~Writes(f.k.task.on) => ~f.o.force

(* What the code may make of a frame.                                      *)
Fine(f, g) ==
  /\ g.k.task = f.k.task /\ g.k.pc # "new"
  /\ FrameSole(g) /\ Asks(g)
  /\ Writes(f.k.task.on) =>
       /\ g.o.token # 0 =>
            g.k.pc \in CasPoints \/ (g.o.token = item.cas /\ g.o.record = item.val)
       /\ row.has /\ g.o.has /\ g.o.token = 0 => g.k.pc \in Storing
  /\ ~Writes(f.k.task.on) => ~g.o.force
  /\ f.k.task.op \in {"update", "insert"} /\ g.k.pc = "resolved" => Acked(f.k.task)

(* What a call resolves with.                                              *)
Acks(c) ==
  /\ call[c].task.op \in {"update", "insert"}
  /\ call[c].pc # "resolved" /\ call'[c].pc = "resolved"
  => Acked(call[c].task)' /\ call'[c].task = call[c].task

Upheld == SoleInv' /\ \A c \in Call : Acks(c)

LEMMA SoleResume ==
  ASSUME Sole, Held, TypeOK', NEW c \in Call, NEW g, Resume(c, g),
         reply' = [reply EXCEPT ![c] = Waiting], Active(c) \/ Startable(c),
         Fine(Frame(c), g),
         item.st = "record" =>
           \A x \in Column : /\ Owed(c, x) <=> Debt(g.k, x)
                             /\ Owed(c, x) => g.k.upd.col[x] = call[c].upd.col[x]
  PROVE  Upheld
<1> DEFINE i == call[c].task.on
<1>1. TypeOK /\ TokenInv /\ Serial /\ ~Overlap /\ SoleInv
  BY DEF Held, DerivedInv, TokenInv, Sole
<1>2. /\ call' = [call EXCEPT ![c] = g.k] /\ inst' = [inst EXCEPT ![i] = g.o]
      /\ g.k.task = call[c].task /\ g.k.pc # "new" /\ UNCHANGED <<item, row, extra>>
  BY DEF Resume, Fine, Frame
<1>3. i \in Instance /\ g.k \in CallType
  <2>1. call'[c] = g.k /\ call[c] \in CallType /\ call'[c] \in CallType
    BY <1>1, <1>2 DEF TypeOK
  <2> QED BY <2>1 DEF CallType, TaskType
<1> HIDE DEF i
<1>4. Alone(c)
  BY <1>1, <1>2, <1>3, SerialContinues, SerialStarts, AloneFacts
<1>5. /\ call'[c] = g.k /\ inst'[i] = g.o /\ reply'[c] = Waiting
      /\ \A d \in Call : d # c => call'[d] = call[d] /\ reply'[d] = reply[d]
      /\ \A d \in Call : call'[d].task = call[d].task
      /\ \A j \in Instance : j # i => inst'[j] = inst[j]
  BY <1>1, <1>2, <1>3 DEF TypeOK
<1>6. \A x, v : InTable(x, v)' <=> InTable(x, v)
  BY <1>2 DEF InTable, ExtraView
<1>7. /\ \A u : BaseWritten(u)' <=> BaseWritten(u)
      /\ \A u : ExtraWritten(u)' <=> ExtraWritten(u)
      /\ \A t : Acked(t)' <=> Acked(t)
      /\ \A p, j : Selection(p, j)' <=> Selection(p, j)
  BY <1>2 DEF BaseWritten, ExtraWritten, InTable, Acked, Holds, ExtraView, Selection, SameBase
<1>8. ASSUME NEW j \in Instance PROVE InstanceSole(j)'
  <2>1. CASE j = i
    <3>1. g.k.pc \in CasPoints => Busy(j)'
      BY <1>2, <1>5, <2>1 DEF Busy, i
    <3> QED BY <1>2, <1>5, <2>1, <3>1 DEF InstanceSole, Fine, Frame, i
  <2>2. CASE j # i
    <3>1. inst'[j] = inst[j] /\ \A d \in Call : call[d].task.on = j => call'[d] = call[d]
      BY <1>5, <2>2 DEF i
    <3>2. Busy(j) => Busy(j)'
      BY <3>1 DEF Busy
    <3> QED BY <1>1, <1>2, <3>1, <3>2 DEF SoleInv, InstanceSole
  <2> QED BY <2>1, <2>2
<1>9. ASSUME NEW d \in Call PROVE CallSole(d)'
  <2>1. call'[d].task \in Task[d]
    BY <1>1, <1>5 DEF SoleInv, CallSole
  <2>2. CASE d = c
    <3>1. Frame(c)'.k = g.k /\ Frame(c)'.o = g.o
      BY <1>2, <1>5 DEF Frame, i
    <3>2. FrameSole(g)' /\ Asks(g)'
      BY <1>2, <1>6, <1>7 DEF Fine, FrameSole, Asks, ExtraView, Puts
    <3>3. FrameSole(Frame(c))' /\ Asks(Frame(c))'
      BY <3>1, <3>2 DEF FrameSole, Asks
    <3> QED BY <1>5, <2>1, <2>2, <3>3 DEF CallSole
  <2>3. CASE d # c
    <3>1. call'[d] = call[d] /\ reply'[d] = reply[d] /\ CallSole(d)
      BY <1>1, <1>5, <2>3 DEF SoleInv
    <3>2. /\ Frame(d).k = call[d] /\ Frame(d)'.k = call[d] /\ call[d].task.on \in Instance
          /\ Frame(d).o = inst[call[d].task.on]
      BY <1>1, <3>1 DEF Frame, TypeOK, CallType, TaskType
    <3>3. ReplySole(d)' <=> ReplySole(d)
      BY <1>2, <1>6, <1>7, <3>1 DEF ReplySole
    <3>4. Asks(Frame(d))' <=> Asks(Frame(d))
      BY <1>2, <3>1, <3>2 DEF Asks, Puts
    <3>5. Frame(d)'.o = Frame(d).o \/ ~Active(d)
      BY <1>4, <1>5, <2>3, <3>1, <3>2 DEF Alone, Frame, i
    <3>6. FrameSole(Frame(d))
      BY <3>1 DEF CallSole
    <3>7. FrameSole(Frame(d))'
      <4>1. CASE Frame(d)'.o = Frame(d).o
        BY <1>2, <1>6, <1>7, <3>1, <3>2, <3>6, <4>1 DEF FrameSole, ExtraView
      <4>2. CASE ~Active(d)
        <5>1. call[d].pc \in {"new", "resolved", "rejected"}
          BY <4>2 DEF Active, Settled
        <5> QED BY <3>1, <3>2, <5>1 DEF FrameSole, CasPoints, Writing
      <4> QED BY <3>5, <4>1, <4>2
    <3> QED BY <2>1, <3>1, <3>3, <3>4, <3>7 DEF CallSole
  <2> QED BY <2>2, <2>3
<1>10. ItemSole'
  <2>1. Made => Made'
    BY <1>5, <1>4 DEF Made, Startable, Active, Settled
  <2>2. ASSUME item.st = "record"
        PROVE  \A d \in Call : \A x \in Column :
                 /\ Owed(d, x)' <=> Owed(d, x)
                 /\ Owed(d, x) => call'[d].upd.col[x] = call[d].upd.col[x]
    <3> SUFFICES ASSUME NEW d \in Call, NEW x \in Column
                 PROVE  /\ Owed(d, x)' <=> Owed(d, x)
                        /\ Owed(d, x) => call'[d].upd.col[x] = call[d].upd.col[x]
      OBVIOUS
    <3>1. CASE d = c
      <4>1. Owed(c, x)' <=> Debt(g.k, x)
        BY <1>5 DEF Owed, Debt
      <4> QED BY <1>5, <2>2, <3>1, <4>1
    <3>2. CASE d # c
      BY <1>5, <3>2 DEF Owed, Debt
    <3> QED BY <3>1, <3>2
  <2>3. ItemSole
    BY <1>1 DEF SoleInv
  <2> QED BY <1>2, <1>6, <2>1, <2>2, <2>3 DEF ItemSole, NoExtra
<1>11. \A d \in Call : Acks(d)
  <2>1. ASSUME call[c].task.op \in {"update", "insert"}, call'[c].pc = "resolved"
        PROVE  Acked(call[c].task)'
    <3>1. Frame(c).k = call[c] /\ g.k.pc = "resolved" /\ call'[c].task = call[c].task
      BY <1>5, <2>1 DEF Frame, Fine
    <3>2. Acked(call[c].task)
      BY <2>1, <3>1 DEF Fine
    <3>3. Acked(call[c].task)' <=> Acked(call[c].task)
      BY <1>2, <3>1 DEF Acked, Holds, ExtraView
    <3> QED BY <3>2, <3>3
  <2>2. Acks(c)
    BY <1>5, <2>1 DEF Acks
  <2> QED BY <1>5, <2>2 DEF Acks
<1> QED BY <1>8, <1>9, <1>10, <1>11 DEF Upheld, SoleInv

LEMMA CandidateColumns ==
  ASSUME NEW p \in Payload, NEW u \in Payload, u.id = "none"
  PROVE  /\ ApplyUpdate(p, u).id = p.id
         /\ \A x \in Column :
              IF u.col[x] = Absent THEN ApplyUpdate(p, u).col[x] = p.col[x]
              ELSE ApplyUpdate(p, u).col[x] \in {Absent, u.col[x]}
<1>1. ApplyUpdate(p, u).id = p.id
  BY KeyKept
<1>2. ASSUME NEW x \in Column
      PROVE  IF u.col[x] = Absent THEN ApplyUpdate(p, u).col[x] = p.col[x]
             ELSE ApplyUpdate(p, u).col[x] \in {Absent, u.col[x]}
  <2>1. x \in Field /\ x \notin Dependents(u)
    BY FieldAssumption DEF Field, Dependents, Column
  <2>2. ApplyUpdate(p, u).col[x] = IF u.col[x] = Null THEN Absent
                                   ELSE IF u.col[x] = Absent THEN p.col[x] ELSE u.col[x]
    BY <2>1 DEF ApplyUpdate, MergeRecord
  <2> QED BY <2>2, CellAssumption
<1> QED BY <1>1, <1>2

(* A CAS on the record that is cached.                                     *)
LEMMA CandidateFine ==
  ASSUME NEW f \in FrameType, f.k.task.op \in {"update", "readExtra"}, Writes(f.k.task.on),
         f.k.upd.id = "none",
         item \in Item, item.val.id = "own", f.o.token = item.cas, f.o.token # 0,
         NEW record \in Payload, record.id = "own",
         \A x \in Column : f.k.upd.col[x] = Absent => record.col[x] = item.val.col[x],
         f.k.task.op = "update" =>
           /\ Within(f.k.upd, f.k.task.arg)
           /\ \A x \in Touched(f.k.task.arg) \ Touched(f.k.upd) : InTable(x, f.k.task.arg.col[x]),
         f.k.task.op = "readExtra" =>
           /\ OnlyExtra(f.k.upd)
           /\ \A x \in ExtraField : f.k.upd.col[x] \in {Absent, ExtraView[x]},
         NEW g, Candidate(f, g, record, f.o.token, 1)
  PROVE  Fine(f, g) /\ g.k.pc = "cas" /\ g.k.upd = f.k.upd
<1>1. /\ g.k.task = f.k.task /\ g.k.upd = f.k.upd /\ g.k.pc = "cas"
      /\ g.k.val = ApplyUpdate(record, f.k.upd) /\ g.k.tok = f.o.token
      /\ g.o.token = f.o.token /\ g.o.has = f.o.has
  BY DEF Candidate, Kept, FrameType, InstanceType
<1>2. f.k.upd \in Payload
  BY DEF FrameType, CallType
<1>3. g.k.val.id = "own" /\ Puts(g.k.val, item.val, g.k.upd)
  BY <1>1, <1>2, CandidateColumns DEF Puts
<1>4. Asks(g)
  BY <1>1, <1>3 DEF Asks
<1>5. FrameSole(g)
  BY <1>1 DEF FrameSole, CasPoints, Writing
<1> QED BY <1>1, <1>4, <1>5 DEF Fine, CasPoints

(* A step that leaves the instance at rest.                                *)
LEMMA RestFine ==
  ASSUME NEW f, Calm(f), NEW g, g.o = f.o, g.k.task = f.k.task,
         g.k.pc \notin CasPoints \cup {"new"}, FrameSole(g), Asks(g),
         f.k.task.op \in {"update", "insert"} /\ g.k.pc = "resolved" => Acked(f.k.task)
  PROVE  Fine(f, g)
BY DEF Calm, Fine

(* The end of a method that leaves the instance at rest.                   *)
LEMMA EndFine ==
  ASSUME NEW f \in FrameType, Calm(f)
  PROVE  /\ Fine(f, Reject(f)) /\ \A x : ~Debt(Reject(f).k, x) /\ ~Debt(Resolve(f).k, x)
         /\ (f.k.task.op \in {"update", "insert"} => Acked(f.k.task)) => Fine(f, Resolve(f))
<1>1. /\ Resolve(f).o = f.o /\ Resolve(f).k.task = f.k.task /\ Resolve(f).k.pc = "resolved"
      /\ Reject(f).o = f.o /\ Reject(f).k.task = f.k.task /\ Reject(f).k.pc = "rejected"
  BY SettleFacts DEF Kept
<1>2. FrameSole(Resolve(f)) /\ FrameSole(Reject(f)) /\ Asks(Resolve(f)) /\ Asks(Reject(f))
  BY <1>1 DEF FrameSole, Asks, CasPoints, Writing
<1>3. Fine(f, Reject(f))
  BY <1>1, <1>2, RestFine DEF CasPoints
<1>4. ASSUME f.k.task.op \in {"update", "insert"} => Acked(f.k.task)
      PROVE  Fine(f, Resolve(f))
  BY <1>1, <1>2, <1>4, RestFine DEF CasPoints
<1> QED BY <1>1, <1>3, <1>4 DEF Debt

-----------------------------------------------------------------------------
(* The part of a method that runs once its record is loaded.               *)

(* Nothing is owed to the tables.                                          *)
Paid ==
  item.st = "record" =>
    \A x \in Column : item.val.col[x] = Absent \/ InTable(x, item.val.col[x])

Ready(f) ==
  /\ f \in FrameType /\ f.k.task.op \notin {"delete", "unCache"} /\ Calm(f)
  /\ \E c \in Call : f.k.task \in Task[c]
  /\ f.o.token # 0 => item.st = "record"
  /\ Writes(f.k.task.on) => Paid /\ (row.has => f.o.has)
  /\ f.k.task.op = "insert" => row.has /\ BaseWritten(f.k.task.arg)

(* No UPDATE of a row that is there follows without a CAS.                 *)
Begun(f, g) == Fine(f, g) /\ (item.st = "record" => \A x : ~Debt(g.k, x))

(* With no row there is no record to agree with.                           *)
LEMMA RowlessFine ==
  ASSUME NEW f \in FrameType, Calm(f), f.k.task.op \in {"update", "readExtra"},
         Writes(f.k.task.on), ~row.has, item.st # "record",
         NEW g, g.k.task = f.k.task, g.o.token = 0,
         g.k.pc \in {"updateBase", "updateExtra", "resolved", "rejected"},
         g.k.pc = "updateExtra" => Keyed(g.o),
         f.k.task.op = "readExtra" => g.k.pc = "resolved"
  PROVE  Begun(f, g)
<1>1. FrameSole(g) /\ Asks(g)
  BY DEF FrameSole, Asks, CasPoints
<1>2. Acked(f.k.task)
  BY DEF Acked
<1> QED BY <1>1, <1>2 DEF Begun, Fine

(* The columns that sanitiseUpdatePayload drops are in the table.          *)
LEMMA DroppedInTable ==
  ASSUME row.has => item.st = "record" /\ Paid /\ item \in Item,
         NEW u \in Payload, NEW v \in Payload,
         row.has => v = Sanitise(u, item.val), Touched(u) \cap DerivedField = {}
  PROVE  row.has => \A x \in Touched(u) \ Touched(v) : InTable(x, u.col[x])
<1> SUFFICES ASSUME row.has, NEW x \in Touched(u) \ Touched(v)
             PROVE  InTable(x, u.col[x])
  OBVIOUS
<1>1. x \in Column /\ u.col[x] # Absent
  BY DEF Touched, Field, Column
<1>2. item.val.col[x] = u.col[x]
  BY SanitiseLeaves
<1> QED BY <1>1, <1>2 DEF Paid

LEMMA UntouchedHolds ==
  ASSUME NEW u \in Payload, NEW v \in Payload, Within(v, u),
         row.has => \A x \in Touched(u) \ Touched(v) : InTable(x, u.col[x]),
         row.has => BaseWritten(v) /\ ExtraWritten(v),
         \A x \in ExtraField : u.col[x] \notin Literal
  PROVE  row.has => Holds(u)
<1> SUFFICES ASSUME row.has, NEW x \in BaseColumns(u) \cup ExtraColumns(u)
             PROVE  InTable(x, u.col[x])
  BY FieldAssumption DEF Holds, InTable, BaseColumns, ExtraColumns
<1>1. x \in Touched(u) /\ x \in Field /\ u.col[x] # Absent
  BY DEF BaseColumns, ExtraColumns, Touched
<1>2. CASE x \in Touched(v)
  <2>1. x \in BaseColumns(v) \cup ExtraColumns(v) /\ v.col[x] = u.col[x]
    BY <1>1, <1>2 DEF BaseColumns, ExtraColumns, Touched, Within
  <2> QED BY <2>1 DEF BaseWritten, ExtraWritten
<1>3. CASE x \notin Touched(v)
  BY <1>1, <1>3
<1> QED BY <1>2, <1>3

LEMMA UpdateBegins ==
  ASSUME Sole, Held, NEW f, Ready(f), f.k.task.op = "update"
  PROVE  Begun(f, Body(f))
<1> DEFINE arg == f.k.task.arg
           i == f.k.task.on
           u == IF f.o.has THEN Sanitise(arg, f.o.record) ELSE arg
           h == [f EXCEPT !.k.upd = u]
           m == Merge(h, u)
<1>1. /\ f \in FrameType /\ arg \in Payload /\ f.o.record \in Payload /\ item \in Item
      /\ f.o.has \in BOOLEAN /\ CacheEnabled /\ ItemSole
  BY DEF Ready, FrameType, CallType, TaskType, InstanceType, Held, DerivedInv, TypeOK, Sole,
         SoleInv
<1>2. PICK c \in Call : f.k.task \in Task[c]
  BY DEF Ready
<1>3. Writes(i)
  BY <1>2, ReadersLoad
<1>4. Touched(arg) \cap DerivedField = {} /\ \A x \in ExtraField : arg.col[x] \notin Literal
  BY <1>2, TaskAssumption DEF Sole
<1>5. /\ Paid /\ (row.has => f.o.has)
      /\ f.o.token # 0 => /\ f.o.token = item.cas /\ f.o.record = item.val
                          /\ item.st = "record" /\ row.has /\ item.val.id = "own"
      /\ row.has => f.o.token # 0
  BY <1>1, <1>3 DEF Ready, Calm, ItemSole
<1>6. u \in Payload /\ Within(u, arg) /\ u.id = "none"
  <2>1. arg.id = "none"
    BY <1>2, TaskAssumption
  <2> QED BY <1>1, <2>1, SanitiseType, SanitiseWithin, KeyKept
<1>7. row.has => u = Sanitise(arg, item.val)
  BY <1>5
<1>8. Body(f) = IF Touched(u) = {} THEN Resolve(f) ELSE UpdateCache(h)
  BY DEF Body, Update
<1>9. h \in FrameType /\ h.o = f.o /\ h.k.task = f.k.task /\ h.k.upd = u
  BY <1>1, <1>6 DEF FrameType, CallType
<1> HIDE DEF u
<1>10. row.has => \A x \in Touched(arg) \ Touched(u) : InTable(x, arg.col[x])
  BY <1>1, <1>4, <1>5, <1>6, <1>7, DroppedInTable
<1> HIDE DEF h
<1>11. CASE Touched(u) = {}
  <2>1. BaseWritten(u) /\ ExtraWritten(u)
    BY <1>11 DEF BaseWritten, ExtraWritten, BaseColumns, ExtraColumns
  <2>2. Acked(f.k.task)
    BY <1>1, <1>4, <1>6, <1>10, <2>1, UntouchedHolds DEF Acked
  <2>3. Calm(f)
    BY DEF Ready
  <2> QED BY <1>1, <1>8, <1>11, <2>2, <2>3, EndFine DEF Begun
<1>12. CASE Touched(u) # {} /\ f.o.token # 0
  <2> DEFINE g == UpdateCache(h)
  <2>1. Candidate(h, g, h.o.record, h.o.token, 1)
    BY <1>1, <1>9, <1>12, UpdateCacheFacts DEF Updated
  <2> HIDE DEF g
  <2>2. /\ h.k.task.op = "update" /\ Writes(h.k.task.on) /\ h.o.token = item.cas
        /\ h.o.token # 0 /\ item.val.id = "own" /\ h.o.record = item.val /\ h.o.record \in Payload
        /\ h.o.record.id = "own" /\ h.k.upd.id = "none" /\ Within(h.k.upd, h.k.task.arg)
        /\ \A x \in Touched(h.k.task.arg) \ Touched(h.k.upd) : InTable(x, h.k.task.arg.col[x])
    BY <1>1, <1>3, <1>5, <1>6, <1>9, <1>10, <1>12
  <2>3. Fine(h, g) /\ g.k.pc = "cas"
    BY <1>1, <1>9, <2>1, <2>2, CandidateFine
  <2>4. Fine(f, g)
    BY <1>9, <2>3 DEF Fine
  <2>5. \A x : ~Debt(g.k, x)
    BY <2>3 DEF Debt
  <2> QED BY <1>8, <1>12, <2>4, <2>5 DEF Begun, g
<1>13. CASE Touched(u) # {} /\ f.o.token = 0
  <2>1. m \in FrameType /\ m.k = h.k /\ m.o.token = 0
    <3>1. /\ m \in FrameType /\ m.k = h.k
          /\ m.o = [h.o EXCEPT !.has = TRUE, !.record = MergeRecord(h.o.record, u),
                               !.view = ApplyRecordToInstance(h.o.view, u)]
      BY <1>6, <1>9, MergeFacts
    <3> HIDE DEF m
    <3> QED BY <1>9, <1>13, <3>1 DEF FrameType, InstanceType
  <2> DEFINE g == UpdateCache(h)
  <2>2. Persisted(m, g) /\ g = AfterUpdateCache(m)
    BY <1>9, <1>13, UpdateCacheFacts DEF Updated, UpdateCache
  <2> HIDE DEF m, g
  <2>3. /\ g.k.task = f.k.task /\ g.o.token = 0
        /\ g.k.pc \in {"updateBase", "updateExtra", "resolved", "rejected"}
        /\ g.k.pc = "updateExtra" => Keyed(g.o)
    BY <1>9, <2>1, <2>2, StatementKeyed DEF Persisted, Kept
  <2>4. ~row.has /\ item.st # "record" /\ Calm(f)
    BY <1>1, <1>5, <1>13 DEF ItemSole, Ready
  <2>5. Begun(f, g)
    BY <1>1, <1>3, <2>3, <2>4, RowlessFine
  <2> QED BY <1>8, <1>13, <2>5 DEF g
<1> QED BY <1>11, <1>12, <1>13

LEMMA InsertBegins ==
  ASSUME NEW f, Ready(f), f.k.task.op = "insert"
  PROVE  Begun(f, InsertExtraRow(f))
<1> DEFINE arg == f.k.task.arg
<1>1. f \in FrameType /\ Calm(f) /\ row.has /\ BaseWritten(arg)
  BY DEF Ready
<1>2. CASE ExtraColumns(arg) = {}
  <2>1. Acked(f.k.task)
    <3>1. \A x \in BaseColumns(arg) : arg.col[x] \in Literal \cup {row.col[x]}
      BY <1>1 DEF BaseWritten, InTable, BaseColumns
    <3> QED BY <1>1, <1>2, <3>1 DEF Acked, Holds
  <2>2. Begun(f, Resolve(f)) /\ Begun(f, Reject(f))
    BY <1>1, <2>1, EndFine DEF Begun
  <2> QED BY <1>2, <2>2 DEF InsertExtraRow, Fire
<1>3. CASE ExtraColumns(arg) # {}
  <2>1. Begun(f, Reject(f))
    BY <1>1, EndFine DEF Begun
  <2>2. Keyed(f.o) => Begun(f, Go(f, "insertExtra"))
    <3> DEFINE g == Go(f, "insertExtra")
    <3>1. g.o = f.o /\ g.k.task = f.k.task /\ g.k.pc = "insertExtra"
      BY <1>1, GoFacts DEF Kept
    <3> HIDE DEF g
    <3>2. (Keyed(f.o) => FrameSole(g)) /\ Asks(g)
      BY <1>1, <3>1 DEF FrameSole, Asks, CasPoints, Writing
    <3>3. Keyed(f.o) => Fine(f, g)
      BY <1>1, <3>1, <3>2, RestFine DEF CasPoints
    <3> QED BY <3>1, <3>3 DEF Begun, Debt, g
  <2> QED BY <1>3, <2>1, <2>2 DEF InsertExtraRow
<1> QED BY <1>2, <1>3

LEMMA ReadExtraBegins ==
  ASSUME NEW f, Ready(f), f.k.task.op = "readExtra"
  PROVE  Begun(f, ReadExtraData(f))
<1>1. f \in FrameType /\ Calm(f)
  BY DEF Ready
<1>2. Begun(f, Resolve(f))
  BY <1>1, EndFine DEF Begun
<1>3. f.o.has => Begun(f, Go(f, "selectExtra"))
  <2> DEFINE g == Go(f, "selectExtra")
  <2>1. g.o = f.o /\ g.k.task = f.k.task /\ g.k.pc = "selectExtra"
    BY <1>1, GoFacts DEF Kept
  <2> HIDE DEF g
  <2>2. Asks(g) /\ (f.o.has => FrameSole(g))
    BY <1>1, <2>1 DEF FrameSole, Asks, CasPoints, Writing
  <2>3. f.o.has => Fine(f, g)
    BY <1>1, <2>1, <2>2, RestFine DEF CasPoints
  <2> QED BY <2>1, <2>3 DEF Begun, Debt, g
<1> QED BY <1>2, <1>3 DEF ReadExtraData

LEMMA BodyBegins ==
  ASSUME Sole, Held, NEW f, Ready(f)
  PROVE  Begun(f, Body(f))
<1>1. f \in FrameType /\ Calm(f) /\ f.k.task.op \in Op \ {"delete", "unCache"}
  BY DEF Ready, FrameType, CallType, TaskType
<1>2. CASE f.k.task.op = "load"
  <2>1. Begun(f, Resolve(f))
    BY <1>1, <1>2, EndFine DEF Begun
  <2> QED BY <1>2, <2>1 DEF Body
<1>3. CASE f.k.task.op = "insert"
  BY <1>3, InsertBegins DEF Body
<1>4. CASE f.k.task.op = "update"
  BY <1>4, UpdateBegins
<1>5. CASE f.k.task.op = "readExtra"
  BY <1>5, ReadExtraBegins DEF Body
<1> QED BY <1>1, <1>2, <1>3, <1>4, <1>5 DEF Op

-----------------------------------------------------------------------------
(* Steps of calls.                                                         *)

(* What a call finds when its answer has come.                             *)
LEMMA SoleAnswer ==
  ASSUME Sole, Held, NEW c \in Call, NEW pc \in CachePoints \cup DbPoints, Answered(c, pc)
  PROVE  /\ Frame(c) \in FrameType /\ Frame(c).k = call[c] /\ call[c].pc = pc
         /\ call[c].task \in Task[c] /\ call[c].task.op \notin {"delete", "unCache"}
         /\ Active(c) /\ Alone(c) /\ FrameFit(Frame(c)) /\ FrameSole(Frame(c)) /\ ReplySole(c)
         /\ CacheEnabled /\ ItemFit /\ ItemSole /\ ReplyFit(c)
         /\ item \in Item /\ item.st # "deleted"
         /\ reply[c] \in Reply /\ reply[c] # Waiting /\ reply' = [reply EXCEPT ![c] = Waiting]
         /\ pc \notin CasPoints \cup Storing => Calm(Frame(c))
         /\ ~Writes(call[c].task.on) => ~Frame(c).o.force
         /\ Writes(call[c].task.on) /\ pc \notin Storing =>
              (row.has /\ Frame(c).o.has => Frame(c).o.token # 0)
         /\ Frame(c).o.token # 0 => Frame(c).o.has
         /\ Frame(c).o.token # 0 \/ pc \in CasPoints => item.st = "record"
         /\ ~Overlap
<1> DEFINE f == Frame(c)
           i == call[c].task.on
<1>1. /\ TypeOK /\ SoleInv /\ Serial /\ ~Overlap /\ CacheEnabled /\ ItemSole /\ ViewInv
      /\ item \in Item
  BY DEF Held, DerivedInv, TypeOK, TokenInv, Sole, SoleInv
<1>2. /\ f \in FrameType /\ f.k = call[c] /\ call[c].pc = pc /\ Active(c) /\ FrameFit(f)
      /\ ReplyFit(c) /\ ItemFit /\ reply[c] \in Reply /\ reply[c] # Waiting
      /\ reply' = [reply EXCEPT ![c] = Waiting]
  BY AnswerFit DEF Held, FrameGood, FrameOK
<1>3. Alone(c)
  BY <1>1, <1>2, AloneFacts
<1>4. i \in Instance /\ f.o = inst[i] /\ InstanceSole(i) /\ Recorded(inst[i].token, "new")
  BY <1>1 DEF TypeOK, CallType, TaskType, Frame, SoleInv, ViewInv
<1>5. call[c].task \in Task[c] /\ FrameSole(f) /\ ReplySole(c)
  BY <1>1, <1>2 DEF SoleInv, CallSole
<1>6. call[c].task.op \notin {"delete", "unCache"} /\ item.st # "deleted" /\ Recorded(0, pc)
  BY <1>1, <1>2 DEF ViewInv
<1>7. pc \notin CasPoints => ~Busy(i)
  BY <1>2, <1>3 DEF Alone, Busy, Active, Settled, CasPoints
<1>8. pc \notin Storing => ~\E d \in Call : call[d].task.on = i /\ call[d].pc \in Storing
  BY <1>2, <1>3 DEF Alone, Active, Settled, Storing
<1>9. pc \notin CasPoints \cup Storing => Calm(f)
  BY <1>2, <1>4, <1>7, <1>8 DEF Calm, InstanceSole
<1>10. Writes(i) /\ pc \notin Storing => (row.has /\ f.o.has => f.o.token # 0)
  BY <1>4, <1>8 DEF InstanceSole
<1>11. f.o.token # 0 => f.o.has
  BY <1>1, <1>4 DEF Held, TokenInv, InstanceFit
<1> QED BY <1>1, <1>2, <1>3, <1>4, <1>5, <1>6, <1>9, <1>10, <1>11 DEF InstanceSole, Recorded

(* Where nothing has been published yet.                                   *)
LEMMA PaidBefore ==
  ASSUME Sole, Held, NEW c \in Call, Alone(c), Writes(call[c].task.on),
         call[c].pc \notin CasPoints \cup Writing
  PROVE  Paid
<1> SUFFICES ASSUME item.st = "record", NEW x \in Column, item.val.col[x] # Absent
             PROVE  InTable(x, item.val.col[x])
  BY DEF Paid
<1>1. ~Owed(c, x)
  BY DEF Owed, Debt, CasPoints, Writing
<1> QED BY <1>1, SettledColumns

(* The resumption of a call that has published nothing.                    *)
LEMMA BeginResume ==
  ASSUME Sole, Held, TypeOK', NEW c \in Call, NEW g, Resume(c, g),
         reply' = [reply EXCEPT ![c] = Waiting], Active(c) \/ Startable(c),
         Begun(Frame(c), g), call[c].pc \notin CasPoints \cup Writing
  PROVE  Upheld
<1>1. \A x : ~Owed(c, x)
  BY DEF Owed, Debt, CasPoints, Writing
<1> QED BY <1>1, SoleResume DEF Begun

LEMMA AdoptReady ==
  ASSUME Sole, Held, NEW c \in Call, NEW pc \in {"cached", "fresh"}, Answered(c, pc),
         Usable(reply[c]), NEW b \in BOOLEAN
  PROVE  /\ Ready([Adopt(Frame(c), reply[c]) EXCEPT !.o.inCache = b])
         /\ [Adopt(Frame(c), reply[c]) EXCEPT !.o.inCache = b].k = Frame(c).k
<1> DEFINE f == Frame(c)
           r == reply[c]
           a == Adopt(f, r)
           h == [a EXCEPT !.o.inCache = b]
<1>1. pc \in CachePoints /\ pc \in GetsPoints /\ pc \notin CasPoints \cup Writing
  BY DEF CachePoints, GetsPoints, CasPoints, Writing
<1>2. /\ f \in FrameType /\ f.k = call[c] /\ call[c].pc = pc /\ call[c].task \in Task[c]
      /\ call[c].task.op \notin {"delete", "unCache"} /\ Active(c) /\ Alone(c)
      /\ FrameSole(f) /\ ReplySole(c) /\ ReplyFit(c) /\ r \in Reply
      /\ (~Writes(call[c].task.on) => ~f.o.force)
  BY <1>1, SoleAnswer
<1>3. r.cas # 0 /\ item.st = "record" /\ r.st = "record"
      /\ (Writes(call[c].task.on) => r = item)
  <2>1. r.st = "record"
    BY DEF Usable
  <2>2. item.st = "record"
    BY <1>1, <1>2, <2>1 DEF Held, ViewInv
  <2> QED BY <1>1, <1>2, <2>1, <2>2 DEF ReplyFit, ReplySole
<1>4. Writes(call[c].task.on) => Paid
  BY <1>1, <1>2, PaidBefore
<1>5. call[c].task.op = "insert" => row.has /\ BaseWritten(call[c].task.arg)
  BY <1>2 DEF FrameSole
<1> HIDE DEF f, r
<1>6. /\ a \in FrameType /\ a.k = f.k /\ a.o.token = r.cas
      /\ a.o.has /\ a.o.record = r.val /\ a.o.force = f.o.force
  BY <1>2, AdoptShows DEF Adopt, SetRecord, FrameType, InstanceType
<1> HIDE DEF a
<1>7. /\ h \in FrameType /\ h.k = f.k /\ h.o.token = r.cas /\ h.o.has /\ h.o.record = r.val
      /\ h.o.force = f.o.force
  BY <1>6 DEF FrameType, InstanceType
<1> HIDE DEF h
<1>8. Calm(h)
  BY <1>2, <1>3, <1>7 DEF Calm
<1>9. Ready(h)
  BY <1>2, <1>3, <1>4, <1>5, <1>7, <1>8 DEF Ready
<1> QED BY <1>7, <1>9 DEF h, a, f, r

(* The instance has no record yet that it could be asked to keep.          *)
LEMMA LoadingReady ==
  ASSUME Sole, Held, NEW c \in Call, NEW pc \in {"cached", "select"}, Answered(c, pc),
         Writes(call[c].task.on) => ~row.has, call[c].task.op = "insert" => row.has
  PROVE  Ready(Frame(c))
<1>1. pc \in CachePoints \cup DbPoints /\ pc \notin CasPoints \cup Writing \cup Storing
  BY DEF CachePoints, DbPoints, GetsPoints, CasPoints, Writing, Storing
<1>2. /\ Frame(c) \in FrameType /\ Frame(c).k = call[c] /\ call[c].pc = pc
      /\ call[c].task \in Task[c]
      /\ call[c].task.op \notin {"delete", "unCache"} /\ Active(c) /\ Alone(c)
      /\ FrameSole(Frame(c)) /\ FrameFit(Frame(c)) /\ Calm(Frame(c)) /\ ~Overlap
  BY <1>1, SoleAnswer
<1>3. Frame(c).o.token = 0
  BY <1>2 DEF FrameFit, Loading
<1>4. Writes(call[c].task.on) => Paid
  BY <1>1, <1>2, PaidBefore
<1>5. call[c].task.op = "insert" => row.has /\ BaseWritten(call[c].task.arg)
  BY <1>2 DEF FrameSole
<1> QED BY <1>2, <1>3, <1>4, <1>5 DEF Ready

LEMMA CachedSole ==
  ASSUME Sole, Held, TypeOK', NEW c \in Call, Cached(c)
  PROVE  Upheld
<1> DEFINE f == Frame(c)
           r == reply[c]
           h == [Adopt(f, r) EXCEPT !.o.inCache = TRUE]
<1>1. Answered(c, "cached") /\ "cached" \in CachePoints /\ "cached" \notin CasPoints \cup Storing
      /\ "cached" \notin Writing
  BY DEF Cached, CachePoints, GetsPoints, CasPoints, Storing, Writing
<1>2. /\ f \in FrameType /\ f.k = call[c] /\ call[c].pc = "cached" /\ Active(c)
      /\ reply' = [reply EXCEPT ![c] = Waiting] /\ FrameSole(f) /\ FrameFit(f) /\ Calm(f)
      /\ call[c].task \in Task[c] /\ ~Overlap
  BY <1>1, SoleAnswer
<1>3. f.o.token = 0
  BY <1>2 DEF FrameFit, Loading
<1>4. Usable(r) => Begun(f, Body(h))
  <2>1. Usable(r) => Ready(h) /\ h.k = f.k
    BY <1>1, AdoptReady
  <2> HIDE DEF h
  <2>2. Usable(r) => Begun(h, Body(h))
    BY <2>1, BodyBegins
  <2> QED BY <2>1, <2>2 DEF Begun, Fine
<1>5. f.o.has => Begun(f, Body(f))
  <2>1. f.o.has => (Writes(call[c].task.on) => ~row.has)
    BY <1>2, <1>3 DEF Calm
  <2>2. call[c].task.op = "insert" => row.has
    BY <1>2 DEF FrameSole
  <2>3. f.o.has => Ready(f)
    BY <1>1, <2>1, <2>2, LoadingReady
  <2> QED BY <2>3, BodyBegins
<1> HIDE DEF f, r, h
<1>6. Begun(f, Go(f, "select"))
  <2> DEFINE g == Go(f, "select")
  <2>1. g.o = f.o /\ g.k.task = f.k.task /\ g.k.pc = "select"
    BY <1>2, GoFacts DEF Kept
  <2> HIDE DEF g
  <2>2. FrameSole(g) /\ Asks(g)
    BY <1>2, <2>1 DEF FrameSole, Asks, CasPoints, Writing
  <2>3. Fine(f, g)
    BY <1>2, <2>1, <2>2, RestFine DEF CasPoints
  <2> QED BY <2>1, <2>3 DEF Begun, Debt, g
<1>7. \E g : Resume(c, g) /\ Begun(f, g)
  BY <1>4, <1>5, <1>6 DEF Cached, f, r, h
<1> QED BY <1>1, <1>2, <1>7, BeginResume DEF f

LEMMA SelectedSole ==
  ASSUME Sole, Held, TypeOK', NEW c \in Call, Selected(c)
  PROVE  Upheld
<1> DEFINE f == Frame(c)
           r == reply[c]
           l == SetRecord(f, r.val)
           g == [l EXCEPT !.k = [@ EXCEPT !.pc = "store", !.val = r.val]]
<1>1. Answered(c, "select") /\ "select" \in DbPoints /\ "select" \notin CasPoints \cup Storing
      /\ "select" \notin Writing
  BY DEF Selected, DbPoints, CasPoints, Storing, Writing
<1>2. /\ f \in FrameType /\ f.k = call[c] /\ call[c].pc = "select" /\ Active(c)
      /\ reply' = [reply EXCEPT ![c] = Waiting] /\ FrameSole(f) /\ FrameFit(f) /\ Calm(f)
      /\ call[c].task \in Task[c] /\ ~Overlap /\ CacheEnabled /\ ReplySole(c) /\ r \in Reply
      /\ r # Waiting
  BY <1>1, SoleAnswer
<1>3. f.o.token = 0 /\ r.st \in {"record", "none"}
  BY <1>2 DEF FrameFit, Loading, ReplySole
<1>4. CASE r.st = "none"
  <2>1. (Writes(call[c].task.on) => ~row.has) /\ (call[c].task.op = "insert" => row.has)
    BY <1>2, <1>4 DEF ReplySole, FrameSole
  <2>2. Ready(f)
    BY <1>1, <2>1, LoadingReady
  <2>3. Begun(f, Body(f))
    BY <2>2, BodyBegins
  <2>4. Resume(c, Body(f))
    BY <1>4 DEF Selected
  <2> QED BY <1>1, <1>2, <2>3, <2>4, BeginResume
<1>5. CASE r.st = "record"
  <2>1. Selection(r.val, call[c].task.on)
    BY <1>2, <1>5 DEF ReplySole
  <2>2. Resume(c, g)
    BY <1>2, <1>5 DEF Selected
  <2> HIDE DEF f, r
  <2>3. l \in FrameType /\ l.k = f.k /\ l.o.token = 0 /\ l.o.force = f.o.force
    BY <1>2, <1>3, SetRecordShows DEF Reply, SetRecord, FrameType, InstanceType
  <2> HIDE DEF l
  <2>4. g.k.task = f.k.task /\ g.k.pc = "store" /\ g.k.val = r.val /\ g.o = l.o
    BY <2>3 DEF FrameType, CallType
  <2> HIDE DEF g
  <2>5. FrameSole(g) /\ Asks(g)
    BY <1>2, <2>1, <2>4 DEF FrameSole, Asks, CasPoints, Writing
  <2>6. Fine(f, g)
    BY <1>2, <2>3, <2>4, <2>5 DEF Fine, Calm, Storing
  <2>7. Begun(f, g)
    BY <2>4, <2>6 DEF Begun, Debt
  <2> QED BY <1>1, <1>2, <2>2, <2>7, BeginResume DEF f
<1> QED BY <1>3, <1>4, <1>5

LEMMA StoredSole ==
  ASSUME Sole, Held, TypeOK', NEW c \in Call, Stored(c)
  PROVE  Upheld
<1> DEFINE e == Frame(c)
           f == [e EXCEPT !.k.val = Blank]
           g == Go(f, "fresh")
<1>1. Answered(c, "store") /\ "store" \in CachePoints /\ "store" \notin CasPoints \cup Writing
  BY DEF Stored, CachePoints, CasPoints, Writing
<1>2. /\ e \in FrameType /\ e.k = call[c] /\ call[c].pc = "store" /\ Active(c)
      /\ reply' = [reply EXCEPT ![c] = Waiting] /\ FrameSole(e) /\ FrameFit(e)
      /\ ~Overlap /\ ReplySole(c) /\ reply[c] # Waiting
      /\ (~Writes(call[c].task.on) => ~e.o.force)
  BY <1>1, SoleAnswer
<1>3. e.o.token = 0 /\ reply[c].st # "err" /\ item.st = "record"
  BY <1>2 DEF FrameFit, Loading, ReplySole
<1>4. Resume(c, g)
  BY <1>3 DEF Stored
<1> HIDE DEF e
<1>5. f \in FrameType /\ f.k.task = e.k.task /\ f.o = e.o
  BY <1>2, BlankType DEF FrameType, CallType
<1> HIDE DEF f
<1>6. g.k.task = e.k.task /\ g.k.pc = "fresh" /\ g.o = e.o
  BY <1>5, GoFacts DEF Kept
<1> HIDE DEF g
<1>7. FrameSole(g) /\ Asks(g)
  BY <1>2, <1>3, <1>6 DEF FrameSole, Asks, CasPoints, Writing
<1>8. Fine(e, g)
  BY <1>2, <1>3, <1>6, <1>7 DEF Fine, Storing
<1>9. Begun(e, g)
  BY <1>6, <1>8 DEF Begun, Debt
<1> QED BY <1>1, <1>2, <1>4, <1>9, BeginResume DEF e

LEMMA FreshSole ==
  ASSUME Sole, Held, TypeOK', NEW c \in Call, Fresh(c)
  PROVE  Upheld
<1> DEFINE f == Frame(c)
           r == reply[c]
           h == [Adopt(f, r) EXCEPT !.o.inCache = FALSE]
<1>1. Answered(c, "fresh") /\ "fresh" \in CachePoints /\ "fresh" \notin CasPoints \cup Writing
  BY DEF Fresh, CachePoints, GetsPoints, CasPoints, Writing
<1>2. /\ f.k = call[c] /\ call[c].pc = "fresh" /\ Active(c) /\ ReplySole(c)
      /\ reply' = [reply EXCEPT ![c] = Waiting] /\ r # Waiting
  BY <1>1, SoleAnswer
<1>3. Usable(r)
  BY <1>2 DEF ReplySole, Usable
<1>4. Ready(h) /\ h.k = f.k
  BY <1>1, <1>3, AdoptReady
<1>5. Resume(c, Body(h))
  BY <1>3 DEF Fresh
<1> HIDE DEF h
<1>6. Begun(h, Body(h))
  BY <1>4, BodyBegins
<1>7. Begun(f, Body(h))
  BY <1>4, <1>6 DEF Begun, Fine
<1> QED BY <1>1, <1>2, <1>5, <1>7, BeginResume

(* An update whose CAS is over, and its statements.                        *)
Obliged(f) ==
  LET u == f.k.upd  arg == f.k.task.arg
  IN  /\ f \in FrameType /\ f.k.task.op = "update" /\ Calm(f) /\ Writes(f.k.task.on)
      /\ \E c \in Call : f.k.task \in Task[c]
      /\ f.o.token # 0 => f.o.has
      /\ item.st = "record" => row.has
      /\ row.has => /\ f.o.token # 0 /\ item.val.id = "own" /\ Within(u, arg)
                    /\ \A x \in Touched(arg) \ Touched(u) : InTable(x, arg.col[x])

LEMMA ForgetObliged ==
  ASSUME NEW f, Obliged(f)
  PROVE  Obliged(Forget(f)) /\ Forget(f).o = f.o /\ Kept(f, Forget(f))
<1> DEFINE g == Forget(f)
<1>1. g \in FrameType /\ g.o = f.o /\ Kept(f, g)
  BY ForgetFacts DEF Obliged
<1> HIDE DEF g
<1>2. g.k.task = f.k.task /\ g.k.upd = f.k.upd
  BY <1>1 DEF Kept
<1>3. Calm(g)
  BY <1>1, <1>2 DEF Obliged, Calm
<1>4. Obliged(g)
  BY <1>1, <1>2, <1>3 DEF Obliged
<1> QED BY <1>1, <1>4 DEF g

(* The way to a statement.                                                 *)
LEMMA StatementFine ==
  ASSUME NEW f, Obliged(f), NEW pc \in Writing,
         pc # "updateBase" => Keyed(f.o),
         pc # "updateBase" /\ row.has => BaseWritten(f.k.upd),
         pc = "insertExtra" /\ row.has => ~extra.has
  PROVE  Fine(f, Go(f, pc)) /\ Go(f, pc).k.upd = f.k.upd /\ Go(f, pc).k.task = f.k.task
         /\ Go(f, pc).k.pc = pc
<1> DEFINE g == Go(f, pc)
<1>1. g.o = f.o /\ g.k.task = f.k.task /\ g.k.upd = f.k.upd /\ g.k.pc = pc
  BY GoFacts DEF Kept, Obliged
<1> HIDE DEF g
<1>2. pc \notin CasPoints \cup {"new", "resolved"} /\ f.k.task.op = "update" /\ Calm(f)
  BY DEF Obliged, Writing, CasPoints
<1>3. Asks(g)
  BY <1>1, <1>2 DEF Asks, CasPoints
<1>4. FrameSole(g)
  BY <1>1, <1>2 DEF FrameSole, Obliged, Writing
<1> QED BY <1>1, <1>2, <1>3, <1>4, RestFine DEF g

LEMMA ObligedHolds ==
  ASSUME Sole, NEW f, Obliged(f), row.has => BaseWritten(f.k.upd) /\ ExtraWritten(f.k.upd)
  PROVE  Acked(f.k.task)
<1>1. f.k.upd \in Payload /\ f.k.task.arg \in Payload
  BY DEF Obliged, FrameType, CallType, TaskType
<1>2. \A x \in ExtraField : f.k.task.arg.col[x] \notin Literal
  BY DEF Obliged, Sole
<1>3. row.has => Holds(f.k.task.arg)
  BY <1>1, <1>2, UntouchedHolds DEF Obliged
<1>4. f.k.task.op = "update"
  BY DEF Obliged
<1> QED BY <1>3, <1>4 DEF Acked

LEMMA PersistExtraFine ==
  ASSUME Sole, NEW f, Obliged(f), row.has => BaseWritten(f.k.upd)
  PROVE  /\ Fine(f, PersistExtra(f)) /\ PersistExtra(f).k.upd = f.k.upd
         /\ item.st = "record" =>
              \A x \in Column :
                Debt(PersistExtra(f).k, x) <=> x \in ExtraField /\ f.k.upd.col[x] # Absent
<1> DEFINE u == f.k.upd
<1>1. f \in FrameType /\ Calm(f) /\ f.k.task.op = "update"
  BY DEF Obliged
<1>2. /\ Fine(f, Reject(f)) /\ Reject(f).k.upd = u /\ Resolve(f).k.upd = u
      /\ \A x : ~Debt(Reject(f).k, x) /\ ~Debt(Resolve(f).k, x)
      /\ Acked(f.k.task) => Fine(f, Resolve(f))
  BY <1>1, EndFine, SettleFacts DEF Kept
<1>3. ExtraColumns(u) = {x \in ExtraField : u.col[x] # Absent}
  BY DEF ExtraColumns, Touched, Field
<1>4. CASE ExtraColumns(u) = {}
  <2>1. ExtraWritten(u)
    BY <1>4 DEF ExtraWritten
  <2>2. Acked(f.k.task)
    BY <2>1, ObligedHolds
  <2>3. PersistExtra(f) \in {Resolve(f), Reject(f)}
    BY <1>4 DEF PersistExtra, Fire
  <2> QED BY <1>2, <1>3, <1>4, <2>2, <2>3
<1>5. CASE ExtraColumns(u) # {} /\ Keyed(f.o)
  <2>1. PersistExtra(f) = Go(f, "updateExtra")
    BY <1>5 DEF PersistExtra
  <2>2. /\ Fine(f, PersistExtra(f)) /\ PersistExtra(f).k.upd = u
        /\ PersistExtra(f).k.task = f.k.task /\ PersistExtra(f).k.pc = "updateExtra"
    BY <1>5, <2>1, StatementFine DEF Writing
  <2> QED BY <1>1, <2>2 DEF Debt
<1>6. CASE ExtraColumns(u) # {} /\ ~Keyed(f.o)
  <2>1. item.st # "record"
    BY <1>6 DEF Obliged, Calm, Keyed
  <2>2. PersistExtra(f) = Reject(f)
    BY <1>6 DEF PersistExtra
  <2> QED BY <1>2, <2>1, <2>2
<1> QED BY <1>4, <1>5, <1>6

LEMMA AfterUpdateFine ==
  ASSUME Sole, NEW f, Obliged(f)
  PROVE  /\ Fine(f, AfterUpdateCache(f)) /\ AfterUpdateCache(f).k.upd = f.k.upd
         /\ item.st = "record" =>
              \A x \in Column : Debt(AfterUpdateCache(f).k, x) <=> f.k.upd.col[x] # Absent
<1> DEFINE g == Forget(f)
<1>1. Obliged(g) /\ g.o = f.o /\ g.k.task = f.k.task /\ g.k.upd = f.k.upd /\ f.k.task.op = "update"
  BY ForgetObliged DEF Kept, Obliged
<1>2. AfterUpdateCache(f) =
        IF BaseColumns(g.k.upd) # {} THEN Go(g, "updateBase") ELSE PersistExtra(g)
  BY <1>1 DEF AfterUpdateCache, PersistUpdate
<1> HIDE DEF g
<1>3. ASSUME NEW e, Fine(g, e) PROVE Fine(f, e)
  BY <1>1, <1>3 DEF Fine
<1>4. CASE BaseColumns(g.k.upd) # {}
  <2>1. /\ Fine(g, Go(g, "updateBase")) /\ Go(g, "updateBase").k.upd = g.k.upd
        /\ Go(g, "updateBase").k.task = g.k.task /\ Go(g, "updateBase").k.pc = "updateBase"
    BY <1>1, StatementFine DEF Writing
  <2> QED BY <1>1, <1>2, <1>3, <1>4, <2>1 DEF Debt
<1>5. CASE BaseColumns(g.k.upd) = {}
  <2>1. BaseWritten(g.k.upd) /\ \A x \in Column : x \notin ExtraField => g.k.upd.col[x] = Absent
    BY <1>5 DEF BaseWritten, BaseColumns, Touched, Column, Field
  <2>2. /\ Fine(g, PersistExtra(g)) /\ PersistExtra(g).k.upd = g.k.upd
        /\ item.st = "record" =>
             \A x \in Column :
               Debt(PersistExtra(g).k, x) <=> x \in ExtraField /\ g.k.upd.col[x] # Absent
    BY <1>1, <2>1, PersistExtraFine
  <2> QED BY <1>1, <1>2, <1>3, <1>5, <2>1, <2>2
<1> QED BY <1>4, <1>5

LEMMA CasAnsweredSole ==
  ASSUME Sole, Held, TypeOK', NEW c \in Call, CasAnswered(c)
  PROVE  Upheld
<1> DEFINE f == Frame(c)
           r == reply[c]
           g == Go(f, "refresh")
<1>1. Answered(c, "cas") /\ "cas" \in CachePoints /\ "cas" \in CasPoints /\ "cas" \notin Storing
  BY DEF CasAnswered, CachePoints, CasPoints, Storing
<1>2. /\ f \in FrameType /\ f.k = call[c] /\ call[c].pc = "cas" /\ Active(c)
      /\ reply' = [reply EXCEPT ![c] = Waiting] /\ FrameSole(f) /\ ReplySole(c) /\ r # Waiting
      /\ call[c].task \in Task[c]
      /\ (Writes(call[c].task.on) /\ row.has /\ f.o.has => f.o.token # 0)
      /\ (~Writes(call[c].task.on) => ~f.o.force)
  BY <1>1, SoleAnswer
<1>3. r = Answer("true") /\ r.st = "true"
  BY <1>2 DEF ReplySole, Answer
<1>4. Resume(c, g)
  BY <1>3 DEF CasAnswered
<1> HIDE DEF f, r
<1>5. g.o = f.o /\ g.k.task = f.k.task /\ g.k.upd = f.k.upd /\ g.k.pc = "refresh"
  BY <1>2, GoFacts DEF Kept
<1> HIDE DEF g
<1>6. FrameSole(g) /\ Asks(g)
  BY <1>2, <1>5 DEF FrameSole, Asks, CasPoints, Writing
<1>7. Fine(f, g)
  BY <1>2, <1>5, <1>6 DEF Fine, CasPoints
<1>8. \A x : Owed(c, x) <=> Debt(g.k, x)
  BY <1>2, <1>3, <1>5 DEF Owed, Debt, r, Waiting, Answer
<1> QED BY <1>2, <1>4, <1>5, <1>7, <1>8, SoleResume DEF f

(* The entry read back is the one cached: nobody else writes.              *)
LEMMA RefreshedSole ==
  ASSUME Sole, Held, TypeOK', NEW c \in Call, Refreshed(c)
  PROVE  Upheld
<1> DEFINE f == Frame(c)
           r == reply[c]
           h == Adopt(f, r)
           g == AfterUpdateCache(h)
<1>1. Answered(c, "refresh") /\ "refresh" \in CachePoints /\ "refresh" \in CasPoints
      /\ "refresh" \in GetsPoints
  BY DEF Refreshed, CachePoints, GetsPoints, CasPoints
<1>2. /\ f \in FrameType /\ f.k = call[c] /\ call[c].pc = "refresh" /\ Active(c)
      /\ reply' = [reply EXCEPT ![c] = Waiting] /\ FrameSole(f) /\ ReplySole(c) /\ ReplyFit(c)
      /\ r # Waiting /\ r \in Reply /\ call[c].task \in Task[c] /\ item.st = "record" /\ ItemSole
  BY <1>1, SoleAnswer
<1>3. Usable(r)
  BY <1>1, <1>2 DEF Held, ViewInv
<1>4. call[c].task.op \in {"update", "readExtra"}
  BY <1>2 DEF FrameSole, CasPoints
<1>5. Writes(call[c].task.on)
  BY <1>2, <1>4, ReadersLoad
<1>6. r = item /\ r.cas # 0
  BY <1>1, <1>2, <1>3, <1>5 DEF ReplySole, ReplyFit, Usable
<1>7. Resume(c, g)
  BY <1>3 DEF Refreshed, Usable
<1>8. \A x : Owed(c, x) <=> call[c].task.op = "update" /\ call[c].upd.col[x] # Absent
  BY <1>2 DEF Owed
<1> HIDE DEF f, r
<1>9. h \in FrameType /\ h.k = f.k /\ h.o.has /\ h.o.token = item.cas /\ h.o.record = item.val
  <2>1. h \in FrameType /\ h.k = f.k /\ h.o.token = item.cas
    BY <1>2, <1>6, AdoptShows
  <2>2. /\ f = [k |-> f.k, o |-> f.o]
        /\ f.o = [record |-> f.o.record, token |-> f.o.token, has |-> f.o.has,
                  force |-> f.o.force, view |-> f.o.view, inCache |-> f.o.inCache]
    BY <1>2 DEF FrameType, InstanceType
  <2>3. h.o.has /\ h.o.record = item.val
    BY <1>6, <2>2 DEF Adopt, SetRecord
  <2> QED BY <2>1, <2>3
<1> HIDE DEF h
<1>10. Calm(h)
  BY <1>2, <1>5, <1>6, <1>9 DEF Calm
<1>11. CASE call[c].task.op = "readExtra"
  <2>1. g = Resolve(h)
    BY <1>2, <1>9, <1>11 DEF AfterUpdateCache
  <2>2. Fine(h, g) /\ \A x : ~Debt(g.k, x)
    BY <1>2, <1>9, <1>10, <1>11, <2>1, EndFine
  <2> HIDE DEF g
  <2>3. Fine(f, g)
    BY <1>9, <2>2 DEF Fine
  <2> QED BY <1>2, <1>7, <1>8, <1>11, <2>2, <2>3, SoleResume DEF f
<1>12. CASE call[c].task.op = "update"
  <2>1. row.has /\ item.val.id = "own"
    BY <1>2 DEF ItemSole
  <2>2. /\ Within(f.k.upd, f.k.task.arg)
        /\ \A x \in Touched(f.k.task.arg) \ Touched(f.k.upd) : InTable(x, f.k.task.arg.col[x])
    BY <1>2, <1>12, <2>1 DEF FrameSole, CasPoints
  <2>3. Obliged(h)
    BY <1>2, <1>5, <1>6, <1>9, <1>10, <1>12, <2>1, <2>2 DEF Obliged
  <2>4. /\ Fine(h, g) /\ g.k.upd = h.k.upd
        /\ \A x \in Column : Debt(g.k, x) <=> h.k.upd.col[x] # Absent
    BY <1>2, <2>3, AfterUpdateFine
  <2> HIDE DEF g
  <2>5. Fine(f, g)
    BY <1>9, <2>4 DEF Fine
  <2> QED BY <1>2, <1>7, <1>8, <1>9, <1>12, <2>4, <2>5, SoleResume DEF f
<1> QED BY <1>4, <1>11, <1>12

LEMMA WritingObliged ==
  ASSUME Sole, Held, NEW c \in Call, NEW pc \in Writing, Answered(c, pc),
         call[c].task.op = "update"
  PROVE  Obliged(Frame(c))
<1>1. pc \in CachePoints \cup DbPoints /\ pc \notin CasPoints \cup Storing
  BY DEF Writing, DbPoints, CasPoints, Storing
<1>2. /\ Frame(c) \in FrameType /\ Frame(c).k = call[c] /\ call[c].pc = pc
      /\ call[c].task \in Task[c] /\ Calm(Frame(c)) /\ FrameSole(Frame(c)) /\ ItemSole
      /\ (Frame(c).o.token # 0 => Frame(c).o.has /\ item.st = "record")
  BY <1>1, SoleAnswer
<1>3. Writes(call[c].task.on)
  BY <1>2, ReadersLoad
<1>4. row.has => /\ Frame(c).o.token # 0
                 /\ Within(call[c].upd, call[c].task.arg)
                 /\ \A x \in Touched(call[c].task.arg) \ Touched(call[c].upd) :
                      InTable(x, call[c].task.arg.col[x])
  BY <1>2 DEF FrameSole
<1>5. row.has => item.val.id = "own"
  BY <1>2, <1>4 DEF ItemSole
<1> QED BY <1>2, <1>3, <1>4, <1>5 DEF Obliged, ItemSole

LEMMA UpdatedBaseSole ==
  ASSUME Sole, Held, TypeOK', NEW c \in Call, UpdatedBase(c)
  PROVE  Upheld
<1> DEFINE f == Frame(c)
           g == PersistExtra(f)
<1>1. Answered(c, "updateBase") /\ "updateBase" \in DbPoints /\ "updateBase" \in Writing
  BY DEF UpdatedBase, DbPoints, Writing
<1>2. /\ f.k = call[c] /\ call[c].pc = "updateBase" /\ Active(c)
      /\ reply' = [reply EXCEPT ![c] = Waiting] /\ FrameSole(f) /\ ReplySole(c)
      /\ reply[c] # Waiting
  BY <1>1, SoleAnswer
<1>3. call[c].task.op = "update" /\ reply[c].st # "err" /\ (row.has => BaseWritten(call[c].upd))
  BY <1>2 DEF FrameSole, ReplySole
<1>4. Obliged(f)
  BY <1>1, <1>3, WritingObliged
<1>5. Resume(c, g)
  BY <1>3 DEF UpdatedBase
<1>6. /\ Fine(f, g) /\ g.k.upd = f.k.upd
      /\ item.st = "record" =>
           \A x \in Column : Debt(g.k, x) <=> x \in ExtraField /\ f.k.upd.col[x] # Absent
  BY <1>2, <1>3, <1>4, PersistExtraFine
<1> HIDE DEF g
<1>7. item.st = "record" => \A x \in Column : Owed(c, x) <=> Debt(g.k, x)
  BY <1>2, <1>3, <1>6 DEF Owed
<1> QED BY <1>2, <1>5, <1>6, <1>7, SoleResume

LEMMA UpdatedExtraSole ==
  ASSUME Sole, Held, TypeOK', NEW c \in Call, UpdatedExtra(c)
  PROVE  Upheld
<1> DEFINE f == Frame(c)
           r == reply[c]
<1>1. Answered(c, "updateExtra") /\ "updateExtra" \in DbPoints /\ "updateExtra" \in Writing
  BY DEF UpdatedExtra, DbPoints, Writing
<1>2. /\ f \in FrameType /\ f.k = call[c] /\ call[c].pc = "updateExtra" /\ Active(c)
      /\ reply' = [reply EXCEPT ![c] = Waiting] /\ FrameSole(f) /\ ReplySole(c) /\ r # Waiting
  BY <1>1, SoleAnswer
<1>3. /\ call[c].task.op = "update" /\ (row.has => BaseWritten(call[c].upd))
      /\ r \in {Answer("true"), Answer("false")}
      /\ row.has => IF r = Answer("true") THEN ExtraWritten(call[c].upd) ELSE ~extra.has
      /\ Keyed(f.o)
  <2>1. call[c].task.op = "update"
    BY <1>2 DEF FrameSole
  <2> QED BY <1>2, <2>1 DEF FrameSole, ReplySole
<1>4. Obliged(f) /\ Calm(f)
  BY <1>1, <1>3, WritingObliged DEF Obliged
<1>5. CASE r = Answer("true")
  <2>1. r.st = "true"
    BY <1>5 DEF Answer
  <2>2. Acked(f.k.task)
    BY <1>2, <1>3, <1>4, <1>5, ObligedHolds
  <2>3. /\ Fine(f, Resolve(f)) /\ Fine(f, Reject(f))
        /\ \A x : ~Debt(Resolve(f).k, x) /\ ~Debt(Reject(f).k, x)
    BY <1>2, <1>4, <2>2, EndFine
  <2>4. \A x : ~Owed(c, x)
    BY <1>2, <1>5 DEF Owed
  <2>5. \E g : Resume(c, g) /\ Fine(f, g) /\ \A x : ~Debt(g.k, x)
    BY <2>1, <2>3 DEF UpdatedExtra, Fire
  <2> QED BY <1>2, <2>4, <2>5, SoleResume
<1>6. CASE r = Answer("false")
  <2> DEFINE g == Go(f, "insertExtra")
  <2>1. r.st = "false" /\ r # Answer("true")
    BY <1>6 DEF Answer
  <2>2. Fine(f, g) /\ g.k.upd = f.k.upd /\ g.k.task = f.k.task /\ g.k.pc = "insertExtra"
    BY <1>2, <1>3, <1>4, <2>1, StatementFine DEF Writing
  <2>3. Resume(c, g)
    BY <2>1 DEF UpdatedExtra
  <2> HIDE DEF g
  <2>4. \A x : Owed(c, x) <=> Debt(g.k, x)
    BY <1>2, <1>3, <2>1, <2>2 DEF Owed, Debt
  <2> QED BY <1>2, <2>2, <2>3, <2>4, SoleResume
<1> QED BY <1>3, <1>5, <1>6

LEMMA InsertedExtraSole ==
  ASSUME Sole, Held, TypeOK', NEW c \in Call, InsertedExtra(c)
  PROVE  Upheld
<1> DEFINE f == Frame(c)
           r == reply[c]
           arg == call[c].task.arg
<1>1. Answered(c, "insertExtra") /\ "insertExtra" \in DbPoints /\ "insertExtra" \in Writing
      /\ "insertExtra" \notin CasPoints \cup Storing
  BY DEF InsertedExtra, DbPoints, Writing, CasPoints, Storing
<1>2. /\ f \in FrameType /\ f.k = call[c] /\ call[c].pc = "insertExtra" /\ Active(c) /\ Calm(f)
      /\ reply' = [reply EXCEPT ![c] = Waiting] /\ FrameSole(f) /\ ReplySole(c) /\ r # Waiting
  BY <1>1, SoleAnswer
<1>3. /\ call[c].task.op \in {"insert", "update"} /\ r.st \in {"true", "err"}
      /\ r.st = "true" => ExtraWritten(Written(call[c]))
      /\ call[c].task.op = "insert" => row.has /\ BaseWritten(arg)
      /\ call[c].task.op = "update" /\ row.has => BaseWritten(call[c].upd)
  BY <1>2 DEF FrameSole, ReplySole
<1>4. r.st = "true" => Acked(call[c].task)
  <2>1. CASE call[c].task.op = "insert"
    <3>1. Written(call[c]) = arg
      BY <2>1 DEF Written
    <3>2. \A x \in BaseColumns(arg) : x \in BaseField
      BY DEF BaseColumns
    <3>3. \A x \in ExtraColumns(arg) : x \in ExtraField /\ x \notin BaseField
      BY FieldAssumption DEF ExtraColumns
    <3> QED BY <1>3, <2>1, <3>1, <3>2, <3>3 DEF Acked, Holds, BaseWritten, ExtraWritten,
                                                      InTable
  <2>2. CASE call[c].task.op = "update"
    <3>1. Written(call[c]) = call[c].upd
      BY <2>2 DEF Written
    <3>2. Obliged(f)
      BY <1>1, <2>2, WritingObliged
    <3> QED BY <1>2, <1>3, <2>2, <3>1, <3>2, ObligedHolds
  <2> QED BY <1>3, <2>1, <2>2
<1>5. /\ Fine(f, Reject(f)) /\ (r.st = "true" => Fine(f, Resolve(f)))
      /\ \A x : ~Debt(Resolve(f).k, x) /\ ~Debt(Reject(f).k, x)
  BY <1>2, <1>4, EndFine
<1>6. \A x : ~Owed(c, x)
  BY <1>2 DEF Owed
<1>7. \E g : Resume(c, g) /\ Fine(f, g) /\ \A x : ~Debt(g.k, x)
  BY <1>3, <1>5 DEF InsertedExtra, Fire
<1> QED BY <1>2, <1>6, <1>7, SoleResume

LEMMA InsertedBaseSole ==
  ASSUME Sole, Held, TypeOK', NEW c \in Call, InsertedBase(c)
  PROVE  Upheld
<1> DEFINE f == Frame(c)
           r == reply[c]
<1>1. Answered(c, "insertBase") /\ "insertBase" \in DbPoints
      /\ "insertBase" \notin CasPoints \cup Storing \cup Writing
  BY DEF InsertedBase, DbPoints, Writing, CasPoints, Storing
<1>2. /\ f \in FrameType /\ f.k = call[c] /\ call[c].pc = "insertBase" /\ Active(c) /\ Calm(f)
      /\ reply' = [reply EXCEPT ![c] = Waiting] /\ FrameSole(f) /\ ReplySole(c) /\ r # Waiting
  BY <1>1, SoleAnswer
<1>3. /\ call[c].task.op = "insert"
      /\ r.st = "err" \/ (row.has /\ BaseWritten(call[c].task.arg))
  BY <1>2 DEF FrameSole, ReplySole
<1>4. Begun(f, Reject(f))
  BY <1>2, EndFine DEF Begun
<1>5. r.st # "err" => Begun(f, Initialise(f))
  <2> DEFINE pc == IF f.o.force \/ ~CacheEnabled THEN "select" ELSE "cached"
             g == Go(f, pc)
  <2>1. Initialise(f) = g /\ pc \in {"select", "cached"}
    BY DEF Initialise
  <2> HIDE DEF pc
  <2>2. g.o = f.o /\ g.k.task = f.k.task /\ g.k.pc = pc
    BY <1>2, GoFacts DEF Kept
  <2> HIDE DEF g
  <2>3. Asks(g) /\ (r.st # "err" => FrameSole(g))
    BY <1>2, <1>3, <2>1, <2>2 DEF FrameSole, Asks, CasPoints, Writing
  <2>4. r.st # "err" => Fine(f, g)
    BY <1>2, <1>3, <2>1, <2>2, <2>3, RestFine DEF CasPoints
  <2> QED BY <2>1, <2>2, <2>4 DEF Begun, Debt
<1>6. \E g : Resume(c, g) /\ Begun(f, g)
  BY <1>4, <1>5 DEF InsertedBase
<1> QED BY <1>1, <1>2, <1>6, BeginResume

(* The extra row joins the record that is cached.                          *)
LEMMA SelectedExtraSole ==
  ASSUME Sole, Held, TypeOK', NEW c \in Call, SelectedExtra(c)
  PROVE  Upheld
<1> DEFINE f == Frame(c)
           r == reply[c]
           u == IF r.st = "none" THEN DefaultsPayload ELSE r.val
           h == [f EXCEPT !.k.upd = u]
           m == Merge(h, u)
           g == UpdateCache(m)
<1>1. Answered(c, "selectExtra") /\ "selectExtra" \in DbPoints
      /\ "selectExtra" \notin CasPoints \cup Storing \cup Writing
  BY DEF SelectedExtra, DbPoints, Writing, CasPoints, Storing
<1>2. /\ f \in FrameType /\ f.k = call[c] /\ call[c].pc = "selectExtra" /\ Active(c) /\ Calm(f)
      /\ reply' = [reply EXCEPT ![c] = Waiting] /\ FrameSole(f) /\ ReplySole(c) /\ r # Waiting
      /\ r \in Reply /\ call[c].task \in Task[c] /\ CacheEnabled /\ ItemSole /\ item \in Item
      /\ (f.o.token # 0 => item.st = "record")
  BY <1>1, SoleAnswer
<1>3. /\ call[c].task.op = "readExtra" /\ f.o.has /\ r.st \in {"record", "none"}
      /\ row.has => (r.st = "none" <=> ~extra.has)
      /\ row.has /\ r.st = "record" => r.val = ExtraPayload(extra.col)
  BY <1>2 DEF FrameSole, ReplySole
<1>4. Writes(call[c].task.on)
  BY <1>2, <1>3, ReadersLoad
<1>5. OnlyExtra(r.val) /\ r.val.id = "none"
  BY <1>1, AnswerKey DEF Held
<1>6. Resume(c, g)
  BY <1>3 DEF SelectedExtra
<1> HIDE DEF f, r
<1>7. u \in Payload /\ OnlyExtra(u) /\ u.id = "none"
  BY <1>2, <1>5, DefaultsPayloadType, KeylessPayloads DEF Reply, Sole
<1>8. row.has => \A x \in ExtraField : u.col[x] = ExtraView[x]
  <2>1. \A cells : \A x \in ExtraField : ExtraPayload(cells).col[x] = cells[x]
    BY DEF ExtraPayload, Blank, Field
  <2>2. CASE r.st = "none"
    <3>1. u = DefaultsPayload /\ (row.has => ExtraView = ExtraTableDefaults)
      BY <1>3, <2>2 DEF ExtraView
    <3> HIDE DEF u
    <3>2. DefaultsPayload.col = ExtraPayload(ExtraTableDefaults).col
      BY DEF DefaultsPayload, ExtraPayload, Blank
    <3> QED BY <2>1, <3>1, <3>2
  <2>3. CASE r.st = "record"
    <3>1. row.has => u = ExtraPayload(extra.col) /\ ExtraView = extra.col
      BY <1>3, <2>3 DEF ExtraView
    <3> HIDE DEF u
    <3> QED BY <2>1, <3>1
  <2> QED BY <1>3, <2>2, <2>3
<1> HIDE DEF u
<1>9. h \in FrameType /\ h.o = f.o /\ h.k.task = f.k.task /\ h.k.upd = u
  BY <1>2, <1>7 DEF FrameType, CallType
<1> HIDE DEF h
<1>10. /\ m \in FrameType /\ m.k = h.k /\ m.o.token = f.o.token
       /\ m.o.record = MergeRecord(f.o.record, u)
  <2>1. /\ m \in FrameType /\ m.k = h.k
        /\ m.o = [h.o EXCEPT !.has = TRUE, !.record = MergeRecord(h.o.record, u),
                             !.view = ApplyRecordToInstance(h.o.view, u)]
    BY <1>7, <1>9, MergeFacts
  <2> HIDE DEF m
  <2> QED BY <1>9, <2>1 DEF FrameType, InstanceType
<1>11. m.o.record \in Payload /\ m.k.task = f.k.task /\ m.k.upd = u
  BY <1>9, <1>10 DEF FrameType, InstanceType
<1>12. Updated(m, g)
  BY <1>10, UpdateCacheFacts
<1> HIDE DEF m, g
<1>13. CASE f.o.token # 0
  <2>1. /\ f.o.token = item.cas /\ f.o.record = item.val
        /\ item.st = "record" /\ row.has /\ item.val.id = "own"
    BY <1>2, <1>4, <1>13 DEF Calm, ItemSole
  <2>2. /\ m.o.record.id = "own"
        /\ \A x \in Column : u.col[x] = Absent => m.o.record.col[x] = item.val.col[x]
    BY <1>7, <1>10, <2>1 DEF MergeRecord, Column, Field
  <2>3. Candidate(m, g, m.o.record, m.o.token, 1)
    BY <1>2, <1>10, <1>12, <1>13 DEF Updated
  <2>4. /\ m.k.task.op = "readExtra" /\ Writes(m.k.task.on) /\ m.o.token = item.cas
        /\ m.o.token # 0 /\ OnlyExtra(m.k.upd) /\ m.k.upd.id = "none"
        /\ \A x \in ExtraField : m.k.upd.col[x] \in {Absent, ExtraView[x]}
        /\ \A x \in Column : m.k.upd.col[x] = Absent => m.o.record.col[x] = item.val.col[x]
    BY <1>2, <1>3, <1>4, <1>7, <1>8, <1>10, <1>11, <1>13, <2>1, <2>2
  <2>5. Fine(m, g) /\ g.k.pc = "cas"
    BY <1>2, <1>10, <1>11, <2>1, <2>2, <2>3, <2>4, CandidateFine
  <2>6. Begun(f, g)
    BY <1>11, <2>5 DEF Begun, Fine, Debt
  <2> QED BY <1>1, <1>2, <1>6, <2>6, BeginResume DEF f
<1>14. CASE f.o.token = 0
  <2>1. ~row.has /\ item.st # "record"
    BY <1>2, <1>3, <1>4, <1>14 DEF Calm, ItemSole
  <2>2. Persisted(Merge(m, m.k.upd), g)
    BY <1>10, <1>12, <1>14 DEF Updated
  <2>3. /\ Merge(m, m.k.upd).k = m.k
        /\ Merge(m, m.k.upd).o = [m.o EXCEPT !.has = TRUE,
                                  !.record = MergeRecord(m.o.record, m.k.upd),
                                  !.view = ApplyRecordToInstance(m.o.view, m.k.upd)]
    BY <1>7, <1>10, <1>11, MergeFacts
  <2>4. g.k.task = f.k.task /\ g.o.token = 0 /\ g.k.pc = "resolved"
    BY <1>2, <1>3, <1>10, <1>11, <1>14, <2>2, <2>3 DEF Persisted, Kept, FrameType, InstanceType
  <2>5. Begun(f, g)
    BY <1>2, <1>3, <1>4, <2>1, <2>4, RowlessFine
  <2> QED BY <1>1, <1>2, <1>6, <2>5, BeginResume DEF f
<1> QED BY <1>13, <1>14

(* No CAS is refused, and nothing is deleted or taken out of the cache.    *)
LEMMA NoRefusal ==
  ASSUME Sole, Held, NEW c \in Call
  PROVE  ~(Reread(c) \/ DeletedBase(c) \/ DeletedExtra(c) \/ Invalidated(c) \/ Marked(c))
<1>1. FrameSole(Frame(c)) /\ call[c].pc \notin Dropping
  BY DEF Held, SoleInv, CallSole, ViewInv
<1>2. call[c].pc # "reread"
  BY <1>1 DEF FrameSole, Frame
<1> QED BY <1>1, <1>2 DEF Reread, DeletedBase, DeletedExtra, Invalidated, Marked, Answered, Dropping

(* A method starts on a new instance, or on one at rest.                   *)
LEMMA StartSole ==
  ASSUME Sole, Held, TypeOK', NEW c \in Call, Start(c)
  PROVE  Upheld
<1> DEFINE f == Frame(c)
           i == call[c].task.on
<1>1. /\ TypeOK /\ SoleInv /\ TokenInv /\ ViewInv /\ ItemSole /\ ~Overlap /\ CacheEnabled
      /\ item \in Item
  BY DEF Held, DerivedInv, TypeOK, TokenInv, Sole, SoleInv
<1>2. Startable(c) /\ call[c].pc = "new" /\ reply' = [reply EXCEPT ![c] = Waiting]
  BY <1>1 DEF Start, Startable, Held, DerivedInv, ReplySound, TypeOK
<1>3. /\ call[c].task \in Task[c] /\ i \in Instance /\ call[c] \in CallType
      /\ inst[i] \in InstanceType /\ InstanceSole(i) /\ Recorded(inst[i].token, "new")
      /\ InstanceFit(inst[i]) /\ call[c].task.op \notin {"delete", "unCache"}
      /\ call[c].task.op \in Op
  BY <1>1 DEF SoleInv, CallSole, TypeOK, CallType, TaskType, ViewInv, TokenInv
<1>4. f.k = call[c] /\ f.o = inst[i] /\ f \in FrameType
  BY <1>3 DEF Frame, FrameType
<1>5. call[c].pc \notin CasPoints \cup Writing
  BY <1>2 DEF CasPoints, Writing
<1>6. ASSUME NEW e \in FrameType, e.k = f.k, e.o.token = 0, ~e.o.has,
             ~Writes(i) => ~e.o.force, call[c].task.op # "insert"
      PROVE  Begun(f, Initialise(e))
  <2> DEFINE pc == IF e.o.force \/ ~CacheEnabled THEN "select" ELSE "cached"
             g == Go(e, pc)
  <2>1. Initialise(e) = g /\ pc \in {"select", "cached"}
    BY DEF Initialise
  <2> HIDE DEF pc
  <2>2. g.o = e.o /\ g.k.task = f.k.task /\ g.k.pc = pc
    BY <1>6, GoFacts DEF Kept
  <2> HIDE DEF g
  <2>3. FrameSole(g) /\ Asks(g)
    BY <1>4, <1>6, <2>1, <2>2 DEF FrameSole, Asks, CasPoints, Writing
  <2>4. Fine(f, g)
    BY <1>4, <1>6, <2>1, <2>2, <2>3 DEF Fine
  <2> QED BY <2>1, <2>2, <2>4 DEF Begun, Debt
<1>7. CASE call[c].task.op = "load"
  <2> DEFINE e == [f EXCEPT !.o = NewInstance(f.k.task.force)]
  <2>1. f.k.task.force \in BOOLEAN
    BY <1>3, <1>4 DEF CallType, TaskType
  <2>2. Resume(c, Initialise(e))
    BY <1>4, <1>7 DEF Start
  <2> HIDE DEF f
  <2>3. e \in FrameType /\ e.k = f.k /\ e.o = NewInstance(f.k.task.force)
    BY <1>4, <2>1, BlankType, BlankView DEF FrameType, InstanceType, NewInstance
  <2> HIDE DEF e
  <2>4. e.o.token = 0 /\ ~e.o.has /\ e.o.force = f.k.task.force
    BY <2>1, <2>3 DEF NewInstance
  <2>5. ~Writes(i) => ~e.o.force
    BY <1>3, <1>4, <2>4, ReadersLoad
  <2>6. Begun(f, Initialise(e))
    BY <1>6, <1>7, <2>3, <2>4, <2>5
  <2> QED BY <1>2, <1>5, <2>2, <2>6, BeginResume DEF f
<1>8. CASE call[c].task.op = "insert"
  <2> DEFINE e == [f EXCEPT !.o = NewInstance(TRUE)]
             g == Go(e, "insertBase")
  <2>1. Resume(c, g)
    BY <1>4, <1>8 DEF Start
  <2> HIDE DEF f
  <2>2. e \in FrameType /\ e.k = f.k /\ e.o = NewInstance(TRUE)
    BY <1>4, BlankType, BlankView DEF FrameType, InstanceType, NewInstance
  <2> HIDE DEF e
  <2>3. e.o.token = 0 /\ ~e.o.has
    BY <2>2 DEF NewInstance
  <2>4. g.o = e.o /\ g.k.task = f.k.task /\ g.k.pc = "insertBase"
    <3>1. g.o = e.o /\ Kept(e, g) /\ g.k.pc = "insertBase"
      BY <2>2, GoFacts
    <3> QED BY <2>2, <3>1 DEF Kept
  <2> HIDE DEF g
  <2>5. FrameSole(g) /\ Asks(g)
    BY <1>4, <1>8, <2>3, <2>4 DEF FrameSole, Asks, CasPoints, Writing
  <2>6. Writes(i)
    BY <1>3, <1>8, ReadersLoad
  <2>7. Fine(f, g)
    BY <1>4, <2>3, <2>4, <2>5, <2>6 DEF Fine
  <2>8. Begun(f, g)
    BY <2>4, <2>7 DEF Begun, Debt
  <2> QED BY <1>2, <1>5, <2>1, <2>8, BeginResume DEF f
<1>9. CASE call[c].task.op \notin {"load", "insert"}
  <2>1. \A d \in Call : call[d].task.on = i => ~Active(d)
    BY <1>1, <1>2, <1>9 DEF Startable, Makes
  <2>2. Alone(c) /\ Writes(i)
    BY <1>3, <1>9, <2>1, ReadersLoad DEF Alone
  <2>3. Paid
    BY <1>5, <2>2, PaidBefore
  <2>4. ~Busy(i) /\ ~\E d \in Call : call[d].task.on = i /\ call[d].pc \in Storing
    BY <2>1 DEF Busy, Active, Settled, CasPoints, Storing
  <2>5. Calm(f)
    BY <1>3, <1>4, <2>2, <2>4 DEF Calm, InstanceSole
  <2>6. Resume(c, EnsureRecordLoaded(f))
    BY <1>3, <1>4, <1>9 DEF Start
  <2> HIDE DEF f
  <2>7. f.o.has => Begun(f, Body(f))
    <3>1. f.o.has => Ready(f)
      BY <1>3, <1>4, <1>9, <2>2, <2>3, <2>5 DEF Ready, Recorded
    <3> QED BY <3>1, BodyBegins
  <2>8. ~f.o.has => Begun(f, Initialise(f))
    BY <1>1, <1>3, <1>4, <1>6, <1>9, <2>2 DEF InstanceFit
  <2>9. Begun(f, EnsureRecordLoaded(f))
    BY <2>7, <2>8 DEF EnsureRecordLoaded
  <2> QED BY <1>2, <1>5, <2>6, <2>9, BeginResume DEF f
<1> QED BY <1>7, <1>8, <1>9

LEMMA ContinueSole ==
  ASSUME Sole, Held, TypeOK', NEW c \in Call, Continue(c)
  PROVE  Upheld
BY CachedSole, SelectedSole, StoredSole, FreshSole, CasAnsweredSole, RefreshedSole, UpdatedBaseSole,
   UpdatedExtraSole, InsertedExtraSole, InsertedBaseSole, SelectedExtraSole, NoRefusal DEF Continue

-----------------------------------------------------------------------------
(* Steps of the servers.                                                   *)

(* The promises a request leaves as they were.                             *)
LEMMA OthersAnswered ==
  ASSUME TypeOK, NEW c \in Call, NEW s, reply' = [reply EXCEPT ![c] = s],
         UNCHANGED <<inst, call>>
  PROVE  /\ reply'[c] = s
         /\ \A d \in Call : d # c => reply'[d] = reply[d] /\ \A x : Owed(d, x)' <=> Owed(d, x)
         /\ \A d \in Call : Frame(d)' = Frame(d)
         /\ Made' <=> Made
<1>1. reply'[c] = s /\ \A d \in Call : d # c => reply'[d] = reply[d]
  BY DEF TypeOK
<1>2. ASSUME NEW d \in Call, d # c PROVE \A x : Owed(d, x)' <=> Owed(d, x)
  BY <1>1, <1>2 DEF Owed, Debt
<1>3. Made' <=> Made
  BY DEF Made
<1> QED BY <1>1, <1>2, <1>3 DEF Frame

(* An answer of a server that leaves the item and the tables as they are.  *)
LEMMA AnswerSole ==
  ASSUME Held, NEW c \in Call, reply[c] = Waiting, NEW s, s # Waiting,
         reply' = [reply EXCEPT ![c] = s], UNCHANGED <<inst, call, item, row, extra>>,
         ReplySole(c)', item.st = "record" => \A x \in Column : Owed(c, x)' <=> Owed(c, x)
  PROVE  SoleInv'
<1>1. TypeOK /\ SoleInv
  BY DEF Held, DerivedInv
<1>2. /\ reply'[c] = s
      /\ \A d \in Call : d # c => reply'[d] = reply[d] /\ \A x : Owed(d, x)' <=> Owed(d, x)
      /\ \A d \in Call : Frame(d)' = Frame(d)
      /\ Made' <=> Made
  BY <1>1, OthersAnswered
<1>3. /\ \A x, v : InTable(x, v)' <=> InTable(x, v)
      /\ \A u : BaseWritten(u)' <=> BaseWritten(u)
      /\ \A u : ExtraWritten(u)' <=> ExtraWritten(u)
      /\ \A p, j : Selection(p, j)' <=> Selection(p, j)
  BY DEF BaseWritten, ExtraWritten, InTable, ExtraView, Selection, SameBase
<1>4. ItemSole'
  <2>1. item.st = "record" => \A d \in Call : \A x \in Column : Owed(d, x)' <=> Owed(d, x)
    BY <1>2
  <2> QED BY <1>1, <1>2, <1>3, <2>1 DEF SoleInv, ItemSole
<1>5. ASSUME NEW i \in Instance PROVE InstanceSole(i)'
  <2>1. Busy(i)' <=> Busy(i)
    BY DEF Busy
  <2> QED BY <1>1, <2>1 DEF SoleInv, InstanceSole
<1>6. ASSUME NEW d \in Call PROVE CallSole(d)'
  <2>1. CallSole(d) /\ Frame(d)' = Frame(d)
    BY <1>1, <1>2 DEF SoleInv
  <2>2. FrameSole(Frame(d))'
    <3>1. ExtraView' = ExtraView
      BY DEF ExtraView
    <3> QED BY <1>3, <2>1, <3>1 DEF CallSole, FrameSole
  <2>3. CASE d = c
    BY <1>2, <2>1, <2>2, <2>3 DEF CallSole
  <2>4. CASE d # c
    <3>1. reply'[d] = reply[d]
      BY <1>2, <2>4
    <3>2. Asks(Frame(d))' <=> Asks(Frame(d))
      BY <2>1 DEF Asks, Puts
    <3>3. ReplySole(d)' <=> ReplySole(d)
      BY <1>3, <3>1 DEF ReplySole
    <3> QED BY <2>1, <2>2, <3>1, <3>2, <3>3 DEF CallSole
  <2> QED BY <2>3, <2>4
<1> QED BY <1>4, <1>5, <1>6 DEF SoleInv

(* A request of the writer that changes the item or the tables: the calls  *)
(* of the others only load.                                                *)
LEMMA WriterSole ==
  ASSUME Sole, Held, NEW c \in Call, Active(c), Writes(call[c].task.on), NEW s, s # Waiting,
         reply' = [reply EXCEPT ![c] = s], UNCHANGED <<inst, call>>,
         row.has => row'.has, item.st = "record" => item'.st = "record",
         item'.st = "none" => item.st = "none",
         row' = row \/ item'.st = "record" \/ ~row.has,
         FrameSole(Frame(c))', ReplySole(c)', InstanceSole(call[c].task.on)', ItemSole'
  PROVE  SoleInv'
<1> DEFINE i == call[c].task.on
<1>1. TypeOK /\ SoleInv /\ Serial
  BY DEF Held, DerivedInv, TokenInv, Sole
<1>2. /\ reply'[c] = s
      /\ \A d \in Call : d # c => reply'[d] = reply[d]
      /\ \A d \in Call : Frame(d)' = Frame(d)
  BY <1>1, OthersAnswered
<1>3. Alone(c) /\ i \in Instance
  BY <1>1, AloneFacts DEF TypeOK, CallType, TaskType
<1>4. ASSUME NEW j \in Instance PROVE InstanceSole(j)'
  <2>1. CASE Writes(j)
    BY <1>3, <2>1 DEF Sole
  <2>2. CASE ~Writes(j)
    BY <1>1, <2>2 DEF SoleInv, InstanceSole
  <2> QED BY <2>1, <2>2
<1>5. \A p, j : Selection(p, j) /\ ~Writes(j) => Selection(p, j)'
  BY DEF Selection, SameBase
<1>6. ASSUME NEW d \in Call, d # c PROVE CallSole(d)'
  <2>1. CallSole(d) /\ Frame(d)' = Frame(d) /\ reply'[d] = reply[d] /\ Frame(d).k = call[d]
    BY <1>1, <1>2, <1>6 DEF SoleInv, Frame
  <2>2. CASE ~Active(d)
    <3>1. call[d].pc \in {"new", "resolved", "rejected"}
      BY <2>2 DEF Active, Settled
    <3>2. FrameSole(Frame(d))' /\ Asks(Frame(d))'
      BY <2>1, <3>1 DEF FrameSole, Asks, CasPoints, Writing
    <3>3. ReplySole(d)'
      BY <3>1 DEF ReplySole, GetsPoints
    <3> QED BY <2>1, <3>2, <3>3 DEF CallSole
  <2>3. CASE ~Writes(call[d].task.on)
    <3>1. call[d].task.op = "load"
      BY <2>1, <2>3, ReadersLoad DEF CallSole
    <3>2. FrameSole(Frame(d))
      BY <2>1 DEF CallSole
    <3>3. call[d].pc \notin CasPoints \cup Writing \cup {"insertBase", "selectExtra"}
      BY <2>1, <3>1, <3>2 DEF FrameSole, Writing
    <3>4. FrameSole(Frame(d))'
      BY <1>5, <2>1, <2>3, <3>1, <3>2, <3>3 DEF FrameSole, CasPoints, Writing
    <3>5. Asks(Frame(d))'
      BY <2>1, <3>3 DEF Asks, CasPoints, Writing
    <3>6. reply[d] # Waiting => ReplySole(d)'
      BY <1>5, <2>1, <2>3, <3>3 DEF CallSole, ReplySole, CasPoints, Writing
    <3> QED BY <2>1, <3>4, <3>5, <3>6 DEF CallSole
  <2> QED BY <1>3, <1>6, <2>2, <2>3, SoleWriter
<1>7. CallSole(c)'
  BY <1>1, <1>2 DEF SoleInv, CallSole
<1> QED BY <1>4, <1>6, <1>7 DEF SoleInv

(* A selected record fills the cache: nothing is owed, and no instance has *)
(* a token.                                                                *)
LEMMA FillSole ==
  ASSUME Held, NEW c \in Call, call[c].pc = "store", item.st = "none", reply[c] = Waiting,
         Store("record", call[c].val), reply' = [reply EXCEPT ![c] = Answer("true")],
         UNCHANGED <<inst, call, row, extra>>
  PROVE  SoleInv'
<1>1. TypeOK /\ SoleInv /\ ViewInv
  BY DEF Held, DerivedInv
<1>2. item'.st = "record" /\ item'.val = call[c].val
  BY DEF Store
<1>3. /\ reply'[c] = Answer("true")
      /\ \A d \in Call : d # c => reply'[d] = reply[d] /\ \A x : Owed(d, x)' <=> Owed(d, x)
      /\ \A d \in Call : Frame(d)' = Frame(d)
  BY <1>1, OthersAnswered
<1>4. /\ \A i \in Instance : inst[i].token = 0
      /\ \A d \in Call : call[d].pc \notin CasPoints
      /\ \A d \in Call : call[d].pc \in GetsPoints => reply[d].st # "record"
  BY <1>1 DEF ViewInv, Recorded
<1>5. /\ \A x, v : InTable(x, v)' <=> InTable(x, v)
      /\ \A u : BaseWritten(u)' <=> BaseWritten(u)
      /\ \A u : ExtraWritten(u)' <=> ExtraWritten(u)
      /\ \A p, j : Selection(p, j) => Selection(p, j)'
      /\ ExtraView' = ExtraView
  BY DEF BaseWritten, ExtraWritten, InTable, ExtraView, Selection, SameBase
<1>6. \A d \in Call : /\ FrameSole(Frame(d)) /\ Frame(d).k = call[d]
                      /\ Frame(d).o = inst[call[d].task.on] /\ Frame(d).o.token = 0
  BY <1>1, <1>4 DEF SoleInv, CallSole, Frame, TypeOK, CallType, TaskType
<1>7. Selection(call[c].val, call[c].task.on)
  BY <1>6 DEF FrameSole
<1>8. row.has
  BY <1>7 DEF Selection
<1>9. ItemSole'
  <2>1. \A d \in Call : \A x : ~Owed(d, x)
    <3>1. \A d \in Call : ~(call[d].task.op = "update" /\ call[d].pc \in Writing \cup CasPoints)
      BY <1>4, <1>6, <1>8 DEF FrameSole
    <3> QED BY <3>1 DEF Owed, Debt, Writing, CasPoints
  <2>2. \A d \in Call : \A x : ~Owed(d, x)'
    <3>1. \A x : ~Owed(c, x)'
      BY DEF Owed, Debt
    <3> QED BY <1>3, <2>1, <3>1
  <2>3. ASSUME NEW x \in Column
        PROVE  call[c].val.col[x] = Absent \/ InTable(x, call[c].val.col[x])
    <3>1. CASE x \in BaseField
      BY <1>7, <3>1 DEF Selection, SameBase, InTable
    <3>2. CASE x \in ExtraField
      BY <1>7, <3>2 DEF Selection, NoExtra
    <3> QED BY <3>1, <3>2 DEF Column
  <2> QED BY <1>2, <1>5, <1>7, <1>8, <2>2, <2>3 DEF ItemSole, Selection, NoExtra
<1>10. ASSUME NEW i \in Instance PROVE InstanceSole(i)'
  BY <1>1, <1>4 DEF SoleInv, InstanceSole
<1>11. ASSUME NEW d \in Call PROVE CallSole(d)'
  <2>1. FrameSole(Frame(d))'
    BY <1>2, <1>3, <1>5, <1>6 DEF FrameSole
  <2>2. CASE d = c
    <3>1. ReplySole(c)'
      BY <1>2, <1>3 DEF ReplySole, GetsPoints, Answer
    <3> QED BY <1>1, <1>3, <2>1, <2>2, <3>1 DEF SoleInv, CallSole, Waiting, Answer
  <2>3. CASE d # c
    <3>1. reply'[d] = reply[d] /\ Frame(d)' = Frame(d) /\ CallSole(d)
      BY <1>1, <1>3, <2>3 DEF SoleInv
    <3>2. Asks(Frame(d)) => Asks(Frame(d))'
      BY <1>4, <1>6, <3>1 DEF Asks, CasPoints
    <3>3. ReplySole(d) => ReplySole(d)'
      BY <1>2, <1>4, <1>5, <3>1 DEF ReplySole, CasPoints
    <3> QED BY <2>1, <3>1, <3>2, <3>3 DEF CallSole
  <2> QED BY <2>2, <2>3
<1> QED BY <1>9, <1>10, <1>11 DEF SoleInv

(* Cache.set: only the writer loads with forceRead, with no other method   *)
(* of its instance under way.                                              *)
LEMMA ForcedSole ==
  ASSUME Sole, Held, NEW c \in Call, call[c].pc = "store", reply[c] = Waiting,
         inst[call[c].task.on].force,
         Store("record", call[c].val), reply' = [reply EXCEPT ![c] = Answer("true")],
         UNCHANGED <<inst, call, row, extra>>
  PROVE  SoleInv'
<1> DEFINE i == call[c].task.on
<1>1. TypeOK /\ SoleInv /\ TokenInv /\ Serial /\ ~Overlap
  BY DEF Held, DerivedInv, TokenInv, Sole
<1>2. item'.st = "record" /\ item'.val = call[c].val
  BY DEF Store
<1>3. /\ reply'[c] = Answer("true")
      /\ \A d \in Call : d # c => \A x : Owed(d, x)' <=> Owed(d, x)
      /\ \A d \in Call : Frame(d)' = Frame(d)
  BY <1>1, OthersAnswered
<1>4. i \in Instance
  BY <1>1 DEF TypeOK, CallType, TaskType
<1>5. Writes(i) /\ InstanceSole(i)
  BY <1>1, <1>4 DEF SoleInv, InstanceSole
<1>6. Active(c) /\ Alone(c)
  BY <1>1, AloneFacts DEF Active, Settled
<1>7. /\ FrameSole(Frame(c)) /\ FrameFit(Frame(c)) /\ Frame(c).k = call[c]
      /\ Frame(c).o = inst[i]
  BY <1>1 DEF SoleInv, CallSole, TokenInv, Frame
<1>8. inst[i].token = 0
  BY <1>1, <1>7 DEF FrameFit, Loading
<1>9. Selection(call[c].val, i) /\ row.has
  BY <1>7 DEF FrameSole, Selection
<1>10. ItemSole'
  <2>1. \A d \in Call : \A x : ~Owed(d, x)'
    <3>1. \A x : ~Owed(c, x) /\ ~Owed(c, x)'
      BY DEF Owed, Debt
    <3> QED BY <1>3, <1>5, <1>6, <3>1, SoleDebtor
  <2>2. ASSUME NEW x \in Column
        PROVE  call[c].val.col[x] = Absent \/ InTable(x, call[c].val.col[x])
    <3>1. CASE x \in BaseField
      BY <1>5, <1>9, <3>1 DEF Selection, SameBase, InTable
    <3>2. CASE x \in ExtraField
      BY <1>9, <3>2 DEF Selection, NoExtra
    <3> QED BY <3>1, <3>2 DEF Column
  <2>3. \A x, v : InTable(x, v)' <=> InTable(x, v)
    BY DEF InTable, ExtraView
  <2> QED BY <1>2, <1>9, <2>1, <2>2, <2>3 DEF ItemSole, Selection, NoExtra
<1>11. InstanceSole(i)'
  BY <1>5, <1>8 DEF InstanceSole
<1>12. FrameSole(Frame(c))'
  <2>1. /\ Selection(call[c].val, i)'
        /\ BaseWritten(call[c].task.arg) <=> BaseWritten(call[c].task.arg)'
    BY <1>5, <1>9 DEF Selection, SameBase, BaseWritten, InTable, ExtraView
  <2> QED BY <1>3, <1>7, <2>1 DEF FrameSole, CasPoints, Writing
<1>13. ReplySole(c)'
  BY <1>2, <1>3 DEF ReplySole, GetsPoints, Answer
<1>14. Answer("true") # Waiting
  BY DEF Waiting, Answer
<1> QED BY <1>2, <1>5, <1>6, <1>10, <1>11, <1>12, <1>13, <1>14, WriterSole

(* A CAS takes effect.                                                     *)
LEMMA PublishSole ==
  ASSUME Sole, Held, NEW c \in Call, call[c].pc = "cas", reply[c] = Waiting,
         Store("record", call[c].val), reply' = [reply EXCEPT ![c] = Answer("true")],
         UNCHANGED <<inst, call, row, extra>>
  PROVE  SoleInv'
<1> DEFINE i == call[c].task.on
           k == call[c]
<1>1. TypeOK /\ SoleInv /\ TokenInv /\ Serial /\ ~Overlap /\ ViewInv
  BY DEF Held, DerivedInv, TokenInv, Sole
<1>2. item'.st = "record" /\ item'.val = k.val
  BY DEF Store
<1>3. /\ reply'[c] = Answer("true")
      /\ \A d \in Call : d # c => \A x : Owed(d, x)' <=> Owed(d, x)
      /\ \A d \in Call : Frame(d)' = Frame(d)
      /\ Made' <=> Made
  BY <1>1, OthersAnswered
<1>4. i \in Instance
  BY <1>1 DEF TypeOK, CallType, TaskType
<1>5. FrameSole(Frame(c)) /\ Frame(c).k = k /\ Asks(Frame(c)) /\ k.task \in Task[c]
  BY <1>1 DEF SoleInv, CallSole, Frame
<1>6. k.task.op \in {"update", "readExtra"}
  BY <1>5 DEF FrameSole, CasPoints
<1>7. Writes(i)
  BY <1>5, <1>6, ReadersLoad
<1>8. Active(c) /\ Alone(c)
  BY <1>1, AloneFacts DEF Active, Settled
<1>9. item.st = "record" /\ row.has /\ ItemSole
  BY <1>1 DEF ViewInv, Recorded, CasPoints, SoleInv, ItemSole
<1>10. k.val.id = "own" /\ Puts(k.val, item.val, k.upd)
  BY <1>5 DEF Asks
<1>11. Made
  <2>1. ~Makes(c, i) /\ k.pc # "new"
    BY <1>6 DEF Makes
  <2>2. PICK d \in Call : Makes(d, i) /\ call[d].pc = "resolved"
    BY <1>1, <2>1 DEF Serial
  <2> QED BY <1>7, <2>2 DEF Made, Makes
<1>12. \A x, v : InTable(x, v)' <=> InTable(x, v)
  BY DEF InTable, ExtraView
<1>13. \A x : ~Owed(c, x) /\ (Owed(c, x)' <=> k.task.op = "update" /\ k.upd.col[x] # Absent)
  BY <1>3 DEF Owed, Debt, Waiting, Answer
<1>14. \A d \in Call : \A x : Owed(d, x)' => d = c
  BY <1>3, <1>7, <1>8, SoleDebtor
<1>15. ASSUME NEW x \in Column
       PROVE  /\ k.task.op = "update" /\ k.upd.col[x] # Absent =>
                   k.val.col[x] \in {Absent, k.upd.col[x]}
              /\ \/ k.val.col[x] = Absent \/ InTable(x, k.val.col[x])
                 \/ k.task.op = "update" /\ k.upd.col[x] # Absent
  <2>1. CASE k.upd.col[x] = Absent
    <3>1. k.val.col[x] = item.val.col[x]
      BY <1>10, <2>1 DEF Puts
    <3>2. item.val.col[x] # Absent => InTable(x, item.val.col[x])
      BY <1>7, <1>8, <1>9, <1>13, SettledColumns
    <3> QED BY <2>1, <3>1, <3>2
  <2>2. CASE k.upd.col[x] # Absent
    <3>1. k.val.col[x] \in {Absent, k.upd.col[x]}
      BY <1>10, <2>2 DEF Puts
    <3>2. k.task.op = "readExtra" => x \in ExtraField /\ k.upd.col[x] = ExtraView[x]
      BY <1>5, <2>2 DEF FrameSole, CasPoints, OnlyExtra, Column
    <3>3. k.task.op = "readExtra" => InTable(x, k.upd.col[x])
      BY <3>2, FieldAssumption DEF InTable
    <3> QED BY <1>6, <2>2, <3>1, <3>3
  <2> QED BY <2>1, <2>2
<1>16. ItemSole'
  <2>1. ASSUME NEW x \in Column
        PROVE  /\ \A d \in Call : Owed(d, x)' => k.val.col[x] \in {Absent, call[d].upd.col[x]}
               /\ \/ k.val.col[x] = Absent \/ InTable(x, k.val.col[x])
                  \/ \E d \in Call : Owed(d, x)'
    BY <1>13, <1>14, <1>15
  <2> QED BY <1>2, <1>3, <1>9, <1>10, <1>11, <1>12, <2>1 DEF ItemSole
<1>17. InstanceSole(i)'
  <2>1. Busy(i)' /\ InstanceSole(i)
    BY <1>1, <1>4 DEF SoleInv, Busy, CasPoints
  <2> QED BY <1>7, <2>1 DEF InstanceSole
<1>18. FrameSole(Frame(c))'
  BY <1>3, <1>5, <1>12 DEF FrameSole, CasPoints, Writing, ExtraView
<1>19. ReplySole(c)'
  BY <1>3 DEF ReplySole, GetsPoints
<1>20. Answer("true") # Waiting
  BY DEF Waiting, Answer
<1> QED BY <1>2, <1>7, <1>8, <1>16, <1>17, <1>18, <1>19, <1>20, WriterSole

LEMMA CacheServeSole ==
  ASSUME Sole, Held, NEW c \in Call, CacheServe(c)
  PROVE  SoleInv'
<1>1. TypeOK /\ item \in Item /\ SoleInv /\ ViewInv /\ ItemSole
  BY DEF Held, DerivedInv, TypeOK, SoleInv
<1>2. PICK s : CacheServed(c, s)
  BY <1>1, CacheServeCases
<1>3. /\ reply[c] = Waiting /\ reply' = [reply EXCEPT ![c] = s]
      /\ UNCHANGED <<inst, call, row, extra>> /\ s # Answer("err") /\ reply'[c] = s
  BY <1>1, <1>2 DEF CacheServed, Sole, Lasting, TypeOK
<1>4. call[c].pc \notin Dropping /\ call[c] \in CallType /\ call[c].task.on \in Instance
  BY <1>1 DEF ViewInv, TypeOK, CallType, TaskType
<1>5. FrameSole(Frame(c)) /\ Asks(Frame(c)) /\ Frame(c).k = call[c]
  BY <1>1, <1>3 DEF SoleInv, CallSole, Frame
<1>6. CASE call[c].pc \in GetsPoints
  <2>1. s = item /\ item' = item
    BY <1>2, <1>3, <1>6 DEF CacheServed, GetsPoints
  <2>2. s # Waiting
    BY <1>1, <2>1 DEF Waiting, Answer, Item
  <2>3. call[c].pc = "fresh" => item.st = "record"
    BY <1>5 DEF FrameSole
  <2>4. ReplySole(c)'
    BY <1>3, <1>6, <2>1, <2>3 DEF ReplySole, GetsPoints
  <2>5. \A x : Owed(c, x)' <=> Owed(c, x)
    BY <1>3, <1>6, <2>2 DEF Owed, Debt, GetsPoints
  <2> QED BY <1>3, <2>1, <2>2, <2>4, <2>5, AnswerSole
<1>7. CASE call[c].pc = "store" /\ s = Answer("false")
  <2>1. item.st = "record" /\ item' = item
    BY <1>1, <1>2, <1>7, AnswersDiffer DEF CacheServed, GetsPoints, ViewInv, Item
  <2>2. s # Waiting
    BY <1>7 DEF Waiting, Answer
  <2>3. ReplySole(c)'
    BY <1>3, <1>7, <2>1 DEF ReplySole, GetsPoints, Answer
  <2>4. \A x : Owed(c, x)' <=> Owed(c, x)
    BY <1>3, <1>7 DEF Owed, Debt
  <2> QED BY <1>3, <2>1, <2>2, <2>3, <2>4, AnswerSole
<1>8. CASE call[c].pc = "store" /\ s # Answer("false")
  <2>1. s = Answer("true") /\ Store("record", call[c].val)
        /\ (item.st = "none" \/ inst[call[c].task.on].force)
    BY <1>2, <1>3, <1>8 DEF CacheServed, GetsPoints
  <2> QED BY <1>3, <1>8, <2>1, FillSole, ForcedSole
<1>9. CASE call[c].pc = "cas"
  <2>1. item.st # "none" /\ item.cas = call[c].tok
    BY <1>1, <1>5, <1>9 DEF ViewInv, Recorded, CasPoints, Asks
  <2>2. s = Answer("true") /\ Store("record", call[c].val)
    BY <1>2, <1>3, <1>9, <2>1 DEF CacheServed, GetsPoints
  <2> QED BY <1>3, <1>9, <2>2, PublishSole
<1>10. call[c].pc \in GetsPoints \cup {"store", "cas"}
  BY <1>2, <1>4 DEF CacheServed, Dropping, CachePoints
<1> QED BY <1>6, <1>7, <1>8, <1>9, <1>10

LEMMA ExecuteSure ==
  ASSUME ~DbFaults, NEW c, NEW affected \in BOOLEAN, Execute(c, affected)
  PROVE  /\ reply[c] = Waiting
         /\ reply' = [reply EXCEPT ![c] = Answer(IF affected THEN "true" ELSE "false")]
<1>1. DbFaults = FALSE
  BY DbFaultsAssumption
<1> QED BY <1>1, SettleCases DEF Execute

(* What SET makes of a column.                                             *)
LEMMA AssignColumn ==
  ASSUME NEW S, NEW cols \in [S -> DbCell], NEW u, NEW v, NEW x \in S
  PROVE  /\ u.col[x] = Absent => Assign(cols, u, v)[x] = cols[x]
         /\ u.col[x] # Absent => u.col[x] \in Literal \cup {Assign(cols, u, v)[x]}
<1>1. Assign(cols, u, v)[x] = CASE u.col[x] = Absent -> cols[x]
                                [] u.col[x] \in Literal -> v
                                [] OTHER -> u.col[x]
  BY DEF Assign
<1>2. CASE u.col[x] = Absent
  BY <1>1, <1>2, CellAssumption
<1>3. CASE u.col[x] # Absent /\ u.col[x] \in Literal
  BY <1>3
<1>4. CASE u.col[x] # Absent /\ u.col[x] \notin Literal
  BY <1>1, <1>4
<1> QED BY <1>2, <1>3, <1>4

(* loadFromDatabase selects the row.                                       *)
LEMMA SelectSole ==
  ASSUME Sole, Held, NEW c \in Call, call[c].pc = "select", SelectRow(c),
         UNCHANGED <<item, inst, call>>
  PROVE  SoleInv'
<1>1. TypeOK
  BY DEF Held, DerivedInv
<1>2. row.has => Selection(DecorateRecord(row), call[c].task.on)
  <2>1. \A x \in ExtraField : DecorateRecord(row).col[x] = Absent
    BY FieldAssumption DEF DecorateRecord, Field
  <2>2. \A x \in BaseField : DecorateRecord(row).col[x] = row.col[x]
    BY FieldAssumption DEF DecorateRecord, Field
  <2>3. DecorateRecord(row).id = "own"
    BY DEF DecorateRecord
  <2> QED BY <2>1, <2>2, <2>3 DEF Selection, NoExtra, SameBase
<1>3. PICK s : /\ Settle(c, s, FALSE) /\ UNCHANGED <<row, extra>>
               /\ s.st \in {"record", "none"} /\ (s.st = "none" => ~row.has)
               /\ s.st = "record" => Selection(s.val, call[c].task.on)
  <2> DEFINE q == IF row.has THEN [st |-> "record", val |-> DecorateRecord(row), cas |-> 0]
                  ELSE Answer("none")
  <2>1. Settle(c, q, FALSE) /\ UNCHANGED <<row, extra>>
    BY DEF SelectRow, Query
  <2>2. /\ q.st \in {"record", "none"} /\ (q.st = "none" => ~row.has)
        /\ q.st = "record" => Selection(q.val, call[c].task.on)
    BY <1>2 DEF Answer
  <2> HIDE DEF q
  <2> QED BY <2>1, <2>2
<1>4. reply[c] = Waiting /\ reply' = [reply EXCEPT ![c] = s]
  BY <1>3, SettleCases
<1>5. reply'[c] = s
  BY <1>1, <1>4 DEF TypeOK
<1>6. s # Waiting
  BY <1>3 DEF Waiting, Answer
<1>7. ReplySole(c)'
  <2>1. s.st = "record" => Selection(s.val, call[c].task.on)'
    BY <1>3 DEF Selection, SameBase, NoExtra
  <2> QED BY <1>3, <1>5, <2>1 DEF ReplySole, GetsPoints
<1>8. \A x : Owed(c, x)' <=> Owed(c, x)
  BY <1>5 DEF Owed, Debt
<1> QED BY <1>3, <1>4, <1>6, <1>7, <1>8, AnswerSole

(* The writer reads the extra row with the key of the record it holds.     *)
LEMMA SelectExtraSole ==
  ASSUME Sole, Held, NEW c \in Call, call[c].pc = "selectExtra", reply[c] = Waiting,
         SelectExtra(c, OwnKey(inst[call[c].task.on])), UNCHANGED <<item, inst, call>>
  PROVE  SoleInv'
<1> DEFINE i == call[c].task.on
<1>1. TypeOK /\ SoleInv /\ TokenInv /\ Serial /\ ~Overlap /\ ViewInv /\ ItemSole
  BY DEF Held, DerivedInv, TokenInv, Sole, SoleInv
<1>2. i \in Instance
  BY <1>1 DEF TypeOK, CallType, TaskType
<1>3. /\ FrameSole(Frame(c)) /\ Frame(c).k = call[c] /\ Frame(c).o = inst[i]
      /\ call[c].task \in Task[c]
  BY <1>1 DEF SoleInv, CallSole, Frame
<1>4. call[c].task.op = "readExtra" /\ inst[i].has
  BY <1>3 DEF FrameSole
<1>5. Writes(i)
  BY <1>3, <1>4, ReadersLoad
<1>6. Alone(c)
  BY <1>1, AloneFacts DEF Active, Settled
<1>7. ~Busy(i) /\ ~\E d \in Call : call[d].task.on = i /\ call[d].pc \in Storing
  BY <1>6 DEF Busy, Alone, Active, Settled, CasPoints, Storing
<1>8. row.has => OwnKey(inst[i])
  <2>1. InstanceSole(i) /\ Recorded(inst[i].token, "new")
    BY <1>1, <1>2 DEF SoleInv, ViewInv
  <2> SUFFICES ASSUME row.has PROVE OwnKey(inst[i])
    OBVIOUS
  <2>2. inst[i].token # 0
    BY <1>4, <1>5, <1>7, <2>1 DEF InstanceSole
  <2>3. inst[i].record = item.val /\ item.st = "record"
    BY <1>5, <1>7, <2>1, <2>2 DEF InstanceSole, Recorded
  <2> QED BY <1>1, <1>4, <2>3 DEF OwnKey, ItemSole
<1>9. PICK s : /\ Settle(c, s, FALSE) /\ UNCHANGED <<row, extra>>
               /\ s.st \in {"record", "none"}
               /\ row.has => (s.st = "none" <=> ~extra.has)
               /\ s.st = "record" => s.val = ExtraPayload(extra.col)
  <2> DEFINE q == IF OwnKey(inst[i]) /\ extra.has
                  THEN [st |-> "record", val |-> ExtraPayload(extra.col), cas |-> 0]
                  ELSE Answer("none")
  <2>1. Settle(c, q, FALSE) /\ UNCHANGED <<row, extra>>
    BY DEF SelectExtra, Query
  <2>2. /\ q.st \in {"record", "none"}
        /\ row.has => (q.st = "none" <=> ~extra.has)
        /\ q.st = "record" => q.val = ExtraPayload(extra.col)
    BY <1>8 DEF Answer
  <2> HIDE DEF q
  <2> QED BY <2>1, <2>2
<1>10. reply' = [reply EXCEPT ![c] = s]
  BY <1>9, SettleCases
<1>11. reply'[c] = s
  BY <1>1, <1>10 DEF TypeOK
<1>12. s # Waiting
  BY <1>9 DEF Waiting, Answer
<1>13. ReplySole(c)'
  <2>1. ExtraPayload(extra.col)' = ExtraPayload(extra.col)
    BY <1>9
  <2> QED BY <1>9, <1>11, <2>1 DEF ReplySole, GetsPoints
<1>14. \A x : Owed(c, x)' <=> Owed(c, x)
  BY <1>11 DEF Owed, Debt
<1> QED BY <1>9, <1>10, <1>12, <1>13, <1>14, AnswerSole

(* The row is inserted: no record was cached before.                       *)
LEMMA InsertRowSole ==
  ASSUME Sole, Held, NEW c \in Call, call[c].pc = "insertBase", reply[c] = Waiting,
         InsertRow(c, call[c].task.arg), UNCHANGED <<item, inst, call>>
  PROVE  SoleInv'
<1> DEFINE i == call[c].task.on
           arg == call[c].task.arg
<1>1. TypeOK /\ SoleInv /\ ViewInv /\ ItemSole /\ ~DbFaults
  BY DEF Held, DerivedInv, Sole, SoleInv
<1>2. /\ FrameSole(Frame(c)) /\ Frame(c).k = call[c] /\ Frame(c).o = inst[i]
      /\ call[c].task \in Task[c] /\ i \in Instance
  BY <1>1 DEF SoleInv, CallSole, Frame, TypeOK, CallType, TaskType
<1>3. call[c].task.op = "insert" /\ ~inst[i].has
  BY <1>2 DEF FrameSole
<1>4. Writes(i)
  BY <1>2, <1>3, ReadersLoad
<1>5. CASE row.has
  <2>1. /\ reply' = [reply EXCEPT ![c] = Answer("err")] /\ UNCHANGED <<row, extra>>
        /\ reply'[c] = Answer("err")
    <3>1. Settle(c, Answer("err"), FALSE) /\ UNCHANGED <<row, extra>>
      BY <1>5 DEF InsertRow
    <3>2. reply' = [reply EXCEPT ![c] = Answer("err")]
      BY <3>1, SettleCases
    <3> QED BY <1>1, <3>1, <3>2 DEF TypeOK
  <2>2. ReplySole(c)'
    BY <2>1 DEF ReplySole, GetsPoints, Answer
  <2>3. \A x : Owed(c, x)' <=> Owed(c, x)
    BY <2>1 DEF Owed, Debt
  <2>4. Answer("err") # Waiting
    BY DEF Waiting, Answer
  <2> QED BY <2>1, <2>2, <2>3, <2>4, AnswerSole
<1>6. CASE ~row.has
  <2>1. Execute(c, TRUE) /\ UNCHANGED extra
    BY <1>6 DEF InsertRow
  <2>2. reply' = [reply EXCEPT ![c] = Answer("true")]
    BY <1>1, <2>1, ExecuteSure
  <2>3. reply'[c] = Answer("true")
    BY <1>1, <2>2 DEF TypeOK
  <2>4. PICK v \in Value :
          row' = [has |-> TRUE, col |-> Assign([f \in BaseField |-> Null], arg, v)]
    BY <1>6 DEF InsertRow
  <2>5. BaseWritten(arg)'
    <3>1. [f \in BaseField |-> Null] \in [BaseField -> DbCell]
      BY DEF DbCell
    <3>2. \A x \in BaseColumns(arg) : arg.col[x] \in Literal \cup {row'.col[x]}
      BY <2>4, <3>1, AssignColumn DEF BaseColumns, Touched
    <3> QED BY <3>2 DEF BaseWritten, InTable, BaseColumns
  <2>6. item.st # "record" /\ inst[i].token = 0
    BY <1>1, <1>2, <1>6 DEF ItemSole, ViewInv, Recorded
  <2>7. ReplySole(c)'
    BY <2>3, <2>4, <2>5 DEF ReplySole, GetsPoints, Answer
  <2>8. InstanceSole(i)'
    BY <1>3, <1>4, <2>6 DEF InstanceSole
  <2>9. FrameSole(Frame(c))'
    BY <1>2, <1>3 DEF FrameSole, Frame, CasPoints, Writing
  <2>10. ItemSole'
    BY <2>6 DEF ItemSole
  <2>11. Answer("true") # Waiting /\ Active(c) /\ row'.has
    BY <2>4 DEF Waiting, Answer, Active, Settled
  <2> QED BY <1>4, <1>6, <2>2, <2>6, <2>7, <2>8, <2>9, <2>10, <2>11, WriterSole
<1> QED BY <1>5, <1>6

(* The UPDATE of the base table: what it assigns was owed.                 *)
LEMMA UpdateRowSole ==
  ASSUME Sole, Held, NEW c \in Call, call[c].pc = "updateBase",
         UpdateRow(c, call[c].upd), UNCHANGED <<item, inst, call>>
  PROVE  SoleInv'
<1> DEFINE k == call[c]
           i == k.task.on
<1>1. TypeOK /\ SoleInv /\ ViewInv /\ TokenInv /\ Serial /\ ItemSole /\ ~DbFaults /\ row \in Row
  BY DEF Held, DerivedInv, Sole, SoleInv, TypeOK, TokenInv
<1>2. FrameSole(Frame(c)) /\ Frame(c).k = k /\ Frame(c).o = inst[i] /\ k.task \in Task[c]
      /\ i \in Instance /\ k.upd \in Payload
  BY <1>1 DEF SoleInv, CallSole, Frame, TypeOK, CallType, TaskType
<1>3. k.task.op = "update"
  BY <1>2 DEF FrameSole
<1>4. Writes(i)
  BY <1>2, <1>3, ReadersLoad
<1>5. Active(c) /\ Alone(c)
  BY <1>1, AloneFacts DEF Active, Settled
<1>6. CASE ~row.has
  <2>1. Execute(c, FALSE) /\ UNCHANGED <<row, extra>>
    <3>1. row.has = FALSE
      BY <1>1, <1>6 DEF Row
    <3> QED BY <3>1 DEF UpdateRow
  <2>2. reply[c] = Waiting /\ reply' = [reply EXCEPT ![c] = Answer("false")]
    BY <1>1, <2>1, ExecuteSure
  <2>3. reply'[c] = Answer("false")
    BY <1>1, <2>2 DEF TypeOK
  <2>4. ReplySole(c)'
    BY <1>6, <2>1, <2>3 DEF ReplySole, GetsPoints, Answer
  <2>5. Answer("false") # Waiting /\ item.st # "record"
    BY <1>1, <1>6 DEF Waiting, Answer, ItemSole
  <2> QED BY <2>1, <2>2, <2>4, <2>5, AnswerSole
<1>7. CASE row.has
  <2>1. Execute(c, TRUE) /\ UNCHANGED extra
    BY <1>7 DEF UpdateRow
  <2>2. reply[c] = Waiting /\ reply' = [reply EXCEPT ![c] = Answer("true")]
    BY <1>1, <2>1, ExecuteSure
  <2>3. /\ reply'[c] = Answer("true") /\ \A d \in Call : Frame(d)' = Frame(d)
        /\ \A d \in Call : d # c => \A x : Owed(d, x)' <=> Owed(d, x)
        /\ Made' <=> Made
    BY <1>1, <2>2, OthersAnswered
  <2>4. PICK v \in Value : row' = [row EXCEPT !.col = Assign(@, k.upd, v)]
    BY <1>7 DEF UpdateRow
  <2>5. row'.has /\ row'.col = Assign(row.col, k.upd, v) /\ row.col \in [BaseField -> DbCell]
    <3>1. row.col \in [BaseField -> DbCell]
      BY <1>1 DEF Row
    <3>2. row'.has
      BY <1>1, <1>7, <2>4 DEF Row
    <3>3. row'.col = Assign(row.col, k.upd, v)
      BY <1>1, <2>4 DEF Row
    <3> QED BY <3>1, <3>2, <3>3
  <2>6. \A x \in BaseField :
          /\ k.upd.col[x] = Absent => row'.col[x] = row.col[x]
          /\ k.upd.col[x] # Absent => k.upd.col[x] \in Literal \cup {row'.col[x]}
    BY <2>5, AssignColumn
  <2>7. \A x, u : k.upd.col[x] = Absent /\ InTable(x, u) => InTable(x, u)'
    BY <2>1, <2>6 DEF InTable, ExtraView
  <2>8. \A x \in BaseField : k.upd.col[x] # Absent => InTable(x, k.upd.col[x])'
    BY <2>6 DEF InTable
  <2>9. \A x \in ExtraField : \A u : InTable(x, u) => InTable(x, u)'
    BY <2>1, FieldAssumption DEF InTable, ExtraView
  <2>10. inst[i].token # 0 /\ item.st = "record"
    <3>1. inst[i].token # 0
      BY <1>2, <1>3, <1>7 DEF FrameSole, Writing
    <3> QED BY <1>1, <1>2, <3>1 DEF ViewInv, Recorded
  <2>11. \A x : /\ Owed(c, x) <=> k.upd.col[x] # Absent
                /\ Owed(c, x)' <=> x \in ExtraField /\ k.upd.col[x] # Absent
    <3>1. Answer("true") # Waiting
      BY DEF Waiting, Answer
    <3> QED BY <1>3, <2>2, <2>3, <3>1 DEF Owed, Debt
  <2>12. \A d \in Call : \A x : Owed(d, x)' => d = c
    BY <1>4, <1>5, <2>3, SoleDebtor
  <2>13. ASSUME NEW x \in Column
         PROVE  /\ \A d \in Call : Owed(d, x)' => item.val.col[x] \in {Absent, call[d].upd.col[x]}
                /\ \/ item.val.col[x] = Absent \/ InTable(x, item.val.col[x])'
                   \/ \E d \in Call : Owed(d, x)'
    <3>1. k.upd.col[x] # Absent => item.val.col[x] \in {Absent, k.upd.col[x]}
      BY <1>1, <2>10, <2>11 DEF ItemSole
    <3>2. k.upd.col[x] = Absent =>
            item.val.col[x] = Absent \/ InTable(x, item.val.col[x])
      BY <1>4, <1>5, <2>10, <2>11, SettledColumns
    <3>3. \A d \in Call : Owed(d, x)' => item.val.col[x] \in {Absent, call[d].upd.col[x]}
      BY <2>11, <2>12, <3>1
    <3>4. CASE k.upd.col[x] = Absent
      <4>1. item.val.col[x] = Absent \/ InTable(x, item.val.col[x])'
        BY <2>7, <3>2, <3>4
      <4> QED BY <3>3, <4>1
    <3>5. CASE k.upd.col[x] # Absent /\ x \in BaseField
      <4>1. item.val.col[x] = Absent \/ InTable(x, item.val.col[x])'
        BY <2>8, <3>1, <3>5 DEF InTable
      <4> QED BY <3>3, <4>1
    <3>6. CASE k.upd.col[x] # Absent /\ x \in ExtraField
      BY <2>11, <3>3, <3>6
    <3> QED BY <3>4, <3>5, <3>6 DEF Column
  <2>14. ItemSole'
    BY <1>1, <2>3, <2>5, <2>10, <2>13 DEF ItemSole, NoExtra
  <2>15. InstanceSole(i)'
    <3>1. InstanceSole(i)
      BY <1>1, <1>2 DEF SoleInv
    <3> QED BY <1>7, <3>1 DEF InstanceSole, Busy
  <2>16. BaseWritten(k.upd)'
    BY <2>8 DEF BaseWritten, BaseColumns, Touched
  <2>17. ReplySole(c)'
    BY <2>3, <2>16 DEF ReplySole, GetsPoints, Answer
  <2>18. FrameSole(Frame(c))'
    <3>1. \A x \in Touched(k.task.arg) \ Touched(k.upd) : InTable(x, k.task.arg.col[x])'
      BY <1>2, <1>3, <1>7, <2>7 DEF FrameSole, Writing, Touched
    <3> QED BY <1>2, <1>3, <1>7, <2>3, <3>1 DEF FrameSole, CasPoints, Writing
  <2>19. Answer("true") # Waiting
    BY DEF Waiting, Answer
  <2> QED BY <1>4, <1>5, <2>2, <2>5, <2>10, <2>14, <2>15, <2>17, <2>18, <2>19, WriterSole
<1> QED BY <1>6, <1>7

(* With a default for extra columns that is what an INSERT leaves, the     *)
(* INSERT of the extra row changes no column that it is not given.         *)
LEMMA InsertExtraSole ==
  ASSUME Sole, Held, NEW c \in Call, call[c].pc = "insertExtra", reply[c] = Waiting,
         InsertExtra(c, Written(call[c]), OwnKey(inst[call[c].task.on]), WellFormed(call[c])),
         UNCHANGED <<item, inst, call>>
  PROVE  SoleInv'
<1> DEFINE k == call[c]
           i == k.task.on
           u == Written(k)
<1>1. TypeOK /\ SoleInv /\ ViewInv /\ TokenInv /\ Serial /\ ItemSole /\ ~DbFaults
  BY DEF Held, DerivedInv, Sole, SoleInv, TokenInv
<1>2. FrameSole(Frame(c)) /\ Frame(c).k = k /\ Frame(c).o = inst[i] /\ k.task \in Task[c]
      /\ i \in Instance /\ k.upd \in Payload /\ Asks(Frame(c))
  BY <1>1 DEF SoleInv, CallSole, Frame, TypeOK, CallType, TaskType
<1>3. k.task.op \in {"insert", "update"} /\ OwnKey(inst[i])
  BY <1>2, KeyIsOwn DEF FrameSole, Held
<1>4. Writes(i)
  BY <1>2, <1>3, ReadersLoad
<1>5. Active(c) /\ Alone(c)
  BY <1>1, AloneFacts DEF Active, Settled
<1>6. /\ Touched(k.task.arg) \cap DerivedField = {} /\ Touched(k.task.arg) \subseteq Field
      /\ \A x \in ExtraField : k.task.arg.col[x] \notin Literal
  BY <1>2, TaskAssumption DEF Sole, Touched
<1>7. k.task.op = "update" /\ row.has => ~extra.has /\ WellFormed(k)
  <2> SUFFICES ASSUME k.task.op = "update", row.has PROVE ~extra.has /\ WellFormed(k)
    OBVIOUS
  <2>1. Within(k.upd, k.task.arg) /\ ~extra.has
    BY <1>2 DEF FrameSole, Asks, Writing
  <2>2. ASSUME NEW x \in ExtraField PROVE k.upd.col[x] \notin Literal
    <3>1. k.upd.col[x] \in {Absent, k.task.arg.col[x]}
      BY <2>1 DEF Within, Field
    <3> QED BY <1>6, <3>1, CellAssumption
  <2> QED BY <2>1, <2>2 DEF WellFormed
<1>8. CASE extra.has \/ ~WellFormed(k)
  <2>1. Settle(c, Answer("err"), FALSE) /\ UNCHANGED <<row, extra>>
    BY <1>3, <1>8 DEF InsertExtra
  <2>2. reply' = [reply EXCEPT ![c] = Answer("err")]
    BY <2>1, SettleCases
  <2>3. reply'[c] = Answer("err")
    BY <1>1, <2>2 DEF TypeOK
  <2>4. ReplySole(c)'
    BY <1>7, <1>8, <2>1, <2>3 DEF ReplySole, GetsPoints, Answer
  <2>5. Answer("err") # Waiting
    BY DEF Waiting, Answer
  <2>6. item.st = "record" => k.task.op # "update"
    BY <1>1, <1>7, <1>8 DEF ItemSole
  <2>7. item.st = "record" => \A x \in Column : Owed(c, x)' <=> Owed(c, x)
    BY <2>6 DEF Owed, Debt
  <2> QED BY <2>1, <2>2, <2>4, <2>5, <2>7, AnswerSole
<1>9. CASE ~extra.has /\ WellFormed(k)
  <2>1. Execute(c, TRUE) /\ UNCHANGED row
    BY <1>3, <1>9 DEF InsertExtra
  <2>2. reply' = [reply EXCEPT ![c] = Answer("true")]
    BY <1>1, <2>1, ExecuteSure
  <2>3. /\ reply'[c] = Answer("true") /\ \A d \in Call : Frame(d)' = Frame(d)
        /\ \A d \in Call : d # c => \A x : Owed(d, x)' <=> Owed(d, x)
        /\ Made' <=> Made
    BY <1>1, <2>2, OthersAnswered
  <2>4. PICK v \in Value :
          extra' = [has |-> TRUE, col |-> Assign([x \in ExtraField |-> ExtraOmitted], u, v)]
    BY <1>3, <1>9 DEF InsertExtra
  <2>5. \A x \in ExtraField :
          /\ u.col[x] = Absent => ExtraView'[x] = ExtraDefault
          /\ u.col[x] # Absent => u.col[x] \in Literal \cup {ExtraView'[x]}
    <3>1. [x \in ExtraField |-> ExtraOmitted] \in [ExtraField -> DbCell]
      BY CellAssumption DEF DbCell
    <3>2. ExtraView' = Assign([x \in ExtraField |-> ExtraOmitted], u, v)
      BY <2>4 DEF ExtraView
    <3>3. ExtraOmitted = ExtraDefault
      BY DEF Sole
    <3> QED BY <3>1, <3>2, <3>3, AssignColumn
  <2>6. \A x \in ExtraField : ExtraView[x] = ExtraDefault
    BY <1>9 DEF ExtraView, ExtraTableDefaults
  <2>7. \A x \in ExtraField : u.col[x] \notin Literal
    BY <1>6, <1>9 DEF Written, WellFormed
  <2>8. \A x \in BaseField : \A w : InTable(x, w)' <=> InTable(x, w)
    BY <2>1 DEF InTable
  <2>9. \A x \in ExtraField : u.col[x] # Absent => InTable(x, u.col[x])'
    BY <2>5, <2>7, FieldAssumption DEF InTable
  <2>10. \A x \in ExtraField : \A w : u.col[x] = Absent /\ InTable(x, w) => InTable(x, w)'
    BY <2>5, <2>6, FieldAssumption DEF InTable
  <2>11. ExtraWritten(u)'
    BY <2>9 DEF ExtraWritten, ExtraColumns, Touched
  <2>12. \A w : BaseWritten(w)' <=> BaseWritten(w)
    BY <2>8 DEF BaseWritten, BaseColumns
  <2>13. \A x : /\ ~Owed(c, x)'
                /\ Owed(c, x) <=> /\ k.task.op = "update" /\ k.upd.col[x] # Absent
                                  /\ x \in ExtraField
    BY <2>3 DEF Owed, Debt, Waiting, Answer
  <2>14. \A d \in Call : \A x : ~Owed(d, x)'
    BY <1>4, <1>5, <2>3, <2>13, SoleDebtor
  <2>15. ASSUME item.st = "record", NEW x \in Column
         PROVE  item.val.col[x] = Absent \/ InTable(x, item.val.col[x])'
    <3>1. CASE x \in BaseField
      <4>1. ~Owed(c, x)
        BY <2>13, <3>1, FieldAssumption
      <4>2. item.val.col[x] = Absent \/ InTable(x, item.val.col[x])
        BY <1>4, <1>5, <2>15, <4>1, SettledColumns
      <4> QED BY <2>8, <3>1, <4>2
    <3>2. CASE x \in ExtraField /\ k.task.op = "update"
      <4>1. u = k.upd
        BY <3>2 DEF Written
      <4>2. CASE u.col[x] = Absent
        <5>1. item.val.col[x] = Absent \/ InTable(x, item.val.col[x])
          BY <1>4, <1>5, <2>13, <2>15, <4>1, <4>2, SettledColumns
        <5> QED BY <2>10, <3>2, <4>2, <5>1
      <4>3. CASE u.col[x] # Absent
        <5>1. item.val.col[x] \in {Absent, u.col[x]}
          BY <1>1, <2>13, <2>15, <3>2, <4>1, <4>3 DEF ItemSole
        <5> QED BY <2>9, <3>2, <4>3, <5>1
      <4> QED BY <4>2, <4>3
    <3>3. CASE x \in ExtraField /\ k.task.op = "insert"
      <4>1. ~Made
        <5> SUFFICES ASSUME NEW d \in Call, call[d].task.op \in {"load", "insert"},
                            call[d].pc = "resolved", Writes(call[d].task.on)
                     PROVE  FALSE
          BY DEF Made
        <5>1. call[d].task.on \in Instance
          BY <1>1 DEF TypeOK, CallType, TaskType
        <5>2. call[d].task.on = i
          BY <1>2, <1>4, <5>1 DEF Sole
        <5> QED BY <1>1, <3>3, <5>2 DEF Serial, Makes
      <4> QED BY <1>1, <2>15, <3>3, <4>1 DEF ItemSole, NoExtra
    <3> QED BY <1>3, <3>1, <3>2, <3>3 DEF Column
  <2>16. ItemSole'
    BY <1>1, <2>1, <2>3, <2>14, <2>15 DEF ItemSole, NoExtra
  <2>17. InstanceSole(i)'
    <3>1. InstanceSole(i)
      BY <1>1, <1>2 DEF SoleInv
    <3> QED BY <2>1, <3>1 DEF InstanceSole, Busy
  <2>18. ReplySole(c)'
    <3>1. Answer("true").st = "true"
      BY DEF Answer
    <3> QED BY <2>3, <2>11, <3>1 DEF ReplySole, GetsPoints, Written
  <2>19. FrameSole(Frame(c))'
    <3>1. k.task.op = "update" /\ row.has =>
            \A x \in Touched(k.task.arg) \ Touched(k.upd) : InTable(x, k.task.arg.col[x])'
      <4> SUFFICES ASSUME k.task.op = "update", row.has,
                          NEW x \in Touched(k.task.arg) \ Touched(k.upd)
                   PROVE  InTable(x, k.task.arg.col[x])'
        OBVIOUS
      <4>1. InTable(x, k.task.arg.col[x])
        BY <1>2 DEF FrameSole, Writing
      <4>2. x \in BaseField \cup ExtraField /\ k.upd.col[x] = Absent /\ u = k.upd
        BY <1>6 DEF Touched, Field, Written
      <4> QED BY <2>8, <2>10, <4>1, <4>2
    <3> QED BY <1>2, <2>1, <2>3, <2>12, <3>1 DEF FrameSole, CasPoints, Writing
  <2>20. Answer("true") # Waiting
    BY DEF Waiting, Answer
  <2> QED BY <1>4, <1>5, <2>1, <2>2, <2>16, <2>17, <2>18, <2>19, <2>20, WriterSole
<1> QED BY <1>8, <1>9

(* The UPDATE of the extra table: what it assigns was owed.                *)
LEMMA UpdateExtraSole ==
  ASSUME Sole, Held, NEW c \in Call, call[c].pc = "updateExtra",
         UpdateExtra(c, call[c].upd, OwnKey(inst[call[c].task.on])),
         UNCHANGED <<item, inst, call>>
  PROVE  SoleInv'
<1> DEFINE k == call[c]
           i == k.task.on
<1>1. TypeOK /\ SoleInv /\ ViewInv /\ TokenInv /\ Serial /\ ItemSole /\ ~DbFaults
      /\ extra \in ExtraRow
  BY DEF Held, DerivedInv, Sole, SoleInv, TypeOK, TokenInv
<1>2. FrameSole(Frame(c)) /\ Frame(c).k = k /\ Frame(c).o = inst[i] /\ k.task \in Task[c]
      /\ i \in Instance /\ k.upd \in Payload
  BY <1>1 DEF SoleInv, CallSole, Frame, TypeOK, CallType, TaskType
<1>3. k.task.op = "update" /\ OwnKey(inst[i])
  BY <1>2, KeyIsOwn DEF FrameSole, Held
<1>4. Writes(i)
  BY <1>2, <1>3, ReadersLoad
<1>5. Active(c) /\ Alone(c)
  BY <1>1, AloneFacts DEF Active, Settled
<1>6. /\ Touched(k.task.arg) \cap DerivedField = {} /\ Touched(k.task.arg) \subseteq Field
      /\ \A x \in ExtraField : k.task.arg.col[x] \notin Literal
  BY <1>2, TaskAssumption DEF Sole, Touched
<1>7. CASE ~extra.has
  <2>1. Execute(c, FALSE) /\ UNCHANGED <<row, extra>>
    <3>1. extra.has = FALSE
      BY <1>1, <1>7 DEF ExtraRow
    <3> QED BY <1>3, <3>1 DEF UpdateExtra
  <2>2. reply[c] = Waiting /\ reply' = [reply EXCEPT ![c] = Answer("false")]
    BY <1>1, <2>1, ExecuteSure
  <2>3. reply'[c] = Answer("false")
    BY <1>1, <2>2 DEF TypeOK
  <2>4. Answer("false") # Waiting /\ Answer("false") # Answer("true")
    BY DEF Waiting, Answer
  <2>5. ReplySole(c)'
    BY <1>7, <2>1, <2>3, <2>4 DEF ReplySole, GetsPoints
  <2>6. \A x : Owed(c, x)' <=> Owed(c, x)
    BY <2>2, <2>3, <2>4 DEF Owed, Debt
  <2> QED BY <2>1, <2>2, <2>4, <2>5, <2>6, AnswerSole
<1>8. CASE extra.has
  <2>1. Execute(c, TRUE) /\ UNCHANGED row
    <3>1. extra.has = TRUE
      BY <1>1, <1>8 DEF ExtraRow
    <3> QED BY <1>3, <3>1 DEF UpdateExtra
  <2>2. reply[c] = Waiting /\ reply' = [reply EXCEPT ![c] = Answer("true")]
    BY <1>1, <2>1, ExecuteSure
  <2>3. /\ reply'[c] = Answer("true") /\ \A d \in Call : Frame(d)' = Frame(d)
        /\ \A d \in Call : d # c => \A x : Owed(d, x)' <=> Owed(d, x)
        /\ Made' <=> Made
    BY <1>1, <2>2, OthersAnswered
  <2>4. PICK v \in Value : extra' = [extra EXCEPT !.col = Assign(@, k.upd, v)]
    BY <1>3, <1>8 DEF UpdateExtra
  <2>5. /\ extra.col \in [ExtraField -> DbCell]
        /\ ExtraView = extra.col /\ ExtraView' = Assign(extra.col, k.upd, v)
    <3>1. extra.col \in [ExtraField -> DbCell]
      BY <1>1 DEF ExtraRow
    <3>2. extra'.has /\ extra'.col = Assign(extra.col, k.upd, v)
      BY <1>1, <1>8, <2>4 DEF ExtraRow
    <3> QED BY <1>8, <3>1, <3>2 DEF ExtraView
  <2>6. \A x \in ExtraField :
          /\ k.upd.col[x] = Absent => ExtraView'[x] = ExtraView[x]
          /\ k.upd.col[x] # Absent => k.upd.col[x] \in Literal \cup {ExtraView'[x]}
    BY <2>5, AssignColumn
  <2>7. row.has => \A x \in ExtraField : k.upd.col[x] \notin Literal
    <3> SUFFICES ASSUME row.has, NEW x \in ExtraField PROVE k.upd.col[x] \notin Literal
      OBVIOUS
    <3>1. Within(k.upd, k.task.arg)
      BY <1>2, <1>3 DEF FrameSole, Writing
    <3>2. k.upd.col[x] \in {Absent, k.task.arg.col[x]}
      BY <3>1 DEF Within, Field
    <3> QED BY <1>6, <3>2, CellAssumption
  <2>8. \A x \in BaseField : \A w : InTable(x, w)' <=> InTable(x, w)
    BY <2>1 DEF InTable
  <2>9. row.has => \A x \in ExtraField : k.upd.col[x] # Absent => InTable(x, k.upd.col[x])'
    BY <2>6, <2>7, FieldAssumption DEF InTable
  <2>10. \A x \in ExtraField : \A w : k.upd.col[x] = Absent /\ InTable(x, w) => InTable(x, w)'
    BY <2>6, FieldAssumption DEF InTable
  <2>11. row.has => ExtraWritten(k.upd)'
    BY <2>9 DEF ExtraWritten, ExtraColumns, Touched
  <2>12. \A w : BaseWritten(w)' <=> BaseWritten(w)
    BY <2>8 DEF BaseWritten, BaseColumns
  <2>13. \A x : /\ ~Owed(c, x)'
                /\ Owed(c, x) <=> k.upd.col[x] # Absent /\ x \in ExtraField
    BY <1>3, <2>2, <2>3 DEF Owed, Debt, Waiting, Answer
  <2>14. \A d \in Call : \A x : ~Owed(d, x)'
    BY <1>4, <1>5, <2>3, <2>13, SoleDebtor
  <2>15. ASSUME item.st = "record", NEW x \in Column
         PROVE  item.val.col[x] = Absent \/ InTable(x, item.val.col[x])'
    <3>1. CASE x \in BaseField
      <4>1. ~Owed(c, x)
        BY <2>13, <3>1, FieldAssumption
      <4>2. item.val.col[x] = Absent \/ InTable(x, item.val.col[x])
        BY <1>4, <1>5, <2>15, <4>1, SettledColumns
      <4> QED BY <2>8, <3>1, <4>2
    <3>2. CASE x \in ExtraField /\ k.upd.col[x] = Absent
      <4>1. item.val.col[x] = Absent \/ InTable(x, item.val.col[x])
        BY <1>4, <1>5, <2>13, <2>15, <3>2, SettledColumns
      <4> QED BY <2>10, <3>2, <4>1
    <3>3. CASE x \in ExtraField /\ k.upd.col[x] # Absent
      <4>1. item.val.col[x] \in {Absent, k.upd.col[x]} /\ row.has
        BY <1>1, <2>13, <2>15, <3>3 DEF ItemSole
      <4> QED BY <2>9, <3>3, <4>1
    <3> QED BY <3>1, <3>2, <3>3 DEF Column
  <2>16. ItemSole'
    BY <1>1, <2>1, <2>3, <2>14, <2>15 DEF ItemSole, NoExtra
  <2>17. InstanceSole(i)'
    <3>1. InstanceSole(i)
      BY <1>1, <1>2 DEF SoleInv
    <3> QED BY <2>1, <3>1 DEF InstanceSole, Busy
  <2>18. ReplySole(c)'
    BY <2>1, <2>3, <2>11 DEF ReplySole, GetsPoints
  <2>19. FrameSole(Frame(c))'
    <3>1. row.has =>
            \A x \in Touched(k.task.arg) \ Touched(k.upd) : InTable(x, k.task.arg.col[x])'
      <4> SUFFICES ASSUME row.has, NEW x \in Touched(k.task.arg) \ Touched(k.upd)
                   PROVE  InTable(x, k.task.arg.col[x])'
        OBVIOUS
      <4>1. InTable(x, k.task.arg.col[x])
        BY <1>2, <1>3 DEF FrameSole, Writing
      <4>2. x \in BaseField \cup ExtraField /\ k.upd.col[x] = Absent
        BY <1>6 DEF Touched, Field
      <4> QED BY <2>8, <2>10, <4>1, <4>2
    <3> QED BY <1>2, <1>3, <2>1, <2>3, <2>12, <3>1 DEF FrameSole, CasPoints, Writing
  <2>20. Answer("true") # Waiting
    BY DEF Waiting, Answer
  <2> QED BY <1>4, <1>5, <2>1, <2>2, <2>16, <2>17, <2>18, <2>19, <2>20, WriterSole
<1> QED BY <1>7, <1>8

LEMMA DbServeSole ==
  ASSUME Sole, Held, NEW c \in Call, DbServe(c)
  PROVE  SoleInv'
<1>1. reply[c] = Waiting /\ UNCHANGED <<item, casSeq, inst, call>>
  BY DbServeAnswers
<1>2. call[c].pc \notin Dropping /\ ~DbFails(c)
  BY DEF Held, ViewInv, Sole, DbFails
<1> QED BY <1>1, <1>2, SelectSole, SelectExtraSole, InsertRowSole, UpdateRowSole, InsertExtraSole,
           UpdateExtraSole DEF DbServe, Dropping

-----------------------------------------------------------------------------
(* All steps.                                                              *)

LEMMA InitSole ==
  ASSUME Sole, Init
  PROVE  SoleInv
<1>1. \A c \in Call : call[c].pc = "new" /\ reply[c] = Waiting /\ call[c].task \in Task[c]
  BY DEF Init
<1>2. item.st = "none" /\ \A i \in Instance : inst[i] = NewInstance(FALSE)
  BY DEF Init, NoItem
<1>3. ItemSole
  BY <1>2 DEF ItemSole
<1>4. \A i \in Instance : InstanceSole(i)
  BY <1>2 DEF InstanceSole, NewInstance
<1>5. ASSUME NEW c \in Call PROVE CallSole(c)
  <2>1. Frame(c).k.pc = "new"
    BY <1>1 DEF Frame
  <2>2. FrameSole(Frame(c)) /\ Asks(Frame(c))
    BY <2>1 DEF FrameSole, Asks, CasPoints, Writing
  <2> QED BY <1>1, <2>2 DEF CallSole
<1> QED BY <1>3, <1>4, <1>5 DEF SoleInv

(* Every step keeps the invariant, and ends an update or an insert only    *)
(* with its values in the tables.                                          *)
LEMMA SoleStep ==
  ASSUME Sole, Held, TypeOK', [Next]_vars
  PROVE  Upheld
<1>1. ASSUME UNCHANGED call PROVE \A c \in Call : Acks(c)
  BY <1>1 DEF Acks
<1>2. CASE UNCHANGED vars
  <2>1. SoleInv
    BY DEF Held
  <2>2. UNCHANGED <<item, row, extra, reply, inst, call>>
    BY <1>2 DEF vars
  <2>3. /\ \A x, v : InTable(x, v)' <=> InTable(x, v)
        /\ \A u : BaseWritten(u)' <=> BaseWritten(u)
        /\ \A u : ExtraWritten(u)' <=> ExtraWritten(u)
        /\ \A p, j : Selection(p, j)' <=> Selection(p, j)
        /\ \A d, x : Owed(d, x)' <=> Owed(d, x)
        /\ Made' <=> Made
        /\ ExtraView' = ExtraView
    BY <2>2 DEF BaseWritten, ExtraWritten, InTable, ExtraView, Selection, SameBase, Owed, Debt, Made
  <2>4. ItemSole'
    BY <2>1, <2>2, <2>3 DEF SoleInv, ItemSole, NoExtra
  <2>5. \A i \in Instance : InstanceSole(i)'
    BY <2>1, <2>2 DEF SoleInv, InstanceSole, Busy
  <2>6. ASSUME NEW c \in Call PROVE CallSole(c)'
    <3>1. CallSole(c) /\ Frame(c)' = Frame(c)
      BY <2>1, <2>2 DEF SoleInv, Frame
    <3>2. FrameSole(Frame(c))' /\ (Asks(Frame(c))' <=> Asks(Frame(c)))
      BY <2>2, <2>3, <3>1 DEF CallSole, FrameSole, Asks, Puts
    <3>3. ReplySole(c)' <=> ReplySole(c)
      BY <2>2, <2>3 DEF ReplySole
    <3> QED BY <2>2, <3>1, <3>2, <3>3 DEF CallSole
  <2> QED BY <1>1, <2>2, <2>4, <2>5, <2>6 DEF Upheld, SoleInv
<1>3. ASSUME NEW c \in Call, Serve(c) PROVE Upheld
  <2>1. UNCHANGED call
    BY <1>3, DbServeAnswers DEF Serve, CacheServe
  <2> QED BY <1>1, <1>3, <2>1, CacheServeSole, DbServeSole DEF Serve, Upheld
<1>4. ~Evict
  BY DEF Evict, Sole, Lasting
<1> QED BY <1>2, <1>3, <1>4, StartSole, ContinueSole DEF Next, Quiet

(* The invariant of the writer holds in every reachable state.             *)
THEOREM SoleInvariance ==
  ASSUME Sole
  PROVE  Spec => []SoleInv
<1>1. Init => SoleInv
  BY InitSole
<1>2. /\ DerivedInv /\ DerivedInv' /\ TokenInv /\ ViewInv /\ KeyInv /\ SoleInv
      /\ [Next]_vars
      => SoleInv'
  BY SoleStep DEF Held, DerivedInv, Upheld
<1>3. Lasting /\ ~SharedExtraKey
  BY DEF Sole
<1>4. Spec => []ViewInv /\ []KeyInv
  BY <1>3, ViewInvariance, KeyInvariance
<1> QED BY <1>1, <1>2, <1>4, DerivedInvariance, TokenInvariance, PTL DEF Spec

(* While one instance writes, one method at a time, nothing takes the      *)
(* record out of the cache, and the extra table's key column has a name of *)
(* its own: an insert that resolves, and an update that resolves through   *)
(* an instance that has its key, has put its values in the tables, with    *)
(* the columns that sanitiseUpdatePayload dropped (the record the instance *)
(* holds is the one cached, and that shows the tables), and with the extra *)
(* row updated or else inserted.  An update through an instance without    *)
(* its key, as after a load that found no row, is not spoken of: it        *)
(* resolves with nothing stored.                                           *)
THEOREM AcknowledgedStored ==
  ASSUME Sole
  PROVE  Spec => AckMeansStored
<1>1. /\ DerivedInv /\ DerivedInv' /\ TokenInv /\ ViewInv /\ KeyInv /\ KeyInv' /\ SoleInv
      /\ [Next]_vars
      => \A c \in Call :
           /\ call[c].pc # "resolved" /\ call'[c].pc = "resolved"
           /\ \/ call[c].task.op = "insert"
              \/ call[c].task.op = "update" /\ Keyed(inst'[call[c].task.on])
           => Holds(call[c].task.arg)'
  <2> SUFFICES ASSUME DerivedInv, DerivedInv', TokenInv, ViewInv, KeyInv, KeyInv', SoleInv,
                      [Next]_vars, NEW c \in Call,
                      call[c].pc # "resolved", call'[c].pc = "resolved",
                      \/ call[c].task.op = "insert"
                      \/ call[c].task.op = "update" /\ Keyed(inst'[call[c].task.on])
               PROVE  Holds(call[c].task.arg)'
    OBVIOUS
  <2>1. Acked(call[c].task)' /\ call'[c].task = call[c].task
    BY SoleStep DEF Held, DerivedInv, Upheld, Acks
  <2>2. row'.has
    <3>1. CASE call[c].task.op = "insert"
      BY <2>1, <3>1 DEF Acked
    <3>2. CASE Keyed(inst'[call[c].task.on])
      <4>1. call[c].task.on \in Instance
        BY DEF DerivedInv, TypeOK, CallType, TaskType
      <4>2. TrueKey(inst[call[c].task.on].record)'
        BY <2>1, <4>1 DEF KeyInv
      <4> QED BY <2>1, <3>2, <4>2 DEF Keyed, TrueKey
    <3> QED BY <3>1, <3>2
  <2> QED BY <2>1, <2>2 DEF Acked, Holds
<1>2. Lasting /\ ~SharedExtraKey
  BY DEF Sole
<1>3. Spec => []ViewInv /\ []KeyInv
  BY <1>2, ViewInvariance, KeyInvariance
<1> QED BY <1>1, <1>3, DerivedInvariance, TokenInvariance, SoleInvariance, PTL
        DEF Spec, AckMeansStored

(* And with no call under way the extra columns of the cached record show  *)
(* the extra row: those that readExtraData added to it, and those that     *)
(* updates have written since.                                             *)
THEOREM ExtraColumnsAgree ==
  ASSUME Sole
  PROVE  Spec => []IdleExtraAgreement
<1>1. SoleInv => IdleExtraAgreement
  <2> SUFFICES ASSUME SoleInv, Idle, item.st = "record", extra.has, NEW x \in ExtraField
               PROVE  item.val.col[x] \in {Absent, extra.col[x]}
    BY DEF IdleExtraAgreement
  <2>1. \A c \in Call : ~Owed(c, x)
    BY OwedActs DEF Idle
  <2>2. item.val.col[x] = Absent \/ InTable(x, item.val.col[x])
    BY <2>1 DEF SoleInv, ItemSole, Column
  <2> QED BY <2>2, FieldAssumption DEF InTable, ExtraView
<1> QED BY <1>1, SoleInvariance, PTL
=============================================================================
