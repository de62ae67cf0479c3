---------------------------- MODULE TokenProofs -----------------------------
(***************************************************************************)
(* Proofs about DatabaseRecord: CAS tokens.  No call holds the token of a  *)
(* deletion marker, so only a forced load overwrites one; and with one     *)
(* method at a time on each instance, a record held with a current token   *)
(* agrees with the entry, so a CAS loses no other writer's columns.        *)
(***************************************************************************)
EXTENDS DerivedProofs

-----------------------------------------------------------------------------
(* What the code between two awaits may come to.                           *)

Kept(f, g) == g.k.task = f.k.task /\ g.k.upd = f.k.upd

(* AfterUpdateCache: on to the statements, or to the end.                  *)
Persisted(f, g) ==
  /\ g.o = f.o /\ Kept(f, g)
  /\ g.k.pc \in {"updateBase", "updateExtra", "resolved", "rejected"}
  /\ f.k.task.op = "readExtra" => g.k.pc = "resolved"
  /\ f.k.task.op # "readExtra" /\ BaseColumns(f.k.upd) # {} => g.k.pc = "updateBase"

(* PerformCasUpdate, while attempts are left.                              *)
Candidate(f, g, record, token, attempt) ==
  /\ Kept(f, g)
  /\ g.o = [f.o EXCEPT !.view = ClearFields(f.o.view, f.k.upd)]
  /\ g.k.pc = "cas" /\ g.k.val = ApplyUpdate(record, f.k.upd)
  /\ g.k.tok = token /\ g.k.att = attempt

(* UpdateCache.                                                            *)
Updated(f, g) ==
  IF CacheEnabled /\ f.o.token # 0
  THEN Candidate(f, g, f.o.record, f.o.token, 1)
  ELSE Persisted(Merge(f, f.k.upd), g)

(* Body: no update, or one of columns that its caller gave.                *)
Within(u, v) == \A x \in Field : u.col[x] \in {Absent, v.col[x]}

Settles(f, g) ==
  /\ g.o = f.o /\ Kept(f, g)
  /\ g.k.pc \in {"resolved", "rejected", "insertExtra", "deleteBase", "selectExtra"}
  /\ f.k.task.op \in {"load", "update"} => g.k.pc = "resolved"
  /\ g.k.pc = "selectExtra" => f.k.task.op \in {"readExtra", "unCache"} /\ f.o.has
  /\ g.k.pc = "insertExtra" => f.k.task.op = "insert"
  /\ g.k.pc = "deleteBase" => f.k.task.op = "delete"

Runs(f, g) ==
  \/ Settles(f, g)
  \/ /\ f.k.task.op = "update"
     /\ \E u \in Payload : Within(u, f.k.task.arg) /\ Updated([f EXCEPT !.k.upd = u], g)

LEMMA GoFacts ==
  ASSUME NEW f \in FrameType, NEW pc
  PROVE  /\ Go(f, pc).o = f.o /\ Kept(f, Go(f, pc)) /\ Go(f, pc).k.pc = pc
         /\ Go(f, pc).k.val = f.k.val /\ Go(f, pc).k.tok = f.k.tok
         /\ Go(f, pc).k.att = f.k.att
BY DEF FrameType, CallType, Go, Kept

LEMMA ForgetFacts ==
  ASSUME NEW f \in FrameType
  PROVE  Forget(f) \in FrameType /\ Forget(f).o = f.o /\ Kept(f, Forget(f))
BY BlankType DEF FrameType, CallType, Forget, Kept

LEMMA SettleFacts ==
  ASSUME NEW f \in FrameType
  PROVE  /\ Resolve(f).o = f.o /\ Kept(f, Resolve(f)) /\ Resolve(f).k.pc = "resolved"
         /\ Reject(f).o = f.o /\ Kept(f, Reject(f)) /\ Reject(f).k.pc = "rejected"
BY ForgetFacts, GoFacts DEF Resolve, Reject, Kept

LEMMA PersistExtraFacts ==
  ASSUME NEW f \in FrameType
  PROVE  /\ PersistExtra(f).o = f.o /\ Kept(f, PersistExtra(f))
         /\ PersistExtra(f).k.pc \in {"updateExtra", "resolved", "rejected"}
BY SettleFacts, GoFacts DEF PersistExtra, Fire

LEMMA AfterUpdateCacheFacts ==
  ASSUME NEW f \in FrameType
  PROVE  Persisted(f, AfterUpdateCache(f))
<1> DEFINE g == Forget(f)
<1>1. g \in FrameType /\ g.o = f.o /\ Kept(f, g)
  BY ForgetFacts
<1> HIDE DEF g
<1>2. /\ PersistExtra(g).o = g.o /\ Kept(g, PersistExtra(g))
      /\ PersistExtra(g).k.pc \in {"updateExtra", "resolved", "rejected"}
  BY <1>1, PersistExtraFacts
<1>3. /\ Go(g, "updateBase").o = g.o /\ Kept(g, Go(g, "updateBase"))
      /\ Go(g, "updateBase").k.pc = "updateBase"
  BY <1>1, GoFacts
<1>4. AfterUpdateCache(f) =
        IF f.k.task.op = "readExtra" THEN Resolve(f)
        ELSE IF BaseColumns(g.k.upd) # {} THEN Go(g, "updateBase") ELSE PersistExtra(g)
  BY DEF AfterUpdateCache, PersistUpdate, g
<1> QED BY <1>1, <1>2, <1>3, <1>4, SettleFacts DEF Persisted, Kept

LEMMA PerformCasUpdateFacts ==
  ASSUME NEW f \in FrameType, NEW record, NEW token, NEW attempt
  PROVE  IF attempt > MaxCasAttempts
         THEN Persisted(f, PerformCasUpdate(f, record, token, attempt))
         ELSE Candidate(f, PerformCasUpdate(f, record, token, attempt), record, token, attempt)
<1>1. CASE attempt > MaxCasAttempts
  BY <1>1, AfterUpdateCacheFacts DEF PerformCasUpdate
<1>2. CASE ~(attempt > MaxCasAttempts)
  BY <1>2 DEF PerformCasUpdate, Candidate, Kept, FrameType, CallType, InstanceType
<1> QED BY <1>1, <1>2

LEMMA MergeFacts ==
  ASSUME NEW f \in FrameType, NEW u \in Payload
  PROVE  /\ Merge(f, u) \in FrameType /\ Merge(f, u).k = f.k
         /\ Merge(f, u).o = [f.o EXCEPT !.has = TRUE, !.record = MergeRecord(f.o.record, u),
                                        !.view = ApplyRecordToInstance(f.o.view, u)]
BY MergeRecordType, ViewType DEF Merge, FrameType, InstanceType

LEMMA UpdateCacheFacts ==
  ASSUME NEW f \in FrameType
  PROVE  Updated(f, UpdateCache(f))
<1>1. CASE CacheEnabled /\ f.o.token # 0
  <2>1. ~(1 > MaxCasAttempts)
    BY BoundAssumption
  <2> QED BY <1>1, <2>1, PerformCasUpdateFacts DEF UpdateCache, Updated
<1>2. CASE ~(CacheEnabled /\ f.o.token # 0)
  <2>1. f.k.upd \in Payload
    BY DEF FrameType, CallType
  <2>2. Merge(f, f.k.upd) \in FrameType
    BY <2>1, MergeFacts
  <2> QED BY <1>2, <2>2, AfterUpdateCacheFacts DEF UpdateCache, Updated
<1> QED BY <1>1, <1>2

LEMMA SanitiseWithin ==
  ASSUME NEW u \in Payload, NEW p
  PROVE  Within(Sanitise(u, p), u) /\ Within(u, u)
BY DEF Sanitise, Within, Payload

LEMMA BodyFacts ==
  ASSUME NEW f \in FrameType
  PROVE  Runs(f, Body(f))
<1>1. f.k.task.op \in Op /\ f.k.task.arg \in Payload /\ f.o.record \in Payload
  BY DEF FrameType, CallType, TaskType, InstanceType
<1>2. CASE f.k.task.op = "update"
  <2> DEFINE u == IF f.o.has THEN Sanitise(f.k.task.arg, f.o.record) ELSE f.k.task.arg
             h == [f EXCEPT !.k.upd = u]
  <2>1. u \in Payload /\ Within(u, f.k.task.arg)
    BY <1>1, SanitiseWithin, SanitiseType
  <2> HIDE DEF u
  <2>2. h \in FrameType
    BY <2>1 DEF FrameType, CallType
  <2>3. Updated(h, UpdateCache(h))
    BY <2>2, UpdateCacheFacts
  <2>4. Body(f) = IF Touched(u) = {} THEN Resolve(f) ELSE UpdateCache(h)
    BY <1>2 DEF Body, Update, u
  <2> HIDE DEF h
  <2>5. CASE Touched(u) = {}
    BY <1>2, <2>4, <2>5, SettleFacts DEF Runs, Settles
  <2>6. CASE Touched(u) # {}
    BY <1>2, <2>1, <2>3, <2>4, <2>6 DEF Runs, h
  <2> QED BY <2>5, <2>6
<1>3. CASE f.k.task.op # "update"
  <2>1. Settles(f, Resolve(f))
    BY SettleFacts DEF Settles
  <2>2. CASE f.k.task.op = "load"
    BY <2>1, <2>2 DEF Body, Runs
  <2>3. CASE f.k.task.op = "insert"
    BY <2>3, SettleFacts, GoFacts DEF Body, InsertExtraRow, Fire, Runs, Settles
  <2>4. CASE f.k.task.op = "delete"
    BY <2>4, GoFacts DEF Body, Runs, Settles
  <2>5. CASE f.k.task.op \in {"readExtra", "unCache"}
    BY <2>1, <2>5, GoFacts DEF Body, ReadExtraData, Runs, Settles
  <2> QED BY <1>1, <1>3, <2>2, <2>3, <2>4, <2>5 DEF Op
<1> QED BY <1>2, <1>3
-----------------------------------------------------------------------------
(* What the servers may do.                                                *)

CacheServed(c, s) ==
  LET k == call[c]
  IN  /\ reply[c] = Waiting /\ reply' = [reply EXCEPT ![c] = s]
      /\ s = Answer("err") => CacheFaults
      /\ UNCHANGED <<row, extra, inst, call>>
      /\ \/ k.pc \in GetsPoints /\ s = item /\ UNCHANGED <<item, casSeq>>
         \/ k.pc = "store" /\ s \in {Answer("true"), Answer("err")} /\ Store("record", k.val)
            /\ (inst[k.task.on].force \/ item.st = "none")
         \/ k.pc = "store" /\ s \in {Answer("false"), Answer("err")} /\ UNCHANGED <<item, casSeq>>
            /\ item.st # "none"
         \/ k.pc = "cas" /\ s \in {Answer("true"), Answer("err")} /\ Store("record", k.val)
            /\ item.st # "none" /\ item.cas = k.tok
         \/ k.pc = "cas" /\ s \in {Answer("false"), Answer("err")} /\ UNCHANGED <<item, casSeq>>
            /\ (item.st = "none" \/ item.cas # k.tok)
         \/ k.pc = "del" /\ s \in {Answer("true"), Answer("err")} /\ item' = NoItem
            /\ casSeq' = casSeq
         \/ k.pc = "mark" /\ s \in {Answer("true"), Answer("err")} /\ Store("deleted", Blank)
            /\ item.st = "none"
         \/ k.pc = "mark" /\ s \in {Answer("false"), Answer("err")} /\ UNCHANGED <<item, casSeq>>
         \/ k.pc \in CachePoints /\ s = Answer("err") /\ UNCHANGED <<item, casSeq>>

LEMMA SettleCases ==
  ASSUME NEW c, NEW r, NEW lossy \in BOOLEAN, Settle(c, r, lossy)
  PROVE  /\ reply[c] = Waiting
         /\ \/ reply' = [reply EXCEPT ![c] = r]
            \/ lossy /\ reply' = [reply EXCEPT ![c] = Answer("err")]
BY DEF Settle

LEMMA AnswersDiffer ==
  ASSUME NEW s, NEW t, s # t
  PROVE  Answer(s) # Answer(t)
BY DEF Answer

LEMMA CacheServeCases ==
  ASSUME NEW c \in Call, item \in Item, CacheServe(c)
  PROVE  \E s : CacheServed(c, s)
<1> DEFINE k == call[c]
<1> USE CacheFaultsAssumption
<1>1. UNCHANGED <<row, extra, inst, call>>
  BY DEF CacheServe
<1>2. item # Answer("err")
  BY DEF Answer, Item
<1>3. /\ Answer("true") # Answer("err") /\ Answer("false") # Answer("err")
  BY AnswersDiffer
<1>4. ASSUME NEW r \in {item, Answer("true"), Answer("false"), Answer("err")},
             NEW lossy \in BOOLEAN,
             Settle(c, r, lossy), lossy \/ r = Answer("err") => CacheFaults
      PROVE  \E s : /\ reply[c] = Waiting /\ reply' = [reply EXCEPT ![c] = s]
                    /\ s \in {r, Answer("err")} /\ (s = Answer("err") => CacheFaults)
                    /\ ~lossy => s = r
  BY <1>2, <1>3, <1>4, SettleCases
<1>5. CASE k.pc \in GetsPoints /\ Gets(c)
  <2>1. Settle(c, item, FALSE) /\ UNCHANGED <<item, casSeq>>
    BY <1>5 DEF Gets
  <2>2. reply[c] = Waiting /\ reply' = [reply EXCEPT ![c] = item]
    BY <2>1, SettleCases
  <2>3. CacheServed(c, item)
    BY <1>1, <1>2, <1>5, <2>1, <2>2 DEF CacheServed
  <2> QED BY <2>3
<1>6. CASE k.pc = "store" /\ inst[k.task.on].force /\ Set(c, k.val)
  <2>1. Settle(c, Answer("true"), CacheFaults) /\ Store("record", k.val)
    BY <1>6 DEF Set
  <2>2. PICK s : /\ reply[c] = Waiting /\ reply' = [reply EXCEPT ![c] = s]
                 /\ s \in {Answer("true"), Answer("err")} /\ (s = Answer("err") => CacheFaults)
    BY <1>3, <1>4, <2>1
  <2>3. CacheServed(c, s)
    BY <1>1, <1>6, <2>1, <2>2 DEF CacheServed
  <2> QED BY <2>3
<1>7. CASE k.pc = "store" /\ Add(c, "record", k.val)
  <2>1. CASE item.st = "none" /\ Store("record", k.val) /\ Settle(c, Answer("true"), CacheFaults)
    <3>1. PICK s : /\ reply[c] = Waiting /\ reply' = [reply EXCEPT ![c] = s]
                   /\ s \in {Answer("true"), Answer("err")} /\ (s = Answer("err") => CacheFaults)
      BY <1>3, <1>4, <2>1
    <3>2. CacheServed(c, s)
      BY <1>1, <1>7, <2>1, <3>1 DEF CacheServed
    <3> QED BY <3>2
  <2>2. CASE /\ item.st # "none" /\ Settle(c, Answer("false"), CacheFaults)
             /\ UNCHANGED <<item, casSeq>>
    <3>1. PICK s : /\ reply[c] = Waiting /\ reply' = [reply EXCEPT ![c] = s]
                   /\ s \in {Answer("false"), Answer("err")} /\ (s = Answer("err") => CacheFaults)
      BY <1>3, <1>4, <2>2
    <3>2. CacheServed(c, s)
      BY <1>1, <1>7, <2>2, <3>1 DEF CacheServed
    <3> QED BY <3>2
  <2> QED BY <1>7, <2>1, <2>2 DEF Add
<1>8. CASE k.pc = "cas" /\ Cas(c, k.val, k.tok)
  <2>1. CASE item.st # "none" /\ item.cas = k.tok /\ Store("record", k.val)
             /\ Settle(c, Answer("true"), CacheFaults)
    <3>1. PICK s : /\ reply[c] = Waiting /\ reply' = [reply EXCEPT ![c] = s]
                   /\ s \in {Answer("true"), Answer("err")} /\ (s = Answer("err") => CacheFaults)
      BY <1>3, <1>4, <2>1
    <3>2. CacheServed(c, s)
      BY <1>1, <1>8, <2>1, <3>1 DEF CacheServed
    <3> QED BY <3>2
  <2>2. CASE (item.st = "none" \/ item.cas # k.tok) /\ Settle(c, Answer("false"), CacheFaults)
             /\ UNCHANGED <<item, casSeq>>
    <3>1. PICK s : /\ reply[c] = Waiting /\ reply' = [reply EXCEPT ![c] = s]
                   /\ s \in {Answer("false"), Answer("err")} /\ (s = Answer("err") => CacheFaults)
      BY <1>3, <1>4, <2>2
    <3>2. CacheServed(c, s)
      BY <1>1, <1>8, <2>2, <3>1 DEF CacheServed
    <3> QED BY <3>2
  <2> QED BY <1>8, <2>1, <2>2 DEF Cas
<1>9. CASE k.pc = "del" /\ Del(c)
  <2>1. item' = NoItem /\ casSeq' = casSeq /\ Settle(c, Answer("true"), CacheFaults)
    BY <1>9 DEF Del
  <2>2. PICK s : /\ reply[c] = Waiting /\ reply' = [reply EXCEPT ![c] = s]
                 /\ s \in {Answer("true"), Answer("err")} /\ (s = Answer("err") => CacheFaults)
    BY <1>3, <1>4, <2>1
  <2>3. CacheServed(c, s)
    BY <1>1, <1>9, <2>1, <2>2 DEF CacheServed
  <2> QED BY <2>3
<1>10. CASE k.pc \in CachePoints /\ CacheFails(c)
  <2>1. CacheFaults /\ Settle(c, Answer("err"), FALSE) /\ UNCHANGED <<item, casSeq>>
    BY <1>10 DEF CacheFails
  <2>2. reply[c] = Waiting /\ reply' = [reply EXCEPT ![c] = Answer("err")]
    BY <2>1, SettleCases
  <2>3. CacheServed(c, Answer("err"))
    BY <1>1, <1>10, <2>1, <2>2 DEF CacheServed
  <2> QED BY <2>3
<1>11. CASE k.pc = "mark" /\ Add(c, "deleted", Blank)
  <2>1. CASE item.st = "none" /\ Store("deleted", Blank) /\ Settle(c, Answer("true"), CacheFaults)
    <3>1. PICK s : /\ reply[c] = Waiting /\ reply' = [reply EXCEPT ![c] = s]
                   /\ s \in {Answer("true"), Answer("err")} /\ (s = Answer("err") => CacheFaults)
      BY <1>3, <1>4, <2>1
    <3>2. CacheServed(c, s)
      BY <1>1, <1>11, <2>1, <3>1 DEF CacheServed
    <3> QED BY <3>2
  <2>2. CASE /\ item.st # "none" /\ Settle(c, Answer("false"), CacheFaults)
             /\ UNCHANGED <<item, casSeq>>
    <3>1. PICK s : /\ reply[c] = Waiting /\ reply' = [reply EXCEPT ![c] = s]
                   /\ s \in {Answer("false"), Answer("err")} /\ (s = Answer("err") => CacheFaults)
      BY <1>3, <1>4, <2>2
    <3>2. CacheServed(c, s)
      BY <1>1, <1>11, <2>2, <3>1 DEF CacheServed
    <3> QED BY <3>2
  <2> QED BY <1>11, <2>1, <2>2 DEF Add
<1> HIDE DEF k
<1> QED BY <1>5, <1>6, <1>7, <1>8, <1>9, <1>10, <1>11, Zenon DEF CacheServe, k
-----------------------------------------------------------------------------
(* Tokens.  A token that fits is one the server gave out, and not that of  *)
(* the deletion marker; a stale one is not that of the item there is now,  *)
(* and will never be again.                                                *)

Fit(t) == t # 0 => t <= casSeq /\ (item.st = "deleted" => t # item.cas)

Stale(t) == item.st = "none" \/ t # item.cas

Preserved(p, q, S) == \A x \in (BaseField \cup DerivedField) \ S : p.col[x] = q.col[x]

Affected(u) == Touched(u) \cup Dependents(u)

ItemFit == item.cas <= casSeq /\ (item.st # "none" => item.cas # 0)

(* With one method at a time, an instance that holds a current token holds *)
(* the record that is cached, but for the extra columns it has read.       *)
InstanceFit(o) ==
  /\ Fit(o.token)
  /\ ~Overlap => /\ ~o.has => o.token = 0
                 /\ ~Stale(o.token) => Preserved(o.record, item.val, {})

Loading == {"insertBase", "cached", "select", "store", "fresh"}

(* A CAS that can still succeed was built on the record that is cached.    *)
FrameFit(f) ==
  /\ f.k.pc = "cas" => f.k.tok # 0 /\ Fit(f.k.tok)
  /\ ~Overlap =>
       /\ f.k.pc \in Loading => f.o.token = 0
       /\ f.k.pc = "cas" => /\ f.k.tok = f.o.token \/ Stale(f.o.token)
                            /\ ~Stale(f.k.tok) =>
                                 Preserved(f.k.val, item.val, Affected(f.k.upd))
       /\ f.k.pc \in {"refresh", "reread"} => Stale(f.o.token)

ReplyFit(c) ==
  /\ call[c].pc \in GetsPoints /\ reply[c].st = "record" =>
       /\ reply[c].cas # 0 /\ Fit(reply[c].cas)
       /\ ~Stale(reply[c].cas) => reply[c].val = item.val
  /\ call[c].pc = "cas" /\ reply[c].st \in {"true", "false"} => Stale(call[c].tok)

(* One method at a time on each instance, after the one that made it.      *)
Serial ==
  \A c \in Call :
    /\ \A d \in Call : call[d].task.on = call[c].task.on =>
         /\ Active(c) /\ Active(d) => c = d
         /\ /\ Makes(c, call[c].task.on) /\ call[c].pc # "new"
            /\ Makes(d, call[d].task.on) /\ call[d].pc # "new"
            => c = d
    /\ call[c].pc # "new" /\ ~Makes(c, call[c].task.on) =>
         \E d \in Call : Makes(d, call[c].task.on) /\ call[d].pc = "resolved"

TokenInv ==
  /\ ItemFit
  /\ ~Overlap => Serial
  /\ \A i \in Instance : InstanceFit(inst[i])
  /\ \A c \in Call : FrameFit(Frame(c)) /\ ReplyFit(c)
(* What a step may do to the item, and what that does to tokens.           *)
ItemStep ==
  \/ UNCHANGED <<item, casSeq>>
  \/ casSeq' = casSeq + 1 /\ item'.cas = casSeq' /\ item'.st # "none"
  \/ casSeq' = casSeq /\ item' = NoItem

LEMMA FitStays ==
  ASSUME item \in Item, casSeq \in Nat, ItemFit, ItemStep
  PROVE  /\ ItemFit'
         /\ \A t \in Nat : Fit(t) => /\ Fit(t)'
                                     /\ Stale(t) => Stale(t)'
                                     /\ ~Stale(t)' => ~Stale(t) /\ item' = item
BY DEF ItemFit, ItemStep, Fit, Stale, Item, NoItem

LEMMA ZeroFit ==
  ASSUME ItemFit
  PROVE  Fit(0) /\ Stale(0)
BY DEF ItemFit, Fit, Stale

FrameGood(f) == FrameOK(f) /\ InstanceFit(f.o)

Goes(f, g) == g.k.task = f.k.task /\ g.k.pc # "new" /\ InstanceFit(g.o) /\ FrameFit(g)

LEMMA ApplyUpdateKeeps ==
  ASSUME NEW p \in Payload, NEW u \in Payload
  PROVE  \A x \in Field \ Affected(u) : ApplyUpdate(p, u).col[x] = p.col[x]
BY CellAssumption DEF ApplyUpdate, MergeRecord, Affected, Touched

LEMMA PersistedFit ==
  ASSUME NEW f, InstanceFit(f.o), NEW g, Persisted(f, g)
  PROVE  Goes(f, g)
BY DEF Persisted, Goes, Kept, FrameFit, Loading

LEMMA CandidateFit ==
  ASSUME NEW f \in FrameType, InstanceFit(f.o), NEW g,
         NEW record \in Payload, NEW token \in Nat, NEW attempt,
         Candidate(f, g, record, token, attempt), token # 0, Fit(token),
         ~Overlap => token = f.o.token \/ Stale(f.o.token),
         ~Overlap /\ ~Stale(token) => Preserved(record, item.val, {})
  PROVE  Goes(f, g)
<1>1. InstanceFit(g.o) /\ g.o.token = f.o.token
  BY DEF Candidate, InstanceFit, FrameType, InstanceType
<1>2. f.k.upd \in Payload /\ g.k.upd = f.k.upd
  BY DEF FrameType, CallType, Candidate, Kept
<1>3. ~Overlap /\ ~Stale(token) =>
        Preserved(ApplyUpdate(record, f.k.upd), item.val, Affected(f.k.upd))
  BY <1>2, ApplyUpdateKeeps DEF Preserved, Field
<1> QED BY <1>1, <1>2, <1>3 DEF Candidate, Kept, Goes, FrameFit, Loading

LEMMA UpdatedFit ==
  ASSUME ItemFit, NEW f, FrameGood(f), NEW g, Updated(f, g)
  PROVE  Goes(f, g)
<1>1. f \in FrameType /\ InstanceFit(f.o) /\ (f.o.token # 0 => CacheEnabled)
  BY DEF FrameGood, FrameOK, FrameSound
<1>2. f.o.record \in Payload /\ f.o.token \in Nat /\ f.k.upd \in Payload
  BY <1>1 DEF FrameType, InstanceType, CallType
<1>3. CASE f.o.token # 0
  <2>1. Candidate(f, g, f.o.record, f.o.token, 1)
    BY <1>1, <1>3 DEF Updated
  <2>2. Fit(f.o.token) /\ (~Overlap /\ ~Stale(f.o.token) => Preserved(f.o.record, item.val, {}))
    BY <1>1 DEF InstanceFit
  <2> QED BY <1>1, <1>2, <1>3, <2>1, <2>2, CandidateFit, Zenon
<1>4. CASE f.o.token = 0
  <2>1. /\ Merge(f, f.k.upd).o.token = 0 /\ Merge(f, f.k.upd).o.has = TRUE
        /\ Merge(f, f.k.upd).k = f.k
    BY <1>1, <1>4 DEF Merge, FrameType, InstanceType
  <2>2. InstanceFit(Merge(f, f.k.upd).o)
    BY <2>1, ZeroFit DEF InstanceFit
  <2>3. Goes(Merge(f, f.k.upd), g)
    BY <1>4, <2>2, PersistedFit DEF Updated
  <2> QED BY <2>1, <2>3 DEF Goes
<1> QED BY <1>3, <1>4

LEMMA RunsFit ==
  ASSUME ItemFit, NEW f, FrameGood(f), NEW g, Runs(f, g)
  PROVE  Goes(f, g)
<1>1. CASE Settles(f, g)
  <2>1. g.o = f.o /\ g.k.task = f.k.task
        /\ g.k.pc \in {"resolved", "rejected", "insertExtra", "deleteBase", "selectExtra"}
    BY <1>1 DEF Settles, Kept
  <2>2. FrameFit(g)
    BY <2>1 DEF FrameFit, Loading
  <2> QED BY <2>1, <2>2 DEF FrameGood, Goes
<1>2. ASSUME NEW u \in Payload, Within(u, f.k.task.arg), Updated([f EXCEPT !.k.upd = u], g)
      PROVE  Goes(f, g)
  <2>1. NoDerived(f.k.task.arg)
    BY DEF FrameGood, FrameOK, FrameSound
  <2>2. NoDerived(u)
    BY <1>2, <2>1 DEF NoDerived, Within, Field
  <2>3. FrameOK([f EXCEPT !.k.upd = u])
    BY <1>2, <2>2, SetUpdOK DEF FrameGood
  <2>4. [f EXCEPT !.k.upd = u].o = f.o /\ [f EXCEPT !.k.upd = u].k.task = f.k.task
    BY DEF FrameGood, FrameOK, FrameType, CallType
  <2>5. FrameGood([f EXCEPT !.k.upd = u])
    BY <2>3, <2>4 DEF FrameGood
  <2>6. Goes([f EXCEPT !.k.upd = u], g)
    BY <1>2, <2>5, UpdatedFit
  <2> QED BY <2>4, <2>6 DEF Goes
<1> QED BY <1>1, <1>2 DEF Runs

LEMMA BodyFit ==
  ASSUME ItemFit, NEW f, FrameGood(f)
  PROVE  Goes(f, Body(f))
BY BodyFacts, RunsFit DEF FrameGood, FrameOK

(* A record that came with a token, and one that came without.             *)
LEMMA AdoptGood ==
  ASSUME NEW f, FrameGood(f), NEW r \in Reply, WellDerived(r.val), CacheEnabled,
         r.cas # 0, Fit(r.cas), ~Stale(r.cas) => r.val = item.val
  PROVE  /\ FrameGood(Adopt(f, r)) /\ Adopt(f, r).k = f.k
         /\ Adopt(f, r).o.token = r.cas
<1>1. FrameOK(Adopt(f, r))
  BY AdoptOK DEF FrameGood
<1>2. /\ Adopt(f, r).o.token = r.cas /\ Adopt(f, r).o.has
      /\ Adopt(f, r).o.record = r.val /\ Adopt(f, r).k = f.k
  BY DEF Adopt, SetRecord, FrameGood, FrameOK, FrameType, InstanceType
<1>3. InstanceFit(Adopt(f, r).o)
  BY <1>2 DEF InstanceFit, Preserved
<1> QED BY <1>1, <1>2, <1>3 DEF FrameGood

LEMMA SetRecordGood ==
  ASSUME NEW f, FrameGood(f), NEW p \in Payload, WellDerived(p), ~Overlap => Stale(f.o.token)
  PROVE  /\ FrameGood(SetRecord(f, p)) /\ SetRecord(f, p).k = f.k
         /\ SetRecord(f, p).o.token = f.o.token
<1>1. FrameOK(SetRecord(f, p))
  BY SetRecordOK DEF FrameGood
<1>2. /\ SetRecord(f, p).o.token = f.o.token /\ SetRecord(f, p).o.has
      /\ SetRecord(f, p).o.record = p /\ SetRecord(f, p).k = f.k
  BY DEF SetRecord, FrameGood, FrameOK, FrameType, InstanceType
<1>3. InstanceFit(SetRecord(f, p).o)
  BY <1>2 DEF InstanceFit, FrameGood
<1> QED BY <1>1, <1>2, <1>3 DEF FrameGood

LEMMA InCacheGood ==
  ASSUME NEW f, FrameGood(f), NEW b \in BOOLEAN
  PROVE  FrameGood([f EXCEPT !.o.inCache = b]) /\ [f EXCEPT !.o.inCache = b].k = f.k
<1>1. FrameOK([f EXCEPT !.o.inCache = b])
  BY InCacheOK DEF FrameGood
<1> QED BY <1>1 DEF FrameGood, FrameOK, FrameType, InstanceType, InstanceFit

-----------------------------------------------------------------------------
(* One method at a time.                                                   *)

Alone(c) == \A d \in Call : call[d].task.on = call[c].task.on /\ Active(d) => d = c

LEMMA SerialContinues ==
  ASSUME TypeOK, Serial, NEW c \in Call, Active(c), NEW k \in CallType,
         call' = [call EXCEPT ![c] = k], k.task = call[c].task, k.pc # "new"
  PROVE  Serial'
<1>1. \A d \in Call : /\ call'[d].task = call[d].task
                      /\ Active(d)' => Active(d)
                      /\ call'[d].pc # "new" => call[d].pc # "new"
                      /\ call[d].pc = "resolved" => call'[d].pc = "resolved"
  BY DEF TypeOK, Active, Settled
<1>2. \A d \in Call : \A i : Makes(d, i)' <=> Makes(d, i)
  BY <1>1 DEF Makes
<1> QED BY <1>1, <1>2 DEF Serial

LEMMA SerialStarts ==
  ASSUME TypeOK, Serial, ~Overlap, NEW c \in Call, Startable(c), NEW k \in CallType,
         call' = [call EXCEPT ![c] = k], k.task = call[c].task, k.pc # "new"
  PROVE  Serial' /\ Alone(c)
<1>1. \A d \in Call : /\ call'[d].task = call[d].task
                      /\ d # c => call'[d] = call[d]
                      /\ call[d].pc = "resolved" => call'[d].pc = "resolved"
  BY DEF TypeOK, Startable
<1>2. \A d \in Call : \A i : Makes(d, i)' <=> Makes(d, i)
  BY <1>1 DEF Makes
<1>3. \A d \in Call : call[d].task.on = call[c].task.on => ~Active(d)
  <2>1. CASE Makes(c, call[c].task.on)
    <3>1. \A d \in Call : Makes(d, call[c].task.on) => call[d].pc = "new"
      BY <2>1 DEF Startable
    <3>2. \A d \in Call : call[d].task.on = call[c].task.on => call[d].pc = "new"
      BY <3>1 DEF Serial, Makes
    <3> QED BY <3>2 DEF Active
  <2>2. CASE ~Makes(c, call[c].task.on)
    BY <2>2 DEF Startable
  <2> QED BY <2>1, <2>2
<1>4. Makes(c, call[c].task.on) =>
        \A d \in Call : Makes(d, call[c].task.on) => call[d].pc = "new"
  BY DEF Startable
<1>5. ~Makes(c, call[c].task.on) =>
        \E d \in Call : Makes(d, call[c].task.on) /\ call[d].pc = "resolved"
  BY DEF Startable
<1>6. \A d \in Call : d # c => (Active(d)' <=> Active(d))
  BY <1>1 DEF Active
<1>7. Alone(c)
  BY <1>3 DEF Alone
<1>8. ASSUME NEW a \in Call, NEW d \in Call, call'[d].task.on = call'[a].task.on
      PROVE  /\ Active(a)' /\ Active(d)' => a = d
             /\ /\ Makes(a, call[a].task.on)' /\ call'[a].pc # "new"
                /\ Makes(d, call[d].task.on)' /\ call'[d].pc # "new"
                => a = d
  <2>1. call[d].task.on = call[a].task.on
    BY <1>1, <1>8
  <2>2. Active(a)' /\ Active(d)' => a = d
    BY <1>3, <1>6, <2>1 DEF Serial
  <2>3. ASSUME Makes(a, call[a].task.on), call'[a].pc # "new",
               Makes(d, call[d].task.on), call'[d].pc # "new"
        PROVE  a = d
    BY <1>1, <1>4, <2>1, <2>3 DEF Serial, Makes
  <2> QED BY <1>1, <2>2, <2>3 DEF Makes
<1>9. ASSUME NEW a \in Call, call'[a].pc # "new", ~Makes(a, call[a].task.on)'
      PROVE  \E d \in Call : Makes(d, call[a].task.on)' /\ call'[d].pc = "resolved"
  <2>1. ~Makes(a, call[a].task.on)
    BY <1>1, <1>9 DEF Makes
  <2>2. PICK d \in Call : Makes(d, call[a].task.on) /\ call[d].pc = "resolved"
    BY <1>1, <1>5, <1>9, <2>1 DEF Serial
  <2> QED BY <1>1, <2>2 DEF Makes
<1> QED BY <1>7, <1>8, <1>9 DEF Serial
LEMMA AloneFacts ==
  ASSUME Serial, NEW c \in Call, Active(c)
  PROVE  Alone(c)
BY DEF Serial, Alone

(* A step that runs a call on with a fit frame preserves the invariant.    *)
LEMMA TokenResume ==
  ASSUME DerivedInv, DerivedInv', TokenInv, NEW c \in Call, NEW g, Resume(c, g),
         reply' = [reply EXCEPT ![c] = Waiting], Goes(Frame(c), g),
         Active(c) \/ Startable(c)
  PROVE  TokenInv'
<1> DEFINE i == call[c].task.on
<1>1. TypeOK /\ TypeOK' /\ ItemFit
  BY DEF DerivedInv, TokenInv
<1>2. /\ call' = [call EXCEPT ![c] = g.k] /\ inst' = [inst EXCEPT ![i] = g.o]
      /\ g.k.task = call[c].task /\ g.k.pc # "new" /\ UNCHANGED <<item, casSeq>>
      /\ InstanceFit(g.o) /\ FrameFit(g)
  BY DEF Resume, Goes, Frame
<1>3. i \in Instance /\ g.k \in CallType
  <2>1. call'[c] = g.k /\ call[c] \in CallType /\ call'[c] \in CallType
    BY <1>1, <1>2 DEF TypeOK
  <2> QED BY <2>1 DEF CallType, TaskType
<1> HIDE DEF i
<1>4. ~Overlap => Serial' /\ Alone(c)
  BY <1>1, <1>2, <1>3, SerialContinues, SerialStarts, AloneFacts DEF TokenInv
<1>5. \A t : (Fit(t)' <=> Fit(t)) /\ (Stale(t)' <=> Stale(t))
  BY <1>2 DEF Fit, Stale
<1>6. \A j \in Instance : InstanceFit(inst[j])'
  BY <1>1, <1>2, <1>3, <1>5 DEF TypeOK, TokenInv, InstanceFit
<1>7. ASSUME NEW d \in Call PROVE FrameFit(Frame(d))' /\ ReplyFit(d)'
  <2>1. CASE d = c
    <3>1. Frame(c)'.k = g.k /\ Frame(c)'.o = g.o
      BY <1>1, <1>2, <1>3 DEF TypeOK, Frame, i
    <3>2. FrameFit(Frame(c))'
      BY <1>2, <1>5, <3>1 DEF FrameFit
    <3>3. reply'[c] = Waiting
      BY <1>1 DEF TypeOK
    <3> QED BY <2>1, <3>2, <3>3 DEF ReplyFit, Waiting, Answer
  <2>2. CASE d # c
    <3>1. call'[d] = call[d] /\ reply'[d] = reply[d]
      BY <1>1, <1>2, <2>2 DEF TypeOK
    <3>2. ReplyFit(d)'
      BY <1>2, <1>5, <3>1 DEF TokenInv, ReplyFit
    <3>3. FrameFit(Frame(d))
      BY DEF TokenInv
    <3>4. CASE call[d].task.on # i
      <4>1. call[d].task.on \in Instance
        BY <1>1 DEF TypeOK, CallType, TaskType
      <4>2. Frame(d)'.k = Frame(d).k /\ Frame(d)'.o = Frame(d).o
        BY <1>1, <1>2, <3>1, <3>4, <4>1 DEF TypeOK, Frame
      <4> QED BY <1>2, <1>5, <3>2, <3>3, <4>2 DEF FrameFit
    <3>5. CASE call[d].task.on = i
      <4>1. Frame(d)'.k = Frame(d).k
        BY <3>1 DEF Frame
      <4>2. ~Overlap => ~Active(d)
        BY <1>4, <2>2, <3>5 DEF Alone, i
      <4>3. ~Overlap => call[d].pc \notin Loading \cup {"cas", "refresh", "reread"}
        BY <4>2 DEF Active, Loading, Settled
      <4> QED BY <1>5, <3>2, <3>3, <4>1, <4>3 DEF FrameFit, Frame
    <3> QED BY <3>4, <3>5
  <2> QED BY <2>1, <2>2
<1>8. ItemFit'
  BY <1>1, <1>2 DEF ItemFit
<1> QED BY <1>4, <1>6, <1>7, <1>8 DEF TokenInv
-----------------------------------------------------------------------------
(* One action after the other.                                             *)

LEMMA AnswerFit ==
  ASSUME DerivedInv, TokenInv, NEW c \in Call, NEW pc \in CachePoints \cup DbPoints,
         Answered(c, pc)
  PROVE  /\ FrameGood(Frame(c)) /\ FrameFit(Frame(c)) /\ ReplyFit(c) /\ Active(c)
         /\ Frame(c).k = call[c] /\ call[c].pc = pc /\ ItemFit
         /\ reply[c] \in Reply /\ WellDerived(reply[c].val) /\ reply[c] # Waiting
         /\ pc \in CachePoints => CacheEnabled
         /\ reply' = [reply EXCEPT ![c] = Waiting]
<1>1. /\ FrameOK(Frame(c)) /\ reply[c] \in Reply /\ WellDerived(reply[c].val)
      /\ pc \in CachePoints => CacheEnabled
  BY AnswerOK
<1>2. call[c].task.on \in Instance
  BY DEF DerivedInv, TypeOK, CallType, TaskType
<1>3. InstanceFit(Frame(c).o)
  BY <1>2 DEF TokenInv, Frame
<1>4. Active(c)
  BY DEF Answered, Active, CachePoints, GetsPoints, DbPoints, Settled
<1> QED BY <1>1, <1>3, <1>4 DEF FrameGood, TokenInv, Answered, Frame

LEMMA SelfGoes ==
  ASSUME NEW f, FrameGood(f), NEW pc, pc \notin Loading \cup {"new", "cas", "refresh", "reread"}
  PROVE  Goes(f, Go(f, pc)) /\ Goes(f, Resolve(f)) /\ Goes(f, Reject(f))
<1>1. f \in FrameType
  BY DEF FrameGood, FrameOK
<1>2. /\ Go(f, pc).k.task = f.k.task /\ Go(f, pc).k.pc = pc /\ Go(f, pc).o = f.o
      /\ Resolve(f).k.task = f.k.task /\ Resolve(f).k.pc = "resolved" /\ Resolve(f).o = f.o
      /\ Reject(f).k.task = f.k.task /\ Reject(f).k.pc = "rejected" /\ Reject(f).o = f.o
  BY <1>1, GoFacts, SettleFacts DEF Kept
<1> QED BY <1>2 DEF FrameGood, Goes, FrameFit, Loading

LEMMA LoadingGoes ==
  ASSUME NEW f, FrameGood(f), ~Overlap => f.o.token = 0, NEW pc \in Loading
  PROVE  Goes(f, Go(f, pc)) /\ Goes(f, Initialise(f))
<1>1. f \in FrameType
  BY DEF FrameGood, FrameOK
<1>2. \A q \in Loading : /\ Go(f, q).k.task = f.k.task /\ Go(f, q).k.pc = q
                         /\ Go(f, q).o = f.o
  BY <1>1, GoFacts DEF Kept
<1>3. \A q \in Loading : Goes(f, Go(f, q))
  BY <1>2 DEF FrameGood, Goes, FrameFit, Loading
<1> QED BY <1>3 DEF Initialise, Loading

LEMMA AfterUpdateCacheGoes ==
  ASSUME NEW f, FrameGood(f)
  PROVE  Goes(f, AfterUpdateCache(f))
BY AfterUpdateCacheFacts, PersistedFit DEF FrameGood, FrameOK

LEMMA CachedFit ==
  ASSUME DerivedInv, DerivedInv', TokenInv, NEW c \in Call, Cached(c)
  PROVE  TokenInv'
<1> DEFINE f == Frame(c)
           r == reply[c]
<1>1. Answered(c, "cached") /\ "cached" \in CachePoints
  BY DEF Cached, CachePoints, GetsPoints
<1>2. /\ FrameGood(f) /\ FrameFit(f) /\ ReplyFit(c) /\ Active(c) /\ f.k = call[c]
      /\ f.k.pc = "cached" /\ ItemFit /\ r \in Reply /\ WellDerived(r.val) /\ CacheEnabled
      /\ reply' = [reply EXCEPT ![c] = Waiting]
  BY <1>1, AnswerFit
<1>3. Usable(r) => r.cas # 0 /\ Fit(r.cas) /\ (~Stale(r.cas) => r.val = item.val)
  BY <1>2 DEF ReplyFit, Usable, GetsPoints
<1>4. ~Overlap => f.o.token = 0
  BY <1>2 DEF FrameFit, Loading
<1> HIDE DEF f, r
<1>5. Usable(r) => Goes(f, Body([Adopt(f, r) EXCEPT !.o.inCache = TRUE]))
  <2> SUFFICES ASSUME Usable(r) PROVE Goes(f, Body([Adopt(f, r) EXCEPT !.o.inCache = TRUE]))
    OBVIOUS
  <2>1. FrameGood(Adopt(f, r)) /\ Adopt(f, r).k = f.k
    BY <1>2, <1>3, AdoptGood
  <2>2. /\ FrameGood([Adopt(f, r) EXCEPT !.o.inCache = TRUE])
        /\ [Adopt(f, r) EXCEPT !.o.inCache = TRUE].k = f.k
    BY <2>1, InCacheGood
  <2> QED BY <1>2, <2>2, BodyFit DEF Goes
<1>6. Goes(f, Body(f)) /\ Goes(f, Go(f, "select"))
  BY <1>2, <1>4, BodyFit, LoadingGoes DEF Loading
<1> QED BY <1>2, <1>5, <1>6, TokenResume DEF Cached, f, r

LEMMA SelectedFit ==
  ASSUME DerivedInv, DerivedInv', TokenInv, NEW c \in Call, Selected(c)
  PROVE  TokenInv'
<1> DEFINE f == Frame(c)
           r == reply[c]
           loaded == SetRecord(f, r.val)
           storing == [loaded EXCEPT !.k = [@ EXCEPT !.pc = "store", !.val = r.val]]
<1>1. Answered(c, "select") /\ "select" \in DbPoints
  BY DEF Selected, DbPoints
<1>2. /\ FrameGood(f) /\ FrameFit(f) /\ Active(c) /\ f.k = call[c]
      /\ f.k.pc = "select" /\ ItemFit /\ r \in Reply /\ WellDerived(r.val)
      /\ reply' = [reply EXCEPT ![c] = Waiting]
  BY <1>1, AnswerFit
<1>3. ~Overlap => f.o.token = 0
  BY <1>2 DEF FrameFit, Loading
<1> HIDE DEF f, r
<1>4. FrameGood(loaded) /\ loaded.k = f.k /\ loaded.o.token = f.o.token
  BY <1>2, <1>3, SetRecordGood, ZeroFit DEF Reply
<1> HIDE DEF loaded
<1>5. Goes(f, storing)
  <2>1. storing.k.task = f.k.task /\ storing.k.pc = "store" /\ storing.o = loaded.o
    BY <1>4 DEF FrameGood, FrameOK, FrameType, CallType
  <2> QED BY <1>3, <1>4, <2>1 DEF Goes, FrameFit, FrameGood
<1> HIDE DEF storing
<1>6. Goes(f, Body([loaded EXCEPT !.o.inCache = FALSE]))
  <2>1. /\ FrameGood([loaded EXCEPT !.o.inCache = FALSE])
        /\ [loaded EXCEPT !.o.inCache = FALSE].k = f.k
    BY <1>4, InCacheGood
  <2> QED BY <1>2, <2>1, BodyFit DEF Goes
<1>7. Goes(f, Reject(f)) /\ Goes(f, Body(f))
  BY <1>2, SelfGoes, BodyFit DEF Loading
<1> QED BY <1>2, <1>5, <1>6, <1>7, TokenResume DEF Selected, f, r, loaded, storing

LEMMA StoredFit ==
  ASSUME DerivedInv, DerivedInv', TokenInv, NEW c \in Call, Stored(c)
  PROVE  TokenInv'
<1> DEFINE e == Frame(c)
           f == [e EXCEPT !.k.val = Blank]
<1>1. Answered(c, "store") /\ "store" \in CachePoints
  BY DEF Stored, CachePoints
<1>2. /\ FrameGood(e) /\ FrameFit(e) /\ Active(c) /\ e.k.pc = "store" /\ ItemFit
      /\ reply' = [reply EXCEPT ![c] = Waiting] /\ CacheEnabled
  BY <1>1, AnswerFit
<1> HIDE DEF e
<1>3. ~Overlap => e.o.token = 0
  BY <1>2 DEF FrameFit, Loading
<1>4. FrameGood(f) /\ f.o = e.o /\ f.k.task = e.k.task
  <2>1. FrameOK(e)
    BY <1>2 DEF FrameGood
  <2>2. FrameOK(f) /\ f.o = e.o /\ f.k.task = e.k.task
    BY <2>1, BlankType DEF FrameOK, FrameSound, FrameType, CallType
  <2>3. InstanceFit(e.o)
    BY <1>2 DEF FrameGood
  <2> QED BY <2>2, <2>3 DEF FrameGood
<1> HIDE DEF f
<1>5. /\ FrameGood([f EXCEPT !.o.inCache = FALSE])
      /\ [f EXCEPT !.o.inCache = FALSE].k = f.k
  BY <1>4, InCacheGood
<1>6. Goes(e, Body([f EXCEPT !.o.inCache = FALSE]))
  BY <1>2, <1>4, <1>5, BodyFit DEF Goes
<1>7. Goes(e, Go(f, "fresh"))
  <2>1. "fresh" \in Loading /\ (~Overlap => f.o.token = 0)
    BY <1>3, <1>4 DEF Loading
  <2>2. Goes(f, Go(f, "fresh"))
    BY <1>4, <2>1, LoadingGoes
  <2> QED BY <1>4, <2>2 DEF Goes
<1> QED BY <1>2, <1>6, <1>7, TokenResume DEF Stored, f, e

LEMMA FreshFit ==
  ASSUME DerivedInv, DerivedInv', TokenInv, NEW c \in Call, Fresh(c)
  PROVE  TokenInv'
<1> DEFINE f == Frame(c)
           r == reply[c]
           g == IF Usable(r) THEN Adopt(f, r) ELSE f
<1>1. Answered(c, "fresh") /\ "fresh" \in CachePoints
  BY DEF Fresh, CachePoints, GetsPoints
<1>2. /\ FrameGood(f) /\ ReplyFit(c) /\ Active(c) /\ call[c].pc = "fresh"
      /\ ItemFit /\ r \in Reply /\ WellDerived(r.val) /\ CacheEnabled
      /\ reply' = [reply EXCEPT ![c] = Waiting]
  BY <1>1, AnswerFit
<1>3. Usable(r) => r.cas # 0 /\ Fit(r.cas) /\ (~Stale(r.cas) => r.val = item.val)
  BY <1>2 DEF ReplyFit, Usable, GetsPoints
<1> HIDE DEF f, r
<1>4. FrameGood(g) /\ g.k = f.k
  BY <1>2, <1>3, AdoptGood
<1> HIDE DEF g
<1>5. /\ FrameGood([g EXCEPT !.o.inCache = FALSE])
      /\ [g EXCEPT !.o.inCache = FALSE].k = f.k
  BY <1>4, InCacheGood
<1>6. Goes(f, Body([g EXCEPT !.o.inCache = FALSE]))
  BY <1>2, <1>5, BodyFit DEF Goes
<1> QED BY <1>2, <1>6, TokenResume DEF Fresh, f, g, r
LEMMA CasAnsweredFit ==
  ASSUME DerivedInv, DerivedInv', TokenInv, NEW c \in Call, CasAnswered(c)
  PROVE  TokenInv'
<1> DEFINE f == Frame(c)
           r == reply[c]
           g == [f EXCEPT !.k.val = Blank, !.k.tok = 0]
<1>1. Answered(c, "cas") /\ "cas" \in CachePoints
  BY DEF CasAnswered, CachePoints
<1>2. /\ FrameGood(f) /\ FrameFit(f) /\ ReplyFit(c) /\ Active(c) /\ f.k = call[c]
      /\ f.k.pc = "cas" /\ reply' = [reply EXCEPT ![c] = Waiting]
  BY <1>1, AnswerFit
<1>3. r.st \in {"true", "false"} => Stale(f.k.tok)
  BY <1>2 DEF ReplyFit
<1> HIDE DEF f, r
<1>4. ~Overlap /\ r.st \in {"true", "false"} => Stale(f.o.token)
  BY <1>2, <1>3 DEF FrameFit
<1>5. f \in FrameType /\ g \in FrameType /\ g.o = f.o /\ g.k.task = f.k.task
  BY <1>2, BlankType DEF FrameGood, FrameOK, FrameType, CallType
<1> HIDE DEF g
<1>6. /\ Go(f, "refresh").k.task = f.k.task /\ Go(f, "refresh").k.pc = "refresh"
      /\ Go(f, "refresh").o = f.o
      /\ Go(g, "reread").k.task = f.k.task /\ Go(g, "reread").k.pc = "reread"
      /\ Go(g, "reread").o = f.o
  BY <1>5, GoFacts DEF Kept
<1>7. r.st \in {"true", "false"} => Goes(f, Go(f, "refresh")) /\ Goes(f, Go(g, "reread"))
  BY <1>2, <1>4, <1>6 DEF Goes, FrameGood, FrameFit, Loading
<1>8. Goes(f, AfterUpdateCache(f))
  BY <1>2, AfterUpdateCacheGoes
<1> QED BY <1>2, <1>7, <1>8, TokenResume DEF CasAnswered, f, r, g

LEMMA RefreshedFit ==
  ASSUME DerivedInv, DerivedInv', TokenInv, NEW c \in Call, Refreshed(c)
  PROVE  TokenInv'
<1> DEFINE f == Frame(c)
           r == reply[c]
           candidate == SetRecord(f, f.k.val)
<1>1. Answered(c, "refresh") /\ "refresh" \in CachePoints
  BY DEF Refreshed, CachePoints, GetsPoints
<1>2. /\ FrameGood(f) /\ FrameFit(f) /\ ReplyFit(c) /\ Active(c) /\ f.k = call[c]
      /\ f.k.pc = "refresh" /\ ItemFit /\ r \in Reply /\ WellDerived(r.val) /\ CacheEnabled
      /\ reply' = [reply EXCEPT ![c] = Waiting]
  BY <1>1, AnswerFit
<1>3. Usable(r) => r.cas # 0 /\ Fit(r.cas) /\ (~Stale(r.cas) => r.val = item.val)
  BY <1>2 DEF ReplyFit, Usable, GetsPoints
<1>4. ~Overlap => Stale(f.o.token)
  BY <1>2 DEF FrameFit
<1> HIDE DEF f, r
<1>5. FrameGood(candidate) /\ candidate.k = f.k
  <2>1. f.k.val \in Payload /\ WellDerived(f.k.val)
    BY <1>2 DEF FrameGood, FrameOK, FrameSound, FrameType, CallType
  <2> QED BY <1>2, <1>4, <2>1, SetRecordGood
<1> HIDE DEF candidate
<1>6. Usable(r) => FrameGood(Adopt(f, r)) /\ Adopt(f, r).k = f.k
  BY <1>2, <1>3, AdoptGood
<1>7. /\ Usable(r) => Goes(f, AfterUpdateCache(Adopt(f, r)))
      /\ Goes(f, AfterUpdateCache(f)) /\ Goes(f, AfterUpdateCache(candidate))
  BY <1>2, <1>5, <1>6, AfterUpdateCacheGoes DEF Goes
<1> QED BY <1>2, <1>7, TokenResume DEF Refreshed, f, r, candidate

LEMMA RetryFromGoes ==
  ASSUME ItemFit, NEW f, FrameGood(f), ~Overlap => Stale(f.o.token),
         NEW r \in Reply, WellDerived(r.val), CacheEnabled,
         r.cas # 0, Fit(r.cas), ~Stale(r.cas) => r.val = item.val
  PROVE  Goes(f, RetryFrom(f, r))
<1> DEFINE h == SetRecord(f, r.val)
           n == f.k.att + 1
<1>1. r.val \in Payload /\ r.cas \in Nat
  BY DEF Reply
<1>2. FrameGood(h) /\ h.k = f.k /\ h.o.token = f.o.token
  BY <1>1, SetRecordGood
<1>3. RetryFrom(f, r) = PerformCasUpdate(h, r.val, r.cas, n)
  BY DEF RetryFrom
<1> HIDE DEF h, n
<1>4. h \in FrameType /\ InstanceFit(h.o)
  BY <1>2 DEF FrameGood, FrameOK
<1> SUFFICES ASSUME NEW g, g = PerformCasUpdate(h, r.val, r.cas, n)
             PROVE  Goes(h, g)
  BY <1>2, <1>3 DEF Goes
<1>5. IF n > MaxCasAttempts THEN Persisted(h, g) ELSE Candidate(h, g, r.val, r.cas, n)
  BY <1>4, PerformCasUpdateFacts
<1>6. CASE Persisted(h, g)
  BY <1>4, <1>6, PersistedFit
<1>7. CASE Candidate(h, g, r.val, r.cas, n)
  <2>1. ~Stale(r.cas) => Preserved(r.val, item.val, {})
    BY DEF Preserved
  <2> QED BY <1>1, <1>2, <1>4, <1>7, <2>1, CandidateFit
<1> QED BY <1>5, <1>6, <1>7

LEMMA RereadFit ==
  ASSUME DerivedInv, DerivedInv', TokenInv, NEW c \in Call, Reread(c)
  PROVE  TokenInv'
<1> DEFINE f == Frame(c)
           r == reply[c]
<1>1. Answered(c, "reread") /\ "reread" \in CachePoints
  BY DEF Reread, CachePoints, GetsPoints
<1>2. /\ FrameGood(f) /\ FrameFit(f) /\ ReplyFit(c) /\ Active(c) /\ f.k = call[c]
      /\ f.k.pc = "reread" /\ ItemFit /\ r \in Reply /\ WellDerived(r.val) /\ CacheEnabled
      /\ reply' = [reply EXCEPT ![c] = Waiting]
  BY <1>1, AnswerFit
<1>3. Usable(r) => r.cas # 0 /\ Fit(r.cas) /\ (~Stale(r.cas) => r.val = item.val)
  BY <1>2 DEF ReplyFit, Usable, GetsPoints
<1>4. ~Overlap => Stale(f.o.token)
  BY <1>2 DEF FrameFit
<1> HIDE DEF f, r
<1>5. Usable(r) => Goes(f, RetryFrom(f, r))
  BY <1>2, <1>3, <1>4, RetryFromGoes
<1>6. Goes(f, AfterUpdateCache(f))
  BY <1>2, AfterUpdateCacheGoes
<1> QED BY <1>2, <1>5, <1>6, TokenResume DEF Reread, f, r

LEMMA SelectedExtraFit ==
  ASSUME DerivedInv, DerivedInv', TokenInv, NEW c \in Call, SelectedExtra(c)
  PROVE  TokenInv'
<1> DEFINE f == Frame(c)
           r == reply[c]
           u == IF r.st = "none" THEN DefaultsPayload ELSE r.val
           h == [f EXCEPT !.k.upd = u]
           m == Merge(h, u)
<1>1. Answered(c, "selectExtra") /\ "selectExtra" \in DbPoints
  BY DEF SelectedExtra, DbPoints
<1>2. /\ FrameGood(f) /\ Active(c) /\ f.k = call[c] /\ ItemFit /\ r \in Reply
      /\ reply' = [reply EXCEPT ![c] = Waiting] /\ OnlyExtra(r.val)
  BY <1>1, AnswerFit, AnswerOK
<1> HIDE DEF f, r
<1>3. u \in Payload /\ OnlyExtra(u)
  BY <1>2, ExtraPayloadType, DefaultsPayloadType DEF Reply
<1> HIDE DEF u
<1>4. FrameOK(h) /\ h.o = f.o /\ h.k.task = f.k.task
  BY <1>2, <1>3, SetUpdOK, OnlyExtraNoDerived DEF FrameGood, FrameOK, FrameType, CallType
<1> HIDE DEF h
<1>5. FrameOK(m)
  BY <1>3, <1>4, MergeOK
<1>6. /\ m.o.token = f.o.token /\ m.o.has /\ m.k = h.k
      /\ m.o.record = MergeRecord(f.o.record, u)
  BY <1>4 DEF Merge, FrameOK, FrameType, InstanceType
<1>7. InstanceFit(m.o)
  BY <1>2, <1>3, <1>6 DEF FrameGood, InstanceFit, Preserved, MergeRecord, OnlyExtra, Field
<1> HIDE DEF m
<1>8. Goes(f, UpdateCache(m))
  <2>1. Updated(m, UpdateCache(m))
    BY <1>5, UpdateCacheFacts DEF FrameOK
  <2>2. FrameGood(m)
    BY <1>5, <1>7 DEF FrameGood
  <2>3. Goes(m, UpdateCache(m))
    BY <1>2, <2>1, <2>2, UpdatedFit
  <2> QED BY <1>4, <1>6, <2>3 DEF Goes
<1>9. Goes(f, Reject(f))
  BY <1>2, SelfGoes DEF Loading
<1> QED BY <1>2, <1>8, <1>9, TokenResume DEF SelectedExtra, f, r, u, h, m
(* The answers of the database, and the end of an invalidation.            *)
LEMMA DbAnswersFit ==
  ASSUME DerivedInv, DerivedInv', TokenInv, NEW c \in Call,
         \/ UpdatedBase(c) \/ UpdatedExtra(c) \/ InsertedExtra(c) \/ InsertedBase(c)
         \/ DeletedBase(c) \/ DeletedExtra(c) \/ Invalidated(c) \/ Marked(c)
  PROVE  TokenInv'
<1> DEFINE f == Frame(c)
<1>1. PICK pc \in CachePoints \cup DbPoints : Answered(c, pc)
  BY DEF UpdatedBase, UpdatedExtra, InsertedExtra, InsertedBase, DeletedBase, DeletedExtra,
         Invalidated, Marked, CachePoints, DbPoints
<1>2. /\ FrameGood(f) /\ FrameFit(f) /\ Active(c) /\ f.k = call[c] /\ ItemFit
      /\ reply' = [reply EXCEPT ![c] = Waiting]
  BY <1>1, AnswerFit
<1>3. ~Overlap /\ call[c].pc = "insertBase" => f.o.token = 0
  BY <1>2 DEF FrameFit, Loading
<1> HIDE DEF f
<1>4. f \in FrameType
  BY <1>2 DEF FrameGood, FrameOK
<1>5. /\ Goes(f, Resolve(f)) /\ Goes(f, Reject(f)) /\ Goes(f, Go(f, "insertExtra"))
      /\ Goes(f, Go(f, "deleteExtra")) /\ Goes(f, Go(f, "mark")) /\ Goes(f, Go(f, "del"))
  BY <1>2, SelfGoes DEF Loading
<1>6. Goes(f, Fire(f, Resolve(f))) /\ Goes(f, Fire(f, Invalidate(f)))
  BY <1>5 DEF Fire, Invalidate
<1>7. Goes(f, PersistExtra(f))
  <2>1. /\ PersistExtra(f).k.task = f.k.task /\ PersistExtra(f).o = f.o
        /\ PersistExtra(f).k.pc \in {"updateExtra", "resolved", "rejected"}
    BY <1>4, PersistExtraFacts DEF Kept
  <2> QED BY <1>2, <2>1 DEF Goes, FrameGood, FrameFit, Loading
<1>8. call[c].pc = "insertBase" => Goes(f, Initialise(f))
  BY <1>2, <1>3, LoadingGoes DEF Loading
<1>9. CASE UpdatedBase(c)
  BY <1>2, <1>5, <1>7, <1>9, TokenResume DEF UpdatedBase, f
<1>10. CASE UpdatedExtra(c)
  BY <1>2, <1>5, <1>6, <1>10, TokenResume DEF UpdatedExtra, f
<1>11. CASE InsertedExtra(c)
  BY <1>2, <1>5, <1>6, <1>11, TokenResume DEF InsertedExtra, f
<1>12. CASE InsertedBase(c)
  BY <1>2, <1>5, <1>8, <1>12, TokenResume DEF InsertedBase, Answered, f
<1>13. CASE DeletedBase(c)
  BY <1>2, <1>5, <1>6, <1>13, TokenResume DEF DeletedBase, f
<1>14. CASE DeletedExtra(c)
  BY <1>2, <1>5, <1>6, <1>14, TokenResume DEF DeletedExtra, f
<1>15. CASE Invalidated(c)
  BY <1>2, <1>5, <1>15, TokenResume DEF Invalidated, f
<1>16. CASE Marked(c)
  BY <1>2, <1>5, <1>16, TokenResume DEF Marked, f
<1> QED BY <1>9, <1>10, <1>11, <1>12, <1>13, <1>14, <1>15, <1>16

LEMMA ContinueFit ==
  ASSUME DerivedInv, DerivedInv', TokenInv, NEW c \in Call, Continue(c)
  PROVE  TokenInv'
BY CachedFit, SelectedFit, StoredFit, FreshFit, CasAnsweredFit, RefreshedFit, RereadFit,
   DbAnswersFit, SelectedExtraFit DEF Continue

(* A method starts on a new instance, or on the one that was made.         *)
LEMMA StartFit ==
  ASSUME DerivedInv, DerivedInv', TokenInv, NEW c \in Call, Start(c)
  PROVE  TokenInv'
<1> DEFINE f == Frame(c)
           fresh(force) == [f EXCEPT !.o = NewInstance(force)]
<1>1. Startable(c) /\ call[c].pc = "new" /\ reply' = reply
  BY DEF Start, Startable
<1>2. reply' = [reply EXCEPT ![c] = Waiting]
  BY <1>1 DEF DerivedInv, TypeOK, ReplySound
<1>3. FrameOK(f) /\ f.k.task.force \in BOOLEAN
  BY FrameOfCall DEF FrameOK, FrameType, CallType, TaskType
<1>4. ItemFit /\ InstanceFit(f.o)
  BY <1>3 DEF TokenInv, Frame, FrameOK, FrameType, CallType, TaskType
<1> HIDE DEF f
<1>5. ASSUME NEW force \in BOOLEAN
      PROVE  /\ FrameGood(fresh(force)) /\ fresh(force).k = f.k
             /\ fresh(force).o.token = 0
  <2>1. FrameOK(fresh(force)) /\ fresh(force).k = f.k /\ fresh(force).o = NewInstance(force)
    BY <1>3, BlankType, BlankView DEF FrameOK, FrameSound, FrameType, InstanceType, NewInstance
  <2>2. InstanceFit(NewInstance(force)) /\ NewInstance(force).token = 0
    BY <1>4, ZeroFit DEF InstanceFit, NewInstance
  <2> QED BY <2>1, <2>2 DEF FrameGood
<1> HIDE DEF fresh
<1>6. \A force \in BOOLEAN : /\ Goes(f, Initialise(fresh(force)))
                             /\ Goes(f, Go(fresh(force), "insertBase"))
  BY <1>5, LoadingGoes DEF Goes, Loading
<1>7. FrameGood(f)
  BY <1>3, <1>4 DEF FrameGood
<1>8. Goes(f, Invalidate(f))
  BY <1>7, SelfGoes DEF Invalidate, Loading
<1>9. Goes(f, EnsureRecordLoaded(f))
  <2>1. f.o.has \/ (~Overlap => f.o.token = 0)
    BY <1>4, <1>7 DEF InstanceFit
  <2> QED BY <1>4, <1>7, <2>1, BodyFit, LoadingGoes DEF EnsureRecordLoaded, Loading
<1> QED BY <1>1, <1>2, <1>3, <1>6, <1>8, <1>9, TokenResume DEF Start, f, fresh
LEMMA CacheServedStep ==
  ASSUME item \in Item, casSeq \in Nat, NEW c \in Call, NEW s, CacheServed(c, s)
  PROVE  ItemStep
BY DEF CacheServed, ItemStep, Store

LEMMA CacheServeFit ==
  ASSUME DerivedInv, TokenInv, NEW c \in Call, CacheServe(c)
  PROVE  TokenInv'
<1>1. TypeOK /\ item \in Item /\ casSeq \in Nat /\ ItemFit
  BY DEF DerivedInv, TypeOK, TokenInv
<1>2. PICK s : CacheServed(c, s)
  BY <1>1, CacheServeCases
<1>3. ItemStep
  BY <1>1, <1>2, CacheServedStep
<1>4. UNCHANGED <<inst, call>> /\ reply' = [reply EXCEPT ![c] = s]
  BY <1>2 DEF CacheServed
<1>5. /\ ItemFit'
      /\ \A t \in Nat : Fit(t) => /\ Fit(t)'
                                  /\ Stale(t) => Stale(t)'
                                  /\ ~Stale(t)' => ~Stale(t) /\ item' = item
  BY <1>1, <1>3, FitStays
<1>6. ASSUME NEW i \in Instance PROVE InstanceFit(inst[i])'
  <2>1. inst[i] \in InstanceType /\ InstanceFit(inst[i]) /\ inst'[i] = inst[i]
    BY <1>1, <1>4 DEF TypeOK, TokenInv
  <2>2. inst[i].token \in Nat
    BY <2>1 DEF InstanceType
  <2> QED BY <1>5, <2>1, <2>2 DEF InstanceFit, Preserved
<1>7. ASSUME NEW d \in Call PROVE FrameFit(Frame(d))'
  <2>1. FrameFit(Frame(d)) /\ Frame(d)' = Frame(d)
    BY <1>4 DEF TokenInv, Frame
  <2>2. call[d].task.on \in Instance /\ call[d].tok \in Nat
    BY <1>1 DEF TypeOK, CallType, TaskType
  <2>3. inst[call[d].task.on].token \in Nat /\ Fit(inst[call[d].task.on].token)
    BY <1>1, <2>2 DEF TypeOK, InstanceType, TokenInv, InstanceFit
  <2>4. Frame(d).o.token \in Nat /\ Fit(Frame(d).o.token) /\ Frame(d).k.tok \in Nat
    BY <2>2, <2>3 DEF Frame
  <2>5. Stale(Frame(d).o.token) => Stale(Frame(d).o.token)'
    BY <1>5, <2>1, <2>4 DEF Stale
  <2>6. Frame(d).k.pc = "cas" => /\ Fit(Frame(d).k.tok)'
                                 /\ ~Stale(Frame(d).k.tok)' =>
                                      ~Stale(Frame(d).k.tok) /\ item' = item
    BY <1>5, <2>1, <2>4 DEF FrameFit, Fit, Stale
  <2> QED BY <2>1, <2>5, <2>6 DEF FrameFit, Preserved
<1>8. ASSUME NEW d \in Call PROVE ReplyFit(d)'
  <2>1. reply[d] \in Reply /\ call[d] \in CallType /\ call'[d] = call[d] /\ ReplyFit(d)
    BY <1>1, <1>4 DEF TypeOK, TokenInv
  <2>2. reply[d].cas \in Nat /\ call[d].tok \in Nat
    BY <2>1 DEF Reply, CallType
  <2>3. call[d].pc = "cas" => Fit(call[d].tok)
    BY DEF TokenInv, FrameFit, Frame
  <2>4. CASE d # c
    <3>1. reply'[d] = reply[d]
      BY <1>1, <1>4, <2>4 DEF TypeOK
    <3> QED BY <1>5, <2>1, <2>2, <2>3, <3>1 DEF ReplyFit, Fit, Stale
  <2>5. CASE d = c
    <3>1. reply'[c] = s
      BY <1>1, <1>4 DEF TypeOK
    <3>2. CASE call[c].pc \in GetsPoints
      <4>1. (s = item /\ UNCHANGED <<item, casSeq>>) \/ s = Answer("err")
        BY <1>2, <3>2 DEF CacheServed, GetsPoints
      <4> QED BY <1>1, <2>1, <2>5, <3>1, <3>2, <4>1
              DEF ReplyFit, GetsPoints, Answer, ItemFit, Fit, Stale
    <3>3. CASE call[c].pc = "cas"
      <4>1. \/ s.st = "err"
            \/ item'.cas = casSeq + 1
            \/ UNCHANGED <<item, casSeq>> /\ (item.st = "none" \/ item.cas # call[c].tok)
        BY <1>2, <3>3 DEF CacheServed, Store, Answer, GetsPoints
      <4> QED BY <1>1, <2>1, <2>2, <2>3, <2>5, <3>1, <3>3, <4>1
              DEF ReplyFit, GetsPoints, FrameFit, Fit, Stale
    <3> QED BY <2>1, <2>5, <3>2, <3>3 DEF ReplyFit
  <2> QED BY <2>4, <2>5
<1>9. ~Overlap => Serial'
  BY <1>4 DEF TokenInv, Serial, Makes, Active
<1> QED BY <1>5, <1>6, <1>7, <1>8, <1>9 DEF TokenInv
LEMMA DbServeAnswers ==
  ASSUME NEW c \in Call, DbServe(c)
  PROVE  /\ call[c].pc \in DbPoints /\ reply[c] = Waiting
         /\ UNCHANGED <<item, casSeq, inst, call>>
         /\ \E s : reply' = [reply EXCEPT ![c] = s]
<1>1. call[c].pc \in DbPoints /\ UNCHANGED <<item, casSeq, inst, call>>
  BY DEF DbServe, DbPoints
<1>2. reply[c] = Waiting /\ \E s : reply' = [reply EXCEPT ![c] = s]
  BY DEF DbServe, SelectRow, SelectExtra, Query, InsertRow, UpdateRow, DeleteRow, InsertExtra,
         UpdateExtra, DeleteExtra, Execute, DbFails, Settle
<1> QED BY <1>1, <1>2

LEMMA DbServeFit ==
  ASSUME DerivedInv, TokenInv, NEW c \in Call, DbServe(c)
  PROVE  TokenInv'
<1>1. PICK s : reply' = [reply EXCEPT ![c] = s]
  BY DbServeAnswers
<1>2. UNCHANGED <<item, casSeq, inst, call>> /\ call[c].pc \notin GetsPoints \cup {"cas"}
  BY DbServeAnswers DEF DbPoints, GetsPoints
<1>3. ItemFit' /\ (~Overlap => Serial') /\ \A i \in Instance : InstanceFit(inst[i])'
  BY <1>2 DEF TokenInv, ItemFit, Serial, Makes, Active, InstanceFit, Fit, Stale, Preserved
<1>4. \A d \in Call : FrameFit(Frame(d))'
  BY <1>2 DEF TokenInv, FrameFit, Frame, Fit, Stale, Preserved
<1>5. \A d \in Call : d # c => reply'[d] = reply[d]
  BY <1>1 DEF DerivedInv, TypeOK
<1>6. \A d \in Call : ReplyFit(d)'
  BY <1>2, <1>5 DEF TokenInv, ReplyFit, Fit, Stale
<1> QED BY <1>3, <1>4, <1>6 DEF TokenInv

LEMMA EvictFit ==
  ASSUME DerivedInv, TokenInv, Evict
  PROVE  TokenInv'
<1>1. item' = NoItem /\ UNCHANGED <<casSeq, reply, inst, call>>
  BY DEF Evict, Expire
<1>2. ItemFit' /\ \A t : Stale(t)' /\ (Fit(t) => Fit(t)')
  BY <1>1 DEF DerivedInv, TypeOK, ItemFit, NoItem, Stale, Fit
<1>3. ~Overlap => Serial'
  BY <1>1 DEF TokenInv, Serial, Makes, Active
<1>4. \A i \in Instance : InstanceFit(inst[i])'
  BY <1>1, <1>2 DEF TokenInv, InstanceFit
<1>5. \A d \in Call : FrameFit(Frame(d))' /\ ReplyFit(d)'
  BY <1>1, <1>2 DEF TokenInv, FrameFit, ReplyFit, Frame
<1> QED BY <1>2, <1>3, <1>4, <1>5 DEF TokenInv

LEMMA InitFit ==
  ASSUME Init
  PROVE  TokenInv
<1>1. \A c \in Call : call[c].pc = "new" /\ reply[c] = Waiting
  BY DEF Init
<1>2. item = NoItem /\ casSeq = 0 /\ \A i \in Instance : inst[i] = NewInstance(FALSE)
  BY DEF Init
<1>3. ItemFit
  BY <1>2 DEF ItemFit, NoItem
<1>4. \A i \in Instance : InstanceFit(inst[i])
  BY <1>2, <1>3, ZeroFit DEF InstanceFit, NewInstance
<1>5. \A c \in Call : FrameFit(Frame(c)) /\ ReplyFit(c)
  BY <1>1 DEF FrameFit, ReplyFit, Frame, Loading, GetsPoints
<1>6. Serial
  BY <1>1 DEF Serial, Active
<1> QED BY <1>3, <1>4, <1>5, <1>6 DEF TokenInv

LEMMA TokenStep ==
  ASSUME DerivedInv, DerivedInv', TokenInv, [Next]_vars
  PROVE  TokenInv'
<1>1. CASE UNCHANGED vars
  BY <1>1 DEF vars, TokenInv, ItemFit, Serial, Makes, Active, InstanceFit, FrameFit, ReplyFit,
              Frame, Fit, Stale, Preserved
<1>2. CASE Next
  BY <1>1, <1>2, StartFit, CacheServeFit, DbServeFit, ContinueFit, EvictFit
  DEF Next, Serve, Quiet
<1> QED BY <1>1, <1>2

(* The invariant of the tokens holds in every reachable state.             *)
THEOREM TokenInvariance == Spec => []TokenInv
<1>1. Init => TokenInv
  BY InitFit
<1>2. DerivedInv /\ DerivedInv' /\ TokenInv /\ [Next]_vars => TokenInv'
  BY TokenStep
<1> QED BY <1>1, <1>2, DerivedInvariance, PTL DEF Spec

-----------------------------------------------------------------------------
(* What the invariant says of steps.                                       *)

(* Who changes the item, and to what.                                      *)
LEMMA ItemChanges ==
  ASSUME DerivedInv, [Next]_vars, item' # item
  PROVE  \/ Evict
         \/ \E c \in Call : \E s : CacheServed(c, s)
<1>1. ASSUME NEW c \in Call, CacheServe(c)
      PROVE  \E s : CacheServed(c, s)
  BY <1>1, CacheServeCases DEF DerivedInv, TypeOK
<1>2. ASSUME NEW c \in Call, Start(c) \/ DbServe(c) \/ Continue(c)
      PROVE  item' = item
  BY <1>2 DEF Start, DbServe, Continue, Resume, Cached, Selected, Stored, Fresh, CasAnswered,
     Refreshed, Reread, UpdatedBase, UpdatedExtra, InsertedExtra, InsertedBase, DeletedBase,
     DeletedExtra, Invalidated, Marked, SelectedExtra
<1>3. item' = item \/ Next
  BY DEF vars
<1> QED BY <1>1, <1>2, <1>3 DEF Next, Serve, Quiet, vars

(* Only a load with forceRead overwrites a deletion marker: no call ever   *)
(* comes by the marker's token, with overlapping calls, faults and         *)
(* evictions.                                                              *)
THEOREM MarkerStays == Spec => MarkerHolds
<1>1. DerivedInv /\ TokenInv /\ [Next]_vars =>
        [item.st = "deleted" /\ item'.st = "record" =>
           \E c \in Call : call[c].pc = "store" /\ inst[call[c].task.on].force]_vars
  <2> SUFFICES ASSUME DerivedInv, TokenInv, [Next]_vars,
                      item.st = "deleted", item'.st = "record"
               PROVE  \E c \in Call : call[c].pc = "store" /\ inst[call[c].task.on].force
    OBVIOUS
  <2>1. PICK c \in Call : \E s : CacheServed(c, s)
    BY ItemChanges DEF Evict, Expire, NoItem
  <2>2. PICK s : CacheServed(c, s)
    BY <2>1
  <2>3. call[c].pc = "cas" => item.cas # call[c].tok
    BY DEF TokenInv, FrameFit, Frame, Fit
  <2> QED BY <2>2, <2>3 DEF CacheServed, Store, NoItem
<1> QED BY <1>1, DerivedInvariance, TokenInvariance, PTL DEF Spec, MarkerHolds

(* With one method at a time on each instance, a CAS that takes effect     *)
(* changes no base or derived column but those its update touches and      *)
(* those derived from them, whatever retries, evictions, deletions and     *)
(* faults came before.                                                     *)
THEOREM CasLosesNothing ==
  ASSUME ~Overlap
  PROVE  Spec => CasPreserves
<1> DEFINE A == \A c \in Call :
                  call[c].pc = "cas" /\ reply'[c] # reply[c] /\ item' # item =>
                    \A f \in (BaseField \cup DerivedField)
                               \ (Touched(call[c].upd) \cup Dependents(call[c].upd)) :
                      item'.val.col[f] = item.val.col[f]
<1>1. DerivedInv /\ TokenInv /\ [Next]_vars => [A]_vars
  <2> SUFFICES ASSUME DerivedInv, TokenInv, [Next]_vars, NEW c \in Call,
                      call[c].pc = "cas", reply'[c] # reply[c], item' # item
               PROVE  Preserved(item'.val, item.val, Affected(call[c].upd))
    BY DEF Preserved, Affected
  <2>1. ~Evict
    BY DEF Evict, Expire
  <2>2. PICK d \in Call : \E s : CacheServed(d, s)
    BY <2>1, ItemChanges
  <2>3. PICK s : CacheServed(d, s)
    BY <2>2
  <2>4. d = c
    BY <2>3 DEF CacheServed, DerivedInv, TypeOK
  <2>5. item.st # "none" /\ item.cas = call[c].tok /\ item'.val = call[c].val
    BY <2>3, <2>4 DEF CacheServed, Store, GetsPoints
  <2>6. Preserved(call[c].val, item.val, Affected(call[c].upd))
    BY <2>5 DEF TokenInv, FrameFit, Frame, Stale
  <2> QED BY <2>5, <2>6 DEF Preserved
<1> QED BY <1>1, DerivedInvariance, TokenInvariance, PTL DEF Spec, CasPreserves

-----------------------------------------------------------------------------
(***************************************************************************)
(* What instances show: while nothing takes the cached record away, an     *)
(* instance that no method is working on shows the record it has.  Methods *)
(* may overlap, and the database may fail.                                 *)
(***************************************************************************)

(* Nothing takes the cached record away: the server drops nothing, no call *)
(* deletes or invalidates, and the cache answers.                          *)
Lasting ==
  /\ ~Evictions /\ ~CacheFaults
  /\ \A c \in Call : \A t \in Task[c] : t.op \notin {"delete", "unCache"}

Shows(o) == \A x \in Field : o.record.col[x] \in {Absent, o.view[x]}

(* From the CAS on, the instance has cleared what the update makes stale,  *)
(* and its record still has that; it is replaced when the CAS is over.     *)
CasPoints == {"cas", "refresh", "reread"}

Dropping == {"del", "mark", "deleteBase", "deleteExtra"}

Recorded(t, pc) == t # 0 \/ pc \in CasPoints => item.st = "record"

ViewInv ==
  /\ item.st # "deleted"
  /\ \A i \in Instance :
       /\ Recorded(inst[i].token, "new")
       /\ Shows(inst[i]) \/ \E c \in Call : call[c].task.on = i /\ call[c].pc \in CasPoints
  /\ \A c \in Call :
       /\ call[c].task.op \notin {"delete", "unCache"}
       /\ call[c].pc \notin Dropping
       /\ Recorded(0, call[c].pc)
       /\ call[c].pc = "cas" => reply[c] = Waiting \/ reply[c].st \in {"true", "false"}
       /\ call[c].pc \in GetsPoints /\ reply[c].st = "record" => item.st = "record"
       /\ call[c].pc \in {"refresh", "reread"} => reply[c] = Waiting \/ Usable(reply[c])

-----------------------------------------------------------------------------
(* Frames.                                                                 *)

(* What a step may make of a frame.                                        *)
Leaves(f, g) ==
  /\ g.k.task = f.k.task /\ g.k.pc \notin Dropping
  /\ Recorded(g.o.token, g.k.pc)
  /\ Shows(f.o) => Shows(g.o) \/ g.k.pc \in CasPoints

Lit(f) == f \in FrameType /\ f.k.task.op \notin {"delete", "unCache"} /\ Recorded(f.o.token, "new")

LEMMA SetRecordShows ==
  ASSUME NEW f \in FrameType, NEW p \in Payload
  PROVE  /\ SetRecord(f, p) \in FrameType /\ SetRecord(f, p).k = f.k
         /\ Shows(SetRecord(f, p).o) /\ SetRecord(f, p).o.token = f.o.token
<1>1. f.o.view \in [Field -> Cell]
  BY DEF FrameType, InstanceType
<1>2. ApplyRecordToInstance(f.o.view, p) \in [Field -> Cell]
  BY <1>1, ViewType
<1>3. \A x \in Field : p.col[x] \in {Absent, ApplyRecordToInstance(f.o.view, p)[x]}
  BY DEF ApplyRecordToInstance
<1> QED BY <1>2, <1>3 DEF SetRecord, FrameType, InstanceType, Shows

LEMMA AdoptShows ==
  ASSUME NEW f \in FrameType, NEW r \in Reply
  PROVE  /\ Adopt(f, r) \in FrameType /\ Adopt(f, r).k = f.k
         /\ Shows(Adopt(f, r).o) /\ Adopt(f, r).o.token = r.cas
<1> DEFINE g == SetRecord(f, r.val)
<1>1. g \in FrameType /\ g.k = f.k /\ Shows(g.o) /\ r.cas \in Nat
  BY SetRecordShows DEF Reply
<1> HIDE DEF g
<1>2. /\ [g EXCEPT !.o.token = r.cas] \in FrameType
      /\ [g EXCEPT !.o.token = r.cas].k = f.k
      /\ [g EXCEPT !.o.token = r.cas].o.token = r.cas
      /\ [g EXCEPT !.o.token = r.cas].o.record = g.o.record
      /\ [g EXCEPT !.o.token = r.cas].o.view = g.o.view
  BY <1>1 DEF FrameType, InstanceType
<1> QED BY <1>1, <1>2 DEF Adopt, Shows, g

LEMMA MergeShows ==
  ASSUME NEW f \in FrameType, NEW u \in Payload, Shows(f.o)
  PROVE  Shows(Merge(f, u).o)
<1>1. /\ Merge(f, u).o.record = MergeRecord(f.o.record, u)
      /\ Merge(f, u).o.view = ApplyRecordToInstance(f.o.view, u)
  BY DEF Merge, FrameType, InstanceType
<1>2. ASSUME NEW x \in Field
      PROVE  MergeRecord(f.o.record, u).col[x]
               \in {Absent, ApplyRecordToInstance(f.o.view, u)[x]}
  BY DEF Shows, MergeRecord, ApplyRecordToInstance
<1> QED BY <1>1, <1>2 DEF Shows

LEMMA InCacheShows ==
  ASSUME NEW f \in FrameType, NEW b \in BOOLEAN
  PROVE  /\ [f EXCEPT !.o.inCache = b] \in FrameType
         /\ [f EXCEPT !.o.inCache = b].k = f.k
         /\ [f EXCEPT !.o.inCache = b].o.token = f.o.token
         /\ Shows(f.o) => Shows([f EXCEPT !.o.inCache = b].o)
BY DEF FrameType, InstanceType, Shows

LEMMA PersistedLeaves ==
  ASSUME NEW f, Lit(f), NEW g, Persisted(f, g)
  PROVE  Leaves(f, g)
BY DEF Persisted, Kept, Lit, Leaves, Recorded, CasPoints, Dropping

LEMMA UpdatedLeaves ==
  ASSUME NEW f, Lit(f), NEW g, Updated(f, g)
  PROVE  Leaves(f, g)
<1>1. f \in FrameType /\ f.k.upd \in Payload
  BY DEF Lit, FrameType, CallType
<1>2. CASE CacheEnabled /\ f.o.token # 0
  <2>1. Candidate(f, g, f.o.record, f.o.token, 1)
    BY <1>2 DEF Updated
  <2>2. g.k.pc = "cas" /\ g.k.task = f.k.task /\ item.st = "record"
    BY <1>2, <2>1 DEF Candidate, Kept, Lit, Recorded
  <2> QED BY <2>2 DEF Leaves, Recorded, CasPoints, Dropping
<1>3. CASE ~(CacheEnabled /\ f.o.token # 0)
  <2> DEFINE m == Merge(f, f.k.upd)
  <2>1. m.k = f.k /\ m.o.token = f.o.token /\ m \in FrameType
    <3>1. m \in FrameType
      BY <1>1, MergeFacts
    <3> QED BY <1>1, <3>1 DEF Merge, FrameType, InstanceType
  <2>2. Shows(f.o) => Shows(m.o)
    BY <1>1, MergeShows
  <2>3. Persisted(m, g)
    BY <1>3 DEF Updated
  <2> HIDE DEF m
  <2>4. Lit(m)
    BY <2>1 DEF Lit
  <2>5. Leaves(m, g)
    BY <2>3, <2>4, PersistedLeaves
  <2> QED BY <2>1, <2>2, <2>5 DEF Leaves
<1> QED BY <1>2, <1>3

LEMMA BodyLeaves ==
  ASSUME NEW f, Lit(f)
  PROVE  Leaves(f, Body(f))
<1> SUFFICES ASSUME NEW g, Runs(f, g) PROVE Leaves(f, g)
  BY BodyFacts DEF Lit
<1>1. CASE Settles(f, g)
  <2>1. /\ g.o = f.o /\ g.k.task = f.k.task
        /\ g.k.pc \in {"resolved", "rejected", "insertExtra", "selectExtra"}
    BY <1>1 DEF Settles, Kept, Lit
  <2> QED BY <2>1 DEF Lit, Leaves, Recorded, CasPoints, Dropping
<1>2. ASSUME NEW u \in Payload, Updated([f EXCEPT !.k.upd = u], g) PROVE Leaves(f, g)
  <2>1. Lit([f EXCEPT !.k.upd = u]) /\ [f EXCEPT !.k.upd = u].o = f.o
        /\ [f EXCEPT !.k.upd = u].k.task = f.k.task
    BY DEF Lit, FrameType, CallType
  <2>2. Leaves([f EXCEPT !.k.upd = u], g)
    BY <1>2, <2>1, UpdatedLeaves
  <2> QED BY <2>1, <2>2 DEF Leaves
<1> QED BY <1>1, <1>2 DEF Runs

LEMMA SelfLeaves ==
  ASSUME NEW f, Lit(f), NEW pc \in Pc \ (Dropping \cup CasPoints)
  PROVE  /\ Leaves(f, Go(f, pc)) /\ Leaves(f, Resolve(f)) /\ Leaves(f, Reject(f))
         /\ Leaves(f, Initialise(f)) /\ Leaves(f, AfterUpdateCache(f))
         /\ Leaves(f, PersistExtra(f))
<1>1. f \in FrameType
  BY DEF Lit
<1>2. ASSUME NEW q \in Pc \ (Dropping \cup CasPoints) PROVE Leaves(f, Go(f, q))
  BY <1>1, GoFacts DEF Kept, Lit, Leaves, Recorded
<1>3. Leaves(f, Resolve(f)) /\ Leaves(f, Reject(f))
  BY <1>1, SettleFacts DEF Kept, Lit, Leaves, Recorded, Dropping, CasPoints
<1>4. Leaves(f, Initialise(f))
  BY <1>2 DEF Initialise, Pc, CachePoints, GetsPoints, DbPoints, Dropping, CasPoints
<1>5. Leaves(f, AfterUpdateCache(f))
  BY <1>1, AfterUpdateCacheFacts, PersistedLeaves
<1>6. Leaves(f, PersistExtra(f))
  BY <1>1, PersistExtraFacts DEF Kept, Lit, Leaves, Recorded, Dropping, CasPoints
<1> QED BY <1>2, <1>3, <1>4, <1>5, <1>6

-----------------------------------------------------------------------------
(* Steps.                                                                  *)

LEMMA ViewResume ==
  ASSUME TypeOK, TypeOK', ViewInv, NEW c \in Call, NEW g, Resume(c, g),
         reply' = [reply EXCEPT ![c] = Waiting],
         call[c].pc \in CasPoints => Shows(g.o) \/ g.k.pc \in CasPoints,
         Leaves(Frame(c), g)
  PROVE  ViewInv'
<1> DEFINE i == call[c].task.on
<1>1. /\ call' = [call EXCEPT ![c] = g.k] /\ inst' = [inst EXCEPT ![i] = g.o]
      /\ g.k.task = call[c].task /\ g.k.pc \notin Dropping /\ UNCHANGED <<item, casSeq>>
      /\ Recorded(g.o.token, g.k.pc) /\ (Shows(inst[i]) => Shows(g.o) \/ g.k.pc \in CasPoints)
  BY DEF Resume, Leaves, Frame
<1>2. i \in Instance
  BY DEF TypeOK, CallType, TaskType
<1>3. /\ call'[c] = g.k /\ inst'[i] = g.o /\ reply'[c] = Waiting /\ reply'[c].st = "wait"
      /\ \A d \in Call : d # c => call'[d] = call[d] /\ reply'[d] = reply[d]
      /\ \A j \in Instance : j # i => inst'[j] = inst[j]
      /\ \A d \in Call : call'[d].task = call[d].task
  BY <1>1, <1>2 DEF TypeOK, Waiting, Answer
<1> HIDE DEF i
<1>4. ASSUME NEW j \in Instance
      PROVE  /\ Recorded(inst[j].token, "new")'
             /\ Shows(inst[j])' \/ \E d \in Call : call'[d].task.on = j /\ call'[d].pc \in CasPoints
  <2>1. CASE j # i
    <3>1. inst'[j] = inst[j] /\ \A d \in Call : call[d].task.on = j => call'[d] = call[d]
      BY <1>3, <2>1 DEF i
    <3> QED BY <1>1, <3>1 DEF ViewInv, Recorded, Shows
  <2>2. CASE j = i
    <3>1. Recorded(inst[j].token, "new")'
      BY <1>1, <1>3, <2>2 DEF Recorded, CasPoints
    <3>2. CASE Shows(g.o)
      BY <1>3, <2>2, <3>1, <3>2 DEF Shows
    <3>3. CASE g.k.pc \in CasPoints
      BY <1>1, <1>3, <2>2, <3>1, <3>3 DEF i
    <3>4. CASE ~Shows(g.o) /\ g.k.pc \notin CasPoints
      <4>1. PICK d \in Call : call[d].task.on = i /\ call[d].pc \in CasPoints
        BY <1>1, <1>2, <3>4 DEF ViewInv
      <4>2. d # c
        BY <3>4, <4>1
      <4> QED BY <1>3, <2>2, <3>1, <4>1, <4>2
    <3> QED BY <3>2, <3>3, <3>4
  <2> QED BY <2>1, <2>2
<1>5. ASSUME NEW d \in Call
      PROVE  /\ call'[d].task.op \notin {"delete", "unCache"}
             /\ call'[d].pc \notin Dropping
             /\ Recorded(0, call[d].pc)'
             /\ call'[d].pc = "cas" => reply'[d] = Waiting \/ reply'[d].st \in {"true", "false"}
             /\ call'[d].pc \in GetsPoints /\ reply'[d].st = "record" => item'.st = "record"
             /\ call'[d].pc \in {"refresh", "reread"} => reply'[d] = Waiting \/ Usable(reply'[d])
  <2>1. CASE d = c
    BY <1>1, <1>3, <2>1 DEF ViewInv, Recorded
  <2>2. CASE d # c
    BY <1>1, <1>3, <2>2 DEF ViewInv, Recorded
  <2> QED BY <2>1, <2>2
<1>6. item'.st # "deleted"
  BY <1>1 DEF ViewInv
<1> QED BY <1>4, <1>5, <1>6 DEF ViewInv

LEMMA AnswerLit ==
  ASSUME TypeOK, ViewInv, NEW c \in Call, NEW pc, Answered(c, pc)
  PROVE  /\ Lit(Frame(c)) /\ Frame(c).k = call[c] /\ call[c].pc = pc /\ reply[c] \in Reply
         /\ reply[c] # Waiting /\ reply' = [reply EXCEPT ![c] = Waiting]
         /\ call[c].pc \in {"refresh", "reread"} => Usable(reply[c])
         /\ Usable(reply[c]) /\ pc \in GetsPoints => item.st = "record"
         /\ pc = "cas" => reply[c].st \in {"true", "false"}
         /\ pc \in CasPoints => item.st = "record"
<1>1. call[c].task.on \in Instance /\ call[c] \in CallType /\ reply[c] \in Reply
  BY DEF TypeOK, CallType, TaskType
<1>2. Lit(Frame(c))
  BY <1>1 DEF TypeOK, ViewInv, Lit, Frame, FrameType
<1> QED BY <1>1, <1>2 DEF Answered, ViewInv, Usable, Frame, Recorded

(* A step of a call that is not at its CAS.                                *)
LEMMA CalmResume ==
  ASSUME TypeOK, TypeOK', ViewInv, NEW c \in Call, NEW g, Resume(c, g),
         reply' = [reply EXCEPT ![c] = Waiting], call[c].pc \notin CasPoints,
         Leaves(Frame(c), g)
  PROVE  ViewInv'
BY ViewResume

LEMMA ShowsLeaves ==
  ASSUME NEW f, NEW h, NEW g, h.k.task = f.k.task, Shows(h.o), Leaves(h, g)
  PROVE  Leaves(f, g) /\ (Shows(g.o) \/ g.k.pc \in CasPoints)
BY DEF Leaves

(* Where a record is loaded.                                               *)
LEMMA LoadView ==
  ASSUME TypeOK, TypeOK', ViewInv, NEW c \in Call,
         Cached(c) \/ Selected(c) \/ Stored(c) \/ Fresh(c)
  PROVE  ViewInv'
<1> DEFINE f == Frame(c)
           r == reply[c]
<1>1. PICK pc \in {"cached", "select", "store", "fresh"} : Answered(c, pc)
  BY DEF Cached, Selected, Stored, Fresh
<1>2. /\ Lit(f) /\ f.k = call[c] /\ call[c].pc = pc /\ r \in Reply
      /\ reply' = [reply EXCEPT ![c] = Waiting] /\ call[c].pc \notin CasPoints
      /\ Usable(r) /\ pc \in {"cached", "fresh"} => item.st = "record"
  BY <1>1, AnswerLit DEF CasPoints, GetsPoints
<1> HIDE DEF f, r
<1>3. f \in FrameType /\ r.val \in Payload
  BY <1>2 DEF Lit, Reply
<1>4. ASSUME NEW h \in FrameType, h.k.task = f.k.task, Recorded(h.o.token, "new"),
             Shows(f.o) => Shows(h.o)
      PROVE  /\ Leaves(f, Body(h)) /\ Leaves(f, Body([h EXCEPT !.o.inCache = TRUE]))
             /\ Leaves(f, Body([h EXCEPT !.o.inCache = FALSE]))
  <2>1. \A b \in BOOLEAN : /\ [h EXCEPT !.o.inCache = b] \in FrameType
                           /\ [h EXCEPT !.o.inCache = b].k = h.k
                           /\ [h EXCEPT !.o.inCache = b].o.token = h.o.token
                           /\ Shows(h.o) => Shows([h EXCEPT !.o.inCache = b].o)
    BY <1>4, InCacheShows
  <2>2. Lit(h) /\ \A b \in BOOLEAN : Lit([h EXCEPT !.o.inCache = b])
    BY <1>2, <1>4, <2>1 DEF Lit
  <2> QED BY <1>4, <2>1, <2>2, BodyLeaves DEF Leaves
<1>5. Usable(r) /\ pc \in {"cached", "fresh"} =>
        /\ Adopt(f, r) \in FrameType /\ Adopt(f, r).k.task = f.k.task
        /\ Recorded(Adopt(f, r).o.token, "new") /\ Shows(Adopt(f, r).o)
  BY <1>2, <1>3, AdoptShows DEF Recorded
<1>6. /\ SetRecord(f, r.val) \in FrameType /\ SetRecord(f, r.val).k = f.k
      /\ SetRecord(f, r.val).o.token = f.o.token /\ Shows(SetRecord(f, r.val).o)
  BY <1>3, SetRecordShows
<1>7. Recorded(f.o.token, "new")
  BY <1>2 DEF Lit
<1>8. CASE Cached(c)
  <2>1. pc = "cached"
    BY <1>2, <1>8 DEF Cached, Answered
  <2>2. /\ Usable(r) => Leaves(f, Body([Adopt(f, r) EXCEPT !.o.inCache = TRUE]))
        /\ Leaves(f, Body(f))
    BY <1>3, <1>4, <1>5, <1>7, <2>1
  <2>3. Leaves(f, Go(f, "select"))
    BY <1>2, SelfLeaves DEF Pc, DbPoints, Dropping, CasPoints
  <2> QED BY <1>2, <1>8, <2>2, <2>3, CalmResume DEF Cached, f, r
<1>9. CASE Selected(c)
  <2> DEFINE loaded == SetRecord(f, r.val)
             storing == [loaded EXCEPT !.k = [@ EXCEPT !.pc = "store", !.val = r.val]]
  <2>1. /\ Leaves(f, Reject(f)) /\ Leaves(f, Body(f))
        /\ Leaves(f, Body([loaded EXCEPT !.o.inCache = FALSE]))
    <3>1. "select" \in Pc \ (Dropping \cup CasPoints)
      BY DEF Pc, DbPoints, Dropping, CasPoints
    <3>2. Leaves(f, Reject(f))
      BY <1>2, <3>1, SelfLeaves
    <3>3. Leaves(f, Body(f))
      BY <1>3, <1>4, <1>7
    <3>4. loaded \in FrameType /\ loaded.k.task = f.k.task /\ loaded.o.token = f.o.token
          /\ Shows(loaded.o)
      BY <1>6
    <3> HIDE DEF loaded
    <3>5. Leaves(f, Body([loaded EXCEPT !.o.inCache = FALSE]))
      BY <1>4, <1>7, <3>4
    <3> QED BY <3>2, <3>3, <3>5
  <2>2. Leaves(f, storing)
    <3>1. storing.k.task = f.k.task /\ storing.k.pc = "store" /\ storing.o = loaded.o
      BY <1>6 DEF FrameType, CallType
    <3> QED BY <1>6, <1>7, <3>1 DEF Leaves, Recorded, Dropping, CasPoints
  <2> HIDE DEF loaded, storing
  <2> QED BY <1>2, <1>9, <2>1, <2>2, CalmResume DEF Selected, f, r, loaded, storing
<1>10. CASE Stored(c)
  <2> DEFINE h == [f EXCEPT !.k.val = Blank]
  <2>1. h \in FrameType /\ h.o = f.o /\ h.k.task = f.k.task
    BY <1>3, BlankType DEF FrameType, CallType
  <2>2. Leaves(f, Body([h EXCEPT !.o.inCache = FALSE]))
    BY <1>4, <1>7, <2>1
  <2> HIDE DEF h
  <2>3. Lit(h)
    BY <1>2, <2>1 DEF Lit
  <2>4. Leaves(h, Go(h, "fresh"))
    BY <2>3, SelfLeaves DEF Pc, CachePoints, GetsPoints, Dropping, CasPoints
  <2>5. Leaves(f, Go(h, "fresh"))
    BY <2>1, <2>4 DEF Leaves
  <2> QED BY <1>2, <1>10, <2>2, <2>5, CalmResume DEF Stored, f, h
<1>11. CASE Fresh(c)
  <2>1. pc = "fresh"
    BY <1>2, <1>11 DEF Fresh, Answered
  <2>2. /\ Usable(r) => Leaves(f, Body([Adopt(f, r) EXCEPT !.o.inCache = FALSE]))
        /\ Leaves(f, Body([f EXCEPT !.o.inCache = FALSE]))
    BY <1>3, <1>4, <1>5, <1>7, <2>1
  <2> QED BY <1>2, <1>11, <2>2, CalmResume DEF Fresh, f, r
<1> QED BY <1>8, <1>9, <1>10, <1>11

(* The CAS ends with a record that came from the cache.                    *)
LEMMA CasView ==
  ASSUME TypeOK, TypeOK', ViewInv, NEW c \in Call,
         CasAnswered(c) \/ Refreshed(c) \/ Reread(c)
  PROVE  ViewInv'
<1> DEFINE f == Frame(c)
           r == reply[c]
<1>1. PICK pc \in CasPoints : Answered(c, pc)
  BY DEF CasAnswered, Refreshed, Reread, CasPoints
<1>2. /\ Lit(f) /\ f.k = call[c] /\ call[c].pc = pc /\ r \in Reply
      /\ reply' = [reply EXCEPT ![c] = Waiting] /\ item.st = "record"
      /\ pc \in {"refresh", "reread"} => Usable(r)
      /\ pc = "cas" => r.st \in {"true", "false"}
  BY <1>1, AnswerLit
<1> HIDE DEF f, r
<1>3. f \in FrameType /\ r.val \in Payload
  BY <1>2 DEF Lit, Reply
<1>4. ASSUME NEW h, Lit(h), h.k.task = f.k.task, Shows(h.o), NEW g, Leaves(h, g)
      PROVE  Leaves(f, g) /\ (Shows(g.o) \/ g.k.pc \in CasPoints)
  BY <1>4, ShowsLeaves
<1>5. CASE CasAnswered(c)
  <2> DEFINE g == [f EXCEPT !.k.val = Blank, !.k.tok = 0]
  <2>1. pc = "cas"
    BY <1>2, <1>5 DEF CasAnswered, Answered
  <2>2. g \in FrameType /\ g.o = f.o /\ g.k.task = f.k.task
    BY <1>3, BlankType DEF FrameType, CallType
  <2> HIDE DEF g
  <2>3. /\ Go(f, "refresh").k.task = f.k.task /\ Go(f, "refresh").k.pc = "refresh"
        /\ Go(g, "reread").k.task = f.k.task /\ Go(g, "reread").k.pc = "reread"
    BY <1>3, <2>2, GoFacts DEF Kept
  <2>4. /\ Leaves(f, Go(f, "refresh")) /\ Leaves(f, Go(g, "reread"))
        /\ Go(f, "refresh").k.pc \in CasPoints /\ Go(g, "reread").k.pc \in CasPoints
    BY <1>2, <2>3 DEF Leaves, Recorded, CasPoints, Dropping
  <2> QED BY <1>2, <1>5, <2>1, <2>4, ViewResume DEF CasAnswered, f, r, g
<1>6. CASE Refreshed(c)
  <2>1. Usable(r)
    BY <1>2, <1>6 DEF Refreshed, Answered
  <2>2. Lit(Adopt(f, r)) /\ Adopt(f, r).k = f.k /\ Shows(Adopt(f, r).o)
    BY <1>2, <1>3, AdoptShows DEF Lit, Recorded
  <2>3. Leaves(Adopt(f, r), AfterUpdateCache(Adopt(f, r)))
    BY <2>2, AfterUpdateCacheFacts, PersistedLeaves DEF Lit
  <2>4. /\ Leaves(f, AfterUpdateCache(Adopt(f, r)))
        /\ \/ Shows(AfterUpdateCache(Adopt(f, r)).o)
           \/ AfterUpdateCache(Adopt(f, r)).k.pc \in CasPoints
    BY <1>4, <2>2, <2>3
  <2>5. Resume(c, AfterUpdateCache(Adopt(f, r)))
    BY <1>6, <2>1 DEF Refreshed, Usable, f, r
  <2> QED BY <1>2, <2>4, <2>5, ViewResume DEF f
<1>7. CASE Reread(c)
  <2> DEFINE h == SetRecord(f, r.val)
             n == f.k.att + 1
             g == PerformCasUpdate(h, r.val, r.cas, n)
  <2>1. Usable(r)
    BY <1>2, <1>7 DEF Reread, Answered
  <2>2. Lit(h) /\ h.k.task = f.k.task /\ Shows(h.o)
    BY <1>2, <1>3, SetRecordShows DEF Lit, Recorded
  <2>3. RetryFrom(f, r) = g
    BY DEF RetryFrom
  <2> HIDE DEF h, n
  <2>4. Persisted(h, g) \/ Candidate(h, g, r.val, r.cas, n)
    BY <2>2, PerformCasUpdateFacts DEF Lit
  <2> HIDE DEF g
  <2>5. Leaves(h, g)
    <3>1. CASE Persisted(h, g)
      BY <2>2, <3>1, PersistedLeaves
    <3>2. CASE Candidate(h, g, r.val, r.cas, n)
      BY <1>2, <3>2 DEF Candidate, Kept, Leaves, Recorded, CasPoints, Dropping
    <3> QED BY <2>4, <3>1, <3>2
  <2>6. Leaves(f, g) /\ (Shows(g.o) \/ g.k.pc \in CasPoints)
    BY <1>4, <2>2, <2>5
  <2> QED BY <1>2, <1>7, <2>1, <2>3, <2>6, ViewResume DEF Reread, f, r
<1> QED BY <1>5, <1>6, <1>7

(* The answers of the database.                                            *)
LEMMA DbView ==
  ASSUME TypeOK, TypeOK', ViewInv, NEW c \in Call,
         \/ UpdatedBase(c) \/ UpdatedExtra(c) \/ InsertedExtra(c) \/ InsertedBase(c)
         \/ DeletedBase(c) \/ DeletedExtra(c) \/ Invalidated(c) \/ Marked(c)
  PROVE  ViewInv'
<1> DEFINE f == Frame(c)
<1>1. PICK pc \in {"updateBase", "updateExtra", "insertExtra", "insertBase"} \cup Dropping :
        Answered(c, pc)
  BY DEF UpdatedBase, UpdatedExtra, InsertedExtra, InsertedBase, DeletedBase, DeletedExtra,
         Invalidated, Marked, Dropping
<1>2. /\ Lit(f) /\ call[c].pc = pc /\ reply' = [reply EXCEPT ![c] = Waiting]
      /\ pc \notin CasPoints /\ pc \notin Dropping
  BY <1>1, AnswerLit DEF ViewInv, CasPoints, Dropping
<1> HIDE DEF f
<1>3. \A q \in {"updateExtra", "insertExtra"} : q \in Pc \ (Dropping \cup CasPoints)
  BY DEF Pc, DbPoints, Dropping, CasPoints
<1>4. /\ Leaves(f, Resolve(f)) /\ Leaves(f, Reject(f)) /\ Leaves(f, Go(f, "insertExtra"))
      /\ Leaves(f, PersistExtra(f)) /\ Leaves(f, Initialise(f))
  BY <1>2, <1>3, SelfLeaves
<1>5. Leaves(f, Fire(f, Resolve(f)))
  BY <1>4 DEF Fire
<1>6. CASE UpdatedBase(c)
  BY <1>2, <1>4, <1>6, CalmResume DEF UpdatedBase, f
<1>7. CASE UpdatedExtra(c)
  BY <1>2, <1>4, <1>5, <1>7, CalmResume DEF UpdatedExtra, f
<1>8. CASE InsertedExtra(c)
  BY <1>2, <1>4, <1>5, <1>8, CalmResume DEF InsertedExtra, f
<1>9. CASE InsertedBase(c)
  BY <1>2, <1>4, <1>9, CalmResume DEF InsertedBase, f
<1>10. ~(DeletedBase(c) \/ DeletedExtra(c) \/ Invalidated(c) \/ Marked(c))
  BY <1>2 DEF DeletedBase, DeletedExtra, Invalidated, Marked, Answered, Dropping
<1> QED BY <1>6, <1>7, <1>8, <1>9, <1>10

LEMMA SelectedExtraView ==
  ASSUME TypeOK, TypeOK', ViewInv, NEW c \in Call, SelectedExtra(c)
  PROVE  ViewInv'
<1> DEFINE f == Frame(c)
           r == reply[c]
           u == IF r.st = "none" THEN DefaultsPayload ELSE r.val
           h == [f EXCEPT !.k.upd = u]
           m == Merge(h, u)
<1>1. /\ Lit(f) /\ call[c].pc \notin CasPoints /\ r \in Reply
      /\ reply' = [reply EXCEPT ![c] = Waiting]
  BY AnswerLit DEF SelectedExtra, CasPoints
<1> HIDE DEF f, r
<1>2. u \in Payload
  BY <1>1, ExtraPayloadType, DefaultsPayloadType DEF Reply
<1> HIDE DEF u
<1>3. h \in FrameType /\ h.o = f.o /\ h.k.task = f.k.task /\ Lit(h)
  BY <1>1, <1>2 DEF Lit, FrameType, CallType
<1> HIDE DEF h
<1>4. m \in FrameType /\ m.k = h.k /\ (Shows(h.o) => Shows(m.o))
  BY <1>2, <1>3, MergeFacts, MergeShows
<1>5. m.o.token = h.o.token
  BY <1>3 DEF Merge, FrameType, InstanceType
<1> HIDE DEF m
<1>6. Lit(m)
  BY <1>3, <1>4, <1>5 DEF Lit
<1>7. Leaves(m, UpdateCache(m))
  BY <1>4, <1>6, UpdateCacheFacts, UpdatedLeaves
<1>8. Leaves(f, UpdateCache(m))
  BY <1>3, <1>4, <1>7 DEF Leaves
<1>9. Leaves(f, Reject(f))
  BY <1>1, SettleFacts DEF Kept, Lit, Leaves, Recorded, Dropping, CasPoints
<1> QED BY <1>1, <1>8, <1>9, CalmResume DEF SelectedExtra, f, r, u, h, m

LEMMA StartView ==
  ASSUME TypeOK, TypeOK', ViewInv, DerivedInv, NEW c \in Call, Start(c)
  PROVE  ViewInv'
<1> DEFINE f == Frame(c)
           fresh(force) == [f EXCEPT !.o = NewInstance(force)]
<1>1. call[c].pc = "new" /\ reply' = reply
  BY DEF Start, Startable
<1>2. reply' = [reply EXCEPT ![c] = Waiting] /\ call[c].pc \notin CasPoints
  BY <1>1 DEF DerivedInv, TypeOK, ReplySound, CasPoints
<1>3. Lit(f) /\ f.k.task.force \in BOOLEAN
  <2>1. call[c].task.on \in Instance /\ call[c] \in CallType /\ call[c].task.force \in BOOLEAN
    BY DEF TypeOK, CallType, TaskType
  <2> QED BY <2>1 DEF TypeOK, ViewInv, Lit, Frame, FrameType
<1> HIDE DEF f
<1>4. f.k.task.op # "unCache"
  BY <1>3 DEF Lit
<1>5. ASSUME NEW force \in BOOLEAN
      PROVE  /\ Lit(fresh(force)) /\ fresh(force).k = f.k /\ Shows(fresh(force).o)
  <2>1. /\ fresh(force) \in FrameType /\ fresh(force).k = f.k
        /\ fresh(force).o = NewInstance(force)
    BY <1>3, BlankType, BlankView DEF Lit, FrameType, InstanceType, NewInstance
  <2>2. Shows(NewInstance(force)) /\ NewInstance(force).token = 0
    BY DEF Shows, NewInstance, Blank
  <2> QED BY <1>3, <2>1, <2>2 DEF Lit, Recorded, CasPoints
<1> HIDE DEF fresh
<1>6. "insertBase" \in Pc \ (Dropping \cup CasPoints)
  BY DEF Pc, DbPoints, Dropping, CasPoints
<1>7. ASSUME NEW force \in BOOLEAN
      PROVE  Leaves(f, Initialise(fresh(force))) /\ Leaves(f, Go(fresh(force), "insertBase"))
  <2>1. /\ Leaves(fresh(force), Initialise(fresh(force)))
        /\ Leaves(fresh(force), Go(fresh(force), "insertBase"))
    BY <1>5, <1>6, SelfLeaves
  <2> QED BY <1>5, <2>1 DEF Leaves
<1>8. Leaves(f, EnsureRecordLoaded(f))
  BY <1>3, <1>6, SelfLeaves, BodyLeaves DEF EnsureRecordLoaded
<1> QED BY <1>2, <1>3, <1>4, <1>7, <1>8, CalmResume DEF Start, f, fresh

(* What the servers do.                                                    *)
LEMMA CacheServeView ==
  ASSUME TypeOK, ViewInv, Lasting, NEW c \in Call, CacheServe(c)
  PROVE  ViewInv'
<1>1. PICK s : CacheServed(c, s)
  BY CacheServeCases DEF TypeOK
<1>2. /\ UNCHANGED <<inst, call>> /\ reply'[c] = s
      /\ \A d \in Call : d # c => reply'[d] = reply[d]
  BY <1>1 DEF CacheServed, TypeOK
<1>3. s # Answer("err") /\ call[c].pc \notin Dropping
  BY <1>1 DEF CacheServed, Lasting, ViewInv
<1>4. /\ item'.st # "deleted"
      /\ item.st = "record" => item'.st = "record"
      /\ call[c].pc \in GetsPoints => s = item /\ item' = item
      /\ call[c].pc = "cas" => s.st \in {"true", "false"}
  BY <1>1, <1>3 DEF CacheServed, ViewInv, Store, Answer, GetsPoints, Dropping
<1>5. \A t, pc : Recorded(t, pc) => Recorded(t, pc)'
  BY <1>4 DEF Recorded
<1>6. \A i \in Instance :
        /\ Recorded(inst[i].token, "new")'
        /\ Shows(inst[i])' \/ \E d \in Call : call'[d].task.on = i /\ call'[d].pc \in CasPoints
  BY <1>2, <1>4 DEF ViewInv, Recorded, Shows
<1>7. ASSUME NEW d \in Call
      PROVE  /\ call'[d].task.op \notin {"delete", "unCache"}
             /\ call'[d].pc \notin Dropping
             /\ Recorded(0, call[d].pc)'
             /\ call'[d].pc = "cas" => reply'[d] = Waiting \/ reply'[d].st \in {"true", "false"}
             /\ call'[d].pc \in GetsPoints /\ reply'[d].st = "record" => item'.st = "record"
             /\ call'[d].pc \in {"refresh", "reread"} => reply'[d] = Waiting \/ Usable(reply'[d])
  <2>1. CASE d # c
    BY <1>2, <1>4, <2>1 DEF ViewInv, Recorded
  <2>2. CASE d = c
    BY <1>2, <1>4, <2>2 DEF ViewInv, Recorded, Usable, GetsPoints, CasPoints
  <2> QED BY <2>1, <2>2
<1> QED BY <1>4, <1>6, <1>7 DEF ViewInv

LEMMA DbServeView ==
  ASSUME TypeOK, ViewInv, NEW c \in Call, DbServe(c)
  PROVE  ViewInv'
<1>1. PICK s : reply' = [reply EXCEPT ![c] = s]
  BY DbServeAnswers
<1>2. UNCHANGED <<item, inst, call>> /\ call[c].pc \notin GetsPoints \cup {"cas"}
  BY DbServeAnswers DEF DbPoints, GetsPoints
<1>3. \A d \in Call : d # c => reply'[d] = reply[d]
  BY <1>1 DEF TypeOK
<1> QED BY <1>2, <1>3 DEF ViewInv, Recorded, Shows, GetsPoints

LEMMA InitView ==
  ASSUME Init, Lasting
  PROVE  ViewInv
<1>1. \A c \in Call : call[c].pc = "new" /\ reply[c] = Waiting
  BY DEF Init
<1>2. \A c \in Call : call[c].task.op \notin {"delete", "unCache"}
  BY DEF Init, Lasting
<1>3. item.st = "none" /\ \A i \in Instance : inst[i].token = 0 /\ Shows(inst[i])
  BY DEF Init, NoItem, NewInstance, Shows, Blank
<1> QED BY <1>1, <1>2, <1>3 DEF ViewInv, Recorded, Dropping, CasPoints, GetsPoints, CachePoints

LEMMA ViewStep ==
  ASSUME DerivedInv, DerivedInv', ViewInv, Lasting, [Next]_vars
  PROVE  ViewInv'
<1>1. TypeOK /\ TypeOK'
  BY DEF DerivedInv
<1>2. CASE UNCHANGED vars
  BY <1>2 DEF vars, ViewInv, Recorded, Shows
<1>3. CASE Next
  BY <1>1, <1>2, <1>3, StartView, CacheServeView, DbServeView, LoadView, CasView, DbView,
     SelectedExtraView DEF Next, Serve, Continue, Quiet, Evict, Lasting
<1> QED BY <1>2, <1>3

(* The invariant of the views holds in every reachable state.              *)
THEOREM ViewInvariance ==
  ASSUME Lasting
  PROVE  Spec => []ViewInv
<1>1. Init => ViewInv
  BY InitView
<1>2. DerivedInv /\ DerivedInv' /\ ViewInv /\ [Next]_vars => ViewInv'
  BY ViewStep
<1> QED BY <1>1, <1>2, DerivedInvariance, PTL DEF Spec

(* While nothing takes the cached record away, every column the record of  *)
(* an idle instance has is a property of the object with the same value,   *)
(* after any number of loads, inserts, updates and reads of the extra row, *)
(* overlapping or not, and whatever the database refuses.                  *)
THEOREM InstanceShows ==
  ASSUME Lasting
  PROVE  Spec => []InstanceShowsRecord
<1>1. ViewInv => InstanceShowsRecord
  <2> SUFFICES ASSUME ViewInv, NEW i \in Instance,
                      \A c \in Call : call[c].task.on = i => ~Active(c)
               PROVE  Shows(inst[i])
    BY DEF InstanceShowsRecord, Shows
  <2> QED BY DEF ViewInv, Active, CasPoints, Settled
<1> QED BY <1>1, ViewInvariance, PTL
=============================================================================
