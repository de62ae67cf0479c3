---------------------------- MODULE CoherentProofs -----------------------------
(***************************************************************************)
(* Proofs about DatabaseRecord: with one writer per column, nothing taking *)
(* the record out of the cache and the CAS retries not running out, the    *)
(* cached record and the row are a coherent write-ahead cache, for any     *)
(* number of instances, loads, updates and reads of the extra row; and     *)
(* what an update leaves on its instance.                                  *)
(***************************************************************************)
EXTENDS TokenProofs, FiniteSetTheorems

(* Loads, updates and reads of the extra row, one method at a time on each *)
(* instance, of a record that stays cached; each base column is updated    *)
(* through one instance only.                                              *)
Orderly ==
  /\ Lasting /\ ~Overlap /\ CacheEnabled /\ ~DbFaults
  /\ \A r \in InitialRows : r.has
  /\ \A c \in Call : \A t \in Task[c] :
       /\ t.op \in {"load", "update", "readExtra"} /\ ~t.force
       /\ \A x \in BaseField : t.arg.col[x] \notin Literal
  /\ \A c \in Call : \A d \in Call : \A t \in Task[c] : \A s \in Task[d] :
       t.op = "update" /\ s.op = "update" /\ t.on # s.on =>
         BaseColumns(t.arg) \cap BaseColumns(s.arg) = {}
  /\ NotDue \notin DbCell

(* No call has its last attempt refused.                                   *)
Patient == \A c \in Call : call[c].pc = "reread" => call[c].att < MaxCasAttempts

SameBase(p) == \A x \in BaseField : p.col[x] = row.col[x]

Storing == {"store", "fresh"}

(* A call that holds an update its caller or the extra table gave.         *)
Bearing(k) ==
  \/ k.task.op = "update" /\ Within(k.upd, k.task.arg)
  \/ k.task.op = "readExtra" /\ OnlyExtra(k.upd)

FrameOrderly(f) ==
  /\ f.k.pc # "insertBase"
  /\ f.k.pc = "store" /\ item.st = "none" => SameBase(f.k.val)
  /\ f.k.pc = "fresh" => item.st = "record"
  /\ f.k.pc \in CasPoints => Bearing(f.k) /\ f.o.token # 0
  /\ f.k.pc = "updateBase" => Bearing(f.k) /\ f.k.task.op = "update" /\ item.st = "record"
  /\ f.k.pc = "cas" =>
       \A x \in BaseField : f.k.upd.col[x] # Absent => Shown(f.k.val)[x] = f.k.upd.col[x]
  /\ f.k.pc = "selectExtra" => f.k.task.op = "readExtra" /\ f.o.has

ReplyOrderly(c) ==
  LET k == call[c]  r == reply[c]
  IN  r # Waiting =>
        /\ k.pc = "select" => r.st = "record" /\ (item.st = "none" => SameBase(r.val))
        /\ k.pc = "store" => r.st \in {"true", "false"} /\ item.st = "record"
        /\ k.pc = "fresh" => r.st = "record"
        /\ k.pc = "cas" => r \in {Answer("true"), Answer("false")}

Pending(x) == \E c \in Call : Due(c, x)

(* The cached record is ahead of the row by what is due.                   *)
Lead ==
  \A x \in BaseField :
    /\ \A c \in Call : Due(c, x) => Shown(item.val)[x] = call[c].upd.col[x]
    /\ item.st = "record" => Shown(item.val)[x] = row.col[x] \/ Pending(x)

OrderlyInv ==
  /\ row.has
  /\ \A i \in Instance :
       /\ ~inst[i].force
       /\ inst[i].has /\ inst[i].token = 0 =>
            \E c \in Call : call[c].task.on = i /\ call[c].pc \in Storing
  /\ \A c \in Call : call[c].task \in Task[c] /\ FrameOrderly(Frame(c)) /\ ReplyOrderly(c)
  /\ Lead

-----------------------------------------------------------------------------
(* Attempts: each one that is refused lost to a call that published, and a *)
(* call publishes once.                                                    *)

(* The calls that may publish.                                             *)
Publishers == {c \in Call : \E t \in Task[c] : t.op # "load"}

Few == IsFiniteSet(Publishers) /\ Cardinality(Publishers) <= MaxCasAttempts

(* Those that have, or will not publish any more.                          *)
Past == {"refresh", "updateBase", "updateExtra", "insertExtra", "resolved", "rejected"}

IsDone(c) == call[c].pc \in Past \/ (call[c].pc = "cas" /\ reply[c] = Answer("true"))
Done == {c \in Publishers : IsDone(c)}

Counted(k) ==
  /\ k.pc = "cas" => k.att <= k.tok
  /\ k.pc = "reread" => k.att < casSeq

CountInv ==
  /\ item.st = "none" => casSeq = 0
  /\ item.st = "record" => item.cas = casSeq
  /\ casSeq <= 1 + Cardinality(Done)
  /\ \A c \in Call :
       /\ Counted(call[c])
       /\ call[c].pc = "reread" /\ reply[c] # Waiting => call[c].att < reply[c].cas
-----------------------------------------------------------------------------
(* Frames.                                                                 *)

Steady(f) ==
  f \in FrameType /\ f.k.task.op \in {"load", "update", "readExtra"} /\ ~f.o.force

(* What the code may make of a frame.                                      *)
Sound(f, g) ==
  /\ g.k.task = f.k.task /\ g.k.pc # "new"
  /\ FrameOrderly(g)
  /\ ~g.o.force
  /\ g.o.has /\ g.o.token = 0 => g.k.pc \in Storing
  /\ CountInv => Counted(g.k)

LEMMA ShownCandidate ==
  ASSUME NEW p \in Payload, NEW u \in Payload
  PROVE  \A x \in BaseField :
           Shown(ApplyUpdate(p, u))[x] = IF u.col[x] # Absent THEN u.col[x] ELSE Shown(p)[x]
<1> SUFFICES ASSUME NEW x \in BaseField
             PROVE  Shown(ApplyUpdate(p, u))[x] = IF u.col[x] # Absent THEN u.col[x]
                                                  ELSE Shown(p)[x]
  OBVIOUS
<1>1. x \in Field /\ x \notin Dependents(u)
  BY FieldAssumption DEF Field, Dependents
<1>2. ApplyUpdate(p, u).col[x] = IF u.col[x] = Null THEN Absent
                                 ELSE IF u.col[x] = Absent THEN p.col[x] ELSE u.col[x]
  BY <1>1 DEF ApplyUpdate, MergeRecord
<1> QED BY <1>2, CellAssumption DEF Shown

LEMMA CandidateSound ==
  ASSUME NEW f, Steady(f), f.o.has, f.o.token # 0, Bearing(f.k),
         NEW record \in Payload, NEW token \in Nat, NEW attempt \in Nat,
         CountInv => attempt <= token,
         NEW g, Candidate(f, g, record, token, attempt)
  PROVE  Sound(f, g)
<1>1. f.k.upd \in Payload /\ g.k.upd = f.k.upd /\ g.k.task = f.k.task
  BY DEF Steady, FrameType, CallType, Candidate, Kept
<1>2. \A x \in BaseField : g.k.upd.col[x] # Absent => Shown(g.k.val)[x] = g.k.upd.col[x]
  BY <1>1, ShownCandidate DEF Candidate
<1>3. g.k.pc = "cas" /\ g.o.has = f.o.has /\ g.o.token = f.o.token /\ g.o.force = f.o.force
      /\ g.k.tok = token /\ g.k.att = attempt
  BY DEF Steady, FrameType, InstanceType, Candidate
<1>4. FrameOrderly(g)
  BY <1>1, <1>2, <1>3 DEF FrameOrderly, Bearing
<1> QED BY <1>1, <1>3, <1>4 DEF Sound, Steady, Counted

LEMMA UpdatedSound ==
  ASSUME CacheEnabled, NEW f, Steady(f), f.o.has, f.o.token # 0, Bearing(f.k),
         NEW g, Updated(f, g)
  PROVE  Sound(f, g) /\ g.k.pc = "cas"
<1>1. f.o.token \in Nat /\ f.o.record \in Payload
  BY DEF Steady, FrameType, InstanceType
<1>2. Candidate(f, g, f.o.record, f.o.token, 1)
  BY DEF Updated
<1> QED BY <1>1, <1>2, CandidateSound DEF Candidate

(* The part of a method that runs once its record is loaded does not       *)
(* publish by itself.                                                      *)
LEMMA BodySound ==
  ASSUME CacheEnabled, NEW f, Steady(f), f.o.has, f.o.token # 0
  PROVE  Sound(f, Body(f)) /\ Body(f).k.pc \notin {"refresh", "updateBase"}
<1> SUFFICES ASSUME NEW g, Runs(f, g)
             PROVE  Sound(f, g) /\ g.k.pc \notin {"refresh", "updateBase"}
  BY BodyFacts DEF Steady
<1>1. CASE Settles(f, g)
  <2>1. /\ g.o = f.o /\ g.k.task = f.k.task
        /\ g.k.pc \in {"resolved", "rejected", "selectExtra"}
        /\ g.k.pc = "selectExtra" => f.k.task.op = "readExtra"
    BY <1>1 DEF Settles, Kept, Steady
  <2> QED BY <2>1 DEF Sound, FrameOrderly, CasPoints, Steady, Counted
<1>2. ASSUME NEW u \in Payload, f.k.task.op = "update", Within(u, f.k.task.arg),
             Updated([f EXCEPT !.k.upd = u], g)
      PROVE  Sound(f, g) /\ g.k.pc \notin {"refresh", "updateBase"}
  <2> DEFINE h == [f EXCEPT !.k.upd = u]
  <2>1. h.o = f.o /\ h.k.task = f.k.task /\ h.k.upd = u /\ h \in FrameType
    BY DEF Steady, FrameType, CallType
  <2>2. Updated(h, g)
    BY <1>2
  <2> HIDE DEF h
  <2>3. Steady(h) /\ Bearing(h.k)
    BY <1>2, <2>1 DEF Steady, Bearing
  <2>4. Sound(h, g) /\ g.k.pc = "cas"
    BY <2>1, <2>2, <2>3, UpdatedSound
  <2> QED BY <2>1, <2>4 DEF Sound
<1> QED BY <1>1, <1>2 DEF Runs

(* After its CAS a call goes on to its statements.                         *)
LEMMA PersistedSound ==
  ASSUME NEW f, Steady(f), f.o.has, f.o.token # 0, Bearing(f.k), item.st = "record",
         NEW g, Persisted(f, g)
  PROVE  Sound(f, g) /\ g.k.upd = f.k.upd /\ g.k.pc \in Past
<1>1. /\ g.o = f.o /\ g.k.task = f.k.task /\ g.k.upd = f.k.upd
      /\ g.k.pc \in {"updateBase", "updateExtra", "resolved", "rejected"}
      /\ g.k.pc = "updateBase" => f.k.task.op = "update"
  BY DEF Persisted, Kept, Bearing
<1> QED BY <1>1 DEF Sound, FrameOrderly, CasPoints, Bearing, Steady, Counted, Past

-----------------------------------------------------------------------------
(* Steps of calls.                                                         *)

(* What is due after a step, if the call k awaits an answer.               *)
Owes(k, x) ==
  k.task.op = "update" /\ k.upd.col[x] # Absent /\ k.pc \in {"refresh", "updateBase"}

(* What a step may do to the record, the row and what is due: nothing, a   *)
(* reader's fill, a writer's CAS on the columns S, or its UPDATE of them.  *)
Idling == UNCHANGED <<row, item>> /\ \A x \in BaseField : Pending(x)' <=> Pending(x)

Filling ==
  /\ item.st = "none" /\ item'.st = "record" /\ row' = row
  /\ \A x \in BaseField : Shown(item'.val)[x] = row.col[x] /\ ~Pending(x) /\ ~Pending(x)'

Publishing(S) ==
  /\ item.st = "record" /\ item'.st = "record" /\ row' = row
  /\ \A x \in S : ~Pending(x) /\ Pending(x)' /\ Shown(item'.val)[x] \in DbCell
  /\ \A x \in BaseField \ S :
       (Pending(x)' <=> Pending(x)) /\ Shown(item'.val)[x] = Shown(item.val)[x]

Persisting(S) ==
  /\ item' = item
  /\ \A x \in S : Pending(x) /\ ~Pending(x)' /\ row'.col[x] = Shown(item.val)[x]
  /\ \A x \in BaseField \ S : (Pending(x)' <=> Pending(x)) /\ row'.col[x] = row.col[x]

DueStep ==
  Idling \/ Filling \/ \E S \in SUBSET BaseField : Publishing(S) \/ Persisting(S)

Known == DerivedInv /\ TokenInv /\ ViewInv /\ OrderlyInv

Advance == OrderlyInv' /\ DueStep /\ (CountInv /\ Few => CountInv')

LEMMA DoneGrows ==
  ASSUME Few, \A d \in Publishers : IsDone(d) => IsDone(d)'
  PROVE  /\ Cardinality(Done) \in Nat /\ Cardinality(Done)' \in Nat
         /\ Cardinality(Done) <= Cardinality(Done)'
<1>1. Done \subseteq Done' /\ Done' \subseteq Publishers
  BY DEF Done, Publishers
<1>2. IsFiniteSet(Publishers)
  BY DEF Few
<1>3. IsFiniteSet(Done')
  BY <1>1, <1>2, FS_Subset
<1>4. /\ IsFiniteSet(Done) /\ Cardinality(Done) \in Nat /\ Cardinality(Done') \in Nat
      /\ Cardinality(Done) <= Cardinality(Done')
  BY <1>1, <1>3, FS_Subset, FS_CardinalityType
<1> QED BY <1>4

LEMMA OrderlyResume ==
  ASSUME Orderly, Known, TypeOK', NEW c \in Call, NEW g, Resume(c, g),
         reply' = [reply EXCEPT ![c] = Waiting], Active(c) \/ Startable(c),
         Sound(Frame(c), g),
         \A x \in BaseField : Due(c, x) <=> Owes(g.k, x),
         \A x \in BaseField : Due(c, x) => g.k.upd = call[c].upd,
         IsDone(c) => g.k.pc \in Past
  PROVE  Advance
<1> DEFINE i == call[c].task.on
<1>1. TypeOK /\ TokenInv /\ OrderlyInv /\ Serial /\ ~Overlap
  BY DEF Known, DerivedInv, TokenInv, Orderly
<1>2. /\ call' = [call EXCEPT ![c] = g.k] /\ inst' = [inst EXCEPT ![i] = g.o]
      /\ g.k.task = call[c].task /\ g.k.pc # "new" /\ UNCHANGED <<item, casSeq, row, extra>>
      /\ FrameOrderly(g) /\ ~g.o.force /\ (g.o.has /\ g.o.token = 0 => g.k.pc \in Storing)
      /\ CountInv => Counted(g.k)
  BY DEF Resume, Sound, Frame
<1>3. i \in Instance /\ g.k \in CallType
  <2>1. call'[c] = g.k /\ call[c] \in CallType /\ call'[c] \in CallType
    BY <1>1, <1>2 DEF TypeOK
  <2> QED BY <2>1 DEF CallType, TaskType
<1> HIDE DEF i
<1>4. Alone(c)
  BY <1>1, <1>2, <1>3, SerialContinues, SerialStarts, AloneFacts
<1>5. /\ call'[c] = g.k /\ inst'[i] = g.o /\ reply'[c] = Waiting
      /\ \A d \in Call : d # c => call'[d] = call[d] /\ reply'[d] = reply[d]
      /\ \A d \in Call : call'[d].task = call[d].task
      /\ \A j \in Instance : j # i => inst'[j] = inst[j]
  BY <1>1, <1>2, <1>3 DEF TypeOK
<1>6. ASSUME NEW j \in Instance
      PROVE  /\ ~inst'[j].force
             /\ inst'[j].has /\ inst'[j].token = 0 =>
                  \E d \in Call : call'[d].task.on = j /\ call'[d].pc \in Storing
  <2>1. CASE j = i
    BY <1>2, <1>5, <2>1 DEF i
  <2>2. CASE j # i
    BY <1>1, <1>5, <2>2 DEF OrderlyInv, i
  <2> QED BY <2>1, <2>2
<1>7. ASSUME NEW d \in Call
      PROVE  call'[d].task \in Task[d] /\ FrameOrderly(Frame(d))' /\ ReplyOrderly(d)'
  <2>1. call'[d].task \in Task[d]
    BY <1>1, <1>5 DEF OrderlyInv
  <2>2. CASE d = c
    <3>1. Frame(c)'.k = g.k /\ Frame(c)'.o = g.o
      BY <1>2, <1>5 DEF Frame, i
    <3>2. FrameOrderly(Frame(c))'
      BY <1>2, <3>1 DEF FrameOrderly, SameBase
    <3> QED BY <1>5, <2>1, <2>2, <3>2 DEF ReplyOrderly
  <2>3. CASE d # c
    <3>1. call'[d] = call[d] /\ reply'[d] = reply[d]
      BY <1>5, <2>3
    <3>2. ReplyOrderly(d)'
      BY <1>1, <1>2, <3>1 DEF OrderlyInv, ReplyOrderly, SameBase
    <3>3. FrameOrderly(Frame(d)) /\ Frame(d).k = call[d] /\ Frame(d)'.k = call[d]
      BY <1>1, <3>1 DEF OrderlyInv, Frame
    <3>4. call[d].task.on \in Instance
      BY <1>1 DEF TypeOK, CallType, TaskType
    <3>5. call[d].pc \in CasPoints \cup {"selectExtra"} => Frame(d)'.o = Frame(d).o
      BY <1>4, <1>5, <2>3, <3>1, <3>4 DEF Alone, Active, Settled, Frame, CasPoints, i
    <3>6. FrameOrderly(Frame(d))'
      BY <1>2, <3>3, <3>5 DEF FrameOrderly, SameBase
    <3> QED BY <2>1, <3>2, <3>6
  <2> QED BY <2>2, <2>3
<1>8. \A d \in Call : \A x \in BaseField :
        (Due(d, x)' <=> Due(d, x)) /\ (Due(d, x) => call'[d].upd = call[d].upd)
  <2> SUFFICES ASSUME NEW d \in Call, NEW x \in BaseField
               PROVE  (Due(d, x)' <=> Due(d, x)) /\ (Due(d, x) => call'[d].upd = call[d].upd)
    OBVIOUS
  <2>1. CASE d = c
    <3>1. Due(c, x)' <=> Owes(g.k, x)
      BY <1>5 DEF Due, Owes, Waiting, Answer
    <3> QED BY <1>5, <2>1, <3>1
  <2>2. CASE d # c
    BY <1>5, <2>2 DEF Due
  <2> QED BY <2>1, <2>2
<1>9. \A x \in BaseField : Pending(x)' <=> Pending(x)
  BY <1>8 DEF Pending
<1>10. Lead'
  BY <1>1, <1>2, <1>8, <1>9 DEF OrderlyInv, Lead, Shown
<1>11. OrderlyInv'
  BY <1>1, <1>2, <1>6, <1>7, <1>10 DEF OrderlyInv
<1>12. ASSUME CountInv, Few PROVE CountInv'
  <2>1. \A d \in Publishers : IsDone(d) => IsDone(d)'
    BY <1>5 DEF IsDone, Publishers
  <2>2. casSeq' <= 1 + Cardinality(Done)'
    BY <1>1, <1>2, <1>12, <2>1, DoneGrows DEF CountInv, TypeOK
  <2>3. ASSUME NEW d \in Call
        PROVE  /\ Counted(call[d])'
               /\ call'[d].pc = "reread" /\ reply'[d] # Waiting => call'[d].att < reply'[d].cas
    BY <1>2, <1>5, <1>12 DEF CountInv, Counted
  <2> QED BY <1>2, <1>12, <2>2, <2>3 DEF CountInv
<1> QED BY <1>2, <1>9, <1>11, <1>12 DEF Advance, DueStep, Idling

(* A step of a call that has not published, and does not by that step.     *)
LEMMA QuietResume ==
  ASSUME Orderly, Known, TypeOK', NEW c \in Call, NEW g, Resume(c, g),
         reply' = [reply EXCEPT ![c] = Waiting], Active(c) \/ Startable(c),
         Sound(Frame(c), g), g.k.pc \notin {"refresh", "updateBase"},
         call[c].pc \notin Past \cup {"cas"}
  PROVE  Advance
<1>1. ~IsDone(c)
  BY DEF IsDone
<1>2. \A x : ~Due(c, x) /\ ~Owes(g.k, x)
  BY DEF Due, Owes, Past
<1> QED BY <1>1, <1>2, OrderlyResume

(* What a call finds when its answer has come.                             *)
LEMMA OrderlyAnswer ==
  ASSUME Orderly, Known, NEW c \in Call, NEW pc \in CachePoints \cup DbPoints, Answered(c, pc)
  PROVE  /\ Steady(Frame(c)) /\ Frame(c).k = call[c] /\ call[c].pc = pc
         /\ FrameOrderly(Frame(c)) /\ ReplyOrderly(c) /\ CacheEnabled /\ Active(c)
         /\ Frame(c).o.has /\ pc \notin Storing => Frame(c).o.token # 0
         /\ ReplyFit(c) /\ reply[c] \in Reply /\ reply[c] # Waiting /\ ItemFit
         /\ reply' = [reply EXCEPT ![c] = Waiting]
<1> DEFINE i == call[c].task.on
<1>1. TypeOK /\ TokenInv /\ OrderlyInv /\ Serial /\ CacheEnabled /\ DerivedInv
  BY DEF Known, DerivedInv, TokenInv, Orderly
<1>2. /\ Frame(c).k = call[c] /\ call[c].pc = pc /\ ReplyFit(c) /\ reply[c] \in Reply
      /\ reply[c] # Waiting /\ ItemFit /\ Active(c) /\ reply' = [reply EXCEPT ![c] = Waiting]
  BY <1>1, AnswerFit
<1>3. i \in Instance /\ call[c] \in CallType /\ Frame(c).o = inst[i] /\ inst[i] \in InstanceType
  BY <1>1 DEF TypeOK, CallType, TaskType, Frame
<1>4. call[c].task \in Task[c] /\ FrameOrderly(Frame(c)) /\ ReplyOrderly(c) /\ ~inst[i].force
  BY <1>1, <1>3 DEF OrderlyInv
<1>5. call[c].task.op \in {"load", "update", "readExtra"}
  BY <1>4 DEF Orderly
<1>6. Steady(Frame(c))
  BY <1>2, <1>3, <1>4, <1>5 DEF Steady, FrameType, Frame
<1>7. ASSUME inst[i].has, pc \notin Storing PROVE inst[i].token # 0
  <2>1. Alone(c)
    BY <1>1, <1>2, AloneFacts
  <2>2. \A d \in Call : call[d].task.on = i /\ call[d].pc \in Storing => d = c
    BY <2>1 DEF Alone, Active, Storing, Settled
  <2> QED BY <1>1, <1>2, <1>3, <1>7, <2>2 DEF OrderlyInv
<1> QED BY <1>1, <1>2, <1>3, <1>4, <1>6, <1>7

LEMMA AdoptSteady ==
  ASSUME NEW f, Steady(f), NEW r \in Reply, r.cas # 0
  PROVE  /\ Steady(Adopt(f, r)) /\ Adopt(f, r).k = f.k
         /\ Adopt(f, r).o.has /\ Adopt(f, r).o.token # 0
<1>1. Adopt(f, r) \in FrameType /\ Adopt(f, r).k = f.k /\ Adopt(f, r).o.token = r.cas
  BY AdoptShows DEF Steady
<1>2. Adopt(f, r).o.has /\ Adopt(f, r).o.force = f.o.force
  BY DEF Adopt, SetRecord, Steady, FrameType, InstanceType
<1> QED BY <1>1, <1>2 DEF Steady

LEMMA InCacheSteady ==
  ASSUME NEW f, Steady(f), NEW r \in Reply, r.cas # 0, NEW b \in BOOLEAN
  PROVE  /\ Steady([Adopt(f, r) EXCEPT !.o.inCache = b])
         /\ [Adopt(f, r) EXCEPT !.o.inCache = b].k = f.k
         /\ [Adopt(f, r) EXCEPT !.o.inCache = b].o.has
         /\ [Adopt(f, r) EXCEPT !.o.inCache = b].o.token # 0
<1> DEFINE h == Adopt(f, r)
<1>1. Steady(h) /\ h.k = f.k /\ h.o.has /\ h.o.token # 0
  BY AdoptSteady
<1> HIDE DEF h
<1>2. /\ Steady([h EXCEPT !.o.inCache = b]) /\ [h EXCEPT !.o.inCache = b].k = f.k
      /\ [h EXCEPT !.o.inCache = b].o.has /\ [h EXCEPT !.o.inCache = b].o.token # 0
  BY <1>1 DEF Steady, FrameType, InstanceType
<1> QED BY <1>2 DEF h

LEMMA GoSound ==
  ASSUME NEW f, Steady(f), f.o.has => f.o.token # 0,
         NEW pc, pc \notin CasPoints \cup {"new", "insertBase", "store", "fresh", "updateBase",
                                           "selectExtra"}
  PROVE  /\ Sound(f, Go(f, pc)) /\ Sound(f, Resolve(f)) /\ Sound(f, Reject(f))
         /\ Go(f, pc).k.pc = pc /\ Resolve(f).k.pc = "resolved" /\ Reject(f).k.pc = "rejected"
<1>1. f \in FrameType
  BY DEF Steady
<1>2. /\ Go(f, pc).o = f.o /\ Go(f, pc).k.task = f.k.task /\ Go(f, pc).k.pc = pc
      /\ Resolve(f).o = f.o /\ Resolve(f).k.task = f.k.task /\ Resolve(f).k.pc = "resolved"
      /\ Reject(f).o = f.o /\ Reject(f).k.task = f.k.task /\ Reject(f).k.pc = "rejected"
  BY <1>1, GoFacts, SettleFacts DEF Kept
<1> QED BY <1>2 DEF Sound, FrameOrderly, Counted, CasPoints, Steady

LEMMA CachedAdvances ==
  ASSUME Orderly, Known, TypeOK', NEW c \in Call, Cached(c)
  PROVE  Advance
<1> DEFINE f == Frame(c)
           r == reply[c]
<1>1. Answered(c, "cached") /\ "cached" \in CachePoints
  BY DEF Cached, CachePoints, GetsPoints
<1>2. /\ Steady(f) /\ call[c].pc = "cached" /\ CacheEnabled /\ Active(c)
      /\ (f.o.has => f.o.token # 0) /\ r \in Reply
      /\ (Usable(r) => r.cas # 0) /\ reply' = [reply EXCEPT ![c] = Waiting]
  BY <1>1, OrderlyAnswer DEF Storing, ReplyFit, Usable, GetsPoints
<1> HIDE DEF f, r
<1> DEFINE a == [Adopt(f, r) EXCEPT !.o.inCache = TRUE]
<1>3. Usable(r) => Sound(f, Body(a)) /\ Body(a).k.pc \notin {"refresh", "updateBase"}
  <2> SUFFICES ASSUME Usable(r)
               PROVE  Sound(f, Body(a)) /\ Body(a).k.pc \notin {"refresh", "updateBase"}
    OBVIOUS
  <2>1. Steady(a) /\ a.k = f.k /\ a.o.has /\ a.o.token # 0
    BY <1>2, InCacheSteady
  <2> HIDE DEF a
  <2> QED BY <1>2, <2>1, BodySound DEF Sound
<1>4. f.o.has => Sound(f, Body(f)) /\ Body(f).k.pc \notin {"refresh", "updateBase"}
  BY <1>2, BodySound
<1>5. Sound(f, Go(f, "select")) /\ Go(f, "select").k.pc = "select"
  BY <1>2, GoSound DEF CasPoints
<1>6. call[c].pc \notin Past \cup {"cas"}
  BY <1>2 DEF Past
<1> QED BY <1>2, <1>3, <1>4, <1>5, <1>6, QuietResume DEF Cached, f, r

LEMMA SelectedAdvances ==
  ASSUME Orderly, Known, TypeOK', NEW c \in Call, Selected(c)
  PROVE  Advance
<1> DEFINE f == Frame(c)
           r == reply[c]
           g == [SetRecord(f, r.val) EXCEPT !.k = [@ EXCEPT !.pc = "store", !.val = r.val]]
<1>1. Answered(c, "select") /\ "select" \in DbPoints
  BY DEF Selected, DbPoints
<1>2. /\ Steady(f) /\ call[c].pc = "select" /\ CacheEnabled /\ Active(c) /\ r \in Reply
      /\ r.st = "record" /\ (item.st = "none" => SameBase(r.val))
      /\ reply' = [reply EXCEPT ![c] = Waiting]
  BY <1>1, OrderlyAnswer DEF ReplyOrderly
<1> HIDE DEF f, r
<1>3. /\ g.k.task = f.k.task /\ g.k.pc = "store" /\ g.k.val = r.val
      /\ g.o.force = f.o.force
  BY <1>2 DEF SetRecord, Steady, FrameType, InstanceType, CallType
<1> HIDE DEF g
<1>4. Sound(f, g)
  BY <1>2, <1>3 DEF Sound, Steady, FrameOrderly, CasPoints, Counted, Storing
<1>5. call[c].pc \notin Past \cup {"cas"} /\ Resume(c, g)
  BY <1>2 DEF Past, Selected, f, r, g
<1> QED BY <1>2, <1>3, <1>4, <1>5, QuietResume DEF f

LEMMA StoredAdvances ==
  ASSUME Orderly, Known, TypeOK', NEW c \in Call, Stored(c)
  PROVE  Advance
<1> DEFINE e == Frame(c)
           f == [e EXCEPT !.k.val = Blank]
           g == Go(f, "fresh")
<1>1. Answered(c, "store") /\ "store" \in CachePoints
  BY DEF Stored, CachePoints
<1>2. /\ Steady(e) /\ call[c].pc = "store" /\ Active(c)
      /\ reply[c].st # "err" /\ item.st = "record"
      /\ reply' = [reply EXCEPT ![c] = Waiting]
  BY <1>1, OrderlyAnswer DEF ReplyOrderly
<1> HIDE DEF e
<1>3. Steady(f) /\ f.k.task = e.k.task /\ f.o = e.o
  BY <1>2, BlankType DEF Steady, FrameType, CallType
<1> HIDE DEF f
<1>4. g.k.task = e.k.task /\ g.k.pc = "fresh" /\ g.o = e.o
  BY <1>3, GoFacts DEF Steady, Kept
<1>5. Resume(c, g)
  BY <1>2 DEF Stored, f, e
<1> HIDE DEF g
<1>6. Sound(e, g)
  BY <1>2, <1>4 DEF Sound, Steady, FrameOrderly, CasPoints, Counted, Storing
<1>7. call[c].pc \notin Past \cup {"cas"}
  BY <1>2 DEF Past
<1> QED BY <1>2, <1>4, <1>5, <1>6, <1>7, QuietResume DEF e

LEMMA FreshAdvances ==
  ASSUME Orderly, Known, TypeOK', NEW c \in Call, Fresh(c)
  PROVE  Advance
<1> DEFINE f == Frame(c)
           r == reply[c]
           a == [Adopt(f, r) EXCEPT !.o.inCache = FALSE]
<1>1. Answered(c, "fresh") /\ "fresh" \in CachePoints
  BY DEF Fresh, CachePoints, GetsPoints
<1>2. /\ Steady(f) /\ call[c].pc = "fresh" /\ CacheEnabled /\ Active(c) /\ r \in Reply
      /\ Usable(r) /\ r.cas # 0 /\ reply' = [reply EXCEPT ![c] = Waiting]
  BY <1>1, OrderlyAnswer DEF ReplyOrderly, ReplyFit, Usable, GetsPoints
<1> HIDE DEF f, r
<1>3. Steady(a) /\ a.k = f.k /\ a.o.has /\ a.o.token # 0
  BY <1>2, InCacheSteady
<1>4. Resume(c, Body(a))
  BY <1>2 DEF Fresh, f, r
<1> HIDE DEF a
<1>5. Sound(f, Body(a)) /\ Body(a).k.pc \notin {"refresh", "updateBase"}
  BY <1>2, <1>3, BodySound DEF Sound
<1>6. call[c].pc \notin Past \cup {"cas"}
  BY <1>2 DEF Past
<1> QED BY <1>2, <1>4, <1>5, <1>6, QuietResume DEF f

LEMMA CasAnsweredAdvances ==
  ASSUME Orderly, Known, TypeOK', NEW c \in Call, CasAnswered(c)
  PROVE  Advance
<1> DEFINE f == Frame(c)
           r == reply[c]
           h == [f EXCEPT !.k.val = Blank, !.k.tok = 0]
<1>1. Answered(c, "cas") /\ "cas" \in CachePoints
  BY DEF CasAnswered, CachePoints
<1>2. /\ Steady(f) /\ f.k = call[c] /\ call[c].pc = "cas" /\ Active(c) /\ FrameOrderly(f)
      /\ r \in {Answer("true"), Answer("false")} /\ reply' = [reply EXCEPT ![c] = Waiting]
  BY <1>1, OrderlyAnswer DEF ReplyOrderly
<1>3. r.st \in {"true", "false"} => Stale(f.k.tok)
  BY <1>1, <1>2, OrderlyAnswer DEF ReplyFit
<1>4. FrameFit(f) /\ item.st = "record"
  BY <1>1, <1>2, AnswerFit, AnswerLit DEF Known, DerivedInv, CasPoints
<1>5. Counted(f.k) \/ ~CountInv
  BY <1>2 DEF CountInv
<1>6. f.k.att \in Nat /\ f.k.tok \in Nat /\ casSeq \in Nat /\ item.cas \in Nat
  BY <1>2 DEF Steady, FrameType, CallType, Known, DerivedInv, TypeOK, Item
<1> HIDE DEF f, r
<1>7. Bearing(f.k) /\ f.o.token # 0 /\ f \in FrameType /\ ~f.o.force
  BY <1>2, <1>4 DEF FrameOrderly, CasPoints, Steady
<1>8. CASE r.st = "true"
  <2> DEFINE g == Go(f, "refresh")
  <2>1. g.o = f.o /\ g.k.task = f.k.task /\ g.k.upd = f.k.upd /\ g.k.pc = "refresh"
    BY <1>7, GoFacts DEF Kept
  <2>2. Resume(c, g)
    BY <1>8 DEF CasAnswered, f, r
  <2> HIDE DEF g
  <2>3. Sound(f, g)
    BY <1>7, <2>1 DEF Sound, FrameOrderly, CasPoints, Bearing, Counted
  <2>4. r = Answer("true")
    BY <1>2, <1>8 DEF Answer
  <2>5. \A x \in BaseField : (Due(c, x) <=> Owes(g.k, x)) /\ g.k.upd = call[c].upd
    BY <1>2, <2>1, <2>4 DEF Due, Owes, r
  <2>6. g.k.pc \in Past
    BY <2>1 DEF Past
  <2> QED BY <1>2, <2>2, <2>3, <2>5, <2>6, OrderlyResume DEF f
<1>9. CASE r.st = "false"
  <2> DEFINE g == Go(h, "reread")
  <2>1. h \in FrameType /\ h.o = f.o /\ h.k.task = f.k.task /\ h.k.upd = f.k.upd
        /\ h.k.att = f.k.att
    BY <1>7, BlankType DEF FrameType, CallType
  <2> HIDE DEF h
  <2>2. g.o = f.o /\ g.k.task = f.k.task /\ g.k.upd = f.k.upd /\ g.k.pc = "reread"
        /\ g.k.att = f.k.att
    BY <2>1, GoFacts DEF Kept
  <2>3. Resume(c, g)
    BY <1>9 DEF CasAnswered, f, r, h
  <2> HIDE DEF g
  <2>4. CountInv => f.k.att < casSeq
    <3>1. f.k.tok # item.cas /\ f.k.tok <= casSeq
      BY <1>2, <1>3, <1>4, <1>9 DEF Stale, FrameFit, Fit
    <3>2. CountInv => f.k.att <= f.k.tok /\ item.cas = casSeq
      BY <1>2, <1>4, <1>5 DEF CountInv, Counted
    <3> QED BY <1>6, <3>1, <3>2
  <2>5. Sound(f, g)
    BY <1>7, <2>2, <2>4 DEF Sound, FrameOrderly, CasPoints, Bearing, Counted
  <2>6. r # Answer("true") /\ r # Waiting
    BY <1>9 DEF Answer, Waiting
  <2>7. \A x \in BaseField : ~Due(c, x) /\ ~Owes(g.k, x)
    BY <1>2, <2>2, <2>6 DEF Due, Owes, r
  <2>8. ~IsDone(c)
    BY <1>2, <2>6 DEF IsDone, Past, r
  <2> QED BY <1>2, <2>3, <2>5, <2>7, <2>8, OrderlyResume DEF f
<1> QED BY <1>2, <1>8, <1>9 DEF Answer

LEMMA RefreshedAdvances ==
  ASSUME Orderly, Known, TypeOK', NEW c \in Call, Refreshed(c)
  PROVE  Advance
<1> DEFINE f == Frame(c)
           r == reply[c]
           a == Adopt(f, r)
<1>1. Answered(c, "refresh") /\ "refresh" \in CachePoints
  BY DEF Refreshed, CachePoints, GetsPoints
<1>2. /\ Steady(f) /\ f.k = call[c] /\ call[c].pc = "refresh" /\ Active(c) /\ FrameOrderly(f)
      /\ r \in Reply /\ reply' = [reply EXCEPT ![c] = Waiting]
  BY <1>1, OrderlyAnswer
<1>3. Usable(r) /\ item.st = "record"
  BY <1>1, <1>2, AnswerLit DEF Known, DerivedInv, CasPoints
<1>4. r.cas # 0
  BY <1>1, <1>2, <1>3, OrderlyAnswer DEF ReplyFit, Usable, GetsPoints
<1> HIDE DEF f, r
<1>5. Steady(a) /\ a.k = f.k /\ a.o.has /\ a.o.token # 0
  BY <1>2, <1>4, AdoptSteady
<1>6. Resume(c, AfterUpdateCache(a))
  BY <1>3 DEF Refreshed, Usable, f, r
<1> HIDE DEF a
<1> SUFFICES ASSUME NEW g, Persisted(a, g), Resume(c, g) PROVE Advance
  BY <1>5, <1>6, AfterUpdateCacheFacts DEF Steady
<1>7. Bearing(a.k)
  BY <1>2, <1>5 DEF FrameOrderly, CasPoints
<1>8. Sound(a, g) /\ g.k.upd = a.k.upd /\ g.k.pc \in Past
  BY <1>3, <1>5, <1>7, PersistedSound
<1>9. Sound(f, g)
  BY <1>5, <1>8 DEF Sound
<1>10. ASSUME NEW x \in BaseField PROVE Due(c, x) <=> Owes(g.k, x)
  <2>1. g.k.task = call[c].task /\ g.k.upd = call[c].upd
    BY <1>2, <1>5, <1>8 DEF Sound
  <2>2. Due(c, x) <=> call[c].task.op = "update" /\ call[c].upd.col[x] # Absent
    BY <1>2 DEF Due
  <2>3. Due(c, x) => x \in BaseColumns(call[c].upd)
    BY <2>2 DEF BaseColumns, Touched, Field
  <2>4. Due(c, x) => g.k.pc = "updateBase"
    BY <1>2, <1>5, <2>2, <2>3 DEF Persisted
  <2> QED BY <2>1, <2>2, <2>4 DEF Owes
<1> QED BY <1>2, <1>5, <1>8, <1>9, <1>10, OrderlyResume DEF f

LEMMA RereadAdvances ==
  ASSUME Orderly, Known, Patient, TypeOK', NEW c \in Call, Reread(c)
  PROVE  Advance
<1> DEFINE f == Frame(c)
           r == reply[c]
           h == SetRecord(f, r.val)
           n == f.k.att + 1
<1>1. Answered(c, "reread") /\ "reread" \in CachePoints
  BY DEF Reread, CachePoints, GetsPoints
<1>2. /\ Steady(f) /\ f.k = call[c] /\ call[c].pc = "reread" /\ Active(c) /\ FrameOrderly(f)
      /\ r \in Reply /\ r # Waiting /\ reply' = [reply EXCEPT ![c] = Waiting]
  BY <1>1, OrderlyAnswer
<1>3. Usable(r) /\ item.st = "record"
  BY <1>1, <1>2, AnswerLit DEF Known, DerivedInv, CasPoints
<1>4. CountInv => f.k.att < r.cas
  BY <1>2 DEF CountInv
<1>5. f.k.att < MaxCasAttempts /\ f.k.att \in Nat /\ r.cas \in Nat /\ r.val \in Payload
  BY <1>2 DEF Patient, Steady, FrameType, CallType, Reply
<1> HIDE DEF f, r
<1>6. /\ h \in FrameType /\ h.k = f.k /\ h.o.has /\ h.o.token = f.o.token
      /\ h.o.force = f.o.force
  <2>1. h \in FrameType /\ h.k = f.k /\ h.o.token = f.o.token
    BY <1>2, <1>5, SetRecordShows DEF Steady
  <2>2. h.o.has /\ h.o.force = f.o.force
    BY <1>2 DEF SetRecord, Steady, FrameType, InstanceType
  <2> QED BY <2>1, <2>2
<1>7. Resume(c, PerformCasUpdate(h, r.val, r.cas, n))
  BY <1>3 DEF Reread, RetryFrom, f, r
<1>8. n \in Nat /\ ~(n > MaxCasAttempts) /\ (CountInv => n <= r.cas)
  BY <1>4, <1>5, BoundAssumption
<1> HIDE DEF h, n
<1> SUFFICES ASSUME NEW g, Candidate(h, g, r.val, r.cas, n), Resume(c, g) PROVE Advance
  BY <1>6, <1>7, <1>8, PerformCasUpdateFacts
<1>9. Steady(h) /\ Bearing(h.k) /\ h.o.token # 0
  BY <1>2, <1>6 DEF Steady, FrameOrderly, CasPoints
<1>10. Sound(h, g)
  BY <1>5, <1>6, <1>8, <1>9, CandidateSound
<1>11. Sound(f, g) /\ g.k.pc = "cas"
  BY <1>6, <1>10 DEF Sound, Candidate
<1>12. call[c].pc \notin Past \cup {"cas"}
  BY <1>2 DEF Past
<1> QED BY <1>2, <1>11, <1>12, QuietResume DEF f

(* The answers of the database after the CAS.                              *)
LEMMA WrittenAdvances ==
  ASSUME Orderly, Known, TypeOK', NEW c \in Call,
         UpdatedBase(c) \/ UpdatedExtra(c) \/ InsertedExtra(c)
  PROVE  Advance
<1> DEFINE f == Frame(c)
<1>1. PICK pc \in {"updateBase", "updateExtra", "insertExtra"} : Answered(c, pc)
  BY DEF UpdatedBase, UpdatedExtra, InsertedExtra
<1>2. /\ Steady(f) /\ f.k = call[c] /\ call[c].pc = pc /\ Active(c) /\ reply[c] # Waiting
      /\ (f.o.has => f.o.token # 0) /\ reply' = [reply EXCEPT ![c] = Waiting]
  BY <1>1, OrderlyAnswer DEF DbPoints, Storing
<1> HIDE DEF f
<1>3. /\ Sound(f, Resolve(f)) /\ Sound(f, Reject(f)) /\ Sound(f, Go(f, "insertExtra"))
      /\ Resolve(f).k.pc = "resolved" /\ Reject(f).k.pc = "rejected"
      /\ Go(f, "insertExtra").k.pc = "insertExtra"
  BY <1>2, GoSound DEF CasPoints
<1>4. /\ Sound(f, PersistExtra(f))
      /\ PersistExtra(f).k.pc \in {"updateExtra", "resolved", "rejected"}
  <2>1. /\ PersistExtra(f).k.task = f.k.task /\ PersistExtra(f).o = f.o
        /\ PersistExtra(f).k.pc \in {"updateExtra", "resolved", "rejected"}
    BY <1>2, PersistExtraFacts DEF Steady, Kept
  <2> QED BY <1>2, <2>1 DEF Sound, FrameOrderly, CasPoints, Counted, Steady
<1>5. ASSUME NEW g, Sound(f, g), Resume(c, g),
             g.k.pc \in {"updateExtra", "insertExtra", "resolved", "rejected"}
      PROVE  Advance
  <2>1. \A x \in BaseField : ~Due(c, x) /\ ~Owes(g.k, x)
    BY <1>2, <1>5 DEF Due, Owes
  <2>2. g.k.pc \in Past
    BY <1>5 DEF Past
  <2> QED BY <1>2, <1>5, <2>1, <2>2, OrderlyResume DEF f
<1>6. CASE UpdatedBase(c)
  BY <1>3, <1>4, <1>5, <1>6 DEF UpdatedBase, f
<1>7. CASE UpdatedExtra(c)
  BY <1>3, <1>5, <1>7 DEF UpdatedExtra, Fire, f
<1>8. CASE InsertedExtra(c)
  BY <1>3, <1>5, <1>8 DEF InsertedExtra, Fire, f
<1> QED BY <1>6, <1>7, <1>8

(* No call inserts, deletes or invalidates.                                *)
LEMMA NoOtherAnswer ==
  ASSUME Orderly, Known, NEW c \in Call
  PROVE  ~(InsertedBase(c) \/ DeletedBase(c) \/ DeletedExtra(c) \/ Invalidated(c) \/ Marked(c))
<1>1. call[c].pc \notin Dropping \cup {"insertBase"}
  BY DEF Known, ViewInv, OrderlyInv, FrameOrderly, Frame
<1> QED BY <1>1 DEF InsertedBase, DeletedBase, DeletedExtra, Invalidated, Marked, Answered, Dropping

LEMMA SelectedExtraAdvances ==
  ASSUME Orderly, Known, TypeOK', NEW c \in Call, SelectedExtra(c)
  PROVE  Advance
<1> DEFINE f == Frame(c)
           r == reply[c]
           u == IF r.st = "none" THEN DefaultsPayload ELSE r.val
           h == [f EXCEPT !.k.upd = u]
           m == Merge(h, u)
<1>1. Answered(c, "selectExtra") /\ "selectExtra" \in DbPoints
  BY DEF SelectedExtra, DbPoints
<1>2. /\ Steady(f) /\ f.k = call[c] /\ call[c].pc = "selectExtra" /\ Active(c) /\ FrameOrderly(f)
      /\ (f.o.has => f.o.token # 0) /\ r \in Reply /\ CacheEnabled
      /\ reply' = [reply EXCEPT ![c] = Waiting]
  BY <1>1, OrderlyAnswer DEF Storing
<1>3. OnlyExtra(r.val)
  BY <1>1, AnswerOK DEF Known
<1> HIDE DEF f, r
<1>4. u \in Payload /\ OnlyExtra(u)
  BY <1>2, <1>3, ExtraPayloadType, DefaultsPayloadType DEF Reply
<1> HIDE DEF u
<1>5. f.k.task.op = "readExtra" /\ f.o.has /\ f.o.token # 0
  BY <1>2 DEF FrameOrderly
<1>6. h \in FrameType /\ h.o = f.o /\ h.k.task = f.k.task /\ h.k.upd = u
  BY <1>2, <1>4 DEF Steady, FrameType, CallType
<1> HIDE DEF h
<1>7. /\ m \in FrameType /\ m.k = h.k /\ m.o.has /\ m.o.token = f.o.token
      /\ m.o.force = f.o.force
  <2>1. /\ m \in FrameType /\ m.k = h.k
        /\ m.o = [h.o EXCEPT !.has = TRUE, !.record = MergeRecord(h.o.record, u),
                             !.view = ApplyRecordToInstance(h.o.view, u)]
    BY <1>4, <1>6, MergeFacts
  <2> HIDE DEF m
  <2> QED BY <1>6, <2>1 DEF FrameType, InstanceType
<1> HIDE DEF m
<1>8. Steady(m) /\ Bearing(m.k)
  BY <1>2, <1>4, <1>5, <1>6, <1>7 DEF Steady, Bearing
<1>9. Sound(m, UpdateCache(m)) /\ UpdateCache(m).k.pc = "cas"
  <2>1. Updated(m, UpdateCache(m))
    BY <1>7, UpdateCacheFacts
  <2> QED BY <1>2, <1>5, <1>7, <1>8, <2>1, UpdatedSound
<1>10. Sound(f, UpdateCache(m))
  BY <1>6, <1>7, <1>9 DEF Sound
<1>11. Sound(f, Reject(f)) /\ Reject(f).k.pc = "rejected"
  BY <1>2, GoSound DEF CasPoints
<1>12. call[c].pc \notin Past \cup {"cas"}
  BY <1>2 DEF Past
<1> QED BY <1>2, <1>9, <1>10, <1>11, <1>12, QuietResume DEF SelectedExtra, f, r, u, h, m

LEMMA StartAdvances ==
  ASSUME Orderly, Known, TypeOK', NEW c \in Call, Start(c)
  PROVE  Advance
<1> DEFINE f == Frame(c)
           i == call[c].task.on
           e == [f EXCEPT !.o = NewInstance(FALSE)]
<1>1. TypeOK /\ OrderlyInv /\ DerivedInv /\ ~Overlap /\ CacheEnabled
  BY DEF Known, DerivedInv, Orderly
<1>2. Startable(c) /\ call[c].pc = "new" /\ reply' = [reply EXCEPT ![c] = Waiting]
  BY <1>1 DEF Start, Startable, DerivedInv, ReplySound, TypeOK
<1>3. call[c].task \in Task[c] /\ i \in Instance /\ call[c] \in CallType
  BY <1>1 DEF OrderlyInv, TypeOK, CallType, TaskType
<1>4. call[c].task.op \in {"load", "update", "readExtra"} /\ ~call[c].task.force
  BY <1>3 DEF Orderly
<1>5. f.k = call[c] /\ f.o = inst[i] /\ Steady(f)
  BY <1>1, <1>3, <1>4 DEF Frame, OrderlyInv, Steady, TypeOK, FrameType
<1>6. call[c].task.op # "load" /\ f.o.has => f.o.token # 0
  <2>1. call[c].task.op # "load" => \A d \in Call : call[d].task.on = i => ~Active(d)
    BY <1>1, <1>2, <1>4 DEF Startable, Makes
  <2>2. \A d \in Call : call[d].pc \in Storing => Active(d)
    BY DEF Storing, Active, Settled
  <2> QED BY <1>1, <1>3, <1>5, <2>1, <2>2 DEF OrderlyInv
<1>7. f.k.task.force = FALSE
  BY <1>3, <1>4, <1>5 DEF CallType, TaskType
<1>8. Start(c) => Resume(c, CASE f.k.task.op = "load" -> Initialise(e)
                              [] OTHER -> EnsureRecordLoaded(f))
  BY <1>4, <1>5, <1>7 DEF Start, f, e
<1> HIDE DEF f
<1>9. Steady(e) /\ e.k = f.k /\ ~e.o.has /\ ~e.o.force
  BY <1>5, BlankType, BlankView DEF Steady, FrameType, InstanceType, NewInstance
<1> HIDE DEF e, i
<1>10. Initialise(e) = Go(e, "cached") /\ Initialise(f) = Go(f, "cached")
  BY <1>1, <1>5, <1>9 DEF Initialise, Steady
<1>11. Sound(f, Initialise(e)) /\ Initialise(e).k.pc = "cached"
  BY <1>9, <1>10, GoSound DEF CasPoints, Sound
<1>12. call[c].task.op # "load" =>
         /\ Sound(f, EnsureRecordLoaded(f))
         /\ EnsureRecordLoaded(f).k.pc \notin {"refresh", "updateBase"}
  <2> SUFFICES ASSUME call[c].task.op # "load"
               PROVE  /\ Sound(f, EnsureRecordLoaded(f))
                      /\ EnsureRecordLoaded(f).k.pc \notin {"refresh", "updateBase"}
    OBVIOUS
  <2>1. CASE f.o.has
    BY <1>1, <1>5, <1>6, <2>1, BodySound DEF EnsureRecordLoaded
  <2>2. CASE ~f.o.has
    <3>1. Sound(f, Go(f, "cached")) /\ Go(f, "cached").k.pc = "cached"
      BY <1>5, <2>2, GoSound DEF CasPoints
    <3> QED BY <1>10, <2>2, <3>1 DEF EnsureRecordLoaded
  <2> QED BY <2>1, <2>2
<1>13. call[c].pc \notin Past \cup {"cas"}
  BY <1>2 DEF Past
<1> QED BY <1>2, <1>5, <1>8, <1>11, <1>12, <1>13, QuietResume DEF f

-----------------------------------------------------------------------------
(* Steps of the servers.                                                   *)

(* A call that has a value of the column x to publish or to write.         *)
Bears(c, x) ==
  /\ call[c].task.op = "update" /\ call[c].upd.col[x] # Absent
  /\ call[c].pc \in CasPoints \cup {"updateBase"}

LEMMA DueBears ==
  ASSUME NEW c, NEW x, Due(c, x)
  PROVE  Bears(c, x)
BY DEF Due, Bears, CasPoints

LEMMA BearsArg ==
  ASSUME Known, NEW c \in Call, NEW x \in BaseField, Bears(c, x)
  PROVE  /\ call[c].task \in Task[c] /\ Active(c)
         /\ call[c].upd.col[x] = call[c].task.arg.col[x]
         /\ x \in BaseColumns(call[c].task.arg)
<1>1. call[c].task \in Task[c] /\ Active(c) /\ Bearing(call[c])
  BY DEF Known, OrderlyInv, FrameOrderly, Frame, Bears, Active, Settled, CasPoints
<1>2. x \in Field
  BY DEF Field
<1> QED BY <1>1, <1>2 DEF Bearing, Within, Bears, BaseColumns, Touched

(* A column has one writer.                                                *)
LEMMA OneWriter ==
  ASSUME Orderly, Known, NEW c \in Call, NEW d \in Call, NEW x \in BaseField,
         Bears(c, x), Bears(d, x)
  PROVE  c = d
<1>1. /\ call[c].task \in Task[c] /\ x \in BaseColumns(call[c].task.arg) /\ Active(c)
      /\ call[d].task \in Task[d] /\ x \in BaseColumns(call[d].task.arg) /\ Active(d)
  BY BearsArg
<1>2. call[c].task.op = "update" /\ call[d].task.op = "update"
  BY DEF Bears
<1>3. call[c].task.on = call[d].task.on
  BY <1>1, <1>2 DEF Orderly
<1> QED BY <1>1, <1>3 DEF Known, TokenInv, Serial, Orderly

LEMMA BearsCell ==
  ASSUME Orderly, Known, NEW c \in Call, NEW x \in BaseField, Bears(c, x)
  PROVE  call[c].upd.col[x] \in DbCell
<1>1. call[c].upd.col[x] \notin Literal
  BY BearsArg DEF Orderly
<1>2. call[c].upd.col[x] \in Cell
  BY DEF Known, DerivedInv, TypeOK, CallType, Payload, Field
<1> QED BY <1>1, <1>2 DEF Cell, Bears

(* A writer is under way only while the record is cached.                  *)
LEMMA NothingDue ==
  ASSUME Known, item.st # "record"
  PROVE  \A x \in BaseField : ~Pending(x)
BY DEF Known, ViewInv, Recorded, OrderlyInv, FrameOrderly, Frame, Pending, Due, CasPoints

(* What a server leaves alone of the invariant.                            *)
LEMMA ServeOrderly ==
  ASSUME Known, NEW c \in Call, NEW s, reply' = [reply EXCEPT ![c] = s],
         UNCHANGED <<inst, call>>, row'.has, row' = row \/ item'.st = "record",
         item.st = "record" => item'.st = "record", item'.st = "none" => item.st = "none",
         ReplyOrderly(c)', Lead'
  PROVE  OrderlyInv'
<1>1. TypeOK /\ OrderlyInv
  BY DEF Known, DerivedInv
<1>2. ASSUME NEW d \in Call PROVE call'[d].task \in Task[d] /\ FrameOrderly(Frame(d))'
  <2>1. call'[d].task \in Task[d] /\ FrameOrderly(Frame(d)) /\ Frame(d)' = Frame(d)
    BY <1>1 DEF OrderlyInv, Frame
  <2> QED BY <1>1, <2>1 DEF FrameOrderly, SameBase
<1>3. ASSUME NEW d \in Call, d # c PROVE ReplyOrderly(d)'
  <2>1. reply'[d] = reply[d]
    BY <1>1, <1>3 DEF TypeOK
  <2> QED BY <1>1, <2>1 DEF OrderlyInv, ReplyOrderly, SameBase
<1>4. \A i \in Instance :
        /\ ~inst'[i].force
        /\ inst'[i].has /\ inst'[i].token = 0 =>
             \E d \in Call : call'[d].task.on = i /\ call'[d].pc \in Storing
  BY <1>1 DEF OrderlyInv
<1> QED BY <1>2, <1>3, <1>4 DEF OrderlyInv

LEMMA OthersDue ==
  ASSUME Known, NEW c \in Call, NEW s, reply' = [reply EXCEPT ![c] = s], UNCHANGED call
  PROVE  /\ \A d \in Call : d # c => \A x : Due(d, x)' <=> Due(d, x)
         /\ reply'[c] = s
         /\ \A d \in Call : d # c => (IsDone(d)' <=> IsDone(d))
BY DEF Known, DerivedInv, TypeOK, Due, IsDone

(* Attempts, when a server answers c.                                      *)
LEMMA ServeCount ==
  ASSUME Orderly, Known, CountInv, Few, NEW c \in Call, NEW s,
         reply' = [reply EXCEPT ![c] = s], UNCHANGED call,
         call[c].pc = "reread" => s = item,
         IsDone(c) => IsDone(c)',
         \/ UNCHANGED <<item, casSeq>>
         \/ /\ casSeq' = casSeq + 1 /\ item'.st = "record" /\ item'.cas = casSeq'
            /\ item.st = "none" \/ (c \in Publishers /\ ~IsDone(c) /\ IsDone(c)')
  PROVE  CountInv'
<1>1. casSeq \in Nat /\ TypeOK
  BY DEF Known, DerivedInv, TypeOK
<1>2. \A d \in Call : d # c => reply'[d] = reply[d]
  BY <1>1 DEF TypeOK
<1>3. \A d \in Publishers : IsDone(d) => IsDone(d)'
  BY OthersDue DEF Publishers
<1>4. /\ Cardinality(Done) \in Nat /\ Cardinality(Done)' \in Nat
      /\ Cardinality(Done) <= Cardinality(Done)'
  BY <1>3, DoneGrows
<1>5. c \in Publishers /\ ~IsDone(c) /\ IsDone(c)' => Cardinality(Done) < Cardinality(Done)'
  <2> SUFFICES ASSUME c \in Publishers, ~IsDone(c), IsDone(c)'
               PROVE  Cardinality(Done) < Cardinality(Done)'
    OBVIOUS
  <2>1. c \notin Done /\ Done \cup {c} \subseteq Done' /\ Done' \subseteq Publishers
    BY <1>3 DEF Done, Publishers
  <2>2. IsFiniteSet(Done') /\ IsFiniteSet(Done)
    BY <2>1, FS_Subset DEF Few, Done
  <2>3. Cardinality(Done \cup {c}) = Cardinality(Done) + 1
    BY <2>1, <2>2, FS_AddElement
  <2>4. Cardinality(Done \cup {c}) <= Cardinality(Done')
    BY <2>1, <2>2, FS_Subset
  <2> QED BY <1>4, <2>3, <2>4
<1>6. casSeq' <= 1 + Cardinality(Done)'
  BY <1>1, <1>4, <1>5 DEF CountInv
<1>7. ASSUME NEW d \in Call
      PROVE  /\ Counted(call[d])'
             /\ call'[d].pc = "reread" /\ reply'[d] # Waiting => call'[d].att < reply'[d].cas
  <2>1. Counted(call[d])'
    <3>1. call[d].att \in Nat
      BY <1>1 DEF TypeOK, CallType
    <3> QED BY <1>1, <3>1 DEF CountInv, Counted
  <2>2. CASE d # c
    BY <1>2, <2>1, <2>2 DEF CountInv
  <2>3. ASSUME d = c, call'[c].pc = "reread", reply'[c] # Waiting
        PROVE  call'[c].att < reply'[c].cas
    <3>1. reply'[c] = item
      BY <1>1, <2>3 DEF TypeOK
    <3>2. item.st = "record"
      BY <2>3 DEF Known, ViewInv, Recorded, CasPoints
    <3> QED BY <2>3, <3>1, <3>2 DEF CountInv, Counted
  <2> QED BY <2>1, <2>2, <2>3
<1>8. (item'.st = "none" => casSeq' = 0) /\ (item'.st = "record" => item'.cas = casSeq')
  BY DEF CountInv
<1> QED BY <1>6, <1>7, <1>8 DEF CountInv

(* A request that leaves the item as it is.                                *)
LEMMA AnsweredOnly ==
  ASSUME Orderly, Known, NEW c \in Call, NEW s, reply' = [reply EXCEPT ![c] = s],
         reply[c] = Waiting, UNCHANGED <<inst, call, row, item, casSeq>>,
         call[c].pc \in GetsPoints => s = item,
         call[c].pc = "cas" => s = Answer("false"),
         call[c].pc # "updateBase", ReplyOrderly(c)'
  PROVE  Advance
<1>1. \A x : Due(c, x)' <=> Due(c, x)
  BY OthersDue DEF Due, Waiting, Answer
<1>2. \A d \in Call : \A x : Due(d, x)' <=> Due(d, x)
  BY <1>1, OthersDue
<1>3. \A x : Pending(x)' <=> Pending(x)
  BY <1>2 DEF Pending
<1>4. Lead'
  BY <1>2, <1>3 DEF Known, OrderlyInv, Lead, Shown
<1>5. OrderlyInv'
  BY <1>4, ServeOrderly DEF Known, OrderlyInv
<1>6. IsDone(c) => IsDone(c)'
  BY OthersDue DEF IsDone, Waiting, Answer
<1>7. CountInv /\ Few => CountInv'
  BY <1>6, ServeCount DEF GetsPoints
<1> QED BY <1>3, <1>5, <1>7 DEF Advance, DueStep, Idling

(* An add that finds no item: a reader fills the cache.                    *)
LEMMA FillAdvances ==
  ASSUME Orderly, Known, NEW c \in Call, call[c].pc = "store", item.st = "none",
         Store("record", call[c].val), reply' = [reply EXCEPT ![c] = Answer("true")],
         UNCHANGED <<inst, call, row>>
  PROVE  Advance
<1>1. item'.st = "record" /\ item'.val = call[c].val /\ item'.cas = casSeq' /\ casSeq' = casSeq + 1
  BY DEF Store
<1>2. SameBase(call[c].val) /\ row.has /\ row \in Row
  BY DEF Known, OrderlyInv, FrameOrderly, Frame, DerivedInv, TypeOK
<1>3. \A d \in Call : \A x : Due(d, x)' <=> Due(d, x)
  BY OthersDue DEF Due
<1>4. \A x \in BaseField : ~Pending(x) /\ ~Pending(x)'
  BY <1>3, NothingDue DEF Pending
<1>5. \A x \in BaseField : Shown(item'.val)[x] = row.col[x]
  BY <1>1, <1>2, CellAssumption DEF SameBase, Shown, Row, DbCell
<1>6. Lead'
  BY <1>3, <1>4, <1>5 DEF Lead, Pending, Shown
<1>7. ReplyOrderly(c)'
  <2>1. reply'[c] = Answer("true")
    BY OthersDue
  <2> QED BY <1>1, <2>1 DEF ReplyOrderly, Answer
<1>8. OrderlyInv'
  BY <1>1, <1>2, <1>6, <1>7, ServeOrderly
<1>9. IsDone(c) => IsDone(c)'
  BY DEF IsDone, Past
<1>10. CountInv /\ Few => CountInv'
  BY <1>1, <1>9, ServeCount
<1> QED BY <1>1, <1>4, <1>5, <1>8, <1>10 DEF Advance, DueStep, Filling

(* A CAS that takes effect: a writer publishes.                            *)
LEMMA PublishAdvances ==
  ASSUME Orderly, Known, NEW c \in Call, call[c].pc = "cas", reply[c] = Waiting,
         item.st # "none", item.cas = call[c].tok,
         Store("record", call[c].val), reply' = [reply EXCEPT ![c] = Answer("true")],
         UNCHANGED <<inst, call, row>>
  PROVE  Advance
<1> DEFINE k == call[c]
           S == {x \in BaseField : k.upd.col[x] # Absent}
<1>1. item'.st = "record" /\ item'.val = k.val /\ item'.cas = casSeq' /\ casSeq' = casSeq + 1
  BY DEF Store
<1>2. item.st = "record"
  BY DEF Known, ViewInv, Recorded, CasPoints
<1>3. FrameOrderly(Frame(c)) /\ Frame(c).k = k /\ k.task \in Task[c] /\ row.has
  BY DEF Known, OrderlyInv, Frame
<1>4. Bearing(k) /\ \A x \in S : Shown(k.val)[x] = k.upd.col[x]
  BY <1>3 DEF FrameOrderly, CasPoints
<1>5. Preserved(k.val, item.val, Affected(k.upd))
  <2>1. ~Stale(k.tok) /\ ~Overlap
    BY DEF Stale, Orderly
  <2>2. FrameFit(Frame(c))
    BY DEF Known, TokenInv
  <2> QED BY <1>3, <2>1, <2>2 DEF FrameFit
<1>6. \A x \in S : Bears(c, x)
  BY <1>4 DEF Bears, Bearing, OnlyExtra, CasPoints
<1>7. \A x \in BaseField \ S : Shown(item'.val)[x] = Shown(item.val)[x]
  <2>1. \A x \in BaseField \ S : x \notin Affected(k.upd)
    BY FieldAssumption DEF Affected, Touched, Dependents
  <2> QED BY <1>1, <1>5, <2>1 DEF Preserved, Shown
<1>8. \A x \in S : Shown(item'.val)[x] = k.upd.col[x] /\ Shown(item'.val)[x] \in DbCell
  BY <1>1, <1>4, <1>6, BearsCell
<1>9. reply'[c] = Answer("true") /\ reply[c] # Answer("true")
  <2>1. reply'[c] = Answer("true")
    BY OthersDue
  <2> QED BY <2>1 DEF Waiting, Answer
<1>10. \A x \in BaseField : ~Due(c, x) /\ (Due(c, x)' <=> x \in S)
  BY <1>6, <1>9 DEF Due, Bears
<1>11. \A x \in S : \A d \in Call : d # c => ~Due(d, x) /\ ~Due(d, x)'
  BY <1>6, DueBears, OneWriter, OthersDue
<1>12. \A d \in Call : d # c => \A x : Due(d, x)' <=> Due(d, x)
  BY OthersDue
<1>13. /\ \A x \in S : ~Pending(x) /\ Pending(x)'
       /\ \A x \in BaseField \ S : Pending(x)' <=> Pending(x)
  BY <1>10, <1>11, <1>12 DEF Pending
<1>14. Lead'
  <2> SUFFICES ASSUME NEW x \in BaseField
               PROVE  /\ \A d \in Call : Due(d, x)' => Shown(item'.val)[x] = call'[d].upd.col[x]
                      /\ Shown(item'.val)[x] = row'.col[x] \/ Pending(x)'
    BY DEF Lead, Shown
  <2>1. CASE x \in S
    BY <1>8, <1>11, <1>13, <2>1
  <2>2. CASE x \notin S
    BY <1>2, <1>7, <1>10, <1>12, <1>13, <2>2 DEF Known, OrderlyInv, Lead
  <2> QED BY <2>1, <2>2
<1>15. ReplyOrderly(c)'
  BY <1>9 DEF ReplyOrderly
<1>16. OrderlyInv'
  BY <1>1, <1>3, <1>14, <1>15, ServeOrderly
<1>17. c \in Publishers /\ ~IsDone(c) /\ IsDone(c)'
  <2>1. c \in Publishers
    BY <1>3, <1>4 DEF Publishers, Bearing
  <2> QED BY <1>9, <2>1 DEF IsDone, Past
<1>18. CountInv /\ Few => CountInv'
  BY <1>1, <1>17, ServeCount
<1>19. Publishing(S) /\ S \in SUBSET BaseField
  BY <1>1, <1>2, <1>7, <1>8, <1>13 DEF Publishing
<1> QED BY <1>16, <1>18, <1>19 DEF Advance, DueStep

LEMMA CacheServeAdvances ==
  ASSUME Orderly, Known, NEW c \in Call, CacheServe(c)
  PROVE  Advance
<1>1. TypeOK /\ item \in Item /\ item # Answer("err") /\ item.st # "deleted"
  BY DEF Known, DerivedInv, TypeOK, Item, Answer, ViewInv
<1>2. PICK s : CacheServed(c, s)
  BY <1>1, CacheServeCases
<1>3. /\ reply[c] = Waiting /\ reply' = [reply EXCEPT ![c] = s] /\ UNCHANGED <<row, inst, call>>
      /\ s # Answer("err") /\ reply'[c] = s
  BY <1>1, <1>2 DEF CacheServed, Orderly, Lasting, TypeOK
<1>4. call[c].pc \notin Dropping /\ FrameOrderly(Frame(c)) /\ Frame(c).k = call[c]
      /\ ~inst[call[c].task.on].force
  BY DEF Known, ViewInv, OrderlyInv, Frame, DerivedInv, TypeOK, CallType, TaskType
<1>5. CASE call[c].pc \in GetsPoints
  <2>1. s = item /\ UNCHANGED <<item, casSeq>>
    BY <1>2, <1>3, <1>5 DEF CacheServed, GetsPoints
  <2>2. ReplyOrderly(c)'
    BY <1>3, <1>4, <1>5, <2>1 DEF ReplyOrderly, FrameOrderly, GetsPoints
  <2> QED BY <1>3, <1>5, <2>1, <2>2, AnsweredOnly DEF GetsPoints
<1>6. CASE call[c].pc = "store" /\ item.st = "none"
  <2>1. s = Answer("true") /\ Store("record", call[c].val)
    BY <1>2, <1>3, <1>6 DEF CacheServed, GetsPoints
  <2> QED BY <1>3, <1>6, <2>1, FillAdvances
<1>7. CASE call[c].pc = "store" /\ item.st # "none"
  <2>1. s = Answer("false") /\ UNCHANGED <<item, casSeq>>
    BY <1>2, <1>3, <1>4, <1>7 DEF CacheServed, GetsPoints
  <2>2. ReplyOrderly(c)'
    BY <1>1, <1>3, <1>7, <2>1 DEF ReplyOrderly, Answer, Item
  <2> QED BY <1>3, <1>7, <2>1, <2>2, AnsweredOnly DEF GetsPoints
<1>8. CASE call[c].pc = "cas" /\ item.st # "none" /\ item.cas = call[c].tok
  <2>1. s = Answer("true") /\ Store("record", call[c].val)
    BY <1>2, <1>3, <1>8 DEF CacheServed, GetsPoints
  <2> QED BY <1>3, <1>8, <2>1, PublishAdvances
<1>9. CASE call[c].pc = "cas" /\ ~(item.st # "none" /\ item.cas = call[c].tok)
  <2>1. s = Answer("false") /\ UNCHANGED <<item, casSeq>>
    BY <1>2, <1>3, <1>9 DEF CacheServed, GetsPoints
  <2>2. ReplyOrderly(c)'
    BY <1>3, <1>9, <2>1 DEF ReplyOrderly
  <2> QED BY <1>3, <1>9, <2>1, <2>2, AnsweredOnly DEF GetsPoints
<1>10. call[c].pc \in GetsPoints \cup {"store", "cas"}
  BY <1>2, <1>4 DEF CacheServed, Dropping, CachePoints
<1> QED BY <1>5, <1>6, <1>7, <1>8, <1>9, <1>10

(* A reader selects the row.                                               *)
LEMMA SelectAdvances ==
  ASSUME Orderly, Known, NEW c \in Call, call[c].pc = "select", SelectRow(c),
         UNCHANGED <<inst, call, item, casSeq>>
  PROVE  Advance
<1>1. row.has /\ row \in Row /\ TypeOK
  BY DEF Known, OrderlyInv, DerivedInv, TypeOK
<1>2. PICK s : s = [st |-> "record", val |-> DecorateRecord(row), cas |-> 0]
  OBVIOUS
<1>3. Settle(c, s, FALSE) /\ row' = row
  BY <1>1, <1>2 DEF SelectRow, Query
<1>4. reply[c] = Waiting /\ reply' = [reply EXCEPT ![c] = s]
  BY <1>3, SettleCases
<1>5. s.st = "record" /\ s.val = DecorateRecord(row)
  BY <1>2
<1>6. SameBase(s.val)
  BY <1>5, FieldAssumption DEF SameBase, DecorateRecord, Field
<1>7. ReplyOrderly(c)'
  <2>1. reply'[c] = s
    BY <1>4, OthersDue
  <2> QED BY <1>3, <1>5, <1>6, <2>1 DEF ReplyOrderly, SameBase
<1> QED BY <1>3, <1>4, <1>7, AnsweredOnly DEF GetsPoints

(* A writer's UPDATE is carried out: what it published is not due any more. *)
LEMMA PersistAdvances ==
  ASSUME Orderly, Known, NEW c \in Call, call[c].pc = "updateBase", UpdateRow(c, call[c].upd),
         UNCHANGED <<inst, call, item, casSeq>>
  PROVE  Advance
<1> DEFINE k == call[c]
           S == {x \in BaseField : k.upd.col[x] # Absent}
<1>1. /\ row.has /\ row \in Row /\ FrameOrderly(Frame(c)) /\ Frame(c).k = k
      /\ k.task \in Task[c]
  BY DEF Known, OrderlyInv, Frame, DerivedInv, TypeOK
<1>2. k.task.op = "update" /\ item.st = "record"
  BY <1>1 DEF FrameOrderly
<1>3. reply[c] = Waiting /\ reply' = [reply EXCEPT ![c] = Answer("true")]
  <2>1. Answer(IF row.has THEN "true" ELSE "false") = Answer("true")
    BY <1>1
  <2>2. Settle(c, Answer("true"), DbFaults) /\ DbFaults = FALSE
    BY <2>1, DbFaultsAssumption DEF UpdateRow, Execute, Orderly
  <2> QED BY <2>2, SettleCases
<1>4. reply'[c] = Answer("true") /\ reply'[c] # Waiting
  <2>1. reply'[c] = Answer("true")
    BY <1>3, OthersDue
  <2> QED BY <2>1 DEF Waiting, Answer
<1>5. PICK v \in Value : row' = [row EXCEPT !.col = Assign(row.col, k.upd, v)]
  BY <1>1 DEF UpdateRow
<1>6. row'.has /\ row'.col = Assign(row.col, k.upd, v) /\ DOMAIN row.col = BaseField
  BY <1>1, <1>5 DEF Row
<1>7. \A x \in S : Bears(c, x) /\ Due(c, x) /\ ~Due(c, x)'
  BY <1>2, <1>3, <1>4 DEF Bears, Due
<1>8. \A x \in BaseField \ S : ~Due(c, x) /\ ~Due(c, x)'
  BY DEF Due
<1>9. \A x \in S : k.upd.col[x] \notin Literal
  <2>1. \A x \in S : k.upd.col[x] \in DbCell
    BY <1>7, BearsCell
  <2> QED BY <2>1, CellAssumption DEF DbCell
<1>10. \A x \in S : row'.col[x] = k.upd.col[x] /\ Shown(item.val)[x] = k.upd.col[x]
  BY <1>6, <1>7, <1>9 DEF Assign, Known, OrderlyInv, Lead
<1>11. \A x \in BaseField \ S : row'.col[x] = row.col[x]
  BY <1>6, CellAssumption DEF Assign
<1>12. \A x \in S : \A d \in Call : d # c => ~Due(d, x) /\ ~Due(d, x)'
  BY <1>3, <1>7, DueBears, OneWriter, OthersDue
<1>13. \A d \in Call : d # c => \A x : Due(d, x)' <=> Due(d, x)
  BY <1>3, OthersDue
<1>14. /\ \A x \in S : Pending(x) /\ ~Pending(x)'
       /\ \A x \in BaseField \ S : Pending(x)' <=> Pending(x)
  BY <1>7, <1>8, <1>12, <1>13 DEF Pending
<1>15. Lead'
  <2> SUFFICES ASSUME NEW x \in BaseField
               PROVE  /\ \A d \in Call : Due(d, x)' => Shown(item.val)[x] = call[d].upd.col[x]
                      /\ Shown(item.val)[x] = row'.col[x] \/ Pending(x)'
    BY DEF Lead, Shown
  <2>1. CASE x \in S
    BY <1>7, <1>10, <1>12, <2>1
  <2>2. CASE x \notin S
    BY <1>2, <1>8, <1>11, <1>13, <1>14, <2>2 DEF Known, OrderlyInv, Lead
  <2> QED BY <2>1, <2>2
<1>16. ReplyOrderly(c)'
  <2>1. call'[c].pc = "updateBase"
    OBVIOUS
  <2> QED BY <2>1 DEF ReplyOrderly
<1>17. OrderlyInv'
  BY <1>2, <1>3, <1>6, <1>15, <1>16, ServeOrderly
<1>18. IsDone(c) => IsDone(c)'
  BY DEF IsDone, Past
<1>19. CountInv /\ Few => CountInv'
  BY <1>3, <1>18, ServeCount
<1>20. Persisting(S) /\ S \in SUBSET BaseField
  BY <1>10, <1>11, <1>14 DEF Persisting
<1> QED BY <1>17, <1>19, <1>20 DEF Advance, DueStep

LEMMA DbServeAdvances ==
  ASSUME Orderly, Known, NEW c \in Call, DbServe(c)
  PROVE  Advance
<1>1. PICK s : reply' = [reply EXCEPT ![c] = s]
  BY DbServeAnswers
<1>2. /\ call[c].pc \in DbPoints /\ reply[c] = Waiting
      /\ UNCHANGED <<item, casSeq, inst, call>>
  BY DbServeAnswers
<1>3. call[c].pc \notin Dropping \cup {"insertBase"}
  BY DEF Known, ViewInv, OrderlyInv, FrameOrderly, Frame
<1>4. ~DbFails(c)
  BY DEF DbFails, Orderly
<1>5. CASE call[c].pc = "select"
  BY <1>2, <1>4, <1>5, SelectAdvances DEF DbServe
<1>6. CASE call[c].pc = "updateBase"
  BY <1>2, <1>4, <1>6, PersistAdvances DEF DbServe
<1>7. CASE call[c].pc \in {"selectExtra", "insertExtra", "updateExtra"}
  <2>1. row' = row
    BY <1>4, <1>7 DEF DbServe, SelectExtra, Query, InsertExtra, UpdateExtra
  <2>2. ReplyOrderly(c)'
    BY <1>2, <1>7 DEF ReplyOrderly
  <2> QED BY <1>1, <1>2, <1>7, <2>1, <2>2, AnsweredOnly DEF GetsPoints
<1> QED BY <1>2, <1>3, <1>5, <1>6, <1>7 DEF DbPoints, Dropping

-----------------------------------------------------------------------------
(* All steps.                                                              *)

LEMMA InitOrderly ==
  ASSUME Orderly, Init
  PROVE  OrderlyInv /\ \A x : ~Pending(x)
<1>1. \A c \in Call : call[c].pc = "new" /\ reply[c] = Waiting /\ call[c].task \in Task[c]
  BY DEF Init
<1>2. row.has /\ item.st = "none" /\ \A i \in Instance : inst[i] = NewInstance(FALSE)
  BY DEF Init, Orderly, NoItem
<1>3. \A i \in Instance : ~inst[i].force /\ ~inst[i].has
  BY <1>2 DEF NewInstance
<1>4. \A c \in Call : FrameOrderly(Frame(c)) /\ ReplyOrderly(c)
  BY <1>1 DEF FrameOrderly, Frame, ReplyOrderly, CasPoints
<1>5. \A x : \A c \in Call : ~Due(c, x)
  BY <1>1 DEF Due
<1>6. Lead /\ \A x : ~Pending(x)
  BY <1>2, <1>5 DEF Lead, Pending
<1> QED BY <1>1, <1>2, <1>3, <1>4, <1>6 DEF OrderlyInv

LEMMA InitCount ==
  ASSUME Init, Few
  PROVE  CountInv
<1>1. \A c \in Call : call[c].pc = "new"
  BY DEF Init
<1>2. item = NoItem /\ casSeq = 0
  BY DEF Init
<1>3. Cardinality(Done) \in Nat
  BY FS_Subset, FS_CardinalityType DEF Done, Few
<1> QED BY <1>1, <1>2, <1>3 DEF CountInv, Counted, NoItem

LEMMA OrderlyStep ==
  ASSUME Orderly, Known, Patient, DerivedInv', [Next]_vars
  PROVE  Advance
<1>1. TypeOK'
  BY DEF DerivedInv
<1>2. CASE UNCHANGED vars
  <2>1. \A x : Pending(x)' <=> Pending(x)
    BY <1>2 DEF vars, Pending, Due
  <2>2. OrderlyInv'
    <3>1. OrderlyInv
      BY DEF Known
    <3> QED BY <1>2, <3>1 DEF vars, OrderlyInv, FrameOrderly, Frame, ReplyOrderly, SameBase, Lead,
                Pending, Due, Shown
  <2>3. CountInv => CountInv'
    BY <1>2 DEF vars, CountInv, Counted, Done, IsDone
  <2> QED BY <1>2, <2>1, <2>2, <2>3 DEF vars, Advance, DueStep, Idling
<1>3. ASSUME NEW c \in Call, Continue(c) PROVE Advance
  BY <1>1, <1>3, CachedAdvances, SelectedAdvances, StoredAdvances, FreshAdvances,
     CasAnsweredAdvances, RefreshedAdvances, RereadAdvances, WrittenAdvances, NoOtherAnswer,
     SelectedExtraAdvances DEF Continue
<1>4. ~Evict
  BY DEF Evict, Orderly, Lasting
<1> QED BY <1>1, <1>2, <1>3, <1>4, StartAdvances, CacheServeAdvances, DbServeAdvances
        DEF Next, Serve, Quiet

LEMMA CountPatient ==
  ASSUME Orderly, Known, CountInv, Few
  PROVE  Patient
<1> SUFFICES ASSUME NEW c \in Call, call[c].pc = "reread"
             PROVE  call[c].att < MaxCasAttempts
  BY DEF Patient
<1>1. call[c].att \in Nat /\ casSeq \in Nat /\ call[c].att < casSeq
  BY DEF Known, DerivedInv, TypeOK, CallType, CountInv, Counted
<1>2. c \in Publishers
  BY DEF Known, OrderlyInv, FrameOrderly, Frame, CasPoints, Bearing, Publishers
<1>3. c \notin Done /\ Done \cup {c} \subseteq Publishers
  BY <1>2 DEF Done, IsDone, Past
<1>4. IsFiniteSet(Done) /\ IsFiniteSet(Publishers)
  BY <1>3, FS_Subset DEF Few
<1>5. /\ Cardinality(Done \cup {c}) = Cardinality(Done) + 1
      /\ Cardinality(Done) \in Nat /\ Cardinality(Publishers) \in Nat
      /\ Cardinality(Done \cup {c}) <= Cardinality(Publishers)
  BY <1>3, <1>4, FS_AddElement, FS_CardinalityType, FS_Subset
<1> QED BY <1>1, <1>5, BoundAssumption DEF CountInv, Few

-----------------------------------------------------------------------------
(* What the invariant says of states.                                      *)

(* With one writer per column, no call loses more often than there are     *)
(* other calls that publish: while these are fewer than the attempts, none *)
(* is refused its last one.                                                *)
THEOREM AttemptsSuffice ==
  ASSUME Orderly, Few
  PROVE  Spec => []Patient
<1>1. Init => OrderlyInv /\ CountInv
  BY InitOrderly, InitCount
<1>2. /\ DerivedInv /\ DerivedInv' /\ TokenInv /\ ViewInv /\ OrderlyInv /\ CountInv
      /\ [Next]_vars
      => OrderlyInv' /\ CountInv'
  BY OrderlyStep, CountPatient DEF Known, Advance
<1>3. DerivedInv /\ TokenInv /\ ViewInv /\ OrderlyInv /\ CountInv => Patient
  BY CountPatient DEF Known
<1>4. Lasting
  BY DEF Orderly
<1>5. Spec => []ViewInv
  BY <1>4, ViewInvariance
<1> QED BY <1>1, <1>2, <1>3, <1>5, DerivedInvariance, TokenInvariance, PTL DEF Spec

(* The invariant of orderly use holds as long as no call has its last      *)
(* attempt refused.                                                        *)
THEOREM OrderlyInvariance ==
  ASSUME Orderly
  PROVE  Spec /\ []Patient => []OrderlyInv
<1>1. Init => OrderlyInv
  BY InitOrderly
<1>2. /\ DerivedInv /\ DerivedInv' /\ TokenInv /\ ViewInv /\ OrderlyInv /\ Patient
      /\ [Next]_vars
      => OrderlyInv'
  BY OrderlyStep DEF Known, Advance
<1>3. Spec => []ViewInv
  BY ViewInvariance DEF Orderly
<1> QED BY <1>1, <1>2, <1>3, DerivedInvariance, TokenInvariance, PTL DEF Spec

(* With one writer per column, and no call's last attempt refused, a       *)
(* column of the cached record that no call under way updates shows the    *)
(* row, at every moment, also while other columns are being updated.       *)
THEOREM ColumnsAgree ==
  ASSUME Orderly
  PROVE  Spec /\ []Patient => []ColumnAgreement
<1>1. DerivedInv /\ TokenInv /\ ViewInv /\ OrderlyInv => ColumnAgreement
  <2> SUFFICES ASSUME Known, item.st = "record", NEW x \in BaseField,
                      Shown(item.val)[x] # row.col[x]
               PROVE  \E c \in Call : /\ Active(c) /\ call[c].task.op = "update"
                                      /\ x \in Touched(call[c].task.arg)
    BY DEF Known, ColumnAgreement
  <2>1. PICK c \in Call : Due(c, x)
    BY DEF Known, OrderlyInv, Lead, Pending
  <2>2. Bears(c, x) /\ Active(c) /\ x \in BaseColumns(call[c].task.arg)
    BY <2>1, DueBears, BearsArg
  <2> QED BY <2>2 DEF Bears, BaseColumns
<1>2. Spec => []ViewInv
  BY ViewInvariance DEF Orderly
<1> QED BY <1>1, <1>2, OrderlyInvariance, DerivedInvariance, TokenInvariance, PTL

-----------------------------------------------------------------------------
(* The refinement: the cache and the row behave as CoherentCache says.     *)

(* What CoherentCache calls due.                                           *)
DueNow ==
  [f \in BaseField |->
     IF \E c \in Call : Due(c, f)
     THEN LET c == CHOOSE c \in Call : Due(c, f) IN call[c].upd.col[f]
     ELSE NotDue]

(* The value due is the one the cache shows, whichever call it is due by.  *)
LEMMA DueShown ==
  Lead => \A x \in BaseField : DueNow[x] = IF Pending(x) THEN Shown(item.val)[x] ELSE NotDue
<1> SUFFICES ASSUME Lead, NEW x \in BaseField
             PROVE  DueNow[x] = IF Pending(x) THEN Shown(item.val)[x] ELSE NotDue
  OBVIOUS
<1>1. CASE Pending(x)
  <2> DEFINE d == CHOOSE c \in Call : Due(c, x)
  <2>1. d \in Call /\ Due(d, x)
    BY <1>1 DEF Pending
  <2>2. DueNow[x] = call[d].upd.col[x]
    BY <1>1 DEF DueNow, Pending
  <2> HIDE DEF d
  <2> QED BY <1>1, <2>1, <2>2 DEF Lead
<1>2. CASE ~Pending(x)
  BY <1>2 DEF DueNow, Pending
<1> QED BY <1>1, <1>2

LEMMA DueShownNext ==
  Lead' => \A x \in BaseField :
             DueNow'[x] = IF Pending(x)' THEN Shown(item'.val)[x] ELSE NotDue
<1>1. (Lead => \A x \in BaseField :
                 DueNow[x] = IF Pending(x) THEN Shown(item.val)[x] ELSE NotDue)'
  BY DueShown, PTL
<1> QED BY <1>1

LEMMA ShownCells ==
  ASSUME NEW p \in Payload, \A x \in BaseField : p.col[x] \notin Literal
  PROVE  Shown(p) \in [BaseField -> DbCell]
BY DEF Shown, Payload, Cell, DbCell, Field

LEMMA CoherentInit ==
  ASSUME Orderly, Init, DerivedInv
  PROVE  Coherent!CInit
<1>1. row.col \in [BaseField -> DbCell]
  BY DEF DerivedInv, TypeOK, Row
<1>2. OrderlyInv /\ \A x : ~Pending(x)
  BY InitOrderly
<1>3. Shown(item.val) \in [BaseField -> DbCell]
  BY CellAssumption DEF Init, NoItem, Blank, Shown, DbCell, Field
<1>4. item.st # "record"
  BY DEF Init, NoItem
<1>5. \A x \in BaseField : DueNow[x] = NotDue
  BY <1>2, DueShown DEF OrderlyInv
<1>6. DueNow = [x \in BaseField |-> NotDue]
  BY <1>5 DEF DueNow
<1> QED BY <1>1, <1>3, <1>4, <1>6 DEF Coherent!CInit, DueNow

LEMMA CoherentStep ==
  ASSUME Orderly, OrderlyInv, OrderlyInv', TypeOK, TypeOK', DueStep
  PROVE  [Coherent!CNext]_(Coherent!cvars)
<1> DEFINE v == Shown(item.val)
           w == Shown(item'.val)
           d == DueNow
           e == DueNow'
           r == row.col
           s == row'.col
<1>1. /\ \A x \in BaseField : d[x] = IF Pending(x) THEN v[x] ELSE NotDue
      /\ \A x \in BaseField : e[x] = IF Pending(x)' THEN w[x] ELSE NotDue
  BY DueShown, DueShownNext DEF OrderlyInv
<1>2. /\ v = [x \in BaseField |-> v[x]] /\ w = [x \in BaseField |-> w[x]]
      /\ d = [x \in BaseField |-> d[x]] /\ e = [x \in BaseField |-> e[x]]
  BY DEF Shown, DueNow
<1>3. r \in [BaseField -> DbCell] /\ s \in [BaseField -> DbCell]
  BY DEF TypeOK, Row
<1>4. NotDue \notin DbCell
  BY DEF Orderly
<1>5. CASE Idling
  <2>1. row' = row /\ item' = item
    BY <1>5 DEF Idling
  <2>2. e = d
    BY <1>1, <1>2, <1>5, <2>1 DEF Idling
  <2> QED BY <2>1, <2>2 DEF Coherent!cvars, DueNow, Shown
<1>6. CASE Filling
  <2>1. item.st # "record" /\ item'.st = "record" /\ row' = row
    BY <1>6 DEF Filling
  <2>2. w = r
    BY <1>2, <1>3, <1>6 DEF Filling
  <2>3. e = d
    BY <1>1, <1>2, <1>6 DEF Filling
  <2>4. Coherent!Fill
    BY <2>1, <2>2, <2>3 DEF Coherent!Fill, DueNow
  <2> QED BY <2>4 DEF Coherent!CNext
<1>7. ASSUME NEW S \in SUBSET BaseField, Publishing(S)
      PROVE  [Coherent!CNext]_(Coherent!cvars)
  <2>1. item.st = "record" /\ item'.st = "record" /\ row' = row
    BY <1>7 DEF Publishing
  <2>2. CASE S = {}
    <3>1. w = v /\ e = d
      BY <1>1, <1>2, <1>7, <2>2 DEF Publishing
    <3> QED BY <2>1, <3>1 DEF Coherent!cvars, DueNow
  <2>3. CASE S # {}
    <3> DEFINE u == [x \in S |-> w[x]]
    <3>1. u \in [S -> DbCell] /\ \A x \in S : d[x] = NotDue
      BY <1>1, <1>7 DEF Publishing
    <3>2. w = [x \in BaseField |-> IF x \in S THEN u[x] ELSE v[x]]
      BY <1>2, <1>7 DEF Publishing
    <3>3. e = [x \in BaseField |-> IF x \in S THEN u[x] ELSE d[x]]
      BY <1>1, <1>2, <1>7 DEF Publishing
    <3>4. Coherent!Publish(S)
      <4> HIDE DEF u
      <4> QED BY <2>1, <3>1, <3>2, <3>3 DEF Coherent!Publish, DueNow
    <3> QED BY <2>3, <3>4 DEF Coherent!CNext
  <2> QED BY <2>2, <2>3
<1>8. ASSUME NEW S \in SUBSET BaseField, Persisting(S)
      PROVE  [Coherent!CNext]_(Coherent!cvars)
  <2>1. item' = item
    BY <1>8 DEF Persisting
  <2>2. CASE S = {}
    <3>1. s = r /\ e = d
      BY <1>1, <1>2, <1>3, <1>8, <2>1, <2>2 DEF Persisting
    <3> QED BY <2>1, <3>1 DEF Coherent!cvars, DueNow
  <2>3. CASE S # {}
    <3>1. \A x \in S : d[x] # NotDue
      BY <1>1, <1>3, <1>4, <1>8 DEF Persisting
    <3>2. s = [x \in BaseField |-> IF x \in S THEN d[x] ELSE r[x]]
      BY <1>1, <1>3, <1>8 DEF Persisting
    <3>3. e = [x \in BaseField |-> IF x \in S THEN NotDue ELSE d[x]]
      BY <1>1, <1>2, <1>8, <2>1 DEF Persisting
    <3>4. Coherent!Persist(S)
      BY <2>1, <3>1, <3>2, <3>3 DEF Coherent!Persist, DueNow
    <3> QED BY <2>3, <3>4 DEF Coherent!CNext
  <2> QED BY <2>2, <2>3
<1> QED BY <1>5, <1>6, <1>7, <1>8 DEF DueStep

(* With one writer per column, and no call's last attempt refused, loads   *)
(* and updates make the cache a coherent write-ahead of the row: readers   *)
(* fill it, a CAS publishes, the UPDATE statement settles.                 *)
THEOREM CacheCoherent ==
  ASSUME Orderly
  PROVE  Spec /\ []Patient => RefinesCoherentCache
<1>1. Init /\ DerivedInv => Coherent!CInit
  BY CoherentInit
<1>2. /\ DerivedInv /\ DerivedInv' /\ TokenInv /\ ViewInv /\ OrderlyInv /\ Patient
      /\ [Next]_vars
      => [Coherent!CNext]_(Coherent!cvars)
  BY OrderlyStep, CoherentStep DEF Known, Advance, DerivedInv
<1>3. Spec => []ViewInv
  BY ViewInvariance DEF Orderly
<1> QED BY <1>1, <1>2, <1>3, OrderlyInvariance, DerivedInvariance, TokenInvariance, PTL
        DEF Spec, RefinesCoherentCache, Coherent!CSpec

(* While the calls that publish are no more than a call's attempts, the    *)
(* cache agrees with the row, and is coherent, unconditionally.            *)
THEOREM FewWritersAgree ==
  ASSUME Orderly, Few
  PROVE  Spec => []ColumnAgreement /\ RefinesCoherentCache
BY AttemptsSuffice, ColumnsAgree, CacheCoherent, PTL

-----------------------------------------------------------------------------
(* What an update leaves on its instance.  An instance is the only one to  *)
(* publish its own columns, so that whatever record it adopts has them as  *)
(* it left them.                                                           *)

(* The columns updated through the instance i, and through others.         *)
Own(i) ==
  {x \in Field : \E c \in Call : \E t \in Task[c] :
                   t.op = "update" /\ t.on = i /\ t.arg.col[x] # Absent}
Foreign(i) ==
  {x \in Field : \E c \in Call : \E t \in Task[c] :
                   t.op = "update" /\ t.on # i /\ t.arg.col[x] # Absent}

(* What a call may publish.                                                *)
Claims(t) ==
  CASE t.op = "update" -> Touched(t.arg)
    [] t.op = "readExtra" -> ExtraField
    [] OTHER -> {}

(* A column that is updated through one instance is neither updated nor,   *)
(* in the extra table, read through another.                               *)
Owned == Orderly /\ \A c \in Call : \A t \in Task[c] : Claims(t) \cap Foreign(t.on) = {}

(* The update shows on the object, and nothing computed from what it       *)
(* replaced.                                                               *)
ReadsBack(arg, upd, view) ==
  /\ \A x \in Touched(arg) :
       view[x] \in IF arg.col[x] = Null THEN {Null, Absent} ELSE {arg.col[x]}
  /\ \A d \in Dependents(upd) :
       view[d] # Absent =>
         /\ \A q \in Parents[d] : view[q] \in DbCell
         /\ view[d] = Derived(d, view)

Writing == {"updateBase", "updateExtra", "insertExtra"}

(* What an instance shows of its own call.                                 *)
FrameOwn(f) ==
  LET k == f.k  o == f.o
  IN  /\ k.pc = "new" => k.upd = Blank
      /\ k.pc \in Loading => k.task.op = "load"
      /\ k.task.op = "load" /\ k.pc \notin Loading \cup {"new", "rejected"} => o.has
      /\ k.pc \in CasPoints => o.view = ClearFields(o.view, k.upd)
      /\ k.pc \in CasPoints /\ k.task.op = "update" =>
           \A x \in Touched(k.task.arg) \ Touched(k.upd) : o.record.col[x] = k.task.arg.col[x]
      /\ k.pc = "cas" => k.val = ApplyUpdate(o.record, k.upd)
      /\ k.pc \in Writing /\ k.task.op = "update" => ReadsBack(k.task.arg, k.upd, o.view)

Matches(p, S) == \A x \in S : p.col[x] = item.val.col[x]

(* Before its CAS succeeds, what an instance knows of its own columns is   *)
(* cached; after that, what the CAS made of it.                            *)
Tracks(f, published) ==
  IF published THEN Matches(ApplyUpdate(f.o.record, f.k.upd), Own(f.k.task.on))
  ELSE Matches(f.o.record, Own(f.k.task.on) \ Touched(f.k.upd))

Published(c) == call[c].pc = "refresh" \/ (call[c].pc = "cas" /\ reply[c] = Answer("true"))

CallOwn(c) ==
  LET k == call[c]  r == reply[c]
  IN  /\ FrameOwn(Frame(c))
      /\ k.pc \in CasPoints => Tracks(Frame(c), Published(c))
      /\ k.pc \in GetsPoints /\ r.st = "record" => Matches(r.val, Own(k.task.on))
      /\ k.pc = "cas" /\ ~Stale(k.tok) => Matches(k.val, Foreign(k.task.on))

Busy(i) == \E c \in Call : call[c].task.on = i /\ call[c].pc \in CasPoints

InstanceOwn(i) ==
  /\ inst[i].token # 0 => Matches(inst[i].record, Own(i)) \/ Busy(i)
  /\ ~Stale(inst[i].token) => Matches(inst[i].record, Foreign(i))

OwnInv ==
  /\ \A i \in Instance : InstanceOwn(i)
  /\ \A c \in Call : CallOwn(c)

LEMMA ClearAgain ==
  ASSUME NEW v, NEW u
  PROVE  ClearFields(ClearFields(v, u), u) = ClearFields(v, u)
BY DEF ClearFields

LEMMA OwnStored ==
  ASSUME NEW i
  PROVE  /\ Own(i) \subseteq Field \ DerivedField /\ Foreign(i) \subseteq Field \ DerivedField
         /\ \A j : j # i => Own(j) \subseteq Foreign(i)
<1>1. ASSUME NEW c \in Call, NEW t \in Task[c], NEW x \in Field, t.arg.col[x] # Absent
      PROVE  x \notin DerivedField
  BY <1>1, TaskAssumption DEF Touched
<1> QED BY <1>1 DEF Own, Foreign

(* What a call publishes is its instance's, and nobody else's.             *)
LEMMA ClaimsApart ==
  ASSUME Owned, NEW k \in CallType, NEW c \in Call, k.task \in Task[c]
  PROVE  /\ Bearing(k) => Touched(k.upd) \cap Foreign(k.task.on) = {}
         /\ k.task.op = "update" => Touched(k.task.arg) \subseteq Own(k.task.on)
<1>1. Claims(k.task) \cap Foreign(k.task.on) = {}
  BY DEF Owned
<1>2. CASE k.task.op = "update"
  <2>1. Claims(k.task) = Touched(k.task.arg)
    BY <1>2 DEF Claims
  <2>2. Bearing(k) => Touched(k.upd) \subseteq Touched(k.task.arg)
    BY <1>2 DEF Bearing, Within, Touched
  <2>3. Touched(k.task.arg) \subseteq Own(k.task.on)
    BY <1>2 DEF Own, Touched
  <2> QED BY <1>1, <2>1, <2>2, <2>3
<1>3. CASE k.task.op = "readExtra"
  <2>1. Claims(k.task) = ExtraField
    BY <1>3 DEF Claims
  <2>2. Bearing(k) => Touched(k.upd) \subseteq ExtraField
    BY <1>3 DEF Bearing, OnlyExtra, Touched, Field
  <2> QED BY <1>1, <1>3, <2>1, <2>2
<1> QED BY <1>2, <1>3 DEF Bearing

LEMMA UntouchedStay ==
  ASSUME NEW p \in Payload, NEW u \in Payload, NEW S \in SUBSET (Field \ DerivedField),
         Touched(u) \cap S = {}
  PROVE  \A x \in S : ApplyUpdate(p, u).col[x] = p.col[x] /\ MergeRecord(p, u).col[x] = p.col[x]
<1>1. \A x \in S : u.col[x] = Absent /\ x \notin Dependents(u) /\ x \in Field
  BY DEF Touched, Dependents
<1> QED BY <1>1, CellAssumption DEF ApplyUpdate, MergeRecord

-----------------------------------------------------------------------------
(* Frames.                                                                 *)

Told(f, g) ==
  f.k.task.op = "update" /\ g.k.pc = "resolved" => ReadsBack(f.k.task.arg, f.k.upd, g.o.view)

(* What the code may make of a frame.                                      *)
Moves(f, g) ==
  /\ g.k.task = f.k.task /\ g.k.pc # "new" /\ FrameOwn(g) /\ Told(f, g)
  /\ f.o.has /\ f.k.task.op # "load" => g.o.has
  /\ g.k.pc \in CasPoints => Tracks(g, g.k.pc = "refresh")
  /\ g.k.pc = "cas" /\ ~Stale(g.k.tok) => Matches(g.k.val, Foreign(g.k.task.on))
  /\ g.o.token # 0 => Matches(g.o.record, Own(g.k.task.on)) \/ g.k.pc \in CasPoints
  /\ ~Stale(g.o.token) => Matches(g.o.record, Foreign(g.k.task.on))

(* An instance at rest.                                                    *)
Rested(f) ==
  /\ Steady(f)
  /\ f.o.token # 0 => Matches(f.o.record, Own(f.k.task.on))
  /\ ~Stale(f.o.token) => Matches(f.o.record, Foreign(f.k.task.on))

(* A step that leaves the instance as it is, and is not the end of an      *)
(* update.                                                                 *)
LEMMA RestMoves ==
  ASSUME NEW f, Rested(f), NEW g, g.o = f.o, g.k.task = f.k.task,
         g.k.pc \notin CasPoints \cup Writing \cup {"new"},
         g.k.pc \in Loading => f.k.task.op = "load",
         f.k.task.op = "load" /\ g.k.pc \notin Loading \cup {"rejected"} => f.o.has,
         f.k.task.op = "update" => g.k.pc # "resolved"
  PROVE  Moves(f, g)
<1>1. FrameOwn(g)
  BY DEF FrameOwn, CasPoints
<1> QED BY <1>1 DEF Moves, Told, Rested, CasPoints

(* A candidate built on the record of the instance.                        *)
LEMMA CandidateMoves ==
  ASSUME Owned, NEW f, Steady(f), NEW c \in Call, f.k.task \in Task[c], f.o.has,
         f.k.task.op # "load", Bearing(f.k),
         NEW record \in Payload, record = f.o.record,
         NEW token, NEW attempt, NEW g, Candidate(f, g, record, token, attempt),
         f.k.task.op = "update" =>
           \A x \in Touched(f.k.task.arg) \ Touched(f.k.upd) : record.col[x] = f.k.task.arg.col[x],
         Matches(record, Own(f.k.task.on) \ Touched(f.k.upd)),
         ~Stale(token) \/ ~Stale(f.o.token) => Matches(record, Foreign(f.k.task.on))
  PROVE  Moves(f, g)
<1> DEFINE i == f.k.task.on
<1>1. /\ f.k \in CallType /\ f.k.upd \in Payload /\ g.k.upd = f.k.upd /\ g.k.task = f.k.task
      /\ g.k.pc = "cas" /\ g.k.val = ApplyUpdate(record, f.k.upd) /\ g.k.tok = token
      /\ g.o = [f.o EXCEPT !.view = ClearFields(f.o.view, f.k.upd)]
  BY DEF Steady, FrameType, CallType, Candidate, Kept
<1>2. /\ g.o.has = f.o.has /\ g.o.record = f.o.record /\ g.o.token = f.o.token
      /\ g.o.view = ClearFields(f.o.view, f.k.upd)
  BY <1>1 DEF Steady, FrameType, InstanceType
<1>3. FrameOwn(g)
  BY <1>1, <1>2, ClearAgain DEF FrameOwn, Loading, Writing
<1>4. Tracks(g, FALSE)
  BY <1>1, <1>2 DEF Tracks
<1>5. ~Stale(token) => Matches(g.k.val, Foreign(i))
  <2>1. Touched(f.k.upd) \cap Foreign(i) = {}
    BY <1>1, ClaimsApart
  <2>2. Foreign(i) \in SUBSET (Field \ DerivedField)
    BY OwnStored
  <2>3. \A x \in Foreign(i) : ApplyUpdate(record, f.k.upd).col[x] = record.col[x]
    BY <1>1, <2>1, <2>2, UntouchedStay
  <2> QED BY <1>1, <2>3 DEF Matches
<1> QED BY <1>1, <1>2, <1>3, <1>4, <1>5 DEF Moves, Told, CasPoints

LEMMA SanitiseLeaves ==
  ASSUME NEW u \in Payload, NEW p
  PROVE  /\ \A x \in Touched(u) \ Touched(Sanitise(u, p)) : p.col[x] = u.col[x]
         /\ Within(Sanitise(u, p), u)
BY SanitiseWithin DEF Sanitise, Touched, Payload

LEMMA UpdateMoves ==
  ASSUME Owned, CacheEnabled, NEW f, Rested(f), NEW c \in Call, f.k.task \in Task[c],
         f.k.task.op = "update", f.k.upd = Blank, f.o.has, f.o.token # 0, Shows(f.o)
  PROVE  Moves(f, Body(f))
<1> DEFINE arg == f.k.task.arg
           u == Sanitise(arg, f.o.record)
           h == [f EXCEPT !.k.upd = u]
<1>1. Steady(f) /\ f \in FrameType /\ arg \in Payload /\ f.o.record \in Payload
  BY DEF Rested, Steady, FrameType, CallType, TaskType, InstanceType
<1>2. /\ u \in Payload /\ Within(u, arg)
      /\ \A x \in Touched(arg) \ Touched(u) : f.o.record.col[x] = arg.col[x]
  BY <1>1, SanitiseLeaves, SanitiseType
<1>3. Body(f) = IF Touched(u) = {} THEN Resolve(f) ELSE UpdateCache(h)
  BY DEF Body, Update
<1>4. h \in FrameType /\ h.o = f.o /\ h.k.task = f.k.task /\ h.k.upd = u
  BY <1>1, <1>2 DEF FrameType, CallType
<1> HIDE DEF u
<1>5. CASE Touched(u) = {}
  <2>1. Resolve(f).o = f.o /\ Resolve(f).k.task = f.k.task /\ Resolve(f).k.pc = "resolved"
    BY <1>1, SettleFacts DEF Kept
  <2>2. \A x \in Touched(arg) : f.o.view[x] = arg.col[x]
    BY <1>2, <1>5 DEF Shows, Touched
  <2>3. Dependents(Blank) = {}
    BY FieldAssumption DEF Dependents, Blank, Field
  <2>4. ReadsBack(arg, Blank, f.o.view)
    BY <2>2, <2>3 DEF ReadsBack
  <2>5. FrameOwn(Resolve(f))
    BY <2>1 DEF FrameOwn, CasPoints, Writing, Loading
  <2> QED BY <1>3, <1>5, <2>1, <2>4, <2>5 DEF Moves, Told, Rested, CasPoints
<1>6. CASE Touched(u) # {}
  <2> HIDE DEF h
  <2> DEFINE g == UpdateCache(h)
  <2>1. Candidate(h, g, h.o.record, h.o.token, 1)
    BY <1>4, UpdateCacheFacts DEF Updated
  <2> HIDE DEF g
  <2>2. Steady(h) /\ Bearing(h.k)
    BY <1>1, <1>2, <1>4 DEF Steady, Bearing
  <2>3. /\ Matches(h.o.record, Own(h.k.task.on) \ Touched(h.k.upd))
        /\ ~Stale(h.o.token) => Matches(h.o.record, Foreign(h.k.task.on))
    BY <1>4 DEF Rested, Matches
  <2>4. Moves(h, g)
    BY <1>1, <1>2, <1>4, <2>1, <2>2, <2>3, CandidateMoves
  <2>5. g.k.pc = "cas"
    BY <2>1 DEF Candidate
  <2> QED BY <1>3, <1>4, <1>6, <2>4, <2>5 DEF Moves, Told, g
<1> QED BY <1>5, <1>6

LEMMA BodyMoves ==
  ASSUME Owned, CacheEnabled, NEW f, Rested(f), NEW c \in Call, f.k.task \in Task[c],
         f.o.has, f.o.token # 0, f.k.task.op = "update" => f.k.upd = Blank /\ Shows(f.o)
  PROVE  Moves(f, Body(f))
<1>1. Steady(f) /\ f \in FrameType /\ f.k.task.op \in {"load", "update", "readExtra"}
  BY DEF Rested, Steady
<1>2. CASE f.k.task.op = "update"
  BY <1>2, UpdateMoves
<1>3. CASE f.k.task.op # "update"
  <2>1. Body(f) = Resolve(f) \/ (f.k.task.op = "readExtra" /\ Body(f) = Go(f, "selectExtra"))
    BY <1>1, <1>3 DEF Body, ReadExtraData
  <2>2. /\ Resolve(f).o = f.o /\ Resolve(f).k.task = f.k.task /\ Resolve(f).k.pc = "resolved"
        /\ Go(f, "selectExtra").o = f.o /\ Go(f, "selectExtra").k.task = f.k.task
        /\ Go(f, "selectExtra").k.pc = "selectExtra"
    BY <1>1, SettleFacts, GoFacts DEF Kept
  <2>3. Moves(f, Resolve(f))
    BY <1>3, <2>2, RestMoves DEF CasPoints, Writing, Loading
  <2>4. f.k.task.op = "readExtra" => Moves(f, Go(f, "selectExtra"))
    BY <1>3, <2>2, RestMoves DEF CasPoints, Writing, Loading
  <2> QED BY <2>1, <2>3, <2>4
<1> QED BY <1>2, <1>3

-----------------------------------------------------------------------------
(* Steps of calls.                                                         *)

(* A step that may end an update ends it with its values on the instance.  *)
Tells(c) ==
  call[c].task.op = "update" /\ call'[c].pc = "resolved" =>
    ReadsBack(call[c].task.arg, call[c].upd, inst'[call[c].task.on].view)

LEMMA OwnResume ==
  ASSUME Orderly, Known, OwnInv, TypeOK', NEW c \in Call, NEW g, Resume(c, g),
         reply' = [reply EXCEPT ![c] = Waiting], Active(c) \/ Startable(c),
         Moves(Frame(c), g)
  PROVE  OwnInv' /\ Tells(c)
<1> DEFINE i == call[c].task.on
<1>1. TypeOK /\ TokenInv /\ Serial /\ ~Overlap
  BY DEF Known, DerivedInv, TokenInv, Orderly
<1>2. /\ call' = [call EXCEPT ![c] = g.k] /\ inst' = [inst EXCEPT ![i] = g.o]
      /\ g.k.task = call[c].task /\ g.k.pc # "new" /\ UNCHANGED <<item, casSeq>>
  BY DEF Resume, Moves, Frame
<1>3. i \in Instance /\ g.k \in CallType
  <2>1. call'[c] = g.k /\ call[c] \in CallType /\ call'[c] \in CallType
    BY <1>1, <1>2 DEF TypeOK
  <2> QED BY <2>1 DEF CallType, TaskType
<1> HIDE DEF i
<1>4. Alone(c) /\ Serial'
  BY <1>1, <1>2, <1>3, SerialContinues, SerialStarts, AloneFacts
<1>5. /\ call'[c] = g.k /\ inst'[i] = g.o /\ reply'[c] = Waiting
      /\ \A d \in Call : d # c => call'[d] = call[d] /\ reply'[d] = reply[d]
      /\ \A d \in Call : call'[d].task = call[d].task
      /\ \A j \in Instance : j # i => inst'[j] = inst[j]
  BY <1>1, <1>2, <1>3 DEF TypeOK
<1>6. /\ \A t : Stale(t)' <=> Stale(t)
      /\ \A p, S : Matches(p, S)' <=> Matches(p, S)
  BY <1>2 DEF Stale, Matches
<1>7. Waiting.st # "record" /\ Waiting # Answer("true")
  BY DEF Waiting, Answer
<1>8. ASSUME NEW d \in Call PROVE CallOwn(d)'
  <2>1. CASE d = c
    <3>1. Frame(c)'.k = g.k /\ Frame(c)'.o = g.o
      BY <1>2, <1>5 DEF Frame, i
    <3>2. FrameOwn(Frame(c))'
      BY <3>1 DEF Moves, FrameOwn
    <3>3. Published(c)' <=> g.k.pc = "refresh"
      BY <1>5, <1>7 DEF Published
    <3>4. g.k.pc \in CasPoints => Tracks(Frame(c), Published(c))'
      BY <1>6, <3>1, <3>3 DEF Moves, Tracks
    <3>5. g.k.pc = "cas" /\ ~Stale(g.k.tok)' => Matches(g.k.val, Foreign(g.k.task.on))'
      BY <1>6 DEF Moves
    <3> QED BY <1>5, <1>7, <2>1, <3>2, <3>4, <3>5 DEF CallOwn
  <2>2. CASE d # c
    <3>1. call'[d] = call[d] /\ reply'[d] = reply[d] /\ CallOwn(d) /\ Frame(d).k = call[d]
          /\ Frame(d)'.k = call[d] /\ call[d].task.on \in Instance
      BY <1>1, <1>5, <2>2 DEF OwnInv, Frame, TypeOK, CallType, TaskType
    <3>2. Published(d)' <=> Published(d)
      BY <3>1 DEF Published
    <3>3. CASE call[d].task.on # i
      <4>1. Frame(d)'.o = Frame(d).o
        BY <1>5, <3>1, <3>3 DEF Frame
      <4>2. FrameOwn(Frame(d))'
        BY <3>1, <4>1 DEF CallOwn, FrameOwn
      <4>3. call[d].pc \in CasPoints => Tracks(Frame(d), Published(d))'
        BY <1>6, <3>1, <3>2, <4>1 DEF CallOwn, Tracks
      <4> QED BY <1>6, <3>1, <4>2, <4>3 DEF CallOwn
    <3>4. CASE call[d].task.on = i
      <4>1. ~Active(d)
        BY <1>4, <2>2, <3>4 DEF Alone, i
      <4>2. call[d].pc \in {"new", "resolved", "rejected"}
        BY <4>1 DEF Active, Settled
      <4>3. ASSUME call[d].task.op = "load", call[d].pc = "resolved" PROVE Frame(d)'.o.has
        <5>1. Frame(d)'.o = g.o /\ Frame(d).o = inst[i] /\ Frame(c).o = inst[i]
          BY <1>5, <3>1, <3>4 DEF Frame, i
        <5>2. inst[i].has
          BY <3>1, <4>3, <5>1 DEF CallOwn, FrameOwn, Loading
        <5>3. g.k.task.op # "load"
          BY <1>2, <1>4, <1>5, <2>2, <3>4, <4>3 DEF Serial, Makes, i
        <5>4. Frame(c).k.task = g.k.task
          BY DEF Moves
        <5> QED BY <5>1, <5>2, <5>3, <5>4 DEF Moves
      <4>4. FrameOwn(Frame(d))'
        BY <3>1, <4>2, <4>3 DEF CallOwn, FrameOwn, CasPoints, Writing, Loading
      <4> QED BY <1>6, <3>1, <4>2, <4>4 DEF CallOwn, CasPoints, GetsPoints
    <3> QED BY <3>3, <3>4
  <2> QED BY <2>1, <2>2
<1>9. ASSUME NEW j \in Instance PROVE InstanceOwn(j)'
  <2>1. CASE j = i
    <3>1. g.k.pc \in CasPoints => Busy(j)'
      BY <1>2, <1>5, <2>1 DEF Busy, i
    <3> QED BY <1>2, <1>5, <1>6, <2>1, <3>1 DEF InstanceOwn, Moves, i
  <2>2. CASE j # i
    <3>1. inst'[j] = inst[j] /\ \A d \in Call : call[d].task.on = j => call'[d] = call[d]
      BY <1>5, <2>2 DEF i
    <3>2. Busy(j) => Busy(j)'
      BY <3>1 DEF Busy
    <3> QED BY <1>6, <3>1, <3>2 DEF OwnInv, InstanceOwn
  <2> QED BY <2>1, <2>2
<1>10. Tells(c)
  BY <1>5 DEF Tells, Moves, Told, Frame, i
<1> QED BY <1>8, <1>9, <1>10 DEF OwnInv

(* What a call finds when its answer has come.                             *)
LEMMA OwnAnswer ==
  ASSUME Owned, Known, OwnInv, NEW c \in Call, NEW pc \in CachePoints \cup DbPoints,
         Answered(c, pc)
  PROVE  /\ Steady(Frame(c)) /\ Frame(c).k = call[c] /\ call[c].pc = pc /\ Active(c)
         /\ Orderly /\ CacheEnabled /\ call[c].task \in Task[c]
         /\ FrameOwn(Frame(c)) /\ CallOwn(c) /\ FrameFit(Frame(c)) /\ ReplyFit(c)
         /\ FrameOrderly(Frame(c)) /\ ReplyOrderly(c) /\ Stale(0)
         /\ reply[c] \in Reply /\ reply[c] # Waiting /\ reply' = [reply EXCEPT ![c] = Waiting]
         /\ Frame(c).o.has /\ pc \notin Storing => Frame(c).o.token # 0
         /\ ~Stale(Frame(c).o.token) => Matches(Frame(c).o.record, Foreign(call[c].task.on))
         /\ pc \notin CasPoints => Rested(Frame(c))
<1> DEFINE f == Frame(c)
           i == call[c].task.on
<1>1. Orderly
  BY DEF Owned
<1>2. /\ Steady(f) /\ f.k = call[c] /\ call[c].pc = pc /\ Active(c) /\ CacheEnabled
      /\ reply[c] \in Reply /\ reply[c] # Waiting /\ reply' = [reply EXCEPT ![c] = Waiting]
      /\ ReplyFit(c) /\ ItemFit /\ FrameOrderly(f) /\ ReplyOrderly(c)
      /\ (f.o.has /\ pc \notin Storing => f.o.token # 0)
  BY <1>1, OrderlyAnswer
<1>3. FrameFit(f) /\ Serial /\ TypeOK
  BY <1>1 DEF Known, TokenInv, Orderly, DerivedInv
<1>4. call[c].task \in Task[c] /\ CallOwn(c) /\ FrameOwn(f)
  BY DEF Known, OrderlyInv, OwnInv, CallOwn
<1>5. i \in Instance /\ f.o = inst[i]
  BY <1>3 DEF TypeOK, CallType, TaskType, Frame
<1>6. InstanceOwn(i)
  BY <1>5 DEF OwnInv
<1>7. Stale(0)
  BY <1>2, ZeroFit
<1>8. pc \notin CasPoints => ~Busy(i)
  <2>1. Alone(c)
    BY <1>2, <1>3, AloneFacts
  <2> QED BY <1>2, <2>1 DEF Alone, Busy, Active, Settled, CasPoints
<1>9. pc \notin CasPoints => Rested(f)
  BY <1>2, <1>5, <1>6, <1>8 DEF Rested, InstanceOwn
<1> QED BY <1>1, <1>2, <1>3, <1>4, <1>5, <1>6, <1>7, <1>9 DEF InstanceOwn

(* An instance that has adopted a record rests.                            *)
LEMMA AdoptRests ==
  ASSUME NEW f, Steady(f), NEW r \in Reply, r.cas # 0, NEW b \in BOOLEAN,
         Matches(r.val, Own(f.k.task.on)), ~Stale(r.cas) => r.val = item.val
  PROVE  /\ Rested([Adopt(f, r) EXCEPT !.o.inCache = b])
         /\ [Adopt(f, r) EXCEPT !.o.inCache = b].k = f.k
         /\ [Adopt(f, r) EXCEPT !.o.inCache = b].o.has
         /\ [Adopt(f, r) EXCEPT !.o.inCache = b].o.token # 0
<1> DEFINE h == [Adopt(f, r) EXCEPT !.o.inCache = b]
<1>1. Steady(h) /\ h.k = f.k /\ h.o.has /\ h.o.token # 0
  BY InCacheSteady
<1>2. h.o.record = r.val /\ h.o.token = r.cas
  BY DEF Adopt, SetRecord, Steady, FrameType, InstanceType
<1> HIDE DEF h
<1>3. ~Stale(h.o.token) => Matches(h.o.record, Foreign(h.k.task.on))
  BY <1>2 DEF Matches
<1>4. Rested(h)
  BY <1>1, <1>2, <1>3 DEF Rested
<1> QED BY <1>1, <1>4 DEF h

(* Where a record is loaded.                                               *)
LEMMA AdoptedMoves ==
  ASSUME Owned, CacheEnabled, NEW f, Steady(f), NEW c \in Call, f.k.task \in Task[c],
         f.k.task.op = "load", NEW r \in Reply, r.cas # 0, NEW b \in BOOLEAN,
         Matches(r.val, Own(f.k.task.on)), ~Stale(r.cas) => r.val = item.val
  PROVE  Moves(f, Body([Adopt(f, r) EXCEPT !.o.inCache = b]))
<1> DEFINE a == [Adopt(f, r) EXCEPT !.o.inCache = b]
<1>1. Rested(a) /\ a.k = f.k /\ a.o.has /\ a.o.token # 0
  BY AdoptRests
<1> HIDE DEF a
<1>2. Moves(a, Body(a))
  BY <1>1, BodyMoves
<1> QED BY <1>1, <1>2 DEF Moves, Told, a

LEMMA CachedOwn ==
  ASSUME Owned, Known, OwnInv, TypeOK', NEW c \in Call, Cached(c)
  PROVE  OwnInv' /\ Tells(c)
<1> DEFINE f == Frame(c)
           r == reply[c]
<1>1. Answered(c, "cached") /\ "cached" \in CachePoints
  BY DEF Cached, CachePoints, GetsPoints
<1>2. /\ Steady(f) /\ f.k = call[c] /\ call[c].pc = "cached" /\ Active(c) /\ Orderly
      /\ CacheEnabled /\ f.k.task \in Task[c] /\ Rested(f) /\ r \in Reply
      /\ reply' = [reply EXCEPT ![c] = Waiting]
  BY <1>1, OwnAnswer DEF CasPoints
<1>3. f.k.task.op = "load" /\ f.o.token = 0 /\ ~f.o.has
  <2>1. FrameOwn(f) /\ FrameFit(f) /\ (f.o.has => f.o.token # 0)
    BY <1>1, OwnAnswer DEF Storing
  <2> QED BY <1>2, <2>1 DEF FrameOwn, FrameFit, Loading, Orderly
<1>4. Usable(r) => /\ r.cas # 0 /\ Matches(r.val, Own(f.k.task.on))
                   /\ ~Stale(r.cas) => r.val = item.val
  <2>1. ReplyFit(c) /\ CallOwn(c)
    BY <1>1, OwnAnswer
  <2> QED BY <1>2, <2>1 DEF ReplyFit, CallOwn, Usable, GetsPoints
<1> HIDE DEF f, r
<1> DEFINE a == [Adopt(f, r) EXCEPT !.o.inCache = TRUE]
<1>5. Usable(r) => Moves(f, Body(a))
  BY <1>2, <1>3, <1>4, AdoptedMoves
<1>6. Moves(f, Go(f, "select"))
  <2>1. /\ Go(f, "select").o = f.o /\ Go(f, "select").k.task = f.k.task
        /\ Go(f, "select").k.pc = "select"
    BY <1>2, GoFacts DEF Kept, Steady
  <2> QED BY <1>2, <1>3, <2>1, RestMoves DEF Loading, CasPoints, Writing
<1> HIDE DEF a
<1>7. \E g : Resume(c, g) /\ Moves(f, g)
  BY <1>3, <1>5, <1>6 DEF Cached, f, r, a
<1> QED BY <1>2, <1>7, OwnResume DEF f

LEMMA FreshOwn ==
  ASSUME Owned, Known, OwnInv, TypeOK', NEW c \in Call, Fresh(c)
  PROVE  OwnInv' /\ Tells(c)
<1> DEFINE f == Frame(c)
           r == reply[c]
<1>1. Answered(c, "fresh") /\ "fresh" \in CachePoints
  BY DEF Fresh, CachePoints, GetsPoints
<1>2. /\ Steady(f) /\ f.k = call[c] /\ call[c].pc = "fresh" /\ Active(c) /\ Orderly
      /\ CacheEnabled /\ f.k.task \in Task[c] /\ r \in Reply
      /\ FrameOwn(f) /\ ReplyOrderly(c) /\ ReplyFit(c) /\ CallOwn(c)
      /\ r # Waiting /\ reply' = [reply EXCEPT ![c] = Waiting]
  BY <1>1, OwnAnswer
<1>3. f.k.task.op = "load" /\ Usable(r)
  BY <1>2 DEF FrameOwn, Loading, ReplyOrderly, Usable
<1>4. r.cas # 0 /\ Matches(r.val, Own(f.k.task.on)) /\ (~Stale(r.cas) => r.val = item.val)
  BY <1>2, <1>3 DEF ReplyFit, CallOwn, Usable, GetsPoints
<1> HIDE DEF f, r
<1> DEFINE a == [Adopt(f, r) EXCEPT !.o.inCache = FALSE]
<1>5. Moves(f, Body(a))
  BY <1>2, <1>3, <1>4, AdoptedMoves
<1>6. Resume(c, Body(a))
  BY <1>3 DEF Fresh, f, r
<1> HIDE DEF a
<1> QED BY <1>2, <1>5, <1>6, OwnResume DEF f

LEMMA SelectedOwn ==
  ASSUME Owned, Known, OwnInv, TypeOK', NEW c \in Call, Selected(c)
  PROVE  OwnInv' /\ Tells(c)
<1> DEFINE f == Frame(c)
           r == reply[c]
           g == [SetRecord(f, r.val) EXCEPT !.k = [@ EXCEPT !.pc = "store", !.val = r.val]]
<1>1. Answered(c, "select") /\ "select" \in DbPoints
  BY DEF Selected, DbPoints
<1>2. /\ Steady(f) /\ f.k = call[c] /\ call[c].pc = "select" /\ Active(c) /\ Orderly
      /\ CacheEnabled /\ r \in Reply /\ FrameOwn(f) /\ ReplyOrderly(c) /\ FrameFit(f)
      /\ r # Waiting /\ reply' = [reply EXCEPT ![c] = Waiting] /\ Stale(0)
  BY <1>1, OwnAnswer
<1>3. f.k.task.op = "load" /\ f.o.token = 0 /\ r.st = "record"
  BY <1>2 DEF FrameOwn, FrameFit, Loading, ReplyOrderly, Orderly
<1>4. Resume(c, g)
  BY <1>2, <1>3 DEF Selected, f, r
<1> HIDE DEF f, r
<1>5. g.k.task = f.k.task /\ g.k.pc = "store" /\ g.o.token = f.o.token
  BY <1>2 DEF SetRecord, Steady, FrameType, InstanceType, CallType
<1> HIDE DEF g
<1>6. Moves(f, g)
  BY <1>2, <1>3, <1>5 DEF Moves, Told, FrameOwn, CasPoints, Loading, Writing
<1> QED BY <1>2, <1>4, <1>6, OwnResume DEF f

LEMMA StoredOwn ==
  ASSUME Owned, Known, OwnInv, TypeOK', NEW c \in Call, Stored(c)
  PROVE  OwnInv' /\ Tells(c)
<1> DEFINE e == Frame(c)
           f == [e EXCEPT !.k.val = Blank]
           g == Go(f, "fresh")
<1>1. Answered(c, "store") /\ "store" \in CachePoints
  BY DEF Stored, CachePoints
<1>2. /\ Steady(e) /\ e.k = call[c] /\ call[c].pc = "store" /\ Active(c) /\ Orderly
      /\ FrameOwn(e) /\ ReplyOrderly(c) /\ FrameFit(e)
      /\ reply[c] # Waiting /\ reply' = [reply EXCEPT ![c] = Waiting] /\ Stale(0)
  BY <1>1, OwnAnswer
<1>3. e.k.task.op = "load" /\ e.o.token = 0 /\ reply[c].st # "err"
  BY <1>2 DEF FrameOwn, FrameFit, Loading, ReplyOrderly, Orderly
<1>4. Resume(c, g)
  BY <1>2, <1>3 DEF Stored, e
<1> HIDE DEF e
<1>5. f \in FrameType /\ f.k.task = e.k.task /\ f.o = e.o
  BY <1>2, BlankType DEF Steady, FrameType, CallType
<1> HIDE DEF f
<1>6. g.k.task = e.k.task /\ g.k.pc = "fresh" /\ g.o = e.o
  BY <1>5, GoFacts DEF Kept
<1> HIDE DEF g
<1>7. Moves(e, g)
  BY <1>2, <1>3, <1>6 DEF Moves, Told, FrameOwn, CasPoints, Loading, Writing
<1> QED BY <1>2, <1>4, <1>7, OwnResume DEF e

(* The CAS has been carried out, or refused.                               *)
LEMMA CasAnsweredOwn ==
  ASSUME Owned, Known, OwnInv, TypeOK', NEW c \in Call, CasAnswered(c)
  PROVE  OwnInv' /\ Tells(c)
<1> DEFINE f == Frame(c)
           r == reply[c]
           h == [f EXCEPT !.k.val = Blank, !.k.tok = 0]
<1>1. Answered(c, "cas") /\ "cas" \in CachePoints
  BY DEF CasAnswered, CachePoints
<1>2. /\ Steady(f) /\ f.k = call[c] /\ call[c].pc = "cas" /\ Active(c) /\ Orderly
      /\ FrameOwn(f) /\ CallOwn(c) /\ ReplyOrderly(c) /\ FrameOrderly(f) /\ r # Waiting
      /\ reply' = [reply EXCEPT ![c] = Waiting]
      /\ (~Stale(f.o.token) => Matches(f.o.record, Foreign(f.k.task.on)))
  BY <1>1, OwnAnswer
<1>3. /\ r \in {Answer("true"), Answer("false")} /\ f \in FrameType
      /\ Tracks(f, r = Answer("true")) /\ Bearing(f.k)
  BY <1>2 DEF ReplyOrderly, CallOwn, Published, CasPoints, FrameOrderly, Steady
<1> HIDE DEF f, r
<1>4. ASSUME NEW g, NEW published \in BOOLEAN, Tracks(f, published), g.o = f.o, Kept(f, g),
             g.k.pc = IF published THEN "refresh" ELSE "reread"
      PROVE  Moves(f, g)
  <2>1. FrameOwn(g)
    BY <1>2, <1>3, <1>4 DEF FrameOwn, CasPoints, Kept, Loading, Writing, Bearing
  <2>2. Tracks(g, g.k.pc = "refresh")
    BY <1>4 DEF Tracks, Kept
  <2> QED BY <1>2, <1>4, <2>1, <2>2 DEF Moves, Told, Kept, CasPoints
<1>5. CASE r = Answer("true")
  <2>1. Go(f, "refresh").o = f.o /\ Kept(f, Go(f, "refresh")) /\ Go(f, "refresh").k.pc = "refresh"
    BY <1>3, GoFacts
  <2>2. Tracks(f, TRUE)
    BY <1>3, <1>5
  <2>3. Moves(f, Go(f, "refresh"))
    BY <1>4, <2>1, <2>2
  <2>4. r.st = "true"
    BY <1>5 DEF Answer
  <2>5. Resume(c, Go(f, "refresh"))
    BY <2>4 DEF CasAnswered, f, r
  <2> QED BY <1>2, <2>3, <2>5, OwnResume DEF f
<1>6. CASE r = Answer("false")
  <2>1. h \in FrameType /\ h.o = f.o /\ Kept(f, h)
    BY <1>3, BlankType DEF FrameType, CallType, Kept
  <2>2. r.st = "false" /\ r # Answer("true")
    BY <1>6 DEF Answer
  <2>3. Resume(c, Go(h, "reread"))
    BY <2>2 DEF CasAnswered, f, r, h
  <2> HIDE DEF h
  <2>4. Go(h, "reread").o = f.o /\ Kept(f, Go(h, "reread")) /\ Go(h, "reread").k.pc = "reread"
    BY <2>1, GoFacts DEF Kept
  <2>5. Tracks(f, FALSE)
    BY <1>3, <2>2
  <2>6. Moves(f, Go(h, "reread"))
    BY <1>4, <2>4, <2>5
  <2> QED BY <1>2, <2>3, <2>6, OwnResume DEF f
<1> QED BY <1>3, <1>5, <1>6

(* A record with the updated columns, on an instance cleared of what the   *)
(* update replaces.                                                        *)
LEMMA RecordReadsBack ==
  ASSUME NEW arg \in Payload, NEW upd \in Payload, Within(upd, arg),
         NEW record \in Payload, NEW val \in Payload, WellDerived(val),
         NEW view, view = ClearFields(view, upd),
         NEW S \in SUBSET (Field \ DerivedField), Touched(arg) \subseteq S,
         \A x \in S : val.col[x] = ApplyUpdate(record, upd).col[x],
         \A x \in Touched(arg) \ Touched(upd) : record.col[x] = arg.col[x]
  PROVE  ReadsBack(arg, upd, ApplyRecordToInstance(view, val))
<1> DEFINE shown == ApplyRecordToInstance(view, val)
<1>1. \A x \in Field : shown[x] = IF val.col[x] = Absent THEN view[x] ELSE val.col[x]
  BY DEF ApplyRecordToInstance
<1>2. \A x \in Field : x \in Dependents(upd) \/ upd.col[x] = Null => view[x] = Absent
  BY DEF ClearFields
<1> HIDE DEF shown
<1>3. ASSUME NEW x \in Touched(arg)
      PROVE  shown[x] \in IF arg.col[x] = Null THEN {Null, Absent} ELSE {arg.col[x]}
  <2>1. x \in Field /\ x \in S /\ x \notin Dependents(upd) /\ arg.col[x] # Absent
    BY DEF Touched, Dependents
  <2>2. val.col[x] = IF upd.col[x] = Null THEN Absent
                     ELSE IF upd.col[x] = Absent THEN record.col[x] ELSE upd.col[x]
    BY <2>1 DEF ApplyUpdate, MergeRecord
  <2>3. upd.col[x] \in {Absent, arg.col[x]}
    BY <2>1 DEF Within
  <2>4. CASE upd.col[x] = Absent
    <3>1. record.col[x] = arg.col[x]
      BY <2>4 DEF Touched
    <3> QED BY <1>1, <2>1, <2>2, <2>4, <3>1, CellAssumption
  <2>5. CASE upd.col[x] # Absent
    BY <1>1, <1>2, <2>1, <2>2, <2>3, <2>5
  <2> QED BY <2>4, <2>5
<1>4. ASSUME NEW d \in Dependents(upd), shown[d] # Absent
      PROVE  (\A q \in Parents[d] : shown[q] \in DbCell) /\ shown[d] = Derived(d, shown)
  <2>1. d \in DerivedField /\ d \in Field /\ Parents[d] \subseteq Field
    BY FieldAssumption DEF Dependents, Field
  <2>2. val.col[d] # Absent /\ shown[d] = val.col[d]
    BY <1>1, <1>2, <1>4, <2>1
  <2>3. (\A q \in Parents[d] : val.col[q] \in DbCell) /\ val.col[d] = Derived(d, val.col)
    BY <2>1, <2>2 DEF WellDerived
  <2>4. \A q \in Parents[d] : shown[q] = val.col[q]
    BY <1>1, <2>1, <2>3, CellAssumption DEF DbCell
  <2>5. [q \in Parents[d] |-> shown[q]] = [q \in Parents[d] |-> val.col[q]]
    BY <2>4
  <2> QED BY <2>2, <2>3, <2>4, <2>5 DEF Derived
<1> QED BY <1>3, <1>4 DEF ReadsBack, shown

(* The entry read back after the CAS replaces the record.                  *)
LEMMA RefreshedOwn ==
  ASSUME Owned, Known, OwnInv, TypeOK', NEW c \in Call, Refreshed(c)
  PROVE  OwnInv' /\ Tells(c)
<1> DEFINE f == Frame(c)
           r == reply[c]
           a == Adopt(f, r)
           i == f.k.task.on
           arg == f.k.task.arg
           upd == f.k.upd
<1>1. Answered(c, "refresh") /\ "refresh" \in CachePoints
  BY DEF Refreshed, CachePoints, GetsPoints
<1>2. /\ Steady(f) /\ f.k = call[c] /\ call[c].pc = "refresh" /\ Active(c) /\ Orderly
      /\ FrameOwn(f) /\ CallOwn(c) /\ FrameOrderly(f) /\ ReplyFit(c) /\ r \in Reply
      /\ f.k.task \in Task[c] /\ reply' = [reply EXCEPT ![c] = Waiting]
  BY <1>1, OwnAnswer
<1>3. Usable(r) /\ WellDerived(r.val)
  BY <1>1, <1>2, AnswerLit, AnswerOK DEF Known, DerivedInv
<1>4. /\ r.cas # 0 /\ (~Stale(r.cas) => r.val = item.val)
      /\ Matches(r.val, Own(i)) /\ Matches(ApplyUpdate(f.o.record, upd), Own(i))
  BY <1>2, <1>3 DEF ReplyFit, Usable, GetsPoints, CallOwn, CasPoints, Published, Tracks
<1>5. Bearing(f.k) /\ f \in FrameType /\ f.k \in CallType /\ f.o.record \in Payload
      /\ arg \in Payload /\ upd \in Payload /\ r.val \in Payload
  BY <1>2 DEF FrameOrderly, CasPoints, Steady, FrameType, InstanceType, CallType, TaskType, Reply
<1>6. Resume(c, AfterUpdateCache(a))
  BY <1>3 DEF Refreshed, Usable
<1> HIDE DEF f, r
<1>7. /\ a \in FrameType /\ a.k = f.k /\ a.o.has /\ a.o.token = r.cas /\ a.o.record = r.val
      /\ a.o.view = ApplyRecordToInstance(f.o.view, r.val)
  <2>1. a \in FrameType /\ a.k = f.k /\ a.o.token = r.cas
    BY <1>2, <1>5, AdoptShows
  <2>2. a.o.has /\ a.o.record = r.val /\ a.o.view = ApplyRecordToInstance(f.o.view, r.val)
    BY <1>5 DEF Adopt, SetRecord, FrameType, InstanceType
  <2> QED BY <2>1, <2>2
<1>8. f.k.task.op = "update" => ReadsBack(arg, upd, a.o.view)
  <2> SUFFICES ASSUME f.k.task.op = "update"
               PROVE  ReadsBack(arg, upd, ApplyRecordToInstance(f.o.view, r.val))
    BY <1>7
  <2>1. Within(upd, arg) /\ Touched(arg) \subseteq Own(i)
    BY <1>2, <1>5, ClaimsApart DEF Bearing
  <2>2. Own(i) \in SUBSET (Field \ DerivedField)
    BY OwnStored
  <2>3. \A x \in Own(i) : r.val.col[x] = ApplyUpdate(f.o.record, upd).col[x]
    BY <1>4 DEF Matches
  <2>4. /\ f.o.view = ClearFields(f.o.view, upd)
        /\ \A x \in Touched(arg) \ Touched(upd) : f.o.record.col[x] = arg.col[x]
    BY <1>2 DEF FrameOwn, CasPoints
  <2> HIDE DEF arg, upd, i
  <2> QED BY <1>3, <1>5, <2>1, <2>2, <2>3, <2>4, RecordReadsBack
<1> HIDE DEF a
<1> SUFFICES ASSUME NEW g, Persisted(a, g), Resume(c, g) PROVE OwnInv' /\ Tells(c)
  BY <1>6, <1>7, AfterUpdateCacheFacts
<1>9. /\ g.o = a.o /\ g.k.task = f.k.task /\ g.k.upd = upd
      /\ g.k.pc \in {"updateBase", "updateExtra", "resolved", "rejected"}
  BY <1>7 DEF Persisted, Kept
<1>10. FrameOwn(g)
  BY <1>7, <1>8, <1>9 DEF FrameOwn, CasPoints, Loading
<1>11. ~Stale(r.cas) => Matches(r.val, Foreign(i))
  BY <1>4 DEF Matches
<1>12. Moves(f, g)
  BY <1>4, <1>7, <1>8, <1>9, <1>10, <1>11 DEF Moves, Told, CasPoints
<1> QED BY <1>2, <1>12, OwnResume DEF f

(* The retry starts from the entry read back.                              *)
LEMMA RereadOwn ==
  ASSUME Owned, Known, Patient, OwnInv, TypeOK', NEW c \in Call, Reread(c)
  PROVE  OwnInv' /\ Tells(c)
<1> DEFINE f == Frame(c)
           r == reply[c]
           h == SetRecord(f, r.val)
           n == f.k.att + 1
           i == f.k.task.on
           arg == f.k.task.arg
           upd == f.k.upd
<1>1. Answered(c, "reread") /\ "reread" \in CachePoints
  BY DEF Reread, CachePoints, GetsPoints
<1>2. /\ Steady(f) /\ f.k = call[c] /\ call[c].pc = "reread" /\ Active(c) /\ Orderly
      /\ FrameOwn(f) /\ CallOwn(c) /\ FrameOrderly(f) /\ FrameFit(f) /\ ReplyFit(c)
      /\ r \in Reply /\ f.k.task \in Task[c] /\ reply' = [reply EXCEPT ![c] = Waiting]
  BY <1>1, OwnAnswer
<1>3. Usable(r)
  BY <1>1, <1>2, AnswerLit DEF Known, DerivedInv
<1>4. /\ Stale(f.o.token) /\ (~Stale(r.cas) => r.val = item.val)
      /\ Matches(r.val, Own(i)) /\ Matches(f.o.record, Own(i) \ Touched(upd))
  <2>1. ~Published(c)
    BY <1>2 DEF Published
  <2>2. CallOwn(c) /\ call[c].pc = "reread" /\ r.st = "record" /\ f.k = call[c]
    BY <1>2, <1>3 DEF Usable
  <2>3. Matches(r.val, Own(i)) /\ Tracks(f, Published(c))
    BY <2>2 DEF CallOwn, CasPoints, GetsPoints
  <2>4. Stale(f.o.token) /\ (~Stale(r.cas) => r.val = item.val)
    BY <1>2, <2>2 DEF FrameFit, ReplyFit, GetsPoints, Orderly
  <2> QED BY <2>1, <2>3, <2>4 DEF Tracks
<1>5. /\ Bearing(f.k) /\ f \in FrameType /\ f.k \in CallType /\ r.val \in Payload
      /\ f.k.att < MaxCasAttempts /\ f.k.att \in Nat
  BY <1>2 DEF FrameOrderly, CasPoints, Steady, FrameType, CallType, Reply, Patient
<1>6. Resume(c, PerformCasUpdate(h, r.val, r.cas, n))
  BY <1>3 DEF Reread, RetryFrom
<1> HIDE DEF f, r
<1>7. /\ h \in FrameType /\ h.k = f.k /\ h.o.has /\ h.o.token = f.o.token
      /\ h.o.force = f.o.force /\ h.o.record = r.val
  <2>1. h \in FrameType /\ h.k = f.k /\ h.o.token = f.o.token
    BY <1>5, SetRecordShows
  <2>2. h.o.has /\ h.o.force = f.o.force /\ h.o.record = r.val
    BY <1>5 DEF SetRecord, FrameType, InstanceType
  <2> QED BY <2>1, <2>2
<1>8. ~(n > MaxCasAttempts)
  BY <1>5, BoundAssumption
<1> HIDE DEF h, n
<1> SUFFICES ASSUME NEW g, Candidate(h, g, r.val, r.cas, n), Resume(c, g)
             PROVE  OwnInv' /\ Tells(c)
  BY <1>6, <1>7, <1>8, PerformCasUpdateFacts
<1>9. f.k.task.op = "update" => \A x \in Touched(arg) \ Touched(upd) : r.val.col[x] = arg.col[x]
  <2>1. f.k.task.op = "update" => Touched(arg) \subseteq Own(i)
    BY <1>2, <1>5, ClaimsApart
  <2>2. f.k.task.op = "update" =>
          \A x \in Touched(arg) \ Touched(upd) : f.o.record.col[x] = arg.col[x]
    BY <1>2 DEF FrameOwn, CasPoints
  <2>3. \A x \in Own(i) \ Touched(upd) : r.val.col[x] = f.o.record.col[x]
    BY <1>4 DEF Matches
  <2> QED BY <2>1, <2>2, <2>3
<1>10. Matches(r.val, Own(i) \ Touched(upd)) /\ (~Stale(r.cas) => Matches(r.val, Foreign(i)))
  BY <1>4 DEF Matches
<1>11. Steady(h) /\ f.k.task.op # "load"
  BY <1>2, <1>5, <1>7 DEF Steady, Bearing
<1>12. Moves(h, g)
  <2>1. /\ h.k.task \in Task[c] /\ h.o.has /\ h.k.task.op # "load" /\ Bearing(h.k)
        /\ r.val \in Payload /\ r.val = h.o.record
    BY <1>2, <1>5, <1>7, <1>11
  <2>2. h.k.task.op = "update" =>
          \A x \in Touched(h.k.task.arg) \ Touched(h.k.upd) : r.val.col[x] = h.k.task.arg.col[x]
    BY <1>7, <1>9
  <2>3. /\ Matches(r.val, Own(h.k.task.on) \ Touched(h.k.upd))
        /\ ~Stale(r.cas) \/ ~Stale(h.o.token) => Matches(r.val, Foreign(h.k.task.on))
    BY <1>4, <1>7, <1>10
  <2> QED BY <1>11, <2>1, <2>2, <2>3, CandidateMoves
<1>13. Moves(f, g)
  BY <1>7, <1>12 DEF Moves, Told
<1> QED BY <1>2, <1>13, OwnResume DEF f

(* The answers of the database after the CAS.                              *)
LEMMA WroteMoves ==
  ASSUME NEW f, Rested(f), FrameOwn(f), f.k.pc \in Writing, NEW g, g.o = f.o, Kept(f, g),
         g.k.pc \in {"updateExtra", "insertExtra", "resolved", "rejected"}
  PROVE  Moves(f, g)
<1>1. /\ g.k.task = f.k.task /\ g.k.upd = f.k.upd
      /\ f.k.pc \notin Loading \cup {"new", "rejected"}
  BY DEF Kept, Writing, Loading
<1>2. FrameOwn(g)
  BY <1>1 DEF FrameOwn, CasPoints, Loading
<1> QED BY <1>1, <1>2 DEF Moves, Told, FrameOwn, CasPoints, Rested

LEMMA WrittenOwn ==
  ASSUME Owned, Known, OwnInv, TypeOK', NEW c \in Call,
         UpdatedBase(c) \/ UpdatedExtra(c) \/ InsertedExtra(c)
  PROVE  OwnInv' /\ Tells(c)
<1> DEFINE f == Frame(c)
<1>1. PICK pc \in Writing : Answered(c, pc)
  BY DEF UpdatedBase, UpdatedExtra, InsertedExtra, Writing
<1>2. pc \in DbPoints /\ pc \notin CasPoints
  BY DEF Writing, DbPoints, CasPoints
<1>3. /\ Rested(f) /\ f.k.pc \in Writing /\ FrameOwn(f) /\ Active(c) /\ Orderly
      /\ reply' = [reply EXCEPT ![c] = Waiting] /\ f \in FrameType
  BY <1>1, <1>2, OwnAnswer DEF Steady
<1> HIDE DEF f
<1>4. Moves(f, Resolve(f)) /\ Moves(f, Reject(f)) /\ Moves(f, Go(f, "insertExtra"))
  BY <1>3, SettleFacts, GoFacts, WroteMoves
<1>5. Moves(f, PersistExtra(f))
  BY <1>3, PersistExtraFacts, WroteMoves
<1>6. \E g : Resume(c, g) /\ Moves(f, g)
  <2>1. CASE UpdatedBase(c)
    BY <1>4, <1>5, <2>1 DEF UpdatedBase, f
  <2>2. CASE UpdatedExtra(c)
    BY <1>4, <2>2 DEF UpdatedExtra, Fire, f
  <2>3. CASE InsertedExtra(c)
    BY <1>4, <2>3 DEF InsertedExtra, Fire, f
  <2> QED BY <2>1, <2>2, <2>3
<1> QED BY <1>3, <1>6, OwnResume DEF f

(* The extra row joins the record of the instance.                         *)
LEMMA SelectedExtraOwn ==
  ASSUME Owned, Known, OwnInv, TypeOK', NEW c \in Call, SelectedExtra(c)
  PROVE  OwnInv' /\ Tells(c)
<1> DEFINE f == Frame(c)
           r == reply[c]
           u == IF r.st = "none" THEN DefaultsPayload ELSE r.val
           h == [f EXCEPT !.k.upd = u]
           m == Merge(h, u)
           i == f.k.task.on
<1>1. Answered(c, "selectExtra") /\ "selectExtra" \in DbPoints
  BY DEF SelectedExtra, DbPoints
<1>2. /\ Steady(f) /\ f.k = call[c] /\ call[c].pc = "selectExtra" /\ Active(c) /\ Orderly
      /\ Rested(f) /\ FrameOrderly(f) /\ r \in Reply /\ CacheEnabled /\ f.k.task \in Task[c]
      /\ (f.o.has => f.o.token # 0) /\ reply' = [reply EXCEPT ![c] = Waiting]
  BY <1>1, OwnAnswer DEF Storing, CasPoints
<1>3. OnlyExtra(r.val)
  BY <1>1, AnswerOK DEF Known
<1>4. f.k.task.op = "readExtra" /\ f.o.has /\ f.o.token # 0
  BY <1>2 DEF FrameOrderly
<1> HIDE DEF f, r
<1>5. u \in Payload /\ OnlyExtra(u)
  BY <1>2, <1>3, ExtraPayloadType, DefaultsPayloadType DEF Reply
<1>6. /\ Matches(f.o.record, Own(i)) /\ (~Stale(f.o.token) => Matches(f.o.record, Foreign(i)))
      /\ f.o.record \in Payload /\ f \in FrameType
  BY <1>2, <1>4 DEF Rested, Steady, FrameType, InstanceType
<1> HIDE DEF u
<1>7. h \in FrameType /\ h.o = f.o /\ h.k.task = f.k.task /\ h.k.upd = u
  BY <1>5, <1>6 DEF FrameType, CallType
<1> HIDE DEF h
<1>8. /\ m \in FrameType /\ m.k = h.k /\ m.o.has /\ m.o.token = f.o.token
      /\ m.o.force = f.o.force /\ m.o.record = MergeRecord(f.o.record, u)
  <2>1. /\ m \in FrameType /\ m.k = h.k
        /\ m.o = [h.o EXCEPT !.has = TRUE, !.record = MergeRecord(h.o.record, u),
                             !.view = ApplyRecordToInstance(h.o.view, u)]
    BY <1>5, <1>7, MergeFacts
  <2> HIDE DEF m
  <2> QED BY <1>7, <2>1 DEF FrameType, InstanceType
<1> HIDE DEF m
<1>9. Steady(m) /\ Bearing(m.k) /\ m.k.task = f.k.task /\ m.k.upd = u /\ m.k \in CallType
      /\ m.o.record \in Payload
  BY <1>2, <1>4, <1>5, <1>7, <1>8 DEF Steady, Bearing, FrameType, InstanceType
<1>10. \A S \in SUBSET (Field \ DerivedField) :
         Touched(u) \cap S = {} => \A x \in S : m.o.record.col[x] = f.o.record.col[x]
  BY <1>5, <1>6, <1>8, UntouchedStay
<1>11. Matches(m.o.record, Own(i) \ Touched(u))
  <2>1. Own(i) \ Touched(u) \in SUBSET (Field \ DerivedField)
    BY OwnStored
  <2>2. \A x \in Own(i) \ Touched(u) : m.o.record.col[x] = f.o.record.col[x]
    BY <1>10, <2>1
  <2> QED BY <1>6, <2>2 DEF Matches
<1>12. ~Stale(m.o.token) => Matches(m.o.record, Foreign(i))
  <2>1. Touched(u) \cap Foreign(i) = {}
    BY <1>2, <1>9, ClaimsApart
  <2>2. Foreign(i) \in SUBSET (Field \ DerivedField)
    BY OwnStored
  <2>3. \A x \in Foreign(i) : m.o.record.col[x] = f.o.record.col[x]
    BY <1>10, <2>1, <2>2
  <2> QED BY <1>6, <1>8, <2>3 DEF Matches
<1>13. Moves(f, UpdateCache(m))
  <2> DEFINE g == UpdateCache(m)
  <2>1. Candidate(m, g, m.o.record, m.o.token, 1)
    BY <1>2, <1>4, <1>8, UpdateCacheFacts DEF Updated
  <2> HIDE DEF g
  <2>2. m.k.task \in Task[c] /\ m.o.has /\ m.k.task.op # "load" /\ m.k.task.op # "update"
    BY <1>2, <1>4, <1>8, <1>9
  <2>3. /\ Matches(m.o.record, Own(m.k.task.on) \ Touched(m.k.upd))
        /\ ~Stale(m.o.token) => Matches(m.o.record, Foreign(m.k.task.on))
    BY <1>9, <1>11, <1>12
  <2>4. Moves(m, g)
    BY <1>9, <2>1, <2>2, <2>3, CandidateMoves
  <2> QED BY <1>4, <1>8, <1>9, <2>4 DEF Moves, Told, g
<1>14. Moves(f, Reject(f))
  <2>1. Reject(f).o = f.o /\ Reject(f).k.task = f.k.task /\ Reject(f).k.pc = "rejected"
    BY <1>6, SettleFacts DEF Kept
  <2> QED BY <1>2, <1>4, <2>1, RestMoves DEF CasPoints, Writing, Loading
<1>15. \E g : Resume(c, g) /\ Moves(f, g)
  BY <1>13, <1>14 DEF SelectedExtra, f, r, u, h, m
<1> QED BY <1>2, <1>15, OwnResume DEF f

(* A method starts on a new instance, or on one that rests.                *)
LEMMA StartOwn ==
  ASSUME Owned, Known, OwnInv, TypeOK', NEW c \in Call, Start(c)
  PROVE  OwnInv' /\ Tells(c)
<1> DEFINE f == Frame(c)
           i == call[c].task.on
           e == [f EXCEPT !.o = NewInstance(FALSE)]
<1>1. TypeOK /\ Orderly /\ ItemFit /\ ~Overlap /\ CacheEnabled
  BY DEF Known, DerivedInv, TokenInv, Owned, Orderly
<1>2. Startable(c) /\ call[c].pc = "new" /\ reply' = [reply EXCEPT ![c] = Waiting]
  BY <1>1 DEF Start, Startable, Known, DerivedInv, ReplySound, TypeOK
<1>3. call[c].task \in Task[c] /\ i \in Instance /\ call[c] \in CallType
      /\ inst[i] \in InstanceType /\ ~inst[i].force
  BY <1>1 DEF Known, OrderlyInv, TypeOK, CallType, TaskType
<1>4. call[c].task.op \in {"load", "update", "readExtra"} /\ ~call[c].task.force
  BY <1>1, <1>3 DEF Orderly
<1>5. f.k = call[c] /\ f.o = inst[i] /\ Steady(f) /\ f.k.upd = Blank
  BY <1>2, <1>3, <1>4 DEF Frame, Steady, FrameType, OwnInv, CallOwn, FrameOwn
<1>6. f.k.task.force = FALSE
  BY <1>3, <1>4, <1>5 DEF CallType, TaskType
<1>7. Resume(c, CASE f.k.task.op = "load" -> Initialise(e) [] OTHER -> EnsureRecordLoaded(f))
  BY <1>4, <1>5, <1>6 DEF Start
<1>8. Stale(0)
  BY <1>1, ZeroFit
<1>9. ASSUME call[c].task.op # "load" PROVE Rested(f) /\ f.o.has /\ f.o.token # 0 /\ Shows(f.o)
  <2>1. \A d \in Call : call[d].task.on = i => ~Active(d)
    BY <1>1, <1>2, <1>4, <1>9 DEF Startable, Makes
  <2>2. \A d \in Call : call[d].pc \in CasPoints \cup Storing => Active(d)
    BY DEF CasPoints, Storing, Active, Settled
  <2>3. PICK d \in Call : Makes(d, i) /\ call[d].pc = "resolved"
    BY <1>2, <1>4, <1>9 DEF Startable, Makes
  <2>4. inst[i].has
    <3>1. call[d].task.op = "load" /\ call[d].task.on = i
      BY <1>1, <2>3 DEF Known, OrderlyInv, Orderly, Makes
    <3>2. FrameOwn(Frame(d)) /\ Frame(d).k = call[d] /\ Frame(d).o = inst[i]
      BY <3>1 DEF OwnInv, CallOwn, Frame
    <3> QED BY <2>3, <3>1, <3>2 DEF FrameOwn, Loading
  <2>5. inst[i].token # 0
    BY <1>3, <2>1, <2>2, <2>4 DEF Known, OrderlyInv
  <2>6. ~Busy(i) /\ Shows(inst[i])
    BY <1>3, <2>1, <2>2 DEF Busy, Known, ViewInv
  <2>7. InstanceOwn(i)
    BY <1>3 DEF OwnInv
  <2> QED BY <1>5, <2>4, <2>5, <2>6, <2>7 DEF Rested, InstanceOwn
<1> HIDE DEF f
<1>10. ASSUME call[c].task.op = "load" PROVE Moves(f, Initialise(e))
  <2>1. e \in FrameType /\ e.k = f.k /\ e.o = NewInstance(FALSE)
    BY <1>5, BlankType, BlankView DEF Steady, FrameType, InstanceType, NewInstance
  <2> HIDE DEF e
  <2>2. e.o.token = 0 /\ ~e.o.force
    BY <2>1 DEF NewInstance
  <2>3. Initialise(e) = Go(e, "cached")
    BY <1>1, <2>2 DEF Initialise
  <2> DEFINE g == Go(e, "cached")
  <2>4. g.o = e.o /\ g.k.task = f.k.task /\ g.k.pc = "cached"
    <3>1. g.o = e.o /\ Kept(e, g) /\ g.k.pc = "cached"
      BY <2>1, GoFacts
    <3> QED BY <2>1, <3>1 DEF Kept
  <2> HIDE DEF g
  <2>5. Moves(f, g)
    BY <1>5, <1>8, <1>10, <2>2, <2>4 DEF Moves, Told, FrameOwn, CasPoints, Loading, Writing
  <2> QED BY <2>3, <2>5 DEF g
<1> HIDE DEF e, i
<1>11. ASSUME call[c].task.op # "load" PROVE Moves(f, EnsureRecordLoaded(f))
  <2>1. Rested(f) /\ f.o.has /\ f.o.token # 0 /\ Shows(f.o)
    BY <1>9, <1>11
  <2>2. Moves(f, Body(f))
    BY <1>1, <1>3, <1>5, <2>1, BodyMoves
  <2> QED BY <2>1, <2>2 DEF EnsureRecordLoaded
<1>12. \E g : Resume(c, g) /\ Moves(f, g)
  BY <1>4, <1>5, <1>7, <1>10, <1>11
<1> QED BY <1>1, <1>2, <1>12, OwnResume DEF f

-----------------------------------------------------------------------------
(* Steps of the servers.                                                   *)

(* An answer of a server that does not touch the item, and does not tell   *)
(* of it more than there is.                                               *)
LEMMA AnswerKeepsOwn ==
  ASSUME Known, OwnInv, NEW c \in Call, reply[c] = Waiting,
         NEW s, reply' = [reply EXCEPT ![c] = s], UNCHANGED <<inst, call, item>>,
         call[c].pc \in GetsPoints => s = item,
         call[c].pc = "cas" => s # Answer("true")
  PROVE  OwnInv'
<1>1. TypeOK
  BY DEF Known, DerivedInv
<1>2. /\ reply'[c] = s /\ \A d \in Call : d # c => reply'[d] = reply[d]
      /\ \A d \in Call : Frame(d)' = Frame(d)
  BY <1>1 DEF TypeOK, Frame
<1>3. Waiting # Answer("true")
  BY DEF Waiting, Answer
<1>4. \A d \in Call : Published(d)' <=> Published(d)
  BY <1>2, <1>3 DEF Published
<1>5. ASSUME NEW d \in Call PROVE CallOwn(d)'
  <2>1. CallOwn(d) /\ FrameOwn(Frame(d))'
    BY <1>2 DEF OwnInv, CallOwn, FrameOwn
  <2>2. call[d].pc \in CasPoints => Tracks(Frame(d), Published(d))'
    BY <1>2, <1>4, <2>1 DEF CallOwn, Tracks, Matches
  <2>3. call[d].pc \in GetsPoints /\ reply'[d].st = "record" =>
          \A x \in Own(call[d].task.on) : reply'[d].val.col[x] = item.val.col[x]
    BY <1>2, <2>1 DEF CallOwn, Matches
  <2> QED BY <2>1, <2>2, <2>3 DEF CallOwn, Matches, Stale
<1>6. \A i \in Instance : InstanceOwn(i)'
  BY DEF OwnInv, InstanceOwn, Busy, Matches, Stale
<1> QED BY <1>5, <1>6 DEF OwnInv

(* An add that finds no item: no instance has adopted a record yet.        *)
LEMMA FillKeepsOwn ==
  ASSUME Orderly, Known, OwnInv, NEW c \in Call, call[c].pc = "store", item.st = "none",
         Store("record", call[c].val), reply' = [reply EXCEPT ![c] = Answer("true")],
         UNCHANGED <<inst, call>>
  PROVE  OwnInv'
<1>1. TypeOK /\ TokenInv /\ ViewInv /\ item \in Item /\ casSeq \in Nat
  BY DEF Known, DerivedInv, TypeOK
<1>2. item'.cas = casSeq + 1 /\ item'.st = "record"
  BY DEF Store
<1>3. Stale(0)'
  BY <1>1, <1>2 DEF Stale
<1>4. \A i \in Instance : inst[i].token = 0
  BY <1>1 DEF ViewInv, Recorded
<1>5. \A d \in Call : call[d].pc \notin CasPoints
  BY <1>1 DEF ViewInv, Recorded
<1>6. \A d \in Call : call[d].pc \in GetsPoints => reply[d].st # "record"
  BY <1>1 DEF ViewInv
<1>7. \A d \in Call : call[d].pc \in GetsPoints => reply'[d].st # "record"
  BY <1>1, <1>6 DEF TypeOK, GetsPoints
<1>8. ASSUME NEW d \in Call PROVE CallOwn(d)'
  <2>1. FrameOwn(Frame(d)) /\ Frame(d)' = Frame(d)
    BY DEF OwnInv, CallOwn, Frame
  <2>2. FrameOwn(Frame(d))'
    BY <2>1 DEF FrameOwn
  <2> QED BY <1>5, <1>7, <2>2 DEF CallOwn, CasPoints
<1>9. ASSUME NEW i \in Instance PROVE InstanceOwn(i)'
  BY <1>3, <1>4 DEF InstanceOwn
<1> QED BY <1>8, <1>9 DEF OwnInv

(* A CAS that takes effect: it was built on the record cached, with every  *)
(* other instance's columns as they were.                                  *)
LEMMA PublishKeepsOwn ==
  ASSUME Owned, Known, OwnInv, NEW c \in Call, call[c].pc = "cas", reply[c] = Waiting,
         item.st # "none", item.cas = call[c].tok,
         Store("record", call[c].val), reply' = [reply EXCEPT ![c] = Answer("true")],
         UNCHANGED <<inst, call>>
  PROVE  OwnInv'
<1> DEFINE k == call[c]
           i == k.task.on
<1>1. TypeOK /\ TokenInv /\ ItemFit /\ item \in Item /\ casSeq \in Nat /\ Serial /\ ~Overlap
  BY DEF Known, DerivedInv, TypeOK, TokenInv, Owned, Orderly
<1>2. item'.cas = casSeq + 1 /\ item'.st = "record" /\ item'.val = k.val
  BY DEF Store
<1>3. \A t \in Nat : Fit(t) => Stale(t)'
  BY <1>1, <1>2 DEF Fit, Stale
<1>4. ~Stale(k.tok) /\ CallOwn(c) /\ Frame(c).k = k
  BY DEF Stale, OwnInv, Frame
<1>5. \A x \in Foreign(i) : item'.val.col[x] = item.val.col[x]
  BY <1>2, <1>4 DEF CallOwn, Matches
<1>6. ASSUME NEW j, j # i PROVE \A x \in Own(j) : item'.val.col[x] = item.val.col[x]
  BY <1>5, <1>6, OwnStored
<1>7. Alone(c)
  BY <1>1, AloneFacts DEF Active, Settled
<1>8. /\ reply'[c] = Answer("true") /\ \A d \in Call : d # c => reply'[d] = reply[d]
      /\ \A d \in Call : Frame(d)' = Frame(d)
  BY <1>1 DEF TypeOK, Frame
<1>9. ASSUME NEW j \in Instance PROVE InstanceOwn(j)'
  <2>1. Stale(inst[j].token)'
    BY <1>1, <1>3 DEF TokenInv, InstanceFit, TypeOK, InstanceType
  <2>2. CASE j = i
    <3>1. Busy(j)'
      BY <2>2 DEF Busy, CasPoints
    <3> QED BY <2>1, <3>1 DEF InstanceOwn
  <2>3. CASE j # i
    <3>1. InstanceOwn(j) /\ (Busy(j) => Busy(j)')
      BY DEF OwnInv, Busy
    <3> QED BY <1>6, <2>1, <2>3, <3>1 DEF InstanceOwn, Matches
  <2> QED BY <2>2, <2>3
<1>10. CallOwn(c)'
  <2>1. FrameOwn(Frame(c))'
    BY <1>4, <1>8 DEF CallOwn, FrameOwn
  <2>2. Tracks(Frame(c), Published(c))'
    <3>1. Published(c)'
      BY <1>8 DEF Published
    <3>2. k.val = ApplyUpdate(Frame(c).o.record, k.upd)
      BY <1>4 DEF CallOwn, FrameOwn
    <3> QED BY <1>2, <1>4, <1>8, <3>1, <3>2 DEF Tracks, Matches
  <2>3. Stale(k.tok)'
    <3>1. k.tok \in Nat /\ FrameFit(Frame(c))
      BY <1>1 DEF TypeOK, CallType, TokenInv
    <3> QED BY <1>3, <1>4, <3>1 DEF FrameFit
  <2> QED BY <2>1, <2>2, <2>3 DEF CallOwn, GetsPoints
<1>11. ASSUME NEW d \in Call, d # c PROVE CallOwn(d)'
  <2>1. CallOwn(d) /\ Frame(d).k = call[d] /\ reply'[d] = reply[d] /\ Frame(d)' = Frame(d)
    BY <1>8, <1>11 DEF OwnInv, Frame
  <2>2. FrameOwn(Frame(d))'
    BY <2>1 DEF CallOwn, FrameOwn
  <2>3. call[d].task.on = i => call[d].pc \notin CasPoints \cup GetsPoints
    BY <1>7, <1>11 DEF Alone, Active, Settled, CasPoints, GetsPoints
  <2>4. call[d].pc \in CasPoints \cup GetsPoints =>
          \A x \in Own(call[d].task.on) : item'.val.col[x] = item.val.col[x]
    BY <1>6, <2>3
  <2>5. call[d].pc \in CasPoints => Tracks(Frame(d), Published(d))'
    <3>1. Published(d)' <=> Published(d)
      BY <2>1 DEF Published
    <3>2. call[d].pc \in CasPoints => Tracks(Frame(d), Published(d))
      BY <2>1 DEF CallOwn
    <3> QED BY <2>1, <2>4, <3>1, <3>2 DEF Tracks, Matches
  <2>6. call[d].pc \in GetsPoints /\ reply'[d].st = "record" =>
          \A x \in Own(call[d].task.on) : reply'[d].val.col[x] = item'.val.col[x]
    BY <2>1, <2>4 DEF CallOwn, Matches
  <2>7. call[d].pc = "cas" => Stale(call[d].tok)'
    <3>1. call[d].tok \in Nat /\ FrameFit(Frame(d))
      BY <1>1 DEF TypeOK, CallType, TokenInv
    <3> QED BY <1>3, <2>1, <3>1 DEF FrameFit
  <2> QED BY <2>1, <2>2, <2>5, <2>6, <2>7 DEF CallOwn, Matches
<1> QED BY <1>9, <1>10, <1>11 DEF OwnInv

LEMMA CacheServeOwn ==
  ASSUME Owned, Known, OwnInv, NEW c \in Call, CacheServe(c)
  PROVE  OwnInv'
<1>1. TypeOK /\ item \in Item /\ Orderly
  BY DEF Known, DerivedInv, TypeOK, Owned
<1>2. PICK s : CacheServed(c, s)
  BY <1>1, CacheServeCases
<1>3. /\ reply[c] = Waiting /\ reply' = [reply EXCEPT ![c] = s] /\ UNCHANGED <<inst, call>>
      /\ s # Answer("err")
  BY <1>1, <1>2 DEF CacheServed, Orderly, Lasting
<1>4. call[c].pc \notin Dropping /\ ~inst[call[c].task.on].force
  BY <1>1 DEF Known, ViewInv, OrderlyInv, TypeOK, CallType, TaskType
<1>5. CASE call[c].pc \in GetsPoints
  <2>1. s = item /\ UNCHANGED <<item, casSeq>>
    BY <1>2, <1>3, <1>5 DEF CacheServed, GetsPoints
  <2> QED BY <1>3, <1>5, <2>1, AnswerKeepsOwn DEF GetsPoints
<1>6. CASE call[c].pc = "store" /\ item.st = "none"
  <2>1. s = Answer("true") /\ Store("record", call[c].val)
    BY <1>2, <1>3, <1>6 DEF CacheServed, GetsPoints
  <2> QED BY <1>1, <1>3, <1>6, <2>1, FillKeepsOwn
<1>7. CASE call[c].pc = "store" /\ item.st # "none"
  <2>1. UNCHANGED <<item, casSeq>>
    BY <1>2, <1>3, <1>4, <1>7 DEF CacheServed, GetsPoints
  <2> QED BY <1>3, <1>7, <2>1, AnswerKeepsOwn DEF GetsPoints
<1>8. CASE call[c].pc = "cas" /\ item.st # "none" /\ item.cas = call[c].tok
  <2>1. s = Answer("true") /\ Store("record", call[c].val)
    BY <1>2, <1>3, <1>8 DEF CacheServed, GetsPoints
  <2> QED BY <1>3, <1>8, <2>1, PublishKeepsOwn
<1>9. CASE call[c].pc = "cas" /\ ~(item.st # "none" /\ item.cas = call[c].tok)
  <2>1. s = Answer("false") /\ UNCHANGED <<item, casSeq>>
    BY <1>2, <1>3, <1>9 DEF CacheServed, GetsPoints
  <2>2. s # Answer("true")
    BY <2>1, AnswersDiffer
  <2> QED BY <1>3, <1>9, <2>1, <2>2, AnswerKeepsOwn DEF GetsPoints
<1>10. call[c].pc \in GetsPoints \cup {"store", "cas"}
  BY <1>2, <1>4 DEF CacheServed, Dropping, CachePoints
<1> QED BY <1>5, <1>6, <1>7, <1>8, <1>9, <1>10

LEMMA DbServeOwn ==
  ASSUME Known, OwnInv, NEW c \in Call, DbServe(c)
  PROVE  OwnInv'
<1>1. PICK s : reply' = [reply EXCEPT ![c] = s]
  BY DbServeAnswers
<1>2. call[c].pc \in DbPoints /\ reply[c] = Waiting /\ UNCHANGED <<item, inst, call>>
  BY DbServeAnswers
<1>3. call[c].pc \notin GetsPoints \cup {"cas"}
  BY <1>2 DEF DbPoints, GetsPoints
<1> QED BY <1>1, <1>2, <1>3, AnswerKeepsOwn

-----------------------------------------------------------------------------
(* All steps.                                                              *)

LEMMA InitOwn ==
  ASSUME Init
  PROVE  OwnInv
<1>1. \A c \in Call : /\ call[c].pc = "new" /\ call[c].upd = Blank /\ reply[c] = Waiting
  BY DEF Init
<1>2. item.st = "none" /\ \A i \in Instance : inst[i].token = 0
  BY DEF Init, NoItem, NewInstance
<1>3. ASSUME NEW c \in Call PROVE CallOwn(c)
  <2>1. FrameOwn(Frame(c))
    BY <1>1 DEF FrameOwn, Frame, Loading, CasPoints, Writing
  <2> QED BY <1>1, <2>1 DEF CallOwn, CasPoints, GetsPoints
<1> QED BY <1>2, <1>3 DEF OwnInv, InstanceOwn, Stale

(* Every step keeps the invariant, and ends an update only with its values *)
(* on the instance.                                                        *)
LEMMA OwnStep ==
  ASSUME Owned, Known, Patient, OwnInv, TypeOK', [Next]_vars
  PROVE  /\ OwnInv'
         /\ \A c \in Call : call[c].pc # "resolved" => Tells(c)
<1>1. Orderly /\ TypeOK
  BY DEF Owned, Known, DerivedInv
<1>2. ASSUME UNCHANGED <<inst, call>>
      PROVE  \A c \in Call : call[c].pc # "resolved" => Tells(c)
  BY <1>2 DEF Tells
<1>3. ASSUME NEW c \in Call, OwnInv' /\ Tells(c), NEW g, Resume(c, g)
      PROVE  \A d \in Call : call[d].pc # "resolved" => Tells(d)
  <2>1. \A d \in Call : d # c => call'[d] = call[d]
    BY <1>1, <1>3 DEF Resume, TypeOK
  <2> QED BY <1>3, <2>1 DEF Tells
<1>4. CASE UNCHANGED vars
  <2>1. UNCHANGED <<item, inst, call, reply>>
    BY <1>4 DEF vars
  <2>2. ASSUME NEW i \in Instance PROVE InstanceOwn(i)'
    BY <2>1 DEF OwnInv, InstanceOwn, Busy, Matches, Stale
  <2>3. ASSUME NEW c \in Call PROVE CallOwn(c)'
    <3>1. Frame(c)' = Frame(c)
      BY <2>1 DEF Frame
    <3>2. FrameOwn(Frame(c))'
      BY <2>1, <3>1 DEF OwnInv, CallOwn, FrameOwn
    <3> QED BY <2>1, <3>1, <3>2 DEF OwnInv, CallOwn, Tracks, Published, Matches, Stale
  <2>4. OwnInv'
    BY <2>2, <2>3 DEF OwnInv
  <2> QED BY <1>2, <1>4, <2>4 DEF vars
<1>5. ASSUME NEW c \in Call, Continue(c) \/ Start(c)
      PROVE  OwnInv' /\ \A d \in Call : call[d].pc # "resolved" => Tells(d)
  <2>1. OwnInv' /\ Tells(c)
    BY <1>1, <1>5, CachedOwn, SelectedOwn, StoredOwn, FreshOwn, CasAnsweredOwn, RefreshedOwn,
       RereadOwn, WrittenOwn, NoOtherAnswer, SelectedExtraOwn, StartOwn DEF Continue
  <2>2. \E g : Resume(c, g)
    BY <1>5 DEF Continue, Start, Cached, Selected, Stored, Fresh, CasAnswered, Refreshed, Reread,
                UpdatedBase, UpdatedExtra, InsertedExtra, InsertedBase, DeletedBase, DeletedExtra,
                Invalidated, Marked, SelectedExtra
  <2> QED BY <1>3, <2>1, <2>2
<1>6. ASSUME NEW c \in Call, Serve(c) PROVE OwnInv' /\ UNCHANGED <<inst, call>>
  <2>1. UNCHANGED <<inst, call>>
    BY <1>6, DbServeAnswers DEF Serve, CacheServe
  <2> QED BY <1>6, <2>1, CacheServeOwn, DbServeOwn DEF Serve
<1>7. ~Evict
  BY <1>1 DEF Evict, Orderly, Lasting
<1> QED BY <1>2, <1>4, <1>5, <1>6, <1>7 DEF Next, Quiet

(* When the columns updated through an instance are updated, and in the    *)
(* extra table read, through no other, an update that resolves leaves its  *)
(* values on its instance, and no derived column of what it replaced; also *)
(* when it lost its CAS to others before, and ends with a record that      *)
(* another writer published.                                               *)
THEOREM ReadsOwnWrites ==
  ASSUME Owned
  PROVE  Spec /\ []Patient => ReadYourWrites
<1>1. Init => OwnInv
  BY InitOwn
<1>2. /\ DerivedInv /\ DerivedInv' /\ TokenInv /\ ViewInv /\ OrderlyInv /\ Patient /\ OwnInv
      /\ [Next]_vars
      => OwnInv'
  BY OwnStep DEF Known, DerivedInv
<1>3. /\ DerivedInv /\ DerivedInv' /\ TokenInv /\ ViewInv /\ OrderlyInv /\ Patient /\ OwnInv
      /\ [Next]_vars
      => \A c \in Call :
           /\ call[c].task.op = "update"
           /\ call[c].pc # "resolved" /\ call'[c].pc = "resolved"
           => LET u == call[c].task.arg  view == inst'[call[c].task.on].view
              IN  /\ \A f \in Touched(u) :
                       view[f] \in IF u.col[f] = Null THEN {Null, Absent} ELSE {u.col[f]}
                  /\ \A d \in Dependents(call[c].upd) :
                       view[d] # Absent =>
                         /\ \A q \in Parents[d] : view[q] \in DbCell
                         /\ view[d] = Derived(d, view)
  BY OwnStep DEF Known, DerivedInv, Tells, ReadsBack
<1>4. Orderly /\ Lasting
  BY DEF Owned, Orderly
<1>5. Spec => []ViewInv
  BY <1>4, ViewInvariance
<1>6. Spec /\ []Patient => []OrderlyInv
  BY <1>4, OrderlyInvariance
<1> QED BY <1>1, <1>2, <1>3, <1>5, <1>6, DerivedInvariance, TokenInvariance, PTL
        DEF Spec, ReadYourWrites

(* And unconditionally while the calls that publish are no more than a     *)
(* call's attempts.                                                        *)
THEOREM FewWritersReadBack ==
  ASSUME Owned, Few
  PROVE  Spec => ReadYourWrites
<1>1. Orderly
  BY DEF Owned
<1> QED BY <1>1, AttemptsSuffice, ReadsOwnWrites, PTL
=============================================================================
