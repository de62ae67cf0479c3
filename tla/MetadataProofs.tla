--------------------------- MODULE MetadataProofs ---------------------------
(***************************************************************************)
(* Proofs about Metadata: type correctness, that a call reads and writes   *)
(* rows with complete metadata only, and that the metadata of a class      *)
(* lacks the extra table's columns only while a call is to provide them.   *)
(***************************************************************************)
EXTENDS MetadataProperties, TLAPS

USE MetadataAssumption

FrameType == [k: MCallType, s: ClassType]

(* Past ResolveDependencies, on the way to a row.                          *)
PastDependencies(k) ==
  k.pc \in {"setDependencies", "work"} \/ (k.pc \in {"showColumns", "setExtra"} /\ k.loading)

FrameSound(f) ==
  /\ f.k.pc \in {"setExtra", "insertRow", "work"} /\ HasExtraTable =>
       "extraTableFields" \in f.k.known
  /\ PastDependencies(f.k) /\ HasDerived => f.s.dependencies

FrameOK(f) == f \in FrameType /\ FrameSound(f)

(* What a frame function makes of f: a sound frame of the same call, whose *)
(* class still has the dependencies it had.                                *)
Follows(f, g) ==
  /\ FrameOK(g)
  /\ g.k.task = f.k.task
  /\ f.s.dependencies => g.s.dependencies

LacksExtra(s) ==
  HasExtraTable /\ s.metadata.has /\ "extraTableFields" \notin s.metadata.parts

(* The call has the poor object, and is to extend it or failed to.         *)
Resolves(k) ==
  "extraTableFields" \notin k.known /\ k.pc \in {"setDependencies", "showColumns"}
Owes(c, k) ==
  \/ Resolves(k)
  \/ "extraTableFields" \notin k.known /\ c \in DbFaults /\ k.pc = "rejected"

(* A step leaves a poor class with the call that took it, or does not      *)
(* concern it.                                                             *)
Covers(c, f, g) ==
  LacksExtra(g.s) => Owes(c, g.k) \/ (g.s.metadata = f.s.metadata /\ ~Owes(c, f.k))

ReplySound(c) ==
  /\ call[c].pc = "new" => reply[c] = Waiting
  /\ call[c].pc \in DbPoints /\ reply[c].st = "err" => c \in DbFaults

MetaInv ==
  /\ MetaTypeOK
  /\ \A c \in Call : FrameSound(Frame(c)) /\ ReplySound(c)
  /\ \A p \in Process :
       LacksExtra(class[p]) => \E c \in Call : call[c].task.on = p /\ Owes(c, call[c])

-----------------------------------------------------------------------------
(* Frames.                                                                 *)

LEMMA Points ==
  /\ CachePoints \subseteq Pc /\ DbPoints \subseteq Pc /\ Settled \subseteq Pc
  /\ CachePoints = {"get", "add", "setDependencies", "setExtra", "clear"}
  /\ DbPoints = {"showColumns", "insertRow", "work", "insertExtra"}
  /\ Settled = {"resolved", "rejected", "lost"}
  /\ "new" \in Pc
BY DEF CachePoints, DbPoints, Settled, Pc

LEMMA GoFollows ==
  ASSUME NEW f \in FrameType, NEW pc \in Pc, FrameSound([f EXCEPT !.k.pc = pc])
  PROVE  Follows(f, Go(f, pc)) /\ Go(f, pc).s = f.s /\ Go(f, pc).k.pc = pc
         /\ Go(f, pc).k.known = f.k.known
BY DEF Follows, FrameOK, FrameType, MCallType, Go

(* Points at which nothing is claimed of a frame.                          *)
LEMMA GoFree ==
  ASSUME NEW f \in FrameType,
         NEW pc \in {"get", "add", "clear", "insertExtra", "resolved", "rejected"}
  PROVE  Follows(f, Go(f, pc)) /\ Go(f, pc).s = f.s /\ Go(f, pc).k.pc = pc
         /\ Go(f, pc).k.known = f.k.known
<1>1. pc \in Pc
  BY Points
<1>2. FrameSound([f EXCEPT !.k.pc = pc])
  BY DEF FrameSound, PastDependencies, FrameType, MCallType
<1> QED BY <1>1, <1>2, GoFollows

(* What GetExtraFields and Ready may rely on.                              *)
Resolved(f) == f.k.loading /\ HasDerived => f.s.dependencies

LEMMA ReadyFollows ==
  ASSUME NEW f \in FrameType, Resolved(f),
         HasExtraTable => "extraTableFields" \in f.k.known
  PROVE  Follows(f, Ready(f)) /\ Ready(f).s = f.s
<1>1. Follows(f, Resolve(f)) /\ Resolve(f).s = f.s
  BY GoFree DEF Resolve
<1>2. "insertRow" \in Pc /\ "work" \in Pc
  BY Points
<1>3. Follows(f, Go(f, "insertRow")) /\ Go(f, "insertRow").s = f.s
  BY <1>2, GoFollows DEF FrameSound, PastDependencies, FrameType, MCallType
<1>4. f.k.loading => Follows(f, Go(f, "work")) /\ Go(f, "work").s = f.s
  BY <1>2, GoFollows DEF FrameSound, PastDependencies, FrameType, MCallType, Resolved
<1>5. f.k.loading \in BOOLEAN
  BY DEF FrameType, MCallType
<1> QED BY <1>1, <1>3, <1>4, <1>5 DEF Ready

LEMMA GetExtraFieldsFollows ==
  ASSUME NEW f \in FrameType, Resolved(f)
  PROVE  /\ Follows(f, GetExtraFields(f)) /\ GetExtraFields(f).s = f.s
         /\ HasExtraTable /\ "extraTableFields" \notin f.k.known =>
              Resolves(GetExtraFields(f).k)
<1>1. CASE ~HasExtraTable \/ "extraTableFields" \in f.k.known
  BY <1>1, ReadyFollows DEF GetExtraFields
<1>2. CASE ~(~HasExtraTable \/ "extraTableFields" \in f.k.known)
  <2>1. FrameSound([f EXCEPT !.k.pc = "showColumns"])
    BY DEF FrameSound, PastDependencies, FrameType, MCallType, Resolved
  <2>2. /\ Follows(f, Go(f, "showColumns")) /\ Go(f, "showColumns").s = f.s
        /\ Go(f, "showColumns").k.pc = "showColumns"
        /\ Go(f, "showColumns").k.known = f.k.known
    BY <2>1, GoFollows, Points
  <2>3. GetExtraFields(f) = Go(f, "showColumns")
    BY <1>2 DEF GetExtraFields
  <2> QED BY <1>2, <2>2, <2>3 DEF Resolves
<1> QED BY <1>1, <1>2

(* A call that works with the class's own object takes on what is missing. *)
Shares(f) == LacksExtra(f.s) => "extraTableFields" \notin f.k.known
Takes(g) == LacksExtra(g.s) => Resolves(g.k)

LEMMA ExtraTakes ==
  ASSUME NEW f \in FrameType, Resolved(f), Shares(f)
  PROVE  Follows(f, GetExtraFields(f)) /\ Takes(GetExtraFields(f))
BY GetExtraFieldsFollows DEF Shares, Takes, LacksExtra

LEMMA FollowsTrans ==
  ASSUME NEW f, NEW g, NEW h, f.k.task = g.k.task, f.s.dependencies => g.s.dependencies,
         Follows(g, h)
  PROVE  Follows(f, h)
BY DEF Follows

LEMMA ExtendType ==
  ASSUME NEW f \in FrameType, NEW part \in Part
  PROVE  /\ Extend(f, part) \in FrameType
         /\ Extend(f, part).k = [f.k EXCEPT !.known = @ \cup {part}]
         /\ Extend(f, part).s.metadata = Holding(f.k.known \cup {part})
         /\ Extend(f, part).s.dependencies = f.s.dependencies
<1>1. f.k.known \cup {part} \in SUBSET Part
  BY DEF FrameType, MCallType
<1>2. Holding(f.k.known \cup {part}) \in Metadatum
  BY <1>1 DEF Metadatum
<1> QED BY <1>1, <1>2 DEF Extend, FrameType, MCallType, ClassType

LEMMA ResolveDependenciesFollows ==
  ASSUME NEW f \in FrameType, Shares(f)
  PROVE  Follows(f, ResolveDependencies(f)) /\ Takes(ResolveDependencies(f))
<1> DEFINE with == [f EXCEPT !.s.dependencies = TRUE]
           g == Extend(with, "dependencies")
<1>1. /\ with \in FrameType /\ with.k = f.k /\ with.s.dependencies
      /\ with.s.metadata = f.s.metadata
  BY DEF FrameType, ClassType
<1>2. CASE ~HasDerived \/ f.s.dependencies
  BY <1>2, ExtraTakes DEF ResolveDependencies, Resolved
<1>3. CASE HasDerived /\ ~f.s.dependencies /\ "dependencies" \in f.k.known
  <2>1. Resolved(with) /\ Shares(with)
    BY <1>1 DEF Resolved, Shares, LacksExtra
  <2>2. Follows(with, GetExtraFields(with)) /\ Takes(GetExtraFields(with))
    BY <1>1, <2>1, ExtraTakes
  <2>3. ResolveDependencies(f) = GetExtraFields(with)
    BY <1>3 DEF ResolveDependencies
  <2>4. f.k.task = with.k.task /\ (f.s.dependencies => with.s.dependencies)
    BY <1>1
  <2> HIDE DEF with
  <2> QED BY <2>2, <2>3, <2>4, FollowsTrans
<1>4. CASE ~(~HasDerived \/ f.s.dependencies) /\ "dependencies" \notin f.k.known
  <2> HIDE DEF with
  <2>0. /\ g \in FrameType /\ g.k = [with.k EXCEPT !.known = @ \cup {"dependencies"}]
        /\ g.s.metadata = Holding(with.k.known \cup {"dependencies"})
        /\ g.s.dependencies = with.s.dependencies
    <3>1. "dependencies" \in Part
      BY DEF Part
    <3> QED BY <1>1, <3>1, ExtendType
  <2> HIDE DEF g
  <2>1. /\ g \in FrameType /\ g.k = [f.k EXCEPT !.known = @ \cup {"dependencies"}]
        /\ g.s.metadata = Holding(f.k.known \cup {"dependencies"}) /\ g.s.dependencies
    BY <1>1, <2>0
  <2>2. g.k.known = f.k.known \cup {"dependencies"} /\ g.k.task = f.k.task
    BY <2>1 DEF FrameType, MCallType
  <2>3. Resolved(g) /\ Shares(g)
    BY <2>1, <2>2 DEF Resolved, Shares, LacksExtra, Holding
  <2>4. Follows(g, GetExtraFields(g)) /\ Takes(GetExtraFields(g))
    BY <2>1, <2>3, ExtraTakes
  <2>5. FrameSound([g EXCEPT !.k.pc = "setDependencies"])
    BY <2>1 DEF FrameSound, PastDependencies, FrameType, MCallType
  <2>6. /\ Follows(g, Go(g, "setDependencies")) /\ Go(g, "setDependencies").s = g.s
        /\ Go(g, "setDependencies").k.pc = "setDependencies"
        /\ Go(g, "setDependencies").k.known = g.k.known
    BY <2>1, <2>5, GoFollows, Points
  <2>7. Takes(Go(g, "setDependencies"))
    BY <2>3, <2>6 DEF Takes, Shares, Resolves
  <2>8. ResolveDependencies(f) =
          IF CacheEnabled THEN Go(g, "setDependencies") ELSE GetExtraFields(g)
    BY <1>4 DEF ResolveDependencies, g, with
  <2> QED BY <2>1, <2>2, <2>4, <2>6, <2>7, <2>8, FollowsTrans
<1> QED BY <1>2, <1>3, <1>4

LEMMA KnownFollows ==
  ASSUME NEW f \in FrameType
  PROVE  Follows(f, Known(f)) /\ Takes(Known(f))
<1> DEFINE g == [f EXCEPT !.k.known = f.s.metadata.parts]
<1>1. f.s.metadata.parts \in SUBSET Part
  BY DEF FrameType, ClassType, Metadatum, Nothing, Holding
<1>2. /\ g \in FrameType /\ g.k.known = g.s.metadata.parts /\ g.k.task = f.k.task
      /\ g.s = f.s /\ g.k.loading = f.k.loading
  BY <1>1 DEF FrameType, MCallType
<1> HIDE DEF g
<1>3. Shares(g)
  BY <1>2 DEF Shares, LacksExtra
<1>4. Follows(g, ResolveDependencies(g)) /\ Takes(ResolveDependencies(g))
  BY <1>2, <1>3, ResolveDependenciesFollows
<1>5. ~f.k.loading => Follows(g, GetExtraFields(g)) /\ Takes(GetExtraFields(g))
  BY <1>2, <1>3, ExtraTakes DEF Resolved
<1>6. Known(f) = IF f.k.loading THEN ResolveDependencies(g) ELSE GetExtraFields(g)
  BY DEF Known, g
<1> QED BY <1>2, <1>4, <1>5, <1>6, FollowsTrans

LEMMA FetchedFollows ==
  ASSUME NEW f \in FrameType, NEW parts \in SUBSET Part
  PROVE  Follows(f, Fetched(f, parts)) /\ Takes(Fetched(f, parts))
<1> DEFINE g == [f EXCEPT !.s.metadata = Holding(parts)]
<1>1. g \in FrameType /\ g.k = f.k /\ g.s.dependencies = f.s.dependencies
  BY DEF FrameType, ClassType, Metadatum
<1> HIDE DEF g
<1>2. Follows(g, Known(g)) /\ Takes(Known(g))
  BY <1>1, KnownFollows
<1> QED BY <1>1, <1>2, FollowsTrans DEF Fetched, g

(* getMetadata takes the class's object, or asks for one.                  *)
LEMMA GetMetadataFollows ==
  ASSUME NEW f \in FrameType
  PROVE  /\ Follows(f, GetMetadata(f))
         /\ Takes(GetMetadata(f)) \/ GetMetadata(f).s = f.s
<1>1. Follows(f, Known(f)) /\ Takes(Known(f))
  BY KnownFollows
<1>2. Follows(f, Go(f, "get")) /\ Go(f, "get").s = f.s
  BY GoFree
<1>3. Follows(f, Fetched(f, {})) /\ Takes(Fetched(f, {}))
  BY FetchedFollows
<1> QED BY <1>1, <1>2, <1>3 DEF GetMetadata

LEMMA InitialiseFollows ==
  ASSUME NEW f \in FrameType
  PROVE  /\ Follows(f, Initialise(f))
         /\ Takes(Initialise(f)) \/ Initialise(f).s = f.s
<1> DEFINE g == [f EXCEPT !.k.loading = TRUE]
<1>1. g \in FrameType /\ g.s = f.s /\ g.k.task = f.k.task
  BY DEF FrameType, MCallType
<1> HIDE DEF g
<1>2. Follows(g, GetMetadata(g)) /\ (Takes(GetMetadata(g)) \/ GetMetadata(g).s = g.s)
  BY <1>1, GetMetadataFollows
<1>3. Initialise(f) = GetMetadata(g)
  BY DEF Initialise, g
<1> QED BY <1>1, <1>2, <1>3, FollowsTrans

LEMMA InsertFollows ==
  ASSUME NEW f \in FrameType
  PROVE  /\ Follows(f, Insert(f))
         /\ Takes(Insert(f)) \/ Insert(f).s = f.s
<1>1. CASE HasExtraTable
  BY <1>1, GetMetadataFollows DEF Insert
<1>2. CASE ~HasExtraTable
  <2>1. FrameSound([f EXCEPT !.k.pc = "insertRow"])
    BY <1>2 DEF FrameSound, PastDependencies, FrameType, MCallType
  <2> QED BY <1>2, <2>1, GoFollows, Points DEF Insert
<1> QED BY <1>1, <1>2

LEMMA InsertExtraRowFollows ==
  ASSUME NEW f \in FrameType
  PROVE  Follows(f, InsertExtraRow(f)) /\ InsertExtraRow(f).s = f.s
BY GoFree DEF InsertExtraRow, Resolve

-----------------------------------------------------------------------------
(* Steps.                                                                  *)

LEMMA Typed ==
  ASSUME MetaInv, NEW c \in Call
  PROVE  /\ Frame(c) \in FrameType /\ FrameSound(Frame(c)) /\ ReplySound(c)
         /\ Frame(c).k = call[c] /\ Frame(c).s = class[call[c].task.on]
         /\ call[c].task.on \in Process
BY DEF MetaInv, MetaTypeOK, Frame, FrameType, MCallType, TaskType

(* A call that does not owe may do anything but leave the class poor.      *)
LEMMA FreeCovers ==
  ASSUME NEW c, NEW f, NEW g, f.k.pc \notin {"setDependencies", "showColumns", "rejected"},
         Takes(g) \/ g.s = f.s
  PROVE  Covers(c, f, g)
BY DEF Covers, Takes, Owes, Resolves

(* The code of a call from one await to the next keeps the invariant.      *)
LEMMA ResumeOK ==
  ASSUME MetaInv, NEW c \in Call, NEW g,
         Follows(Frame(c), g), Covers(c, Frame(c), g), Resume(c, g),
         reply' = reply \/ reply' = [reply EXCEPT ![c] = Waiting],
         reply' = reply => reply[c] = Waiting
  PROVE  MetaInv'
<1> DEFINE p == call[c].task.on
<1>1. /\ Frame(c) \in FrameType /\ FrameSound(Frame(c))
      /\ Frame(c).k = call[c] /\ Frame(c).s = class[p] /\ p \in Process
  BY Typed
<1>2. /\ g.k \in MCallType /\ g.s \in ClassType /\ FrameSound(g)
      /\ g.k.task = call[c].task /\ (class[p].dependencies => g.s.dependencies)
  BY <1>1 DEF Follows, FrameOK, FrameType
<1>3. /\ call' = [call EXCEPT ![c] = g.k] /\ class' = [class EXCEPT ![p] = g.s]
      /\ shared' = shared /\ extraRows' = extraRows
  BY <1>2 DEF Resume
<1>4. /\ reply' \in [Call -> ReplyType] /\ reply'[c] = Waiting
      /\ \A d \in Call \ {c} : reply'[d] = reply[d]
  <2>1. reply \in [Call -> ReplyType] /\ Waiting \in ReplyType
    BY DEF MetaInv, MetaTypeOK, Waiting, Answer, ReplyType, Metadatum
  <2> QED BY <2>1
<1>5. MetaTypeOK'
  BY <1>1, <1>2, <1>3, <1>4 DEF MetaInv, MetaTypeOK
<1>6. /\ call'[c] = g.k /\ class'[p] = g.s
      /\ \A d \in Call \ {c} : call'[d] = call[d]
      /\ \A q \in Process \ {p} : class'[q] = class[q]
  BY <1>1, <1>3 DEF MetaInv, MetaTypeOK
<1>7. \A d \in Call : FrameSound(Frame(d))'
  <2> SUFFICES ASSUME NEW d \in Call PROVE FrameSound(Frame(d))'
    OBVIOUS
  <2>1. CASE d = c
    BY <1>2, <1>6, <2>1 DEF Frame, FrameSound, PastDependencies
  <2>2. CASE d # c
    <3>1. /\ FrameSound(Frame(d)) /\ Frame(d).k = call[d]
          /\ Frame(d).s = class[call[d].task.on] /\ call[d].task.on \in Process
      BY Typed
    <3>2. class[call[d].task.on].dependencies => class'[call[d].task.on].dependencies
      BY <1>2, <1>6, <3>1
    <3> QED BY <1>6, <2>2, <3>1, <3>2 DEF Frame, FrameSound, PastDependencies
  <2> QED BY <2>1, <2>2
<1>8. \A d \in Call : ReplySound(d)'
  BY <1>4, <1>6 DEF MetaInv, ReplySound, Waiting, Answer
<1>9. \A q \in Process :
        LacksExtra(class'[q]) => \E d \in Call : call'[d].task.on = q /\ Owes(d, call'[d])
  <2> SUFFICES ASSUME NEW q \in Process, LacksExtra(class'[q])
               PROVE  \E d \in Call : call'[d].task.on = q /\ Owes(d, call'[d])
    OBVIOUS
  <2>1. CASE q # p
    <3>1. PICK d \in Call : call[d].task.on = q /\ Owes(d, call[d])
      BY <1>6, <2>1 DEF MetaInv
    <3> QED BY <1>6, <2>1, <3>1
  <2>2. CASE q = p /\ Owes(c, g.k)
    BY <1>2, <1>6, <2>2
  <2>3. CASE q = p /\ ~Owes(c, g.k)
    <3>1. g.s.metadata = class[p].metadata /\ ~Owes(c, call[c])
      BY <1>1, <1>6, <2>3 DEF Covers
    <3>2. LacksExtra(class[p])
      BY <1>6, <2>3, <3>1 DEF LacksExtra
    <3>3. PICK d \in Call : call[d].task.on = p /\ Owes(d, call[d])
      BY <1>1, <3>2 DEF MetaInv
    <3> QED BY <1>6, <2>3, <3>1, <3>3
  <2> QED BY <2>1, <2>2, <2>3
<1> QED BY <1>5, <1>7, <1>8, <1>9 DEF MetaInv

LEMMA StartOK ==
  ASSUME MetaInv, NEW c \in Call, Start(c)
  PROVE  MetaInv'
<1> DEFINE f == Frame(c)
           g == CASE f.k.task.op = "load" -> Initialise(f)
                  [] f.k.task.op = "insert" -> Insert(f)
                  [] OTHER -> IF CacheEnabled THEN Go(f, "clear") ELSE Resolve(f)
<1>1. /\ f \in FrameType /\ f.k.pc = "new" /\ reply[c] = Waiting
      /\ Resume(c, g) /\ reply' = reply
  BY Typed DEF Start, ReplySound
<1> HIDE DEF f
<1>2. Follows(f, g) /\ (Takes(g) \/ g.s = f.s)
  BY <1>1, InitialiseFollows, InsertFollows, GoFree DEF Resolve
<1> HIDE DEF g
<1>3. Covers(c, f, g)
  BY <1>1, <1>2, FreeCovers
<1> QED BY <1>1, <1>2, <1>3, ResumeOK DEF f

LEMMA AnsweredFrame ==
  ASSUME MetaInv, NEW c \in Call, NEW pc, Answered(c, pc)
  PROVE  /\ Frame(c) \in FrameType /\ FrameSound(Frame(c)) /\ Frame(c).k.pc = pc
         /\ reply' = [reply EXCEPT ![c] = Waiting] /\ reply' # reply
         /\ reply[c].data.parts \in SUBSET Part
         /\ pc \in DbPoints /\ reply[c].st = "err" => c \in DbFaults
<1>1. /\ Frame(c) \in FrameType /\ FrameSound(Frame(c)) /\ ReplySound(c)
      /\ Frame(c).k = call[c]
  BY Typed
<1>2. call[c].pc = pc /\ reply[c] # Waiting /\ reply' = [reply EXCEPT ![c] = Waiting]
  BY DEF Answered
<1>3. reply \in [Call -> ReplyType]
  BY DEF MetaInv, MetaTypeOK
<1>4. reply[c].data.parts \in SUBSET Part
  BY <1>3 DEF ReplyType, Metadatum, Nothing, Holding
<1>5. reply' # reply
  BY <1>2, <1>3
<1> QED BY <1>1, <1>2, <1>4, <1>5 DEF ReplySound

(* A call answered at pc goes on as g.                                     *)
LEMMA AnsweredOK ==
  ASSUME MetaInv, NEW c \in Call, NEW pc, NEW g, Answered(c, pc), Resume(c, g),
         Follows(Frame(c), g), Covers(c, Frame(c), g)
  PROVE  MetaInv'
BY AnsweredFrame, ResumeOK

(* Where the call owed nothing.                                            *)
LEMMA AnsweredFree ==
  ASSUME MetaInv, NEW c \in Call, NEW g,
         NEW pc, pc \notin {"setDependencies", "showColumns", "rejected"},
         Answered(c, pc), Resume(c, g),
         Follows(Frame(c), g), Takes(g) \/ g.s = Frame(c).s
  PROVE  MetaInv'
<1>1. Frame(c).k.pc = pc
  BY AnsweredFrame
<1>2. Covers(c, Frame(c), g)
  BY <1>1, FreeCovers
<1> QED BY <1>2, AnsweredOK

LEMMA GotOK ==
  ASSUME MetaInv, NEW c \in Call, Got(c)
  PROVE  MetaInv'
<1> DEFINE f == Frame(c)
           r == reply[c]
           g == CASE r.st = "err" -> Reject(f)
                  [] r.st # "err" /\ r.data.has -> Fetched(f, r.data.parts)
                  [] OTHER -> Go(f, "add")
<1>1. f \in FrameType /\ r.data.parts \in SUBSET Part /\ Answered(c, "get") /\ Resume(c, g)
  BY AnsweredFrame DEF Got
<1>2. Follows(f, Reject(f)) /\ Reject(f).s = f.s
  BY <1>1, GoFree DEF Reject
<1>3. Follows(f, Fetched(f, r.data.parts)) /\ Takes(Fetched(f, r.data.parts))
  BY <1>1, FetchedFollows
<1>4. Follows(f, Go(f, "add")) /\ Go(f, "add").s = f.s
  BY <1>1, GoFree
<1> HIDE DEF f, r
<1>5. Follows(f, g) /\ (Takes(g) \/ g.s = f.s)
  BY <1>2, <1>3, <1>4
<1> HIDE DEF g
<1> QED BY <1>1, <1>5, AnsweredFree DEF f

LEMMA AddedOK ==
  ASSUME MetaInv, NEW c \in Call, Added(c)
  PROVE  MetaInv'
<1> DEFINE f == Frame(c)
           g == IF reply[c].st = "err" THEN Reject(f) ELSE Fetched(f, {})
<1>1. f \in FrameType /\ Answered(c, "add") /\ Resume(c, g)
  BY AnsweredFrame DEF Added
<1> HIDE DEF f
<1>2. Follows(f, g) /\ (Takes(g) \/ g.s = f.s)
  BY <1>1, GoFree, FetchedFollows DEF Reject
<1> HIDE DEF g
<1> QED BY <1>1, <1>2, AnsweredFree DEF f

LEMMA DependenciesSetOK ==
  ASSUME MetaInv, NEW c \in Call, DependenciesSet(c)
  PROVE  MetaInv'
<1> DEFINE f == Frame(c)
           g == GetExtraFields(f)
<1>1. /\ f \in FrameType /\ FrameSound(f) /\ f.k.pc = "setDependencies"
      /\ Answered(c, "setDependencies") /\ Resume(c, g)
  BY AnsweredFrame DEF DependenciesSet
<1> HIDE DEF f
<1>2. Resolved(f)
  BY <1>1 DEF FrameSound, PastDependencies, Resolved
<1>3. /\ Follows(f, g) /\ g.s = f.s
      /\ HasExtraTable /\ "extraTableFields" \notin f.k.known => Resolves(g.k)
  BY <1>1, <1>2, GetExtraFieldsFollows
<1> HIDE DEF g
<1>4. Covers(c, f, g)
  BY <1>3 DEF Covers, Owes, Resolves, LacksExtra
<1> QED BY <1>1, <1>3, <1>4, AnsweredOK DEF f

LEMMA ColumnsShownOK ==
  ASSUME MetaInv, NEW c \in Call, ColumnsShown(c)
  PROVE  MetaInv'
<1> DEFINE f == Frame(c)
           h == Extend(f, "extraTableFields")
           g == CASE reply[c].st = "err" -> Reject(f)
                  [] reply[c].st # "err" /\ CacheEnabled -> Go(h, "setExtra")
                  [] OTHER -> Ready(h)
<1>1. /\ f \in FrameType /\ FrameSound(f) /\ f.k.pc = "showColumns"
      /\ Answered(c, "showColumns") /\ Resume(c, g)
      /\ reply[c].st = "err" => c \in DbFaults
  BY AnsweredFrame, Points DEF ColumnsShown
<1> HIDE DEF f
<1>2. CASE reply[c].st = "err"
  <2>1. Follows(f, Reject(f)) /\ Reject(f).s = f.s /\ Reject(f).k.pc = "rejected"
        /\ Reject(f).k.known = f.k.known
    BY <1>1, GoFree DEF Reject
  <2>2. Covers(c, f, Reject(f))
    BY <1>1, <1>2, <2>1 DEF Covers, Owes, Resolves
  <2> QED BY <1>1, <1>2, <2>1, <2>2, AnsweredOK DEF f
<1>3. CASE reply[c].st # "err"
  <2>0. "extraTableFields" \in Part
    BY DEF Part
  <2>1. /\ h \in FrameType /\ h.k = [f.k EXCEPT !.known = @ \cup {"extraTableFields"}]
        /\ h.s.metadata = Holding(f.k.known \cup {"extraTableFields"})
        /\ h.s.dependencies = f.s.dependencies
    BY <1>1, <2>0, ExtendType
  <2> HIDE DEF h
  <2>2. /\ "extraTableFields" \in h.k.known /\ h.k.task = f.k.task
        /\ h.k.loading = f.k.loading
    BY <1>1, <2>1 DEF FrameType, MCallType
  <2>3. ~LacksExtra(h.s)
    BY <2>1 DEF LacksExtra, Holding
  <2>4. Resolved(h)
    BY <1>1, <2>1, <2>2 DEF FrameSound, PastDependencies, Resolved
  <2>5. FrameSound([h EXCEPT !.k.pc = "setExtra"])
    BY <2>1, <2>2, <2>4 DEF FrameSound, PastDependencies, FrameType, MCallType, Resolved
  <2>6. Follows(h, Go(h, "setExtra")) /\ Go(h, "setExtra").s = h.s
    BY <2>1, <2>5, GoFollows, Points
  <2>7. Follows(h, Ready(h)) /\ Ready(h).s = h.s
    BY <2>1, <2>2, <2>4, ReadyFollows
  <2>8. Follows(h, g) /\ g.s = h.s
    BY <1>3, <2>6, <2>7
  <2> HIDE DEF g
  <2>9. Follows(f, g)
    BY <2>1, <2>2, <2>8, FollowsTrans
  <2>10. Covers(c, f, g)
    BY <2>3, <2>8 DEF Covers
  <2> QED BY <1>1, <2>9, <2>10, AnsweredOK DEF f
<1> QED BY <1>2, <1>3

LEMMA ExtraSetOK ==
  ASSUME MetaInv, NEW c \in Call, ExtraSet(c)
  PROVE  MetaInv'
<1> DEFINE f == Frame(c)
<1>1. /\ f \in FrameType /\ FrameSound(f) /\ f.k.pc = "setExtra"
      /\ Answered(c, "setExtra") /\ Resume(c, Ready(f))
  BY AnsweredFrame DEF ExtraSet
<1> HIDE DEF f
<1>2. Resolved(f) /\ (HasExtraTable => "extraTableFields" \in f.k.known)
  BY <1>1 DEF FrameSound, PastDependencies, Resolved
<1>3. Follows(f, Ready(f)) /\ Ready(f).s = f.s
  BY <1>1, <1>2, ReadyFollows
<1> QED BY <1>1, <1>3, AnsweredFree DEF f

LEMMA RowInsertedOK ==
  ASSUME MetaInv, NEW c \in Call, RowInserted(c)
  PROVE  MetaInv'
<1> DEFINE f == Frame(c)
           g == IF reply[c].st = "err" THEN Reject(f) ELSE Initialise(f)
<1>1. f \in FrameType /\ Answered(c, "insertRow") /\ Resume(c, g)
  BY AnsweredFrame DEF RowInserted
<1> HIDE DEF f
<1>2. Follows(f, g) /\ (Takes(g) \/ g.s = f.s)
  BY <1>1, GoFree, InitialiseFollows DEF Reject
<1> HIDE DEF g
<1> QED BY <1>1, <1>2, AnsweredFree DEF f

LEMMA WorkedOK ==
  ASSUME MetaInv, NEW c \in Call, Worked(c)
  PROVE  MetaInv'
<1> DEFINE f == Frame(c)
           g == CASE reply[c].st = "err" -> Reject(f)
                  [] reply[c].st # "err" /\ f.k.task.op = "insert" -> InsertExtraRow(f)
                  [] OTHER -> Resolve(f)
<1>1. f \in FrameType /\ Answered(c, "work") /\ Resume(c, g)
  BY AnsweredFrame DEF Worked
<1> HIDE DEF f
<1>2. Follows(f, g) /\ g.s = f.s
  BY <1>1, GoFree, InsertExtraRowFollows DEF Reject, Resolve
<1> HIDE DEF g
<1> QED BY <1>1, <1>2, AnsweredFree DEF f

(* The last answers of an insert and of clearMetaCache.                    *)
LEMMA LastAnswerOK ==
  ASSUME MetaInv, NEW c \in Call, ExtraInserted(c) \/ Cleared(c)
  PROVE  MetaInv'
<1> DEFINE f == Frame(c)
<1>1. PICK pc \in {"insertExtra", "clear"}, g \in {Reject(f), Resolve(f)} :
        Answered(c, pc) /\ Resume(c, g)
  BY DEF ExtraInserted, Cleared
<1>2. f \in FrameType
  BY <1>1, AnsweredFrame
<1> HIDE DEF f
<1>3. Follows(f, g) /\ g.s = f.s
  BY <1>1, <1>2, GoFree DEF Reject, Resolve
<1> QED BY <1>1, <1>3, AnsweredFree DEF f

LEMMA ContinueOK ==
  ASSUME MetaInv, NEW c \in Call, Continue(c)
  PROVE  MetaInv'
BY GotOK, AddedOK, DependenciesSetOK, ColumnsShownOK, ExtraSetOK, RowInsertedOK, WorkedOK,
   LastAnswerOK DEF Continue

(* An answer changes no frame.                                             *)
LEMMA ServeOK ==
  ASSUME MetaInv, NEW c \in Call, Serve(c)
  PROVE  MetaInv'
<1>1. /\ shared \in Metadatum /\ call \in [Call -> MCallType]
      /\ reply \in [Call -> ReplyType] /\ extraRows \subseteq Call
  BY DEF MetaInv, MetaTypeOK
<1>2. /\ Answer("ok") \in ReplyType /\ Answer("err") \in ReplyType
      /\ [st |-> "ok", data |-> shared] \in ReplyType
  BY <1>1 DEF Answer, ReplyType, Metadatum
<1>3. Nothing \in Metadatum /\ Holding({}) \in Metadatum /\ Holding(call[c].known) \in Metadatum
  BY <1>1 DEF Metadatum, MCallType
<1>4. class' = class /\ call' = call
  BY DEF Serve, CacheServe, DbServe
<1>5. shared' \in Metadatum /\ extraRows' \subseteq Call
  <2>1. CASE CacheServe(c)
    BY <1>1, <1>3, <2>1 DEF CacheServe
  <2>2. CASE DbServe(c)
    BY <1>1, <2>2 DEF DbServe
  <2> QED BY <2>1, <2>2 DEF Serve
<1>6. PICK r \in ReplyType :
        /\ reply' = [reply EXCEPT ![c] = r]
        /\ call[c].pc \in CachePoints \cup DbPoints
        /\ call[c].pc \in DbPoints /\ r.st = "err" => c \in DbFaults
  <2>1. CASE CacheServe(c)
    <3>1. /\ call[c].pc \in {"get", "add", "setDependencies", "setExtra", "clear"}
          /\ \E r \in ReplyType : reply' = [reply EXCEPT ![c] = r]
      BY <1>2, <2>1, Points DEF CacheServe, Settle
    <3> QED BY <3>1, Points
  <2>2. CASE DbServe(c)
    <3>1. call[c].pc \in DbPoints
      BY <2>2 DEF DbServe
    <3>2. CASE Settle(c, Answer("ok"), c \in DbFaults)
      BY <1>2, <3>1, <3>2 DEF Settle, Answer
    <3>3. CASE c \in DbFaults /\ Settle(c, Answer("err"), FALSE)
      BY <1>2, <3>1, <3>3 DEF Settle
    <3> QED BY <2>2, <3>2, <3>3 DEF DbServe
  <2> QED BY <2>1, <2>2 DEF Serve
<1>7. MetaTypeOK'
  BY <1>1, <1>4, <1>5, <1>6 DEF MetaInv, MetaTypeOK
<1>8. \A d \in Call : FrameSound(Frame(d))'
  BY <1>4 DEF MetaInv, Frame, FrameSound, PastDependencies
<1>9. \A d \in Call : ReplySound(d)'
  <2>1. call[c].pc # "new"
    BY <1>6, Points
  <2> QED BY <1>1, <1>4, <1>6, <2>1 DEF MetaInv, ReplySound
<1> QED BY <1>4, <1>7, <1>8, <1>9 DEF MetaInv, LacksExtra, Owes, Resolves

(* A class without metadata is not poor, and the calls it loses resolve    *)
(* nothing.                                                                *)
LEMMA RestartOK ==
  ASSUME MetaInv, NEW p \in Process, Restart(p)
  PROVE  MetaInv'
<1> DEFINE gone == {c \in Call : call[c].task.on = p /\ Active(c)}
<1>1. /\ shared \in Metadatum /\ class \in [Process -> ClassType]
      /\ call \in [Call -> MCallType] /\ reply \in [Call -> ReplyType]
      /\ extraRows \subseteq Call
  BY DEF MetaInv, MetaTypeOK
<1>2. /\ shared' = shared /\ extraRows' = extraRows
      /\ class' = [class EXCEPT ![p] = Unloaded]
      /\ call' = [c \in Call |-> IF c \in gone THEN [call[c] EXCEPT !.pc = "lost"] ELSE call[c]]
      /\ reply' = [c \in Call |-> IF c \in gone THEN Waiting ELSE reply[c]]
  BY DEF Restart
<1> HIDE DEF gone
<1>3. Unloaded \in ClassType /\ Waiting \in ReplyType /\ "lost" \in Pc
  BY Points DEF Unloaded, ClassType, Metadatum, Waiting, Answer, ReplyType, Settled
<1>4. MetaTypeOK'
  BY <1>1, <1>2, <1>3 DEF MetaTypeOK, MCallType
<1>5. \A c \in Call : /\ call'[c].task = call[c].task
                      /\ call'[c].known = call[c].known
                      /\ call'[c].loading = call[c].loading
                      /\ call'[c].pc = IF c \in gone THEN "lost" ELSE call[c].pc
                      /\ reply'[c] = IF c \in gone THEN Waiting ELSE reply[c]
  BY <1>1, <1>2 DEF MCallType
<1>6. \A c \in Call : call[c].task.on = p => call'[c].pc \in Settled \cup {"new"}
  BY <1>5, Points DEF Active, gone
<1>7. \A c \in Call : call[c].task.on # p => call'[c] = call[c]
  BY <1>2 DEF gone
<1>8. \A q \in Process \ {p} : class'[q] = class[q]
  BY <1>1, <1>2
<1>9. \A c \in Call : FrameSound(Frame(c))'
  <2> SUFFICES ASSUME NEW c \in Call PROVE FrameSound(Frame(c))'
    OBVIOUS
  <2>1. CASE call[c].task.on = p
    BY <1>6, <2>1, Points DEF Frame, FrameSound, PastDependencies
  <2>2. CASE call[c].task.on # p
    <3>1. FrameSound(Frame(c)) /\ call[c].task.on \in Process
      BY Typed
    <3>2. call'[c] = call[c] /\ class'[call[c].task.on] = class[call[c].task.on]
      BY <1>7, <1>8, <2>2, <3>1
    <3> QED BY <3>1, <3>2 DEF Frame, FrameSound, PastDependencies
  <2> QED BY <2>1, <2>2
<1>10. \A c \in Call : ReplySound(c)'
  BY <1>5, Points DEF MetaInv, ReplySound, Waiting, Answer
<1>11. \A q \in Process :
         LacksExtra(class'[q]) => \E c \in Call : call'[c].task.on = q /\ Owes(c, call'[c])
  <2> SUFFICES ASSUME NEW q \in Process, LacksExtra(class'[q])
               PROVE  \E c \in Call : call'[c].task.on = q /\ Owes(c, call'[c])
    OBVIOUS
  <2>1. q # p
    BY <1>1, <1>2 DEF LacksExtra, Unloaded, Nothing
  <2>2. PICK c \in Call : call[c].task.on = q /\ Owes(c, call[c])
    BY <1>8, <2>1 DEF MetaInv
  <2> QED BY <1>7, <2>1, <2>2
<1> QED BY <1>4, <1>9, <1>10, <1>11 DEF MetaInv

LEMMA NextOK ==
  ASSUME MetaInv, [Next]_mvars
  PROVE  MetaInv'
<1>1. CASE UNCHANGED mvars \/ Quiet
  BY <1>1 DEF mvars, Quiet, MetaInv, MetaTypeOK, Frame, FrameSound, PastDependencies,
     ReplySound, LacksExtra, Owes, Resolves
<1>2. CASE Evict
  BY <1>2 DEF Evict, MetaInv, MetaTypeOK, Metadatum, Frame, FrameSound, PastDependencies,
     ReplySound, LacksExtra, Owes, Resolves
<1>3. CASE \E c \in Call : Start(c) \/ Serve(c) \/ Continue(c)
  BY <1>3, StartOK, ServeOK, ContinueOK
<1>4. CASE \E p \in Process : Restart(p)
  BY <1>4, RestartOK
<1> QED BY <1>1, <1>2, <1>3, <1>4 DEF Next

LEMMA InitOK ==
  ASSUME Init
  PROVE  MetaInv
<1>1. /\ shared = Nothing /\ class = [p \in Process |-> Unloaded]
      /\ reply = [c \in Call |-> Waiting] /\ extraRows = {}
  BY DEF Init
<1>2. PICK task : /\ \A c \in Call : task[c] \in Task[c]
                  /\ call = [c \in Call |-> [task |-> task[c], pc |-> "new", known |-> {},
                                             loading |-> FALSE]]
  BY DEF Init
<1>3. \A c \in Call : task[c] \in TaskType
  BY <1>2 DEF MetadataAssumption
<1>4. call \in [Call -> MCallType]
  BY <1>2, <1>3, Points DEF MCallType
<1>5. Nothing \in Metadatum /\ Unloaded \in ClassType /\ Waiting \in ReplyType
  BY DEF Metadatum, Unloaded, ClassType, Waiting, Answer, ReplyType
<1>6. MetaTypeOK
  BY <1>1, <1>4, <1>5 DEF MetaTypeOK
<1>7. \A c \in Call : call[c].pc = "new" /\ call[c].task.on \in Process
  BY <1>2, <1>3 DEF TaskType
<1>8. \A c \in Call : FrameSound(Frame(c)) /\ ReplySound(c)
  BY <1>1, <1>7, Points DEF Frame, FrameSound, PastDependencies, ReplySound
<1>9. \A p \in Process : ~LacksExtra(class[p])
  BY <1>1 DEF LacksExtra, Unloaded, Nothing
<1> QED BY <1>6, <1>8, <1>9 DEF MetaInv

-----------------------------------------------------------------------------
(* The invariant the theorems below rest on: what the frames of the calls  *)
(* and the poor classes hold between two steps.                            *)
THEOREM MetaInvariant == Spec => []MetaInv
<1>1. Init => MetaInv
  BY InitOK
<1>2. MetaInv /\ [Next]_mvars => MetaInv'
  BY NextOK
<1> QED BY <1>1, <1>2, PTL DEF Spec

(* The statics, the shared item, the calls and their promises hold what    *)
(* the code of getMetadata, resolveDependencies and getExtraFields can     *)
(* put there.                                                              *)
THEOREM MetaTypeCorrect == Spec => []MetaTypeOK
<1>1. MetaInv => MetaTypeOK
  BY DEF MetaInv
<1> QED BY <1>1, MetaInvariant, PTL

(* Whatever calls, processes, evictions and errors there are, a call that  *)
(* reads or writes rows has the extra table's columns in its metadata and  *)
(* the dependencies of its class resolved.                                 *)
THEOREM ReadyResolved == Spec => []ReadyMeansResolved
<1>1. ASSUME MetaInv
      PROVE  ReadyMeansResolved
  BY <1>1 DEF MetaInv, ReadyMeansResolved, Frame, FrameSound, PastDependencies
<1> QED BY <1>1, MetaInvariant, PTL

(* A class lacks the columns only while one of its calls is to provide     *)
(* them, or after the SHOW COLUMNS of one failed.                          *)
THEOREM PoorResolved == Spec => []PoorOnlyWhileResolving
<1>1. ASSUME MetaInv
      PROVE  PoorOnlyWhileResolving
  BY <1>1 DEF MetaInv, PoorOnlyWhileResolving, Poor, Resolving, GaveUp, LacksExtra, Owes, Resolves
<1> QED BY <1>1, MetaInvariant, PTL
=============================================================================
