------------------------------ MODULE Metadata ------------------------------
(***************************************************************************)
(* The table metadata of a DatabaseRecord class: what each process keeps   *)
(* in the statics metadata and dependencies, the metadata item all         *)
(* processes share in Memcached, and the calls that resolve them first.    *)
(*                                                                         *)
(* DatabaseRecord takes metadata to be resolved when a method runs; here   *)
(* is how it gets there.  A metadata object is the set of the parts it     *)
(* has; the parts themselves never differ (the schema does not change).    *)
(*                                                                         *)
(* Only the awaits that order accesses to metadata are kept apart: what    *)
(* load does before getMetadata only delays it, and loadFromDatabase and   *)
(* writeToCache are one await, "work".                                     *)
(***************************************************************************)
EXTENDS Naturals

CONSTANTS
  Process,       (* Node processes that use the class.                     *)
  Call,          (* Calls of load, insert and clearMetaCache.              *)
  Task,          (* What each call may be: Task[c] is a set of TaskType.   *)
  HasDerived,    (* Does the class declare derivedFields?                  *)
  HasExtraTable, (* Does it declare extraTableName?                        *)
  CacheEnabled,  (* Cache.isEnabled().                                     *)
  CacheFaults,   (* The calls whose cache requests may be rejected.        *)
  DbFaults,      (* The calls whose statements may be rejected.            *)
  Evictions,     (* May Memcached drop the item?                           *)
  Restarting     (* The processes that may end and start anew.             *)

Part == {"dependencies", "extraTableFields"}

(* cached: load finds the record in Memcached.  An insert has columns of   *)
(* the extra table.                                                        *)
TaskType == [op: {"load", "insert", "clear"}, on: Process, cached: BOOLEAN]

ASSUME MetadataAssumption ==
  /\ Task \in [Call -> SUBSET TaskType]
  /\ CacheFaults \subseteq Call /\ DbFaults \subseteq Call
  /\ Restarting \subseteq Process
  /\ {HasDerived, HasExtraTable, CacheEnabled, Evictions} \subseteq BOOLEAN

VARIABLES
  shared,   (* The metadata item in Memcached.                             *)
  class,    (* The statics of the class, in each process.                  *)
  call,     (* The calls and their locals.                                 *)
  reply,    (* The promise each call awaits.                               *)
  extraRows (* The inserts whose row of the extra table was written.       *)

mvars == <<shared, class, call, reply, extraRows>>

(* A metadata object, or null.                                             *)
Nothing == [has |-> FALSE, parts |-> {}]
Holding(parts) == [has |-> TRUE, parts |-> parts]
Metadatum == {Nothing} \cup {Holding(parts) : parts \in SUBSET Part}

ClassType == [metadata: Metadatum, dependencies: BOOLEAN]
Unloaded == [metadata |-> Nothing, dependencies |-> FALSE]

CachePoints == {"get", "add", "setDependencies", "setExtra", "clear"}
DbPoints == {"showColumns", "insertRow", "work", "insertExtra"}
Settled == {"resolved", "rejected", "lost"}
Pc == CachePoints \cup DbPoints \cup Settled \cup {"new"}

(* known: the metadata object the call works with (this.metadata of its    *)
(* instance).  loading: is it past insert's own statement?                 *)
MCallType == [task: TaskType, pc: Pc, known: SUBSET Part, loading: BOOLEAN]

ReplyType == [st: {"wait", "ok", "err"}, data: Metadatum]
Answer(st) == [st |-> st, data |-> Nothing]
Waiting == Answer("wait")

-----------------------------------------------------------------------------
(* Code from one await to the next, as functions of a frame: f.k is the    *)
(* call, f.s the statics of the class in its process.                      *)

Frame(c) == [k |-> call[c], s |-> class[call[c].task.on]]

Go(f, pc) == [f EXCEPT !.k.pc = pc]
Resolve(f) == Go(f, "resolved")
Reject(f) == Go(f, "rejected")

(* The metadata is complete: insert sends its statement, load reads.       *)
Ready(f) ==
  CASE ~f.k.loading -> Go(f, "insertRow")
    [] f.k.loading /\ f.k.task.op = "load" /\ f.k.task.cached -> Resolve(f)
    [] OTHER -> Go(f, "work")

(* Fault for a mutant: the class keeps the object it had.                  *)
ExtendInstance(f, part) == [f EXCEPT !.k.known = @ \cup {part}]
(* this.metadata = {...metadata, part}, on the instance and on the class.  *)
Extend(f, part) ==
  LET parts == f.k.known \cup {part}
  IN  [f EXCEPT !.k.known = parts, !.s.metadata = Holding(parts)]

(* Fault for a mutant: the class's metadata is asked instead of the        *)
(* object at hand.                                                         *)
GetExtraFieldsOfClass(f) ==
  IF ~HasExtraTable \/ "extraTableFields" \in f.s.metadata.parts
  THEN Ready(f)
  ELSE Go(f, "showColumns")

GetExtraFields(f) ==
  IF ~HasExtraTable \/ "extraTableFields" \in f.k.known
  THEN Ready(f)
  ELSE Go(f, "showColumns")

(* resolveDependencies, and the end of initialise's metadata.              *)
ResolveDependencies(f) ==
  CASE ~HasDerived \/ f.s.dependencies -> GetExtraFields(f)
    [] HasDerived /\ ~f.s.dependencies /\ "dependencies" \in f.k.known ->
         GetExtraFields([f EXCEPT !.s.dependencies = TRUE])
    [] OTHER ->
         LET g == Extend([f EXCEPT !.s.dependencies = TRUE], "dependencies")
         IN  IF CacheEnabled THEN Go(g, "setDependencies") ELSE GetExtraFields(g)

(* getMetadata has returned.                                               *)
Known(f) ==
  LET g == [f EXCEPT !.k.known = f.s.metadata.parts]
  IN  IF f.k.loading THEN ResolveDependencies(g) ELSE GetExtraFields(g)

(* Fault for a mutant: the parts are assigned to an object that may be     *)
(* null.                                                                   *)
FetchedInto(f, parts) == Known([f EXCEPT !.s.metadata.parts = parts])
(* getMetadata keeps what it fetched.                                      *)
Fetched(f, parts) == Known([f EXCEPT !.s.metadata = Holding(parts)])

GetMetadata(f) ==
  CASE f.s.metadata.has -> Known(f)
    [] ~f.s.metadata.has /\ CacheEnabled -> Go(f, "get")
    [] OTHER -> Fetched(f, {})

Initialise(f) == GetMetadata([f EXCEPT !.k.loading = TRUE])

Insert(f) == IF HasExtraTable THEN GetMetadata(f) ELSE Go(f, "insertRow")

(* insert, once its instance is loaded: extractExtraTableData finds the    *)
(* columns of the extra table in the metadata the class has now.           *)
InsertExtraRow(f) ==
  IF HasExtraTable /\ "extraTableFields" \in f.s.metadata.parts
  THEN Go(f, "insertExtra")
  ELSE Resolve(f)

-----------------------------------------------------------------------------
Active(c) == call[c].pc \notin Settled \cup {"new"}

Resume(c, f) ==
  /\ call' = [call EXCEPT ![c] = f.k]
  /\ class' = [class EXCEPT ![f.k.task.on] = f.s]
  /\ UNCHANGED <<shared, extraRows>>

Start(c) ==
  LET f == Frame(c)
  IN  /\ call[c].pc = "new"
      /\ Resume(c, CASE f.k.task.op = "load" -> Initialise(f)
                     [] f.k.task.op = "insert" -> Insert(f)
                     [] OTHER -> IF CacheEnabled THEN Go(f, "clear") ELSE Resolve(f))
      /\ UNCHANGED reply

(* The servers.                                                            *)
Settle(c, r, lossy) ==
  \E s \in {r} \cup (IF lossy THEN {Answer("err")} ELSE {}) :
    reply' = [reply EXCEPT ![c] = s]

CacheServe(c) ==
  LET k == call[c]
  IN  /\ reply[c] = Waiting
      /\ UNCHANGED <<class, call, extraRows>>
      /\ \/ /\ k.pc = "get"
            /\ Settle(c, [st |-> "ok", data |-> shared], FALSE)
            /\ UNCHANGED shared
         \/ /\ k.pc = "add"
            /\ shared' = IF shared.has THEN shared ELSE Holding({})
            /\ Settle(c, Answer("ok"), c \in CacheFaults)
         \/ /\ k.pc \in {"setDependencies", "setExtra"}
            /\ shared' = Holding(k.known)
            /\ Settle(c, Answer("ok"), c \in CacheFaults)
         \/ /\ k.pc = "clear"
            /\ shared' = Nothing
            /\ Settle(c, Answer("ok"), c \in CacheFaults)
         \/ /\ k.pc \in CachePoints /\ c \in CacheFaults
            /\ Settle(c, Answer("err"), FALSE)
            /\ UNCHANGED shared

DbServe(c) ==
  LET k == call[c]
  IN  /\ reply[c] = Waiting
      /\ UNCHANGED <<shared, class, call>>
      /\ \/ /\ k.pc \in DbPoints
            /\ extraRows' = IF k.pc = "insertExtra" THEN extraRows \cup {c} ELSE extraRows
            /\ Settle(c, Answer("ok"), c \in DbFaults)
         \/ /\ k.pc \in DbPoints /\ c \in DbFaults
            /\ Settle(c, Answer("err"), FALSE)
            /\ UNCHANGED extraRows

Serve(c) == CacheServe(c) \/ DbServe(c)

-----------------------------------------------------------------------------
(* One action per await: the code from the answer to the next await.       *)
Answered(c, pc) ==
  /\ call[c].pc = pc
  /\ reply[c] # Waiting
  /\ reply' = [reply EXCEPT ![c] = Waiting]

(* Fault for a mutant: an error of the cache is tried again.               *)
GotOrRetry(c) ==
  LET f == Frame(c)  r == reply[c]
  IN  /\ Answered(c, "get")
      /\ Resume(c, CASE r.st = "err" -> Go(f, "get")
                     [] r.st # "err" /\ r.data.has -> Fetched(f, r.data.parts)
                     [] OTHER -> Go(f, "add"))

(* getMetadata catches no error of the cache.                              *)
Got(c) ==
  LET f == Frame(c)  r == reply[c]
  IN  /\ Answered(c, "get")
      /\ Resume(c, CASE r.st = "err" -> Reject(f)
                     [] r.st # "err" /\ r.data.has -> Fetched(f, r.data.parts)
                     [] OTHER -> Go(f, "add"))

Added(c) ==
  LET f == Frame(c)
  IN  /\ Answered(c, "add")
      /\ Resume(c, IF reply[c].st = "err" THEN Reject(f) ELSE Fetched(f, {}))

(* cacheMetadata catches every error.                                      *)
DependenciesSet(c) ==
  /\ Answered(c, "setDependencies")
  /\ Resume(c, GetExtraFields(Frame(c)))

ColumnsShown(c) ==
  LET f == Frame(c)  g == Extend(f, "extraTableFields")
  IN  /\ Answered(c, "showColumns")
      /\ Resume(c, CASE reply[c].st = "err" -> Reject(f)
                     [] reply[c].st # "err" /\ CacheEnabled -> Go(g, "setExtra")
                     [] OTHER -> Ready(g))

ExtraSet(c) ==
  /\ Answered(c, "setExtra")
  /\ Resume(c, Ready(Frame(c)))

RowInserted(c) ==
  LET f == Frame(c)
  IN  /\ Answered(c, "insertRow")
      /\ Resume(c, IF reply[c].st = "err" THEN Reject(f) ELSE Initialise(f))

Worked(c) ==
  LET f == Frame(c)
  IN  /\ Answered(c, "work")
      /\ Resume(c, CASE reply[c].st = "err" -> Reject(f)
                     [] reply[c].st # "err" /\ f.k.task.op = "insert" -> InsertExtraRow(f)
                     [] OTHER -> Resolve(f))

ExtraInserted(c) ==
  LET f == Frame(c)
  IN  /\ Answered(c, "insertExtra")
      /\ Resume(c, IF reply[c].st = "err" THEN Reject(f) ELSE Resolve(f))

Cleared(c) ==
  /\ Answered(c, "clear")
  /\ Resume(c, Resolve(Frame(c)))

Continue(c) ==
  \/ Got(c) \/ Added(c) \/ DependenciesSet(c) \/ ColumnsShown(c) \/ ExtraSet(c)
  \/ RowInserted(c) \/ Worked(c) \/ ExtraInserted(c) \/ Cleared(c)

-----------------------------------------------------------------------------
Evict ==
  /\ Evictions /\ shared.has
  /\ shared' = Nothing
  /\ UNCHANGED <<class, call, reply, extraRows>>

(* The process ends and starts anew: statics and calls are gone.           *)
Restart(p) ==
  /\ p \in Restarting
  /\ class[p] # Unloaded
  /\ class' = [class EXCEPT ![p] = Unloaded]
  /\ LET gone == {c \in Call : call[c].task.on = p /\ Active(c)}
     IN  /\ call' = [c \in Call |-> IF c \in gone THEN [call[c] EXCEPT !.pc = "lost"] ELSE call[c]]
         /\ reply' = [c \in Call |-> IF c \in gone THEN Waiting ELSE reply[c]]
  /\ UNCHANGED <<shared, extraRows>>

Init ==
  /\ shared = Nothing
  /\ class = [p \in Process |-> Unloaded]
  /\ reply = [c \in Call |-> Waiting]
  /\ extraRows = {}
  /\ \E task \in [Call -> UNION {Task[c] : c \in Call}] :
       /\ \A c \in Call : task[c] \in Task[c]
       /\ call = [c \in Call |-> [task |-> task[c], pc |-> "new", known |-> {},
                                  loading |-> FALSE]]

(* Every call was made and has settled.                                    *)
Quiet == (\A c \in Call : call[c].pc \in Settled) /\ UNCHANGED mvars

Next ==
  \/ \E c \in Call : Start(c) \/ Serve(c) \/ Continue(c)
  \/ Evict
  \/ \E p \in Process : Restart(p)
  \/ Quiet

Spec == Init /\ [][Next]_mvars

(* Each server answers in the end, or its client reports an error, and     *)
(* the event loop runs what was answered.                                  *)
FairSpec == Spec /\ \A c \in Call : WF_mvars(Serve(c)) /\ WF_mvars(Continue(c))
=============================================================================
