------------------------- MODULE MetadataProperties -------------------------
(***************************************************************************)
(* Properties of Metadata: what a call may rely on once its metadata is    *)
(* resolved, and how poor the metadata of a class may become when several  *)
(* first calls resolve it at once.                                         *)
(***************************************************************************)
EXTENDS Metadata

(* Every variable holds what the code can put there.                       *)
MetaTypeOK ==
  /\ shared \in Metadatum
  /\ class \in [Process -> ClassType]
  /\ call \in [Call -> MCallType]
  /\ reply \in [Call -> ReplyType]
  /\ extraRows \subseteq Call

(* When a call reads or writes rows, its instance knows the columns of the *)
(* extra table, and the dependencies of the class are resolved, whatever   *)
(* other calls, processes, evictions and errors did to the metadata in the *)
(* meantime.  This is what module DatabaseRecord takes for granted.        *)
ReadyMeansResolved ==
  \A c \in Call :
    /\ call[c].pc \in {"insertRow", "work"} /\ HasExtraTable =>
         "extraTableFields" \in call[c].known
    /\ call[c].pc = "work" /\ HasDerived => class[call[c].task.on].dependencies

(* A process lacks the columns of the extra table, after it had metadata,  *)
(* only while one of its calls is about to provide them: getMetadata and   *)
(* resolveDependencies may replace a complete object by a poorer one, but  *)
(* the call that does so goes on to SHOW COLUMNS.  Only a call whose SHOW  *)
(* COLUMNS failed leaves the poor object behind.                           *)
Poor(p) ==
  /\ HasExtraTable
  /\ class[p].metadata.has
  /\ "extraTableFields" \notin class[p].metadata.parts

Resolving(c) == call[c].pc \in {"setDependencies", "showColumns"}
GaveUp(c) ==
  /\ c \in DbFaults /\ call[c].pc = "rejected"
  /\ "extraTableFields" \notin call[c].known

PoorOnlyWhileResolving ==
  \A p \in Process : Poor(p) =>
    \E c \in Call : call[c].task.on = p /\ (Resolving(c) \/ GaveUp(c))

(* Whatever was started settles, or its process restarts: a call that      *)
(* resolves metadata waits for no other call that does.  (A call runs      *)
(* once, so this is about each of them.)                                   *)
EveryCallSettles == <>[](\A c \in Call : ~Active(c))

(* An insert that resolves has written its columns of the extra table      *)
(* ("Inserts a new row (and optional extra row)").                         *)
InsertKeepsExtra ==
  \A c \in Call :
    call[c].task.op = "insert" /\ call[c].pc = "resolved" /\ HasExtraTable =>
      c \in extraRows
=============================================================================
