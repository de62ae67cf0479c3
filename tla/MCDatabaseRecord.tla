-------------------------- MODULE MCDatabaseRecord --------------------------
(***************************************************************************)
(* Small instances of DatabaseRecord for TLC: a base table with columns    *)
(* "name" and "age", "label" derived from both, and an extra table with    *)
(* the column "bio", and in run writer "tag".                              *)
(***************************************************************************)
EXTENDS RecordConsistency, TLC

MCBase == {"name", "age"}
MCDerived == {"label"}
MCParents == [d \in MCDerived |-> MCBase]
MCValue == {"x", "y"}
MCLiteral == {"sql()"}
MCComputed == [d \in MCDerived |->
  [v \in [MCBase -> MCValue \cup {"NULL"}] |->
     IF v["name"] = "NULL" THEN "NULL" ELSE IF v["name"] = v["age"] THEN "x" ELSE "y"]]

MCRow == [has |-> TRUE, col |-> [f \in MCBase |-> "x"]]
MCNoRow == [MCRow EXCEPT !.has = FALSE]
MCRows == {MCRow}
MCNoRows == {MCNoRow}
MCRowOrNot == {MCRow, MCNoRow}
MCExtras(has) == {[has |-> has, col |-> [f \in ExtraField |-> "y"]]}
MCNoExtras == MCExtras(FALSE)
MCOneExtra == MCExtras(TRUE)
MCSomeExtras == MCExtras(FALSE) \cup MCExtras(TRUE)

(* The update {f: v}.                                                      *)
To(f, v) == [Blank EXCEPT !.col[f] = v]

Do(op, i, u) == [op |-> op, on |-> i, arg |-> u,
                 mark |-> FALSE, force |-> FALSE, throws |-> FALSE]
Load(i) == Do("load", i, Blank)
ForceLoad(i) == [Load(i) EXCEPT !.force = TRUE]
Updates(i, S, V) == {Do("update", i, To(f, v)) : f \in S, v \in V}
Delete(i) == [Do("delete", i, Blank) EXCEPT !.mark = TRUE]

(* Two writers of different columns, the first of which updates twice, and *)
(* a reader that may come at any time.                                     *)
CoherentTasks ==
  "l1" :> {Load("i1")} @@ "l2" :> {Load("i2")} @@
  "u1" :> Updates("i1", {"name"}, {"y", "NULL"}) @@
  "u2" :> Updates("i2", {"age"}, {"y"}) @@
  "u3" :> Updates("i1", {"name"}, {"x"}) @@
  "r" :> {Load("i3")}

(* A writer contends with any method of another instance, which may have   *)
(* been loaded with forceRead.                                             *)
ReadExtra(i) == Do("readExtra", i, Blank)
ContendedTasks ==
  "l1" :> {Load("i1")} @@ "l2" :> {Load("i2"), ForceLoad("i2")} @@
  "m1" :> Updates("i1", {"name"}, {"y", "NULL", "sql()"}) \cup Updates("i1", {"bio"}, {"y"})
          \cup {ReadExtra("i1")} @@
  "m2" :> Updates("i2", {"name", "age"}, {"y"})
          \cup {Delete("i2"), Do("unCache", "i2", Blank), ReadExtra("i2")}

(* A record is inserted, or loaded, and updated twice over one instance,   *)
(* with the extra table, while others load it.                             *)
Insert(i, u) == Do("insert", i, u)
NameAndBio(v) == [Blank EXCEPT !.col = [@ EXCEPT !["name"] = v, !["bio"] = v]]
WriterTasks ==
  "l1" :> {Insert("i1", NameAndBio("x")), Load("i1")} @@
  "u1" :> Updates("i1", {"name", "bio"}, {"y", "NULL"}) \cup {ReadExtra("i1")} @@
  "u2" :> Updates("i1", {"name", "bio"}, {"x", "NULL"})
          \cup {Do("update", "i1", NameAndBio("y"))} @@
  "l2" :> {Load("i2")}

(* Whatever can fail does: the database, the cache, listeners, and the     *)
(* INSERT of an extra row, given an expression or when another comes first.*)
Throwing(t) == [t EXCEPT !.throws = TRUE]
FailingTasks ==
  "l1" :> {Insert("i1", NameAndBio("x")), Insert("i1", To("name", "x"))} @@
  "m1" :> {Do("update", "i1", NameAndBio("y")), Throwing(Delete("i1"))}
          \cup Updates("i1", {"bio"}, {"sql()"}) @@
  "l2" :> {Load("i2")} @@
  "m2" :> Updates("i2", {"bio"}, {"y"})

(* Two instances update the same column.                                   *)
SameColumnTasks ==
  "l1" :> {Load("i1")} @@ "l2" :> {Load("i2")} @@
  "u1" :> Updates("i1", {"name"}, {"y"}) @@ "u2" :> Updates("i2", {"name"}, {"NULL"})

(* One instance is loaded while another updates the record; with one       *)
(* method of each instance after the other.                                *)
LoadTasks ==
  "l1" :> {Load("i1")} @@ "l2" :> {Load("i2")} @@ "u1" :> Updates("i1", {"age"}, {"y"})
DeleteTasks == "l1" :> {Load("i1")} @@ "l2" :> {Load("i2")} @@ "d1" :> {Delete("i1")}

(* One instance, one method after the other.                               *)
TwoUpdateTasks ==
  "l1" :> {Load("i1")} @@
  "u1" :> Updates("i1", {"name"}, {"y"}) @@ "u2" :> Updates("i1", {"name"}, {"x", "y"})
=============================================================================
