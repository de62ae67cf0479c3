---------------------------- MODULE RecordTypes ----------------------------
(***************************************************************************)
(* The data that DatabaseRecord moves between MySQL, Memcached and its     *)
(* instances, for ONE row of a table: the columns of the base table, of    *)
(* the extra table, and the computed columns derived from base columns.    *)
(*                                                                         *)
(* A payload is what the code calls RecordPayload: the columns it holds,   *)
(* the primary key it holds, and the flag extraTableRead.  The             *)
(* decorations cacheTimestamp and cacheExpires are left out: the code      *)
(* never decides anything on them.                                         *)
(***************************************************************************)
EXTENDS Naturals

CONSTANTS
  BaseField,     (* Columns of tableName.                                  *)
  ExtraField,    (* Columns of extraTableName; {} when there is none.      *)
  DerivedField,  (* Keys of derivedFields, selected by computedFields().   *)
  Parents,       (* derivedFields: the base columns each is computed from. *)
  Computed,      (* What its SQL expression makes of the parents' values.  *)
  Value,         (* Column values.                                         *)
  Literal,       (* SqlExpression objects made by DatabaseRecord.literal.  *)
  Null,          (* SQL NULL and JavaScript null.                          *)
  Absent,        (* The property is not there (undefined).                 *)
  ExtraDefault,  (* Default that getExtraFields reports for extra columns. *)
  ExtraOmitted,  (* What MySQL puts in extra columns that an INSERT omits. *)
  SharedExtraKey (* Has the key column of the extra table the name of the  *)
                 (* primary key, as when extraPrimaryKey is not declared?  *)

ASSUME FieldAssumption ==
  /\ BaseField \cap ExtraField = {}
  /\ BaseField \cap DerivedField = {}
  /\ ExtraField \cap DerivedField = {}
  /\ Parents \in [DerivedField -> SUBSET BaseField]

ASSUME CellAssumption ==
  /\ Null \notin Value
  /\ Absent \notin Value \cup {Null}
  /\ Literal \cap (Value \cup {Null, Absent}) = {}
  /\ ExtraDefault \in Value      \* no default is reported as ""
  /\ ExtraOmitted \in Value \cup {Null}

Field == BaseField \cup ExtraField \cup DerivedField
DbCell == Value \cup {Null}
Cell == DbCell \cup Literal \cup {Absent}

(* The derived column d of a row with these columns.                       *)
Derived(d, col) == Computed[d][[q \in Parents[d] |-> col[q]]]

ASSUME SharedAssumption == SharedExtraKey \in BOOLEAN

ASSUME ComputedAssumption ==
  \A d \in DerivedField : Computed[d] \in [[Parents[d] -> DbCell] -> DbCell]

(* The primary key in a payload: none, the key of the record, or the       *)
(* default of a column of that name, which is the key of another row or of *)
(* none.                                                                   *)
KeyCell == {"none", "own", "default"}

Payload == [col: [Field -> Cell], id: KeyCell, extraTableRead: BOOLEAN]

Blank == [col |-> [f \in Field |-> Absent], id |-> "none", extraTableRead |-> FALSE]

(* A row of each table; col is arbitrary while has is FALSE.               *)
Row == [has: BOOLEAN, col: [BaseField -> DbCell]]
ExtraRow == [has: BOOLEAN, col: [ExtraField -> DbCell]]

Touched(u) == {f \in Field : u.col[f] # Absent}

(* The dependency map that resolveDependencies builds by inverting         *)
(* derivedFields, for the fields of an update.                             *)
Dependents(u) == {d \in DerivedField : \E q \in Parents[d] : u.col[q] # Absent}

(* Object.assign(this.record, update).                                     *)
MergeRecord(p, u) ==
  [col |-> [f \in Field |-> IF u.col[f] = Absent THEN p.col[f] ELSE u.col[f]],
   id |-> IF u.id = "none" THEN p.id ELSE u.id,
   extraTableRead |-> p.extraTableRead \/ u.extraTableRead]

(* Fault for a mutant: the derived columns of an updated parent are kept.  *)
ApplyUpdateKeepingDerived(p, u) ==
  [MergeRecord(p, u) EXCEPT !.col =
     [f \in Field |-> IF u.col[f] = Null THEN Absent ELSE @[f]]]

(* The cache candidate: null removes the property, and so does an update   *)
(* of a parent of a derived column.                                      *)
ApplyUpdate(p, u) ==
  [MergeRecord(p, u) EXCEPT !.col =
     [f \in Field |->
        IF f \in Dependents(u) \/ u.col[f] = Null THEN Absent ELSE @[f]]]

(* Fault for a mutant: null is taken for undefined.                        *)
SanitiseDroppingNull(u, p) ==
  [u EXCEPT !.col = [f \in Field |->
     IF @[f] = p.col[f] \/ @[f] = Null THEN Absent ELSE @[f]]]

(* Columns whose value differs from the instance's view.  A SqlExpression  *)
(* is a new object each time, so !== holds for it whatever the view is.    *)
Sanitise(u, p) ==
  [u EXCEPT !.extraTableRead = FALSE,
            !.col = [f \in Field |->
              IF @[f] = p.col[f] /\ @[f] \notin Literal THEN Absent ELSE @[f]]]

(* The payload made of a selected row: base and computed columns, and      *)
(* extraTableRead = false.                                                 *)
DecorateRecord(r) ==
  [col |-> [f \in Field |-> CASE f \in BaseField -> r.col[f]
                              [] f \in DerivedField -> Derived(f, r.col)
                              [] OTHER -> Absent],
   id |-> "own", extraTableRead |-> FALSE]

(* The update readExtraData merges when there is an extra row: its columns *)
(* but the key.                                                            *)
ExtraPayload(cells) ==
  [Blank EXCEPT !.col = [f \in Field |-> IF f \in ExtraField THEN cells[f] ELSE Absent],
                !.extraTableRead = TRUE]

ExtraTableDefaults == [f \in ExtraField |-> ExtraDefault]

(* The update it merges when there is none: getExtraFields has the default *)
(* of every column of the extra table, also of its key column.             *)
DefaultsPayload ==
  [ExtraPayload(ExtraTableDefaults) EXCEPT
     !.id = IF SharedExtraKey THEN "default" ELSE "none"]

(* Fault for a mutant: every column is assigned, also those not given.     *)
AssignAll(cols, u, v) ==
  [f \in DOMAIN cols |-> IF u.col[f] \in Literal THEN v ELSE u.col[f]]

(* What SET assigns to the columns of one table, when the SQL expressions  *)
(* of the update evaluate to v.                                            *)
Assign(cols, u, v) ==
  [f \in DOMAIN cols |-> CASE u.col[f] = Absent -> cols[f]
                           [] u.col[f] \in Literal -> v
                           [] OTHER -> u.col[f]]
=============================================================================
