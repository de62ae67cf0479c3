--------------------------- MODULE KeyProperties ----------------------------
(***************************************************************************)
(* Properties of RecordKeys: the cache key and the WHERE clause address    *)
(* the same row.                                                           *)
(***************************************************************************)
EXTENDS RecordKeys

(* What load serves, from the cache or not, is a row its key values        *)
(* select: no other row's record is under the cache key made of them.      *)
ServesItsRow == last.got.is = "record" => KeyClause(last.kv, last.got.row)

(* delete invalidates the cache ("Deletes the record from the database and *)
(* invalidates the cache."): no entry holds a row that is gone, whatever   *)
(* way of writing its key values the record was loaded and deleted under.  *)
CachedRowsExist ==
  \A key \in DOMAIN cache : cache[key].is = "record" => cache[key].row \in rows

(* An insert that does not reject returns the record of the row it wrote,  *)
(* whether the key was given or generated: the key values made from data   *)
(* and insertId are that row's and no other's.  Where the caller gave a    *)
(* field of the key as null, which buildKeyValuesFromInsert takes for a    *)
(* value while MySQL generates another, it returns no record at all.       *)
InsertLoadsInserted ==
  last.op = "insert" /\ last.got # Rejected =>
    IF last.null THEN last.got = None
    ELSE last.got.is = "record" /\ KeyValuesOf(last.got.row, primaryKey) = last.kv
=============================================================================
