----------------------------- MODULE RecordKeys ------------------------------
(***************************************************************************)
(* How DatabaseRecord addresses rows: the cache key and the WHERE clause   *)
(* made of the same key values, and the key values that insert makes for   *)
(* the row it wrote.  One table with several rows, and the Memcached items *)
(* of its records.                                                         *)
(*                                                                         *)
(* Operations are single steps here: their interleavings on one row are    *)
(* the subject of DatabaseRecord.  A string is a sequence of tokens, which *)
(* are characters, names of fields and the dot.  When the class has an     *)
(* extra table, the name of that table's key column is one of its own:     *)
(* otherwise getExtraFields has the primary key too, an insert that gives  *)
(* the key leaves it out of its first statement, and rejects at the second.*)
(***************************************************************************)
EXTENDS Naturals, FiniteSets, SequencesExt

CONSTANTS
  PrimaryKeys,   (* What static primaryKey may be: sequences of fields.    *)
  Token,         (* Tokens that strings are made of.                       *)
  LowerCase,     (* toLowerCase of a token.                                *)
  Value,         (* Values of key columns: strings.                        *)
  IgnoresCase,   (* Do the columns' collations ignore case?                *)
  AnyOrder,      (* May callers give the key's fields in any order?        *)
  MaxOps         (* Bound of the model: operations.                        *)

Dot == "."

ASSUME KeyAssumption ==
  /\ LowerCase \in [Token -> Token]
  /\ Dot \in Token
  /\ Value \subseteq Seq(Token) /\ {"absent", "sql", "null"} \cap Token = {}
  /\ PrimaryKeys \subseteq Seq(Token) \ {<<>>}
  /\ IgnoresCase \in BOOLEAN /\ AnyOrder \in BOOLEAN /\ MaxOps \in Nat

VARIABLES
  primaryKey,  (* static primaryKey of the class.                          *)
  rows,        (* The rows' key columns.                                   *)
  cache,       (* Memcached: a function from cache keys to entries.        *)
  last,        (* The operation just done, and what came of it; null: was  *)
               (* an insert given a key field as null?                     *)
  ops

kvars == <<primaryKey, rows, cache, last, ops>>

KeyField == ToSet(primaryKey)
Lower(s) == [i \in DOMAIN s |-> LowerCase[s[i]]]

(* What an operation gives back, and what is in an entry.                  *)
None == [is |-> "none"]
Deleted == [is |-> "deleted"]
Rejected == [is |-> "rejected"]
Record(r) == [is |-> "record", row |-> r]

(* KeyValues, an object: its entries in the order they were given.         *)
KeyValuesOf(r, order) == [i \in DOMAIN order |-> [field |-> order[i], value |-> r[order[i]]]]
Orders == IF AnyOrder THEN SetToSeqs(KeyField) ELSE {primaryKey}
KeyValues == {KeyValuesOf(r, order) : r \in [KeyField -> Value], order \in Orders}

-----------------------------------------------------------------------------
(* Fault for a mutant: the values are taken as they are.                   *)
MakeCacheKeyAsGiven(kv) ==
  FlattenSeq([i \in DOMAIN kv |->
    <<LowerCase[kv[i].field], Dot>> \o kv[i].value \o (IF i = Len(kv) THEN <<>> ELSE <<Dot>>)])

(* Fault for a mutant: only the values, put one after the other.           *)
MakeCacheKeyOfValues(kv) == FlattenSeq([i \in DOMAIN kv |-> Lower(kv[i].value)])

(* The fragments field.value, lower-cased and joined by dots; what comes   *)
(* before them is the same for all records of a class.                     *)
MakeCacheKey(kv) ==
  FlattenSeq([i \in DOMAIN kv |->
    <<LowerCase[kv[i].field], Dot>> \o Lower(kv[i].value)
      \o (IF i = Len(kv) THEN <<>> ELSE <<Dot>>)])

(* field = ? of the clause, as MySQL compares.                             *)
SameValue(v, w) == IF IgnoresCase THEN Lower(v) = Lower(w) ELSE v = w

(* No string of a column is one of these.  Null is null, and also the 0    *)
(* that a column with AUTO_INCREMENT takes for it.                         *)
Absent == <<"absent">>
SqlExpression == <<"sql">>
Null == <<"null">>

(* buildKeyClause: field = ? AND field = ? ..., and field = NULL holds of  *)
(* no row.                                                                 *)
KeyClause(kv, r) ==
  \A i \in DOMAIN kv : kv[i].value # Null /\ SameValue(r[kv[i].field], kv[i].value)

Selected(kv, R) == {r \in R : KeyClause(kv, r)}

(* What the caller of insert gives for each field of the key.              *)
KeyData == [KeyField -> Value \cup {Absent, SqlExpression, Null}]

(* Is some field of the key given as null?                                 *)
GivesNull(data) == \E f \in KeyField : data[f] = Null

(* buildKeyValuesFromInsert throws: it takes null for a value.             *)
Underivable(data) ==
  \E f \in KeyField : data[f] = SqlExpression \/ (data[f] = Absent /\ Len(primaryKey) > 1)

(* The statement's insertId: the generated key, or 0 when it was given.    *)
InsertId(data, r) ==
  IF data[primaryKey[1]] \in {Absent, Null} THEN r[primaryKey[1]] ELSE <<"0">>

(* Fault for a mutant: a single key is always taken for generated.         *)
KeyValuesFromInsertId(data, id) ==
  [i \in DOMAIN primaryKey |->
     LET f == primaryKey[i]
     IN  [field |-> f, value |-> IF Len(primaryKey) = 1 THEN id ELSE data[f]]]

KeyValuesFromInsert(data, id) ==
  [i \in DOMAIN primaryKey |->
     LET f == primaryKey[i]
     IN  [field |-> f, value |-> IF data[f] = Absent THEN id ELSE data[f]]]

-----------------------------------------------------------------------------
Entry(kv) == IF MakeCacheKey(kv) \in DOMAIN cache THEN cache[MakeCacheKey(kv)] ELSE None

Put(kv, entry) ==
  LET key == MakeCacheKey(kv)
  IN  [k \in DOMAIN cache \cup {key} |-> IF k = key THEN entry ELSE cache[k]]
Without(key) == Restrict(cache, DOMAIN cache \ {key})

DoneWith(op, kv, got, null) ==
  /\ ops < MaxOps /\ ops' = ops + 1
  /\ last' = [op |-> op, kv |-> kv, got |-> got, null |-> null]
  /\ UNCHANGED primaryKey

Done(op, kv, got) == DoneWith(op, kv, got, FALSE)

(* load, from the cache or from the table.  An entry that is there, the    *)
(* deletion marker for one, is left alone by Cache.add.                    *)
Load(kv) ==
  /\ UNCHANGED rows
  /\ IF Entry(kv).is = "record"
     THEN Done("load", kv, Entry(kv)) /\ UNCHANGED cache
     ELSE IF Selected(kv, rows) = {}
     THEN Done("load", kv, None) /\ UNCHANGED cache
     ELSE \E r \in Selected(kv, rows) :
            /\ Done("load", kv, Record(r))
            /\ cache' = IF Entry(kv) = None THEN Put(kv, Record(r)) ELSE cache

(* What the INSERT makes of the data: an omitted single key is generated,  *)
(* as is one that is null; other omitted columns have defaults, and an     *)
(* expression has some value.                                              *)
RowOf(data, r) == \A f \in KeyField : data[f] \in Value => r[f] = data[f]
Duplicate(r) == \E s \in rows : \A f \in KeyField : SameValue(r[f], s[f])

(* Columns may have no default, or be NOT NULL.                            *)
Refusable(data) == \E f \in KeyField : data[f] \notin Value

(* insert: the row, the key values made for it, and load with forceRead,   *)
(* which sets the entry.                                                   *)
Insert(data, r) ==
  LET kv == KeyValuesFromInsert(data, InsertId(data, r))
      R == rows \cup {r}
      InsertDone(got) == DoneWith("insert", KeyValuesOf(r, primaryKey), got, GivesNull(data))
  IN  /\ RowOf(data, r)
      /\ \/ /\ Duplicate(r) \/ Refusable(data)
            /\ InsertDone(Rejected) /\ UNCHANGED <<rows, cache>>
         \/ /\ ~Duplicate(r)
            /\ rows' = R
            /\ IF Underivable(data)
               THEN InsertDone(Rejected) /\ UNCHANGED cache
               ELSE IF Selected(kv, R) = {}
               THEN InsertDone(None) /\ UNCHANGED cache
               ELSE \E s \in Selected(kv, R) :
                      InsertDone(Record(s)) /\ cache' = Put(kv, Record(s))

(* delete of the record loaded under kv, with or without the marker.       *)
Delete(kv, mark) ==
  /\ rows' = rows \ Selected(kv, rows)
  /\ cache' = IF mark THEN Put(kv, Deleted) ELSE Without(MakeCacheKey(kv))
  /\ Done("delete", kv, None)

(* An item, or the marker, goes away.                                      *)
Expire(k) ==
  /\ cache' = Without(k)
  /\ UNCHANGED <<primaryKey, rows, last, ops>>

(* isInCache: is there an entry, of whatever kind?                         *)
IsInCache(kv) ==
  /\ Done("isInCache", kv, Entry(kv))
  /\ UNCHANGED <<rows, cache>>

Init ==
  /\ primaryKey \in PrimaryKeys
  /\ rows = {} /\ cache = <<>> /\ ops = 0
  /\ last = [op |-> "none", kv |-> <<>>, got |-> None, null |-> FALSE]

Quiet == ops = MaxOps /\ UNCHANGED kvars

Next ==
  \/ \E kv \in KeyValues : Load(kv) \/ IsInCache(kv) \/ \E mark \in BOOLEAN : Delete(kv, mark)
  \/ \E data \in KeyData, r \in [KeyField -> Value] : Insert(data, r)
  \/ \E k \in DOMAIN cache : Expire(k)
  \/ Quiet

Spec == Init /\ [][Next]_kvars
=============================================================================
