------------------------- MODULE RecordConsistency --------------------------
(***************************************************************************)
(* Properties of DatabaseRecord: how the Memcached item, the rows, the     *)
(* instances and the calls under way relate.                               *)
(***************************************************************************)
EXTENDS DatabaseRecord

(* Every variable holds what the code can put there.                       *)
TypeOK ==
  /\ item \in Item
  /\ casSeq \in Nat
  /\ row \in Row
  /\ extra \in ExtraRow
  /\ reply \in [Call -> Reply]
  /\ inst \in [Instance -> InstanceType]
  /\ call \in [Call -> CallType]

-----------------------------------------------------------------------------
(* A derived column is there only next to the parent values it was         *)
(* computed from.                                                          *)
WellDerived(p) ==
  \A d \in DerivedField :
    p.col[d] # Absent =>
      /\ \A q \in Parents[d] : p.col[q] \in DbCell
      /\ p.col[d] = Derived(d, p.col)

(* Whatever calls, evictions and errors came before, the cached record     *)
(* never shows a derived column computed from other values of its parents  *)
(* than those it shows (applyUpdateToRecord deletes dependent fields;    *)
(* CAS keeps updates of one column from reviving another's leftovers).     *)
DerivedAgrees == item.st = "record" => WellDerived(item.val)

(* A successful CAS changes only the base columns its update names, and    *)
(* the columns derived from them: no update of another column is lost to a *)
(* candidate built on an older record (performCasUpdate rebuilds the       *)
(* candidate from the entry it read together with the token).  It may add  *)
(* extra columns that its instance has read.                               *)
CasPreserves ==
  [][\A c \in Call :
       call[c].pc = "cas" /\ reply'[c] # reply[c] /\ item' # item =>
         \A f \in (BaseField \cup DerivedField)
                     \ (Touched(call[c].upd) \cup Dependents(call[c].upd)) :
           item'.val.col[f] = item.val.col[f]]_vars

(* The deletion marker of delete(timeout) keeps the record out of the      *)
(* cache until it goes away by itself, whatever loads and updates are      *)
(* under way; only a load with forceRead (Cache.set) overwrites it.        *)
MarkerHolds ==
  [][item.st = "deleted" /\ item'.st = "record" =>
       \E c \in Call : call[c].pc = "store" /\ inst[call[c].task.on].force]_vars

-----------------------------------------------------------------------------
Idle == \A c \in Call : ~Active(c)

(* A property that null removed from the cached record stands for NULL.    *)
Shown(p) == [f \in BaseField |-> IF p.col[f] = Absent THEN Null ELSE p.col[f]]

(* With no call under way, a cached record shows the row (the class keeps  *)
(* Memcached in sync).                                                     *)
IdleAgreement ==
  Idle /\ item.st = "record" /\ row.has => Shown(item.val) = row.col

(* A column that no call under way updates shows the row, also while other *)
(* columns are being updated: nobody else's CAS brings an old value back.  *)
ColumnAgreement ==
  item.st = "record" /\ row.has =>
    \A f \in BaseField :
      \/ Shown(item.val)[f] = row.col[f]
      \/ \E c \in Call : Active(c) /\ call[c].task.op = "update" /\ f \in Touched(call[c].task.arg)

(* An update has been published when its CAS took effect, and is due until *)
(* its UPDATE statement is carried out.                                    *)
Due(c, f) ==
  /\ call[c].task.op = "update"
  /\ call[c].upd.col[f] # Absent
  /\ \/ call[c].pc = "cas" /\ reply[c] = Answer("true")
     \/ call[c].pc = "refresh"
     \/ call[c].pc = "updateBase" /\ reply[c] = Waiting

NotDue == "none"

Coherent == INSTANCE CoherentCache WITH
  Column <- BaseField,
  Datum <- DbCell,
  None <- NotDue,
  stored <- row.col,
  cached <- item.st = "record",
  shown <- Shown(item.val),
  due <- [f \in BaseField |->
            IF \E c \in Call : Due(c, f)
            THEN LET c == CHOOSE c \in Call : Due(c, f) IN call[c].upd.col[f]
            ELSE NotDue]

(* With one writer per column, no evictions, no errors and no deletions,   *)
(* loads and updates make the cache a coherent write-ahead of the row:     *)
(* readers fill it, a CAS publishes, the UPDATE statement settles.         *)
RefinesCoherentCache == Coherent!CSpec

(* What readExtraData reports for the extra row as it is.                  *)
ExtraView == IF extra.has THEN extra.col ELSE ExtraTableDefaults

(* The row is there, and the tables show what an update or an insert was   *)
(* asked to write (what an SQL expression evaluates to is up to the        *)
(* server).                                                                *)
Holds(u) ==
  /\ row.has
  /\ \A f \in BaseColumns(u) : u.col[f] \in Literal \cup {row.col[f]}
  /\ \A f \in ExtraColumns(u) : u.col[f] \in Literal \cup {ExtraView[f]}

(* An insert that resolves, and an update of a record that has its key     *)
(* (which was found by load, or inserted), has put its values in the       *)
(* tables, whatever view of the record its instance had: the columns that  *)
(* sanitiseUpdatePayload dropped are there already, and the extra row was  *)
(* updated or else inserted.  Nothing is said of an update through an      *)
(* instance whose load found no row: load resolves all the same, and the   *)
(* update merges its values into the instance and resolves, as             *)
(* persistUpdate does not look at affectedRows.                            *)
AckMeansStored ==
  [][\A c \in Call :
       /\ call[c].pc # "resolved" /\ call'[c].pc = "resolved"
       /\ \/ call[c].task.op = "insert"
          \/ call[c].task.op = "update" /\ Keyed(inst'[call[c].task.on])
       => Holds(call[c].task.arg)']_vars

(* With no call under way, the extra columns of a cached record show the   *)
(* extra row (the class keeps Memcached in sync).                          *)
IdleExtraAgreement ==
  Idle /\ item.st = "record" /\ extra.has =>
    \A f \in ExtraField : item.val.col[f] \in {Absent, extra.col[f]}

(* With no call under way, the record of a deleted row is not cached       *)
(* (delete invalidates the cache).                                         *)
DeletedNotCached ==
  Idle /\ ~row.has => item.st # "record"

(* What a service reads from an instance while no method of it is under    *)
(* way: every column its record has, wherever that record came from, is a  *)
(* property of the object with the same value.                             *)
InstanceShowsRecord ==
  \A i \in Instance :
    inst[i].has /\ (\A c \in Call : call[c].task.on = i => ~Active(c)) =>
      \A f \in Field : inst[i].record.col[f] \in {Absent, inst[i].view[f]}

(* An update that resolves leaves its values on the instance, and none of  *)
(* the derived columns of the values it replaced, although the record it   *)
(* ends with may be one that another writer published.                     *)
ReadYourWrites ==
  [][\A c \in Call :
       /\ call[c].task.op = "update"
       /\ call[c].pc # "resolved" /\ call'[c].pc = "resolved"
       => LET u == call[c].task.arg  view == inst'[call[c].task.on].view
          IN  /\ \A f \in Touched(u) :
                   view[f] \in IF u.col[f] = Null THEN {Null, Absent} ELSE {u.col[f]}
              /\ \A d \in Dependents(call[c].upd) :
                   view[d] # Absent =>
                     /\ \A q \in Parents[d] : view[q] \in DbCell
                     /\ view[d] = Derived(d, view)]_vars

(* An instance shows a derived column only next to the values of its       *)
(* parents that it was computed from (load hydrates a record; an update    *)
(* clears the derived columns of what it replaces from the instance).      *)
InstanceDerivedAgrees ==
  \A i \in Instance :
    inst[i].has /\ (\A c \in Call : call[c].task.on = i => ~Active(c)) =>
      WellDerived([inst[i].record EXCEPT !.col = inst[i].view])

(* Every call that was started settles: retries of the CAS end, and errors *)
(* and evictions keep no call waiting.  (A call runs once, so the end of   *)
(* all of them is the end of each.)                                        *)
EveryCallSettles == <>[](\A c \in Call : ~Active(c))
=============================================================================
