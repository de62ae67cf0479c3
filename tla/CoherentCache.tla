--------------------------- MODULE CoherentCache ----------------------------
(***************************************************************************)
(* What the protocol of DatabaseRecord promises for the base columns of a  *)
(* record, when it keeps its promise: the cached record runs ahead of the  *)
(* row by exactly the updates that are still due to be written.            *)
(***************************************************************************)
EXTENDS TLAPS

CONSTANTS
  Column, Datum,
  None     (* Not a member of Datum.                                       *)

VARIABLES
  stored,  (* The row.                                                     *)
  cached,  (* Is the record cached?                                        *)
  shown,   (* The cached columns, if it is.                                *)
  due      (* Per column: the value published but not yet written, or None. *)

cvars == <<stored, cached, shown, due>>

CInit ==
  /\ stored \in [Column -> Datum]
  /\ cached = FALSE
  /\ shown \in [Column -> Datum]
  /\ due = [f \in Column |-> None]

(* A reader caches the row it selected.                                    *)
Fill ==
  /\ ~cached
  /\ cached' = TRUE
  /\ shown' = stored
  /\ UNCHANGED <<stored, due>>

(* A writer publishes new values of columns nobody else is writing.        *)
Publish(S) ==
  /\ cached
  /\ \A f \in S : due[f] = None
  /\ \E v \in [S -> Datum] :
       /\ shown' = [f \in Column |-> IF f \in S THEN v[f] ELSE shown[f]]
       /\ due' = [f \in Column |-> IF f \in S THEN v[f] ELSE due[f]]
  /\ UNCHANGED <<stored, cached>>

(* It writes them.                                                         *)
Persist(S) ==
  /\ \A f \in S : due[f] # None
  /\ stored' = [f \in Column |-> IF f \in S THEN due[f] ELSE stored[f]]
  /\ due' = [f \in Column |-> IF f \in S THEN None ELSE due[f]]
  /\ UNCHANGED <<cached, shown>>

CNext ==
  \/ Fill
  \/ \E S \in (SUBSET Column) \ {{}} : Publish(S) \/ Persist(S)

CSpec == CInit /\ [][CNext]_cvars

(* The cache shows the row, or what is due to be in it.                    *)
Leads ==
  cached =>
    \A f \in Column : shown[f] = IF due[f] = None THEN stored[f] ELSE due[f]

-----------------------------------------------------------------------------
(* What is due is due to a cached record.                                  *)
LeadsInv ==
  /\ due \in [Column -> Datum \cup {None}]
  /\ stored \in [Column -> Datum] /\ shown \in [Column -> Datum]
  /\ cached \/ \A f \in Column : due[f] = None
  /\ Leads

(* A coherent cache never shows anything but the row and the updates that  *)
(* are due to it.                                                          *)
THEOREM CacheLeads ==
  ASSUME None \notin Datum
  PROVE  CSpec => []Leads
<1>1. CInit => LeadsInv
  BY DEF CInit, LeadsInv, Leads
<1>2. ASSUME LeadsInv, [CNext]_cvars
      PROVE  LeadsInv'
  <2>1. CASE UNCHANGED cvars
    BY <1>2, <2>1 DEF cvars, LeadsInv, Leads
  <2>2. CASE Fill
    BY <1>2, <2>2 DEF Fill, LeadsInv, Leads
  <2>3. ASSUME NEW S \in SUBSET Column, Publish(S)
        PROVE  LeadsInv'
    <3>1. PICK v \in [S -> Datum] :
            /\ shown' = [f \in Column |-> IF f \in S THEN v[f] ELSE shown[f]]
            /\ due' = [f \in Column |-> IF f \in S THEN v[f] ELSE due[f]]
      BY <2>3 DEF Publish
    <3>2. cached /\ cached' /\ stored' = stored
      BY <2>3 DEF Publish
    <3> QED BY <1>2, <3>1, <3>2 DEF LeadsInv, Leads
  <2>4. ASSUME NEW S \in SUBSET Column, Persist(S)
        PROVE  LeadsInv'
    BY <1>2, <2>4 DEF Persist, LeadsInv, Leads
  <2> QED BY <1>2, <2>1, <2>2, <2>3, <2>4 DEF CNext
<1>3. LeadsInv => Leads
  BY DEF LeadsInv
<1> QED BY <1>1, <1>2, <1>3, PTL DEF CSpec
=============================================================================
