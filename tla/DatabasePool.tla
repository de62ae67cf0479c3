---------------------------- MODULE DatabasePool ----------------------------
(***************************************************************************)
(* src/DatabasePool.ts over the two rows a record is made of: its row in   *)
(* the base table and its row in the extra table.  Each operation is one   *)
(* SQL statement of DatabaseRecord, carried out atomically by MySQL, and   *)
(* the promise of query or execute.  "true" and "false" answers tell       *)
(* whether affectedRows is positive.  There are no transactions.           *)
(***************************************************************************)
EXTENDS Promises

CONSTANT DbFaults      (* May the database reject statements?              *)
ASSUME DbFaultsAssumption == DbFaults \in BOOLEAN

VARIABLES row, extra

(* DatabasePool.query: the first selected row, as a payload, or none.      *)
Query(c, has, p) ==
  /\ Settle(c, IF has THEN [st |-> "record", val |-> p, cas |-> 0]
                      ELSE Answer("none"), FALSE)
  /\ UNCHANGED <<row, extra>>

(* DatabasePool.execute: whether any row was affected.                     *)
Execute(c, affected) ==
  Settle(c, Answer(IF affected THEN "true" ELSE "false"), DbFaults)

SelectRow(c) == Query(c, row.has, DecorateRecord(row))

(* own: does the statement on the extra table carry the record's key?  The *)
(* rows under other keys are not modelled: whatever may become of them.    *)
SelectExtra(c, own) == Query(c, own /\ extra.has, ExtraPayload(extra.col))

InsertRow(c, u) ==
  /\ UNCHANGED extra
  /\ \/ /\ row.has                      \* duplicate key
        /\ Settle(c, Answer("err"), FALSE)
        /\ UNCHANGED row
     \/ /\ ~row.has
        /\ \E v \in Value :
             row' = [has |-> TRUE, col |-> Assign([f \in BaseField |-> Null], u, v)]
        /\ Execute(c, TRUE)

UpdateRow(c, u) ==
  /\ UNCHANGED extra
  /\ Execute(c, row.has)
  /\ \/ /\ row.has
        /\ \E v \in Value : row' = [row EXCEPT !.col = Assign(@, u, v)]
     \/ ~row.has /\ UNCHANGED row

DeleteRow(c) ==
  /\ Execute(c, row.has)
  /\ row' = [row EXCEPT !.has = FALSE]
  /\ UNCHANGED extra

(* wellFormed: does the statement have a parameter for each placeholder?   *)
InsertExtra(c, u, own, wellFormed) ==
  /\ UNCHANGED row
  /\ \/ /\ ~own \/ extra.has \/ ~wellFormed  \* duplicate key, or a malformed statement
        /\ Settle(c, Answer("err"), FALSE)
        /\ UNCHANGED extra
     \/ /\ own /\ ~extra.has /\ wellFormed
        /\ \E v \in Value :
             extra' = [has |-> TRUE, col |-> Assign([f \in ExtraField |-> ExtraOmitted], u, v)]
        /\ Execute(c, TRUE)
     \/ ~own /\ wellFormed /\ UNCHANGED extra /\ Execute(c, TRUE)

UpdateExtra(c, u, own) ==
  /\ UNCHANGED row
  /\ \/ /\ own /\ extra.has
        /\ \E v \in Value : extra' = [extra EXCEPT !.col = Assign(@, u, v)]
        /\ Execute(c, TRUE)
     \/ /\ ~(own /\ extra.has)
        /\ UNCHANGED extra
        /\ Execute(c, FALSE) \/ (~own /\ Execute(c, TRUE))

DeleteExtra(c, own) ==
  /\ UNCHANGED row
  /\ \/ own /\ Execute(c, extra.has) /\ extra' = [extra EXCEPT !.has = FALSE]
     \/ ~own /\ UNCHANGED extra /\ \E affected \in BOOLEAN : Execute(c, affected)

(* The statement never reaches the server.                                 *)
DbFails(c) ==
  /\ DbFaults
  /\ Settle(c, Answer("err"), FALSE)
  /\ UNCHANGED <<row, extra>>
=============================================================================
