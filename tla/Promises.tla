------------------------------ MODULE Promises ------------------------------
(***************************************************************************)
(* The promise each call of the library is awaiting.  A request is sent    *)
(* when the call reaches an await; the server carries it out at some later *)
(* time and its answer is kept in reply[c]; the call runs on at some later *)
(* time still.  So requests of several calls, also of calls on the same    *)
(* instance, are carried out and answered in any order (the memcached and  *)
(* mysql2 clients keep several connections open).                          *)
(***************************************************************************)
EXTENDS RecordTypes

CONSTANT Call     (* Calls of the library's operations, one promise each.  *)

VARIABLE reply

ReplyStatus == {"wait", "err", "none", "record", "deleted", "true", "false"}
Reply == [st: ReplyStatus, val: Payload, cas: Nat]

Answer(s) == [st |-> s, val |-> Blank, cas |-> 0]
Waiting == Answer("wait")

(* A promise settles once.  When the transport is lossy, a request that    *)
(* was carried out may still be reported as failed.                        *)
Settle(c, r, lossy) ==
  /\ reply[c] = Waiting
  /\ \E s \in {r} \cup (IF lossy THEN {Answer("err")} ELSE {}) :
       reply' = [reply EXCEPT ![c] = s]
=============================================================================
