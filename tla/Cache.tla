------------------------------- MODULE Cache --------------------------------
(***************************************************************************)
(* src/Cache.ts over one Memcached item: the one stored under the record's *)
(* cache key.  Each operation is the wrapper's promise together with what  *)
(* the server does: the wrapper resolves with the client's answer (null on *)
(* a miss) and rejects on a client error.                                  *)
(*                                                                         *)
(* The item holds a record or the string DELETED_SENTINEL ("deleted").     *)
(* The server gives every stored item a new CAS id.                        *)
(***************************************************************************)
EXTENDS Promises

CONSTANT CacheFaults   (* May the cache reject requests?                   *)
ASSUME CacheFaultsAssumption == CacheFaults \in BOOLEAN

VARIABLES item, casSeq

Item == [st: {"none", "record", "deleted"}, val: Payload, cas: Nat]
NoItem == [st |-> "none", val |-> Blank, cas |-> 0]

(* The server stores a value under a CAS id nobody has seen.               *)
Store(s, v) ==
  /\ casSeq' = casSeq + 1
  /\ item' = [st |-> s, val |-> v, cas |-> casSeq']

Gets(c) ==
  /\ Settle(c, item, FALSE)
  /\ UNCHANGED <<item, casSeq>>

Set(c, v) ==
  /\ Store("record", v)
  /\ Settle(c, Answer("true"), CacheFaults)

Add(c, s, v) ==
  \/ /\ item.st = "none"
     /\ Store(s, v)
     /\ Settle(c, Answer("true"), CacheFaults)
  \/ /\ item.st # "none"
     /\ Settle(c, Answer("false"), CacheFaults)
     /\ UNCHANGED <<item, casSeq>>

Cas(c, v, token) ==
  \/ /\ item.st # "none" /\ item.cas = token
     /\ Store("record", v)
     /\ Settle(c, Answer("true"), CacheFaults)
  \/ /\ item.st = "none" \/ item.cas # token
     /\ Settle(c, Answer("false"), CacheFaults)
     /\ UNCHANGED <<item, casSeq>>

Del(c) ==
  /\ item' = NoItem
  /\ Settle(c, Answer("true"), CacheFaults)
  /\ UNCHANGED casSeq

(* The request never reaches the server.                                   *)
CacheFails(c) ==
  /\ CacheFaults
  /\ Settle(c, Answer("err"), FALSE)
  /\ UNCHANGED <<item, casSeq>>

(* The server drops the item: its lifetime is over, or memory is short.    *)
(* This is also what Cache.flush does to it.                               *)
Expire ==
  /\ item.st # "none"
  /\ item' = NoItem
  /\ UNCHANGED <<casSeq, reply>>
=============================================================================
