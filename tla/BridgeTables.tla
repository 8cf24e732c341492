---------------------------- MODULE BridgeTables ----------------------------
(***************************************************************************)
(* What the tables of the bridge's command families are made of.           *)
(*                                                                         *)
(* A family is described by these tables:                                  *)
(*   Identity  where a creation takes the identity of the record from when *)
(*             the client leaves it out: "given" (it may not), "keyed"     *)
(*             (derived from the Idempotency-Key), "fresh" (a new uuid),   *)
(*             "allocated" (derived from the key, the next one if taken)   *)
(*   Stamped   whether the clock fills in what the client leaves out       *)
(*   Pre       the steps before the transaction, in order:                 *)
(*               receipt  read the receipt stored under the key and answer *)
(*                        from it, if there is one                         *)
(*               fetch    read that receipt only                           *)
(*               compare  answer from the receipt read before              *)
(*               current  read the record; its guard may refuse            *)
(*               related  look for a record this one depends on            *)
(*               unique   look for a live record with the same code        *)
(*               exists   read the record; refuse if there is none         *)
(*               allocate take the identity derived from the key, or the   *)
(*                        next one if a record has it                      *)
(*   Shown     the state the list read shows for a stored state            *)
(*   Admits    the guard on the state read before the transaction          *)
(*   Txn       the statements of the transaction, in order                 *)
(*   Rechecks  the guard on the state read inside the transaction          *)
(*   Leaves    the state of the revision the transaction inserts           *)
(* The tables are constant level; BridgeCommand interprets them.           *)
(***************************************************************************)
EXTENDS Sequences

\* No revision of the record exists, or none that the read shows.
Absent == "absent"

Receipt == <<"receipt">>

\* Fault: the record is looked at before the receipt.
ReceiptFirst_Late == <<"current">> \o Receipt

\* The common order: the receipt decides before the record is looked at.
ReceiptFirst == Receipt \o <<"current">>

\* The order of the families that build the request from the record.
CurrentFirst == <<"current">> \o Receipt

\* The statements of a transaction that looks the record up and then looks its
\* highest revision number up once more.
RereadTxn == <<"key", "read", "number", "write">>

\* One that inserts at the number found before the transaction began.
PrereadTxn == <<"key", "read", "write">>

\* One that does both under a transaction-level advisory lock on the record.
LockedTxn == <<"lock", "key", "read", "number", "write">>

\* A creation inserts revision 1 after looking that there is none.
FirstTxn == <<"key", "read", "write">>

\* The same under the lock.
LockedFirstTxn == <<"lock", "key", "read", "write">>

=============================================================================
