---------------------------- MODULE AccountingBook ----------------------------
(***************************************************************************)
(* The accounting book of a principal, and its log of accounting events    *)
(* (finance/accounting, finance/ledger, finance/reconciliation).  Book and *)
(* log are kept at their latest value.  An event is a value that links a   *)
(* source to its journal; building one neither logs nor posts it.          *)
(*                                                                         *)
(* A journal of this program is one debit and one credit of an amount:     *)
(* [id, debit, credit, amount].  Authority is in AccessDirectory, all      *)
(* amounts are of one currency.                                            *)
(***************************************************************************)
EXTENDS Integers, FiniteSets, FiniteSetsExt

VARIABLES
  book,    \* [chart, periods, ledger]: account codes, period -> state, journals
  log,     \* the events that were appended: [id, type, source, journal]
  events   \* every event that was built

bookVars == <<book, log, events>>

BookInit ==
  /\ book = [chart |-> {}, periods |-> <<>>, ledger |-> {}]
  /\ log = {} /\ events = {}

AddAccount(code) ==
  /\ code \notin book.chart
  /\ book' = [book EXCEPT !.chart = @ \cup {code}]
  /\ UNCHANGED <<log, events>>

OpenPeriod(p) ==
  /\ p \notin DOMAIN book.periods
  /\ book' = [book EXCEPT !.periods =
                [q \in DOMAIN @ \cup {p} |-> IF q = p THEN "open" ELSE @[q]]]
  /\ UNCHANGED <<log, events>>

Takes(p) == book.periods[p] = "open"

\* AccountingBook::post.  The entry does not say for which period.
Post(p, j) ==
  /\ p \in DOMAIN book.periods /\ Takes(p)
  /\ j.amount > 0
  /\ {j.debit, j.credit} \subseteq book.chart
  /\ \A k \in book.ledger : k.id # j.id
  /\ book' = [book EXCEPT !.ledger = @ \cup {j}]
  /\ UNCHANGED <<log, events>>

ChangePeriod(p, from, to) ==
  /\ p \in DOMAIN book.periods /\ book.periods[p] = from
  /\ book' = [book EXCEPT !.periods[p] = to]
  /\ UNCHANGED <<log, events>>

SoftClose(p) == ChangePeriod(p, "open", "soft_closed")

Close(p) == ChangePeriod(p, "soft_closed", "closed")

\* A report compares amounts line by line; its balance is that of the totals.
Balanced(report) ==
  MapThenSumSet(LAMBDA l : l.expected, report) = MapThenSumSet(LAMBDA l : l.actual, report)

\* The period is closed on the reports the caller presents.
CloseReconciled(p, reports) ==
  /\ reports # {}
  /\ \A r \in reports : r # {} /\ Balanced(r)
  /\ Close(p)

\* AccountingEvent::new
Build(id, type, source, journal) ==
  /\ journal.amount > 0
  /\ events' = events \cup {[id |-> id, type |-> type, source |-> source,
                             journal |-> journal]}
  /\ UNCHANGED <<book, log>>

\* Fault: the log knows an event again by its identity only.
Append_Identity(e) ==
  /\ \A x \in log : x.id # e.id
  /\ log' = log \cup {e}
  /\ UNCHANGED <<book, events>>

\* AccountingEventLog::append: an identity and a source once.
Append(e) ==
  /\ \A x \in log : x.id # e.id /\ <<x.type, x.source>> # <<e.type, e.source>>
  /\ log' = log \cup {e}
  /\ UNCHANGED <<book, events>>

BookTypeOK ==
  /\ \A p \in DOMAIN book.periods : book.periods[p] \in {"open", "soft_closed", "closed"}
  /\ \A j \in book.ledger : j.amount > 0 /\ {j.debit, j.credit} \subseteq book.chart
  /\ log \subseteq events

=============================================================================
