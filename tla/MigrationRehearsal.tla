-------------------------- MODULE MigrationRehearsal --------------------------
(***************************************************************************)
(* The rehearsal of a migration on SQLite (company_sqlite_rehearsal,       *)
(* _projection_apply and _accounting_link_apply, each one transaction with *)
(* its receipt), as erp_migration_rehearsal.sh runs it: for every file its *)
(* tool, the comparison of what is stored with the file, and the tool once *)
(* more; then a backup, and the gate that reads the reports which these    *)
(* and earlier passes left in the work directory.  The script ends at the  *)
(* first tool that fails, and may be killed anywhere.                      *)
(*                                                                         *)
(* Revisions are not compared between the stores and are left out here.    *)
(***************************************************************************)
EXTENDS MigrationTarget

CONSTANTS
  Passes,   \* how often the script is run
  Mapping,  \* run of a file -> the argument of the script that it is made from
  Usual     \* argument -> how many rows the script knows to come of it

VARIABLES
  lite,     \* the SQLite store: its rows by kind, its receipts
  pass,     \* the run of the script: its mappings, what is to do, where it is
  reports,  \* the reports in the work directory, one of a tool and a run
  backup,   \* the rows in the copy of the store
  verdict,  \* what the file of the gate says
  passes

rehearsalVars == <<lite, pass, reports, backup, verdict, passes>>

vars == <<targetVars, rehearsalVars>>

NoPass == [plan |-> {}, todo |-> {}, file |-> NoFile, stage |-> "off"]

\* A report is a file of the work directory, named for the tool and the mapping.
Report(tool, f, state) ==
  {r \in reports : r.tool # tool \/ r.mapping # Mapping[Run(f)]}
    \cup {[tool |-> tool, mapping |-> Mapping[Run(f)], state |-> state]}

-----------------------------------------------------------------------------
(***************************************************************************)
(* The SQLite tools                                                        *)
(***************************************************************************)
LiteRows(f) == lite.rows[f.kind] \cup f.rows

LiteHash(f) == Covered(f, LiteRows(f))

LiteReceipt(f) == {r \in lite.receipts : r.run = Run(f)}

\* One transaction refuses a row that differs from a stored one it shares an
\* identity with, and a receipt that is there of another hash.
LiteRefuses(f) ==
  \/ \E x \in lite.rows[f.kind], r \in f.rows : Clash(x, r)
  \/ \E r \in LiteReceipt(f) : r.applied # LiteHash(f)

\* Fault: the rows are committed before the receipt is looked for.
Transacted_Early(f) ==
  IF \E x \in lite.rows[f.kind], r \in f.rows : Clash(x, r) THEN lite
  ELSE [rows |-> [lite.rows EXCEPT ![f.kind] = LiteRows(f)],
        receipts |-> IF LiteReceipt(f) # {} THEN lite.receipts
                     ELSE lite.receipts \cup
                            {[run |-> Run(f), applied |-> LiteHash(f)]}]

Transacted(f) ==
  IF LiteRefuses(f) THEN lite
  ELSE [rows |-> [lite.rows EXCEPT ![f.kind] = LiteRows(f)],
        receipts |-> lite.receipts \cup
                       {[run |-> Run(f), applied |-> LiteHash(f)]}]

\* The raw tool counts the table against its file after it committed.
LiteVerified(f) ==
  f.kind = "raw" => Cardinality(Transacted(f).rows.raw) = Cardinality(f.rows)

Parity(f, rows) ==
  {x.keys : x \in Covered(f, rows)} = {r.keys : r \in f.rows}

\* What the comparison of the two stores says of a file, contents included.
CrossParity(f) ==
  /\ Parity(f, lite.rows.domain)
  /\ {Plain(x) : x \in Covered(f, table.domain)} = Covered(f, lite.rows.domain)

-----------------------------------------------------------------------------
(***************************************************************************)
(* The script                                                              *)
(***************************************************************************)
Stage(stage) == pass.stage = stage

To(stage) == pass' = [pass EXCEPT !.stage = stage]

Stop == pass' = NoPass

RehearsalInit ==
  /\ Init
  /\ lite = [rows |-> [k \in Kinds |-> {}], receipts |-> {}]
  /\ pass = NoPass
  /\ reports = {}
  /\ backup = [k \in Kinds |-> {}]
  /\ verdict = "none"
  /\ passes = 0

StartPass(plan) ==
  /\ Stage("off")
  /\ passes < Passes
  /\ passes' = passes + 1
  /\ pass' = [plan |-> plan, todo |-> plan, file |-> NoFile, stage |-> "next"]
  /\ UNCHANGED <<lite, reports, backup, verdict>>

\* The raw file comes first.
Take(f) ==
  /\ Stage("next")
  /\ f \in pass.todo
  /\ f.kind = "raw" \/ \A g \in pass.todo : g.kind # "raw"
  /\ pass' = [pass EXCEPT !.file = f, !.todo = @ \ {f}, !.stage = "apply"]
  /\ UNCHANGED <<lite, reports, backup, verdict, passes>>

Apply ==
  /\ Stage("apply")
  /\ lite' = Transacted(pass.file)
  /\ IF LiteRefuses(pass.file) \/ ~LiteVerified(pass.file) THEN Stop
     ELSE To(CASE pass.file.kind = "raw" -> "next"
               [] pass.file.kind = "domain" -> "parity"
               [] pass.file.kind = "accounting" -> "replay")
  /\ UNCHANGED <<reports, backup, verdict, passes>>

CompareRows ==
  /\ Stage("parity")
  /\ LET verified == Parity(pass.file, lite.rows.domain)
     IN /\ reports' = Report("parity", pass.file,
                             IF verified THEN "verified" ELSE "mismatch")
        /\ IF verified THEN To("replay") ELSE Stop
  /\ UNCHANGED <<lite, backup, verdict, passes>>

\* The shell empties the report before the tool runs, and a tool that fails
\* leaves it so.
Replay ==
  /\ Stage("replay")
  /\ lite' = Transacted(pass.file)
  /\ IF LiteRefuses(pass.file)
     THEN reports' = Report("replay", pass.file, "empty") /\ Stop
     ELSE /\ reports' = Report("replay", pass.file,
                               IF lite' = lite THEN "unchanged" ELSE "changed")
          /\ To(IF pass.file.kind = "accounting" THEN "reconcile" ELSE "next")
  /\ UNCHANGED <<backup, verdict, passes>>

\* The links of the receipt are looked for in the store.
Reconcile ==
  /\ Stage("reconcile")
  /\ IF pass.file.rows \subseteq lite.rows.accounting
     THEN reports' = Report("reconciliation", pass.file, "reconciled") /\ To("next")
     ELSE Stop /\ UNCHANGED reports
  /\ UNCHANGED <<lite, backup, verdict, passes>>

Given(kind) == {Mapping[Run(f)] : f \in {g \in pass.plan : g.kind = kind}}

\* The gate is not asked without the typed cohorts, and its file stays.
BackUp ==
  /\ Stage("next")
  /\ pass.todo = {}
  /\ backup' = lite.rows
  /\ IF "typed" \in Given("domain") THEN To("gate") ELSE Stop
  /\ UNCHANGED <<lite, reports, verdict, passes>>

\* The numbers are written in the script, and go by the mappings it is given,
\* not by what the files hold.
Total(mappings) == MapThenSumSet(LAMBDA m : Usual[m], mappings)

Expected(k) == Total(Given(k))

\* Promotions and links are counted only if the base, the accounting and the
\* advance-offset mapping are all there.
Compared ==
  IF {"base", "advance"} \subseteq Given("domain") /\ "accounting" \in Given("accounting")
  THEN Kinds ELSE {"raw"}

Counted == \A k \in Compared : Cardinality(lite.rows[k]) = Expected(k)

Said(tool) == {r.state : r \in {q \in reports : q.tool = tool}}

\* The gate gives up on a report it cannot read, and its file stays as it was.
Gate ==
  /\ Stage("gate")
  /\ verdict' = IF "empty" \in Said("replay") THEN verdict
                ELSE IF /\ Counted
                        /\ Said("parity") = {"verified"}
                        /\ Said("replay") = {"unchanged"}
                        /\ Said("reconciliation") = {"reconciled"}
                     THEN "ready" ELSE "blocked"
  /\ To("judged")
  /\ UNCHANGED <<lite, reports, backup, passes>>

EndPass ==
  /\ Stage("judged")
  /\ Stop
  /\ UNCHANGED <<lite, reports, backup, verdict, passes>>

\* The script is killed; a replay before or after it committed.
Kill ==
  /\ pass.stage \notin {"off", "judged"}
  /\ Stop
  /\ reports' = IF Stage("replay") THEN Report("replay", pass.file, "empty")
                ELSE reports
  /\ lite' \in IF pass.stage \in {"apply", "replay"} THEN {lite, Transacted(pass.file)}
               ELSE {lite}
  /\ UNCHANGED <<backup, verdict, passes>>

Rehearse ==
  \/ \E plan \in world.plans : StartPass(plan)
  \/ \E f \in pass.todo : Take(f)
  \/ Apply
  \/ CompareRows
  \/ Replay
  \/ Reconcile
  \/ BackUp
  \/ Gate
  \/ EndPass
  \/ Kill

RehearsalNext ==
  \/ Next /\ UNCHANGED rehearsalVars
  \/ Rehearse /\ UNCHANGED targetVars

RehearsalSpec == RehearsalInit /\ [][RehearsalNext]_vars /\ Fairness

-----------------------------------------------------------------------------
\* The rows of a cohort are in the SQLite store if and only if a receipt
\* attests them, and then they are those of one file: a refused file leaves
\* nothing behind (ensure_projection_receipt).
LiteWhole ==
  \A k \in {"domain", "accounting"} : \A x \in lite.rows[k] :
    \E r \in lite.receipts :
      /\ x \in r.applied
      /\ r.applied \subseteq lite.rows[k]
      /\ \E f \in UNION world.plans : Run(f) = r.run /\ r.applied = f.rows

Files(k) == UNION {f.rows : f \in {g \in pass.plan : g.kind = k}}

\* The gate calls a store ready only if it holds every file of that pass with
\* its receipt, as its copy does.  Of a table it was told to count it then holds
\* nothing else, if those files are as large as the script has it written; rows
\* that an earlier pass left in a table it does not count go unseen
\* (company_migration_cutover_gate).
ReadyIsBacked ==
  Stage("judged") /\ verdict = "ready" /\ "empty" \notin Said("replay") =>
    /\ backup = lite.rows
    /\ \A f \in pass.plan : f.rows \subseteq lite.rows[f.kind] /\ LiteReceipt(f) # {}
    /\ \A k \in Compared :
         Cardinality(Files(k)) = Expected(k) => lite.rows[k] = Files(k)

\* A promotion that both stores have a receipt for, and that is the only one of
\* its cohort, is alike in both, whichever way the tools were killed and run
\* again (company_cross_domain_projection_parity).
StoresAgree ==
  \A f \in world.files \cap UNION world.plans :
    /\ f.kind = "domain"
    /\ \A g \in world.files \cup UNION world.plans : Run(g) = Run(f) => g = f
    /\ Receipt(f) # {}
    /\ LiteReceipt(f) # {}
    => CrossParity(f)

\* What the rehearsal finds is what it did: a store holds whole files, a ready one
\* those of the pass, and of one promotion what the other store holds.
RehearsalTold == LiteWhole /\ ReadyIsBacked /\ StoresAgree

=============================================================================
