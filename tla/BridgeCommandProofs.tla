------------------------- MODULE BridgeCommandProofs -------------------------
(***************************************************************************)
(* Proofs about the commands of the Python bridge, for any number of       *)
(* requests, keys, disturbances and killed sessions: under one key one     *)
(* revision ever appears and stays, a record never gets two revisions of   *)
(* one number, and an accepted reply means that the command of the request *)
(* is in.  The argument: a session that took the step "key" or "write"     *)
(* has a claim, on its key or on a number of its record, that no other     *)
(* session shares (Apart) and that nothing stored has met (Clear).  And a  *)
(* client can rely on its replies: a first refusal is final, and what was  *)
(* accepted once is not refused when it is sent again (Telling).  Then,    *)
(* what the bridge does implements the register of BridgeRegister: what a  *)
(* session read before it inserts stays what it counts on (Serving).       *)
(* Last, the transactions never wait for each other in a circle, but for   *)
(* two batches of milestones, each of which has inserted what the other is *)
(* about to insert.                                                        *)
(***************************************************************************)
EXTENDS BridgeCommand, TLAPS, SequenceTheorems

-----------------------------------------------------------------------------
(***************************************************************************)
(* The programs of the transactions.                                       *)
(***************************************************************************)

\* What may be left of a transaction.
Left ==
  {<<"lock", "key", "read", "number", "write", "commit">>,
   <<"lock", "key", "read", "write", "commit">>,
   <<"key", "read", "number", "write", "commit">>,
   <<"key", "read", "write", "commit">>,
   <<"key", "number", "write", "commit">>,
   <<"read", "number", "write", "commit">>,
   <<"read", "write", "commit">>,
   <<"number", "write", "commit">>,
   <<"write", "commit">>,
   <<"commit">>,
   <<"key", "sibling", "beside", "number", "write", "commit">>,
   <<"sibling", "beside", "number", "write", "commit">>,
   <<"beside", "number", "write", "commit">>,
   <<"key", "number", "write", "sibling", "beside", "commit">>,
   <<"number", "write", "sibling", "beside", "commit">>,
   <<"write", "sibling", "beside", "commit">>,
   <<"sibling", "beside", "commit">>,
   <<"beside", "commit">>}

\* The step is done.
Took(s, step) == ~Contains(s.steps, step)

Words == {"lock", "key", "read", "number", "write", "sibling", "beside", "commit"}

LEMMA Steps ==
  ASSUME NEW s \in Left
  PROVE  /\ Head(s) \in Words
         /\ Head(s) # "commit" => Tail(s) \in Left
         /\ Head(s) = "commit" => s = <<"commit">>
         /\ Head(s) = "lock" =>
              \A step \in {"key", "write"} : Contains(s, step) /\ Contains(Tail(s), step)
         /\ Head(s) = "key" =>
              /\ Contains(s, "key") /\ ~Contains(Tail(s), "key")
              /\ Contains(s, "write") /\ Contains(Tail(s), "write")
         /\ Head(s) \in {"read", "number"} =>
              /\ ~Contains(s, "key") /\ ~Contains(Tail(s), "key")
              /\ Contains(s, "write") /\ Contains(Tail(s), "write")
         /\ Head(s) = "write" =>
              /\ ~Contains(s, "key") /\ ~Contains(Tail(s), "key")
              /\ Contains(s, "write") /\ ~Contains(Tail(s), "write")
         /\ Head(s) \in {"sibling", "beside"} =>
              /\ ~Contains(s, "key") /\ ~Contains(Tail(s), "key")
              /\ Contains(s, "write") <=> Contains(Tail(s), "write")
<1>1. CASE s = <<"lock", "key", "read", "number", "write", "commit">>
  BY <1>1 DEF Left, Contains, Words
<1>2. CASE s = <<"lock", "key", "read", "write", "commit">>
  BY <1>2 DEF Left, Contains, Words
<1>3. CASE s = <<"key", "read", "number", "write", "commit">>
  BY <1>3 DEF Left, Contains, Words
<1>4. CASE s = <<"key", "read", "write", "commit">>
  BY <1>4 DEF Left, Contains, Words
<1>5. CASE s = <<"key", "number", "write", "commit">>
  BY <1>5 DEF Left, Contains, Words
<1>6. CASE s = <<"read", "number", "write", "commit">>
  BY <1>6 DEF Left, Contains, Words
<1>7. CASE s = <<"read", "write", "commit">>
  BY <1>7 DEF Left, Contains, Words
<1>8. CASE s = <<"number", "write", "commit">>
  BY <1>8 DEF Left, Contains, Words
<1>9. CASE s = <<"write", "commit">>
  BY <1>9 DEF Left, Contains, Words
<1>10. CASE s = <<"commit">>
  BY <1>10 DEF Left, Contains, Words
<1>11. CASE s = <<"key", "sibling", "beside", "number", "write", "commit">>
  BY <1>11 DEF Left, Contains, Words
<1>12. CASE s = <<"sibling", "beside", "number", "write", "commit">>
  BY <1>12 DEF Left, Contains, Words
<1>13. CASE s = <<"beside", "number", "write", "commit">>
  BY <1>13 DEF Left, Contains, Words
<1>14. CASE s = <<"key", "number", "write", "sibling", "beside", "commit">>
  BY <1>14 DEF Left, Contains, Words
<1>15. CASE s = <<"number", "write", "sibling", "beside", "commit">>
  BY <1>15 DEF Left, Contains, Words
<1>16. CASE s = <<"write", "sibling", "beside", "commit">>
  BY <1>16 DEF Left, Contains, Words
<1>17. CASE s = <<"sibling", "beside", "commit">>
  BY <1>17 DEF Left, Contains, Words
<1>18. CASE s = <<"beside", "commit">>
  BY <1>18 DEF Left, Contains, Words
<1> QED BY <1>1, <1>2, <1>3, <1>4, <1>5, <1>6, <1>7, <1>8, <1>9, <1>10,
           <1>11, <1>12, <1>13, <1>14, <1>15, <1>16, <1>17, <1>18 DEF Left

\* A sequence is one shorter, with its last element put at the end.
LEMMA AppendIs ==
  ASSUME NEW s \in Seq(Words), NEW t \in Seq(Words), Len(t) = Len(s) + 1,
         \A i \in 1..Len(s) : s[i] = t[i], t[Len(t)] = "commit"
  PROVE  t = Append(s, "commit")
<1> DEFINE u == Append(s, "commit")
<1>1. "commit" \in Words
  BY DEF Words
<1>2. u \in Seq(Words) /\ Len(u) = Len(t) /\ \A i \in 1..Len(t) : u[i] = t[i]
  BY <1>1
<1> HIDE DEF u
<1>3. t = u
  BY <1>2
<1> QED BY <1>3 DEF u

\* Every transaction inserts a receipt and a revision.
LEMMA Programs ==
  ASSUME NEW f \in AllFamilies, NEW type
  PROVE  /\ Append(Txn(f, type), "commit") \in Left
         /\ \A step \in {"key", "write"} :
              /\ Contains(Txn(f, type), step)
              /\ Contains(Append(Txn(f, type), "commit"), step)
<1> DEFINE Whole == {RereadTxn, PrereadTxn, LockedTxn, LockedFirstTxn,
                     <<"key", "number", "write">>}
<1>1. Txn(f, type) \in Whole
  <2>1. FirstTxn = PrereadTxn
    BY DEF FirstTxn, PrereadTxn
  <2> QED BY <2>1 DEF Txn, AllFamilies, ExpenseTxn, ContractTxn, PaymentTxn,
          MilestoneTxn, SplitTxn, SupplierTxn, TenderTxn, InvoiceTxn, SalesTxn,
          MarketingTxn, DeliveryTxn, LoanTxn, FundTxn, PlanTaskTxn, PreferenceTxn,
          AdminDictTxn, ReportTemplateTxn, DynamicCostTxn, ProjectTxn, WarningTxn,
          SubscriptionTxn, MessageTxn
<1>2. ASSUME NEW t \in Whole
      PROVE  /\ Append(t, "commit") \in Left
             /\ \A step \in {"key", "write"} :
                  Contains(t, step) /\ Contains(Append(t, "commit"), step)
  <2>1. CASE t = RereadTxn
    <3> DEFINE w == <<"key", "read", "number", "write">>
               p == <<"key", "read", "number", "write", "commit">>
    <3>1. w \in Seq(Words) /\ p \in Seq(Words) /\ p \in Left
      BY DEF Words, Left
    <3>2. Len(w) = 4 /\ Len(p) = 5 /\ p[5] = "commit" /\ Head(p) = "key"
      OBVIOUS
    <3>3. /\ w[1] = "key" /\ p[1] = "key"
          /\ w[2] = "read" /\ p[2] = "read"
          /\ w[3] = "number" /\ p[3] = "number"
          /\ w[4] = "write" /\ p[4] = "write"
      OBVIOUS
    <3>4. t = w
      BY <2>1 DEF RereadTxn
    <3> HIDE DEF w, p
    <3>5. \A j \in 1..4 : w[j] = p[j]
      <4>1. \A j \in 1..4 : j = 1 \/ j = 2 \/ j = 3 \/ j = 4
        OBVIOUS
      <4> QED BY <3>3, <4>1
    <3>6. p = Append(t, "commit")
      <4>1. Len(p) = Len(w) + 1 /\ p[Len(p)] = "commit"
        BY <3>2
      <4>2. \A j \in 1..Len(w) : w[j] = p[j]
        BY <3>2, <3>5
      <4>3. p = Append(w, "commit")
        BY <3>1, <4>1, <4>2, AppendIs
      <4> QED BY <3>4, <4>3
    <3>7. Contains(t, "key") /\ Contains(t, "write")
      <4>1. \A j \in 1..Len(w) : Contains(w, w[j])
        BY DEF Contains
      <4> QED BY <3>2, <3>3, <3>4, <4>1
    <3> QED BY <3>1, <3>2, <3>6, <3>7, Steps
  <2>2. CASE t = PrereadTxn
    <3> DEFINE w == <<"key", "read", "write">>
               p == <<"key", "read", "write", "commit">>
    <3>1. w \in Seq(Words) /\ p \in Seq(Words) /\ p \in Left
      BY DEF Words, Left
    <3>2. Len(w) = 3 /\ Len(p) = 4 /\ p[4] = "commit" /\ Head(p) = "key"
      OBVIOUS
    <3>3. /\ w[1] = "key" /\ p[1] = "key"
          /\ w[2] = "read" /\ p[2] = "read"
          /\ w[3] = "write" /\ p[3] = "write"
      OBVIOUS
    <3>4. t = w
      BY <2>2 DEF PrereadTxn
    <3> HIDE DEF w, p
    <3>5. \A j \in 1..3 : w[j] = p[j]
      <4>1. \A j \in 1..3 : j = 1 \/ j = 2 \/ j = 3
        OBVIOUS
      <4> QED BY <3>3, <4>1
    <3>6. p = Append(t, "commit")
      <4>1. Len(p) = Len(w) + 1 /\ p[Len(p)] = "commit"
        BY <3>2
      <4>2. \A j \in 1..Len(w) : w[j] = p[j]
        BY <3>2, <3>5
      <4>3. p = Append(w, "commit")
        BY <3>1, <4>1, <4>2, AppendIs
      <4> QED BY <3>4, <4>3
    <3>7. Contains(t, "key") /\ Contains(t, "write")
      <4>1. \A j \in 1..Len(w) : Contains(w, w[j])
        BY DEF Contains
      <4> QED BY <3>2, <3>3, <3>4, <4>1
    <3> QED BY <3>1, <3>2, <3>6, <3>7, Steps
  <2>3. CASE t = LockedTxn
    <3> DEFINE w == <<"lock", "key", "read", "number", "write">>
               p == <<"lock", "key", "read", "number", "write", "commit">>
    <3>1. w \in Seq(Words) /\ p \in Seq(Words) /\ p \in Left
      BY DEF Words, Left
    <3>2. Len(w) = 5 /\ Len(p) = 6 /\ p[6] = "commit" /\ Head(p) = "lock"
      OBVIOUS
    <3>3. /\ w[1] = "lock" /\ p[1] = "lock"
          /\ w[2] = "key" /\ p[2] = "key"
          /\ w[3] = "read" /\ p[3] = "read"
          /\ w[4] = "number" /\ p[4] = "number"
          /\ w[5] = "write" /\ p[5] = "write"
      OBVIOUS
    <3>4. t = w
      BY <2>3 DEF LockedTxn
    <3> HIDE DEF w, p
    <3>5. \A j \in 1..5 : w[j] = p[j]
      <4>1. \A j \in 1..5 : j = 1 \/ j = 2 \/ j = 3 \/ j = 4 \/ j = 5
        OBVIOUS
      <4> QED BY <3>3, <4>1
    <3>6. p = Append(t, "commit")
      <4>1. Len(p) = Len(w) + 1 /\ p[Len(p)] = "commit"
        BY <3>2
      <4>2. \A j \in 1..Len(w) : w[j] = p[j]
        BY <3>2, <3>5
      <4>3. p = Append(w, "commit")
        BY <3>1, <4>1, <4>2, AppendIs
      <4> QED BY <3>4, <4>3
    <3>7. Contains(t, "key") /\ Contains(t, "write")
      <4>1. \A j \in 1..Len(w) : Contains(w, w[j])
        BY DEF Contains
      <4> QED BY <3>2, <3>3, <3>4, <4>1
    <3> QED BY <3>1, <3>2, <3>6, <3>7, Steps
  <2>4. CASE t = LockedFirstTxn
    <3> DEFINE w == <<"lock", "key", "read", "write">>
               p == <<"lock", "key", "read", "write", "commit">>
    <3>1. w \in Seq(Words) /\ p \in Seq(Words) /\ p \in Left
      BY DEF Words, Left
    <3>2. Len(w) = 4 /\ Len(p) = 5 /\ p[5] = "commit" /\ Head(p) = "lock"
      OBVIOUS
    <3>3. /\ w[1] = "lock" /\ p[1] = "lock"
          /\ w[2] = "key" /\ p[2] = "key"
          /\ w[3] = "read" /\ p[3] = "read"
          /\ w[4] = "write" /\ p[4] = "write"
      OBVIOUS
    <3>4. t = w
      BY <2>4 DEF LockedFirstTxn
    <3> HIDE DEF w, p
    <3>5. \A j \in 1..4 : w[j] = p[j]
      <4>1. \A j \in 1..4 : j = 1 \/ j = 2 \/ j = 3 \/ j = 4
        OBVIOUS
      <4> QED BY <3>3, <4>1
    <3>6. p = Append(t, "commit")
      <4>1. Len(p) = Len(w) + 1 /\ p[Len(p)] = "commit"
        BY <3>2
      <4>2. \A j \in 1..Len(w) : w[j] = p[j]
        BY <3>2, <3>5
      <4>3. p = Append(w, "commit")
        BY <3>1, <4>1, <4>2, AppendIs
      <4> QED BY <3>4, <4>3
    <3>7. Contains(t, "key") /\ Contains(t, "write")
      <4>1. \A j \in 1..Len(w) : Contains(w, w[j])
        BY DEF Contains
      <4> QED BY <3>2, <3>3, <3>4, <4>1
    <3> QED BY <3>1, <3>2, <3>6, <3>7, Steps
  <2>5. CASE t = <<"key", "number", "write">>
    <3> DEFINE w == <<"key", "number", "write">>
               p == <<"key", "number", "write", "commit">>
    <3>1. w \in Seq(Words) /\ p \in Seq(Words) /\ p \in Left
      BY DEF Words, Left
    <3>2. Len(w) = 3 /\ Len(p) = 4 /\ p[4] = "commit" /\ Head(p) = "key"
      OBVIOUS
    <3>3. /\ w[1] = "key" /\ p[1] = "key"
          /\ w[2] = "number" /\ p[2] = "number"
          /\ w[3] = "write" /\ p[3] = "write"
      OBVIOUS
    <3>4. t = w
      BY <2>5
    <3> HIDE DEF w, p
    <3>5. \A j \in 1..3 : w[j] = p[j]
      <4>1. \A j \in 1..3 : j = 1 \/ j = 2 \/ j = 3
        OBVIOUS
      <4> QED BY <3>3, <4>1
    <3>6. p = Append(t, "commit")
      <4>1. Len(p) = Len(w) + 1 /\ p[Len(p)] = "commit"
        BY <3>2
      <4>2. \A j \in 1..Len(w) : w[j] = p[j]
        BY <3>2, <3>5
      <4>3. p = Append(w, "commit")
        BY <3>1, <4>1, <4>2, AppendIs
      <4> QED BY <3>4, <4>3
    <3>7. Contains(t, "key") /\ Contains(t, "write")
      <4>1. \A j \in 1..Len(w) : Contains(w, w[j])
        BY DEF Contains
      <4> QED BY <3>2, <3>3, <3>4, <4>1
    <3> QED BY <3>1, <3>2, <3>6, <3>7, Steps
  <2> QED BY <1>2, <2>1, <2>2, <2>3, <2>4, <2>5
<1> QED BY <1>1, <1>2

\* The programs of the batches.
LEMMA BatchPrograms ==
  ASSUME NEW place
  PROVE  LET all == Append(MilestoneBatch(place), "commit") IN
         /\ all \in Left /\ all \in Seq(Words)
         /\ \A x \in {"key", "number", "write", "sibling", "beside"} :
              Contains(MilestoneBatch(place), x) /\ Contains(all, x)
         /\ ~Contains(MilestoneBatch(place), "read")
         /\ ~Contains(MilestoneBatch(place), "lock")
<1>1. CASE place = "before"
  <2> DEFINE w == <<"key", "sibling", "beside", "number", "write">>
             p == <<"key", "sibling", "beside", "number", "write", "commit">>
  <2>1. w \in Seq(Words) /\ p \in Seq(Words) /\ p \in Left
    BY DEF Words, Left
  <2>2. Len(w) = 5 /\ Len(p) = 6 /\ p[6] = "commit"
    OBVIOUS
  <2>3. /\ w[1] = "key" /\ p[1] = "key"
        /\ w[2] = "sibling" /\ p[2] = "sibling"
        /\ w[3] = "beside" /\ p[3] = "beside"
        /\ w[4] = "number" /\ p[4] = "number"
        /\ w[5] = "write" /\ p[5] = "write"
    OBVIOUS
  <2>4. MilestoneBatch(place) = w
    BY <1>1 DEF MilestoneBatch
  <2>0. ~Contains(w, "read") /\ ~Contains(w, "lock")
    BY DEF Contains
  <2> HIDE DEF w, p
  <2>5. \A j \in 1..5 : w[j] = p[j]
    <3>1. \A j \in 1..5 : j = 1 \/ j = 2 \/ j = 3 \/ j = 4 \/ j = 5
      OBVIOUS
    <3> QED BY <2>3, <3>1
  <2>6. p = Append(w, "commit")
    <3>1. Len(p) = Len(w) + 1 /\ p[Len(p)] = "commit"
      BY <2>2
    <3>2. \A j \in 1..Len(w) : w[j] = p[j]
      BY <2>2, <2>5
    <3> QED BY <2>1, <3>1, <3>2, AppendIs
  <2>7. \A x \in {"key", "number", "write", "sibling", "beside"} : Contains(w, x) /\ Contains(p, x)
    <3>1. /\ \A j \in 1..Len(w) : Contains(w, w[j])
          /\ \A j \in 1..Len(p) : Contains(p, p[j])
      BY DEF Contains
    <3> QED BY <2>2, <2>3, <3>1
  <2> QED BY <2>0, <2>1, <2>4, <2>6, <2>7
<1>2. CASE place # "before"
  <2> DEFINE w == <<"key", "number", "write", "sibling", "beside">>
             p == <<"key", "number", "write", "sibling", "beside", "commit">>
  <2>1. w \in Seq(Words) /\ p \in Seq(Words) /\ p \in Left
    BY DEF Words, Left
  <2>2. Len(w) = 5 /\ Len(p) = 6 /\ p[6] = "commit"
    OBVIOUS
  <2>3. /\ w[1] = "key" /\ p[1] = "key"
        /\ w[2] = "number" /\ p[2] = "number"
        /\ w[3] = "write" /\ p[3] = "write"
        /\ w[4] = "sibling" /\ p[4] = "sibling"
        /\ w[5] = "beside" /\ p[5] = "beside"
    OBVIOUS
  <2>4. MilestoneBatch(place) = w
    BY <1>2 DEF MilestoneBatch
  <2>0. ~Contains(w, "read") /\ ~Contains(w, "lock")
    BY DEF Contains
  <2> HIDE DEF w, p
  <2>5. \A j \in 1..5 : w[j] = p[j]
    <3>1. \A j \in 1..5 : j = 1 \/ j = 2 \/ j = 3 \/ j = 4 \/ j = 5
      OBVIOUS
    <3> QED BY <2>3, <3>1
  <2>6. p = Append(w, "commit")
    <3>1. Len(p) = Len(w) + 1 /\ p[Len(p)] = "commit"
      BY <2>2
    <3>2. \A j \in 1..Len(w) : w[j] = p[j]
      BY <2>2, <2>5
    <3> QED BY <2>1, <3>1, <3>2, AppendIs
  <2>7. \A x \in {"key", "number", "write", "sibling", "beside"} : Contains(w, x) /\ Contains(p, x)
    <3>1. /\ \A j \in 1..Len(w) : Contains(w, w[j])
          /\ \A j \in 1..Len(p) : Contains(p, p[j])
      BY DEF Contains
    <3> QED BY <2>2, <2>3, <3>1
  <2> QED BY <2>0, <2>1, <2>4, <2>6, <2>7
<1> QED BY <1>1, <1>2


\* So does the program of every order insert a receipt and a revision; that of
\* one milestone is the program of its type.
LEMMA OrderPrograms ==
  ASSUME family \in AllFamilies, NEW o
  PROVE  /\ Append(Program(o), "commit") \in Left
         /\ \A step \in {"key", "write"} :
              /\ Contains(Program(o), step)
              /\ Contains(Append(Program(o), "commit"), step)
<1>1. CASE Batch(o)
  BY <1>1, BatchPrograms DEF Program
<1>2. CASE ~Batch(o)
  BY <1>2, Programs DEF Program
<1> QED BY <1>1, <1>2

-----------------------------------------------------------------------------
(***************************************************************************)
(* The inductive invariant.                                                *)
(***************************************************************************)

Kinds == UNION {Types(f) : f \in Families}

Wishes == UNION {UNION {Wants(f, t) : t \in Types(f)} : f \in Families}

\* What the bridge may make of an order.
Sayable ==
  [type : Kinds,
   record : (Keys \X {0, 1}) \cup (Requests \X Nat) \cup {<<"given", 0>>},
   body : Bodies, wants : Wishes, on : {0, 1}]

Ordered(order) ==
  /\ order.key \in Keys /\ order.body \in Bodies
  /\ order.type \in Kinds /\ order.wants \in Wishes

Fields ==
  {"phase", "order", "sends", "first", "request", "steps", "got", "seen",
   "basis", "number", "siblings", "tries", "reply"}

\* A request on its way, and one that was answered.
Ongoing(r) ==
  /\ DOMAIN r = Fields
  /\ Ordered(r.order) /\ r.sends \in Nat
  /\ r.request \in Sayable /\ r.got \in Sayable \cup {None}
  /\ r.reply = ""
  /\ r.phase = "txn" => r.steps \in Left

Ended(r) == Ordered(r.order) /\ r.sends \in Nat /\ r.request \in Sayable

Formed(r) ==
  /\ r.phase \in {"idle", "pre", "txn", "done"}
  /\ r.phase = "idle" => r.reply = ""
  /\ r.phase \in {"pre", "txn"} => Ongoing(r)
  /\ r.phase = "done" => Ended(r)

Shape ==
  /\ family \in Families
  /\ day \in {0, 1}
  /\ DOMAIN req = Requests
  /\ \A q \in Requests : Formed(req[q])
  /\ \A s \in orphans : s.phase = "txn" /\ Ongoing(s)
  /\ receipts \in [Keys -> Sayable \cup {None}]

\* What nobody else may have who took the step.
Claim(s, step) == IF step = "key" THEN s.order.key ELSE <<s.request.record, s.number>>

\* No two sessions, killed ones included, have the same claim.
Apart(step) ==
  /\ \A p, q \in Requests :
       /\ p # q /\ req[p].phase = "txn" /\ req[q].phase = "txn"
       /\ Took(req[p], step) /\ Took(req[q], step)
       => Claim(req[p], step) # Claim(req[q], step)
  /\ \A p \in Requests, s \in orphans :
       /\ req[p].phase = "txn" /\ Took(req[p], step) /\ Took(s, step)
       => Claim(req[p], step) # Claim(s, step)
  /\ \A s, t \in orphans :
       s # t /\ Took(s, step) /\ Took(t, step) => Claim(s, step) # Claim(t, step)

\* Nothing stored has met the claim.
Unmet(c, step) ==
  /\ step = "key" => receipts[c] = None
  /\ step = "write" => \A v \in rows : <<v.record, v.number>> # c

Clear(step) ==
  /\ \A p \in Requests :
       req[p].phase = "txn" /\ Took(req[p], step) => Unmet(Claim(req[p], step), step)
  /\ \A s \in orphans : Took(s, step) => Unmet(Claim(s, step), step)

\* A receipt read before is still there, and an accepted reply has one.
WasRead(r) == r.phase \in {"pre", "txn"} /\ r.got # None => receipts[r.order.key] = r.got

Mine(r) ==
  /\ r.phase = "done" /\ r.reply = "ok"
  /\ family \notin Uncompared \cup Single \cup {"message"}
  => receipts[r.order.key] = r.request

Known == \A q \in Requests : WasRead(req[q]) /\ Mine(req[q])

Claimed == {"key", "write"}

IInv ==
  /\ Shape
  /\ \A step \in Claimed : Apart(step) /\ Clear(step)
  /\ OncePerKey
  /\ Known

-----------------------------------------------------------------------------
(***************************************************************************)
(* Shapes.                                                                 *)
(***************************************************************************)

LEMMA NoneApart == None \notin Keys /\ None \notin Sayable
BY NoneAssumption DEF Sayable, Kinds, Wishes

LEMMA OrderShape ==
  ASSUME family \in Families, NEW o \in Orders
  PROVE  Ordered(o)
<1>1. PICK t \in Types(family) :
        o \in [type : {t}, key : Keys, body : Bodies,
               by : IF t = "create" THEN Identities(family) ELSE {"given"},
               dated : IF Stamped(family, t) THEN BOOLEAN ELSE {FALSE},
               mine : IF Owned(family, t) THEN BOOLEAN ELSE {TRUE},
               wants : Wants(family, t)]
  BY DEF Orders
<1>2. o.type = t /\ o.key \in Keys /\ o.body \in Bodies /\ o.wants \in Wants(family, t)
  BY <1>1
<1>3. t \in Kinds
  BY DEF Kinds
<1>4. o.wants \in Wishes
  BY <1>2 DEF Wishes
<1> QED BY <1>2, <1>3, <1>4 DEF Ordered

LEMMA StartedShape ==
  ASSUME day \in {0, 1}, NEW o, Ordered(o), NEW q \in Requests, NEW n \in Nat, NEW first
  PROVE  /\ Started(o, q, n, first).phase = "pre"
         /\ Ongoing(Started(o, q, n, first))
         /\ Started(o, q, n, first).got = None
<1>1. RecordFor(o, q, n) \in (Keys \X {0, 1}) \cup (Requests \X Nat) \cup {<<"given", 0>>}
  BY DEF RecordFor, Given, Ordered
<1>2. Built(o, RecordFor(o, q, n)) \in Sayable
  BY <1>1 DEF Built, Sayable, Ordered
<1> QED BY <1>2 DEF Started, Ongoing, Fields

LEMMA FinishedShape ==
  ASSUME NEW r, Ongoing(r), NEW reply
  PROVE  /\ Formed(Finished(r, reply))
         /\ Finished(r, reply).phase = "done"
         /\ Finished(r, reply).reply = reply
         /\ Finished(r, reply).order = r.order
         /\ Finished(r, reply).request = r.request
BY DEF Finished, Formed, Ended, Ongoing

LEMMA AtBeginShape ==
  ASSUME family \in Families, NEW r, Ongoing(r)
  PROVE  /\ Ongoing(AtBegin(r)) /\ AtBegin(r).phase = "txn"
         /\ AtBegin(r).order = r.order /\ AtBegin(r).got = r.got
         /\ \A step \in Claimed : ~Took(AtBegin(r), step)
<1> DEFINE b == AtBegin(r)
           program == Append(Program(r.order), "commit")
<1>1. program \in Left /\ \A step \in Claimed : Contains(program, step)
  BY OrderPrograms, BridgeAssumption DEF Claimed
<1>2. /\ DOMAIN b = Fields /\ b.phase = "txn" /\ b.steps = program
      /\ b.order = r.order /\ b.sends = r.sends /\ b.request = r.request
      /\ b.got = r.got /\ b.reply = r.reply
  BY DEF AtBegin, Ongoing, Fields
<1> HIDE DEF b, program
<1>3. Ongoing(b) /\ \A step \in Claimed : ~Took(b, step)
  BY <1>1, <1>2 DEF Ongoing, Took
<1> QED BY <1>2, <1>3 DEF b

\* What becomes of a request whose transaction failed: it is begun again, with
\* nothing taken, or the client hears that nobody knows.
LEMMA FailureShape ==
  ASSUME family \in Families, NEW r, Ongoing(r)
  PROVE  /\ Formed(AfterFailure(r))
         /\ \/ /\ AfterFailure(r).phase = "txn"
               /\ AfterFailure(r).order = r.order /\ AfterFailure(r).got = r.got
               /\ \A step \in Claimed : ~Took(AfterFailure(r), step)
            \/ AfterFailure(r).phase = "done" /\ AfterFailure(r).reply = "unknown"
<1>1. CASE r.tries = 1 /\ family \notin Single
  <2> DEFINE b == AtBegin(r)
             c == [b EXCEPT !.tries = 2]
  <2>1. AfterFailure(r) = c
    BY <1>1 DEF AfterFailure
  <2>2. /\ Ongoing(b) /\ b.phase = "txn" /\ b.order = r.order /\ b.got = r.got
        /\ \A step \in Claimed : ~Took(b, step)
    BY AtBeginShape
  <2> HIDE DEF b
  <2>3. /\ DOMAIN c = Fields /\ c.phase = "txn" /\ c.steps = b.steps
        /\ c.order = b.order /\ c.sends = b.sends /\ c.request = b.request
        /\ c.got = b.got /\ c.reply = b.reply
    BY <2>2 DEF Ongoing, Fields
  <2> HIDE DEF c
  <2>4. Ongoing(c) /\ \A step \in Claimed : ~Took(c, step)
    BY <2>2, <2>3 DEF Ongoing, Took
  <2> QED BY <2>1, <2>2, <2>3, <2>4 DEF Formed
<1>2. CASE ~(r.tries = 1 /\ family \notin Single)
  <2>1. AfterFailure(r) = Finished(r, "unknown")
    BY <1>2 DEF AfterFailure
  <2> QED BY <2>1, FinishedShape
<1> QED BY <1>1, <1>2

\* A session holds what it took.
LEMMA HoldsTook ==
  ASSUME family \in Families, NEW s, NEW step \in Claimed
  PROVE  Holds(s, step) <=> Took(s, step)
BY OrderPrograms, BridgeAssumption DEF Holds, Took, Claimed

-----------------------------------------------------------------------------
(***************************************************************************)
(* Steps that store nothing.                                               *)
(***************************************************************************)

\* Nobody but q has the claim, and nothing stored has met it.
Free(q, c, step) ==
  /\ \A p \in Requests \ {q} :
       req[p].phase = "txn" /\ Took(req[p], step) => Claim(req[p], step) # c
  /\ \A s \in orphans : Took(s, step) => Claim(s, step) # c
  /\ Unmet(c, step)

\* One request goes on: what it claims it claimed before, or nobody does.
LEMMA RequestMoves ==
  ASSUME IInv, NEW q \in Requests, NEW r, Formed(r),
         req' = [req EXCEPT ![q] = r],
         UNCHANGED <<family, rows, receipts, orphans, day>>,
         \A step \in Claimed :
           r.phase = "txn" /\ Took(r, step) =>
             \/ req[q].phase = "txn" /\ Took(req[q], step)
                /\ Claim(r, step) = Claim(req[q], step)
             \/ Free(q, Claim(r, step), step),
         WasRead(r), Mine(r)
  PROVE  IInv'
<1>1. /\ Shape /\ \A p \in Requests : req'[p] = IF p = q THEN r ELSE req[p]
      /\ DOMAIN req' = Requests
  BY DEF IInv, Shape
<1>2. Shape'
  BY <1>1 DEF Shape
<1>3. ASSUME NEW step \in Claimed PROVE Apart(step)' /\ Clear(step)'
  <2>1. Apart(step) /\ Clear(step)
    BY DEF IInv
  <2>2. r.phase = "txn" /\ Took(r, step) => Free(q, Claim(r, step), step)
    <3>1. ASSUME req[q].phase = "txn", Took(req[q], step)
          PROVE  Free(q, Claim(req[q], step), step)
      BY <2>1, <3>1 DEF Apart, Clear, Free
    <3> QED BY <3>1
  <2>3. Apart(step)'
    <3>1. ASSUME NEW p1 \in Requests, NEW p2 \in Requests, p1 # p2,
                 req'[p1].phase = "txn", req'[p2].phase = "txn",
                 Took(req'[p1], step), Took(req'[p2], step)
          PROVE  Claim(req'[p1], step) # Claim(req'[p2], step)
      <4>1. CASE p1 # q /\ p2 # q
        BY <1>1, <2>1, <3>1, <4>1 DEF Apart
      <4>2. CASE p1 = q
        BY <1>1, <2>2, <3>1, <4>2 DEF Free
      <4>3. CASE p2 = q
        BY <1>1, <2>2, <3>1, <4>3 DEF Free
      <4> QED BY <4>1, <4>2, <4>3
    <3>2. ASSUME NEW p1 \in Requests, NEW s \in orphans, req'[p1].phase = "txn",
                 Took(req'[p1], step), Took(s, step)
          PROVE  Claim(req'[p1], step) # Claim(s, step)
      <4>1. CASE p1 # q
        BY <1>1, <2>1, <3>2, <4>1 DEF Apart
      <4>2. CASE p1 = q
        BY <1>1, <2>2, <3>2, <4>2 DEF Free
      <4> QED BY <4>1, <4>2
    <3> QED BY <2>1, <3>1, <3>2 DEF Apart, Took, Claim
  <2>4. Clear(step)'
    <3>1. ASSUME NEW p \in Requests, req'[p].phase = "txn", Took(req'[p], step)
          PROVE  Unmet(Claim(req'[p], step), step)
      <4>1. CASE p # q
        BY <1>1, <2>1, <3>1, <4>1 DEF Clear
      <4>2. CASE p = q
        BY <1>1, <2>2, <3>1, <4>2 DEF Free
      <4> QED BY <4>1, <4>2
    <3> QED BY <2>1, <3>1 DEF Clear, Unmet, Took, Claim
  <2> QED BY <2>3, <2>4
<1>4. OncePerKey'
  BY DEF IInv, OncePerKey, RevisionsOf
<1>5. Known'
  BY <1>1 DEF IInv, Known, WasRead, Mine
<1> QED BY <1>2, <1>3, <1>4, <1>5 DEF IInv

\* A session is killed, and its request begins again or gives up.
LEMMA TimeoutKeeps ==
  ASSUME IInv, NEW q \in Requests, Timeout(q)
  PROVE  IInv'
<1> DEFINE s == req[q]
<1>1. /\ s.phase = "txn" /\ orphans' = orphans \cup {s}
      /\ UNCHANGED <<family, rows, receipts, day>>
  BY DEF Timeout
<1>2. PICK r : r = AfterFailure(s)
  OBVIOUS
<1>3. req' = [req EXCEPT ![q] = r]
  BY <1>2 DEF Timeout
<1>4. Shape /\ Ongoing(s)
  BY <1>1 DEF IInv, Shape, Formed
<1>5. /\ Formed(r)
      /\ \/ /\ r.phase = "txn" /\ r.order = s.order /\ r.got = s.got
            /\ \A step \in Claimed : ~Took(r, step)
         \/ r.phase = "done" /\ r.reply = "unknown"
  BY <1>2, <1>4, FailureShape DEF Shape
<1>6. /\ \A p \in Requests : req'[p] = IF p = q THEN r ELSE req[p]
      /\ DOMAIN req' = Requests
  BY <1>3, <1>4 DEF Shape
<1>7. Shape'
  BY <1>1, <1>4, <1>5, <1>6 DEF Shape
<1>8. ASSUME NEW step \in Claimed PROVE Apart(step)' /\ Clear(step)'
  <2>1. Apart(step) /\ Clear(step)
    BY DEF IInv
  <2>2. ASSUME NEW p \in Requests, req'[p].phase = "txn", Took(req'[p], step)
        PROVE  p # q /\ req'[p] = req[p]
    BY <1>5, <1>6, <2>2
  <2>3. Apart(step)'
    <3>1. ASSUME NEW p1 \in Requests, NEW p2 \in Requests, p1 # p2,
                 req'[p1].phase = "txn", req'[p2].phase = "txn",
                 Took(req'[p1], step), Took(req'[p2], step)
          PROVE  Claim(req'[p1], step) # Claim(req'[p2], step)
      BY <2>1, <2>2, <3>1 DEF Apart
    <3>2. ASSUME NEW p \in Requests, NEW t \in orphans', req'[p].phase = "txn",
                 Took(req'[p], step), Took(t, step)
          PROVE  Claim(req'[p], step) # Claim(t, step)
      BY <1>1, <2>1, <2>2, <3>2 DEF Apart
    <3>3. ASSUME NEW t \in orphans', NEW u \in orphans', t # u,
                 Took(t, step), Took(u, step)
          PROVE  Claim(t, step) # Claim(u, step)
      BY <1>1, <2>1, <3>3 DEF Apart
    <3> QED BY <3>1, <3>2, <3>3 DEF Apart, Took, Claim
  <2>4. Clear(step)'
    <3>1. ASSUME NEW p \in Requests, req'[p].phase = "txn", Took(req'[p], step)
          PROVE  Unmet(Claim(req'[p], step), step)
      BY <2>1, <2>2, <3>1 DEF Clear
    <3>2. ASSUME NEW t \in orphans', Took(t, step) PROVE Unmet(Claim(t, step), step)
      BY <1>1, <2>1, <3>2 DEF Clear
    <3> QED BY <1>1, <3>1, <3>2 DEF Clear, Unmet, Took, Claim
  <2> QED BY <2>3, <2>4
<1>9. OncePerKey'
  BY <1>1 DEF IInv, OncePerKey, RevisionsOf
<1>10. Known'
  BY <1>1, <1>5, <1>6 DEF IInv, Known, WasRead, Mine
<1> QED BY <1>7, <1>8, <1>9, <1>10 DEF IInv

LEMMA OrphanEnds ==
  ASSUME IInv, NEW s \in orphans, orphans' = orphans \ {s},
         UNCHANGED <<family, rows, receipts, day, req>>
  PROVE  IInv'
<1>1. Shape' /\ OncePerKey' /\ Known'
  BY DEF IInv, Shape, OncePerKey, RevisionsOf, Known, WasRead, Mine
<1>2. ASSUME NEW step \in Claimed PROVE Apart(step)' /\ Clear(step)'
  BY DEF IInv, Apart, Clear, Unmet, Took, Claim
<1> QED BY <1>1, <1>2 DEF IInv

\* The rest of the world changes.
LEMMA WorldKeeps ==
  ASSUME IInv, day' \in {0, 1}, UNCHANGED <<family, rows, receipts, req, orphans>>
  PROVE  IInv'
<1>1. Shape' /\ OncePerKey' /\ Known'
  BY DEF IInv, Shape, OncePerKey, RevisionsOf, Known, WasRead, Mine
<1>2. ASSUME NEW step \in Claimed PROVE Apart(step)' /\ Clear(step)'
  BY DEF IInv, Apart, Clear, Unmet, Took, Claim
<1> QED BY <1>1, <1>2 DEF IInv

-----------------------------------------------------------------------------
(***************************************************************************)
(* The commit.                                                             *)
(***************************************************************************)

\* A session that commits has claimed its key and its number, so that the key
\* has no receipt and no revision, and the record no revision of the number.
LEMMA CommitStores ==
  ASSUME IInv, NEW s, Ongoing(s), s.phase = "txn",
         \A step \in Claimed : Unmet(Claim(s, step), step),
         CommitOf(s)
  PROVE  /\ receipts' \in [Keys -> Sayable \cup {None}]
         /\ OncePerKey'
         /\ s.order.key \in Keys /\ receipts[s.order.key] = None
         /\ receipts'[s.order.key] = s.request
         /\ \A k \in Keys \ {s.order.key} : receipts'[k] = receipts[k]
         /\ \A v \in rows' : v \in rows \/ (/\ v.key = s.order.key
                                            /\ v.record = s.request.record
                                            /\ v.number = s.number)
         /\ rows \subseteq rows'
<1>1. PICK n : /\ rows' = rows \cup {n}
               /\ n.key = s.order.key /\ n.record = s.request.record
               /\ n.number = s.number
  <2> DEFINE n == [record |-> s.request.record, number |-> s.number, key |-> s.order.key,
                   state |-> Leaves(family, s.order.type,
                                    StateOf(s.request.record, s.basis), s.order.wants),
                   basis |-> s.basis, body |-> s.order.body]
  <2>1. rows' = rows \cup {n}
    BY DEF CommitOf
  <2>2. n.key = s.order.key /\ n.record = s.request.record /\ n.number = s.number
    OBVIOUS
  <2> HIDE DEF n
  <2> QED BY <2>1, <2>2
<1>2. receipts' = [receipts EXCEPT ![s.order.key] = s.request]
  BY DEF CommitOf
<1>3. s.order.key \in Keys /\ s.request \in Sayable /\ s.request # None
  BY NoneApart DEF Ongoing, Ordered
<1>4. receipts \in [Keys -> Sayable \cup {None}]
  BY DEF IInv, Shape
<1>5. receipts[s.order.key] = None
  BY DEF Claimed, Claim, Unmet
<1>6. \A v \in rows : ~(v.record = s.request.record /\ v.number = s.number)
  BY DEF Claimed, Claim, Unmet
<1>7. /\ receipts' \in [Keys -> Sayable \cup {None}]
      /\ receipts'[s.order.key] = s.request
      /\ \A k \in Keys \ {s.order.key} : receipts'[k] = receipts[k]
  BY <1>2, <1>3, <1>4
<1>8. OncePerKey
  BY DEF IInv
<1>9. \A v \in rows : v.key # s.order.key
  BY <1>3, <1>5, <1>8 DEF OncePerKey, RevisionsOf
<1>10. OncePerKey'
  <2>1. ASSUME NEW v \in rows', NEW w \in rows',
               v.key = w.key \/ (v.record = w.record /\ v.number = w.number)
        PROVE  v = w
    BY <1>1, <1>6, <1>8, <1>9, <2>1 DEF OncePerKey
  <2>2. ASSUME NEW k \in Keys PROVE receipts'[k] = None <=> RevisionsOf(k)' = {}
    <3>1. CASE k = s.order.key
      <4>1. n \in RevisionsOf(k)'
        BY <1>1, <3>1 DEF RevisionsOf
      <4> QED BY <1>3, <1>7, <3>1, <4>1
    <3>2. CASE k # s.order.key
      <4>1. RevisionsOf(k)' = RevisionsOf(k)
        BY <1>1, <3>2 DEF RevisionsOf
      <4> QED BY <1>7, <1>8, <3>2, <4>1 DEF OncePerKey
    <3> QED BY <3>1, <3>2
  <2> QED BY <2>1, <2>2 DEF OncePerKey
<1> QED BY <1>1, <1>3, <1>5, <1>7, <1>10

\* What others claim is still unmet when a session with other claims commits.
LEMMA StillUnmet ==
  ASSUME NEW s, NEW c, NEW step \in Claimed,
         Unmet(c, step), c # Claim(s, step), step = "key" => c \in Keys,
         \A k \in Keys \ {s.order.key} : receipts'[k] = receipts[k],
         \A v \in rows' : v \in rows \/ (/\ v.key = s.order.key
                                         /\ v.record = s.request.record
                                         /\ v.number = s.number)
  PROVE  Unmet(c, step)'
BY DEF Unmet, Claim, Claimed

LEMMA CommitKeeps ==
  ASSUME IInv, NEW q \in Requests, Commit(q)
  PROVE  IInv'
<1> DEFINE s == req[q]
<1>1. /\ s.phase = "txn" /\ Head(s.steps) = "commit" /\ CommitOf(s)
      /\ UNCHANGED <<family, day, orphans>>
  BY DEF Commit, InTxn
<1>2. PICK r : r = Finished(s, "ok")
  OBVIOUS
<1>3. req' = [req EXCEPT ![q] = r]
  BY <1>2 DEF Commit
<1>4. Shape /\ Ongoing(s)
  BY <1>1 DEF IInv, Shape, Formed
<1>5. \A step \in Claimed : Took(s, step)
  <2>1. s.steps = <<"commit">>
    BY <1>1, <1>4, Steps DEF Ongoing
  <2>2. ~Contains(<<"commit">>, "key") /\ ~Contains(<<"commit">>, "write")
    BY DEF Contains
  <2> QED BY <2>1, <2>2 DEF Took, Claimed
<1>6. \A step \in Claimed : Unmet(Claim(s, step), step)
  BY <1>1, <1>5 DEF IInv, Clear
<1>7. /\ receipts' \in [Keys -> Sayable \cup {None}]
      /\ OncePerKey'
      /\ s.order.key \in Keys /\ receipts[s.order.key] = None
      /\ receipts'[s.order.key] = s.request
      /\ \A k \in Keys \ {s.order.key} : receipts'[k] = receipts[k]
      /\ \A v \in rows' : v \in rows \/ (/\ v.key = s.order.key
                                         /\ v.record = s.request.record
                                         /\ v.number = s.number)
  BY <1>1, <1>4, <1>6, CommitStores
<1>8. /\ Formed(r) /\ r.phase = "done" /\ r.order = s.order /\ r.request = s.request
  BY <1>2, <1>4, FinishedShape
<1>9. /\ \A p \in Requests : req'[p] = IF p = q THEN r ELSE req[p]
      /\ DOMAIN req' = Requests
  BY <1>3, <1>4 DEF Shape
<1>10. Shape'
  BY <1>1, <1>4, <1>7, <1>8, <1>9 DEF Shape
<1>11. ASSUME NEW step \in Claimed PROVE Apart(step)' /\ Clear(step)'
  <2>1. Apart(step) /\ Clear(step)
    BY DEF IInv
  <2>2. ASSUME NEW p \in Requests, req'[p].phase = "txn"
        PROVE  p # q /\ req'[p] = req[p]
    BY <1>8, <1>9, <2>2
  <2>3. Apart(step)'
    BY <1>1, <2>1, <2>2 DEF Apart, Took, Claim
  <2>4. ASSUME NEW p \in Requests, req'[p].phase = "txn", Took(req'[p], step),
               NEW c, c = Claim(req'[p], step)
        PROVE  Unmet(c, step)'
    <3>1. p # q /\ req'[p] = req[p]
      BY <2>2, <2>4
    <3>2. c # Claim(s, step) /\ Unmet(c, step)
      BY <1>1, <1>5, <2>1, <2>4, <3>1 DEF Apart, Clear
    <3>3. step = "key" => c \in Keys
      BY <1>4, <2>4, <3>1 DEF Claim, Shape, Formed, Ongoing, Ordered
    <3> QED BY <1>7, <3>2, <3>3, StillUnmet
  <2>5. ASSUME NEW t \in orphans, Took(t, step) PROVE Unmet(Claim(t, step), step)'
    <3>1. Claim(t, step) # Claim(s, step) /\ Unmet(Claim(t, step), step)
      BY <1>1, <1>5, <2>1, <2>5 DEF Apart, Clear
    <3>2. step = "key" => Claim(t, step) \in Keys
      BY <1>4 DEF Claim, Shape, Ongoing, Ordered
    <3> QED BY <1>7, <3>1, <3>2, StillUnmet
  <2>6. Clear(step)'
    BY <1>1, <2>4, <2>5 DEF Clear, Unmet, Took, Claim
  <2> QED BY <2>3, <2>6
<1>12. Known'
  <2>1. ASSUME NEW p \in Requests, p # q PROVE WasRead(req[p])' /\ Mine(req[p])'
    <3>1. req'[p] = req[p] /\ WasRead(req[p]) /\ Mine(req[p]) /\ Formed(req[p])
      BY <1>9, <2>1, <1>4 DEF IInv, Known, Shape
    <3>2. WasRead(req[p])'
      BY <1>7, <3>1 DEF WasRead, Formed, Ongoing, Ordered
    <3>3. Mine(req[p])'
      BY <1>1, <1>7, <3>1, NoneApart DEF Mine, Formed, Ended, Ordered
    <3> QED BY <3>2, <3>3
  <2>2. WasRead(req[q])' /\ Mine(req[q])'
    BY <1>7, <1>8, <1>9 DEF WasRead, Mine
  <2> QED BY <2>1, <2>2 DEF Known
<1> QED BY <1>7, <1>10, <1>11, <1>12 DEF IInv

LEMMA OrphanCommitKeeps ==
  ASSUME IInv, OrphanCommits
  PROVE  IInv'
<1>1. PICK s \in orphans :
        /\ s.steps = <<"commit">> /\ CommitOf(s) /\ orphans' = orphans \ {s}
  BY DEF OrphanCommits
<1>2. UNCHANGED <<family, day, req>>
  BY DEF OrphanCommits
<1>3. Shape /\ Ongoing(s) /\ s.phase = "txn"
  BY DEF IInv, Shape
<1>4. \A step \in Claimed : Took(s, step)
  <2>1. ~Contains(<<"commit">>, "key") /\ ~Contains(<<"commit">>, "write")
    BY DEF Contains
  <2> QED BY <1>1, <2>1 DEF Took, Claimed
<1>5. \A step \in Claimed : Unmet(Claim(s, step), step)
  BY <1>4 DEF IInv, Clear
<1>6. /\ receipts' \in [Keys -> Sayable \cup {None}]
      /\ OncePerKey'
      /\ s.order.key \in Keys /\ receipts[s.order.key] = None
      /\ receipts'[s.order.key] = s.request
      /\ \A k \in Keys \ {s.order.key} : receipts'[k] = receipts[k]
      /\ \A v \in rows' : v \in rows \/ (/\ v.key = s.order.key
                                         /\ v.record = s.request.record
                                         /\ v.number = s.number)
  BY <1>1, <1>3, <1>5, CommitStores
<1>7. Shape'
  BY <1>1, <1>2, <1>3, <1>6 DEF Shape
<1>8. ASSUME NEW step \in Claimed PROVE Apart(step)' /\ Clear(step)'
  <2>1. Apart(step) /\ Clear(step)
    BY DEF IInv
  <2>2. Apart(step)'
    BY <1>1, <1>2, <2>1 DEF Apart, Took, Claim
  <2>3. ASSUME NEW p \in Requests, req[p].phase = "txn", Took(req[p], step),
               NEW c, c = Claim(req[p], step)
        PROVE  Unmet(c, step)'
    <3>1. c # Claim(s, step) /\ Unmet(c, step)
      BY <1>1, <1>4, <2>1, <2>3 DEF Apart, Clear
    <3>2. step = "key" => c \in Keys
      BY <1>3, <2>3 DEF Claim, Shape, Formed, Ongoing, Ordered
    <3> QED BY <1>6, <3>1, <3>2, StillUnmet
  <2>4. ASSUME NEW t \in orphans', Took(t, step) PROVE Unmet(Claim(t, step), step)'
    <3>1. t \in orphans /\ t # s
      BY <1>1
    <3>2. Claim(t, step) # Claim(s, step) /\ Unmet(Claim(t, step), step)
      BY <1>4, <2>1, <2>4, <3>1 DEF Apart, Clear
    <3>3. step = "key" => Claim(t, step) \in Keys
      BY <1>3, <3>1 DEF Claim, Shape, Ongoing, Ordered
    <3> QED BY <1>6, <3>2, <3>3, StillUnmet
  <2>5. Clear(step)'
    BY <1>2, <2>3, <2>4 DEF Clear, Unmet, Took, Claim
  <2> QED BY <2>2, <2>5
<1>9. Known'
  <2>1. ASSUME NEW p \in Requests PROVE WasRead(req[p])' /\ Mine(req[p])'
    <3>1. WasRead(req[p]) /\ Mine(req[p]) /\ Formed(req[p]) /\ req'[p] = req[p]
      BY <1>2, <1>3 DEF IInv, Known, Shape
    <3>2. WasRead(req[p])'
      BY <1>6, <3>1 DEF WasRead, Formed, Ongoing, Ordered
    <3>3. Mine(req[p])'
      BY <1>2, <1>6, <3>1, NoneApart DEF Mine, Formed, Ended, Ordered
    <3> QED BY <3>2, <3>3
  <2> QED BY <2>1 DEF Known
<1> QED BY <1>6, <1>7, <1>8, <1>9 DEF IInv

-----------------------------------------------------------------------------
(***************************************************************************)
(* The steps of a request.                                                 *)
(***************************************************************************)

\* A request on its way may be sent.
LEMMA Sent ==
  ASSUME IInv, NEW q \in Requests, NEW o, Ordered(o), NEW n \in Nat, NEW first,
         req' = [req EXCEPT ![q] = Started(o, q, n, first)],
         UNCHANGED <<family, rows, receipts, orphans, day>>
  PROVE  IInv'
<1>1. PICK r : r = Started(o, q, n, first)
  OBVIOUS
<1>2. r.phase = "pre" /\ Ongoing(r) /\ r.got = None
  BY <1>1, StartedShape DEF IInv, Shape
<1>3. Formed(r) /\ WasRead(r) /\ Mine(r)
  BY <1>2 DEF Formed, WasRead, Mine
<1> QED BY <1>1, <1>2, <1>3, RequestMoves

LEMMA SendKeeps ==
  ASSUME IInv, NEW q \in Requests, Send(q)
  PROVE  IInv'
<1>1. PICK o \in Orders : req' = [req EXCEPT ![q] = Started(o, q, 1, "")]
  BY DEF Send
<1>2. Ordered(o)
  BY OrderShape DEF IInv, Shape
<1> QED BY <1>1, <1>2, Sent DEF Send

LEMMA ResendKeeps ==
  ASSUME IInv, NEW q \in Requests, Resend(q)
  PROVE  IInv'
<1>1. Ordered(req[q].order) /\ req[q].sends \in Nat
  BY DEF Resend, IInv, Shape, Formed, Ended
<1>2. PICK o, n, first :
        /\ o = req[q].order /\ n = req[q].sends + 1
        /\ first = IF req[q].first = "ok" THEN "ok" ELSE req[q].reply
  OBVIOUS
<1>3. req' = [req EXCEPT ![q] = Started(o, q, n, first)]
  BY <1>2 DEF Resend
<1>4. Ordered(o) /\ n \in Nat
  BY <1>1, <1>2
<1>5. UNCHANGED <<family, rows, receipts, orphans, day>>
  BY DEF Resend
<1> QED BY <1>3, <1>4, <1>5, Sent

\* What a step before the transaction makes of a request.
LEMMA AdvancedShape ==
  ASSUME Shape, NEW r, Ongoing(r), r.phase = "pre", WasRead(r), NEW step
  PROVE  /\ Ongoing(Advanced(r, step)) /\ Advanced(r, step).phase = "pre"
         /\ WasRead(Advanced(r, step))
<1>1. PICK on : on = [r EXCEPT !.steps = Tail(@)]
  OBVIOUS
<1>2. /\ DOMAIN on = Fields /\ on.phase = "pre" /\ on.order = r.order
      /\ on.sends = r.sends /\ on.request = r.request /\ on.got = r.got
      /\ on.reply = r.reply
  BY <1>1 DEF Ongoing, Fields
<1>3. Ongoing(on) /\ WasRead(on)
  BY <1>2 DEF Ongoing, WasRead
<1>4. CASE step = "fetch"
  <2>1. PICK u : u = [on EXCEPT !.got = receipts[r.order.key]]
    OBVIOUS
  <2>2. /\ DOMAIN u = Fields /\ u.phase = "pre" /\ u.order = r.order
        /\ u.sends = r.sends /\ u.request = r.request /\ u.reply = r.reply
        /\ u.got = receipts[r.order.key]
    BY <1>2, <2>1 DEF Fields
  <2>3. u.got \in Sayable \cup {None}
    BY <2>2 DEF Shape, Ongoing, Ordered
  <2>4. Ongoing(u) /\ WasRead(u)
    BY <2>2, <2>3 DEF Ongoing, WasRead
  <2>5. Advanced(r, step) = u
    BY <1>1, <1>4, <2>1 DEF Advanced
  <2> QED BY <2>2, <2>4, <2>5
<1>5. CASE step \in {"current", "exists"}
  <2>1. PICK u : u = [on EXCEPT !.seen = Highest(r.request.record)]
    OBVIOUS
  <2>2. /\ DOMAIN u = Fields /\ u.phase = "pre" /\ u.order = r.order
        /\ u.sends = r.sends /\ u.request = r.request /\ u.reply = r.reply
        /\ u.got = r.got
    BY <1>2, <2>1 DEF Fields
  <2>3. Ongoing(u) /\ WasRead(u)
    BY <2>2 DEF Ongoing, WasRead
  <2>4. Advanced(r, step) = u
    BY <1>1, <1>5, <2>1 DEF Advanced
  <2> QED BY <2>2, <2>3, <2>4
<1>6. CASE step = "allocate"
  <2>1. PICK record : record = IF on.got # None \/ Highest(<<on.order.key, 0>>) = 0
                               THEN <<on.order.key, 0>> ELSE <<on.order.key, 1>>
    OBVIOUS
  <2>2. record \in Keys \X {0, 1}
    BY <1>2, <2>1 DEF Ongoing, Ordered
  <2>3. PICK request : request = [on.request EXCEPT !.record = record]
    OBVIOUS
  <2>4. request \in Sayable
    BY <1>2, <2>2, <2>3 DEF Sayable, Ongoing
  <2>5. PICK u : u = [on EXCEPT !.request = request]
    OBVIOUS
  <2>6. /\ DOMAIN u = Fields /\ u.phase = "pre" /\ u.order = r.order
        /\ u.sends = r.sends /\ u.request = request /\ u.reply = r.reply
        /\ u.got = r.got
    BY <1>2, <2>5 DEF Fields
  <2>7. Ongoing(u) /\ WasRead(u)
    BY <2>4, <2>6 DEF Ongoing, WasRead
  <2>8. Advanced(r, step) = u
    BY <1>1, <1>2, <1>6, <2>1, <2>3, <2>5 DEF Advanced
  <2> QED BY <2>6, <2>7, <2>8
<1>7. CASE step \notin {"fetch", "current", "exists", "allocate"}
  BY <1>1, <1>2, <1>3, <1>7 DEF Advanced
<1> QED BY <1>4, <1>5, <1>6, <1>7

LEMMA PreStepKeeps ==
  ASSUME IInv, NEW q \in Requests, PreStep(q)
  PROVE  IInv'
<1>1. req[q].phase = "pre" /\ Ongoing(req[q]) /\ WasRead(req[q]) /\ Shape
  BY DEF PreStep, IInv, Shape, Formed, Known
<1>2. PICK on : on = Advanced(req[q], Head(req[q].steps))
  OBVIOUS
<1>3. Ongoing(on) /\ on.phase = "pre" /\ WasRead(on)
  BY <1>1, <1>2, AdvancedShape
<1>4. PICK r : r = IF on.steps = <<>> THEN AtBegin(on) ELSE on
  OBVIOUS
<1>5. req' = [req EXCEPT ![q] = r]
  BY <1>2, <1>4 DEF PreStep
<1>6. CASE on.steps = <<>>
  <2>1. /\ Ongoing(r) /\ r.phase = "txn" /\ r.order = on.order /\ r.got = on.got
        /\ \A step \in Claimed : ~Took(r, step)
    BY <1>1, <1>3, <1>4, <1>6, AtBeginShape DEF Shape
  <2>2. Formed(r) /\ WasRead(r) /\ Mine(r)
    BY <1>3, <2>1 DEF Formed, WasRead, Mine
  <2> QED BY <1>5, <2>1, <2>2, RequestMoves DEF PreStep
<1>7. CASE on.steps # <<>>
  <2>1. r.phase = "pre" /\ Formed(r) /\ WasRead(r) /\ Mine(r)
    BY <1>3, <1>4, <1>7 DEF Formed, Mine
  <2> QED BY <1>5, <2>1, RequestMoves DEF PreStep
<1> QED BY <1>6, <1>7

\* A stored receipt that answers is the request itself, where families compare.
LEMMA PreReplyKeeps ==
  ASSUME IInv, NEW q \in Requests, PreReply(q)
  PROVE  IInv'
<1>1. req[q].phase = "pre" /\ Ongoing(req[q]) /\ WasRead(req[q]) /\ Shape
  BY DEF PreReply, IInv, Shape, Formed, Known
<1>2. PICK step, stored, reply :
        /\ step = Head(req[q].steps)
        /\ stored = IF step = "receipt" THEN receipts[req[q].order.key] ELSE req[q].got
        /\ reply = IF step \in {"receipt", "compare"}
                       /\ Answers(family, stored, req[q].request)
                    THEN "ok" ELSE "refused"
  OBVIOUS
<1>3. ~Passes(req[q], step)
  BY <1>2 DEF PreReply
<1>4. PICK r : r = Finished(req[q], reply)
  OBVIOUS
<1>5. req' = [req EXCEPT ![q] = r]
  BY <1>2, <1>4 DEF PreReply
<1>6. /\ Formed(r) /\ r.phase = "done" /\ r.reply = reply
      /\ r.order = req[q].order /\ r.request = req[q].request
  BY <1>1, <1>4, FinishedShape
<1>7. Mine(r)
  <2>1. ASSUME reply = "ok", family \notin Uncompared \cup Single \cup {"message"}
        PROVE  receipts[req[q].order.key] = req[q].request
    <3>1. step \in {"receipt", "compare"} /\ stored = req[q].request
      BY <1>2, <2>1 DEF Answers, Single
    <3>2. CASE step = "receipt"
      BY <1>2, <3>1, <3>2
    <3>3. CASE step = "compare"
      <4>1. req[q].got # None
        BY <1>3, <3>3 DEF Passes
      <4> QED BY <1>1, <1>2, <3>1, <3>3, <4>1 DEF WasRead
    <3> QED BY <3>1, <3>2, <3>3
  <2> QED BY <1>6, <2>1 DEF Mine
<1>8. WasRead(r)
  BY <1>6 DEF WasRead
<1> QED BY <1>5, <1>6, <1>7, <1>8, RequestMoves DEF PreReply

-----------------------------------------------------------------------------
(***************************************************************************)
(* The statements of a transaction.                                        *)
(***************************************************************************)

\* The session of q after a statement: what became of it besides what is left.
Onward(r, u) ==
  /\ DOMAIN u = Fields /\ u.phase = "txn" /\ u.steps = Tail(r.steps)
  /\ u.order = r.order /\ u.sends = r.sends /\ u.request = r.request
  /\ u.got = r.got /\ u.reply = r.reply

LEMMA OnwardShape ==
  ASSUME NEW r, Ongoing(r), r.phase = "txn", Head(r.steps) # "commit", WasRead(r),
         NEW u, Onward(r, u)
  PROVE  Formed(u) /\ WasRead(u) /\ Mine(u) /\ Claim(u, "key") = Claim(r, "key")
<1>1. Tail(r.steps) \in Left
  BY Steps DEF Ongoing
<1>2. Ongoing(u) /\ u.phase = "txn"
  BY <1>1 DEF Onward, Ongoing
<1> QED BY <1>2 DEF Onward, Formed, WasRead, Mine, Claim

\* What InTxn and the invariant say of the session.
LEMMA InTransaction ==
  ASSUME IInv, NEW q \in Requests, NEW step, InTxn(q, step)
  PROVE  /\ req[q].phase = "txn" /\ Ongoing(req[q]) /\ WasRead(req[q])
         /\ req[q].steps \in Left /\ Head(req[q].steps) = step
         /\ family \in Families /\ DOMAIN req = Requests
         /\ UNCHANGED <<family, orphans, day>>
BY DEF InTxn, IInv, Shape, Formed, Ongoing, Known

\* A session that failed claims nothing.
LEMMA Failed ==
  ASSUME IInv, NEW q \in Requests, req[q].phase = "txn", NEW r, r = AfterFailure(req[q]),
         req' = [req EXCEPT ![q] = r],
         UNCHANGED <<family, rows, receipts, orphans, day>>
  PROVE  IInv'
<1>1. Ongoing(req[q]) /\ WasRead(req[q]) /\ family \in Families
  BY DEF IInv, Shape, Formed, Known
<1>2. /\ Formed(r)
      /\ \/ /\ r.phase = "txn" /\ r.order = req[q].order /\ r.got = req[q].got
            /\ \A step \in Claimed : ~Took(r, step)
         \/ r.phase = "done" /\ r.reply = "unknown"
  BY <1>1, FailureShape
<1>3. WasRead(r) /\ Mine(r)
  BY <1>1, <1>2 DEF WasRead, Mine
<1> QED BY <1>2, <1>3, RequestMoves

LEMMA LockKeeps ==
  ASSUME IInv, NEW q \in Requests, Lock(q)
  PROVE  IInv'
<1>1. InTxn(q, "lock") /\ UNCHANGED <<rows, receipts>>
  BY DEF Lock
<1>2. PICK r : r = [req[q] EXCEPT !.steps = Tail(req[q].steps)]
  OBVIOUS
<1>3. req' = [req EXCEPT ![q] = r]
  BY <1>2 DEF Lock
<1>4. Onward(req[q], r)
  BY <1>1, <1>2, InTransaction DEF Onward, Ongoing, Fields
<1>5. Formed(r) /\ WasRead(r) /\ Mine(r)
  BY <1>1, <1>4, InTransaction, OnwardShape
<1>6. \A step \in Claimed : ~Took(r, step)
  BY <1>1, <1>4, InTransaction, Steps DEF Onward, Took, Claimed
<1> QED BY <1>1, <1>3, <1>5, <1>6, InTransaction, RequestMoves

\* Who inserts the receipt first has the key for itself.
LEMMA InsertKeyKeeps ==
  ASSUME IInv, NEW q \in Requests, InsertKey(q)
  PROVE  IInv'
<1>1. InTxn(q, "key") /\ UNCHANGED <<rows, receipts>> /\ KeyFree(q)
  BY DEF InsertKey
<1>2. CASE receipts[req[q].order.key] = None
  <2>1. PICK r : r = [req[q] EXCEPT !.steps = Tail(req[q].steps)]
    OBVIOUS
  <2>2. req' = [req EXCEPT ![q] = r]
    BY <1>2, <2>1 DEF InsertKey
  <2>3. Onward(req[q], r)
    BY <1>1, <2>1, InTransaction DEF Onward, Ongoing, Fields
  <2>4. Formed(r) /\ WasRead(r) /\ Mine(r)
    BY <1>1, <2>3, InTransaction, OnwardShape
  <2>5. Took(r, "key") /\ ~Took(r, "write")
    BY <1>1, <2>3, InTransaction, Steps DEF Onward, Took
  <2>6. Free(q, Claim(r, "key"), "key")
    <3>1. Claim(r, "key") = req[q].order.key
      BY <2>3 DEF Onward, Claim
    <3>2. \A p \in Requests \ {q} :
            req[p].phase = "txn" /\ Took(req[p], "key") => Claim(req[p], "key") # req[q].order.key
      BY <1>1, HoldsTook, InTransaction DEF KeyFree, OtherSessions, Claim, Claimed
    <3>3. \A s \in orphans : Took(s, "key") => Claim(s, "key") # req[q].order.key
      BY <1>1, HoldsTook, InTransaction DEF KeyFree, OtherSessions, Claim, Claimed
    <3>4. Unmet(req[q].order.key, "key")
      BY <1>2 DEF Unmet
    <3> QED BY <3>1, <3>2, <3>3, <3>4 DEF Free
  <2>7. \A step \in Claimed : Took(r, step) => Free(q, Claim(r, step), step)
    BY <2>5, <2>6 DEF Claimed
  <2> QED BY <1>1, <2>2, <2>4, <2>7, InTransaction, RequestMoves
<1>3. CASE receipts[req[q].order.key] # None
  <2>1. PICK reply : reply = IF family \in Single \/ receipts[req[q].order.key] = req[q].request
                             THEN "ok" ELSE "refused"
    OBVIOUS
  <2>2. PICK r : r = Finished(req[q], reply)
    OBVIOUS
  <2>3. req' = [req EXCEPT ![q] = r]
    BY <1>3, <2>1, <2>2 DEF InsertKey
  <2>4. /\ Formed(r) /\ r.phase = "done" /\ r.reply = reply
        /\ r.order = req[q].order /\ r.request = req[q].request
    BY <1>1, <2>2, InTransaction, FinishedShape
  <2>5. WasRead(r) /\ Mine(r)
    BY <2>1, <2>4 DEF WasRead, Mine
  <2> QED BY <1>1, <2>3, <2>4, <2>5, InTransaction, RequestMoves
<1> QED BY <1>2, <1>3

LEMMA ReadKeeps ==
  ASSUME IInv, NEW q \in Requests, Read(q)
  PROVE  IInv'
<1>1. InTxn(q, "read") /\ UNCHANGED <<rows, receipts>>
  BY DEF Read
<1>2. PICK found : found = Highest(req[q].request.record)
  OBVIOUS
<1>3. CASE Rechecks(family, req[q].order.type, StateOf(req[q].request.record, found))
  <2>1. PICK r : r = [req[q] EXCEPT !.steps = Tail(req[q].steps), !.basis = found]
    OBVIOUS
  <2>2. req' = [req EXCEPT ![q] = r]
    BY <1>2, <1>3, <2>1 DEF Read
  <2>3. Onward(req[q], r)
    BY <1>1, <2>1, InTransaction DEF Onward, Ongoing, Fields
  <2>4. Formed(r) /\ WasRead(r) /\ Mine(r) /\ Claim(r, "key") = Claim(req[q], "key")
    BY <1>1, <2>3, InTransaction, OnwardShape
  <2>5. Took(req[q], "key") /\ ~Took(r, "write")
    BY <1>1, <2>3, InTransaction, Steps DEF Onward, Took
  <2> QED BY <1>1, <2>2, <2>4, <2>5, InTransaction, RequestMoves DEF Claimed
<1>4. CASE ~Rechecks(family, req[q].order.type, StateOf(req[q].request.record, found))
  <2>1. PICK r : r = AfterFailure(req[q])
    OBVIOUS
  <2>2. req' = [req EXCEPT ![q] = r]
    BY <1>2, <1>4, <2>1 DEF Read
  <2> QED BY <1>1, <2>1, <2>2, InTransaction, Failed
<1> QED BY <1>3, <1>4

LEMMA NumberKeeps ==
  ASSUME IInv, NEW q \in Requests, Number(q)
  PROVE  IInv'
<1>1. InTxn(q, "number") /\ UNCHANGED <<rows, receipts>>
  BY DEF Number
<1>2. PICK r : r = [req[q] EXCEPT !.steps = Tail(req[q].steps),
                                  !.number = Highest(req[q].request.record) + 1]
  OBVIOUS
<1>3. req' = [req EXCEPT ![q] = r]
  BY <1>1, <1>2, InTransaction DEF Number
<1>4. Onward(req[q], r)
  BY <1>1, <1>2, InTransaction DEF Onward, Ongoing, Fields
<1>5. Formed(r) /\ WasRead(r) /\ Mine(r) /\ Claim(r, "key") = Claim(req[q], "key")
  BY <1>1, <1>4, InTransaction, OnwardShape
<1>6. Took(req[q], "key") /\ ~Took(r, "write")
  BY <1>1, <1>4, InTransaction, Steps DEF Onward, Took
<1> QED BY <1>1, <1>3, <1>5, <1>6, InTransaction, RequestMoves DEF Claimed

\* Who inserts the revision first has its number for itself.
LEMMA WriteKeeps ==
  ASSUME IInv, NEW q \in Requests, Write(q)
  PROVE  IInv'
<1>1. InTxn(q, "write") /\ UNCHANGED <<rows, receipts>> /\ RowFree(q)
  BY DEF Write
<1>2. CASE \E v \in RowsOf(req[q].request.record) : v.number = req[q].number
  <2>1. PICK r : r = AfterFailure(req[q])
    OBVIOUS
  <2>2. req' = [req EXCEPT ![q] = r]
    BY <1>2, <2>1 DEF Write
  <2> QED BY <1>1, <2>1, <2>2, InTransaction, Failed
<1>3. CASE ~\E v \in RowsOf(req[q].request.record) : v.number = req[q].number
  <2>1. PICK r : r = [req[q] EXCEPT !.steps = Tail(req[q].steps)]
    OBVIOUS
  <2>2. req' = [req EXCEPT ![q] = r]
    BY <1>3, <2>1 DEF Write
  <2>3. Onward(req[q], r) /\ r.number = req[q].number
    BY <1>1, <2>1, InTransaction DEF Onward, Ongoing, Fields
  <2>4. Formed(r) /\ WasRead(r) /\ Mine(r) /\ Claim(r, "key") = Claim(req[q], "key")
    BY <1>1, <2>3, InTransaction, OnwardShape
  <2>5. Took(req[q], "key")
    BY <1>1, <2>3, InTransaction, Steps DEF Onward, Took
  <2>6. Free(q, Claim(r, "write"), "write")
    <3>1. Claim(r, "write") = <<req[q].request.record, req[q].number>>
      BY <2>3 DEF Onward, Claim
    <3>2. \A p \in Requests \ {q} :
            req[p].phase = "txn" /\ Took(req[p], "write") => Claim(req[p], "write") # Claim(r, "write")
      BY <1>1, <3>1, HoldsTook, InTransaction DEF RowFree, OtherSessions, Claim, Claimed
    <3>3. \A s \in orphans : Took(s, "write") => Claim(s, "write") # Claim(r, "write")
      BY <1>1, <3>1, HoldsTook, InTransaction DEF RowFree, OtherSessions, Claim, Claimed
    <3>4. Unmet(Claim(r, "write"), "write")
      BY <1>3, <3>1 DEF Unmet, RowsOf
    <3> QED BY <3>2, <3>3, <3>4 DEF Free
  <2> QED BY <1>1, <2>2, <2>4, <2>5, <2>6, InTransaction, RequestMoves DEF Claimed
<1> QED BY <1>2, <1>3

\* Of the other milestone of a batch nothing is claimed here.
LEMMA AsideKeeps ==
  ASSUME IInv, NEW q \in Requests, req[q].phase = "txn",
         Head(req[q].steps) \in {"sibling", "beside"},
         NEW r, Onward(req[q], r), r.number = req[q].number,
         req' = [req EXCEPT ![q] = r], UNCHANGED <<family, rows, receipts, orphans, day>>
  PROVE  IInv'
<1>1. Ongoing(req[q]) /\ WasRead(req[q]) /\ req[q].steps \in Left
  BY DEF IInv, Shape, Formed, Ongoing, Known
<1>2. /\ Formed(r) /\ WasRead(r) /\ Mine(r) /\ Claim(r, "key") = Claim(req[q], "key")
  BY <1>1, OnwardShape
<1>3. Claim(r, "write") = Claim(req[q], "write")
  BY DEF Onward, Claim
<1>4. Took(req[q], "key") /\ (Took(r, "write") => Took(req[q], "write"))
  BY <1>1, Steps DEF Onward, Took
<1> QED BY <1>2, <1>3, <1>4, RequestMoves DEF Claimed

LEMMA SiblingKeeps ==
  ASSUME IInv, NEW q \in Requests, Sibling(q)
  PROVE  IInv'
<1>1. InTxn(q, "sibling") /\ UNCHANGED <<rows, receipts>>
  BY DEF Sibling
<1>2. PICK r : r = [req[q] EXCEPT !.steps = Tail(req[q].steps), !.siblings = Siblings]
  OBVIOUS
<1>3. req' = [req EXCEPT ![q] = r]
  BY <1>1, <1>2, InTransaction DEF Sibling
<1>4. Onward(req[q], r) /\ r.number = req[q].number
  BY <1>1, <1>2, InTransaction DEF Onward, Ongoing, Fields
<1> QED BY <1>1, <1>3, <1>4, InTransaction, AsideKeeps

LEMMA BesideKeeps ==
  ASSUME IInv, NEW q \in Requests, Beside(q)
  PROVE  IInv'
<1>1. InTxn(q, "beside") /\ UNCHANGED <<rows, receipts>>
  BY DEF Beside
<1>2. CASE req[q].siblings = Siblings
  <2>1. PICK r : r = [req[q] EXCEPT !.steps = Tail(req[q].steps)]
    OBVIOUS
  <2>2. req' = [req EXCEPT ![q] = r]
    BY <1>2, <2>1 DEF Beside
  <2>3. Onward(req[q], r) /\ r.number = req[q].number
    BY <1>1, <2>1, InTransaction DEF Onward, Ongoing, Fields
  <2> QED BY <1>1, <2>2, <2>3, InTransaction, AsideKeeps
<1>3. CASE req[q].siblings # Siblings
  <2>1. PICK r : r = AfterFailure(req[q])
    OBVIOUS
  <2>2. req' = [req EXCEPT ![q] = r]
    BY <1>3, <2>1 DEF Beside
  <2> QED BY <1>1, <2>1, <2>2, InTransaction, Failed
<1> QED BY <1>2, <1>3

LEMMA DeadlockKeeps ==
  ASSUME IInv, NEW q \in Requests, Deadlock(q)
  PROVE  IInv'
<1>1. PICK r : r = AfterFailure(req[q])
  OBVIOUS
<1> QED BY <1>1, Failed DEF Deadlock

-----------------------------------------------------------------------------
(***************************************************************************)
(* The results.                                                            *)
(***************************************************************************)

LEMMA InitIInv == Init => IInv
<1> SUFFICES ASSUME Init PROVE IInv
  OBVIOUS
<1>1. /\ \A q \in Requests : req[q] = Idle
      /\ DOMAIN req = Requests /\ orphans = {} /\ day = 0 /\ family \in Families
      /\ receipts = [k \in Keys |-> None]
  BY DEF Init
<1>2. \A q \in Requests : req[q].phase = "idle" /\ req[q].reply = ""
  <2>1. Idle.phase = "idle" /\ Idle.reply = ""
    BY DEF Idle
  <2> QED BY <1>1, <2>1
<1>3. Shape
  BY <1>1, <1>2 DEF Shape, Formed
<1>4. \A step \in Claimed : Apart(step) /\ Clear(step)
  BY <1>1, <1>2 DEF Apart, Clear
<1>5. OncePerKey
  <2>1. \A v, w \in rows : v = w /\ v.key = None
    BY DEF Init
  <2>2. \A k \in Keys : receipts[k] = None /\ RevisionsOf(k) = {}
    BY <1>1, <2>1, NoneApart DEF RevisionsOf
  <2> QED BY <2>1, <2>2 DEF OncePerKey
<1>6. Known
  BY <1>2 DEF Known, WasRead, Mine
<1> QED BY <1>3, <1>4, <1>5, <1>6 DEF IInv

LEMMA NextIInv == IInv /\ [Next]_vars => IInv'
<1> SUFFICES ASSUME IInv, [Next]_vars PROVE IInv'
  OBVIOUS
<1>1. ASSUME NEW q \in Requests, Send(q) PROVE IInv'
  BY <1>1, SendKeeps
<1>2. ASSUME NEW q \in Requests, Resend(q) PROVE IInv'
  BY <1>2, ResendKeeps
<1>3. ASSUME NEW q \in Requests, Step(q) PROVE IInv'
  BY <1>3, PreStepKeeps, PreReplyKeeps, LockKeeps, InsertKeyKeeps, ReadKeeps,
     NumberKeeps, WriteKeeps, CommitKeeps, SiblingKeeps, BesideKeeps, DeadlockKeeps DEF Step
<1>4. ASSUME NEW q \in Requests, Timeout(q) PROVE IInv'
  BY <1>4, TimeoutKeeps
<1>5. CASE OrphanRollsBack
  BY <1>5, OrphanEnds DEF OrphanRollsBack
<1>6. CASE OrphanCommits
  BY <1>6, OrphanCommitKeeps
<1>7. CASE RelatedChanges \/ Rest \/ UNCHANGED vars
  <2>1. day \in {0, 1}
    BY DEF IInv, Shape
  <2> QED BY <1>7, <2>1, WorldKeeps DEF RelatedChanges, Rest, vars
<1>8. CASE Midnight
  BY <1>8, WorldKeeps DEF Midnight
<1> QED BY <1>1, <1>2, <1>3, <1>4, <1>5, <1>6, <1>7, <1>8 DEF Next

LEMMA Inductive == Spec => []IInv
BY InitIInv, NextIInv, PTL DEF Spec

\* Whatever is sent again, tried again, killed or commits late: one key never
\* stores two revisions, a receipt and its revision are there together or not
\* at all, and no record has two revisions of one number
\* (company_postgres_service.py, the command transactions).
THEOREM OnceCorrect == Spec => []OncePerKey
BY Inductive, PTL DEF IInv

\* A request that was answered with success has its own receipt stored under
\* its key and one revision with it, in every family that compares requests.
THEOREM AcceptedCorrect == Spec => []AcceptedIsMine
<1>1. IInv => AcceptedIsMine
  <2> SUFFICES ASSUME IInv, NEW q \in Requests, req[q].reply = "ok",
                      family \notin Uncompared \cup Single \cup {"message"}
               PROVE  /\ receipts[req[q].order.key] = req[q].request
                      /\ RevisionsOf(req[q].order.key) # {}
    BY DEF AcceptedIsMine
  <2>1. Formed(req[q]) /\ Mine(req[q])
    BY DEF IInv, Shape, Known
  <2>2. req[q].phase = "done"
    BY <2>1 DEF Formed, Ongoing
  <2>3. req[q].order.key \in Keys /\ req[q].request \in Sayable
    BY <2>1, <2>2 DEF Formed, Ended, Ordered
  <2>4. receipts[req[q].order.key] = req[q].request
    BY <2>1, <2>2 DEF Mine
  <2>5. RevisionsOf(req[q].order.key) # {}
    BY <2>3, <2>4, NoneApart DEF IInv, OncePerKey
  <2> QED BY <2>4, <2>5
<1> QED BY <1>1, Inductive, PTL

-----------------------------------------------------------------------------
(***************************************************************************)
(* What a client can tell from its replies.  A request that nobody else    *)
(* shares a key with can only be refused before anything was stored under  *)
(* the key, and one that was accepted before meets its own receipt again.  *)
(***************************************************************************)
Begun(q) == req[q].phase # "idle"

\* Nobody else has used the key of the request.
Sole(q) ==
  \A p \in Requests \ {q} : req[p].phase = "idle" \/ req[p].order.key # req[q].order.key

\* Receipts and killed sessions stem from requests.
Rooted ==
  /\ \A k \in Keys : receipts[k] # None => \E p \in Requests : Begun(p) /\ req[p].order.key = k
  /\ \A s \in orphans : \E p \in Requests : Begun(p) /\ req[p].order.key = s.order.key

\* A request of its own key, sent once: nothing is under the key before its
\* transaction, and only the request itself after.
Unspoilt(r) ==
  /\ r.phase = "pre" \/ r.reply = "refused" =>
       receipts[r.order.key] = None /\ \A s \in orphans : s.order.key # r.order.key
  /\ r.phase = "txn" =>
       /\ receipts[r.order.key] \in {None, r.request}
       /\ \A s \in orphans : s.order.key = r.order.key => s.request = r.request

FirstTime(q) == Begun(q) /\ req[q].sends = 1 /\ Sole(q) => Unspoilt(req[q])

\* A request keeps the type and the wants of its order, and its record the key.
Named(r) ==
  /\ r.order.type \in Types(family)
  /\ family = "subscription" /\ r.order.type = "create" => r.order.by = "allocated"
  /\ r.request.type = r.order.type /\ r.request.wants = r.order.wants
  /\ r.request.record \in {Given} \cup ({r.order.key} \X {0, 1}) \cup (Requests \X Nat)

\* So do the revisions, beside the receipt of their key.
RowsNamed ==
  \A v \in rows :
    \/ v.record = Given
    \/ /\ v.key \in Keys /\ receipts[v.key] # None /\ receipts[v.key].record = v.record
       /\ v.record \in ({v.key} \X {0, 1}) \cup (Requests \X Nat)

\* An order that says the same whenever it is sent, and what it says.
Repeats(o) == o.by # "fresh" /\ ~o.dated

Plain(o) ==
  [type |-> o.type, record |-> IF o.by = "given" THEN Given ELSE <<o.key, 0>>,
   body |-> o.body, wants |-> o.wants, on |-> 0]

\* Only the allocation of an identity makes it say something else, and then
\* another request has taken the key.
Steady(r) ==
  Repeats(r.order) =>
    r.request = Plain(r.order) \/ receipts[r.order.key] \notin {None, r.request}

\* What was accepted once has left its receipt.
Backed(r) ==
  r.reply = "ok" \/ r.first = "ok" =>
    /\ receipts[r.order.key] # None
    /\ family = "message" => receipts[r.order.key].type = r.order.type
    /\ family \notin Uncompared \cup Single \cup {"message"} /\ Repeats(r.order) =>
         receipts[r.order.key] = Plain(r.order)

\* A repetition of what was accepted comes as far as the receipt.
Retried(r) ==
  r.first = "ok" /\ Repeats(r.order) /\ ~AskedFirst(r.order.type) =>
    /\ r.phase # "txn"
    /\ r.phase = "pre" =>
         /\ r.request = Plain(r.order)
         /\ \/ Head(r.steps) = "receipt"
            \/ r.steps = <<"fetch", "allocate", "receipt">>
            \/ r.steps = <<"allocate", "receipt">> /\ r.got # None
    /\ r.reply = "refused" => family \in Single /\ receipts[r.order.key] # r.request

\* The steps before a transaction, all but the allocation of an identity.
Questions == {"receipt", "fetch", "compare", "current", "related", "unique", "exists"}

\* What is left to ask before the transaction.
Ways(r) ==
  r.phase = "pre" =>
    IF family = "subscription" /\ r.order.type = "create"
    THEN \/ r.steps = <<"receipt">>
         \/ /\ r.steps \in {<<"fetch", "allocate", "receipt">>, <<"allocate", "receipt">>}
            /\ Repeats(r.order) => r.request = Plain(r.order)
    ELSE r.steps \in Seq(Questions) /\ r.steps # <<>>

Fine(r) == Named(r) /\ Steady(r) /\ Backed(r) /\ Retried(r) /\ Ways(r)

Telling ==
  /\ Rooted
  /\ \A q \in Requests : FirstTime(q)
  /\ \A q \in Requests : Begun(q) => req[q].sends \in Nat \ {0} /\ Fine(req[q])
  /\ \A s \in orphans : Named(s)
  /\ RowsNamed

-----------------------------------------------------------------------------
\* What a request keeps all its way.
Like(r, u) ==
  /\ u.order = r.order /\ u.request = r.request
  /\ u.sends = r.sends /\ u.first = r.first

LEMMA FinishedLike ==
  ASSUME NEW r, NEW reply
  PROVE  Like(r, Finished(r, reply))
BY DEF Finished, Like

LEMMA AtBeginLike ==
  ASSUME NEW r, Ongoing(r)
  PROVE  Like(r, AtBegin(r)) /\ AtBegin(r).phase = "txn" /\ AtBegin(r).reply = ""
BY DEF AtBegin, Like, Ongoing, Fields

LEMMA FailureLike ==
  ASSUME NEW r, Ongoing(r)
  PROVE  /\ Like(r, AfterFailure(r))
         /\ AfterFailure(r).phase \in {"txn", "done"}
         /\ AfterFailure(r).reply \in {"", "unknown"}
<1>1. CASE r.tries = 1 /\ family \notin Single
  <2> DEFINE b == AtBegin(r)
             c == [b EXCEPT !.tries = 2]
  <2>1. AfterFailure(r) = c
    BY <1>1 DEF AfterFailure
  <2>2. Like(r, b) /\ b.phase = "txn" /\ b.reply = "" /\ DOMAIN b = Fields
    <3>1. DOMAIN b = Fields
      BY DEF AtBegin, Ongoing
    <3> QED BY <3>1, AtBeginLike
  <2> HIDE DEF b
  <2>3. Like(r, c) /\ c.phase = "txn" /\ c.reply = ""
    BY <2>2 DEF Like, Fields
  <2> QED BY <2>1, <2>3
<1>2. CASE ~(r.tries = 1 /\ family \notin Single)
  <2>1. AfterFailure(r) = Finished(r, "unknown")
    BY <1>2 DEF AfterFailure
  <2>2. Finished(r, "unknown").phase = "done" /\ Finished(r, "unknown").reply = "unknown"
    BY DEF Finished
  <2> QED BY <2>1, <2>2, FinishedLike
<1> QED BY <1>1, <1>2

\* A statement of a transaction changes only how far its request has come.  It
\* refuses, or answers with the receipt, where there is one.
LEMMA Statements ==
  ASSUME IInv, NEW q \in Requests,
         \/ Lock(q) \/ InsertKey(q) \/ Read(q) \/ Number(q) \/ Write(q)
         \/ Sibling(q) \/ Beside(q) \/ Deadlock(q)
  PROVE  \E r : /\ req' = [req EXCEPT ![q] = r]
                /\ UNCHANGED <<family, rows, receipts, orphans>>
                /\ req[q].phase = "txn" /\ r.phase \in {"txn", "done"}
                /\ Like(req[q], r)
                /\ r.reply = "refused" =>
                     receipts[req[q].order.key] \notin {None, req[q].request}
                /\ r.reply = "ok" =>
                     /\ receipts[req[q].order.key] # None
                     /\ family \in Single \/ receipts[req[q].order.key] = req[q].request
                /\ \/ r.phase = "done" \/ r = AfterFailure(req[q])
                   \/ /\ Onward(req[q], r) /\ Head(req[q].steps) # "commit"
                      /\ Head(req[q].steps) # "sibling" => r.siblings = req[q].siblings
                      /\ Head(req[q].steps) = "beside" =>
                           SiblingFree(q) /\ req[q].siblings = Siblings
<1> DEFINE s == req[q]
<1>0. CASE Deadlock(q)
  <2>1. Ongoing(s) /\ DOMAIN s = Fields /\ s.phase = "txn"
    BY <1>0 DEF Deadlock, IInv, Shape, Formed, Ongoing
  <2>2. PICK f : f = AfterFailure(s)
    OBVIOUS
  <2>3. Like(s, f) /\ f.phase \in {"txn", "done"} /\ f.reply \in {"", "unknown"}
    BY <2>1, <2>2, FailureLike
  <2>4. req' = [req EXCEPT ![q] = f] /\ UNCHANGED <<family, rows, receipts, orphans>>
    BY <1>0, <2>2 DEF Deadlock
  <2> QED BY <2>1, <2>2, <2>3, <2>4
<1> SUFFICES ASSUME ~Deadlock(q)
             PROVE  \E r : /\ req' = [req EXCEPT ![q] = r]
                           /\ UNCHANGED <<family, rows, receipts, orphans>>
                           /\ s.phase = "txn" /\ r.phase \in {"txn", "done"}
                           /\ Like(s, r)
                           /\ r.reply = "refused" =>
                                receipts[s.order.key] \notin {None, s.request}
                           /\ r.reply = "ok" =>
                                /\ receipts[s.order.key] # None
                                /\ family \in Single \/ receipts[s.order.key] = s.request
                           /\ \/ r.phase = "done" \/ r = AfterFailure(s)
                              \/ /\ Onward(s, r) /\ Head(s.steps) # "commit"
                                 /\ Head(s.steps) # "sibling" => r.siblings = s.siblings
                                 /\ Head(s.steps) = "beside" =>
                                      SiblingFree(q) /\ s.siblings = Siblings
  BY <1>0
<1>1. PICK step : /\ InTxn(q, step) /\ UNCHANGED <<rows, receipts>> /\ step # "commit"
                  /\ step = "lock" <=> Lock(q)
                  /\ step = "key" <=> InsertKey(q)
                  /\ step = "read" <=> Read(q)
                  /\ step = "number" <=> Number(q)
                  /\ step = "write" <=> Write(q)
                  /\ step = "sibling" <=> Sibling(q)
                  /\ step = "beside" <=> Beside(q)
  BY DEF Lock, InsertKey, Read, Number, Write, Sibling, Beside, InTxn
<1>2. /\ s.phase = "txn" /\ Ongoing(s) /\ DOMAIN s = Fields /\ s.reply = ""
      /\ UNCHANGED <<family, rows, receipts, orphans>>
      /\ DOMAIN req = Requests /\ Head(s.steps) = step /\ step # "commit"
  BY <1>1, InTransaction DEF Ongoing
<1>4. CASE Lock(q)
  <2>1. PICK r : r = [s EXCEPT !.steps = Tail(@)]
    OBVIOUS
  <2>2. /\ Like(s, r) /\ r.phase = "txn" /\ r.reply = ""
        /\ Onward(s, r) /\ r.siblings = s.siblings
    BY <1>2, <2>1 DEF Like, Onward, Fields
  <2>3. req' = [req EXCEPT ![q] = r]
    BY <1>4, <2>1 DEF Lock
  <2>4. Head(s.steps) \notin {"sibling", "beside", "commit"}
    BY <1>1, <1>2, <1>4
  <2> QED BY <1>2, <2>2, <2>3, <2>4
<1>5. CASE Number(q)
  <2>1. PICK r : r = [s EXCEPT !.steps = Tail(@), !.number = Highest(s.request.record) + 1]
    OBVIOUS
  <2>2. /\ Like(s, r) /\ r.phase = "txn" /\ r.reply = ""
        /\ Onward(s, r) /\ r.siblings = s.siblings
    BY <1>2, <2>1 DEF Like, Onward, Fields
  <2>3. req' = [req EXCEPT ![q] = r]
    BY <1>2, <1>5, <2>1 DEF Number
  <2>4. Head(s.steps) \notin {"sibling", "beside", "commit"}
    BY <1>1, <1>2, <1>5
  <2> QED BY <1>2, <2>2, <2>3, <2>4
<1>6. CASE Read(q)
  <2>1. PICK found : found = Highest(s.request.record)
    OBVIOUS
  <2>2. PICK u : u = [s EXCEPT !.steps = Tail(s.steps), !.basis = found]
    OBVIOUS
  <2>3. /\ Like(s, u) /\ u.phase = "txn" /\ u.reply = ""
        /\ Onward(s, u) /\ u.siblings = s.siblings
    BY <1>2, <2>2 DEF Like, Onward, Fields
  <2>4. PICK f : f = AfterFailure(s)
    OBVIOUS
  <2>5. Like(s, f) /\ f.phase \in {"txn", "done"} /\ f.reply \in {"", "unknown"}
    BY <1>2, <2>4, FailureLike
  <2>6. req' = [req EXCEPT ![q] = u] \/ req' = [req EXCEPT ![q] = f]
    BY <1>6, <2>1, <2>2, <2>4 DEF Read
  <2>7. Head(s.steps) \notin {"sibling", "beside", "commit"}
    BY <1>1, <1>2, <1>6
  <2> QED BY <1>2, <2>3, <2>4, <2>5, <2>6, <2>7
<1>7. CASE Write(q)
  <2>2. PICK u : u = [s EXCEPT !.steps = Tail(s.steps)]
    OBVIOUS
  <2>3. /\ Like(s, u) /\ u.phase = "txn" /\ u.reply = ""
        /\ Onward(s, u) /\ u.siblings = s.siblings
    BY <1>2, <2>2 DEF Like, Onward, Fields
  <2>4. PICK f : f = AfterFailure(s)
    OBVIOUS
  <2>5. Like(s, f) /\ f.phase \in {"txn", "done"} /\ f.reply \in {"", "unknown"}
    BY <1>2, <2>4, FailureLike
  <2>6. req' = [req EXCEPT ![q] = u] \/ req' = [req EXCEPT ![q] = f]
    BY <1>7, <2>2, <2>4 DEF Write
  <2>7. Head(s.steps) \notin {"sibling", "beside", "commit"}
    BY <1>1, <1>2, <1>7
  <2> QED BY <1>2, <2>3, <2>4, <2>5, <2>6, <2>7
<1>8. CASE InsertKey(q)
  <2>1. CASE receipts[s.order.key] = None
    <3>1. PICK r : r = [s EXCEPT !.steps = Tail(s.steps)]
      OBVIOUS
    <3>2. /\ Like(s, r) /\ r.phase = "txn" /\ r.reply = ""
          /\ Onward(s, r) /\ r.siblings = s.siblings
      BY <1>2, <3>1 DEF Like, Onward, Fields
    <3>3. req' = [req EXCEPT ![q] = r]
      BY <1>8, <2>1, <3>1 DEF InsertKey
    <3>4. Head(s.steps) \notin {"sibling", "beside", "commit"}
      BY <1>1, <1>2, <1>8
    <3> QED BY <1>2, <3>2, <3>3, <3>4
  <2>2. CASE receipts[s.order.key] # None
    <3>1. PICK reply : reply = IF family \in Single \/ receipts[s.order.key] = s.request
                               THEN "ok" ELSE "refused"
      OBVIOUS
    <3>2. PICK r : r = Finished(s, reply)
      OBVIOUS
    <3>3. req' = [req EXCEPT ![q] = r]
      BY <1>8, <2>2, <3>1, <3>2 DEF InsertKey
    <3>4. Like(s, r) /\ r.phase = "done" /\ r.reply = reply
      BY <3>2, FinishedLike DEF Finished
    <3> QED BY <1>2, <2>2, <3>1, <3>3, <3>4
  <2> QED BY <2>1, <2>2
<1>9. CASE Sibling(q)
  <2>1. PICK r : r = [s EXCEPT !.steps = Tail(s.steps), !.siblings = Siblings]
    OBVIOUS
  <2>2. Like(s, r) /\ r.phase = "txn" /\ r.reply = "" /\ Onward(s, r)
    BY <1>2, <2>1 DEF Like, Onward, Fields
  <2>3. req' = [req EXCEPT ![q] = r]
    BY <1>2, <1>9, <2>1 DEF Sibling
  <2> QED BY <1>1, <1>2, <1>9, <2>2, <2>3
<1>10. CASE Beside(q)
  <2>1. PICK u : u = [s EXCEPT !.steps = Tail(s.steps)]
    OBVIOUS
  <2>2. /\ Like(s, u) /\ u.phase = "txn" /\ u.reply = ""
        /\ Onward(s, u) /\ u.siblings = s.siblings
    BY <1>2, <2>1 DEF Like, Onward, Fields
  <2>3. PICK f : f = AfterFailure(s)
    OBVIOUS
  <2>4. Like(s, f) /\ f.phase \in {"txn", "done"} /\ f.reply \in {"", "unknown"}
    BY <1>2, <2>3, FailureLike
  <2>5. CASE s.siblings = Siblings
    <3>1. req' = [req EXCEPT ![q] = u] /\ SiblingFree(q)
      BY <1>10, <2>1, <2>5 DEF Beside
    <3> QED BY <1>1, <1>2, <1>10, <2>2, <2>5, <3>1
  <2>6. CASE s.siblings # Siblings
    <3>1. req' = [req EXCEPT ![q] = f]
      BY <1>10, <2>3, <2>6 DEF Beside
    <3> QED BY <1>2, <2>3, <2>4, <3>1
  <2> QED BY <2>5, <2>6
<1> QED BY <1>4, <1>5, <1>6, <1>7, <1>8, <1>9, <1>10

-----------------------------------------------------------------------------
\* The identities of rows tell the keys.
LEMMA RowOfKey ==
  ASSUME RowsNamed, NEW k \in Keys, NEW i \in {0, 1}, NEW v \in rows, v.record = <<k, i>>
  PROVE  receipts[k] # None /\ receipts[k].record = <<k, i>>
<1>1. v.record # Given
  BY IdentityAssumption DEF Given
<1>2. /\ v.key \in Keys /\ receipts[v.key] # None /\ receipts[v.key].record = v.record
      /\ v.record \in ({v.key} \X {0, 1}) \cup (Requests \X Nat)
  BY <1>1 DEF RowsNamed
<1>3. k \notin Requests
  BY IdentityAssumption
<1>4. v.key = k
  BY <1>2, <1>3
<1> QED BY <1>2, <1>4

\* The highest revision number of a record that has none is 0.
LEMMA HighestOfNone ==
  ASSUME NEW record, RowsOf(record) = {}
  PROVE  Highest(record) = 0
<1>1. {0} \cup {v.number : v \in RowsOf(record)} = {0}
  OBVIOUS
<1>2. Max({0}) = 0
  BY DEF Max
<1> QED BY <1>1, <1>2 DEF Highest

LEMMA ReceiptComesFirst == Head(ReceiptFirst) = "receipt"
BY DEF ReceiptFirst, Receipt

\* The steps of the families that do not allocate.
LEMMA WaysStart ==
  ASSUME NEW f \in AllFamilies, NEW t \in Types(f), f # "subscription" \/ t # "create"
  PROVE  Pre(f, t) \in Seq(Questions) /\ Pre(f, t) # <<>>
<1> DEFINE Good(s) == s \in Seq(Questions) /\ s # <<>>
<1>1. ASSUME NEW a, NEW b, Good(a), Good(b) PROVE Good(a \o b)
  BY <1>1, ConcatProperties, EmptySeq
<1>2. /\ Good(<<"current">>) /\ Good(<<"receipt">>) /\ Good(<<"related">>)
      /\ Good(<<"exists">>) /\ Good(<<"related", "current">>)
      /\ Good(<<"unique">>) /\ Good(<<"unique", "related", "current">>)
      /\ Good(<<"fetch", "related", "compare", "current">>)
      /\ Good(<<"fetch", "current", "compare">>)
  BY DEF Questions
<1> HIDE DEF Good
<1>3. Good(Receipt) /\ Good(ReceiptFirst) /\ Good(CurrentFirst)
  BY <1>1, <1>2 DEF Receipt, ReceiptFirst, CurrentFirst
<1>4. Good(Pre(f, t))
  BY <1>1, <1>2, <1>3 DEF Pre, SplitPre, TenderPre, PreferencePre, AdminDictPre, ReportTemplatePre,
     ProjectPre, WarningPre, MessagePre, MarketingFamilies, PaymentPre, MilestonePre, SalesPre, DeliveryPre,
     FundPre, PlanTaskPre, DynamicCostPre, SubscriptionPre, AllFamilies,
     SalesFamilies, DeliveryFamilies, FundFamilies, Types, ProjectTypes
<1> QED BY <1>4 DEF Good

\* The way to the receipt.
LEMMA WayToReceipt ==
  ASSUME NEW f \in AllFamilies, NEW t \in Types(f), family = f, ~AskedFirst(t)
  PROVE  \/ Head(Pre(f, t)) = "receipt"
         \/ Pre(f, t) = <<"fetch", "allocate", "receipt">>
<1>1. CASE f \in {"expense", "contract", "supplier", "invoice", "loan", "preference",
                  "admin_dict", "report_template", "warning", "message", "split",
                  "tender", "project"}
           \cup MarketingFamilies
  BY <1>1 DEF Pre, SplitPre, TenderPre, PreferencePre, AdminDictPre, ReportTemplatePre,
     ProjectPre, WarningPre, MessagePre, ReceiptFirst, Receipt, MarketingFamilies,
     SalesFamilies, DeliveryFamilies, FundFamilies, Types, ProjectTypes
<1>2. CASE f = "payment"
  BY <1>2, ReceiptComesFirst DEF Pre, PaymentPre, AskedFirst, SalesFamilies, DeliveryFamilies,
     FundFamilies
<1>3. CASE f \in {"milestone", "receivable", "task_report", "plan_task"} \cup FundFamilies
  BY <1>3 DEF AskedFirst
<1>4. CASE f \in SalesFamilies \ {"receivable"}
  <2>1. Pre(f, t) = SalesPre(f, t)
    BY <1>4 DEF Pre, SalesFamilies, DeliveryFamilies, FundFamilies
  <2>2. f = "revenues" => t = "create"
    BY DEF AskedFirst
  <2>3. SalesPre(f, t) = ReceiptFirst
    BY <1>4, <2>2 DEF SalesPre
  <2> QED BY <2>1, <2>3, ReceiptComesFirst
<1>5. CASE f \in DeliveryFamilies \ {"task_report"}
  <2>1. Pre(f, t) = DeliveryPre(f)
    BY <1>5 DEF Pre, DeliveryFamilies, SalesFamilies, FundFamilies
  <2>2. DeliveryPre(f) = ReceiptFirst
    BY <1>5 DEF DeliveryPre
  <2> QED BY <2>1, <2>2, ReceiptComesFirst
<1>6. CASE f = "dynamic_cost"
  BY <1>6, ReceiptComesFirst DEF Pre, DynamicCostPre, AskedFirst, SalesFamilies,
     DeliveryFamilies, FundFamilies
<1>7. CASE f = "subscription"
  <2>1. t = "create"
    BY <1>7 DEF AskedFirst, Types, SubscriptionTypes
  <2> QED BY <1>7, <2>1 DEF Pre, SubscriptionPre, SalesFamilies, DeliveryFamilies, FundFamilies
<1> QED BY <1>1, <1>2, <1>3, <1>4, <1>5, <1>6, <1>7 DEF AllFamilies

-----------------------------------------------------------------------------
\* What the invariant says of the shape of a request.
LEMMA BegunShape ==
  ASSUME IInv, NEW q \in Requests, Begun(q)
  PROVE  /\ DOMAIN req = Requests /\ family \in AllFamilies
         /\ req[q].phase \in {"pre", "txn", "done"}
         /\ req[q].order.key \in Keys /\ req[q].request \in Sayable
         /\ receipts[req[q].order.key] \in Sayable \cup {None}
         /\ req[q].phase # "done" => Ongoing(req[q]) /\ req[q].reply = ""
BY BridgeAssumption DEF IInv, Shape, Begun, Formed, Ended, Ongoing, Ordered

\* A stored receipt stays, and so does what was said because of it.
LEMMA FineStays ==
  ASSUME NEW r, r.order.key \in Keys, Fine(r), family' = family,
         \A k \in Keys : receipts[k] # None => receipts'[k] = receipts[k]
  PROVE  Fine(r)'
<1>1. Named(r)'
  BY DEF Fine, Named
<1>2. Steady(r)'
  BY DEF Fine, Steady
<1>3. Backed(r)'
  BY DEF Fine, Backed
<1>4. Retried(r)'
  BY DEF Fine, Retried, AskedFirst, Backed
<1>5. Ways(r)'
  BY DEF Fine, Ways
<1> QED BY <1>1, <1>2, <1>3, <1>4, <1>5 DEF Fine

\* One request goes on, or comes in.
LEMMA Moved ==
  ASSUME IInv, Telling, NEW q \in Requests, NEW r,
         req' = [req EXCEPT ![q] = r], UNCHANGED <<family, rows, receipts, orphans>>,
         r.phase # "idle", r.sends \in Nat \ {0}, Fine(r),
         Begun(q) => r.order = req[q].order,
         r.sends = 1 /\ (\A p \in Requests \ {q} :
                           req[p].phase = "idle" \/ req[p].order.key # r.order.key)
           => Unspoilt(r)
  PROVE  Telling'
<1>1. /\ \A p \in Requests : req'[p] = IF p = q THEN r ELSE req[p]
      /\ \A p \in Requests : Begun(p) => Begun(p)' /\ req'[p].order = req[p].order
  BY DEF IInv, Shape, Begun
<1>2. Rooted'
  BY <1>1 DEF Telling, Rooted
<1>3. ASSUME NEW p \in Requests PROVE FirstTime(p)'
  <2>1. CASE p = q
    <3>1. Sole(p)' => \A u \in Requests \ {q} :
                         req[u].phase = "idle" \/ req[u].order.key # r.order.key
      BY <1>1, <2>1 DEF Sole
    <3> QED BY <1>1, <2>1, <3>1 DEF FirstTime, Unspoilt
  <2>2. CASE p # q
    <3>1. req'[p] = req[p] /\ (Begun(p)' <=> Begun(p))
      BY <1>1, <2>2 DEF Begun
    <3>2. Begun(p) /\ Sole(p)' => Sole(p)
      BY <1>1, <3>1 DEF Sole, Begun
    <3>3. FirstTime(p)
      BY DEF Telling
    <3> QED BY <3>1, <3>2, <3>3 DEF FirstTime, Unspoilt
  <2> QED BY <2>1, <2>2
<1>4. ASSUME NEW p \in Requests, Begun(p)' PROVE (req[p].sends \in Nat \ {0} /\ Fine(req[p]))'
  <2>1. \A u : Fine(u) => Fine(u)'
    BY DEF Fine, Named, Steady, Backed, Retried, Ways, AskedFirst
  <2>2. req'[p].sends \in Nat \ {0} /\ Fine(req'[p])
    BY <1>1, <1>4 DEF Telling, Begun
  <2>3. PICK u : u = req'[p]
    OBVIOUS
  <2> QED BY <2>1, <2>2, <2>3
<1>5. (\A s \in orphans : Named(s))' /\ RowsNamed'
  BY DEF Telling, Named, RowsNamed
<1> QED BY <1>2, <1>3, <1>4, <1>5 DEF Telling

\* The request as it is sent.
LEMMA StartTells ==
  ASSUME IInv, Telling, NEW q \in Requests, NEW o, NEW n \in Nat \ {0}, NEW first,
         Ordered(o), o.type \in Types(family),
         family = "subscription" /\ o.type = "create" => o.by = "allocated",
         req' = [req EXCEPT ![q] = Started(o, q, n, first)],
         UNCHANGED <<family, rows, receipts, orphans>>,
         \/ ~Begun(q) /\ n = 1 /\ first = ""
         \/ /\ Begun(q) /\ n # 1 /\ o = req[q].order
            /\ first = "ok" => req[q].first = "ok" \/ req[q].reply = "ok"
  PROVE  Telling'
<1>1. PICK r : r = Started(o, q, n, first)
  OBVIOUS
<1>2. /\ r.phase = "pre" /\ r.order = o /\ r.sends = n /\ r.first = first /\ r.reply = ""
      /\ r.request = Built(o, RecordFor(o, q, n)) /\ r.steps = Pre(family, o.type)
  BY <1>1 DEF Started
<1>3. o.key \in Keys /\ family \in AllFamilies
  BY BridgeAssumption DEF Ordered, IInv, Shape
<1>4. Named(r)
  <2>1. RecordFor(o, q, n) \in {Given} \cup ({o.key} \X {0, 1}) \cup (Requests \X Nat)
    <3>1. <<q, n>> \in Requests \X Nat
      OBVIOUS
    <3>. QED BY <3>1 DEF RecordFor
  <2>2. /\ Built(o, RecordFor(o, q, n)).type = o.type
        /\ Built(o, RecordFor(o, q, n)).wants = o.wants
        /\ Built(o, RecordFor(o, q, n)).record = RecordFor(o, q, n)
    BY DEF Built
  <2>. QED BY <1>2, <2>1, <2>2 DEF Named
<1>5. Repeats(o) => r.request = Plain(o)
  BY <1>2 DEF Repeats, Plain, Built, RecordFor
<1>6. Steady(r)
  BY <1>2, <1>5 DEF Steady
<1>7. Backed(r)
  <2>1. first = "ok" => Begun(q) /\ o = req[q].order /\ Backed(req[q])
                        /\ (req[q].first = "ok" \/ req[q].reply = "ok")
    BY DEF Telling, Fine
  <2> QED BY <1>2, <2>1 DEF Backed
<1>8. Retried(r)
  BY <1>2, <1>3, <1>5, WayToReceipt DEF Retried
<1>10. Ways(r)
  <2>1. CASE family = "subscription" /\ o.type = "create"
    <3>1. Pre(family, o.type) = <<"fetch", "allocate", "receipt">>
      BY <2>1 DEF Pre, SubscriptionPre, SalesFamilies, DeliveryFamilies, FundFamilies
    <3> QED BY <1>2, <1>5, <2>1, <3>1 DEF Ways
  <2>2. CASE ~(family = "subscription" /\ o.type = "create")
    BY <1>2, <1>3, <2>2, WaysStart DEF Ways
  <2> QED BY <2>1, <2>2
<1>9. r.sends = 1 /\ (\A p \in Requests \ {q} :
                        req[p].phase = "idle" \/ req[p].order.key # r.order.key)
        => Unspoilt(r)
  <2> SUFFICES ASSUME r.sends = 1,
                      \A p \in Requests \ {q} :
                        req[p].phase = "idle" \/ req[p].order.key # r.order.key
               PROVE  Unspoilt(r)
    OBVIOUS
  <2>0. n = 1
    BY <1>2
  <2>1. \A p \in Requests : Begun(p) => req[p].order.key # o.key
    <3>1. ~Begun(q)
      BY <2>0
    <3>. QED BY <1>2, <3>1 DEF Begun
  <2>2. Rooted
    BY DEF Telling
  <2>3. receipts[o.key] = None
    BY <1>3, <2>1, <2>2 DEF Rooted
  <2>4. ASSUME NEW s \in orphans PROVE s.order.key # o.key
    <3>1. PICK p \in Requests : Begun(p) /\ req[p].order.key = s.order.key
      BY <2>2 DEF Rooted
    <3> QED BY <2>1, <3>1
  <2> QED BY <1>2, <2>3, <2>4 DEF Unspoilt
<1> QED BY <1>1, <1>2, <1>4, <1>6, <1>7, <1>8, <1>9, <1>10, Moved DEF Fine

LEMMA SendTells ==
  ASSUME IInv, Telling, NEW q \in Requests, Send(q)
  PROVE  Telling'
<1>1. PICK o \in Orders : req' = [req EXCEPT ![q] = Started(o, q, 1, "")]
  BY DEF Send
<1>2. Ordered(o)
  BY OrderShape DEF IInv, Shape
<1>3. /\ o.type \in Types(family)
      /\ o.by \in IF o.type = "create" THEN Identities(family) ELSE {"given"}
  <2>1. PICK t \in Types(family) :
          o \in [type : {t}, key : Keys, body : Bodies,
                 by : IF t = "create" THEN Identities(family) ELSE {"given"},
                 dated : IF Stamped(family, t) THEN BOOLEAN ELSE {FALSE},
                 mine : IF Owned(family, t) THEN BOOLEAN ELSE {TRUE},
                 wants : Wants(family, t)]
    BY DEF Orders
  <2> QED BY <2>1
<1>4. UNCHANGED <<family, rows, receipts, orphans>> /\ ~Begun(q)
  BY DEF Send, Begun
<1>5. 1 \in Nat \ {0}
  OBVIOUS
<1>6. family = "subscription" /\ o.type = "create" => o.by = "allocated"
  <2> SUFFICES ASSUME family = "subscription", o.type = "create" PROVE o.by = "allocated"
    OBVIOUS
  <2>1. o.by \in IF o.type = "create" THEN Identities(family) ELSE {"given"}
    BY <1>3
  <2>2. Identities("subscription") = {"allocated"}
    BY DEF Identities, MarketingFamilies, FundFamilies
  <2> QED BY <2>1, <2>2
<1> QED BY <1>1, <1>2, <1>3, <1>4, <1>5, <1>6, StartTells

LEMMA ResendTells ==
  ASSUME IInv, Telling, NEW q \in Requests, Resend(q)
  PROVE  Telling'
<1>1. /\ Ordered(req[q].order) /\ Begun(q) /\ req[q].sends \in Nat \ {0}
      /\ req[q].order.type \in Types(family)
      /\ family = "subscription" /\ req[q].order.type = "create" => req[q].order.by = "allocated"
  BY DEF Resend, IInv, Shape, Formed, Ended, Telling, Begun, Fine, Named
<1>2. PICK o, n, first :
        /\ o = req[q].order /\ n = req[q].sends + 1
        /\ first = IF req[q].first = "ok" THEN "ok" ELSE req[q].reply
  OBVIOUS
<1>3. req' = [req EXCEPT ![q] = Started(o, q, n, first)]
  BY <1>2 DEF Resend
<1>4. /\ n \in Nat \ {0} /\ n # 1 /\ Ordered(o) /\ o.type \in Types(family)
      /\ family = "subscription" /\ o.type = "create" => o.by = "allocated"
  BY <1>1, <1>2
<1>5. UNCHANGED <<family, rows, receipts, orphans>>
  BY DEF Resend
<1> QED BY <1>1, <1>2, <1>3, <1>4, <1>5, StartTells

-----------------------------------------------------------------------------
\* A request with another record.
About(r, record) == [r EXCEPT !.record = record]

LEMMA AboutAnother ==
  ASSUME NEW r \in Sayable, NEW x
  PROVE  /\ About(r, x).record = x /\ About(r, x).type = r.type
         /\ About(r, x).wants = r.wants
         /\ x = r.record => About(r, x) = r
BY DEF Sayable, About

\* The steps of the creation that allocates.
LEMMA AllocationSteps ==
  /\ Head(<<"fetch", "allocate", "receipt">>) = "fetch"
  /\ Tail(<<"fetch", "allocate", "receipt">>) = <<"allocate", "receipt">>
  /\ Head(<<"allocate", "receipt">>) = "allocate"
  /\ Tail(<<"allocate", "receipt">>) = <<"receipt">>
  /\ Head(<<"receipt">>) = "receipt"
  /\ <<"receipt">> # <<>> /\ <<"allocate", "receipt">> # <<>>
  /\ <<"fetch", "allocate", "receipt">> # <<"allocate", "receipt">>
  /\ <<"receipt">> # <<"allocate", "receipt">>
  /\ <<"fetch", "allocate", "receipt">> # <<"receipt">>
OBVIOUS

\* What a step before the transaction makes of its request.
GoesOn(s, step, goes) ==
  /\ goes.order = s.order /\ goes.sends = s.sends /\ goes.first = s.first
  /\ goes.phase = "pre" /\ goes.reply = "" /\ goes.steps = Tail(s.steps)
  /\ step # "allocate" => goes.request = s.request
  /\ step = "allocate" =>
       \/ goes.request = About(s.request, <<s.order.key, 0>>)
       \/ /\ goes.request = About(s.request, <<s.order.key, 1>>)
          /\ s.got = None /\ Highest(<<s.order.key, 0>>) # 0
  /\ goes.got = IF step = "fetch" THEN receipts[s.order.key] ELSE s.got
  /\ goes.seen = IF step \in {"current", "exists"} THEN Highest(s.request.record) ELSE s.seen

LEMMA AdvancedIs ==
  ASSUME NEW s, Ongoing(s), s.phase = "pre", NEW step
  PROVE  GoesOn(s, step, Advanced(s, step))
<1>0. PICK goes : goes = Advanced(s, step)
  OBVIOUS
<1> SUFFICES GoesOn(s, step, goes)
  BY <1>0
<1>1. PICK on : on = [s EXCEPT !.steps = Tail(@)]
  OBVIOUS
<1>2. /\ DOMAIN on = Fields /\ on.phase = "pre" /\ on.order = s.order
      /\ on.sends = s.sends /\ on.first = s.first /\ on.request = s.request
      /\ on.got = s.got /\ on.reply = "" /\ on.steps = Tail(s.steps)
      /\ on.seen = s.seen
  BY <1>1 DEF Ongoing, Fields
<1>3. CASE step = "fetch"
  <2>1. PICK u : u = [on EXCEPT !.got = receipts[s.order.key]]
    OBVIOUS
  <2>2. goes = u
    BY <1>0, <1>1, <1>3, <2>1 DEF Advanced
  <2> QED BY <1>2, <1>3, <2>1, <2>2 DEF Fields, GoesOn
<1>4. CASE step \in {"current", "exists"}
  <2>1. PICK u : u = [on EXCEPT !.seen = Highest(s.request.record)]
    OBVIOUS
  <2>2. goes = u
    BY <1>0, <1>1, <1>4, <2>1 DEF Advanced
  <2> QED BY <1>2, <1>4, <2>1, <2>2 DEF Fields, GoesOn
<1>5. CASE step = "allocate"
  <2>1. PICK record : record = IF on.got # None \/ Highest(<<on.order.key, 0>>) = 0
                               THEN <<on.order.key, 0>> ELSE <<on.order.key, 1>>
    OBVIOUS
  <2>2. PICK request : request = About(on.request, record)
    OBVIOUS
  <2>3. PICK u : u = [on EXCEPT !.request = request]
    OBVIOUS
  <2>4. goes = u
    BY <1>0, <1>1, <1>2, <1>5, <2>1, <2>2, <2>3 DEF Advanced, About
  <2>5. /\ u.phase = "pre" /\ u.order = s.order /\ u.sends = s.sends /\ u.first = s.first
        /\ u.request = request /\ u.got = s.got /\ u.reply = "" /\ u.steps = Tail(s.steps)
        /\ u.seen = s.seen
    BY <1>2, <2>3 DEF Fields
  <2>6. \/ request = About(s.request, <<s.order.key, 0>>)
        \/ /\ request = About(s.request, <<s.order.key, 1>>)
           /\ s.got = None /\ Highest(<<s.order.key, 0>>) # 0
    BY <1>2, <2>1, <2>2
  <2> QED BY <1>5, <2>4, <2>5, <2>6 DEF GoesOn
<1>6. CASE step \notin {"fetch", "current", "exists", "allocate"}
  <2>1. goes = on
    BY <1>0, <1>1, <1>6 DEF Advanced
  <2> QED BY <1>2, <1>6, <2>1 DEF GoesOn
<1> QED BY <1>3, <1>4, <1>5, <1>6

\* Only the creation of a subscription allocates.
LEMMA WhoAllocates ==
  ASSUME NEW s, Ways(s), s.phase = "pre"
  PROVE  /\ Head(s.steps) = "allocate" =>
              /\ family = "subscription" /\ s.order.type = "create"
              /\ s.steps = <<"allocate", "receipt">>
              /\ Repeats(s.order) => s.request = Plain(s.order)
         /\ \/ Tail(s.steps) = <<>>
            \/ IF family = "subscription" /\ s.order.type = "create"
               THEN \/ s.steps = <<"fetch", "allocate", "receipt">>
                       /\ Tail(s.steps) = <<"allocate", "receipt">>
                    \/ s.steps = <<"allocate", "receipt">> /\ Tail(s.steps) = <<"receipt">>
               ELSE Tail(s.steps) \in Seq(Questions)
<1>1. CASE family = "subscription" /\ s.order.type = "create"
  <2>1. CASE s.steps = <<"receipt">>
    BY <2>1
  <2>2. CASE s.steps = <<"allocate", "receipt">>
    BY <1>1, <2>1, <2>2 DEF Ways
  <2>3. CASE s.steps = <<"fetch", "allocate", "receipt">>
    BY <1>1, <2>3
  <2> QED BY <1>1, <2>1, <2>2, <2>3 DEF Ways
<1>2. CASE ~(family = "subscription" /\ s.order.type = "create")
  <2>1. s.steps \in Seq(Questions) /\ s.steps # <<>>
    BY <1>2 DEF Ways
  <2>2. Head(s.steps) \in Questions /\ Tail(s.steps) \in Seq(Questions)
    BY <2>1
  <2> QED BY <1>2, <2>2 DEF Questions
<1> QED BY <1>1, <1>2

\* A step before the transaction that lets the request go on.
LEMMA AdvancedFine ==
  ASSUME IInv, Telling, NEW q \in Requests, req[q].phase = "pre",
         Passes(req[q], Head(req[q].steps)),
         NEW on, on = Advanced(req[q], Head(req[q].steps))
  PROVE  /\ Named(on) /\ Steady(on) /\ Backed(on)
         /\ Retried(on) /\ (Retried(req[q]) => on.steps # <<>>
              \/ ~(on.first = "ok" /\ Repeats(on.order) /\ ~AskedFirst(on.order.type)))
         /\ on.steps # <<>> => Ways(on)
<1>1. PICK s : s = req[q]
  OBVIOUS
<1>2. PICK step : step = Head(s.steps)
  OBVIOUS
<1>3. /\ Ongoing(s) /\ s.phase = "pre" /\ s.reply = "" /\ Fine(s)
      /\ s.order.key \in Keys /\ s.request \in Sayable
      /\ receipts[s.order.key] \in Sayable \cup {None}
  BY <1>1, BegunShape DEF Telling, Begun
<1>4. on = Advanced(s, step) /\ Passes(s, step)
  BY <1>1, <1>2
<1>5. /\ on.order = s.order /\ on.sends = s.sends /\ on.first = s.first
      /\ on.phase = "pre" /\ on.reply = "" /\ on.steps = Tail(s.steps)
      /\ step # "allocate" => on.request = s.request
      /\ step = "allocate" =>
           \/ on.request = About(s.request, <<s.order.key, 0>>)
           \/ /\ on.request = About(s.request, <<s.order.key, 1>>)
              /\ s.got = None /\ Highest(<<s.order.key, 0>>) # 0
      /\ on.got = IF step = "fetch" THEN receipts[s.order.key] ELSE s.got
  <2>1. GoesOn(s, step, on)
    BY <1>3, <1>4, AdvancedIs
  <2> QED BY <2>1 DEF GoesOn
<1>6. step = "allocate" =>
        /\ family = "subscription" /\ s.order.type = "create" /\ s.order.by = "allocated"
        /\ s.steps = <<"allocate", "receipt">>
        /\ Repeats(s.order) => s.request = Plain(s.order)
  BY <1>2, <1>3, WhoAllocates DEF Fine, Named
<1>7. Named(on)
  <2>1. CASE step # "allocate"
    BY <1>3, <1>5, <2>1 DEF Fine, Named
  <2>2. CASE step = "allocate"
    <3>0. PICK i \in {0, 1} : on.request = About(s.request, <<s.order.key, i>>)
      BY <1>5, <2>2
    <3>1. PICK record : record = <<s.order.key, i>>
      OBVIOUS
    <3>2. on.request = About(s.request, record)
      BY <3>0, <3>1
    <3>3. /\ on.request.type = s.request.type /\ on.request.record = record
          /\ on.request.wants = s.request.wants
      <4>1. s.request \in Sayable
        BY <1>3
      <4>2. /\ About(s.request, record).record = record
            /\ About(s.request, record).type = s.request.type
            /\ About(s.request, record).wants = s.request.wants
        BY <4>1, AboutAnother
      <4> QED BY <3>2, <4>2
    <3>4. record \in {s.order.key} \X {0, 1}
      BY <3>1
    <3> QED BY <1>3, <1>5, <3>3, <3>4 DEF Fine, Named
  <2> QED BY <2>1, <2>2
<1>8. step = "allocate" /\ Repeats(s.order) =>
        \/ on.request = Plain(s.order)
        \/ receipts[s.order.key] \notin {None, on.request} /\ s.got = None
  <2> SUFFICES ASSUME step = "allocate", Repeats(s.order)
               PROVE  \/ on.request = Plain(s.order)
                      \/ receipts[s.order.key] \notin {None, on.request} /\ s.got = None
    OBVIOUS
  <2>1. s.request = Plain(s.order) /\ s.order.by # "given"
    BY <1>6
  <2>2. CASE on.request = About(s.request, <<s.order.key, 0>>)
    <3>1. s.request.record = <<s.order.key, 0>>
      BY <2>1 DEF Plain
    <3>2. on.request = s.request
      BY <1>3, <2>2, <3>1, AboutAnother
    <3> QED BY <2>1, <3>2
  <2>3. CASE /\ on.request = About(s.request, <<s.order.key, 1>>)
             /\ s.got = None /\ Highest(<<s.order.key, 0>>) # 0
    <3>1. PICK v \in rows : v.record = <<s.order.key, 0>>
      BY <2>3, HighestOfNone DEF RowsOf
    <3>2. receipts[s.order.key] # None /\ receipts[s.order.key].record = <<s.order.key, 0>>
      BY <1>3, <3>1, RowOfKey DEF Telling
    <3>3. on.request.record = <<s.order.key, 1>>
      BY <1>3, <2>3, AboutAnother
    <3> QED BY <2>3, <3>2, <3>3
  <2> QED BY <1>5, <2>2, <2>3
<1>9. Steady(on)
  BY <1>3, <1>5, <1>8 DEF Fine, Steady
<1>10. Backed(on)
  BY <1>3, <1>5 DEF Fine, Backed
<1>11. ASSUME on.first = "ok", Repeats(on.order), ~AskedFirst(on.order.type)
       PROVE  /\ on.request = Plain(on.order) /\ on.steps # <<>>
              /\ \/ Head(on.steps) = "receipt"
                 \/ on.steps = <<"allocate", "receipt">> /\ on.got # None
  <2>1. /\ s.request = Plain(s.order) /\ receipts[s.order.key] # None
        /\ \/ step = "receipt"
           \/ s.steps = <<"fetch", "allocate", "receipt">>
           \/ s.steps = <<"allocate", "receipt">> /\ s.got # None
    BY <1>2, <1>3, <1>5, <1>11 DEF Fine, Retried, Backed
  <2>2. step # "receipt"
    BY <1>4, <2>1 DEF Passes
  <2>3. CASE s.steps = <<"fetch", "allocate", "receipt">>
    <3>1. step = "fetch" /\ on.steps = <<"allocate", "receipt">>
      BY <1>2, <1>5, <2>3, AllocationSteps
    <3> QED BY <1>5, <2>1, <3>1, AllocationSteps
  <2>4. CASE s.steps = <<"allocate", "receipt">> /\ s.got # None
    <3>1. step = "allocate" /\ on.steps = <<"receipt">>
      BY <1>2, <1>5, <2>4, AllocationSteps
    <3> QED BY <1>5, <1>8, <1>11, <2>4, <3>1, AllocationSteps
  <2> QED BY <2>1, <2>2, <2>3, <2>4
<1>12. Retried(on)
  BY <1>5, <1>11 DEF Retried
<1>13. on.steps # <<>> => Ways(on)
  <2> SUFFICES ASSUME on.steps # <<>> PROVE Ways(on)
    OBVIOUS
  <2>1. CASE family = "subscription" /\ s.order.type = "create"
    <3>1. CASE s.steps = <<"fetch", "allocate", "receipt">> /\ Tail(s.steps) = <<"allocate", "receipt">>
      <4>1. step = "fetch"
        BY <1>2, <3>1
      <4>2. Repeats(s.order) => s.request = Plain(s.order)
        BY <1>3, <2>1, <3>1, AllocationSteps DEF Fine, Ways
      <4> QED BY <1>5, <2>1, <3>1, <4>1, <4>2 DEF Ways
    <3>2. CASE Tail(s.steps) = <<"receipt">>
      BY <1>5, <2>1, <3>2 DEF Ways
    <3> QED BY <1>3, <1>5, <2>1, <3>1, <3>2, WhoAllocates DEF Fine
  <2>2. CASE ~(family = "subscription" /\ s.order.type = "create")
    BY <1>3, <1>5, <2>2, WhoAllocates DEF Fine, Ways
  <2> QED BY <2>1, <2>2
<1> QED BY <1>7, <1>9, <1>10, <1>11, <1>12, <1>13

LEMMA PreStepTells ==
  ASSUME IInv, Telling, NEW q \in Requests, PreStep(q)
  PROVE  Telling'
<1>1. /\ req[q].phase = "pre" /\ Begun(q) /\ Ongoing(req[q]) /\ WasRead(req[q]) /\ Shape
      /\ req[q].sends \in Nat \ {0} /\ Fine(req[q])
  BY DEF PreStep, IInv, Shape, Formed, Known, Begun, Telling
<1>2. PICK on : on = Advanced(req[q], Head(req[q].steps))
  OBVIOUS
<1>3. /\ Named(on) /\ Steady(on) /\ Backed(on) /\ Retried(on)
      /\ on.steps # <<>> \/ ~(on.first = "ok" /\ Repeats(on.order) /\ ~AskedFirst(on.order.type))
      /\ on.steps # <<>> => Ways(on)
  BY <1>1, <1>2, AdvancedFine DEF PreStep, Fine
<1>4. /\ on.order = req[q].order /\ on.sends = req[q].sends /\ on.phase = "pre"
      /\ on.reply = "" /\ Ongoing(on)
  <2>1. GoesOn(req[q], Head(req[q].steps), on)
    BY <1>1, <1>2, AdvancedIs
  <2> QED BY <1>1, <1>2, <2>1, AdvancedShape DEF GoesOn
<1>5. PICK r : r = IF on.steps = <<>> THEN AtBegin(on) ELSE on
  OBVIOUS
<1>6. req' = [req EXCEPT ![q] = r] /\ UNCHANGED <<family, rows, receipts, orphans>>
  BY <1>2, <1>5 DEF PreStep
<1>7. /\ Like(on, r) /\ r.phase \in {"pre", "txn"} /\ r.reply = ""
      /\ r.phase = "txn" => on.steps = <<>>
  BY <1>4, <1>5, AtBeginLike DEF Like
<1>8. Fine(r)
  <2>1. CASE on.steps = <<>>
    <3>1. r.phase = "txn"
      BY <1>4, <1>5, <2>1, AtBeginLike
    <3> QED BY <1>3, <1>4, <1>7, <2>1, <3>1 DEF Like, Fine, Named, Steady, Backed, Retried, Ways
  <2>2. CASE on.steps # <<>>
    BY <1>3, <1>5, <2>2 DEF Fine
  <2> QED BY <2>1, <2>2
<1>9. r.sends = 1 /\ (\A p \in Requests \ {q} :
                        req[p].phase = "idle" \/ req[p].order.key # r.order.key)
        => Unspoilt(r)
  <2> SUFFICES ASSUME r.sends = 1,
                      \A p \in Requests \ {q} :
                        req[p].phase = "idle" \/ req[p].order.key # r.order.key
               PROVE  Unspoilt(r)
    OBVIOUS
  <2>1. req[q].sends = 1 /\ Sole(q)
    BY <1>4, <1>7 DEF Like, Sole
  <2>2. Unspoilt(req[q])
    BY <1>1, <2>1 DEF Telling, FirstTime
  <2> QED BY <1>1, <1>4, <1>7, <2>2 DEF Unspoilt, Like
<1> QED BY <1>1, <1>4, <1>6, <1>7, <1>8, <1>9, Moved DEF Like

\* What is stored answers itself, and anything of its type a message.
LEMMA AnswersItself ==
  ASSUME NEW f, NEW stored, NEW mine,
         \/ stored = mine
         \/ f \in Uncompared
         \/ f = "message" /\ stored.type = mine.type
  PROVE  Answers(f, stored, mine)
BY DEF Answers, ReportTemplateAnswers, MessageAnswers, Uncompared

LEMMA PreReplyTells ==
  ASSUME IInv, Telling, NEW q \in Requests, PreReply(q)
  PROVE  Telling'
<1>1. PICK s, step, stored, reply :
        /\ s = req[q] /\ step = Head(s.steps)
        /\ stored = IF step = "receipt" THEN receipts[s.order.key] ELSE s.got
        /\ reply = IF step \in {"receipt", "compare"} /\ Answers(family, stored, s.request)
                   THEN "ok" ELSE "refused"
  OBVIOUS
<1>2. /\ s.phase = "pre" /\ Begun(q) /\ WasRead(s) /\ Fine(s) /\ s.sends \in Nat \ {0}
      /\ ~Passes(s, step) /\ s.reply = ""
  BY <1>1 DEF PreReply, IInv, Shape, Formed, Ongoing, Known, Begun, Telling
<1>3. PICK r : r = Finished(s, reply)
  OBVIOUS
<1>4. req' = [req EXCEPT ![q] = r] /\ UNCHANGED <<family, rows, receipts, orphans>>
  BY <1>1, <1>3 DEF PreReply
<1>5. Like(s, r) /\ r.phase = "done" /\ r.reply = reply
  BY <1>3, FinishedLike DEF Finished
<1>6. reply = "ok" =>
        /\ stored = receipts[s.order.key] /\ stored # None /\ Answers(family, stored, s.request)
  <2> SUFFICES ASSUME reply = "ok"
               PROVE  /\ stored = receipts[s.order.key] /\ stored # None
                      /\ Answers(family, stored, s.request)
    OBVIOUS
  <2>1. step \in {"receipt", "compare"} /\ Answers(family, stored, s.request)
    BY <1>1
  <2>2. CASE step = "receipt"
    BY <1>1, <1>2, <2>1, <2>2 DEF Passes
  <2>3. CASE step = "compare"
    <3>1. s.got # None
      BY <1>2, <2>3 DEF Passes
    <3> QED BY <1>1, <1>2, <2>1, <2>3, <3>1 DEF WasRead
  <2> QED BY <2>1, <2>2, <2>3
<1>7. Named(r) /\ Steady(r) /\ Ways(r)
  BY <1>2, <1>5 DEF Like, Fine, Named, Steady, Ways
<1>8. Backed(r)
  <2>1. CASE r.first = "ok"
    BY <1>2, <1>5, <2>1 DEF Like, Fine, Backed
  <2>2. CASE reply = "ok"
    <3>1. family = "message" => stored.type = s.order.type
      BY <1>2, <1>6, <2>2 DEF Answers, MessageAnswers, Uncompared, Fine, Named
    <3>2. family \notin Uncompared \cup Single \cup {"message"} => stored = s.request
      BY <1>6, <2>2 DEF Answers, Single
    <3>3. family \notin Uncompared \cup Single \cup {"message"} /\ Repeats(s.order)
          => stored = Plain(s.order)
      BY <1>2, <1>6, <2>2, <3>2 DEF Fine, Steady
    <3> QED BY <1>5, <1>6, <2>2, <3>1, <3>3 DEF Like, Backed
  <2> QED BY <1>5, <2>1, <2>2 DEF Backed
<1>9. Retried(r)
  <2> SUFFICES ASSUME r.first = "ok", Repeats(r.order), ~AskedFirst(r.order.type),
                      reply = "refused"
               PROVE  family \in Single /\ receipts[r.order.key] # r.request
    BY <1>5 DEF Retried
  <2>1. /\ s.request = Plain(s.order) /\ Backed(s) /\ s.first = "ok"
        /\ Repeats(s.order) /\ s.request.type = s.order.type
        /\ \/ step = "receipt"
           \/ s.steps = <<"fetch", "allocate", "receipt">>
           \/ s.steps = <<"allocate", "receipt">>
    BY <1>1, <1>2, <1>5 DEF Like, Fine, Retried, Named
  <2>2. step \notin {"fetch", "allocate"}
    BY <1>2 DEF Passes
  <2>3. step = "receipt" /\ stored = receipts[s.order.key]
    BY <1>1, <2>1, <2>2, AllocationSteps
  <2>4. ~Answers(family, stored, s.request)
    BY <1>1, <2>3
  <2>5. stored # s.request /\ family \notin Uncompared
        /\ ~(family = "message" /\ stored.type = s.request.type)
    BY <2>4, AnswersItself
  <2>6. family \in Single
    BY <2>1, <2>3, <2>5 DEF Backed
  <2> QED BY <1>5, <2>3, <2>5, <2>6 DEF Like
<1>10. r.sends = 1 /\ (\A p \in Requests \ {q} :
                         req[p].phase = "idle" \/ req[p].order.key # r.order.key)
         => Unspoilt(r)
  <2> SUFFICES ASSUME r.sends = 1,
                      \A p \in Requests \ {q} :
                        req[p].phase = "idle" \/ req[p].order.key # r.order.key
               PROVE  Unspoilt(r)
    OBVIOUS
  <2>1. req[q].sends = 1 /\ Sole(q)
    BY <1>1, <1>5 DEF Like, Sole
  <2>2. Unspoilt(s)
    BY <1>1, <1>2, <2>1 DEF Telling, FirstTime
  <2> QED BY <1>2, <1>5, <2>2 DEF Unspoilt, Like
<1>11. Fine(r)
  BY <1>7, <1>8, <1>9 DEF Fine
<1> QED BY <1>1, <1>2, <1>4, <1>5, <1>10, <1>11, Moved DEF Like

\* A statement of a transaction, whatever it makes of the request.
LEMMA StatementTells ==
  ASSUME IInv, Telling, NEW q \in Requests,
         \/ Lock(q) \/ InsertKey(q) \/ Read(q) \/ Number(q) \/ Write(q)
         \/ Sibling(q) \/ Beside(q) \/ Deadlock(q)
  PROVE  Telling'
<1>1. PICK s : s = req[q]
  OBVIOUS
<1>2. PICK r :
        /\ req' = [req EXCEPT ![q] = r] /\ UNCHANGED <<family, rows, receipts, orphans>>
        /\ s.phase = "txn" /\ r.phase \in {"txn", "done"} /\ Like(s, r)
        /\ r.reply = "refused" => receipts[s.order.key] \notin {None, s.request}
        /\ r.reply = "ok" =>
             /\ receipts[s.order.key] # None
             /\ family \in Single \/ receipts[s.order.key] = s.request
  BY <1>1, Statements
<1>3. Begun(q) /\ Fine(s) /\ s.sends \in Nat \ {0}
  BY <1>1, <1>2 DEF Begun, Telling
<1>4. Named(r) /\ Steady(r) /\ Ways(r)
  BY <1>2, <1>3 DEF Like, Fine, Named, Steady, Ways
<1>5. Backed(r)
  <2>1. CASE r.first = "ok"
    BY <1>2, <1>3, <2>1 DEF Like, Fine, Backed
  <2>2. CASE r.reply = "ok"
    <3>1. family = "message" => receipts[s.order.key].type = s.order.type
      BY <1>2, <1>3, <2>2 DEF Single, Fine, Named
    <3>2. family \notin Uncompared \cup Single \cup {"message"} /\ Repeats(s.order)
          => receipts[s.order.key] = Plain(s.order)
      BY <1>2, <1>3, <2>2 DEF Fine, Steady
    <3> QED BY <1>2, <2>2, <3>1, <3>2 DEF Like, Backed
  <2> QED BY <2>1, <2>2 DEF Backed
<1>6. Retried(r)
  BY <1>2, <1>3 DEF Like, Fine, Retried
<1>7. r.sends = 1 /\ (\A p \in Requests \ {q} :
                        req[p].phase = "idle" \/ req[p].order.key # r.order.key)
        => Unspoilt(r)
  <2> SUFFICES ASSUME r.sends = 1,
                      \A p \in Requests \ {q} :
                        req[p].phase = "idle" \/ req[p].order.key # r.order.key
               PROVE  Unspoilt(r)
    OBVIOUS
  <2>1. req[q].sends = 1 /\ Sole(q)
    BY <1>1, <1>2 DEF Like, Sole
  <2>2. Unspoilt(s)
    BY <1>1, <1>3, <2>1 DEF Telling, FirstTime
  <2> QED BY <1>2, <2>2 DEF Unspoilt, Like
<1>8. Fine(r)
  BY <1>4, <1>5, <1>6 DEF Fine
<1> QED BY <1>1, <1>2, <1>3, <1>7, <1>8, Moved DEF Like

\* Less of the sessions, or more of the rest of the world, disturbs nothing.
LEMMA LessTells ==
  ASSUME Telling, orphans' \subseteq orphans, UNCHANGED <<family, rows, receipts, req>>
  PROVE  Telling'
<1>1. Rooted' /\ RowsNamed' /\ \A s \in orphans' : Named(s)'
  BY DEF Telling, Rooted, RowsNamed, Begun, Named
<1>2. ASSUME NEW q \in Requests PROVE FirstTime(q)'
  BY DEF Telling, FirstTime, Begun, Sole, Unspoilt
<1>3. ASSUME NEW q \in Requests, Begun(q)' PROVE (req[q].sends \in Nat \ {0} /\ Fine(req[q]))'
  BY <1>3 DEF Telling, Begun, Fine, Named, Steady, Backed, Retried, Ways, AskedFirst
<1> QED BY <1>1, <1>2, <1>3 DEF Telling

\* The killed session keeps what its request was.
LEMMA TimeoutTells ==
  ASSUME IInv, Telling, NEW q \in Requests, Timeout(q)
  PROVE  Telling'
<1>1. PICK s, r : s = req[q] /\ r = AfterFailure(s)
  OBVIOUS
<1>2. /\ s.phase = "txn" /\ Begun(q) /\ Ongoing(s) /\ Fine(s) /\ s.sends \in Nat \ {0}
      /\ DOMAIN req = Requests
  BY <1>1 DEF Timeout, Begun, Telling, IInv, Shape, Formed
<1>3. /\ req' = [req EXCEPT ![q] = r] /\ orphans' = orphans \cup {s}
      /\ UNCHANGED <<family, rows, receipts>>
  BY <1>1 DEF Timeout
<1>4. Like(s, r) /\ r.phase \in {"txn", "done"} /\ r.reply \in {"", "unknown"}
  BY <1>1, <1>2, FailureLike
<1>5. Fine(r)
  BY <1>2, <1>4 DEF Like, Fine, Named, Steady, Backed, Retried, Ways
<1>6. /\ \A p \in Requests : req'[p] = IF p = q THEN r ELSE req[p]
      /\ \A p \in Requests : (Begun(p)' <=> Begun(p)) /\ (Begun(p) => req'[p].order = req[p].order)
  BY <1>1, <1>2, <1>3, <1>4 DEF Begun, Like
<1>7. Rooted'
  <2>1. ASSUME NEW t \in orphans'
        PROVE  \E p \in Requests : Begun(p)' /\ req'[p].order.key = t.order.key
    <3>1. CASE t \in orphans
      BY <1>6, <3>1 DEF Telling, Rooted
    <3>2. CASE t = s
      BY <1>1, <1>2, <1>6, <3>2
    <3> QED BY <1>3, <3>1, <3>2
  <2>2. \A k \in Keys : receipts'[k] # None => \E p \in Requests : Begun(p)' /\ req'[p].order.key = k
    BY <1>3, <1>6 DEF Telling, Rooted
  <2> QED BY <2>1, <2>2 DEF Rooted
<1>8. ASSUME NEW p \in Requests PROVE FirstTime(p)'
  <2> SUFFICES ASSUME Begun(p)', req'[p].sends = 1, Sole(p)' PROVE Unspoilt(req[p])'
    BY DEF FirstTime
  <2>1. Begun(p) /\ req[p].sends = 1 /\ Sole(p)
    <3>1. Sole(p)
      <4>1. ASSUME NEW u \in Requests \ {p}, Begun(u) PROVE req[u].order.key # req[p].order.key
        BY <1>6, <4>1 DEF Sole, Begun
      <4> QED BY <4>1 DEF Sole, Begun
    <3> QED BY <1>1, <1>4, <1>6, <3>1 DEF Like
  <2>2. Unspoilt(req[p])
    BY <2>1 DEF Telling, FirstTime
  <2>3. CASE p = q
    <3>1. Unspoilt(s)
      BY <1>1, <2>2, <2>3
    <3>2. Unspoilt(r)'
      BY <1>2, <1>3, <1>4, <3>1 DEF Unspoilt, Like
    <3> QED BY <1>6, <2>3, <3>2
  <2>4. CASE p # q
    <3>1. s.order.key # req[p].order.key
      BY <1>1, <1>2, <2>1, <2>4 DEF Sole
    <3>2. req'[p] = req[p]
      BY <1>6, <2>4
    <3> QED BY <1>3, <2>2, <3>1, <3>2 DEF Unspoilt
  <2> QED BY <2>3, <2>4
<1>9. ASSUME NEW p \in Requests, Begun(p)' PROVE (req[p].sends \in Nat \ {0} /\ Fine(req[p]))'
  <2>1. \A u : Fine(u) => Fine(u)'
    BY <1>3 DEF Fine, Named, Steady, Backed, Retried, Ways, AskedFirst
  <2>2. PICK u : u = req'[p]
    OBVIOUS
  <2>3. u.sends \in Nat \ {0} /\ Fine(u)
    BY <1>2, <1>4, <1>5, <1>6, <1>9, <2>2 DEF Telling, Begun, Like
  <2> QED BY <2>1, <2>2, <2>3
<1>10. (\A t \in orphans : Named(t))' /\ RowsNamed'
  BY <1>2, <1>3 DEF Telling, Named, RowsNamed, Fine
<1> QED BY <1>7, <1>8, <1>9, <1>10 DEF Telling

\* A commit stores the receipt and the revision of s, which is the session of
\* a request or a killed one.
LEMMA StoredTells ==
  ASSUME IInv, Telling, NEW s, NEW now \in SUBSET Requests,
         \A p \in Requests \ now : req'[p] = req[p],
         \A p \in now : /\ req[p] = s /\ s.phase = "txn" /\ Like(s, req'[p])
                        /\ req'[p].phase = "done" /\ req'[p].reply = "ok",
         s \in orphans \/ now # {}, orphans' \subseteq orphans, family' = family,
         s.order.key \in Keys, receipts[s.order.key] = None, s.request # None,
         receipts'[s.order.key] = s.request,
         \A k \in Keys \ {s.order.key} : receipts'[k] = receipts[k],
         \A v \in rows' : v \in rows \/ (v.key = s.order.key /\ v.record = s.request.record)
  PROVE  Telling'
<1>1. /\ \A p \in Requests : (Begun(p)' <=> Begun(p))
      /\ \A p \in Requests : Begun(p) =>
           req'[p].order = req[p].order /\ req'[p].sends = req[p].sends
  BY DEF Begun, Like
<1>2. \E p \in Requests : Begun(p) /\ req[p].order.key = s.order.key
  BY DEF Telling, Rooted, Begun
<1>3. Named(s)
  BY DEF Telling, Begun, Fine
<1>4. Rooted'
  BY <1>1, <1>2 DEF Telling, Rooted
<1>5. RowsNamed'
  <2> SUFFICES ASSUME NEW v \in rows', v.record # Given
               PROVE  /\ v.key \in Keys /\ receipts'[v.key] # None
                      /\ receipts'[v.key].record = v.record
                      /\ v.record \in ({v.key} \X {0, 1}) \cup (Requests \X Nat)
    BY DEF RowsNamed, Given
  <2>1. CASE v \in rows
    BY <2>1 DEF Telling, RowsNamed
  <2>2. CASE v.key = s.order.key /\ v.record = s.request.record
    BY <1>3, <2>2 DEF Named
  <2> QED BY <2>1, <2>2
<1>6. ASSUME NEW p \in Requests PROVE FirstTime(p)'
  <2> SUFFICES ASSUME Begun(p)', req'[p].sends = 1, Sole(p)' PROVE Unspoilt(req[p])'
    BY DEF FirstTime
  <2>1. Begun(p) /\ req[p].sends = 1 /\ Sole(p)
    <3>1. ASSUME NEW u \in Requests \ {p}, Begun(u) PROVE req[u].order.key # req[p].order.key
      BY <1>1, <3>1 DEF Sole, Begun
    <3> QED BY <1>1, <3>1 DEF Sole, Begun
  <2>2. Unspoilt(req[p])
    BY <2>1 DEF Telling, FirstTime
  <2>3. CASE p \in now
    BY <2>3 DEF Unspoilt
  <2>4. CASE p \notin now
    <3>1. PICK u : u = req[p]
      OBVIOUS
    <3>2. Unspoilt(u) /\ req'[p] = u /\ u.order.key \in Keys
      BY <2>1, <2>2, <2>4, <3>1, BegunShape
    <3>3. CASE u.order.key # s.order.key
      <4>1. Unspoilt(u)'
        BY <3>2, <3>3 DEF Unspoilt
      <4> QED BY <3>2, <4>1
    <3>4. CASE u.order.key = s.order.key
      <4>1. s \in orphans
        BY <2>1, <2>4, <3>1, <3>4 DEF Sole
      <4>2. u.phase # "pre" /\ u.reply # "refused"
            /\ (u.phase = "txn" => s.request = u.request)
        BY <3>2, <3>4, <4>1 DEF Unspoilt
      <4>3. Unspoilt(u)'
        BY <3>2, <3>4, <4>2 DEF Unspoilt
      <4> QED BY <3>2, <4>3
    <3> QED BY <3>3, <3>4
  <2> QED BY <2>3, <2>4
<1>7. ASSUME NEW p \in Requests, Begun(p)' PROVE (req[p].sends \in Nat \ {0} /\ Fine(req[p]))'
  <2>1. /\ Begun(p) /\ req[p].sends \in Nat \ {0} /\ Fine(req[p])
        /\ req[p].order.key \in Keys
    BY <1>1, <1>7, BegunShape DEF Telling
  <2>2. CASE p \notin now
    <3>1. PICK u : u = req[p]
      OBVIOUS
    <3>2. Fine(u)'
      BY <2>1, <3>1, FineStays
    <3> QED BY <2>1, <2>2, <3>1, <3>2
  <2>3. CASE p \in now
    <3>1. PICK r : r = req'[p]
      OBVIOUS
    <3>2. /\ Like(s, r) /\ r.phase = "done" /\ r.reply = "ok" /\ Fine(s)
          /\ receipts'[r.order.key] = r.request /\ r.request # None
      BY <2>1, <2>3, <3>1 DEF Like
    <3>3. Named(r)' /\ Ways(r)' /\ Retried(r)'
      BY <3>2 DEF Like, Fine, Named, Ways, Retried
    <3>4. Repeats(r.order) => r.request = Plain(r.order)
      BY <3>2 DEF Like, Fine, Steady
    <3>5. Steady(r)' /\ Backed(r)'
      BY <3>2, <3>4 DEF Like, Fine, Named, Steady, Backed
    <3> QED BY <1>1, <2>1, <3>1, <3>3, <3>5 DEF Fine
  <2> QED BY <2>2, <2>3
<1>8. (\A t \in orphans : Named(t))'
  BY DEF Telling, Named
<1> QED BY <1>4, <1>5, <1>6, <1>7, <1>8 DEF Telling

LEMMA CommitTells ==
  ASSUME IInv, Telling, NEW q \in Requests, Commit(q)
  PROVE  Telling'
<1>1. PICK s : s = req[q]
  OBVIOUS
<1>2. /\ s.phase = "txn" /\ Head(s.steps) = "commit" /\ CommitOf(s)
      /\ UNCHANGED <<family, orphans>> /\ Ongoing(s) /\ DOMAIN req = Requests
  BY <1>1 DEF Commit, InTxn, IInv, Shape, Formed
<1>3. PICK r : r = Finished(s, "ok")
  OBVIOUS
<1>4. req' = [req EXCEPT ![q] = r]
  BY <1>1, <1>3 DEF Commit
<1>5. \A step \in Claimed : Unmet(Claim(s, step), step)
  <2>1. s.steps = <<"commit">>
    BY <1>2, Steps DEF Ongoing
  <2>2. ~Contains(<<"commit">>, "key") /\ ~Contains(<<"commit">>, "write")
    BY DEF Contains
  <2>3. \A step \in Claimed : Took(s, step)
    BY <2>1, <2>2 DEF Took, Claimed
  <2> QED BY <1>1, <1>2, <2>3 DEF IInv, Clear
<1>6. /\ s.order.key \in Keys /\ receipts[s.order.key] = None
      /\ receipts'[s.order.key] = s.request
      /\ \A k \in Keys \ {s.order.key} : receipts'[k] = receipts[k]
      /\ \A v \in rows' : v \in rows \/ (v.key = s.order.key /\ v.record = s.request.record)
  BY <1>2, <1>5, CommitStores
<1>7. s.request # None
  BY <1>2, NoneApart DEF Ongoing
<1>8. Like(s, r) /\ r.phase = "done" /\ r.reply = "ok"
  BY <1>3, FinishedLike DEF Finished
<1>9. PICK now : now = {q}
  OBVIOUS
<1>10. /\ \A p \in Requests \ now : req'[p] = req[p]
       /\ \A p \in now : /\ req[p] = s /\ s.phase = "txn" /\ Like(s, req'[p])
                         /\ req'[p].phase = "done" /\ req'[p].reply = "ok"
       /\ now # {} /\ now \in SUBSET Requests
  BY <1>1, <1>2, <1>4, <1>8, <1>9
<1>11. orphans' \subseteq orphans /\ family' = family
  BY <1>2
<1> QED BY <1>6, <1>7, <1>10, <1>11, StoredTells

LEMMA OrphanCommitTells ==
  ASSUME IInv, Telling, OrphanCommits
  PROVE  Telling'
<1>1. PICK s \in orphans :
        /\ s.steps = <<"commit">> /\ CommitOf(s) /\ orphans' = orphans \ {s}
  BY DEF OrphanCommits
<1>2. UNCHANGED <<family, req>>
  BY DEF OrphanCommits
<1>3. Ongoing(s) /\ s.phase = "txn"
  BY DEF IInv, Shape
<1>4. \A step \in Claimed : Unmet(Claim(s, step), step)
  <2>1. ~Contains(<<"commit">>, "key") /\ ~Contains(<<"commit">>, "write")
    BY DEF Contains
  <2>2. \A step \in Claimed : Took(s, step)
    BY <1>1, <2>1 DEF Took, Claimed
  <2> QED BY <2>2 DEF IInv, Clear
<1>5. /\ s.order.key \in Keys /\ receipts[s.order.key] = None
      /\ receipts'[s.order.key] = s.request
      /\ \A k \in Keys \ {s.order.key} : receipts'[k] = receipts[k]
      /\ \A v \in rows' : v \in rows \/ (v.key = s.order.key /\ v.record = s.request.record)
  BY <1>1, <1>3, <1>4, CommitStores
<1>6. s.request # None
  BY <1>3, NoneApart DEF Ongoing
<1>7. PICK now : now = {}
  OBVIOUS
<1>8. /\ \A p \in Requests \ now : req'[p] = req[p]
      /\ \A p \in now : /\ req[p] = s /\ s.phase = "txn" /\ Like(s, req'[p])
                        /\ req'[p].phase = "done" /\ req'[p].reply = "ok"
      /\ s \in orphans /\ now \in SUBSET Requests
      /\ orphans' \subseteq orphans /\ family' = family
  BY <1>1, <1>2, <1>7
<1> QED BY <1>5, <1>6, <1>8, StoredTells

-----------------------------------------------------------------------------
LEMMA InitTelling == Init => Telling
<1> SUFFICES ASSUME Init PROVE Telling
  OBVIOUS
<1>1. /\ orphans = {} /\ \A k \in Keys : receipts[k] = None
      /\ \A q \in Requests : req[q].phase = "idle"
  BY DEF Init, Idle
<1>2. RowsNamed
  BY DEF Init, RowsNamed
<1> QED BY <1>1, <1>2 DEF Telling, Rooted, FirstTime, Begun

LEMMA NextTelling == IInv /\ Telling /\ [Next]_vars => Telling'
<1> SUFFICES ASSUME IInv, Telling, [Next]_vars PROVE Telling'
  OBVIOUS
<1>1. ASSUME NEW q \in Requests, Send(q) PROVE Telling'
  BY <1>1, SendTells
<1>2. ASSUME NEW q \in Requests, Resend(q) PROVE Telling'
  BY <1>2, ResendTells
<1>3. ASSUME NEW q \in Requests, Step(q) PROVE Telling'
  BY <1>3, PreStepTells, PreReplyTells, StatementTells, CommitTells DEF Step
<1>4. ASSUME NEW q \in Requests, Timeout(q) PROVE Telling'
  BY <1>4, TimeoutTells
<1>5. CASE OrphanRollsBack
  BY <1>5, LessTells DEF OrphanRollsBack
<1>6. CASE OrphanCommits
  BY <1>6, OrphanCommitTells
<1>7. CASE RelatedChanges \/ Midnight \/ Rest \/ UNCHANGED vars
  BY <1>7, LessTells DEF RelatedChanges, Midnight, Rest, vars
<1> QED BY <1>1, <1>2, <1>3, <1>4, <1>5, <1>6, <1>7 DEF Next

LEMMA AlwaysTelling == Spec => [](IInv /\ Telling)
<1>1. Init => IInv /\ Telling
  BY InitIInv, InitTelling
<1>2. IInv /\ Telling /\ [Next]_vars => (IInv /\ Telling)'
  BY NextIInv, NextTelling
<1> QED BY <1>1, <1>2, PTL DEF Spec

\* A client that was refused the first time it used a key of its own may use
\* the key for something else: nothing is stored under it, and no killed
\* session that might still commit holds it.
THEOREM RefusalIsFinalHolds == Spec => []RefusalIsFinal
<1>1. IInv /\ Telling => RefusalIsFinal
  <2> SUFFICES ASSUME IInv, Telling, NEW q \in Requests,
                      req[q].reply = "refused", req[q].sends = 1,
                      \A p \in Requests \ {q} :
                        req[p].phase = "idle" \/ req[p].order.key # req[q].order.key
               PROVE  /\ receipts[req[q].order.key] = None
                      /\ \A s \in orphans : s.order.key # req[q].order.key
    BY DEF RefusalIsFinal
  <2>1. Begun(q) /\ Sole(q)
    BY DEF IInv, Shape, Formed, Begun, Sole
  <2> QED BY <2>1 DEF Telling, FirstTime, Unspoilt
<1> QED BY <1>1, AlwaysTelling, PTL

\* A client that leaves nothing to chance or to the clock and sends an accepted
\* command again is never refused, whatever others did to the record, to the
\* related one and to the receipts in between.
THEOREM RetryIsReplayedHolds == Spec => []RetryIsReplayed
<1>1. IInv /\ Telling => RetryIsReplayed
  <2> SUFFICES ASSUME IInv, Telling, NEW q \in Requests,
                      req[q].phase = "done", req[q].first = "ok",
                      req[q].order.by # "fresh", ~req[q].order.dated,
                      ~AskedFirst(req[q].order.type),
                      family \in Single => receipts[req[q].order.key] = req[q].request
               PROVE  req[q].reply # "refused"
    BY DEF RetryIsReplayed
  <2>1. Retried(req[q])
    BY DEF Telling, Begun, Fine
  <2> QED BY <2>1 DEF Retried, Repeats
<1> QED BY <1>1, AlwaysTelling, PTL

-----------------------------------------------------------------------------
(***************************************************************************)
(* The register.  Every committed revision is the next of its record, made *)
(* of an earlier one that admits the command: what a session counts on     *)
(* (Works) stays true while others commit, because a number is claimed     *)
(* with the revision and because the serial families read under the lock   *)
(* (Alone) or insert at a number they read beforehand.                     *)
(***************************************************************************)
\* The families whose transactions work under the lock of the record.
Locking ==
  {"plan_task", "preference", "admin_dict", "report_template", "project",
   "warning", "subscription", "message"} \cup FundFamilies

\* The commands whose guard is not repeated inside the transaction, although
\* the register asks for it.
Trusting(type) ==
  \/ family \in SalesFamilies /\ type # "create"
  \/ family = "admin_dict" /\ type = "update"

\* The revisions of a record are numbered without gaps, and every one has a
\* state.
Numbers(record) == {v.number : v \in RowsOf(record)}

Dense == \A v \in rows : \E n \in Nat : Numbers(v.record) = 1..n

Stated == \A v \in rows : v.state # Absent

\* What a request asks for and what it saw of its record.
Sees(r) ==
  /\ r.order.wants \in Wants(family, r.order.type) /\ r.order.body \in Bodies
  /\ r.seen \in Nat
  /\ r.order.type # "create" => r.seen <= Highest(r.request.record)

\* Those that trust what they saw look at it last before the transaction.
LooksLast(r) == Trusting(r.order.type) => r.steps[Len(r.steps)] = "current"

Checked(s) ==
  Trusting(s.order.type) =>
    Admits(family, s.order.type, Shown(family, StateOf(s.request.record, s.seen)), TRUE)

\* A session works on a revision of its record, with a number that is at most
\* the next.
Counts(s) ==
  LET top == Highest(s.request.record)
      program == Txn(family, s.order.type)
  IN
  /\ s.number \in 1..(top + 1) /\ s.basis \in 0..top
  /\ Contains(s.steps, "number") => Contains(program, "number")
  /\ ~Contains(program, "number") =>
       s.number = IF s.order.type = "create" THEN 1 ELSE s.seen + 1
  /\ Took(s, "read") => Rechecks(family, s.order.type, StateOf(s.request.record, s.basis))
  /\ Took(s, "read") /\ family \in Register!Serial =>
       IF family \in Locking THEN s.basis = top ELSE s.number <= s.basis + 1

Works(s) == Sees(s) /\ Checked(s) /\ Counts(s)

\* No two sessions that took the lock work on the same record.
Alone ==
  family \in Locking =>
    /\ \A p, q \in Requests :
         /\ p # q /\ req[p].phase = "txn" /\ req[q].phase = "txn"
         /\ Took(req[p], "lock") /\ Took(req[q], "lock")
         => req[p].request.record # req[q].request.record
    /\ \A p \in Requests, s \in orphans :
         req[p].phase = "txn" /\ Took(req[p], "lock") /\ Took(s, "lock")
         => req[p].request.record # s.request.record
    /\ \A s, t \in orphans :
         s # t /\ Took(s, "lock") /\ Took(t, "lock")
         => s.request.record # t.request.record

Serving ==
  /\ Dense /\ Stated /\ Alone
  /\ \A q \in Requests :
       /\ req[q].phase # "idle" =>
            /\ req[q].order.wants \in Wants(family, req[q].order.type)
            /\ req[q].order.body \in Bodies
       /\ req[q].phase = "pre" => Sees(req[q]) /\ LooksLast(req[q])
       /\ req[q].phase = "txn" => Works(req[q])
  /\ \A s \in orphans : Works(s)

-----------------------------------------------------------------------------
\* The register has the same families.
LEMMA SameFamilies ==
  /\ Register!SalesFamilies = SalesFamilies /\ Register!MarketingFamilies = MarketingFamilies
  /\ Register!DeliveryFamilies = DeliveryFamilies /\ Register!FundFamilies = FundFamilies
  /\ Register!AllFamilies = AllFamilies /\ Register!Absent = Absent
BY DEF SalesFamilies, Register!SalesFamilies, MarketingFamilies, Register!MarketingFamilies,
   DeliveryFamilies, Register!DeliveryFamilies, FundFamilies, Register!FundFamilies,
   AllFamilies, Register!AllFamilies, Absent, Register!Absent

\* What the tables say of the programs.
LEMMA WhichProgram ==
  ASSUME NEW f \in AllFamilies, NEW type
  PROVE  /\ Txn(f, type) \in {RereadTxn, PrereadTxn, LockedTxn, LockedFirstTxn,
                              <<"key", "number", "write">>}
         /\ f \in Locking => Txn(f, type) \in {LockedTxn, LockedFirstTxn}
         /\ f \in Register!Serial \ Locking => Txn(f, type) = PrereadTxn
         /\ Txn(f, type) = <<"key", "number", "write">> => f = "milestone" /\ type = "create"
<1>1. FirstTxn = PrereadTxn
  BY DEF FirstTxn, PrereadTxn
<1>3. <<"key", "number", "write">> \notin {RereadTxn, PrereadTxn, LockedTxn, LockedFirstTxn}
  BY DEF RereadTxn, PrereadTxn, LockedTxn, LockedFirstTxn
<1>2. CASE f = "milestone"
  <2>1. Txn(f, type) = IF type = "create" THEN <<"key", "number", "write">> ELSE RereadTxn
    BY <1>2 DEF Txn, MilestoneTxn, SalesFamilies, MarketingFamilies, DeliveryFamilies, FundFamilies
  <2>2. f \notin Locking /\ f \notin Register!Serial
    BY <1>2, SameFamilies DEF Locking, Register!Serial, SalesFamilies, MarketingFamilies,
       DeliveryFamilies, FundFamilies
  <2> QED BY <1>2, <1>3, <2>1, <2>2
<1>4. CASE f \in Locking
  <2>1. Txn(f, type) \in {LockedTxn, LockedFirstTxn}
    BY <1>4 DEF Locking, FundFamilies, Txn, SalesFamilies, MarketingFamilies, DeliveryFamilies,
       FundTxn, PlanTaskTxn, PreferenceTxn, AdminDictTxn, ReportTemplateTxn, ProjectTxn,
       WarningTxn, SubscriptionTxn, MessageTxn
  <2> QED BY <1>3, <1>4, <2>1
<1>5. CASE f \in {"split", "invoice"} \cup SalesFamilies \cup MarketingFamilies \cup DeliveryFamilies
  <2>1. Txn(f, type) = PrereadTxn
    BY <1>1, <1>5 DEF Txn, SplitTxn, InvoiceTxn, SalesTxn, MarketingTxn, DeliveryTxn, SalesFamilies,
       MarketingFamilies, DeliveryFamilies, FundFamilies
  <2>2. f \notin Locking
    BY <1>5 DEF Locking, SalesFamilies, MarketingFamilies, DeliveryFamilies, FundFamilies
  <2> QED BY <1>3, <2>1, <2>2
<1>6. CASE f \in {"expense", "contract", "payment", "supplier", "tender", "loan", "dynamic_cost"}
  <2>1. Txn(f, type) \in {PrereadTxn, RereadTxn}
    BY <1>1, <1>6 DEF Txn, ExpenseTxn, ContractTxn, PaymentTxn, SupplierTxn, TenderTxn, LoanTxn,
       DynamicCostTxn, SalesFamilies, MarketingFamilies, DeliveryFamilies, FundFamilies
  <2>2. f \notin Locking \cup Register!Serial
    BY <1>6, SameFamilies DEF Locking, Register!Serial, SalesFamilies, MarketingFamilies, DeliveryFamilies,
       FundFamilies
  <2> QED BY <1>3, <2>1, <2>2
<1> QED BY <1>2, <1>4, <1>5, <1>6 DEF AllFamilies, Locking

\* The families that repeat their guard inside the transaction.
LEMMA RecheckedAdmits ==
  ASSUME NEW f \in AllFamilies \ Register!Unguarded, NEW type \in Types(f), NEW state,
         Rechecks(f, type, state),
         ~(f \in SalesFamilies /\ type # "create"), ~(f = "admin_dict" /\ type = "update")
  PROVE  Admits(f, type, Shown(f, state), TRUE)
<1> USE DEF SalesFamilies, MarketingFamilies, DeliveryFamilies, FundFamilies
<1>1. CASE f = "expense"
  BY <1>1 DEF Rechecks, Admits, Shown, ExpenseRechecks
<1>2. CASE f = "contract"
  BY <1>2 DEF Rechecks, Admits, Shown, ContractRechecks, ContractShown, ContractAdmits,
     LoopAdmits, Absent
<1>3. CASE f = "payment"
  BY <1>3 DEF Rechecks, Admits, Shown, PaymentRechecks
<1>4. CASE f = "split"
  BY <1>4 DEF Rechecks, Admits, Shown, SplitRechecks
<1>5. CASE f = "tender"
  BY <1>5 DEF Rechecks, Admits, Shown, TenderRechecks, TenderShown, TenderAdmits, Absent
<1>6. CASE f = "invoice"
  BY <1>6 DEF Rechecks, Admits, Shown, InvoiceRechecks
<1>7. CASE f \in SalesFamilies
  BY <1>7 DEF Rechecks, Admits, Shown, SalesRechecks, SalesAdmits
<1>8. CASE f \in MarketingFamilies
  BY <1>8 DEF Rechecks, Admits, Shown, MarketingRechecks, MarketingAdmits
<1>9. CASE f \in DeliveryFamilies
  BY <1>9 DEF Rechecks, Admits, Shown, DeliveryRechecks
<1>10. CASE f = "loan"
  BY <1>10 DEF Rechecks, Admits, Shown, LoanRechecks
<1>11. CASE f \in FundFamilies
  BY <1>11 DEF Rechecks, Admits, Shown, FundRechecks, FundAdmits, Types, FundTypes, Absent
<1>12. CASE f = "plan_task"
  BY <1>12 DEF Rechecks, Admits, Shown, PlanTaskRechecks, PlanTaskAdmits
<1>13. CASE f \in {"preference", "message"}
  BY <1>13 DEF Admits
<1>14. CASE f = "admin_dict"
  BY <1>14 DEF Rechecks, Admits, Shown, AdminDictRechecks, AdminDictAdmits, Types, AdminDictTypes
<1>15. CASE f = "report_template"
  BY <1>15 DEF Rechecks, Admits, Shown, ReportTemplateRechecks, ReportTemplateAdmits
<1>16. CASE f = "project"
  BY <1>16 DEF Rechecks, Admits, Shown, ProjectRechecks, ProjectShown, ProjectAdmits, Absent
<1>17. CASE f = "warning"
  BY <1>17 DEF Rechecks, Admits, Shown, WarningRechecks, WarningAdmits
<1> QED BY <1>1, <1>2, <1>3, <1>4, <1>5, <1>6, <1>7, <1>8, <1>9, <1>10, <1>11, <1>12, <1>13,
     <1>14, <1>15, <1>16, <1>17 DEF AllFamilies, Register!Unguarded

\* No command leaves a record without a state.
LEMMA LeavesAState ==
  ASSUME NEW f \in AllFamilies, NEW type \in Types(f), NEW state, Rechecks(f, type, state),
         NEW wants \in Wants(f, type)
  PROVE  Leaves(f, type, state, wants) # Absent
<1> USE DEF SalesFamilies, MarketingFamilies, DeliveryFamilies, FundFamilies, Absent
<1>1. CASE f = "expense"
  BY <1>1 DEF Types, ExpenseTypes, Leaves, ExpenseLeaves, LoopLeaves
<1>2. CASE f = "contract"
  BY <1>2 DEF Types, ContractTypes, Leaves, ContractLeaves, LoopLeaves, Rechecks, ContractRechecks,
     ContractAdmits, LoopAdmits
<1>3. CASE f = "payment"
  BY <1>3 DEF Types, PaymentTypes, Leaves, PaymentLeaves, LoopLeaves, Rechecks, PaymentRechecks,
     PaymentAdmits, LoopAdmits
<1>4. CASE f = "split"
  BY <1>4 DEF Leaves, SplitLeaves
<1>5. CASE f = "tender"
  BY <1>5 DEF Types, TenderTypes, Leaves, TenderLeaves
<1>6. CASE f = "invoice"
  BY <1>6 DEF Leaves, InvoiceLeaves
<1>7. CASE f \in SalesFamilies
  <2>1. Leaves(f, type, state, wants) = SalesLeaves(f, type, state, wants)
    BY <1>7 DEF Leaves
  <2>2. type # "create" => state # Absent
    BY <1>7 DEF Rechecks, SalesRechecks
  <2>3. CASE type = "create"
    BY <1>7, <2>1, <2>3 DEF SalesLeaves, SalesFirstState, Wants
  <2>4. CASE type # "create"
    <3>1. type \in DOMAIN SalesTransitions(f)
      BY <1>7, <2>4 DEF Types, SalesTypes
    <3>2. SalesTransitions(f)[type].to # Absent
      BY <1>7, <3>1 DEF SalesTransitions
    <3> QED BY <2>1, <2>2, <2>4, <3>2 DEF SalesLeaves
  <2> QED BY <2>3, <2>4
<1>8. CASE f \in MarketingFamilies
  BY <1>8 DEF Types, MarketingTypes, Leaves, MarketingLeaves, MarketingFirstState, Rechecks,
     MarketingRechecks, Wants
<1>9. CASE f \in DeliveryFamilies
  BY <1>9 DEF Types, DeliveryTypes, DeliveryTransitions, Leaves, DeliveryLeaves, DeliveryFirstState
<1>10. CASE f = "loan"
  BY <1>10 DEF Types, LoanTypes, Leaves, LoanLeaves
<1>11. CASE f \in FundFamilies
  BY <1>11 DEF Types, FundTypes, Leaves, FundLeaves
<1>12. CASE f = "plan_task"
  BY <1>12 DEF Types, PlanTaskTypes, Leaves, PlanTaskLeaves, Rechecks, PlanTaskRechecks, Wants
<1>13. CASE f = "preference"
  BY <1>13 DEF Leaves, PreferenceLeaves
<1>14. CASE f = "admin_dict"
  BY <1>14 DEF Leaves, AdminDictLeaves
<1>15. CASE f = "report_template"
  BY <1>15 DEF Leaves, ReportTemplateLeaves
<1>16. CASE f = "project"
  BY <1>16 DEF Leaves, ProjectLeaves
<1>17. CASE f = "warning"
  BY <1>17 DEF Leaves, WarningLeaves
<1>18. CASE f = "milestone"
  BY <1>18 DEF Types, MilestoneTypes, Leaves, MilestoneLeaves, Rechecks, MilestoneRechecks, Wants
<1>19. CASE f = "supplier"
  BY <1>19 DEF Types, SupplierTypes, Leaves, SupplierLeaves, Rechecks, SupplierRechecks
<1>20. CASE f = "dynamic_cost"
  BY <1>20 DEF Types, DynamicCostTypes, Leaves, DynamicCostLeaves, Rechecks, DynamicCostRechecks
<1>21. CASE f = "subscription"
  BY <1>21 DEF Leaves, SubscriptionLeaves
<1>22. CASE f = "message"
  BY <1>22 DEF Leaves, MessageLeaves
<1> QED BY <1>1, <1>2, <1>3, <1>4, <1>5, <1>6, <1>7, <1>8, <1>9, <1>10, <1>11, <1>12, <1>13,
     <1>14, <1>15, <1>16, <1>17, <1>18, <1>19, <1>20, <1>21, <1>22 DEF AllFamilies

\* And the same tables.
LEMMA SameTables ==
  ASSUME NEW f, NEW type, NEW state, NEW mine, NEW wants
  PROVE  /\ Register!Rechecks(f, type, state) = Rechecks(f, type, state)
         /\ Register!Admits(f, type, state, mine) = Admits(f, type, state, mine)
         /\ Register!Shown(f, state) = Shown(f, state)
         /\ Register!Leaves(f, type, state, wants) = Leaves(f, type, state, wants)
         /\ Register!Wants(f, type) = Wants(f, type)
<1>1. Register!Rechecks(f, type, state) = Rechecks(f, type, state)
  BY SameFamilies DEF Rechecks, Register!Rechecks, ExpenseRechecks,
     Register!ExpenseRechecks, ExpenseAdmits, Register!ExpenseAdmits,
     LoopAdmits, Register!LoopAdmits, ContractRechecks,
     Register!ContractRechecks, ContractAdmits, Register!ContractAdmits,
     PaymentRechecks, Register!PaymentRechecks, PaymentAdmits,
     Register!PaymentAdmits, MilestoneRechecks, Register!MilestoneRechecks,
     SplitRechecks, Register!SplitRechecks, SplitAdmits, Register!SplitAdmits,
     SupplierRechecks, Register!SupplierRechecks, SupplierAdmits,
     Register!SupplierAdmits, TenderRechecks, Register!TenderRechecks,
     TenderAdmits, Register!TenderAdmits, InvoiceRechecks,
     Register!InvoiceRechecks, InvoiceAdmits, Register!InvoiceAdmits,
     SalesRechecks, Register!SalesRechecks, MarketingRechecks,
     Register!MarketingRechecks, DeliveryRechecks, Register!DeliveryRechecks,
     DeliveryAdmits, Register!DeliveryAdmits, DeliveryTransitions,
     Register!DeliveryTransitions, AnyState, Register!AnyState, LoanRechecks,
     Register!LoanRechecks, LoanAdmits, Register!LoanAdmits, LoanExpects,
     Register!LoanExpects, FundRechecks, Register!FundRechecks,
     PlanTaskRechecks, Register!PlanTaskRechecks, PreferenceRechecks,
     Register!PreferenceRechecks, AdminDictRechecks, Register!AdminDictRechecks,
     ReportTemplateRechecks, Register!ReportTemplateRechecks,
     DynamicCostRechecks, Register!DynamicCostRechecks, ProjectRechecks,
     Register!ProjectRechecks, WarningRechecks, Register!WarningRechecks,
     SubscriptionRechecks, Register!SubscriptionRechecks
<1>2. Register!Admits(f, type, state, mine) = Admits(f, type, state, mine)
  BY SameFamilies DEF Admits, Register!Admits, ExpenseAdmits,
     Register!ExpenseAdmits, LoopAdmits, Register!LoopAdmits, ContractAdmits,
     Register!ContractAdmits, PaymentAdmits, Register!PaymentAdmits,
     MilestoneAdmits, Register!MilestoneAdmits, SplitAdmits,
     Register!SplitAdmits, SupplierAdmits, Register!SupplierAdmits,
     TenderAdmits, Register!TenderAdmits, InvoiceAdmits, Register!InvoiceAdmits,
     SalesAdmits, Register!SalesAdmits, SalesTransitions,
     Register!SalesTransitions, MarketingAdmits, Register!MarketingAdmits,
     DeliveryAdmits, Register!DeliveryAdmits, DeliveryTransitions,
     Register!DeliveryTransitions, AnyState, Register!AnyState, LoanAdmits,
     Register!LoanAdmits, LoanExpects, Register!LoanExpects, FundAdmits,
     Register!FundAdmits, PlanTaskAdmits, Register!PlanTaskAdmits,
     AdminDictAdmits, Register!AdminDictAdmits, ReportTemplateAdmits,
     Register!ReportTemplateAdmits, DynamicCostAdmits,
     Register!DynamicCostAdmits, ProjectAdmits, Register!ProjectAdmits,
     WarningAdmits, Register!WarningAdmits, SubscriptionAdmits,
     Register!SubscriptionAdmits
<1>3. Register!Shown(f, state) = Shown(f, state)
  BY SameFamilies DEF Shown, Register!Shown, ContractShown,
     Register!ContractShown, TenderShown, Register!TenderShown, ProjectShown,
     Register!ProjectShown
<1>4. Register!Leaves(f, type, state, wants) = Leaves(f, type, state, wants)
  BY SameFamilies DEF Leaves, Register!Leaves, ExpenseLeaves,
     Register!ExpenseLeaves, LoopLeaves, Register!LoopLeaves, ContractLeaves,
     Register!ContractLeaves, PaymentLeaves, Register!PaymentLeaves,
     MilestoneLeaves, Register!MilestoneLeaves, SplitLeaves,
     Register!SplitLeaves, SupplierLeaves, Register!SupplierLeaves,
     TenderLeaves, Register!TenderLeaves, InvoiceLeaves, Register!InvoiceLeaves,
     SalesLeaves, Register!SalesLeaves, SalesFirstState,
     Register!SalesFirstState, SalesTransitions, Register!SalesTransitions,
     MarketingLeaves, Register!MarketingLeaves, MarketingFirstState,
     Register!MarketingFirstState, DeliveryLeaves, Register!DeliveryLeaves,
     DeliveryFirstState, Register!DeliveryFirstState, DeliveryTransitions,
     Register!DeliveryTransitions, AnyState, Register!AnyState, LoanLeaves,
     Register!LoanLeaves, FundLeaves, Register!FundLeaves, PlanTaskLeaves,
     Register!PlanTaskLeaves, PreferenceLeaves, Register!PreferenceLeaves,
     AdminDictLeaves, Register!AdminDictLeaves, ReportTemplateLeaves,
     Register!ReportTemplateLeaves, DynamicCostLeaves,
     Register!DynamicCostLeaves, ProjectLeaves, Register!ProjectLeaves,
     WarningLeaves, Register!WarningLeaves, SubscriptionLeaves,
     Register!SubscriptionLeaves, MessageLeaves, Register!MessageLeaves
<1>5. Register!Wants(f, type) = Wants(f, type)
  BY SameFamilies DEF Wants, Register!Wants
<1> QED BY <1>1, <1>2, <1>3, <1>4, <1>5

-----------------------------------------------------------------------------
\* The steps of a program, one after the other.
LEMMA ContainsTail ==
  ASSUME NEW s \in Seq(Words), s # <<>>, NEW x
  PROVE  Contains(s, x) <=> Head(s) = x \/ Contains(Tail(s), x)
<1>1. ASSUME Contains(s, x) PROVE Head(s) = x \/ Contains(Tail(s), x)
  <2>1. PICK i \in 1..Len(s) : s[i] = x
    BY <1>1 DEF Contains
  <2>2. CASE i = 1
    BY <2>1, <2>2
  <2>3. CASE i # 1
    <3>1. i - 1 \in 1..Len(Tail(s)) /\ Tail(s)[i - 1] = x
      BY <2>1, <2>3
    <3> QED BY <3>1 DEF Contains
  <2> QED BY <2>2, <2>3
<1>2. ASSUME Contains(Tail(s), x) PROVE Contains(s, x)
  <2>1. PICK i \in 1..Len(Tail(s)) : Tail(s)[i] = x
    BY <1>2 DEF Contains
  <2>2. i + 1 \in 1..Len(s) /\ s[i + 1] = x
    BY <2>1
  <2> QED BY <2>2 DEF Contains
<1>3. ASSUME Head(s) = x PROVE Contains(s, x)
  <2>1. 1 \in 1..Len(s) /\ s[1] = x
    BY <1>3
  <2> QED BY <2>1 DEF Contains
<1> QED BY <1>1, <1>2, <1>3

LEMMA ContainsAppend ==
  ASSUME NEW s \in Seq(Words), NEW x, x # "commit"
  PROVE  Contains(Append(s, "commit"), x) <=> Contains(s, x)
<1>1. "commit" \in Words
  BY DEF Words
<1>2. PICK t : t = Append(s, "commit")
  OBVIOUS
<1>3. Len(t) = Len(s) + 1 /\ t[Len(t)] = "commit" /\ \A i \in 1..Len(s) : t[i] = s[i]
  BY <1>1, <1>2
<1>4. Contains(t, x) <=> Contains(s, x)
  BY <1>3 DEF Contains
<1> QED BY <1>2, <1>4

LEMMA LeftSteps ==
  ASSUME NEW s \in Left
  PROVE  s \in Seq(Words) /\ s # <<>>
<1> DEFINE Good(t) == t \in Seq(Words) /\ t # <<>>
<1>1. Good(<<"lock", "key", "read", "number", "write", "commit">>)
  BY DEF Words
<1>2. Good(<<"lock", "key", "read", "write", "commit">>)
  BY DEF Words
<1>3. Good(<<"key", "read", "number", "write", "commit">>)
  BY DEF Words
<1>4. Good(<<"key", "read", "write", "commit">>)
  BY DEF Words
<1>5. Good(<<"key", "number", "write", "commit">>)
  BY DEF Words
<1>6. Good(<<"read", "number", "write", "commit">>)
  BY DEF Words
<1>7. Good(<<"read", "write", "commit">>)
  BY DEF Words
<1>8. Good(<<"number", "write", "commit">>)
  BY DEF Words
<1>9. Good(<<"write", "commit">>)
  BY DEF Words
<1>10. Good(<<"commit">>)
  BY DEF Words
<1>11. Good(<<"key", "sibling", "beside", "number", "write", "commit">>)
  BY DEF Words
<1>12. Good(<<"sibling", "beside", "number", "write", "commit">>)
  BY DEF Words
<1>13. Good(<<"beside", "number", "write", "commit">>)
  BY DEF Words
<1>14. Good(<<"key", "number", "write", "sibling", "beside", "commit">>)
  BY DEF Words
<1>15. Good(<<"number", "write", "sibling", "beside", "commit">>)
  BY DEF Words
<1>16. Good(<<"write", "sibling", "beside", "commit">>)
  BY DEF Words
<1>17. Good(<<"sibling", "beside", "commit">>)
  BY DEF Words
<1>18. Good(<<"beside", "commit">>)
  BY DEF Words
<1> HIDE DEF Good
<1>19. Good(s)
  BY <1>1, <1>2, <1>3, <1>4, <1>5, <1>6, <1>7, <1>8, <1>9, <1>10,
     <1>11, <1>12, <1>13, <1>14, <1>15, <1>16, <1>17, <1>18 DEF Left
<1> QED BY <1>19 DEF Good

LEMMA ProgramSteps ==
  ASSUME NEW f \in AllFamilies, NEW type, NEW all, all = Append(Txn(f, type), "commit")
  PROVE  /\ Contains(all, "number") => Contains(Txn(f, type), "number")
         /\ Contains(all, "read") \/ (f = "milestone" /\ type = "create")
         /\ f \in Locking => Contains(all, "lock") /\ Contains(all, "read")
         /\ f \in Register!Serial => Contains(all, "read")
         /\ f \in Register!Serial \ Locking => ~Contains(Txn(f, type), "number")
<1> DEFINE p == Txn(f, type)
<1>1. p \in Seq(Words)
  BY WhichProgram DEF RereadTxn, PrereadTxn, LockedTxn, LockedFirstTxn, Words
<1>2. \A x : x # "commit" => (Contains(all, x) <=> Contains(p, x))
  BY <1>1, ContainsAppend
<1>3. CASE p = RereadTxn
  <2>1. Contains(RereadTxn, "read") /\ Contains(RereadTxn, "number")
    BY DEF RereadTxn, Contains
  <2>2. RereadTxn \notin {LockedTxn, LockedFirstTxn, PrereadTxn}
    BY DEF RereadTxn, LockedTxn, LockedFirstTxn, PrereadTxn
  <2> QED BY <1>2, <1>3, <2>1, <2>2, WhichProgram
<1>4. CASE p = PrereadTxn
  <2>1. Contains(PrereadTxn, "read") /\ ~Contains(PrereadTxn, "number")
    BY DEF PrereadTxn, Contains
  <2>2. PrereadTxn \notin {LockedTxn, LockedFirstTxn}
    BY DEF RereadTxn, LockedTxn, LockedFirstTxn, PrereadTxn
  <2> QED BY <1>2, <1>4, <2>1, <2>2, WhichProgram
<1>5. CASE p = LockedTxn
  <2>1. Contains(LockedTxn, "read") /\ Contains(LockedTxn, "number") /\ Contains(LockedTxn, "lock")
    BY DEF LockedTxn, Contains
  <2>2. LockedTxn # PrereadTxn
    BY DEF LockedTxn, PrereadTxn
  <2> QED BY <1>2, <1>5, <2>1, <2>2, WhichProgram
<1>6. CASE p = LockedFirstTxn
  <2>1. /\ Contains(LockedFirstTxn, "read") /\ ~Contains(LockedFirstTxn, "number")
        /\ Contains(LockedFirstTxn, "lock")
    BY DEF LockedFirstTxn, Contains
  <2>2. LockedFirstTxn # PrereadTxn
    BY DEF LockedFirstTxn, PrereadTxn
  <2> QED BY <1>2, <1>6, <2>1, <2>2, WhichProgram
<1>7. CASE p = <<"key", "number", "write">>
  <2>1. Contains(<<"key", "number", "write">>, "number")
    BY DEF Contains
  <2>2. <<"key", "number", "write">> \notin {LockedTxn, LockedFirstTxn, PrereadTxn}
    BY DEF LockedTxn, LockedFirstTxn, PrereadTxn
  <2>3. f = "milestone" /\ type = "create"
    BY <1>7, WhichProgram
  <2>4. f \notin Locking /\ f \notin Register!Serial
    BY <1>7, <2>2, WhichProgram
  <2> QED BY <1>2, <1>7, <2>1, <2>3, <2>4
<1> QED BY <1>3, <1>4, <1>5, <1>6, <1>7, WhichProgram

-----------------------------------------------------------------------------
\* The highest number of a record without gaps.
LEMMA HighestOf ==
  ASSUME NEW record, NEW n \in Nat, Numbers(record) = 1..n
  PROVE  Highest(record) = n
<1>1. {0} \cup Numbers(record) = 0..n
  OBVIOUS
<1>2. Max(0..n) = n
  BY DEF Max
<1>3. Highest(record) = Max({0} \cup Numbers(record))
  BY DEF Highest, Numbers
<1> QED BY <1>1, <1>2, <1>3

LEMMA DenseIs ==
  ASSUME Dense, NEW record
  PROVE  Highest(record) \in Nat /\ Numbers(record) = 1..Highest(record)
<1>1. CASE RowsOf(record) = {}
  <2>1. Numbers(record) = 1..0
    BY <1>1 DEF Numbers
  <2> QED BY <2>1, HighestOf
<1>2. CASE RowsOf(record) # {}
  <2>1. PICK v \in rows : v.record = record
    BY <1>2 DEF RowsOf
  <2>2. PICK n \in Nat : Numbers(record) = 1..n
    BY <2>1 DEF Dense
  <2> QED BY <2>2, HighestOf
<1> QED BY <1>1, <1>2

\* The state of a revision.
LEMMA StateIs ==
  ASSUME OncePerKey, NEW v \in rows, v.number # 0
  PROVE  /\ StateOf(v.record, v.number) = v.state
         /\ Register!StateAt(v.record, v.number) = v.state
<1>1. \A w \in rows : w.record = v.record /\ w.number = v.number => w = v
  BY DEF OncePerKey
<1>2. (CHOOSE w \in RowsOf(v.record) : w.number = v.number) = v
  BY <1>1 DEF RowsOf
<1>3. (CHOOSE w \in rows : w.record = v.record /\ w.number = v.number) = v
  BY <1>1
<1> QED BY <1>2, <1>3 DEF StateOf, Register!StateAt

LEMMA StateHad ==
  ASSUME Dense, OncePerKey, NEW record, NEW n \in 0..Highest(record)
  PROVE  /\ \/ n = 0 /\ StateOf(record, n) = Absent
            \/ \E v \in rows : v.record = record /\ v.number = n /\ StateOf(record, n) = v.state
         /\ Register!StateAt(record, n) = StateOf(record, n)
<1>1. CASE n = 0
  BY <1>1, SameFamilies DEF StateOf, Register!StateAt
<1>2. CASE n # 0
  <2>1. n \in Numbers(record)
    BY <1>2, DenseIs
  <2>2. PICK v \in rows : v.record = record /\ v.number = n
    BY <2>1 DEF Numbers, RowsOf
  <2> QED BY <1>2, <2>2, StateIs
<1> QED BY <1>1, <1>2

\* The register looks at the same numbers.
LEMMA SameHighest == ASSUME NEW record PROVE Register!Highest(record) = Highest(record)
BY DEF Highest, Register!Highest, RowsOf, Max, Register!Max

\* The next revision of a record.
LEMMA Grown ==
  ASSUME Dense, OncePerKey, OncePerKey', NEW w, rows' = rows \cup {w},
         w.number = Highest(w.record) + 1
  PROVE  /\ Dense'
         /\ \A record : Highest(record)' = IF record = w.record THEN Highest(record) + 1
                                           ELSE Highest(record)
         /\ \A record : \A n \in 0..Highest(record) : StateOf(record, n)' = StateOf(record, n)
<1>1. ASSUME NEW record
      PROVE  LET n == IF record = w.record THEN Highest(record) + 1 ELSE Highest(record)
             IN  n \in Nat /\ Numbers(record)' = 1..n
  <2>1. Highest(record) \in Nat /\ Numbers(record) = 1..Highest(record)
    BY DenseIs
  <2>2. CASE record = w.record
    <3>1. Numbers(record)' = Numbers(record) \cup {Highest(record) + 1}
      BY <2>2 DEF Numbers, RowsOf
    <3> QED BY <2>1, <2>2, <3>1
  <2>3. CASE record # w.record
    <3>1. Numbers(record)' = Numbers(record)
      BY <2>3 DEF Numbers, RowsOf
    <3> QED BY <2>1, <2>3, <3>1
  <2> QED BY <2>2, <2>3
<1>2. Dense'
  BY <1>1 DEF Dense
<1>3. ASSUME NEW record, NEW n \in Nat, Numbers(record)' = 1..n PROVE Highest(record)' = n
  <2>1. ({0} \cup Numbers(record))' = 0..n
    BY <1>3
  <2>2. Max(0..n) = n
    BY DEF Max
  <2>3. Highest(record)' = Max(({0} \cup Numbers(record))')
    BY DEF Highest, Numbers
  <2> QED BY <2>1, <2>2, <2>3
<1>4. ASSUME NEW record
      PROVE  Highest(record)' = IF record = w.record THEN Highest(record) + 1 ELSE Highest(record)
  BY <1>1, <1>3
<1>5. ASSUME NEW record, NEW n \in 0..Highest(record)
      PROVE  StateOf(record, n)' = StateOf(record, n)
  <2>1. CASE n = 0
    BY <2>1 DEF StateOf
  <2>2. CASE n # 0
    <3>1. n \in Numbers(record)
      BY <2>2, DenseIs
    <3>2. PICK v \in rows : v.record = record /\ v.number = n
      BY <3>1 DEF Numbers, RowsOf
    <3>3. StateOf(v.record, v.number) = v.state
      BY <2>2, <3>2, StateIs
    <3>4. \A u \in rows' : u.record = v.record /\ u.number = v.number => u = v
      BY <3>2 DEF OncePerKey
    <3>5. (CHOOSE u \in RowsOf(v.record)' : u.number = v.number) = v
      BY <3>2, <3>4 DEF RowsOf
    <3>6. StateOf(v.record, v.number)' = v.state
      BY <2>2, <3>2, <3>5 DEF StateOf
    <3> QED BY <3>2, <3>3, <3>6
  <2> QED BY <2>1, <2>2
<1> QED BY <1>2, <1>4, <1>5

-----------------------------------------------------------------------------
\* What is said of a request or a session does not depend on the rest.
LEMMA StillServes ==
  ASSUME UNCHANGED <<family, rows>>, NEW u
  PROVE  /\ Sees(u) => Sees(u)'
         /\ LooksLast(u) => LooksLast(u)'
         /\ Works(u) => Works(u)'
BY DEF Sees, LooksLast, Works, Checked, Counts, Trusting, Highest, StateOf, RowsOf, Took

\* One request moves on.
LEMMA ServesMoved ==
  ASSUME IInv, Serving, NEW q \in Requests, NEW r,
         req' = [req EXCEPT ![q] = r], UNCHANGED <<family, rows, orphans>>,
         r.phase # "idle" => r.order.wants \in Wants(family, r.order.type) /\ r.order.body \in Bodies,
         r.phase = "pre" => Sees(r) /\ LooksLast(r),
         r.phase = "txn" => Works(r),
         r.phase = "txn" /\ Took(r, "lock") /\ family \in Locking =>
           \/ /\ req[q].phase = "txn" /\ Took(req[q], "lock")
              /\ r.request.record = req[q].request.record
           \/ \A s \in OtherSessions(q) :
                ~(Took(s, "lock") /\ s.request.record = r.request.record)
  PROVE  Serving'
<1>1. \A p \in Requests : req'[p] = IF p = q THEN r ELSE req[p]
  BY DEF IInv, Shape
<1>2. Dense' /\ Stated'
  BY DEF Serving, Dense, Stated, Numbers, RowsOf
<1>3. ASSUME NEW p \in Requests
      PROVE  (/\ req[p].phase # "idle" =>
                   /\ req[p].order.wants \in Wants(family, req[p].order.type)
                   /\ req[p].order.body \in Bodies
              /\ req[p].phase = "pre" => Sees(req[p]) /\ LooksLast(req[p])
              /\ req[p].phase = "txn" => Works(req[p]))'
  <2>1. PICK u : u = req'[p]
    OBVIOUS
  <2>2. /\ u.phase # "idle" => u.order.wants \in Wants(family, u.order.type) /\ u.order.body \in Bodies
        /\ u.phase = "pre" => Sees(u) /\ LooksLast(u)
        /\ u.phase = "txn" => Works(u)
    <3>1. CASE p = q
      BY <1>1, <2>1, <3>1
    <3>2. CASE p # q
      BY <1>1, <2>1, <3>2 DEF Serving
    <3> QED BY <3>1, <3>2
  <2> QED BY <2>1, <2>2, StillServes
<1>4. \A s \in orphans' : Works(s)'
  BY StillServes DEF Serving
<1>5. Alone'
  <2> SUFFICES ASSUME family \in Locking PROVE Alone'
    BY DEF Alone
  <2>1. ASSUME NEW p \in Requests \ {q}, req[p].phase = "txn", Took(req[p], "lock"),
               r.phase = "txn", Took(r, "lock")
        PROVE  req[p].request.record # r.request.record
    <3>1. req[p] \in OtherSessions(q)
      BY <2>1 DEF OtherSessions
    <3> QED BY <2>1, <3>1 DEF Serving, Alone
  <2>2. ASSUME NEW s \in orphans, Took(s, "lock"), r.phase = "txn", Took(r, "lock")
        PROVE  s.request.record # r.request.record
    <3>1. s \in OtherSessions(q)
      BY DEF OtherSessions
    <3> QED BY <2>2, <3>1 DEF Serving, Alone
  <2>3. \A u, w \in Requests :
          /\ u # w /\ req'[u].phase = "txn" /\ req'[w].phase = "txn"
          /\ Took(req'[u], "lock") /\ Took(req'[w], "lock")
          => req'[u].request.record # req'[w].request.record
    BY <1>1, <2>1 DEF Serving, Alone
  <2>4. \A u \in Requests, s \in orphans :
          req'[u].phase = "txn" /\ Took(req'[u], "lock") /\ Took(s, "lock")
          => req'[u].request.record # s.request.record
    BY <1>1, <2>2 DEF Serving, Alone
  <2>5. \A s, t \in orphans :
          s # t /\ Took(s, "lock") /\ Took(t, "lock") => s.request.record # t.request.record
    BY DEF Serving, Alone
  <2> QED BY <2>3, <2>4, <2>5 DEF Alone, Took
<1> QED BY <1>2, <1>3, <1>4, <1>5 DEF Serving

\* The last of two sequences in a row.
LEMMA LastOfTwo ==
  ASSUME NEW a \in Seq(Questions), NEW b \in Seq(Questions), b # <<>>, NEW t, t = a \o b
  PROVE  t \in Seq(Questions) /\ t # <<>> /\ t[Len(t)] = b[Len(b)]
<1>1. Len(b) \in Nat \ {0} /\ Len(a) \in Nat
  BY EmptySeq
<1>2. t \in Seq(Questions) /\ Len(t) = Len(a) + Len(b)
  BY ConcatProperties
<1>3. \A i \in 1..Len(t) : t[i] = IF i <= Len(a) THEN a[i] ELSE b[i - Len(a)]
  BY ConcatProperties
<1>4. Len(t) \in 1..Len(t) /\ ~(Len(t) <= Len(a)) /\ Len(t) - Len(a) = Len(b)
  BY <1>1, <1>2
<1>5. t[Len(t)] = b[Len(b)]
  BY <1>3, <1>4
<1> QED BY <1>1, <1>2, <1>5

\* The last step of those that trust what they see.
LEMMA LastIsCurrent ==
  ASSUME family \in AllFamilies, NEW type \in Types(family), Trusting(type)
  PROVE  Pre(family, type)[Len(Pre(family, type))] = "current"
<1>1. /\ Receipt \in Seq(Questions) /\ <<"exists">> \in Seq(Questions)
      /\ <<"current">> \in Seq(Questions) /\ <<"current">> # <<>>
      /\ <<"current">>[Len(<<"current">>)] = "current"
  BY DEF Receipt, Questions
<1>2. /\ ReceiptFirst \in Seq(Questions) /\ ReceiptFirst # <<>>
      /\ ReceiptFirst[Len(ReceiptFirst)] = "current"
  BY <1>1, LastOfTwo DEF ReceiptFirst
<1>3. PICK t : t = <<"exists">> \o ReceiptFirst
  OBVIOUS
<1>6. t[Len(t)] = "current"
  BY <1>1, <1>2, <1>3, LastOfTwo
<1>4. CASE family \in SalesFamilies /\ type # "create"
  <2>1. family # "receivable"
    <3>1. SalesTransitions("receivable") = <<>>
      BY DEF SalesTransitions
    <3>2. SalesTypes("receivable") = {"create"}
      BY <3>1 DEF SalesTypes
    <3>3. Types("receivable") = {"create"}
      BY <3>2 DEF Types, SalesFamilies, MarketingFamilies, DeliveryFamilies, FundFamilies
    <3> QED BY <1>4, <3>3
  <2>2. Pre(family, type) = SalesPre(family, type)
    BY <1>4 DEF Pre, SalesFamilies, DeliveryFamilies, FundFamilies
  <2>3. SalesPre(family, type) \in {ReceiptFirst, t}
    BY <1>3, <1>4, <2>1 DEF SalesPre
  <2> QED BY <1>2, <1>6, <2>2, <2>3
<1>5. CASE family = "admin_dict" /\ type = "update"
  <2>1. Pre(family, type) = ReceiptFirst
    BY <1>5 DEF Pre, AdminDictPre, SalesFamilies, DeliveryFamilies, FundFamilies
  <2> QED BY <1>2, <2>1
<1> QED BY <1>4, <1>5 DEF Trusting

\* A request that comes in, or comes in again.
LEMMA StartServes ==
  ASSUME IInv, Telling, Serving, NEW q \in Requests, NEW o, NEW n, NEW first,
         o.type \in Types(family), o.wants \in Wants(family, o.type), o.body \in Bodies,
         req' = [req EXCEPT ![q] = Started(o, q, n, first)],
         UNCHANGED <<family, rows, orphans>>
  PROVE  Serving'
<1>1. PICK r : r = Started(o, q, n, first)
  OBVIOUS
<1>2. r.phase = "pre" /\ r.order = o /\ r.seen = 0 /\ r.steps = Pre(family, o.type)
  BY <1>1 DEF Started
<1>3. Highest(r.request.record) \in Nat
  BY DenseIs DEF Serving
<1>4. Sees(r)
  BY <1>2, <1>3 DEF Sees
<1>5. LooksLast(r)
  BY <1>2, LastIsCurrent, BridgeAssumption DEF LooksLast, IInv, Shape
<1> QED BY <1>1, <1>2, <1>4, <1>5, ServesMoved

LEMMA SendServes ==
  ASSUME IInv, Telling, Serving, NEW q \in Requests, Send(q)
  PROVE  Serving'
<1>1. PICK o \in Orders : req' = [req EXCEPT ![q] = Started(o, q, 1, "")]
  BY DEF Send
<1>2. PICK t \in Types(family) :
        o \in [type : {t}, key : Keys, body : Bodies,
               by : IF t = "create" THEN Identities(family) ELSE {"given"},
               dated : IF Stamped(family, t) THEN BOOLEAN ELSE {FALSE},
               mine : IF Owned(family, t) THEN BOOLEAN ELSE {TRUE},
               wants : Wants(family, t)]
  BY DEF Orders
<1>3. o.type \in Types(family) /\ o.wants \in Wants(family, o.type) /\ o.body \in Bodies
  BY <1>2
<1>4. UNCHANGED <<family, rows, orphans>>
  BY DEF Send
<1> QED BY <1>1, <1>3, <1>4, StartServes

LEMMA ResendServes ==
  ASSUME IInv, Telling, Serving, NEW q \in Requests, Resend(q)
  PROVE  Serving'
<1>1. /\ req[q].order.type \in Types(family) /\ req[q].order.body \in Bodies
      /\ req[q].order.wants \in Wants(family, req[q].order.type)
  BY DEF Resend, Telling, Begun, Fine, Named, Serving
<1>2. PICK o, n, first :
        /\ o = req[q].order /\ n = req[q].sends + 1
        /\ first = IF req[q].first = "ok" THEN "ok" ELSE req[q].reply
  OBVIOUS
<1>3. req' = [req EXCEPT ![q] = Started(o, q, n, first)] /\ UNCHANGED <<family, rows, orphans>>
  BY <1>2 DEF Resend
<1> QED BY <1>1, <1>2, <1>3, StartServes

-----------------------------------------------------------------------------
\* A transaction that begins, or begins again.
LEMMA BeginWorks ==
  ASSUME family \in AllFamilies, Dense, NEW r, r.order.type \in Types(family), Sees(r), Checked(r),
         NEW b, b.order = r.order, b.request = r.request, b.seen = r.seen,
         b.steps = Append(Program(r.order), "commit"), b.basis = 0,
         b.number = IF r.order.type = "create" THEN 1 ELSE r.seen + 1
  PROVE  Works(b) /\ (family \in Locking => ~Took(b, "lock"))
<1> DEFINE top == Highest(r.request.record)
           type == r.order.type
<1>1. top \in Nat
  BY DenseIs
<1>2. b.number \in 1..(top + 1) /\ b.basis \in 0..top
  BY <1>1 DEF Sees
<1>3. /\ Contains(b.steps, "number") => Contains(Txn(family, type), "number")
      /\ Contains(b.steps, "read") \/ (family = "milestone" /\ type = "create")
      /\ family \in Locking => Contains(b.steps, "lock") /\ Contains(b.steps, "read")
      /\ family \in Register!Serial => Contains(b.steps, "read")
  <2>1. CASE ~Batch(r.order)
    BY <2>1, ProgramSteps DEF Program
  <2>2. CASE Batch(r.order)
    <3>1. /\ family = "milestone" /\ type = "create"
          /\ family \notin Locking /\ family \notin Register!Serial
      BY <2>2, SameFamilies DEF Batch, Locking, Register!Serial, SalesFamilies,
         MarketingFamilies, DeliveryFamilies, FundFamilies
    <3>2. Txn(family, type) = <<"key", "number", "write">>
      BY <3>1 DEF Txn, MilestoneTxn, SalesFamilies, MarketingFamilies, DeliveryFamilies,
         FundFamilies
    <3>3. Contains(<<"key", "number", "write">>, "number")
      BY DEF Contains
    <3> QED BY <3>1, <3>2, <3>3
  <2> QED BY <2>1, <2>2
<1>4. Took(b, "read") => Rechecks(family, type, StateOf(b.request.record, b.basis))
  <2> SUFFICES ASSUME Took(b, "read")
               PROVE  Rechecks(family, type, StateOf(b.request.record, b.basis))
    OBVIOUS
  <2>1. family = "milestone" /\ type = "create"
    BY <1>3 DEF Took
  <2> QED BY <2>1 DEF Rechecks, MilestoneRechecks, SalesFamilies, MarketingFamilies,
          DeliveryFamilies, FundFamilies
<1>5. Counts(b)
  BY <1>2, <1>3, <1>4 DEF Counts, Took
<1>6. Sees(b) /\ Checked(b)
  BY DEF Sees, Checked
<1> QED BY <1>3, <1>5, <1>6 DEF Works, Took

LEMMA AtBeginWorks ==
  ASSUME family \in AllFamilies, Dense, NEW r, Ongoing(r), r.order.type \in Types(family),
         Sees(r), Checked(r)
  PROVE  Works(AtBegin(r)) /\ (family \in Locking => ~Took(AtBegin(r), "lock"))
<1>1. PICK b : b = AtBegin(r)
  OBVIOUS
<1>2. /\ b.order = r.order /\ b.request = r.request /\ b.seen = r.seen
      /\ b.steps = Append(Program(r.order), "commit") /\ b.basis = 0
      /\ b.number = IF r.order.type = "create" THEN 1 ELSE r.seen + 1
  BY <1>1 DEF AtBegin, Ongoing, Fields
<1> QED BY <1>1, <1>2, BeginWorks

LEMMA FailureWorks ==
  ASSUME family \in AllFamilies, Dense, NEW r, Ongoing(r), r.order.type \in Types(family), Works(r)
  PROVE  /\ AfterFailure(r).order = r.order
         /\ AfterFailure(r).phase \in {"txn", "done"}
         /\ AfterFailure(r).phase = "txn" =>
              Works(AfterFailure(r)) /\ (family \in Locking => ~Took(AfterFailure(r), "lock"))
<1>1. CASE r.tries = 1 /\ family \notin Single
  <2>1. PICK b : b = AtBegin(r)
    OBVIOUS
  <2>2. PICK c : c = [b EXCEPT !.tries = 2]
    OBVIOUS
  <2>3. AfterFailure(r) = c
    BY <1>1, <2>1, <2>2 DEF AfterFailure
  <2>4. DOMAIN b = Fields /\ b.phase = "txn" /\ b.order = r.order
    BY <2>1 DEF AtBegin, Ongoing, Fields
  <2>5. Works(b) /\ (family \in Locking => ~Took(b, "lock"))
    BY <2>1, AtBeginWorks DEF Works
  <2>6. /\ c.order = b.order /\ c.request = b.request /\ c.seen = b.seen /\ c.steps = b.steps
        /\ c.basis = b.basis /\ c.number = b.number /\ c.phase = b.phase
    BY <2>2, <2>4 DEF Fields
  <2>7. Works(c) /\ (family \in Locking => ~Took(c, "lock"))
    BY <2>5, <2>6 DEF Works, Sees, Checked, Counts, Took
  <2> QED BY <2>3, <2>4, <2>6, <2>7
<1>2. CASE ~(r.tries = 1 /\ family \notin Single)
  <2>1. AfterFailure(r) = Finished(r, "unknown")
    BY <1>2 DEF AfterFailure
  <2>2. Finished(r, "unknown").phase = "done" /\ Finished(r, "unknown").order = r.order
    BY DEF Finished
  <2> QED BY <2>1, <2>2
<1> QED BY <1>1, <1>2

\* What the invariants say of a request on its way.
LEMMA OnTheWay ==
  ASSUME IInv, Telling, Serving, NEW q \in Requests, req[q].phase \in {"pre", "txn"}
  PROVE  /\ family \in AllFamilies /\ Dense /\ Ongoing(req[q]) /\ Fine(req[q])
         /\ req[q].order.type \in Types(family)
         /\ req[q].order.wants \in Wants(family, req[q].order.type)
         /\ req[q].order.body \in Bodies
         /\ req[q].phase = "pre" => Sees(req[q]) /\ LooksLast(req[q])
         /\ req[q].phase = "txn" => Works(req[q]) /\ req[q].steps \in Left
BY BridgeAssumption DEF IInv, Shape, Formed, Ongoing, Telling, Begun, Fine, Named, Serving

\* Those that trust what they see do not ask whose the record is.
LEMMA TrustingMine ==
  ASSUME NEW type, Trusting(type), NEW state, NEW mine, Admits(family, type, state, mine)
  PROVE  Admits(family, type, state, TRUE)
<1> USE DEF SalesFamilies, MarketingFamilies, DeliveryFamilies, FundFamilies
<1>1. CASE family \in SalesFamilies
  BY <1>1 DEF Admits
<1>2. CASE family = "admin_dict"
  BY <1>2 DEF Admits, SalesFamilies, MarketingFamilies, DeliveryFamilies, FundFamilies
<1> QED BY <1>1, <1>2 DEF Trusting

\* The last of the steps that are left.
LEMMA LastOfTail ==
  ASSUME NEW s \in Seq(Questions), s # <<>>
  PROVE  /\ Tail(s) = <<>> => s[Len(s)] = Head(s)
         /\ Tail(s) # <<>> => Tail(s)[Len(Tail(s))] = s[Len(s)]
<1>1. PICK n, t : n = Len(s) /\ t = Tail(s)
  OBVIOUS
<1>2. n \in Nat \ {0}
  BY <1>1, EmptySeq
<1>3. t \in Seq(Questions) /\ Len(t) = n - 1 /\ \A i \in 1..(n - 1) : t[i] = s[i + 1]
  BY <1>1, <1>2
<1>4. CASE n = 1
  BY <1>1, <1>3, <1>4, EmptySeq
<1>5. CASE n # 1
  <2>1. n - 1 \in 1..(n - 1) /\ (n - 1) + 1 = n
    BY <1>2, <1>5
  <2>2. t # <<>>
    BY <1>3, <2>1, EmptySeq
  <2> QED BY <1>1, <1>3, <2>1, <2>2
<1> QED BY <1>4, <1>5

LEMMA PreStepServes ==
  ASSUME IInv, Telling, Serving, NEW q \in Requests, PreStep(q)
  PROVE  Serving'
<1>1. PICK s, step : s = req[q] /\ step = Head(s.steps)
  OBVIOUS
<1>2. PICK on : on = Advanced(s, step)
  OBVIOUS
<1>3. /\ s.phase = "pre" /\ Passes(s, step)
      /\ req' = [req EXCEPT ![q] = IF on.steps = <<>> THEN AtBegin(on) ELSE on]
      /\ UNCHANGED <<family, rows, orphans>>
  BY <1>1, <1>2 DEF PreStep
<1>4. /\ family \in AllFamilies /\ Dense /\ Ongoing(s) /\ WasRead(s) /\ Shape /\ Ways(s)
      /\ s.order.type \in Types(family)
      /\ s.order.wants \in Wants(family, s.order.type) /\ s.order.body \in Bodies
      /\ Sees(s) /\ LooksLast(s)
  <2>1. WasRead(s) /\ Shape
    BY <1>1 DEF IInv, Known
  <2> QED BY <1>1, <1>3, <2>1, OnTheWay DEF Fine
<1>5. GoesOn(s, step, on) /\ Ongoing(on)
  BY <1>2, <1>3, <1>4, AdvancedIs, AdvancedShape
<1>6. step = "allocate" => s.order.type = "create"
  BY <1>1, <1>3, <1>4, WhoAllocates
<1>7. Sees(on)
  <2>1. Highest(s.request.record) \in Nat /\ Highest(on.request.record) \in Nat
    BY <1>4, DenseIs
  <2>2. on.order = s.order /\ (on.order.type # "create" => on.request = s.request)
    BY <1>5, <1>6 DEF GoesOn
  <2>3. on.seen \in Nat /\ (on.order.type # "create" => on.seen <= Highest(on.request.record))
    <3>1. CASE step \in {"current", "exists"}
      <4>1. on.seen = Highest(s.request.record)
        BY <1>5, <3>1 DEF GoesOn
      <4> QED BY <2>1, <2>2, <4>1
    <3>2. CASE step \notin {"current", "exists"}
      <4>1. on.seen = s.seen
        BY <1>5, <3>2 DEF GoesOn
      <4> QED BY <1>4, <2>2, <4>1 DEF Sees
    <3> QED BY <3>1, <3>2
  <2> QED BY <1>4, <2>2, <2>3 DEF Sees
<1>8. CASE on.steps = <<>>
  <2>1. Checked(on)
    <3> SUFFICES ASSUME Trusting(s.order.type)
                 PROVE  Admits(family, s.order.type,
                               Shown(family, StateOf(on.request.record, on.seen)), TRUE)
      BY <1>5 DEF Checked, GoesOn
    <3>1. s.steps \in Seq(Questions) /\ s.steps # <<>> /\ s.order.type # "create"
      BY <1>3, <1>4 DEF Ways, Trusting, SalesFamilies
    <3>2. Tail(s.steps) = <<>>
      BY <1>5, <1>8 DEF GoesOn
    <3>3. step = "current"
      BY <1>1, <1>4, <3>1, <3>2, LastOfTail DEF LooksLast
    <3>4. Admits(family, s.order.type,
                 Shown(family, StateOf(s.request.record, Highest(s.request.record))), s.order.mine)
      BY <1>3, <3>3 DEF Passes
    <3>5. on.request = s.request /\ on.seen = Highest(s.request.record)
      BY <1>5, <3>3 DEF GoesOn
    <3> QED BY <3>4, <3>5, TrustingMine
  <2>2. PICK b : b = AtBegin(on)
    OBVIOUS
  <2>3. on.order = s.order
    BY <1>5 DEF GoesOn
  <2>4. Works(b) /\ (family \in Locking => ~Took(b, "lock"))
    BY <1>4, <1>5, <1>7, <2>1, <2>2, <2>3, AtBeginWorks
  <2>5. b.phase = "txn" /\ b.order = s.order
    BY <1>5, <2>2, <2>3, AtBeginLike DEF Like
  <2>6. req' = [req EXCEPT ![q] = b]
    BY <1>3, <1>8, <2>2
  <2> QED BY <1>3, <1>4, <2>4, <2>5, <2>6, ServesMoved
<1>9. CASE on.steps # <<>>
  <2>1. on.phase = "pre" /\ on.order = s.order /\ on.steps = Tail(s.steps)
    BY <1>5 DEF GoesOn
  <2>2. LooksLast(on)
    <3> SUFFICES ASSUME Trusting(s.order.type) PROVE on.steps[Len(on.steps)] = "current"
      BY <2>1 DEF LooksLast
    <3>1. s.steps \in Seq(Questions) /\ s.steps # <<>>
      BY <1>3, <1>4 DEF Ways, Trusting, SalesFamilies
    <3>2. s.steps[Len(s.steps)] = "current"
      BY <1>4 DEF LooksLast
    <3> QED BY <1>9, <2>1, <3>1, <3>2, LastOfTail
  <2>3. req' = [req EXCEPT ![q] = on]
    BY <1>3, <1>9
  <2> QED BY <1>3, <1>4, <1>7, <2>1, <2>2, <2>3, ServesMoved
<1> QED BY <1>8, <1>9
\* A request that is answered.
LEMMA AnswerServes ==
  ASSUME IInv, Telling, Serving, NEW q \in Requests, req[q].phase \in {"pre", "txn"}, NEW reply,
         req' = [req EXCEPT ![q] = Finished(req[q], reply)],
         UNCHANGED <<family, rows, orphans>>
  PROVE  Serving'
<1>1. PICK r : r = Finished(req[q], reply)
  OBVIOUS
<1>2. r.phase = "done" /\ r.order = req[q].order
  BY <1>1 DEF Finished
<1>3. /\ r.order.wants \in Wants(family, r.order.type)
      /\ r.order.body \in Bodies
  BY <1>2, OnTheWay
<1>4. req' = [req EXCEPT ![q] = r]
  BY <1>1
<1> QED BY <1>2, <1>3, <1>4, ServesMoved

LEMMA PreReplyServes ==
  ASSUME IInv, Telling, Serving, NEW q \in Requests, PreReply(q)
  PROVE  Serving'
<1>1. PICK reply :
        reply = LET r == req[q]
                    step == Head(r.steps)
                    stored == IF step = "receipt" THEN receipts[r.order.key] ELSE r.got
                IN  IF step \in {"receipt", "compare"} /\ Answers(family, stored, r.request)
                    THEN "ok" ELSE "refused"
  OBVIOUS
<1>2. /\ req[q].phase = "pre" /\ req' = [req EXCEPT ![q] = Finished(req[q], reply)]
      /\ UNCHANGED <<family, rows, orphans>>
  BY <1>1 DEF PreReply
<1> QED BY <1>2, AnswerServes

-----------------------------------------------------------------------------
\* What else is done when a statement is.
LEMMA Taken ==
  ASSUME NEW r, r.steps \in Left, NEW u, u.steps = Tail(r.steps), NEW x
  PROVE  /\ Contains(u.steps, x) => Contains(r.steps, x)
         /\ Head(r.steps) # x => (Took(u, x) <=> Took(r, x))
         /\ Head(r.steps) = x => ~Took(r, x)
<1>1. r.steps \in Seq(Words) /\ r.steps # <<>>
  BY LeftSteps
<1>2. PICK s, t : s = r.steps /\ t = Tail(s) /\ (Contains(s, x) <=> Head(s) = x \/ Contains(t, x))
  BY <1>1, ContainsTail
<1> QED BY <1>2 DEF Took

LEMMA LocksHeld ==
  ASSUME family \in AllFamilies, family \in Locking, NEW s
  PROVE  Holds(s, "lock") <=> Took(s, "lock")
<1>0. Program(s.order) = Txn(family, s.order.type)
  BY DEF Program, Batch, Locking, FundFamilies
<1>1. Txn(family, s.order.type) \in {LockedTxn, LockedFirstTxn}
  BY WhichProgram
<1>2. Contains(LockedTxn, "lock") /\ Contains(LockedFirstTxn, "lock")
  BY DEF LockedTxn, LockedFirstTxn, Contains
<1> QED BY <1>0, <1>1, <1>2 DEF Holds, Took

\* A session that is one statement further.
LEMMA MovesOn ==
  ASSUME IInv, Telling, Serving, NEW q \in Requests, req[q].phase = "txn",
         NEW u, Onward(req[q], u), Works(u),
         Head(req[q].steps) = "lock" => LockFree(q),
         req' = [req EXCEPT ![q] = u], UNCHANGED <<family, rows, orphans>>
  PROVE  Serving'
<1>1. PICK s : s = req[q]
  OBVIOUS
<1>2. /\ family \in AllFamilies /\ s.steps \in Left
      /\ s.order.wants \in Wants(family, s.order.type) /\ s.order.body \in Bodies
  BY <1>1, OnTheWay
<1>3. u.phase = "txn" /\ u.order = s.order /\ u.request = s.request /\ u.steps = Tail(s.steps)
  BY <1>1 DEF Onward
<1>4. ASSUME family \in Locking, Took(u, "lock")
      PROVE  \/ Took(s, "lock")
             \/ \A t \in OtherSessions(q) :
                  ~(Took(t, "lock") /\ t.request.record = u.request.record)
  <2>1. CASE Head(s.steps) # "lock"
    BY <1>2, <1>3, <1>4, <2>1, Taken
  <2>2. CASE Head(s.steps) = "lock"
    BY <1>1, <1>2, <1>3, <1>4, <2>2, LocksHeld DEF LockFree
  <2> QED BY <2>1, <2>2
<1> QED BY <1>1, <1>2, <1>3, <1>4, ServesMoved

\* One that fails.
LEMMA FailureServes ==
  ASSUME IInv, Telling, Serving, NEW q \in Requests, req[q].phase = "txn",
         req' = [req EXCEPT ![q] = AfterFailure(req[q])], UNCHANGED <<family, rows, orphans>>
  PROVE  Serving'
<1>1. PICK s, r : s = req[q] /\ r = AfterFailure(s)
  OBVIOUS
<1>2. /\ family \in AllFamilies /\ Dense /\ Ongoing(s) /\ Works(s) /\ s.order.type \in Types(family)
      /\ s.order.wants \in Wants(family, s.order.type) /\ s.order.body \in Bodies
  BY <1>1, OnTheWay
<1>3. /\ r.order = s.order /\ r.phase \in {"txn", "done"}
      /\ r.phase = "txn" => Works(r) /\ (family \in Locking => ~Took(r, "lock"))
  BY <1>1, <1>2, FailureWorks
<1> QED BY <1>1, <1>2, <1>3, ServesMoved

\* Number and basis as before.
LEMMA StillWorks ==
  ASSUME NEW s, Works(s), s.steps \in Left, Head(s.steps) # "read",
         NEW u, Onward(s, u), u.seen = s.seen, u.basis = s.basis, u.number = s.number
  PROVE  Works(u)
<1>1. u.order = s.order /\ u.request = s.request /\ u.steps = Tail(s.steps)
  BY DEF Onward
<1>2. /\ Took(u, "read") <=> Took(s, "read")
      /\ Contains(u.steps, "number") => Contains(s.steps, "number")
  BY <1>1, Taken
<1>3. Counts(u)
  BY <1>1, <1>2 DEF Works, Counts
<1> QED BY <1>1, <1>3 DEF Works, Sees, Checked

LEMMA LockServes ==
  ASSUME IInv, Telling, Serving, NEW q \in Requests, Lock(q)
  PROVE  Serving'
<1>1. InTxn(q, "lock") /\ UNCHANGED <<rows, receipts>> /\ LockFree(q)
  BY DEF Lock
<1>2. PICK r : r = [req[q] EXCEPT !.steps = Tail(req[q].steps)]
  OBVIOUS
<1>3. req' = [req EXCEPT ![q] = r]
  BY <1>2 DEF Lock
<1>4. Onward(req[q], r) /\ r.seen = req[q].seen /\ r.basis = req[q].basis /\ r.number = req[q].number
  BY <1>1, <1>2, InTransaction DEF Onward, Ongoing, Fields
<1>5. Works(r)
  BY <1>1, <1>4, InTransaction, StillWorks DEF Serving
<1> QED BY <1>1, <1>3, <1>4, <1>5, InTransaction, MovesOn

LEMMA InsertKeyServes ==
  ASSUME IInv, Telling, Serving, NEW q \in Requests, InsertKey(q)
  PROVE  Serving'
<1>1. InTxn(q, "key") /\ UNCHANGED <<rows, receipts>>
  BY DEF InsertKey
<1>2. CASE receipts[req[q].order.key] = None
  <2>1. PICK r : r = [req[q] EXCEPT !.steps = Tail(req[q].steps)]
    OBVIOUS
  <2>2. req' = [req EXCEPT ![q] = r]
    BY <1>2, <2>1 DEF InsertKey
  <2>3. /\ Onward(req[q], r) /\ r.seen = req[q].seen /\ r.basis = req[q].basis
        /\ r.number = req[q].number
    BY <1>1, <2>1, InTransaction DEF Onward, Ongoing, Fields
  <2>4. Works(r)
    BY <1>1, <2>3, InTransaction, StillWorks DEF Serving
  <2>5. /\ req[q].phase = "txn" /\ Head(req[q].steps) # "lock"
        /\ UNCHANGED <<family, rows, orphans>>
    BY <1>1, InTransaction
  <2> QED BY <2>2, <2>3, <2>4, <2>5, MovesOn
<1>3. CASE receipts[req[q].order.key] # None
  <2>1. PICK reply : reply = IF family \in Single \/ receipts[req[q].order.key] = req[q].request
                             THEN "ok" ELSE "refused"
    OBVIOUS
  <2>2. req' = [req EXCEPT ![q] = Finished(req[q], reply)]
    BY <1>3, <2>1 DEF InsertKey
  <2> QED BY <1>1, <2>2, InTransaction, AnswerServes
<1> QED BY <1>2, <1>3

\* What is read is the highest revision.
LEMMA ReadServes ==
  ASSUME IInv, Telling, Serving, NEW q \in Requests, Read(q)
  PROVE  Serving'
<1>1. InTxn(q, "read") /\ UNCHANGED <<rows, receipts>>
  BY DEF Read
<1>2. PICK found : found = Highest(req[q].request.record)
  OBVIOUS
<1>3. CASE Rechecks(family, req[q].order.type, StateOf(req[q].request.record, found))
  <2>1. PICK r : r = [req[q] EXCEPT !.steps = Tail(req[q].steps), !.basis = found]
    OBVIOUS
  <2>2. req' = [req EXCEPT ![q] = r]
    BY <1>2, <1>3, <2>1 DEF Read
  <2>3. /\ Onward(req[q], r) /\ r.seen = req[q].seen /\ r.basis = found
        /\ r.number = req[q].number
    BY <1>1, <2>1, InTransaction DEF Onward, Ongoing, Fields
  <2>4. Works(r)
    <3>1. PICK s : s = req[q]
      OBVIOUS
    <3>2. r.order = s.order /\ r.request = s.request /\ r.steps = Tail(s.steps)
      BY <2>3, <3>1 DEF Onward
    <3>3. Works(s) /\ s.steps \in Left /\ Dense
      BY <1>1, <3>1, InTransaction DEF Serving
    <3>4. Contains(r.steps, "number") => Contains(s.steps, "number")
      BY <3>2, <3>3, Taken
    <3>5. found \in Nat /\ found = Highest(s.request.record)
      BY <1>2, <3>1, <3>3, DenseIs
    <3>6. Counts(r)
      BY <1>3, <2>3, <3>1, <3>2, <3>3, <3>4, <3>5 DEF Works, Counts
    <3> QED BY <2>3, <3>1, <3>2, <3>3, <3>6 DEF Works, Sees, Checked
  <2>5. /\ req[q].phase = "txn" /\ Head(req[q].steps) # "lock"
        /\ UNCHANGED <<family, rows, orphans>>
    BY <1>1, InTransaction
  <2> QED BY <2>2, <2>3, <2>4, <2>5, MovesOn
<1>4. CASE ~Rechecks(family, req[q].order.type, StateOf(req[q].request.record, found))
  <2>1. req' = [req EXCEPT ![q] = AfterFailure(req[q])]
    BY <1>2, <1>4 DEF Read
  <2> QED BY <1>1, <2>1, InTransaction, FailureServes
<1> QED BY <1>3, <1>4

\* The next number, of the families that look for it.
LEMMA NumberServes ==
  ASSUME IInv, Telling, Serving, NEW q \in Requests, Number(q)
  PROVE  Serving'
<1>1. InTxn(q, "number") /\ UNCHANGED <<rows, receipts>>
  BY DEF Number
<1>2. PICK r : r = [req[q] EXCEPT !.steps = Tail(req[q].steps),
                                  !.number = Highest(req[q].request.record) + 1]
  OBVIOUS
<1>3. req' = [req EXCEPT ![q] = r]
  BY <1>1, <1>2, InTransaction DEF Number
<1>4. /\ Onward(req[q], r) /\ r.seen = req[q].seen /\ r.basis = req[q].basis
      /\ r.number = Highest(req[q].request.record) + 1
  BY <1>1, <1>2, InTransaction DEF Onward, Ongoing, Fields
<1>5. Works(r)
  <2>1. PICK s : s = req[q]
    OBVIOUS
  <2>2. r.order = s.order /\ r.request = s.request /\ r.steps = Tail(s.steps)
    BY <1>4, <2>1 DEF Onward
  <2>3. Works(s) /\ s.steps \in Left /\ Head(s.steps) = "number" /\ Dense /\ family \in AllFamilies
    BY <1>1, <2>1, InTransaction, BridgeAssumption DEF Serving
  <2>4. /\ Contains(r.steps, "number") => Contains(s.steps, "number")
        /\ Took(r, "read") <=> Took(s, "read")
        /\ Contains(s.steps, "number")
    BY <2>2, <2>3, Taken DEF Took
  <2>5. Contains(Txn(family, s.order.type), "number")
    BY <2>3, <2>4 DEF Works, Counts
  <2>6. ~(family \in Register!Serial \ Locking)
    BY <2>3, <2>5, ProgramSteps
  <2>7. Highest(s.request.record) \in Nat
    BY <2>3, DenseIs
  <2>8. r.number = Highest(s.request.record) + 1 /\ r.basis = s.basis
    BY <1>4, <2>1
  <2>9. Counts(r)
    BY <2>2, <2>3, <2>4, <2>5, <2>6, <2>7, <2>8 DEF Works, Counts
  <2> QED BY <1>4, <2>1, <2>2, <2>3, <2>9 DEF Works, Sees, Checked
<1>6. /\ req[q].phase = "txn" /\ Head(req[q].steps) # "lock"
      /\ UNCHANGED <<family, rows, orphans>>
  BY <1>1, InTransaction
<1> QED BY <1>3, <1>4, <1>5, <1>6, MovesOn

LEMMA WriteServes ==
  ASSUME IInv, Telling, Serving, NEW q \in Requests, Write(q)
  PROVE  Serving'
<1>1. InTxn(q, "write") /\ UNCHANGED <<rows, receipts>>
  BY DEF Write
<1>2. CASE \E v \in RowsOf(req[q].request.record) : v.number = req[q].number
  <2>1. req' = [req EXCEPT ![q] = AfterFailure(req[q])]
    BY <1>2 DEF Write
  <2> QED BY <1>1, <2>1, InTransaction, FailureServes
<1>3. CASE ~\E v \in RowsOf(req[q].request.record) : v.number = req[q].number
  <2>1. PICK r : r = [req[q] EXCEPT !.steps = Tail(req[q].steps)]
    OBVIOUS
  <2>2. req' = [req EXCEPT ![q] = r]
    BY <1>3, <2>1 DEF Write
  <2>3. /\ Onward(req[q], r) /\ r.seen = req[q].seen /\ r.basis = req[q].basis
        /\ r.number = req[q].number
    BY <1>1, <2>1, InTransaction DEF Onward, Ongoing, Fields
  <2>4. Works(r)
    BY <1>1, <2>3, InTransaction, StillWorks DEF Serving
  <2>5. /\ req[q].phase = "txn" /\ Head(req[q].steps) # "lock"
        /\ UNCHANGED <<family, rows, orphans>>
    BY <1>1, InTransaction
  <2> QED BY <2>2, <2>3, <2>4, <2>5, MovesOn
<1> QED BY <1>2, <1>3

LEMMA SiblingServes ==
  ASSUME IInv, Telling, Serving, NEW q \in Requests, Sibling(q)
  PROVE  Serving'
<1>1. InTxn(q, "sibling") /\ UNCHANGED <<rows, receipts>>
  BY DEF Sibling
<1>2. PICK r : r = [req[q] EXCEPT !.steps = Tail(req[q].steps), !.siblings = Siblings]
  OBVIOUS
<1>3. req' = [req EXCEPT ![q] = r]
  BY <1>1, <1>2, InTransaction DEF Sibling
<1>4. /\ Onward(req[q], r) /\ r.seen = req[q].seen /\ r.basis = req[q].basis
      /\ r.number = req[q].number
  BY <1>1, <1>2, InTransaction DEF Onward, Ongoing, Fields
<1>5. Works(r)
  BY <1>1, <1>4, InTransaction, StillWorks DEF Serving
<1>6. /\ req[q].phase = "txn" /\ Head(req[q].steps) # "lock"
      /\ UNCHANGED <<family, rows, orphans>>
  BY <1>1, InTransaction
<1> QED BY <1>3, <1>4, <1>5, <1>6, MovesOn

LEMMA BesideServes ==
  ASSUME IInv, Telling, Serving, NEW q \in Requests, Beside(q)
  PROVE  Serving'
<1>1. InTxn(q, "beside") /\ UNCHANGED <<rows, receipts>>
  BY DEF Beside
<1>2. CASE req[q].siblings # Siblings
  <2>1. req' = [req EXCEPT ![q] = AfterFailure(req[q])]
    BY <1>2 DEF Beside
  <2> QED BY <1>1, <2>1, InTransaction, FailureServes
<1>3. CASE req[q].siblings = Siblings
  <2>1. PICK r : r = [req[q] EXCEPT !.steps = Tail(req[q].steps)]
    OBVIOUS
  <2>2. req' = [req EXCEPT ![q] = r]
    BY <1>3, <2>1 DEF Beside
  <2>3. /\ Onward(req[q], r) /\ r.seen = req[q].seen /\ r.basis = req[q].basis
        /\ r.number = req[q].number
    BY <1>1, <2>1, InTransaction DEF Onward, Ongoing, Fields
  <2>4. Works(r)
    BY <1>1, <2>3, InTransaction, StillWorks DEF Serving
  <2>5. /\ req[q].phase = "txn" /\ Head(req[q].steps) # "lock"
        /\ UNCHANGED <<family, rows, orphans>>
    BY <1>1, InTransaction
  <2> QED BY <2>2, <2>3, <2>4, <2>5, MovesOn
<1> QED BY <1>2, <1>3

LEMMA DeadlockServes ==
  ASSUME IInv, Telling, Serving, NEW q \in Requests, Deadlock(q)
  PROVE  Serving'
BY FailureServes DEF Deadlock

-----------------------------------------------------------------------------
\* The killed session works on.
LEMMA TimeoutServes ==
  ASSUME IInv, Telling, Serving, NEW q \in Requests, Timeout(q)
  PROVE  Serving'
<1>1. PICK s, r : s = req[q] /\ r = AfterFailure(s)
  OBVIOUS
<1>2. /\ s.phase = "txn" /\ family \in AllFamilies /\ Dense /\ Ongoing(s) /\ Works(s)
      /\ s.order.type \in Types(family) /\ s.order.wants \in Wants(family, s.order.type)
      /\ s.order.body \in Bodies
  BY <1>1, OnTheWay DEF Timeout
<1>3. /\ req' = [req EXCEPT ![q] = r] /\ orphans' = orphans \cup {s}
      /\ UNCHANGED <<family, rows, receipts>>
  BY <1>1 DEF Timeout
<1>4. /\ r.order = s.order /\ r.phase \in {"txn", "done"}
      /\ r.phase = "txn" => Works(r) /\ (family \in Locking => ~Took(r, "lock"))
  BY <1>1, <1>2, FailureWorks
<1>5. \A p \in Requests : req'[p] = IF p = q THEN r ELSE req[p]
  BY <1>3 DEF IInv, Shape
<1>6. Dense' /\ Stated'
  BY <1>3 DEF Serving, Dense, Stated, Numbers, RowsOf
<1>7. ASSUME NEW p \in Requests
      PROVE  (/\ req[p].phase # "idle" =>
                   /\ req[p].order.wants \in Wants(family, req[p].order.type)
                   /\ req[p].order.body \in Bodies
              /\ req[p].phase = "pre" => Sees(req[p]) /\ LooksLast(req[p])
              /\ req[p].phase = "txn" => Works(req[p]))'
  <2>1. PICK u : u = req'[p]
    OBVIOUS
  <2>2. /\ u.phase # "idle" => u.order.wants \in Wants(family, u.order.type) /\ u.order.body \in Bodies
        /\ u.phase = "pre" => Sees(u) /\ LooksLast(u)
        /\ u.phase = "txn" => Works(u)
    <3>1. CASE p = q
      BY <1>2, <1>4, <1>5, <2>1, <3>1
    <3>2. CASE p # q
      BY <1>5, <2>1, <3>2 DEF Serving
    <3> QED BY <3>1, <3>2
  <2> QED BY <1>3, <2>1, <2>2, StillServes
<1>8. \A t \in orphans' : Works(t)'
  BY <1>2, <1>3, StillServes DEF Serving
<1>9. Alone'
  <2> SUFFICES ASSUME family \in Locking PROVE Alone'
    BY <1>3 DEF Alone
  <2>1. \A p \in Requests : req'[p].phase = "txn" /\ Took(req'[p], "lock") =>
          p # q /\ req'[p] = req[p]
    BY <1>4, <1>5
  <2>2. \A u, w \in Requests :
          /\ u # w /\ req'[u].phase = "txn" /\ req'[w].phase = "txn"
          /\ Took(req'[u], "lock") /\ Took(req'[w], "lock")
          => req'[u].request.record # req'[w].request.record
    BY <2>1 DEF Serving, Alone
  <2>3. \A u \in Requests, t \in orphans' :
          req'[u].phase = "txn" /\ Took(req'[u], "lock") /\ Took(t, "lock")
          => req'[u].request.record # t.request.record
    BY <1>1, <1>2, <1>3, <2>1 DEF Serving, Alone
  <2>4. \A t, u \in orphans' :
          t # u /\ Took(t, "lock") /\ Took(u, "lock") => t.request.record # u.request.record
    <3>1. \A t \in orphans : Took(t, "lock") /\ Took(s, "lock") => s.request.record # t.request.record
      BY <1>1, <1>2 DEF Serving, Alone
    <3> QED BY <1>3, <3>1 DEF Serving, Alone
  <2> QED BY <2>2, <2>3, <2>4 DEF Alone, Took
<1> QED BY <1>6, <1>7, <1>8, <1>9 DEF Serving

LEMMA LessServes ==
  ASSUME Serving, orphans' \subseteq orphans, UNCHANGED <<family, rows, req>>
  PROVE  Serving'
<1>1. Dense' /\ Stated'
  BY DEF Serving, Dense, Stated, Numbers, RowsOf
<1>2. \A s \in orphans' : Works(s)'
  BY StillServes DEF Serving
<1>3. Alone'
  BY DEF Serving, Alone, Took
<1>4. ASSUME NEW q \in Requests
      PROVE  (/\ req[q].phase # "idle" =>
                   /\ req[q].order.wants \in Wants(family, req[q].order.type)
                   /\ req[q].order.body \in Bodies
              /\ req[q].phase = "pre" => Sees(req[q]) /\ LooksLast(req[q])
              /\ req[q].phase = "txn" => Works(req[q]))'
  <2>1. PICK u : u = req[q] /\ u = req'[q]
    OBVIOUS
  <2>2. /\ u.phase # "idle" => u.order.wants \in Wants(family, u.order.type) /\ u.order.body \in Bodies
        /\ u.phase = "pre" => Sees(u) /\ LooksLast(u)
        /\ u.phase = "txn" => Works(u)
    BY <2>1 DEF Serving
  <2> QED BY <2>1, <2>2, StillServes
<1> QED BY <1>1, <1>2, <1>3, <1>4 DEF Serving
-----------------------------------------------------------------------------
\* The session of a request, or a killed one, commits.
Stores(s) ==
  /\ s.steps = <<"commit">> /\ CommitOf(s) /\ family' = family
  /\ \/ /\ \E q \in Requests :
             /\ req[q] = s /\ s.phase = "txn"
             /\ req' = [req EXCEPT ![q] = Finished(s, "ok")]
        /\ orphans' = orphans
     \/ /\ s \in orphans /\ orphans' = orphans \ {s}
        /\ req' = req

\* It is done with all its statements, and nothing stored has what it claims.
LEMMA StoresIs ==
  ASSUME IInv, Telling, Serving, NEW s, Stores(s)
  PROVE  /\ Ongoing(s) /\ s.phase = "txn" /\ Works(s) /\ family \in AllFamilies
         /\ s.order.type \in Types(family) /\ s.request.type = s.order.type
         /\ s.request.wants = s.order.wants
         /\ \A x \in Words \ {"commit"} : Took(s, x)
         /\ \A step \in Claimed : Unmet(Claim(s, step), step)
<1>1. /\ Ongoing(s) /\ s.phase = "txn" /\ Works(s) /\ Named(s) /\ family \in AllFamilies
      /\ \A step \in Claimed : Took(s, step) => Unmet(Claim(s, step), step)
  <2>1. CASE s \in orphans
    BY <2>1, BridgeAssumption DEF Serving, Telling, IInv, Shape, Clear
  <2>2. CASE \E q \in Requests : req[q] = s /\ s.phase = "txn"
    <3>1. PICK q \in Requests : req[q] = s /\ s.phase = "txn"
      BY <2>2
    <3>2. Formed(req[q]) /\ Fine(req[q]) /\ Works(req[q]) /\ family \in AllFamilies
      BY <3>1, BridgeAssumption DEF Serving, Telling, Begun, IInv, Shape
    <3>3. \A step \in Claimed : Took(req[q], step) => Unmet(Claim(req[q], step), step)
      BY <3>1 DEF IInv, Clear
    <3> QED BY <3>1, <3>2, <3>3 DEF Formed, Fine
  <2>3. s \in orphans \/ \E q \in Requests : req[q] = s /\ s.phase = "txn"
    BY DEF Stores
  <2> QED BY <2>1, <2>2, <2>3
<1>2. \A x \in Words \ {"commit"} : ~Contains(<<"commit">>, x)
  BY DEF Contains, Words
<1>3. \A x \in Words \ {"commit"} : Took(s, x)
  BY <1>2 DEF Stores, Took
<1>4. Claimed \subseteq Words \ {"commit"}
  BY DEF Claimed, Words
<1> QED BY <1>1, <1>3, <1>4 DEF Named

\* The revision is the next of its record.
LEMMA StoresNext ==
  ASSUME IInv, Telling, Serving, NEW s, Stores(s)
  PROVE  LET top == Highest(s.request.record) IN
         /\ top \in Nat /\ s.number = top + 1 /\ s.basis \in 0..top
         /\ Rechecks(family, s.order.type, StateOf(s.request.record, s.basis))
         /\ family \in Register!Serial => s.basis = top
<1>1. /\ Works(s) /\ Unmet(Claim(s, "write"), "write") /\ Took(s, "read")
  BY StoresIs DEF Claimed, Words
<1>2. PICK top : top = Highest(s.request.record)
  OBVIOUS
<1>3. top \in Nat /\ Numbers(s.request.record) = 1..top
  BY <1>2, DenseIs DEF Serving
<1>4. /\ s.number \in 1..(top + 1) /\ s.basis \in 0..top
      /\ Rechecks(family, s.order.type, StateOf(s.request.record, s.basis))
      /\ family \in Register!Serial =>
           IF family \in Locking THEN s.basis = top ELSE s.number <= s.basis + 1
  BY <1>1, <1>2 DEF Works, Counts
<1>5. s.number \notin Numbers(s.request.record)
  BY <1>1 DEF Unmet, Claim, Numbers, RowsOf
<1>6. s.number = top + 1
  BY <1>3, <1>4, <1>5
<1> QED BY <1>2, <1>3, <1>4, <1>6

\* The revision that s stores.
Revision(s) ==
  [record |-> s.request.record, number |-> s.number, key |-> s.order.key,
   state |-> Leaves(family, s.order.type, StateOf(s.request.record, s.basis), s.order.wants),
   basis |-> s.basis, body |-> s.order.body]

\* No other session that works under the lock works on its record.
LEMMA StoresAlone ==
  ASSUME IInv, Telling, Serving, NEW s, Stores(s), family \in Locking
  PROVE  /\ \A p \in Requests : req'[p].phase = "txn" /\ Took(req'[p], "lock")
                                => req'[p].request.record # s.request.record
         /\ \A t \in orphans' : Took(t, "lock") => t.request.record # s.request.record
<1>1. Took(s, "lock")
  BY StoresIs DEF Words
<1>2. CASE s \in orphans /\ orphans' = orphans \ {s} /\ req' = req
  BY <1>1, <1>2 DEF Serving, Alone
<1>3. ASSUME NEW q \in Requests, req[q] = s, s.phase = "txn",
             req' = [req EXCEPT ![q] = Finished(s, "ok")], orphans' = orphans
      PROVE  /\ \A p \in Requests : req'[p].phase = "txn" /\ Took(req'[p], "lock")
                                    => req'[p].request.record # s.request.record
             /\ \A t \in orphans' : Took(t, "lock") => t.request.record # s.request.record
  <2>1. Finished(s, "ok").phase = "done"
    BY DEF Finished
  <2>2. \A p \in Requests : req'[p] = IF p = q THEN Finished(s, "ok") ELSE req[p]
    BY <1>3 DEF IInv, Shape
  <2> QED BY <1>1, <1>3, <2>1, <2>2 DEF Serving, Alone
<1> QED BY <1>2, <1>3 DEF Stores

\* Nothing is read before the lock.
LEMMA ReadAfterLock == ASSUME NEW s \in Left PROVE Contains(s, "lock") => Contains(s, "read")
<1>1. Contains(<<"lock", "key", "read", "number", "write", "commit">>, "read")
  BY DEF Contains
<1>2. Contains(<<"lock", "key", "read", "write", "commit">>, "read")
  BY DEF Contains
<1>3. ASSUME s \notin {<<"lock", "key", "read", "number", "write", "commit">>,
                       <<"lock", "key", "read", "write", "commit">>}
      PROVE  ~Contains(s, "lock")
  <2>1. CASE s = <<"key", "read", "number", "write", "commit">>
    BY <2>1 DEF Contains
  <2>2. CASE s = <<"key", "read", "write", "commit">>
    BY <2>2 DEF Contains
  <2>3. CASE s = <<"key", "number", "write", "commit">>
    BY <2>3 DEF Contains
  <2>4. CASE s = <<"read", "number", "write", "commit">>
    BY <2>4 DEF Contains
  <2>5. CASE s = <<"read", "write", "commit">>
    BY <2>5 DEF Contains
  <2>6. CASE s = <<"number", "write", "commit">>
    BY <2>6 DEF Contains
  <2>7. CASE s = <<"write", "commit">>
    BY <2>7 DEF Contains
  <2>8. CASE s = <<"commit">>
    BY <2>8 DEF Contains
  <2>9. CASE s = <<"key", "sibling", "beside", "number", "write", "commit">>
    BY <2>9 DEF Contains
  <2>10. CASE s = <<"sibling", "beside", "number", "write", "commit">>
    BY <2>10 DEF Contains
  <2>11. CASE s = <<"beside", "number", "write", "commit">>
    BY <2>11 DEF Contains
  <2>12. CASE s = <<"key", "number", "write", "sibling", "beside", "commit">>
    BY <2>12 DEF Contains
  <2>13. CASE s = <<"number", "write", "sibling", "beside", "commit">>
    BY <2>13 DEF Contains
  <2>14. CASE s = <<"write", "sibling", "beside", "commit">>
    BY <2>14 DEF Contains
  <2>15. CASE s = <<"sibling", "beside", "commit">>
    BY <2>15 DEF Contains
  <2>16. CASE s = <<"beside", "commit">>
    BY <2>16 DEF Contains
  <2> QED BY <1>3, <2>1, <2>2, <2>3, <2>4, <2>5, <2>6, <2>7, <2>8, <2>9, <2>10, <2>11,
             <2>12, <2>13, <2>14, <2>15, <2>16 DEF Left
<1> QED BY <1>1, <1>2, <1>3

\* What the others count on when a revision is added.
LEMMA StillCounts ==
  ASSUME Dense, family' = family, NEW w,
         \A record : Highest(record)' = IF record = w.record THEN Highest(record) + 1
                                        ELSE Highest(record),
         \A record : \A n \in 0..Highest(record) : StateOf(record, n)' = StateOf(record, n),
         NEW u
  PROVE  /\ Sees(u) => Sees(u)'
         /\ LooksLast(u) => LooksLast(u)'
         /\ /\ Works(u) /\ u.steps \in Left
            /\ family \in Locking /\ Took(u, "lock") => u.request.record # w.record
            => Works(u)'
<1>1. PICK top : top = Highest(u.request.record)
  OBVIOUS
<1>2. PICK top1 : top1 = Highest(u.request.record)'
  OBVIOUS
<1>3. top \in Nat /\ top1 = IF u.request.record = w.record THEN top + 1 ELSE top
  BY <1>1, <1>2, DenseIs
<1>4. Sees(u) => Sees(u)'
  BY <1>1, <1>2, <1>3 DEF Sees
<1>5. LooksLast(u) => LooksLast(u)'
  BY DEF LooksLast, Trusting
<1>6. Trusting(u.order.type) => u.order.type # "create"
  BY DEF Trusting
<1>7. Sees(u) /\ Checked(u) => Checked(u)'
  <2> SUFFICES ASSUME Sees(u), Checked(u), Trusting(u.order.type)
               PROVE  Admits(family, u.order.type,
                             Shown(family, StateOf(u.request.record, u.seen)'), TRUE)
    BY DEF Checked, Trusting
  <2>1. u.seen \in 0..top
    BY <1>1, <1>3, <1>6 DEF Sees
  <2>2. StateOf(u.request.record, u.seen)' = StateOf(u.request.record, u.seen)
    BY <1>1, <2>1
  <2> QED BY <2>2 DEF Checked
<1>8. ASSUME Counts(u), u.steps \in Left,
             family \in Locking /\ Took(u, "lock") => u.request.record # w.record
      PROVE  Counts(u)'
  <2>1. /\ u.number \in 1..(top + 1) /\ u.basis \in 0..top
        /\ Contains(u.steps, "number") => Contains(Txn(family, u.order.type), "number")
        /\ ~Contains(Txn(family, u.order.type), "number") =>
             u.number = IF u.order.type = "create" THEN 1 ELSE u.seen + 1
        /\ Took(u, "read") => Rechecks(family, u.order.type, StateOf(u.request.record, u.basis))
        /\ Took(u, "read") /\ family \in Register!Serial =>
             IF family \in Locking THEN u.basis = top ELSE u.number <= u.basis + 1
    BY <1>1, <1>8 DEF Counts
  <2>2. StateOf(u.request.record, u.basis)' = StateOf(u.request.record, u.basis)
    BY <1>1, <2>1
  <2>3. Took(u, "read") => Took(u, "lock")
    BY <1>8, ReadAfterLock DEF Took
  <2>4. u.number \in 1..(top1 + 1) /\ u.basis \in 0..top1
    BY <1>3, <2>1
  <2>5. Took(u, "read") /\ family \in Register!Serial =>
             IF family \in Locking THEN u.basis = top1 ELSE u.number <= u.basis + 1
    BY <1>3, <1>8, <2>1, <2>3
  <2> QED BY <1>2, <2>1, <2>2, <2>4, <2>5 DEF Counts, Took, Register!Serial
<1> QED BY <1>4, <1>5, <1>7, <1>8 DEF Works
LEMMA StoresGrow ==
  ASSUME IInv, OncePerKey', Telling, Serving, NEW s, Stores(s)
  PROVE  /\ rows' = rows \cup {Revision(s)} /\ Dense' /\ Stated'
         /\ \A record : Highest(record)' =
              IF record = Revision(s).record THEN Highest(record) + 1 ELSE Highest(record)
         /\ \A record : \A n \in 0..Highest(record) : StateOf(record, n)' = StateOf(record, n)
<1>1. PICK w : w = Revision(s)
  OBVIOUS
<1>2. rows' = rows \cup {w}
  BY <1>1 DEF Stores, CommitOf, Revision
<1>3. /\ w.record = s.request.record /\ w.number = s.number
      /\ w.state = Leaves(family, s.order.type, StateOf(s.request.record, s.basis), s.order.wants)
  BY <1>1 DEF Revision
<1>4. w.number = Highest(w.record) + 1
  BY <1>3, StoresNext
<1>5. w.state # Absent
  <2>1. s.order.wants \in Wants(family, s.order.type)
    BY StoresIs DEF Works, Sees
  <2>2. /\ family \in AllFamilies /\ s.order.type \in Types(family)
        /\ Rechecks(family, s.order.type, StateOf(s.request.record, s.basis))
    BY StoresIs, StoresNext
  <2> QED BY <1>3, <2>1, <2>2, LeavesAState
<1>6. Dense /\ Stated /\ OncePerKey
  BY DEF Serving, IInv
<1>7. /\ Dense'
      /\ \A record : Highest(record)' = IF record = w.record THEN Highest(record) + 1
                                        ELSE Highest(record)
      /\ \A record : \A n \in 0..Highest(record) : StateOf(record, n)' = StateOf(record, n)
  BY <1>2, <1>4, <1>6, Grown
<1>8. Stated'
  BY <1>2, <1>5, <1>6 DEF Stated
<1> QED BY <1>1, <1>2, <1>7, <1>8

LEMMA StoresServes ==
  ASSUME IInv, OncePerKey', Telling, Serving, NEW s, Stores(s)
  PROVE  Serving'
<1>1. PICK w : w = Revision(s)
  OBVIOUS
<1>2. w.record = s.request.record
  BY <1>1 DEF Revision
<1>3. /\ Dense /\ Dense' /\ Stated' /\ family' = family
      /\ \A record : Highest(record)' = IF record = w.record THEN Highest(record) + 1
                                        ELSE Highest(record)
      /\ \A record : \A n \in 0..Highest(record) : StateOf(record, n)' = StateOf(record, n)
  BY <1>1, StoresGrow DEF Serving, Stores
<1>4. ASSUME NEW u
      PROVE  /\ Sees(u) => Sees(u)'
             /\ LooksLast(u) => LooksLast(u)'
             /\ /\ Works(u) /\ u.steps \in Left
                /\ family \in Locking /\ Took(u, "lock") => u.request.record # w.record
                => Works(u)'
  BY <1>3, StillCounts
<1>5. /\ orphans' \subseteq orphans
      /\ \A p \in Requests :
           \/ req'[p] = req[p]
           \/ /\ req[p].phase = "txn" /\ req'[p].phase = "done"
              /\ req'[p].order = req[p].order
  <2>1. /\ Finished(s, "ok").phase = "done" /\ Finished(s, "ok").order = s.order
    BY DEF Finished
  <2> QED BY <2>1 DEF Stores, IInv, Shape
<1>6. family \in Locking =>
        /\ \A p \in Requests : req'[p].phase = "txn" /\ Took(req'[p], "lock")
                               => req'[p].request.record # w.record
        /\ \A t \in orphans' : Took(t, "lock") => t.request.record # w.record
  BY <1>2, StoresAlone
<1>7. ASSUME NEW t \in orphans' PROVE Works(t)'
  <2>1. Works(t) /\ t.steps \in Left
    BY <1>5 DEF Serving, IInv, Shape, Ongoing
  <2> QED BY <1>4, <1>6, <2>1
<1>8. ASSUME NEW p \in Requests
      PROVE  (/\ req[p].phase # "idle" =>
                   /\ req[p].order.wants \in Wants(family, req[p].order.type)
                   /\ req[p].order.body \in Bodies
              /\ req[p].phase = "pre" => Sees(req[p]) /\ LooksLast(req[p])
              /\ req[p].phase = "txn" => Works(req[p]))'
  <2>1. PICK u : u = req'[p]
    OBVIOUS
  <2>2. u.phase # "idle" => u.order.wants \in Wants(family, u.order.type) /\ u.order.body \in Bodies
    BY <1>5, <2>1 DEF Serving
  <2>3. u.phase = "pre" => Sees(u) /\ LooksLast(u)
    BY <1>5, <2>1 DEF Serving
  <2>4. u.phase = "txn" => /\ Works(u) /\ u.steps \in Left
                           /\ family \in Locking /\ Took(u, "lock") => u.request.record # w.record
    BY <1>5, <1>6, <2>1 DEF Serving, IInv, Shape, Formed, Ongoing
  <2> QED BY <1>3, <1>4, <2>1, <2>2, <2>3, <2>4
<1>9. Alone'
  <2> SUFFICES ASSUME family \in Locking PROVE Alone'
    BY <1>3 DEF Alone
  <2>1. \A p \in Requests : req'[p].phase = "txn" => req'[p] = req[p]
    BY <1>5
  <2> QED BY <1>5, <2>1 DEF Serving, Alone, Took
<1> QED BY <1>3, <1>7, <1>8, <1>9 DEF Serving

LEMMA CommitIsStores == ASSUME IInv, NEW q \in Requests, Commit(q) PROVE Stores(req[q])
<1>1. InTxn(q, "commit")
  BY DEF Commit
<1>2. req[q].phase = "txn" /\ req[q].steps = <<"commit">> /\ UNCHANGED <<family, orphans>>
  BY <1>1, InTransaction, Steps
<1> QED BY <1>2 DEF Commit, Stores

LEMMA OrphanIsStores == ASSUME OrphanCommits PROVE \E s : Stores(s)
BY DEF OrphanCommits, Stores

-----------------------------------------------------------------------------
LEMMA InitServing == Init => Serving
<1> SUFFICES ASSUME Init PROVE Serving
  OBVIOUS
<1>1. orphans = {} /\ \A q \in Requests : req[q].phase = "idle"
  BY DEF Init, Idle
<1>2. \A v \in rows : v.number = 1 /\ v.state # Absent /\ \A w \in rows : w = v
  BY DEF Init
<1>3. ASSUME NEW v \in rows PROVE Numbers(v.record) = 1..1
  BY <1>2 DEF Numbers, RowsOf
<1>4. Dense /\ Stated
  BY <1>2, <1>3 DEF Dense, Stated
<1> QED BY <1>1, <1>4 DEF Serving, Alone

LEMMA NextServing == IInv /\ Telling /\ Serving /\ [Next]_vars => Serving'
<1> SUFFICES ASSUME IInv, Telling, Serving, [Next]_vars PROVE Serving'
  OBVIOUS
<1>0. OncePerKey'
  BY NextIInv DEF IInv
<1>1. ASSUME NEW q \in Requests, Send(q) PROVE Serving'
  BY <1>1, SendServes
<1>2. ASSUME NEW q \in Requests, Resend(q) PROVE Serving'
  BY <1>2, ResendServes
<1>3. ASSUME NEW q \in Requests, Step(q) PROVE Serving'
  BY <1>0, <1>3, PreStepServes, PreReplyServes, LockServes, InsertKeyServes, ReadServes,
     NumberServes, WriteServes, SiblingServes, BesideServes, DeadlockServes,
     CommitIsStores, StoresServes DEF Step
<1>4. ASSUME NEW q \in Requests, Timeout(q) PROVE Serving'
  BY <1>4, TimeoutServes
<1>5. CASE OrphanRollsBack
  BY <1>5, LessServes DEF OrphanRollsBack
<1>6. CASE OrphanCommits
  BY <1>0, <1>6, OrphanIsStores, StoresServes
<1>7. CASE RelatedChanges \/ Midnight \/ Rest \/ UNCHANGED vars
  BY <1>7, LessServes DEF RelatedChanges, Midnight, Rest, vars
<1> QED BY <1>1, <1>2, <1>3, <1>4, <1>5, <1>6, <1>7 DEF Next

LEMMA AlwaysServing == Spec => [](IInv /\ Telling /\ Serving)
<1>1. Init => IInv /\ Telling /\ Serving
  BY InitIInv, InitTelling, InitServing
<1>2. IInv /\ Telling /\ Serving /\ [Next]_vars => (IInv /\ Telling /\ Serving)'
  BY NextIInv, NextTelling, NextServing
<1> QED BY <1>1, <1>2, PTL DEF Spec

-----------------------------------------------------------------------------
\* The register permits what a session commits.
LEMMA StoresPermitted ==
  ASSUME IInv, Telling, Serving, NEW s, Stores(s)
  PROVE  Register!Permits(s.order.type, StateOf(s.request.record, s.basis))
<1>1. PICK type, state, top :
        /\ type = s.order.type /\ state = StateOf(s.request.record, s.basis)
        /\ top = Highest(s.request.record)
  OBVIOUS
<1>2. /\ family \in AllFamilies /\ type \in Types(family) /\ Works(s)
      /\ \A x \in Words \ {"commit"} : Took(s, x)
  BY <1>1, StoresIs
<1>3. /\ Rechecks(family, type, state) /\ top \in Nat
      /\ s.number = top + 1 /\ s.basis \in 0..top
      /\ family \in Register!Serial => s.basis = top
  BY <1>1, StoresNext
<1>4. ASSUME family \notin Register!Unguarded PROVE Admits(family, type, Shown(family, state), TRUE)
  <2>1. CASE ~Trusting(type)
    BY <1>2, <1>3, <1>4, <2>1, RecheckedAdmits DEF Trusting
  <2>2. CASE family \in SalesFamilies /\ type # "create"
    <3>1. family \in Register!Serial \ Locking
      BY <2>2, SameFamilies DEF Register!Serial, Locking, SalesFamilies, FundFamilies
    <3>2. ~Contains(Txn(family, type), "number")
      BY <1>2, <3>1, ProgramSteps
    <3>3. s.number = s.seen + 1 /\ s.seen \in Nat
      BY <1>1, <1>2, <2>2, <3>2 DEF Works, Sees, Counts
    <3>4. s.seen = s.basis
      BY <1>3, <3>1, <3>3
    <3> QED BY <1>1, <1>2, <2>2, <3>4 DEF Works, Checked, Trusting
  <2>3. CASE family = "admin_dict" /\ type = "update"
    <3> USE DEF SalesFamilies, MarketingFamilies, DeliveryFamilies, FundFamilies
    <3>1. s.basis = top
      BY <1>3, <2>3, SameFamilies DEF Register!Serial
    <3>2. Admits(family, type, Shown(family, StateOf(s.request.record, s.seen)), TRUE)
      BY <1>1, <1>2, <2>3 DEF Works, Checked, Trusting
    <3>3. StateOf(s.request.record, s.seen) # Absent
      BY <2>3, <3>2 DEF Admits, AdminDictAdmits, Shown, Absent
    <3>4. s.seen # 0 /\ s.seen \in 0..top
      BY <1>1, <1>2, <1>3, <2>3, <3>3 DEF Works, Sees, StateOf
    <3>5. state # Absent
      BY <1>1, <1>3, <3>1, <3>4, StateHad DEF IInv, Serving, Stated
    <3> QED BY <2>3, <3>5 DEF Admits, AdminDictAdmits, Shown, Absent
  <2> QED BY <2>1, <2>2, <2>3 DEF Trusting
<1> QED BY <1>1, <1>3, <1>4, SameTables DEF Register!Permits

\* What the register sees of the receipts.
Told == [k \in Keys |->
  IF receipts[k] = None THEN None
  ELSE [record |-> receipts[k].record, type |-> receipts[k].type]]

\* A commit is a step of the register.
LEMMA StoresAccepts ==
  ASSUME IInv, OncePerKey', Telling, Serving, NEW s, Stores(s)
  PROVE  Register!Next
<1>1. PICK key, record, type, wants, body :
        /\ key = s.order.key /\ record = s.request.record /\ type = s.order.type
        /\ wants = s.order.wants /\ body = s.order.body
  OBVIOUS
<1>2. PICK told : told = [record |-> record, type |-> type]
  OBVIOUS
<1>3. /\ key \in Keys /\ s.request \in Sayable /\ s.request.type = type
      /\ receipts[key] = None /\ receipts \in [Keys -> Sayable \cup {None}]
      /\ wants \in Wants(family, type) /\ body \in Bodies
  BY <1>1, StoresIs DEF Ongoing, Ordered, Works, Sees, Claimed, Claim, Unmet, IInv, Shape
<1>4. s.request # None /\ told # None /\ told.record = record /\ told.type = type
  BY <1>1, <1>2, <1>3, NoneApart, NoneAssumption DEF Sayable, Kinds
<1>5. Told[key] = None /\ Told' = [Told EXCEPT ![key] = told]
  <2>1. receipts' = [receipts EXCEPT ![key] = s.request]
    BY <1>1 DEF Stores, CommitOf
  <2> QED BY <1>1, <1>2, <1>3, <1>4, <2>1 DEF Told
<1>6. Told'[key] = told
  BY <1>3, <1>5 DEF Told
<1>7. PICK basis : basis = s.basis
  OBVIOUS
<1>8. /\ basis \in 0..Highest(record) /\ s.number = Highest(record) + 1
      /\ Register!Permits(type, StateOf(record, basis))
      /\ family \in Register!Serial => basis = Highest(record)
  BY <1>1, <1>7, StoresNext, StoresPermitted
<1>9. Register!StateAt(record, basis) = StateOf(record, basis)
  BY <1>8, StateHad DEF IInv, Serving
<1>10. rows' = rows \cup
         {[record |-> record, number |-> Register!Highest(record) + 1, key |-> key,
           state |-> Register!Leaves(family, type, Register!StateAt(record, basis), wants),
           basis |-> basis, body |-> body]}
  BY <1>1, <1>7, <1>8, <1>9, StoresGrow, SameTables, SameHighest DEF Revision
<1>11. Register!Accept(key, Told'[key].record, Told'[key].type)
  <2>1. /\ wants \in Register!Wants(family, type) /\ basis \in 0..Register!Highest(record)
        /\ body \in Bodies
    BY <1>3, <1>8, SameTables, SameHighest
  <2>2. /\ Register!Permits(type, Register!StateAt(record, basis))
        /\ family \in Register!Serial => basis = Register!Highest(record)
    BY <1>8, <1>9, SameHighest
  <2>3. Told' = [Told EXCEPT ![key] = [record |-> record, type |-> type]]
    BY <1>2, <1>5
  <2>4. UNCHANGED family
    BY DEF Stores
  <2>5. Told'[key].record = record /\ Told'[key].type = type
    BY <1>4, <1>6
  <2>6. /\ wants \in Register!Wants(family, Told'[key].type)
        /\ basis \in 0..Register!Highest(Told'[key].record) /\ body \in Bodies
    BY <2>1, <2>5
  <2>7. /\ Register!Permits(Told'[key].type, Register!StateAt(Told'[key].record, basis))
        /\ family \in Register!Serial => basis = Register!Highest(Told'[key].record)
    BY <2>2, <2>5
  <2>8. rows' = rows \cup
          {[record |-> Told'[key].record, number |-> Register!Highest(Told'[key].record) + 1,
            key |-> key,
            state |-> Register!Leaves(family, Told'[key].type,
                        Register!StateAt(Told'[key].record, basis), wants),
            basis |-> basis, body |-> body]}
    BY <1>10, <2>5
  <2>9. Told' = [Told EXCEPT ![key] = [record |-> Told'[key].record, type |-> Told'[key].type]]
    BY <2>3, <2>5
  <2> QED BY <2>4, <2>6, <2>7, <2>8, <2>9, Zenon DEF Register!Accept, Told
<1> QED
  <2>1. Told'[key] # None /\ Told[key] = None
    BY <1>4, <1>5, <1>6
  <2> QED BY <1>3, <1>11, <2>1, Zenon DEF Register!Next, Told

\* Nothing else shows in the register.
LEMMA OthersKeep ==
  ASSUME NEW q \in Requests,
         \/ Send(q) \/ Resend(q) \/ PreStep(q) \/ PreReply(q) \/ Timeout(q)
         \/ Lock(q) \/ InsertKey(q) \/ Read(q) \/ Number(q) \/ Write(q)
         \/ Sibling(q) \/ Beside(q) \/ Deadlock(q)
  PROVE  UNCHANGED <<family, rows, receipts>>
BY DEF Send, Resend, PreStep, PreReply, Timeout, Lock, InsertKey, Read, Number, Write,
   Sibling, Beside, Deadlock, InTxn

\* Whatever is sent again, retried, killed or commits late, a command does
\* nothing but append one whole revision with its receipt, at the next number
\* of its record and made of an earlier revision that admits the command, in
\* the serial families of the one just before it.
THEOREM PromiseHolds == Spec => Promise
<1>1. Init => Register!Init
  <2> SUFFICES ASSUME Init PROVE Register!Init
    OBVIOUS
  <2>1. family \in Register!AllFamilies
    BY BridgeAssumption, SameFamilies DEF Init
  <2>2. \A v \in rows : v.record \in Records /\ v.number = 1
    BY DEF Init, Records
  <2>3. \A k \in Keys : receipts[k] = None
    BY DEF Init
  <2> QED BY <2>1, <2>2, <2>3 DEF Register!Init
<1>2. IInv /\ Telling /\ Serving /\ [Next]_vars => [Register!Next]_(Register!vars)
  <2> SUFFICES ASSUME IInv, Telling, Serving, [Next]_vars PROVE [Register!Next]_(Register!vars)
    OBVIOUS
  <2>1. OncePerKey'
    BY NextIInv DEF IInv
  <2>2. UNCHANGED <<family, rows, receipts>> \/ \E s : Stores(s)
    BY OthersKeep, CommitIsStores, OrphanIsStores
       DEF Next, Step, OrphanRollsBack, RelatedChanges, Midnight, Rest, vars
  <2>3. UNCHANGED <<family, rows, receipts>> => UNCHANGED Register!vars
    BY DEF Register!vars
  <2> QED BY <2>1, <2>2, <2>3, StoresAccepts
<1> QED BY <1>1, <1>2, AlwaysServing, PTL DEF Spec, Promise, Register!Spec

-----------------------------------------------------------------------------
(***************************************************************************)
(* Nobody waits in a circle.  Of the milestone that all batches name only  *)
(* one session at a time has inserted a revision it has not committed, and *)
(* that is the latest (Lone): so whoever waits for it waits for that one,  *)
(* which can wait for nothing but its own milestone.                       *)
(***************************************************************************)
Inserted(s) == Holds(s, "beside")

\* What is left after the other milestone of a batch is inserted.
AfterBeside ==
  {<<"number", "write", "commit">>, <<"write", "commit">>, <<"commit">>}

Latest(s) == s.siblings = Siblings /\ s.steps \in AfterBeside

Lone ==
  /\ \A q \in Requests : req[q].phase = "txn" /\ Inserted(req[q]) => Latest(req[q])
  /\ \A s \in orphans : Inserted(s) => Latest(s)
  /\ \A p, q \in Requests :
       /\ p # q /\ req[p].phase = "txn" /\ req[q].phase = "txn"
       => ~(Inserted(req[p]) /\ Inserted(req[q]))
  /\ \A p \in Requests, s \in orphans :
       req[p].phase = "txn" => ~(Inserted(req[p]) /\ Inserted(s))
  /\ \A s, t \in orphans : s # t => ~(Inserted(s) /\ Inserted(t))

\* Only batches insert a revision beside their own.
LEMMA WhoInserts ==
  ASSUME family \in AllFamilies, NEW o
  PROVE  Contains(Program(o), "beside") <=> Batch(o)
<1>1. Batch(o) => Contains(Program(o), "beside")
  BY BatchPrograms DEF Program
<1>2. CASE ~Batch(o)
  <2>1. \A t \in {RereadTxn, PrereadTxn, LockedTxn, LockedFirstTxn,
                  <<"key", "number", "write">>} : ~Contains(t, "beside")
    BY DEF RereadTxn, PrereadTxn, LockedTxn, LockedFirstTxn, Contains
  <2> QED BY <1>2, <2>1, WhichProgram DEF Program
<1> QED BY <1>1, <1>2

\* Where a session may stand before and after it inserts there.
LEMMA BesideSteps ==
  ASSUME NEW s \in Left
  PROVE  /\ Head(s) = "beside" => Tail(s) \in AfterBeside
         /\ s \in AfterBeside /\ Head(s) # "commit" =>
              Tail(s) \in AfterBeside /\ Head(s) \notin {"sibling", "beside"}
         /\ s \in AfterBeside => Head(s) \in {"number", "write", "commit"}
<1>1. CASE s = <<"lock", "key", "read", "number", "write", "commit">>
  BY <1>1 DEF AfterBeside
<1>2. CASE s = <<"lock", "key", "read", "write", "commit">>
  BY <1>2 DEF AfterBeside
<1>3. CASE s = <<"key", "read", "number", "write", "commit">>
  BY <1>3 DEF AfterBeside
<1>4. CASE s = <<"key", "read", "write", "commit">>
  BY <1>4 DEF AfterBeside
<1>5. CASE s = <<"key", "number", "write", "commit">>
  BY <1>5 DEF AfterBeside
<1>6. CASE s = <<"read", "number", "write", "commit">>
  BY <1>6 DEF AfterBeside
<1>7. CASE s = <<"read", "write", "commit">>
  BY <1>7 DEF AfterBeside
<1>8. CASE s = <<"number", "write", "commit">>
  BY <1>8 DEF AfterBeside
<1>9. CASE s = <<"write", "commit">>
  BY <1>9 DEF AfterBeside
<1>10. CASE s = <<"commit">>
  BY <1>10 DEF AfterBeside
<1>11. CASE s = <<"key", "sibling", "beside", "number", "write", "commit">>
  BY <1>11 DEF AfterBeside
<1>12. CASE s = <<"sibling", "beside", "number", "write", "commit">>
  BY <1>12 DEF AfterBeside
<1>13. CASE s = <<"beside", "number", "write", "commit">>
  BY <1>13 DEF AfterBeside
<1>14. CASE s = <<"key", "number", "write", "sibling", "beside", "commit">>
  BY <1>14 DEF AfterBeside
<1>15. CASE s = <<"number", "write", "sibling", "beside", "commit">>
  BY <1>15 DEF AfterBeside
<1>16. CASE s = <<"write", "sibling", "beside", "commit">>
  BY <1>16 DEF AfterBeside
<1>17. CASE s = <<"sibling", "beside", "commit">>
  BY <1>17 DEF AfterBeside
<1>18. CASE s = <<"beside", "commit">>
  BY <1>18 DEF AfterBeside
<1> QED BY <1>1, <1>2, <1>3, <1>4, <1>5, <1>6, <1>7, <1>8, <1>9,
          <1>10, <1>11, <1>12, <1>13, <1>14, <1>15, <1>16, <1>17, <1>18 DEF Left

\* A transaction that begins has inserted nothing.
LEMMA BeginsWithout ==
  ASSUME family \in AllFamilies, NEW r, Ongoing(r)
  PROVE  /\ ~Inserted(AtBegin(r))
         /\ ~Inserted(AfterFailure(r)) \/ AfterFailure(r).phase = "done"
<1>1. ASSUME NEW b, b.order = r.order, b.steps = Append(Program(r.order), "commit")
      PROVE  ~Inserted(b)
  <2>1. CASE Batch(r.order)
    <3>1. Contains(b.steps, "beside")
      BY <1>1, <2>1, BatchPrograms DEF Program
    <3> QED BY <3>1 DEF Inserted, Holds
  <2>2. CASE ~Batch(r.order)
    BY <1>1, <2>2, WhoInserts DEF Inserted, Holds
  <2> QED BY <2>1, <2>2
<1>2. PICK b : b = AtBegin(r)
  OBVIOUS
<1>3. /\ b.order = r.order /\ b.steps = Append(Program(r.order), "commit")
      /\ DOMAIN b = Fields
  BY <1>2 DEF AtBegin, Ongoing, Fields
<1>4. ~Inserted(b)
  BY <1>1, <1>3
<1>5. CASE r.tries = 1 /\ family \notin Single
  <2>1. PICK c : c = [b EXCEPT !.tries = 2]
    OBVIOUS
  <2>2. c.order = b.order /\ c.steps = b.steps
    BY <1>3, <2>1 DEF Fields
  <2>3. AfterFailure(r) = c
    BY <1>2, <1>5, <2>1 DEF AfterFailure
  <2> QED BY <1>1, <1>2, <1>3, <1>4, <2>2, <2>3
<1>6. CASE ~(r.tries = 1 /\ family \notin Single)
  <2>1. AfterFailure(r) = Finished(r, "unknown")
    BY <1>6 DEF AfterFailure
  <2>2. Finished(r, "unknown").phase = "done"
    BY DEF Finished
  <2> QED BY <1>2, <1>4, <2>1, <2>2
<1> QED BY <1>5, <1>6

\* One request goes on: it has inserted no more than before, or nobody else
\* has inserted anything.
LEMMA LoneMoves ==
  ASSUME IInv, Lone, NEW q \in Requests, NEW r,
         req' = [req EXCEPT ![q] = r], UNCHANGED <<family, receipts, orphans>>,
         r.phase = "txn" /\ Inserted(r) =>
           /\ Latest(r)
           /\ \/ req[q].phase = "txn" /\ Inserted(req[q])
              \/ \A s \in OtherSessions(q) : ~Inserted(s)
  PROVE  Lone'
<1>1. \A p \in Requests : req'[p] = IF p = q THEN r ELSE req[p]
  BY DEF IInv, Shape
<1>2. /\ \A s : Inserted(s)' <=> Inserted(s)
      /\ \A s : Latest(s)' <=> Latest(s)
  BY DEF Inserted, Holds, Program, Batch, Latest, Siblings
<1>3. r.phase = "txn" /\ Inserted(r) =>
        /\ Latest(r)
        /\ \A p \in Requests : p # q /\ req[p].phase = "txn" => ~Inserted(req[p])
        /\ \A s \in orphans : ~Inserted(s)
  BY DEF Lone, OtherSessions
<1> HIDE DEF Inserted, Latest
<1>4. \A p \in Requests : req'[p].phase = "txn" /\ Inserted(req'[p]) => Latest(req'[p])
  BY <1>1, <1>3 DEF Lone
<1>5. \A p, o \in Requests :
        p # o /\ req'[p].phase = "txn" /\ req'[o].phase = "txn"
        => ~(Inserted(req'[p]) /\ Inserted(req'[o]))
  BY <1>1, <1>3 DEF Lone
<1>6. \A p \in Requests, s \in orphans :
        req'[p].phase = "txn" => ~(Inserted(req'[p]) /\ Inserted(s))
  BY <1>1, <1>3 DEF Lone
<1> QED BY <1>2, <1>4, <1>5, <1>6 DEF Lone


\* A statement: it inserts beside its own when nobody else has, or keeps what it
\* had.
LEMMA StatementLone ==
  ASSUME IInv, Lone, NEW q \in Requests,
         \/ Lock(q) \/ InsertKey(q) \/ Read(q) \/ Number(q) \/ Write(q)
         \/ Sibling(q) \/ Beside(q) \/ Deadlock(q)
  PROVE  Lone'
<1>1. PICK s : s = req[q]
  OBVIOUS
<1>2. PICK r :
        /\ req' = [req EXCEPT ![q] = r] /\ UNCHANGED <<family, rows, receipts, orphans>>
        /\ s.phase = "txn"
        /\ \/ r.phase = "done" \/ r = AfterFailure(s)
           \/ /\ Onward(s, r) /\ Head(s.steps) # "commit"
              /\ Head(s.steps) # "sibling" => r.siblings = s.siblings
              /\ Head(s.steps) = "beside" => SiblingFree(q) /\ s.siblings = Siblings
  BY <1>1, Statements
<1>3. Ongoing(s) /\ s.steps \in Left /\ family \in AllFamilies
  BY <1>1, <1>2, BridgeAssumption DEF IInv, Shape, Formed, Ongoing
<1>4. CASE r.phase = "done"
  BY <1>2, <1>4, LoneMoves
<1>5. CASE r = AfterFailure(s)
  BY <1>2, <1>3, <1>5, BeginsWithout, LoneMoves
<1>6. CASE /\ Onward(s, r) /\ Head(s.steps) # "commit"
           /\ Head(s.steps) # "sibling" => r.siblings = s.siblings
           /\ Head(s.steps) = "beside" => SiblingFree(q) /\ s.siblings = Siblings
  <2>1. r.order = s.order /\ r.steps = Tail(s.steps)
    BY <1>6 DEF Onward
  <2>2. CASE Head(s.steps) = "beside"
    <3>1. Latest(r)
      BY <1>3, <1>6, <2>1, <2>2, BesideSteps DEF Latest
    <3>2. ASSUME NEW t \in OtherSessions(q), Inserted(t) PROVE FALSE
      <4>1. t.siblings = Siblings
        BY <3>2 DEF OtherSessions, Lone, Latest
      <4> QED BY <1>1, <1>6, <2>2, <3>2, <4>1 DEF SiblingFree, Inserted
    <3> QED BY <1>2, <3>1, <3>2, LoneMoves
  <2>3. CASE Head(s.steps) # "beside"
    <3>1. Inserted(r) => Inserted(s)
      BY <1>3, <2>1, <2>3, Taken DEF Inserted, Holds, Took
    <3>2. Inserted(s) => Latest(s)
      BY <1>1, <1>2 DEF Lone
    <3>3. Latest(s) => Latest(r)
      BY <1>3, <1>6, <2>1, BesideSteps DEF Latest
    <3> QED BY <1>1, <1>2, <3>1, <3>2, <3>3, LoneMoves
  <2> QED BY <2>2, <2>3
<1> QED BY <1>2, <1>4, <1>5, <1>6

\* Before the transaction, and after it, nothing is inserted.
LEMMA OutsideLone ==
  ASSUME IInv, Lone, NEW q \in Requests,
         Send(q) \/ Resend(q) \/ PreStep(q) \/ PreReply(q)
  PROVE  Lone'
<1>1. CASE Send(q)
  <2>1. PICK o \in Orders : req' = [req EXCEPT ![q] = Started(o, q, 1, "")]
    BY <1>1 DEF Send
  <2>2. Started(o, q, 1, "").phase = "pre"
    BY DEF Started
  <2> QED BY <1>1, <2>1, <2>2, LoneMoves DEF Send
<1>2. CASE Resend(q)
  <2>1. PICK o, n, first : req' = [req EXCEPT ![q] = Started(o, q, n, first)]
    BY <1>2 DEF Resend
  <2>2. Started(o, q, n, first).phase = "pre"
    BY DEF Started
  <2> QED BY <1>2, <2>1, <2>2, LoneMoves DEF Resend
<1>3. CASE PreStep(q)
  <2>1. req[q].phase = "pre" /\ Ongoing(req[q]) /\ WasRead(req[q]) /\ Shape
    BY <1>3 DEF PreStep, IInv, Shape, Formed, Known
  <2>2. PICK on : on = Advanced(req[q], Head(req[q].steps))
    OBVIOUS
  <2>3. Ongoing(on) /\ on.phase = "pre"
    BY <2>1, <2>2, AdvancedShape
  <2>4. PICK r : r = IF on.steps = <<>> THEN AtBegin(on) ELSE on
    OBVIOUS
  <2>5. req' = [req EXCEPT ![q] = r] /\ UNCHANGED <<family, receipts, orphans>>
    BY <1>3, <2>2, <2>4 DEF PreStep
  <2>6. r.phase = "pre" \/ ~Inserted(r)
    BY <2>1, <2>3, <2>4, BeginsWithout, BridgeAssumption DEF Shape
  <2> QED BY <2>5, <2>6, LoneMoves
<1>4. CASE PreReply(q)
  <2>1. PICK reply : req' = [req EXCEPT ![q] = Finished(req[q], reply)]
    BY <1>4 DEF PreReply
  <2>2. Finished(req[q], reply).phase = "done"
    BY DEF Finished
  <2> QED BY <1>4, <2>1, <2>2, LoneMoves DEF PreReply
<1> QED BY <1>1, <1>2, <1>3, <1>4

\* The killed session has inserted what it had before.
LEMMA TimeoutLone ==
  ASSUME IInv, Lone, NEW q \in Requests, Timeout(q)
  PROVE  Lone'
<1>1. PICK s, r : s = req[q] /\ r = AfterFailure(s)
  OBVIOUS
<1>2. /\ s.phase = "txn" /\ orphans' = orphans \cup {s} /\ UNCHANGED <<family, receipts>>
      /\ req' = [req EXCEPT ![q] = r]
  BY <1>1 DEF Timeout
<1>3. Ongoing(s) /\ family \in AllFamilies
  BY <1>1, <1>2, BridgeAssumption DEF IInv, Shape, Formed
<1>4. ~Inserted(r) \/ r.phase = "done"
  BY <1>1, <1>3, BeginsWithout
<1>5. \A p \in Requests : req'[p] = IF p = q THEN r ELSE req[p]
  BY <1>2 DEF IInv, Shape
<1>6. /\ \A t : Inserted(t)' <=> Inserted(t)
      /\ \A t : Latest(t)' <=> Latest(t)
  BY <1>2 DEF Inserted, Holds, Program, Batch, Latest, Siblings
<1> HIDE DEF Inserted, Latest
<1>7. /\ \A p \in Requests : req'[p].phase = "txn" /\ Inserted(req'[p]) => Latest(req'[p])
      /\ \A p, o \in Requests :
           p # o /\ req'[p].phase = "txn" /\ req'[o].phase = "txn"
           => ~(Inserted(req'[p]) /\ Inserted(req'[o]))
  BY <1>4, <1>5 DEF Lone
<1>8. \A t \in orphans' : Inserted(t) => Latest(t)
  BY <1>1, <1>2 DEF Lone
<1>9. \A p \in Requests, t \in orphans' :
        req'[p].phase = "txn" => ~(Inserted(req'[p]) /\ Inserted(t))
  BY <1>1, <1>2, <1>4, <1>5 DEF Lone
<1>10. \A t, u \in orphans' : t # u => ~(Inserted(t) /\ Inserted(u))
  BY <1>1, <1>2 DEF Lone
<1> QED BY <1>6, <1>7, <1>8, <1>9, <1>10 DEF Lone

\* Less of the sessions, or more of the rest of the world, disturbs nothing.
LEMMA LessLone ==
  ASSUME Lone, orphans' \subseteq orphans, UNCHANGED <<family, receipts, req>>
  PROVE  Lone'
<1>1. /\ \A t : Inserted(t)' <=> Inserted(t)
      /\ \A t : Latest(t)' <=> Latest(t)
  BY DEF Inserted, Holds, Program, Batch, Latest, Siblings
<1> HIDE DEF Inserted, Latest
<1> QED BY <1>1 DEF Lone

\* A batch that commits was the only one to have inserted there.
LEMMA StoresLone ==
  ASSUME IInv, Telling, Serving, Lone, NEW s, Stores(s)
  PROVE  Lone'
<1>1. /\ Ongoing(s) /\ s.phase = "txn" /\ family \in AllFamilies
      /\ s.request.type = s.order.type /\ s.request.wants = s.order.wants
      /\ Took(s, "beside") /\ Unmet(Claim(s, "key"), "key")
  BY StoresIs DEF Words, Claimed
<1>2. Batch(s.order) => Inserted(s)
  BY <1>1, WhoInserts DEF Inserted, Holds, Took
<1>3. /\ s.order.key \in Keys /\ receipts[s.order.key] = None
      /\ receipts' = [receipts EXCEPT ![s.order.key] = s.request]
      /\ DOMAIN receipts = Keys /\ family' = family
  BY <1>1 DEF Ongoing, Ordered, Unmet, Claim, Stores, CommitOf, IInv, Shape
<1>4. ~Batch(s.order) => Siblings' = Siblings
  <2> SUFFICES ASSUME ~Batch(s.order) PROVE Siblings' = Siblings
    OBVIOUS
  <2>1. ~Batch(s.request)
    BY <1>1 DEF Batch
  <2>2. \A k \in Keys : Batch(receipts[k])' <=> Batch(receipts'[k])
    BY <1>3, Zenon DEF Batch
  <2>3. \A k \in Keys : receipts'[k] = IF k = s.order.key THEN s.request ELSE receipts[k]
    BY <1>3
  <2>4. \A k \in Keys : receipts'[k] # None /\ Batch(receipts[k])'
                           <=> receipts[k] # None /\ Batch(receipts[k])
    <3> HIDE DEF Batch
    <3> QED BY <1>3, <2>1, <2>2, <2>3
  <2>5. Siblings' = {k \in Keys : receipts'[k] # None /\ Batch(receipts[k])'}
    BY DEF Siblings
  <2> QED BY <2>4, <2>5 DEF Siblings
<1>5. /\ \A t : Inserted(t)' <=> Inserted(t)
      /\ \A t : ~Batch(s.order) => (Latest(t)' <=> Latest(t))
  BY <1>3, <1>4 DEF Inserted, Holds, Program, Batch, Latest
<1> HIDE DEF Inserted, Latest, Siblings
<1>6. CASE s \in orphans /\ orphans' = orphans \ {s} /\ req' = req
  <2>1. CASE Batch(s.order)
    BY <1>2, <1>5, <1>6, <2>1 DEF Lone
  <2>2. CASE ~Batch(s.order)
    BY <1>5, <1>6, <2>2 DEF Lone
  <2> QED BY <2>1, <2>2
<1>7. ASSUME NEW q \in Requests, req[q] = s,
             req' = [req EXCEPT ![q] = Finished(s, "ok")], orphans' = orphans
      PROVE  Lone'
  <2>1. Finished(s, "ok").phase = "done"
    BY DEF Finished
  <2>2. \A p \in Requests : req'[p].phase = "txn" => p # q /\ req'[p] = req[p]
    BY <1>7, <2>1 DEF IInv, Shape
  <2>3. CASE Batch(s.order)
    <3>1. /\ \A p \in Requests : req'[p].phase = "txn" => ~Inserted(req'[p])
          /\ \A t \in orphans' : ~Inserted(t)
      BY <1>1, <1>2, <1>7, <2>2, <2>3 DEF Lone
    <3> QED BY <1>5, <3>1 DEF Lone
  <2>4. CASE ~Batch(s.order)
    BY <1>5, <1>7, <2>2, <2>4 DEF Lone
  <2> QED BY <2>3, <2>4
<1> QED BY <1>6, <1>7 DEF Stores

LEMMA InitLone == Init => Lone
<1> SUFFICES ASSUME Init PROVE Lone
  OBVIOUS
<1>1. orphans = {} /\ \A q \in Requests : req[q].phase = "idle"
  BY DEF Init, Idle
<1> QED BY <1>1 DEF Lone

LEMMA NextLone == IInv /\ Telling /\ Serving /\ Lone /\ [Next]_vars => Lone'
<1> SUFFICES ASSUME IInv, Telling, Serving, Lone, [Next]_vars PROVE Lone'
  OBVIOUS
<1>1. ASSUME NEW q \in Requests, Send(q) \/ Resend(q) PROVE Lone'
  BY <1>1, OutsideLone
<1>2. ASSUME NEW q \in Requests, Step(q) PROVE Lone'
  BY <1>2, OutsideLone, StatementLone, CommitIsStores, StoresLone DEF Step
<1>3. ASSUME NEW q \in Requests, Timeout(q) PROVE Lone'
  BY <1>3, TimeoutLone
<1>4. CASE OrphanRollsBack
  BY <1>4, LessLone DEF OrphanRollsBack
<1>5. CASE OrphanCommits
  BY <1>5, OrphanIsStores, StoresLone
<1>6. CASE RelatedChanges \/ Midnight \/ Rest \/ UNCHANGED vars
  BY <1>6, LessLone DEF RelatedChanges, Midnight, Rest, vars
<1> QED BY <1>1, <1>2, <1>3, <1>4, <1>5, <1>6 DEF Next

\* What a session still has to do it has not done, nor what comes after it.
LEMMA Ahead ==
  ASSUME NEW s \in Left
  PROVE  /\ Head(s) = "lock" => Contains(s, "lock")
         /\ Head(s) \in {"lock", "key"} => Contains(s, "key")
         /\ Head(s) \in {"lock", "key", "write"} => Contains(s, "write")
<1>1. s \in Seq(Words) /\ s # <<>>
  BY LeftSteps
<1>2. \A x : Contains(s, x) <=> Head(s) = x \/ Contains(Tail(s), x)
  BY <1>1, ContainsTail
<1> QED BY <1>2, Steps

\* Who holds a step does not have it ahead.
LEMMA AheadNotHeld ==
  ASSUME NEW s, NEW step, Contains(s.steps, step)
  PROVE  ~Holds(s, step)
BY DEF Holds

\* If every transaction waits, then someone waits for the milestone that all
\* batches name, who has that inserted waits for its own milestone, and who has
\* inserted that one waits for the first.
LEMMA FurthestProceeds == IInv /\ Lone => SomeoneProceeds
<1> DEFINE Running == {q \in Requests : req[q].phase = "txn"}
           Coming(q) == Head(req[q].steps)
<1> SUFFICES ASSUME IInv, Lone, orphans = {}, NEW q0 \in Running,
                    \A q \in Running : ~Unhindered(q)
             PROVE  \E p, q \in Running : p # q /\ Crossed(req[p], req[q])
  BY DEF SomeoneProceeds
<1>1. \A q \in Running : req[q].steps \in Left
  BY Zenon DEF IInv, Shape, Formed, Ongoing
<1>2. \A q \in Requests : \A s \in OtherSessions(q) : \E p \in Running : p # q /\ s = req[p]
  BY DEF OtherSessions
<1>3. \A q \in Running : Coming(q) \in {"lock", "key", "write", "beside"}
  <2>1. \A q \in Running : Coming(q) \in Words
    BY <1>1, Steps
  <2> QED BY <2>1 DEF Unhindered, Words
<1>4. ASSUME NEW q \in Running, Coming(q) = "beside"
      PROVE  \E p \in Running : /\ p # q /\ Holds(req[p], "beside")
                                /\ req[p].siblings = req[q].siblings
  <2>1. ~SiblingFree(q)
    BY <1>4 DEF Unhindered
  <2> QED BY <1>2, <2>1 DEF SiblingFree
<1>5. ASSUME NEW q \in Running, Coming(q) = "write"
      PROVE  \E p \in Running : /\ p # q /\ Holds(req[p], "write") /\ Coming(p) = "beside"
                                /\ req[p].request.record = req[q].request.record
                                /\ req[p].number = req[q].number
  <2>1. ~RowFree(q)
    BY <1>5 DEF Unhindered
  <2>2. PICK p \in Running : /\ p # q /\ Holds(req[p], "write")
                             /\ req[p].request.record = req[q].request.record
                             /\ req[p].number = req[q].number
    BY <1>2, <2>1 DEF RowFree
  <2>3. ~Contains(req[p].steps, "write")
    BY <2>2 DEF Holds
  <2>4. Coming(p) \notin {"lock", "key", "write"}
    BY <1>1, <2>3, Ahead
  <2> QED BY <1>3, <2>2, <2>4
<1>6. \E q \in Running : Coming(q) = "beside"
  <2>1. CASE \E q \in Running : Coming(q) = "write"
    BY <1>5, <2>1
  <2>2. CASE /\ \A q \in Running : Coming(q) \in {"lock", "key"}
             /\ \E q \in Running : Coming(q) = "key"
    <3>1. PICK q \in Running : Coming(q) = "key"
      BY <2>2
    <3>2. \A p \in Running : ~Holds(req[p], "key")
      BY <1>1, <2>2, Ahead, AheadNotHeld
    <3>3. KeyFree(q)
      BY <1>2, <3>2 DEF KeyFree
    <3> QED BY <3>1, <3>3 DEF Unhindered
  <2>3. CASE \A q \in Running : Coming(q) = "lock"
    <3>1. \A p \in Running : ~Holds(req[p], "lock")
      BY <1>1, <2>3, Ahead, AheadNotHeld
    <3>2. LockFree(q0)
      BY <1>2, <3>1 DEF LockFree
    <3> QED BY <2>3, <3>2 DEF Unhindered
  <2> QED BY <1>3, <2>1, <2>2, <2>3
<1>7. PICK q \in Running : Coming(q) = "beside"
  BY <1>6
<1>8. PICK r \in Running : r # q /\ Holds(req[r], "beside")
  BY <1>4, <1>7
<1>9. Coming(r) = "write"
  <2>1. req[r].steps \in AfterBeside
    BY <1>8 DEF Lone, Inserted, Latest
  <2>2. Coming(r) \in {"number", "write", "commit"}
    BY <1>1, <2>1, BesideSteps
  <2> QED BY <1>3, <2>2
<1>10. PICK p \in Running : /\ p # r /\ Holds(req[p], "write") /\ Coming(p) = "beside"
                            /\ req[p].request.record = req[r].request.record
                            /\ req[p].number = req[r].number
  BY <1>5, <1>9
<1>11. PICK o \in Running : Holds(req[o], "beside") /\ req[o].siblings = req[p].siblings
  BY <1>4, <1>10
<1>12. o = r
  BY <1>8, <1>11 DEF Lone, Inserted
<1>13. Crossed(req[p], req[r])
  BY <1>8, <1>9, <1>10, <1>11, <1>12 DEF Crossed
<1> QED BY <1>10, <1>13

\* Transactions never wait for each other in a circle but for two batches of
\* milestones, which PostgreSQL parts: once the sessions that were killed have
\* ended, some transaction goes on or one of two such batches is ended.
THEOREM SomeoneProceedsHolds == Spec => []SomeoneProceeds
<1>1. Spec => []Lone
  <2>1. IInv /\ Telling /\ Serving /\ Lone /\ [Next]_vars => Lone'
    BY NextLone
  <2> QED BY <2>1, InitLone, AlwaysServing, PTL DEF Spec
<1> QED BY <1>1, Inductive, FurthestProceeds, PTL

===========================================================================
