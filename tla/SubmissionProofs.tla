-------------------------- MODULE SubmissionProofs --------------------------
(***************************************************************************)
(* Proofs about Submission, for any number of clients, requests, posts,    *)
(* polls, faults and any size of a plan.                                   *)
(*                                                                         *)
(* The stored rows and the clients are kept apart.  StoreOK says what the  *)
(* tables hold after every commit; Grows says how a step may change them;  *)
(* ClientOK(c) ties what one client was told to the row it was told of.    *)
(* A client that takes no step itself keeps ClientOK because the tables    *)
(* only grow; that is all it depends on of what others do.                 *)
(*                                                                         *)
(* History, the reader of the list, is a Submission that somebody looks    *)
(* at.  What the reader has still to be shown stays behind the pages it    *)
(* has read, because the history only grows and a query returns everything *)
(* that fewer than its limit are ahead of.                                 *)
(***************************************************************************)
EXTENDS History, FiniteFacts, SequenceTheorems, TLAPS

\* The tables: a row and its events are committed together, work is finished
\* when all its parts are, and a key is used once.
RowOK(i) ==
    /\ outbox[i] = Parts(rows[i].kind)
    /\ parts[i] \in 0..Parts(rows[i].kind)
    /\ rows[i].status = "queued" => parts[i] < Parts(rows[i].kind)
    /\ rows[i].status = "completed" => parts[i] = Parts(rows[i].kind)
    /\ rows[i].status = "failed" => rows[i].kind = "evaluation" /\ parts[i] = 0

StoreOK ==
    /\ rows \in Seq(Row)
    /\ outbox \in Seq(Nat) /\ parts \in Seq(Nat)
    /\ Len(outbox) = Len(rows) /\ Len(parts) = Len(rows)
    /\ \A i \in 1..Len(rows) : RowOK(i)
    /\ OneRowPerKey

\* A client posts only until it has a definite answer, and then polls.  A key is
\* looked up only where there is one.
InFlight(c) ==
    /\ pc[c] \in {"lookup", "insert", "again"} => reply[c] \in {"none", "unavailable", "lost"}
    /\ pc[c] \in {"lookup", "again"} => Keyed(c)
    /\ pc[c] = "parts" => reply[c] = "accepted"

\* An accepted client knows a row that was made for its very request.
Told(c) ==
    /\ reply[c] = "accepted" =>
        /\ named[c] \in 1..Len(rows)
        /\ rows[named[c]].kind = Request[c].kind
        /\ rows[named[c]].key = Request[c].key
        /\ rows[named[c]].print = request_fingerprint(c)
    /\ reply[c] = "conflict" =>
        \E i \in 1..Len(rows) :
            /\ rows[i].kind = Request[c].kind /\ rows[i].key = Request[c].key
            /\ rows[i].print # request_fingerprint(c)

\* What the first session of a poll has read is still true, or still behind.
Reading(c) ==
    pc[c] = "parts" =>
        /\ read[c] \in {"queued", rows[named[c]].status}
        /\ Request[c].kind = "evaluation" => read[c] = "completed"
        /\ seen[c].status \in {"completed", "failed"} => read[c] = seen[c].status

\* What a poll has answered is still true of the row, or behind it.
Seen(c) ==
    /\ seen[c].status # "unavailable"
    /\ seen[c].status = "none" => seen[c].parts = 0
    /\ seen[c].status # "none" =>
        /\ reply[c] = "accepted"
        /\ seen[c].parts <= parts[named[c]]
    /\ seen[c].status \in {"completed", "failed"} =>
        /\ rows[named[c]].status = seen[c].status
        /\ seen[c].parts = parts[named[c]]

ClientOK(c) == InFlight(c) /\ Told(c) /\ Reading(c) /\ Seen(c)

IInv == TypeOK /\ StoreOK /\ \A c \in Clients : ClientOK(c)

\* How a step may change the tables: nothing is taken back.
Grows ==
    /\ Len(rows) <= Len(rows')
    /\ \A i \in 1..Len(rows) :
        /\ rows'[i].kind = rows[i].kind
        /\ rows'[i].key = rows[i].key
        /\ rows'[i].print = rows[i].print
        /\ rows[i].status # "queued" => rows'[i].status = rows[i].status
        /\ rows[i].status # "queued" => parts'[i] = parts[i]
        /\ parts[i] <= parts'[i]

\* Step of others: the variables of client c stay.
Spares(c) ==
    /\ pc'[c] = pc[c] /\ reply'[c] = reply[c] /\ named'[c] = named[c] /\ posts'[c] = posts[c]
    /\ polls'[c] = polls[c] /\ read'[c] = read[c] /\ seen'[c] = seen[c]

-----------------------------------------------------------------------------
(***************************************************************************)
(* The tables.                                                             *)
(***************************************************************************)

LEMMA PartsAreNat == \A k \in Kinds : Parts(k) \in 1..PlanSize
BY RequestAssumption DEF Parts, Kinds

LEMMA RowShape ==
    ASSUME StoreOK, NEW i \in 1..Len(rows)
    PROVE  /\ rows[i] \in Row
           /\ rows[i].kind \in Kinds /\ rows[i].status \in Statuses
           /\ parts[i] \in Nat
<1>1. rows[i] \in Row
    BY DEF StoreOK
<1>2. parts[i] \in Nat
    BY DEF StoreOK
<1> QED
    BY <1>1, <1>2 DEF Row

\* The tables stay as they are.
LEMMA UnchangedStore ==
    ASSUME StoreOK, UNCHANGED dbVars
    PROVE  StoreOK' /\ Grows
<1>1. StoreOK'
    BY DEF StoreOK, RowOK, OneRowPerKey, dbVars
<1>2. Grows
    <2> SUFFICES ASSUME NEW i \in 1..Len(rows) PROVE parts[i] <= parts[i]
        BY DEF Grows, dbVars, StoreOK
    <2> QED
        BY RowShape
<1> QED
    BY <1>1, <1>2

\* create, create_plan: a committed insert adds one row, with its events, under a
\* key that no row of its kind has.
LEMMA StoreKeeps ==
    ASSUME StoreOK, NEW c \in Clients, Store(c), ~KeyTaken(c)
    PROVE  /\ StoreOK' /\ Grows
           /\ Len(rows') = Len(rows) + 1
           /\ rows'[Len(rows) + 1].kind = Request[c].kind
           /\ rows'[Len(rows) + 1].key = Request[c].key
           /\ rows'[Len(rows) + 1].print = request_fingerprint(c)
<1> DEFINE n == Len(rows) + 1
           new == [kind |-> Request[c].kind, key |-> Request[c].key,
                   print |-> request_fingerprint(c), status |-> "queued"]
<1>1. new \in Row /\ Request[c].kind \in Kinds
    BY RequestAssumption DEF Row, Statuses, request_fingerprint
<1>2. Parts(Request[c].kind) \in 1..PlanSize
    BY <1>1, PartsAreNat
<1>3. /\ rows' \in Seq(Row) /\ Len(rows') = n /\ rows'[n] = new
      /\ \A i \in 1..Len(rows) : rows'[i] = rows[i]
    BY <1>1 DEF StoreOK, Store
<1>4. PlanSize \in Nat
    BY RequestAssumption
<1>5. /\ outbox' \in Seq(Nat) /\ Len(outbox') = n /\ outbox'[n] = Parts(Request[c].kind)
      /\ \A i \in 1..Len(rows) : outbox'[i] = outbox[i]
    BY <1>2, <1>4 DEF StoreOK, Store
<1>6. /\ parts' \in Seq(Nat) /\ Len(parts') = n /\ parts'[n] = 0
      /\ \A i \in 1..Len(rows) : parts'[i] = parts[i]
    BY DEF StoreOK, Store
<1>7. Len(rows) \in Nat
    BY DEF StoreOK
<1>8. \A i \in 1..Len(rows') : RowOK(i)'
    <2> SUFFICES ASSUME NEW i \in 1..Len(rows') PROVE RowOK(i)'
        OBVIOUS
    <2>1. CASE i = n
        BY <1>2, <1>3, <1>4, <1>5, <1>6, <2>1 DEF RowOK, Parts
    <2>2. CASE i \in 1..Len(rows)
        <3>1. RowOK(i)
            BY <2>2 DEF StoreOK
        <3> QED
            BY <1>3, <1>5, <1>6, <2>2, <3>1 DEF RowOK, Parts
    <2> QED
        BY <1>3, <1>7, <2>1, <2>2
<1>9. OneRowPerKey'
    <2> SUFFICES ASSUME NEW i \in 1..n, NEW j \in 1..n, i # j,
                        rows'[i].kind = rows'[j].kind, rows'[i].key = rows'[j].key
                 PROVE  rows'[i].key = NoKey
        BY <1>3 DEF OneRowPerKey
    <2>0. DOMAIN rows = 1..Len(rows)
        BY DEF StoreOK
    <2>1. ASSUME NEW k \in 1..Len(rows),
                 rows[k].kind = Request[c].kind, rows[k].key = Request[c].key
          PROVE  Request[c].key = NoKey
        BY <2>0, <2>1 DEF KeyTaken, Keyed, WithKey
    <2>2. CASE i = n
        BY <1>3, <1>7, <2>1, <2>2
    <2>3. CASE j = n
        BY <1>3, <1>7, <2>1, <2>3
    <2>4. CASE i # n /\ j # n
        <3>1. i \in DOMAIN rows /\ j \in DOMAIN rows
            BY <1>7, <2>0, <2>4
        <3>2. OneRowPerKey
            BY DEF StoreOK
        <3> QED
            BY <1>3, <2>0, <3>1, <3>2 DEF OneRowPerKey
    <2> QED
        BY <2>2, <2>3, <2>4
<1>10. Grows
    BY <1>3, <1>6, <1>7, RowShape DEF Grows
<1> QED
    BY <1>3, <1>5, <1>6, <1>8, <1>9, <1>10 DEF StoreOK

\* finalize and complete: one part more, and the last one ends the row.
LEMMA FinishKeeps ==
    ASSUME StoreOK, NEW i \in DOMAIN rows, Finish(i)
    PROVE  StoreOK' /\ Grows
<1> DEFINE status == IF parts[i] + 1 = Parts(rows[i].kind) THEN "completed" ELSE "queued"
<1>1. DOMAIN rows = 1..Len(rows) /\ DOMAIN parts = 1..Len(rows)
    BY DEF StoreOK
<1>2. rows[i] \in Row /\ rows[i].kind \in Kinds /\ rows[i].status = "queued"
    BY <1>1, RowShape DEF Finish
<1>3. RowOK(i) /\ Parts(rows[i].kind) \in 1..PlanSize /\ PlanSize \in Nat
    BY <1>1, <1>2, PartsAreNat, RequestAssumption DEF StoreOK
<1>4. /\ rows' = [rows EXCEPT ![i].status = status]
      /\ parts' = [parts EXCEPT ![i] = parts[i] + 1]
      /\ outbox' = outbox
    BY <1>2 DEF Finish
<1>5. parts[i] \in Nat /\ parts[i] < Parts(rows[i].kind)
    BY <1>2, <1>3 DEF RowOK
<1>6. /\ parts' \in Seq(Nat) /\ Len(parts') = Len(parts) /\ parts'[i] = parts[i] + 1
      /\ \A j \in 1..Len(rows) : j # i => parts'[j] = parts[j]
    BY <1>1, <1>4, <1>5 DEF StoreOK
<1>7. [rows[i] EXCEPT !.status = status] \in Row
    BY <1>2 DEF Row, Statuses
<1>8. /\ rows' \in Seq(Row) /\ Len(rows') = Len(rows)
      /\ \A j \in 1..Len(rows) : j # i => rows'[j] = rows[j]
    BY <1>1, <1>4, <1>7 DEF StoreOK
<1>9. /\ rows'[i].kind = rows[i].kind /\ rows'[i].key = rows[i].key
      /\ rows'[i].print = rows[i].print /\ rows'[i].status = status
    BY <1>2, <1>4 DEF Row
<1>10. \A j \in 1..Len(rows) : RowOK(j)'
    <2> SUFFICES ASSUME NEW j \in 1..Len(rows) PROVE RowOK(j)'
        OBVIOUS
    <2>1. CASE j = i
        BY <1>3, <1>4, <1>5, <1>6, <1>9, <2>1 DEF RowOK, Parts
    <2>2. CASE j # i
        <3>1. RowOK(j)
            BY DEF StoreOK
        <3> QED
            BY <1>4, <1>6, <1>8, <2>2, <3>1 DEF RowOK, Parts
    <2> QED
        BY <2>1, <2>2
<1>11. OneRowPerKey'
    <2>1. DOMAIN rows' = DOMAIN rows
        BY <1>1, <1>8
    <2>2. \A j \in DOMAIN rows : rows'[j].kind = rows[j].kind /\ rows'[j].key = rows[j].key
        BY <1>1, <1>8, <1>9
    <2>3. OneRowPerKey
        BY DEF StoreOK
    <2> QED
        BY <2>1, <2>2, <2>3 DEF OneRowPerKey
<1>12. Grows
    <2>1. \A j \in 1..Len(rows) : parts[j] \in Nat
        BY RowShape
    <2>2. Len(rows) \in Nat
        BY DEF StoreOK
    <2> QED
        BY <1>2, <1>6, <1>8, <1>9, <2>1, <2>2 DEF Grows
<1> QED
    BY <1>4, <1>6, <1>8, <1>10, <1>11, <1>12 DEF StoreOK

\* A job that has no snapshot fails for good.
LEMMA FailJobKeeps ==
    ASSUME StoreOK, NEW i \in DOMAIN rows, FailJob(i)
    PROVE  StoreOK' /\ Grows
<1>1. DOMAIN rows = 1..Len(rows)
    BY DEF StoreOK
<1>2. rows[i] \in Row /\ rows[i].kind = "evaluation" /\ rows[i].status = "queued"
    BY <1>1, RowShape DEF FailJob
<1>3. rows' = [rows EXCEPT ![i].status = "failed"] /\ parts' = parts /\ outbox' = outbox
    BY DEF FailJob
<1>4. RowOK(i) /\ parts[i] = 0
    <2>1. RowOK(i)
        BY <1>1 DEF StoreOK
    <2> QED
        BY <1>2, <2>1 DEF RowOK, Parts
<1>5. [rows[i] EXCEPT !.status = "failed"] \in Row
    BY <1>2 DEF Row, Statuses
<1>6. /\ rows' \in Seq(Row) /\ Len(rows') = Len(rows)
      /\ \A j \in 1..Len(rows) : j # i => rows'[j] = rows[j]
    BY <1>1, <1>3, <1>5 DEF StoreOK
<1>7. /\ rows'[i].kind = rows[i].kind /\ rows'[i].key = rows[i].key
      /\ rows'[i].print = rows[i].print /\ rows'[i].status = "failed"
    BY <1>2, <1>3 DEF Row
<1>8. \A j \in 1..Len(rows) : RowOK(j)'
    <2> SUFFICES ASSUME NEW j \in 1..Len(rows) PROVE RowOK(j)'
        OBVIOUS
    <2>1. CASE j = i
        BY <1>2, <1>3, <1>4, <1>7, <2>1 DEF RowOK, Parts
    <2>2. CASE j # i
        <3>1. RowOK(j)
            BY DEF StoreOK
        <3> QED
            BY <1>3, <1>6, <2>2, <3>1 DEF RowOK, Parts
    <2> QED
        BY <2>1, <2>2
<1>9. OneRowPerKey'
    <2>1. DOMAIN rows' = DOMAIN rows
        BY <1>1, <1>6
    <2>2. \A j \in DOMAIN rows : rows'[j].kind = rows[j].kind /\ rows'[j].key = rows[j].key
        BY <1>1, <1>6, <1>7
    <2>3. OneRowPerKey
        BY DEF StoreOK
    <2> QED
        BY <2>1, <2>2, <2>3 DEF OneRowPerKey
<1>10. Grows
    <2>1. \A j \in 1..Len(rows) : parts[j] \in Nat
        BY RowShape
    <2>2. Len(rows) \in Nat
        BY DEF StoreOK
    <2> QED
        BY <1>2, <1>3, <1>6, <1>7, <2>1, <2>2 DEF Grows
<1> QED
    BY <1>3, <1>6, <1>8, <1>9, <1>10 DEF StoreOK

-----------------------------------------------------------------------------
(***************************************************************************)
(* The clients.                                                            *)
(***************************************************************************)

\* What a client was told stays true while the tables grow.
LEMMA SparedClient ==
    ASSUME TypeOK, StoreOK, Grows, StoreOK', NEW c \in Clients, ClientOK(c), Spares(c)
    PROVE  ClientOK(c)'
<1> USE DEF ClientOK, Spares
<1>1. Len(rows) \in Nat /\ Len(rows') \in Nat /\ Len(rows) <= Len(rows')
    BY DEF StoreOK, Grows
<1>2. seen[c].parts \in Nat
    BY RequestAssumption DEF TypeOK
<1>3. InFlight(c)'
    BY DEF InFlight, Keyed
<1>4. Told(c)'
    BY <1>1 DEF Told, Grows, request_fingerprint
<1>5. reply[c] = "accepted" =>
        /\ named[c] \in 1..Len(rows)
        /\ parts[named[c]] \in Nat /\ parts'[named[c]] \in Nat
    <2>1. reply[c] = "accepted" => named[c] \in 1..Len(rows) /\ named[c] \in 1..Len(rows')
        BY <1>1 DEF Told
    <2>2. parts \in Seq(Nat) /\ Len(parts) = Len(rows)
        BY DEF StoreOK
    <2>3. parts' \in Seq(Nat) /\ Len(parts') = Len(rows')
        BY DEF StoreOK
    <2> QED
        BY <2>1, <2>2, <2>3
<1>6. Reading(c)'
    BY <1>5 DEF Reading, InFlight, Grows
<1>7. Seen(c)'
    BY <1>2, <1>5 DEF Seen, Grows
<1> QED
    BY <1>3, <1>4, <1>6, <1>7

\* The step of client c changes nobody else.
Only(c) == \A d \in Clients \ {c} : Spares(d)

\* A step of one client keeps the invariant when it keeps its own part of it.
LEMMA ClientStep ==
    ASSUME IInv, TypeOK', StoreOK', Grows, NEW c \in Clients, Only(c), ClientOK(c)'
    PROVE  IInv'
BY SparedClient DEF IInv, Only

\* The parts of TypeOK that speak of the clients, when the tables only grow.
LEMMA NamesStayValid ==
    ASSUME TypeOK, StoreOK, StoreOK', Grows
    PROVE  /\ named \in [Clients -> 0..Len(rows')]
           /\ DOMAIN rows' = 1..Len(rows')
           /\ \A i \in DOMAIN rows' : (parts'[i] \in 0..Parts(rows'[i].kind))
           /\ rows' \in Seq(Row) /\ Len(outbox') = Len(rows') /\ Len(parts') = Len(rows')
<1>1. Len(rows) \in Nat /\ Len(rows') \in Nat /\ Len(rows) <= Len(rows')
    BY DEF StoreOK, Grows
<1>2. named \in [Clients -> 0..Len(rows')]
    BY <1>1 DEF TypeOK
<1>3. DOMAIN rows' = 1..Len(rows')
    BY DEF StoreOK
<1>4. \A i \in DOMAIN rows' : (parts'[i] \in 0..Parts(rows'[i].kind))
    BY <1>3 DEF StoreOK, RowOK, Parts
<1> QED
    BY <1>2, <1>3, <1>4 DEF StoreOK

\* submit: the request enters the API.
LEMMA SubmitKeeps ==
    ASSUME IInv, NEW c \in Clients, submit(c)
    PROVE  IInv'
<1> USE DEF submit, Answer, Goto, Keyed, pollVars
<1>1. StoreOK' /\ Grows
    BY UnchangedStore DEF IInv
<1>2. TypeOK'
    <2>1. posts' \in [Clients -> 0..MaxPosts]
        BY RequestAssumption DEF IInv, TypeOK
    <2> QED
        BY <2>1 DEF IInv, TypeOK, dbVars
<1>3. Only(c)
    BY DEF Only, Spares, IInv, TypeOK
<1>4. InFlight(c)'
    BY DEF InFlight, IInv, ClientOK, TypeOK
<1>5. Told(c)' /\ Reading(c)' /\ Seen(c)'
    BY DEF Told, Reading, Seen, request_fingerprint, IInv, ClientOK, TypeOK, dbVars
<1> QED
    BY <1>1, <1>2, <1>3, <1>4, <1>5, ClientStep DEF ClientOK

\* reuse: the stored row answers, or refuses, a request with its key.
LEMMA ReuseKeeps ==
    ASSUME IInv, NEW c \in Clients, pc[c] \in {"lookup", "again"},
           NEW i \in WithKey(Request[c].kind, Request[c].key), reuse(c, i),
           UNCHANGED <<dbVars, posts, pollVars, faults>>
    PROVE  IInv'
<1> USE DEF reuse, Accept, Answer, pollVars
<1>1. StoreOK' /\ Grows
    BY UnchangedStore DEF IInv
<1>2. /\ i \in 1..Len(rows)
      /\ rows[i].kind = Request[c].kind /\ rows[i].key = Request[c].key
    BY DEF WithKey, IInv, StoreOK
<1>3. Len(rows) \in Nat
    BY DEF IInv, StoreOK
<1>4. TypeOK'
    <2>1. i \in 0..Len(rows) /\ named \in [Clients -> 0..Len(rows)]
        BY <1>2, <1>3 DEF IInv, TypeOK
    <2>2. named' \in [Clients -> 0..Len(rows)]
        BY <2>1
    <2> QED
        BY <2>2 DEF IInv, TypeOK, dbVars
<1>5. Only(c)
    BY DEF Only, Spares, IInv, TypeOK
<1>6. pc'[c] = "client" /\ reply'[c] \in {"accepted", "conflict"}
    BY DEF IInv, TypeOK
<1>7. InFlight(c)' /\ Reading(c)'
    BY <1>6 DEF InFlight, Reading
<1>8. Told(c)'
    BY <1>2 DEF Told, request_fingerprint, IInv, TypeOK, dbVars
<1>9. seen[c].status = "none"
    BY DEF IInv, ClientOK, Seen, InFlight
<1>10. Seen(c)'
    BY <1>9 DEF Seen, IInv, ClientOK
<1> QED
    BY <1>1, <1>4, <1>5, <1>7, <1>8, <1>10, ClientStep DEF ClientOK

\* The 503, or no answer at all, with or without a commit that took effect.
LEMMA NoAnswerKeeps ==
    ASSUME IInv, NEW c \in Clients, InApi(c), NEW what \in {"unavailable", "lost"},
           Answer(c, what), StoreOK', Grows, faults' \in 0..MaxFaults,
           UNCHANGED <<named, posts, pollVars>>
    PROVE  IInv'
<1> USE DEF Answer, InApi, pollVars
<1>1. TypeOK'
    BY NamesStayValid DEF IInv, TypeOK
<1>2. Only(c)
    BY DEF Only, Spares, IInv, TypeOK
<1>3. pc'[c] = "client" /\ reply'[c] = what
    BY DEF IInv, TypeOK
<1>4. InFlight(c)' /\ Reading(c)' /\ Told(c)'
    BY <1>3 DEF InFlight, Reading, Told
<1>5. seen[c].status = "none"
    BY DEF IInv, ClientOK, Seen, InFlight
<1>6. Seen(c)'
    BY <1>5 DEF Seen, IInv, ClientOK
<1> QED
    BY <1>1, <1>2, <1>4, <1>6, ClientStep DEF ClientOK

\* lookup, insert_refused: nothing is answered yet.
LEMMA GotoKeeps ==
    ASSUME IInv, NEW c \in Clients, InApi(c), Keyed(c), NEW where \in {"insert", "again"},
           Goto(c, where), UNCHANGED <<dbVars, posts, pollVars, faults>>
    PROVE  IInv'
<1> USE DEF Goto, InApi, pollVars
<1>1. StoreOK' /\ Grows
    BY UnchangedStore DEF IInv
<1>2. TypeOK'
    BY DEF IInv, TypeOK, dbVars
<1>3. Only(c)
    BY DEF Only, Spares, IInv, TypeOK
<1>4. InFlight(c)'
    BY DEF InFlight, Keyed, IInv, ClientOK, TypeOK
<1>5. Told(c)' /\ Reading(c)' /\ Seen(c)'
    BY DEF Told, Reading, Seen, request_fingerprint, IInv, ClientOK, TypeOK, dbVars
<1> QED
    BY <1>1, <1>2, <1>3, <1>4, <1>5, ClientStep DEF ClientOK

LEMMA LookupKeeps ==
    ASSUME IInv, NEW c \in Clients, lookup(c) \/ insert_refused(c) \/ lookup_again(c)
    PROVE  IInv'
<1> DEFINE found == WithKey(Request[c].kind, Request[c].key)
<1>1. pc[c] \in {"lookup", "again"} => Keyed(c)
    BY DEF IInv, ClientOK, InFlight
<1>2. ASSUME NEW i \in found, reuse(c, i), lookup(c) \/ lookup_again(c) PROVE IInv'
    BY <1>2, ReuseKeeps DEF lookup, lookup_again
<1>3. CASE lookup(c) /\ Goto(c, "insert")
    BY <1>1, <1>3, GotoKeeps DEF lookup, InApi
<1>4. CASE insert_refused(c)
    BY <1>4, GotoKeeps DEF insert_refused, KeyTaken, InApi
<1>5. CASE lookup_again(c) /\ Answer(c, "unavailable") /\ UNCHANGED named
    <2>1. StoreOK' /\ Grows /\ faults' \in 0..MaxFaults
        BY <1>5, UnchangedStore DEF IInv, TypeOK, lookup_again
    <2> QED
        BY <1>5, <2>1, NoAnswerKeeps DEF lookup_again, InApi
<1> QED
    BY <1>2, <1>3, <1>4, <1>5 DEF lookup, lookup_again

\* insert: the transaction commits and the client is told of the new row.
LEMMA InsertKeeps ==
    ASSUME IInv, NEW c \in Clients, insert(c)
    PROVE  IInv'
<1> USE DEF insert, Accept, Answer, pollVars
<1>1. StoreOK' /\ Grows
    BY StoreKeeps DEF IInv
<1>2. /\ Len(rows') = Len(rows) + 1 /\ Len(rows) \in Nat
      /\ rows'[Len(rows) + 1].kind = Request[c].kind
      /\ rows'[Len(rows) + 1].key = Request[c].key
      /\ rows'[Len(rows) + 1].print = request_fingerprint(c)
    BY StoreKeeps DEF IInv, StoreOK
<1>3. TypeOK'
    <2>1. named \in [Clients -> 0..Len(rows')]
        BY <1>1, NamesStayValid DEF IInv
    <2>2. named' \in [Clients -> 0..Len(rows')]
        BY <1>2, <2>1
    <2> QED
        BY <1>1, <2>2, NamesStayValid DEF IInv, TypeOK
<1>4. Only(c)
    BY DEF Only, Spares, IInv, TypeOK
<1>5. pc'[c] = "client" /\ reply'[c] = "accepted" /\ named'[c] = Len(rows) + 1
    BY DEF IInv, TypeOK
<1>6. InFlight(c)' /\ Reading(c)' /\ Told(c)'
    BY <1>2, <1>5 DEF InFlight, Reading, Told, request_fingerprint
<1>7. seen[c].status = "none"
    BY DEF IInv, ClientOK, Seen, InFlight
<1>8. Seen(c)'
    BY <1>7 DEF Seen, IInv, ClientOK
<1> QED
    BY <1>1, <1>3, <1>4, <1>6, <1>8, ClientStep DEF ClientOK

\* DatabaseFails, ApiDies: nothing was stored.  CommitUnknown, AnswerLost: it was.
LEMMA FaultKeeps ==
    ASSUME IInv, NEW c \in Clients,
           DatabaseFails(c) \/ ApiDies(c) \/ CommitUnknown(c) \/ AnswerLost(c)
    PROVE  IInv'
<1>1. faults' \in 0..MaxFaults
    BY RequestAssumption
    DEF IInv, TypeOK, Fault, DatabaseFails, ApiDies, CommitUnknown, AnswerLost
<1>2. CASE DatabaseFails(c) \/ ApiDies(c)
    <2>1. StoreOK' /\ Grows
        BY <1>2, UnchangedStore DEF IInv, DatabaseFails, ApiDies
    <2> QED
        BY <1>1, <1>2, <2>1, NoAnswerKeeps DEF DatabaseFails, ApiDies
<1>3. CASE CommitUnknown(c) \/ AnswerLost(c)
    <2>1. StoreOK' /\ Grows
        BY <1>3, StoreKeeps DEF IInv, CommitUnknown, AnswerLost
    <2> QED
        BY <1>1, <1>3, <2>1, NoAnswerKeeps DEF CommitUnknown, AnswerLost, InApi
<1> QED
    BY <1>2, <1>3

-----------------------------------------------------------------------------
(***************************************************************************)
(* The polls.                                                              *)
(***************************************************************************)

\* The row of an accepted client, as its poll finds it.
LEMMA NamedRow ==
    ASSUME IInv, NEW c \in Clients, reply[c] = "accepted"
    PROVE  /\ named[c] \in 1..Len(rows)
           /\ RowOK(named[c])
           /\ rows[named[c]].kind = Request[c].kind
           /\ rows[named[c]].status \in Statuses
           /\ parts[named[c]] \in 0..PlanSize
<1>1. named[c] \in 1..Len(rows) /\ rows[named[c]].kind = Request[c].kind
    BY DEF IInv, ClientOK, Told
<1>2. RowOK(named[c])
    BY <1>1 DEF IInv, StoreOK
<1>3. rows[named[c]].kind \in Kinds /\ rows[named[c]].status \in Statuses
    BY <1>1, RowShape DEF IInv
<1>4. Parts(rows[named[c]].kind) \in 1..PlanSize /\ PlanSize \in Nat
    BY <1>3, PartsAreNat, RequestAssumption
<1>5. parts[named[c]] \in 0..PlanSize
    BY <1>2, <1>4 DEF RowOK
<1> QED
    BY <1>1, <1>2, <1>3, <1>5

\* A poll answers no less than the one before.
Advances(c) ==
    /\ seen[c].status \in {"completed", "failed"} => seen'[c] = seen[c]
    /\ seen'[c].parts >= seen[c].parts

LEMMA SeenShape ==
    ASSUME TypeOK, NEW c \in Clients
    PROVE  /\ seen[c] = [status |-> seen[c].status, parts |-> seen[c].parts]
           /\ seen[c].parts \in Nat
BY RequestAssumption DEF TypeOK

\* get_row: the first session of a poll, which answers at once for a job that is
\* not completed.
LEMMA GetRowKeeps ==
    ASSUME IInv, NEW c \in Clients, get_row(c)
    PROVE  IInv' /\ Advances(c) /\ Only(c)
<1> DEFINE row == rows[named[c]]
<1>1. StoreOK' /\ Grows
    BY UnchangedStore DEF IInv, get_row
<1>2. reply[c] = "accepted" /\ pc[c] = "client" /\ Told(c) /\ Seen(c)
    BY DEF get_row, IInv, ClientOK
<1>3. /\ named[c] \in 1..Len(rows) /\ RowOK(named[c]) /\ row.kind = Request[c].kind
      /\ row.status \in Statuses /\ parts[named[c]] \in Nat
    BY <1>2, NamedRow, RequestAssumption
<1>4. Only(c)
    BY DEF get_row, Only, Spares, IInv, TypeOK
<1>5. polls' \in [Clients -> 0..MaxPolls]
    BY RequestAssumption DEF get_row, IInv, TypeOK
<1>6. CASE row.kind = "evaluation" /\ row.status # "completed"
    <2>1. /\ seen' = [seen EXCEPT ![c] = [status |-> row.status, parts |-> 0]]
          /\ UNCHANGED <<pc, read>>
        BY <1>6 DEF get_row
    <2>2. seen'[c] = [status |-> row.status, parts |-> 0]
        BY <2>1 DEF IInv, TypeOK
    <2>3. parts[named[c]] = 0
        BY <1>3, <1>6 DEF RowOK, Parts, Statuses
    <2>4. TypeOK'
        <3>1. [status |-> row.status, parts |-> 0]
                \in [status : Statuses \cup {"none", "unavailable"}, parts : 0..PlanSize]
            BY <1>3, RequestAssumption
        <3> QED
            BY <1>5, <2>1, <3>1 DEF get_row, IInv, TypeOK, dbVars
    <2>5. Told(c)'
        BY <1>2 DEF Told, get_row, dbVars, request_fingerprint
    <2>6. InFlight(c)' /\ Reading(c)'
        BY <1>2, <2>1 DEF InFlight, Reading, get_row
    <2>7. Seen(c)'
        BY <1>2, <1>3, <1>6, <2>2, <2>3 DEF Seen, Statuses, get_row, dbVars
    <2>8. Advances(c)
        BY <1>2, <1>6, <2>2, <2>3, SeenShape DEF Advances, Seen, IInv
    <2> QED
        BY <1>1, <1>4, <2>4, <2>5, <2>6, <2>7, <2>8, ClientStep DEF ClientOK
<1>7. CASE ~(row.kind = "evaluation" /\ row.status # "completed")
    <2>1. /\ read' = [read EXCEPT ![c] = row.status]
          /\ pc' = [pc EXCEPT ![c] = "parts"]
          /\ seen' = seen
        BY <1>7 DEF get_row
    <2>2. read'[c] = row.status /\ pc'[c] = "parts"
        BY <2>1 DEF IInv, TypeOK
    <2>3. TypeOK'
        BY <1>3, <1>5, <2>1 DEF get_row, IInv, TypeOK, dbVars
    <2>4. Told(c)' /\ Seen(c)'
        BY <1>2, <2>1 DEF Told, Seen, get_row, dbVars, request_fingerprint
    <2>5. InFlight(c)'
        BY <1>2, <2>2 DEF InFlight, get_row
    <2>6. Reading(c)'
        BY <1>2, <1>3, <1>7, <2>1, <2>2 DEF Reading, Seen, get_row, dbVars
    <2>7. Advances(c)
        <3>1. seen[c].parts \in Nat
            BY SeenShape DEF IInv
        <3> QED
            BY <2>1, <3>1 DEF Advances
    <2> QED
        BY <1>1, <1>4, <2>3, <2>4, <2>5, <2>6, <2>7, ClientStep DEF ClientOK
<1> QED
    BY <1>4, <1>6, <1>7

\* get_parts: the second session.  The status is the one read before, the parts
\* are those stored now.
LEMMA GetPartsKeeps ==
    ASSUME IInv, NEW c \in Clients, get_parts(c)
    PROVE  IInv' /\ Advances(c) /\ Only(c)
<1>1. StoreOK' /\ Grows
    BY UnchangedStore DEF IInv, get_parts
<1>2. reply[c] = "accepted" /\ Told(c) /\ Seen(c) /\ Reading(c) /\ pc[c] = "parts"
    BY DEF get_parts, IInv, ClientOK, InFlight
<1>3. /\ named[c] \in 1..Len(rows) /\ RowOK(named[c]) /\ rows[named[c]].kind = Request[c].kind
      /\ rows[named[c]].status \in Statuses /\ parts[named[c]] \in 0..PlanSize
    BY <1>2, NamedRow
<1>4. read[c] \in {"queued", rows[named[c]].status}
    BY <1>2 DEF Reading
<1>5. Combine(c) = [status |-> read[c], parts |-> parts[named[c]]]
    <2>1. CASE Request[c].kind = "evaluation"
        <3>1. parts[named[c]] = 1
            BY <1>2, <1>3, <1>4, <2>1 DEF Reading, RowOK, Parts
        <3> QED
            BY <3>1 DEF Combine
    <2>2. CASE Request[c].kind # "evaluation"
        BY <1>3, <2>2 DEF Combine
    <2> QED
        BY <2>1, <2>2
<1>6. seen'[c] = [status |-> read[c], parts |-> parts[named[c]]] /\ pc'[c] = "client"
    BY <1>5 DEF get_parts, IInv, TypeOK
<1>7. Only(c)
    BY DEF get_parts, Only, Spares, IInv, TypeOK
<1>8. TypeOK'
    <2>1. Combine(c) \in [status : Statuses \cup {"none", "unavailable"}, parts : 0..PlanSize]
        BY <1>3, <1>4, <1>5 DEF Statuses
    <2> QED
        BY <2>1 DEF get_parts, IInv, TypeOK, dbVars
<1>9. InFlight(c)' /\ Reading(c)'
    BY <1>6 DEF InFlight, Reading
<1>10. Told(c)'
    BY <1>2 DEF Told, get_parts, dbVars, request_fingerprint
<1>11. parts[named[c]] \in Nat
    BY <1>3, RequestAssumption
<1>12. Seen(c)'
    BY <1>2, <1>3, <1>4, <1>6, <1>11 DEF Seen, Statuses, get_parts, dbVars
<1>13. Advances(c)
    BY <1>2, <1>6, <1>11, SeenShape DEF Advances, Seen, Reading, IInv
<1> QED
    BY <1>1, <1>7, <1>8, <1>9, <1>10, <1>12, <1>13, ClientStep DEF ClientOK

\* PollFails: the client may poll again.
LEMMA PollFailsKeeps ==
    ASSUME IInv, NEW c \in Clients, PollFails(c)
    PROVE  IInv'
<1> USE DEF PollFails, Fault
<1>1. StoreOK' /\ Grows
    BY UnchangedStore DEF IInv
<1>2. TypeOK'
    <2>1. faults' \in 0..MaxFaults
        BY RequestAssumption DEF IInv, TypeOK
    <2> QED
        BY <2>1 DEF IInv, TypeOK, dbVars
<1>3. Only(c)
    BY DEF Only, Spares, IInv, TypeOK
<1>4. pc'[c] = "client"
    BY DEF IInv, TypeOK
<1>5. InFlight(c)' /\ Reading(c)'
    BY <1>4 DEF InFlight, Reading
<1>6. Told(c)' /\ Seen(c)'
    BY DEF Told, Seen, IInv, ClientOK, dbVars, request_fingerprint
<1> QED
    BY <1>1, <1>2, <1>3, <1>5, <1>6, ClientStep DEF ClientOK

-----------------------------------------------------------------------------
(***************************************************************************)
(* All steps.                                                              *)
(***************************************************************************)

\* Finish, FailJob: no client takes a step, and the tables grow.
LEMMA WorkersKeep ==
    ASSUME IInv, NEW i \in DOMAIN rows, Finish(i) \/ FailJob(i)
    PROVE  IInv'
<1>1. StoreOK' /\ Grows
    BY FinishKeeps, FailJobKeeps DEF IInv
<1>2. UNCHANGED <<postVars, pollVars, faults>>
    BY DEF Finish, FailJob
<1>3. TypeOK'
    BY <1>1, <1>2, NamesStayValid DEF IInv, TypeOK, postVars, pollVars
<1>4. \A c \in Clients : Spares(c)
    BY <1>2 DEF Spares, postVars, pollVars
<1> QED
    BY <1>1, <1>3, <1>4, SparedClient DEF IInv

LEMMA InitIInv == Init => IInv
<1> SUFFICES ASSUME Init PROVE IInv
    OBVIOUS
<1>1. TypeOK
    BY RequestAssumption DEF Init, TypeOK, Nothing
<1>2. StoreOK
    BY DEF Init, StoreOK, OneRowPerKey
<1>3. \A c \in Clients : ClientOK(c)
    BY DEF Init, ClientOK, InFlight, Told, Reading, Seen, Nothing
<1> QED
    BY <1>1, <1>2, <1>3 DEF IInv

LEMMA NextIInv == IInv /\ [Next]_vars => IInv'
<1> SUFFICES ASSUME IInv, [Next]_vars PROVE IInv'
    OBVIOUS
<1>1. ASSUME NEW c \in Clients, submit(c) \/ Api(c) \/ get_row(c) PROVE IInv'
    BY <1>1, SubmitKeeps, LookupKeeps, InsertKeeps, GetPartsKeeps, GetRowKeeps DEF Api
<1>2. ASSUME NEW c \in Clients,
             DatabaseFails(c) \/ CommitUnknown(c) \/ ApiDies(c) \/ AnswerLost(c) \/ PollFails(c)
      PROVE  IInv'
    BY <1>2, FaultKeeps, PollFailsKeeps
<1>3. ASSUME NEW i \in DOMAIN rows, Finish(i) \/ FailJob(i) PROVE IInv'
    BY <1>3, WorkersKeep
<1>4. CASE UNCHANGED vars
    <2>1. StoreOK' /\ Grows
        BY <1>4, UnchangedStore DEF IInv, vars
    <2>2. TypeOK'
        BY <1>4 DEF IInv, TypeOK, vars, dbVars, postVars, pollVars
    <2>3. \A c \in Clients : Spares(c)
        BY <1>4 DEF Spares, vars, postVars, pollVars
    <2> QED
        BY <2>1, <2>2, <2>3, SparedClient DEF IInv
<1> QED
    BY <1>1, <1>2, <1>3, <1>4 DEF Next

LEMMA AlwaysIInv == Spec => []IInv
<1> QED
    BY InitIInv, NextIInv, PTL DEF Spec

-----------------------------------------------------------------------------
(***************************************************************************)
(* The theorems.                                                           *)
(***************************************************************************)

\* create, get: tables, requests and answers keep their shape, and a row never has
\* more final parts than work.
THEOREM TypeCorrect == Spec => []TypeOK
<1>1. IInv => TypeOK
    BY DEF IInv
<1> QED
    BY <1>1, AlwaysIInv, PTL

\* EvaluationJobService.submit, BenchmarkService.create: creation under an
\* Idempotency-Key is idempotent, however many requests race, are repeated after a 503
\* or a lost answer, or had committed before the fault.
THEOREM CreationIsIdempotent == Spec => []IdempotentCreation
<1>1. ASSUME IInv PROVE IdempotentCreation
    <2> USE <1>1
    <2>1. DOMAIN rows = 1..Len(rows)
        BY DEF IInv, StoreOK
    <2>2. OneRowPerKey
        BY DEF IInv, StoreOK
    <2>3. AcceptedIsDurable
        BY <2>1, NamedRow DEF AcceptedIsDurable, IInv, ClientOK, Told, RowOK
    <2>4. OneAnswerPerKey
        <3> SUFFICES ASSUME NEW c \in Clients, NEW d \in Clients,
                            reply[c] = "accepted", reply[d] = "accepted",
                            Keyed(c), Request[c].key = Request[d].key,
                            Request[c].kind = Request[d].kind
                     PROVE  /\ named[c] = named[d]
                            /\ request_fingerprint(c) = request_fingerprint(d)
            BY DEF OneAnswerPerKey
        <3>1. Told(c) /\ Told(d)
            BY DEF IInv, ClientOK
        <3>2. named[c] = named[d]
            BY <2>1, <2>2, <3>1 DEF Told, OneRowPerKey, Keyed
        <3> QED
            BY <3>1, <3>2 DEF Told
    <2>5. ConflictIsWithAnother
        BY <2>1 DEF ConflictIsWithAnother, WithKey, IInv, ClientOK, Told
    <2> QED
        BY <2>2, <2>3, <2>4, <2>5 DEF IdempotentCreation
<1> QED
    BY <1>1, AlwaysIInv, PTL

LEMMA SeenIsWhole ==
    ASSUME IInv
    PROVE  PollIsConsistent
<1> SUFFICES ASSUME NEW c \in Clients
             PROVE  /\ seen[c].status # "unavailable"
                    /\ seen[c].status = "completed" => seen[c].parts = Parts(Request[c].kind)
    BY DEF PollIsConsistent
<1>1. Seen(c)
    BY DEF IInv, ClientOK
<1> QED
    BY <1>1, NamedRow DEF Seen, RowOK

\* EvaluationJobService.get, BenchmarkService.get: an answer put together from two
\* sessions is one that the row has had.
THEOREM PollsAreConsistent == Spec => []PollIsConsistent
<1>1. IInv => PollIsConsistent
    BY SeenIsWhole
<1> QED
    BY <1>1, AlwaysIInv, PTL

\* GET: what a client has seen finished stays finished, and the number of finished
\* parts it sees never shrinks.
THEOREM PollsAdvance == Spec => PollsOnlyAdvance
<1>1. ASSUME IInv, [Next]_vars
      PROVE  [\A c \in Clients :
                /\ seen[c].status \in {"completed", "failed"} => seen'[c] = seen[c]
                /\ seen'[c].parts >= seen[c].parts]_vars
    <2> SUFFICES ASSUME NEW c \in Clients PROVE Advances(c)
        BY DEF Advances
    <2>1. seen'[c] = seen[c] => Advances(c)
        <3>1. seen[c].parts \in Nat
            BY <1>1, SeenShape DEF IInv
        <3> QED
            BY <3>1 DEF Advances
    <2>2. ASSUME NEW d \in Clients, get_row(d) \/ get_parts(d) PROVE Advances(c)
        <3>1. CASE d = c
            BY <1>1, <2>2, <3>1, GetRowKeeps, GetPartsKeeps
        <3>2. CASE d # c
            <4>1. Only(d)
                BY <1>1, <2>2, GetRowKeeps, GetPartsKeeps
            <4> QED
                BY <2>1, <3>2, <4>1 DEF Only, Spares
        <3> QED
            BY <3>1, <3>2
    <2>3. ASSUME NEW d \in Clients,
                 \/ submit(d) \/ lookup(d) \/ insert(d) \/ insert_refused(d) \/ lookup_again(d)
                 \/ DatabaseFails(d) \/ CommitUnknown(d) \/ ApiDies(d) \/ AnswerLost(d)
                 \/ PollFails(d)
          PROVE  seen' = seen
        BY <2>3 DEF submit, lookup, insert, insert_refused, lookup_again, DatabaseFails,
                    CommitUnknown, ApiDies, AnswerLost, PollFails, pollVars
    <2>4. ASSUME NEW i \in DOMAIN rows, Finish(i) \/ FailJob(i) PROVE seen' = seen
        BY <2>4 DEF Finish, FailJob, pollVars
    <2>5. UNCHANGED vars => seen' = seen
        BY DEF vars, pollVars
    <2> QED
        BY <1>1, <2>1, <2>2, <2>3, <2>4, <2>5 DEF Next, Api
<1> QED
    BY <1>1, AlwaysIInv, PTL DEF Spec, PollsOnlyAdvance

\* GET /evaluations: paging through the history only reads.  Every behaviour with a
\* reader is one of Submission, and all of the above holds beside it.
THEOREM ReadersChangeNothing == HistorySpec => Spec
<1>1. HistoryInit => Init
    BY DEF HistoryInit
<1>2. [HistoryNext]_historyVars => [Next]_vars
    BY DEF HistoryNext, Submit, open_list, list_jobs, list_snapshots, Read, historyVars
<1> QED
    BY <1>1, <1>2, PTL DEF HistorySpec, Spec

-----------------------------------------------------------------------------
(***************************************************************************)
(* Pages of a list in order.                                               *)
(***************************************************************************)

\* The order of the history on T, as a relation.
Newer(T) == {p \in T \X T : Before(p[1], p[2])}

\* Those of X that the list has before e.
Ahead(X, e) == {y \in X : Before(y, e)}

LEMMA AheadIsUnder ==
    ASSUME NEW T, NEW X \in SUBSET T, NEW e \in T
    PROVE  Ahead(X, e) = Under(Newer(T), X, e) /\ Ahead(X, e) \subseteq X
BY DEF Ahead, Under, Newer

\* A part of a list is in the order of the list.
LEMMA PartIsOrdered ==
    ASSUME NEW T, IsFiniteSet(T), StrictOrder(Newer(T), T), NEW X \in SUBSET T
    PROVE  IsFiniteSet(X) /\ StrictOrder(Newer(X), X)
<1>1. IsFiniteSet(X)
    BY FS_Subset
<1>2. \A x, y \in X : <<x, y>> \in Newer(X) <=> <<x, y>> \in Newer(T)
    BY DEF Newer
<1>3. \A x \in X : x \in T
    OBVIOUS
<1> QED
    BY <1>1, <1>2, <1>3 DEF StrictOrder

\* Sorted puts each member where the number of those ahead of it says.
LEMMA SortedIs ==
    ASSUME NEW X, IsFiniteSet(X), StrictOrder(Newer(X), X), NEW q, q = Sorted(X)
    PROVE  /\ Cardinality(X) \in Nat /\ q \in Seq(X) /\ Len(q) = Cardinality(X)
           /\ \A i \in 1..Cardinality(X) : q[i] \in X /\ Cardinality(Ahead(X, q[i])) = i - 1
           /\ \A x \in X : \E i \in 1..Cardinality(X) : q[i] = x
<1> DEFINE c == Cardinality(X)
           R == Newer(X)
<1>1. q = [i \in 1..c |-> CHOOSE x \in X : Cardinality(Ahead(X, x)) = i - 1]
    BY DEF Sorted, InOrder, Ahead
<1>2. \A x \in X : Under(R, X, x) = Ahead(X, x)
    BY AheadIsUnder
<1>3. q = [i \in 1..c |-> CHOOSE x \in X : Cardinality(Under(R, X, x)) = i - 1]
    <2> HIDE DEF R
    <2>1. \A i \in 1..c : (CHOOSE x \in X : Cardinality(Ahead(X, x)) = i - 1)
                            = (CHOOSE x \in X : Cardinality(Under(R, X, x)) = i - 1)
        BY <1>2
    <2> QED
        BY <1>1, <2>1
<1>4. /\ c \in Nat
      /\ \A i \in 1..c : q[i] \in X /\ Cardinality(Under(R, X, q[i])) = i - 1
      /\ \A x \in X : \E i \in 1..c : q[i] = x
    <2>1. StrictOrder(R, X)
        OBVIOUS
    <2> HIDE DEF R
    <2> QED
        BY <1>3, <2>1, PlacedInOrder
<1>5. \A i \in 1..c : q[i] \in X /\ Cardinality(Ahead(X, q[i])) = i - 1
    BY <1>2, <1>4
<1>6. q \in Seq(X) /\ Len(q) = c
    <2>1. q = [i \in 1..c |-> q[i]]
        BY <1>3
    <2> HIDE DEF c
    <2>2. q \in [1..c -> X]
        BY <1>4, <2>1
    <2> QED
        BY <1>4, <2>2
<1> QED
    BY <1>4, <1>5, <1>6

\* Slice takes the members of its places, and is full when there are enough of them.
LEMMA SliceIs ==
    ASSUME NEW X, IsFiniteSet(X), StrictOrder(Newer(X), X), NEW m \in Nat, NEW n \in Nat, m <= n,
           NEW s, s = Slice(Sorted(X), m + 1, n)
    PROVE  /\ Range(s) = {x \in X : m <= Cardinality(Ahead(X, x)) /\ Cardinality(Ahead(X, x)) < n}
           /\ n <= Cardinality(X) => Len(s) = n - m
<1> DEFINE q == Sorted(X)
           c == Cardinality(X)
           to == IF n < c THEN n ELSE c
           page == SubSeq(q, m + 1, to)
<1>4. /\ c \in Nat /\ q \in Seq(X) /\ Len(q) = c
      /\ \A i \in 1..c : q[i] \in X /\ Cardinality(Ahead(X, q[i])) = i - 1
      /\ \A x \in X : \E i \in 1..c : q[i] = x
    BY SortedIs
<1> HIDE DEF q
<1>7. s = page
    BY <1>4 DEF Slice, q
<1> HIDE DEF c
<1>8. to \in Nat /\ to <= c /\ to <= n /\ (n <= c => to = n) /\ (n > c => to = c)
    BY <1>4
<1> HIDE DEF to
<1>9. \A i \in (m + 1)..to : q[i] \in X /\ i \in 1..c
    BY <1>4, <1>8
<1>10. m + 1 \in Int /\ to \in Int
    BY <1>8
<1>11. /\ page \in Seq(X)
       /\ Len(page) = IF m + 1 <= to THEN to - (m + 1) + 1 ELSE 0
       /\ \A i \in 1..(to - (m + 1) + 1) : page[i] = q[(m + 1) + i - 1]
    BY <1>9, <1>10, SubSeqProperties
<1> HIDE DEF page
<1>12. \A i \in DOMAIN page : page[i] = q[m + i] /\ m + i \in (m + 1)..to
    <2> SUFFICES ASSUME NEW i \in 1..Len(page) PROVE page[i] = q[m + i] /\ m + i \in (m + 1)..to
        BY <1>11
    <2>1. i \in 1..(to - (m + 1) + 1) /\ (m + 1) + i - 1 = m + i /\ m + i \in (m + 1)..to
        BY <1>8, <1>11
    <2> QED
        BY <1>11, <2>1
<1>13. ASSUME NEW i \in (m + 1)..to PROVE q[i] \in Range(page)
    <2>1. i - m \in 1..(to - (m + 1) + 1) /\ i - m \in 1..Len(page) /\ (m + 1) + (i - m) - 1 = i
        BY <1>8, <1>11
    <2>2. page[i - m] = q[i]
        BY <1>11, <2>1
    <2>3. i - m \in DOMAIN page
        BY <1>11, <2>1
    <2> QED
        BY <2>2, <2>3 DEF Range
<1>14. ASSUME NEW x \in Range(page)
       PROVE  x \in X /\ m <= Cardinality(Ahead(X, x)) /\ Cardinality(Ahead(X, x)) < n
    <2>1. PICK i \in DOMAIN page : x = page[i]
        BY <1>14 DEF Range
    <2>2. PICK k \in (m + 1)..to : x = q[k]
        BY <1>12, <2>1
    <2> QED
        BY <1>4, <1>8, <1>9, <2>2
<1>15. ASSUME NEW x \in X, m <= Cardinality(Ahead(X, x)), Cardinality(Ahead(X, x)) < n
       PROVE  x \in Range(page)
    <2>1. PICK i \in 1..c : q[i] = x
        BY <1>4
    <2>2. Cardinality(Ahead(X, x)) = i - 1
        BY <1>4, <2>1
    <2>3. i \in (m + 1)..to
        BY <1>4, <1>8, <1>15, <2>2
    <2> QED
        BY <1>13, <2>1, <2>3
<1>16. n <= c => Len(page) = n - m
    BY <1>8, <1>11
<1>17. Range(page) = {x \in X : m <= Cardinality(Ahead(X, x)) /\ Cardinality(Ahead(X, x)) < n}
    BY <1>14, <1>15
<1> QED
    BY <1>7, <1>16, <1>17 DEF c

\* Whoever keeps what is ahead of e keeps its number.
LEMMA AheadGrows ==
    ASSUME NEW X, NEW Y, IsFiniteSet(Y), NEW e, Ahead(X, e) \subseteq Y
    PROVE  /\ Cardinality(Ahead(X, e)) \in Nat /\ Cardinality(Ahead(Y, e)) \in Nat
           /\ Cardinality(Ahead(X, e)) <= Cardinality(Ahead(Y, e))
           /\ Cardinality(Ahead(Y, e)) <= Cardinality(Y) /\ Cardinality(Y) \in Nat
<1>1. Ahead(X, e) \in SUBSET Ahead(Y, e) /\ Ahead(Y, e) \in SUBSET Y
    BY DEF Ahead
<1>2. IsFiniteSet(Ahead(Y, e))
    BY <1>1, FS_Subset
<1> QED
    BY <1>1, <1>2, FS_Subset, FS_CardinalityType

\* A query returns those that fewer than its limit are ahead of.
LEMMA QueryIs ==
    ASSUME NEW X, IsFiniteSet(X), StrictOrder(Newer(X), X), NEW n \in Nat,
           NEW F, F = Range(Slice(Sorted(X), 1, n))
    PROVE  F = {x \in X : Cardinality(Ahead(X, x)) < n}
<1>1. PICK z \in Nat : z = 0
    OBVIOUS
<1>2. PICK s : s = Slice(Sorted(X), z + 1, n)
    OBVIOUS
<1>3. F = Range(s)
    BY <1>1, <1>2
<1>4. IsFiniteSet(X) /\ StrictOrder(Newer(X), X) /\ z <= n
    BY <1>1
<1>5. /\ Range(s) = {x \in X : z <= Cardinality(Ahead(X, x)) /\ Cardinality(Ahead(X, x)) < n}
      /\ n <= Cardinality(X) => Len(s) = n - z
    BY <1>2, <1>4, SliceIs
<1>6. \A x \in X : Cardinality(Ahead(X, x)) \in Nat
    <2> SUFFICES ASSUME NEW x \in X PROVE Cardinality(Ahead(X, x)) \in Nat
        OBVIOUS
    <2>1. Ahead(X, x) \subseteq X
        BY DEF Ahead
    <2> QED
        BY <2>1, AheadGrows
<1> QED
    BY <1>1, <1>3, <1>5, <1>6

\* So it shows everything up to e, or as much of it as it may return.
LEMMA QueryCuts ==
    ASSUME NEW T, IsFiniteSet(T), StrictOrder(Newer(T), T), NEW X \in SUBSET T, NEW n \in Nat,
           NEW e \in T, NEW F, F = Range(Slice(Sorted(X), 1, n))
    PROVE  /\ F \subseteq X
           /\ \/ (e \in X => e \in F) /\ Ahead(X, e) \subseteq F
              \/ Cardinality(Ahead(F, e)) >= n
<1> DEFINE R == Newer(T)
<1>1. IsFiniteSet(X) /\ StrictOrder(Newer(X), X)
    BY PartIsOrdered
<1>2. F = {x \in X : Cardinality(Ahead(X, x)) < n}
    BY <1>1, QueryIs
<1>3. \A x \in T : Under(R, X, x) = Ahead(X, x)
    BY AheadIsUnder
<1>4. F = Foremost(R, X, n)
    <2>1. \A x \in X : Under(R, X, x) = Ahead(X, x)
        BY <1>3
    <2> HIDE DEF R
    <2> QED
        BY <1>2, <2>1 DEF Foremost
<1>5. F \subseteq X
    BY <1>2
<1>6. Under(R, F, e) = Ahead(F, e)
    <2>1. F \in SUBSET T
        BY <1>5
    <2> QED
        BY <2>1, AheadIsUnder
<1>7. StrictOrder(R, T)
    OBVIOUS
<1> HIDE DEF R
<1>8. \/ (e \in X => e \in Foremost(R, X, n)) /\ Under(R, X, e) \subseteq Foremost(R, X, n)
      \/ Cardinality(Under(R, Foremost(R, X, n), e)) >= n
    BY <1>1, <1>7, CutOff
<1> QED
    BY <1>3, <1>4, <1>5, <1>6, <1>8

\* The first query of a page: an entry that o others precede is still preceded by o of
\* what the page will be merged from, and is in it or beyond the page.
LEMMA FirstQuery ==
    ASSUME NEW T, IsFiniteSet(T), StrictOrder(Newer(T), T), NEW J \in SUBSET T, NEW S \in SUBSET T,
           NEW o \in Nat, NEW n \in Nat, o <= n,
           NEW e \in J \cup S, Cardinality(Ahead(J \cup S, e)) >= o,
           NEW F, F = Range(Slice(Sorted(J), 1, n))
    PROVE  /\ Cardinality(Ahead(F \cup S, e)) >= o
           /\ e \in F \cup S \/ Cardinality(Ahead(F, e)) >= n
<1>1. F \subseteq J /\ e \in T
    BY QueryCuts
<1>2. IsFiniteSet(F \cup S) /\ IsFiniteSet(F)
    <2>1. F \in SUBSET T /\ F \cup S \in SUBSET T
        BY <1>1
    <2> QED
        BY <2>1, FS_Subset
<1>3. CASE (e \in J => e \in F) /\ Ahead(J, e) \subseteq F
    <2>1. Ahead(J \cup S, e) \subseteq F \cup S
        BY <1>3 DEF Ahead
    <2>2. /\ Cardinality(Ahead(J \cup S, e)) \in Nat /\ Cardinality(Ahead(F \cup S, e)) \in Nat
          /\ Cardinality(Ahead(J \cup S, e)) <= Cardinality(Ahead(F \cup S, e))
        BY <1>2, <2>1, AheadGrows
    <2> QED
        BY <1>3, <2>2
<1>4. CASE Cardinality(Ahead(F, e)) >= n
    <2>1. Ahead(F, e) \subseteq F \cup S
        BY DEF Ahead
    <2>2. /\ Cardinality(Ahead(F, e)) \in Nat /\ Cardinality(Ahead(F \cup S, e)) \in Nat
          /\ Cardinality(Ahead(F, e)) <= Cardinality(Ahead(F \cup S, e))
        BY <1>2, <2>1, AheadGrows
    <2> QED
        BY <1>4, <2>2
<1> QED
    BY <1>1, <1>3, <1>4, QueryCuts

\* After the first query has returned F: e is not before the page at o, and is still
\* there for its second query unless the page is full without it.
Waits(F, S, o, l, e) ==
    /\ Cardinality(Ahead(F \cup S, e)) >= o
    /\ e \in F \cup S \/ Cardinality(Ahead(F, e)) >= l + o

\* The page that is cut out of the merge of F with the second query.
MergedPage(F, S, o, l) ==
    Slice(Sorted(F \cup Range(Slice(Sorted(S), 1, l + o))), o + 1, o + l)

\* The page is read: e is in it, or the page is full and e is beyond it.
Shown(F, S, o, l, e) ==
    \/ e \in Range(MergedPage(F, S, o, l))
    \/ Len(MergedPage(F, S, o, l)) = l /\ Cardinality(Ahead(F \cup S, e)) >= l + o

\* The second query, the merge and the slice: the entry is shown, or the page is full
\* and the entry is beyond it.
LEMMA NextPage ==
    ASSUME NEW T, IsFiniteSet(T), StrictOrder(Newer(T), T), NEW F \in SUBSET T, NEW S \in SUBSET T,
           NEW o \in Nat, NEW l \in Nat, NEW e \in T, Waits(F, S, o, l, e)
    PROVE  Shown(F, S, o, l, e)
<1>1. PICK page : page = MergedPage(F, S, o, l)
    OBVIOUS
<1>2. SUFFICES \/ e \in Range(page)
               \/ Len(page) = l /\ Cardinality(Ahead(F \cup S, e)) >= l + o
    BY <1>1 DEF Shown
<1>3. /\ Cardinality(Ahead(F \cup S, e)) >= o
      /\ e \in F \cup S \/ Cardinality(Ahead(F, e)) >= l + o
    BY DEF Waits
<1>4. PICK n : n = l + o
    OBVIOUS
<1>5. PICK G : G = Range(Slice(Sorted(S), 1, n))
    OBVIOUS
<1>6. page = Slice(Sorted(F \cup G), o + 1, o + l)
    BY <1>1, <1>4, <1>5 DEF MergedPage
<1> DEFINE M == F \cup G
<1>7. n \in Nat /\ o <= n
    BY <1>4
<1>8. G \subseteq S
    BY <1>7, <1>5, QueryCuts
<1>9. M \in SUBSET T /\ F \cup S \in SUBSET T
    BY <1>8
<1>10. IsFiniteSet(M) /\ StrictOrder(Newer(M), M) /\ IsFiniteSet(F \cup S)
    BY <1>9, PartIsOrdered
<1> HIDE DEF M
<1>11. /\ Range(page) = {x \in M : o <= Cardinality(Ahead(M, x)) /\ Cardinality(Ahead(M, x)) < o + l}
       /\ o + l <= Cardinality(M) => Len(page) = (o + l) - o
    <2>1. o + l \in Nat /\ o <= o + l
        OBVIOUS
    <2>2. page = Slice(Sorted(M), o + 1, o + l)
        BY <1>6 DEF M
    <2> QED
        BY <1>10, <2>1, <2>2, SliceIs
<1>12. /\ Cardinality(Ahead(M, e)) \in Nat /\ Cardinality(Ahead(F \cup S, e)) \in Nat
       /\ Cardinality(Ahead(M, e)) <= Cardinality(Ahead(F \cup S, e))
    <2>1. Ahead(M, e) \subseteq F \cup S
        BY <1>8 DEF Ahead, M
    <2> QED
        BY <1>10, <2>1, AheadGrows
<1>13. ASSUME NEW X \in {F, G}, Cardinality(Ahead(X, e)) >= n PROVE Cardinality(Ahead(M, e)) >= n
    <2>1. Ahead(X, e) \subseteq M
        BY DEF Ahead, M
    <2>2. /\ Cardinality(Ahead(X, e)) \in Nat /\ Cardinality(Ahead(X, e)) <= Cardinality(Ahead(M, e))
        BY <1>10, <2>1, AheadGrows
    <2> QED
        BY <1>7, <1>12, <1>13, <2>2
<1>14. CASE Cardinality(Ahead(M, e)) >= n
    <2>1. Ahead(M, e) \subseteq M
        BY DEF Ahead
    <2>2. Cardinality(M) \in Nat /\ Cardinality(Ahead(M, e)) <= Cardinality(M)
        BY <1>10, <2>1, AheadGrows
    <2>3. o + l <= Cardinality(M)
        BY <1>7, <1>4, <1>12, <1>14, <2>2
    <2>4. Len(page) = l
        BY <1>11, <2>3
    <2> QED
        BY <1>7, <1>4, <1>12, <1>14, <2>4
<1>15. CASE ~(Cardinality(Ahead(M, e)) >= n)
    <2>1. ~(Cardinality(Ahead(F, e)) >= n) /\ ~(Cardinality(Ahead(G, e)) >= n)
        BY <1>13, <1>15
    <2>2. (e \in S => e \in G) /\ Ahead(S, e) \subseteq G
        BY <1>7, <1>5, <2>1, QueryCuts
    <2>3. e \in M
        BY <1>3, <1>4, <2>1, <2>2 DEF M
    <2>4. Ahead(F \cup S, e) \subseteq M
        BY <2>2 DEF Ahead, M
    <2>5. Cardinality(Ahead(F \cup S, e)) <= Cardinality(Ahead(M, e))
        BY <1>10, <2>4, AheadGrows
    <2>6. o <= Cardinality(Ahead(M, e)) /\ Cardinality(Ahead(M, e)) < o + l
        BY <1>3, <1>7, <1>4, <1>12, <1>15, <2>5
    <2> QED
        BY <1>11, <2>3, <2>6
<1> QED
    BY <1>14, <1>15

\* A page shows nothing but what the queries returned.
LEMMA PageIsRead ==
    ASSUME NEW T, IsFiniteSet(T), StrictOrder(Newer(T), T), NEW F \in SUBSET T, NEW S \in SUBSET T,
           NEW o \in Nat, NEW l \in Nat, NEW n \in Nat,
           NEW G, G = Range(Slice(Sorted(S), 1, n)),
           NEW page, page = Slice(Sorted(F \cup G), o + 1, o + l)
    PROVE  Range(page) \subseteq F \cup S
<1> DEFINE M == F \cup G
<1>1. G \subseteq S
    <2>1. IsFiniteSet(S) /\ StrictOrder(Newer(S), S)
        BY PartIsOrdered
    <2>2. G = {x \in S : Cardinality(Ahead(S, x)) < n}
        BY <2>1, QueryIs
    <2> QED
        BY <2>2
<1>2. M \in SUBSET T /\ o + l \in Nat /\ o <= o + l
    BY <1>1
<1>3. IsFiniteSet(M) /\ StrictOrder(Newer(M), M)
    BY <1>2, PartIsOrdered
<1> HIDE DEF M
<1>4. /\ Range(page) = {x \in M : o <= Cardinality(Ahead(M, x)) /\ Cardinality(Ahead(M, x)) < o + l}
      /\ o + l <= Cardinality(M) => Len(page) = (o + l) - o
    <2>1. page = Slice(Sorted(M), o + 1, o + l)
        BY DEF M
    <2> QED
        BY <1>2, <1>3, <2>1, SliceIs
<1> QED
    BY <1>1, <1>4 DEF M

-----------------------------------------------------------------------------
(***************************************************************************)
(* The history: created_at decides between any two of its entries, and it  *)
(* only grows.                                                             *)
(***************************************************************************)

\* While the history is read, the rows and the requests that are being stored have
\* readings of the clock of their own, later than those of synchronous mode.
Stamped ==
    /\ clock \in Nat /\ created \in [Clients -> Nat]
    /\ stamps \in Seq(Nat) /\ Len(stamps) = Len(rows)
    /\ \A i \in 1..Len(rows) : 1 <= stamps[i] /\ stamps[i] <= clock
    /\ \A i, k \in 1..Len(rows) : stamps[i] = stamps[k] => i = k
    /\ \A c \in Clients : InApi(c) =>
         /\ 1 <= created[c] /\ created[c] <= clock
         /\ \A i \in 1..Len(rows) : stamps[i] # created[c]
         /\ \A d \in Clients : InApi(d) /\ created[d] = created[c] => d = c

\* What a page is made from.
Matching == JobEntries(reader.filter)
Entries == Matching \cup SnapshotEntries

LEMMA EntryIs ==
    ASSUME StoreOK, Stamped, NEW e \in Entries
    PROVE  /\ e = Entry(e.at, e.row, e.n) /\ e.at \in Nat
           /\ e.n \in 0..(Legacy + PlanSize)
           /\ \/ e.row = 0 /\ e.at = 0
              \/ e.row \in 1..Len(rows) /\ e.at = stamps[e.row]
<1>1. Legacy \in Nat /\ PlanSize \in Nat /\ Len(rows) \in Nat /\ DOMAIN rows = 1..Len(rows)
    BY HistoryAssumption, RequestAssumption DEF StoreOK
<1>2. \A i \in 1..Len(rows) : stamps[i] \in Nat
    BY DEF Stamped
<1>3. CASE e \in Matching
    <2>1. PICK i \in 1..Len(rows) : e = Entry(stamps[i], i, 0)
        BY <1>1, <1>3 DEF Matching, JobEntries
    <2>2. 0 \in 0..(Legacy + PlanSize)
        BY <1>1
    <2> QED
        BY <1>2, <2>1, <2>2 DEF Entry
<1>4. CASE \E n \in 1..Legacy : e = Entry(0, 0, n)
    <2>1. PICK n \in 1..Legacy : e = Entry(0, 0, n)
        BY <1>4
    <2>2. n \in 0..(Legacy + PlanSize)
        BY <1>1
    <2> QED
        BY <2>1, <2>2 DEF Entry
<1>5. CASE \E i \in 1..Len(rows) : \E n \in 1..parts[i] : e = Entry(stamps[i], i, n)
    <2>1. PICK i \in 1..Len(rows) : \E n \in 1..parts[i] : e = Entry(stamps[i], i, n)
        BY <1>5
    <2>2. PICK n \in 1..parts[i] : e = Entry(stamps[i], i, n)
        BY <2>1
    <2>3. parts[i] \in Nat /\ parts[i] <= PlanSize
        <3>1. RowOK(i) /\ rows[i].kind \in Kinds
            BY RowShape DEF StoreOK
        <3>2. Parts(rows[i].kind) \in 1..PlanSize
            BY <3>1, PartsAreNat
        <3> QED
            BY <1>1, <3>1, <3>2 DEF RowOK
    <2>4. n \in 0..(Legacy + PlanSize)
        BY <1>1, <2>3
    <2> QED
        BY <1>2, <2>2, <2>4 DEF Entry
<1> QED
    BY <1>1, <1>3, <1>4, <1>5 DEF Entries, SnapshotEntries

LEMMA EntriesAreFinite ==
    ASSUME StoreOK, Stamped
    PROVE  IsFiniteSet(Entries)
<1> DEFINE A == 0..Len(rows)
           B == 0..(Legacy + PlanSize)
           g == [p \in A \X B |-> Entry(IF p[1] = 0 THEN 0 ELSE stamps[p[1]], p[1], p[2])]
           G == {g[p] : p \in A \X B}
<1>1. Legacy \in Nat /\ PlanSize \in Nat /\ Len(rows) \in Nat
    BY HistoryAssumption, RequestAssumption DEF StoreOK
<1>2. IsFiniteSet(A) /\ IsFiniteSet(B)
    <2>1. 0 \in Int /\ Len(rows) \in Int /\ Legacy + PlanSize \in Int
        BY <1>1
    <2> QED
        BY <2>1, FS_Interval
<1>3. IsFiniteSet(A \X B)
    <2> HIDE DEF A, B
    <2> QED
        BY <1>2, FS_Product
<1>4. g \in Surjection(A \X B, G)
    <2>1. g = [p \in A \X B |-> g[p]]
        OBVIOUS
    <2> HIDE DEF g
    <2> QED
        BY <2>1 DEF Surjection
<1>5. IsFiniteSet(G)
    <2> HIDE DEF g, G, A, B
    <2> QED
        BY <1>3, <1>4, FS_Surjection
<1>6. ASSUME NEW e \in Entries PROVE e \in G
    <2>1. /\ e = Entry(e.at, e.row, e.n) /\ e.n \in B
          /\ \/ e.row = 0 /\ e.at = 0
             \/ e.row \in 1..Len(rows) /\ e.at = stamps[e.row]
        BY EntryIs
    <2>2. e.row \in A
        BY <1>1, <2>1
    <2>3. <<e.row, e.n>> \in A \X B
        BY <2>1, <2>2
    <2>4. e.at = IF e.row = 0 THEN 0 ELSE stamps[e.row]
        BY <1>1, <2>1
    <2>5. e = g[<<e.row, e.n>>]
        BY <2>1, <2>3, <2>4
    <2> QED
        BY <2>3, <2>5
<1>7. Entries \in SUBSET G
    BY <1>6
<1> QED
    BY <1>5, <1>7, FS_Subset

\* No two entries are at the same place in the order.
LEMMA HistoryIsOrdered ==
    ASSUME StoreOK, Stamped
    PROVE  IsFiniteSet(Entries) /\ StrictOrder(Newer(Entries), Entries)
<1>1. \A e \in Entries : e.at \in Nat /\ e.n \in Nat
    <2>1. Legacy + PlanSize \in Nat
        BY HistoryAssumption, RequestAssumption
    <2> QED
        BY <2>1, EntryIs
<1>2. ASSUME NEW x \in Entries, NEW y \in Entries, x.at = y.at, x.n = y.n PROVE x = y
    <2>1. x = Entry(x.at, x.row, x.n) /\ y = Entry(y.at, y.row, y.n)
        BY EntryIs
    <2>2. x.row = y.row
        <3>1. \/ x.row = 0 /\ x.at = 0
              \/ x.row \in 1..Len(rows) /\ x.at = stamps[x.row]
            BY EntryIs
        <3>2. \/ y.row = 0 /\ y.at = 0
              \/ y.row \in 1..Len(rows) /\ y.at = stamps[y.row]
            BY EntryIs
        <3>3. \A i \in 1..Len(rows) : 1 <= stamps[i]
            BY DEF Stamped
        <3>4. \A i, k \in 1..Len(rows) : stamps[i] = stamps[k] => i = k
            BY DEF Stamped
        <3>5. ~ (1 <= 0)
            OBVIOUS
        <3> QED
            BY <1>2, <3>1, <3>2, <3>3, <3>4, <3>5
    <2> QED
        BY <1>2, <2>1, <2>2
<1>3. \A x, y \in Entries : <<x, y>> \in Newer(Entries) <=> Before(x, y)
    BY DEF Newer
<1>4. \A x \in Entries : ~Before(x, x)
    BY <1>1 DEF Before
<1>5. \A x, y \in Entries : x # y => Before(x, y) \/ Before(y, x)
    BY <1>1, <1>2 DEF Before
<1>6. \A x, y, z \in Entries : Before(x, y) /\ Before(y, z) => Before(x, z)
    BY <1>1 DEF Before
<1>7. StrictOrder(Newer(Entries), Entries)
    BY <1>3, <1>4, <1>5, <1>6 DEF StrictOrder
<1> QED
    BY <1>7, EntriesAreFinite

\* The transaction of a request is committed, whether its client is told or not.
Commits(c) == insert(c) \/ CommitUnknown(c) \/ AnswerLost(c)

\* In a step of Submission a request enters, a row is stored, or neither.
LEMMA QuietSteps ==
    ASSUME IInv, Next
    PROVE  \/ \E c \in Clients : submit(c)
           \/ \E c \in Clients : Commits(c)
           \/ posts' = posts /\ Len(rows') = Len(rows) /\ \A c \in Clients : InApi(c)' => InApi(c)
<1>1. pc \in [Clients -> {"client", "lookup", "insert", "again", "parts"}]
    BY DEF IInv, TypeOK
<1> DEFINE Quiet == posts' = posts /\ Len(rows') = Len(rows) /\ \A c \in Clients : InApi(c)' => InApi(c)
<1>2. ASSUME NEW c \in Clients, lookup(c) \/ insert_refused(c) \/ lookup_again(c) PROVE Quiet
    <2>1. posts' = posts /\ rows' = rows /\ InApi(c)
        BY <1>2 DEF lookup, insert_refused, lookup_again, dbVars, InApi
    <2>2. \E v \in {"client", "lookup", "insert", "again", "parts"} : pc' = [pc EXCEPT ![c] = v]
        BY <1>2 DEF lookup, insert_refused, lookup_again, reuse, Accept, Answer, Goto
    <2>3. \A d \in Clients : d # c => pc'[d] = pc[d]
        BY <1>1, <2>2
    <2> QED
        BY <2>1, <2>3 DEF InApi
<1>3. ASSUME NEW c \in Clients, get_parts(c) \/ get_row(c) PROVE Quiet
    <2>1. posts' = posts /\ rows' = rows
        BY <1>3 DEF get_parts, get_row, dbVars
    <2>2. pc' = [pc EXCEPT ![c] = "client"] \/ pc' = [pc EXCEPT ![c] = "parts"] \/ pc' = pc
        BY <1>3 DEF get_parts, get_row
    <2> QED
        BY <1>1, <2>1, <2>2 DEF InApi
<1>4. ASSUME NEW c \in Clients, DatabaseFails(c) \/ ApiDies(c) \/ PollFails(c) PROVE Quiet
    <2>1. posts' = posts /\ rows' = rows /\ pc' = [pc EXCEPT ![c] = "client"]
        BY <1>4 DEF DatabaseFails, ApiDies, PollFails, Answer, dbVars
    <2> QED
        BY <1>1, <2>1 DEF InApi
<1>5. ASSUME NEW i \in DOMAIN rows, Finish(i) \/ FailJob(i) PROVE Quiet
    <2>1. posts' = posts /\ pc' = pc
        BY <1>5 DEF Finish, FailJob, postVars
    <2>2. Len(rows') = Len(rows)
        BY <1>5 DEF Finish, FailJob, IInv, StoreOK
    <2> QED
        BY <2>1, <2>2 DEF InApi
<1> QED
    BY <1>2, <1>3, <1>4, <1>5 DEF Next, Api, Commits

\* Submit: the clock goes on, and no row changes its place.
LEMMA SubmitStamps ==
    ASSUME IInv, Stamped, Submit, reader.pc # "off"
    PROVE  Stamped' /\ \A i \in 1..Len(rows) : stamps'[i] = stamps[i]
<1> DEFINE entering == {c \in Clients : posts'[c] > posts[c] /\ pc'[c] # "client"}
           storing == {c \in Clients : pc[c] = "insert" /\ pc'[c] # "insert"}
<1>1. /\ Next
      /\ clock' = clock + Cardinality(entering)
      /\ created' = [c \in Clients |-> IF c \in entering THEN clock' ELSE created[c]]
      /\ stamps' = IF Len(rows') = Len(rows) THEN stamps
                   ELSE Append(stamps, created[CHOOSE c \in storing : TRUE])
    BY DEF Submit
<1>2. /\ clock \in Nat /\ created \in [Clients -> Nat] /\ stamps \in Seq(Nat)
      /\ Len(stamps) = Len(rows) /\ Len(rows) \in Nat
    BY DEF Stamped
<1>3. /\ pc \in [Clients -> {"client", "lookup", "insert", "again", "parts"}]
      /\ posts \in [Clients -> Nat]
    BY RequestAssumption DEF IInv, TypeOK
<1>4. posts' = posts => entering = {} /\ clock' = clock /\ created' = created
    <2> SUFFICES ASSUME posts' = posts PROVE entering = {} /\ clock' = clock /\ created' = created
        OBVIOUS
    <2>1. entering = {}
        BY <1>3
    <2> HIDE DEF entering
    <2>2. clock' = clock
        BY <1>1, <1>2, <2>1, FS_EmptySet
    <2> QED
        BY <1>1, <1>2, <2>1, <2>2
<1>5. CASE /\ posts' = posts /\ Len(rows') = Len(rows)
           /\ \A c \in Clients : InApi(c)' => InApi(c)
    <2>1. clock' = clock /\ created' = created /\ Len(rows') = Len(rows)
        BY <1>4, <1>5
    <2>2. stamps' = stamps
        BY <1>1, <1>5
    <2>3. \A c \in Clients : InApi(c)' => InApi(c)
        BY <1>5
    <2> QED
        BY <2>1, <2>2, <2>3 DEF Stamped
<1>6. ASSUME NEW c \in Clients, submit(c) PROVE Stamped' /\ stamps' = stamps
    <2>1. rows' = rows /\ stamps' = stamps
        BY <1>1, <1>6 DEF submit, dbVars
    <2>2. \A d \in Clients : d # c => posts'[d] = posts[d] /\ pc'[d] = pc[d]
        BY <1>3, <1>6 DEF submit, Answer, Goto
    <2>3. \A d \in Clients : d # c => d \notin entering
        BY <1>3, <2>2
    <2>4. CASE c \in entering
        <3>1. entering = {c}
            BY <2>3, <2>4
        <3> HIDE DEF entering
        <3>2. clock' = clock + 1
            BY <1>1, <3>1, FS_Singleton
        <3>3. /\ created' \in [Clients -> Nat] /\ created'[c] = clock + 1
              /\ \A d \in Clients : d # c => created'[d] = created[d]
            BY <1>1, <1>2, <3>1, <3>2
        <3>4. \A d \in Clients : d # c => (InApi(d)' <=> InApi(d))
            BY <2>2 DEF InApi
        <3>5. \A i \in 1..Len(rows) : stamps[i] \in Nat /\ stamps[i] <= clock /\ 1 <= stamps[i]
            BY DEF Stamped
        <3>6. \A d \in Clients : InApi(d) => created[d] \in Nat /\ 1 <= created[d] /\ created[d] <= clock
            BY DEF Stamped
        <3>7. ASSUME NEW d \in Clients, InApi(d)'
              PROVE  /\ 1 <= created'[d] /\ created'[d] <= clock'
                     /\ \A i \in 1..Len(rows) : stamps[i] # created'[d]
                     /\ \A f \in Clients : InApi(f)' /\ created'[f] = created'[d] => f = d
            <4>1. CASE d = c
                BY <1>2, <3>2, <3>3, <3>4, <3>5, <3>6, <3>7, <4>1
            <4>2. CASE d # c
                <5>1. InApi(d) /\ created'[d] = created[d] /\ created[d] # created'[c]
                    BY <1>2, <3>3, <3>4, <3>6, <3>7, <4>2
                <5>2. 1 <= created[d] /\ created[d] <= clock'
                    BY <1>2, <3>2, <3>6, <5>1
                <5>3. \A i \in 1..Len(rows) : stamps[i] # created[d]
                    BY <5>1 DEF Stamped
                <5>4. \A f \in Clients : InApi(f) /\ created[f] = created[d] => f = d
                    BY <5>1 DEF Stamped
                <5> QED
                    BY <3>3, <3>4, <5>1, <5>2, <5>3, <5>4
            <4> QED
                BY <4>1, <4>2
        <3>8. \A i \in 1..Len(rows) : 1 <= stamps[i] /\ stamps[i] <= clock'
            BY <1>2, <3>2, <3>5
        <3>9. \A i, k \in 1..Len(rows) : stamps[i] = stamps[k] => i = k
            BY DEF Stamped
        <3>10. clock' \in Nat
            BY <1>2, <3>2
        <3> QED
            BY <1>2, <2>1, <3>3, <3>7, <3>8, <3>9, <3>10 DEF Stamped
    <2>5. CASE c \notin entering
        <3>1. entering = {}
            BY <2>3, <2>5
        <3>2. pc'[c] = "client"
            <4>1. posts'[c] > posts[c]
                BY <1>3, <1>6 DEF submit
            <4> QED
                BY <2>5, <4>1
        <3>3. \A d \in Clients : InApi(d)' => InApi(d)
            BY <2>2, <3>2 DEF InApi
        <3> HIDE DEF entering
        <3>4. clock' = clock /\ created' = created
            <4>1. clock' = clock
                BY <1>1, <1>2, <3>1, FS_EmptySet
            <4> QED
                BY <1>1, <1>2, <3>1, <4>1
        <3> QED
            BY <2>1, <3>3, <3>4 DEF Stamped
    <2> QED
        BY <2>1, <2>4, <2>5
<1>7. ASSUME NEW c \in Clients, Commits(c)
      PROVE  Stamped' /\ \A i \in 1..Len(rows) : stamps'[i] = stamps[i]
    <2>1. posts' = posts /\ InApi(c) /\ Len(rows') = Len(rows) + 1
        <3>1. StoreOK /\ Store(c) /\ ~KeyTaken(c)
            BY <1>7 DEF IInv, Commits, insert, CommitUnknown, AnswerLost
        <3>2. Len(rows') = Len(rows) + 1
            BY <3>1, StoreKeeps
        <3> QED
            BY <1>7, <3>2 DEF Commits, insert, CommitUnknown, AnswerLost, InApi
    <2>2. pc'[c] = "client" /\ \A d \in Clients : d # c => pc'[d] = pc[d]
        BY <1>3, <1>7 DEF Commits, insert, CommitUnknown, AnswerLost, Accept, Answer
    <2>3. storing = {c}
        BY <1>7, <2>2 DEF Commits, insert, CommitUnknown, AnswerLost
    <2>4. (CHOOSE d \in storing : TRUE) = c
        BY <2>3
    <2>5. stamps' = Append(stamps, created[c])
        <3>1. Len(rows') # Len(rows)
            BY <1>2, <2>1
        <3>2. stamps' = Append(stamps, created[CHOOSE d \in storing : TRUE])
            BY <1>1, <3>1
        <3> QED
            BY <2>4, <3>2
    <2>6. clock' = clock /\ created' = created
        BY <1>4, <2>1
    <2>7. /\ stamps' \in Seq(Nat) /\ Len(stamps') = Len(rows) + 1
          /\ stamps'[Len(rows) + 1] = created[c]
          /\ \A i \in 1..Len(rows) : stamps'[i] = stamps[i]
        BY <1>2, <2>5
    <2>8. \A d \in Clients : InApi(d)' => InApi(d) /\ d # c
        BY <2>2 DEF InApi
    <2>9. /\ 1 <= created[c] /\ created[c] <= clock
          /\ \A i \in 1..Len(rows) : stamps[i] # created[c]
        BY <2>1 DEF Stamped
    <2>10. \A i \in 1..(Len(rows) + 1) : i \in 1..Len(rows) \/ i = Len(rows) + 1
        BY <1>2
    <2>11. \A i \in 1..(Len(rows) + 1) : 1 <= stamps'[i] /\ stamps'[i] <= clock
        BY <2>7, <2>9, <2>10 DEF Stamped
    <2>12. \A i, k \in 1..(Len(rows) + 1) : stamps'[i] = stamps'[k] => i = k
        BY <2>7, <2>9, <2>10 DEF Stamped
    <2>13. ASSUME NEW d \in Clients, InApi(d)'
           PROVE  /\ 1 <= created[d] /\ created[d] <= clock
                  /\ \A i \in 1..(Len(rows) + 1) : stamps'[i] # created[d]
                  /\ \A f \in Clients : InApi(f)' /\ created[f] = created[d] => f = d
        <3>1. InApi(d) /\ d # c
            BY <2>8, <2>13
        <3> QED
            BY <2>1, <2>7, <2>8, <2>10, <3>1 DEF Stamped
    <2> QED
        BY <1>2, <2>1, <2>6, <2>7, <2>11, <2>12, <2>13 DEF Stamped
<1> QED
    BY <1>1, <1>5, <1>6, <1>7, QuietSteps

\* No step takes anything back from the tables.
LEMMA NextGrows ==
    ASSUME IInv, Next
    PROVE  Grows
<1>1. StoreOK
    BY DEF IInv
<1>2. ASSUME NEW c \in Clients,
             \/ submit(c) \/ lookup(c) \/ insert_refused(c) \/ lookup_again(c) \/ get_parts(c)
             \/ get_row(c) \/ DatabaseFails(c) \/ ApiDies(c) \/ PollFails(c)
      PROVE  Grows
    <2>1. UNCHANGED dbVars
        BY <1>2 DEF submit, lookup, insert_refused, lookup_again, get_parts, get_row,
                    DatabaseFails, ApiDies, PollFails
    <2> QED
        BY <1>1, <2>1, UnchangedStore
<1>3. ASSUME NEW c \in Clients, insert(c) \/ CommitUnknown(c) \/ AnswerLost(c) PROVE Grows
    <2>1. Store(c) /\ ~KeyTaken(c)
        BY <1>3 DEF insert, CommitUnknown, AnswerLost
    <2> QED
        BY <1>1, <2>1, StoreKeeps
<1>4. ASSUME NEW i \in DOMAIN rows, Finish(i) \/ FailJob(i) PROVE Grows
    BY <1>1, <1>4, FinishKeeps, FailJobKeeps
<1> QED
    BY <1>2, <1>3, <1>4 DEF Next, Api

\* What was in the history stays there, at its place.
LEMMA HistoryGrows ==
    ASSUME StoreOK, StoreOK', Grows, reader' = reader,
           \A i \in 1..Len(rows) : stamps'[i] = stamps[i]
    PROVE  Matching \subseteq Matching' /\ SnapshotEntries \subseteq SnapshotEntries'
<1>1. /\ Len(rows) \in Nat /\ DOMAIN rows = 1..Len(rows)
      /\ Len(rows') \in Nat /\ DOMAIN rows' = 1..Len(rows')
    BY DEF StoreOK
<1>2. ASSUME NEW i \in 1..Len(rows)
      PROVE  /\ i \in 1..Len(rows') /\ rows'[i].kind = rows[i].kind /\ stamps'[i] = stamps[i]
             /\ parts[i] \in Nat /\ parts'[i] \in Nat /\ parts[i] <= parts'[i]
             /\ parts'[i] <= Parts(rows[i].kind)
    <2>1. i \in 1..Len(rows') /\ rows'[i].kind = rows[i].kind /\ parts[i] <= parts'[i]
        BY <1>1 DEF Grows
    <2>2. parts[i] \in Nat /\ parts'[i] \in Nat
        <3>1. parts \in Seq(Nat) /\ Len(parts) = Len(rows)
            BY DEF StoreOK
        <3>2. parts' \in Seq(Nat) /\ Len(parts') = Len(rows')
            BY DEF StoreOK
        <3>3. parts[i] \in Nat
            BY <3>1
        <3> QED
            BY <2>1, <3>2, <3>3
    <2>3. parts'[i] \in 0..Parts(rows'[i].kind)
        BY <2>1 DEF StoreOK, RowOK, Parts
    <2>4. Parts(rows[i].kind) \in Nat
        BY RowShape, PartsAreNat, RequestAssumption
    <2> QED
        BY <2>1, <2>2, <2>3, <2>4
<1>3. ASSUME NEW e \in Matching PROVE e \in Matching'
    <2>1. PICK i \in 1..Len(rows) :
             /\ rows[i].kind = "evaluation" /\ (reader.filter = "scored" => parts[i] = 1)
             /\ e = Entry(stamps[i], i, 0)
        BY <1>1 DEF Matching, JobEntries, Scored
    <2>2. parts[i] = 1 => parts'[i] = 1
        <3>1. Parts(rows[i].kind) = 1
            BY <2>1 DEF Parts
        <3>2. parts'[i] \in Nat /\ parts[i] <= parts'[i] /\ parts'[i] <= 1
            BY <1>2, <3>1
        <3> QED
            BY <3>2
    <2>3. /\ i \in DOMAIN rows' /\ rows'[i].kind = "evaluation"
          /\ reader'.filter = "scored" => parts'[i] = 1
          /\ e = Entry(stamps'[i], i, 0)
        BY <1>1, <1>2, <2>1, <2>2
    <2> QED
        BY <2>3 DEF Matching, JobEntries, Scored, Entry
<1>4. ASSUME NEW e \in SnapshotEntries PROVE e \in SnapshotEntries'
    <2>1. CASE e \in {Entry(0, 0, n) : n \in 1..Legacy}
        BY <2>1 DEF SnapshotEntries, Entry
    <2>2. CASE e \notin {Entry(0, 0, n) : n \in 1..Legacy}
        <3>1. PICK i \in 1..Len(rows) :
                 rows[i].kind = "benchmark" /\ \E n \in 1..parts[i] : e = Entry(stamps[i], i, n)
            BY <1>1, <2>2 DEF SnapshotEntries
        <3>2. PICK n \in 1..parts[i] : e = Entry(stamps[i], i, n)
            BY <3>1
        <3>3. n \in 1..parts'[i] /\ e = Entry(stamps'[i], i, n)
            BY <1>2, <3>2
        <3>4. i \in DOMAIN rows' /\ rows'[i].kind = "benchmark"
            BY <1>1, <1>2, <3>1
        <3> QED
            BY <3>3, <3>4 DEF SnapshotEntries, Entry
    <2> QED
        BY <2>1, <2>2
<1> QED
    BY <1>3, <1>4

\* What the reader holds.  It is shown only what is there, and what it has not been
\* shown of the entries it began with lies behind the pages it has read.  Between the
\* two queries of a page that is true of what the first one returned, beside the
\* snapshots, and an entry that one left out has a page full of others ahead.
Awaited(X, e) == Cardinality(Ahead(X, e)) >= reader.offset

Held(F) ==
    /\ F \subseteq Matching
    /\ \A e \in reader.began \ reader.got : Waits(F, SnapshotEntries, reader.offset, Limit, e)

ReaderShape ==
    /\ reader = [pc |-> reader.pc, filter |-> reader.filter, offset |-> reader.offset,
                 jobs |-> reader.jobs, began |-> reader.began, got |-> reader.got]
    /\ reader.offset \in Nat

Paging ==
    /\ ReaderShape
    /\ reader.began \subseteq Entries
    /\ reader.got \subseteq Entries
    /\ reader.pc = "idle" => reader.began = {} /\ reader.got = {} /\ reader.offset = 0
    /\ reader.pc = "done" => reader.began \subseteq reader.got
    /\ reader.pc = "jobs" => \A e \in reader.began \ reader.got : Awaited(Entries, e)
    /\ reader.pc = "snapshots" => Held(Range(reader.jobs))

\* The invariant of the history; where polls are observed instead nothing is read.
HInv ==
    /\ reader.pc = "off" => reader.got = {} /\ reader.began = {}
    /\ reader.pc # "off" => Stamped /\ Paging

LEMMA HistoryIsFinite == StoreOK /\ Stamped => IsFiniteSet(Entries)
BY EntriesAreFinite

LEMMA HistoryStaysFinite == (StoreOK /\ Stamped)' => IsFiniteSet(Entries)'
BY HistoryIsFinite, PTL

\* More entries leave no fewer ahead.
LEMMA AwaitedStays ==
    ASSUME NEW X, NEW Y, X \subseteq Y, IsFiniteSet(Y), NEW e, NEW o \in Nat,
           Cardinality(Ahead(X, e)) >= o
    PROVE  Cardinality(Ahead(Y, e)) >= o
<1>1. Ahead(X, e) \subseteq Y
    BY DEF Ahead
<1>2. /\ Cardinality(Ahead(X, e)) \in Nat /\ Cardinality(Ahead(Y, e)) \in Nat
      /\ Cardinality(Ahead(X, e)) <= Cardinality(Ahead(Y, e))
      /\ Cardinality(Ahead(Y, e)) <= Cardinality(Y) /\ Cardinality(Y) \in Nat
    BY <1>1, AheadGrows
<1> QED
    BY <1>2

\* Submit: whatever is stored or finished meanwhile, nothing the reader has still to be
\* shown moves ahead of the pages it has read.
LEMMA SubmitPages ==
    ASSUME IInv, IInv', HInv, Submit
    PROVE  HInv'
<1>1. reader' = reader
    BY DEF Submit
<1>2. CASE reader.pc = "off"
    BY <1>1, <1>2 DEF HInv
<1>3. CASE reader.pc # "off"
    <2>1. Stamped /\ Paging
        BY <1>3 DEF HInv
    <2>2. Stamped' /\ \A i \in 1..Len(rows) : stamps'[i] = stamps[i]
        BY <1>3, <2>1, SubmitStamps
    <2>3. Matching \subseteq Matching' /\ SnapshotEntries \subseteq SnapshotEntries'
        <3>1. Grows
            BY NextGrows DEF Submit
        <3> QED
            BY <1>1, <2>2, <3>1, HistoryGrows DEF IInv
    <2>4. Entries \subseteq Entries' /\ IsFiniteSet(Entries')
        BY <2>2, <2>3, HistoryStaysFinite DEF IInv, Entries
    <2>5. reader.offset \in Nat
        BY <2>1 DEF Paging, ReaderShape
    <2>6. ASSUME reader.pc = "jobs", NEW e \in reader.began \ reader.got PROVE Awaited(Entries, e)'
        <3>1. Cardinality(Ahead(Entries, e)) >= reader.offset
            BY <2>1, <2>6 DEF Paging, Awaited
        <3>2. Cardinality(Ahead(Entries', e)) >= reader.offset
            BY <2>4, <2>5, <3>1, AwaitedStays
        <3> QED
            BY <1>1, <3>2 DEF Awaited, Ahead, Before
    <2>7. ASSUME reader.pc = "snapshots" PROVE Held(Range(reader.jobs))'
        <3> DEFINE F == Range(reader.jobs)
        <3>1. /\ F \subseteq Matching
              /\ \A e \in reader.began \ reader.got :
                   /\ Cardinality(Ahead(F \cup SnapshotEntries, e)) >= reader.offset
                   /\ e \in F \cup SnapshotEntries
                      \/ Cardinality(Ahead(F, e)) >= Limit + reader.offset
            BY <2>1, <2>7 DEF Paging, Held, Waits
        <3> HIDE DEF F
        <3>2. F \cup SnapshotEntries \subseteq F \cup SnapshotEntries'
            BY <2>3
        <3>3. IsFiniteSet(F \cup SnapshotEntries')
            <4>1. F \cup SnapshotEntries' \in SUBSET (Entries')
                BY <2>3, <3>1 DEF Entries
            <4> QED
                BY <2>4, <4>1, FS_Subset
        <3>4. \A e \in reader.began \ reader.got :
                 Cardinality(Ahead(F \cup SnapshotEntries', e)) >= reader.offset
            BY <2>5, <3>1, <3>2, <3>3, AwaitedStays
        <3>5. /\ F \subseteq Matching'
              /\ \A e \in reader.began \ reader.got :
                   /\ Cardinality(Ahead(F \cup SnapshotEntries', e)) >= reader.offset
                   /\ e \in F \cup SnapshotEntries'
                      \/ Cardinality(Ahead(F, e)) >= Limit + reader.offset
            BY <2>3, <3>1, <3>4
        <3> QED
            BY <1>1, <3>5 DEF F, Held, Waits, Ahead, Before
    <2>8. reader.began \subseteq Entries' /\ reader.got \subseteq Entries'
        BY <2>1, <2>4 DEF Paging
    <2>9. Paging'
        BY <1>1, <2>1, <2>6, <2>7, <2>8 DEF Paging, ReaderShape
    <2> QED
        BY <1>1, <1>3, <2>2, <2>9 DEF HInv
<1> QED
    BY <1>2, <1>3

\* A step of the reader changes nothing of the history.
LEMMA ReadStays ==
    ASSUME Stamped, Read
    PROVE  /\ Stamped' /\ SnapshotEntries' = SnapshotEntries
           /\ \A filter : JobEntries(filter)' = JobEntries(filter)
           /\ reader'.filter = reader.filter => Entries' = Entries /\ Matching' = Matching
<1>1. /\ UNCHANGED <<rows, parts, pc>> /\ UNCHANGED <<clock, created, stamps>>
    BY DEF Read, vars, dbVars, postVars
<1>2. Stamped'
    BY <1>1 DEF Stamped, InApi
<1>3. SnapshotEntries' = SnapshotEntries
    BY <1>1 DEF SnapshotEntries, Entry
<1>4. \A filter : JobEntries(filter)' = JobEntries(filter)
    BY <1>1 DEF JobEntries, Scored, Entry
<1> QED
    BY <1>2, <1>3, <1>4 DEF Entries, Matching

\* list: the reader begins at the head, with everything still ahead of it.
LEMMA OpenPages ==
    ASSUME IInv, HInv, NEW filter, open_list(filter)
    PROVE  HInv'
<1>1. /\ reader.pc = "idle" /\ Read
      /\ reader' = [reader EXCEPT !.pc = "jobs", !.filter = filter,
                                  !.began = JobEntries(filter) \cup SnapshotEntries]
    BY DEF open_list
<1>2. Stamped /\ Paging
    BY <1>1 DEF HInv
<1>3. /\ reader'.pc = "jobs" /\ reader'.filter = filter /\ reader'.got = {}
      /\ reader'.began = JobEntries(filter) \cup SnapshotEntries
      /\ reader'.offset = 0 /\ ReaderShape'
    BY <1>1, <1>2 DEF Paging, ReaderShape
<1>4. Stamped' /\ Entries' = JobEntries(filter) \cup SnapshotEntries
    BY <1>1, <1>2, <1>3, ReadStays DEF Entries, Matching
<1>5. IsFiniteSet(Entries')
    <2>1. StoreOK'
        BY <1>1, UnchangedStore DEF IInv, Read, vars
    <2> QED
        BY <1>4, <2>1, HistoryStaysFinite
<1>6. \A e \in Entries' : Cardinality(Ahead(Entries', e)) >= 0
    <2> SUFFICES ASSUME NEW e \in Entries' PROVE Cardinality(Ahead(Entries', e)) \in Nat
        OBVIOUS
    <2>1. Ahead(Entries', e) \subseteq Entries'
        BY DEF Ahead
    <2> QED
        BY <1>5, <2>1, AheadGrows
<1>7. \A e \in reader'.began \ reader'.got : Awaited(Entries, e)'
    BY <1>3, <1>4, <1>6 DEF Awaited, Ahead, Before
<1>8. Paging'
    BY <1>3, <1>4, <1>7 DEF Paging
<1> QED
    BY <1>3, <1>4, <1>8 DEF HInv

\* The first query of a page.
LEMMA JobsPages ==
    ASSUME IInv, HInv, list_jobs
    PROVE  HInv'
<1> DEFINE F == Range(Query(JobEntries(reader.filter)))
           o == reader.offset
           n == Limit + o
<1>1. /\ reader.pc = "jobs" /\ Read
      /\ reader' = [reader EXCEPT !.pc = "snapshots", !.jobs = Query(JobEntries(reader.filter))]
    BY DEF list_jobs
<1>2. Stamped /\ Paging
    BY <1>1 DEF HInv
<1>3. /\ reader'.pc = "snapshots" /\ reader'.filter = reader.filter /\ reader'.got = reader.got
      /\ reader'.began = reader.began /\ reader'.jobs = Query(JobEntries(reader.filter))
      /\ reader'.offset = o /\ ReaderShape' /\ o \in Nat
    BY <1>1, <1>2 DEF Paging, ReaderShape
<1>4. /\ Stamped' /\ Entries' = Entries /\ Matching' = Matching
      /\ SnapshotEntries' = SnapshotEntries
    BY <1>1, <1>2, <1>3, ReadStays
<1>5. IsFiniteSet(Entries) /\ StrictOrder(Newer(Entries), Entries)
    BY <1>2, HistoryIsOrdered DEF IInv
<1>6. Matching \in SUBSET Entries /\ SnapshotEntries \in SUBSET Entries
    BY DEF Entries
<1>7. n \in Nat /\ o <= n
    BY <1>3, HistoryAssumption
<1>8. F = Range(Slice(Sorted(Matching), 1, n))
    BY DEF Query, Matching
<1>9. Range(reader'.jobs) = F
    BY <1>3
<1> HIDE DEF F, n, o
<1>10. F \subseteq Matching
    <2>1. IsFiniteSet(Matching) /\ StrictOrder(Newer(Matching), Matching)
        BY <1>5, <1>6, PartIsOrdered
    <2>2. F = {x \in Matching : Cardinality(Ahead(Matching, x)) < n}
        BY <1>7, <1>8, <2>1, QueryIs
    <2> QED
        BY <2>2
<1>11. ASSUME NEW e \in reader.began \ reader.got
       PROVE  /\ Cardinality(Ahead(F \cup SnapshotEntries, e)) >= o
              /\ e \in F \cup SnapshotEntries \/ Cardinality(Ahead(F, e)) >= n
    <2>1. e \in Matching \cup SnapshotEntries
        BY <1>2, <1>11 DEF Paging, Entries
    <2>2. Cardinality(Ahead(Matching \cup SnapshotEntries, e)) >= o
        BY <1>1, <1>2, <1>11 DEF Paging, Entries, Awaited, o
    <2> QED
        BY <1>3, <1>5, <1>6, <1>7, <1>8, <2>1, <2>2, FirstQuery
<1>12. Held(Range(reader.jobs))'
    BY <1>3, <1>4, <1>9, <1>10, <1>11 DEF Held, Waits, Ahead, Before, n
<1>13. Paging'
    BY <1>2, <1>3, <1>4, <1>12 DEF Paging
<1> QED
    BY <1>3, <1>4, <1>13 DEF HInv

\* The second query, the merge and the slice.
LEMMA SnapshotsPages ==
    ASSUME IInv, HInv, list_snapshots
    PROVE  HInv'
<1> DEFINE F == Range(reader.jobs)
           S == SnapshotEntries
           G == Range(Query(S))
           o == reader.offset
           n == Limit + o
           page == Slice(Sorted(F \cup G), o + 1, o + Limit)
<1>1. /\ reader.pc = "snapshots" /\ Read
      /\ reader' = [reader EXCEPT !.got = @ \cup Range(page), !.jobs = <<>>, !.offset = @ + Limit,
                                  !.pc = IF Len(page) < Limit THEN "done" ELSE "jobs"]
    BY DEF list_snapshots
<1>2. Stamped /\ Paging
    BY <1>1 DEF HInv
<1>3. Limit \in Nat /\ o \in Nat
    BY <1>2, HistoryAssumption DEF Paging, ReaderShape
<1>4. /\ reader'.pc = (IF Len(page) < Limit THEN "done" ELSE "jobs")
      /\ reader'.filter = reader.filter /\ reader'.got = reader.got \cup Range(page)
      /\ reader'.began = reader.began /\ reader'.offset = o + Limit /\ ReaderShape'
    <2> DEFINE next == IF Len(page) < Limit THEN "done" ELSE "jobs"
               more == reader.got \cup Range(page)
               to == o + Limit
    <2>1. /\ reader' = [reader EXCEPT !.got = more, !.jobs = <<>>, !.offset = to, !.pc = next]
          /\ to \in Nat
        BY <1>1, <1>3
    <2> HIDE DEF page, next, more, to
    <2>2. /\ reader'.pc = next /\ reader'.filter = reader.filter /\ reader'.got = more
          /\ reader'.began = reader.began /\ reader'.offset = to /\ ReaderShape'
        BY <1>2, <2>1 DEF Paging, ReaderShape
    <2> QED
        BY <2>2 DEF next, more, to
<1>5. /\ Stamped' /\ Entries' = Entries /\ Matching' = Matching /\ SnapshotEntries' = S
    BY <1>1, <1>2, <1>4, ReadStays
<1>6. IsFiniteSet(Entries) /\ StrictOrder(Newer(Entries), Entries)
    BY <1>2, HistoryIsOrdered DEF IInv
<1>7. /\ F \subseteq Matching
      /\ \A e \in reader.began \ reader.got :
           /\ Cardinality(Ahead(F \cup S, e)) >= o
           /\ e \in F \cup S \/ Cardinality(Ahead(F, e)) >= n
    BY <1>1, <1>2 DEF Paging, Held, Waits
<1>8. G = Range(Slice(Sorted(S), 1, n))
    BY DEF Query
<1>9. reader.began \subseteq Entries /\ reader.got \subseteq Entries
    BY <1>2 DEF Paging
<1>10. page = Slice(Sorted(F \cup G), o + 1, o + Limit) /\ n = Limit + o /\ n \in Nat
    BY <1>3
<1>11. F \in SUBSET Entries /\ S \in SUBSET Entries /\ F \cup S \subseteq Entries
    BY <1>7 DEF Entries
<1> HIDE DEF F, S, G, o, n, page
<1>12. Range(page) \subseteq F \cup S
    BY <1>3, <1>6, <1>8, <1>10, <1>11, PageIsRead
<1>13. ASSUME NEW e \in reader'.began \ reader'.got
       PROVE  Len(page) = Limit /\ Cardinality(Ahead(Entries, e)) >= o + Limit
    <2>1. e \in reader.began \ reader.got /\ e \in Entries /\ e \notin Range(page)
        BY <1>4, <1>9
    <2>2. /\ Cardinality(Ahead(F \cup S, e)) >= o
          /\ e \in F \cup S \/ Cardinality(Ahead(F, e)) >= n
        BY <1>7, <2>1
    <2>3. \/ e \in Range(page)
          \/ Len(page) = Limit /\ Cardinality(Ahead(F \cup S, e)) >= n
        <3>1. /\ IsFiniteSet(Entries) /\ StrictOrder(Newer(Entries), Entries)
              /\ F \in SUBSET Entries /\ S \in SUBSET Entries /\ o \in Nat /\ Limit \in Nat
              /\ n = Limit + o /\ e \in Entries
            BY <1>3, <1>6, <1>10, <1>11, <2>1
        <3>2. page = MergedPage(F, S, o, Limit)
            BY <1>8, <1>10 DEF MergedPage
        <3>3. /\ Cardinality(Ahead(F \cup S, e)) >= o
              /\ e \in F \cup S \/ Cardinality(Ahead(F, e)) >= Limit + o
            BY <2>2, <3>1
        <3>4. \/ e \in Range(page)
              \/ Len(page) = Limit /\ Cardinality(Ahead(F \cup S, e)) >= Limit + o
            <4>1. Waits(F, S, o, Limit, e)
                BY <3>3 DEF Waits
            <4>2. Shown(F, S, o, Limit, e)
                BY <3>1, <4>1, NextPage
            <4> QED
                BY <3>2, <4>2 DEF Shown
        <3> QED
            BY <3>1, <3>4
    <2>4. Cardinality(Ahead(Entries, e)) >= n
        BY <1>6, <1>10, <1>11, <2>1, <2>3, AwaitedStays
    <2>5. n = o + Limit
        BY <1>3, <1>10
    <2> QED
        BY <2>1, <2>3, <2>4, <2>5
<1>14. \A e \in reader'.began \ reader'.got : Awaited(Entries, e)'
    BY <1>4, <1>5, <1>13 DEF Awaited, Ahead, Before
<1>15. reader'.pc = "done" => reader'.began \subseteq reader'.got
    <2> SUFFICES ASSUME Len(page) < Limit, NEW e \in reader'.began \ reader'.got PROVE FALSE
        BY <1>4
    <2> QED
        BY <1>3, <1>13
<1>16. reader'.began \subseteq Entries' /\ reader'.got \subseteq Entries'
    BY <1>4, <1>5, <1>9, <1>11, <1>12
<1>17. reader'.pc \in {"done", "jobs"}
    BY <1>4
<1>18. Paging'
    BY <1>4, <1>14, <1>15, <1>16, <1>17 DEF Paging
<1> QED
    BY <1>5, <1>17, <1>18 DEF HInv

LEMMA InitHInv == HistoryInit => HInv
<1> SUFFICES ASSUME HistoryInit PROVE HInv
    OBVIOUS
<1>1. /\ ReaderShape /\ reader.began = {} /\ reader.got = {} /\ reader.offset = 0
      /\ reader.pc \in {"off", "idle"}
    BY DEF HistoryInit, ReaderShape
<1>2. Stamped
    BY DEF HistoryInit, Init, Stamped, InApi
<1>3. Paging
    BY <1>1 DEF Paging
<1> QED
    BY <1>1, <1>2, <1>3 DEF HInv

LEMMA NextHInv == IInv /\ IInv' /\ HInv /\ [HistoryNext]_historyVars => HInv'
<1> SUFFICES ASSUME IInv, IInv', HInv, [HistoryNext]_historyVars PROVE HInv'
    OBVIOUS
<1>1. CASE UNCHANGED historyVars
    <2>1. reader' = reader /\ UNCHANGED <<rows, parts, pc>> /\ UNCHANGED <<clock, created, stamps>>
        BY <1>1 DEF historyVars, vars, dbVars, postVars
    <2>2. Stamped' <=> Stamped
        BY <2>1 DEF Stamped, InApi
    <2>3. /\ Matching' = Matching /\ SnapshotEntries' = SnapshotEntries /\ Entries' = Entries
        BY <2>1 DEF Entries, Matching, SnapshotEntries, JobEntries, Scored, Entry
    <2>4. Paging' <=> Paging
        BY <2>1, <2>3 DEF Paging, ReaderShape, Held, Awaited, Waits, Ahead, Before
    <2> QED
        BY <2>1, <2>2, <2>4 DEF HInv
<1> QED
    BY <1>1, SubmitPages, OpenPages, JobsPages, SnapshotsPages DEF HistoryNext

\* GET of one job and GET /evaluations: a poll that says completed has everything, and
\* a reader who pages to the end, in two queries a page and while rows are committed
\* anywhere in the order, is shown all that was there when it began and nothing that
\* is not there, for every limit, plan and number of clients.
THEOREM ReadsStayConsistent == HistorySpec => []ReadsAreConsistent
<1>1. HistoryInit => IInv /\ HInv
    BY InitIInv, InitHInv DEF HistoryInit
<1>2. IInv /\ HInv /\ [HistoryNext]_historyVars => IInv' /\ HInv'
    <2>1. [HistoryNext]_historyVars => [Next]_vars
        BY DEF HistoryNext, Submit, open_list, list_jobs, list_snapshots, Read, historyVars
    <2> QED
        BY <2>1, NextIInv, NextHInv
<1>3. IInv /\ HInv => ReadsAreConsistent
    <2> SUFFICES ASSUME IInv, HInv PROVE ReadsAreConsistent
        OBVIOUS
    <2>1. PagesMissNothing
        BY DEF HInv, Paging, Entries, Matching, PagesMissNothing
    <2> QED
        BY <2>1, SeenIsWhole DEF ReadsAreConsistent
<1> QED
    BY <1>1, <1>2, <1>3, PTL DEF HistorySpec

=============================================================================
