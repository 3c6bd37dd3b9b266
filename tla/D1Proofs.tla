----------------------------- MODULE D1Proofs -----------------------------
(***************************************************************************)
(* Proofs about the D1 backend, where every statement is a step of its     *)
(* own: the job ledger, the rate limits, the lease inbox and the sync run, *)
(* for any constants and any number of overlapping requests; and that      *)
(* requests which nobody overtakes do what the PostgreSQL transactions do. *)
(***************************************************************************)
EXTENDS D1SyncRun, D1RateLimits, D1Inbox, ControlPlaneProofs, TLAPS

(***************************************************************************)
(* The job ledger of D1, for any keys, job ids and overlapping requests    *)
(***************************************************************************)

\* Finishing requests have read an open row of their job.
Finishing == {"deferred", "uncertain", "done", "failed", "dead", "buried"}

\* What a request that is about to write has read, and may rely on: a row that
\* is there never goes away, nor comes an envelope back to it.
Requested(c) ==
    LET r == request[c]
    IN  r.op # "none" =>
          /\ r.job \in JobIds
          /\ r.op = "claim" => Claimable(r.seen)
          /\ r.op \in Finishing => r.seen.status \in Open /\ r.seen.job = r.job
          /\ r.op \in {"failed", "dead", "buried"} => r.seen.failures < MaxFailures
          /\ r.op = "failed" => ~Fatal(r.seen, FALSE)
          /\ r.op \in {"dead", "buried"} => jobs[KeyOf[r.job]].status # "absent"
          /\ r.op = "buried" /\ ~r.linked => envelopes[r.job] = "none"

\* A key without a row has no envelope, and a row names a job.
RowsAndEnvelopes ==
    /\ \A j \in JobIds : jobs[KeyOf[j]].status = "absent" => envelopes[j] = "none"
    /\ \A k \in Keys : jobs[k].status = "absent" <=> jobs[k].job = NoJob
    /\ \A j \in JobIds : envelopes[j] = "dead" => letters[j] = "linked"

D1Inv ==
    /\ D1TypeOK /\ DeadHasLetter /\ RowsAndEnvelopes
    /\ \A c \in Clients : Requested(c)

LEMMA NoRequestRow ==
    NoRequest \in Request /\ NoRequest.op = "none"
<1>1. NoJobRow \in D1Row
  BY LedgerAssumption, D1Assumption DEF NoJobRow, D1Row
<1> QED  BY <1>1 DEF NoRequest, Request

LEMMA D1First == D1Init => D1Inv
<1> SUFFICES ASSUME D1Init PROVE D1Inv  OBVIOUS
<1>1. NoJobRow \in D1Row /\ NoJobRow.status = "absent" /\ NoJobRow.job = NoJob
  BY LedgerAssumption, D1Assumption DEF NoJobRow, D1Row
<1>2. /\ \A k \in Keys : jobs[k] = NoJobRow
      /\ \A j \in JobIds : envelopes[j] = "none" /\ letters[j] = "none"
      /\ \A c \in Clients : request[c] = NoRequest
  BY DEF D1Init, JobInit
<1>3. D1TypeOK  BY <1>1, NoRequestRow DEF D1TypeOK, D1Init, JobInit
<1>4. DeadHasLetter  BY <1>1, <1>2 DEF DeadHasLetter
<1>5. RowsAndEnvelopes  BY <1>1, <1>2, LedgerAssumption DEF RowsAndEnvelopes
<1>6. \A c \in Clients : Requested(c)  BY <1>2, NoRequestRow DEF Requested
<1> QED  BY <1>3, <1>4, <1>5, <1>6 DEF D1Inv

\* A read gives the request a row, and changes nothing else.
LEMMA BeginKeeps ==
    ASSUME D1Inv, NEW c \in Clients, NEW op \in {"claim", "replay"} \cup Finishing,
           NEW j \in JobIds, Begin(c, op, j), op # "buried",
           op = "claim" => Claimable(jobs[KeyOf[j]]),
           op \in Finishing => Opened(j),
           op \in {"failed", "dead"} => jobs[KeyOf[j]].failures < MaxFailures,
           op = "failed" => ~Fatal(jobs[KeyOf[j]], FALSE)
    PROVE  D1Inv'
<1> DEFINE mine == [op |-> op, job |-> j, seen |-> jobs[KeyOf[j]], linked |-> FALSE]
<1>1. KeyOf[j] \in Keys /\ jobs[KeyOf[j]] \in D1Row
  BY LedgerAssumption DEF D1Inv, D1TypeOK
<1>2. /\ mine \in Request /\ mine.op = op /\ mine.job = j /\ mine.seen = jobs[KeyOf[j]]
  BY <1>1 DEF Request, Finishing
<1> HIDE DEF mine
<1>3. request' = [request EXCEPT ![c] = mine] /\ UNCHANGED ledgerVars
  BY DEF Begin, mine
<1>4. D1TypeOK'  BY <1>2, <1>3 DEF D1Inv, D1TypeOK, ledgerVars
<1>5. DeadHasLetter' /\ RowsAndEnvelopes'
  BY <1>3 DEF D1Inv, DeadHasLetter, RowsAndEnvelopes, ledgerVars
<1>6. ASSUME NEW d \in Clients PROVE Requested(d)'
  <2>1. jobs' = jobs /\ envelopes' = envelopes  BY <1>3 DEF ledgerVars
  <2>2. CASE d # c
    <3>1. request'[d] = request[d]  BY <1>3, <2>2 DEF D1Inv, D1TypeOK
    <3> QED  BY <2>1, <3>1 DEF D1Inv, Requested, Claimable, Fatal, Duplicate, Waiting, Busy,
                               IsStale
  <2>3. CASE d = c
    <3>1. request'[d] = mine  BY <1>3, <2>3 DEF D1Inv, D1TypeOK
    <3>2. op \in Finishing =>
             /\ jobs[KeyOf[j]].status \in Open /\ jobs[KeyOf[j]].job = j
             /\ jobs[KeyOf[j]].status # "absent"
      BY DEF Opened, HasRow, Open
    <3> QED  BY <1>2, <2>1, <3>1, <3>2 DEF Requested, Finishing, Claimable, Fatal, Duplicate,
                                           Waiting, Busy, IsStale
  <2> QED  BY <2>2, <2>3
<1> QED  BY <1>4, <1>5, <1>6 DEF D1Inv

\* What a write may do to the row and the envelope of its key: a row that was
\* there stays, an envelope comes only with it, and a dead row, or envelope,
\* has its letter.
LEMMA WriteKeeps ==
    ASSUME D1Inv, NEW c \in Clients, request[c].op # "none", End(c),
           NEW j \in JobIds,
           NEW row \in D1Row, jobs' = [jobs EXCEPT ![KeyOf[j]] = row],
           NEW env \in {"none", "active", "dead", "uncertain"},
           envelopes' = [envelopes EXCEPT ![j] = env],
           NEW letter \in {"none", "linked", "unlinked"},
           letters' = [letters EXCEPT ![j] = letter],
           row.status = "absent" <=> row.job = NoJob,
           row.status = "absent" => jobs[KeyOf[j]].status = "absent" /\ env = "none",
           env # "none" => envelopes[j] # "none" \/ jobs[KeyOf[j]].status = "absent",
           letters[j] # "none" => letter # "none",
           row.status = "dead" => (row.job = j /\ letter # "none") \/ row = jobs[KeyOf[j]],
           env = "dead" => letter = "linked"
    PROVE  D1Inv'
<1> DEFINE k == KeyOf[j]
<1>1. /\ k \in Keys /\ D1TypeOK /\ DeadHasLetter /\ RowsAndEnvelopes
      /\ \A i \in JobIds : KeyOf[i] \in Keys
      /\ \A d \in Clients : Requested(d)
  BY LedgerAssumption DEF D1Inv
<1>2. /\ jobs' \in [Keys -> D1Row]
      /\ \A l \in Keys : jobs'[l] = IF l = k THEN row ELSE jobs[l]
      /\ envelopes' \in [JobIds -> {"none", "active", "dead", "uncertain"}]
      /\ letters' \in [JobIds -> {"none", "linked", "unlinked"}]
      /\ \A i \in JobIds : /\ envelopes'[i] = IF i = j THEN env ELSE envelopes[i]
                           /\ letters'[i] = IF i = j THEN letter ELSE letters[i]
      /\ request' \in [Clients -> Request]
      /\ \A d \in Clients : request'[d] = IF d = c THEN NoRequest ELSE request[d]
  BY <1>1, NoRequestRow DEF D1TypeOK, End
<1> HIDE DEF k
<1>3. D1TypeOK'  BY <1>2 DEF D1TypeOK
<1>4. /\ jobs[k].status # "absent" => row.status # "absent"
      /\ \A i \in JobIds : KeyOf[i] = k /\ jobs[k].status = "absent" => envelopes[i] = "none"
      /\ envelopes[j] # "none" \/ jobs[k].status = "absent" \/ env = "none"
      /\ k = KeyOf[j]
  BY <1>1 DEF RowsAndEnvelopes, k
<1>5. DeadHasLetter'
  <2>1. ASSUME NEW i \in JobIds, NEW h \in JobIds, KeyOf[i] = KeyOf[h],
               envelopes'[i] # "none", envelopes'[h] # "none"
        PROVE  i = h
    <3>1. \A x, y \in JobIds : KeyOf[x] = KeyOf[y] /\ envelopes[x] # "none"
                                 /\ envelopes[y] # "none" => x = y
      BY <1>1 DEF DeadHasLetter
    <3> QED  BY <1>2, <1>4, <2>1, <3>1
  <2>2. ASSUME NEW l \in Keys, jobs'[l].status = "dead"
        PROVE  letters'[jobs'[l].job] # "none"
    <3>0. /\ jobs[l].status = "dead" => letters[jobs[l].job] # "none" /\ jobs[l].job \in JobIds
          /\ row.status = "dead" => (row.job = j /\ letter # "none") \/ row = jobs[k]
      BY <1>1, <1>4 DEF DeadHasLetter, RowsAndEnvelopes, D1TypeOK, D1Row
    <3>1. CASE jobs'[l] = jobs[l]  BY <1>2, <2>2, <3>0, <3>1
    <3>2. CASE jobs'[l] # jobs[l]
      <4>1. l = k /\ jobs'[l] = row /\ row # jobs[k]  BY <1>2, <3>2
      <4>2. row.job = j /\ letter # "none"  BY <2>2, <3>0, <4>1
      <4> QED  BY <1>2, <4>1, <4>2
    <3> QED  BY <3>1, <3>2
  <2> QED  BY <2>1, <2>2 DEF DeadHasLetter
<1>6. RowsAndEnvelopes'
  <2>1. ASSUME NEW i \in JobIds, jobs'[KeyOf[i]].status = "absent"
        PROVE  envelopes'[i] = "none"
    <3>1. jobs[KeyOf[i]].status = "absent"  BY <1>1, <1>2, <1>4, <2>1
    <3>2. envelopes[i] = "none"  BY <1>1, <3>1 DEF RowsAndEnvelopes
    <3>3. i = j => row.status = "absent"  BY <1>1, <1>2, <1>4, <2>1
    <3> QED  BY <1>2, <3>2, <3>3
  <2>2. \A l \in Keys : jobs'[l].status = "absent" <=> jobs'[l].job = NoJob
    BY <1>1, <1>2 DEF RowsAndEnvelopes
  <2>3. \A i \in JobIds : envelopes'[i] = "dead" => letters'[i] = "linked"
    BY <1>1, <1>2 DEF RowsAndEnvelopes
  <2> QED  BY <2>1, <2>2, <2>3 DEF RowsAndEnvelopes
<1>7. ASSUME NEW d \in Clients PROVE Requested(d)'
  <2>1. CASE d = c  BY <1>2, <2>1, NoRequestRow DEF Requested
  <2>2. CASE d # c
    <3>1. Requested(d) /\ request'[d] = request[d]  BY <1>1, <1>2, <2>2
    <3>2. ASSUME request[d].op \in {"dead", "buried"}, request[d].op # "none"
          PROVE  /\ jobs'[KeyOf[request[d].job]].status # "absent"
                 /\ envelopes[request[d].job] = "none" => envelopes'[request[d].job] = "none"
      <4>1. request[d].job \in JobIds /\ jobs[KeyOf[request[d].job]].status # "absent"
        BY <3>1, <3>2 DEF Requested
      <4>2. jobs'[KeyOf[request[d].job]].status # "absent"  BY <1>1, <1>2, <1>4, <4>1
      <4>3. envelopes[request[d].job] = "none" => envelopes'[request[d].job] = "none"
        BY <1>2, <1>4, <4>1
      <4> QED  BY <4>2, <4>3
    <3> QED
      BY <3>1, <3>2 DEF Requested, Claimable, Fatal, Duplicate, Waiting, Busy, IsStale
  <2> QED  BY <2>1, <2>2
<1> QED  BY <1>3, <1>5, <1>6, <1>7 DEF D1Inv

\* UPDATE ... WHERE job_id = j: the row of the job, or nothing
LEMMA UpdatedJob ==
    ASSUME D1Inv, NEW j \in JobIds, NEW status \in Open \cup Terminal,
           NEW failures \in 0..MaxFailures, NEW wait \in 0..MaxWait,
           UpdateJob(j, status, failures, wait)
    PROVE  \E row \in D1Row :
              /\ jobs' = [jobs EXCEPT ![KeyOf[j]] = row]
              /\ row.status = "absent" <=> row.job = NoJob
              /\ row.status = "absent" => jobs[KeyOf[j]].status = "absent"
              /\ row = jobs[KeyOf[j]] \/ (row.job = j /\ row.status = status)
<1>1. /\ KeyOf[j] \in Keys /\ jobs[KeyOf[j]] \in D1Row /\ jobs \in [Keys -> D1Row]
      /\ jobs[KeyOf[j]].status = "absent" <=> jobs[KeyOf[j]].job = NoJob
      /\ j # NoJob
  BY LedgerAssumption DEF D1Inv, D1TypeOK, RowsAndEnvelopes
<1>2. CASE HasRow(j)
  <2>1. jobs' = [jobs EXCEPT ![KeyOf[j]] =
                    [jobs[KeyOf[j]] EXCEPT !.status = status, !.failures = failures,
                                           !.wait = wait, !.age = 0]]
    BY <1>2 DEF UpdateJob
  <2> DEFINE row == [jobs[KeyOf[j]] EXCEPT !.status = status, !.failures = failures,
                                           !.wait = wait, !.age = 0]
  <2> DEFINE one == [jobs[KeyOf[j]] EXCEPT !.status = status, !.failures = failures]
  <2>5. one \in D1Row /\ one.status = status /\ one.job = jobs[KeyOf[j]].job
    BY <1>1 DEF D1Row
  <2>6. 0 \in 0..(Stale + 1)  BY LedgerAssumption
  <2>7. row = [one EXCEPT !.wait = wait, !.age = 0]  BY <1>1 DEF D1Row
  <2> HIDE DEF one, row
  <2>2. row \in D1Row /\ row.status = status /\ row.job = jobs[KeyOf[j]].job
    BY <2>5, <2>6, <2>7 DEF D1Row
  <2>3. row.job = j /\ row.status # "absent"
    BY <1>2, <2>2 DEF HasRow, Open, Terminal
  <2>4. jobs' = [jobs EXCEPT ![KeyOf[j]] = row]  BY <2>1 DEF row
  <2> QED  BY <1>1, <2>2, <2>3, <2>4
<1>3. CASE ~HasRow(j)
  <2>1. jobs' = jobs  BY <1>3 DEF UpdateJob
  <2> DEFINE row == jobs[KeyOf[j]]
  <2>2. row \in D1Row /\ (row.status = "absent" <=> row.job = NoJob)  BY <1>1
  <2>3. jobs' = [jobs EXCEPT ![KeyOf[j]] = row]  BY <1>1, <2>1
  <2>4. row.status = "absent" => jobs[KeyOf[j]].status = "absent"  OBVIOUS
  <2>5. row = jobs[KeyOf[j]]  OBVIOUS
  <2> HIDE DEF row
  <2>6. row \in D1Row  BY <2>2
  <2> WITNESS row \in D1Row
  <2> QED  BY <2>2, <2>3, <2>4, <2>5, Zenon
<1> QED  BY <1>2, <1>3

\* The same of a write that leaves the dead letters alone.
LEMMA WriteKeepsLetters ==
    ASSUME D1Inv, NEW c \in Clients, request[c].op # "none", End(c),
           NEW j \in JobIds,
           NEW row \in D1Row, jobs' = [jobs EXCEPT ![KeyOf[j]] = row],
           NEW env \in {"none", "active", "dead", "uncertain"},
           envelopes' = [envelopes EXCEPT ![j] = env],
           letters' = letters,
           row.status = "absent" <=> row.job = NoJob,
           row.status = "absent" => jobs[KeyOf[j]].status = "absent" /\ env = "none",
           env # "none" => envelopes[j] # "none" \/ jobs[KeyOf[j]].status = "absent",
           row.status = "dead" => row = jobs[KeyOf[j]],
           env = "dead" => letters[j] = "linked"
    PROVE  D1Inv'
<1>1. PICK letter \in {"none", "linked", "unlinked"} : letters[j] = letter
  BY DEF D1Inv, D1TypeOK
<1>2. letters' = [letters EXCEPT ![j] = letter]  BY <1>1 DEF D1Inv, D1TypeOK
<1>3. letters[j] # "none" => letter # "none"  BY <1>1
<1>4. row.status = "dead" => (row.job = j /\ letter # "none") \/ row = jobs[KeyOf[j]]
  OBVIOUS
<1>5. env = "dead" => letter = "linked"  BY <1>1
<1> QED  BY ONLY D1Inv, c \in Clients, request[c].op # "none", End(c), j \in JobIds,
             row \in D1Row, jobs' = [jobs EXCEPT ![KeyOf[j]] = row],
             env \in {"none", "active", "dead", "uncertain"},
             envelopes' = [envelopes EXCEPT ![j] = env],
             letter \in {"none", "linked", "unlinked"},
             row.status = "absent" <=> row.job = NoJob,
             row.status = "absent" => jobs[KeyOf[j]].status = "absent" /\ env = "none",
             env # "none" => envelopes[j] # "none" \/ jobs[KeyOf[j]].status = "absent",
             <1>2, <1>3, <1>4, <1>5, WriteKeeps

LEMMA D1WriteStep ==
    ASSUME D1Inv, NEW c \in Clients, D1Write(c)
    PROVE  D1Inv'
<1> DEFINE j == request[c].job
           seen == request[c].seen
<1>0. /\ Requested(c) /\ jobs \in [Keys -> D1Row] /\ \A i \in JobIds : KeyOf[i] \in Keys
      /\ envelopes \in [JobIds -> {"none", "active", "dead", "uncertain"}]
      /\ letters \in [JobIds -> {"none", "linked", "unlinked"}]
      /\ request[c] \in Request /\ RowsAndEnvelopes /\ NoJob \notin JobIds
  BY LedgerAssumption DEF D1Inv, D1TypeOK
<1>1. CASE request[c].op = "none"
  BY <1>1 DEF D1Write, WriteClaim, WriteDeferred, WriteUncertain, WriteDone, WriteFailed,
              WriteDead, WriteReplay
<1>2. CASE request[c].op # "none"
  <2> HIDE DEF j, seen
  <2>0. j \in JobIds  BY <1>0, <1>2 DEF Requested, j
  <2>1. /\ jobs[KeyOf[j]] \in D1Row /\ KeyOf[j] \in Keys
        /\ envelopes[j] \in {"none", "active", "dead", "uncertain"}
        /\ letters[j] \in {"none", "linked", "unlinked"}
        /\ jobs[KeyOf[j]].failures \in 0..MaxFailures /\ jobs[KeyOf[j]].wait \in 0..MaxWait
        /\ seen.failures \in 0..MaxFailures /\ 0 \in 0..MaxWait
        /\ envelopes[j] = "dead" => letters[j] = "linked"
        /\ jobs[KeyOf[j]].status = "absent" => envelopes[j] = "none"
        /\ jobs[KeyOf[j]].status = "absent" <=> jobs[KeyOf[j]].job = NoJob
    BY <1>0, <2>0, LedgerAssumption DEF D1Row, Request, RowsAndEnvelopes, seen
  <2>2. CASE WriteClaim(c)
    <3> DEFINE claimed == [status |-> "processing", job |-> j,
                           failures |-> jobs[KeyOf[j]].failures, age |-> 0, wait |-> 0]
    <3>1. /\ claimed \in D1Row /\ claimed.status = "processing" /\ claimed.job = j
      <4>1. 0 \in 0..(Stale + 1)  BY LedgerAssumption
      <4> QED  BY <2>0, <2>1, <4>1 DEF D1Row, Open
    <3> HIDE DEF claimed
    <3>2. /\ letters' = letters /\ End(c)
          /\ \/ jobs' = [jobs EXCEPT ![KeyOf[j]] = claimed] /\ envelopes' = envelopes
             \/ /\ jobs' = [jobs EXCEPT ![KeyOf[j]] = claimed]
                /\ jobs[KeyOf[j]].status = "absent"
                /\ envelopes' = IF KeyOf[j] \in ArticleKeys
                                THEN [envelopes EXCEPT ![j] = "active"] ELSE envelopes
             \/ jobs' = jobs /\ envelopes' = envelopes
      BY <2>2 DEF WriteClaim, j, claimed
    <3>3. PICK row \in D1Row :
             /\ jobs' = [jobs EXCEPT ![KeyOf[j]] = row]
             /\ row = claimed \/ row = jobs[KeyOf[j]]
             /\ jobs[KeyOf[j]].status # "absent" => row.status # "absent"
      <4>1. CASE jobs' = [jobs EXCEPT ![KeyOf[j]] = claimed]  BY <3>1, <4>1
      <4>2. CASE jobs' = jobs
        <5>1. jobs' = [jobs EXCEPT ![KeyOf[j]] = jobs[KeyOf[j]]]  BY <1>0, <2>1, <4>2
        <5> QED  BY <2>1, <5>1
      <4> QED  BY <3>2, <4>1, <4>2
    <3>4. PICK env \in {"none", "active", "dead", "uncertain"} :
             /\ envelopes' = [envelopes EXCEPT ![j] = env]
             /\ \/ env = envelopes[j]
                \/ /\ env = "active" /\ jobs[KeyOf[j]].status = "absent"
                   /\ jobs' = [jobs EXCEPT ![KeyOf[j]] = claimed]
      <4>1. CASE envelopes' = envelopes
        <5>1. envelopes' = [envelopes EXCEPT ![j] = envelopes[j]]  BY <1>0, <2>0, <4>1
        <5> QED  BY <2>1, <5>1
      <4>2. CASE envelopes' # envelopes
        <5>1. /\ envelopes' = [envelopes EXCEPT ![j] = "active"]
              /\ jobs[KeyOf[j]].status = "absent"
              /\ jobs' = [jobs EXCEPT ![KeyOf[j]] = claimed]
          BY <3>2, <4>2
        <5> QED  BY <5>1
      <4> QED  BY <4>1, <4>2
    <3>5. jobs' = [jobs EXCEPT ![KeyOf[j]] = claimed] => row = claimed
      <4>1. /\ jobs'[KeyOf[j]] = row
            /\ jobs' = [jobs EXCEPT ![KeyOf[j]] = claimed] => jobs'[KeyOf[j]] = claimed
        BY <1>0, <2>1, <3>3
      <4> QED  BY <4>1
    <3>7. /\ row.status = "absent" <=> row.job = NoJob
          /\ row.status = "absent" => jobs[KeyOf[j]].status = "absent" /\ env = "none"
          /\ env # "none" => envelopes[j] # "none" \/ jobs[KeyOf[j]].status = "absent"
          /\ row.status = "dead" => row = jobs[KeyOf[j]]
          /\ env = "dead" => letters[j] = "linked"
      BY <1>0, <2>0, <2>1, <3>1, <3>3, <3>4, <3>5
    <3>8. letters' = letters /\ End(c)  BY <3>2
    <3>9. jobs' = [jobs EXCEPT ![KeyOf[j]] = row]  BY <3>3
    <3>10. envelopes' = [envelopes EXCEPT ![j] = env]  BY <3>4
    <3> QED  BY <1>2, <2>0, <3>7, <3>8, <3>9, <3>10, WriteKeepsLetters
  <2>3. ASSUME NEW status \in Open \cup Terminal, NEW failures \in 0..MaxFailures,
               NEW wait \in 0..MaxWait, UpdateJob(j, status, failures, wait), End(c),
               NEW env \in {"none", "active", "dead", "uncertain"},
               envelopes' = [envelopes EXCEPT ![j] = env],
               NEW letter \in {"none", "linked", "unlinked"},
               letters' = [letters EXCEPT ![j] = letter],
               env # "none" => envelopes[j] # "none",
               letters[j] # "none" => letter # "none",
               status = "dead" => letter # "none",
               env = "dead" => letter = "linked"
        PROVE  D1Inv'
    <3>1. PICK row \in D1Row :
             /\ jobs' = [jobs EXCEPT ![KeyOf[j]] = row]
             /\ row.status = "absent" <=> row.job = NoJob
             /\ row.status = "absent" => jobs[KeyOf[j]].status = "absent"
             /\ row = jobs[KeyOf[j]] \/ (row.job = j /\ row.status = status)
      BY <2>0, <2>3, UpdatedJob
    <3>2. /\ row.status = "absent" => jobs[KeyOf[j]].status = "absent" /\ env = "none"
          /\ row.status = "dead" => (row.job = j /\ letter # "none") \/ row = jobs[KeyOf[j]]
      BY <2>1, <2>3, <3>1
    <3> QED  BY <1>2, <2>0, <2>3, <3>1, <3>2, WriteKeeps
  <2>4. /\ envelopes = [envelopes EXCEPT ![j] = envelopes[j]]
        /\ letters = [letters EXCEPT ![j] = letters[j]]
    BY <1>0, <2>0
  <2>5. ASSUME NEW status \in {"dead", "uncertain"}, UpdateEnvelope(j, status)
        PROVE  \E env \in {"none", "active", "dead", "uncertain"} :
                  /\ envelopes' = [envelopes EXCEPT ![j] = env]
                  /\ env # "none" => envelopes[j] # "none"
                  /\ env = "none" \/ env = status
    BY <2>1, <2>4, <2>5 DEF UpdateEnvelope
  <2>6. {"deferred", "uncertain", "done", "failed", "dead"} \subseteq Open \cup Terminal
    BY DEF Open, Terminal
  <2>7. ASSUME NEW wait \in 0..MaxWait, WriteDeferred(c, wait) PROVE D1Inv'
    <3>1. /\ UpdateJob(j, "deferred", jobs[KeyOf[j]].failures, wait) /\ End(c)
          /\ envelopes' = envelopes /\ letters' = letters
      BY <2>7 DEF WriteDeferred, j
    <3> QED  BY <2>1, <2>3, <2>4, <2>6, <3>1
  <2>8. CASE WriteUncertain(c)
    <3>1. /\ UpdateJob(j, "uncertain", jobs[KeyOf[j]].failures, jobs[KeyOf[j]].wait) /\ End(c)
          /\ UpdateEnvelope(j, "uncertain") /\ letters' = letters
      BY <2>8 DEF WriteUncertain, j
    <3>2. PICK env \in {"none", "active", "dead", "uncertain"} :
                  /\ envelopes' = [envelopes EXCEPT ![j] = env]
                  /\ env # "none" => envelopes[j] # "none"
                  /\ env = "none" \/ env = "uncertain"
      BY <2>5, <3>1
    <3> QED  BY <2>1, <2>3, <2>4, <2>6, <3>1, <3>2
  <2>9. CASE WriteDone(c)
    <3>1. /\ UpdateJob(j, "done", jobs[KeyOf[j]].failures, 0) /\ End(c)
          /\ envelopes' = [envelopes EXCEPT ![j] = "none"] /\ letters' = letters
      BY <2>9 DEF WriteDone, j
    <3> QED  BY <2>1, <2>3, <2>4, <2>6, <3>1
  <2>10. request[c].op \in {"failed", "buried"} =>
            seen.failures + 1 \in 0..MaxFailures
    <3>1. ASSUME request[c].op \in {"failed", "buried"} PROVE seen.failures < MaxFailures
      BY <1>0, <1>2, <3>1 DEF Requested, seen
    <3>2. MaxFailures \in Nat /\ seen.failures \in Nat  BY <2>1, D1Assumption
    <3> QED  BY <3>1, <3>2
  <2>11. CASE WriteFailed(c)
    <3>1. /\ UpdateJob(j, "failed", seen.failures + 1, 0) /\ End(c)
          /\ envelopes' = envelopes /\ letters' = letters /\ request[c].op = "failed"
      BY <2>11 DEF WriteFailed, j, seen
    <3>2. PICK failures \in 0..MaxFailures : seen.failures + 1 = failures  BY <2>10, <3>1
    <3> QED  BY <2>1, <2>3, <2>4, <2>6, <3>1, <3>2
  <2>12. CASE WriteDead(c)
    <3>0. PICK letter \in {"linked", "unlinked"} :
             letter = (IF request[c].linked THEN "linked" ELSE "unlinked")
      OBVIOUS
    <3>1. /\ UpdateJob(j, "dead", seen.failures + 1, 0) /\ End(c)
          /\ UpdateEnvelope(j, "dead") /\ letters' = [letters EXCEPT ![j] = letter]
          /\ request[c].op = "buried"
      BY <2>12, <3>0 DEF WriteDead, j, seen
    <3>2. PICK failures \in 0..MaxFailures : seen.failures + 1 = failures  BY <2>10, <3>1
    <3>3. PICK env \in {"none", "active", "dead", "uncertain"} :
                  /\ envelopes' = [envelopes EXCEPT ![j] = env]
                  /\ env # "none" => envelopes[j] # "none"
                  /\ env = "none" \/ env = "dead"
      BY <2>5, <3>1
    <3>4. letter = "unlinked" => envelopes[j] = "none"
      BY <1>0, <1>2, <3>0, <3>1 DEF Requested, j
    <3>5. UpdateJob(j, "dead", failures, 0) /\ (env = "dead" => letter = "linked")
      BY <3>0, <3>1, <3>2, <3>3, <3>4
    <3> QED  BY <2>1, <2>3, <2>6, <3>0, <3>1, <3>3, <3>5
  <2>13. CASE WriteReplay(c)
    <3>1. /\ jobs' = IF HasRow(j) /\ jobs[KeyOf[j]].status = "dead"
                     THEN [jobs EXCEPT ![KeyOf[j]] =
                              [jobs[KeyOf[j]] EXCEPT !.status = "failed", !.failures = 0]]
                     ELSE jobs
          /\ envelopes' = IF envelopes[j] = "dead" THEN [envelopes EXCEPT ![j] = "active"]
                          ELSE envelopes
          /\ letters' = letters /\ End(c)
      BY <2>13 DEF WriteReplay, j
    <3> DEFINE revived == [jobs[KeyOf[j]] EXCEPT !.status = "failed", !.failures = 0]
    <3>2. revived \in D1Row /\ revived.status = "failed" /\ revived.job = jobs[KeyOf[j]].job
      <4>1. 0 \in 0..MaxFailures  BY D1Assumption
      <4>2. "failed" \in {"absent"} \cup Open \cup Terminal  BY DEF Open
      <4> QED  BY <2>1, <4>1, <4>2 DEF D1Row
    <3> HIDE DEF revived
    <3>3. PICK row \in D1Row :
             /\ jobs' = [jobs EXCEPT ![KeyOf[j]] = row]
             /\ \/ row = jobs[KeyOf[j]]
                \/ row = revived /\ jobs[KeyOf[j]].job = j
      <4>1. CASE HasRow(j) /\ jobs[KeyOf[j]].status = "dead"
        <5>1. jobs' = [jobs EXCEPT ![KeyOf[j]] = revived]  BY <3>1, <4>1 DEF revived
        <5> QED  BY <3>2, <4>1, <5>1 DEF HasRow
      <4>2. CASE ~(HasRow(j) /\ jobs[KeyOf[j]].status = "dead")
        <5>1. jobs' = [jobs EXCEPT ![KeyOf[j]] = jobs[KeyOf[j]]]  BY <1>0, <2>1, <3>1, <4>2
        <5> QED  BY <2>1, <5>1
      <4> QED  BY <4>1, <4>2
    <3>4. PICK env \in {"none", "active", "dead", "uncertain"} :
             /\ envelopes' = [envelopes EXCEPT ![j] = env]
             /\ env = envelopes[j] \/ (env = "active" /\ envelopes[j] = "dead")
      BY <2>1, <2>4, <3>1
    <3>5. /\ row.status = "absent" <=> row.job = NoJob
          /\ row.status = "absent" => jobs[KeyOf[j]].status = "absent" /\ env = "none"
          /\ env # "none" => envelopes[j] # "none" \/ jobs[KeyOf[j]].status = "absent"
          /\ row.status = "dead" => row = jobs[KeyOf[j]]
          /\ env = "dead" => letters[j] = "linked"
      BY <1>0, <2>0, <2>1, <3>2, <3>3, <3>4
    <3>6. letters' = letters /\ End(c)  BY <3>1
    <3>7. jobs' = [jobs EXCEPT ![KeyOf[j]] = row]  BY <3>3
    <3>8. envelopes' = [envelopes EXCEPT ![j] = env]  BY <3>4
    <3> QED  BY <1>2, <2>0, <3>5, <3>6, <3>7, <3>8, WriteKeepsLetters
  <2> QED  BY <2>2, <2>7, <2>8, <2>9, <2>11, <2>12, <2>13 DEF D1Write
<1> QED  BY <1>1, <1>2

LEMMA D1TickStep == ASSUME D1Inv, D1Tick PROVE D1Inv'
<1>1. \A k \in Keys : /\ jobs'[k] \in D1Row
                      /\ jobs'[k].status = jobs[k].status
                      /\ jobs'[k].job = jobs[k].job
  <2> SUFFICES ASSUME NEW k \in Keys
               PROVE  /\ Older(jobs[k]) \in D1Row
                      /\ Older(jobs[k]).status = jobs[k].status
                      /\ Older(jobs[k]).job = jobs[k].job
    BY DEF D1Tick, JobTick
  <2>1. jobs[k] \in D1Row  BY DEF D1Inv, D1TypeOK
  <2> DEFINE row  == jobs[k]
             age  == IF row.status = "processing" /\ ~IsStale(row) THEN row.age + 1 ELSE row.age
             wait == IF row.wait = 0 THEN 0 ELSE row.wait - 1
  <2>2. age \in 0..(Stale + 1)  BY <2>1, LedgerAssumption DEF IsStale, D1Row
  <2>3. wait \in 0..MaxWait  BY <2>1, LedgerAssumption DEF D1Row
  <2>4. Older(row) = [row EXCEPT !.age = age, !.wait = wait]  BY <2>1 DEF Older, D1Row
  <2> HIDE DEF row, age, wait
  <2> QED  BY <2>1, <2>2, <2>3, <2>4 DEF D1Row, row
<1>2. envelopes' = envelopes /\ letters' = letters /\ request' = request
  BY DEF D1Tick, JobTick
<1>3. /\ D1TypeOK /\ DeadHasLetter /\ RowsAndEnvelopes /\ \A d \in Clients : Requested(d)
      /\ \A j \in JobIds : KeyOf[j] \in Keys
  BY LedgerAssumption DEF D1Inv
<1>4. D1TypeOK'  BY <1>1, <1>2, <1>3 DEF D1Tick, JobTick, D1TypeOK
<1>5. DeadHasLetter'  BY <1>1, <1>2, <1>3 DEF DeadHasLetter
<1>6. RowsAndEnvelopes'  BY <1>1, <1>2, <1>3 DEF RowsAndEnvelopes
<1>7. ASSUME NEW d \in Clients PROVE Requested(d)'
  <2>1. Requested(d)  BY <1>3
  <2>2. request[d].job \in JobIds =>
           jobs'[KeyOf[request[d].job]].status = jobs[KeyOf[request[d].job]].status
    BY <1>1, <1>3
  <2> QED
    BY <1>2, <2>1, <2>2 DEF Requested, Claimable, Fatal, Duplicate, Waiting, Busy, IsStale
<1> QED  BY <1>4, <1>5, <1>6, <1>7 DEF D1Inv

\* The envelope is looked for while the row of the job is there, and remembered
\* as missing only when there is none.
LEMMA EnvelopeRead ==
    ASSUME D1Inv, NEW c \in Clients, ReadEnvelope(c)
    PROVE  D1Inv'
<1>0. /\ D1TypeOK /\ DeadHasLetter /\ RowsAndEnvelopes /\ \A d \in Clients : Requested(d)
      /\ request[c] \in Request /\ UNCHANGED ledgerVars
  BY DEF D1Inv, D1TypeOK, ReadEnvelope
<1>1. PICK linked \in BOOLEAN : (envelopes[request[c].job] # "none") = linked  OBVIOUS
<1> DEFINE mine == [request[c] EXCEPT !.op = "buried", !.linked = linked]
<1>2. /\ mine \in Request /\ mine.op = "buried" /\ mine.job = request[c].job
      /\ mine.seen = request[c].seen /\ mine.linked = linked
  BY <1>0 DEF Request
<1>3. request' = [request EXCEPT ![c] = mine] /\ request[c].op = "dead"
  BY <1>1 DEF ReadEnvelope
<1> HIDE DEF mine
<1>4. D1TypeOK'  BY <1>0, <1>2, <1>3 DEF D1TypeOK, ledgerVars
<1>5. DeadHasLetter' /\ RowsAndEnvelopes'
  BY <1>0 DEF DeadHasLetter, RowsAndEnvelopes, ledgerVars
<1>6. ASSUME NEW d \in Clients PROVE Requested(d)'
  <2>1. jobs' = jobs /\ envelopes' = envelopes  BY <1>0 DEF ledgerVars
  <2>2. CASE d # c
    <3>1. request'[d] = request[d]  BY <1>0, <1>3, <2>2 DEF D1TypeOK
    <3> QED  BY <1>0, <2>1, <3>1 DEF Requested, Claimable, Fatal, Duplicate, Waiting, Busy,
                                     IsStale
  <2>3. CASE d = c
    <3>1. request'[d] = mine  BY <1>0, <1>3, <2>3 DEF D1TypeOK
    <3>2. /\ request[c].job \in JobIds
          /\ request[c].seen.status \in Open /\ request[c].seen.job = request[c].job
          /\ request[c].seen.failures < MaxFailures
          /\ jobs[KeyOf[request[c].job]].status # "absent"
      BY <1>0, <1>3 DEF Requested, Finishing
    <3>3. ~linked => envelopes[request[c].job] = "none"  BY <1>1
    <3> QED  BY <1>2, <2>1, <3>1, <3>2, <3>3 DEF Requested
  <2> QED  BY <2>2, <2>3
<1> QED  BY <1>4, <1>5, <1>6 DEF D1Inv

LEMMA D1ReadStep ==
    ASSUME D1Inv, NEW c \in Clients, D1Read(c)
    PROVE  D1Inv'
<1>1. CASE ReadEnvelope(c)  BY <1>1, EnvelopeRead
<1>2. ASSUME NEW j \in JobIds, ReadToClaim(c, j) PROVE D1Inv'
  <2>1. Begin(c, "claim", j) /\ Claimable(jobs[KeyOf[j]])  BY <1>2 DEF ReadToClaim
  <2> QED  BY <1>2, <2>1, BeginKeeps DEF Finishing
<1>3. ASSUME NEW j \in JobIds, ReadToReplay(c, j) PROVE D1Inv'
  <2>1. Begin(c, "replay", j)  BY <1>3 DEF ReadToReplay
  <2> QED  BY <1>3, <2>1, BeginKeeps DEF Finishing
<1>4. ASSUME NEW j \in JobIds, NEW outcome \in Outcomes, ReadToFinish(c, j, outcome)
      PROVE  D1Inv'
  <2>1. Opened(j) /\ jobs[KeyOf[j]].failures < MaxFailures  BY <1>4 DEF ReadToFinish
  <2>2. CASE outcome \notin {"failed", "permanent"}
    <3>1. Begin(c, outcome, j) /\ outcome \in {"deferred", "uncertain", "done"}
      BY <1>4, <2>2 DEF ReadToFinish, Outcomes
    <3> QED  BY <2>1, <3>1, BeginKeeps DEF Finishing
  <2>3. CASE outcome \in {"failed", "permanent"}
    <3>1. CASE Fatal(jobs[KeyOf[j]], outcome = "permanent")
      <4>1. Begin(c, "dead", j)  BY <1>4, <2>3, <3>1 DEF ReadToFinish
      <4> QED  BY <2>1, <4>1, BeginKeeps DEF Finishing
    <3>2. CASE ~Fatal(jobs[KeyOf[j]], outcome = "permanent")
      <4>1. Begin(c, "failed", j)  BY <1>4, <2>3, <3>2 DEF ReadToFinish
      <4>2. ~Fatal(jobs[KeyOf[j]], FALSE)  BY <3>2 DEF Fatal
      <4> QED  BY <2>1, <4>1, <4>2, BeginKeeps DEF Finishing
    <3> QED  BY <3>1, <3>2
  <2> QED  BY <2>2, <2>3
<1> QED  BY <1>1, <1>2, <1>3, <1>4 DEF D1Read

LEMMA D1Step == D1Inv /\ [D1Next]_d1Vars => D1Inv'
<1> SUFFICES ASSUME D1Inv, [D1Next]_d1Vars PROVE D1Inv'  OBVIOUS
<1>1. CASE UNCHANGED d1Vars
  BY <1>1 DEF d1Vars, ledgerVars, D1Inv, D1TypeOK, DeadHasLetter, RowsAndEnvelopes,
              Requested, Claimable, Fatal, Duplicate, Waiting, Busy, IsStale
<1>2. CASE D1Tick  BY <1>2, D1TickStep
<1>3. ASSUME NEW c \in Clients, D1Read(c) \/ D1Write(c) PROVE D1Inv'
  BY <1>3, D1ReadStep, D1WriteStep
<1> QED  BY <1>1, <1>2, <1>3 DEF D1Next

\* However requests overlap, a key keeps at most one envelope and a dead row its
\* dead letter: no statement of claimJob, finishJob or replayDeadLetter takes a
\* row away, only the insert of a row brings an envelope, and one batch writes a
\* dead row with its letter.
THEOREM D1LedgerCorrect == D1Spec => []D1LedgerSafe
<1>1. D1Init => D1Inv  BY D1First
<1>2. D1Inv /\ [D1Next]_d1Vars => D1Inv'  BY D1Step
<1>3. D1Inv => D1LedgerSafe  BY DEF D1Inv, D1LedgerSafe
<1> QED  BY <1>1, <1>2, <1>3, PTL DEF D1Spec

\* The row a request has read and the row there is now, when nobody overtook it
LEMMA NotOvertaken ==
    ASSUME D1Inv, NEW c \in Clients, request[c].op # "none", Current(c),
           NEW j, request[c].job = j
    PROVE  /\ j \in JobIds /\ KeyOf[j] \in Keys /\ jobs[KeyOf[j]] \in D1Row
           /\ jobs[KeyOf[j]].status = request[c].seen.status
           /\ jobs[KeyOf[j]].job = request[c].seen.job
           /\ jobs[KeyOf[j]].failures = request[c].seen.failures
           /\ request[c].op = "claim" => Claimable(jobs[KeyOf[j]])
           /\ request[c].op \in Finishing => Opened(j)
<1> DEFINE row  == jobs[KeyOf[j]]
           seen == request[c].seen
<1>1. /\ j \in JobIds /\ KeyOf[j] \in Keys /\ row \in D1Row /\ seen \in D1Row /\ Requested(c)
  BY LedgerAssumption DEF D1Inv, D1TypeOK, Request, Requested
<1>2. /\ row.age >= seen.age /\ row.wait <= seen.wait
      /\ [row EXCEPT !.age = 0, !.wait = 0] = [seen EXCEPT !.age = 0, !.wait = 0]
  BY DEF Current
<1>3. /\ row.age \in Nat /\ seen.age \in Nat /\ row.wait \in Nat /\ seen.wait \in Nat
  BY <1>1, LedgerAssumption DEF D1Row
<1>4. /\ [row EXCEPT !.age = 0, !.wait = 0].status = row.status
      /\ [row EXCEPT !.age = 0, !.wait = 0].job = row.job
      /\ [row EXCEPT !.age = 0, !.wait = 0].failures = row.failures
      /\ [seen EXCEPT !.age = 0, !.wait = 0].status = seen.status
      /\ [seen EXCEPT !.age = 0, !.wait = 0].job = seen.job
      /\ [seen EXCEPT !.age = 0, !.wait = 0].failures = seen.failures
  BY <1>1 DEF D1Row
<1>5. row.status = seen.status /\ row.job = seen.job /\ row.failures = seen.failures
  BY <1>2, <1>4
<1>6. /\ request[c].op = "claim" => Claimable(seen)
      /\ request[c].op \in Finishing => seen.status \in Open /\ seen.job = j
  BY <1>1 DEF Requested
<1> HIDE DEF row, seen
<1>7. ASSUME Claimable(seen) PROVE Claimable(row)
  BY <1>2, <1>3, <1>5, <1>7, LedgerAssumption
  DEF Claimable, Duplicate, Waiting, Busy, IsStale
<1>8. request[c].op \in Finishing => Opened(j)  BY <1>5, <1>6 DEF Opened, HasRow, row
<1> QED  BY <1>1, <1>5, <1>6, <1>7, <1>8 DEF row, seen

\* To write the failures, or the wait, a row has is to leave them alone.
LEMMA RowWritten ==
    ASSUME NEW row \in D1Row, NEW status, NEW wait
    PROVE  /\ [row EXCEPT !.status = status, !.failures = row.failures, !.wait = wait,
                          !.age = 0]
                = [row EXCEPT !.status = status, !.wait = wait, !.age = 0]
           /\ [row EXCEPT !.status = status, !.wait = row.wait, !.age = 0]
                = [row EXCEPT !.status = status, !.age = 0]
  BY DEF D1Row

\* To write the failures a row had when it was read, and a status and a wait.
LEMMA KeptFailures ==
    ASSUME D1Inv, NEW c \in Clients, request[c].op # "none", Current(c),
           NEW status, NEW wait, Opened(request[c].job),
           UpdateJob(request[c].job, status, jobs[KeyOf[request[c].job]].failures, wait)
    PROVE  jobs' = [jobs EXCEPT ![KeyOf[request[c].job]] =
              [jobs[KeyOf[request[c].job]] EXCEPT !.status = status, !.wait = wait, !.age = 0]]
<1> DEFINE j == request[c].job
           row == jobs[KeyOf[j]]
<1>1. j \in JobIds /\ KeyOf[j] \in Keys /\ row \in D1Row /\ jobs \in [Keys -> D1Row]
  BY NotOvertaken DEF D1Inv, D1TypeOK
<1> QED  BY <1>1, RowWritten DEF UpdateJob, Opened

\* To write one failure more than a row had when it was read.
LEMMA CountedFailure ==
    ASSUME D1Inv, NEW c \in Clients, request[c].op # "none", Current(c),
           NEW status, Opened(request[c].job),
           UpdateJob(request[c].job, status, request[c].seen.failures + 1, 0)
    PROVE  jobs' = [jobs EXCEPT ![KeyOf[request[c].job]] =
              [@ EXCEPT !.status = status,
                        !.failures = jobs[KeyOf[request[c].job]].failures + 1,
                        !.wait = 0, !.age = 0]]
<1> DEFINE j == request[c].job
           row == jobs[KeyOf[j]]
<1>1. /\ j \in JobIds /\ KeyOf[j] \in Keys /\ row \in D1Row /\ jobs \in [Keys -> D1Row]
      /\ row.failures = request[c].seen.failures
  BY NotOvertaken DEF D1Inv, D1TypeOK
<1>2. row.job = j /\ HasRow(j)  BY DEF Opened, HasRow
<1> QED  BY <1>1, <1>2 DEF UpdateJob

\* The claim that nobody overtook is the claim of the PostgreSQL ledger.
LEMMA ClaimWritten ==
    ASSUME D1Inv, NEW c \in Clients, Current(c), WriteClaim(c)
    PROVE  ClaimJob(request[c].job) /\ request[c].op = "claim"
<1> DEFINE j == request[c].job
<1>1. request[c].op = "claim"  BY DEF WriteClaim
<1>2. /\ j \in JobIds /\ KeyOf[j] \in Keys /\ jobs[KeyOf[j]] \in D1Row
      /\ Claimable(jobs[KeyOf[j]])
      /\ jobs[KeyOf[j]].status = request[c].seen.status
  BY <1>1, NotOvertaken
<1>3. ClaimJob(j)  BY <1>1, <1>2 DEF WriteClaim, ClaimJob
<1> QED  BY <1>1, <1>3

\* So is the end of a job that is done,
LEMMA DoneWritten ==
    ASSUME D1Inv, NEW c \in Clients, Current(c), WriteDone(c)
    PROVE  FinishDone(request[c].job)
<1> DEFINE j == request[c].job
           row == jobs[KeyOf[j]]
<1>1. request[c].op # "none" /\ request[c].op \in Finishing  BY DEF WriteDone, Finishing
<1>2. row.failures = request[c].seen.failures /\ Opened(j)  BY <1>1, NotOvertaken
<1>3. jobs' = [jobs EXCEPT ![KeyOf[j]] =
                  [row EXCEPT !.status = "done", !.wait = 0, !.age = 0]]
  BY <1>1, <1>2, KeptFailures DEF WriteDone
<1> QED  BY <1>2, <1>3 DEF WriteDone, FinishDone

\* of a job that failed and may be retried,
LEMMA FailedWritten ==
    ASSUME D1Inv, NEW c \in Clients, Current(c), WriteFailed(c)
    PROVE  /\ FinishFailed(request[c].job, FALSE)
           /\ ~Fatal(jobs[KeyOf[request[c].job]], FALSE)
<1> DEFINE j == request[c].job
           row == jobs[KeyOf[j]]
<1>1. request[c].op = "failed" /\ request[c].op \in Finishing  BY DEF WriteFailed, Finishing
<1>2. row.failures = request[c].seen.failures /\ Opened(j)  BY <1>1, NotOvertaken
<1>3. ~Fatal(row, FALSE)  BY <1>1, <1>2 DEF D1Inv, Requested, Fatal
<1>4. jobs' = [jobs EXCEPT ![KeyOf[j]] =
                  [@ EXCEPT !.status = "failed", !.failures = row.failures + 1, !.wait = 0,
                            !.age = 0]]
  BY <1>1, <1>2, CountedFailure DEF WriteFailed
<1> QED  BY <1>2, <1>3, <1>4 DEF WriteFailed, FinishFailed

\* and of a job that goes to the dead letters.
LEMMA DeadWritten ==
    ASSUME D1Inv, NEW c \in Clients, Current(c), WriteDead(c)
    PROVE  FinishFailed(request[c].job, TRUE)
<1> DEFINE j == request[c].job
           row == jobs[KeyOf[j]]
<1>1. request[c].op = "buried" /\ request[c].op \in Finishing  BY DEF WriteDead, Finishing
<1>2. row.failures = request[c].seen.failures /\ Opened(j)  BY <1>1, NotOvertaken
<1>3. Fatal(row, TRUE)  BY DEF Fatal
<1>4. jobs' = [jobs EXCEPT ![KeyOf[j]] =
                  [@ EXCEPT !.status = "dead", !.failures = row.failures + 1, !.wait = 0,
                            !.age = 0]]
  BY <1>1, <1>2, CountedFailure DEF WriteDead
<1>5. request[c].linked = (envelopes[j] # "none")  BY <1>1 DEF Current
<1>6. /\ letters' = [letters EXCEPT ![j] =
                       IF envelopes[j] # "none" THEN "linked" ELSE "unlinked"]
      /\ envelopes' = IF envelopes[j] # "none"
                      THEN [envelopes EXCEPT ![j] = "dead"] ELSE envelopes
  BY <1>5 DEF WriteDead, UpdateEnvelope
<1> QED  BY <1>2, <1>3, <1>4, <1>6 DEF FinishFailed

\* With a write that nobody overtook the ledger takes a step of JobLedger, or none.
LEMMA WritesOfLedger ==
    ASSUME D1Inv, NEW c \in Clients, D1Write(c), Current(c)
    PROVE  JobNext \/ UNCHANGED ledgerVars
<1>1. CASE request[c].op = "none"
  BY <1>1 DEF D1Write, WriteClaim, WriteDeferred, WriteUncertain, WriteDone, WriteFailed,
              WriteDead, WriteReplay
<1>2. CASE request[c].op # "none"
  <2> DEFINE j == request[c].job
             row == jobs[KeyOf[j]]
  <2>1. /\ j \in JobIds /\ KeyOf[j] \in Keys /\ row \in D1Row
        /\ row.status = request[c].seen.status
        /\ row.failures = request[c].seen.failures
        /\ request[c].op = "claim" => Claimable(row)
        /\ request[c].op \in Finishing => Opened(j)
    BY <1>2, NotOvertaken
  <2>3. CASE WriteClaim(c)  BY <2>1, <2>3, ClaimWritten DEF JobNext
  <2>5. ASSUME NEW wait \in 0..MaxWait, WriteDeferred(c, wait) PROVE JobNext
    <3>1. Opened(j)  BY <2>1, <2>5 DEF WriteDeferred, Finishing
    <3>2. jobs' = [jobs EXCEPT ![KeyOf[j]] =
                      [row EXCEPT !.status = "deferred", !.wait = wait, !.age = 0]]
      BY <1>2, <2>1, <2>5, <3>1, KeptFailures DEF WriteDeferred
    <3>3. FinishDeferred(j, wait)  BY <2>5, <3>1, <3>2 DEF WriteDeferred, FinishDeferred
    <3> QED  BY <2>1, <3>3 DEF JobNext
  <2>6. CASE WriteUncertain(c)
    <3>1. Opened(j)  BY <2>1, <2>6 DEF WriteUncertain, Finishing
    <3>2. jobs' = [jobs EXCEPT ![KeyOf[j]] =
                      [row EXCEPT !.status = "uncertain", !.wait = row.wait, !.age = 0]]
      BY <1>2, <2>1, <2>6, <3>1, KeptFailures DEF WriteUncertain
    <3>3. jobs' = [jobs EXCEPT ![KeyOf[j]] = [row EXCEPT !.status = "uncertain", !.age = 0]]
      BY <2>1, <3>2, RowWritten
    <3>4. FinishUncertain(j)
      BY <2>6, <3>1, <3>3 DEF WriteUncertain, FinishUncertain, UpdateEnvelope
    <3> QED  BY <2>1, <3>4 DEF JobNext
  <2>7. CASE WriteDone(c)  BY <2>1, <2>7, DoneWritten DEF JobNext
  <2>8. CASE WriteFailed(c)  BY <2>1, <2>8, FailedWritten DEF JobNext
  <2>9. CASE WriteDead(c)  BY <2>1, <2>9, DeadWritten DEF JobNext
  <2>10. CASE WriteReplay(c)
    <3>1. Replayable(j)  BY <2>10 DEF WriteReplay, Current
    <3>2. ReviveDead(j)  BY <2>10, <3>1 DEF WriteReplay, ReviveDead, Replayable
    <3> QED  BY <2>1, <3>2 DEF JobNext
  <2> QED  BY <2>3, <2>5, <2>6, <2>7, <2>8, <2>9, <2>10 DEF D1Write
<1> QED  BY <1>1, <1>2

\* A request of the D1 backend that nobody overtook between its reads and its
\* write does to the job ledger what the PostgreSQL transaction does: its
\* separate statements implement JobLedger, for any number of requests.
THEOREM D1KeepsLedgerPromise == D1Spec => LedgerPromise
<1>1. D1Init => D1Inv  BY D1First
<1>2. D1Inv /\ [D1Next]_d1Vars => D1Inv'  BY D1Step
<1>3. D1Inv /\ [D1Next]_d1Vars
      => [(\A c \in Clients : request'[c] # request[c] => Current(c))
          => JobNext \/ UNCHANGED ledgerVars]_d1Vars
  <2> SUFFICES ASSUME D1Inv, [D1Next]_d1Vars,
                      \A c \in Clients : request'[c] # request[c] => Current(c)
               PROVE  JobNext \/ UNCHANGED ledgerVars
    OBVIOUS
  <2>1. CASE UNCHANGED d1Vars  BY <2>1 DEF d1Vars
  <2>2. CASE D1Tick  BY <2>2 DEF D1Tick, JobNext
  <2>3. ASSUME NEW c \in Clients, D1Read(c) PROVE UNCHANGED ledgerVars
    BY <2>3 DEF D1Read, ReadToClaim, ReadToFinish, ReadToReplay, ReadEnvelope, Begin
  <2>4. ASSUME NEW c \in Clients, D1Write(c) PROVE JobNext \/ UNCHANGED ledgerVars
    <3>1. End(c) /\ request[c].op # "none"
      BY <2>4 DEF D1Write, WriteClaim, WriteDeferred, WriteUncertain, WriteDone, WriteFailed,
                  WriteDead, WriteReplay
    <3>2. request'[c] = NoRequest  BY <3>1 DEF End, D1Inv, D1TypeOK
    <3>3. Current(c)  BY <3>1, <3>2, NoRequestRow
    <3> QED  BY <2>4, <3>3, WritesOfLedger
  <2> QED  BY <2>1, <2>2, <2>3, <2>4 DEF D1Next
<1> QED  BY <1>1, <1>2, <1>3, PTL DEF D1Spec, LedgerPromise

-----------------------------------------------------------------------------
(***************************************************************************)
(* The rate limits of D1, for any scopes, limits and overlapping requests. *)
(* A request that is never late decides and writes at one time, so what it *)
(* decided still holds of what it read; and the version of the batch tells *)
(* whether that is what is there.                                          *)
(***************************************************************************)
Planned == [step : {"none", "insert", "update", "entries"}, row : Row, expires : Nat,
            seen : Nat, entries : [Batched -> Entry], attempts : Nat]

\* what a request is about to write is what its transaction would have written
\* when it read
Promised(c) ==
    LET p == pending[c]
        s == calls[c].scope
    IN
    /\ p.step \in {"insert", "update"} =>
          /\ calls[c].phase = "single"
          /\ p.expires = now + Length[s]
          /\ p.step = "update" <=> Live(p.row)
          /\ ~Full(s, p.row)
    /\ p.step = "entries" =>
          /\ calls[c].phase = "batch"
          /\ p.seen <= version
          /\ p.seen = version =>
                /\ Refusing(batch, Wanted(c)) = {}
                /\ p.entries = NextEntries(batch, Wanted(c))

\* a call is a record of these fields
CallRecord(r) == r = [phase |-> r.phase, at |-> r.at, scope |-> r.scope, until |-> r.until,
                      refusing |-> r.refusing]

D1RateInv ==
    /\ BatchInv /\ EntriesCountGrants
    /\ \A c \in Callers : CallRecord(calls[c])
    /\ version \in Nat
    /\ pending \in [Callers -> Planned]
    /\ \A c \in Callers : Promised(c)

LEMMA NoWritePlanned == NoWrite \in Planned /\ NoWrite.step = "none"
<1>1. NoBucket \in Row  BY DEF NoBucket, Row
<1>2. \A s \in Batched : NoEntry \in Entry
  <2>1. 0 \in Times  BY RateAssumption DEF Times
  <2> QED  BY <2>1, BucketFacts DEF NoEntry, Entry, Scopes
<1>3. [s \in Batched |-> NoEntry] \in [Batched -> Entry]  BY <1>2
<1> HIDE DEF NoEntry
<1> QED  BY <1>1, <1>3 DEF NoWrite, Planned

LEMMA D1RateFirst == D1RateInit => D1RateInv
<1> SUFFICES ASSUME D1RateInit PROVE D1RateInv  OBVIOUS
<1>1. BatchInv  BY InitInv DEF D1RateInit
<1>2. EntriesCountGrants  BY DEF D1RateInit, RateInit, EntriesCountGrants, NoEntry
<1>3. version \in Nat /\ pending \in [Callers -> Planned]
  BY NoWritePlanned DEF D1RateInit
<1>4. \A c \in Callers : Promised(c)  BY NoWritePlanned DEF D1RateInit, Promised
<1>5. \A c \in Callers : CallRecord(calls[c])
  BY DEF D1RateInit, RateInit, NoCall, CallRecord
<1> QED  BY <1>1, <1>2, <1>3, <1>4, <1>5 DEF D1RateInv

\* Nobody is late: a request under way was sent at this time.
LEMMA Punctual ==
    ASSUME MaxLate = 0, D1RateInv, NEW c \in Callers, UnderWay(c)
    PROVE  calls[c].at = now /\ now \in Nat /\ \A s \in Scopes : Asked(c, s) = CurrentBucket(s)
<1>1. /\ calls[c].at \in Nat /\ now \in Nat
      /\ calls[c].at <= now /\ now <= calls[c].at + 0
  BY DEF D1RateInv, BatchInv, CallsInTime, Shape, Times
<1>2. calls[c].at = now  BY <1>1
<1> QED  BY <1>1, <1>2 DEF Asked, CurrentBucket

\* The steps that are those of RateLimits, and the two that are not: a single
\* limit is written over a row that may have changed, and a batch gives up.
LEMMA StepsOfRates ==
    ASSUME D1RateInv, [D1RateNext]_d1RateVars
    PROVE  \/ RateNext \/ UNCHANGED rateVars
           \/ \E c \in Callers : WriteSingle(c) \/ TryAgain(c)
<1>1. ASSUME NEW c \in Callers, D1Send(c) PROVE RateNext
  BY <1>1 DEF D1Send, RateNext
<1>2. ASSUME NEW c \in Callers, ReadSingle(c) PROVE RateNext \/ UNCHANGED rateVars
  <2> DEFINE s == calls[c].scope
             row == rows[s][Asked(c, s)]
  <2>1. CASE Full(s, row)
    <3>1. ConsumeSingle(c)  BY <1>2, <2>1 DEF ReadSingle, ConsumeSingle
    <3> QED  BY <3>1 DEF RateNext
  <2>2. CASE ~Full(s, row)  BY <1>2, <2>2 DEF ReadSingle, rateVars
  <2> QED  BY <2>1, <2>2
<1>3. ASSUME NEW c \in Callers, ReadBatch(c) PROVE RateNext \/ UNCHANGED rateVars
  <2>1. CASE Refusing(batch, Wanted(c)) # {}
    <3>1. ConsumeBatch(c)  BY <1>3, <2>1 DEF ReadBatch, ConsumeBatch, Wanted
    <3> QED  BY <3>1 DEF RateNext
  <2>2. CASE Refusing(batch, Wanted(c)) = {}  BY <1>3, <2>2 DEF ReadBatch, rateVars
  <2> QED  BY <2>1, <2>2
<1>4. ASSUME NEW c \in Callers, WriteBatch(c) PROVE RateNext
  <2>1. /\ calls[c].phase = "batch" /\ Refusing(batch, Wanted(c)) = {}
        /\ batch' = NextEntries(batch, Wanted(c))
    BY <1>4 DEF WriteBatch, Unchanged, D1RateInv, Promised
  <2>2. ConsumeBatch(c)  BY <1>4, <2>1 DEF WriteBatch, ConsumeBatch, Wanted
  <2> QED  BY <2>2 DEF RateNext
<1>5. CASE D1RateTick  BY <1>5 DEF D1RateTick, RateNext
<1>6. CASE UNCHANGED d1RateVars  BY <1>6 DEF d1RateVars
<1> QED  BY <1>1, <1>2, <1>3, <1>4, <1>5, <1>6 DEF D1RateNext

\* A single limit written over whatever the row has become leaves the batch, and
\* what was granted of it, alone.
LEMMA WriteSingleKeepsBatch ==
    ASSUME D1RateInv, NEW c \in Callers, WriteSingle(c)
    PROVE  BatchInv' /\ EntriesCountGrants'
<1> DEFINE s == calls[c].scope
           b == Asked(c, s)
           old == rows[s][b]
           fresh == IF pending[c].step = "update"
                    THEN [old EXCEPT !.count = pending[c].row.count + 1]
                    ELSE [count |-> 1, expires |-> pending[c].expires]
<1>1. /\ Shape /\ CallsInTime /\ FutureIsEmpty /\ EntriesCount /\ BatchLimitKept
      /\ EntriesCountGrants /\ Common
      /\ calls[c].phase = "single" /\ UnderWay(c) /\ pending[c] \in Planned
  BY DEF D1RateInv, BatchInv, Promised, WriteSingle, UnderWay, Common
<1>2. s \in Singles /\ s \in Scopes /\ s \notin Batched
  BY <1>1, RateAssumption DEF CallsInTime, Scopes
<1>3. b \in Buckets /\ ~Unseen(s, b)  BY <1>1, <1>2, AskedIsSeen
<1>4. old \in Row /\ pending[c].row.count + 1 \in Nat /\ pending[c].expires \in Nat
  BY <1>1, <1>2, <1>3 DEF Shape, Planned, Row
<1>5. fresh \in Row  BY <1>4 DEF Row
<1>6. /\ rows' = [rows EXCEPT ![s][b] = fresh]
      /\ CountGrants({s}, [x \in {s} |-> b]) /\ Answer(c)
      /\ now' = now /\ batch' = batch
  BY DEF WriteSingle
<1> HIDE DEF s, b, fresh, old
<1>7. /\ rows' \in [Singles -> [Buckets -> Row]]
      /\ \A t \in Singles : \A e \in Buckets :
            t # s \/ e # b => rows'[t][e] = rows[t][e]
  BY <1>1, <1>2, <1>3, <1>5, <1>6 DEF Shape
<1>8. /\ granted' \in [Scopes -> [Buckets -> Nat]]
      /\ \A t \in Scopes : \A e \in Buckets :
            t # s \/ e # b => granted'[t][e] = granted[t][e]
  BY <1>1, <1>6, GrantFacts
<1>9. /\ calls' = [d \in Callers |-> calls'[d]] /\ ~UnderWay(c)'
      /\ \A d \in Callers : d # c => calls'[d] = calls[d]
  BY <1>1, <1>6, CallEnded
<1>10. Shape'  BY <1>1, <1>6, <1>7, <1>8, <1>9 DEF Shape
<1>11. CallsInTime'  BY <1>1, <1>6, <1>9 DEF CallsInTime, UnderWay
<1>12. FutureIsEmpty'
  <2> SUFFICES ASSUME NEW t \in Scopes, NEW e \in Buckets, Unseen(t, e)
               PROVE  /\ granted'[t][e] = 0
                      /\ t \in Singles => rows'[t][e].count = 0
                      /\ t \in Batched => ~Existing(batch, t, e)
    BY <1>6 DEF FutureIsEmpty, Unseen, Existing
  <2>1. t # s \/ e # b  BY <1>3
  <2>2. /\ granted[t][e] = 0
        /\ t \in Singles => rows[t][e].count = 0
        /\ t \in Batched => ~Existing(batch, t, e)
    BY <1>1 DEF FutureIsEmpty
  <2> QED  BY <1>7, <1>8, <2>1, <2>2
<1>13. \A t \in Batched : t \in Scopes /\ t # s  BY <1>2 DEF Scopes
<1>14. \A t \in Batched : CurrentBucket(t) \in Buckets
  BY <1>1, BucketFacts DEF Shape, CurrentBucket, Scopes
<1>15. EntriesCount' /\ BatchLimitKept'
  BY <1>1, <1>6, <1>8, <1>13, <1>14
  DEF EntriesCount, BatchLimitKept, CurrentBucket, Existing
<1>16. EntriesCountGrants'
  BY <1>1, <1>6, <1>8, <1>13, <1>14 DEF EntriesCountGrants, CurrentBucket
<1> QED  BY <1>10, <1>11, <1>12, <1>15, <1>16 DEF BatchInv

\* Neither does a batch that starts over, or gives up.
LEMMA TryAgainKeepsBatch ==
    ASSUME D1RateInv, NEW c \in Callers, TryAgain(c)
    PROVE  BatchInv' /\ EntriesCountGrants'
<1>1. /\ Shape /\ CallsInTime /\ FutureIsEmpty /\ EntriesCount /\ BatchLimitKept
      /\ EntriesCountGrants
      /\ UNCHANGED <<now, rows, batch, granted>>
  BY DEF D1RateInv, BatchInv, TryAgain
<1>2. /\ calls' = [d \in Callers |-> calls'[d]]
      /\ \A d \in Callers : UnderWay(d)' => calls'[d] = calls[d]
  <2>1. CASE calls' = calls  BY <1>1, <2>1 DEF Shape
  <2>2. CASE calls' = [calls EXCEPT ![c].phase = "thrown"]
    <3>0. calls = [d \in Callers |-> calls[d]]  BY <1>1 DEF Shape
    <3>1. /\ calls' = [d \in Callers |-> calls'[d]]
          /\ \A d \in Callers : d # c => calls'[d] = calls[d]
      BY <2>2, <3>0
    <3>2. ~UnderWay(c)'
      <4>1. calls'[c] = [calls[c] EXCEPT !.phase = "thrown"]  BY <2>2, <3>0
      <4>2. CallRecord(calls[c])  BY DEF D1RateInv
      <4> QED  BY <4>1, <4>2 DEF UnderWay, CallRecord
    <3> QED  BY <3>1, <3>2
  <2> QED  BY <2>1, <2>2 DEF TryAgain
<1>3. Shape'  BY <1>1, <1>2 DEF Shape
<1>4. CallsInTime'  BY <1>1, <1>2 DEF CallsInTime, UnderWay
<1>5. FutureIsEmpty'  BY <1>1 DEF FutureIsEmpty, Unseen, Existing
<1>6. EntriesCount' /\ BatchLimitKept' /\ EntriesCountGrants'
  BY <1>1 DEF EntriesCount, BatchLimitKept, EntriesCountGrants, CurrentBucket, Existing
<1> QED  BY <1>3, <1>4, <1>5, <1>6 DEF BatchInv

\* Every call stays a record of these fields.
LEMMA CallsStayRecords ==
    ASSUME D1RateInv, [D1RateNext]_d1RateVars, NEW d \in Callers
    PROVE  CallRecord(calls'[d])
<1>1. CallRecord(calls[d]) /\ calls = [c \in Callers |-> calls[c]]
  BY DEF D1RateInv, BatchInv, Shape
<1>2. CASE calls' = calls  BY <1>1, <1>2
<1>3. ASSUME NEW c \in Callers, NEW x, calls' = [calls EXCEPT ![c] = x], CallRecord(x)
      PROVE  CallRecord(calls'[d])
  <2>1. calls'[d] = IF d = c THEN x ELSE calls[d]  BY <1>1, <1>3
  <2> QED  BY <1>1, <1>3, <2>1
<1>4. ASSUME NEW c \in Callers, D1Send(c) PROVE CallRecord(calls'[d])
  <2>1. PICK phase, s : phase \in {"single", "batch"} /\ Ask(c, phase, s)
    BY <1>4 DEF D1Send, SendSingle, SendBatch
  <2> DEFINE y == [NoCall EXCEPT !.phase = phase]
             z == [y EXCEPT !.at = now]
             x == [z EXCEPT !.scope = s]
  <2>2. PICK v : NoCall = [phase |-> "none", at |-> 0, scope |-> v, until |-> 0,
                           refusing |-> {}]
    BY DEF NoCall
  <2>3. [NoCall EXCEPT !.phase = phase, !.at = now, !.scope = s] = x  BY <2>2
  <2>4. y = [phase |-> phase, at |-> 0, scope |-> v, until |-> 0, refusing |-> {}]
    BY <2>2
  <2> HIDE DEF y
  <2>5. z = [phase |-> phase, at |-> now, scope |-> v, until |-> 0, refusing |-> {}]
    BY <2>4
  <2> HIDE DEF z
  <2>6. x = [phase |-> phase, at |-> now, scope |-> s, until |-> 0, refusing |-> {}]
    BY <2>5
  <2>7. calls' = [calls EXCEPT ![c] = x]  BY <2>1, <2>3 DEF Ask
  <2> HIDE DEF x
  <2> QED  BY <1>3, <2>6, <2>7 DEF CallRecord
<1>5. ASSUME NEW c \in Callers, Answer(c) PROVE CallRecord(calls'[d])
  <2>1. CallRecord(NoCall)  BY DEF CallRecord, NoCall
  <2> QED  BY <1>3, <1>5, <2>1 DEF Answer
<1>6. ASSUME NEW c \in Callers, NEW until, NEW refusing, Refuse(c, until, refusing)
      PROVE  CallRecord(calls'[d])
  <2> DEFINE x == [phase |-> "refused", at |-> calls[c].at, scope |-> calls[c].scope,
                   until |-> until, refusing |-> refusing]
  <2>1. CallRecord(x)  BY DEF CallRecord
  <2>2. calls' = [calls EXCEPT ![c] = x]  BY <1>1, <1>6 DEF Refuse
  <2> HIDE DEF x
  <2> QED  BY <1>3, <2>1, <2>2
<1>7. ASSUME NEW c \in Callers, calls' = [calls EXCEPT ![c].phase = "thrown"]
      PROVE  CallRecord(calls'[d])
  <2> DEFINE x == [phase |-> "thrown", at |-> calls[c].at, scope |-> calls[c].scope,
                   until |-> calls[c].until, refusing |-> calls[c].refusing]
  <2>1. CallRecord(x)  BY DEF CallRecord
  <2>2. calls' = [calls EXCEPT ![c] = [calls[c] EXCEPT !.phase = "thrown"]]  BY <1>1, <1>7
  <2>3. [calls[c] EXCEPT !.phase = "thrown"] = x
    <3>1. CallRecord(calls[c])  BY DEF D1RateInv
    <3> QED  BY <3>1 DEF CallRecord
  <2>4. calls' = [calls EXCEPT ![c] = x]  BY <2>2, <2>3
  <2> HIDE DEF x
  <2> QED  BY <1>3, <2>1, <2>4
<1>8. ASSUME NEW c \in Callers, ReadSingle(c) \/ ReadBatch(c) PROVE CallRecord(calls'[d])
  BY <1>2, <1>6, <1>8 DEF ReadSingle, ReadBatch
<1>9. ASSUME NEW c \in Callers, WriteSingle(c) \/ WriteBatch(c) PROVE CallRecord(calls'[d])
  BY <1>5, <1>9 DEF WriteSingle, WriteBatch
<1>10. ASSUME NEW c \in Callers, TryAgain(c) PROVE CallRecord(calls'[d])
  BY <1>2, <1>7, <1>10 DEF TryAgain
<1>11. CASE D1RateTick  BY <1>2, <1>11 DEF D1RateTick, RateTick
<1>12. CASE UNCHANGED d1RateVars  BY <1>2, <1>12 DEF d1RateVars, rateVars
<1> QED  BY <1>4, <1>8, <1>9, <1>10, <1>11, <1>12 DEF D1RateNext

\* An entry of the batch goes on counting exactly what was granted.
LEMMA GrantsStayCounted ==
    ASSUME MaxLate = 0, D1RateInv, RateNext
    PROVE  EntriesCountGrants'
<1>1. /\ Shape /\ CallsInTime /\ FutureIsEmpty /\ EntriesCount /\ EntriesCountGrants
      /\ Common /\ BatchInv
  BY DEF D1RateInv, BatchInv, Common
<1>2. ASSUME NEW c \in Callers, SendSingle(c) \/ SendBatch(c) PROVE EntriesCountGrants'
  BY <1>1, <1>2 DEF SendSingle, SendBatch, Ask, EntriesCountGrants
<1>3. ASSUME NEW c \in Callers, ConsumeSingle(c) PROVE EntriesCountGrants'
  <2> DEFINE r == calls[c].scope
  <2>1. UNCHANGED <<now, batch>> /\ r \in Singles
    BY <1>1, <1>3 DEF ConsumeSingle, CallsInTime, UnderWay
  <2>2. \A s \in Batched : s \in Scopes /\ s \notin {r} /\ CurrentBucket(s) \in Buckets
    BY <1>1, <2>1, RateAssumption, BucketFacts DEF Scopes, Shape, CurrentBucket
  <2>3. \A s \in Batched : granted'[s][CurrentBucket(s)] = granted[s][CurrentBucket(s)]
    <3>1. CASE granted' = granted  BY <3>1
    <3>2. CASE CountGrants({r}, [x \in {r} |-> Asked(c, r)])
      BY <1>1, <2>2, <3>2, GrantFacts
    <3> QED  BY <1>3, <3>1, <3>2 DEF ConsumeSingle
  <2> QED  BY <1>1, <2>1, <2>3 DEF EntriesCountGrants, CurrentBucket
<1>4. ASSUME NEW c \in Callers, ConsumeBatch(c) PROVE EntriesCountGrants'
  <2> DEFINE bucket == [s \in Batched |-> Asked(c, s)]
  <2>1. CASE Refusing(batch, bucket) # {}
    BY <1>1, <1>4, <2>1 DEF ConsumeBatch, EntriesCountGrants
  <2>2. CASE Refusing(batch, bucket) = {}
    <3>1. /\ batch' = NextEntries(batch, bucket) /\ CountGrants(Batched, bucket)
          /\ now' = now
      BY <1>4, <2>2 DEF ConsumeBatch
    <3>2. \A s \in Batched : bucket[s] = CurrentBucket(s) /\ s \in Scopes
      <4>1. UnderWay(c)  BY <1>4 DEF ConsumeBatch, UnderWay
      <4> QED  BY <4>1, Punctual DEF Scopes
    <3> HIDE DEF bucket
    <3> SUFFICES ASSUME NEW s \in Batched
                 PROVE  /\ batch'[s].bucket = CurrentBucket(s)
                        /\ batch'[s].count = granted'[s][CurrentBucket(s)]
      BY <3>1 DEF EntriesCountGrants, CurrentBucket
    <3>3. /\ batch[s] \in Entry /\ now \in Nat /\ now \in Times /\ s \in Scopes
          /\ CurrentBucket(s) \in Buckets
      BY <1>1, BucketFacts DEF Shape, Scopes, Times, CurrentBucket
    <3>4. granted'[s][CurrentBucket(s)] = granted[s][CurrentBucket(s)] + 1
      BY <1>1, <3>1, <3>2, <3>3, GrantFacts
    <3>5. /\ batch'[s].bucket = CurrentBucket(s)
          /\ batch'[s].count = Count(batch, s, CurrentBucket(s)) + 1
      BY <3>1, <3>2 DEF NextEntries
    <3>6. Count(batch, s, CurrentBucket(s)) = granted[s][CurrentBucket(s)]
      <4>1. CASE Existing(batch, s, CurrentBucket(s))
        <5>1. EndOf[s][CurrentBucket(s)] <= batch[s].expires  BY <1>1, <4>1 DEF EntriesCount
        <5>2. now < EndOf[s][CurrentBucket(s)] /\ EndOf[s][CurrentBucket(s)] \in Nat
          BY <3>3, BucketFacts DEF CurrentBucket
        <5>3. Count(batch, s, CurrentBucket(s)) = batch[s].count
          BY <3>3, <4>1, <5>1, <5>2 DEF Count, Active, Entry
        <5> QED  BY <1>1, <4>1, <5>3 DEF EntriesCountGrants, Existing, CurrentBucket
      <4>2. CASE ~Existing(batch, s, CurrentBucket(s))
        <5>1. granted[s][CurrentBucket(s)] = 0  BY <1>1, <4>2 DEF EntriesCount
        <5> QED  BY <4>2, <5>1 DEF Count, Active
      <4> QED  BY <4>1, <4>2
    <3> QED  BY <3>4, <3>5, <3>6
  <2> QED  BY <2>1, <2>2
<1>5. CASE RateTick
  <2> SUFFICES ASSUME NEW s \in Batched, batch[s].known, batch[s].bucket = CurrentBucket(s)'
               PROVE  batch[s].count = granted[s][batch[s].bucket]
    BY <1>5 DEF RateTick, EntriesCountGrants, CurrentBucket
  <2>1. /\ now \in Times /\ now' \in Times /\ now' = now + 1 /\ s \in Scopes
        /\ CurrentBucket(s)' \in Buckets
    <3>1. Common'  BY <1>1, <1>5, TickCommon
    <3> QED  BY <1>1, <1>5, <3>1, BucketFacts
             DEF RateTick, Common, Shape, Scopes, CurrentBucket
  <2>2. CurrentBucket(s)' = CurrentBucket(s) \/ Unseen(s, CurrentBucket(s)')
    BY <2>1, NewBucketUnseen DEF CurrentBucket
  <2>3. ~Unseen(s, CurrentBucket(s)')
    BY <1>1, <2>1 DEF FutureIsEmpty, Existing
  <2> QED  BY <1>1, <2>2, <2>3 DEF EntriesCountGrants, CurrentBucket
<1> QED  BY <1>2, <1>3, <1>4, <1>5 DEF RateNext

\* A request that does not move keeps its promise, and so does one without a plan.
LEMMA PromiseStays ==
    ASSUME D1RateInv, NEW d \in Callers, pending'[d] = pending[d], calls'[d] = calls[d],
           now' = now, version' \in Nat, version' >= version,
           version' = version => batch' = batch
    PROVE  Promised(d)'
<1>1. Promised(d) /\ version \in Nat /\ pending[d] \in Planned  BY DEF D1RateInv
<1>2. calls[d].scope = calls'[d].scope /\ Wanted(d)' = Wanted(d)
  BY DEF Wanted, Asked
<1>3. pending[d].step \in {"insert", "update"} => Promised(d)'
  BY <1>1, <1>2 DEF Promised, Live, Full
<1>4. ASSUME pending[d].step = "entries" PROVE Promised(d)'
  <2>1. calls[d].phase = "batch" /\ pending[d].seen <= version /\ pending[d].seen \in Nat
    BY <1>1, <1>4 DEF Promised, Planned
  <2>2. CASE version' = version
    BY <1>1, <1>2, <1>4, <2>1, <2>2
    DEF Promised, Refusing, NextEntries, Count, Active, Existing
  <2>3. CASE version' # version
    <3>1. pending[d].seen <= version' /\ pending[d].seen # version'
      BY <1>1, <2>1, <2>3
    <3> QED  BY <1>4, <2>1, <3>1 DEF Promised
  <2> QED  BY <2>2, <2>3
<1>5. pending[d].step \notin {"insert", "update", "entries"} => Promised(d)'
  BY DEF Promised
<1> QED  BY <1>3, <1>4, <1>5

LEMMA PlanOfSingle ==
    ASSUME D1RateInv, NEW c \in Callers, ReadSingle(c)
    PROVE  pending' \in [Callers -> Planned] /\ \A d \in Callers : Promised(d)'
<1> DEFINE s == calls[c].scope
           row == rows[s][Asked(c, s)]
<1>1. /\ Common /\ Shape /\ UnderWay(c) /\ s \in Singles /\ s \in Scopes
      /\ UNCHANGED <<now, rows, batch, version>> /\ version \in Nat
      /\ pending \in [Callers -> Planned] /\ calls[c].phase = "single"
      /\ pending[c].step = "none"
  BY DEF D1RateInv, BatchInv, Common, CallsInTime, UnderWay, Scopes, ReadSingle
<1>2. row \in Row  BY <1>1, AskedIsSeen DEF Shape
<1>3. CASE Full(s, row)
  <2>1. pending' = pending /\ Refuse(c, row.expires, {s})  BY <1>3 DEF ReadSingle
  <2>2. \A d \in Callers : d # c => calls'[d] = calls[d]
    BY <1>1, <2>1, CallEnded
  <2>3. \A d \in Callers : d # c => Promised(d)'  BY <1>1, <2>1, <2>2, PromiseStays
  <2>4. Promised(c)'  BY <1>1, <2>1 DEF Promised
  <2> QED  BY <1>1, <2>1, <2>3, <2>4
<1>4. CASE ~Full(s, row)
  <2> DEFINE step == IF Live(row) THEN "update" ELSE "insert"
             expires == now + Length[s]
  <2>1. PICK plan : plan = [NoWrite EXCEPT !.step = step, !.row = row, !.expires = expires]
    OBVIOUS
  <2>2. pending' = [pending EXCEPT ![c] = plan] /\ calls' = calls
    BY <1>4, <2>1 DEF ReadSingle
  <2>3. expires \in Nat /\ step \in {"insert", "update"}
    BY <1>1, BucketFacts DEF Shape, Times
  <2> HIDE DEF step, expires
  <2>4. plan \in Planned /\ plan.step = step /\ plan.row = row /\ plan.expires = expires
    BY <1>2, <2>1, <2>3, NoWritePlanned DEF Planned
  <2>5. /\ pending' \in [Callers -> Planned] /\ pending'[c] = plan
        /\ \A d \in Callers : d # c => pending'[d] = pending[d]
    BY <1>1, <2>2, <2>4
  <2>6. \A d \in Callers : d # c => Promised(d)'  BY <1>1, <2>2, <2>5, PromiseStays
  <2>7. Promised(c)'
    <3>1. /\ calls'[c].phase = "single" /\ calls'[c].scope = s
          /\ plan.expires = now' + Length[s]
          /\ plan.step = "update" <=> Live(row)
          /\ plan.step \in {"insert", "update"}
          /\ ~Full(s, row)
      BY <1>1, <1>4, <2>2, <2>3, <2>4 DEF step, expires
    <3>2. pending'[c].row = row /\ now' = now  BY <1>1, <2>4, <2>5
    <3> HIDE DEF s, row
    <3>3. Live(pending[c].row)' <=> Live(row)  BY <3>2 DEF Live
    <3>4. Full(calls[c].scope, pending[c].row)' <=> Full(s, row)  BY <3>1, <3>2 DEF Live, Full
    <3> QED  BY <2>4, <2>5, <3>1, <3>3, <3>4 DEF Promised
  <2> QED  BY <2>5, <2>6, <2>7
<1> QED  BY <1>3, <1>4

LEMMA PlanOfBatch ==
    ASSUME MaxLate = 0, D1RateInv, NEW c \in Callers, ReadBatch(c)
    PROVE  pending' \in [Callers -> Planned] /\ \A d \in Callers : Promised(d)'
<1>1. /\ Common /\ Shape /\ UnderWay(c)
      /\ UNCHANGED <<now, rows, batch, version>> /\ version \in Nat
      /\ pending \in [Callers -> Planned] /\ calls[c].phase = "batch"
      /\ pending[c].step = "none"
  BY DEF D1RateInv, BatchInv, Common, UnderWay, ReadBatch
<1>2. CASE Refusing(batch, Wanted(c)) # {}
  <2>1. /\ pending' = [pending EXCEPT ![c] = NoWrite]
        /\ Refuse(c, RetryAt(batch, Refusing(batch, Wanted(c))), Refusing(batch, Wanted(c)))
    BY <1>2 DEF ReadBatch
  <2>2. \A d \in Callers : d # c => calls'[d] = calls[d]
    BY <1>1, <2>1, CallEnded
  <2>3. /\ pending' \in [Callers -> Planned] /\ pending'[c] = NoWrite
        /\ \A d \in Callers : d # c => pending'[d] = pending[d]
    BY <1>1, <2>1, NoWritePlanned
  <2>4. \A d \in Callers : d # c => Promised(d)'  BY <1>1, <2>2, <2>3, PromiseStays
  <2>5. Promised(c)'  BY <2>3, NoWritePlanned DEF Promised
  <2> QED  BY <2>3, <2>4, <2>5
<1>3. CASE Refusing(batch, Wanted(c)) = {}
  <2>1. PICK entries : entries = NextEntries(batch, Wanted(c))  OBVIOUS
  <2>2. PICK plan : plan = [pending[c] EXCEPT !.step = "entries", !.seen = version,
                                             !.entries = entries]
    OBVIOUS
  <2>3. pending' = [pending EXCEPT ![c] = plan] /\ calls' = calls
    BY <1>3, <2>1, <2>2 DEF ReadBatch
  <2>4. entries \in [Batched -> Entry]
    <3> SUFFICES ASSUME NEW s \in Batched
                 PROVE  NextEntries(batch, Wanted(c))[s] \in Entry
      BY <2>1 DEF NextEntries
    <3>1. /\ batch[s] \in Entry /\ now \in Nat /\ Length[s] \in Nat
          /\ Wanted(c)[s] \in Buckets
      BY <1>1, BucketFacts, AskedIsSeen DEF Shape, Times, Scopes, Wanted
    <3>2. Count(batch, s, Wanted(c)[s]) \in Nat  BY <3>1 DEF Count, Entry
    <3> QED  BY <3>1, <3>2 DEF NextEntries, Entry
  <2>5. /\ plan \in Planned /\ plan.step = "entries" /\ plan.seen = version
        /\ plan.entries = entries
    BY <1>1, <2>2, <2>4 DEF Planned
  <2>6. /\ pending' \in [Callers -> Planned] /\ pending'[c] = plan
        /\ \A d \in Callers : d # c => pending'[d] = pending[d]
    BY <1>1, <2>3, <2>5
  <2>7. \A d \in Callers : d # c => Promised(d)'  BY <1>1, <2>3, <2>6, PromiseStays
  <2>8. Promised(c)'
    <3>1. Wanted(c)' = Wanted(c)  BY <2>3 DEF Wanted, Asked
    <3>2. Refusing(batch, Wanted(c))' = {} /\ NextEntries(batch, Wanted(c))' = entries
      BY <1>1, <1>3, <2>1, <3>1 DEF Refusing, NextEntries, Count, Active, Existing
    <3>3. calls'[c].phase = "batch" /\ version' = version  BY <1>1, <2>3
    <3> QED  BY <1>1, <2>5, <2>6, <3>2, <3>3 DEF Promised
  <2> QED  BY <2>6, <2>7, <2>8
<1> QED  BY <1>2, <1>3

\* Every plan is, at every step, what the transaction would write.
LEMMA PlansStay ==
    ASSUME MaxLate = 0, D1RateInv, [D1RateNext]_d1RateVars
    PROVE  /\ version' \in Nat /\ pending' \in [Callers -> Planned]
           /\ \A d \in Callers : Promised(d)'
<1>1. /\ Common /\ Shape /\ version \in Nat /\ pending \in [Callers -> Planned]
      /\ \A d \in Callers : Promised(d)
  BY DEF D1RateInv, BatchInv, Common
<1>2. ASSUME NEW d \in Callers, ~UnderWay(d) PROVE pending[d].step = "none"
  BY <1>1, <1>2 DEF Promised, UnderWay, Planned
<1>3. ASSUME NEW d \in Callers, pending'[d].step = "none" PROVE Promised(d)'
  BY <1>3 DEF Promised
<1>4. ASSUME NEW c \in Callers, D1Send(c)
      PROVE  /\ version' \in Nat /\ pending' \in [Callers -> Planned]
             /\ \A d \in Callers : Promised(d)'
  <2>1. PICK phase, s : Ask(c, phase, s)  BY <1>4 DEF D1Send, SendSingle, SendBatch
  <2>2. UNCHANGED <<now, batch, version, pending>> /\ ~UnderWay(c)
    BY <1>4, <2>1 DEF D1Send, Ask
  <2>3. \A d \in Callers : d # c => calls'[d] = calls[d]
    BY <1>1, <2>1 DEF Ask, Shape
  <2>4. \A d \in Callers : d # c => Promised(d)'  BY <1>1, <2>2, <2>3, PromiseStays
  <2>5. Promised(c)'  BY <1>2, <1>3, <2>2
  <2> QED  BY <1>1, <2>2, <2>4, <2>5
<1>5. ASSUME NEW c \in Callers, NEW plan \in Planned, plan.step = "none",
             pending' = [pending EXCEPT ![c] = plan], now' = now, version' \in Nat,
             version' >= version, version' = version => batch' = batch,
             \A d \in Callers : d # c => calls'[d] = calls[d]
      PROVE  /\ version' \in Nat /\ pending' \in [Callers -> Planned]
             /\ \A d \in Callers : Promised(d)'
  <2>1. /\ pending' \in [Callers -> Planned] /\ pending'[c] = plan
        /\ \A d \in Callers : d # c => pending'[d] = pending[d]
    BY <1>1, <1>5
  <2>2. \A d \in Callers : d # c => Promised(d)'  BY <1>5, <2>1, PromiseStays
  <2>3. Promised(c)'  BY <1>3, <1>5, <2>1
  <2> QED  BY <1>5, <2>1, <2>2, <2>3
<1>6. ASSUME NEW c \in Callers, WriteSingle(c)
      PROVE  /\ version' \in Nat /\ pending' \in [Callers -> Planned]
             /\ \A d \in Callers : Promised(d)'
  <2>1. /\ pending' = [pending EXCEPT ![c] = NoWrite] /\ Answer(c)
        /\ UNCHANGED <<now, batch, version>>
    BY <1>6 DEF WriteSingle
  <2>2. UnderWay(c)  BY <1>1, <1>6 DEF WriteSingle, Promised, UnderWay
  <2>3. \A d \in Callers : d # c => calls'[d] = calls[d]  BY <1>1, <2>1, <2>2, CallEnded
  <2>4. version' \in Nat /\ version' >= version  BY <1>1, <2>1
  <2> QED  BY <1>5, <2>1, <2>3, <2>4, NoWritePlanned
<1>7. ASSUME NEW c \in Callers, WriteBatch(c)
      PROVE  /\ version' \in Nat /\ pending' \in [Callers -> Planned]
             /\ \A d \in Callers : Promised(d)'
  <2>1. /\ pending' = [pending EXCEPT ![c] = NoWrite] /\ Answer(c) /\ now' = now
        /\ version' = version + 1
    BY <1>7 DEF WriteBatch
  <2>2. UnderWay(c)  BY <1>1, <1>7 DEF WriteBatch, Promised, UnderWay
  <2>3. \A d \in Callers : d # c => calls'[d] = calls[d]  BY <1>1, <2>1, <2>2, CallEnded
  <2>4. version' \in Nat /\ version' >= version /\ version' # version  BY <1>1, <2>1
  <2> QED  BY <1>5, <2>1, <2>3, <2>4, NoWritePlanned
<1>8. ASSUME NEW c \in Callers, TryAgain(c)
      PROVE  /\ version' \in Nat /\ pending' \in [Callers -> Planned]
             /\ \A d \in Callers : Promised(d)'
  <2>1. UNCHANGED <<now, batch, version>>  BY <1>8 DEF TryAgain
  <2>2. \A d \in Callers : d # c => calls'[d] = calls[d]  BY <1>1, <1>8 DEF TryAgain, Shape
  <2>3. version' \in Nat /\ version' >= version  BY <1>1, <2>1
  <2>4. pending[c].attempts + 1 \in Nat  BY <1>1 DEF Planned
  <2>5. PICK plan \in Planned :
           plan.step = "none" /\ pending' = [pending EXCEPT ![c] = plan]
    <3>1. CASE pending' = [pending EXCEPT ![c] = NoWrite]  BY <3>1, NoWritePlanned
    <3>2. CASE pending' = [pending EXCEPT ![c] =
                            [NoWrite EXCEPT !.attempts = pending[c].attempts + 1]]
      <4>1. PICK n \in Nat : pending[c].attempts + 1 = n  BY <2>4
      <4> DEFINE plan == [NoWrite EXCEPT !.attempts = n]
      <4>2. plan \in Planned /\ plan.step = "none"  BY NoWritePlanned DEF Planned
      <4>3. pending' = [pending EXCEPT ![c] = plan]  BY <3>2, <4>1
      <4> QED  BY <4>2, <4>3
    <3> QED  BY <1>8, <3>1, <3>2 DEF TryAgain
  <2> QED  BY <1>5, <2>1, <2>2, <2>3, <2>5
<1>9. CASE D1RateTick
  <2>1. version' = version /\ pending' = pending  BY <1>9 DEF D1RateTick
  <2>2. ASSUME NEW d \in Callers PROVE ~UnderWay(d)
    <3>1. UnderWay(d) => now < calls[d].at + 0  BY <1>9 DEF D1RateTick, RateTick
    <3>2. UnderWay(d) => calls[d].at = now /\ now \in Nat  BY Punctual
    <3> QED  BY <3>1, <3>2
  <2> QED  BY <1>1, <1>2, <1>3, <2>1, <2>2
<1>10. CASE UNCHANGED d1RateVars
  <2>1. UNCHANGED <<now, batch, calls, version, pending>>  BY <1>10 DEF d1RateVars, rateVars
  <2> QED  BY <1>1, <2>1, PromiseStays
<1>11. ASSUME NEW c \in Callers, ReadSingle(c) \/ ReadBatch(c)
      PROVE  /\ version' \in Nat /\ pending' \in [Callers -> Planned]
             /\ \A d \in Callers : Promised(d)'
  BY <1>1, <1>11, PlanOfSingle, PlanOfBatch DEF ReadSingle, ReadBatch
<1> QED  BY <1>4, <1>6, <1>7, <1>8, <1>9, <1>10, <1>11 DEF D1RateNext

LEMMA D1RateStep == MaxLate = 0 /\ D1RateInv /\ [D1RateNext]_d1RateVars => D1RateInv'
<1> SUFFICES ASSUME MaxLate = 0, D1RateInv, [D1RateNext]_d1RateVars PROVE D1RateInv'
  OBVIOUS
<1>1. /\ version' \in Nat /\ pending' \in [Callers -> Planned]
      /\ \A d \in Callers : Promised(d)' /\ CallRecord(calls'[d])
  BY PlansStay, CallsStayRecords
<1>2. BatchInv' /\ EntriesCountGrants'
  <2>1. CASE RateNext
    BY <2>1, BatchStep, PunctualAtOnce, GrantsStayCounted DEF D1RateInv
  <2>2. CASE UNCHANGED rateVars
    <3>1. BatchInv'  BY <2>2, BatchStep, PunctualAtOnce DEF D1RateInv
    <3>2. EntriesCountGrants'  BY <2>2 DEF rateVars, D1RateInv, EntriesCountGrants
    <3> QED  BY <3>1, <3>2
  <2>3. ASSUME NEW c \in Callers, WriteSingle(c) \/ TryAgain(c)
        PROVE  BatchInv' /\ EntriesCountGrants'
    BY <2>3, WriteSingleKeepsBatch, TryAgainKeepsBatch
  <2> QED  BY <2>1, <2>2, <2>3, StepsOfRates
<1>3. \A c \in Callers : Promised(c)'  BY <1>1
<1>4. \A c \in Callers : CallRecord(calls'[c])  BY <1>1
<1> QED  BY <1>1, <1>2, <1>3, <1>4 DEF D1RateInv, CallRecord

\* However the requests of an article overlap, the version check of
\* consumeRateLimits keeps the count of each bucket exact and the limits of the
\* article kept, as long as no request outlasts the tick it was sent in.
THEOREM D1RatesCorrect ==
    ASSUME MaxLate = 0
    PROVE  D1RateSpec => []D1RatesSafe
<1>1. D1RateInv /\ [D1RateNext]_d1RateVars => D1RateInv'  BY D1RateStep
<1>2. D1RateInv => D1RatesSafe  BY DEF D1RateInv, BatchInv, D1RatesSafe
<1> QED  BY <1>1, <1>2, D1RateFirst, PTL DEF D1RateSpec

\* A single limit that is written over the row it was read from is consumed.
LEMMA WriteIsConsume ==
    ASSUME D1RateInv, NEW c \in Callers, WriteSingle(c), StillSo(c)
    PROVE  ConsumeSingle(c)
<1> DEFINE s == calls[c].scope
           b == Asked(c, s)
           row == rows[s][b]
<1>1. /\ Shape /\ Common /\ Promised(c) /\ pending[c].step \in {"insert", "update"}
  BY DEF D1RateInv, BatchInv, Common, WriteSingle
<1>2. /\ calls[c].phase = "single" /\ pending[c].expires = now + Length[s]
      /\ pending[c].step = "update" <=> Live(pending[c].row)
      /\ ~Full(s, pending[c].row)
  BY <1>1 DEF Promised
<1>3. row = pending[c].row
  <2>1. pending[c].step # "none" /\ pending[c].step # "entries"  BY <1>1
  <2> QED  BY <2>1 DEF StillSo
<1>4. s \in Singles /\ UnderWay(c)  BY <1>1, <1>2 DEF Common, CallsInTime, UnderWay
<1>5. b \in Buckets /\ row \in Row
  BY <1>1, <1>4, AskedIsSeen DEF Scopes, Shape
<1>6. /\ CountGrants({s}, [x \in {s} |-> b]) /\ Answer(c) /\ UNCHANGED <<now, batch>>
      /\ rows' = [rows EXCEPT ![s][b] =
                    IF pending[c].step = "update"
                    THEN [row EXCEPT !.count = pending[c].row.count + 1]
                    ELSE [count |-> 1, expires |-> pending[c].expires]]
  <2>1. rows \in [Singles -> [Buckets -> Row]]  BY <1>1 DEF Shape
  <2> QED  BY <1>4, <1>5, <2>1 DEF WriteSingle
<1>7. Consumed(s, row) = IF pending[c].step = "update"
                         THEN [row EXCEPT !.count = pending[c].row.count + 1]
                         ELSE [count |-> 1, expires |-> pending[c].expires]
  BY <1>2, <1>3 DEF Consumed
<1>8. rows' = [rows EXCEPT ![s][b] = Consumed(s, row)]  BY <1>6, <1>7
<1>9. ~Full(s, row)  BY <1>2, <1>3
<1> QED  BY <1>2, <1>6, <1>8, <1>9 DEF ConsumeSingle

\* A request of the D1 backend that nobody overtook between its read and its
\* write consumes what the PostgreSQL transaction would have: the statements of
\* consumeRateLimit and consumeRateLimits implement RateLimits, for any number
\* of requests, if none outlasts the tick it was sent in.
THEOREM D1KeepsRatePromise ==
    ASSUME MaxLate = 0
    PROVE  D1RateSpec => RatePromise
<1>1. D1RateInv /\ [D1RateNext]_d1RateVars => D1RateInv'  BY D1RateStep
<1>2. D1RateInv /\ [D1RateNext]_d1RateVars
      => [(\A c \in Callers : pending'[c] # pending[c] => StillSo(c))
          => RateNext \/ UNCHANGED rateVars]_d1RateVars
  <2> SUFFICES ASSUME D1RateInv, [D1RateNext]_d1RateVars,
                      \A c \in Callers : pending'[c] # pending[c] => StillSo(c)
               PROVE  RateNext \/ UNCHANGED rateVars
    OBVIOUS
  <2>1. pending \in [Callers -> Planned]  BY DEF D1RateInv
  <2>2. ASSUME NEW c \in Callers, WriteSingle(c) PROVE RateNext
    <3>1. pending'[c] = NoWrite /\ pending[c].step # "none"
      BY <2>1, <2>2 DEF WriteSingle
    <3>2. StillSo(c)  BY <3>1, NoWritePlanned
    <3>3. ConsumeSingle(c)  BY <2>2, <3>2, WriteIsConsume
    <3> QED  BY <3>3 DEF RateNext
  <2>3. ASSUME NEW c \in Callers, TryAgain(c) PROVE FALSE
    <3>1. pending[c].step = "entries" /\ ~Unchanged(c)  BY <2>3 DEF TryAgain
    <3>2. ~StillSo(c)  BY <3>1 DEF StillSo
    <3>3. pending'[c].step = "none"
      <4>1. CASE pending' = [pending EXCEPT ![c] = NoWrite]  BY <2>1, <4>1, NoWritePlanned
      <4>2. CASE pending' = [pending EXCEPT ![c] =
                              [NoWrite EXCEPT !.attempts = pending[c].attempts + 1]]
        <5>1. pending'[c] = [NoWrite EXCEPT !.attempts = pending[c].attempts + 1]
          BY <2>1, <4>2
        <5> QED  BY <5>1 DEF NoWrite
      <4> QED  BY <2>3, <4>1, <4>2 DEF TryAgain
    <3> QED  BY <3>1, <3>2, <3>3
  <2> QED  BY <2>2, <2>3, StepsOfRates
<1> QED  BY <1>1, <1>2, D1RateFirst, PTL DEF D1RateSpec, RatePromise

-----------------------------------------------------------------------------
(***************************************************************************)
(* The lease inbox of D1, for any number of pulls at the same time         *)
(***************************************************************************)
PullsInTime ==
    pulls \in [Pullers -> [phase : {"none", "select", "lease"}, rows : SUBSET Messages,
                           age : 0..Visibility]]

D1InboxInv == LeaseInv /\ NoMessageLost /\ PullsInTime

LEMMA NoPullInTime ==
    NoPull \in [phase : {"none", "select", "lease"}, rows : SUBSET Messages,
                age : 0..Visibility]
BY InboxAssumption DEF NoPull

\* A pull first puts the expired rows back, and no others.
LEMMA RequeueKeeps ==
    ASSUME D1InboxInv, NEW p \in Pullers, Requeue(p)
    PROVE  LeaseInv' /\ NoMessageLost' /\ \A m \in Messages : LeaseEnds(m)
<1>1. /\ inbox' = Expired /\ UNCHANGED <<cloud, tries, grants, consumed>>
      /\ InboxTypeOK /\ LeaseExclusive /\ LeaseNamesRow /\ NoMessageLost
  BY DEF Requeue, D1InboxInv, LeaseInv
<1>2. \A m \in Messages :
         \/ inbox'[m] = inbox[m]
         \/ inbox[m].status = "leased" /\ inbox[m].timer = 0 /\ inbox'[m] = QueuedRow(0)
  BY <1>1 DEF Expired
<1>3. InboxTypeOK'
  <2>1. inbox' \in [Messages -> InboxRow]
    BY <1>1, RowsAreRows, TimerValues DEF Expired, InboxTypeOK
  <2> QED  BY <1>1, <2>1 DEF InboxTypeOK
<1>4. LeaseExclusive'
  <2> SUFFICES ASSUME NEW l \in Leases, grants[l].left > 0
               PROVE  /\ grants[l].message \in Messages
                      /\ inbox'[grants[l].message].status = "leased"
                      /\ inbox'[grants[l].message].lease = l
                      /\ inbox'[grants[l].message].timer >= grants[l].left
    BY <1>1 DEF LeaseExclusive
  <2>1. /\ grants[l].message \in Messages
        /\ inbox[grants[l].message].status = "leased"
        /\ inbox[grants[l].message].lease = l
        /\ inbox[grants[l].message].timer >= grants[l].left
    BY <1>1 DEF LeaseExclusive
  <2>2. grants[l].left \in Nat  BY <1>1, InboxAssumption DEF InboxTypeOK, Grant
  <2>3. inbox[grants[l].message].timer # 0  BY <2>1, <2>2
  <2> QED  BY <1>2, <2>1, <2>3
<1>5. LeaseNamesRow'  BY <1>1, <1>2 DEF LeaseNamesRow, QueuedRow
<1>6. NoMessageLost'  BY <1>1, <1>2 DEF NoMessageLost, QueuedRow
<1>7. \A m \in Messages : LeaseEnds(m)  BY <1>2 DEF LeaseEnds
<1> QED  BY <1>3, <1>4, <1>5, <1>6, <1>7 DEF LeaseInv

\* A row is leased only as long as it is queued, under an id nobody has.
LEMMA LeaseRowKeeps ==
    ASSUME D1InboxInv, NEW p \in Pullers, NEW m \in Messages, NEW l \in Leases,
           LeaseRow(p, m, l), inbox[m].status = "queued"
    PROVE  LeaseInv' /\ NoMessageLost' /\ \A n \in Messages : LeaseEnds(n)
<1>0. /\ InboxTypeOK /\ LeaseExclusive /\ LeaseNamesRow /\ NoMessageLost
      /\ pulls[p].age \in 0..Visibility
  BY DEF D1InboxInv, LeaseInv, PullsInTime
<1>1. PICK left \in 0..Visibility : Visibility - pulls[p].age = left
  BY <1>0, InboxAssumption
<1> DEFINE row == [LeasedRow(l) EXCEPT !.timer = left]
           grant == [message |-> m, left |-> left]
<1>2. /\ inbox' = [inbox EXCEPT ![m] = row]
      /\ grants' = [grants EXCEPT ![l] = grant]
      /\ UNCHANGED <<cloud, tries, consumed>>
      /\ l \in FreshLeases
  BY <1>1 DEF LeaseRow
<1>3. left \in Timer /\ left \in Nat  BY InboxAssumption DEF Timer
<1>4. /\ row \in InboxRow /\ row.status = "leased" /\ row.lease = l /\ row.timer = left
      /\ grant \in Grant /\ grant.message = m /\ grant.left = left
  <2>1. LeasedRow(l) \in InboxRow /\ LeasedRow(l).status = "leased" /\ LeasedRow(l).lease = l
    BY RowsAreRows DEF LeasedRow
  <2>2. row \in InboxRow /\ row.status = "leased" /\ row.lease = l /\ row.timer = left
    BY <1>3, <2>1 DEF InboxRow
  <2> QED  BY <2>2 DEF Grant
<1> HIDE DEF row, grant
<1>5. /\ inbox' \in [Messages -> InboxRow] /\ grants' \in [Leases -> Grant]
      /\ \A n \in Messages : inbox'[n] = IF n = m THEN row ELSE inbox[n]
      /\ \A k \in Leases : grants'[k] = IF k = l THEN grant ELSE grants[k]
  BY <1>0, <1>2, <1>4 DEF InboxTypeOK
<1>6. grants[l] = NoGrant /\ \A n \in Messages : inbox[n].lease # l
  BY <1>2 DEF FreshLeases
<1>7. InboxTypeOK'  BY <1>0, <1>2, <1>5 DEF InboxTypeOK
<1>8. LeaseExclusive'
  <2> SUFFICES ASSUME NEW k \in Leases, grants'[k].left > 0
               PROVE  /\ grants'[k].message \in Messages
                      /\ inbox'[grants'[k].message].status = "leased"
                      /\ inbox'[grants'[k].message].lease = k
                      /\ inbox'[grants'[k].message].timer >= grants'[k].left
    BY DEF LeaseExclusive
  <2>1. CASE k = l  BY <1>3, <1>4, <1>5, <2>1
  <2>2. CASE k # l
    <3>1. grants'[k] = grants[k] /\ grants[k].left > 0  BY <1>5, <2>2
    <3>2. /\ grants[k].message \in Messages
          /\ inbox[grants[k].message].status = "leased"
          /\ inbox[grants[k].message].lease = k
          /\ inbox[grants[k].message].timer >= grants[k].left
      BY <1>0, <3>1 DEF LeaseExclusive
    <3>3. grants[k].message # m  BY <3>2
    <3> QED  BY <1>5, <3>1, <3>2, <3>3
  <2> QED  BY <2>1, <2>2
<1>9. LeaseNamesRow'
  <2> SUFFICES ASSUME NEW n \in Messages
               PROVE  /\ inbox'[n].status = "leased" =>
                            /\ inbox'[n].lease \in Leases
                            /\ \/ grants'[inbox'[n].lease] = NoGrant
                               \/ grants'[inbox'[n].lease].message = n
                      /\ inbox'[n].status # "leased" => inbox'[n].lease = NoLease
    BY DEF LeaseNamesRow
  <2>1. CASE n = m  BY <1>4, <1>5, <2>1
  <2>2. CASE n # m
    <3>1. /\ inbox[n].status = "leased" =>
                /\ inbox[n].lease \in Leases
                /\ \/ grants[inbox[n].lease] = NoGrant
                   \/ grants[inbox[n].lease].message = n
          /\ inbox[n].status # "leased" => inbox[n].lease = NoLease
      BY <1>0 DEF LeaseNamesRow
    <3>2. inbox'[n] = inbox[n] /\ inbox[n].lease # l  BY <1>5, <1>6, <2>2
    <3> QED  BY <1>5, <3>1, <3>2
  <2> QED  BY <2>1, <2>2
<1>10. NoMessageLost'  BY <1>0, <1>2, <1>4, <1>5 DEF NoMessageLost
<1>11. \A n \in Messages : LeaseEnds(n)  BY <1>5 DEF LeaseEnds
<1> QED  BY <1>7, <1>8, <1>9, <1>10, <1>11 DEF LeaseInv

\* What the pulls have in hand stays in time.
LEMMA PullsStayInTime ==
    ASSUME D1InboxInv, [D1InboxNext]_d1InboxVars PROVE PullsInTime'
<1> DEFINE P == [phase : {"none", "select", "lease"}, rows : SUBSET Messages,
                 age : 0..Visibility]
<1>1. pulls \in [Pullers -> P] /\ NoPull \in P
  BY NoPullInTime DEF D1InboxInv, PullsInTime
<1>2. ASSUME NEW p \in Pullers, NEW x \in P, pulls' = [pulls EXCEPT ![p] = x]
      PROVE  PullsInTime'
  BY <1>1, <1>2 DEF PullsInTime
<1>3. ASSUME NEW p \in Pullers, Requeue(p) PROVE PullsInTime'
  <2> DEFINE x == [pulls[p] EXCEPT !.phase = "select"]
  <2>1. x \in P  BY <1>1
  <2>2. pulls' = [pulls EXCEPT ![p] = x]  BY <1>3 DEF Requeue
  <2> QED  BY <1>2, <2>1, <2>2
<1>4. ASSUME NEW p \in Pullers, NEW ms \in SUBSET Messages, Select(p, ms) PROVE PullsInTime'
  <2> DEFINE x == [pulls[p] EXCEPT !.phase = "lease", !.rows = ms]
  <2>1. x \in P  BY <1>1
  <2>2. pulls' = [pulls EXCEPT ![p] = x]  BY <1>1, <1>4 DEF Select
  <2> QED  BY <1>2, <2>1, <2>2
<1>5. ASSUME NEW p \in Pullers, NEW m, NEW l, LeaseRow(p, m, l) PROVE PullsInTime'
  <2> DEFINE x == [pulls[p] EXCEPT !.rows = pulls[p].rows \ {m}]
  <2>1. x \in P  BY <1>1
  <2>2. pulls' = [pulls EXCEPT ![p] = x]  BY <1>1, <1>5 DEF LeaseRow
  <2> QED  BY <1>2, <2>1, <2>2
<1>6. ASSUME NEW p \in Pullers, EndPull(p) PROVE PullsInTime'
  BY <1>1, <1>2, <1>6 DEF EndPull
<1>7. CASE D1InboxTick
  <2>1. \A p \in Pullers : pulls[p] \in P /\ pulls[p].age < Visibility
    BY <1>1, <1>7 DEF D1InboxTick
  <2>2. ASSUME NEW p \in Pullers PROVE [pulls[p] EXCEPT !.age = @ + 1] \in P
    <3>1. pulls[p].age + 1 \in 0..Visibility  BY <2>1, InboxAssumption
    <3>2. pulls[p] \in P  BY <2>1
    <3> QED  BY <3>1, <3>2
  <2> HIDE DEF P
  <2>3. pulls' \in [Pullers -> P]  BY <1>1, <1>7, <2>2 DEF D1InboxTick
  <2> QED  BY <2>3 DEF PullsInTime, P
<1>8. ASSUME pulls' = pulls PROVE PullsInTime'  BY <1>1, <1>8 DEF PullsInTime
<1> QED  BY <1>3, <1>4, <1>5, <1>6, <1>7, <1>8 DEF D1InboxNext, d1InboxVars

\* Every step keeps the leases, the messages, and what ends a lease.
LEMMA D1InboxStep ==
    ASSUME D1InboxInv, [D1InboxNext]_d1InboxVars
    PROVE  D1InboxInv' /\ \A m \in Messages : LeaseEnds(m)
<1>1. CASE [InboxNext]_inboxVars
  BY <1>1, StepKeepsLeases, StepLosesNone, StepEndsLease, PullsStayInTime DEF D1InboxInv
<1>2. ASSUME NEW p \in Pullers, Requeue(p)
      PROVE  D1InboxInv' /\ \A m \in Messages : LeaseEnds(m)
  BY <1>2, RequeueKeeps, PullsStayInTime DEF D1InboxInv
<1>3. ASSUME NEW p \in Pullers, NEW m \in Messages, NEW l \in Leases, LeaseRow(p, m, l)
      PROVE  D1InboxInv' /\ \A n \in Messages : LeaseEnds(n)
  <2>1. CASE inbox[m].status = "queued"
    BY <1>3, <2>1, LeaseRowKeeps, PullsStayInTime DEF D1InboxInv
  <2>2. CASE inbox[m].status # "queued"
    <3>1. UNCHANGED inboxVars  BY <1>3, <2>2 DEF LeaseRow, inboxVars
    <3> QED  BY <1>1, <3>1
  <2> QED  BY <2>1, <2>2
<1>4. ASSUME NEW p \in Pullers, EndPull(p) \/ \E ms \in SUBSET Messages : Select(p, ms)
      PROVE  [InboxNext]_inboxVars
  BY <1>4 DEF EndPull, Select
<1>5. CASE D1InboxTick  BY <1>1, <1>5 DEF D1InboxTick, InboxNext
<1>6. ASSUME \/ \E ms \in SUBSET Messages :
                   Send(ms) \/ StageAcked(ms) \/ StageUnwoken(ms) \/ StageRefused(ms)
             \/ \E acks, retries \in SUBSET Held, delay \in 0..MaxDelay :
                   SettleBatch(acks, retries, delay)
             \/ \E ls \in SUBSET Held : Forget(ls)
      PROVE  [InboxNext]_inboxVars
  BY <1>6 DEF InboxNext
<1>7. CASE UNCHANGED d1InboxVars  BY <1>1, <1>7 DEF d1InboxVars
<1> QED  BY <1>1, <1>2, <1>3, <1>4, <1>5, <1>6, <1>7 DEF D1InboxNext

\* Pulls of the D1 backend that have chosen the same messages, in any number and
\* in any order, lease none twice, lose none and take none from the worker that
\* holds it: the update that leases a row asks again whether it is queued.
THEOREM D1InboxCorrect == D1InboxSpec => D1InboxSafe
<1>1. D1InboxInit => D1InboxInv
  <2> SUFFICES ASSUME D1InboxInit PROVE D1InboxInv  OBVIOUS
  <2>1. LeaseInv  BY LeaseInvInit DEF D1InboxInit
  <2>2. NoMessageLost  BY DEF D1InboxInit, InboxInit, NoMessageLost
  <2>3. PullsInTime  BY NoPullInTime DEF D1InboxInit, PullsInTime
  <2> QED  BY <2>1, <2>2, <2>3 DEF D1InboxInv
<1>2. D1InboxInv /\ [D1InboxNext]_d1InboxVars => D1InboxInv'  BY D1InboxStep
<1>3. D1InboxInv => LeaseExclusive /\ NoMessageLost  BY DEF D1InboxInv, LeaseInv
<1>4. D1InboxInv /\ [D1InboxNext]_d1InboxVars
      => [\A m \in Messages :
            inbox[m].status = "leased" /\ inbox'[m].lease # inbox[m].lease =>
                \/ inbox[m].timer = 0
                \/ /\ grants[inbox[m].lease].message = m
                   /\ grants'[inbox[m].lease] = NoGrant]_inboxVars
  BY D1InboxStep DEF LeaseEnds
<1> QED  BY <1>1, <1>2, <1>3, <1>4, PTL DEF D1InboxSpec, D1InboxSafe, OnlyHolderEnds

-----------------------------------------------------------------------------
(***************************************************************************)
(* A sync run on D1, for any set of sources and overlapping requests       *)
(***************************************************************************)
D1SyncInv ==
    /\ D1Inv
    /\ run \in RunRow
    /\ snapshot \in [Clients -> RunRow]
    /\ sent \subseteq JobIds
    /\ requester \in {"idle", "inserted"} => sent = {}
    /\ \A c \in Clients : request[c].op = "claim" => request[c].job \in sent

\* The completion of a source changes the statistics and the status, and nothing
\* else of the run.
LEMMA AdvanceParts ==
    ASSUME NEW r \in RunRow, NEW k, NEW result \in {"done", "failed"}
    PROVE  /\ Advance(r, k, result) \in RunRow
           /\ [r EXCEPT !.stats = Advance(r, k, result).stats,
                        !.status = Advance(r, k, result).status] = Advance(r, k, result)
<1>1. \A s \in {"none", "running", "done", "failed"} : \A f \in [Sources -> Results] :
         /\ [r EXCEPT !.stats = f, !.status = s] \in RunRow
         /\ [r EXCEPT !.stats = f, !.status = s].stats = f
         /\ [r EXCEPT !.stats = f, !.status = s].status = s
         /\ [r EXCEPT !.status = s] = [r EXCEPT !.stats = r.stats, !.status = s]
  BY DEF RunRow
<1>2. \E f \in [Sources -> Results], s \in {"none", "running", "done", "failed"} :
         Advance(r, k, result) = [r EXCEPT !.stats = f, !.status = s]
  <2>1. CASE k \notin r.queued
    <3>1. Advance(r, k, result) = [r EXCEPT !.status = "running"]  BY <2>1 DEF Advance
    <3>2. r.stats \in [Sources -> Results]  BY DEF RunRow
    <3>3. Advance(r, k, result) = [r EXCEPT !.stats = r.stats, !.status = "running"]
      BY <1>1, <3>1, <3>2
    <3> QED  BY <3>2, <3>3
  <2>2. CASE k \in r.queued
    <3> DEFINE stats  == [r.stats EXCEPT ![k] = result]
               status == IF \E s \in r.queued : stats[s] = "none" THEN "running"
                         ELSE IF \E s \in r.queued : stats[s] = "failed"
                              THEN "failed" ELSE "done"
    <3>1. stats \in [Sources -> Results]  BY <2>2 DEF RunRow, Results
    <3>2. status \in {"none", "running", "done", "failed"}  OBVIOUS
    <3>3. Advance(r, k, result) = [r EXCEPT !.stats = stats, !.status = status]
      BY <2>2 DEF Advance
    <3> HIDE DEF stats, status
    <3> QED  BY <3>1, <3>2, <3>3
  <2> QED  BY <2>1, <2>2
<1>3. PICK f \in [Sources -> Results], s \in {"none", "running", "done", "failed"} :
         Advance(r, k, result) = [r EXCEPT !.stats = f, !.status = s]
  BY <1>2
<1> DEFINE next == Advance(r, k, result)
<1> HIDE DEF next
<1>4. next = [r EXCEPT !.stats = f, !.status = s]  BY <1>3 DEF next
<1>5. next \in RunRow /\ next.stats = f /\ next.status = s  BY <1>4 DEF RunRow
<1>6. [r EXCEPT !.stats = next.stats, !.status = next.status] = next  BY <1>4, <1>5
<1> QED  BY <1>5, <1>6 DEF next

LEMMA NoRunRow == NoRun \in RunRow
BY DEF NoRun, RunRow, Results

\* To the job ledger the requests of a run are requests like others.
LEMMA RunStepOfLedger ==
    ASSUME sent \subseteq JobIds, [D1SyncNext]_d1SyncVars PROVE [D1Next]_d1Vars
<1>1. CASE D1Requester
  BY <1>1 DEF D1Requester, Requester, InsertRun, SendJobs, SendFails, MarkFailed, Evict, d1Vars
<1>2. ASSUME NEW c \in Clients, D1Collect(c) PROVE D1Next
  <2>1. PICK j \in JobIds : ReadToClaim(c, j)  BY <1>2 DEF D1Collect
  <2> QED  BY <2>1 DEF D1Next, D1Read
<1>3. ASSUME NEW c \in Clients, D1Decide(c) PROVE D1Next
  <2>1. CASE ReadEnvelope(c)  BY <2>1 DEF D1Next, D1Read
  <2>2. CASE ~ReadEnvelope(c)
    <3>1. PICK j \in JobIds, outcome \in {"done", "failed", "permanent"} :
             ReadToFinish(c, j, outcome)
      BY <1>3, <2>2 DEF D1Decide
    <3>2. outcome \in Outcomes  BY DEF Outcomes
    <3> QED  BY <3>1, <3>2 DEF D1Next, D1Read
  <2> QED  BY <2>1, <2>2
<1>4. ASSUME NEW c \in Clients, D1Record(c) PROVE D1Next
  BY <1>4 DEF D1Record, D1Next, D1Write
<1>5. ASSUME NEW c \in Clients, D1Complete(c) PROVE D1Next
  BY <1>5 DEF D1Complete, D1Next, D1Write
<1>6. ASSUME NEW c \in Clients, ReadStats(c) PROVE UNCHANGED d1Vars
  BY <1>6 DEF ReadStats, syncVars, d1Vars
<1>7. CASE D1SyncTick  BY <1>7 DEF D1SyncTick, SyncTick, D1Next, D1Tick
<1>8. CASE UNCHANGED d1SyncVars  BY <1>8 DEF d1SyncVars, syncVars, d1Vars
<1> QED  BY <1>1, <1>2, <1>3, <1>4, <1>5, <1>6, <1>7, <1>8 DEF D1SyncNext

\* A write of the run's completion, when the run is as it was read
LEMMA StatsWritten ==
    ASSUME D1SyncInv, NEW c \in Clients, NEW result \in {"done", "failed"},
           WriteStats(c, result)
    PROVE  /\ run' \in RunRow
           /\ snapshot' \in [Clients -> RunRow]
           /\ snapshot[c] \in {NoRun, run} =>
                 run' = Advance(run, KeyOf[request[c].job], result)
<1> DEFINE k == KeyOf[request[c].job]
           next == Advance(snapshot[c], k, result)
<1>1. run \in RunRow /\ snapshot[c] \in RunRow /\ snapshot \in [Clients -> RunRow]
  BY DEF D1SyncInv
<1>2. next \in RunRow  BY <1>1, AdvanceParts
<1>3. /\ run' = [run EXCEPT !.stats = next.stats, !.status = next.status]
      /\ snapshot' = [snapshot EXCEPT ![c] = NoRun] /\ snapshot[c] # NoRun
  BY DEF WriteStats
<1>4. ASSUME snapshot[c] \in {NoRun, run} PROVE run' = Advance(run, k, result)
  <2>1. snapshot[c] = run  BY <1>3, <1>4
  <2>2. [run EXCEPT !.stats = Advance(run, k, result).stats,
                    !.status = Advance(run, k, result).status] = Advance(run, k, result)
    BY <1>1, AdvanceParts
  <2> QED  BY <1>3, <2>1, <2>2
<1> HIDE DEF next
<1>5. run' \in RunRow
  <2>1. next.stats \in [Sources -> Results] /\ next.status \in {"none", "running", "done", "failed"}
    BY <1>2 DEF RunRow
  <2> QED  BY <1>1, <1>3, <2>1 DEF RunRow
<1>6. snapshot' \in [Clients -> RunRow]  BY <1>1, <1>3, NoRunRow
<1> QED  BY <1>4, <1>5, <1>6

LEMMA D1SyncFirst == D1SyncInit => D1SyncInv
<1> SUFFICES ASSUME D1SyncInit PROVE D1SyncInv  OBVIOUS
<1>1. D1Inv  BY D1First DEF D1SyncInit, SyncInit, D1Init
<1>2. NoRequest.op # "claim"  BY NoRequestRow
<1> QED  BY <1>1, <1>2, NoRunRow DEF D1SyncInv, D1SyncInit, SyncInit

LEMMA D1SyncStep == D1SyncInv /\ [D1SyncNext]_d1SyncVars => D1SyncInv'
<1> SUFFICES ASSUME D1SyncInv, [D1SyncNext]_d1SyncVars PROVE D1SyncInv'  OBVIOUS
<1>0. /\ D1Inv /\ run \in RunRow /\ snapshot \in [Clients -> RunRow]
      /\ sent \subseteq JobIds
      /\ requester \in {"idle", "inserted"} => sent = {}
      /\ \A c \in Clients : request[c].op = "claim" => request[c].job \in sent
      /\ request \in [Clients -> Request]
  BY DEF D1SyncInv, D1Inv, D1TypeOK
<1>1. D1Inv'  BY <1>0, RunStepOfLedger, D1Step
<1>2. ASSUME run' \in RunRow, snapshot' \in [Clients -> RunRow],
             sent' \subseteq JobIds, sent \subseteq sent',
             requester' \in {"idle", "inserted"} => sent' = {},
             \A c \in Clients : request'[c].op = "claim" =>
                \/ request'[c] = request[c] \/ request'[c].job \in sent
      PROVE  D1SyncInv'
  BY <1>0, <1>1, <1>2 DEF D1SyncInv
<1>3. CASE D1Requester
  <2>1. request' = request /\ snapshot' = snapshot  BY <1>3 DEF D1Requester
  <2>2. ASSUME NEW sources \in SUBSET Sources, InsertRun(sources) PROVE D1SyncInv'
    <3>1. run' \in RunRow
      <4> DEFINE status == IF sources = {} THEN "done" ELSE "running"
      <4>1. status \in {"none", "running", "done", "failed"}  OBVIOUS
      <4> HIDE DEF status
      <4>2. run' = [NoRun EXCEPT !.status = status, !.queued = sources]
        BY <2>2 DEF InsertRun, status
      <4> QED  BY <4>1, <4>2, NoRunRow DEF RunRow
    <3>2. sent' = sent /\ sent = {}  BY <1>0, <2>2 DEF InsertRun
    <3> QED  BY <1>0, <1>2, <2>1, <3>1, <3>2
  <2>3. CASE SendJobs \/ SendFails
    <3>1. /\ run' = run /\ sent = {} /\ sent' \subseteq JobIds
          /\ requester' \in {"answered", "refused"}
      BY <1>0, <2>3 DEF SendJobs, SendFails, JobsOf
    <3> QED  BY <1>0, <1>2, <2>1, <3>1
  <2>4. CASE MarkFailed
    <3>1. run' \in RunRow  BY <1>0, <2>4 DEF MarkFailed, RunRow
    <3>2. sent' = sent /\ requester' = "thrown"  BY <2>4 DEF MarkFailed
    <3> QED  BY <1>0, <1>2, <2>1, <3>1, <3>2
  <2>5. CASE Evict
    <3>1. sent' = sent /\ run' = run /\ requester' = "evicted"  BY <2>5 DEF Evict
    <3> QED  BY <1>0, <1>2, <2>1, <3>1
  <2> QED  BY <1>3, <2>2, <2>3, <2>4, <2>5 DEF D1Requester, Requester
<1>4. ASSUME NEW c \in Clients, NEW x, request' = [request EXCEPT ![c] = x],
             x.op = "claim" => x.job \in sent,
             run' \in RunRow, snapshot' \in [Clients -> RunRow],
             UNCHANGED <<requester, sent>>
      PROVE  D1SyncInv'
  <2>1. \A d \in Clients : request'[d] = IF d = c THEN x ELSE request[d]
    BY <1>0, <1>4
  <2> QED  BY <1>0, <1>2, <1>4, <2>1
<1>5. ASSUME NEW c \in Clients, D1Collect(c) PROVE D1SyncInv'
  <2>1. PICK j \in sent : ReadToClaim(c, j)  BY <1>5 DEF D1Collect
  <2> DEFINE x == [op |-> "claim", job |-> j, seen |-> jobs[KeyOf[j]], linked |-> FALSE]
  <2>2. request' = [request EXCEPT ![c] = x]  BY <2>1 DEF ReadToClaim, Begin
  <2>3. x.job \in sent  OBVIOUS
  <2>4. UNCHANGED <<run, requester, sent, snapshot>>  BY <1>5 DEF D1Collect
  <2> HIDE DEF x
  <2> QED  BY <1>0, <1>4, <2>2, <2>3, <2>4
<1>6. ASSUME NEW c \in Clients, D1Decide(c) PROVE D1SyncInv'
  <2>1. UNCHANGED <<run, requester, sent, snapshot>>  BY <1>6 DEF D1Decide
  <2>2. PICK x : request' = [request EXCEPT ![c] = x] /\ x.op # "claim"
    <3>1. CASE ReadEnvelope(c)
      <4>1. PICK linked : linked = (envelopes[request[c].job] # "none")  OBVIOUS
      <4> DEFINE x == [request[c] EXCEPT !.op = "buried", !.linked = linked]
      <4>2. request' = [request EXCEPT ![c] = x]  BY <1>0, <3>1, <4>1 DEF ReadEnvelope
      <4>3. x.op = "buried"  BY <1>0 DEF Request
      <4> QED  BY <4>2, <4>3
    <3>2. CASE ~ReadEnvelope(c)
      <4>1. PICK j \in JobIds, outcome \in {"done", "failed", "permanent"} :
               ReadToFinish(c, j, outcome)
        BY <1>6, <3>2 DEF D1Decide
      <4>2. PICK op \in {"done", "failed", "dead"} : Begin(c, op, j)
        BY <4>1 DEF ReadToFinish
      <4> DEFINE x == [op |-> op, job |-> j, seen |-> jobs[KeyOf[j]], linked |-> FALSE]
      <4>3. request' = [request EXCEPT ![c] = x] /\ x.op # "claim"  BY <4>2 DEF Begin
      <4> QED  BY <4>3
    <3> QED  BY <3>1, <3>2
  <2> QED  BY <1>0, <1>4, <2>1, <2>2
<1>7. ASSUME NEW c \in Clients, D1Record(c) PROVE D1SyncInv'
  <2>1. UNCHANGED <<run, requester, sent, snapshot>> /\ End(c)
    BY <1>7 DEF D1Record, WriteClaim, WriteFailed
  <2> QED  BY <1>0, <1>4, <2>1, NoRequestRow DEF End
<1>8. ASSUME NEW c \in Clients, D1Complete(c) PROVE D1SyncInv'
  <2>1. UNCHANGED <<requester, sent>> /\ End(c)
    BY <1>8 DEF D1Complete, WriteDone, WriteDead
  <2>2. run' \in RunRow /\ snapshot' \in [Clients -> RunRow]
    BY <1>8, StatsWritten DEF D1Complete
  <2> QED  BY <1>4, <2>1, <2>2, NoRequestRow DEF End
<1>9. ASSUME NEW c \in Clients, ReadStats(c) PROVE D1SyncInv'
  <2>1. /\ UNCHANGED <<run, requester, sent, request>>
        /\ snapshot' = [snapshot EXCEPT ![c] = run]
    BY <1>9 DEF ReadStats, syncVars
  <2>2. snapshot' \in [Clients -> RunRow]  BY <1>0, <2>1
  <2> QED  BY <1>0, <1>2, <2>1, <2>2
<1>10. CASE D1SyncTick
  <2>1. UNCHANGED <<run, requester, sent, request, snapshot>>
    BY <1>10 DEF D1SyncTick, SyncTick
  <2> QED  BY <1>0, <1>2, <2>1
<1>11. CASE UNCHANGED d1SyncVars
  <2>1. UNCHANGED <<run, requester, sent, request, snapshot>>
    BY <1>11 DEF d1SyncVars, syncVars
  <2> QED  BY <1>0, <1>2, <2>1
<1> QED  BY <1>3, <1>5, <1>6, <1>7, <1>8, <1>9, <1>10, <1>11 DEF D1SyncNext

\* The completion of a source on the D1 backend that nobody overtook between its
\* reads, of the job and of the run, and its write does to both what the
\* PostgreSQL transaction does: prepareSyncJobCompletion implements SyncRun for
\* any number of sources and requests.
THEOREM D1KeepsRunPromise == D1SyncSpec => RunPromise
<1>1. D1SyncInv /\ [D1SyncNext]_d1SyncVars => D1SyncInv'  BY D1SyncStep
<1>2. D1SyncInv /\ [D1SyncNext]_d1SyncVars
      => [(\A c \in Clients :
             request'[c] # request[c] =>
                 /\ request[c].job \in JobsOf(Sources)
                 /\ Current(c)
                 /\ snapshot[c] \in {NoRun, run})
          => SyncNext \/ UNCHANGED syncVars]_d1SyncVars
  <2> SUFFICES ASSUME D1SyncInv, [D1SyncNext]_d1SyncVars,
                      \A c \in Clients :
                         request'[c] # request[c] =>
                             /\ request[c].job \in JobsOf(Sources)
                             /\ Current(c)
                             /\ snapshot[c] \in {NoRun, run}
               PROVE  SyncNext \/ UNCHANGED syncVars
    OBVIOUS
  <2>1. CASE D1Requester  BY <2>1 DEF D1Requester, SyncNext
  <2>2. ASSUME NEW c \in Clients, D1Collect(c) \/ D1Decide(c) \/ ReadStats(c)
        PROVE  UNCHANGED syncVars
    BY <2>2 DEF D1Collect, D1Decide, ReadStats, ReadToClaim, ReadToFinish, ReadEnvelope, Begin,
                syncVars
  <2>3. ASSUME NEW c \in Clients, End(c), request[c].op # "none"
        PROVE  /\ request[c].job \in JobsOf(Sources) /\ Current(c)
               /\ snapshot[c] \in {NoRun, run} /\ D1Inv
               /\ request[c].op = "claim" => request[c].job \in sent
    <3>1. request'[c] = NoRequest  BY <2>3 DEF End, D1SyncInv, D1Inv, D1TypeOK
    <3> QED  BY <2>3, <3>1, NoRequestRow DEF D1SyncInv
  <2>4. ASSUME NEW c \in Clients, D1Record(c) PROVE SyncNext
    <3>1. /\ UNCHANGED <<run, requester, sent>> /\ End(c)
          /\ request[c].op \in {"claim", "failed"}
      BY <2>4 DEF D1Record, WriteClaim, WriteFailed
    <3>2. request[c].job \in JobsOf(Sources) /\ Current(c) /\ D1Inv
      BY <2>3, <3>1
    <3>3. CASE WriteClaim(c)
      <4>1. ClaimJob(request[c].job) /\ request[c].op = "claim"
        BY <3>2, <3>3, ClaimWritten
      <4>2. Collect(request[c].job)  BY <2>3, <3>1, <4>1 DEF Collect
      <4> QED  BY <3>2, <4>2 DEF SyncNext
    <3>4. CASE WriteFailed(c)
      <4>1. /\ FinishFailed(request[c].job, FALSE)
            /\ ~Fatal(jobs[KeyOf[request[c].job]], FALSE)
        BY <3>2, <3>4, FailedWritten
      <4>2. CollectFailed(request[c].job, FALSE)  BY <3>1, <4>1 DEF CollectFailed
      <4> QED  BY <3>2, <4>2 DEF SyncNext, Finish
    <3> QED  BY <2>4, <3>3, <3>4 DEF D1Record
  <2>5. ASSUME NEW c \in Clients, D1Complete(c) PROVE SyncNext
    <3>1. /\ UNCHANGED <<requester, sent>> /\ End(c)
          /\ request[c].op \in {"done", "buried"}
      BY <2>5 DEF D1Complete, WriteDone, WriteDead
    <3>2. /\ request[c].job \in JobsOf(Sources) /\ Current(c) /\ D1Inv
          /\ snapshot[c] \in {NoRun, run}
      BY <2>3, <3>1
    <3>3. CASE WriteDone(c) /\ WriteStats(c, "done")
      <4>1. FinishDone(request[c].job)  BY <3>2, <3>3, DoneWritten
      <4>2. run' = Advance(run, KeyOf[request[c].job], "done")  BY <3>2, <3>3, StatsWritten
      <4>3. CollectDone(request[c].job)  BY <3>1, <4>1, <4>2 DEF CollectDone
      <4> QED  BY <3>2, <4>3 DEF SyncNext, Finish
    <3>4. CASE WriteDead(c) /\ WriteStats(c, "failed")
      <4>1. FinishFailed(request[c].job, TRUE)  BY <3>2, <3>4, DeadWritten
      <4>2. run' = Advance(run, KeyOf[request[c].job], "failed")  BY <3>2, <3>4, StatsWritten
      <4>3. Fatal(jobs[KeyOf[request[c].job]], TRUE)  BY DEF Fatal
      <4>4. CollectFailed(request[c].job, TRUE)  BY <3>1, <4>1, <4>2, <4>3 DEF CollectFailed
      <4> QED  BY <3>2, <4>4 DEF SyncNext, Finish
    <3> QED  BY <2>5, <3>3, <3>4 DEF D1Complete
  <2>6. CASE D1SyncTick  BY <2>6 DEF D1SyncTick, SyncNext
  <2>7. CASE UNCHANGED d1SyncVars  BY <2>7 DEF d1SyncVars
  <2> QED  BY <2>1, <2>2, <2>4, <2>5, <2>6, <2>7 DEF D1SyncNext
<1> QED  BY <1>1, <1>2, D1SyncFirst, PTL DEF D1SyncSpec, RunPromise

=============================================================================
