-------------------------- MODULE Backfill_proofs --------------------------
(***************************************************************************)
(* What holds of Backfill for every number of jobs, listing, source,       *)
(* cancel request and crash.                                               *)
(***************************************************************************)
EXTENDS Backfill, TLAPS

\* A job that run_job has not reached yet.
Fresh(j) ==
  /\ job[j].total = 0 /\ job[j].completed = 0 /\ job[j].failed = 0
  /\ ~job[j].finished
  /\ late[j] = 0

Counted(j) == job[j].completed + job[j].failed

\* What the row of a job says by itself.
RowOK(j) ==
  /\ Counted(j) <= job[j].total
  /\ job[j].status \in {"absent", "queued"} => Fresh(j)
  /\ job[j].status \in {"clustering", "done"} => Counted(j) = job[j].total
  /\ late[j] <= 1
  /\ job[j].finished => job[j].status \in Final /\ ~Working(j)

RowInv == \A j \in Job : RowOK(j)

\* What the local state of run_job says of the row.
SidecarInv ==
  LET pc == sidecar.pc
      n == sidecar.next
      s == job[Now].status
  IN pc \notin {"idle", "down"} =>
       /\ Now \in Job
       /\ pc \in {"claim", "scan"} => Fresh(Now) /\ n = 0
       /\ pc = "claim" => s \in {"queued", "cancelled"}
       /\ pc = "scan" => s \in {"scanning", "cancelled"}
       /\ pc \in {"loop", "file", "enqueue"} => s \in {"running", "cancelled"}
       /\ pc = "clustering" => s \in {"clustering", "cancelled"} /\ n = Len(Files[Now])
       /\ Analysing(Now) => Counted(Now) = n /\ job[Now].total = Len(Files[Now])
       /\ pc = "file" => n < Len(Files[Now]) /\ late[Now] = 0
       /\ pc \in {"loop", "enqueue"} /\ late[Now] # 0 => s = "cancelled"
       /\ pc = "enqueue" =>
            /\ n > 0
            /\ LET r == RowId(Source[Now], Files[Now][n])
               IN call[r].analysed \/ r \in tombstone

JobInv == BackfillTypeOK /\ RowInv /\ SidecarInv

-----------------------------------------------------------------------------
\* The file of a job at a position of its listing, and the row it is written to.
LEMMA FileType ==
  ASSUME NEW j \in Job, NEW n \in 1 .. Len(Files[j])
  PROVE  /\ Files[j][n] \in File
         /\ PathId[Files[j][n]] \in Id
         /\ RowId(Source[j], Files[j][n]) \in Id
  BY BackfillAssumption DEF RowId

LEMMA LenType == ASSUME NEW j \in Job PROVE Len(Files[j]) \in Nat
  BY BackfillAssumption

\* The row after a file is a row, and an analysed one where the judge is asked.
LEMMA WrittenType ==
  ASSUME NEW s \in {"audio", "otlp", "manifest"}, NEW o \in Outcome(s),
         NEW r \in CallRow
  PROVE  /\ Written(r, s, o) \in CallRow
         /\ Judgeable(s, o) => Written(r, s, o).analysed
<1>1. o \in {"ok", "transcribed", "failed", "unread", "raised"} BY DEF Outcome
<1>2. CASE o = "unread" BY <1>2 DEF Written, Judgeable, CallRow
<1>3. CASE o = "failed" BY <1>3 DEF Written, Judgeable, CallRow
<1>4. CASE o = "raised" BY <1>4 DEF Written, Judgeable, CallRow
<1>5. CASE o \in {"ok", "transcribed"} BY <1>5 DEF Written, Judgeable, CallRow
<1> QED BY <1>1, <1>2, <1>3, <1>4, <1>5

LEMMA InitJobInv == Init => JobInv
<1> SUFFICES ASSUME Init PROVE JobInv
  OBVIOUS
<1>1. BackfillTypeOK
  BY BackfillAssumption, LenType DEF Init, BackfillTypeOK, JobRow, CallRow, JobStatus, NoCall, Resting
<1>2. RowInv
  BY DEF Init, RowInv, RowOK, Fresh, Counted, Working, Resting
<1>3. SidecarInv
  BY DEF Init, SidecarInv, Resting
<1> QED BY <1>1, <1>2, <1>3 DEF JobInv

-----------------------------------------------------------------------------
(* The steps of the endpoints.                                             *)

LEMMA CreateJobInv == JobInv /\ Create => JobInv'
<1> SUFFICES ASSUME JobInv, Create PROVE JobInv'
  OBVIOUS
<1>0. BackfillTypeOK /\ RowInv /\ SidecarInv
  BY DEF JobInv
<1>1. PICK j \in Job : /\ job[j].status = "absent"
                       /\ job' = [job EXCEPT ![j].status = "queued"]
  BY DEF Create
<1>2. UNCHANGED <<call, tombstone, asked, sidecar, canceller, late, crashes>>
  BY DEF Create
<1>3. job \in [Job -> JobRow] /\ job[j] \in JobRow
  BY <1>0 DEF BackfillTypeOK
<1>4. \A i \in Job : i # j => job'[i] = job[i]
  BY <1>1, <1>3
<1>5. job'[j] = [job[j] EXCEPT !.status = "queued"]
  BY <1>1, <1>3
<1>6. /\ job'[j].status = "queued" /\ job'[j].total = job[j].total
      /\ job'[j].completed = job[j].completed /\ job'[j].failed = job[j].failed
      /\ job'[j].finished = job[j].finished
  BY <1>3, <1>5 DEF JobRow
<1>7. job' \in [Job -> JobRow]
  BY <1>1, <1>3 DEF JobRow, JobStatus
<1>8. BackfillTypeOK'
  BY <1>0, <1>2, <1>4, <1>6, <1>7 DEF BackfillTypeOK
<1>9. RowInv'
  BY <1>0, <1>1, <1>2, <1>4, <1>6 DEF RowInv, RowOK, Fresh, Counted, Working
<1>10. ~Working(j)
  BY <1>0, <1>1 DEF SidecarInv, Working, Now, BackfillTypeOK
<1>11. SidecarInv'
  BY <1>0, <1>2, <1>4, <1>10 DEF SidecarInv, Fresh, Counted, Working, Analysing, Now, RowId
<1> QED BY <1>8, <1>9, <1>11 DEF JobInv

LEMMA CancelJobInv ==
  ASSUME NEW j \in Job, JobInv, CancelRead(j) \/ CancelWrite(j)
  PROVE  JobInv'
<1>0. BackfillTypeOK /\ RowInv /\ SidecarInv
  BY DEF JobInv
<1>1. CASE CancelRead(j)
  <2>1. UNCHANGED <<job, call, tombstone, asked, sidecar, late, crashes>>
    BY <1>1 DEF CancelRead
  <2>2. canceller[j].count + 1 \in 0 .. MaxCancel
    BY <1>0, <1>1, BackfillAssumption DEF CancelRead, BackfillTypeOK
  <2>3. canceller' \in [Job -> [count : 0 .. MaxCancel, read : BOOLEAN]]
    BY <1>0, <1>1, <2>2 DEF CancelRead, BackfillTypeOK
  <2>4. BackfillTypeOK'
    BY <1>0, <2>1, <2>3 DEF BackfillTypeOK
  <2>5. RowInv' /\ SidecarInv'
    BY <1>0, <2>1 DEF RowInv, RowOK, SidecarInv, Fresh, Counted, Working, Analysing, Now, RowId
  <2> QED BY <2>4, <2>5 DEF JobInv
<1>2. CASE CancelWrite(j)
  <2>1. UNCHANGED <<call, tombstone, asked, sidecar, late, crashes>>
    BY <1>2 DEF CancelWrite
  <2>2. job \in [Job -> JobRow] /\ job[j] \in JobRow
    BY <1>0 DEF BackfillTypeOK
  <2>3. \A i \in Job : i # j => job'[i] = job[i]
    BY <1>2, <2>2 DEF CancelWrite
  <2>4. job'[j] = [job[j] EXCEPT !.status = "cancelled"]
    BY <1>2, <2>2 DEF CancelWrite
  <2>5. /\ job'[j].status = "cancelled" /\ job'[j].total = job[j].total
        /\ job'[j].completed = job[j].completed /\ job'[j].failed = job[j].failed
        /\ job'[j].finished = job[j].finished
    BY <2>2, <2>4 DEF JobRow
  <2>6. job' \in [Job -> JobRow]
    BY <1>2, <2>2 DEF CancelWrite, JobRow, JobStatus, Final
  <2>7. canceller' \in [Job -> [count : 0 .. MaxCancel, read : BOOLEAN]]
    BY <1>0, <1>2 DEF CancelWrite, BackfillTypeOK
  <2>8. BackfillTypeOK'
    BY <1>0, <2>1, <2>3, <2>5, <2>6, <2>7 DEF BackfillTypeOK
  <2>9. RowInv'
    BY <1>0, <2>1, <2>3, <2>5 DEF RowInv, RowOK, Fresh, Counted, Working, Final
  <2>10. SidecarInv'
    BY <1>0, <2>1, <2>3, <2>5 DEF SidecarInv, Fresh, Counted, Working, Analysing, Now, RowId
  <2> QED BY <2>8, <2>9, <2>10 DEF JobInv
<1> QED BY <1>1, <1>2

LEMMA CallsJobInv ==
  ASSUME NEW i \in Id, JobInv, OtherInsert(i) \/ Erase(i)
  PROVE  JobInv'
<1>0. BackfillTypeOK /\ RowInv /\ SidecarInv
  BY DEF JobInv
<1>1. UNCHANGED <<job, asked, sidecar, canceller, late, crashes>>
  BY DEF OtherInsert, Erase
<1>2. call' \in [Id -> CallRow] /\ tombstone' \subseteq Id
  <2>1. call \in [Id -> CallRow] /\ call[i] \in CallRow /\ tombstone \subseteq Id
    BY <1>0 DEF BackfillTypeOK
  <2>2. [call[i] EXCEPT !.status = "awaiting_media"] \in CallRow /\ NoCall \in CallRow
    BY <2>1 DEF CallRow, NoCall
  <2>3. CASE OtherInsert(i) BY <2>1, <2>2, <2>3 DEF OtherInsert
  <2>4. CASE Erase(i) BY <2>1, <2>2, <2>4 DEF Erase
  <2> QED BY <2>3, <2>4
<1>3. BackfillTypeOK'
  BY <1>0, <1>1, <1>2 DEF BackfillTypeOK
<1>4. RowInv'
  BY <1>0, <1>1 DEF RowInv, RowOK, Fresh, Counted, Working
<1>5. \A r \in Id : call[r].analysed \/ r \in tombstone => call'[r].analysed \/ r \in tombstone'
  <2>1. call \in [Id -> CallRow] BY <1>0 DEF BackfillTypeOK
  <2>2. CASE OtherInsert(i)
    <3>1. tombstone' = tombstone /\ call' = [call EXCEPT ![i].status = "awaiting_media"]
      BY <2>2 DEF OtherInsert
    <3>2. [call[i] EXCEPT !.status = "awaiting_media"].analysed = call[i].analysed
      BY <2>1 DEF CallRow
    <3> QED BY <2>1, <3>1, <3>2
  <2>3. CASE Erase(i)
    <3>1. i \in tombstone' /\ tombstone \subseteq tombstone' /\ \A r \in Id \ {i} : call'[r] = call[r]
      BY <2>1, <2>3 DEF Erase
    <3> QED BY <3>1
  <2> QED BY <2>2, <2>3
<1>6. SidecarInv'
  <2>1. CASE sidecar.pc = "enqueue"
    <3>1. Now \in Job /\ sidecar.next \in 1 .. Len(Files[Now])
      BY <1>0, <2>1, LenType DEF SidecarInv, RowInv, RowOK, Counted, Analysing, BackfillTypeOK, Now
    <3>2. RowId(Source[Now], Files[Now][sidecar.next]) \in Id BY <3>1, FileType
    <3> QED BY <1>0, <1>1, <1>5, <2>1, <3>2
         DEF SidecarInv, Fresh, Counted, Working, Analysing, Now, RowId
  <2>2. CASE sidecar.pc # "enqueue"
    BY <1>0, <1>1, <2>2 DEF SidecarInv, Fresh, Counted, Working, Analysing, Now
  <2> QED BY <2>1, <2>2
<1> QED BY <1>3, <1>4, <1>6 DEF JobInv

-----------------------------------------------------------------------------
(* The steps of the sidecar.                                               *)

\* What holds while the sidecar is at work on a job.
LEMMA AtWork ==
  ASSUME BackfillTypeOK, SidecarInv, sidecar.pc \notin {"idle", "down"}
  PROVE  \E j \in Job : /\ sidecar.job = j /\ job[j] \in JobRow /\ late[j] \in Nat
                        /\ Len(Files[j]) \in Nat
                        /\ \A i \in Job : i # j => ~Working(i)
  BY LenType DEF BackfillTypeOK, SidecarInv, Working, Now

\* The sidecar lets go of its job and leaves the tables alone.
LEMMA LetGoJobInv == JobInv /\ (FlushRaises \/ Crash \/ Restart) => JobInv'
<1> SUFFICES ASSUME JobInv, FlushRaises \/ Crash \/ Restart PROVE JobInv'
  OBVIOUS
<1>0. BackfillTypeOK /\ RowInv /\ SidecarInv
  BY DEF JobInv
<1>1. /\ UNCHANGED <<job, call, tombstone, asked, canceller, late>>
      /\ sidecar' \in {Resting, [Resting EXCEPT !.pc = "down"]}
  BY DEF FlushRaises, Crash, Restart
<1>2. crashes' \in 0 .. MaxCrash
  BY <1>0, BackfillAssumption DEF FlushRaises, Crash, Restart, BackfillTypeOK
<1>3. /\ sidecar'.pc \in {"idle", "down"}
      /\ sidecar' \in [pc : {"idle", "down"}, job : Nat, next : Nat, found : BOOLEAN]
  <2>1. CASE sidecar' = Resting BY <2>1 DEF Resting
  <2>2. CASE sidecar' = [Resting EXCEPT !.pc = "down"] BY <2>2 DEF Resting
  <2> QED BY <1>1, <2>1, <2>2
<1>4. BackfillTypeOK'
  BY <1>0, <1>1, <1>2, <1>3 DEF BackfillTypeOK
<1>5. RowInv'
  BY <1>0, <1>1, <1>3 DEF RowInv, RowOK, Fresh, Counted, Working
<1>6. SidecarInv'
  BY <1>3 DEF SidecarInv
<1> QED BY <1>4, <1>5, <1>6 DEF JobInv

LEMMA ClaimReadJobInv == JobInv /\ ClaimRead => JobInv'
<1> SUFFICES ASSUME JobInv, ClaimRead PROVE JobInv'
  OBVIOUS
<1>0. BackfillTypeOK /\ RowInv /\ SidecarInv
  BY DEF JobInv
<1>1. PICK j \in Oldest : sidecar' = [Resting EXCEPT !.pc = "claim", !.job = j]
  BY DEF ClaimRead
<1>2. j \in Job /\ j \in Nat /\ job[j].status = "queued"
  BY BackfillAssumption DEF Oldest, Queued, Job
<1>3. UNCHANGED <<job, call, tombstone, asked, canceller, late, crashes>>
  BY DEF ClaimRead
<1>4. /\ sidecar'.pc = "claim" /\ sidecar'.job = j /\ sidecar'.next = 0
      /\ sidecar' \in [pc : {"claim"}, job : Nat, next : Nat, found : BOOLEAN]
  BY <1>1, <1>2 DEF Resting
<1>5. BackfillTypeOK'
  BY <1>0, <1>3, <1>4 DEF BackfillTypeOK
<1>6. Fresh(j)
  BY <1>0, <1>2 DEF RowInv, RowOK
<1>7. RowInv'
  BY <1>0, <1>3, <1>4, <1>6 DEF RowInv, RowOK, Fresh, Counted, Working
<1>8. SidecarInv'
  BY <1>2, <1>3, <1>4, <1>6 DEF SidecarInv, Fresh, Counted, Analysing, Now
<1> QED BY <1>5, <1>7, <1>8 DEF JobInv

\* A write to the row of one job keeps what the rows of the others say.
LEMMA OneRow ==
  ASSUME BackfillTypeOK, RowInv, NEW j \in Job,
         \A i \in Job : i # j => job'[i] = job[i] /\ late'[i] = late[i] /\ ~Working(i)',
         job'[j].total <= Len(Files[j]), RowOK(j)'
  PROVE  RowInv' /\ \A i \in Job : job'[i].total <= Len(Files[i])
<1>1. ASSUME NEW i \in Job, i # j PROVE RowOK(i)'
  BY <1>1 DEF RowInv, RowOK, Fresh, Counted
<1>2. RowInv' BY <1>1 DEF RowInv
<1>3. \A i \in Job : job'[i].total <= Len(Files[i])
  BY DEF BackfillTypeOK
<1> QED BY <1>2, <1>3

\* A status write that keeps the sidecar on its job, at pc.
LEMMA KeepsOn ==
  ASSUME BackfillTypeOK, NEW pc \in {"scan", "loop", "clustering"}, Goto(pc)
  PROVE  /\ sidecar'.pc = pc /\ sidecar'.job = sidecar.job /\ sidecar'.next = sidecar.next
         /\ sidecar' \in [pc : {"scan", "loop", "clustering"},
                          job : Nat, next : Nat, found : BOOLEAN]
  BY DEF Goto, BackfillTypeOK

LEMMA ClaimWriteJobInv == JobInv /\ ClaimWrite => JobInv'
<1> SUFFICES ASSUME JobInv, ClaimWrite PROVE JobInv'
  OBVIOUS
<1>0. BackfillTypeOK /\ RowInv /\ SidecarInv
  BY DEF JobInv
<1>1. sidecar.pc = "claim" /\ Goto("scan")
  BY DEF ClaimWrite
<1>2. UNCHANGED <<call, tombstone, asked, canceller, late, crashes>>
  BY DEF ClaimWrite
<1>3. PICK j \in Job : /\ sidecar.job = j /\ job[j] \in JobRow /\ late[j] \in Nat
                        /\ Len(Files[j]) \in Nat
                        /\ \A i \in Job : i # j => ~Working(i)
  BY <1>0, <1>1, AtWork
<1>4. Fresh(j) /\ sidecar.next = 0
  BY <1>0, <1>1, <1>3 DEF SidecarInv, Now
<1>5. job' = [job EXCEPT ![j].status = "scanning"]
  BY <1>3 DEF ClaimWrite, Now
<1>6. /\ \A i \in Job : i # j => job'[i] = job[i]
      /\ job'[j] = [job[j] EXCEPT !.status = "scanning"]
      /\ job' \in [Job -> JobRow]
  BY <1>0, <1>3, <1>5 DEF BackfillTypeOK, JobRow, JobStatus, Active
<1>7. /\ job'[j].status = "scanning" /\ job'[j].total = job[j].total
      /\ job'[j].completed = job[j].completed /\ job'[j].failed = job[j].failed
      /\ job'[j].finished = job[j].finished
  BY <1>3, <1>6 DEF JobRow
<1>8. sidecar'.pc = "scan" /\ sidecar'.job = j /\ sidecar'.next = sidecar.next
  BY <1>0, <1>1, <1>3, KeepsOn
<1>9. RowOK(j)'
  BY <1>0, <1>2, <1>3, <1>4, <1>7 DEF RowInv, RowOK, Fresh, Counted, JobRow
<1>10. RowInv' /\ \A i \in Job : job'[i].total <= Len(Files[i])
  <2>1. \A i \in Job : i # j => ~Working(i)' BY <1>8 DEF Working
  <2>2. job'[j].total <= Len(Files[j]) BY <1>0, <1>3, <1>7 DEF BackfillTypeOK
  <2> QED BY <1>0, <1>2, <1>6, <1>9, <2>1, <2>2, OneRow
<1>11. BackfillTypeOK'
  BY <1>0, <1>1, <1>2, <1>6, <1>10, KeepsOn DEF BackfillTypeOK
<1>12. SidecarInv'
  BY <1>2, <1>3, <1>4, <1>7, <1>8 DEF SidecarInv, Fresh, Counted, Analysing, Now
<1> QED BY <1>10, <1>11, <1>12 DEF JobInv

LEMMA ScanJobInv == JobInv /\ Scan => JobInv'
<1> SUFFICES ASSUME JobInv, Scan PROVE JobInv'
  OBVIOUS
<1>0. BackfillTypeOK /\ RowInv /\ SidecarInv
  BY DEF JobInv
<1>1. sidecar.pc = "scan" /\ Goto("loop")
  BY DEF Scan
<1>2. UNCHANGED <<call, tombstone, asked, canceller, late, crashes>>
  BY DEF Scan
<1>3. PICK j \in Job : /\ sidecar.job = j /\ job[j] \in JobRow /\ late[j] \in Nat
                        /\ Len(Files[j]) \in Nat
                        /\ \A i \in Job : i # j => ~Working(i)
  BY <1>0, <1>1, AtWork
<1>4. Fresh(j) /\ sidecar.next = 0
  BY <1>0, <1>1, <1>3 DEF SidecarInv, Now
<1>5. job' = [job EXCEPT ![j].status = "running", ![j].total = Len(Files[j])]
  BY <1>3 DEF Scan, Now, Total
<1>6. /\ \A i \in Job : i # j => job'[i] = job[i]
      /\ job'[j] = [job[j] EXCEPT !.status = "running", !.total = Len(Files[j])]
      /\ job' \in [Job -> JobRow]
  BY <1>0, <1>3, <1>5 DEF BackfillTypeOK, JobRow, JobStatus, Active
<1>7. /\ job'[j].status = "running" /\ job'[j].total = Len(Files[j])
      /\ job'[j].completed = job[j].completed /\ job'[j].failed = job[j].failed
      /\ job'[j].finished = job[j].finished
  BY <1>3, <1>6 DEF JobRow
<1>8. sidecar'.pc = "loop" /\ sidecar'.job = j /\ sidecar'.next = sidecar.next
  BY <1>0, <1>1, <1>3, KeepsOn
<1>9. RowOK(j)'
  BY <1>0, <1>2, <1>3, <1>4, <1>7 DEF RowInv, RowOK, Fresh, Counted, JobRow
<1>10. RowInv' /\ \A i \in Job : job'[i].total <= Len(Files[i])
  <2>1. \A i \in Job : i # j => ~Working(i)' BY <1>8 DEF Working
  <2>2. job'[j].total <= Len(Files[j]) BY <1>0, <1>3, <1>7 DEF BackfillTypeOK
  <2> QED BY <1>0, <1>2, <1>6, <1>9, <2>1, <2>2, OneRow
<1>11. BackfillTypeOK'
  BY <1>0, <1>1, <1>2, <1>6, <1>10, KeepsOn DEF BackfillTypeOK
<1>12. SidecarInv'
  BY <1>2, <1>3, <1>4, <1>7, <1>8 DEF SidecarInv, Fresh, Counted, Analysing, Now
<1> QED BY <1>10, <1>11, <1>12 DEF JobInv

LEMMA ClusterJobInv == JobInv /\ Cluster => JobInv'
<1> SUFFICES ASSUME JobInv, Cluster PROVE JobInv'
  OBVIOUS
<1>0. BackfillTypeOK /\ RowInv /\ SidecarInv
  BY DEF JobInv
<1>1. sidecar.pc = "loop" /\ Goto("clustering") /\ ~More
  BY DEF Cluster
<1>2. UNCHANGED <<call, tombstone, asked, canceller, late, crashes>>
  BY DEF Cluster
<1>3. PICK j \in Job : /\ sidecar.job = j /\ job[j] \in JobRow /\ late[j] \in Nat
                        /\ Len(Files[j]) \in Nat
                        /\ \A i \in Job : i # j => ~Working(i)
  BY <1>0, <1>1, AtWork
<1>4. /\ Counted(j) = sidecar.next /\ job[j].total = Len(Files[j])
      /\ sidecar.next = Len(Files[j]) /\ ~job[j].finished
  <2>1. /\ Counted(j) = sidecar.next /\ job[j].total = Len(Files[j])
        /\ sidecar.next \in Nat /\ job[j].status \in {"running", "cancelled"}
    BY <1>0, <1>1, <1>3 DEF SidecarInv, Analysing, Now, BackfillTypeOK
  <2>2. Counted(j) <= job[j].total /\ ~job[j].finished
    BY <1>0, <1>1, <1>3 DEF RowInv, RowOK, Working
  <2> QED BY <1>1, <1>3, <2>1, <2>2 DEF More, Now
<1>5. job' = [job EXCEPT ![j].status = "clustering"]
  BY <1>3 DEF Cluster, Now
<1>6. /\ \A i \in Job : i # j => job'[i] = job[i]
      /\ job'[j] = [job[j] EXCEPT !.status = "clustering"]
      /\ job' \in [Job -> JobRow]
  BY <1>0, <1>3, <1>5 DEF BackfillTypeOK, JobRow, JobStatus, Active
<1>7. /\ job'[j].status = "clustering" /\ job'[j].total = job[j].total
      /\ job'[j].completed = job[j].completed /\ job'[j].failed = job[j].failed
      /\ job'[j].finished = job[j].finished
  BY <1>3, <1>6 DEF JobRow
<1>8. sidecar'.pc = "clustering" /\ sidecar'.job = j /\ sidecar'.next = sidecar.next
  BY <1>0, <1>1, <1>3, KeepsOn
<1>9. RowOK(j)'
  BY <1>0, <1>2, <1>3, <1>4, <1>7 DEF RowInv, RowOK, Fresh, Counted, JobRow
<1>10. RowInv' /\ \A i \in Job : job'[i].total <= Len(Files[i])
  <2>1. \A i \in Job : i # j => ~Working(i)' BY <1>8 DEF Working
  <2>2. job'[j].total <= Len(Files[j]) BY <1>0, <1>3, <1>7 DEF BackfillTypeOK
  <2> QED BY <1>0, <1>2, <1>6, <1>9, <2>1, <2>2, OneRow
<1>11. BackfillTypeOK'
  BY <1>0, <1>1, <1>2, <1>6, <1>10, KeepsOn DEF BackfillTypeOK
<1>12. SidecarInv'
  BY <1>2, <1>3, <1>4, <1>7, <1>8 DEF SidecarInv, Fresh, Counted, Analysing, Now
<1> QED BY <1>10, <1>11, <1>12 DEF JobInv

\* _finish, wherever run_job calls it: the job ends and the sidecar rests.
LEMMA FinishJobInv ==
  ASSUME JobInv, sidecar.pc \notin {"idle", "down"}, NEW st \in Final, Finish(st),
         st = "done" => Counted(Now) = job[Now].total
  PROVE  JobInv'
<1>0. BackfillTypeOK /\ RowInv /\ SidecarInv
  BY DEF JobInv
<1>1. UNCHANGED <<call, tombstone, asked, canceller, late, crashes>> /\ sidecar' = Resting
  BY DEF Finish
<1>2. PICK j \in Job : /\ sidecar.job = j /\ job[j] \in JobRow /\ late[j] \in Nat
                        /\ Len(Files[j]) \in Nat
                        /\ \A i \in Job : i # j => ~Working(i)
  BY <1>0, AtWork
<1>3. job' = [job EXCEPT ![j].status = st, ![j].finished = TRUE]
  BY <1>2 DEF Finish, Now
<1>4. /\ \A i \in Job : i # j => job'[i] = job[i]
      /\ job'[j] = [job[j] EXCEPT !.status = st, !.finished = TRUE]
      /\ job' \in [Job -> JobRow]
  BY <1>0, <1>2, <1>3 DEF BackfillTypeOK, JobRow, JobStatus
<1>5. /\ job'[j].status = st /\ job'[j].total = job[j].total
      /\ job'[j].completed = job[j].completed /\ job'[j].failed = job[j].failed
      /\ job'[j].finished
  BY <1>2, <1>4 DEF JobRow
<1>6. /\ sidecar'.pc = "idle"
      /\ sidecar' \in [pc : {"idle"}, job : Nat, next : Nat, found : BOOLEAN]
  BY <1>1 DEF Resting
<1>7. RowOK(j)'
  <2>1. Counted(j) <= job[j].total /\ late[j] <= 1 BY <1>0 DEF RowInv, RowOK
  <2>2. st = "done" => Counted(j) = job[j].total BY <1>2 DEF Now
  <2> QED BY <1>1, <1>5, <1>6, <2>1, <2>2 DEF RowOK, Fresh, Counted, Working, Final
<1>8. RowInv' /\ \A i \in Job : job'[i].total <= Len(Files[i])
  <2>1. \A i \in Job : i # j => ~Working(i)' BY <1>6 DEF Working
  <2>2. job'[j].total <= Len(Files[j]) BY <1>0, <1>5 DEF BackfillTypeOK
  <2> QED BY <1>0, <1>1, <1>4, <1>7, <2>1, <2>2, OneRow
<1>9. BackfillTypeOK'
  BY <1>0, <1>1, <1>4, <1>6, <1>8 DEF BackfillTypeOK
<1>10. SidecarInv'
  BY <1>6 DEF SidecarInv
<1> QED BY <1>8, <1>9, <1>10 DEF JobInv

LEMMA FinishesJobInv == JobInv /\ (ScanFails \/ Stop \/ Done) => JobInv'
<1>1. ASSUME JobInv, ScanFails PROVE JobInv'
  BY <1>1, FinishJobInv DEF ScanFails, Final
<1>2. ASSUME JobInv, Stop PROVE JobInv'
  BY <1>2, FinishJobInv DEF Stop, Final
<1>3. ASSUME JobInv, Done PROVE JobInv'
  <2>1. sidecar.pc = "clustering" /\ Finish("done") BY <1>3 DEF Done
  <2>2. Counted(Now) = job[Now].total
    BY <1>3, <2>1 DEF JobInv, SidecarInv, Analysing, Now
  <2> QED BY <1>3, <2>1, <2>2, FinishJobInv DEF Final
<1> QED BY <1>1, <1>2, <1>3

LEMMA SelectJobInv == JobInv /\ Select => JobInv'
<1> SUFFICES ASSUME JobInv, Select PROVE JobInv'
  OBVIOUS
<1>0. BackfillTypeOK /\ RowInv /\ SidecarInv
  BY DEF JobInv
<1>1. /\ sidecar.pc = "loop" /\ sidecar.next < Len(Files[Now]) /\ job[Now].status # "cancelled"
      /\ UNCHANGED <<job, call, tombstone, asked, canceller, late, crashes>>
      /\ sidecar' = [sidecar EXCEPT !.pc = "file", !.found = call[Row].status # "absent"]
  BY DEF Select, More, IsCancelled
<1>2. /\ sidecar'.pc = "file" /\ sidecar'.job = sidecar.job /\ sidecar'.next = sidecar.next
      /\ sidecar' \in [pc : {"file"}, job : Nat, next : Nat, found : BOOLEAN]
  BY <1>0, <1>1 DEF BackfillTypeOK
<1>3. BackfillTypeOK'
  BY <1>0, <1>1, <1>2 DEF BackfillTypeOK
<1>4. RowInv'
  BY <1>0, <1>1, <1>2 DEF RowInv, RowOK, Fresh, Counted, Working
<1>5. SidecarInv'
  BY <1>0, <1>1, <1>2 DEF SidecarInv, Counted, Analysing, Now
<1> QED BY <1>3, <1>4, <1>5 DEF JobInv

LEMMA EnqueueJobInv == JobInv /\ Enqueue => JobInv'
<1> SUFFICES ASSUME JobInv, Enqueue PROVE JobInv'
  OBVIOUS
<1>0. BackfillTypeOK /\ RowInv /\ SidecarInv
  BY DEF JobInv
<1>1. /\ sidecar.pc = "enqueue" /\ Goto("loop")
      /\ UNCHANGED <<job, call, tombstone, canceller, late, crashes>>
      /\ asked' = asked \cup {PathId[Files[Now][sidecar.next]]}
  BY DEF Enqueue
<1>2. Now \in Job /\ sidecar.next \in 1 .. Len(Files[Now])
  BY <1>0, <1>1, LenType DEF SidecarInv, RowInv, RowOK, Counted, Analysing, BackfillTypeOK, Now
<1>3. PathId[Files[Now][sidecar.next]] \in Id
  BY <1>2, FileType
<1>4. BackfillTypeOK'
  BY <1>0, <1>1, <1>3, KeepsOn DEF BackfillTypeOK
<1>5. sidecar'.pc = "loop" /\ sidecar'.job = sidecar.job /\ sidecar'.next = sidecar.next
  BY <1>0, <1>1, KeepsOn
<1>6. RowInv'
  BY <1>0, <1>1, <1>5 DEF RowInv, RowOK, Fresh, Counted, Working
<1>7. SidecarInv'
  BY <1>0, <1>1, <1>5 DEF SidecarInv, Counted, Analysing, Now
<1> QED BY <1>4, <1>6, <1>7 DEF JobInv

LEMMA ProcessJobInv == JobInv /\ Process => JobInv'
<1> SUFFICES ASSUME JobInv, Process PROVE JobInv'
  OBVIOUS
<1>0. BackfillTypeOK /\ RowInv /\ SidecarInv
  BY DEF JobInv
<1>1. sidecar.pc = "file" /\ UNCHANGED <<tombstone, asked, canceller, crashes>>
  BY DEF Process
<1>2. PICK j \in Job : /\ sidecar.job = j /\ job[j] \in JobRow /\ late[j] \in Nat
                        /\ Len(Files[j]) \in Nat
                        /\ \A i \in Job : i # j => ~Working(i)
  BY <1>0, <1>1, AtWork
<1> DEFINE n == sidecar.next + 1
           s == Source[j]
           r == RowId(s, Files[j][n])
<1>3. /\ Counted(j) = sidecar.next /\ job[j].total = Len(Files[j])
      /\ sidecar.next \in Nat /\ sidecar.next < Len(Files[j]) /\ late[j] = 0
      /\ job[j].status \in {"running", "cancelled"} /\ ~job[j].finished
  BY <1>0, <1>1, <1>2 DEF SidecarInv, Analysing, Now, BackfillTypeOK, RowInv, RowOK, Working
<1>4. n \in 1 .. Len(Files[j]) /\ r \in Id /\ s \in {"audio", "otlp", "manifest"}
  <2>1. n \in 1 .. Len(Files[j])
    BY <1>2, <1>3
  <2>2. r \in Id
    <3> HIDE DEF n
    <3> QED BY <2>1, FileType
  <2>3. s \in {"audio", "otlp", "manifest"}
    BY BackfillAssumption
  <2> QED BY <2>1, <2>2, <2>3
<1>5. r = Row
  BY <1>2 DEF Row, Current, Now
<1>6. PICK o \in Outcome(s) :
        /\ call' = [call EXCEPT ![r] = Written(@, s, o)]
        /\ job' = [job EXCEPT ![j].completed = @ + (IF Completed(o) THEN 1 ELSE 0),
                              ![j].failed = @ + (IF Failed(o) THEN 1 ELSE 0)]
        /\ sidecar' = [sidecar EXCEPT !.pc = AfterFile(s, o), !.next = @ + 1]
  BY <1>2, <1>5 DEF Process, Now
<1> HIDE DEF r, s
<1>7. call' \in [Id -> CallRow] /\ (Judgeable(s, o) => call'[r].analysed)
  <2>1. call \in [Id -> CallRow] /\ call[r] \in CallRow BY <1>0, <1>4 DEF BackfillTypeOK
  <2>2. Written(call[r], s, o) \in CallRow /\ (Judgeable(s, o) => Written(call[r], s, o).analysed)
    BY <1>4, <2>1, WrittenType
  <2> QED BY <1>4, <1>6, <2>1, <2>2
<1>8. /\ \A i \in Job : i # j => job'[i] = job[i]
      /\ job'[j] = [job[j] EXCEPT !.completed = @ + (IF Completed(o) THEN 1 ELSE 0),
                                  !.failed = @ + (IF Failed(o) THEN 1 ELSE 0)]
      /\ job' \in [Job -> JobRow]
  <2> DEFINE new == [job[j] EXCEPT !.completed = @ + (IF Completed(o) THEN 1 ELSE 0),
                                   !.failed = @ + (IF Failed(o) THEN 1 ELSE 0)]
  <2>1. job \in [Job -> JobRow] BY <1>0 DEF BackfillTypeOK
  <2>2. new \in JobRow
    <3> DEFINE c == job[j].completed + (IF Completed(o) THEN 1 ELSE 0)
               f == job[j].failed + (IF Failed(o) THEN 1 ELSE 0)
    <3>1. c \in Nat /\ f \in Nat BY <1>2 DEF JobRow
    <3>2. new = [job[j] EXCEPT !.completed = c, !.failed = f] OBVIOUS
    <3> HIDE DEF c, f, new
    <3> QED BY <1>2, <3>1, <3>2 DEF JobRow
  <2>3. job' = [job EXCEPT ![j] = new]
    <3> DEFINE c == IF Completed(o) THEN 1 ELSE 0
               f == IF Failed(o) THEN 1 ELSE 0
    <3>1. job' = [job EXCEPT ![j].completed = @ + c, ![j].failed = @ + f]
      BY <1>6
    <3>2. new = [job[j] EXCEPT !.completed = @ + c, !.failed = @ + f]
      OBVIOUS
    <3> HIDE DEF c, f, new
    <3>3. /\ DOMAIN job = Job
          /\ [job EXCEPT ![j].completed = @ + c][j] = [job[j] EXCEPT !.completed = @ + c]
      BY <2>1
    <3> QED BY <3>1, <3>2, <3>3
  <2> HIDE DEF new
  <2>4. job' \in [Job -> JobRow] /\ job'[j] = new /\ \A i \in Job : i # j => job'[i] = job[i]
    BY <2>1, <2>2, <2>3
  <2> QED BY <2>4 DEF new
<1>9. /\ job'[j].status = job[j].status /\ job'[j].total = job[j].total
      /\ job'[j].completed + job'[j].failed = job[j].completed + job[j].failed + 1
      /\ job'[j].finished = job[j].finished
  <2>1. /\ job[j].completed \in Nat /\ job[j].failed \in Nat
        /\ job'[j].completed = job[j].completed + (IF Completed(o) THEN 1 ELSE 0)
        /\ job'[j].failed = job[j].failed + (IF Failed(o) THEN 1 ELSE 0)
        /\ job'[j].status = job[j].status /\ job'[j].total = job[j].total
        /\ job'[j].finished = job[j].finished
    BY <1>2, <1>8 DEF JobRow
  <2>2. CASE Completed(o) BY <2>1, <2>2 DEF Failed
  <2>3. CASE ~Completed(o) BY <2>1, <2>3 DEF Failed
  <2> QED BY <2>2, <2>3
<1>10. /\ \A i \in Job : i # j => late'[i] = late[i]
       /\ late'[j] = IF job[j].status = "cancelled" THEN 1 ELSE 0
       /\ late' \in [Job -> Nat]
  BY <1>0, <1>2, <1>3 DEF Process, Now, BackfillTypeOK
<1>11. /\ sidecar'.pc \in {"enqueue", "loop"} /\ sidecar'.job = j /\ sidecar'.next = n
       /\ sidecar'.pc = "enqueue" => Judgeable(s, o)
       /\ sidecar' \in [pc : {"enqueue", "loop"}, job : Nat, next : Nat, found : BOOLEAN]
  <2>1. sidecar \in [pc : {"idle", "claim", "scan", "loop", "file", "enqueue", "clustering",
                          "down"},
                    job : Nat, next : Nat, found : BOOLEAN]
    BY <1>0 DEF BackfillTypeOK
  <2>2. /\ AfterFile(s, o) \in {"enqueue", "loop"}
        /\ AfterFile(s, o) = "enqueue" => Judgeable(s, o)
    BY DEF AfterFile
  <2>3. sidecar' = [sidecar EXCEPT !.pc = AfterFile(s, o), !.next = sidecar.next + 1]
    BY <1>6
  <2>4. /\ sidecar'.pc = AfterFile(s, o) /\ sidecar'.job = sidecar.job
        /\ sidecar'.next = sidecar.next + 1
    BY <2>1, <2>3
  <2>5. sidecar' \in [pc : {"enqueue", "loop"}, job : Nat, next : Nat, found : BOOLEAN]
    <3> HIDE DEF n
    <3>1. sidecar.next + 1 \in Nat BY <1>3
    <3> QED BY <2>1, <2>2, <2>3, <3>1
  <2> QED BY <1>2, <2>2, <2>4, <2>5
<1>12. RowOK(j)'
  BY <1>2, <1>3, <1>9, <1>10 DEF RowOK, Fresh, Counted
<1>13. RowInv' /\ \A i \in Job : job'[i].total <= Len(Files[i])
  <2>1. \A i \in Job : i # j => ~Working(i)' BY <1>11 DEF Working
  <2>2. job'[j].total <= Len(Files[j]) BY <1>2, <1>3, <1>9
  <2> QED BY <1>0, <1>8, <1>10, <1>12, <2>1, <2>2, OneRow
<1>14. BackfillTypeOK'
  BY <1>0, <1>1, <1>7, <1>8, <1>10, <1>11, <1>13 DEF BackfillTypeOK
<1>15. SidecarInv'
  <2>1. Analysing(Now)' => Counted(j)' = n /\ job'[j].total = Len(Files[j])
    BY <1>3, <1>9 DEF Counted
  <2>2. sidecar'.pc = "enqueue" => n > 0 /\ call'[RowId(Source[j], Files[j][n])].analysed
    BY <1>3, <1>7, <1>11 DEF r, s
  <2>3. late'[j] # 0 => job'[j].status = "cancelled"
    BY <1>9, <1>10
  <2> QED BY <1>3, <1>9, <1>11, <2>1, <2>2, <2>3 DEF SidecarInv, Now, RowId, Counted
<1> QED BY <1>13, <1>14, <1>15 DEF JobInv

-----------------------------------------------------------------------------
\* Every step keeps the invariant.
LEMMA NextJobInv == JobInv /\ [Next]_vars => JobInv'
<1> SUFFICES ASSUME JobInv, [Next]_vars PROVE JobInv'
  OBVIOUS
<1>1. CASE UNCHANGED vars
  BY <1>1 DEF JobInv, BackfillTypeOK, RowInv, RowOK, SidecarInv, Fresh, Counted, Working,
              Analysing, Now, RowId, vars
<1>2. CASE Create BY <1>2, CreateJobInv
<1>3. CASE \E j \in Job : CancelRead(j) \/ CancelWrite(j) BY <1>3, CancelJobInv
<1>4. CASE \E i \in Id : OtherInsert(i) \/ Erase(i) BY <1>4, CallsJobInv
<1>5. CASE Sidecar
  BY <1>5, ClaimReadJobInv, ClaimWriteJobInv, LetGoJobInv, FinishesJobInv, ScanJobInv,
     SelectJobInv, ProcessJobInv, EnqueueJobInv, ClusterJobInv DEF Sidecar, RunJob
<1>6. CASE Crash BY <1>6, LetGoJobInv
<1> QED BY <1>1, <1>2, <1>3, <1>4, <1>5, <1>6 DEF Next

LEMMA JobInvHolds == Spec => []JobInv
  BY InitJobInv, NextJobInv, PTL DEF Spec

\* The rows of jobs and calls and the state of the sidecar have their types.
THEOREM BackfillTypeCorrect == Spec => []BackfillTypeOK
<1>1. JobInv => BackfillTypeOK BY DEF JobInv
<1> QED BY <1>1, JobInvHolds, PTL

\* Every file is counted once, however calls are inserted and erased under the
\* job, the job is cancelled, or the sidecar dies.
THEOREM ProgressAddsUp == Spec => []CountsMatch
<1>1. JobInv => CountsMatch
  <2> SUFFICES ASSUME JobInv, NEW j \in Job
               PROVE  /\ job[j].completed + job[j].failed <= job[j].total
                      /\ Analysing(j) => /\ job[j].completed + job[j].failed = sidecar.next
                                         /\ job[j].total = Len(Files[j])
                      /\ job[j].status \in {"clustering", "done"} =>
                           job[j].completed + job[j].failed = job[j].total
    BY DEF CountsMatch
  <2>1. Analysing(j) => Counted(j) = sidecar.next /\ job[j].total = Len(Files[j])
    BY DEF JobInv, SidecarInv, Analysing, Now
  <2> QED BY <2>1 DEF JobInv, RowInv, RowOK, Counted
<1> QED BY <1>1, JobInvHolds, PTL

\* A standing cancellation lets at most the file in hand be committed.
THEOREM CancelIsPrompt == Spec => []CancelStops
<1>1. JobInv => CancelStops
  BY DEF JobInv, RowInv, RowOK, CancelStops
<1> QED BY <1>1, JobInvHolds, PTL

\* A job that run_job ended is not run again.
THEOREM EndedIsEnded == Spec => NotRunTwice
<1> DEFINE Ended == \A j \in Job : job[j].finished => job'[j].status \notin Active \cup {"queued"}
<1>1. JobInv /\ [Next]_vars => [Ended]_vars
  <2> SUFFICES ASSUME JobInv, Next, NEW j \in Job, job[j].finished
               PROVE  job'[j].status \notin Active \cup {"queued"}
    OBVIOUS
  <2>1. /\ job \in [Job -> JobRow] /\ job[j].status \in Final /\ ~Working(j)
    BY DEF JobInv, BackfillTypeOK, RowInv, RowOK
  <2>2. CASE job'[j] = job[j] BY <2>1, <2>2 DEF Final, Active
  <2>3. CASE Create BY <2>1, <2>3 DEF Create, Final, Active
  <2>4. CASE \E i \in Job : CancelWrite(i)
    BY <2>1, <2>4 DEF CancelWrite, Final, Active
  <2>5. CASE ClaimWrite \/ Scan \/ Process \/ Cluster \/ ScanFails \/ Stop \/ Done
    <3>1. Now # j
      BY <2>1, <2>5 DEF ClaimWrite, Scan, Process, Cluster, ScanFails, Stop, Done, Working, Now
    <3>2. job'[j] = job[j]
      BY <2>1, <2>5, <3>1 DEF ClaimWrite, Scan, Process, Cluster, ScanFails, Stop, Done, Finish
    <3> QED BY <2>2, <3>2
  <2>6. CASE UNCHANGED job BY <2>2, <2>6
  <2> QED BY <2>3, <2>4, <2>5, <2>6
       DEF Next, CancelRead, OtherInsert, Erase, Sidecar, RunJob, ClaimRead, Select, FlushRaises,
           Enqueue, Crash, Restart
<1> QED BY <1>1, JobInvHolds, PTL DEF Spec, NotRunTwice

\* The judge is asked for a file only after the analysis of its call is committed.
THEOREM JudgeAfterAnalysis == Spec => AskedAfterCommit
<1> DEFINE After == asked' # asked =>
                      LET r == RowId(Source[Now], Files[Now][sidecar.next])
                      IN call[r].analysed \/ r \in tombstone
<1>1. JobInv /\ [Next]_vars => [After]_vars
  <2> SUFFICES ASSUME JobInv, Next, asked' # asked PROVE After
    OBVIOUS
  <2>1. Enqueue
    BY DEF Next, Create, CancelRead, CancelWrite, OtherInsert, Erase, Sidecar, RunJob, ClaimRead,
           ClaimWrite, ScanFails, Scan, Stop, Select, Process, FlushRaises, Cluster, Done, Finish,
           Crash, Restart
  <2> QED BY <2>1 DEF Enqueue, JobInv, SidecarInv
<1> QED BY <1>1, JobInvHolds, PTL DEF Spec, AskedAfterCommit

=============================================================================
