--------------------------- MODULE JobList_proofs ---------------------------
(***************************************************************************)
(* Proofs about the job list, for any numbers of runners, adders and jobs  *)
(* and any times.                                                          *)
(***************************************************************************)
EXTENDS JobList, FiniteSetTheorems, TLAPS

RowRecord == [reserved : Times, checked : Times, last : Times]
ReadRecord == [id : Ids, reserved : Times, checked : Times, last : Times]
JobRecord == [id : Timed \cup Queued, last : Times, at : Start..MaxTime]
AddRecord == [key : Keys, found : BOOLEAN]

Reading == {"blocked?", "skip", "reserve", "reset"}
Holding == {"repeat", "start", "running", "finish", "unlock"}

(***************************************************************************)
(* Types, with what a runner knows at each of its statements. A listed row *)
(* has been inserted, and timed jobs stay listed.                          *)
(***************************************************************************)
TypeInv ==
  /\ row \in [Ids -> {NoRow} \cup RowRecord]
  /\ used \subseteq Queued
  /\ now \in Start..MaxTime
  /\ pc \in [Procs -> Labels]
  /\ read \in [Procs -> {NoRead} \cup ReadRecord]
  /\ job \in [Procs -> {NoJob} \cup JobRecord]
  /\ executed \in [Procs -> SUBSET Ids]
  /\ visited \in [Procs -> [NoParallel -> Ids \cup {"none"}]]
  /\ adding \in [Adders -> {NotAdding} \cup AddRecord]
  /\ writes \in [Queued -> Nat]
  /\ runs \in [Queued -> Nat]
  /\ owed \subseteq Keys
  /\ orphaned \subseteq Ids
  /\ \A p \in Procs :
       /\ pc[p] \in Reading => read[p] \in ReadRecord
       /\ pc[p] = "reset" => read[p].id \in Unbuildable
       /\ pc[p] \in Holding => job[p] \in JobRecord
  /\ \A i \in Timed : Listed(i)

LEMMA Numbers == /\ Times \subseteq Nat /\ Start..MaxTime \subseteq Times /\ 0 \in Times
                 /\ Interval \in Nat /\ ReserveFor \in Nat /\ RecheckCap \in Nat
                 /\ \A t \in Start..MaxTime : /\ t \in Nat /\ t + 1 \in Times
                                              /\ t + ReserveFor \in Times
                                              /\ t + RecheckCap \in Times
BY TimesAssumption DEF Times, Start

LEMMA ListedIsRecord ==
  ASSUME TypeInv, NEW i \in Ids
  PROVE  /\ Listed(i) => row[i] \in RowRecord
         /\ row[i] \in RowRecord => Listed(i)
<1>1. NoRow \notin RowRecord
  BY Numbers DEF NoRow, RowRecord
<1> QED
  BY <1>1 DEF TypeInv, Listed

(***************************************************************************)
(* What the helpers do to the types.                                       *)
(***************************************************************************)
LEMMA UpdateTyped ==
  ASSUME TypeInv, NEW i \in Ids, NEW new, Listed(i) => new \in RowRecord, Update(i, new)
  PROVE  /\ row' \in [Ids -> {NoRow} \cup RowRecord]
         /\ \A j \in Ids : row'[j] # NoRow <=> Listed(j)
         /\ \A j \in Ids : j # i => row'[j] = row[j]
         /\ row'[i] = IF Listed(i) THEN new ELSE NoRow
<1>1. NoRow \notin RowRecord
  BY Numbers DEF NoRow, RowRecord
<1> QED
  BY <1>1 DEF Update, TypeInv, Listed

LEMMA UnreserveTyped ==
  ASSUME TypeInv, NEW i \in Ids, Unreserve(i)
  PROVE  /\ row' \in [Ids -> {NoRow} \cup RowRecord]
         /\ \A j \in Ids : row'[j] # NoRow <=> Listed(j)
         /\ \A j \in Ids : j # i => row'[j] = row[j]
         /\ Listed(i) => row'[i] = [row[i] EXCEPT !.reserved = 0]
<1>1. Listed(i) => [row[i] EXCEPT !.reserved = 0] \in RowRecord
  BY ListedIsRecord, Numbers DEF RowRecord
<1> QED
  BY <1>1, UpdateTyped DEF Unreserve

LEMMA SetCheckedTyped ==
  ASSUME TypeInv, NEW i \in Ids, NEW t \in Times, SetChecked(i, t)
  PROVE  /\ row' \in [Ids -> {NoRow} \cup RowRecord]
         /\ \A j \in Ids : row'[j] # NoRow <=> Listed(j)
         /\ \A j \in Ids : j # i => row'[j] = row[j]
         /\ Listed(i) => row'[i] = [row[i] EXCEPT !.checked = t]
<1>1. Listed(i) => [row[i] EXCEPT !.checked = t] \in RowRecord
  BY ListedIsRecord, Numbers DEF RowRecord
<1> QED
  BY <1>1, UpdateTyped DEF SetChecked

(* Where Defer puts the next look. *)
LEMMA DeferTime ==
  ASSUME TypeInv, NEW p \in Procs, pc[p] = "reserve"
  PROVE  (IF NextPossibleRun(p) < now + RecheckCap
            THEN NextPossibleRun(p) ELSE now + RecheckCap) \in Times
<1>1. now \in Start..MaxTime
  BY DEF TypeInv
<1>2. read[p].last \in Nat
  BY Numbers DEF TypeInv, Reading, ReadRecord
<1>3. now \in Nat /\ now + RecheckCap \in Times /\ NextPossibleRun(p) \in Nat
  BY <1>1, <1>2, Numbers DEF NextPossibleRun
<1> QED
  BY <1>3, TimesAssumption DEF Times

LEMMA InitTyped == Init => TypeInv
<1> SUFFICES ASSUME Init PROVE TypeInv
  OBVIOUS
<1> USE DEF Init
<1>1. Start \in Start..MaxTime /\ Start \in Times /\ Start + ReserveFor \in Times
  BY TimesAssumption, Numbers DEF Start
<1>2. row \in [Ids -> {NoRow} \cup RowRecord]
  BY <1>1, Numbers DEF NewRow, RowRecord
<1>3. \A i \in Timed : Listed(i)
  BY <1>1, Numbers, KindsAssumption DEF NewRow, Listed, NoRow, Ids
<1>4. NothingVisited \in [NoParallel -> Ids \cup {"none"}]
  BY DEF NothingVisited
<1> QED
  BY <1>1, <1>2, <1>3, <1>4 DEF TypeInv, Labels, Reading, Holding

(***************************************************************************)
(* Every statement keeps the types.                                        *)
(***************************************************************************)
LEMMA EndTyped ==
  ASSUME TypeInv, NEW p \in Procs, End(p)
  PROVE  /\ pc' \in [Procs -> Labels]
         /\ read' \in [Procs -> {NoRead} \cup ReadRecord]
         /\ job' \in [Procs -> {NoJob} \cup JobRecord]
         /\ executed' \in [Procs -> SUBSET Ids]
         /\ visited' \in [Procs -> [NoParallel -> Ids \cup {"none"}]]
         /\ \A q \in Procs :
              /\ pc'[q] \in Reading => read'[q] \in ReadRecord
              /\ pc'[q] = "reset" => read'[q].id \in Unbuildable
              /\ pc'[q] \in Holding => job'[q] \in JobRecord
<1>1. NothingVisited \in [NoParallel -> Ids \cup {"none"}]
  BY DEF NothingVisited
<1> QED
  BY <1>1 DEF TypeInv, End, Labels, Reading, Holding

LEMMA TypingStep == TypeInv /\ [Next]_vars => TypeInv'
<1> SUFFICES ASSUME TypeInv, [Next]_vars PROVE TypeInv'
  OBVIOUS
<1> USE DEF Go, ForgetRead, list, runner, history
<1>a. \A p \in Procs : /\ pc[p] \in Reading => read[p] \in ReadRecord
                       /\ pc[p] \in Holding => job[p] \in JobRecord
  BY DEF TypeInv
<1>b. \A p \in Procs : pc[p] \in Holding => job[p].id \in Timed \cup Queued /\ job[p].id \in Ids
  BY <1>a DEF JobRecord, Ids
<1>c. \A p \in Procs : pc[p] \in Reading => read[p].id \in Ids
  BY <1>a DEF ReadRecord
<1>1. CASE Tick
  <2>1. now' \in Start..MaxTime
    BY <1>1, TimesAssumption DEF Tick, TypeInv, Start
  <2> QED
    BY <1>1, <2>1 DEF Tick, TypeInv, Listed
<1>2. ASSUME NEW p \in Procs, StopWorker(p) PROVE TypeInv'
  BY <1>2, EndTyped DEF StopWorker, TypeInv, Listed
<1>3. ASSUME NEW p \in Procs, Select(p) PROVE TypeInv'
  <2>1. CASE UNCHANGED runner
    BY <1>3, <2>1 DEF Select, TypeInv, Listed
  <2>2. CASE End(p)
    BY <1>3, <2>2, EndTyped DEF Select, TypeInv, Listed
  <2>3. ASSUME NEW i \in Ids, Due(i),
               read' = [read EXCEPT ![p] =
                        [id |-> i, reserved |-> row[i].reserved,
                         checked |-> row[i].checked, last |-> row[i].last]],
               Go(p, IF MustCheckClass(i) THEN "blocked?" ELSE "reserve"),
               UNCHANGED <<job, executed, visited>>
        PROVE  TypeInv'
    <3>1. row[i] \in RowRecord
      BY <2>3, ListedIsRecord DEF Due
    <3>2. read' \in [Procs -> {NoRead} \cup ReadRecord] /\ read'[p] \in ReadRecord
      BY <2>3, <3>1 DEF TypeInv, RowRecord, ReadRecord
    <3>3. PICK l \in {"blocked?", "reserve"} : pc' = [pc EXCEPT ![p] = l]
      BY <2>3
    <3> QED
      BY <1>3, <2>3, <3>2, <3>3 DEF Select, TypeInv, Listed, Labels, Reading, Holding
  <2> QED
    BY <1>3, <2>1, <2>2, <2>3 DEF Select
<1>4. ASSUME NEW p \in Procs, CheckClass(p) PROVE TypeInv'
  <2>1. CASE End(p)
    BY <1>4, <2>1, EndTyped DEF CheckClass, TypeInv, Listed
  <2>2. CASE ~ End(p)
    <3>1. read[p].id \in Ids /\ read[p] \in ReadRecord
      BY <1>4, <1>a, <1>c DEF CheckClass, Reading
    <3>2. visited' \in [Procs -> [NoParallel -> Ids \cup {"none"}]]
      BY <1>4, <2>2, <3>1 DEF CheckClass, TypeInv
    <3>3. \/ /\ \E l \in {"reserve", "skip"} : pc' = [pc EXCEPT ![p] = l]
             /\ UNCHANGED <<read, job, executed>>
          \/ /\ pc' = [pc EXCEPT ![p] = "next"]
             /\ read' = [read EXCEPT ![p] = NoRead]
             /\ UNCHANGED <<job, executed>>
      BY <1>4, <2>2 DEF CheckClass
    <3>4. UNCHANGED <<list, now, adding, history>>
      BY <1>4 DEF CheckClass
    <3> QED
      BY <3>1, <3>2, <3>3, <3>4 DEF TypeInv, Listed, Labels, Reading, Holding
  <2> QED
    BY <2>1, <2>2
<1>5. ASSUME NEW p \in Procs, Skip(p) PROVE TypeInv'
  <2>1. read[p].id \in Ids /\ now + 1 \in Times
    BY <1>5, <1>c, Numbers DEF Skip, Reading, TypeInv
  <2>2. /\ row' \in [Ids -> {NoRow} \cup RowRecord]
        /\ \A j \in Ids : row'[j] # NoRow <=> Listed(j)
    BY <1>5, <2>1, SetCheckedTyped DEF Skip
  <2> QED
    BY <1>5, <2>2 DEF Skip, TypeInv, Listed, Labels, Reading, Holding, Ids
<1>6. ASSUME NEW p \in Procs, Defer(p) PROVE TypeInv'
  <2>1. read[p].id \in Ids /\ read[p].last \in Times
    BY <1>6, <1>a DEF Defer, Reading, ReadRecord
  <2> DEFINE t == IF NextPossibleRun(p) < now + RecheckCap
                    THEN NextPossibleRun(p) ELSE now + RecheckCap
  <2>2. t \in Times
    BY <1>6, DeferTime DEF Defer
  <2>3. SetChecked(read[p].id, t)
    BY <1>6 DEF Defer
  <2> HIDE DEF t
  <2>4. /\ row' \in [Ids -> {NoRow} \cup RowRecord]
        /\ \A j \in Ids : row'[j] # NoRow <=> Listed(j)
    BY <2>1, <2>2, <2>3, SetCheckedTyped
  <2> QED
    BY <1>6, <2>4 DEF Defer, TypeInv, Listed, Labels, Reading, Holding, Ids
<1>7. ASSUME NEW p \in Procs, Reserve(p) PROVE TypeInv'
  <2> DEFINE i == read[p].id
  <2>1. /\ read[p] \in ReadRecord /\ i \in Ids /\ read[p].last \in Times
        /\ read[p].reserved \in Times
    BY <1>7, <1>a DEF Reserve, Reading, ReadRecord
  <2>2. CASE ~ Untouched(p)
    BY <1>7, <2>2 DEF Reserve, TypeInv, Listed, Labels, Reading, Holding
  <2>3. CASE Untouched(p)
    <3>1. row[i] \in RowRecord
      <4>1. row[i].reserved \in Times
        BY <2>1, <2>3 DEF Untouched
      <4>2. NoRow.reserved \notin Times
        BY Numbers DEF NoRow
      <4> QED
        BY <2>1, <4>1, <4>2 DEF TypeInv
    <3>2. /\ row' = [row EXCEPT ![i].reserved = now, ![i].checked = now]
          /\ orphaned' = orphaned \ {i}
          /\ UNCHANGED <<used, now, executed, visited, adding, adds, writes, runs, owed>>
      BY <1>7, <2>3 DEF Reserve
    <3>3. /\ row' \in [Ids -> {NoRow} \cup RowRecord]
          /\ row'[i] \in RowRecord /\ \A j \in Ids : j # i => row'[j] = row[j]
      BY <2>1, <3>1, <3>2, Numbers DEF TypeInv, RowRecord
    <3>4. NoRow \notin RowRecord
      BY Numbers DEF NoRow, RowRecord
    <3>5. \A j \in Timed : row'[j] # NoRow
      BY <3>3, <3>4 DEF TypeInv, Listed, Ids
    <3>6. CASE i \in Unbuildable
      <4>1. pc' = [pc EXCEPT ![p] = "reset"] /\ UNCHANGED <<read, job>>
        BY <1>7, <2>3, <3>6 DEF Reserve
      <4> QED
        BY <2>1, <3>2, <3>3, <3>5, <3>6, <4>1
        DEF TypeInv, Listed, Labels, Reading, Holding
    <3>7. CASE i \notin Unbuildable
      <4> DEFINE new == [id |-> i, last |-> read[p].last, at |-> now]
      <4>1. /\ job' = [job EXCEPT ![p] = new] /\ read' = [read EXCEPT ![p] = NoRead]
        BY <1>7, <2>3, <3>7 DEF Reserve
      <4>0. PICK l \in {"repeat", "start"} : pc' = [pc EXCEPT ![p] = l]
        BY <1>7, <2>3, <3>7 DEF Reserve
      <4>2. new \in JobRecord
        BY <2>1, <3>7 DEF TypeInv, JobRecord, Ids
      <4> HIDE DEF new
      <4> QED
        BY <3>2, <3>3, <3>5, <4>0, <4>1, <4>2
        DEF TypeInv, Listed, Labels, Reading, Holding
    <3> QED
      BY <3>6, <3>7
  <2> QED
    BY <2>2, <2>3
<1>8. ASSUME NEW p \in Procs, ResetUnbuildable(p) PROVE TypeInv'
  <2> DEFINE i == read[p].id
             new == [row[i] EXCEPT !.reserved = 0, !.checked = now + ReserveFor]
  <2>1. i \in Ids /\ now + ReserveFor \in Times
    BY <1>8, <1>c, Numbers DEF ResetUnbuildable, Reading, TypeInv
  <2>2. Listed(i) => new \in RowRecord
    BY <2>1, ListedIsRecord, Numbers DEF RowRecord
  <2>3. Update(i, new)
    BY <1>8 DEF ResetUnbuildable
  <2> HIDE DEF new
  <2>4. /\ row' \in [Ids -> {NoRow} \cup RowRecord]
        /\ \A j \in Ids : row'[j] # NoRow <=> Listed(j)
    BY <2>1, <2>2, <2>3, UpdateTyped
  <2> QED
    BY <1>8, <2>4 DEF ResetUnbuildable, TypeInv, Listed, Labels, Reading, Holding, Ids
<1>9. ASSUME NEW p \in Procs, pc[p] \in Holding, Unreserve(job[p].id)
      PROVE  /\ row' \in [Ids -> {NoRow} \cup RowRecord]
             /\ \A j \in Ids : row'[j] # NoRow <=> Listed(j)
  BY <1>9, <1>b, UnreserveTyped
<1>10. ASSUME NEW p \in Procs, Repeat(p) PROVE TypeInv'
  <2>1. pc[p] \in Holding
    BY <1>10 DEF Repeat, Holding
  <2>2. /\ row' \in [Ids -> {NoRow} \cup RowRecord]
        /\ \A j \in Ids : row'[j] # NoRow <=> Listed(j)
    BY <1>9, <1>10, <2>1 DEF Repeat
  <2> QED
    BY <1>10, <2>2, EndTyped DEF Repeat, TypeInv, Listed, Ids
<1>11. ASSUME NEW p \in Procs, StartQueued(p) PROVE TypeInv'
  <2>1. row' = [row EXCEPT ![job[p].id] = NoRow] /\ job[p].id \in Queued
    BY <1>11 DEF StartQueued
  <2>2. /\ row' \in [Ids -> {NoRow} \cup RowRecord]
        /\ \A i \in Timed : row'[i] # NoRow
    BY <2>1, KindsAssumption DEF TypeInv, Listed, Ids
  <2>3. runs' \in [Queued -> Nat]
    BY <1>11, <2>1 DEF StartQueued, TypeInv
  <2> QED
    BY <1>11, <2>2, <2>3 DEF StartQueued, TypeInv, Listed, Labels, Reading, Holding
<1>12. ASSUME NEW p \in Procs, StartTimed(p) PROVE TypeInv'
  <2> DEFINE i == job[p].id
             new == [row[i] EXCEPT !.last = now]
  <2>1. i \in Ids /\ now \in Times
    BY <1>12, <1>b, Numbers DEF StartTimed, Holding, TypeInv
  <2>2. Listed(i) => new \in RowRecord
    BY <2>1, ListedIsRecord DEF RowRecord
  <2>3. Update(i, new) \/ row' = row
    BY <1>12 DEF StartTimed
  <2> HIDE DEF new
  <2>4. /\ row' \in [Ids -> {NoRow} \cup RowRecord]
        /\ \A j \in Ids : row'[j] # NoRow <=> Listed(j)
    BY <2>1, <2>2, <2>3, UpdateTyped DEF TypeInv, Listed
  <2>5. PICK l \in {"running", "finish"} : pc' = [pc EXCEPT ![p] = l]
    BY <1>12 DEF StartTimed
  <2> QED
    BY <1>12, <2>4, <2>5 DEF StartTimed, TypeInv, Listed, Labels, Reading, Holding, Ids
<1>13. ASSUME NEW p \in Procs, EndRun(p) PROVE TypeInv'
  <2>1. pc[p] \in Holding
    BY <1>13 DEF EndRun, Holding
  <2>2. /\ row' \in [Ids -> {NoRow} \cup RowRecord]
        /\ \A j \in Ids : row'[j] # NoRow <=> Listed(j)
    BY <1>9, <1>13, <2>1 DEF EndRun, TypeInv, Listed
  <2> QED
    BY <1>13, <2>2 DEF EndRun, TypeInv, Listed, Labels, Reading, Holding, Ids
<1>14. ASSUME NEW p \in Procs, Finish(p) PROVE TypeInv'
  <2>1. pc[p] \in Holding
    BY <1>14 DEF Finish, Holding
  <2>2. /\ row' \in [Ids -> {NoRow} \cup RowRecord]
        /\ \A j \in Timed : row'[j] # NoRow
        /\ UNCHANGED <<used, now, adding, history>>
    BY <1>9, <1>14, <2>1 DEF Finish, TypeInv, Listed, Ids
  <2>3. CASE End(p)
    BY <2>2, <2>3, EndTyped DEF TypeInv, Listed
  <2>4. CASE Go(p, "unlock") /\ UNCHANGED <<read, job, executed, visited>>
    BY <2>1, <2>2, <2>4 DEF TypeInv, Listed, Labels, Reading, Holding
  <2>5. CASE /\ executed' = [executed EXCEPT ![p] = @ \cup {job[p].id}]
             /\ job' = [job EXCEPT ![p] = NoJob]
             /\ Go(p, "next")
             /\ UNCHANGED <<read, visited>>
    BY <1>b, <2>1, <2>2, <2>5 DEF TypeInv, Listed, Labels, Reading, Holding
  <2> QED
    BY <1>14, <2>3, <2>4, <2>5 DEF Finish
<1>15. ASSUME NEW p \in Procs, UnlockAgain(p) PROVE TypeInv'
  <2>1. pc[p] \in Holding
    BY <1>15 DEF UnlockAgain, Holding
  <2>2. /\ row' \in [Ids -> {NoRow} \cup RowRecord]
        /\ \A j \in Timed : row'[j] # NoRow
        /\ UNCHANGED <<used, now, adding, history>>
    BY <1>9, <1>15, <2>1 DEF UnlockAgain, TypeInv, Listed, Ids
  <2>3. CASE End(p)
    BY <2>2, <2>3, EndTyped DEF TypeInv, Listed
  <2>4. CASE /\ job' = [job EXCEPT ![p] = NoJob]
             /\ Go(p, "next")
             /\ UNCHANGED <<read, executed, visited>>
    BY <2>1, <2>2, <2>4 DEF TypeInv, Listed, Labels, Reading, Holding
  <2> QED
    BY <1>15, <2>3, <2>4 DEF UnlockAgain
<1>16. ASSUME NEW p \in Procs, Fatal(p) PROVE TypeInv'
  <2>1. pc[p] \in Holding
    BY <1>16 DEF Fatal, Holding
  <2>2. /\ row' \in [Ids -> {NoRow} \cup RowRecord]
        /\ \A j \in Ids : row'[j] # NoRow <=> Listed(j)
    BY <1>9, <1>16, <2>1 DEF Fatal
  <2> QED
    BY <1>16, <2>2, EndTyped DEF Fatal, TypeInv, Listed, Ids
<1>17. ASSUME NEW p \in Procs, Kill(p) PROVE TypeInv'
  <2>1. orphaned' \subseteq Ids
    BY <1>17, <1>b, <1>c DEF Kill, TypeInv, Holding, Reading
  <2> QED
    BY <1>17, <2>1, EndTyped DEF Kill, TypeInv, Listed
<1>18. ASSUME NEW a \in Adders, NEW k \in Keys, BeginAdd(a, k) PROVE TypeInv'
  <2>1. Has(k) \in BOOLEAN
    BY DEF Has
  <2>2. [key |-> k, found |-> Has(k)] \in AddRecord
    BY <2>1 DEF AddRecord
  <2> QED
    BY <1>18, <2>2 DEF BeginAdd, TypeInv, Listed
<1>19. ASSUME NEW a \in Adders, EndAdd(a) PROVE TypeInv'
  <2>1. adding[a] \in AddRecord
    BY <1>19 DEF EndAdd, TypeInv
  <2>2. PICK firstCheck \in {now, now + 1} :
       IF adding[a].found
         THEN /\ row' = [i \in Ids |->
                   IF i \in Queued /\ Listed(i) /\ KeyOf[i] = adding[a].key
                     THEN NewRow(firstCheck) ELSE row[i]]
              /\ writes' = [i \in Queued |->
                   IF Listed(i) /\ KeyOf[i] = adding[a].key THEN writes[i] + 1 ELSE writes[i]]
              /\ UNCHANGED used
         ELSE \E i \in Queued \ used :
                /\ KeyOf[i] = adding[a].key
                /\ row' = [row EXCEPT ![i] = NewRow(firstCheck)]
                /\ writes' = [writes EXCEPT ![i] = @ + 1]
                /\ used' = used \cup {i}
    BY <1>19 DEF EndAdd
  <2>3. NewRow(firstCheck) \in RowRecord
    BY Numbers DEF NewRow, RowRecord, TypeInv
  <2>4. /\ adding' \in [Adders -> {NotAdding} \cup AddRecord]
        /\ orphaned' \subseteq Ids
        /\ UNCHANGED <<now, runner, adds, runs, owed>>
    BY <1>19 DEF EndAdd, TypeInv
  <2> HIDE DEF NewRow
  <2>5. /\ row' \in [Ids -> {NoRow} \cup RowRecord]
        /\ \A i \in Timed : row'[i] = row[i]
        /\ writes' \in [Queued -> Nat] /\ used' \subseteq Queued
    <3>1. CASE adding[a].found
      <4>1. writes' \in [Queued -> Nat] /\ used' \subseteq Queued
        BY <2>2, <3>1 DEF TypeInv
      <4>2. row' = [i \in Ids |->
                   IF i \in Queued /\ Listed(i) /\ KeyOf[i] = adding[a].key
                     THEN NewRow(firstCheck) ELSE row[i]]
        BY <2>2, <3>1
      <4> QED
        BY <2>3, <4>1, <4>2, KindsAssumption DEF TypeInv, Ids
    <3>2. CASE ~ adding[a].found
      <4>1. PICK i \in Queued \ used :
                /\ row' = [row EXCEPT ![i] = NewRow(firstCheck)]
                /\ writes' = [writes EXCEPT ![i] = @ + 1]
                /\ used' = used \cup {i}
        BY <2>2, <3>2
      <4> QED
        BY <2>3, <4>1, KindsAssumption DEF TypeInv, Ids
    <3> QED
      BY <3>1, <3>2
  <2> QED
    BY <2>4, <2>5 DEF TypeInv, Listed
<1>20. ASSUME NEW k \in Keys, Remove(k) PROVE TypeInv'
  <2>1. /\ row' \in [Ids -> {NoRow} \cup RowRecord]
        /\ \A i \in Timed : row'[i] = row[i]
    BY <1>20, KindsAssumption DEF Remove, TypeInv, Ids
  <2> QED
    BY <1>20, <2>1 DEF Remove, TypeInv, Listed
<1>21. CASE UNCHANGED vars
  BY <1>21 DEF vars, TypeInv, Listed
<1>22. ASSUME NEW p \in Procs, RunnerStep(p) PROVE TypeInv'
  BY <1>22, <1>2, <1>3, <1>4, <1>5, <1>6, <1>7, <1>8, <1>10, <1>11, <1>12, <1>13, <1>14, <1>15
  DEF RunnerStep
<1> QED
  BY <1>1, <1>16, <1>17, <1>18, <1>19, <1>20, <1>21, <1>22 DEF Next

(***************************************************************************)
(* Types, for all times and numbers of runners and jobs.                   *)
(***************************************************************************)
LEMMA Typing == Spec => []TypeInv
<1> QED
  BY InitTyped, TypingStep, PTL DEF Spec

\* Rows, runners and adds stay well typed in every reachable state: whatever a
\* runner has read of a row was one, also when the row is gone or rewritten.
THEOREM TypeCorrect == Spec => []TypeOK
<1>1. TypeInv => TypeOK
  BY DEF TypeInv, TypeOK, RowRecord, ReadRecord, JobRecord, AddRecord
<1> QED
  BY <1>1, Typing, PTL

(***************************************************************************)
(* No reservation is left behind. Whoever lets go of a row that is         *)
(* reserved has freed it, removed it, or is killed.                        *)
(***************************************************************************)
Keeps(p, i) == \/ pc[p] \in {"repeat", "start", "running", "finish"} /\ job[p].id = i
               \/ pc[p] = "reset" /\ read[p].id = i

ReservedRow(i) == row[i] # NoRow /\ row[i].reserved > 0
Accounted(i) == i \in orphaned \/ \E p \in Procs : Keeps(p, i)

LEMMA StrayFrame ==
  ASSUME NEW p \in Procs, NEW i \in Ids, Accounted(i),
         \A q \in Procs : q # p => pc'[q] = pc[q] /\ job'[q] = job[q] /\ read'[q] = read[q],
         i \in orphaned => i \in orphaned',
         Keeps(p, i) => Keeps(p, i)'
  PROVE  Accounted(i)'
BY DEF Accounted, Keeps

LEMMA StrayStep ==
  ASSUME TypeInv, NoStrayReservation, [Next]_vars
  PROVE  NoStrayReservation'
<1> SUFFICES ASSUME NEW i \in Ids, ReservedRow(i)' PROVE Accounted(i)'
  BY DEF NoStrayReservation, ReservedRow, Accounted, Keeps, Listed
<1> USE DEF Go, ForgetRead, list, runner, history
<1>0. ReservedRow(i) => Accounted(i)
  BY DEF NoStrayReservation, ReservedRow, Accounted, Keeps, Listed
<1>a. /\ \A p \in Procs : pc[p] \in Holding => job[p].id \in Ids
      /\ \A p \in Procs : pc[p] \in Reading => read[p].id \in Ids
      /\ pc \in [Procs -> Labels] /\ DOMAIN read = Procs /\ DOMAIN job = Procs
      /\ row \in [Ids -> {NoRow} \cup RowRecord]
  BY DEF TypeInv, JobRecord, ReadRecord, Ids
<1>b. ASSUME NEW p \in Procs, End(p)
      PROVE  \A q \in Procs : q # p => pc'[q] = pc[q] /\ job'[q] = job[q] /\ read'[q] = read[q]
  BY <1>a, <1>b DEF End
\* A row that is freed is not i; one that is not i is as it was.
<1>c. ASSUME NEW j \in Ids, Unreserve(j) PROVE j # i /\ row'[i] = row[i]
  <2>1. j # i
    <3>1. SUFFICES ASSUME j = i PROVE FALSE
      OBVIOUS
    <3>2. row'[i] = [row[i] EXCEPT !.reserved = 0] /\ Listed(i)
      BY <1>c, <3>1, UnreserveTyped DEF ReservedRow
    <3>3. row[i] \in RowRecord
      BY <3>2, ListedIsRecord
    <3> QED
      BY <3>2, <3>3 DEF RowRecord, ReservedRow
  <2> QED
    BY <1>c, <2>1, UnreserveTyped
<1>d. ASSUME NEW j \in Ids, NEW t \in Times, SetChecked(j, t) PROVE ReservedRow(i)
  <2>1. /\ j # i => row'[i] = row[i]
        /\ Listed(j) => row'[j] = [row[j] EXCEPT !.checked = t]
        /\ Listed(i)
    BY <1>d, SetCheckedTyped DEF ReservedRow
  <2>2. row[i] \in RowRecord
    BY <2>1, ListedIsRecord
  <2> QED
    BY <2>1, <2>2 DEF RowRecord, ReservedRow, Listed
<1>1. CASE Tick
  BY <1>0, <1>1 DEF Tick, ReservedRow, Accounted, Keeps
<1>2. ASSUME NEW p \in Procs, StopWorker(p) PROVE Accounted(i)'
  <2>1. ~ Keeps(p, i)
    BY <1>2 DEF StopWorker, Keeps
  <2> QED
    BY <1>0, <1>2, <1>b, <2>1, StrayFrame DEF StopWorker, ReservedRow
<1>3. ASSUME NEW p \in Procs, Select(p) PROVE Accounted(i)'
  <2>1. ~ Keeps(p, i)
    BY <1>3 DEF Select, Keeps
  <2>2. \A q \in Procs : q # p => pc'[q] = pc[q] /\ job'[q] = job[q] /\ read'[q] = read[q]
    BY <1>3, <1>a, <1>b DEF Select
  <2> QED
    BY <1>0, <1>3, <2>1, <2>2, StrayFrame DEF Select, ReservedRow
<1>4. ASSUME NEW p \in Procs, CheckClass(p) PROVE Accounted(i)'
  <2>1. ~ Keeps(p, i)
    BY <1>4 DEF CheckClass, Keeps
  <2>2. \A q \in Procs : q # p => pc'[q] = pc[q] /\ job'[q] = job[q] /\ read'[q] = read[q]
    BY <1>4, <1>a, <1>b DEF CheckClass
  <2> QED
    BY <1>0, <1>4, <2>1, <2>2, StrayFrame DEF CheckClass, ReservedRow
<1>5. ASSUME NEW p \in Procs, Skip(p) PROVE Accounted(i)'
  <2>1. ~ Keeps(p, i)
    BY <1>5 DEF Skip, Keeps
  <2>2. read[p].id \in Ids /\ now + 1 \in Times /\ SetChecked(read[p].id, now + 1)
    BY <1>5, <1>a, Numbers DEF Skip, Reading, TypeInv
  <2>3. ReservedRow(i)
    BY <1>d, <2>2
  <2> QED
    BY <1>0, <1>5, <1>a, <2>1, <2>3, StrayFrame DEF Skip
<1>6. ASSUME NEW p \in Procs, Defer(p) PROVE Accounted(i)'
  <2> DEFINE t == IF NextPossibleRun(p) < now + RecheckCap
                    THEN NextPossibleRun(p) ELSE now + RecheckCap
  <2>1. ~ Keeps(p, i)
    BY <1>6 DEF Defer, Keeps
  <2>2. read[p].id \in Ids /\ SetChecked(read[p].id, t)
    BY <1>6, <1>a DEF Defer, Reading
  <2>3. t \in Times
    BY <1>6, DeferTime DEF Defer
  <2> HIDE DEF t
  <2>4. ReservedRow(i)
    BY <1>d, <2>2, <2>3
  <2> QED
    BY <1>0, <1>6, <1>a, <2>1, <2>4, StrayFrame DEF Defer
<1>7. ASSUME NEW p \in Procs, Reserve(p) PROVE Accounted(i)'
  <2>1. ~ Keeps(p, i)
    BY <1>7 DEF Reserve, Keeps
  <2>2. \A q \in Procs : q # p => pc'[q] = pc[q] /\ job'[q] = job[q] /\ read'[q] = read[q]
    BY <1>7, <1>a DEF Reserve
  <2>3. CASE ~ Untouched(p)
    BY <1>0, <1>7, <2>1, <2>2, <2>3, StrayFrame DEF Reserve, ReservedRow
  <2>4. CASE Untouched(p) /\ read[p].id = i
    <3>1. Keeps(p, i)'
      <4>1. CASE i \in Unbuildable
        <5>1. pc'[p] = "reset" /\ read'[p] = read[p]
          BY <1>7, <1>a, <2>4, <4>1 DEF Reserve
        <5> QED
          BY <2>4, <5>1 DEF Keeps
      <4>2. CASE i \notin Unbuildable
        <5>1. PICK l \in {"repeat", "start"} : pc' = [pc EXCEPT ![p] = l]
          BY <1>7, <2>4, <4>2 DEF Reserve
        <5>2. job'[p].id = i
          BY <1>7, <1>a, <2>4, <4>2 DEF Reserve
        <5> QED
          BY <1>a, <5>1, <5>2 DEF Keeps
      <4> QED
        BY <4>1, <4>2
    <3> QED
      BY <3>1 DEF Accounted
  <2>5. CASE Untouched(p) /\ read[p].id # i
    <3>1. row'[i] = row[i] /\ (i \in orphaned => i \in orphaned')
      BY <1>7, <1>a, <2>5 DEF Reserve
    <3> QED
      BY <1>0, <2>1, <2>2, <3>1, StrayFrame DEF ReservedRow
  <2> QED
    BY <2>3, <2>4, <2>5
<1>8. ASSUME NEW p \in Procs, ResetUnbuildable(p) PROVE Accounted(i)'
  <2> DEFINE j == read[p].id
             new == [row[j] EXCEPT !.reserved = 0, !.checked = now + ReserveFor]
  <2>1. j \in Ids /\ now + ReserveFor \in Times
    BY <1>8, <1>a, Numbers DEF ResetUnbuildable, Reading, TypeInv
  <2>2. Listed(j) => new \in RowRecord /\ new.reserved = 0
    BY <2>1, ListedIsRecord, Numbers DEF RowRecord
  <2>3. Update(j, new)
    BY <1>8 DEF ResetUnbuildable
  <2> HIDE DEF new
  <2>4. i # j /\ row'[i] = row[i]
    BY <2>1, <2>2, <2>3, UpdateTyped DEF ReservedRow
  <2>5. ~ Keeps(p, i)
    BY <1>8, <2>4 DEF ResetUnbuildable, Keeps
  <2> QED
    BY <1>0, <1>8, <1>a, <2>4, <2>5, StrayFrame DEF ResetUnbuildable, ReservedRow
<1>9. ASSUME NEW p \in Procs, pc[p] \in Holding, Unreserve(job[p].id)
      PROVE  ~ Keeps(p, i) /\ row'[i] = row[i] /\ Accounted(i)
  <2>1. job[p].id # i /\ row'[i] = row[i]
    BY <1>9, <1>a, <1>c
  <2>2. ReservedRow(i)
    BY <2>1 DEF ReservedRow
  <2> QED
    BY <1>0, <1>9, <2>1, <2>2 DEF Keeps, Holding
<1>10. ASSUME NEW p \in Procs, Repeat(p) PROVE Accounted(i)'
  <2>1. ~ Keeps(p, i) /\ Accounted(i)
    BY <1>9, <1>10 DEF Repeat, Holding
  <2> QED
    BY <1>10, <1>b, <2>1, StrayFrame DEF Repeat
<1>11. ASSUME NEW p \in Procs, StartQueued(p) PROVE Accounted(i)'
  <2>1. job[p].id \in Ids /\ row' = [row EXCEPT ![job[p].id] = NoRow]
    BY <1>11 DEF StartQueued, Ids
  <2>2. job[p].id # i /\ row'[i] = row[i]
    BY <1>a, <2>1 DEF ReservedRow
  <2>3. ~ Keeps(p, i)
    BY <1>11, <2>2 DEF StartQueued, Keeps
  <2> QED
    BY <1>0, <1>11, <1>a, <2>2, <2>3, StrayFrame DEF StartQueued, ReservedRow
<1>12. ASSUME NEW p \in Procs, StartTimed(p) PROVE Accounted(i)'
  <2> DEFINE j == job[p].id
             new == [row[j] EXCEPT !.last = now]
  <2>1. j \in Ids /\ now \in Times
    BY <1>12, <1>a, Numbers DEF StartTimed, Holding, TypeInv
  <2>2. Listed(j) => new \in RowRecord /\ new.reserved = row[j].reserved
    BY <2>1, ListedIsRecord DEF RowRecord
  <2>3. Update(j, new) \/ row' = row
    BY <1>12 DEF StartTimed
  <2> HIDE DEF new
  <2>4. ReservedRow(i)
    BY <2>1, <2>2, <2>3, UpdateTyped DEF ReservedRow, Listed
  <2>5. PICK l \in {"running", "finish"} : pc' = [pc EXCEPT ![p] = l]
    BY <1>12 DEF StartTimed
  <2>6. Keeps(p, i) => Keeps(p, i)'
    BY <1>12, <1>a, <2>5 DEF StartTimed, Keeps
  <2> QED
    BY <1>0, <1>12, <1>a, <2>4, <2>5, <2>6, StrayFrame DEF StartTimed
<1>13. ASSUME NEW p \in Procs, EndRun(p) PROVE Accounted(i)'
  <2>1. Accounted(i)
    BY <1>0, <1>9, <1>13 DEF EndRun, Holding, ReservedRow
  <2>2. Keeps(p, i) => Keeps(p, i)'
    BY <1>13, <1>a DEF EndRun, Keeps
  <2> QED
    BY <1>13, <1>a, <2>1, <2>2, StrayFrame DEF EndRun
<1>14. ASSUME NEW p \in Procs, Finish(p) PROVE Accounted(i)'
  <2>1. ~ Keeps(p, i) /\ Accounted(i)
    BY <1>9, <1>14 DEF Finish, Holding
  <2>2. \A q \in Procs : q # p => pc'[q] = pc[q] /\ job'[q] = job[q] /\ read'[q] = read[q]
    BY <1>14, <1>a, <1>b DEF Finish
  <2> QED
    BY <1>14, <2>1, <2>2, StrayFrame DEF Finish
<1>15. ASSUME NEW p \in Procs, UnlockAgain(p) PROVE Accounted(i)'
  <2>1. ~ Keeps(p, i) /\ Accounted(i)
    BY <1>9, <1>15 DEF UnlockAgain, Holding
  <2>2. \A q \in Procs : q # p => pc'[q] = pc[q] /\ job'[q] = job[q] /\ read'[q] = read[q]
    BY <1>15, <1>a, <1>b DEF UnlockAgain
  <2> QED
    BY <1>15, <2>1, <2>2, StrayFrame DEF UnlockAgain
<1>16. ASSUME NEW p \in Procs, Fatal(p) PROVE Accounted(i)'
  <2>1. ~ Keeps(p, i) /\ Accounted(i)
    BY <1>9, <1>16 DEF Fatal, Holding
  <2> QED
    BY <1>16, <1>b, <2>1, StrayFrame DEF Fatal
<1>17. ASSUME NEW p \in Procs, Kill(p) PROVE Accounted(i)'
  <2>1. ReservedRow(i) /\ Accounted(i)
    BY <1>0, <1>17 DEF Kill, ReservedRow
  <2>2. CASE Keeps(p, i)
    BY <1>17, <2>1, <2>2 DEF Kill, Keeps, ReservedRow, Accounted
  <2>3. CASE ~ Keeps(p, i)
    BY <1>17, <1>b, <2>1, <2>3, StrayFrame DEF Kill
  <2> QED
    BY <2>2, <2>3
<1>18. ASSUME NEW a \in Adders, NEW k \in Keys, BeginAdd(a, k) PROVE Accounted(i)'
  BY <1>0, <1>18 DEF BeginAdd, ReservedRow, Accounted, Keeps
<1>19. ASSUME row'[i] = row[i], orphaned' = {j \in orphaned : row'[j].reserved > 0}, UNCHANGED runner
       PROVE  Accounted(i)'
  BY <1>0, <1>19 DEF ReservedRow, Accounted, Keeps
<1>20. ASSUME NEW a \in Adders, EndAdd(a) PROVE Accounted(i)'
  <2>1. PICK firstCheck : \/ row'[i] = row[i] \/ row'[i] = NewRow(firstCheck)
    BY <1>20, <1>a DEF EndAdd
  <2>2. row'[i] = row[i]
    BY <2>1 DEF NewRow, ReservedRow
  <2> QED
    BY <1>19, <1>20, <2>2 DEF EndAdd
<1>21. ASSUME NEW k \in Keys, Remove(k) PROVE Accounted(i)'
  <2>1. row'[i] = row[i]
    BY <1>21 DEF Remove, ReservedRow
  <2> QED
    BY <1>19, <1>21, <2>1 DEF Remove
<1>22. CASE UNCHANGED vars
  BY <1>0, <1>22 DEF vars, ReservedRow, Accounted, Keeps
<1>23. ASSUME NEW p \in Procs, RunnerStep(p) PROVE Accounted(i)'
  BY <1>23, <1>2, <1>3, <1>4, <1>5, <1>6, <1>7, <1>8, <1>10, <1>11, <1>12, <1>13, <1>14, <1>15
  DEF RunnerStep
<1> QED
  BY <1>1, <1>16, <1>17, <1>18, <1>20, <1>21, <1>22, <1>23 DEF Next

(***************************************************************************)
(* No job stays reserved after its run: a row that is reserved has a       *)
(* runner that will give it back, or one that was killed.                  *)
(***************************************************************************)
THEOREM NoneStray == Spec => []NoStrayReservation
<1>1. Init => NoStrayReservation
  BY KindsAssumption DEF Init, NoStrayReservation, Listed, NewRow, NoRow
<1>2. TypeInv /\ NoStrayReservation /\ [Next]_vars => NoStrayReservation'
  BY StrayStep
<1> QED
  BY <1>1, <1>2, Typing, PTL DEF Spec

(***************************************************************************)
(* No queued job is lost. The reason for an owed run is a listed row, or   *)
(* an add call that has found none and will insert one: an add call that   *)
(* has found one may find it gone, but then a run began or the job was     *)
(* removed.                                                                *)
(***************************************************************************)
Inserting(k) == \E a \in Adders : /\ adding[a] # NotAdding
                                  /\ adding[a].key = k /\ adding[a].found = FALSE
OwedIsDue == \A k \in owed : Has(k) \/ Inserting(k)

LEMMA OwedFrame ==
  ASSUME OwedIsDue, NEW k \in owed, \A i \in Queued : Listed(i) /\ KeyOf[i] = k => row'[i] # NoRow,
         UNCHANGED adding
  PROVE  Has(k)' \/ Inserting(k)'
BY DEF OwedIsDue, Has, Listed, Inserting

LEMMA OwedStep ==
  ASSUME TypeInv, OwedIsDue, [Next]_vars
  PROVE  OwedIsDue'
<1> SUFFICES ASSUME NEW k \in owed' PROVE Has(k)' \/ Inserting(k)'
  BY DEF OwedIsDue
<1> USE DEF list, runner, history
<1>1. ASSUME NEW p \in Procs, RunnerStep(p) \/ Fatal(p) \/ Kill(p)
      PROVE  /\ k \in owed /\ adding' = adding
             /\ \A i \in Queued : Listed(i) /\ KeyOf[i] = k => row'[i] # NoRow
  <2>a. /\ \A q \in Procs : pc[q] \in Holding => job[q].id \in Ids
        /\ \A q \in Procs : pc[q] \in Reading => read[q].id \in Ids
        /\ Queued \subseteq Ids /\ row \in [Ids -> {NoRow} \cup RowRecord]
        /\ NoRow \notin RowRecord
    BY Numbers DEF TypeInv, JobRecord, ReadRecord, RowRecord, NoRow, Ids
  <2>b. ASSUME NEW j \in Ids, Unreserve(j) PROVE \A i \in Queued : Listed(i) => row'[i] # NoRow
    BY <2>b, <2>a, UnreserveTyped
  <2>c. ASSUME NEW j \in Ids, NEW t \in Times, SetChecked(j, t)
        PROVE  \A i \in Queued : Listed(i) => row'[i] # NoRow
    BY <2>c, <2>a, SetCheckedTyped
  <2>1. CASE StopWorker(p) \/ Select(p) \/ CheckClass(p) \/ Kill(p)
    BY <2>1 DEF StopWorker, Select, CheckClass, Kill, Listed
  <2>2. CASE Skip(p)
    <3>1. read[p].id \in Ids /\ now + 1 \in Times
      BY <2>2, <2>a, Numbers DEF Skip, Reading, TypeInv
    <3> QED
      BY <2>2, <2>c, <3>1 DEF Skip
  <2>3. CASE Defer(p)
    <3> DEFINE t == IF NextPossibleRun(p) < now + RecheckCap
                      THEN NextPossibleRun(p) ELSE now + RecheckCap
    <3>1. read[p].id \in Ids /\ SetChecked(read[p].id, t)
      BY <2>3, <2>a DEF Defer, Reading
    <3>2. t \in Times
      BY <2>3, DeferTime DEF Defer
    <3> HIDE DEF t
    <3> QED
      BY <2>3, <2>c, <3>1, <3>2 DEF Defer
  <2>4. CASE Reserve(p)
    <3>1. \/ row' = row
          \/ row' = [row EXCEPT ![read[p].id].reserved = now, ![read[p].id].checked = now]
      BY <2>4 DEF Reserve
    <3>2. k \in owed /\ adding' = adding
      BY <2>4 DEF Reserve
    <3>3. ASSUME NEW i \in Queued, Listed(i) PROVE row'[i] # NoRow
      <4>1. row[i] \in RowRecord /\ i \in Ids
        BY <3>3, <2>a, ListedIsRecord
      <4>2. row'[i] = row[i] \/ row'[i] = [row[i] EXCEPT !.reserved = now, !.checked = now]
        BY <3>1, <4>1, <2>a
      <4>3. now \in Times
        BY Numbers DEF TypeInv
      <4> QED
        BY <2>a, <4>1, <4>2, <4>3 DEF RowRecord
    <3> QED
      BY <3>2, <3>3
  <2>5. CASE ResetUnbuildable(p)
    <3> DEFINE j == read[p].id
               new == [row[j] EXCEPT !.reserved = 0, !.checked = now + ReserveFor]
    <3>1. j \in Ids /\ now + ReserveFor \in Times
      BY <2>5, <2>a, Numbers DEF ResetUnbuildable, Reading, TypeInv
    <3>2. Listed(j) => new \in RowRecord
      BY <3>1, ListedIsRecord, Numbers DEF RowRecord
    <3>3. Update(j, new)
      BY <2>5 DEF ResetUnbuildable
    <3> HIDE DEF new
    <3> QED
      BY <2>5, <2>a, <3>1, <3>2, <3>3, UpdateTyped DEF ResetUnbuildable
  <2>6. CASE StartQueued(p)
    BY <2>6, <2>a DEF StartQueued, Listed
  <2>7. CASE StartTimed(p)
    <3> DEFINE j == job[p].id
               new == [row[j] EXCEPT !.last = now]
    <3>1. j \in Ids /\ now \in Times
      BY <2>7, <2>a, Numbers DEF StartTimed, Holding, TypeInv
    <3>2. Listed(j) => new \in RowRecord
      BY <3>1, ListedIsRecord DEF RowRecord
    <3>3. Update(j, new) \/ row' = row
      BY <2>7 DEF StartTimed
    <3> HIDE DEF new
    <3>4. \A i \in Queued : Listed(i) => row'[i] # NoRow
      BY <2>a, <3>1, <3>2, <3>3, UpdateTyped DEF Listed
    <3> QED
      BY <2>7, <3>4 DEF StartTimed
  <2>8. CASE EndRun(p)
    BY <2>8, <2>a, <2>b DEF EndRun, Holding, Listed
  <2>9. CASE Repeat(p) \/ Finish(p) \/ UnlockAgain(p) \/ Fatal(p)
    BY <2>9, <2>a, <2>b DEF Repeat, Finish, UnlockAgain, Fatal, Holding
  <2> QED
    BY <1>1, <2>1, <2>2, <2>3, <2>4, <2>5, <2>6, <2>7, <2>8, <2>9 DEF RunnerStep
<1>2. CASE Tick
  BY <1>2 DEF Tick, OwedIsDue, Has, Listed, Inserting
<1>3. ASSUME NEW a \in Adders, NEW l \in Keys, BeginAdd(a, l)
      PROVE  Has(k)' \/ Inserting(k)'
  <2>1. adding' = [adding EXCEPT ![a] = [key |-> l, found |-> Has(l)]] /\ row' = row
        /\ adding[a] = NotAdding /\ owed' = owed \cup {l}
    BY <1>3 DEF BeginAdd
  <2>2. adding'[a] = [key |-> l, found |-> Has(l)] /\ adding'[a] # NotAdding
    BY <2>1 DEF TypeInv, NotAdding
  <2>3. CASE k = l
    <3>1. Has(l)' <=> Has(l)
      BY <2>1 DEF Has, Listed
    <3>2. CASE Has(l)
      BY <2>3, <3>1, <3>2
    <3>3. CASE Has(l) = FALSE
      BY <2>2, <2>3, <3>3 DEF Inserting
    <3> QED
      BY <3>2, <3>3 DEF Has
  <2>4. CASE k # l
    <3>1. Has(k) \/ Inserting(k)
      BY <2>1, <2>4 DEF OwedIsDue
    <3> QED
      BY <2>1, <3>1 DEF TypeInv, Has, Listed, Inserting
  <2> QED
    BY <2>3, <2>4
<1>4. ASSUME NEW a \in Adders, EndAdd(a) PROVE Has(k)' \/ Inserting(k)'
  <2>1. /\ adding[a] \in AddRecord /\ k \in owed
        /\ \A b \in Adders : b # a => adding'[b] = adding[b]
    BY <1>4 DEF EndAdd, TypeInv
  <2>2. \A f : NewRow(f) # NoRow
    BY DEF NewRow, NoRow
  <2>3. CASE adding[a].found
    <3>1. PICK f : row' = [i \in Ids |->
                   IF i \in Queued /\ Listed(i) /\ KeyOf[i] = adding[a].key
                     THEN NewRow(f) ELSE row[i]]
      BY <1>4, <2>3 DEF EndAdd
    <3>2. \A i \in Queued : Listed(i) => row'[i] # NoRow
      BY <2>2, <3>1 DEF Listed, Ids
    <3>3. Has(k) => Has(k)'
      BY <3>2 DEF Has, Listed
    <3>4. Inserting(k) => Inserting(k)'
      BY <2>1, <2>3 DEF Inserting
    <3> QED
      BY <2>1, <3>3, <3>4 DEF OwedIsDue
  <2>4. CASE ~ adding[a].found
    <3>0. PICK f \in {now, now + 1} : \E i \in Queued \ used :
                /\ KeyOf[i] = adding[a].key
                /\ row' = [row EXCEPT ![i] = NewRow(f)]
      BY <1>4, <2>4 DEF EndAdd
    <3>1. PICK i \in Queued : /\ KeyOf[i] = adding[a].key
                             /\ row' = [row EXCEPT ![i] = NewRow(f)]
      BY <3>0
    <3>2. row'[i] # NoRow /\ \A j \in Queued : Listed(j) => row'[j] # NoRow
      BY <2>2, <3>1 DEF TypeInv, Listed, Ids
    <3>3. CASE k = adding[a].key
      BY <3>1, <3>2, <3>3 DEF Has, Listed
    <3>4. CASE k # adding[a].key
      <4>1. Inserting(k) => Inserting(k)'
        BY <2>1, <3>4 DEF Inserting
      <4>2. Has(k) => Has(k)'
        BY <3>2 DEF Has, Listed
      <4> QED
        BY <2>1, <4>1, <4>2 DEF OwedIsDue
    <3> QED
      BY <3>3, <3>4
  <2> QED
    BY <2>3, <2>4
<1>5. ASSUME NEW l \in Keys, Remove(l) PROVE Has(k)' \/ Inserting(k)'
  <2>1. k \in owed /\ k # l /\ adding' = adding
    BY <1>5 DEF Remove
  <2>2. \A i \in Queued : Listed(i) /\ KeyOf[i] = k => row'[i] # NoRow
    BY <1>5, <2>1 DEF Remove, Listed, Ids
  <2> QED
    BY <2>1, <2>2, OwedFrame
<1>6. CASE UNCHANGED vars
  BY <1>6 DEF vars, OwedIsDue, Has, Listed, Inserting
<1>7. ASSUME NEW p \in Procs, RunnerStep(p) \/ Fatal(p) \/ Kill(p)
      PROVE  Has(k)' \/ Inserting(k)'
  BY <1>1, <1>7, OwedFrame
<1> QED
  BY <1>2, <1>3, <1>4, <1>5, <1>6, <1>7 DEF Next

(***************************************************************************)
(* No queued job is lost: after add has returned, the job is listed or a   *)
(* run of it has begun since add was called, also when add found the row   *)
(* of a job that was just being started.                                   *)
(***************************************************************************)
THEOREM NoneLost == Spec => []AddNotLost
<1>1. Init => OwedIsDue
  BY DEF Init, OwedIsDue
<1>2. TypeInv /\ OwedIsDue /\ [Next]_vars => OwedIsDue'
  BY OwedStep
<1>3. OwedIsDue => AddNotLost
  BY DEF OwedIsDue, Inserting, AddNotLost
<1> QED
  BY <1>1, <1>2, <1>3, Typing, PTL DEF Spec

(***************************************************************************)
(* What a runner's step does to the other runners, and to a row.           *)
(***************************************************************************)
ProcStep(p) == RunnerStep(p) \/ Fatal(p) \/ Kill(p)

KeepsRow(i) == /\ row'[i] # NoRow <=> Listed(i)
               /\ row'[i].reserved = row[i].reserved /\ row'[i].last = row[i].last
Frees(i) == /\ Listed(i) /\ row'[i] # NoRow
            /\ row'[i].reserved = 0 /\ row'[i].last = row[i].last
Reserves(i) == /\ Listed(i) /\ row'[i] # NoRow
               /\ row'[i].reserved = now /\ row'[i].last = row[i].last
Begins(i) == /\ Listed(i) /\ row'[i] # NoRow
             /\ row'[i].reserved = row[i].reserved /\ row'[i].last = now

LEMMA OthersStay ==
  ASSUME TypeInv, NEW p \in Procs, ProcStep(p)
  PROVE  /\ now' = now /\ used' = used /\ writes' = writes
         /\ \A q \in Procs : q # p => /\ pc'[q] = pc[q] /\ read'[q] = read[q]
                                      /\ job'[q] = job[q] /\ executed'[q] = executed[q]
<1> USE DEF list, runner, history, Go, ForgetRead
<1>0. /\ DOMAIN pc = Procs /\ DOMAIN read = Procs
      /\ DOMAIN job = Procs /\ DOMAIN executed = Procs
  BY DEF TypeInv
<1>e. ASSUME End(p)
      PROVE  \A q \in Procs : q # p => /\ pc'[q] = pc[q] /\ read'[q] = read[q]
                                       /\ job'[q] = job[q] /\ executed'[q] = executed[q]
  BY <1>e, <1>0 DEF End
<1>1. CASE StopWorker(p)
  BY <1>1, <1>0, <1>e DEF StopWorker
<1>2. CASE Select(p)
  BY <1>2, <1>0, <1>e DEF Select
<1>3. CASE CheckClass(p)
  BY <1>3, <1>0, <1>e DEF CheckClass
<1>4. CASE Skip(p) \/ Defer(p)
  BY <1>4, <1>0 DEF Skip, Defer
<1>5. CASE Reserve(p)
  BY <1>5, <1>0 DEF Reserve
<1>6. CASE ResetUnbuildable(p) \/ StartQueued(p) \/ StartTimed(p) \/ EndRun(p)
  BY <1>6, <1>0 DEF ResetUnbuildable, StartQueued, StartTimed, EndRun
<1>7. CASE Repeat(p) \/ Finish(p) \/ UnlockAgain(p) \/ Fatal(p) \/ Kill(p)
  BY <1>7, <1>0, <1>e DEF Repeat, Finish, UnlockAgain, Fatal, Kill
<1> QED
  BY <1>1, <1>2, <1>3, <1>4, <1>5, <1>6, <1>7 DEF ProcStep, RunnerStep

LEMMA RowStep ==
  ASSUME TypeInv, NEW p \in Procs, ProcStep(p), NEW i \in Ids
  PROVE  \/ KeepsRow(i)
         \/ /\ Frees(i) /\ pc[p] \in Holding /\ job[p].id = i
            /\ Repeat(p) \/ EndRun(p) \/ Finish(p) \/ UnlockAgain(p) \/ Fatal(p)
         \/ Frees(i) /\ i \in Unbuildable
         \/ Reserves(i) /\ Reserve(p) /\ Untouched(p) /\ read[p].id = i
         \/ Begins(i) /\ StartTimed(p) /\ job[p].id = i /\ now - job[p].last > Interval
         \/ row'[i] = NoRow /\ StartQueued(p) /\ job[p].id = i
<1> USE DEF list, runner, history
<1>a. /\ \A q \in Procs : pc[q] \in Holding => job[q].id \in Ids
      /\ \A q \in Procs : pc[q] \in Reading => read[q].id \in Ids /\ read[q] \in ReadRecord
      /\ row \in [Ids -> {NoRow} \cup RowRecord]
      /\ NoRow \notin RowRecord
  BY Numbers DEF TypeInv, JobRecord, ReadRecord, RowRecord, NoRow, Ids
<1>b. row'[i] = row[i] => KeepsRow(i)
  BY DEF KeepsRow, Listed
<1>c. ASSUME NEW j \in Ids, Unreserve(j) PROVE KeepsRow(i) \/ (j = i /\ Frees(i))
  <2>1. CASE j # i
    BY <1>b, <1>c, <2>1, UnreserveTyped
  <2>2. CASE j = i /\ ~ Listed(i)
    <3>1. row'[i] = NoRow /\ row[i] = NoRow
      BY <1>c, <1>a, <2>2 DEF Unreserve, Update, Listed
    <3> QED
      BY <1>b, <3>1
  <2>3. CASE j = i /\ Listed(i)
    <3>1. row'[i] = [row[i] EXCEPT !.reserved = 0] /\ row'[i] # NoRow
      BY <1>c, <2>3, UnreserveTyped
    <3>2. row[i] \in RowRecord
      BY <2>3, ListedIsRecord
    <3> QED
      BY <2>3, <3>1, <3>2 DEF Frees, RowRecord
  <2> QED
    BY <2>1, <2>2, <2>3
<1>d. ASSUME NEW j \in Ids, NEW t \in Times, SetChecked(j, t) PROVE KeepsRow(i)
  <2>1. CASE j # i
    BY <1>b, <1>d, <2>1, SetCheckedTyped
  <2>2. CASE j = i /\ ~ Listed(i)
    <3>1. row'[i] = NoRow /\ row[i] = NoRow
      BY <1>d, <1>a, <2>2 DEF SetChecked, Update, Listed
    <3> QED
      BY <1>b, <3>1
  <2>3. CASE j = i /\ Listed(i)
    <3>1. row'[i] = [row[i] EXCEPT !.checked = t] /\ row'[i] # NoRow
      BY <1>d, <2>3, SetCheckedTyped
    <3>2. row[i] \in RowRecord
      BY <2>3, ListedIsRecord
    <3> QED
      BY <2>3, <3>1, <3>2 DEF KeepsRow, RowRecord
  <2> QED
    BY <2>1, <2>2, <2>3
<1>1. CASE StopWorker(p) \/ Select(p) \/ CheckClass(p) \/ Kill(p)
  BY <1>1, <1>b DEF StopWorker, Select, CheckClass, Kill
<1>2. CASE Skip(p)
  <2>1. read[p].id \in Ids /\ now + 1 \in Times
    BY <1>2, <1>a, Numbers DEF Skip, Reading, TypeInv
  <2> QED
    BY <1>2, <1>d, <2>1 DEF Skip
<1>3. CASE Defer(p)
  <2> DEFINE t == IF NextPossibleRun(p) < now + RecheckCap
                    THEN NextPossibleRun(p) ELSE now + RecheckCap
  <2>1. read[p].id \in Ids /\ SetChecked(read[p].id, t)
    BY <1>3, <1>a DEF Defer, Reading
  <2>2. t \in Times
    BY <1>3, DeferTime DEF Defer
  <2> HIDE DEF t
  <2> QED
    BY <1>d, <2>1, <2>2
<1>4. CASE Reserve(p)
  <2>1. \/ row' = row
        \/ /\ Untouched(p)
           /\ row' = [row EXCEPT ![read[p].id].reserved = now, ![read[p].id].checked = now]
    BY <1>4 DEF Reserve
  <2>2. CASE Untouched(p) /\ read[p].id = i /\ row' # row
    <3>1. row'[i] = [row[i] EXCEPT !.reserved = now, !.checked = now]
      BY <1>a, <2>1, <2>2
    <3>2. row[i] \in RowRecord
      <4>1. row[i].reserved \in Times
        BY <1>4, <1>a, <2>2 DEF Reserve, Untouched, ReadRecord, Reading
      <4>2. NoRow.reserved \notin Times
        BY Numbers DEF NoRow
      <4> QED
        BY <1>a, <4>1, <4>2
    <3>3. now \in Times
      BY Numbers DEF TypeInv
    <3>4. row'[i] \in RowRecord /\ row'[i].reserved = now /\ row'[i].last = row[i].last
      BY <3>1, <3>2, <3>3 DEF RowRecord
    <3>5. Reserves(i)
      BY <1>a, <3>2, <3>4 DEF Reserves, Listed
    <3> QED
      BY <1>4, <2>2, <3>5
  <2>3. CASE read[p].id # i \/ row' = row
    <3>1. row'[i] = row[i]
      BY <1>a, <2>1, <2>3
    <3> QED
      BY <1>b, <3>1
  <2> QED
    BY <2>1, <2>2, <2>3
<1>5. CASE ResetUnbuildable(p)
  <2> DEFINE j == read[p].id
             new == [row[j] EXCEPT !.reserved = 0, !.checked = now + ReserveFor]
  <2>1. j \in Ids /\ now + ReserveFor \in Times /\ j \in Unbuildable
    BY <1>5, <1>a, Numbers DEF ResetUnbuildable, Reading, TypeInv
  <2>2. Listed(j) => new \in RowRecord /\ new.reserved = 0 /\ new.last = row[j].last
    BY <2>1, ListedIsRecord, Numbers DEF RowRecord
  <2>3. Update(j, new)
    BY <1>5 DEF ResetUnbuildable
  <2> HIDE DEF new
  <2>4. CASE j # i
    BY <1>b, <2>1, <2>2, <2>3, <2>4, UpdateTyped
  <2>5. CASE j = i /\ Listed(i)
    BY <2>1, <2>2, <2>3, <2>5, UpdateTyped DEF Frees
  <2>6. CASE j = i /\ ~ Listed(i)
    <3>1. row'[i] = NoRow /\ row[i] = NoRow
      BY <1>a, <2>3, <2>6 DEF Update, Listed
    <3> QED
      BY <1>b, <3>1
  <2> QED
    BY <2>4, <2>5, <2>6
<1>6. CASE StartQueued(p)
  <2>1. row' = [row EXCEPT ![job[p].id] = NoRow]
    BY <1>6 DEF StartQueued
  <2>2. job[p].id # i => row'[i] = row[i]
    BY <1>a, <2>1
  <2> QED
    BY <1>6, <1>a, <1>b, <2>1, <2>2
<1>7. CASE StartTimed(p)
  <2> DEFINE j == job[p].id
             new == [row[j] EXCEPT !.last = now]
  <2>1. j \in Ids /\ j \in Timed /\ now \in Times /\ Listed(j)
    BY <1>7, <1>a, Numbers DEF StartTimed, Holding, TypeInv
  <2>2. new \in RowRecord /\ new.reserved = row[j].reserved /\ new.last = now
    BY <2>1, ListedIsRecord DEF RowRecord
  <2>3. (Update(j, new) /\ now - job[p].last > Interval) \/ row' = row
    BY <1>7 DEF StartTimed
  <2> HIDE DEF new
  <2>4. CASE j = i /\ Update(j, new) /\ now - job[p].last > Interval
    <3>1. row'[i] = new
      BY <2>1, <2>2, <2>4, UpdateTyped
    <3>2. Begins(i)
      BY <1>a, <2>1, <2>2, <2>4, <3>1 DEF Begins
    <3> QED
      BY <1>7, <2>4, <3>2
  <2>5. CASE row' = row \/ (j # i /\ Update(j, new))
    BY <1>b, <2>1, <2>2, <2>5, UpdateTyped
  <2> QED
    BY <2>3, <2>4, <2>5
<1>8. CASE EndRun(p)
  BY <1>8, <1>a, <1>b, <1>c DEF EndRun, Holding
<1>9. CASE Repeat(p) \/ Finish(p) \/ UnlockAgain(p) \/ Fatal(p)
  <2>1. pc[p] \in Holding /\ Unreserve(job[p].id)
    BY <1>9 DEF Repeat, Finish, UnlockAgain, Fatal, Holding
  <2> QED
    BY <1>9, <1>a, <1>c, <2>1
<1> QED
  BY <1>1, <1>2, <1>3, <1>4, <1>5, <1>6, <1>7, <1>8, <1>9 DEF ProcStep, RunnerStep

(***************************************************************************)
(* Runs of queued jobs. A row stands for one run as long as nobody has got *)
(* it in this instant; then whoever is about to start it stands for one.   *)
(* An add that writes the row again adds one.                              *)
(***************************************************************************)
Starters(i) == {p \in Procs : pc[p] = "start" /\ job[p].id = i}
Given(i) == Starters(i) # {} /\ row[i].reserved = now
RunsToCome(i) == Cardinality(Starters(i)) + (IF Listed(i) /\ ~ Given(i) THEN 1 ELSE 0)

(* Nobody in getNext knows a reservation that counts. *)
ReadsFree == \A p \in Procs : pc[p] \in {"blocked?", "reserve"} =>
                                read[p].reserved <= now - ReserveFor

(* Ids are not used again: a row that was started is gone for good. *)
Gone(i) == i \in used /\ ~ Listed(i)
StartedIsGone ==
  /\ \A i \in Queued : Listed(i) => i \in used
  /\ \A p \in Procs :
       /\ pc[p] \in Holding /\ job[p].id \in Queued => job[p].id \in used
       /\ pc[p] \in {"running", "finish", "unlock"} /\ job[p].id \in Queued => Gone(job[p].id)
       /\ pc[p] = "repeat" => job[p].id \notin Queued
       /\ \A i \in executed[p] \cap Queued : Gone(i)

QueuedInv ==
  /\ ReadsFree
  /\ StartedIsGone
  /\ \A i \in Queued : runs[i] + RunsToCome(i) <= writes[i]

LEMMA ReadsFreeStep ==
  ASSUME TypeInv, ReadsFree, [Next]_vars
  PROVE  ReadsFree'
<1> USE DEF list, runner, history, Go, ForgetRead
<1>a. now \in Nat /\ now + 1 \in Nat /\ ReserveFor \in Nat
  BY Numbers DEF TypeInv
<1>1. ASSUME UNCHANGED <<pc, read>>, now' = now \/ now' = now + 1 PROVE ReadsFree'
  <2> SUFFICES ASSUME NEW q \in Procs, pc[q] \in {"blocked?", "reserve"}
               PROVE  read[q].reserved <= now' - ReserveFor
    BY <1>1 DEF ReadsFree
  <2>1. read[q].reserved \in Nat /\ read[q].reserved <= now - ReserveFor
    BY Numbers DEF TypeInv, Reading, ReadRecord, ReadsFree
  <2> QED
    BY <1>1, <1>a, <2>1
<1>2. ASSUME NEW p \in Procs, ProcStep(p) PROVE ReadsFree'
  <2> SUFFICES ASSUME NEW q \in Procs, pc'[q] \in {"blocked?", "reserve"}
               PROVE  read'[q].reserved <= now - ReserveFor
    BY <1>2, OthersStay DEF ReadsFree
  <2>1. CASE q # p
    BY <1>2, <2>1, OthersStay DEF ReadsFree
  <2>2. CASE q = p /\ Select(p)
    <3>1. PICK i \in Ids : Due(i) /\ read' = [read EXCEPT ![p] =
                        [id |-> i, reserved |-> row[i].reserved,
                         checked |-> row[i].checked, last |-> row[i].last]]
      BY <2>2 DEF Select, End, TypeInv
    <3> QED
      BY <2>2, <3>1 DEF TypeInv, Due
  <2>3. CASE q = p /\ CheckClass(p)
    BY <2>3 DEF CheckClass, End, TypeInv, ReadsFree
  <2>4. CASE q = p /\ ~ Select(p) /\ ~ CheckClass(p)
    <3>1. pc'[p] \notin {"blocked?", "reserve"}
      <4> USE DEF TypeInv
      <4>1. CASE StopWorker(p) \/ Repeat(p) \/ Fatal(p) \/ Kill(p)
        BY <4>1 DEF StopWorker, Repeat, Fatal, Kill, End
      <4>2. CASE Skip(p) \/ Defer(p) \/ ResetUnbuildable(p) \/ StartQueued(p) \/ EndRun(p)
        BY <4>2 DEF Skip, Defer, ResetUnbuildable, StartQueued, EndRun
      <4>3. CASE Reserve(p)
        <5>1. PICK l \in {"next", "reset", "repeat", "start"} : pc' = [pc EXCEPT ![p] = l]
          BY <4>3 DEF Reserve
        <5> QED
          BY <5>1
      <4>4. CASE StartTimed(p)
        <5>1. PICK l \in {"running", "finish"} : pc' = [pc EXCEPT ![p] = l]
          BY <4>4 DEF StartTimed
        <5> QED
          BY <5>1
      <4>5. CASE Finish(p) \/ UnlockAgain(p)
        <5>1. PICK l \in {"unlock", "next", "idle"} : pc' = [pc EXCEPT ![p] = l]
          BY <4>5 DEF Finish, UnlockAgain, End
        <5> QED
          BY <5>1
      <4> QED
        BY <1>2, <2>4, <4>1, <4>2, <4>3, <4>4, <4>5 DEF ProcStep, RunnerStep
    <3> QED
      BY <2>2, <2>4, <3>1
  <2> QED
    BY <2>1, <2>2, <2>3, <2>4
<1>3. CASE Tick
  BY <1>1, <1>3 DEF Tick
<1>4. ASSUME NEW a \in Adders, EndAdd(a) \/ \E k \in Keys : BeginAdd(a, k)
      PROVE  ReadsFree'
  BY <1>1, <1>4 DEF EndAdd, BeginAdd
<1>5. ASSUME NEW k \in Keys, Remove(k) PROVE ReadsFree'
  BY <1>1, <1>5 DEF Remove
<1>6. CASE UNCHANGED vars
  BY <1>1, <1>6 DEF vars
<1> QED
  BY <1>2, <1>3, <1>4, <1>5, <1>6 DEF Next, ProcStep

(* A queued row is listed only by the add call that inserts it. *)
LEMMA ListedOnce ==
  ASSUME TypeInv, [Next]_vars, NEW i \in Queued
  PROVE  /\ row'[i] # NoRow => Listed(i) \/ (i \notin used /\ i \in used')
         /\ used \subseteq used'
<1> USE DEF list, runner, history
<1>1. ASSUME NEW p \in Procs, ProcStep(p)
      PROVE  (row'[i] # NoRow => Listed(i)) /\ used' = used
  <2>1. i \in Ids /\ i \notin Unbuildable
    BY KindsAssumption DEF Ids
  <2> QED
    BY <1>1, <2>1, OthersStay, RowStep DEF KeepsRow, Frees, Reserves, Begins
<1>2. ASSUME NEW a \in Adders, EndAdd(a)
      PROVE  /\ row'[i] # NoRow => Listed(i) \/ (i \notin used /\ i \in used')
             /\ used \subseteq used'
  <2>1. CASE adding[a].found
    <3>1. PICK f \in {now, now + 1} : row' = [j \in Ids |->
                   IF j \in Queued /\ Listed(j) /\ KeyOf[j] = adding[a].key
                     THEN NewRow(f) ELSE row[j]]
      BY <1>2, <2>1 DEF EndAdd
    <3>2. used' = used
      BY <1>2, <2>1 DEF EndAdd
    <3> QED
      BY <3>1, <3>2 DEF Listed, Ids
  <2>2. CASE ~ adding[a].found
    <3>1. PICK f \in {now, now + 1} : \E j \in Queued \ used :
                /\ row' = [row EXCEPT ![j] = NewRow(f)]
                /\ used' = used \cup {j}
      BY <1>2, <2>2 DEF EndAdd
    <3> QED
      BY <3>1 DEF Listed, TypeInv
  <2> QED
    BY <2>1, <2>2
<1>3. CASE Tick
  BY <1>3 DEF Tick, Listed
<1>4. ASSUME NEW a \in Adders, NEW k \in Keys, BeginAdd(a, k)
      PROVE  (row'[i] # NoRow => Listed(i)) /\ used' = used
  BY <1>4 DEF BeginAdd, Listed
<1>5. ASSUME NEW k \in Keys, Remove(k)
      PROVE  (row'[i] # NoRow => Listed(i)) /\ used' = used
  BY <1>5 DEF Remove, Listed, Ids
<1>6. CASE UNCHANGED vars
  BY <1>6 DEF vars, Listed
<1> QED
  BY <1>1, <1>2, <1>3, <1>4, <1>5, <1>6 DEF Next, ProcStep

LEMMA StartedStep ==
  ASSUME TypeInv, StartedIsGone, [Next]_vars
  PROVE  StartedIsGone'
<1> USE DEF list, runner, history, Go, ForgetRead
<1>1. \A i \in Queued : row'[i] # NoRow => i \in used'
  BY ListedOnce DEF StartedIsGone
<1>2. ASSUME NEW i \in Queued, Gone(i) PROVE Gone(i)'
  BY <1>2, ListedOnce DEF Gone, Listed
<1>3. \A i \in Queued : i \in used => i \in used'
  BY ListedOnce
<1> DEFINE Fine(q) ==
             /\ pc[q] \in Holding /\ job[q].id \in Queued => job[q].id \in used
             /\ pc[q] \in {"running", "finish", "unlock"} /\ job[q].id \in Queued => Gone(job[q].id)
             /\ pc[q] = "repeat" => job[q].id \notin Queued
             /\ \A i \in executed[q] \cap Queued : Gone(i)
<1>4. \A q \in Procs : Fine(q)
  BY DEF StartedIsGone
<1>5. ASSUME NEW q \in Procs, pc'[q] = pc[q], job'[q] = job[q], executed'[q] = executed[q]
      PROVE  Fine(q)'
  BY <1>2, <1>3, <1>4, <1>5
<1>6. ASSUME NEW p \in Procs, ProcStep(p) PROVE Fine(p)'
  <2> USE DEF TypeInv, Holding
  <2>0. /\ \A i \in executed[p] \cap Queued : Gone(i)'
        /\ used' = used
    BY <1>2, <1>4, <1>6, OthersStay
  <2>1. ASSUME End(p) PROVE Fine(p)'
    BY <2>1 DEF End
  <2>2. ASSUME pc'[p] \notin Holding, executed'[p] = executed[p] PROVE Fine(p)'
    BY <2>0, <2>2
  <2>3. CASE StopWorker(p) \/ Repeat(p) \/ Fatal(p) \/ Kill(p)
    BY <2>1, <2>3 DEF StopWorker, Repeat, Fatal, Kill
  <2>4. CASE Select(p)
    <3>1. CASE End(p)
      BY <2>1, <3>1
    <3>2. CASE ~ End(p)
      <4>1. PICK l \in {"idle", "next", "blocked?", "reserve"} :
              pc' = [pc EXCEPT ![p] = l] /\ executed' = executed
        BY <2>4, <3>2 DEF Select
      <4> QED
        BY <2>2, <4>1
    <3> QED
      BY <3>1, <3>2
  <2>5. CASE CheckClass(p)
    <3>1. CASE End(p)
      BY <2>1, <3>1
    <3>2. CASE ~ End(p)
      <4>1. PICK l \in {"next", "skip", "reserve"} :
              pc' = [pc EXCEPT ![p] = l] /\ executed' = executed
        BY <2>5, <3>2 DEF CheckClass
      <4> QED
        BY <2>2, <4>1
    <3> QED
      BY <3>1, <3>2
  <2>6. CASE Skip(p) \/ Defer(p) \/ ResetUnbuildable(p)
    BY <2>2, <2>6 DEF Skip, Defer, ResetUnbuildable
  <2>7. CASE Reserve(p)
    <3>1. CASE pc'[p] \notin Holding
      BY <2>2, <2>7, <3>1 DEF Reserve
    <3>2. CASE pc'[p] \in Holding
      <4>1. /\ Untouched(p) /\ executed'[p] = executed[p] /\ job'[p].id = read[p].id
            /\ pc' = [pc EXCEPT ![p] = IF read[p].id \in executed[p] THEN "repeat" ELSE "start"]
        BY <2>7, <3>2 DEF Reserve
      <4>2. read[p].id \in Queued => Listed(read[p].id)
        <5>1. read[p].reserved \in Times
          BY <2>7 DEF Reserve, Reading, ReadRecord
        <5>2. NoRow.reserved \notin Times
          BY Numbers DEF NoRow
        <5> QED
          BY <4>1, <5>1, <5>2 DEF Untouched, Listed
      <4>3. read[p].id \in Queued => read[p].id \in used /\ read[p].id \notin executed[p]
        BY <1>4, <4>2 DEF StartedIsGone, Gone
      <4> QED
        BY <2>0, <4>1, <4>3
    <3> QED
      BY <3>1, <3>2
  <2>8. CASE StartQueued(p)
    <3>1. /\ job[p].id \in Queued /\ job[p].id \in used /\ job'[p] = job[p]
          /\ row'[job[p].id] = NoRow /\ pc'[p] = "running" /\ executed'[p] = executed[p]
      BY <1>4, <2>8 DEF StartQueued, Ids
    <3> QED
      BY <2>0, <3>1 DEF Gone, Listed
  <2>9. CASE StartTimed(p)
    <3>1. PICK l \in {"running", "finish"} : pc' = [pc EXCEPT ![p] = l]
      BY <2>9 DEF StartTimed
    <3>2. job'[p].id \notin Queued /\ executed'[p] = executed[p]
      BY <2>9, KindsAssumption DEF StartTimed
    <3> QED
      BY <2>0, <3>1, <3>2
  <2>10. CASE EndRun(p)
    <3>1. /\ pc[p] = "running" /\ pc'[p] = "finish" /\ job'[p] = job[p]
          /\ executed'[p] = executed[p]
      BY <2>10 DEF EndRun
    <3> QED
      BY <1>2, <1>4, <2>0, <3>1
  <2>11. CASE Finish(p)
    <3>1. \A i \in Queued : i = job[p].id => Gone(i)'
      <4>1. pc[p] = "finish"
        BY <2>11 DEF Finish
      <4>2. job[p].id \in Queued => Gone(job[p].id)
        BY <1>4, <4>1
      <4> QED
        BY <1>2, <4>2
    <3>2. CASE End(p)
      BY <2>1, <3>2
    <3>3. CASE Go(p, "unlock") /\ UNCHANGED <<read, job, executed, visited>>
      BY <1>4, <2>0, <2>11, <3>1, <3>3 DEF Finish
    <3>4. CASE executed' = [executed EXCEPT ![p] = @ \cup {job[p].id}] /\ Go(p, "next")
      <4>1. executed'[p] = executed[p] \cup {job[p].id} /\ pc'[p] = "next"
        BY <3>4
      <4> QED
        BY <2>0, <3>1, <4>1
    <3> QED
      BY <2>11, <3>2, <3>3, <3>4 DEF Finish
  <2>12. CASE UnlockAgain(p)
    <3>1. CASE End(p)
      BY <2>1, <3>1
    <3>2. CASE ~ End(p)
      BY <2>2, <2>12, <3>2 DEF UnlockAgain
    <3> QED
      BY <3>1, <3>2
  <2> QED
    BY <1>6, <2>3, <2>4, <2>5, <2>6, <2>7, <2>8, <2>9, <2>10, <2>11, <2>12
    DEF ProcStep, RunnerStep
<1>7. ASSUME NEW p \in Procs, ProcStep(p) PROVE \A q \in Procs : Fine(q)'
  BY <1>5, <1>6, <1>7, OthersStay
<1>8. ASSUME UNCHANGED <<pc, job, executed>> PROVE \A q \in Procs : Fine(q)'
  BY <1>5, <1>8
<1>9. \A q \in Procs : Fine(q)'
  <2> HIDE DEF Fine
  <2>1. CASE Tick \/ UNCHANGED vars
    BY <1>8, <2>1 DEF Tick, vars
  <2>2. ASSUME NEW a \in Adders, EndAdd(a) \/ \E k \in Keys : BeginAdd(a, k)
        PROVE  \A q \in Procs : Fine(q)'
    BY <1>8, <2>2 DEF EndAdd, BeginAdd
  <2>3. ASSUME NEW k \in Keys, Remove(k) PROVE \A q \in Procs : Fine(q)'
    BY <1>8, <2>3 DEF Remove
  <2> QED
    BY <1>7, <2>1, <2>2, <2>3 DEF Next, ProcStep
<1> QED
  BY <1>1, <1>9 DEF StartedIsGone, Listed

LEMMA StartersFinite ==
  ASSUME NEW i
  PROVE  IsFiniteSet(Starters(i)) /\ Cardinality(Starters(i)) \in Nat
BY FiniteAssumption, FS_Subset, FS_CardinalityType DEF Starters

ToGive(i) == IF Listed(i) /\ ~ Given(i) THEN 1 ELSE 0
Within(i) == runs[i] + RunsToCome(i) <= writes[i]

LEMMA CountType ==
  ASSUME TypeInv, NEW i \in Queued
  PROVE  /\ runs[i] \in Nat /\ writes[i] \in Nat /\ Cardinality(Starters(i)) \in Nat
         /\ ToGive(i) \in {0, 1}
         /\ RunsToCome(i) = Cardinality(Starters(i)) + ToGive(i)
BY StartersFinite DEF TypeInv, ToGive, RunsToCome

LEMMA StartersFrame ==
  ASSUME NEW i, NEW p \in Procs,
         \A q \in Procs : q # p => pc'[q] = pc[q] /\ job'[q] = job[q]
  PROVE  /\ p \in Starters(i)' /\ p \notin Starters(i) => Starters(i)' = Starters(i) \cup {p}
         /\ p \in Starters(i) /\ p \notin Starters(i)' => Starters(i)' = Starters(i) \ {p}
         /\ (p \in Starters(i) <=> p \in Starters(i)') => Starters(i)' = Starters(i)
BY DEF Starters

(* A step that starts nothing and does not write the row. *)
LEMMA CountFrame ==
  ASSUME TypeInv, TypeInv', NEW i \in Queued, Within(i),
         Starters(i)' = Starters(i), runs'[i] = runs[i], writes'[i] = writes[i],
         row'[i] # NoRow => Listed(i),
         \/ now' = now /\ (row'[i] # NoRow => row'[i].reserved = row[i].reserved)
         \/ Starters(i) = {}
  PROVE  Within(i)'
<1>1. ToGive(i)' = 1 => ToGive(i) = 1
  BY DEF ToGive, Given, Listed
<1>2. /\ Cardinality(Starters(i))' = Cardinality(Starters(i))
      /\ ToGive(i)' \in {0, 1}
      /\ RunsToCome(i)' = Cardinality(Starters(i))' + ToGive(i)'
  BY CountType DEF ToGive, RunsToCome
<1>3. runs[i] + RunsToCome(i) <= writes[i]
  BY DEF Within
<1>4. runs'[i] + RunsToCome(i)' <= writes'[i]
  BY <1>1, <1>2, <1>3, CountType
<1> QED
  BY <1>4 DEF Within

(* One runner less is about to start the job. *)
LEMMA CountLess ==
  ASSUME TypeInv, TypeInv', NEW i \in Queued, Within(i), NEW p \in Starters(i),
         Starters(i)' = Starters(i) \ {p}, writes'[i] = writes[i],
         \/ runs'[i] = runs[i]
         \/ runs'[i] = runs[i] + 1 /\ row'[i] = NoRow
  PROVE  Within(i)'
<1>1. Cardinality(Starters(i) \ {p}) = Cardinality(Starters(i)) - 1
  BY StartersFinite, FS_RemoveElement
<1>2. /\ Cardinality(Starters(i))' = Cardinality(Starters(i)) - 1
      /\ ToGive(i)' \in {0, 1} /\ (row'[i] = NoRow => ToGive(i)' = 0)
      /\ RunsToCome(i)' = Cardinality(Starters(i))' + ToGive(i)'
  BY <1>1 DEF ToGive, RunsToCome, Listed
<1>3. runs[i] + RunsToCome(i) <= writes[i]
  BY DEF Within
<1>4. runs'[i] + RunsToCome(i)' <= writes'[i]
  <2>1. CASE runs'[i] = runs[i]
    BY <1>2, <1>3, <2>1, CountType
  <2>2. CASE runs'[i] = runs[i] + 1 /\ row'[i] = NoRow
    BY <1>2, <1>3, <2>2, CountType
  <2> QED
    BY <2>1, <2>2
<1> QED
  BY <1>4 DEF Within

(* The UPDATE that decides hands the row's run to the runner. *)
LEMMA CountReserve ==
  ASSUME TypeInv, TypeInv', NEW i \in Queued, Within(i), NEW p \in Procs,
         p \notin Starters(i), Starters(i)' = Starters(i) \cup {p},
         Listed(i), row[i].reserved < now, row'[i].reserved = now, now' = now,
         runs'[i] = runs[i], writes'[i] = writes[i]
  PROVE  Within(i)'
<1>1. Cardinality(Starters(i) \cup {p}) = Cardinality(Starters(i)) + 1
  BY StartersFinite, FS_AddElement
<1>2. ToGive(i) = 1
  <2>1. row[i].reserved # now
    BY DEF TypeInv
  <2> QED
    BY <2>1 DEF ToGive, Given
<1>3. ToGive(i)' = 0
  BY DEF ToGive, Given
<1>4. /\ Cardinality(Starters(i))' = Cardinality(Starters(i)) + 1
      /\ RunsToCome(i)' = Cardinality(Starters(i))' + ToGive(i)'
  BY <1>1 DEF ToGive, RunsToCome
<1>5. runs[i] + RunsToCome(i) <= writes[i]
  BY DEF Within
<1>6. runs'[i] + RunsToCome(i)' <= writes'[i]
  BY <1>2, <1>3, <1>4, <1>5, CountType
<1> QED
  BY <1>6 DEF Within

(* An add call that writes the row. *)
LEMMA CountWrite ==
  ASSUME TypeInv, TypeInv', NEW i \in Queued, Within(i),
         Starters(i)' = Starters(i), runs'[i] = runs[i], writes'[i] = writes[i] + 1
  PROVE  Within(i)'
<1>1. /\ Cardinality(Starters(i))' = Cardinality(Starters(i))
      /\ ToGive(i)' \in {0, 1}
      /\ RunsToCome(i)' = Cardinality(Starters(i))' + ToGive(i)'
  BY DEF ToGive, RunsToCome
<1>2. runs[i] + RunsToCome(i) <= writes[i]
  BY DEF Within
<1>3. runs'[i] + RunsToCome(i)' <= writes'[i]
  BY <1>1, <1>2, CountType
<1> QED
  BY <1>3 DEF Within

LEMMA CountRunner ==
  ASSUME TypeInv, TypeInv', ReadsFree, StartedIsGone, NEW i \in Queued, Within(i),
         NEW p \in Procs, ProcStep(p)
  PROVE  Within(i)'
<1> USE DEF list, runner, history, Go, ForgetRead
<1>a. i \in Ids /\ i \notin Unbuildable /\ i \notin Timed
  BY KindsAssumption DEF Ids
<1>b. /\ now' = now /\ writes' = writes
      /\ \A q \in Procs : q # p => pc'[q] = pc[q] /\ job'[q] = job[q]
  BY OthersStay
<1>c. \A l : (pc' = [pc EXCEPT ![p] = l] => pc'[p] = l)
  BY DEF TypeInv
<1>1. CASE Reserve(p) /\ row'[i] # row[i]
  <2>1. /\ Untouched(p) /\ read[p].id = i
        /\ Listed(i) /\ row'[i].reserved = now /\ pc[p] = "reserve"
    <3>1. Untouched(p) /\ row' = [row EXCEPT ![read[p].id].reserved = now, ![read[p].id].checked = now]
      BY <1>1 DEF Reserve
    <3>2. read[p].id = i /\ pc[p] = "reserve"
      BY <1>1, <1>a, <3>1 DEF Reserve, TypeInv
    <3>3. ~ KeepsRow(i) => Reserves(i)
      BY <1>1, <1>a, RowStep, <3>2 DEF ProcStep, Reserve, StartTimed, StartQueued, Holding
    <3>4. row[i].reserved \in Times /\ NoRow.reserved \notin Times
      BY <3>1, <3>2, Numbers DEF Untouched, TypeInv, Reading, ReadRecord, NoRow
    <3>5. row[i] \in RowRecord
      BY <1>a, <3>4 DEF TypeInv
    <3>6. row'[i].reserved = now
      BY <1>a, <3>1, <3>2, <3>5 DEF TypeInv, RowRecord
    <3> QED
      BY <1>a, <3>1, <3>2, <3>5, <3>6, ListedIsRecord
  <2>2. row[i].reserved = read[p].reserved /\ read[p].reserved <= now - ReserveFor
    BY <2>1 DEF Untouched, ReadsFree
  <2>3. row[i].reserved < now
    <3>1. read[p].reserved \in Nat
      BY <2>1, Numbers DEF TypeInv, Reading, ReadRecord
    <3>2. ReserveFor > 0 /\ ReserveFor \in Nat /\ now \in Nat
      BY TimesAssumption, Numbers DEF TypeInv
    <3> QED
      BY <2>2, <3>1, <3>2
  <2>4. i \notin executed[p]
    BY <2>1 DEF StartedIsGone, Gone
  <2>5. /\ pc' = [pc EXCEPT ![p] = "start"] /\ UNCHANGED <<runs>>
        /\ job'[p].id = i
    BY <1>1, <1>a, <2>1, <2>4 DEF Reserve, TypeInv
  <2>6. p \in Starters(i)' /\ p \notin Starters(i)
    BY <2>1, <2>5, <1>c DEF Starters
  <2>7. Starters(i)' = Starters(i) \cup {p}
    BY <1>b, <2>6, StartersFrame
  <2> QED
    BY <1>b, <2>1, <2>3, <2>5, <2>6, <2>7, CountReserve
<1>2. CASE p \in Starters(i)
  <2>1. pc[p] = "start" /\ job[p].id = i
    BY <1>2 DEF Starters
  <2>2. StartQueued(p) \/ Fatal(p) \/ Kill(p)
    BY <1>a, <2>1
    DEF ProcStep, RunnerStep, StopWorker, Select, CheckClass, Skip, Defer, Reserve,
      ResetUnbuildable, Repeat, StartTimed, EndRun, Finish, UnlockAgain
  <2>3. /\ pc'[p] # "start"
        /\ runs'[i] = runs[i] \/ (runs'[i] = runs[i] + 1 /\ row'[i] = NoRow)
    <3>1. CASE StartQueued(p)
      BY <1>a, <1>c, <2>1, <3>1 DEF StartQueued, TypeInv
    <3>2. CASE Fatal(p)
      BY <1>c, <3>2 DEF Fatal, End
    <3>3. CASE Kill(p)
      BY <1>c, <3>3 DEF Kill, End
    <3> QED
      BY <2>2, <3>1, <3>2, <3>3
  <2>4. Starters(i)' = Starters(i) \ {p}
    <3>1. p \notin Starters(i)'
      BY <2>3 DEF Starters
    <3> QED
      BY <1>2, <1>b, <3>1, StartersFrame
  <2> QED
    BY <1>2, <1>b, <2>3, <2>4, CountLess
<1>3. CASE p \notin Starters(i) /\ ~ (Reserve(p) /\ row'[i] # row[i])
  <2>1. runs'[i] = runs[i]
    <3>1. CASE StartQueued(p)
      <4>1. job[p].id # i
        BY <1>3, <3>1 DEF StartQueued, Starters
      <4> QED
        BY <3>1, <4>1 DEF StartQueued, TypeInv
    <3>2. CASE ~ StartQueued(p)
      BY <3>2
      DEF ProcStep, RunnerStep, StopWorker, Select, CheckClass, Skip, Defer, Reserve,
        ResetUnbuildable, Repeat, StartTimed, EndRun, Finish, UnlockAgain, Fatal, Kill
    <3> QED
      BY <3>1, <3>2
  <2>2. p \notin Starters(i)'
    <3>1. CASE Reserve(p)
      <4>1. row'[i] = row[i]
        BY <1>3, <3>1
      <4>2. CASE ~ Untouched(p)
        BY <3>1, <4>2, <1>c DEF Reserve, Starters
      <4>3. CASE Untouched(p) /\ read[p].id = i
        <5>1. /\ row' = [row EXCEPT ![read[p].id].reserved = now, ![read[p].id].checked = now]
              /\ pc[p] = "reserve"
          BY <3>1, <4>3 DEF Reserve
        <5>2. row[i].reserved = read[p].reserved /\ read[p].reserved <= now - ReserveFor
          BY <4>3, <5>1 DEF Untouched, ReadsFree
        <5>3. row[i].reserved \in Times /\ NoRow.reserved \notin Times /\ row[i].reserved \in Nat
          BY <4>3, <5>1, Numbers DEF Untouched, TypeInv, Reading, ReadRecord, NoRow
        <5>4. row[i] \in RowRecord
          BY <1>a, <5>3 DEF TypeInv
        <5>5. row'[i].reserved = now
          BY <1>a, <4>3, <5>1, <5>4 DEF TypeInv, RowRecord
        <5>6. ReserveFor > 0 /\ ReserveFor \in Nat /\ now \in Nat
          BY TimesAssumption, Numbers DEF TypeInv
        <5> QED
          BY <4>1, <5>2, <5>3, <5>5, <5>6
      <4>4. CASE Untouched(p) /\ read[p].id # i
        <5>1. pc'[p] = "reset" \/ job'[p].id = read[p].id
          BY <3>1, <4>4, <1>c DEF Reserve, TypeInv
        <5> QED
          BY <4>4, <5>1 DEF Starters
      <4> QED
        BY <4>2, <4>3, <4>4
    <3>2. CASE ~ Reserve(p)
      <4>1. CASE StopWorker(p) \/ Repeat(p) \/ Fatal(p) \/ Kill(p)
        BY <1>c, <4>1 DEF StopWorker, Repeat, Fatal, Kill, End, Starters
      <4>2. CASE Skip(p) \/ Defer(p) \/ ResetUnbuildable(p) \/ StartQueued(p) \/ EndRun(p)
        BY <1>c, <4>2 DEF Skip, Defer, ResetUnbuildable, StartQueued, EndRun, Starters
      <4>3. CASE Select(p)
        <5>1. pc' = pc \/ \E l \in {"idle", "blocked?", "reserve"} : pc' = [pc EXCEPT ![p] = l]
          BY <4>3 DEF Select, End
        <5> QED
          BY <1>c, <4>3, <5>1 DEF Select, Starters
      <4>4. CASE CheckClass(p)
        <5>1. \E l \in {"idle", "next", "skip", "reserve"} : pc' = [pc EXCEPT ![p] = l]
          BY <4>4 DEF CheckClass, End
        <5> QED
          BY <1>c, <5>1 DEF Starters
      <4>5. CASE StartTimed(p)
        <5>1. \E l \in {"running", "finish"} : pc' = [pc EXCEPT ![p] = l]
          BY <4>5 DEF StartTimed
        <5> QED
          BY <1>c, <5>1 DEF Starters
      <4>6. CASE Finish(p) \/ UnlockAgain(p)
        <5>1. \E l \in {"idle", "next", "unlock"} : pc' = [pc EXCEPT ![p] = l]
          BY <4>6 DEF Finish, UnlockAgain, End
        <5> QED
          BY <1>c, <5>1 DEF Starters
      <4> QED
        BY <3>2, <4>1, <4>2, <4>3, <4>4, <4>5, <4>6 DEF ProcStep, RunnerStep
    <3> QED
      BY <3>1, <3>2
  <2>3. Starters(i)' = Starters(i)
    BY <1>3, <1>b, <2>2, StartersFrame
  <2>4. row'[i] # NoRow => Listed(i) /\ row'[i].reserved = row[i].reserved
    <3>1. SUFFICES ASSUME row'[i] # NoRow PROVE Listed(i) /\ row'[i].reserved = row[i].reserved
      OBVIOUS
    <3>2. KeepsRow(i) => Listed(i) /\ row'[i].reserved = row[i].reserved
      BY <3>1 DEF KeepsRow
    <3>3. Reserve(p) => Listed(i) /\ row'[i].reserved = row[i].reserved
      BY <1>3, <3>1 DEF Listed
    <3>4. Frees(i) /\ pc[p] \in Holding /\ job[p].id = i => FALSE
      BY <1>3 DEF Frees, Holding, Starters, StartedIsGone, Gone
    <3> QED
      BY <1>a, <3>1, <3>2, <3>3, <3>4, RowStep DEF StartTimed
  <2> QED
    BY <1>b, <2>1, <2>3, <2>4, CountFrame
<1> QED
  BY <1>1, <1>2, <1>3

LEMMA CountStep ==
  ASSUME TypeInv, QueuedInv, [Next]_vars, "stall" \notin Env, NEW i \in Queued
  PROVE  Within(i)'
<1> USE DEF list, runner, history
<1>a. TypeInv' /\ i \in Ids
  BY TypingStep DEF Ids
<1>b. ReadsFree /\ StartedIsGone /\ Within(i)
  BY DEF QueuedInv, Within
<1>c. UNCHANGED <<pc, job>> => Starters(i)' = Starters(i)
  BY DEF Starters
<1>1. ASSUME NEW p \in Procs, ProcStep(p) PROVE Within(i)'
  BY <1>1, <1>a, <1>b, CountRunner
<1>2. CASE Tick
  <2>1. Starters(i) = {}
    BY <1>2 DEF Tick, InTime, Starters
  <2> QED
    BY <1>2, <1>a, <1>b, <1>c, <2>1, CountFrame DEF Tick, Listed
<1>3. ASSUME NEW a \in Adders, EndAdd(a) PROVE Within(i)'
  <2>1. UNCHANGED <<pc, job, now, runs>>
    BY <1>3 DEF EndAdd
  <2>2. CASE adding[a].found
    <3>1. PICK f \in {now, now + 1} :
              /\ row' = [j \in Ids |->
                   IF j \in Queued /\ Listed(j) /\ KeyOf[j] = adding[a].key
                     THEN NewRow(f) ELSE row[j]]
              /\ writes' = [j \in Queued |->
                   IF Listed(j) /\ KeyOf[j] = adding[a].key THEN writes[j] + 1 ELSE writes[j]]
      BY <1>3, <2>2 DEF EndAdd
    <3>2. CASE Listed(i) /\ KeyOf[i] = adding[a].key
      BY <1>a, <1>b, <1>c, <2>1, <3>1, <3>2, CountWrite
    <3>3. CASE ~ (Listed(i) /\ KeyOf[i] = adding[a].key)
      BY <1>a, <1>b, <1>c, <2>1, <3>1, <3>3, CountFrame DEF Listed
    <3> QED
      BY <3>2, <3>3
  <2>3. CASE ~ adding[a].found
    <3>1. PICK f \in {now, now + 1} : \E j \in Queued \ used :
                /\ row' = [row EXCEPT ![j] = NewRow(f)]
                /\ writes' = [writes EXCEPT ![j] = @ + 1]
      BY <1>3, <2>3 DEF EndAdd
    <3>2. PICK j \in Queued : /\ row' = [row EXCEPT ![j] = NewRow(f)]
                             /\ writes' = [writes EXCEPT ![j] = @ + 1]
      BY <3>1
    <3>3. CASE j = i
      BY <1>a, <1>b, <1>c, <2>1, <3>2, <3>3, CountWrite DEF TypeInv
    <3>4. CASE j # i
      <4>1. row'[i] = row[i] /\ writes'[i] = writes[i]
        BY <1>a, <3>2, <3>4 DEF TypeInv
      <4> QED
        BY <1>a, <1>b, <1>c, <2>1, <4>1, CountFrame DEF Listed
    <3> QED
      BY <3>3, <3>4
  <2> QED
    BY <2>2, <2>3
<1>4. ASSUME NEW a \in Adders, NEW k \in Keys, BeginAdd(a, k) PROVE Within(i)'
  BY <1>4, <1>a, <1>b, <1>c, CountFrame DEF BeginAdd, Listed
<1>5. ASSUME NEW k \in Keys, Remove(k) PROVE Within(i)'
  <2>1. row'[i] = NoRow \/ row'[i] = row[i]
    BY <1>5, <1>a DEF Remove
  <2> QED
    BY <1>5, <1>a, <1>b, <1>c, <2>1, CountFrame DEF Remove, Listed
<1>6. CASE UNCHANGED vars
  BY <1>6, <1>a, <1>b, <1>c, CountFrame DEF vars, Listed
<1> QED
  BY <1>1, <1>2, <1>3, <1>4, <1>5, <1>6 DEF Next, ProcStep

(***************************************************************************)
(* A queued row is run as often as add has written it at most, when the    *)
(* clock does not tick between the statements of getNext and start.        *)
(***************************************************************************)
THEOREM NotOftenerThanWritten ==
  ASSUME "stall" \notin Env
  PROVE  Spec => []OneRunPerWrite
<1>1. Init => QueuedInv
  <2> SUFFICES ASSUME Init PROVE QueuedInv
    OBVIOUS
  <2>1. ReadsFree /\ StartedIsGone
    BY KindsAssumption DEF Init, ReadsFree, StartedIsGone, Listed, Ids, Holding
  <2>2. ASSUME NEW i \in Queued PROVE runs[i] + RunsToCome(i) <= writes[i]
    <3>1. Starters(i) = {} /\ ~ Listed(i) /\ runs[i] = 0 /\ writes[i] = 0
      BY DEF Init, Starters, Listed, Ids
    <3>2. Cardinality(Starters(i)) = 0
      BY <3>1, FS_EmptySet
    <3> QED
      BY <3>1, <3>2 DEF RunsToCome
  <2> QED
    BY <2>1, <2>2 DEF QueuedInv
<1>2. TypeInv /\ QueuedInv /\ [Next]_vars => QueuedInv'
  <2> SUFFICES ASSUME TypeInv, QueuedInv, [Next]_vars PROVE QueuedInv'
    OBVIOUS
  <2>1. ReadsFree' /\ StartedIsGone'
    BY ReadsFreeStep, StartedStep DEF QueuedInv
  <2>2. \A i \in Queued : Within(i)'
    BY CountStep
  <2> QED
    BY <2>1, <2>2 DEF QueuedInv, Within
<1>3. TypeInv /\ QueuedInv => OneRunPerWrite
  <2> SUFFICES ASSUME TypeInv, QueuedInv, NEW i \in Queued PROVE runs[i] <= writes[i]
    BY DEF OneRunPerWrite
  <2>1. runs[i] + RunsToCome(i) <= writes[i]
    BY DEF QueuedInv
  <2> QED
    BY <2>1, CountType
<1> QED
  BY <1>1, <1>2, <1>3, Typing, PTL DEF Spec

(***************************************************************************)
(* Runs of timed jobs, where no run takes as long as the interval and the  *)
(* statements between two runs take no time.                               *)
(***************************************************************************)
Ripe(i) == now - row[i].last > Interval
Starts(p, i) == pc[p] \in {"start", "repeat"} /\ job[p].id = i
Reads(p, i) == pc[p] \in {"blocked?", "reserve"} /\ read[p].id = i
GivesBack(p, i) == pc[p] \in {"finish", "unlock"} /\ job[p].id = i
Stale(p, i) == read[p].last # row[i].last

TimedInv(i) ==
  /\ \A p \in Procs :
       /\ Starts(p, i) => /\ job[p].last = row[i].last /\ job[p].at = now
                          /\ now >= row[i].last + Interval
                          /\ Ripe(i) => row[i].reserved = now
       /\ Reads(p, i) /\ Stale(p, i) => row[i].last = now /\ row[i].reserved # read[p].reserved
       /\ Running(p, i) => row[i].last >= job[p].at /\ now < job[p].at + Interval
       /\ GivesBack(p, i) => ~ Ripe(i)
  /\ \A p, q \in Procs :
       /\ Starts(p, i) /\ Starts(q, i) /\ Ripe(i) => p = q
       /\ pc[p] = "unlock" /\ job[p].id = i /\ Reads(q, i) => ~ Stale(q, i)
       /\ Running(p, i) /\ Running(q, i) => p = q

\* The names by which the steps below cite the parts of TimedInv.
LEMMA TimedParts ==
  ASSUME NEW i \in Timed, TimedInv(i)
  PROVE  /\ \A p \in Procs : Starts(p, i) => /\ job[p].last = row[i].last /\ job[p].at = now
                                             /\ now >= row[i].last + Interval
                                             /\ Ripe(i) => row[i].reserved = now
         /\ \A p \in Procs : Reads(p, i) /\ Stale(p, i) =>
              row[i].last = now /\ row[i].reserved # read[p].reserved
         /\ \A p \in Procs : Running(p, i) => row[i].last >= job[p].at /\ now < job[p].at + Interval
         /\ \A p \in Procs : GivesBack(p, i) => ~ Ripe(i)
         /\ \A p, q \in Procs : Starts(p, i) /\ Starts(q, i) /\ Ripe(i) => p = q
         /\ \A p, q \in Procs : pc[p] = "unlock" /\ job[p].id = i /\ Reads(q, i) => ~ Stale(q, i)
         /\ \A p, q \in Procs : Running(p, i) /\ Running(q, i) => p = q
BY DEF TimedInv

(* The numbers that are compared. *)
LEMMA TimedNumbers ==
  ASSUME TypeInv, NEW i \in Timed
  PROVE  /\ now \in Nat /\ row[i].last \in Nat /\ row[i].reserved \in Nat
         /\ Interval \in Nat /\ Interval > 0 /\ ReserveFor \in Nat /\ ReserveFor > 0
         /\ \A p \in Procs : Reads(p, i) => read[p].reserved \in Nat /\ read[p].last \in Nat
         /\ \A p \in Procs : pc[p] \in Holding => job[p].last \in Nat /\ job[p].at \in Nat
<1>1. row[i] \in RowRecord
  BY ListedIsRecord DEF TypeInv, Ids
<1>2. row[i].last \in Nat /\ row[i].reserved \in Nat
  BY <1>1, Numbers DEF RowRecord
<1>3. now \in Nat
  BY Numbers DEF TypeInv
<1>4. \A p \in Procs : Reads(p, i) => read[p].reserved \in Nat /\ read[p].last \in Nat
  BY Numbers DEF TypeInv, ReadRecord, Reads, Reading
<1>5. ASSUME NEW p \in Procs, pc[p] \in Holding
      PROVE  job[p].last \in Nat /\ job[p].at \in Nat
  <2>1. job[p] \in JobRecord
    BY <1>5 DEF TypeInv
  <2> QED
    BY <2>1, Numbers DEF JobRecord
<1>6. Interval \in Nat /\ Interval > 0 /\ ReserveFor \in Nat /\ ReserveFor > 0
  BY TimesAssumption
<1> QED
  BY <1>2, <1>3, <1>4, <1>5, <1>6

(***************************************************************************)
(* A step of p that begins no run and makes no reservation of i. When it   *)
(* frees the row, nobody else may be counting on the reservation.          *)
(***************************************************************************)
LEMMA TimedFrame ==
  ASSUME TypeInv, NEW i \in Timed, TimedInv(i), NEW p \in Procs, now' = now,
         \A q \in Procs : q # p => pc'[q] = pc[q] /\ read'[q] = read[q] /\ job'[q] = job[q],
         row'[i].last = row[i].last,
         \/ row'[i].reserved = row[i].reserved
         \/ \A q \in Procs \ {p} : (Reads(q, i) => ~ Stale(q, i)) /\ (Ripe(i) => ~ Starts(q, i)),
         ~ Starts(p, i)', ~ Running(p, i)',
         Reads(p, i)' => \/ read'[p].last = row[i].last
                         \/ Reads(p, i) /\ read'[p] = read[p] /\ row'[i].reserved = row[i].reserved,
         GivesBack(p, i)' => ~ Ripe(i),
         pc'[p] = "unlock" /\ job'[p].id = i => \A q \in Procs : Reads(q, i) => ~ Stale(q, i)
  PROVE  TimedInv(i)'
<1>0. Ripe(i)' = Ripe(i)
  BY DEF Ripe
<1>1. ASSUME NEW q \in Procs, q # p
      PROVE  /\ Starts(q, i)' = Starts(q, i) /\ Reads(q, i)' = Reads(q, i)
             /\ Running(q, i)' = Running(q, i) /\ GivesBack(q, i)' = GivesBack(q, i)
             /\ Stale(q, i)' = Stale(q, i)
  BY <1>1 DEF Starts, Reads, Running, GivesBack, Stale
<1>2. ASSUME NEW q \in Procs, Starts(q, i)'
      PROVE  /\ job'[q].last = row'[i].last /\ job'[q].at = now'
             /\ now' >= row'[i].last + Interval
             /\ Ripe(i)' => row'[i].reserved = now'
             /\ q # p /\ Starts(q, i)
  <2>1. q # p /\ Starts(q, i) /\ job'[q] = job[q]
    BY <1>1, <1>2
  <2> QED
    BY <1>0, <2>1, TimedParts
<1>3. ASSUME NEW q \in Procs, Reads(q, i)', Stale(q, i)'
      PROVE  row'[i].last = now' /\ row'[i].reserved # read'[q].reserved
  <2>1. CASE q = p
    <3>1. Reads(p, i) /\ read'[p] = read[p] /\ row'[i].reserved = row[i].reserved
      BY <1>3, <2>1 DEF Stale
    <3>2. Stale(p, i)
      BY <1>3, <2>1, <3>1 DEF Stale
    <3> QED
      BY <2>1, <3>1, <3>2, TimedParts
  <2>2. CASE q # p
    <3>1. Reads(q, i) /\ Stale(q, i) /\ read'[q] = read[q]
      BY <1>1, <1>3, <2>2
    <3> QED
      BY <2>2, <3>1, TimedParts
  <2> QED
    BY <2>1, <2>2
<1>4. ASSUME NEW q \in Procs, Running(q, i)'
      PROVE  /\ row'[i].last >= job'[q].at /\ now' < job'[q].at + Interval
             /\ q # p /\ Running(q, i)
  <2>1. q # p /\ Running(q, i) /\ job'[q] = job[q]
    BY <1>1, <1>4
  <2> QED
    BY <2>1, TimedParts
<1>5. ASSUME NEW q \in Procs, GivesBack(q, i)' PROVE ~ Ripe(i)'
  BY <1>0, <1>1, <1>5, TimedParts
<1>6. ASSUME NEW q \in Procs, NEW s \in Procs, Starts(q, i)', Starts(s, i)', Ripe(i)'
      PROVE  q = s
  BY <1>0, <1>2, <1>6, TimedParts
<1>7. ASSUME NEW q \in Procs, NEW s \in Procs, pc'[q] = "unlock", job'[q].id = i, Reads(s, i)'
      PROVE  ~ Stale(s, i)'
  <2>1. \A r \in Procs : Reads(r, i) => ~ Stale(r, i)
    <3>1. CASE q = p
      BY <1>7, <3>1
    <3>2. CASE q # p
      <4>1. pc[q] = "unlock" /\ job[q].id = i
        BY <1>7, <3>2
      <4> QED
        BY <4>1, TimedParts
    <3> QED
      BY <3>1, <3>2
  <2>2. CASE s = p
    <3>1. read'[p].last = row[i].last \/ (Reads(p, i) /\ read'[p] = read[p])
      BY <1>7, <2>2
    <3> QED
      BY <2>1, <2>2, <3>1 DEF Stale
  <2>3. CASE s # p
    BY <1>1, <1>7, <2>1, <2>3
  <2> QED
    BY <2>2, <2>3
<1>8. ASSUME NEW q \in Procs, NEW s \in Procs, Running(q, i)', Running(s, i)' PROVE q = s
  BY <1>4, <1>8, TimedParts
<1> QED
  BY <1>2, <1>3, <1>4, <1>5, <1>6, <1>7, <1>8 DEF TimedInv

(***************************************************************************)
(* The UPDATE that decides. It finds the row as read, so the copy is not   *)
(* old; and the interval is over, so no other copy is.                     *)
(***************************************************************************)
LEMMA TimedReserve ==
  ASSUME TypeInv, ReadsFree, NEW i \in Timed, TimedInv(i), NEW p \in Procs, now' = now,
         \A q \in Procs : q # p => pc'[q] = pc[q] /\ read'[q] = read[q] /\ job'[q] = job[q],
         Reads(p, i), row[i].reserved = read[p].reserved, now >= read[p].last + Interval,
         row'[i].reserved = now, row'[i].last = row[i].last,
         pc'[p] \in {"start", "repeat"}, job'[p].last = read[p].last, job'[p].at = now
  PROVE  TimedInv(i)'
<1>n. /\ now \in Nat /\ row[i].last \in Nat /\ Interval \in Nat /\ Interval > 0
      /\ ReserveFor \in Nat /\ ReserveFor > 0 /\ read[p].reserved \in Nat
  BY TimedNumbers
<1>1. read[p].last = row[i].last
  BY TimedParts DEF Stale
<1>2. row[i].last # now
  BY <1>n, <1>1
<1>3. row[i].reserved # now
  <2>1. read[p].reserved <= now - ReserveFor
    BY DEF ReadsFree, Reads
  <2> QED
    BY <1>n, <2>1
<1>4. \A q \in Procs : Reads(q, i) => ~ Stale(q, i)
  BY <1>2, TimedParts
<1>5. \A q \in Procs : Starts(q, i) => ~ Ripe(i)
  BY <1>3, TimedParts
<1>6. Ripe(i)' = Ripe(i)
  BY DEF Ripe
<1>7. ASSUME NEW q \in Procs, q # p
      PROVE  /\ Starts(q, i)' = Starts(q, i) /\ Reads(q, i)' = Reads(q, i)
             /\ Running(q, i)' = Running(q, i) /\ GivesBack(q, i)' = GivesBack(q, i)
             /\ Stale(q, i)' = Stale(q, i) /\ job'[q] = job[q]
             /\ pc'[q] = pc[q]
  BY <1>7 DEF Starts, Reads, Running, GivesBack, Stale
<1>8. ~ Reads(p, i)' /\ ~ Running(p, i)' /\ ~ GivesBack(p, i)' /\ pc'[p] # "unlock"
  BY DEF Reads, Running, GivesBack
<1>9. ASSUME NEW q \in Procs, Starts(q, i)'
      PROVE  /\ job'[q].last = row'[i].last /\ job'[q].at = now'
             /\ now' >= row'[i].last + Interval
             /\ Ripe(i)' => row'[i].reserved = now'
  <2>1. CASE q = p
    BY <1>1, <2>1
  <2>2. CASE q # p
    BY <1>7, <1>9, <2>2, TimedParts
  <2> QED
    BY <2>1, <2>2
<1>10. ASSUME NEW q \in Procs, NEW s \in Procs, Starts(q, i)', Starts(s, i)', Ripe(i)'
       PROVE  q = s
  BY <1>5, <1>6, <1>7, <1>10
<1>11. ASSUME NEW q \in Procs, Reads(q, i)' PROVE ~ Stale(q, i)'
  BY <1>4, <1>7, <1>8, <1>11
<1>12. ASSUME NEW q \in Procs, Running(q, i)'
       PROVE  q # p /\ Running(q, i) /\ row'[i].last >= job'[q].at /\ now' < job'[q].at + Interval
  BY <1>7, <1>8, <1>12, TimedParts
<1>13. ASSUME NEW q \in Procs, GivesBack(q, i)' PROVE ~ Ripe(i)'
  BY <1>6, <1>7, <1>8, <1>13, TimedParts
<1>14. ASSUME NEW q \in Procs, NEW s \in Procs, Running(q, i)', Running(s, i)' PROVE q = s
  BY <1>12, <1>14, TimedParts
<1> QED
  BY <1>9, <1>10, <1>11, <1>12, <1>13, <1>14 DEF TimedInv

(***************************************************************************)
(* A run begins. The interval is over, so nobody runs the job or gives it  *)
(* back, nobody else starts it, and every copy of the row is old by its    *)
(* reservation too.                                                        *)
(***************************************************************************)
LEMMA TimedBegin ==
  ASSUME TypeInv, ReadsFree, NEW i \in Timed, TimedInv(i), NEW p \in Procs, now' = now,
         \A q \in Procs : q # p => pc'[q] = pc[q] /\ read'[q] = read[q] /\ job'[q] = job[q],
         pc[p] = "start", job[p].id = i, now - job[p].last > Interval,
         row'[i].reserved = row[i].reserved, row'[i].last = now,
         pc'[p] = "running", job'[p] = job[p]
  PROVE  TimedInv(i)'
<1>n. /\ now \in Nat /\ row[i].last \in Nat /\ Interval \in Nat /\ Interval > 0
      /\ ReserveFor \in Nat /\ ReserveFor > 0
      /\ \A q \in Procs : Reads(q, i) => read[q].reserved \in Nat
      /\ \A q \in Procs : Running(q, i) => job[q].at \in Nat
  BY TimedNumbers DEF Running, Holding
<1>1. Starts(p, i)
  BY DEF Starts
<1>2. Ripe(i) /\ row[i].reserved = now /\ job[p].at = now
  BY <1>1, TimedParts DEF Ripe
<1>3. \A q \in Procs : Starts(q, i) => q = p
  BY <1>1, <1>2, TimedParts
<1>4. \A q \in Procs : ~ GivesBack(q, i)
  BY <1>2, TimedParts
<1>5. \A q \in Procs : ~ Running(q, i)
  <2> SUFFICES ASSUME NEW q \in Procs, Running(q, i) PROVE FALSE
    OBVIOUS
  <2>1. row[i].last >= job[q].at /\ now < job[q].at + Interval
    BY TimedParts
  <2>2. now - row[i].last > Interval
    BY <1>2 DEF Ripe
  <2> QED
    BY <1>n, <2>1, <2>2
<1>6. ~ Ripe(i)'
  <2>1. ~ (now - now > Interval)
    BY <1>n
  <2> QED
    BY <2>1 DEF Ripe
<1>7. ASSUME NEW q \in Procs, q # p
      PROVE  /\ ~ Starts(q, i)' /\ ~ Running(q, i)' /\ ~ GivesBack(q, i)'
             /\ Reads(q, i)' = Reads(q, i) /\ read'[q] = read[q]
  BY <1>3, <1>4, <1>5, <1>7 DEF Starts, Reads, Running, GivesBack
<1>8. ~ Starts(p, i)' /\ ~ Reads(p, i)' /\ ~ GivesBack(p, i)'
  BY DEF Starts, Reads, GivesBack
<1>9. ASSUME NEW q \in Procs, Reads(q, i)'
      PROVE  row'[i].last = now' /\ row'[i].reserved # read'[q].reserved
  <2>1. Reads(q, i) /\ read'[q] = read[q]
    BY <1>7, <1>8, <1>9
  <2>2. read[q].reserved <= now - ReserveFor
    BY <2>1 DEF ReadsFree, Reads
  <2>3. read[q].reserved # now
    BY <1>n, <2>1, <2>2
  <2> QED
    BY <1>2, <2>1, <2>3
<1>10. row'[i].last >= job'[p].at /\ now' < job'[p].at + Interval
  BY <1>n, <1>2
<1>11. \A q \in Procs : ~ (pc'[q] = "unlock" /\ job'[q].id = i)
  BY <1>7, <1>8 DEF GivesBack
<1> QED
  BY <1>6, <1>7, <1>8, <1>9, <1>10, <1>11 DEF TimedInv

LEMMA TimedRunner ==
  ASSUME TypeInv, ReadsFree, Env = {}, NEW i \in Timed, TimedInv(i),
         NEW p \in Procs, ProcStep(p)
  PROVE  TimedInv(i)'
<1> USE DEF list, runner, history, Go, ForgetRead
<1>a. i \in Ids /\ i \notin Unbuildable /\ i \notin Queued
  BY KindsAssumption DEF Ids
<1>b. /\ now' = now
      /\ \A q \in Procs : q # p => pc'[q] = pc[q] /\ read'[q] = read[q] /\ job'[q] = job[q]
  BY OthersStay
<1>c. /\ \A l : (pc' = [pc EXCEPT ![p] = l] => pc'[p] = l)
      /\ \A r : (read' = [read EXCEPT ![p] = r] => read'[p] = r)
  BY DEF TypeInv
<1>d. \/ KeepsRow(i)
      \/ /\ Frees(i) /\ pc[p] \in Holding /\ job[p].id = i
         /\ Repeat(p) \/ EndRun(p) \/ Finish(p) \/ UnlockAgain(p) \/ Fatal(p)
      \/ Reserves(i) /\ Reserve(p) /\ Untouched(p) /\ read[p].id = i
      \/ Begins(i) /\ StartTimed(p) /\ job[p].id = i /\ now - job[p].last > Interval
  BY <1>a, RowStep DEF StartQueued
<1>n. /\ now \in Nat /\ row[i].last \in Nat /\ Interval \in Nat /\ Interval > 0
      /\ \A q \in Procs : pc[q] \in Holding => job[q].last \in Nat /\ job[q].at \in Nat
  BY TimedNumbers
<1>e. ASSUME NobodyReads(p), job[p].id = i PROVE \A q \in Procs : ~ Reads(q, i)
  BY <1>e DEF NobodyReads, Reads
\* A runner that is running the job: the interval is not over.
<1>f. Running(p, i) => ~ Ripe(i)
  <2> SUFFICES ASSUME Running(p, i) PROVE ~ Ripe(i)
    OBVIOUS
  <2>1. row[i].last >= job[p].at /\ now < job[p].at + Interval
    BY TimedParts
  <2>2. job[p].at \in Nat
    BY <1>n DEF Running, Holding
  <2> QED
    BY <1>n, <2>1, <2>2 DEF Ripe
\* A step after which p has nothing to do with the job.
<1>g. ASSUME KeepsRow(i) \/ (/\ Frees(i)
                             /\ \A q \in Procs \ {p} : /\ Reads(q, i) => ~ Stale(q, i)
                                                       /\ Ripe(i) => ~ Starts(q, i)),
             pc'[p] \in {"idle", "next", "skip"}
      PROVE  TimedInv(i)'
  <2>1. ~ Starts(p, i)' /\ ~ Running(p, i)' /\ ~ Reads(p, i)' /\ ~ GivesBack(p, i)'
    BY <1>g DEF Starts, Running, Reads, GivesBack
  <2>2. pc'[p] # "unlock"
    BY <1>g
  <2> QED
    BY <1>b, <1>g, <2>1, <2>2, TimedFrame DEF KeepsRow, Frees
<1>1. CASE StopWorker(p) \/ Kill(p)
  <2>1. pc'[p] = "idle"
    BY <1>1, <1>c DEF StopWorker, Kill, End
  <2>2. row' = row
    BY <1>1 DEF StopWorker, Kill
  <2> QED
    BY <1>g, <2>1, <2>2 DEF KeepsRow, Listed
<1>2. CASE Skip(p) \/ Defer(p) \/ ResetUnbuildable(p)
  <2>1. pc'[p] = "next"
    BY <1>2, <1>c DEF Skip, Defer, ResetUnbuildable
  <2>2. pc[p] \in {"skip", "reserve", "reset"} /\ pc[p] \notin Holding
    BY <1>2 DEF Skip, Defer, ResetUnbuildable, Holding
  <2>3. ~ StartTimed(p) /\ (read[p].id = i => ~ Reserve(p))
    <3>1. CASE Defer(p) /\ read[p].id = i
      <4>1. Reads(p, i) /\ now < read[p].last + Interval
        BY <3>1 DEF Defer, Reads, NextPossibleRun
      <4>2. read[p].last \in Nat
        BY <4>1, TimedNumbers
      <4>3. ~ (now >= read[p].last + Interval)
        BY <1>n, <4>1, <4>2
      <4> QED
        BY <1>2, <2>2, <3>1, <4>3 DEF Reserve, StartTimed, NextPossibleRun
    <3>2. CASE ~ Defer(p) \/ read[p].id # i
      BY <1>2, <2>2, <3>2 DEF Skip, ResetUnbuildable, Defer, Reserve, StartTimed
    <3> QED
      BY <3>1, <3>2
  <2>4. KeepsRow(i)
    BY <1>d, <2>2, <2>3
  <2> QED
    BY <1>g, <2>1, <2>4
<1>3. CASE Select(p)
  <2>1. KeepsRow(i)
    BY <1>3 DEF Select, KeepsRow, Listed
  <2>2. CASE UNCHANGED runner
    BY <1>3, <1>b, <1>c, <1>g, <2>1, <2>2 DEF Select
  <2>3. CASE End(p)
    BY <1>c, <1>g, <2>1, <2>3 DEF End
  <2>4. ASSUME NEW j \in Ids,
               read' = [read EXCEPT ![p] =
                        [id |-> j, reserved |-> row[j].reserved,
                         checked |-> row[j].checked, last |-> row[j].last]],
               Go(p, IF MustCheckClass(j) THEN "blocked?" ELSE "reserve")
        PROVE  TimedInv(i)'
    <3>1. PICK l \in {"blocked?", "reserve"} : pc' = [pc EXCEPT ![p] = l]
      BY <2>4
    <3>2. pc'[p] \in {"blocked?", "reserve"}
      BY <1>c, <3>1
    <3>3. Reads(p, i)' => read'[p].last = row[i].last
      BY <1>c, <2>4 DEF Reads
    <3>4. ~ Starts(p, i)' /\ ~ Running(p, i)' /\ ~ GivesBack(p, i)' /\ pc'[p] # "unlock"
      BY <3>2 DEF Starts, Running, GivesBack
    <3> QED
      BY <1>b, <2>1, <3>3, <3>4, TimedFrame DEF KeepsRow
  <2> QED
    BY <1>3, <2>2, <2>3, <2>4 DEF Select
<1>4. CASE CheckClass(p)
  <2>1. row' = row /\ KeepsRow(i)
    BY <1>4 DEF CheckClass, KeepsRow, Listed
  <2>2. CASE End(p)
    BY <1>c, <1>g, <2>1, <2>2 DEF End
  <2>3. CASE ~ End(p)
    <3>1. pc'[p] \in {"next", "skip"} \/ (pc'[p] = "reserve" /\ read' = read /\ pc[p] = "blocked?")
      BY <1>4, <1>c, <2>3 DEF CheckClass
    <3>2. CASE pc'[p] = "reserve" /\ read' = read /\ pc[p] = "blocked?"
      <4>1. Reads(p, i)' => Reads(p, i) /\ read'[p] = read[p]
        BY <3>2 DEF Reads
      <4>2. ~ Starts(p, i)' /\ ~ Running(p, i)' /\ ~ GivesBack(p, i)' /\ pc'[p] # "unlock"
        BY <3>2 DEF Starts, Running, GivesBack
      <4> QED
        BY <1>b, <2>1, <4>1, <4>2, TimedFrame DEF KeepsRow
    <3> QED
      BY <1>g, <2>1, <3>1, <3>2
  <2> QED
    BY <2>2, <2>3
<1>5. CASE Reserve(p)
  <2>0. pc[p] = "reserve" /\ (read[p].id = i => now >= read[p].last + Interval)
    BY <1>5 DEF Reserve, NextPossibleRun
  <2>1. CASE ~ Untouched(p)
    <3>1. pc'[p] = "next" /\ row' = row
      BY <1>5, <1>c, <2>1 DEF Reserve
    <3> QED
      BY <1>g, <3>1 DEF KeepsRow, Listed
  <2>2. CASE Untouched(p) /\ read[p].id # i
    <3>1. row'[i] = row[i]
      BY <1>5, <1>a, <2>2 DEF Reserve, TypeInv
    <3>2. \/ pc'[p] = "reset"
          \/ pc'[p] \in {"repeat", "start"} /\ job'[p].id = read[p].id
      BY <1>5, <1>c, <2>2 DEF Reserve, TypeInv
    <3>3. ~ Starts(p, i)' /\ ~ Running(p, i)' /\ ~ GivesBack(p, i)' /\ pc'[p] # "unlock"
          /\ ~ Reads(p, i)'
      BY <2>2, <3>2 DEF Starts, Running, GivesBack, Reads
    <3> QED
      BY <1>b, <3>1, <3>3, TimedFrame
  <2>3. CASE Untouched(p) /\ read[p].id = i
    <3>1. /\ row' = [row EXCEPT ![i].reserved = now, ![i].checked = now]
          /\ job' = [job EXCEPT ![p] = [id |-> i, last |-> read[p].last, at |-> now]]
          /\ pc' = [pc EXCEPT ![p] = IF i \in executed[p] THEN "repeat" ELSE "start"]
      BY <1>5, <1>a, <2>3 DEF Reserve
    <3>2. row[i] \in RowRecord
      BY <1>a, ListedIsRecord DEF TypeInv
    <3>3. row'[i].reserved = now /\ row'[i].last = row[i].last
      BY <1>a, <3>1, <3>2 DEF TypeInv, RowRecord
    <3>4. pc'[p] \in {"start", "repeat"} /\ job'[p].last = read[p].last /\ job'[p].at = now
      BY <3>1 DEF TypeInv
    <3>5. Reads(p, i) /\ row[i].reserved = read[p].reserved
      BY <2>0, <2>3 DEF Reads, Untouched
    <3> QED
      BY <1>b, <2>0, <2>3, <3>3, <3>4, <3>5, TimedReserve
  <2> QED
    BY <2>1, <2>2, <2>3
<1>6. CASE Repeat(p)
  <2>1. pc'[p] = "idle" /\ pc[p] = "repeat"
    BY <1>6, <1>c DEF Repeat, End
  <2>2. CASE KeepsRow(i)
    BY <1>g, <2>1, <2>2
  <2>3. CASE Frees(i) /\ job[p].id = i
    <3>1. Starts(p, i)
      BY <2>1, <2>3 DEF Starts
    <3>2. row[i].last # now
      BY <1>n, <3>1, TimedParts
    <3>3. \A q \in Procs \ {p} : (Reads(q, i) => ~ Stale(q, i)) /\ (Ripe(i) => ~ Starts(q, i))
      BY <3>1, <3>2, TimedParts
    <3> QED
      BY <1>g, <2>1, <2>3, <3>3
  <2> QED
    BY <1>d, <2>1, <2>2, <2>3 DEF Reserve, StartTimed
<1>7. CASE StartQueued(p)
  <2>1. KeepsRow(i)
    BY <1>7, <1>a, <1>d
    DEF StartQueued, Reserve, StartTimed, Repeat, EndRun, Finish, UnlockAgain
  <2>2. pc'[p] = "running" /\ job'[p].id # i
    BY <1>7, <1>a, <1>c DEF StartQueued
  <2>3. ~ Starts(p, i)' /\ ~ Running(p, i)' /\ ~ GivesBack(p, i)' /\ ~ Reads(p, i)'
    BY <2>2 DEF Starts, Running, GivesBack, Reads
  <2> QED
    BY <1>b, <2>1, <2>2, <2>3, TimedFrame DEF KeepsRow
<1>8. CASE StartTimed(p)
  <2>0. pc[p] = "start" /\ job'[p] = job[p]
    BY <1>8 DEF StartTimed
  <2>1. CASE job[p].id = i /\ now - job[p].last > Interval
    <3>1. /\ pc'[p] = "running"
          /\ row' = [row EXCEPT ![i] = IF Listed(i) THEN [row[i] EXCEPT !.last = now] ELSE NoRow]
      BY <1>8, <1>c, <2>1 DEF StartTimed, Update
    <3>2. Listed(i) /\ row[i] \in RowRecord
      BY <1>a, ListedIsRecord DEF TypeInv
    <3>3. row'[i].reserved = row[i].reserved /\ row'[i].last = now
      BY <1>a, <3>1, <3>2 DEF TypeInv, RowRecord
    <3> QED
      BY <1>b, <2>0, <2>1, <3>1, <3>3, TimedBegin
  <2>2. CASE ~ (job[p].id = i /\ now - job[p].last > Interval)
    <3>1. KeepsRow(i)
      BY <1>8, <1>d, <2>2, <2>0
      DEF Reserve, Repeat, EndRun, Finish, UnlockAgain, Fatal, StartTimed,
        KeepsRow, Frees
    <3>2. /\ pc'[p] \in {"running", "finish"}
          /\ job[p].id = i => pc'[p] = "finish" /\ ~ (now - job[p].last > Interval)
      BY <1>8, <1>c, <2>2 DEF StartTimed
    <3>3. job[p].id = i => ~ Ripe(i)
      BY <2>0, <3>2, TimedParts DEF Starts, Ripe
    <3>4. ~ Starts(p, i)' /\ ~ Running(p, i)' /\ ~ Reads(p, i)' /\ pc'[p] # "unlock"
          /\ (GivesBack(p, i)' => ~ Ripe(i))
      BY <2>0, <3>2, <3>3 DEF Starts, Running, GivesBack, Reads
    <3> QED
      BY <1>b, <3>1, <3>4, TimedFrame DEF KeepsRow
  <2> QED
    BY <2>1, <2>2
<1>9. CASE EndRun(p)
  <2>1. pc[p] = "running" /\ pc'[p] = "finish" /\ job'[p] = job[p] /\ NobodyReads(p)
    BY <1>9, <1>c DEF EndRun
  <2>2. ~ Starts(p, i)' /\ ~ Running(p, i)' /\ ~ Reads(p, i)' /\ pc'[p] # "unlock"
        /\ (GivesBack(p, i)' => ~ Ripe(i))
    BY <2>1, <1>f DEF Starts, Running, Reads, GivesBack
  <2>3. KeepsRow(i) \/ (Frees(i) /\ job[p].id = i)
    BY <1>d, <2>1 DEF Reserve, StartTimed
  <2>4. job[p].id = i =>
          \A q \in Procs \ {p} : (Reads(q, i) => ~ Stale(q, i)) /\ (Ripe(i) => ~ Starts(q, i))
    BY <1>e, <1>f, <2>1 DEF Running
  <2> QED
    BY <1>b, <2>2, <2>3, <2>4, TimedFrame DEF KeepsRow, Frees
<1>10. CASE Finish(p)
  <2>1. pc[p] = "finish" /\ NobodyReads(p)
    BY <1>10 DEF Finish
  <2>2. job[p].id = i => ~ Ripe(i) /\ \A q \in Procs : ~ Reads(q, i)
    BY <1>e, <2>1, TimedParts DEF GivesBack
  <2>3. KeepsRow(i) \/ (Frees(i) /\ job[p].id = i)
    BY <1>d, <2>1 DEF Reserve, StartTimed
  <2>4. pc'[p] \in {"idle", "next"} \/ (pc'[p] = "unlock" /\ job'[p] = job[p])
    BY <1>10, <1>c DEF Finish, End
  <2>5. CASE pc'[p] \in {"idle", "next"}
    BY <1>g, <2>2, <2>3, <2>5
  <2>6. CASE pc'[p] = "unlock" /\ job'[p] = job[p]
    <3>1. ~ Starts(p, i)' /\ ~ Running(p, i)' /\ ~ Reads(p, i)' /\ (GivesBack(p, i)' => ~ Ripe(i))
      BY <2>2, <2>6 DEF Starts, Running, Reads, GivesBack
    <3> QED
      BY <1>b, <2>2, <2>3, <2>6, <3>1, TimedFrame DEF KeepsRow, Frees
  <2> QED
    BY <2>4, <2>5, <2>6
<1>11. CASE UnlockAgain(p)
  <2>1. pc[p] = "unlock" /\ pc'[p] \in {"idle", "next"}
    BY <1>11, <1>c DEF UnlockAgain, End
  <2>2. job[p].id = i => ~ Ripe(i) /\ \A q \in Procs : Reads(q, i) => ~ Stale(q, i)
    BY <2>1, TimedParts DEF GivesBack
  <2>3. KeepsRow(i) \/ (Frees(i) /\ job[p].id = i)
    BY <1>d, <2>1 DEF Reserve, StartTimed
  <2> QED
    BY <1>g, <2>1, <2>2, <2>3
<1>12. CASE Fatal(p)
  <2>1. pc[p] \in {"start", "running", "finish"} /\ pc'[p] = "idle" /\ NobodyReads(p)
    BY <1>12, <1>c DEF Fatal, End
  <2>2. KeepsRow(i) \/ (Frees(i) /\ job[p].id = i)
    <3>1. CASE StartTimed(p) \/ Reserve(p)
      <4>1. pc'[p] \in {"running", "finish"} \/ pc[p] = "reserve"
        BY <1>c, <3>1 DEF StartTimed, Reserve
      <4> QED
        BY <2>1, <4>1
    <3>2. CASE ~ (StartTimed(p) \/ Reserve(p))
      BY <1>d, <3>2
    <3> QED
      BY <3>1, <3>2
  <2>3. job[p].id = i =>
          \A q \in Procs \ {p} : (Reads(q, i) => ~ Stale(q, i)) /\ (Ripe(i) => ~ Starts(q, i))
    BY <1>e, <1>f, <2>1, TimedParts DEF Running, GivesBack, Starts
  <2> QED
    BY <1>g, <2>1, <2>2, <2>3
<1> QED
  BY <1>1, <1>2, <1>3, <1>4, <1>5, <1>6, <1>7, <1>8, <1>9, <1>10, <1>11, <1>12
  DEF ProcStep, RunnerStep

(* The clock ticks only while no runner is in getNext, about to start, or  *)
(* giving a job back, and no run has taken as long as the interval.        *)
LEMMA TimedTick ==
  ASSUME TypeInv, Env = {}, NEW i \in Timed, TimedInv(i), Tick
  PROVE  TimedInv(i)'
<1> USE DEF list, runner, history
<1>1. /\ \A q \in Procs : pc[q] \in {"idle", "next", "running"}
      /\ \A q \in Procs : job[q] # NoJob => now + 1 < job[q].at + Limit(q)
      /\ now' = now + 1 /\ UNCHANGED <<row, pc, read, job>>
  BY DEF Tick, InTime
<1>2. \A q \in Procs : ~ Starts(q, i)' /\ ~ Reads(q, i)' /\ ~ GivesBack(q, i)' /\ pc'[q] # "unlock"
  BY <1>1 DEF Starts, Reads, GivesBack
<1>3. ASSUME NEW q \in Procs, Running(q, i)
      PROVE  row[i].last >= job[q].at /\ now + 1 < job[q].at + Interval
  <2>1. job[q] \in JobRecord /\ job[q].id = i
    BY <1>3 DEF Running, TypeInv, Holding
  <2>2. job[q] # NoJob
    <3>1. i # "none"
      BY NoneAssumption DEF Ids
    <3> QED
      BY <2>1, <3>1 DEF NoJob
  <2> QED
    BY <1>1, <1>3, <2>1, <2>2, TimedParts DEF Limit
<1>4. \A q \in Procs : Running(q, i)' = Running(q, i)
  BY <1>1 DEF Running
<1> QED
  BY <1>1, <1>2, <1>3, <1>4, TimedParts DEF TimedInv

LEMMA TimedStep ==
  ASSUME TypeInv, ReadsFree, Env = {}, NEW i \in Timed, TimedInv(i), [Next]_vars
  PROVE  TimedInv(i)'
<1> USE DEF list, runner, history
<1>1. ASSUME row'[i] = row[i], UNCHANGED <<now, pc, read, job>> PROVE TimedInv(i)'
  BY <1>1 DEF TimedInv, Starts, Reads, Running, GivesBack, Stale, Ripe
<1>a. i \in Ids /\ i \notin Queued
  BY KindsAssumption DEF Ids
<1>2. ASSUME NEW a \in Adders, EndAdd(a) PROVE row'[i] = row[i]
  <2>1. CASE adding[a].found
    <3>1. PICK f \in {now, now + 1} : row' = [j \in Ids |->
                   IF j \in Queued /\ Listed(j) /\ KeyOf[j] = adding[a].key
                     THEN NewRow(f) ELSE row[j]]
      BY <1>2, <2>1 DEF EndAdd
    <3> QED
      BY <1>a, <3>1
  <2>2. CASE ~ adding[a].found
    <3>1. PICK f \in {now, now + 1} : \E j \in Queued \ used : row' = [row EXCEPT ![j] = NewRow(f)]
      BY <1>2, <2>2 DEF EndAdd
    <3> QED
      BY <1>a, <3>1 DEF TypeInv
  <2> QED
    BY <2>1, <2>2
<1>3. ASSUME NEW a \in Adders, EndAdd(a) PROVE TimedInv(i)'
  BY <1>1, <1>2, <1>3 DEF EndAdd
<1>4. ASSUME NEW a \in Adders, NEW k \in Keys, BeginAdd(a, k) PROVE TimedInv(i)'
  BY <1>1, <1>4 DEF BeginAdd
<1>5. ASSUME NEW k \in Keys, Remove(k) PROVE TimedInv(i)'
  BY <1>1, <1>5, <1>a DEF Remove
<1>6. CASE UNCHANGED vars
  BY <1>1, <1>6 DEF vars
<1>7. ASSUME NEW p \in Procs, ProcStep(p) PROVE TimedInv(i)'
  BY <1>7, TimedRunner
<1> QED
  BY <1>3, <1>4, <1>5, <1>6, <1>7, TimedTick DEF Next, ProcStep

RunsApart == ReadsFree /\ \A i \in Timed : TimedInv(i)

LEMMA Apart ==
  ASSUME Env = {}
  PROVE  Spec => []RunsApart
<1>1. Init => RunsApart
  <2> SUFFICES ASSUME Init PROVE RunsApart
    OBVIOUS
  <2>1. \A p \in Procs : pc[p] = "idle"
    BY DEF Init
  <2> QED
    BY <2>1 DEF RunsApart, ReadsFree, TimedInv, Starts, Reads, Running, GivesBack
<1>2. TypeInv /\ RunsApart /\ [Next]_vars => RunsApart'
  <2> SUFFICES ASSUME TypeInv, RunsApart, [Next]_vars PROVE RunsApart'
    OBVIOUS
  <2>1. ReadsFree'
    BY ReadsFreeStep DEF RunsApart
  <2>2. \A i \in Timed : TimedInv(i)'
    BY TimedStep DEF RunsApart
  <2> QED
    BY <2>1, <2>2 DEF RunsApart
<1> QED
  BY <1>1, <1>2, Typing, PTL DEF Spec

(***************************************************************************)
(* No TimedJob is run by two runners at a time, as long as no run takes as *)
(* long as the interval and the statements around a run take no time: the  *)
(* compare of getNext, TimedJob::start and the three statements that give  *)
(* a job back keep the runs apart.                                         *)
(***************************************************************************)
THEOREM RunByOne ==
  ASSUME Env = {}
  PROVE  Spec => []OneRunner
<1>1. RunsApart => OneRunner
  BY DEF RunsApart, TimedInv, OneRunner
<1> QED
  BY <1>1, Apart, PTL

(***************************************************************************)
(* A run of a TimedJob begins only when the last one, whoever began it,    *)
(* began more than the interval ago: the lastRun that the runner has read  *)
(* is still the row's when it starts.                                      *)
(***************************************************************************)
THEOREM RunInInterval ==
  ASSUME Env = {}
  PROVE  Spec => IntervalRespected
<1>1. ASSUME TypeInv, RunsApart, [Next]_vars,
             NEW p \in Procs, NEW i \in Timed,
             pc[p] = "start", job[p].id = i, pc'[p] = "running"
      PROVE  now - row[i].last > Interval
  <2>1. job[p].last = row[i].last
    BY <1>1, TimedParts DEF RunsApart, Starts
  <2>2. i \notin Queued
    BY KindsAssumption
  <2>3. ASSUME NEW q \in Procs, ProcStep(q) PROVE now - job[p].last > Interval
    <3>1. q = p
      BY <1>1, <2>3, OthersStay
    <3>2. StartTimed(p) \/ Fatal(p) \/ Kill(p)
      BY <1>1, <2>2, <2>3, <3>1
      DEF ProcStep, RunnerStep, StopWorker, Select, CheckClass, Skip, Defer,
        Reserve, ResetUnbuildable, Repeat, StartQueued, EndRun, Finish, UnlockAgain
    <3>3. ~ Fatal(p) /\ ~ Kill(p)
      BY <1>1 DEF Fatal, Kill, End, TypeInv
    <3> QED
      BY <1>1, <3>2, <3>3 DEF StartTimed, Go, TypeInv
  <2>4. CASE Tick \/ UNCHANGED vars
    BY <1>1, <2>4 DEF Tick, vars, runner
  <2>5. ASSUME NEW a \in Adders, EndAdd(a) \/ \E k \in Keys : BeginAdd(a, k) PROVE FALSE
    BY <1>1, <2>5 DEF EndAdd, BeginAdd, runner
  <2>6. ASSUME NEW k \in Keys, Remove(k) PROVE FALSE
    BY <1>1, <2>6 DEF Remove, runner
  <2> QED
    BY <1>1, <2>1, <2>3, <2>4, <2>5, <2>6 DEF Next, ProcStep
<1>2. TypeInv /\ RunsApart /\ [Next]_vars =>
        \A p \in Procs, i \in Timed :
          pc[p] = "start" /\ job[p].id = i /\ pc'[p] = "running" => now - row[i].last > Interval
  BY <1>1
<1> QED
  BY <1>2, Apart, Typing, PTL DEF Spec, IntervalRespected
=============================================================================
