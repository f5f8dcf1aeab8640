---------------------------- MODULE ServiceProofs ----------------------------
(***************************************************************************)
(* Proofs about the services, for every number of runs and of questions,   *)
(* any bound of the log, any answer of the model, and any order in which   *)
(* requests are answered and processes end: the decision file, the chat    *)
(* that streams an answer, the page that shows a recommendation, the       *)
(* caches of market data, the page of strategies and the feed.             *)
(***************************************************************************)
EXTENDS ServiceProperties, NumberLemmas

-----------------------------------------------------------------------------
(* The decision file. *)

Run == [host: Hosts, at: {"recorded", "decided", "submitted", "over"}, status: Statuses,
        noted: BOOLEAN]

Rewrite == [records: Seq(DecisionRecords), emptied: BOOLEAN]

(* A run, as rs has it, got as far as the record says.                     *)
Reached(r, rs) ==
  r.id > 0 =>
    /\ r.id \in DOMAIN rs
    /\ r.status = "SUBMITTED" => rs[r.id].at \in {"submitted", "over"}
    /\ r.status = "EXECUTED" => rs[r.id].at = "over"

(* What the file, and whatever is about to be written to it, is like.      *)
Sound(s, rs) ==
  /\ s \in Seq(DecisionRecords)
  /\ Len(s) <= MaxLog
  /\ \A j, k \in DOMAIN s : j < k => s[j].id > s[k].id
  /\ \A k \in DOMAIN s : Reached(s[k], rs)

RunsOK ==
  /\ runs \in Seq(Run) /\ Len(runs) <= MaxRuns
  /\ \A i \in DOMAIN runs : runs[i].at = "recorded" => runs[i].status = "VALIDATING"
  /\ ExecutesOnlyLogged

FileOK ==
  /\ file # Torn => Sound(file, runs)
  /\ work \in [Hosts -> Rewrite \cup {Nothing}]
  /\ \A h \in Hosts : work[h] # Nothing => Sound(work[h].records, runs)

ListsOK ==
  /\ tip \in 1 .. MaxTip
  /\ reply # Nothing => reply \subseteq Nat
  /\ history \subseteq {d \in Nat : d < tip}

(* The record that t adds to s, or changes in it.                          *)
Follows(s, t) ==
  \/ \E r \in DecisionRecords :
       /\ \A k \in DOMAIN s : s[k].id < r.id
       /\ t = Bounded(<<r>> \o s)
  \/ \E k \in DOMAIN s, r \in DecisionRecords :
       r.id = s[k].id /\ t = [s EXCEPT ![k] = r]

(* While the processes keep out of each other's way, one is in the file.   *)
Quiet ==
  ~disturbed =>
    /\ disturbed = FALSE
    /\ \A g, h \in Hosts : work[g] # Nothing /\ work[h] # Nothing => g = h
    /\ file = Torn <=> \E h \in Hosts : work[h] # Nothing /\ work[h].emptied
    /\ \A h \in Hosts : work[h] # Nothing /\ ~work[h].emptied => Follows(file, work[h].records)

LogInv == RunsOK /\ FileOK /\ ListsOK /\ Quiet

-----------------------------------------------------------------------------
(* Sequences of records. *)

LEMMA MinOfPair ==
  ASSUME NEW m \in Nat, NEW n \in Nat
  PROVE  Min({m, n}) = IF n < m THEN n ELSE m
<1>1. CASE n < m
  <2>1. n \in {m, n} /\ \A y \in {m, n} : n <= y
    BY <1>1
  <2>2. \A x \in {m, n} : (\A y \in {m, n} : x <= y) => x = n
    BY <1>1
  <2>3. QED
    BY <1>1, <2>1, <2>2 DEF Min
<1>2. CASE ~(n < m)
  <2>1. m \in {m, n} /\ \A y \in {m, n} : m <= y
    BY <1>2
  <2>2. \A x \in {m, n} : (\A y \in {m, n} : x <= y) => x = m
    BY <1>2
  <2>3. QED
    BY <1>2, <2>1, <2>2 DEF Min
<1>3. QED
  BY <1>1, <1>2

LEMMA BoundedIs ==
  ASSUME NEW S, NEW s \in Seq(S)
  PROVE  /\ Bounded(s) = SubSeq(s, 1, IF Len(s) < MaxLog THEN Len(s) ELSE MaxLog)
         /\ Bounded(s) \in Seq(S)
         /\ Len(Bounded(s)) <= MaxLog
         /\ Len(Bounded(s)) <= Len(s)
         /\ \A k \in DOMAIN Bounded(s) : k \in DOMAIN s /\ Bounded(s)[k] = s[k]
<1> DEFINE n == IF Len(s) < MaxLog THEN Len(s) ELSE MaxLog
<1>1. Len(s) \in Nat /\ MaxLog \in Nat
  BY LogAssumption
<1>2. Bounded(s) = SubSeq(s, 1, n)
  BY <1>1, MinOfPair DEF Bounded
<1>3. n \in Nat /\ n <= Len(s) /\ n <= MaxLog
  BY <1>1
<1> HIDE DEF n
<1>4. /\ SubSeq(s, 1, n) \in Seq(S)
      /\ Len(SubSeq(s, 1, n)) = n
      /\ \A k \in 1 .. n : SubSeq(s, 1, n)[k] = s[k]
  BY <1>1, <1>3
<1>5. QED
  BY <1>1, <1>2, <1>3, <1>4 DEF n

(* A new record in front of the others.                                    *)
LEMMA InFront ==
  ASSUME NEW r \in DecisionRecords, NEW s \in Seq(DecisionRecords)
  PROVE  /\ <<r>> \o s \in Seq(DecisionRecords)
         /\ Len(<<r>> \o s) = Len(s) + 1
         /\ (<<r>> \o s)[1] = r
         /\ \A k \in 2 .. Len(s) + 1 : (<<r>> \o s)[k] = s[k - 1]
  OBVIOUS

LEMMA LoadSound ==
  ASSUME FileOK
  PROVE  Sound(Load, runs)
<1>1. CASE file = Torn
  BY <1>1, LogAssumption DEF Load, Sound
<1>2. CASE file # Torn
  BY <1>2 DEF FileOK, Load
<1>3. QED
  BY <1>1, <1>2

(* No run goes back. *)
Advance(rs, qs) ==
  /\ Len(rs) <= Len(qs)
  /\ \A i \in DOMAIN rs : /\ rs[i].at = "submitted" => qs[i].at \in {"submitted", "over"}
                          /\ rs[i].at = "over" => qs[i].at = "over"

LEMMA SoundLater ==
  ASSUME NEW rs \in Seq(Run), NEW qs \in Seq(Run), Advance(rs, qs), NEW s, Sound(s, rs)
  PROVE  Sound(s, qs)
<1>1. ASSUME NEW k \in DOMAIN s
      PROVE  Reached(s[k], qs)
  <2>1. Reached(s[k], rs)
    BY DEF Sound
  <2>2. s[k].id \in DOMAIN rs => s[k].id \in DOMAIN qs
    BY DEF Advance
  <2>3. QED
    BY <2>1, <2>2 DEF Reached, Advance
<1>2. QED
  BY <1>1 DEF Sound

LEMMA RunsLater ==
  ASSUME RunsOK, runs' \in Seq(Run), Advance(runs, runs'), NEW s, Sound(s, runs)
  PROVE  Sound(s, runs')
  BY SoundLater DEF RunsOK

-----------------------------------------------------------------------------
(* A call of the store: it begins with the file to itself or not, and      *)
(* leaves a rewrite of it under way, or nothing.                           *)

LEMMA CallKeepsFile ==
  ASSUME LogInv, NEW h \in Hosts, Enters(h), RunsOK', Advance(runs, runs'),
         NEW s, Rewriting(h, s), Sound(s, runs'), file # Torn => Follows(file, s)
  PROVE  FileOK' /\ Quiet'
<1>1. /\ runs' \in Seq(Run) /\ UNCHANGED file
      /\ work \in [Hosts -> Rewrite \cup {Nothing}]
      /\ work' = [work EXCEPT ![h] = [records |-> s, emptied |-> FALSE]]
  BY DEF LogInv, RunsOK, FileOK, Enters, Rewriting
<1>2. [records |-> s, emptied |-> FALSE] \in Rewrite
  BY DEF Sound, Rewrite
<1>3. /\ work'[h] = [records |-> s, emptied |-> FALSE]
      /\ \A g \in Hosts : g # h => work'[g] = work[g]
  BY <1>1
<1>4. work' \in [Hosts -> Rewrite \cup {Nothing}]
  BY <1>1, <1>2
<1>5. ASSUME NEW g \in Hosts, work'[g] # Nothing
      PROVE  Sound(work'[g].records, runs')
  <2>1. CASE g = h
    BY <1>3, <2>1
  <2>2. CASE g # h
    BY <1>3, <1>5, <2>2, RunsLater, <1>1 DEF LogInv, FileOK
  <2>3. QED
    BY <2>1, <2>2
<1>6. file' # Torn => Sound(file', runs')
  BY <1>1, RunsLater DEF LogInv, FileOK
<1>7. ASSUME ~disturbed'
      PROVE  /\ disturbed' = FALSE
             /\ \A f, g \in Hosts : work'[f] # Nothing /\ work'[g] # Nothing => f = g
             /\ file' = Torn <=> \E g \in Hosts : work'[g] # Nothing /\ work'[g].emptied
             /\ \A g \in Hosts : work'[g] # Nothing /\ ~work'[g].emptied
                                   => Follows(file', work'[g].records)
  <2>1. disturbed' = FALSE /\ ~disturbed /\ \A g \in Hosts : work[g] = Nothing
    BY <1>7 DEF Enters
  <2>2. file # Torn
    BY <2>1 DEF LogInv, Quiet
  <2>3. \A g \in Hosts : work'[g] # Nothing => g = h
    BY <1>3, <2>1
  <2>4. work'[h].emptied = FALSE /\ work'[h].records = s
    BY <1>3
  <2>5. QED
    BY <1>1, <2>1, <2>2, <2>3, <2>4
<1>8. Quiet'
  BY <1>7 DEF Quiet
<1>9. QED
  BY <1>4, <1>5, <1>6, <1>8 DEF FileOK

LEMMA StartFollows ==
  ASSUME LogInv, NEW status \in Statuses, NEW deadline \in (0 .. MaxTip + Window) \cup {Nothing},
         Len(runs) + 1 <= MaxRuns, NEW began \in Run,
         status \in {"RECOMMENDED", "VALIDATING"},
         NEW r, r = [id |-> Len(runs) + 1, former |-> FALSE, deadline |-> deadline, status |-> status]
  PROVE  /\ r \in DecisionRecords
         /\ Sound(Bounded(<<r>> \o Load), Append(runs, began))
         /\ \A k \in DOMAIN Load : Load[k].id < r.id
<1> DEFINE n == Len(runs) + 1
           rs == Append(runs, began)
           all == <<r>> \o Load
<1>1. runs \in Seq(Run) /\ Len(runs) \in Nat /\ MaxRuns \in Nat
  BY LogAssumption DEF LogInv, RunsOK
<1>2. n \in 1 .. MaxRuns
  BY <1>1
<1>3. r \in DecisionRecords
  BY <1>1, <1>2 DEF DecisionRecords
<1>4. Sound(Load, runs)
  BY LoadSound DEF LogInv
<1>5. rs \in Seq(Run) /\ Advance(runs, rs)
  BY <1>1 DEF Advance
<1>6. Sound(Load, rs)
  BY <1>1, <1>4, <1>5, SoundLater
<1>7. ASSUME NEW k \in DOMAIN Load
      PROVE  Load[k].id < n
  <2>1. Load[k] \in DecisionRecords /\ Reached(Load[k], runs)
    BY <1>4 DEF Sound
  <2>2. Load[k].id \in 0 .. MaxRuns
    BY <2>1 DEF DecisionRecords
  <2>3. Load[k].id > 0 => Load[k].id \in 1 .. Len(runs)
    BY <1>1, <2>1 DEF Reached
  <2>4. QED
    BY <1>1, <2>2, <2>3
<1>8. Reached(r, rs)
  BY <1>1 DEF Reached
<1>9. Load \in Seq(DecisionRecords) /\ Len(Load) \in Nat
  BY <1>4 DEF Sound
<1>10. /\ all \in Seq(DecisionRecords) /\ Len(all) = Len(Load) + 1 /\ all[1] = r
       /\ \A k \in 2 .. Len(Load) + 1 : all[k] = Load[k - 1]
  BY <1>3, <1>9, InFront
<1> HIDE DEF all, rs
<1>11. ASSUME NEW j \in 1 .. Len(all), NEW k \in 1 .. Len(all), j < k
       PROVE  all[j].id > all[k].id
  <2>1. k \in 2 .. Len(Load) + 1 /\ k - 1 \in 1 .. Len(Load) /\ all[k] = Load[k - 1]
    BY <1>9, <1>10, <1>11
  <2>a. Load[k - 1].id \in Nat
    <3>1. Load[k - 1] \in DecisionRecords
      BY <1>9, <2>1
    <3>2. QED
      BY <3>1, LogAssumption DEF DecisionRecords
  <2>2. CASE j = 1
    <3>1. Load[k - 1].id < n
      BY <1>7, <1>9, <2>1
    <3>2. all[j].id = n
      BY <1>10, <2>2
    <3>3. QED
      BY <1>1, <2>1, <2>a, <3>1, <3>2
  <2>3. CASE j # 1
    <3>1. j \in 2 .. Len(Load) + 1 /\ j - 1 \in 1 .. Len(Load) /\ j - 1 < k - 1
      BY <1>9, <1>10, <1>11, <2>3
    <3>2. all[j] = Load[j - 1]
      BY <1>10, <3>1
    <3>3. Load[j - 1].id > Load[k - 1].id
      BY <1>4, <1>9, <2>1, <3>1 DEF Sound
    <3>4. QED
      BY <2>1, <3>2, <3>3
  <2>4. QED
    BY <2>2, <2>3
<1>12. ASSUME NEW k \in 1 .. Len(all)
       PROVE  Reached(all[k], rs)
  <2>1. CASE k = 1
    BY <1>8, <1>10, <2>1
  <2>2. CASE k # 1
    <3>1. k \in 2 .. Len(Load) + 1 /\ k - 1 \in DOMAIN Load
      BY <1>9, <1>10, <2>2
    <3>2. QED
      BY <1>6, <1>10, <3>1 DEF Sound
  <2>3. QED
    BY <2>1, <2>2
<1>13. DOMAIN all = 1 .. Len(all)
  BY <1>10
<1>14. Sound(Bounded(all), rs)
  <2>1. /\ Bounded(all) \in Seq(DecisionRecords)
        /\ Len(Bounded(all)) <= MaxLog
        /\ \A k \in DOMAIN Bounded(all) : k \in DOMAIN all /\ Bounded(all)[k] = all[k]
    BY <1>10, BoundedIs
  <2>2. QED
    BY <1>11, <1>12, <1>13, <2>1 DEF Sound
<1>15. QED
  BY <1>3, <1>7, <1>14 DEF all, rs

LEMMA StartKeeps ==
  ASSUME LogInv, NEW h \in Hosts, StartRun(h)
  PROVE  LogInv'
<1> DEFINE id == Len(runs) + 1
           record(status) == [id |-> id, former |-> FALSE, status |-> status,
                              deadline |-> IF status = "VALIDATING" THEN tip + Window ELSE Nothing]
           began(status) == [NewRun(h, status) EXCEPT
                             !.at = IF status = "VALIDATING" THEN "recorded" ELSE "over"]
<1>1. PICK status \in {"RECOMMENDED", "VALIDATING"} :
        /\ RecordDecision(h, record(status))
        /\ runs' = Append(runs, began(status))
  BY DEF StartRun
<1>2. id <= MaxRuns /\ Enters(h)
  BY DEF StartRun
<1>3. /\ runs \in Seq(Run) /\ tip \in 1 .. MaxTip
      /\ Window \in Nat /\ MaxTip \in Nat
  BY LogAssumption DEF LogInv, RunsOK, ListsOK
<1>4. /\ began(status) \in Run
      /\ began(status).at \in {"recorded", "over"}
      /\ began(status).at = "recorded" => began(status).status = "VALIDATING"
  BY <1>1 DEF Run, NewRun, Statuses
<1>5. (IF status = "VALIDATING" THEN tip + Window ELSE Nothing) \in (0 .. MaxTip + Window) \cup {Nothing}
  BY <1>3
<1>6. status \in Statuses
  BY <1>1 DEF Statuses
<1> DEFINE r == record(status)
           new == began(status)
<1>7. r = [id |-> Len(runs) + 1, former |-> FALSE,
           deadline |-> IF status = "VALIDATING" THEN tip + Window ELSE Nothing,
           status |-> status]
  OBVIOUS
<1> HIDE DEF r, new, began, record
<1>8. /\ r \in DecisionRecords
      /\ Sound(Bounded(<<r>> \o Load), Append(runs, new))
      /\ \A k \in DOMAIN Load : Load[k].id < r.id
  BY <1>1, <1>2, <1>4, <1>5, <1>6, <1>7, StartFollows DEF new
<1>9. runs' = Append(runs, new) /\ Rewriting(h, Bounded(<<r>> \o Load))
  BY <1>1 DEF new, r, RecordDecision
<1>10. /\ runs' \in Seq(Run) /\ Len(runs') = Len(runs) + 1
       /\ \A i \in 1 .. Len(runs) : runs'[i] = runs[i]
       /\ runs'[Len(runs) + 1] = new
  BY <1>3, <1>4, <1>9 DEF new
<1>11. RunsOK'
  <2>1. ASSUME NEW i \in DOMAIN runs'
        PROVE  /\ runs'[i].at = "recorded" => runs'[i].status = "VALIDATING"
               /\ runs'[i].at = "decided" /\ runs'[i].status = "VALIDATED" => runs'[i].noted
    <3>1. CASE i \in 1 .. Len(runs)
      BY <1>10, <3>1 DEF LogInv, RunsOK, ExecutesOnlyLogged
    <3>2. CASE i = Len(runs) + 1
      BY <1>4, <1>10, <3>2 DEF new
    <3>3. QED
      BY <1>3, <1>10, <3>1, <3>2
  <2>2. Len(runs') <= MaxRuns
    BY <1>2, <1>10
  <2>3. QED
    BY <1>10, <2>1, <2>2 DEF RunsOK, ExecutesOnlyLogged
<1>12. Advance(runs, runs')
  BY <1>3, <1>10 DEF Advance
<1>13. file # Torn => Follows(file, Bounded(<<r>> \o Load))
  BY <1>8 DEF Follows, Load
<1>14. FileOK' /\ Quiet'
  BY <1>2, <1>8, <1>9, <1>11, <1>12, <1>13, CallKeepsFile
<1>15. ListsOK'
  BY <1>2 DEF LogInv, ListsOK, Enters, readVars
<1>16. QED
  BY <1>11, <1>14, <1>15 DEF LogInv

(* A call that changes a record, if the log has it.                        *)
LEMMA UpdateFollows ==
  ASSUME LogInv, NEW i \in DOMAIN runs, NEW status \in Statuses, NEW rs \in Seq(Run),
         Advance(runs, rs), i \in DOMAIN rs,
         status = "SUBMITTED" => rs[i].at \in {"submitted", "over"},
         status = "EXECUTED" => rs[i].at = "over",
         NEW k \in DOMAIN Load, Load[k].id = i
  PROVE  LET new == [j \in DOMAIN Load |->
                       IF j = Min({l \in DOMAIN Load : Load[l].id = i})
                       THEN [Load[j] EXCEPT !.status = status] ELSE Load[j]]
         IN Sound(new, rs) /\ Follows(Load, new)
<1> DEFINE idx == {l \in DOMAIN Load : Load[l].id = i}
           r == [Load[k] EXCEPT !.status = status]
           new == [j \in DOMAIN Load |-> IF j = Min(idx) THEN [Load[j] EXCEPT !.status = status]
                                         ELSE Load[j]]
<1>1. Sound(Load, runs)
  BY LoadSound DEF LogInv
<1>2. Sound(Load, rs)
  BY <1>1, SoundLater DEF LogInv, RunsOK
<1>3. /\ Load \in Seq(DecisionRecords) /\ Len(Load) \in Nat /\ DOMAIN Load = 1 .. Len(Load)
      /\ Len(Load) <= MaxLog
  BY <1>1 DEF Sound
<1>4. \A l \in DOMAIN Load : Load[l] \in DecisionRecords /\ Load[l].id \in Nat
  <2>1. \A l \in DOMAIN Load : Load[l] \in DecisionRecords
    BY <1>3
  <2>2. QED
    BY <2>1, LogAssumption DEF DecisionRecords
<1>5. idx = {k}
  <2>1. ASSUME NEW l \in DOMAIN Load, Load[l].id = i
        PROVE  l = k
    <3>1. ~(l < k) /\ ~(k < l)
      BY <1>1, <1>4, <2>1 DEF Sound
    <3>2. QED
      BY <1>3, <3>1
  <2>2. QED
    BY <2>1
<1>6. Min(idx) = k
  BY <1>3, <1>5 DEF Min
<1>7. /\ r \in DecisionRecords /\ r.id = i /\ r.status = status
  BY <1>4 DEF DecisionRecords
<1>8. new = [Load EXCEPT ![k] = r]
  BY <1>3, <1>6
<1> HIDE DEF r, new
<1>9. /\ new \in Seq(DecisionRecords) /\ Len(new) = Len(Load) /\ DOMAIN new = DOMAIN Load
      /\ new[k] = r
      /\ \A l \in DOMAIN Load : l # k => new[l] = Load[l]
  BY <1>3, <1>7, <1>8
<1>10. \A l \in DOMAIN Load : new[l].id = Load[l].id
  BY <1>7, <1>9
<1>11. Reached(r, rs)
  BY <1>7 DEF Reached
<1>12. Sound(new, rs)
  <2>1. ASSUME NEW l \in DOMAIN new
        PROVE  Reached(new[l], rs)
    BY <1>2, <1>9, <1>11 DEF Sound
  <2>2. \A j, l \in DOMAIN new : j < l => new[j].id > new[l].id
    BY <1>1, <1>9, <1>10 DEF Sound
  <2>3. QED
    BY <1>3, <1>9, <2>1, <2>2 DEF Sound
<1>13. Follows(Load, new)
  BY <1>7, <1>8 DEF Follows
<1>14. QED
  BY <1>12, <1>13 DEF new

LEMMA UpdateKeeps ==
  ASSUME LogInv, NEW i \in DOMAIN runs, NEW status \in Statuses,
         NEW at \in {"decided", "submitted", "over"},
         UpdateDecision(i, status, at),
         runs[i].at = "recorded" \/ (runs[i].at = "decided" /\ at # "decided")
           \/ (runs[i].at = "submitted" /\ at = "over"),
         at = "decided" => runs[i].status # "VALIDATED",
         status = "SUBMITTED" => at \in {"submitted", "over"},
         status = "EXECUTED" => at = "over"
  PROVE  LogInv'
<1> DEFINE h == runs[i].host
           idx == {k \in DOMAIN Load : Load[k].id = i}
           found == idx # {}
           after == [runs[i] EXCEPT !.at = at, !.noted = found,
                                    !.status = IF found THEN status ELSE @]
           new == [j \in DOMAIN Load |-> IF j = Min(idx) THEN [Load[j] EXCEPT !.status = status]
                                         ELSE Load[j]]
<1>1. /\ Enters(h)
      /\ runs' = [runs EXCEPT ![i] = after]
      /\ IF idx = {} THEN UNCHANGED work ELSE Rewriting(h, new)
  BY DEF UpdateDecision, AfterUpdate
<1>2. runs \in Seq(Run) /\ runs[i] \in Run /\ h \in Hosts
  <2>1. runs \in Seq(Run)
    BY DEF LogInv, RunsOK
  <2>2. runs[i] \in Run
    BY <2>1
  <2>3. QED
    BY <2>1, <2>2 DEF Run
<1>3. /\ after \in Run /\ after.at = at /\ after.noted = found
      /\ after.status = IF found THEN status ELSE runs[i].status
  BY <1>2 DEF Run
<1>a. found \in BOOLEAN
  OBVIOUS
<1> HIDE DEF after, new, idx, h, found
<1>4. /\ runs' \in Seq(Run) /\ Len(runs') = Len(runs) /\ DOMAIN runs' = DOMAIN runs
      /\ runs'[i] = after
      /\ \A j \in DOMAIN runs : j # i => runs'[j] = runs[j]
  BY <1>1, <1>2, <1>3
<1>5. RunsOK'
  <2>1. ASSUME NEW j \in DOMAIN runs'
        PROVE  /\ runs'[j].at = "recorded" => runs'[j].status = "VALIDATING"
               /\ runs'[j].at = "decided" /\ runs'[j].status = "VALIDATED" => runs'[j].noted
    <3>1. CASE j = i
      <4>1. runs'[j].at # "recorded"
        BY <1>3, <1>4, <3>1
      <4>2. ASSUME runs'[j].at = "decided", runs'[j].status = "VALIDATED"
            PROVE  found
        BY <1>3, <1>4, <3>1, <4>2
      <4>3. runs'[j].noted = found
        BY <1>3, <1>4, <3>1
      <4>4. QED
        BY <4>1, <4>2, <4>3
    <3>2. CASE j # i
      BY <1>4, <3>2 DEF LogInv, RunsOK, ExecutesOnlyLogged
    <3>3. QED
      BY <3>1, <3>2
  <2>2. QED
    BY <1>4, <2>1 DEF LogInv, RunsOK, ExecutesOnlyLogged
<1>6. Advance(runs, runs')
  <2>1. ASSUME NEW j \in DOMAIN runs
        PROVE  /\ runs[j].at = "submitted" => runs'[j].at \in {"submitted", "over"}
               /\ runs[j].at = "over" => runs'[j].at = "over"
    BY <1>3, <1>4
  <2>2. QED
    BY <1>2, <1>4, <2>1 DEF Advance
<1>7. FileOK' /\ Quiet'
  <2>1. CASE found
    <3>1. PICK k \in DOMAIN Load : Load[k].id = i
      BY <2>1 DEF found, idx
    <3>2. i \in DOMAIN runs' /\ runs'[i].at = at
      BY <1>3, <1>4
    <3>3. Sound(new, runs') /\ Follows(Load, new)
      BY <1>4, <1>6, <3>1, <3>2, UpdateFollows DEF new, idx
    <3>4. Rewriting(h, new)
      BY <1>1, <2>1 DEF found
    <3>5. file # Torn => Follows(file, new)
      BY <3>3 DEF Load
    <3>6. QED
      BY <1>1, <1>2, <1>5, <1>6, <3>3, <3>4, <3>5, CallKeepsFile
  <2>2. CASE ~found
    <3>1. UNCHANGED <<file, work>>
      BY <1>1, <2>2 DEF found, Enters
    <3>2. FileOK'
      BY <1>4, <1>6, <3>1, RunsLater DEF LogInv, FileOK
    <3>3. ASSUME ~disturbed'
          PROVE  ~disturbed /\ disturbed' = FALSE
      BY <1>1, <3>3 DEF Enters
    <3>4. Quiet'
      BY <3>1, <3>3 DEF LogInv, Quiet
    <3>5. QED
      BY <3>2, <3>4
  <2>3. QED
    BY <2>1, <2>2
<1>8. ListsOK'
  BY <1>1 DEF LogInv, ListsOK, Enters, readVars
<1>9. QED
  BY <1>5, <1>7, <1>8 DEF LogInv

LEMMA DecideKeeps ==
  ASSUME LogInv, NEW i \in DOMAIN runs, Decide(i)
  PROVE  LogInv'
<1>1. PICK status \in {"REJECTED", "VALIDATED"} : UpdateDecision(i, status, "decided")
  BY DEF Decide
<1>2. runs[i].at = "recorded" /\ runs[i].status = "VALIDATING"
  BY DEF Decide, LogInv, RunsOK
<1>3. QED
  BY <1>1, <1>2, UpdateKeeps DEF Statuses

LEMMA SubmitKeeps ==
  ASSUME LogInv, NEW i \in DOMAIN runs, Submit(i)
  PROVE  LogInv'
  BY UpdateKeeps DEF Submit, Statuses

LEMMA SettleKeeps ==
  ASSUME LogInv, NEW i \in DOMAIN runs, Settle(i)
  PROVE  LogInv'
  BY UpdateKeeps DEF Settle, Statuses

-----------------------------------------------------------------------------
(* The file is emptied and filled, a process ends, the log is listed.      *)

LEMMA EmptyKeeps ==
  ASSUME LogInv, NEW h \in Hosts, Empty(h)
  PROVE  LogInv'
<1>1. /\ work[h] # Nothing /\ ~work[h].emptied
      /\ file' = Torn
      /\ work' = [work EXCEPT ![h] = [work[h] EXCEPT !.emptied = TRUE]]
      /\ UNCHANGED <<runs, disturbed, reply, history, tip>>
  BY DEF Empty, readVars
<1> DEFINE new == [work[h] EXCEPT !.emptied = TRUE]
<1>2. /\ work \in [Hosts -> Rewrite \cup {Nothing}] /\ work[h] \in Rewrite
  BY <1>1 DEF LogInv, FileOK
<1>3. new \in Rewrite /\ new.records = work[h].records /\ new.emptied = TRUE
  BY <1>2 DEF Rewrite
<1>4. new # Nothing
  BY <1>3, RecordsAssumption DEF Rewrite
<1> HIDE DEF new
<1>5. /\ work'[h] = new
      /\ \A g \in Hosts : g # h => work'[g] = work[g]
      /\ work' \in [Hosts -> Rewrite \cup {Nothing}]
  BY <1>1, <1>2, <1>3 DEF new
<1>6. FileOK'
  BY <1>1, <1>3, <1>5 DEF LogInv, FileOK
<1>7. Quiet'
  BY <1>1, <1>3, <1>4, <1>5 DEF LogInv, Quiet
<1>8. RunsOK' /\ ListsOK'
  BY <1>1 DEF LogInv, RunsOK, ListsOK, ExecutesOnlyLogged
<1>9. QED
  BY <1>6, <1>7, <1>8 DEF LogInv

LEMMA FillKeeps ==
  ASSUME LogInv, NEW h \in Hosts, Fill(h)
  PROVE  LogInv'
<1>1. /\ work[h] # Nothing /\ work[h].emptied
      /\ file' = work[h].records
      /\ work' = [work EXCEPT ![h] = Nothing]
      /\ UNCHANGED <<runs, disturbed, reply, history, tip>>
  BY DEF Fill, readVars
<1>2. work \in [Hosts -> Rewrite \cup {Nothing}] /\ Sound(work[h].records, runs)
  BY <1>1 DEF LogInv, FileOK
<1>3. /\ work'[h] = Nothing
      /\ \A g \in Hosts : g # h => work'[g] = work[g]
      /\ work' \in [Hosts -> Rewrite \cup {Nothing}]
  BY <1>1, <1>2
<1>4. file' # Torn
  BY <1>1, <1>2, RecordsAssumption DEF Sound
<1>5. FileOK'
  BY <1>1, <1>2, <1>3 DEF LogInv, FileOK
<1>6. Quiet'
  BY <1>1, <1>3, <1>4 DEF LogInv, Quiet
<1>7. RunsOK' /\ ListsOK'
  BY <1>1 DEF LogInv, RunsOK, ListsOK, ExecutesOnlyLogged
<1>8. QED
  BY <1>5, <1>6, <1>7 DEF LogInv

LEMMA CrashKeeps ==
  ASSUME LogInv, NEW h \in Hosts, Crash(h)
  PROVE  LogInv'
<1>1. /\ work' = [work EXCEPT ![h] = Nothing]
      /\ runs' = [i \in DOMAIN runs |-> IF runs[i].host = h THEN [runs[i] EXCEPT !.at = "over"]
                                                          ELSE runs[i]]
      /\ disturbed' = (disturbed \/ work[h] # Nothing)
      /\ UNCHANGED <<file, reply, history, tip>>
  BY DEF Crash, readVars
<1>2. runs \in Seq(Run) /\ Len(runs) \in Nat /\ DOMAIN runs = 1 .. Len(runs)
  BY DEF LogInv, RunsOK
<1>3. ASSUME NEW i \in DOMAIN runs
      PROVE  /\ runs'[i] \in Run
             /\ runs'[i] = runs[i] \/ runs'[i].at = "over"
  <2>1. runs[i] \in Run
    BY <1>2
  <2>2. [runs[i] EXCEPT !.at = "over"] \in Run /\ [runs[i] EXCEPT !.at = "over"].at = "over"
    BY <2>1 DEF Run
  <2>3. QED
    BY <1>1, <2>1, <2>2
<1>4. runs' \in Seq(Run) /\ DOMAIN runs' = DOMAIN runs /\ Len(runs') = Len(runs)
  <2>1. runs' \in [1 .. Len(runs) -> Run]
    BY <1>1, <1>2, <1>3
  <2>2. QED
    BY <1>2, <2>1
<1>5. RunsOK'
  BY <1>3, <1>4 DEF LogInv, RunsOK, ExecutesOnlyLogged
<1>6. Advance(runs, runs')
  BY <1>2, <1>3, <1>4 DEF Advance
<1>7. /\ work \in [Hosts -> Rewrite \cup {Nothing}]
      /\ work'[h] = Nothing
      /\ \A g \in Hosts : g # h => work'[g] = work[g]
      /\ work' \in [Hosts -> Rewrite \cup {Nothing}]
  BY <1>1 DEF LogInv, FileOK
<1>8. FileOK'
  BY <1>1, <1>4, <1>6, <1>7, RunsLater DEF LogInv, FileOK
<1>9. Quiet'
  BY <1>1, <1>7 DEF LogInv, Quiet
<1>10. ListsOK'
  BY <1>1 DEF LogInv, ListsOK
<1>11. QED
  BY <1>5, <1>8, <1>9, <1>10 DEF LogInv

LEMMA ListsKeep ==
  ASSUME LogInv, Lists
  PROVE  LogInv'
<1>1. UNCHANGED fileVars
  BY DEF Lists, ListDecisions, WithExpiry, NextBlock
<1>2. RunsOK' /\ FileOK' /\ Quiet'
  BY <1>1 DEF LogInv, RunsOK, ExecutesOnlyLogged, FileOK, Quiet, fileVars
<1>3. ListsOK'
  <2>1. CASE ListDecisions
    <3>1. Sound(Load, runs)
      BY LoadSound DEF LogInv
    <3>2. ASSUME NEW r \in Range(Load), r.deadline # Nothing
          PROVE  r.deadline \in Nat
      <4>1. r \in DecisionRecords
        BY <3>1 DEF Sound, Range
      <4>2. QED
        BY <3>2, <4>1, LogAssumption DEF DecisionRecords
    <3>3. reply' \subseteq Nat
      BY <2>1, <3>2 DEF ListDecisions
    <3>4. QED
      BY <2>1, <3>3 DEF ListDecisions, LogInv, ListsOK
  <2>2. CASE WithExpiry
    <3>1. history' \subseteq {d \in Nat : d < tip}
      BY <2>2 DEF WithExpiry, Expired, LogInv, ListsOK
    <3>2. QED
      BY <2>2, <3>1 DEF WithExpiry, LogInv, ListsOK
  <2>3. CASE NextBlock
    <3>1. tip \in 1 .. MaxTip /\ MaxTip \in Nat /\ tip' = tip + 1 /\ tip < MaxTip
          /\ UNCHANGED <<reply, history>>
      BY <2>3, LogAssumption DEF NextBlock, LogInv, ListsOK, readVars
    <3>2. QED
      BY <3>1 DEF LogInv, ListsOK
  <2>4. QED
    BY <2>1, <2>2, <2>3 DEF Lists
<1>4. QED
  BY <1>2, <1>3 DEF LogInv

-----------------------------------------------------------------------------
(* The invariant, and what the log promises. *)

LEMMA LogSteps ==
  ASSUME [ServicesNext]_servicesVars
  PROVE  [Writes \/ Lists]_logVars
<1>1. CASE ServicesNext
  BY <1>1 DEF ServicesNext
<1>2. CASE UNCHANGED servicesVars
  BY <1>2 DEF servicesVars
<1>3. QED
  BY <1>1, <1>2

LEMMA EarlierIsRecord == Earlier \in DecisionRecords
<1>1. 0 \in 0 .. MaxRuns /\ 1 \in 0 .. MaxTip + Window
  BY LogAssumption
<1>2. QED
  BY <1>1 DEF Earlier, DecisionRecords, Statuses

LEMMA FirstFile ==
  ASSUME file \in {<<>>, <<Earlier>>}
  PROVE  file \in Seq(DecisionRecords) /\ Len(file) <= 1
<1>1. CASE file = <<>>
  BY <1>1
<1> DEFINE e == Earlier
<1>2. e \in DecisionRecords
  BY EarlierIsRecord
<1> HIDE DEF e
<1>3. <<e>> \in Seq(DecisionRecords) /\ Len(<<e>>) <= 1
  BY <1>2
<1>4. CASE file = <<Earlier>>
  BY <1>3, <1>4 DEF e
<1>5. QED
  BY <1>1, <1>4

LEMMA InitLog == DecisionLogInit => LogInv
<1> SUFFICES ASSUME DecisionLogInit
             PROVE  LogInv
  OBVIOUS
<1>1. /\ file \in {<<>>, <<Earlier>>}
      /\ work = [h \in Hosts |-> Nothing]
      /\ runs = <<>>
      /\ tip = 1 /\ disturbed = FALSE
      /\ reply = Nothing /\ history = {}
  BY DEF DecisionLogInit
<1>2. file \in Seq(DecisionRecords) /\ Len(file) <= 1
  BY <1>1, FirstFile
<1>3. RunsOK
  BY <1>1, LogAssumption DEF RunsOK, ExecutesOnlyLogged
<1>4. Sound(file, runs)
  <2>1. \A k \in DOMAIN file : k = 1 /\ file[k] = Earlier
    BY <1>1
  <2>2. Reached(Earlier, runs)
    BY DEF Reached, Earlier
  <2>3. Len(file) <= MaxLog
    BY <1>2, LogAssumption
  <2>4. QED
    BY <1>2, <2>1, <2>2, <2>3 DEF Sound
<1>5. FileOK
  BY <1>1, <1>4 DEF FileOK
<1>6. ListsOK
  BY <1>1, LogAssumption DEF ListsOK
<1>7. Quiet
  BY <1>1, <1>2, RecordsAssumption DEF Quiet
<1>8. QED
  BY <1>3, <1>5, <1>6, <1>7 DEF LogInv

LEMMA StepLog == LogInv /\ [Writes \/ Lists]_logVars => LogInv'
<1> SUFFICES ASSUME LogInv, [Writes \/ Lists]_logVars
             PROVE  LogInv'
  OBVIOUS
<1>1. CASE UNCHANGED logVars
  BY <1>1 DEF LogInv, RunsOK, FileOK, ListsOK, Quiet, ExecutesOnlyLogged, logVars, fileVars,
              readVars
<1>2. CASE Lists
  BY <1>2, ListsKeep
<1>3. CASE Writes
  BY <1>3, StartKeeps, EmptyKeeps, FillKeeps, CrashKeeps, DecideKeeps, SubmitKeeps, SettleKeeps
  DEF Writes
<1>4. QED
  BY <1>1, <1>2, <1>3

LEMMA LogInvariant == ServicesSpec => []LogInv
<1>1. ServicesInit => LogInv
  BY InitLog DEF ServicesInit
<1>2. LogInv /\ [ServicesNext]_servicesVars => LogInv'
  BY LogSteps, StepLog
<1>3. QED
  BY <1>1, <1>2, PTL DEF ServicesSpec

(* Whatever the two processes do to each other's rewrites, and wherever    *)
(* one ends: the log (store.ts) has each record once, newest first, in no  *)
(* state that its run had not reached; the pipeline executes nothing whose *)
(* record was gone; and no record is shown as expired too early.           *)
THEOREM LogTruthful == ServicesSpec => []LogHonest
<1>1. LogInv => LogHonest
  <2> SUFFICES ASSUME LogInv
               PROVE  LogHonest
    OBVIOUS
  <2>1. LogNeverInvents
    BY DEF LogInv, FileOK, Sound, Reached, LogNeverInvents
  <2>2. ExecutesOnlyLogged
    BY DEF LogInv, RunsOK
  <2>3. ExpiredForGood
    BY DEF LogInv, ListsOK, ExpiredForGood
  <2>4. QED
    BY <2>1, <2>2, <2>3 DEF LogHonest
<1>2. QED
  BY <1>1, LogInvariant, PTL

-----------------------------------------------------------------------------
(* The refinement. *)

(* While the file is whole, and one process at most rewrites it, the log   *)
(* is what is in it or about to be.                                        *)
LEMMA LogIsFile ==
  ASSUME file # Torn
  PROVE  LogNow = file
  BY DEF LogNow

LEMMA LogIsRewrite ==
  ASSUME file = Torn, NEW h \in Hosts, work[h] # Nothing, work[h].emptied,
         \A g \in Hosts : work[g] # Nothing => g = h
  PROVE  LogNow = work[h].records
<1>1. {g \in Hosts : work[g] # Nothing /\ work[g].emptied} = {h}
  OBVIOUS
<1>2. QED
  BY <1>1 DEF LogNow

LEMMA FollowsIsAtomic ==
  ASSUME NEW s, s \in Seq(DecisionRecords), LogNow = s, NEW t, LogNow' = t, Follows(s, t)
  PROVE  Atomic!LogNext
<1>1. CASE \E r \in DecisionRecords :
             /\ \A k \in DOMAIN s : s[k].id < r.id
             /\ t = Bounded(<<r>> \o s)
  <2>1. PICK r \in DecisionRecords :
          /\ \A k \in DOMAIN s : s[k].id < r.id
          /\ t = Bounded(<<r>> \o s)
    BY <1>1
  <2>2. <<r>> \o s \in Seq(DecisionRecords)
    BY InFront
  <2>3. Bounded(<<r>> \o s) = Atomic!Newest(<<r>> \o s)
    BY <2>2, BoundedIs DEF Atomic!Newest
  <2>4. Atomic!Enter
    BY <2>1, <2>3 DEF Atomic!Enter
  <2>5. QED
    BY <2>4 DEF Atomic!LogNext
<1>2. CASE \E k \in DOMAIN s, r \in DecisionRecords :
             r.id = s[k].id /\ t = [s EXCEPT ![k] = r]
  <2>1. Atomic!Amend
    BY <1>2 DEF Atomic!Amend
  <2>2. QED
    BY <2>1 DEF Atomic!LogNext
<1>3. QED
  BY <1>1, <1>2 DEF Follows

(* A step in which the log is not disturbed is a step of the atomic one,   *)
(* or none: it takes effect where the file is emptied for it.              *)
LEMMA EmptyIsAtomic ==
  ASSUME LogInv, ~disturbed, NEW h \in Hosts, Empty(h)
  PROVE  Atomic!LogNext
<1>1. /\ work[h] # Nothing /\ ~work[h].emptied
      /\ \A g \in Hosts : work[g] # Nothing => g = h
      /\ file # Torn
      /\ Follows(file, work[h].records)
  BY DEF LogInv, Quiet, Empty
<1> DEFINE new == [work[h] EXCEPT !.emptied = TRUE]
<1>2. /\ file' = Torn
      /\ work' = [work EXCEPT ![h] = new]
      /\ work \in [Hosts -> Rewrite \cup {Nothing}] /\ work[h] \in Rewrite
  BY <1>1 DEF Empty, LogInv, FileOK
<1>3. new \in Rewrite /\ new.records = work[h].records /\ new.emptied = TRUE
  BY <1>2 DEF Rewrite
<1>4. new # Nothing
  BY <1>3, RecordsAssumption DEF Rewrite
<1> HIDE DEF new
<1>5. work'[h] = new /\ \A g \in Hosts : g # h => work'[g] = work[g]
  BY <1>2
<1>6. LogNow' = work[h].records
  <2>1. {g \in Hosts : work'[g] # Nothing /\ work'[g].emptied} = {h}
    BY <1>1, <1>3, <1>4, <1>5
  <2>2. QED
    BY <1>2, <1>3, <1>5, <2>1 DEF LogNow
<1>7. LogNow = file /\ file \in Seq(DecisionRecords)
  BY <1>1, LogIsFile DEF LogInv, FileOK, Sound
<1>8. QED
  BY <1>1, <1>6, <1>7, FollowsIsAtomic

LEMMA FillStutters ==
  ASSUME LogInv, ~disturbed, NEW h \in Hosts, Fill(h)
  PROVE  LogNow' = LogNow
<1>1. /\ work[h] # Nothing /\ work[h].emptied
      /\ \A g \in Hosts : work[g] # Nothing => g = h
      /\ file = Torn /\ file' = work[h].records
      /\ Sound(work[h].records, runs)
  BY DEF LogInv, Quiet, Fill, FileOK
<1>2. file' # Torn
  BY <1>1, RecordsAssumption DEF Sound
<1>3. LogNow' = file'
  BY <1>2 DEF LogNow
<1>4. QED
  BY <1>1, <1>3, LogIsRewrite

LEMMA CallStutters ==
  ASSUME LogInv, NEW h \in Hosts, Enters(h), ~disturbed'
  PROVE  LogNow' = LogNow
<1>1. file # Torn /\ file' = file
  BY DEF LogInv, Quiet, Enters
<1>2. QED
  BY <1>1 DEF LogNow

LEMMA StepIsAtomic ==
  ASSUME LogInv, [Writes \/ Lists]_logVars
  PROVE  disturbed' \/ Atomic!LogNext \/ UNCHANGED LogNow
<1> SUFFICES ASSUME ~disturbed'
             PROVE  Atomic!LogNext \/ UNCHANGED LogNow
  OBVIOUS
<1>1. CASE UNCHANGED logVars \/ Lists
  <2>1. UNCHANGED <<file, work>>
    BY <1>1 DEF logVars, fileVars, Lists, ListDecisions, WithExpiry, NextBlock
  <2>2. QED
    BY <2>1 DEF LogNow
<1>2. ASSUME NEW h \in Hosts, StartRun(h)
      PROVE  UNCHANGED LogNow
  BY <1>2, CallStutters DEF StartRun
<1>3. ASSUME NEW i \in DOMAIN runs, Decide(i) \/ Submit(i) \/ Settle(i)
      PROVE  UNCHANGED LogNow
  <2>1. Enters(runs[i].host)
    BY <1>3 DEF Decide, Submit, Settle, UpdateDecision
  <2>2. runs \in Seq(Run)
    BY DEF LogInv, RunsOK
  <2>3. runs[i] \in Run
    BY <2>2
  <2>4. runs[i].host \in Hosts
    BY <2>3 DEF Run
  <2>5. QED
    BY <2>1, <2>4, CallStutters
<1>4. ASSUME NEW h \in Hosts, Empty(h)
      PROVE  Atomic!LogNext
  BY <1>4, EmptyIsAtomic DEF Empty
<1>5. ASSUME NEW h \in Hosts, Fill(h)
      PROVE  UNCHANGED LogNow
  BY <1>5, FillStutters DEF Fill
<1>6. ASSUME NEW h \in Hosts, Crash(h)
      PROVE  UNCHANGED LogNow
  <2>1. work[h] = Nothing /\ UNCHANGED file /\ work' = [work EXCEPT ![h] = Nothing]
    BY <1>6 DEF Crash
  <2>2. UNCHANGED <<file, work>>
    BY <2>1 DEF LogInv, FileOK
  <2>3. QED
    BY <2>2 DEF LogNow
<1>7. QED
  BY <1>1, <1>2, <1>3, <1>4, <1>5, <1>6 DEF Writes

(* The store, a file that is read, emptied and filled again by two         *)
(* processes, implements the log as one value until both are in it at      *)
(* once or one ends in it, for any bound and any number of runs.           *)
THEOREM StoreImplementsLog == ServicesSpec => LogIsAtomic
<1>1. ServicesInit => Atomic!LogInit
  <2> SUFFICES ASSUME ServicesInit
               PROVE  Atomic!LogInit
    OBVIOUS
  <2>1. LogInv /\ file \in {<<>>, <<Earlier>>}
    BY InitLog DEF ServicesInit, DecisionLogInit
  <2>2. file \in Seq(DecisionRecords)
    BY <2>1, FirstFile
  <2>3. file # Torn
    BY <2>2, RecordsAssumption
  <2>4. QED
    BY <2>1, <2>3, LogIsFile DEF LogInv, FileOK, Sound, Atomic!LogInit
<1>2. LogInv /\ [ServicesNext]_servicesVars => [disturbed' \/ Atomic!LogNext]_LogNow
  BY LogSteps, StepIsAtomic
<1>3. QED
  BY <1>1, <1>2, LogInvariant, PTL DEF ServicesSpec, LogIsAtomic
-----------------------------------------------------------------------------
(* The chat. *)

ChatReply == [content: Seq(Nat), pending: BOOLEAN, error: BOOLEAN, cut: BOOLEAN]

StreamEvent == [event: {"note", "delta", "error", "done"}, piece: Nat]

UpTo(n) == [k \in 1 .. n |-> k]

(* Beyond the c pieces that were heard the wire carries the others, up to  *)
(* the n-th, perhaps after the note, and the word that it is done if the   *)
(* server has ended it.                                                    *)
CarriesAfter(note, w, c, n, ends) ==
  /\ c <= n
  /\ Len(w) = note + (n - c) + ends
  /\ note = 1 => w[1].event = "note"
  /\ \A i \in 1 .. n - c : w[note + i].event = "delta" /\ w[note + i].piece = c + i
  /\ ends = 1 => w[Len(w)].event = "done"

Carries(w, c, n, ends) == \E note \in {0, 1} : CarriesAfter(note, w, c, n, ends)

(* What was heard and what is on its way make up what the model said; or   *)
(* the failure was heard, or is on its way.                                *)
StreamOK(m) ==
  \/ /\ server = "failed" /\ line = "ended"
     /\ m.error \/ \E i \in DOMAIN wire : wire[i].event = "error"
  \/ /\ server \in {"asked", "streaming"} /\ line = "open"
     /\ server = "asked" => pieces = 0 /\ wire = <<>>
     /\ m.content = UpTo(Len(m.content))
     /\ Carries(wire, Len(m.content), pieces, 0)
  \/ /\ server = "finished" /\ line = "ended"
     /\ m.content = UpTo(Len(m.content))
     /\ \/ Carries(wire, Len(m.content), pieces, 1)
        \/ wire = <<>> /\ Len(m.content) = pieces /\ ~m.pending

ChatTypes ==
  /\ replies \in Seq(ChatReply)
  /\ streaming \in BOOLEAN
  /\ pieces \in Nat
  /\ wire \in Seq(StreamEvent)

(* A reply once over is what ChatHonest says of the last one.              *)
Told(m) ==
  /\ m.cut \/ ~m.pending
  /\ ~m.cut /\ ~m.error => server = "finished" /\ m.content = UpTo(pieces)

ChatInv ==
  /\ ChatTypes
  /\ \A i \in DOMAIN replies : replies[i].error => ~replies[i].pending
  /\ \A i \in 1 .. Len(replies) - 1 : replies[i].cut \/ ~replies[i].pending
  /\ streaming => replies # <<>> /\ StreamOK(replies[Len(replies)])
  /\ ~streaming => /\ server \in {"finished", "failed"}
                   /\ replies # <<>> => Told(replies[Len(replies)])

LEMMA ChatInvHonest == ChatInv => ChatHonest
<1> SUFFICES ASSUME ChatInv, ~streaming
             PROVE  ChatHonest
  BY DEF ChatHonest, EndedMeansSettled, WholeUnlessMarked
<1>1. replies \in Seq(ChatReply) /\ DOMAIN replies = 1 .. Len(replies) /\ Len(replies) \in Nat
  BY DEF ChatInv, ChatTypes
<1>2. \A i \in DOMAIN replies : replies[i].cut \/ ~replies[i].pending
  BY <1>1 DEF ChatInv, Told
<1>3. replies # <<>> => Last(replies) = replies[Len(replies)]
  BY DEF Last
<1>4. QED
  BY <1>2, <1>3 DEF ChatHonest, EndedMeansSettled, WholeUnlessMarked, ChatInv, Told, UpTo

LEMMA InitChat == ChatInit => ChatInv
<1> SUFFICES ASSUME ChatInit
             PROVE  ChatInv
  OBVIOUS
<1>1. replies = <<>> /\ streaming = FALSE /\ pieces = 0 /\ wire = <<>> /\ server = "finished"
  BY DEF ChatInit
<1>2. Len(replies) = 0 /\ DOMAIN replies = {}
  BY <1>1
<1>3. ChatTypes
  <2>1. <<>> \in Seq(ChatReply) /\ <<>> \in Seq(StreamEvent) /\ FALSE \in BOOLEAN /\ 0 \in Nat
    OBVIOUS
  <2>2. QED
    BY <1>1, <2>1, Zenon DEF ChatTypes
<1>4. 1 .. Len(replies) - 1 = {}
  BY <1>2
<1>5. QED
  BY <1>1, <1>2, <1>3, <1>4 DEF ChatInv

(* Steps of the server: the reply is as it was. *)
LEMMA ServerKeeps ==
  ASSUME ChatInv, UNCHANGED <<replies, streaming>>, streaming,
         pieces' \in Nat, wire' \in Seq(StreamEvent), StreamOK(replies[Len(replies)])'
  PROVE  ChatInv'
  BY DEF ChatInv, ChatTypes

(* The server is at work only for a reply under way. *)
LEMMA AtWork ==
  ASSUME ChatInv, server \in {"asked", "streaming"}
  PROVE  /\ streaming /\ replies # <<>> /\ line = "open"
         /\ server = "asked" => pieces = 0 /\ wire = <<>>
         /\ replies[Len(replies)].content = UpTo(Len(replies[Len(replies)].content))
         /\ Carries(wire, Len(replies[Len(replies)].content), pieces, 0)
  BY DEF ChatInv, StreamOK

LEMMA FailureTold ==
  ASSUME ChatInv, server \in {"asked", "streaming"}, UNCHANGED <<replies, streaming, pieces>>,
         server' = "failed", line' = "ended", NEW words \in Seq(StreamEvent), words # <<>>,
         words[Len(words)].event = "error", wire' = wire \o words
  PROVE  ChatInv'
<1>1. wire \in Seq(StreamEvent) /\ pieces \in Nat
  BY DEF ChatInv, ChatTypes
<1>2. Len(wire') \in DOMAIN wire' /\ wire'[Len(wire')].event = "error"
  BY <1>1
<1>3. wire' \in Seq(StreamEvent)
  BY <1>1
<1>4. StreamOK(replies[Len(replies)])'
  BY <1>2 DEF StreamOK
<1>5. QED
  BY <1>1, <1>3, <1>4, AtWork, ServerKeeps

LEMMA SendKeeps ==
  ASSUME ChatInv, SendMessage
  PROVE  ChatInv'
<1>1. /\ ~streaming /\ replies \in Seq(ChatReply)
      /\ replies' = Append(replies, NewReply)
      /\ streaming' = TRUE /\ server' = "asked" /\ pieces' = 0 /\ wire' = <<>> /\ line' = "open"
  BY DEF SendMessage, ChatInv, ChatTypes
<1> DEFINE new == NewReply
<1>2. new \in ChatReply /\ new.content = <<>> /\ new.error = FALSE
  BY DEF NewReply, ChatReply
<1> HIDE DEF new
<1>3. /\ replies' \in Seq(ChatReply) /\ Len(replies') = Len(replies) + 1 /\ Len(replies) \in Nat
      /\ replies'[Len(replies')] = new
      /\ \A i \in 1 .. Len(replies) : replies'[i] = replies[i]
      /\ DOMAIN replies' = 1 .. Len(replies) + 1
      /\ DOMAIN replies = 1 .. Len(replies)
  BY <1>1, <1>2 DEF new
<1>4. ChatTypes'
  BY <1>1, <1>3 DEF ChatTypes
<1>5. \A i \in 1 .. Len(replies) : /\ replies[i].error => ~replies[i].pending
                                   /\ replies[i].cut \/ ~replies[i].pending
  BY <1>1, <1>3 DEF ChatInv, Told
<1>6. StreamOK(replies[Len(replies)])'
  <2>1. Len(<<>>) = 0 /\ <<>> = UpTo(0)
    BY DEF UpTo
  <2>2. Carries(<<>>, 0, 0, 0)
    <3>1. Len(<<>>) = 0 + (0 - 0) + 0 /\ 1 .. 0 - 0 = {}
      OBVIOUS
    <3>2. QED
      BY <3>1 DEF Carries, CarriesAfter
  <2>3. QED
    BY <1>1, <1>2, <1>3, <2>1, <2>2 DEF StreamOK
<1>7. QED
  BY <1>1, <1>2, <1>3, <1>4, <1>5, <1>6 DEF ChatInv

LEMMA ContextKeeps ==
  ASSUME ChatInv, ReadContext
  PROVE  ChatInv'
<1>1. /\ server = "asked" /\ server' = "streaming" /\ UNCHANGED <<replies, streaming, pieces, line>>
      /\ wire' = wire \o <<>> \/ wire' = wire \o <<Event("note")>>
  BY DEF ReadContext, ServerStep, Write
<1> DEFINE m == replies[Len(replies)]
<1>2. /\ streaming /\ line = "open" /\ pieces = 0 /\ wire = <<>>
      /\ m.content = UpTo(Len(m.content)) /\ Carries(wire, Len(m.content), pieces, 0)
  BY <1>1, AtWork
<1> HIDE DEF m
<1>3. Len(m.content) <= 0 /\ 0 - Len(m.content) <= 0
  BY <1>2 DEF Carries, CarriesAfter
<1>4. /\ wire' \in Seq(StreamEvent)
      /\ wire' = <<>> \/ (Len(wire') = 1 /\ wire'[1].event = "note")
  <2> DEFINE e == Event("note")
  <2>1. e \in StreamEvent /\ e.event = "note"
    BY DEF Event, StreamEvent
  <2> HIDE DEF e
  <2>2. wire' = <<>> \o <<>> \/ wire' = <<>> \o <<e>>
    BY <1>1, <1>2 DEF e
  <2>3. <<>> \in Seq(StreamEvent) /\ <<e>> \in Seq(StreamEvent) /\ <<>> \o <<>> = <<>>
        /\ <<>> \o <<e>> = <<e>> /\ Len(<<e>>) = 1 /\ <<e>>[1] = e
    BY <2>1
  <2>4. QED
    BY <2>1, <2>2, <2>3, Zenon
<1>5. Carries(wire', Len(m.content), 0, 0)
  <2>1. Len(m.content) = 0
    BY <1>2 DEF Carries, CarriesAfter
  <2>2. 1 .. 0 - 0 = {} /\ Len(<<>>) = 0
    OBVIOUS
  <2>3. QED
    BY <1>4, <2>1, <2>2 DEF Carries, CarriesAfter
<1>6. StreamOK(m)'
  BY <1>1, <1>2, <1>5 DEF StreamOK, m
<1>7. QED
  BY <1>1, <1>2, <1>4, <1>6, ServerKeeps DEF m

LEMMA SpeakKeeps ==
  ASSUME ChatInv, ModelSpeaks
  PROVE  ChatInv'
<1> DEFINE m == replies[Len(replies)]
           c == Len(m.content)
           e == [event |-> "delta", piece |-> pieces + 1]
<1>1. /\ server = "streaming" /\ server' = "streaming"
      /\ UNCHANGED <<replies, streaming, line>>
      /\ pieces' = pieces + 1 /\ wire' = wire \o <<e>>
  BY DEF ModelSpeaks, ServerStep, Write
<1>2. /\ streaming /\ line = "open" /\ replies # <<>>
      /\ m.content = UpTo(c) /\ Carries(wire, c, pieces, 0)
  BY <1>1, AtWork
<1>3. /\ replies \in Seq(ChatReply) /\ wire \in Seq(StreamEvent) /\ pieces \in Nat
      /\ pieces' \in Nat
  BY <1>1 DEF ChatInv, ChatTypes
<1>4. m \in ChatReply /\ c \in Nat
  <2>1. Len(replies) \in DOMAIN replies
    BY <1>2, <1>3
  <2>2. m \in ChatReply
    BY <1>3, <2>1
  <2>3. QED
    BY <2>2 DEF ChatReply
<1> HIDE DEF m, c
<1>5. e \in StreamEvent /\ e.event = "delta" /\ e.piece = pieces + 1
  BY <1>3 DEF StreamEvent
<1> HIDE DEF e
<1>6. /\ wire' \in Seq(StreamEvent) /\ Len(wire') = Len(wire) + 1 /\ Len(wire) \in Nat
      /\ \A i \in 1 .. Len(wire) : wire'[i] = wire[i]
      /\ wire'[Len(wire) + 1] = e
  BY <1>1, <1>3, <1>5
<1>7. PICK note \in {0, 1} :
        /\ c <= pieces
        /\ Len(wire) = note + (pieces - c) + 0
        /\ note = 1 => wire[1].event = "note"
        /\ \A i \in 1 .. pieces - c : wire[note + i].event = "delta" /\ wire[note + i].piece = c + i
  BY <1>2 DEF Carries, CarriesAfter
<1>8. ASSUME NEW i \in 1 .. pieces' - c
      PROVE  wire'[note + i].event = "delta" /\ wire'[note + i].piece = c + i
  <2>1. CASE i <= pieces - c
    <3>1. i \in 1 .. pieces - c /\ note + i \in 1 .. Len(wire)
      BY <1>1, <1>3, <1>4, <1>6, <1>7, <2>1
    <3>2. QED
      BY <1>6, <1>7, <3>1
  <2>2. CASE i = pieces - c + 1
    <3>1. note + i = Len(wire) + 1 /\ c + i = pieces + 1
      BY <1>3, <1>4, <1>7, <2>2
    <3>2. QED
      BY <1>5, <1>6, <3>1
  <2>3. i <= pieces - c \/ i = pieces - c + 1
    BY <1>1, <1>3, <1>4, <1>7
  <2>4. QED
    BY <2>1, <2>2, <2>3, Zenon
<1>9. Carries(wire', c, pieces', 0)
  <2>1. /\ c <= pieces' /\ Len(wire') = note + (pieces' - c) + 0
        /\ note = 1 => wire'[1].event = "note"
    BY <1>1, <1>3, <1>4, <1>6, <1>7
  <2>2. QED
    BY <1>8, <2>1 DEF Carries, CarriesAfter
<1>10. StreamOK(m)'
  BY <1>1, <1>2, <1>9 DEF StreamOK, m, c
<1>11. QED
  BY <1>1, <1>2, <1>3, <1>6, <1>10, ServerKeeps DEF m

LEMMA EndKeeps ==
  ASSUME ChatInv, ModelEnds
  PROVE  ChatInv'
<1> DEFINE m == replies[Len(replies)]
           c == Len(m.content)
           e == Event("done")
<1>1. /\ server = "streaming" /\ server' = "finished" /\ line' = "ended"
      /\ UNCHANGED <<replies, streaming, pieces>>
      /\ wire' = wire \o <<e>>
  BY DEF ModelEnds, ServerStep, LastWords, Write
<1>2. /\ streaming /\ line = "open" /\ replies # <<>>
      /\ m.content = UpTo(c) /\ Carries(wire, c, pieces, 0)
  BY <1>1, AtWork
<1>3. /\ replies \in Seq(ChatReply) /\ wire \in Seq(StreamEvent) /\ pieces \in Nat
  BY DEF ChatInv, ChatTypes
<1>4. m \in ChatReply /\ c \in Nat
  <2>1. Len(replies) \in DOMAIN replies
    BY <1>2, <1>3
  <2>2. m \in ChatReply
    BY <1>3, <2>1
  <2>3. QED
    BY <2>2 DEF ChatReply
<1> HIDE DEF m, c
<1>5. e \in StreamEvent /\ e.event = "done"
  BY DEF StreamEvent, Event
<1> HIDE DEF e
<1>6. /\ wire' \in Seq(StreamEvent) /\ Len(wire') = Len(wire) + 1 /\ Len(wire) \in Nat
      /\ \A i \in 1 .. Len(wire) : wire'[i] = wire[i]
      /\ wire'[Len(wire')] = e
  BY <1>1, <1>3, <1>5
<1>7. PICK note \in {0, 1} :
        /\ c <= pieces
        /\ Len(wire) = note + (pieces - c) + 0
        /\ note = 1 => wire[1].event = "note"
        /\ \A i \in 1 .. pieces - c : wire[note + i].event = "delta" /\ wire[note + i].piece = c + i
  BY <1>2 DEF Carries, CarriesAfter
<1>8. \A i \in 1 .. pieces - c : note + i \in 1 .. Len(wire)
  BY <1>3, <1>4, <1>7
<1>9. Carries(wire', c, pieces, 1)
  <2>1. /\ Len(wire') = note + (pieces - c) + 1
        /\ note = 1 => wire'[1].event = "note"
    BY <1>3, <1>4, <1>6, <1>7
  <2>2. QED
    BY <1>5, <1>6, <1>7, <1>8, <2>1 DEF Carries, CarriesAfter
<1>10. StreamOK(m)'
  BY <1>1, <1>2, <1>9 DEF StreamOK, m, c
<1>11. QED
  BY <1>1, <1>2, <1>3, <1>6, <1>10, ServerKeeps DEF m

LEMMA FailKeeps ==
  ASSUME ChatInv, RouteFails \/ NoKey \/ ModelFails
  PROVE  ChatInv'
<1> DEFINE e == Event("error")
<1>1. e \in StreamEvent /\ e.event = "error"
  BY DEF StreamEvent, Event
<1>2. /\ server \in {"asked", "streaming"} /\ UNCHANGED <<replies, streaming, pieces>>
      /\ server' = "failed" /\ line' = "ended"
      /\ wire' = wire \o <<e>> \/ wire' = wire \o <<e, e>>
  BY DEF RouteFails, NoKey, ModelFails, ServerStep, LastWords, Write
<1> HIDE DEF e
<1>3. /\ <<e>> \in Seq(StreamEvent) /\ <<e>> # <<>> /\ <<e>>[Len(<<e>>)].event = "error"
      /\ <<e, e>> \in Seq(StreamEvent) /\ <<e, e>> # <<>>
      /\ <<e, e>>[Len(<<e, e>>)].event = "error"
  BY <1>1
<1>4. QED
  BY <1>2, <1>3, FailureTold, Zenon

-----------------------------------------------------------------------------
(* The browser changes the last reply only. *)
LastBecomes(m) == replies' = [replies EXCEPT ![Len(replies)] = m]

LEMMA LastReplyChanges ==
  ASSUME ChatInv, streaming, NEW m \in ChatReply, LastBecomes(m)
  PROVE  /\ replies' \in Seq(ChatReply) /\ replies' # <<>>
         /\ Len(replies') = Len(replies) /\ DOMAIN replies' = DOMAIN replies
         /\ replies'[Len(replies')] = m
         /\ replies[Len(replies)] \in ChatReply
         /\ (m.error => ~m.pending) =>
              \A i \in DOMAIN replies' : replies'[i].error => ~replies'[i].pending
         /\ \A i \in 1 .. Len(replies') - 1 : replies'[i].cut \/ ~replies'[i].pending
<1>1. replies \in Seq(ChatReply) /\ replies # <<>>
  BY DEF ChatInv, ChatTypes
<1>2. /\ Len(replies) \in DOMAIN replies /\ DOMAIN replies = 1 .. Len(replies)
      /\ Len(replies) \in Nat
  BY <1>1
<1>3. /\ replies' \in Seq(ChatReply) /\ Len(replies') = Len(replies)
      /\ DOMAIN replies' = DOMAIN replies
      /\ \A i \in DOMAIN replies : replies'[i] = IF i = Len(replies) THEN m ELSE replies[i]
  BY <1>1, <1>2 DEF LastBecomes
<1>4. replies' # <<>>
  BY <1>2, <1>3
<1>5. replies[Len(replies)] \in ChatReply
  BY <1>1, <1>2
<1>6. /\ \A i \in DOMAIN replies : replies[i].error => ~replies[i].pending
      /\ \A i \in 1 .. Len(replies) - 1 : replies[i].cut \/ ~replies[i].pending
  BY DEF ChatInv
<1>7. replies'[Len(replies')] = m
  BY <1>2, <1>3
<1>8. ASSUME m.error => ~m.pending, NEW i \in DOMAIN replies', replies'[i].error
      PROVE  ~replies'[i].pending
  BY <1>3, <1>6, <1>8, Zenon
<1>9. ASSUME NEW i \in 1 .. Len(replies') - 1
      PROVE  replies'[i].cut \/ ~replies'[i].pending
  <2> DEFINE last == Len(replies)
  <2>a. last \in Nat /\ i \in 1 .. last - 1 /\ DOMAIN replies = 1 .. last
    BY <1>2, <1>3
  <2> HIDE DEF last
  <2>b. i \in 1 .. last /\ i # last
    BY <2>a
  <2>1. i \in 1 .. Len(replies) - 1 /\ i \in DOMAIN replies /\ i # Len(replies)
    BY <2>a, <2>b, Zenon DEF last
  <2>2. replies'[i] = replies[i]
    BY <1>3, <2>1
  <2>3. QED
    BY <1>6, <2>1, <2>2, Zenon
<1>10. QED
  BY <1>3, <1>4, <1>5, <1>7, <1>8, <1>9

LEMMA EndOfReplyKeeps ==
  ASSUME ChatInv, ReplyEnds
  PROVE  ChatInv'
<1> DEFINE m == replies[Len(replies)]
<1>1. /\ streaming /\ line = "ended" /\ wire = <<>> /\ streaming' = FALSE
      /\ UNCHANGED <<replies, server, pieces, wire>>
  BY DEF ReplyEnds
<1>2. /\ replies # <<>> /\ replies \in Seq(ChatReply) /\ StreamOK(m)
      /\ \A i \in DOMAIN replies : replies[i].error => ~replies[i].pending
  BY <1>1 DEF ChatInv, ChatTypes
<1>3. /\ Len(replies) \in DOMAIN replies
      /\ DOMAIN wire = {} /\ Len(wire) = 0
  BY <1>1, <1>2
<1>4. m \in ChatReply
  BY <1>2, <1>3
<1>5. m.error => ~m.pending
  BY <1>2, <1>3
<1> HIDE DEF m
<1>6. Len(m.content) \in Nat /\ pieces \in Nat
  BY <1>4 DEF ChatReply, ChatInv, ChatTypes
<1>7. ~Carries(wire, Len(m.content), pieces, 1)
  BY <1>3, <1>6 DEF Carries, CarriesAfter
<1>8. Told(m) /\ server \in {"finished", "failed"}
  BY <1>1, <1>2, <1>3, <1>5, <1>7 DEF Told, StreamOK
<1>9. QED
  BY <1>1, <1>8 DEF ChatInv, ChatTypes, Told, m

LEMMA RefusalKeeps ==
  ASSUME ChatInv, RequestRefused
  PROVE  ChatInv'
<1> DEFINE old == replies[Len(replies)]
           m == [old EXCEPT !.pending = FALSE, !.error = TRUE]
<1>1. /\ streaming /\ streaming' = FALSE /\ server' = "failed"
      /\ UNCHANGED <<pieces, wire>>
      /\ replies' = [replies EXCEPT ![Len(replies)] = Heard(@, Event("error"))]
  BY DEF RequestRefused, Current
<1>2. Len(replies) \in DOMAIN replies /\ old \in ChatReply
  <2>1. replies \in Seq(ChatReply) /\ replies # <<>>
    BY <1>1 DEF ChatInv, ChatTypes
  <2>2. QED
    BY <2>1
<1>3. Heard(old, Event("error")) = m
  BY DEF Heard, Event
<1>4. LastBecomes(m)
  BY <1>1, <1>3 DEF LastBecomes
<1>5. m \in ChatReply /\ m.pending = FALSE /\ m.error = TRUE
  BY <1>2 DEF ChatReply
<1> HIDE DEF m, old
<1>6. /\ replies' \in Seq(ChatReply)
      /\ replies'[Len(replies')] = m
      /\ \A i \in DOMAIN replies' : replies'[i].error => ~replies'[i].pending
      /\ \A i \in 1 .. Len(replies') - 1 : replies'[i].cut \/ ~replies'[i].pending
  BY <1>1, <1>4, <1>5, LastReplyChanges
<1>7. QED
  BY <1>1, <1>5, <1>6 DEF ChatInv, ChatTypes, Told

LEMMA CutKeeps ==
  ASSUME ChatInv, LineCut
  PROVE  ChatInv'
<1> DEFINE old == replies[Len(replies)]
           m == [old EXCEPT !.cut = TRUE]
<1>1. /\ streaming /\ streaming' = FALSE /\ server' = "failed" /\ wire' = <<>>
      /\ UNCHANGED pieces
      /\ replies' = [replies EXCEPT ![Len(replies)].cut = TRUE]
  BY DEF LineCut, Current
<1>2. /\ Len(replies) \in DOMAIN replies /\ old \in ChatReply
      /\ old.error => ~old.pending
  <2>1. replies \in Seq(ChatReply) /\ replies # <<>>
    BY <1>1 DEF ChatInv, ChatTypes
  <2>2. Len(replies) \in DOMAIN replies /\ old \in ChatReply
    BY <2>1
  <2>3. QED
    BY <2>2 DEF ChatInv
<1>3. LastBecomes(m)
  BY <1>1 DEF LastBecomes
<1>4. /\ m \in ChatReply /\ m.cut = TRUE
      /\ m.error => ~m.pending
  BY <1>2 DEF ChatReply
<1> HIDE DEF m, old
<1>5. /\ replies' \in Seq(ChatReply)
      /\ replies'[Len(replies')] = m
      /\ \A i \in DOMAIN replies' : replies'[i].error => ~replies'[i].pending
      /\ \A i \in 1 .. Len(replies') - 1 : replies'[i].cut \/ ~replies'[i].pending
  BY <1>1, <1>3, <1>4, LastReplyChanges
<1>6. wire' \in Seq(StreamEvent)
  BY <1>1
<1>7. QED
  BY <1>1, <1>4, <1>5, <1>6 DEF ChatInv, ChatTypes, Told

(* What is heard next. *)
LEMMA HeadOfWire ==
  ASSUME NEW w \in Seq(StreamEvent), w # <<>>, NEW c \in Nat, NEW n \in Nat, NEW ends \in {0, 1},
         Carries(w, c, n, ends)
  PROVE  \/ w[1].event = "note" /\ Carries(Tail(w), c, n, ends)
         \/ w[1].event = "delta" /\ w[1].piece = c + 1 /\ Carries(Tail(w), c + 1, n, ends)
         \/ ends = 1 /\ w[1].event = "done" /\ c = n /\ Tail(w) = <<>>
<1> DEFINE t == Tail(w)
<1>1. /\ t \in Seq(StreamEvent) /\ Len(t) = Len(w) - 1 /\ Len(w) \in Nat \ {0}
      /\ \A i \in 1 .. Len(w) - 1 : t[i] = w[i + 1]
  OBVIOUS
<1> HIDE DEF t
<1>2. Len(w) = 1 => t = <<>>
  <2>1. t \in Seq(StreamEvent) /\ Len(t) = 0 => t = <<>>
    OBVIOUS
  <2>2. QED
    BY <1>1, <2>1
<1>3. PICK note \in {0, 1} :
        /\ c <= n
        /\ Len(w) = note + (n - c) + ends
        /\ note = 1 => w[1].event = "note"
        /\ \A i \in 1 .. n - c : w[note + i].event = "delta" /\ w[note + i].piece = c + i
        /\ ends = 1 => w[Len(w)].event = "done"
  BY DEF Carries, CarriesAfter
<1>4. ends = 1 /\ Len(w) > 1 => t[Len(t)] = w[Len(w)]
  <2>1. Len(w) > 1 => Len(t) \in 1 .. Len(w) - 1 /\ Len(t) + 1 = Len(w)
    BY <1>1
  <2>2. QED
    BY <1>1, <2>1
<1>5. CASE note = 1
  <2>1. \A i \in 1 .. n - c : i \in 1 .. Len(w) - 1 /\ i + 1 = note + i
    BY <1>3, <1>5
  <2>2. \A i \in 1 .. n - c : t[0 + i] = w[note + i]
    <3>1. ASSUME NEW i \in 1 .. n - c
          PROVE  t[0 + i] = w[note + i]
      <4>1. 0 + i = i /\ t[i] = w[i + 1] /\ i + 1 = note + i
        BY <1>1, <2>1
      <4>2. QED
        BY <4>1
    <3>2. QED
      BY <3>1
  <2>3. Len(t) = 0 + (n - c) + ends /\ (ends = 1 => Len(w) > 1)
    BY <1>1, <1>3, <1>5
  <2>a. /\ \A i \in 1 .. n - c : t[0 + i].event = "delta" /\ t[0 + i].piece = c + i
        /\ ends = 1 => t[Len(t)].event = "done"
    BY <1>3, <1>4, <2>2, <2>3
  <2>b. CarriesAfter(0, t, c, n, ends)
    BY <1>3, <2>3, <2>a DEF CarriesAfter
  <2>4. Carries(t, c, n, ends)
    BY <2>b DEF Carries
  <2>5. QED
    BY <1>3, <1>5, <2>4 DEF t
<1>6. CASE note = 0 /\ c < n
  <2>1. 1 \in 1 .. n - c /\ note + 1 = 1
    BY <1>6
  <2>2. w[1].event = "delta" /\ w[1].piece = c + 1
    BY <1>3, <2>1
  <2>3. ASSUME NEW i \in 1 .. n - (c + 1)
        PROVE  t[0 + i].event = "delta" /\ t[0 + i].piece = (c + 1) + i
    <3>1. /\ i + 1 \in 1 .. n - c /\ i \in 1 .. Len(w) - 1 /\ 0 + i = i
          /\ note + (i + 1) = i + 1 /\ c + (i + 1) = (c + 1) + i
      BY <1>3, <1>6
    <3>2. w[i + 1].event = "delta" /\ w[i + 1].piece = (c + 1) + i
      BY <1>3, <3>1
    <3>3. t[i] = w[i + 1]
      BY <1>1, <3>1
    <3>4. QED
      BY <3>1, <3>2, <3>3
  <2>4. Len(t) = 0 + (n - (c + 1)) + ends /\ c + 1 <= n /\ (ends = 1 => Len(w) > 1)
    BY <1>1, <1>3, <1>6
  <2>a. CarriesAfter(0, t, c + 1, n, ends)
    BY <1>3, <1>4, <1>6, <2>3, <2>4 DEF CarriesAfter
  <2>5. Carries(t, c + 1, n, ends)
    BY <2>a DEF Carries
  <2>6. QED
    BY <2>2, <2>5 DEF t
<1>7. CASE note = 0 /\ c = n
  <2>1. ends = 1 /\ Len(w) = 1
    BY <1>1, <1>3, <1>7
  <2>2. QED
    BY <1>2, <1>3, <1>7, <2>1 DEF t
<1>8. QED
  BY <1>3, <1>5, <1>6, <1>7

LEMMA UpToNext ==
  ASSUME NEW c \in Nat
  PROVE  UpTo(c) \in Seq(Nat) /\ Len(UpTo(c)) = c /\ Append(UpTo(c), c + 1) = UpTo(c + 1)
<1> DEFINE s == UpTo(c)
           t == UpTo(c + 1)
<1>1. s \in Seq(Nat) /\ Len(s) = c /\ DOMAIN s = 1 .. c /\ \A k \in 1 .. c : s[k] = k
  BY DEF UpTo
<1>2. /\ t \in Seq(Nat) /\ Len(t) = c + 1 /\ DOMAIN t = 1 .. c + 1
      /\ \A k \in 1 .. c + 1 : t[k] = k
  BY DEF UpTo
<1> HIDE DEF s, t
<1> DEFINE a == Append(s, c + 1)
<1>3. a \in Seq(Nat) /\ Len(a) = c + 1 /\ \A k \in 1 .. c + 1 : a[k] = k
  BY <1>1
<1> HIDE DEF a
<1>4. a = t
  BY <1>2, <1>3
<1>5. QED
  BY <1>1, <1>4 DEF a, s, t

LEMMA NextHeard ==
  ASSUME NEW c \in Nat, NEW old, NEW new, NEW k, old = UpTo(c), new = Append(old, k), k = c + 1
  PROVE  new = UpTo(c + 1) /\ Len(new) = c + 1
<1>1. c + 1 \in Nat
  OBVIOUS
<1>2. Len(UpTo(c + 1)) = c + 1
  BY <1>1, UpToNext
<1>3. QED
  BY <1>2, UpToNext

LEMMA ReceiveKeeps ==
  ASSUME ChatInv, Receive
  PROVE  ChatInv'
<1> DEFINE old == replies[Len(replies)]
           c == Len(old.content)
           e == wire[1]
           m == Heard(old, e)
<1>1. /\ streaming /\ wire # <<>> /\ wire' = Tail(wire)
      /\ UNCHANGED <<streaming, server, pieces, line>>
      /\ LastBecomes(m)
  BY DEF Receive, Current, Head, LastBecomes
<1>2. /\ wire \in Seq(StreamEvent) /\ pieces \in Nat /\ streaming \in BOOLEAN
      /\ StreamOK(old)
      /\ Len(replies) \in DOMAIN replies /\ old \in ChatReply
      /\ old.error => ~old.pending
  <2>1. /\ replies \in Seq(ChatReply) /\ replies # <<>>
        /\ \A i \in DOMAIN replies : replies[i].error => ~replies[i].pending
    BY <1>1 DEF ChatInv, ChatTypes
  <2>2. Len(replies) \in DOMAIN replies /\ old \in ChatReply
    BY <2>1
  <2>3. QED
    BY <1>1, <2>1, <2>2 DEF ChatInv, ChatTypes
<1>3. /\ e \in StreamEvent /\ Tail(wire) \in Seq(StreamEvent)
      /\ Len(Tail(wire)) = Len(wire) - 1 /\ Len(wire) \in Nat \ {0}
      /\ \A i \in 1 .. Len(wire) - 1 : Tail(wire)[i] = wire[i + 1]
      /\ DOMAIN wire = 1 .. Len(wire) /\ DOMAIN Tail(wire) = 1 .. Len(wire) - 1
  BY <1>1, <1>2
<1> HIDE DEF old, e
<1>4. c \in Nat
  BY <1>2 DEF ChatReply
<1>5. /\ m \in ChatReply
      /\ m.error => ~m.pending
      /\ m.error = (old.error \/ e.event = "error")
      /\ e.event = "note" => m = old
      /\ e.event = "done" => m.content = old.content /\ ~m.pending
      /\ e.event = "delta" => m.content = Append(old.content, e.piece) /\ ~m.pending
  <2>1. CASE e.event = "delta"
    <3>1. m = [old EXCEPT !.content = Append(old.content, e.piece), !.pending = FALSE]
      BY <2>1 DEF Heard
    <3>2. Append(old.content, e.piece) \in Seq(Nat)
      BY <1>2, <1>3 DEF ChatReply, StreamEvent
    <3> HIDE DEF m
    <3>3. QED
      BY <1>2, <2>1, <3>1, <3>2 DEF ChatReply
  <2>2. CASE e.event \in {"error", "done", "note"}
    BY <1>2, <2>2 DEF Heard, ChatReply
  <2>3. QED
    BY <1>3, <2>1, <2>2 DEF StreamEvent
<1> HIDE DEF m, c
<1>6. /\ replies' \in Seq(ChatReply) /\ replies' # <<>>
      /\ replies'[Len(replies')] = m
      /\ \A i \in DOMAIN replies' : replies'[i].error => ~replies'[i].pending
      /\ \A i \in 1 .. Len(replies') - 1 : replies'[i].cut \/ ~replies'[i].pending
  <2>1. streaming /\ m \in ChatReply /\ (m.error => ~m.pending) /\ LastBecomes(m)
    BY <1>1, <1>5
  <2>2. QED
    BY <2>1, LastReplyChanges
<1>7. StreamOK(replies[Len(replies)])'
  <2>1. CASE server = "failed" /\ line = "ended"
               /\ (old.error \/ \E i \in DOMAIN wire : wire[i].event = "error")
    <3>1. m.error \/ \E i \in DOMAIN wire' : wire'[i].event = "error"
      <4>1. CASE old.error \/ e.event = "error"
        BY <1>5, <4>1
      <4>2. CASE ~old.error /\ e.event # "error"
        <5>1. PICK i \in DOMAIN wire : wire[i].event = "error"
          BY <2>1, <4>2
        <5>2. i # 1
          BY <4>2, <5>1 DEF e
        <5>3. i - 1 \in 1 .. Len(wire) - 1 /\ (i - 1) + 1 = i
          BY <1>3, <5>2
        <5>4. i - 1 \in DOMAIN wire' /\ wire'[i - 1] = wire[i]
          BY <1>1, <1>3, <5>3
        <5>5. QED
          BY <5>1, <5>4
      <4>3. QED
        BY <4>1, <4>2
    <3>2. QED
      BY <1>1, <1>6, <2>1, <3>1 DEF StreamOK
  <2>2. CASE /\ server \in {"asked", "streaming"} /\ line = "open"
             /\ server = "asked" => wire = <<>>
             /\ old.content = UpTo(c) /\ Carries(wire, c, pieces, 0)
    <3>1. server = "streaming"
      BY <1>1, <2>2
    <3>2. CASE e.event = "note" /\ Carries(wire', c, pieces, 0)
      BY <1>1, <1>5, <1>6, <2>2, <3>1, <3>2 DEF StreamOK, c
    <3>3. CASE e.event = "delta" /\ e.piece = c + 1 /\ Carries(wire', c + 1, pieces, 0)
      <4>1. m.content = UpTo(c + 1) /\ Len(m.content) = c + 1
        BY <1>4, <1>5, <2>2, <3>3, NextHeard
      <4>2. QED
        BY <1>1, <1>6, <2>2, <3>1, <3>3, <4>1 DEF StreamOK
    <3>4. QED
      BY <1>1, <1>2, <1>4, <2>2, <3>2, <3>3, HeadOfWire DEF e
  <2>3. CASE /\ server = "finished" /\ line = "ended"
             /\ old.content = UpTo(c) /\ Carries(wire, c, pieces, 1)
    <3>2. CASE e.event = "note" /\ Carries(wire', c, pieces, 1)
      BY <1>1, <1>5, <1>6, <2>3, <3>2 DEF StreamOK, c
    <3>3. CASE e.event = "delta" /\ e.piece = c + 1 /\ Carries(wire', c + 1, pieces, 1)
      <4>1. m.content = UpTo(c + 1) /\ Len(m.content) = c + 1
        BY <1>4, <1>5, <2>3, <3>3, NextHeard
      <4>2. QED
        BY <1>1, <1>6, <2>3, <3>3, <4>1 DEF StreamOK
    <3>4. CASE e.event = "done" /\ c = pieces /\ wire' = <<>>
      BY <1>1, <1>5, <1>6, <2>3, <3>4 DEF StreamOK, c
    <3>5. QED
      BY <1>1, <1>2, <1>4, <2>3, <3>2, <3>3, <3>4, HeadOfWire DEF e
  <2>4. QED
    BY <1>1, <1>2, <2>1, <2>2, <2>3 DEF StreamOK, c
<1>8. QED
  BY <1>1, <1>2, <1>3, <1>6, <1>7 DEF ChatInv, ChatTypes

LEMMA StepChat == ChatInv /\ [ChatNext]_chatVars => ChatInv'
<1> SUFFICES ASSUME ChatInv, [ChatNext]_chatVars
             PROVE  ChatInv'
  OBVIOUS
<1>1. CASE UNCHANGED chatVars
  BY <1>1 DEF ChatInv, ChatTypes, StreamOK, Told, chatVars
<1>2. CASE ChatNext
  BY <1>2, SendKeeps, ContextKeeps, SpeakKeeps, EndKeeps, FailKeeps, ReceiveKeeps,
     EndOfReplyKeeps, RefusalKeeps, CutKeeps DEF ChatNext
<1>3. QED
  BY <1>1, <1>2

(* For any number of messages and any length of the replies, whatever      *)
(* fails and wherever the line breaks: a reply whose stream the server     *)
(* ended is not left pending (ChatWidget.tsx:47-64), and one without a     *)
(* mark is the whole of what the model said, in order.                     *)
THEOREM ChatTruthful == ServicesSpec => []ChatHonest
<1>1. ServicesInit => ChatInv
  BY InitChat DEF ServicesInit
<1>2. [ServicesNext]_servicesVars => [ChatNext]_chatVars
  BY DEF ServicesNext, servicesVars
<1>3. ChatInv /\ [ServicesNext]_servicesVars => ChatInv'
  BY <1>2, StepChat
<1>4. QED
  BY <1>1, <1>3, ChatInvHonest, PTL DEF ServicesSpec

-----------------------------------------------------------------------------
(* The recommendation page. *)

Progress == {"none", "core", "work", "recorded", "answered", "failed"}

PanelTypes ==
  /\ core \in {"none", "loading", "loaded"}
  /\ records \in Nat
  /\ asks \in [Requests -> [at: Progress, brings: Nat]]
  /\ running \in BOOLEAN /\ overtaken \in BOOLEAN
  /\ run \in Nat
  /\ panel \in [history: Nat \cup {Unset}, historyError: BOOLEAN,
                analysis: Nat \cup {Unset}, runError: BOOLEAN,
                latest: [run: Nat, record: Nat] \cup {Unset}, guardrailError: BOOLEAN]

(* A run asks for its two parts, and then for the history again.           *)
PanelRuns ==
  LET a == asks["analysis"].at
      r == asks["recommendation"].at
      h == asks["again"].at
  IN
  \/ /\ ~running /\ a = "none" /\ r = "none" /\ h = "none"
     /\ run > 0 => /\ panel.analysis = Unset <=> panel.runError
                   /\ panel.latest = Unset <=> panel.guardrailError
  \/ /\ running /\ a # "none" /\ r # "none" /\ h = "none"
     /\ panel.analysis = Unset /\ panel.latest = Unset
  \/ /\ running /\ a = "none" /\ r = "none" /\ h # "none"
     /\ panel.analysis = Unset <=> panel.runError
     /\ panel.latest # Unset /\ ~panel.guardrailError

(* What a request brings was read of the log. *)
Brought ==
  /\ \A r \in {"first", "again"} : asks[r].at = "answered" => asks[r].brings <= records
  /\ asks["recommendation"].at \in {"recorded", "answered"} =>
       asks["recommendation"].brings \in 1 .. records
  /\ \A r \in Requests \ {"recommendation"} : asks[r].at # "recorded"

(* The record shown is in the log, in the history that is being read since *)
(* it was shown, and in the history that was.                              *)
RecordKept ==
  panel.latest # Unset =>
    /\ panel.latest.run = run
    /\ panel.latest.record \in 1 .. records
    /\ asks["again"].at = "answered" => panel.latest.record <= asks["again"].brings
    /\ ~running /\ ~overtaken =>
         /\ asks["first"].at = "none"
         /\ IF panel.history = Unset THEN panel.historyError
            ELSE panel.latest.record <= panel.history

NobodyWaits == (\E r \in Requests : asks[r].at = "core") => core = "loading"

PanelInv ==
  /\ PanelTypes
  /\ PanelRuns
  /\ panel.analysis \in {Unset, run}
  /\ RecordKept
  /\ panel.history # Unset => panel.history <= records
  /\ Brought
  /\ NobodyWaits

LEMMA PanelInvHonest == PanelInv => PanelHonest
<1> SUFFICES ASSUME PanelInv
             PROVE  PanelHonest
  OBVIOUS
<1>1. ~running /\ run > 0 => /\ panel.analysis = Unset <=> panel.runError
                             /\ panel.latest = Unset <=> panel.guardrailError
  BY DEF PanelInv, PanelRuns
<1>2. ASSUME panel.latest # Unset, ~running, ~overtaken
      PROVE  /\ HistoryShown # "none yet"
             /\ HistoryShown = "records" => panel.latest.record <= panel.history
  <2>1. panel.latest.record >= 1 /\ panel.latest.record \in Nat
        /\ (panel.history # Unset => panel.history \in Nat)
    BY <1>2 DEF PanelInv, PanelTypes, RecordKept
  <2>2. IF panel.history = Unset THEN panel.historyError
        ELSE panel.latest.record <= panel.history
    BY <1>2 DEF PanelInv, RecordKept
  <2>3. QED
    BY <2>1, <2>2 DEF HistoryShown
<1>3. QED
  BY <1>1, <1>2 DEF PanelHonest, PanelInv, RecordKept, NobodyWaits

LEMMA InitPanel == PanelInit => PanelInv
<1> SUFFICES ASSUME PanelInit
             PROVE  PanelInv
  OBVIOUS
<1>1. PanelTypes
  <2>1. asks \in [Requests -> [at: Progress, brings: Nat]]
    BY DEF PanelInit, NotAsked, Progress
  <2>2. panel \in [history: Nat \cup {Unset}, historyError: BOOLEAN,
                  analysis: Nat \cup {Unset}, runError: BOOLEAN,
                  latest: [run: Nat, record: Nat] \cup {Unset}, guardrailError: BOOLEAN]
    BY DEF PanelInit
  <2>3. core = "loading" /\ records \in Nat /\ running = FALSE /\ overtaken = FALSE /\ run = 0
    BY DEF PanelInit
  <2>4. QED
    BY <2>1, <2>2, <2>3 DEF PanelTypes
<1>2. /\ asks["first"] = [at |-> "core", brings |-> 0]
      /\ \A r \in {"again", "analysis", "recommendation"} : asks[r].at = "none"
      /\ panel.history = Unset /\ panel.analysis = Unset /\ panel.latest = Unset
      /\ core = "loading" /\ ~running /\ run = 0
  BY DEF PanelInit, Requests, NotAsked
<1>3. PanelRuns /\ RecordKept /\ NobodyWaits
  BY <1>2 DEF PanelRuns, RecordKept, NobodyWaits
<1>4. Brought
  BY <1>2 DEF Brought, Requests
<1>5. QED
  BY <1>1, <1>2, <1>3, <1>4 DEF PanelInv

(* The steps of a request by itself: the page is as it was. *)
PageSame == UNCHANGED <<running, run, panel, overtaken>>

LEMMA CoreKeeps ==
  ASSUME PanelInv, CoreLoads \/ CoreFails
  PROVE  PanelInv'
<1>1. /\ core = "loading" /\ core' \in {"loaded", "none"}
      /\ PageSame /\ UNCHANGED records
      /\ \E to \in {"work", "failed"} :
           asks' = [r \in Requests |-> IF asks[r].at = "core" THEN [asks[r] EXCEPT !.at = to]
                                                             ELSE asks[r]]
  BY DEF CoreLoads, CoreFails, CoreAfterFailure, PageSame
<1>2. PanelTypes
  BY DEF PanelInv
<1>3. PICK to \in {"work", "failed"} :
        \A r \in Requests : /\ asks'[r].brings = asks[r].brings
                            /\ asks'[r].at = IF asks[r].at = "core" THEN to ELSE asks[r].at
  BY <1>1, <1>2 DEF PanelTypes
<1>4. PanelTypes'
  BY <1>1, <1>2 DEF PanelTypes, Progress, PageSame
<1>5. /\ \A r \in Requests : asks'[r].at = "none" <=> asks[r].at = "none"
      /\ \A r \in Requests : asks'[r].at = "answered" <=> asks[r].at = "answered"
      /\ \A r \in Requests : asks'[r].at = "recorded" <=> asks[r].at = "recorded"
      /\ \A r \in Requests : asks'[r].at # "core"
  BY <1>3
<1>6. {"first", "again", "analysis", "recommendation"} = Requests
  BY DEF Requests
<1>7. PanelRuns'
  BY <1>1, <1>5, <1>6 DEF PanelInv, PanelRuns, PageSame
<1>8. RecordKept' /\ Brought' /\ NobodyWaits'
  BY <1>1, <1>3, <1>5, <1>6 DEF PanelInv, RecordKept, Brought, NobodyWaits, PageSame
<1>9. QED
  BY <1>1, <1>4, <1>7, <1>8 DEF PanelInv, PageSame

(* One request goes on. *)
LEMMA RequestKeeps ==
  ASSUME PanelInv, NEW q \in Requests, NEW from \in {"work", "recorded"}, NEW to \in Progress,
         NEW brings \in Nat, Works(q, from, to, brings),
         to \in {"answered", "failed"} \/ (q = "recommendation" /\ to = "recorded"),
         records' \in Nat, records' >= records,
         to # "failed" => brings <= records',
         q = "recommendation" /\ to # "failed" => brings >= 1,
         q = "again" /\ to # "failed" => brings = records
  PROVE  PanelInv'
<1>1. /\ asks[q].at = from /\ asks' = [asks EXCEPT ![q] = [at |-> to, brings |-> brings]]
      /\ PageSame /\ UNCHANGED core
  BY DEF Works, PageSame
<1>2. PanelTypes
  BY DEF PanelInv
<1>3. /\ asks'[q].at = to /\ asks'[q].brings = brings
      /\ \A r \in Requests \ {q} : asks'[r] = asks[r]
  BY <1>1, <1>2 DEF PanelTypes
<1>4. PanelTypes'
  BY <1>1, <1>2 DEF PanelTypes, PageSame
<1>5. /\ \A r \in Requests : asks'[r].at = "none" <=> asks[r].at = "none"
      /\ \A r \in Requests : asks'[r].at = "core" => asks[r].at = "core"
  BY <1>1, <1>3
<1>6. {"first", "again", "analysis", "recommendation"} = Requests
  BY DEF Requests
<1>7. PanelRuns'
  BY <1>1, <1>5, <1>6 DEF PanelInv, PanelRuns, PageSame
<1>8. NobodyWaits'
  BY <1>1, <1>5 DEF PanelInv, NobodyWaits
<1>9. Brought'
  BY <1>2, <1>3, <1>6 DEF PanelInv, Brought, PanelTypes
<1>10. RecordKept'
  BY <1>1, <1>2, <1>3, <1>5, <1>6 DEF PanelInv, RecordKept, PanelTypes, PageSame
<1>11. QED
  BY <1>1, <1>2, <1>4, <1>7, <1>8, <1>9, <1>10 DEF PanelInv, PageSame, PanelTypes

LEMMA ServerStepKeeps ==
  ASSUME PanelInv,
         \/ \E r \in {"first", "again"} : ServeHistory(r)
         \/ ServeAnalysis \/ WriteRecord \/ ServeRecommendation
         \/ \E r \in Requests : ServeFails(r)
  PROVE  PanelInv'
<1>1. PanelTypes /\ Brought
  BY DEF PanelInv
<1>2. records \in Nat /\ records + 1 \in Nat /\ 0 \in Nat
  BY <1>1 DEF PanelTypes
<1>3. ASSUME NEW r \in {"first", "again"}, ServeHistory(r)
      PROVE  PanelInv'
  <2>1. r \in Requests /\ "answered" \in Progress /\ r # "recommendation"
    BY DEF Requests, Progress
  <2>2. Works(r, "work", "answered", records) /\ records' = records
    BY <1>3 DEF ServeHistory
  <2>3. QED
    BY <1>2, <2>1, <2>2, RequestKeeps
<1>4. CASE ServeAnalysis
  <2>1. "analysis" \in Requests /\ "answered" \in Progress
    BY DEF Requests, Progress
  <2>2. Works("analysis", "work", "answered", 0) /\ records' = records
    BY <1>4 DEF ServeAnalysis
  <2>3. QED
    BY <1>2, <2>1, <2>2, RequestKeeps
<1>5. CASE WriteRecord
  <2>1. "recommendation" \in Requests /\ "recorded" \in Progress
    BY DEF Requests, Progress
  <2>2. Works("recommendation", "work", "recorded", records + 1) /\ records' = records + 1
    BY <1>5 DEF WriteRecord
  <2>3. records + 1 >= 1 /\ records + 1 >= records
    BY <1>2
  <2>4. QED
    BY <1>2, <2>1, <2>2, <2>3, RequestKeeps
<1>6. CASE ServeRecommendation
  <2> DEFINE b == asks["recommendation"].brings
  <2>1. "recommendation" \in Requests /\ "answered" \in Progress
    BY DEF Requests, Progress
  <2>2. Works("recommendation", "recorded", "answered", b) /\ records' = records
        /\ asks["recommendation"].at = "recorded"
    BY <1>6 DEF ServeRecommendation, Works
  <2>3. b \in 1 .. records
    BY <1>1, <2>2 DEF Brought
  <2> HIDE DEF b
  <2>4. b \in Nat /\ b >= 1 /\ b <= records
    BY <1>2, <2>3
  <2>5. QED
    BY <1>2, <2>1, <2>2, <2>4, RequestKeeps
<1>7. ASSUME NEW r \in Requests, ServeFails(r)
      PROVE  PanelInv'
  <2>1. PICK from \in {"work", "recorded"} : Works(r, from, "failed", 0)
    BY <1>7 DEF ServeFails
  <2>2. records' = records /\ "failed" \in Progress
    BY <1>7 DEF ServeFails, Progress
  <2>3. QED
    BY <1>2, <2>1, <2>2, RequestKeeps
<1>8. QED
  BY <1>3, <1>4, <1>5, <1>6, <1>7

LEMMA OthersKeep ==
  ASSUME PanelInv, OtherRuns
  PROVE  PanelInv'
<1>1. records' = records + 1 /\ PageSame /\ UNCHANGED <<core, asks>>
  BY DEF OtherRuns, PageSame
<1>2. PanelTypes
  BY DEF PanelInv
<1>3. PanelTypes'
  BY <1>1, <1>2 DEF PanelTypes, PageSame
<1>4. PanelRuns' /\ NobodyWaits'
  BY <1>1 DEF PanelInv, PanelRuns, NobodyWaits, PageSame
<1>5. RecordKept' /\ Brought'
  BY <1>1, <1>2 DEF PanelInv, PanelTypes, RecordKept, Brought, PageSame, Requests
<1>6. panel'.history # Unset => panel'.history <= records'
  BY <1>1, <1>2 DEF PanelInv, PanelTypes, PageSame
<1>7. QED
  BY <1>1, <1>3, <1>4, <1>5, <1>6 DEF PanelInv, PageSame

LEMMA ClickKeeps ==
  ASSUME PanelInv, ClickAnalyze
  PROVE  PanelInv'
<1>1. /\ ~running /\ running' = TRUE /\ run' = run + 1
      /\ panel' = ClearsResults /\ Ask({"analysis", "recommendation"})
      /\ UNCHANGED <<records, overtaken>>
  BY DEF ClickAnalyze, Offered
<1>2. PanelTypes
  BY DEF PanelInv
<1>3. /\ panel'.history = panel.history /\ panel'.analysis = Unset /\ panel'.latest = Unset
      /\ panel' \in [history: Nat \cup {Unset}, historyError: BOOLEAN,
                     analysis: Nat \cup {Unset}, runError: BOOLEAN,
                     latest: [run: Nat, record: Nat] \cup {Unset}, guardrailError: BOOLEAN]
  BY <1>1, <1>2 DEF ClearsResults, PanelTypes
<1> DEFINE to == IF core = "loaded" THEN "work" ELSE "core"
<1>4. /\ asks' = [r \in Requests |-> IF r \in {"analysis", "recommendation"}
                                     THEN [at |-> to, brings |-> 0] ELSE asks[r]]
      /\ core' = IF core = "none" THEN "loading" ELSE core
  BY <1>1 DEF Ask
<1>5. to \in {"work", "core"} /\ (to = "core" => core' = "loading")
      /\ core' \in {"none", "loading", "loaded"}
      /\ (core = "loading" => core' = "loading")
  BY <1>2, <1>4 DEF PanelTypes
<1> HIDE DEF to
<1>6. {"first", "again", "analysis", "recommendation"} = Requests
  BY DEF Requests
<1>7. /\ asks'["analysis"].at = to /\ asks'["recommendation"].at = to
      /\ asks'["first"] = asks["first"] /\ asks'["again"] = asks["again"]
  BY <1>4, <1>6
<1>8. asks' \in [Requests -> [at: Progress, brings: Nat]]
  BY <1>2, <1>4, <1>5 DEF PanelTypes, Progress
<1>9. PanelTypes'
  BY <1>1, <1>2, <1>3, <1>5, <1>8 DEF PanelTypes
<1>10. PanelRuns'
  <2>1. asks["again"].at = "none"
    BY <1>1 DEF PanelInv, PanelRuns
  <2>2. QED
    BY <1>1, <1>3, <1>5, <1>7, <2>1 DEF PanelRuns
<1>11. NobodyWaits'
  BY <1>5, <1>6, <1>7 DEF PanelInv, NobodyWaits
<1>12. Brought'
  BY <1>1, <1>5, <1>6, <1>7 DEF PanelInv, Brought
<1>13. QED
  BY <1>1, <1>3, <1>9, <1>10, <1>11, <1>12 DEF PanelInv, RecordKept

LEMMA SettleRunKeeps ==
  ASSUME PanelInv, RunSettles
  PROVE  PanelInv'
<1> DEFINE eco == asks["analysis"].at = "answered"
           rec == asks["recommendation"].at = "answered"
<1>1. /\ running /\ asks["analysis"].at # "none" /\ asks["recommendation"].at # "none"
      /\ panel' = SettledApart /\ UNCHANGED <<core, records, run, overtaken>>
  BY DEF RunSettles, Over
<1>2. PanelTypes
  BY DEF PanelInv
<1>3. rec => asks["recommendation"].brings \in 1 .. records
  BY DEF PanelInv, Brought
<1>4. /\ panel'.history = panel.history /\ panel'.historyError = panel.historyError
      /\ panel'.analysis = IF eco THEN run ELSE Unset
      /\ panel'.runError = ~eco /\ panel'.guardrailError = ~rec
      /\ panel'.latest = IF rec THEN [run |-> run, record |-> asks["recommendation"].brings]
                                ELSE Unset
      /\ panel' \in [history: Nat \cup {Unset}, historyError: BOOLEAN,
                     analysis: Nat \cup {Unset}, runError: BOOLEAN,
                     latest: [run: Nat, record: Nat] \cup {Unset}, guardrailError: BOOLEAN]
  <2>1. panel \in [history: Nat \cup {Unset}, historyError: BOOLEAN,
                  analysis: Nat \cup {Unset}, runError: BOOLEAN,
                  latest: [run: Nat, record: Nat] \cup {Unset}, guardrailError: BOOLEAN]
    BY <1>2 DEF PanelTypes
  <2>2. run \in Nat /\ asks["recommendation"].brings \in Nat
    BY <1>2 DEF PanelTypes, Requests
  <2>3. /\ panel'.history = panel.history /\ panel'.historyError = panel.historyError
        /\ panel'.analysis = IF eco THEN run ELSE Unset
        /\ panel'.runError = ~eco /\ panel'.guardrailError = ~rec
        /\ panel'.latest = IF rec THEN [run |-> run, record |-> asks["recommendation"].brings]
                                  ELSE Unset
    BY <1>1, <2>1 DEF SettledApart
  <2>4. panel' \in [history: Nat \cup {Unset}, historyError: BOOLEAN,
                   analysis: Nat \cup {Unset}, runError: BOOLEAN,
                   latest: [run: Nat, record: Nat] \cup {Unset}, guardrailError: BOOLEAN]
    BY <1>1, <2>1, <2>2 DEF SettledApart
  <2>5. QED
    BY <2>3, <2>4
<1>5. run \in Nat /\ run # Unset
      /\ (rec => [run |-> run, record |-> asks["recommendation"].brings] # Unset)
  BY <1>2, <1>3, PanelAssumption DEF PanelTypes
<1>6. {"first", "again", "analysis", "recommendation"} = Requests
  BY DEF Requests
<1>7. CASE rec
  <2>1. /\ asks' = [r \in Requests |-> CASE r = "first" -> asks[r]
                                         [] r = "again" -> [at |-> "work", brings |-> 0]
                                         [] OTHER -> NotAsked]
        /\ running' = running
    BY <1>7 DEF RunSettles
  <2>2. /\ asks'["first"] = asks["first"] /\ asks'["again"] = [at |-> "work", brings |-> 0]
        /\ asks'["analysis"] = NotAsked /\ asks'["recommendation"] = NotAsked
        /\ asks' \in [Requests -> [at: Progress, brings: Nat]]
    BY <1>2, <1>6, <2>1 DEF PanelTypes, Progress, NotAsked
  <2>3. PanelTypes'
    BY <1>1, <1>2, <1>4, <2>1, <2>2 DEF PanelTypes
  <2>4. PanelRuns'
    BY <1>1, <1>4, <1>5, <1>7, <2>1, <2>2 DEF PanelRuns, NotAsked
  <2>5. RecordKept'
    BY <1>1, <1>3, <1>4, <1>5, <1>7, <2>1, <2>2 DEF RecordKept
  <2>6. Brought' /\ NobodyWaits'
    BY <1>1, <1>6, <2>2 DEF PanelInv, Brought, NobodyWaits, NotAsked
  <2>7. QED
    BY <1>1, <1>4, <2>3, <2>4, <2>5, <2>6 DEF PanelInv
<1>8. CASE ~rec
  <2>1. /\ asks' = [asks EXCEPT !["analysis"] = NotAsked, !["recommendation"] = NotAsked]
        /\ running' = FALSE
    BY <1>8 DEF RunSettles
  <2>2. /\ asks'["first"] = asks["first"] /\ asks'["again"] = asks["again"]
        /\ asks'["analysis"] = NotAsked /\ asks'["recommendation"] = NotAsked
        /\ asks' \in [Requests -> [at: Progress, brings: Nat]]
    BY <1>2, <1>6, <2>1 DEF PanelTypes, Progress, NotAsked
  <2>3. PanelTypes'
    BY <1>1, <1>2, <1>4, <2>1, <2>2 DEF PanelTypes
  <2>4. asks["again"].at = "none"
    BY <1>1 DEF PanelInv, PanelRuns
  <2>5. PanelRuns'
    BY <1>1, <1>4, <1>5, <1>8, <2>1, <2>2, <2>4 DEF PanelRuns, NotAsked
  <2>6. RecordKept'
    BY <1>4, <1>8 DEF RecordKept
  <2>7. Brought' /\ NobodyWaits'
    BY <1>1, <1>6, <2>2 DEF PanelInv, Brought, NobodyWaits, NotAsked
  <2>8. QED
    BY <1>1, <1>4, <2>3, <2>5, <2>6, <2>7 DEF PanelInv
<1>9. QED
  BY <1>7, <1>8

LEMMA HistoryKeeps ==
  ASSUME PanelInv, NEW q \in {"first", "again"}, HistoryArrives(q)
  PROVE  PanelInv'
<1> DEFINE good == asks[q].at = "answered"
<1>1. /\ asks[q].at \in {"answered", "failed"}
      /\ panel' = IF good THEN [panel EXCEPT !.history = asks[q].brings, !.historyError = FALSE]
                          ELSE [panel EXCEPT !.history = Unset, !.historyError = TRUE]
      /\ asks' = [asks EXCEPT ![q] = NotAsked]
      /\ running' = (running /\ q # "again")
      /\ overtaken' = (overtaken \/ (q = "again" /\ asks["first"].at # "none"))
      /\ UNCHANGED <<core, records, run>>
  BY DEF HistoryArrives, Over
<1>2. PanelTypes
  BY DEF PanelInv
<1>3. {"first", "again", "analysis", "recommendation"} = Requests
  BY DEF Requests
<1>4. good => asks[q].brings <= records /\ asks[q].brings \in Nat /\ asks[q].brings # Unset
  BY <1>2, <1>3, PanelAssumption DEF PanelInv, Brought, PanelTypes
<1>5. /\ asks'[q] = NotAsked /\ \A r \in Requests \ {q} : asks'[r] = asks[r]
      /\ asks' \in [Requests -> [at: Progress, brings: Nat]]
  BY <1>1, <1>2, <1>3 DEF PanelTypes, Progress, NotAsked
<1>6. /\ panel'.analysis = panel.analysis /\ panel'.latest = panel.latest
      /\ panel'.runError = panel.runError /\ panel'.guardrailError = panel.guardrailError
      /\ IF good THEN panel'.history = asks[q].brings
                 ELSE panel'.history = Unset /\ panel'.historyError = TRUE
      /\ panel' \in [history: Nat \cup {Unset}, historyError: BOOLEAN,
                     analysis: Nat \cup {Unset}, runError: BOOLEAN,
                     latest: [run: Nat, record: Nat] \cup {Unset}, guardrailError: BOOLEAN]
  BY <1>1, <1>2, <1>4 DEF PanelTypes
<1>7. PanelTypes'
  BY <1>1, <1>2, <1>5, <1>6 DEF PanelTypes
<1>8. Brought' /\ NobodyWaits'
  BY <1>1, <1>3, <1>5 DEF PanelInv, Brought, NobodyWaits, NotAsked
<1>9. CASE q = "first"
  <2>1. /\ asks'["again"] = asks["again"] /\ asks'["analysis"] = asks["analysis"]
        /\ asks'["recommendation"] = asks["recommendation"] /\ asks'["first"].at = "none"
        /\ running' = running /\ overtaken' = overtaken
        /\ asks["first"].at # "none"
    BY <1>1, <1>2, <1>3, <1>5, <1>9 DEF NotAsked, PanelTypes
  <2>2. PanelRuns'
    BY <1>1, <1>6, <2>1 DEF PanelInv, PanelRuns
  <2>3. RecordKept'
    BY <1>1, <1>6, <2>1 DEF PanelInv, RecordKept
  <2>4. QED
    BY <1>1, <1>4, <1>6, <1>7, <1>8, <2>2, <2>3 DEF PanelInv
<1>10. CASE q = "again"
  <2>1. /\ asks'["again"].at = "none" /\ asks'["analysis"] = asks["analysis"]
        /\ asks'["recommendation"] = asks["recommendation"] /\ asks'["first"] = asks["first"]
        /\ running' = FALSE
        /\ overtaken' = (overtaken \/ asks["first"].at # "none")
        /\ asks["again"].at # "none"
    BY <1>1, <1>2, <1>3, <1>5, <1>10 DEF NotAsked, PanelTypes
  <2>2. PanelRuns'
    BY <1>1, <1>6, <2>1 DEF PanelInv, PanelRuns
  <2>3. RecordKept'
    BY <1>1, <1>4, <1>6, <1>10, <2>1 DEF PanelInv, RecordKept
  <2>4. QED
    BY <1>1, <1>4, <1>6, <1>7, <1>8, <2>2, <2>3 DEF PanelInv
<1>11. QED
  BY <1>9, <1>10

LEMMA StepPanel == PanelInv /\ [PanelNext]_panelVars => PanelInv'
<1> SUFFICES ASSUME PanelInv, [PanelNext]_panelVars
             PROVE  PanelInv'
  OBVIOUS
<1>1. CASE UNCHANGED panelVars
  BY <1>1 DEF PanelInv, PanelTypes, PanelRuns, RecordKept, Brought, NobodyWaits, panelVars
<1>2. CASE PanelNext
  BY <1>2, CoreKeeps, ServerStepKeeps, OthersKeep, ClickKeeps, SettleRunKeeps, HistoryKeeps
  DEF PanelNext
<1>3. QED
  BY <1>1, <1>2

(* However requests fail, wait for the core, and overtake each other, for  *)
(* any number of runs and of records of others: what the page shows is of  *)
(* its last run, its record is in the history shown below unless the first *)
(* reading was overtaken, and nothing waits for a core that nobody loads   *)
(* (recommendations/page.tsx, agentCore.ts).                               *)
THEOREM PanelTruthful == ServicesSpec => []PanelHonest
<1>1. ServicesInit => PanelInv
  BY InitPanel DEF ServicesInit
<1>2. [ServicesNext]_servicesVars => [PanelNext]_panelVars
  BY DEF ServicesNext, servicesVars
<1>3. PanelInv /\ [ServicesNext]_servicesVars => PanelInv'
  BY <1>2, StepPanel
<1>4. QED
  BY <1>1, <1>3, PanelInvHonest, PTL DEF ServicesSpec
-----------------------------------------------------------------------------
(* The price. *)

LEMMA LargerOf ==
  ASSUME NEW a \in Int, NEW b \in Int
  PROVE  Max({a, b}) = IF a < b THEN b ELSE a
<1>1. \A x \in {a, b} : (\A y \in {a, b} : x >= y) => x = IF a < b THEN b ELSE a
  OBVIOUS
<1>2. \E x \in {a, b} : \A y \in {a, b} : x >= y
  OBVIOUS
<1>3. QED
  BY <1>1, <1>2 DEF Max

(* What a quote says of a market, and is worth telling. *)
Sane(q) ==
  /\ q.usd \in 1 .. 999
  /\ \E m \in Markets : /\ m.last = q.usd /\ m.open > 0
                        /\ q.change.num * m.open = (m.last - m.open) * 100 * q.change.den

LEMMA BelowThousand ==
  ASSUME NEW x \in Int, x > 0, x < 1000
  PROVE  x \in 1 .. 999
  OBVIOUS

LEMMA ValidIsSane ==
  ASSUME NEW m \in Markets, m.last \in Int, m.open \in Int, NEW q, Valid(q),
         q = [usd |-> m.last, change |-> [num |-> (m.last - m.open) * 100, den |-> m.open]]
  PROVE  Sane(q)
<1>1. /\ q.usd = m.last /\ q.change.num = (m.last - m.open) * 100 /\ q.change.den = m.open
  OBVIOUS
<1>2. m.last > 0 /\ m.last < 1000 /\ m.open > 0
  BY <1>1 DEF Valid
<1>3. q.usd \in 1 .. 999
  <2>1. m.last \in 1 .. 999
    BY <1>2, BelowThousand
  <2>2. QED
    BY <1>1, <2>1, Zenon
<1>4. q.change.num * m.open = (m.last - m.open) * 100 * q.change.den
  BY <1>1
<1>5. \E n \in Markets : /\ n.last = q.usd /\ n.open > 0
                         /\ q.change.num * n.open = (n.last - n.open) * 100 * q.change.den
  BY <1>1, <1>2, <1>4
<1>6. QED
  BY <1>3, <1>5 DEF Sane

(* Every answer of every provider is in percent by the time it is one.     *)
LEMMA QuotesSane ==
  ASSUME NEW p \in DOMAIN Providers, NEW m \in Markets, Valid(QuoteOf(p, Reported(p, m)))
  PROVE  Sane(QuoteOf(p, Reported(p, m)))
<1> DEFINE by == m.last - m.open
           q == QuoteOf(p, Reported(p, m))
<1>1. m.last \in Int /\ m.open \in Int
  BY MarketAssumption
<1>2. CASE Providers[p] = "percent"
  <2>1. q = [usd |-> m.last, change |-> [num |-> by * 100, den |-> m.open]]
    BY <1>2 DEF QuoteOf, Reported
  <2> HIDE DEF q
  <2>2. QED
    BY <1>1, <2>1, ValidIsSane DEF q
<1>3. CASE Providers[p] = "fraction"
  <2>1. q = [usd |-> m.last, change |-> [num |-> by * 100, den |-> m.open]]
    BY <1>3 DEF QuoteOf, Reported
  <2> HIDE DEF q
  <2>2. QED
    BY <1>1, <2>1, ValidIsSane DEF q
<1>4. CASE Providers[p] \notin {"percent", "fraction"}
  <2>1. q = [usd |-> m.last, change |-> [num |-> by * 100, den |-> Max({0, m.open})]]
    BY <1>4 DEF QuoteOf, Reported
  <2>2. m.open > 0 /\ Max({0, m.open}) = m.open
    BY <1>1, <2>1, LargerOf DEF Valid
  <2>3. q = [usd |-> m.last, change |-> [num |-> by * 100, den |-> m.open]]
    BY <2>1, <2>2
  <2> HIDE DEF q
  <2>4. QED
    BY <1>1, <2>2, <2>3, ValidIsSane DEF q
<1>5. QED
  BY <1>2, <1>3, <1>4

(* A reading in the cache; a request that waits; an answer. *)
Reading(c) == Sane(c.quote) /\ c.at \in Nat /\ c.at <= clock

Waiter(a) ==
  /\ a.at \in Nat /\ a.at <= clock
  /\ a.route = "price" => /\ priceFetch # None /\ priceFetch <= a.at

Answered(q) ==
  /\ Sane(q)
  /\ q.at \in Nat /\ q.shown \in Nat /\ q.shown <= clock
  /\ IF q.stale THEN q.shown - q.at < StaleMax + FetchTimeout ELSE q.shown - q.at < Fresh

PriceInv ==
  /\ clock \in Nat
  /\ priceFetch # None =>
       priceFetch \in Nat /\ priceFetch <= clock /\ clock - priceFetch <= FetchTimeout
  /\ price # None => Reading(price)
  /\ asked = [c \in Clients |-> asked[c]] /\ quoted = [c \in Clients |-> quoted[c]]
  /\ \A c \in Clients : asked[c] # None => Waiter(asked[c])
  /\ \A c \in Clients : quoted[c] # None => Answered(quoted[c])

(* What is told of a reading that is young enough for what it is told as. *)
LEMMA QuotedIsAnswer ==
  ASSUME clock \in Nat, NEW c, Reading(c), NEW stale \in BOOLEAN,
         IF stale THEN clock - c.at < StaleMax + FetchTimeout ELSE clock - c.at < Fresh
  PROVE  Answered(Quoted(c, stale))
<1> DEFINE q == Quoted(c, stale)
<1>1. /\ q.usd = c.quote.usd /\ q.change = c.quote.change /\ q.at = c.at
      /\ q.stale = stale /\ q.shown = clock
  BY DEF Quoted
<1> HIDE DEF q
<1>2. Sane(q)
  <2>1. Sane(c.quote)
    BY DEF Reading
  <2>2. PICK m \in Markets :
          /\ m.last = c.quote.usd /\ m.open > 0
          /\ c.quote.change.num * m.open = (m.last - m.open) * 100 * c.quote.change.den
    BY <2>1 DEF Sane
  <2>3. /\ m.last = q.usd /\ m.open > 0
        /\ q.change.num * m.open = (m.last - m.open) * 100 * q.change.den
    BY <1>1, <2>2, Zenon
  <2>4. q.usd \in 1 .. 999
    <3>1. c.quote.usd \in 1 .. 999
      BY <2>1 DEF Sane
    <3>2. q.usd = c.quote.usd
      BY <1>1
    <3>3. QED
      BY <3>1, <3>2
  <2>5. QED
    BY <2>3, <2>4, Zenon DEF Sane
<1>3. c.at \in Nat
  BY DEF Reading
<1>4. Answered(q)
  BY <1>1, <1>2, <1>3 DEF Answered
<1>5. QED
  BY <1>4 DEF q

LEMMA PriceInvHonest ==
  PriceInv => PriceHonest
<1> SUFFICES ASSUME PriceInv
             PROVE  PriceHonest
  OBVIOUS
<1>1. ASSUME NEW c \in Clients, quoted[c] # None
      PROVE  /\ quoted[c].usd \in 1 .. 999
             /\ \E m \in Markets :
                  /\ m.last = quoted[c].usd /\ m.open > 0
                  /\ quoted[c].change.num * m.open = (m.last - m.open) * 100 * quoted[c].change.den
             /\ IF quoted[c].stale THEN quoted[c].shown - quoted[c].at < StaleMax + FetchTimeout
                                   ELSE quoted[c].shown - quoted[c].at < Fresh
  <2> DEFINE q == quoted[c]
  <2>1. Answered(q)
    BY <1>1 DEF PriceInv
  <2> HIDE DEF q
  <2>2. Sane(q) /\ IF q.stale THEN q.shown - q.at < StaleMax + FetchTimeout ELSE q.shown - q.at < Fresh
    BY <2>1, Zenon DEF Answered
  <2>3. /\ q.usd \in 1 .. 999
        /\ \E m \in Markets : /\ m.last = q.usd /\ m.open > 0
                               /\ q.change.num * m.open = (m.last - m.open) * 100 * q.change.den
    BY <2>2, Zenon DEF Sane
  <2>4. QED
    BY <2>2, <2>3, Zenon DEF q
<1>2. QED
  BY <1>1, Zenon DEF PriceHonest

LEMMA InitPrice ==
  MarketInit => PriceInv
  BY DEF MarketInit, PriceInv

LEMMA GetPriceKeeps ==
  ASSUME PriceInv, NEW c \in Clients, GetPrice(c)
  PROVE  PriceInv'
<1>1. CASE price # None /\ clock - price.at < Fresh
  <2>1. quoted' = [quoted EXCEPT ![c] = Quoted(price, FALSE)]
        /\ UNCHANGED <<asked, priceFetch, clock, price>>
    BY <1>1 DEF GetPrice, ecosystemVars
  <2>2. Answered(Quoted(price, FALSE))
    BY <1>1, QuotedIsAnswer DEF PriceInv
  <2>3. QED
    BY <2>1, <2>2 DEF PriceInv, Reading, Waiter, Answered
<1>2. CASE ~(price # None /\ clock - price.at < Fresh)
  <2>1. /\ asked' = [asked EXCEPT ![c] = [route |-> "price", at |-> clock]]
        /\ priceFetch' = IF priceFetch = None THEN clock ELSE priceFetch
        /\ UNCHANGED <<quoted, clock, price>>
    BY <1>2 DEF GetPrice, ecosystemVars
  <2>2. FetchTimeout \in Nat /\ None \notin Nat
    BY MarketAssumption
  <2>3. QED
    BY <2>1, <2>2 DEF PriceInv, Reading, Waiter, Answered
<1>3. QED
  BY <1>1, <1>2

LEMMA PriceEnds ==
  ASSUME PriceInv, priceFetch # None, Answer("price"), priceFetch' = None, clock' = clock,
         price' = price \/ (price' # None => Reading(price')),
         quoted' = [c \in Clients |-> quoted'[c]],
         \A c \in Clients : quoted'[c] \in {quoted[c], None} \/ Answered(quoted'[c])
  PROVE  PriceInv'
<1>1. \A c \in Clients : asked'[c] # None => asked'[c] = asked[c] /\ asked[c].route # "price"
  BY DEF Answer, Waiting
<1>2. asked' = [c \in Clients |-> asked'[c]]
  BY DEF Answer
<1>3. \A c \in Clients : asked'[c] # None => Waiter(asked[c])'
  BY <1>1 DEF PriceInv, Waiter
<1>4. \A c \in Clients : quoted'[c] # None => Answered(quoted[c])'
  BY DEF PriceInv, Answered
<1>5. price' # None => Reading(price)'
  BY DEF PriceInv, Reading
<1>6. QED
  BY <1>2, <1>3, <1>4, <1>5 DEF PriceInv

LEMMA PriceArrivesKeeps ==
  ASSUME PriceInv, PriceArrives
  PROVE  PriceInv'
<1> DEFINE read(q) == [quote |-> q, at |-> clock]
           told(q) == Quoted(read(q), FALSE)
<1>1. PICK q \in SaneQuotes :
        /\ price' = read(q)
        /\ quoted' = [c \in Clients |-> IF c \in Waiting("price") THEN told(q) ELSE quoted[c]]
  BY DEF PriceArrives
<1>2. Sane(q)
  BY <1>1, QuotesSane DEF SaneQuotes
<1>3. clock \in Nat /\ Fresh \in Nat /\ Fresh > 0
  BY MarketAssumption DEF PriceInv
<1>4. Reading(read(q)) /\ Answered(told(q))
  BY <1>2, <1>3 DEF Reading, Answered, Quoted, Sane
<1> HIDE DEF read, told
<1>5. \A c \in Clients : quoted'[c] \in {quoted[c], None} \/ Answered(quoted'[c])
  BY <1>1, <1>4
<1>6. quoted' = [c \in Clients |-> quoted'[c]]
  BY <1>1
<1>7. priceFetch # None /\ Answer("price") /\ priceFetch' = None /\ clock' = clock
  BY DEF PriceArrives
<1>8. QED
  BY <1>1, <1>4, <1>5, <1>6, <1>7, PriceEnds

LEMMA PriceFailsKeeps ==
  ASSUME PriceInv, PriceFails
  PROVE  PriceInv'
<1> DEFINE told == Quoted(price, TRUE)
<1>1. quoted' = [c \in Clients |-> IF c \notin Waiting("price") THEN quoted[c]
                                  ELSE IF StandsIn(c) THEN told ELSE None]
  BY DEF PriceFails
<1>2. ASSUME NEW c \in Waiting("price"), StandsIn(c)
      PROVE  Answered(told)
  <2>1. asked[c].at \in Nat /\ clock - asked[c].at <= FetchTimeout
    <3>1. Waiter(asked[c]) /\ asked[c].route = "price"
      BY DEF PriceInv, Waiting
    <3>2. QED
      BY <3>1, MarketAssumption DEF Waiter, PriceInv
  <2>2. asked[c].at - price.at < StaleMax /\ Reading(price)
    BY <1>2 DEF StandsIn, PriceInv
  <2>3. clock - price.at < StaleMax + FetchTimeout
    BY <2>1, <2>2, MarketAssumption DEF PriceInv, Reading
  <2>4. QED
    BY <2>2, <2>3, QuotedIsAnswer DEF PriceInv
<1> HIDE DEF told
<1>3. \A c \in Clients : quoted'[c] \in {quoted[c], None} \/ Answered(quoted'[c])
  BY <1>1, <1>2
<1>4. quoted' = [c \in Clients |-> quoted'[c]]
  BY <1>1
<1>5. QED
  BY <1>3, <1>4, PriceEnds DEF PriceFails

LEMMA TickKeepsPrice ==
  ASSUME PriceInv, Tick
  PROVE  PriceInv'
  BY MarketAssumption DEF PriceInv, Tick, priceVars, Reading, Waiter, Answered

(* The ecosystem's route asks with requests of its own, and touches no     *)
(* price.                                                                  *)
LEMMA EcosystemKeepsPrice ==
  ASSUME PriceInv, EcosystemNext, ~Tick
  PROVE  PriceInv'
<1>1. clock' = clock /\ UNCHANGED priceVars
  BY DEF EcosystemNext, GetEcosystem, ContractChecked, TvlChecked, RefreshEnds, Deploy, EcosystemAnswers
<1>2. \/ asked' = asked
      \/ \E c \in Clients : asked' = [asked EXCEPT ![c] = [route |-> "ecosystem", at |-> clock]]
      \/ Answer("ecosystem")
  BY DEF EcosystemNext, GetEcosystem, ContractChecked, TvlChecked, RefreshEnds, Deploy, EcosystemAnswers
<1>3. /\ asked' = [c \in Clients |-> asked'[c]]
      /\ \A c \in Clients : asked'[c] # None => Waiter(asked'[c])
  BY <1>2 DEF PriceInv, Waiter, Answer
<1>4. QED
  BY <1>1, <1>3 DEF PriceInv, priceVars, Waiter, Reading, Answered

LEMMA StepPrice ==
  ASSUME PriceInv, [PriceNext \/ EcosystemNext]_marketVars
  PROVE  PriceInv'
<1>1. CASE UNCHANGED marketVars
  BY <1>1 DEF marketVars, priceVars, PriceInv, Reading, Waiter, Answered
<1>2. QED
  BY <1>1, GetPriceKeeps, PriceArrivesKeeps, PriceFailsKeeps, TickKeepsPrice, EcosystemKeepsPrice
  DEF PriceNext

-----------------------------------------------------------------------------
(* The ecosystem. *)

(* p was not deployed at some moment from t on. *)
MissingSince(p, t) == deployed[p] = None \/ t <= deployed[p]

CheckOK(p) ==
  LET c == checks[p] IN
  /\ c = [at |-> c.at, exists |-> c.exists, tvl |-> c.tvl]
  /\ c.exists \in BOOLEAN \cup {Asked, Failed}
  /\ c.at \in Nat /\ c.at <= clock /\ clock - c.at <= FetchTimeout
  /\ c.exists = FALSE /\ FALSE \notin {Asked, Failed} => MissingSince(p, c.at)

EntryOK(p) ==
  LET e == entries[p] IN
  /\ e.exists \in BOOLEAN \cup {None} /\ e.verifiedAt \in Nat /\ e.verifiedAt <= clock
  /\ e.exists = FALSE /\ e.exists # None => MissingSince(p, e.verifiedAt - FetchTimeout)

ListedOK(p) ==
  LET l == listed[p] IN
  /\ l.shown \in Nat /\ l.shown <= clock
  /\ ~l.exists /\ ~l.unreachable /\ ~l.stale =>
       deployed[p] = None \/ l.shown - deployed[p] < 2 * Fresh + FetchTimeout

FoundInv ==
  /\ clock \in Nat
  /\ deployed \in [Protocols -> Nat \cup {None}]
  /\ \A p \in Protocols : deployed[p] # None => deployed[p] <= clock
  /\ checks = [p \in Protocols |-> checks[p]] /\ entries = [p \in Protocols |-> entries[p]]
  /\ \A p \in Protocols : checks[p] # None => CheckOK(p)
  /\ \A p \in Protocols : entries[p] # None => EntryOK(p)
  /\ listed # None => \A p \in Protocols : ListedOK(p)

LEMMA FoundInvReal ==
  FoundInv => NotFoundIsReal
  BY DEF FoundInv, NotFoundIsReal, ListedOK

LEMMA InitFound ==
  MarketInit => FoundInv
  BY MarketAssumption DEF MarketInit, FoundInv

(* What an answer says is as old as the entries it is made of. *)
LEMMA AnswersOK ==
  ASSUME FoundInv, NEW p \in Protocols, listed' = Listed, clock' = clock, deployed' = deployed
  PROVE  ListedOK(p)'
<1> DEFINE e == CacheOf(p)
           l == Listed[p]
<1>1. l = [exists |-> e.exists = TRUE, unreachable |-> e.exists = None, tvl |-> e.tvl, shown |-> clock,
           stale |-> e.exists # None /\ clock - e.verifiedAt >= 2 * Fresh]
  BY DEF Listed
<1>2. /\ e.exists \in BOOLEAN \cup {None} /\ e.verifiedAt \in Nat
      /\ e.exists = FALSE /\ e.exists # None => MissingSince(p, e.verifiedAt - FetchTimeout)
  BY DEF CacheOf, NoEntry, FoundInv, EntryOK
<1>3. clock \in Nat /\ Fresh \in Nat /\ FetchTimeout \in Nat /\ deployed[p] \in Nat \cup {None}
  BY MarketAssumption DEF FoundInv
<1> HIDE DEF e
<1>4. l.shown = clock
  BY <1>1
<1>5. ASSUME ~l.exists, ~l.unreachable, ~l.stale
      PROVE  deployed[p] = None \/ l.shown - deployed[p] < 2 * Fresh + FetchTimeout
  <2>a. /\ l.exists <=> e.exists = TRUE
        /\ l.unreachable <=> e.exists = None
        /\ l.stale <=> e.exists # None /\ clock - e.verifiedAt >= 2 * Fresh
    <3> HIDE DEF l
    <3>1. QED
      BY <1>1
  <2>1. e.exists # TRUE /\ e.exists # None /\ ~(clock - e.verifiedAt >= 2 * Fresh)
    BY <2>a, <1>5
  <2>2. MissingSince(p, e.verifiedAt - FetchTimeout)
    BY <1>2, <2>1
  <2>3. QED
    BY <1>2, <1>3, <1>4, <2>1, <2>2 DEF MissingSince
<1>6. listed'[p] = l
  OBVIOUS
<1> HIDE DEF l
<1>7. QED
  BY <1>3, <1>4, <1>5, <1>6 DEF ListedOK

LEMMA GetKeepsFound ==
  ASSUME FoundInv, NEW c \in Clients, GetEcosystem(c)
  PROVE  FoundInv'
<1>1. UNCHANGED <<clock, entries, deployed>>
  BY DEF GetEcosystem
<1>2. /\ checks' = [p \in Protocols |-> checks'[p]]
      /\ \A p \in Protocols : checks'[p] # None => CheckOK(p)'
  <2>1. CASE checks' = checks
    BY <1>1, <2>1 DEF FoundInv, CheckOK, MissingSince
  <2>2. CASE checks' = [p \in Protocols |-> NewCheck]
    <3>a. clock \in Nat /\ FetchTimeout \in Nat /\ clock - clock <= FetchTimeout
      BY MarketAssumption DEF FoundInv
    <3>b. \A p \in Protocols : checks'[p] = [at |-> clock, exists |-> Asked, tvl |-> Asked]
      BY <2>2 DEF NewCheck
    <3>1. \A p \in Protocols : CheckOK(p)'
      <4>1. TAKE p \in Protocols
      <4>2. checks'[p].at = clock /\ checks'[p].exists = Asked /\ checks'[p].tvl = Asked
        BY <3>b
      <4>3. checks'[p] = [at |-> checks'[p].at, exists |-> checks'[p].exists, tvl |-> checks'[p].tvl]
        BY <3>b, <4>2
      <4>4. ~(checks'[p].exists = FALSE /\ FALSE \notin {Asked, Failed})
        BY <4>2
      <4>5. checks'[p].at <= clock' /\ clock' - checks'[p].at <= FetchTimeout /\ checks'[p].at \in Nat
        BY <1>1, <3>a, <4>2
      <4>6. checks'[p].exists \in BOOLEAN \cup {Asked, Failed}
        BY <4>2
      <4>7. QED
        BY <4>3, <4>4, <4>5, <4>6 DEF CheckOK
    <3>2. QED
      BY <2>2, <3>1
  <2>3. QED
    BY <2>1, <2>2 DEF GetEcosystem
<1>3. listed' # None => \A p \in Protocols : ListedOK(p)'
  <2>1. CASE listed' = listed
    BY <1>1, <2>1 DEF FoundInv, ListedOK
  <2>2. CASE listed' = Listed
    BY <1>1, <2>2, AnswersOK
  <2>3. QED
    BY <2>1, <2>2 DEF GetEcosystem
<1>4. QED
  BY <1>1, <1>2, <1>3 DEF FoundInv, EntryOK, MissingSince

(* The request's host may say that there is no contract only when there is *)
(* none.                                                                   *)
LEMMA CheckedKeepsFound ==
  ASSUME FoundInv, NEW p \in Protocols, ContractChecked(p) \/ TvlChecked(p)
  PROVE  FoundInv'
<1>1. UNCHANGED <<clock, entries, deployed, listed>>
  BY DEF ContractChecked, TvlChecked
<1>2. checks[p] # None /\ CheckOK(p) /\ deployed[p] \in Nat \cup {None}
  BY DEF ContractChecked, TvlChecked, FoundInv
<1>3. /\ \A r \in Protocols \ {p} : checks'[r] = checks[r]
      /\ checks' = [r \in Protocols |-> checks'[r]]
  BY DEF ContractChecked, TvlChecked, FoundInv
<1>4. CheckOK(p)'
  <2>1. CASE ContractChecked(p)
    <3>1. PICK v \in {deployed[p] # None, Failed} : checks' = [checks EXCEPT ![p].exists = v]
      BY <2>1 DEF ContractChecked, VerifyContract
    <3>2. checks'[p] = [checks[p] EXCEPT !.exists = v]
      BY <3>1 DEF FoundInv
    <3>3. v \in BOOLEAN \cup {Failed} /\ (v = FALSE /\ FALSE # Failed => deployed[p] = None)
      BY <3>1
    <3>4. QED
      BY <1>1, <1>2, <3>2, <3>3 DEF CheckOK, MissingSince
  <2>2. CASE TvlChecked(p)
    <3>1. PICK v \in {TRUE, Failed} : checks' = [checks EXCEPT ![p].tvl = v]
      BY <2>2 DEF TvlChecked
    <3>2. checks'[p] = [checks[p] EXCEPT !.tvl = v]
      BY <3>1 DEF FoundInv
    <3>3. QED
      BY <1>1, <1>2, <3>1, <3>2 DEF CheckOK, MissingSince
  <2>3. QED
    BY <2>1, <2>2
<1>5. \A r \in Protocols \ {p} : checks'[r] # None => CheckOK(r)'
  BY <1>1, <1>3 DEF FoundInv, CheckOK, MissingSince
<1>6. QED
  BY <1>1, <1>3, <1>4, <1>5 DEF FoundInv, EntryOK, ListedOK, MissingSince

LEMMA RefreshKeepsFound ==
  ASSUME FoundInv, NEW p \in Protocols, RefreshEnds(p)
  PROVE  FoundInv'
<1>1. /\ UNCHANGED <<clock, deployed, listed>>
      /\ entries' = [entries EXCEPT ![p] = Refreshed(p)]
      /\ checks' = [checks EXCEPT ![p] = None]
      /\ checks[p] # None /\ checks[p].exists # Asked
  BY DEF RefreshEnds
<1>2. CheckOK(p) /\ clock \in Nat /\ FetchTimeout \in Nat /\ deployed[p] \in Nat \cup {None}
  BY <1>1, MarketAssumption DEF FoundInv
<1> DEFINE e == Refreshed(p)
<1>3. /\ e.exists \in BOOLEAN \cup {None} /\ e.verifiedAt \in Nat /\ e.verifiedAt <= clock
      /\ e.exists = FALSE /\ e.exists # None => MissingSince(p, e.verifiedAt - FetchTimeout)
  <2> DEFINE v == checks[p].exists
  <2>1. CASE v = Failed
    <3>1. e.exists = CacheOf(p).exists /\ e.verifiedAt = CacheOf(p).verifiedAt
      BY <2>1 DEF Refreshed
    <3>2. QED
      BY <1>2, <3>1 DEF CacheOf, NoEntry, FoundInv, EntryOK
  <2>2. CASE v # Failed
    <3>1. e.exists = v /\ e.verifiedAt = clock
      BY <2>2 DEF Refreshed
    <3>2. v \in BOOLEAN
      BY <1>1, <1>2, <2>2 DEF CheckOK
    <3>3. v = FALSE => MissingSince(p, checks[p].at)
      BY <1>1, <1>2, <2>2 DEF CheckOK
    <3>c. checks[p].at \in Nat /\ clock - FetchTimeout <= checks[p].at
      BY <1>2 DEF CheckOK
    <3> HIDE DEF e, v
    <3>4. v = FALSE => MissingSince(p, clock - FetchTimeout)
      BY <1>2, <3>3, <3>c DEF MissingSince
    <3>5. QED
      BY <1>2, <3>1, <3>2, <3>4
  <2>3. QED
    BY <2>1, <2>2
<1>4. EntryOK(p)'
  <2>1. entries'[p] = e
    BY <1>1 DEF FoundInv
  <2> HIDE DEF e
  <2>2. QED
    BY <1>1, <1>3, <2>1 DEF EntryOK, MissingSince, e
<1>5. QED
  BY <1>1, <1>4 DEF FoundInv, EntryOK, CheckOK, ListedOK, MissingSince

LEMMA AnswersKeepFound ==
  ASSUME FoundInv, EcosystemAnswers
  PROVE  FoundInv'
<1>1. UNCHANGED <<clock, entries, checks, deployed>> /\ listed' = Listed
  BY DEF EcosystemAnswers
<1>2. \A p \in Protocols : ListedOK(p)'
  BY <1>1, AnswersOK
<1>3. QED
  BY <1>1, <1>2 DEF FoundInv, EntryOK, CheckOK, MissingSince

(* A contract deployed now was not there before. *)
LEMMA DeployKeepsFound ==
  ASSUME FoundInv, NEW p \in Protocols, Deploy(p)
  PROVE  FoundInv'
<1>1. /\ UNCHANGED <<clock, entries, checks, listed>>
      /\ deployed' = [deployed EXCEPT ![p] = clock]
  BY DEF Deploy
<1>2. clock \in Nat /\ FetchTimeout \in Nat /\ Fresh \in Nat /\ Fresh > 0 /\ None \notin Nat
  BY MarketAssumption DEF FoundInv
<1>3. /\ deployed' \in [Protocols -> Nat \cup {None}]
      /\ \A r \in Protocols : deployed'[r] # None => deployed'[r] <= clock'
      /\ \A r \in Protocols : deployed'[r] = deployed[r] \/ deployed'[r] = clock
  BY <1>1, <1>2 DEF FoundInv
<1>4. \A r \in Protocols, t \in Int : t <= clock /\ MissingSince(r, t) => MissingSince(r, t)'
  BY <1>3 DEF MissingSince
<1>5. \A r \in Protocols : checks'[r] # None => CheckOK(r)'
  <2>1. SUFFICES ASSUME NEW r \in Protocols, checks[r] # None
                 PROVE  CheckOK(r)'
    BY <1>1
  <2>2. CheckOK(r)
    BY <2>1 DEF FoundInv
  <2>3. checks[r].at \in Int
    BY <2>2 DEF CheckOK
  <2>4. QED
    BY <1>1, <1>4, <2>2, <2>3 DEF CheckOK
<1>6. \A r \in Protocols : entries'[r] # None => EntryOK(r)'
  BY <1>1, <1>2, <1>4 DEF FoundInv, EntryOK
<1>7. listed' # None => \A r \in Protocols : ListedOK(r)'
  BY <1>1, <1>2, <1>3 DEF FoundInv, ListedOK
<1>8. QED
  BY <1>1, <1>2, <1>3, <1>5, <1>6, <1>7 DEF FoundInv

LEMMA TickKeepsFound ==
  ASSUME FoundInv, Tick
  PROVE  FoundInv'
<1>1. clock' = clock + 1 /\ UNCHANGED <<entries, checks, deployed, listed>>
  BY DEF Tick, ecosystemVars
<1>2. \A p \in Protocols : checks[p] # None => clock - checks[p].at < FetchTimeout
  BY DEF Tick
<1>3. \A p \in Protocols : checks'[p] # None => CheckOK(p)'
  <2>1. SUFFICES ASSUME NEW p \in Protocols, checks[p] # None
                 PROVE  CheckOK(p)'
    BY <1>1
  <2>2. CheckOK(p) /\ checks[p].at \in Nat /\ clock \in Nat
    BY <2>1 DEF FoundInv, CheckOK
  <2>3. checks[p].at <= clock + 1 /\ (clock + 1) - checks[p].at <= FetchTimeout
    BY <1>2, <2>1, <2>2, MarketAssumption DEF CheckOK
  <2>4. QED
    BY <1>1, <2>2, <2>3 DEF CheckOK, MissingSince
<1>4. QED
  BY <1>1, <1>3 DEF FoundInv, EntryOK, ListedOK, MissingSince

LEMMA StepFound ==
  ASSUME FoundInv, [PriceNext \/ EcosystemNext]_marketVars
  PROVE  FoundInv'
<1>1. CASE clock' = clock /\ UNCHANGED ecosystemVars
  BY <1>1 DEF ecosystemVars, FoundInv, EntryOK, CheckOK, ListedOK, MissingSince
<1>2. CASE PriceNext /\ ~Tick
  BY <1>1, <1>2 DEF PriceNext, GetPrice, PriceArrives, PriceFails
<1>3. CASE UNCHANGED marketVars
  BY <1>1, <1>3 DEF marketVars
<1>4. QED
  BY <1>2, <1>3, GetKeepsFound, CheckedKeepsFound, RefreshKeepsFound, AnswersKeepFound, DeployKeepsFound,
     TickKeepsFound DEF EcosystemNext

-----------------------------------------------------------------------------
(* The strategies page. *)

ListInv ==
  /\ listing # Void => listing \in AllListings
  /\ listLoads \in [good: Nat, failed: Nat, awaited: BOOLEAN]
  /\ listing # Void <=> listLoads.good > 0
  /\ listError => listLoads.failed > 0

LEMMA InitList ==
  ExplorerInit => ListInv
  BY DEF ExplorerInit, ListInv

LEMMA StepList ==
  ASSUME ListInv, [ExplorerNext]_explorerVars
  PROVE  ListInv'
<1>a. listLoads \in [good: Nat, failed: Nat, awaited: BOOLEAN]
  BY DEF ListInv
<1>1. CASE ListArrives
  <2>1. listing' \in AllListings /\ listing' # Void
    BY <1>1, ExplorerAssumption DEF ListArrives
  <2>2. /\ listLoads' = [listLoads EXCEPT !.good = @ + 1, !.awaited = FALSE]
        /\ listError' = FALSE
    BY <1>1 DEF ListArrives
  <2>3. listLoads' = [good |-> listLoads.good + 1, failed |-> listLoads.failed, awaited |-> FALSE]
    BY <1>a, <2>2
  <2>4. /\ listLoads'.good = listLoads.good + 1 /\ listLoads'.failed = listLoads.failed
        /\ listLoads' \in [good: Nat, failed: Nat, awaited: BOOLEAN]
    BY <1>a, <2>3
  <2>5. QED
    BY <1>a, <2>1, <2>2, <2>4 DEF ListInv
<1>2. CASE ListFails
  <2>1. /\ listLoads' = [listLoads EXCEPT !.failed = @ + 1, !.awaited = FALSE]
        /\ listing' = listing
    BY <1>2 DEF ListFails, ListingAfterFailure
  <2>2. listLoads' = [good |-> listLoads.good, failed |-> listLoads.failed + 1, awaited |-> FALSE]
    BY <1>a, <2>1
  <2>3. /\ listLoads'.good = listLoads.good /\ listLoads'.failed = listLoads.failed + 1
        /\ listLoads' \in [good: Nat, failed: Nat, awaited: BOOLEAN]
    BY <1>a, <2>2
  <2>4. QED
    BY <1>a, <2>1, <2>3 DEF ListInv
<1>3. CASE ListAgain
  BY <1>3 DEF ListAgain, ListInv
<1>4. CASE UNCHANGED <<listing, listError, listLoads>>
  BY <1>4 DEF ListInv
<1>5. QED
  BY <1>1, <1>2, <1>3, <1>4 DEF ExplorerNext, explorerVars, OpenDrawer, CloseDrawer, PriceAnswers,
     ValueAnswers, AnalysisArrives, InquiryFails

(* What a card is sorted by. *)
UsdOf(p) == IF listing[p].usd = Void THEN -1 ELSE listing[p].usd

CardBefore(p, q) == UsdOf(p) > UsdOf(q) \/ (UsdOf(p) = UsdOf(q) /\ p < q)

(* The cards are the protocols, each once, in their order. *)
LEMMA CardsArranged ==
  ASSUME listing \in AllListings
  PROVE  /\ Cardinality(Explored) \in Nat
         /\ Cards(Explored) \in [1 .. Cardinality(Explored) -> Explored]
         /\ \A j, k \in 1 .. Cardinality(Explored) : Cards(Explored)[j] = Cards(Explored)[k] => j = k
         /\ \A p \in Explored : \E k \in 1 .. Cardinality(Explored) : Cards(Explored)[k] = p
         /\ \A j, k \in 1 .. Cardinality(Explored) :
              j < k => CardBefore(Cards(Explored)[j], Cards(Explored)[k])
<1> DEFINE n == Cardinality(Explored)
           R == {pq \in Explored \X Explored : CardBefore(pq[1], pq[2])}
           InOrder(s) == \A j, k \in DOMAIN s : j < k => CardBefore(s[j], s[k])
<1>1. IsFiniteSet(Explored) /\ Explored \subseteq Nat
  BY ExplorerAssumption
<1>2. \A p \in Explored : UsdOf(p) \in Int
  BY DEF AllListings, UsdOf
<1>3. \A p, q \in Explored : <<p, q>> \in R <=> CardBefore(p, q)
  OBVIOUS
<1> HIDE DEF R
<1>4. StrictlyOrders(R, Explored)
  BY <1>1, <1>2, <1>3 DEF StrictlyOrders, CardBefore
<1>5. PICK t : Arranges(t, Explored, R)
  BY <1>1, <1>4, ArrangementExists
<1>6. t \in [1 .. n -> Explored] /\ InOrder(t)
  BY <1>3, <1>5 DEF Arranges
<1>7. Cards(Explored) = CHOOSE s \in [1 .. n -> Explored] : InOrder(s)
  BY DEF Cards, CardBefore, UsdOf
<1> DEFINE c == Cards(Explored)
<1>8. c \in [1 .. n -> Explored] /\ InOrder(c)
  <2>1. \E s \in [1 .. n -> Explored] : InOrder(s)
    BY <1>6
  <2> HIDE DEF InOrder, c
  <2>2. QED
    BY <1>7, <2>1 DEF c
<1>9. Arranges(c, Explored, R)
  BY <1>3, <1>8 DEF Arranges
<1>10. \A j, k \in 1 .. n : j < k => CardBefore(c[j], c[k])
  BY <1>8
<1>11. QED
  BY <1>1, <1>4, <1>8, <1>9, <1>10, ArrangementCovers

(* The cards with a reading come first, as many as are counted. *)
LEMMA ReadFirst ==
  ASSUME listing \in AllListings, NEW k \in 1 .. Cardinality(Explored),
         listing[Cards(Explored)[k]].usd = Void
  PROVE  k > Stats.reporting
<1> DEFINE c == Cards(Explored)
           known == {p \in Explored : listing[p].usd # Void}
           n == Cardinality(Explored)
<1>1. /\ n \in Nat /\ c \in [1 .. n -> Explored]
      /\ \A p \in Explored : \E j \in 1 .. n : c[j] = p
      /\ \A i, j \in 1 .. n : i < j => CardBefore(c[i], c[j])
  BY CardsArranged
<1>2. Stats.reporting = Cardinality(known)
  BY DEF Stats
<1>3. \A p \in Explored : listing[p].usd \in Nat \cup {Void}
  BY DEF AllListings
<1> HIDE DEF c, n
<1>4. \A j \in 1 .. n : c[j] \in known => j < k
  <2>1. SUFFICES ASSUME NEW j \in 1 .. n, c[j] \in known, ~(j < k)
                 PROVE  FALSE
    OBVIOUS
  <2>2. j # k
    BY <2>1 DEF c
  <2>3. k \in 1 .. n /\ k < j
    BY <1>1, <2>1, <2>2 DEF n
  <2>4. CardBefore(c[k], c[j])
    BY <1>1, <2>1, <2>3
  <2>5. UsdOf(c[k]) = -1 /\ UsdOf(c[j]) \in Nat
    BY <1>1, <1>3, <2>1 DEF UsdOf, c
  <2>6. QED
    BY <2>4, <2>5 DEF CardBefore
<1> DEFINE before == {j \in 1 .. k - 1 : c[j] \in known}
           f == [j \in before |-> c[j]]
<1>5. k \in Nat /\ k > 0 /\ k <= n
  BY <1>1 DEF n
<1>6. IsFiniteSet(1 .. k - 1) /\ Cardinality(1 .. k - 1) = k - 1
  BY <1>5, FS_Interval
<1>7. IsFiniteSet(before) /\ Cardinality(before) <= k - 1 /\ Cardinality(before) \in Nat
  <2>1. before \in SUBSET (1 .. k - 1)
    OBVIOUS
  <2>2. QED
    BY <1>6, <2>1, FS_Subset, FS_CardinalityType
<1>8. f \in Surjection(before, known)
  <2>1. \A p \in known : \E j \in before : f[j] = p
    <3>1. TAKE p \in known
    <3>2. PICK j \in 1 .. n : c[j] = p
      BY <1>1
    <3>3. j < k
      BY <1>4, <3>2
    <3>4. j \in before
      BY <1>5, <3>2, <3>3
    <3>5. QED
      BY <3>2, <3>4
  <2>2. f \in [before -> known]
    OBVIOUS
  <2>3. QED
    BY <2>1, <2>2 DEF Surjection
<1>9. Cardinality(known) <= Cardinality(before) /\ Cardinality(known) \in Nat
  BY <1>7, <1>8, FS_Surjection, FS_CardinalityType
<1>10. QED
  BY <1>2, <1>5, <1>7, <1>9

(* What a card shows is part of the figure above the cards. *)
LEMMA PartOfCombined ==
  ASSUME listing \in AllListings, NEW p \in Explored, listing[p].usd # Void
  PROVE  listing[p].usd <= Stats.combined
<1> DEFINE known == {q \in Explored : listing[q].usd # Void}
           F == [q \in known |-> listing[q].usd]
<1>1. IsFiniteSet(known)
  BY ExplorerAssumption, FS_Subset
<1>2. F \in [known -> Nat]
  BY DEF AllListings
<1>3. p \in known /\ F[p] = listing[p].usd
  OBVIOUS
<1>4. Stats.combined = SumFunction(F)
  BY <1>3 DEF Stats
<1> HIDE DEF F, known
<1>5. F[p] <= SumFunction(F)
  BY <1>1, <1>2, <1>3, SumNat
<1>6. QED
  BY <1>3, <1>4, <1>5

LEMMA ListInvKept ==
  ListInv => ListKept
<1> SUFFICES ASSUME ListInv
             PROVE  ListKept
  OBVIOUS
<1>1. /\ PageSays = "protocols" <=> listLoads.good > 0
      /\ PageSays = "unreachable" => listLoads.failed > 0
  BY DEF ListInv, PageSays
<1>2. ASSUME listing # Void
      PROVE  LET cards == Cards(Explored) IN
             /\ ToSet(cards) = Explored
             /\ \A k \in DOMAIN cards :
                  LET usd == listing[cards[k]].usd IN
                  IF usd = Void THEN k > Stats.reporting ELSE usd <= Stats.combined
  <2> DEFINE cards == Cards(Explored)
             n == Cardinality(Explored)
  <2>1. listing \in AllListings
    BY <1>2 DEF ListInv
  <2>2. /\ n \in Nat /\ cards \in [1 .. n -> Explored]
        /\ \A p \in Explored : \E k \in 1 .. n : cards[k] = p
    BY <2>1, CardsArranged
  <2>3. \A k \in 1 .. n : /\ listing[cards[k]].usd = Void => k > Stats.reporting
                          /\ listing[cards[k]].usd # Void => listing[cards[k]].usd <= Stats.combined
    BY <2>1, <2>2, ReadFirst, PartOfCombined
  <2> HIDE DEF cards, n
  <2>4. DOMAIN cards = 1 .. n
    BY <2>2
  <2>5. ToSet(cards) = Explored
    BY <2>2, <2>4 DEF ToSet
  <2>6. QED
    BY <2>3, <2>4, <2>5 DEF cards
<1>3. QED
  BY <1>1, <1>2 DEF ListKept

-----------------------------------------------------------------------------
(* The drawer. *)

Inquiries ==
  [of: Explored, at: {"checks", "text", "over"}, price: Nat \cup {Void, Wait},
   tvl: Values \cup {Void, Wait}]

(* What is read of a protocol is of that protocol, and there when the text *)
(* is asked for.                                                           *)
InquiryOK(q) ==
  /\ q \in Inquiries
  /\ q.at = "text" => q.price # Wait /\ q.tvl # Wait
  /\ q.tvl \in Values => q.tvl.of = q.of

(* An analysis has no domain in it but the protocol's, and is of it.       *)
AnalysisOf(a, p) == a.of = p /\ (a.tvl # Void => a.tvl.of = p)

(* The drawer d is of the inquiry q: it waits for it, or shows how it      *)
(* ended.                                                                  *)
DrawerOf(d, q) ==
  /\ q.at # "over" => d.loading /\ ~d.error /\ d.analysis = Void
  /\ q.at = "over" => ~d.loading /\ (d.error <=> d.analysis = Void)
  /\ d.analysis # Void => AnalysisOf(d.analysis, q.of)

DrawerTypes ==
  /\ inquiries \in Seq(Inquiries)
  /\ drawer \in [analysis: Analyses \cup {Void}, error: BOOLEAN, loading: BOOLEAN]
  /\ crossed \in BOOLEAN

DrawerInv ==
  /\ DrawerTypes
  /\ \A i \in DOMAIN inquiries : InquiryOK(inquiries[i])
  /\ drawer.analysis # Void => drawer.analysis.text # "foreign"
  /\ selected # Void => inquiries # <<>>
  /\ ~crossed /\ inquiries # <<>> =>
       /\ \A i \in 1 .. Len(inquiries) - 1 : inquiries[i].at = "over"
       /\ selected # Void => selected.id = inquiries[Len(inquiries)].of
       /\ DrawerOf(drawer, inquiries[Len(inquiries)])

LEMMA InitDrawer ==
  ExplorerInit => DrawerInv
<1> SUFFICES ASSUME ExplorerInit
             PROVE  DrawerInv
  OBVIOUS
<1>1. /\ inquiries = <<>> /\ selected = Void /\ crossed = FALSE
      /\ drawer = [analysis |-> Void, error |-> FALSE, loading |-> FALSE]
  BY DEF ExplorerInit
<1>2. <<>> \in Seq(Inquiries) /\ DOMAIN <<>> = {}
  OBVIOUS
<1>3. drawer.analysis = Void /\ drawer \in [analysis: Analyses \cup {Void}, error: BOOLEAN, loading: BOOLEAN]
  BY <1>1
<1>4. QED
  BY <1>1, <1>2, <1>3 DEF DrawerInv, DrawerTypes

LEMMA DrawerInvHonest ==
  DrawerInv => DrawerOfProtocol
<1> SUFFICES ASSUME DrawerInv
             PROVE  DrawerOfProtocol
  OBVIOUS
<1>1. drawer.analysis # Void => drawer.analysis.text # "foreign"
  BY DEF DrawerInv
<1>2. ASSUME selected # Void, ~crossed
      PROVE  /\ ValueLocked # Void => ValueLocked.of = selected.id
             /\ "analysis" \in Perspective => drawer.analysis.of = selected.id
             /\ Perspective \in {{p} : p \in IF Awaited = {} THEN {"analysis", "unavailable"}
                                                             ELSE {"loading"}}
  <2> DEFINE n == Len(inquiries)
             q == inquiries[n]
  <2>1. n \in Nat /\ n > 0 /\ DOMAIN inquiries = 1 .. n
    BY <1>2 DEF DrawerInv, DrawerTypes
  <2>2. /\ \A i \in 1 .. n - 1 : inquiries[i].at = "over"
        /\ selected.id = q.of
        /\ DrawerOf(drawer, q)
    BY <1>2 DEF DrawerInv
  <2>3. Awaited = {} <=> q.at = "over"
    <3> HIDE DEF n
    <3>1. \A i \in 1 .. n : i = n \/ i \in 1 .. n - 1
      BY <2>1
    <3>2. QED
      BY <2>1, <2>2, <3>1 DEF Awaited
  <2>4. ValueLocked # Void => ValueLocked.of = selected.id
    BY <2>2 DEF ValueLocked, DrawerOf, AnalysisOf
  <2>5. "analysis" \in Perspective => drawer.analysis # Void
    BY DEF Perspective
  <2>6. "analysis" \in Perspective => drawer.analysis.of = selected.id
    BY <2>2, <2>5 DEF DrawerOf, AnalysisOf
  <2>7. CASE q.at = "over"
    <3>1. ~drawer.loading /\ (drawer.error <=> drawer.analysis = Void)
      BY <2>2, <2>7 DEF DrawerOf
    <3>2. Perspective = IF drawer.error THEN {"unavailable"} ELSE {"analysis"}
      BY <3>1 DEF Perspective
    <3>3. QED
      BY <2>3, <2>4, <2>6, <2>7, <3>2
  <2>8. CASE q.at # "over"
    <3>1. drawer.loading /\ ~drawer.error /\ drawer.analysis = Void
      BY <2>2, <2>8 DEF DrawerOf
    <3>2. Perspective = {"loading"}
      BY <3>1 DEF Perspective
    <3>3. QED
      BY <2>3, <2>4, <2>6, <2>8, <3>2
  <2>9. QED
    BY <2>7, <2>8
<1>3. QED
  BY <1>1, <1>2 DEF DrawerOfProtocol

(* A step of one inquiry, i: the others stay as they are, and while        *)
(* nothing is crossed it is the last.                                      *)
LEMMA InquiryStep ==
  ASSUME DrawerInv, NEW i \in Awaited, NEW q, inquiries' = [inquiries EXCEPT ![i] = q],
         InquiryOK(q), q.of = inquiries[i].of, selected' = selected, crossed' = crossed,
         drawer' \in [analysis: Analyses \cup {Void}, error: BOOLEAN, loading: BOOLEAN],
         drawer'.analysis # Void => drawer'.analysis.text # "foreign",
         DrawerOf(drawer, inquiries[i]) => DrawerOf(drawer', q)
  PROVE  DrawerInv'
<1> DEFINE n == Len(inquiries)
<1>1. n \in Nat /\ DOMAIN inquiries = 1 .. n /\ i \in 1 .. n /\ inquiries[i].at # "over"
      /\ inquiries # <<>>
  BY DEF DrawerInv, DrawerTypes, Awaited
<1>2. q \in Inquiries
  BY DEF InquiryOK
<1>3. /\ inquiries' \in Seq(Inquiries) /\ Len(inquiries') = n /\ DOMAIN inquiries' = 1 .. n
      /\ inquiries'[i] = q
      /\ \A j \in 1 .. n : j # i => inquiries'[j] = inquiries[j]
  BY <1>1, <1>2 DEF DrawerInv, DrawerTypes
<1>4. DrawerTypes'
  BY <1>3 DEF DrawerInv, DrawerTypes
<1>5. \A j \in 1 .. n : InquiryOK(inquiries'[j])
  BY <1>1, <1>3 DEF DrawerInv
<1>6. ASSUME ~crossed
      PROVE  /\ \A j \in 1 .. n - 1 : inquiries'[j].at = "over"
             /\ selected # Void => selected.id = inquiries'[n].of
             /\ DrawerOf(drawer', inquiries'[n])
  <2>1. /\ \A j \in 1 .. n - 1 : inquiries[j].at = "over"
        /\ selected # Void => selected.id = inquiries[n].of
        /\ DrawerOf(drawer, inquiries[n])
    BY <1>1, <1>6 DEF DrawerInv
  <2> HIDE DEF n
  <2>2. i = n
    BY <1>1, <2>1
  <2>3. QED
    BY <1>1, <1>3, <2>1, <2>2
<1>7. inquiries' # <<>>
  BY <1>1, <1>3
<1>8. QED
  BY <1>3, <1>4, <1>5, <1>6, <1>7 DEF DrawerInv

(* What one of the reads makes of an inquiry. *)
Checked(now) ==
  [now EXCEPT !.at = IF Wait \in {now.price, now.tvl} THEN "checks" ELSE "text"]

LEMMA InquiryFields ==
  ASSUME NEW q \in Inquiries
  PROVE  /\ q = [of |-> q.of, at |-> q.at, price |-> q.price, tvl |-> q.tvl]
         /\ q.of \in Explored /\ q.at \in {"checks", "text", "over"}
         /\ q.price \in Nat \cup {Void, Wait} /\ q.tvl \in Values \cup {Void, Wait}
  BY DEF Inquiries

LEMMA PriceKnown ==
  ASSUME NEW q, InquiryOK(q), NEW usd \in {1, Void}
  PROVE  LET r == Checked([q EXCEPT !.price = usd]) IN
         InquiryOK(r) /\ r.of = q.of /\ r.at \in {"checks", "text"}
<1> DEFINE now == [q EXCEPT !.price = usd]
           r == Checked(now)
<1>1. /\ q = [of |-> q.of, at |-> q.at, price |-> q.price, tvl |-> q.tvl]
      /\ q.of \in Explored /\ q.tvl \in Values \cup {Void, Wait}
  BY InquiryFields DEF InquiryOK
<1>2. now = [of |-> q.of, at |-> q.at, price |-> usd, tvl |-> q.tvl]
  BY <1>1
<1> HIDE DEF now
<1>3. r = [of |-> q.of, at |-> IF Wait \in {usd, q.tvl} THEN "checks" ELSE "text",
           price |-> usd, tvl |-> q.tvl]
  BY <1>2 DEF Checked
<1> HIDE DEF r
<1>4. /\ r.of = q.of /\ r.price = usd /\ r.tvl = q.tvl /\ r.at \in {"checks", "text"}
      /\ r.at = "text" => usd # Wait /\ q.tvl # Wait
  BY <1>3
<1>5. r \in Inquiries
  BY <1>1, <1>3 DEF Inquiries
<1>6. QED
  BY <1>4, <1>5 DEF InquiryOK, r, now

LEMMA ValueKnown ==
  ASSUME NEW q, InquiryOK(q),
         NEW tvl \in {[of |-> q.of, by |-> "DefiLlama", usd |-> 1], Void}
  PROVE  LET r == Checked([q EXCEPT !.tvl = tvl]) IN
         InquiryOK(r) /\ r.of = q.of /\ r.at \in {"checks", "text"}
<1> DEFINE now == [q EXCEPT !.tvl = tvl]
           r == Checked(now)
<1>1. /\ q = [of |-> q.of, at |-> q.at, price |-> q.price, tvl |-> q.tvl]
      /\ q.of \in Explored /\ q.price \in Nat \cup {Void, Wait}
  BY InquiryFields DEF InquiryOK
<1>2. now = [of |-> q.of, at |-> q.at, price |-> q.price, tvl |-> tvl]
  BY <1>1
<1> HIDE DEF now
<1>3. r = [of |-> q.of, at |-> IF Wait \in {q.price, tvl} THEN "checks" ELSE "text",
           price |-> q.price, tvl |-> tvl]
  BY <1>2 DEF Checked
<1>a. /\ tvl \in Values \cup {Void}
      /\ tvl \in Values => tvl.of = q.of
      /\ Void \notin Values
  BY <1>1, ExplorerAssumption DEF Values
<1> HIDE DEF r
<1>4. /\ r.of = q.of /\ r.price = q.price /\ r.tvl = tvl /\ r.at \in {"checks", "text"}
      /\ r.at = "text" => q.price # Wait /\ tvl # Wait
  BY <1>3
<1>5. r \in Inquiries
  BY <1>1, <1>3, <1>a DEF Inquiries
<1>6. QED
  BY <1>4, <1>5, <1>a DEF InquiryOK, r, now

LEMMA CheckKeepsDrawer ==
  ASSUME DrawerInv, NEW i \in DOMAIN inquiries, PriceAnswers(i) \/ ValueAnswers(i)
  PROVE  DrawerInv'
<1>1. /\ i \in Awaited /\ inquiries[i].at = "checks" /\ InquiryOK(inquiries[i])
      /\ UNCHANGED <<selected, drawer, crossed>>
  BY DEF PriceAnswers, ValueAnswers, Checking, DrawerInv
<1>2. PICK q : /\ inquiries' = [inquiries EXCEPT ![i] = q] /\ InquiryOK(q)
               /\ q.of = inquiries[i].of /\ q.at \in {"checks", "text"}
  <2>1. CASE PriceAnswers(i)
    <3>1. PICK usd \in {1, Void} : CheckEnds(i, [inquiries[i] EXCEPT !.price = usd])
      BY <2>1 DEF PriceAnswers
    <3>2. inquiries' = [inquiries EXCEPT ![i] = Checked([inquiries[i] EXCEPT !.price = usd])]
      BY <3>1 DEF CheckEnds, Checked
    <3>3. QED
      BY <1>1, <3>2, PriceKnown
  <2>2. CASE ValueAnswers(i)
    <3>1. PICK tvl \in {[of |-> inquiries[i].of, by |-> "DefiLlama", usd |-> 1], Void} :
            CheckEnds(i, [inquiries[i] EXCEPT !.tvl = tvl])
      BY <2>2 DEF ValueAnswers
    <3>2. inquiries' = [inquiries EXCEPT ![i] = Checked([inquiries[i] EXCEPT !.tvl = tvl])]
      BY <3>1 DEF CheckEnds, Checked
    <3>3. QED
      BY <1>1, <3>2, ValueKnown
  <2>3. QED
    BY <2>1, <2>2
<1>3. DrawerOf(drawer, inquiries[i]) => DrawerOf(drawer', q)
  BY <1>1, <1>2 DEF DrawerOf
<1>4. /\ drawer' \in [analysis: Analyses \cup {Void}, error: BOOLEAN, loading: BOOLEAN]
      /\ drawer'.analysis # Void => drawer'.analysis.text # "foreign"
  BY <1>1 DEF DrawerInv, DrawerTypes
<1>5. QED
  BY <1>1, <1>2, <1>3, <1>4, InquiryStep

LEMMA OverOK ==
  ASSUME NEW q, InquiryOK(q)
  PROVE  LET r == [q EXCEPT !.at = "over"] IN InquiryOK(r) /\ r.of = q.of /\ r.at = "over"
<1> DEFINE r == [q EXCEPT !.at = "over"]
<1>1. q = [of |-> q.of, at |-> q.at, price |-> q.price, tvl |-> q.tvl]
  BY InquiryFields DEF InquiryOK
<1>2. r = [of |-> q.of, at |-> "over", price |-> q.price, tvl |-> q.tvl]
  BY <1>1
<1> HIDE DEF r
<1>3. r \in Inquiries
  BY <1>2, InquiryFields DEF InquiryOK, Inquiries
<1>4. r.of = q.of /\ r.at = "over" /\ r.tvl = q.tvl
  BY <1>2
<1>5. QED
  BY <1>3, <1>4 DEF InquiryOK, r

LEMMA FailsKeepsDrawer ==
  ASSUME DrawerInv, NEW i \in DOMAIN inquiries, InquiryFails(i)
  PROVE  DrawerInv'
<1> DEFINE q == [inquiries[i] EXCEPT !.at = "over"]
<1>1. /\ i \in Awaited /\ InquiryOK(inquiries[i]) /\ inquiries[i].at # "over"
      /\ UNCHANGED <<selected, crossed>>
      /\ inquiries' = [inquiries EXCEPT ![i] = q]
      /\ drawer' = [drawer EXCEPT !.error = TRUE, !.loading = FALSE]
  BY DEF InquiryFails, DrawerInv, Awaited
<1>2. InquiryOK(q) /\ q.of = inquiries[i].of /\ q.at = "over"
  BY <1>1, OverOK
<1> HIDE DEF q
<1>3. /\ drawer' = [analysis |-> drawer.analysis, error |-> TRUE, loading |-> FALSE]
      /\ drawer.analysis \in Analyses \cup {Void}
  BY <1>1 DEF DrawerInv, DrawerTypes
<1>4. /\ drawer'.analysis = drawer.analysis /\ drawer'.error /\ ~drawer'.loading
      /\ drawer' \in [analysis: Analyses \cup {Void}, error: BOOLEAN, loading: BOOLEAN]
  BY <1>3
<1>5. DrawerOf(drawer, inquiries[i]) => DrawerOf(drawer', q)
  BY <1>1, <1>2, <1>4 DEF DrawerOf
<1>6. drawer'.analysis # Void => drawer'.analysis.text # "foreign"
  BY <1>4 DEF DrawerInv
<1>7. QED
  BY <1>1, <1>2, <1>4, <1>5, <1>6, InquiryStep

LEMMA AnalysisSound ==
  ASSUME NEW i, i \in DOMAIN inquiries, InquiryOK(inquiries[i]), inquiries[i].at = "text",
         NEW said \in Replies
  PROVE  LET a == Analysis(i, said) IN
         a \in Analyses /\ a.text # "foreign" /\ AnalysisOf(a, inquiries[i].of)
<1> DEFINE q == inquiries[i]
           a == Analysis(i, said)
           own == [of |-> q.of, by |-> "model", usd |-> 2]
           text == IF ~ParseAnalysis(said) THEN "fallback"
                   ELSE IF said = "names a domain" THEN "foreign" ELSE "model"
           tvl == IF said = "figures too" THEN own ELSE q.tvl
<1>1. /\ q.of \in Explored /\ q.price \in Nat \cup {Void} /\ q.tvl \in Values \cup {Void}
      /\ q.tvl # Void => q.tvl.of = q.of
  BY InquiryFields DEF InquiryOK
<1>2. a = [of |-> q.of, price |-> q.price, text |-> text, tvl |-> tvl]
  BY DEF Analysis
<1>3. text \in {"fallback", "model"}
  BY DEF ParseAnalysis
<1>4. own \in Values /\ own.of = q.of
  BY <1>1 DEF Values
<1>5. tvl \in Values \cup {Void} /\ (tvl # Void => tvl.of = q.of)
  BY <1>1, <1>4
<1> HIDE DEF a, own, text, tvl, q
<1>6. a \in Analyses
  BY <1>1, <1>2, <1>3, <1>5 DEF Analyses
<1>7. a.text = text /\ a.of = q.of /\ a.tvl = tvl
  BY <1>2
<1>8. QED
  BY <1>3, <1>5, <1>6, <1>7 DEF AnalysisOf, a, q

LEMMA ArrivesKeepsDrawer ==
  ASSUME DrawerInv, NEW i \in DOMAIN inquiries, AnalysisArrives(i)
  PROVE  DrawerInv'
<1> DEFINE q == [inquiries[i] EXCEPT !.at = "over"]
<1>1. /\ i \in Awaited /\ InquiryOK(inquiries[i]) /\ inquiries[i].at = "text"
      /\ UNCHANGED <<selected, crossed>>
      /\ inquiries' = [inquiries EXCEPT ![i] = q]
  BY DEF AnalysisArrives, DrawerInv
<1>2. InquiryOK(q) /\ q.of = inquiries[i].of /\ q.at = "over"
  BY <1>1, OverOK
<1>3. PICK a : /\ drawer' = [drawer EXCEPT !.analysis = a, !.loading = FALSE]
               /\ a \in Analyses /\ a.text # "foreign" /\ AnalysisOf(a, inquiries[i].of)
  <2>1. PICK said \in Replies :
          drawer' = [drawer EXCEPT !.analysis = Analysis(i, said), !.loading = FALSE]
    BY DEF AnalysisArrives
  <2>2. QED
    BY <1>1, <2>1, AnalysisSound
<1> HIDE DEF q
<1>4. drawer' = [analysis |-> a, error |-> drawer.error, loading |-> FALSE] /\ drawer.error \in BOOLEAN
  BY <1>3 DEF DrawerInv, DrawerTypes
<1>5. /\ drawer'.analysis = a /\ drawer'.error = drawer.error /\ ~drawer'.loading
      /\ drawer' \in [analysis: Analyses \cup {Void}, error: BOOLEAN, loading: BOOLEAN]
  BY <1>3, <1>4
<1>6. a # Void
  BY <1>3, ExplorerAssumption
<1>7. DrawerOf(drawer, inquiries[i]) => DrawerOf(drawer', q)
  BY <1>1, <1>2, <1>3, <1>5, <1>6 DEF DrawerOf
<1>8. drawer'.analysis # Void => drawer'.analysis.text # "foreign"
  BY <1>3, <1>5
<1>9. QED
  BY <1>1, <1>2, <1>5, <1>7, <1>8, InquiryStep

LEMMA OpenKeepsDrawer ==
  ASSUME DrawerInv, NEW p \in Explored, OpenDrawer(p)
  PROVE  DrawerInv'
<1> DEFINE n == Len(inquiries)
           q == Inquiry(p)
<1>1. /\ selected' = [id |-> p, card |-> listing[p]]
      /\ drawer' = Emptied
      /\ inquiries' = Append(inquiries, q)
      /\ crossed' = (crossed \/ Awaited # {})
  BY DEF OpenDrawer
<1>2. q \in Inquiries /\ q.of = p /\ q.at = "checks" /\ q.tvl = Wait
  BY DEF Inquiry, Inquiries
<1>3. InquiryOK(q)
  BY <1>2, ExplorerAssumption DEF InquiryOK
<1> HIDE DEF q
<1>4. n \in Nat /\ DOMAIN inquiries = 1 .. n /\ inquiries \in Seq(Inquiries)
  BY DEF DrawerInv, DrawerTypes
<1>5. /\ inquiries' \in Seq(Inquiries) /\ Len(inquiries') = n + 1 /\ DOMAIN inquiries' = 1 .. n + 1
      /\ inquiries'[n + 1] = q
      /\ \A j \in 1 .. n : inquiries'[j] = inquiries[j]
  BY <1>1, <1>2, <1>4
<1>6. /\ drawer'.analysis = Void /\ drawer'.error = FALSE /\ drawer'.loading = TRUE
      /\ drawer' \in [analysis: Analyses \cup {Void}, error: BOOLEAN, loading: BOOLEAN]
  BY <1>1 DEF Emptied
<1>7. DrawerTypes'
  BY <1>1, <1>5, <1>6 DEF DrawerInv, DrawerTypes
<1>8. \A j \in 1 .. n + 1 : InquiryOK(inquiries'[j])
  <2>1. \A j \in 1 .. n + 1 : j = n + 1 \/ j \in 1 .. n
    BY <1>4
  <2>2. QED
    BY <1>3, <1>4, <1>5, <2>1 DEF DrawerInv
<1>9. ASSUME ~crossed'
      PROVE  \A j \in 1 .. n : inquiries'[j].at = "over"
  BY <1>1, <1>4, <1>5, <1>9 DEF Awaited
<1>10. selected'.id = p
  BY <1>1
<1>11. DrawerOf(drawer', q)
  BY <1>2, <1>6 DEF DrawerOf
<1>12. inquiries' # <<>> /\ (n + 1) - 1 = n
  BY <1>4, <1>5
<1>13. QED
  BY <1>2, <1>5, <1>6, <1>7, <1>8, <1>9, <1>10, <1>11, <1>12 DEF DrawerInv

LEMMA StepDrawer ==
  ASSUME DrawerInv, [ExplorerNext]_explorerVars
  PROVE  DrawerInv'
<1>1. CASE UNCHANGED <<inquiries, drawer, crossed>> /\ selected' \in {selected, Void}
  BY <1>1 DEF DrawerInv, DrawerTypes
<1>2. CASE UNCHANGED explorerVars
  BY <1>1, <1>2 DEF explorerVars
<1>3. CASE ListArrives \/ ListFails \/ ListAgain \/ CloseDrawer
  BY <1>1, <1>3 DEF ListArrives, ListFails, ListAgain, CloseDrawer
<1>4. QED
  BY <1>2, <1>3, OpenKeepsDrawer, CheckKeepsDrawer, ArrivesKeepsDrawer, FailsKeepsDrawer DEF ExplorerNext

-----------------------------------------------------------------------------
MarketInv == PriceInv /\ FoundInv /\ ListInv /\ DrawerInv

LEMMA StepMarket ==
  ASSUME MarketInv, [ServicesNext]_servicesVars
  PROVE  MarketInv'
<1>1. [PriceNext \/ EcosystemNext]_marketVars
  BY DEF ServicesNext, servicesVars
<1>2. [ExplorerNext]_explorerVars
  BY DEF ServicesNext, servicesVars
<1>3. QED
  BY <1>1, <1>2, StepPrice, StepFound, StepList, StepDrawer DEF MarketInv

(* For any protocols, providers, markets and ages, any number of clients   *)
(* that share fetches, and any reply of the model: what people are told of *)
(* the market was read, is as old as it says, is counted as shown, and is  *)
(* of the protocol they look at (the two routes and the strategies page).  *)
THEOREM MarketTruthful ==
  ServicesSpec => []MarketHonest
<1>1. ServicesInit => MarketInv
  BY InitPrice, InitFound, InitList, InitDrawer DEF ServicesInit, MarketInv
<1>2. MarketInv => MarketHonest
  BY PriceInvHonest, FoundInvReal, ListInvKept, DrawerInvHonest DEF MarketInv, MarketHonest
<1>3. MarketInv /\ [ServicesNext]_servicesVars => MarketInv'
  BY StepMarket
<1>4. QED
  BY <1>1, <1>2, <1>3, PTL DEF ServicesSpec

-----------------------------------------------------------------------------
(* The feed: what it sorts, cuts and keeps. *)

FeedRows == [n: Nat, time: Nat]

(* What of s is shown is newest first. *)
Falling(s) == \A j, k \in DOMAIN s : j < k => s[j].time >= s[k].time

LEMMA TopIs ==
  ASSUME NEW R, NEW rows \in Seq(R), NEW m \in Nat
  PROVE  /\ Top(rows, m) \in Seq(R)
         /\ DOMAIN Top(rows, m) = 1 .. Len(Top(rows, m))
         /\ Len(Top(rows, m)) = IF m <= Len(rows) THEN m ELSE Len(rows)
         /\ \A k \in DOMAIN Top(rows, m) : k \in DOMAIN rows /\ Top(rows, m)[k] = rows[k]
<1> DEFINE len == Len(rows)
           l == Min({m, len})
<1>1. len \in Nat /\ DOMAIN rows = 1 .. len /\ \A k \in 1 .. len : rows[k] \in R
  OBVIOUS
<1> HIDE DEF len
<1>2. l = IF m <= len THEN m ELSE len
  <2>1. CASE m <= len
    <3>1. \A x \in {m, len} : (\A y \in {m, len} : x <= y) <=> x = m
      BY <1>1, <2>1
    <3>2. QED
      BY <2>1, <3>1 DEF Min
  <2>2. CASE ~(m <= len)
    <3>1. \A x \in {m, len} : (\A y \in {m, len} : x <= y) <=> x = len
      BY <1>1, <2>2
    <3>2. QED
      BY <2>2, <3>1 DEF Min
  <2>3. QED
    BY <2>1, <2>2
<1>3. Top(rows, m) = [k \in 1 .. l |-> rows[k]]
  BY DEF Top, len
<1> HIDE DEF l
<1>4. l \in Nat /\ l <= len
  BY <1>1, <1>2
<1>5. \A k \in 1 .. l : k \in 1 .. len
  BY <1>1, <1>4
<1>6. Top(rows, m) \in Seq(R) /\ Len(Top(rows, m)) = l
  BY <1>1, <1>3, <1>4, <1>5
<1>7. QED
  BY <1>1, <1>2, <1>3, <1>5, <1>6 DEF len

LEMMA AscendingArranges ==
  ASSUME NEW S \in SUBSET Nat, IsFiniteSet(S)
  PROVE  /\ Ascending(S) \in Seq(S) /\ Len(Ascending(S)) = Cardinality(S)
         /\ \A j, k \in DOMAIN Ascending(S) : j < k => Ascending(S)[j] < Ascending(S)[k]
         /\ \A n \in S : \E k \in DOMAIN Ascending(S) : Ascending(S)[k] = n
<1> DEFINE c == Cardinality(S)
           R == {pq \in S \X S : pq[1] < pq[2]}
           InOrder(s) == \A j, k \in DOMAIN s : j < k => s[j] < s[k]
           a == Ascending(S)
<1>1. \A p, q \in S : <<p, q>> \in R <=> p < q
  OBVIOUS
<1> HIDE DEF R
<1>2. StrictlyOrders(R, S)
  BY <1>1 DEF StrictlyOrders
<1>3. PICK t : Arranges(t, S, R)
  BY <1>2, ArrangementExists
<1>4. t \in [1 .. c -> S] /\ InOrder(t)
  BY <1>1, <1>3 DEF Arranges
<1>5. a = CHOOSE s \in [1 .. c -> S] : InOrder(s)
  BY DEF Ascending
<1>6. a \in [1 .. c -> S] /\ InOrder(a)
  <2>1. \E s \in [1 .. c -> S] : InOrder(s)
    BY <1>4
  <2> HIDE DEF InOrder, a
  <2>2. QED
    BY <1>5, <2>1
<1>7. Arranges(a, S, R)
  BY <1>1, <1>6 DEF Arranges
<1>8. /\ c \in Nat
      /\ \A x \in S : \E k \in 1 .. c : a[k] = x
  BY <1>2, <1>7, ArrangementCovers
<1>9. QED
  BY <1>6, <1>8

(* Newest first puts every row in its place. *)
LEMMA NewestArranges ==
  ASSUME NEW rows \in Seq(FeedRows)
  PROVE  /\ Newest(rows) \in Seq(FeedRows) /\ Len(Newest(rows)) = Len(rows)
         /\ Falling(Newest(rows))
         /\ \E o \in [1 .. Len(rows) -> 1 .. Len(rows)] :
              /\ \A k \in 1 .. Len(rows) : \E j \in 1 .. Len(rows) : o[j] = k
              /\ \A k \in 1 .. Len(rows) : Newest(rows)[k] = rows[o[k]]
<1> DEFINE len == Len(rows)
           S == 1 .. len
           Before(j, k) == rows[j].time > rows[k].time \/ (rows[j].time = rows[k].time /\ j < k)
           R == {pq \in S \X S : Before(pq[1], pq[2])}
           InOrder(s) == \A j, k \in DOMAIN s : j < k => Before(s[j], s[k])
           o == CHOOSE s \in [DOMAIN rows -> DOMAIN rows] : InOrder(s)
<1>1. /\ len \in Nat /\ DOMAIN rows = S
      /\ \A k \in S : rows[k] \in FeedRows /\ rows[k].time \in Nat
      /\ IsFiniteSet(S) /\ Cardinality(S) = len
  <2>1. len \in Nat /\ DOMAIN rows = S /\ \A k \in S : rows[k] \in FeedRows
    OBVIOUS
  <2>2. \A k \in S : rows[k].time \in Nat
    BY <2>1 DEF FeedRows
  <2>3. IsFiniteSet(S) /\ Cardinality(S) = len
    <3>1. len \in Nat
      OBVIOUS
    <3> HIDE DEF len
    <3>2. QED
      BY <3>1, FS_Interval
  <2>4. QED
    BY <2>1, <2>2, <2>3
<1>2. Newest(rows) = [k \in S |-> rows[o[k]]]
  BY <1>1 DEF Newest
<1>3. \A p, q \in S : <<p, q>> \in R <=> Before(p, q)
  OBVIOUS
<1> HIDE DEF R, len
<1>4. StrictlyOrders(R, S)
  BY <1>1, <1>3 DEF StrictlyOrders
<1>5. PICK t : Arranges(t, S, R)
  BY <1>1, <1>4, ArrangementExists
<1>6. t \in [S -> S] /\ InOrder(t)
  BY <1>1, <1>3, <1>5 DEF Arranges
<1>7. o \in [S -> S] /\ InOrder(o)
  <2>1. \E s \in [DOMAIN rows -> DOMAIN rows] : InOrder(s)
    BY <1>1, <1>6
  <2> HIDE DEF InOrder
  <2>2. QED
    BY <1>1, <2>1
<1> HIDE DEF o
<1>8. Arranges(o, S, R)
  BY <1>1, <1>3, <1>7 DEF Arranges
<1>9. \A x \in S : \E k \in S : o[k] = x
  BY <1>1, <1>4, <1>8, ArrangementCovers
<1>10. Newest(rows) \in Seq(FeedRows) /\ Len(Newest(rows)) = len
  BY <1>1, <1>2, <1>7
<1>11. Falling(Newest(rows))
  <2>1. ASSUME NEW j \in S, NEW k \in S, j < k
        PROVE  rows[o[j]].time >= rows[o[k]].time
    <3>1. o[j] \in S /\ o[k] \in S /\ Before(o[j], o[k])
      BY <1>7, <2>1
    <3> DEFINE y == rows[o[j]].time
               z == rows[o[k]].time
    <3>2. y \in Nat /\ z \in Nat /\ (y > z \/ y = z)
      BY <1>1, <3>1
    <3> HIDE DEF y, z
    <3>3. y >= z
      BY <3>2
    <3>4. QED
      BY <3>3 DEF y, z
  <2>2. DOMAIN Newest(rows) = S /\ \A k \in S : Newest(rows)[k] = rows[o[k]]
    BY <1>2
  <2>3. QED
    BY <2>1, <2>2 DEF Falling
<1>12. QED
  BY <1>2, <1>7, <1>9, <1>10, <1>11 DEF len

(* A cut never hides what is newer than something it shows. *)
LEMMA CutShows ==
  ASSUME NEW rows \in Seq(FeedRows), NEW m \in Nat, NEW k \in DOMAIN rows
  PROVE  LET s == Top(Newest(rows), m) IN
         \/ \E j \in DOMAIN s : s[j] = rows[k]
         \/ Len(s) = m /\ \A j \in 1 .. m : s[j].time >= rows[k].time
<1> DEFINE len == Len(rows)
           w == Newest(rows)
           s == Top(w, m)
<1>1. /\ w \in Seq(FeedRows) /\ Len(w) = len /\ Falling(w)
      /\ len \in Nat /\ DOMAIN rows = 1 .. len /\ DOMAIN w = 1 .. len
  BY NewestArranges
<1>2. PICK j \in 1 .. len : w[j] = rows[k]
  <2>1. PICK o \in [1 .. len -> 1 .. len] :
             /\ \A x \in 1 .. len : \E y \in 1 .. len : o[y] = x
             /\ \A x \in 1 .. len : w[x] = rows[o[x]]
    BY NewestArranges
  <2>2. QED
    BY <1>1, <2>1
<1>3. /\ Len(s) = IF m <= len THEN m ELSE len
      /\ DOMAIN s = 1 .. Len(s)
      /\ \A x \in DOMAIN s : x \in 1 .. len /\ s[x] = w[x]
  BY <1>1, TopIs
<1> HIDE DEF len, w, s
<1>4. CASE j <= m
  <2>1. j \in DOMAIN s
    BY <1>1, <1>2, <1>3, <1>4
  <2>2. QED
    BY <1>2, <1>3, <2>1 DEF s, w
<1>5. CASE ~(j <= m)
  <2>1. Len(s) = m
    BY <1>1, <1>2, <1>3, <1>5
  <2>2. \A x \in 1 .. m : s[x].time >= w[j].time
    BY <1>1, <1>2, <1>3, <1>5, <2>1 DEF Falling
  <2>3. QED
    BY <1>2, <2>1, <2>2 DEF s, w
<1>6. QED
  BY <1>4, <1>5

(* If the first m rows are no older than h, so are the m newest. *)
LEMMA CutStaysFull ==
  ASSUME NEW rows \in Seq(FeedRows), NEW m \in Nat, m <= Len(rows), NEW h \in Nat,
         \A k \in 1 .. m : rows[k].time >= h
  PROVE  LET s == Top(Newest(rows), m) IN
         Len(s) = m /\ \A j \in 1 .. m : s[j].time >= h
<1> DEFINE len == Len(rows)
           w == Newest(rows)
           s == Top(w, m)
<1>1. /\ w \in Seq(FeedRows) /\ Len(w) = len /\ Falling(w)
      /\ len \in Nat /\ DOMAIN rows = 1 .. len /\ DOMAIN w = 1 .. len
      /\ \A k \in 1 .. len : w[k].time \in Nat
  <2>1. /\ w \in Seq(FeedRows) /\ Len(w) = len /\ Falling(w)
        /\ len \in Nat /\ DOMAIN rows = 1 .. len
    BY NewestArranges
  <2> HIDE DEF w, len
  <2>2. DOMAIN w = 1 .. len /\ \A k \in 1 .. len : w[k] \in FeedRows
    BY <2>1
  <2>3. \A k \in 1 .. len : w[k].time \in Nat
    BY <2>2 DEF FeedRows
  <2>4. QED
    BY <2>1, <2>2, <2>3
<1>2. PICK o \in [1 .. len -> 1 .. len] :
             /\ \A x \in 1 .. len : \E y \in 1 .. len : o[y] = x
             /\ \A x \in 1 .. len : w[x] = rows[o[x]]
  BY NewestArranges
<1>3. /\ Len(s) = IF m <= len THEN m ELSE len
      /\ DOMAIN s = 1 .. Len(s)
      /\ \A x \in DOMAIN s : x \in 1 .. len /\ s[x] = w[x]
  BY <1>1, TopIs
<1>4. m <= len
  OBVIOUS
<1> HIDE DEF len, w, s
<1>5. ASSUME NEW j \in 1 .. m, ~(s[j].time >= h)
      PROVE  FALSE
  <2> DEFINE At(x) == CHOOSE y \in 1 .. len : o[y] = x
             g == [x \in 1 .. m |-> At(x)]
  <2>1. j \in 1 .. len /\ w[j].time < h
    <3>1. j \in DOMAIN s
      BY <1>1, <1>3, <1>4
    <3>2. j \in 1 .. len /\ s[j] = w[j]
      BY <1>3, <3>1
    <3>3. ~(w[j].time >= h) /\ w[j].time \in Nat
      BY <1>1, <1>5, <3>2
    <3>4. QED
      BY <3>2, <3>3
  <2>2. \A x \in 1 .. len : At(x) \in 1 .. len /\ o[At(x)] = x
    BY <1>2
  <2>3. \A x \in 1 .. m : x \in 1 .. len
    BY <1>1, <1>4
  <2> HIDE DEF At
  <2>4. \A x \in 1 .. m : At(x) \in 1 .. j - 1
    <3>1. SUFFICES ASSUME NEW x \in 1 .. m PROVE At(x) \in 1 .. j - 1
      OBVIOUS
    <3>2. At(x) \in 1 .. len /\ w[At(x)] = rows[x]
      BY <1>2, <2>2, <2>3
    <3>3. w[At(x)].time >= h
      BY <3>2
    <3>4. ~(j < At(x)) /\ j # At(x)
      <4>1. ~(w[j].time >= w[At(x)].time)
        <5>1. w[j].time \in Nat /\ w[At(x)].time \in Nat
          BY <1>1, <2>1, <3>2
        <5>2. QED
          BY <2>1, <3>3, <5>1
      <4>2. j < At(x) => w[j].time >= w[At(x)].time
        BY <1>1, <2>1, <3>2 DEF Falling
      <4>3. j = At(x) => w[j].time >= w[At(x)].time
        <5>1. w[j].time \in Nat
          BY <1>1, <2>1
        <5>2. w[j].time >= w[j].time
          BY <5>1
        <5>3. QED
          BY <5>2
      <4>4. QED
        BY <4>1, <4>2, <4>3
    <3>5. QED
      BY <2>1, <3>2, <3>4
  <2>5. g \in Injection(1 .. m, 1 .. j - 1)
    BY <2>2, <2>3, <2>4 DEF Injection, IsInjective
  <2>6. /\ IsFiniteSet(1 .. j - 1) /\ Cardinality(1 .. j - 1) = j - 1
        /\ Cardinality(1 .. m) = m
    <3>1. j - 1 \in Nat /\ m \in Nat /\ 1 <= m
      OBVIOUS
    <3>2. QED
      BY <3>1, FS_Interval
  <2>7. m <= j - 1
    BY <2>5, <2>6, FS_Injection
  <2>8. QED
    BY <1>5, <2>7
<1>6. Len(s) = m
  BY <1>1, <1>3, <1>4
<1>7. QED
  BY <1>5, <1>6 DEF s, w

-----------------------------------------------------------------------------
(* A load of events, over the log as it is. *)

LogOK(log) ==
  /\ log \in Seq([vault: Vaults, by: Accounts, height: Nat])
  /\ \A n \in DOMAIN log : log[n].height = n

Has(l, n) == \E j \in DOMAIN l.got : l.got[j] = n

(* It has every event it wants of those it began with, but the first m.    *)
ReadDownTo(l, log, m) ==
  \A n \in 1 .. l.began : n > m /\ Wanted(l, log[n]) => Has(l, n)

(* With an event it has every later one, and has read them before it.      *)
ReadInOrder(l, log) ==
  \A j \in DOMAIN l.got : l.got[j] <= l.began =>
    /\ \A n \in 1 .. l.began : n > l.got[j] /\ Wanted(l, log[n]) => Has(l, n)
    /\ \/ \E i \in 1 .. j - 1 : l.got[i] = l.got[j]
       \/ \A i \in 1 .. j - 1 : l.got[i] > l.got[j]

LoadOK(l, log) ==
  /\ l \in FeedLoads
  /\ l.began <= Len(log) /\ l.last <= Len(log)
  /\ l.page > 0 => l.began <= l.last
  /\ \A j \in DOMAIN l.got : l.got[j] \in DOMAIN log /\ Wanted(l, log[l.got[j]])
  /\ ReadInOrder(l, log)
  /\ l.chain = "pages" =>
       ReadDownTo(l, log, IF l.page = 0 THEN l.began ELSE l.last - l.page * PageSize)
  /\ l.chain = "times" => ReadDownTo(l, log, l.last - MaxPages[l.scope] * PageSize)

LEMMA LoadFields ==
  ASSUME NEW l \in FeedLoads
  PROVE  /\ l.scope \in {"mine", "vault"} /\ l.viewer \in Accounts
         /\ l.ids \in SUBSET Vaults /\ l.owned \in SUBSET Vaults
         /\ l.page \in Nat /\ l.got \in Seq(Nat)
         /\ l.chain \in {"pages", "times", "over"} /\ l.ai \in {"asked", "over"}
         /\ l.began \in Nat /\ l.last \in Nat
         /\ l = [scope |-> l.scope, viewer |-> l.viewer, ids |-> l.ids, owned |-> l.owned,
                 page |-> l.page, got |-> l.got, chain |-> l.chain, ai |-> l.ai,
                 began |-> l.began, last |-> l.last]
BY DEF FeedLoads

(* The numbers of S follow s in g, the highest first. *)
Extends(g, s, a, S) ==
  /\ g \in Seq(Nat) /\ a \in Nat /\ Len(g) \in Nat /\ a <= Len(g)
  /\ DOMAIN g = 1 .. Len(g)
  /\ \A j \in 1 .. a : g[j] = s[j]
  /\ \A j \in a + 1 .. Len(g) : g[j] \in S
  /\ \A i, j \in a + 1 .. Len(g) : i < j => g[i] > g[j]
  /\ \A n \in S : \E j \in a + 1 .. Len(g) : g[j] = n

(* What is kept of a page is added newest first. *)
LEMMA KeptAdded ==
  ASSUME NEW S \in SUBSET Nat, IsFiniteSet(S), NEW s \in Seq(Nat)
  PROVE  Extends(s \o Reverse(Ascending(S)), s, Len(s), S)
<1> DEFINE up == Ascending(S)
           b == Len(up)
           r == Reverse(up)
           a == Len(s)
           g == s \o r
<1>1. /\ up \in Seq(S) /\ b \in Nat
      /\ DOMAIN up = 1 .. b
      /\ \A j, k \in 1 .. b : j < k => up[j] < up[k]
      /\ \A n \in S : \E k \in 1 .. b : up[k] = n
  BY AscendingArranges
<1>2. r = [k \in 1 .. b |-> up[(b - k) + 1]]
  BY DEF Reverse
<1> HIDE DEF up, b, r
<1>3. \A k \in 1 .. b : (b - k) + 1 \in 1 .. b /\ up[(b - k) + 1] \in S
  BY <1>1
<1>4. r \in Seq(S) /\ Len(r) = b
  BY <1>1, <1>2, <1>3
<1>5. a \in Nat /\ r \in Seq(Nat)
  <2>1. \A k \in 1 .. b : r[k] \in Nat
    BY <1>2, <1>3
  <2>2. r \in [1 .. b -> Nat]
    BY <1>2, <2>1
  <2>3. QED
    BY <1>1, <2>2
<1>6. /\ g \in Seq(Nat) /\ Len(g) = a + b
      /\ \A j \in 1 .. a : g[j] = s[j]
      /\ \A j \in a + 1 .. a + b : g[j] = r[j - a]
  <2>1. g \in Seq(Nat) /\ Len(g) = a + Len(r)
    BY <1>5
  <2>2. \A j \in 1 .. a + Len(r) : g[j] = IF j <= a THEN s[j] ELSE r[j - a]
    BY <1>5
  <2> HIDE DEF g, a
  <2>3. \A j \in 1 .. a : j \in 1 .. a + b /\ j <= a
    BY <1>1, <1>5
  <2>4. \A j \in a + 1 .. a + b : j \in 1 .. a + b /\ ~(j <= a)
    BY <1>1, <1>5
  <2>5. QED
    BY <1>4, <2>1, <2>2, <2>3, <2>4 DEF a
<1> HIDE DEF g, a
<1>7. \A j \in a + 1 .. a + b : j - a \in 1 .. b /\ g[j] = up[(b - (j - a)) + 1]
  <2>1. \A j \in a + 1 .. a + b : j - a \in 1 .. b
    BY <1>1, <1>5
  <2>2. QED
    BY <1>2, <1>6, <2>1
<1>8. \A j \in a + 1 .. a + b : g[j] \in S
  BY <1>3, <1>7
<1>9. ASSUME NEW i \in a + 1 .. a + b, NEW j \in a + 1 .. a + b, i < j
      PROVE  g[i] > g[j]
  <2> DEFINE x == (b - (i - a)) + 1
             y == (b - (j - a)) + 1
  <2>1. x \in 1 .. b /\ y \in 1 .. b /\ y < x /\ g[i] = up[x] /\ g[j] = up[y]
    <3>1. i - a \in 1 .. b /\ j - a \in 1 .. b /\ g[i] = up[x] /\ g[j] = up[y]
      BY <1>6, <1>7, <1>9
    <3>2. i \in Int /\ j \in Int
      BY <1>1, <1>5, <1>9
    <3>3. QED
      BY <1>1, <1>5, <1>9, <3>1, <3>2
  <2> HIDE DEF x, y
  <2>2. up[x] \in S /\ up[y] \in S /\ up[y] < up[x]
    BY <1>1, <2>1
  <2>3. QED
    BY <2>1, <2>2
<1>10. ASSUME NEW n \in S
       PROVE  \E j \in a + 1 .. a + b : g[j] = n
  <2>1. PICK k \in 1 .. b : up[k] = n
    BY <1>1
  <2> DEFINE j == a + ((b - k) + 1)
  <2>2. j \in a + 1 .. a + b /\ (b - (j - a)) + 1 = k
    BY <1>1, <1>5, <2>1
  <2> HIDE DEF j
  <2>3. g[j] = up[k]
    BY <1>7, <2>2
  <2>4. QED
    BY <2>1, <2>2, <2>3
<1>11. /\ DOMAIN g = 1 .. Len(g) /\ Len(g) \in Nat /\ a <= Len(g)
  BY <1>1, <1>5, <1>6
<1>12. QED
  <2>1. Extends(g, s, a, S)
    BY <1>5, <1>6, <1>8, <1>9, <1>10, <1>11 DEF Extends
  <2>2. QED
    BY <2>1 DEF g, a, r, up

(* The log grows at its end. *)
LEMMA GrowthKeepsLoad ==
  ASSUME NEW log, LogOK(log), NEW e, NEW l, LoadOK(l, log)
  PROVE  LoadOK(l, Append(log, e))
<1> DEFINE more == Append(log, e)
           len == Len(log)
<1>1. /\ len \in Nat /\ DOMAIN log = 1 .. len
      /\ Len(more) = len + 1 /\ DOMAIN more = 1 .. len + 1
      /\ \A n \in 1 .. len : more[n] = log[n]
  BY DEF LogOK
<1>2. /\ l \in FeedLoads /\ l.began \in Nat /\ l.last \in Nat /\ l.page \in Nat
      /\ l.began <= len /\ l.last <= len
      /\ \A n \in 1 .. l.began : n \in 1 .. len
  BY <1>1, LoadFields DEF LoadOK
<1> HIDE DEF more, len
<1>3. \A n \in 1 .. l.began : more[n] = log[n]
  BY <1>1, <1>2
<1>4. \A j \in DOMAIN l.got : l.got[j] \in DOMAIN more /\ Wanted(l, more[l.got[j]])
  <2>1. \A j \in DOMAIN l.got : l.got[j] \in 1 .. len /\ Wanted(l, log[l.got[j]])
    BY <1>1 DEF LoadOK
  <2>2. \A n \in 1 .. len : n \in 1 .. len + 1
    BY <1>1
  <2>3. QED
    BY <1>1, <2>1, <2>2
<1>5. ReadInOrder(l, more)
  BY <1>3 DEF LoadOK, ReadInOrder
<1>6. \A m : ReadDownTo(l, log, m) => ReadDownTo(l, more, m)
  BY <1>3 DEF ReadDownTo
<1>7. l.began <= len + 1 /\ l.last <= len + 1
  BY <1>1, <1>2
<1>8. QED
  BY <1>1, <1>2, <1>4, <1>5, <1>6, <1>7 DEF LoadOK, more

(* The numbers on a page. *)
LEMMA PageNumbers ==
  ASSUME NEW newest \in Int
  PROVE  LET page == {n \in 1 .. newest : n > newest - PageSize} IN
         /\ page \in SUBSET Nat /\ IsFiniteSet(page)
         /\ Cardinality(page) < PageSize => newest < PageSize
<1> DEFINE page == {n \in 1 .. newest : n > newest - PageSize}
<1>1. PageSize \in Nat \ {0}
  BY FeedAssumption
<1>2. IsFiniteSet(1 .. newest) /\ page \in SUBSET (1 .. newest)
  BY FS_Interval
<1>3. page \in SUBSET Nat /\ IsFiniteSet(page)
  BY <1>2, FS_Subset
<1>4. ASSUME newest >= PageSize
      PROVE  Cardinality(page) >= PageSize
  <2> DEFINE low == newest - PageSize + 1
  <2>1. low .. newest = page
    BY <1>1, <1>4
  <2>2. low \in Int /\ low <= newest /\ (newest - low) + 1 = PageSize
    BY <1>1
  <2> HIDE DEF low, page
  <2>3. Cardinality(low .. newest) = (newest - low) + 1
    BY <2>2, FS_Interval
  <2>4. QED
    BY <1>1, <2>1, <2>2, <2>3
<1>5. Cardinality(page) \in Nat
  BY <1>3, FS_CardinalityType
<1> HIDE DEF page
<1>6. Cardinality(page) < PageSize => newest < PageSize
  BY <1>1, <1>4, <1>5
<1>7. QED
  BY <1>3, <1>6 DEF page

(* A load with one more page is as good a load. *)
LEMMA PageKeepsLoad ==
  ASSUME NEW log, LogOK(log), NEW l, LoadOK(l, log), l.chain = "pages",
         NEW page, page = {n \in 1 .. (Len(log) - l.page * PageSize) :
                             n > (Len(log) - l.page * PageSize) - PageSize},
         NEW kept, kept = {n \in page : Kept(l, log[n])}
  PROVE  LoadOK([l EXCEPT !.page = @ + 1, !.last = Len(log), !.got = @ \o Reverse(Ascending(kept)),
                          !.chain = IF LastPage(l, page, kept) THEN "times" ELSE "pages"], log)
<1> DEFINE len == Len(log)
           q == l.page * PageSize
           newest == len - q
           got == l.got \o Reverse(Ascending(kept))
           a == Len(l.got)
           chain == IF LastPage(l, page, kept) THEN "times" ELSE "pages"
           r == [l EXCEPT !.page = @ + 1, !.last = len, !.got = got, !.chain = chain]
           Wants(n) == Wanted(l, log[n])
           Had(n) == \E j \in 1 .. a : l.got[j] = n
<1>1. /\ PageSize \in Nat /\ PageSize > 0
      /\ MaxPages.mine \in Nat /\ MaxPages.vault \in Nat
  BY FeedAssumption
<1>2. /\ l \in FeedLoads /\ l.page \in Nat /\ l.began \in Nat /\ l.last \in Nat
      /\ l.got \in Seq(Nat) /\ a \in Nat /\ DOMAIN l.got = 1 .. a
      /\ l.scope \in {"mine", "vault"}
  BY LoadFields DEF LoadOK
<1>3. len \in Nat /\ DOMAIN log = 1 .. len
  BY DEF LogOK
<1>4. l.began <= len /\ l.last <= len /\ (l.page > 0 => l.began <= l.last)
  BY DEF LoadOK
<1>5. q \in Nat /\ (l.page + 1) * PageSize = q + PageSize /\ (l.page = 0 => q = 0)
  BY <1>1, <1>2
<1>6. newest \in Int
  BY <1>3, <1>5
<1>7. /\ page = {n \in 1 .. newest : n > newest - PageSize}
      /\ page \in SUBSET Nat /\ IsFiniteSet(page)
      /\ Cardinality(page) < PageSize => newest < PageSize
  BY <1>6, PageNumbers
<1>8. kept \in SUBSET page /\ kept \in SUBSET Nat /\ IsFiniteSet(kept)
  BY <1>7, FS_Subset
<1>9. \A n : n \in kept <=> n \in page /\ Wants(n)
  BY DEF Kept, Wanted
<1>10. /\ got \in Seq(Nat) /\ Len(got) \in Nat /\ a <= Len(got)
       /\ DOMAIN got = 1 .. Len(got)
       /\ \A j \in 1 .. a : got[j] = l.got[j]
       /\ \A j \in a + 1 .. Len(got) : got[j] \in kept
       /\ \A i, j \in a + 1 .. Len(got) : i < j => got[i] > got[j]
       /\ \A n \in kept : \E j \in a + 1 .. Len(got) : got[j] = n
  <2>1. Extends(got, l.got, a, kept)
    BY <1>2, <1>8, KeptAdded
  <2> HIDE DEF got, a
  <2>2. QED
    BY <2>1 DEF Extends
<1>11. r = [scope |-> l.scope, viewer |-> l.viewer, ids |-> l.ids, owned |-> l.owned,
            page |-> l.page + 1, got |-> got, chain |-> chain, ai |-> l.ai,
            began |-> l.began, last |-> len]
  <2>1. r = [l EXCEPT !.page = l.page + 1, !.last = len, !.got = got, !.chain = chain]
    OBVIOUS
  <2> HIDE DEF got, chain, len, r
  <2>2. l = [scope |-> l.scope, viewer |-> l.viewer, ids |-> l.ids, owned |-> l.owned,
             page |-> l.page, got |-> l.got, chain |-> l.chain, ai |-> l.ai,
             began |-> l.began, last |-> l.last]
    BY <1>2, LoadFields
  <2>3. QED
    BY <2>1, <2>2
<1>12. chain \in {"pages", "times"}
  OBVIOUS
<1> DEFINE high == l.last - q
<1>13. \A n \in 1 .. l.began : n > (IF l.page = 0 THEN l.began ELSE high) /\ Wants(n) => Had(n)
  BY <1>2 DEF LoadOK, ReadDownTo, Has
<1>14. \A j \in 1 .. a : l.got[j] \in 1 .. len /\ Wants(l.got[j])
  BY <1>2, <1>3 DEF LoadOK
<1>15. \A j \in 1 .. a : l.got[j] <= l.began =>
         /\ \A n \in 1 .. l.began : n > l.got[j] /\ Wants(n) => Had(n)
         /\ \/ \E i \in 1 .. j - 1 : l.got[i] = l.got[j]
            \/ \A i \in 1 .. j - 1 : l.got[i] > l.got[j]
  BY <1>2 DEF LoadOK, ReadInOrder, Has
<1>16. LastPage(l, page, kept) => newest < PageSize \/ MaxPages[l.scope] = l.page + 1
  BY <1>7 DEF LastPage
<1> HIDE DEF r, got, chain, len, q, newest, Had, Wants, a
<1>17. \A j \in 1 .. Len(got) : j \in 1 .. a \/ j \in a + 1 .. Len(got)
  BY <1>2, <1>10
<1>18. \A n : Had(n) => \E j \in 1 .. Len(got) : got[j] = n
  <2>1. \A j \in 1 .. a : j \in 1 .. Len(got)
    BY <1>2, <1>10
  <2>2. QED
    BY <1>10, <2>1 DEF Had
<1>19. \A n \in kept : \E j \in 1 .. Len(got) : got[j] = n
  <2>1. \A j \in a + 1 .. Len(got) : j \in 1 .. Len(got)
    BY <1>2, <1>10
  <2>2. QED
    BY <1>10, <2>1
<1>20. \A n \in page : n \in 1 .. len /\ n <= newest /\ n > newest - PageSize
  BY <1>3, <1>5, <1>7 DEF newest
(* Whatever is above the page was had before. *)
<1>21. ASSUME NEW n \in 1 .. l.began, n > newest, Wants(n)
       PROVE  Had(n)
  <2>1. l.page # 0
    BY <1>2, <1>3, <1>4, <1>5, <1>21 DEF newest
  <2>2. n > high
    BY <1>2, <1>3, <1>4, <1>5, <1>21 DEF newest
  <2>3. QED
    BY <1>13, <1>21, <2>1, <2>2
<1>22. ASSUME NEW n \in 1 .. l.began, n > newest - PageSize, Wants(n)
       PROVE  Had(n) \/ n \in kept
  <2>1. n \in Nat /\ n >= 1
    OBVIOUS
  <2>2. n > newest \/ n \in page
    BY <1>1, <1>6, <1>7, <1>22, <2>1
  <2>3. QED
    BY <1>9, <1>21, <1>22, <2>2
<1>23. ASSUME NEW n \in 1 .. l.began, n > newest - PageSize, Wants(n)
       PROVE  \E j \in 1 .. Len(got) : got[j] = n
  BY <1>18, <1>19, <1>22, <1>23
<1>24. /\ r \in FeedLoads /\ r.began = l.began /\ r.last = len /\ r.page = l.page + 1
       /\ r.got = got /\ r.chain = chain /\ r.scope = l.scope
       /\ r.ids = l.ids /\ r.owned = l.owned /\ r.viewer = l.viewer
  BY <1>2, <1>3, <1>10, <1>11, <1>12, LoadFields DEF FeedLoads
<1>25. \A e : Wanted(r, e) <=> Wanted(l, e)
  BY <1>24 DEF Wanted
<1>26. \A n : Wanted(r, log[n]) <=> Wants(n)
  BY <1>25 DEF Wants
<1>27. \A n : Has(r, n) <=> \E j \in 1 .. Len(got) : got[j] = n
  BY <1>10, <1>24 DEF Has
<1>28. \A j \in 1 .. Len(got) : got[j] \in 1 .. len /\ Wants(got[j])
  <2>1. \A j \in a + 1 .. Len(got) : got[j] \in 1 .. len /\ Wants(got[j])
    BY <1>9, <1>10, <1>20
  <2>2. QED
    BY <1>10, <1>14, <1>17, <2>1
<1>29. ReadInOrder(r, log)
  <2>1. SUFFICES ASSUME NEW j \in 1 .. Len(got), got[j] <= l.began
                 PROVE  /\ \A n \in 1 .. l.began : n > got[j] /\ Wants(n) => Has(r, n)
                        /\ \/ \E i \in 1 .. j - 1 : got[i] = got[j]
                           \/ \A i \in 1 .. j - 1 : got[i] > got[j]
    BY <1>10, <1>24, <1>26 DEF ReadInOrder
  <2>2. CASE j \in 1 .. a
    <3>1. \A i \in 1 .. j - 1 : i \in 1 .. a
      BY <1>2, <2>2
    <3>2. got[j] = l.got[j] /\ \A i \in 1 .. j - 1 : got[i] = l.got[i]
      BY <1>10, <2>2, <3>1
    <3>3. QED
      BY <1>15, <1>18, <1>27, <2>1, <2>2, <3>2
  <2>3. CASE j \in a + 1 .. Len(got)
    <3>1. got[j] \in kept /\ got[j] \in Nat /\ got[j] > newest - PageSize /\ got[j] \in 1 .. l.began
      <4>1. got[j] \in kept /\ got[j] \in Nat /\ got[j] \in 1 .. len
        BY <1>8, <1>9, <1>10, <1>20, <2>3
      <4>2. got[j] > newest - PageSize
        BY <1>9, <1>20, <4>1
      <4>3. QED
        BY <1>2, <2>1, <4>1, <4>2
    <3>2. \A n \in 1 .. l.began : n > got[j] /\ Wants(n) => Has(r, n)
      <4>1. \A n \in 1 .. l.began : n > got[j] => n > newest - PageSize
        BY <1>1, <1>2, <1>6, <3>1
      <4>2. QED
        BY <1>23, <1>27, <4>1
    <3>3. CASE Had(got[j])
      <4>1. PICK i \in 1 .. a : l.got[i] = got[j]
        BY <3>3 DEF Had
      <4>2. i \in 1 .. j - 1 /\ got[i] = got[j]
        BY <1>2, <1>10, <2>3, <4>1
      <4>3. QED
        BY <3>2, <4>2
    <3>4. CASE ~Had(got[j])
      <4>1. ASSUME NEW i \in 1 .. j - 1
            PROVE  got[i] > got[j]
        <5>1. CASE i \in 1 .. a
          <6>1. got[i] = l.got[i] /\ l.got[i] \in 1 .. len
            BY <1>10, <1>14, <5>1
          <6>2. got[i] # got[j]
            BY <3>4, <5>1, <6>1 DEF Had
          <6>3. got[i] < got[j] => l.got[i] <= l.began
            BY <1>2, <1>3, <2>1, <3>1, <6>1
          <6>4. ~(got[i] < got[j])
            <7>1. SUFFICES ASSUME got[i] < got[j] PROVE FALSE
              OBVIOUS
            <7>2. \A n \in 1 .. l.began : n > l.got[i] /\ Wants(n) => Had(n)
              BY <1>15, <5>1, <6>3, <7>1
            <7>3. Wants(got[j])
              BY <1>28
            <7>4. got[j] > l.got[i]
              BY <3>1, <6>1, <7>1
            <7>5. QED
              BY <3>1, <3>4, <7>2, <7>3, <7>4
          <6>5. got[i] \in Nat
            BY <6>1
          <6>6. QED
            BY <3>1, <6>2, <6>4, <6>5
        <5>2. CASE i \in a + 1 .. Len(got)
          <6>1. i < j
            BY <1>2, <1>10, <2>1, <4>1
          <6>2. QED
            BY <1>10, <2>3, <5>2, <6>1
        <5>3. i \in 1 .. Len(got)
          BY <1>10
        <5>4. QED
          BY <1>17, <5>1, <5>2, <5>3
      <4>2. QED
        BY <3>2, <4>1
    <3>5. QED
      BY <3>3, <3>4
  <2>4. QED
    BY <1>17, <2>1, <2>2, <2>3
<1>30. r.chain = "pages" => ReadDownTo(r, log, r.last - r.page * PageSize)
  <2>1. r.last - r.page * PageSize = newest - PageSize
    BY <1>1, <1>3, <1>5, <1>24 DEF newest
  <2>2. QED
    BY <1>23, <1>24, <1>26, <1>27, <2>1 DEF ReadDownTo
<1>31. r.chain = "times" => ReadDownTo(r, log, r.last - MaxPages[r.scope] * PageSize)
  <2>1. SUFFICES ASSUME r.chain = "times"
                 PROVE  ReadDownTo(r, log, len - MaxPages[l.scope] * PageSize)
    BY <1>24
  <2>2. newest < PageSize \/ MaxPages[l.scope] = l.page + 1
    BY <1>16, <1>24, <2>1 DEF chain
  <2>3. CASE newest < PageSize
    <3>1. \A n \in 1 .. l.began : n > newest - PageSize
      BY <1>1, <1>2, <1>6, <2>3
    <3>2. QED
      BY <1>23, <1>24, <1>26, <1>27, <3>1 DEF ReadDownTo
  <2>4. CASE MaxPages[l.scope] = l.page + 1
    <3>1. len - MaxPages[l.scope] * PageSize = newest - PageSize
      BY <1>1, <1>3, <1>5, <2>4 DEF newest
    <3>2. QED
      BY <1>23, <1>24, <1>26, <1>27, <3>1 DEF ReadDownTo
  <2>5. QED
    BY <2>2, <2>3, <2>4
<1>32. r.page # 0
  BY <1>2, <1>24
<1>33. LoadOK(r, log)
  BY <1>3, <1>4, <1>10, <1>24, <1>26, <1>28, <1>29, <1>30, <1>31, <1>32 DEF LoadOK
<1>34. QED
  BY <1>33 DEF r, got, chain, len

-----------------------------------------------------------------------------
(* What a load leaves: no row is invented, and what was there is shown, or *)
(* the dashboard is full of what is not older.                             *)

ActivityOK(a, log) ==
  /\ a \in Activities
  /\ a.began <= Len(log)
  /\ \A k \in DOMAIN a.rows :
       LET r == a.rows[k] IN
       r.n \in DOMAIN log /\ Wanted(a, log[r.n]) /\ (r.time = r.n \/ r.n \in a.unread)
  /\ ~a.failed /\ a.unread = {} =>
       \A n \in 1 .. a.began :
         n > a.last - MaxPages[a.scope] * PageSize /\ Wanted(a, log[n]) =>
           \/ \E k \in DOMAIN a.rows : a.rows[k].n = n /\ a.rows[k].time = n
           \/ a.scope = "mine" /\ Len(a.rows) = Limit /\ \A k \in 1 .. Limit : a.rows[k].time >= n

LEMMA ActivityFields ==
  ASSUME NEW a \in Activities
  PROVE  /\ a.scope \in {"mine", "vault"} /\ a.viewer \in Accounts
         /\ a.ids \in SUBSET Vaults /\ a.owned \in SUBSET Vaults
         /\ a.began \in Nat /\ a.last \in Nat /\ a.unread \in SUBSET Nat
         /\ a.failed \in BOOLEAN /\ a.rows \in Seq(FeedRows)
         /\ \A k \in DOMAIN a.rows : a.rows[k] \in FeedRows /\ a.rows[k].n \in Nat /\ a.rows[k].time \in Nat
<1>1. /\ a.scope \in {"mine", "vault"} /\ a.viewer \in Accounts
      /\ a.ids \in SUBSET Vaults /\ a.owned \in SUBSET Vaults
      /\ a.began \in Nat /\ a.last \in Nat /\ a.unread \in SUBSET Nat
      /\ a.failed \in BOOLEAN /\ a.rows \in Seq(FeedRows)
  BY DEF Activities, FeedRows
<1>2. \A k \in DOMAIN a.rows : a.rows[k] \in FeedRows
  BY <1>1
<1>3. QED
  BY <1>1, <1>2 DEF FeedRows

LEMMA GrowthKeepsActivity ==
  ASSUME NEW log, LogOK(log), NEW e, NEW a, ActivityOK(a, log)
  PROVE  ActivityOK(a, Append(log, e))
<1> DEFINE more == Append(log, e)
           len == Len(log)
<1>1. /\ len \in Nat /\ DOMAIN log = 1 .. len
      /\ Len(more) = len + 1 /\ DOMAIN more = 1 .. len + 1
      /\ \A n \in 1 .. len : more[n] = log[n]
  BY DEF LogOK
<1>2. a \in Activities /\ a.began \in Nat /\ a.began <= len
  BY ActivityFields DEF ActivityOK
<1> HIDE DEF more, len
<1>3. \A n \in 1 .. a.began : more[n] = log[n]
  <2>1. \A n \in 1 .. a.began : n \in 1 .. len
    BY <1>1, <1>2
  <2>2. QED
    BY <1>1, <2>1
<1>4. a.began <= len + 1
  BY <1>1, <1>2
<1>5. \A n \in 1 .. len : n \in 1 .. len + 1
  BY <1>1
<1>6. \A k \in DOMAIN a.rows :
        LET r == a.rows[k] IN
        r.n \in DOMAIN more /\ Wanted(a, more[r.n]) /\ (r.time = r.n \/ r.n \in a.unread)
  BY <1>1, <1>5 DEF ActivityOK
<1>7. ~a.failed /\ a.unread = {} =>
       \A n \in 1 .. a.began :
         n > a.last - MaxPages[a.scope] * PageSize /\ Wanted(a, more[n]) =>
           \/ \E k \in DOMAIN a.rows : a.rows[k].n = n /\ a.rows[k].time = n
           \/ a.scope = "mine" /\ Len(a.rows) = Limit /\ \A k \in 1 .. Limit : a.rows[k].time >= n
  BY <1>3 DEF ActivityOK
<1>8. QED
  BY <1>1, <1>2, <1>4, <1>6, <1>7 DEF ActivityOK, more

(* Nothing is shown that was not read. *)
LEMMA OrderedOf ==
  ASSUME NEW rows \in Seq(FeedRows), NEW scope
  PROVE  /\ Ordered(scope, rows) \in Seq(FeedRows)
         /\ \A k \in DOMAIN Ordered(scope, rows) :
              \E j \in DOMAIN rows : Ordered(scope, rows)[k] = rows[j]
<1> DEFINE Of(s, t) == s \in Seq(FeedRows) /\ \A k \in DOMAIN s : \E j \in DOMAIN t : s[k] = t[j]
<1>1. Limit \in Nat
  BY FeedAssumption
<1>2. ASSUME NEW t \in Seq(FeedRows)
      PROVE  Of(Newest(t), t)
  <2>1. /\ Newest(t) \in Seq(FeedRows) /\ Len(Newest(t)) = Len(t)
    BY NewestArranges
  <2>2. PICK o \in [1 .. Len(t) -> 1 .. Len(t)] : \A k \in 1 .. Len(t) : Newest(t)[k] = t[o[k]]
    BY NewestArranges
  <2>3. QED
    BY <2>1, <2>2
<1>3. ASSUME NEW t \in Seq(FeedRows), NEW m \in Nat
      PROVE  Of(Top(t, m), t)
  BY TopIs
<1>4. ASSUME NEW s, NEW t, NEW u, Of(s, t), Of(t, u)
      PROVE  Of(s, u)
  BY <1>4
<1>5. Of(Newest(rows), rows)
  BY <1>2
<1> DEFINE t == Top(rows, 2 * Limit)
           w == Newest(t)
           s == Top(w, Limit)
<1>6. Of(t, rows)
  <2>1. 2 * Limit \in Nat
    BY <1>1
  <2> HIDE DEF Of
  <2>2. QED
    BY <1>3, <2>1
<1>7. Of(w, t)
  <2>1. t \in Seq(FeedRows)
    BY <1>6
  <2> HIDE DEF t, Of
  <2>2. QED
    BY <1>2, <2>1
<1>8. Of(s, w)
  <2>1. w \in Seq(FeedRows)
    BY <1>7
  <2> HIDE DEF w, Of
  <2>2. QED
    BY <1>1, <1>3, <2>1
<1>9. Of(s, rows)
  <2> HIDE DEF s, w, t, Of
  <2>1. Of(s, t)
    BY <1>4, <1>7, <1>8
  <2>2. QED
    BY <1>4, <1>6, <2>1
<1>10. Ordered(scope, rows) \in {Newest(rows), s}
  BY DEF Ordered
<1> HIDE DEF s, w, t
<1>11. QED
  BY <1>5, <1>9, <1>10

TimeOf(n, unread) == IF n \in unread THEN 0 ELSE n

RowsOf(l, unread) == [k \in DOMAIN l.got |-> ChainRow(l.got[k], unread)]

(* The rows of a load, its times looked up. *)
LEMMA ChainRows ==
  ASSUME LogOK(events), NEW l, LoadOK(l, events), NEW unread,
         NEW rows, rows = RowsOf(l, unread)
  PROVE  /\ rows \in Seq(FeedRows) /\ Len(rows) = Len(l.got) /\ DOMAIN rows = DOMAIN l.got
         /\ \A k \in DOMAIN l.got :
              rows[k].n = l.got[k] /\ rows[k].time = TimeOf(l.got[k], unread)
<1> DEFINE a == Len(l.got)
<1>1. l.got \in Seq(Nat) /\ a \in Nat /\ DOMAIN l.got = 1 .. a
  BY LoadFields DEF LoadOK
<1>2. \A k \in 1 .. a : l.got[k] \in Nat /\ events[l.got[k]].height = l.got[k]
  BY <1>1 DEF LoadOK, LogOK
<1> HIDE DEF a
<1>3. /\ rows = [k \in 1 .. a |-> rows[k]]
      /\ \A k \in 1 .. a : rows[k] = [n |-> l.got[k], time |-> TimeOf(l.got[k], unread)]
  BY <1>1, <1>2 DEF ChainRow, TimeOf, RowsOf
<1>4. ASSUME NEW k \in 1 .. a
      PROVE  /\ rows[k] \in FeedRows
             /\ rows[k].n = l.got[k] /\ rows[k].time = TimeOf(l.got[k], unread)
  <2> DEFINE x == l.got[k]
             y == TimeOf(x, unread)
             r == rows[k]
  <2>1. x \in Nat /\ y \in Nat
    BY <1>2 DEF TimeOf
  <2>2. r = [n |-> x, time |-> y]
    BY <1>3
  <2> HIDE DEF r, x, y
  <2>3. r \in FeedRows /\ r.n = x /\ r.time = y
    BY <2>1, <2>2 DEF FeedRows
  <2>4. QED
    BY <2>3 DEF r, x, y
<1>5. rows \in Seq(FeedRows) /\ Len(rows) = a /\ DOMAIN rows = 1 .. a
  BY <1>1, <1>3, <1>4
<1>6. QED
  BY <1>1, <1>4, <1>5 DEF a

(* What the dashboard cuts off is older than what it shows. *)
LEMMA OrderedShows ==
  ASSUME LogOK(events), NEW l, LoadOK(l, events),
         NEW unread, unread = {},
         NEW rows, rows = RowsOf(l, unread),
         NEW n \in 1 .. l.began, Has(l, n)
  PROVE  LET s == Ordered(l.scope, rows) IN
         \/ \E k \in DOMAIN s : s[k].n = n /\ s[k].time = n
         \/ l.scope = "mine" /\ Len(s) = Limit /\ \A k \in 1 .. Limit : s[k].time >= n
<1> DEFINE a == Len(l.got)
           s == Ordered(l.scope, rows)
           t == Top(rows, 2 * Limit)
<1>1. /\ l.got \in Seq(Nat) /\ a \in Nat /\ DOMAIN l.got = 1 .. a /\ \A k \in 1 .. a : l.got[k] \in Nat
      /\ l.began \in Nat
  BY LoadFields DEF LoadOK
<1>2. /\ rows \in Seq(FeedRows) /\ Len(rows) = a /\ DOMAIN rows = 1 .. a
      /\ \A k \in 1 .. a : rows[k].n = l.got[k] /\ rows[k].time = l.got[k]
  <2> HIDE DEF a
  <2>1. /\ rows \in Seq(FeedRows) /\ Len(rows) = Len(l.got) /\ DOMAIN rows = DOMAIN l.got
        /\ \A k \in DOMAIN l.got :
             rows[k].n = l.got[k] /\ rows[k].time = TimeOf(l.got[k], unread)
    BY ChainRows
  <2>2. QED
    BY <1>1, <2>1 DEF a, TimeOf
<1>3. Limit \in Nat /\ Limit > 0
  BY FeedAssumption
<1> HIDE DEF a
<1>4. PICK j \in 1 .. a : l.got[j] = n /\ \A i \in 1 .. j - 1 : l.got[i] # n
  <2> DEFINE J == {j \in 1 .. a : l.got[j] = n}
  <2>1. J \in SUBSET Nat /\ J # {}
    BY <1>1 DEF Has
  <2>2. PICK j \in J : \A i \in J : j <= i
    BY <2>1, LeastElement
  <2>3. ASSUME NEW i \in 1 .. j - 1, l.got[i] = n
        PROVE  FALSE
    <3>1. i \in J /\ ~(j <= i)
      BY <1>1, <2>2, <2>3
    <3>2. QED
      BY <2>2, <3>1
  <2>4. QED
    BY <2>2, <2>3
<1>5. \A i \in 1 .. j - 1 : l.got[i] > n
  <2>1. l.got[j] <= l.began
    BY <1>1, <1>4
  <2>2. QED
    BY <1>1, <1>4, <2>1 DEF LoadOK, ReadInOrder
<1>6. CASE l.scope # "mine"
  <2>1. s = Newest(rows)
    BY <1>6 DEF Ordered
  <2>2. /\ Len(Newest(rows)) = a /\ DOMAIN Newest(rows) = 1 .. a
    BY <1>2, NewestArranges
  <2>3. PICK o \in [1 .. Len(rows) -> 1 .. Len(rows)] :
              /\ \A k \in 1 .. Len(rows) : \E i \in 1 .. Len(rows) : o[i] = k
              /\ \A k \in 1 .. Len(rows) : Newest(rows)[k] = rows[o[k]]
    BY <1>2, NewestArranges
  <2>4. PICK k \in 1 .. a : o[k] = j
    BY <1>2, <2>3
  <2>5. s[k] = rows[j] /\ k \in DOMAIN s
    BY <1>2, <2>1, <2>2, <2>3, <2>4
  <2> HIDE DEF s
  <2>6. s[k].n = n /\ s[k].time = n
    BY <1>2, <1>4, <2>5
  <2>7. QED
    BY <2>5, <2>6 DEF s
<1>7. CASE l.scope = "mine"
  <2>1. s = Top(Newest(t), Limit)
    BY <1>7 DEF Ordered
  <2>2. /\ t \in Seq(FeedRows) /\ DOMAIN t = 1 .. Len(t)
        /\ Len(t) = IF 2 * Limit <= a THEN 2 * Limit ELSE a
        /\ \A k \in DOMAIN t : k \in 1 .. a /\ t[k] = rows[k]
    <3>1. 2 * Limit \in Nat
      BY <1>3
    <3>2. QED
      BY <1>2, <3>1, TopIs
  <2> HIDE DEF t, s
  <2>3. CASE j <= 2 * Limit
    <3>1. j \in DOMAIN t /\ t[j] = rows[j]
      <4>1. j \in 1 .. Len(t)
        BY <1>1, <1>3, <2>2, <2>3
      <4>2. QED
        BY <2>2, <4>1
    <3>2. \/ \E k \in DOMAIN s : s[k] = rows[j]
          \/ Len(s) = Limit /\ \A k \in 1 .. Limit : s[k].time >= rows[j].time
      BY <1>3, <2>1, <2>2, <3>1, CutShows
    <3>3. rows[j].n = n /\ rows[j].time = n
      BY <1>2, <1>4
    <3>4. QED
      BY <1>7, <3>2, <3>3 DEF s
  <2>4. CASE ~(j <= 2 * Limit)
    <3>1. Len(t) = 2 * Limit /\ Limit <= Len(t)
      BY <1>1, <1>3, <2>2, <2>4
    <3>2. ASSUME NEW k \in 1 .. Limit
          PROVE  t[k].time >= n
      <4>1. k \in DOMAIN t /\ k \in 1 .. a /\ k \in 1 .. j - 1
        BY <1>1, <1>3, <2>2, <2>4, <3>1
      <4>2. t[k].time = l.got[k] /\ l.got[k] > n /\ l.got[k] \in Nat
        BY <1>1, <1>2, <1>5, <2>2, <4>1
      <4>3. QED
        BY <4>2
    <3>3. n \in Nat
      OBVIOUS
    <3>4. Len(s) = Limit /\ \A k \in 1 .. Limit : s[k].time >= n
      BY <1>3, <2>1, <2>2, <3>1, <3>2, <3>3, CutStaysFull
    <3>5. QED
      BY <1>7, <3>4 DEF s
  <2>5. QED
    BY <2>3, <2>4
<1>8. QED
  BY <1>6, <1>7

-----------------------------------------------------------------------------
TheLoad == feedLoads[1]

FeedTypes ==
  /\ LogOK(events)
  /\ decided \in AgentRows
  /\ viewer \in Accounts
  /\ treasuries # NotLoaded => treasuries \in [who: Accounts, ids: SUBSET Vaults, owned: SUBSET Vaults]
  /\ feedLoads \in [1 .. MaxFeedLoads -> FeedLoads \cup {NotLoaded}]
  /\ decisions # NotLoaded =>
       decisions \in AgentFeeds

EventsOf(who, ids) == activity # NotLoaded /\ activity.viewer = who /\ activity.ids = ids

DecisionsOf(who, ids) == decisions # NotLoaded /\ decisions.viewer = who /\ decisions.ids = ids

(* One load at a time, of the page that is open. *)
OneLoad ==
  /\ \A i \in DOMAIN feedLoads : i # 1 => feedLoads[i] = NotLoaded
  /\ TheLoad # NotLoaded =>
       /\ LoadOK(TheLoad, events)
       /\ activity # NotLoaded => TheLoad.scope = activity.scope
       /\ TheLoad.chain = "over" => activity # NotLoaded

(* What is shown, or will be, is of the viewer and of the list. *)
LoadsOfViewer ==
  ~OnTab /\ viewer # Nobody /\ treasuries # NotLoaded =>
    LET ids == treasuries.ids IN
    IF ids = {} THEN TheLoad = NotLoaded /\ EventsOf(viewer, {})
    ELSE /\ TheLoad # NotLoaded => TheLoad.viewer = viewer /\ TheLoad.ids = ids
         /\ TheLoad = NotLoaded \/ TheLoad.chain = "over" => EventsOf(viewer, ids)
         /\ TheLoad = NotLoaded \/ TheLoad.ai = "over" => DecisionsOf(viewer, ids)

FeedInv ==
  /\ FeedTypes
  /\ activity # NotLoaded => ActivityOK(activity, events)
  /\ OneLoad
  /\ LoadsOfViewer

LEMMA SlotsOK ==
  ASSUME FeedTypes
  PROVE  /\ DOMAIN feedLoads = 1 .. MaxFeedLoads /\ 1 \in DOMAIN feedLoads
         /\ MaxFeedLoads \in Nat
<1>1. MaxFeedLoads \in Nat /\ MaxFeedLoads >= 1
  BY FeedAssumption
<1>2. DOMAIN feedLoads = 1 .. MaxFeedLoads
  BY DEF FeedTypes
<1>3. QED
  BY <1>1, <1>2

LEMMA TabIs ==
  ASSUME FeedTypes, OneLoad
  PROVE  /\ OnTab <=> \/ TheLoad # NotLoaded /\ TheLoad.scope = "vault"
                      \/ activity # NotLoaded /\ activity.scope = "vault"
BY SlotsOK DEF OnTab, OneLoad, TheLoad

LEMMA AtRestOfViewer ==
  FeedInv => FeedOfViewer
<1>1. SUFFICES ASSUME FeedInv, ~OnTab, viewer # Nobody, treasuries # NotLoaded,
                      \A i \in DOMAIN feedLoads : feedLoads[i] = NotLoaded
               PROVE  /\ activity.viewer = viewer /\ activity.ids = treasuries.ids
                      /\ treasuries.ids # {} =>
                           decisions.viewer = viewer /\ decisions.ids = treasuries.ids
  BY DEF FeedOfViewer
<1>2. TheLoad = NotLoaded
  BY <1>1, SlotsOK DEF FeedInv, TheLoad
<1>3. QED
  BY <1>1, <1>2 DEF FeedInv, LoadsOfViewer, EventsOf, DecisionsOf

(* The rows of events that are merged with those of the agent. *)
Chain == IF activity = NotLoaded THEN <<>> ELSE activity.rows

LEMMA AiRowsOK ==
  ASSUME NEW ai \in AgentRows
  PROVE  [k \in DOMAIN ai |-> AiRow(ai[k])] \in Seq(FeedRows)
<1> DEFINE R == [vault: Vaults, time: Nat]
<1>1. Len(ai) \in Nat /\ DOMAIN ai = 1 .. Len(ai) /\ \A k \in 1 .. Len(ai) : ai[k] \in R
  <2>1. ai \in Seq(R)
    BY DEF AgentRows
  <2> HIDE DEF R
  <2>2. QED
    BY <2>1
<1>2. \A k \in 1 .. Len(ai) : AiRow(ai[k]) \in FeedRows
  BY <1>1 DEF AiRow, FeedRows
<1>3. QED
  BY <1>1, <1>2

LEMMA ShownIs ==
  ASSUME FeedInv
  PROVE  /\ Chain \in Seq(FeedRows)
         /\ \E ai \in Seq(FeedRows) : Feed = Top(Newest(Chain \o ai), Limit)
         /\ \E ai \in Seq(FeedRows) : Rows = Newest(Chain \o ai)
<1>1. Chain \in Seq(FeedRows)
  BY ActivityFields DEF Chain, FeedInv, ActivityOK
<1> DEFINE all == IF decisions = NotLoaded THEN <<>> ELSE decisions.rows
           some == IF decisions = NotLoaded THEN <<>> ELSE Top(decisions.rows, AiRows)
           A == [k \in DOMAIN all |-> AiRow(all[k])]
           S == [k \in DOMAIN some |-> AiRow(some[k])]
<1>2. all \in AgentRows /\ some \in AgentRows
  <2>1. CASE decisions = NotLoaded
    BY <2>1 DEF AgentRows
  <2>2. CASE decisions # NotLoaded
    <3>1. decisions.rows \in AgentRows /\ AiRows \in Nat
      BY <2>2, FeedAssumption DEF FeedInv, FeedTypes, AgentFeeds
    <3>2. Top(decisions.rows, AiRows) \in AgentRows
      BY <3>1, TopIs DEF AgentRows
    <3>3. QED
      BY <2>2, <3>1, <3>2
  <2>3. QED
    BY <2>1, <2>2
<1>3. A \in Seq(FeedRows) /\ S \in Seq(FeedRows)
  <2> HIDE DEF all, some
  <2>1. QED
    BY <1>2, AiRowsOK
<1>4. Feed = Top(Newest(Chain \o S), Limit)
  BY DEF Feed, Chain
<1>5. Rows = Newest(Chain \o A)
  BY DEF Rows, Chain
<1> HIDE DEF A, S
<1>6. QED
  BY <1>1, <1>3, <1>4, <1>5

LEMMA JoinIs ==
  ASSUME NEW s \in Seq(FeedRows), NEW t \in Seq(FeedRows)
  PROVE  /\ s \o t \in Seq(FeedRows) /\ Len(s) \in Nat
         /\ Len(s \o t) \in Nat /\ Len(s) <= Len(s \o t)
         /\ \A k \in 1 .. Len(s) : k \in DOMAIN (s \o t) /\ (s \o t)[k] = s[k]
OBVIOUS

LEMMA FallingNext ==
  ASSUME NEW s \in Seq(FeedRows), Falling(s), NEW k \in DOMAIN s, k > 1
  PROVE  s[k - 1].time >= s[k].time
<1>1. k - 1 \in DOMAIN s /\ k - 1 < k
  OBVIOUS
<1>2. QED
  BY <1>1 DEF Falling

LEMMA TopFalls ==
  ASSUME NEW s \in Seq(FeedRows), Falling(s), NEW m \in Nat
  PROVE  Falling(Top(s, m))
BY TopIs DEF Falling

LEMMA NothingInvented ==
  FeedInv => NoRowInvented
<1> SUFFICES ASSUME FeedInv, activity # NotLoaded
             PROVE  /\ \A k \in DOMAIN activity.rows :
                         LET r == activity.rows[k] IN
                         /\ Wanted(activity, events[r.n])
                         /\ r.time = events[r.n].height \/ r.n \in activity.unread
                    /\ \A k \in DOMAIN RowsShown : k > 1 => RowsShown[k - 1].time >= RowsShown[k].time
  BY DEF NoRowInvented
<1>1. ActivityOK(activity, events) /\ LogOK(events)
  BY DEF FeedInv, FeedTypes
<1>2. \A k \in DOMAIN activity.rows :
        LET r == activity.rows[k] IN
        /\ Wanted(activity, events[r.n])
        /\ r.time = events[r.n].height \/ r.n \in activity.unread
  BY <1>1 DEF ActivityOK, LogOK
<1>3. RowsShown \in Seq(FeedRows) /\ Falling(RowsShown)
  <2>0. Limit \in Nat
    BY FeedAssumption
  <2>1. PICK ai \in Seq(FeedRows) : Feed = Top(Newest(Chain \o ai), Limit)
    BY ShownIs
  <2>2. PICK bi \in Seq(FeedRows) : Rows = Newest(Chain \o bi)
    BY ShownIs
  <2>3. Chain \in Seq(FeedRows)
    BY ShownIs
  <2> DEFINE x == Chain \o ai
             y == Chain \o bi
  <2>4. x \in Seq(FeedRows) /\ y \in Seq(FeedRows)
    BY <2>3
  <2> HIDE DEF x, y
  <2>5. /\ Newest(x) \in Seq(FeedRows) /\ Falling(Newest(x))
        /\ Newest(y) \in Seq(FeedRows) /\ Falling(Newest(y))
    BY <2>4, NewestArranges
  <2>6. Top(Newest(x), Limit) \in Seq(FeedRows) /\ Falling(Top(Newest(x), Limit))
    BY <2>0, <2>5, TopIs, TopFalls
  <2>7. QED
    BY <2>1, <2>2, <2>5, <2>6 DEF x, y, RowsShown
<1>4. QED
  BY <1>2, <1>3, FallingNext

LEMMA NothingMissed ==
  FeedInv => NoGap
<1> SUFFICES ASSUME FeedInv, activity # NotLoaded, ~activity.failed, activity.unread = {},
                    NEW n \in 1 .. activity.began,
                    n > activity.last - MaxPages[activity.scope] * PageSize,
                    Wanted(activity, events[n])
             PROVE  /\ (IF OnTab THEN TabSays ELSE FeedSays) # "no activity yet"
                    /\ \/ \E k \in DOMAIN RowsShown : RowsShown[k].n = n
                       \/ /\ ~OnTab
                          /\ Cardinality({k \in DOMAIN Feed : Feed[k].time >= events[n].height}) >= Limit
  BY DEF NoGap
<1> DEFINE rows == activity.rows
<1>1. /\ LogOK(events) /\ ActivityOK(activity, events)
      /\ Limit \in Nat /\ Limit > 0
  BY FeedAssumption DEF FeedInv, FeedTypes
<1>2. \/ \E k \in DOMAIN rows : rows[k].n = n /\ rows[k].time = n
      \/ activity.scope = "mine" /\ Len(rows) = Limit /\ \A k \in 1 .. Limit : rows[k].time >= n
  BY <1>1 DEF ActivityOK
<1>3. rows \in Seq(FeedRows) /\ Chain = rows
  BY <1>1, ActivityFields DEF ActivityOK, Chain
<1>4. n \in Nat /\ events[n].height = n
  <2>1. activity.began \in Nat /\ activity.began <= Len(events)
    BY <1>1, ActivityFields DEF ActivityOK
  <2>2. DOMAIN events = 1 .. Len(events) /\ Len(events) \in Nat
    BY <1>1 DEF LogOK
  <2>3. n \in DOMAIN events
    BY <2>1, <2>2
  <2>4. QED
    BY <1>1, <2>3 DEF LogOK
<1>5. CASE OnTab
  <2>1. activity.scope = "vault"
    BY <1>5, TabIs DEF FeedInv, OneLoad
  <2>2. PICK k \in DOMAIN rows : rows[k].n = n
    BY <1>2, <2>1
  <2>3. PICK ai \in Seq(FeedRows) : Rows = Newest(rows \o ai)
    BY <1>3, ShownIs
  <2> DEFINE x == rows \o ai
  <2>4. x \in Seq(FeedRows) /\ k \in 1 .. Len(x) /\ x[k] = rows[k]
    BY <1>3, JoinIs
  <2> HIDE DEF x, rows
  <2>5. PICK o \in [1 .. Len(x) -> 1 .. Len(x)] :
              /\ \A j \in 1 .. Len(x) : \E i \in 1 .. Len(x) : o[i] = j
              /\ \A j \in 1 .. Len(x) : Newest(x)[j] = x[o[j]]
    BY <2>4, NewestArranges
  <2>6. PICK i \in 1 .. Len(x) : Newest(x)[i] = x[k]
    <3>1. PICK i \in 1 .. Len(x) : o[i] = k
      BY <2>4, <2>5
    <3>2. Newest(x)[i] = x[k]
      BY <2>5, <3>1
    <3>3. QED
      BY <3>2
  <2>7. DOMAIN Newest(x) = 1 .. Len(x)
    BY <2>4, NewestArranges
  <2>8. i \in DOMAIN Rows /\ Rows[i].n = n /\ Rows # <<>>
    BY <2>2, <2>3, <2>4, <2>6, <2>7 DEF x
  <2>9. TabSays = "rows"
    BY <2>8 DEF TabSays
  <2>10. QED
    BY <1>5, <2>8, <2>9 DEF RowsShown
<1>6. CASE ~OnTab
  <2>1. PICK ai \in Seq(FeedRows) : Feed = Top(Newest(rows \o ai), Limit)
    BY <1>3, ShownIs
  <2> DEFINE x == rows \o ai
  <2>2. /\ x \in Seq(FeedRows) /\ Len(rows) \in Nat /\ Len(x) \in Nat /\ Len(rows) <= Len(x)
        /\ \A k \in 1 .. Len(rows) : k \in DOMAIN x /\ x[k] = rows[k]
    BY <1>3, JoinIs
  <2>3. DOMAIN rows = 1 .. Len(rows)
    BY <1>3
  <2>4. Newest(x) \in Seq(FeedRows)
    BY <2>2, NewestArranges
  <2> HIDE DEF x, rows
  <2>5. Feed = Top(Newest(x), Limit) /\ DOMAIN Feed = 1 .. Len(Feed)
    BY <1>1, <2>1, <2>4, TopIs DEF x
  <2>6. \/ \E j \in DOMAIN Feed : Feed[j].n = n
        \/ Len(Feed) = Limit /\ \A j \in 1 .. Limit : Feed[j].time >= n
    <3>1. CASE \E k \in DOMAIN rows : rows[k].n = n /\ rows[k].time = n
      <4>1. PICK k \in DOMAIN x : x[k].n = n /\ x[k].time = n
        BY <2>2, <2>3, <3>1
      <4>2. \/ \E j \in DOMAIN Feed : Feed[j] = x[k]
            \/ Len(Feed) = Limit /\ \A j \in 1 .. Limit : Feed[j].time >= x[k].time
        BY <1>1, <2>2, <2>5, CutShows
      <4>3. QED
        BY <4>1, <4>2
    <3>2. CASE Len(rows) = Limit /\ \A k \in 1 .. Limit : rows[k].time >= n
      <4>1. Limit <= Len(x) /\ \A k \in 1 .. Limit : x[k].time >= n
        BY <2>2, <3>2
      <4>2. QED
        BY <1>1, <1>4, <2>2, <2>5, <4>1, CutStaysFull
    <3>3. QED
      BY <1>2, <3>1, <3>2 DEF rows
  <2>7. Feed # <<>>
    <3>1. ASSUME Feed = <<>>
          PROVE  FALSE
      <4>1. Len(Feed) = 0 /\ DOMAIN Feed = {}
        BY <3>1
      <4>2. QED
        BY <1>1, <2>6, <4>1
    <3>2. QED
      BY <3>1
  <2>8. FeedSays = "rows"
    BY <2>7 DEF FeedSays
  <2>9. ASSUME Len(Feed) = Limit, \A j \in 1 .. Limit : Feed[j].time >= n
        PROVE  Cardinality({k \in DOMAIN Feed : Feed[k].time >= events[n].height}) >= Limit
    <3>1. {k \in DOMAIN Feed : Feed[k].time >= events[n].height} = 1 .. Limit
      BY <1>4, <2>5, <2>9
    <3>2. Cardinality(1 .. Limit) = Limit
      BY <1>1, FS_Interval
    <3> DEFINE c == Cardinality({k \in DOMAIN Feed : Feed[k].time >= events[n].height})
    <3>3. c = Limit
      BY <3>1, <3>2
    <3> HIDE DEF c
    <3>4. c >= Limit
      BY <1>1, <3>3
    <3>5. QED
      BY <3>4 DEF c
  <2>10. QED
    BY <1>6, <2>6, <2>8, <2>9 DEF RowsShown
<1>7. QED
  BY <1>5, <1>6

LEMMA FeedInvHonest == FeedInv => FeedHonest
BY AtRestOfViewer, NothingInvented, NothingMissed DEF FeedHonest

LEMMA NewLoadOK ==
  ASSUME LogOK(events), NEW scope \in {"mine", "vault"}, NEW who \in Accounts,
         NEW ids \in SUBSET Vaults, NEW owned \in SUBSET Vaults
  PROVE  LET l == NewFeedLoad(scope, who, ids, owned) IN
         /\ LoadOK(l, events) /\ l # NotLoaded /\ l \in FeedLoads
         /\ l.scope = scope /\ l.viewer = who /\ l.ids = ids
         /\ l.chain = "pages" /\ l.ai = "asked"
<1> DEFINE l == NewFeedLoad(scope, who, ids, owned)
           len == Len(events)
<1>1. len \in Nat
  BY DEF LogOK
<1>2. l = [scope |-> scope, viewer |-> who, ids |-> ids, owned |-> owned, page |-> 0, got |-> <<>>,
           chain |-> "pages", ai |-> "asked", began |-> len, last |-> 0]
  BY DEF NewFeedLoad
<1> HIDE DEF l, len
<1>3. l \in FeedLoads
  BY <1>1, <1>2 DEF FeedLoads
<1>4. /\ l.scope = scope /\ l.viewer = who /\ l.ids = ids /\ l.chain = "pages" /\ l.ai = "asked"
      /\ l.page = 0 /\ l.got = <<>> /\ l.began = len /\ l.last = 0
  BY <1>2
<1>5. \A n \in 1 .. len : ~(n > len)
  BY <1>1
<1>6. ReadDownTo(l, events, l.began) /\ ReadInOrder(l, events)
  BY <1>4, <1>5 DEF ReadDownTo, ReadInOrder
<1>7. LoadOK(l, events)
  BY <1>1, <1>3, <1>4, <1>6 DEF LoadOK, len
<1>8. QED
  BY <1>3, <1>4, <1>7, FeedAssumption DEF l

LEMMA ListOfOK ==
  ASSUME LogOK(events), NEW who \in Accounts
  PROVE  ListOf(who) \in [who: Accounts, ids: SUBSET Vaults, owned: SUBSET Vaults]
<1>1. \A k \in DOMAIN events : events[k].vault \in Vaults
  <2> DEFINE R == [vault: Vaults, by: Accounts, height: Nat]
  <2>1. events \in Seq(R)
    BY DEF LogOK
  <2> HIDE DEF R
  <2>2. \A k \in DOMAIN events : events[k] \in R
    BY <2>1
  <2>3. QED
    BY <2>2 DEF R
<1> DEFINE owned == {v \in DOMAIN OwnerOf : OwnerOf[v] = who}
           acted == {events[k].vault : k \in {j \in DOMAIN events : events[j].by = who}}
<1>2. owned \in SUBSET Vaults /\ acted \in SUBSET Vaults
  BY <1>1 DEF Vaults
<1>3. ListOf(who) = [who |-> who, ids |-> owned \cup acted, owned |-> owned]
  BY DEF ListOf
<1> HIDE DEF owned, acted
<1>4. QED
  BY <1>2, <1>3

LEMMA InitFeed ==
  FeedInit => FeedInv
<1> SUFFICES ASSUME FeedInit PROVE FeedInv
  OBVIOUS
<1>1. LogOK(events)
  <2>1. CASE events = <<>>
    BY <2>1 DEF LogOK
  <2>2. CASE events # <<>>
    <3>1. PICK e \in Doings : events = <<[vault |-> e.vault, by |-> e.by, height |-> 1]>>
      BY <2>2 DEF FeedInit
    <3>2. e.vault \in Vaults /\ e.by \in Accounts
      BY FeedAssumption
    <3> DEFINE r == [vault |-> e.vault, by |-> e.by, height |-> 1]
               R == [vault: Vaults, by: Accounts, height: Nat]
    <3>3. r \in R /\ r.height = 1
      BY <3>2
    <3> HIDE DEF r, R
    <3>4. events = <<r>>
      BY <3>1 DEF r
    <3>5. events \in Seq(R) /\ DOMAIN events = {1} /\ events[1] = r
      BY <3>3, <3>4
    <3>6. QED
      BY <3>3, <3>5 DEF LogOK, R
  <2>3. QED
    BY <2>1, <2>2
<1>2. /\ viewer \in Viewers /\ viewer \in Accounts /\ decided \in AgentRows
      /\ activity = NotLoaded /\ decisions = NotLoaded
      /\ treasuries = ListOf(viewer) /\ treasuries.ids # {}
  BY FeedAssumption DEF FeedInit, Accounts, AgentRows
<1>3. treasuries \in [who: Accounts, ids: SUBSET Vaults, owned: SUBSET Vaults]
  BY <1>1, <1>2, ListOfOK
<1>4. treasuries.ids \in SUBSET Vaults /\ treasuries.owned \in SUBSET Vaults
  BY <1>3
<1>5. PICK load \in {NewFeedLoad("mine", viewer, treasuries.ids, treasuries.owned)} \cup
                    {NewFeedLoad("vault", viewer, {v}, {}) : v \in DOMAIN OwnerOf} :
        feedLoads = [i \in 1 .. MaxFeedLoads |-> IF i = 1 THEN load ELSE NotLoaded]
  BY DEF FeedInit
<1>6. /\ LoadOK(load, events) /\ load # NotLoaded /\ load \in FeedLoads
      /\ load.chain = "pages" /\ load.ai = "asked"
      /\ load.scope = "vault" \/ (load.viewer = viewer /\ load.ids = treasuries.ids)
  <2>1. CASE load = NewFeedLoad("mine", viewer, treasuries.ids, treasuries.owned)
    BY <1>1, <1>2, <1>4, <2>1, NewLoadOK
  <2>2. CASE load # NewFeedLoad("mine", viewer, treasuries.ids, treasuries.owned)
    <3>1. PICK v \in Vaults : load = NewFeedLoad("vault", viewer, {v}, {})
      BY <1>5, <2>2 DEF Vaults
    <3>2. {v} \in SUBSET Vaults /\ {} \in SUBSET Vaults
      OBVIOUS
    <3>3. QED
      BY <1>1, <1>2, <3>1, <3>2, NewLoadOK
  <2>3. QED
    BY <2>1, <2>2
<1>7. MaxFeedLoads \in Nat /\ MaxFeedLoads >= 1 /\ 1 \in 1 .. MaxFeedLoads
  BY FeedAssumption
<1>8. /\ feedLoads \in [1 .. MaxFeedLoads -> FeedLoads \cup {NotLoaded}]
      /\ TheLoad = load
      /\ \A i \in DOMAIN feedLoads : i # 1 => feedLoads[i] = NotLoaded
  BY <1>5, <1>6, <1>7 DEF TheLoad
<1>9. FeedTypes
  BY <1>1, <1>2, <1>3, <1>8 DEF FeedTypes
<1>10. OneLoad
  BY <1>2, <1>6, <1>8 DEF OneLoad
<1>11. LoadsOfViewer
  BY <1>2, <1>6, <1>8, <1>9, <1>10, TabIs DEF LoadsOfViewer
<1>12. QED
  BY <1>2, <1>9, <1>10, <1>11 DEF FeedInv

LEMMA EmitsKeeps ==
  ASSUME FeedInv, Emits
  PROVE  FeedInv'
<1>1. PICK e \in Doings :
        events' = Append(events, [vault |-> e.vault, by |-> e.by, height |-> Height + 1])
  BY DEF Emits
<1>2. UNCHANGED <<decided, viewer, treasuries, feedLoads, activity, decisions>>
  BY DEF Emits, shownVars
<1> DEFINE len == Len(events)
           r == [vault |-> e.vault, by |-> e.by, height |-> Height + 1]
           R == [vault: Vaults, by: Accounts, height: Nat]
<1>3. LogOK(events) /\ events \in Seq(R) /\ len \in Nat /\ DOMAIN events = 1 .. len
  BY DEF FeedInv, FeedTypes, LogOK
<1>4. Height = len
  <2>1. CASE events = <<>>
    BY <2>1 DEF Height
  <2>2. CASE events # <<>>
    <3>1. len \in 1 .. len
      BY <1>3, <2>2
    <3>2. QED
      BY <1>3, <2>2, <3>1 DEF Height, Last, LogOK
  <2>3. QED
    BY <2>1, <2>2
<1>5. r \in R /\ r.height = len + 1
  <2>1. e.vault \in Vaults /\ e.by \in Accounts
    BY FeedAssumption
  <2>2. Height + 1 \in Nat
    BY <1>3, <1>4
  <2>3. QED
    BY <1>4, <2>1, <2>2
<1> HIDE DEF r, R
<1>6. /\ events' = Append(events, r) /\ events' \in Seq(R)
      /\ DOMAIN events' = 1 .. len + 1 /\ events'[len + 1] = r
      /\ \A n \in 1 .. len : events'[n] = events[n]
  BY <1>1, <1>3, <1>5 DEF r
<1> HIDE DEF len
<1>7. LogOK(events')
  <2>1. \A n \in 1 .. len + 1 : n \in 1 .. len \/ n = len + 1
    BY <1>3
  <2>2. \A n \in 1 .. len + 1 : events'[n].height = n
    BY <1>3, <1>5, <1>6, <2>1 DEF LogOK
  <2>3. QED
    BY <1>6, <2>2 DEF LogOK, R
<1>8. TheLoad' = TheLoad
  BY <1>2 DEF TheLoad
<1>9. FeedTypes'
  BY <1>2, <1>7 DEF FeedInv, FeedTypes
<1>10. activity' # NotLoaded => ActivityOK(activity', events')
  BY <1>2, <1>3, <1>6, GrowthKeepsActivity DEF FeedInv
<1>11. TheLoad # NotLoaded => LoadOK(TheLoad, events')
  BY <1>3, <1>6, GrowthKeepsLoad DEF FeedInv, OneLoad
<1>12. OneLoad'
  BY <1>2, <1>8, <1>11 DEF FeedInv, OneLoad
<1>13. LoadsOfViewer'
  <2>1. OnTab' <=> OnTab
    BY <1>2 DEF OnTab
  <2>2. QED
    BY <1>2, <1>8, <2>1 DEF FeedInv, LoadsOfViewer, EventsOf, DecisionsOf
<1>14. QED
  BY <1>9, <1>10, <1>12, <1>13 DEF FeedInv

(* The effect of the dashboard. *)
LEMMA EffectKeeps ==
  ASSUME FeedInv, ~OnTab, viewer' \in Accounts,
         treasuries' # NotLoaded =>
           treasuries' \in [who: Accounts, ids: SUBSET Vaults, owned: SUBSET Vaults],
         FeedEffect(viewer', treasuries'), UNCHANGED <<events, decided>>
  PROVE  FeedInv'
<1> DEFINE slots == Cancelled(feedLoads)
           free == {i \in DOMAIN slots : slots[i] = NotLoaded}
           none == treasuries' = NotLoaded \/ treasuries'.ids = {}
           load == NewFeedLoad("mine", viewer', treasuries'.ids, treasuries'.owned)
           empty == [scope |-> "mine", viewer |-> viewer', ids |-> {}, owned |-> {}, began |-> 0,
                     last |-> 0, unread |-> {}, failed |-> FALSE, rows |-> <<>>]
<1>1. /\ FeedTypes /\ LogOK(events) /\ events' = events /\ decided' = decided
      /\ DOMAIN feedLoads = 1 .. MaxFeedLoads /\ 1 \in 1 .. MaxFeedLoads /\ MaxFeedLoads \in Nat
  BY SlotsOK DEF FeedInv, FeedTypes
<1>2. slots = [i \in 1 .. MaxFeedLoads |-> NotLoaded] /\ DOMAIN slots = 1 .. MaxFeedLoads
  BY <1>1 DEF Cancelled
<1>3. free = 1 .. MaxFeedLoads
  BY <1>2
<1>4. Min(free) = 1
  <2>1. \A x \in 1 .. MaxFeedLoads : (\A y \in 1 .. MaxFeedLoads : x =< y) <=> x = 1
    BY <1>1
  <2>2. QED
    BY <1>1, <1>3, <2>1 DEF Min
<1>5. CASE viewer' = Nobody \/ none
  <2>1. /\ decisions' = NotLoaded /\ feedLoads' = slots
        /\ activity' = IF none /\ treasuries' # NotLoaded THEN empty ELSE NotLoaded
    BY <1>5 DEF FeedEffect
  <2>2. TheLoad' = NotLoaded /\ \A i \in DOMAIN feedLoads' : feedLoads'[i] = NotLoaded
    BY <1>1, <1>2, <2>1 DEF TheLoad
  <2>3. /\ empty \in Activities
        /\ empty.scope = "mine" /\ empty.viewer = viewer' /\ empty.ids = {}
        /\ empty.began = 0 /\ empty.rows = <<>>
    BY DEF Activities
  <2> HIDE DEF empty, slots, free, none, load
  <2>4. empty # NotLoaded
    BY <2>3, FeedAssumption
  <2>5. ActivityOK(empty, events)
    <3>1. DOMAIN empty.rows = {} /\ 1 .. empty.began = {}
      BY <2>3
    <3>2. Len(events) \in Nat
      BY <1>1 DEF LogOK
    <3>3. empty.began <= Len(events)
      BY <2>3, <3>2
    <3>4. QED
      BY <2>3, <3>1, <3>3 DEF ActivityOK
  <2>6. FeedTypes'
    BY <1>1, <1>2, <2>1 DEF FeedTypes
  <2>7. activity' # NotLoaded => ActivityOK(activity', events')
    BY <1>1, <2>1, <2>5
  <2>8. OneLoad'
    BY <2>2 DEF OneLoad
  <2>9. LoadsOfViewer'
    <3>1. ASSUME viewer' # Nobody, treasuries' # NotLoaded
          PROVE  treasuries'.ids = {} /\ activity' = empty
      BY <1>5, <2>1, <3>1 DEF none
    <3>2. QED
      BY <2>2, <2>3, <2>4, <3>1 DEF LoadsOfViewer, EventsOf
  <2>10. QED
    BY <2>6, <2>7, <2>8, <2>9 DEF FeedInv
<1>6. CASE ~(viewer' = Nobody \/ none)
  <2>1. /\ feedLoads' = [slots EXCEPT ![1] = load]
        /\ activity' = activity /\ decisions' = decisions
    BY <1>4, <1>6 DEF FeedEffect, shownVars
  <2>2. treasuries'.ids \in SUBSET Vaults /\ treasuries'.owned \in SUBSET Vaults
    BY <1>6
  <2>3. treasuries' # NotLoaded /\ treasuries'.ids # {}
    BY <1>6
  <2>4. /\ LoadOK(load, events) /\ load # NotLoaded /\ load \in FeedLoads
        /\ load.scope = "mine" /\ load.viewer = viewer' /\ load.ids = treasuries'.ids
        /\ load.chain = "pages" /\ load.ai = "asked"
    BY <1>1, <2>2, NewLoadOK
  <2> HIDE DEF slots, free, none, load, empty
  <2>5. /\ feedLoads' \in [1 .. MaxFeedLoads -> FeedLoads \cup {NotLoaded}]
        /\ TheLoad' = load
        /\ \A i \in DOMAIN feedLoads' : i # 1 => feedLoads'[i] = NotLoaded
    BY <1>1, <1>2, <2>1, <2>4 DEF TheLoad
  <2>6. FeedTypes'
    BY <1>1, <2>1, <2>5 DEF FeedTypes
  <2>7. activity # NotLoaded => ActivityOK(activity, events) /\ activity.scope = "mine"
    <3>1. activity # NotLoaded => ActivityOK(activity, events) /\ activity.scope # "vault"
      BY <1>1, TabIs DEF FeedInv
    <3>2. QED
      BY <3>1, ActivityFields DEF ActivityOK
  <2>8. OneLoad'
    BY <1>1, <2>1, <2>4, <2>5, <2>7 DEF OneLoad
  <2>9. LoadsOfViewer'
    BY <2>3, <2>4, <2>5 DEF LoadsOfViewer
  <2>10. QED
    BY <1>1, <2>1, <2>6, <2>7, <2>8, <2>9 DEF FeedInv
<1>7. QED
  BY <1>5, <1>6

LEMMA SwitchKeeps ==
  ASSUME FeedInv, ~OnTab, NEW who \in Accounts, SwitchViewer(who)
  PROVE  FeedInv'
<1>1. viewer' = who /\ treasuries' \in {treasuries, NotLoaded} /\ UNCHANGED <<events, decided>>
  BY DEF SwitchViewer
<1>2. FeedEffect(viewer', treasuries')
  BY <1>1 DEF SwitchViewer
<1>3. QED
  BY <1>1, <1>2, EffectKeeps DEF FeedInv, FeedTypes

LEMMA ListKeeps ==
  ASSUME FeedInv, ~OnTab, NEW who \in Accounts, ListLoads(who)
  PROVE  FeedInv'
<1>1. viewer' = viewer /\ treasuries' = ListOf(who) /\ UNCHANGED <<events, decided>>
  BY DEF ListLoads
<1>2. FeedEffect(viewer', treasuries')
  BY <1>1 DEF ListLoads
<1>3. ListOf(who) \in [who: Accounts, ids: SUBSET Vaults, owned: SUBSET Vaults] /\ viewer \in Accounts
  BY ListOfOK DEF FeedInv, FeedTypes
<1>4. QED
  BY <1>1, <1>2, <1>3, EffectKeeps

LEMMA OnlyFirst ==
  ASSUME FeedInv, NEW i \in DOMAIN feedLoads, feedLoads[i] # NotLoaded
  PROVE  i = 1 /\ TheLoad # NotLoaded /\ LoadOK(TheLoad, events) /\ TheLoad \in FeedLoads
BY DEF FeedInv, OneLoad, TheLoad, LoadOK

(* The slot of the load changes. *)
LEMMA SlotStep ==
  ASSUME FeedInv, NEW r, r \in FeedLoads \cup {NotLoaded}, feedLoads' = [feedLoads EXCEPT ![1] = r]
  PROVE  /\ feedLoads' \in [1 .. MaxFeedLoads -> FeedLoads \cup {NotLoaded}]
         /\ TheLoad' = r
         /\ \A i \in DOMAIN feedLoads' : i # 1 => feedLoads'[i] = NotLoaded
<1>1. /\ feedLoads \in [1 .. MaxFeedLoads -> FeedLoads \cup {NotLoaded}]
      /\ DOMAIN feedLoads = 1 .. MaxFeedLoads /\ 1 \in 1 .. MaxFeedLoads
      /\ \A i \in 1 .. MaxFeedLoads : i # 1 => feedLoads[i] = NotLoaded
  BY SlotsOK DEF FeedInv, FeedTypes, OneLoad
<1>2. QED
  BY <1>1 DEF TheLoad

LEMMA ReadKeeps ==
  ASSUME FeedInv, NEW i \in DOMAIN feedLoads, ReadPage(i)
  PROVE  FeedInv'
<1> DEFINE l == TheLoad
           page == LogPage(l.page)
           kept == {n \in page : Kept(l, events[n])}
           r == [l EXCEPT !.page = @ + 1, !.last = Len(events), !.got = @ \o Reverse(Ascending(kept)),
                          !.chain = IF LastPage(l, page, kept) THEN "times" ELSE "pages"]
<1>1. /\ i = 1 /\ l # NotLoaded /\ LoadOK(l, events) /\ l \in FeedLoads /\ l.chain = "pages"
      /\ LogOK(events)
  BY OnlyFirst DEF ReadPage, InFeedLoad, FeedInv, FeedTypes, TheLoad
<1>2. feedLoads' = [feedLoads EXCEPT ![1] = r]
  BY <1>1 DEF ReadPage, TheLoad
<1>3. UNCHANGED <<events, decided, viewer, treasuries, activity, decisions>>
  BY DEF ReadPage, shownVars
<1>4. page = {n \in 1 .. (Len(events) - l.page * PageSize) :
                n > (Len(events) - l.page * PageSize) - PageSize}
  BY DEF LogPage
<1>5. LoadOK(r, events)
  <2>1. kept = {n \in page : Kept(l, events[n])}
    OBVIOUS
  <2> HIDE DEF l, page, kept
  <2>2. QED
    BY <1>1, <1>4, <2>1, PageKeepsLoad
<1>6. /\ r.scope = l.scope /\ r.viewer = l.viewer /\ r.ids = l.ids /\ r.ai = l.ai
      /\ r.chain # "over"
  <2>1. l = [scope |-> l.scope, viewer |-> l.viewer, ids |-> l.ids, owned |-> l.owned,
             page |-> l.page, got |-> l.got, chain |-> l.chain, ai |-> l.ai,
             began |-> l.began, last |-> l.last]
    BY <1>1, LoadFields
  <2> DEFINE c == IF LastPage(l, page, kept) THEN "times" ELSE "pages"
             g == l.got \o Reverse(Ascending(kept))
  <2>2. c # "over"
    OBVIOUS
  <2>3. r = [l EXCEPT !.page = l.page + 1, !.last = Len(events), !.got = g, !.chain = c]
    OBVIOUS
  <2> HIDE DEF l, r, c, g
  <2>4. r = [scope |-> l.scope, viewer |-> l.viewer, ids |-> l.ids, owned |-> l.owned,
             page |-> l.page + 1, got |-> g, chain |-> c, ai |-> l.ai,
             began |-> l.began, last |-> Len(events)]
    BY <2>1, <2>3
  <2>5. QED
    BY <2>2, <2>4
<1>7. r \in FeedLoads /\ r # NotLoaded
  BY <1>5, FeedAssumption DEF LoadOK
<1> HIDE DEF r
<1>8. /\ feedLoads' \in [1 .. MaxFeedLoads -> FeedLoads \cup {NotLoaded}]
      /\ TheLoad' = r
      /\ \A j \in DOMAIN feedLoads' : j # 1 => feedLoads'[j] = NotLoaded
  BY <1>2, <1>7, SlotStep
<1>9. FeedTypes'
  BY <1>3, <1>8 DEF FeedInv, FeedTypes
<1>10. OneLoad'
  BY <1>1, <1>3, <1>5, <1>6, <1>8 DEF FeedInv, OneLoad
<1>11. OnTab' <=> OnTab
  <2>1. OnTab <=> \/ TheLoad # NotLoaded /\ TheLoad.scope = "vault"
                  \/ activity # NotLoaded /\ activity.scope = "vault"
    BY TabIs DEF FeedInv
  <2>2. OnTab' <=> \/ TheLoad' # NotLoaded /\ TheLoad'.scope = "vault"
                   \/ activity' # NotLoaded /\ activity'.scope = "vault"
    <3>1. \A j \in DOMAIN feedLoads' : j # 1 => feedLoads'[j] = NotLoaded
      BY <1>8
    <3>2. 1 \in DOMAIN feedLoads' /\ TheLoad' = feedLoads'[1]
      BY <1>8, SlotsOK DEF FeedInv, TheLoad
    <3>3. QED
      BY <3>1, <3>2 DEF OnTab
  <2>3. QED
    BY <1>1, <1>3, <1>6, <1>7, <1>8, <2>1, <2>2
<1>12. LoadsOfViewer'
  <2>1. SUFFICES ASSUME ~OnTab, viewer # Nobody, treasuries # NotLoaded
                 PROVE  /\ treasuries.ids # {}
                        /\ r.viewer = viewer /\ r.ids = treasuries.ids
                        /\ r.ai = "over" => DecisionsOf(viewer, treasuries.ids)
    BY <1>3, <1>6, <1>7, <1>8, <1>11 DEF LoadsOfViewer, EventsOf, DecisionsOf
  <2>2. QED
    BY <1>1, <1>6, <2>1 DEF FeedInv, LoadsOfViewer
<1>13. QED
  BY <1>3, <1>9, <1>10, <1>12 DEF FeedInv

(* One part of a load has ended. *)
LEMMA PartEnds ==
  ASSUME NEW l \in FeedLoads, NEW log, LoadOK(l, log), NEW r,
         r \in {[l EXCEPT !.chain = "over"], [l EXCEPT !.ai = "over"]}
  PROVE  /\ r \in FeedLoads /\ LoadOK(r, log)
         /\ r.scope = l.scope /\ r.viewer = l.viewer /\ r.ids = l.ids
<1>1. /\ l.chain \in {"pages", "times", "over"} /\ l.ai \in {"asked", "over"}
      /\ l = [scope |-> l.scope, viewer |-> l.viewer, ids |-> l.ids, owned |-> l.owned,
              page |-> l.page, got |-> l.got, chain |-> l.chain, ai |-> l.ai,
              began |-> l.began, last |-> l.last]
  BY LoadFields
<1>2. PICK c \in {l.chain, "over"}, a \in {l.ai, "over"} :
        r = [scope |-> l.scope, viewer |-> l.viewer, ids |-> l.ids, owned |-> l.owned,
             page |-> l.page, got |-> l.got, chain |-> c, ai |-> a,
             began |-> l.began, last |-> l.last]
  <2>1. CASE r = [l EXCEPT !.chain = "over"]
    <3>1. r = [scope |-> l.scope, viewer |-> l.viewer, ids |-> l.ids, owned |-> l.owned,
               page |-> l.page, got |-> l.got, chain |-> "over", ai |-> l.ai,
               began |-> l.began, last |-> l.last]
      BY ONLY <1>1, <2>1
    <3>2. QED
      BY <3>1
  <2>2. CASE r = [l EXCEPT !.ai = "over"]
    <3>1. r = [scope |-> l.scope, viewer |-> l.viewer, ids |-> l.ids, owned |-> l.owned,
               page |-> l.page, got |-> l.got, chain |-> l.chain, ai |-> "over",
               began |-> l.began, last |-> l.last]
      BY ONLY <1>1, <2>2
    <3>2. QED
      BY <3>1
  <2>3. QED
    BY <2>1, <2>2
<1>3. /\ r.scope = l.scope /\ r.viewer = l.viewer /\ r.ids = l.ids /\ r.owned = l.owned
      /\ r.page = l.page /\ r.got = l.got /\ r.began = l.began /\ r.last = l.last
      /\ r.chain \in {l.chain, "over"}
  BY <1>2
<1>4. r \in FeedLoads
  BY <1>1, <1>2, LoadFields DEF FeedLoads
<1>5. \A e : Wanted(r, e) <=> Wanted(l, e)
  BY <1>3 DEF Wanted
<1>6. \A n : Has(r, n) <=> Has(l, n)
  BY <1>3 DEF Has
<1>7. ReadInOrder(r, log)
  BY <1>3, <1>5, <1>6 DEF LoadOK, ReadInOrder
<1>8. \A m : ReadDownTo(l, log, m) => ReadDownTo(r, log, m)
  BY <1>3, <1>5, <1>6 DEF ReadDownTo
<1>9. LoadOK(r, log)
  BY <1>3, <1>4, <1>5, <1>7, <1>8 DEF LoadOK
<1>10. QED
  BY <1>3, <1>4, <1>9

(* What a part leaves is of its load. *)
LEMMA EndKeepsFeed ==
  ASSUME FeedInv, TheLoad # NotLoaded, NEW r, r \in FeedLoads, LoadOK(r, events),
         r.scope = TheLoad.scope, r.viewer = TheLoad.viewer, r.ids = TheLoad.ids,
         Leaves(1, r), UNCHANGED <<events, decided, viewer, treasuries>>,
         activity' # NotLoaded => ActivityOK(activity', events) /\ activity'.scope = r.scope,
         r.chain = "over" => activity' # NotLoaded,
         activity # NotLoaded => activity' # NotLoaded,
         decisions' # NotLoaded =>
           decisions' \in AgentFeeds,
         \/ activity' # NotLoaded /\ activity'.viewer = r.viewer /\ activity'.ids = r.ids
         \/ activity' = activity /\ r.chain = TheLoad.chain,
         \/ decisions' # NotLoaded /\ decisions'.viewer = r.viewer /\ decisions'.ids = r.ids
         \/ decisions' = decisions /\ r.ai = TheLoad.ai
  PROVE  FeedInv'
<1> DEFINE s == IF {r.chain, r.ai} = {"over"} THEN NotLoaded ELSE r
<1>1. r # NotLoaded
  BY FeedAssumption
<1>2. s = NotLoaded => r.chain = "over" /\ r.ai = "over"
  BY <1>1
<1>3. s \in {r, NotLoaded} /\ feedLoads' = [feedLoads EXCEPT ![1] = s]
  BY DEF Leaves
<1> HIDE DEF s
<1>4. /\ feedLoads' \in [1 .. MaxFeedLoads -> FeedLoads \cup {NotLoaded}]
      /\ TheLoad' = s
      /\ \A j \in DOMAIN feedLoads' : j # 1 => feedLoads'[j] = NotLoaded
  BY <1>3, SlotStep
<1>5. FeedTypes'
  BY <1>4 DEF FeedInv, FeedTypes
<1>6. OneLoad'
  BY <1>3, <1>4 DEF OneLoad
<1>7. OnTab => OnTab'
  <2>1. OnTab => r.scope = "vault"
    BY TabIs DEF FeedInv, OneLoad
  <2>2. CASE s = NotLoaded
    <3>1. activity' # NotLoaded /\ activity'.scope = r.scope
      BY <1>2, <2>2
    <3>2. QED
      BY <2>1, <3>1 DEF OnTab
  <2>3. CASE s = r
    <3>1. 1 \in DOMAIN feedLoads' /\ feedLoads'[1] = r
      BY <1>4, <2>3, SlotsOK DEF FeedInv, TheLoad
    <3>2. QED
      BY <1>1, <2>1, <3>1 DEF OnTab
  <2>4. QED
    BY <1>3, <2>2, <2>3
<1>8. LoadsOfViewer'
  <2>1. SUFFICES ASSUME ~OnTab, viewer # Nobody, treasuries # NotLoaded
                 PROVE  /\ treasuries.ids # {}
                        /\ r.viewer = viewer /\ r.ids = treasuries.ids
                        /\ r.chain = "over" => EventsOf(viewer, treasuries.ids)'
                        /\ r.ai = "over" => DecisionsOf(viewer, treasuries.ids)'
    BY <1>1, <1>2, <1>3, <1>4, <1>7 DEF LoadsOfViewer, EventsOf, DecisionsOf
  <2>2. /\ treasuries.ids # {}
        /\ TheLoad.viewer = viewer /\ TheLoad.ids = treasuries.ids
        /\ TheLoad.chain = "over" => EventsOf(viewer, treasuries.ids)
        /\ TheLoad.ai = "over" => DecisionsOf(viewer, treasuries.ids)
    BY <2>1 DEF FeedInv, LoadsOfViewer
  <2>3. QED
    BY <2>2 DEF EventsOf, DecisionsOf
<1>9. QED
  BY <1>5, <1>6, <1>8 DEF FeedInv

(* What a load says of itself when its events are shown. *)
LEMMA ShownFields ==
  ASSUME NEW l \in FeedLoads, NEW rows \in Seq(FeedRows), NEW unread \in SUBSET Nat,
         NEW failed \in BOOLEAN, EventsShown(l, rows, unread, failed)
  PROVE  /\ activity' \in Activities /\ activity' # NotLoaded
         /\ activity'.scope = l.scope /\ activity'.viewer = l.viewer
         /\ activity'.ids = l.ids /\ activity'.owned = l.owned
         /\ activity'.began = l.began /\ activity'.last = l.last
         /\ activity'.unread = unread /\ activity'.failed = failed /\ activity'.rows = rows
<1>1. activity' = [scope |-> l.scope, viewer |-> l.viewer, ids |-> l.ids, owned |-> l.owned,
                   began |-> l.began, last |-> l.last, unread |-> unread, failed |-> failed,
                   rows |-> rows]
  BY DEF EventsShown
<1>2. activity' \in Activities
  BY <1>1, LoadFields DEF Activities, FeedRows
<1>3. activity' # NotLoaded
  BY <1>2, FeedAssumption
<1>4. QED
  BY <1>1, <1>2, <1>3

LEMMA PagesFailKeeps ==
  ASSUME FeedInv, NEW i \in DOMAIN feedLoads, PagesFail(i)
  PROVE  FeedInv'
<1> DEFINE l == TheLoad
           r == [l EXCEPT !.chain = "over"]
<1>1. /\ i = 1 /\ l # NotLoaded /\ LoadOK(l, events) /\ l \in FeedLoads
      /\ LogOK(events)
  BY OnlyFirst DEF PagesFail, InFeedLoad, FeedInv, FeedTypes
<1>2. /\ EventsShown(l, <<>>, {}, TRUE) /\ Leaves(1, r)
      /\ UNCHANGED <<events, decided, viewer, treasuries, decisions>>
  BY <1>1 DEF PagesFail, TheLoad
<1>3. /\ activity' \in Activities /\ activity' # NotLoaded
      /\ activity'.scope = l.scope /\ activity'.viewer = l.viewer /\ activity'.ids = l.ids
      /\ activity'.began = l.began /\ activity'.failed = TRUE /\ activity'.rows = <<>>
  <2>1. <<>> \in Seq(FeedRows) /\ {} \in SUBSET Nat /\ TRUE \in BOOLEAN
    OBVIOUS
  <2>2. QED
    BY <1>1, <1>2, <2>1, ShownFields
<1>4. r \in FeedLoads /\ LoadOK(r, events) /\ r.scope = l.scope /\ r.viewer = l.viewer /\ r.ids = l.ids
  BY <1>1, PartEnds
<1>5. r.ai = l.ai
  BY <1>1, LoadFields
<1> HIDE DEF l, r
<1>6. ActivityOK(activity', events)
  <2>1. DOMAIN activity'.rows = {}
    BY <1>3
  <2>2. activity'.began <= Len(events)
    BY <1>1, <1>3 DEF LoadOK
  <2>3. QED
    BY <1>3, <2>1, <2>2 DEF ActivityOK
<1>7. decisions # NotLoaded =>
           decisions \in AgentFeeds
  BY DEF FeedInv, FeedTypes
<1>8. activity'.viewer = r.viewer /\ activity'.ids = r.ids /\ activity'.scope = r.scope
  BY <1>3, <1>4
<1>9. QED
  BY <1>1, <1>2, <1>3, <1>4, <1>5, <1>6, <1>7, <1>8, EndKeepsFeed DEF l

LEMMA TimesKeep ==
  ASSUME FeedInv, NEW i \in DOMAIN feedLoads, TimesArrive(i)
  PROVE  FeedInv'
<1> DEFINE l == TheLoad
           r == [l EXCEPT !.chain = "over"]
<1>1. /\ i = 1 /\ l # NotLoaded /\ LoadOK(l, events) /\ l \in FeedLoads
      /\ l.chain = "times" /\ LogOK(events)
  BY OnlyFirst DEF TimesArrive, InFeedLoad, FeedInv, FeedTypes, TheLoad
<1>2. /\ Leaves(1, r)
      /\ UNCHANGED <<events, decided, viewer, treasuries, decisions>>
  BY <1>1 DEF TimesArrive, TheLoad
<1>3. PICK unread \in {{}} \cup {{n} : n \in Range(l.got)} :
        EventsShown(l, Ordered(l.scope, RowsOf(l, unread)), unread, FALSE)
  BY <1>1 DEF TimesArrive, TheLoad, RowsOf
<1>4. r \in FeedLoads /\ LoadOK(r, events) /\ r.scope = l.scope /\ r.viewer = l.viewer /\ r.ids = l.ids
  BY <1>1, PartEnds
<1>5. r.ai = l.ai
  BY <1>1, LoadFields
<1>6. unread \in SUBSET Nat
  <2>1. l.got \in Seq(Nat)
    BY <1>1, LoadFields
  <2>2. \A n \in Range(l.got) : n \in Nat
    BY <2>1 DEF Range
  <2>3. QED
    BY <1>3, <2>2
<1> HIDE DEF l, r
<1> DEFINE rows == RowsOf(l, unread)
           s == Ordered(l.scope, rows)
<1>7. /\ rows \in Seq(FeedRows) /\ DOMAIN rows = DOMAIN l.got
      /\ \A k \in DOMAIN l.got : rows[k].n = l.got[k] /\ rows[k].time = TimeOf(l.got[k], unread)
  BY <1>1, ChainRows
<1>8. s \in Seq(FeedRows) /\ \A k \in DOMAIN s : \E j \in DOMAIN rows : s[k] = rows[j]
  BY <1>7, OrderedOf
<1>9. EventsShown(l, s, unread, FALSE)
  BY <1>3
<1>10. /\ activity' \in Activities /\ activity' # NotLoaded
       /\ activity'.scope = l.scope /\ activity'.viewer = l.viewer
       /\ activity'.ids = l.ids /\ activity'.owned = l.owned
       /\ activity'.began = l.began /\ activity'.last = l.last
       /\ activity'.unread = unread /\ activity'.rows = s
  <2> HIDE DEF s
  <2>1. FALSE \in BOOLEAN
    OBVIOUS
  <2>2. QED
    BY <1>1, <1>6, <1>8, <1>9, <2>1, ShownFields
<1>11. \A e : Wanted(activity', e) <=> Wanted(l, e)
  BY <1>10 DEF Wanted
<1>12. \A k \in DOMAIN s :
         LET x == s[k] IN
         x.n \in DOMAIN events /\ Wanted(l, events[x.n]) /\ (x.time = x.n \/ x.n \in unread)
  <2>1. SUFFICES ASSUME NEW k \in DOMAIN s
                 PROVE  /\ s[k].n \in DOMAIN events /\ Wanted(l, events[s[k].n])
                        /\ s[k].time = s[k].n \/ s[k].n \in unread
    OBVIOUS
  <2>2. PICK j \in DOMAIN l.got : s[k].n = l.got[j] /\ s[k].time = TimeOf(l.got[j], unread)
    BY <1>7, <1>8
  <2>3. l.got[j] \in DOMAIN events /\ Wanted(l, events[l.got[j]])
    BY <1>1 DEF LoadOK
  <2> HIDE DEF s
  <2>4. QED
    BY <2>2, <2>3 DEF TimeOf
<1>13. ASSUME unread = {}, NEW n \in 1 .. l.began,
              n > l.last - MaxPages[l.scope] * PageSize, Wanted(l, events[n])
       PROVE  \/ \E k \in DOMAIN s : s[k].n = n /\ s[k].time = n
              \/ l.scope = "mine" /\ Len(s) = Limit /\ \A k \in 1 .. Limit : s[k].time >= n
  <2>1. Has(l, n)
    BY <1>1, <1>13 DEF LoadOK, ReadDownTo
  <2>2. QED
    BY <1>1, <1>13, <2>1, OrderedShows
<1>14. l.began <= Len(events)
  BY <1>1 DEF LoadOK
<1> HIDE DEF s
<1>15. ActivityOK(activity', events)
  <2> DEFINE a == activity'
  <2>1. /\ a \in Activities /\ a.scope = l.scope /\ a.began = l.began /\ a.last = l.last
        /\ a.unread = unread /\ a.rows = s
        /\ \A e : Wanted(a, e) <=> Wanted(l, e)
    BY <1>10, <1>11
  <2> HIDE DEF a
  <2>2. ActivityOK(a, events)
    BY <1>12, <1>13, <1>14, <2>1 DEF ActivityOK
  <2>3. QED
    BY <2>2 DEF a
<1>16. decisions # NotLoaded =>
           decisions \in AgentFeeds
  BY DEF FeedInv, FeedTypes
<1>17. activity'.viewer = r.viewer /\ activity'.ids = r.ids /\ activity'.scope = r.scope
  BY <1>4, <1>10
<1>18. QED
  BY <1>1, <1>2, <1>4, <1>5, <1>10, <1>15, <1>16, <1>17, EndKeepsFeed DEF l

LEMMA DecidedInOK ==
  ASSUME decided \in AgentRows, NEW ids
  PROVE  DecidedIn(ids) \in AgentRows
<1> DEFINE R == [vault: Vaults, time: Nat]
           S == {k \in DOMAIN decided : decided[k].vault \in ids}
           a == Ascending(S)
<1>1. decided \in Seq(R) /\ Len(decided) \in Nat /\ DOMAIN decided = 1 .. Len(decided)
  BY DEF AgentRows
<1> HIDE DEF R
<1>2. S \in SUBSET Nat /\ S \in SUBSET (1 .. Len(decided)) /\ IsFiniteSet(1 .. Len(decided))
  BY <1>1, FS_Interval
<1>3. IsFiniteSet(S)
  BY <1>2, FS_Subset
<1>4. a \in Seq(S)
  <2> HIDE DEF S
  <2>1. QED
    BY <1>2, <1>3, AscendingArranges
<1>5. DecidedIn(ids) = [k \in DOMAIN a |-> decided[a[k]]]
  BY DEF DecidedIn
<1> HIDE DEF a
<1>6. \A k \in 1 .. Len(a) : decided[a[k]] \in R
  BY <1>1, <1>4
<1>7. DecidedIn(ids) \in Seq(R)
  BY <1>4, <1>5, <1>6
<1>8. QED
  BY <1>7 DEF AgentRows, R

LEMMA DecisionsKeep ==
  ASSUME FeedInv, NEW i \in DOMAIN feedLoads, DecisionsArrive(i)
  PROVE  FeedInv'
<1> DEFINE l == TheLoad
           r == [l EXCEPT !.ai = "over"]
<1>1. /\ i = 1 /\ l # NotLoaded /\ LoadOK(l, events) /\ l \in FeedLoads
      /\ decided \in AgentRows
  BY OnlyFirst DEF DecisionsArrive, FeedInv, FeedTypes
<1>2. /\ Leaves(1, r)
      /\ UNCHANGED <<events, decided, viewer, treasuries, activity>>
  BY <1>1 DEF DecisionsArrive, TheLoad
<1>3. PICK rows \in AgentRows : decisions' = [viewer |-> l.viewer, ids |-> l.ids, rows |-> rows]
  <2>1. PICK failed \in BOOLEAN :
          decisions' = [viewer |-> l.viewer, ids |-> l.ids,
                        rows |-> IF failed THEN <<>> ELSE DecidedIn(l.ids)]
    BY <1>1 DEF DecisionsArrive, TheLoad
  <2>2. <<>> \in AgentRows
    BY DEF AgentRows
  <2>3. DecidedIn(l.ids) \in AgentRows
    BY <1>1, DecidedInOK
  <2>4. QED
    BY <2>1, <2>2, <2>3
<1>4. r \in FeedLoads /\ LoadOK(r, events) /\ r.scope = l.scope /\ r.viewer = l.viewer /\ r.ids = l.ids
  BY <1>1, PartEnds
<1>5. r.chain = l.chain
  BY <1>1, LoadFields
<1>6. l.viewer \in Accounts /\ l.ids \in SUBSET Vaults
  BY <1>1, LoadFields
<1>7. /\ activity # NotLoaded => ActivityOK(activity, events) /\ activity.scope = l.scope
      /\ l.chain = "over" => activity # NotLoaded
  BY <1>1 DEF FeedInv, OneLoad
<1> HIDE DEF l, r
<1>8. /\ decisions' \in AgentFeeds /\ decisions' # NotLoaded
      /\ decisions'.viewer = l.viewer /\ decisions'.ids = l.ids
  BY <1>3, <1>6, FeedAssumption DEF AgentFeeds
<1>9. QED
  BY <1>1, <1>2, <1>4, <1>5, <1>7, <1>8, EndKeepsFeed DEF l

LEMMA StepFeed ==
  FeedInv /\ [FeedNext]_feedVars => FeedInv'
<1> SUFFICES ASSUME FeedInv, [FeedNext]_feedVars PROVE FeedInv'
  OBVIOUS
<1>1. CASE Emits
  BY <1>1, EmitsKeeps
<1>2. CASE ~OnTab /\ \E who \in Viewers \cup {Nobody} : SwitchViewer(who) \/ ListLoads(who)
  BY <1>2, SwitchKeeps, ListKeeps DEF Accounts
<1>3. CASE \E i \in DOMAIN feedLoads : ReadPage(i) \/ TimesArrive(i) \/ PagesFail(i) \/ DecisionsArrive(i)
  BY <1>3, ReadKeeps, TimesKeep, PagesFailKeeps, DecisionsKeep
<1>4. CASE UNCHANGED feedVars
  <2>1. UNCHANGED <<events, decided, viewer, treasuries, feedLoads, activity, decisions>>
    BY <1>4 DEF feedVars, shownVars
  <2>2. TheLoad' = TheLoad /\ (OnTab' <=> OnTab)
    BY <2>1 DEF TheLoad, OnTab
  <2>3. QED
    BY <2>1, <2>2 DEF FeedInv, FeedTypes, OneLoad, LoadsOfViewer, EventsOf, DecisionsOf
<1>5. QED
  BY <1>1, <1>2, <1>3, <1>4 DEF FeedNext

(* For any number of vaults, accounts, events and pages, and any order in  *)
(* which the log grows while it is read and loads of the account, of the   *)
(* list and of the feed end: what the feed tells people happened did, is   *)
(* theirs to see, and is all (lib/activity.ts and the two pages).          *)
THEOREM FeedTruthful ==
  ServicesSpec => []FeedHonest
<1>1. ServicesInit => FeedInv
  BY InitFeed DEF ServicesInit
<1>2. FeedInv => FeedHonest
  BY FeedInvHonest
<1>3. FeedInv /\ [ServicesNext]_servicesVars => FeedInv'
  <2>1. [ServicesNext]_servicesVars => [FeedNext]_feedVars
    BY DEF ServicesNext, servicesVars
  <2>2. QED
    BY <2>1, StepFeed
<1>4. QED
  BY <1>1, <1>2, <1>3, PTL DEF ServicesSpec
=============================================================================
