------------------------ MODULE ConformanceRunProofs ------------------------
(* Theorems of ConformanceRun and Assessment, for any number of cases and whatever is printed. *)
EXTENDS Assessment, FiniteSetTheorems, WellFoundedInduction, TLAPS

-----------------------------------------------------------------------------
(* Types. *)

\* What ends a request is one of the ways a request can end.
LEMMA VerdictType ==
  ASSUME NEW l \in Lines, l.says # "null", l.says # "blank"
  PROVE  Verdict(l) \in {"right", "wrong", "iut-error", "bad-response", "bad-json", "id-mismatch"}
BY RunAssumption DEF Verdict, Line, Sayings

\* main awaits only requests it sent, so `at` is a request while it does.
AwaitsARequest == pc = "awaiting" => at \in Requests

Typed == TypeOK /\ AwaitsARequest

LEMMA TypeInit == Init => Typed
BY RunAssumption DEF Init, Typed, TypeOK, AwaitsARequest, Requests

LEMMA DieType ==
  ASSUME Typed, NEW code \in Codes, Die(code)
  PROVE  dead' \in Codes /\ pending' = None /\ settled' \in Settlement \cup {None}
<1>1. dead' \in Codes /\ pending' = None
  BY DEF Die, Typed, TypeOK
<1>2. [why |-> dead', line |-> 0] \in Settlement
  BY <1>1 DEF Settlement
<1>. QED  BY <1>1, <1>2 DEF Die, Typed, TypeOK

LEMMA SettleType ==
  ASSUME Typed, NEW l \in Lines, l.says # "blank", Settle(l)
  PROVE  settled' \in Settlement /\ settled' = [why |-> Verdict(l), line |-> heard + 1]
<1>1. Verdict(l) \in {"right", "wrong", "iut-error", "bad-response", "bad-json", "id-mismatch"}
  BY VerdictType DEF Settle
<1>2. heard + 1 \in Nat
  BY DEF Typed, TypeOK
<1>. QED  BY <1>1, <1>2 DEF Settle, Settlement, Codes

LEMMA TypeStep == Typed /\ [Next]_vars => Typed'
<1> SUFFICES ASSUME Typed, [Next]_vars PROVE Typed'
  OBVIOUS
<1> USE DEF Typed, TypeOK, AwaitsARequest
<1>1. CASE Request
  <2>1. at \in Requests /\ asked' \in Seq(Requests)
    BY <1>1 DEF Request
  <2>. QED  BY <1>1, <2>1 DEF Request, pipe
<1>2. CASE Skip
  BY <1>2, RunAssumption DEF Skip, driver, pipe, Cases, Result
<1>3. CASE Resume
  <2>1. at' \in 0..(N + 1)
    BY <1>3, RunAssumption DEF Resume, Requests
  <2>2. ops' \in (SUBSET Cases) \cup {None}
    BY <1>3 DEF Resume
  <2>3. PICK r \in Result : r = [pass |-> settled.why = "right", line |-> settled.line]
    <3>1. [pass |-> settled.why = "right", line |-> settled.line] \in Result
      BY <1>3 DEF Resume, Result, Settlement
    <3>. QED  BY <3>1, Zenon
  <2>4. results' = results \/ results' = Append(results, r)
    BY <1>3, <2>3 DEF Resume
  <2>5. results' \in Seq(Result)
    BY <2>4
  <2>. QED  BY <1>3, <2>1, <2>2, <2>5 DEF Resume, pipe
<1>4. CASE Report
  BY <1>4 DEF Report, driver, pipe
<1>5. CASE SpawnError
  <2>1. Die("spawn-failed") /\ "spawn-failed" \in Codes
    BY <1>5 DEF SpawnError, Codes
  <2>. QED  BY <1>5, <2>1, DieType DEF SpawnError, main
<1>6. CASE ProcessClose
  <2>1. Die("process-exited") /\ "process-exited" \in Codes
    BY <1>6 DEF ProcessClose, Codes
  <2>. QED  BY <1>6, <2>1, DieType DEF ProcessClose, main
<1>7. CASE Chunk
  BY <1>7 DEF Chunk, main, driver
<1>8. CASE Deliver
  <2>1. /\ heard' \in 0..inbuf /\ heard + 1 \in Nat
        /\ UNCHANGED <<iut, written, inbuf>>
    BY <1>8 DEF Deliver
  <2>2. PICK l \in Lines : l = written[heard + 1]
    BY <1>8 DEF Deliver
  <2>3. CASE UNCHANGED main /\ UNCHANGED driver
    BY <2>1, <2>3 DEF main, driver
  <2>4. CASE Unsolicited /\ UNCHANGED main
    <3>1. Die("unsolicited-output") /\ "unsolicited-output" \in Codes
      BY <2>4 DEF Unsolicited, Codes
    <3>. QED  BY <2>1, <2>4, <3>1, DieType DEF Unsolicited, main
  <2>5. CASE l.says # "blank" /\ Settle(l)
    BY <2>1, <2>5, SettleType DEF Settle, main, Codes
  <2>6. CASE Throw(l)
    BY <2>1, <2>6 DEF Throw
  <2>. QED  BY <1>8, <2>2, <2>3, <2>4, <2>5, <2>6 DEF Deliver
<1>9. ASSUME NEW r \in Requests, Timeout(r) PROVE Typed'
  <2>1. Die("timeout") /\ "timeout" \in Codes
    BY <1>9 DEF Timeout, Codes
  <2>. QED  BY <1>9, <2>1, DieType DEF Timeout, main, pipe
<1>10. CASE Exit
  BY <1>10 DEF Exit, main, driver
<1>11. ASSUME NEW l \in Lines, Say(l) PROVE Typed'
  <2>1. written' \in Seq(Lines) /\ Len(written') = Len(written) + 1
    BY <1>11 DEF Say
  <2>. QED  BY <1>11, <2>1 DEF Say, main, driver
<1>12. CASE UNCHANGED vars
  BY <1>12 DEF vars
<1>. QED
  BY <1>1, <1>2, <1>3, <1>4, <1>5, <1>6, <1>7, <1>8, <1>9, <1>10, <1>11, <1>12
  DEF Next, Runner, Events, Implementation

\* Whatever the implementation prints, the runner's state keeps its type.
THEOREM TypeCorrect == Spec => []TypeOK
<1>1. Typed => TypeOK
  BY DEF Typed
<1>. QED  BY <1>1, TypeInit, TypeStep, PTL DEF Spec

-----------------------------------------------------------------------------
(* Who waits for what. *)

\* While main awaits, either its request is outstanding or the promise has been settled, never
\* both and never neither; and what is outstanding has its timer and a pipe that is not dead.
Waiting ==
  /\ pc = "awaiting" => (settled = None <=> pending # None)
  /\ pc = "deciding" => pending = None /\ settled = None /\ heard = inbuf
  /\ pending # None => pending = at /\ pending \in timers /\ dead = None
  /\ pc = "deciding" /\ at = 0 => dead = None

LEMMA WaitingInit == Init => Waiting
BY RunAssumption DEF Init, Waiting

\* Dying settles what is outstanding.
LEMMA DieSettles ==
  ASSUME Typed, Waiting, pc = "awaiting", pc' = pc, NEW code \in Codes, Die(code)
  PROVE  Waiting'
<1>1. [why |-> dead', line |-> 0] # None
  <2>1. dead' \in Codes
    BY DieType
  <2>2. [why |-> dead', line |-> 0] \in Settlement
    BY <2>1 DEF Settlement
  <2>. QED  BY <2>2, RunAssumption
<1>. QED  BY <1>1 DEF Waiting, Die

LEMMA WaitingStep == Typed /\ Waiting /\ [Next]_vars => Waiting'
<1> SUFFICES ASSUME Typed, Waiting, [Next]_vars PROVE Waiting'
  OBVIOUS
<1> USE DEF Waiting
<1>1. CASE Request
  <2>1. at # None
    BY <1>1, RunAssumption DEF Request, Requests
  <2>. QED  BY <1>1, <2>1 DEF Request, pipe, Answerable
<1>2. CASE Skip
  BY <1>2 DEF Skip, driver, pipe, Cases, Typed, TypeOK
<1>3. CASE Resume
  BY <1>3 DEF Resume, pipe, Typed, TypeOK
<1>4. CASE Report
  BY <1>4 DEF Report, driver, pipe
<1>5. CASE SpawnError
  BY <1>5, DieSettles DEF SpawnError, Idle, Codes, main
<1>6. CASE ProcessClose
  BY <1>6, DieSettles DEF ProcessClose, Idle, Codes, main
<1>7. CASE Chunk
  BY <1>7 DEF Chunk, Idle, main, driver
<1>8. CASE Deliver
  <2>1. pc = "awaiting"
    BY <1>8 DEF Deliver
  <2>2. PICK l \in Lines : l = written[heard + 1]
    BY <1>8 DEF Deliver, Typed, TypeOK
  <2>3. CASE UNCHANGED main /\ UNCHANGED driver
    BY <2>1, <2>3 DEF main, driver
  <2>4. CASE Unsolicited /\ UNCHANGED main
    BY <2>1, <2>4, DieSettles DEF Unsolicited, Codes, main
  <2>5. CASE l.says # "blank" /\ Settle(l)
    <3>1. settled' # None
      BY <2>5, SettleType, RunAssumption
    <3>. QED  BY <2>1, <2>5, <3>1 DEF Settle, main
  <2>6. CASE Throw(l)
    BY <2>1, <2>6 DEF Throw
  <2>. QED  BY <1>8, <2>2, <2>3, <2>4, <2>5, <2>6 DEF Deliver
<1>9. ASSUME NEW r \in Requests, Timeout(r) PROVE Waiting'
  BY <1>9, DieSettles DEF Timeout, Idle, Codes, main
<1>10. CASE Exit
  BY <1>10 DEF Exit, main, driver
<1>11. ASSUME NEW l \in Lines, Say(l) PROVE Waiting'
  BY <1>11 DEF Say, main, driver
<1>12. CASE UNCHANGED vars
  BY <1>12 DEF vars
<1>. QED
  BY <1>1, <1>2, <1>3, <1>4, <1>5, <1>6, <1>7, <1>8, <1>9, <1>10, <1>11, <1>12
  DEF Next, Runner, Events, Implementation

\* A dead pipe has nobody waiting on it, and whoever waits has a timer armed.
THEOREM NobodyWaits == Spec => []NobodyWaitsOnTheDead
<1>1. Waiting => NobodyWaitsOnTheDead
  BY DEF Waiting, NobodyWaitsOnTheDead, Idle
<1>. QED  BY <1>1, TypeInit, TypeStep, WaitingInit, WaitingStep, PTL DEF Spec

-----------------------------------------------------------------------------
(* What a pass stands on. *)

\* Requests are sent in the order of the cases, the last of them is the one awaited, and every
\* case main has left behind has a result.
InOrder ==
  /\ \A j, k \in DOMAIN asked : j < k => asked[j] < asked[k]
  /\ \A k \in DOMAIN asked : asked[k] <= at /\ (pc = "deciding" => asked[k] < at)
  /\ pc = "awaiting" => Len(asked) \in DOMAIN asked /\ asked[Len(asked)] = at
  /\ Len(results) = IF at = 0 THEN 0 ELSE at - 1

\* As long as the pipe is not dead, each request but an outstanding one has had one line.
LinesAreSpent ==
  pc \in {"deciding", "awaiting"} /\ dead = None =>
    Cardinality(Spoken(heard)) = IF pending = None THEN Len(asked) ELSE Len(asked) - 1

\* A line that has been handled, answers request i rightly and is the k-th that counts.
Answers(line, i, k) ==
  /\ line \in 1..heard
  /\ written[line] = [id |-> i, says |-> "right"]
  /\ Cardinality(Spoken(line)) = k

SettledIsEarned ==
  settled # None /\ settled.why = "right" => Answers(settled.line, at, Len(asked))

PassIsEarned(i) ==
  results[i].pass => \E k \in DOMAIN asked : asked[k] = i /\ Answers(results[i].line, i, k)

ResultsAreEarned == \A i \in DOMAIN results : PassIsEarned(i)

EarnedInv == InOrder /\ LinesAreSpent /\ SettledIsEarned /\ ResultsAreEarned

LEMMA SpokenFinite == \A n \in Nat : IsFiniteSet(Spoken(n)) /\ Cardinality(Spoken(n)) \in Nat
<1>1. SUFFICES ASSUME NEW n \in Nat
               PROVE  IsFiniteSet(Spoken(n)) /\ Cardinality(Spoken(n)) \in Nat
  OBVIOUS
<1>2. IsFiniteSet(1..n)
  BY FS_Interval
<1>3. Spoken(n) \in SUBSET (1..n)
  BY DEF Spoken
<1>4. IsFiniteSet(Spoken(n))
  BY <1>2, <1>3, FS_Subset
<1>. QED  BY <1>4, FS_CardinalityType

\* What has been printed stays printed, and what has been handled stays handled.
LEMMA NothingUnsaid ==
  ASSUME Typed, [Next]_vars
  PROVE  /\ heard' \in Nat /\ heard <= heard'
         /\ \A j \in 1..Len(written) : written'[j] = written[j]
<1> USE DEF Typed, TypeOK
<1>1. CASE UNCHANGED <<written, heard>>
  BY <1>1
<1>2. CASE Deliver
  BY <1>2 DEF Deliver
<1>3. ASSUME NEW l \in Lines, Say(l)
      PROVE  heard' = heard /\ \A j \in 1..Len(written) : written'[j] = written[j]
  BY <1>3 DEF Say
<1>4. QED
  BY <1>1, <1>2, <1>3
  DEF Next, Runner, Events, Implementation, Request, Skip, Resume, Report, SpawnError,
      ProcessClose, Chunk, Timeout, Exit, pipe, vars

\* So a line that answers a request goes on answering it.
LEMMA AnswersStay ==
  ASSUME Typed, [Next]_vars, NEW line, NEW i, NEW k, Answers(line, i, k)
  PROVE  Answers(line, i, k)'
<1>1. /\ line \in 1..heard /\ heard <= Len(written)
      /\ line \in 1..Len(written)
  BY DEF Answers, Typed, TypeOK
<1>2. Spoken(line)' = Spoken(line)
  <2>1. heard \in Nat /\ Len(written) \in Nat
    BY DEF Typed, TypeOK
  <2>2. \A j \in 1..Len(written) : written'[j] = written[j]
    BY NothingUnsaid
  <2>3. \A j \in 1..line : written'[j] = written[j]
    BY <1>1, <2>1, <2>2
  <2>. QED  BY <2>3 DEF Spoken
<1>3. line \in 1..(heard')
  BY <1>1, NothingUnsaid DEF Typed, TypeOK
<1>4. QED
  BY <1>1, <1>2, <1>3, NothingUnsaid DEF Answers

LEMMA HeardStays ==
  ASSUME Typed, [Next]_vars, heard' = heard
  PROVE  Spoken(heard)' = Spoken(heard)
<1>1. heard \in Nat /\ Len(written) \in Nat /\ heard <= Len(written)
  BY DEF Typed, TypeOK
<1>2. \A j \in 1..Len(written) : written'[j] = written[j]
  BY NothingUnsaid
<1>3. \A j \in 1..heard : written'[j] = written[j]
  BY <1>1, <1>2
<1>4. QED
  BY <1>3 DEF Spoken

LEMMA EarnedInit == Init => EarnedInv
<1> SUFFICES ASSUME Init PROVE EarnedInv
  OBVIOUS
<1>1. InOrder /\ SettledIsEarned /\ ResultsAreEarned
  BY DEF Init, InOrder, SettledIsEarned, ResultsAreEarned
<1>2. LinesAreSpent
  <2>1. Spoken(0) = {}
    BY DEF Spoken
  <2>2. Cardinality(Spoken(0)) = 0
    BY <2>1, FS_EmptySet
  <2>. QED  BY <2>2 DEF Init, LinesAreSpent
<1>. QED  BY <1>1, <1>2 DEF EarnedInv

LEMMA InOrderStep == Typed /\ InOrder /\ [Next]_vars => InOrder'
<1> SUFFICES ASSUME Typed, InOrder, [Next]_vars PROVE InOrder'
  OBVIOUS
<1> USE DEF InOrder, Typed, TypeOK
<1>1. CASE Request
  <2>1. /\ Len(asked') = Len(asked) + 1 /\ asked'[Len(asked')] = at /\ at' = at
        /\ DOMAIN asked' = 1..(Len(asked) + 1) /\ pc' = "awaiting" /\ pc = "deciding"
        /\ \A k \in DOMAIN asked : asked'[k] = asked[k]
        /\ results' = results
    BY <1>1 DEF Request
  <2>2. \A k \in DOMAIN asked : asked[k] \in Nat /\ asked[k] < at
    BY <2>1, RunAssumption DEF Requests
  <2>3. at \in Nat /\ DOMAIN asked = 1..Len(asked)
    BY RunAssumption
  <2>4. \A j, k \in DOMAIN asked' : j < k => asked'[j] < asked'[k]
    BY <2>1, <2>2, <2>3, SMTT(30)
  <2>5. \A k \in DOMAIN asked' : asked'[k] <= at
    BY <2>1, <2>2, <2>3
  <2>. QED  BY <2>1, <2>3, <2>4, <2>5
<1>2. CASE Skip
  <2>1. Len(results') = Len(results) + 1 /\ at' = at + 1 /\ asked' = asked /\ pc' = "deciding"
    BY <1>2 DEF Skip
  <2>2. at \in Nat \ {0} /\ \A k \in DOMAIN asked : asked[k] \in Nat /\ asked[k] < at
    BY <1>2, RunAssumption DEF Skip, Cases, Requests
  <2>. QED  BY <2>1, <2>2
<1>3. CASE Resume
  <2>1. /\ at' = at + 1 /\ asked' = asked /\ pc' = "deciding"
        /\ Len(results') = IF at = 0 THEN Len(results) ELSE Len(results) + 1
    BY <1>3 DEF Resume
  <2>2. at \in Nat /\ \A k \in DOMAIN asked : asked[k] \in Nat /\ asked[k] <= at
    BY RunAssumption DEF Requests
  <2>. QED  BY <2>1, <2>2
<1>4. CASE UNCHANGED <<at, results, asked>> /\ pc' \in {pc, "reported", "crashed"}
  BY <1>4
<1>. QED
  BY <1>1, <1>2, <1>3, <1>4
  DEF Next, Runner, Events, Implementation, Report, SpawnError, ProcessClose, Chunk, Deliver,
      Settle, Throw, Timeout, Exit, Say, main, vars

LEMMA SpentStep ==
  Typed /\ Waiting /\ LinesAreSpent /\ [Next]_vars => LinesAreSpent'
<1> SUFFICES ASSUME Typed, Waiting, LinesAreSpent, [Next]_vars,
                    pc' \in {"deciding", "awaiting"}, dead' = None
             PROVE  Cardinality(Spoken(heard)') =
                      IF pending' = None THEN Len(asked') ELSE Len(asked') - 1
  BY DEF LinesAreSpent
<1> USE DEF Typed, TypeOK
<1>0. dead = None
  <2>1. \A code \in Codes : Die(code) => dead' # None
    BY RunAssumption DEF Die
  <2>2. \A code \in {"unsolicited-output", "spawn-failed", "process-exited", "timeout"} :
          code \in Codes
    BY DEF Codes
  <2>. QED
    BY <2>1, <2>2
    DEF Next, Runner, Events, Implementation, Request, Skip, Resume, Report, SpawnError,
        ProcessClose, Chunk, Deliver, Unsolicited, Settle, Throw, Timeout, Exit, Say, driver,
        main, vars
<1>1. CASE UNCHANGED <<asked, pending, heard>> /\ pc \in {"deciding", "awaiting"}
  BY <1>0, <1>1, HeardStays DEF LinesAreSpent
<1>2. CASE Request
  <2>1. heard' = heard /\ pending = None /\ pending' # None /\ Len(asked') = Len(asked) + 1
    BY <1>2, RunAssumption DEF Request, Waiting, pipe, Requests
  <2>2. Cardinality(Spoken(heard)) = Len(asked)
    BY <1>0, <1>2, <2>1 DEF Request, LinesAreSpent
  <2>. QED  BY <2>1, <2>2, HeardStays
<1>3. ASSUME Deliver, NEW l, l = written[heard + 1]
      PROVE  Cardinality(Spoken(heard)') =
               IF pending' = None THEN Len(asked') ELSE Len(asked') - 1
  <2>1. /\ pc = "awaiting" /\ heard' = heard + 1 /\ heard \in Nat /\ written' = written
        /\ heard + 1 \in 1..Len(written)
    BY <1>3 DEF Deliver
  <2>2. CASE l.says = "blank" /\ UNCHANGED main /\ UNCHANGED driver
    <3>1. Spoken(heard)' = Spoken(heard)
      BY <1>3, <2>1, <2>2 DEF Spoken
    <3>. QED  BY <1>0, <2>1, <2>2, <3>1 DEF LinesAreSpent, main, driver
  <2>3. CASE l.says # "blank" /\ pending # None /\ Settle(l)
    <3>1. Spoken(heard)' = Spoken(heard) \cup {heard + 1} /\ heard + 1 \notin Spoken(heard)
      BY <1>3, <2>1, <2>3 DEF Spoken
    <3>2. /\ IsFiniteSet(Spoken(heard))
          /\ Cardinality(Spoken(heard)) = Len(asked) - 1
      BY <1>0, <2>1, <2>3, SpokenFinite DEF LinesAreSpent
    <3>3. Cardinality(Spoken(heard)') = Cardinality(Spoken(heard)) + 1
      BY <3>1, <3>2, FS_AddElement
    <3>. QED  BY <2>3, <3>2, <3>3 DEF Settle, main
  <2>4. CASE Throw(l)
    BY <2>4 DEF Throw
  <2>5. CASE Unsolicited
    BY <2>5, RunAssumption DEF Unsolicited, Die, Codes
  <2>. QED  BY <1>3, <2>2, <2>3, <2>4, <2>5 DEF Deliver
<1>4. CASE \E code \in Codes : Die(code)
  BY <1>4, RunAssumption DEF Die
<1>5. \A code \in {"spawn-failed", "process-exited", "timeout"} : code \in Codes
  BY DEF Codes
<1>. QED
  BY <1>1, <1>2, <1>3, <1>4, <1>5
  DEF Next, Runner, Events, Implementation, Skip, Resume, Report, SpawnError,
      ProcessClose, Chunk, Timeout, Exit, Say, driver, main, pipe, vars

\* The line that settles a request rightly is its own, and no line is missing or left over.
LEMMA SettleEarns ==
  ASSUME Typed, Waiting, InOrder, LinesAreSpent, Deliver,
         NEW l, l = written[heard + 1], l.says # "blank", pending # None, Settle(l)
  PROVE  SettledIsEarned'
<1> USE DEF Typed, TypeOK
<1>1. PICK n : n = heard + 1
  OBVIOUS
<1>2. /\ pc = "awaiting" /\ heard' = n /\ heard \in Nat /\ written' = written
      /\ n \in 1..Len(written) /\ n \in 1..(heard') /\ l = written[n]
      /\ l \in Lines /\ at' = at /\ asked' = asked
  BY <1>1 DEF Deliver, Settle, main
<1>3. settled' = [why |-> Verdict(l), line |-> n]
  BY <1>1 DEF Settle
<1>4. SUFFICES ASSUME Verdict(l) = "right"
               PROVE  Answers(n, at, Len(asked))'
  BY <1>2, <1>3 DEF SettledIsEarned, Answers
<1>5. l = [id |-> at, says |-> "right"]
  <2>1. l.id = at /\ l.says = "right"
    BY <1>4 DEF Verdict, Waiting
  <2>2. l \in [id : Requests \cup {None}, says : Sayings]
    BY <1>2, RunAssumption DEF Line
  <2>. QED  BY <2>1, <2>2
<1>6. Cardinality(Spoken(n)') = Len(asked)
  <2>1. Spoken(n)' = {k \in 1..n : written[k].says # "blank"}
    BY <1>2 DEF Spoken
  <2>2. 1..n = (1..heard) \cup {n} /\ n \notin 1..heard
    BY <1>1, <1>2
  <2>3. written[n].says # "blank"
    BY <1>2
  <2>4. Spoken(n)' = Spoken(heard) \cup {n} /\ n \notin Spoken(heard)
    BY <2>1, <2>2, <2>3 DEF Spoken
  <2>5. IsFiniteSet(Spoken(heard)) /\ Cardinality(Spoken(heard)) = Len(asked) - 1
    BY <1>2, SpokenFinite DEF LinesAreSpent, Waiting
  <2>6. Cardinality(Spoken(n)') = Cardinality(Spoken(heard)) + 1
    <3> HIDE DEF Typed, TypeOK
    <3>. QED  BY <2>4, <2>5, FS_AddElement
  <2>. QED  BY <2>5, <2>6
<1>. QED  BY <1>2, <1>5, <1>6 DEF Answers

LEMMA SettledStep ==
  Typed /\ Waiting /\ InOrder /\ LinesAreSpent /\ SettledIsEarned /\ [Next]_vars
    => SettledIsEarned'
<1> SUFFICES ASSUME Typed, Waiting, InOrder, LinesAreSpent, SettledIsEarned, [Next]_vars
             PROVE  SettledIsEarned'
  OBVIOUS
<1>1. CASE UNCHANGED <<settled, at, asked>>
  <2>1. SUFFICES ASSUME settled' # None, settled'.why = "right"
                 PROVE  Answers(settled.line, at, Len(asked))'
    BY <1>1 DEF SettledIsEarned
  <2>2. PICK line, i, k : line = settled.line /\ i = at /\ k = Len(asked)
    OBVIOUS
  <2>3. Answers(line, i, k)
    BY <1>1, <2>1, <2>2 DEF SettledIsEarned
  <2>4. Answers(line, i, k)'
    BY <2>3, AnswersStay
  <2>. QED  BY <1>1, <2>2, <2>4 DEF Answers
<1>2. CASE pc = "deciding" /\ settled' = settled
  BY <1>2 DEF Waiting, SettledIsEarned
<1>3. CASE settled' = None
  BY <1>3 DEF SettledIsEarned
<1>4. ASSUME NEW code \in Codes, Die(code), UNCHANGED main PROVE SettledIsEarned'
  <2>1. CASE settled' = settled
    BY <1>1, <1>4, <2>1 DEF main
  <2>2. CASE settled'.why = dead'
    BY <1>4, <2>2, DieType DEF SettledIsEarned, Codes
  <2>. QED  BY <1>4, <2>1, <2>2 DEF Die
<1>5. \A code \in {"unsolicited-output", "spawn-failed", "process-exited", "timeout"} :
        code \in Codes
  BY DEF Codes
<1>6. CASE Deliver
  <2>1. PICK l : l = written[heard + 1]
    OBVIOUS
  <2>2. CASE l.says # "blank" /\ pending # None /\ Settle(l)
    BY <1>6, <2>1, <2>2, SettleEarns
  <2>3. CASE Throw(l)
    BY <1>1, <2>3 DEF Throw
  <2>. QED  BY <1>1, <1>4, <1>5, <1>6, <2>1, <2>2, <2>3 DEF Deliver, Unsolicited, main, driver
<1>. QED
  BY <1>1, <1>2, <1>3, <1>4, <1>5, <1>6
  DEF Next, Runner, Events, Implementation, Request, Skip, Resume, Report, SpawnError,
      ProcessClose, Chunk, Timeout, Exit, Say, driver, main, vars

\* A pass that has been recorded stays earned as long as the requests sent stay sent.
LEMMA PassStays ==
  ASSUME Typed, [Next]_vars, NEW i \in DOMAIN results, PassIsEarned(i),
         i \in DOMAIN results', results'[i] = results[i],
         \A k \in DOMAIN asked : k \in DOMAIN asked' /\ asked'[k] = asked[k]
  PROVE  PassIsEarned(i)'
<1>1. SUFFICES ASSUME results[i].pass
               PROVE  \E k \in DOMAIN asked' : asked'[k] = i /\ Answers(results[i].line, i, k)'
  BY DEF PassIsEarned, Answers
<1>2. PICK k \in DOMAIN asked : asked[k] = i /\ Answers(results[i].line, i, k)
  BY <1>1 DEF PassIsEarned
<1>3. PICK line : line = results[i].line
  OBVIOUS
<1>4. Answers(line, i, k)'
  BY <1>2, <1>3, AnswersStay
<1>. QED  BY <1>2, <1>3, <1>4 DEF Answers

LEMMA ResultsStep ==
  Typed /\ Waiting /\ InOrder /\ SettledIsEarned /\ ResultsAreEarned /\ [Next]_vars
    => ResultsAreEarned'
<1> SUFFICES ASSUME Typed, Waiting, InOrder, SettledIsEarned, ResultsAreEarned, [Next]_vars,
                    NEW i \in DOMAIN results'
             PROVE  PassIsEarned(i)'
  BY DEF ResultsAreEarned
<1> USE DEF Typed, TypeOK
<1>1. CASE UNCHANGED <<results, asked>>
  <2>1. PassIsEarned(i) /\ i \in DOMAIN results
    BY <1>1 DEF ResultsAreEarned
  <2>. QED  BY <1>1, <2>1, PassStays
<1>2. CASE Request
  <2>1. /\ results' = results
        /\ \A k \in DOMAIN asked : k \in DOMAIN asked' /\ asked'[k] = asked[k]
    BY <1>2 DEF Request
  <2>2. PassIsEarned(i) /\ i \in DOMAIN results
    BY <2>1 DEF ResultsAreEarned
  <2>. QED  BY <2>1, <2>2, PassStays
<1>3. CASE Skip
  <2>1. /\ asked' = asked
        /\ results' = Append(results, [pass |-> FALSE, line |-> 0])
    BY <1>3 DEF Skip
  <2>2. CASE i \in DOMAIN results
    <3>1. PassIsEarned(i) /\ results'[i] = results[i]
      BY <2>1, <2>2 DEF ResultsAreEarned
    <3>. QED  BY <2>1, <2>2, <3>1, PassStays
  <2>3. CASE i \notin DOMAIN results
    <3>1. i = Len(results) + 1 /\ results'[i] = [pass |-> FALSE, line |-> 0]
      BY <2>1, <2>3
    <3>. QED  BY <3>1 DEF PassIsEarned
  <2>. QED  BY <2>2, <2>3
<1>4. CASE Resume /\ at # 0
  <2>1. /\ asked' = asked
        /\ results' = Append(results, [pass |-> settled.why = "right", line |-> settled.line])
        /\ settled # None /\ pc = "awaiting"
    BY <1>4 DEF Resume
  <2>2. CASE i \in DOMAIN results
    <3>1. PassIsEarned(i) /\ results'[i] = results[i]
      BY <2>1, <2>2 DEF ResultsAreEarned
    <3>. QED  BY <2>1, <2>2, <3>1, PassStays
  <2>3. CASE i \notin DOMAIN results
    <3>1. i = at
      BY <1>4, <2>1, <2>3, RunAssumption DEF InOrder
    <3>2. results'[i].pass = (settled.why = "right") /\ results'[i].line = settled.line
      BY <2>1, <2>3
    <3>3. PICK line, k : line = settled.line /\ k = Len(asked)
      OBVIOUS
    <3>4. SUFFICES ASSUME settled.why = "right"
                   PROVE  k \in DOMAIN asked /\ asked[k] = i /\ Answers(line, i, k)'
      BY <2>1, <3>2, <3>3 DEF PassIsEarned, Answers
    <3>5. Answers(line, i, k) /\ k \in DOMAIN asked /\ asked[k] = i
      BY <2>1, <3>1, <3>3, <3>4 DEF SettledIsEarned, InOrder
    <3>. QED  BY <3>5, AnswersStay
  <2>. QED  BY <2>2, <2>3
<1>. QED
  BY <1>1, <1>2, <1>3, <1>4
  DEF Next, Runner, Events, Implementation, Report, SpawnError, Resume,
      ProcessClose, Chunk, Deliver, Settle, Throw, Timeout, Exit, Say, driver, main, vars

LEMMA EarnedStep == Typed /\ Waiting /\ EarnedInv /\ [Next]_vars => EarnedInv'
BY InOrderStep, SpentStep, SettledStep, ResultsStep DEF EarnedInv

\* A pass is earned: by the line that names the case, is right, and is as manieth among the
\* lines that count as the case's request is among the requests.
THEOREM EveryPassIsEarned == Spec => []PassesAreEarned
<1>1. Typed /\ InOrder /\ ResultsAreEarned => PassesAreEarned
  <2> SUFFICES ASSUME Typed, InOrder, ResultsAreEarned,
                      NEW i \in DOMAIN results, results[i].pass
               PROVE  /\ \E k \in DOMAIN asked : asked[k] = i
                      /\ written[results[i].line] = [id |-> i, says |-> "right"]
                      /\ Cardinality(Spoken(results[i].line)) = Position(i)
    BY DEF PassesAreEarned
  <2>1. PICK k \in DOMAIN asked : asked[k] = i /\ Answers(results[i].line, i, k)
    BY DEF ResultsAreEarned, PassIsEarned
  <2>2. \A j \in DOMAIN asked : asked[j] = i => j = k
    <3> SUFFICES ASSUME NEW j \in DOMAIN asked, asked[j] = i, j # k PROVE FALSE
      OBVIOUS
    <3>1. j \in Nat /\ k \in Nat /\ (j < k \/ k < j)
      BY DEF Typed, TypeOK
    <3>2. i \in Nat
      BY DEF Typed, TypeOK
    <3>. QED  BY <2>1, <3>1, <3>2 DEF InOrder
  <2>3. Position(i) = k
    BY <2>1, <2>2 DEF Position
  <2>. QED  BY <2>1, <2>3 DEF Answers
<1>2. Typed /\ EarnedInv => PassesAreEarned
  BY <1>1 DEF EarnedInv
<1>. QED
  BY <1>2, TypeInit, TypeStep, WaitingInit, WaitingStep, EarnedInit, EarnedStep, PTL DEF Spec

-----------------------------------------------------------------------------
(* What a level rests on. *)

\* A set with 0 and the successors of its members has every number.
LEMMA Counting ==
  ASSUME NEW T, 0 \in T, \A n \in Nat : n \in T => n + 1 \in T
  PROVE  \A n \in Nat : n \in T
<1> DEFINE rest == {n \in Nat : n \notin T}
<1>1. SUFFICES ASSUME rest # {} PROVE FALSE
  OBVIOUS
<1>2. PICK m \in rest : \A j \in rest : <<j, m>> \notin OpToRel(<, Nat)
  <2>1. rest \subseteq Nat
    OBVIOUS
  <2>. QED  BY <1>1, <2>1, NatLessThanWellFounded, WFMin
<1>3. \A j \in rest : ~(j < m)
  BY <1>2, Zenon DEF OpToRel
<1>4. m \in Nat /\ m # 0 /\ m \notin T
  OBVIOUS
<1>5. m - 1 \in Nat /\ m - 1 < m /\ (m - 1) + 1 = m
  BY <1>4
<1>6. m - 1 \in T
  BY <1>3, <1>5
<1>. QED  BY <1>4, <1>5, <1>6

\* The iterates of a function exist.
Iterates(F, x, n, f) == f[0] = x /\ \A k \in 0..(n - 1) : f[k + 1] = F[f[k]]

LEMMA Iteration ==
  ASSUME NEW S, NEW x \in S, NEW F \in [S -> S]
  PROVE  \E f \in [Nat -> S] : f[0] = x /\ \A n \in Nat : f[n + 1] = F[f[n]]
<1> DEFINE T == {n \in Nat : \E f \in [0..n -> S] : Iterates(F, x, n, f)}
<1>1. 0 \in T
  <2>1. [k \in 0..0 |-> x] \in [0..0 -> S] /\ Iterates(F, x, 0, [k \in 0..0 |-> x])
    BY DEF Iterates
  <2>. QED  BY <2>1
<1>2. ASSUME NEW n \in Nat, n \in T PROVE n + 1 \in T
  <2>1. PICK f \in [0..n -> S] : Iterates(F, x, n, f)
    BY <1>2
  <2> DEFINE g == [k \in 0..(n + 1) |-> IF k = n + 1 THEN F[f[n]] ELSE f[k]]
  <2>2. F[f[n]] \in S
    OBVIOUS
  <2>3. g \in [0..(n + 1) -> S] /\ g[n + 1] = F[f[n]] /\ \A k \in 0..n : g[k] = f[k]
    BY <2>2
  <2> HIDE DEF g
  <2>4. \A k \in 0..n : g[k + 1] = F[g[k]]
    <3>1. \A k \in 0..(n - 1) : g[k + 1] = F[g[k]]
      BY <2>1, <2>3 DEF Iterates
    <3>2. g[n + 1] = F[g[n]]
      BY <2>3
    <3>3. \A k \in 0..n : k = n \/ k \in 0..(n - 1)
      OBVIOUS
    <3>. QED  BY <3>1, <3>2, <3>3
  <2>5. (n + 1) - 1 = n /\ g[0] = x
    BY <2>1, <2>3 DEF Iterates
  <2>6. Iterates(F, x, n + 1, g)
    BY <2>4, <2>5 DEF Iterates
  <2>. QED  BY <2>3, <2>6
<1>3. \A n \in Nat : n \in T
  <2> HIDE DEF T
  <2>. QED  BY <1>1, <1>2, Counting
<1>4. ASSUME NEW m \in Nat, NEW n \in Nat, m <= n,
             NEW f \in [0..m -> S], Iterates(F, x, m, f),
             NEW g \in [0..n -> S], Iterates(F, x, n, g)
      PROVE  \A k \in 0..m : f[k] = g[k]
  <2> DEFINE U == {k \in Nat : k <= m => f[k] = g[k]}
  <2>1. 0 \in U
    BY <1>4 DEF Iterates
  <2>2. ASSUME NEW k \in Nat, k \in U PROVE k + 1 \in U
    <3>1. SUFFICES ASSUME k + 1 <= m PROVE f[k + 1] = g[k + 1]
      OBVIOUS
    <3>2. k \in 0..(m - 1) /\ k \in 0..(n - 1) /\ f[k] = g[k]
      BY <1>4, <2>2, <3>1
    <3>. QED  BY <1>4, <3>2 DEF Iterates
  <2>3. \A k \in Nat : k \in U
    <3> HIDE DEF U
    <3>. QED  BY <2>1, <2>2, Counting
  <2>. QED  BY <2>3
<1> DEFINE at_(n) == CHOOSE f \in [0..n -> S] : Iterates(F, x, n, f)
           all == [n \in Nat |-> at_(n)[n]]
<1>5. \A n \in Nat : at_(n) \in [0..n -> S] /\ Iterates(F, x, n, at_(n))
  BY <1>3
<1> HIDE DEF at_
<1>6. all \in [Nat -> S] /\ all[0] = x
  BY <1>5 DEF Iterates
<1>7. ASSUME NEW n \in Nat PROVE all[n + 1] = F[all[n]]
  <2>1. at_(n)[n] = at_(n + 1)[n]
    BY <1>4, <1>5
  <2>2. at_(n + 1)[n + 1] = F[at_(n + 1)[n]]
    BY <1>5 DEF Iterates
  <2>. QED  BY <2>1, <2>2
<1>. QED  BY <1>6, <1>7

\* Reached is what its recursion says.
LEMMA ReachedFacts ==
  ASSUME NEW doc \in LevelsDoc, NEW l \in LevelIds
  PROVE  /\ Reached(doc, l) \in [Nat -> SUBSET LevelIds]
         /\ Reached(doc, l)[0] = {l}
         /\ \A n \in Nat :
              Reached(doc, l)[n + 1] =
                Reached(doc, l)[n] \cup UNION {doc[k].inherits : k \in Reached(doc, l)[n]}
<1> DEFINE S == SUBSET LevelIds
           F == [s \in S |-> s \cup UNION {doc[k].inherits : k \in s}]
           Rec(r) == [n \in Nat |-> IF n = 0 THEN {l}
                                    ELSE r[n - 1] \cup UNION {doc[k].inherits : k \in r[n - 1]}]
<1>1. F \in [S -> S]
  BY DEF LevelsDoc, Level
<1>2. PICK f \in [Nat -> S] : f[0] = {l} /\ \A n \in Nat : f[n + 1] = F[f[n]]
  <2>1. PICK D, x, G : D = S /\ x = {l} /\ G = F
    OBVIOUS
  <2>2. x \in D /\ G \in [D -> D]
    BY <1>1, <2>1
  <2>3. \E f \in [Nat -> D] : f[0] = x /\ \A n \in Nat : f[n + 1] = G[f[n]]
    BY <2>2, Iteration, SMTT(30)
  <2> HIDE DEF S, F
  <2>. QED  BY <2>1, <2>3
<1>3. \A n \in Nat : f[n + 1] = f[n] \cup UNION {doc[k].inherits : k \in f[n]}
  BY <1>2
<1>4. f = Rec(f)
  <2>1. ASSUME NEW n \in Nat PROVE f[n] = Rec(f)[n]
    <3>1. CASE n = 0
      BY <1>2, <3>1
    <3>2. CASE n # 0
      <4>1. n - 1 \in Nat /\ (n - 1) + 1 = n
        BY <3>2
      <4>2. f[(n - 1) + 1] = f[n - 1] \cup UNION {doc[k].inherits : k \in f[n - 1]}
        BY <1>3, <4>1
      <4>. QED  BY <3>2, <4>1, <4>2
    <3>. QED  BY <3>1, <3>2
  <2>2. f = [n \in Nat |-> f[n]] /\ Rec(f) = [n \in Nat |-> Rec(f)[n]]
    BY <1>2
  <2>. QED  BY <2>1, <2>2
<1>5. Reached(doc, l) = CHOOSE r : r = Rec(r)
  BY Zenon DEF Reached
<1>6. PICK r : r = Reached(doc, l) /\ r = Rec(r)
  <2> HIDE DEF Rec
  <2>. QED  BY <1>4, <1>5
<1>7. /\ r[0] = {l}
      /\ \A n \in Nat : r[n + 1] = r[n] \cup UNION {doc[k].inherits : k \in r[n]}
  <2>1. \A n \in Nat : n + 1 \in Nat /\ n + 1 # 0 /\ (n + 1) - 1 = n
    OBVIOUS
  <2>2. \A n \in Nat : r[n] = IF n = 0 THEN {l}
                              ELSE r[n - 1] \cup UNION {doc[k].inherits : k \in r[n - 1]}
    BY <1>6
  <2>3. r[0] = {l}
    BY <2>2
  <2>4. ASSUME NEW n \in Nat PROVE r[n + 1] = r[n] \cup UNION {doc[k].inherits : k \in r[n]}
    BY <2>1, <2>2
  <2>. QED  BY <2>3, <2>4
<1>8. r \in [Nat -> S]
  <2> DEFINE T == {n \in Nat : r[n] \in S}
  <2>1. 0 \in T
    BY <1>7
  <2>2. ASSUME NEW n \in Nat, n \in T PROVE n + 1 \in T
    <3>1. F[r[n]] \in S
      BY <1>1, <2>2
    <3>. QED  BY <1>7, <2>2, <3>1
  <2>3. \A n \in Nat : n \in T
    <3> HIDE DEF T
    <3>. QED  BY <2>1, <2>2, Counting
  <2>4. r = [n \in Nat |-> r[n]]
    BY <1>6
  <2>. QED  BY <2>3, <2>4
<1>. QED  BY <1>6, <1>7, <1>8

\* As many steps as there are levels reach everything that can be reached.
LEMMA ReachedIsClosed ==
  ASSUME NEW doc \in LevelsDoc, NEW l \in LevelIds,
         NEW all, all = Reached(doc, l)[Cardinality(LevelIds)]
  PROVE  all \in SUBSET LevelIds /\ l \in all /\ \A k \in all : doc[k].inherits \subseteq all
<1>0. /\ Reached(doc, l) \in [Nat -> SUBSET LevelIds] /\ Reached(doc, l)[0] = {l}
      /\ \A n \in Nat :
           Reached(doc, l)[n + 1] =
             Reached(doc, l)[n] \cup UNION {doc[k].inherits : k \in Reached(doc, l)[n]}
  BY ReachedFacts
<1>1. PICK r \in [Nat -> SUBSET LevelIds] :
        /\ r = Reached(doc, l) /\ r[0] = {l}
        /\ \A n \in Nat : r[n + 1] = r[n] \cup UNION {doc[k].inherits : k \in r[n]}
  BY <1>0, Zenon
<1>2. IsFiniteSet(LevelIds) /\ Cardinality(LevelIds) \in Nat
  BY AssessmentAssumption, FS_CardinalityType
<1>3. \A n \in Nat : IsFiniteSet(r[n]) /\ Cardinality(r[n]) \in Nat
                     /\ Cardinality(r[n]) <= Cardinality(LevelIds)
  <2>1. ASSUME NEW n \in Nat
        PROVE  IsFiniteSet(r[n]) /\ Cardinality(r[n]) <= Cardinality(LevelIds)
    <3>1. r[n] \in SUBSET LevelIds
      OBVIOUS
    <3>. QED  BY <1>2, <3>1, FS_Subset
  <2>. QED  BY <2>1, FS_CardinalityType
<1> DEFINE Shut(s) == \A k \in s : doc[k].inherits \subseteq s
           T == {n \in Nat : l \in r[n] /\ (Shut(r[n]) \/ Cardinality(r[n]) >= n + 1)}
<1>4. 0 \in T
  <2>1. Cardinality({l}) = 1
    BY FS_Singleton
  <2>2. l \in r[0] /\ Cardinality(r[0]) >= 0 + 1
    BY <1>1, <2>1
  <2>. QED  BY <2>2
<1>5. ASSUME NEW n \in Nat, n \in T PROVE n + 1 \in T
  <2>1. r[n + 1] = r[n] \cup UNION {doc[k].inherits : k \in r[n]} /\ l \in r[n + 1]
    BY <1>1, <1>5
  <2>2. CASE Shut(r[n])
    <3>1. r[n + 1] = r[n]
      BY <2>1, <2>2
    <3>. QED  BY <2>1, <2>2, <3>1
  <2>3. CASE ~Shut(r[n])
    <3>1. r[n] # r[n + 1] /\ r[n] \in SUBSET r[n + 1]
      BY <2>1, <2>3
    <3>2. Cardinality(r[n]) <= Cardinality(r[n + 1]) /\ Cardinality(r[n]) # Cardinality(r[n + 1])
      BY <1>3, <3>1, FS_Subset
    <3>3. Cardinality(r[n]) >= n + 1
      BY <1>5, <2>3
    <3>4. PICK c \in Nat, d \in Nat : c = Cardinality(r[n]) /\ d = Cardinality(r[n + 1])
      BY <1>3
    <3>5. d >= (n + 1) + 1
      BY <3>2, <3>3, <3>4
    <3>6. Cardinality(r[n + 1]) >= (n + 1) + 1
      BY <3>4, <3>5
    <3>7. n + 1 \in Nat
      OBVIOUS
    <3>. QED  BY <2>1, <3>6, <3>7, Zenon
  <2>. QED  BY <2>2, <2>3
<1>6. \A n \in Nat : n \in T
  <2> HIDE DEF T
  <2>. QED  BY <1>4, <1>5, Counting
<1>7. PICK c \in Nat : c = Cardinality(LevelIds)
  BY <1>2
<1>8. l \in r[c] /\ (Shut(r[c]) \/ Cardinality(r[c]) >= c + 1)
  BY <1>6
<1>9. ~(Cardinality(r[c]) >= c + 1)
  BY <1>3, <1>7
<1>. QED  BY <1>1, <1>7, <1>8, <1>9

\* What is reached is what the level rests on, no more and no less.
LEMMA ReachedIsRestsOn ==
  ASSUME NEW doc \in LevelsDoc, NEW l \in LevelIds
  PROVE  Reached(doc, l)[Cardinality(LevelIds)] = RestsOn(doc, l)
<1>1. PICK all : all = Reached(doc, l)[Cardinality(LevelIds)]
  OBVIOUS
<1>2. all \in SUBSET LevelIds /\ l \in all /\ \A k \in all : doc[k].inherits \subseteq all
  BY <1>1, ReachedIsClosed
<1>3. RestsOn(doc, l) \subseteq all
  BY <1>2 DEF RestsOn
<1>4. ASSUME NEW s \in SUBSET LevelIds, l \in s, \A k \in s : doc[k].inherits \subseteq s
      PROVE  all \subseteq s
  <2>0. /\ Reached(doc, l) \in [Nat -> SUBSET LevelIds] /\ Reached(doc, l)[0] = {l}
        /\ \A n \in Nat :
             Reached(doc, l)[n + 1] =
               Reached(doc, l)[n] \cup UNION {doc[k].inherits : k \in Reached(doc, l)[n]}
    BY ReachedFacts
  <2>1. PICK r \in [Nat -> SUBSET LevelIds] :
          /\ r = Reached(doc, l) /\ r[0] = {l}
          /\ \A n \in Nat : r[n + 1] = r[n] \cup UNION {doc[k].inherits : k \in r[n]}
    BY <2>0, Zenon
  <2> DEFINE T == {n \in Nat : r[n] \subseteq s}
  <2>2. 0 \in T
    BY <1>4, <2>1
  <2>3. ASSUME NEW n \in Nat, n \in T PROVE n + 1 \in T
    BY <1>4, <2>1, <2>3
  <2>4. \A n \in Nat : n \in T
    <3> HIDE DEF T
    <3>. QED  BY <2>2, <2>3, Counting
  <2>5. Cardinality(LevelIds) \in Nat
    BY AssessmentAssumption, FS_CardinalityType
  <2>. QED  BY <1>1, <2>1, <2>4, <2>5
<1>5. all \subseteq RestsOn(doc, l)
  BY <1>2, <1>4 DEF RestsOn
<1>. QED  BY <1>1, <1>3, <1>5

\* requiredFamilies asks of a level what it requires and what every level it rests on requires,
\* whatever the shape of levels.json, cycles included (requiredFamilies, report.mjs).
THEOREM RequirementsAreInherited ==
  \A doc \in LevelsDoc, l \in LevelIds :
    RequiredFamilies(doc, l) = UNION {doc[k].required : k \in RestsOn(doc, l)}
BY ReachedIsRestsOn DEF RequiredFamilies

-----------------------------------------------------------------------------
(* What a finished run is worth. *)

\* main reports after the last case.
ReportedLast == pc = "reported" => at = N + 1

LEMMA ReportedInit == Init => ReportedLast
BY DEF Init, ReportedLast

LEMMA ReportedStep == ReportedLast /\ [Next]_vars => ReportedLast'
BY DEF ReportedLast, Next, Runner, Events, Implementation, Request, Skip, Resume, Report,
       SpawnError, ProcessClose, Chunk, Deliver, Settle, Throw, Timeout, Exit, Say, main, vars

\* So a report has a result for every case, in the order of the cases.
LEMMA ReportedInFull ==
  ASSUME Typed, InOrder, ReportedLast, pc = "reported"
  PROVE  DOMAIN results = Cases
<1>1. Len(results) = N
  BY RunAssumption DEF Typed, TypeOK, InOrder, ReportedLast
<1>. QED  BY <1>1, RunAssumption DEF Typed, TypeOK, Cases

\* A pass that is earned stands on a line that names its case and is right.
LEMMA PassIsAnswered ==
  ASSUME Typed, ResultsAreEarned, NEW i \in DOMAIN results, results[i].pass
  PROVE  Answered(i)
<1>1. PICK k : Answers(results[i].line, i, k)
  BY DEF ResultsAreEarned, PassIsEarned
<1>2. results[i].line \in 1..heard /\ written[results[i].line] = [id |-> i, says |-> "right"]
  BY <1>1 DEF Answers
<1>. QED  BY <1>2 DEF Answered

\* What it takes to be granted a level.
LEMMA GrantTakes ==
  ASSUME NEW doc \in LevelsDoc, NEW l \in LevelIds, NEW outcomes, NEW filtered \in BOOLEAN,
         Granted(doc, l, outcomes, filtered)
  PROVE  /\ ~filtered
         /\ RequiredFamilies(doc, l) # {}
         /\ Missing(RequiredFamilies(doc, l), outcomes) = {}
         /\ Failed(RequiredFamilies(doc, l), outcomes) = {}
BY DEF Granted, LevelVerdict

LEMMA GrantIsEarned ==
  ASSUME Typed, ResultsAreEarned, DOMAIN results = Cases,
         NEW suite \in Suites, NEW doc \in Docs, NEW filtered \in BOOLEAN, NEW l \in LevelIds,
         Granted(doc, l, Graded(suite), filtered)
  PROVE  /\ ~filtered
         /\ \E k \in RestsOn(doc, l) : doc[k].required # {}
         /\ Earned(suite, doc, l)
<1> DEFINE required == UNION {doc[k].required : k \in RestsOn(doc, l)}
<1>1. doc \in LevelsDoc
  BY AssessmentAssumption
<1>2. required = RequiredFamilies(doc, l)
  BY <1>1, RequirementsAreInherited
<1>3. /\ ~filtered /\ required # {}
      /\ Missing(required, Graded(suite)) = {} /\ Failed(required, Graded(suite)) = {}
  BY <1>1, <1>2, GrantTakes
<1>4. ASSUME NEW f \in required
      PROVE  \E i \in Cases : suite[i] = f
  BY <1>3, <1>4 DEF Missing, Graded
<1>5. ASSUME NEW f \in required, NEW i \in Cases, suite[i] = f
      PROVE  Answered(i)
  <2>1. [family |-> suite[i], pass |-> results[i].pass] \in Graded(suite)
    BY DEF Graded
  <2>2. results[i].pass
    BY <1>3, <1>5, <2>1 DEF Failed
  <2>. QED  BY <2>2, PassIsAnswered
<1>6. Earned(suite, doc, l)
  BY <1>4, <1>5 DEF Earned
<1>. QED  BY <1>3, <1>6

\* GradesAreEarned: for any suite, levels.json and number of cases, and whatever the
\* implementation prints, a granted level, inherited families included, was earned case by case
\* (computeLevels, report.mjs).
THEOREM EveryGradeIsEarned == Spec => []GradesAreEarned
<1>1. Typed /\ EarnedInv /\ ReportedLast => GradesAreEarned
  BY GrantIsEarned, ReportedInFull DEF EarnedInv, GradesAreEarned
<1>. QED
  BY <1>1, TypeInit, TypeStep, WaitingInit, WaitingStep, EarnedInit, EarnedStep,
     ReportedInit, ReportedStep, PTL DEF Spec

\* ExitZeroIsEarned: exit code 0 is given only where every case was answered and every claimed
\* level was earned (the end of main, run.mjs).
THEOREM EveryExitZeroIsEarned == Spec => []ExitZeroIsEarned
<1>1. Typed /\ EarnedInv /\ ReportedLast => ExitZeroIsEarned
  <2> SUFFICES ASSUME Typed, EarnedInv, ReportedLast, pc = "reported",
                      NEW suite \in Suites, NEW doc \in Docs, NEW filtered \in BOOLEAN,
                      NEW claims \in SUBSET LevelIds,
                      ExitCode(doc, claims, Graded(suite), filtered) = 0
               PROVE  /\ \A i \in Cases : Answered(i)
                      /\ \A l \in claims : Earned(suite, doc, l) /\ ~filtered
    BY DEF ExitZeroIsEarned
  <2>1. /\ \A l \in claims : Granted(doc, l, Graded(suite), filtered)
        /\ \A r \in Graded(suite) : r.pass
    BY DEF ExitCode
  <2>0. DOMAIN results = Cases
    BY ReportedInFull DEF EarnedInv
  <2>2. ASSUME NEW i \in Cases PROVE Answered(i)
    <3>1. [family |-> suite[i], pass |-> results[i].pass] \in Graded(suite)
      BY <2>0 DEF Graded
    <3>2. results[i].pass
      BY <2>1, <3>1
    <3>. QED  BY <2>0, <3>2, PassIsAnswered DEF EarnedInv
  <2>3. ASSUME NEW l \in claims PROVE Earned(suite, doc, l) /\ ~filtered
    BY <2>0, <2>1, GrantIsEarned DEF EarnedInv
  <2>. QED  BY <2>2, <2>3
<1>. QED
  BY <1>1, TypeInit, TypeStep, WaitingInit, WaitingStep, EarnedInit, EarnedStep,
     ReportedInit, ReportedStep, PTL DEF Spec

=============================================================================
