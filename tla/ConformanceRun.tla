--------------------------- MODULE ConformanceRun ---------------------------
(***************************************************************************)
(* A run of the conformance runner against an implementation under test:   *)
(* the loop of main (src/tools/conformance-runner/run.mjs), the pipe to    *)
(* the implementation (lib/driver.mjs, class Iut), its timers, and an      *)
(* implementation that may print anything at any moment, or nothing, or    *)
(* die.                                                                    *)
(*                                                                         *)
(* The runner is one thread.  An event (a chunk of output, a timer, the    *)
(* end of the process) is handled to its end; the promise it settles is    *)
(* continued right after it, before the next event.  So main is either     *)
(* running or awaiting one request, and events happen only while it        *)
(* awaits; one chunk may hold several lines, and main sees none of them    *)
(* until all have been handled.                                            *)
(*                                                                         *)
(* Requests are numbered: 0 is the handshake, i is case i.  A line is who  *)
(* it claims to answer and what it says; what a case pins is compared by   *)
(* `compare`, whose verdict is part of what the line says.                 *)
(***************************************************************************)
EXTENDS Naturals, Sequences, FiniteSets

CONSTANTS
  N,          \* number of cases of the run
  Lines,      \* lines the implementation may print
  MaxLines,   \* bound: lines it prints in one run
  None        \* null

Cases    == 1..N
Requests == 0..N

\* What a line may be: a result with the right members or with wrong ones, an `ok: false`,
\* a JSON object of another shape, the JSON value null, no JSON at all, or nothing.  The codes
\* and messages of an `ok: false` are taken to have a text (driver.mjs:88, run.mjs:147,163).
Sayings == {"right", "wrong", "error", "shapeless", "null", "garbage", "blank"}
Line    == [id : Requests \cup {None}, says : Sayings]

Codes == {"spawn-failed", "process-exited", "unsolicited-output", "id-mismatch", "timeout"}

\* How a request ends: what settled its promise, and the line it was settled by.
Settlement ==
  [why : {"right", "wrong", "iut-error", "bad-response", "bad-json"} \cup Codes, line : Nat]

Result == [pass : BOOLEAN, line : Nat]

ASSUME RunAssumption ==
  /\ N \in Nat \ {0}
  /\ Lines \subseteq Line
  /\ MaxLines \in Nat
  /\ None \notin Nat /\ None \notin Codes /\ None \notin Settlement

VARIABLES
  pc,        \* main: "deciding" what to do next, "awaiting" an answer, "reported", "crashed"
  at,        \* the request main is at; N + 1 after the last case
  ops,       \* cases whose op the handshake declared; None before it, or if it failed
  results,   \* the results pushed so far
  pending,   \* #pending: the outstanding request
  settled,   \* how the awaited promise has been settled, if it has
  dead,      \* #dead: why the pipe is of no use any more
  timers,    \* armed timers, by the request they were armed for
  iut,       \* the process: "unspawned", "running", "exited", "gone"
  written,   \* everything the process has printed
  inbuf,     \* how much of it has reached the runner in chunks
  heard,     \* how much of that has been handled
  asked      \* the requests sent, in order

vars == <<pc, at, ops, results, pending, settled, dead, timers, iut, written, inbuf, heard,
          asked>>

main   == <<pc, at, ops, results, asked>>
driver == <<pending, settled, dead, timers>>
pipe   == <<iut, written, inbuf, heard>>

TypeOK ==
  /\ pc \in {"deciding", "awaiting", "reported", "crashed"}
  /\ at \in 0..(N + 1)
  /\ ops \in (SUBSET Cases) \cup {None}
  /\ results \in Seq(Result)
  /\ pending \in Requests \cup {None}
  /\ settled \in Settlement \cup {None}
  /\ dead \in Codes \cup {None}
  /\ timers \subseteq Requests
  /\ iut \in {"unspawned", "running", "exited", "gone"}
  /\ written \in Seq(Lines)
  /\ inbuf \in 0..Len(written) /\ heard \in 0..inbuf
  /\ asked \in Seq(Requests)

Init ==
  /\ pc = "deciding" /\ at = 0 /\ ops = None /\ results = <<>> /\ asked = <<>>
  /\ pending = None /\ settled = None /\ dead = None /\ timers = {}
  /\ iut \in {"unspawned", "running"} /\ written = <<>> /\ inbuf = 0 /\ heard = 0

-----------------------------------------------------------------------------
(* main. *)

\* The case main is at gets a request: the handshake succeeded, its op is not declined and
\* the process is not known to be dead.
Answerable == ops # None /\ at \in ops /\ dead = None

\* The handshake, or a case that is put to the implementation.
Request ==
  /\ pc = "deciding"
  /\ at \in Requests
  /\ at # 0 => Answerable
  /\ pending' = at
  /\ timers' = timers \cup {at}
  /\ asked' = Append(asked, at)
  /\ pc' = "awaiting"
  /\ UNCHANGED <<at, ops, results, settled, dead>> /\ UNCHANGED pipe

\* Handshake failed, op declined or process dead: a failed case with a reason.
Skip ==
  /\ pc = "deciding"
  /\ at \in Cases
  /\ ~Answerable
  /\ results' = Append(results, [pass |-> FALSE, line |-> 0])
  /\ at' = at + 1
  /\ UNCHANGED <<pc, ops, asked>> /\ UNCHANGED driver /\ UNCHANGED pipe

\* The event is over and its promise settled: main goes on.
Resume ==
  /\ pc = "awaiting"
  /\ settled # None
  /\ heard = inbuf
  /\ IF at = 0
     THEN /\ IF settled.why \in {"right", "wrong"}
             THEN \E declared \in SUBSET Cases : ops' = declared
             ELSE ops' = None
          /\ UNCHANGED results
     ELSE /\ results' = Append(results, [pass |-> settled.why = "right", line |-> settled.line])
          /\ UNCHANGED ops
  /\ settled' = None
  /\ at' = at + 1
  /\ pc' = "deciding"
  /\ UNCHANGED <<asked, pending, dead, timers>> /\ UNCHANGED pipe

Report ==
  /\ pc = "deciding"
  /\ at = N + 1
  /\ pc' = "reported"
  /\ UNCHANGED <<at, ops, results, asked>> /\ UNCHANGED driver /\ UNCHANGED pipe

-----------------------------------------------------------------------------
(* The driver. *)

\* An event may be handled: main awaits, and the last event has been dealt with.
Idle == pc = "awaiting" /\ settled = None /\ heard = inbuf

\* Mutant: the pending request is dropped without being rejected.
DieSilently(code) ==
  /\ dead' = IF dead = None THEN code ELSE dead
  /\ pending' = None
  /\ UNCHANGED settled

\* #die: the first reason stands, and a pending request is rejected with it.
Die(code) ==
  /\ dead' = IF dead = None THEN code ELSE dead
  /\ pending' = None
  /\ settled' = IF pending = None THEN settled ELSE [why |-> dead', line |-> 0]

\* A timer fires, of the outstanding request or of one that is long settled.
Timeout(r) ==
  /\ Idle
  /\ r \in timers
  /\ timers' = timers \ {r}
  /\ Die("timeout")
  /\ UNCHANGED main /\ UNCHANGED pipe

SpawnError ==
  /\ Idle
  /\ iut = "unspawned"
  /\ iut' = "gone"
  /\ Die("spawn-failed")
  /\ UNCHANGED timers /\ UNCHANGED main /\ UNCHANGED <<written, inbuf, heard>>

\* The process has exited and everything it printed has been read.
ProcessClose ==
  /\ Idle
  /\ iut = "exited"
  /\ inbuf = Len(written)
  /\ iut' = "gone"
  /\ Die("process-exited")
  /\ UNCHANGED timers /\ UNCHANGED main /\ UNCHANGED <<written, inbuf, heard>>

\* A chunk arrives: one line or several.
Chunk ==
  /\ Idle
  /\ \E upTo \in (inbuf + 1)..Len(written) : inbuf' = upTo
  /\ UNCHANGED <<iut, written, heard>> /\ UNCHANGED main /\ UNCHANGED driver

\* What a line does to the request it is taken to answer.
Verdict(line) ==
  CASE line.says = "garbage"   -> "bad-json"
    [] line.id # pending       -> "id-mismatch"
    [] line.says = "error"     -> "iut-error"
    [] line.says = "shapeless" -> "bad-response"
    [] OTHER                   -> line.says

\* #deliver, for a line that answers, or fails to answer, the outstanding request.
Settle(line) ==
  /\ line.says # "null"
  /\ pending' = None
  /\ timers' = timers \ {pending}
  /\ dead' = IF Verdict(line) = "id-mismatch" /\ dead = None THEN "id-mismatch" ELSE dead
  /\ settled' = [why |-> Verdict(line), line |-> heard + 1]
  /\ UNCHANGED main

\* `msg.id` of the JSON value null throws out of the event handler, which nothing catches.
Throw(line) ==
  /\ line.says = "null"
  /\ pending' = None
  /\ timers' = timers \ {pending}
  /\ pc' = "crashed"
  /\ UNCHANGED <<settled, dead, at, ops, results, asked>>

\* Mutant: a line nobody asked for is dropped.
UnsolicitedIgnored == UNCHANGED driver

\* A line nobody asked for is fatal.
Unsolicited == Die("unsolicited-output") /\ UNCHANGED timers

\* One round of #onStdout's loop.
Deliver ==
  /\ pc = "awaiting"
  /\ heard < inbuf
  /\ heard' = heard + 1
  /\ UNCHANGED <<iut, written, inbuf>>
  /\ LET line == written[heard + 1]
     IN \/ line.says = "blank" /\ UNCHANGED main /\ UNCHANGED driver
        \/ line.says # "blank" /\ pending = None /\ Unsolicited /\ UNCHANGED main
        \/ line.says # "blank" /\ pending # None /\ (Settle(line) \/ Throw(line))

-----------------------------------------------------------------------------
(* The implementation under test. *)

Say(l) ==
  /\ iut = "running"
  /\ Len(written) < MaxLines
  /\ written' = Append(written, l)
  /\ UNCHANGED <<iut, inbuf, heard>> /\ UNCHANGED main /\ UNCHANGED driver

Exit ==
  /\ iut = "running"
  /\ iut' = "exited"
  /\ UNCHANGED <<written, inbuf, heard>> /\ UNCHANGED main /\ UNCHANGED driver

-----------------------------------------------------------------------------

Runner == Request \/ Skip \/ Resume \/ Report
Events == SpawnError \/ ProcessClose \/ Chunk \/ Deliver \/ \E r \in Requests : Timeout(r)
Implementation == Exit \/ \E l \in Lines : Say(l)

Next == Runner \/ Events \/ Implementation

\* The runner's thread does not stop by itself and an armed timer fires; the implementation
\* owes nothing.
Fairness ==
  /\ WF_vars(Runner)
  /\ WF_vars(Deliver)
  /\ \A r \in Requests : WF_vars(Timeout(r))

Spec == Init /\ [][Next]_vars

FairSpec == Spec /\ Fairness

-----------------------------------------------------------------------------
(* Properties. *)

\* The lines that count, among the first n.
Spoken(n) == {k \in 1..n : written[k].says # "blank"}

Position(r) == CHOOSE k \in DOMAIN asked : asked[k] = r

\* A case passes only on a line that names it, is right, and is as manieth among all the
\* implementation printed as the case's request is among the requests: a stray line before
\* it, however late it is read and whatever chunk it comes in, spends the pass.
PassesAreEarned ==
  \A i \in DOMAIN results :
    results[i].pass =>
      /\ \E k \in DOMAIN asked : asked[k] = i
      /\ written[results[i].line] = [id |-> i, says |-> "right"]
      /\ Cardinality(Spoken(results[i].line)) = Position(i)

\* A pipe that is dead has no request waiting on it: nobody awaits an answer that cannot
\* come, and no stale timer can reject a later request.
NobodyWaitsOnTheDead ==
  /\ dead # None => pending = None
  /\ Idle => pending # None /\ pending \in timers

\* "There is no way to answer a case with silence" (PROTOCOL.md:66-71): whatever the
\* implementation prints or does not, the run ends and every case has its result, unless what
\* it printed for an answer is the JSON value null, which ends the runner (driver.mjs:83).
EveryCaseGetsAResult ==
  <>(\/ pc = "reported" /\ Len(results) = N
     \/ pc = "crashed" /\ written[heard].says = "null")

\* "Every failure mode here resolves to a failed case rather than a thrown runner error"
\* (driver.mjs:3-6).
NoRunnerError == pc # "crashed"

=============================================================================
