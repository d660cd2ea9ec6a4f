------------------------------ MODULE Reporting ------------------------------
(***************************************************************************)
(* Test reports on their way to the gateway: the client of pytest-satori   *)
(* and satori-test-report with its queue file (satori_gateway/reporting.py,*)
(* pytest_plugin.py, test_report_cli.py), the network, the credential that *)
(* signs them (security.py) and the endpoint that judges them (app.py,     *)
(* testing.py; module Adjudicator has the verdicts).                       *)
(*                                                                         *)
(* The clients are processes that share one queue file and lock nothing.   *)
(* A report is all that a line of the file holds; two reports of one test  *)
(* have the same trace id and attempt, hence the same key, also in later   *)
(* runs.  A client that gives up waiting does not take its request back:   *)
(* the server may still handle it.  The endpoint judges and persists       *)
(* without awaiting; an exception after that answers 500.                  *)
(*                                                                         *)
(* A line is JSON with U+2028, U+2029 and U+0085 as they are, and the      *)
(* queue file is read with splitlines(), for which they end a line.        *)
(***************************************************************************)
EXTENDS Integers, FiniteSets, SequencesExt, Picking

CONSTANTS
    Clients,
    Plugins,        \* the clients that are pytest sessions; the others run the CLI
    Reports,
    Separated,      \* the reports with such a separator in a text
    KeyOf,          \* KeyOf[r]: reporter, trace id, test name and attempt
    Runs,           \* Runs[c]: the reports a run of c may collect, in order
    MaxDeaths,      \* bound on clients and servers that die
    MaxOrphans,     \* bound on the requests under way with nobody waiting for them
    MaxQueue        \* lines the queue file has room for

Nobody == "nobody"

ASSUME ReportingAssumption ==
    /\ Plugins \subseteq Clients /\ Nobody \notin Clients
    /\ Separated \subseteq Reports
    /\ \A c \in Clients : Runs[c] \subseteq Seq(Reports)
    /\ MaxDeaths \in Nat /\ MaxOrphans \in Nat /\ MaxQueue \in Nat

VARIABLES
    queue,      \* the lines of the queue file
    pc,         \* what a client does
    todo,       \* its reports still to be sent, the one under way first
    skip,       \* failed_this_round
    flush,      \* is it sending from the queue: what flush_queue has read, or not
    failed,     \* what flush_queue could not deliver
    wire,       \* requests that reached the server and are not handled yet
    active,     \* is the credential active
    seen,       \* TestAdjudicator._seen
    stream,     \* test_reports.jsonl: the keys of the reports that were judged
    deaths,     \* history
    settled,    \* history: reports of the latest run that were delivered
    lost,       \* history: and those refused, or of which a fault has taken a copy
    foreign     \* history: lines of the file that a client does not know that
                \* has read it

client  == <<pc, todo, skip, flush, failed>>
server  == <<wire, active, seen, stream>>
history == <<deaths, settled, lost, foreign>>
vars    == <<queue, client, server, history>>

Keys == {KeyOf[r] : r \in Reports}

\* No flush: an empty queue is not flushed either.
NotFlushing == <<>>

Flushing(c) == flush[c] # NotFlushing

Current(c) == Head(todo[c])

Init ==
    /\ queue = <<>>
    /\ pc = [c \in Clients |-> "idle"]
    /\ todo = [c \in Clients |-> <<>>]
    /\ skip = [c \in Clients |-> {}]
    /\ flush = [c \in Clients |-> NotFlushing]
    /\ failed = [c \in Clients |-> <<>>]
    /\ wire = {} /\ active = TRUE /\ seen = {} /\ stream = <<>>
    /\ deaths = 0 /\ settled = {} /\ lost = {}
    /\ foreign = [c \in Clients |-> {}]

-----------------------------------------------------------------------------
(* The client: one run after another.                                      *)

\* A run is over and its reports are sent: pytest_sessionfinish, main.
BeginRun(c) ==
    /\ pc[c] = "idle"
    /\ \E run \in Runs[c] :
          /\ todo' = [todo EXCEPT ![c] = run]
          /\ settled' = settled \ ToSet(run)
          /\ lost' = lost \ ToSet(run)
    /\ pc' = [pc EXCEPT ![c] = "next"]
    /\ UNCHANGED <<queue, skip, flush, failed, server, deaths, foreign>>

\* send: the report is signed and posted.
Send(c) ==
    /\ pc[c] = "next" /\ todo[c] # <<>>
    /\ pc' = [pc EXCEPT ![c] = "wait"]
    /\ wire' = wire \cup {[from |-> c, report |-> Current(c), stage |-> "sent"]}
    /\ UNCHANGED <<queue, todo, skip, flush, failed, active, seen, stream, history>>

By(c) == {m \in wire : m.from = c}

\* Requests that outlive the wait for their answer, MaxOrphans at a time.
Abandoned(c) ==
    LET orphaned == (wire \ By(c)) \cup {[m EXCEPT !.from = Nobody] : m \in By(c)}
    IN  IF Cardinality({m \in orphaned : m.from = Nobody}) =< MaxOrphans THEN orphaned
        ELSE wire \ By(c)

\* Nothing comes back in time, or the request could not be signed or sent.
\* A request under way stays there, with nobody to take its answer.
GiveUp(c) ==
    /\ pc[c] = "wait"
    /\ pc' = [pc EXCEPT ![c] = "error"]
    /\ wire' \in {wire \ By(c), Abandoned(c)}
    /\ UNCHANGED <<queue, todo, skip, flush, failed, active, seen, stream, history>>

\* The other clients that have read the file see lines come that they do not know.
Unknown(c, reports) ==
    foreign' = [d \in Clients |->
                    IF d # c /\ Flushing(d) /\ pc[d] # "rewrite"
                    THEN foreign[d] \cup reports ELSE foreign[d]]

\* Mutant of Advance: the report is done but its answer is not forgotten.
KeepsAnswer(c) == todo' = [todo EXCEPT ![c] = Tail(@)] /\ UNCHANGED pc

Advance(c) == /\ pc' = [pc EXCEPT ![c] = "next"]
              /\ todo' = [todo EXCEPT ![c] = Tail(@)]

\* 2xx, also for a report that was a duplicate.
Delivered(c) ==
    /\ pc[c] = "ok"
    /\ Advance(c)
    /\ settled' = settled \cup {Current(c)}
    /\ UNCHANGED <<queue, skip, flush, failed, server, deaths, lost, foreign>>

\* 4xx: dropped with a warning, but not from the queue: for flush_queue a report
\* that did not succeed is one that failed.
Rejected(c) ==
    /\ pc[c] = "rejected"
    /\ Advance(c)
    /\ lost' = lost \cup {Current(c)}
    /\ failed' = IF Flushing(c) THEN [failed EXCEPT ![c] = Append(@, Current(c))] ELSE failed
    /\ UNCHANGED <<queue, skip, flush, server, deaths, settled, foreign>>

\* 5xx or no answer: _enqueue appends a line, unless the file cannot be written.
\* Within flush_queue the line is appended as well, for the rewrite to drop it.
Queued(c) ==
    /\ pc[c] = "error"
    /\ Advance(c)
    /\ \/ /\ Len(queue) < MaxQueue
          /\ queue' = Append(queue, Current(c))
          /\ Unknown(c, {Current(c)})
          /\ UNCHANGED lost
       \/ /\ Len(queue) = MaxQueue
          /\ lost' = IF Flushing(c) THEN lost ELSE lost \cup {Current(c)}
          /\ UNCHANGED <<queue, foreign>>
    /\ IF Flushing(c)
       THEN failed' = [failed EXCEPT ![c] = Append(@, Current(c))] /\ UNCHANGED skip
       ELSE /\ skip' = IF c \in Plugins THEN [skip EXCEPT ![c] = @ \cup {Current(c)}] ELSE skip
            /\ UNCHANGED failed
    /\ UNCHANGED <<flush, server, deaths, settled>>

\* The lines of q that are among the given reports.
Within(q, reports) == Picked(q, {i \in DOMAIN q : q[i] \in reports})

\* pending: halves of a line are no JSON and are passed over.
Pending == Within(queue, Reports \ Separated)

\* Mutants of History: what failed this round is sent again; the two halves of the
\* queue are swapped.
AllOfIt(c) == Pending
OnlySkipped(c) == Within(Pending, skip[c])

\* Only what was there before this round, for the plugin.
History(c) == Within(Pending, Reports \ skip[c])

\* The run is over, or the client is: its variables are gone.
EndRun(c) ==
    /\ pc' = [pc EXCEPT ![c] = "idle"]
    /\ todo' = [todo EXCEPT ![c] = <<>>]
    /\ skip' = [skip EXCEPT ![c] = {}]
    /\ flush' = [flush EXCEPT ![c] = NotFlushing]
    /\ failed' = [failed EXCEPT ![c] = <<>>]

\* flush_queue reads the file.
ReadQueue(c) ==
    /\ pc[c] = "next" /\ todo[c] = <<>> /\ ~Flushing(c)
    /\ IF Pending = <<>>
       THEN EndRun(c) /\ UNCHANGED foreign
       ELSE /\ flush' = [flush EXCEPT ![c] = Pending]
            /\ todo' = [todo EXCEPT ![c] = History(c)]
            /\ foreign' = [foreign EXCEPT ![c] = ToSet(queue) \cap Separated]
            /\ UNCHANGED <<pc, skip, failed>>
    /\ UNCHANGED <<queue, server, deaths, settled, lost>>

\* Mutant of Remaining: only what failed just now is written back.
OnlyFailed(c) == failed[c]

\* skipped + failed.
Remaining(c) == Within(flush[c], skip[c]) \o failed[c]

\* What a client holds that no line of the file has.
Held(c) ==
    IF pc[c] = "idle" THEN {}
    ELSE ToSet(todo[c]) \cup (IF Flushing(c) THEN ToSet(Remaining(c)) ELSE {})

\* _rewrite_queue opens the file for writing, which empties it, also of the lines
\* that flush_queue could not read or that came after it has read.
Truncate(c) ==
    /\ pc[c] = "next" /\ todo[c] = <<>> /\ Flushing(c)
    /\ pc' = [pc EXCEPT ![c] = "rewrite"]
    /\ queue' = <<>>
    /\ lost' = lost \cup foreign[c]
    /\ foreign' = [foreign EXCEPT ![c] = {}]
    /\ UNCHANGED <<todo, skip, flush, failed, server, deaths, settled>>

\* The lines reach the file from its beginning, over the first of those that
\* others have appended since it was emptied.
Rewrite(c) ==
    /\ pc[c] = "rewrite"
    /\ EndRun(c)
    /\ \E over \in 0 .. Len(queue) :
          /\ (over = 0) <=> (Remaining(c) = <<>> \/ queue = <<>>)
          /\ queue' = Remaining(c) \o SubSeq(queue, over + 1, Len(queue))
          /\ Len(queue') =< MaxQueue
          /\ lost' = lost \cup ToSet(SubSeq(queue, 1, over))
    /\ Unknown(c, ToSet(Remaining(c)))
    /\ UNCHANGED <<server, deaths, settled>>

\* A client dies with what it holds.
ClientDies(c) ==
    /\ deaths < MaxDeaths /\ pc[c] # "idle"
    /\ deaths' = deaths + 1
    /\ lost' = lost \cup Held(c)
    /\ EndRun(c)
    /\ foreign' = [foreign EXCEPT ![c] = {}]
    /\ wire' \in {wire \ By(c), Abandoned(c)}
    /\ UNCHANGED <<queue, active, seen, stream, settled>>

-----------------------------------------------------------------------------
(* The server.                                                             *)

\* The answer reaches its client, or gets lost.
Answer(m, result) ==
    \/ m.from # Nobody /\ pc' = [pc EXCEPT ![m.from] = result]
    \/ UNCHANGED pc

\* verify reads the credential before it awaits the body; without one the answer
\* is 401.  A report with an unknown target gets 400, to the same effect.
LookUp(m) ==
    /\ m \in wire /\ m.stage = "sent"
    /\ IF active
       THEN wire' = (wire \ {m}) \cup {[m EXCEPT !.stage = "known"]} /\ UNCHANGED pc
       ELSE wire' = wire \ {m} /\ Answer(m, "rejected")
    /\ UNCHANGED <<queue, todo, skip, flush, failed, active, seen, stream, history>>

\* A key that was seen is not judged again.
Judge(r) ==
    /\ seen' = seen \cup {KeyOf[r]}
    /\ stream' = IF KeyOf[r] \in seen THEN stream ELSE Append(stream, KeyOf[r])

\* test_report.  A dashboard that comes or goes while it publishes makes it fail
\* after the verdict; with [testing] off it fails before.
Handle(m) ==
    /\ m \in wire /\ m.stage = "known"
    /\ wire' = wire \ {m}
    /\ \/ Judge(m.report) /\ \E result \in {"ok", "error"} : Answer(m, result)
       \/ Answer(m, "error") /\ UNCHANGED <<seen, stream>>
    /\ UNCHANGED <<queue, todo, skip, flush, failed, active, history>>

\* admin_revoke_credential: for good, the name cannot be issued again.
Revoke ==
    /\ active
    /\ active' = FALSE
    /\ UNCHANGED <<queue, client, wire, seen, stream, history>>

\* Mutant of Reload: the keys are not read back.
ForgetKeys == {}

\* The constructor replays the stream.
Reload == ToSet(stream)

\* The server dies, with every request under way, and starts again.
ServerDies ==
    /\ deaths < MaxDeaths
    /\ deaths' = deaths + 1
    /\ wire' = {}
    /\ seen' = Reload
    /\ UNCHANGED <<queue, client, active, stream, settled, lost, foreign>>

-----------------------------------------------------------------------------
Conclude(c) == Delivered(c) \/ Rejected(c) \/ Queued(c)
FlushQueue(c) == ReadQueue(c) \/ Truncate(c) \/ Rewrite(c)
Work(c)     == Send(c) \/ Conclude(c) \/ FlushQueue(c) \/ GiveUp(c)

Requests == [from : Clients \cup {Nobody}, report : Reports, stage : {"sent", "known"}]

Next ==
    \/ \E c \in Clients : BeginRun(c) \/ Work(c) \/ ClientDies(c)
    \/ \E m \in Requests : LookUp(m) \/ Handle(m)
    \/ Revoke \/ ServerDies

Spec == Init /\ [][Next]_vars

\* The machine runs the clients, and there is always another run; a client whose
\* reports reach the server again and again is answered in the end.
Fairness ==
    /\ \A c \in Clients : WF_vars(Work(c)) /\ WF_vars(BeginRun(c))
    /\ \A c \in Clients, r \in Reports :
          LET sent  == [from |-> c, report |-> r, stage |-> "sent"]
              known == [from |-> c, report |-> r, stage |-> "known"]
          IN  /\ SF_vars(LookUp(sent) /\ (active \/ pc'[c] = "rejected"))
              /\ SF_vars(Handle(known) /\ pc'[c] = "ok")

FairSpec == Spec /\ Fairness

-----------------------------------------------------------------------------
(* Properties.                                                             *)

Waiting == {"wait", "ok", "error", "rejected"}

\* A client that waits has a report under way, and only a client that flushes
\* rewrites the file; the requests and keys are those of the reports.
TypeOK ==
    /\ queue \in Seq(Reports) /\ Len(queue) =< MaxQueue
    /\ pc \in [Clients -> Waiting \cup {"idle", "next", "rewrite"}]
    /\ \A c \in Clients : /\ todo[c] \in Seq(Reports) /\ failed[c] \in Seq(Reports)
                          /\ pc[c] \in Waiting => todo[c] # <<>>
                          /\ pc[c] = "rewrite" => Flushing(c)
    /\ wire \subseteq Requests
    /\ active \in BOOLEAN /\ seen \subseteq Keys

\* What a client sends or holds and what the queue file holds.
Present(r) == r \in ToSet(queue) \/ \E c \in Clients : r \in Held(c)

\* No report disappears: when no client and no line of the file has it any more,
\* it was delivered, or refused, or it was lost in one of three ways: with a client
\* that died, to a client that rewrote the file over a line it had not read or not
\* understood, or to a file without room (reporting.py, send, _enqueue and
\* flush_queue).
NothingDropped ==
    [][\A r \in Reports :
          Present(r) /\ ~Present(r)' => r \in settled' \cup lost']_vars

\* A report is judged once, however often it is sent and whatever was answered, also
\* across restarts of the server: a report that was delivered has its key in the
\* stream, and no key is there twice (_judge's idempotency key and its replay).
JudgedOnce ==
    /\ \A r \in settled : KeyOf[r] \in ToSet(stream)
    /\ \A i, j \in DOMAIN stream : stream[i] = stream[j] => i = j

\* pytest's client does not send a report again in the round in which it failed,
\* also when earlier rounds have left the same report in the queue (flush_queue's
\* skip; the command line tool gives none and does send it again).
NotTwiceARound ==
    \A c \in Plugins : pc[c] = "wait" /\ Flushing(c) => Current(c) \notin skip[c]

\* A refused report is dropped, in a flush as well: it is not among what flush_queue
\* writes back for the next round (the reply 4xx of send and its comment).
RefusedIsDropped ==
    [][\A c \in Clients : Rejected(c) => Remaining(c)' = Remaining(c)]_vars

\* A report in the queue file does not stay there unheard: some later run has it
\* delivered, or it is refused or lost (flush_queue at the end of every run).
QueuedIsHeard ==
    \A r \in Reports : r \in ToSet(queue) ~> r \in settled \cup lost
=============================================================================
