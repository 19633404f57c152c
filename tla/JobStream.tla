----------------------------- MODULE JobStream -----------------------------
(***************************************************************************)
(* The live log of one job: the coroutines that write its lines (the        *)
(* stdout and stderr pumps of SSHClient.run, pollers and the job itself     *)
(* share one JobHandle), the persisted lines, the bounded and lossy queue   *)
(* of a subscriber, and the WebSocket handler that replays the backlog,     *)
(* tails the queue and re-reads the database on a timeout                   *)
(* (services/jobs.py, routers/jobs.py).                                     *)
(***************************************************************************)
EXTENDS Naturals, Sequences, FiniteSets

CONSTANTS
  Writers,     \* coroutines that log through the job's handle
  MaxLines,    \* bound on the lines of the job
  MaxProgress, \* bound on its progress events
  Capacity     \* maxsize of a subscriber's queue (1000 in the code)

ASSUME StreamAssumption ==
  MaxLines \in Nat /\ MaxProgress \in Nat /\ Capacity \in Nat \ {0}

VARIABLES
  seq,      \* JobHandle._seq
  line,     \* per writer: the line it is appending, 0 when it has none
  stored,   \* per writer: has the database write of that line returned
  progress, \* progress events published so far
  logs,     \* the persisted lines (job_logs.seq)
  closed,   \* is the job's row terminal
  task,     \* "working", "finishing", "over" or "cut"
  queue,    \* the subscriber's asyncio.Queue
  ws,       \* where the WebSocket handler stands
  finished, \* its finished: was the row terminal when it was read
  lastSeq,  \* its last_seq
  sent,     \* the log lines sent to the client, in order
  missed    \* history: lines the queue lost, or took after a later line, or
            \*   whose writer was cut off before it published them

vars == <<seq, line, stored, progress, logs, closed, task, queue, ws, finished,
          lastSeq, sent, missed>>
jobVars == <<seq, line, stored, progress, logs, closed, task>>
wsVars == <<ws, finished, lastSeq, sent>>

Lines  == 1..MaxLines
Log(n) == [kind |-> "log", seq |-> n]
Mark(kind) == [kind |-> kind, seq |-> 0]
Events == {Log(n) : n \in Lines}
            \union {Mark(k) : k \in {"progress", "status", "end"}}

(* The handler is subscribed from its first statement to its last.          *)
BugListeningFromTail == ws \in {"tail", "checking"}
Listening == ws \in {"connected", "reading", "replaying", "tail", "checking"}

TypeOK ==
  /\ seq \in 0..MaxLines
  /\ line \in [Writers -> 0..MaxLines]
  /\ stored \in [Writers -> BOOLEAN]
  /\ progress \in 0..MaxProgress
  /\ logs \subseteq 1..seq
  /\ closed \in BOOLEAN
  /\ task \in {"working", "finishing", "over", "cut"}
  /\ queue \in Seq(Events) /\ Len(queue) <= Capacity
  /\ ws \in {"none", "connected", "reading", "replaying", "tail", "checking",
            "ended", "gone"}
  /\ finished \in BOOLEAN
  /\ lastSeq \in 0..seq
  /\ sent \in Seq(1..seq)
  /\ missed \subseteq 1..seq

Init ==
  /\ seq = 0
  /\ line = [w \in Writers |-> 0]
  /\ stored = [w \in Writers |-> FALSE]
  /\ progress = 0
  /\ logs = {}
  /\ closed = FALSE
  /\ task = "working"
  /\ queue = <<>>
  /\ ws = "none" /\ finished = FALSE /\ lastSeq = 0 /\ sent = <<>>
  /\ missed = {}

-----------------------------------------------------------------------------
(* The queue a publish leaves behind: a full queue drops a log or progress  *)
(* event, and evicts its oldest event for a terminal one.                   *)
BugPutNoEviction(q, e) == IF Len(q) < Capacity THEN Append(q, e) ELSE q
BugPutUnbounded(q, e) == Append(q, e)
Put(q, e) ==
  IF Len(q) < Capacity THEN Append(q, e)
  ELSE IF e.kind \in {"status", "end"} THEN Append(Tail(q), e)
  ELSE q

(* The lines a queue holds.  What a publish takes out of it is lost.        *)
Held(q) == {q[i].seq : i \in DOMAIN q} \ {0}

PublishMarks(q) ==
  IF Listening
  THEN /\ queue' = q
       /\ missed' = missed \union (Held(queue) \ Held(q))
  ELSE UNCHANGED <<queue, missed>>

(* A line published too late: the client has a later one, or will have it.  *)
Overtaken(n) == n <= lastSeq \/ \E m \in Held(queue) : n < m

PublishLog(n) ==
  IF Listening
  THEN /\ queue' = Put(queue, Log(n))
       /\ missed' = IF Overtaken(n) \/ n \notin Held(queue')
                    THEN missed \union {n} ELSE missed
  ELSE UNCHANGED <<queue, missed>>

(* JobHandle.log or an ssh_log_cb call takes the next number ...            *)
TakeNumber(w) ==
  /\ task = "working" /\ line[w] = 0 /\ seq < MaxLines
  /\ seq' = seq + 1
  /\ line' = [line EXCEPT ![w] = seq + 1]
  /\ stored' = [stored EXCEPT ![w] = FALSE]
  /\ UNCHANGED <<progress, logs, closed, task, queue, missed,
                 wsVars>>

(* ... awaits the insert of the line, which a busy database may drop ...    *)
Store(w) ==
  /\ line[w] # 0 /\ ~stored[w]
  /\ logs' \in {logs, logs \union {line[w]}}
  /\ stored' = [stored EXCEPT ![w] = TRUE]
  /\ UNCHANGED <<seq, line, progress, closed, task, queue, missed,
                 wsVars>>

(* ... and publishes it either way, unless it is cut off before.            *)
PublishLine(w) ==
  /\ line[w] # 0 /\ stored[w]
  /\ PublishLog(line[w])
  /\ line' = [line EXCEPT ![w] = 0]
  /\ UNCHANGED <<seq, stored, progress, logs, closed, task, wsVars>>

(* Mutant: what a writer that was cut off has stored is not accounted for.  *)
BugCutOff(w) ==
  /\ line[w] # 0
  /\ logs' = logs \union {line[w]}
  /\ line' = [line EXCEPT ![w] = 0]
  /\ UNCHANGED <<seq, stored, progress, closed, task, queue, missed, wsVars>>

(* A writer is cancelled while it awaits the insert or the end of its       *)
(* session: an operator cancels the job, the command it reads from is given *)
(* up, or a start stops following the journal (which the job outlives).     *)
(* The line may be in the table, and nobody will publish it.                *)
CutOff(w) ==
  /\ line[w] # 0
  /\ logs' \in {logs} \union (IF stored[w] THEN {} ELSE {logs \union {line[w]}})
  /\ missed' = IF Listening THEN missed \union {line[w]} ELSE missed
  /\ line' = [line EXCEPT ![w] = 0]
  /\ UNCHANGED <<seq, stored, progress, closed, task, queue, wsVars>>

(* _set_progress: the row's progress is not followed here, its event is.    *)
Progress ==
  /\ task = "working" /\ progress < MaxProgress
  /\ progress' = progress + 1
  /\ PublishMarks(Put(queue, Mark("progress")))
  /\ UNCHANGED <<seq, line, stored, logs, closed, task, wsVars>>

(* The job's coroutine is over: _finish writes the row, or gives it up.     *)
Close ==
  /\ task = "working" /\ \A w \in Writers : line[w] = 0
  /\ task' = "finishing"
  /\ closed' \in BOOLEAN
  /\ UNCHANGED <<seq, line, stored, progress, logs, queue, missed, wsVars>>

(* Then it publishes the status and the end, with no await between them.    *)
Announce ==
  /\ task = "finishing"
  /\ task' = "over"
  /\ PublishMarks(Put(Put(queue, Mark("status")), Mark("end")))
  /\ UNCHANGED <<seq, line, stored, progress, logs, closed, wsVars>>

(* A cancellation while the write of an except clause is awaited: the row   *)
(* may be terminal and nothing is published.                                *)
AnnounceCut ==
  /\ task = "finishing"
  /\ task' = "cut"
  /\ UNCHANGED <<seq, line, stored, progress, logs, closed, queue, missed,
                 wsVars>>

-----------------------------------------------------------------------------
(* stream_logs: subscribe ...                                               *)
Connect ==
  /\ ws = "none"
  /\ ws' = "connected"
  /\ queue' = <<>>
  /\ UNCHANGED <<jobVars, missed, finished, lastSeq, sent>>

(* ... then read the row, and after it the lines (two SELECTs) ...          *)
ReadRow ==
  /\ ws = "connected"
  /\ ws' = "reading"
  /\ finished' = closed
  /\ UNCHANGED <<jobVars, missed, queue, lastSeq, sent>>

Highest(S) == CHOOSE n \in S \union {0} : \A m \in S : m <= n
InOrder(S) == [i \in 1..Cardinality(S) |->
                 CHOOSE n \in S : Cardinality({m \in S : m <= n}) = i]

(* ... and send them one by one ...                                         *)
ReadLines ==
  /\ ws = "reading"
  /\ ws' = "replaying"
  /\ sent' = InOrder(logs)
  /\ lastSeq' = Highest(logs)
  /\ UNCHANGED <<jobVars, missed, finished, queue>>

(* ... and stop there if the job was over.                                  *)
Replayed ==
  /\ ws = "replaying"
  /\ ws' = IF finished THEN "ended" ELSE "tail"
  /\ UNCHANGED <<jobVars, missed, finished, queue, lastSeq, sent>>

(* One event of the live tail; a line already sent is skipped.              *)
BugFresh(e) == TRUE
Fresh(e) == e.kind = "log" => e.seq > lastSeq

Receive ==
  /\ ws = "tail" /\ queue # <<>>
  /\ LET e == Head(queue) IN
       /\ IF e.kind = "log" /\ Fresh(e)
          THEN /\ sent' = Append(sent, e.seq)
               /\ lastSeq' = e.seq
          ELSE UNCHANGED <<sent, lastSeq>>
       /\ ws' = IF e.kind = "end" THEN "ended" ELSE "tail"
  /\ queue' = Tail(queue)
  /\ UNCHANGED <<jobVars, missed, finished>>

(* Five seconds without an event: look at the row again ...                 *)
BugTerminalSeen == TRUE
TerminalSeen == closed

Timeout ==
  /\ ws = "tail" /\ queue = <<>>
  /\ TerminalSeen
  /\ ws' = "checking"
  /\ UNCHANGED <<jobVars, missed, finished, queue, lastSeq, sent>>

(* ... and at the highest persisted line; end if it has been sent.          *)
Check ==
  /\ ws = "checking"
  /\ ws' = IF lastSeq >= Highest(logs) THEN "ended" ELSE "tail"
  /\ UNCHANGED <<jobVars, missed, finished, queue, lastSeq, sent>>

(* The client goes away, or its session stops being valid.                  *)
Disconnect ==
  /\ Listening
  /\ ws' = "gone"
  /\ UNCHANGED <<jobVars, missed, finished, queue, lastSeq, sent>>

-----------------------------------------------------------------------------
Next ==
  \/ \E w \in Writers : TakeNumber(w) \/ Store(w) \/ PublishLine(w) \/ CutOff(w)
  \/ Progress \/ Close \/ Announce \/ AnnounceCut
  \/ Connect \/ ReadRow \/ ReadLines \/ Replayed
  \/ Receive \/ Timeout \/ Check \/ Disconnect

(* The handler wakes at least every five seconds; the job's coroutines are  *)
(* stepped by the event loop once they have begun to append or to finish.   *)
Fairness ==
  /\ \A w \in Writers : WF_vars(Store(w) \/ PublishLine(w) \/ CutOff(w))
  /\ WF_vars(Announce \/ AnnounceCut)
  /\ WF_vars(\/ ReadRow \/ ReadLines \/ Replayed
             \/ Receive \/ Timeout \/ Check)

Spec == Init /\ [][Next]_vars
FairSpec == Spec /\ Fairness

-----------------------------------------------------------------------------
(* The client sees its lines in the order they were numbered and none       *)
(* twice, though backlog and queue overlap and writers overtake each other. *)
SentInOrder ==
  \A i, k \in 1..Len(sent) : i < k => sent[i] < sent[k]

(* The client is never told "end" while the job is still at work.           *)
EndIsHonest == ws = "ended" => task # "working"

(* docs/ARCHITECTURE.md, section 5: "a job can complete, the lossy queue    *)
(* can drop its terminal event, and the stream still ends correctly".  A    *)
(* job that closed its row and was cut off before it announced anything     *)
(* counts too, unless a line of its own never reached the client.           *)
StreamEnds ==
  (closed /\ Listening /\ (task = "over" \/ (task = "cut" /\ missed = {})))
    ~> (ws \in {"ended", "gone"})

(* routers/jobs.py:87-88: the stream ends "once it is terminal and we have  *)
(* sent every persisted log line".  It can miss none but those the full     *)
(* queue lost, those published after a later line, and those whose writer   *)
(* was cancelled between storing and publishing them (_append_log): backlog *)
(* and tail leave no gap between them, wherever the client connects.        *)
EverythingSent ==
  ws = "ended" =>
    \A n \in logs \ missed : \E i \in 1..Len(sent) : sent[i] = n

(* What the stream keeps: the types, the bound of the queue among them      *)
(* (services/jobs.py:321), the order of the lines sent, and an honest end.  *)
StreamInv == TypeOK /\ SentInOrder /\ EndIsHonest
=============================================================================
