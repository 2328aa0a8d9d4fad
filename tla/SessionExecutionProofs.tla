---------------------- MODULE SessionExecutionProofs ----------------------
(***************************************************************************)
(* Proofs about SessionExecution for every set of Turns and callers, every *)
(* number of checkpoints and every bound on a behaviour.                   *)
(***************************************************************************)
EXTENDS SessionExecution, WellFoundedInduction, TLAPS

Resuming == {"resume", "resume_approval", "resume_committed", "deny"}

\* A durable fact says what status s shows of Turn t.
Backed(t, s) ==
    /\ s = "Completed" => "TurnCompleted" \in Published(t)
    /\ s = "Failed" => "TurnFailed" \in Published(t)
    /\ s = "Cancelled" => Published(t) \cap {"TurnCancelled", "ExecutionCancelled"} # {}

\* What a request that is being served rests on.
Placed(c, t) ==
    /\ call[c].op \in Resuming => Saved(t) # {}
    /\ call[c].pc \in {"update", "commit"} => Backed(t, call[c].status)
    /\ call[c].result = "completed" => "TurnCompleted" \in Published(t)
    /\ call[c].pc = "completing" => "TurnCompleted" \in Published(t)
    /\ call[c].approval # "none" => call[c].cp > 0
    /\ call[c].approval = "confirmed" => decision[t][call[c].cp] = "approve"

Served(c) ==
    /\ call[c].pc # "idle" => call[c].turn \in Turns /\ call[c].op # "idle"
    /\ call[c].op # "idle" => call[c].turn \in Turns
    /\ call[c].pc \in {"begin", "start", "started"} => call[c].op = "start"
    /\ call[c].pc \in {"load", "state", "decide", "verify"} => call[c].op \in Resuming
    /\ call[c].pc = "admit" => call[c].op \in Resuming \cup {"start"}
    /\ \A t \in Turns : call[c].turn = t => Placed(c, t)

\* Confirmed checkpoints are approved, no checkpoint follows a cancellation, and the
\* first completion precedes it.
LogOK(t) ==
    /\ \A i \in DOMAIN log[t] :
          /\ log[t][i].approval # "none" => log[t][i].cp > 0
          /\ log[t][i].approval = "confirmed" => decision[t][log[t][i].cp] = "approve"
    /\ \A i, j \in DOMAIN log[t] :
          log[t][i].kind = "ExecutionCancelled" /\ i < j => log[t][j].kind \notin CheckpointKinds
    /\ \A i, j \in DOMAIN log[t] :
          log[t][i].kind = "ExecutionCancelled" /\ log[t][j].kind = "TurnCompleted" =>
             \E k \in DOMAIN log[t] : k < i /\ log[t][k].kind = "TurnCompleted"

RecordOK ==
    /\ \A t \in Turns : Backed(t, status[t])
    /\ \A t \in Turns : status[t] = "Completed" <=> \E i \in DOMAIN messages : messages[i] = t
    /\ \A i, j \in DOMAIN messages : messages[i] = messages[j] => i = j
    /\ \A t \in Turns : Open(t) => Len(messages) = input[t]
    /\ \A t, u \in Turns : Open(t) /\ Open(u) => t = u

IInv ==
    /\ TypeOK
    /\ \A c \in Callers : Served(c)
    /\ \A t \in Turns : LogOK(t)
    /\ RecordOK

----------------------------------------------------------------------------
\* A non-empty set of naturals has a smallest element.
LEMMA Smallest ==
    ASSUME NEW S \in SUBSET Nat, S # {}
    PROVE  \E x \in S : \A y \in S : x <= y
<1> DEFINE R == OpToRel(<, Nat)
<1>1. PICK x \in S : \A y \in S : <<y, x>> \notin R
  BY WFMin, NatLessThanWellFounded, Zenon
<1>2. \A y \in S : ~(y < x)
  BY <1>1 DEF OpToRel
<1> QED
  BY <1>2

\* The first and the last of some positions of a log are among them.
LEMMA FirstLast ==
    ASSUME NEW n \in Nat, NEW S \in SUBSET (1..n), S # {}
    PROVE  FirstOf(S) \in S /\ LastOf(S) \in S
<1>1. \E x \in S : \A y \in S : x <= y
  BY Smallest
<1>2. \E x \in S : \A y \in S : y <= x
  <2> DEFINE T == {n - x : x \in S}
  <2>1. T \in SUBSET Nat /\ T # {}
    <3>1. \A x \in S : n - x \in Nat
      OBVIOUS
    <3> QED
      BY <3>1
  <2>2. PICK z \in T : \A y \in T : z <= y
    BY <2>1, Smallest
  <2>3. PICK x \in S : z = n - x
    OBVIOUS
  <2>4. ASSUME NEW y \in S PROVE y <= x
    <3>1. n - y \in T
      OBVIOUS
    <3> QED
      BY <2>2, <2>3, <3>1
  <2> QED
    BY <2>4
<1> QED
  BY <1>1, <1>2 DEF FirstOf, LastOf

----------------------------------------------------------------------------
\* Types of what a request reads in the ledger.

\* The log of a Turn is a function on an initial segment.
LEMMA LogType ==
    ASSUME TypeOK, NEW t \in Turns
    PROVE  /\ log[t] \in Seq(Fact) /\ Len(log[t]) \in Nat /\ DOMAIN log[t] = 1..Len(log[t])
           /\ \A i \in 1..Len(log[t]) : log[t][i] \in Fact
BY DEF TypeOK

\* Every fact gives an execution one of the five statuses.
LEMMA StateOfType ==
    ASSUME NEW k \in Kinds
    PROVE  StateOf(k) \in Statuses
BY DEF Kinds, CheckpointKinds, TerminalKinds, StateOf, Statuses

\* The state of an execution is a status, or New.
LEMMA StateType ==
    ASSUME TypeOK, NEW t \in Turns
    PROVE  State(t) \in Statuses \cup {"New"}
<1> DEFINE n == Len(log[t])
           ends == {i \in 1..n : StateOf(log[t][i].kind) \in Closed}
<1>1. ends # {} => FirstOf(ends) \in ends
  BY LogType, FirstLast
<1>2. \A i \in 1..n : StateOf(log[t][i].kind) \in Statuses
  BY LogType, StateOfType DEF Fact
<1>3. log[t] # <<>> => n \in 1..n
  BY LogType
<1> QED
  BY <1>1, <1>2, <1>3, LogType DEF State, Statuses

\* A suspended execution has a checkpoint.
LEMMA SuspendedSaved ==
    ASSUME TypeOK, NEW t \in Turns, State(t) = "Suspended"
    PROVE  Saved(t) # {}
<1> DEFINE n == Len(log[t])
           ends == {i \in 1..n : StateOf(log[t][i].kind) \in Closed}
<1>1. ends # {} => FirstOf(ends) \in ends
  BY LogType, FirstLast
<1>2. ends = {} /\ log[t] # <<>> /\ StateOf(log[t][n].kind) = "Suspended"
  BY <1>1, LogType DEF State, Closed
<1>3. n \in 1..n /\ log[t][n].kind \in Kinds
  BY <1>2, LogType DEF Fact
<1>4. log[t][n].kind = "ExecutionSuspended"
  BY <1>2, <1>3 DEF StateOf, Kinds, CheckpointKinds, TerminalKinds
<1> QED
  BY <1>3, <1>4, LogType DEF Saved, Where, CheckpointKinds

\* The current checkpoint is one of the log's facts.
LEMMA CurrentType ==
    ASSUME TypeOK, NEW t \in Turns, Saved(t) # {}
    PROVE  /\ Current(t) \in Fact
           /\ \E i \in DOMAIN log[t] : log[t][i] = Current(t)
<1>1. Saved(t) \in SUBSET (1..Len(log[t]))
  BY LogType DEF Saved, Where
<1>2. LastOf(Saved(t)) \in Saved(t)
  BY <1>1, LogType, FirstLast
<1> QED
  BY <1>1, <1>2, LogType DEF Current

\* A terminal status is that of a terminal fact.
LEMMA TerminalBacked ==
    ASSUME TypeOK, NEW t \in Turns, terminal_status(t) # Null
    PROVE  terminal_status(t) \in Closed /\ Backed(t, terminal_status(t))
<1> DEFINE ends == Where(t, TerminalKinds)
           i == FirstOf(ends)
<1>1. ends \in SUBSET (1..Len(log[t])) /\ ends # {}
  BY LogType DEF Where, terminal_status
<1>2. i \in ends
  BY <1>1, LogType, FirstLast
<1>3. i \in DOMAIN log[t] /\ log[t][i].kind \in TerminalKinds
  BY <1>2 DEF Where
<1>4. log[t][i].kind \in Published(t)
  BY <1>3 DEF Published
<1>5. terminal_status(t) = StateOf(log[t][i].kind)
  BY <1>1 DEF terminal_status
<1> HIDE DEF i
<1> QED
  BY <1>3, <1>4, <1>5 DEF Backed, StateOf, Closed, TerminalKinds

\* What a repair commits is a status with its fact.
LEMMA RecoverableBacked ==
    ASSUME TypeOK, NEW t \in Turns, Recoverable(t) # Null
    PROVE  Recoverable(t) \in Statuses /\ Backed(t, Recoverable(t))
<1>1. CASE terminal_status(t) # Null
  BY <1>1, TerminalBacked DEF Recoverable, Closed, Statuses
<1>2. CASE terminal_status(t) = Null
  BY <1>2 DEF Recoverable, verified_execution_cancellation, Backed, Statuses
<1> QED
  BY <1>1, <1>2

----------------------------------------------------------------------------
\* What steps add.

\* Facts are only added.
Grows ==
    /\ \A t \in Turns : Published(t) \subseteq Published(t)'
    /\ \A t \in Turns : Saved(t) # {} => Saved(t)' # {}

\* What the log of t may be extended by.
Allowed(t, f) ==
    /\ f.approval # "none" => f.cp > 0
    /\ f.approval = "confirmed" => decision[t][f.cp] = "approve"
    /\ Cancelled(t) => f.kind \notin CheckpointKinds
    /\ Cancelled(t) /\ f.kind = "TurnCompleted" => "TurnCompleted" \in Published(t)

\* An append leaves every earlier fact where it is.
LEMMA AppendStep ==
    ASSUME TypeOK, NEW t \in Turns, NEW f \in Fact, append(t, f)
    PROVE  /\ log' \in [Turns -> Seq(Fact)]
           /\ \A u \in Turns : u # t => log'[u] = log[u]
           /\ DOMAIN log'[t] = 1..(Len(log[t]) + 1)
           /\ \A i \in 1..Len(log[t]) : log'[t][i] = log[t][i]
           /\ log'[t][Len(log[t]) + 1] = f
BY LogType DEF append, TypeOK

\* So facts are only added, and the new one is published.
LEMMA AppendGrows ==
    ASSUME TypeOK, NEW t \in Turns, NEW f \in Fact, append(t, f)
    PROVE  Grows /\ f.kind \in Published(t)'
<1>1. f.kind \in Published(t)'
  BY AppendStep, LogType DEF Published
<1>2. ASSUME NEW u \in Turns PROVE Published(u) \subseteq Published(u)'
  BY SMTT(40), AppendStep, LogType DEF Published
<1>3. ASSUME NEW u \in Turns, Saved(u) # {} PROVE Saved(u)' # {}
  BY SMTT(40), <1>3, AppendStep, LogType DEF Saved, Where
<1> QED
  BY <1>1, <1>2, <1>3 DEF Grows

\* A log that stays publishes what it did.
LEMMA SameGrows ==
    ASSUME UNCHANGED log
    PROVE  Grows
BY DEF Grows, Published, Saved, Where

\* Added facts keep what is backed.
LEMMA BackedGrows ==
    ASSUME Grows, NEW t \in Turns, NEW s, Backed(t, s)
    PROVE  Backed(t, s)'
BY DEF Grows, Backed

\* Added facts keep what a waiting request rests on.
LEMMA ServedGrows ==
    ASSUME Grows, NEW c \in Callers, Served(c), UNCHANGED call[c],
           \A t \in Turns : decision'[t] = decision[t]
    PROVE  Served(c)'
<1>1. ASSUME NEW t \in Turns, call[c].turn = t PROVE Placed(c, t)'
  <2>1. Placed(c, t)
    BY <1>1 DEF Served
  <2>2. Backed(t, call[c].status) => Backed(t, call[c].status)'
    BY DEF Grows, Backed
  <2> QED
    BY <2>1, <2>2 DEF Placed, Grows
<1> QED
  BY <1>1 DEF Served

\* An allowed append keeps every log in order.
LEMMA LogOKAppend ==
    ASSUME TypeOK, \A u \in Turns : LogOK(u), UNCHANGED decision,
           NEW t \in Turns, NEW f \in Fact, append(t, f), Allowed(t, f)
    PROVE  \A u \in Turns : LogOK(u)'
<1> SUFFICES ASSUME NEW u \in Turns PROVE LogOK(u)'
  OBVIOUS
<1>1. CASE u # t
  BY SMTT(20), <1>1, AppendStep DEF LogOK
<1>2. CASE u = t
  <2> DEFINE n == Len(log[t])
  <2>1. LogOK(t) /\ n \in Nat /\ DOMAIN log[t] = 1..n
    BY LogType
  <2>2. (\E i \in 1..n : log[t][i].kind = "ExecutionCancelled") =>
           /\ f.kind \notin CheckpointKinds
           /\ f.kind = "TurnCompleted" => \E j \in 1..n : log[t][j].kind = "TurnCompleted"
    BY <2>1 DEF Allowed, Cancelled, Published
  <2>3. /\ DOMAIN log'[t] = 1..(n + 1) /\ log'[t][n + 1] = f
        /\ \A i \in 1..n : log'[t][i] = log[t][i]
    BY AppendStep
  <2>4. \A i \in 1..(n + 1) : i \in 1..n \/ i = n + 1
    BY <2>1
  <2>5. \A i \in DOMAIN log'[t] :
            /\ log'[t][i].approval # "none" => log'[t][i].cp > 0
            /\ log'[t][i].approval = "confirmed" => decision'[t][log'[t][i].cp] = "approve"
    BY <2>1, <2>3, <2>4 DEF LogOK, Allowed
  <2>6. ASSUME NEW i \in DOMAIN log'[t], NEW j \in DOMAIN log'[t],
               log'[t][i].kind = "ExecutionCancelled" /\ i < j
        PROVE  log'[t][j].kind \notin CheckpointKinds
    <3>1. i \in 1..n
      BY <2>1, <2>3, <2>6
    <3> QED
      BY <2>1, <2>2, <2>3, <2>4, <2>6, <3>1 DEF LogOK
  <2>7. ASSUME NEW i \in DOMAIN log'[t], NEW j \in DOMAIN log'[t],
               log'[t][i].kind = "ExecutionCancelled" /\ log'[t][j].kind = "TurnCompleted"
        PROVE  \E k \in DOMAIN log'[t] : k < i /\ log'[t][k].kind = "TurnCompleted"
    <3>1. CASE i \in 1..n
      <4>1. PICK m \in 1..n : log[t][m].kind = "TurnCompleted"
        <5>0. log[t][i].kind = "ExecutionCancelled"
          BY <2>3, <2>7, <3>1
        <5>1. CASE j \in 1..n
          BY <2>3, <2>7, <5>1
        <5>2. CASE j = n + 1
          BY <2>2, <2>3, <2>7, <3>1, <5>0, <5>2
        <5> QED
          BY <2>3, <2>4, <5>1, <5>2
      <4>2. PICK k \in 1..n : k < i /\ log[t][k].kind = "TurnCompleted"
        <5>1. log[t][i].kind = "ExecutionCancelled"
          BY <2>3, <2>7, <3>1
        <5> QED
          BY <2>1, <3>1, <4>1, <5>1 DEF LogOK
      <4>3. k \in DOMAIN log'[t] /\ log'[t][k] = log[t][k]
        BY <2>1, <2>3
      <4> QED
        BY <4>2, <4>3
    <3>2. CASE i = n + 1
      BY <2>1, <2>3, <2>4, <2>7, <3>2
    <3> QED
      BY <2>3, <2>4, <2>7, <3>1, <3>2
  <2> QED
    BY <1>2, <2>5, <2>6, <2>7 DEF LogOK
<1> QED
  BY <1>1, <1>2

\* The Session record is untouched and its facts remain.
LEMMA RecordKept ==
    ASSUME RecordOK, Grows, UNCHANGED record
    PROVE  RecordOK'
<1>1. UNCHANGED <<status, input, messages>>
  BY DEF record
<1>2. \A t \in Turns : Backed(t, status[t])'
  BY <1>1 DEF Backed, Grows, RecordOK
<1> QED
  BY <1>1, <1>2 DEF RecordOK, Open

\* One request goes on, the others are where they were.
Moves(c) == \E r \in Request : call' = [call EXCEPT ![c] = r]

\* One request goes on and the requests stay typed.
LEMMA MoveType ==
    ASSUME TypeOK, NEW c \in Callers, Moves(c)
    PROVE  call' \in [Callers -> Request] /\ \A d \in Callers : d # c => call'[d] = call[d]
BY DEF TypeOK, Moves

\* A step that changes neither the ledger's facts nor the Session record.
LEMMA FrameStep ==
    ASSUME IInv, NEW c \in Callers, Moves(c), Served(c)',
           UNCHANGED <<log, decision, record, limit, crashes>>,
           claimed' \subseteq Turns, commits' \in [Turns -> SUBSET Statuses], active' \subseteq Turns
    PROVE  IInv'
<1>1. TypeOK'
  BY MoveType DEF IInv, TypeOK, record
<1>2. Grows
  BY SameGrows
<1>3. \A d \in Callers : Served(d)'
  BY <1>2, ServedGrows, MoveType DEF IInv
<1>4. \A t \in Turns : LogOK(t)'
  BY DEF IInv, LogOK
<1> QED
  BY <1>1, <1>2, <1>3, <1>4, RecordKept DEF IInv

\* A step that only moves one request.
LEMMA ReadStep ==
    ASSUME IInv, NEW c \in Callers, Moves(c), Served(c)', Reads
    PROVE  IInv'
<1>1. /\ UNCHANGED <<log, decision, record, limit, crashes>>
      /\ claimed' \subseteq Turns /\ commits' \in [Turns -> SUBSET Statuses] /\ active' \subseteq Turns
  BY DEF IInv, TypeOK, Reads, facts
<1> QED
  BY <1>1, FrameStep

\* A step that moves one request and appends at most one allowed fact.
LEMMA WriteStep ==
    ASSUME IInv, NEW c \in Callers, Moves(c), NEW t \in Turns, NEW f \in Fact,
           UNCHANGED log \/ (append(t, f) /\ Allowed(t, f)),
           Served(c)', Writes
    PROVE  IInv'
<1>0. TypeOK
  BY DEF IInv
<1>1. log' \in [Turns -> Seq(Fact)] /\ Grows
  BY <1>0, AppendStep, AppendGrows, SameGrows DEF TypeOK
<1>2. TypeOK'
  BY <1>1, MoveType DEF IInv, TypeOK, Writes, record
<1>3. \A d \in Callers : Served(d)'
  BY <1>1, ServedGrows, MoveType DEF IInv, Writes
<1>4. \A u \in Turns : LogOK(u)'
  <2>1. CASE UNCHANGED log
    BY <2>1 DEF IInv, LogOK, Writes
  <2>2. CASE append(t, f) /\ Allowed(t, f)
    BY <1>0, <2>2, LogOKAppend DEF IInv, Writes
  <2> QED
    BY <2>1, <2>2
<1> QED
  BY <1>1, <1>2, <1>3, <1>4, RecordKept DEF IInv, Writes

----------------------------------------------------------------------------
\* Where a request goes.

\* Places that need nothing but the Turn.  (A run that is completing needs a fact.)
Plain == {"claim", "merge", "enter", "drive", "fail", "persist", "release", "drop", "result",
          "reject", "cancel", "append", "uncage", "close", "reconcile"}

\* Places a request is moved on to, and what its operation must be there.
Onward == Plain \cup {"started", "state", "decide", "verify", "admit", "commit"}

Proper(c, pc) ==
    /\ pc = "started" => call[c].op = "start"
    /\ pc \in {"state", "decide", "verify"} => call[c].op \in Resuming
    /\ pc = "admit" => call[c].op \in Resuming \cup {"start"}
    /\ pc = "commit" => call[c].pc = "update"

\* A served request has a Turn and its type.
LEMMA AtStep ==
    ASSUME IInv, NEW c \in Callers, call[c].pc # "idle"
    PROVE  /\ call[c] \in Request /\ call[c].turn \in Turns /\ call[c].op \in Ops
           /\ Placed(c, call[c].turn) /\ Served(c)
BY DEF IInv, TypeOK, Served, Request

\* An idle record is a request.
LEMMA IdleType == Idle \in Request
BY SessionAssumption DEF Idle, Request, Statuses, Approvals

\* A request as it is received, wherever it goes first.
LEMMA ReceiveType ==
    ASSUME NEW op \in Ops, NEW t \in Turns,
           NEW pc \in {"begin", "start", "load", "cancel", "reconcile", "result", "release", "drop", "update"}
    PROVE  Receive(op, t, pc) \in Request
<1>1. PICK q \in Request : q = [Idle EXCEPT !.op = op, !.turn = t]
  BY IdleType DEF Request
<1>2. [q EXCEPT !.pc = pc] \in Request
  BY DEF Request
<1>3. Receive(op, t, pc) = [q EXCEPT !.pc = pc]
  BY <1>1 DEF Receive, Idle
<1> QED
  BY <1>2, <1>3

\* A request that goes on keeps what it rests on.
LEMMA GotoServed ==
    ASSUME IInv, NEW c \in Callers, call[c].pc # "idle", Grows, UNCHANGED decision,
           NEW pc \in Onward, Proper(c, pc), Goto(c, pc)
    PROVE  Moves(c) /\ Served(c)'
<1>1. call[c] \in Request /\ Served(c) /\ call \in [Callers -> Request]
  BY AtStep DEF IInv, TypeOK
<1>2. [call[c] EXCEPT !.pc = pc] \in Request
  BY <1>1 DEF Request, Onward, Plain
<1>3. /\ call' = [call EXCEPT ![c] = [call[c] EXCEPT !.pc = pc]]
      /\ call'[c] = [call[c] EXCEPT !.pc = pc]
  BY <1>1 DEF Goto
<1>4. /\ call'[c].pc = pc /\ call'[c].op = call[c].op /\ call'[c].turn = call[c].turn
      /\ call'[c].result = call[c].result /\ call'[c].approval = call[c].approval
      /\ call'[c].cp = call[c].cp /\ call'[c].status = call[c].status
  BY <1>1, <1>3 DEF Request
<1>5. ASSUME NEW t \in Turns, call[c].turn = t PROVE Placed(c, t)'
  <2>1. Placed(c, t)
    BY <1>1, <1>5 DEF Served
  <2>2. Backed(t, call[c].status) => Backed(t, call[c].status)'
    BY <1>4 DEF Grows, Backed
  <2>3. pc # "completing" /\ (pc \in {"update", "commit"} => call[c].pc \in {"update", "commit"})
    BY DEF Proper, Onward, Plain
  <2> QED
    BY <1>4, <2>1, <2>2, <2>3 DEF Placed, Grows
<1> QED
  BY <1>1, <1>2, <1>3, <1>4, <1>5 DEF Moves, Served, Onward, Plain, Proper

\* So does one that goes on there with another end of its run.
LEMMA FailsServed ==
    ASSUME IInv, NEW c \in Callers, call[c].pc # "idle", Grows, UNCHANGED decision,
           NEW pc \in Plain, NEW end \in Statuses, Fails(c, pc, end)
    PROVE  Moves(c) /\ Served(c)'
<1>1. call[c] \in Request /\ Served(c) /\ call \in [Callers -> Request]
  BY AtStep DEF IInv, TypeOK
<1> DEFINE r == [call[c] EXCEPT !.pc = pc, !.status = end]
<1>2. r \in Request
  <2>0. [call[c] EXCEPT !.pc = pc] \in Request
    BY <1>1 DEF Request, Plain
  <2>1. PICK q \in Request : q = [call[c] EXCEPT !.pc = pc]
    BY <2>0
  <2>2. [q EXCEPT !.status = end] \in Request
    BY DEF Request
  <2>3. r = [q EXCEPT !.status = end]
    BY <1>1, <2>1 DEF Request
  <2> QED
    BY <2>2, <2>3
<1>3. call' = [call EXCEPT ![c] = r] /\ call'[c] = r
  BY <1>1 DEF Fails
<1>4. /\ r.pc = pc /\ r.op = call[c].op /\ r.turn = call[c].turn
      /\ r.result = call[c].result /\ r.approval = call[c].approval /\ r.cp = call[c].cp
  BY <1>1 DEF Request
<1>5. \A t \in Turns : call[c].turn = t => Placed(c, t)'
  BY <1>1, <1>3, <1>4 DEF Served, Placed, Grows, Plain
<1> QED
  BY <1>1, <1>2, <1>3, <1>4, <1>5 DEF Moves, Served, Plain

\* A request that returns rests on nothing.
LEMMA ReturnServed ==
    ASSUME IInv, NEW c \in Callers, Return(c)
    PROVE  Moves(c) /\ Served(c)'
<1>1. call'[c] = Idle
  BY DEF IInv, TypeOK, Return
<1>2. Served(c)'
  BY <1>1, SessionAssumption DEF Served, Idle
<1> QED
  BY <1>2, IdleType DEF Return, Moves

\* A request received anew, with a result and a status of its own.
LEMMA ReceiveServed ==
    ASSUME IInv, NEW c \in Callers, NEW op \in Ops, NEW t \in Turns,
           NEW pc \in Plain \cup {"update"}, NEW result \in {"error", "suspended", "completed"},
           NEW s \in Statuses, NEW r \in Request,
           r.op = op, r.turn = t, r.pc = pc, r.result = result, r.status = s, r.approval = "none",
           call' = [call EXCEPT ![c] = r],
           (op \in Resuming => Saved(t) # {})', (result = "completed" => "TurnCompleted" \in Published(t))',
           pc = "update" => Backed(t, s)'
    PROVE  Moves(c) /\ Served(c)'
<1>3. call'[c] = r
  BY DEF IInv, TypeOK
<1>4. Placed(c, t)'
  BY <1>3 DEF Placed, Plain
<1>5. \A u \in Turns : call'[c].turn = u => Placed(c, u)'
  BY <1>3, <1>4
<1>6. Served(c)'
  BY <1>3, <1>5 DEF Served, Plain, Ops, Resuming
<1> QED
  BY <1>6 DEF Moves

\* A request whose guard drops, with what its run returned.
LEMMA LeaveServed ==
    ASSUME IInv, NEW c \in Callers, call[c].pc # "idle", Grows, UNCHANGED decision,
           NEW result \in {"error", "suspended", "completed"}, Leave(c, result),
           result = "completed" =>
              \A t \in Turns : call[c].turn = t => ("TurnCompleted" \in Published(t))'
    PROVE  Moves(c) /\ Served(c)'
<1>1. PICK t \in Turns : t = call[c].turn
  BY AtStep
<1>2. PICK op \in Ops : op = call[c].op
  BY AtStep
<1>3. PICK pc \in {"release", "drop"} : pc = IF op \in {"start", "resume"} THEN "release" ELSE "drop"
  OBVIOUS
<1> DEFINE r == [Receive(op, t, "drop") EXCEPT
                    !.result = result, !.pc = IF op \in {"start", "resume"} THEN "release" ELSE @]
<1>4. /\ r.pc = pc /\ r.op = op /\ r.turn = t /\ r.result = result /\ r.approval = "none"
      /\ r.status = "Running"
  BY <1>3 DEF Receive, Idle
<1>5. r \in Request
  <2>1. PICK q \in Request : q = Receive(op, t, "drop")
    BY ReceiveType
  <2>2. [q EXCEPT !.result = result, !.pc = pc] \in Request
    BY ZenonT(40) DEF Request
  <2>3. r = [q EXCEPT !.result = result, !.pc = pc]
    BY <1>3, <2>1 DEF Receive, Idle
  <2> QED
    BY <2>2, <2>3
<1>6. (op \in Resuming => Saved(t) # {})'
  BY <1>1, <1>2, AtStep DEF Placed, Grows
<1>7. call' = [call EXCEPT ![c] = r]
  BY <1>1, <1>2 DEF Leave
<1>8. (result = "completed" => "TurnCompleted" \in Published(t))'
  BY <1>1
<1>9. pc \in Plain \cup {"update"} /\ pc # "update" /\ "Running" \in Statuses
  BY DEF Plain, Statuses
<1> HIDE DEF r
<1> QED
  BY ZenonT(40), <1>4, <1>5, <1>6, <1>7, <1>8, <1>9, ReceiveServed

\* A request that goes on to the Session commit of a status that is backed.
LEMMA CommitServed ==
    ASSUME IInv, NEW c \in Callers, call[c].pc # "idle", Grows, UNCHANGED decision,
           NEW s \in Statuses, Commit(c, s),
           \A t \in Turns : call[c].turn = t => Backed(t, s)'
    PROVE  Moves(c) /\ Served(c)'
<1>1. PICK t \in Turns : t = call[c].turn
  BY AtStep
<1>2. PICK op \in Ops : op = call[c].op
  BY AtStep
<1> DEFINE r == [Receive(op, t, "update") EXCEPT !.status = s]
<1>3. /\ r.pc = "update" /\ r.op = op /\ r.turn = t /\ r.result = "error" /\ r.approval = "none"
      /\ r.status = s
  BY DEF Receive, Idle
<1>4. r \in Request
  <2>1. Receive(op, t, "update") \in Request
    BY ReceiveType
  <2> QED
    BY <2>1 DEF Request
<1>5. (op \in Resuming => Saved(t) # {})'
  BY <1>1, <1>2, AtStep DEF Placed, Grows
<1>6. call' = [call EXCEPT ![c] = r]
  BY <1>1, <1>2 DEF Commit
<1> HIDE DEF r
<1> QED
  BY <1>1, <1>3, <1>4, <1>5, <1>6, ReceiveServed

\* A request that is refused before its admission.
LEMMA RefusedServed ==
    ASSUME IInv, NEW c \in Callers, call[c].pc # "idle", Grows, UNCHANGED decision, Refused(c)
    PROVE  Moves(c) /\ Served(c)'
<1>1. CASE Return(c)
  BY <1>1, ReturnServed
<1>2. CASE ~Return(c)
  <2>1. PICK t \in Turns : t = call[c].turn
    BY AtStep
  <2>2. PICK op \in Ops : op = call[c].op
    BY AtStep
  <2> DEFINE r == Receive(op, t, "result")
  <2>3. /\ r.pc = "result" /\ r.op = op /\ r.turn = t /\ r.result = "error"
        /\ r.approval = "none" /\ r.status = "Running"
    BY DEF Receive, Idle
  <2>4. r \in Request
    BY ReceiveType
  <2>5. (op \in Resuming => Saved(t) # {})'
    BY <2>1, <2>2, AtStep DEF Placed, Grows
  <2>6. call' = [call EXCEPT ![c] = r]
    BY <1>2, <2>1, <2>2 DEF Refused
  <2> HIDE DEF r
  <2> QED
    BY ZenonT(40), <2>3, <2>4, <2>5, <2>6, ReceiveServed DEF Plain, Statuses
<1> QED
  BY <1>1, <1>2

\* A fresh request has nothing to rest on but its Turn.
LEMMA AskServed ==
    ASSUME IInv, NEW c \in Callers, Grows, NEW op \in Ops, NEW t \in Turns,
           NEW pc \in {"begin", "load", "cancel", "reconcile", "start"}, NEW r \in Request,
           call' = [call EXCEPT ![c] = r],
           r.op = op, r.turn = t, r.pc = pc, r.result = "error", r.approval = "none",
           pc \in {"begin", "start"} => op = "start", pc = "load" => op \in Resuming,
           op \in Resuming => Saved(t) # {}
    PROVE  Moves(c) /\ Served(c)'
<1>1. call'[c] = r
  BY DEF IInv, TypeOK
<1>2. Placed(c, t)'
  BY <1>1 DEF Placed, Grows
<1>3. \A u \in Turns : call'[c].turn = u => Placed(c, u)'
  BY <1>1, <1>2
<1>4. Served(c)'
  BY <1>1, <1>3 DEF Served, Ops
<1> QED
  BY <1>4 DEF Moves

----------------------------------------------------------------------------
\* The facts a step appends.

\* A fact without a checkpoint.
LEMMA BareType ==
    ASSUME NEW k \in Kinds
    PROVE  /\ Bare(k) \in Fact
           /\ Bare(k).kind = k /\ Bare(k).cp = 0 /\ Bare(k).approval = "none"
BY SessionAssumption DEF Bare, Checkpoint, Fact, Approvals

\* A fact with the checkpoint it is about.
LEMMA CheckpointType ==
    ASSUME NEW k \in Kinds, NEW n \in 0..MaxCheckpoint, NEW a \in Approvals
    PROVE  /\ Checkpoint(k, n, a) \in Fact
           /\ Checkpoint(k, n, a).kind = k /\ Checkpoint(k, n, a).cp = n
           /\ Checkpoint(k, n, a).approval = a
BY DEF Checkpoint, Fact

\* Facts about no checkpoint that a cancellation does not forbid.
LEMMA BareAllowed ==
    ASSUME NEW t \in Turns, NEW k \in Kinds \ (CheckpointKinds \cup {"TurnCompleted"})
    PROVE  Allowed(t, Bare(k))
BY BareType DEF Allowed

\* A fact that is appended once is published afterwards.
LEMMA OnceStep ==
    ASSUME TypeOK, NEW t \in Turns, NEW k \in Kinds, AppendOnce(t, k)
    PROVE  /\ Grows /\ (k \in Published(t))'
           /\ UNCHANGED log \/ append(t, Bare(k))
<1>1. CASE k \in Published(t)
  <2>1. UNCHANGED log
    BY <1>1 DEF AppendOnce
  <2>2. Grows
    BY <2>1, SameGrows
  <2> QED
    BY <1>1, <2>1, <2>2 DEF Grows
<1>2. CASE k \notin Published(t)
  <2>1. append(t, Bare(k))
    BY <1>2 DEF AppendOnce
  <2> QED
    BY <2>1, BareType, AppendGrows
<1> QED
  BY <1>1, <1>2

\* What a step that only reads leaves as it was.
LEMMA ReadsSame ==
    ASSUME Reads
    PROVE  Grows /\ UNCHANGED decision
BY SameGrows DEF Reads, facts

----------------------------------------------------------------------------
\* The requests of clients.

\* Whatever a client asks for, the invariant is kept.
LEMMA AskStep ==
    ASSUME IInv, NEW c \in Callers, Ask(c)
    PROVE  IInv'
<1>0. TypeOK
  BY DEF IInv
<1>1. PICK t \in Turns :
        \/ start(c, t) \/ resume_approval(c, t)
        \/ \E with \in {"approval", "external"} : resume(c, t, with)
        \/ resume_committed(c, t) \/ deny(c, t) \/ cancel(c, t) \/ load_reconciled(c, t)
  BY DEF Ask
<1>2. CASE start(c, t)
  <2> DEFINE r == [Receive("start", t, "begin") EXCEPT !.version = version]
  <2>1. r \in Request
    <3>1. Receive("start", t, "begin") \in Request /\ version \in Nat
      BY <1>0, ReceiveType DEF Ops, TypeOK
    <3> QED
      BY <3>1 DEF Request
  <2>2. r.op = "start" /\ r.turn = t /\ r.pc = "begin" /\ r.result = "error" /\ r.approval = "none"
    BY DEF Receive, Idle
  <2>3. Reads /\ call' = [call EXCEPT ![c] = r]
    BY <1>2 DEF start
  <2> HIDE DEF r
  <2> QED
    BY <2>1, <2>2, <2>3, ReadsSame, AskServed, ReadStep DEF Ops, Resuming
<1>3. CASE resume_approval(c, t)
  <2> DEFINE r == Receive("resume_approval", t, "load")
  <2>1. r \in Request
    BY ReceiveType DEF Ops
  <2>2. /\ r.op = "resume_approval" /\ r.turn = t /\ r.pc = "load" /\ r.result = "error"
        /\ r.approval = "none"
    BY DEF Receive, Idle
  <2>3. Reads /\ call' = [call EXCEPT ![c] = r] /\ Saved(t) # {}
    BY <1>3 DEF resume_approval, Waiting
  <2> HIDE DEF r
  <2> QED
    BY <2>1, <2>2, <2>3, ReadsSame, AskServed, ReadStep DEF Ops, Resuming
<1>4. ASSUME NEW with \in {"approval", "external"}, resume(c, t, with) PROVE IInv'
  <2>1. Reads /\ Saved(t) # {}
    BY <1>4 DEF resume, Waiting
  <2>2. PICK n \in 0..MaxCheckpoint : n = Current(t).cp
    BY <1>0, <2>1, CurrentType DEF Fact
  <2> DEFINE r == [Receive("resume", t, "load") EXCEPT !.cp = n, !.with = with]
  <2>3. r \in Request
    <3>1. Receive("resume", t, "load") \in Request
      BY ReceiveType DEF Ops
    <3> QED
      BY <3>1 DEF Request
  <2>5. call' = [call EXCEPT ![c] = r]
    BY <1>4, <2>2 DEF resume
  <2>4. r.op = "resume" /\ r.turn = t /\ r.pc = "load" /\ r.result = "error" /\ r.approval = "none"
    BY DEF Receive, Idle
  <2> HIDE DEF r
  <2> QED
    BY <2>1, <2>3, <2>4, <2>5, ReadsSame, AskServed, ReadStep DEF Ops, Resuming
<1>5. CASE resume_committed(c, t)
  <2> DEFINE r == [Receive("resume_committed", t, "load") EXCEPT !.cp = Current(t).cp]
  <2>1. Reads /\ call' = [call EXCEPT ![c] = r] /\ Saved(t) # {}
    BY <1>5 DEF resume_committed, Waiting
  <2>2. Current(t).cp \in 0..MaxCheckpoint
    BY <1>0, <2>1, CurrentType DEF Fact
  <2>3. r \in Request
    <3>1. Receive("resume_committed", t, "load") \in Request
      BY ReceiveType DEF Ops
    <3> QED
      BY <2>2, <3>1 DEF Request
  <2>4. /\ r.op = "resume_committed" /\ r.turn = t /\ r.pc = "load" /\ r.result = "error"
        /\ r.approval = "none"
    BY DEF Receive, Idle
  <2> HIDE DEF r
  <2> QED
    BY <2>1, <2>3, <2>4, ReadsSame, AskServed, ReadStep DEF Ops, Resuming
<1>6. CASE deny(c, t)
  <2> DEFINE r == Receive("deny", t, "load")
  <2>1. r \in Request
    BY ReceiveType DEF Ops
  <2>2. r.op = "deny" /\ r.turn = t /\ r.pc = "load" /\ r.result = "error" /\ r.approval = "none"
    BY DEF Receive, Idle
  <2>3. Reads /\ call' = [call EXCEPT ![c] = r] /\ Saved(t) # {}
    BY <1>0, <1>6, SuspendedSaved DEF deny
  <2> HIDE DEF r
  <2> QED
    BY <2>1, <2>2, <2>3, ReadsSame, AskServed, ReadStep DEF Ops, Resuming
<1>7. CASE cancel(c, t)
  <2> DEFINE r == [Receive("cancel", t, "cancel") EXCEPT !.seen = State(t)]
  <2>1. r \in Request
    <3>1. Receive("cancel", t, "cancel") \in Request
      BY ReceiveType DEF Ops
    <3> QED
      BY <1>0, <3>1, StateType DEF Request
  <2>2. /\ r.op = "cancel" /\ r.turn = t /\ r.pc = "cancel" /\ r.result = "error"
        /\ r.approval = "none"
    BY DEF Receive, Idle
  <2>3. Reads /\ call' = [call EXCEPT ![c] = r]
    BY <1>7 DEF cancel
  <2> HIDE DEF r
  <2> QED
    BY <2>1, <2>2, <2>3, ReadsSame, AskServed, ReadStep DEF Ops, Resuming
<1>8. CASE load_reconciled(c, t)
  <2> DEFINE r == Receive("load", t, "reconcile")
  <2>1. r \in Request
    BY ReceiveType DEF Ops
  <2>2. /\ r.op = "load" /\ r.turn = t /\ r.pc = "reconcile" /\ r.result = "error"
        /\ r.approval = "none"
    BY DEF Receive, Idle
  <2>3. Reads /\ call' = [call EXCEPT ![c] = r]
    BY <1>8 DEF load_reconciled
  <2> HIDE DEF r
  <2> QED
    BY <2>1, <2>2, <2>3, ReadsSame, AskServed, ReadStep DEF Ops, Resuming
<1> QED
  BY <1>1, <1>2, <1>3, <1>4, <1>5, <1>6, <1>7, <1>8

----------------------------------------------------------------------------
\* Admission.

\* FileSessionStore::begin: the only open Turn is the one it registers.
LEMMA BeginStep ==
    ASSUME IInv, NEW c \in Callers, begin_turn(c)
    PROVE  IInv'
<1>0. TypeOK /\ RecordOK /\ UNCHANGED <<log, decision, claimed, commits, messages, active, limit, crashes>>
  BY DEF begin_turn, facts, IInv
<1>1. PICK t \in Turns : t = call[c].turn
  BY AtStep DEF begin_turn, At
<1>2. /\ status[t] = Null /\ NoOpenTurn
      /\ status' = [status EXCEPT ![t] = "Running"] /\ input' = [input EXCEPT ![t] = Len(messages)]
      /\ version' = version + 1 /\ call' = [call EXCEPT ![c] = Receive("start", t, "start")]
  BY <1>1 DEF begin_turn
<1>3. Grows
  BY <1>0, SameGrows
<1> DEFINE r == Receive("start", t, "start")
<1>4. r.op = "start" /\ r.turn = t /\ r.pc = "start" /\ r.result = "error" /\ r.approval = "none"
  BY DEF Receive, Idle
<1>5. r \in Request
  BY ReceiveType DEF Ops
<1>6. Moves(c) /\ Served(c)'
  <2>1. call' = [call EXCEPT ![c] = r]
    BY <1>2
  <2> HIDE DEF r
  <2> QED
    BY <1>3, <1>4, <1>5, <2>1, AskServed DEF Ops, Resuming
<1>7. TypeOK'
  BY <1>0, <1>2, <1>6, MoveType DEF TypeOK, Statuses
<1>8. \A d \in Callers : Served(d)'
  BY <1>0, <1>3, <1>6, ServedGrows, MoveType DEF IInv
<1>9. \A u \in Turns : LogOK(u)'
  BY <1>0 DEF IInv, LogOK
<1>10. RecordOK'
  <2>1. \A u \in Turns : status'[u] = IF u = t THEN "Running" ELSE status[u]
    BY <1>0, <1>2 DEF TypeOK
  <2>2. \A u \in Turns : input'[u] = IF u = t THEN Len(messages) ELSE input[u]
    BY <1>0, <1>2 DEF TypeOK
  <2>3. \A u \in Turns : Backed(u, status[u])'
    BY <1>0, <1>3, <2>1 DEF RecordOK, Backed, Grows
  <2>4. \A u \in Turns : status'[u] = "Completed" <=> \E i \in DOMAIN messages : messages[i] = u
    BY <1>0, <1>2, <2>1, NullAssumption DEF RecordOK, Statuses
  <2>5. \A u \in Turns : Open(u)' => u = t
    BY <1>2, <2>1 DEF NoOpenTurn, Open
  <2> QED
    BY <1>0, <2>2, <2>3, <2>4, <2>5 DEF RecordOK
<1> QED
  BY <1>7, <1>8, <1>9, <1>10 DEF IInv

\* The current checkpoint of a Turn is approved as it says.
LEMMA CurrentOK ==
    ASSUME IInv, NEW t \in Turns, Saved(t) # {}
    PROVE  /\ Current(t).cp \in 0..MaxCheckpoint /\ Current(t).approval \in Approvals
           /\ Current(t).approval # "none" => Current(t).cp > 0
           /\ Current(t).approval = "confirmed" => decision[t][Current(t).cp] = "approve"
<1>1. PICK i \in DOMAIN log[t] : log[t][i] = Current(t)
  BY CurrentType DEF IInv
<1>2. Current(t) \in Fact
  BY CurrentType DEF IInv
<1> QED
  BY <1>1, <1>2 DEF IInv, LogOK, Fact

\* A resuming request that takes a place with a checkpoint of the Turn.
LEMMA TakesServed ==
    ASSUME IInv, NEW c \in Callers, call[c].pc # "idle", Grows, UNCHANGED decision,
           NEW pc \in {"state", "admit", "merge"}, call[c].op \in Resuming,
           NEW n \in 0..MaxCheckpoint, NEW a \in Approvals, a # "none" => n > 0,
           \A t \in Turns : (call[c].turn = t /\ a = "confirmed") => decision[t][n] = "approve",
           call' = [call EXCEPT ![c].cp = n, ![c].approval = a, ![c].pc = pc]
    PROVE  Moves(c) /\ Served(c)'
<1>1. call[c] \in Request /\ Served(c) /\ call \in [Callers -> Request]
  BY AtStep DEF IInv, TypeOK
<1> DEFINE r == [call[c] EXCEPT !.cp = n, !.approval = a, !.pc = pc]
<1>2. r \in Request
  BY <1>1 DEF Request
<1>3. call' = [call EXCEPT ![c] = r] /\ call'[c] = r
  BY <1>1
<1>4. /\ r.pc = pc /\ r.op = call[c].op /\ r.turn = call[c].turn /\ r.result = call[c].result
      /\ r.approval = a /\ r.cp = n
  BY <1>1 DEF Request
<1>5. ASSUME NEW t \in Turns, call[c].turn = t PROVE Placed(c, t)'
  <2>1. Placed(c, t)
    BY <1>1, <1>5 DEF Served
  <2> HIDE DEF r
  <2> QED
    BY <1>3, <1>4, <1>5, <2>1 DEF Placed, Grows
<1> HIDE DEF r
<1> QED
  BY <1>1, <1>2, <1>3, <1>4, <1>5 DEF Moves, Served

\* load_suspension reads a checkpoint that is approved as it says.
LEMMA LoadStep ==
    ASSUME IInv, NEW c \in Callers, load_suspension(c)
    PROVE  IInv'
<1>1. call[c].pc = "load" /\ Reads /\ Grows /\ UNCHANGED decision
  BY ReadsSame DEF load_suspension, At
<1>2. PICK t \in Turns : t = call[c].turn
  BY <1>1, AtStep
<1>3. CASE Refused(c)
  BY <1>1, <1>3, RefusedServed, ReadStep
<1>4. CASE ~Refused(c)
  <2>1. call[c].op \in Resuming /\ Saved(t) # {}
    BY <1>1, <1>2, AtStep DEF Served, Placed
  <2>2. PICK n \in 0..MaxCheckpoint : n = Current(t).cp
    BY <2>1, CurrentOK
  <2>3. PICK a \in Approvals : a = Current(t).approval
    BY <2>1, CurrentOK
  <2>4. PICK pc \in {"admit", "state"} : pc = IF call[c].op = "deny" THEN "admit" ELSE "state"
    OBVIOUS
  <2>5. call' = [call EXCEPT ![c].cp = n, ![c].approval = a, ![c].pc = pc]
    BY <1>2, <1>4, <2>2, <2>3, <2>4 DEF load_suspension
  <2>6. (a # "none" => n > 0) /\ (a = "confirmed" => decision[t][n] = "approve")
    BY <2>1, <2>2, <2>3, CurrentOK
  <2>7. Moves(c) /\ Served(c)'
    BY <1>1, <1>2, <2>1, <2>5, <2>6, TakesServed
  <2> QED
    BY <1>1, <2>7, ReadStep
<1> QED
  BY <1>3, <1>4

\* The runtime verifies the checkpoint again before it merges.
LEMMA VerifyStep ==
    ASSUME IInv, NEW c \in Callers, verify(c)
    PROVE  IInv'
<1>1. call[c].pc = "verify" /\ Reads /\ Grows /\ UNCHANGED decision
  BY ReadsSame DEF verify, At
<1>2. PICK t \in Turns : t = call[c].turn
  BY <1>1, AtStep
<1>3. call[c].op \in Resuming /\ Saved(t) # {}
  BY <1>1, <1>2, AtStep DEF Served, Placed
<1>4. CASE Leave(c, "error")
  BY <1>1, <1>4, LeaveServed, ReadStep
<1>5. CASE Fails(c, "persist", "Failed")
  BY <1>1, <1>5, FailsServed, ReadStep DEF Plain, Statuses
<1>6. CASE ~Leave(c, "error") /\ ~Fails(c, "persist", "Failed")
  <2> DEFINE saved == Current(t)
             byApproval == ~Merged(c) /\ call[c].with # "external"
  <2>1. /\ saved.cp = call[c].cp
        /\ byApproval => decision[t][saved.cp] = "approve" /\ saved.approval = "asked"
        /\ call' = [call EXCEPT ![c].pc = "merge",
                                ![c].approval = IF byApproval THEN "confirmed" ELSE saved.approval]
    BY <1>2, <1>6 DEF verify
  <2>2. PICK n \in 0..MaxCheckpoint : n = saved.cp
    BY <1>3, CurrentOK
  <2>3. PICK a \in Approvals : a = IF byApproval THEN "confirmed" ELSE saved.approval
    BY <1>3, CurrentOK DEF Approvals
  <2>4. (a # "none" => n > 0) /\ (a = "confirmed" => decision[t][n] = "approve")
    BY <1>3, <2>1, <2>2, <2>3, CurrentOK
  <2>5. call' = [call EXCEPT ![c].cp = n, ![c].approval = a, ![c].pc = "merge"]
    <3>1. call[c] \in Request /\ call \in [Callers -> Request]
      BY <1>1, AtStep DEF IInv, TypeOK
    <3>2. [call[c] EXCEPT !.cp = n, !.approval = a, !.pc = "merge"]
          = [call[c] EXCEPT !.pc = "merge", !.approval = a]
      BY <2>1, <2>2, <3>1 DEF Request
    <3> QED
      BY <2>1, <2>3, <3>1, <3>2
  <2>6. Moves(c) /\ Served(c)'
    BY <1>1, <1>2, <1>3, <2>4, <2>5, TakesServed
  <2> QED
    BY <1>1, <2>6, ReadStep
<1> QED
  BY <1>4, <1>5, <1>6

\* record_approval_decision: an approval that is given stays given.
LEMMA DecideStep ==
    ASSUME IInv, NEW c \in Callers, decide(c)
    PROVE  IInv'
<1>1. /\ call[c].pc = "decide" /\ TypeOK
      /\ UNCHANGED <<log, claimed, commits, record, active, limit, crashes>>
  BY DEF decide, At, IInv
<1>2. Grows
  BY <1>1, SameGrows
<1>3. PICK t \in Turns : t = call[c].turn
  BY <1>1, AtStep
<1>4. CASE UNCHANGED decision /\ Leave(c, "error")
  <2>1. Moves(c) /\ Served(c)'
    BY <1>1, <1>2, <1>4, LeaveServed
  <2> QED
    BY <1>1, <1>4, <2>1, FrameStep DEF TypeOK
<1>5. CASE ~(UNCHANGED decision /\ Leave(c, "error"))
  <2> DEFINE wanted == IF call[c].op = "deny" THEN "deny" ELSE "approve"
  <2>1. PICK n \in 1..MaxCheckpoint : n = call[c].cp
    <3>1. call[c].approval # "none"
      BY <1>5 DEF decide
    <3>2. call[c].cp \in 0..MaxCheckpoint /\ call[c].cp > 0
      BY <1>1, <1>3, <3>1, AtStep DEF Placed, Request
    <3> QED
      BY <3>2
  <2>2. /\ decision[t][n] = wanted \/ decision[t][n] = Null
        /\ decision' = [decision EXCEPT ![t][n] = wanted]
        /\ Goto(c, IF call[c].op = "deny" THEN "reject" ELSE "verify")
    BY <1>3, <1>5, <2>1 DEF decide
  <2>3. \A u \in Turns, m \in 1..MaxCheckpoint :
            decision[u][m] = "approve" => decision'[u][m] = "approve"
    BY <1>1, <2>2, NullAssumption DEF TypeOK
  <2>4. decision' \in [Turns -> [1..MaxCheckpoint -> {"approve", "deny", Null}]]
    BY <1>1, <2>2 DEF TypeOK
  <2>5. /\ \A d \in Callers : call[d] \in Request
        /\ call \in [Callers -> Request]
    BY <1>1 DEF TypeOK
  <2> DEFINE pc == IF call[c].op = "deny" THEN "reject" ELSE "verify"
             r == [call[c] EXCEPT !.pc = pc]
  <2>6. r \in Request
    BY <2>5 DEF Request
  <2>7. /\ call' = [call EXCEPT ![c] = r] /\ call'[c] = r
        /\ r.pc = pc /\ r.op = call[c].op /\ r.turn = call[c].turn
        /\ r.result = call[c].result /\ r.approval = call[c].approval /\ r.cp = call[c].cp
    BY <2>2, <2>5 DEF Goto, Request
  <2>8. Moves(c)
    BY <2>6, <2>7 DEF Moves
  <2>9. ASSUME NEW d \in Callers, NEW u \in Turns, call[d].turn = u, Placed(d, u),
               call'[d].op = call[d].op, call'[d].turn = call[d].turn,
               call'[d].result = call[d].result, call'[d].approval = call[d].approval,
               call'[d].cp = call[d].cp,
               call'[d].pc \in {"update", "commit", "completing"} =>
                  call'[d].pc = call[d].pc /\ call'[d].status = call[d].status
        PROVE  Placed(d, u)'
    <3>1. call[d].cp \in 0..MaxCheckpoint
      BY <2>5 DEF Request
    <3>2. Backed(u, call[d].status) /\ call'[d].status = call[d].status => Backed(u, call[d].status)'
      BY <1>2 DEF Backed, Grows
    <3>3. call[d].approval = "confirmed" => decision'[u][call[d].cp] = "approve"
      BY <2>3, <2>9, <3>1 DEF Placed
    <3> QED
      BY <1>2, <2>9, <3>2, <3>3 DEF Placed, Grows
  <2>10. Served(c)'
    <3> HIDE DEF r
    <3>1. Placed(c, t)
      BY <1>1, <1>3, AtStep
    <3>2. pc \notin {"update", "commit", "completing"}
      OBVIOUS
    <3>3. Placed(c, t)'
      BY <1>3, <2>7, <2>9, <3>1, <3>2
    <3>4. call'[c].op \in Ops /\ call[c].op \in Resuming
      BY <1>1, <2>7, AtStep DEF Served
    <3>5. \A u \in Turns : call'[c].turn = u => Placed(c, u)'
      BY <1>3, <2>7, <3>3
    <3> QED
      BY <1>3, <2>7, <3>4, <3>5 DEF Served, Ops
  <2>11. ASSUME NEW d \in Callers PROVE Served(d)'
    <3>1. CASE d = c
      BY <2>10, <3>1
    <3>2. CASE d # c
      <4>1. call'[d] = call[d] /\ Served(d)
        BY <1>1, <2>8, <3>2, MoveType DEF IInv
      <4>2. \A u \in Turns : call'[d].turn = u => Placed(d, u)'
        BY <2>9, <4>1 DEF Served
      <4> QED
        BY <4>1, <4>2 DEF Served
    <3> QED
      BY <3>1, <3>2
  <2>12. ASSUME NEW u \in Turns PROVE LogOK(u)'
    <3>1. LogOK(u) /\ \A i \in DOMAIN log[u] : log[u][i].cp \in 0..MaxCheckpoint
      BY <1>1, LogType DEF IInv, Fact
    <3> QED
      BY <1>1, <2>3, <3>1 DEF LogOK
  <2>13. TypeOK'
    BY <1>1, <2>4, <2>8, MoveType DEF TypeOK, record
  <2> QED
    BY <1>1, <1>2, <2>11, <2>12, <2>13, RecordKept DEF IInv
<1> QED
  BY <1>4, <1>5

\* A step that moves one request and appends no fact, or one that is allowed anywhere.
LEMMA OnceWrite ==
    ASSUME IInv, NEW c \in Callers, Moves(c), NEW t \in Turns,
           NEW k \in Kinds \ (CheckpointKinds \cup {"TurnCompleted"}),
           UNCHANGED log \/ append(t, Bare(k)), Served(c)', Writes
    PROVE  IInv'
BY BareType, BareAllowed, WriteStep

\* The requests on their way to a run keep the invariant.
LEMMA AdmissionStep ==
    ASSUME IInv, NEW c \in Callers, Admission(c)
    PROVE  IInv'
<1>0. TypeOK
  BY DEF IInv
<1>1. CASE begin_turn(c)
  BY <1>1, BeginStep
<1>2. CASE begin_refused(c)
  BY <1>2, ReturnServed, ReadStep DEF begin_refused
<1>3. CASE coordinator_start(c)
  <2>1. call[c].pc = "start" /\ Reads /\ Grows /\ UNCHANGED decision
    BY <1>3, ReadsSame DEF coordinator_start, At
  <2>2. CASE Refused(c)
    BY <2>1, <2>2, RefusedServed, ReadStep
  <2>3. CASE Goto(c, "started")
    <3>1. Proper(c, "started")
      BY <2>1, AtStep DEF Proper, Served
    <3> QED
      BY <2>1, <2>3, <3>1, GotoServed, ReadStep DEF Onward
  <2> QED
    BY <1>3, <2>2, <2>3 DEF coordinator_start
<1>4. CASE append_started(c)
  <2>1. call[c].pc = "started" /\ Goto(c, "admit") /\ Writes /\ UNCHANGED decision
    BY <1>4 DEF append_started, At, Writes
  <2>2. PICK t \in Turns : t = call[c].turn
    BY <2>1, AtStep
  <2>3. Grows /\ (UNCHANGED log \/ append(t, Bare("ExecutionStarted")))
    BY <1>0, <1>4, <2>2, OnceStep DEF append_started, Kinds
  <2>4. Proper(c, "admit")
    BY <2>1, AtStep DEF Proper, Served
  <2>5. Moves(c) /\ Served(c)'
    BY <2>1, <2>3, <2>4, GotoServed DEF Onward
  <2> QED
    BY <2>1, <2>3, <2>5, OnceWrite DEF Kinds, CheckpointKinds
<1>5. CASE load_suspension(c)
  BY <1>5, LoadStep
<1>6. CASE check_state(c)
  <2>1. call[c].pc = "state" /\ Reads /\ Grows /\ UNCHANGED decision
    BY <1>6, ReadsSame DEF check_state, At
  <2>2. CASE Refused(c)
    BY <2>1, <2>2, RefusedServed, ReadStep
  <2>3. CASE Goto(c, "admit")
    <3>1. Proper(c, "admit")
      BY <2>1, AtStep DEF Proper, Served
    <3> QED
      BY <2>1, <2>3, <3>1, GotoServed, ReadStep DEF Onward
  <2> QED
    BY <1>6, <2>2, <2>3 DEF check_state
<1>7. CASE admit(c)
  <2>1. /\ call[c].pc = "admit"
        /\ UNCHANGED <<log, decision, claimed, commits, record, limit, crashes>>
    BY <1>7 DEF admit, At, facts
  <2>2. Grows /\ call[c].turn \in Turns
    BY <2>1, SameGrows, AtStep
  <2>3. active' \subseteq Turns
    BY <1>0, <1>7, <2>2 DEF admit, TypeOK
  <2>4. CASE Refused(c)
    BY <1>0, <2>1, <2>2, <2>3, <2>4, RefusedServed, FrameStep DEF TypeOK
  <2>5. CASE ~Refused(c)
    <3>1. PICK pc \in {"claim", "decide", "verify"} :
             pc = CASE call[c].op = "start" -> "claim"
                    [] call[c].op \in {"resume_approval", "deny"} -> "decide"
                    [] call[c].op \in {"resume", "resume_committed"} -> "verify"
      BY <2>1, AtStep DEF Served, Resuming
    <3>2. Goto(c, pc)
      BY <1>7, <2>5, <3>1 DEF admit
    <3>3. Proper(c, pc)
      BY <2>1, <3>1, AtStep DEF Proper, Served, Resuming
    <3>4. Moves(c) /\ Served(c)'
      BY <2>1, <2>2, <3>2, <3>3, GotoServed DEF Onward, Plain
    <3> QED
      BY <1>0, <2>1, <2>3, <3>4, FrameStep DEF TypeOK
  <2> QED
    BY <2>4, <2>5
<1>8. CASE claim(c)
  <2>1. /\ call[c].pc = "claim" /\ UNCHANGED <<log, decision, commits, record, active, limit, crashes>>
    BY <1>8 DEF claim, At
  <2>2. Grows /\ call[c].turn \in Turns
    BY <2>1, SameGrows, AtStep
  <2>3. claimed' \subseteq Turns
    BY <1>0, <1>8, <2>2 DEF claim, TypeOK
  <2>4. Moves(c) /\ Served(c)'
    <3>1. CASE Leave(c, "error")
      BY <2>1, <2>2, <3>1, LeaveServed
    <3>2. CASE Goto(c, "drive")
      BY <2>1, <2>2, <3>2, GotoServed DEF Onward, Plain, Proper
    <3> QED
      BY <1>8, <3>1, <3>2 DEF claim
  <2> QED
    BY <1>0, <2>1, <2>3, <2>4, FrameStep DEF TypeOK
<1>9. CASE decide(c)
  BY <1>9, DecideStep
<1>10. CASE reject(c)
  <2>1. call[c].pc = "reject" /\ Writes /\ UNCHANGED decision
    BY <1>10 DEF reject, At, Writes
  <2>2. PICK t \in Turns : t = call[c].turn
    BY <2>1, AtStep
  <2>3. CASE Leave(c, "error") /\ UNCHANGED log
    <3>1. Moves(c) /\ Served(c)'
      BY <2>1, <2>3, LeaveServed, SameGrows
    <3> QED
      BY <2>1, <2>2, <2>3, <3>1, OnceWrite DEF Kinds, CheckpointKinds, TerminalKinds
  <2>4. CASE AppendOnce(t, "TurnFailed") /\ Commit(c, "Failed")
    <3>1. /\ Grows /\ ("TurnFailed" \in Published(t))'
          /\ UNCHANGED log \/ append(t, Bare("TurnFailed"))
      BY <1>0, <2>4, OnceStep DEF Kinds, TerminalKinds
    <3>2. \A u \in Turns : call[c].turn = u => Backed(u, "Failed")'
      BY <2>2, <3>1 DEF Backed
    <3>3. Moves(c) /\ Served(c)'
      BY <2>1, <2>4, <3>1, <3>2, CommitServed DEF Statuses
    <3> QED
      BY <2>1, <3>1, <3>3, OnceWrite DEF Kinds, CheckpointKinds, TerminalKinds
  <2> QED
    BY <1>10, <2>2, <2>3, <2>4 DEF reject
<1>11. CASE verify(c)
  BY <1>11, VerifyStep
<1>12. CASE commit_merged(c)
  <2>1. call[c].pc = "merge" /\ Writes /\ UNCHANGED decision
    BY <1>12 DEF commit_merged, At, Writes
  <2>2. PICK t \in Turns : t = call[c].turn
    BY <2>1, AtStep
  <2>3. CASE Leave(c, "error") /\ UNCHANGED log
    <3>1. Moves(c) /\ Served(c)'
      BY <2>1, <2>3, LeaveServed, SameGrows
    <3> QED
      BY <2>1, <2>2, <2>3, <3>1, OnceWrite DEF Kinds, CheckpointKinds, TerminalKinds
  <2>4. CASE ~(Leave(c, "error") /\ UNCHANGED log)
    <3>1. PICK n \in 0..MaxCheckpoint : n = call[c].cp
      BY <2>1, AtStep DEF Request
    <3>2. PICK a \in Approvals : a = call[c].approval
      BY <2>1, AtStep DEF Request
    <3> DEFINE f == Checkpoint("TurnCheckpointMerged", n, a)
    <3>3. ~Cancelled(t) /\ append(t, f) /\ Goto(c, "enter")
      BY <1>12, <2>2, <2>4, <3>1, <3>2 DEF commit_merged
    <3>4. /\ f \in Fact /\ f.kind = "TurnCheckpointMerged" /\ f.cp = n /\ f.approval = a
      BY CheckpointType DEF Kinds, CheckpointKinds
    <3>5. Placed(c, t)
      BY <2>1, <2>2, AtStep
    <3>6. Allowed(t, f)
      BY <3>1, <3>2, <3>3, <3>4, <3>5 DEF Allowed, Placed
    <3> HIDE DEF f
    <3>7. Grows
      BY <1>0, <3>3, <3>4, AppendGrows
    <3>8. Moves(c) /\ Served(c)'
      BY <2>1, <3>3, <3>7, GotoServed DEF Onward, Plain, Proper
    <3> QED
      BY <2>1, <3>3, <3>4, <3>6, <3>8, WriteStep
  <2> QED
    BY <2>3, <2>4
<1>13. CASE drive_checkpoint(c)
  <2>1. call[c].pc = "enter" /\ Reads /\ Grows /\ UNCHANGED decision
    BY <1>13, ReadsSame DEF drive_checkpoint, At
  <2>2. CASE Leave(c, "error")
    BY <2>1, <2>2, LeaveServed, ReadStep
  <2>3. CASE Goto(c, "drive")
    BY <2>1, <2>3, GotoServed, ReadStep DEF Onward, Plain, Proper
  <2> QED
    BY <1>13, <2>2, <2>3 DEF drive_checkpoint
<1> QED
  BY <1>1, <1>2, <1>3, <1>4, <1>5, <1>6, <1>7, <1>8, <1>9, <1>10, <1>11, <1>12, <1>13
     DEF Admission

----------------------------------------------------------------------------
\* The run.

\* The facts of a run keep the invariant.
LEMMA RunStep ==
    ASSUME IInv, NEW c \in Callers, Run(c)
    PROVE  IInv'
<1>0. TypeOK
  BY DEF IInv
<1>1. call[c].pc # "idle" /\ UNCHANGED decision
  BY DEF Run, record_checkpoint, suspended, complete, emit_completed, uncertain, run_fails,
         emit_terminal, persist_error, At, Reads, Writes, facts
<1>2. PICK t \in Turns : t = call[c].turn
  BY <1>1, AtStep
<1>3. PICK n \in 0..MaxCheckpoint : n = call[c].cp
  BY <1>1, AtStep DEF Request
<1>4. PICK a \in Approvals : a = call[c].approval
  BY <1>1, AtStep DEF Request
<1>5. Placed(c, t) /\ Served(c) /\ call[c] \in Request /\ call \in [Callers -> Request]
  BY <1>0, <1>1, <1>2, AtStep DEF TypeOK
<1>6. CASE record_checkpoint(c)
  <2> DEFINE f == Checkpoint("TurnCheckpointPrepared", n + 1, "none")
             r == [call[c] EXCEPT !.cp = n + 1, !.approval = "none"]
  <2>1. /\ n + 1 \in 0..MaxCheckpoint /\ append(t, f) /\ Writes
        /\ call[c].pc = "drive"
    BY <1>2, <1>3, <1>6, SessionAssumption DEF record_checkpoint, At
  <2>2. /\ f \in Fact /\ f.kind = "TurnCheckpointPrepared" /\ f.cp = n + 1 /\ f.approval = "none"
    BY <2>1, CheckpointType DEF Kinds, CheckpointKinds, Approvals
  <2>3. Allowed(t, f)
    BY <1>2, <1>6, <2>2 DEF Allowed, record_checkpoint
  <2>4. call' = [call EXCEPT ![c] = r] /\ call'[c] = r
    BY <1>3, <1>5, <1>6 DEF record_checkpoint
  <2>5. r \in Request
    BY <1>5, <2>1 DEF Request, Approvals
  <2>6. /\ r.pc = "drive" /\ r.op = call[c].op /\ r.turn = t /\ r.result = call[c].result
        /\ r.approval = "none"
    BY <1>2, <1>5, <2>1 DEF Request
  <2> HIDE DEF f, r
  <2>7. Grows
    BY <1>0, <2>1, <2>2, AppendGrows
  <2>8. \A u \in Turns : call'[c].turn = u => Placed(c, u)'
    BY <1>5, <2>4, <2>6, <2>7 DEF Placed, Grows
  <2>9. Moves(c) /\ Served(c)'
    <3>1. call[c].op # "idle"
      BY <1>1, <1>5 DEF Served
    <3> QED
      BY <1>5, <2>4, <2>5, <2>6, <2>8, <3>1 DEF Moves, Served
  <2> QED
    BY <2>1, <2>2, <2>3, <2>9, WriteStep
<1>7. CASE suspended(c)
  <2>1. Writes /\ call[c].pc = "drive" /\ n > 0
    BY <1>3, <1>7 DEF suspended, At
  <2>2. CASE Leave(c, "error") /\ UNCHANGED log
    <3>1. Moves(c) /\ Served(c)'
      BY <1>1, <2>2, LeaveServed, SameGrows
    <3> QED
      BY <2>1, <2>2, <3>1, OnceWrite DEF Kinds, CheckpointKinds, TerminalKinds
  <2>3. CASE ~(Leave(c, "error") /\ UNCHANGED log)
    <3>1. ~Cancelled(t) /\ Leave(c, "suspended")
      BY <1>2, <1>7, <2>3 DEF suspended
    <3>2. PICK b \in Approvals :
             /\ b = "none" \/ b = "asked" \/ b = a
             /\ append(t, Checkpoint("ExecutionSuspended", n, b))
             /\ b = "confirmed" => a = "confirmed"
      BY <1>2, <1>3, <1>4, <1>7, <2>3 DEF suspended, Approvals
    <3> DEFINE f == Checkpoint("ExecutionSuspended", n, b)
    <3>3. /\ f \in Fact /\ f.kind = "ExecutionSuspended" /\ f.cp = n /\ f.approval = b
      BY CheckpointType DEF Kinds, CheckpointKinds
    <3>4. Allowed(t, f)
      BY <1>3, <1>4, <1>5, <2>1, <3>1, <3>2, <3>3 DEF Allowed, Placed
    <3>5. append(t, f)
      BY <3>2
    <3> HIDE DEF f
    <3>6. Grows
      BY <1>0, <3>3, <3>5, AppendGrows
    <3>7. Moves(c) /\ Served(c)'
      BY <1>1, <3>1, <3>6, LeaveServed
    <3> QED
      BY <2>1, <3>3, <3>4, <3>5, <3>7, WriteStep
  <2> QED
    BY <2>2, <2>3
<1>8. CASE complete(c)
  <2> DEFINE f == Bare("TurnCompleted")
  <2>1. /\ Writes /\ append(t, f) /\ ~Cancelled(t)
        /\ Goto(c, "completing")
    BY <1>2, <1>8 DEF complete
  <2>2. f \in Fact /\ f.kind = "TurnCompleted" /\ f.approval = "none"
    BY BareType DEF Kinds, TerminalKinds
  <2>3. Allowed(t, f)
    BY <2>1, <2>2 DEF Allowed
  <2> HIDE DEF f
  <2>4. Grows /\ ("TurnCompleted" \in Published(t))'
    BY <1>0, <2>1, <2>2, AppendGrows
  <2> DEFINE r == [call[c] EXCEPT !.pc = "completing"]
  <2>5. call' = [call EXCEPT ![c] = r] /\ call'[c] = r
    BY <1>5, <2>1 DEF Goto
  <2>6. /\ r.pc = "completing" /\ r.op = call[c].op /\ r.turn = t /\ r.result = call[c].result
        /\ r.approval = call[c].approval /\ r.cp = call[c].cp
        /\ r \in Request
    BY <1>2, <1>5 DEF Request
  <2> HIDE DEF r
  <2>7. \A u \in Turns : call'[c].turn = u => Placed(c, u)'
    BY <1>1, <1>5, <2>4, <2>5, <2>6 DEF Placed, Grows
  <2>8. Moves(c) /\ Served(c)'
    <3>1. call[c].op # "idle"
      BY <1>1, <1>5 DEF Served
    <3> QED
      BY <1>5, <2>5, <2>6, <2>7, <3>1 DEF Moves, Served
  <2> QED
    BY <2>1, <2>2, <2>3, <2>8, WriteStep
<1>13. CASE emit_completed(c)
  <2> DEFINE f == Bare("TurnCompleted")
  <2>1. /\ Writes /\ call[c].pc = "completing"
        /\ \/ append(t, f) /\ Leave(c, "completed")
           \/ UNCHANGED log /\ Fails(c, "fail", "Failed")
    BY <1>2, <1>13 DEF emit_completed, At
  <2>2. f \in Fact /\ f.kind = "TurnCompleted" /\ f.approval = "none"
    BY BareType DEF Kinds, TerminalKinds
  <2>3. Allowed(t, f)
    BY <1>5, <2>1, <2>2 DEF Allowed, Placed, CheckpointKinds
  <2> HIDE DEF f
  <2>4. CASE append(t, f) /\ Leave(c, "completed")
    <3>1. Grows /\ ("TurnCompleted" \in Published(t))'
      BY <1>0, <2>2, <2>4, AppendGrows
    <3>2. \A u \in Turns : call[c].turn = u => ("TurnCompleted" \in Published(u))'
      BY <1>2, <3>1
    <3>3. Moves(c) /\ Served(c)'
      BY <1>1, <2>4, <3>1, <3>2, LeaveServed
    <3> QED
      BY <2>1, <2>2, <2>3, <2>4, <3>3, WriteStep
  <2>5. CASE UNCHANGED log /\ Fails(c, "fail", "Failed")
    <3>1. Moves(c) /\ Served(c)'
      BY <1>1, <2>5, SameGrows, FailsServed DEF Plain, Statuses
    <3> QED
      BY <2>1, <2>5, <3>1, OnceWrite DEF Kinds, CheckpointKinds, TerminalKinds
  <2> QED
    BY <2>1, <2>4, <2>5
<1>9. CASE uncertain(c)
  <2>1. Writes /\ AppendOnce(t, "EffectUncertain") /\ Fails(c, "fail", "Failed")
    BY <1>2, <1>9 DEF uncertain
  <2>2. Grows /\ (UNCHANGED log \/ append(t, Bare("EffectUncertain")))
    BY <1>0, <2>1, OnceStep DEF Kinds
  <2>3. Moves(c) /\ Served(c)'
    BY <1>1, <2>1, <2>2, FailsServed DEF Plain, Statuses
  <2> QED
    BY <2>1, <2>2, <2>3, OnceWrite DEF Kinds, CheckpointKinds
<1>10. CASE run_fails(c)
  <2>1. PICK end \in {"Failed", "Cancelled"} : Fails(c, "fail", end)
    BY <1>10 DEF run_fails
  <2>2. Reads /\ Grows
    BY <1>10, ReadsSame DEF run_fails
  <2>3. Moves(c) /\ Served(c)'
    BY <1>1, <2>1, <2>2, FailsServed DEF Plain, Statuses
  <2> QED
    BY <2>2, <2>3, ReadStep
<1>11. CASE emit_terminal(c)
  <2>1. PICK k \in {"TurnCancelled", "TurnFailed"} : EndFact(call[c].status) = Bare(k)
    BY DEF EndFact
  <2>2. Writes /\ (UNCHANGED log \/ append(t, Bare(k)))
    BY <1>2, <1>11, <2>1 DEF emit_terminal
  <2>3. Grows
    <3>1. Bare(k) \in Fact
      BY BareType DEF Kinds, TerminalKinds
    <3> QED
      BY <1>0, <2>2, <3>1, SameGrows, AppendGrows
  <2>4. Moves(c) /\ Served(c)'
    <3>1. CASE Goto(c, "persist")
      BY <1>1, <2>3, <3>1, GotoServed DEF Onward, Plain, Proper
    <3>2. CASE Fails(c, "persist", "Failed")
      BY <1>1, <2>3, <3>2, FailsServed DEF Plain, Statuses
    <3> QED
      BY <1>11, <3>1, <3>2 DEF emit_terminal
  <2> QED
    BY <2>2, <2>4, OnceWrite DEF Kinds, CheckpointKinds, TerminalKinds
<1>12. CASE persist_error(c)
  <2>1. PICK k \in {"TurnCancelled", "TurnFailed"} : EndFact(call[c].status) = Bare(k)
    BY DEF EndFact
  <2>2. Writes /\ (UNCHANGED log \/ append(t, Bare(k))) /\ Leave(c, "error")
    BY <1>2, <1>12, <2>1 DEF persist_error
  <2>3. Grows
    <3>1. Bare(k) \in Fact
      BY BareType DEF Kinds, TerminalKinds
    <3> QED
      BY <1>0, <2>2, <3>1, SameGrows, AppendGrows
  <2>4. Moves(c) /\ Served(c)'
    BY <1>1, <2>2, <2>3, LeaveServed
  <2> QED
    BY <2>2, <2>4, OnceWrite DEF Kinds, CheckpointKinds, TerminalKinds
<1> QED
  BY <1>6, <1>7, <1>8, <1>9, <1>10, <1>11, <1>12, <1>13 DEF Run

----------------------------------------------------------------------------
\* What is left of a request after its run.

\* update_turn_with_context: the status is backed, and messages are appended to the
\* history only by the Turn that closes.
LEMMA UpdateStep ==
    ASSUME IInv, NEW c \in Callers, update_turn(c)
    PROVE  IInv'
<1>0. /\ TypeOK /\ RecordOK /\ call[c].pc = "update"
      /\ UNCHANGED <<log, decision, claimed, commits, input, active, limit, crashes>>
  BY DEF update_turn, facts, record, IInv, At
<1>1. PICK t \in Turns : t = call[c].turn
  BY <1>0, AtStep
<1>2. PICK s \in Statuses : s = call[c].status
  BY <1>0, AtStep DEF Request
<1>3. Grows
  BY <1>0, SameGrows
<1>4. Moves(c) /\ Served(c)'
  <2>1. CASE Goto(c, "commit")
    BY <1>0, <1>3, <2>1, GotoServed DEF Onward, Proper
  <2>2. CASE Committed(c)
    BY <1>0, <1>3, <2>2, ReturnServed, LeaveServed DEF Committed
  <2> QED
    BY <2>1, <2>2 DEF update_turn
<1>5. CASE UNCHANGED record
  BY <1>0, <1>4, <1>5, FrameStep DEF TypeOK
<1>6. CASE ~UNCHANGED record
  <2>1. /\ Open(t) /\ status[t] # s /\ status' = [status EXCEPT ![t] = s]
        /\ messages' = IF s = "Completed" THEN Append(messages, t) ELSE messages
        /\ version' = version + 1
    BY <1>1, <1>2, <1>6 DEF update_turn, MayUpdate
  <2>2. \A u \in Turns : status'[u] = IF u = t THEN s ELSE status[u]
    BY <1>0, <2>1 DEF TypeOK
  <2>3. Backed(t, s)
    BY <1>0, <1>1, <1>2, AtStep DEF Placed
  <2>4. TypeOK'
    <3>1. messages' \in Seq(Turns)
      BY <1>0, <2>1 DEF TypeOK
    <3> QED
      BY <1>0, <1>4, <2>1, <3>1, MoveType DEF TypeOK
  <2>5. \A d \in Callers : Served(d)'
    BY <1>0, <1>3, <1>4, ServedGrows, MoveType DEF IInv
  <2>6. \A u \in Turns : LogOK(u)'
    BY <1>0 DEF IInv, LogOK
  <2>7. RecordOK'
    <3>1. \A u \in Turns : Backed(u, status[u])'
      BY <1>0, <1>3, <2>2, <2>3 DEF RecordOK, Backed, Grows
    <3>2. \A u \in Turns : Open(u)' => Open(u)
      BY <2>1, <2>2 DEF Open
    <3>3. CASE s # "Completed"
      <4>1. messages' = messages
        BY <2>1, <3>3
      <4>2. \A u \in Turns : status'[u] = "Completed" <=> status[u] = "Completed"
        BY <2>1, <2>2, <3>3 DEF Open
      <4>3. \A u \in Turns : status'[u] = "Completed" <=> \E i \in DOMAIN messages : messages[i] = u
        BY <1>0, <4>2 DEF RecordOK
      <4>4. \A u \in Turns : Open(u)' => Len(messages) = input[u]
        BY <1>0, <3>2 DEF RecordOK
      <4>5. \A u, w \in Turns : (Open(u) /\ Open(w) => u = w)'
        BY <1>0, <3>2 DEF RecordOK
      <4>6. \A i, j \in DOMAIN messages : messages[i] = messages[j] => i = j
        BY <1>0 DEF RecordOK
      <4> QED
        BY <1>0, <3>1, <4>1, <4>3, <4>4, <4>5, <4>6 DEF RecordOK
    <3>4. CASE s = "Completed"
      <4> DEFINE n == Len(messages)
      <4>1. /\ n \in Nat /\ DOMAIN messages = 1..n /\ DOMAIN messages' = 1..(n + 1)
            /\ messages'[n + 1] = t /\ \A i \in 1..n : messages'[i] = messages[i]
        BY <1>0, <2>1, <3>4 DEF TypeOK
      <4> HIDE DEF n
      <4>2. status[t] # "Completed" /\ \A i \in 1..n : messages[i] # t
        BY <1>0, <2>1, <4>1 DEF Open, RecordOK
      <4>3. \A i \in 1..(n + 1) : i \in 1..n \/ i = n + 1
        BY <4>1
      <4>4. ASSUME NEW u \in Turns
            PROVE  status'[u] = "Completed" <=> \E i \in DOMAIN messages' : messages'[i] = u
        <5>1. CASE u = t
          BY <2>2, <3>4, <4>1, <5>1
        <5>2. CASE u # t
          <6>1. (\E i \in DOMAIN messages' : messages'[i] = u)
                <=> (\E i \in DOMAIN messages : messages[i] = u)
            BY <4>1, <4>3, <5>2
          <6> QED
            BY <1>0, <2>2, <5>2, <6>1 DEF RecordOK
        <5> QED
          BY <5>1, <5>2
      <4>5. \A i, j \in DOMAIN messages' : messages'[i] = messages'[j] => i = j
        BY <1>0, <4>1, <4>2, <4>3 DEF RecordOK
      <4>6. \A u \in Turns : ~Open(u)'
        BY <1>0, <2>1, <2>2, <3>2, <3>4 DEF RecordOK, Open
      <4> QED
        BY <3>1, <4>4, <4>5, <4>6 DEF RecordOK
    <3> QED
      BY <3>3, <3>4
  <2> QED
    BY <2>4, <2>5, <2>6, <2>7 DEF IInv
<1> QED
  BY <1>5, <1>6

\* The end of a request keeps the invariant.
LEMMA FinishStep ==
    ASSUME IInv, NEW c \in Callers, Finish(c)
    PROVE  IInv'
<1>0. TypeOK
  BY DEF IInv
<1>1. CASE release(c)
  <2>1. /\ call[c].pc # "idle" /\ Goto(c, "drop") /\ active' \subseteq Turns
        /\ UNCHANGED <<log, decision, claimed, commits, record, limit, crashes>>
    BY <1>0, <1>1 DEF release, At, facts, TypeOK
  <2>2. Moves(c) /\ Served(c)'
    BY <2>1, SameGrows, GotoServed DEF Onward, Plain, Proper
  <2> QED
    BY <1>0, <2>1, <2>2, FrameStep DEF TypeOK
<1>2. CASE drop(c)
  <2>1. /\ call[c].pc # "idle" /\ (Return(c) \/ Goto(c, "result")) /\ active' \subseteq Turns
        /\ UNCHANGED <<log, decision, claimed, commits, record, limit, crashes>>
    BY <1>0, <1>2 DEF drop, At, facts, TypeOK
  <2>2. Moves(c) /\ Served(c)'
    BY <2>1, SameGrows, ReturnServed, GotoServed DEF Onward, Plain, Proper
  <2> QED
    BY <1>0, <2>1, <2>2, FrameStep DEF TypeOK
<1>3. CASE commit_result(c)
  <2>1. call[c].pc = "result" /\ Reads /\ Grows /\ UNCHANGED decision
    BY <1>3, ReadsSame DEF commit_result, At
  <2>2. PICK t \in Turns : t = call[c].turn
    BY <2>1, AtStep
  <2>3. CASE Return(c)
    BY <2>1, <2>3, ReturnServed, ReadStep
  <2>4. CASE ~Return(c)
    <3>1. PICK s \in Statuses : Commit(c, s) /\ Backed(t, s)
      <4>1. CASE call[c].result = "suspended"
        BY <1>3, <4>1 DEF commit_result, Backed, Statuses
      <4>2. CASE call[c].result = "completed"
        <5>1. Backed(t, "Completed")
          BY <2>1, <2>2, <4>2, AtStep DEF Placed, Backed
        <5> QED
          BY <1>3, <4>2, <5>1 DEF commit_result, Statuses
      <4>3. CASE call[c].result = "error"
        <5> DEFINE ended == IF terminal_status(t) # Null THEN terminal_status(t)
                            ELSE IF verified_execution_cancellation(t) THEN "Cancelled" ELSE Null
        <5>1. Commit(c, ended) /\ ended \in {"Failed", "Cancelled"}
          BY <1>3, <2>2, <2>4, <4>3 DEF commit_result
        <5>2. Backed(t, ended)
          <6>1. CASE terminal_status(t) # Null
            BY <1>0, <6>1, TerminalBacked
          <6>2. CASE terminal_status(t) = Null
            BY <5>1, <6>2, NullAssumption DEF verified_execution_cancellation, Backed, Statuses
          <6> QED
            BY <6>1, <6>2
        <5> HIDE DEF ended
        <5> QED
          BY <5>1, <5>2 DEF Statuses
      <4>4. call[c].result \in {"error", "suspended", "completed"}
        BY <2>1, AtStep DEF Request
      <4> QED
        BY <4>1, <4>2, <4>3, <4>4
    <3>2. \A u \in Turns : call[c].turn = u => Backed(u, s)'
      BY <2>1, <2>2, <3>1, BackedGrows
    <3>3. Moves(c) /\ Served(c)'
      BY <2>1, <3>1, <3>2, CommitServed
    <3> QED
      BY <2>1, <3>3, ReadStep
  <2> QED
    BY <2>3, <2>4
<1>4. CASE update_turn(c)
  BY <1>4, UpdateStep
<1>5. CASE confirm_commit(c)
  <2>1. /\ call[c].pc # "idle" /\ call[c].turn \in Turns /\ call[c].status \in Statuses
        /\ commits' = [commits EXCEPT ![call[c].turn] = @ \cup {call[c].status}]
        /\ UNCHANGED <<log, decision, claimed, record, active, limit, crashes>>
    BY <1>5, AtStep DEF confirm_commit, At, Request
  <2>2. commits' \in [Turns -> SUBSET Statuses]
    BY <1>0, <2>1 DEF TypeOK
  <2>3. Return(c) \/ Leave(c, "error")
    BY <1>5 DEF confirm_commit, Committed
  <2>4. Moves(c) /\ Served(c)'
    BY <2>1, <2>3, SameGrows, ReturnServed, LeaveServed
  <2> QED
    BY <1>0, <2>1, <2>2, <2>4, FrameStep DEF TypeOK
<1>6. CASE reconcile(c)
  <2>1. call[c].pc = "reconcile" /\ Reads /\ Grows /\ UNCHANGED decision
    BY <1>6, ReadsSame DEF reconcile, At
  <2>2. PICK t \in Turns : t = call[c].turn
    BY <2>1, AtStep
  <2>3. CASE Return(c)
    BY <2>1, <2>3, ReturnServed, ReadStep
  <2>4. CASE ~Return(c)
    <3>1. Recoverable(t) # Null /\ Commit(c, Recoverable(t))
      BY <1>6, <2>2, <2>4 DEF reconcile
    <3>2. PICK s \in Statuses : s = Recoverable(t) /\ Backed(t, s)
      BY <1>0, <3>1, RecoverableBacked
    <3>3. \A u \in Turns : call[c].turn = u => Backed(u, s)'
      BY <2>1, <2>2, <3>2, BackedGrows
    <3>4. Moves(c) /\ Served(c)'
      BY <2>1, <3>1, <3>2, <3>3, CommitServed
    <3> QED
      BY <2>1, <3>4, ReadStep
  <2> QED
    BY <2>3, <2>4
<1>7. CASE check_cancel(c)
  <2>1. PICK pc \in {"close", "append"} : Goto(c, pc)
    BY <1>7 DEF check_cancel
  <2>2. call[c].pc # "idle" /\ Reads /\ Grows /\ UNCHANGED decision
    BY <1>7, ReadsSame DEF check_cancel, At
  <2> QED
    BY <2>1, <2>2, GotoServed, ReadStep DEF Onward, Plain, Proper
<1>8. CASE append_cancelled(c)
  <2>1. call[c].pc # "idle" /\ Goto(c, "uncage") /\ Writes /\ UNCHANGED decision
    BY <1>8 DEF append_cancelled, At, Writes
  <2>2. PICK t \in Turns : t = call[c].turn
    BY <2>1, AtStep
  <2>3. Grows /\ (UNCHANGED log \/ append(t, Bare("ExecutionCancelled")))
    BY <1>0, <1>8, <2>2, OnceStep DEF append_cancelled, Kinds
  <2>4. Moves(c) /\ Served(c)'
    BY <2>1, <2>3, GotoServed DEF Onward, Plain, Proper
  <2> QED
    BY <2>1, <2>3, <2>4, OnceWrite DEF Kinds, CheckpointKinds
<1>9. CASE release_cancelled(c)
  <2>1. /\ call[c].pc # "idle" /\ Goto(c, "close") /\ active' \subseteq Turns
        /\ UNCHANGED <<log, decision, claimed, commits, record, limit, crashes>>
    BY <1>0, <1>9 DEF release_cancelled, At, facts, TypeOK
  <2>2. Moves(c) /\ Served(c)'
    BY <2>1, SameGrows, GotoServed DEF Onward, Plain, Proper
  <2> QED
    BY <1>0, <2>1, <2>2, FrameStep DEF TypeOK
<1>10. CASE close_cancelled(c)
  <2>1. call[c].pc = "close" /\ Writes /\ UNCHANGED decision
    BY <1>10 DEF close_cancelled, At, Writes
  <2>2. PICK t \in Turns : t = call[c].turn
    BY <2>1, AtStep
  <2>3. CASE Return(c) /\ UNCHANGED log
    BY <2>1, <2>2, <2>3, ReturnServed, OnceWrite DEF Kinds, CheckpointKinds, TerminalKinds
  <2>4. CASE AppendOnce(t, "TurnCancelled") /\ Commit(c, "Cancelled")
    <3>1. /\ Grows /\ ("TurnCancelled" \in Published(t))'
          /\ UNCHANGED log \/ append(t, Bare("TurnCancelled"))
      BY <1>0, <2>4, OnceStep DEF Kinds, TerminalKinds
    <3>2. \A u \in Turns : call[c].turn = u => Backed(u, "Cancelled")'
      BY <2>2, <3>1 DEF Backed
    <3>3. Moves(c) /\ Served(c)'
      BY <2>1, <2>4, <3>1, <3>2, CommitServed DEF Statuses
    <3> QED
      BY <2>1, <3>1, <3>3, OnceWrite DEF Kinds, CheckpointKinds, TerminalKinds
  <2> QED
    BY <1>10, <2>2, <2>3, <2>4 DEF close_cancelled
<1> QED
  BY <1>1, <1>2, <1>3, <1>4, <1>5, <1>6, <1>7, <1>8, <1>9, <1>10 DEF Finish

\* A request whose future is dropped leaves only its guard's release.
LEMMA AbandonStep ==
    ASSUME IInv, NEW c \in Callers, abandon(c)
    PROVE  IInv'
<1>1. /\ Return(c) /\ active' \subseteq Turns
      /\ UNCHANGED <<log, decision, claimed, commits, record, limit, crashes>>
  BY DEF abandon, facts, IInv, TypeOK
<1> QED
  BY <1>1, ReturnServed, FrameStep DEF IInv, TypeOK

\* A process that dies leaves what is durable as it was.
LEMMA CrashStep ==
    ASSUME IInv, crash
    PROVE  IInv'
<1>1. /\ UNCHANGED <<log, decision, claimed, commits, status, input, messages, version, limit>>
      /\ active' = {} /\ call' = [c \in Callers |-> Idle] /\ crashes' = crashes + 1
      /\ crashes < limit.crashes
  BY DEF crash, facts, record
<1>2. crashes' \in 0..limit'.crashes
  <2>1. limit.crashes \in Nat /\ crashes \in 0..limit.crashes
    BY SessionAssumption DEF IInv, TypeOK
  <2> QED
    BY <1>1, <2>1
<1>3. TypeOK'
  BY <1>1, <1>2, IdleType DEF IInv, TypeOK
<1>4. \A c \in Callers : Served(c)'
  BY <1>1, SessionAssumption DEF Served, Idle
<1>5. \A t \in Turns : LogOK(t)'
  BY <1>1 DEF IInv, LogOK
<1>6. RecordOK'
  <2>1. UNCHANGED record /\ Grows
    BY <1>1, SameGrows DEF record
  <2> QED
    BY <2>1, RecordKept DEF IInv
<1> QED
  BY <1>3, <1>4, <1>5, <1>6 DEF IInv

----------------------------------------------------------------------------
\* The inductive invariant and the properties.

\* An empty ledger and Session satisfy the invariant.
LEMMA InitIInv == Init => IInv
<1> SUFFICES ASSUME Init PROVE IInv
  OBVIOUS
<1>1. TypeOK
  <2>1. <<>> \in Seq(Fact) /\ <<>> \in Seq(Turns)
    OBVIOUS
  <2>2. crashes \in 0..limit.crashes
    BY SessionAssumption DEF Init
  <2> QED
    BY <2>1, <2>2, IdleType DEF Init, TypeOK
<1>2. \A c \in Callers : Served(c)
  BY SessionAssumption DEF Init, Served, Idle
<1>3. \A t \in Turns : LogOK(t)
  BY DEF Init, LogOK
<1>4. RecordOK
  <2>1. \A t \in Turns : status[t] = Null /\ Null \notin Statuses
    BY NullAssumption DEF Init
  <2>2. messages = <<>> /\ DOMAIN messages = {}
    BY DEF Init
  <2> QED
    BY <2>1, <2>2 DEF RecordOK, Backed, Open, Statuses
<1> QED
  BY <1>1, <1>2, <1>3, <1>4 DEF IInv

\* Every step keeps the invariant.
LEMMA StepIInv == IInv /\ [Next]_vars => IInv'
<1> SUFFICES ASSUME IInv, [Next]_vars PROVE IInv'
  OBVIOUS
<1>1. ASSUME NEW c \in Callers, Ask(c) \/ Serve(c) \/ abandon(c) PROVE IInv'
  BY <1>1, AskStep, AdmissionStep, RunStep, FinishStep, AbandonStep DEF Serve
<1>2. CASE crash
  BY <1>2, CrashStep
<1>3. CASE UNCHANGED vars
  <2>1. UNCHANGED <<log, decision, claimed, commits, status, input, messages, version, active,
                    call, limit, crashes>>
    BY <1>3 DEF vars, facts, record
  <2>2. TypeOK'
    BY <2>1 DEF IInv, TypeOK
  <2>3. \A c \in Callers : Served(c)'
    BY <2>1, SameGrows, ServedGrows DEF IInv
  <2>4. \A t \in Turns : LogOK(t)'
    BY <2>1 DEF IInv, LogOK
  <2>5. RecordOK'
    BY <2>1, SameGrows, RecordKept DEF IInv, record
  <2> QED
    BY <2>2, <2>3, <2>4, <2>5 DEF IInv
<1> QED
  BY <1>1, <1>2, <1>3 DEF Next

\* The invariant holds in every state of every behaviour.
LEMMA SpecIInv == Spec => []IInv
BY InitIInv, StepIInv, PTL DEF Spec

\* Only a durable fact closes a Turn in the Session, and the conversation holds the
\* messages of exactly the completed Turns, each once: update_turn_with_context commits
\* what commit_result, deny, cancel and load_reconciled found in the ledger.
THEOREM SessionIsBacked == Spec => []SessionBacked
<1>1. ASSUME IInv PROVE SessionBacked
  <2>1. TypeOK /\ RecordOK
    BY <1>1 DEF IInv
  <2>2. ASSUME NEW t \in Turns
        PROVE  (status[t] = "Completed") = (\E i \in DOMAIN messages : messages[i] = t)
    <3>1. status[t] = "Completed" <=> \E i \in DOMAIN messages : messages[i] = t
      BY <2>1 DEF RecordOK
    <3> QED
      BY <3>1, Zenon
  <2> QED
    BY <2>1, <2>2 DEF SessionBacked, RecordOK, Backed
<1> QED
  BY <1>1, SpecIInv, PTL

\* The history an open Turn was started on does not change under it: begin_turn
\* registers one open Turn at a time, and only its own commit appends messages.
THEOREM HistoryIsStable == Spec => []HistoryStable
<1>1. IInv => HistoryStable
  BY DEF IInv, RecordOK, HistoryStable
<1> QED
  BY <1>1, SpecIInv, PTL

\* An approval is decided once: record_approval_decision never replaces a decision, so
\* no checkpoint is merged as confirmed whose approval was denied.
THEOREM DecisionIsExclusive == Spec => []DecisionExclusive
<1>1. IInv => DecisionExclusive
  BY DEF IInv, LogOK, DecisionExclusive
<1> QED
  BY <1>1, SpecIInv, PTL

\* Behind ExecutionCancelled no run prepares, merges or suspends, and a Turn that is
\* completed there was admitted to complete before it: those appends and the Terminal
\* boundary are fenced by the cancellation, and the Completed event, which is not
\* fenced, has that boundary's fact before it.
THEOREM CancelIsNotOvertaken == Spec => []CancelNotOvertaken
<1>1. ASSUME IInv PROVE CancelNotOvertaken
  <2> SUFFICES ASSUME NEW t \in Turns, NEW i \in Where(t, {"ExecutionCancelled"})
               PROVE  /\ \A j \in Where(t, CheckpointKinds) : j < i
                      /\ "TurnCompleted" \in Published(t) \/ status[t] = "Completed" =>
                            \E k \in Where(t, {"TurnCompleted"}) : k < i
    BY DEF CancelNotOvertaken
  <2>1. /\ DOMAIN log[t] = 1..Len(log[t]) /\ Len(log[t]) \in Nat
        /\ i \in DOMAIN log[t] /\ log[t][i].kind = "ExecutionCancelled"
    BY <1>1, LogType DEF IInv, Where
  <2>2. ASSUME NEW j \in Where(t, CheckpointKinds) PROVE j < i
    <3>1. j \in DOMAIN log[t] /\ log[t][j].kind \in CheckpointKinds
      BY DEF Where
    <3>2. ~(i < j)
      BY <1>1, <2>1, <3>1 DEF IInv, LogOK
    <3>3. j # i
      BY <2>1, <3>1 DEF CheckpointKinds
    <3> QED
      BY <2>1, <3>1, <3>2, <3>3
  <2>3. ASSUME "TurnCompleted" \in Published(t) \/ status[t] = "Completed"
        PROVE  \E k \in Where(t, {"TurnCompleted"}) : k < i
    <3>1. "TurnCompleted" \in Published(t)
      BY <1>1, <2>3 DEF IInv, RecordOK, Backed
    <3>2. PICK j \in DOMAIN log[t] : log[t][j].kind = "TurnCompleted"
      BY <3>1 DEF Published
    <3>3. PICK k \in DOMAIN log[t] : k < i /\ log[t][k].kind = "TurnCompleted"
      BY <1>1, <2>1, <3>2 DEF IInv, LogOK
    <3> QED
      BY <3>3 DEF Where
  <2> QED
    BY <2>2, <2>3
<1> QED
  BY <1>1, SpecIInv, PTL

=============================================================================
