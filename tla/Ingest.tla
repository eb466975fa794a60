------------------------------- MODULE Ingest -------------------------------
(***************************************************************************)
(* Push replication of one table: the agent (bin/agent.rs, RemoteSink in   *)
(* sink.rs) that pushes a FULL dump when it starts and deltas afterwards,  *)
(* and the gateway (bin/ingest.rs, apply_delta_streaming in merge.rs) that *)
(* serves every connection on a thread of its own and works on PostgreSQL. *)
(*                                                                         *)
(* Change capture is taken as perfect here: a delta holds the latest state *)
(* of every row that changed since the watermark.  CdcWatch is about that. *)
(***************************************************************************)
EXTENDS Integers

CONSTANTS
  Keys,         \* primary-key values
  Conns,        \* connections, each with its thread at the gateway
  None,         \* no relation, no connection, nothing about a row
  Env,          \* behaviours of the surroundings: a subset of Behaviours
  MaxVer,       \* bound: versions Firebird may write
  MaxFaults     \* bound: failures of one behaviour

Behaviours == {
  "crash",     \* the agent dies
  "cut",       \* a connection breaks and both ends notice
  "silent",    \* when the agent dies the gateway is not told
  "overlap",   \* the agent opens a connection while an older one is still served
  "restart",   \* the gateway is restarted
  "pgCrash" }  \* PostgreSQL crashes and recovers

\* A row, and for a row that is not there the version of its delete.
Entry == [ver : Nat, live : BOOLEAN]
Rows  == [Keys -> Entry]
Body  == [Keys -> Entry \cup {None}]

ASSUME IngestAssumption ==
  /\ Env \subseteq Behaviours
  /\ MaxVer \in Nat
  /\ MaxFaults \in Nat
  /\ None \notin Conns
  /\ None \notin Rows
  /\ None \notin Entry
  /\ None \notin [Keys -> Nat]

VARIABLES
  src,         \* Firebird's rows
  clock,       \* latest version Firebird wrote
  agent,       \* "down", "full" (pushing the dump), "watch"
  conn,        \* the connection the agent is using, or None
  mark,        \* watermark in memory
  saved,       \* watermark in the state file
  polled,      \* clock at the last poll; 0 = none (last_hdr_gen)
  thread,      \* thread[c]: where the handler of c is
  body,        \* body[c]: the rows the agent has sent
  whole,       \* whole[c]: the agent has sent all of it
  stuck,       \* connections whose agent is gone and that nobody told
  staging,     \* relation <table>__load
  target,      \* relation <table>
  durable,     \* what target is after a crash of PostgreSQL
  confirmed,   \* version of each row the agent was told is in the replica
  faults       \* failures so far

agentVars == <<agent, conn, mark, saved, polled>>
connVars  == <<thread, body, whole, stuck>>
pgVars    == <<staging, target, durable>>
vars == <<src, clock, agentVars, connVars, pgVars, confirmed, faults>>

Places == {"free", "drop", "create", "copyStart", "copy", "swap", "rename",
           "begin", "stage", "ok", "err"}

NoRows   == [k \in Keys |-> [ver |-> 0, live |-> FALSE]]
Nothing  == [k \in Keys |-> None]

TypeOK ==
  /\ src \in Rows
  /\ clock \in Nat \ {0}
  /\ agent \in {"down", "full", "watch"}
  /\ conn \in Conns \cup {None}
  /\ mark \in Nat
  /\ saved \in Nat
  /\ polled \in Nat
  /\ thread \in [Conns -> Places]
  /\ body \in [Conns -> Body]
  /\ whole \in [Conns -> BOOLEAN]
  /\ stuck \in SUBSET Conns
  /\ staging \in Rows \cup {None}
  /\ target \in Rows \cup {None}
  /\ durable \in Rows \cup {None}
  /\ confirmed \in [Keys -> Nat]
  /\ faults \in 0..MaxFaults

Init ==
  /\ src = [k \in Keys |-> [ver |-> 1, live |-> TRUE]]
  /\ clock = 1
  /\ agent = "down"
  /\ conn = None
  /\ mark = 0
  /\ saved = 0
  /\ polled = 0
  /\ thread = [c \in Conns |-> "free"]
  /\ body = [c \in Conns |-> Nothing]
  /\ whole = [c \in Conns |-> FALSE]
  /\ stuck = {}
  /\ staging = None
  /\ target = None
  /\ durable = None
  /\ confirmed = [k \in Keys |-> 0]
  /\ faults = 0

Fault(f) == f \in Env /\ faults < MaxFaults /\ faults' = faults + 1

-----------------------------------------------------------------------------
(***************************************************************************)
(* The agent.                                                              *)
(***************************************************************************)
Idle(c) == thread[c] = "free"

\* A new connection; unless Env has "overlap" the gateway is through with
\* every older one by then.
Connect(c, where, b) ==
  /\ conn = None
  /\ Idle(c)
  /\ "overlap" \in Env \/ \A d \in Conns : Idle(d)
  /\ conn' = c
  /\ thread' = [thread EXCEPT ![c] = where]
  /\ body' = [body EXCEPT ![c] = b]
  /\ whole' = [whole EXCEPT ![c] = FALSE]
  /\ UNCHANGED stuck

\* main, push_full: every start of the agent begins with a FULL push.
PushFull(c) ==
  /\ agent = "down"
  /\ Connect(c, "drop", Nothing)
  /\ agent' = "full"
  /\ UNCHANGED <<src, clock, mark, saved, polled, pgVars, confirmed, faults>>

\* write_copy_stream: the dump is read from the file while it is sent.
SendRow(k) ==
  /\ agent = "full"
  /\ conn # None
  /\ body[conn][k] = None
  /\ body' = [body EXCEPT ![conn][k] = src[k]]
  /\ UNCHANGED <<src, clock, agentVars, thread, whole, stuck, pgVars, confirmed, faults>>

\* The terminating chunk of a FULL body; both bodies of a DELTA.
SendRest ==
  /\ conn # None
  /\ ~whole[conn]
  /\ agent = "full" => \A k \in Keys : body[conn][k] # None
  /\ whole' = [whole EXCEPT ![conn] = TRUE]
  /\ UNCHANGED <<src, clock, agentVars, thread, body, stuck, pgVars, confirmed, faults>>

\* run_watch polls: nothing to send when no row is above the watermark.
Changed == {k \in Keys : src[k].ver > mark}

Poll ==
  /\ agent = "watch" /\ conn = None /\ saved = mark
  /\ polled # clock
  /\ polled' = clock
  /\ Changed = {}
  /\ UNCHANGED <<src, clock, agent, conn, mark, saved, connVars, pgVars, confirmed, faults>>

\* RemoteSink::apply_delta.
PushDelta(c) ==
  /\ agent = "watch" /\ conn = None /\ saved = mark
  /\ polled # clock
  /\ polled' = clock
  /\ Changed # {}
  /\ Connect(c, "begin", [k \in Keys |-> IF k \in Changed THEN src[k] ELSE None])
  /\ UNCHANGED <<src, clock, agent, mark, saved, pgVars, confirmed, faults>>

\* What the agent does when a request has failed: a failed FULL ends it, a
\* failed DELTA is logged.
RequestFails ==
  /\ conn' = None
  /\ IF agent = "full"
     THEN agent' = "down" /\ mark' = 0 /\ polled' = 0
     ELSE UNCHANGED <<agent, mark, polled>>

Confirmed(b) == [k \in Keys |-> IF b[k] = None THEN confirmed[k] ELSE b[k].ver]

\* Mutant: the watermark is what Firebird has reached, not what was sent.
NewestOfFirebird(b) == {clock}

\* The newest version of the rows of b and the watermark, as a set of one.
Newest(b) ==
  {m \in {mark} \cup {b[k].ver : k \in {i \in Keys : b[i] # None}} :
     /\ m >= mark
     /\ \A k \in Keys : b[k] # None => m >= b[k].ver}

Release(c) ==
  /\ thread' = [thread EXCEPT ![c] = "free"]
  /\ body' = [body EXCEPT ![c] = Nothing]
  /\ whole' = [whole EXCEPT ![c] = FALSE]
  /\ stuck' = stuck \ {c}

\* Mutant: the FULL counts for everything up to its end.
FullOkMovesMark(c) ==
  /\ conn = c
  /\ agent = "full"
  /\ thread[c] = "ok"
  /\ agent' = "watch"
  /\ mark' = clock
  /\ conn' = None
  /\ confirmed' = Confirmed(body[c])
  /\ Release(c)
  /\ UNCHANGED <<src, clock, saved, polled, pgVars, faults>>

\* read_response.  After the FULL the watch starts from the state file.
FullOk(c) ==
  /\ conn = c
  /\ agent = "full"
  /\ thread[c] = "ok"
  /\ agent' = "watch"
  /\ mark' = saved
  /\ conn' = None
  /\ confirmed' = Confirmed(body[c])
  /\ Release(c)
  /\ UNCHANGED <<src, clock, saved, polled, pgVars, faults>>

DeltaOk(c) ==
  /\ conn = c
  /\ agent = "watch"
  /\ thread[c] = "ok"
  /\ mark' \in Newest(body[c])
  /\ conn' = None
  /\ confirmed' = Confirmed(body[c])
  /\ Release(c)
  /\ UNCHANGED <<src, clock, agent, saved, polled, pgVars, faults>>

Rejected(c) ==
  /\ conn = c
  /\ thread[c] = "err"
  /\ RequestFails
  /\ Release(c)
  /\ UNCHANGED <<src, clock, saved, pgVars, confirmed, faults>>

\* The state file, before the next cycle.
Save ==
  /\ agent = "watch"
  /\ conn = None
  /\ saved # mark
  /\ saved' = mark
  /\ UNCHANGED <<src, clock, agent, conn, mark, polled, connVars, pgVars, confirmed, faults>>

-----------------------------------------------------------------------------
(***************************************************************************)
(* A thread of the gateway: handle_full.  Every statement but the swap is  *)
(* a transaction of its own.                                               *)
(***************************************************************************)
Goes(c, where) == thread' = [thread EXCEPT ![c] = where]

\* The handler returns an error; what its transaction did is rolled back.
Fails(c) == Goes(c, "err") /\ UNCHANGED pgVars

\* Nobody is at the other end of c any more, and the gateway knows.
Gone(c) == conn # c /\ c \notin stuck

HandlerRest == UNCHANGED <<src, clock, agentVars, body, whole, stuck, confirmed, faults>>

\* DROP TABLE IF EXISTS waits for a COPY into the relation.  Removing a file
\* makes the commit wait for the log, and for all that is before it.
DropStaging(c) ==
  /\ thread[c] = "drop"
  /\ \A d \in Conns : thread[d] # "copy"
  /\ staging' = None
  /\ durable' = IF staging = None THEN durable ELSE target
  /\ Goes(c, "create")
  /\ UNCHANGED target
  /\ HandlerRest

CreateStaging(c) ==
  /\ thread[c] = "create"
  /\ IF staging = None
     THEN staging' = NoRows /\ Goes(c, "copyStart") /\ UNCHANGED <<target, durable>>
     ELSE Fails(c)
  /\ HandlerRest

StartCopy(c) ==
  /\ thread[c] = "copyStart"
  /\ IF staging = None THEN Fails(c) ELSE Goes(c, "copy") /\ UNCHANGED pgVars
  /\ HandlerRest

\* Mutant: the end of the connection is taken for the terminator.
FinishCutCopy(c) ==
  /\ thread[c] = "copy"
  /\ whole[c] \/ Gone(c)
  /\ staging' = [k \in Keys |-> IF body[c][k] = None THEN staging[k] ELSE body[c][k]]
  /\ Goes(c, "swap")
  /\ UNCHANGED <<target, durable>>
  /\ HandlerRest

\* The rows are in the relation when the COPY is finished.  It fails on a key
\* that is there already.
Clash(b) == \E k \in Keys : b[k].live /\ staging[k].live

FinishCopy(c) ==
  /\ thread[c] = "copy"
  /\ whole[c]
  /\ IF Clash(body[c]) THEN Fails(c)
     ELSE /\ staging' = [k \in Keys |-> IF staging[k].live THEN staging[k] ELSE body[c][k]]
          /\ Goes(c, "swap")
          /\ UNCHANGED <<target, durable>>
  /\ HandlerRest

\* Mutant: at the end of the connection the relay reads again.
CopyReadsOn(c) ==
  /\ thread[c] = "copy"
  /\ ~whole[c] /\ Gone(c)
  /\ Goes(c, "copy")
  /\ UNCHANGED pgVars
  /\ HandlerRest

\* The connection ends before the terminator: the COPY is given up.
CopyCut(c) ==
  /\ thread[c] = "copy"
  /\ ~whole[c] /\ Gone(c)
  /\ Fails(c)
  /\ HandlerRest

\* Mutant: the old table is dropped in a transaction of its own.
SwapDropsFirst(c) ==
  /\ thread[c] = "swap"
  /\ \A d \in Conns : thread[d] \notin {"stage", "rename"}
  /\ Goes(c, "rename")
  /\ target' = None
  /\ UNCHANGED <<staging, durable>>
  /\ HandlerRest

\* BEGIN; DROP TABLE IF EXISTS target waits for the transactions that use it.
SwapLock(c) ==
  /\ thread[c] = "swap"
  /\ \A d \in Conns : thread[d] \notin {"stage", "rename"}
  /\ Goes(c, "rename")
  /\ UNCHANGED pgVars
  /\ HandlerRest

\* ALTER TABLE staging RENAME TO target; COMMIT.
SwapCommit(c) ==
  /\ thread[c] = "rename"
  /\ \A d \in Conns : thread[d] # "copy"
  /\ IF staging = None THEN Fails(c)
     ELSE /\ target' = staging
          /\ staging' = None
          /\ durable' = IF target = None THEN durable ELSE staging
          /\ Goes(c, "ok")
  /\ HandlerRest

-----------------------------------------------------------------------------
(***************************************************************************)
(* handle_delta, apply_delta_streaming: one transaction.                   *)
(***************************************************************************)
\* BEGIN; CREATE TEMP TABLE ... LIKE target.
DeltaBegin(c) ==
  /\ thread[c] = "begin"
  /\ \A d \in Conns : thread[d] # "rename"
  /\ IF target = None THEN Fails(c) ELSE Goes(c, "stage") /\ UNCHANGED pgVars
  /\ HandlerRest

\* DELETE, INSERT ON CONFLICT; COMMIT does not wait for the log.
Merged(b) == [k \in Keys |-> IF b[k] = None THEN target[k] ELSE b[k]]

\* Mutant: the delta takes the place of the table.
DeltaReplaces(c) ==
  /\ thread[c] = "stage"
  /\ whole[c]
  /\ target' = body[c]
  /\ Goes(c, "ok")
  /\ UNCHANGED <<staging, durable>>
  /\ HandlerRest

DeltaCommit(c) ==
  /\ thread[c] = "stage"
  /\ whole[c]
  /\ target' = Merged(body[c])
  /\ Goes(c, "ok")
  /\ UNCHANGED <<staging, durable>>
  /\ HandlerRest

\* A body is shorter than announced: ROLLBACK.
DeltaCut(c) ==
  /\ thread[c] = "stage"
  /\ ~whole[c] /\ Gone(c)
  /\ Fails(c)
  /\ HandlerRest

\* write_response to nobody; the thread ends.
Unread(c) ==
  /\ thread[c] \in {"ok", "err"}
  /\ conn # c
  /\ Release(c)
  /\ UNCHANGED <<src, clock, agentVars, pgVars, confirmed, faults>>

-----------------------------------------------------------------------------
(***************************************************************************)
(* Firebird, PostgreSQL's log and the failures.                            *)
(***************************************************************************)
Change(k) ==
  /\ clock < MaxVer
  /\ clock' = clock + 1
  /\ \E l \in BOOLEAN :
       /\ src[k].live \/ l          \* only a row that is there can be deleted
       /\ src' = [src EXCEPT ![k] = [ver |-> clock + 1, live |-> l]]
  /\ UNCHANGED <<agentVars, connVars, pgVars, confirmed, faults>>

Flush ==
  /\ durable' = target
  /\ UNCHANGED <<src, clock, agentVars, connVars, staging, target, confirmed, faults>>

Crash ==
  /\ agent # "down"
  /\ Fault("crash")
  /\ agent' = "down" /\ conn' = None /\ mark' = 0 /\ polled' = 0
  /\ stuck' = IF "silent" \in Env /\ conn # None THEN stuck \cup {conn} ELSE stuck
  /\ UNCHANGED <<src, clock, saved, thread, body, whole, pgVars, confirmed>>

Cut ==
  /\ conn # None
  /\ Fault("cut")
  /\ RequestFails
  /\ UNCHANGED <<src, clock, saved, connVars, pgVars, confirmed>>

\* The threads go; their sessions end and open transactions are rolled back.
GatewayRestart ==
  /\ Fault("restart")
  /\ IF conn = None THEN UNCHANGED <<agent, conn, mark, polled>> ELSE RequestFails
  /\ thread' = [c \in Conns |-> "free"]
  /\ body' = [c \in Conns |-> Nothing]
  /\ whole' = [c \in Conns |-> FALSE]
  /\ stuck' = {}
  /\ UNCHANGED <<src, clock, saved, pgVars, confirmed>>

\* Every session gets an error; the last commits may be gone.
PgCrash ==
  /\ Fault("pgCrash")
  /\ target' = durable
  /\ staging' \in {staging, None}
  /\ thread' = [c \in Conns |-> IF thread[c] \in {"free", "ok"} THEN thread[c] ELSE "err"]
  /\ UNCHANGED <<src, clock, agentVars, body, whole, stuck, durable, confirmed>>

-----------------------------------------------------------------------------
AgentStep ==
  \/ \E c \in Conns : PushFull(c) \/ PushDelta(c) \/ FullOk(c) \/ DeltaOk(c) \/ Rejected(c)
  \/ \E k \in Keys : SendRow(k)
  \/ SendRest \/ Poll \/ Save

HandlerStep(c) ==
  \/ DropStaging(c) \/ CreateStaging(c) \/ StartCopy(c) \/ FinishCopy(c) \/ CopyCut(c)
  \/ SwapLock(c) \/ SwapCommit(c)
  \/ DeltaBegin(c) \/ DeltaCommit(c) \/ DeltaCut(c)
  \/ Unread(c)

Failure == Crash \/ Cut \/ GatewayRestart \/ PgCrash

Next ==
  \/ AgentStep
  \/ \E c \in Conns : HandlerStep(c)
  \/ \E k \in Keys : Change(k)
  \/ Flush
  \/ Failure

Spec == Init /\ [][Next]_vars

\* The agent and the threads go on and a dead agent is started again;
\* Firebird and the failures owe nothing.
FairSpec == Spec /\ WF_vars(AgentStep) /\ \A c \in Conns : WF_vars(HandlerStep(c))

-----------------------------------------------------------------------------
(***************************************************************************)
(* Properties.                                                             *)
(***************************************************************************)
Versions(rows) == [k \in Keys |-> rows[k].ver]

Promise == INSTANCE Replica WITH
  source <- Versions(src),
  shown  <- IF target = None THEN None ELSE Versions(target)

\* Readers see whole tables whose rows never go back, and keep what was
\* confirmed to the agent: handle_full and apply_delta_streaming implement
\* the promise of push replication.
KeepsPromise == Promise!Spec

\* A row the agent was told is in the replica is there, in that version or a
\* later one.
ConfirmedIsShown ==
  \A k \in Keys : confirmed[k] > 0 => target # None /\ target[k].ver >= confirmed[k]

\* The watermark of the state file passes over no change the replica lacks.
SavedIsShown ==
  \A k \in Keys : src[k].ver <= saved => target # None /\ target[k].ver = src[k].ver

\* The table the readers see is never one that no dump was loaded into.
NeverSeenEmpty == target # None => \A k \in Keys : target[k].ver # 0

\* When the agent has nothing on its way and has polled since the last change,
\* the replica is the table: it may sleep until Firebird writes again.
SleepsWhenShown == agent = "watch" /\ conn = None /\ polled = clock => target = src

\* When Firebird has become quiet the replica comes to equal the table.
Converges == <>[](target = src)

\* Every thread of the gateway ends.
ThreadsEnd == \A c \in Conns : thread[c] # "free" ~> thread[c] = "free"

=============================================================================
