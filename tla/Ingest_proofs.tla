--------------------------- MODULE Ingest_proofs ----------------------------
(***************************************************************************)
(* Theorems about Ingest, for every set of rows and connections and every  *)
(* bound.                                                                  *)
(***************************************************************************)
EXTENDS Ingest, TLAPS

-----------------------------------------------------------------------------
(***************************************************************************)
(* Type correctness, whatever the surroundings do.                         *)
(***************************************************************************)
FullPlaces  == {"drop", "create", "copyStart", "copy", "swap", "rename"}
DeltaPlaces == {"begin", "stage"}

\* The handler at work on the agent's connection serves the request the
\* agent has made.
ServesRequest ==
  conn # None =>
    thread[conn] \in {"ok", "err"} \cup (IF agent = "full" THEN FullPlaces ELSE DeltaPlaces)

\* A FULL body that has been sent to its end has every row.
BodyComplete ==
  \A c \in Conns :
    whole[c] /\ (thread[c] \in FullPlaces \/ (conn = c /\ agent = "full"))
      => \A k \in Keys : body[c][k] # None

\* The locks keep a relation in place while a transaction works on it.
Locked ==
  \A c \in Conns : /\ thread[c] = "copy" => staging # None
                   /\ thread[c] = "stage" => target # None

Typed == TypeOK /\ ServesRequest /\ BodyComplete /\ Locked

LEMMA TypedInit == Init => Typed
BY IngestAssumption DEF Init, Typed, TypeOK, ServesRequest, BodyComplete, Locked,
   Rows, Body, Entry, Places, Nothing, FullPlaces

LEMMA NoRowsType == NoRows \in Rows
BY DEF NoRows, Rows, Entry

\* A complete body finds an empty staging relation, or fills its gaps.
LEMMA CopiedType ==
  ASSUME NEW s \in Rows, NEW b \in Body, \A k \in Keys : b[k] # None
  PROVE  [k \in Keys |-> IF s[k].live THEN s[k] ELSE b[k]] \in Rows
BY DEF Rows, Body

LEMMA TypedNext == ASSUME Typed, [Next]_vars PROVE Typed'
<1> USE IngestAssumption DEF Typed, TypeOK, ServesRequest, BodyComplete, Locked,
        Places, FullPlaces, DeltaPlaces, agentVars, connVars, pgVars
<1>1. ASSUME NEW c \in Conns, PushFull(c) PROVE Typed'
  BY <1>1 DEF PushFull, Connect, Idle, Nothing, Body
<1>2. ASSUME NEW c \in Conns, PushDelta(c) PROVE Typed'
  BY <1>2 DEF PushDelta, Connect, Idle, Changed, Body, Rows
<1>3. ASSUME NEW c \in Conns, FullOk(c) PROVE Typed'
  BY <1>3 DEF FullOk, Release, Confirmed, Nothing, Body, Entry
<1>4. ASSUME NEW c \in Conns, DeltaOk(c) PROVE Typed'
  BY <1>4 DEF DeltaOk, Release, Confirmed, Newest, Nothing, Body, Entry
<1>5. ASSUME NEW c \in Conns, Rejected(c) PROVE Typed'
  BY <1>5 DEF Rejected, Release, RequestFails, Nothing, Body
<1>6. ASSUME NEW k \in Keys, SendRow(k) PROVE Typed'
  BY <1>6 DEF SendRow, Body, Rows
<1>7. CASE SendRest
  BY <1>7 DEF SendRest
<1>8. CASE Poll \/ Save
  BY <1>8 DEF Poll, Save
<1>9. ASSUME NEW c \in Conns, DropStaging(c) PROVE Typed'
  BY <1>9 DEF DropStaging, Goes, HandlerRest
<1>10. ASSUME NEW c \in Conns, CreateStaging(c) PROVE Typed'
  BY <1>10, NoRowsType DEF CreateStaging, Fails, Goes, HandlerRest
<1>11. ASSUME NEW c \in Conns, StartCopy(c) PROVE Typed'
  BY <1>11 DEF StartCopy, Fails, Goes, HandlerRest
<1>12. ASSUME NEW c \in Conns, FinishCopy(c) PROVE Typed'
  <2>1. thread[c] = "copy" /\ staging \in Rows
    BY <1>12 DEF FinishCopy
  <2>2. CASE Clash(body[c])
    BY <1>12, <2>2 DEF FinishCopy, Fails, Goes, HandlerRest
  <2>3. CASE ~Clash(body[c])
    <3>1. staging' \in Rows
      BY <1>12, <2>1, <2>3, CopiedType DEF FinishCopy
    <3> QED
      BY <1>12, <2>3, <3>1 DEF FinishCopy, Goes, HandlerRest
  <2> QED
    BY <2>2, <2>3
<1>13. ASSUME NEW c \in Conns, CopyCut(c) \/ DeltaCut(c) PROVE Typed'
  BY <1>13 DEF CopyCut, DeltaCut, Fails, Goes, HandlerRest
<1>14. ASSUME NEW c \in Conns, SwapLock(c) PROVE Typed'
  BY <1>14 DEF SwapLock, Goes, HandlerRest
<1>15. ASSUME NEW c \in Conns, SwapCommit(c) PROVE Typed'
  BY <1>15 DEF SwapCommit, Fails, Goes, HandlerRest
<1>16. ASSUME NEW c \in Conns, DeltaBegin(c) PROVE Typed'
  BY <1>16 DEF DeltaBegin, Fails, Goes, HandlerRest
<1>17. ASSUME NEW c \in Conns, DeltaCommit(c) PROVE Typed'
  BY <1>17 DEF DeltaCommit, Merged, Goes, HandlerRest, Rows, Body
<1>18. ASSUME NEW c \in Conns, Unread(c) PROVE Typed'
  BY <1>18 DEF Unread, Release, Nothing, Body
<1>19. ASSUME NEW k \in Keys, Change(k) PROVE Typed'
  BY <1>19 DEF Change, Rows, Entry
<1>20. CASE Flush
  BY <1>20 DEF Flush
<1>21. CASE Crash
  BY <1>21 DEF Crash, Fault
<1>22. CASE Cut
  BY <1>22 DEF Cut, RequestFails, Fault
<1>23. CASE GatewayRestart
  BY <1>23 DEF GatewayRestart, RequestFails, Fault, Nothing, Body
<1>24. CASE PgCrash
  BY <1>24 DEF PgCrash, Fault
<1>25. CASE UNCHANGED vars
  BY <1>25 DEF vars
<1> QED
  BY <1>1, <1>2, <1>3, <1>4, <1>5, <1>6, <1>7, <1>8, <1>9, <1>10, <1>11, <1>12, <1>13,
     <1>14, <1>15, <1>16, <1>17, <1>18, <1>19, <1>20, <1>21, <1>22, <1>23, <1>24, <1>25
     DEF Next, AgentStep, HandlerStep, Failure

\* Whatever the surroundings do, overlapping requests and crashes of
\* PostgreSQL included, no handler works on a relation that is not there, and
\* the agent's and the gateway's state keeps its shape.
THEOREM IngestTypeCorrect == Spec => []TypeOK
<1>1. Typed => TypeOK
  BY DEF Typed
<1> QED
  BY <1>1, TypedInit, TypedNext, PTL DEF Spec

-----------------------------------------------------------------------------
(***************************************************************************)
(* The inductive invariant when a request starts only after the thread of  *)
(* the last one has ended, and PostgreSQL does not crash.                  *)
(***************************************************************************)

\* One thread is at work, and it serves the agent's connection if there is one.
OneThread ==
  /\ \A c, d \in Conns : ~Idle(c) /\ ~Idle(d) => c = d
  /\ conn # None => ~Idle(conn)
  /\ agent = "down" => conn = None
  /\ \A c \in Conns : Idle(c) => body[c] = Nothing

\* What is in the staging relation at each place of handle_full.
StagingKnown ==
  \A c \in Conns :
    /\ thread[c] = "create" => staging = None
    /\ thread[c] \in {"copyStart", "copy"} => staging = NoRows
    /\ thread[c] \in {"swap", "rename"} => whole[c] /\ staging = body[c]

\* A handler that reports success has put the whole body into the target.
OkIsShown ==
  \A c \in Conns : thread[c] = "ok" =>
    /\ whole[c]
    /\ target # None
    /\ \A k \in Keys : body[c][k] # None => target[k] = body[c][k]

\* No row of a body or of the target is newer than Firebird's, and no row of a
\* body is older than the target's.
Ordered ==
  \A k \in Keys :
    /\ src[k].ver \in 1..clock
    /\ target # None => target[k].ver \in 1..src[k].ver
    /\ \A c \in Conns : body[c][k] # None =>
         /\ body[c][k].ver \in 1..src[k].ver
         /\ target # None => target[k].ver <= body[c][k].ver

\* What a watermark has passed is shown, or will be by the delta on its way.
MarkIsShown ==
  \A k \in Keys : src[k].ver <= mark => target # None /\ target[k].ver = src[k].ver

MarksBounded == mark <= clock /\ saved <= clock /\ polled <= clock

DeltaFresh ==
  agent = "watch" /\ conn # None =>
    \A k \in Keys :
      /\ body[conn][k] # None => body[conn][k].ver <= polled
      /\ src[k].ver <= polled => src[k].ver <= mark \/ body[conn][k] = src[k]

IInv ==
  /\ OneThread
  /\ StagingKnown
  /\ OkIsShown
  /\ Ordered
  /\ MarkIsShown
  /\ MarksBounded
  /\ DeltaFresh
  /\ ConfirmedIsShown
  /\ SavedIsShown

LEMMA IInvInit == Init => IInv
BY DEF Init, IInv, OneThread, StagingKnown, OkIsShown, Ordered, MarkIsShown, MarksBounded,
   DeltaFresh, ConfirmedIsShown, SavedIsShown, Idle, Nothing

\* The target may only be replaced by rows that go forward, and not further
\* than the body of the thread at work.
Grows(c) ==
  \/ target' = target
  \/ /\ target' # None
     /\ \A k \in Keys :
          /\ target'[k].ver \in 1..src[k].ver
          /\ target # None => target[k].ver <= target'[k].ver
          /\ body[c][k] # None => target'[k].ver <= body[c][k].ver

\* A thread that goes from one place to another preserves what does not speak
\* of its place.
LEMMA HandlerMoves ==
  ASSUME Typed, IInv, NEW c \in Conns, NEW w \in Places,
         thread[c] # "free", w # "free", Goes(c, w), HandlerRest, Grows(c)
  PROVE  /\ OneThread'
         /\ Ordered'
         /\ MarkIsShown' /\ MarksBounded' /\ DeltaFresh'
         /\ ConfirmedIsShown' /\ SavedIsShown'
<1> USE DEF Typed, TypeOK, IInv, HandlerRest, agentVars
<1>1. OneThread'
  BY DEF OneThread, Goes, Idle
<1>2. \A d \in Conns, k \in Keys : body[d][k] # None => d = c
  BY DEF OneThread, Idle, Nothing
<1>3. \A k \in Keys :
        /\ src[k].ver \in Nat
        /\ target # None => target[k].ver \in Nat
        /\ confirmed[k] \in Nat
        /\ body[c][k] # None => body[c][k].ver \in Nat
  BY DEF Rows, Body, Entry
<1>4. Ordered'
  BY <1>2, <1>3 DEF Ordered, Grows
<1>5. MarkIsShown' /\ SavedIsShown'
  <2>1. ASSUME NEW k \in Keys, target # None, target[k].ver = src[k].ver
        PROVE  target' # None /\ target'[k].ver = src[k].ver
    <3>1. src[k].ver \in Nat
      BY <1>3
    <3>2. CASE target' = target
      BY <2>1, <3>2
    <3>3. CASE target' # target
      <4>1. target' # None /\ target'[k].ver \in 1..src[k].ver /\ target[k].ver <= target'[k].ver
        BY <2>1, <3>3 DEF Grows
      <4> QED
        BY <2>1, <3>1, <4>1
    <3> QED
      BY <3>2, <3>3
  <2>2. UNCHANGED <<src, mark, saved>>
    OBVIOUS
  <2> QED
    BY <2>1, <2>2 DEF MarkIsShown, SavedIsShown
<1>6. ConfirmedIsShown'
  BY <1>3, <1>4 DEF ConfirmedIsShown, Ordered, Grows
<1>7. MarksBounded' /\ DeltaFresh'
  BY DEF MarksBounded, DeltaFresh
<1> QED
  BY <1>1, <1>4, <1>5, <1>6, <1>7

LEMMA MergedType ==
  ASSUME target \in Rows, NEW b \in Body PROVE Merged(b) \in Rows
BY DEF Merged, Rows, Body

LEMMA HandlerGrows ==
  ASSUME Typed, IInv, NEW c \in Conns, HandlerStep(c)
  PROVE  Grows(c) /\ UNCHANGED <<src, confirmed>>
<1> USE DEF Typed, TypeOK, IInv, HandlerRest, pgVars
<1>1. CASE SwapCommit(c) /\ staging # None
  <2>1. target' = body[c] /\ staging = body[c]
    BY <1>1 DEF SwapCommit, StagingKnown
  <2>2. target' # None /\ \A k \in Keys : body[c][k] # None
    BY <1>1, <2>1 DEF SwapCommit, StagingKnown, BodyComplete, FullPlaces
  <2> QED
    BY <1>1, <2>1, <2>2 DEF SwapCommit, Grows, Ordered, Body, Entry
<1>2. CASE DeltaCommit(c)
  <2>1. target # None
    BY <1>2 DEF DeltaCommit, Locked
  <2>2. target' # None
    BY <1>2, <2>1, MergedType, IngestAssumption DEF DeltaCommit
  <2>3. \A k \in Keys : target'[k] = IF body[c][k] = None THEN target[k] ELSE body[c][k]
    BY <1>2 DEF DeltaCommit, Merged
  <2> QED
    BY <1>2, <2>1, <2>2, <2>3 DEF DeltaCommit, Grows, Ordered, Body, Rows, Entry
<1>3. CASE ~(SwapCommit(c) /\ staging # None) /\ ~DeltaCommit(c)
  BY <1>3 DEF HandlerStep, DropStaging, CreateStaging, StartCopy, FinishCopy, CopyCut, SwapLock,
     SwapCommit, DeltaBegin, DeltaCut, Unread, Fails, Grows
<1> QED
  BY <1>1, <1>2, <1>3

LEMMA HandlerInv ==
  ASSUME Typed, IInv, NEW c \in Conns, HandlerStep(c)
  PROVE  IInv'
<1> USE DEF Typed, TypeOK, IInv, HandlerRest, pgVars
<1> Grows(c)
  BY HandlerGrows
<1>1. CASE DropStaging(c)
  <2>1. StagingKnown' /\ OkIsShown'
    BY <1>1 DEF DropStaging, Goes, OneThread, StagingKnown, OkIsShown, Idle
  <2> QED
    BY <1>1, <2>1, HandlerMoves DEF DropStaging, Places
<1>2. CASE CreateStaging(c)
  <2>1. StagingKnown' /\ OkIsShown'
    BY <1>2 DEF CreateStaging, Fails, Goes, OneThread, StagingKnown, OkIsShown, Idle
  <2> QED
    BY <1>2, <2>1, HandlerMoves DEF CreateStaging, Fails, Places
<1>3. CASE StartCopy(c)
  <2>1. StagingKnown' /\ OkIsShown'
    BY <1>3 DEF StartCopy, Fails, Goes, OneThread, StagingKnown, OkIsShown, Idle
  <2> QED
    BY <1>3, <2>1, HandlerMoves DEF StartCopy, Fails, Places
<1>4. CASE FinishCopy(c)
  <2>1. staging = NoRows /\ whole[c]
    BY <1>4 DEF FinishCopy, StagingKnown
  <2>2. \A k \in Keys : ~staging[k].live
    BY <2>1 DEF NoRows
  <2>3. ~Clash(body[c])
    BY <2>2 DEF Clash
  <2>4. staging' = body[c] /\ Goes(c, "swap") /\ UNCHANGED target
    <3>1. [k \in Keys |-> IF staging[k].live THEN staging[k] ELSE body[c][k]] = body[c]
      BY <2>2 DEF Body
    <3> QED
      BY <1>4, <2>3, <3>1 DEF FinishCopy
  <2>5. StagingKnown' /\ OkIsShown'
    BY <1>4, <2>1, <2>4 DEF FinishCopy, Goes, OneThread, StagingKnown, OkIsShown, Idle
  <2> QED
    BY <1>4, <2>4, <2>5, HandlerMoves DEF FinishCopy, Places
<1>5. CASE CopyCut(c) \/ DeltaCut(c)
  <2>1. StagingKnown' /\ OkIsShown'
    BY <1>5 DEF CopyCut, DeltaCut, Fails, Goes, OneThread, StagingKnown, OkIsShown, Idle
  <2> QED
    BY <1>5, <2>1, HandlerMoves DEF CopyCut, DeltaCut, Fails, Places
<1>6. CASE SwapLock(c)
  <2>1. StagingKnown' /\ OkIsShown'
    BY <1>6 DEF SwapLock, Goes, OneThread, StagingKnown, OkIsShown, Idle
  <2> QED
    BY <1>6, <2>1, HandlerMoves DEF SwapLock, Places
<1>7. CASE SwapCommit(c)
  <2>1. CASE staging = None
    <3>1. StagingKnown' /\ OkIsShown'
      BY <1>7, <2>1 DEF SwapCommit, Fails, Goes, OneThread, StagingKnown, OkIsShown, Idle
    <3> QED
      BY <1>7, <2>1, <3>1, HandlerMoves DEF SwapCommit, Fails, Places
  <2>2. CASE staging # None
    <3>1. whole[c] /\ staging = body[c] /\ target' = body[c] /\ Goes(c, "ok")
      BY <1>7, <2>2 DEF SwapCommit, StagingKnown
    <3>2. target' # None /\ \A k \in Keys : body[c][k] # None
      BY <1>7, <2>2, <3>1 DEF SwapCommit, BodyComplete, FullPlaces
    <3>3. StagingKnown' /\ OkIsShown'
      BY <1>7, <3>1, <3>2 DEF SwapCommit, Goes, OneThread, StagingKnown, OkIsShown, Idle
    <3> QED
      BY <1>7, <2>2, <3>1, <3>3, HandlerMoves DEF SwapCommit, Places
  <2> QED
    BY <2>1, <2>2
<1>8. CASE DeltaBegin(c)
  <2>1. StagingKnown' /\ OkIsShown'
    BY <1>8 DEF DeltaBegin, Fails, Goes, OneThread, StagingKnown, OkIsShown, Idle
  <2> QED
    BY <1>8, <2>1, HandlerMoves DEF DeltaBegin, Fails, Places
<1>9. CASE DeltaCommit(c)
  <2>1. target # None /\ whole[c] /\ thread[c] = "stage" /\ Goes(c, "ok")
    BY <1>9 DEF DeltaCommit, Locked
  <2>2. target' # None
    BY <1>9, <2>1, MergedType, IngestAssumption DEF DeltaCommit
  <2>3. \A k \in Keys : target'[k] = IF body[c][k] = None THEN target[k] ELSE body[c][k]
    BY <1>9 DEF DeltaCommit, Merged
  <2>4. StagingKnown' /\ OkIsShown'
    BY <1>9, <2>1, <2>2, <2>3 DEF DeltaCommit, Goes, OneThread, StagingKnown, OkIsShown, Idle
  <2> QED
    BY <1>9, <2>1, <2>4, HandlerMoves DEF DeltaCommit, Places
<1>10. CASE Unread(c)
  BY <1>10 DEF Unread, Release, Nothing, OneThread, StagingKnown, OkIsShown, Ordered,
     MarkIsShown, MarksBounded, DeltaFresh, ConfirmedIsShown, SavedIsShown, Idle, Body, agentVars
<1> QED
  BY <1>1, <1>2, <1>3, <1>4, <1>5, <1>6, <1>7, <1>8, <1>9, <1>10 DEF HandlerStep

\* What the answer to a delta tells the agent: every change that the new
\* watermark passes is shown.
LEMMA DeltaOkMark ==
  ASSUME Typed, IInv, NEW c \in Conns, DeltaOk(c)
  PROVE  MarkIsShown' /\ mark' <= clock
<1> USE DEF Typed, TypeOK, IInv
<1>1. /\ conn = c /\ agent = "watch" /\ thread[c] = "ok"
      /\ UNCHANGED <<src, clock, target>>
      /\ mark' \in Newest(body[c])
  BY DEF DeltaOk, pgVars
<1>2. \A k \in Keys : src[k].ver \in Nat /\ src[k] # None
  BY IngestAssumption DEF Rows, Entry
<1>3. CASE mark' = mark
  BY <1>1, <1>3 DEF MarkIsShown, MarksBounded
<1>4. CASE mark' # mark
  <2>1. PICK i \in Keys : body[c][i] # None /\ mark' = body[c][i].ver
    BY <1>1, <1>4 DEF Newest
  <2>2. mark' \in Nat /\ mark' <= polled
    BY <1>1, <2>1, IngestAssumption DEF DeltaFresh, Body, Entry
  <2>3. ASSUME NEW k \in Keys, src[k].ver <= mark'
        PROVE  target # None /\ target[k].ver = src[k].ver
    <3>1. CASE src[k].ver <= mark
      BY <3>1 DEF MarkIsShown
    <3>2. CASE ~(src[k].ver <= mark)
      <4>1. src[k].ver <= polled
        BY <1>2, <2>2, <2>3
      <4>2. body[c][k] = src[k]
        BY <1>1, <3>2, <4>1, IngestAssumption DEF DeltaFresh
      <4> QED
        BY <1>1, <1>2, <4>2 DEF OkIsShown
    <3> QED
      BY <3>1, <3>2
  <2> QED
    BY <1>1, <2>2, <2>3 DEF MarkIsShown, MarksBounded
<1> QED
  BY <1>3, <1>4

LEMMA AgentInv ==
  ASSUME Typed, IInv, "overlap" \notin Env, AgentStep
  PROVE  IInv'
<1> USE DEF IInv, OneThread, StagingKnown, OkIsShown, Ordered, MarkIsShown, MarksBounded,
        DeltaFresh, ConfirmedIsShown, SavedIsShown, Typed, TypeOK, ServesRequest,
        BodyComplete, FullPlaces, DeltaPlaces, Idle, Rows, Body, Entry, agentVars, connVars, pgVars
<1>1. ASSUME NEW c \in Conns, PushFull(c) PROVE IInv'
  BY <1>1, IngestAssumption DEF PushFull, Connect, Nothing
<1>2. ASSUME NEW c \in Conns, PushDelta(c) PROVE IInv'
  BY <1>2, IngestAssumption DEF PushDelta, Connect, Changed
<1>3. ASSUME NEW c \in Conns, FullOk(c) PROVE IInv'
  BY <1>3, IngestAssumption DEF FullOk, Release, Confirmed, Nothing
<1>4. ASSUME NEW c \in Conns, DeltaOk(c) PROVE IInv'
  <2>1. OneThread' /\ StagingKnown' /\ OkIsShown'
    BY <1>4 DEF DeltaOk, Release, Nothing
  <2>2. Ordered' /\ DeltaFresh' /\ SavedIsShown'
    BY <1>4 DEF DeltaOk, Release, Nothing
  <2>3. MarkIsShown' /\ MarksBounded'
    BY <1>4, DeltaOkMark DEF DeltaOk
  <2>4. ConfirmedIsShown'
    BY <1>4 DEF DeltaOk, Confirmed
  <2> QED
    BY <2>1, <2>2, <2>3, <2>4
<1>5. ASSUME NEW c \in Conns, Rejected(c) PROVE IInv'
  BY <1>5, IngestAssumption DEF Rejected, Release, RequestFails, Nothing
<1>6. ASSUME NEW k \in Keys, SendRow(k) PROVE IInv'
  BY <1>6, IngestAssumption DEF SendRow, Nothing
<1>7. CASE SendRest
  BY <1>7 DEF SendRest
<1>8. CASE Poll \/ Save
  BY <1>8 DEF Poll, Save
<1> QED
  BY <1>1, <1>2, <1>3, <1>4, <1>5, <1>6, <1>7, <1>8 DEF AgentStep

LEMMA IInvNext ==
  ASSUME Typed, IInv, [Next]_vars, "overlap" \notin Env, "pgCrash" \notin Env
  PROVE  IInv'
<1> USE DEF IInv, OneThread, StagingKnown, OkIsShown, Ordered, MarkIsShown, MarksBounded,
        DeltaFresh, ConfirmedIsShown, SavedIsShown, Typed, TypeOK, Idle, Rows, Body, Entry,
        agentVars, connVars, pgVars
<1>1. CASE AgentStep
  BY <1>1, AgentInv
<1>2. ASSUME NEW c \in Conns, HandlerStep(c) PROVE IInv'
  BY <1>2, HandlerInv
<1>3. ASSUME NEW k \in Keys, Change(k) PROVE IInv'
  BY <1>3, IngestAssumption DEF Change
<1>4. CASE Flush
  BY <1>4 DEF Flush
<1>5. CASE Crash
  BY <1>5, IngestAssumption DEF Crash, Fault
<1>6. CASE Cut
  BY <1>6, IngestAssumption DEF Cut, RequestFails, Fault
<1>7. CASE GatewayRestart
  BY <1>7, IngestAssumption DEF GatewayRestart, RequestFails, Fault, Nothing
<1>8. CASE PgCrash
  BY <1>8 DEF PgCrash, Fault
<1>9. CASE UNCHANGED vars
  BY <1>9 DEF vars
<1> QED
  BY <1>1, <1>2, <1>3, <1>4, <1>5, <1>6, <1>7, <1>8, <1>9 DEF Next, Failure

LEMMA Invariance ==
  ASSUME "overlap" \notin Env, "pgCrash" \notin Env
  PROVE  Spec => [](Typed /\ IInv)
<1>1. Typed /\ IInv /\ [Next]_vars => Typed' /\ IInv'
  BY TypedNext, IInvNext
<1> QED
  BY <1>1, TypedInit, IInvInit, PTL DEF Spec

\* When a request starts only after the thread of the last one has ended and
\* PostgreSQL does not crash: whatever else fails, a row the agent was told is
\* in the replica stays there, in that version or a later one.
THEOREM ConfirmedStays ==
  ASSUME "overlap" \notin Env, "pgCrash" \notin Env
  PROVE  Spec => []ConfirmedIsShown
<1>1. Spec => [](Typed /\ IInv)
  BY Invariance
<1>2. IInv => ConfirmedIsShown
  BY DEF IInv
<1> QED
  BY <1>1, <1>2, PTL

\* Under the same conditions the watermark in the state file never passes
\* over a change that the replica lacks.
THEOREM SavedStays ==
  ASSUME "overlap" \notin Env, "pgCrash" \notin Env
  PROVE  Spec => []SavedIsShown
<1>1. Spec => [](Typed /\ IInv)
  BY Invariance
<1>2. IInv => SavedIsShown
  BY DEF IInv
<1> QED
  BY <1>1, <1>2, PTL

\* Under the same conditions readers never see a table that no dump was loaded
\* into: the swap of handle_full only ever shows a relation that has been filled.
THEOREM NeverEmpty ==
  ASSUME "overlap" \notin Env, "pgCrash" \notin Env
  PROVE  Spec => []NeverSeenEmpty
<1>1. Spec => [](Typed /\ IInv)
  BY Invariance
<1>2. Typed /\ IInv => NeverSeenEmpty
  <2> SUFFICES ASSUME Typed, IInv, target # None, NEW k \in Keys
               PROVE  target[k].ver # 0
    BY DEF NeverSeenEmpty
  <2>1. src[k].ver \in Nat /\ target[k].ver \in 1..src[k].ver
    BY DEF Typed, TypeOK, IInv, Ordered, Rows, Entry
  <2> QED
    BY <2>1
<1> QED
  BY <1>1, <1>2, PTL

-----------------------------------------------------------------------------
(***************************************************************************)
(* Ingest implements Replica.                                              *)
(***************************************************************************)

LEMMA PromiseInit == Init => Promise!Init
BY DEF Init, Promise!Init, Promise!Versions, Versions

LEMMA PromiseStep ==
  ASSUME Typed, IInv, [Next]_vars, "overlap" \notin Env, "pgCrash" \notin Env
  PROVE  [Promise!Next]_(Promise!vars)
<1> USE DEF Typed, TypeOK, IInv
<1>1. ASSUME NEW c \in Conns, HandlerStep(c) PROVE [Promise!Next]_(Promise!vars)
  <2>1. Grows(c) /\ UNCHANGED <<src, confirmed>>
    BY <1>1, HandlerGrows
  <2>2. CASE target' = target
    BY <2>1, <2>2 DEF Promise!vars, Versions
  <2>3. CASE target' # target
    <3>1. Promise!Publish
      BY <2>1, <2>3 DEF Grows, Promise!Publish, Promise!Versions, Versions
    <3> QED
      BY <3>1 DEF Promise!Next
  <2> QED
    BY <2>2, <2>3
<1>2. ASSUME NEW c \in Conns, FullOk(c) \/ DeltaOk(c) PROVE [Promise!Next]_(Promise!vars)
  <2>1. thread[c] = "ok" /\ UNCHANGED <<src, target>> /\ confirmed' = Confirmed(body[c])
    BY <1>2 DEF FullOk, DeltaOk, pgVars
  <2>2. target # None /\ \A k \in Keys : body[c][k] # None => target[k] = body[c][k]
    BY <2>1 DEF OkIsShown
  <2>3. \A k \in Keys : confirmed'[k] \in confirmed[k]..target[k].ver
    BY <2>1, <2>2 DEF Confirmed, ConfirmedIsShown, Ordered, Rows, Body, Entry
  <2>4. Versions(target) \in [Keys -> Nat] /\ Versions(target) # None
    BY <2>2, IngestAssumption DEF Versions, Rows, Entry
  <2>5. confirmed' \in [Keys -> Nat]
    BY <2>1 DEF Confirmed, Body, Entry
  <2>6. Promise!Confirm
    BY <2>1, <2>2, <2>3, <2>4, <2>5 DEF Promise!Confirm, Promise!Versions, Versions
  <2> QED
    BY <2>6 DEF Promise!Next
<1>3. ASSUME NEW k \in Keys, Change(k) PROVE [Promise!Next]_(Promise!vars)
  <2>1. /\ UNCHANGED <<target, confirmed>>
        /\ \A i \in Keys : src'[i].ver \in Nat /\ src'[i].ver >= src[i].ver
    BY <1>3 DEF Change, Ordered, Rows, Entry, pgVars
  <2>2. Promise!Change
    BY <2>1 DEF Promise!Change, Promise!Versions, Versions
  <2> QED
    BY <2>2 DEF Promise!Next
<1>4. ASSUME UNCHANGED <<src, target, confirmed>> PROVE [Promise!Next]_(Promise!vars)
  BY <1>4 DEF Promise!vars, Versions
<1> QED
  BY <1>1, <1>2, <1>3, <1>4 DEF Next, AgentStep, Failure, vars, pgVars, PushFull, PushDelta,
     Rejected, SendRow, SendRest, Poll, Save, Flush, Crash, Cut, GatewayRestart, PgCrash, Fault

\* Under the same conditions the agent and the gateway keep the promise of
\* push replication: readers see whole tables whose rows never go back, and
\* keep what was confirmed, however the requests, the connections and the
\* processes fail.
THEOREM PromiseKept ==
  ASSUME "overlap" \notin Env, "pgCrash" \notin Env
  PROVE  Spec => KeepsPromise
<1>1. Spec => [](Typed /\ IInv)
  BY Invariance
<1>2. Typed /\ IInv /\ [Next]_vars => [Promise!Next]_(Promise!vars)
  BY PromiseStep
<1> QED
  BY <1>1, <1>2, PromiseInit, PTL DEF Spec, KeepsPromise, Promise!Spec

-----------------------------------------------------------------------------
(***************************************************************************)
(* What the agent has done with when it sleeps.  Where no request is cut   *)
(* off and the gateway is not restarted, no delta is refused: what a poll  *)
(* has seen is in the replica or in the delta on its way.                  *)
(***************************************************************************)
Undisturbed == Env \cap {"overlap", "pgCrash", "cut", "restart"} = {}

\* A version is of one row.
RowOfVersion ==
  \A k \in Keys :
    /\ target # None /\ target[k].ver = src[k].ver => target[k] = src[k]
    /\ \A c \in Conns : body[c][k] # None /\ body[c][k].ver = src[k].ver => body[c][k] = src[k]

PolledIsShown ==
  agent = "watch" /\ conn = None =>
    \A k \in Keys : src[k].ver <= polled => target # None /\ target[k].ver = src[k].ver

NoDeltaRefused ==
  /\ agent # "watch" => polled = 0
  /\ agent = "watch" => target # None
  /\ agent = "watch" /\ conn # None => thread[conn] # "err"

WatchInv == RowOfVersion /\ PolledIsShown /\ NoDeltaRefused

LEMMA WatchInit == Init => WatchInv
BY DEF Init, WatchInv, RowOfVersion, PolledIsShown, NoDeltaRefused, Nothing

LEMMA SourceVersions ==
  ASSUME Typed, IInv, NEW k \in Keys
  PROVE  src[k].ver \in Nat /\ 1 <= src[k].ver /\ src[k].ver <= clock
<1>1. src[k].ver \in 1..clock
  BY DEF IInv, Ordered
<1>2. clock \in Nat
  BY DEF Typed, TypeOK
<1> QED
  BY <1>1, <1>2

\* The target of a handler's step has the rows of the old one or of the body.
TakesRows(c) ==
  \/ target' = target
  \/ /\ target' # None
     /\ \A k \in Keys : \/ body[c][k] # None /\ target'[k] = body[c][k]
                        \/ target # None /\ target'[k] = target[k]

LEMMA HandlerRows == ASSUME Typed, IInv, NEW c \in Conns, HandlerStep(c) PROVE TakesRows(c)
<1> USE DEF Typed, TypeOK, IInv, pgVars, TakesRows
<1>1. CASE SwapCommit(c) /\ staging # None
  <2>1. target' = body[c] /\ staging = body[c]
    BY <1>1 DEF SwapCommit, StagingKnown
  <2>2. target' # None /\ \A k \in Keys : body[c][k] # None
    BY <1>1, <2>1 DEF SwapCommit, StagingKnown, BodyComplete, FullPlaces
  <2> QED
    BY <2>1, <2>2
<1>2. CASE DeltaCommit(c)
  <2>1. target # None
    BY <1>2 DEF DeltaCommit, Locked
  <2>2. target' # None
    BY <1>2, <2>1, MergedType, IngestAssumption DEF DeltaCommit
  <2>3. \A k \in Keys : target'[k] = IF body[c][k] = None THEN target[k] ELSE body[c][k]
    BY <1>2 DEF DeltaCommit, Merged
  <2> QED
    BY <2>1, <2>2, <2>3
<1>3. CASE ~(SwapCommit(c) /\ staging # None) /\ ~DeltaCommit(c)
  BY <1>3 DEF HandlerStep, DropStaging, CreateStaging, StartCopy, FinishCopy, CopyCut, SwapLock,
     SwapCommit, DeltaBegin, DeltaCut, Unread, Fails
<1> QED
  BY <1>1, <1>2, <1>3

\* A thread at work for the agent's delta does not fail.
LEMMA DeltaGoesOn ==
  ASSUME Typed, IInv, NoDeltaRefused, NEW c \in Conns, HandlerStep(c), agent = "watch", conn # None
  PROVE  thread'[conn] # "err"
<1> USE DEF Typed, TypeOK
<1>1. thread[conn] \in DeltaPlaces \cup {"ok"} /\ target # None
  BY DEF ServesRequest, NoDeltaRefused
<1>2. CASE c # conn
  BY <1>1, <1>2 DEF HandlerStep, DropStaging, CreateStaging, StartCopy, FinishCopy, CopyCut, SwapLock,
     SwapCommit, DeltaBegin, DeltaCommit, DeltaCut, Unread, Fails, Goes, Release, DeltaPlaces
<1>3. CASE c = conn
  <2>1. DeltaBegin(c) \/ DeltaCommit(c)
    BY <1>1, <1>3 DEF HandlerStep, DropStaging, CreateStaging, StartCopy, FinishCopy, CopyCut, SwapLock,
       SwapCommit, DeltaCut, Gone, Unread, DeltaPlaces
  <2> QED
    BY <1>1, <1>3, <2>1 DEF DeltaBegin, DeltaCommit, Goes
<1> QED
  BY <1>2, <1>3

LEMMA WatchHandler ==
  ASSUME Typed, IInv, WatchInv, NEW c \in Conns, HandlerStep(c)
  PROVE  WatchInv'
<1> USE DEF Typed, TypeOK, WatchInv
<1>1. /\ UNCHANGED <<src, clock, agent, conn, polled>>
      /\ \A d \in Conns : body'[d] = body[d] \/ body'[d] = Nothing
  BY DEF HandlerStep, HandlerRest, DropStaging, CreateStaging, StartCopy, FinishCopy, CopyCut, SwapLock,
     SwapCommit, DeltaBegin, DeltaCommit, DeltaCut, Unread, Release, agentVars
<1>2. TakesRows(c) /\ Grows(c)
  BY HandlerRows, HandlerGrows
<1>3. RowOfVersion'
  BY <1>1, <1>2 DEF RowOfVersion, TakesRows, Nothing
<1>4. PolledIsShown'
  <2>1. ASSUME NEW k \in Keys, target # None, target[k].ver = src[k].ver
        PROVE  target' # None /\ target'[k].ver = src[k].ver
    <3>1. src[k].ver \in Nat
      BY SourceVersions
    <3>2. CASE target' = target
      BY <2>1, <3>2
    <3>3. CASE target' # target
      <4>1. target' # None /\ target'[k].ver \in 1..src[k].ver /\ target[k].ver <= target'[k].ver
        BY <2>1, <3>3, <1>2 DEF Grows
      <4> QED
        BY <2>1, <3>1, <4>1
    <3> QED
      BY <3>2, <3>3
  <2> QED
    BY <1>1, <2>1 DEF PolledIsShown
<1>5. NoDeltaRefused'
  BY <1>1, <1>2, DeltaGoesOn DEF NoDeltaRefused, TakesRows
<1> QED
  BY <1>3, <1>4, <1>5

\* What the answer to a delta tells of the poll that sent it.
LEMMA DeltaOkPolled ==
  ASSUME Typed, IInv, NEW c \in Conns, DeltaOk(c), NEW k \in Keys, src[k].ver <= polled
  PROVE  target # None /\ target[k].ver = src[k].ver
<1> USE DEF Typed, TypeOK, IInv
<1>1. conn = c /\ conn # None /\ agent = "watch" /\ thread[c] = "ok"
  BY IngestAssumption DEF DeltaOk
<1>2. src[k].ver <= mark \/ body[c][k] = src[k]
  BY <1>1 DEF DeltaFresh
<1>3. src[k] # None
  BY IngestAssumption DEF Rows
<1> QED
  BY <1>1, <1>2, <1>3 DEF MarkIsShown, OkIsShown

LEMMA WatchAgent ==
  ASSUME Typed, IInv, WatchInv, AgentStep
  PROVE  WatchInv'
<1> USE IngestAssumption DEF Typed, TypeOK, WatchInv, RowOfVersion, PolledIsShown, NoDeltaRefused, agentVars, connVars, pgVars
<1>0. \A k \in Keys : src[k].ver \in Nat /\ src[k].ver >= 1
  BY SourceVersions
<1>1. ASSUME NEW c \in Conns, PushFull(c) PROVE WatchInv'
  BY <1>1 DEF PushFull, Connect, Nothing
<1>2. ASSUME NEW c \in Conns, PushDelta(c) PROVE WatchInv'
  BY <1>2 DEF PushDelta, Connect
<1>3. ASSUME NEW c \in Conns, FullOk(c) PROVE WatchInv'
  <2>1. target # None /\ polled = 0
    BY <1>3 DEF FullOk, IInv, OkIsShown
  <2> QED
    BY <1>0, <1>3, <2>1 DEF FullOk, Release, Nothing
<1>4. ASSUME NEW c \in Conns, DeltaOk(c) PROVE WatchInv'
  BY <1>4, DeltaOkPolled DEF DeltaOk, Release, Nothing
<1>5. ASSUME NEW c \in Conns, Rejected(c) PROVE WatchInv'
  <2>1. agent # "watch"
    BY <1>5 DEF Rejected
  <2> QED
    BY <1>5, <2>1 DEF Rejected, Release, RequestFails, Nothing
<1>6. ASSUME NEW k \in Keys, SendRow(k) PROVE WatchInv'
  BY <1>6 DEF SendRow, Body
<1>7. CASE SendRest
  BY <1>7 DEF SendRest
<1>8. CASE Poll
  <2>1. \A k \in Keys : target # None /\ target[k].ver = src[k].ver
    BY <1>0, <1>8 DEF Poll, Changed, IInv, MarkIsShown
  <2> QED
    BY <1>8, <2>1 DEF Poll
<1>9. CASE Save
  BY <1>9 DEF Save
<1> QED
  BY <1>1, <1>2, <1>3, <1>4, <1>5, <1>6, <1>7, <1>8, <1>9 DEF AgentStep

LEMMA WatchNext ==
  ASSUME Undisturbed, Typed, IInv, WatchInv, [Next]_vars
  PROVE  WatchInv'
<1> USE IngestAssumption DEF Typed, TypeOK, WatchInv, RowOfVersion, PolledIsShown, NoDeltaRefused, agentVars, connVars, pgVars
<1>1. CASE AgentStep
  BY <1>1, WatchAgent
<1>2. ASSUME NEW c \in Conns, HandlerStep(c) PROVE WatchInv'
  BY <1>2, WatchHandler
<1>3. ASSUME NEW k \in Keys, Change(k) PROVE WatchInv'
  <2>1. /\ clock \in Nat /\ polled \in Nat /\ polled <= clock
        /\ \A i \in Keys : src'[i] = src[i] \/ src'[i].ver = clock + 1
        /\ UNCHANGED <<agentVars, connVars, pgVars>>
    BY <1>3 DEF Change, IInv, MarksBounded, Rows
  <2>2. \A i \in Keys : /\ target # None => target[i].ver # clock + 1
                        /\ \A c \in Conns : body[c][i] # None => body[c][i].ver # clock + 1
    BY <2>1 DEF IInv, Ordered, Rows, Entry
  <2>3. RowOfVersion'
    BY <2>1, <2>2
  <2>4. PolledIsShown'
    BY <2>1
  <2>5. NoDeltaRefused'
    BY <2>1
  <2> QED
    BY <2>3, <2>4, <2>5
<1>4. CASE Flush
  BY <1>4 DEF Flush
<1>5. CASE Crash
  BY <1>5 DEF Crash, Fault
<1>6. CASE Cut \/ GatewayRestart \/ PgCrash
  BY <1>6 DEF Cut, GatewayRestart, PgCrash, Fault, Undisturbed
<1>7. CASE UNCHANGED vars
  BY <1>7 DEF vars
<1> QED
  BY <1>1, <1>2, <1>3, <1>4, <1>5, <1>6, <1>7 DEF Next, Failure

\* run_watch polls the header page and sends a delta only when it has moved.
\* Where the agent may crash but no request fails otherwise, it goes to sleep
\* only when the replica is the table: there is nothing left that a later
\* write to Firebird would have to wake it for.
THEOREM SleepsShown == Undisturbed => (Spec => []SleepsWhenShown)
<1> SUFFICES ASSUME Undisturbed PROVE Spec => []SleepsWhenShown
  OBVIOUS
<1>1. Spec => [](Typed /\ IInv)
  BY Invariance DEF Undisturbed
<1>2. Typed /\ IInv /\ WatchInv /\ [Next]_vars => WatchInv'
  BY WatchNext
<1>3. Typed /\ IInv /\ WatchInv => SleepsWhenShown
  <2> SUFFICES ASSUME Typed, IInv, WatchInv, agent = "watch", conn = None, polled = clock
               PROVE  target = src
    BY DEF SleepsWhenShown
  <2>1. \A k \in Keys : src[k].ver <= polled
    BY SourceVersions
  <2>2. target # None /\ \A k \in Keys : target[k] = src[k]
    BY <2>1 DEF WatchInv, PolledIsShown, NoDeltaRefused, RowOfVersion
  <2>3. target \in Rows /\ src \in Rows
    BY <2>2 DEF Typed, TypeOK
  <2> QED
    BY <2>2, <2>3 DEF Rows
<1> QED
  BY <1>1, <1>2, <1>3, WatchInit, PTL DEF Spec

=============================================================================
