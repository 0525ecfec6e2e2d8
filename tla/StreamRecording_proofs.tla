----------------------- MODULE StreamRecording_proofs -----------------------
(***************************************************************************)
(* Proofs about StreamRecording, for any number of streams, any channel    *)
(* capacity and any bound on items and crashes.                            *)
(*                                                                         *)
(* Inv, the invariant of StreamRecording, is inductive.  An action of one  *)
(* stream leaves every other stream alone (Untouched, lemma Frame), so for *)
(* each action it is enough to look at the stream that moves: one lemma    *)
(* per action, one step per part of its invariant.  The safety properties  *)
(* follow from Inv, the action property from Inv and Next.                 *)
(***************************************************************************)
EXTENDS StreamRecording, TLAPS

-----------------------------------------------------------------------------
(* Types of what the actions assign.                                         *)

\* One entry of a Boolean function changes.
LEMMA PutBool ==
    ASSUME NEW f \in [Stream -> BOOLEAN], NEW s \in Stream, NEW b \in BOOLEAN
    PROVE  [f EXCEPT ![s] = b] \in [Stream -> BOOLEAN]
BY Zenon

\* An operation's success or failure keeps the type of fault.
LEMMA FaultType ==
    ASSUME NEW s \in Stream, TypeOK, Succeeds \/ Fails(s)
    PROVE  fault' \in [Stream -> BOOLEAN]
<1>1. CASE Succeeds
  BY <1>1, Zenon DEF TypeOK, Succeeds
<1>2. CASE Fails(s)
  BY <1>2, PutBool, Zenon DEF TypeOK, Fails, Put
<1> QED BY <1>1, <1>2

\* Keeping or dropping the writer keeps the types of writer and lock.
LEMMA WriterType ==
    ASSUME NEW s \in Stream, TypeOK, Hold \/ Release(s)
    PROVE  /\ writer' \in [Stream -> BOOLEAN]
           /\ lock' \in Stream \cup {NoStream}
<1>1. CASE Hold
  BY <1>1, Zenon DEF TypeOK, Hold
<1>2. CASE Release(s)
  <2>1. writer' \in [Stream -> BOOLEAN]
    BY <1>2, PutBool, Zenon DEF TypeOK, Release, Put
  <2>2. lock' \in Stream \cup {NoStream}
    BY <1>2 DEF TypeOK, Release
  <2> QED BY <2>1, <2>2
<1> QED BY <1>1, <1>2

\* The four locals the invariant speaks of.
Agree(m, l) == /\ m.item = l.item /\ m.inserted = l.inserted
               /\ m.failed = l.failed /\ m.settle = l.settle

\* The locals of a stream that has not begun or is over.
LEMMA BlankFacts ==
    /\ Blank \in Locals
    /\ Blank.item = "none" /\ ~Blank.inserted /\ ~Blank.failed
    /\ Blank.settle = "none"
BY StreamAssumption DEF Blank, Locals

\* The locals after start: inserted, or not inserted and therefore failed.
LEMMA StartFacts ==
    ASSUME NEW l \in Locals
    PROVE  /\ Started(l) \in Locals
           /\ Started(l).item = l.item
           /\ Started(l).inserted
           /\ Started(l).failed <=> l.item = "error"
           /\ Started(l).settle = l.settle
           /\ NotStarted(l) \in Locals
           /\ NotStarted(l).failed
           /\ NotStarted(l).item = l.item
           /\ NotStarted(l).inserted = l.inserted
           /\ NotStarted(l).settle = l.settle
BY DEF Started, NotStarted, Locals

\* The locals once an outcome is to be recorded.
LEMMA OutcomeFacts ==
    ASSUME NEW l \in Locals,
           NEW code \in {"none", "success", "stream_error", "downstream_disconnect"}
    PROVE  /\ Failing(l, code) \in Locals
           /\ Failing(l, code).failed
           /\ Failing(l, code).settle = code
           /\ Failing(l, code).item = l.item
           /\ Failing(l, code).inserted = l.inserted
           /\ Concluding(l, code) \in Locals
           /\ Concluding(l, code).settle = code
           /\ Concluding(l, code).item = l.item
           /\ Concluding(l, code).failed = l.failed
           /\ Concluding(l, code).inserted = l.inserted
BY DEF Failing, Concluding, Locals

\* The locals with an item in hand.
LEMMA HandFacts ==
    ASSUME NEW l \in Locals, NEW i \in Item \cup {"none"}
    PROVE  /\ InHand(l, i) \in Locals
           /\ InHand(l, i).item = i
           /\ InHand(l, i).inserted = l.inserted
           /\ InHand(l, i).failed = l.failed
           /\ InHand(l, i).settle = l.settle
           /\ InHand(l, i).channel = l.channel
           /\ InHand(l, i).pulled = l.pulled
BY DEF InHand, Locals

\* The locals after an item was pulled.
LEMMA PulledFacts ==
    ASSUME NEW l \in Locals, NEW i \in Item, l.pulled < MaxItems \/ i = "error"
    PROVE  /\ Pulled(l, i) \in Locals
           /\ Pulled(l, i).item = i
           /\ Pulled(l, i).inserted = l.inserted
           /\ Pulled(l, i).failed = l.failed
           /\ Pulled(l, i).settle = l.settle
BY HandFacts, StreamAssumption DEF Pulled, Locals

\* The locals after a send, successful or not.
LEMMA SentFacts ==
    ASSUME NEW l \in Locals
    PROVE  /\ l.channel < Capacity => Delivered(l) \in Locals
           /\ Stranded(l) \in Locals
           /\ Agree(Delivered(l), InHand(l, "none"))
           /\ Agree(Stranded(l), InHand(l, "none"))
<1>1. InHand(l, "none") \in Locals
  BY HandFacts
<1>2. l.channel < Capacity => Delivered(l) \in Locals
  BY <1>1, HandFacts, StreamAssumption DEF Delivered, Locals
<1>3. Stranded(l) \in Locals
  BY <1>1 DEF Stranded, Locals
<1>4. /\ Agree(Delivered(l), InHand(l, "none"))
      /\ Agree(Stranded(l), InHand(l, "none"))
  BY <1>1, Zenon DEF Delivered, Stranded, Locals, Agree
<1> QED BY <1>2, <1>3, <1>4

\* Flags the invariant does not speak of.
LEMMA FlagFacts ==
    ASSUME NEW l \in Locals
    PROVE  /\ Spawned(l) \in Locals /\ Agree(Spawned(l), l)
           /\ UsageRecorded(l) \in Locals /\ Agree(UsageRecorded(l), l)
           /\ AppendFailed(l) \in Locals /\ Agree(AppendFailed(l), l)
           /\ Closed(l) \in Locals /\ Agree(Closed(l), l)
<1>1. 0 \in 0..Capacity
  BY StreamAssumption
<1>2. Closed(l) \in Locals /\ Agree(Closed(l), l)
  BY <1>1, Zenon DEF Closed, Locals, Agree
<1>3. Spawned(l) \in Locals /\ Agree(Spawned(l), l)
  BY Zenon DEF Spawned, Locals, Agree
<1>4. UsageRecorded(l) \in Locals /\ Agree(UsageRecorded(l), l)
  BY Zenon DEF UsageRecorded, Locals, Agree
<1>5. AppendFailed(l) \in Locals /\ Agree(AppendFailed(l), l)
  BY Zenon DEF AppendFailed, Locals, Agree
<1> QED BY <1>2, <1>3, <1>4, <1>5

-----------------------------------------------------------------------------
(* One stream moves, the others do not.                                      *)

Untouched(t) ==
    /\ <<kind, process, recoverTodo>>' = <<kind, process, recoverTodo>>
    /\ pc'[t] = pc[t] /\ writer'[t] = writer[t] /\ local'[t] = local[t]
    /\ complete'[t] = complete[t] /\ output'[t] = output[t] /\ turn'[t] = turn[t]
    /\ activity'[t] = activity[t] /\ rollout'[t] = rollout[t]
    /\ saved'[t] = saved[t] /\ fault'[t] = fault[t] /\ eof'[t] = eof[t]
    /\ lock' = t <=> lock = t

\* A stream that an action leaves alone keeps its invariant.
LEMMA Frame ==
    ASSUME NEW t \in Stream, StreamInv(t), Untouched(t)
    PROVE  StreamInv(t)'
BY DEF StreamInv, WriterInv, RowInv, SettleInv, ActivityInv, RecoveryInv,
       OutcomeInv,
       Agreed, Alive, Untouched

\* It is enough to look at the stream that moves.
LEMMA OneMoves ==
    ASSUME NEW s \in Stream, Inv, TypeOK', StreamInv(s)',
           \A t \in Stream \ {s} : Untouched(t)
    PROVE  Inv'
BY Frame DEF Inv

\* Consuming the session changes nothing the invariant speaks of.
LEMMA AfterSaveFacts ==
    ASSUME NEW s \in Stream, TypeOK
    PROVE  AfterSave(s) \in Locals /\ Agree(AfterSave(s), local[s])
<1>1. local[s] \in Locals
  BY DEF TypeOK
<1>2. (local[s].session /\ ~complete[s]) \in BOOLEAN
  OBVIOUS
<1> QED BY <1>1, <1>2, Zenon DEF AfterSave, Locals, Agree

-----------------------------------------------------------------------------
(* One lemma per action.                                                     *)

\* A request arrives: no writer, no row, no outcome yet.
LEMMA ArriveInv ==
    ASSUME NEW s \in Stream, Inv, Arrive(s)
    PROVE  Inv'
<1> USE DEF Arrive, Put, Go
<1>1. TypeOK /\ StreamInv(s) /\ local[s] \in Locals
  BY DEF Inv, TypeOK
<1>0. /\ [Blank EXCEPT !.session = (kind[s] = "responses")] \in Locals
      /\ Agree([Blank EXCEPT !.session = (kind[s] = "responses")], Blank)
  BY BlankFacts, Zenon DEF Locals, Agree
<1>2. TypeOK'
  BY <1>1, <1>0, BlankFacts DEF TypeOK, Running, Gone, serverVars, rowVars
<1>3. StreamInv(s)'
  <2>1. WriterInv(s)'
    BY <1>1, <1>0, BlankFacts, StreamAssumption
       DEF Agree, WriterInv, RowInv, Running, TypeOK, StreamInv, serverVars,
           rowVars
  <2>2. RowInv(s)'
    BY <1>1, <1>0, BlankFacts, StreamAssumption
       DEF Agree, RowInv, SettleInv, Early, Recording, Settling, TypeOK,
           StreamInv, serverVars, rowVars
  <2>3. SettleInv(s)'
    BY <1>1, <1>0, BlankFacts, StreamAssumption
       DEF Agree, SettleInv, RowInv, Early, Settling, TypeOK, StreamInv,
           serverVars, rowVars
  <2>4. ActivityInv(s)'
    BY <1>1, <1>0, BlankFacts, StreamAssumption
       DEF Agree, ActivityInv, RowInv, SettleInv, Early, Recording, Settling,
           Gone, TypeOK, StreamInv, serverVars, rowVars
  <2>5. RecoveryInv(s)'
    BY <1>1, <1>0, BlankFacts, StreamAssumption
       DEF RecoveryInv, RowInv, Early, Alive, Running, TypeOK, StreamInv,
           serverVars, rowVars
  <2>6. OutcomeInv(s)'
    BY <1>1, <1>0, BlankFacts, StreamAssumption
       DEF Agree, OutcomeInv, Agreed, WriterInv, RowInv, SettleInv, Early,
           Recording, Settling, TypeOK, StreamInv, serverVars, rowVars
  <2> QED
    BY <2>1, <2>2, <2>3, <2>4, <2>5, <2>6 DEF StreamInv
<1>4. \A t \in Stream \ {s} : Untouched(t)
  BY <1>1 DEF TypeOK, Untouched, serverVars, rowVars
<1> QED BY <1>2, <1>3, <1>4, OneMoves

\* record_completed writes the whole turn and drops the writer.
LEMMA WriteCompletedInv ==
    ASSUME NEW s \in Stream, Inv, WriteCompleted(s)
    PROVE  Inv'
<1> USE DEF WriteCompleted, Put, Go, Leave
<1>1. TypeOK /\ StreamInv(s) /\ local[s] \in Locals
  BY DEF Inv, TypeOK
<1>2. TypeOK'
  <2>1. fault' \in [Stream -> BOOLEAN]
    BY <1>1, FaultType
  <2>2. writer' \in [Stream -> BOOLEAN] /\ lock' \in Stream \cup {NoStream}
    BY <1>1, WriterType
  <2> QED
    BY <1>1, BlankFacts, <2>1, <2>2
       DEF TypeOK, Running, Gone, serverVars, rowVars
<1>3. StreamInv(s)'
  <2>1. WriterInv(s)'
    BY <1>1, BlankFacts, StreamAssumption
       DEF WriterInv, RowInv, Running, TypeOK, StreamInv, serverVars, rowVars,
           Release, Hold
  <2>2. RowInv(s)'
    BY <1>1, BlankFacts, StreamAssumption
       DEF RowInv, SettleInv, Early, Recording, Settling, TypeOK, StreamInv,
           serverVars, rowVars, Release, Hold
  <2>3. SettleInv(s)'
    BY <1>1, BlankFacts, StreamAssumption
       DEF SettleInv, RowInv, Early, Settling, TypeOK, StreamInv, serverVars,
           rowVars, Release, Hold
  <2>4. ActivityInv(s)'
    BY <1>1, BlankFacts, StreamAssumption
       DEF ActivityInv, RowInv, SettleInv, Early, Recording, Settling, Gone,
           TypeOK, StreamInv, serverVars, rowVars, Release, Hold
  <2>5. RecoveryInv(s)'
    BY <1>1, BlankFacts, StreamAssumption
       DEF RecoveryInv, RowInv, Early, Alive, Running, TypeOK, StreamInv,
           serverVars, rowVars, Release, Hold, Fails, Succeeds
  <2>6. OutcomeInv(s)'
    BY <1>1, BlankFacts, StreamAssumption
       DEF OutcomeInv, Agreed, WriterInv, RowInv, SettleInv, Early, Recording,
           Settling, TypeOK, StreamInv, serverVars, rowVars, Release, Hold,
           Fails, Succeeds
  <2> QED
    BY <2>1, <2>2, <2>3, <2>4, <2>5, <2>6 DEF StreamInv
<1>4. \A t \in Stream \ {s} : Untouched(t)
  BY <1>1, StreamAssumption
     DEF TypeOK, Untouched, serverVars, rowVars, Release, Hold, Fails, Succeeds
<1> QED BY <1>2, <1>3, <1>4, OneMoves

\* record_completed inserts both rows, settled like the turn.
LEMMA InsertCompletedInv ==
    ASSUME NEW s \in Stream, Inv, InsertCompleted(s)
    PROVE  Inv'
<1> USE DEF InsertCompleted, Put, Go, Leave, InsertRows, Rollback
<1>1. TypeOK /\ StreamInv(s) /\ local[s] \in Locals
  BY DEF Inv, TypeOK
<1>2. TypeOK'
  <2>1. fault' \in [Stream -> BOOLEAN]
    BY <1>1, FaultType
  <2> QED
    BY <1>1, BlankFacts, <2>1
       DEF TypeOK, Running, Gone, serverVars, rowVars, StreamInv, RowInv,
           ErrorCode
<1>3. StreamInv(s)'
  <2>1. WriterInv(s)'
    BY <1>1, BlankFacts, StreamAssumption
       DEF WriterInv, RowInv, Running, TypeOK, StreamInv, serverVars, rowVars
  <2>2. RowInv(s)'
    BY <1>1, BlankFacts, StreamAssumption
       DEF RowInv, SettleInv, Early, Recording, Settling, TypeOK, StreamInv,
           serverVars, rowVars
  <2>3. SettleInv(s)'
    BY <1>1, BlankFacts, StreamAssumption
       DEF SettleInv, RowInv, Early, Settling, TypeOK, StreamInv, serverVars,
           rowVars
  <2>4. ActivityInv(s)'
    BY <1>1, BlankFacts, StreamAssumption
       DEF ActivityInv, RowInv, SettleInv, Early, Recording, Settling, Gone,
           TypeOK, StreamInv, serverVars, rowVars
  <2>5. RecoveryInv(s)'
    BY <1>1, BlankFacts, StreamAssumption
       DEF RecoveryInv, RowInv, Early, Alive, Running, TypeOK, StreamInv,
           serverVars, rowVars, Fails, Succeeds
  <2>6. OutcomeInv(s)'
    BY <1>1, BlankFacts, StreamAssumption
       DEF OutcomeInv, Agreed, WriterInv, RowInv, SettleInv, Early, Recording,
           Settling, TypeOK, StreamInv, serverVars, rowVars, Fails, Succeeds
  <2> QED
    BY <2>1, <2>2, <2>3, <2>4, <2>5, <2>6 DEF StreamInv
<1>4. \A t \in Stream \ {s} : Untouched(t)
  BY <1>1 DEF TypeOK, Untouched, serverVars, rowVars, Fails, Succeeds
<1> QED BY <1>2, <1>3, <1>4, OneMoves

\* An empty stream ends its turn as failed.
LEMMA FirstEndInv ==
    ASSUME NEW s \in Stream, Inv, FirstEnd(s)
    PROVE  Inv'
<1> USE DEF FirstEnd, Put, Go, Leave, Required
<1>1. TypeOK /\ StreamInv(s) /\ local[s] \in Locals
  BY DEF Inv, TypeOK
<1>2. TypeOK'
  <2>1. fault' \in [Stream -> BOOLEAN]
    BY <1>1, FaultType
  <2>2. writer' \in [Stream -> BOOLEAN] /\ lock' \in Stream \cup {NoStream}
    BY <1>1, WriterType
  <2> QED
    BY <1>1, BlankFacts, <2>1, <2>2
       DEF TypeOK, Running, Gone, serverVars, rowVars
<1>3. StreamInv(s)'
  <2>1. WriterInv(s)'
    BY <1>1, BlankFacts, StreamAssumption
       DEF WriterInv, RowInv, Running, TypeOK, StreamInv, serverVars, rowVars,
           Release, Hold
  <2>2. RowInv(s)'
    BY <1>1, BlankFacts, StreamAssumption
       DEF RowInv, SettleInv, Early, Recording, Settling, TypeOK, StreamInv,
           serverVars, rowVars, Release, Hold
  <2>3. SettleInv(s)'
    BY <1>1, BlankFacts, StreamAssumption
       DEF SettleInv, RowInv, Early, Settling, TypeOK, StreamInv, serverVars,
           rowVars, Release, Hold
  <2>4. ActivityInv(s)'
    BY <1>1, BlankFacts, StreamAssumption
       DEF ActivityInv, RowInv, SettleInv, Early, Recording, Settling, Gone,
           TypeOK, StreamInv, serverVars, rowVars, Release, Hold
  <2>5. RecoveryInv(s)'
    BY <1>1, BlankFacts, StreamAssumption
       DEF RecoveryInv, RowInv, Early, Alive, Running, TypeOK, StreamInv,
           serverVars, rowVars, Release, Hold, Fails, Succeeds
  <2>6. OutcomeInv(s)'
    BY <1>1, BlankFacts, StreamAssumption
       DEF OutcomeInv, Agreed, WriterInv, RowInv, SettleInv, Early, Recording,
           Settling, TypeOK, StreamInv, serverVars, rowVars, Release, Hold,
           Fails, Succeeds
  <2> QED
    BY <2>1, <2>2, <2>3, <2>4, <2>5, <2>6 DEF StreamInv
<1>4. \A t \in Stream \ {s} : Untouched(t)
  BY <1>1, StreamAssumption
     DEF TypeOK, Untouched, serverVars, rowVars, Release, Hold, Fails, Succeeds
<1> QED BY <1>2, <1>3, <1>4, OneMoves

\* An empty stream inserts both rows as failed.
LEMMA InsertEmptyInv ==
    ASSUME NEW s \in Stream, Inv, InsertEmpty(s)
    PROVE  Inv'
<1> USE DEF InsertEmpty, Put, Go, Leave, Required, InsertRows, Rollback
<1>1. TypeOK /\ StreamInv(s) /\ local[s] \in Locals
  BY DEF Inv, TypeOK
<1>2. TypeOK'
  <2>1. fault' \in [Stream -> BOOLEAN]
    BY <1>1, FaultType
  <2> QED
    BY <1>1, BlankFacts, <2>1
       DEF TypeOK, Running, Gone, serverVars, rowVars, ErrorCode
<1>3. StreamInv(s)'
  <2>1. WriterInv(s)'
    BY <1>1, BlankFacts, StreamAssumption
       DEF WriterInv, RowInv, Running, TypeOK, StreamInv, serverVars, rowVars
  <2>2. RowInv(s)'
    BY <1>1, BlankFacts, StreamAssumption
       DEF RowInv, SettleInv, Early, Recording, Settling, TypeOK, StreamInv,
           serverVars, rowVars
  <2>3. SettleInv(s)'
    BY <1>1, BlankFacts, StreamAssumption
       DEF SettleInv, RowInv, Early, Settling, TypeOK, StreamInv, serverVars,
           rowVars
  <2>4. ActivityInv(s)'
    BY <1>1, BlankFacts, StreamAssumption
       DEF ActivityInv, RowInv, SettleInv, Early, Recording, Settling, Gone,
           TypeOK, StreamInv, serverVars, rowVars
  <2>5. RecoveryInv(s)'
    BY <1>1, BlankFacts, StreamAssumption
       DEF RecoveryInv, RowInv, Early, Alive, Running, TypeOK, StreamInv,
           serverVars, rowVars, Fails, Succeeds
  <2>6. OutcomeInv(s)'
    BY <1>1, BlankFacts, StreamAssumption
       DEF OutcomeInv, Agreed, WriterInv, RowInv, SettleInv, Early, Recording,
           Settling, TypeOK, StreamInv, serverVars, rowVars, Fails, Succeeds
  <2> QED
    BY <2>1, <2>2, <2>3, <2>4, <2>5, <2>6 DEF StreamInv
<1>4. \A t \in Stream \ {s} : Untouched(t)
  BY <1>1 DEF TypeOK, Untouched, serverVars, rowVars, Fails, Succeeds
<1> QED BY <1>2, <1>3, <1>4, OneMoves

\* The rows are inserted; a refused request drops its writer.
LEMMA StartStreamInv ==
    ASSUME NEW s \in Stream, Inv, StartStream(s)
    PROVE  Inv'
<1> USE DEF StartStream, Put, Go, Leave, Required, InsertRows, Rollback
<1>1. TypeOK /\ StreamInv(s) /\ local[s] \in Locals
  BY DEF Inv, TypeOK
<1>2. TypeOK'
  <2>1. fault' \in [Stream -> BOOLEAN]
    BY <1>1, FaultType
  <2>2. writer' \in [Stream -> BOOLEAN] /\ lock' \in Stream \cup {NoStream}
    BY <1>1, WriterType
  <2> QED
    BY <1>1, BlankFacts, StartFacts, <2>1, <2>2
       DEF TypeOK, Running, Gone, serverVars, rowVars, ErrorCode
<1>3. StreamInv(s)'
  <2>1. WriterInv(s)'
    BY <1>1, BlankFacts, StartFacts, StreamAssumption
       DEF WriterInv, RowInv, Running, TypeOK, StreamInv, serverVars, rowVars,
           Release, Hold
  <2>2. RowInv(s)'
    BY <1>1, BlankFacts, StartFacts, StreamAssumption
       DEF RowInv, SettleInv, Early, Recording, Settling, TypeOK, StreamInv,
           serverVars, rowVars, Release, Hold
  <2>3. SettleInv(s)'
    BY <1>1, BlankFacts, StartFacts, StreamAssumption
       DEF SettleInv, RowInv, Early, Settling, TypeOK, StreamInv, serverVars,
           rowVars, Release, Hold
  <2>4. ActivityInv(s)'
    BY <1>1, BlankFacts, StartFacts, StreamAssumption
       DEF ActivityInv, RowInv, SettleInv, Early, Recording, Settling, Gone,
           TypeOK, StreamInv, serverVars, rowVars, Release, Hold
  <2>5. RecoveryInv(s)'
    BY <1>1, BlankFacts, StartFacts, StreamAssumption
       DEF RecoveryInv, RowInv, Early, Alive, Running, TypeOK, StreamInv,
           serverVars, rowVars, Release, Hold, Fails, Succeeds
  <2>6. OutcomeInv(s)'
    BY <1>1, BlankFacts, StartFacts, StreamAssumption
       DEF OutcomeInv, Agreed, WriterInv, RowInv, SettleInv, Early, Recording,
           Settling, TypeOK, StreamInv, serverVars, rowVars, Release, Hold,
           Fails, Succeeds
  <2> QED
    BY <2>1, <2>2, <2>3, <2>4, <2>5, <2>6 DEF StreamInv
<1>4. \A t \in Stream \ {s} : Untouched(t)
  BY <1>1, StreamAssumption
     DEF TypeOK, Untouched, serverVars, rowVars, Release, Hold, Fails, Succeeds
<1> QED BY <1>2, <1>3, <1>4, OneMoves

\* The activity row takes the outcome; no failed one becomes success.
LEMMA UpdateRowInv ==
    ASSUME NEW s \in Stream, Inv, UpdateRow(s)
    PROVE  Inv'
<1> USE DEF UpdateRow, Put, Go
<1>1. TypeOK /\ StreamInv(s) /\ local[s] \in Locals
  BY DEF Inv, TypeOK
<1>2. TypeOK'
  <2>1. fault' \in [Stream -> BOOLEAN]
    BY <1>1, FaultType
  <2>2. local[s].settle \in {"none", "success", "stream_error",
                                "downstream_disconnect"}
    BY <1>1 DEF Locals
  <2> QED
    BY <1>1, <2>1, <2>2
       DEF TypeOK, Running, Gone, serverVars, rowVars, ErrorCode
<1>3. StreamInv(s)'
  <2>1. WriterInv(s)'
    BY <1>1, StreamAssumption
       DEF WriterInv, RowInv, Running, TypeOK, StreamInv, serverVars, rowVars,
           Locals
  <2>2. RowInv(s)'
    BY <1>1, StreamAssumption
       DEF RowInv, SettleInv, Early, Recording, Settling, TypeOK, StreamInv,
           serverVars, rowVars, Locals
  <2>3. SettleInv(s)'
    BY <1>1, StreamAssumption
       DEF SettleInv, RowInv, Early, Settling, TypeOK, StreamInv, serverVars,
           rowVars, Locals
  <2>4. ActivityInv(s)'
    BY <1>1, StreamAssumption
       DEF ActivityInv, RowInv, SettleInv, Early, Recording, Settling, Gone,
           TypeOK, StreamInv, serverVars, rowVars, Locals
  <2>5. RecoveryInv(s)'
    BY <1>1, StreamAssumption
       DEF RecoveryInv, RowInv, Early, Alive, Running, TypeOK, StreamInv,
           serverVars, rowVars, Locals, Fails, Succeeds
  <2>6. OutcomeInv(s)'
    BY <1>1, StreamAssumption
       DEF OutcomeInv, Agreed, WriterInv, RowInv, SettleInv, Early, Recording,
           Settling, TypeOK, StreamInv, serverVars, rowVars, Locals, Fails,
           Succeeds
  <2> QED
    BY <2>1, <2>2, <2>3, <2>4, <2>5, <2>6 DEF StreamInv
<1>4. \A t \in Stream \ {s} : Untouched(t)
  BY <1>1 DEF TypeOK, Untouched, serverVars, rowVars, Fails, Succeeds
<1> QED BY <1>2, <1>3, <1>4, OneMoves

\* An append failure turns the activity to failed.
LEMMA MarkIncompleteInv ==
    ASSUME NEW s \in Stream, Inv, MarkIncomplete(s)
    PROVE  Inv'
<1> USE DEF MarkIncomplete, Put, Go
<1>1. TypeOK /\ StreamInv(s) /\ local[s] \in Locals
  BY DEF Inv, TypeOK
<1>2. TypeOK'
  <2>1. fault' \in [Stream -> BOOLEAN]
    BY <1>1, FaultType
  <2> QED
    BY <1>1, <2>1 DEF TypeOK, Running, Gone, serverVars, rowVars, ErrorCode
<1>3. StreamInv(s)'
  <2>1. WriterInv(s)'
    BY <1>1, StreamAssumption
       DEF WriterInv, RowInv, Running, TypeOK, StreamInv, serverVars, rowVars
  <2>2. RowInv(s)'
    BY <1>1, StreamAssumption
       DEF RowInv, SettleInv, Early, Recording, Settling, TypeOK, StreamInv,
           serverVars, rowVars
  <2>3. SettleInv(s)'
    BY <1>1, StreamAssumption
       DEF SettleInv, RowInv, Early, Settling, TypeOK, StreamInv, serverVars,
           rowVars
  <2>4. ActivityInv(s)'
    BY <1>1, StreamAssumption
       DEF ActivityInv, RowInv, SettleInv, Early, Recording, Settling, Gone,
           TypeOK, StreamInv, serverVars, rowVars
  <2>5. RecoveryInv(s)'
    BY <1>1, StreamAssumption
       DEF RecoveryInv, RowInv, Early, Alive, Running, TypeOK, StreamInv,
           serverVars, rowVars, Fails, Succeeds
  <2>6. OutcomeInv(s)'
    BY <1>1, StreamAssumption
       DEF OutcomeInv, Agreed, WriterInv, RowInv, SettleInv, Early, Recording,
           Settling, TypeOK, StreamInv, serverVars, rowVars, Fails, Succeeds
  <2> QED
    BY <2>1, <2>2, <2>3, <2>4, <2>5, <2>6 DEF StreamInv
<1>4. \A t \in Stream \ {s} : Untouched(t)
  BY <1>1 DEF TypeOK, Untouched, serverVars, rowVars, Fails, Succeeds
<1> QED BY <1>2, <1>3, <1>4, OneMoves

\* The upstream ends, with or without a client.
LEMMA NextEndInv ==
    ASSUME NEW s \in Stream, Inv, NextEnd(s)
    PROVE  Inv'
<1> USE DEF NextEnd, Put, Go
<1>1. TypeOK /\ StreamInv(s) /\ local[s] \in Locals
  BY DEF Inv, TypeOK
<1>2. TypeOK'
  <2>1. eof' \in [Stream -> BOOLEAN]
    BY <1>1, PutBool, Zenon DEF TypeOK
  <2> QED
    BY <1>1, <2>1 DEF TypeOK, Running, Gone, serverVars, rowVars
<1>3. StreamInv(s)'
  <2>1. WriterInv(s)'
    BY <1>1, StreamAssumption
       DEF WriterInv, RowInv, Running, TypeOK, StreamInv, serverVars, rowVars
  <2>2. RowInv(s)'
    BY <1>1, StreamAssumption
       DEF RowInv, SettleInv, Early, Recording, Settling, TypeOK, StreamInv,
           serverVars, rowVars
  <2>3. SettleInv(s)'
    BY <1>1, StreamAssumption
       DEF SettleInv, RowInv, Early, Settling, TypeOK, StreamInv, serverVars,
           rowVars
  <2>4. ActivityInv(s)'
    BY <1>1, StreamAssumption
       DEF ActivityInv, RowInv, SettleInv, Early, Recording, Settling, Gone,
           TypeOK, StreamInv, serverVars, rowVars
  <2>5. RecoveryInv(s)'
    BY <1>1, StreamAssumption
       DEF RecoveryInv, RowInv, Early, Alive, Running, TypeOK, StreamInv,
           serverVars, rowVars
  <2>6. OutcomeInv(s)'
    BY <1>1, StreamAssumption
       DEF OutcomeInv, Agreed, WriterInv, RowInv, SettleInv, Early, Recording,
           Settling, TypeOK, StreamInv, serverVars, rowVars
  <2> QED
    BY <2>1, <2>2, <2>3, <2>4, <2>5, <2>6 DEF StreamInv
<1>4. \A t \in Stream \ {s} : Untouched(t)
  BY <1>1 DEF TypeOK, Untouched, serverVars, rowVars
<1> QED BY <1>2, <1>3, <1>4, OneMoves

\* The drain window closes.
LEMMA DrainTimeoutInv ==
    ASSUME NEW s \in Stream, Inv, DrainTimeout(s)
    PROVE  Inv'
<1> USE DEF DrainTimeout, Put, Go
<1>1. TypeOK /\ StreamInv(s) /\ local[s] \in Locals
  BY DEF Inv, TypeOK
<1>2. TypeOK'
  BY <1>1 DEF TypeOK, Running, Gone, serverVars, rowVars
<1>3. StreamInv(s)'
  <2>1. WriterInv(s)'
    BY <1>1, StreamAssumption
       DEF WriterInv, RowInv, Running, TypeOK, StreamInv, serverVars, rowVars
  <2>2. RowInv(s)'
    BY <1>1, StreamAssumption
       DEF RowInv, SettleInv, Early, Recording, Settling, TypeOK, StreamInv,
           serverVars, rowVars
  <2>3. SettleInv(s)'
    BY <1>1, StreamAssumption
       DEF SettleInv, RowInv, Early, Settling, TypeOK, StreamInv, serverVars,
           rowVars
  <2>4. ActivityInv(s)'
    BY <1>1, StreamAssumption
       DEF ActivityInv, RowInv, SettleInv, Early, Recording, Settling, Gone,
           TypeOK, StreamInv, serverVars, rowVars
  <2>5. RecoveryInv(s)'
    BY <1>1, StreamAssumption
       DEF RecoveryInv, RowInv, Early, Alive, Running, TypeOK, StreamInv,
           serverVars, rowVars
  <2>6. OutcomeInv(s)'
    BY <1>1, StreamAssumption
       DEF OutcomeInv, Agreed, WriterInv, RowInv, SettleInv, Early, Recording,
           Settling, TypeOK, StreamInv, serverVars, rowVars
  <2> QED
    BY <2>1, <2>2, <2>3, <2>4, <2>5, <2>6 DEF StreamInv
<1>4. \A t \in Stream \ {s} : Untouched(t)
  BY <1>1 DEF TypeOK, Untouched, serverVars, rowVars
<1> QED BY <1>2, <1>3, <1>4, OneMoves

\* The end of a stream is a success only after a completion event.
LEMMA StreamEndInv ==
    ASSUME NEW s \in Stream, Inv, StreamEnd(s)
    PROVE  Inv'
<1> USE DEF StreamEnd, Put, Go, Leave, Fail, stream_completed
<1>1. TypeOK /\ StreamInv(s) /\ local[s] \in Locals
  BY DEF Inv, TypeOK
<1>2. TypeOK'
  <2>1. writer' \in [Stream -> BOOLEAN] /\ lock' \in Stream \cup {NoStream}
    BY <1>1, WriterType
  <2> QED
    BY <1>1, BlankFacts, OutcomeFacts, <2>1
       DEF TypeOK, Running, Gone, serverVars, rowVars
<1>3. StreamInv(s)'
  <2>1. WriterInv(s)'
    BY <1>1, BlankFacts, OutcomeFacts, StreamAssumption
       DEF WriterInv, RowInv, Running, TypeOK, StreamInv, serverVars, rowVars,
           Release, Hold
  <2>2. RowInv(s)'
    BY <1>1, BlankFacts, OutcomeFacts, StreamAssumption
       DEF RowInv, SettleInv, Early, Recording, Settling, TypeOK, StreamInv,
           serverVars, rowVars, Release, Hold
  <2>3. SettleInv(s)'
    BY <1>1, BlankFacts, OutcomeFacts, StreamAssumption
       DEF SettleInv, RowInv, Early, Settling, TypeOK, StreamInv, serverVars,
           rowVars, Release, Hold
  <2>4. ActivityInv(s)'
    BY <1>1, BlankFacts, OutcomeFacts, StreamAssumption
       DEF ActivityInv, RowInv, SettleInv, Early, Recording, Settling, Gone,
           TypeOK, StreamInv, serverVars, rowVars, Release, Hold
  <2>5. RecoveryInv(s)'
    BY <1>1, BlankFacts, OutcomeFacts, StreamAssumption
       DEF RecoveryInv, RowInv, Early, Alive, Running, TypeOK, StreamInv,
           serverVars, rowVars, Release, Hold
  <2>6. OutcomeInv(s)'
    BY <1>1, BlankFacts, OutcomeFacts, StreamAssumption
       DEF OutcomeInv, Agreed, WriterInv, RowInv, SettleInv, Early, Recording,
           Settling, TypeOK, StreamInv, serverVars, rowVars, Release, Hold
  <2> QED
    BY <2>1, <2>2, <2>3, <2>4, <2>5, <2>6 DEF StreamInv
<1>4. \A t \in Stream \ {s} : Untouched(t)
  BY <1>1, StreamAssumption
     DEF TypeOK, Untouched, serverVars, rowVars, Release, Hold
<1> QED BY <1>2, <1>3, <1>4, OneMoves

\* The last attempt to save the response state.
LEMMA EndSessionInv ==
    ASSUME NEW s \in Stream, Inv, EndSession(s)
    PROVE  Inv'
<1> USE DEF EndSession, Put, Go, SaveIfReady, ReadyToSave
<1>1. TypeOK /\ StreamInv(s) /\ local[s] \in Locals
  BY DEF Inv, TypeOK
<1>2. TypeOK'
  <2>1. fault' \in [Stream -> BOOLEAN]
    BY <1>1, FaultType
  <2>2. saved' \in [Stream -> BOOLEAN]
    BY <1>1, PutBool, Zenon DEF TypeOK
  <2> QED
    BY <1>1, AfterSaveFacts, <2>1, <2>2
       DEF TypeOK, Running, Gone, serverVars, rowVars
<1>3. StreamInv(s)'
  <2>1. WriterInv(s)'
    BY <1>1, AfterSaveFacts, StreamAssumption
       DEF WriterInv, RowInv, Running, TypeOK, StreamInv, serverVars, rowVars,
           Agree
  <2>2. RowInv(s)'
    BY <1>1, AfterSaveFacts, StreamAssumption
       DEF RowInv, SettleInv, Early, Recording, Settling, TypeOK, StreamInv,
           serverVars, rowVars, Agree
  <2>3. SettleInv(s)'
    BY <1>1, AfterSaveFacts, StreamAssumption
       DEF SettleInv, RowInv, Early, Settling, TypeOK, StreamInv, serverVars,
           rowVars, Agree
  <2>4. ActivityInv(s)'
    BY <1>1, AfterSaveFacts, StreamAssumption
       DEF ActivityInv, RowInv, SettleInv, Early, Recording, Settling, Gone,
           TypeOK, StreamInv, serverVars, rowVars, Agree
  <2>5. RecoveryInv(s)'
    BY <1>1, AfterSaveFacts, StreamAssumption
       DEF RecoveryInv, RowInv, Early, Alive, Running, TypeOK, StreamInv,
           serverVars, rowVars, Agree, Fails, Succeeds
  <2>6. OutcomeInv(s)'
    BY <1>1, AfterSaveFacts, StreamAssumption
       DEF OutcomeInv, Agreed, WriterInv, RowInv, SettleInv, Early, Recording,
           Settling, TypeOK, StreamInv, serverVars, rowVars, Agree, Fails,
           Succeeds
  <2> QED
    BY <2>1, <2>2, <2>3, <2>4, <2>5, <2>6 DEF StreamInv
<1>4. \A t \in Stream \ {s} : Untouched(t)
  BY <1>1 DEF TypeOK, Untouched, serverVars, rowVars, Fails, Succeeds
<1> QED BY <1>2, <1>3, <1>4, OneMoves

\* A disconnect is recorded as a failure.
LEMMA DisconnectInv ==
    ASSUME NEW s \in Stream, Inv, Disconnect(s)
    PROVE  Inv'
<1> USE DEF Disconnect, Put, Go, Fail
<1>1. TypeOK /\ StreamInv(s) /\ local[s] \in Locals
  BY DEF Inv, TypeOK
<1>2. TypeOK'
  BY <1>1, OutcomeFacts DEF TypeOK, Running, Gone, serverVars, rowVars
<1>3. StreamInv(s)'
  <2>1. WriterInv(s)'
    BY <1>1, OutcomeFacts, StreamAssumption
       DEF WriterInv, RowInv, Running, TypeOK, StreamInv, serverVars, rowVars
  <2>2. RowInv(s)'
    BY <1>1, OutcomeFacts, StreamAssumption
       DEF RowInv, SettleInv, Early, Recording, Settling, TypeOK, StreamInv,
           serverVars, rowVars
  <2>3. SettleInv(s)'
    BY <1>1, OutcomeFacts, StreamAssumption
       DEF SettleInv, RowInv, Early, Settling, TypeOK, StreamInv, serverVars,
           rowVars
  <2>4. ActivityInv(s)'
    BY <1>1, OutcomeFacts, StreamAssumption
       DEF ActivityInv, RowInv, SettleInv, Early, Recording, Settling, Gone,
           TypeOK, StreamInv, serverVars, rowVars
  <2>5. RecoveryInv(s)'
    BY <1>1, OutcomeFacts, StreamAssumption
       DEF RecoveryInv, RowInv, Early, Alive, Running, TypeOK, StreamInv,
           serverVars, rowVars
  <2>6. OutcomeInv(s)'
    BY <1>1, OutcomeFacts, StreamAssumption
       DEF OutcomeInv, Agreed, WriterInv, RowInv, SettleInv, Early, Recording,
           Settling, TypeOK, StreamInv, serverVars, rowVars
  <2> QED
    BY <2>1, <2>2, <2>3, <2>4, <2>5, <2>6 DEF StreamInv
<1>4. \A t \in Stream \ {s} : Untouched(t)
  BY <1>1 DEF TypeOK, Untouched, serverVars, rowVars
<1> QED BY <1>2, <1>3, <1>4, OneMoves

\* The request future pulls the first item.
LEMMA FirstItemInv ==
    ASSUME NEW s \in Stream, NEW i \in Item, Inv, FirstItem(s, i)
    PROVE  Inv'
<1> USE DEF FirstItem, Put, Go, TakeItem
<1>1. TypeOK /\ StreamInv(s) /\ local[s] \in Locals
  BY DEF Inv, TypeOK
<1>2. TypeOK'
  <2>1. complete' \in [Stream -> BOOLEAN] /\ output' \in [Stream -> BOOLEAN]
    BY <1>1, PutBool, Zenon DEF TypeOK
  <2> QED
    BY <1>1, PulledFacts, <2>1 DEF TypeOK, Running, Gone, serverVars, rowVars
<1>3. StreamInv(s)'
  <2>1. WriterInv(s)'
    BY <1>1, PulledFacts, StreamAssumption
       DEF WriterInv, RowInv, Running, TypeOK, StreamInv, serverVars, rowVars
  <2>2. RowInv(s)'
    BY <1>1, PulledFacts, StreamAssumption
       DEF RowInv, SettleInv, Early, Recording, Settling, TypeOK, StreamInv,
           serverVars, rowVars
  <2>3. SettleInv(s)'
    BY <1>1, PulledFacts, StreamAssumption
       DEF SettleInv, RowInv, Early, Settling, TypeOK, StreamInv, serverVars,
           rowVars
  <2>4. ActivityInv(s)'
    BY <1>1, PulledFacts, StreamAssumption
       DEF ActivityInv, RowInv, SettleInv, Early, Recording, Settling, Gone,
           TypeOK, StreamInv, serverVars, rowVars
  <2>5. RecoveryInv(s)'
    BY <1>1, PulledFacts, StreamAssumption
       DEF RecoveryInv, RowInv, Early, Alive, Running, TypeOK, StreamInv,
           serverVars, rowVars
  <2>6. OutcomeInv(s)'
    BY <1>1, PulledFacts, StreamAssumption
       DEF OutcomeInv, Agreed, WriterInv, RowInv, SettleInv, Early, Recording,
           Settling, TypeOK, StreamInv, serverVars, rowVars
  <2> QED
    BY <2>1, <2>2, <2>3, <2>4, <2>5, <2>6 DEF StreamInv
<1>4. \A t \in Stream \ {s} : Untouched(t)
  BY <1>1 DEF TypeOK, Untouched, serverVars, rowVars
<1> QED BY <1>2, <1>3, <1>4, OneMoves

\* The task pulls another item.
LEMMA NextItemInv ==
    ASSUME NEW s \in Stream, NEW i \in Item, Inv, NextItem(s, i)
    PROVE  Inv'
<1> USE DEF NextItem, Put, Go, TakeItem
<1>1. TypeOK /\ StreamInv(s) /\ local[s] \in Locals
  BY DEF Inv, TypeOK
<1>2. TypeOK'
  <2>1. complete' \in [Stream -> BOOLEAN] /\ output' \in [Stream -> BOOLEAN]
    BY <1>1, PutBool, Zenon DEF TypeOK
  <2> QED
    BY <1>1, PulledFacts, <2>1 DEF TypeOK, Running, Gone, serverVars, rowVars
<1>3. StreamInv(s)'
  <2>1. WriterInv(s)'
    BY <1>1, PulledFacts, StreamAssumption
       DEF WriterInv, RowInv, Running, TypeOK, StreamInv, serverVars, rowVars
  <2>2. RowInv(s)'
    BY <1>1, PulledFacts, StreamAssumption
       DEF RowInv, SettleInv, Early, Recording, Settling, TypeOK, StreamInv,
           serverVars, rowVars
  <2>3. SettleInv(s)'
    BY <1>1, PulledFacts, StreamAssumption
       DEF SettleInv, RowInv, Early, Settling, TypeOK, StreamInv, serverVars,
           rowVars
  <2>4. ActivityInv(s)'
    BY <1>1, PulledFacts, StreamAssumption
       DEF ActivityInv, RowInv, SettleInv, Early, Recording, Settling, Gone,
           TypeOK, StreamInv, serverVars, rowVars
  <2>5. RecoveryInv(s)'
    BY <1>1, PulledFacts, StreamAssumption
       DEF RecoveryInv, RowInv, Early, Alive, Running, TypeOK, StreamInv,
           serverVars, rowVars
  <2>6. OutcomeInv(s)'
    BY <1>1, PulledFacts, StreamAssumption
       DEF OutcomeInv, Agreed, WriterInv, RowInv, SettleInv, Early, Recording,
           Settling, TypeOK, StreamInv, serverVars, rowVars
  <2> QED
    BY <2>1, <2>2, <2>3, <2>4, <2>5, <2>6 DEF StreamInv
<1>4. \A t \in Stream \ {s} : Untouched(t)
  BY <1>1 DEF TypeOK, Untouched, serverVars, rowVars
<1> QED BY <1>2, <1>3, <1>4, OneMoves

\* Begin takes a free lock, so no other stream owns a writer.
LEMMA BeginInv ==
    ASSUME NEW s \in Stream, Inv, Begin(s)
    PROVE  Inv'
<1> USE DEF Begin, Put, Go, Leave, Required
<1>1. TypeOK /\ StreamInv(s) /\ local[s] \in Locals
  BY DEF Inv, TypeOK
<1>2. TypeOK'
  <2>1. fault' \in [Stream -> BOOLEAN]
    BY <1>1, FaultType
  <2>2. writer' \in [Stream -> BOOLEAN]
    BY <1>1, PutBool, Zenon DEF TypeOK, Hold
  <2> QED
    BY <1>1, BlankFacts, <2>1, <2>2
       DEF TypeOK, Running, Gone, serverVars, rowVars, Hold
<1>3. StreamInv(s)'
  <2>1. WriterInv(s)'
    BY <1>1, BlankFacts, StreamAssumption
       DEF WriterInv, RowInv, Running, TypeOK, StreamInv, serverVars, rowVars,
           Hold
  <2>2. RowInv(s)'
    BY <1>1, BlankFacts, StreamAssumption
       DEF RowInv, SettleInv, Early, Recording, Settling, TypeOK, StreamInv,
           serverVars, rowVars, Hold
  <2>3. SettleInv(s)'
    BY <1>1, BlankFacts, StreamAssumption
       DEF SettleInv, RowInv, Early, Settling, TypeOK, StreamInv, serverVars,
           rowVars, Hold
  <2>4. ActivityInv(s)'
    BY <1>1, BlankFacts, StreamAssumption
       DEF ActivityInv, RowInv, SettleInv, Early, Recording, Settling, Gone,
           TypeOK, StreamInv, serverVars, rowVars, Hold
  <2>5. RecoveryInv(s)'
    BY <1>1, BlankFacts, StreamAssumption
       DEF RecoveryInv, RowInv, Early, Alive, Running, TypeOK, StreamInv,
           serverVars, rowVars, Hold, Fails, Succeeds
  <2>6. OutcomeInv(s)'
    BY <1>1, BlankFacts, StreamAssumption
       DEF OutcomeInv, Agreed, WriterInv, RowInv, SettleInv, Early, Recording,
           Settling, TypeOK, StreamInv, serverVars, rowVars, Hold, Fails,
           Succeeds
  <2> QED
    BY <2>1, <2>2, <2>3, <2>4, <2>5, <2>6 DEF StreamInv
<1>4. \A t \in Stream \ {s} : Untouched(t)
  BY <1>1, StreamAssumption
     DEF TypeOK, Untouched, serverVars, rowVars, Hold, Fails, Succeeds
<1> QED BY <1>2, <1>3, <1>4, OneMoves

\* observe_item picks what to record for the item in hand.
LEMMA ObserveInv ==
    ASSUME NEW s \in Stream, Inv, Observe(s)
    PROVE  Inv'
<1> USE DEF Observe, Put, Go, Observed, Fail
<1>1. TypeOK /\ StreamInv(s) /\ local[s] \in Locals
  BY DEF Inv, TypeOK
<1>2. TypeOK'
  BY <1>1, OutcomeFacts, FlagFacts
     DEF TypeOK, Running, Gone, serverVars, rowVars
<1>3. StreamInv(s)'
  <2>1. WriterInv(s)'
    BY <1>1, OutcomeFacts, FlagFacts, StreamAssumption
       DEF WriterInv, RowInv, Running, TypeOK, StreamInv, serverVars, rowVars,
           Agree
  <2>2. RowInv(s)'
    BY <1>1, OutcomeFacts, FlagFacts, StreamAssumption
       DEF RowInv, SettleInv, Early, Recording, Settling, TypeOK, StreamInv,
           serverVars, rowVars, Agree
  <2>3. SettleInv(s)'
    BY <1>1, OutcomeFacts, FlagFacts, StreamAssumption
       DEF SettleInv, RowInv, Early, Settling, TypeOK, StreamInv, serverVars,
           rowVars, Agree
  <2>4. ActivityInv(s)'
    BY <1>1, OutcomeFacts, FlagFacts, StreamAssumption
       DEF ActivityInv, RowInv, SettleInv, Early, Recording, Settling, Gone,
           TypeOK, StreamInv, serverVars, rowVars, Agree
  <2>5. RecoveryInv(s)'
    BY <1>1, OutcomeFacts, FlagFacts, StreamAssumption
       DEF RecoveryInv, RowInv, Early, Alive, Running, TypeOK, StreamInv,
           serverVars, rowVars, Agree
  <2>6. OutcomeInv(s)'
    BY <1>1, OutcomeFacts, FlagFacts, StreamAssumption
       DEF OutcomeInv, Agreed, WriterInv, RowInv, SettleInv, Early, Recording,
           Settling, TypeOK, StreamInv, serverVars, rowVars, Agree
  <2> QED
    BY <2>1, <2>2, <2>3, <2>4, <2>5, <2>6 DEF StreamInv
<1>4. \A t \in Stream \ {s} : Untouched(t)
  BY <1>1 DEF TypeOK, Untouched, serverVars, rowVars
<1> QED BY <1>2, <1>3, <1>4, OneMoves

\* The final usage leaves every status alone.
LEMMA RecordFinalUsageInv ==
    ASSUME NEW s \in Stream, Inv, RecordFinalUsage(s)
    PROVE  Inv'
<1> USE DEF RecordFinalUsage, Put, Go
<1>1. TypeOK /\ StreamInv(s) /\ local[s] \in Locals
  BY DEF Inv, TypeOK
<1>2. TypeOK'
  <2>1. fault' \in [Stream -> BOOLEAN]
    BY <1>1, FaultType
  <2> QED
    BY <1>1, FlagFacts, <2>1 DEF TypeOK, Running, Gone, serverVars, rowVars
<1>3. StreamInv(s)'
  <2>1. WriterInv(s)'
    BY <1>1, FlagFacts, StreamAssumption
       DEF WriterInv, RowInv, Running, TypeOK, StreamInv, serverVars, rowVars,
           Agree
  <2>2. RowInv(s)'
    BY <1>1, FlagFacts, StreamAssumption
       DEF RowInv, SettleInv, Early, Recording, Settling, TypeOK, StreamInv,
           serverVars, rowVars, Agree
  <2>3. SettleInv(s)'
    BY <1>1, FlagFacts, StreamAssumption
       DEF SettleInv, RowInv, Early, Settling, TypeOK, StreamInv, serverVars,
           rowVars, Agree
  <2>4. ActivityInv(s)'
    BY <1>1, FlagFacts, StreamAssumption
       DEF ActivityInv, RowInv, SettleInv, Early, Recording, Settling, Gone,
           TypeOK, StreamInv, serverVars, rowVars, Agree
  <2>5. RecoveryInv(s)'
    BY <1>1, FlagFacts, StreamAssumption
       DEF RecoveryInv, RowInv, Early, Alive, Running, TypeOK, StreamInv,
           serverVars, rowVars, Agree, Fails, Succeeds
  <2>6. OutcomeInv(s)'
    BY <1>1, FlagFacts, StreamAssumption
       DEF OutcomeInv, Agreed, WriterInv, RowInv, SettleInv, Early, Recording,
           Settling, TypeOK, StreamInv, serverVars, rowVars, Agree, Fails,
           Succeeds
  <2> QED
    BY <2>1, <2>2, <2>3, <2>4, <2>5, <2>6 DEF StreamInv
<1>4. \A t \in Stream \ {s} : Untouched(t)
  BY <1>1 DEF TypeOK, Untouched, serverVars, rowVars, Fails, Succeeds
<1> QED BY <1>2, <1>3, <1>4, OneMoves

\* A response state is saved only when it is complete with output.
LEMMA SaveSessionInv ==
    ASSUME NEW s \in Stream, Inv, SaveSession(s)
    PROVE  Inv'
<1> USE DEF SaveSession, Put, Go, SaveIfReady, ReadyToSave, Observed
<1>1. TypeOK /\ StreamInv(s) /\ local[s] \in Locals
  BY DEF Inv, TypeOK
<1>2. TypeOK'
  <2>1. fault' \in [Stream -> BOOLEAN]
    BY <1>1, FaultType
  <2>2. saved' \in [Stream -> BOOLEAN]
    BY <1>1, PutBool, Zenon DEF TypeOK
  <2> QED
    BY <1>1, AfterSaveFacts, FlagFacts, <2>1, <2>2
       DEF TypeOK, Running, Gone, serverVars, rowVars
<1>3. StreamInv(s)'
  <2>1. WriterInv(s)'
    BY <1>1, AfterSaveFacts, FlagFacts, StreamAssumption
       DEF WriterInv, RowInv, Running, TypeOK, StreamInv, serverVars, rowVars,
           Agree
  <2>2. RowInv(s)'
    BY <1>1, AfterSaveFacts, FlagFacts, StreamAssumption
       DEF RowInv, SettleInv, Early, Recording, Settling, TypeOK, StreamInv,
           serverVars, rowVars, Agree
  <2>3. SettleInv(s)'
    BY <1>1, AfterSaveFacts, FlagFacts, StreamAssumption
       DEF SettleInv, RowInv, Early, Settling, TypeOK, StreamInv, serverVars,
           rowVars, Agree
  <2>4. ActivityInv(s)'
    BY <1>1, AfterSaveFacts, FlagFacts, StreamAssumption
       DEF ActivityInv, RowInv, SettleInv, Early, Recording, Settling, Gone,
           TypeOK, StreamInv, serverVars, rowVars, Agree
  <2>5. RecoveryInv(s)'
    BY <1>1, AfterSaveFacts, FlagFacts, StreamAssumption
       DEF RecoveryInv, RowInv, Early, Alive, Running, TypeOK, StreamInv,
           serverVars, rowVars, Agree, Fails, Succeeds
  <2>6. OutcomeInv(s)'
    BY <1>1, AfterSaveFacts, FlagFacts, StreamAssumption
       DEF OutcomeInv, Agreed, WriterInv, RowInv, SettleInv, Early, Recording,
           Settling, TypeOK, StreamInv, serverVars, rowVars, Agree, Fails,
           Succeeds
  <2> QED
    BY <2>1, <2>2, <2>3, <2>4, <2>5, <2>6 DEF StreamInv
<1>4. \A t \in Stream \ {s} : Untouched(t)
  BY <1>1 DEF TypeOK, Untouched, serverVars, rowVars, Fails, Succeeds
<1> QED BY <1>2, <1>3, <1>4, OneMoves

\* finalize_rollout ends the turn and gives the lock back.
LEMMA FinalizeRolloutInv ==
    ASSUME NEW s \in Stream, Inv, FinalizeRollout(s)
    PROVE  Inv'
<1> USE DEF FinalizeRollout, Put, Go, Settled, Leave, Observed, TurnStatus
<1>1. TypeOK /\ StreamInv(s) /\ local[s] \in Locals
  BY DEF Inv, TypeOK
<1>2. TypeOK'
  <2>1. fault' \in [Stream -> BOOLEAN]
    BY <1>1, FaultType
  <2>2. writer' \in [Stream -> BOOLEAN] /\ lock' \in Stream \cup {NoStream}
    BY <1>1, WriterType
  <2> QED
    BY <1>1, BlankFacts, FlagFacts, <2>1, <2>2
       DEF TypeOK, Running, Gone, serverVars, rowVars
<1>3. StreamInv(s)'
  <2>1. WriterInv(s)'
    BY <1>1, BlankFacts, FlagFacts, StreamAssumption
       DEF WriterInv, RowInv, Running, TypeOK, StreamInv, serverVars, rowVars,
           Release, Hold, Agree
  <2>2. RowInv(s)'
    BY <1>1, BlankFacts, FlagFacts, StreamAssumption
       DEF RowInv, SettleInv, Early, Recording, Settling, TypeOK, StreamInv,
           serverVars, rowVars, Release, Hold, Agree
  <2>3. SettleInv(s)'
    BY <1>1, BlankFacts, FlagFacts, StreamAssumption
       DEF SettleInv, RowInv, Early, Settling, TypeOK, StreamInv, serverVars,
           rowVars, Release, Hold, Agree
  <2>4. ActivityInv(s)'
    BY <1>1, BlankFacts, FlagFacts, StreamAssumption
       DEF ActivityInv, RowInv, SettleInv, Early, Recording, Settling, Gone,
           TypeOK, StreamInv, serverVars, rowVars, Release, Hold, Agree
  <2>5. RecoveryInv(s)'
    BY <1>1, BlankFacts, FlagFacts, StreamAssumption
       DEF RecoveryInv, RowInv, Early, Alive, Running, TypeOK, StreamInv,
           serverVars, rowVars, Release, Hold, Agree, Fails, Succeeds
  <2>6. OutcomeInv(s)'
    BY <1>1, BlankFacts, FlagFacts, StreamAssumption
       DEF OutcomeInv, Agreed, WriterInv, RowInv, SettleInv, Early, Recording,
           Settling, TypeOK, StreamInv, serverVars, rowVars, Release, Hold,
           Agree, Fails, Succeeds
  <2> QED
    BY <2>1, <2>2, <2>3, <2>4, <2>5, <2>6 DEF StreamInv
<1>4. \A t \in Stream \ {s} : Untouched(t)
  BY <1>1, StreamAssumption
     DEF TypeOK, Untouched, serverVars, rowVars, Release, Hold, Fails, Succeeds
<1> QED BY <1>2, <1>3, <1>4, OneMoves

\* The index row, still writing, takes the status of the turn.
LEMMA CompleteRolloutInv ==
    ASSUME NEW s \in Stream, Inv, CompleteRollout(s)
    PROVE  Inv'
<1> USE DEF CompleteRollout, Put, Go, Settled, Leave, Observed
<1>1. TypeOK /\ StreamInv(s) /\ local[s] \in Locals
  BY DEF Inv, TypeOK
<1>2. TypeOK'
  <2>1. fault' \in [Stream -> BOOLEAN]
    BY <1>1, FaultType
  <2> QED
    BY <1>1, BlankFacts, FlagFacts, <2>1
       DEF TypeOK, Running, Gone, serverVars, rowVars, StreamInv, RowInv
<1>3. StreamInv(s)'
  <2>1. WriterInv(s)'
    BY <1>1, BlankFacts, FlagFacts, StreamAssumption
       DEF WriterInv, RowInv, Running, TypeOK, StreamInv, serverVars, rowVars,
           Agree
  <2>2. RowInv(s)'
    BY <1>1, BlankFacts, FlagFacts, StreamAssumption
       DEF RowInv, SettleInv, Early, Recording, Settling, TypeOK, StreamInv,
           serverVars, rowVars, Agree
  <2>3. SettleInv(s)'
    BY <1>1, BlankFacts, FlagFacts, StreamAssumption
       DEF SettleInv, RowInv, Early, Settling, TypeOK, StreamInv, serverVars,
           rowVars, Agree
  <2>4. ActivityInv(s)'
    BY <1>1, BlankFacts, FlagFacts, StreamAssumption
       DEF ActivityInv, RowInv, SettleInv, Early, Recording, Settling, Gone,
           TypeOK, StreamInv, serverVars, rowVars, Agree
  <2>5. RecoveryInv(s)'
    BY <1>1, BlankFacts, FlagFacts, StreamAssumption
       DEF RecoveryInv, RowInv, Early, Alive, Running, TypeOK, StreamInv,
           serverVars, rowVars, Agree, Fails, Succeeds
  <2>6. OutcomeInv(s)'
    BY <1>1, BlankFacts, FlagFacts, StreamAssumption
       DEF OutcomeInv, Agreed, WriterInv, RowInv, SettleInv, Early, Recording,
           Settling, TypeOK, StreamInv, serverVars, rowVars, Agree, Fails,
           Succeeds
  <2> QED
    BY <2>1, <2>2, <2>3, <2>4, <2>5, <2>6 DEF StreamInv
<1>4. \A t \in Stream \ {s} : Untouched(t)
  BY <1>1 DEF TypeOK, Untouched, serverVars, rowVars, Fails, Succeeds
<1> QED BY <1>2, <1>3, <1>4, OneMoves

\* An error item ends the task, which drops its writer; others go on.
LEMMA SendInv ==
    ASSUME NEW s \in Stream, Inv, Send(s)
    PROVE  Inv'
<1> DEFINE l == local[s]
<1>1. TypeOK /\ StreamInv(s) /\ l \in Locals
  BY DEF Inv, TypeOK
<1>2. /\ pc[s] = "send"
      /\ UNCHANGED <<serverVars, kind, complete, output, turn, rowVars, saved,
                     fault, eof>>
  BY DEF Send
<1>3. \/ l.item = "error" /\ Leave(s, "closed") /\ Release(s)
      \/ /\ l.item # "error" /\ Hold
         /\ \E m \in Locals : Go(s, "next", m) /\ Agree(m, InHand(l, "none"))
  BY <1>1, HandFacts, SentFacts DEF Send, HasRoom, Agree
<1>4. CASE l.item = "error" /\ Leave(s, "closed") /\ Release(s)
  <2> USE <1>1, <1>2, <1>4, BlankFacts DEF Leave, Go, Put, serverVars, rowVars
  <2>1. TypeOK'
    BY WriterType DEF TypeOK, Gone
  <2>2. StreamInv(s)'
    BY StreamAssumption
       DEF StreamInv, WriterInv, RowInv, SettleInv, ActivityInv, RecoveryInv,
           OutcomeInv, Agreed, Early, Recording, Settling, Running, Gone, Alive,
           Release, TypeOK
  <2>3. \A t \in Stream \ {s} : Untouched(t)
    BY StreamAssumption DEF TypeOK, Untouched, Release
  <2> QED BY <2>1, <2>2, <2>3, OneMoves
<1>5. CASE /\ l.item # "error" /\ Hold
           /\ \E m \in Locals : Go(s, "next", m) /\ Agree(m, InHand(l, "none"))
  <2>1. PICK m \in Locals : Go(s, "next", m) /\ Agree(m, InHand(l, "none"))
    BY <1>5
  <2>2. /\ m.item = "none" /\ m.inserted = l.inserted
        /\ m.failed = l.failed /\ m.settle = l.settle
    BY <1>1, <2>1, HandFacts DEF Agree
  <2> HIDE DEF l
  <2> USE <1>1, <1>2, <1>5, <2>1, <2>2 DEF Go, Put, Hold, serverVars, rowVars
  <2>3. TypeOK'
    BY DEF TypeOK, Running
  <2>4. local'[s] = m /\ pc'[s] = "next" /\ l = local[s]
    BY DEF TypeOK, l
  <2>5. WriterInv(s)' /\ RecoveryInv(s)'
    BY <2>4 DEF StreamInv, WriterInv, RecoveryInv, Running, Alive
  <2>6. RowInv(s)'
    BY <2>4 DEF StreamInv, RowInv, Early, Recording, Settling
  <2>7. SettleInv(s)'
    BY <2>4 DEF StreamInv, SettleInv, Settling
  <2>8. ActivityInv(s)'
    BY <2>4 DEF StreamInv, ActivityInv, Recording, Settling, Gone
  <2>9. OutcomeInv(s)'
    BY <2>4 DEF StreamInv, OutcomeInv, RowInv, Agreed, Recording, Settling
  <2>10. \A t \in Stream \ {s} : Untouched(t)
    BY DEF TypeOK, Untouched
  <2> QED BY <2>3, <2>5, <2>6, <2>7, <2>8, <2>9, <2>10, OneMoves DEF StreamInv
<1> QED BY <1>3, <1>4, <1>5

\* Reading the channel changes no status.
LEMMA ClientReadInv ==
    ASSUME NEW s \in Stream, Inv, ClientRead(s)
    PROVE  Inv'
<1> USE DEF ClientRead, Put, Go
<1>1. TypeOK /\ StreamInv(s) /\ local[s] \in Locals
  BY DEF Inv, TypeOK
<1>0. /\ [local[s] EXCEPT !.channel = @ - 1] \in Locals
      /\ Agree([local[s] EXCEPT !.channel = @ - 1], local[s])
  BY <1>1, StreamAssumption DEF Locals, Agree
<1>2. TypeOK'
  BY <1>1, <1>0 DEF TypeOK, Running, Gone, serverVars, rowVars
<1>3. StreamInv(s)'
  <2>1. WriterInv(s)'
    BY <1>1, <1>0, StreamAssumption
       DEF WriterInv, RowInv, Running, TypeOK, StreamInv, serverVars, rowVars,
           Agree
  <2>2. RowInv(s)'
    BY <1>1, <1>0, StreamAssumption
       DEF RowInv, SettleInv, Early, Recording, Settling, TypeOK, StreamInv,
           serverVars, rowVars, Agree
  <2>3. SettleInv(s)'
    BY <1>1, <1>0, StreamAssumption
       DEF SettleInv, RowInv, Early, Settling, TypeOK, StreamInv, serverVars,
           rowVars, Agree
  <2>4. ActivityInv(s)'
    BY <1>1, <1>0, StreamAssumption
       DEF ActivityInv, RowInv, SettleInv, Early, Recording, Settling, Gone,
           TypeOK, StreamInv, serverVars, rowVars, Agree
  <2>5. RecoveryInv(s)'
    BY <1>1, <1>0, StreamAssumption
       DEF RecoveryInv, RowInv, Early, Alive, Running, TypeOK, StreamInv,
           serverVars, rowVars, Agree
  <2>6. OutcomeInv(s)'
    BY <1>1, <1>0, StreamAssumption
       DEF OutcomeInv, Agreed, WriterInv, RowInv, SettleInv, Early, Recording,
           Settling, TypeOK, StreamInv, serverVars, rowVars, Agree
  <2> QED
    BY <2>1, <2>2, <2>3, <2>4, <2>5, <2>6 DEF StreamInv
<1>4. \A t \in Stream \ {s} : Untouched(t)
  BY <1>1 DEF TypeOK, Untouched, serverVars, rowVars
<1> QED BY <1>2, <1>3, <1>4, OneMoves

\* A dropped request future drops its writer; the task goes on.
LEMMA ClientCloseInv ==
    ASSUME NEW s \in Stream, Inv, ClientClose(s)
    PROVE  Inv'
<1> USE DEF ClientClose, Put, Go, Leave, Alive
<1>1. TypeOK /\ StreamInv(s) /\ local[s] \in Locals
  BY DEF Inv, TypeOK
<1>2. TypeOK'
  <2>1. writer' \in [Stream -> BOOLEAN] /\ lock' \in Stream \cup {NoStream}
    BY <1>1, WriterType
  <2> QED
    BY <1>1, BlankFacts, FlagFacts, <2>1
       DEF TypeOK, Running, Gone, serverVars, rowVars
<1>3. StreamInv(s)'
  <2>1. WriterInv(s)'
    BY <1>1, BlankFacts, FlagFacts, StreamAssumption
       DEF WriterInv, RowInv, Running, TypeOK, StreamInv, serverVars, rowVars,
           Release, Hold, Agree
  <2>2. RowInv(s)'
    BY <1>1, BlankFacts, FlagFacts, StreamAssumption
       DEF RowInv, SettleInv, Early, Recording, Settling, TypeOK, StreamInv,
           serverVars, rowVars, Release, Hold, Agree
  <2>3. SettleInv(s)'
    BY <1>1, BlankFacts, FlagFacts, StreamAssumption
       DEF SettleInv, RowInv, Early, Settling, TypeOK, StreamInv, serverVars,
           rowVars, Release, Hold, Agree
  <2>4. ActivityInv(s)'
    BY <1>1, BlankFacts, FlagFacts, StreamAssumption
       DEF ActivityInv, RowInv, SettleInv, Early, Recording, Settling, Gone,
           TypeOK, StreamInv, serverVars, rowVars, Release, Hold, Agree
  <2>5. RecoveryInv(s)'
    BY <1>1, BlankFacts, FlagFacts, StreamAssumption
       DEF RecoveryInv, RowInv, Early, Alive, Running, TypeOK, StreamInv,
           serverVars, rowVars, Release, Hold, Agree
  <2>6. OutcomeInv(s)'
    BY <1>1, BlankFacts, FlagFacts, StreamAssumption
       DEF OutcomeInv, Agreed, WriterInv, RowInv, SettleInv, Early, Recording,
           Settling, TypeOK, StreamInv, serverVars, rowVars, Release, Hold,
           Agree
  <2> QED
    BY <2>1, <2>2, <2>3, <2>4, <2>5, <2>6 DEF StreamInv
<1>4. \A t \in Stream \ {s} : Untouched(t)
  BY <1>1, StreamAssumption
     DEF TypeOK, Untouched, serverVars, rowVars, Release, Hold
<1> QED BY <1>2, <1>3, <1>4, OneMoves

-----------------------------------------------------------------------------
(* The process: crash, restart, recovery.                                    *)

\* A crash loses every stream at work and frees the lock.
LEMMA CrashInv ==
    ASSUME Inv, Crash
    PROVE  Inv'
<1> USE BlankFacts DEF Crash, rowVars
<1>1. TypeOK
  BY DEF Inv
<1>2. TypeOK'
  BY <1>1, StreamAssumption DEF TypeOK, Gone
<1>3. ASSUME NEW t \in Stream PROVE StreamInv(t)'
  <2>1. StreamInv(t)
    BY DEF Inv
  <2>2. /\ local'[t] = Blank /\ ~writer'[t]
        /\ pc'[t] = IF Alive(t) THEN "lost" ELSE pc[t]
    OBVIOUS
  <2>3. WriterInv(t)'
    BY <2>2, StreamAssumption DEF WriterInv, Alive, Running
  <2>4. RowInv(t)'
    BY <2>1, <2>2
       DEF StreamInv, RowInv, Early, Recording, Settling, Alive, Running
  <2>5. SettleInv(t)'
    BY <2>1, <2>2 DEF StreamInv, SettleInv, Settling, Alive, Running
  <2>6. ActivityInv(t)'
    BY <1>1, <2>1, <2>2
       DEF StreamInv, ActivityInv, Recording, Settling, Gone, Alive, Running
  <2>7. RecoveryInv(t)'
    BY <2>2 DEF RecoveryInv, Alive, Running
  <2>8. OutcomeInv(t)'
    BY <2>1, <2>2
       DEF StreamInv, OutcomeInv, RowInv, Agreed, Early, Recording, Settling, Alive,
           Running
  <2> QED BY <2>3, <2>4, <2>5, <2>6, <2>7, <2>8 DEF StreamInv
<1> QED BY <1>2, <1>3 DEF Inv

\* Steps of the process that touch no stream and no row.
LEMMA ProcessStep ==
    ASSUME Inv, TypeOK', \A t \in Stream : RecoveryInv(t)',
           \A t \in Stream : fault'[t] \/ fault'[t] = fault[t],
           UNCHANGED <<lock, kind, pc, writer, local, complete, output, turn,
                       activity, rollout, saved, eof>>
    PROVE  Inv'
<1>1. ASSUME NEW t \in Stream PROVE StreamInv(t)'
  BY DEF Inv, StreamInv, WriterInv, RowInv, SettleInv, ActivityInv, OutcomeInv,
         Agreed
<1> QED BY <1>1 DEF Inv

\* The recovery starts with exactly the rows still writing.
LEMMA RestartInv ==
    ASSUME Inv, Restart
    PROVE  Inv'
<1> USE DEF Restart, list_writing_rollouts, rowVars
<1>1. TypeOK'
  BY DEF Inv, TypeOK
<1>2. \A t \in Stream : RecoveryInv(t)'
  BY DEF Inv, StreamInv, RecoveryInv, Alive
<1>3. UNCHANGED fault
  OBVIOUS
<1> QED BY <1>1, <1>2, <1>3, ProcessStep

\* The listener opens once nothing is left to recover.
LEMMA ServeInv ==
    ASSUME Inv, Serve
    PROVE  Inv'
<1> USE DEF Serve, rowVars
<1>1. TypeOK'
  BY DEF Inv, TypeOK
<1>2. \A t \in Stream : RecoveryInv(t)'
  BY DEF Inv, StreamInv, RecoveryInv, Alive
<1>3. UNCHANGED fault
  OBVIOUS
<1> QED BY <1>1, <1>2, <1>3, ProcessStep

\* An aborted recovery leaves its rows behind, marked as faulty.
LEMMA RecoverAbortInv ==
    ASSUME NEW s \in Stream, Inv, RecoverAbort(s)
    PROVE  Inv'
<1> USE DEF RecoverAbort, rowVars
<1>1. TypeOK
  BY DEF Inv
<1>2. fault' \in [Stream -> BOOLEAN]
  <2>1. \A x \in Stream : (fault[x] \/ x \in recoverTodo) \in BOOLEAN
    OBVIOUS
  <2> QED BY <2>1, Zenon
<1>3. TypeOK'
  BY <1>1, <1>2 DEF TypeOK
<1>4. \A t \in Stream : RecoveryInv(t)'
  BY DEF Inv, StreamInv, RecoveryInv, Alive
<1>5. \A t \in Stream : fault'[t] \/ fault'[t] = fault[t]
  BY <1>1 DEF TypeOK
<1> QED BY <1>3, <1>4, <1>5, ProcessStep

\* The recovery settles a row whose stream is gone.
LEMMA RecoverRowInv ==
    ASSUME NEW s \in Stream, Inv, RecoverRow(s)
    PROVE  Inv'
<1> USE DEF RecoverRow, Put
<1>1. TypeOK /\ StreamInv(s)
  BY DEF Inv
<1>2. TypeOK'
  BY <1>1 DEF TypeOK, ErrorCode
<1>3. pc[s] \notin Running \cup Early \cup Recording \cup {"rejected", "unrecorded"}
  BY <1>1 DEF StreamInv, RecoveryInv, RowInv, Alive, Early, Recording, Settling,
              Running
<1>4. StreamInv(s)'
  <2>1. WriterInv(s)'
    BY <1>1 DEF StreamInv, WriterInv
  <2>2. RowInv(s)'
    BY <1>1, <1>3 DEF StreamInv, RowInv, TypeOK, Running, Recording, Settling
  <2>3. SettleInv(s)'
    BY <1>1 DEF StreamInv, SettleInv
  <2>4. ActivityInv(s)'
    BY <1>1, <1>3 DEF StreamInv, ActivityInv, TypeOK, Recording, Settling
  <2>5. RecoveryInv(s)'
    BY <1>1 DEF StreamInv, RecoveryInv, Alive, TypeOK
  <2>6. OutcomeInv(s)'
    BY <1>1, <1>3
       DEF StreamInv, OutcomeInv, RecoveryInv, Agreed, TypeOK, Running, Recording,
           Settling
  <2> QED BY <2>1, <2>2, <2>3, <2>4, <2>5, <2>6 DEF StreamInv
<1>5. ASSUME NEW t \in Stream, t # s PROVE StreamInv(t)'
  <2>1. StreamInv(t)
    BY DEF Inv
  <2>2. rollout'[t] = rollout[t] /\ activity'[t] = activity[t]
    BY <1>1, <1>5 DEF TypeOK
  <2> QED
    BY <1>5, <2>1, <2>2
       DEF StreamInv, WriterInv, RowInv, SettleInv, ActivityInv,
                      RecoveryInv, OutcomeInv, Agreed, Alive
<1> QED BY <1>2, <1>4, <1>5 DEF Inv

-----------------------------------------------------------------------------
\* Initially no stream has begun.
LEMMA InitInv == Init => Inv
<1> SUFFICES ASSUME Init PROVE Inv
  OBVIOUS
<1> USE StreamAssumption, BlankFacts DEF Init
<1>1. TypeOK
  BY DEF TypeOK, ErrorCode
<1>2. ASSUME NEW s \in Stream PROVE StreamInv(s)
  BY DEF StreamInv, WriterInv, RowInv, SettleInv, ActivityInv, RecoveryInv,
         OutcomeInv, Alive, Early, Recording, Settling, Running, Gone
<1> QED BY <1>1, <1>2 DEF Inv

\* Every step of a stream's own code preserves the invariant.
LEMMA WorkInv ==
    ASSUME NEW s \in Stream, Inv, Work(s)
    PROVE  Inv'
BY WriteCompletedInv, InsertCompletedInv, FirstEndInv, InsertEmptyInv,
   StartStreamInv, FirstItemInv, ObserveInv, RecordFinalUsageInv, SaveSessionInv,
   UpdateRowInv, FinalizeRolloutInv, MarkIncompleteInv, CompleteRolloutInv,
   SendInv, NextEndInv, DrainTimeoutInv, NextItemInv, StreamEndInv,
   EndSessionInv, DisconnectInv
   DEF Work

\* The invariant is inductive.
LEMMA NextInv == Inv /\ [Next]_vars => Inv'
<1> SUFFICES ASSUME Inv, [Next]_vars PROVE Inv'
  OBVIOUS
<1>1. CASE UNCHANGED vars
  BY <1>1
     DEF vars, serverVars, rowVars, Inv, TypeOK, StreamInv, WriterInv, RowInv,
              SettleInv, ActivityInv, RecoveryInv, OutcomeInv, Agreed, Alive
<1>2. CASE Next
  BY <1>2, WorkInv, ArriveInv, BeginInv, ClientReadInv, ClientCloseInv,
     CrashInv,
     RestartInv, RecoverRowInv, RecoverAbortInv, ServeInv
     DEF Next
<1> QED BY <1>1, <1>2

\* What is known of a stream at each point of its code holds in every reachable
\* state, whatever the interleaving, the failures and the crashes.
THEOREM Invariance == Spec => []Inv
BY InitInv, NextInv, PTL DEF Spec

\* Every variable keeps its type.
THEOREM TypeCorrect == Spec => []TypeOK
<1>1. Inv => TypeOK
  BY DEF Inv
<1> QED BY <1>1, Invariance, PTL

\* The thread's lock is held exactly by the owner of a writer, which is still at
\* work on an open turn.
THEOREM LockDiscipline == Spec => []LockHeldByOpenTurn
<1>1. Inv => LockHeldByOpenTurn
  BY DEF Inv, StreamInv, WriterInv, LockHeldByOpenTurn, Alive
<1> QED BY <1>1, Invariance, PTL

\* No activity is shown as successful unless the upstream delivered a completion
\* event and ended with the client still served.
THEOREM SuccessEarned == Spec => []SuccessIsEarned
<1>1. Inv => SuccessIsEarned
  BY DEF Inv, StreamInv, ActivityInv, SuccessIsEarned
<1> QED BY <1>1, Invariance, PTL

\* A saved response state is a complete answer with output, and its row exists.
THEOREM SavedComplete == Spec => []SavedIsComplete
<1>1. Inv => SavedIsComplete
  BY DEF Inv, StreamInv, ActivityInv, SavedIsComplete
<1> QED BY <1>1, Invariance, PTL

\* A request refused with an error has left no row.
THEOREM RefusedCleanly == Spec => []RefusedLeavesNoRow
<1>1. Inv => RefusedLeavesNoRow
  BY DEF Inv, StreamInv, RowInv, RefusedLeavesNoRow
<1> QED BY <1>1, Invariance, PTL

\* Once a stream is over, or its recovery is, and unless one of its operations
\* failed, the activity row, the turn and the rollout index row agree.
THEOREM OutcomesAgree == Spec => []SettledTogether
<1>1. Inv => SettledTogether
  BY DEF Inv, StreamInv, OutcomeInv, RecoveryInv, SettledTogether
<1> QED BY <1>1, Invariance, PTL

-----------------------------------------------------------------------------
(* What no step does.                                                        *)

KeepsOutcome(s) ==
    /\ rollout[s] \in {"completed", "failed", "partial"} => rollout'[s] = rollout[s]
    /\ activity[s] = "failed" => activity'[s] = "failed"

\* The steps that write a row never rewrite a settled outcome.
LEMMA WriteKeeps ==
    ASSUME NEW s \in Stream, Inv,
           \/ InsertCompleted(s) \/ InsertEmpty(s) \/ StartStream(s) \/ UpdateRow(s)
           \/ MarkIncomplete(s) \/ CompleteRollout(s) \/ RecoverRow(s)
    PROVE  \A t \in Stream : KeepsOutcome(t)
<1>1. TypeOK /\ StreamInv(s)
  BY DEF Inv
<1>2. KeepsOutcome(s)
  BY <1>1
     DEF TypeOK, StreamInv, RowInv, SettleInv, ActivityInv, RecoveryInv, Early,
         Recording, Settling, KeepsOutcome, Put, rowVars, InsertRows,
         Rollback, InsertCompleted, InsertEmpty,
         StartStream, UpdateRow, MarkIncomplete, CompleteRollout,
         RecoverRow
<1>3. ASSUME NEW t \in Stream, t # s PROVE KeepsOutcome(t)
  BY <1>1, <1>3
     DEF TypeOK, KeepsOutcome, Put, rowVars, InsertRows, Rollback,
         InsertCompleted, InsertEmpty,
         StartStream, UpdateRow, MarkIncomplete, CompleteRollout, RecoverRow
<1> QED BY <1>2, <1>3

\* Steps that write no row trivially keep it.
LEMMA OthersKeep ==
    ASSUME Inv, UNCHANGED <<activity, rollout>>
    PROVE  \A t \in Stream : KeepsOutcome(t)
BY DEF KeepsOutcome

\* Hence no step rewrites a settled outcome.
LEMMA NextKeeps ==
    ASSUME Inv, [Next]_vars
    PROVE  \A t \in Stream : KeepsOutcome(t)
<1>1. CASE UNCHANGED vars
  BY <1>1, OthersKeep DEF vars, rowVars
<1>2. ASSUME NEW s \in Stream, Work(s) PROVE \A t \in Stream : KeepsOutcome(t)
  <2>1. \/ InsertCompleted(s) \/ InsertEmpty(s) \/ StartStream(s) \/ UpdateRow(s)
        \/ MarkIncomplete(s) \/ CompleteRollout(s)
        \/ UNCHANGED <<activity, rollout>>
    BY <1>2
       DEF Work, rowVars, WriteCompleted, FirstEnd, FirstItem, Observe,
           RecordFinalUsage, SaveSession, FinalizeRollout, Send, NextEnd,
           DrainTimeout, NextItem, StreamEnd, EndSession, Disconnect
  <2> QED BY <2>1, WriteKeeps, OthersKeep
<1>3. ASSUME NEW s \in Stream,
             Arrive(s) \/ Begin(s) \/ ClientRead(s) \/ ClientClose(s)
             \/ RecoverAbort(s)
      PROVE  UNCHANGED <<activity, rollout>>
  BY <1>3 DEF Arrive, Begin, ClientRead, ClientClose, RecoverAbort, rowVars
<1>4. CASE Crash \/ Restart \/ Serve
  BY <1>4, OthersKeep DEF Crash, Restart, Serve, rowVars
<1>5. CASE Next
  BY <1>2, <1>3, <1>4, <1>5, WriteKeeps, OthersKeep DEF Next
<1> QED BY <1>1, <1>5

\* A settled rollout index row is never rewritten, and a failed activity never
\* turns into a successful or a running one, recovery included.
THEOREM OutcomesFinal == Spec => SettledIsFinal
<1>1. ASSUME Inv, [Next]_vars
      PROVE  [\A s \in Stream :
                /\ rollout[s] \in {"completed", "failed", "partial"}
                     => rollout'[s] = rollout[s]
                /\ activity[s] = "failed" => activity'[s] = "failed"]_vars
  BY <1>1, NextKeeps DEF KeepsOutcome
<1> QED BY <1>1, Invariance, PTL DEF Spec, SettledIsFinal

=============================================================================
