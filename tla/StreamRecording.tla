-------------------------- MODULE StreamRecording --------------------------
(***************************************************************************)
(* How an answered request becomes an activity record.                     *)
(*                                                                         *)
(* Each Stream below is one answered request.  Its request future opens a  *)
(* turn in the rollout file of its thread (taking the thread's lock),      *)
(* waits for the first item, inserts the activity row and the rollout      *)
(* index row in one transaction, and spawns the forwarding task, which     *)
(* pulls items from the upstream, observes them, hands them to the client  *)
(* through a bounded channel and at the end settles three things that are  *)
(* not updated together: the activity row, the turn in the file and the    *)
(* rollout index row.  A "completed" request (not streamed) writes the     *)
(* file first and then inserts both rows already settled.                  *)
(*                                                                         *)
(* An action is what happens between two awaits.  The request future is    *)
(* dropped when its client goes away; the forwarding task is not.  The     *)
(* process may crash between any two steps; at startup every rollout index *)
(* row still `writing' is recovered.  All streams here are turns of one    *)
(* thread, so they share its lock; RolloutThread models the file itself.   *)
(***************************************************************************)
EXTENDS Naturals, FiniteSets

\* record_stream_with_rollout, record_first_chunk_with_rollout,
\* record_first_chunk_with_rollout_best_effort, ActivityStore::record_completed
Kind == {"responses", "raw", "best_effort", "completed"}

CONSTANTS
    Stream,      \* answered requests, each one turn of the same thread
    NoStream,    \* the thread's lock is free
    Capacity,    \* RECORDED_STREAM_CHANNEL_CAPACITY (16)
    MaxItems,    \* bound: items an upstream yields before it ends or fails
    MaxCrashes,  \* bound: crashes in a behaviour
    Faulty,      \* streams whose database and file operations may fail
    Kinds        \* entry points in use, among the four above

ASSUME StreamAssumption ==
    /\ NoStream \notin Stream
    /\ Capacity \in Nat \ {0}
    /\ MaxItems \in Nat \ {0}
    /\ MaxCrashes \in Nat
    /\ Faulty \subseteq Stream
    /\ Kinds \subseteq Kind

VARIABLES
    process,      \* "up", "down" or "recovering"
    crashes,      \* crashes so far, capped by MaxCrashes
    recoverTodo,  \* rollouts list_writing_rollouts returned, not yet recovered
    lock,         \* the stream whose writer holds the thread's lock
    kind,         \* which entry point records the stream
    pc,           \* where the stream's code stands
    writer,       \* its state still owns the RolloutWriter
    local,        \* its other locals (see Blank)
    complete,     \* stats and captures: a completion event was observed
    output,       \* ... and it carried output items
    turn,         \* durable: the stream's turn in the rollout file
    activity,     \* durable: identity_activities.status
    errorCode,    \* durable: identity_activities.error_code
    rollout,      \* durable: activity_rollouts.status
    saved,        \* durable: the response state row exists
    fault,        \* history: an operation of the stream has failed
    eof           \* history: the upstream ended and the client was still there

serverVars == <<process, crashes, recoverTodo>>
rowVars == <<activity, errorCode, rollout>>
vars == <<serverVars, lock, kind, pc, writer, local, complete, output, turn,
          rowVars, saved, fault, eof>>

-----------------------------------------------------------------------------
Required(s) == kind[s] # "best_effort"

\* Items: a chunk, a completion event with or without output items, an error.
Item == {"chunk", "final", "hollow", "error"}

\* Where the code of a stream in progress can stand.
Running == {"waiting", "first", "write", "insert_done", "empty_insert", "insert",
            "observe", "usage", "session", "update", "finalize", "incomplete",
            "complete", "send", "next", "end", "end_session", "disconnect"}

\* Ended; refused with an error; forwarded without a record; dropped with the
\* request future; lost in a crash.
Gone == {"closed", "rejected", "unrecorded", "cancelled", "lost"}

Alive(s) == pc[s] \in Running

\* The locals of a stream: the item in hand; the items pulled so far (capped by
\* MaxItems); the flags of StreamRecordState and append_failed; the outcome
\* being recorded; whether the client was found gone (sender = None,
\* drain_deadline set); whether the task runs; whether the client still holds
\* the receiving end; the items in the channel.
Blank == [item |-> "none", pulled |-> 0, inserted |-> FALSE, failed |-> FALSE,
          usage_recorded |-> FALSE, session |-> FALSE, append_failed |-> FALSE,
          settle |-> "none", draining |-> FALSE, spawned |-> FALSE,
          client |-> TRUE, channel |-> 0]

\* start: both rows are inserted; with an error item the stream has failed.
Started(l) == [l EXCEPT !.inserted = TRUE, !.failed = (l.item = "error")]

NotStarted(l) == [l EXCEPT !.failed = TRUE]

\* record_stream_error and record_downstream_disconnect drop the session.
Failing(l, code) == [l EXCEPT !.failed = TRUE, !.session = FALSE, !.settle = code]

\* The outcome to record is known.
Concluding(l, code) == [l EXCEPT !.settle = code]

InHand(l, i) == [l EXCEPT !.item = i]

\* An item is pulled; errors are not counted.
Pulled(l, i) == IF i = "error" THEN InHand(l, i)
                               ELSE [InHand(l, i) EXCEPT !.pulled = @ + 1]

\* The item in hand went into the channel; it met a closed channel.
Delivered(l) == [InHand(l, "none") EXCEPT !.channel = @ + 1]
Stranded(l) == [InHand(l, "none") EXCEPT !.draining = TRUE]

\* Single flags of the state: the task owns it, the final usage is written, a
\* content event could not be appended.
Spawned(l) == [l EXCEPT !.spawned = TRUE]
UsageRecorded(l) == [l EXCEPT !.usage_recorded = TRUE]
AppendFailed(l) == [l EXCEPT !.append_failed = TRUE]

\* The receiving end is dropped with what it had not read.
Closed(l) == [l EXCEPT !.client = FALSE, !.channel = 0]

Put(f, s, v) == [f EXCEPT ![s] = v]

\* The code of s moves on with these locals.
Go(s, where, l) == /\ pc' = Put(pc, s, where)
                   /\ local' = Put(local, s, l)

\* The code of s is over: its locals are dropped.
Leave(s, how) == Go(s, how, Blank)

\* An operation on the database or the file fails: only faulty streams.
Fails(s) == /\ s \in Faulty
            /\ fault' = Put(fault, s, TRUE)

Succeeds == UNCHANGED fault

\* Mutants of Release: the guard is forgotten; the writer goes without it; the
\* lock goes without the writer.
ReleaseForgotten(s) == UNCHANGED <<writer, lock>>

ReleaseWriterOnly(s) == /\ writer' = Put(writer, s, FALSE)
                        /\ UNCHANGED lock

ReleaseLockOnly(s) == /\ lock' = IF lock = s THEN NoStream ELSE lock
                      /\ UNCHANGED writer

\* The writer is dropped, or finish_with gives its lock guard back.
Release(s) == /\ writer' = Put(writer, s, FALSE)
              /\ lock' = IF lock = s THEN NoStream ELSE lock

Hold == UNCHANGED <<writer, lock>>

\* A transaction that inserts both rows of s, and one that is rolled back.
InsertRows(s, status, code, rolloutStatus) ==
    /\ activity' = Put(activity, s, status)
    /\ errorCode' = Put(errorCode, s, code)
    /\ rollout' = Put(rollout, s, rolloutStatus)

\* Mutant: the activity row was inserted outside the transaction.
RollbackOfHalf(s) == /\ Fails(s)
                     /\ activity' = Put(activity, s, "streaming")
                     /\ UNCHANGED <<errorCode, rollout>>

Rollback(s) == /\ Fails(s)
               /\ UNCHANGED rowVars

Init ==
    /\ process = "up"
    /\ crashes = 0
    /\ recoverTodo = {}
    /\ lock = NoStream
    /\ kind \in [Stream -> Kinds]
    /\ pc = [s \in Stream |-> "idle"]
    /\ writer = [s \in Stream |-> FALSE]
    /\ local = [s \in Stream |-> Blank]
    /\ complete = [s \in Stream |-> FALSE]
    /\ output = [s \in Stream |-> FALSE]
    /\ turn = [s \in Stream |-> "none"]
    /\ activity = [s \in Stream |-> "none"]
    /\ errorCode = [s \in Stream |-> "none"]
    /\ rollout = [s \in Stream |-> "none"]
    /\ saved = [s \in Stream |-> FALSE]
    /\ fault = [s \in Stream |-> FALSE]
    /\ eof = [s \in Stream |-> FALSE]

-----------------------------------------------------------------------------
(* The request future: begin_stream / record_completed.                      *)

\* Only record_stream_with_rollout is given a StreamSession.
Arrive(s) ==
    /\ process = "up"
    /\ pc[s] = "idle"
    /\ Go(s, "waiting", [Blank EXCEPT !.session = (kind[s] = "responses")])
    /\ UNCHANGED <<serverVars, lock, kind, writer, complete, output, turn,
                   rowVars, saved, fault, eof>>

\* RolloutStore::begin: the thread's lock, then the turn's opening lines.
Begin(s) ==
    /\ pc[s] = "waiting"
    /\ lock = NoStream
    /\ \/ /\ Succeeds
          /\ lock' = s
          /\ writer' = Put(writer, s, TRUE)
          /\ turn' = Put(turn, s, "open")
          /\ Go(s, IF kind[s] = "completed" THEN "write" ELSE "first", local[s])
       \/ /\ Fails(s)
          /\ Hold
          /\ turn' \in {turn, Put(turn, s, "open")}
          /\ Leave(s, IF Required(s) THEN "rejected" ELSE "unrecorded")
    /\ UNCHANGED <<serverVars, kind, complete, output, rowVars, saved, eof>>

\* record_completed: the response's events and turn_end, without an await; the
\* activity's own outcome is the caller's.  When writing fails the turn_end line
\* may or may not be in the file.
WriteCompleted(s) ==
    /\ pc[s] = "write"
    /\ \/ /\ Succeeds
          /\ \E status \in {"completed", "failed"} : turn' = Put(turn, s, status)
          /\ Go(s, "insert_done", local[s])
       \/ /\ Fails(s)
          /\ turn' \in {turn, Put(turn, s, "completed"), Put(turn, s, "failed")}
          /\ Leave(s, "rejected")
    /\ Release(s)
    /\ UNCHANGED <<serverVars, kind, complete, output, rowVars, saved, eof>>

\* insert_activity_with_rollout: both rows in one transaction, already settled.
InsertCompleted(s) ==
    /\ pc[s] = "insert_done"
    /\ \/ /\ Succeeds
          /\ InsertRows(s, IF turn[s] = "completed" THEN "success" ELSE "failed",
                        "none", turn[s])
          /\ Leave(s, "closed")
       \/ /\ Rollback(s)
          /\ Leave(s, "rejected")
    /\ UNCHANGED <<serverVars, lock, kind, writer, complete, output, turn, saved,
                   eof>>

-----------------------------------------------------------------------------
(* The request future: prepare_stream_with_log_id.                           *)

\* An item arrives; decoders and captures note a completion event in it.
TakeItem(s, i, where) ==
    /\ local[s].pulled < MaxItems \/ i = "error"
    /\ Go(s, where, Pulled(local[s], i))
    /\ complete' = Put(complete, s, complete[s] \/ i \in {"final", "hollow"})
    /\ output' = Put(output, s, output[s] \/ i = "final")

FirstItem(s, i) ==
    /\ pc[s] = "first"
    /\ TakeItem(s, i, "insert")
    /\ UNCHANGED <<serverVars, lock, kind, writer, turn, rowVars, saved, fault,
                   eof>>

\* record_empty_stream up to its insert: an error event and turn_end.
FirstEnd(s) ==
    /\ pc[s] = "first"
    /\ \/ /\ Succeeds
          /\ turn' = Put(turn, s, "failed")
          /\ Go(s, "empty_insert", local[s])
       \/ /\ Fails(s)
          /\ turn' \in {turn, Put(turn, s, "failed")}
          /\ Leave(s, IF Required(s) THEN "rejected" ELSE "closed")
    /\ Release(s)
    /\ UNCHANGED <<serverVars, kind, complete, output, rowVars, saved, eof>>

InsertEmpty(s) ==
    /\ pc[s] = "empty_insert"
    /\ \/ /\ Succeeds
          /\ InsertRows(s, "failed", "empty_stream", "failed")
          /\ Leave(s, "closed")
       \/ /\ Rollback(s)
          /\ Leave(s, IF Required(s) THEN "rejected" ELSE "closed")
    /\ UNCHANGED <<serverVars, lock, kind, writer, complete, output, turn, saved,
                   eof>>

\* StreamRecordState::start: both rows in one transaction.
StartStream(s) ==
    /\ pc[s] = "insert"
    /\ \/ /\ Succeeds
          /\ IF local[s].item = "error"
               THEN InsertRows(s, "failed", "stream_error", "writing")
               ELSE InsertRows(s, "streaming", "none", "writing")
          /\ Go(s, "observe", Started(local[s]))
          /\ Hold
       \/ /\ Rollback(s)
          /\ Required(s)
          /\ Release(s)
          /\ Leave(s, "rejected")
       \/ /\ Rollback(s)
          /\ ~Required(s)
          /\ Go(s, "observe", NotStarted(local[s]))
          /\ Hold
    /\ UNCHANGED <<serverVars, kind, complete, output, turn, saved, eof>>

-----------------------------------------------------------------------------
(* observe_item, run by the request future for the first item and by the     *)
(* task for the others.                                                      *)

\* observe_item has returned: the request future spawns the task, the task
\* sends the item.
Observed(s, l) == Go(s, "send", Spawned(l))

\* record_stream_error and record_downstream_disconnect, up to their update.
Fail(s, code) == Go(s, "update", Failing(local[s], code))

Observe(s) ==
    /\ pc[s] = "observe"
    /\ LET l == local[s]
       IN \/ /\ l.inserted /\ l.item = "error" /\ l.failed
             /\ Go(s, "finalize", Concluding(l, "stream_error"))
          \/ /\ l.inserted /\ l.item = "error" /\ ~l.failed
             /\ Fail(s, "stream_error")
          \/ /\ l.inserted /\ l.item # "error" /\ ~l.failed
             /\ Go(s, "usage", l)
          \/ /\ ~l.inserted \/ (l.item # "error" /\ l.failed)
             /\ Observed(s, l)
    /\ UNCHANGED <<serverVars, lock, kind, writer, complete, output, turn, rowVars,
                   saved, fault, eof>>

\* record_final_usage: the final usage is written once, status untouched.  Only
\* "responses" streams carry stats.
RecordFinalUsage(s) ==
    /\ pc[s] = "usage"
    /\ LET due == /\ ~local[s].usage_recorded
                  /\ kind[s] = "responses"
                  /\ complete[s]
       IN \/ /\ due
             /\ Succeeds \/ Fails(s)
             /\ Go(s, "session", UsageRecorded(local[s]))
          \/ /\ ~due
             /\ Succeeds
             /\ Go(s, "session", local[s])
    /\ UNCHANGED <<serverVars, lock, kind, writer, complete, output, turn, rowVars,
                   saved, eof>>

\* Mutant: the response state is saved without looking at its output.
ReadyWithoutOutput(s) == local[s].session /\ complete[s]

\* save_stream_state_if_ready: the session is consumed whether or not the
\* upsert succeeds; a completion without output items discards it.
ReadyToSave(s) == local[s].session /\ complete[s] /\ output[s]

SaveIfReady(s) ==
    \/ /\ ReadyToSave(s)
       /\ \/ Succeeds /\ saved' = Put(saved, s, TRUE)
          \/ Fails(s) /\ UNCHANGED saved
    \/ /\ ~ReadyToSave(s)
       /\ Succeeds
       /\ UNCHANGED saved

AfterSave(s) == [local[s] EXCEPT !.session = @ /\ ~complete[s]]

SaveSession(s) ==
    /\ pc[s] = "session"
    /\ SaveIfReady(s)
    /\ Observed(s, AfterSave(s))
    /\ UNCHANGED <<serverVars, lock, kind, writer, complete, output, turn, rowVars,
                   eof>>

-----------------------------------------------------------------------------
(* Settling: update_stream_log, finalize_rollout, complete_stream.           *)

\* update_stream_log: a failure is only logged.
UpdateRow(s) ==
    /\ pc[s] = "update"
    /\ \/ /\ Succeeds
          /\ local[s].settle = "success"
          /\ activity' = Put(activity, s, "success")
          /\ errorCode' = Put(errorCode, s, "none")
       \/ /\ Succeeds
          /\ local[s].settle # "success"
          /\ activity' = Put(activity, s, "failed")
          /\ errorCode' = Put(errorCode, s, local[s].settle)
       \/ /\ Fails(s)
          /\ UNCHANGED <<activity, errorCode>>
    /\ Go(s, "finalize", local[s])
    /\ UNCHANGED <<serverVars, lock, kind, writer, complete, output, turn, rollout,
                   saved, eof>>

\* After settling, observe_item returns when an error item is in hand; the task
\* ends otherwise.
Settled(s) == IF local[s].item = "error" THEN Observed(s, local[s])
                                         ELSE Leave(s, "closed")

\* Mutant: the outcome of the stream is not consulted.
TurnStatusOfAppends(s, append_failed) ==
    IF append_failed THEN "partial" ELSE "completed"

\* final_rollout_status: an append failure downgrades completed to partial.
TurnStatus(s, append_failed) ==
    IF local[s].settle # "success" THEN "failed"
    ELSE IF append_failed THEN "partial" ELSE "completed"

\* finalize_rollout up to its first await: content events, then turn_end.  When
\* finish_with fails the turn_end line may or may not be in the file, and the
\* index row stays writing.
FinalizeRollout(s) ==
    /\ pc[s] = "finalize"
    /\ \/ /\ ~writer[s]
          /\ Succeeds
          /\ Settled(s)
          /\ UNCHANGED turn
       \/ /\ writer[s]
          /\ Succeeds
          /\ turn' = Put(turn, s, TurnStatus(s, FALSE))
          /\ IF local[s].inserted THEN Go(s, "complete", local[s]) ELSE Settled(s)
       \/ /\ writer[s]
          /\ Fails(s)
          /\ turn' = Put(turn, s, TurnStatus(s, TRUE))
          /\ IF local[s].inserted
               THEN Go(s, "incomplete", AppendFailed(local[s]))
               ELSE Settled(s)
       \/ /\ writer[s]
          /\ Fails(s)
          /\ turn' \in {turn} \cup
                        {Put(turn, s, TurnStatus(s, af)) : af \in BOOLEAN}
          /\ Settled(s)
    /\ Release(s)
    /\ UNCHANGED <<serverVars, kind, complete, output, rowVars, saved, eof>>

MarkIncomplete(s) ==
    /\ pc[s] = "incomplete"
    /\ \/ /\ Succeeds
          /\ activity' = Put(activity, s, "failed")
          /\ errorCode' = Put(errorCode, s, "activity_rollout_incomplete")
       \/ /\ Fails(s)
          /\ UNCHANGED <<activity, errorCode>>
    /\ Go(s, "complete", local[s])
    /\ UNCHANGED <<serverVars, lock, kind, writer, complete, output, turn, rollout,
                   saved, eof>>

\* complete_activity_rollout; the row takes the status of the turn written.
CompleteRollout(s) ==
    /\ pc[s] = "complete"
    /\ \/ Succeeds /\ rollout' = Put(rollout, s, turn[s])
       \/ Fails(s) /\ UNCHANGED rollout
    /\ Settled(s)
    /\ UNCHANGED <<serverVars, lock, kind, writer, complete, output, turn,
                   activity, errorCode, saved, eof>>

-----------------------------------------------------------------------------
(* The task: forward_recorded_stream.                                        *)

\* Mutant: off by one.
HasRoomForOneMore(l) == l.channel <= Capacity

\* The channel is bounded.
HasRoom(l) == l.channel < Capacity

\* The send completes, or fails because the client is gone, which starts the
\* drain window; while draining there is no sender.  A full channel blocks.
\* After an error item the task returns.
Send(s) ==
    /\ pc[s] = "send"
    /\ LET l == local[s]
           after(m) == IF l.item = "error"
                         THEN Leave(s, "closed") /\ Release(s)
                         ELSE Go(s, "next", m) /\ Hold
       IN \/ /\ ~l.draining /\ l.client /\ HasRoom(l)
             /\ after(Delivered(l))
          \/ /\ ~l.draining /\ ~l.client
             /\ after(Stranded(l))
          \/ /\ l.draining
             /\ after(InHand(l, "none"))
    /\ UNCHANGED <<serverVars, kind, complete, output, turn, rowVars, saved, fault,
                   eof>>

NextItem(s, i) ==
    /\ pc[s] = "next"
    /\ TakeItem(s, i, "observe")
    /\ UNCHANGED <<serverVars, lock, kind, writer, turn, rowVars, saved, fault,
                   eof>>

\* The upstream ends: a stream whose client is gone counts as disconnected.
NextEnd(s) ==
    /\ pc[s] = "next"
    /\ Go(s, IF local[s].draining THEN "disconnect" ELSE "end", local[s])
    /\ eof' = Put(eof, s, ~local[s].draining)
    /\ UNCHANGED <<serverVars, lock, kind, writer, complete, output, turn, rowVars,
                   saved, fault>>

\* DOWNSTREAM_DRAIN_TIMEOUT passes while the task waits for the next item.
DrainTimeout(s) ==
    /\ pc[s] = "next"
    /\ local[s].draining
    /\ Go(s, "disconnect", local[s])
    /\ UNCHANGED <<serverVars, lock, kind, writer, complete, output, turn, rowVars,
                   saved, fault, eof>>

\* Mutant: the end of the stream is taken for its completion.
stream_completed_at_end(s) == TRUE

stream_completed(s) == complete[s]

\* record_stream_end up to its first await.
StreamEnd(s) ==
    /\ pc[s] = "end"
    /\ LET l == local[s]
       IN \/ /\ ~l.inserted
             /\ Release(s)
             /\ Leave(s, "closed")
          \/ /\ l.inserted /\ l.failed
             /\ Hold
             /\ Go(s, "finalize", Concluding(l, "stream_error"))
          \/ /\ l.inserted /\ ~l.failed /\ ~stream_completed(s)
             /\ Hold
             /\ Fail(s, "stream_error")
          \/ /\ l.inserted /\ ~l.failed /\ stream_completed(s)
             /\ Hold
             /\ Go(s, "end_session", Concluding(l, "success"))
    /\ UNCHANGED <<serverVars, kind, complete, output, turn, rowVars, saved, fault,
                   eof>>

\* record_stream_end tries to save the session once more.
EndSession(s) ==
    /\ pc[s] = "end_session"
    /\ SaveIfReady(s)
    /\ Go(s, "update", AfterSave(s))
    /\ UNCHANGED <<serverVars, lock, kind, writer, complete, output, turn, rowVars,
                   eof>>

\* record_downstream_disconnect up to its first await.
Disconnect(s) ==
    /\ pc[s] = "disconnect"
    /\ \/ /\ ~local[s].failed
          /\ Fail(s, "downstream_disconnect")
       \/ /\ local[s].failed
          /\ Go(s, "finalize", Concluding(local[s], "downstream_disconnect"))
    /\ UNCHANGED <<serverVars, lock, kind, writer, complete, output, turn, rowVars,
                   saved, fault, eof>>

-----------------------------------------------------------------------------
(* The client.                                                               *)

ClientRead(s) ==
    /\ local[s].spawned /\ local[s].channel > 0
    /\ local' = Put(local, s, [local[s] EXCEPT !.channel = @ - 1])
    /\ UNCHANGED <<serverVars, lock, kind, pc, writer, complete, output, turn,
                   rowVars, saved, fault, eof>>

\* The client closes the connection.  Once the task runs, only the receiving
\* end is dropped; before, the request future is, and its writer with it.
ClientClose(s) ==
    /\ Alive(s) /\ local[s].client
    /\ \/ /\ local[s].spawned
          /\ local' = Put(local, s, Closed(local[s]))
          /\ Hold
          /\ UNCHANGED pc
       \/ /\ ~local[s].spawned
          /\ Release(s)
          /\ Leave(s, "cancelled")
    /\ UNCHANGED <<serverVars, kind, complete, output, turn, rowVars, saved, fault,
                   eof>>

-----------------------------------------------------------------------------
(* The process.                                                              *)

\* Everything in memory is lost; the files and the database stay.
Crash ==
    /\ process # "down"
    /\ crashes < MaxCrashes
    /\ crashes' = crashes + 1
    /\ process' = "down"
    /\ recoverTodo' = {}
    /\ lock' = NoStream
    /\ pc' = [s \in Stream |-> IF Alive(s) THEN "lost" ELSE pc[s]]
    /\ local' = [s \in Stream |-> Blank]
    /\ writer' = [s \in Stream |-> FALSE]
    /\ UNCHANGED <<kind, complete, output, turn, rowVars, saved, fault, eof>>

\* Mutant: the status is not filtered.
list_rollouts == {s \in Stream : rollout[s] # "none"}

list_writing_rollouts == {s \in Stream : rollout[s] = "writing"}

\* recover_interrupted.
Restart ==
    /\ process = "down"
    /\ process' = "recovering"
    /\ recoverTodo' = list_writing_rollouts
    /\ UNCHANGED <<crashes, lock, kind, pc, writer, local, complete, output, turn,
                   rowVars, saved, fault, eof>>

\* Mutant: only the index row is settled.
RecoverRolloutOnly(s) ==
    /\ process = "recovering"
    /\ s \in recoverTodo
    /\ recoverTodo' = recoverTodo \ {s}
    /\ rollout' = Put(rollout, s, "partial")
    /\ UNCHANGED <<process, crashes, lock, kind, pc, writer, local, complete,
                   output, turn, activity, errorCode, saved, fault, eof>>

\* recovered_rollout_status and recover_rollout_status: whatever the file says,
\* the index row becomes partial and the activity row failed, in one
\* transaction.
RecoverRow(s) ==
    /\ process = "recovering"
    /\ s \in recoverTodo
    /\ recoverTodo' = recoverTodo \ {s}
    /\ rollout' = Put(rollout, s, "partial")
    /\ activity' = Put(activity, s, "failed")
    /\ errorCode' = Put(errorCode, s, "activity_interrupted")
    /\ UNCHANGED <<process, crashes, lock, kind, pc, writer, local, complete,
                   output, turn, saved, fault, eof>>

\* A row that cannot be recovered ends the loop for all that follow; startup
\* goes on.
RecoverAbort(s) ==
    /\ process = "recovering"
    /\ s \in recoverTodo \cap Faulty
    /\ fault' = [x \in Stream |-> fault[x] \/ x \in recoverTodo]
    /\ recoverTodo' = {}
    /\ UNCHANGED <<process, crashes, lock, kind, pc, writer, local, complete,
                   output, turn, rowVars, saved, eof>>

\* Startup ends with the listener.
Serve ==
    /\ process = "recovering"
    /\ recoverTodo = {}
    /\ process' = "up"
    /\ UNCHANGED <<crashes, recoverTodo, lock, kind, pc, writer, local, complete,
                   output, turn, rowVars, saved, fault, eof>>

-----------------------------------------------------------------------------
\* What the request future and the task do by themselves, given an upstream
\* that yields or ends (its read timeout makes a silent one fail).
Work(s) ==
    \/ WriteCompleted(s) \/ InsertCompleted(s)
    \/ FirstEnd(s) \/ InsertEmpty(s) \/ StartStream(s)
    \/ \E i \in Item : FirstItem(s, i)
    \/ Observe(s) \/ RecordFinalUsage(s) \/ SaveSession(s)
    \/ UpdateRow(s) \/ FinalizeRollout(s) \/ MarkIncomplete(s)
    \/ CompleteRollout(s)
    \/ Send(s) \/ NextEnd(s) \/ DrainTimeout(s)
    \/ \E i \in Item : NextItem(s, i)
    \/ StreamEnd(s) \/ EndSession(s) \/ Disconnect(s)

Next ==
    \/ \E s \in Stream : Arrive(s) \/ Begin(s)
    \/ \E s \in Stream : Work(s)
    \/ \E s \in Stream : ClientRead(s) \/ ClientClose(s)
    \/ Crash
    \/ Restart
    \/ \E s \in Stream : RecoverRow(s) \/ RecoverAbort(s)
    \/ Serve

Spec == Init /\ [][Next]_vars

\* The runtime polls every ready task; the upstream read timeout and the drain
\* deadline end every wait for an item; the lock is FIFO; a client that stays
\* reads; the supervisor restarts the process.
Fairness ==
    /\ \A s \in Stream : /\ WF_vars(Work(s))
                         /\ SF_vars(Begin(s))
                         /\ WF_vars(ClientRead(s))
    /\ WF_vars(Restart)
    /\ WF_vars(\E s \in Stream : RecoverRow(s))
    /\ WF_vars(Serve)

FairSpec == Spec /\ Fairness

-----------------------------------------------------------------------------
ErrorCode == {"none", "stream_error", "empty_stream", "downstream_disconnect",
              "activity_rollout_incomplete", "activity_interrupted"}

Locals == [item : Item \cup {"none"}, pulled : 0..MaxItems, inserted : BOOLEAN,
           failed : BOOLEAN, usage_recorded : BOOLEAN, session : BOOLEAN,
           append_failed : BOOLEAN,
           settle : {"none", "success", "stream_error", "downstream_disconnect"},
           draining : BOOLEAN, spawned : BOOLEAN, client : BOOLEAN,
           channel : 0..Capacity]

TypeOK ==
    /\ process \in {"up", "down", "recovering"}
    /\ crashes \in 0..MaxCrashes
    /\ recoverTodo \subseteq Stream
    /\ lock \in Stream \cup {NoStream}
    /\ kind \in [Stream -> Kinds]
    /\ pc \in [Stream -> Running \cup Gone \cup {"idle"}]
    /\ writer \in [Stream -> BOOLEAN]
    /\ local \in [Stream -> Locals]
    /\ complete \in [Stream -> BOOLEAN]
    /\ output \in [Stream -> BOOLEAN]
    /\ turn \in [Stream -> {"none", "open", "completed", "failed", "partial"}]
    /\ activity \in [Stream -> {"none", "streaming", "success", "failed"}]
    /\ errorCode \in [Stream -> ErrorCode]
    /\ rollout \in [Stream -> {"none", "writing", "completed", "failed", "partial"}]
    /\ saved \in [Stream -> BOOLEAN]
    /\ fault \in [Stream -> BOOLEAN]
    /\ eof \in [Stream -> BOOLEAN]

\* The stories the two rows may tell once they are settled.
Agreed(s) == <<activity[s], rollout[s]>> \in
                 {<<"none", "none">>, <<"success", "completed">>,
                  <<"failed", "failed">>, <<"failed", "partial">>}

\* The activity row, the turn in the file and the rollout index row are written
\* one after the other, by the task or, after a crash, by the recovery.  Unless
\* an operation failed, once both are through they tell the same story.
SettledTogether ==
    \A s \in Stream :
        process = "up" /\ pc[s] \in {"closed", "lost"} /\ ~fault[s] =>
            /\ Agreed(s)
            /\ pc[s] = "closed" => turn[s] = rollout[s]

\* Only the end of the upstream writes success: a stream shown as successful
\* delivered a completion event and ended while its client was still served.
SuccessIsEarned ==
    \A s \in Stream :
        activity[s] = "success" /\ kind[s] # "completed" => complete[s] /\ eof[s]

\* The next turn can quote a saved response: what is saved is a completed answer
\* with output, and its activity row exists.
SavedIsComplete ==
    \A s \in Stream :
        saved[s] => complete[s] /\ output[s] /\ activity[s] # "none"

\* A request refused with an error leaves neither row behind.
RefusedLeavesNoRow ==
    \A s \in Stream :
        pc[s] = "rejected" => activity[s] = "none" /\ rollout[s] = "none"

\* The thread's lock is held exactly by the stream that owns the writer, and that
\* stream is still at work on a turn it has not ended: no path (refusal, dropped
\* future, failed insert, append failure, disconnect) keeps the lock past its
\* turn, and no two turns of a thread are open for writing together.
LockHeldByOpenTurn ==
    \A s \in Stream : /\ writer[s] <=> lock = s
                      /\ lock = s => Alive(s) /\ turn[s] = "open"

\* A settled rollout index row is never touched again, and a failed activity
\* never turns into a successful or a running one.
SettledIsFinal ==
    [][\A s \in Stream :
         /\ rollout[s] \in {"completed", "failed", "partial"}
              => rollout'[s] = rollout[s]
         /\ activity[s] = "failed" => activity'[s] = "failed"]_vars

\* No activity is shown as streaming for ever, crashes included, unless one of
\* its operations failed or its request future was dropped.
StreamingEnds ==
    \A s \in Stream :
        activity[s] = "streaming"
            ~> activity[s] # "streaming" \/ fault[s] \/ pc[s] = "cancelled"

\* A turn that waits for the thread's lock gets it, is dropped, or is lost.
TurnsProceed == \A s \in Stream : pc[s] = "waiting" ~> pc[s] # "waiting"

-----------------------------------------------------------------------------
(* The inductive invariant behind the safety properties: what is known of a   *)
(* stream at each point of its code.                                          *)

\* Before the rows are inserted; after; while the outcome is being written.
Early == {"idle", "waiting", "first", "write", "insert_done", "empty_insert",
          "insert"}
Settling == {"update", "finalize", "incomplete", "complete"}
Recording == Settling \cup {"observe", "usage", "session", "send", "next", "end",
                            "end_session", "disconnect"}

WriterInv(s) ==
    /\ writer[s] <=> lock = s
    /\ writer[s] =>
         /\ pc[s] \in Running \ {"waiting", "insert_done", "empty_insert",
                                 "incomplete", "complete"}
         /\ turn[s] = "open"
    /\ pc[s] \in {"first", "write", "insert"} => writer[s]

RowInv(s) ==
    /\ pc[s] \in {"write", "insert_done"} => kind[s] = "completed"
    /\ pc[s] \in Early \cup {"rejected", "unrecorded"} =>
         activity[s] = "none" /\ rollout[s] = "none"
    /\ pc[s] \in Early => ~local[s].inserted /\ local[s].settle = "none"
    /\ pc[s] \in Recording =>
         IF local[s].inserted
           THEN activity[s] # "none" /\ (rollout[s] = "writing" \/ pc[s] = "send")
           ELSE activity[s] = "none" /\ rollout[s] = "none" /\ local[s].failed
    /\ pc[s] \in {"usage", "session", "update", "end_session", "incomplete",
                  "complete"} => local[s].inserted
    /\ pc[s] \in Recording /\ local[s].inserted /\ rollout[s] # "writing"
         => local[s].item = "error"
    /\ pc[s] \in {"insert_done", "incomplete", "complete"} =>
         turn[s] \in {"completed", "failed", "partial"}

SettleInv(s) ==
    /\ pc[s] \in {"next", "end", "end_session", "disconnect"}
         => local[s].item = "none"
    /\ pc[s] \in {"usage", "session"} => local[s].item # "error"
    /\ pc[s] = "end" => eof[s]
    /\ pc[s] = "end_session" => local[s].settle = "success"
    /\ local[s].settle = "success" =>
         /\ pc[s] \in Settling \cup {"end_session"}
         /\ local[s].item = "none" /\ ~local[s].failed
         /\ complete[s] /\ eof[s]
    /\ pc[s] \in Settling => local[s].failed \/ local[s].settle = "success"

ActivityInv(s) ==
    /\ activity[s] = "success" =>
         \/ kind[s] = "completed"
         \/ /\ complete[s] /\ eof[s]
            /\ \/ pc[s] \in Gone
               \/ pc[s] \in Settling \ {"update"} /\ local[s].settle = "success"
    /\ activity[s] = "failed" /\ pc[s] \in (Recording \ Settling) \cup {"update"}
         => local[s].failed
    /\ saved[s] => complete[s] /\ output[s] /\ activity[s] # "none"

RecoveryInv(s) ==
    /\ process # "up" => ~Alive(s)
    /\ s \in recoverTodo => process = "recovering" /\ rollout[s] = "writing"
    /\ ~fault[s] /\ pc[s] = "lost" /\ rollout[s] = "writing"
         => process = "down" \/ s \in recoverTodo

\* As long as no operation has failed.
OutcomeInv(s) ==
    ~fault[s] =>
      /\ pc[s] = "insert_done" => turn[s] \in {"completed", "failed"}
      /\ pc[s] = "empty_insert" => turn[s] = "failed"
      /\ pc[s] # "incomplete"
      /\ pc[s] \in Recording =>
           /\ local[s].inserted
           /\ local[s].failed /\ pc[s] # "update" => activity[s] = "failed"
      /\ pc[s] \in Recording \ {"complete"} =>
           writer[s] \/ (pc[s] = "send" /\ local[s].item = "error")
      /\ pc[s] \in {"finalize", "complete"} /\ local[s].settle = "success"
           => activity[s] = "success"
      /\ pc[s] = "complete" =>
           turn[s] = IF local[s].settle = "success" THEN "completed" ELSE "failed"
      /\ pc[s] = "send" /\ local[s].item = "error" =>
           activity[s] = "failed" /\ rollout[s] = "failed" /\ turn[s] = "failed"
      /\ pc[s] = "closed" => Agreed(s) /\ turn[s] = rollout[s]
      /\ pc[s] = "lost" => Agreed(s) \/ rollout[s] = "writing"

StreamInv(s) == WriterInv(s) /\ RowInv(s) /\ SettleInv(s) /\ ActivityInv(s)
                /\ RecoveryInv(s) /\ OutcomeInv(s)

Inv == TypeOK /\ \A s \in Stream : StreamInv(s)

-----------------------------------------------------------------------------
\* docs/reviews/2026-10-23:46: the startup recovery reads the end of the turn
\* from the file and, when it says completed or failed, restores both sides; a
\* success whose turn is completed in the file stays a success.
SuccessSurvivesRestart ==
    [][\A s \in Stream :
         activity[s] = "success" /\ turn[s] = "completed"
            => activity'[s] = "success"]_vars

\* docs/reviews/2026-09-08:112: normal end, upstream error, empty stream and
\* client disconnect all reach a definite terminal path.  While the process is
\* up and nothing failed, a streaming row has code at work on it.
StreamingHasOwner ==
    \A s \in Stream :
        process = "up" /\ activity[s] = "streaming" /\ ~fault[s] => Alive(s)

=============================================================================
