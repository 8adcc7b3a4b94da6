---------------------------- MODULE DomainEvents ----------------------------
(***************************************************************************)
(* The transactional outbox of infra/domainevent (manager.go,              *)
(* transaction.go) over infra/transaction and infra/uniqueid.              *)
(*                                                                         *)
(* A pod is one instance of the service.  It runs one request at a time:   *)
(* EventTransaction.Execute around a function that calls Save.  After the  *)
(* transaction a goroutine per event publishes it, and deletes its row or  *)
(* marks it failed; a loop per pod republishes the rows marked failed.     *)
(* All the pods share the table domain_event_publish.  Events received go  *)
(* the same way through domain_event_subscribe, handled in place of being  *)
(* published: the two sides differ in the table, and in who keeps the      *)
(* event and acts on it after the transaction.                             *)
(*                                                                         *)
(* The database is external.  The code ignores the result of every INSERT, *)
(* UPDATE, DELETE and COMMIT, so any of them may be refused.  Two of its   *)
(* statements always are: UPDATE ... SET ? has its assignments in a string *)
(* parameter, and the six columns of a failed row are scanned into three   *)
(* variables.  With StatusWorks they would be what their comments say; the *)
(* behaviours of the code as it is are among those.                        *)
(***************************************************************************)
EXTENDS Integers, FiniteSets

CONSTANTS Sides,           \* the tables considered: "pub", "sub"
          Events,          \* domain events, each saved at most once
          NoEvent,
          Pods,
          SingleRetryNum,  \* rows fetched by one retry
          StatusWorks,     \* FALSE: the statements about status 1 as they are
          MayRefuse,       \* the database may refuse any statement
          MaxTime,         \* bound on the clock
          MaxPublished,    \* bound: publications of an event counted
          MaxCrashes       \* bound on the crashes of pods

VARIABLES
  side,       \* the table: domain_event_publish or domain_event_subscribe
  now,        \* the clock in units of 10 ms, which NextID is made from
  row,        \* the row of each event in the table, by the state of its column
  id,         \* the identity NextID gave to each event
  fate,       \* what became of the transaction that saved the event
  published,  \* how many times the event has reached the message queue
  tx,         \* the stage of each pod's request
  saved,      \* worker.Store(): the events of the request that await push
  pusher,     \* the goroutine that push starts for an event
  retry,      \* where the retry loop of each pod is
  todo,       \* the events it has fetched and not tried yet
  current,    \* the event it has published and not deleted yet
  failed,     \* err is not nil at this point of retryPub
  crashes

requestVars == <<tx, saved, fate, id>>
retryVars   == <<retry, todo, current, failed>>
vars == <<now, row, published, requestVars, pusher, retryVars, crashes>>

NoId == <<0, "none">>

(* sonyflake makes an id from the time, the pod's address and a sequence   *)
(* number.  NextID builds a new generator on every call, whose sequence    *)
(* number starts at zero: the id is the time and the pod.  The clock may   *)
(* have moved since the last call, or not.                                 *)
Times == {t \in {now, now + 1} : t <= MaxTime}
NextID(p, t) == <<t, p>>

(* The events a pod has saved: its name is the second part of their id.    *)
OfPod(p) == {e \in Events : id[e] # NoId /\ id[e][2] = p}

Init ==
  /\ side \in Sides
  /\ now = 1
  /\ row = [e \in Events |-> "none"]
  /\ id = [e \in Events |-> NoId]
  /\ fate = [e \in Events |-> "new"]
  /\ published = [e \in Events |-> 0]
  /\ tx = [p \in Pods |-> "idle"]
  /\ saved = [p \in Pods |-> {}]
  /\ pusher = [e \in Events |-> "none"]
  /\ retry = [p \in Pods |-> "timer"]
  /\ todo = [p \in Pods |-> {}]
  /\ current = [p \in Pods |-> NoEvent]
  /\ failed = [p \in Pods |-> FALSE]
  /\ crashes = 0

-----------------------------------------------------------------------------
(* EventTransaction.Execute *)

Begin(p) ==
  /\ tx[p] = "idle"
  /\ tx' = [tx EXCEPT ![p] = "open"]
  /\ UNCHANGED <<now, row, published, saved, fate, id, pusher, retryVars, crashes>>

(* The INSERT fails when a row has that primary key, and may fail          *)
(* otherwise: nobody looks.                                                *)
Insert(e, i) ==
  /\ id' = [id EXCEPT ![e] = i]
  /\ \/ /\ \A x \in Events : row[x] = "none" \/ id[x] # i
        /\ row' = [row EXCEPT ![e] = "tx"]
     \/ /\ MayRefuse \/ \E x \in Events : row[x] # "none" /\ id[x] = i
        /\ UNCHANGED row

(* The list in the store of the worker grows.                              *)
addPubToWOrker(p, e) == saved' = [saved EXCEPT ![p] = @ \cup {e}]

(* Save, for one event to publish.                                         *)
Save(p, e) ==
  /\ side = "pub"
  /\ tx[p] = "open"
  /\ fate[e] = "new"
  /\ \E t \in Times : now' = t /\ Insert(e, NextID(p, t))
  /\ fate' = [fate EXCEPT ![e] = "saved"]
  /\ addPubToWOrker(p, e)
  /\ UNCHANGED <<published, tx, pusher, retryVars, crashes>>

(* Save, for one event received: the identity is the sender's, and the     *)
(* application keeps the event itself, to handle it after the transaction. *)
SaveSub(p, e) ==
  /\ side = "sub"
  /\ tx[p] = "open"
  /\ fate[e] = "new"
  /\ \E t \in 1..MaxTime : Insert(e, NextID(p, t))
  /\ fate' = [fate EXCEPT ![e] = "saved"]
  /\ saved' = [saved EXCEPT ![p] = @ \cup {e}]
  /\ UNCHANGED <<now, published, tx, pusher, retryVars, crashes>>

(* The rows of the pod's transaction become s, and the fate of its events  *)
(* f, or g for an event whose INSERT had failed.  An event that an earlier *)
(* transaction left in the list keeps the fate that one gave it.           *)
EndTransaction(p, s, f, g) ==
  /\ row' = [e \in Events |-> IF e \in saved[p] /\ row[e] = "tx" THEN s ELSE row[e]]
  /\ fate' = [e \in Events |-> IF e \in saved[p] /\ fate[e] = "saved"
                               THEN IF row[e] = "tx" THEN f ELSE g
                               ELSE fate[e]]

(* The function returned nil and COMMIT took effect.                       *)
Commit(p) ==
  /\ tx[p] = "open"
  /\ EndTransaction(p, "pending", "committed", "norow")
  /\ tx' = [tx EXCEPT ![p] = "push"]
  /\ UNCHANGED <<now, published, saved, id, pusher, retryVars, crashes>>

(* The function returned nil and COMMIT failed: its error is not looked    *)
(* at, Execute goes on as after a commit.                                  *)
CommitFails(p) ==
  /\ tx[p] = "open"
  /\ MayRefuse
  /\ EndTransaction(p, "none", "uncommitted", "uncommitted")
  /\ tx' = [tx EXCEPT ![p] = "push"]
  /\ UNCHANGED <<now, published, saved, id, pusher, retryVars, crashes>>

(* Mutation: a rollback leaves the list in the store, for the next         *)
(* transaction of the request to push.                                     *)
RollbackKeeps(p) ==
  /\ tx[p] = "open"
  /\ EndTransaction(p, "none", "rolledback", "rolledback")
  /\ tx' = [tx EXCEPT ![p] = "idle"]
  /\ UNCHANGED <<now, published, saved, id, pusher, retryVars, crashes>>

(* The function returned an error or panicked.  (After an error, execute   *)
(* panics on a nil e2.Error when ROLLBACK worked: the caller sees a panic  *)
(* in place of the error.  Either way the list in the store is removed.)   *)
Rollback(p) ==
  /\ tx[p] = "open"
  /\ EndTransaction(p, "none", "rolledback", "rolledback")
  /\ tx' = [tx EXCEPT ![p] = "idle"]
  /\ saved' = [saved EXCEPT ![p] = {}]
  /\ UNCHANGED <<now, published, id, pusher, retryVars, crashes>>

(* pushEvent: a goroutine for each event of the list, which is then        *)
(* removed from the store; or the application handles what it received.    *)
PushEvent(p) ==
  /\ tx[p] = "push"
  /\ pusher' = [e \in Events |-> IF e \in saved[p] THEN "call" ELSE pusher[e]]
  /\ saved' = [saved EXCEPT ![p] = {}]
  /\ tx' = [tx EXCEPT ![p] = "idle"]
  /\ UNCHANGED <<now, row, published, fate, id, retryVars, crashes>>

-----------------------------------------------------------------------------
(* pubHandler and subHandler, of the user: the event may reach the queue,  *)
(* or be handled, and an error be returned all the same.                   *)

Deliver(e) ==
  published' = [published EXCEPT ![e] = IF @ < MaxPublished THEN @ + 1 ELSE @]

MayDeliver(e) == Deliver(e) \/ UNCHANGED published

(* DELETE ... WHERE id = ?, of the row that has that id.                   *)
DeleteRow(i) ==
  row' = [e \in Events |-> IF id[e] = i /\ row[e] \in {"pending", "failed"}
                           THEN "none" ELSE row[e]]

(* UPDATE ... SET status = 1 WHERE id = ?                                  *)
MarkRow(i) ==
  row' = [e \in Events |-> IF id[e] = i /\ row[e] \in {"pending", "failed"}
                           THEN "failed" ELSE row[e]]

DeletePubEvent(i) == side = "pub" /\ DeleteRow(i)
DeleteSubEvent(i) == side = "sub" /\ DeleteRow(i)
MarkPub(i) == side = "pub" /\ MarkRow(i)
SetSubEventFail(i) == side = "sub" /\ MarkRow(i)

(* The goroutine of push; or the application, which calls DeleteSubEvent   *)
(* or SetSubEventFail when it has handled the event.                       *)
PushSucceeds(e) ==
  /\ pusher[e] = "call"
  /\ Deliver(e)
  /\ pusher' = [pusher EXCEPT ![e] = "delete"]
  /\ UNCHANGED <<now, row, requestVars, retryVars, crashes>>

(* Mutation: the row is deleted whether or not pubHandler returned nil.    *)
PushFailsDeletes(e) ==
  /\ pusher[e] = "call"
  /\ MayDeliver(e)
  /\ pusher' = [pusher EXCEPT ![e] = "delete"]
  /\ UNCHANGED <<now, row, requestVars, retryVars, crashes>>

PushFails(e) ==
  /\ pusher[e] = "call"
  /\ MayDeliver(e)
  /\ pusher' = [pusher EXCEPT ![e] = "mark"]
  /\ UNCHANGED <<now, row, requestVars, retryVars, crashes>>

PushDelete(e) ==
  /\ pusher[e] = "delete"
  /\ DeletePubEvent(id[e]) \/ DeleteSubEvent(id[e]) \/ (MayRefuse /\ UNCHANGED row)
  /\ pusher' = [pusher EXCEPT ![e] = "none"]
  /\ UNCHANGED <<now, published, requestVars, retryVars, crashes>>

PushMark(e) ==
  /\ pusher[e] = "mark"
  /\ StatusWorks
  /\ MarkPub(id[e]) \/ SetSubEventFail(id[e])
  /\ pusher' = [pusher EXCEPT ![e] = "none"]
  /\ UNCHANGED <<now, published, requestVars, retryVars, crashes>>

PushMarkRefused(e) ==
  /\ pusher[e] = "mark"
  /\ MayRefuse \/ ~StatusWorks
  /\ pusher' = [pusher EXCEPT ![e] = "none"]
  /\ UNCHANGED <<now, row, published, requestVars, retryVars, crashes>>

-----------------------------------------------------------------------------
(* RetryPubEvent and retryPub, RetrySubEvent and retrySub *)

(* Mutation: the WHERE clause on status is missing.                        *)
CommittedRows == {e \in Events : row[e] \in {"pending", "failed"}}

FailedRows == {e \in Events : row[e] = "failed"}
getFailPubEvents == IF side = "pub" THEN FailedRows ELSE {}
getFailSubEvents == IF side = "sub" THEN FailedRows ELSE {}
FailedEvents == getFailPubEvents \cup getFailSubEvents

RetryTick(p) ==
  /\ retry[p] = "timer"
  /\ retry' = [retry EXCEPT ![p] = "scan"]
  /\ UNCHANGED <<now, row, published, requestVars, pusher, todo, current, failed, crashes>>

(* At most SingleRetryNum of the rows with status 1.                       *)
(* None left, or an error: the timer decides when to look again.           *)
RetryScan(p) ==
  /\ retry[p] = "scan"
  /\ FailedEvents = {} \/ StatusWorks
  /\ \E S \in SUBSET FailedEvents :
       /\ Cardinality(S) <= SingleRetryNum
       /\ Cardinality(S) = SingleRetryNum \/ S = FailedEvents
       /\ todo' = [todo EXCEPT ![p] = S]
       /\ retry' = [retry EXCEPT ![p] = IF S = {} THEN "timer" ELSE "loop"]
  /\ UNCHANGED <<now, row, published, requestVars, pusher, current, failed, crashes>>

RetryScanFails(p) ==
  /\ retry[p] = "scan"
  /\ MayRefuse \/ (FailedEvents # {} /\ ~StatusWorks)
  /\ retry' = [retry EXCEPT ![p] = "timer"]
  /\ UNCHANGED <<now, row, published, requestVars, pusher, todo, current, failed, crashes>>

RetrySucceeds(p, e) ==
  /\ retry[p] = "loop"
  /\ e \in todo[p]
  /\ Deliver(e)
  /\ retry' = [retry EXCEPT ![p] = "delete"]
  /\ todo' = [todo EXCEPT ![p] = @ \ {e}]
  /\ current' = [current EXCEPT ![p] = e]
  /\ UNCHANGED <<now, row, requestVars, pusher, failed, crashes>>

RetryErrs(p, e) ==
  /\ retry[p] = "loop"
  /\ e \in todo[p]
  /\ MayDeliver(e)
  /\ todo' = [todo EXCEPT ![p] = @ \ {e}]
  /\ failed' = [failed EXCEPT ![p] = TRUE]
  /\ UNCHANGED <<now, row, requestVars, pusher, retry, current, crashes>>

(* A panic ends the round: the other events wait for the timer.            *)
RetryPanics(p, e) ==
  /\ retry[p] = "loop"
  /\ e \in todo[p]
  /\ MayDeliver(e)
  /\ todo' = [todo EXCEPT ![p] = {}]
  /\ retry' = [retry EXCEPT ![p] = "timer"]
  /\ failed' = [failed EXCEPT ![p] = FALSE]
  /\ UNCHANGED <<now, row, requestVars, pusher, current, crashes>>

(* The error of the DELETE is not looked at.                               *)
RetryDeleted(p) ==
  /\ retry[p] = "delete"
  /\ DeletePubEvent(id[current[p]]) \/ DeleteSubEvent(id[current[p]])
  /\ retry' = [retry EXCEPT ![p] = "loop"]
  /\ current' = [current EXCEPT ![p] = NoEvent]
  /\ failed' = [failed EXCEPT ![p] = FALSE]
  /\ UNCHANGED <<now, published, requestVars, pusher, todo, crashes>>

RetryDeleteRefused(p) ==
  /\ retry[p] = "delete"
  /\ MayRefuse
  /\ retry' = [retry EXCEPT ![p] = "loop"]
  /\ current' = [current EXCEPT ![p] = NoEvent]
  /\ failed' = [failed EXCEPT ![p] = FALSE]
  /\ UNCHANGED <<now, row, published, requestVars, pusher, todo, crashes>>

(* retryPub returns: the error of the last event decides between the timer *)
(* and another round at once.                                              *)
RetryEnds(p) ==
  /\ retry[p] = "loop"
  /\ todo[p] = {}
  /\ retry' = [retry EXCEPT ![p] = IF failed[p] THEN "timer" ELSE "scan"]
  /\ failed' = [failed EXCEPT ![p] = FALSE]
  /\ UNCHANGED <<now, row, published, requestVars, pusher, todo, current, crashes>>

-----------------------------------------------------------------------------
(* A pod dies: the database rolls its transaction back; its goroutines and *)
(* the list of the events to push are gone.                                *)
Crash(p) ==
  /\ crashes < MaxCrashes
  /\ crashes' = crashes + 1
  /\ IF tx[p] = "open"
     THEN EndTransaction(p, "none", "rolledback", "rolledback")
     ELSE UNCHANGED <<row, fate>>
  /\ tx' = [tx EXCEPT ![p] = "idle"]
  /\ saved' = [saved EXCEPT ![p] = {}]
  /\ pusher' = [e \in Events |-> IF e \in OfPod(p) THEN "none" ELSE pusher[e]]
  /\ retry' = [retry EXCEPT ![p] = "timer"]
  /\ todo' = [todo EXCEPT ![p] = {}]
  /\ current' = [current EXCEPT ![p] = NoEvent]
  /\ failed' = [failed EXCEPT ![p] = FALSE]
  /\ UNCHANGED <<now, published, id>>

Request(p) == \/ Begin(p) \/ Commit(p) \/ CommitFails(p) \/ Rollback(p) \/ PushEvent(p)
              \/ \E e \in Events : Save(p, e) \/ SaveSub(p, e)
Push(e)    == \/ PushSucceeds(e) \/ PushFails(e) \/ PushDelete(e)
              \/ PushMark(e) \/ PushMarkRefused(e)
RetryEvent(p, e) == RetrySucceeds(p, e) \/ RetryErrs(p, e) \/ RetryPanics(p, e)
RetryRound(p) == \/ RetryScan(p) \/ RetryScanFails(p)
                 \/ RetryDeleted(p) \/ RetryDeleteRefused(p)
                 \/ \E e \in Events : RetryEvent(p, e)
RetryLoop(p) == RetryTick(p) \/ RetryEnds(p)
retryPub(p) == side = "pub" /\ RetryRound(p)
retrySub(p) == side = "sub" /\ RetryRound(p)
RetryPubEvent(p) == side = "pub" /\ RetryLoop(p)
RetrySubEvent(p) == side = "sub" /\ RetryLoop(p)
Retry(p) == retryPub(p) \/ retrySub(p) \/ RetryPubEvent(p) \/ RetrySubEvent(p)

Next == /\ side' = side
        /\ \/ \E p \in Pods : Request(p) \/ Retry(p) \/ Crash(p)
           \/ \E e \in Events : Push(e)

Spec == Init /\ [][Next]_<<side, vars>>

(* The goroutines of push run and the retry loop of a pod never stops; the *)
(* message queue and the database do not refuse for ever what they accept. *)
Fairness == /\ \A e \in Events : WF_vars(Push(e)) /\ SF_vars(PushMark(e))
            /\ WF_vars(\E p \in Pods : Retry(p))
            /\ SF_vars(\E p \in Pods : RetryScan(p))
            /\ SF_vars(\E p \in Pods, e \in Events : RetrySucceeds(p, e))
            /\ SF_vars(\E p \in Pods : RetryDeleted(p))

FairSpec == Spec /\ Fairness

-----------------------------------------------------------------------------
(* Properties *)

Ids == {NoId} \cup ((1..MaxTime) \X Pods)

TypeOK ==
  /\ now \in 1..MaxTime
  /\ row \in [Events -> {"none", "tx", "pending", "failed"}]
  /\ id \in [Events -> Ids]
  /\ fate \in [Events -> {"new", "saved", "committed", "norow", "uncommitted", "rolledback"}]
  /\ published \in [Events -> 0..MaxPublished]
  /\ tx \in [Pods -> {"idle", "open", "push"}]
  /\ saved \in [Pods -> SUBSET Events]
  /\ pusher \in [Events -> {"none", "call", "delete", "mark"}]
  /\ retry \in [Pods -> {"timer", "scan", "loop", "delete"}]
  /\ todo \in [Pods -> SUBSET Events]
  /\ current \in [Pods -> Events \cup {NoEvent}]
  /\ \A p \in Pods : retry[p] = "delete" <=> current[p] # NoEvent
  /\ failed \in [Pods -> BOOLEAN]
  /\ crashes \in 0..MaxCrashes

(* Another event has been given the same identity.                         *)
Clashed(e) == id[e] # NoId /\ \E x \in Events \ {e} : id[x] = id[e]

(* An event whose transaction was rolled back, by an error, a panic or a   *)
(* crash, is never published, by no later transaction either: the list in  *)
(* the store, which the next one would push, goes with it.                 *)
RolledBackNeverPublished ==
  \A e \in Events : fate[e] = "rolledback" => published[e] = 0

(* An event whose row was committed stays in the table until it has been   *)
(* published, whatever statement is refused and whoever crashes, unless    *)
(* NextID gave its id to another event too.                                *)
CommittedNotLost ==
  \A e \in Events : fate[e] = "committed" =>
    row[e] # "none" \/ published[e] > 0 \/ Clashed(e)

(* The retry loops leave an event alone as long as its first push is under *)
(* way, again unless it shares its id.                                     *)
PushAndRetryDisjoint ==
  \A e \in Events, p \in Pods :
    pusher[e] # "none" /\ (e \in todo[p] \/ e = current[p]) => Clashed(e)

(* push marks the row of an event that pubHandler refused, and the retry   *)
(* loop looks for marked rows: the event is published in the end.          *)
FailedPushRetried ==
  \A e \in Events :
    fate[e] = "committed" /\ pusher[e] = "mark" ~> published[e] > 0 \/ Clashed(e)

(* push runs after the transaction succeeded: what has been published was  *)
(* saved by a transaction that committed.                                  *)
PublishedOnlyCommitted ==
  \A e \in Events : published[e] > 0 => fate[e] \in {"committed", "norow"}
=============================================================================
