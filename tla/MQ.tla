--------------------------------- MODULE MQ ---------------------------------
(***************************************************************************)
(* KafkaClient (infra/mq/kafka.go) on one partition of a topic: Pub, which *)
(* tries again for ten seconds, and the consumer that Sub starts.  The     *)
(* broker and the commit loop of the kafka-go reader are external.         *)
(***************************************************************************)
EXTENDS Integers, Sequences, SequencesExt

CONSTANTS Messages,
          MaxLog,      \* bound on the messages in the partition
          MaxRestarts  \* bound on the restarts of the consumer

VARIABLES
  attempt,     \* the state of the Pub of each message
  partition,   \* the messages in the broker
  committed,   \* how many of them the group has committed
  position,    \* how many of them the consumer has fetched
  handling,    \* the handler is running, for the last one fetched
  toCommit,    \* what the reader commits within a second, or 0
  tried,       \* history: the offsets the handler has returned for
  restarts

vars == <<attempt, partition, committed, position, handling, toCommit, tried, restarts>>
consumer == <<position, handling, toCommit, tried>>

Init ==
  /\ attempt = [m \in Messages |-> "none"]
  /\ partition = <<>> /\ committed = 0
  /\ position = 0 /\ handling = FALSE /\ toCommit = 0 /\ tried = {}
  /\ restarts = 0

Pub(m) ==
  /\ attempt[m] = "none"
  /\ attempt' = [attempt EXCEPT ![m] = "trying"]
  /\ UNCHANGED <<partition, committed, consumer, restarts>>

(* WriteMessages of a writer whose RequiredAcks is not set, RequireNone:   *)
(* it returns nil without hearing from a broker, so the message is in the  *)
(* log or not whether Pub has returned nil or tries again after an error.  *)
WriteMessages(m) ==
  /\ attempt[m] = "trying"
  /\ attempt' \in {attempt, [attempt EXCEPT ![m] = "returned"]}
  /\ \/ Len(partition) < MaxLog /\ partition' = Append(partition, m)
     \/ UNCHANGED partition
  /\ UNCHANGED <<committed, consumer, restarts>>

(* The last attempt, or the ten seconds, are over.                         *)
PubFails(m) ==
  /\ attempt[m] = "trying"
  /\ attempt' = [attempt EXCEPT ![m] = "failed"]
  /\ UNCHANGED <<partition, committed, consumer, restarts>>

-----------------------------------------------------------------------------
(* Mutation: the offset is committed before the handler runs.              *)
FetchCommits ==
  /\ ~handling /\ position < Len(partition)
  /\ position' = position + 1 /\ handling' = TRUE
  /\ toCommit' = position + 1
  /\ UNCHANGED <<attempt, partition, committed, tried, restarts>>

(* After an error it is called again.                                      *)
FetchMessage ==
  /\ ~handling /\ position < Len(partition)
  /\ position' = position + 1 /\ handling' = TRUE
  /\ UNCHANGED <<attempt, partition, committed, toCommit, tried, restarts>>

HandlerSucceeds ==
  /\ handling
  /\ handling' = FALSE /\ tried' = tried \union {position}
  /\ UNCHANGED <<attempt, partition, committed, position, toCommit, restarts>>

(* CommitMessages is called when the handler has failed.                   *)
HandlerFails ==
  /\ handling
  /\ handling' = FALSE /\ tried' = tried \union {position}
  /\ toCommit' = position
  /\ UNCHANGED <<attempt, partition, committed, position, restarts>>

CommitLoop ==
  /\ toCommit > 0
  /\ committed' = toCommit /\ toCommit' = 0
  /\ UNCHANGED <<attempt, partition, position, handling, tried, restarts>>

(* The process ends, at a signal or not, and another one starts where the  *)
(* group has got to.                                                       *)
Restart ==
  /\ restarts < MaxRestarts
  /\ restarts' = restarts + 1
  /\ position' = committed /\ handling' = FALSE /\ toCommit' = 0
  /\ UNCHANGED <<attempt, partition, committed, tried>>

Consume == FetchMessage \/ HandlerSucceeds \/ HandlerFails
Next ==
  \/ \E m \in Messages : Pub(m) \/ WriteMessages(m) \/ PubFails(m)
  \/ Consume \/ CommitLoop \/ Restart

-----------------------------------------------------------------------------
(* A message that the broker has taken is handled, whatever is lost in a   *)
(* restart: the offset that a failed message commits, which covers all     *)
(* before it, never passes one that has not been through the handler.      *)
(* That the broker takes a message when Pub returns nil nobody promises.   *)
TakenIsTried == \A i \in 1..MaxLog : Len(partition) >= i ~> i \in tried

=============================================================================
