--------------------------- MODULE TelemetryQueue ---------------------------
(***************************************************************************)
(* The telemetry topic between pkg/queue/producer.go and consumer.go. The   *)
(* producer's writer batches messages per partition in the background and   *)
(* nobody sees its errors; the reader commits every message before          *)
(* ReadMessage returns it to the loop of StartListening.                    *)
(***************************************************************************)
EXTENDS Integers, Sequences, FiniteSets

CONSTANTS
    Partitions,  \* of the topic run.telemetry
    NumEvents    \* bound: messages written to the topic

ASSUME QueueAssumption == NumEvents \in Nat

VARIABLES
    published,  \* the number of messages given to the writer; they are numbered
    batch,      \* the writer's open batch for each partition
    log,        \* the partition's messages at the broker
    committed,  \* the consumer group's offset
    position,   \* the reader's position
    handled     \* history: the <<partition, offset>> returned to StartListening

queueVars == <<published, batch, log, committed, position, handled>>

QueueInit ==
    /\ published = 0
    /\ batch = [p \in Partitions |-> <<>>]
    /\ log = [p \in Partitions |-> <<>>]
    /\ committed = [p \in Partitions |-> 0]
    /\ position = [p \in Partitions |-> 0]
    /\ handled = <<>>

\* WriteMessages takes the message; LeastBytes picks the partition by load,
\* whatever the key is.
PublishTelemetry(p) ==
    /\ published < NumEvents
    /\ published' = published + 1
    /\ batch' = [batch EXCEPT ![p] = Append(@, published + 1)]
    /\ UNCHANGED <<log, committed, position, handled>>

\* The writer sends the batch when it is full or 10 ms old, or on Close.
WriteBatch(p) ==
    /\ batch[p] # <<>>
    /\ log' = [log EXCEPT ![p] = @ \o batch[p]]
    /\ batch' = [batch EXCEPT ![p] = <<>>]
    /\ UNCHANGED <<published, committed, position, handled>>

\* The batch is given up, or its process ends; or it was written and the
\* writer, which has lost the answer, is about to send it again.
WriteFails(p) ==
    /\ batch[p] # <<>>
    /\ \/ batch' = [batch EXCEPT ![p] = <<>>] /\ UNCHANGED log
       \/ log' = [log EXCEPT ![p] = @ \o batch[p]] /\ UNCHANGED batch
    /\ UNCHANGED <<published, committed, position, handled>>

-----------------------------------------------------------------------------
\* Mutant: the last message of a partition is left.
HasMessage_NotLast(p) == position[p] + 1 < Len(log[p])

HasMessage(p) == position[p] < Len(log[p])

\* Mutant: the offset of the message itself is committed.
NextOffset_Same(p) == position[p]

\* The offset that is committed with the message at the position.
NextOffset(p) == position[p] + 1

\* ReadMessage fetches, commits and returns a message.
ReadMessage(p) ==
    /\ HasMessage(p)
    /\ position' = [position EXCEPT ![p] = @ + 1]
    /\ committed' = [committed EXCEPT ![p] = NextOffset(p)]
    /\ handled' = Append(handled, <<p, position[p] + 1>>)
    /\ UNCHANGED <<published, batch, log>>

\* The commit fails, or only its answer is lost: ReadMessage returns an error
\* and StartListening goes on to the next message.
ReadFails(p) ==
    /\ HasMessage(p)
    /\ position' = [position EXCEPT ![p] = @ + 1]
    /\ committed' \in {committed, [committed EXCEPT ![p] = NextOffset(p)]}
    /\ UNCHANGED <<published, batch, log, handled>>

\* Mutant: a new reader starts at the end.
StartOffset_Last(p) == Len(log[p])

\* A new reader of the group starts at the committed offset.
StartOffset(p) == committed[p]

ReaderRestarts ==
    /\ position' = [p \in Partitions |-> StartOffset(p)]
    /\ UNCHANGED <<published, batch, log, committed, handled>>

-----------------------------------------------------------------------------
\* The queue's state is well formed: offsets stay within the partition.
QueueShape ==
    /\ published \in 0 .. NumEvents
    /\ batch \in [Partitions -> Seq(1 .. NumEvents)]
    /\ log \in [Partitions -> Seq(1 .. NumEvents)]
    /\ committed \in [Partitions -> Nat] /\ position \in [Partitions -> Nat]
    /\ \A p \in Partitions :
        committed[p] <= position[p] /\ position[p] <= Len(log[p])
    /\ handled \in Seq(Partitions \X Nat)

\* No message of the topic is handled twice (consumer.go:39), through lost
\* commits and restarts: a commit comes before the message is handled.
HandledOnce ==
    \A i, j \in DOMAIN handled : handled[i] = handled[j] => i = j

\* Why: what was handled lies below the committed offset, where no reader
\* starts again.
HandledAreCommitted ==
    \A i \in DOMAIN handled : handled[i][2] <= committed[handled[i][1]]

QueueInv == QueueShape /\ HandledOnce /\ HandledAreCommitted

\* The messages that are committed and will never be handled.
Dropped ==
    {d \in UNION {{p} \X (1 .. committed[p]) : p \in Partitions} :
        \A i \in DOMAIN handled : handled[i] # d}
=============================================================================
