----------------------------- MODULE Submission -----------------------------
(***************************************************************************)
(* The submission service: the handlers and the store of                    *)
(* pkg/submission/handler.go. The store maps ids to pointers, so a handler   *)
(* that encodes a submission reads the memory its clone goroutine writes.   *)
(* A Go string is two words, the text and its length, and encoding/json     *)
(* reads the fields in their order: every word is read and written in a     *)
(* step of its own.                                                         *)
(***************************************************************************)
EXTENDS Integers, FiniteSets

CONSTANTS
    Clients,   \* clients that post submissions and poll them
    Ids,       \* ids that uuid.New returns, each once
    NoId

ASSUME SubmissionAssumption == NoId \notin Ids

Statuses == {"PENDING", "COMPILING", "SUCCESS", "FAILED"}
Words == {"text", "size"}
Unread == "unread"
Torn == "torn"

VARIABLES
    used,      \* the ids that have been returned
    store,     \* the ids in Store.data
    status,    \* Submission.Status: the status each of its words belongs to
    logs,      \* Submission.Logs: the outcome it describes, "", or one word of each
    worker,    \* the clone goroutine: the status it assigns, or its next step
    client,    \* the request of each client and what it has read
    answer,    \* the last answer to each client about each id
    exited     \* the process has been restarted

vars == <<used, store, status, logs, worker, client, answer, exited>>

NoRequest == [pc |-> "idle", id |-> NoId, settled |-> FALSE,
              text |-> Unread, size |-> Unread, logs |-> Unread]
NoAnswer == [code |-> "none", text |-> Unread, size |-> Unread, logs |-> Unread, settled |-> FALSE]

Init ==
    /\ used = {} /\ store = {} /\ exited = FALSE
    /\ status = [s \in Ids |-> [w \in Words |-> "PENDING"]]
    /\ logs = [s \in Ids |-> ""]
    /\ worker = [s \in Ids |-> "none"]
    /\ client = [c \in Clients |-> NoRequest]
    /\ answer = [c \in Clients |-> [s \in Ids |-> NoAnswer]]

\* The clone goroutine has saved the outcome.
Settled(s) == worker[s] = "done"

-----------------------------------------------------------------------------
\* h.store.Save(sub), before anything else is done with it.
Stored(s) == store \cup {s}

\* handleUpload and handleGitSubmission up to Save; a request that is not
\* valid is refused before and changes nothing.
Post(c, s, next) ==
    /\ client[c].pc = "idle" /\ s \notin used
    /\ used' = used \cup {s}
    /\ store' = Stored(s)
    /\ client' = [client EXCEPT ![c] = [NoRequest EXCEPT !.pc = next, !.id = s]]
    /\ UNCHANGED <<status, logs, worker, answer, exited>>

\* handleUpload: the file is created and copied, and the answer encoded, or
\* os.Create fails and the submission stays in the store.
SaveFile(c) ==
    /\ client[c].pc = "file"
    /\ \E next \in {[client[c] EXCEPT !.pc = "encode"], NoRequest} :
        client' = [client EXCEPT ![c] = next]
    /\ UNCHANGED <<used, store, status, logs, worker, answer, exited>>

\* handleGitSubmission starts the goroutine and encodes its answer.
GoClone(c) ==
    /\ client[c].pc = "clone"
    /\ client' = [client EXCEPT ![c].pc = "encode"]
    /\ worker' = [worker EXCEPT ![client[c].id] = "COMPILING"]
    /\ UNCHANGED <<used, store, status, logs, answer, exited>>

\* handleGetStatus: Store.Get under the lock. A Save that went before is seen.
Poll(c, s) ==
    /\ client[c].pc = "idle"
    /\ \/ /\ s \in store
          /\ client' = [client EXCEPT ![c] =
                [NoRequest EXCEPT !.pc = "encode", !.id = s, !.settled = Settled(s)]]
          /\ UNCHANGED answer
       \/ /\ s \notin store
          /\ answer' = [answer EXCEPT ![c][s] = [NoAnswer EXCEPT !.code = "404"]]
          /\ UNCHANGED client
    /\ UNCHANGED <<used, store, status, logs, worker, exited>>

\* Encode reads a word of Status, in either order.
ReadStatus(c, w) ==
    /\ client[c].pc = "encode" /\ client[c][w] = Unread
    /\ client' = [client EXCEPT ![c][w] = status[client[c].id][w]]
    /\ UNCHANGED <<used, store, status, logs, worker, answer, exited>>

\* omitempty looks at the length of Logs first, and a length that is still
\* zero leaves the field out.
LogsRead(s) == IF logs[s] = Torn THEN "" ELSE logs[s]

\* Encode reads Logs last, and the answer is sent. The new length with the old
\* text, a nil pointer, is a panic that breaks the answer off.
ReadLogs(c) ==
    LET r == client[c]
    IN  /\ r.pc = "encode" /\ r.text # Unread /\ r.size # Unread
        /\ \/ answer' = [answer EXCEPT ![c][r.id] =
                    [code |-> "200", text |-> r.text, size |-> r.size,
                     logs |-> LogsRead(r.id), settled |-> r.settled]]
           \/ logs[r.id] = Torn /\ UNCHANGED answer
        /\ client' = [client EXCEPT ![c] = NoRequest]
        /\ UNCHANGED <<used, store, status, logs, worker, exited>>

-----------------------------------------------------------------------------
\* The goroutine assigns a word of Status.
WriteStatus(s, w) ==
    /\ worker[s] \in Statuses /\ status[s][w] # worker[s]
    /\ status' = [status EXCEPT ![s][w] = worker[s]]
    /\ UNCHANGED <<used, store, logs, worker, client, answer, exited>>

\* Mutant: the outcome is saved before the logs are written.
Then_SavesFirst(step) == IF step \in {"SUCCESS", "FAILED"} THEN "done" ELSE "git"

\* What follows an assignment of Status.
Then(step) == IF step \in {"SUCCESS", "FAILED"} THEN "logs" ELSE "git"

\* Both words are written; COMPILING is saved at once.
StatusWritten(s) ==
    /\ worker[s] \in Statuses /\ \A w \in Words : status[s][w] = worker[s]
    /\ worker' = [worker EXCEPT ![s] = Then(worker[s])]
    /\ store' = IF worker[s] = "COMPILING" THEN store \cup {s} ELSE store
    /\ UNCHANGED <<used, status, logs, client, answer, exited>>

\* Mutant: a clone that failed is left for another attempt.
Outcomes_Retry == {"SUCCESS", "PENDING"}

\* git clone ends with an error or without.
Outcomes == {"SUCCESS", "FAILED"}

CloneEnds(s) ==
    /\ worker[s] = "git"
    /\ \E outcome \in Outcomes : worker' = [worker EXCEPT ![s] = outcome]
    /\ UNCHANGED <<used, store, status, logs, client, answer, exited>>

\* The two words of sub.Logs, in either order, then the last Save.
WriteLogs(s) ==
    /\ worker[s] = "logs"
    /\ \/ /\ logs[s] # Torn
          /\ logs' = [logs EXCEPT ![s] = Torn]
          /\ UNCHANGED worker
       \/ /\ logs[s] = Torn
          /\ logs' = [logs EXCEPT ![s] = status[s]["text"]]
          /\ worker' = [worker EXCEPT ![s] = "save"]
    /\ UNCHANGED <<used, store, status, client, answer, exited>>

SaveOutcome(s) ==
    /\ worker[s] = "save"
    /\ worker' = [worker EXCEPT ![s] = "done"]
    /\ store' = store \cup {s}
    /\ UNCHANGED <<used, status, logs, client, answer, exited>>

\* The process ends and is started again: the store was in memory, and
\* Shutdown waits for handlers but not for clones.
Exit ==
    /\ ~exited
    /\ exited' = TRUE
    /\ store' = {}
    /\ worker' = [s \in Ids |-> "none"]
    /\ client' = [c \in Clients |-> NoRequest]
    /\ UNCHANGED <<used, status, logs, answer>>

Clone(s) ==
    \/ StatusWritten(s) \/ CloneEnds(s) \/ WriteLogs(s) \/ SaveOutcome(s)
    \/ \E w \in Words : WriteStatus(s, w)

Next ==
    \/ Exit
    \/ \E c \in Clients :
        \/ SaveFile(c) \/ GoClone(c) \/ ReadLogs(c) \/ \E w \in Words : ReadStatus(c, w)
        \/ \E s \in Ids : Poll(c, s) \/ Post(c, s, "file") \/ Post(c, s, "clone")
    \/ \E s \in Ids : Clone(s)

Spec == Init /\ [][Next]_vars

-----------------------------------------------------------------------------
\* A poll that starts after the clone's last Save (handler.go:161) is answered
\* with one whole status, an outcome, and the logs of that outcome, although
\* nothing guards the fields themselves.
SettledIsWhole ==
    \A c \in Clients, s \in Ids :
        LET a == answer[c][s]
        IN  a.settled => a.text = a.size /\ a.text = a.logs /\ a.logs \in {"SUCCESS", "FAILED"}

Rank(v) == CASE v = "PENDING" -> 1 [] v = "COMPILING" -> 2 [] v \in {"SUCCESS", "FAILED"} -> 3 [] OTHER -> 0

\* The status text a client is shown never goes back from one answer to the
\* next, however its polls fall between the goroutine's writes.
PollsNeverGoBack ==
    [][\A c \in Clients, s \in Ids :
        answer'[c][s].code = "200" => Rank(answer[c][s].text) <= Rank(answer'[c][s].text)]_vars
=============================================================================
