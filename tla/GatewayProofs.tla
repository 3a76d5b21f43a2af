--------------------------- MODULE GatewayProofs ---------------------------
(***************************************************************************)
(* Proofs about the two services that clients reach directly: the           *)
(* submission service (Submission), for any clients and submissions, and    *)
(* the FIX gateway (FixParser, FixSession), for any data.                   *)
(***************************************************************************)
EXTENDS Submission, FixSession, WellFoundedInduction, TLAPS

Seen == Statuses \cup {Unread}
Steps == Statuses \cup {"none", "git", "logs", "save", "done"}
Request == [pc : {"idle", "file", "clone", "encode"}, id : Ids \cup {NoId}, settled : BOOLEAN,
            text : Seen, size : Seen, logs : {Unread}]

\* The state has the shape of the service's memory; every id a request or the
\* store has was returned by uuid.New.
TypeOK ==
    /\ used \subseteq Ids /\ store \subseteq used
    /\ status \in [Ids -> [Words -> Statuses]]
    /\ worker \in [Ids -> Steps]
    /\ client \in [Clients -> Request]
    /\ \A c \in Clients : client[c].pc # "idle" => client[c].id \in used
    /\ DOMAIN logs = Ids /\ DOMAIN answer = Clients
    /\ \A c \in Clients : DOMAIN answer[c] = Ids

\* The goroutine's step tells what it has written so far.
WrittenInv ==
    \A s \in Ids :
        /\ worker[s] # "PENDING"
        /\ worker[s] = "COMPILING" => \A w \in Words : status[s][w] \in {"PENDING", "COMPILING"}
        /\ worker[s] = "git" => \A w \in Words : status[s][w] = "COMPILING"
        /\ worker[s] \in Outcomes => \A w \in Words : status[s][w] \in {"COMPILING", worker[s]}
        /\ worker[s] \in {"logs", "save", "done"} =>
            status[s]["text"] \in Outcomes /\ status[s]["size"] = status[s]["text"]
        /\ worker[s] \in {"save", "done"} => logs[s] = status[s]["text"]

\* A goroutine starts on a submission that nobody has written, and is the only
\* one to start on it.
Untouched(s) == worker[s] = "none" /\ \A w \in Words : status[s][w] = "PENDING"

StartInv ==
    /\ \A s \in Ids \ used : Untouched(s)
    /\ \A c \in Clients : client[c].pc = "clone" => Untouched(client[c].id)
    /\ \A c, d \in Clients : client[c].pc = "clone" /\ client[d].pc = "clone"
                                /\ client[c].id = client[d].id => c = d

\* A request under way that found the submission settled reads what stays.
ReadInv ==
    \A c \in Clients :
        /\ client[c].pc # "encode" => ~client[c].settled /\ client[c].text = Unread
        /\ client[c].settled =>
            /\ worker[client[c].id] = "done"
            /\ \A w \in Words : client[c][w] \in {Unread, status[client[c].id][w]}

\* What a client was answered, what it has read since and what is stored are in
\* the order of a submission's life.
OrderInv ==
    \A c \in Clients :
        /\ \A s \in Ids : Rank(answer[c][s].text) <= Rank(status[s]["text"])
        /\ client[c].text # Unread =>
            /\ Rank(answer[c][client[c].id].text) <= Rank(client[c].text)
            /\ Rank(client[c].text) <= Rank(status[client[c].id]["text"])

SubmissionInv == TypeOK /\ WrittenInv /\ StartInv /\ ReadInv /\ OrderInv /\ SettledIsWhole
-----------------------------------------------------------------------------
\* The order of the statuses.
LEMMA RankValues ==
    /\ Rank(Unread) = 0 /\ Rank("PENDING") = 1 /\ Rank("COMPILING") = 2
    /\ Rank("SUCCESS") = 3 /\ Rank("FAILED") = 3
BY Zenon DEF Rank, Unread

\* A rank is one of four numbers.
LEMMA RankType == ASSUME NEW v PROVE Rank(v) \in Nat /\ Rank(v) <= 3
BY DEF Rank

\* A client without a request has read nothing.
LEMMA NoRequestType ==
    /\ NoRequest \in Request /\ NoRequest.pc = "idle" /\ ~NoRequest.settled
    /\ NoRequest.text = Unread /\ NoRequest.size = Unread
BY Zenon DEF NoRequest, Request, Seen

\* A request is at its id's submission, and its fields are those of Request.
LEMMA RequestFields ==
    ASSUME TypeOK, NEW c \in Clients
    PROVE  /\ client[c] \in Request /\ client[c].settled \in BOOLEAN
           /\ client[c].pc # "idle" => client[c].id \in Ids
           /\ client[c].text \in Seen /\ client[c].size \in Seen
           /\ client[c]["text"] = client[c].text /\ client[c]["size"] = client[c].size
BY Zenon DEF TypeOK, Request

-----------------------------------------------------------------------------
\* What the steps of a request do to it, and that they do nothing to another's.
\* A post starts with nothing read.
LEMMA PostEffect ==
    ASSUME TypeOK, NEW c \in Clients, NEW s \in Ids, NEW next \in {"file", "clone"}, Post(c, s, next)
    PROVE  /\ client' \in [Clients -> Request]
           /\ client'[c].pc = next /\ client'[c].id = s /\ ~client'[c].settled
           /\ client'[c].text = Unread /\ client'[c].size = Unread
           /\ \A d \in Clients \ {c} : client'[d] = client[d]
<1>1. PICK x : x = [NoRequest EXCEPT !.pc = next, !.id = s]
    BY Zenon
<1>2. /\ x \in Request /\ x.pc = next /\ x.id = s /\ x.settled = FALSE
      /\ x.text = Unread /\ x.size = Unread
    BY <1>1, Zenon DEF NoRequest, Request, Seen
<1>3. client' = [client EXCEPT ![c] = x] /\ client \in [Clients -> Request]
    BY <1>1, Zenon DEF Post, TypeOK
<1>4. client'[c] = x /\ \A d \in Clients \ {c} : client'[d] = client[d]
    BY <1>3, Zenon
<1>5. client' \in [Clients -> Request]
    BY <1>2, <1>3, Zenon
<1> QED BY <1>2, <1>4, <1>5, Zenon

\* handleUpload goes on to its answer, or fails and is over.
LEMMA SaveFileEffect ==
    ASSUME TypeOK, NEW c \in Clients, SaveFile(c)
    PROVE  /\ client' \in [Clients -> Request]
           /\ client'[c].pc \in {"idle", "encode"}
           /\ client'[c].pc = "encode" => client'[c].id = client[c].id
           /\ client'[c].settled => client[c].settled
           /\ client'[c].text \in {client[c].text, Unread} /\ client'[c].size \in {client[c].size, Unread}
           /\ \A d \in Clients \ {c} : client'[d] = client[d]
<1>1. PICK x \in {[client[c] EXCEPT !.pc = "encode"], NoRequest} : client' = [client EXCEPT ![c] = x]
    BY Zenon DEF SaveFile
<1>2. client \in [Clients -> Request]
    BY Zenon DEF TypeOK
<1>3. /\ x \in Request /\ x.pc \in {"idle", "encode"} /\ (x.pc = "encode" => x.id = client[c].id)
      /\ (x.settled => client[c].settled)
      /\ x.text \in {client[c].text, Unread} /\ x.size \in {client[c].size, Unread}
  <2>1. CASE x = NoRequest
    BY <2>1, NoRequestType, Zenon
  <2>2. CASE x = [client[c] EXCEPT !.pc = "encode"]
    BY <1>2, <2>2, Zenon DEF Request
  <2> QED BY <2>1, <2>2, Zenon
<1>4. client'[c] = x /\ \A d \in Clients \ {c} : client'[d] = client[d]
    BY <1>1, <1>2, Zenon
<1>5. client' \in [Clients -> Request]
    BY <1>1, <1>2, <1>3, Zenon
<1> QED BY <1>3, <1>4, <1>5, Zenon

\* handleGitSubmission goes on to its answer.
LEMMA GoCloneEffect ==
    ASSUME TypeOK, NEW c \in Clients, GoClone(c)
    PROVE  /\ client' \in [Clients -> Request]
           /\ client'[c].pc = "encode" /\ client'[c].id = client[c].id
           /\ client'[c].settled = client[c].settled
           /\ client'[c].text = client[c].text /\ client'[c].size = client[c].size
           /\ \A d \in Clients \ {c} : client'[d] = client[d]
<1>1. client' = [client EXCEPT ![c].pc = "encode"] /\ client \in [Clients -> Request]
    BY Zenon DEF GoClone, TypeOK
<1>2. PICK x : x = [client[c] EXCEPT !.pc = "encode"]
    BY Zenon
<1>3. /\ x \in Request /\ x.pc = "encode" /\ x.id = client[c].id /\ x.settled = client[c].settled
      /\ x.text = client[c].text /\ x.size = client[c].size
    BY <1>1, <1>2, Zenon DEF Request
<1>4. client'[c] = x /\ \A d \in Clients \ {c} : client'[d] = client[d]
    BY <1>1, <1>2, Zenon
<1>5. client' \in [Clients -> Request]
    BY <1>1, <1>2, <1>3, Zenon
<1> QED BY <1>3, <1>4, <1>5, Zenon

\* handleGetStatus finds the submission and has read nothing of it yet.
LEMMA PollEffect ==
    ASSUME TypeOK, NEW c \in Clients, NEW s \in Ids, Poll(c, s), s \in store
    PROVE  /\ client' \in [Clients -> Request] /\ answer' = answer
           /\ client'[c].pc = "encode" /\ client'[c].id = s /\ (client'[c].settled <=> Settled(s))
           /\ client'[c].text = Unread /\ client'[c].size = Unread
           /\ \A d \in Clients \ {c} : client'[d] = client[d]
<1>1. PICK x : x = [NoRequest EXCEPT !.pc = "encode", !.id = s, !.settled = Settled(s)]
    BY Zenon
<1>2. /\ x \in Request /\ x.pc = "encode" /\ x.id = s /\ x.settled = Settled(s)
      /\ x.text = Unread /\ x.size = Unread
    BY <1>1, Zenon DEF NoRequest, Request, Seen, Settled
<1>3. client' = [client EXCEPT ![c] = x] /\ client \in [Clients -> Request] /\ answer' = answer
    BY <1>1, Zenon DEF Poll, TypeOK
<1>4. client'[c] = x /\ \A d \in Clients \ {c} : client'[d] = client[d]
    BY <1>3, Zenon
<1>5. client' \in [Clients -> Request]
    BY <1>2, <1>3, Zenon
<1> QED BY <1>2, <1>3, <1>4, <1>5, Zenon

\* The encoder reads one word and keeps the other.
LEMMA ReadStatusEffect ==
    ASSUME TypeOK, NEW c \in Clients, NEW w \in Words, ReadStatus(c, w)
    PROVE  /\ client' \in [Clients -> Request]
           /\ client'[c].pc = "encode" /\ client'[c].id = client[c].id
           /\ client'[c].settled = client[c].settled
           /\ client'[c].text = IF w = "text" THEN status[client[c].id]["text"] ELSE client[c].text
           /\ client'[c].size = IF w = "size" THEN status[client[c].id]["size"] ELSE client[c].size
           /\ \A d \in Clients \ {c} : client'[d] = client[d]
<1>1. /\ client \in [Clients -> Request] /\ client[c].pc = "encode" /\ client[c].id \in Ids
      /\ status[client[c].id][w] \in Statuses
    BY RequestFields, Zenon DEF ReadStatus, TypeOK
<1>0. PICK v \in Statuses : v = status[client[c].id][w]
    BY <1>1, Zenon
<1>2. PICK x : x = [client[c] EXCEPT ![w] = v]
    BY Zenon
<1>3. client' = [client EXCEPT ![c] = x]
    BY <1>0, <1>2, Zenon DEF ReadStatus
<1>4. /\ x \in Request /\ x.pc = "encode" /\ x.id = client[c].id /\ x.settled = client[c].settled
      /\ x.text = (IF w = "text" THEN v ELSE client[c].text)
      /\ x.size = (IF w = "size" THEN v ELSE client[c].size)
  <2>1. CASE w = "text"
    BY <1>1, <1>2, <2>1, Zenon DEF Request, Seen
  <2>2. CASE w = "size"
    BY <1>1, <1>2, <2>2, Zenon DEF Request, Seen
  <2> QED BY <2>1, <2>2, Zenon DEF Words
<1>5. client'[c] = x /\ \A d \in Clients \ {c} : client'[d] = client[d]
    BY <1>1, <1>3, Zenon
<1>6. client' \in [Clients -> Request]
    BY <1>1, <1>3, <1>4, Zenon
<1> QED BY <1>0, <1>4, <1>5, <1>6, Zenon

\* The answer is sent to this client about this submission and to no other, or
\* to none.
LEMMA ReadLogsEffect ==
    ASSUME TypeOK, NEW c \in Clients, ReadLogs(c)
    PROVE  /\ client' \in [Clients -> Request] /\ client'[c] = NoRequest
           /\ \A d \in Clients \ {c} : client'[d] = client[d]
           /\ client[c].pc = "encode" /\ client[c].id \in Ids
           /\ client[c].text # Unread /\ client[c].size # Unread
           /\ DOMAIN answer' = Clients /\ \A d \in Clients : DOMAIN answer'[d] = Ids
           /\ \A d \in Clients, s \in Ids : d # c \/ s # client[c].id => answer'[d][s] = answer[d][s]
           /\ \/ answer' = answer
              \/ answer'[c][client[c].id] =
                    [code |-> "200", text |-> client[c].text, size |-> client[c].size,
                     logs |-> LogsRead(client[c].id), settled |-> client[c].settled]
<1>1. /\ client \in [Clients -> Request] /\ client' = [client EXCEPT ![c] = NoRequest]
      /\ client[c].pc = "encode" /\ client[c].text # Unread /\ client[c].size # Unread
    BY Zenon DEF ReadLogs, TypeOK
<1>2. client[c].id \in Ids
    BY <1>1, RequestFields, Zenon
<1>3. /\ client' \in [Clients -> Request] /\ client'[c] = NoRequest
      /\ \A d \in Clients \ {c} : client'[d] = client[d]
    BY <1>1, NoRequestType, Zenon
<1>4. PICK i \in Ids : i = client[c].id
    BY <1>2, Zenon
<1>4a. PICK a : a = [code |-> "200", text |-> client[c].text, size |-> client[c].size,
                     logs |-> LogsRead(client[c].id), settled |-> client[c].settled]
    BY Zenon
<1>5. answer' = answer \/ answer' = [answer EXCEPT ![c][i] = a]
    BY <1>4, <1>4a, Zenon DEF ReadLogs
<1>6. DOMAIN answer = Clients /\ \A d \in Clients : DOMAIN answer[d] = Ids
    BY Zenon DEF TypeOK
<1>7. /\ DOMAIN answer' = Clients /\ (\A d \in Clients : DOMAIN answer'[d] = Ids)
      /\ answer' = answer \/ answer'[c][i] = a
      /\ \A d \in Clients, s \in Ids : d # c \/ s # i => answer'[d][s] = answer[d][s]
    BY <1>5, <1>6, ZenonT(30)
<1> QED BY <1>1, <1>2, <1>3, <1>4, <1>4a, <1>7, Zenon

\* handleGetStatus answers that there is no such submission.
LEMMA PollNotFound ==
    ASSUME TypeOK, NEW c \in Clients, NEW s \in Ids, Poll(c, s), s \notin store
    PROVE  /\ client' = client
           /\ DOMAIN answer' = Clients /\ \A d \in Clients : DOMAIN answer'[d] = Ids
           /\ \A d \in Clients, t \in Ids : d # c \/ t # s => answer'[d][t] = answer[d][t]
           /\ answer'[c][s].code = "404" /\ answer'[c][s].text = Unread /\ ~answer'[c][s].settled
<1>1. PICK a : a = [NoAnswer EXCEPT !.code = "404"]
    BY Zenon
<1>2. a.code = "404" /\ a.text = Unread /\ a.settled = FALSE
    BY <1>1, Zenon DEF NoAnswer
<1>3. answer' = [answer EXCEPT ![c][s] = a] /\ client' = client
    BY <1>1, Zenon DEF Poll
<1>4. DOMAIN answer = Clients /\ \A d \in Clients : DOMAIN answer[d] = Ids
    BY Zenon DEF TypeOK
<1>5. /\ DOMAIN answer' = Clients /\ (\A d \in Clients : DOMAIN answer'[d] = Ids)
      /\ answer'[c][s] = a
      /\ \A d \in Clients, t \in Ids : d # c \/ t # s => answer'[d][t] = answer[d][t]
    BY <1>3, <1>4, ZenonT(30)
<1> QED BY <1>2, <1>3, <1>5, Zenon
-----------------------------------------------------------------------------
\* A word that the goroutine assigns.
LEMMA WriteEffect ==
    ASSUME TypeOK, NEW s \in Ids, NEW w \in Words, WriteStatus(s, w)
    PROVE  /\ worker[s] \in Statuses
           /\ status' \in [Ids -> [Words -> Statuses]]
           /\ \A t \in Ids, v \in Words :
                status'[t][v] = IF t = s /\ v = w THEN worker[s] ELSE status[t][v]
<1>1. /\ status \in [Ids -> [Words -> Statuses]] /\ worker[s] \in Statuses
      /\ status' = [status EXCEPT ![s][w] = worker[s]]
    BY Zenon DEF TypeOK, WriteStatus
<1> QED BY <1>1, Zenon

\* The goroutine goes on to its next step.
LEMMA WorkerEffect ==
    ASSUME TypeOK, NEW s \in Ids, NEW step \in Steps, worker' = [worker EXCEPT ![s] = step]
    PROVE  worker' \in [Ids -> Steps] /\ \A t \in Ids : worker'[t] = IF t = s THEN step ELSE worker[t]
BY Zenon DEF TypeOK

\* The goroutine's steps but the assignments: only its own submission's step
\* changes, and the logs in one of them.
LEMMA CloneEffect ==
    ASSUME TypeOK, NEW s \in Ids,
           StatusWritten(s) \/ CloneEnds(s) \/ WriteLogs(s) \/ SaveOutcome(s)
    PROVE  /\ worker' \in [Ids -> Steps]
           /\ \A t \in Ids \ {s} : worker'[t] = worker[t]
           /\ status' = status /\ client' = client /\ answer' = answer /\ used' = used
           /\ \/ /\ worker[s] \in Statuses /\ \A w \in Words : status[s][w] = worker[s]
                 /\ worker'[s] = Then(worker[s]) /\ logs' = logs
              \/ worker[s] = "git" /\ worker'[s] \in Outcomes /\ logs' = logs
              \/ worker[s] = "logs" /\ worker'[s] = "logs" /\ logs' = [logs EXCEPT ![s] = Torn]
              \/ /\ worker[s] = "logs" /\ worker'[s] = "save"
                 /\ logs' = [logs EXCEPT ![s] = status[s]["text"]]
              \/ worker[s] = "save" /\ worker'[s] = "done" /\ logs' = logs
<1>1. PICK step \in Steps :
        /\ worker' = [worker EXCEPT ![s] = step]
        /\ \/ /\ worker[s] \in Statuses /\ \A w \in Words : status[s][w] = worker[s]
              /\ step = Then(worker[s]) /\ logs' = logs
           \/ worker[s] = "git" /\ step \in Outcomes /\ logs' = logs
           \/ worker[s] = "logs" /\ step = "logs" /\ logs' = [logs EXCEPT ![s] = Torn]
           \/ /\ worker[s] = "logs" /\ step = "save"
              /\ logs' = [logs EXCEPT ![s] = status[s]["text"]]
           \/ worker[s] = "save" /\ step = "done" /\ logs' = logs
  <2>1. CASE StatusWritten(s)
    BY <2>1, Zenon DEF StatusWritten, Then, Steps
  <2>2. CASE CloneEnds(s)
    BY <2>2, Zenon DEF CloneEnds, Outcomes, Steps, Statuses
  <2>3. CASE WriteLogs(s)
    BY <2>3, Zenon DEF WriteLogs, Steps, TypeOK
  <2>4. CASE SaveOutcome(s)
    BY <2>4, Zenon DEF SaveOutcome, Steps
  <2> QED BY <2>1, <2>2, <2>3, <2>4, Zenon
<1>2. worker' \in [Ids -> Steps] /\ \A t \in Ids : worker'[t] = IF t = s THEN step ELSE worker[t]
    BY <1>1, WorkerEffect, Zenon
<1>3. status' = status /\ client' = client /\ answer' = answer /\ used' = used
    BY Zenon DEF StatusWritten, CloneEnds, WriteLogs, SaveOutcome
<1> QED BY <1>1, <1>2, <1>3, Zenon

-----------------------------------------------------------------------------
\* Every step preserves the types.
LEMMA TypesNext == TypeOK /\ StartInv /\ [Next]_vars => TypeOK'
<1> SUFFICES ASSUME TypeOK, StartInv, [Next]_vars PROVE TypeOK'
    BY Zenon
<1>0. /\ used \subseteq Ids /\ store \subseteq used
      /\ status \in [Ids -> [Words -> Statuses]] /\ worker \in [Ids -> Steps]
      /\ client \in [Clients -> Request]
      /\ \A c \in Clients : client[c].pc # "idle" => client[c].id \in used
      /\ DOMAIN logs = Ids /\ DOMAIN answer = Clients
      /\ \A c \in Clients : DOMAIN answer[c] = Ids
    BY Zenon DEF TypeOK
<1>1. CASE Exit
  <2>1. worker' \in [Ids -> Steps]
    BY <1>1, Zenon DEF Exit, Steps
  <2>2. client' \in [Clients -> Request] /\ \A c \in Clients : client'[c].pc = "idle"
    BY <1>1, NoRequestType, Zenon DEF Exit
  <2> QED BY <1>0, <1>1, <2>1, <2>2, Zenon DEF Exit, TypeOK
<1>2. ASSUME NEW c \in Clients, NEW s \in Ids, NEW next \in {"file", "clone"}, Post(c, s, next)
      PROVE  TypeOK'
  <2>1. /\ used' = used \cup {s} /\ store' = store \cup {s}
        /\ UNCHANGED <<status, logs, worker, answer>>
    BY <1>2, Zenon DEF Post, Stored
  <2>2. /\ client' \in [Clients -> Request]
        /\ client'[c].id = s /\ \A d \in Clients \ {c} : client'[d] = client[d]
    BY <1>2, PostEffect, Zenon
  <2>3. \A d \in Clients : client'[d].pc # "idle" => client'[d].id \in used'
    BY <1>0, <2>1, <2>2, Zenon
  <2> QED BY <1>0, <2>1, <2>2, <2>3, Zenon DEF TypeOK
<1>3. ASSUME NEW c \in Clients, SaveFile(c) PROVE TypeOK'
  <2>1. UNCHANGED <<used, store, status, logs, worker, answer>> /\ client[c].pc # "idle"
    BY <1>3, Zenon DEF SaveFile
  <2>2. /\ client' \in [Clients -> Request]
        /\ client'[c].pc # "idle" => client'[c].id = client[c].id
        /\ \A d \in Clients \ {c} : client'[d] = client[d]
    BY <1>3, SaveFileEffect, Zenon
  <2>3. \A d \in Clients : client'[d].pc # "idle" => client'[d].id \in used'
    BY <1>0, <2>1, <2>2, Zenon
  <2> QED BY <1>0, <2>1, <2>2, <2>3, Zenon DEF TypeOK
<1>4. ASSUME NEW c \in Clients, GoClone(c) PROVE TypeOK'
  <2>1. /\ UNCHANGED <<used, store, status, logs, answer>> /\ client[c].pc # "idle"
        /\ worker' = [worker EXCEPT ![client[c].id] = "COMPILING"]
    BY <1>4, Zenon DEF GoClone
  <2>2. /\ client' \in [Clients -> Request] /\ client'[c].id = client[c].id
        /\ \A d \in Clients \ {c} : client'[d] = client[d]
    BY <1>4, GoCloneEffect, Zenon
  <2>3. \A d \in Clients : client'[d].pc # "idle" => client'[d].id \in used'
    BY <1>0, <2>1, <2>2, Zenon
  <2>4. worker' \in [Ids -> Steps]
    BY <1>0, <2>1, Zenon DEF Steps, Statuses
  <2> QED BY <1>0, <2>1, <2>2, <2>3, <2>4, Zenon DEF TypeOK
<1>5. ASSUME NEW c \in Clients, NEW s \in Ids, Poll(c, s) PROVE TypeOK'
  <2>1. UNCHANGED <<used, store, status, logs, worker>>
    BY <1>5, Zenon DEF Poll
  <2>2. CASE s \in store
    <3>1. /\ client' \in [Clients -> Request] /\ client'[c].id = s /\ answer' = answer
          /\ \A d \in Clients \ {c} : client'[d] = client[d]
      BY <1>5, <2>2, PollEffect, Zenon
    <3>2. \A d \in Clients : client'[d].pc # "idle" => client'[d].id \in used'
      BY <1>0, <2>1, <2>2, <3>1, Zenon
    <3> QED BY <1>0, <2>1, <3>1, <3>2, Zenon DEF TypeOK
  <2>3. CASE s \notin store
    <3>1. client' = client /\ DOMAIN answer' = Clients /\ \A d \in Clients : DOMAIN answer'[d] = Ids
      BY <1>5, <2>3, PollNotFound, Zenon
    <3> QED BY <1>0, <2>1, <3>1, Zenon DEF TypeOK
  <2> QED BY <2>2, <2>3, Zenon
<1>6. ASSUME NEW c \in Clients, NEW w \in Words, ReadStatus(c, w) PROVE TypeOK'
  <2>1. UNCHANGED <<used, store, status, logs, worker, answer>> /\ client[c].pc # "idle"
    BY <1>6, Zenon DEF ReadStatus
  <2>2. /\ client' \in [Clients -> Request] /\ client'[c].id = client[c].id
        /\ \A d \in Clients \ {c} : client'[d] = client[d]
    BY <1>6, ReadStatusEffect, Zenon
  <2>3. \A d \in Clients : client'[d].pc # "idle" => client'[d].id \in used'
    BY <1>0, <2>1, <2>2, Zenon
  <2> QED BY <1>0, <2>1, <2>2, <2>3, Zenon DEF TypeOK
<1>7. ASSUME NEW c \in Clients, ReadLogs(c) PROVE TypeOK'
  <2>1. UNCHANGED <<used, store, status, logs, worker>>
    BY <1>7, Zenon DEF ReadLogs
  <2>2. /\ client' \in [Clients -> Request] /\ client'[c].pc = "idle"
        /\ \A d \in Clients \ {c} : client'[d] = client[d]
        /\ DOMAIN answer' = Clients /\ \A d \in Clients : DOMAIN answer'[d] = Ids
    BY <1>7, ReadLogsEffect, NoRequestType, Zenon
  <2>3. \A d \in Clients : client'[d].pc # "idle" => client'[d].id \in used'
    BY <1>0, <2>1, <2>2, Zenon
  <2> QED BY <1>0, <2>1, <2>2, <2>3, Zenon DEF TypeOK
<1>8. ASSUME NEW s \in Ids, NEW w \in Words, WriteStatus(s, w) PROVE TypeOK'
  <2>1. UNCHANGED <<used, store, logs, worker, client, answer>>
    BY <1>8, Zenon DEF WriteStatus
  <2>2. status' \in [Ids -> [Words -> Statuses]]
    BY <1>8, WriteEffect, Zenon
  <2> QED BY <1>0, <2>1, <2>2, Zenon DEF TypeOK
<1>9. ASSUME NEW s \in Ids, StatusWritten(s) \/ CloneEnds(s) \/ WriteLogs(s) \/ SaveOutcome(s)
      PROVE  TypeOK'
  <2>0. s \in used
    BY <1>9, CloneEffect, Zenon DEF StartInv, Untouched, Statuses
  <2>1. /\ worker' \in [Ids -> Steps] /\ UNCHANGED <<status, client, answer, used>>
        /\ DOMAIN logs' = Ids
    BY <1>0, <1>9, CloneEffect, Zenon
  <2>2. store' \subseteq used
    BY <1>0, <1>9, <2>0, Zenon DEF StatusWritten, CloneEnds, WriteLogs, SaveOutcome
  <2> QED BY <1>0, <2>1, <2>2, Zenon DEF TypeOK
<1>10. CASE UNCHANGED vars
    BY <1>0, <1>10, Zenon DEF vars, TypeOK
<1> QED BY <1>1, <1>2, <1>3, <1>4, <1>5, <1>6, <1>7, <1>8, <1>9, <1>10, Zenon DEF Next, Clone
-----------------------------------------------------------------------------
Same(s) == status'[s] = status[s] /\ logs'[s] = logs[s]

\* What a step of the service does to one submission.
LEMMA WorkStep ==
    ASSUME TypeOK, StartInv, [Next]_vars, NEW s \in Ids
    PROVE  \/ worker'[s] = worker[s] /\ Same(s)
           \/ Exit /\ worker'[s] = "none" /\ Same(s)
           \/ /\ Untouched(s) /\ worker'[s] = "COMPILING" /\ Same(s)
              /\ \E c \in Clients : GoClone(c) /\ client[c].id = s
           \/ /\ worker[s] \in Statuses /\ worker'[s] = worker[s] /\ logs'[s] = logs[s]
              /\ \A v \in Words : status'[s][v] \in {status[s][v], worker[s]}
           \/ /\ worker[s] \in Statuses /\ \A v \in Words : status[s][v] = worker[s]
              /\ worker'[s] = Then(worker[s]) /\ Same(s)
           \/ worker[s] = "git" /\ worker'[s] \in Outcomes /\ Same(s)
           \/ worker[s] = "logs" /\ worker'[s] = "logs" /\ status'[s] = status[s]
           \/ /\ worker[s] = "logs" /\ worker'[s] = "save"
              /\ status'[s] = status[s] /\ logs'[s] = status[s]["text"]
           \/ worker[s] = "save" /\ worker'[s] = "done" /\ Same(s)
<1>0. worker \in [Ids -> Steps] /\ DOMAIN logs = Ids
    BY Zenon DEF TypeOK
<1>1. CASE Exit
    BY <1>1, Zenon DEF Exit, Same
<1>2. ASSUME NEW c \in Clients, NEW t \in Ids, NEW next \in {"file", "clone"}, Post(c, t, next)
      PROVE  worker'[s] = worker[s] /\ Same(s)
    BY <1>2, Zenon DEF Post, Same
<1>3. ASSUME NEW c \in Clients, SaveFile(c) \/ ReadLogs(c) \/ \E w \in Words : ReadStatus(c, w)
      PROVE  worker'[s] = worker[s] /\ Same(s)
    BY <1>3, Zenon DEF SaveFile, ReadLogs, ReadStatus, Same
<1>4. ASSUME NEW c \in Clients, GoClone(c)
      PROVE  \/ worker'[s] = worker[s] /\ Same(s)
             \/ Untouched(s) /\ worker'[s] = "COMPILING" /\ Same(s) /\ client[c].id = s
  <2>1. /\ worker' = [worker EXCEPT ![client[c].id] = "COMPILING"] /\ Same(s)
        /\ Untouched(client[c].id)
    BY <1>4, Zenon DEF GoClone, Same, StartInv
  <2> QED BY <1>0, <2>1, Zenon
<1>5. ASSUME NEW c \in Clients, NEW t \in Ids, Poll(c, t)
      PROVE  worker'[s] = worker[s] /\ Same(s)
    BY <1>5, Zenon DEF Poll, Same
<1>6. ASSUME NEW t \in Ids, NEW w \in Words, WriteStatus(t, w)
      PROVE  \/ worker'[s] = worker[s] /\ Same(s)
             \/ /\ worker[s] \in Statuses /\ worker'[s] = worker[s] /\ logs'[s] = logs[s]
                /\ \A v \in Words : status'[s][v] \in {status[s][v], worker[s]}
  <2>1. worker' = worker /\ logs' = logs /\ status' = [status EXCEPT ![t][w] = worker[t]]
    BY <1>6, Zenon DEF WriteStatus
  <2>2. CASE s = t
    BY <1>6, <2>1, <2>2, WriteEffect, Zenon
  <2>3. CASE s # t
    BY <2>1, <2>3, Zenon DEF Same, TypeOK
  <2> QED BY <2>2, <2>3, Zenon
<1>7. ASSUME NEW t \in Ids, StatusWritten(t) \/ CloneEnds(t) \/ WriteLogs(t) \/ SaveOutcome(t)
      PROVE  \/ worker'[s] = worker[s] /\ Same(s)
             \/ /\ worker[s] \in Statuses /\ \A v \in Words : status[s][v] = worker[s]
                /\ worker'[s] = Then(worker[s]) /\ Same(s)
             \/ worker[s] = "git" /\ worker'[s] \in Outcomes /\ Same(s)
             \/ worker[s] = "logs" /\ worker'[s] = "logs" /\ status'[s] = status[s]
             \/ /\ worker[s] = "logs" /\ worker'[s] = "save"
                /\ status'[s] = status[s] /\ logs'[s] = status[s]["text"]
             \/ worker[s] = "save" /\ worker'[s] = "done" /\ Same(s)
  <2>1. CASE s = t
    BY <1>0, <1>7, <2>1, CloneEffect, Zenon DEF Same
  <2>2. CASE s # t
    BY <1>0, <1>7, <2>2, CloneEffect, Zenon DEF Same
  <2> QED BY <2>1, <2>2, Zenon
<1>8. CASE UNCHANGED vars
    BY <1>8, Zenon DEF vars, Same
<1> QED BY <1>1, <1>2, <1>3, <1>4, <1>5, <1>6, <1>7, <1>8, ZenonT(30) DEF Next, Clone

\* Every step preserves what the goroutine's step tells.
LEMMA WrittenNext == TypeOK /\ WrittenInv /\ StartInv /\ [Next]_vars => WrittenInv'
<1> SUFFICES ASSUME TypeOK, WrittenInv, StartInv, [Next]_vars, NEW s \in Ids
             PROVE  /\ worker'[s] # "PENDING"
                    /\ worker'[s] = "COMPILING" =>
                        \A w \in Words : status'[s][w] \in {"PENDING", "COMPILING"}
                    /\ worker'[s] = "git" => \A w \in Words : status'[s][w] = "COMPILING"
                    /\ worker'[s] \in Outcomes =>
                        \A w \in Words : status'[s][w] \in {"COMPILING", worker'[s]}
                    /\ worker'[s] \in {"logs", "save", "done"} =>
                        status'[s]["text"] \in Outcomes /\ status'[s]["size"] = status'[s]["text"]
                    /\ worker'[s] \in {"save", "done"} => logs'[s] = status'[s]["text"]
    BY Zenon DEF WrittenInv
<1>0. /\ worker[s] # "PENDING"
      /\ worker[s] = "COMPILING" => \A w \in Words : status[s][w] \in {"PENDING", "COMPILING"}
      /\ worker[s] = "git" => \A w \in Words : status[s][w] = "COMPILING"
      /\ worker[s] \in Outcomes => \A w \in Words : status[s][w] \in {"COMPILING", worker[s]}
      /\ worker[s] \in {"logs", "save", "done"} =>
            status[s]["text"] \in Outcomes /\ status[s]["size"] = status[s]["text"]
      /\ worker[s] \in {"save", "done"} => logs[s] = status[s]["text"]
    BY Zenon DEF WrittenInv
<1>1. CASE worker'[s] = worker[s] /\ Same(s)
    BY <1>0, <1>1, Zenon DEF Same
<1>2. CASE worker'[s] = "none" /\ Same(s)
    BY <1>2, Zenon DEF Outcomes
<1>3. CASE Untouched(s) /\ worker'[s] = "COMPILING" /\ Same(s)
    BY <1>3, Zenon DEF Untouched, Outcomes, Same
<1>4. CASE /\ worker[s] \in Statuses /\ worker'[s] = worker[s] /\ logs'[s] = logs[s]
           /\ \A v \in Words : status'[s][v] \in {status[s][v], worker[s]}
    BY <1>0, <1>4, Zenon DEF Statuses, Outcomes
<1>5. CASE /\ worker[s] \in Statuses /\ \A v \in Words : status[s][v] = worker[s]
           /\ worker'[s] = Then(worker[s]) /\ Same(s)
    BY <1>0, <1>5, Zenon DEF Statuses, Outcomes, Then, Same, Words
<1>6. CASE worker[s] = "git" /\ worker'[s] \in Outcomes /\ Same(s)
    BY <1>0, <1>6, Zenon DEF Outcomes, Same
<1>7. CASE /\ worker[s] = "logs" /\ worker'[s] = "save"
           /\ status'[s] = status[s] /\ logs'[s] = status[s]["text"]
    BY <1>0, <1>7, Zenon DEF Outcomes
<1>8. CASE worker[s] = "save" /\ worker'[s] = "done" /\ Same(s)
    BY <1>0, <1>8, Zenon DEF Outcomes, Same
<1>9. CASE worker[s] = "logs" /\ worker'[s] = "logs" /\ status'[s] = status[s]
    BY <1>0, <1>9, Zenon DEF Outcomes
<1> QED BY <1>1, <1>2, <1>3, <1>4, <1>5, <1>6, <1>7, <1>8, <1>9, WorkStep, Zenon

\* The stored status never goes back, and a settled submission stays as it is
\* for as long as the process runs.
LEMMA StatusRises ==
    ASSUME TypeOK, WrittenInv, StartInv, [Next]_vars, NEW s \in Ids
    PROVE  /\ Rank(status[s]["text"]) <= Rank(status'[s]["text"])
           /\ Settled(s) /\ ~Exit => worker'[s] = "done" /\ Same(s)
<1>0. /\ status[s]["text"] \in Statuses /\ "text" \in Words
      /\ worker[s] # "PENDING"
      /\ worker[s] = "COMPILING" => status[s]["text"] \in {"PENDING", "COMPILING"}
      /\ worker[s] \in Outcomes => status[s]["text"] \in {"COMPILING", worker[s]}
    BY Zenon DEF WrittenInv, TypeOK, Words
<1>1. Rank(status[s]["text"]) <= Rank(status'[s]["text"])
  <2>1. CASE status'[s]["text"] = status[s]["text"]
    BY <2>1, RankType
  <2>2. CASE worker[s] \in Statuses /\ status'[s]["text"] = worker[s]
    BY <1>0, <2>2, RankValues DEF Statuses, Outcomes
  <2> QED BY <1>0, <2>1, <2>2, WorkStep, Zenon DEF Same
<1>2. Settled(s) /\ ~Exit => worker'[s] = "done" /\ Same(s)
    BY WorkStep, Zenon DEF Settled, Untouched, Statuses
<1> QED BY <1>1, <1>2, Zenon
-----------------------------------------------------------------------------
\* What a step of the service does to one client's request and answers.
Kept(c) == \A s \in Ids : answer'[c][s] = answer[c][s]
Fresh(c) == client'[c].text = Unread /\ client'[c].size = Unread /\ Kept(c)

Dropped(c) == client'[c].pc = "idle" /\ ~client'[c].settled /\ Fresh(c)

Posted(c) ==
    /\ client'[c].pc \in {"file", "clone"} /\ ~client'[c].settled /\ Fresh(c)
    /\ \E s \in Ids, next \in {"file", "clone"} : Post(c, s, next)

Encoding(c) ==
    /\ client[c].pc \in {"file", "clone"} /\ client'[c].pc = "encode" /\ Kept(c)
    /\ client'[c].settled => client[c].settled
    /\ client'[c].text \in {client[c].text, Unread}

Found(c) ==
    /\ client'[c].pc = "encode" /\ client'[c].id \in Ids /\ Fresh(c)
    /\ client'[c].settled => Settled(client'[c].id)

NotFound(c) ==
    /\ client'[c] = client[c]
    /\ \E s \in Ids :
        /\ answer'[c][s].code = "404" /\ answer'[c][s].text = Unread /\ ~answer'[c][s].settled
        /\ \A t \in Ids \ {s} : answer'[c][t] = answer[c][t]
        /\ client[c].pc = "idle"

Reading(c) ==
    /\ client[c].pc = "encode" /\ client'[c].pc = "encode" /\ client'[c].id = client[c].id
    /\ client'[c].settled = client[c].settled /\ Kept(c)
    /\ client'[c].text \in {client[c].text, status[client[c].id]["text"]}
    /\ client'[c].size \in {client[c].size, status[client[c].id]["size"]}

Answered(c) ==
    /\ client[c].pc = "encode" /\ client[c].id \in Ids
    /\ client[c].text # Unread /\ client[c].size # Unread /\ client'[c] = NoRequest
    /\ \A t \in Ids \ {client[c].id} : answer'[c][t] = answer[c][t]
    /\ answer'[c][client[c].id] =
            [code |-> "200", text |-> client[c].text, size |-> client[c].size,
             logs |-> LogsRead(client[c].id), settled |-> client[c].settled]

\* Every step leaves a client's request alone or does one of these to it.
LEMMA RequestStep ==
    ASSUME TypeOK, [Next]_vars, NEW c \in Clients
    PROVE  \/ Dropped(c)
           \/ Posted(c)
           \/ /\ ~Exit
              /\ \/ client'[c] = client[c] /\ Kept(c)
                 \/ Encoding(c) \/ Found(c) \/ NotFound(c) \/ Reading(c) \/ Answered(c)
<1>1. CASE Exit
  <2>1. client'[c] = NoRequest /\ answer' = answer
    BY <1>1, Zenon DEF Exit
  <2> QED BY <2>1, NoRequestType, Zenon DEF Dropped, Fresh, Kept
<1>2. ASSUME NEW d \in Clients, NEW s \in Ids, NEW next \in {"file", "clone"}, Post(d, s, next)
      PROVE  Posted(c) \/ (~Exit /\ client'[c] = client[c] /\ Kept(c))
  <2>1. answer' = answer /\ ~Exit
    BY <1>2, Zenon DEF Post, Exit
  <2>2. Kept(c)
    BY <2>1, Zenon DEF Kept
  <2>3. CASE d = c
    BY <1>2, <2>2, <2>3, PostEffect, Zenon DEF Posted, Fresh
  <2>4. CASE d # c
    BY <1>2, <2>1, <2>2, <2>4, PostEffect, Zenon
  <2> QED BY <2>3, <2>4, Zenon
<1>3. ASSUME NEW d \in Clients, SaveFile(d)
      PROVE  Dropped(c) \/ (~Exit /\ (Encoding(c) \/ (client'[c] = client[c] /\ Kept(c))))
  <2>1. answer' = answer /\ ~Exit /\ client[d].pc = "file"
    BY <1>3, Zenon DEF SaveFile, Exit
  <2>2. Kept(c)
    BY <2>1, Zenon DEF Kept
  <2>3. CASE d = c
    <3>1. PICK x \in {[client[c] EXCEPT !.pc = "encode"], NoRequest} : client' = [client EXCEPT ![c] = x]
      BY <1>3, <2>3, Zenon DEF SaveFile
    <3>2. client'[c] = x /\ client[c] \in Request
      BY <3>1, Zenon DEF TypeOK
    <3>3. CASE x = NoRequest
      BY <2>2, <3>2, <3>3, NoRequestType, Zenon DEF Dropped, Fresh
    <3>4. CASE x = [client[c] EXCEPT !.pc = "encode"]
      <4>1. x.pc = "encode" /\ x.settled = client[c].settled /\ x.text = client[c].text
        BY <3>2, <3>4, Zenon DEF Request
      <4> QED BY <2>1, <2>2, <2>3, <3>2, <4>1, Zenon DEF Encoding
    <3> QED BY <3>1, <3>3, <3>4, Zenon
  <2>4. CASE d # c
    BY <1>3, <2>1, <2>2, <2>4, SaveFileEffect, Zenon
  <2> QED BY <2>3, <2>4, Zenon
<1>4. ASSUME NEW d \in Clients, GoClone(d)
      PROVE  ~Exit /\ (Encoding(c) \/ (client'[c] = client[c] /\ Kept(c)))
  <2>1. answer' = answer /\ ~Exit /\ client[d].pc = "clone"
    BY <1>4, Zenon DEF GoClone, Exit
  <2>2. Kept(c)
    BY <2>1, Zenon DEF Kept
  <2>3. CASE d = c
    BY <1>4, <2>1, <2>2, <2>3, GoCloneEffect, Zenon DEF Encoding
  <2>4. CASE d # c
    BY <1>4, <2>1, <2>2, <2>4, GoCloneEffect, Zenon
  <2> QED BY <2>3, <2>4, Zenon
<1>5. ASSUME NEW d \in Clients, NEW s \in Ids, Poll(d, s)
      PROVE  ~Exit /\ (Found(c) \/ NotFound(c) \/ (client'[c] = client[c] /\ Kept(c)))
  <2>1. ~Exit /\ client[d].pc = "idle"
    BY <1>5, Zenon DEF Poll, Exit
  <2>2. CASE s \in store /\ d = c
    BY <1>5, <2>1, <2>2, PollEffect, Zenon DEF Found, Fresh, Kept
  <2>3. CASE s \in store /\ d # c
    BY <1>5, <2>1, <2>3, PollEffect, Zenon DEF Kept
  <2>4. CASE s \notin store /\ d = c
    BY <1>5, <2>1, <2>4, PollNotFound DEF NotFound
  <2>5. CASE s \notin store /\ d # c
    BY <1>5, <2>1, <2>5, PollNotFound, Zenon DEF Kept
  <2> QED BY <2>2, <2>3, <2>4, <2>5, Zenon
<1>6. ASSUME NEW d \in Clients, NEW w \in Words, ReadStatus(d, w)
      PROVE  ~Exit /\ (Reading(c) \/ (client'[c] = client[c] /\ Kept(c)))
  <2>1. answer' = answer /\ ~Exit /\ client[d].pc = "encode"
    BY <1>6, Zenon DEF ReadStatus, Exit
  <2>2. Kept(c)
    BY <2>1, Zenon DEF Kept
  <2>3. CASE d = c
    BY <1>6, <2>1, <2>2, <2>3, ReadStatusEffect, Zenon DEF Reading
  <2>4. CASE d # c
    BY <1>6, <2>1, <2>2, <2>4, ReadStatusEffect, Zenon
  <2> QED BY <2>3, <2>4, Zenon
<1>7. ASSUME NEW d \in Clients, ReadLogs(d)
      PROVE  Dropped(c) \/ (~Exit /\ (Answered(c) \/ (client'[c] = client[c] /\ Kept(c))))
  <2>1. ~Exit
    BY <1>7, Zenon DEF ReadLogs, Exit
  <2>2. CASE d = c
    <3>1. CASE answer' = answer
      BY <1>7, <2>2, <3>1, ReadLogsEffect, NoRequestType, Zenon DEF Dropped, Fresh, Kept
    <3>2. CASE answer' # answer
      BY <1>7, <2>1, <2>2, <3>2, ReadLogsEffect DEF Answered
    <3> QED BY <3>1, <3>2, Zenon
  <2>3. CASE d # c
    <3>1. client'[c] = client[c] /\ \A s \in Ids : answer'[c][s] = answer[c][s]
      BY <1>7, <2>3, ReadLogsEffect, ZenonT(30)
    <3> QED BY <2>1, <3>1, Zenon DEF Kept
  <2> QED BY <2>2, <2>3, Zenon
<1>8. ASSUME NEW s \in Ids, Clone(s) PROVE ~Exit /\ client'[c] = client[c] /\ Kept(c)
  <2>1. client' = client /\ answer' = answer /\ exited' = exited
    BY <1>8, ZenonT(30) DEF Clone, StatusWritten, CloneEnds, WriteLogs, SaveOutcome, WriteStatus
  <2> QED BY <2>1, Zenon DEF Exit, Kept
<1>9. CASE UNCHANGED vars
  <2>1. client' = client /\ answer' = answer /\ exited' = exited
    BY <1>9, Zenon DEF vars
  <2>2. ~Exit
    BY <2>1, Zenon DEF Exit
  <2> QED BY <2>1, <2>2, Zenon DEF Kept
<1> QED BY <1>1, <1>2, <1>3, <1>4, <1>5, <1>6, <1>7, <1>8, <1>9, ZenonT(30) DEF Next

-----------------------------------------------------------------------------
\* Every step preserves that goroutines start on untouched submissions.
LEMMA StartNext == TypeOK /\ StartInv /\ [Next]_vars => StartInv'
<1> SUFFICES ASSUME TypeOK, StartInv, [Next]_vars PROVE StartInv'
    BY Zenon
<1>0. /\ \A s \in Ids \ used : Untouched(s)
      /\ \A c \in Clients : client[c].pc = "clone" => Untouched(client[c].id)
      /\ \A c, d \in Clients : client[c].pc = "clone" /\ client[d].pc = "clone"
                                  /\ client[c].id = client[d].id => c = d
    BY Zenon DEF StartInv
<1>1. ASSUME NEW s \in Ids, Untouched(s), \A d \in Clients : GoClone(d) => client[d].id # s
      PROVE  worker'[s] = "none" /\ \A w \in Words : status'[s][w] = "PENDING"
    BY <1>1, WorkStep, Zenon DEF Untouched, Same, Statuses
<1>2. \A d \in Clients : client[d].pc # "idle" => client[d].id \in used /\ client[d].id \in Ids
    BY Zenon DEF TypeOK
<1>3. \A d \in Clients : GoClone(d) => client[d].pc = "clone" /\ client'[d].pc = "encode"
    BY GoCloneEffect, Zenon DEF GoClone
<1>4. used \subseteq used'
  <2>1. CASE \E c \in Clients, s \in Ids : Post(c, s, "file") \/ Post(c, s, "clone")
    BY <2>1, Zenon DEF Post
  <2>2. CASE ~ \E c \in Clients, s \in Ids : Post(c, s, "file") \/ Post(c, s, "clone")
    <3>1. used' = used
      BY <2>2, ZenonT(30)
         DEF Next, vars, Exit, SaveFile, GoClone, ReadLogs, ReadStatus, Poll, Clone,
             StatusWritten, CloneEnds, WriteLogs, SaveOutcome, WriteStatus
    <3> QED BY <3>1, Zenon
  <2> QED BY <2>1, <2>2, Zenon
<1>5. ASSUME NEW s \in Ids \ used'
      PROVE  worker'[s] = "none" /\ \A w \in Words : status'[s][w] = "PENDING"
  <2>1. Untouched(s) /\ s \notin used
    BY <1>0, <1>4, Zenon
  <2>2. \A d \in Clients : GoClone(d) => client[d].id # s
    BY <1>2, <1>3, <2>1, Zenon
  <2> QED BY <1>1, <2>1, <2>2, Zenon
<1>6. ASSUME NEW c \in Clients, client'[c].pc = "clone"
      PROVE  \/ client'[c] = client[c]
             \/ \E next \in {"file", "clone"} : client'[c].id \in Ids /\ Post(c, client'[c].id, next)
  <2>1. CASE Posted(c)
    BY <2>1, PostEffect, Zenon DEF Posted
  <2>2. CASE ~Posted(c)
    BY <1>6, <2>2, RequestStep, NoRequestType, Zenon DEF Dropped, Encoding, Found, NotFound, Reading, Answered
  <2> QED BY <2>1, <2>2, Zenon
<1>7. ASSUME NEW c \in Clients, client'[c].pc = "clone"
      PROVE  /\ worker'[client'[c].id] = "none"
             /\ \A w \in Words : status'[client'[c].id][w] = "PENDING"
  <2>1. CASE client'[c] = client[c]
    <3>1. Untouched(client[c].id) /\ client[c].id \in Ids /\ client[c].pc = "clone"
      BY <1>0, <1>2, <1>7, <2>1, Zenon
    <3>2. \A d \in Clients : GoClone(d) => client[d].id # client[c].id
      BY <1>0, <1>3, <1>7, <3>1, Zenon
    <3> QED BY <1>1, <2>1, <3>1, <3>2
  <2>2. CASE client'[c] # client[c]
    <3>1. PICK next \in {"file", "clone"} : client'[c].id \in Ids /\ Post(c, client'[c].id, next)
      BY <1>6, <1>7, <2>2, Zenon
    <3>2. client'[c].id \in Ids \ used /\ worker' = worker /\ status' = status
      BY <3>1, Zenon DEF Post
    <3> QED BY <1>0, <3>2, Zenon DEF Untouched
  <2> QED BY <2>1, <2>2, Zenon
<1>8. ASSUME NEW c \in Clients, NEW d \in Clients, client'[c].pc = "clone", client'[d].pc = "clone",
             client'[c].id = client'[d].id
      PROVE  c = d
  <2>1. CASE client'[c] = client[c] /\ client'[d] = client[d]
    BY <1>0, <1>8, <2>1, Zenon
  <2>2. ASSUME NEW x \in Clients, NEW y \in Clients, x # y, client'[y].pc = "clone",
               client'[x].id = client'[y].id, client'[x].id \in Ids,
               NEW next \in {"file", "clone"}, Post(x, client'[x].id, next)
        PROVE  FALSE
    <3>1. client'[y] = client[y] /\ client'[x].id \notin used
      BY <2>2, PostEffect, Zenon DEF Post
    <3> QED BY <1>2, <2>2, <3>1, Zenon
  <2> QED BY <1>6, <1>8, <2>1, <2>2, Zenon
<1> QED BY <1>5, <1>7, <1>8 DEF StartInv, Untouched

\* Every step preserves what a request under way has read.
LEMMA ReadNext ==
    TypeOK /\ WrittenInv /\ StartInv /\ ReadInv /\ [Next]_vars => ReadInv'
<1> SUFFICES ASSUME TypeOK, WrittenInv, StartInv, ReadInv, [Next]_vars, NEW c \in Clients
             PROVE  /\ client'[c].pc # "encode" => ~client'[c].settled /\ client'[c].text = Unread
                    /\ client'[c].settled =>
                        /\ worker'[client'[c].id] = "done"
                        /\ \A w \in Words : client'[c][w] \in {Unread, status'[client'[c].id][w]}
    BY Zenon DEF ReadInv
<1>0. /\ client[c].pc # "encode" => ~client[c].settled /\ client[c].text = Unread
      /\ client[c].settled =>
            /\ client[c].id \in Ids /\ Settled(client[c].id)
            /\ \A w \in Words : client[c][w] \in {Unread, status[client[c].id][w]}
    BY RequestFields, Zenon DEF ReadInv, Settled
<1>1. CASE ~Exit /\ client'[c] = client[c]
    BY <1>0, <1>1, StatusRises, Zenon DEF Same
<1>2. CASE Dropped(c) \/ Posted(c)
    BY <1>2, Zenon DEF Dropped, Posted, Fresh
<1>3. CASE Encoding(c)
    BY <1>0, <1>3, Zenon DEF Encoding
<1>4. CASE ~Exit /\ Found(c)
  <2>1. client'[c].settled => worker'[client'[c].id] = "done"
    BY <1>4, StatusRises, Zenon DEF Found
  <2>2. \A w \in Words : client'[c][w] = Unread
    BY <1>4, Zenon DEF Found, Fresh, Words
  <2> QED BY <1>4, <2>1, <2>2, Zenon DEF Found
<1>5. CASE ~Exit /\ Reading(c)
  <2>1. /\ client'[c].pc = "encode" /\ client'[c].id = client[c].id
        /\ client'[c].settled = client[c].settled
        /\ \A w \in Words : client'[c][w] \in {client[c][w], status[client[c].id][w]}
    BY <1>5, Zenon DEF Reading, Words
  <2> QED BY <1>0, <1>5, <2>1, StatusRises, Zenon DEF Same
<1>6. CASE client'[c] = NoRequest
    BY <1>6, NoRequestType, Zenon
<1> QED BY <1>1, <1>2, <1>3, <1>4, <1>5, <1>6, RequestStep, Zenon DEF NotFound, Answered

\* Every step preserves the order of what was answered, read and stored.
LEMMA OrderNext ==
    TypeOK /\ WrittenInv /\ StartInv /\ ReadInv /\ OrderInv /\ [Next]_vars => OrderInv'
<1> SUFFICES ASSUME TypeOK, WrittenInv, StartInv, ReadInv, OrderInv, [Next]_vars, NEW c \in Clients
             PROVE  /\ \A s \in Ids : Rank(answer'[c][s].text) <= Rank(status'[s]["text"])
                    /\ client'[c].text # Unread =>
                        /\ Rank(answer'[c][client'[c].id].text) <= Rank(client'[c].text)
                        /\ Rank(client'[c].text) <= Rank(status'[client'[c].id]["text"])
    BY Zenon DEF OrderInv, Rank
<1>0. /\ \A s \in Ids : Rank(answer[c][s].text) <= Rank(status[s]["text"])
      /\ client[c].text # Unread =>
            /\ Rank(answer[c][client[c].id].text) <= Rank(client[c].text)
            /\ Rank(client[c].text) <= Rank(status[client[c].id]["text"])
    BY Zenon DEF OrderInv
<1>1. /\ client[c].pc # "encode" => client[c].text = Unread
      /\ client[c].pc = "encode" => client[c].id \in Ids
    BY RequestFields, Zenon DEF ReadInv
<1>2. \A s \in Ids : Rank(status[s]["text"]) <= Rank(status'[s]["text"])
    BY StatusRises, Zenon
<1>3. \A x, y, z : Rank(x) <= Rank(y) /\ Rank(y) <= Rank(z) => Rank(x) <= Rank(z)
  <2> TAKE x, y, z
  <2>1. Rank(x) \in Nat /\ Rank(y) \in Nat /\ Rank(z) \in Nat
    BY RankType, Zenon
  <2> QED BY <2>1
<1>4. \A x : Rank(Unread) <= Rank(x) /\ Rank(x) <= Rank(x)
    BY RankType, RankValues
<1> HIDE DEF Rank, Unread
<1>5. CASE client'[c].text = Unread /\ Kept(c)
    BY <1>0, <1>2, <1>3, <1>5, Zenon DEF Kept
<1>6. CASE client'[c] = client[c] /\ Kept(c)
    BY <1>0, <1>1, <1>2, <1>3, <1>6 DEF Kept
<1>7. CASE NotFound(c)
  <2>1. client'[c].text = Unread
    BY <1>1, <1>7, Zenon DEF NotFound
  <2>2. \A s \in Ids : answer'[c][s].text \in {answer[c][s].text, Unread}
    BY <1>7, Zenon DEF NotFound
  <2>3. \A s \in Ids : Rank(answer'[c][s].text) <= Rank(status'[s]["text"])
    BY <1>0, <1>2, <1>3, <1>4, <2>2, Zenon
  <2> QED BY <2>1, <2>3, Zenon
<1>8. CASE Reading(c)
  <2>1. PICK i \in Ids : i = client[c].id /\ i = client'[c].id
    BY <1>1, <1>8, Zenon DEF Reading
  <2>2. answer'[c][i].text = answer[c][i].text
    BY <1>8, Zenon DEF Reading, Kept
  <2>3. CASE client'[c].text = client[c].text
    BY <1>0, <1>2, <1>3, <1>8, <2>1, <2>2, <2>3 DEF Reading, Kept
  <2>4. CASE client'[c].text = status[i]["text"]
    BY <1>0, <1>2, <1>3, <1>8, <2>1, <2>2, <2>4, Zenon DEF Reading, Kept
  <2> QED BY <1>8, <2>1, <2>3, <2>4, Zenon DEF Reading
<1>9. CASE Answered(c)
  <2>1. PICK i \in Ids : i = client[c].id
    BY <1>9, Zenon DEF Answered
  <2>2. answer'[c][i].text = client[c].text /\ client[c].text # Unread /\ client'[c].text = Unread
    BY <1>9, <2>1, NoRequestType DEF Answered
  <2>3. \A t \in Ids \ {i} : answer'[c][t] = answer[c][t]
    BY <1>9, <2>1, Zenon DEF Answered
  <2> QED BY <1>0, <1>2, <1>3, <2>1, <2>2, <2>3, Zenon
<1>10. CASE Encoding(c)
    BY <1>1, <1>5, <1>10, Zenon DEF Encoding
<1> QED BY <1>5, <1>6, <1>7, <1>8, <1>9, <1>10, RequestStep, Zenon DEF Dropped, Posted, Found, Fresh

\* Every step preserves that an answer to a settled poll is whole.
LEMMA WholeNext ==
    TypeOK /\ WrittenInv /\ ReadInv /\ SettledIsWhole /\ [Next]_vars => SettledIsWhole'
<1> SUFFICES ASSUME TypeOK, WrittenInv, ReadInv, SettledIsWhole, [Next]_vars,
                    NEW c \in Clients, NEW s \in Ids, answer'[c][s].settled
             PROVE  /\ answer'[c][s].text = answer'[c][s].size
                    /\ answer'[c][s].text = answer'[c][s].logs
                    /\ answer'[c][s].logs \in {"SUCCESS", "FAILED"}
    BY Zenon DEF SettledIsWhole
<1>1. CASE answer'[c][s] = answer[c][s]
    BY <1>1 DEF SettledIsWhole
<1>2. CASE Answered(c) /\ s = client[c].id
  <2>1. /\ answer'[c][s].text = client[c].text /\ answer'[c][s].size = client[c].size
        /\ answer'[c][s].logs = LogsRead(s) /\ client[c].settled
        /\ client[c].text # Unread /\ client[c].size # Unread
    BY <1>2 DEF Answered
  <2>2. worker[s] = "done" /\ client[c].text = status[s]["text"] /\ client[c].size = status[s]["size"]
    BY <1>2, <2>1, RequestFields, Zenon DEF ReadInv, Words
  <2>3. status[s]["text"] \in Outcomes /\ status[s]["size"] = status[s]["text"]
        /\ logs[s] = status[s]["text"]
    BY <2>2, Zenon DEF WrittenInv
  <2> QED BY <2>1, <2>2, <2>3, Zenon DEF Outcomes, LogsRead, Torn
<1> QED BY <1>1, <1>2, RequestStep, Zenon
        DEF Dropped, Posted, Encoding, Found, NotFound, Reading, Answered, Fresh, Kept

-----------------------------------------------------------------------------
\* The service starts with the invariant.
LEMMA SubmissionInit == Init => SubmissionInv
<1> SUFFICES ASSUME Init PROVE SubmissionInv
    BY Zenon
<1>1. /\ used = {} /\ store = {}
      /\ status = [s \in Ids |-> [w \in Words |-> "PENDING"]]
      /\ DOMAIN logs = Ids
      /\ worker = [s \in Ids |-> "none"]
      /\ client = [c \in Clients |-> NoRequest]
      /\ answer = [c \in Clients |-> [s \in Ids |-> NoAnswer]]
    BY Zenon DEF Init
<1>2. \A c \in Clients : client[c] = NoRequest
    BY <1>1, Zenon
<1>3. \A c \in Clients, s \in Ids : answer[c][s].text = Unread /\ answer[c][s].settled = FALSE
    BY <1>1, Zenon DEF NoAnswer
<1>4. \A s \in Ids : worker[s] = "none" /\ \A w \in Words : status[s][w] = "PENDING"
    BY <1>1, Zenon
<1>5. TypeOK
  <2>1. client \in [Clients -> Request] /\ \A c \in Clients : client[c].pc = "idle"
    BY <1>1, NoRequestType, Zenon
  <2>2. worker \in [Ids -> Steps] /\ status \in [Ids -> [Words -> Statuses]]
    BY <1>1, Zenon DEF Steps, Statuses
  <2>3. DOMAIN answer = Clients /\ \A c \in Clients : DOMAIN answer[c] = Ids
    BY <1>1, Zenon
  <2> QED BY <1>1, <2>1, <2>2, <2>3, Zenon DEF TypeOK
<1>6. WrittenInv
    BY <1>4, Zenon DEF WrittenInv, Outcomes
<1>7. StartInv /\ ReadInv
    BY <1>2, <1>4, NoRequestType, Zenon DEF StartInv, ReadInv, Untouched
<1>8. OrderInv
  <2>1. \A s \in Ids : Rank(Unread) <= Rank(status[s]["text"])
    BY RankType, RankValues
  <2> QED BY <1>2, <1>3, <2>1, NoRequestType, Zenon DEF OrderInv
<1>9. SettledIsWhole
    BY <1>3, Zenon DEF SettledIsWhole
<1> QED BY <1>5, <1>6, <1>7, <1>8, <1>9, Zenon DEF SubmissionInv

\* What the goroutine has written, what requests have read and what clients
\* were answered fit together, whatever the order of the handlers' reads
\* (handler.go:121, 166, 179) and the goroutine's writes (146-161), and however
\* often clients poll; the process may restart once.
THEOREM SubmissionInvariant == Spec => []SubmissionInv
<1>1. SubmissionInv /\ [Next]_vars => SubmissionInv'
    BY TypesNext, WrittenNext, StartNext, ReadNext, OrderNext, WholeNext, Zenon DEF SubmissionInv
<1> QED BY <1>1, SubmissionInit, PTL DEF Spec

\* For any clients and submissions: a poll that starts after the clone's last
\* Save (handler.go:161) is answered with one whole outcome and its logs.
THEOREM AlwaysWhole == Spec => []SettledIsWhole
<1>1. SubmissionInv => SettledIsWhole
    BY Zenon DEF SubmissionInv
<1> QED BY <1>1, SubmissionInvariant, PTL

\* For any clients and submissions: the status text a client is shown never
\* goes back from one answer to the next (handler.go:170-179), although nothing
\* orders the encoder's reads and the goroutine's writes.
THEOREM PollsNeverReturn == Spec => PollsNeverGoBack
<1>1. SubmissionInv /\ [Next]_vars =>
        \A c \in Clients, s \in Ids :
            answer'[c][s].code = "200" => Rank(answer[c][s].text) <= Rank(answer'[c][s].text)
  <2> SUFFICES ASSUME SubmissionInv, [Next]_vars, NEW c \in Clients, NEW s \in Ids,
                      answer'[c][s].code = "200"
               PROVE  Rank(answer[c][s].text) <= Rank(answer'[c][s].text)
    BY Zenon
  <2>1. TypeOK /\ ReadInv /\ OrderInv
    BY Zenon DEF SubmissionInv
  <2>2. CASE answer'[c][s] = answer[c][s]
    BY <2>2, RankType
  <2>3. CASE Answered(c) /\ s = client[c].id
    <3>1. answer'[c][s].text = client[c].text /\ client[c].text # Unread
      BY <2>3 DEF Answered
    <3> QED BY <2>1, <2>3, <3>1, Zenon DEF OrderInv
  <2>4. CASE NotFound(c)
    BY <2>2, <2>4, Zenon DEF NotFound
  <2> QED BY <2>1, <2>2, <2>3, <2>4, RequestStep, Zenon
          DEF Dropped, Posted, Encoding, Found, Reading, Answered, Fresh, Kept
<1> QED BY <1>1, SubmissionInvariant, PTL DEF Spec, PollsNeverGoBack

-----------------------------------------------------------------------------
\* What the proofs need of sequences, as SequenceTheorems states it.
LEMMA LenProperties ==
    ASSUME NEW S, NEW s \in Seq(S)
    PROVE  Len(s) \in Nat /\ s \in [1 .. Len(s) -> S] /\ DOMAIN s = 1 .. Len(s)
OBVIOUS

\* An element of a sequence is of its type.
LEMMA ElementOfSeq ==
    ASSUME NEW S, NEW s \in Seq(S), NEW n \in 1 .. Len(s)
    PROVE  s[n] \in S
OBVIOUS

\* Two sequences, one after the other.
LEMMA ConcatProperties ==
    ASSUME NEW S, NEW s1 \in Seq(S), NEW s2 \in Seq(S)
    PROVE  /\ s1 \o s2 \in Seq(S)
           /\ Len(s1 \o s2) = Len(s1) + Len(s2)
           /\ \A i \in 1 .. Len(s1) + Len(s2) : (s1 \o s2)[i] =
                     IF i <= Len(s1) THEN s1[i] ELSE s2[i - Len(s1)]
OBVIOUS

\* A slice of the data.
LEMMA SubSeqProperties ==
    ASSUME NEW S, NEW s, NEW m \in Int, NEW n \in Int, \A i \in m .. n : s[i] \in S
    PROVE  /\ SubSeq(s, m, n) \in Seq(S)
           /\ Len(SubSeq(s, m, n)) = IF m <= n THEN n - m + 1 ELSE 0
           /\ \A i \in 1 .. n - m + 1 : SubSeq(s, m, n)[i] = s[m + i - 1]
OBVIOUS

\* A set of naturals that is not empty has a least element.
LEMMA LeastNatural ==
    ASSUME NEW S, S \subseteq Nat, S # {}
    PROVE  \E x \in S : \A y \in S : x <= y
<1> DEFINE R == OpToRel(<, Nat)
<1>1. IsWellFoundedOn(R, Nat)
  BY NatLessThanWellFounded, Zenon
<1>2. R = {ss \in Nat \X Nat : ss[1] < ss[2]}
  BY Zenon DEF OpToRel
<1> HIDE DEF R
<1>3. PICK x \in S : \A y \in S : ~(<<y, x>> \in R)
  BY <1>1, WFMin, Zenon
<1>4. \A y \in S : ~(y < x)
  BY <1>2, <1>3, Zenon
<1> QED BY <1>4

\* bytes.IndexByte finds the first occurrence.
LEMMA IndexByteFirst ==
    ASSUME NEW data, Len(data) \in Nat, NEW from \in Nat, NEW b
    PROVE  \/ /\ IndexByte(data, from, b) = 0
              /\ \A j \in from .. Len(data) : data[j] # b
           \/ /\ IndexByte(data, from, b) \in from .. Len(data)
              /\ data[IndexByte(data, from, b)] = b
              /\ \A j \in from .. IndexByte(data, from, b) - 1 : data[j] # b
<1> DEFINE hits == {i \in from .. Len(data) : data[i] = b}
           first == First(hits)
<1>1. CASE hits = {}
  <2>1. IndexByte(data, from, b) = 0
    BY <1>1, Zenon DEF IndexByte
  <2> QED BY <1>1, <2>1, Zenon
<1>2. CASE hits # {}
  <2>1. IndexByte(data, from, b) = first
    BY <1>2, Zenon DEF IndexByte
  <2>2. hits \subseteq Nat
    OBVIOUS
  <2>3. first \in hits /\ \A y \in hits : first <= y
    <3>1. \E x \in hits : \A y \in hits : x <= y
      BY <1>2, <2>2, LeastNatural, Zenon
    <3> HIDE DEF hits
    <3> QED BY <3>1, Zenon DEF First
  <2> HIDE DEF first
  <2>4. first \in from .. Len(data) /\ data[first] = b
    BY <2>3, Zenon
  <2>5. \A j \in from .. first - 1 : data[j] # b
    <3> SUFFICES ASSUME NEW j \in from .. first - 1, data[j] = b PROVE FALSE
      BY Zenon
    <3>1. j \in from .. Len(data) /\ ~(first <= j)
      BY <2>4
    <3> QED BY <2>3, <3>1, Zenon
  <2> QED BY <2>1, <2>4, <2>5, Zenon
<1> QED BY <1>1, <1>2, Zenon

\* The end of a value is the first SOH after its "=", or the end of the data.
LEMMA BoundaryFirst ==
    ASSUME NEW data, Len(data) \in Nat, NEW eq \in 1 .. Len(data)
    PROVE  /\ Boundary(data, eq) \in eq .. Len(data) + 1
           /\ Boundary(data, eq) <= Len(data) => data[Boundary(data, eq)] = SOH
           /\ \A j \in eq .. Boundary(data, eq) - 1 : data[j] # SOH
<1> DEFINE soh == IndexByte(data, eq, SOH)
<1>1. \/ soh = 0 /\ \A j \in eq .. Len(data) : data[j] # SOH
      \/ soh \in eq .. Len(data) /\ data[soh] = SOH /\ \A j \in eq .. soh - 1 : data[j] # SOH
  BY IndexByteFirst
<1>2. Boundary(data, eq) = IF soh = 0 THEN Len(data) + 1 ELSE soh
  BY Zenon DEF Boundary
<1> HIDE DEF soh
<1> DEFINE e == Boundary(data, eq)
<1> HIDE DEF e
<1>3. e = IF soh = 0 THEN Len(data) + 1 ELSE soh
  BY <1>2, Zenon DEF e
<1>4. e \in eq .. Len(data) + 1 /\ (e <= Len(data) => data[e] = SOH)
      /\ \A j \in eq .. e - 1 : data[j] # SOH
  <2>1. CASE soh = 0
    BY <1>1, <1>3, <2>1
  <2>2. CASE soh # 0
    BY <1>1, <1>3, <2>2
  <2> QED BY <2>1, <2>2, Zenon
<1> QED BY <1>4, Zenon DEF e

\* No numeral is a separator.
LEMMA NumeralIsNotSoh == SOH \notin Numerals
<1>1. SOH \notin {SeqNums[n] : n \in DOMAIN SeqNums}
  BY DEF SeqNums, SOH
<1> QED BY <1>1, Zenon DEF Numerals, SOH

\* A tag that Atoi accepts holds no separator.
LEMMA TagWithinField ==
    ASSUME NEW data, NEW i \in Int, NEW q \in Int, IsTag(SubSeq(data, i, q - 1))
    PROVE  \A j \in i .. q - 1 : data[j] # SOH
<1> DEFINE t == SubSeq(data, i, q - 1)
           V == {data[j] : j \in i .. q - 1}
<1>1. /\ t \in Seq(V) /\ Len(t) = IF i <= q - 1 THEN (q - 1) - i + 1 ELSE 0
      /\ \A k \in 1 .. (q - 1) - i + 1 : t[k] = data[i + k - 1]
  <2>1. q - 1 \in Int /\ \A j \in i .. q - 1 : data[j] \in V
    OBVIOUS
  <2> HIDE DEF V
  <2> QED BY <2>1, SubSeqProperties
<1>2. \A k \in DOMAIN t : t[k] \in Numerals
  BY Zenon DEF IsTag
<1> HIDE DEF t, V
<1> SUFFICES ASSUME NEW j \in i .. q - 1 PROVE data[j] \in Numerals
  BY NumeralIsNotSoh, Zenon
<1>3. j - i + 1 \in 1 .. (q - 1) - i + 1 /\ i + (j - i + 1) - 1 = j /\ i <= q - 1
  OBVIOUS
<1>4. j - i + 1 \in DOMAIN t
  BY <1>1, <1>3
<1>5. t[j - i + 1] = data[j]
  BY <1>1, <1>3, Zenon
<1> QED BY <1>2, <1>4, <1>5, Zenon

\* A turn that goes on does so further right.
LEMMA TurnMovesOn ==
    ASSUME NEW data, Len(data) \in Nat, NEW idx \in 1 .. Len(data) + 2,
           IndexByte(data, idx, "=") # 0
    PROVE  /\ IndexByte(data, idx, "=") \in idx .. Len(data)
           /\ Boundary(data, IndexByte(data, idx, "=")) + 1 \in idx + 1 .. Len(data) + 2
<1> DEFINE eq == IndexByte(data, idx, "=")
           end == Boundary(data, eq)
<1>1. eq \in idx .. Len(data)
  BY IndexByteFirst
<1> HIDE DEF eq
<1>2. eq \in 1 .. Len(data)
  BY <1>1
<1>3. end \in eq .. Len(data) + 1
  BY <1>2, BoundaryFirst, Zenon
<1> HIDE DEF end
<1>4. end + 1 \in idx + 1 .. Len(data) + 2
  BY <1>1, <1>3
<1> QED BY <1>1, <1>4, Zenon DEF eq, end

\* A turn uses only the outcomes of later turns.
LEMMA TurnUsesLater ==
    ASSUME NEW data, Len(data) \in Nat, NEW idx \in 1 .. Len(data) + 2, NEW g, NEW h,
           \A i \in idx + 1 .. Len(data) + 2 : g[i] = h[i]
    PROVE  ParseFrom(data, g, idx) = ParseFrom(data, h, idx)
<1>1. CASE IndexByte(data, idx, "=") = 0
  BY <1>1, Zenon DEF ParseFrom
<1>2. CASE IndexByte(data, idx, "=") # 0
  <2>1. g[Boundary(data, IndexByte(data, idx, "=")) + 1] = h[Boundary(data, IndexByte(data, idx, "=")) + 1]
    BY <1>2, TurnMovesOn, Zenon
  <2> QED BY <2>1, Zenon DEF ParseFrom
<1> QED BY <1>1, <1>2, Zenon

\* The loop of Parse has an outcome from every index, found from the right.
LEMMA LoopDefined ==
    ASSUME NEW data, Len(data) \in Nat
    PROVE  \E f : f = [idx \in 1 .. Len(data) + 2 |-> ParseFrom(data, f, idx)]
<1> DEFINE N == Len(data) + 2
           Upto(n, f) == f = [idx \in n .. N |-> ParseFrom(data, f, idx)]
           Open == {n \in 1 .. N + 1 : \E f : Upto(n, f)}
<1>1. N \in Nat /\ N >= 2
  OBVIOUS
<1>2. Open \subseteq Nat /\ N + 1 \in Open
  <2>1. N + 1 \in 1 .. N + 1 /\ N + 1 .. N = {}
    BY <1>1
  <2> DEFINE f == [idx \in {} |-> 0]
  <2>2. f = [idx \in {} |-> ParseFrom(data, f, idx)]
    BY Zenon
  <2>3. Upto(N + 1, f)
    BY <2>1, <2>2, Zenon
  <2>4. N + 1 \in Open
    BY <2>1, <2>3, Zenon
  <2>5. Open \subseteq Nat
    BY <1>1
  <2> QED BY <2>4, <2>5, Zenon
<1>3. PICK n \in Open : \A m \in Open : n <= m
  <2> HIDE DEF Open
  <2> QED BY <1>2, LeastNatural, Zenon
<1>4. PICK g : Upto(n, g)
  BY <1>3, Zenon
<1>5. n = 1
  <2> SUFFICES ASSUME n # 1 PROVE FALSE
    BY Zenon
  <2>1. n - 1 \in 1 .. N /\ n - 1 \in 1 .. N + 1 /\ n \in 1 .. N + 1 /\ ~(n <= n - 1)
    BY <1>1, <1>3
  <2> DEFINE v == ParseFrom(data, g, n - 1)
             h == [idx \in n - 1 .. N |-> IF idx = n - 1 THEN v ELSE g[idx]]
  <2>2. ASSUME NEW idx \in n - 1 .. N PROVE h[idx] = ParseFrom(data, h, idx)
    <3>1. \A i \in idx + 1 .. N : i \in n - 1 .. N /\ i # n - 1
      BY <2>1
    <3>2. \A i \in idx + 1 .. N : g[i] = h[i]
      BY <3>1, Zenon
    <3> HIDE DEF h
    <3>3. idx \in 1 .. N
      BY <2>1
    <3>4. ParseFrom(data, g, idx) = ParseFrom(data, h, idx)
      BY <3>2, <3>3, TurnUsesLater, Zenon
    <3>5. h[idx] = ParseFrom(data, g, idx)
      <4>1. CASE idx = n - 1
        BY <4>1, Zenon DEF h
      <4>2. CASE idx # n - 1
        <5>1. idx \in n .. N
          BY <2>1, <4>2
        <5>2. g[idx] = ParseFrom(data, g, idx)
          BY <1>4, <5>1, Zenon
        <5> QED BY <4>2, <5>2, Zenon DEF h
      <4> QED BY <4>1, <4>2, Zenon
    <3> QED BY <3>4, <3>5, Zenon
  <2>3. Upto(n - 1, h)
    <3>1. h = [idx \in n - 1 .. N |-> h[idx]]
      BY Zenon
    <3> HIDE DEF h
    <3> QED BY <2>2, <3>1, Zenon
  <2>4. n - 1 \in Open
    BY <2>1, <2>3, Zenon
  <2> QED BY <1>3, <2>1, <2>4, Zenon
<1> QED BY <1>4, <1>5, Zenon

\* Parse is the outcome from the first index.
LEMMA ParseIsLoop ==
    ASSUME NEW data, Len(data) \in Nat
    PROVE  \E f : /\ f = [idx \in 1 .. Len(data) + 2 |-> ParseFrom(data, f, idx)]
                  /\ Parse(data) = f[1]
BY LoopDefined, Zenon DEF Parse

\* Where a turn may start: at a field, or after the data.
Starts(data) == Begins(data) \cup {Len(data) + 2}

\* A turn that finds a "=" has found the field at its start, if the tag is a number.
LEMMA TurnFindsField ==
    ASSUME NEW data, Len(data) \in Nat, NEW i \in Starts(data), i \in 1 .. Len(data) + 2,
           NEW eq \in i .. Len(data), data[eq] = "=", \A j \in i .. eq - 1 : data[j] # "=",
           NEW end \in eq .. Len(data) + 1, end <= Len(data) => data[end] = SOH,
           \A j \in eq .. end - 1 : data[j] # SOH
    PROVE  /\ i \in Relevant(data, i)
           /\ \A q, e : IsField(data, i, q, e) => q = eq
           /\ IsTag(SubSeq(data, i, eq - 1)) =>
                /\ IsField(data, i, eq, end)
                /\ Relevant(data, i) = {i} \cup Relevant(data, end + 1)
           /\ end + 1 \in Starts(data)
<1>1. i \in Relevant(data, i)
  <2>1. i # Len(data) + 2 /\ eq \in i .. Len(data) /\ i >= i
    OBVIOUS
  <2> QED BY <2>1, Zenon DEF Relevant, Starts
<1>2. ASSUME NEW q, NEW e, IsField(data, i, q, e) PROVE q = eq
  <2>1. q \in i .. Len(data) /\ data[q] = "=" /\ \A j \in i .. q - 1 : data[j] # "="
    BY <1>2, Zenon DEF IsField
  <2>2. ~(q < eq)
    <3> SUFFICES ASSUME q < eq PROVE FALSE
      BY Zenon
    <3>1. q \in i .. eq - 1
      BY <2>1
    <3> QED BY <2>1, <3>1, Zenon
  <2>3. ~(eq < q)
    <3> SUFFICES ASSUME eq < q PROVE FALSE
      BY Zenon
    <3>1. eq \in i .. q - 1
      BY <2>1
    <3> QED BY <2>1, <3>1, Zenon
  <2> QED BY <2>1, <2>2, <2>3
<1>3. ASSUME IsTag(SubSeq(data, i, eq - 1)) PROVE \A j \in i .. end - 1 : data[j] # SOH
  <2>1. \A j \in i .. eq - 1 : data[j] # SOH
    BY <1>3, TagWithinField
  <2>2. \A j \in i .. end - 1 : j \in i .. eq - 1 \/ j \in eq .. end - 1
    OBVIOUS
  <2> QED BY <2>1, <2>2, Zenon
<1>4. ASSUME IsTag(SubSeq(data, i, eq - 1)) PROVE IsField(data, i, eq, end)
  BY <1>3, <1>4, Zenon DEF IsField
<1>5. ASSUME IsTag(SubSeq(data, i, eq - 1))
      PROVE  Relevant(data, i) = {i} \cup Relevant(data, end + 1)
  <2>1. ASSUME NEW b \in Relevant(data, i), b # i PROVE b \in Relevant(data, end + 1)
    <3>1. b \in Begins(data) /\ b >= i /\ \E k \in b .. Len(data) : data[k] = "="
      BY <2>1, Zenon DEF Relevant
    <3>2. b \in Int /\ b - 1 \in 1 .. Len(data) /\ data[b - 1] = SOH
      <4>1. b # 1
        BY <2>1, <3>1
      <4>2. PICK j \in 1 .. Len(data) : data[j] = SOH /\ b = j + 1
        BY <3>1, <4>1, Zenon DEF Begins
      <4>3. b - 1 = j /\ b \in Int
        BY <4>2
      <4> QED BY <4>2, <4>3, Zenon
    <3>3. b - 1 \notin i .. end - 1
      BY <1>3, <1>5, <3>2, Zenon
    <3>4. b >= end + 1
      BY <2>1, <3>1, <3>2, <3>3
    <3> QED BY <3>1, <3>4, Zenon DEF Relevant
  <2>2. ASSUME NEW b \in Relevant(data, end + 1) PROVE b \in Relevant(data, i)
    <3>1. b \in Begins(data) /\ b >= end + 1 /\ \E k \in b .. Len(data) : data[k] = "="
      BY <2>2, Zenon DEF Relevant
    <3>2. b \in Int
      BY <3>1 DEF Begins
    <3>3. b >= i
      BY <3>1, <3>2
    <3> QED BY <3>1, <3>3, Zenon DEF Relevant
  <2> QED BY <1>1, <2>1, <2>2, Zenon
<1>6. end + 1 \in Starts(data)
  <2>1. CASE end = Len(data) + 1
    BY <2>1 DEF Starts
  <2>2. CASE end # Len(data) + 1
    <3>1. end \in 1 .. Len(data) /\ data[end] = SOH
      BY <2>2
    <3> QED BY <3>1, Zenon DEF Starts, Begins
  <2> QED BY <2>1, <2>2, Zenon
<1> QED BY <1>1, <1>2, <1>4, <1>5, <1>6, Zenon

\* What Parse may put into tags.
Entries(data) ==
    [tag : {SubSeq(data, range[1], range[2]) : range \in Int \X Int}, start : Int, end : Int]

\* A field put before those of the later turns.
LEMMA FieldInFront ==
    ASSUME NEW S, NEW x \in S, NEW t \in Seq(S)
    PROVE  /\ <<x>> \o t \in Seq(S) /\ Len(<<x>> \o t) = Len(t) + 1
           /\ Len(t) \in Nat
           /\ (<<x>> \o t)[1] = x
           /\ \A k \in 1 .. Len(t) : (<<x>> \o t)[k + 1] = t[k]
<1>1. <<x>> \in Seq(S) /\ Len(<<x>>) = 1 /\ <<x>>[1] = x /\ Len(t) \in Nat
  BY LenProperties
<1> DEFINE s == <<x>>
           c == s \o t
<1> HIDE DEF s
<1>2. /\ c \in Seq(S) /\ Len(c) = Len(s) + Len(t)
      /\ \A k \in 1 .. Len(s) + Len(t) :
            c[k] = IF k <= Len(s) THEN s[k] ELSE t[k - Len(s)]
  BY <1>1, ConcatProperties, Zenon DEF s
<1>3. s \in Seq(S) /\ Len(s) = 1 /\ s[1] = x
  BY <1>1, Zenon DEF s
<1> HIDE DEF c
<1>4. c \in Seq(S) /\ Len(c) = Len(t) + 1 /\ c[1] = x
  BY <1>1, <1>2, <1>3
<1>5. ASSUME NEW k \in 1 .. Len(t) PROVE c[k + 1] = t[k]
  <2>1. k + 1 \in 1 .. 1 + Len(t) /\ ~(k + 1 <= 1) /\ k + 1 - 1 = k
    BY <1>1
  <2> QED BY <1>2, <1>3, <2>1
<1> QED BY <1>1, <1>4, <1>5, Zenon DEF c, s

\* Every turn that starts at a field returns the fields from there on.
LEMMA LoopHolds ==
    ASSUME NEW data, Len(data) \in Nat, NEW f,
           f = [idx \in 1 .. Len(data) + 2 |-> ParseFrom(data, f, idx)],
           NEW i \in 1 .. Len(data) + 2, i \in Starts(data),
           \A j \in i + 1 .. Len(data) + 2 : j \in Starts(data) =>
                f[j].tags \in Seq(Entries(data)) /\ Holds(data, j, f[j])
    PROVE  f[i].tags \in Seq(Entries(data)) /\ Holds(data, i, f[i])
<1> DEFINE N == Len(data)
           eq == IndexByte(data, i, "=")
           end == Boundary(data, eq)
           tag == SubSeq(data, i, eq - 1)
           x == [tag |-> tag, start |-> eq + 1, end |-> end]
           more == f[end + 1]
           Good(idx) == \A b \in Relevant(data, idx) : \E q, e \in b .. N + 1 : IsField(data, b, q, e)
<1>1. f[i] = ParseFrom(data, f, i)
  BY Zenon
<1>2. CASE i > N \/ eq = 0
  <2>1. f[i] = [ok |-> TRUE, tags |-> <<>>]
    BY <1>1, <1>2, Zenon DEF ParseFrom
  <2>2. f[i].tags \in Seq(Entries(data)) /\ f[i].ok /\ Len(f[i].tags) = 0
    <3>1. f[i].tags = <<>> /\ f[i].ok
      BY <2>1
    <3>2. <<>> \in Seq(Entries(data)) /\ Len(<<>>) = 0
      OBVIOUS
    <3> QED BY <3>1, <3>2, Zenon
  <2>3. Relevant(data, i) = {}
    <3> SUFFICES ASSUME NEW b \in Relevant(data, i), NEW j \in b .. N, data[j] = "=" PROVE FALSE
      BY Zenon DEF Relevant
    <3>1. b \in Int /\ b >= i
      BY DEF Relevant, Begins
    <3>2. j \in i .. N
      BY <3>1
    <3>3. eq = 0 \/ eq \in i .. N
      BY IndexByteFirst
    <3>4. \A k \in i .. N : data[k] # "="
      <4>1. CASE eq = 0
        <5>1. eq \notin i .. N
          BY <4>1
        <5> QED BY <5>1, IndexByteFirst
      <4>2. CASE i > N
        BY <4>2
      <4> QED BY <1>2, <4>1, <4>2, Zenon
    <3> QED BY <3>2, <3>4, Zenon
  <2>4. \A k \in 1 .. Len(f[i].tags) : FALSE
    BY <2>2
  <2> QED BY <2>2, <2>3, <2>4, Zenon DEF Holds
<1>3. CASE ~(i > N \/ eq = 0)
  <2>1. /\ eq \in i .. N /\ data[eq] = "=" /\ \A j \in i .. eq - 1 : data[j] # "="
    BY <1>3, IndexByteFirst
  <2>2. eq \in 1 .. N
    BY <2>1
  <2>3. /\ end \in eq .. N + 1 /\ (end <= N => data[end] = SOH)
        /\ \A j \in eq .. end - 1 : data[j] # SOH
    BY <2>2, BoundaryFirst, Zenon
  <2> HIDE DEF eq, end
  <2>4. /\ i \in Relevant(data, i)
        /\ \A q, e : IsField(data, i, q, e) => q = eq
        /\ IsTag(tag) => /\ IsField(data, i, eq, end)
                         /\ Relevant(data, i) = {i} \cup Relevant(data, end + 1)
        /\ end + 1 \in Starts(data)
    BY <2>1, <2>3, TurnFindsField, Zenon
  <2>5. end + 1 \in i + 1 .. N + 2
    BY <2>1, <2>3
  <2>6. more.tags \in Seq(Entries(data)) /\ Holds(data, end + 1, more)
    BY <2>4, <2>5, Zenon
  <2>7. f[i] = IF ~IsTag(tag) \/ ~more.ok THEN Invalid ELSE [ok |-> TRUE, tags |-> <<x>> \o more.tags]
    BY <1>1, <1>3, Zenon DEF ParseFrom, eq, end
  <2>8. CASE ~IsTag(tag)
    <3>1. f[i].tags = <<>> /\ ~f[i].ok
      BY <2>7, <2>8 DEF Invalid
    <3>2. ~Good(i)
      BY <2>4, <2>8, Zenon DEF IsField
    <3>3. <<>> \in Seq(Entries(data))
      OBVIOUS
    <3> QED BY <3>1, <3>2, <3>3, Zenon DEF Holds
  <2>9. CASE IsTag(tag)
    <3> HIDE DEF tag, x, more
    <3>1. Good(i) <=> Good(end + 1)
      <4>1. eq \in i .. N + 1 /\ end \in i .. N + 1
        BY <2>1, <2>3
      <4> QED BY <2>4, <2>9, <4>1, Zenon
    <3>2. CASE ~Good(end + 1)
      <4>1. ~more.ok
        BY <2>6, <3>2, Zenon DEF Holds
      <4>2. f[i].tags = <<>> /\ ~f[i].ok
        BY <2>7, <4>1 DEF Invalid
      <4>3. <<>> \in Seq(Entries(data))
        OBVIOUS
      <4> QED BY <3>1, <3>2, <4>2, <4>3, Zenon DEF Holds
    <3>3. CASE Good(end + 1)
      <4> DEFINE t == more.tags
                 u == <<x>> \o t
      <4>1. more.ok
        BY <2>6, <3>3, Zenon DEF Holds
      <4>2. f[i].ok /\ f[i].tags = u
        BY <2>7, <2>9, <4>1
      <4>3. /\ \A k \in 1 .. Len(t) : \E b \in Relevant(data, end + 1) :
                  IsField(data, b, t[k].start - 1, t[k].end) /\ t[k].tag = SubSeq(data, b, t[k].start - 2)
            /\ \A b \in Relevant(data, end + 1) : \E k \in 1 .. Len(t) :
                  IsField(data, b, t[k].start - 1, t[k].end)
            /\ \A j, k \in 1 .. Len(t) : j < k => t[j].end < t[k].start
        BY <2>6, <3>3, Zenon DEF Holds
      <4>4. x.tag = tag /\ x.start = eq + 1 /\ x.end = end
        BY Zenon DEF x
      <4>5. x \in Entries(data)
        <5>1. eq + 1 \in Int /\ end \in Int /\ <<i, eq - 1>> \in Int \X Int
              /\ <<i, eq - 1>>[1] = i /\ <<i, eq - 1>>[2] = eq - 1
          BY <2>1, <2>3
        <5>2. tag \in {SubSeq(data, range[1], range[2]) : range \in Int \X Int}
          BY <5>1, Zenon DEF tag
        <5> QED BY <5>1, <5>2, Zenon DEF Entries, x
      <4>6. /\ u \in Seq(Entries(data)) /\ Len(u) = Len(t) + 1 /\ Len(t) \in Nat /\ u[1] = x
            /\ \A k \in 1 .. Len(t) : u[k + 1] = t[k]
        BY <2>6, <4>5, FieldInFront
      <4> HIDE DEF t, u
      <4>7. \A k \in 1 .. Len(u) : k = 1 \/ (k - 1 \in 1 .. Len(t) /\ u[k] = t[k - 1])
        <5> SUFFICES ASSUME NEW k \in 1 .. Len(u), k # 1
                     PROVE  k - 1 \in 1 .. Len(t) /\ u[k] = t[k - 1]
          BY Zenon
        <5>1. k - 1 \in 1 .. Len(t) /\ (k - 1) + 1 = k
          BY <4>6
        <5> QED BY <4>6, <5>1, Zenon
      <4>8. x.start - 1 = eq /\ x.start - 2 = eq - 1
        BY <2>1, <4>4
      <4>9. ASSUME NEW k \in 1 .. Len(u)
            PROVE  \E b \in Relevant(data, i) :
                      IsField(data, b, u[k].start - 1, u[k].end) /\ u[k].tag = SubSeq(data, b, u[k].start - 2)
        <5>1. CASE k = 1
          BY <2>4, <2>9, <4>4, <4>6, <4>8, <5>1, Zenon DEF tag
        <5>2. CASE k # 1
          <6>1. k - 1 \in 1 .. Len(t) /\ u[k] = t[k - 1]
            BY <4>7, <5>2, Zenon
          <6>2. PICK b \in Relevant(data, end + 1) :
                    IsField(data, b, u[k].start - 1, u[k].end) /\ u[k].tag = SubSeq(data, b, u[k].start - 2)
            BY <4>3, <6>1, Zenon
          <6> QED BY <2>4, <2>9, <6>2, Zenon
        <5> QED BY <5>1, <5>2, Zenon
      <4>10. ASSUME NEW b \in Relevant(data, i)
             PROVE  \E k \in 1 .. Len(u) : IsField(data, b, u[k].start - 1, u[k].end)
        <5>1. CASE b = i
          <6>1. 1 \in 1 .. Len(u)
            BY <4>6
          <6> QED BY <2>4, <2>9, <4>4, <4>6, <4>8, <5>1, <6>1, Zenon
        <5>2. CASE b # i
          <6>1. PICK k \in 1 .. Len(t) : IsField(data, b, t[k].start - 1, t[k].end)
            BY <2>4, <2>9, <4>3, <5>2, Zenon
          <6>2. k + 1 \in 1 .. Len(u)
            BY <4>6
          <6> QED BY <4>6, <6>1, <6>2, Zenon
        <5> QED BY <5>1, <5>2, Zenon
      <4>11. ASSUME NEW j \in 1 .. Len(u), NEW k \in 1 .. Len(u), j < k
             PROVE  u[j].end < u[k].start
        <5>1. k # 1 /\ k - 1 \in 1 .. Len(t) /\ u[k] = t[k - 1]
          <6>1. k # 1
            BY <4>11
          <6> QED BY <4>7, <6>1, Zenon
        <5>2. CASE j = 1
          <6>1. PICK b \in Relevant(data, end + 1) : IsField(data, b, u[k].start - 1, u[k].end)
            BY <4>3, <5>1, Zenon
          <6>2. b \in Int /\ b >= end + 1
            BY DEF Relevant, Begins
          <6>3. u[k].start - 1 \in b .. N
            BY <6>1, Zenon DEF IsField
          <6>4. u[k].start \in Int
            <7>1. t[k - 1] \in Entries(data)
              BY <2>6, <5>1, ElementOfSeq, Zenon DEF t
            <7> QED BY <5>1, <7>1, Zenon DEF Entries
          <6>5. end < u[k].start
            BY <2>3, <6>2, <6>3, <6>4
          <6> QED BY <4>4, <4>6, <5>2, <6>5, Zenon
        <5>3. CASE j # 1
          <6>1. j - 1 \in 1 .. Len(t) /\ u[j] = t[j - 1]
            BY <4>7, <5>3, Zenon
          <6>2. j - 1 < k - 1
            BY <4>11
          <6> QED BY <4>3, <5>1, <6>1, <6>2, Zenon
        <5> QED BY <5>2, <5>3, Zenon
      <4> QED BY <3>1, <3>3, <4>2, <4>6, <4>9, <4>10, <4>11, Zenon DEF Holds
    <3> QED BY <3>2, <3>3, Zenon
  <2> QED BY <2>8, <2>9, Zenon
<1> QED BY <1>2, <1>3, Zenon

\* Parse (parser.go:32-72) returns the fields of the grammar, for any data.
THEOREM ParseIsGrammar ==
    ASSUME NEW data, Len(data) \in Nat
    PROVE  Holds(data, 1, Parse(data))
<1>1. PICK f : /\ f = [idx \in 1 .. Len(data) + 2 |-> ParseFrom(data, f, idx)]
               /\ Parse(data) = f[1]
  BY ParseIsLoop, Zenon
<1> DEFINE N == Len(data) + 2
           Done(i) == f[i].tags \in Seq(Entries(data)) /\ Holds(data, i, f[i])
           Left == {N - i : i \in {j \in 1 .. N : j \in Starts(data) /\ ~Done(j)}}
<1> HIDE DEF Done
<1>2. Left = {}
  <2> SUFFICES ASSUME Left # {} PROVE FALSE
    BY Zenon
  <2>1. Left \subseteq Nat
    OBVIOUS
  <2>2. PICK m \in Left : \A y \in Left : m <= y
    <3> HIDE DEF Left
    <3> QED BY <2>1, LeastNatural, Zenon
  <2>3. PICK i \in 1 .. N : i \in Starts(data) /\ ~Done(i) /\ m = N - i
    BY <2>2, Zenon
  <2>4. ASSUME NEW j \in i + 1 .. N, j \in Starts(data) PROVE Done(j)
    <3> SUFFICES ASSUME ~Done(j) PROVE FALSE
      BY Zenon
    <3>1. j \in 1 .. N /\ ~(m <= N - j)
      BY <2>3
    <3>2. N - j \in Left
      BY <2>4, <3>1, Zenon
    <3> QED BY <2>2, <3>1, <3>2, Zenon
  <2>5. Done(i)
    BY <1>1, <2>3, <2>4, LoopHolds, Zenon DEF Done
  <2> QED BY <2>3, <2>5, Zenon
<1>3. 1 \in 1 .. N /\ 1 \in Starts(data)
  BY DEF Starts, Begins
<1>4. Done(1)
  BY <1>2, <1>3, Zenon
<1> QED BY <1>1, <1>4, Zenon DEF Done

\* What is known of the packets: the positions are numbers.
PacketInv == taken \in [Conns -> Nat] /\ DOMAIN packet = Conns /\ ParsesTheGrammar

\* Whatever the connections deliver, in whatever parts, the handler works on
\* the fields of the grammar (session.go:86).
THEOREM AlwaysParsed == SessionSpec => []ParsesTheGrammar
<1>1. SessionInit => PacketInv
  <2> SUFFICES ASSUME SessionInit PROVE PacketInv
    BY Zenon
  <2>1. taken = [c \in Conns |-> 0] /\ packet = [c \in Conns |-> NoPacket]
    BY Zenon DEF SessionInit
  <2>2. taken \in [Conns -> Nat] /\ DOMAIN packet = Conns
    BY <2>1, Zenon
  <2>3. \A c \in Conns : packet[c].data = <<>>
    BY <2>1, Zenon DEF NoPacket
  <2>4. Len(<<>>) \in Nat
    BY Zenon
  <2>5. Holds(<<>>, 1, Parse(<<>>))
    BY <2>4, ParseIsGrammar, Zenon
  <2> QED BY <2>2, <2>3, <2>5, Zenon DEF PacketInv, ParsesTheGrammar
<1>2. PacketInv /\ [SessionNext]_sessionVars => PacketInv'
  <2> SUFFICES ASSUME PacketInv, [SessionNext]_sessionVars PROVE PacketInv'
    BY Zenon
  <2>1. CASE UNCHANGED <<taken, packet>>
    BY <2>1, Zenon DEF PacketInv, ParsesTheGrammar
  <2>2. ASSUME NEW c \in Conns, NEW n \in ReadSizes(c), Read(c, n) PROVE PacketInv'
    <3> DEFINE data == SubSeq(stream[c], taken[c] + 1, taken[c] + n)
    <3>1. n \in Nat /\ taken[c] \in Nat
      BY DEF ReadSizes, PacketInv
    <3>2. taken' = [taken EXCEPT ![c] = @ + n]
      BY <2>2, Zenon DEF Read
    <3>3. PICK first, reply : packet' = [packet EXCEPT ![c] = [data |-> data, first |-> first, reply |-> reply]]
      BY <2>2, Zenon DEF Read
    <3>4. Len(data) \in Nat
      <4> DEFINE V == {stream[c][k] : k \in taken[c] + 1 .. taken[c] + n}
      <4>1. \A k \in taken[c] + 1 .. taken[c] + n : stream[c][k] \in V
        BY Zenon
      <4>2. taken[c] + 1 \in Int /\ taken[c] + n \in Int
        BY <3>1
      <4> HIDE DEF V
      <4>3. data \in Seq(V)
        BY <4>1, <4>2, SubSeqProperties, Zenon
      <4> HIDE DEF data
      <4> QED BY <4>3, LenProperties, Zenon
    <3> HIDE DEF data
    <3>5. Holds(data, 1, Parse(data))
      BY <3>4, ParseIsGrammar, Zenon
    <3>6. taken' \in [Conns -> Nat]
      BY <3>1, <3>2 DEF PacketInv
    <3>7. /\ DOMAIN packet' = Conns
          /\ \A d \in Conns : packet'[d].data = IF d = c THEN data ELSE packet[d].data
      BY <3>3, Zenon DEF PacketInv
    <3>8. ParsesTheGrammar'
      BY <3>5, <3>7, Zenon DEF PacketInv, ParsesTheGrammar
    <3> QED BY <3>6, <3>7, <3>8, Zenon DEF PacketInv
  <2>3. ASSUME NEW c \in Conns, Handle(c) PROVE PacketInv'
    <3>1. CASE Select(c) \/ ReadFails(c)
      BY <2>1, <3>1, Zenon DEF Select, ReadFails
    <3> QED BY <2>2, <2>3, <3>1, Zenon DEF Handle
  <2>4. CASE \/ Listen \/ Activate \/ AcceptFails \/ StopOnCancel \/ Stop \/ Cancel
    BY <2>1, <2>4, Zenon DEF Listen, Activate, AcceptFails, StopOnCancel, Stop, Cancel, connVars
  <2>5. ASSUME NEW c \in Conns, Accept(c) \/ \E m \in Requests \cup Texts : Send(c, m) PROVE PacketInv'
    BY <2>1, <2>5, Zenon DEF Accept, Send
  <2>6. CASE UNCHANGED sessionVars
    BY <2>1, <2>6, Zenon DEF sessionVars, connVars
  <2> QED BY <2>3, <2>4, <2>5, <2>6, Zenon DEF SessionNext
<1>3. PacketInv => ParsesTheGrammar
  BY Zenon DEF PacketInv
<1> QED BY <1>1, <1>2, <1>3, PTL DEF SessionSpec
=============================================================================
