---------------------------- MODULE UserService ----------------------------
(***************************************************************************)
(* user_service.cpp: workers register and log in users over the handles of *)
(* the pool.  MySQL executes a statement at one moment, with the UNIQUE    *)
(* index on the name; its answer reaches the worker later, or never when   *)
(* the connection is lost.  A lost handle goes back to the pool like any   *)
(* other, and no option makes it connect again.                            *)
(***************************************************************************)
EXTENDS DatabasePool, RequestRouter

CONSTANTS
  Calls,      \* the parsed request that each worker brings to the service
  MaxFaults   \* bound: statements that fail and connections that are lost

ASSUME ServiceAssumption ==
  /\ \A w \in Workers : Handles(Calls[w]) /\ Asks(Calls[w])
  /\ None \notin {"done", "refused", "failed"}
  /\ None \notin [request: {Calls[w] : w \in Workers}, since: Nat]
  /\ MaxFaults \in Nat

VARIABLES
  rows,       \* the table users
  lost,       \* handles whose connection the server has dropped
  call,       \* of each worker: [request, since], or None
  outcome,    \* of its statement at the server: "done", "refused", "failed"
  answers,    \* what has been answered, in order
  faults      \* bound: what is left of MaxFaults

table == <<rows, lost, faults>>
serviceVars == <<vars, table, call, outcome, answers>>

Requests == {Calls[w] : w \in Workers}
Row(r) == [username |-> Username(r), password |-> Password(r)]
Answer == [request: Requests, since: Nat, status: Nat, failed: BOOLEAN]

ServiceTypeOK ==
  /\ TypeOK
  /\ rows \subseteq {Row(r) : r \in Requests}
  /\ lost \subseteq Dbs
  /\ call \in [Workers -> [request: Requests, since: Nat] \cup {None}]
  /\ outcome \in [Workers -> {"done", "refused", "failed", None}]
  /\ answers \in Seq(Answer)
  /\ faults \in 0..MaxFaults
  /\ \A w \in Workers : call[w] # None <=> pc[w] \in {"acquire", "waiting", "query"}

ServiceInit ==
  /\ Init
  /\ rows = {} /\ lost = {}
  /\ call = [w \in Workers |-> None]
  /\ outcome = [w \in Workers |-> None]
  /\ answers = <<>>
  /\ faults = MaxFaults

-----------------------------------------------------------------------------
\* registerUser() or loginUser() is called; since is what its client may
\* have seen before.
Ask(w) ==
  /\ Begin(w)
  /\ call' = [call EXCEPT ![w] = [request |-> Calls[w], since |-> Len(answers)]]
  /\ UNCHANGED <<table, outcome, answers>>

service == <<table, call, outcome, answers>>
ThreadStep(t) == Use(t) /\ UNCHANGED service
MainStep == InitStep /\ UNCHANGED service
OtherStep == (Destroy \/ \E t \in Threads : Spurious(t)) /\ UNCHANGED service

\* The UNIQUE index on users.username refuses the row.
Taken(row) == \E other \in rows : other.username = row.username

Insert(row) ==
  IF Taken(row) THEN <<"refused", rows>> ELSE <<"done", rows \cup {row}>>

\* Mutant: the statement forgets the password.
MutantSelect(row) == <<IF Taken(row) THEN "done" ELSE "refused", rows>>
Select(row) == <<IF row \in rows THEN "done" ELSE "refused", rows>>

Effect(r) == IF r.path.text = "/register" THEN Insert(Row(r)) ELSE Select(Row(r))

\* The server executes the statement, or fails for reasons of its own.
Execute(w) ==
  /\ pc[w] = "query" /\ outcome[w] = None /\ lease[w] \notin lost
  /\ outcome' = [outcome EXCEPT ![w] = Effect(call[w].request)[1]]
  /\ rows' = Effect(call[w].request)[2]
  /\ UNCHANGED <<vars, lost, faults, call, answers>>

Fail(w) ==
  /\ pc[w] = "query" /\ outcome[w] = None /\ faults > 0
  /\ outcome' = [outcome EXCEPT ![w] = "failed"]
  /\ faults' = faults - 1
  /\ UNCHANGED <<vars, rows, lost, call, answers>>

\* A connection is lost before a statement has reached the server, or after
\* it has been executed; that one was lost earlier shows no sooner.
Lose(w) ==
  /\ pc[w] = "query" /\ lease[w] \notin lost /\ faults > 0
  /\ lost' = lost \cup {lease[w]}
  /\ faults' = faults - 1
  /\ UNCHANGED <<vars, rows, call, outcome, answers>>

\* mysql_query() and mysql_store_result() return, and route() answers.
\* Mutant: mysql_store_result(), which has nothing for an INSERT, decides on
\* that one too.
MutantStores(w) == outcome[w] = "done" /\ call[w].request.path.text = "/login"
Succeeds(w) == outcome[w] = "done" /\ lease[w] \notin lost

Failed(w) == outcome[w] = "failed" \/ lease[w] \in lost

Return(w) ==
  /\ Query(w)
  /\ outcome[w] # None \/ lease[w] \in lost
  /\ LET r == call[w].request IN
     answers' = Append(answers, [request |-> r, since |-> call[w].since,
                  status |-> Route(r, Succeeds(w)).status, failed |-> Failed(w)])
  /\ call' = [call EXCEPT ![w] = None]
  /\ outcome' = [outcome EXCEPT ![w] = None]
  /\ UNCHANGED table

ServiceNext ==
  \/ MainStep \/ OtherStep \/ \E t \in Threads : ThreadStep(t)
  \/ \E w \in Workers : Ask(w) \/ Execute(w) \/ Fail(w) \/ Lose(w) \/ Return(w)
  \/ Over /\ UNCHANGED serviceVars

ServiceSpec == ServiceInit /\ [][ServiceNext]_serviceVars

\* Threads are scheduled, and the server answers every statement or drops
\* its connection.  Nothing wakes a sleeper but a notification.
ServiceFairSpec ==
  /\ ServiceSpec
  /\ \A t \in Threads : WF_serviceVars(ThreadStep(t))
  /\ \A w \in Workers : WF_serviceVars(Execute(w)) /\ WF_serviceVars(Return(w))
  /\ WF_serviceVars(Query(Main) /\ UNCHANGED service)
-----------------------------------------------------------------------------
Path(k) == answers[k].request.path.text
Status(k) == answers[k].status
RowOf(k) == Row(answers[k].request)

\* Answers and table agree, whatever the order of the statements and of their
\* answers: one client is told that it has registered a name; 200 and 201
\* speak of the client's own row, 409 of a name that is taken or of a failure;
\* and a row has been announced to its client, but for one whose connection
\* failed before the answer.
Announced(row) ==
  \/ \E k \in 1..Len(answers) :
       /\ Path(k) = "/register" /\ RowOf(k) = row
       /\ Status(k) = 201 \/ answers[k].failed
  \/ \E w \in Workers : call[w] # None /\ Row(call[w].request) = row /\ outcome[w] = "done"

AnswersTrue ==
  /\ \A i, j \in 1..Len(answers) :
       Status(i) = 201 /\ Status(j) = 201 /\ RowOf(i).username = RowOf(j).username => i = j
  /\ \A k \in 1..Len(answers) :
       /\ Status(k) \in {200, 201} => RowOf(k) \in rows
       /\ Status(k) = 409 => answers[k].failed \/ Taken(RowOf(k))
  /\ \A row \in rows : Announced(row)

\* A request made after a client has been told 201 sees that registration:
\* the login with its password does not get 401, and no other registration
\* of the name gets 201, unless its statement fails.
SeesEarlier ==
  \A k \in 1..Len(answers) : \A i \in 1..answers[k].since :
    Status(i) = 201 /\ RowOf(i).username = RowOf(k).username /\ ~answers[k].failed =>
      \/ Path(k) = "/register" /\ Status(k) = 409
      \/ Path(k) = "/login" /\ Status(k) = (IF RowOf(k) = RowOf(i) THEN 200 ELSE 401)

\* Calls stop coming at some time.  The condition variable is not first-in
\* first-out: a thread that calls again and again can take the handle meant
\* for a sleeper every time.
CallsPause == <>[][uses' = uses]_serviceVars

\* If calls stop coming, every call comes back: a sleeper that another thread
\* has overtaken, once or more, is not forgotten, even with a single handle
\* and whatever becomes of the connections.
CallReturns ==
  CallsPause => \A t \in Threads : pc[t] # "idle" ~> pc[t] = "idle"
=============================================================================
