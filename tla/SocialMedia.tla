---------------------------- MODULE SocialMedia -----------------------------
(***************************************************************************)
(* The Javalin social media service: SocialMediaController, AccountService *)
(* and MessageService, AccountDAO and MessageDAO, over the two tables of   *)
(* SocialMedia.sql.                                                        *)
(*                                                                         *)
(* Javalin handles requests on several threads, and there is one object of *)
(* each DAO.  Every call of a DAO stores a new connection in the DAO's one *)
(* field conn and uses the field from then on; some calls close whatever   *)
(* it holds at the end.  Where the database gives no connection, null is   *)
(* stored.  A request is a record: what was asked, and where its handler   *)
(* is.  A text is represented by its length.                               *)
(***************************************************************************)
EXTENDS Integers, FiniteSets

CONSTANTS Request,            \* requests; each is made at most once
          NULL,
          Ask,                \* what may be requested
          Unstorable,         \* user names that break the INSERT's text: a quote, or too long
          Accounts, Messages  \* the rows of SocialMedia.sql

VARIABLES req,               \* the requests
          account, message,  \* the tables
          nextid,            \* the auto_increment counters
          conn,              \* the field conn of each DAO
          closed,            \* connections that have been closed
          rows               \* history: every row there ever was

vars == <<req, account, message, nextid, conn, closed, rows>>

\* The calls that the service makes for each kind of request, in order.
Calls == [register |-> <<"getAccountByUsername", "insertAccount">>,
          login    |-> <<"getAccountByUsername">>,
          post     |-> <<"userExists", "insertMessage">>,
          getAll   |-> <<"getAllMessages">>,
          getOne   |-> <<"getMessageById">>,
          delete   |-> <<"getMessageById", "removeMessageById">>,
          patch    |-> <<"getMessageById", "updateMessageTextById", "getMessageById">>,
          getUser  |-> <<"selectAllMessagesByUserId">>]

Call(q) == Calls[q.kind][q.call]

\* The password or the id is right; there is none, or no body.
Right(q) == q.ok = TRUE
Missing(q) == q.ok = NULL

DAO(q) == IF q.kind \in {"register", "login"} THEN "account" ELSE "message"

\* These use a local variable conn, and these close the field at the end.
LocalConn == {"updateMessageTextById", "selectAllMessagesByUserId"}
Closes == {"insertAccount", "insertMessage", "removeMessageById"}

\* A request before it is made.  ok: the password is right, or has four
\* characters; the id in the path is a number.  NULL: there is no password, or
\* the body is not what it should be; a name NULL: there is no user name.
\* mine: the connection of the call.  pre: the tables when the request was made,
\* while no other has been under way and no connection has failed (history).
NoRequest == [kind |-> "none", id |-> 0, name |-> NULL, ok |-> TRUE, text |-> 0,
              pc |-> "new", call |-> 1, mine |-> NULL, stmt |-> NULL, row |-> NULL, m |-> NULL,
              status |-> 0, body |-> NULL, pre |-> NULL]

\* The script's rows satisfy its constraints, and auto_increment has numbered
\* them.  A request brings what is asked, and nothing of a handler's state.
ASSUME ServiceAssumption ==
  /\ IsFiniteSet(Accounts) /\ IsFiniteSet(Messages)
  /\ \A a \in Accounts : a.id \in 1 .. Cardinality(Accounts)
  /\ \A a, b \in Accounts : a.id = b.id => a = b
  /\ \A m \in Messages : DOMAIN m = {"id", "by", "text"} /\ m.id \in 1 .. Cardinality(Messages)
  /\ \A m, n \in Messages : m.id = n.id => m = n
  /\ \A q \in Ask :
       /\ q.kind \in DOMAIN Calls
       /\ q = [NoRequest EXCEPT !.kind = q.kind, !.id = q.id, !.name = q.name,
                                !.ok = q.ok, !.text = q.text]

\* The rows that the columns' types allow.  NULL, Java's null, is no row,
\* not TRUE and no connection (which is numbered by its request and call).
Names == {a.name : a \in Accounts} \cup {q.name : q \in Ask}
AccountRow == [id : Nat, name : Names]
MessageRow == [id : Nat, by : Int, text : Int]

ASSUME RowAssumption ==
  /\ Accounts \subseteq AccountRow /\ Messages \subseteq MessageRow
  /\ \A q \in Ask : q.id \in Int /\ q.text \in Int /\ q.ok \in {TRUE, FALSE, NULL}
  /\ NULL # TRUE /\ NULL \notin AccountRow /\ NULL \notin MessageRow
  /\ NULL \notin Request \X (1 .. 3)

Init ==
  /\ req = [r \in Request |-> NoRequest]
  /\ account = Accounts /\ message = Messages
  /\ nextid = [account |-> Cardinality(Accounts) + 1, message |-> Cardinality(Messages) + 1]
  /\ conn = [d \in {"account", "message"} |-> NULL]
  /\ closed = {}
  /\ rows = Accounts \cup Messages

Active(r) == req[r].pc \notin {"new", "done"}

Set(r, q) == req' = [req EXCEPT ![r] = q]

-----------------------------------------------------------------------------
\* An exception that nobody catches: a user name or a password that is null, a
\* body that cannot be read.
Throws(q) == \/ q.kind = "register" /\ (q.name = NULL \/ (q.name # "" /\ Missing(q)))
             \/ q.kind \in {"login", "post", "patch"} /\ Missing(q)

\* What the services refuse before they ask the database.
Refused(q) == CASE q.kind = "register" -> q.name = "" \/ ~Right(q)
                [] q.kind = "post" -> q.text \notin 1 .. 254
                [] q.kind = "patch" -> q.text \notin 1 .. 255 \/ ~Right(q)
                [] q.kind \in {"getOne", "delete", "getUser"} -> ~Right(q)
                [] OTHER -> FALSE

\* The status that a handler answers with when the service returns v.  A list
\* that is null makes ctx.json throw.
Status(q, v) == CASE q.kind \in {"register", "post", "patch"} -> IF v = NULL THEN 400 ELSE 200
                  [] q.kind = "login" -> IF v = NULL THEN 401 ELSE 200
                  [] q.kind = "getUser" -> IF v = NULL THEN 500 ELSE 200
                  [] OTHER -> 200

Done(q, status, v) == [q EXCEPT !.pc = "done", !.status = status, !.body = v, !.mine = NULL,
                                !.stmt = NULL, !.row = NULL, !.m = NULL]

Answered(q, v) == Done(q, Status(q, v), v)

\* The exception reaches the handler.  getMessageByIdHandler catches it.
Crashed(q) == Done(q, IF q.kind = "getOne" THEN 200 ELSE 500, NULL)

\* The handler, and what the service checks first.
Opened(q) == IF Throws(q) THEN Crashed(q) ELSE IF Refused(q) THEN Answered(q, NULL) ELSE q

\* A request arrives at its handler.
handle(r, q) ==
  /\ req[r].pc = "new"
  /\ LET pre == IF \E o \in Request : Active(o) THEN NULL
                ELSE [account |-> account, message |-> message]
         made == [q EXCEPT !.pc = "getConnection", !.pre = pre]
     IN req' = [o \in Request |-> IF o = r THEN Opened(made) ELSE [req[o] EXCEPT !.pre = NULL]]
  /\ UNCHANGED <<account, message, nextid, conn, closed, rows>>

-----------------------------------------------------------------------------
\* Mutant of GoesOn: whatever was asked, if something was found.
GoesOn_found(q, v) == v # NULL

\* The service goes on to its next call: what it asked for is (not) there.
GoesOn(q, v) == CASE q.call = 1 /\ q.kind = "register" -> v = NULL
                  [] q.call = 1 /\ q.kind \in {"post", "delete", "patch"} -> v # NULL
                  [] q.call = 2 /\ q.kind = "patch" -> v # NULL
                  [] OTHER -> FALSE

\* Mutant of Outcome: a message that is gone when it is read again is answered
\* with what was read before.
Outcome_stale(q, v) == IF q.kind = "patch" /\ q.call = 3 /\ v = NULL THEN q.m ELSE v

\* verifyAccount compares the password; deleteMessageById returns the message
\* it found, whatever came of its removal.
Outcome(q, v) == CASE q.kind = "login" -> IF Right(q) THEN v ELSE NULL
                   [] q.kind = "delete" /\ q.call = 2 -> q.m
                   [] q.kind = "register" /\ q.call = 1 -> NULL
                   [] OTHER -> v

\* The DAO call of q returns v to the service.
Return(q, v) ==
  IF GoesOn(q, v)
  THEN [q EXCEPT !.call = @ + 1, !.pc = "getConnection", !.mine = NULL, !.stmt = NULL,
                 !.row = NULL, !.m = IF q.call = 1 THEN v ELSE @]
  ELSE Answered(q, Outcome(q, v))

Own(r) == <<r, req[r].call>>

\* conn = ConnectionUtil.getConnection(), which is null after an SQLException.
getConnection(r) ==
  /\ req[r].pc = "getConnection"
  /\ \E c \in {Own(r), NULL} :
       /\ conn' = IF Call(req[r]) \in LocalConn THEN conn ELSE [conn EXCEPT ![DAO(req[r])] = c]
       /\ Set(r, [req[r] EXCEPT !.pc = "prepare", !.mine = c,
                                !.pre = IF c = NULL THEN NULL ELSE @])
  /\ UNCHANGED <<account, message, nextid, closed, rows>>

\* What the variable conn may yield.  The field is not volatile: the thread may
\* still use what it stored itself.
ReadConn(r) == {req[r].mine} \cup IF Call(req[r]) \in LocalConn THEN {} ELSE {conn[DAO(req[r])]}

\* The SQLException is caught: the call returns null, false, or the rows it
\* has read so far.
Throw(r) ==
  IF Call(req[r]) = "getAllMessages"
  THEN \E some \in SUBSET (IF req[r].row = NULL THEN {} ELSE req[r].row) :
         Set(r, Return(req[r], some))
  ELSE Set(r, Return(req[r], NULL))

prepareStatement(r) ==
  /\ req[r].pc = "prepare"
  /\ \E c \in ReadConn(r) :
       IF c = NULL THEN Set(r, Crashed(req[r]))
       ELSE IF c \in closed THEN Throw(r)
       ELSE Set(r, [req[r] EXCEPT !.pc = "execute", !.stmt = c])
  /\ UNCHANGED <<account, message, nextid, conn, closed, rows>>

Insert(table, row) == table \cup {row}

\* Mutant of Unique: the column has no unique constraint.
Unique_not(name) == TRUE

\* "username varchar(255) unique"
Unique(name) == \A a \in account : a.name # name

\* Mutant of Updated: update or insert.
Updated_merge(q) == {m \in message : m.id # q.id} \cup {[id |-> q.id, by |-> 1, text |-> q.text]}

\* UPDATE message SET message_text = ? WHERE message_id = ?
Updated(q) == {IF m.id = q.id THEN [m EXCEPT !.text = q.text] ELSE m : m \in message}

\* Mutant of References: the column is not a foreign key.
References_not(id) == TRUE

\* "foreign key (posted_by) references account(account_id)"
References(id) == \E a \in account : a.id = id

\* The statement is no SQL, or a constraint of the tables refuses it.
Violates(q) == CASE Call(q) = "insertAccount" -> q.name \in Unstorable \/ ~Unique(q.name)
                 [] Call(q) = "insertMessage" -> ~References(q.id)
                 [] OTHER -> FALSE

The(S) == IF S = {} THEN NULL ELSE CHOOSE x \in S : TRUE

\* What a statement finds or makes.  execute() of a SELECT is true.
Result(q) ==
  CASE Call(q) = "getAccountByUsername" -> The({a \in account : a.name = q.name})
    [] Call(q) = "insertAccount" -> [id |-> nextid.account, name |-> q.name]
    [] Call(q) = "insertMessage" -> [id |-> nextid.message, by |-> q.id, text |-> q.text]
    [] Call(q) = "getMessageById" -> The({m \in message : m.id = q.id})
    [] Call(q) = "getAllMessages" -> message
    [] Call(q) = "selectAllMessagesByUserId" -> {m \in message : m.by = q.id}
    [] OTHER -> TRUE

execute(r) ==
  LET q == req[r] IN
  /\ q.pc = "execute"
  /\ IF q.stmt \in closed \/ Violates(q)
     THEN Throw(r) /\ UNCHANGED <<account, message, nextid>>
     ELSE /\ Set(r, [q EXCEPT !.pc = "fetch", !.row = Result(q)])
          /\ account' = IF Call(q) = "insertAccount" THEN Insert(account, Result(q)) ELSE account
          /\ message' = CASE Call(q) = "insertMessage" -> Insert(message, Result(q))
                          [] Call(q) = "removeMessageById" -> {m \in message : m.id # q.id}
                          [] Call(q) = "updateMessageTextById" -> Updated(q)
                          [] OTHER -> message
          /\ nextid' = [nextid EXCEPT
               !.account = IF Call(q) = "insertAccount" THEN @ + 1 ELSE @,
               !.message = IF Call(q) = "insertMessage" THEN @ + 1 ELSE @]
  /\ rows' = rows \cup account' \cup message'
  /\ UNCHANGED <<conn, closed>>

\* The result set is read, unless the call has none.  updateMessageTextById
\* goes on to getMessageById.
fetch(r) ==
  LET q == req[r] IN
  /\ q.pc = "fetch"
  /\ IF q.stmt \in closed /\ Call(q) \notin {"userExists", "removeMessageById", "updateMessageTextById"}
     THEN Throw(r)
     ELSE IF Call(q) \in Closes THEN Set(r, [q EXCEPT !.pc = "close"])
     ELSE Set(r, Return(q, q.row))
  /\ UNCHANGED <<account, message, nextid, conn, closed, rows>>

\* conn.close(): whatever connection the field holds.
close(r) ==
  /\ req[r].pc = "close"
  /\ \E c \in ReadConn(r) :
       IF c = NULL
       THEN Set(r, Crashed(req[r])) /\ UNCHANGED closed
       ELSE closed' = closed \cup {c} /\ Set(r, Return(req[r], req[r].row))
  /\ UNCHANGED <<account, message, nextid, conn, rows>>

-----------------------------------------------------------------------------
Next == \E r \in Request :
          \/ \E q \in Ask : handle(r, q)
          \/ getConnection(r) \/ prepareStatement(r) \/ execute(r) \/ fetch(r) \/ close(r)

Spec == Init /\ [][Next]_vars

-----------------------------------------------------------------------------
TypeOK ==
  /\ \A r \in Request :
       /\ req[r].pc \in {"new", "getConnection", "prepare", "execute", "fetch", "close", "done"}
       /\ req[r].status \in {0, 200, 400, 401, 500}
       /\ req[r].kind = "none" \/ req[r].call \in DOMAIN Calls[req[r].kind]
  /\ \A a, b \in account : a.id = b.id => a = b
  /\ \A a, b \in message : a.id = b.id => a = b
  /\ closed \subseteq Request \X (1 .. 3)

Succeeded(r) == req[r].status = 200

\* readme.md: "The registration will be successful if and only if [...] an
\* Account with that username does not already exist."  addAccount checks and
\* inserts in two steps, and takes a check that failed for "no such account":
\* still a username is registered successfully once at most, however the
\* requests interleave.
OneRegistration ==
  \A r, o \in Request :
    req[r].kind = "register" /\ Succeeded(r) =>
      /\ \A a \in Accounts : a.name # req[r].name
      /\ req[o].kind = "register" /\ Succeeded(o) /\ req[o].name = req[r].name => o = r

\* A registration, a post or a patch that is answered with 200 has happened,
\* although the handler's last look at the tables comes after its change, and
\* others change them in between: the account is there, the message was stored,
\* the text was replaced.  (A deletion may be reported that has not happened:
\* DeletedAsAnswered.)
SuccessIsTrue ==
  \A r \in Request : Succeeded(r) =>
    /\ req[r].kind = "register" => req[r].body \in account /\ req[r].body.name = req[r].name
    /\ req[r].kind = "post" => req[r].body \in rows /\ References(req[r].body.by)
    /\ req[r].kind = "patch" =>
         \E m \in rows : DOMAIN m = {"id", "by", "text"} /\ m.id = req[r].id /\ m.text = req[r].text

\* readme.md: "The deletion of an existing message should remove an existing
\* message from the database.  If the message existed, the response body should
\* contain the now-deleted message."  The code answers with the message it has
\* found, whatever came of removeMessageById, whose connection another request
\* may have closed: the message is still there.
DeletedAsAnswered ==
  \A r \in Request : Succeeded(r) /\ req[r].kind = "delete" /\ req[r].body # NULL =>
    \A m \in message : m.id # req[r].body.id

\* "This is because the DELETE verb is intended to be idempotent": a message
\* that is gone does not come back, whatever updates were under way.
DeletedForGood ==
  [][\A i \in 1 .. nextid.message - 1 :
       (\E m \in message' : m.id = i) => (\E m \in message : m.id = i)]_vars

\* What q asks for in the tables T: the account of its name, its message, and
\* all that a request which only reads is after.
Named(q, T) == The({a \in T.account : a.name = q.name})
Found(q, T) == The({m \in T.message : Right(q) /\ m.id = q.id})
Read(q, T) == CASE q.kind = "login" -> Named(q, T)
                [] q.kind = "getOne" -> Found(q, T)
                [] q.kind = "getAll" -> T.message
                [] q.kind = "getUser" -> {m \in T.message : Right(q) /\ m.by = q.id}

\* readme.md on a request q that finds the tables T: whether it is successful,
\* and the status if it is not.
Good(q, T) == CASE q.kind = "register" -> q.name \notin {NULL, ""} /\ Right(q) /\ Named(q, T) = NULL
                [] q.kind = "login" -> Named(q, T) # NULL /\ Right(q)
                [] q.kind = "post" -> /\ ~Missing(q) /\ q.text \in 1 .. 255
                                      /\ \E a \in T.account : a.id = q.id
                [] q.kind = "patch" -> q.text \in 1 .. 255 /\ Found(q, T) # NULL
                [] OTHER -> TRUE
Bad(q) == IF q.kind = "login" THEN 401 ELSE 400

\* The answer to q, and the tables, as readme.md wants them; T: the tables
\* before.
PerReadme(q, T) ==
  IF ~Good(q, T)
  THEN q.status = Bad(q) /\ q.body = NULL /\ account' = T.account /\ message' = T.message
  ELSE /\ q.status = 200
       /\ CASE q.kind = "register" ->
                 q.body.name = q.name /\ account' = T.account \cup {q.body} /\ message' = T.message
            [] q.kind = "post" ->
                 /\ q.body.by = q.id /\ q.body.text = q.text
                 /\ message' = T.message \cup {q.body} /\ account' = T.account
            [] q.kind = "patch" ->
                 /\ q.body = [Found(q, T) EXCEPT !.text = q.text]
                 /\ message' = (T.message \ {Found(q, T)}) \cup {q.body} /\ account' = T.account
            [] q.kind = "delete" ->
                 q.body = Found(q, T) /\ message' = T.message \ {q.body} /\ account' = T.account
            [] OTHER -> q.body = Read(q, T) /\ message' = T.message /\ account' = T.account

\* Where the code and readme.md part.  What cannot be read is answered with 500
\* and not with 400 or 401; a text of 255 characters is refused, although it is
\* "not over 255 characters"; the messages of a user whose id is no number are
\* answered with 500, where "the response status should always be 200"; and a
\* name with a quote in it, or a very long one, is refused.
Disputed(q, T) ==
  \/ Throws(q)
  \/ q.kind = "post" /\ q.text = 255 /\ Good(q, T)
  \/ q.kind = "getUser" /\ ~Right(q)
  \/ q.kind = "register" /\ q.name \in Unstorable /\ Good(q, T)

\* The answer to q, and the tables, as the code makes them.
AsReadme(q, T) == IF Disputed(q, T)
                  THEN ~PerReadme(q, T) /\ account' = T.account /\ message' = T.message
                  ELSE PerReadme(q, T)

\* A request that no other request overlaps, and that gets its connections, is
\* answered as readme.md says and changes the tables as it says, whatever
\* earlier requests have left in the DAOs: connections that were closed by
\* others, never closed, or never made.  It is so for every request but those
\* that are Disputed, and for none of these; they change nothing.
AloneAsReadme ==
  [][\A r \in Request :
       req[r].pc # "done" /\ req'[r].pc = "done" /\ req'[r].pre # NULL =>
         AsReadme(req'[r], req'[r].pre)]_vars
=============================================================================
