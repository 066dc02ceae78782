------------------------- MODULE SocialMediaProofs --------------------------
(***************************************************************************)
(* Proofs about SocialMedia, for any requests, any number of them under    *)
(* way at once, and any initial rows.                                      *)
(***************************************************************************)
EXTENDS SocialMedia, FiniteSetTheorems, TLAPS

-----------------------------------------------------------------------------
(* The inductive invariant. *)

\* A request whose own row is in the table: it has been inserted, and no
\* exception has made the handler forget it.
HasMade(q) == \/ q.pc \in {"fetch", "close"} /\ q.call = 2
              \/ q.pc = "done" /\ q.status = 200
Made(q) == IF q.pc = "done" THEN q.body ELSE q.row

\* The new text of a patch has been in the table; its message is gone.
Stored(q, rs) == \E m \in rs : DOMAIN m = {"id", "by", "text"} /\ m.id = q.id /\ m.text = q.text
Gone(q, ms) == \A m \in ms : m.id # q.id

\* Types, and what each pc implies.
Shape(q) ==
  /\ q.mine \in (Request \X (1 .. 3)) \cup {NULL}
  /\ DOMAIN q = DOMAIN NoRequest
  /\ q.pc \in {"new", "getConnection", "prepare", "execute", "fetch", "close", "done"}
  /\ q.status \in {0, 200, 400, 401, 500}
  /\ q.pc = "new" => q.kind = "none" /\ q.status = 0
  /\ q.pc # "new" => q.kind \in DOMAIN Calls /\ q.call \in DOMAIN Calls[q.kind]
  /\ q.pc \notin {"new", "done"} => q.status = 0
  /\ q.pc = "close" => Call(q) \in Closes

\* What a registration, a post and a patch have done, at each point.
RegisterInv(q, as) ==
  q.kind = "register" /\ HasMade(q) =>
    /\ Made(q) \in as /\ Made(q).name = q.name
    /\ \A a \in Accounts : a.name # q.name

PostInv(q, as, rs) ==
  q.kind = "post" /\ HasMade(q) => Made(q) \in rs /\ \E a \in as : a.id = Made(q).by

PatchInv(q, ms, rs, ni) ==
  q.kind = "patch" =>
    /\ q.call # 1 \/ (q.pc = "fetch" /\ q.row # NULL) => q.id \in 1 .. ni.message - 1
    /\ (q.call = 2 /\ q.pc = "fetch") \/ q.call = 3 => Stored(q, rs) \/ Gone(q, ms)
    /\ q.call = 3 /\ q.pc = "fetch" /\ q.row # NULL => Stored(q, rs)
    /\ q.pc = "done" /\ q.status = 200 => Stored(q, rs)

RequestInv(q, as, ms, rs, ni) ==
  Shape(q) /\ RegisterInv(q, as) /\ PostInv(q, as, rs) /\ PatchInv(q, ms, rs, ni)

\* The tables: ids are handed out once.
Tables ==
  /\ DOMAIN nextid = {"account", "message"}
  /\ nextid.account \in Nat \ {0} /\ nextid.message \in Nat \ {0}
  /\ Accounts \subseteq account /\ message \subseteq rows
  /\ \A a \in account : a.id \in 1 .. nextid.account - 1
  /\ \A a, b \in account : a.id = b.id => a = b
  /\ \A m \in message : DOMAIN m = {"id", "by", "text"} /\ m.id \in 1 .. nextid.message - 1
  /\ \A m, n \in message : m.id = n.id => m = n

Connections ==
  /\ conn \in [{"account", "message"} -> (Request \X (1 .. 3)) \cup {NULL}]
  /\ closed \subseteq Request \X (1 .. 3)

\* No two registrations of a name have made their rows.
Registered(q, n) == q.kind = "register" /\ HasMade(q) /\ q.name = n
OneOfAName == \A r, o \in Request : Registered(req[r], req[r].name) /\ Registered(req[o], req[r].name) => o = r

ServiceInv ==
  /\ DOMAIN req = Request /\ req = [r \in Request |-> req[r]]
  /\ Tables /\ Connections /\ OneOfAName
  /\ \A r \in Request : RequestInv(req[r], account, message, rows, nextid)

-----------------------------------------------------------------------------
(* The service's control flow. *)

\* Which call of which request it is.
LEMMA CallFacts ==
  ASSUME NEW q, q.kind \in DOMAIN Calls, q.call \in DOMAIN Calls[q.kind]
  PROVE  /\ q.call \in 1 .. 3
         /\ q.call = 2 => q.kind \in {"register", "post", "delete", "patch"}
         /\ q.call = 3 => q.kind = "patch"
         /\ Call(q) = "insertAccount" <=> q.kind = "register" /\ q.call = 2
         /\ Call(q) = "insertMessage" <=> q.kind = "post" /\ q.call = 2
         /\ Call(q) = "removeMessageById" <=> q.kind = "delete" /\ q.call = 2
         /\ Call(q) = "updateMessageTextById" <=> q.kind = "patch" /\ q.call = 2
         /\ q.kind = "patch" /\ q.call # 2 => Call(q) = "getMessageById"
         /\ Call(q) = "getAllMessages" <=> q.kind = "getAll"
         /\ Call(q) \in Closes <=> q.kind \in {"register", "post", "delete"} /\ q.call = 2
<1>1. DOMAIN Calls = {"register", "login", "post", "getAll", "getOne", "delete", "patch", "getUser"}
  BY DEF Calls
<1>2. /\ Calls["register"] = <<"getAccountByUsername", "insertAccount">>
      /\ Calls["login"] = <<"getAccountByUsername">>
      /\ Calls["post"] = <<"userExists", "insertMessage">>
      /\ Calls["getAll"] = <<"getAllMessages">>
      /\ Calls["getOne"] = <<"getMessageById">>
      /\ Calls["delete"] = <<"getMessageById", "removeMessageById">>
      /\ Calls["patch"] = <<"getMessageById", "updateMessageTextById", "getMessageById">>
      /\ Calls["getUser"] = <<"selectAllMessagesByUserId">>
  BY DEF Calls
<1>3. CASE q.kind = "register"
  BY <1>2, <1>3 DEF Call, Closes
<1>4. CASE q.kind = "login"
  BY <1>2, <1>4 DEF Call, Closes
<1>5. CASE q.kind = "post"
  BY <1>2, <1>5 DEF Call, Closes
<1>6. CASE q.kind = "getAll"
  BY <1>2, <1>6 DEF Call, Closes
<1>7. CASE q.kind = "getOne"
  BY <1>2, <1>7 DEF Call, Closes
<1>8. CASE q.kind = "delete"
  BY <1>2, <1>8 DEF Call, Closes
<1>9. CASE q.kind = "patch"
  BY <1>2, <1>9 DEF Call, Closes
<1>10. CASE q.kind = "getUser"
  BY <1>2, <1>10 DEF Call, Closes
<1>. QED BY <1>1, <1>3, <1>4, <1>5, <1>6, <1>7, <1>8, <1>9, <1>10

\* The first call of a request.
LEMMA FirstCall ==
  ASSUME NEW k \in DOMAIN Calls
  PROVE  1 \in DOMAIN Calls[k]
BY DEF Calls

\* The next call, when there is one.
LEMMA NextCall ==
  ASSUME NEW q, q.kind \in DOMAIN Calls, q.call \in DOMAIN Calls[q.kind], NEW v, GoesOn(q, v)
  PROVE  /\ q.call + 1 \in DOMAIN Calls[q.kind]
         /\ q.kind = "patch" => v # NULL
         /\ q.kind \in {"register", "post"} => q.call = 1
<1>1. q.call \in 1 .. 3
  BY CallFacts
<1>2. \/ q.call = 1 /\ q.kind = "register" /\ v = NULL
      \/ q.call = 1 /\ q.kind \in {"post", "delete", "patch"} /\ v # NULL
      \/ q.call = 2 /\ q.kind = "patch" /\ v # NULL
  BY Zenon DEF GoesOn
<1>. QED BY <1>1, <1>2 DEF Calls

\* The statuses.
LEMMA StatusFacts ==
  ASSUME NEW q, NEW w
  PROVE  /\ Status(q, w) \in {200, 400, 401, 500}
         /\ q.kind \in {"register", "post", "patch"} => Status(q, w) = IF w = NULL THEN 400 ELSE 200
<1>1. q.kind \in {"register", "post", "patch"} => Status(q, w) = IF w = NULL THEN 400 ELSE 200
  BY Zenon DEF Status
<1>2. CASE q.kind \in {"register", "post", "patch"}
  BY <1>1, <1>2
<1>3. CASE q.kind = "login"
  <2>1. Status(q, w) = IF w = NULL THEN 401 ELSE 200
    BY <1>3, Zenon DEF Status
  <2>. QED BY <1>3, <2>1
<1>4. CASE q.kind = "getUser"
  <2>1. Status(q, w) = IF w = NULL THEN 500 ELSE 200
    BY <1>4, Zenon DEF Status
  <2>. QED BY <1>4, <2>1
<1>5. CASE q.kind \notin {"register", "post", "patch", "login", "getUser"}
  <2>1. Status(q, w) = 200
    BY <1>5, Zenon DEF Status
  <2>. QED BY <1>5, <2>1
<1>. QED BY <1>2, <1>3, <1>4, <1>5

\* The outcome of the service, as far as success is concerned.
LEMMA SuccessFacts ==
  ASSUME NEW q, q.kind \in DOMAIN Calls, q.call \in DOMAIN Calls[q.kind], NEW v, ~GoesOn(q, v)
  PROVE  /\ Status(q, Outcome(q, v)) \in {200, 400, 401, 500}
         /\ q.kind \in {"register", "post"} /\ Status(q, Outcome(q, v)) = 200 =>
              q.call = 2 /\ v # NULL /\ Outcome(q, v) = v
         /\ q.kind = "patch" /\ Status(q, Outcome(q, v)) = 200 => q.call = 3 /\ v # NULL
<1>1. q.call \in 1 .. 3 /\ (q.call # 1 /\ q.kind # "patch" => q.call = 2)
  BY CallFacts
<1>2. \A w : Status(q, w) \in {200, 400, 401, 500}
  BY StatusFacts
<1>3. \A w : q.kind \in {"register", "post", "patch"} => Status(q, w) = IF w = NULL THEN 400 ELSE 200
  BY StatusFacts
<1>4. /\ q.kind = "register" /\ q.call = 1 => Outcome(q, v) = NULL
      /\ q.kind = "register" /\ q.call # 1 => Outcome(q, v) = v
      /\ q.kind \in {"post", "patch"} => Outcome(q, v) = v
  BY Zenon DEF Outcome
<1>5. /\ q.call = 1 /\ q.kind \in {"post", "patch"} => v = NULL
      /\ q.call = 2 /\ q.kind = "patch" => v = NULL
  BY Zenon DEF GoesOn
<1>6. ASSUME q.kind \in {"register", "post"}, Status(q, Outcome(q, v)) = 200
      PROVE  q.call = 2 /\ v # NULL /\ Outcome(q, v) = v
  BY <1>1, <1>3, <1>4, <1>5, <1>6
<1>7. ASSUME q.kind = "patch", Status(q, Outcome(q, v)) = 200
      PROVE  q.call = 3 /\ v # NULL
  BY <1>1, <1>3, <1>4, <1>5, <1>7
<1>. QED BY <1>2, <1>6, <1>7

\* Two requests ask for the same.
SameAsk(p, q) == /\ DOMAIN p = DOMAIN q
                 /\ p.kind = q.kind /\ p.id = q.id /\ p.name = q.name /\ p.text = q.text /\ p.ok = q.ok

\* The fields of p are those of q, but for pc and what a call keeps for itself.
Continues(p, q) == SameAsk(p, q) /\ p.call = q.call /\ p.status = q.status /\ p.body = q.body

\* What an answer keeps of a request.
LEMMA DoneFacts ==
  ASSUME NEW q, DOMAIN q = DOMAIN NoRequest, NEW status, NEW v
  PROVE  LET p == Done(q, status, v)
         IN  /\ SameAsk(p, q) /\ p.pc = "done" /\ p.call = q.call /\ p.mine = NULL
             /\ p.status = status /\ p.body = v /\ p.pre = q.pre /\ DOMAIN p = DOMAIN q
BY DEF Done, SameAsk, NoRequest

\* What a call that returns v to the service leads to.
LEMMA ReturnFacts ==
  ASSUME NEW q, DOMAIN q = DOMAIN NoRequest, NEW v
  PROVE  /\ SameAsk(Return(q, v), q) /\ Return(q, v).mine = NULL
         /\ GoesOn(q, v) => /\ Return(q, v).pc = "getConnection" /\ Return(q, v).call = q.call + 1
                            /\ Return(q, v).status = q.status
         /\ ~GoesOn(q, v) => /\ Return(q, v).pc = "done" /\ Return(q, v).call = q.call
                             /\ Return(q, v).status = Status(q, Outcome(q, v))
                             /\ Return(q, v).body = Outcome(q, v)
<1>1. CASE GoesOn(q, v)
  <2> DEFINE w == IF q.call = 1 THEN v ELSE q.m
  <2>1. Return(q, v) = [q EXCEPT !.call = @ + 1, !.pc = "getConnection", !.mine = NULL, !.stmt = NULL,
                                 !.row = NULL, !.m = w]
    BY <1>1 DEF Return
  <2> HIDE DEF w
  <2>. QED BY <1>1, <2>1 DEF SameAsk, NoRequest
<1>2. CASE ~GoesOn(q, v)
  <2>1. Return(q, v) = Answered(q, Outcome(q, v))
    BY <1>2 DEF Return
  <2>2. /\ SameAsk(Return(q, v), q) /\ Return(q, v).mine = NULL /\ Return(q, v).pc = "done"
        /\ Return(q, v).call = q.call /\ Return(q, v).pre = q.pre
        /\ Return(q, v).status = Status(q, Outcome(q, v)) /\ Return(q, v).body = Outcome(q, v)
    BY <2>1, DoneFacts DEF Answered
  <2>. QED BY <1>2, <2>2
<1>. QED BY <1>1, <1>2

\* A call depends only on what was asked and on the number of calls made.
LEMMA SameCall ==
  ASSUME NEW p, NEW q, SameAsk(p, q), p.call = q.call
  PROVE  Call(p) = Call(q) /\ DAO(p) = DAO(q)
BY DEF SameAsk, Call, DAO

-----------------------------------------------------------------------------
(* Steps. *)

\* Nothing changes for p but the tables an earlier request has made.
Kept(p, q) == Continues(p, q) /\ p.pc = q.pc /\ p.row = q.row /\ p.mine = q.mine

\* How the tables may change.
Grows ==
  /\ account \subseteq account' /\ rows \subseteq rows' /\ nextid.message <= nextid'.message
  /\ nextid'.message \in Nat
  /\ \A m \in message' : (\E n \in message : n.id = m.id) \/ m.id = nextid.message

\* The promises about a patch survive such a change.
LEMMA StoredGrows ==
  ASSUME Tables, Grows, NEW q
  PROVE  /\ q.id \in 1 .. nextid.message - 1 => q.id \in 1 .. nextid'.message - 1
         /\ Stored(q, rows) => Stored(q, rows')
         /\ q.id \in 1 .. nextid.message - 1 /\ Gone(q, message) => Gone(q, message')
<1>1. q.id \in 1 .. nextid.message - 1 => q.id \in 1 .. nextid'.message - 1
  BY DEF Tables, Grows
<1>2. Stored(q, rows) => Stored(q, rows')
  BY DEF Grows, Stored
<1>3. ASSUME q.id \in 1 .. nextid.message - 1, Gone(q, message) PROVE Gone(q, message')
  BY <1>3 DEF Tables, Grows, Gone
<1>. QED BY <1>1, <1>2, <1>3

\* A request that another one's step leaves alone.
LEMMA KeptInv ==
  ASSUME ServiceInv, Grows, NEW o \in Request, Kept(req'[o], req[o])
  PROVE  /\ RequestInv(req'[o], account', message', rows', nextid')
         /\ \A n : Registered(req'[o], n) <=> Registered(req[o], n)
<1> DEFINE q == req[o]
           p == req'[o]
<1>1. Tables /\ Shape(q) /\ RegisterInv(q, account) /\ PostInv(q, account, rows)
      /\ PatchInv(q, message, rows, nextid)
  BY DEF ServiceInv, RequestInv
<1>2. /\ SameAsk(p, q) /\ p.call = q.call /\ p.status = q.status /\ p.body = q.body
      /\ p.pc = q.pc /\ p.row = q.row /\ p.mine = q.mine
  BY DEF Kept, Continues
<1> HIDE DEF p, q
<1>3. Call(p) = Call(q) /\ DAO(p) = DAO(q)
  BY <1>2, SameCall
<1>4. Shape(p)
  BY <1>1, <1>2, <1>3 DEF Shape, SameAsk
<1>5. HasMade(p) = HasMade(q) /\ Made(p) = Made(q)
  BY <1>2 DEF HasMade, Made
<1>6. RegisterInv(p, account') /\ PostInv(p, account', rows')
  BY <1>1, <1>2, <1>5 DEF RegisterInv, PostInv, SameAsk, Grows
<1>7. PatchInv(p, message', rows', nextid')
  <2> SUFFICES ASSUME p.kind = "patch" PROVE PatchInv(p, message', rows', nextid')
    BY DEF PatchInv
  <2>1. p.id = q.id /\ p.text = q.text /\ q.kind = "patch"
    BY <1>2 DEF SameAsk
  <2>2. \A rs, ms : Stored(p, rs) = Stored(q, rs) /\ Gone(p, ms) = Gone(q, ms)
    BY <2>1 DEF Stored, Gone
  <2>3. /\ q.id \in 1 .. nextid.message - 1 => q.id \in 1 .. nextid'.message - 1
        /\ Stored(q, rows) => Stored(q, rows')
        /\ q.id \in 1 .. nextid.message - 1 /\ Gone(q, message) => Gone(q, message')
    BY <1>1, StoredGrows
  <2>. QED BY <1>1, <1>2, <2>1, <2>2, <2>3 DEF PatchInv
<1>8. \A n : Registered(p, n) <=> Registered(q, n)
  BY <1>2, <1>5 DEF Registered, SameAsk
<1>. QED BY <1>4, <1>6, <1>7, <1>8 DEF RequestInv, p, q

\* The invariant from its parts: r makes a step, and the others are left alone.
LEMMA AssembleService ==
  ASSUME ServiceInv, Grows, Tables', Connections', NEW r \in Request,
         req' = [o \in Request |-> req'[o]],
         \A o \in Request : o # r => Kept(req'[o], req[o]),
         RequestInv(req'[r], account', message', rows', nextid'),
         \A n : Registered(req'[r], n) =>
           Registered(req[r], n) \/ \A o \in Request : o # r => ~Registered(req[o], n)
  PROVE  ServiceInv'
<1>1. ASSUME NEW o \in Request PROVE RequestInv(req'[o], account', message', rows', nextid')
  BY KeptInv
<1>2. ASSUME NEW o \in Request, o # r, NEW n PROVE Registered(req'[o], n) <=> Registered(req[o], n)
  BY <1>2, KeptInv
<1>3. OneOfAName'
  <2> SUFFICES ASSUME NEW o \in Request, NEW u \in Request, Registered(req'[o], req'[o].name),
                      Registered(req'[u], req'[o].name)
               PROVE  u = o
    BY DEF OneOfAName
  <2>1. \A v, w \in Request : \A n : Registered(req[v], n) /\ Registered(req[w], n) => v = w
    BY DEF ServiceInv, OneOfAName, Registered
  <2> DEFINE n == req'[o].name
  <2>2. Registered(req'[o], n) /\ Registered(req'[u], n)
    OBVIOUS
  <2> HIDE DEF n
  <2>. QED BY <1>2, <2>1, <2>2
<1>. QED BY <1>1, <1>3 DEF ServiceInv

\* A call returns v to the service: null, or what it has read.
LEMMA ReturnInv ==
  ASSUME ServiceInv, Grows, NEW r \in Request, NEW v, req'[r] = Return(req[r], v),
         req[r].pc \notin {"new", "done"},
         \/ v = NULL
         \/ req[r].kind \notin {"register", "post", "patch"}
         \/ v = req[r].row /\ req[r].pc \in {"fetch", "close"}
  PROVE  /\ RequestInv(req'[r], account', message', rows', nextid')
         /\ \A n : Registered(req'[r], n) => Registered(req[r], n)
<1> DEFINE q == req[r]
           p == req'[r]
<1>1. Tables /\ Shape(q) /\ RegisterInv(q, account) /\ PostInv(q, account, rows)
      /\ PatchInv(q, message, rows, nextid)
  BY DEF ServiceInv, RequestInv
<1>2. /\ p = Return(q, v) /\ q.pc \notin {"new", "done"}
      /\ \/ v = NULL
         \/ q.kind \notin {"register", "post", "patch"}
         \/ v = q.row /\ q.pc \in {"fetch", "close"}
  OBVIOUS
<1> HIDE DEF p, q
<1>3. /\ SameAsk(p, q) /\ p.mine = NULL
      /\ GoesOn(q, v) => p.pc = "getConnection" /\ p.call = q.call + 1 /\ p.status = q.status
      /\ ~GoesOn(q, v) => /\ p.pc = "done" /\ p.call = q.call
                          /\ p.status = Status(q, Outcome(q, v)) /\ p.body = Outcome(q, v)
  BY <1>1, <1>2, ReturnFacts DEF Shape
<1>4. q.kind \in DOMAIN Calls /\ q.call \in DOMAIN Calls[q.kind] /\ q.status = 0
  BY <1>1, <1>2 DEF Shape
<1>5. q.call \in 1 .. 3 /\ (q.pc = "close" => q.kind # "patch")
  BY <1>1, <1>4, CallFacts DEF Shape
<1>6. /\ \A rs, ms : Stored(p, rs) = Stored(q, rs) /\ Gone(p, ms) = Gone(q, ms)
      /\ p.id = q.id /\ p.kind = q.kind /\ p.name = q.name
  BY <1>3 DEF Stored, Gone, SameAsk
<1>7. /\ q.id \in 1 .. nextid.message - 1 => q.id \in 1 .. nextid'.message - 1
      /\ Stored(q, rows) => Stored(q, rows')
      /\ q.id \in 1 .. nextid.message - 1 /\ Gone(q, message) => Gone(q, message')
  BY <1>1, StoredGrows
<1>8. CASE GoesOn(q, v)
  <2>1. /\ q.call + 1 \in DOMAIN Calls[q.kind]
        /\ q.kind = "patch" => v # NULL
    BY <1>4, <1>8, NextCall
  <2>2. p.pc = "getConnection" /\ p.call = q.call + 1 /\ p.status = 0
    BY <1>3, <1>4, <1>8
  <2>3. Shape(p)
    BY <1>1, <1>3, <1>4, <2>1, <2>2 DEF Shape, SameAsk
  <2>4. ~HasMade(p)
    BY <2>2 DEF HasMade
  <2>5. PatchInv(p, message', rows', nextid')
    <3> SUFFICES ASSUME p.kind = "patch" PROVE PatchInv(p, message', rows', nextid')
      BY DEF PatchInv
    <3>1. q.kind = "patch" /\ v # NULL /\ q.pc = "fetch" /\ q.row # NULL
      BY <1>2, <1>5, <1>6, <2>1
    <3>2. q.id \in 1 .. nextid.message - 1
      BY <1>1, <3>1 DEF PatchInv
    <3>3. q.call # 1 => Stored(q, rows) \/ Gone(q, message)
      BY <1>1, <1>5, <3>1 DEF PatchInv
    <3>4. q.call = 1 => p.call = 2
      BY <2>2
    <3>. QED BY <1>6, <1>7, <2>2, <3>2, <3>3, <3>4 DEF PatchInv
  <2>. QED BY <2>3, <2>4, <2>5 DEF RequestInv, RegisterInv, PostInv, Registered, p, q
<1>9. CASE ~GoesOn(q, v)
  <2>1. /\ p.pc = "done" /\ p.call = q.call
        /\ p.status = Status(q, Outcome(q, v)) /\ p.body = Outcome(q, v)
    BY <1>3, <1>9
  <2>2. /\ p.status \in {200, 400, 401, 500}
        /\ q.kind \in {"register", "post"} /\ p.status = 200 => q.call = 2 /\ v # NULL /\ p.body = v
        /\ q.kind = "patch" /\ p.status = 200 => q.call = 3 /\ v # NULL
    BY <1>4, <1>9, <2>1, SuccessFacts
  <2>3. Shape(p)
    BY <1>1, <1>3, <1>4, <2>1, <2>2 DEF Shape, SameAsk
  <2>4. ASSUME q.kind \in {"register", "post"}, HasMade(p) PROVE HasMade(q) /\ Made(p) = Made(q)
    <3>1. p.status = 200
      BY <2>1, <2>4 DEF HasMade
    <3>2. q.call = 2 /\ p.body = q.row /\ q.pc \in {"fetch", "close"}
      BY <1>2, <2>2, <2>4, <3>1
    <3>. QED BY <2>1, <3>2 DEF HasMade, Made
  <2>5. RegisterInv(p, account') /\ PostInv(p, account', rows')
    BY <1>1, <1>6, <2>4 DEF RegisterInv, PostInv, Grows
  <2>6. PatchInv(p, message', rows', nextid')
    <3> SUFFICES ASSUME p.kind = "patch" PROVE PatchInv(p, message', rows', nextid')
      BY DEF PatchInv
    <3>1. p.status = 200 => q.call = 3 /\ q.pc = "fetch" /\ q.row # NULL
      BY <1>2, <1>5, <1>6, <2>2
    <3>2. p.status = 200 => Stored(q, rows)
      BY <1>1, <1>6, <3>1 DEF PatchInv
    <3>. QED BY <1>1, <1>6, <1>7, <2>1, <3>2 DEF PatchInv
  <2>7. \A n : Registered(p, n) => Registered(q, n)
    BY <1>6, <2>4 DEF Registered
  <2>. QED BY <2>3, <2>5, <2>6, <2>7 DEF RequestInv, p, q
<1>. QED BY <1>8, <1>9

\* The steps that leave the tables alone.
LEMMA SameTables ==
  ASSUME ServiceInv, UNCHANGED <<account, message, nextid>>, rows \subseteq rows'
  PROVE  Grows /\ Tables'
BY DEF ServiceInv, Grows, Tables

\* A step of one request, as a function on all of them.
LEMMA SetFacts ==
  ASSUME ServiceInv, NEW r \in Request, NEW p, Set(r, p)
  PROVE  /\ req' = [o \in Request |-> req'[o]] /\ req'[r] = p
         /\ \A o \in Request : o # r => Kept(req'[o], req[o])
<1>1. /\ DOMAIN req' = Request /\ req' = [o \in Request |-> req'[o]] /\ req'[r] = p
      /\ \A o \in Request : o # r => req'[o] = req[o]
  BY DEF Set, ServiceInv
<1>2. \A q : Kept(q, q)
  BY DEF Kept, Continues, SameAsk
<1>. QED BY <1>1, <1>2

\* A request that goes on within its call has not made anything yet, unless it
\* is in the second half of its insertion already.
LEMMA ContinueInv ==
  ASSUME ServiceInv, Grows, NEW r \in Request, Continues(req'[r], req[r]),
         \/ req[r].pc \in {"getConnection", "prepare", "execute"} /\ req'[r].pc \in {"prepare", "execute"}
         \/ req[r].pc = "fetch" /\ req'[r].pc = "close" /\ req'[r].row = req[r].row
              /\ Call(req[r]) \in Closes,
         req'[r].mine \in (Request \X (1 .. 3)) \cup {NULL}
  PROVE  /\ RequestInv(req'[r], account', message', rows', nextid')
         /\ \A n : Registered(req'[r], n) => Registered(req[r], n)
<1> DEFINE q == req[r]
           p == req'[r]
<1>1. Tables /\ Shape(q) /\ RegisterInv(q, account) /\ PostInv(q, account, rows)
      /\ PatchInv(q, message, rows, nextid)
  BY DEF ServiceInv, RequestInv
<1>2. /\ SameAsk(p, q) /\ p.call = q.call /\ p.status = q.status /\ p.body = q.body
      /\ \/ q.pc \in {"getConnection", "prepare", "execute"} /\ p.pc \in {"prepare", "execute"}
         \/ q.pc = "fetch" /\ p.pc = "close" /\ p.row = q.row /\ Call(q) \in Closes
      /\ p.mine \in (Request \X (1 .. 3)) \cup {NULL}
  BY DEF Continues
<1> HIDE DEF p, q
<1>3. Call(p) = Call(q) /\ DAO(p) = DAO(q)
  BY <1>2, SameCall
<1>4. Shape(p)
  BY <1>1, <1>2, <1>3 DEF Shape, SameAsk
<1>5. ASSUME HasMade(p) PROVE HasMade(q) /\ Made(p) = Made(q)
  BY <1>2, <1>5 DEF HasMade, Made
<1>6. RegisterInv(p, account') /\ PostInv(p, account', rows')
  BY <1>1, <1>2, <1>5 DEF RegisterInv, PostInv, SameAsk, Grows
<1>7. PatchInv(p, message', rows', nextid')
  <2> SUFFICES ASSUME p.kind = "patch" PROVE PatchInv(p, message', rows', nextid')
    BY DEF PatchInv
  <2>1. p.id = q.id /\ p.text = q.text /\ q.kind = "patch"
    BY <1>2 DEF SameAsk
  <2>2. \A rs, ms : Stored(p, rs) = Stored(q, rs) /\ Gone(p, ms) = Gone(q, ms)
    BY <2>1 DEF Stored, Gone
  <2>3. /\ q.id \in 1 .. nextid.message - 1 => q.id \in 1 .. nextid'.message - 1
        /\ Stored(q, rows) => Stored(q, rows')
        /\ q.id \in 1 .. nextid.message - 1 /\ Gone(q, message) => Gone(q, message')
    BY <1>1, StoredGrows
  <2>. QED BY <1>1, <1>2, <2>1, <2>2, <2>3 DEF PatchInv
<1>8. \A n : Registered(p, n) => Registered(q, n)
  BY <1>2, <1>5 DEF Registered, SameAsk
<1>. QED BY <1>4, <1>6, <1>7, <1>8 DEF RequestInv, p, q

\* An exception ends the call.
LEMMA ThrowStep ==
  ASSUME ServiceInv, NEW r \in Request, req[r].pc \notin {"new", "done"}, Throw(r),
         UNCHANGED <<account, message, nextid, conn, closed>>, rows \subseteq rows'
  PROVE  ServiceInv'
<1>1. Grows /\ Tables'
  BY SameTables
<1>2. Connections'
  BY DEF ServiceInv, Connections
<1>3. PICK v : /\ Set(r, Return(req[r], v))
               /\ v = NULL \/ req[r].kind \notin {"register", "post", "patch"}
  <2>1. req[r].kind \in DOMAIN Calls /\ req[r].call \in DOMAIN Calls[req[r].kind]
    BY DEF ServiceInv, RequestInv, Shape
  <2>2. Call(req[r]) = "getAllMessages" => req[r].kind = "getAll"
    BY <2>1, CallFacts
  <2>. QED BY <2>2 DEF Throw
<1>4. /\ req' = [o \in Request |-> req'[o]] /\ req'[r] = Return(req[r], v)
      /\ \A o \in Request : o # r => Kept(req'[o], req[o])
  BY <1>3, SetFacts
<1>5. /\ RequestInv(req'[r], account', message', rows', nextid')
      /\ \A n : Registered(req'[r], n) => Registered(req[r], n)
  BY <1>1, <1>3, <1>4, ReturnInv
<1>. QED BY <1>1, <1>2, <1>4, <1>5, AssembleService

\* An exception that nobody catches ends the request.
LEMMA CrashStep ==
  ASSUME ServiceInv, NEW r \in Request, req[r].pc \notin {"new", "done"}, Set(r, Crashed(req[r])),
         UNCHANGED <<account, message, nextid, conn, closed>>, rows \subseteq rows'
  PROVE  ServiceInv'
<1> DEFINE q == req[r]
           p == req'[r]
<1>1. Grows /\ Tables'
  BY SameTables
<1>2. Connections'
  BY DEF ServiceInv, Connections
<1>3. /\ req' = [o \in Request |-> req'[o]] /\ p = Crashed(q)
      /\ \A o \in Request : o # r => Kept(req'[o], req[o])
  BY SetFacts
<1>4. /\ Shape(q) /\ PatchInv(q, message, rows, nextid) /\ q.pc \notin {"new", "done"}
  BY DEF ServiceInv, RequestInv
<1> HIDE DEF p, q
<1>5. /\ SameAsk(p, q) /\ p.pc = "done" /\ p.call = q.call /\ p.mine = NULL
      /\ p.status = (IF q.kind = "getOne" THEN 200 ELSE 500) /\ DOMAIN p = DOMAIN q
  <2>1. DOMAIN q = DOMAIN NoRequest
    BY <1>4 DEF Shape
  <2>. QED BY <1>3, <2>1, DoneFacts DEF Crashed
<1>6. p.kind = q.kind /\ p.id = q.id /\ p.text = q.text
  BY <1>5 DEF SameAsk
<1>7. Shape(p)
  BY <1>4, <1>5, <1>6 DEF Shape
<1>8. p.kind # "getOne" => ~HasMade(p)
  BY <1>5, <1>6 DEF HasMade
<1>9. PatchInv(p, message', rows', nextid')
  <2> SUFFICES ASSUME p.kind = "patch" PROVE PatchInv(p, message', rows', nextid')
    BY DEF PatchInv
  <2>1. \A rs, ms : Stored(p, rs) = Stored(q, rs) /\ Gone(p, ms) = Gone(q, ms)
    BY <1>6 DEF Stored, Gone
  <2>2. Stored(q, rows) => Stored(q, rows')
    BY DEF Stored
  <2>. QED BY <1>4, <1>5, <1>6, <2>1, <2>2 DEF PatchInv
<1>10. /\ RequestInv(p, account', message', rows', nextid')
       /\ \A n : ~Registered(p, n)
  BY <1>7, <1>8, <1>9 DEF RequestInv, RegisterInv, PostInv, Registered
<1>. QED BY <1>1, <1>2, <1>3, <1>10, AssembleService DEF p, q

\* A new connection is stored in the DAO's field, or in a local variable, or
\* null is.
LEMMA GetConnectionStep ==
  ASSUME ServiceInv, NEW r \in Request, getConnection(r)
  PROVE  ServiceInv'
<1>1. /\ req[r].pc = "getConnection" /\ UNCHANGED <<account, message, nextid, closed, rows>>
  BY DEF getConnection
<1>2. PICK c \in {Own(r), NULL} :
        /\ conn' = IF Call(req[r]) \in LocalConn THEN conn ELSE [conn EXCEPT ![DAO(req[r])] = c]
        /\ Set(r, [req[r] EXCEPT !.pc = "prepare", !.mine = c, !.pre = IF c = NULL THEN NULL ELSE @])
  BY DEF getConnection
<1>3. /\ DOMAIN req[r] = DOMAIN NoRequest
      /\ req[r].kind \in DOMAIN Calls /\ req[r].call \in DOMAIN Calls[req[r].kind]
      /\ conn \in [{"account", "message"} -> (Request \X (1 .. 3)) \cup {NULL}]
      /\ closed \subseteq Request \X (1 .. 3)
  BY <1>1 DEF ServiceInv, RequestInv, Shape, Connections
<1>4. c \in (Request \X (1 .. 3)) \cup {NULL}
  BY <1>3, CallFacts DEF Own
<1>5. Connections'
  <2>1. conn' \in [{"account", "message"} -> (Request \X (1 .. 3)) \cup {NULL}]
    BY <1>2, <1>3, <1>4
  <2>. QED BY <1>1, <1>3, <2>1 DEF Connections
<1>6. Grows /\ Tables'
  BY <1>1, SameTables
<1> DEFINE pre == IF c = NULL THEN NULL ELSE req[r].pre
<1>7. Set(r, [req[r] EXCEPT !.pc = "prepare", !.mine = c, !.pre = pre])
  BY <1>2
<1> HIDE DEF pre
<1>8. /\ req' = [o \in Request |-> req'[o]]
      /\ req'[r] = [req[r] EXCEPT !.pc = "prepare", !.mine = c, !.pre = pre]
      /\ \A o \in Request : o # r => Kept(req'[o], req[o])
  BY <1>7, SetFacts
<1>9. Continues(req'[r], req[r]) /\ req'[r].pc = "prepare" /\ req'[r].mine = c
  BY <1>3, <1>8 DEF Continues, SameAsk, NoRequest
<1>10. /\ RequestInv(req'[r], account', message', rows', nextid')
       /\ \A n : Registered(req'[r], n) => Registered(req[r], n)
  BY <1>1, <1>4, <1>6, <1>9, ContinueInv
<1>. QED BY <1>5, <1>6, <1>8, <1>10, AssembleService

\* prepareStatement on the field's connection, or an exception.
LEMMA PrepareStep ==
  ASSUME ServiceInv, NEW r \in Request, prepareStatement(r)
  PROVE  ServiceInv'
<1>1. req[r].pc = "prepare" /\ UNCHANGED <<account, message, nextid, conn, closed, rows>>
  BY DEF prepareStatement
<1>2. CASE Throw(r)
  BY <1>1, <1>2, ThrowStep
<1>3. CASE Set(r, Crashed(req[r]))
  BY <1>1, <1>3, CrashStep
<1>4. CASE \E c : Set(r, [req[r] EXCEPT !.pc = "execute", !.stmt = c])
  <2>1. PICK c : Set(r, [req[r] EXCEPT !.pc = "execute", !.stmt = c])
    BY <1>4
  <2>2. Grows /\ Tables' /\ Connections'
    BY <1>1, SameTables DEF ServiceInv, Connections
  <2>3. /\ req' = [o \in Request |-> req'[o]]
        /\ req'[r] = [req[r] EXCEPT !.pc = "execute", !.stmt = c]
        /\ \A o \in Request : o # r => Kept(req'[o], req[o])
    BY <2>1, SetFacts
  <2>4. /\ DOMAIN req[r] = DOMAIN NoRequest /\ req[r].mine \in (Request \X (1 .. 3)) \cup {NULL}
    BY <1>1 DEF ServiceInv, RequestInv, Shape
  <2>5. Continues(req'[r], req[r]) /\ req'[r].pc = "execute" /\ req'[r].mine = req[r].mine
    BY <2>3, <2>4 DEF Continues, SameAsk, NoRequest
  <2>6. /\ RequestInv(req'[r], account', message', rows', nextid')
        /\ \A n : Registered(req'[r], n) => Registered(req[r], n)
    BY <1>1, <2>2, <2>4, <2>5, ContinueInv
  <2>. QED BY <2>2, <2>3, <2>6, AssembleService
<1>. QED BY <1>2, <1>4, <1>3 DEF prepareStatement

\* The end of a call that reads, or the way to one that closes.
LEMMA FetchStep ==
  ASSUME ServiceInv, NEW r \in Request, fetch(r)
  PROVE  ServiceInv'
<1>1. /\ req[r].pc = "fetch" /\ UNCHANGED <<account, message, nextid, conn, closed, rows>>
      /\ \/ Throw(r)
         \/ Call(req[r]) \in Closes /\ Set(r, [req[r] EXCEPT !.pc = "close"])
         \/ Set(r, Return(req[r], req[r].row))
  BY DEF fetch
<1>2. CASE Throw(r)
  BY <1>1, <1>2, ThrowStep
<1>3. Grows /\ Tables' /\ Connections'
  BY <1>1, SameTables DEF ServiceInv, Connections
<1>4. CASE Call(req[r]) \in Closes /\ Set(r, [req[r] EXCEPT !.pc = "close"])
  <2>1. /\ req' = [o \in Request |-> req'[o]] /\ req'[r] = [req[r] EXCEPT !.pc = "close"]
        /\ \A o \in Request : o # r => Kept(req'[o], req[o])
    BY <1>4, SetFacts
  <2>2. /\ DOMAIN req[r] = DOMAIN NoRequest /\ req[r].mine \in (Request \X (1 .. 3)) \cup {NULL}
    BY <1>1 DEF ServiceInv, RequestInv, Shape
  <2>3. Continues(req'[r], req[r]) /\ req'[r].pc = "close" /\ req'[r].row = req[r].row
        /\ req'[r].mine = req[r].mine
    BY <2>1, <2>2 DEF Continues, SameAsk, NoRequest
  <2>4. /\ RequestInv(req'[r], account', message', rows', nextid')
        /\ \A n : Registered(req'[r], n) => Registered(req[r], n)
    BY <1>1, <1>3, <1>4, <2>2, <2>3, ContinueInv
  <2>. QED BY <1>3, <2>1, <2>4, AssembleService
<1>5. CASE Set(r, Return(req[r], req[r].row))
  <2>1. /\ req' = [o \in Request |-> req'[o]] /\ req'[r] = Return(req[r], req[r].row)
        /\ \A o \in Request : o # r => Kept(req'[o], req[o])
    BY <1>5, SetFacts
  <2>2. /\ RequestInv(req'[r], account', message', rows', nextid')
        /\ \A n : Registered(req'[r], n) => Registered(req[r], n)
    BY <1>1, <1>3, <2>1, ReturnInv
  <2>. QED BY <1>3, <2>1, <2>2, AssembleService
<1>. QED BY <1>1, <1>2, <1>4, <1>5

\* A DAO closes the connection that its field holds.
LEMMA CloseStep ==
  ASSUME ServiceInv, NEW r \in Request, close(r)
  PROVE  ServiceInv'
<1>1. req[r].pc = "close" /\ UNCHANGED <<account, message, nextid, conn, rows>>
  BY DEF close
<1>2. PICK c \in ReadConn(r) : IF c = NULL
                               THEN Set(r, Crashed(req[r])) /\ UNCHANGED closed
                               ELSE closed' = closed \cup {c} /\ Set(r, Return(req[r], req[r].row))
  BY DEF close
<1>3. CASE c = NULL
  BY <1>1, <1>2, <1>3, CrashStep
<1>4. CASE c # NULL
  <2>1. closed' = closed \cup {c} /\ Set(r, Return(req[r], req[r].row))
    BY <1>2, <1>4
  <2>2. req[r].mine \in (Request \X (1 .. 3)) \cup {NULL} /\ Connections
    BY DEF ServiceInv, RequestInv, Shape
  <2>3. c \in Request \X (1 .. 3)
    BY <1>4, <2>2 DEF ReadConn, Connections, DAO
  <2>4. Grows /\ Tables' /\ Connections'
    BY <1>1, <2>1, <2>2, <2>3, SameTables DEF Connections
  <2>5. /\ req' = [o \in Request |-> req'[o]] /\ req'[r] = Return(req[r], req[r].row)
        /\ \A o \in Request : o # r => Kept(req'[o], req[o])
    BY <2>1, SetFacts
  <2>6. /\ RequestInv(req'[r], account', message', rows', nextid')
        /\ \A n : Registered(req'[r], n) => Registered(req[r], n)
    BY <1>1, <2>4, <2>5, ReturnInv
  <2>. QED BY <2>4, <2>5, <2>6, AssembleService
<1>. QED BY <1>3, <1>4

\* A request as it arrives.
LEMMA AskFacts ==
  ASSUME NEW q \in Ask
  PROVE  /\ DOMAIN q = DOMAIN NoRequest /\ q.kind \in DOMAIN Calls
         /\ q.call = 1 /\ q.status = 0 /\ q.row = NULL /\ q.body = NULL /\ q.mine = NULL
<1>1. /\ q.kind \in DOMAIN Calls
      /\ q = [NoRequest EXCEPT !.kind = q.kind, !.id = q.id, !.name = q.name,
                               !.ok = q.ok, !.text = q.text]
  BY ServiceAssumption
<1> DEFINE k == q.kind
           i == q.id
           n == q.name
           o == q.ok
           x == q.text
<1>2. q = [NoRequest EXCEPT !.kind = k, !.id = i, !.name = n, !.ok = o, !.text = x]
  BY <1>1
<1> HIDE DEF k, i, n, o, x
<1>. QED BY <1>1, <1>2 DEF NoRequest

\* A request arrives: the service refuses it, or starts on its first call.
LEMMA HandleStep ==
  ASSUME ServiceInv, NEW r \in Request, NEW q \in Ask, handle(r, q)
  PROVE  ServiceInv'
<1> DEFINE pre == IF \E o \in Request : Active(o) THEN NULL ELSE [account |-> account, message |-> message]
           made == [q EXCEPT !.pc = "getConnection", !.pre = pre]
<1>1. /\ req[r].pc = "new" /\ UNCHANGED <<account, message, nextid, conn, closed, rows>>
      /\ req' = [o \in Request |-> IF o = r THEN Opened(made) ELSE [req[o] EXCEPT !.pre = NULL]]
  BY DEF handle
<1>2. Grows /\ Tables' /\ Connections'
  BY <1>1, SameTables DEF ServiceInv, Connections
<1>3. req' = [o \in Request |-> req'[o]]
  BY <1>1
<1>4. ASSUME NEW o \in Request, o # r PROVE Kept(req'[o], req[o])
  <2>1. req'[o] = [req[o] EXCEPT !.pre = NULL]
    BY <1>1, <1>4
  <2>2. DOMAIN req[o] = DOMAIN NoRequest
    BY DEF ServiceInv, RequestInv, Shape
  <2>. QED BY <2>1, <2>2 DEF Kept, Continues, SameAsk, NoRequest
<1>5. req'[r] = Opened(made)
  BY <1>1
<1>6. /\ DOMAIN q = DOMAIN NoRequest /\ q.kind \in DOMAIN Calls
      /\ q.call = 1 /\ q.status = 0 /\ q.mine = NULL
  BY AskFacts
<1> HIDE DEF pre
<1>7. /\ DOMAIN made = DOMAIN NoRequest /\ made.kind = q.kind /\ made.call = 1
      /\ made.status = 0 /\ made.pc = "getConnection" /\ made.mine = NULL
  BY <1>6 DEF NoRequest
<1> HIDE DEF made
<1>8. 1 \in DOMAIN Calls[q.kind]
  BY <1>6, FirstCall
<1>9. CASE req'[r] = made
  <2>1. Shape(made) /\ ~HasMade(made)
    BY <1>6, <1>7, <1>8 DEF Shape, HasMade
  <2>2. PatchInv(made, message', rows', nextid')
    BY <1>7 DEF PatchInv
  <2>3. /\ RequestInv(req'[r], account', message', rows', nextid')
        /\ \A n : ~Registered(req'[r], n)
    BY <1>9, <2>1, <2>2 DEF RequestInv, RegisterInv, PostInv, Registered
  <2>. QED BY <1>2, <1>3, <1>4, <2>3, AssembleService
<1>10. ASSUME NEW status \in {200, 400, 401, 500}, req'[r] = Done(made, status, NULL),
              made.kind \in {"register", "post", "patch"} => status # 200
       PROVE  ServiceInv'
  <2> DEFINE p == Done(made, status, NULL)
  <2>1. req'[r] = p
    BY <1>10
  <2>2. /\ DOMAIN p = DOMAIN NoRequest /\ p.kind = q.kind /\ p.call = 1 /\ p.pc = "done"
        /\ p.status = status /\ p.mine = NULL
    BY <1>7, DoneFacts DEF SameAsk
  <2> HIDE DEF p
  <2>3. Shape(p)
    BY <1>6, <1>8, <2>2 DEF Shape
  <2>4. p.kind \in {"register", "post", "patch"} => ~HasMade(p) /\ p.status # 200
    BY <1>7, <1>10, <2>2 DEF HasMade
  <2>5. PatchInv(p, message', rows', nextid')
    BY <2>2, <2>4 DEF PatchInv
  <2>6. /\ RequestInv(req'[r], account', message', rows', nextid')
        /\ \A n : ~Registered(req'[r], n)
    BY <2>1, <2>3, <2>4, <2>5 DEF RequestInv, RegisterInv, PostInv, Registered
  <2>. QED BY <1>2, <1>3, <1>4, <2>6, AssembleService
<1>11. /\ Status(made, NULL) \in {200, 400, 401, 500}
       /\ made.kind \in {"register", "post", "patch"} => Status(made, NULL) # 200
  BY StatusFacts
<1>12. CASE req'[r] = Done(made, Status(made, NULL), NULL)
  BY <1>10, <1>11, <1>12
<1>13. CASE req'[r] = Crashed(made)
  <2> DEFINE status == IF made.kind = "getOne" THEN 200 ELSE 500
  <2>1. status \in {200, 400, 401, 500} /\ (made.kind \in {"register", "post", "patch"} => status # 200)
    OBVIOUS
  <2>2. req'[r] = Done(made, status, NULL)
    BY <1>13 DEF Crashed
  <2> HIDE DEF status
  <2>. QED BY <1>10, <2>1, <2>2
<1>. QED BY <1>5, <1>9, <1>12, <1>13 DEF Opened, Answered

\* What the statements that matter find or make.
LEMMA ResultFacts ==
  ASSUME NEW q, q.kind \in DOMAIN Calls, q.call \in DOMAIN Calls[q.kind]
  PROVE  /\ q.kind = "register" /\ q.call = 2 => Result(q) = [id |-> nextid.account, name |-> q.name]
         /\ q.kind = "post" /\ q.call = 2 =>
              Result(q) = [id |-> nextid.message, by |-> q.id, text |-> q.text]
         /\ q.kind = "patch" /\ q.call # 2 => Result(q) = The({m \in message : m.id = q.id})
         /\ ~Violates(q) =>
              /\ q.kind = "register" /\ q.call = 2 => Unique(q.name) /\ q.name \notin Unstorable
              /\ q.kind = "post" /\ q.call = 2 => References(q.id)
<1>1. /\ Call(q) = "insertAccount" <=> q.kind = "register" /\ q.call = 2
      /\ Call(q) = "insertMessage" <=> q.kind = "post" /\ q.call = 2
      /\ q.kind = "patch" /\ q.call # 2 => Call(q) = "getMessageById"
  BY CallFacts
<1>2. Call(q) = "insertAccount" => Result(q) = [id |-> nextid.account, name |-> q.name]
  BY Zenon DEF Result
<1>3. Call(q) = "insertMessage" => Result(q) = [id |-> nextid.message, by |-> q.id, text |-> q.text]
  BY Zenon DEF Result
<1>4. Call(q) = "getMessageById" => Result(q) = The({m \in message : m.id = q.id})
  BY Zenon DEF Result
<1>5. /\ Call(q) = "insertAccount" /\ ~Violates(q) => Unique(q.name) /\ q.name \notin Unstorable
      /\ Call(q) = "insertMessage" /\ ~Violates(q) => References(q.id)
  BY Zenon DEF Violates
<1>. QED BY <1>1, <1>2, <1>3, <1>4, <1>5

\* The tables after a statement.
LEMMA ExecuteTables ==
  ASSUME ServiceInv, NEW r \in Request, execute(r), req[r].stmt \notin closed, ~Violates(req[r])
  PROVE  LET q == req[r]
         IN  /\ account' = IF q.kind = "register" /\ q.call = 2 THEN account \cup {Result(q)} ELSE account
             /\ q.kind = "post" /\ q.call = 2 => message' = message \cup {Result(q)}
             /\ q.kind = "patch" /\ q.call = 2 => message' = Updated(q)
             /\ ~(q.kind \in {"post", "patch"} /\ q.call = 2) => message' \subseteq message
             /\ DOMAIN nextid' = {"account", "message"}
             /\ nextid'.account = IF q.kind = "register" /\ q.call = 2 THEN nextid.account + 1
                                  ELSE nextid.account
             /\ nextid'.message = IF q.kind = "post" /\ q.call = 2 THEN nextid.message + 1
                                  ELSE nextid.message
             /\ rows' = rows \cup account' \cup message' /\ UNCHANGED <<conn, closed>>
             /\ q.pc = "execute" /\ Set(r, [q EXCEPT !.pc = "fetch", !.row = Result(q)])
<1> DEFINE q == req[r]
<1>1. /\ q.pc = "execute" /\ Set(r, [q EXCEPT !.pc = "fetch", !.row = Result(q)])
      /\ account' = IF Call(q) = "insertAccount" THEN Insert(account, Result(q)) ELSE account
      /\ message' = CASE Call(q) = "insertMessage" -> Insert(message, Result(q))
                      [] Call(q) = "removeMessageById" -> {m \in message : m.id # q.id}
                      [] Call(q) = "updateMessageTextById" -> Updated(q)
                      [] OTHER -> message
      /\ nextid' = [nextid EXCEPT
           !.account = IF Call(q) = "insertAccount" THEN @ + 1 ELSE @,
           !.message = IF Call(q) = "insertMessage" THEN @ + 1 ELSE @]
      /\ rows' = rows \cup account' \cup message' /\ UNCHANGED <<conn, closed>>
  BY DEF execute
<1>2. q.kind \in DOMAIN Calls /\ q.call \in DOMAIN Calls[q.kind] /\ DOMAIN nextid = {"account", "message"}
  BY <1>1 DEF ServiceInv, RequestInv, Shape, Tables
<1> HIDE DEF q
<1>3. /\ Call(q) = "insertAccount" <=> q.kind = "register" /\ q.call = 2
      /\ Call(q) = "insertMessage" <=> q.kind = "post" /\ q.call = 2
      /\ Call(q) = "updateMessageTextById" <=> q.kind = "patch" /\ q.call = 2
  BY <1>2, CallFacts
<1>4. /\ Call(q) = "insertMessage" => message' = Insert(message, Result(q))
      /\ Call(q) = "updateMessageTextById" => message' = Updated(q)
      /\ Call(q) = "removeMessageById" => message' = {m \in message : m.id # q.id}
      /\ Call(q) \notin {"insertMessage", "updateMessageTextById", "removeMessageById"} => message' = message
  BY <1>1, Zenon
<1>5. ~(q.kind \in {"post", "patch"} /\ q.call = 2) => message' \subseteq message
  BY <1>3, <1>4
<1>6. /\ DOMAIN nextid' = {"account", "message"}
      /\ nextid'.account = IF Call(q) = "insertAccount" THEN nextid.account + 1 ELSE nextid.account
      /\ nextid'.message = IF Call(q) = "insertMessage" THEN nextid.message + 1 ELSE nextid.message
  BY <1>1, <1>2
<1>7. /\ account' = IF q.kind = "register" /\ q.call = 2 THEN account \cup {Result(q)} ELSE account
      /\ q.kind = "post" /\ q.call = 2 => message' = message \cup {Result(q)}
      /\ q.kind = "patch" /\ q.call = 2 => message' = Updated(q)
  BY <1>1, <1>3, <1>4 DEF Insert
<1>. QED BY <1>1, <1>3, <1>5, <1>6, <1>7 DEF q

\* An update changes the text of one message and no id.
LEMMA UpdatedFacts ==
  ASSUME Tables, NEW q
  PROVE  /\ \A x \in Updated(q) : /\ DOMAIN x = {"id", "by", "text"}
                                  /\ \E n \in message : n.id = x.id
                                  /\ x.id = q.id => x.text = q.text
         /\ \A x, y \in Updated(q) : x.id = y.id => x = y
<1> DEFINE up(m) == IF m.id = q.id THEN [m EXCEPT !.text = q.text] ELSE m
<1>1. \A m \in message : DOMAIN m = {"id", "by", "text"}
  BY DEF Tables
<1>2. \A m \in message : /\ DOMAIN up(m) = {"id", "by", "text"} /\ up(m).id = m.id
                         /\ up(m).id = q.id => up(m).text = q.text
  BY <1>1
<1>3. \A x \in Updated(q) : \E m \in message : x = up(m)
  BY DEF Updated
<1>4. \A m, n \in message : m.id = n.id => m = n
  BY DEF Tables
<1> HIDE DEF up
<1>. QED BY <1>2, <1>3, <1>4

\* A statement that is executed.
LEMMA ExecutedStep ==
  ASSUME ServiceInv, NEW r \in Request, execute(r), req[r].stmt \notin closed, ~Violates(req[r])
  PROVE  ServiceInv' /\ Grows
<1> DEFINE q == req[r]
           p == req'[r]
<1>1. /\ account' = IF q.kind = "register" /\ q.call = 2 THEN account \cup {Result(q)} ELSE account
      /\ q.kind = "post" /\ q.call = 2 => message' = message \cup {Result(q)}
      /\ q.kind = "patch" /\ q.call = 2 => message' = Updated(q)
      /\ ~(q.kind \in {"post", "patch"} /\ q.call = 2) => message' \subseteq message
      /\ DOMAIN nextid' = {"account", "message"}
      /\ nextid'.account = IF q.kind = "register" /\ q.call = 2 THEN nextid.account + 1
                           ELSE nextid.account
      /\ nextid'.message = IF q.kind = "post" /\ q.call = 2 THEN nextid.message + 1
                           ELSE nextid.message
      /\ rows' = rows \cup account' \cup message' /\ UNCHANGED <<conn, closed>>
      /\ q.pc = "execute" /\ Set(r, [q EXCEPT !.pc = "fetch", !.row = Result(q)])
  BY ExecuteTables
<1>2. /\ Tables /\ Shape(q) /\ PatchInv(q, message, rows, nextid)
      /\ \A o \in Request : RegisterInv(req[o], account)
  BY DEF ServiceInv, RequestInv
<1>3. /\ req' = [o \in Request |-> req'[o]] /\ p = [q EXCEPT !.pc = "fetch", !.row = Result(q)]
      /\ \A o \in Request : o # r => Kept(req'[o], req[o])
  BY <1>1, SetFacts
<1>4. ~Violates(q)
  OBVIOUS
<1> HIDE DEF p, q
<1>5. /\ Continues(p, q) /\ p.pc = "fetch" /\ p.row = Result(q) /\ SameAsk(p, q) /\ p.call = q.call
      /\ p.status = q.status /\ p.mine = q.mine
  BY <1>2, <1>3 DEF Shape, Continues, SameAsk, NoRequest
<1>6. /\ q.kind \in DOMAIN Calls /\ q.call \in DOMAIN Calls[q.kind]
      /\ q.status = 0 /\ q.call \in 1 .. 3
  BY <1>1, <1>2, CallFacts DEF Shape
<1>7. /\ q.kind = "register" /\ q.call = 2 =>
           Result(q) = [id |-> nextid.account, name |-> q.name] /\ Unique(q.name)
      /\ q.kind = "post" /\ q.call = 2 =>
           Result(q) = [id |-> nextid.message, by |-> q.id, text |-> q.text] /\ References(q.id)
      /\ q.kind = "patch" /\ q.call # 2 => Result(q) = The({m \in message : m.id = q.id})
  BY <1>4, <1>6, ResultFacts
<1>8. /\ nextid.account \in Nat \ {0} /\ nextid.message \in Nat \ {0} /\ Accounts \subseteq account
      /\ message \subseteq rows
      /\ \A a \in account : a.id \in 1 .. nextid.account - 1
      /\ \A a, b \in account : a.id = b.id => a = b
      /\ \A m \in message : DOMAIN m = {"id", "by", "text"} /\ m.id \in 1 .. nextid.message - 1
      /\ \A m, n \in message : m.id = n.id => m = n
  BY <1>2 DEF Tables
<1>9. /\ Accounts \subseteq account' /\ nextid'.account \in Nat \ {0}
      /\ \A a \in account' : a.id \in 1 .. nextid'.account - 1
      /\ \A a, b \in account' : a.id = b.id => a = b
  <2>1. CASE q.kind = "register" /\ q.call = 2
    <3>1. /\ account' = account \cup {Result(q)} /\ nextid'.account = nextid.account + 1
          /\ Result(q).id = nextid.account
      BY <1>1, <1>7, <2>1
    <3>. QED BY <1>8, <3>1
  <2>2. CASE ~(q.kind = "register" /\ q.call = 2)
    <3>1. account' = account /\ nextid'.account = nextid.account
      BY <1>1, <2>2
    <3>. QED BY <1>8, <3>1
  <2>. QED BY <2>1, <2>2
<1>10. /\ nextid'.message \in Nat \ {0} /\ nextid.message <= nextid'.message
       /\ \A m \in message' : DOMAIN m = {"id", "by", "text"} /\ m.id \in 1 .. nextid'.message - 1
       /\ \A m, n \in message' : m.id = n.id => m = n
       /\ \A m \in message' : (\E n \in message : n.id = m.id) \/ m.id = nextid.message
       /\ q.kind # "post" \/ q.call # 2 => \A m \in message' : \E n \in message : n.id = m.id
  <2>1. CASE q.kind = "post" /\ q.call = 2
    <3>1. /\ message' = message \cup {Result(q)} /\ nextid'.message = nextid.message + 1
          /\ Result(q).id = nextid.message /\ DOMAIN Result(q) = {"id", "by", "text"}
      BY <1>1, <1>7, <2>1
    <3>. QED BY <1>8, <2>1, <3>1
  <2>2. CASE q.kind = "patch" /\ q.call = 2
    <3>1. message' = Updated(q) /\ nextid'.message = nextid.message
      BY <1>1, <2>2
    <3>2. /\ \A x \in message' : DOMAIN x = {"id", "by", "text"} /\ \E n \in message : n.id = x.id
          /\ \A x, y \in message' : x.id = y.id => x = y
      BY <1>2, <3>1, UpdatedFacts
    <3>. QED BY <1>8, <3>1, <3>2
  <2>3. CASE ~(q.kind \in {"post", "patch"} /\ q.call = 2)
    <3>1. message' \subseteq message /\ nextid'.message = nextid.message
      BY <1>1, <2>3
    <3>. QED BY <1>8, <3>1
  <2>. QED BY <2>1, <2>2, <2>3
<1>11. Tables'
  BY <1>1, <1>9, <1>10 DEF Tables
<1>12. Grows
  BY <1>1, <1>10 DEF Grows
<1>13. Connections'
  BY <1>1 DEF ServiceInv, Connections
<1>14. Shape(p)
  <2>1. Call(p) = Call(q) /\ DAO(p) = DAO(q)
    BY <1>5, SameCall
  <2>. QED BY <1>1, <1>2, <1>5, <1>6, <2>1 DEF Shape, SameAsk
<1>15. HasMade(p) => q.call = 2 /\ Made(p) = Result(q)
  BY <1>5 DEF HasMade, Made
<1>16. RegisterInv(p, account')
  <2> SUFFICES ASSUME p.kind = "register", HasMade(p)
               PROVE  /\ Made(p) \in account' /\ Made(p).name = p.name
                      /\ \A a \in Accounts : a.name # p.name
    BY DEF RegisterInv
  <2>1. q.kind = "register" /\ q.call = 2 /\ Made(p) = Result(q) /\ p.name = q.name
    BY <1>5, <1>15 DEF SameAsk
  <2>. QED BY <1>1, <1>7, <1>8, <2>1 DEF Unique
<1>17. PostInv(p, account', rows')
  <2> SUFFICES ASSUME p.kind = "post", HasMade(p)
               PROVE  Made(p) \in rows' /\ \E a \in account' : a.id = Made(p).by
    BY DEF PostInv
  <2>1. q.kind = "post" /\ q.call = 2 /\ Made(p) = Result(q)
    BY <1>5, <1>15 DEF SameAsk
  <2>2. account' = account /\ Made(p) \in rows' /\ Made(p).by = q.id
    BY <1>1, <1>7, <2>1
  <2>. QED BY <1>7, <2>1, <2>2 DEF References
<1>18. PatchInv(p, message', rows', nextid')
  <2> SUFFICES ASSUME p.kind = "patch" PROVE PatchInv(p, message', rows', nextid')
    BY DEF PatchInv
  <2>1. p.id = q.id /\ p.text = q.text /\ q.kind = "patch"
    BY <1>5 DEF SameAsk
  <2>2. \A rs, ms : Stored(p, rs) = Stored(q, rs) /\ Gone(p, ms) = Gone(q, ms)
    BY <2>1 DEF Stored, Gone
  <2>3. /\ q.id \in 1 .. nextid.message - 1 => q.id \in 1 .. nextid'.message - 1
        /\ Stored(q, rows) => Stored(q, rows')
        /\ q.id \in 1 .. nextid.message - 1 /\ Gone(q, message) => Gone(q, message')
    BY <1>2, <1>12, StoredGrows
  <2>4. q.call # 2 /\ Result(q) # NULL => \E m \in message : m.id = q.id
    <3>1. q.call # 2 => Result(q) = The({m \in message : m.id = q.id})
      BY <1>7, <2>1
    <3>. QED BY <3>1 DEF The
  <2>5. p.call # 1 \/ p.row # NULL => p.id \in 1 .. nextid'.message - 1
    BY <1>2, <1>5, <1>8, <2>1, <2>3, <2>4 DEF PatchInv
  <2>6. q.call = 2 => Stored(q, rows') \/ Gone(q, message')
    <3> SUFFICES ASSUME q.call = 2, ~Gone(q, message') PROVE Stored(q, rows')
      OBVIOUS
    <3>1. PICK m \in message' : m.id = q.id
      BY DEF Gone
    <3>2. message' = Updated(q) /\ m \in rows'
      BY <1>1, <2>1
    <3>3. DOMAIN m = {"id", "by", "text"} /\ m.text = q.text
      BY <1>2, <3>1, <3>2, UpdatedFacts
    <3>. QED BY <3>1, <3>2, <3>3 DEF Stored
  <2>7. q.call = 3 => Stored(q, rows') \/ Gone(q, message')
    BY <1>2, <2>1, <2>3 DEF PatchInv
  <2>8. q.call = 3 /\ Result(q) # NULL => Stored(q, rows')
    <3> SUFFICES ASSUME q.call = 3, Result(q) # NULL PROVE Stored(q, rows')
      OBVIOUS
    <3>1. Stored(q, rows) \/ Gone(q, message)
      BY <1>2, <2>1 DEF PatchInv
    <3>. QED BY <2>3, <2>4, <3>1 DEF Gone
  <2>. QED BY <1>5, <2>2, <2>5, <2>6, <2>7, <2>8 DEF PatchInv
<1>19. ASSUME NEW n, Registered(p, n)
       PROVE  \A o \in Request : o # r => ~Registered(req[o], n)
  <2>1. q.kind = "register" /\ q.call = 2 /\ q.name = n
    BY <1>5, <1>15, <1>19 DEF Registered, SameAsk
  <2>2. \A a \in account : a.name # n
    BY <1>7, <2>1 DEF Unique
  <2>. QED BY <1>2, <2>2 DEF Registered, RegisterInv
<1>20. RequestInv(req'[r], account', message', rows', nextid')
  BY <1>14, <1>16, <1>17, <1>18 DEF RequestInv, p
<1>21. \A n : Registered(req'[r], n) =>
         Registered(req[r], n) \/ \A o \in Request : o # r => ~Registered(req[o], n)
  BY <1>19 DEF p
<1>. QED BY <1>3, <1>11, <1>12, <1>13, <1>20, <1>21, AssembleService

\* execute() succeeds or throws.
LEMMA ExecuteStep ==
  ASSUME ServiceInv, NEW r \in Request, execute(r)
  PROVE  ServiceInv' /\ Grows
<1>1. CASE req[r].stmt \in closed \/ Violates(req[r])
  <2>1. /\ req[r].pc = "execute" /\ Throw(r) /\ UNCHANGED <<account, message, nextid, conn, closed>>
        /\ rows \subseteq rows'
    BY <1>1 DEF execute
  <2>2. Grows
    BY <2>1, SameTables
  <2>. QED BY <2>1, <2>2, ThrowStep
<1>2. CASE ~(req[r].stmt \in closed \/ Violates(req[r]))
  BY <1>2, ExecutedStep
<1>. QED BY <1>1, <1>2

-----------------------------------------------------------------------------
(* The theorems. *)

\* The service as it starts satisfies the invariant.
LEMMA ServiceInvInit == Init => ServiceInv
<1> SUFFICES ASSUME Init PROVE ServiceInv
  OBVIOUS
<1>1. Cardinality(Accounts) \in Nat /\ Cardinality(Messages) \in Nat
  BY ServiceAssumption, FS_CardinalityType
<1>2. Tables
  <2>1. /\ \A a \in Accounts : a.id \in 1 .. Cardinality(Accounts)
        /\ \A a, b \in Accounts : a.id = b.id => a = b
        /\ \A m \in Messages : DOMAIN m = {"id", "by", "text"} /\ m.id \in 1 .. Cardinality(Messages)
        /\ \A m, n \in Messages : m.id = n.id => m = n
    BY ServiceAssumption
  <2>2. /\ account = Accounts /\ message = Messages /\ rows = Accounts \cup Messages
        /\ nextid = [account |-> Cardinality(Accounts) + 1, message |-> Cardinality(Messages) + 1]
    BY DEF Init
  <2>3. /\ DOMAIN nextid = {"account", "message"} /\ nextid.account = Cardinality(Accounts) + 1
        /\ nextid.message = Cardinality(Messages) + 1
    BY <2>2
  <2>4. \A i : /\ i \in 1 .. Cardinality(Accounts) => i \in 1 .. nextid.account - 1
               /\ i \in 1 .. Cardinality(Messages) => i \in 1 .. nextid.message - 1
    BY <1>1, <2>3
  <2>5. nextid.account \in Nat \ {0} /\ nextid.message \in Nat \ {0}
    BY <1>1, <2>3
  <2>. QED BY <2>1, <2>2, <2>3, <2>4, <2>5 DEF Tables
<1>3. Connections
  BY DEF Init, Connections
<1>4. /\ Shape(NoRequest) /\ RegisterInv(NoRequest, account) /\ PostInv(NoRequest, account, rows)
      /\ PatchInv(NoRequest, message, rows, nextid) /\ \A n : ~Registered(NoRequest, n)
  BY DEF NoRequest, Shape, RegisterInv, PostInv, PatchInv, Registered
<1>5. \A r \in Request : req[r] = NoRequest
  BY DEF Init
<1>6. OneOfAName
  BY <1>4, <1>5 DEF OneOfAName
<1>7. DOMAIN req = Request /\ req = [r \in Request |-> req[r]]
  BY DEF Init
<1>. QED BY <1>2, <1>3, <1>4, <1>5, <1>6, <1>7 DEF ServiceInv, RequestInv

\* One step of the service.
LEMMA ServiceInvNext == ServiceInv /\ [Next]_vars => ServiceInv'
<1> SUFFICES ASSUME ServiceInv, [Next]_vars PROVE ServiceInv'
  OBVIOUS
<1>1. CASE UNCHANGED vars
  BY <1>1 DEF vars, ServiceInv, Tables, Connections, OneOfAName
<1>. QED BY <1>1, HandleStep, GetConnectionStep, PrepareStep, ExecuteStep, FetchStep, CloseStep DEF Next

\* The inductive invariant holds in every state of the service.
THEOREM ServiceInvariant == Spec => []ServiceInv
BY ServiceInvInit, ServiceInvNext, PTL DEF Spec

\* The types; no service asks for a call that it does not have, ids stay unique,
\* and what is closed is a connection.
THEOREM ServiceTypeCorrect == Spec => []TypeOK
<1>1. ServiceInv => TypeOK
  <2> SUFFICES ASSUME ServiceInv PROVE TypeOK
    OBVIOUS
  <2>1. \A r \in Request : Shape(req[r])
    BY DEF ServiceInv, RequestInv
  <2>. QED BY <2>1 DEF ServiceInv, Shape, Tables, Connections, TypeOK
<1>. QED BY <1>1, ServiceInvariant, PTL

\* A username is registered successfully at most once, and never one that the
\* script has already given away, however many registrations overlap.
THEOREM RegisteredOnce == Spec => []OneRegistration
<1>1. ServiceInv => OneRegistration
  <2> SUFFICES ASSUME ServiceInv, NEW r \in Request, NEW o \in Request,
                      req[r].kind = "register", Succeeded(r)
               PROVE  /\ \A a \in Accounts : a.name # req[r].name
                      /\ req[o].kind = "register" /\ Succeeded(o) /\ req[o].name = req[r].name => o = r
    BY DEF OneRegistration
  <2>1. \A u \in Request : Shape(req[u]) /\ RegisterInv(req[u], account)
    BY DEF ServiceInv, RequestInv
  <2>2. \A u \in Request : Succeeded(u) => HasMade(req[u])
    BY <2>1 DEF Shape, Succeeded, HasMade
  <2>. QED BY <2>1, <2>2 DEF ServiceInv, OneOfAName, Registered, RegisterInv
<1>. QED BY <1>1, ServiceInvariant, PTL

\* A success that is reported has happened.
THEOREM SuccessIsReal == Spec => []SuccessIsTrue
<1>1. ASSUME ServiceInv, NEW r \in Request, Succeeded(r)
      PROVE  /\ req[r].kind = "register" => req[r].body \in account /\ req[r].body.name = req[r].name
             /\ req[r].kind = "post" => req[r].body \in rows /\ References(req[r].body.by)
             /\ req[r].kind = "patch" =>
                  \E m \in rows : DOMAIN m = {"id", "by", "text"} /\ m.id = req[r].id /\ m.text = req[r].text
  <2>1. /\ Shape(req[r]) /\ RegisterInv(req[r], account) /\ PostInv(req[r], account, rows)
        /\ PatchInv(req[r], message, rows, nextid)
    BY <1>1 DEF ServiceInv, RequestInv
  <2>2. req[r].pc = "done" /\ req[r].status = 200
    BY <1>1, <2>1 DEF Shape, Succeeded
  <2>3. HasMade(req[r]) /\ Made(req[r]) = req[r].body
    BY <2>2 DEF HasMade, Made
  <2>. QED BY <2>1, <2>2, <2>3 DEF RegisterInv, PostInv, PatchInv, References, Stored
<1>2. ServiceInv => SuccessIsTrue
  BY <1>1, Zenon DEF SuccessIsTrue
<1>. QED BY <1>2, ServiceInvariant, PTL

\* A message that is gone does not come back.
THEOREM StaysDeleted == Spec => DeletedForGood
<1>1. ASSUME ServiceInv, [Next]_vars, NEW i \in 1 .. nextid.message - 1, \E m \in message' : m.id = i
      PROVE  \E m \in message : m.id = i
  <2>1. nextid.message \in Nat
    BY <1>1 DEF ServiceInv, Tables
  <2>2. CASE \E r \in Request : execute(r)
    <3>1. Grows
      BY <1>1, <2>2, ExecuteStep
    <3>. QED BY <1>1, <2>1, <3>1 DEF Grows
  <2>3. CASE message' = message
    BY <1>1, <2>3
  <2>. QED BY <1>1, <2>2, <2>3 DEF Next, vars, handle, getConnection, prepareStatement, fetch, close
<1>2. ServiceInv /\ [Next]_vars =>
        [\A i \in 1 .. nextid.message - 1 :
           (\E m \in message' : m.id = i) => (\E m \in message : m.id = i)]_vars
  BY <1>1
<1>. QED BY <1>2, ServiceInvariant, PTL DEF Spec, DeletedForGood
-----------------------------------------------------------------------------
(* A request that is alone: the invariant.                                 *)

\* The lengths of text that a post may have, and those that readme.md allows.
Short == 1 .. 254
Fitting == 1 .. 255

\* A request that does not get to the database.
Stopped(q) == Throws(q) \/ Refused(q)

\* The message that a request names, with its new text.
NewText(q, T) == [Found(q, T) EXCEPT !.text = q.text]

\* What the first call of q finds in the tables T.
First(q, T) ==
  CASE q.kind \in {"register", "login"} -> Named(q, T)
    [] q.kind = "post" -> TRUE
    [] q.kind = "getAll" -> T.message
    [] q.kind = "getUser" -> Read(q, T)
    [] OTHER -> Found(q, T)

\* q has changed the tables, if it changes them at all.
HasChanged(q) == q.call = 3 \/ (q.call = 2 /\ q.pc \in {"fetch", "close"})

\* What q has seen, and what has become of the tables as and ms that were T.
Checked(q, T) ==
  q.call # 1 => /\ q.kind = "register" => Named(q, T) = NULL
                /\ q.kind = "delete" => q.m = Found(q, T)
                /\ q.kind = "patch" => Found(q, T) # NULL
Changed(q, T, as, ms) ==
  /\ q.kind = "register" => /\ q.row # NULL /\ q.row.name = q.name /\ q.name \notin Unstorable
                            /\ as = T.account \cup {q.row} /\ ms = T.message
  /\ q.kind = "post" => /\ q.row # NULL /\ q.row.by = q.id /\ q.row.text = q.text
                        /\ as = T.account /\ ms = T.message \cup {q.row}
                        /\ \E a \in T.account : a.id = q.id
  /\ q.kind = "delete" => as = T.account /\ ms = T.message \ {Found(q, T)}
  /\ q.kind = "patch" => /\ as = T.account
                         /\ ms = (T.message \ {Found(q, T)}) \cup {NewText(q, T)}
                         /\ q.call = 2 => q.row # NULL
                         /\ q.call = 3 /\ q.pc = "fetch" => q.row # NULL /\ q.row = NewText(q, T)
Progress(q, T, as, ms) ==
  /\ ~HasChanged(q) => as = T.account /\ ms = T.message
  /\ q.call = 1 /\ q.pc = "fetch" => q.row = First(q, T)
  /\ Checked(q, T)
  /\ HasChanged(q) => Changed(q, T, as, ms)

\* q uses the connection that it has made itself.
OwnConn(q, r, cn, cl) ==
  q.pc # "getConnection" =>
    /\ q.mine = <<r, q.call>> /\ <<r, q.call>> \notin cl
    /\ Call(q) \notin LocalConn => cn[DAO(q)] = <<r, q.call>>
    /\ q.pc \in {"execute", "fetch"} => q.stmt = <<r, q.call>>

Alone(r) == /\ \A o \in Request : o # r => ~Active(o)
            /\ ~Stopped(req[r]) /\ OwnConn(req[r], r, conn, closed)
            /\ Progress(req[r], req[r].pre, account, message)

\* Every row fits its columns, and every request asks for something that fits.
Asked(q) == q.pc # "new" => q.name \in Names /\ q.id \in Int /\ q.text \in Int /\ q.ok \in {TRUE, FALSE, NULL}
RowsFit == account \subseteq AccountRow /\ message \subseteq MessageRow

\* A connection is in use, or was, only after its call has made it.
Used(c) == c \in closed \/ conn["account"] = c \/ conn["message"] = c
Begun(q, i) == q.pc # "new" /\ (i < q.call \/ (i = q.call /\ q.pc # "getConnection"))
Fresh == \A r \in Request, i \in 1 .. 3 : Used(<<r, i>>) => Begun(req[r], i)

\* The connection of a call is the one that it has made.
Mine(q, r) == q.mine \in {<<r, q.call>>, NULL}

AloneInv ==
  /\ ServiceInv /\ RowsFit /\ Fresh
  /\ \A r \in Request : Asked(req[r]) /\ Mine(req[r], r)
  /\ \A r \in Request : Active(r) /\ req[r].pre # NULL => Alone(r)

-----------------------------------------------------------------------------
(* A request that is alone: what each kind of request promises.            *)

\* NULL is none of what is found.
LEMMA TheIs ==
  ASSUME NEW S, NULL \notin S
  PROVE  /\ The(S) = NULL <=> S = {}
         /\ S # {} => The(S) \in S
<1>1. S = {} => The(S) = NULL
  BY DEF The
<1>2. S # {} => The(S) \in S
  <2> SUFFICES ASSUME S # {} PROVE The(S) \in S
    OBVIOUS
  <2>1. The(S) = CHOOSE x \in S : TRUE
    BY DEF The
  <2>2. \E x \in S : TRUE
    OBVIOUS
  <2> QED BY <2>1, <2>2, Zenon
<1> QED BY <1>1, <1>2

\* The first call of each kind of request.
LEMMA FirstCallIs ==
  ASSUME NEW q, q.kind \in DOMAIN Calls, q.call = 1
  PROVE  /\ q.kind \in {"register", "login"} => Call(q) = "getAccountByUsername"
         /\ q.kind = "post" => Call(q) = "userExists"
         /\ q.kind = "getAll" => Call(q) = "getAllMessages"
         /\ q.kind = "getUser" => Call(q) = "selectAllMessagesByUserId"
         /\ q.kind \in {"getOne", "delete", "patch"} => Call(q) = "getMessageById"
BY DEF Call, Calls

\* Whether the service goes on after a call, by the kind of request.
LEMMA GoesOnIs ==
  ASSUME NEW q, NEW v
  PROVE  /\ q.kind = "register" => (GoesOn(q, v) <=> q.call = 1 /\ v = NULL)
         /\ q.kind \in {"post", "delete"} => (GoesOn(q, v) <=> q.call = 1 /\ v # NULL)
         /\ q.kind = "patch" => (GoesOn(q, v) <=> q.call \in {1, 2} /\ v # NULL)
         /\ q.kind \notin {"register", "post", "delete", "patch"} => ~GoesOn(q, v)
<1>1. q.kind = "register" => (GoesOn(q, v) <=> q.call = 1 /\ v = NULL)
  BY Zenon DEF GoesOn
<1>2. q.kind \in {"post", "delete"} => (GoesOn(q, v) <=> q.call = 1 /\ v # NULL)
  BY Zenon DEF GoesOn
<1>3. q.kind = "patch" => (GoesOn(q, v) <=> q.call \in {1, 2} /\ v # NULL)
  BY Zenon DEF GoesOn
<1>4. q.kind \notin {"register", "post", "delete", "patch"} => ~GoesOn(q, v)
  BY Zenon DEF GoesOn
<1> QED BY <1>1, <1>2, <1>3, <1>4

\* What the service makes of the last call, by the kind of request.
LEMMA OutcomeIs ==
  ASSUME NEW q, NEW v
  PROVE  /\ q.kind = "login" => Outcome(q, v) = IF Right(q) THEN v ELSE NULL
         /\ q.kind = "delete" /\ q.call = 2 => Outcome(q, v) = q.m
         /\ q.kind = "delete" /\ q.call # 2 => Outcome(q, v) = v
         /\ q.kind = "register" /\ q.call = 1 => Outcome(q, v) = NULL
         /\ q.kind = "register" /\ q.call # 1 => Outcome(q, v) = v
         /\ q.kind \notin {"login", "delete", "register"} => Outcome(q, v) = v
<1>1. q.kind = "login" => Outcome(q, v) = IF Right(q) THEN v ELSE NULL
  BY Zenon DEF Outcome
<1>2. /\ q.kind = "delete" /\ q.call = 2 => Outcome(q, v) = q.m
      /\ q.kind = "delete" /\ q.call # 2 => Outcome(q, v) = v
  BY Zenon DEF Outcome
<1>3. /\ q.kind = "register" /\ q.call = 1 => Outcome(q, v) = NULL
      /\ q.kind = "register" /\ q.call # 1 => Outcome(q, v) = v
  BY Zenon DEF Outcome
<1>4. q.kind \notin {"login", "delete", "register"} => Outcome(q, v) = v
  BY Zenon DEF Outcome
<1> QED BY <1>1, <1>2, <1>3, <1>4

\* The status of an answer, by the kind of request.
LEMMA StatusIs ==
  ASSUME NEW q, NEW v
  PROVE  /\ q.kind \in {"register", "post", "patch"} => Status(q, v) = IF v = NULL THEN 400 ELSE 200
         /\ q.kind = "login" => Status(q, v) = IF v = NULL THEN 401 ELSE 200
         /\ q.kind = "getUser" => Status(q, v) = IF v = NULL THEN 500 ELSE 200
         /\ q.kind \notin {"register", "post", "patch", "login", "getUser"} => Status(q, v) = 200
<1>1. q.kind \in {"register", "post", "patch"} => Status(q, v) = IF v = NULL THEN 400 ELSE 200
  BY Zenon DEF Status
<1>2. q.kind = "login" => Status(q, v) = IF v = NULL THEN 401 ELSE 200
  BY Zenon DEF Status
<1>3. q.kind = "getUser" => Status(q, v) = IF v = NULL THEN 500 ELSE 200
  BY Zenon DEF Status
<1>4. q.kind \notin {"register", "post", "patch", "login", "getUser"} => Status(q, v) = 200
  BY Zenon DEF Status
<1> QED BY <1>1, <1>2, <1>3, <1>4

\* The status of what is not granted.
LEMMA BadIs ==
  ASSUME NEW q, q.kind \in {"register", "post", "patch", "login"}
  PROVE  Bad(q) = Status(q, NULL)
<1>1. CASE q.kind \in {"register", "post", "patch"}
  BY <1>1, StatusIs DEF Bad
<1>2. CASE q.kind = "login"
  BY <1>2, StatusIs DEF Bad
<1> QED BY <1>1, <1>2

\* What the first call finds, by the kind of request.
LEMMA FirstIs ==
  ASSUME NEW q, NEW T
  PROVE  /\ q.kind \in {"register", "login"} => First(q, T) = Named(q, T)
         /\ q.kind = "post" => First(q, T) = TRUE
         /\ q.kind \in {"getOne", "delete", "patch"} => First(q, T) = Found(q, T)
         /\ q.kind \in {"login", "getOne", "getAll", "getUser"} => First(q, T) = Read(q, T)
         /\ q.kind = "getOne" => Read(q, T) = Found(q, T)
         /\ q.kind = "getUser" => Read(q, T) = {m \in T.message : Right(q) /\ m.by = q.id}
<1>1. q.kind \in {"register", "login"} => First(q, T) = Named(q, T)
  BY Zenon DEF First
<1>2. q.kind = "post" => First(q, T) = TRUE
  BY Zenon DEF First
<1>3. q.kind \in {"getOne", "delete", "patch"} => First(q, T) = Found(q, T)
  BY Zenon DEF First
<1>4. /\ q.kind = "login" => Read(q, T) = Named(q, T)
      /\ q.kind = "getOne" => Read(q, T) = Found(q, T)
  BY Zenon DEF Read
<1>5. q.kind = "getAll" => First(q, T) = Read(q, T)
  BY Zenon DEF First, Read
<1>6. /\ q.kind = "getUser" => First(q, T) = Read(q, T)
      /\ q.kind = "getUser" => Read(q, T) = {m \in T.message : Right(q) /\ m.by = q.id}
  BY Zenon DEF First, Read
<1> QED BY <1>1, <1>2, <1>3, <1>4, <1>5, <1>6

\* A request that gets to the database has passed the checks of its kind.
LEMMA NotStopped ==
  ASSUME NEW q, ~Stopped(q)
  PROVE  /\ ~Throws(q)
         /\ q.kind = "register" => q.name \notin {NULL, ""} /\ Right(q)
         /\ q.kind = "post" => q.text \in Short /\ ~Missing(q)
         /\ q.kind = "patch" => q.text \in Fitting /\ Right(q)
         /\ q.kind \in {"getOne", "delete", "getUser"} => Right(q)
<1>1. ~Throws(q) /\ ~Refused(q)
  BY DEF Stopped
<1>2. ASSUME q.kind = "register" PROVE q.name \notin {NULL, ""} /\ Right(q)
  <2>1. q.name # "" /\ Right(q)
    BY <1>1, <1>2, Zenon DEF Refused, Short, Fitting
  <2>2. q.name # NULL
    BY <1>1, <1>2 DEF Throws
  <2> QED BY <2>1, <2>2
<1>3. ASSUME q.kind = "post" PROVE q.text \in Short /\ ~Missing(q)
  <2>1. q.text \in Short
    BY <1>1, <1>3, Zenon DEF Refused, Short, Fitting
  <2>2. ~Missing(q)
    BY <1>1, <1>3 DEF Throws
  <2> QED BY <2>1, <2>2
<1>4. ASSUME q.kind = "patch" PROVE q.text \in Fitting /\ Right(q)
  BY <1>1, <1>4, Zenon DEF Refused, Short, Fitting
<1>5. ASSUME q.kind \in {"getOne", "delete", "getUser"} PROVE Right(q)
  BY <1>1, <1>5, Zenon DEF Refused, Short, Fitting
<1> QED BY <1>1, <1>2, <1>3, <1>4, <1>5

\* What readme.md calls successful, by the kind of request.
LEMMA GoodIs ==
  ASSUME NEW q, NEW T
  PROVE  /\ q.kind = "register" =>
              (Good(q, T) <=> q.name \notin {NULL, ""} /\ Right(q) /\ Named(q, T) = NULL)
         /\ q.kind = "login" => (Good(q, T) <=> Named(q, T) # NULL /\ Right(q))
         /\ q.kind = "post" =>
              (Good(q, T) <=> ~Missing(q) /\ q.text \in Fitting /\ \E a \in T.account : a.id = q.id)
         /\ q.kind = "patch" => (Good(q, T) <=> q.text \in Fitting /\ Found(q, T) # NULL)
         /\ q.kind \notin {"register", "login", "post", "patch"} => Good(q, T)
<1>1. q.kind = "register" =>
        (Good(q, T) <=> q.name \notin {NULL, ""} /\ Right(q) /\ Named(q, T) = NULL)
  BY Zenon DEF Good, Fitting
<1>2. q.kind = "login" => (Good(q, T) <=> Named(q, T) # NULL /\ Right(q))
  BY Zenon DEF Good, Fitting
<1>3. q.kind = "post" =>
        (Good(q, T) <=> ~Missing(q) /\ q.text \in Fitting /\ \E a \in T.account : a.id = q.id)
  BY Zenon DEF Good, Fitting
<1>4. q.kind = "patch" => (Good(q, T) <=> q.text \in Fitting /\ Found(q, T) # NULL)
  BY Zenon DEF Good, Fitting
<1>5. q.kind \notin {"register", "login", "post", "patch"} => Good(q, T)
  BY Zenon DEF Good, Fitting
<1> QED BY <1>1, <1>2, <1>3, <1>4, <1>5

\* A request that gets to the database is disputed only for its user name.
LEMMA Undisputed ==
  ASSUME NEW q, NEW T, ~Stopped(q), PerReadme(q, T),
         q.kind = "register" => q.name \notin Unstorable \/ ~Good(q, T)
  PROVE  AsReadme(q, T)
<1>1. /\ ~Throws(q)
      /\ q.kind = "post" => q.text \in Short
      /\ q.kind = "getUser" => Right(q)
  BY NotStopped, Zenon
<1>2. ~(q.kind = "post" /\ q.text = 255)
  BY <1>1 DEF Short
<1>3. ~Disputed(q, T)
  BY <1>1, <1>2, Zenon DEF Disputed
<1> QED BY <1>3 DEF AsReadme

\* They all depend on what is asked only.
LEMMA SameWish ==
  ASSUME NEW p, NEW q, SameAsk(p, q), NEW T
  PROVE  /\ Named(p, T) = Named(q, T) /\ Found(p, T) = Found(q, T) /\ First(p, T) = First(q, T)
         /\ NewText(p, T) = NewText(q, T) /\ (Stopped(p) <=> Stopped(q))
         /\ (Throws(p) <=> Throws(q)) /\ (Right(p) <=> Right(q)) /\ (Missing(p) <=> Missing(q))
<1>1. (Right(p) <=> Right(q)) /\ (Missing(p) <=> Missing(q))
  BY DEF SameAsk, Right, Missing
<1>2. p.kind = q.kind /\ p.id = q.id /\ p.name = q.name /\ p.text = q.text
  BY DEF SameAsk
<1>3. Named(p, T) = Named(q, T) /\ Found(p, T) = Found(q, T)
  BY <1>2, <1>1 DEF Named, Found
<1>4. NewText(p, T) = NewText(q, T)
  BY <1>2, <1>3 DEF NewText
<1>5. First(p, T) = First(q, T)
  <2>1. Read(p, T) = Read(q, T)
    BY <1>2, <1>3, <1>1, Zenon DEF Read
  <2> QED BY <1>2, <1>3, <2>1, Zenon DEF First
<1>6. Refused(p) <=> Refused(q)
  BY <1>2, <1>1, Zenon DEF Refused
<1>7. Throws(p) <=> Throws(q)
  BY <1>2, <1>1, Zenon DEF Throws
<1> QED BY <1>3, <1>4, <1>5, <1>6, <1>7, <1>1 DEF Stopped

\* PerReadme, by the kind of request.
LEMMA IsPerReadme ==
  ASSUME NEW p, NEW T,
         ~Good(p, T) => /\ p.status = Bad(p) /\ p.body = NULL
                        /\ account' = T.account /\ message' = T.message,
         Good(p, T) =>
           /\ p.status = 200
           /\ p.kind = "register" =>
                p.body.name = p.name /\ account' = T.account \cup {p.body} /\ message' = T.message
           /\ p.kind = "post" => /\ p.body.by = p.id /\ p.body.text = p.text
                                 /\ message' = T.message \cup {p.body} /\ account' = T.account
           /\ p.kind = "patch" =>
                /\ p.body = NewText(p, T) /\ account' = T.account
                /\ message' = (T.message \ {Found(p, T)}) \cup {p.body}
           /\ p.kind = "delete" =>
                p.body = Found(p, T) /\ message' = T.message \ {p.body} /\ account' = T.account
           /\ p.kind \notin {"register", "post", "patch", "delete"} =>
                p.body = Read(p, T) /\ message' = T.message /\ account' = T.account
  PROVE  PerReadme(p, T)
<1>1. CASE ~Good(p, T)
  BY <1>1, Zenon DEF PerReadme
<1>2. CASE Good(p, T) /\ p.kind = "register"
  BY <1>2, Zenon DEF PerReadme
<1>3. CASE Good(p, T) /\ p.kind = "post"
  BY <1>3, Zenon DEF PerReadme
<1>4. CASE Good(p, T) /\ p.kind = "patch"
  BY <1>4, Zenon DEF PerReadme, NewText
<1>5. CASE Good(p, T) /\ p.kind = "delete"
  BY <1>5, Zenon DEF PerReadme
<1>6. CASE Good(p, T) /\ p.kind \notin {"register", "post", "patch", "delete"}
  BY <1>6, Zenon DEF PerReadme
<1> QED BY <1>1, <1>2, <1>3, <1>4, <1>5, <1>6

\* A call returns v to the service: what is kept of the request.
LEMMA ReturnKeeps ==
  ASSUME NEW q, DOMAIN q = DOMAIN NoRequest, NEW v
  PROVE  /\ SameAsk(Return(q, v), q) /\ Return(q, v).pre = q.pre
         /\ GoesOn(q, v) => /\ Return(q, v).pc = "getConnection" /\ Return(q, v).call = q.call + 1
                            /\ Return(q, v).m = IF q.call = 1 THEN v ELSE q.m
         /\ ~GoesOn(q, v) => /\ Return(q, v).pc = "done" /\ Return(q, v).call = q.call
                             /\ Return(q, v).status = Status(q, Outcome(q, v))
                             /\ Return(q, v).body = Outcome(q, v)
<1>1. CASE GoesOn(q, v)
  <2> DEFINE w == IF q.call = 1 THEN v ELSE q.m
  <2>1. Return(q, v) = [q EXCEPT !.call = @ + 1, !.pc = "getConnection", !.mine = NULL, !.stmt = NULL,
                                 !.row = NULL, !.m = w]
    BY <1>1 DEF Return
  <2>2. w = IF q.call = 1 THEN v ELSE q.m
    OBVIOUS
  <2> HIDE DEF w
  <2>3. Return(q, v).m = w /\ Return(q, v).pre = q.pre
    BY <2>1 DEF NoRequest
  <2> QED BY <1>1, <2>2, <2>3, ReturnFacts
<1>2. CASE ~GoesOn(q, v)
  <2>1. Return(q, v) = Answered(q, Outcome(q, v))
    BY <1>2 DEF Return
  <2>2. Return(q, v).pre = q.pre
    BY <2>1, DoneFacts DEF Answered
  <2> QED BY <1>2, <2>2, ReturnFacts
<1> QED BY <1>1, <1>2

\* A request q that is alone is about to return what its call has found, and p
\* is what becomes of it.
Returns(q, p, v, T) ==
  /\ SameAsk(p, q) /\ q.call \in 1 .. 3 /\ ~Stopped(q)
  /\ q.kind \in DOMAIN Calls /\ q.call \in DOMAIN Calls[q.kind]
  /\ Checked(q, T) /\ account' = account /\ message' = message
  /\ message \subseteq MessageRow
  /\ GoesOn(q, v) => p.pc = "getConnection" /\ p.call = q.call + 1 /\ p.m = IF q.call = 1 THEN v ELSE q.m
  /\ ~GoesOn(q, v) => /\ p.pc = "done" /\ p.status = Status(q, Outcome(q, v))
                      /\ p.body = Outcome(q, v)

\* The first call has returned.
LEMMA FirstReturns ==
  ASSUME NEW q, NEW p, NEW T, Returns(q, p, First(q, T), T), q.call = 1,
         account = T.account, message = T.message, \A S \in SUBSET MessageRow : S # NULL
  PROVE  /\ GoesOn(q, First(q, T)) => Progress(p, T, account', message')
         /\ ~GoesOn(q, First(q, T)) => AsReadme(p, T)
<1> DEFINE v == First(q, T)
           w == Outcome(q, v)
<1>1. /\ SameAsk(p, q) /\ ~Stopped(q) /\ q.kind \in DOMAIN Calls
      /\ account' = T.account /\ message' = T.message /\ account' = account /\ message' = message
      /\ T.message \subseteq MessageRow
      /\ GoesOn(q, v) => p.pc = "getConnection" /\ p.call = 2 /\ p.m = v
      /\ ~GoesOn(q, v) => p.pc = "done" /\ p.status = Status(q, w) /\ p.body = w
  BY DEF Returns
<1>2. /\ p.kind = q.kind /\ p.id = q.id /\ p.name = q.name /\ p.text = q.text
      /\ (Right(p) <=> Right(q)) /\ (Missing(p) <=> Missing(q))
  BY <1>1 DEF SameAsk, Right, Missing
<1>3. /\ Named(p, T) = Named(q, T) /\ Found(p, T) = Found(q, T) /\ First(p, T) = v /\ ~Stopped(p)
  BY <1>1, SameWish
<1>4. v = First(q, T) /\ w = Outcome(q, v)
  OBVIOUS
<1> HIDE DEF v, w
<1>5. q.kind \in {"register", "login", "post", "getAll", "getOne", "delete", "patch", "getUser"}
  BY <1>1 DEF Calls
<1>6. CASE GoesOn(q, v)
  <2>1. p.pc = "getConnection" /\ p.call = 2 /\ p.m = v
    BY <1>1, <1>6
  <2>2. ~HasChanged(p)
    BY <2>1 DEF HasChanged
  <2>3. /\ p.kind = "register" => Named(p, T) = NULL
        /\ p.kind = "delete" => p.m = Found(p, T)
        /\ p.kind = "patch" => Found(p, T) # NULL
    <3>1. p.kind = "register" => Named(p, T) = NULL
      BY <1>2, <1>3, <1>4, <1>6, GoesOnIs, FirstIs
    <3>2. p.kind = "delete" => p.m = Found(p, T)
      BY <1>3, <2>1, FirstIs
    <3>3. p.kind = "patch" => Found(p, T) # NULL
      BY <1>2, <1>3, <1>4, <1>6, GoesOnIs, FirstIs
    <3> QED BY <3>1, <3>2, <3>3
  <2>4. Checked(p, T)
    BY <2>3 DEF Checked
  <2>5. Progress(p, T, account', message')
    BY <1>1, <2>1, <2>2, <2>4 DEF Progress
  <2> QED BY <1>6, <2>5, <1>4
<1>7. CASE ~GoesOn(q, v)
  <2> SUFFICES PerReadme(p, T) /\ (p.kind = "register" => ~Good(p, T))
    <3>1. ASSUME PerReadme(p, T), p.kind = "register" => ~Good(p, T) PROVE AsReadme(p, T)
      BY <1>3, <3>1, Undisputed
    <3> QED BY <1>4, <1>7, <3>1
  <2>1. p.pc = "done" /\ p.status = Status(q, w) /\ p.body = w
    BY <1>1, <1>7
  <2>2. p.kind \in {"register", "patch", "login"} => Status(p, NULL) = Bad(p)
    BY BadIs
  <2>3. CASE q.kind \in {"register", "patch"}
    <3>1. ~Good(p, T)
      <4>1. CASE q.kind = "register"
        <5>1. v # NULL /\ v = Named(p, T)
          BY <1>3, <1>4, <1>7, <4>1, GoesOnIs, FirstIs
        <5> QED BY <1>2, <4>1, <5>1, GoodIs
      <4>2. CASE q.kind = "patch"
        <5>1. v = NULL /\ v = Found(p, T)
          BY <1>3, <1>4, <1>7, <4>2, GoesOnIs, FirstIs
        <5> QED BY <1>2, <4>2, <5>1, GoodIs
      <4> QED BY <2>3, <4>1, <4>2
    <3>2. w = NULL
      BY <1>4, <1>7, <2>3, GoesOnIs, OutcomeIs
    <3>3. Status(q, NULL) = 400 /\ Status(p, NULL) = 400
      BY <1>2, <2>3, StatusIs
    <3>4. p.status = Bad(p) /\ p.body = NULL
      BY <1>2, <2>1, <2>2, <2>3, <3>2, <3>3
    <3>5. PerReadme(p, T)
      BY <1>1, <3>1, <3>4, IsPerReadme
    <3> QED BY <3>1, <3>5
  <2>4. CASE q.kind = "post"
    <3>1. v = TRUE /\ v # NULL
      BY <1>4, <2>4, FirstIs, RowAssumption
    <3> QED BY <1>7, <2>4, <3>1, GoesOnIs
  <2>5. CASE q.kind = "delete"
    <3>1. w = NULL /\ Found(p, T) = NULL /\ p.status = 200 /\ p.body = NULL
      <4>1. v = NULL
        BY <1>7, <2>5, GoesOnIs
      <4>2. v = Found(p, T)
        BY <1>3, <1>4, <2>5, FirstIs
      <4>3. q.call # 2
        OBVIOUS
      <4>4. w = v
        BY <1>4, <2>5, <4>3, OutcomeIs, Zenon
      <4>5. Status(q, w) = 200
        BY <2>5, StatusIs
      <4> QED BY <2>1, <4>1, <4>2, <4>4, <4>5
    <3>2. Good(p, T)
      BY <1>2, <2>5, GoodIs
    <3>3. NULL \notin T.message
      BY <1>1, RowAssumption
    <3>4. message' = T.message \ {p.body}
      BY <1>1, <3>1, <3>3
    <3>5. PerReadme(p, T)
      BY <1>1, <1>2, <2>5, <3>1, <3>2, <3>4, IsPerReadme
    <3> QED BY <1>2, <2>5, <3>5
  <2>6. CASE q.kind = "login"
    <3>1. w = (IF Right(q) THEN v ELSE NULL) /\ v = Named(p, T) /\ v = Read(p, T)
      <4>1. First(p, T) = Named(p, T) /\ First(p, T) = Read(p, T)
        BY <1>2, <2>6, FirstIs
      <4>2. w = IF Right(q) THEN v ELSE NULL
        BY <1>4, <2>6, OutcomeIs, Zenon
      <4> QED BY <1>3, <1>4, <4>1, <4>2
    <3>2. p.status = (IF w = NULL THEN 401 ELSE 200) /\ p.body = w
      BY <2>1, <2>6, StatusIs
    <3>3. Good(p, T) <=> (v # NULL /\ Right(q))
      BY <1>2, <2>6, <3>1, GoodIs
    <3>4. Bad(p) = 401
      BY <1>2, <2>2, <2>6, StatusIs
    <3>5. CASE Good(p, T)
      <4>1. p.status = 200 /\ p.body = Read(p, T)
        BY <3>1, <3>2, <3>3, <3>5
      <4>2. PerReadme(p, T)
        BY <1>1, <1>2, <2>6, <3>5, <4>1, IsPerReadme
      <4> QED BY <1>2, <2>6, <4>2
    <3>6. CASE ~Good(p, T)
      <4>1. p.status = Bad(p) /\ p.body = NULL
        BY <3>1, <3>2, <3>3, <3>4, <3>6
      <4>2. PerReadme(p, T)
        BY <1>1, <3>6, <4>1, IsPerReadme
      <4> QED BY <1>2, <2>6, <4>2
    <3> QED BY <3>5, <3>6
  <2>7. CASE q.kind \in {"getOne", "getAll", "getUser"}
    <3>1. w = v /\ v = Read(p, T)
      <4>1. First(p, T) = Read(p, T)
        BY <1>2, <2>7, FirstIs
      <4> QED BY <1>3, <1>4, <2>7, <4>1, OutcomeIs
    <3>2. Good(p, T)
      BY <1>2, <2>7, GoodIs
    <3>3. q.kind = "getUser" => v # NULL
      <4> SUFFICES ASSUME q.kind = "getUser" PROVE v # NULL
        OBVIOUS
      <4>1. v = {m \in T.message : Right(p) /\ m.by = p.id}
        BY <1>2, <3>1, FirstIs
      <4>2. v \in SUBSET MessageRow
        BY <1>1, <4>1
      <4> QED BY <4>2
    <3>4. p.status = 200 /\ p.body = Read(p, T)
      BY <2>1, <2>7, <3>1, <3>3, StatusIs
    <3>5. PerReadme(p, T)
      BY <1>1, <1>2, <2>7, <3>2, <3>4, IsPerReadme
    <3> QED BY <1>2, <2>7, <3>5
  <2> QED BY <1>5, <2>3, <2>4, <2>5, <2>6, <2>7
<1> QED BY <1>6, <1>7

\* The second call has returned, or the third.
LEMMA LastReturns ==
  ASSUME NEW q, NEW p, NEW T, Returns(q, p, q.row, T), q.call # 1, q.pc \in {"fetch", "close"},
         q.kind = "patch" => q.pc = "fetch", Changed(q, T, account, message)
  PROVE  /\ GoesOn(q, q.row) => Progress(p, T, account', message')
         /\ ~GoesOn(q, q.row) => AsReadme(p, T)
<1> DEFINE v == q.row
           w == Outcome(q, v)
<1>1. /\ SameAsk(p, q) /\ ~Stopped(q) /\ q.kind \in DOMAIN Calls /\ q.call \in 1 .. 3
      /\ q.call \in DOMAIN Calls[q.kind]
      /\ account' = account /\ message' = message
      /\ Checked(q, T)
      /\ GoesOn(q, v) => p.pc = "getConnection" /\ p.call = q.call + 1 /\ p.m = q.m
      /\ ~GoesOn(q, v) => p.pc = "done" /\ p.status = Status(q, w) /\ p.body = w
  BY DEF Returns
<1>2. /\ p.kind = q.kind /\ p.id = q.id /\ p.name = q.name /\ p.text = q.text
      /\ (Right(p) <=> Right(q)) /\ (Missing(p) <=> Missing(q))
  BY <1>1 DEF SameAsk, Right, Missing
<1>3. /\ Named(p, T) = Named(q, T) /\ Found(p, T) = Found(q, T) /\ NewText(p, T) = NewText(q, T)
      /\ ~Stopped(p)
  BY <1>1, SameWish
<1>4. v = q.row /\ w = Outcome(q, v)
  OBVIOUS
<1> HIDE DEF v, w
<1>5. q.kind \in {"register", "post", "delete", "patch"} /\ (q.call = 2 \/ (q.call = 3 /\ q.kind = "patch"))
  BY <1>1, CallFacts
<1>6. CASE q.kind = "register"
  <2>1. /\ v # NULL /\ v.name = p.name /\ account' = T.account \cup {v} /\ message' = T.message
        /\ Named(p, T) = NULL /\ p.name \notin Unstorable
    BY <1>1, <1>2, <1>3, <1>4, <1>6 DEF Changed, Checked
  <2>2. ~GoesOn(q, v) /\ w = v
    BY <1>4, <1>6, GoesOnIs, OutcomeIs
  <2>3. p.status = 200 /\ p.body = v
    BY <1>1, <1>6, <2>1, <2>2, StatusIs
  <2>4. Good(p, T)
    BY <1>2, <1>3, <1>6, <2>1, GoodIs, NotStopped
  <2>5. PerReadme(p, T)
    BY <1>2, <1>6, <2>1, <2>3, <2>4, IsPerReadme
  <2>6. AsReadme(p, T)
    BY <1>2, <1>3, <1>6, <2>1, <2>5, Undisputed
  <2> QED BY <1>4, <2>2, <2>6
<1>7. CASE q.kind = "post"
  <2>1. /\ v # NULL /\ v.by = p.id /\ v.text = p.text /\ account' = T.account
        /\ message' = T.message \cup {v} /\ \E a \in T.account : a.id = p.id
    BY <1>1, <1>2, <1>4, <1>7 DEF Changed
  <2>2. ~GoesOn(q, v) /\ w = v
    BY <1>4, <1>7, GoesOnIs, OutcomeIs
  <2>3. p.status = 200 /\ p.body = v
    BY <1>1, <1>7, <2>1, <2>2, StatusIs
  <2>4. Good(p, T)
    <3>1. ~Missing(p) /\ p.text \in Fitting
      <4>1. p.text \in Short /\ ~Missing(p)
        BY <1>2, <1>3, <1>7, NotStopped
      <4> QED BY <4>1 DEF Short, Fitting
    <3> QED BY <1>2, <1>7, <2>1, <3>1, GoodIs, Zenon
  <2>5. PerReadme(p, T)
    BY <1>2, <1>7, <2>1, <2>3, <2>4, IsPerReadme
  <2>6. AsReadme(p, T)
    BY <1>2, <1>3, <1>7, <2>1, <2>5, Undisputed
  <2> QED BY <1>4, <2>2, <2>6
<1>8. CASE q.kind = "delete"
  <2>1. account' = T.account /\ message' = T.message \ {Found(p, T)} /\ q.m = Found(p, T)
    BY <1>1, <1>3, <1>8 DEF Changed, Checked
  <2>2. ~GoesOn(q, v) /\ w = Found(p, T)
    BY <1>4, <1>5, <1>8, <2>1, GoesOnIs, OutcomeIs
  <2>3. p.status = 200 /\ p.body = Found(p, T)
    BY <1>1, <1>8, <2>2, StatusIs
  <2>4. Good(p, T)
    BY <1>2, <1>3, <1>8, GoodIs, NotStopped
  <2>5. PerReadme(p, T)
    BY <1>2, <1>8, <2>1, <2>3, <2>4, IsPerReadme
  <2>6. AsReadme(p, T)
    BY <1>2, <1>3, <1>8, <2>1, <2>5, Undisputed
  <2> QED BY <1>4, <2>2, <2>6
<1>9. CASE q.kind = "patch"
  <2>1. /\ account' = T.account /\ Found(p, T) # NULL /\ v # NULL
        /\ message' = (T.message \ {Found(p, T)}) \cup {NewText(p, T)}
        /\ q.call = 3 => v = NewText(p, T)
    BY <1>1, <1>3, <1>4, <1>5, <1>9 DEF Changed, Checked
  <2>2. CASE q.call = 2
    <3>1. GoesOn(q, v) /\ p.pc = "getConnection" /\ p.call = 3
      BY <1>1, <1>9, <2>1, <2>2, GoesOnIs
    <3>2. HasChanged(p) /\ Checked(p, T)
      BY <1>2, <1>9, <2>1, <3>1 DEF HasChanged, Checked
    <3>3. Changed(p, T, account', message')
      BY <1>2, <1>9, <2>1, <3>1 DEF Changed
    <3>4. Progress(p, T, account', message')
      BY <3>1, <3>2, <3>3 DEF Progress
    <3> QED BY <1>4, <3>1, <3>4
  <2>3. CASE q.call = 3
    <3>1. ~GoesOn(q, v) /\ w = v
      <4>1. ~GoesOn(q, v)
        BY <1>9, <2>3, GoesOnIs
      <4>2. w = v
        BY <1>4, <1>9, OutcomeIs, Zenon
      <4> QED BY <4>1, <4>2
    <3>2. p.status = 200 /\ p.body = NewText(p, T)
      BY <1>1, <1>9, <2>1, <2>3, <3>1, StatusIs
    <3>3. Good(p, T)
      BY <1>2, <1>3, <1>9, <2>1, GoodIs, NotStopped
    <3>4. PerReadme(p, T)
      BY <1>2, <1>9, <2>1, <3>2, <3>3, IsPerReadme
    <3>5. AsReadme(p, T)
      BY <1>2, <1>3, <1>9, <3>4, Undisputed
    <3> QED BY <1>4, <3>1, <3>5
  <2> QED BY <1>5, <2>2, <2>3
<1> QED BY <1>5, <1>6, <1>7, <1>8, <1>9

-----------------------------------------------------------------------------
(* A request that is alone: its steps.                                     *)

\* A request that ends, and was alone, has done what readme.md says.
Ends == \A r \in Request : req[r].pc # "done" /\ req'[r].pc = "done" /\ req'[r].pre # NULL =>
                             AsReadme(req'[r], req'[r].pre)

\* p is q, further on.
Onward(p, q) ==
  SameAsk(p, q) /\ p.pre \in {q.pre, NULL} /\ p.pc # "new" /\ \A i \in 1 .. 3 : Begun(q, i) => Begun(p, i)

\* The call of a request that is alone returns what it has found.
LEMMA AloneReturns ==
  ASSUME \A S \in SUBSET MessageRow : S # NULL, AloneInv, NEW r \in Request,
         req[r].pc \in {"fetch", "close"}, req[r].pre # NULL, account' = account, message' = message,
         NEW p, p = Return(req[r], req[r].row)
  PROVE  /\ p.pc # "done" => /\ p.pc = "getConnection" /\ ~Stopped(p)
                             /\ Progress(p, p.pre, account', message')
         /\ p.pc = "done" => AsReadme(p, p.pre)
<1> DEFINE q == req[r]
           T == q.pre
<1>1. /\ Shape(q) /\ ~Stopped(q) /\ Progress(q, T, account, message)
      /\ message \subseteq MessageRow
  BY DEF AloneInv, ServiceInv, RequestInv, Alone, Active, RowsFit
<1>2. q.pc \in {"fetch", "close"} /\ p = Return(q, q.row)
  OBVIOUS
<1> HIDE DEF q
<1>3. /\ DOMAIN q = DOMAIN NoRequest /\ q.kind \in DOMAIN Calls /\ q.call \in DOMAIN Calls[q.kind]
      /\ q.call \in 1 .. 3 /\ (q.pc = "close" => q.kind \in {"register", "post", "delete"} /\ q.call = 2)
      /\ q.call = 3 => q.kind = "patch"
  BY <1>1, <1>2, CallFacts DEF Shape
<1>4. /\ SameAsk(p, q) /\ p.pre = T
      /\ GoesOn(q, q.row) => /\ p.pc = "getConnection" /\ p.call = q.call + 1
                             /\ p.m = IF q.call = 1 THEN q.row ELSE q.m
      /\ ~GoesOn(q, q.row) => /\ p.pc = "done" /\ p.status = Status(q, Outcome(q, q.row))
                              /\ p.body = Outcome(q, q.row)
  BY <1>2, <1>3, ReturnKeeps
<1> HIDE DEF T
<1>5. Returns(q, p, q.row, T)
  BY <1>1, <1>3, <1>4 DEF Returns, Progress
<1>6. ~Stopped(p)
  BY <1>1, <1>4, SameWish
<1>7. /\ GoesOn(q, q.row) => Progress(p, T, account', message')
      /\ ~GoesOn(q, q.row) => AsReadme(p, T)
  <2>1. CASE q.call = 1
    <3>1. ~HasChanged(q) /\ q.pc = "fetch"
      BY <1>2, <1>3, <2>1 DEF HasChanged
    <3>2. q.row = First(q, T) /\ account = T.account /\ message = T.message
      BY <1>1, <2>1, <3>1 DEF Progress
    <3>3. Returns(q, p, First(q, T), T)
      BY <1>5, <3>2
    <3>4. /\ GoesOn(q, First(q, T)) => Progress(p, T, account', message')
          /\ ~GoesOn(q, First(q, T)) => AsReadme(p, T)
      BY <2>1, <3>2, <3>3, FirstReturns
    <3> QED BY <3>2, <3>4
  <2>2. CASE q.call # 1
    <3>1. HasChanged(q)
      BY <1>2, <1>3, <2>2 DEF HasChanged
    <3>2. Changed(q, T, account, message)
      BY <1>1, <3>1 DEF Progress
    <3>3. q.kind = "patch" => q.pc = "fetch"
      BY <1>2, <1>3
    <3> QED BY <1>2, <1>5, <2>2, <3>2, <3>3, LastReturns
  <2> QED BY <2>1, <2>2
<1> QED BY <1>4, <1>6, <1>7

\* A request that returns from a call is further on.
LEMMA ReturnOnward ==
  ASSUME ServiceInv, NEW r \in Request, Active(r), NEW v, NEW p, p = Return(req[r], v)
  PROVE  /\ Onward(p, req[r]) /\ (p.pc = "done" \/ p.pc = "getConnection")
         /\ p.pre = req[r].pre /\ p.mine = NULL
<1> DEFINE q == req[r]
<1>1. /\ DOMAIN q = DOMAIN NoRequest /\ q.kind \in DOMAIN Calls /\ q.call \in DOMAIN Calls[q.kind]
      /\ q.pc # "new"
  BY DEF ServiceInv, RequestInv, Shape, Active
<1>2. p = Return(q, v)
  OBVIOUS
<1> HIDE DEF q
<1>3. q.call \in 1 .. 3
  BY <1>1, CallFacts
<1>4. /\ SameAsk(p, q) /\ p.pre = q.pre /\ p.mine = NULL
      /\ GoesOn(q, v) => p.pc = "getConnection" /\ p.call = q.call + 1
      /\ ~GoesOn(q, v) => p.pc = "done" /\ p.call = q.call
  BY <1>1, <1>2, ReturnKeeps, ReturnFacts
<1>5. ASSUME NEW i \in 1 .. 3, Begun(q, i) PROVE Begun(p, i)
  BY <1>3, <1>4, <1>5 DEF Begun
<1>6. p.pc = "done" \/ p.pc = "getConnection"
  BY <1>4
<1>7. Onward(p, q)
  BY <1>4, <1>5, <1>6 DEF Onward
<1> QED BY <1>4, <1>6, <1>7 DEF q

\* The invariant after a step of r, which was under way.
LEMMA AloneAssemble ==
  ASSUME AloneInv, ServiceInv', RowsFit', NEW r \in Request, Active(r), NEW p, Set(r, p),
         Onward(p, req[r]), Mine(p, r),
         \A c \in Request \X (1 .. 3) :
           Used(c)' => Used(c) \/ (c = Own(r) /\ Begun(p, req[r].call)),
         p.pc # "done" /\ p.pre # NULL =>
           ~Stopped(p) /\ OwnConn(p, r, conn', closed') /\ Progress(p, p.pre, account', message'),
         p.pc = "done" /\ p.pre # NULL => AsReadme(p, p.pre)
  PROVE  AloneInv' /\ Ends
<1>1. /\ req'[r] = p
      /\ \A o \in Request : o # r => req'[o] = req[o]
  BY DEF Set, AloneInv, ServiceInv
<1>2. /\ SameAsk(p, req[r]) /\ p.pre \in {req[r].pre, NULL} /\ p.pc # "new"
      /\ \A i \in 1 .. 3 : Begun(req[r], i) => Begun(p, i)
  BY DEF Onward
<1>3. \A o \in Request : Asked(req'[o]) /\ Mine(req'[o], o)
  <2>1. \A o \in Request : Asked(req[o]) /\ Mine(req[o], o)
    BY DEF AloneInv
  <2>2. Asked(p) /\ Mine(p, r)
    BY <1>2, <2>1 DEF Asked, SameAsk, Active
  <2>3. ASSUME NEW o \in Request PROVE Asked(req'[o]) /\ Mine(req'[o], o)
    <3>1. CASE o = r
      BY <1>1, <2>2, <3>1
    <3>2. CASE o # r
      BY <1>1, <2>1, <3>2
    <3> QED BY <3>1, <3>2
  <2> QED BY <2>3
<1>4. Fresh'
  <2> SUFFICES ASSUME NEW o \in Request, NEW i \in 1 .. 3, Used(<<o, i>>)' PROVE Begun(req'[o], i)
    BY DEF Fresh
  <2>1. Used(<<o, i>>) => Begun(req'[o], i)
    <3>1. Used(<<o, i>>) => Begun(req[o], i)
      BY DEF AloneInv, Fresh
    <3> QED BY <1>1, <1>2, <3>1
  <2>2. <<o, i>> = Own(r) /\ Begun(p, req[r].call) => Begun(req'[o], i)
    BY <1>1 DEF Own
  <2>3. <<o, i>> \in Request \X (1 .. 3)
    OBVIOUS
  <2> QED BY <2>1, <2>2, <2>3
<1>5. ASSUME NEW o \in Request, Active(o)', req'[o].pre # NULL PROVE Alone(o)'
  <2>1. CASE o = r
    <3>1. Alone(r)
      <4>1. req[r].pre # NULL
        BY <1>1, <1>2, <1>5, <2>1
      <4> QED BY <4>1 DEF AloneInv
    <3>2. \A u \in Request : u # r => ~Active(u)'
      BY <1>1, <3>1 DEF Alone, Active
    <3>3. p.pc # "done" /\ p.pre # NULL
      BY <1>1, <1>5, <2>1 DEF Active
    <3> QED BY <1>1, <2>1, <3>2, <3>3 DEF Alone
  <2>2. CASE o # r
    <3>1. req'[o] = req[o]
      BY <1>1, <2>2
    <3>2. Active(o) /\ req[o].pre # NULL
      BY <1>5, <3>1 DEF Active
    <3>3. Alone(o)
      BY <3>2 DEF AloneInv
    <3>4. ~Active(r)
      BY <2>2, <3>3 DEF Alone
    <3> QED BY <3>4
  <2> QED BY <2>1, <2>2
<1>6. AloneInv'
  BY <1>3, <1>4, <1>5 DEF AloneInv
<1>7. Ends
  BY <1>1 DEF Ends
<1> QED BY <1>6, <1>7

\* A request that satisfies readme.md has one of its statuses.
LEMMA ReadmeStatus ==
  ASSUME NEW p, NEW T, PerReadme(p, T)
  PROVE  /\ p.status \in {200, 400, 401}
         /\ Good(p, T) => p.status = 200
         /\ ~Good(p, T) => p.status = Bad(p)
<1>1. Good(p, T) => p.status = 200
  BY Zenon DEF PerReadme
<1>2. ~Good(p, T) => p.status = Bad(p)
  BY Zenon DEF PerReadme
<1>3. Bad(p) \in {400, 401}
  BY DEF Bad
<1> QED BY <1>1, <1>2, <1>3

\* An exception that nobody catches, of a request that has not got its
\* connection, or has lost it to another one.
LEMMA CrashAlone ==
  ASSUME AloneInv, ServiceInv', NEW r \in Request, Active(r), Set(r, Crashed(req[r])),
         UNCHANGED <<account, message, conn, closed>>, req[r].pre = NULL
  PROVE  AloneInv' /\ Ends
<1> DEFINE q == req[r]
           status == IF q.kind = "getOne" THEN 200 ELSE 500
<1>1. PICK p : p = Crashed(q)
  OBVIOUS
<1>2. Set(r, p)
  BY <1>1
<1>3. /\ DOMAIN q = DOMAIN NoRequest /\ q.kind \in DOMAIN Calls /\ q.call \in DOMAIN Calls[q.kind]
      /\ q.pc \notin {"new", "done"} /\ q.pre = NULL
  BY DEF AloneInv, ServiceInv, RequestInv, Shape, Active
<1> HIDE DEF q
<1>4. p = Done(q, status, NULL)
  BY <1>1 DEF Crashed
<1> HIDE DEF status
<1>5. SameAsk(p, q) /\ p.pc = "done" /\ p.call = q.call /\ p.mine = NULL /\ p.pre = NULL
  BY <1>3, <1>4, DoneFacts
<1>6. q.call \in 1 .. 3
  BY <1>3, CallFacts
<1>7. Onward(p, q)
  <2>1. ASSUME NEW i \in 1 .. 3, Begun(q, i) PROVE Begun(p, i)
    BY <1>5, <1>6, <2>1 DEF Begun
  <2> QED BY <1>5, <2>1 DEF Onward
<1>8. Mine(p, r)
  BY <1>5 DEF Mine
<1>9. RowsFit'
  BY DEF AloneInv, RowsFit
<1>10. \A c : Used(c)' => Used(c)
  BY DEF Used
<1>11. p.pre = NULL
  BY <1>5
<1> QED BY <1>2, <1>7, <1>8, <1>9, <1>10, <1>11, AloneAssemble DEF q

\* An exception: a request that is alone meets one only where a post names
\* nobody, or a registration asks for what cannot be stored.
LEMMA ThrowAlone ==
  ASSUME AloneInv, ServiceInv', NEW r \in Request, Active(r), Throw(r),
         UNCHANGED <<account, message, conn, closed>>,
         req[r].pre # NULL =>
           /\ req[r].call = 2 /\ account = req[r].pre.account /\ message = req[r].pre.message
           /\ \/ req[r].kind = "post" /\ \A a \in req[r].pre.account : a.id # req[r].id
              \/ req[r].kind = "register" /\ req[r].name \in Unstorable /\ Named(req[r], req[r].pre) = NULL
  PROVE  AloneInv' /\ Ends
<1>1. PICK v : Set(r, Return(req[r], v)) /\ (v = NULL \/ Call(req[r]) = "getAllMessages")
  BY DEF Throw
<1>2. PICK p : p = Return(req[r], v)
  OBVIOUS
<1>3. /\ Onward(p, req[r]) /\ (p.pc = "done" \/ p.pc = "getConnection") /\ p.pre = req[r].pre
      /\ p.mine = NULL
  BY <1>2, ReturnOnward DEF AloneInv
<1>4. RowsFit' /\ Mine(p, r)
  BY <1>3 DEF AloneInv, RowsFit, Mine
<1>5. \A c : Used(c)' => Used(c)
  BY DEF Used
<1>6. ASSUME p.pre # NULL PROVE p.pc = "done" /\ AsReadme(p, p.pre)
  <2> DEFINE q == req[r]
  <2>1. /\ q.call = 2 /\ account = q.pre.account /\ message = q.pre.message
        /\ \/ q.kind = "post" /\ \A a \in q.pre.account : a.id # q.id
           \/ q.kind = "register" /\ q.name \in Unstorable /\ Named(q, q.pre) = NULL
        /\ DOMAIN q = DOMAIN NoRequest /\ q.kind \in DOMAIN Calls /\ q.call \in DOMAIN Calls[q.kind]
        /\ ~Stopped(q)
    BY <1>3, <1>6 DEF AloneInv, ServiceInv, RequestInv, Shape, Active, Alone
  <2>2. p = Return(q, v) /\ p.pre = q.pre /\ (v = NULL \/ Call(q) = "getAllMessages")
    BY <1>1, <1>2, <1>3
  <2> HIDE DEF q
  <2>3. v = NULL
    BY <2>1, <2>2, CallFacts
  <2>4. ~GoesOn(q, v)
    BY <2>1, GoesOnIs
  <2>5. /\ SameAsk(p, q) /\ p.pc = "done" /\ p.status = Status(q, Outcome(q, v))
        /\ p.body = Outcome(q, v)
    BY <2>1, <2>2, <2>4, ReturnKeeps
  <2>6. /\ p.kind = q.kind /\ p.id = q.id /\ p.name = q.name
        /\ (Right(p) <=> Right(q)) /\ (Missing(p) <=> Missing(q))
    BY <2>5 DEF SameAsk, Right, Missing
  <2>7. p.body = NULL /\ p.status = 400
    <3>1. q.kind \in {"post", "register"} /\ q.call # 1
      BY <2>1
    <3>2. Outcome(q, v) = v
      BY <3>1, OutcomeIs, Zenon
    <3>3. Status(q, v) = IF v = NULL THEN 400 ELSE 200
      BY <3>1, StatusIs
    <3> QED BY <2>3, <2>5, <3>2, <3>3
  <2>8. PICK T : T = p.pre
    OBVIOUS
  <2>9. account' = T.account /\ message' = T.message
    BY <2>1, <2>2, <2>8
  <2>10. ~Stopped(p) /\ Named(p, T) = Named(q, T)
    BY <2>1, <2>5, SameWish
  <2>11. CASE q.kind = "post"
    <3>1. \A a \in T.account : a.id # p.id
      BY <2>1, <2>2, <2>6, <2>8, <2>11
    <3>2. ~Good(p, T)
      BY <2>6, <2>11, <3>1, GoodIs, Zenon
    <3>3. Bad(p) = 400
      BY <2>6, <2>11, BadIs, StatusIs
    <3>4. PerReadme(p, T)
      BY <2>7, <2>9, <3>2, <3>3, IsPerReadme
    <3>5. AsReadme(p, T)
      BY <2>6, <2>10, <2>11, <3>4, Undisputed
    <3> QED BY <2>5, <2>8, <3>5
  <2>12. CASE q.kind = "register"
    <3>1. q.name \in Unstorable /\ Named(p, T) = NULL
      BY <2>1, <2>2, <2>8, <2>10, <2>12
    <3>2. Good(p, T)
      BY <2>6, <2>10, <2>12, <3>1, GoodIs, NotStopped
    <3>3. Disputed(p, T)
      BY <2>6, <2>12, <3>1, <3>2 DEF Disputed
    <3>4. ~PerReadme(p, T)
      BY <2>7, <3>2, ReadmeStatus
    <3>5. AsReadme(p, T)
      BY <2>9, <3>3, <3>4 DEF AsReadme
    <3> QED BY <2>5, <2>8, <3>5
  <2> QED BY <2>1, <2>11, <2>12
<1>7. Set(r, p)
  BY <1>1, <1>2
<1> QED BY <1>3, <1>4, <1>5, <1>6, <1>7, AloneAssemble

\* A request goes on within its call, before its statement or after it.
LEMMA ProgressKept ==
  ASSUME NEW q, NEW p, NEW T, NEW as, NEW ms, Progress(q, T, as, ms), SameAsk(p, q),
         p.call = q.call, p.row = q.row, p.m = q.m,
         \/ q.pc \in {"getConnection", "prepare"} /\ p.pc \in {"prepare", "execute"}
         \/ q.pc = "fetch" /\ p.pc = "close"
  PROVE  Progress(p, T, as, ms)
<1>1. /\ Named(p, T) = Named(q, T) /\ Found(p, T) = Found(q, T) /\ First(p, T) = First(q, T)
      /\ NewText(p, T) = NewText(q, T)
  BY SameWish
<1>2. p.kind = q.kind /\ p.id = q.id /\ p.name = q.name /\ p.text = q.text
  BY DEF SameAsk
<1>3. HasChanged(p) <=> HasChanged(q)
  BY DEF HasChanged
<1>4. Checked(p, T)
  BY <1>1, <1>2 DEF Progress, Checked
<1>5. Changed(q, T, as, ms) => Changed(p, T, as, ms)
  BY <1>1, <1>2 DEF Changed
<1> QED BY <1>3, <1>4, <1>5 DEF Progress

\* A request that is alone has its own connection from here on, or counts as
\* alone no more.
LEMMA GetConnectionAlone ==
  ASSUME AloneInv, NEW r \in Request, getConnection(r)
  PROVE  AloneInv' /\ Ends
<1> DEFINE q == req[r]
<1>1. q.pc = "getConnection" /\ UNCHANGED <<account, message, nextid, closed, rows>>
  BY DEF getConnection
<1>2. PICK c \in {Own(r), NULL} :
        /\ conn' = IF Call(q) \in LocalConn THEN conn ELSE [conn EXCEPT ![DAO(q)] = c]
        /\ Set(r, [q EXCEPT !.pc = "prepare", !.mine = c, !.pre = IF c = NULL THEN NULL ELSE @])
  BY DEF getConnection
<1>3. ServiceInv' /\ Active(r) /\ RowsFit'
  BY <1>1, GetConnectionStep DEF AloneInv, Active, RowsFit
<1>4. /\ DOMAIN q = DOMAIN NoRequest /\ q.kind \in DOMAIN Calls /\ q.call \in DOMAIN Calls[q.kind]
      /\ conn \in [{"account", "message"} -> (Request \X (1 .. 3)) \cup {NULL}]
  BY <1>1 DEF AloneInv, ServiceInv, RequestInv, Shape, Connections
<1>5. q.call \in 1 .. 3 /\ Own(r) = <<r, q.call>> /\ DAO(q) \in {"account", "message"}
  BY <1>4, CallFacts DEF Own, DAO
<1> DEFINE pre == IF c = NULL THEN NULL ELSE q.pre
<1>6. PICK p : p = [q EXCEPT !.pc = "prepare", !.mine = c, !.pre = pre]
  OBVIOUS
<1>7. Set(r, p)
  BY <1>2, <1>6
<1>8. <<r, q.call>> \notin closed
  <2>1. ~Begun(q, q.call)
    BY <1>1, <1>5 DEF Begun
  <2>2. Used(<<r, q.call>>) => Begun(q, q.call)
    BY <1>5 DEF AloneInv, Fresh
  <2> QED BY <2>1, <2>2 DEF Used
<1>9. ASSUME q.pre # NULL PROVE ~Stopped(q) /\ Progress(q, q.pre, account, message)
  BY <1>3, <1>9 DEF AloneInv, Alone
<1>10. Call(q) \notin LocalConn => conn'[DAO(q)] = c
  BY <1>2, <1>4, <1>5
<1>11. ASSUME NEW d \in Request \X (1 .. 3), Used(d)' PROVE Used(d) \/ d = Own(r)
  <2>1. d # NULL
    BY RowAssumption
  <2>2. d \in closed \/ conn'["account"] = d \/ conn'["message"] = d
    BY <1>1, <1>11 DEF Used
  <2>3. \A e \in {"account", "message"} : conn'[e] = conn[e] \/ conn'[e] \in {Own(r), NULL}
    BY <1>2, <1>4, <1>5
  <2> QED BY <2>1, <2>2, <2>3 DEF Used
<1>12. closed' = closed /\ account' = account /\ message' = message
  BY <1>1
<1>13. pre \in {q.pre, NULL} /\ (pre # NULL => c = <<r, q.call>> /\ pre = q.pre)
       /\ c \in {<<r, q.call>>, NULL}
  BY <1>5
<1> HIDE DEF q, pre
<1>14. /\ SameAsk(p, q) /\ p.pc = "prepare" /\ p.call = q.call /\ p.pre = pre /\ p.row = q.row
       /\ p.m = q.m /\ p.mine = c
  BY <1>4, <1>6 DEF SameAsk, NoRequest
<1>15. Onward(p, q) /\ Mine(p, r)
  <2>1. \A i \in 1 .. 3 : Begun(q, i) => Begun(p, i)
    BY <1>5, <1>14 DEF Begun
  <2> QED BY <1>13, <1>14, <2>1 DEF Onward, Mine
<1>16. Begun(p, q.call)
  BY <1>5, <1>14 DEF Begun
<1>17. ASSUME p.pre # NULL
       PROVE  ~Stopped(p) /\ OwnConn(p, r, conn', closed') /\ Progress(p, p.pre, account', message')
  <2>1. p.pre = q.pre /\ q.pre # NULL /\ c = <<r, q.call>>
    BY <1>13, <1>14, <1>17
  <2>2. ~Stopped(p)
    BY <1>9, <1>14, <2>1, SameWish
  <2>3. Progress(p, q.pre, account, message)
    BY <1>1, <1>9, <1>14, <2>1, ProgressKept
  <2>4. Call(p) = Call(q) /\ DAO(p) = DAO(q)
    BY <1>14, SameCall
  <2>5. OwnConn(p, r, conn', closed')
    BY <1>8, <1>10, <1>12, <1>14, <2>1, <2>4 DEF OwnConn
  <2> QED BY <1>12, <2>1, <2>2, <2>3, <2>5
<1>18. p.pc # "done"
  BY <1>14
<1> QED BY <1>3, <1>7, <1>11, <1>15, <1>16, <1>17, <1>18, AloneAssemble DEF q

\* A request that is alone reads its own connection, and it is open.
LEMMA ReadsOwn ==
  ASSUME AloneInv, NEW r \in Request, req[r].pc \in {"prepare", "execute", "fetch", "close"},
         req[r].pre # NULL
  PROVE  /\ ReadConn(r) = {<<r, req[r].call>>} /\ <<r, req[r].call>> \notin closed
         /\ <<r, req[r].call>> # NULL
         /\ req[r].pc \in {"execute", "fetch"} => req[r].stmt = <<r, req[r].call>>
<1>1. Active(r)
  BY DEF Active
<1>2. OwnConn(req[r], r, conn, closed)
  BY <1>1 DEF AloneInv, Alone
<1>3. req[r].kind \in DOMAIN Calls /\ req[r].call \in DOMAIN Calls[req[r].kind]
  BY DEF AloneInv, ServiceInv, RequestInv, Shape
<1>4. <<r, req[r].call>> # NULL
  BY <1>3, CallFacts, RowAssumption
<1> QED BY <1>2, <1>4 DEF OwnConn, ReadConn

\* Its statement is prepared.
LEMMA PrepareAlone ==
  ASSUME AloneInv, NEW r \in Request, prepareStatement(r)
  PROVE  AloneInv' /\ Ends
<1> DEFINE q == req[r]
<1>1. q.pc = "prepare" /\ UNCHANGED <<account, message, nextid, conn, closed, rows>>
  BY DEF prepareStatement
<1>2. ServiceInv' /\ Active(r) /\ RowsFit'
  BY <1>1, PrepareStep DEF AloneInv, Active, RowsFit
<1>3. PICK c \in ReadConn(r) :
        IF c = NULL THEN Set(r, Crashed(q))
        ELSE IF c \in closed THEN Throw(r)
        ELSE Set(r, [q EXCEPT !.pc = "execute", !.stmt = c])
  BY DEF prepareStatement
<1>4. q.pre # NULL => c = <<r, q.call>> /\ c \notin closed /\ c # NULL
  BY <1>1, <1>3, ReadsOwn
<1>5. CASE c = NULL
  <2>1. Set(r, Crashed(q)) /\ q.pre = NULL
    BY <1>3, <1>4, <1>5
  <2> QED BY <1>1, <1>2, <2>1, CrashAlone
<1>6. CASE c # NULL /\ c \in closed
  <2>1. Throw(r) /\ q.pre = NULL
    BY <1>3, <1>4, <1>6
  <2> QED BY <1>1, <1>2, <2>1, ThrowAlone
<1>7. CASE c # NULL /\ c \notin closed
  <2>1. PICK p : p = [q EXCEPT !.pc = "execute", !.stmt = c]
    OBVIOUS
  <2>2. Set(r, p)
    BY <1>3, <1>7, <2>1
  <2>3. DOMAIN q = DOMAIN NoRequest /\ Mine(q, r)
    BY DEF AloneInv, ServiceInv, RequestInv, Shape
  <2>4. ASSUME q.pre # NULL
        PROVE  /\ ~Stopped(q) /\ Progress(q, q.pre, account, message)
               /\ OwnConn(q, r, conn, closed)
    BY <1>2, <2>4 DEF AloneInv, Alone
  <2>5. \A d : Used(d)' => Used(d)
    BY <1>1 DEF Used
  <2> HIDE DEF q
  <2>6. /\ SameAsk(p, q) /\ p.pc = "execute" /\ p.call = q.call /\ p.pre = q.pre /\ p.row = q.row
        /\ p.m = q.m /\ p.mine = q.mine /\ p.stmt = c
    BY <2>1, <2>3 DEF SameAsk, NoRequest
  <2>7. Onward(p, q) /\ Mine(p, r)
    BY <1>1, <2>3, <2>6 DEF Onward, Begun, Mine
  <2>8. ASSUME p.pre # NULL
        PROVE  ~Stopped(p) /\ OwnConn(p, r, conn', closed') /\ Progress(p, p.pre, account', message')
    <3>1. ~Stopped(p)
      BY <2>4, <2>6, <2>8, SameWish
    <3>2. Progress(p, q.pre, account, message)
      BY <1>1, <2>4, <2>6, <2>8, ProgressKept
    <3>3. Call(p) = Call(q) /\ DAO(p) = DAO(q)
      BY <2>6, SameCall
    <3>4. OwnConn(p, r, conn', closed')
      BY <1>1, <1>4, <2>4, <2>6, <2>8, <3>3 DEF OwnConn
    <3> QED BY <1>1, <2>6, <3>1, <3>2, <3>4
  <2>9. p.pc # "done"
    BY <2>6
  <2> QED BY <1>2, <2>2, <2>5, <2>7, <2>8, <2>9, AloneAssemble DEF q
<1> QED BY <1>6, <1>7, <1>5

\* The call returns, or goes on to close its connection.
LEMMA FetchAlone ==
  ASSUME \A S \in SUBSET MessageRow : S # NULL, AloneInv, NEW r \in Request, fetch(r)
  PROVE  AloneInv' /\ Ends
<1> DEFINE q == req[r]
<1>1. /\ q.pc = "fetch" /\ UNCHANGED <<account, message, nextid, conn, closed, rows>>
      /\ \/ Throw(r) /\ q.stmt \in closed
         \/ Set(r, [q EXCEPT !.pc = "close"])
         \/ Set(r, Return(q, q.row))
  BY DEF fetch
<1>2. ServiceInv' /\ Active(r) /\ RowsFit'
  BY <1>1, FetchStep DEF AloneInv, Active, RowsFit
<1>3. q.pre # NULL => q.stmt \notin closed
  BY <1>1, ReadsOwn
<1>4. CASE Throw(r) /\ q.stmt \in closed
  BY <1>1, <1>2, <1>3, <1>4, ThrowAlone
<1>5. \A d : Used(d)' => Used(d)
  BY <1>1 DEF Used
<1>6. CASE Set(r, [q EXCEPT !.pc = "close"])
  <2>1. PICK p : p = [q EXCEPT !.pc = "close"]
    OBVIOUS
  <2>2. Set(r, p)
    BY <1>6, <2>1
  <2>3. DOMAIN q = DOMAIN NoRequest /\ Mine(q, r)
    BY DEF AloneInv, ServiceInv, RequestInv, Shape
  <2>4. ASSUME q.pre # NULL
        PROVE  /\ ~Stopped(q) /\ Progress(q, q.pre, account, message)
               /\ OwnConn(q, r, conn, closed)
    BY <1>2, <2>4 DEF AloneInv, Alone
  <2> HIDE DEF q
  <2>6. /\ SameAsk(p, q) /\ p.pc = "close" /\ p.call = q.call /\ p.pre = q.pre /\ p.row = q.row
        /\ p.m = q.m /\ p.mine = q.mine /\ p.stmt = q.stmt
    BY <2>1, <2>3 DEF SameAsk, NoRequest
  <2>7. Onward(p, q) /\ Mine(p, r)
    BY <1>1, <2>3, <2>6 DEF Onward, Begun, Mine
  <2>8. ASSUME p.pre # NULL
        PROVE  ~Stopped(p) /\ OwnConn(p, r, conn', closed') /\ Progress(p, p.pre, account', message')
    <3>1. ~Stopped(p)
      BY <2>4, <2>6, <2>8, SameWish
    <3>2. Progress(p, q.pre, account, message)
      BY <1>1, <2>4, <2>6, <2>8, ProgressKept
    <3>3. Call(p) = Call(q) /\ DAO(p) = DAO(q)
      BY <2>6, SameCall
    <3>4. OwnConn(p, r, conn', closed')
      BY <1>1, <2>4, <2>6, <2>8, <3>3 DEF OwnConn
    <3> QED BY <1>1, <2>6, <3>1, <3>2, <3>4
  <2>9. p.pc # "done"
    BY <2>6
  <2> QED BY <1>2, <1>5, <2>2, <2>7, <2>8, <2>9, AloneAssemble DEF q
<1>7. CASE Set(r, Return(q, q.row))
  <2>1. PICK p : p = Return(q, q.row)
    OBVIOUS
  <2>2. Set(r, p)
    BY <1>7, <2>1
  <2>3. /\ Onward(p, q) /\ (p.pc = "done" \/ p.pc = "getConnection") /\ p.pre = q.pre
        /\ Mine(p, r)
    BY <1>2, <2>1, ReturnOnward DEF AloneInv, Mine
  <2>4. p.pre # NULL => /\ p.pc # "done" => /\ p.pc = "getConnection" /\ ~Stopped(p)
                                            /\ Progress(p, p.pre, account', message')
                        /\ p.pc = "done" => AsReadme(p, p.pre)
    BY <1>1, <2>1, <2>3, AloneReturns
  <2>5. p.pc = "getConnection" => OwnConn(p, r, conn', closed')
    BY DEF OwnConn
  <2> QED BY <1>2, <1>5, <2>2, <2>3, <2>4, <2>5, AloneAssemble
<1> QED BY <1>1, <1>4, <1>6, <1>7

\* The connection is closed, and the call returns.
LEMMA CloseAlone ==
  ASSUME \A S \in SUBSET MessageRow : S # NULL, AloneInv, NEW r \in Request, close(r)
  PROVE  AloneInv' /\ Ends
<1> DEFINE q == req[r]
<1>1. q.pc = "close" /\ UNCHANGED <<account, message, nextid, conn, rows>>
  BY DEF close
<1>2. PICK c \in ReadConn(r) : IF c = NULL
                               THEN Set(r, Crashed(q)) /\ UNCHANGED closed
                               ELSE closed' = closed \cup {c} /\ Set(r, Return(q, q.row))
  BY DEF close
<1>3. ServiceInv' /\ Active(r) /\ RowsFit'
  BY <1>1, CloseStep DEF AloneInv, Active, RowsFit
<1>4. q.pre # NULL => c # NULL
  BY <1>1, <1>2, ReadsOwn
<1>5. CASE c = NULL
  <2>1. Set(r, Crashed(q)) /\ UNCHANGED closed /\ q.pre = NULL
    BY <1>2, <1>4, <1>5
  <2> QED BY <1>1, <1>3, <2>1, CrashAlone
<1>6. CASE c # NULL
  <2>1. closed' = closed \cup {c} /\ Set(r, Return(q, q.row))
    BY <1>2, <1>6
  <2>2. PICK p : p = Return(q, q.row)
    OBVIOUS
  <2>3. Set(r, p)
    BY <2>1, <2>2
  <2>4. /\ Onward(p, q) /\ (p.pc = "done" \/ p.pc = "getConnection") /\ p.pre = q.pre
        /\ Mine(p, r)
    BY <1>3, <2>2, ReturnOnward DEF AloneInv, Mine
  <2>5. p.pre # NULL => /\ p.pc # "done" => /\ p.pc = "getConnection" /\ ~Stopped(p)
                                            /\ Progress(p, p.pre, account', message')
                        /\ p.pc = "done" => AsReadme(p, p.pre)
    BY <1>1, <2>2, <2>4, AloneReturns
  <2>6. p.pc = "getConnection" => OwnConn(p, r, conn', closed')
    BY DEF OwnConn
  <2>7. c = Own(r) \/ Used(c)
    <3>1. Mine(q, r)
      BY DEF AloneInv
    <3>2. c = q.mine \/ c = conn[DAO(q)]
      BY DEF ReadConn
    <3> QED BY <1>6, <3>1, <3>2 DEF Mine, Own, Used, DAO
  <2>8. \A d : Used(d)' => Used(d) \/ d = Own(r)
    BY <1>1, <2>1, <2>7 DEF Used
  <2>9. Begun(p, q.call)
    <3>1. q.kind \in DOMAIN Calls /\ q.call \in DOMAIN Calls[q.kind]
      BY <1>1 DEF AloneInv, ServiceInv, RequestInv, Shape
    <3>2. q.call \in 1 .. 3
      BY <3>1, CallFacts
    <3>3. Begun(q, q.call)
      BY <1>1 DEF Begun
    <3> QED BY <2>4, <3>2, <3>3 DEF Onward
  <2> QED BY <1>3, <2>3, <2>4, <2>5, <2>6, <2>8, <2>9, AloneAssemble
<1> QED BY <1>5, <1>6

\* What a statement of the first call finds.
LEMMA FirstResult ==
  ASSUME NEW q, NEW T, q.kind \in DOMAIN Calls, q.call = 1, ~Stopped(q),
         account = T.account, message = T.message
  PROVE  Result(q) = First(q, T)
<1>1. q.kind \in {"register", "login", "post", "getAll", "getOne", "delete", "patch", "getUser"}
  BY DEF Calls
<1>2. CASE q.kind \in {"register", "login"}
  <2>1. Call(q) = "getAccountByUsername"
    BY <1>2, FirstCallIs
  <2>2. Result(q) = The({a \in account : a.name = q.name})
    BY <2>1, Zenon DEF Result
  <2>3. First(q, T) = Named(q, T)
    BY <1>2, FirstIs
  <2> QED BY <2>2, <2>3 DEF Named
<1>3. CASE q.kind = "post"
  <2>1. Call(q) = "userExists"
    BY <1>3, FirstCallIs
  <2>2. Result(q) = TRUE
    BY <2>1, Zenon DEF Result
  <2> QED BY <1>3, <2>2, FirstIs
<1>4. CASE q.kind = "getAll"
  <2>1. Call(q) = "getAllMessages"
    BY <1>4, FirstCallIs
  <2>2. Result(q) = message
    BY <2>1, Zenon DEF Result
  <2>3. First(q, T) = T.message
    BY <1>4, Zenon DEF First
  <2> QED BY <2>2, <2>3
<1>5. CASE q.kind = "getUser"
  <2>1. Call(q) = "selectAllMessagesByUserId"
    BY <1>5, FirstCallIs
  <2>2. Result(q) = {m \in message : m.by = q.id}
    BY <2>1, Zenon DEF Result
  <2>3. First(q, T) = {m \in T.message : Right(q) /\ m.by = q.id}
    BY <1>5, FirstIs
  <2>4. Right(q)
    BY <1>5, NotStopped
  <2> QED BY <2>2, <2>3, <2>4
<1>6. CASE q.kind \in {"getOne", "delete", "patch"}
  <2>1. Call(q) = "getMessageById"
    BY <1>6, FirstCallIs
  <2>2. Result(q) = The({m \in message : m.id = q.id})
    BY <2>1, Zenon DEF Result
  <2>3. First(q, T) = Found(q, T)
    BY <1>6, FirstIs
  <2>4. Right(q)
    BY <1>6, NotStopped
  <2>5. Found(q, T) = The({m \in message : m.id = q.id})
    BY <2>4 DEF Found
  <2> QED BY <2>2, <2>3, <2>5
<1> QED BY <1>1, <1>2, <1>3, <1>4, <1>5, <1>6

\* The tables after a statement, by the kind of request.
LEMMA StatementTables ==
  ASSUME ServiceInv, NEW r \in Request, execute(r), req[r].stmt \notin closed, ~Violates(req[r])
  PROVE  LET q == req[r]
         IN  /\ q.kind = "register" /\ q.call = 2 =>
                  account' = account \cup {[id |-> nextid.account, name |-> q.name]} /\ message' = message
             /\ q.kind = "post" /\ q.call = 2 =>
                  /\ message' = message \cup {[id |-> nextid.message, by |-> q.id, text |-> q.text]}
                  /\ account' = account /\ \E a \in account : a.id = q.id
             /\ q.kind = "delete" /\ q.call = 2 =>
                  message' = {m \in message : m.id # q.id} /\ account' = account
             /\ q.kind = "patch" /\ q.call = 2 => message' = Updated(q) /\ account' = account
             /\ q.call # 2 => account' = account /\ message' = message
<1> DEFINE q == req[r]
<1>1. /\ q.pc = "execute"
      /\ account' = IF Call(q) = "insertAccount" THEN Insert(account, Result(q)) ELSE account
      /\ message' = CASE Call(q) = "insertMessage" -> Insert(message, Result(q))
                      [] Call(q) = "removeMessageById" -> {m \in message : m.id # q.id}
                      [] Call(q) = "updateMessageTextById" -> Updated(q)
                      [] OTHER -> message
  BY DEF execute
<1>2. q.kind \in DOMAIN Calls /\ q.call \in DOMAIN Calls[q.kind] /\ ~Violates(q)
  BY <1>1 DEF ServiceInv, RequestInv, Shape
<1> HIDE DEF q
<1>3. /\ Call(q) = "insertAccount" <=> q.kind = "register" /\ q.call = 2
      /\ Call(q) = "insertMessage" <=> q.kind = "post" /\ q.call = 2
      /\ Call(q) = "removeMessageById" <=> q.kind = "delete" /\ q.call = 2
      /\ Call(q) = "updateMessageTextById" <=> q.kind = "patch" /\ q.call = 2
  BY <1>2, CallFacts
<1>4. /\ Call(q) = "insertMessage" => message' = Insert(message, Result(q))
      /\ Call(q) = "updateMessageTextById" => message' = Updated(q)
      /\ Call(q) = "removeMessageById" => message' = {m \in message : m.id # q.id}
      /\ Call(q) \notin {"insertMessage", "updateMessageTextById", "removeMessageById"} => message' = message
  BY <1>1, Zenon
<1>5. /\ Call(q) = "insertAccount" => account' = account \cup {Result(q)}
      /\ Call(q) # "insertAccount" => account' = account
  BY <1>1 DEF Insert
<1>6. /\ q.kind = "register" /\ q.call = 2 => Result(q) = [id |-> nextid.account, name |-> q.name]
      /\ q.kind = "post" /\ q.call = 2 =>
           /\ Result(q) = [id |-> nextid.message, by |-> q.id, text |-> q.text]
           /\ References(q.id)
  BY <1>2, ResultFacts
<1>7. q.kind = "register" /\ q.call = 2 =>
        account' = account \cup {[id |-> nextid.account, name |-> q.name]} /\ message' = message
  BY <1>3, <1>4, <1>5, <1>6
<1>8. q.kind = "post" /\ q.call = 2 =>
        /\ message' = message \cup {[id |-> nextid.message, by |-> q.id, text |-> q.text]}
        /\ account' = account /\ \E a \in account : a.id = q.id
  BY <1>3, <1>4, <1>5, <1>6 DEF Insert, References
<1>9. /\ q.kind = "delete" /\ q.call = 2 =>
           message' = {m \in message : m.id # q.id} /\ account' = account
      /\ q.kind = "patch" /\ q.call = 2 => message' = Updated(q) /\ account' = account
      /\ q.call # 2 => account' = account /\ message' = message
  BY <1>3, <1>4, <1>5
<1> QED BY <1>7, <1>8, <1>9 DEF q

\* Rows that are inserted or updated fit their columns.
LEMMA StatementFits ==
  ASSUME AloneInv, NEW r \in Request, execute(r), req[r].stmt \notin closed, ~Violates(req[r])
  PROVE  RowsFit'
<1> DEFINE q == req[r]
<1>1. /\ q.kind = "register" /\ q.call = 2 =>
           account' = account \cup {[id |-> nextid.account, name |-> q.name]} /\ message' = message
      /\ q.kind = "post" /\ q.call = 2 =>
           /\ message' = message \cup {[id |-> nextid.message, by |-> q.id, text |-> q.text]}
           /\ account' = account
      /\ q.kind = "delete" /\ q.call = 2 =>
           message' = {m \in message : m.id # q.id} /\ account' = account
      /\ q.kind = "patch" /\ q.call = 2 => message' = Updated(q) /\ account' = account
      /\ q.call # 2 => account' = account /\ message' = message
  BY StatementTables DEF AloneInv
<1>2. /\ account \subseteq AccountRow /\ message \subseteq MessageRow
      /\ nextid.account \in Nat /\ nextid.message \in Nat
  BY DEF AloneInv, RowsFit, ServiceInv, Tables
<1>3. q.pc = "execute"
  BY DEF execute
<1>4. /\ q.name \in Names /\ q.id \in Int /\ q.text \in Int
      /\ q.kind \in DOMAIN Calls /\ q.call \in DOMAIN Calls[q.kind]
  <2>1. Asked(q) /\ Shape(q)
    BY DEF AloneInv, ServiceInv, RequestInv
  <2> HIDE DEF q
  <2> QED BY <1>3, <2>1 DEF Asked, Shape
<1> HIDE DEF q
<1>5. q.call = 2 => q.kind \in {"register", "post", "delete", "patch"}
  BY <1>4, CallFacts
<1>6. [id |-> nextid.account, name |-> q.name] \in AccountRow
  BY <1>2, <1>4 DEF AccountRow
<1>7. [id |-> nextid.message, by |-> q.id, text |-> q.text] \in MessageRow
  BY <1>2, <1>4 DEF MessageRow
<1>8. Updated(q) \subseteq MessageRow
  <2>1. ASSUME NEW m \in message PROVE [m EXCEPT !.text = q.text] \in MessageRow
    BY <1>2, <1>4, <2>1 DEF MessageRow
  <2>2. \A x \in Updated(q) : \E m \in message : x = m \/ x = [m EXCEPT !.text = q.text]
    BY DEF Updated
  <2> QED BY <1>2, <2>1, <2>2
<1>9. account' \subseteq AccountRow /\ message' \subseteq MessageRow
  <2>1. CASE q.call # 2
    BY <1>1, <1>2, <2>1
  <2>2. CASE q.kind = "register" /\ q.call = 2
    BY <1>1, <1>2, <1>6, <2>2
  <2>3. CASE q.kind = "post" /\ q.call = 2
    BY <1>1, <1>2, <1>7, <2>3
  <2>4. CASE q.kind = "delete" /\ q.call = 2
    BY <1>1, <1>2, <2>4
  <2>5. CASE q.kind = "patch" /\ q.call = 2
    BY <1>1, <1>2, <1>8, <2>5
  <2> QED BY <1>5, <2>1, <2>2, <2>3, <2>4, <2>5
<1> QED BY <1>9 DEF RowsFit

\* The message that q names is the only one of its number.
LEMMA OneMessage ==
  ASSUME Tables, message \subseteq MessageRow, NEW q, q.text \in Int, Right(q),
         NEW T, T.message = message
  PROVE  /\ {m \in message : m.id # q.id} = message \ {Found(q, T)}
         /\ Found(q, T) # NULL => /\ Found(q, T) \in message /\ Found(q, T).id = q.id
                                  /\ Updated(q) = (message \ {Found(q, T)}) \cup {NewText(q, T)}
                                  /\ NewText(q, T).id = q.id /\ NewText(q, T).text = q.text
<1> DEFINE S == {m \in message : m.id = q.id}
           f == Found(q, T)
<1>1. NULL \notin message
  BY RowAssumption
<1>2. f = The(S)
  BY DEF Found
<1>3. \A m, n \in message : m.id = n.id => m = n
  BY DEF Tables
<1>4. (f = NULL <=> S = {}) /\ (S # {} => f \in S)
  <2>1. NULL \notin S
    BY <1>1
  <2> QED BY <1>2, <2>1, TheIs
<1>5. f # NULL => f \in message /\ f.id = q.id
  BY <1>4
<1>6. {m \in message : m.id # q.id} = message \ {f}
  BY <1>1, <1>3, <1>4
<1>7. ASSUME f # NULL
      PROVE  /\ Updated(q) = (message \ {f}) \cup {NewText(q, T)}
             /\ NewText(q, T).id = q.id /\ NewText(q, T).text = q.text
  <2> DEFINE up(m) == IF m.id = q.id THEN [m EXCEPT !.text = q.text] ELSE m
             n == NewText(q, T)
  <2>1. Updated(q) = {up(m) : m \in message}
    BY DEF Updated
  <2>2. f \in message /\ f.id = q.id
    BY <1>5, <1>7
  <2>3. n = [f EXCEPT !.text = q.text]
    BY DEF NewText
  <2>4. \A m \in message : m # f => up(m) = m
    BY <1>3, <2>2
  <2>5. up(f) = n
    BY <2>2, <2>3
  <2>6. n.id = q.id /\ n.text = q.text
    <3>1. f \in MessageRow
      BY <2>2
    <3> QED BY <2>2, <2>3, <3>1 DEF MessageRow
  <2> HIDE DEF up, n, f
  <2>7. {up(m) : m \in message} = (message \ {f}) \cup {n}
    <3>1. ASSUME NEW x \in {up(m) : m \in message} PROVE x \in (message \ {f}) \cup {n}
      BY <2>4, <2>5
    <3>2. ASSUME NEW x \in (message \ {f}) \cup {n} PROVE x \in {up(m) : m \in message}
      BY <2>2, <2>4, <2>5
    <3> QED BY <3>1, <3>2
  <2> QED BY <2>1, <2>6, <2>7 DEF n, f
<1> QED BY <1>5, <1>6, <1>7

\* A statement of a request that is alone has been executed.
LEMMA ExecutedProgress ==
  ASSUME AloneInv, NEW r \in Request, execute(r), req[r].stmt \notin closed, ~Violates(req[r]),
         req[r].pre # NULL, NEW p, p = [req[r] EXCEPT !.pc = "fetch", !.row = Result(req[r])]
  PROVE  Progress(p, p.pre, account', message')
<1> DEFINE q == req[r]
<1>1. q.pc = "execute"
  BY DEF execute
<1>2. /\ DOMAIN q = DOMAIN NoRequest /\ q.kind \in DOMAIN Calls /\ q.call \in DOMAIN Calls[q.kind]
      /\ q.text \in Int /\ q.id \in Int /\ q.name \in Names
      /\ Tables /\ account \subseteq AccountRow /\ message \subseteq MessageRow
      /\ nextid.account \in Nat /\ nextid.message \in Nat
  <2>1. Asked(q) /\ Shape(q) /\ Tables /\ RowsFit
    BY DEF AloneInv, ServiceInv, RequestInv
  <2>2. nextid.account \in Nat /\ nextid.message \in Nat
    BY <2>1 DEF Tables
  <2> HIDE DEF q
  <2> QED BY <1>1, <2>1, <2>2 DEF Asked, Shape, RowsFit
<1>3. Progress(q, q.pre, account, message) /\ ~Stopped(q) /\ ~Violates(q)
  BY <1>1 DEF AloneInv, Alone, Active
<1>4. /\ q.kind = "register" /\ q.call = 2 =>
           account' = account \cup {[id |-> nextid.account, name |-> q.name]} /\ message' = message
      /\ q.kind = "post" /\ q.call = 2 =>
           /\ message' = message \cup {[id |-> nextid.message, by |-> q.id, text |-> q.text]}
           /\ account' = account /\ \E a \in account : a.id = q.id
      /\ q.kind = "delete" /\ q.call = 2 =>
           message' = {m \in message : m.id # q.id} /\ account' = account
      /\ q.kind = "patch" /\ q.call = 2 => message' = Updated(q) /\ account' = account
      /\ q.call # 2 => account' = account /\ message' = message
  BY StatementTables DEF AloneInv
<1>5. p = [q EXCEPT !.pc = "fetch", !.row = Result(q)]
  OBVIOUS
<1> HIDE DEF q
<1>6. /\ SameAsk(p, q) /\ p.pc = "fetch" /\ p.call = q.call /\ p.pre = q.pre /\ p.m = q.m
      /\ p.row = Result(q)
  BY <1>2, <1>5 DEF SameAsk, NoRequest
<1>7. PICK T : T = q.pre
  OBVIOUS
<1>8. p.kind = q.kind /\ p.id = q.id /\ p.name = q.name /\ p.text = q.text
  BY <1>6 DEF SameAsk
<1>9. /\ Named(p, T) = Named(q, T) /\ Found(p, T) = Found(q, T) /\ First(p, T) = First(q, T)
      /\ NewText(p, T) = NewText(q, T)
  BY <1>6, SameWish
<1>10. Checked(q, T) /\ Checked(p, T)
  <2>1. Checked(q, T)
    BY <1>3, <1>7 DEF Progress
  <2> QED BY <1>6, <1>8, <1>9, <2>1 DEF Checked
<1>11. q.call \in 1 .. 3
  BY <1>2, CallFacts
<1>12. CASE q.call = 1
  <2>1. ~HasChanged(q) /\ ~HasChanged(p)
    BY <1>6, <1>12 DEF HasChanged
  <2>2. account = T.account /\ message = T.message
    BY <1>3, <1>7, <2>1 DEF Progress
  <2>3. Result(q) = First(q, T)
    BY <1>2, <1>3, <1>12, <2>2, FirstResult
  <2>4. account' = T.account /\ message' = T.message
    BY <1>4, <1>12, <2>2
  <2> QED BY <1>6, <1>7, <1>9, <1>10, <2>1, <2>3, <2>4 DEF Progress
<1>13. CASE q.call = 2
  <2>1. ~HasChanged(q) /\ HasChanged(p)
    BY <1>1, <1>6, <1>13 DEF HasChanged
  <2>2. account = T.account /\ message = T.message
    BY <1>3, <1>7, <2>1 DEF Progress
  <2>3. Changed(p, T, account', message')
    <3>1. CASE q.kind = "register"
      <4>1. Result(q) = [id |-> nextid.account, name |-> q.name]
        BY <1>2, <1>13, <3>1, ResultFacts
      <4>2. q.name \notin Unstorable
        BY <1>2, <1>3, <1>13, <3>1, ResultFacts
      <4>3. Result(q) \in AccountRow
        BY <1>2, <4>1 DEF AccountRow
      <4>4. Result(q) # NULL /\ Result(q).name = q.name
        BY <4>1, <4>3, RowAssumption
      <4>5. account' = T.account \cup {Result(q)} /\ message' = T.message
        BY <1>4, <1>13, <2>2, <3>1, <4>1
      <4> QED BY <1>6, <1>8, <3>1, <4>4, <4>5, <4>2 DEF Changed
    <3>2. CASE q.kind = "post"
      <4>1. Result(q) = [id |-> nextid.message, by |-> q.id, text |-> q.text]
        BY <1>2, <1>13, <3>2, ResultFacts
      <4>2. Result(q) \in MessageRow
        BY <1>2, <4>1 DEF MessageRow
      <4>3. Result(q) # NULL /\ Result(q).by = q.id /\ Result(q).text = q.text
        BY <4>1, <4>2, RowAssumption
      <4>4. /\ account' = T.account /\ message' = T.message \cup {Result(q)}
            /\ \E a \in T.account : a.id = q.id
        BY <1>4, <1>13, <2>2, <3>2, <4>1
      <4> QED BY <1>6, <1>8, <3>2, <4>3, <4>4 DEF Changed
    <3>3. CASE q.kind = "delete"
      <4>1. {m \in message : m.id # q.id} = message \ {Found(q, T)}
        BY <1>2, <1>3, <2>2, <3>3, NotStopped, OneMessage
      <4>2. account' = T.account /\ message' = T.message \ {Found(p, T)}
        BY <1>4, <1>9, <1>13, <2>2, <3>3, <4>1
      <4> QED BY <1>8, <3>3, <4>2 DEF Changed
    <3>4. CASE q.kind = "patch"
      <4>1. Found(q, T) # NULL
        BY <1>10, <1>13, <3>4 DEF Checked
      <4>2. Updated(q) = (message \ {Found(q, T)}) \cup {NewText(q, T)}
        BY <1>2, <1>3, <2>2, <3>4, <4>1, NotStopped, OneMessage
      <4>3. account' = T.account /\ message' = (T.message \ {Found(p, T)}) \cup {NewText(p, T)}
        BY <1>4, <1>9, <1>13, <2>2, <3>4, <4>2
      <4>4. Call(q) = "updateMessageTextById"
        BY <1>2, <1>13, <3>4, CallFacts
      <4>5. Result(q) = TRUE
        BY <4>4, Zenon DEF Result
      <4>6. p.row # NULL
        BY <1>6, <4>5, RowAssumption
      <4> QED BY <1>6, <1>8, <1>13, <3>4, <4>3, <4>6 DEF Changed
    <3>5. q.kind \in {"register", "post", "delete", "patch"}
      BY <1>2, <1>13, CallFacts
    <3> QED BY <3>1, <3>2, <3>3, <3>4, <3>5
  <2>4. p.call # 1
    BY <1>6, <1>13
  <2> QED BY <1>6, <1>7, <1>10, <2>1, <2>3, <2>4 DEF Progress
<1>14. CASE q.call = 3
  <2>1. HasChanged(q) /\ HasChanged(p) /\ q.kind = "patch"
    BY <1>2, <1>6, <1>14, CallFacts DEF HasChanged
  <2>2. /\ account = T.account /\ message = (T.message \ {Found(q, T)}) \cup {NewText(q, T)}
        /\ Found(q, T) # NULL
    BY <1>3, <1>7, <1>10, <1>14, <2>1 DEF Progress, Changed, Checked
  <2>3. account' = account /\ message' = message
    BY <1>4, <1>14
  <2>4. Result(q) = NewText(q, T) /\ NewText(q, T) # NULL
    <3> DEFINE f == Found(q, T)
               n == NewText(q, T)
               S == {m \in message : m.id = q.id}
    <3>1. f.id = q.id
      <4>1. f = The({m \in T.message : m.id = q.id})
        <5>1. Right(q)
          BY <1>3, <2>1, NotStopped
        <5> QED BY <5>1 DEF Found
      <4>2. {m \in T.message : m.id = q.id} # {}
        BY <2>2, <4>1 DEF The
      <4>3. f = CHOOSE m \in {m \in T.message : m.id = q.id} : TRUE
        BY <4>1, <4>2 DEF The
      <4>4. f \in {m \in T.message : m.id = q.id}
        BY <4>2, <4>3, Zenon
      <4> QED BY <4>4
    <3>2. n = [f EXCEPT !.text = q.text]
      BY DEF NewText
    <3>3. n \in message /\ n \in MessageRow
      BY <1>2, <2>2
    <3> HIDE DEF f, n
    <3>4. n.id = q.id
      <4>1. DOMAIN n = {"id", "by", "text"}
        BY <3>3 DEF MessageRow
      <4>2. DOMAIN f = DOMAIN n
        BY <3>2
      <4> QED BY <3>1, <3>2, <4>1, <4>2
    <3>5. \A a, b \in message : a.id = b.id => a = b
      BY <1>2 DEF Tables
    <3>6. S = {n}
      BY <3>3, <3>4, <3>5
    <3>7. n # NULL
      BY <3>3, RowAssumption
    <3>8. The(S) = n
      <4>1. NULL \notin S /\ S # {}
        BY <3>6, <3>7
      <4>2. The(S) \in S
        BY <4>1, TheIs
      <4> QED BY <3>6, <4>2
    <3>9. Result(q) = The(S)
      BY <1>2, <1>14, <2>1, ResultFacts
    <3> QED BY <3>7, <3>8, <3>9 DEF n
  <2>5. Changed(p, T, account', message')
    BY <1>6, <1>8, <1>9, <1>14, <2>1, <2>2, <2>3, <2>4 DEF Changed
  <2>6. p.call # 1
    BY <1>6, <1>14
  <2> QED BY <1>6, <1>7, <1>10, <2>1, <2>5, <2>6 DEF Progress
<1> QED BY <1>11, <1>12, <1>13, <1>14

\* A statement is executed, or throws.
LEMMA ExecuteAlone ==
  ASSUME AloneInv, NEW r \in Request, execute(r)
  PROVE  AloneInv' /\ Ends
<1> DEFINE q == req[r]
<1>1. q.pc = "execute" /\ UNCHANGED <<conn, closed>>
  BY DEF execute
<1>2. ServiceInv' /\ Active(r)
  BY <1>1, ExecuteStep DEF AloneInv, Active
<1>3. q.pre # NULL => q.stmt = <<r, q.call>> /\ q.stmt \notin closed
  BY <1>1, ReadsOwn
<1>4. ASSUME q.pre # NULL
      PROVE  /\ ~Stopped(q) /\ Progress(q, q.pre, account, message)
             /\ OwnConn(q, r, conn, closed)
  BY <1>2, <1>4 DEF AloneInv, Alone
<1>5. /\ DOMAIN q = DOMAIN NoRequest /\ q.kind \in DOMAIN Calls /\ q.call \in DOMAIN Calls[q.kind]
      /\ account \subseteq AccountRow
  BY <1>1 DEF AloneInv, ServiceInv, RequestInv, Shape, RowsFit
<1>6. CASE q.stmt \in closed \/ Violates(q)
  <2>1. Throw(r) /\ UNCHANGED <<account, message, conn, closed>>
    BY <1>6 DEF execute
  <2>2. ASSUME q.pre # NULL
        PROVE  /\ q.call = 2 /\ account = q.pre.account /\ message = q.pre.message
               /\ \/ q.kind = "post" /\ \A a \in q.pre.account : a.id # q.id
                  \/ q.kind = "register" /\ q.name \in Unstorable /\ Named(q, q.pre) = NULL
    <3>1. Violates(q)
      BY <1>3, <1>6, <2>2
    <3> HIDE DEF q
    <3>2. \/ Call(q) = "insertAccount" /\ (q.name \in Unstorable \/ ~Unique(q.name))
          \/ Call(q) = "insertMessage" /\ ~References(q.id)
      BY <3>1, Zenon DEF Violates
    <3>3. \/ q.kind = "register" /\ q.call = 2 /\ (q.name \in Unstorable \/ ~Unique(q.name))
          \/ q.kind = "post" /\ q.call = 2 /\ ~References(q.id)
      BY <1>5, <3>2, CallFacts
    <3>4. ~HasChanged(q) /\ q.call = 2
      BY <1>1, <3>3 DEF HasChanged
    <3>5. account = q.pre.account /\ message = q.pre.message /\ Checked(q, q.pre)
      BY <1>4, <2>2, <3>4 DEF Progress
    <3>6. CASE q.kind = "register"
      <4>1. Named(q, q.pre) = NULL
        BY <3>4, <3>5, <3>6 DEF Checked
      <4>2. {a \in account : a.name = q.name} = {}
        <5>1. NULL \notin {a \in account : a.name = q.name}
          BY <1>5, RowAssumption
        <5>2. The({a \in account : a.name = q.name}) = NULL
          BY <3>5, <4>1 DEF Named
        <5> QED BY <5>1, <5>2, TheIs
      <4>3. Unique(q.name)
        BY <4>2 DEF Unique
      <4> QED BY <3>3, <3>4, <3>5, <3>6, <4>1, <4>3
    <3>7. CASE q.kind = "post"
      BY <3>3, <3>4, <3>5, <3>7 DEF References
    <3> QED BY <3>3, <3>6, <3>7
  <2> QED BY <1>2, <2>1, <2>2, ThrowAlone
<1>7. CASE ~(q.stmt \in closed \/ Violates(q))
  <2>1. PICK p : p = [q EXCEPT !.pc = "fetch", !.row = Result(q)]
    OBVIOUS
  <2>2. Set(r, p)
    BY <1>7, <2>1 DEF execute
  <2>3. RowsFit'
    BY <1>7, StatementFits
  <2>4. \A c : Used(c)' => Used(c)
    BY <1>1 DEF Used
  <2>5. /\ SameAsk(p, q) /\ p.pc = "fetch" /\ p.call = q.call /\ p.pre = q.pre /\ p.stmt = q.stmt
        /\ p.mine = q.mine
    <3> HIDE DEF q
    <3> QED BY <1>5, <2>1 DEF SameAsk, NoRequest
  <2>6. Onward(p, q) /\ Mine(p, r)
    <3>1. Mine(q, r)
      BY DEF AloneInv
    <3> HIDE DEF q
    <3> QED BY <1>1, <2>5, <3>1 DEF Onward, Begun, Mine
  <2>7. ASSUME p.pre # NULL
        PROVE  ~Stopped(p) /\ OwnConn(p, r, conn', closed') /\ Progress(p, p.pre, account', message')
    <3>1. Progress(p, p.pre, account', message')
      BY <1>7, <2>1, <2>5, <2>7, ExecutedProgress
    <3> HIDE DEF q
    <3>2. ~Stopped(p)
      BY <1>4, <2>5, <2>7, SameWish
    <3>3. Call(p) = Call(q) /\ DAO(p) = DAO(q)
      BY <2>5, SameCall
    <3>4. OwnConn(p, r, conn', closed')
      BY <1>1, <1>3, <1>4, <2>5, <2>7, <3>3 DEF OwnConn
    <3> QED BY <3>1, <3>2, <3>4
  <2>8. p.pc # "done"
    BY <2>5
  <2> QED BY <1>2, <2>2, <2>3, <2>4, <2>6, <2>7, <2>8, AloneAssemble
<1> QED BY <1>6, <1>7

\* A request that does not get to the database: what it is, by its kind.
LEMMA StoppedIs ==
  ASSUME NEW q, q.kind \in DOMAIN Calls, Stopped(q), ~Throws(q)
  PROVE  /\ q.kind \in {"register", "post", "getOne", "delete", "patch", "getUser"}
         /\ q.kind = "register" => q.name = "" \/ ~Right(q)
         /\ q.kind = "post" => q.text \notin Short
         /\ q.kind = "patch" => q.text \notin Fitting \/ ~Right(q)
         /\ q.kind \in {"getOne", "delete", "getUser"} => ~Right(q)
<1>1. Refused(q)
  BY DEF Stopped
<1>2. q.kind \in {"register", "login", "post", "getAll", "getOne", "delete", "patch", "getUser"}
  BY DEF Calls
<1>3. q.kind \notin {"login", "getAll"}
  BY <1>1, Zenon DEF Refused, Short, Fitting
<1>4. q.kind = "register" => q.name = "" \/ ~Right(q)
  BY <1>1, Zenon DEF Refused, Short, Fitting
<1>5. q.kind = "post" => q.text \notin Short
  BY <1>1, Zenon DEF Refused, Short, Fitting
<1>6. q.kind = "patch" => q.text \notin Fitting \/ ~Right(q)
  BY <1>1, Zenon DEF Refused, Short, Fitting
<1>7. q.kind \in {"getOne", "delete", "getUser"} => ~Right(q)
  BY <1>1, Zenon DEF Refused, Short, Fitting
<1> QED BY <1>2, <1>3, <1>4, <1>5, <1>6, <1>7

\* What is named where nothing can be.
LEMMA NothingFound ==
  ASSUME NEW q, ~Right(q), NEW T
  PROVE  Found(q, T) = NULL
<1>1. {m \in T.message : Right(q) /\ m.id = q.id} = {}
  OBVIOUS
<1> QED BY <1>1 DEF Found, The

\* A request that is stopped gets the answer that readme.md wants, unless it is
\* disputed.
LEMMA StoppedAsReadme ==
  ASSUME NEW q, DOMAIN q = DOMAIN NoRequest, q.kind \in DOMAIN Calls, Stopped(q), NEW T,
         account' = T.account, message' = T.message, NULL \notin T.message, NEW p, p = Opened(q)
  PROVE  AsReadme(p, T)
<1>1. CASE Throws(q)
  <2> DEFINE status == IF q.kind = "getOne" THEN 200 ELSE 500
  <2>1. p = Done(q, status, NULL)
    BY <1>1 DEF Opened, Crashed
  <2>2. q.kind # "getOne" => status = 500
    OBVIOUS
  <2> HIDE DEF status
  <2>3. SameAsk(p, q) /\ p.status = status
    BY <2>1, DoneFacts
  <2>4. q.kind # "getOne"
    BY <1>1 DEF Throws
  <2>5. Throws(p)
    BY <1>1, <2>3, SameWish
  <2>6. ~PerReadme(p, T)
    BY <2>2, <2>3, <2>4, ReadmeStatus
  <2>7. Disputed(p, T)
    BY <2>5 DEF Disputed
  <2> QED BY <2>6, <2>7 DEF AsReadme
<1>2. CASE ~Throws(q)
  <2>1. p = Answered(q, NULL)
    BY <1>2 DEF Opened, Stopped
  <2>2. SameAsk(p, q) /\ p.status = Status(q, NULL) /\ p.body = NULL
    BY <2>1, DoneFacts DEF Answered
  <2>3. /\ p.kind = q.kind /\ p.text = q.text /\ p.name = q.name
        /\ (Right(p) <=> Right(q)) /\ (Missing(p) <=> Missing(q))
    BY <2>2 DEF SameAsk, Right, Missing
  <2>4. Stopped(p) /\ ~Throws(p)
    BY <1>2, <2>2, SameWish
  <2>5. /\ p.kind \in {"register", "post", "getOne", "delete", "patch", "getUser"}
        /\ p.kind = "register" => p.name = "" \/ ~Right(p)
        /\ p.kind = "post" => p.text \notin Short
        /\ p.kind = "patch" => p.text \notin Fitting \/ ~Right(p)
        /\ p.kind \in {"getOne", "delete", "getUser"} => ~Right(p)
    <3>1. p.kind \in DOMAIN Calls
      BY <2>3
    <3> QED BY <2>4, <3>1, StoppedIs, Zenon
  <2>6. ASSUME p.kind \in {"register", "post", "patch"}, ~Good(p, T)
        PROVE  AsReadme(p, T)
    <3>1. p.status = Bad(p)
      BY <2>2, <2>3, <2>6, BadIs, StatusIs
    <3>2. PerReadme(p, T)
      BY <2>2, <2>6, <3>1, IsPerReadme
    <3>3. ~Disputed(p, T)
      BY <2>4, <2>6 DEF Disputed
    <3> QED BY <3>2, <3>3 DEF AsReadme
  <2>7. CASE p.kind = "register"
    <3>1. ~Good(p, T)
      BY <2>5, <2>7, GoodIs, Zenon
    <3> QED BY <2>6, <2>7, <3>1
  <2>8. CASE p.kind = "patch"
    <3>1. ~Good(p, T)
      <4>1. Good(p, T) <=> p.text \in Fitting /\ Found(p, T) # NULL
        BY <2>8, GoodIs, Zenon
      <4>2. p.text \notin Fitting \/ Found(p, T) = NULL
        BY <2>5, <2>8, NothingFound, Zenon
      <4> QED BY <4>1, <4>2
    <3> QED BY <2>6, <2>8, <3>1
  <2>9. CASE p.kind = "post" /\ ~Good(p, T)
    BY <2>6, <2>9
  <2>10. CASE p.kind = "post" /\ Good(p, T)
    <3>1. p.text \in Fitting
      BY <2>10, GoodIs
    <3>2. p.text = 255
      BY <2>5, <2>10, <3>1 DEF Short, Fitting
    <3>3. Disputed(p, T)
      BY <2>10, <3>2 DEF Disputed
    <3>4. p.status = 400
      <4>1. Status(q, NULL) = 400
        <5>1. q.kind = "post"
          BY <2>3, <2>10
        <5> QED BY <5>1, StatusIs
      <4> QED BY <2>2, <4>1
    <3>5. ~PerReadme(p, T)
      BY <2>10, <3>4, ReadmeStatus
    <3> QED BY <3>3, <3>5 DEF AsReadme
  <2>11. CASE p.kind = "getUser"
    <3>1. Disputed(p, T)
      BY <2>5, <2>11 DEF Disputed
    <3>2. p.status = 500
      <4>1. Status(q, NULL) = 500
        <5>1. q.kind = "getUser"
          BY <2>3, <2>11
        <5> QED BY <5>1, StatusIs
      <4> QED BY <2>2, <4>1
    <3>3. ~PerReadme(p, T)
      BY <3>2, ReadmeStatus
    <3> QED BY <3>1, <3>3 DEF AsReadme
  <2>12. CASE p.kind \in {"getOne", "delete"}
    <3>1. Found(p, T) = NULL
      BY <2>5, <2>12, NothingFound
    <3>2. p.status = 200
      BY <2>2, <2>3, <2>12, StatusIs
    <3>3. Good(p, T)
      BY <2>12, GoodIs
    <3>4. p.kind = "getOne" => p.body = Read(p, T)
      BY <2>2, <3>1, FirstIs
    <3>5. p.kind = "delete" => p.body = Found(p, T) /\ message' = T.message \ {p.body}
      BY <2>2, <3>1
    <3>6. PerReadme(p, T)
      BY <2>12, <3>2, <3>3, <3>4, <3>5, IsPerReadme
    <3>7. ~Disputed(p, T)
      BY <2>4, <2>12 DEF Disputed
    <3> QED BY <3>6, <3>7 DEF AsReadme
  <2> QED BY <2>5, <2>7, <2>8, <2>9, <2>10, <2>11, <2>12
<1> QED BY <1>1, <1>2

\* A request arrives: it is alone if no other is under way, and no other is
\* alone any more.
LEMMA HandleAlone ==
  ASSUME AloneInv, NEW r \in Request, NEW q \in Ask, handle(r, q)
  PROVE  AloneInv' /\ Ends
<1> DEFINE pre == IF \E o \in Request : Active(o) THEN NULL ELSE [account |-> account, message |-> message]
           made == [q EXCEPT !.pc = "getConnection", !.pre = pre]
<1>1. /\ req[r].pc = "new" /\ UNCHANGED <<account, message, nextid, conn, closed, rows>>
      /\ req' = [o \in Request |-> IF o = r THEN Opened(made) ELSE [req[o] EXCEPT !.pre = NULL]]
  BY DEF handle
<1>2. ServiceInv' /\ RowsFit'
  BY <1>1, HandleStep DEF AloneInv, RowsFit
<1>3. req'[r] = Opened(made)
  BY <1>1
<1>4. ASSUME NEW o \in Request, o # r
      PROVE  /\ SameAsk(req'[o], req[o]) /\ req'[o].pc = req[o].pc /\ req'[o].call = req[o].call
             /\ req'[o].mine = req[o].mine /\ req'[o].pre = NULL
  <2>1. req'[o] = [req[o] EXCEPT !.pre = NULL]
    BY <1>1, <1>4
  <2>2. DOMAIN req[o] = DOMAIN NoRequest
    BY DEF AloneInv, ServiceInv, RequestInv, Shape
  <2> QED BY <2>1, <2>2 DEF SameAsk, NoRequest
<1>5. /\ DOMAIN q = DOMAIN NoRequest /\ q.kind \in DOMAIN Calls /\ q.call = 1 /\ q.mine = NULL
      /\ q.name \in Names /\ q.id \in Int /\ q.text \in Int /\ q.ok \in {TRUE, FALSE, NULL}
  BY AskFacts, RowAssumption DEF Names
<1>6. pre # NULL => /\ \A o \in Request : ~Active(o)
                    /\ pre.account = account /\ pre.message = message
  OBVIOUS
<1> HIDE DEF pre
<1>7. /\ DOMAIN made = DOMAIN NoRequest /\ SameAsk(made, q) /\ made.call = 1
      /\ made.pc = "getConnection" /\ made.pre = pre /\ made.mine = NULL
  BY <1>5 DEF NoRequest, SameAsk
<1> HIDE DEF made
<1>8. PICK p : p = req'[r]
  OBVIOUS
<1>9. /\ SameAsk(p, made) /\ p.pre = pre /\ p.pc # "new" /\ p.mine = NULL
      /\ p.pc = "done" <=> Stopped(made)
      /\ ~Stopped(made) => p = made
  <2>1. p = Opened(made)
    BY <1>3, <1>8
  <2>2. CASE Stopped(made)
    <3>1. PICK s : p = Done(made, s, NULL)
      BY <2>1, <2>2 DEF Opened, Crashed, Answered, Stopped
    <3>2. SameAsk(p, made) /\ p.pre = made.pre /\ p.pc = "done" /\ p.mine = NULL
      BY <1>7, <3>1, DoneFacts
    <3> QED BY <1>7, <2>2, <3>2
  <2>3. CASE ~Stopped(made)
    <3>1. p = made
      BY <2>1, <2>3 DEF Opened, Stopped
    <3> QED BY <1>7, <2>3, <3>1 DEF SameAsk
  <2> QED BY <2>2, <2>3
<1>10. \A o \in Request : Asked(req'[o]) /\ Mine(req'[o], o)
  <2>1. Asked(p) /\ Mine(p, r)
    BY <1>5, <1>7, <1>9 DEF Asked, Mine, SameAsk
  <2>2. ASSUME NEW o \in Request, o # r PROVE Asked(req'[o]) /\ Mine(req'[o], o)
    <3>1. Asked(req[o]) /\ Mine(req[o], o)
      BY DEF AloneInv
    <3> QED BY <1>4, <2>2, <3>1 DEF Asked, Mine, SameAsk
  <2> QED BY <1>8, <2>1, <2>2
<1>11. Fresh'
  <2> SUFFICES ASSUME NEW o \in Request, NEW i \in 1 .. 3, Used(<<o, i>>)' PROVE Begun(req'[o], i)
    BY DEF Fresh
  <2>1. Used(<<o, i>>)
    BY <1>1 DEF Used
  <2>2. Begun(req[o], i)
    BY <2>1 DEF AloneInv, Fresh
  <2>3. o # r
    BY <1>1, <2>2 DEF Begun
  <2> QED BY <1>4, <2>2, <2>3 DEF Begun
<1>12. ASSUME NEW o \in Request, Active(o)', req'[o].pre # NULL PROVE Alone(o)'
  <2>1. o = r
    BY <1>4, <1>12
  <2>2. p.pc # "done" /\ pre # NULL
    BY <1>8, <1>9, <1>12, <2>1 DEF Active
  <2>3. p = made /\ ~Stopped(made)
    BY <1>9, <2>2
  <2>4. \A u \in Request : u # r => ~Active(u)'
    BY <1>4, <1>6, <2>2 DEF Active
  <2>5. ~Stopped(p)
    BY <2>3
  <2>6. OwnConn(p, r, conn', closed')
    BY <1>7, <2>3 DEF OwnConn
  <2>7. Progress(p, p.pre, account', message')
    <3>1. p.call = 1 /\ p.pc = "getConnection"
      BY <1>7, <2>3
    <3>2. account' = p.pre.account /\ message' = p.pre.message
      BY <1>1, <1>6, <1>9, <2>2
    <3> QED BY <3>1, <3>2 DEF Progress, HasChanged, Checked
  <2> QED BY <1>8, <2>1, <2>4, <2>5, <2>6, <2>7 DEF Alone
<1>13. AloneInv'
  BY <1>2, <1>10, <1>11, <1>12 DEF AloneInv
<1>14. Ends
  <2> SUFFICES ASSUME NEW o \in Request, req[o].pc # "done", req'[o].pc = "done", req'[o].pre # NULL
               PROVE  AsReadme(req'[o], req'[o].pre)
    BY DEF Ends
  <2>1. o = r
    BY <1>4
  <2>2. Stopped(made) /\ pre # NULL /\ p = Opened(made)
    BY <1>3, <1>8, <1>9, <2>1
  <2>3. made.kind \in DOMAIN Calls
    BY <1>5, <1>7 DEF SameAsk
  <2>4. account' = pre.account /\ message' = pre.message /\ NULL \notin pre.message
    BY <1>1, <1>6, <2>2, RowAssumption DEF AloneInv, RowsFit
  <2>5. AsReadme(p, pre)
    BY <1>7, <2>2, <2>3, <2>4, StoppedAsReadme
  <2> QED BY <1>8, <1>9, <2>1, <2>5
<1> QED BY <1>13, <1>14

\* No request has been made, and no connection.
LEMMA AloneInvInit == Init => AloneInv
<1> SUFFICES ASSUME Init PROVE AloneInv
  OBVIOUS
<1>1. ServiceInv
  BY ServiceInvInit
<1>2. RowsFit
  BY RowAssumption DEF Init, RowsFit
<1>3. \A r \in Request : req[r].pc = "new"
  BY DEF Init, NoRequest
<1>4. Fresh
  <2> SUFFICES ASSUME NEW r \in Request, NEW i \in 1 .. 3 PROVE ~Used(<<r, i>>)
    BY DEF Fresh
  <2>1. closed = {} /\ conn["account"] = NULL /\ conn["message"] = NULL
    BY DEF Init
  <2>2. NULL # <<r, i>>
    BY RowAssumption
  <2> QED BY <2>1, <2>2 DEF Used
<1>5. \A r \in Request : Mine(req[r], r)
  BY DEF Init, NoRequest, Mine
<1> QED BY <1>1, <1>2, <1>3, <1>4, <1>5 DEF AloneInv, Asked, Active

\* One step of the service, for the requests that are alone.
LEMMA AloneInvNext ==
  ASSUME \A S \in SUBSET MessageRow : S # NULL, AloneInv, [Next]_vars
  PROVE  AloneInv' /\ (Next => Ends)
<1>1. ASSUME UNCHANGED vars PROVE AloneInv' /\ Ends
  <2>1. /\ req' = req /\ account' = account /\ message' = message /\ conn' = conn
        /\ closed' = closed /\ nextid' = nextid /\ rows' = rows
    BY <1>1 DEF vars
  <2>2. ServiceInv'
    BY <1>1, ServiceInvNext DEF AloneInv
  <2>3. RowsFit' /\ Fresh'
    BY <2>1 DEF AloneInv, RowsFit, Fresh, Used
  <2>4. \A r \in Request : Alone(r) => Alone(r)'
    BY <2>1 DEF Alone, Active
  <2>5. \A r \in Request : Active(r)' <=> Active(r)
    BY <2>1 DEF Active
  <2>6. AloneInv'
    BY <2>1, <2>2, <2>3, <2>4, <2>5 DEF AloneInv
  <2>7. Ends
    BY <2>1 DEF Ends
  <2> QED BY <2>6, <2>7
<1>2. ASSUME Next PROVE AloneInv' /\ Ends
  BY <1>2, HandleAlone, GetConnectionAlone, PrepareAlone, ExecuteAlone, FetchAlone, CloseAlone DEF Next
<1> QED BY <1>1, <1>2

\* A request that no other overlaps, and that gets its connections, is answered
\* as readme.md says and changes the tables as it says, whatever earlier requests
\* have left in the DAOs, for any requests and any rows; all but those that are
\* Disputed, which are not answered so and change nothing.  (Java's null is no
\* list of messages.)
THEOREM AloneBehavesAsReadme ==
  ASSUME \A S \in SUBSET MessageRow : S # NULL
  PROVE  Spec => AloneAsReadme
<1>1. AloneInv /\ [Next]_vars => AloneInv'
  BY AloneInvNext
<1>2. AloneInv /\ [Next]_vars =>
        [\A r \in Request :
           req[r].pc # "done" /\ req'[r].pc = "done" /\ req'[r].pre # NULL =>
             AsReadme(req'[r], req'[r].pre)]_vars
  BY AloneInvNext DEF Ends
<1> QED BY <1>1, <1>2, AloneInvInit, PTL DEF Spec, AloneAsReadme
=============================================================================
