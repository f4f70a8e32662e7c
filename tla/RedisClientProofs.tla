-------------------------- MODULE RedisClientProofs --------------------------
(***************************************************************************)
(* Connections go back to the pool clean, nothing is applied more often    *)
(* than its answers explain, removex is exact, and the wrappers tell what  *)
(* the server did: for every pool, any number of clients, keys, tries and  *)
(* faults, and all programs made of the modelled wrappers, transactions    *)
(* and pipelines of them, and removex.                                     *)
(***************************************************************************)
EXTENDS RedisClient, SequenceTheorems, FiniteSetTheorems, WellFoundedInduction, TLAPS

-----------------------------------------------------------------------------
(* Types.                                                                  *)

\* A member of a sorted set has one score.
Store == {d \in Data : \A m, n \in d.zset : m[2] = n[2] => m = n}

\* A queue of the commands of calls, each with its place.
Queue == Seq([at : Int, cmd : Commands])

ConnType == [multi : BOOLEAN, dirty : BOOLEAN, queue : Queue, unread : Nat]

\* A call whose result is v.
CallType(v) ==
    [kind : {"none", "command", "transaction", "pipeline", "removex"},
     cmds : Seq(Commands \cup Scans(0 .. NKeys)), at : Int, tries : 0 .. Retries,
     conn : Conns \cup {NoConn}, state : {"idle", "run", "done"},
     outcome : {"none", "ok", "err", "threw", "caught", "nothing"},
     told : {v}, calls : Nat]

Locals == [batch : Nat, cursor : 0 .. NKeys, prev : Nat, removed : Nat, found : Nat,
           loopGuard : Nat]

History == [applied : Seq(Nat), refused : Seq(Nat), lost : Nat, before : Data \cup {0},
            after : Data \cup {0}, steady : SUBSET Keys, deleted : Nat, unheard : Nat]

Types ==
    /\ program \in Programs
    /\ data \in Store
    /\ conn \in [Conns -> ConnType]
    /\ idle \in SUBSET Conns
    /\ cl = [c \in Clients |-> cl[c]]
    /\ \A c \in Clients : cl[c] \in CallType(cl[c].told)
    /\ rx \in [Clients -> Locals]
    /\ ghost \in [Clients -> History]

-----------------------------------------------------------------------------
(* The inductive invariant.                                                *)

\* A connection has one user, who is in the middle of a call, or is idle.
Pool ==
    /\ \A k \in idle : conn[k] = Clean
    /\ \A c \in Clients : Connected(c) =>
         /\ cl[c].conn \notin idle
         /\ cl[c].state = "run" /\ cl[c].tries > 0
         /\ \A d \in Clients : cl[d].conn = cl[c].conn => d = c

\* Where a call that runs may be.
Place(c) ==
    \/ cl[c].kind \in {"command", "removex"} /\ Len(cl[c].cmds) = 1 /\ cl[c].at = 1
    \/ cl[c].kind = "transaction" /\ cl[c].at \in -1 .. Len(cl[c].cmds) + 1
    \/ cl[c].kind = "pipeline" /\ cl[c].at \in 1 .. Len(cl[c].cmds)

Placed(c) ==
    /\ cl[c].state = "run" => Place(c) /\ (~Connected(c) => cl[c].at = Start(cl[c].kind))
    /\ cl[c].kind # "removex" => cl[c].cmds \in Seq(Commands)
    /\ cl[c].kind \in {"command", "removex"} => Len(cl[c].cmds) = 1
    /\ cl[c].kind = "none" <=> cl[c].state = "idle"
    /\ cl[c].kind = "command" /\ cl[c].state = "run" => ~NothingToDo(cl[c].cmds[1])

\* What the connection of a call holds there: inside MULTI the commands sent so
\* far, or a refused one, after which DISCARD is sent; of a pipeline the replies
\* that were not read, and the commands that were not executed.
Session(c, k) ==
    \/ cl[c].kind \in {"command", "removex"} /\ conn[k] = Clean
    \/ /\ cl[c].kind = "transaction"
       /\ cl[c].at = 0 => conn[k] = Clean
       /\ cl[c].at > 0 => /\ conn[k].multi /\ ~conn[k].dirty
                          /\ Len(conn[k].queue) = cl[c].at - 1
                          /\ \A i \in 1 .. Len(conn[k].queue) : conn[k].queue[i].at = i
       /\ cl[c].at = -1 => conn[k].multi
    \/ /\ cl[c].kind = "pipeline" /\ cl[c].at = 1
       /\ conn[k] = Clean
    \/ /\ cl[c].kind = "pipeline"
       /\ ~conn[k].multi /\ ~conn[k].dirty
       /\ conn[k].unread = Len(cl[c].cmds) - cl[c].at + 1
       /\ Len(conn[k].queue) <= conn[k].unread
       /\ \A i \in 1 .. Len(conn[k].queue) :
            conn[k].queue[i].at = Len(cl[c].cmds) - Len(conn[k].queue) + i

\* How often the commands of a call were applied: once for each lost answer,
\* which cost a try.
Once(c) ==
    LET n == ghost[c].applied IN
    /\ cl[c].kind \in {"none", "removex"} => n = <<>>
    /\ cl[c].kind \in {"command", "transaction", "pipeline"} => Len(n) = Len(cl[c].cmds)
    /\ Len(ghost[c].refused) = Len(n)
    /\ cl[c].kind # "pipeline" => \A i \in 1 .. Len(n) : ghost[c].refused[i] = 0
    /\ cl[c].kind \in {"command", "transaction"} /\ cl[c].state = "run" =>
         /\ ghost[c].lost + cl[c].tries <= Retries
         /\ \A i \in 1 .. Len(n) : n[i] = ghost[c].lost
    /\ cl[c].kind \in {"command", "transaction"} /\ cl[c].state = "done" =>
         \A i \in 1 .. Len(n) :
           /\ n[i] = ghost[c].lost + (IF cl[c].outcome = "ok" THEN 1 ELSE 0)
           /\ n[i] <= Retries

\* How often the server answered a command of a pipeline, how many of them it has
\* executed or refused in this try, and the answers of earlier tries, each of
\* which cost one.
Answers(c, i) == ghost[c].applied[i] + ghost[c].refused[i]

Executed(c) ==
    IF Connected(c) /\ conn[cl[c].conn].unread > 0
      THEN Len(cl[c].cmds) - Len(conn[cl[c].conn].queue) ELSE 0

Earlier(c, i) == Answers(c, i) - (IF i <= Executed(c) THEN 1 ELSE 0)

InOrder(c) ==
    cl[c].kind = "pipeline" =>
      /\ \A i \in 1 .. Len(cl[c].cmds) :
           Earlier(c, i) >= 0 /\ Earlier(c, i) + cl[c].tries <= Retries
      /\ \A i, j \in 1 .. Len(cl[c].cmds) : i < j => Earlier(c, i) >= Earlier(c, j)
      /\ cl[c].state = "done" /\ cl[c].outcome = "ok" =>
           \A i \in 1 .. Len(cl[c].cmds) : Answers(c, i) >= 1

\* removex: a key with a name that was there all the time lies behind the place
\* the scan has reached, or on the page that is being deleted.
Scanning(c) ==
    /\ cl[c].cmds[1] = ScanFrom(rx[c].cursor, rx[c].batch)
    /\ \A k \in ghost[c].steady \ Unnamed : k > rx[c].cursor
    /\ rx[c].removed <= rx[c].found

Deleting(c) ==
    \E page \in SUBSET Keys :
      /\ cl[c].cmds[1] = RemoveKeys(page)
      /\ \A k \in ghost[c].steady \ Unnamed : k \in page \/ (rx[c].cursor # 0 /\ k > rx[c].cursor)
      /\ rx[c].removed + Cardinality(page) <= rx[c].found

Exact(c) ==
    /\ ghost[c].steady \subseteq data.keys \cap Matching
    /\ cl[c].kind = "removex" /\ cl[c].state = "run" =>
         /\ rx[c].batch > 0
         /\ rx[c].prev = rx[c].removed
         /\ rx[c].removed + ghost[c].unheard = ghost[c].deleted
         /\ Scanning(c) \/ Deleting(c)
    /\ cl[c].kind = "removex" /\ cl[c].state = "done" /\ cl[c].outcome = "ok" =>
         /\ ghost[c].steady \subseteq Unnamed
         /\ cl[c].told = rx[c].removed
         /\ rx[c].removed + ghost[c].unheard = ghost[c].deleted
         /\ rx[c].removed <= rx[c].found

\* A wrapper that has returned told what the server did.
Truth(c) ==
    Done(c, "command") /\ cl[c].outcome \in {"ok", "nothing"} =>
      Promised(cl[c].cmds[1], cl[c].told, ghost[c].before, ghost[c].after)

\* What holds of one client.
Holds(c) ==
    /\ Placed(c)
    /\ Connected(c) => Session(c, cl[c].conn)
    /\ Once(c)
    /\ InOrder(c)
    /\ Exact(c)
    /\ Truth(c)

IInv ==
    /\ Types
    /\ Pool
    /\ \A c \in Clients : Holds(c)

-----------------------------------------------------------------------------
(* Recursion.                                                              *)

\* Induction over the naturals, for sets.
LEMMA SetInduction ==
    ASSUME NEW S, 0 \in S, \A n \in Nat : n \in S => n + 1 \in S
    PROVE  Nat \subseteq S
<1> DEFINE T == Nat \ S
<1> SUFFICES ASSUME T # {} PROVE FALSE
  OBVIOUS
<1>1. PICK x \in T : \A y \in T : ~(<<y, x>> \in OpToRel(<, Nat))
  BY WFMin, NatLessThanWellFounded
<1>2. x \in Nat /\ x # 0 /\ x - 1 \in Nat
  OBVIOUS
<1>3. x - 1 \in T
  <2>1. x - 1 \in S => x \in S
    BY <1>2
  <2> QED
    BY <1>2, <2>1
<1> DEFINE p == <<x - 1, x>>
<1>4. p \in Nat \X Nat /\ p[1] < p[2]
  BY <1>2
<1>5. p \in OpToRel(<, Nat)
  BY <1>4, Zenon DEF OpToRel
<1> QED
  BY <1>1, <1>3, <1>5

\* A function whose values stay in X from one place to the next is in X.
LEMMA StaysIn ==
    ASSUME NEW X, NEW n \in Nat, NEW f, f[0] \in X,
           \A i \in 1..n : f[i - 1] \in X => f[i] \in X
    PROVE  f[n] \in X
<1> DEFINE S == {i \in Nat : i <= n => f[i] \in X}
<1>1. 0 \in S
  OBVIOUS
<1>2. ASSUME NEW i \in Nat, i \in S PROVE i + 1 \in S
  <2> SUFFICES ASSUME i + 1 <= n PROVE f[i + 1] \in X
    OBVIOUS
  <2>1. i + 1 \in 1..n /\ (i + 1) - 1 = i /\ f[i] \in X
    BY <1>2
  <2> QED
    BY <2>1
<1> HIDE DEF S
<1>3. Nat \subseteq S
  BY <1>1, <1>2, SetInduction
<1> QED
  BY <1>3 DEF S

\* g starts with x and takes the n steps one after the other.
Iterates(g, n, x, step) == g[0] = x /\ \A i \in 1..n : g[i] = step[i][g[i - 1]]

\* A step from X to X can be repeated n times.
LEMMA Repeated ==
    ASSUME NEW X, NEW x \in X, NEW n \in Nat, NEW step \in [1..n -> [X -> X]]
    PROVE  \E g \in [0..n -> X] : Iterates(g, n, x, step)
<1> DEFINE Some(m) ==
      \E g \in [0..m -> X] : g[0] = x /\ \A i \in 1..m : g[i] = step[i][g[i - 1]]
<1> DEFINE S == {m \in Nat : m <= n => Some(m)}
<1>1. 0 \in S
  <2>1. /\ [i \in 0..0 |-> x] \in [0..0 -> X]
        /\ [i \in 0..0 |-> x][0] = x
        /\ \A j \in 1..0 : [i \in 0..0 |-> x][j] = step[j][[i \in 0..0 |-> x][j - 1]]
    OBVIOUS
  <2> QED
    BY <2>1
<1>2. ASSUME NEW m \in Nat, m \in S PROVE m + 1 \in S
  <2> SUFFICES ASSUME m + 1 <= n PROVE Some(m + 1)
    OBVIOUS
  <2>1. PICK g \in [0..m -> X] : g[0] = x /\ \A i \in 1..m : g[i] = step[i][g[i - 1]]
    BY <1>2
  <2> DEFINE h == [i \in 0..(m + 1) |-> IF i <= m THEN g[i] ELSE step[m + 1][g[m]]]
  <2>2. step[m + 1][g[m]] \in X
    <3>1. g[m] \in X /\ m + 1 \in 1..n
      OBVIOUS
    <3> QED
      BY <3>1
  <2>3. h \in [0..(m + 1) -> X]
    BY <2>2
  <2>4. h[0] = x
    BY <2>1
  <2>5. ASSUME NEW i \in 1..(m + 1) PROVE h[i] = step[i][h[i - 1]]
    <3>1. CASE i <= m
      <4>1. i \in 1..m /\ i \in 0..(m + 1) /\ i - 1 \in 0..(m + 1) /\ i - 1 <= m
        BY <3>1
      <4>2. h[i] = g[i] /\ h[i - 1] = g[i - 1]
        BY <3>1, <4>1
      <4> QED
        BY <2>1, <4>1, <4>2
    <3>2. CASE ~(i <= m)
      <4>1. i = m + 1 /\ i - 1 = m
        BY <3>2
      <4>2. h[m + 1] = step[m + 1][g[m]] /\ h[m] = g[m]
        OBVIOUS
      <4> QED
        BY <4>1, <4>2
    <3> QED
      BY <3>1, <3>2
  <2> QED
    BY <2>3, <2>4, <2>5
<1> HIDE DEF S
<1>3. Nat \subseteq S
  BY <1>1, <1>2, SetInduction
<1>4. n \in S
  BY <1>3
<1> QED
  BY <1>4 DEF S, Iterates

-----------------------------------------------------------------------------
(* The commands of the wrappers, and what the server makes of the data.    *)

\* The arguments of each command, and how its reply is read.
LEMMA CommandForm ==
    ASSUME NEW cmd \in Commands
    PROVE  /\ cmd = [name |-> cmd.name, arg |-> cmd.arg, read |-> cmd.read]
           /\ cmd.name \notin {"SCAN", "MULTI", "EXEC", "DISCARD"}
           /\ cmd.name \in {"EXISTS", "EXPIRE"} => cmd.arg \in Keys /\ cmd.read = "one"
           /\ cmd.name = "TTL" => cmd.arg \in Keys /\ cmd.read = "int"
           /\ cmd.name = "GET" => cmd.arg \in Keys /\ cmd.read = "string"
           /\ cmd.name = "MGET" => cmd.arg \in Seq(Keys) /\ cmd.read = "strings"
           /\ cmd.name \in {"SET", "SETNX"} => cmd.arg \in Keys /\ cmd.read = "done"
           /\ cmd.name = "DEL" => cmd.arg \in SUBSET Keys /\ cmd.read = "int"
           /\ cmd.name \in {"LPOP", "RPOP", "RPOPLPUSH"} => cmd.read = "string"
           /\ cmd.name \in {"LPUSH", "RPUSH"} => cmd.arg \in Seq(Items) /\ cmd.read = "int"
           /\ cmd.name = "LREM" =>
                cmd.arg \in [value : Items, count : Int] /\ cmd.read = "int"
           /\ cmd.name = "LLEN" => cmd.read = "int"
           /\ cmd.name \in {"ADD", "REM"} =>
                cmd.arg \in [kind : Kinds, fields : SUBSET Items] /\ cmd.read = "int"
           /\ cmd.name = "SPOP" => cmd.arg \in Nat /\ cmd.read = "members"
           /\ cmd.name = "CARD" => cmd.arg \in Kinds /\ cmd.read = "int"
           /\ cmd.name = "HGET" => cmd.arg \in Items /\ cmd.read = "string"
           /\ cmd.name = "ZADD" =>
                /\ cmd.arg \in [score : 1 .. 2, fields : SUBSET Items,
                               options : SUBSET Options]
                /\ cmd.read = "int"
           /\ cmd.name = "ZRANGEBYSCORE" => cmd.read = "members"
           /\ cmd.name = "ZREMRANGEBYSCORE" => cmd.arg \in Intervals /\ cmd.read = "int"
           /\ cmd.name = "ZREM" => cmd.arg \in [fields : SUBSET Items] /\ cmd.read = "int"
           /\ cmd.name = "ZCARD" => cmd.read = "int"
           /\ cmd.name = "SCRIPT LOAD" => cmd.read = "string"
           /\ cmd.name = "SCRIPT EXISTS" => cmd.read = "one"
           /\ cmd.name = "EVALSHA" => cmd.read = "done"
           /\ cmd.name \in
                {"EXISTS", "EXPIRE", "TTL", "GET", "MGET", "SET", "SETNX", "DEL",
                 "LPUSH", "RPUSH", "LLEN", "LREM", "LPOP", "RPOP", "RPOPLPUSH",
                 "ADD", "REM", "CARD", "HGET", "SPOP",
                 "ZADD", "ZRANGEBYSCORE", "ZREMRANGEBYSCORE", "ZREM", "ZCARD",
                 "SCRIPT LOAD", "SCRIPT EXISTS", "EVALSHA"}
  BY DEF Commands

\* LREM leaves a list of elements.
LEMMA WithoutType ==
    ASSUME NEW l \in Seq(Items), NEW gone
    PROVE  Without(l, gone) \in Seq(Items)
<1> DEFINE X == Seq(Items)
<1> DEFINE N == Len(l)
<1> DEFINE step == [i \in 1..N |->
                      [y \in X |-> IF i \in gone THEN y ELSE Append(y, l[i])]]
<1>1. step \in [1..N -> [X -> X]]
  <2> SUFFICES ASSUME NEW i \in 1..N, NEW y \in X
               PROVE  (IF i \in gone THEN y ELSE Append(y, l[i])) \in X
    OBVIOUS
  <2> QED
    OBVIOUS
<1>2. <<>> \in X /\ N \in Nat
  OBVIOUS
<1>3. \A y \in X, i \in 1..N :
        step[i][y] = IF i \in gone THEN y ELSE Append(y, l[i])
  OBVIOUS
<1> DEFINE Rec(g) ==
      g = [i \in 0..N |-> IF i = 0 THEN <<>>
                               ELSE IF i \in gone THEN g[i - 1] ELSE Append(g[i - 1], l[i])]
<1> DEFINE f == CHOOSE g : Rec(g)
<1>4. Without(l, gone) = f[N]
  BY DEF Without
<1> HIDE DEF step, X, N
<1>5. PICK g \in [0..N -> X] : Iterates(g, N, <<>>, step)
  BY <1>1, <1>2, Repeated, Zenon
<1>6. Rec(g)
  <2>1. ASSUME NEW i \in 1..N
        PROVE  g[i] = IF i \in gone THEN g[i - 1] ELSE Append(g[i - 1], l[i])
    <3>1. i - 1 \in 0..N
      BY <1>2
    <3> QED
      BY <1>3, <1>5, <3>1 DEF Iterates
  <2>2. ASSUME NEW i \in 0..N
        PROVE  g[i] = IF i = 0 THEN <<>>
                      ELSE IF i \in gone THEN g[i - 1] ELSE Append(g[i - 1], l[i])
    <3>1. i = 0 \/ i \in 1..N
      BY <1>2
    <3> QED
      BY <1>5, <2>1, <3>1 DEF Iterates
  <2> QED
    BY <2>2
<1> HIDE DEF Rec
<1>7. Rec(f)
  BY <1>6
<1> USE DEF Rec
<1> HIDE DEF f
<1>8. f[0] \in X
  BY <1>2, <1>7
<1>9. ASSUME NEW i \in 1..N, f[i - 1] \in X PROVE f[i] \in X
  <2>1. i \in 0..N /\ i # 0
    BY <1>2
  <2>2. f[i] = IF i \in gone THEN f[i - 1] ELSE Append(f[i - 1], l[i])
    BY <1>7, <2>1
  <2> QED
    BY <1>9, <2>2 DEF X, N
<1>10. f[N] \in X
  BY <1>2, <1>8, <1>9, StaysIn
<1> QED
  BY <1>4, <1>10 DEF X

\* The server's data stay what they are, whichever fields a command changes.
LEMMA StoreFields ==
    ASSUME NEW d \in Store
    PROVE  /\ d.keys \in SUBSET Keys /\ d.list \in Seq(Items) /\ d.set \in SUBSET Items
           /\ d.hash \in SUBSET Items /\ d.zset \in SUBSET ((1 .. 2) \X Items)
           /\ d["set"] = d.set /\ d["hash"] = d.hash
           /\ \A K \in SUBSET Keys : [d EXCEPT !.keys = K] \in Store
           /\ \A l \in Seq(Items) : [d EXCEPT !.list = l] \in Store
           /\ \A V \in SUBSET Items : /\ [d EXCEPT !.set = V] \in Store
                                      /\ [d EXCEPT !.hash = V] \in Store
           /\ [d EXCEPT !.script = TRUE] \in Store
           /\ \A Z \in SUBSET ((1 .. 2) \X Items) :
                (\A m, n \in Z : m[2] = n[2] => m = n) => [d EXCEPT !.zset = Z] \in Store
<1>1. \A K \in SUBSET Keys : [d EXCEPT !.keys = K] \in Store
  BY DEF Store, Data
<1>2. \A l \in Seq(Items) : [d EXCEPT !.list = l] \in Store
  BY DEF Store, Data
<1>3. \A V \in SUBSET Items : [d EXCEPT !.set = V] \in Store /\ [d EXCEPT !.hash = V] \in Store
  BY DEF Store, Data
<1>4. [d EXCEPT !.script = TRUE] \in Store
  BY DEF Store, Data
<1>5. \A Z \in SUBSET ((1 .. 2) \X Items) :
        (\A m, n \in Z : m[2] = n[2] => m = n) => [d EXCEPT !.zset = Z] \in Store
  BY DEF Store, Data
<1> QED
  BY <1>1, <1>2, <1>3, <1>4, <1>5 DEF Store, Data

LEMMA OnKeysData ==
    ASSUME NEW d \in Store, NEW cmd \in Commands,
           cmd.name \in {"EXISTS", "EXPIRE", "TTL", "GET", "MGET", "SET", "SETNX", "DEL"}
    PROVE  OnKeys(d, cmd).data \in Store
<1>1. CASE cmd.name \in {"EXISTS", "EXPIRE", "TTL", "GET", "MGET"}
  BY <1>1 DEF OnKeys, Applied
<1>2. CASE cmd.name \in {"SET", "SETNX"}
  <2>1. OnKeys(d, cmd).data = [d EXCEPT !.keys = d.keys \cup {cmd.arg}]
    BY <1>2 DEF OnKeys, Applied
  <2>2. d.keys \cup {cmd.arg} \in SUBSET Keys
    BY <1>2, StoreFields, CommandForm
  <2> QED
    BY <2>1, <2>2, StoreFields
<1>3. CASE cmd.name = "DEL"
  <2>1. OnKeys(d, cmd).data = [d EXCEPT !.keys = d.keys \ cmd.arg]
    BY <1>3 DEF OnKeys, Applied
  <2>2. d.keys \ cmd.arg \in SUBSET Keys
    BY StoreFields
  <2> QED
    BY <2>1, <2>2, StoreFields
<1> QED
  BY <1>1, <1>2, <1>3

LEMMA OnListData ==
    ASSUME NEW d \in Store, NEW cmd \in Commands,
           cmd.name \in {"LPUSH", "RPUSH", "LLEN", "LREM", "LPOP", "RPOP", "RPOPLPUSH"}
    PROVE  OnList(d, cmd).data \in Store
<1> DEFINE l == d.list
<1>0. l \in Seq(Items) /\ \A r \in Seq(Items) : [d EXCEPT !.list = r] \in Store
  BY StoreFields
<1>1. CASE cmd.name = "LPUSH"
  <2>1. cmd.arg \in Seq(Items)
    BY <1>1, CommandForm
  <2>2. Reverse(cmd.arg) \in Seq(Items)
    BY <2>1 DEF Reverse
  <2>3. OnList(d, cmd).data = [d EXCEPT !.list = Reverse(cmd.arg) \o l]
    BY <1>1 DEF OnList, Taken, Applied
  <2>4. Reverse(cmd.arg) \o l \in Seq(Items)
    BY <1>0, <2>2
  <2> HIDE DEF l
  <2> QED
    BY <1>0, <2>3, <2>4
<1>2. CASE cmd.name = "RPUSH"
  <2>1. cmd.arg \in Seq(Items)
    BY <1>2, CommandForm
  <2>3. OnList(d, cmd).data = [d EXCEPT !.list = l \o cmd.arg]
    BY <1>2 DEF OnList, Taken, Applied
  <2>4. l \o cmd.arg \in Seq(Items)
    BY <1>0, <2>1
  <2> HIDE DEF l
  <2> QED
    BY <1>0, <2>3, <2>4
<1>3. CASE cmd.name = "LREM"
  <2> DEFINE hits == Hits(l, cmd.arg.value, cmd.arg.count)
  <2>1. Without(l, hits) \in Seq(Items)
    BY <1>0, WithoutType
  <2>2. OnList(d, cmd).data = [d EXCEPT !.list = Without(l, hits)]
    BY <1>3 DEF OnList, Taken, Applied
  <2> HIDE DEF l, hits
  <2> QED
    BY <1>0, <2>1, <2>2
<1>4. CASE cmd.name = "LLEN" \/ (cmd.name \in {"LPOP", "RPOP", "RPOPLPUSH"} /\ l = <<>>)
  BY <1>4 DEF OnList, Taken, Applied
<1>5. CASE cmd.name = "LPOP" /\ l # <<>>
  <2>1. Tail(l) \in Seq(Items)
    BY <1>0, <1>5
  <2>2. OnList(d, cmd).data = [d EXCEPT !.list = Tail(l)]
    BY <1>5 DEF OnList, Taken, Applied
  <2> HIDE DEF l
  <2> QED
    BY <1>0, <2>1, <2>2
<1>6. CASE cmd.name = "RPOP" /\ l # <<>>
  <2>1. Front(l) \in Seq(Items)
    BY <1>0, <1>6 DEF Front
  <2>2. OnList(d, cmd).data = [d EXCEPT !.list = Front(l)]
    BY <1>6 DEF OnList, Taken, Applied
  <2> HIDE DEF l
  <2> QED
    BY <1>0, <2>1, <2>2
<1>7. CASE cmd.name = "RPOPLPUSH" /\ l # <<>>
  <2>1. Front(l) \in Seq(Items)
    BY <1>0, <1>7 DEF Front
  <2>2. <<Last(l)>> \in Seq(Items)
    BY <1>0, <1>7 DEF Last
  <2>3. OnList(d, cmd).data = [d EXCEPT !.list = <<Last(l)>> \o Front(l)]
    BY <1>7 DEF OnList, Taken, Applied
  <2>4. <<Last(l)>> \o Front(l) \in Seq(Items)
    BY <2>1, <2>2
  <2> HIDE DEF l
  <2> QED
    BY <1>0, <2>3, <2>4
<1> QED
  BY <1>1, <1>2, <1>3, <1>4, <1>5, <1>6, <1>7

LEMMA OnFieldsData ==
    ASSUME NEW d \in Store, NEW cmd \in Commands,
           cmd.name \in {"ADD", "REM", "CARD", "HGET", "SPOP"}
    PROVE  OnFields(d, cmd).data \in Store
<1>1. CASE cmd.name \in {"CARD", "HGET"}
  BY <1>1 DEF OnFields, Applied
<1>2. CASE cmd.name = "ADD" /\ cmd.arg.kind = "set"
  <2>1. OnFields(d, cmd).data = [d EXCEPT !.set = d.set \cup cmd.arg.fields]
    BY <1>2 DEF OnFields, Applied
  <2>2. d.set \cup cmd.arg.fields \in SUBSET Items
    BY <1>2, StoreFields, CommandForm
  <2> QED
    BY <2>1, <2>2, StoreFields
<1>3. CASE cmd.name = "ADD" /\ cmd.arg.kind = "hash"
  <2>1. OnFields(d, cmd).data = [d EXCEPT !.hash = d.hash \cup cmd.arg.fields]
    BY <1>3 DEF OnFields, Applied
  <2>2. d.hash \cup cmd.arg.fields \in SUBSET Items
    BY <1>3, StoreFields, CommandForm
  <2> QED
    BY <2>1, <2>2, StoreFields
<1>4. CASE cmd.name = "REM" /\ cmd.arg.kind = "set"
  <2>1. OnFields(d, cmd).data = [d EXCEPT !.set = d.set \ cmd.arg.fields]
    BY <1>4 DEF OnFields, Applied
  <2>2. d.set \ cmd.arg.fields \in SUBSET Items
    BY StoreFields
  <2> QED
    BY <2>1, <2>2, StoreFields
<1>5. CASE cmd.name = "REM" /\ cmd.arg.kind = "hash"
  <2>1. OnFields(d, cmd).data = [d EXCEPT !.hash = d.hash \ cmd.arg.fields]
    BY <1>5 DEF OnFields, Applied
  <2>2. d.hash \ cmd.arg.fields \in SUBSET Items
    BY StoreFields
  <2> QED
    BY <2>1, <2>2, StoreFields
<1>6. CASE cmd.name = "SPOP"
  <2> DEFINE all == SetToSeq(d.set)
  <2> DEFINE out == SubSeq(all, 1, IF cmd.arg < Len(all) THEN cmd.arg ELSE Len(all))
  <2>1. OnFields(d, cmd).data = [d EXCEPT !.set = d.set \ Range(out)]
    BY <1>6 DEF OnFields, Applied
  <2>2. d.set \ Range(out) \in SUBSET Items
    BY StoreFields
  <2> HIDE DEF out
  <2> QED
    BY <2>1, <2>2, StoreFields
<1>7. cmd.name \in {"ADD", "REM"} => cmd.arg.kind \in {"set", "hash"}
  BY CommandForm DEF Kinds
<1> QED
  BY <1>1, <1>2, <1>3, <1>4, <1>5, <1>6, <1>7

\* What ZADD makes of a sorted set.
LEMMA AddedData ==
    ASSUME NEW d \in Store, NEW cmd \in Commands, cmd.name = "ZADD",
           NEW given, given = {<<cmd.arg.score, v>> : v \in Eligible(d, cmd.arg)},
           NEW zset, zset = {m \in d.zset : m[2] \notin Named(given)} \cup given
    PROVE  [d EXCEPT !.zset = zset] \in Store
<1>0. /\ d.zset \in SUBSET ((1 .. 2) \X Items)
      /\ \A m, n \in d.zset : m[2] = n[2] => m = n
  BY DEF Store, Data
<1>1. cmd.arg.score \in 1 .. 2 /\ Eligible(d, cmd.arg) \in SUBSET Items
  BY CommandForm DEF Eligible
<1>2. /\ given \in SUBSET ((1 .. 2) \X Items)
      /\ \A m, n \in given : m[2] = n[2] => m = n
  BY <1>1
<1>3. zset \in SUBSET ((1 .. 2) \X Items)
  BY <1>0, <1>2
<1>4. \A m, n \in zset : m[2] = n[2] => m = n
  BY <1>0, <1>2 DEF Named
<1> QED
  BY <1>3, <1>4, StoreFields

\* Taking members out of a sorted set.
LEMMA FewerScores ==
    ASSUME NEW d \in Store, NEW out
    PROVE  [d EXCEPT !.zset = d.zset \ out] \in Store
<1> DEFINE Z == d.zset \ out
<1>1. Z \in SUBSET ((1 .. 2) \X Items) /\ \A m, n \in Z : m[2] = n[2] => m = n
  BY DEF Store, Data
<1> HIDE DEF Z
<1>2. [d EXCEPT !.zset = Z] \in Store
  BY <1>1, StoreFields
<1> QED
  BY <1>2 DEF Z

LEMMA OnScoresData ==
    ASSUME NEW d \in Store, NEW cmd \in Commands,
           cmd.name \in {"ZADD", "ZRANGEBYSCORE", "ZREMRANGEBYSCORE", "ZREM", "ZCARD"}
    PROVE  OnScores(d, cmd).data \in Store
<1>1. CASE cmd.name = "ZADD"
  <2> DEFINE given == {<<cmd.arg.score, v>> : v \in Eligible(d, cmd.arg)}
  <2> DEFINE Z == {m \in d.zset : m[2] \notin Named(given)} \cup given
  <2>1. OnScores(d, cmd).data \in {d, [d EXCEPT !.zset = Z]}
    BY <1>1 DEF OnScores, Added, Applied
  <2>2. [d EXCEPT !.zset = Z] \in Store
    BY <1>1, AddedData
  <2> HIDE DEF Z
  <2> QED
    BY <2>1, <2>2
<1>2. CASE cmd.name \in {"ZRANGEBYSCORE", "ZCARD"}
  BY <1>2 DEF OnScores, Applied
<1>3. CASE cmd.name = "ZREMRANGEBYSCORE"
  <2> DEFINE in == {m \in d.zset : Within(m[1], cmd.arg)}
  <2>1. OnScores(d, cmd).data = [d EXCEPT !.zset = d.zset \ in]
    BY <1>3 DEF OnScores, Applied
  <2> HIDE DEF in
  <2> QED
    BY <2>1, FewerScores
<1>4. CASE cmd.name = "ZREM"
  <2> DEFINE out == {m \in d.zset : m[2] \in cmd.arg.fields}
  <2>1. OnScores(d, cmd).data = [d EXCEPT !.zset = d.zset \ out]
    BY <1>4 DEF OnScores, Applied
  <2> HIDE DEF out
  <2> QED
    BY <2>1, FewerScores
<1> QED
  BY <1>1, <1>2, <1>3, <1>4

\* Whatever a wrapper sends, the data stay well-formed.
LEMMA ApplyData ==
    ASSUME NEW d \in Store, NEW cmd \in Commands
    PROVE  Apply(d, cmd).data \in Store
<1>1. CASE cmd.name \in {"EXISTS", "EXPIRE", "TTL", "GET", "MGET", "SET", "SETNX", "DEL"}
  BY <1>1, OnKeysData DEF Apply
<1>2. CASE cmd.name \in {"LPUSH", "RPUSH", "LLEN", "LREM", "LPOP", "RPOP", "RPOPLPUSH"}
  BY <1>2, OnListData DEF Apply
<1>3. CASE cmd.name \in {"ADD", "REM", "CARD", "HGET", "SPOP"}
  BY <1>3, OnFieldsData DEF Apply
<1>4. CASE cmd.name \in {"ZADD", "ZRANGEBYSCORE", "ZREMRANGEBYSCORE", "ZREM", "ZCARD"}
  BY <1>4, OnScoresData DEF Apply
<1>5. CASE cmd.name \in {"SCRIPT LOAD", "SCRIPT EXISTS", "EVALSHA"}
  <2>1. OnScript(d, cmd).data = d \/ OnScript(d, cmd).data = [d EXCEPT !.script = TRUE]
    BY <1>5 DEF OnScript, Applied
  <2>2. Apply(d, cmd) = OnScript(d, cmd)
    BY <1>5 DEF Apply
  <2> QED
    BY <2>1, <2>2, StoreFields
<1> QED
  BY <1>1, <1>2, <1>3, <1>4, <1>5, CommandForm

\* So they do after all commands of a transaction.
LEMMA AfterAllData ==
    ASSUME NEW d \in Store, NEW queue \in Queue
    PROVE  AfterAll(d, queue) \in Store
<1> DEFINE N == Len(queue)
<1> DEFINE step == [i \in 1..N |-> [y \in Store |-> Apply(y, queue[i].cmd).data]]
<1>1. step \in [1..N -> [Store -> Store]]
  <2> SUFFICES ASSUME NEW i \in 1..N, NEW y \in Store
               PROVE  Apply(y, queue[i].cmd).data \in Store
    OBVIOUS
  <2>1. queue[i].cmd \in Commands
    <3>1. queue[i] \in [at : Int, cmd : Commands]
      BY ElementOfSeq, Zenon DEF Queue
    <3> QED
      BY <3>1
  <2> QED
    BY <2>1, ApplyData
<1>2. N \in Nat
  BY DEF Queue
<1>3. \A y \in Store, i \in 1..N : step[i][y] = Apply(y, queue[i].cmd).data
  OBVIOUS
<1> DEFINE Rec(g) == g = [i \in 0..N |-> IF i = 0 THEN d ELSE Apply(g[i - 1], queue[i].cmd).data]
<1> DEFINE f == CHOOSE g : Rec(g)
<1>4. AfterAll(d, queue) = f[N]
  BY DEF AfterAll
<1>10. ASSUME NEW i \in 1..N PROVE queue[i].cmd \in Commands
  <2>1. queue[i] \in [at : Int, cmd : Commands]
    BY ElementOfSeq, Zenon DEF Queue
  <2> QED
    BY <2>1
<1> HIDE DEF step, N
<1>5. PICK g \in [0..N -> Store] : Iterates(g, N, d, step)
  BY <1>1, <1>2, Repeated, Zenon
<1>6. Rec(g)
  <2>1. ASSUME NEW i \in 1..N PROVE g[i] = Apply(g[i - 1], queue[i].cmd).data
    <3>1. i - 1 \in 0..N
      BY <1>2
    <3> QED
      BY <1>3, <1>5, <3>1 DEF Iterates
  <2>2. ASSUME NEW i \in 0..N
        PROVE  g[i] = IF i = 0 THEN d ELSE Apply(g[i - 1], queue[i].cmd).data
    <3>1. i = 0 \/ i \in 1..N
      BY <1>2
    <3> QED
      BY <1>5, <2>1, <3>1 DEF Iterates
  <2> QED
    BY <2>2
<1> HIDE DEF Rec
<1>7. Rec(f)
  BY <1>6
<1> USE DEF Rec
<1> HIDE DEF f
<1>8. f[0] \in Store
  BY <1>2, <1>7
<1>9. ASSUME NEW i \in 1..N, f[i - 1] \in Store PROVE f[i] \in Store
  <2>1. i \in 0..N /\ i # 0
    BY <1>2
  <2>2. f[i] = Apply(f[i - 1], queue[i].cmd).data
    BY <1>7, <2>1
  <2> QED
    BY <1>9, <1>10, <2>2, ApplyData
<1> QED
  BY <1>2, <1>4, <1>8, <1>9, StaysIn

-----------------------------------------------------------------------------
(* What the wrappers tell.                                                 *)

\* A finite set in some order holds its elements.
LEMMA SetToSeqOf ==
    ASSUME NEW S, IsFiniteSet(S)
    PROVE  SetToSeq(S) \in Seq(S) /\ Range(SetToSeq(S)) = S
<1> DEFINE n == Cardinality(S)
<1> DEFINE f == SetToSeq(S)
<1>1. n \in Nat /\ ExistsBijection(1..n, S)
  BY FS_CardinalityType
<1>2. \E g \in [1..n -> S] : IsInjective(g)
  BY <1>1 DEF ExistsBijection, Bijection, Injection
<1>3. f \in [1..n -> S] /\ IsInjective(f)
  BY <1>2 DEF SetToSeq
<1>4. IsFiniteSet(1..n) /\ Cardinality(1..n) = n
  BY <1>1, FS_Interval
<1>5. f \in Injection(1..n, S)
  BY <1>3 DEF Injection
<1> HIDE DEF f
<1>6. f \in Surjection(1..n, S)
  BY <1>4, <1>5, FS_Injection
<1>7. Range(f) = S
  BY <1>3, <1>6 DEF Surjection, Range
<1>8. f \in Seq(S)
  BY <1>1, <1>3
<1> QED
  BY <1>7, <1>8 DEF f

LEMMA ItemsFinite ==
    ASSUME NEW V \in SUBSET Items
    PROVE  IsFiniteSet(V)
<1>1. IsFiniteSet({Empty}) /\ IsFiniteSet({Empty} \cup {Full})
  BY FS_Singleton, FS_AddElement
<1>2. Items = {Empty} \cup {Full}
  BY DEF Items
<1> QED
  BY <1>1, <1>2, FS_Subset

\* The members of an array of strings, without the empty one.
LEMMA MembersOf ==
    ASSUME NEW s \in Seq(Items)
    PROVE  Members(Arr([i \in DOMAIN s |-> Str(s[i])])) = Range(s) \ {Empty}
<1> DEFINE r == Arr([i \in DOMAIN s |-> Str(s[i])])
<1>1. isArray(r) /\ DOMAIN r.elements = DOMAIN s
  BY DEF isArray, Arr
<1>2. \A i \in DOMAIN s : isString(r.elements[i]) /\ r.elements[i].v = s[i]
  BY DEF isString, Arr, Str
<1> HIDE DEF r
<1>3. Members(r) = {r.elements[i].v : i \in {j \in DOMAIN r.elements :
                        isString(r.elements[j]) /\ r.elements[j].v # Empty}}
  BY <1>1 DEF Members
<1>4. {j \in DOMAIN r.elements : isString(r.elements[j]) /\ r.elements[j].v # Empty}
        = {j \in DOMAIN s : s[j] # Empty}
  BY <1>1, <1>2
<1>5. Members(r) = {r.elements[i].v : i \in {j \in DOMAIN s : s[j] # Empty}}
  BY <1>3, <1>4
<1>6. Members(r) = {s[i] : i \in {j \in DOMAIN s : s[j] # Empty}}
  BY <1>2, <1>5
<1> QED
  BY <1>6 DEF Range, r

LEMMA ReadInt ==
    ASSUME NEW cmd, cmd.read = "int", NEW n
    PROVE  Read(cmd, Number(n)) = n
  BY DEF Read, getInt, isInteger, Number

LEMMA ListTold ==
    ASSUME NEW d \in Store, NEW cmd \in Commands,
           cmd.name \in {"LPUSH", "RPUSH", "LLEN", "LREM", "LPOP", "RPOP", "RPOPLPUSH"},
           ~NothingToDo(cmd)
    PROVE  PromisedList(cmd, Read(cmd, OnList(d, cmd).reply), d, OnList(d, cmd).data)
<1> DEFINE l == d.list
<1> DEFINE after == OnList(d, cmd).data
<1> DEFINE reply == OnList(d, cmd).reply
<1> DEFINE told == Read(cmd, reply)
<1>0. l \in Seq(Items) /\ d \in Data
  BY DEF Store, Data
<1>1. CASE cmd.name = "LPUSH"
  <2>1. cmd.arg \in Seq(Items) /\ cmd.read = "int"
    BY <1>1, CommandForm
  <2>2. Reverse(cmd.arg) \in Seq(Items) /\ Len(Reverse(cmd.arg)) = Len(cmd.arg)
    BY <2>1 DEF Reverse
  <2>3. after.list = Reverse(cmd.arg) \o l
    BY <1>0, <1>1 DEF OnList, Applied, Data
  <2>4. reply = Number(Len(l) + Len(cmd.arg))
    BY <1>1 DEF OnList, Applied
  <2>5. told = Len(l) + Len(cmd.arg)
    BY <2>1, <2>4, ReadInt
  <2> HIDE DEF after, told, l
  <2> DEFINE R == Reverse(cmd.arg)
  <2>8. R \in Seq(Items) /\ Len(R) = Len(cmd.arg) /\ after.list = R \o l
    BY <2>2, <2>3
  <2> HIDE DEF R
  <2>9. R \o l \in Seq(Items) /\ Len(R \o l) = Len(R) + Len(l)
    BY <1>0, <2>8, ConcatProperties
  <2>6. told = Len(after.list)
    BY <1>0, <2>1, <2>5, <2>8, <2>9
  <2>7. ASSUME NEW v \in Range(cmd.arg) PROVE v \in Range(R)
    <3>1. PICK i \in 1 .. Len(cmd.arg) : v = cmd.arg[i]
      BY <2>1, <2>7 DEF Range
    <3> DEFINE j == (Len(cmd.arg) - i) + 1
    <3>2. j \in 1 .. Len(cmd.arg) /\ (Len(cmd.arg) - j) + 1 = i
      BY <2>1
    <3>3. R[j] = v
      BY <3>1, <3>2 DEF R, Reverse
    <3> QED
      BY <2>8, <3>2, <3>3 DEF Range
  <2>11. cmd.arg # <<>>
    BY <1>1 DEF NothingToDo
  <2>10. Range(after.list) = Range(R) \cup Range(l)
    BY <1>0, <2>8, RangeConcatenation
  <2> QED
    BY <1>1, <2>6, <2>7, <2>10, <2>11 DEF PromisedList, after, told
<1>2. CASE cmd.name = "RPUSH"
  <2>1. cmd.arg \in Seq(Items) /\ cmd.read = "int"
    BY <1>2, CommandForm
  <2>3. after.list = l \o cmd.arg
    BY <1>0, <1>2 DEF OnList, Applied, Data
  <2>4. reply = Number(Len(l) + Len(cmd.arg))
    BY <1>2 DEF OnList, Applied
  <2>5. told = Len(l) + Len(cmd.arg)
    BY <2>1, <2>4, ReadInt
  <2> HIDE DEF after, told, l
  <2>6. told = Len(after.list)
    BY <1>0, <2>1, <2>3, <2>5
  <2>7. Range(after.list) = Range(l) \cup Range(cmd.arg)
    BY <1>0, <2>1, <2>3, RangeConcatenation
  <2>8. cmd.arg # <<>>
    BY <1>2 DEF NothingToDo
  <2> QED
    BY <1>2, <2>6, <2>7, <2>8 DEF PromisedList, after, told
<1>3. CASE cmd.name = "LREM"
  <2>1. cmd.read = "int"
    BY <1>3, CommandForm
  <2> DEFINE rest == Without(l, Hits(l, cmd.arg.value, cmd.arg.count))
  <2>3. after.list = rest
    BY <1>0, <1>3 DEF OnList, Applied, Data
  <2>4. reply = Number(Len(l) - Len(rest))
    BY <1>3 DEF OnList, Applied
  <2> HIDE DEF rest
  <2>5. told = Len(l) - Len(rest)
    BY <2>1, <2>4, ReadInt
  <2>6. told = Len(d.list) - Len(after.list)
    BY <2>3, <2>5
  <2> HIDE DEF after, told
  <2> QED
    BY <1>3, <2>6 DEF PromisedList, after, told
<1>4. ASSUME cmd.name \in {"LPOP", "RPOP", "RPOPLPUSH"}
      PROVE  cmd.read = "string" /\ OnList(d, cmd) = Taken(d, cmd)
  BY <1>4, CommandForm DEF OnList
<1>5. CASE cmd.name \in {"LPOP", "RPOP", "RPOPLPUSH"} /\ l = <<>>
  <2>1. after = d /\ reply = Nil
    BY <1>4, <1>5 DEF Taken, Applied
  <2>2. told = Empty
    BY <1>4, <1>5, <2>1 DEF Read, getString, isString, Nil
  <2> HIDE DEF after, told
  <2> QED
    BY <1>5, <2>1, <2>2 DEF PromisedList, after, told
<1>6. CASE cmd.name = "LPOP" /\ l # <<>>
  <2>1. after.list = Tail(l) /\ reply = Str(Head(l))
    BY <1>0, <1>4, <1>6 DEF Taken, Applied, Data
  <2>2. told = Head(l)
    BY <1>4, <1>6, <2>1 DEF Read, getString, isString, Str
  <2>3. l = <<Head(l)>> \o Tail(l)
    BY <1>0, <1>6
  <2> HIDE DEF after, told
  <2> QED
    BY <1>6, <2>1, <2>2, <2>3 DEF PromisedList, after, told
<1>7. CASE cmd.name = "RPOP" /\ l # <<>>
  <2>1. after.list = Front(l) /\ reply = Str(Last(l))
    BY <1>0, <1>4, <1>7 DEF Taken, Applied, Data
  <2>2. told = Last(l)
    BY <1>4, <1>7, <2>1 DEF Read, getString, isString, Str
  <2>3. l = Append(Front(l), Last(l))
    BY <1>0, <1>7 DEF Front, Last
  <2> HIDE DEF after, told
  <2> QED
    BY <1>7, <2>1, <2>2, <2>3 DEF PromisedList, after, told
<1>8. CASE cmd.name = "RPOPLPUSH" /\ l # <<>>
  <2>1. after.list = <<Last(l)>> \o Front(l) /\ reply = Str(Last(l))
    BY <1>0, <1>4, <1>8 DEF Taken, Applied, Data
  <2>2. told = Last(l)
    BY <1>4, <1>8, <2>1 DEF Read, getString, isString, Str
  <2> HIDE DEF after, told
  <2> QED
    BY <1>8, <2>1, <2>2 DEF PromisedList, after, told
<1>9. CASE cmd.name = "LLEN"
  <2>1. after = d /\ reply = Number(Len(l)) /\ cmd.read = "int"
    BY <1>9, CommandForm DEF OnList, Applied
  <2>2. told = Len(after.list)
    BY <2>1, ReadInt
  <2> HIDE DEF after, told
  <2> QED
    BY <1>9, <2>2 DEF PromisedList, after, told
<1> QED
  BY <1>1, <1>2, <1>3, <1>5, <1>6, <1>7, <1>8, <1>9

LEMMA KeysTold ==
    ASSUME NEW d \in Store, NEW cmd \in Commands,
           cmd.name \in {"EXISTS", "EXPIRE", "TTL", "GET", "MGET", "SET", "SETNX", "DEL"}
    PROVE  PromisedKeys(cmd, Read(cmd, OnKeys(d, cmd).reply), d, OnKeys(d, cmd).data)
<1> DEFINE after == OnKeys(d, cmd).data
<1> DEFINE reply == OnKeys(d, cmd).reply
<1> DEFINE told == Read(cmd, reply)
<1>0. d \in Data
  BY DEF Store
<1>1. CASE cmd.name = "DEL"
  <2>1. after.keys = d.keys \ cmd.arg /\ reply = Number(Cardinality(d.keys \cap cmd.arg))
    BY <1>0, <1>1 DEF OnKeys, Applied, Data
  <2>2. told = Cardinality(d.keys \cap cmd.arg)
    <3>1. cmd.read = "int"
      BY <1>1, CommandForm
    <3> QED
      BY <2>1, <3>1, ReadInt
  <2> HIDE DEF after, told
  <2>3. d.keys \cap cmd.arg = d.keys \ after.keys /\ cmd.arg \cap after.keys = {}
    BY <2>1
  <2> QED
    BY <1>1, <2>2, <2>3 DEF PromisedKeys, after, told
<1>2. CASE cmd.name \in {"EXISTS", "EXPIRE"}
  <2>1. after = d /\ reply = Number(IF cmd.arg \in d.keys THEN 1 ELSE 0)
    BY <1>2 DEF OnKeys, Applied
  <2>2. cmd.read = "one"
    BY <1>2, CommandForm
  <2>3. told = (getInt(reply) = 1)
    BY <2>2 DEF Read
  <2>4. (getInt(reply) = 1) = (cmd.arg \in d.keys)
    BY <2>1 DEF getInt, isInteger, Number
  <2>5. told = (cmd.arg \in after.keys)
    BY <2>1, <2>3, <2>4
  <2> HIDE DEF after, told
  <2> QED
    BY <1>2, <2>5 DEF PromisedKeys, after, told
<1>3. CASE cmd.name = "SET"
  <2>1. after.keys = d.keys \cup {cmd.arg} /\ reply = Status
    BY <1>0, <1>3 DEF OnKeys, Applied, Data
  <2>2. told = ~isError(reply)
    <3>1. cmd.read = "done"
      BY <1>3, CommandForm
    <3> QED
      BY <3>1 DEF Read
  <2>4. ~isError(reply)
    BY <2>1 DEF isError, Status
  <2>3. cmd.arg \in after.keys
    BY <2>1
  <2> HIDE DEF after, told
  <2> QED
    BY <1>3, <2>2, <2>3, <2>4 DEF PromisedKeys, after, told
<1>4. CASE cmd.name = "MGET"
  <2>1. cmd.arg \in Seq(Keys) /\ cmd.read = "strings"
    BY <1>4, CommandForm
  <2> DEFINE e == [i \in DOMAIN cmd.arg |-> IF cmd.arg[i] \in d.keys THEN Str(Full) ELSE Nil]
  <2>2. after = d /\ reply = Arr(e)
    BY <1>4 DEF OnKeys, Applied
  <2>3. told = Strings(Arr(e))
    BY <2>1, <2>2 DEF Read
  <2>4. told = [i \in DOMAIN e |-> getString(e[i])]
    BY <2>3 DEF Strings, Arr, isArray
  <2>5. \A i \in DOMAIN cmd.arg : getString(e[i]) = IF cmd.arg[i] \in d.keys THEN Full ELSE Empty
    BY DEF getString, isString, Str, Nil
  <2>9. DOMAIN e = 1 .. Len(cmd.arg) /\ DOMAIN cmd.arg = 1 .. Len(cmd.arg)
    BY <2>1
  <2> HIDE DEF after, told, e
  <2>6. told = [i \in DOMAIN cmd.arg |-> IF cmd.arg[i] \in after.keys THEN Full ELSE Empty]
    BY <2>2, <2>4, <2>5, <2>9
  <2> QED
    BY <1>4, <2>6 DEF PromisedKeys, after, told
<1>5. CASE cmd.name = "TTL"
  <2>1. after = d /\ reply = Number((IF cmd.arg \in d.keys THEN 1 ELSE 0) - 2)
    BY <1>5 DEF OnKeys, Applied
  <2>2. told = (IF cmd.arg \in d.keys THEN 1 ELSE 0) - 2
    <3>1. cmd.read = "int"
      BY <1>5, CommandForm
    <3> QED
      BY <2>1, <3>1, ReadInt
  <2>3. (told = -2) <=> (cmd.arg \notin after.keys)
    BY <2>1, <2>2
  <2> HIDE DEF after, told
  <2> QED
    BY <1>5, <2>3 DEF PromisedKeys, after, told
<1>6. CASE cmd.name = "GET"
  <2>1. after = d /\ reply = IF cmd.arg \in d.keys THEN Str(Full) ELSE Nil
    BY <1>6 DEF OnKeys, Applied
  <2>2. cmd.read = "string"
    BY <1>6, CommandForm
  <2>3. told = IF cmd.arg \in after.keys THEN Full ELSE Empty
    BY <2>1, <2>2 DEF Read, getString, isString, Str, Nil
  <2> HIDE DEF after, told
  <2> QED
    BY <1>6, <2>3 DEF PromisedKeys, after, told
<1>7. CASE cmd.name = "SETNX"
  <2>1. after.keys = d.keys \cup {cmd.arg}
    BY <1>0, <1>7 DEF OnKeys, Applied, Data
  <2>2. cmd.arg \in after.keys
    BY <2>1
  <2> HIDE DEF after, told
  <2> QED
    BY <1>7, <2>2 DEF PromisedKeys, after, told
<1> QED
  BY <1>1, <1>2, <1>3, <1>4, <1>5, <1>6, <1>7

\* ADD and REM on one of the two kinds of container.
LEMMA FieldsTold ==
    ASSUME NEW d \in Store, NEW cmd \in Commands,
           cmd.name \in {"ADD", "REM", "CARD", "HGET", "SPOP"}
    PROVE  PromisedFields(cmd, Read(cmd, OnFields(d, cmd).reply), d, OnFields(d, cmd).data)
<1> DEFINE after == OnFields(d, cmd).data
<1> DEFINE reply == OnFields(d, cmd).reply
<1> DEFINE told == Read(cmd, reply)
<1>0. d \in Data
  BY DEF Store
<1>1. CASE cmd.name = "ADD"
  <2> DEFINE k == cmd.arg.kind
  <2>1. k \in {"set", "hash"} /\ cmd.read = "int"
    BY <1>1, CommandForm DEF Kinds
  <2>2. after[k] = d[k] \cup cmd.arg.fields
    BY <1>0, <1>1, <2>1 DEF OnFields, Applied, Data
  <2>3. told = Cardinality(cmd.arg.fields \ d[k])
    BY <1>1, <2>1 DEF OnFields, Applied, Read, getInt, isInteger, Number
  <2> HIDE DEF after, told, k
  <2>4. cmd.arg.fields \ d[k] = after[k] \ d[k] /\ cmd.arg.fields \subseteq after[k]
    BY <2>2
  <2> QED
    BY <1>1, <2>3, <2>4 DEF PromisedFields, after, told, k
<1>2. CASE cmd.name = "REM"
  <2> DEFINE k == cmd.arg.kind
  <2>1. k \in {"set", "hash"} /\ cmd.read = "int"
    BY <1>2, CommandForm DEF Kinds
  <2>2. after[k] = d[k] \ cmd.arg.fields
    BY <1>0, <1>2, <2>1 DEF OnFields, Applied, Data
  <2>3. told = Cardinality(cmd.arg.fields \cap d[k])
    BY <1>2, <2>1 DEF OnFields, Applied, Read, getInt, isInteger, Number
  <2> HIDE DEF after, told, k
  <2>4. cmd.arg.fields \cap d[k] = d[k] \ after[k] /\ cmd.arg.fields \cap after[k] = {}
    BY <2>2
  <2> QED
    BY <1>2, <2>3, <2>4 DEF PromisedFields, after, told, k
<1>3. CASE cmd.name = "SPOP"
  <2> DEFINE all == SetToSeq(d.set)
  <2> DEFINE out == SubSeq(all, 1, IF cmd.arg < Len(all) THEN cmd.arg ELSE Len(all))
  <2>1. cmd.arg \in Nat /\ cmd.read = "members"
    BY <1>3, CommandForm
  <2>2. d.set \in SUBSET Items
    BY StoreFields
  <2>3. all \in Seq(d.set) /\ Range(all) = d.set
    BY <2>2, ItemsFinite, SetToSeqOf
  <2>4. after.set = d.set \ Range(out) /\ reply = Arr([i \in DOMAIN out |-> Str(out[i])])
    BY <1>0, <1>3 DEF OnFields, Applied, Data
  <2> HIDE DEF all
  <2>5. out \in Seq(d.set)
    <3> DEFINE n == IF cmd.arg < Len(all) THEN cmd.arg ELSE Len(all)
    <3>1. n \in Int /\ \A i \in 1 .. n : all[i] \in d.set
      BY <2>1, <2>3
    <3> HIDE DEF n
    <3>2. SubSeq(all, 1, n) \in Seq(d.set)
      <4>1. 1 \in Int
        OBVIOUS
      <4> QED
        BY <3>1, <4>1, SubSeqProperties, Zenon
    <3> QED
      BY <3>2 DEF n
  <2> HIDE DEF out
  <2>6. out \in Seq(Items) /\ Range(out) \subseteq d.set
    BY <2>2, <2>5 DEF Range
  <2>7. told = Range(out) \ {Empty}
    BY <2>1, <2>4, <2>6, MembersOf DEF Read
  <2> HIDE DEF after, told
  <2>8. told = (d.set \ after.set) \ {Empty}
    BY <2>4, <2>6, <2>7
  <2> QED
    BY <1>3, <2>8 DEF PromisedFields, after, told
<1>4. CASE cmd.name = "CARD"
  <2>1. after = d /\ reply = Number(Cardinality(d[cmd.arg])) /\ cmd.read = "int"
    BY <1>4, CommandForm DEF OnFields, Applied
  <2>2. told = Cardinality(after[cmd.arg])
    BY <2>1, ReadInt
  <2> HIDE DEF after, told
  <2> QED
    BY <1>4, <2>2 DEF PromisedFields, after, told
<1>5. CASE cmd.name = "HGET"
  <2>1. after = d /\ reply = IF cmd.arg \in d.hash THEN Str(Full) ELSE Nil
    BY <1>5 DEF OnFields, Applied
  <2>2. cmd.read = "string"
    BY <1>5, CommandForm
  <2>3. told = IF cmd.arg \in after.hash THEN Full ELSE Empty
    BY <2>1, <2>2 DEF Read, getString, isString, Str, Nil
  <2> HIDE DEF after, told
  <2> QED
    BY <1>5, <2>3 DEF PromisedFields, after, told
<1> QED
  BY <1>1, <1>2, <1>3, <1>4, <1>5

\* The members of a sorted set are as many as their names; so are those that
\* are taken out of it as the names that go.
LEMMA AsManyNames ==
    ASSUME NEW d \in Store, NEW out \in SUBSET d.zset
    PROVE  Cardinality(out) = Cardinality(Named(d.zset) \ Named(d.zset \ out))
<1> DEFINE gone == Named(d.zset) \ Named(d.zset \ out)
<1> DEFINE f == [m \in out |-> m[2]]
<1>0. /\ d.zset \in SUBSET ((1 .. 2) \X Items)
      /\ \A m, n \in d.zset : m[2] = n[2] => m = n
  BY DEF Store, Data
<1>1. gone \in SUBSET Items
  BY <1>0 DEF Named
<1>2. ASSUME NEW m \in out PROVE m[2] \in gone
  BY <1>0 DEF Named
<1>3. ASSUME NEW v \in gone PROVE \E m \in out : m[2] = v
  BY <1>0 DEF Named
<1> HIDE DEF gone
<1>4. f \in [out -> gone]
  BY <1>2
<1>5. f \in Injection(out, gone)
  BY <1>0, <1>4 DEF Injection, IsInjective
<1>6. f \in Surjection(out, gone)
  BY <1>3, <1>4 DEF Surjection
<1> HIDE DEF f
<1>7. Cardinality(out) = Cardinality(gone)
  BY <1>1, <1>5, <1>6, ItemsFinite, FS_Injection
<1> QED
  BY <1>7 DEF gone

\* The names that ZADD adds are those of what it was given.
LEMMA AddedTold ==
    ASSUME NEW d \in Store, NEW cmd \in Commands, cmd.name = "ZADD",
           ~isError(Added(d, cmd).reply)
    PROVE  PromisedScores(cmd, Read(cmd, Added(d, cmd).reply), d, Added(d, cmd).data)
<1> DEFINE given == {<<cmd.arg.score, v>> : v \in Eligible(d, cmd.arg)}
<1> DEFINE Z == {m \in d.zset : m[2] \notin Named(given)} \cup given
<1> DEFINE count == Cardinality(IF "CH" \in cmd.arg.options
                                  THEN given \ d.zset ELSE Named(given) \ Named(d.zset))
<1> DEFINE after == Added(d, cmd).data
<1> DEFINE told == Read(cmd, Added(d, cmd).reply)
<1>1. ~({"XX", "NX"} \subseteq cmd.arg.options)
  BY DEF Added, Applied, isError, Error
<1>2. Added(d, cmd) = Applied([d EXCEPT !.zset = Z], Number(count))
  BY <1>1 DEF Added
<1>3. after.zset = Z
  BY <1>2 DEF Applied, Store, Data
<1>4. told = count
  <2>1. cmd.read = "int"
    BY CommandForm
  <2>2. Added(d, cmd).reply = Number(count)
    BY <1>2 DEF Applied
  <2> HIDE DEF count
  <2> QED
    BY <2>1, <2>2, ReadInt
<1>5. Z \ d.zset = given \ d.zset
  OBVIOUS
<1>6. Named(Z) \ Named(d.zset) = Named(given) \ Named(d.zset)
  <2> HIDE DEF given
  <2> QED
    BY DEF Named
<1> HIDE DEF after, told, Z, given
<1> QED
  BY <1>3, <1>4, <1>5, <1>6 DEF PromisedScores, after, told

LEMMA ScoresTold ==
    ASSUME NEW d \in Store, NEW cmd \in Commands,
           cmd.name \in {"ZADD", "ZRANGEBYSCORE", "ZREMRANGEBYSCORE", "ZREM", "ZCARD"},
           ~isError(OnScores(d, cmd).reply)
    PROVE  PromisedScores(cmd, Read(cmd, OnScores(d, cmd).reply), d, OnScores(d, cmd).data)
<1> DEFINE after == OnScores(d, cmd).data
<1> DEFINE reply == OnScores(d, cmd).reply
<1> DEFINE told == Read(cmd, reply)
<1>0. d \in Data /\ d.zset \in SUBSET ((1 .. 2) \X Items)
  BY DEF Store, Data
<1>1. CASE cmd.name = "ZADD"
  <2>1. OnScores(d, cmd) = Added(d, cmd)
    BY <1>1 DEF OnScores
  <2> QED
    BY <1>1, <2>1, AddedTold
<1>2. CASE cmd.name = "ZRANGEBYSCORE"
  <2> DEFINE V == Named(Sliced(d.zset, cmd.arg))
  <2> DEFINE of == SetToSeq(V)
  <2>1. after = d /\ reply = Arr([i \in DOMAIN of |-> Str(of[i])])
    BY <1>2 DEF OnScores, Applied
  <2>2. V \in SUBSET Items
    <3>1. Sliced(d.zset, cmd.arg) \subseteq d.zset
      BY DEF Sliced
    <3> QED
      BY <1>0, <3>1 DEF Named
  <2> HIDE DEF V
  <2>3. of \in Seq(V) /\ Range(of) = V
    BY <2>2, ItemsFinite, SetToSeqOf
  <2> HIDE DEF of
  <2>4. of \in Seq(Items)
    BY <2>2, <2>3
  <2>5. told = V \ {Empty}
    BY <1>2, <2>1, <2>3, <2>4, MembersOf, CommandForm DEF Read
  <2>6. told = Named(Sliced(after.zset, cmd.arg)) \ {Empty}
    BY <2>1, <2>5 DEF V
  <2> HIDE DEF after, told
  <2> QED
    BY <1>2, <2>6 DEF PromisedScores, after, told
<1>3. CASE cmd.name = "ZREMRANGEBYSCORE"
  <2> DEFINE in == {m \in d.zset : Within(m[1], cmd.arg)}
  <2>1. after.zset = d.zset \ in /\ reply = Number(Cardinality(in))
    BY <1>0, <1>3 DEF OnScores, Applied, Data
  <2>2. told = Cardinality(in)
    <3>1. cmd.read = "int"
      BY <1>3, CommandForm
    <3> QED
      BY <2>1, <3>1, ReadInt
  <2>3. in \in SUBSET d.zset
    OBVIOUS
  <2> HIDE DEF after, told, reply, in
  <2>4. told = Cardinality(Named(d.zset) \ Named(after.zset))
    BY <2>1, <2>2, <2>3, AsManyNames
  <2> QED
    BY <1>3, <2>4 DEF PromisedScores, after, told, reply
<1>4. CASE cmd.name = "ZREM"
  <2> DEFINE out == {m \in d.zset : m[2] \in cmd.arg.fields}
  <2>1. after.zset = d.zset \ out /\ reply = Number(Cardinality(out))
    BY <1>0, <1>4 DEF OnScores, Applied, Data
  <2>2. told = Cardinality(out)
    <3>1. cmd.read = "int"
      BY <1>4, CommandForm
    <3> QED
      BY <2>1, <3>1, ReadInt
  <2>3. out \in SUBSET d.zset
    OBVIOUS
  <2>4. cmd.arg.fields \cap Named(d.zset \ out) = {}
    BY DEF Named
  <2> HIDE DEF after, told, reply, out
  <2>5. told = Cardinality(Named(d.zset) \ Named(after.zset))
    BY <2>1, <2>2, <2>3, AsManyNames
  <2>6. cmd.arg.fields \cap Named(after.zset) = {}
    BY <2>1, <2>4
  <2> QED
    BY <1>4, <2>5, <2>6 DEF PromisedScores, after, told, reply
<1>5. CASE cmd.name = "ZCARD"
  <2>1. after = d /\ reply = Number(Cardinality(d.zset)) /\ cmd.read = "int"
    BY <1>5, CommandForm DEF OnScores, Applied
  <2>2. told = Cardinality(d.zset)
    BY <2>1, ReadInt
  <2>3. Named(d.zset \ d.zset) = {}
    BY DEF Named
  <2>4. Cardinality(d.zset) = Cardinality(Named(d.zset) \ Named(d.zset \ d.zset))
    BY AsManyNames
  <2>5. told = Cardinality(Named(after.zset))
    BY <2>1, <2>2, <2>3, <2>4
  <2> HIDE DEF after, told
  <2> QED
    BY <1>5, <2>5 DEF PromisedScores, after, told, reply
<1> QED
  BY <1>1, <1>2, <1>3, <1>4, <1>5

LEMMA NotOne == 0 # 1
  OBVIOUS

LEMMA ScriptTold ==
    ASSUME NEW d \in Store, NEW cmd \in Commands,
           cmd.name \in {"SCRIPT LOAD", "SCRIPT EXISTS", "EVALSHA"},
           ~isError(OnScript(d, cmd).reply)
    PROVE  PromisedScript(cmd, Read(cmd, OnScript(d, cmd).reply), d, OnScript(d, cmd).data)
<1> DEFINE after == OnScript(d, cmd).data
<1> DEFINE reply == OnScript(d, cmd).reply
<1> DEFINE told == Read(cmd, reply)
<1>1. CASE cmd.name = "SCRIPT LOAD"
  <2>1. after.script /\ reply = Str(Full)
    BY <1>1 DEF OnScript, Applied, Store, Data
  <2>2. cmd.read = "string"
    BY <1>1, CommandForm
  <2>3. getString(Str(Full)) = Full
    BY DEF getString, isString, Str
  <2>4. told = getString(reply)
    BY <2>2 DEF Read
  <2> HIDE DEF after, told, reply
  <2>5. told = Full
    BY <2>1, <2>3, <2>4
  <2>6. PromisedScript(cmd, told, d, after)
    BY <1>1, <2>1, <2>5 DEF PromisedScript
  <2> QED
    BY <2>6 DEF told, after, reply
<1>2. CASE cmd.name = "SCRIPT EXISTS"
  <2>1. cmd.read = "one" /\ reply.type = "ARRAY"
    BY <1>2, CommandForm DEF OnScript, Applied, Arr
  <2>2. told = (getInt(reply) = 1)
    BY <2>1 DEF Read
  <2> HIDE DEF after, told, reply
  <2>3. ~isInteger(reply)
    BY <2>1 DEF isInteger
  <2>4. getInt(reply) # 1
    <3>1. getInt(reply) = 0
      BY <2>3, Zenon DEF getInt
    <3> QED
      BY <3>1, NotOne, Zenon
  <2>5. ~told
    BY <2>2, <2>4, Zenon
  <2>6. PromisedScript(cmd, told, d, after)
    BY <1>2, <2>5 DEF PromisedScript
  <2> QED
    BY <2>6 DEF told, after, reply
<1>3. CASE cmd.name = "EVALSHA"
  <2>1. ~d.script => isError(reply)
    BY <1>3 DEF OnScript, Applied, isError, Error
  <2>2. d.script
    BY <2>1
  <2>3. cmd.read = "done"
    BY <1>3, CommandForm
  <2>4. told = ~isError(reply)
    BY <2>3 DEF Read
  <2>5. told
    BY <2>4
  <2> HIDE DEF after, told
  <2> QED
    BY <1>3, <2>2, <2>5 DEF PromisedScript, after, told
<1> QED
  BY <1>1, <1>2, <1>3

\* A wrapper that gets a reply tells what the command did.
LEMMA PromiseKept ==
    ASSUME NEW d \in Store, NEW cmd \in Commands,
           ~NothingToDo(cmd), ~isError(Apply(d, cmd).reply)
    PROVE  Promised(cmd, Read(cmd, Apply(d, cmd).reply), d, Apply(d, cmd).data)
<1> DEFINE told == Read(cmd, Apply(d, cmd).reply)
<1> DEFINE after == Apply(d, cmd).data
<1>1. CASE cmd.name \in {"EXISTS", "EXPIRE", "TTL", "GET", "MGET", "SET", "SETNX", "DEL"}
  <2>1. Apply(d, cmd) = OnKeys(d, cmd)
    BY <1>1 DEF Apply
  <2>2. PromisedKeys(cmd, told, d, after)
    BY <1>1, <2>1, KeysTold
  <2> HIDE DEF told, after
  <2> QED
    BY <1>1, <2>2 DEF Promised, told, after
<1>2. CASE cmd.name \in {"LPUSH", "RPUSH", "LLEN", "LREM", "LPOP", "RPOP", "RPOPLPUSH"}
  <2>1. Apply(d, cmd) = OnList(d, cmd)
    BY <1>2 DEF Apply
  <2>2. PromisedList(cmd, told, d, after)
    BY <1>2, <2>1, ListTold
  <2> HIDE DEF told, after
  <2> QED
    BY <1>2, <2>2 DEF Promised, told, after
<1>3. CASE cmd.name \in {"ADD", "REM", "CARD", "HGET", "SPOP"}
  <2>1. Apply(d, cmd) = OnFields(d, cmd)
    BY <1>3 DEF Apply
  <2>2. PromisedFields(cmd, told, d, after)
    BY <1>3, <2>1, FieldsTold
  <2> HIDE DEF told, after
  <2> QED
    BY <1>3, <2>2 DEF Promised, told, after
<1>4. CASE cmd.name \in {"ZADD", "ZRANGEBYSCORE", "ZREMRANGEBYSCORE", "ZREM", "ZCARD"}
  <2>1. Apply(d, cmd) = OnScores(d, cmd)
    BY <1>4 DEF Apply
  <2>2. PromisedScores(cmd, told, d, after)
    BY <1>4, <2>1, ScoresTold
  <2> HIDE DEF told, after
  <2> QED
    BY <1>4, <2>2 DEF Promised, told, after
<1>5. CASE cmd.name \in {"SCRIPT LOAD", "SCRIPT EXISTS", "EVALSHA"}
  <2>1. Apply(d, cmd) = OnScript(d, cmd)
    BY <1>5 DEF Apply
  <2>2. PromisedScript(cmd, told, d, after)
    BY <1>5, <2>1, ScriptTold
  <2> HIDE DEF told, after
  <2> QED
    BY <1>5, <2>2 DEF Promised, told, after
<1> QED
  BY <1>1, <1>2, <1>3, <1>4, <1>5, CommandForm

\* One that is given nothing to do tells that nothing was done.
LEMMA NothingTold ==
    ASSUME NEW d \in Store, NEW cmd \in Commands, NothingToDo(cmd)
    PROVE  Promised(cmd, Nothing(cmd), d, d)
<1> DEFINE told == Nothing(cmd)
<1>0. \A S : S \ S = {} /\ Cardinality({}) = 0
  BY FS_EmptySet
<1>1. CASE cmd.name = "DEL"
  <2>1. told = 0 /\ cmd.arg = {}
    BY <1>1, CommandForm DEF Nothing, NothingToDo
  <2> HIDE DEF told
  <2> QED
    BY <1>0, <1>1, <2>1 DEF Promised, PromisedKeys, told
<1>2. CASE cmd.name = "MGET"
  <2>1. told = <<>> /\ cmd.arg = <<>>
    BY <1>2, CommandForm DEF Nothing, NothingToDo
  <2>2. told = [i \in DOMAIN cmd.arg |-> IF cmd.arg[i] \in d.keys THEN Full ELSE Empty]
    BY <2>1
  <2> HIDE DEF told
  <2> QED
    BY <1>2, <2>2 DEF Promised, PromisedKeys, told
<1>3. CASE cmd.name \in {"LPUSH", "RPUSH"}
  <2>1. told = 0 /\ cmd.arg = <<>>
    BY <1>3, CommandForm DEF Nothing, NothingToDo
  <2>2. Range(cmd.arg) = {}
    BY <2>1 DEF Range
  <2> HIDE DEF told
  <2> QED
    BY <1>3, <2>1, <2>2 DEF Promised, PromisedList, told
<1>4. CASE cmd.name \in {"ADD", "REM"}
  <2>1. told = 0 /\ cmd.arg.fields = {}
    BY <1>4, CommandForm DEF Nothing, NothingToDo
  <2> HIDE DEF told
  <2> QED
    BY <1>0, <1>4, <2>1 DEF Promised, PromisedFields, told
<1>5. CASE cmd.name = "SPOP"
  <2>1. told = {}
    BY <1>5, CommandForm DEF Nothing
  <2> HIDE DEF told
  <2> QED
    BY <1>0, <1>5, <2>1 DEF Promised, PromisedFields, told
<1>6. CASE cmd.name \in {"ZADD", "ZREM"}
  <2>1. told = 0 /\ cmd.arg.fields = {}
    BY <1>6, CommandForm DEF Nothing, NothingToDo
  <2> HIDE DEF told
  <2> QED
    BY <1>0, <1>6, <2>1 DEF Promised, PromisedScores, told
<1> QED
  BY <1>1, <1>2, <1>3, <1>4, <1>5, <1>6 DEF NothingToDo

-----------------------------------------------------------------------------
(* The server on a connection.                                             *)

Plain(cmd) == cmd.name \notin {"MULTI", "EXEC", "DISCARD"}

\* Outside MULTI a command is refused, or executed at once.
LEMMA ServedAtOnce ==
    ASSUME NEW k \in Conns, conn[k] \in ConnType, ~conn[k].multi, ~conn[k].dirty,
           NEW at \in Int, NEW cmd, Plain(cmd), NEW refused \in BOOLEAN
    PROVE  LET s == Serve(k, at, cmd, refused) IN
           /\ s.conn = conn[k]
           /\ refused => s.data = data /\ s.reply = Error /\ s.ran = <<>>
           /\ ~refused => /\ s.data = Apply(data, cmd).data
                          /\ s.reply = Apply(data, cmd).reply
                          /\ s.ran = IF isError(Apply(data, cmd).reply) THEN <<>> ELSE <<at>>
<1>1. CASE refused
  <2> DEFINE b == [conn[k] EXCEPT !.dirty = @ \/ conn[k].multi]
  <2>1. Serve(k, at, cmd, refused) = [data |-> data, conn |-> b, reply |-> Error, ran |-> <<>>]
    BY <1>1 DEF Serve, Plain
  <2>2. b = conn[k]
    BY DEF ConnType
  <2> HIDE DEF b
  <2>3. /\ Serve(k, at, cmd, refused).conn = conn[k] /\ Serve(k, at, cmd, refused).data = data
        /\ Serve(k, at, cmd, refused).reply = Error /\ Serve(k, at, cmd, refused).ran = <<>>
    BY <2>1, <2>2
  <2> QED
    BY <1>1, <2>3, Zenon
<1>2. CASE ~refused
  <2>1. Serve(k, at, cmd, refused) =
          [data |-> Apply(data, cmd).data, conn |-> conn[k], reply |-> Apply(data, cmd).reply,
           ran |-> IF isError(Apply(data, cmd).reply) THEN <<>> ELSE <<at>>]
    BY <1>2 DEF Serve, Plain
  <2> QED
    BY <1>2, <2>1
<1> QED
  BY <1>1, <1>2

\* Inside MULTI it is refused, or queued with its place.
LEMMA ServedInMulti ==
    ASSUME NEW k \in Conns, conn[k] \in ConnType, conn[k].multi, ~conn[k].dirty,
           NEW at \in Int, NEW cmd \in Commands, NEW refused \in BOOLEAN
    PROVE  LET s == Serve(k, at, cmd, refused) IN
           /\ s.data = data /\ s.ran = <<>> /\ s.conn \in ConnType /\ s.conn.multi
           /\ isError(s.reply) <=> refused
           /\ ~refused => ~s.conn.dirty /\ s.conn.queue = Append(conn[k].queue, Queued(at, cmd))
<1>1. Plain(cmd)
  BY CommandForm DEF Plain
<1>2. CASE refused
  <2> DEFINE b == [conn[k] EXCEPT !.dirty = @ \/ conn[k].multi]
  <2>1. Serve(k, at, cmd, refused) = [data |-> data, conn |-> b, reply |-> Error, ran |-> <<>>]
    BY <1>1, <1>2 DEF Serve, Plain
  <2>2. b \in ConnType /\ b.multi
    BY DEF ConnType
  <2> HIDE DEF b
  <2>3. /\ Serve(k, at, cmd, refused).conn = b /\ Serve(k, at, cmd, refused).data = data
        /\ Serve(k, at, cmd, refused).reply = Error /\ Serve(k, at, cmd, refused).ran = <<>>
    BY <2>1
  <2>4. isError(Error)
    BY DEF isError, Error
  <2> QED
    BY <1>2, <2>2, <2>3, <2>4, Zenon
<1>3. CASE ~refused
  <2> DEFINE new == Append(conn[k].queue, Queued(at, cmd))
  <2> DEFINE q == [conn[k] EXCEPT !.queue = new]
  <2>1. Serve(k, at, cmd, refused) = [data |-> data, conn |-> q, reply |-> Status, ran |-> <<>>]
    BY <1>1, <1>3 DEF Serve, Plain
  <2>2. new \in Queue
    <3>1. conn[k].queue \in Queue /\ Queued(at, cmd) \in [at : Int, cmd : Commands]
      BY DEF ConnType, Queued
    <3> DEFINE X == [at : Int, cmd : Commands]
    <3> DEFINE queue == conn[k].queue
    <3> DEFINE last == Queued(at, cmd)
    <3>2. queue \in Seq(X) /\ last \in X
      BY <3>1 DEF Queue
    <3> HIDE DEF X, queue, last
    <3>3. Append(queue, last) \in Seq(X)
      BY <3>2, AppendProperties
    <3> QED
      BY <3>3 DEF Queue, X, queue, last
  <2> HIDE DEF new
  <2>3. q \in ConnType /\ q.multi /\ ~q.dirty /\ q.queue = new
    BY <2>2 DEF ConnType
  <2> HIDE DEF q
  <2>4. ~isError(Status)
    BY DEF isError, Status
  <2>5. /\ Serve(k, at, cmd, refused).conn = q /\ Serve(k, at, cmd, refused).data = data
        /\ Serve(k, at, cmd, refused).reply = Status /\ Serve(k, at, cmd, refused).ran = <<>>
    BY <2>1
  <2> QED
    BY <1>3, <2>3, <2>4, <2>5, Zenon DEF new
<1> QED
  BY <1>2, <1>3

LEMMA CleanType == Clean \in ConnType
<1>1. <<>> \in Queue
  BY DEF Queue
<1> QED
  BY <1>1 DEF Clean, ConnType

LEMMA ServedMulti ==
    ASSUME NEW k \in Conns, conn[k] = Clean, NEW at \in Int, NEW refused \in BOOLEAN
    PROVE  LET s == Serve(k, at, Multi, refused) IN
           /\ s.data = data /\ s.ran = <<>> /\ s.conn \in ConnType
           /\ s.conn.multi /\ ~s.conn.dirty /\ s.conn.queue = <<>>
<1> DEFINE to == [Clean EXCEPT !.multi = TRUE]
<1>1. Serve(k, at, Multi, refused) = [data |-> data, conn |-> to, reply |-> Status, ran |-> <<>>]
  BY DEF Serve, Multi, Cmd
<1>2. to \in ConnType /\ to.multi /\ ~to.dirty /\ to.queue = <<>>
  <2>1. Clean.queue = <<>> /\ ~Clean.dirty
    BY DEF Clean
  <2> QED
    BY <2>1, CleanType DEF ConnType
<1> HIDE DEF to
<1>3. /\ Serve(k, at, Multi, refused).conn = to /\ Serve(k, at, Multi, refused).data = data
      /\ Serve(k, at, Multi, refused).ran = <<>>
  BY <1>1
<1> QED
  BY <1>2, <1>3, Zenon

LEMMA ServedDiscard ==
    ASSUME NEW k \in Conns, NEW at \in Int, NEW refused \in BOOLEAN
    PROVE  LET s == Serve(k, at, Discard, refused) IN
           s.data = data /\ s.ran = <<>> /\ s.conn = Clean
  BY DEF Serve, Discard, Cmd

\* How often the server ran the command at a place.
LEMMA TimesNat ==
    ASSUME NEW ran \in Seq(Int), NEW i \in Int
    PROVE  Times(ran, i) \in Nat
<1> DEFINE at == {j \in DOMAIN ran : ran[j] = i}
<1>1. IsFiniteSet(1 .. Len(ran)) /\ DOMAIN ran = 1 .. Len(ran)
  BY FS_Interval
<1>2. IsFiniteSet(at)
  BY <1>1, FS_Subset
<1> HIDE DEF at
<1>3. Cardinality(at) \in Nat
  BY <1>2, FS_CardinalityType
<1> QED
  BY <1>3 DEF Times, at

LEMMA TimesNone ==
    ASSUME NEW i
    PROVE  Times(<<>>, i) = 0
<1>1. {j \in DOMAIN <<>> : <<>>[j] = i} = {}
  OBVIOUS
<1> QED
  BY <1>1, FS_EmptySet DEF Times

\* All of a queue with the places 1 .. Len was run once.
LEMMA TimesAll ==
    ASSUME NEW ran \in Seq(Int), \A j \in 1 .. Len(ran) : ran[j] = j, NEW i \in 1 .. Len(ran)
    PROVE  Times(ran, i) = 1
<1>1. {j \in DOMAIN ran : ran[j] = i} = {i}
  OBVIOUS
<1> QED
  BY <1>1, FS_Singleton DEF Times

LEMMA ServedExec ==
    ASSUME NEW k \in Conns, conn[k] \in ConnType, conn[k].multi, ~conn[k].dirty,
           \A i \in 1 .. Len(conn[k].queue) : conn[k].queue[i].at = i,
           data \in Store, NEW at \in Int, NEW refused \in BOOLEAN
    PROVE  LET s == Serve(k, at, Exec, refused) IN
           /\ s.data \in Store /\ s.conn = Clean /\ ~isError(s.reply)
           /\ s.ran \in Seq(Int) /\ Len(s.ran) = Len(conn[k].queue)
           /\ \A i \in 1 .. Len(s.ran) : s.ran[i] = i
<1> DEFINE queue == conn[k].queue
<1> DEFINE ran == [j \in DOMAIN queue |-> queue[j].at]
<1>1. Serve(k, at, Exec, refused) = [data |-> AfterAll(data, queue), conn |-> Clean,
                                     reply |-> Arr(queue), ran |-> ran]
  BY DEF Serve, Exec, Cmd
<1>2. queue \in Queue /\ \A i \in 1 .. Len(queue) : queue[i].at = i
  BY DEF ConnType
<1> HIDE DEF queue
<1>3. AfterAll(data, queue) \in Store
  BY <1>2, AfterAllData
<1>4. DOMAIN queue = 1 .. Len(queue) /\ Len(queue) \in Nat
  BY <1>2, LenProperties DEF Queue
<1>5. ran \in Seq(Int) /\ Len(ran) = Len(queue) /\ \A i \in 1 .. Len(ran) : ran[i] = i
  <2> DEFINE L == Len(queue)
  <2>1. L \in Nat /\ ran = [j \in 1 .. L |-> queue[j].at]
        /\ \A j \in 1 .. L : queue[j].at = j
    BY <1>2, <1>4
  <2> HIDE DEF L, ran
  <2>2. ran = [j \in 1 .. L |-> j]
    BY <2>1
  <2>3. ran \in Seq(Int) /\ Len(ran) = L /\ \A i \in 1 .. L : ran[i] = i
    BY <2>1, <2>2
  <2> QED
    BY <2>3 DEF L
<1> HIDE DEF ran
<1>6. ~isError(Arr(queue))
  BY DEF isError, Arr
<1>7. /\ Serve(k, at, Exec, refused).data = AfterAll(data, queue)
      /\ Serve(k, at, Exec, refused).conn = Clean
      /\ Serve(k, at, Exec, refused).reply = Arr(queue)
      /\ Serve(k, at, Exec, refused).ran = ran
  BY <1>1
<1> QED
  BY <1>3, <1>5, <1>6, <1>7, Zenon DEF queue

-----------------------------------------------------------------------------
(* One client at a time.                                                   *)

\* The step leaves client d alone, but for keys that go away.
Kept(d) ==
    /\ cl'[d] = cl[d] /\ rx'[d] = rx[d]
    /\ ghost'[d] \in History
    /\ ghost'[d].applied = ghost[d].applied /\ ghost'[d].lost = ghost[d].lost
    /\ ghost'[d].refused = ghost[d].refused
    /\ ghost'[d].before = ghost[d].before /\ ghost'[d].after = ghost[d].after
    /\ ghost'[d].deleted = ghost[d].deleted /\ ghost'[d].unheard = ghost[d].unheard
    /\ ghost'[d].steady \subseteq ghost[d].steady \cap data'.keys
    /\ Connected(d) => conn'[cl[d].conn] = conn[cl[d].conn]

LEMMA KeptHolds ==
    ASSUME NEW d \in Clients, Holds(d), Kept(d)
    PROVE  Holds(d)'
<1>1. Placed(d)'
  BY DEF Holds, Kept, Placed, Place, Connected
<1>2. (Connected(d) => Session(d, cl[d].conn))'
  BY DEF Holds, Kept, Session, Connected
<1>3. Once(d)' /\ InOrder(d)'
  <2>1. Once(d)'
    BY DEF Holds, Kept, Once
  <2>2. Connected(d)' <=> Connected(d)
    BY DEF Kept, Connected
  <2>3. Executed(d)' = Executed(d)
    BY <2>2 DEF Kept, Executed
  <2>4. \A i : Answers(d, i)' = Answers(d, i)
    BY DEF Kept, Answers
  <2>5. \A i : Earlier(d, i)' = Earlier(d, i)
    BY <2>3, <2>4 DEF Earlier
  <2> QED
    BY <2>1, <2>4, <2>5 DEF Holds, Kept, InOrder
<1>4. Exact(d)'
  <2>1. (Scanning(d))' \/ ~Scanning(d)
    BY DEF Kept, Scanning
  <2>2. (Deleting(d))' \/ ~Deleting(d)
    BY DEF Kept, Deleting
  <2>3. (ghost[d].steady \subseteq data.keys \cap Matching)'
    BY DEF Holds, Kept, Exact
  <2> QED
    BY <2>1, <2>2, <2>3 DEF Holds, Kept, Exact
<1>5. Truth(d)'
  BY DEF Holds, Kept, Truth, Done
<1> QED
  BY <1>1, <1>2, <1>3, <1>4, <1>5 DEF Holds

\* A step of client c keeps the invariant when it does so for c and the pool.
LEMMA OneClient ==
    ASSUME IInv, NEW c \in Clients,
           program' = program, data' \in Store,
           conn' \in [Conns -> ConnType], idle' \in SUBSET Conns,
           cl' = [x \in Clients |-> cl'[x]], cl'[c] \in CallType(cl'[c].told),
           rx' = [x \in Clients |-> rx'[x]], rx'[c] \in Locals,
           ghost' = [x \in Clients |-> ghost'[x]], ghost'[c] \in History,
           \A d \in Clients \ {c} : Kept(d),
           Pool', Holds(c)'
    PROVE  IInv'
<1>1. \A d \in Clients : Holds(d)'
  BY KeptHolds DEF IInv
<1>2. \A d \in Clients : cl'[d] \in CallType(cl'[d].told) /\ rx'[d] \in Locals /\ ghost'[d] \in History
  BY DEF IInv, Types, Kept
<1>3. Types'
  BY <1>2 DEF IInv, Types
<1> QED
  BY <1>1, <1>3 DEF IInv

\* The connection of c stays with it, is dropped, or goes back clean.
LEMMA PoolStep ==
    ASSUME IInv, NEW c \in Clients, Connected(c),
           conn' = [conn EXCEPT ![cl[c].conn] = conn'[cl[c].conn]],
           \A d \in Clients \ {c} : cl'[d] = cl[d],
           \/ /\ cl'[c].conn = cl[c].conn /\ idle' = idle
              /\ cl'[c].state = "run" /\ cl'[c].tries > 0
           \/ cl'[c].conn = NoConn /\ idle' = idle
           \/ /\ cl'[c].conn = NoConn /\ idle' = idle \cup {cl[c].conn}
              /\ conn'[cl[c].conn] = Clean
    PROVE  Pool' /\ idle' \in SUBSET Conns
<1> DEFINE k == cl[c].conn
<1>0. k \in Conns /\ k \notin idle /\ idle \subseteq Conns /\ conn \in [Conns -> ConnType]
  BY DEF IInv, Types, Pool, CallType, Connected
<1>1. \A j \in Conns : j # k => conn'[j] = conn[j]
  BY <1>0
<1>2. \A d \in Clients \ {c} : Connected(d) => cl[d].conn # k
  BY DEF IInv, Pool, Connected
<1>3. \A j \in idle' : conn'[j] = Clean
  BY <1>0, <1>1 DEF IInv, Pool
<1>4. ASSUME NEW d \in Clients, Connected(d)'
      PROVE  /\ cl'[d].conn \notin idle'
             /\ cl'[d].state = "run" /\ cl'[d].tries > 0
             /\ \A e \in Clients : cl'[e].conn = cl'[d].conn => e = d
  <2>1. CASE d = c
    BY <1>0, <1>2, <1>4, <2>1 DEF Connected
  <2>2. CASE d # c
    <3>1. cl'[d] = cl[d] /\ Connected(d) /\ cl[d].conn # k
      BY <1>2, <1>4, <2>2 DEF Connected
    <3>2. /\ cl[d].conn \notin idle /\ cl[d].state = "run" /\ cl[d].tries > 0
          /\ \A e \in Clients : cl[e].conn = cl[d].conn => e = d
      BY <3>1 DEF IInv, Pool
    <3>3. cl[d].conn # NoConn
      BY <3>1 DEF Connected
    <3> QED
      BY <2>2, <3>1, <3>2, <3>3
  <2> QED
    BY <2>1, <2>2
<1> QED
  BY <1>0, <1>3, <1>4 DEF Pool

\* A call stays where it was, has been broken off, or is over.
LEMMA CallFields ==
    ASSUME IInv, NEW c \in Clients
    PROVE  /\ cl[c].kind \in {"none", "command", "transaction", "pipeline", "removex"}
           /\ cl[c].cmds \in Seq(Commands \cup Scans(0 .. NKeys)) /\ cl[c].at \in Int
           /\ cl[c].tries \in 0 .. Retries /\ cl[c].conn \in Conns \cup {NoConn}
           /\ cl[c].state \in {"idle", "run", "done"}
           /\ cl[c].outcome \in {"none", "ok", "err", "threw", "caught", "nothing"}
           /\ cl[c].calls \in Nat
           /\ Connected(c) => /\ cl[c].conn \in Conns /\ conn[cl[c].conn] \in ConnType
                              /\ cl[c].state = "run" /\ cl[c].tries > 0
           /\ Retries \in Nat /\ NoConn \notin Conns
  BY RedisClientAssumption DEF IInv, Types, CallType, Pool, Connected

LEMMA HistoryFields ==
    ASSUME IInv, NEW c \in Clients
    PROVE  /\ ghost[c] \in History
           /\ ghost[c].applied \in Seq(Nat) /\ ghost[c].lost \in Nat
           /\ ghost[c].refused \in Seq(Nat)
           /\ ghost[c].steady \in SUBSET Keys /\ ghost[c].deleted \in Nat
           /\ ghost[c].unheard \in Nat
           /\ rx[c] \in Locals /\ rx[c].batch \in Nat /\ rx[c].cursor \in 0 .. NKeys
           /\ rx[c].prev \in Nat /\ rx[c].removed \in Nat /\ rx[c].found \in Nat
           /\ rx[c].loopGuard \in Nat
  BY DEF IInv, Types, History, Locals

-----------------------------------------------------------------------------
(* What a command that was sent does to the histories.                     *)

LEMMA KeysFinite ==
    ASSUME NEW K \in SUBSET Keys
    PROVE  IsFiniteSet(K) /\ Cardinality(K) \in Nat
<1>1. IsFiniteSet(Keys)
  BY FS_Interval, RedisCommandsAssumption DEF Keys
<1> QED
  BY <1>1, FS_Subset, FS_CardinalityType

\* How often a command was applied, after the server ran the commands at some places.
Grown(c, ran, i) == ghost[c].applied[i] + Times(ran, i)

\* What the execution of a command deletes for removex.
Deletes(c, d) == IF cl[c].kind = "removex" THEN Cardinality(data.keys \ d.keys) ELSE 0

LEMMA CountedFields ==
    ASSUME IInv, NEW c \in Clients, NEW s, s.data \in Store, s.ran \in Seq(Int)
    PROVE  LET h == Counted(c, s) IN
           /\ h \in History
           /\ h.lost = ghost[c].lost /\ h.steady = ghost[c].steady
           /\ h.unheard = ghost[c].unheard /\ h.refused = ghost[c].refused
           /\ h.deleted = ghost[c].deleted + Deletes(c, s.data) /\ Deletes(c, s.data) \in Nat
           /\ cl[c].kind = "command" => h.before = data /\ h.after = s.data
           /\ Len(h.applied) = Len(ghost[c].applied)
           /\ \A i \in 1 .. Len(ghost[c].applied) : h.applied[i] = Grown(c, s.ran, i)
<1> DEFINE g == ghost[c]
<1> DEFINE n == [i \in DOMAIN g.applied |-> g.applied[i] + Times(s.ran, i)]
<1> DEFINE b == IF cl[c].kind = "command" THEN data ELSE g.before
<1> DEFINE a == IF cl[c].kind = "command" THEN s.data ELSE g.after
<1> DEFINE e == IF cl[c].kind = "removex" THEN g.deleted + Cardinality(data.keys \ s.data.keys)
                                          ELSE g.deleted
<1>1. Counted(c, s) = [g EXCEPT !.applied = n, !.before = b, !.after = a, !.deleted = e]
  BY DEF Counted
<1>2. g \in History
  BY HistoryFields
<1>3. n \in Seq(Nat) /\ Len(n) = Len(g.applied)
      /\ \A i \in 1 .. Len(g.applied) : n[i] = Grown(c, s.ran, i)
  <2>1. g.applied \in Seq(Nat)
    BY HistoryFields
  <2>2. DOMAIN g.applied = 1 .. Len(g.applied) /\ \A i \in 1 .. Len(g.applied) : g.applied[i] \in Nat
    BY <2>1
  <2>3. ASSUME NEW i \in 1 .. Len(g.applied) PROVE n[i] = Grown(c, s.ran, i) /\ n[i] \in Nat
    <3>1. Times(s.ran, i) \in Nat
      <4> DEFINE ran == s.ran
      <4>1. ran \in Seq(Int) /\ i \in Int
        BY <2>1
      <4> HIDE DEF ran
      <4>2. Times(ran, i) \in Nat
        BY <4>1, TimesNat
      <4> QED
        BY <4>2 DEF ran
    <3>2. g.applied[i] \in Nat /\ n[i] = g.applied[i] + Times(s.ran, i)
      BY <2>2
    <3> HIDE DEF n
    <3> QED
      BY <3>1, <3>2 DEF Grown
  <2>4. \A i \in 1 .. Len(g.applied) : n[i] = Grown(c, s.ran, i)
    BY <2>3
  <2> DEFINE L == Len(g.applied)
  <2>5. L \in Nat /\ n \in [1 .. L -> Nat]
    <3>1. L \in Nat
      BY <2>1
    <3>2. n = [i \in 1 .. L |-> n[i]]
      BY <2>2
    <3> HIDE DEF n
    <3> QED
      BY <2>3, <3>1, <3>2
  <2> HIDE DEF n, L
  <2>6. n \in Seq(Nat) /\ Len(n) = L
    BY <2>5
  <2> QED
    BY <2>4, <2>6 DEF L
<1>4. data \in Data /\ s.data \in Data /\ data.keys \in SUBSET Keys
  BY StoreFields DEF IInv, Types, Store
<1>5. b \in Data \cup {0} /\ a \in Data \cup {0}
  BY <1>2, <1>4 DEF History
<1>6. Cardinality(data.keys \ s.data.keys) \in Nat
  <2>1. data.keys \ s.data.keys \in SUBSET Keys
    BY <1>4
  <2> QED
    BY <2>1, KeysFinite
<1>7. Deletes(c, s.data) \in Nat /\ e = g.deleted + Deletes(c, s.data) /\ e \in Nat
  BY <1>6, HistoryFields DEF Deletes
<1>8. cl[c].kind = "command" => b = data /\ a = s.data
  OBVIOUS
<1> HIDE DEF n, b, a, e, g
<1> DEFINE h == Counted(c, s)
<1>9. /\ h \in History /\ h.lost = g.lost /\ h.steady = g.steady /\ h.unheard = g.unheard
      /\ h.refused = g.refused /\ h.deleted = e /\ h.before = b /\ h.after = a /\ h.applied = n
  BY <1>1, <1>2, <1>3, <1>5, <1>7 DEF History
<1> HIDE DEF h
<1>10. /\ h \in History
       /\ h.lost = ghost[c].lost /\ h.steady = ghost[c].steady
       /\ h.unheard = ghost[c].unheard /\ h.refused = ghost[c].refused
       /\ h.deleted = ghost[c].deleted + Deletes(c, s.data) /\ Deletes(c, s.data) \in Nat
       /\ cl[c].kind = "command" => h.before = data /\ h.after = s.data
       /\ Len(h.applied) = Len(ghost[c].applied)
       /\ \A i \in 1 .. Len(ghost[c].applied) : h.applied[i] = Grown(c, s.ran, i)
  BY <1>3, <1>7, <1>8, <1>9 DEF g
<1> QED
  BY <1>10 DEF h

\* The server has executed what c sent, and c hears of it ...
Replied(c, s) ==
    /\ data' = s.data
    /\ conn' = [conn EXCEPT ![cl[c].conn] = s.conn]
    /\ ghost' = [Steady(s.data) EXCEPT ![c] =
                   [Counted(c, s) EXCEPT !.steady = @ \cap s.data.keys]]
    /\ UNCHANGED <<program, faults, adds>>

\* ... or not.
Unheard(c, s) ==
    /\ data' = s.data
    /\ conn' = [conn EXCEPT ![cl[c].conn] = Clean]
    /\ cl' = [cl EXCEPT ![c] = Broken(@)]
    /\ ghost' = [Steady(s.data) EXCEPT ![c] =
                   [Counted(c, s) EXCEPT !.steady = @ \cap s.data.keys,
                                         !.lost = IF s.ran # <<>> THEN @ + 1 ELSE @,
                                         !.unheard = @ + (Counted(c, s).deleted - ghost[c].deleted)]]
    /\ UNCHANGED <<program, idle, rx, adds>>

\* The history of c after that, with lost answers more and unheard deletions more.
Happened(c, s, lost, unheard) ==
    /\ ghost' = [x \in Clients |-> ghost'[x]] /\ ghost'[c] \in History
    /\ ghost'[c].lost = ghost[c].lost + lost
    /\ ghost'[c].unheard = ghost[c].unheard + unheard
    /\ ghost'[c].steady = ghost[c].steady \cap s.data.keys
    /\ ghost'[c].deleted = ghost[c].deleted + Deletes(c, s.data)
    /\ ghost'[c].refused = ghost[c].refused
    /\ Len(ghost'[c].applied) = Len(ghost[c].applied)
    /\ \A i \in 1 .. Len(ghost[c].applied) : ghost'[c].applied[i] = Grown(c, s.ran, i)

LEMMA RepliedHistory ==
    ASSUME IInv, NEW c \in Clients, NEW s, s.data \in Store, s.ran \in Seq(Int), Replied(c, s)
    PROVE  /\ Happened(c, s, 0, 0)
           /\ cl[c].kind = "command" => ghost'[c].before = data /\ ghost'[c].after = s.data
<1> DEFINE h == Counted(c, s)
<1>1. /\ h \in History
      /\ h.lost = ghost[c].lost /\ h.steady = ghost[c].steady
      /\ h.unheard = ghost[c].unheard /\ h.refused = ghost[c].refused
      /\ h.deleted = ghost[c].deleted + Deletes(c, s.data)
      /\ cl[c].kind = "command" => h.before = data /\ h.after = s.data
      /\ Len(h.applied) = Len(ghost[c].applied)
      /\ \A i \in 1 .. Len(ghost[c].applied) : h.applied[i] = Grown(c, s.ran, i)
  BY CountedFields
<1>2. /\ ghost'[c] = [h EXCEPT !.steady = @ \cap s.data.keys]
      /\ ghost' = [x \in Clients |-> ghost'[x]]
  BY DEF Replied, Steady
<1>3. ghost[c].lost \in Nat /\ ghost[c].unheard \in Nat
  BY HistoryFields
<1> HIDE DEF h
<1>4. /\ ghost'[c] \in History /\ ghost'[c].steady = h.steady \cap s.data.keys
      /\ ghost'[c].lost = h.lost /\ ghost'[c].unheard = h.unheard
      /\ ghost'[c].deleted = h.deleted /\ ghost'[c].before = h.before
      /\ ghost'[c].after = h.after /\ ghost'[c].applied = h.applied
      /\ ghost'[c].refused = h.refused
  BY <1>1, <1>2 DEF History
<1> QED
  BY <1>1, <1>2, <1>3, <1>4 DEF Happened

LEMMA UnheardHistory ==
    ASSUME IInv, NEW c \in Clients, NEW s, s.data \in Store, s.ran \in Seq(Int), Unheard(c, s)
    PROVE  Happened(c, s, IF s.ran # <<>> THEN 1 ELSE 0, Deletes(c, s.data))
<1> DEFINE h == Counted(c, s)
<1>1. /\ h \in History
      /\ h.lost = ghost[c].lost /\ h.steady = ghost[c].steady
      /\ h.unheard = ghost[c].unheard /\ h.refused = ghost[c].refused
      /\ h.deleted = ghost[c].deleted + Deletes(c, s.data) /\ Deletes(c, s.data) \in Nat
      /\ cl[c].kind = "command" => h.before = data /\ h.after = s.data
      /\ Len(h.applied) = Len(ghost[c].applied)
      /\ \A i \in 1 .. Len(ghost[c].applied) : h.applied[i] = Grown(c, s.ran, i)
  BY CountedFields
<1>2. /\ ghost'[c] = [h EXCEPT !.steady = @ \cap s.data.keys,
                               !.lost = IF s.ran # <<>> THEN @ + 1 ELSE @,
                               !.unheard = @ + (h.deleted - ghost[c].deleted)]
      /\ ghost' = [x \in Clients |-> ghost'[x]]
  BY DEF Unheard, Steady
<1>3. ghost[c].lost \in Nat /\ ghost[c].unheard \in Nat /\ ghost[c].deleted \in Nat
  BY HistoryFields
<1> HIDE DEF h
<1>4. /\ ghost'[c] \in History /\ ghost'[c].steady = h.steady \cap s.data.keys
      /\ ghost'[c].lost = (IF s.ran # <<>> THEN h.lost + 1 ELSE h.lost)
      /\ ghost'[c].unheard = h.unheard + (h.deleted - ghost[c].deleted)
      /\ ghost'[c].deleted = h.deleted /\ ghost'[c].before = h.before
      /\ ghost'[c].after = h.after /\ ghost'[c].applied = h.applied
      /\ ghost'[c].refused = h.refused
  <2> DEFINE l == IF s.ran # <<>> THEN h.lost + 1 ELSE h.lost
  <2> DEFINE u == h.unheard + (h.deleted - ghost[c].deleted)
  <2>1. l \in Nat /\ u \in Nat
    BY <1>1, <1>3
  <2>2. ghost'[c] = [h EXCEPT !.steady = h.steady \cap s.data.keys, !.lost = l, !.unheard = u]
    BY <1>1, <1>2 DEF History
  <2> HIDE DEF l, u
  <2>3. /\ ghost'[c] \in History /\ ghost'[c].steady = h.steady \cap s.data.keys
        /\ ghost'[c].lost = l /\ ghost'[c].unheard = u
        /\ ghost'[c].deleted = h.deleted /\ ghost'[c].before = h.before
        /\ ghost'[c].after = h.after /\ ghost'[c].applied = h.applied
        /\ ghost'[c].refused = h.refused
    BY <1>1, <2>1, <2>2 DEF History
  <2> QED
    BY <2>3 DEF l, u
<1> QED
  BY <1>1, <1>2, <1>3, <1>4 DEF Happened

\* The others keep theirs.
LEMMA OthersKept ==
    ASSUME IInv, NEW c \in Clients, Connected(c), NEW s, s.data \in Store,
           Replied(c, s) \/ Unheard(c, s),
           \A d \in Clients \ {c} : cl'[d] = cl[d] /\ rx'[d] = rx[d]
    PROVE  \A d \in Clients \ {c} : Kept(d)
<1> SUFFICES ASSUME NEW d \in Clients \ {c} PROVE Kept(d)
  OBVIOUS
<1>1. ghost'[d] = [ghost[d] EXCEPT !.steady = @ \cap data'.keys]
  BY DEF Replied, Unheard, Steady
<1>2. ghost[d] \in History
  BY HistoryFields
<1>3. /\ ghost'[d] \in History
      /\ ghost'[d].applied = ghost[d].applied /\ ghost'[d].lost = ghost[d].lost
      /\ ghost'[d].refused = ghost[d].refused
      /\ ghost'[d].before = ghost[d].before /\ ghost'[d].after = ghost[d].after
      /\ ghost'[d].deleted = ghost[d].deleted /\ ghost'[d].unheard = ghost[d].unheard
      /\ ghost'[d].steady \subseteq ghost[d].steady \cap data'.keys
  BY <1>1, <1>2 DEF History
<1>4. Connected(d) => conn'[cl[d].conn] = conn[cl[d].conn]
  <2>1. Connected(d) => cl[d].conn # cl[c].conn /\ cl[d].conn \in Conns
    BY CallFields DEF IInv, Pool
  <2>2. conn \in [Conns -> ConnType] /\ cl[c].conn \in Conns
    BY CallFields DEF IInv, Types
  <2> QED
    BY <2>1, <2>2 DEF Replied, Unheard
<1> QED
  BY <1>3, <1>4 DEF Kept

-----------------------------------------------------------------------------
(* A connection that breaks.                                               *)

LEMMA BrokenFields ==
    ASSUME IInv, NEW c \in Clients, Connected(c), cl'[c] = Broken(cl[c])
    PROVE  /\ cl'[c] \in CallType(cl'[c].told)
           /\ cl'[c].kind = cl[c].kind /\ cl'[c].cmds = cl[c].cmds
           /\ cl'[c].state = "run" /\ cl'[c].conn = NoConn
           /\ cl'[c].tries = cl[c].tries - 1 /\ cl'[c].at = Start(cl[c].kind)
           /\ cl'[c].outcome = cl[c].outcome
<1> DEFINE t == cl[c].tries - 1
<1> DEFINE a == Start(cl[c].kind)
<1>1. cl[c] \in CallType(cl[c].told)
  BY DEF IInv, Types
<1>2. cl[c].state = "run" /\ t \in 0 .. Retries /\ a \in Int
  BY CallFields DEF Start
<1>3. cl'[c] = [cl[c] EXCEPT !.conn = NoConn, !.tries = t, !.at = a]
  BY <1>1 DEF Broken, CallType
<1> HIDE DEF t, a
<1>4. /\ cl'[c].kind = cl[c].kind /\ cl'[c].cmds = cl[c].cmds
      /\ cl'[c].state = "run" /\ cl'[c].conn = NoConn
      /\ cl'[c].tries = t /\ cl'[c].at = a
      /\ cl'[c].outcome = cl[c].outcome /\ cl'[c].told = cl[c].told
  BY <1>1, <1>2, <1>3 DEF CallType
<1>5. cl'[c] \in CallType(cl[c].told)
  BY <1>1, <1>2, <1>3 DEF CallType
<1> QED
  BY <1>4, <1>5 DEF t, a

LEMMA ExecutedInt ==
    ASSUME IInv, NEW c \in Clients, Len(cl[c].cmds) \in Nat
    PROVE  Executed(c) \in Int
<1>1. CASE Connected(c)
  <2>1. conn[cl[c].conn].queue \in Queue
    BY <1>1, CallFields DEF ConnType
  <2>2. Len(conn[cl[c].conn].queue) \in Nat
    BY <2>1, LenProperties DEF Queue
  <2> QED
    BY <2>2 DEF Executed
<1>2. CASE ~Connected(c)
  BY <1>2 DEF Executed
<1> QED
  BY <1>1, <1>2

\* The server ran all the commands of a call, or none.
Whole(c, ran) ==
    \A i \in 1 .. Len(ghost[c].applied) : Times(ran, i) = IF ran # <<>> THEN 1 ELSE 0

LEMMA WholeNone ==
    ASSUME NEW c
    PROVE  Whole(c, <<>>)
  BY TimesNone DEF Whole

\* The lambda starts again; what was executed unheard cost a try.
LEMMA BrokenHolds ==
    ASSUME IInv, NEW c \in Clients, Connected(c), cl'[c] = Broken(cl[c]), rx'[c] = rx[c],
           NEW s, s.ran \in Seq(Int), Whole(c, s.ran),
           cl[c].kind = "pipeline" => s.ran = <<>>, s.data \in Store, data' = s.data,
           Happened(c, s, IF s.ran # <<>> THEN 1 ELSE 0, Deletes(c, s.data))
    PROVE  Holds(c)' /\ cl'[c] \in CallType(cl'[c].told)
<1>0. /\ cl'[c] \in CallType(cl'[c].told)
      /\ cl'[c].kind = cl[c].kind /\ cl'[c].cmds = cl[c].cmds
      /\ cl'[c].state = "run" /\ cl'[c].conn = NoConn
      /\ cl'[c].tries = cl[c].tries - 1 /\ cl'[c].at = Start(cl[c].kind)
      /\ cl'[c].outcome = cl[c].outcome
  BY BrokenFields
<1>1. /\ cl[c].state = "run" /\ Place(c) /\ Placed(c) /\ Once(c) /\ Exact(c) /\ InOrder(c)
      /\ cl[c].tries \in Nat /\ cl[c].tries > 0 /\ Retries \in Nat /\ cl[c].at \in Int
      /\ cl[c].cmds \in Seq(Commands \cup Scans(0 .. NKeys))
      /\ ghost[c].applied \in Seq(Nat) /\ ghost[c].lost \in Nat
      /\ ghost[c].refused \in Seq(Nat)
  BY CallFields, HistoryFields DEF IInv, Holds, Placed
<1>2. Placed(c)'
  <2>1. Place(c)'
    BY <1>0, <1>1 DEF Place, Start
  <2> QED
    BY <1>0, <1>1, <2>1 DEF Placed
<1>3. ~Connected(c)'
  BY <1>0 DEF Connected
<1> DEFINE n == ghost[c].applied
<1> DEFINE m == ghost'[c].applied
<1>4. /\ Len(m) = Len(n) /\ m \in Seq(Nat) /\ Len(n) \in Nat
      /\ \A i \in 1 .. Len(n) :
           n[i] \in Nat /\ m[i] = n[i] + (IF s.ran # <<>> THEN 1 ELSE 0)
      /\ ghost'[c].lost = ghost[c].lost + (IF s.ran # <<>> THEN 1 ELSE 0)
      /\ ghost'[c].refused = ghost[c].refused
  <2>1. ghost'[c] \in History /\ Len(m) = Len(n) /\ ghost'[c].refused = ghost[c].refused
    BY DEF Happened
  <2>2. ASSUME NEW i \in 1 .. Len(n)
        PROVE  n[i] \in Nat /\ m[i] = n[i] + (IF s.ran # <<>> THEN 1 ELSE 0)
    <3>1. n[i] \in Nat
      BY <1>1, ElementOfSeq, Zenon
    <3>2. m[i] = n[i] + Times(s.ran, i)
      BY DEF Happened, Grown
    <3>3. Times(s.ran, i) = IF s.ran # <<>> THEN 1 ELSE 0
      BY DEF Whole
    <3> QED
      BY <3>1, <3>2, <3>3
  <2>3. ghost'[c].lost = ghost[c].lost + IF s.ran # <<>> THEN 1 ELSE 0
    BY DEF Happened
  <2>4. m \in Seq(Nat) /\ Len(n) \in Nat
    BY <1>1, <2>1, LenProperties DEF History
  <2> QED
    BY <2>1, <2>2, <2>3, <2>4
<1>7. Once(c)'
  <2>1. Len(ghost'[c].refused) = Len(m)
    BY <1>1, <1>4 DEF Once
  <2>2. CASE cl[c].kind \in {"none", "removex"}
    <3>1. n = <<>>
      BY <1>1, <2>2 DEF Once
    <3>2. m = <<>>
      BY <1>4, <3>1
    <3>3. \A i \in 1 .. Len(m) : ghost'[c].refused[i] = 0
      BY <3>2
    <3> QED
      BY <1>0, <2>1, <2>2, <3>2, <3>3 DEF Once
  <2>3. CASE cl[c].kind \in {"command", "transaction"}
    <3>1. /\ Len(n) = Len(cl[c].cmds) /\ \A i \in 1 .. Len(n) : n[i] = ghost[c].lost
          /\ ghost[c].lost + cl[c].tries <= Retries
          /\ \A i \in 1 .. Len(n) : ghost[c].refused[i] = 0
      BY <1>1, <2>3 DEF Once
    <3>2. Len(m) = Len(cl'[c].cmds) /\ ghost'[c].lost + cl'[c].tries <= Retries
      BY <1>0, <1>1, <1>4, <3>1
    <3>3. \A i \in 1 .. Len(m) : m[i] = ghost'[c].lost /\ ghost'[c].refused[i] = 0
      BY <1>4, <3>1
    <3> QED
      BY <1>0, <2>1, <2>3, <3>2, <3>3 DEF Once
  <2>4. CASE cl[c].kind = "pipeline"
    <3>1. Len(m) = Len(cl'[c].cmds)
      BY <1>0, <1>1, <1>4, <2>4 DEF Once
    <3> QED
      BY <1>0, <2>1, <2>4, <3>1 DEF Once
  <2> QED
    BY <1>1, <2>2, <2>3, <2>4, CallFields
<1>8. InOrder(c)'
  <2> SUFFICES ASSUME cl[c].kind = "pipeline" PROVE InOrder(c)'
    BY <1>0 DEF InOrder
  <2> DEFINE L == Len(cl[c].cmds)
  <2>1. L \in Nat /\ Len(n) = L /\ Len(ghost[c].refused) = L /\ cl'[c].cmds = cl[c].cmds
    BY <1>0, <1>1, <1>4, LenProperties DEF Once
  <2>2. Executed(c)' = 0
    BY <1>3 DEF Executed
  <2>3. ASSUME NEW i \in 1 .. L
        PROVE  /\ Answers(c, i) \in Nat /\ Answers(c, i)' = Answers(c, i)
               /\ Earlier(c, i)' = Answers(c, i)
               /\ Earlier(c, i) = Answers(c, i) - (IF i <= Executed(c) THEN 1 ELSE 0)
               /\ Earlier(c, i) >= 0 /\ Earlier(c, i) + cl[c].tries <= Retries
    <3>1. n[i] \in Nat /\ m[i] = n[i]
      BY <1>4, <2>1
    <3>2. ghost[c].refused[i] \in Nat
      <4>1. i \in 1 .. Len(ghost[c].refused)
        BY <2>1
      <4> QED
        BY <1>1, <4>1, ElementOfSeq, Zenon
    <3>3. Answers(c, i) \in Nat /\ Answers(c, i)' = Answers(c, i)
      <4>1. Answers(c, i) = n[i] + ghost[c].refused[i]
        BY DEF Answers
      <4>2. Answers(c, i)' = m[i] + ghost'[c].refused[i]
        BY DEF Answers
      <4>3. ghost'[c].refused[i] = ghost[c].refused[i]
        BY <1>4
      <4> HIDE DEF n, m
      <4> QED
        BY <3>1, <3>2, <4>1, <4>2, <4>3
    <3>4. Earlier(c, i)' = Answers(c, i)
      BY <2>2, <3>3 DEF Earlier
    <3>5. Earlier(c, i) >= 0 /\ Earlier(c, i) + cl[c].tries <= Retries
      BY <1>1 DEF InOrder
    <3> QED
      BY <3>3, <3>4, <3>5 DEF Earlier
  <2>4. ASSUME NEW i \in 1 .. L, NEW j \in 1 .. L, i < j
        PROVE  Answers(c, i) >= Answers(c, j)
    <3>1. Earlier(c, i) >= Earlier(c, j)
      BY <1>1, <2>4 DEF InOrder
    <3>2. j <= Executed(c) => i <= Executed(c)
      <4>1. Executed(c) \in Int
        BY <1>1, <2>1, ExecutedInt
      <4> QED
        BY <2>1, <2>4, <4>1
    <3> DEFINE a == Answers(c, i)
    <3> DEFINE b == Answers(c, j)
    <3> DEFINE e == Earlier(c, i)
    <3> DEFINE f == Earlier(c, j)
    <3>3. /\ a \in Nat /\ b \in Nat
          /\ e = a - (IF i <= Executed(c) THEN 1 ELSE 0)
          /\ f = b - (IF j <= Executed(c) THEN 1 ELSE 0)
      BY <2>3
    <3> HIDE DEF a, b, e, f
    <3>4. e >= f
      BY <3>1 DEF e, f
    <3>5. a >= b
      BY <3>2, <3>3, <3>4
    <3> QED
      BY <3>5 DEF a, b
  <2>5. ASSUME NEW i \in 1 .. L PROVE Answers(c, i) + cl'[c].tries <= Retries
    <3>1. Earlier(c, i) = Answers(c, i) - (IF i <= Executed(c) THEN 1 ELSE 0)
          /\ Earlier(c, i) + cl[c].tries <= Retries /\ Answers(c, i) \in Nat
      BY <2>3
    <3> QED
      BY <1>0, <1>1, <3>1
  <2>6. \A i \in 1 .. L : Earlier(c, i)' >= 0 /\ Earlier(c, i)' + cl'[c].tries <= Retries
    BY <2>3, <2>5
  <2>7. \A i, j \in 1 .. L : i < j => Earlier(c, i)' >= Earlier(c, j)'
    BY <2>3, <2>4
  <2> QED
    BY <1>0, <2>1, <2>6, <2>7 DEF InOrder
<1>5. Exact(c)'
  <2>1. /\ ghost'[c].steady = ghost[c].steady \cap data'.keys
        /\ ghost'[c].unheard = ghost[c].unheard + Deletes(c, s.data)
        /\ ghost'[c].deleted = ghost[c].deleted + Deletes(c, s.data)
    BY DEF Happened
  <2>2. ghost[c].unheard \in Nat /\ ghost[c].deleted \in Nat /\ rx[c].removed \in Nat
    BY HistoryFields
  <2>3. Deletes(c, s.data) \in Nat
    BY CountedFields
  <2>4. Scanning(c) => Scanning(c)'
    BY <1>0, <2>1 DEF Scanning
  <2>5. Deleting(c) => Deleting(c)'
    BY <1>0, <2>1 DEF Deleting
  <2>6. ghost'[c].steady \subseteq data'.keys \cap Matching
    BY <1>1, <2>1 DEF Exact
  <2>7. CASE cl[c].kind = "removex"
    <3>1. /\ rx[c].batch > 0 /\ rx[c].prev = rx[c].removed
          /\ rx[c].removed + ghost[c].unheard = ghost[c].deleted
          /\ Scanning(c) \/ Deleting(c)
      BY <1>1, <2>7 DEF Exact
    <3>2. rx[c].removed + ghost'[c].unheard = ghost'[c].deleted
      BY <2>1, <2>2, <2>3, <3>1
    <3> QED
      BY <1>0, <2>4, <2>5, <2>6, <3>1, <3>2 DEF Exact
  <2>8. CASE cl[c].kind # "removex"
    BY <1>0, <2>6, <2>8 DEF Exact
  <2> QED
    BY <2>7, <2>8
<1>6. Truth(c)'
  BY <1>0 DEF Truth, Done
<1> QED
  BY <1>0, <1>2, <1>3, <1>5, <1>6, <1>7, <1>8 DEF Holds

LEMMA CallStep ==
    ASSUME IInv, NEW c \in Clients, NEW r, cl' = [cl EXCEPT ![c] = r]
    PROVE  /\ cl' = [x \in Clients |-> cl'[x]] /\ cl'[c] = r
           /\ \A d \in Clients \ {c} : cl'[d] = cl[d]
  BY DEF IInv, Types

LEMMA UnheardInv ==
    ASSUME IInv, NEW c \in Clients, Connected(c), NEW s, s.ran \in Seq(Int),
           Whole(c, s.ran), cl[c].kind # "pipeline", s.data \in Store, Unheard(c, s)
    PROVE  IInv'
<1>1. /\ cl' = [x \in Clients |-> cl'[x]] /\ cl'[c] = Broken(cl[c])
      /\ \A d \in Clients \ {c} : cl'[d] = cl[d]
  BY CallStep DEF Unheard
<1>2. Happened(c, s, IF s.ran # <<>> THEN 1 ELSE 0, Deletes(c, s.data))
  BY UnheardHistory
<1>3. rx' = rx /\ data' = s.data /\ program' = program /\ idle' = idle
  BY DEF Unheard
<1>4. Holds(c)' /\ cl'[c] \in CallType(cl'[c].told)
  BY <1>1, <1>2, <1>3, BrokenHolds
<1>5. cl'[c].conn = NoConn
  BY <1>1, BrokenFields
<1>6. /\ conn' = [conn EXCEPT ![cl[c].conn] = conn'[cl[c].conn]]
      /\ conn' \in [Conns -> ConnType]
  <2>1. conn \in [Conns -> ConnType] /\ cl[c].conn \in Conns /\ Clean \in ConnType
    BY CleanType, CallFields DEF IInv, Types
  <2> QED
    BY <2>1 DEF Unheard
<1>7. Pool' /\ idle' \in SUBSET Conns
  BY <1>1, <1>3, <1>5, <1>6, PoolStep
<1>8. \A d \in Clients \ {c} : Kept(d)
  BY <1>1, <1>3, OthersKept
<1>9. rx' = [x \in Clients |-> rx'[x]] /\ rx'[c] \in Locals
  BY <1>3 DEF IInv, Types
<1>10. ghost' = [x \in Clients |-> ghost'[x]] /\ ghost'[c] \in History
  BY <1>2 DEF Happened
<1> QED
  BY <1>1, <1>3, <1>4, <1>6, <1>7, <1>8, <1>9, <1>10, OneClient

\* A step that sends nothing.
Quiet == [data |-> data, ran |-> <<>>]

LEMMA QuietHistory ==
    ASSUME IInv, NEW c \in Clients, ghost' = ghost
    PROVE  /\ Happened(c, Quiet, 0, 0) /\ Deletes(c, data) = 0
           /\ Quiet.ran = <<>> /\ Quiet.data = data /\ data \in Store
<1>1. Quiet.ran = <<>> /\ Quiet.data = data /\ data \in Store
  BY DEF IInv, Types, Quiet
<1>2. Deletes(c, data) = 0
  <2>1. data.keys \ data.keys = {}
    OBVIOUS
  <2> QED
    BY <2>1, FS_EmptySet DEF Deletes
<1>3. /\ ghost[c] \in History /\ ghost = [x \in Clients |-> ghost[x]]
      /\ ghost[c].applied \in Seq(Nat) /\ ghost[c].lost \in Nat
      /\ ghost[c].unheard \in Nat /\ ghost[c].deleted \in Nat
      /\ ghost[c].steady \subseteq data.keys
  BY HistoryFields DEF IInv, Types, Holds, Exact
<1>4. Happened(c, Quiet, 0, 0)
  <2>1. \A i \in 1 .. Len(ghost[c].applied) : Grown(c, Quiet.ran, i) = ghost[c].applied[i]
    <3> SUFFICES ASSUME NEW i \in 1 .. Len(ghost[c].applied)
                 PROVE  Grown(c, Quiet.ran, i) = ghost[c].applied[i]
      OBVIOUS
    <3>1. ghost[c].applied[i] \in Nat
      BY <1>3, ElementOfSeq, Zenon
    <3>2. Times(Quiet.ran, i) = 0
      BY <1>1, TimesNone
    <3> QED
      BY <3>1, <3>2 DEF Grown
  <2> QED
    BY <1>1, <1>2, <1>3, <2>1 DEF Happened
<1> QED
  BY <1>1, <1>2, <1>4

LEMMA LoseInv ==
    ASSUME IInv, NEW c \in Clients, Lose(c)
    PROVE  IInv'
<1>1. /\ cl' = [x \in Clients |-> cl'[x]] /\ cl'[c] = Broken(cl[c])
      /\ \A d \in Clients \ {c} : cl'[d] = cl[d]
  BY CallStep DEF Lose
<1>2. /\ rx' = rx /\ data' = data /\ program' = program /\ idle' = idle /\ ghost' = ghost
      /\ Connected(c)
  BY DEF Lose
<1>3. /\ Happened(c, Quiet, IF Quiet.ran # <<>> THEN 1 ELSE 0, Deletes(c, Quiet.data))
      /\ Quiet.ran = <<>> /\ Quiet.data = data /\ data \in Store
  BY <1>2, QuietHistory
<1>5. ghost' = [x \in Clients |-> ghost'[x]] /\ ghost'[c] \in History
  BY <1>3 DEF Happened
<1>6. Whole(c, Quiet.ran) /\ Quiet.ran \in Seq(Int)
  BY <1>3, WholeNone
<1>7. Holds(c)' /\ cl'[c] \in CallType(cl'[c].told)
  BY <1>1, <1>2, <1>3, <1>6, BrokenHolds
<1>8. cl'[c].conn = NoConn
  BY <1>1, <1>2, BrokenFields
<1>9. /\ conn' = [conn EXCEPT ![cl[c].conn] = conn'[cl[c].conn]]
      /\ conn' \in [Conns -> ConnType]
      /\ \A j \in Conns \ {cl[c].conn} : conn'[j] = conn[j]
  <2>1. conn \in [Conns -> ConnType] /\ cl[c].conn \in Conns /\ Clean \in ConnType
    BY <1>2, CleanType, CallFields DEF IInv, Types
  <2> QED
    BY <2>1 DEF Lose
<1>10. Pool' /\ idle' \in SUBSET Conns
  BY <1>1, <1>2, <1>8, <1>9, PoolStep
<1>11. ASSUME NEW d \in Clients \ {c} PROVE Kept(d)
  <2>1. Connected(d) => cl[d].conn # cl[c].conn /\ cl[d].conn \in Conns
    BY <1>2, CallFields DEF IInv, Pool
  <2>2. ghost[d] \in History /\ ghost[d].steady \subseteq data.keys
    BY HistoryFields DEF IInv, Holds, Exact
  <2> QED
    BY <1>1, <1>2, <1>9, <2>1, <2>2 DEF Kept
<1>12. rx' = [x \in Clients |-> rx'[x]] /\ rx'[c] \in Locals
  BY <1>2 DEF IInv, Types
<1> QED
  BY <1>1, <1>2, <1>3, <1>5, <1>7, <1>9, <1>10, <1>11, <1>12, OneClient

-----------------------------------------------------------------------------
(* A call that fails.                                                      *)

\* The answers of a pipeline stay as they are.
LEMMA InOrderKept ==
    ASSUME IInv, NEW c \in Clients, cl[c].kind = "pipeline",
           cl'[c].kind = cl[c].kind, cl'[c].cmds = cl[c].cmds,
           cl'[c].tries \in Nat, cl'[c].tries <= cl[c].tries,
           cl'[c].state = "done" => cl'[c].outcome # "ok",
           \A i \in 1 .. Len(cl[c].cmds) : Answers(c, i)' = Answers(c, i),
           Executed(c)' = Executed(c)
    PROVE  InOrder(c)'
<1>1. /\ InOrder(c) /\ cl[c].tries \in Nat /\ Retries \in Nat
      /\ ghost[c].applied \in Seq(Nat) /\ ghost[c].refused \in Seq(Nat)
      /\ Len(ghost[c].applied) = Len(cl[c].cmds) /\ Len(ghost[c].refused) = Len(cl[c].cmds)
  <2>1. Once(c) /\ InOrder(c)
    BY DEF IInv, Holds
  <2> QED
    BY <2>1, CallFields, HistoryFields DEF Once
<1>2. ASSUME NEW i \in 1 .. Len(cl[c].cmds)
      PROVE  /\ Earlier(c, i)' = Earlier(c, i) /\ Earlier(c, i) \in Int
             /\ Earlier(c, i) >= 0 /\ Earlier(c, i) + cl'[c].tries <= Retries
  <2>1. Earlier(c, i)' = Earlier(c, i)
    BY DEF Earlier
  <2>2. Earlier(c, i) >= 0 /\ Earlier(c, i) + cl[c].tries <= Retries
    BY <1>1 DEF InOrder
  <2>3. Earlier(c, i) \in Int
    <3>1. ghost[c].applied[i] \in Nat
      BY <1>1, ElementOfSeq, Zenon
    <3>2. ghost[c].refused[i] \in Nat
      BY <1>1, ElementOfSeq, Zenon
    <3> QED
      BY <3>1, <3>2 DEF Earlier, Answers
  <2> DEFINE e == Earlier(c, i)
  <2> HIDE DEF e
  <2>4. e \in Int /\ e + cl[c].tries <= Retries
    BY <2>2, <2>3 DEF e
  <2>5. e + cl'[c].tries <= Retries
    BY <1>1, <2>4
  <2> QED
    BY <2>1, <2>2, <2>3, <2>5 DEF e
<1>3. \A i, j \in 1 .. Len(cl[c].cmds) : i < j => Earlier(c, i)' >= Earlier(c, j)'
  BY <1>1, <1>2 DEF InOrder
<1> QED
  BY <1>2, <1>3 DEF InOrder

\* Nothing of its last try was applied, or it is one that was never sent.
LEMMA FailedHolds ==
    ASSUME IInv, NEW c \in Clients, cl[c].state = "run",
           cl'[c].kind = cl[c].kind, cl'[c].cmds = cl[c].cmds, cl'[c].state = "done",
           cl'[c].conn = NoConn, cl'[c].tries = 0,
           cl'[c].outcome \notin {"ok", "nothing"},
           cl[c].kind = "pipeline" => ~Connected(c),
           NEW s, cl[c].kind # "removex" => s.ran = <<>>, data' = s.data, Happened(c, s, 0, 0)
    PROVE  Holds(c)'
<1>1. /\ Placed(c) /\ Once(c) /\ Exact(c)
      /\ cl[c].tries \in Nat /\ Retries \in Nat
      /\ cl[c].kind \in {"none", "command", "transaction", "pipeline", "removex"}
      /\ ghost[c].applied \in Seq(Nat) /\ ghost[c].lost \in Nat
  BY CallFields, HistoryFields DEF IInv, Holds
<1>2. Placed(c)'
  BY <1>1 DEF Placed
<1>3. ~Connected(c)'
  BY DEF Connected
<1> DEFINE n == ghost[c].applied
<1> DEFINE m == ghost'[c].applied
<1>4. /\ m \in Seq(Nat) /\ Len(m) = Len(n) /\ Len(n) \in Nat
      /\ ghost'[c].lost = ghost[c].lost /\ ghost'[c].refused = ghost[c].refused
      /\ cl[c].kind # "removex" => \A i \in 1 .. Len(n) : m[i] = n[i] /\ n[i] \in Nat
  <2>1. m \in Seq(Nat) /\ Len(m) = Len(n) /\ Len(n) \in Nat
    BY <1>1, LenProperties DEF Happened, History
  <2>2. ghost'[c].lost = ghost[c].lost /\ ghost'[c].refused = ghost[c].refused
    BY <1>1 DEF Happened
  <2>3. ASSUME cl[c].kind # "removex", NEW i \in 1 .. Len(n) PROVE m[i] = n[i] /\ n[i] \in Nat
    <3>1. m[i] = n[i] + Times(<<>>, i)
      BY <2>3 DEF Happened, Grown
    <3>2. n[i] \in Nat
      BY <1>1, ElementOfSeq, Zenon
    <3>3. Times(<<>>, i) = 0
      BY TimesNone
    <3> QED
      BY <3>1, <3>2, <3>3
  <2> QED
    BY <2>1, <2>2, <2>3
<1>5. Once(c)'
  <2>1. /\ Len(ghost'[c].refused) = Len(m)
        /\ cl[c].kind # "pipeline" => \A i \in 1 .. Len(m) : ghost'[c].refused[i] = 0
    BY <1>1, <1>4 DEF Once
  <2>2. CASE cl[c].kind \in {"none", "removex"}
    <3>1. n = <<>>
      BY <1>1, <2>2 DEF Once
    <3>2. m = <<>>
      BY <1>4, <3>1
    <3> QED
      BY <2>1, <2>2, <3>2 DEF Once
  <2>3. CASE cl[c].kind \in {"command", "transaction"}
    <3>1. /\ Len(n) = Len(cl[c].cmds) /\ \A i \in 1 .. Len(n) : n[i] = ghost[c].lost
          /\ ghost[c].lost + cl[c].tries <= Retries
      BY <1>1, <2>3 DEF Once
    <3>2. ASSUME NEW i \in 1 .. Len(m) PROVE m[i] = ghost'[c].lost + 0 /\ m[i] <= Retries
      <4>1. m[i] = ghost[c].lost /\ m[i] \in Nat
        BY <1>4, <2>3, <3>1
      <4> QED
        BY <1>1, <1>4, <3>1, <4>1
    <3> QED
      BY <1>4, <2>1, <2>3, <3>1, <3>2 DEF Once
  <2>4. CASE cl[c].kind = "pipeline"
    <3>1. Len(m) = Len(cl'[c].cmds)
      BY <1>1, <1>4, <2>4 DEF Once
    <3> QED
      BY <2>1, <2>4, <3>1 DEF Once
  <2> QED
    BY <1>1, <2>2, <2>3, <2>4
<1>6. InOrder(c)'
  <2> SUFFICES ASSUME cl[c].kind = "pipeline" PROVE InOrder(c)'
    BY DEF InOrder
  <2>1. Len(n) = Len(cl[c].cmds)
    BY <1>1 DEF Once
  <2>2. \A i \in 1 .. Len(cl[c].cmds) : Answers(c, i)' = Answers(c, i)
    BY <1>4, <2>1 DEF Answers
  <2>3. Executed(c) = 0 /\ Executed(c)' = 0
    BY <1>3 DEF Executed
  <2> QED
    BY <1>1, <2>2, <2>3, InOrderKept
<1>7. Exact(c)'
  <2>1. ghost'[c].steady = ghost[c].steady \cap data'.keys
    BY DEF Happened
  <2> QED
    BY <1>1, <2>1 DEF Exact
<1>8. Truth(c)'
  BY DEF Truth, Done
<1> QED
  BY <1>2, <1>3, <1>5, <1>6, <1>7, <1>8 DEF Holds

\* What an exception leaves of a call.
LEMMA ThrewFields ==
    ASSUME IInv, NEW c \in Clients, cl'[c] = Threw(cl[c])
    PROVE  /\ cl'[c] \in CallType(cl'[c].told)
           /\ cl'[c].kind = cl[c].kind /\ cl'[c].cmds = cl[c].cmds
           /\ cl'[c].state = "done" /\ cl'[c].conn = NoConn /\ cl'[c].tries = 0
           /\ cl'[c].outcome \notin {"ok", "nothing"}
<1> DEFINE o == IF cl[c].cmds[1].name = "SCRIPT EXISTS" THEN "caught" ELSE "threw"
<1> DEFINE v == FALSE
<1>1. cl[c] \in CallType(cl[c].told)
  BY DEF IInv, Types
<1>2. o \in {"caught", "threw"} /\ 0 \in 0 .. Retries
  BY RedisClientAssumption
<1>3. cl'[c] = [cl[c] EXCEPT !.state = "done", !.conn = NoConn, !.tries = 0,
                             !.outcome = o, !.told = v]
  BY DEF Threw
<1> HIDE DEF o, v
<1>4. /\ cl'[c].kind = cl[c].kind /\ cl'[c].cmds = cl[c].cmds
      /\ cl'[c].state = "done" /\ cl'[c].conn = NoConn /\ cl'[c].tries = 0
      /\ cl'[c].outcome = o /\ cl'[c].told = v
  BY <1>1, <1>3 DEF CallType
<1>5. cl'[c] \in CallType(v)
  BY <1>1, <1>2, <1>3 DEF CallType
<1> QED
  BY <1>2, <1>4, <1>5

\* Nobody's connection is touched, and no key goes away.
LEMMA AllKept ==
    ASSUME IInv, NEW c \in Clients, conn' = conn, data' = data, ghost' = ghost, rx' = rx,
           \A d \in Clients \ {c} : cl'[d] = cl[d]
    PROVE  /\ \A d \in Clients \ {c} : Kept(d)
           /\ data' \in Store /\ conn' \in [Conns -> ConnType]
           /\ rx' = [x \in Clients |-> rx'[x]] /\ rx'[c] \in Locals
           /\ ghost' = [x \in Clients |-> ghost'[x]] /\ ghost'[c] \in History
  BY HistoryFields DEF IInv, Types, Holds, Exact, Kept

LEMMA GiveUpInv ==
    ASSUME IInv, NEW c \in Clients, GiveUp(c)
    PROVE  IInv'
<1>1. /\ cl' = [x \in Clients |-> cl'[x]] /\ cl'[c] = Threw(cl[c])
      /\ \A d \in Clients \ {c} : cl'[d] = cl[d]
  BY CallStep DEF GiveUp
<1>2. /\ rx' = rx /\ data' = data /\ program' = program /\ idle' = idle /\ ghost' = ghost
      /\ conn' = conn /\ ~Connected(c) /\ cl[c].state = "run"
  BY DEF GiveUp
<1>3. Happened(c, Quiet, 0, 0) /\ Quiet.ran = <<>> /\ Quiet.data = data
  BY <1>2, QuietHistory
<1>4. /\ cl'[c] \in CallType(cl'[c].told)
      /\ cl'[c].kind = cl[c].kind /\ cl'[c].cmds = cl[c].cmds
      /\ cl'[c].state = "done" /\ cl'[c].conn = NoConn /\ cl'[c].tries = 0
      /\ cl'[c].outcome \notin {"ok", "nothing"}
  BY <1>1, ThrewFields
<1>6. Holds(c)'
  BY <1>2, <1>3, <1>4, FailedHolds
<1>7. Pool' /\ idle' \in SUBSET Conns
  <2>1. \A d \in Clients : Connected(d)' => d # c /\ Connected(d) /\ cl'[d] = cl[d]
    BY <1>1, <1>4 DEF Connected
  <2>2. \A e \in Clients : cl'[e].conn = cl[e].conn
    BY <1>1, <1>2, <1>4 DEF Connected
  <2> QED
    BY <1>2, <2>1, <2>2 DEF IInv, Types, Pool
<1>8. /\ \A d \in Clients \ {c} : Kept(d)
      /\ data' \in Store /\ conn' \in [Conns -> ConnType]
      /\ rx' = [x \in Clients |-> rx'[x]] /\ rx'[c] \in Locals
      /\ ghost' = [x \in Clients |-> ghost'[x]] /\ ghost'[c] \in History
  BY <1>1, <1>2, AllKept
<1> QED
  BY <1>1, <1>2, <1>4, <1>6, <1>7, <1>8, OneClient

-----------------------------------------------------------------------------
(* Steps that send nothing.                                                *)

\* What holds of a running call depends on little.
LEMMA QuietHolds ==
    ASSUME IInv, NEW c \in Clients, cl[c].state = "run",
           data' = data, ghost' = ghost, rx' = rx,
           cl'[c].kind = cl[c].kind, cl'[c].cmds = cl[c].cmds, cl'[c].state = "run",
           cl'[c].tries \in Nat, cl'[c].tries <= cl[c].tries,
           cl[c].kind = "pipeline" => Executed(c)' = Executed(c)
    PROVE  Once(c)' /\ InOrder(c)' /\ Exact(c)' /\ Truth(c)'
<1>1. Once(c) /\ Exact(c) /\ cl[c].tries \in Nat /\ Retries \in Nat /\ ghost[c].lost \in Nat
  BY CallFields, HistoryFields DEF IInv, Holds
<1>2. Once(c)'
  BY <1>1 DEF Once
<1>3. InOrder(c)'
  <2> SUFFICES ASSUME cl[c].kind = "pipeline" PROVE InOrder(c)'
    BY DEF InOrder
  <2>1. \A i \in 1 .. Len(cl[c].cmds) : Answers(c, i)' = Answers(c, i)
    BY DEF Answers
  <2> QED
    BY <2>1, InOrderKept
<1>4. Exact(c)'
  BY <1>1 DEF Exact, Scanning, Deleting
<1>5. Truth(c)'
  BY DEF Truth, Done
<1> QED
  BY <1>2, <1>3, <1>4, <1>5

LEMMA TakeConnectionInv ==
    ASSUME IInv, NEW c \in Clients, TakeConnection(c)
    PROVE  IInv'
<1>0. /\ cl[c].state = "run" /\ ~Connected(c) /\ cl[c].tries > 0 /\ cl[c].tries \in 0 .. Retries
      /\ cl[c] \in CallType(cl[c].told) /\ cl[c].at = Start(cl[c].kind) /\ Placed(c)
      /\ data' = data /\ rx' = rx /\ ghost' = ghost /\ program' = program
      /\ cl[c].conn = NoConn
  BY CallFields DEF TakeConnection, IInv, Types, Holds, Placed, Connected
<1>1. ASSUME NEW k \in Conns, cl' = [cl EXCEPT ![c].conn = k],
             conn' \in [Conns -> ConnType], conn'[k] = Clean,
             \A j \in Conns \ {k} : conn'[j] = conn[j],
             k \notin InUse, idle' = idle \ {k}
      PROVE  IInv'
  <2>1. cl' = [cl EXCEPT ![c] = [cl[c] EXCEPT !.conn = k]]
    BY <1>1 DEF IInv, Types
  <2>2. /\ cl' = [x \in Clients |-> cl'[x]] /\ cl'[c] = [cl[c] EXCEPT !.conn = k]
        /\ \A d \in Clients \ {c} : cl'[d] = cl[d]
    BY <2>1, CallStep
  <2>3. /\ cl'[c] \in CallType(cl'[c].told)
        /\ cl'[c].kind = cl[c].kind /\ cl'[c].cmds = cl[c].cmds /\ cl'[c].state = "run"
        /\ cl'[c].at = cl[c].at /\ cl'[c].tries = cl[c].tries /\ cl'[c].conn = k
    BY <1>0, <2>2 DEF CallType
  <2>4. Once(c)' /\ InOrder(c)' /\ Exact(c)' /\ Truth(c)'
    <3>1. cl[c].tries \in Nat /\ cl[c].tries <= cl[c].tries
      BY <1>0, CallFields
    <3>2. Executed(c) = 0
      BY <1>0 DEF Executed
    <3>3. Executed(c)' = 0
      BY <1>1, <2>3 DEF Executed, Clean
    <3> QED
      BY <1>0, <2>3, <3>1, <3>2, <3>3, QuietHolds
  <2>5. Placed(c)'
    BY <1>0, <2>3 DEF Placed, Place, Connected
  <2>6. Session(c, k)'
    <3>1. /\ (conn[k])' = Clean /\ cl'[c].at = Start(cl'[c].kind)
          /\ cl'[c].kind \in {"command", "removex", "transaction", "pipeline"}
      BY <1>0, <1>1, <2>3 DEF Placed, Place
    <3> QED
      BY <3>1 DEF Session, Start, Clean
  <2>7. Holds(c)'
    BY <2>3, <2>4, <2>5, <2>6 DEF Holds
  <2>8. ASSUME NEW d \in Clients \ {c} PROVE Kept(d) /\ cl[d].conn # k
    <3>1. cl[d].conn # k
      BY <1>1 DEF InUse
    <3>2. Connected(d) => cl[d].conn \in Conns
      BY CallFields
    <3>3. Connected(d) => conn'[cl[d].conn] = conn[cl[d].conn]
      BY <1>1, <3>1, <3>2
    <3>4. ghost[d] \in History /\ ghost[d].steady \subseteq data.keys
      BY HistoryFields DEF IInv, Holds, Exact
    <3> QED
      BY <1>0, <2>2, <3>1, <3>3, <3>4 DEF Kept
  <2>9. Pool'
    <3>1. \A j \in idle' : conn'[j] = Clean
      BY <1>1 DEF IInv, Types, Pool
    <3>2. ASSUME NEW d \in Clients, Connected(d)'
          PROVE  /\ cl'[d].conn \notin idle'
                 /\ cl'[d].state = "run" /\ cl'[d].tries > 0
                 /\ \A e \in Clients : cl'[e].conn = cl'[d].conn => e = d
      <4>1. CASE d = c
        BY <1>0, <1>1, <2>2, <2>3, <2>8, <4>1
      <4>2. CASE d # c
        <5>1. cl'[d] = cl[d] /\ Connected(d) /\ cl[d].conn # k
          BY <2>2, <2>8, <3>2, <4>2 DEF Connected
        <5>2. /\ cl[d].conn \notin idle /\ cl[d].state = "run" /\ cl[d].tries > 0
              /\ \A e \in Clients : cl[e].conn = cl[d].conn => e = d
          BY <5>1 DEF IInv, Pool
        <5> QED
          BY <1>1, <2>2, <2>3, <4>2, <5>1, <5>2
      <4> QED
        BY <4>1, <4>2
    <3> QED
      BY <3>1, <3>2 DEF Pool
  <2>10. rx' = [x \in Clients |-> rx'[x]] /\ rx'[c] \in Locals /\ data' \in Store
         /\ ghost' = [x \in Clients |-> ghost'[x]] /\ ghost'[c] \in History
         /\ idle' \in SUBSET Conns
    BY <1>0, <1>1 DEF IInv, Types
  <2> QED
    BY <1>0, <1>1, <2>2, <2>3, <2>7, <2>8, <2>9, <2>10, OneClient
<1>2. CASE \E k \in idle : /\ cl' = [cl EXCEPT ![c].conn = k]
                           /\ idle' = idle \ {k} /\ conn' = conn
  <2>1. PICK k \in idle : cl' = [cl EXCEPT ![c].conn = k] /\ idle' = idle \ {k} /\ conn' = conn
    BY <1>2
  <2>2. k \in Conns /\ conn[k] = Clean /\ conn \in [Conns -> ConnType]
    BY DEF IInv, Types, Pool
  <2>3. k \notin InUse
    <3>1. \A d \in Clients : cl[d].conn = k => Connected(d)
      BY <2>2, RedisClientAssumption DEF Connected
    <3> QED
      BY <3>1 DEF IInv, Pool, InUse
  <2> QED
    BY <1>1, <2>1, <2>2, <2>3
<1>3. CASE idle = {} /\ idle' = idle
           /\ \E k \in Conns \ InUse : /\ cl' = [cl EXCEPT ![c].conn = k]
                                       /\ conn' = [conn EXCEPT ![k] = Clean]
  <2>1. PICK k \in Conns \ InUse : /\ cl' = [cl EXCEPT ![c].conn = k]
                                   /\ conn' = [conn EXCEPT ![k] = Clean]
    BY <1>3
  <2>2. conn \in [Conns -> ConnType] /\ Clean \in ConnType
    BY CleanType DEF IInv, Types
  <2>3. /\ conn' \in [Conns -> ConnType] /\ conn'[k] = Clean
        /\ \A j \in Conns \ {k} : conn'[j] = conn[j]
    BY <2>1, <2>2
  <2> QED
    BY <1>1, <1>3, <2>1, <2>3
<1>4. CASE cl' = [cl EXCEPT ![c].tries = @ - 1] /\ conn' = conn /\ idle' = idle
  <2>1. cl' = [cl EXCEPT ![c] = [cl[c] EXCEPT !.tries = cl[c].tries - 1]]
    BY <1>4 DEF IInv, Types
  <2>2. /\ cl' = [x \in Clients |-> cl'[x]] /\ cl'[c] = [cl[c] EXCEPT !.tries = cl[c].tries - 1]
        /\ \A d \in Clients \ {c} : cl'[d] = cl[d]
    BY <2>1, CallStep
  <2> DEFINE t == cl[c].tries - 1
  <2>3. t \in 0 .. Retries /\ t \in Nat /\ t <= cl[c].tries
    BY <1>0, RedisClientAssumption
  <2> HIDE DEF t
  <2>4. /\ cl'[c] \in CallType(cl'[c].told)
        /\ cl'[c].kind = cl[c].kind /\ cl'[c].cmds = cl[c].cmds /\ cl'[c].state = "run"
        /\ cl'[c].at = cl[c].at /\ cl'[c].tries = t /\ cl'[c].conn = NoConn
    <3>1. cl'[c] = [cl[c] EXCEPT !.tries = t]
      BY <2>2 DEF t
    <3> QED
      BY <1>0, <2>3, <3>1 DEF CallType
  <2>5. Once(c)' /\ InOrder(c)' /\ Exact(c)' /\ Truth(c)'
    <3>1. Executed(c) = 0 /\ Executed(c)' = 0
      BY <1>0, <2>4 DEF Executed, Connected
    <3> QED
      BY <1>0, <2>3, <2>4, <3>1, QuietHolds
  <2>6. Placed(c)'
    BY <1>0, <2>4 DEF Placed, Place, Connected
  <2>7. Holds(c)'
    BY <2>4, <2>5, <2>6 DEF Holds, Connected
  <2>8. Pool' /\ idle' \in SUBSET Conns
    <3>1. \A e \in Clients : cl'[e].conn = cl[e].conn
      BY <1>0, <2>2, <2>4
    <3>2. \A d \in Clients : Connected(d)' => d # c /\ Connected(d) /\ cl'[d] = cl[d]
      BY <2>2, <2>4 DEF Connected
    <3> QED
      BY <1>4, <3>1, <3>2 DEF IInv, Types, Pool
  <2>9. /\ \A d \in Clients \ {c} : Kept(d)
        /\ data' \in Store /\ conn' \in [Conns -> ConnType]
        /\ rx' = [x \in Clients |-> rx'[x]] /\ rx'[c] \in Locals
        /\ ghost' = [x \in Clients |-> ghost'[x]] /\ ghost'[c] \in History
    BY <1>0, <1>4, <2>2, AllKept
  <2> QED
    BY <1>0, <2>2, <2>4, <2>7, <2>8, <2>9, OneClient
<1> QED
  BY <1>2, <1>3, <1>4 DEF TakeConnection

LEMMA AppendCommandsInv ==
    ASSUME IInv, NEW c \in Clients, AppendCommands(c)
    PROVE  IInv'
<1> DEFINE k == cl[c].conn
<1> DEFINE n == Len(cl[c].cmds)
<1> DEFINE q == [i \in DOMAIN cl[c].cmds |-> Queued(i, cl[c].cmds[i])]
<1>0. /\ cl[c].state = "run" /\ cl[c].kind = "pipeline" /\ Connected(c) /\ cl[c].at = 1
      /\ k \in Conns /\ conn[k] \in ConnType /\ conn \in [Conns -> ConnType]
      /\ Session(c, k) /\ Holds(c) /\ cl[c].tries \in Nat
      /\ cl[c] \in CallType(cl[c].told) /\ k \notin idle /\ conn[k].unread = 0
      /\ cl[c].cmds \in Seq(Commands) /\ 1 \in 1 .. n
  <2>1. /\ cl[c].state = "run" /\ cl[c].kind = "pipeline" /\ Connected(c) /\ cl[c].at = 1
        /\ conn[k].unread = 0
    BY DEF AppendCommands, Running
  <2>2. Session(c, k) /\ Holds(c) /\ Placed(c)
    BY <2>1 DEF IInv, Holds
  <2>3. cl[c].cmds \in Seq(Commands) /\ 1 \in 1 .. n
    BY <2>1, <2>2 DEF Placed, Place
  <2> QED
    BY <2>1, <2>2, <2>3, CallFields DEF IInv, Types, Pool
<1>1. /\ data' = data /\ rx' = rx /\ ghost' = ghost /\ program' = program /\ cl' = cl
      /\ idle' = idle /\ conn' = [conn EXCEPT ![k].unread = n, ![k].queue = q]
  BY DEF AppendCommands
<1>2. conn' = [conn EXCEPT ![k] = [conn[k] EXCEPT !.unread = n, !.queue = q]]
  <2> HIDE DEF n, q
  <2> QED
    BY <1>0, <1>1
<1>3. n \in Nat /\ DOMAIN cl[c].cmds = 1 .. n
  BY <1>0, LenProperties
<1>4. q \in Queue /\ Len(q) = n /\ \A i \in 1 .. n : q[i].at = i
  <2>1. ASSUME NEW i \in 1 .. n
        PROVE  Queued(i, cl[c].cmds[i]) \in [at : Int, cmd : Commands]
    <3>1. cl[c].cmds[i] \in Commands
      BY <1>0, ElementOfSeq, Zenon
    <3> QED
      BY <3>1 DEF Queued
  <2> DEFINE X == [at : Int, cmd : Commands]
  <2> DEFINE e == [i \in 1 .. n |-> Queued(i, cl[c].cmds[i])]
  <2>2. q = e /\ e \in [1 .. n -> X]
    BY <1>3, <2>1
  <2>3. \A i \in 1 .. n : e[i].at = i
    BY DEF Queued
  <2> HIDE DEF X, e, n, q
  <2>4. e \in Seq(X) /\ Len(e) = n
    BY <1>3, <2>2
  <2> QED
    BY <2>2, <2>3, <2>4 DEF Queue, X
<1> HIDE DEF q
<1>5. /\ conn'[k] \in ConnType /\ conn'[k].unread = n /\ conn'[k].multi = conn[k].multi
      /\ conn'[k].dirty = conn[k].dirty /\ conn'[k].queue = q
  <2> HIDE DEF n
  <2>1. conn'[k] = [conn[k] EXCEPT !.unread = n, !.queue = q]
    BY <1>0, <1>2
  <2> HIDE DEF k
  <2> QED
    BY <1>0, <1>3, <1>4, <2>1 DEF ConnType
<1>6. conn' \in [Conns -> ConnType] /\ conn' = [conn EXCEPT ![k] = conn'[k]]
      /\ \A j \in Conns \ {k} : conn'[j] = conn[j]
  BY <1>0, <1>2, <1>5
<1>7. Session(c, k)'
  <2>1. ~conn[k].multi /\ ~conn[k].dirty
    <3> HIDE DEF n, q, k
    <3>0. ~Clean.multi /\ ~Clean.dirty
      BY DEF Clean
    <3>1. CASE conn[k] = Clean
      BY <3>0, <3>1, Zenon
    <3>2. CASE ~conn[k].multi /\ ~conn[k].dirty
      BY <3>2
    <3> QED
      BY <1>0, <3>1, <3>2, Zenon DEF Session
  <2>2. k' = k /\ cl'[c].at = 1 /\ cl'[c].kind = "pipeline" /\ Len(cl'[c].cmds) = n
    BY <1>0, <1>1
  <2> HIDE DEF n, k
  <2>3. ~conn'[k].multi /\ ~conn'[k].dirty
    BY <1>5, <2>1
  <2>4. conn'[k].unread = Len(cl'[c].cmds) - cl'[c].at + 1 /\ Len(conn'[k].queue) = n
    BY <1>3, <1>4, <1>5, <2>2
  <2>5. \A i \in 1 .. Len(conn'[k].queue) :
           conn'[k].queue[i].at = Len(cl'[c].cmds) - Len(conn'[k].queue) + i
    BY <1>3, <1>4, <1>5, <2>2
  <2>6. Len(conn'[k].queue) <= conn'[k].unread
    BY <1>3, <1>4, <1>5
  <2> QED
    BY <2>2, <2>3, <2>4, <2>5, <2>6, Zenon DEF Session
<1>8. Holds(c)'
  <2>1. Executed(c)' = Executed(c)
    <3>1. Executed(c) = 0
      BY <1>0 DEF Executed
    <3>2. Executed(c)' = 0
      <4>1. Len(cl'[c].cmds) = n /\ Len(conn'[k].queue) = n /\ cl'[c].conn = k
        BY <1>1, <1>4, <1>5
      <4> HIDE DEF n, k
      <4>2. n - n = 0
        BY <1>3
      <4> QED
        BY <4>1, <4>2 DEF Executed
    <3> QED
      BY <3>1, <3>2
  <2>2. Once(c)' /\ InOrder(c)' /\ Exact(c)' /\ Truth(c)'
    BY <1>0, <1>1, <2>1, QuietHolds
  <2>3. Placed(c)'
    BY <1>0, <1>1 DEF Holds, Placed, Place, Connected
  <2> QED
    BY <1>1, <1>7, <2>2, <2>3 DEF Holds
<1>9. ASSUME NEW d \in Clients \ {c} PROVE Kept(d)
  <2>1. Connected(d) => cl[d].conn # k /\ cl[d].conn \in Conns
    BY <1>0, CallFields DEF IInv, Pool
  <2>2. ghost[d] \in History /\ ghost[d].steady \subseteq data.keys
    BY HistoryFields DEF IInv, Holds, Exact
  <2> QED
    BY <1>1, <1>6, <2>1, <2>2 DEF Kept
<1>10. Pool' /\ idle' \in SUBSET Conns
  <2>1. \A j \in idle' : conn'[j] = Clean
    BY <1>0, <1>1, <1>6 DEF IInv, Types, Pool
  <2> QED
    BY <1>1, <2>1 DEF IInv, Types, Pool, Connected
<1>11. /\ cl' = [x \in Clients |-> cl'[x]] /\ cl'[c] \in CallType(cl'[c].told)
       /\ rx' = [x \in Clients |-> rx'[x]] /\ rx'[c] \in Locals /\ data' \in Store
       /\ ghost' = [x \in Clients |-> ghost'[x]] /\ ghost'[c] \in History
  BY <1>1 DEF IInv, Types
<1> QED
  BY <1>1, <1>6, <1>8, <1>9, <1>10, <1>11, OneClient

\* Other programs change the keys.
LEMMA AddKeyInv ==
    ASSUME IInv, AddKey
    PROVE  IInv'
<1>1. PICK k \in Keys : data' = [data EXCEPT !.keys = @ \cup {k}]
  BY DEF AddKey
<1>2. /\ program' = program /\ conn' = conn /\ idle' = idle /\ cl' = cl /\ rx' = rx
      /\ ghost' = ghost
  BY DEF AddKey
<1>3. data' \in Store /\ data'.keys = data.keys \cup {k}
  <2>1. data \in Store /\ data.keys \cup {k} \in SUBSET Keys /\ data \in Data
    BY StoreFields DEF IInv, Types, Store
  <2>2. data' = [data EXCEPT !.keys = data.keys \cup {k}]
    BY <1>1
  <2>3. data' \in Store
    BY <2>1, <2>2, StoreFields
  <2> QED
    BY <2>1, <2>2, <2>3 DEF Data
<1>4. ASSUME NEW d \in Clients PROVE Kept(d)
  BY <1>2, <1>3, HistoryFields DEF IInv, Holds, Exact, Kept
<1>5. \A d \in Clients : Holds(d)'
  BY <1>4, KeptHolds DEF IInv
<1>6. Types' /\ Pool'
  BY <1>2, <1>3 DEF IInv, Types, Pool, Connected
<1> QED
  BY <1>5, <1>6 DEF IInv

LEMMA KeyExpiresInv ==
    ASSUME IInv, KeyExpires
    PROVE  IInv'
<1>1. PICK k \in data.keys : /\ data' = [data EXCEPT !.keys = @ \ {k}]
                             /\ ghost' = Steady(data')
  BY DEF KeyExpires
<1>2. program' = program /\ conn' = conn /\ idle' = idle /\ cl' = cl /\ rx' = rx
  BY DEF KeyExpires
<1>3. data' \in Store
  <2>1. data \in Store /\ data.keys \ {k} \in SUBSET Keys
    BY StoreFields DEF IInv, Types
  <2>2. data' = [data EXCEPT !.keys = data.keys \ {k}]
    BY <1>1
  <2> QED
    BY <2>1, <2>2, StoreFields
<1>4. ASSUME NEW d \in Clients PROVE Kept(d)
  <2>1. ghost'[d] = [ghost[d] EXCEPT !.steady = @ \cap data'.keys] /\ ghost[d] \in History
    BY <1>1, HistoryFields DEF Steady
  <2>2. /\ ghost'[d] \in History
        /\ ghost'[d].applied = ghost[d].applied /\ ghost'[d].lost = ghost[d].lost
        /\ ghost'[d].refused = ghost[d].refused
        /\ ghost'[d].before = ghost[d].before /\ ghost'[d].after = ghost[d].after
        /\ ghost'[d].deleted = ghost[d].deleted /\ ghost'[d].unheard = ghost[d].unheard
        /\ ghost'[d].steady \subseteq ghost[d].steady \cap data'.keys
    BY <2>1 DEF History
  <2> QED
    BY <1>2, <2>2 DEF Kept
<1>5. \A d \in Clients : Holds(d)'
  BY <1>4, KeptHolds DEF IInv
<1>6. ghost' \in [Clients -> History]
  <2>1. \A d \in Clients : [ghost[d] EXCEPT !.steady = @ \cap data'.keys] \in History
    BY HistoryFields DEF History
  <2> QED
    BY <1>1, <2>1 DEF Steady
<1>7. Types' /\ Pool'
  BY <1>2, <1>3, <1>6 DEF IInv, Types, Pool, Connected
<1> QED
  BY <1>5, <1>7 DEF IInv

-----------------------------------------------------------------------------
(* A new call.                                                             *)

LEMMA CallsForm ==
    ASSUME NEW call \in Calls
    PROVE  /\ call.kind \in {"command", "transaction", "pipeline", "removex"}
           /\ call.cmds \in Seq(Commands \cup Scans(0 .. NKeys))
           /\ call.kind # "removex" => call.cmds \in Seq(Commands)
           /\ call.kind \in {"command", "removex"} => Len(call.cmds) = 1
           /\ call.kind = "pipeline" => 1 \in 1 .. Len(call.cmds)
           /\ call.kind = "removex" =>
                /\ call.cmds[1].arg.count \in Nat \ {0}
                /\ call.cmds[1] = ScanFrom(0, call.cmds[1].arg.count)
<1>1. \A X, Y : \A q \in Seq(X) : X \subseteq Y => q \in Seq(Y)
  OBVIOUS
<1>2. CASE call.kind = "removex"
  <2>1. call.cmds \in Seq(Scans({0})) /\ Len(call.cmds) = 1
    BY <1>2 DEF Calls
  <2>2. call.cmds[1] \in Scans({0})
    BY <2>1
  <2>3. /\ call.cmds[1].arg.count \in Nat \ {0}
        /\ call.cmds[1] = ScanFrom(0, call.cmds[1].arg.count)
    BY <2>2 DEF Scans, ScanFrom, Cmd
  <2>4. Scans({0}) \subseteq Commands \cup Scans(0 .. NKeys)
    BY RedisCommandsAssumption DEF Scans
  <2>5. call.cmds \in Seq(Commands \cup Scans(0 .. NKeys))
    BY <1>1, <2>1, <2>4, Zenon
  <2> QED
    BY <1>2, <2>1, <2>3, <2>5
<1>3. CASE call.kind # "removex"
  <2>1. /\ call.cmds \in Seq(Commands)
        /\ call.kind \in {"command", "transaction", "pipeline"}
        /\ call.kind = "command" => Len(call.cmds) = 1
        /\ call.kind = "pipeline" => call.cmds # <<>>
    BY <1>3 DEF Calls
  <2>3. call.cmds # <<>> => 1 \in 1 .. Len(call.cmds)
    <3> DEFINE q == call.cmds
    <3>1. q \in Seq(Commands)
      BY <2>1
    <3> HIDE DEF q
    <3>2. q # <<>> => 1 \in 1 .. Len(q)
      BY <3>1
    <3> QED
      BY <3>2 DEF q
  <2>2. call.cmds \in Seq(Commands \cup Scans(0 .. NKeys))
    <3>1. Commands \subseteq Commands \cup Scans(0 .. NKeys)
      OBVIOUS
    <3> QED
      BY <1>1, <2>1, <3>1, Zenon
  <2> QED
    BY <1>3, <2>1, <2>2, <2>3
<1> QED
  BY <1>2, <1>3

LEMMA CallInv ==
    ASSUME IInv, NEW c \in Clients, Call(c)
    PROVE  IInv'
<1> DEFINE call == program[c][cl[c].calls + 1]
<1> DEFINE nothing == call.kind = "command" /\ NothingToDo(call.cmds[1])
<1> DEFINE state == IF nothing THEN "done" ELSE "run"
<1> DEFINE outcome == IF nothing THEN "nothing" ELSE "none"
<1> DEFINE told == IF nothing THEN Nothing(call.cmds[1]) ELSE 0
<1> DEFINE r == [kind |-> call.kind, cmds |-> call.cmds, at |-> Start(call.kind),
                 tries |-> Retries, conn |-> NoConn, calls |-> cl[c].calls + 1,
                 state |-> state, outcome |-> outcome, told |-> told]
<1>1. call \in Calls /\ cl[c].calls \in Nat
  <2>1. program[c] \in Seq(Calls) /\ cl[c].calls \in Nat /\ cl[c].calls < Len(program[c])
    BY RedisClientAssumption, CallFields DEF IInv, Types, Call
  <2> QED
    BY <2>1
<1>2. /\ call.kind \in {"command", "transaction", "pipeline", "removex"}
      /\ call.cmds \in Seq(Commands \cup Scans(0 .. NKeys))
      /\ call.kind # "removex" => call.cmds \in Seq(Commands)
      /\ call.kind \in {"command", "removex"} => Len(call.cmds) = 1
      /\ call.kind = "pipeline" => 1 \in 1 .. Len(call.cmds)
      /\ call.kind = "removex" =>
           /\ call.cmds[1].arg.count \in Nat \ {0}
           /\ call.cmds[1] = ScanFrom(0, call.cmds[1].arg.count)
  BY <1>1, CallsForm
<1>3. /\ cl[c].state # "run" /\ cl' = [cl EXCEPT ![c] = r]
      /\ data' = data /\ program' = program /\ conn' = conn /\ idle' = idle
      /\ ~Connected(c)
  BY CallFields DEF Call
<1>4. /\ state \in {"run", "done"} /\ outcome \in {"none", "nothing"}
      /\ state = "done" => outcome = "nothing" /\ call.kind = "command"
      /\ state = "run" => outcome = "none"
      /\ call.kind = "command" =>
           (state = "run" <=> ~NothingToDo(call.cmds[1]))
  OBVIOUS
<1>5. /\ cl' = [x \in Clients |-> cl'[x]] /\ cl'[c] = r
      /\ \A d \in Clients \ {c} : cl'[d] = cl[d]
  <2> HIDE DEF r
  <2> QED
    BY <1>3, CallStep
<1>20. state = "done" =>
         /\ call.kind = "command" /\ NothingToDo(call.cmds[1])
         /\ told = Nothing(call.cmds[1])
  OBVIOUS
<1> HIDE DEF told, outcome, state, nothing
<1>6. /\ cl'[c].kind = call.kind /\ cl'[c].cmds = call.cmds /\ cl'[c].at = Start(call.kind)
      /\ cl'[c].tries = Retries /\ cl'[c].conn = NoConn /\ cl'[c].state = state
      /\ cl'[c].outcome = outcome /\ cl'[c].told = told
  BY <1>5
<1>7. cl'[c] \in CallType(cl'[c].told)
  <2>1. Start(call.kind) \in Int /\ Retries \in 0 .. Retries
    BY RedisClientAssumption DEF Start
  <2>2. r.told = told
    OBVIOUS
  <2>3. r \in CallType(told)
    <3> HIDE DEF call
    <3> QED
      BY <1>1, <1>2, <1>4, <2>1 DEF CallType
  <2> HIDE DEF r
  <2> QED
    BY <1>5, <2>2, <2>3
<1> HIDE DEF r
<1>8. /\ rx' = [x \in Clients |-> rx'[x]]
      /\ rx'[c] = IF call.kind = "removex"
                    THEN [NoRemovex EXCEPT !.batch = call.cmds[1].arg.count] ELSE NoRemovex
      /\ \A d \in Clients \ {c} : rx'[d] = rx[d]
  BY DEF Call, IInv, Types
<1>9. /\ ghost' = [x \in Clients |-> ghost'[x]]
      /\ ghost'[c] = IF call.kind = "removex"
                       THEN [NoHistory EXCEPT !.steady = data.keys \cap Matching]
                       ELSE [NoHistory EXCEPT !.applied = [i \in DOMAIN call.cmds |-> 0],
                                              !.refused = [i \in DOMAIN call.cmds |-> 0],
                                              !.before = data, !.after = data]
      /\ \A d \in Clients \ {c} : ghost'[d] = ghost[d]
  BY DEF Call, IInv, Types
<1> DEFINE n == [i \in DOMAIN call.cmds |-> 0]
<1>10. n \in Seq(Nat) /\ Len(n) = Len(call.cmds) /\ \A i \in 1 .. Len(n) : n[i] = 0
  <2> DEFINE S == Commands \cup Scans(0 .. NKeys)
  <2> DEFINE cmds == call.cmds
  <2>1. cmds \in Seq(S)
    BY <1>2
  <2>2. DOMAIN cmds = 1 .. Len(cmds) /\ Len(cmds) \in Nat
    <3> HIDE DEF S, cmds
    <3> QED
      BY <2>1, LenProperties
  <2> QED
    BY <2>2
<1> HIDE DEF n
<1>11. data.keys \in SUBSET Keys
  BY StoreFields DEF IInv, Types
<1>12. ASSUME call.kind = "removex"
       PROVE  rx'[c] \in Locals /\ ghost'[c] \in History /\ Holds(c)'
  <2>1. /\ rx'[c] \in Locals /\ rx'[c].batch = call.cmds[1].arg.count
        /\ rx'[c].cursor = 0 /\ rx'[c].prev = 0 /\ rx'[c].removed = 0 /\ rx'[c].found = 0
    <3> DEFINE b == call.cmds[1].arg.count
    <3>1. b \in Nat /\ rx'[c] = [NoRemovex EXCEPT !.batch = b] /\ 0 \in 0 .. NKeys
      BY <1>2, <1>8, <1>12, RedisCommandsAssumption
    <3> HIDE DEF b
    <3>2. /\ rx'[c] \in Locals /\ rx'[c].batch = b
          /\ rx'[c].cursor = 0 /\ rx'[c].prev = 0 /\ rx'[c].removed = 0 /\ rx'[c].found = 0
      BY <3>1 DEF NoRemovex, Locals
    <3> QED
      BY <3>2 DEF b
  <2>2. /\ ghost'[c] \in History /\ ghost'[c].applied = <<>> /\ ghost'[c].lost = 0
        /\ ghost'[c].refused = <<>>
        /\ ghost'[c].steady = data.keys \cap Matching
        /\ ghost'[c].deleted = 0 /\ ghost'[c].unheard = 0
    <3> DEFINE K == data.keys \cap Matching
    <3>1. K \in SUBSET Keys /\ ghost'[c] = [NoHistory EXCEPT !.steady = K]
      BY <1>9, <1>11, <1>12
    <3> HIDE DEF K
    <3>2. /\ ghost'[c].applied = <<>> /\ ghost'[c].lost = 0 /\ ghost'[c].refused = <<>>
          /\ ghost'[c].steady = K /\ ghost'[c].deleted = 0 /\ ghost'[c].unheard = 0
      BY <3>1 DEF NoHistory
    <3>3. NoHistory \in History
      BY DEF NoHistory, History
    <3>4. ghost'[c] \in History
      BY <3>1, <3>3 DEF History
    <3> QED
      BY <3>2, <3>4 DEF K
  <2>3. state = "run"
    BY <1>4, <1>12
  <2>4. Placed(c)'
    BY <1>2, <1>6, <1>12, <2>3 DEF Placed, Place, Start, Connected
  <2>5. Once(c)' /\ InOrder(c)'
    BY <1>6, <1>12, <2>2 DEF Once, InOrder
  <2>6. Exact(c)'
    <3>1. Scanning(c)'
      <4>1. \A k \in Keys : k > 0
        BY DEF Keys
      <4> QED
        BY <1>2, <1>6, <1>11, <1>12, <2>1, <2>2, <4>1 DEF Scanning
    <3> QED
      BY <1>2, <1>3, <1>6, <1>12, <2>1, <2>2, <2>3, <3>1 DEF Exact
  <2>7. Truth(c)' /\ ~Connected(c)'
    BY <1>6, <1>12 DEF Truth, Done, Connected
  <2>8. Holds(c)'
    BY <2>4, <2>5, <2>6, <2>7 DEF Holds
  <2> QED
    BY <2>1, <2>2, <2>8
<1>13. ASSUME call.kind # "removex"
       PROVE  rx'[c] \in Locals /\ ghost'[c] \in History /\ Holds(c)'
  <2>1. rx'[c] \in Locals
    BY <1>8, <1>13, RedisCommandsAssumption DEF NoRemovex, Locals
  <2>2. /\ ghost'[c] \in History /\ ghost'[c].applied = n /\ ghost'[c].refused = n
        /\ ghost'[c].lost = 0 /\ ghost'[c].steady = {}
        /\ ghost'[c].before = data /\ ghost'[c].after = data
    <3>1. /\ ghost'[c] = [NoHistory EXCEPT !.applied = n, !.refused = n,
                                          !.before = data, !.after = data]
          /\ n \in Seq(Nat)
      BY <1>9, <1>10, <1>13, Zenon DEF n
    <3>2. /\ ghost'[c].applied = n /\ ghost'[c].refused = n
          /\ ghost'[c].lost = 0 /\ ghost'[c].steady = {}
          /\ ghost'[c].before = data /\ ghost'[c].after = data
      BY <3>1 DEF NoHistory
    <3>3. data \in Data
      BY StoreFields DEF IInv, Types, Store
    <3>5. ghost'[c] = [applied |-> n, refused |-> n, lost |-> 0, before |-> data,
                       after |-> data, steady |-> {}, deleted |-> 0, unheard |-> 0]
      BY <3>1 DEF NoHistory
    <3>4. ghost'[c] \in History
      <4> DEFINE A == Seq(Nat)
      <4> DEFINE D == Data \cup {0}
      <4>1. n \in A /\ data \in D /\ {} \in SUBSET Keys /\ 0 \in Nat
        BY <1>10, <3>3
      <4> HIDE DEF n, A, D
      <4>2. ghost'[c] \in [applied : A, refused : A, lost : Nat, before : D, after : D,
                           steady : SUBSET Keys, deleted : Nat, unheard : Nat]
        BY <3>5, <4>1
      <4> QED
        BY <4>2 DEF History, A, D
    <3> QED
      BY <3>2, <3>4
  <2>3. Placed(c)'
    <3> HIDE DEF call
    <3>1. ~Connected(c)'
      BY <1>6 DEF Connected
    <3>2. call.cmds \in Seq(Commands) /\ Len(call.cmds) \in Nat
      <4>1. call.cmds \in Seq(Commands)
        BY <1>2, <1>13, Zenon
      <4> QED
        BY <4>1, LenProperties
    <3>3. state = "run" => Place(c)'
      <4>1. CASE call.kind = "command"
        BY <1>2, <1>6, <4>1 DEF Place, Start
      <4>2. CASE call.kind = "transaction"
        <5>1. 0 \in -1 .. Len(call.cmds) + 1
          BY <3>2
        <5>2. cl'[c].at = 0
          BY <1>6, <4>2 DEF Start
        <5> QED
          BY <1>6, <4>2, <5>1, <5>2, Zenon DEF Place
      <4>3. CASE call.kind = "pipeline"
        <5>1. cl'[c].at = 1 /\ 1 \in 1 .. Len(cl'[c].cmds)
          BY <1>2, <1>6, <4>3 DEF Start
        <5> QED
          BY <1>6, <4>3, <5>1, Zenon DEF Place
      <4> QED
        BY <1>2, <1>13, <4>1, <4>2, <4>3
    <3>4. cl'[c].at = Start(cl'[c].kind)
      BY <1>6
    <3>5. call.kind \notin {"none", "removex"} /\ state # "idle"
      BY <1>2, <1>4, <1>13
    <3>6. call.kind = "command" /\ state = "run" => ~NothingToDo(call.cmds[1])
      BY <1>4
    <3> QED
      BY <1>2, <1>6, <3>1, <3>2, <3>3, <3>4, <3>5, <3>6 DEF Placed
  <2>4. Once(c)'
    <3>1. Retries \in Nat
      BY RedisClientAssumption
    <3> HIDE DEF call
    <3>2. CASE call.kind = "pipeline"
      BY <1>6, <1>10, <2>2, <3>1, <3>2 DEF Once
    <3>3. CASE call.kind \in {"command", "transaction"}
      <4> DEFINE z == Len(n)
      <4>1. /\ z = Len(cl'[c].cmds) /\ cl'[c].outcome # "ok" /\ cl'[c].tries = Retries
            /\ Len(ghost'[c].refused) = z /\ Len(ghost'[c].applied) = z
            /\ \A i \in 1 .. z : ghost'[c].applied[i] = 0 /\ ghost'[c].refused[i] = 0
        BY <1>4, <1>6, <1>10, <2>2
      <4>2. cl'[c].kind \in {"command", "transaction"} /\ ghost'[c].lost = 0
        BY <1>6, <2>2, <3>3
      <4> HIDE DEF z
      <4> QED
        BY <3>1, <4>1, <4>2 DEF Once
    <3> QED
      BY <1>2, <1>13, <3>2, <3>3
  <2>5. Exact(c)'
    BY <1>6, <1>13, <2>2 DEF Exact
  <2>6. Truth(c)' /\ ~Connected(c)'
    <3>1. CASE state = "done"
      <4> DEFINE cmd == call.cmds[1]
      <4>1. cmd \in Commands
        <5>1. call.kind = "command"
          BY <1>20, <3>1, Zenon
        <5> HIDE DEF call
        <5>2. call.cmds \in Seq(Commands) /\ 1 \in 1 .. Len(call.cmds)
          BY <1>2, <5>1
        <5> QED
          BY <5>2, ElementOfSeq, Zenon DEF cmd
      <4>2. NothingToDo(cmd) /\ told = Nothing(cmd) /\ data \in Store
        BY <1>20, <3>1 DEF IInv, Types
      <4>3. cl'[c].cmds[1] = cmd /\ cl'[c].told = told
        BY <1>6
      <4> HIDE DEF cmd
      <4>4. Promised(cl'[c].cmds[1], cl'[c].told, ghost'[c].before, ghost'[c].after)
        BY <2>2, <4>1, <4>2, <4>3, NothingTold
      <4> QED
        BY <1>6, <4>4, Zenon DEF Truth, Connected
    <3>2. CASE state = "run"
      BY <1>6, <3>2 DEF Truth, Done, Connected
    <3> QED
      BY <1>4, <3>1, <3>2
  <2>8. InOrder(c)'
    <3> HIDE DEF call
    <3> SUFFICES ASSUME cl'[c].kind = "pipeline"
                 PROVE  InOrder(c)'
      BY Zenon DEF InOrder
    <3>1. Executed(c)' = 0
      BY <2>6 DEF Executed
    <3>2. cl'[c].outcome = "none" /\ cl'[c].tries = Retries /\ Retries \in Nat
      <4>1. call.kind # "command"
        BY <1>6
      <4> QED
        BY <1>4, <1>6, <4>1, RedisClientAssumption
    <3>3. \A i \in 1 .. Len(cl'[c].cmds) : Earlier(c, i)' = 0
      <4> SUFFICES ASSUME NEW i \in 1 .. Len(cl'[c].cmds)
                   PROVE  Earlier(c, i)' = 0
        OBVIOUS
      <4>1. i \in 1 .. Len(n) /\ i \in Int /\ ~(i <= 0)
        BY <1>6, <1>10
      <4>3. ghost'[c].applied[i] = 0 /\ ghost'[c].refused[i] = 0
        BY <1>10, <2>2, <4>1, Zenon
      <4>2. Answers(c, i)' = 0
        BY <4>3 DEF Answers
      <4>4. ~(i <= Executed(c)')
        BY <3>1, <4>1
      <4>5. 0 - 0 = 0
        OBVIOUS
      <4> QED
        BY <4>2, <4>4, <4>5, Zenon DEF Earlier
    <3> QED
      BY <3>2, <3>3 DEF InOrder
  <2>7. Holds(c)'
    BY <2>3, <2>4, <2>5, <2>6, <2>8 DEF Holds
  <2> QED
    BY <2>1, <2>2, <2>7
<1>14. ASSUME NEW d \in Clients \ {c} PROVE Kept(d)
  <2>1. ghost[d] \in History /\ ghost[d].steady \subseteq data.keys
    BY HistoryFields DEF IInv, Holds, Exact
  <2> QED
    BY <1>3, <1>5, <1>8, <1>9, <2>1 DEF Kept
<1>15. Pool' /\ idle' \in SUBSET Conns
  <2>1. \A e \in Clients : cl'[e].conn = cl[e].conn
    BY <1>3, <1>5, <1>6 DEF Connected
  <2>2. \A d \in Clients : Connected(d)' => d # c /\ Connected(d) /\ cl'[d] = cl[d]
    BY <1>5, <1>6 DEF Connected
  <2> QED
    BY <1>3, <2>1, <2>2 DEF IInv, Types, Pool
<1>16. data' \in Store /\ conn' \in [Conns -> ConnType]
  BY <1>3 DEF IInv, Types
<1> QED
  BY <1>3, <1>5, <1>7, <1>8, <1>9, <1>12, <1>13, <1>14, <1>15, <1>16, OneClient

-----------------------------------------------------------------------------
(* An answer.                                                              *)

LEMMA ReturnedFields ==
    ASSUME IInv, NEW c \in Clients, NEW o \in {"ok", "err", "threw"}, NEW v, Returned(c, o, v)
    PROVE  /\ cl'[c] \in CallType(cl'[c].told)
           /\ cl'[c].kind = cl[c].kind /\ cl'[c].cmds = cl[c].cmds
           /\ cl'[c].state = "done" /\ cl'[c].outcome = o /\ cl'[c].told = v
           /\ cl'[c].tries = 0 /\ cl'[c].conn = NoConn
           /\ cl' = [x \in Clients |-> cl'[x]] /\ \A d \in Clients \ {c} : cl'[d] = cl[d]
           /\ idle' = idle \cup {cl[c].conn}
<1> DEFINE r == [cl[c] EXCEPT !.state = "done", !.outcome = o, !.told = v, !.tries = 0,
                              !.conn = NoConn]
<1>1. cl = [x \in Clients |-> cl[x]] /\ cl[c] \in CallType(cl[c].told) /\ 0 \in 0 .. Retries
  BY RedisClientAssumption DEF IInv, Types
<1>2. cl' = [cl EXCEPT ![c] = r]
  BY <1>1 DEF Returned
<1>3. /\ r \in CallType(v)
      /\ r.kind = cl[c].kind /\ r.cmds = cl[c].cmds
      /\ r.state = "done" /\ r.outcome = o /\ r.told = v
      /\ r.tries = 0 /\ r.conn = NoConn
  BY <1>1 DEF CallType
<1> HIDE DEF r
<1>4. /\ cl' = [x \in Clients |-> cl'[x]] /\ cl'[c] = r
      /\ \A d \in Clients \ {c} : cl'[d] = cl[d]
  BY <1>2, CallStep
<1>5. idle' = idle \cup {cl[c].conn}
  BY DEF Returned
<1> QED
  BY <1>3, <1>4, <1>5

LEMMA RepliedInv ==
    ASSUME IInv, NEW c \in Clients, Connected(c),
           NEW s, s.ran \in Seq(Int), s.data \in Store, s.conn \in ConnType, Replied(c, s),
           cl' = [x \in Clients |-> cl'[x]], cl'[c] \in CallType(cl'[c].told),
           rx' = [x \in Clients |-> rx'[x]], rx'[c] \in Locals,
           \A d \in Clients \ {c} : cl'[d] = cl[d] /\ rx'[d] = rx[d],
           Holds(c)',
           \/ /\ cl'[c].conn = cl[c].conn /\ idle' = idle
              /\ cl'[c].state = "run" /\ cl'[c].tries > 0
           \/ cl'[c].conn = NoConn /\ idle' = idle
           \/ /\ cl'[c].conn = NoConn /\ idle' = idle \cup {cl[c].conn}
              /\ s.conn = Clean
    PROVE  IInv'
<1>1. program' = program /\ data' = s.data
  BY DEF Replied
<1>2. /\ conn' = [conn EXCEPT ![cl[c].conn] = conn'[cl[c].conn]]
      /\ conn' \in [Conns -> ConnType] /\ conn'[cl[c].conn] = s.conn
  <2>1. conn \in [Conns -> ConnType] /\ cl[c].conn \in Conns
    BY CallFields DEF IInv, Types
  <2> QED
    BY <2>1 DEF Replied
<1>3. Pool' /\ idle' \in SUBSET Conns
  BY <1>2, PoolStep
<1>4. \A d \in Clients \ {c} : Kept(d)
  BY OthersKept
<1>5. ghost' = [x \in Clients |-> ghost'[x]] /\ ghost'[c] \in History
  BY RepliedHistory DEF Happened
<1> QED
  BY <1>1, <1>2, <1>3, <1>4, <1>5, OneClient

\* What a step that is answered leaves of the key history of other calls.
LEMMA NotRemovex ==
    ASSUME IInv, NEW c \in Clients, cl[c].kind # "removex", cl'[c].kind = cl[c].kind,
           NEW s, data' = s.data, Happened(c, s, 0, 0)
    PROVE  Exact(c)'
<1>1. ghost'[c].steady = ghost[c].steady \cap data'.keys
  BY DEF Happened
<1> QED
  BY <1>1 DEF IInv, Holds, Exact

LEMMA HappenedCounts ==
    ASSUME IInv, NEW c \in Clients, NEW s, Happened(c, s, 0, 0)
    PROVE  LET n == ghost[c].applied
               m == ghost'[c].applied
           IN  /\ Len(n) \in Nat /\ m \in Seq(Nat) /\ Len(m) = Len(n)
               /\ ghost'[c].lost = ghost[c].lost /\ ghost[c].lost \in Nat
               /\ ghost'[c].refused = ghost[c].refused
               /\ \A i \in 1 .. Len(n) : m[i] = Grown(c, s.ran, i) /\ n[i] \in Nat
<1>1. ghost[c].applied \in Seq(Nat) /\ ghost[c].lost \in Nat
  BY HistoryFields
<1>2. ghost'[c] \in History
  BY DEF Happened
<1>3. ghost'[c].applied \in Seq(Nat)
  BY <1>2 DEF History
<1>4. \A i \in 1 .. Len(ghost[c].applied) : ghost[c].applied[i] \in Nat
  BY <1>1
<1>5. Len(ghost[c].applied) \in Nat
  BY <1>1
<1>6. ghost'[c].lost = ghost[c].lost /\ ghost'[c].refused = ghost[c].refused
  BY <1>1 DEF Happened
<1> QED
  BY <1>1, <1>3, <1>4, <1>5, <1>6 DEF Happened

LEMMA RunCommandInv ==
    ASSUME IInv, NEW c \in Clients, RunCommand(c)
    PROVE  IInv'
<1> DEFINE k == cl[c].conn
<1> DEFINE cmd == cl[c].cmds[1]
<1>1. /\ cl[c].state = "run" /\ cl[c].kind = "command" /\ Connected(c)
      /\ k \in Conns /\ conn[k] \in ConnType /\ conn[k] = Clean
      /\ cl[c].at = 1 /\ Len(cl[c].cmds) = 1 /\ cmd \in Commands
      /\ Placed(c) /\ Once(c) /\ cl[c].tries > 0 /\ cl[c].tries \in Nat /\ data \in Store
      /\ Retries \in Nat /\ ~NothingToDo(cmd)
  <2>1. cl[c].state = "run" /\ cl[c].kind = "command" /\ Connected(c)
    BY DEF RunCommand, Running, Send
  <2>2. Placed(c) /\ Once(c) /\ Session(c, k) /\ data \in Store
    BY <2>1 DEF IInv, Types, Holds
  <2>3. /\ cl[c].at = 1 /\ Len(cl[c].cmds) = 1 /\ cl[c].cmds \in Seq(Commands)
        /\ conn[k] = Clean /\ ~NothingToDo(cmd)
    BY <2>1, <2>2 DEF Placed, Place, Session
  <2> QED
    BY <2>1, <2>2, <2>3, CallFields
<1>2. Sent(c) = cmd
  BY <1>1 DEF Sent
<1>3. PICK refused \in BOOLEAN :
        LET s == Serve(k, 1, cmd, refused) IN
        \/ /\ Replied(c, s) /\ rx' = rx
           /\ IF isError(s.reply)
                THEN cl' = [cl EXCEPT ![c] = Threw(@)] /\ UNCHANGED idle
                ELSE Returned(c, "ok", Read(cmd, s.reply))
        \/ Unheard(c, s)
  BY <1>1, <1>2 DEF RunCommand, Send, Replied, Unheard
<1> DEFINE s == Serve(k, 1, cmd, refused)
<1>4. /\ s.conn = Clean /\ s.data \in Store /\ s.ran \in Seq(Int)
      /\ isError(s.reply) => s.ran = <<>>
      /\ ~isError(s.reply) => /\ s.ran = <<1>> /\ s.data = Apply(data, cmd).data
                              /\ s.reply = Apply(data, cmd).reply
                              /\ ~isError(Apply(data, cmd).reply)
  <2>1. ~conn[k].multi /\ ~conn[k].dirty /\ Plain(cmd) /\ 1 \in Int
    <3> HIDE DEF k, cmd
    <3>1. ~Clean.multi /\ ~Clean.dirty
      BY DEF Clean
    <3>2. ~conn[k].multi /\ ~conn[k].dirty
      BY <1>1, <3>1, Zenon
    <3>3. Plain(cmd)
      BY <1>1, CommandForm DEF Plain
    <3> QED
      BY <3>2, <3>3
  <2>2. /\ s.conn = Clean
        /\ refused => s.data = data /\ s.reply = Error /\ s.ran = <<>>
        /\ ~refused => /\ s.data = Apply(data, cmd).data
                       /\ s.reply = Apply(data, cmd).reply
                       /\ s.ran = IF isError(Apply(data, cmd).reply) THEN <<>> ELSE <<1>>
    <3> HIDE DEF k, cmd
    <3> QED
      BY <1>1, <2>1, ServedAtOnce
  <2>3. Apply(data, cmd).data \in Store
    BY <1>1, ApplyData
  <2>4. isError(Error) /\ <<>> \in Seq(Int) /\ <<1>> \in Seq(Int)
    BY DEF isError, Error
  <2> HIDE DEF s
  <2>5. CASE refused
    BY <1>1, <2>2, <2>4, <2>5
  <2>6. CASE ~refused
    BY <1>1, <2>2, <2>3, <2>4, <2>6
  <2> QED
    BY <2>5, <2>6
<1> HIDE DEF s, cmd
<1>9. Len(ghost[c].applied) = 1 /\ Times(<<1>>, 1) = 1 /\ Whole(c, s.ran)
  <2>1. Len(ghost[c].applied) = 1
    BY <1>1 DEF Once
  <2>2. Times(<<1>>, 1) = 1
    <3>1. <<1>> \in Seq(Int) /\ Len(<<1>>) = 1 /\ <<1>>[1] = 1
      OBVIOUS
    <3>2. 1 \in 1 .. Len(<<1>>) /\ \A j \in 1 .. Len(<<1>>) : <<1>>[j] = j
      BY <3>1
    <3> QED
      BY <3>1, <3>2, TimesAll
  <2>3. s.ran = <<>> \/ s.ran = <<1>>
    BY <1>4
  <2>4. <<1>> # <<>>
    OBVIOUS
  <2>5. Whole(c, <<1>>)
    BY <2>1, <2>2, <2>4 DEF Whole
  <2> QED
    BY <2>1, <2>2, <2>3, <2>5, WholeNone
<1>5. CASE Unheard(c, s)
  BY <1>1, <1>4, <1>5, <1>9, UnheardInv
<1>6. ASSUME Replied(c, s), rx' = rx
      PROVE  /\ Happened(c, s, 0, 0) /\ data' = s.data
             /\ ghost'[c].before = data /\ ghost'[c].after = s.data
             /\ rx' = [x \in Clients |-> rx'[x]] /\ rx'[c] \in Locals
             /\ Clean \in ConnType
  BY <1>1, <1>4, <1>6, RepliedHistory DEF Replied, IInv, Types
<1>7. CASE /\ Replied(c, s) /\ rx' = rx /\ isError(s.reply)
           /\ cl' = [cl EXCEPT ![c] = Threw(@)] /\ idle' = idle
  <2>1. /\ cl' = [x \in Clients |-> cl'[x]] /\ cl'[c] = Threw(cl[c])
        /\ \A d \in Clients \ {c} : cl'[d] = cl[d]
    BY <1>7, CallStep
  <2>2. /\ cl'[c] \in CallType(cl'[c].told)
        /\ cl'[c].kind = cl[c].kind /\ cl'[c].cmds = cl[c].cmds
        /\ cl'[c].state = "done" /\ cl'[c].conn = NoConn /\ cl'[c].tries = 0
        /\ cl'[c].outcome \notin {"ok", "nothing"}
    BY <2>1, ThrewFields
  <2>3. Holds(c)'
    BY <1>1, <1>4, <1>6, <1>7, <2>2, FailedHolds
  <2> QED
    BY <1>1, <1>4, <1>6, <1>7, <2>1, <2>2, <2>3, RepliedInv
<1>8. CASE /\ Replied(c, s) /\ rx' = rx /\ ~isError(s.reply)
           /\ Returned(c, "ok", Read(cmd, s.reply))
  <2>1. /\ cl'[c] \in CallType(cl'[c].told)
        /\ cl'[c].kind = cl[c].kind /\ cl'[c].cmds = cl[c].cmds
        /\ cl'[c].state = "done" /\ cl'[c].outcome = "ok" /\ cl'[c].told = Read(cmd, s.reply)
        /\ cl'[c].tries = 0 /\ cl'[c].conn = NoConn
        /\ cl' = [x \in Clients |-> cl'[x]] /\ \A d \in Clients \ {c} : cl'[d] = cl[d]
        /\ idle' = idle \cup {cl[c].conn}
    <3> DEFINE v == Read(cmd, s.reply)
    <3> HIDE DEF v
    <3>1. Returned(c, "ok", v)
      BY <1>8 DEF v
    <3> QED
      BY <3>1, ReturnedFields DEF v
  <2>2. Placed(c)' /\ ~Connected(c)'
    BY <1>1, <2>1 DEF Placed, Connected
  <2>3. Once(c)'
    <3> DEFINE n == ghost[c].applied
    <3> DEFINE m == ghost'[c].applied
    <3>1. /\ Len(m) = Len(n) /\ ghost'[c].lost = ghost[c].lost /\ ghost[c].lost \in Nat
          /\ ghost'[c].refused = ghost[c].refused
          /\ \A i \in 1 .. Len(n) : m[i] = Grown(c, s.ran, i) /\ n[i] \in Nat
      BY <1>6, <1>8, HappenedCounts
    <3>2. Len(n) = 1 /\ n[1] = ghost[c].lost /\ ghost[c].lost + cl[c].tries <= Retries
      BY <1>1, <1>9 DEF Once
    <3>5. Len(ghost[c].refused) = 1 /\ ghost[c].refused[1] = 0
      BY <1>1, <1>9 DEF Once
    <3>3. m[1] = n[1] + 1
      BY <1>4, <1>8, <1>9, <3>1, <3>2 DEF Grown
    <3> HIDE DEF m, n
    <3>4. m[1] = ghost'[c].lost + 1 /\ m[1] <= Retries /\ Len(m) = 1
      BY <1>1, <3>1, <3>2, <3>3
    <3>6. Len(ghost'[c].refused) = 1 /\ ghost'[c].refused[1] = 0
      BY <3>1, <3>5
    <3> QED
      BY <1>1, <2>1, <3>4, <3>6 DEF Once, m
  <2>4. Exact(c)'
    BY <1>1, <1>6, <1>8, <2>1, NotRemovex
  <2>5. Truth(c)'
    <3>1. Promised(cmd, Read(cmd, s.reply), data, s.data)
      <4>1. Promised(cmd, Read(cmd, Apply(data, cmd).reply), data, Apply(data, cmd).data)
        BY <1>1, <1>4, <1>8, PromiseKept DEF cmd
      <4> QED
        BY <1>4, <1>8, <4>1
    <3>2. Promised(cl'[c].cmds[1], cl'[c].told, ghost'[c].before, ghost'[c].after)
      BY <1>6, <1>8, <2>1, <3>1 DEF cmd
    <3> QED
      BY <3>2 DEF Truth
  <2>6. Holds(c)'
    BY <1>1, <2>1, <2>2, <2>3, <2>4, <2>5 DEF Holds, InOrder
  <2> QED
    BY <1>1, <1>4, <1>6, <1>8, <2>1, <2>6, RepliedInv
<1> QED
  BY <1>3, <1>5, <1>7, <1>8 DEF s

-----------------------------------------------------------------------------
(* Transactions.                                                           *)

\* The next command is the one at a.
Moves(c, a) == cl' = [cl EXCEPT ![c].at = a]

LEMMA MovedFields ==
    ASSUME IInv, NEW c \in Clients, NEW a, a \in Int, Moves(c, a)
    PROVE  /\ cl'[c] \in CallType(cl'[c].told)
           /\ cl'[c].kind = cl[c].kind /\ cl'[c].cmds = cl[c].cmds
           /\ cl'[c].state = cl[c].state /\ cl'[c].outcome = cl[c].outcome
           /\ cl'[c].tries = cl[c].tries /\ cl'[c].conn = cl[c].conn /\ cl'[c].at = a
           /\ cl' = [x \in Clients |-> cl'[x]] /\ \A d \in Clients \ {c} : cl'[d] = cl[d]
<1> DEFINE r == [cl[c] EXCEPT !.at = a]
<1>1. cl = [x \in Clients |-> cl[x]] /\ cl[c] \in CallType(cl[c].told)
  BY DEF IInv, Types
<1>2. cl' = [cl EXCEPT ![c] = r]
  BY <1>1 DEF Moves
<1>3. /\ r \in CallType(cl[c].told)
      /\ r.kind = cl[c].kind /\ r.cmds = cl[c].cmds
      /\ r.state = cl[c].state /\ r.outcome = cl[c].outcome /\ r.told = cl[c].told
      /\ r.tries = cl[c].tries /\ r.conn = cl[c].conn /\ r.at = a
  BY <1>1 DEF CallType
<1> HIDE DEF r
<1>4. /\ cl' = [x \in Clients |-> cl'[x]] /\ cl'[c] = r
      /\ \A d \in Clients \ {c} : cl'[d] = cl[d]
  BY <1>2, CallStep
<1> QED
  BY <1>3, <1>4

LEMMA UntouchedRx ==
    ASSUME IInv, NEW c \in Clients, rx' = rx
    PROVE  /\ rx' = [x \in Clients |-> rx'[x]] /\ rx'[c] \in Locals
           /\ \A d \in Clients \ {c} : rx'[d] = rx[d]
  BY DEF IInv, Types

\* A transaction that goes on has had nothing applied in this try.
LEMMA TransactionMoved ==
    ASSUME IInv, NEW c \in Clients, Running(c, "transaction"), Connected(c),
           NEW a, a \in -1 .. Len(cl[c].cmds) + 1, Moves(c, a),
           idle' = idle, rx' = rx,
           NEW s, s.ran = <<>>, s.data \in Store, s.conn \in ConnType, Replied(c, s),
           s.conn.multi, a = -1 \/ a > 0,
           a > 0 => /\ ~s.conn.dirty /\ Len(s.conn.queue) = a - 1
                    /\ \A i \in 1 .. Len(s.conn.queue) : s.conn.queue[i].at = i
    PROVE  IInv'
<1>1. /\ cl[c].kind = "transaction" /\ cl[c].state = "run" /\ cl[c].tries > 0
      /\ cl[c].conn \in Conns /\ Placed(c) /\ Once(c) /\ a \in Int
      /\ Len(cl[c].cmds) \in Nat
  BY CallFields DEF IInv, Holds, Running
<1>2. /\ cl'[c] \in CallType(cl'[c].told)
      /\ cl'[c].kind = cl[c].kind /\ cl'[c].cmds = cl[c].cmds
      /\ cl'[c].state = cl[c].state /\ cl'[c].outcome = cl[c].outcome
      /\ cl'[c].tries = cl[c].tries /\ cl'[c].conn = cl[c].conn /\ cl'[c].at = a
      /\ cl' = [x \in Clients |-> cl'[x]] /\ \A d \in Clients \ {c} : cl'[d] = cl[d]
  BY <1>1, MovedFields
<1>3. /\ rx' = [x \in Clients |-> rx'[x]] /\ rx'[c] \in Locals
      /\ \A d \in Clients \ {c} : rx'[d] = rx[d]
  BY UntouchedRx
<1>4. Happened(c, s, 0, 0) /\ data' = s.data /\ s.ran \in Seq(Int)
  <2>1. data' = s.data
    BY DEF Replied
  <2>2. s.ran \in Seq(Int)
    BY <1>1
  <2> QED
    BY <2>1, <2>2, RepliedHistory
<1>5. Placed(c)'
  <2>1. Connected(c)'
    BY <1>2 DEF Connected
  <2> QED
    BY <1>1, <1>2, <2>1 DEF Placed, Place
<1>6. Session(c, cl[c].conn)'
  <2>1. conn'[cl[c].conn] = s.conn
    BY <1>1 DEF Replied, IInv, Types
  <2> QED
    BY <1>1, <1>2, <2>1 DEF Session
<1>7. Once(c)'
  <2> DEFINE n == ghost[c].applied
  <2> DEFINE m == ghost'[c].applied
  <2>1. /\ Len(m) = Len(n) /\ ghost'[c].lost = ghost[c].lost
        /\ ghost'[c].refused = ghost[c].refused
        /\ \A i \in 1 .. Len(n) : m[i] = Grown(c, s.ran, i) /\ n[i] \in Nat
    BY <1>4, HappenedCounts
  <2>2. /\ Len(n) = Len(cl[c].cmds) /\ ghost[c].lost + cl[c].tries <= Retries
        /\ \A i \in 1 .. Len(n) : n[i] = ghost[c].lost /\ ghost[c].refused[i] = 0
        /\ Len(ghost[c].refused) = Len(n)
    BY <1>1 DEF Once
  <2>3. ASSUME NEW i \in 1 .. Len(m) PROVE m[i] = ghost'[c].lost
    <3>1. Times(s.ran, i) = 0
      BY TimesNone
    <3> QED
      BY <2>1, <2>2, <3>1 DEF Grown
  <2> QED
    BY <1>1, <1>2, <2>1, <2>2, <2>3 DEF Once
<1>8. Exact(c)'
  BY <1>1, <1>2, <1>4, NotRemovex
<1>9. Truth(c)'
  BY <1>1, <1>2 DEF Truth, Done
<1>10. Holds(c)'
  BY <1>1, <1>2, <1>5, <1>6, <1>7, <1>8, <1>9 DEF Holds, InOrder
<1> QED
  BY <1>1, <1>2, <1>3, <1>4, <1>10, RepliedInv

\* EXEC has executed all the commands, once more than the answers that were lost.
LEMMA TransactionDone ==
    ASSUME IInv, NEW c \in Clients, Running(c, "transaction"), Connected(c),
           NEW v, Returned(c, "ok", v), rx' = rx,
           NEW s, s.ran \in Seq(Int), Len(s.ran) = Len(cl[c].cmds),
           \A i \in 1 .. Len(s.ran) : s.ran[i] = i, s.data \in Store, s.conn = Clean, Replied(c, s)
    PROVE  IInv'
<1>1. /\ cl[c].kind = "transaction" /\ cl[c].state = "run" /\ cl[c].tries > 0
      /\ cl[c].tries \in Nat /\ Retries \in Nat /\ ghost[c].lost \in Nat
      /\ Placed(c) /\ Once(c) /\ Len(cl[c].cmds) \in Nat /\ Clean \in ConnType
  BY CleanType, CallFields, HistoryFields DEF IInv, Holds, Running
<1>2. /\ cl'[c] \in CallType(cl'[c].told)
      /\ cl'[c].kind = cl[c].kind /\ cl'[c].cmds = cl[c].cmds
      /\ cl'[c].state = "done" /\ cl'[c].outcome = "ok" /\ cl'[c].told = v
      /\ cl'[c].tries = 0 /\ cl'[c].conn = NoConn
      /\ cl' = [x \in Clients |-> cl'[x]] /\ \A d \in Clients \ {c} : cl'[d] = cl[d]
      /\ idle' = idle \cup {cl[c].conn}
  BY ReturnedFields
<1>3. /\ rx' = [x \in Clients |-> rx'[x]] /\ rx'[c] \in Locals
      /\ \A d \in Clients \ {c} : rx'[d] = rx[d]
  BY UntouchedRx
<1>4. Happened(c, s, 0, 0) /\ data' = s.data /\ s.ran \in Seq(Int)
  <2>1. data' = s.data
    BY DEF Replied
  <2>2. s.ran \in Seq(Int)
    BY <1>1
  <2> QED
    BY <2>1, <2>2, RepliedHistory
<1>5. Placed(c)' /\ ~Connected(c)'
  BY <1>1, <1>2 DEF Placed, Connected
<1>7. Once(c)'
  <2> DEFINE n == ghost[c].applied
  <2> DEFINE m == ghost'[c].applied
  <2>1. /\ Len(m) = Len(n) /\ ghost'[c].lost = ghost[c].lost
        /\ ghost'[c].refused = ghost[c].refused
        /\ \A i \in 1 .. Len(n) : m[i] = Grown(c, s.ran, i) /\ n[i] \in Nat
    BY <1>4, HappenedCounts
  <2>2. /\ Len(n) = Len(cl[c].cmds) /\ ghost[c].lost + cl[c].tries <= Retries
        /\ \A i \in 1 .. Len(n) : n[i] = ghost[c].lost /\ ghost[c].refused[i] = 0
        /\ Len(ghost[c].refused) = Len(n)
    BY <1>1 DEF Once
  <2>3. ASSUME NEW i \in 1 .. Len(m)
        PROVE  m[i] = ghost'[c].lost + 1 /\ m[i] <= Retries
    <3>1. m[i] = Grown(c, s.ran, i) /\ n[i] = ghost[c].lost /\ i \in 1 .. Len(s.ran)
      BY <1>1, <2>1, <2>2
    <3>3. Times(s.ran, i) = 1
      BY <3>1, TimesAll
    <3>2. m[i] = ghost[c].lost + 1
      BY <1>1, <3>1, <3>3 DEF Grown
    <3> QED
      BY <1>1, <2>1, <2>2, <3>2
  <2> HIDE DEF m, n
  <2> QED
    BY <1>1, <1>2, <2>1, <2>2, <2>3 DEF Once, m, n
<1>8. Exact(c)'
  BY <1>1, <1>2, <1>4, NotRemovex
<1>9. Truth(c)'
  BY <1>1, <1>2 DEF Truth, Done
<1>10. Holds(c)'
  BY <1>1, <1>2, <1>5, <1>7, <1>8, <1>9 DEF Holds, InOrder
<1>11. s.ran \in Seq(Int) /\ s.conn \in ConnType
  BY <1>1
<1> QED
  BY <1>2, <1>3, <1>10, <1>11, RepliedInv

\* A call whose answer is an error of its own, with its connection clean.
LEMMA FailedInv ==
    ASSUME IInv, NEW c \in Clients, cl[c].state = "run", Connected(c),
           NEW o \in {"err", "threw"}, NEW v, Returned(c, o, v),
           rx' = [x \in Clients |-> rx'[x]], rx'[c] \in Locals,
           \A d \in Clients \ {c} : rx'[d] = rx[d],
           cl[c].kind # "pipeline",
           NEW s, s.ran \in Seq(Int), cl[c].kind # "removex" => s.ran = <<>>,
           s.data \in Store, s.conn = Clean, Replied(c, s)
    PROVE  IInv'
<1>2. /\ cl'[c] \in CallType(cl'[c].told)
      /\ cl'[c].kind = cl[c].kind /\ cl'[c].cmds = cl[c].cmds
      /\ cl'[c].state = "done" /\ cl'[c].outcome = o /\ cl'[c].told = v
      /\ cl'[c].tries = 0 /\ cl'[c].conn = NoConn
      /\ cl' = [x \in Clients |-> cl'[x]] /\ \A d \in Clients \ {c} : cl'[d] = cl[d]
      /\ idle' = idle \cup {cl[c].conn}
  BY ReturnedFields
<1>4. Happened(c, s, 0, 0) /\ data' = s.data /\ s.conn \in ConnType
  <2>1. data' = s.data
    BY DEF Replied
  <2>2. s.conn \in ConnType
    BY CleanType
  <2> QED
    BY <2>1, <2>2, RepliedHistory
<1>5. Holds(c)'
  BY <1>2, <1>4, FailedHolds
<1> QED
  BY <1>2, <1>4, <1>5, RepliedInv

LEMMA RunTransactionInv ==
    ASSUME IInv, NEW c \in Clients, RunTransaction(c)
    PROVE  IInv'
<1> DEFINE k == cl[c].conn
<1> DEFINE at == cl[c].at
<1>1. /\ Running(c, "transaction") /\ Connected(c)
      /\ cl[c].state = "run" /\ cl[c].kind = "transaction"
      /\ k \in Conns /\ conn[k] \in ConnType /\ data \in Store
      /\ cl[c].cmds \in Seq(Commands) /\ Len(cl[c].cmds) \in Nat
      /\ at \in -1 .. Len(cl[c].cmds) + 1
      /\ at = 0 => conn[k] = Clean
      /\ at > 0 => /\ conn[k].multi /\ ~conn[k].dirty /\ Len(conn[k].queue) = at - 1
                   /\ \A i \in 1 .. Len(conn[k].queue) : conn[k].queue[i].at = i
      /\ Len(ghost[c].applied) = Len(cl[c].cmds)
  <2>1. /\ Running(c, "transaction") /\ Connected(c)
        /\ cl[c].state = "run" /\ cl[c].kind = "transaction"
    BY DEF RunTransaction, Running, Send
  <2>2. Placed(c) /\ Session(c, k) /\ data \in Store /\ Once(c)
    BY <2>1 DEF IInv, Types, Holds
  <2>5. Len(ghost[c].applied) = Len(cl[c].cmds)
    BY <2>1, <2>2 DEF Once
  <2>3. cl[c].cmds \in Seq(Commands) /\ at \in -1 .. Len(cl[c].cmds) + 1
    BY <2>1, <2>2 DEF Placed, Place
  <2>4. /\ at = 0 => conn[k] = Clean
        /\ at > 0 => /\ conn[k].multi /\ ~conn[k].dirty /\ Len(conn[k].queue) = at - 1
                     /\ \A i \in 1 .. Len(conn[k].queue) : conn[k].queue[i].at = i
    BY <2>1, <2>2 DEF Session
  <2> QED
    BY <2>1, <2>2, <2>3, <2>4, <2>5, CallFields
<1>2. PICK refused \in BOOLEAN :
        LET s == Serve(k, at, Sent(c), refused) IN
        \/ Replied(c, s) /\ OnTransactionReply(c, s.reply) /\ rx' = rx
        \/ Unheard(c, s)
  BY DEF RunTransaction, Send, Replied, Unheard
<1> DEFINE s == Serve(k, at, Sent(c), refused)
<1>3. CASE at = 0
  <2>1. Sent(c) = Multi
    BY <1>1, <1>3 DEF Sent
  <2>2. /\ s.data = data /\ s.ran = <<>> /\ s.conn \in ConnType
        /\ s.conn.multi /\ ~s.conn.dirty /\ s.conn.queue = <<>>
    <3>1. at \in Int
      BY <1>1
    <3> HIDE DEF at, k
    <3> QED
      BY <1>1, <1>3, <2>1, <3>1, ServedMulti
  <2> HIDE DEF s
  <2>5. Whole(c, s.ran) /\ s.ran \in Seq(Int)
    <3>1. <<>> \in Seq(Int)
      OBVIOUS
    <3> QED
      BY <2>2, <3>1, WholeNone
  <2>3. CASE Unheard(c, s)
    BY <1>1, <2>2, <2>3, <2>5, UnheardInv
  <2>4. CASE Replied(c, s) /\ OnTransactionReply(c, s.reply) /\ rx' = rx
    <3>1. cl' = [cl EXCEPT ![c].at = 1] /\ idle' = idle
      BY <1>1, <1>3, <2>4 DEF OnTransactionReply
    <3> DEFINE a == 1
    <3>2. /\ a \in -1 .. Len(cl[c].cmds) + 1 /\ (a = -1 \/ a > 0)
          /\ Len(s.conn.queue) = a - 1
          /\ \A i \in 1 .. Len(s.conn.queue) : s.conn.queue[i].at = i
      BY <1>1, <2>2
    <3>3. Moves(c, a)
      BY <3>1 DEF Moves
    <3> HIDE DEF a
    <3> QED
      BY <1>1, <2>2, <2>4, <3>1, <3>2, <3>3, TransactionMoved
  <2> QED
    BY <1>2, <2>3, <2>4 DEF s
<1>4. CASE at \in 1 .. Len(cl[c].cmds)
  <2> DEFINE cmd == cl[c].cmds[at]
  <2>1. Sent(c) = cmd /\ cmd \in Commands
    BY <1>1, <1>4 DEF Sent
  <2>2. /\ s.data = data /\ s.ran = <<>> /\ s.conn \in ConnType /\ s.conn.multi
        /\ isError(s.reply) <=> refused
        /\ ~refused => ~s.conn.dirty /\ s.conn.queue = Append(conn[k].queue, Queued(at, cmd))
    <3>1. at > 0 /\ at \in Int
      BY <1>4
    <3>2. k \in Conns /\ conn[k] \in ConnType /\ conn[k].multi /\ ~conn[k].dirty
      BY <1>1, <3>1
    <3> HIDE DEF cmd, k, at
    <3>3. s = Serve(k, at, cmd, refused)
      BY <2>1
    <3> HIDE DEF s
    <3> QED
      BY <2>1, <3>1, <3>2, <3>3, ServedInMulti
  <2> HIDE DEF s
  <2>5. Whole(c, s.ran) /\ s.ran \in Seq(Int)
    <3>1. <<>> \in Seq(Int)
      OBVIOUS
    <3> QED
      BY <2>2, <3>1, WholeNone
  <2>3. CASE Unheard(c, s)
    BY <1>1, <2>2, <2>3, <2>5, UnheardInv
  <2>4. CASE Replied(c, s) /\ OnTransactionReply(c, s.reply) /\ rx' = rx
    <3> DEFINE a == IF isError(s.reply) THEN -1 ELSE at + 1
    <3>1. Moves(c, a) /\ idle' = idle
      BY <1>1, <1>4, <2>4 DEF OnTransactionReply, Moves
    <3>2. /\ a \in -1 .. Len(cl[c].cmds) + 1 /\ (a = -1 \/ a > 0)
          /\ a > 0 => /\ ~s.conn.dirty /\ Len(s.conn.queue) = a - 1
                      /\ \A i \in 1 .. Len(s.conn.queue) : s.conn.queue[i].at = i
      <4>1. CASE refused
        BY <1>1, <2>2, <4>1
      <4>2. CASE ~refused
        <5>1. /\ a = at + 1 /\ ~s.conn.dirty
              /\ s.conn.queue = Append(conn[k].queue, Queued(at, cmd))
          BY <2>2, <4>2
        <5>2. /\ at > 0 /\ at \in 1 .. Len(cl[c].cmds) /\ Len(conn[k].queue) = at - 1
              /\ \A i \in 1 .. Len(conn[k].queue) : conn[k].queue[i].at = i
          BY <1>1, <1>4
        <5>3. conn[k].queue \in Queue
          BY <1>1 DEF ConnType
        <5>4. Queued(at, cmd) \in [at : Int, cmd : Commands] /\ Queued(at, cmd).at = at
          BY <2>1, <5>2 DEF Queued
        <5> DEFINE X == [at : Int, cmd : Commands]
        <5> DEFINE p == conn[k].queue
        <5> DEFINE e == Queued(at, cmd)
        <5>5. p \in Seq(X) /\ e \in X
          BY <5>3, <5>4 DEF Queue
        <5>6. Len(p) = at - 1 /\ e.at = at /\ \A i \in 1 .. Len(p) : p[i].at = i
          BY <5>2, <5>4
        <5>7. s.conn.queue = Append(p, e)
          BY <5>1
        <5> HIDE DEF a, k, at, p, e, X
        <5>8. /\ Len(Append(p, e)) = Len(p) + 1
              /\ \A i \in 1 .. Len(p) : Append(p, e)[i] = p[i]
              /\ Append(p, e)[Len(p) + 1] = e
          BY <5>5, AppendProperties
        <5>9. Len(s.conn.queue) = at /\ \A i \in 1 .. at : s.conn.queue[i].at = i
          <6>1. Len(s.conn.queue) = at
            BY <5>2, <5>6, <5>7, <5>8
          <6>2. ASSUME NEW i \in 1 .. at PROVE s.conn.queue[i].at = i
            <7>1. CASE i = at
              BY <5>2, <5>6, <5>7, <5>8, <7>1
            <7>2. CASE i # at
              <8>1. i \in 1 .. Len(p)
                BY <5>2, <5>6, <7>2
              <8> QED
                BY <5>6, <5>7, <5>8, <8>1
            <7> QED
              BY <7>1, <7>2
          <6> QED
            BY <6>1, <6>2
        <5> QED
          BY <1>1, <1>4, <5>1, <5>2, <5>9
      <4> QED
        BY <4>1, <4>2
    <3> HIDE DEF a
    <3> QED
      BY <1>1, <2>2, <2>4, <3>1, <3>2, TransactionMoved
  <2> QED
    BY <1>2, <2>3, <2>4 DEF s
<1>5. CASE at = -1
  <2>1. Sent(c) = Discard
    BY <1>1, <1>5 DEF Sent
  <2>2. s.data = data /\ s.ran = <<>> /\ s.conn = Clean
    <3>1. at \in Int
      BY <1>1
    <3> HIDE DEF at, k
    <3> QED
      BY <1>1, <2>1, <3>1, ServedDiscard
  <2> HIDE DEF s
  <2>5. Whole(c, s.ran) /\ s.ran \in Seq(Int)
    <3>1. <<>> \in Seq(Int)
      OBVIOUS
    <3> QED
      BY <2>2, <3>1, WholeNone
  <2>3. CASE Unheard(c, s)
    BY <1>1, <2>2, <2>3, <2>5, UnheardInv
  <2>4. CASE Replied(c, s) /\ OnTransactionReply(c, s.reply) /\ rx' = rx
    <3>1. Returned(c, "err", 0)
      BY <1>1, <1>5, <2>4 DEF OnTransactionReply
    <3> QED
      BY <1>1, <2>2, <2>4, <2>5, <3>1, UntouchedRx, FailedInv
  <2> QED
    BY <1>2, <2>3, <2>4 DEF s
<1>6. CASE at = Len(cl[c].cmds) + 1
  <2>1. Sent(c) = Exec
    BY <1>1, <1>6 DEF Sent
  <2>2. /\ s.data \in Store /\ s.conn = Clean /\ ~isError(s.reply)
        /\ s.ran \in Seq(Int) /\ Len(s.ran) = Len(cl[c].cmds)
        /\ \A i \in 1 .. Len(s.ran) : s.ran[i] = i
    <3>1. /\ conn[k].multi /\ ~conn[k].dirty /\ Len(conn[k].queue) = Len(cl[c].cmds)
          /\ \A i \in 1 .. Len(conn[k].queue) : conn[k].queue[i].at = i
      BY <1>1, <1>6
    <3>2. at \in Int
      BY <1>1
    <3> HIDE DEF k, at
    <3> QED
      BY <1>1, <2>1, <3>1, <3>2, ServedExec
  <2> HIDE DEF s
  <2>5. Whole(c, s.ran)
    <3>1. ASSUME NEW i \in 1 .. Len(ghost[c].applied)
          PROVE  Times(s.ran, i) = 1 /\ s.ran # <<>>
      <4>1. i \in 1 .. Len(s.ran)
        BY <1>1, <2>2
      <4>2. Times(s.ran, i) = 1
        BY <2>2, <4>1, TimesAll
      <4>3. s.ran = <<>> => Len(s.ran) = 0
        OBVIOUS
      <4> QED
        BY <4>1, <4>2, <4>3
    <3> QED
      BY <3>1 DEF Whole
  <2>3. CASE Unheard(c, s)
    BY <1>1, <2>2, <2>3, <2>5, UnheardInv
  <2>4. CASE Replied(c, s) /\ OnTransactionReply(c, s.reply) /\ rx' = rx
    <3>1. Returned(c, "ok", 0)
      BY <1>1, <1>6, <2>2, <2>4 DEF OnTransactionReply
    <3> QED
      BY <1>1, <2>2, <2>4, <3>1, TransactionDone
  <2> QED
    BY <1>2, <2>3, <2>4 DEF s
<1>7. at = 0 \/ at \in 1 .. Len(cl[c].cmds) \/ at = -1 \/ at = Len(cl[c].cmds) + 1
  BY <1>1
<1> QED
  BY <1>3, <1>4, <1>5, <1>6, <1>7

-----------------------------------------------------------------------------
(* Pipelines.                                                              *)

\* A pipeline whose commands have been sent: the last commands are not executed
\* yet, and there is a reply to read for each of those from the next on.
LEMMA PipelineAt ==
    ASSUME IInv, NEW c \in Clients, Running(c, "pipeline"), Connected(c),
           conn[cl[c].conn].unread > 0 \/ conn[cl[c].conn].queue # <<>>
    PROVE  LET k == cl[c].conn
               N == Len(cl[c].cmds)
               q == conn[k].queue IN
           /\ k \in Conns /\ conn[k] \in ConnType /\ conn \in [Conns -> ConnType]
           /\ data \in Store /\ k \notin idle
           /\ cl[c].state = "run" /\ cl[c].kind = "pipeline"
           /\ cl[c].tries \in Nat /\ cl[c].tries > 0 /\ Retries \in Nat
           /\ N \in Nat /\ cl[c].at \in 1 .. N
           /\ Placed(c) /\ Once(c) /\ InOrder(c) /\ Exact(c)
           /\ ~conn[k].multi /\ ~conn[k].dirty
           /\ q \in Queue /\ Len(q) \in Nat
           /\ conn[k].unread \in Nat /\ conn[k].unread > 0
           /\ conn[k].unread = N - cl[c].at + 1 /\ Len(q) <= conn[k].unread
           /\ \A i \in 1 .. Len(q) : q[i].at = N - Len(q) + i
           /\ Executed(c) = N - Len(q)
<1> DEFINE k == cl[c].conn
<1> DEFINE q == conn[k].queue
<1> DEFINE u == conn[k].unread
<1>1. /\ k \in Conns /\ conn[k] \in ConnType /\ conn \in [Conns -> ConnType]
      /\ data \in Store /\ k \notin idle
      /\ cl[c].state = "run" /\ cl[c].kind = "pipeline"
      /\ cl[c].tries \in Nat /\ cl[c].tries > 0 /\ Retries \in Nat
      /\ Placed(c) /\ Once(c) /\ InOrder(c) /\ Exact(c) /\ Session(c, k)
  BY CallFields DEF IInv, Types, Pool, Holds, Running
<1>2. cl[c].at \in 1 .. Len(cl[c].cmds) /\ Len(cl[c].cmds) \in Nat
  <2>1. cl[c].cmds \in Seq(Commands) /\ cl[c].at \in 1 .. Len(cl[c].cmds)
    BY <1>1 DEF Placed, Place
  <2> QED
    BY <2>1, LenProperties
<1>3. q \in Queue /\ Len(q) \in Nat /\ u \in Nat
  <2>1. q \in Queue /\ u \in Nat
    BY <1>1 DEF ConnType
  <2> QED
    BY <2>1, LenProperties DEF Queue
<1>4. conn[k] # Clean
  <2>1. Clean.unread = 0 /\ Clean.queue = <<>>
    BY DEF Clean
  <2> QED
    BY <2>1
<1>5. /\ ~conn[k].multi /\ ~conn[k].dirty
      /\ u = Len(cl[c].cmds) - cl[c].at + 1 /\ Len(q) <= u
      /\ \A i \in 1 .. Len(q) : q[i].at = Len(cl[c].cmds) - Len(q) + i
  BY <1>1, <1>4 DEF Session
<1>6. u > 0
  <2> HIDE DEF u
  <2> QED
    BY <1>2, <1>5
<1>7. Executed(c) = Len(cl[c].cmds) - Len(q)
  BY <1>6 DEF Executed
<1> QED
  BY <1>1, <1>2, <1>3, <1>5, <1>6, <1>7

\* How often its commands were answered.
LEMMA PipelineCounts ==
    ASSUME IInv, NEW c \in Clients, cl[c].kind = "pipeline",
           NEW i \in 1 .. Len(cl[c].cmds)
    PROVE  /\ ghost[c].applied[i] \in Nat /\ ghost[c].refused[i] \in Nat
           /\ Len(ghost[c].applied) = Len(cl[c].cmds)
           /\ Len(ghost[c].refused) = Len(cl[c].cmds)
           /\ Answers(c, i) \in Nat
<1>1. /\ Len(ghost[c].applied) = Len(cl[c].cmds)
      /\ Len(ghost[c].refused) = Len(cl[c].cmds)
  BY DEF IInv, Holds, Once
<1>2. ghost[c].applied \in Seq(Nat) /\ ghost[c].refused \in Seq(Nat)
  BY HistoryFields
<1>3. ghost[c].applied[i] \in Nat
  BY <1>1, <1>2, ElementOfSeq, Zenon
<1>4. ghost[c].refused[i] \in Nat
  BY <1>1, <1>2, ElementOfSeq, Zenon
<1> QED
  BY <1>1, <1>3, <1>4 DEF Answers

\* A step of a pipeline on its connection.
LEMMA PipelineStep ==
    ASSUME IInv, NEW c \in Clients, Connected(c),
           program' = program, data' \in Store, rx' = rx,
           conn' \in [Conns -> ConnType],
           conn' = [conn EXCEPT ![cl[c].conn] = conn'[cl[c].conn]],
           cl' = [x \in Clients |-> cl'[x]], cl'[c] \in CallType(cl'[c].told),
           \A d \in Clients \ {c} : cl'[d] = cl[d],
           ghost' = [x \in Clients |-> ghost'[x]], ghost'[c] \in History,
           \A d \in Clients \ {c} : ghost'[d] = [ghost[d] EXCEPT !.steady = @ \cap data'.keys],
           Holds(c)',
           \/ /\ cl'[c].conn = cl[c].conn /\ idle' = idle
              /\ cl'[c].state = "run" /\ cl'[c].tries > 0
           \/ /\ cl'[c].conn = NoConn /\ idle' = idle \cup {cl[c].conn}
              /\ conn'[cl[c].conn] = Clean
    PROVE  IInv'
<1>1. Pool' /\ idle' \in SUBSET Conns
  BY PoolStep
<1>2. ASSUME NEW d \in Clients \ {c} PROVE Kept(d)
  <2>1. ghost[d] \in History /\ ghost'[d] = [ghost[d] EXCEPT !.steady = @ \cap data'.keys]
    BY HistoryFields
  <2>2. /\ ghost'[d] \in History
        /\ ghost'[d].applied = ghost[d].applied /\ ghost'[d].lost = ghost[d].lost
        /\ ghost'[d].refused = ghost[d].refused
        /\ ghost'[d].before = ghost[d].before /\ ghost'[d].after = ghost[d].after
        /\ ghost'[d].deleted = ghost[d].deleted /\ ghost'[d].unheard = ghost[d].unheard
        /\ ghost'[d].steady \subseteq ghost[d].steady \cap data'.keys
    BY <2>1 DEF History
  <2>3. Connected(d) => conn'[cl[d].conn] = conn[cl[d].conn]
    <3>1. Connected(d) => cl[d].conn # cl[c].conn /\ cl[d].conn \in Conns
      BY CallFields DEF IInv, Pool
    <3>2. conn \in [Conns -> ConnType] /\ cl[c].conn \in Conns
      BY CallFields DEF IInv, Types
    <3> QED
      BY <3>1, <3>2
  <2> QED
    BY <2>2, <2>3 DEF Kept
<1>3. rx' = [x \in Clients |-> rx'[x]] /\ rx'[c] \in Locals
  BY DEF IInv, Types
<1> QED
  BY <1>1, <1>2, <1>3, OneClient

\* Nothing changes in the histories of the other calls.
LEMMA SameHistory ==
    ASSUME IInv, NEW c \in Clients, ghost' = ghost, data' = data
    PROVE  /\ ghost' = [x \in Clients |-> ghost'[x]] /\ ghost'[c] \in History
           /\ \A d \in Clients \ {c} :
                ghost'[d] = [ghost[d] EXCEPT !.steady = @ \cap data'.keys]
<1>1. ASSUME NEW d \in Clients
      PROVE  ghost[d] = [ghost[d] EXCEPT !.steady = @ \cap data.keys]
  <2>1. ghost[d] \in History /\ ghost[d].steady \cap data.keys = ghost[d].steady
    BY HistoryFields DEF IInv, Holds, Exact
  <2> QED
    BY <2>1 DEF History
<1> QED
  BY <1>1 DEF IInv, Types

\* The last reply of a pipeline: every command was answered in this try.
LEMMA PipelineDone ==
    ASSUME IInv, NEW c \in Clients, Running(c, "pipeline"), Connected(c),
           conn[cl[c].conn].unread > 0,
           Executed(c) = Len(cl[c].cmds), data' = data, ghost' = ghost,
           cl'[c].kind = cl[c].kind, cl'[c].cmds = cl[c].cmds, cl'[c].state = "done",
           cl'[c].outcome = "ok", cl'[c].tries = 0, cl'[c].conn = NoConn
    PROVE  Holds(c)'
<1> DEFINE N == Len(cl[c].cmds)
<1>1. /\ cl[c].kind = "pipeline" /\ cl[c].tries \in Nat /\ cl[c].tries > 0 /\ Retries \in Nat
      /\ N \in Nat /\ Placed(c) /\ Once(c) /\ InOrder(c) /\ Exact(c)
  BY PipelineAt
<1>2. Placed(c)' /\ ~Connected(c)'
  BY <1>1 DEF Placed, Connected
<1>3. Once(c)'
  BY <1>1 DEF Once
<1>4. InOrder(c)'
  <2>1. Executed(c)' = 0
    BY <1>2 DEF Executed
  <2>2. ASSUME NEW i \in 1 .. N
        PROVE  /\ Answers(c, i)' = Answers(c, i) /\ Answers(c, i) \in Nat
               /\ Earlier(c, i)' = Answers(c, i) /\ Earlier(c, i) = Answers(c, i) - 1
               /\ Answers(c, i) >= 1 /\ Answers(c, i) <= Retries
    <3>1. Answers(c, i)' = Answers(c, i)
      BY DEF Answers
    <3>2. Answers(c, i) \in Nat
      BY <1>1, PipelineCounts
    <3>3. i <= Executed(c) /\ ~(i <= Executed(c)')
      BY <1>1, <2>1
    <3>4. Earlier(c, i) = Answers(c, i) - 1
      BY <3>3, Zenon DEF Earlier
    <3>5. Earlier(c, i)' = Answers(c, i) - 0
      BY <3>1, <3>3, Zenon DEF Earlier
    <3>6. Earlier(c, i) >= 0 /\ Earlier(c, i) + cl[c].tries <= Retries
      BY <1>1 DEF InOrder
    <3> DEFINE e == Answers(c, i)
    <3>7. e \in Nat /\ e - 1 >= 0 /\ e - 1 + cl[c].tries <= Retries
      BY <3>2, <3>4, <3>6
    <3> HIDE DEF e
    <3>8. e - 0 = e /\ e >= 1 /\ e <= Retries
      BY <1>1, <3>7
    <3> QED
      BY <3>1, <3>2, <3>4, <3>5, <3>8 DEF e
  <2>3. ASSUME NEW i \in 1 .. N, NEW j \in 1 .. N, i < j
        PROVE  Earlier(c, i)' >= Earlier(c, j)'
    <3>1. Earlier(c, i) >= Earlier(c, j)
      BY <1>1, <2>3 DEF InOrder
    <3>2. Answers(c, i) >= Answers(c, j)
      BY <2>2, <3>1
    <3> QED
      BY <2>2, <3>2
  <2>4. ASSUME NEW i \in 1 .. N
        PROVE  /\ Earlier(c, i)' >= 0 /\ Earlier(c, i)' + cl'[c].tries <= Retries
               /\ Answers(c, i)' >= 1
    BY <2>2
  <2> QED
    BY <2>3, <2>4 DEF InOrder
<1>5. Exact(c)'
  BY <1>1 DEF Exact
<1>6. Truth(c)'
  BY <1>1 DEF Truth, Done
<1> QED
  BY <1>2, <1>3, <1>4, <1>5, <1>6 DEF Holds

LEMMA RunPipelineInv ==
    ASSUME IInv, NEW c \in Clients, RunPipeline(c)
    PROVE  IInv'
<1> DEFINE k == cl[c].conn
<1> DEFINE q == conn[k].queue
<1> DEFINE u == conn[k].unread
<1> DEFINE N == Len(cl[c].cmds)
<1> DEFINE at == cl[c].at
<1>1. /\ Running(c, "pipeline") /\ Connected(c) /\ u > Len(q)
      /\ data' = data /\ rx' = rx /\ ghost' = ghost /\ program' = program
      /\ conn' = [conn EXCEPT ![k].unread = u - 1]
  BY DEF RunPipeline
<1>2. u > 0 \/ q # <<>>
  <2>1. q = <<>> => Len(q) = 0
    OBVIOUS
  <2> HIDE DEF u, q
  <2> QED
    BY <1>1, <2>1
<1>3. /\ k \in Conns /\ conn[k] \in ConnType /\ conn \in [Conns -> ConnType]
      /\ cl[c].state = "run" /\ cl[c].kind = "pipeline" /\ cl[c].tries > 0
      /\ cl[c].tries \in Nat /\ N \in Nat /\ at \in 1 .. N /\ Placed(c)
      /\ ~conn[k].multi /\ ~conn[k].dirty /\ q \in Queue /\ Len(q) \in Nat
      /\ u \in Nat /\ u > 0 /\ u = N - at + 1
      /\ \A i \in 1 .. Len(q) : q[i].at = N - Len(q) + i
      /\ Executed(c) = N - Len(q) /\ data \in Store
  BY <1>1, <1>2, PipelineAt
<1>4. /\ conn'[k] \in ConnType /\ conn'[k].unread = u - 1 /\ conn'[k].queue = q
      /\ conn'[k].multi = conn[k].multi /\ conn'[k].dirty = conn[k].dirty
      /\ conn' \in [Conns -> ConnType] /\ conn' = [conn EXCEPT ![k] = conn'[k]]
  <2> DEFINE v == u - 1
  <2>1. v \in Nat
    BY <1>3
  <2> HIDE DEF v
  <2>2. conn'[k] = [conn[k] EXCEPT !.unread = v]
    BY <1>1, <1>3 DEF v
  <2> HIDE DEF k
  <2>3. /\ conn'[k] \in ConnType /\ conn'[k].unread = v /\ conn'[k].queue = conn[k].queue
        /\ conn'[k].multi = conn[k].multi /\ conn'[k].dirty = conn[k].dirty
    BY <1>3, <2>1, <2>2 DEF ConnType
  <2>4. conn' \in [Conns -> ConnType] /\ conn' = [conn EXCEPT ![k] = conn'[k]]
    BY <1>1, <1>3, <2>3
  <2> QED
    BY <2>3, <2>4 DEF v
<1>5. /\ ghost' = [x \in Clients |-> ghost'[x]] /\ ghost'[c] \in History
      /\ \A d \in Clients \ {c} : ghost'[d] = [ghost[d] EXCEPT !.steady = @ \cap data'.keys]
      /\ data' \in Store
  BY <1>1, <1>3, SameHistory
<1>6. CASE LastReply(c) /\ Returned(c, "ok", 0)
  <2>1. at = N /\ u = 1 /\ Len(q) = 0
    <3>1. at = N
      BY <1>6 DEF LastReply
    <3> HIDE DEF u, q, at
    <3> QED
      BY <1>1, <1>3, <3>1
  <2>2. conn'[k] = Clean
    <3>1. q = <<>>
      BY <1>3, <2>1 DEF Queue
    <3>2. u - 1 = 0
      BY <2>1
    <3>3. /\ conn'[k].multi = FALSE /\ conn'[k].dirty = FALSE
          /\ conn'[k].queue = <<>> /\ conn'[k].unread = 0
      <4>1. conn[k].multi = FALSE /\ conn[k].dirty = FALSE
        <5>1. conn[k].multi \in BOOLEAN /\ conn[k].dirty \in BOOLEAN
          BY <1>3 DEF ConnType
        <5> QED
          BY <1>3, <5>1
      <4> QED
        BY <1>4, <3>1, <3>2, <4>1
    <3> DEFINE x == conn'[k]
    <3>4. x \in ConnType
      BY <1>4
    <3> HIDE DEF k
    <3>5. x = [multi |-> x.multi, dirty |-> x.dirty, queue |-> x.queue, unread |-> x.unread]
      <4> HIDE DEF x
      <4> QED
        BY <3>4 DEF ConnType
    <3> QED
      BY <3>3, <3>5, Zenon DEF Clean
  <2>3. /\ cl'[c] \in CallType(cl'[c].told)
        /\ cl'[c].kind = cl[c].kind /\ cl'[c].cmds = cl[c].cmds
        /\ cl'[c].state = "done" /\ cl'[c].outcome = "ok"
        /\ cl'[c].tries = 0 /\ cl'[c].conn = NoConn
        /\ cl' = [x \in Clients |-> cl'[x]] /\ \A d \in Clients \ {c} : cl'[d] = cl[d]
        /\ idle' = idle \cup {k}
    BY <1>6, ReturnedFields
  <2>4. Holds(c)'
    <3>1. Executed(c) = N
      <4> HIDE DEF N, q
      <4> QED
        BY <1>3, <2>1
    <3> QED
      BY <1>1, <1>3, <2>3, <3>1, PipelineDone
  <2> QED
    BY <1>1, <1>4, <1>5, <2>2, <2>3, <2>4, PipelineStep
<1>7. CASE ~LastReply(c) /\ Moves(c, at + 1) /\ idle' = idle
  <2> DEFINE a == at + 1
  <2>1. a \in 1 .. N /\ a \in Int /\ u - 1 = N - a + 1 /\ u - 1 > 0
    <3>1. at # N
      BY <1>7 DEF LastReply
    <3> HIDE DEF u, N, at
    <3> QED
      BY <1>3, <3>1
  <2>2. Moves(c, a)
    BY <1>7
  <2> HIDE DEF a
  <2>3. /\ cl'[c] \in CallType(cl'[c].told)
        /\ cl'[c].kind = cl[c].kind /\ cl'[c].cmds = cl[c].cmds
        /\ cl'[c].state = cl[c].state /\ cl'[c].outcome = cl[c].outcome
        /\ cl'[c].tries = cl[c].tries /\ cl'[c].conn = cl[c].conn /\ cl'[c].at = a
        /\ cl' = [x \in Clients |-> cl'[x]] /\ \A d \in Clients \ {c} : cl'[d] = cl[d]
    BY <2>1, <2>2, MovedFields
  <2>4. Connected(c)' /\ Placed(c)'
    <3>1. Connected(c)'
      BY <1>1, <2>3 DEF Connected
    <3>2. Place(c)'
      BY <1>3, <2>1, <2>3 DEF Place
    <3> QED
      BY <1>3, <2>3, <3>1, <3>2 DEF Placed
  <2>5. Session(c, cl[c].conn)'
    <3>1. /\ conn'[cl'[c].conn].unread = Len(cl'[c].cmds) - cl'[c].at + 1
          /\ Len(conn'[cl'[c].conn].queue) <= conn'[cl'[c].conn].unread
      <4>1. conn'[k].unread = N - a + 1
        BY <1>4, <2>1
      <4>2. Len(conn'[k].queue) <= conn'[k].unread
        <5> HIDE DEF u
        <5>1. Len(q) <= u - 1
          BY <1>1, <1>3
        <5> QED
          BY <1>4, <5>1
      <4> QED
        BY <2>3, <4>1, <4>2
    <3>2. ~conn'[cl'[c].conn].multi /\ ~conn'[cl'[c].conn].dirty
      BY <1>3, <1>4, <2>3
    <3>3. \A i \in 1 .. Len(conn'[cl'[c].conn].queue) :
             conn'[cl'[c].conn].queue[i].at
             = Len(cl'[c].cmds) - Len(conn'[cl'[c].conn].queue) + i
      <4>1. conn'[cl'[c].conn].queue = q /\ Len(cl'[c].cmds) = N
        BY <1>4, <2>3
      <4>2. \A i \in 1 .. Len(q) : q[i].at = N - Len(q) + i
        BY <1>3
      <4> HIDE DEF q, N
      <4> QED
        BY <4>1, <4>2, Zenon
    <3>4. cl'[c].kind = "pipeline"
      BY <1>3, <2>3
    <3> QED
      BY <3>1, <3>2, <3>3, <3>4, Zenon DEF Session
  <2>6. Executed(c)' = Executed(c)
    <3>1. conn'[cl'[c].conn].unread > 0 /\ conn'[cl'[c].conn].queue = q
          /\ Len(cl'[c].cmds) = N
      BY <1>4, <2>1, <2>3
    <3>2. Executed(c)' = N - Len(q)
      BY <2>4, <3>1 DEF Executed
    <3> QED
      BY <1>3, <3>2
  <2>7. Once(c)' /\ InOrder(c)' /\ Exact(c)' /\ Truth(c)'
    <3>1. cl'[c].state = "run" /\ cl'[c].tries \in Nat /\ cl'[c].tries <= cl[c].tries
      BY <1>3, <2>3
    <3>2. /\ cl[c].state = "run" /\ data' = data /\ ghost' = ghost /\ rx' = rx
          /\ cl'[c].kind = cl[c].kind /\ cl'[c].cmds = cl[c].cmds
      BY <1>1, <1>3, <2>3
    <3> QED
      BY <2>6, <3>1, <3>2, QuietHolds
  <2>8. Holds(c)'
    BY <2>4, <2>5, <2>7 DEF Holds
  <2> QED
    BY <1>1, <1>3, <1>4, <1>5, <1>7, <2>3, <2>8, PipelineStep
<1> QED
  BY <1>6, <1>7 DEF RunPipeline, Moves

\* The server executes or refuses the next command: one answer more.
LEMMA ExecutePipelinedInv ==
    ASSUME IInv, NEW c \in Clients, ExecutePipelined(c)
    PROVE  IInv'
<1> DEFINE k == cl[c].conn
<1> DEFINE q == conn[k].queue
<1> DEFINE N == Len(cl[c].cmds)
<1> DEFINE L == Len(q)
<1> DEFINE n == ghost[c].applied
<1> DEFINE r == ghost[c].refused
<1>1. /\ Running(c, "pipeline") /\ Connected(c) /\ q # <<>>
      /\ rx' = rx /\ cl' = cl /\ idle' = idle /\ program' = program
      /\ conn' = [conn EXCEPT ![k].queue = Tail(q)]
  BY DEF ExecutePipelined
<1>2. /\ k \in Conns /\ conn[k] \in ConnType /\ conn \in [Conns -> ConnType]
      /\ cl[c].state = "run" /\ cl[c].kind = "pipeline" /\ cl[c].tries > 0
      /\ cl[c].tries \in Nat /\ N \in Nat /\ cl[c].at \in 1 .. N
      /\ Placed(c) /\ Once(c) /\ InOrder(c) /\ Exact(c)
      /\ ~conn[k].multi /\ ~conn[k].dirty /\ q \in Queue /\ L \in Nat
      /\ conn[k].unread \in Nat /\ conn[k].unread > 0
      /\ conn[k].unread = N - cl[c].at + 1 /\ L <= conn[k].unread
      /\ \A i \in 1 .. L : q[i].at = N - L + i
      /\ Executed(c) = N - L /\ data \in Store
  BY <1>1, PipelineAt
<1> DEFINE p == N - L + 1
<1>3. /\ 1 \in 1 .. L /\ p \in 1 .. N /\ Head(q).at = p /\ Head(q).cmd \in Commands
      /\ Tail(q) \in Queue /\ Len(Tail(q)) = L - 1
      /\ \A i \in 1 .. L - 1 : Tail(q)[i] = q[i + 1]
  <2> DEFINE X == [at : Int, cmd : Commands]
  <2>1. q \in Seq(X) /\ q # <<>>
    BY <1>1, <1>2 DEF Queue
  <2> HIDE DEF X, q
  <2>2. /\ Head(q) \in X /\ Head(q) = q[1] /\ Tail(q) \in Seq(X) /\ Len(Tail(q)) = Len(q) - 1
        /\ \A i \in 1 .. Len(q) - 1 : Tail(q)[i] = q[i + 1]
        /\ Len(q) \in Nat /\ Len(q) > 0
    BY <2>1
  <2>3. 1 \in 1 .. L /\ p \in 1 .. N
    <3> HIDE DEF N
    <3> QED
      BY <1>2, <2>2
  <2>4. Head(q).at = p
    BY <1>2, <2>2, <2>3 DEF q
  <2>5. Head(q).cmd \in Commands
    BY <2>2 DEF X
  <2> QED
    BY <2>2, <2>3, <2>4, <2>5 DEF Queue, X, q
<1> DEFINE step == Apply(data, Head(q).cmd)
<1>4. PICK refused \in BOOLEAN :
        LET error == refused \/ isError(step.reply)
            to == IF error THEN data ELSE step.data
        IN  /\ data' = to
            /\ ghost' = [Steady(to) EXCEPT
                 ![c].applied[Head(q).at] = IF error THEN @ ELSE @ + 1,
                 ![c].refused[Head(q).at] = IF error THEN @ + 1 ELSE @]
  BY DEF ExecutePipelined
<1> DEFINE error == refused \/ isError(step.reply)
<1> DEFINE to == IF error THEN data ELSE step.data
<1>5. to \in Store
  BY <1>2, <1>3, ApplyData
<1>6. /\ data' = to
      /\ ghost' = [Steady(to) EXCEPT ![c].applied[p] = IF error THEN @ ELSE @ + 1,
                                     ![c].refused[p] = IF error THEN @ + 1 ELSE @]
  BY <1>3, <1>4
<1>7. n \in [1 .. N -> Nat] /\ r \in [1 .. N -> Nat]
  <2>1. ASSUME NEW S, NEW f \in Seq(S), Len(f) = N PROVE f \in [1 .. N -> S]
    BY <2>1
  <2>2. n \in Seq(Nat) /\ r \in Seq(Nat) /\ Len(n) = N /\ Len(r) = N
    BY <1>2, HistoryFields DEF Once
  <2> QED
    BY <2>1, <2>2
<1> HIDE DEF step, error, p, N
<1>8. /\ ghost' = [x \in Clients |-> ghost'[x]]
      /\ \A d \in Clients \ {c} : ghost'[d] = [ghost[d] EXCEPT !.steady = @ \cap data'.keys]
      /\ ghost'[c].applied = [n EXCEPT ![p] = IF error THEN n[p] ELSE n[p] + 1]
      /\ ghost'[c].refused = [r EXCEPT ![p] = IF error THEN r[p] + 1 ELSE r[p]]
      /\ ghost'[c].steady = ghost[c].steady \cap data'.keys
      /\ ghost'[c] \in History
  <2> HIDE DEF to
  <2> DEFINE S == [x \in Clients |-> [ghost[x] EXCEPT !.steady = @ \cap to.keys]]
  <2> DEFINE g == [ghost[c] EXCEPT !.steady = @ \cap to.keys]
  <2> DEFINE a == [n EXCEPT ![p] = IF error THEN n[p] ELSE n[p] + 1]
  <2> DEFINE b == [r EXCEPT ![p] = IF error THEN r[p] + 1 ELSE r[p]]
  <2>1. Steady(to) = S
    BY DEF Steady
  <2>2. ghost[c] \in History
    BY HistoryFields
  <2>3. /\ g \in History /\ g.applied = n /\ g.refused = r
        /\ g.steady = ghost[c].steady \cap to.keys
    BY <2>2 DEF History
  <2>4. ghost' = [S EXCEPT ![c] = [g EXCEPT !.applied = a, !.refused = b]]
    <3>1. S[c] = g
      OBVIOUS
    <3>2. ghost' = [S EXCEPT ![c].applied[p] = IF error THEN @ ELSE @ + 1,
                             ![c].refused[p] = IF error THEN @ + 1 ELSE @]
      BY <1>6, <2>1, Zenon
    <3>3. ghost' = [S EXCEPT ![c] =
             [g EXCEPT !.applied = [g.applied EXCEPT ![p] = IF error THEN @ ELSE @ + 1],
                       !.refused = [g.refused EXCEPT ![p] = IF error THEN @ + 1 ELSE @]]]
      <4> HIDE DEF g
      <4> DEFINE A == [g.applied EXCEPT ![p] = IF error THEN @ ELSE @ + 1]
      <4> DEFINE B == [g.refused EXCEPT ![p] = IF error THEN @ + 1 ELSE @]
      <4>1. [g EXCEPT !.applied = A].refused = g.refused
        BY <2>3 DEF History
      <4> QED
        BY <3>1, <3>2, <4>1
    <3> QED
      BY <2>3, <3>3
  <2> HIDE DEF g, a, b
  <2>5. a \in Seq(Nat) /\ b \in Seq(Nat)
    <3> DEFINE v == IF error THEN n[p] ELSE n[p] + 1
    <3> DEFINE w == IF error THEN r[p] + 1 ELSE r[p]
    <3>1. p \in 1 .. N /\ N \in Nat
      BY <1>2, <1>3
    <3>2. v \in Nat /\ w \in Nat
      <4> HIDE DEF n, r
      <4>1. n[p] \in Nat /\ r[p] \in Nat
        BY <1>7, <3>1
      <4> QED
        BY <4>1
    <3>3. a = [n EXCEPT ![p] = v] /\ b = [r EXCEPT ![p] = w]
      BY DEF a, b
    <3> HIDE DEF v, w, n, r
    <3>4. a \in [1 .. N -> Nat] /\ b \in [1 .. N -> Nat]
      BY <1>7, <3>1, <3>2, <3>3
    <3> QED
      BY <3>1, <3>4
  <2> DEFINE h == [g EXCEPT !.applied = a, !.refused = b]
  <2>6. /\ h \in History /\ h.applied = a /\ h.refused = b /\ h.steady = g.steady
    BY <2>3, <2>5 DEF History
  <2> HIDE DEF h
  <2>7. /\ ghost' = [x \in Clients |-> ghost'[x]] /\ ghost'[c] = h
        /\ \A d \in Clients \ {c} : ghost'[d] = [ghost[d] EXCEPT !.steady = @ \cap to.keys]
    BY <2>4 DEF h
  <2> QED
    BY <1>6, <2>3, <2>6, <2>7 DEF a, b, to
<1> HIDE DEF to
<1>9. /\ conn'[k] \in ConnType /\ conn'[k].unread = conn[k].unread /\ conn'[k].queue = Tail(q)
      /\ conn'[k].multi = conn[k].multi /\ conn'[k].dirty = conn[k].dirty
      /\ conn' \in [Conns -> ConnType] /\ conn' = [conn EXCEPT ![k] = conn'[k]]
  <2> DEFINE v == Tail(q)
  <2>1. v \in Queue
    BY <1>3
  <2> HIDE DEF v
  <2>2. conn'[k] = [conn[k] EXCEPT !.queue = v]
    BY <1>1, <1>2 DEF v
  <2> HIDE DEF k
  <2>3. /\ conn'[k] \in ConnType /\ conn'[k].unread = conn[k].unread /\ conn'[k].queue = v
        /\ conn'[k].multi = conn[k].multi /\ conn'[k].dirty = conn[k].dirty
    BY <1>2, <2>1, <2>2 DEF ConnType
  <2>4. conn' \in [Conns -> ConnType] /\ conn' = [conn EXCEPT ![k] = conn'[k]]
    BY <1>1, <1>2, <2>3
  <2> QED
    BY <2>3, <2>4 DEF v
<1>10. Connected(c)' /\ Placed(c)'
  BY <1>1, <1>2 DEF Placed, Place, Connected
<1>11. Session(c, cl[c].conn)'
  <2>1. k' = k /\ cl'[c].kind = "pipeline" /\ cl'[c].at = cl[c].at /\ Len(cl'[c].cmds) = N
    BY <1>1, <1>2 DEF N
  <2>2. ~conn'[k].multi /\ ~conn'[k].dirty
    BY <1>2, <1>9
  <2>3. conn'[k].unread = Len(cl'[c].cmds) - cl'[c].at + 1
    BY <1>2, <1>9, <2>1
  <2>4. Len(conn'[k].queue) = L - 1 /\ Len(conn'[k].queue) <= conn'[k].unread
    <3>1. L - 1 <= conn[k].unread
      <4> HIDE DEF L
      <4> QED
        BY <1>2
    <3> QED
      BY <1>3, <1>9, <3>1
  <2>5. ASSUME NEW i \in 1 .. Len(conn'[k].queue)
        PROVE  conn'[k].queue[i].at = Len(cl'[c].cmds) - Len(conn'[k].queue) + i
    <3>1. i \in 1 .. L - 1 /\ i \in Int
      BY <2>4
    <3>2. conn'[k].queue[i] = q[i + 1]
      BY <1>3, <1>9, <3>1
    <3>3. i + 1 \in 1 .. L
      BY <1>2, <3>1
    <3>4. q[i + 1].at = N - L + (i + 1)
      BY <1>2, <3>3
    <3>5. N - L + (i + 1) = N - (L - 1) + i
      <4> HIDE DEF L
      <4> QED
        BY <1>2, <3>1
    <3> QED
      BY <2>1, <2>4, <3>2, <3>4, <3>5
  <2> HIDE DEF k
  <2>6. Session(c, k)'
    BY <2>1, <2>2, <2>3, <2>4, <2>5, Zenon DEF Session
  <2> QED
    BY <2>1, <2>6 DEF k
<1>12. Executed(c)' = p /\ Executed(c) = p - 1 /\ p \in Nat
  <2>1. /\ conn'[cl'[c].conn].unread > 0 /\ Len(cl'[c].cmds) = N
        /\ Len(conn'[cl'[c].conn].queue) = L - 1
    BY <1>1, <1>2, <1>3, <1>9 DEF N
  <2>2. Executed(c)' = N - (L - 1)
    BY <1>10, <2>1 DEF Executed
  <2>3. N - (L - 1) = p /\ N - L = p - 1
    <3> HIDE DEF L
    <3> QED
      BY <1>2 DEF p
  <2>4. p \in Nat
    BY <1>3
  <2> QED
    BY <1>2, <2>2, <2>3, <2>4
<1>13. ASSUME NEW i \in 1 .. N PROVE Earlier(c, i)' = Earlier(c, i)
  <2>1. n[i] \in Nat /\ r[i] \in Nat /\ Answers(c, i) = n[i] + r[i]
    BY <1>7 DEF Answers
  <2>2. Answers(c, i)' = ghost'[c].applied[i] + ghost'[c].refused[i]
    BY DEF Answers
  <2> DEFINE e == Answers(c, i)
  <2>3. CASE i = p
    <3>1. \/ ghost'[c].applied[i] = n[i] /\ ghost'[c].refused[i] = r[i] + 1
          \/ ghost'[c].applied[i] = n[i] + 1 /\ ghost'[c].refused[i] = r[i]
      BY <1>7, <1>8, <2>3
    <3>2. Answers(c, i)' = e + 1 /\ e \in Nat
      BY <2>1, <2>2, <3>1
    <3>3. ~(i <= Executed(c)) /\ i <= Executed(c)'
      BY <1>12, <2>3
    <3>4. Earlier(c, i) = Answers(c, i) - 0 /\ Earlier(c, i)' = Answers(c, i)' - 1
      BY <3>3, Zenon DEF Earlier
    <3>5. e - 0 = e + 1 - 1
      <4> HIDE DEF e
      <4> QED
        BY <3>2
    <3> QED
      BY <3>2, <3>4, <3>5
  <2>4. CASE i # p
    <3>1. ghost'[c].applied[i] = n[i] /\ ghost'[c].refused[i] = r[i]
      BY <1>7, <1>8, <2>4
    <3>2. Answers(c, i)' = e
      BY <2>1, <2>2, <3>1
    <3>3. i <= Executed(c) <=> i <= Executed(c)'
      BY <1>12, <2>4
    <3> QED
      BY <3>2, <3>3, Zenon DEF Earlier
  <2> QED
    BY <2>3, <2>4
<1>14. InOrder(c)'
  BY <1>1, <1>2, <1>13 DEF InOrder, N
<1>15. Once(c)'
  <2>1. Len(n) = N /\ Len(r) = N
    BY <1>2 DEF Once, N
  <2>2. Len(ghost'[c].applied) = Len(n) /\ Len(ghost'[c].refused) = Len(r)
    <3>1. ASSUME NEW f \in Seq(Nat), NEW v PROVE Len([f EXCEPT ![p] = v]) = Len(f)
      OBVIOUS
    <3>2. n \in Seq(Nat) /\ r \in Seq(Nat)
      BY HistoryFields
    <3> QED
      BY <1>8, <3>1, <3>2
  <2> QED
    BY <1>1, <1>2, <2>1, <2>2 DEF Once, N
<1>16. Exact(c)' /\ Truth(c)'
  BY <1>1, <1>2, <1>8 DEF Exact, Truth, Done
<1>17. Holds(c)'
  BY <1>10, <1>11, <1>14, <1>15, <1>16 DEF Holds
<1>18. cl' = [x \in Clients |-> cl'[x]] /\ cl'[c] \in CallType(cl'[c].told)
       /\ data' \in Store
  BY <1>1, <1>5, <1>6 DEF IInv, Types
<1> QED
  BY <1>1, <1>2, <1>8, <1>9, <1>17, <1>18, PipelineStep

-----------------------------------------------------------------------------
(* removex.                                                                *)

\* The scan goes on from where it is, or deletes a page.
Onward(x, steady, cmd) ==
    \/ /\ cmd = ScanFrom(x.cursor, x.batch)
       /\ \A k \in steady \ Unnamed : k > x.cursor
       /\ x.removed <= x.found
    \/ \E page \in SUBSET Keys :
         /\ cmd = RemoveKeys(page)
         /\ \A k \in steady \ Unnamed : k \in page \/ (x.cursor # 0 /\ k > x.cursor)
         /\ x.removed + Cardinality(page) <= x.found

LEMMA NextExecFields ==
    ASSUME IInv, NEW c \in Clients, NEW cmd \in Commands \cup Scans(0 .. NKeys), NextExec(c, cmd)
    PROVE  /\ cl'[c] \in CallType(cl'[c].told)
           /\ cl'[c].kind = cl[c].kind /\ cl'[c].cmds = <<cmd>> /\ cl'[c].at = cl[c].at
           /\ cl'[c].state = cl[c].state /\ cl'[c].outcome = cl[c].outcome
           /\ cl'[c].conn = NoConn
           /\ cl' = [x \in Clients |-> cl'[x]] /\ \A d \in Clients \ {c} : cl'[d] = cl[d]
           /\ idle' = idle \cup {cl[c].conn}
<1> DEFINE cmds == <<cmd>>
<1> DEFINE r == [cl[c] EXCEPT !.cmds = cmds, !.tries = Retries, !.conn = NoConn]
<1>1. cl = [x \in Clients |-> cl[x]] /\ cl[c] \in CallType(cl[c].told) /\ Retries \in 0 .. Retries
  BY RedisClientAssumption DEF IInv, Types
<1>2. cl' = [cl EXCEPT ![c] = r]
  BY <1>1 DEF NextExec
<1>3. cmds \in Seq(Commands \cup Scans(0 .. NKeys))
  <2> DEFINE X == Commands \cup Scans(0 .. NKeys)
  <2> HIDE DEF X
  <2>1. cmd \in X
    BY DEF X
  <2>2. <<cmd>> \in Seq(X)
    BY <2>1
  <2> QED
    BY <2>2 DEF X
<1> HIDE DEF cmds
<1>4. /\ r \in CallType(cl[c].told)
      /\ r.kind = cl[c].kind /\ r.cmds = cmds /\ r.at = cl[c].at
      /\ r.state = cl[c].state /\ r.outcome = cl[c].outcome /\ r.told = cl[c].told
      /\ r.conn = NoConn
  BY <1>1, <1>3 DEF CallType
<1> HIDE DEF r
<1>5. /\ cl' = [x \in Clients |-> cl'[x]] /\ cl'[c] = r
      /\ \A d \in Clients \ {c} : cl'[d] = cl[d]
  BY <1>2, CallStep
<1>6. idle' = idle \cup {cl[c].conn}
  BY DEF NextExec
<1> QED
  BY <1>4, <1>5, <1>6 DEF cmds

\* removex goes on with a command of its own.
LEMMA NextExecInv ==
    ASSUME IInv, NEW c \in Clients, Running(c, "removex"), Connected(c),
           NEW cmd \in Commands \cup Scans(0 .. NKeys), NextExec(c, cmd),
           rx' = [x \in Clients |-> rx'[x]], rx'[c] \in Locals,
           \A d \in Clients \ {c} : rx'[d] = rx[d],
           NEW s, s.ran \in Seq(Int), s.data \in Store, s.conn = Clean, Replied(c, s),
           rx'[c].batch > 0, rx'[c].prev = rx'[c].removed,
           rx'[c].removed + ghost[c].unheard = ghost[c].deleted + Deletes(c, s.data),
           Onward(rx'[c], ghost[c].steady \cap s.data.keys, cmd)
    PROVE  IInv'
<1>1. /\ cl[c].kind = "removex" /\ cl[c].state = "run" /\ Placed(c) /\ Once(c) /\ Exact(c)
      /\ cl[c].at = 1 /\ s.conn \in ConnType /\ ghost[c].unheard \in Nat
      /\ ghost[c].applied = <<>> /\ Len(ghost[c].refused) = 0
  <2>1. cl[c].kind = "removex" /\ cl[c].state = "run" /\ Placed(c) /\ Once(c) /\ Exact(c)
    BY DEF IInv, Holds, Running
  <2>2. cl[c].at = 1 /\ ghost[c].applied = <<>> /\ Len(ghost[c].refused) = 0
    BY <2>1 DEF Placed, Place, Once
  <2>3. s.conn \in ConnType
    BY CleanType
  <2> QED
    BY <2>1, <2>2, <2>3, HistoryFields
<1>2. /\ cl'[c] \in CallType(cl'[c].told)
      /\ cl'[c].kind = cl[c].kind /\ cl'[c].cmds = <<cmd>> /\ cl'[c].at = cl[c].at
      /\ cl'[c].state = cl[c].state /\ cl'[c].outcome = cl[c].outcome
      /\ cl'[c].conn = NoConn
      /\ cl' = [x \in Clients |-> cl'[x]] /\ \A d \in Clients \ {c} : cl'[d] = cl[d]
      /\ idle' = idle \cup {cl[c].conn}
  BY NextExecFields
<1>3. Happened(c, s, 0, 0) /\ data' = s.data
  <2>1. data' = s.data
    BY DEF Replied
  <2> QED
    BY <2>1, RepliedHistory
<1>4. Placed(c)' /\ ~Connected(c)'
  <2>1. ~Connected(c)' /\ Len(cl'[c].cmds) = 1
    BY <1>2 DEF Connected
  <2> QED
    BY <1>1, <1>2, <2>1 DEF Placed, Place, Start
<1>5. Once(c)'
  <2>1. /\ ghost'[c].applied \in Seq(Nat) /\ Len(ghost'[c].applied) = 0
        /\ ghost'[c].refused = ghost[c].refused
    BY <1>1, <1>3, HappenedCounts
  <2>2. ghost'[c].applied = <<>> /\ Len(ghost'[c].refused) = 0
    BY <1>1, <2>1
  <2> QED
    BY <1>1, <1>2, <2>2 DEF Once
<1>6. Exact(c)'
  <2>1. /\ ghost'[c].steady = ghost[c].steady \cap s.data.keys
        /\ ghost'[c].unheard = ghost[c].unheard
        /\ ghost'[c].deleted = ghost[c].deleted + Deletes(c, s.data)
    BY <1>1, <1>3 DEF Happened
  <2>2. ghost'[c].steady \subseteq data'.keys \cap Matching
    BY <1>1, <1>3, <2>1 DEF Exact
  <2>3. cl'[c].cmds[1] = cmd
    BY <1>2
  <2>4. Scanning(c)' \/ Deleting(c)'
    BY <2>1, <2>3 DEF Onward, Scanning, Deleting
  <2> QED
    BY <1>1, <1>2, <2>1, <2>2, <2>4 DEF Exact
<1>7. Truth(c)'
  BY <1>1, <1>2 DEF Truth, Done
<1>8. Holds(c)'
  BY <1>1, <1>2, <1>4, <1>5, <1>6, <1>7 DEF Holds, InOrder
<1> QED
  BY <1>1, <1>2, <1>8, RepliedInv

LEMMA RemovexDone ==
    ASSUME IInv, NEW c \in Clients, Running(c, "removex"), Connected(c),
           Returned(c, "ok", rx'[c].removed),
           rx' = [x \in Clients |-> rx'[x]], rx'[c] \in Locals,
           \A d \in Clients \ {c} : rx'[d] = rx[d],
           NEW s, s.ran \in Seq(Int), s.data \in Store, s.conn = Clean, Replied(c, s),
           rx'[c].removed <= rx'[c].found,
           rx'[c].removed + ghost[c].unheard = ghost[c].deleted + Deletes(c, s.data),
           ghost[c].steady \cap s.data.keys \subseteq Unnamed
    PROVE  IInv'
<1>1. /\ cl[c].kind = "removex" /\ cl[c].state = "run" /\ Placed(c) /\ Once(c) /\ Exact(c)
      /\ s.conn \in ConnType /\ ghost[c].unheard \in Nat /\ ghost[c].applied = <<>>
      /\ Len(ghost[c].refused) = 0
  <2>1. cl[c].kind = "removex" /\ cl[c].state = "run" /\ Placed(c) /\ Once(c) /\ Exact(c)
    BY DEF IInv, Holds, Running
  <2>2. ghost[c].applied = <<>> /\ Len(ghost[c].refused) = 0
    BY <2>1 DEF Once
  <2>3. s.conn \in ConnType
    BY CleanType
  <2> QED
    BY <2>1, <2>2, <2>3, HistoryFields
<1>2. /\ cl'[c] \in CallType(cl'[c].told)
      /\ cl'[c].kind = cl[c].kind /\ cl'[c].cmds = cl[c].cmds
      /\ cl'[c].state = "done" /\ cl'[c].outcome = "ok" /\ cl'[c].told = rx'[c].removed
      /\ cl'[c].tries = 0 /\ cl'[c].conn = NoConn
      /\ cl' = [x \in Clients |-> cl'[x]] /\ \A d \in Clients \ {c} : cl'[d] = cl[d]
      /\ idle' = idle \cup {cl[c].conn}
  <2> DEFINE v == rx'[c].removed
  <2> HIDE DEF v
  <2>1. Returned(c, "ok", v)
    BY DEF v
  <2> QED
    BY <2>1, ReturnedFields DEF v
<1>3. Happened(c, s, 0, 0) /\ data' = s.data
  <2>1. data' = s.data
    BY DEF Replied
  <2> QED
    BY <2>1, RepliedHistory
<1>4. Placed(c)' /\ ~Connected(c)'
  BY <1>1, <1>2 DEF Placed, Connected
<1>5. Once(c)'
  <2>1. /\ ghost'[c].applied \in Seq(Nat) /\ Len(ghost'[c].applied) = 0
        /\ ghost'[c].refused = ghost[c].refused
    BY <1>1, <1>3, HappenedCounts
  <2>2. ghost'[c].applied = <<>> /\ Len(ghost'[c].refused) = 0
    BY <1>1, <2>1
  <2> QED
    BY <1>1, <1>2, <2>2 DEF Once
<1>6. Exact(c)'
  <2>1. /\ ghost'[c].steady = ghost[c].steady \cap s.data.keys
        /\ ghost'[c].unheard = ghost[c].unheard
        /\ ghost'[c].deleted = ghost[c].deleted + Deletes(c, s.data)
    BY <1>1, <1>3 DEF Happened
  <2>2. ghost'[c].steady \subseteq data'.keys \cap Matching
    BY <1>1, <1>3, <2>1 DEF Exact
  <2> QED
    BY <1>1, <1>2, <2>1, <2>2 DEF Exact
<1>7. Truth(c)'
  BY <1>1, <1>2 DEF Truth, Done
<1>8. Holds(c)'
  BY <1>1, <1>2, <1>4, <1>5, <1>6, <1>7 DEF Holds, InOrder
<1> QED
  BY <1>1, <1>2, <1>8, RepliedInv

\* The end of the loop's body.
LEMMA LoopInv ==
    ASSUME IInv, NEW c \in Clients, Running(c, "removex"), Connected(c),
           NEW x \in Locals, x.batch > 0, x.removed <= x.found, Loop(c, x),
           NEW s, s.ran \in Seq(Int), s.data \in Store, s.conn = Clean, Replied(c, s),
           x.removed + ghost[c].unheard = ghost[c].deleted + Deletes(c, s.data),
           Again(x) => \A k \in (ghost[c].steady \cap s.data.keys) \ Unnamed : k > x.cursor,
           ~Again(x) => ghost[c].steady \cap s.data.keys \subseteq Unnamed
    PROVE  IInv'
<1> DEFINE y == [x EXCEPT !.prev = x.removed]
<1>1. /\ y \in Locals /\ y.batch = x.batch /\ y.cursor = x.cursor /\ y.removed = x.removed
      /\ y.found = x.found /\ y.prev = x.removed
  BY DEF Locals
<1>2. rx' = [rx EXCEPT ![c] = y]
  BY DEF Loop
<1> HIDE DEF y
<1>3. /\ rx' = [d \in Clients |-> rx'[d]] /\ rx'[c] = y /\ rx'[c] \in Locals
      /\ \A d \in Clients \ {c} : rx'[d] = rx[d]
  BY <1>1, <1>2 DEF IInv, Types
<1>4. CASE Again(x)
  <2> DEFINE cmd == ScanFrom(x.cursor, x.batch)
  <2>1. NextExec(c, cmd)
    BY <1>4 DEF Loop
  <2>2. cmd \in Commands \cup Scans(0 .. NKeys)
    <3>1. x.cursor \in 0 .. NKeys /\ x.batch \in Nat \ {0}
      BY DEF Locals
    <3> QED
      BY <3>1 DEF ScanFrom, Cmd, Scans
  <2>3. Onward(rx'[c], ghost[c].steady \cap s.data.keys, cmd)
    BY <1>1, <1>3, <1>4 DEF Onward
  <2> HIDE DEF cmd
  <2> QED
    BY <1>1, <1>3, <2>1, <2>2, <2>3, NextExecInv
<1>5. CASE ~Again(x)
  <2>1. Returned(c, "ok", rx'[c].removed)
    BY <1>1, <1>3, <1>5 DEF Loop
  <2> QED
    BY <1>1, <1>3, <1>5, <2>1, RemovexDone
<1> QED
  BY <1>4, <1>5

\* A page of the scan: what lies behind it is still to come.
LEMMA PageFacts ==
    ASSUME NEW d \in Store, NEW from \in 0 .. NKeys, NEW count \in Nat \ {0}
    PROVE  \E next \in 0 .. NKeys, H \in SUBSET Keys :
             /\ Page(d, from, count).type = "ARRAY"
             /\ Len(Page(d, from, count).elements) = 2
             /\ Page(d, from, count).elements[1] = next
             /\ Range(Page(d, from, count).elements[2]) = H
             /\ \A k \in d.keys \cap Matching :
                  k > from => k \in H \/ (next # 0 /\ k > next)
<1> DEFINE upto == IF from + count < NKeys THEN from + count ELSE NKeys
<1> DEFINE next == IF upto < NKeys THEN upto ELSE 0
<1> DEFINE H == {k \in d.keys \cap Matching : k > from /\ k <= upto}
<1>1. NKeys \in Nat /\ d.keys \in SUBSET Keys
  BY StoreFields, RedisCommandsAssumption
<1>2. upto \in Nat /\ upto > 0 /\ upto <= NKeys /\ next \in 0 .. NKeys
      /\ (upto < NKeys => next = upto) /\ (~(upto < NKeys) => upto = NKeys)
  BY <1>1, RedisCommandsAssumption
<1>3. H \in SUBSET Keys /\ IsFiniteSet(H)
  <2>1. H \in SUBSET Keys
    BY <1>1
  <2> HIDE DEF H
  <2> QED
    BY <2>1, KeysFinite
<1>4. Range(SetToSeq(H)) = H
  <2> HIDE DEF H
  <2> QED
    BY <1>3, SetToSeqOf
<1>5. Page(d, from, count) = Arr(<<next, SetToSeq(H)>>)
  BY DEF Page
<1>6. ASSUME NEW k \in d.keys \cap Matching, k > from
      PROVE  k \in H \/ (next # 0 /\ k > next)
  <2>1. k \in 1 .. NKeys
    BY <1>1 DEF Keys
  <2>2. CASE k <= upto
    BY <1>6, <2>2
  <2>3. CASE ~(k <= upto)
    <3> HIDE DEF upto, next
    <3> QED
      BY <1>1, <1>2, <2>1, <2>3
  <2> QED
    BY <2>2, <2>3
<1> DEFINE seq == SetToSeq(H)
<1> HIDE DEF next, upto, H, seq
<1>7. /\ Page(d, from, count).type = "ARRAY"
      /\ Len(Page(d, from, count).elements) = 2
      /\ Page(d, from, count).elements[1] = next
      /\ Page(d, from, count).elements[2] = seq
  <2>1. Page(d, from, count) = Arr(<<next, seq>>)
    BY <1>5 DEF seq
  <2> QED
    BY <2>1 DEF Arr
<1>8. Range(Page(d, from, count).elements[2]) = H
  BY <1>4, <1>7 DEF seq
<1> QED
  BY <1>2, <1>3, <1>6, <1>7, <1>8

\* What holds when removex has had an answer.
LEMMA RemovexAt ==
    ASSUME IInv, NEW c \in Clients, Running(c, "removex"), Connected(c)
    PROVE  /\ cl[c].state = "run" /\ cl[c].kind = "removex" /\ cl[c].at = 1
           /\ cl[c].conn \in Conns /\ conn[cl[c].conn] \in ConnType
           /\ conn[cl[c].conn] = Clean /\ data \in Store
           /\ ghost[c].steady \subseteq data.keys \cap Matching
           /\ rx[c] \in Locals /\ rx[c].batch > 0 /\ rx[c].prev = rx[c].removed
           /\ rx[c].removed + ghost[c].unheard = ghost[c].deleted
           /\ Scanning(c) \/ Deleting(c)
<1>1. cl[c].state = "run" /\ cl[c].kind = "removex"
  BY DEF Running
<1>2. Placed(c) /\ Session(c, cl[c].conn) /\ Exact(c) /\ data \in Store
  BY DEF IInv, Types, Holds
<1>3. cl[c].at = 1 /\ conn[cl[c].conn] = Clean
  BY <1>1, <1>2 DEF Placed, Place, Session
<1>4. /\ ghost[c].steady \subseteq data.keys \cap Matching
      /\ rx[c].batch > 0 /\ rx[c].prev = rx[c].removed
      /\ rx[c].removed + ghost[c].unheard = ghost[c].deleted
      /\ Scanning(c) \/ Deleting(c)
  BY <1>1, <1>2 DEF Exact
<1> QED
  BY <1>1, <1>2, <1>3, <1>4, CallFields, HistoryFields

LEMMA OnPageInv ==
    ASSUME IInv, NEW c \in Clients, Running(c, "removex"), Connected(c), Scanning(c),
           NEW s, s.ran \in Seq(Int), s.data = data, s.conn = Clean, Replied(c, s),
           OnPage(c, Page(data, rx[c].cursor, rx[c].batch))
    PROVE  IInv'
<1> DEFINE g == rx[c]
<1> DEFINE r == Page(data, g.cursor, g.batch)
<1>1. /\ data \in Store /\ ghost[c].steady \subseteq data.keys \cap Matching
      /\ g \in Locals /\ g.batch > 0 /\ g.prev = g.removed
      /\ g.removed + ghost[c].unheard = ghost[c].deleted
      /\ \A k \in ghost[c].steady \ Unnamed : k > g.cursor
      /\ g.removed <= g.found /\ cl[c].state = "run" /\ cl[c].kind = "removex"
  BY RemovexAt DEF Scanning
<1>2. /\ g.cursor \in 0 .. NKeys /\ g.batch \in Nat \ {0} /\ g.found \in Nat
      /\ g.loopGuard \in Nat /\ g.removed \in Nat /\ ghost[c].unheard \in Nat
      /\ ghost[c].deleted \in Nat
  BY <1>1, HistoryFields DEF Locals
<1>3. PICK next \in 0 .. NKeys, H \in SUBSET Keys :
        /\ r.type = "ARRAY" /\ Len(r.elements) = 2 /\ r.elements[1] = next
        /\ Range(r.elements[2]) = H
        /\ \A k \in data.keys \cap Matching : k > g.cursor => k \in H \/ (next # 0 /\ k > next)
  <2> HIDE DEF r, g
  <2> QED
    BY <1>1, <1>2, PageFacts DEF r
<1> DEFINE page == H \ Unnamed
<1> DEFINE found == g.found + Cardinality(page)
<1> DEFINE guard == IF page = {} THEN g.loopGuard + 1 ELSE 0
<1> DEFINE x == [g EXCEPT !.cursor = next, !.found = found, !.loopGuard = guard]
<1>4. page \in SUBSET Keys /\ Cardinality(page) \in Nat /\ found \in Nat /\ guard \in Nat
  <2>1. page \in SUBSET Keys
    OBVIOUS
  <2>2. Cardinality(page) \in Nat
    BY <2>1, KeysFinite
  <2> QED
    BY <1>2, <2>1, <2>2
<1>5. \/ /\ page # {} /\ rx' = [rx EXCEPT ![c] = x] /\ NextExec(c, RemoveKeys(page))
      \/ /\ page = {} /\ rx' = [rx EXCEPT ![c] = x] /\ Returned(c, "threw", 0)
      \/ /\ page = {} /\ Loop(c, x)
  <2>1. isArray(r) /\ Len(r.elements) >= 2
    BY <1>3 DEF isArray
  <2> HIDE DEF r
  <2>2. OnPage(c, r)
    BY DEF r
  <2> QED
    BY <1>3, <2>1, <2>2 DEF OnPage
<1>6. \A k \in ghost[c].steady \ Unnamed : k \in page \/ (next # 0 /\ k > next)
  BY <1>1, <1>3
<1>7. Deletes(c, s.data) = 0 /\ ghost[c].steady \cap s.data.keys = ghost[c].steady
  <2>1. data.keys \ s.data.keys = {}
    OBVIOUS
  <2> QED
    BY <1>1, <2>1, FS_EmptySet DEF Deletes
<1> HIDE DEF guard, found, page
<1>8. /\ x \in Locals /\ x.cursor = next /\ x.found = found /\ x.batch = g.batch
      /\ x.removed = g.removed /\ x.prev = g.prev
  <2> HIDE DEF g
  <2> QED
    BY <1>1, <1>4 DEF Locals
<1> HIDE DEF x
<1>9. x.removed + ghost[c].unheard = ghost[c].deleted + Deletes(c, s.data)
  BY <1>1, <1>2, <1>7, <1>8
<1>10. rx' = [rx EXCEPT ![c] = x] =>
         /\ rx' = [d \in Clients |-> rx'[d]] /\ rx'[c] = x /\ rx'[c] \in Locals
         /\ \A d \in Clients \ {c} : rx'[d] = rx[d]
  BY <1>8 DEF IInv, Types
<1>11. CASE page # {} /\ rx' = [rx EXCEPT ![c] = x] /\ NextExec(c, RemoveKeys(page))
  <2> DEFINE cmd == RemoveKeys(page)
  <2>1. cmd \in Commands \cup Scans(0 .. NKeys)
    BY <1>4 DEF RemoveKeys, Cmd, Commands
  <2>2. x.removed + Cardinality(page) <= x.found
    BY <1>1, <1>2, <1>4, <1>8 DEF found
  <2>3. Onward(rx'[c], ghost[c].steady \cap s.data.keys, cmd)
    BY <1>4, <1>6, <1>7, <1>8, <1>10, <1>11, <2>2 DEF Onward
  <2>4. NextExec(c, cmd)
    BY <1>11
  <2> HIDE DEF cmd
  <2> QED
    BY <1>1, <1>8, <1>9, <1>10, <1>11, <2>1, <2>3, <2>4, NextExecInv
<1>12. CASE page = {} /\ rx' = [rx EXCEPT ![c] = x] /\ Returned(c, "threw", 0)
  BY <1>1, <1>10, <1>12, FailedInv
<1>13. CASE page = {} /\ Loop(c, x)
  <2>1. x.removed <= x.found
    BY <1>1, <1>2, <1>4, <1>8 DEF found
  <2>2. \A k \in ghost[c].steady \ Unnamed : next # 0 /\ k > next
    BY <1>6, <1>13
  <2>3. ~Again(x) => next = 0
    BY <1>8 DEF Again
  <2>4. ~Again(x) => ghost[c].steady \cap s.data.keys \subseteq Unnamed
    BY <1>7, <2>2, <2>3
  <2>5. \A k \in (ghost[c].steady \cap s.data.keys) \ Unnamed : k > x.cursor
    BY <1>7, <1>8, <2>2
  <2> QED
    BY <1>1, <1>8, <1>9, <1>13, <2>1, <2>4, <2>5, LoopInv
<1> QED
  BY <1>5, <1>11, <1>12, <1>13

LEMMA OnRemovedInv ==
    ASSUME IInv, NEW c \in Clients, Running(c, "removex"), Connected(c),
           NEW page \in SUBSET Keys,
           \A k \in ghost[c].steady \ Unnamed :
             k \in page \/ (rx[c].cursor # 0 /\ k > rx[c].cursor),
           rx[c].removed + Cardinality(page) <= rx[c].found,
           NEW s, s.ran \in Seq(Int), s.data \in Store, s.data.keys = data.keys \ page,
           s.conn = Clean, Replied(c, s),
           OnRemoved(c, Number(Cardinality(data.keys \cap page)))
    PROVE  IInv'
<1> DEFINE g == rx[c]
<1> DEFINE n == Cardinality(data.keys \cap page)
<1>1. /\ ghost[c].steady \subseteq data.keys \cap Matching /\ data.keys \in SUBSET Keys
      /\ g \in Locals /\ g.batch > 0 /\ g.prev = g.removed
      /\ g.removed + ghost[c].unheard = ghost[c].deleted
      /\ cl[c].state = "run" /\ cl[c].kind = "removex"
  BY RemovexAt, StoreFields
<1>2. /\ g.cursor \in 0 .. NKeys /\ g.found \in Nat /\ g.removed \in Nat /\ g.prev \in Nat
      /\ ghost[c].unheard \in Nat /\ ghost[c].deleted \in Nat
      /\ g.removed + Cardinality(page) <= g.found
  BY HistoryFields
<1>3. n \in Nat /\ Cardinality(page) \in Nat /\ n <= Cardinality(page)
  <2>1. IsFiniteSet(page) /\ data.keys \cap page \subseteq page
    BY KeysFinite
  <2> QED
    BY <2>1, FS_Subset, FS_CardinalityType
<1>4. Deletes(c, s.data) = n
  <2>1. data.keys \ s.data.keys = data.keys \cap page
    OBVIOUS
  <2> QED
    BY <1>1, <2>1 DEF Deletes
<1>5. ghost[c].steady \cap s.data.keys = ghost[c].steady \ page
  BY <1>1
<1> DEFINE removed == g.removed + n
<1> DEFINE cursor == IF n # 0 THEN 0 ELSE g.cursor
<1> DEFINE x == [g EXCEPT !.removed = removed, !.cursor = cursor]
<1>6. Loop(c, x)
  <2>1. getInt(Number(n)) = n
    BY DEF getInt, isInteger, Number
  <2> HIDE DEF n
  <2>2. OnRemoved(c, Number(n))
    BY DEF n
  <2> QED
    BY <2>1, <2>2 DEF OnRemoved
<1> HIDE DEF n
<1>7. removed \in Nat /\ cursor \in 0 .. NKeys
  BY <1>2, <1>3, RedisCommandsAssumption
<1>8. (n = 0 => cursor = g.cursor) /\ (n # 0 => cursor = 0)
  OBVIOUS
<1> HIDE DEF removed, cursor
<1>9. /\ x \in Locals /\ x.cursor = cursor /\ x.found = g.found /\ x.batch = g.batch
      /\ x.removed = removed /\ x.prev = g.prev
  <2> HIDE DEF g
  <2> QED
    BY <1>1, <1>7 DEF Locals
<1> HIDE DEF x
<1>10. x.removed <= x.found /\ x.removed + ghost[c].unheard = ghost[c].deleted + Deletes(c, s.data)
  <2> DEFINE m == g.removed
  <2> DEFINE w == Cardinality(page)
  <2> DEFINE f == g.found
  <2> DEFINE d == ghost[c].deleted
  <2> DEFINE u == ghost[c].unheard
  <2>1. /\ x.removed = m + n /\ x.found = f /\ Deletes(c, s.data) = n
        /\ m \in Nat /\ n \in Nat /\ w \in Nat /\ f \in Nat /\ d \in Nat /\ u \in Nat
        /\ n <= w /\ m + w <= f /\ m + u = d
    BY <1>1, <1>2, <1>3, <1>4, <1>9 DEF removed
  <2> HIDE DEF m, w, f, d, u
  <2>2. m + n <= f /\ m + n + u = d + n
    BY <2>1
  <2> QED
    BY <2>1, <2>2 DEF d, u
<1>11. Again(x) <=> (cursor # 0 \/ n # 0)
  BY <1>1, <1>2, <1>3, <1>9 DEF Again, removed
<1>12. ~Again(x) => ghost[c].steady \cap s.data.keys \subseteq Unnamed
  BY <1>5, <1>8, <1>11
<1>13. Again(x) => \A k \in (ghost[c].steady \cap s.data.keys) \ Unnamed : k > x.cursor
  <2> SUFFICES ASSUME NEW k \in (ghost[c].steady \cap s.data.keys) \ Unnamed PROVE k > cursor
    BY <1>9
  <2>1. k > g.cursor /\ k \in 1 .. NKeys
    BY <1>1, <1>5 DEF Keys
  <2>2. CASE n = 0
    BY <1>8, <2>1, <2>2
  <2>3. CASE n # 0
    BY <1>8, <2>1, <2>3
  <2> QED
    BY <2>2, <2>3
<1> QED
  BY <1>1, <1>6, <1>9, <1>10, <1>12, <1>13, LoopInv

\* What the server makes of a command of removex.
LEMMA RemovexServed ==
    ASSUME IInv, NEW c \in Clients, Running(c, "removex"), Connected(c),
           NEW refused \in BOOLEAN
    PROVE  LET s == Serve(cl[c].conn, cl[c].at, Sent(c), refused)
               a == Apply(data, cl[c].cmds[1])
           IN
           /\ s.conn = Clean /\ s.ran \in Seq(Int) /\ s.data \in Store
           /\ refused => s.data = data /\ s.reply = Error
           /\ ~refused => s.data = a.data /\ s.reply = a.reply
           /\ Scanning(c) =>
                /\ cl[c].cmds[1].name = "SCAN"
                /\ a.data = data /\ a.reply = Page(data, rx[c].cursor, rx[c].batch)
           /\ \A page \in SUBSET Keys : cl[c].cmds[1] = RemoveKeys(page) =>
                /\ cl[c].cmds[1].name = "DEL"
                /\ a.data.keys = data.keys \ page
                /\ a.reply = Number(Cardinality(data.keys \cap page))
<1> DEFINE k == cl[c].conn
<1> DEFINE cmd == cl[c].cmds[1]
<1> DEFINE s == Serve(k, cl[c].at, Sent(c), refused)
<1> DEFINE a == Apply(data, cmd)
<1>1. /\ cl[c].kind = "removex" /\ cl[c].at = 1 /\ k \in Conns /\ conn[k] \in ConnType
      /\ conn[k] = Clean /\ data \in Store /\ (Scanning(c) \/ Deleting(c))
  BY RemovexAt
<1>2. Sent(c) = cmd
  BY <1>1 DEF Sent
<1>3. Scanning(c) => /\ cmd.name = "SCAN"
                     /\ a.data = data /\ a.reply = Page(data, rx[c].cursor, rx[c].batch)
  BY DEF Scanning, ScanFrom, Cmd, Apply, Applied
<1>4. ASSUME NEW page \in SUBSET Keys, cmd = RemoveKeys(page)
      PROVE  /\ cmd.name = "DEL" /\ a.data \in Store
             /\ a.data.keys = data.keys \ page
             /\ a.reply = Number(Cardinality(data.keys \cap page))
  <2>1. RemoveKeys(page) \in Commands /\ RemoveKeys(page).name = "DEL" /\ RemoveKeys(page).arg = page
    BY DEF RemoveKeys, Cmd, Commands
  <2>2. a.data \in Store
    BY <1>1, <1>4, <2>1, ApplyData
  <2>3. a = Applied([data EXCEPT !.keys = @ \ page], Number(Cardinality(data.keys \cap page)))
    BY <1>4, <2>1 DEF Apply, OnKeys
  <2>4. [data EXCEPT !.keys = @ \ page].keys = data.keys \ page
    BY <1>1 DEF Store, Data
  <2> HIDE DEF a
  <2> QED
    BY <1>4, <2>1, <2>2, <2>3, <2>4 DEF Applied
<1>5. Plain(cmd) /\ a.data \in Store
  <2>1. CASE Scanning(c)
    BY <1>1, <1>3, <2>1 DEF Plain
  <2>2. CASE Deleting(c)
    BY <1>4, <2>2 DEF Deleting, Plain
  <2> QED
    BY <1>1, <2>1, <2>2
<1>6. ~conn[k].multi /\ ~conn[k].dirty
  <2>1. ~Clean.multi /\ ~Clean.dirty
    BY DEF Clean
  <2> HIDE DEF k
  <2> QED
    BY <1>1, <2>1, Zenon
<1>7. /\ s.conn = Clean
      /\ refused => s.data = data /\ s.reply = Error /\ s.ran = <<>>
      /\ ~refused => /\ s.data = a.data /\ s.reply = a.reply
                     /\ s.ran = IF isError(a.reply) THEN <<>> ELSE <<1>>
  <2>1. s = Serve(k, 1, cmd, refused) /\ 1 \in Int
    BY <1>1, <1>2
  <2> HIDE DEF k, cmd, s
  <2> QED
    BY <1>1, <1>5, <1>6, <2>1, ServedAtOnce
<1> HIDE DEF s, a, cmd
<1>8. s.ran \in Seq(Int) /\ s.data \in Store
  <2>3. <<>> \in Seq(Int) /\ <<1>> \in Seq(Int)
    OBVIOUS
  <2>1. CASE refused
    BY <1>1, <1>7, <2>1, <2>3
  <2>2. CASE ~refused
    BY <1>5, <1>7, <2>2, <2>3
  <2> QED
    BY <2>1, <2>2
<1> QED
  BY <1>3, <1>4, <1>7, <1>8 DEF s, a, cmd

LEMMA RunRemovexInv ==
    ASSUME IInv, NEW c \in Clients, RunRemovex(c)
    PROVE  IInv'
<1> DEFINE cmd == cl[c].cmds[1]
<1> DEFINE a == Apply(data, cmd)
<1>1. Running(c, "removex") /\ Connected(c)
  BY DEF RunRemovex, Send
<1>2. PICK refused \in BOOLEAN :
        LET s == Serve(cl[c].conn, cl[c].at, Sent(c), refused) IN
        \/ /\ Replied(c, s)
           /\ IF isError(s.reply)
                THEN cl' = [cl EXCEPT ![c] = Threw(@)] /\ UNCHANGED <<idle, rx>>
              ELSE IF cmd.name = "SCAN" THEN OnPage(c, s.reply) ELSE OnRemoved(c, s.reply)
        \/ Unheard(c, s)
  BY DEF RunRemovex, Send, Replied, Unheard
<1> DEFINE s == Serve(cl[c].conn, cl[c].at, Sent(c), refused)
<1>3. /\ s.conn = Clean /\ s.ran \in Seq(Int) /\ s.data \in Store
      /\ refused => s.data = data /\ s.reply = Error
      /\ ~refused => s.data = a.data /\ s.reply = a.reply
      /\ Scanning(c) =>
           /\ cmd.name = "SCAN"
           /\ a.data = data /\ a.reply = Page(data, rx[c].cursor, rx[c].batch)
      /\ \A page \in SUBSET Keys : cmd = RemoveKeys(page) =>
           /\ cmd.name = "DEL"
           /\ a.data.keys = data.keys \ page
           /\ a.reply = Number(Cardinality(data.keys \cap page))
  BY <1>1, RemovexServed
<1>4. /\ cl[c].state = "run" /\ cl[c].kind = "removex" /\ data \in Store
      /\ Scanning(c) \/ Deleting(c)
  BY <1>1, RemovexAt
<1>5. isError(Error)
  BY DEF isError, Error
<1> HIDE DEF s, a, cmd
<1>6. CASE Unheard(c, s)
  <2>1. Whole(c, s.ran)
    <3>1. Len(ghost[c].applied) = 0
      BY <1>4 DEF IInv, Holds, Once
    <3> QED
      BY <3>1 DEF Whole
  <2> QED
    BY <1>1, <1>3, <1>4, <1>6, <2>1, UnheardInv
<1>7. CASE /\ Replied(c, s) /\ isError(s.reply)
           /\ cl' = [cl EXCEPT ![c] = Threw(@)] /\ idle' = idle /\ rx' = rx
  <2>1. /\ cl' = [x \in Clients |-> cl'[x]] /\ cl'[c] = Threw(cl[c])
        /\ \A d \in Clients \ {c} : cl'[d] = cl[d]
    BY <1>7, CallStep
  <2>2. /\ cl'[c] \in CallType(cl'[c].told)
        /\ cl'[c].kind = cl[c].kind /\ cl'[c].cmds = cl[c].cmds
        /\ cl'[c].state = "done" /\ cl'[c].conn = NoConn /\ cl'[c].tries = 0
        /\ cl'[c].outcome \notin {"ok", "nothing"}
    BY <2>1, ThrewFields
  <2>3. Happened(c, s, 0, 0) /\ data' = s.data /\ s.conn \in ConnType
    <3>1. data' = s.data
      BY <1>7 DEF Replied
    <3>2. s.conn \in ConnType
      BY <1>3, CleanType
    <3> QED
      BY <1>3, <1>7, <3>1, <3>2, RepliedHistory
  <2>4. Holds(c)'
    BY <1>4, <2>2, <2>3, FailedHolds
  <2> QED
    BY <1>1, <1>3, <1>7, <2>1, <2>2, <2>3, <2>4, UntouchedRx, RepliedInv
<1>8. CASE /\ Replied(c, s) /\ ~isError(s.reply)
           /\ IF cmd.name = "SCAN" THEN OnPage(c, s.reply) ELSE OnRemoved(c, s.reply)
  <2>1. s.data = a.data /\ s.reply = a.reply
    BY <1>3, <1>5, <1>8
  <2>2. CASE Scanning(c)
    <3>1. s.data = data /\ OnPage(c, Page(data, rx[c].cursor, rx[c].batch))
      BY <1>3, <1>8, <2>1, <2>2
    <3> QED
      BY <1>1, <1>3, <1>8, <2>2, <3>1, OnPageInv
  <2>3. CASE Deleting(c)
    <3>1. PICK page \in SUBSET Keys :
            /\ cmd = RemoveKeys(page)
            /\ \A k \in ghost[c].steady \ Unnamed :
                 k \in page \/ (rx[c].cursor # 0 /\ k > rx[c].cursor)
            /\ rx[c].removed + Cardinality(page) <= rx[c].found
      BY <2>3 DEF Deleting, cmd
    <3>2. /\ s.data.keys = data.keys \ page
          /\ OnRemoved(c, Number(Cardinality(data.keys \cap page)))
      BY <1>3, <1>8, <2>1, <3>1
    <3> QED
      BY <1>1, <1>3, <1>8, <3>1, <3>2, OnRemovedInv
  <2> QED
    BY <1>4, <2>2, <2>3
<1> QED
  BY <1>2, <1>6, <1>7, <1>8 DEF s

-----------------------------------------------------------------------------
(* The invariant, and what follows from it.                                *)

LEMMA InitInv == Init => IInv
<1> SUFFICES ASSUME Init PROVE IInv
  OBVIOUS
<1>1. Types
  <2>1. data \in Store
    <3> DEFINE z == {<<1, Full>>, <<2, Empty>>}
    <3>1. Keys \in SUBSET Keys /\ <<Full>> \in Seq(Items) /\ {Full} \in SUBSET Items
          /\ Items \in SUBSET Items
      BY DEF Items
    <3>2. z \in SUBSET ((1 .. 2) \X Items) /\ \A m, n \in z : m[2] = n[2] => m = n
      BY RedisCommandsAssumption DEF Items
    <3>3. data = [keys |-> Keys, list |-> <<Full>>, set |-> Items, hash |-> {Full},
                  zset |-> z, script |-> FALSE]
      BY DEF Init
    <3> HIDE DEF z
    <3> QED
      BY <3>1, <3>2, <3>3 DEF Store, Data
  <2>2. conn \in [Conns -> ConnType]
    BY CleanType DEF Init
  <2>3. /\ cl = [c \in Clients |-> cl[c]]
        /\ \A c \in Clients : cl[c] \in CallType(cl[c].told)
    BY RedisClientAssumption DEF Init, NoCall, CallType
  <2>4. rx \in [Clients -> Locals]
    BY RedisCommandsAssumption DEF Init, NoRemovex, Locals
  <2>5. ghost \in [Clients -> History]
    BY DEF Init, NoHistory, History
  <2> QED
    BY <2>1, <2>2, <2>3, <2>4, <2>5 DEF Init, Types
<1>2. Pool
  BY DEF Init, Pool, Connected, NoCall
<1>3. ASSUME NEW c \in Clients PROVE Holds(c)
  <2>1. /\ cl[c].kind = "none" /\ cl[c].state = "idle" /\ cl[c].conn = NoConn
        /\ cl[c].cmds = <<>> /\ ghost[c].applied = <<>> /\ ghost[c].steady = {}
        /\ ghost[c].refused = <<>>
    BY DEF Init, NoCall, NoHistory
  <2>2. Placed(c)
    BY <2>1 DEF Placed
  <2>3. Once(c)
    BY <2>1 DEF Once
  <2>4. Exact(c)
    BY <2>1 DEF Exact
  <2> QED
    BY <2>1, <2>2, <2>3, <2>4 DEF Holds, InOrder, Connected, Truth, Done
<1> QED
  BY <1>1, <1>2, <1>3 DEF IInv

LEMMA StutterInv ==
    ASSUME IInv, UNCHANGED vars
    PROVE  IInv'
<1>1. Types'
  BY DEF IInv, Types, vars
<1>2. Pool'
  BY DEF IInv, Pool, Connected, vars
<1>3. ASSUME NEW c \in Clients PROVE Holds(c)'
  <2>1. ghost[c] \in History /\ ghost[c].steady \subseteq data.keys
    BY HistoryFields DEF IInv, Holds, Exact
  <2>2. Kept(c)
    BY <2>1 DEF Kept, vars
  <2> QED
    BY <2>2, KeptHolds DEF IInv
<1> QED
  BY <1>1, <1>2, <1>3 DEF IInv

LEMMA NextInv == IInv /\ [Next]_vars => IInv'
<1> SUFFICES ASSUME IInv, [Next]_vars PROVE IInv'
  OBVIOUS
<1>1. ASSUME NEW c \in Clients, Call(c) PROVE IInv'
  BY <1>1, CallInv
<1>2. ASSUME NEW c \in Clients, TakeConnection(c) PROVE IInv'
  BY <1>2, TakeConnectionInv
<1>3. ASSUME NEW c \in Clients, GiveUp(c) PROVE IInv'
  BY <1>3, GiveUpInv
<1>4. ASSUME NEW c \in Clients, Lose(c) PROVE IInv'
  BY <1>4, LoseInv
<1>5. ASSUME NEW c \in Clients, RunCommand(c) PROVE IInv'
  BY <1>5, RunCommandInv
<1>6. ASSUME NEW c \in Clients, RunTransaction(c) PROVE IInv'
  BY <1>6, RunTransactionInv
<1>7. ASSUME NEW c \in Clients, AppendCommands(c) PROVE IInv'
  BY <1>7, AppendCommandsInv
<1>8. ASSUME NEW c \in Clients, RunPipeline(c) PROVE IInv'
  BY <1>8, RunPipelineInv
<1>9. ASSUME NEW c \in Clients, RunRemovex(c) PROVE IInv'
  BY <1>9, RunRemovexInv
<1>10. CASE AddKey
  BY <1>10, AddKeyInv
<1>11. CASE KeyExpires
  BY <1>11, KeyExpiresInv
<1>13. ASSUME NEW c \in Clients, ExecutePipelined(c) PROVE IInv'
  BY <1>13, ExecutePipelinedInv
<1>12. CASE UNCHANGED vars
  BY <1>12, StutterInv
<1> QED
  BY <1>1, <1>2, <1>3, <1>4, <1>5, <1>6, <1>7, <1>8, <1>9, <1>10, <1>11, <1>12, <1>13 DEF Next

\* Who uses a connection is in the middle of a call, what its connection and the
\* history of the call hold is known from the place it has reached, and behind
\* the place of a scan no key is left that was there all the time.
THEOREM Invariant == Spec => []IInv
<1>1. Init => IInv
  BY InitInv
<1>2. IInv /\ [Next]_vars => IInv'
  BY NextInv
<1> QED
  BY <1>1, <1>2, PTL DEF Spec

\* Whatever went wrong in the transactions and pipelines that used it, a connection
\* that run_with_connection puts back is not inside MULTI, has nothing queued and no
\* reply left to read, and nobody else uses it.
THEOREM PoolIsCleanHolds == Spec => []PoolIsClean
<1>1. IInv => PoolIsClean
  <2> SUFFICES ASSUME IInv PROVE PoolIsClean
    OBVIOUS
  <2>1. TypeOK
    <3>1. data \in Data /\ idle \subseteq Conns
      BY DEF IInv, Types, Store
    <3> QED
      BY <3>1, CallFields DEF TypeOK
  <2>2. idle \cap InUse = {}
    <3> SUFFICES ASSUME NEW c \in Clients, cl[c].conn \in idle PROVE FALSE
      BY DEF InUse
    <3>1. Connected(c)
      BY RedisClientAssumption DEF IInv, Types, Connected
    <3> QED
      BY <3>1 DEF IInv, Pool
  <2> QED
    BY <2>1, <2>2 DEF IInv, Pool, PoolIsClean
<1> QED
  BY <1>1, Invariant, PTL

\* The retries of run_with_connection apply a command once for the answer its caller
\* got and once for every lost one; EXEC applies the whole queue or nothing, wherever
\* the connection breaks; and of a pipeline, which is repeated from its beginning, an
\* earlier command is answered at least as often as a later one, and all of them when
\* the call returns.  Nothing is answered more than retries() times.
THEOREM AppliedOncePerAnswerHolds == Spec => []AppliedOncePerAnswer
<1>1. IInv => AppliedOncePerAnswer
  <2> SUFFICES ASSUME IInv, NEW c \in Clients
               PROVE  LET n == ghost[c].applied
                          answered(i) == n[i] + ghost[c].refused[i]
                      IN
                      /\ Done(c, "command") \/ Done(c, "transaction") =>
                           \A i \in DOMAIN n :
                             n[i] = ghost[c].lost + (IF cl[c].outcome = "ok" THEN 1 ELSE 0)
                      /\ cl[c].kind = "transaction" => \A i, j \in DOMAIN n : n[i] = n[j]
                      /\ cl[c].kind = "pipeline" =>
                           \A i, j \in DOMAIN n : i < j => answered(i) >= answered(j)
                      /\ Done(c, "pipeline") /\ cl[c].outcome = "ok" =>
                           \A i \in DOMAIN n : answered(i) >= 1
                      /\ \A i \in DOMAIN n : answered(i) <= Retries
    BY DEF AppliedOncePerAnswer
  <2> DEFINE n == ghost[c].applied
  <2> DEFINE N == Len(n)
  <2>1. /\ Once(c) /\ Placed(c) /\ InOrder(c) /\ n \in Seq(Nat) /\ ghost[c].lost \in Nat
        /\ ghost[c].refused \in Seq(Nat) /\ Len(ghost[c].refused) = N
        /\ cl[c].tries \in Nat /\ Retries \in Nat
        /\ cl[c].kind \in {"none", "command", "transaction", "pipeline", "removex"}
        /\ cl[c].state \in {"idle", "run", "done"}
        /\ cl[c].state = "idle" => cl[c].kind = "none"
    <3>1. Once(c) /\ Placed(c) /\ InOrder(c)
      BY DEF IInv, Holds
    <3>2. Len(ghost[c].refused) = N
      BY <3>1 DEF Once
    <3>3. cl[c].state = "idle" => cl[c].kind = "none"
      BY <3>1 DEF Placed
    <3> QED
      BY <3>1, <3>2, <3>3, CallFields, HistoryFields
  <2>2. DOMAIN n = 1 .. N /\ N \in Nat
        /\ \A i \in 1 .. N : n[i] \in Nat /\ ghost[c].refused[i] \in Nat
    <3> DEFINE h == ghost[c].refused
    <3>1. n \in Seq(Nat) /\ h \in Seq(Nat) /\ Len(h) = N
      BY <2>1
    <3> HIDE DEF n, h
    <3>2. DOMAIN n = 1 .. N /\ N \in Nat
      BY <3>1, LenProperties
    <3>3. ASSUME NEW i \in 1 .. N PROVE n[i] \in Nat /\ h[i] \in Nat
      <4>1. n[i] \in Nat
        BY <3>1, ElementOfSeq, Zenon
      <4>2. h[i] \in Nat
        BY <3>1, ElementOfSeq, Zenon
      <4> QED
        BY <4>1, <4>2
    <3> QED
      BY <3>2, <3>3 DEF h
  <2>3. Done(c, "command") \/ Done(c, "transaction") =>
          \A i \in 1 .. N :
            n[i] = ghost[c].lost + (IF cl[c].outcome = "ok" THEN 1 ELSE 0)
    BY <2>1 DEF Once, Done
  <2>4. cl[c].kind = "transaction" => \A i, j \in 1 .. N : n[i] = n[j]
    BY <2>1 DEF Once
  <2>5. ASSUME cl[c].kind = "pipeline"
        PROVE  /\ N = Len(cl[c].cmds)
               /\ \A i, j \in 1 .. N : i < j => Answers(c, i) >= Answers(c, j)
               /\ \A i \in 1 .. N : Answers(c, i) <= Retries /\ Answers(c, i) \in Nat
               /\ cl[c].state = "done" /\ cl[c].outcome = "ok" =>
                    \A i \in 1 .. N : Answers(c, i) >= 1
    <3>1. N = Len(cl[c].cmds)
      BY <2>1, <2>5 DEF Once
    <3>2. Executed(c) \in Int /\ (Executed(c) > 0 => cl[c].tries > 0)
      <4>1. Executed(c) \in Int
        BY <2>2, <3>1, ExecutedInt
      <4>2. ~Connected(c) => Executed(c) = 0
        BY DEF Executed
      <4> QED
        BY <4>1, <4>2, CallFields
    <3> HIDE DEF n, N
    <3>3. ASSUME NEW i \in 1 .. N
          PROVE  /\ Answers(c, i) \in Nat
                 /\ Earlier(c, i) + cl[c].tries <= Retries
                 /\ i <= Executed(c) => Earlier(c, i) = Answers(c, i) - 1
                 /\ ~(i <= Executed(c)) => Earlier(c, i) = Answers(c, i) - 0
      <4>1. Answers(c, i) \in Nat
        BY <2>5, <3>1, PipelineCounts
      <4>2. Earlier(c, i) + cl[c].tries <= Retries
        BY <2>1, <2>5, <3>1 DEF InOrder
      <4> QED
        BY <4>1, <4>2, Zenon DEF Earlier
    <3>4. ASSUME NEW i \in 1 .. N PROVE Answers(c, i) <= Retries
      <4> DEFINE e == Answers(c, i)
      <4> HIDE DEF e
      <4>1. i \in Nat /\ i >= 1 /\ e \in Nat
        BY <2>2, <3>3 DEF e
      <4>2. CASE i <= Executed(c)
        <5>1. e - 1 + cl[c].tries <= Retries
          BY <3>3, <4>2 DEF e
        <5>2. cl[c].tries > 0
          BY <3>2, <4>1, <4>2
        <5> QED
          BY <2>1, <4>1, <5>1, <5>2 DEF e
      <4>3. CASE ~(i <= Executed(c))
        <5>1. e - 0 + cl[c].tries <= Retries
          BY <3>3, <4>3 DEF e
        <5> QED
          BY <2>1, <4>1, <5>1 DEF e
      <4> QED
        BY <4>2, <4>3
    <3>5. ASSUME NEW i \in 1 .. N, NEW j \in 1 .. N, i < j
          PROVE  Answers(c, i) >= Answers(c, j)
      <4> DEFINE e == Answers(c, i)
      <4> DEFINE f == Answers(c, j)
      <4> HIDE DEF e, f
      <4>1. i \in Nat /\ j \in Nat /\ e \in Nat /\ f \in Nat /\ Executed(c) \in Int
        BY <2>2, <3>2, <3>3 DEF e, f
      <4>2. Earlier(c, i) >= Earlier(c, j)
        BY <2>1, <2>5, <3>1, <3>5 DEF InOrder
      <4>3. CASE j <= Executed(c)
        <5>1. i <= Executed(c)
          BY <3>5, <4>1, <4>3
        <5>2. e - 1 >= f - 1
          BY <3>3, <4>2, <4>3, <5>1 DEF e, f
        <5> QED
          BY <4>1, <5>2 DEF e, f
      <4>4. CASE ~(j <= Executed(c))
        <5>1. Earlier(c, j) = f - 0 /\ (Earlier(c, i) = e - 1 \/ Earlier(c, i) = e - 0)
          BY <3>3, <4>4 DEF e, f
        <5>2. e >= f
          BY <4>1, <4>2, <5>1
        <5> QED
          BY <5>2 DEF e, f
      <4> QED
        BY <4>3, <4>4
    <3>6. cl[c].state = "done" /\ cl[c].outcome = "ok" => \A i \in 1 .. N : Answers(c, i) >= 1
      BY <2>1, <2>5, <3>1 DEF InOrder
    <3> QED
      BY <3>1, <3>3, <3>4, <3>5, <3>6
  <2>6. ASSUME NEW i \in 1 .. N PROVE n[i] + ghost[c].refused[i] <= Retries
    <3>1. CASE cl[c].kind \in {"none", "removex"}
      BY <2>1, <3>1 DEF Once
    <3>2. CASE cl[c].kind \in {"command", "transaction"}
      <4>1. ghost[c].refused[i] = 0 /\ n[i] \in Nat
        BY <2>1, <2>2, <3>2 DEF Once
      <4>2. n[i] <= Retries
        <5>1. CASE cl[c].state = "run"
          <6>1. ghost[c].lost + cl[c].tries <= Retries /\ n[i] = ghost[c].lost
            BY <2>1, <3>2, <5>1 DEF Once
          <6> HIDE DEF n
          <6> QED
            BY <2>1, <6>1
        <5>2. CASE cl[c].state = "done"
          BY <2>1, <3>2, <5>2 DEF Once
        <5> QED
          BY <2>1, <3>2, <5>1, <5>2
      <4> HIDE DEF n
      <4> QED
        BY <4>1, <4>2
    <3>3. CASE cl[c].kind = "pipeline"
      BY <2>5, <3>3 DEF Answers
    <3> QED
      BY <2>1, <3>1, <3>2, <3>3
  <2>7. /\ cl[c].kind = "pipeline" =>
             \A i, j \in 1 .. N :
               i < j => n[i] + ghost[c].refused[i] >= n[j] + ghost[c].refused[j]
        /\ Done(c, "pipeline") /\ cl[c].outcome = "ok" =>
             \A i \in 1 .. N : n[i] + ghost[c].refused[i] >= 1
    BY <2>5 DEF Answers, Done
  <2> QED
    BY <2>2, <2>3, <2>4, <2>6, <2>7
<1> QED
  BY <1>1, Invariant, PTL

\* removex returns only when no matching key with a name is left that was there since
\* it was called, and tells how many keys it deleted, but those whose answer was lost.
THEOREM RemovexExactHolds == Spec => []RemovexExact
<1>1. IInv => RemovexExact
  BY DEF IInv, Holds, Exact, RemovexExact, Done
<1> QED
  BY <1>1, Invariant, PTL

\* What a modelled wrapper of redis.h, list.h, set.h, hash.h, sortedset.h or script.h
\* tells its caller is what the server did to the data for the attempt that was
\* answered, and what one with nothing to do tells is that nothing was done;
\* setnx(), Script::exists() and a push of nothing are excepted, as in Promised.
THEOREM ResultIsToldHolds == Spec => []ResultIsTold
<1>1. IInv => ResultIsTold
  BY DEF IInv, Holds, Truth, ResultIsTold
<1> QED
  BY <1>1, Invariant, PTL
=============================================================================
