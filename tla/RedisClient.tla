---------------------------- MODULE RedisClient ----------------------------
(***************************************************************************)
(* redis/: clients that execute commands, transactions and pipelines       *)
(* through a pool of connections, and removex, which scans the keyspace    *)
(* and deletes what a pattern matches.                                     *)
(*                                                                         *)
(* Everything the clients send goes through run_with_connection (external):*)
(* it takes an idle connection or opens one, runs a lambda, and puts the   *)
(* connection back when the lambda returns.  When the lambda fails with a  *)
(* connection error it drops the connection and runs the WHOLE lambda      *)
(* again, up to "retries" times; any other exception passes through, and   *)
(* the connection is dropped too.  A connection may break before the       *)
(* server saw a command, or after the server executed it and before the    *)
(* reply came back: the client cannot tell.                                *)
(*                                                                         *)
(* One step is one command of one client, with the server's execution and  *)
(* the handling of the reply: a client blocks on its reply, the server     *)
(* executes one command at a time, and clients interleave between them.    *)
(* Of a pipeline the server may have executed more than the client has     *)
(* read replies of, so there executing and reading are steps of their own. *)
(* Other programs add keys, and keys expire, at any time.                  *)
(***************************************************************************)
EXTENDS RedisCommands

CONSTANTS
  Clients, Conns, NoConn,
  Retries,         \* retries()
  MaxEmptyPages,   \* removex: 1000 in the code
  Programs,        \* what the clients may be programmed to do, each of them a
                   \* function from Clients to sequences of calls
  MaxFaults,       \* bound: connections that break
  MaxAdds          \* bound: keys added by other programs

(* What a client may call: a wrapper, a transaction or a pipeline of what   *)
(* wrappers send (a pipeline of nothing has no effect and is left out), or *)
(* removex with the size of its pages.                                     *)
Calls ==
       [kind : {"command"}, cmds : {q \in Seq(Commands) : Len(q) = 1}]
  \cup [kind : {"transaction"}, cmds : Seq(Commands)]
  \cup [kind : {"pipeline"}, cmds : Seq(Commands) \ {<<>>}]
  \cup [kind : {"removex"}, cmds : {q \in Seq(Scans({0})) : Len(q) = 1}]

ASSUME RedisClientAssumption ==
  /\ NoConn \notin Conns
  /\ Retries \in Nat /\ MaxEmptyPages \in Nat
  /\ Programs \subseteq [Clients -> Seq(Calls)]

VARIABLES
  program,  \* the one of Programs that runs
  data,     \* what the server stores
  conn,     \* [Conns -> the server's state of the connection]
  idle,     \* the connections in the pool
  cl,       \* [Clients -> the call in progress, or the last one]
  rx,       \* [Clients -> the locals of removex]
  ghost,    \* [Clients -> history: what the server did for the call]
  faults, adds

vars == <<program, data, conn, idle, cl, rx, ghost, faults, adds>>

-----------------------------------------------------------------------------
(***************************************************************************)
(* Connections and calls.                                                  *)
(***************************************************************************)
(* queue: what the server has got inside MULTI or of a pipeline and not     *)
(* executed yet, each command with its place in the call; unread: the      *)
(* replies of a pipeline that the client has not read.                     *)
Queued(i, cmd) == [at |-> i, cmd |-> cmd]
Clean == [multi |-> FALSE, dirty |-> FALSE, queue |-> <<>>, unread |-> 0]

\* at: which command of the call is next; see Next in the transaction
NoCall == [kind |-> "none", cmds |-> <<>>, at |-> 1, tries |-> 0, conn |-> NoConn,
           state |-> "idle", outcome |-> "none", told |-> 0, calls |-> 0]

NoRemovex == [batch |-> 0, cursor |-> 0, prev |-> 0, removed |-> 0, found |-> 0, loopGuard |-> 0]

(* applied: how often the server executed each command; refused: how often *)
(* it answered it with an error (counted for pipelines); lost: answers     *)
(* that were lost after it had executed the command or the transaction;    *)
(* before and after: the data around the attempt that was answered last;   *)
(* steady, deleted, unheard: the matching keys that were there all the     *)
(* time, the keys removex deleted, and those of them it never heard of.    *)
NoHistory == [applied |-> <<>>, refused |-> <<>>, lost |-> 0, before |-> 0, after |-> 0,
              steady |-> {}, deleted |-> 0, unheard |-> 0]

Init ==
  /\ program \in Programs
  /\ data = [keys |-> Keys, list |-> <<Full>>, set |-> Items, hash |-> {Full},
             zset |-> {<<1, Full>>, <<2, Empty>>}, script |-> FALSE]
  /\ conn = [k \in Conns |-> Clean]
  /\ idle = {}
  /\ cl = [c \in Clients |-> NoCall]
  /\ rx = [c \in Clients |-> NoRemovex]
  /\ ghost = [c \in Clients |-> NoHistory]
  /\ faults = 0 /\ adds = 0

Running(c, kind) == cl[c].state = "run" /\ cl[c].kind = kind
Connected(c) == cl[c].conn # NoConn

-----------------------------------------------------------------------------
(***************************************************************************)
(* The server on a connection (external): inside MULTI commands are        *)
(* queued, EXEC executes the queue in one go unless a command was refused  *)
(* while queueing, and the state goes with the connection.  A command may  *)
(* be refused for reasons of the server's own, MULTI and DISCARD are not.  *)
(* "ran" is the places of the commands executed: none when the answer is   *)
(* an error, and all that were queued when EXEC runs them.                 *)
(***************************************************************************)
Multi   == Cmd("MULTI", Empty, "none")
Exec    == Cmd("EXEC", Empty, "none")
Discard == Cmd("DISCARD", Empty, "none")

(* The data after a whole queue.                                           *)
AfterAll(d, queue) ==
  LET all[i \in 0 .. Len(queue)] ==
        IF i = 0 THEN d ELSE Apply(all[i - 1], queue[i].cmd).data
  IN  all[Len(queue)]

Serve(k, at, cmd, refused) ==
  LET s == conn[k]
      step == Apply(data, cmd)
      Result(d, to, r, ran) == [data |-> d, conn |-> to, reply |-> r, ran |-> ran]
  IN  CASE cmd.name = "MULTI"   -> Result(data, [s EXCEPT !.multi = TRUE], Status, <<>>)
        [] cmd.name = "DISCARD" -> Result(data, Clean, Status, <<>>)
        [] cmd.name = "EXEC"    ->
             IF s.multi /\ ~s.dirty
               THEN Result(AfterAll(data, s.queue), Clean, Arr(s.queue),
                           [j \in DOMAIN s.queue |-> s.queue[j].at])
               ELSE Result(data, Clean, Error, <<>>)
        [] OTHER ->
             IF refused
               THEN Result(data, [s EXCEPT !.dirty = @ \/ s.multi], Error, <<>>)
             ELSE IF s.multi
               THEN Result(data, [s EXCEPT !.queue = Append(@, Queued(at, cmd))], Status, <<>>)
               ELSE Result(step.data, s, step.reply,
                           IF isError(step.reply) THEN <<>> ELSE <<at>>)

(* History.  steady: the matching keys that have been there since removex  *)
(* was called.                                                             *)
Steady(d) == [c \in Clients |-> [ghost[c] EXCEPT !.steady = @ \cap d.keys]]

-----------------------------------------------------------------------------
(***************************************************************************)
(* run_with_connection (external).                                         *)
(***************************************************************************)
InUse == {cl[c].conn : c \in Clients}

TakeConnection(c) ==
  /\ cl[c].state = "run" /\ ~Connected(c) /\ cl[c].tries > 0
  /\ \/ \E k \in idle :
          /\ cl' = [cl EXCEPT ![c].conn = k]
          /\ idle' = idle \ {k}
          /\ UNCHANGED <<conn, faults>>
     \/ /\ idle = {}
        /\ \E k \in Conns \ InUse :
             /\ cl' = [cl EXCEPT ![c].conn = k]
             /\ conn' = [conn EXCEPT ![k] = Clean]
        /\ UNCHANGED <<idle, faults>>
     \/ /\ idle = {} /\ faults < MaxFaults
        /\ faults' = faults + 1
        /\ cl' = [cl EXCEPT ![c].tries = @ - 1]
        /\ UNCHANGED <<conn, idle>>
  /\ UNCHANGED <<program, data, rx, ghost, adds>>

(* An exception passes through to the caller of the wrapper, except from   *)
(* Script::exists, which answers FALSE to any exception.                   *)
Threw(r) ==
  [r EXCEPT !.state = "done", !.conn = NoConn, !.tries = 0,
            !.outcome = IF r.cmds[1].name = "SCRIPT EXISTS" THEN "caught" ELSE "threw",
            !.told = FALSE]

(* Too many retries: the exception passes through exec.                    *)
GiveUp(c) ==
  /\ cl[c].state = "run" /\ ~Connected(c) /\ cl[c].tries = 0
  /\ cl' = [cl EXCEPT ![c] = Threw(@)]
  /\ UNCHANGED <<program, data, conn, idle, rx, ghost, faults, adds>>

\* Seeded fault: the transaction sends its commands without MULTI.
BugTransactionStart(kind) == 1

(* The first command of the lambda: MULTI in a transaction.                *)
Start(kind) == IF kind = "transaction" THEN 0 ELSE 1

(* The connection breaks: the lambda starts again on another one.          *)
Broken(r) == [r EXCEPT !.conn = NoConn, !.tries = @ - 1, !.at = Start(r.kind)]

(* The command that client c sends next, and whether the server may refuse *)
(* it.                                                                     *)
Sent(c) ==
  IF cl[c].kind # "transaction" THEN cl[c].cmds[cl[c].at]
  ELSE CASE cl[c].at = 0                   -> Multi
         [] cl[c].at \in DOMAIN cl[c].cmds -> cl[c].cmds[cl[c].at]
         [] cl[c].at = -1                  -> Discard
         [] OTHER                          -> Exec

(* What a served command adds to the history of c: each of its commands    *)
(* was applied once more for every time the server ran it.                 *)
Times(ran, i) == Cardinality({j \in DOMAIN ran : ran[j] = i})

Counted(c, s) ==
  [ghost[c] EXCEPT
     !.applied = [i \in DOMAIN @ |-> @[i] + Times(s.ran, i)],
     !.before = IF cl[c].kind = "command" THEN data ELSE @,
     !.after = IF cl[c].kind = "command" THEN s.data ELSE @,
     !.deleted = IF cl[c].kind = "removex"
                   THEN @ + Cardinality(data.keys \ s.data.keys) ELSE @]

(* Client c sends a command on its connection and the server executes it.  *)
(* Either the reply comes back and Handle(s) says what becomes of the call *)
(* and of its connection, or it is lost; or the command never arrived.     *)
Send(c, Handle(_)) ==
  LET k == cl[c].conn IN
  /\ Connected(c)
  /\ \E refused \in BOOLEAN :
       LET s == Serve(k, cl[c].at, Sent(c), refused)
           h == Counted(c, s)
       IN  /\ data' = s.data
           /\ \/ /\ conn' = [conn EXCEPT ![k] = s.conn]
                 /\ ghost' = [Steady(s.data) EXCEPT ![c] =
                                [h EXCEPT !.steady = @ \cap s.data.keys]]
                 /\ Handle(s.reply)
                 /\ UNCHANGED faults
              \/ /\ faults < MaxFaults
                 /\ faults' = faults + 1
                 /\ conn' = [conn EXCEPT ![k] = Clean]
                 /\ cl' = [cl EXCEPT ![c] = Broken(@)]
                 /\ ghost' = [Steady(s.data) EXCEPT ![c] =
                      [h EXCEPT !.steady = @ \cap s.data.keys,
                                !.lost = IF s.ran # <<>> THEN @ + 1 ELSE @,
                                !.unheard = @ + (h.deleted - ghost[c].deleted)]]
                 /\ UNCHANGED <<idle, rx>>
  /\ UNCHANGED <<program, adds>>

Lose(c) ==
  /\ cl[c].state = "run" /\ Connected(c)
  /\ faults < MaxFaults
  /\ faults' = faults + 1
  /\ conn' = [conn EXCEPT ![cl[c].conn] = Clean]
  /\ cl' = [cl EXCEPT ![c] = Broken(@)]
  /\ UNCHANGED <<program, data, idle, rx, ghost, adds>>

(* The lambda returns and the connection goes back to the pool; or it      *)
(* throws and the connection is dropped.                                   *)
Returned(c, outcome, told) ==
  /\ cl' = [cl EXCEPT ![c].state = "done", ![c].outcome = outcome, ![c].told = told,
                      ![c].tries = 0, ![c].conn = NoConn]
  /\ idle' = idle \cup {cl[c].conn}

-----------------------------------------------------------------------------
(***************************************************************************)
(* Calls.                                                                  *)
(***************************************************************************)
Call(c) ==
  /\ cl[c].state # "run" /\ cl[c].calls < Len(program[c])
  /\ LET call == program[c][cl[c].calls + 1]
         nothing == call.kind = "command" /\ NothingToDo(call.cmds[1])
     IN    /\ cl' = [cl EXCEPT ![c] =
                [kind |-> call.kind, cmds |-> call.cmds, at |-> Start(call.kind),
                 tries |-> Retries, conn |-> NoConn, calls |-> @.calls + 1,
                 state |-> IF nothing THEN "done" ELSE "run",
                 outcome |-> IF nothing THEN "nothing" ELSE "none",
                 told |-> IF nothing THEN Nothing(call.cmds[1]) ELSE 0]]
           /\ rx' = [rx EXCEPT ![c] = IF call.kind = "removex"
                                     THEN [NoRemovex EXCEPT !.batch = call.cmds[1].arg.count]
                                     ELSE NoRemovex]
           /\ ghost' = [ghost EXCEPT ![c] =
                IF call.kind = "removex"
                  THEN [NoHistory EXCEPT !.steady = data.keys \cap Matching]
                  ELSE [NoHistory EXCEPT !.applied = [i \in DOMAIN call.cmds |-> 0],
                                         !.refused = [i \in DOMAIN call.cmds |-> 0],
                                         !.before = data, !.after = data]]
  /\ UNCHANGED <<program, data, conn, idle, faults, adds>>

(* Redis::exec(Command): an error reply is thrown.                         *)
RunCommand(c) ==
  /\ Running(c, "command")
  /\ Send(c, LAMBDA r :
       /\ IF isError(r)
            THEN cl' = [cl EXCEPT ![c] = Threw(@)] /\ UNCHANGED idle
            ELSE Returned(c, "ok", Read(cl[c].cmds[1], r))
       /\ UNCHANGED rx)

\* Seeded fault: a refused command ends the transaction without DISCARD.
BugTransactionNoDiscard(c, r) ==
  CASE cl[c].at = 0 -> cl' = [cl EXCEPT ![c].at = 1] /\ UNCHANGED idle
    [] cl[c].at \in DOMAIN cl[c].cmds ->
         IF isError(r) THEN Returned(c, "err", 0)
         ELSE cl' = [cl EXCEPT ![c].at = @ + 1] /\ UNCHANGED idle
    [] OTHER -> Returned(c, IF cl[c].at = -1 \/ isError(r) THEN "err" ELSE "ok", 0)

(* The replies to a transaction's commands: MULTI's is ignored, a refused  *)
(* command sends DISCARD and is the result, otherwise EXEC's reply is.     *)
OnTransactionReply(c, r) ==
  CASE cl[c].at = 0 -> cl' = [cl EXCEPT ![c].at = 1] /\ UNCHANGED idle
    [] cl[c].at \in DOMAIN cl[c].cmds ->
         /\ cl' = [cl EXCEPT ![c].at = IF isError(r) THEN -1 ELSE @ + 1]
         /\ UNCHANGED idle
    [] OTHER -> Returned(c, IF cl[c].at = -1 \/ isError(r) THEN "err" ELSE "ok", 0)

RunTransaction(c) ==
  /\ Running(c, "transaction")
  /\ Send(c, LAMBDA r : OnTransactionReply(c, r) /\ UNCHANGED rx)

(* Pipeline::exec: the commands are appended to the connection's buffer;   *)
(* get_replies sends them all and reads as many replies.  An error among   *)
(* them is a reply like any other.                                         *)
AppendCommands(c) ==
  /\ Running(c, "pipeline") /\ Connected(c)
  /\ conn[cl[c].conn].unread = 0 /\ cl[c].at = 1
  /\ conn' = [conn EXCEPT ![cl[c].conn].unread = Len(cl[c].cmds),
                          ![cl[c].conn].queue = [i \in DOMAIN cl[c].cmds |->
                                                   Queued(i, cl[c].cmds[i])]]
  /\ UNCHANGED <<program, data, idle, cl, rx, ghost, faults, adds>>

(* The server (external) executes the next command of a pipeline, whether  *)
(* or not the replies are read.                                            *)
ExecutePipelined(c) ==
  /\ Running(c, "pipeline") /\ Connected(c) /\ conn[cl[c].conn].queue # <<>>
  /\ LET next == Head(conn[cl[c].conn].queue)
         step == Apply(data, next.cmd)
     IN  \E refused \in BOOLEAN :
           LET error == refused \/ isError(step.reply)
               to == IF error THEN data ELSE step.data
           IN  /\ data' = to
               /\ ghost' = [Steady(to) EXCEPT
                    ![c].applied[next.at] = IF error THEN @ ELSE @ + 1,
                    ![c].refused[next.at] = IF error THEN @ + 1 ELSE @]
  /\ conn' = [conn EXCEPT ![cl[c].conn].queue = Tail(@)]
  /\ UNCHANGED <<program, idle, cl, rx, faults, adds>>

LastReply(c) == cl[c].at = Len(cl[c].cmds)

(* A reply that has come is read.                                          *)
RunPipeline(c) ==
  /\ Running(c, "pipeline") /\ Connected(c)
  /\ conn[cl[c].conn].unread > Len(conn[cl[c].conn].queue)
  /\ conn' = [conn EXCEPT ![cl[c].conn].unread = @ - 1]
  /\ IF LastReply(c) THEN Returned(c, "ok", 0)
                     ELSE cl' = [cl EXCEPT ![c].at = @ + 1] /\ UNCHANGED idle
  /\ UNCHANGED <<program, data, rx, ghost, faults, adds>>

-----------------------------------------------------------------------------
(***************************************************************************)
(* removex: scan a page, delete its keys, start over after a page that     *)
(* deleted something, until a whole scan deletes nothing.  scan and remove *)
(* are execs of their own, with their own connection and retries.          *)
(***************************************************************************)
NextExec(c, cmd) ==
  /\ cl' = [cl EXCEPT ![c].cmds = <<cmd>>, ![c].tries = Retries, ![c].conn = NoConn]
  /\ idle' = idle \cup {cl[c].conn}

\* Seeded fault: the loop goes on only while there is a cursor.
BugWhileCursor(x) == x.cursor # 0

Again(x) == x.cursor # 0 \/ x.removed # x.prev

(* The end of the loop's body, with the locals x.                          *)
Loop(c, x) ==
  /\ rx' = [rx EXCEPT ![c] = [x EXCEPT !.prev = x.removed]]
  /\ IF Again(x) THEN NextExec(c, ScanFrom(x.cursor, x.batch))
                 ELSE Returned(c, "ok", x.removed)

(* A page: keys without a name are skipped, and a reply that is no array   *)
(* of two ends the scan.                                                   *)
OnPage(c, r) ==
  LET two  == isArray(r) /\ Len(r.elements) >= 2
      page == IF two THEN Range(r.elements[2]) \ Unnamed ELSE {}
      x == [rx[c] EXCEPT !.cursor = IF two THEN r.elements[1] ELSE 0,
                         !.found = @ + Cardinality(page),
                         !.loopGuard = IF page = {} THEN @ + 1 ELSE 0]
  IN  IF page # {}
        THEN rx' = [rx EXCEPT ![c] = x] /\ NextExec(c, RemoveKeys(page))
      ELSE IF x.loopGuard > MaxEmptyPages
        THEN /\ rx' = [rx EXCEPT ![c] = x]
             /\ Returned(c, "threw", 0)
      ELSE Loop(c, x)

OnRemoved(c, r) ==
  LET x == [rx[c] EXCEPT !.removed = @ + getInt(r),
                         !.cursor = IF getInt(r) # 0 THEN 0 ELSE @]
  IN  Loop(c, x)

RunRemovex(c) ==
  /\ Running(c, "removex")
  /\ Send(c, LAMBDA r :
       IF isError(r)
         THEN cl' = [cl EXCEPT ![c] = Threw(@)] /\ UNCHANGED <<idle, rx>>
       ELSE IF cl[c].cmds[1].name = "SCAN" THEN OnPage(c, r)
                                           ELSE OnRemoved(c, r))

-----------------------------------------------------------------------------
(***************************************************************************)
(* Other programs (external): keys appear and expire.                      *)
(***************************************************************************)
AddKey ==
  /\ adds < MaxAdds
  /\ \E k \in Keys \ data.keys : data' = [data EXCEPT !.keys = @ \cup {k}]
  /\ adds' = adds + 1
  /\ UNCHANGED <<program, conn, idle, cl, rx, ghost, faults>>

KeyExpires ==
  /\ adds < MaxAdds
  /\ adds' = adds + 1
  /\ \E k \in data.keys :
       /\ data' = [data EXCEPT !.keys = @ \ {k}]
       /\ ghost' = Steady([data EXCEPT !.keys = @ \ {k}])
  /\ UNCHANGED <<program, conn, idle, cl, rx, faults>>

Next ==
  \/ \E c \in Clients :
       \/ Call(c) \/ TakeConnection(c) \/ GiveUp(c) \/ Lose(c)
       \/ RunCommand(c) \/ RunTransaction(c)
       \/ AppendCommands(c) \/ ExecutePipelined(c) \/ RunPipeline(c)
       \/ RunRemovex(c)
  \/ AddKey \/ KeyExpires

Spec == Init /\ [][Next]_vars

-----------------------------------------------------------------------------
(***************************************************************************)
(* Properties.                                                             *)
(***************************************************************************)
Done(c, kind) == cl[c].state = "done" /\ cl[c].kind = kind

TypeOK ==
  /\ data \in Data
  /\ idle \subseteq Conns
  /\ \A c \in Clients :
       /\ cl[c].conn \in Conns \cup {NoConn}
       /\ cl[c].state \in {"idle", "run", "done"}
       /\ cl[c].outcome \in {"none", "ok", "err", "threw", "caught", "nothing"}
       /\ cl[c].tries \in 0 .. Retries

(* A connection in the pool can be used by anyone: it is not in use, not   *)
(* inside MULTI, has nothing queued and no reply left to read, whatever    *)
(* went wrong in the transactions (DISCARD after a refused command) and    *)
(* pipelines (as many replies as commands) that used it before.  And the   *)
(* values have their types.                                                *)
PoolIsClean ==
  /\ TypeOK
  /\ idle \cap InUse = {}
  /\ \A k \in idle : conn[k] = Clean

(* A retry repeats the whole lambda, so a command is applied once for the  *)
(* answer its caller got and once more for every answer that was lost      *)
(* after the server had executed it -- no more, and a failed call is not   *)
(* the same as a call without effect.  At no moment is a transaction       *)
(* applied in part, also when its connection breaks between MULTI and      *)
(* EXEC.  A pipeline may be applied in part and is repeated from its       *)
(* beginning: an earlier command has been executed or refused at least as  *)
(* often as a later one, and each of them once when the call returns.      *)
AppliedOncePerAnswer ==
  \A c \in Clients :
    LET n == ghost[c].applied
        answered(i) == n[i] + ghost[c].refused[i]
    IN
    /\ Done(c, "command") \/ Done(c, "transaction") =>
         \A i \in DOMAIN n :
           n[i] = ghost[c].lost + (IF cl[c].outcome = "ok" THEN 1 ELSE 0)
    /\ cl[c].kind = "transaction" => \A i, j \in DOMAIN n : n[i] = n[j]
    /\ cl[c].kind = "pipeline" =>
         \A i, j \in DOMAIN n : i < j => answered(i) >= answered(j)
    /\ Done(c, "pipeline") /\ cl[c].outcome = "ok" =>
         \A i \in DOMAIN n : answered(i) >= 1
    /\ \A i \in DOMAIN n : answered(i) <= Retries

(* removex returns only when every matching key that has been there since  *)
(* the call is gone (keys without a name excepted: it never asks for       *)
(* them), whatever else added, deleted or expired keys in between; and the *)
(* number it returns is the number of keys it deleted, less those of a DEL *)
(* whose answer was lost.                                                  *)
RemovexExact ==
  \A c \in Clients :
    Done(c, "removex") /\ cl[c].outcome = "ok" =>
      /\ ghost[c].steady \subseteq Unnamed
      /\ cl[c].told + ghost[c].unheard = ghost[c].deleted
      /\ cl[c].told <= rx[c].found

(* What a wrapper that returns tells its caller is what its command did to *)
(* the data when the answered attempt was executed, less what Promised     *)
(* excepts (setnx, Script::exists, a push of nothing); and a wrapper given *)
(* nothing to do tells that nothing was done.                              *)
ResultIsTold ==
  \A c \in Clients :
    Done(c, "command") /\ cl[c].outcome \in {"ok", "nothing"} =>
      Promised(cl[c].cmds[1], cl[c].told, ghost[c].before, ghost[c].after)
=============================================================================
