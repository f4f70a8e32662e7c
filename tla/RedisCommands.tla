--------------------------- MODULE RedisCommands ---------------------------
(***************************************************************************)
(* The commands of redis/: what the wrappers for keys, lists, sets,        *)
(* hashes, sorted sets and scripts send, how they read the reply, and what *)
(* the server does with a command.  The server is external: it is modelled *)
(* from how the wrappers use it, on one list, one set of fields per kind   *)
(* of container, and a keyspace whose keys are their places in the order   *)
(* of a scan.                                                              *)
(*                                                                         *)
(* A command is a record: "name" is what the server is asked, "arg" its    *)
(* arguments, "read" how the wrapper turns the reply into its result.      *)
(***************************************************************************)
EXTENDS Integers, Sequences, SequencesExt, FiniteSets

CONSTANTS
  NKeys,      \* the keys are 1 .. NKeys
  Matching,   \* the keys a pattern matches
  Unnamed,    \* of these, the key whose name is the empty string (or none)
  Empty,      \* the empty string as an element, and the default of getString
  Full        \* another element

Keys  == 1 .. NKeys
Items == {Empty, Full}
Kinds == {"set", "hash"}

ASSUME RedisCommandsAssumption ==
  /\ NKeys \in Nat \ {0}
  /\ Matching \subseteq Keys
  /\ Unnamed \subseteq Matching
  /\ Empty # Full

-----------------------------------------------------------------------------
(***************************************************************************)
(* Replies, and how they are read.  Text never holds a number here, so     *)
(* atoll of a string is 0.                                                 *)
(***************************************************************************)
Number(n) == [type |-> "INTEGER", n |-> n]
Str(v) == [type |-> "STRING", v |-> v]
Arr(s) == [type |-> "ARRAY", elements |-> s]
Nil    == [type |-> "NIL"]
Status == [type |-> "STATUS"]
Error  == [type |-> "ERROR"]

isError(r) == r.type = "ERROR"
isArray(r) == r.type = "ARRAY"
isString(r) == r.type = "STRING"
isInteger(r) == r.type = "INTEGER"

\* Seeded fault: getInt only knows strings.
BugGetIntStrings(r) == 0

getInt(r) == IF isInteger(r) THEN r.n ELSE 0
getString(r) == IF isString(r) THEN r.v ELSE Empty

(* The strings of an array that are not empty: SPOP, ZRANGEBYSCORE.        *)
Members(r) ==
  IF isArray(r)
    THEN {r.elements[i].v : i \in {j \in DOMAIN r.elements :
                                     isString(r.elements[j])
                                     /\ r.elements[j].v # Empty}}
    ELSE {}

(* MGET: one string per element, NIL read as the empty string.             *)
Strings(r) ==
  IF isArray(r) THEN [i \in DOMAIN r.elements |-> getString(r.elements[i])]
                ELSE <<>>

(* What the caller of the wrapper gets.  An error reply never comes here,  *)
(* exec has thrown: so set and setnx, which test for an error, are TRUE    *)
(* whatever the reply, and Script::exists reads the integer of an array.   *)
Read(cmd, r) ==
  CASE cmd.read = "int"     -> getInt(r)
    [] cmd.read = "one"     -> getInt(r) = 1
    [] cmd.read = "string"  -> getString(r)
    [] cmd.read = "members" -> Members(r)
    [] cmd.read = "strings" -> Strings(r)
    [] cmd.read = "done"    -> ~isError(r)

-----------------------------------------------------------------------------
(***************************************************************************)
(* The wrappers.                                                           *)
(***************************************************************************)
Cmd(name, arg, read) == [name |-> name, arg |-> arg, read |-> read]

\* Redis, Entity, Key
Exists(k)   == Cmd("EXISTS", k, "one")
Expire(k)   == Cmd("EXPIRE", k, "one")
Ttl(k)      == Cmd("TTL", k, "int")
Get(k)      == Cmd("GET", k, "string")
GetAll(ks)  == Cmd("MGET", ks, "strings")
Set(k)      == Cmd("SET", k, "done")
SetNx(k)    == Cmd("SETNX", k, "done")
RemoveKeys(ks) == Cmd("DEL", ks, "int")
ScanFrom(from, count) == Cmd("SCAN", [from |-> from, count |-> count], "none")

\* List; pop(dst) with the list itself as dst
ListFirst       == Cmd("LPOP", Empty, "string")
ListLast        == Cmd("RPOP", Empty, "string")
ListPush(vs)    == Cmd("LPUSH", vs, "int")
ListPushBack(vs) == Cmd("RPUSH", vs, "int")
ListPop         == Cmd("RPOPLPUSH", Empty, "string")
ListErase(v, count) == Cmd("LREM", [value |-> v, count |-> count], "int")
ListSize        == Cmd("LLEN", Empty, "int")

\* Set and Hash: the fields of a container of that kind
SetAdd(vs)          == Cmd("ADD", [kind |-> "set", fields |-> vs], "int")
HashSet(vs)         == Cmd("ADD", [kind |-> "hash", fields |-> vs], "int")
HashGet(v)          == Cmd("HGET", v, "string")
SetPop(n)           == Cmd("SPOP", n, "members")
SetErase(kind, vs)  == Cmd("REM", [kind |-> kind, fields |-> vs], "int")
SetSize(kind)       == Cmd("CARD", kind, "int")

\* SortedSet: members with a score, and intervals of scores; range() asks for
\* a page of the interval unless limit and offset are 0
SortedSetAdd(s, vs, options) ==
  Cmd("ZADD", [score |-> s, fields |-> vs, options |-> options], "int")
SortedSetRange(in, limit, offset) ==
  Cmd("ZRANGEBYSCORE", [in |-> in, limit |-> limit, offset |-> offset], "members")
SortedSetErase(in)      == Cmd("ZREMRANGEBYSCORE", in, "int")
SortedSetRemove(vs)     == Cmd("ZREM", [fields |-> vs], "int")
SortedSetSize           == Cmd("ZCARD", Empty, "int")
Interval(lo, lox, hi, hix) == [lo |-> lo, lox |-> lox, hi |-> hi, hix |-> hix]
Intervals == [lo : Int, lox : BOOLEAN, hi : Int, hix : BOOLEAN]
Inf == 1000   \* above every score, and -Inf below
Options == {"XX", "NX", "CH"}   \* INCR, which makes the reply a score, is left out

TrimLeft(s, exclusive)  == SortedSetErase(Interval(-Inf, FALSE, s, exclusive))
TrimRight(s, exclusive) == SortedSetErase(Interval(s, exclusive, Inf, FALSE))

\* Script
ScriptLoad   == Cmd("SCRIPT LOAD", Full, "string")
ScriptExists == Cmd("SCRIPT EXISTS", Full, "one")
ScriptRun    == Cmd("EVALSHA", Full, "done")

(* What removex scans with, from one of the places.                        *)
Scans(places) == [name : {"SCAN"}, arg : [from : places, count : Nat \ {0}], read : {"none"}]

(* What these wrappers send: what is asked, with what, and how the reply   *)
(* is read.                                                                *)
Commands ==
       [name : {"EXISTS", "EXPIRE"}, arg : Keys, read : {"one"}]
  \cup [name : {"TTL"}, arg : Keys, read : {"int"}]
  \cup [name : {"GET"}, arg : Keys, read : {"string"}]
  \cup [name : {"MGET"}, arg : Seq(Keys), read : {"strings"}]
  \cup [name : {"SET", "SETNX"}, arg : Keys, read : {"done"}]
  \cup [name : {"DEL"}, arg : SUBSET Keys, read : {"int"}]
  \cup [name : {"LPOP", "RPOP", "RPOPLPUSH"}, arg : {Empty}, read : {"string"}]
  \cup [name : {"LPUSH", "RPUSH"}, arg : Seq(Items), read : {"int"}]
  \cup [name : {"LREM"}, arg : [value : Items, count : Int], read : {"int"}]
  \cup [name : {"LLEN"}, arg : {Empty}, read : {"int"}]
  \cup [name : {"ADD", "REM"}, arg : [kind : Kinds, fields : SUBSET Items], read : {"int"}]
  \cup [name : {"HGET"}, arg : Items, read : {"string"}]
  \cup [name : {"SPOP"}, arg : Nat, read : {"members"}]
  \cup [name : {"CARD"}, arg : Kinds, read : {"int"}]
  \cup [name : {"ZADD"},
        arg : [score : 1 .. 2, fields : SUBSET Items, options : SUBSET Options], read : {"int"}]
  \cup [name : {"ZRANGEBYSCORE"},
        arg : [in : Intervals, limit : Nat, offset : Nat], read : {"members"}]
  \cup [name : {"ZREM"}, arg : [fields : SUBSET Items], read : {"int"}]
  \cup [name : {"ZCARD"}, arg : {Empty}, read : {"int"}]
  \cup [name : {"ZREMRANGEBYSCORE"}, arg : Intervals, read : {"int"}]
  \cup [name : {"SCRIPT LOAD"}, arg : {Full}, read : {"string"}]
  \cup [name : {"SCRIPT EXISTS"}, arg : {Full}, read : {"one"}]
  \cup [name : {"EVALSHA"}, arg : {Full}, read : {"done"}]

(* A wrapper given nothing to push, add, erase or pop sends no command and *)
(* answers 0, or nothing.                                                  *)
NothingToDo(cmd) ==
  \/ cmd.name \in {"LPUSH", "RPUSH", "MGET"} /\ cmd.arg = <<>>
  \/ cmd.name \in {"ADD", "REM", "ZADD", "ZREM"} /\ cmd.arg.fields = {}
  \/ cmd.name = "SPOP" /\ cmd.arg = 0
  \/ cmd.name = "DEL" /\ cmd.arg = {}

Nothing(cmd) ==
  CASE cmd.read = "members" -> {}
    [] cmd.read = "strings" -> <<>>
    [] OTHER -> 0

-----------------------------------------------------------------------------
(***************************************************************************)
(* The server.  Apply gives what a command makes of the data and the reply *)
(* to it.  SCAN visits as many places as it is told and answers with the   *)
(* next place (0 after the last) and the matching keys among them.         *)
(***************************************************************************)
Data == [keys: SUBSET Keys, list: Seq(Items), set: SUBSET Items,
         hash: SUBSET Items, zset: SUBSET ((1 .. 2) \X Items), script: BOOLEAN]

Within(s, in) ==
  /\ IF in.lox THEN s > in.lo ELSE s >= in.lo
  /\ IF in.hix THEN s < in.hi ELSE s <= in.hi

Applied(d, r) == [data |-> d, reply |-> r]

OnKeys(d, cmd) ==
  LET there(k) == IF k \in d.keys THEN 1 ELSE 0
      value(k) == IF k \in d.keys THEN Str(Full) ELSE Nil
  IN  CASE cmd.name \in {"EXISTS", "EXPIRE"} -> Applied(d, Number(there(cmd.arg)))
        [] cmd.name = "TTL"   -> Applied(d, Number(there(cmd.arg) - 2))
        [] cmd.name = "GET"   -> Applied(d, value(cmd.arg))
        [] cmd.name = "MGET"  -> Applied(d, Arr([i \in DOMAIN cmd.arg |-> value(cmd.arg[i])]))
        [] cmd.name = "SET"   -> Applied([d EXCEPT !.keys = @ \cup {cmd.arg}], Status)
        [] cmd.name = "SETNX" -> Applied([d EXCEPT !.keys = @ \cup {cmd.arg}],
                                         Number(1 - there(cmd.arg)))
        [] cmd.name = "DEL"   -> Applied([d EXCEPT !.keys = @ \ cmd.arg],
                                         Number(Cardinality(d.keys \cap cmd.arg)))

(* The places LREM takes v from: every one, or as many as count says from  *)
(* the head or, when it is negative, from the tail.                        *)
Hits(l, v, count) ==
  LET at == {i \in DOMAIN l : l[i] = v}
  IN  CASE count = 0 -> at
        [] count > 0 -> {i \in at : Cardinality({j \in at : j <= i}) <= count}
        [] count < 0 -> {i \in at : Cardinality({j \in at : j >= i}) <= -count}

(* A list without the elements at some places.                             *)
Without(l, gone) ==
  LET rest[i \in 0 .. Len(l)] ==
        IF i = 0 THEN <<>>
        ELSE IF i \in gone THEN rest[i - 1] ELSE Append(rest[i - 1], l[i])
  IN  rest[Len(l)]

(* Taking an element: NIL when there is none.                              *)
Taken(d, cmd) ==
  LET l == d.list
  IN  IF l = <<>> THEN Applied(d, Nil)
      ELSE CASE cmd.name = "LPOP" -> Applied([d EXCEPT !.list = Tail(l)], Str(Head(l)))
             [] cmd.name = "RPOP" -> Applied([d EXCEPT !.list = Front(l)], Str(Last(l)))
             [] cmd.name = "RPOPLPUSH" ->
                  Applied([d EXCEPT !.list = <<Last(l)>> \o Front(l)], Str(Last(l)))

OnList(d, cmd) ==
  LET l == d.list
  IN  CASE cmd.name = "LPUSH" -> Applied([d EXCEPT !.list = Reverse(cmd.arg) \o l],
                                         Number(Len(l) + Len(cmd.arg)))
        [] cmd.name = "RPUSH" -> Applied([d EXCEPT !.list = l \o cmd.arg],
                                         Number(Len(l) + Len(cmd.arg)))
        [] cmd.name = "LLEN"  -> Applied(d, Number(Len(l)))
        [] cmd.name = "LREM"  ->
             LET rest == Without(l, Hits(l, cmd.arg.value, cmd.arg.count))
             IN  Applied([d EXCEPT !.list = rest], Number(Len(l) - Len(rest)))
        [] OTHER -> Taken(d, cmd)

(* SPOP takes any members it likes; the choice is Head's of one order.     *)
OnFields(d, cmd) ==
  CASE cmd.name = "ADD"  ->
         Applied([d EXCEPT ![cmd.arg.kind] = @ \cup cmd.arg.fields],
                 Number(Cardinality(cmd.arg.fields \ d[cmd.arg.kind])))
    [] cmd.name = "REM"  ->
         Applied([d EXCEPT ![cmd.arg.kind] = @ \ cmd.arg.fields],
                 Number(Cardinality(cmd.arg.fields \cap d[cmd.arg.kind])))
    [] cmd.name = "CARD" -> Applied(d, Number(Cardinality(d[cmd.arg])))
    [] cmd.name = "HGET" -> Applied(d, IF cmd.arg \in d.hash THEN Str(Full) ELSE Nil)
    [] cmd.name = "SPOP" ->
         LET all == SetToSeq(d.set)
             out == SubSeq(all, 1, IF cmd.arg < Len(all) THEN cmd.arg ELSE Len(all))
         IN  Applied([d EXCEPT !.set = @ \ Range(out)],
                     Arr([i \in DOMAIN out |-> Str(out[i])]))

(* A sorted set is ordered by score, then by name, the empty one first;    *)
(* LIMIT takes a page of what is in the interval.                          *)
Before(m, n) == m[1] < n[1] \/ (m[1] = n[1] /\ m[2] = Empty /\ n[2] # Empty)
Rank(S, m) == Cardinality({n \in S : n = m \/ Before(n, m)})

Sliced(zset, arg) ==
  LET in == {m \in zset : Within(m[1], arg.in)}
  IN  IF arg.limit = 0 /\ arg.offset = 0 THEN in
      ELSE {m \in in : /\ Rank(in, m) > arg.offset
                       /\ Rank(in, m) <= arg.offset + arg.limit}

Named(zset) == {m[2] : m \in zset}

(* ZADD: XX leaves new members out, NX those that are there;  *)
(* CH counts those with another score, too.                                *)
Eligible(d, arg) ==
  {v \in arg.fields : /\ "XX" \in arg.options => v \in Named(d.zset)
                      /\ "NX" \in arg.options => v \notin Named(d.zset)}

Added(d, cmd) ==
  LET given == {<<cmd.arg.score, v>> : v \in Eligible(d, cmd.arg)}
      zset == {m \in d.zset : m[2] \notin Named(given)} \cup given
      count == Cardinality(IF "CH" \in cmd.arg.options THEN given \ d.zset
                                                       ELSE Named(given) \ Named(d.zset))
  IN  IF {"XX", "NX"} \subseteq cmd.arg.options
        THEN Applied(d, Error)
        ELSE Applied([d EXCEPT !.zset = zset], Number(count))

OnScores(d, cmd) ==
  CASE cmd.name = "ZADD" -> Added(d, cmd)
    [] cmd.name = "ZRANGEBYSCORE" ->
         LET of == SetToSeq(Named(Sliced(d.zset, cmd.arg)))
         IN  Applied(d, Arr([i \in DOMAIN of |-> Str(of[i])]))
    [] cmd.name = "ZREMRANGEBYSCORE" ->
         LET in == {m \in d.zset : Within(m[1], cmd.arg)}
         IN  Applied([d EXCEPT !.zset = @ \ in], Number(Cardinality(in)))
    [] cmd.name = "ZREM" ->
         LET out == {m \in d.zset : m[2] \in cmd.arg.fields}
         IN  Applied([d EXCEPT !.zset = @ \ out], Number(Cardinality(out)))
    [] cmd.name = "ZCARD" -> Applied(d, Number(Cardinality(d.zset)))

OnScript(d, cmd) ==
  CASE cmd.name = "SCRIPT LOAD"   -> Applied([d EXCEPT !.script = TRUE], Str(Full))
    [] cmd.name = "SCRIPT EXISTS" -> Applied(d, Arr(<<Number(IF d.script THEN 1 ELSE 0)>>))
    [] cmd.name = "EVALSHA"       -> Applied(d, IF d.script THEN Status ELSE Error)

Page(d, from, count) ==
  LET upto == IF from + count < NKeys THEN from + count ELSE NKeys
      here == SetToSeq({k \in d.keys \cap Matching : k > from /\ k <= upto})
  IN  Arr(<<IF upto < NKeys THEN upto ELSE 0, here>>)

Apply(d, cmd) ==
  CASE cmd.name = "SCAN" -> Applied(d, Page(d, cmd.arg.from, cmd.arg.count))
    [] cmd.name \in {"EXISTS", "EXPIRE", "TTL", "GET", "MGET", "SET", "SETNX", "DEL"} ->
         OnKeys(d, cmd)
    [] cmd.name \in {"LPUSH", "RPUSH", "LLEN", "LREM", "LPOP", "RPOP", "RPOPLPUSH"} ->
         OnList(d, cmd)
    [] cmd.name \in {"ADD", "REM", "CARD", "HGET", "SPOP"} -> OnFields(d, cmd)
    [] cmd.name \in {"ZADD", "ZRANGEBYSCORE", "ZREMRANGEBYSCORE", "ZREM", "ZCARD"} ->
         OnScores(d, cmd)
    [] OTHER -> OnScript(d, cmd)

-----------------------------------------------------------------------------
(***************************************************************************)
(* What the name of a wrapper promises about the result told to the caller *)
(* and the change from before to after.  Three promise less: setnx tells   *)
(* TRUE whether or not it set the key; Script::exists tells FALSE always,  *)
(* of a script that is there as well; and a push of nothing tells 0, not   *)
(* the length.  The empty string is told as no element by pop() and        *)
(* range(), and like a missing one by the others.                          *)
(***************************************************************************)
PromisedKeys(cmd, told, before, after) ==
  LET n == cmd.name
      value(k) == IF k \in after.keys THEN Full ELSE Empty
  IN  CASE n \in {"EXISTS", "EXPIRE"} -> told = (cmd.arg \in after.keys)
        [] n = "TTL"   -> (told = -2) <=> (cmd.arg \notin after.keys)
        [] n = "GET"   -> told = value(cmd.arg)
        [] n = "MGET"  -> told = [i \in DOMAIN cmd.arg |-> value(cmd.arg[i])]
        [] n = "SET"   -> told /\ cmd.arg \in after.keys
        [] n = "SETNX" -> cmd.arg \in after.keys
        [] n = "DEL"   -> /\ told = Cardinality(before.keys \ after.keys)
                          /\ cmd.arg \cap after.keys = {}

PromisedList(cmd, told, before, after) ==
  LET n == cmd.name
      nothing == before.list = <<>> /\ after = before /\ told = Empty
  IN  CASE n \in {"LPUSH", "RPUSH"} ->
             /\ told = IF cmd.arg = <<>> THEN 0 ELSE Len(after.list)
             /\ Range(cmd.arg) \subseteq Range(after.list)
        [] n = "LPOP" -> before.list = <<told>> \o after.list \/ nothing
        [] n = "RPOP" -> before.list = Append(after.list, told) \/ nothing
        [] n = "RPOPLPUSH" ->
             \/ after.list = <<told>> \o Front(before.list) /\ before.list # <<>>
             \/ nothing
        [] n = "LREM" -> told = Len(before.list) - Len(after.list)
        [] n = "LLEN" -> told = Len(after.list)

PromisedFields(cmd, told, before, after) ==
  LET n == cmd.name
  IN  CASE n = "ADD"  -> /\ cmd.arg.fields \subseteq after[cmd.arg.kind]
                         /\ told = Cardinality(after[cmd.arg.kind] \ before[cmd.arg.kind])
        [] n = "REM"  -> /\ cmd.arg.fields \cap after[cmd.arg.kind] = {}
                         /\ told = Cardinality(before[cmd.arg.kind] \ after[cmd.arg.kind])
        [] n = "SPOP" -> told = (before.set \ after.set) \ {Empty}
        [] n = "CARD" -> told = Cardinality(after[cmd.arg])
        [] n = "HGET" -> told = IF cmd.arg \in after.hash THEN Full ELSE Empty

PromisedScores(cmd, told, before, after) ==
  LET n == cmd.name
  IN  CASE n = "ZADD" ->
             told = Cardinality(IF "CH" \in cmd.arg.options
                                  THEN after.zset \ before.zset
                                  ELSE Named(after.zset) \ Named(before.zset))
        [] n = "ZRANGEBYSCORE" -> told = Named(Sliced(after.zset, cmd.arg)) \ {Empty}
        [] n = "ZREMRANGEBYSCORE" ->
             told = Cardinality(Named(before.zset) \ Named(after.zset))
        [] n = "ZREM" -> /\ told = Cardinality(Named(before.zset) \ Named(after.zset))
                         /\ cmd.arg.fields \cap Named(after.zset) = {}
        [] n = "ZCARD" -> told = Cardinality(Named(after.zset))

PromisedScript(cmd, told, before, after) ==
  LET n == cmd.name
  IN  CASE n = "SCRIPT LOAD"   -> told = Full /\ after.script
        [] n = "SCRIPT EXISTS" -> told => after.script
        [] n = "EVALSHA"       -> told /\ before.script

Promised(cmd, told, before, after) ==
  CASE cmd.name \in {"EXISTS", "EXPIRE", "TTL", "GET", "MGET", "SET", "SETNX", "DEL"} ->
         PromisedKeys(cmd, told, before, after)
    [] cmd.name \in {"LPUSH", "RPUSH", "LLEN", "LREM", "LPOP", "RPOP", "RPOPLPUSH"} ->
         PromisedList(cmd, told, before, after)
    [] cmd.name \in {"ADD", "REM", "CARD", "HGET", "SPOP"} ->
         PromisedFields(cmd, told, before, after)
    [] cmd.name \in {"ZADD", "ZRANGEBYSCORE", "ZREMRANGEBYSCORE", "ZREM", "ZCARD"} ->
         PromisedScores(cmd, told, before, after)
    [] OTHER -> PromisedScript(cmd, told, before, after)
=============================================================================
