--------------------------- MODULE MCRedisClient ---------------------------
(***************************************************************************)
(* Two clients of one pool: a removex with pages of one or two places      *)
(* (more and not more than MaxEmptyPages of them in a scan) beside a call  *)
(* that deletes keys or another removex; a transaction of two commands     *)
(* beside a wrapper for the list or the set or the same transaction; a     *)
(* pipeline of two beside a transaction or a wrapper that takes from the   *)
(* same list; and the other wrappers beside one that changes the same      *)
(* keys, fields, scores or scripts.                                        *)
(***************************************************************************)
EXTENDS RedisClient, TLC

CONSTANTS c1, c2, k1, k2

MCClients  == {c1, c2}
MCConns    == {k1, k2}
MCMatching == {1, 3, 4}
MCUnnamed  == {4}

OnTheList ==
  {ListFirst, ListLast, ListPush(<<Empty>>), ListPushBack(<<Full, Empty>>),
   ListPushBack(<<>>), ListPop, ListErase(Full, 0), ListErase(Full, -1), ListSize}
OnTheSet == {SetAdd({Empty}), SetPop(1), SetPop(2), SetErase("set", Items)}

OnTheKeys ==
  {Exists(1), Expire(1), Ttl(1), Get(1), GetAll(<<1, 2>>), Set(1), SetNx(1),
   RemoveKeys({1, 3}), RemoveKeys({})}
OnTheHash == {HashSet(Items), HashGet(Full), SetSize("hash"), SetErase("hash", {})}
OnTheScores ==
  {SortedSetAdd(2, Items, {}), SortedSetAdd(2, Items, {"XX", "CH"}),
   SortedSetAdd(2, Items, {"NX", "CH"}), SortedSetAdd(2, Items, {"XX", "NX"}),
   SortedSetRange(Interval(1, FALSE, Inf, FALSE), 1000, 0),
   SortedSetRange(Interval(1, FALSE, Inf, FALSE), 1, 1),
   SortedSetRemove({Empty}), SortedSetSize, TrimLeft(2, TRUE), TrimLeft(2, FALSE),
   TrimRight(1, TRUE)}
OnTheScript == {ScriptLoad, ScriptExists, ScriptRun}

Command(w)   == [kind |-> "command", cmds |-> <<w>>]
Calling(S) == {Command(w) : w \in S}
Push         == ListPushBack(<<Full>>)
Take         == SetErase("set", {Full})
Pair(kind)   == [kind |-> kind, cmds |-> <<Push, Take>>]
Single       == [kind |-> "transaction", cmds |-> <<Take>>]
Removex(n)   == [kind |-> "removex", cmds |-> <<ScanFrom(0, n)>>]
Both(P1, P2) == {(c1 :> <<p>>) @@ (c2 :> <<q>>) : p \in P1, q \in P2}

MCPrograms ==
  Both({Removex(1)}, {Command(RemoveKeys({1, 3}))})
  \cup Both({Removex(2)}, {Removex(2)})
  \cup Both({Pair("transaction")},
            {Pair("transaction")} \cup Calling(OnTheList \cup OnTheSet))
  \cup Both({Pair("pipeline")}, {Single, Command(ListPop)})
  \cup Both({Command(RemoveKeys({1, 3}))}, Calling(OnTheKeys))
  \cup Both({Command(HashSet(Items))}, Calling(OnTheHash))
  \cup Both({Command(SortedSetRemove({Full}))}, Calling(OnTheScores))
  \cup Both({Command(ScriptLoad)}, Calling(OnTheScript))

Symmetry == Permutations(MCConns)
=============================================================================
