---------------------------- MODULE BoundedStore ----------------------------
(***************************************************************************)
(* BoundedStore of the workspace-mcp kernel                                *)
(* (workspace-mcp/src/workspace_mcp/store.py), as operators on a store: the *)
(* ordered dictionary of the class is a sequence of entries, oldest first. *)
(* A store's limits are a record [max, ttl]. Every operation takes the     *)
(* time at which it is called.                                             *)
(***************************************************************************)
EXTENDS Integers, Sequences, FiniteSets

Entry(k, v, t) == [key |-> k, value |-> v, seen |-> t]

StoreKeys(s) == {s[i].key : i \in DOMAIN s}

Has(s, k) == k \in StoreKeys(s)

ValueOf(s, k) == s[CHOOSE i \in DOMAIN s : s[i].key = k].value

\* The entries of s at some of its places, in their order. (SelectSeq would do, but
\* is a recursion, of which nothing can be proved.)
Rank(places, i) == Cardinality({h \in places : h <= i})
Pick(s, places) ==
  [n \in 1..Cardinality(places) |-> s[CHOOSE i \in places : Rank(places, i) = n]]

\* _evict_expired
Live(s, now, lim) == Pick(s, {i \in DOMAIN s : now - s[i].seen <= lim.ttl})

\* Mutant: the overflow is taken from the wrong end.
NewestDropped(s, lim) ==
  IF Len(s) > lim.max THEN SubSeq(s, 1, lim.max) ELSE s

\* _evict_overflow
Trimmed(s, lim) ==
  IF Len(s) > lim.max THEN SubSeq(s, Len(s) - lim.max + 1, Len(s)) ELSE s

WithoutKey(s, k) == Pick(s, {i \in DOMAIN s : s[i].key # k})

\* Mutant: an existing key keeps its old place.
PutInPlace(s, k, v, now, lim) ==
  LET live == Live(s, now, lim)
  IN IF Has(live, k)
     THEN [i \in DOMAIN live |-> IF live[i].key = k THEN Entry(k, v, now) ELSE live[i]]
     ELSE Trimmed(Append(live, Entry(k, v, now)), lim)

\* set
Put(s, k, v, now, lim) ==
  Trimmed(Append(WithoutKey(Live(s, now, lim), k), Entry(k, v, now)), lim)

\* Mutant: get does not evict the expired entries first.
TouchUnchecked(s, k, now, lim) ==
  IF Has(s, k) THEN Append(WithoutKey(s, k), Entry(k, ValueOf(s, k), now)) ELSE s

\* get: what is left of the store, with the entry touched and moved to the end.
\* Its answer is the entry of the result, or nothing.
Touch(s, k, now, lim) ==
  LET live == Live(s, now, lim)
  IN IF Has(live, k)
     THEN Append(WithoutKey(live, k), Entry(k, ValueOf(live, k), now))
     ELSE live
=============================================================================
