---------------------------- MODULE StoreHistory ----------------------------
(***************************************************************************)
(* One BoundedStore under any sequence of set, get and delete calls, next  *)
(* to what a caller knows of it: for every key, the value it set last and  *)
(* when it last used the key with success. The clock does not run back.    *)
(***************************************************************************)
EXTENDS BoundedStore

CONSTANTS
  Keys, Values,
  MaxSize, Ttl,   \* max_size and ttl_seconds
  StoreTime       \* bound: the time at which the clock stops

ASSUME StoreAssumption == MaxSize \in Nat \ {0} /\ Ttl \in Nat /\ StoreTime \in Nat

Limits == [max |-> MaxSize, ttl |-> Ttl]

VARIABLES
  data,     \* the store
  time,
  used      \* every key that was ever set, in the order of its last use, with
            \* the value and the time: the store as it would be without limits

storeVars == <<data, time, used>>

Deleted == "deleted"

Entries(values) == [key : Keys, value : values, seen : 0..StoreTime]

StoreTypeOK ==
  /\ data \in Seq(Entries(Values)) /\ used \in Seq(Entries(Values \cup {Deleted}))
  /\ time \in 0..StoreTime

StoreInit == data = <<>> /\ time = 0 /\ used = <<>>

Set(k, v) ==
  /\ data' = Put(data, k, v, time, Limits)
  /\ used' = Append(WithoutKey(used, k), Entry(k, v, time))
  /\ UNCHANGED time

Get(k) ==
  /\ data' = Touch(data, k, time, Limits)
  /\ used' = IF Has(data', k)
             THEN Append(WithoutKey(used, k), Entry(k, ValueOf(used, k), time))
             ELSE used
  /\ UNCHANGED time

Delete(k) ==
  /\ Has(data, k)
  /\ data' = WithoutKey(data, k)
  /\ used' = [i \in DOMAIN used |-> IF used[i].key = k
                                    THEN [used[i] EXCEPT !.value = Deleted] ELSE used[i]]
  /\ UNCHANGED time

StoreTick ==
  /\ time < StoreTime
  /\ time' = time + 1
  /\ UNCHANGED <<data, used>>

StoreNext ==
  \/ \E k \in Keys : (\E v \in Values : Set(k, v)) \/ Get(k) \/ Delete(k)
  \/ StoreTick

StoreSpec == StoreInit /\ [][StoreNext]_storeVars

-----------------------------------------------------------------------------
(* Properties *)

\* The store is what the use of it says, less the entries it has dropped:
\* values are those set last, stamps those of the last use, in that order.
AgreesWithUse == data = Pick(used, {i \in DOMAIN used : Has(data, used[i].key)})

\* An entry is lost only when it is deleted, or has expired, or max_size other
\* keys have been used since: with fewer keys in use than that, a caller that
\* comes back within the time to live finds its entry.
Retained ==
  \A i \in DOMAIN used :
    \/ Has(data, used[i].key)
    \/ used[i].value = Deleted
    \/ time - used[i].seen > Ttl
    \/ Len(used) - i >= MaxSize

\* A get finds no entry whose time is over, and leaves none in the store.
ExpiredNeverServed ==
  [][(\E k \in Keys : Get(k)) =>
       \A i \in DOMAIN data : time - data[i].seen > Ttl => ~Has(data', data[i].key)]_storeVars
=============================================================================
