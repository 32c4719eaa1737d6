--------------------------------- MODULE Cache ---------------------------------
(***************************************************************************)
(* The in-memory cache of cache.go with a time to live and a bound on the  *)
(* bytes it holds: what Get, Set and Delete do to it, each under its lock. *)
(* Instants are numbers; two entries may have been used at the same one,   *)
(* and then the order of a Go map decides, that is, none.                  *)
(***************************************************************************)
EXTENDS Integers, FiniteSetsExt

CONSTANTS TTL, MaxBytes

ASSUME CacheAssumption == TTL \in Nat \ {0} /\ MaxBytes \in Nat \ {0}

(* data: key -> [value, size, used, until].                                 *)
EmptyCache == [data |-> <<>>, curBytes |-> 0]
Keys(c) == DOMAIN c.data
IsFresh(c, k, now) == k \in Keys(c) /\ now < c.data[k].until
Bytes(c, keys) == SumFunctionOnSet([k \in Keys(c) |-> c.data[k].size], keys)

(* remove, Delete. *)
Without(c, keys) ==
  [data |-> [k \in Keys(c) \ keys |-> c.data[k]], curBytes |-> c.curBytes - Bytes(c, keys)]

(* evict: what has expired goes, then the least recently used one by one    *)
(* until the rest fits.                                                     *)
Fits(c) == c.curBytes <= MaxBytes
IsLast(c, k, keys) == \A l \in keys : c.data[l].used <= c.data[k].used
LeastUsed(c) ==
  {keys \in SUBSET Keys(c) :
     /\ \A k \in keys, l \in Keys(c) \ keys : c.data[k].used <= c.data[l].used
     /\ Fits(Without(c, keys)) \/ keys = Keys(c)
     /\ keys # {} => \E k \in keys : IsLast(c, k, keys) /\ ~Fits(Without(c, keys \ {k}))}

Evict(c, now) ==
  LET left == Without(c, {k \in Keys(c) : now > c.data[k].until})
  IN  {Without(left, keys) : keys \in LeastUsed(left)}

With(data, k, e) == [l \in DOMAIN data \cup {k} |-> IF l = k THEN e ELSE data[l]]

(* Mutant: the size of a replaced entry stays counted.                      *)
StoreOver(c, k, value, size, now) ==
  Evict([data |-> With(c.data, k, [value |-> value, size |-> size, used |-> now, until |-> now + TTL]),
         curBytes |-> c.curBytes + size], now)

(* store, Set: the caches it may leave.                                     *)
Store(c, k, value, size, now) ==
  Evict([data |-> With(c.data, k, [value |-> value, size |-> size, used |-> now, until |-> now + TTL]),
         curBytes |-> c.curBytes - Bytes(c, {k} \cap Keys(c)) + size], now)

(* Get of an entry that is fresh, and of one that has to be loaded: a       *)
(* stale one is dropped first, whether or not the load works.  The mutant   *)
(* gives an entry that is used a new time to live.                          *)
TouchRenews(c, k, now) == [c EXCEPT !.data[k].used = now, !.data[k].until = now + TTL]
Touch(c, k, now) == [c EXCEPT !.data[k].used = now]
Load(c, k, value, size, now) == Store(Without(c, {k} \cap Keys(c)), k, value, size, now)
================================================================================
