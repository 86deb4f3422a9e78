------------------------------- MODULE Logger -------------------------------
(***************************************************************************)
(* The fields of loggers (internal/logger/logger.go).  WithFields and      *)
(* WithError derive a logger with a map from a pool that all loggers       *)
(* share, and give the map of the logger they are called on back to it.    *)
(* Goroutines share loggers, so the calls interleave; each step below is a *)
(* critical section of a logger's mutex, one call of the pool, or works on *)
(* a map that no other goroutine knows.                                    *)
(***************************************************************************)
CONSTANTS
  Derived,   \* loggers that WithFields and WithError can still make
  Root,      \* the logger of NewLogger
  Calls,     \* goroutines that call the methods
  Maps,      \* field maps
  RootMap,   \* the map of Root
  NoMap,     \* nil
  Keys,      \* names of fields
  ErrorKey,  \* the name that WithError uses
  Nobody     \* the value of a field that is not in a map

ASSUME ConstantsAssumption ==
  /\ Root \notin Derived
  /\ RootMap \in Maps /\ NoMap \notin Maps
  /\ ErrorKey \in Keys
  /\ Nobody \notin Derived \cup {Root}

Loggers == Derived \cup {Root}

VARIABLES
  made,      \* the loggers there are
  fields,    \* the map of each logger
  contents,  \* for each map and key the logger that was made with the field
  pool,      \* maps in mapPool
  fresh,     \* maps that have not been allocated
  call,      \* what each goroutine is doing
  lineage,   \* history: a logger and those it was derived from
  own        \* history: the key that a logger was made with

vars == <<made, fields, contents, pool, fresh, call, lineage, own>>

Empty == [k \in Keys |-> Nobody]
Call == [phase : {"idle", "copy", "add", "release"}, on : Loggers, key : Keys,
         map : Maps \cup {NoMap}]
Returned == [phase |-> "idle", on |-> Root, key |-> ErrorKey, map |-> NoMap]

\* NewLogger
Init ==
  /\ made = {Root}
  /\ fields = [l \in Loggers |-> IF l = Root THEN RootMap ELSE NoMap]
  /\ contents = [m \in Maps |-> Empty]
  /\ pool = {}
  /\ fresh = Maps \ {RootMap}
  /\ call = [c \in Calls |-> Returned]
  /\ lineage = [l \in Loggers |-> {}]
  /\ own = [l \in Loggers |-> ErrorKey]

-----------------------------------------------------------------------------
At(c, p) == call[c].phase = p

\* pool.Get: a map of the pool, or a new one, whatever the pool has.
Get(c, l, k) ==
  /\ At(c, "idle")
  /\ l \in made
  /\ \E m \in pool \cup fresh :
       /\ pool' = pool \ {m}
       /\ fresh' = fresh \ {m}
       /\ call' = [call EXCEPT ![c] = [phase |-> "copy", on |-> l, key |-> k, map |-> m]]
  /\ UNCHANGED <<made, fields, contents, lineage, own>>

WithFields(c, l) == \E k \in Keys : Get(c, l, k)
WithError(c, l) == Get(c, l, ErrorKey)

\* Under the read lock.  A logger whose map has been released has no fields.
Copy(c) ==
  /\ At(c, "copy")
  /\ LET from == fields[call[c].on] IN
       contents' = [contents EXCEPT ![call[c].map] =
         [k \in Keys |-> IF from # NoMap /\ contents[from][k] # Nobody
                         THEN contents[from][k] ELSE @[k]]]
  /\ call' = [call EXCEPT ![c].phase = "add"]
  /\ UNCHANGED <<made, fields, pool, fresh, lineage, own>>

\* The new field replaces one of the same name; then the logger is made.
Make(c, l) ==
  /\ At(c, "add")
  /\ l \in Derived \ made
  /\ contents' = [contents EXCEPT ![call[c].map][call[c].key] = l]
  /\ made' = made \cup {l}
  /\ fields' = [fields EXCEPT ![l] = call[c].map]
  /\ lineage' = [lineage EXCEPT ![l] = lineage[call[c].on] \cup {l}]
  /\ own' = [own EXCEPT ![l] = call[c].key]
  /\ call' = [call EXCEPT ![c].phase = "release"]
  /\ UNCHANGED <<pool, fresh>>

\* Faulty variants: fields is not set to nil, and the map is not cleared.
ReleaseAgain(l) ==
  IF fields[l] # NoMap
  THEN /\ contents' = [contents EXCEPT ![fields[l]] = Empty]
       /\ pool' = pool \cup {fields[l]}
       /\ UNCHANGED fields
  ELSE UNCHANGED <<contents, pool, fields>>

ReleaseDirty(l) ==
  IF fields[l] # NoMap
  THEN /\ pool' = pool \cup {fields[l]}
       /\ fields' = [fields EXCEPT ![l] = NoMap]
       /\ UNCHANGED contents
  ELSE UNCHANGED <<contents, pool, fields>>

\* Under the write lock, at most once for a map.
Release(l) ==
  IF fields[l] # NoMap
  THEN /\ contents' = [contents EXCEPT ![fields[l]] = Empty]
       /\ pool' = pool \cup {fields[l]}
       /\ fields' = [fields EXCEPT ![l] = NoMap]
  ELSE UNCHANGED <<contents, pool, fields>>

\* The end of WithFields and WithError: they release the map of the logger
\* they were called on, not one of their own.
Return(c) ==
  /\ At(c, "release")
  /\ Release(call[c].on)
  /\ call' = [call EXCEPT ![c] = Returned]
  /\ UNCHANGED <<made, fresh, lineage, own>>

\* Any goroutine may call ReleaseMap or Cleanup on any logger.
ReleaseMap(l) ==
  /\ l \in made
  /\ Release(l)
  /\ UNCHANGED <<made, fresh, call, lineage, own>>

\* The garbage collector may empty a pool.
Collect ==
  /\ pool # {}
  /\ fresh' = fresh \cup pool
  /\ contents' = [m \in Maps |-> IF m \in pool THEN Empty ELSE contents[m]]
  /\ pool' = {}
  /\ UNCHANGED <<made, fields, call, lineage, own>>

Next ==
  \/ \E c \in Calls, l \in Loggers : WithFields(c, l) \/ WithError(c, l) \/ Make(c, l)
  \/ \E c \in Calls : Copy(c) \/ Return(c)
  \/ \E l \in Loggers : ReleaseMap(l)
  \/ Collect

Spec == Init /\ [][Next]_vars

-----------------------------------------------------------------------------
(* Properties                                                              *)

TypeOK ==
  /\ made \in SUBSET Loggers
  /\ fields \in [Loggers -> Maps \cup {NoMap}]
  /\ contents \in [Maps -> [Keys -> Loggers \cup {Nobody}]]
  /\ pool \in SUBSET Maps
  /\ fresh \in SUBSET Maps
  /\ call \in [Calls -> Call]
  /\ lineage \in [Loggers -> SUBSET Loggers]
  /\ own \in [Loggers -> Keys]

HasMap(c) == call[c].phase \in {"copy", "add"}

(* A map belongs to one logger, to one call that is about to make one, or   *)
(* is free; so that what one goroutine writes into a map no other sees.     *)
MapHasOneOwner ==
  /\ \A l \in Loggers : \A j \in Loggers \ {l} : fields[l] # NoMap => fields[l] # fields[j]
  /\ \A c \in Calls : \A d \in Calls \ {c} : HasMap(c) /\ HasMap(d) =>
        call[c].map # call[d].map
  /\ \A l \in Loggers, c \in Calls : HasMap(c) => fields[l] # call[c].map
  /\ \A l \in Loggers : fields[l] \notin pool \cup fresh
  /\ \A c \in Calls : HasMap(c) => call[c].map \notin pool \cup fresh

(* A map comes out of the pool without the fields of its last owner, in     *)
(* whatever order calls and releases go.                                    *)
FreeMapsAreEmpty == \A m \in pool \cup fresh : contents[m] = Empty

\* What logEvent adds to an event of the logger.
Logged(l) == IF fields[l] = NoMap THEN Empty ELSE contents[fields[l]]

(* Until its map is released a logger logs the field it was made with, and  *)
(* it never logs one of a logger that it was not derived from.              *)
FieldsAreOwn ==
  \A l \in made :
    /\ \A k \in Keys : Logged(l)[k] \in lineage[l] \cup {Nobody}
    /\ l # Root /\ fields[l] # NoMap => Logged(l)[own[l]] = l

(* Deriving a logger takes the map away from the one it is derived from,    *)
(* which goes on being used.  That one then logs no fields at all: what a   *)
(* logger logs never changes otherwise, whoever uses the map it had.        *)
FieldsNeverChange ==
  [][\A l \in made : Logged(l)' = Logged(l) \/ fields'[l] = NoMap]_vars

(* The invariant behind these: what a call has copied into its map is of    *)
(* the lineage of the logger it was made on.                                *)
CallInv ==
  \A c \in Calls :
    /\ HasMap(c) => call[c].on \in made /\ call[c].map \in Maps
    /\ At(c, "copy") => contents[call[c].map] = Empty
    /\ At(c, "add") =>
         \A k \in Keys : contents[call[c].map][k] \in lineage[call[c].on] \cup {Nobody}

IInv == TypeOK /\ MapHasOneOwner /\ FreeMapsAreEmpty /\ FieldsAreOwn /\ CallInv

=============================================================================
