--------------------------- MODULE Logger_proofs ---------------------------
(***************************************************************************)
(* Proofs about Logger, for any number of loggers, goroutines and maps.    *)
(***************************************************************************)
EXTENDS Logger, TLAPS

LEMMA InitIInv == Init => IInv
<1> SUFFICES ASSUME Init PROVE IInv
  OBVIOUS
<1>1. Returned \in Call /\ Empty \in [Keys -> Loggers \cup {Nobody}]
  BY ConstantsAssumption DEF Returned, Call, Empty, Loggers
<1>2. TypeOK
  BY <1>1, ConstantsAssumption DEF Init, TypeOK, Loggers
<1>3. \A c \in Calls : ~HasMap(c)
  BY DEF Init, HasMap, Returned
<1>4. MapHasOneOwner
  BY <1>3, ConstantsAssumption DEF Init, MapHasOneOwner
<1>5. FreeMapsAreEmpty
  BY DEF Init, FreeMapsAreEmpty
<1>6. FieldsAreOwn
  <2>1. Logged(Root) = Empty
    BY ConstantsAssumption DEF Init, Logged, Loggers
  <2>2. \A k \in Keys : Empty[k] = Nobody
    BY DEF Empty
  <2> QED  BY <2>1, <2>2 DEF Init, FieldsAreOwn
<1>7. CallInv
  BY DEF Init, CallInv, HasMap, At, Returned
<1> QED
  BY <1>2, <1>4, <1>5, <1>6, <1>7 DEF IInv

LEMMA GetKeeps ==
  ASSUME IInv, NEW c \in Calls, NEW l \in Loggers, NEW k \in Keys, Get(c, l, k)
  PROVE  IInv'
<1>1. TypeOK /\ MapHasOneOwner /\ FreeMapsAreEmpty /\ FieldsAreOwn /\ CallInv
  BY DEF IInv
<1>2. PICK m \in pool \cup fresh :
        /\ pool' = pool \ {m} /\ fresh' = fresh \ {m}
        /\ call' = [call EXCEPT ![c] = [phase |-> "copy", on |-> l, key |-> k, map |-> m]]
        /\ UNCHANGED <<made, fields, contents, lineage, own>>
  BY DEF Get
<1>3. m \in Maps /\ l \in made /\ contents[m] = Empty
  BY <1>1, <1>2 DEF TypeOK, FreeMapsAreEmpty, Get
<1>4. call'[c] = [phase |-> "copy", on |-> l, key |-> k, map |-> m] /\ call'[c] \in Call
  BY <1>1, <1>2, <1>3 DEF TypeOK, Call
<1>5. \A d \in Calls \ {c} : call'[d] = call[d]
  BY <1>1, <1>2 DEF TypeOK
<1>6. TypeOK'
  BY <1>1, <1>2, <1>4 DEF TypeOK
<1>7. MapHasOneOwner'
  BY <1>1, <1>2, <1>4, <1>5 DEF MapHasOneOwner, HasMap
<1>8. FreeMapsAreEmpty'
  BY <1>1, <1>2 DEF FreeMapsAreEmpty, Empty
<1>9. FieldsAreOwn'
  BY <1>1, <1>2 DEF FieldsAreOwn, Logged, Empty
<1>10. CallInv'
  BY <1>1, <1>2, <1>3, <1>4, <1>5 DEF CallInv, HasMap, At, Empty
<1> QED
  BY <1>6, <1>7, <1>8, <1>9, <1>10 DEF IInv

LEMMA CopyKeeps ==
  ASSUME IInv, NEW c \in Calls, Copy(c)
  PROVE  IInv'
<1>1. TypeOK /\ MapHasOneOwner /\ FreeMapsAreEmpty /\ FieldsAreOwn /\ CallInv
  BY DEF IInv
<1> DEFINE m == call[c].map
           l == call[c].on
           new == [k \in Keys |-> IF fields[l] # NoMap /\ contents[fields[l]][k] # Nobody
                                  THEN contents[fields[l]][k] ELSE contents[m][k]]
<1>2. /\ At(c, "copy") /\ HasMap(c) /\ m \in Maps /\ l \in made /\ contents[m] = Empty
  BY <1>1 DEF Copy, At, HasMap, CallInv
<1>3. /\ contents'[m] = new
      /\ \A n \in Maps \ {m} : contents'[n] = contents[n]
  BY <1>1, <1>2 DEF Copy, TypeOK
<1>4. /\ call'[c] \in Call /\ call'[c].phase = "add" /\ call'[c].map = m /\ call'[c].on = l
      /\ \A d \in Calls \ {c} : call'[d] = call[d]
  BY <1>1 DEF Copy, TypeOK, Call
<1>5. UNCHANGED <<made, fields, pool, fresh, lineage, own>>
  BY DEF Copy
<1>6. \A k \in Keys : new[k] \in lineage[l] \cup {Nobody} /\ new[k] \in Loggers \cup {Nobody}
  <2>1. l \in Loggers /\ fields[l] \in Maps \cup {NoMap}
    BY <1>1, <1>2 DEF TypeOK
  <2>2. \A k \in Keys : contents[m][k] = Nobody
    BY <1>2 DEF Empty
  <2>3. fields[l] # NoMap => \A k \in Keys : contents[fields[l]][k] \in lineage[l] \cup {Nobody}
    BY <1>1, <1>2 DEF FieldsAreOwn, Logged
  <2>4. lineage[l] \subseteq Loggers
    BY <1>1, <2>1 DEF TypeOK
  <2> QED  BY <2>2, <2>3, <2>4
<1>7. TypeOK'
  <2>1. new \in [Keys -> Loggers \cup {Nobody}]
    BY <1>6
  <2>2. contents' \in [Maps -> [Keys -> Loggers \cup {Nobody}]]
    BY <1>1, <2>1 DEF Copy, TypeOK
  <2>3. call' \in [Calls -> Call]
    BY <1>1, <1>4 DEF Copy, TypeOK
  <2> QED  BY <1>1, <1>5, <2>2, <2>3 DEF TypeOK
<1> HIDE DEF new
<1>8. MapHasOneOwner'
  BY <1>1, <1>2, <1>4, <1>5 DEF MapHasOneOwner, HasMap
<1>9. FreeMapsAreEmpty'
  BY <1>1, <1>2, <1>3, <1>5 DEF FreeMapsAreEmpty, MapHasOneOwner, Empty, TypeOK
<1>10. FieldsAreOwn'
  <2>1. \A j \in Loggers : fields[j] # m /\ Logged(j)' = Logged(j)
    BY <1>1, <1>2, <1>3, <1>5 DEF MapHasOneOwner, Logged, Empty, TypeOK
  <2> QED  BY <1>1, <1>5, <2>1 DEF FieldsAreOwn, TypeOK
<1>11. CallInv'
  <2>1. \A d \in Calls \ {c} : HasMap(d) => contents'[call[d].map] = contents[call[d].map]
    BY <1>1, <1>2, <1>3 DEF MapHasOneOwner, CallInv
  <2> QED
    BY <1>1, <1>2, <1>3, <1>4, <1>5, <1>6, <2>1 DEF CallInv, HasMap, At, Empty
<1> QED
  BY <1>7, <1>8, <1>9, <1>10, <1>11 DEF IInv

LEMMA MakeKeeps ==
  ASSUME IInv, NEW c \in Calls, NEW l \in Loggers, Make(c, l)
  PROVE  IInv'
<1>1. TypeOK /\ MapHasOneOwner /\ FreeMapsAreEmpty /\ FieldsAreOwn /\ CallInv
  BY DEF IInv
<1> DEFINE m == call[c].map
           key == call[c].key
           on == call[c].on
<1>2. /\ HasMap(c) /\ m \in Maps /\ on \in made /\ l \notin made /\ key \in Keys /\ m # NoMap
      /\ \A k \in Keys : contents[m][k] \in lineage[on] \cup {Nobody}
  BY <1>1, ConstantsAssumption DEF Make, At, HasMap, CallInv, TypeOK, Call
<1>3. /\ \A k \in Keys : contents'[m][k] = IF k = key THEN l ELSE contents[m][k]
      /\ \A n \in Maps \ {m} : contents'[n] = contents[n]
  BY <1>1, <1>2 DEF Make, TypeOK
<1>4. /\ call'[c] \in Call /\ call'[c].phase = "release"
      /\ \A d \in Calls \ {c} : call'[d] = call[d]
  BY <1>1 DEF Make, TypeOK, Call
<1>5. /\ made' = made \cup {l} /\ UNCHANGED <<pool, fresh>>
      /\ fields'[l] = m /\ lineage'[l] = lineage[on] \cup {l} /\ own'[l] = key
      /\ \A j \in Loggers \ {l} :
           fields'[j] = fields[j] /\ lineage'[j] = lineage[j] /\ own'[j] = own[j]
  BY <1>1 DEF Make, TypeOK
<1>6. TypeOK'
  <2>1. contents' \in [Maps -> [Keys -> Loggers \cup {Nobody}]]
    BY <1>1, <1>2 DEF Make, TypeOK
  <2>2. call' \in [Calls -> Call]
    BY <1>1, <1>4 DEF Make, TypeOK
  <2>3. lineage[on] \subseteq Loggers
    BY <1>1, <1>2 DEF TypeOK
  <2>4. /\ fields' \in [Loggers -> Maps \cup {NoMap}] /\ own' \in [Loggers -> Keys]
        /\ lineage' \in [Loggers -> SUBSET Loggers]
    BY <1>1, <1>2, <2>3 DEF Make, TypeOK
  <2> QED  BY <1>1, <1>5, <2>1, <2>2, <2>4 DEF TypeOK
<1>7. \A d \in Calls : HasMap(d)' => d # c /\ HasMap(d) /\ call'[d] = call[d]
  BY <1>4 DEF HasMap
<1>8. MapHasOneOwner'
  BY <1>1, <1>2, <1>5, <1>7 DEF MapHasOneOwner
<1>9. FreeMapsAreEmpty'
  BY <1>1, <1>2, <1>3, <1>5 DEF FreeMapsAreEmpty, MapHasOneOwner, TypeOK, Empty
<1>10. FieldsAreOwn'
  <2> SUFFICES ASSUME NEW j \in made'
               PROVE  /\ \A k \in Keys : (Logged(j)')[k] \in lineage'[j] \cup {Nobody}
                      /\ j # Root /\ fields'[j] # NoMap => (Logged(j)')[own'[j]] = j
    BY DEF FieldsAreOwn
  <2>1. CASE j = l
    <3>1. Logged(j)' = contents'[m]
      BY <1>2, <1>5, <2>1 DEF Logged
    <3> QED  BY <1>2, <1>3, <1>5, <2>1, <3>1
  <2>2. CASE j # l
    <3>1. j \in made /\ j \in Loggers
      BY <1>1, <1>5, <2>2 DEF TypeOK
    <3>2. Logged(j)' = Logged(j)
      BY <1>1, <1>2, <1>3, <1>5, <2>2, <3>1 DEF Logged, MapHasOneOwner, TypeOK, Empty
    <3> QED  BY <1>1, <1>5, <2>2, <3>1, <3>2 DEF FieldsAreOwn
  <2> QED  BY <2>1, <2>2
<1>11. CallInv'
  <2> SUFFICES ASSUME NEW d \in Calls, HasMap(d)'
               PROVE  /\ call'[d].on \in made' /\ call'[d].map \in Maps
                      /\ call'[d].phase = "copy" => contents'[call'[d].map] = Empty
                      /\ call'[d].phase = "add" => \A k \in Keys :
                           contents'[call'[d].map][k] \in lineage'[call'[d].on] \cup {Nobody}
    BY DEF CallInv, At, HasMap, Empty
  <2>1. d # c /\ HasMap(d) /\ call'[d] = call[d]
    BY <1>7
  <2>2. /\ call[d].on \in made /\ call[d].on # l /\ call[d].on \in Loggers
        /\ call[d].map \in Maps \ {m}
    BY <1>1, <1>2, <2>1 DEF CallInv, MapHasOneOwner, TypeOK
  <2> QED
    BY <1>1, <1>3, <1>5, <2>1, <2>2 DEF CallInv, At
<1> QED
  BY <1>6, <1>8, <1>9, <1>10, <1>11 DEF IInv

\* Releasing a map, while calls may only end.
LEMMA ReleaseKeeps ==
  ASSUME IInv, NEW l \in Loggers, Release(l), UNCHANGED <<made, fresh, lineage, own>>,
         call' \in [Calls -> Call],
         \A c \in Calls : call'[c] = call[c] \/ ~(HasMap(c)')
  PROVE  IInv'
<1>1. TypeOK /\ MapHasOneOwner /\ FreeMapsAreEmpty /\ FieldsAreOwn /\ CallInv
  BY DEF IInv
<1>2. \A c \in Calls : HasMap(c)' => HasMap(c) /\ call'[c] = call[c]
  BY DEF HasMap
<1>3. CASE fields[l] = NoMap
  <2>1. UNCHANGED <<contents, pool, fields>>
    BY <1>3 DEF Release
  <2>2. TypeOK'
    BY <1>1, <2>1 DEF TypeOK
  <2>3. MapHasOneOwner'
    BY <1>1, <1>2, <2>1 DEF MapHasOneOwner
  <2>4. FreeMapsAreEmpty' /\ FieldsAreOwn'
    BY <1>1, <2>1 DEF FreeMapsAreEmpty, FieldsAreOwn, Logged, Empty
  <2>5. CallInv'
    BY <1>1, <1>2, <2>1 DEF CallInv, HasMap, At, Empty
  <2> QED  BY <2>2, <2>3, <2>4, <2>5 DEF IInv
<1>4. CASE fields[l] # NoMap
  <2> DEFINE m == fields[l]
  <2>1. m \in Maps
    BY <1>1, <1>4 DEF TypeOK
  <2>2. /\ contents'[m] = Empty /\ (\A n \in Maps \ {m} : contents'[n] = contents[n])
        /\ pool' = pool \cup {m}
        /\ fields'[l] = NoMap /\ (\A j \in Loggers \ {l} : fields'[j] = fields[j])
    BY <1>1, <1>4, <2>1 DEF Release, TypeOK
  <2>3. TypeOK'
    <3>1. Empty \in [Keys -> Loggers \cup {Nobody}]
      BY DEF Empty
    <3> QED  BY <1>1, <1>4, <2>1, <3>1 DEF Release, TypeOK
  <2>4. NoMap \notin pool \cup fresh
    BY <1>1, ConstantsAssumption DEF TypeOK
  <2>5. MapHasOneOwner'
    <3>1. \A i \in Loggers : \A j \in Loggers \ {i} : fields'[i] # NoMap => fields'[i] # fields'[j]
      BY <1>1, <2>2 DEF MapHasOneOwner
    <3>2. \A c \in Calls : \A d \in Calls \ {c} :
            HasMap(c)' /\ HasMap(d)' => call'[c].map # call'[d].map
      BY <1>1, <1>2 DEF MapHasOneOwner
    <3>3. \A j \in Loggers, c \in Calls : HasMap(c)' => fields'[j] # call'[c].map
      BY <1>1, <1>2, <2>2, ConstantsAssumption DEF MapHasOneOwner, CallInv
    <3>4. \A j \in Loggers : fields'[j] \notin pool' \cup fresh'
      BY <1>1, <2>1, <2>2, <2>4, ConstantsAssumption DEF MapHasOneOwner
    <3>5. \A c \in Calls : HasMap(c)' => call'[c].map \notin pool' \cup fresh'
      BY <1>1, <1>2, <2>2 DEF MapHasOneOwner
    <3> QED  BY <3>1, <3>2, <3>3, <3>4, <3>5 DEF MapHasOneOwner
  <2>6. FreeMapsAreEmpty'
    BY <1>1, <2>2 DEF FreeMapsAreEmpty, TypeOK, Empty
  <2>7. FieldsAreOwn'
    <3>1. \A j \in Loggers \ {l} : Logged(j)' = Logged(j)
      BY <1>1, <1>4, <2>2 DEF Logged, MapHasOneOwner, TypeOK, Empty
    <3>2. Logged(l)' = Empty
      BY <2>2 DEF Logged, Empty
    <3> QED  BY <1>1, <2>2, <3>1, <3>2 DEF FieldsAreOwn, TypeOK, Empty
  <2>8. CallInv'
    <3>1. \A c \in Calls : HasMap(c) => contents'[call[c].map] = contents[call[c].map]
      BY <1>1, <2>2 DEF MapHasOneOwner, CallInv
    <3> QED  BY <1>1, <1>2, <3>1 DEF CallInv, HasMap, At, Empty
  <2> QED  BY <2>3, <2>5, <2>6, <2>7, <2>8 DEF IInv
<1> QED
  BY <1>3, <1>4

LEMMA ReturnKeeps ==
  ASSUME IInv, NEW c \in Calls, Return(c)
  PROVE  IInv'
<1>1. TypeOK /\ call[c].on \in Loggers
  BY DEF IInv, TypeOK, Call
<1>2. Returned \in Call
  BY ConstantsAssumption DEF Returned, Call, Loggers
<1>3. call' \in [Calls -> Call] /\ \A d \in Calls : call'[d] = call[d] \/ ~(HasMap(d)')
  BY <1>1, <1>2 DEF Return, TypeOK, HasMap, Returned
<1> QED
  BY <1>1, <1>3, ReleaseKeeps DEF Return

LEMMA ReleaseMapKeeps ==
  ASSUME IInv, NEW l \in Loggers, ReleaseMap(l)
  PROVE  IInv'
<1>1. call' \in [Calls -> Call] /\ \A d \in Calls : call'[d] = call[d]
  BY DEF ReleaseMap, IInv, TypeOK
<1> QED
  BY <1>1, ReleaseKeeps DEF ReleaseMap

LEMMA CollectKeeps == ASSUME IInv, Collect PROVE IInv'
<1>1. TypeOK /\ MapHasOneOwner /\ FreeMapsAreEmpty /\ FieldsAreOwn /\ CallInv
  BY DEF IInv
<1>2. contents' = contents
  BY <1>1 DEF Collect, TypeOK, FreeMapsAreEmpty
<1>3. TypeOK'
  BY <1>1, <1>2 DEF Collect, TypeOK
<1>4. MapHasOneOwner'
  BY <1>1 DEF Collect, MapHasOneOwner, HasMap
<1>5. FreeMapsAreEmpty'
  BY <1>1, <1>2 DEF Collect, FreeMapsAreEmpty, Empty
<1>6. FieldsAreOwn' /\ CallInv'
  BY <1>1, <1>2 DEF Collect, FieldsAreOwn, Logged, CallInv, HasMap, At, Empty
<1> QED
  BY <1>3, <1>4, <1>5, <1>6 DEF IInv

LEMMA StepKeeps == IInv /\ [Next]_vars => IInv'
<1> SUFFICES ASSUME IInv, [Next]_vars PROVE IInv'
  OBVIOUS
<1>1. CASE UNCHANGED vars
  <2>1. TypeOK' /\ MapHasOneOwner'
    BY <1>1 DEF vars, IInv, TypeOK, MapHasOneOwner, HasMap
  <2>2. FreeMapsAreEmpty' /\ FieldsAreOwn' /\ CallInv'
    BY <1>1 DEF vars, IInv, FreeMapsAreEmpty, FieldsAreOwn, Logged, CallInv, HasMap, At, Empty
  <2> QED  BY <2>1, <2>2 DEF IInv
<1>2. ASSUME NEW c \in Calls, NEW l \in Loggers, WithFields(c, l) \/ WithError(c, l)
      PROVE  IInv'
  BY <1>2, GetKeeps, ConstantsAssumption DEF WithFields, WithError
<1> QED
  BY <1>1, <1>2, CopyKeeps, MakeKeeps, ReturnKeeps, ReleaseMapKeeps, CollectKeeps DEF Next

(* The inductive invariant holds.                                          *)
THEOREM Inductive == Spec => []IInv
  BY InitIInv, StepKeeps, PTL DEF Spec

(* No two loggers or calls ever share a map (logger.go:126-189, 228-237).  *)
THEOREM MapsAreNotShared == Spec => []MapHasOneOwner
<1>1. IInv => MapHasOneOwner
  BY DEF IInv
<1> QED
  BY <1>1, Inductive, PTL

(* The pool never holds a map with fields (logger.go:232-236).             *)
THEOREM PoolIsClean == Spec => []FreeMapsAreEmpty
<1>1. IInv => FreeMapsAreEmpty
  BY DEF IInv
<1> QED
  BY <1>1, Inductive, PTL

(* No logger logs the fields of another one (logger.go:198-225).           *)
THEOREM FieldsDoNotLeak == Spec => []FieldsAreOwn
<1>1. IInv => FieldsAreOwn
  BY DEF IInv
<1> QED
  BY <1>1, Inductive, PTL

\* A step that writes no map of a logger, and takes a logger's map away or
\* leaves it, changes no fields.
LEMMA SameFields ==
  ASSUME NEW l, fields'[l] = fields[l], fields[l] # NoMap => contents'[fields[l]] = contents[fields[l]]
  PROVE  Logged(l)' = Logged(l)
BY DEF Logged, Empty

LEMMA FieldsStep ==
  ASSUME IInv, [Next]_vars, NEW l \in made
  PROVE  Logged(l)' = Logged(l) \/ fields'[l] = NoMap
<1>1. TypeOK /\ MapHasOneOwner /\ FreeMapsAreEmpty /\ CallInv /\ l \in Loggers
  BY DEF IInv, TypeOK
<1>2. ASSUME UNCHANGED <<fields, contents>>  PROVE Logged(l)' = Logged(l)
  BY <1>2, SameFields
<1>3. ASSUME NEW c \in Calls, Copy(c)  PROVE Logged(l)' = Logged(l)
  <2>1. HasMap(c) /\ fields[l] # call[c].map
    BY <1>1, <1>3 DEF Copy, At, HasMap, MapHasOneOwner
  <2>2. fields[l] \in Maps => contents'[fields[l]] = contents[fields[l]]
    BY <1>1, <1>3, <2>1 DEF Copy, TypeOK
  <2> QED  BY <1>1, <1>3, <2>2, SameFields DEF Copy, TypeOK
<1>4. ASSUME NEW c \in Calls, NEW j \in Loggers, Make(c, j)  PROVE Logged(l)' = Logged(l)
  <2>1. HasMap(c) /\ fields[l] # call[c].map /\ j # l
    BY <1>1, <1>4 DEF Make, At, HasMap, MapHasOneOwner
  <2>2. fields[l] \in Maps => contents'[fields[l]] = contents[fields[l]]
    BY <1>1, <1>4, <2>1 DEF Make, TypeOK
  <2>3. fields'[l] = fields[l]
    BY <1>1, <1>4, <2>1 DEF Make, TypeOK
  <2> QED  BY <1>1, <2>2, <2>3, SameFields DEF TypeOK
<1>5. ASSUME NEW j \in Loggers, Release(j)
      PROVE  Logged(l)' = Logged(l) \/ fields'[l] = NoMap
  <2>1. CASE fields[j] = NoMap
    BY <1>2, <1>5, <2>1 DEF Release
  <2>2. CASE fields[j] # NoMap /\ j = l
    BY <1>1, <1>5, <2>2 DEF Release, TypeOK
  <2>3. CASE fields[j] # NoMap /\ j # l
    <3>1. fields[j] # fields[l]
      BY <1>1, <2>3 DEF MapHasOneOwner
    <3>2. fields[l] \in Maps => contents'[fields[l]] = contents[fields[l]]
      BY <1>1, <1>5, <2>3, <3>1 DEF Release, TypeOK
    <3>3. fields'[l] = fields[l]
      BY <1>1, <1>5, <2>3 DEF Release, TypeOK
    <3> QED  BY <1>1, <3>2, <3>3, SameFields DEF TypeOK
  <2> QED  BY <2>1, <2>2, <2>3
<1>6. CASE Collect
  <2>1. contents' = contents
    BY <1>1, <1>6 DEF Collect, TypeOK, FreeMapsAreEmpty
  <2> QED  BY <1>2, <1>6, <2>1 DEF Collect
<1>7. ASSUME NEW c \in Calls, NEW j \in Loggers, WithFields(c, j) \/ WithError(c, j)
      PROVE  Logged(l)' = Logged(l)
  BY <1>2, <1>7 DEF WithFields, WithError, Get
<1>8. ASSUME NEW c \in Calls, Return(c)
      PROVE  Logged(l)' = Logged(l) \/ fields'[l] = NoMap
  BY <1>1, <1>5, <1>8 DEF Return, TypeOK, Call
<1>9. ASSUME NEW j \in Loggers, ReleaseMap(j)
      PROVE  Logged(l)' = Logged(l) \/ fields'[l] = NoMap
  BY <1>5, <1>9 DEF ReleaseMap
<1>10. CASE UNCHANGED vars
  BY <1>2, <1>10 DEF vars
<1> QED
  BY <1>3, <1>4, <1>6, <1>7, <1>8, <1>9, <1>10 DEF Next

(* A logger keeps exactly its fields until its map is taken away, whoever  *)
(* derives from it, releases maps or reuses them meanwhile                 *)
(* (logger.go:126-189).                                                    *)
THEOREM FieldsStay == Spec => FieldsNeverChange
<1>1. IInv /\ [Next]_vars => [\A l \in made : Logged(l)' = Logged(l) \/ fields'[l] = NoMap]_vars
  BY FieldsStep
<1> QED
  BY <1>1, Inductive, PTL DEF Spec, FieldsNeverChange

=============================================================================
