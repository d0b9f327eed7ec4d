----------------------------- MODULE IndexProofs -----------------------------
(***************************************************************************)
(* OrderIndex is the map that its user takes it for, for every table size, *)
(* any set of ids and any hash function: however ids collide and whatever  *)
(* tombstones are left, a probe finds what is there and an insertion finds *)
(* a cell.                                                                 *)
(***************************************************************************)
EXTENDS OrderIndex, FiniteSetTheorems, WellFoundedInduction, TLAPS

Fulls == {c \in CellIdxs : ctrl[c] = "Full"}

(* A probe for k passes every cell before the one after d others.          *)
Passes(k, d) == \A e \in 0 .. d - 1 : ctrl[Probed(k, e)] # "Empty"

(* No empty cell ever comes to lie between an id's home and its cell.      *)
Reachable(c) == \E d \in CellIdxs : Probed(keys[c], d) = c /\ Passes(keys[c], d)

IInv == /\ TypeOK
        /\ len = Cardinality(Fulls)
        /\ \A c \in Fulls : keys[c] \in Keys /\ vals[c] \in Vals /\ Reachable(c)
        /\ \A b, c \in Fulls : keys[b] = keys[c] => b = c

-----------------------------------------------------------------------------
(* A probe visits every cell once.                                         *)

LEMMA CellFacts ==
  /\ Cap \in Nat \ {0} /\ CellIdxs \subseteq Nat /\ MaxLive \in Nat /\ MaxLive < Cap
  /\ IsFiniteSet(CellIdxs) /\ Cardinality(CellIdxs) = Cap
  /\ IsFiniteSet(Fulls) /\ Cardinality(Fulls) \in Nat
<1>1. Cap \in Nat \ {0} /\ MaxLive \in Nat /\ MaxLive < Cap
  BY IndexAssumption DEF IsCapacity
<1>2. CellIdxs \subseteq Nat
  BY <1>1 DEF CellIdxs
<1>3. IsFiniteSet(CellIdxs) /\ Cardinality(CellIdxs) = Cap
  BY <1>1, FS_Interval DEF CellIdxs
<1>4. IsFiniteSet(Fulls) /\ Cardinality(Fulls) \in Nat
  <2>1. Fulls \subseteq CellIdxs
    BY DEF Fulls
  <2> QED BY <1>3, <2>1, FS_Subset, FS_CardinalityType
<1> QED BY <1>1, <1>2, <1>3, <1>4

LEMMA WrapsAround ==
  ASSUME NEW n \in Nat \ {0}, NEW a \in 0 .. n - 1, NEW d \in 0 .. n - 1
  PROVE  (a + d) % n = IF a + d < n THEN a + d ELSE a + d - n
OBVIOUS

LEMMA ProbedIs ==
  ASSUME NEW k \in Keys, NEW d \in CellIdxs
  PROVE  /\ Home[k] \in Nat /\ Home[k] < Cap /\ d \in Nat /\ d < Cap
         /\ Probed(k, d) = IF Home[k] + d < Cap THEN Home[k] + d ELSE Home[k] + d - Cap
         /\ Probed(k, d) \in CellIdxs
<1>1. Home[k] \in 0 .. Cap - 1 /\ d \in 0 .. Cap - 1 /\ Cap \in Nat \ {0}
  BY IndexAssumption, CellFacts DEF CellIdxs
<1>2. Probed(k, d) = IF Home[k] + d < Cap THEN Home[k] + d ELSE Home[k] + d - Cap
  BY <1>1, WrapsAround DEF Probed
<1> QED BY <1>1, <1>2 DEF CellIdxs

LEMMA ProbesApart ==
  ASSUME NEW k \in Keys, NEW d \in CellIdxs, NEW e \in CellIdxs, Probed(k, d) = Probed(k, e)
  PROVE  d = e
<1>1. /\ Home[k] \in Nat /\ Home[k] < Cap /\ d \in Nat /\ d < Cap /\ e \in Nat /\ e < Cap
      /\ Probed(k, d) = IF Home[k] + d < Cap THEN Home[k] + d ELSE Home[k] + d - Cap
      /\ Probed(k, e) = IF Home[k] + e < Cap THEN Home[k] + e ELSE Home[k] + e - Cap
  BY ProbedIs
<1>2. PICK h \in Nat, n \in Nat : h = Home[k] /\ n = Cap
  BY <1>1, CellFacts
<1>3. /\ h < n /\ d < n /\ e < n
      /\ (IF h + d < n THEN h + d ELSE h + d - n) = (IF h + e < n THEN h + e ELSE h + e - n)
  BY <1>1, <1>2
<1> QED BY <1>1, <1>2, <1>3

LEMMA ProbesEverywhere ==
  ASSUME NEW k \in Keys, NEW c \in CellIdxs
  PROVE  \E d \in CellIdxs : Probed(k, d) = c
<1> DEFINE d == IF Home[k] <= c THEN c - Home[k] ELSE c + Cap - Home[k]
<1>1. Home[k] \in 0 .. Cap - 1 /\ c \in 0 .. Cap - 1 /\ Cap \in Nat \ {0}
  BY IndexAssumption, CellFacts DEF CellIdxs
<1>2. d \in CellIdxs
  BY <1>1 DEF CellIdxs
<1>3. Probed(k, d) = IF Home[k] + d < Cap THEN Home[k] + d ELSE Home[k] + d - Cap
  <2> HIDE DEF d
  <2> QED BY <1>2, ProbedIs
<1>4. Probed(k, d) = c
  BY <1>1, <1>3
<1> QED BY <1>2, <1>4

LEMMA SmallestExists ==
  ASSUME NEW T \in SUBSET Nat, T # {}
  PROVE  \E m \in T : \A n \in T : m <= n
<1> DEFINE R == OpToRel(<, Nat)
<1>1. IsWellFoundedOn(R, Nat)
  BY NatLessThanWellFounded
<1>2. \A m, n \in Nat : n < m => <<n, m>> \in R
  BY DEF OpToRel
<1> HIDE DEF R
<1>3. PICK m \in T : \A n \in T : ~ (<<n, m>> \in R)
  BY <1>1, WFMin, Zenon
<1>4. ASSUME NEW n \in T PROVE m <= n
  <2>1. m \in Nat /\ n \in Nat
    OBVIOUS
  <2>2. ~ (n < m)
    BY <1>2, <1>3, <2>1
  <2> QED BY <2>1, <2>2
<1> QED BY <1>4

-----------------------------------------------------------------------------
(* What a probe finds.                                                     *)

(* An id that is in the table is found, in its one cell; any other is not. *)
Found == \A k \in Keys :
           /\ \A c \in Fulls : keys[c] = k => Contains(k) /\ Get(k) = vals[c]
           /\ (\A c \in Fulls : keys[c] # k) => ~ Contains(k) /\ Get(k) = None

LEMMA HitIsFull ==
  ASSUME TypeOK, NEW k \in Keys, NEW d \in Hits(k)
  PROVE  /\ d \in CellIdxs /\ Probed(k, d) \in Fulls /\ keys[Probed(k, d)] = k
         /\ Passes(k, d)
<1>1. d \in CellIdxs /\ Reaches(k, d) /\ Holds(k, d)
  BY DEF Hits
<1>2. Probed(k, d) \in CellIdxs
  BY <1>1, ProbedIs
<1> QED BY <1>1, <1>2 DEF Fulls, Holds, Reaches, Passes

LEMMA FullIsHit ==
  ASSUME IInv, NEW c \in Fulls
  PROVE  \E d \in Hits(keys[c]) : Probed(keys[c], d) = c
<1>1. PICK k \in Keys : k = keys[c]
  BY DEF IInv
<1>2. PICK d \in CellIdxs : Probed(k, d) = c /\ Passes(k, d)
  BY <1>1 DEF IInv, Reachable
<1>3. Holds(k, d)
  BY <1>1, <1>2 DEF Holds, Fulls
<1>4. ASSUME NEW e \in 0 .. d - 1 PROVE ~ Holds(k, e)
  <2>1. e \in CellIdxs /\ e # d
    BY <1>2, CellFacts DEF CellIdxs
  <2>2. Probed(k, e) \in CellIdxs /\ Probed(k, e) # c
    BY <1>2, <2>1, ProbedIs, ProbesApart
  <2>3. Probed(k, e) \in Fulls => keys[Probed(k, e)] # k
    BY <1>1, <2>2 DEF IInv
  <2> QED BY <2>2, <2>3 DEF Holds, Fulls
<1>5. Reaches(k, d)
  BY <1>2, <1>4 DEF Reaches, Passes
<1> QED BY <1>1, <1>2, <1>3, <1>5 DEF Hits

LEMMA ProbeFinds == IInv => Found
<1> SUFFICES ASSUME IInv, NEW k \in Keys
             PROVE  /\ \A c \in Fulls : keys[c] = k => Contains(k) /\ Get(k) = vals[c]
                    /\ (\A c \in Fulls : keys[c] # k) => ~ Contains(k) /\ Get(k) = None
  BY DEF Found
<1>1. ASSUME NEW c \in Fulls, keys[c] = k PROVE Contains(k) /\ Get(k) = vals[c]
  <2>1. Hits(k) # {}
    BY <1>1, FullIsHit
  <2>2. PICK d : d = CHOOSE e \in Hits(k) : TRUE
    OBVIOUS
  <2>3. d \in Hits(k)
    BY <2>1, <2>2
  <2>4. Probed(k, d) = c
    BY <1>1, <2>3, HitIsFull DEF IInv
  <2> QED BY <2>1, <2>2, <2>4 DEF Contains, Get
<1>2. ASSUME \A c \in Fulls : keys[c] # k PROVE ~ Contains(k) /\ Get(k) = None
  <2>1. Hits(k) = {}
    BY <1>2, HitIsFull DEF IInv
  <2> QED BY <2>1 DEF Contains, Get
<1> QED BY <1>1, <1>2

-----------------------------------------------------------------------------
(* The steps.                                                              *)

LEMMA InitInv == Init => IInv
<1> SUFFICES ASSUME Init PROVE IInv
  OBVIOUS
<1>1. TypeOK
  BY CellFacts DEF Init, TypeOK
<1>2. Fulls = {}
  BY DEF Init, Fulls
<1>3. Cardinality(Fulls) = 0
  BY <1>2, FS_EmptySet
<1> QED BY <1>1, <1>2, <1>3 DEF IInv, Init

(* Cells that do not become empty leave every path passable.               *)
LEMMA StaysReachable ==
  ASSUME NEW c \in CellIdxs, keys[c] \in Keys, keys'[c] = keys[c], Reachable(c),
         \A b \in CellIdxs : ctrl[b] # "Empty" => ctrl'[b] # "Empty"
  PROVE  Reachable(c)'
<1>1. PICK k \in Keys : k = keys[c]
  OBVIOUS
<1>2. PICK d \in CellIdxs : Probed(k, d) = c /\ Passes(k, d)
  BY <1>1 DEF Reachable
<1>3. \A e \in 0 .. d - 1 : e \in CellIdxs
  BY CellFacts DEF CellIdxs
<1>4. \A e \in 0 .. d - 1 : Probed(k, e) \in CellIdxs
  BY <1>3, ProbedIs
<1>5. Passes(k, d)'
  BY <1>2, <1>4 DEF Passes, Probed
<1>6. Passes(keys[c], d)'
  BY <1>1, <1>5 DEF Passes, Probed
<1>7. Probed(keys[c], d)' = c
  BY <1>1, <1>2 DEF Probed
<1> QED BY <1>6, <1>7 DEF Reachable

(* An insertion fills one cell, on a path without an empty one.            *)
Inserts(k, v, c) ==
  /\ c \in CellIdxs \ Fulls
  /\ \E d \in CellIdxs : Probed(k, d) = c /\ Passes(k, d)
  /\ ctrl' = [ctrl EXCEPT ![c] = "Full"]
  /\ keys' = [keys EXCEPT ![c] = k]
  /\ vals' = [vals EXCEPT ![c] = v]
  /\ len' = len + 1 /\ len < MaxLive
  /\ Fulls' = Fulls \cup {c}
  /\ \A b \in Fulls : keys[b] # k

LEMMA InsertFields ==
  ASSUME IInv, NEW k \in Keys, NEW v \in Vals, Insert(k, v)
  PROVE  \E c \in CellIdxs : Inserts(k, v, c)
<1>1. PICK d \in CellIdxs :
        /\ Target(k, d)
        /\ ctrl' = [ctrl EXCEPT ![Probed(k, d)] = "Full"]
        /\ keys' = [keys EXCEPT ![Probed(k, d)] = k]
        /\ vals' = [vals EXCEPT ![Probed(k, d)] = v]
  BY DEF Insert
<1>2. PICK c \in CellIdxs : c = Probed(k, d)
  BY ProbedIs
<1>3. c \in CellIdxs \ Fulls /\ Passes(k, d)
  BY <1>1, <1>2 DEF Target, Fulls, Passes
<1>4. ctrl' = [ctrl EXCEPT ![c] = "Full"] /\ ctrl \in [CellIdxs -> {"Empty", "Full", "Tombstone"}]
  BY <1>1, <1>2 DEF IInv, TypeOK
<1>5. Fulls' = Fulls \cup {c}
  BY <1>2, <1>4 DEF Fulls
<1>6. \A b \in Fulls : keys[b] # k
  <2>1. ~ Contains(k)
    BY DEF Insert
  <2> QED BY <2>1, ProbeFinds DEF Found
<1> QED BY <1>1, <1>2, <1>3, <1>4, <1>5, <1>6 DEF Inserts, Insert

LEMMA InsertInv == ASSUME IInv, NEW k \in Keys, NEW v \in Vals, Insert(k, v) PROVE IInv'
<1>1. PICK c \in CellIdxs : Inserts(k, v, c)
  BY InsertFields
<1>2. /\ c \notin Fulls /\ Fulls' = Fulls \cup {c} /\ Fulls \subseteq CellIdxs
      /\ keys' = [keys EXCEPT ![c] = k] /\ vals' = [vals EXCEPT ![c] = v]
      /\ ctrl' = [ctrl EXCEPT ![c] = "Full"]
      /\ TypeOK /\ len' = len + 1 /\ len < MaxLive /\ len = Cardinality(Fulls)
  BY <1>1 DEF Inserts, Fulls, IInv
<1>3. TypeOK'
  BY <1>2, CellFacts DEF TypeOK
<1>4. len' = Cardinality(Fulls')
  <2>1. Cardinality(Fulls \cup {c}) = Cardinality(Fulls) + 1
    BY <1>2, CellFacts, FS_AddElement
  <2> QED BY <1>2, <2>1
<1>5. \A b \in CellIdxs : ctrl[b] # "Empty" => ctrl'[b] # "Empty"
  BY <1>2 DEF TypeOK
<1>6. keys'[c] = k /\ vals'[c] = v
  BY <1>2 DEF TypeOK
<1>7. \A b \in Fulls : keys'[b] = keys[b] /\ vals'[b] = vals[b]
  BY <1>2 DEF TypeOK
<1>8. Reachable(c)'
  <2>1. PICK d \in CellIdxs : Probed(k, d) = c /\ Passes(k, d)
    BY <1>1 DEF Inserts
  <2>2. \A e \in 0 .. d - 1 : Probed(k, e) \in CellIdxs
    <3>1. \A e \in 0 .. d - 1 : e \in CellIdxs
      BY CellFacts DEF CellIdxs
    <3> QED BY <3>1, ProbedIs
  <2>3. Passes(keys[c], d)' /\ Probed(keys[c], d)' = c
    BY <1>5, <1>6, <2>1, <2>2 DEF Passes, Probed
  <2> QED BY <2>3 DEF Reachable
<1>9. ASSUME NEW b \in Fulls' PROVE keys'[b] \in Keys /\ vals'[b] \in Vals /\ Reachable(b)'
  <2>1. CASE b = c
    BY <1>6, <1>8, <2>1
  <2>2. CASE b # c
    <3>1. b \in Fulls /\ keys[b] \in Keys /\ vals[b] \in Vals /\ Reachable(b)
      BY <1>2, <2>2 DEF IInv
    <3>2. Reachable(b)'
      BY <1>2, <1>5, <1>7, <3>1, StaysReachable
    <3> QED BY <1>7, <3>1, <3>2
  <2> QED BY <2>1, <2>2
<1>10. ASSUME NEW a \in Fulls', NEW b \in Fulls', keys'[a] = keys'[b] PROVE a = b
  <2>1. \A e \in Fulls : keys[e] # k
    BY <1>1 DEF Inserts
  <2> QED BY <1>2, <1>6, <1>7, <1>10, <2>1 DEF IInv
<1> QED BY <1>3, <1>4, <1>9, <1>10 DEF IInv

(* A removal makes a tombstone of the id's cell.                           *)
Removes(k, c) ==
  /\ c \in Fulls /\ keys[c] = k
  /\ ctrl' = [ctrl EXCEPT ![c] = "Tombstone"]
  /\ len' = len - 1 /\ UNCHANGED <<keys, vals>>
  /\ Fulls' = Fulls \ {c}

LEMMA RemoveFields ==
  ASSUME IInv, NEW k \in Keys, Remove(k)
  PROVE  \E c \in CellIdxs : Removes(k, c)
<1>1. PICK d \in Hits(k) :
        /\ ctrl' = [ctrl EXCEPT ![Probed(k, d)] = "Tombstone"]
        /\ len' = len - 1
        /\ UNCHANGED <<keys, vals>>
  BY DEF Remove
<1>2. PICK c \in CellIdxs : c = Probed(k, d) /\ c \in Fulls /\ keys[c] = k
  BY HitIsFull DEF IInv, Fulls
<1>3. ctrl' = [ctrl EXCEPT ![c] = "Tombstone"] /\ ctrl \in [CellIdxs -> {"Empty", "Full", "Tombstone"}]
  BY <1>1, <1>2 DEF IInv, TypeOK
<1>4. Fulls' = Fulls \ {c}
  BY <1>3 DEF Fulls
<1> QED BY <1>1, <1>2, <1>3, <1>4 DEF Removes

LEMMA RemoveInv == ASSUME IInv, NEW k \in Keys, Remove(k) PROVE IInv'
<1>1. PICK c \in CellIdxs : Removes(k, c)
  BY RemoveFields
<1>2. /\ c \in Fulls /\ Fulls' = Fulls \ {c} /\ Fulls \subseteq CellIdxs
      /\ keys' = keys /\ vals' = vals /\ ctrl' = [ctrl EXCEPT ![c] = "Tombstone"]
      /\ TypeOK /\ len' = len - 1 /\ len = Cardinality(Fulls)
  BY <1>1 DEF Removes, Fulls, IInv
<1>3. Cardinality(Fulls \ {c}) = Cardinality(Fulls) - 1 /\ Cardinality(Fulls \ {c}) \in Nat
  BY <1>2, CellFacts, FS_RemoveElement, FS_CardinalityType
<1>4. TypeOK'
  <2>1. len' \in 0 .. MaxLive
    BY <1>2, <1>3, CellFacts DEF TypeOK
  <2> QED BY <1>2, <2>1 DEF TypeOK
<1>5. \A b \in CellIdxs : ctrl[b] # "Empty" => ctrl'[b] # "Empty"
  BY <1>2 DEF TypeOK
<1>6. ASSUME NEW b \in Fulls' PROVE keys'[b] \in Keys /\ vals'[b] \in Vals /\ Reachable(b)'
  <2>1. b \in Fulls /\ keys[b] \in Keys /\ vals[b] \in Vals /\ Reachable(b)
    BY <1>2 DEF IInv
  <2>2. Reachable(b)'
    BY <1>2, <1>5, <2>1, StaysReachable
  <2> QED BY <1>2, <2>1, <2>2
<1>7. \A a, b \in Fulls' : keys'[a] = keys'[b] => a = b
  BY <1>2 DEF IInv
<1> QED BY <1>2, <1>3, <1>4, <1>6, <1>7 DEF IInv

LEMMA StutterInv == ASSUME IInv, UNCHANGED vars PROVE IInv'
BY DEF vars, IInv, TypeOK, Fulls, Reachable, Passes, Probed

LEMMA Inductive == Spec => []IInv
<1>1. IInv /\ [Next]_vars => IInv'
  BY InsertInv, RemoveInv, StutterInv DEF Next
<1> QED BY <1>1, InitInv, PTL DEF Spec

-----------------------------------------------------------------------------
(* The theorems.                                                           *)

(* insert() always finds a cell that it may take, and len counts the cells *)
(* that are full: no history of removals can fill the table up ("len <=    *)
(* max_live <= cap/2 guarantees a free slot exists", order_index.rs:108).  *)
THEOREM InsertsHaveRoom == Spec => []InsertHasRoom
<1>1. ASSUME IInv PROVE InsertHasRoom
  <2>1. len = Cardinality(Fulls) /\ TypeOK
    BY <1>1 DEF IInv
  <2>2. ASSUME len < MaxLive, NEW k \in Keys PROVE \E d \in CellIdxs : Target(k, d)
    <3>1. PICK c \in CellIdxs : c \notin Fulls
      <4>1. Cardinality(Fulls) # Cardinality(CellIdxs)
        BY <2>1, <2>2, CellFacts
      <4> QED BY <4>1 DEF Fulls
    <3>2. PICK f \in CellIdxs : Probed(k, f) = c
      BY ProbesEverywhere
    <3> DEFINE T == {d \in CellIdxs : ctrl[Probed(k, d)] # "Full"}
    <3>3. f \in T /\ T \in SUBSET Nat
      BY <3>1, <3>2, CellFacts DEF Fulls
    <3>4. PICK d \in T : \A e \in T : d <= e
      <4> HIDE DEF T
      <4> QED BY <3>3, SmallestExists
    <3>5. ASSUME NEW e \in 0 .. d - 1 PROVE ctrl[Probed(k, e)] = "Full"
      <4>1. e \in CellIdxs /\ ~ (d <= e)
        BY <3>4, CellFacts DEF CellIdxs
      <4> QED BY <3>4, <4>1
    <3> QED BY <3>4, <3>5 DEF Target
  <2> QED BY <2>1, <2>2 DEF InsertHasRoom, Fulls
<1>2. IInv => InsertHasRoom
  BY <1>1
<1> QED BY <1>2, Inductive, PTL

-----------------------------------------------------------------------------
(* The refinement.                                                         *)

(* The table holds as many ids as it has full cells.                       *)
LEMMA AsManyIds ==
  ASSUME IInv
  PROVE  Cardinality({k \in Keys : Get(k) # None}) = len
<1> DEFINE ids == {k \in Keys : Get(k) # None}
           f == [c \in Fulls |-> keys[c]]
<1>1. Found
  BY ProbeFinds
<1>2. \A c \in Fulls : keys[c] \in Keys /\ vals[c] \in Vals /\ vals[c] # None
  BY IndexAssumption DEF IInv
<1>3. \A c \in Fulls : keys[c] \in ids
  BY <1>1, <1>2 DEF Found
<1>4. \A k \in ids : \E c \in Fulls : keys[c] = k
  BY <1>1 DEF Found
<1>5. \A b, c \in Fulls : keys[b] = keys[c] => b = c
  BY DEF IInv
<1> HIDE DEF ids
<1>6. f \in Bijection(Fulls, ids)
  BY <1>3, <1>4, <1>5 DEF Bijection, Injection, Surjection, IsInjective
<1>7. Cardinality(ids) = Cardinality(Fulls)
  <2>1. ExistsBijection(Fulls, ids)
    BY <1>6 DEF ExistsBijection
  <2> QED BY <2>1, CellFacts, FS_Bijection
<1> QED BY <1>7 DEF IInv, ids

LEMMA InitMaps == Init => Map!Init
<1> SUFFICES ASSUME Init PROVE Map!Init
  OBVIOUS
<1>1. IInv /\ Fulls = {}
  BY InitInv DEF Init, Fulls
<1>2. \A k \in Keys : Get(k) = None
  BY <1>1, ProbeFinds DEF Found
<1> QED BY <1>2 DEF Map!Init

LEMMA StepMaps ==
  ASSUME IInv, IInv', Found', [Next]_vars
  PROVE  [Map!Next]_([k \in Keys |-> Get(k)])
<1>1. Found
  BY ProbeFinds
<1>2. ASSUME NEW k \in Keys, NEW v \in Vals, Insert(k, v) PROVE Map!Insert(k, v)
  <2>1. PICK c \in CellIdxs : Inserts(k, v, c)
    BY <1>2, InsertFields
  <2>2. /\ c \notin Fulls /\ Fulls' = Fulls \cup {c} /\ len < MaxLive
        /\ keys'[c] = k /\ vals'[c] = v
        /\ \A b \in Fulls : keys[b] # k /\ keys'[b] = keys[b] /\ vals'[b] = vals[b]
    BY <2>1 DEF Inserts, IInv, TypeOK, Fulls
  <2>3. Get(k) = None /\ Get(k)' = v
    <3>1. Get(k) = None
      BY <1>1, <2>2 DEF Found
    <3>2. Get(k)' = v
      BY <2>2 DEF Found
    <3> QED BY <3>1, <3>2
  <2>4. ASSUME NEW j \in Keys, j # k PROVE Get(j)' = Get(j)
    <3>1. CASE \E b \in Fulls : keys[b] = j
      BY <1>1, <2>2, <3>1 DEF Found
    <3>2. CASE \A b \in Fulls : keys[b] # j
      <4>1. \A b \in Fulls' : keys'[b] # j
        BY <2>2, <2>4, <3>2
      <4>2. Get(j)' = None
        BY <4>1 DEF Found
      <4> QED BY <1>1, <3>2, <4>2 DEF Found
    <3> QED BY <3>1, <3>2
  <2>5. Map!Cardinality(Map!InMap) < MaxLive
    <3>1. Map!InMap = {j \in Keys : Get(j) # None}
      BY DEF Map!InMap
    <3>2. Map!Cardinality(Map!InMap) = Cardinality(Map!InMap)
      BY DEF Map!Cardinality, Cardinality, Map!IsFiniteSet, IsFiniteSet
    <3> QED BY <2>2, <3>1, <3>2, AsManyIds
  <2>6. [j \in Keys |-> Get(j)]' = [[j \in Keys |-> Get(j)] EXCEPT ![k] = v]
    BY <2>3, <2>4
  <2> QED BY <2>3, <2>5, <2>6 DEF Map!Insert
<1>3. ASSUME NEW k \in Keys, Remove(k) PROVE Map!Remove(k)
  <2>1. PICK c \in CellIdxs : Removes(k, c)
    BY <1>3, RemoveFields
  <2>2. /\ c \in Fulls /\ keys[c] = k /\ Fulls' = Fulls \ {c} /\ keys' = keys /\ vals' = vals
        /\ \A b \in Fulls : keys[b] = k => b = c
    BY <2>1 DEF Removes, IInv
  <2>3. Get(k)' = None
    BY <2>2 DEF Found
  <2>4. ASSUME NEW j \in Keys, j # k PROVE Get(j)' = Get(j)
    <3>1. CASE \E b \in Fulls : keys[b] = j
      BY <1>1, <2>2, <2>4, <3>1 DEF Found
    <3>2. CASE \A b \in Fulls : keys[b] # j
      BY <1>1, <2>2, <3>2 DEF Found
    <3> QED BY <3>1, <3>2
  <2>5. [j \in Keys |-> Get(j)]' = [[j \in Keys |-> Get(j)] EXCEPT ![k] = None]
    BY <2>3, <2>4
  <2> QED BY <2>5 DEF Map!Remove
<1>4. CASE UNCHANGED vars
  <2>1. Fulls' = Fulls /\ keys' = keys /\ vals' = vals
    BY <1>4 DEF vars, Fulls
  <2>2. ASSUME NEW j \in Keys PROVE Get(j)' = Get(j)
    BY <1>1, <2>1 DEF Found
  <2> QED BY <2>2
<1> QED BY <1>2, <1>3, <1>4 DEF Next, Map!Next

(* What get() answers is a map: an insertion or removal of one id leaves   *)
(* the answer for every other what it was, whatever collides with what and *)
(* whichever tombstone is reused.                                          *)
THEOREM IndexIsAMap == Spec => ImplementsMap
<1>1. Init => Map!Init
  BY InitMaps
<1>2. IInv /\ IInv' /\ Found' /\ [Next]_vars => [Map!Next]_([k \in Keys |-> Get(k)])
  BY StepMaps
<1>3. IInv => Found
  BY ProbeFinds
<1> QED BY <1>1, <1>2, <1>3, Inductive, PTL DEF Spec, ImplementsMap, Map!Spec

=============================================================================
