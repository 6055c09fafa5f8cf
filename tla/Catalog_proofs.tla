--------------------------- MODULE Catalog_proofs ---------------------------
(***************************************************************************)
(* Proofs about Catalog, for any items, page size, delays and clock.  That *)
(* no item is skipped is a matter of ranks: an item that has yet to be     *)
(* read stands no earlier in the listing than the offset of the next page, *)
(* since nothing but a deletion before it lowers its rank.  That no change *)
(* is forgotten is a matter of time: what a poll may leave out was edited  *)
(* after it began, and so within the overlap of the next one.              *)
(***************************************************************************)
EXTENDS Catalog, TLAPS, FiniteSetTheorems

-----------------------------------------------------------------------------
(* Ranks *)

Below(S, i) == {j \in S : j < i}

(* A rank is a natural number. *)
LEMMA BelowType ==
  ASSUME NEW S \in SUBSET Items, NEW i
  PROVE  /\ IsFiniteSet(Below(S, i))
         /\ Cardinality(Below(S, i)) \in Nat
<1>1. IsFiniteSet(S)
  BY CatalogAssumption, FS_Subset
<1>2. Below(S, i) \in SUBSET S
  BY DEF Below
<1> QED
  BY <1>1, <1>2, FS_Subset, FS_CardinalityType

(* An item that enters lowers no other's rank. *)
LEMMA BelowGrows ==
  ASSUME NEW T \in SUBSET Items, NEW S \in SUBSET T, NEW i
  PROVE  Cardinality(Below(S, i)) <= Cardinality(Below(T, i))
<1>1. Below(S, i) \in SUBSET Below(T, i)
  BY DEF Below
<1> QED
  BY <1>1, BelowType, FS_Subset

(* Ranks follow the order of the items. *)
LEMMA BelowOrder ==
  ASSUME NEW S \in SUBSET Items, NEW i \in S, NEW j \in Items, i < j
  PROVE  Cardinality(Below(S, i)) < Cardinality(Below(S, j))
<1>0. i \in Int /\ j \in Int /\ S \subseteq Int
  BY CatalogAssumption
<1>1. Below(S, i) \in SUBSET Below(S, j)
  <2>1. \A x \in S : x < i => x < j
    BY <1>0
  <2> QED
    BY <2>1 DEF Below
<1>2. i \in Below(S, j) /\ i \notin Below(S, i)
  BY <1>0 DEF Below
<1>3. Cardinality(Below(S, i)) <= Cardinality(Below(S, j))
      /\ Cardinality(Below(S, i)) # Cardinality(Below(S, j))
  BY <1>1, <1>2, BelowType, FS_Subset
<1> QED
  BY <1>3, BelowType

(* An item that goes moves the items behind it up by one, and no others. *)
LEMMA BelowRemoved ==
  ASSUME NEW S \in SUBSET Items, NEW d, NEW u
  PROVE  Cardinality(Below(S \ {d}, u)) =
           IF d \in S /\ d < u THEN Cardinality(Below(S, u)) - 1
                               ELSE Cardinality(Below(S, u))
<1>1. Below(S \ {d}, u) = Below(S, u) \ {d}
  BY DEF Below
<1>2. d \in Below(S, u) <=> d \in S /\ d < u
  BY DEF Below
<1>3. Cardinality(Below(S, u) \ {d}) =
        IF d \in Below(S, u) THEN Cardinality(Below(S, u)) - 1
                             ELSE Cardinality(Below(S, u))
  BY BelowType, FS_RemoveElement
<1> QED
  BY <1>1, <1>2, <1>3

(* A page that is not full is the last: whoever is not before it is on it.  *)
(* If somebody stood behind it, every place of the page would be taken.     *)
LEMMA ShortPageIsLast ==
  ASSUME NEW S \in SUBSET Items, NEW from \in Nat, NEW u \in S,
         from <= Cardinality(Below(S, u)),
         Cardinality({i \in S : /\ from <= Cardinality(Below(S, i))
                                /\ Cardinality(Below(S, i)) < from + PageLimit})
           < PageLimit
  PROVE  Cardinality(Below(S, u)) < from + PageLimit
<1> DEFINE P == {i \in S : /\ from <= Cardinality(Below(S, i))
                           /\ Cardinality(Below(S, i)) < from + PageLimit}
           n == Cardinality(Below(S, u))
           f == [j \in Below(S, u) |-> Cardinality(Below(S, j))]
           g == [j \in P |-> Cardinality(Below(S, j))]
<1>0. PageLimit \in Nat /\ PageLimit # 0 /\ Items \subseteq Int
  BY CatalogAssumption
<1>1. n \in Nat /\ IsFiniteSet(Below(S, u)) /\ IsFiniteSet(P)
  <2>1. P \in SUBSET S /\ IsFiniteSet(S)
    BY CatalogAssumption, FS_Subset
  <2> QED
    BY <2>1, BelowType, FS_Subset
<1> SUFFICES ASSUME n >= from + PageLimit
             PROVE  FALSE
  BY <1>0, <1>1
<1>2. f \in Injection(Below(S, u), 0 .. n - 1)
  <2>1. \A j \in Below(S, u) : Cardinality(Below(S, j)) \in 0 .. n - 1
    <3> TAKE j \in Below(S, u)
    <3>1. j \in S /\ j < u /\ j \in Int
      BY <1>0 DEF Below
    <3>2. Cardinality(Below(S, j)) < n /\ Cardinality(Below(S, j)) \in Nat
      BY <3>1, BelowOrder, BelowType
    <3> QED
      BY <3>2, <1>1
  <2>2. \A j, k \in Below(S, u) :
          Cardinality(Below(S, j)) = Cardinality(Below(S, k)) => j = k
    <3> TAKE j, k \in Below(S, u)
    <3>1. j \in S /\ k \in S /\ j \in Int /\ k \in Int
      BY <1>0 DEF Below
    <3>2. j < k => Cardinality(Below(S, j)) < Cardinality(Below(S, k))
      BY <3>1, BelowOrder
    <3>3. k < j => Cardinality(Below(S, k)) < Cardinality(Below(S, j))
      BY <3>1, BelowOrder
    <3>4. Cardinality(Below(S, j)) \in Nat /\ Cardinality(Below(S, k)) \in Nat
      BY BelowType
    <3> QED
      BY <3>1, <3>2, <3>3, <3>4
  <2> QED
    BY <2>1, <2>2 DEF Injection, IsInjective
<1>3. f \in Surjection(Below(S, u), 0 .. n - 1)
  <2>1. IsFiniteSet(0 .. n - 1) /\ Cardinality(0 .. n - 1) = n
    <3> HIDE DEF n
    <3>1. n - 1 \in Int /\ (0 > n - 1 => n = 0) /\ (n - 1) - 0 + 1 = n
      BY <1>1
    <3> QED
      BY <3>1, FS_Interval
  <2> QED
    BY <1>2, <2>1, FS_Injection
<1>4. \A r \in from .. from + PageLimit - 1 : \E j \in P : g[j] = r
  <2> TAKE r \in from .. from + PageLimit - 1
  <2>1. r \in 0 .. n - 1
    BY <1>0, <1>1
  <2>2. PICK j \in Below(S, u) : f[j] = r
    BY <1>3, <2>1 DEF Surjection
  <2>3. j \in P
    BY <2>2, <1>0 DEF Below
  <2> QED
    BY <2>2, <2>3
<1>5. g \in Surjection(P, from .. from + PageLimit - 1)
  <2>1. \A j \in P : g[j] \in from .. from + PageLimit - 1
    <3> TAKE j \in P
    <3>1. Cardinality(Below(S, j)) \in Nat
      BY BelowType
    <3> QED
      BY <3>1, <1>0
  <2> QED
    BY <1>4, <2>1 DEF Surjection
<1>6. Cardinality(from .. from + PageLimit - 1) <= Cardinality(P)
  BY <1>1, <1>5, FS_Surjection
<1>7. Cardinality(from .. from + PageLimit - 1) = PageLimit
  BY <1>0, FS_Interval
<1>8. Cardinality(P) \in Nat
  BY <1>1, FS_CardinalityType
<1> QED
  BY <1>0, <1>6, <1>7, <1>8

-----------------------------------------------------------------------------
(* The inductive invariant *)

(* A call that goes on is not too slow. *)
StillInTime == at # "wait" => now <= begun + Slowest

(* What a call must still return lies ahead of it.  While ChangedSince runs *)
(* this takes a Roomy overlap: an item edited then must match, or it would  *)
(* leave the listing and move others onto pages already read.               *)
Ahead(u) == u \in Matching /\ Rank(u) >= offset /\ (at # "changes" => u \notin hidden)
DueIsAhead ==
  at # "wait" /\ (at = "changes" => Roomy) => \A u \in due \ out : Ahead(u)

(* What is not yet reported is not too old for the next poll, nor, when it  *)
(* was edited under the current one, for the poll after it.                 *)
AfterBegun(i) == modified[i] >= begun - Lag
Owed ==
  /\ at = "changes" => due \subseteq pending
  /\ \A i \in pending :
       /\ at = "boot" => AfterBegun(i)
       /\ at # "boot" => modified[i] >= Since
       /\ at = "changes" /\ i \notin due => AfterBegun(i)

IInv == TypeOK /\ StillInTime /\ DueIsAhead /\ (Roomy => Owed)

(* Ranks in the listing that is read are natural numbers. *)
LEMMA RankType ==
  ASSUME TypeOK
  PROVE  /\ Matching \in SUBSET listed /\ Matching \in SUBSET Items
         /\ Page \in SUBSET Matching /\ Collected \in SUBSET Items
         /\ \A i : Rank(i) \in Nat /\ Rank(i) = Cardinality(Below(Matching, i))
<1>1. Matching \in SUBSET listed /\ Matching \in SUBSET Items
  BY DEF Matching, TypeOK
<1>2. Page \in SUBSET Matching
  BY DEF Page
<1>3. Collected \in SUBSET Items
  BY <1>1, <1>2 DEF Collected, TypeOK
<1>4. \A i : Rank(i) = Cardinality(Below(Matching, i))
  BY DEF Rank, Below
<1> QED
  BY <1>1, <1>2, <1>3, <1>4, BelowType

LEMMA RankTypeNext ==
  ASSUME TypeOK'
  PROVE  /\ Matching' \in SUBSET listed' /\ Matching' \in SUBSET Items
         /\ \A i : Rank(i)' \in Nat /\ Rank(i)' = Cardinality(Below(Matching', i))
<1>1. Matching' \in SUBSET listed' /\ Matching' \in SUBSET Items
  BY DEF Matching, TypeOK
<1>2. \A i : Rank(i)' = Cardinality(Below(Matching', i))
  BY DEF Rank, Below
<1> QED
  BY <1>1, <1>2, BelowType

(* Types: nothing but the bound on attempts and the clock is at risk. *)
LEMMA TypeStep ==
  ASSUME TypeOK, [Next]_vars
  PROVE  TypeOK'
<1> USE CatalogAssumption
<1>0. Collected \in SUBSET Items
  BY RankType
<1>1. CASE \E i \in Items, hide \in BOOLEAN : Edit(i, hide)
  BY <1>1 DEF Edit, call, TypeOK
<1>2. CASE \E d \in Items : Delete(d)
  BY <1>2 DEF Delete, call, TypeOK
<1>3. CASE Tick
  BY <1>3 DEF Tick, InTime, shop, call, TypeOK
<1>4. CASE Poll
  BY <1>4 DEF Poll, Call, CallAt, shop, TypeOK
<1>5. CASE \E d \in 1 .. Slowest : Throttled(d)
  BY <1>5 DEF Throttled, MayRetry, shop, TypeOK
<1>6. CASE NextPage
  BY <1>6, <1>0 DEF NextPage, NextOffset, shop, TypeOK
<1>7. CASE ChangesEnd
  <2>1. /\ lastPoll' = now /\ pending' \subseteq pending
        /\ UNCHANGED <<now, listed, hidden, modified, cache>>
    BY <1>7 DEF ChangesEnd, shop
  <2>2. /\ at' \in {"wait", "list"} /\ begun' \in {0, now} /\ notBefore' = begun'
        /\ offset' = 0 /\ attempt' = 1 /\ out' = {} /\ due' \subseteq listed
    BY <1>7 DEF ChangesEnd, Return, Call, CallAt
  <2> QED
    BY <2>1, <2>2 DEF TypeOK
<1>8. CASE ListEnd
  BY <1>8, <1>0 DEF ListEnd, Return, AfterList, CallAt, shop, TypeOK
<1>9. CASE CallFails
  BY <1>9 DEF CallFails, Return, AfterList, CallAt, shop, TypeOK
<1>10. CASE UNCHANGED vars
  BY <1>10 DEF vars, shop, call, TypeOK
<1> QED
  BY <1>1, <1>2, <1>3, <1>4, <1>5, <1>6, <1>7, <1>8, <1>9, <1>10 DEF Next, Answer

(* No call outlasts Slowest: a tick or a delay that would make it does not *)
(* happen.                                                                 *)
LEMMA InTimeStep ==
  ASSUME TypeOK, StillInTime, [Next]_vars
  PROVE  StillInTime'
<1> USE CatalogAssumption
<1>1. CASE Tick
  BY <1>1 DEF Tick, InTime, call, StillInTime, TypeOK
<1>2. CASE Poll
  BY <1>2 DEF Poll, Call, CallAt, StillInTime, TypeOK
<1>3. CASE ChangesEnd
  BY <1>3 DEF ChangesEnd, Return, Call, CallAt, StillInTime, TypeOK
<1>4. CASE ListEnd \/ CallFails
  BY <1>4 DEF ListEnd, CallFails, Return, CallAt, StillInTime
<1>5. CASE UNCHANGED <<now, at, begun>>
  BY <1>5 DEF StillInTime
<1>6. CASE UNCHANGED vars
  BY <1>6 DEF vars, call, StillInTime
<1> QED
  BY <1>1, <1>2, <1>3, <1>4, <1>5, <1>6
     DEF Next, Answer, Edit, Delete, Throttled, NextPage, call

-----------------------------------------------------------------------------
(* What is due stays ahead *)

(* A call that begins has everything ahead of it. *)
LEMMA BeginsAhead ==
  ASSUME TypeOK', offset' = 0, due' \subseteq Matching',
         at' # "changes" => due' \cap hidden' = {}
  PROVE  DueIsAhead'
<1> QED
  BY RankTypeNext DEF DueIsAhead, Ahead

(* The listing only grows: nothing that is ahead falls behind. *)
LEMMA GrowthKeepsAhead ==
  ASSUME TypeOK, TypeOK', DueIsAhead, at' = at, offset' = offset, out' = out,
         at # "wait" /\ (at = "changes" => Roomy) =>
           /\ Matching \subseteq Matching'
           /\ \A u \in due' \ out : u \in due /\ (u \in hidden' => u \in hidden)
  PROVE  DueIsAhead'
<1> SUFFICES ASSUME at # "wait", at = "changes" => Roomy, NEW u \in due' \ out
             PROVE  Ahead(u)'
  BY DEF DueIsAhead
<1>1. u \in due \ out /\ (u \in hidden' => u \in hidden)
  OBVIOUS
<1>2. Ahead(u)
  BY <1>1 DEF DueIsAhead
<1>3. Rank(u)' >= Rank(u) /\ Rank(u) \in Nat /\ Rank(u)' \in Nat
  <2>1. /\ Rank(u) \in Nat /\ Rank(u) = Cardinality(Below(Matching, u))
        /\ Matching \in SUBSET Items
    BY RankType
  <2>2. /\ Rank(u)' \in Nat /\ Rank(u)' = Cardinality(Below(Matching', u))
        /\ Matching' \in SUBSET Items
    BY RankTypeNext
  <2> QED
    BY <2>1, <2>2, BelowGrows
<1> QED
  BY <1>1, <1>2, <1>3 DEF Ahead, TypeOK

(* Next page: what was ahead of the old offset is on the page, and taken, *)
(* or ahead of the new one.                                               *)
LEMMA NextPageKeepsAhead ==
  ASSUME TypeOK, DueIsAhead, NextPage
  PROVE  DueIsAhead'
<1> SUFFICES ASSUME at # "wait", at = "changes" => Roomy, NEW u \in due \ out'
             PROVE  Ahead(u)'
  BY DEF DueIsAhead, NextPage
<1>1. /\ out' = Collected /\ offset' = offset + PageLimit
      /\ UNCHANGED <<at, listed, hidden, modified, lastPoll>>
  BY DEF NextPage, NextOffset, shop
<1>2. u \notin Collected /\ u \notin out /\ Ahead(u)
  BY <1>1 DEF Collected, DueIsAhead
<1>3. u \notin Page
  BY <1>2 DEF Collected, Ahead
<1>4. Rank(u) >= offset + PageLimit
  BY <1>2, <1>3, RankType, CatalogAssumption DEF Page, Ahead, TypeOK
<1>5. Matching' = Matching /\ Rank(u)' = Rank(u)
  BY <1>1 DEF Matching, Rank, Since
<1> QED
  BY <1>1, <1>2, <1>4, <1>5 DEF Ahead

(* A deletion costs the call one item at most, the first one ahead. *)
LEMMA OneMissed ==
  ASSUME TypeOK, DueIsAhead, at # "wait", at = "changes" => Roomy,
         NEW d, NEW u \in Missed(d), NEW v \in Missed(d)
  PROVE  u = v
<1> SUFFICES ASSUME u # v
             PROVE  FALSE
  OBVIOUS
<1>1. u \in Items /\ v \in Items /\ Rank(u) = Rank(v)
  BY DEF Missed, TypeOK
<1>2. u \in Int /\ v \in Int /\ u \in Matching /\ v \in Matching
  BY <1>1, CatalogAssumption DEF Missed, DueIsAhead, Ahead
<1>3. u < v \/ v < u
  BY <1>2
<1> QED
  BY <1>1, <1>2, <1>3, RankType, BelowOrder

(* The others ahead stay ahead: their rank falls by one, and no further than *)
(* the offset.                                                               *)
LEMMA DeleteKeepsAhead ==
  ASSUME TypeOK, DueIsAhead, NEW d \in Items, Delete(d)
  PROVE  DueIsAhead'
<1> SUFFICES ASSUME at # "wait", at = "changes" => Roomy, NEW u \in due' \ out
             PROVE  Ahead(u)'
  BY DEF DueIsAhead, Delete, call
<1>1. /\ listed' = listed \ {d} /\ hidden' = hidden \ {d}
      /\ due' = due \ ({d} \cup Missed(d))
      /\ UNCHANGED <<at, offset, out, modified, lastPoll>>
  BY DEF Delete, call
<1>2. u \in due \ out /\ u # d /\ u \notin Missed(d) /\ Ahead(u)
  BY <1>1 DEF DueIsAhead
<1>3. Matching' = Matching \ {d}
  BY <1>1 DEF Matching, Since
<1>4. /\ Matching \in SUBSET Items /\ Rank(u) \in Nat /\ offset \in Nat
      /\ Rank(u) = Cardinality(Below(Matching, u))
      /\ Rank(u)' = Cardinality(Below(Matching', u))
  BY RankType DEF TypeOK, Rank, Below
<1>5. Rank(u)' = IF d \in Matching /\ d < u THEN Rank(u) - 1 ELSE Rank(u)
  BY <1>3, <1>4, BelowRemoved
<1>6. d \in Matching /\ d < u => Rank(u) # offset
  BY <1>2 DEF Missed
<1>7. Rank(u)' >= offset
  BY <1>2, <1>4, <1>5, <1>6 DEF Ahead
<1> QED
  BY <1>1, <1>2, <1>3, <1>7 DEF Ahead

LEMMA DueIsAheadStep ==
  ASSUME TypeOK, TypeOK', DueIsAhead, Roomy => Owed, [Next]_vars
  PROVE  DueIsAhead'
<1> USE CatalogAssumption
<1>1. ASSUME NEW i \in Items, NEW hide \in BOOLEAN, Edit(i, hide)
      PROVE  DueIsAhead'
  <2>1. /\ listed' = listed \cup {i}
        /\ hidden' = IF hide THEN hidden \cup {i} ELSE hidden \ {i}
        /\ modified' = [modified EXCEPT ![i] = now - Lag]
        /\ due' = IF hide \/ at = "changes" THEN due \ {i} ELSE due
        /\ UNCHANGED <<now, at, offset, out, lastPoll>>
    BY <1>1 DEF Edit, call
  <2>2. \A u \in due' : u \in due /\ (u \in hidden' => u \in hidden)
    BY <2>1
  <2>3. at = "changes" /\ Roomy => modified'[i] >= Since
    BY <2>1 DEF Roomy, Since, TypeOK
  <2>4. (at = "changes" => Roomy) => Matching \subseteq Matching'
    BY <2>1, <2>3 DEF Matching, Since, TypeOK
  <2> QED
    BY <2>1, <2>2, <2>4, GrowthKeepsAhead
<1>2. ASSUME NEW d \in Items, Delete(d)
      PROVE  DueIsAhead'
  BY <1>2, DeleteKeepsAhead
<1>3. CASE Poll
  <2>1. at' = "changes" /\ offset' = 0 /\ due' = pending /\ UNCHANGED <<shop, pending, lastPoll>>
    BY <1>3 DEF Poll, Call, CallAt
  <2>2. Roomy => due' \subseteq Matching'
    BY <1>3, <2>1 DEF Poll, Owed, Matching, Since, shop, TypeOK
  <2>3. CASE Roomy
    BY <2>1, <2>2, <2>3, BeginsAhead
  <2>4. CASE ~Roomy
    BY <2>1, <2>4 DEF DueIsAhead
  <2> QED
    BY <2>3, <2>4
<1>4. CASE ChangesEnd
  <2>1. CASE at' = "wait"
    BY <2>1 DEF DueIsAhead
  <2>2. CASE at' # "wait"
    <3>1. at' = "list" /\ offset' = 0 /\ due' = listed \ hidden /\ UNCHANGED shop
      BY <1>4, <2>2 DEF ChangesEnd, Return, Call, CallAt
    <3>2. due' \subseteq Matching' /\ due' \cap hidden' = {}
      BY <3>1 DEF Matching, shop
    <3> QED
      BY <3>1, <3>2, BeginsAhead
  <2> QED
    BY <2>1, <2>2
<1>5. CASE ListEnd \/ CallFails
  BY <1>5 DEF ListEnd, CallFails, Return, CallAt, DueIsAhead
<1>6. CASE NextPage
  BY <1>6, NextPageKeepsAhead
<1>7. CASE UNCHANGED <<at, offset, out, shop, lastPoll, due>>
  <2>1. Matching' = Matching
    BY <1>7 DEF Matching, Since, shop
  <2> QED
    BY <1>7, <2>1, GrowthKeepsAhead DEF shop
<1>8. CASE UNCHANGED vars
  BY <1>7, <1>8 DEF vars, call
<1> QED
  BY <1>1, <1>2, <1>3, <1>4, <1>5, <1>6, <1>7, <1>8
     DEF Next, Answer, Tick, Throttled, call

-----------------------------------------------------------------------------
(* A call that reaches the last page has all that was due *)
LEMMA NothingLeftOut ==
  ASSUME TypeOK, DueIsAhead, at # "wait", at = "changes" => Roomy, LastPage
  PROVE  due \subseteq Collected
<1> SUFFICES ASSUME NEW u \in due, u \notin out
             PROVE  u \in Collected
  BY DEF Collected
<1>1. Ahead(u)
  BY DEF DueIsAhead
<1>2. /\ Matching \in SUBSET Items /\ offset \in Nat
      /\ \A i : Rank(i) = Cardinality(Below(Matching, i))
  BY RankType DEF TypeOK
<1>3. Rank(u) < offset + PageLimit
  BY <1>1, <1>2, ShortPageIsLast DEF Ahead, LastPage, Page
<1> QED
  BY <1>1, <1>3 DEF Ahead, Collected, Page

-----------------------------------------------------------------------------
(* What is owed stays within reach of the overlap *)
LEMMA OwedStep ==
  ASSUME TypeOK, StillInTime, DueIsAhead, Roomy, Owed, [Next]_vars
  PROVE  Owed'
<1> USE CatalogAssumption
<1>1. ASSUME NEW i \in Items, NEW hide \in BOOLEAN, Edit(i, hide)
      PROVE  Owed'
  <2>1. /\ modified' = [modified EXCEPT ![i] = now - Lag]
        /\ pending' = pending \cup {i}
        /\ due' = IF hide \/ at = "changes" THEN due \ {i} ELSE due
        /\ UNCHANGED <<now, at, begun, lastPoll>>
    BY <1>1 DEF Edit, call
  <2>2. /\ modified'[i] >= now - Lag /\ now >= begun /\ now >= lastPoll
        /\ \A j \in pending : j # i => modified'[j] = modified[j]
    BY <2>1 DEF TypeOK
  <2>3. Lag <= Overlap
    BY DEF Roomy
  <2> QED
    BY <2>1, <2>2, <2>3 DEF Owed, AfterBegun, Since, TypeOK
<1>2. ASSUME NEW d \in Items, Delete(d)
      PROVE  Owed'
  BY <1>2 DEF Delete, call, Owed, AfterBegun, Since, TypeOK
<1>3. CASE Poll
  BY <1>3 DEF Poll, Call, CallAt, shop, Owed, AfterBegun, Since, TypeOK
<1>4. CASE ChangesEnd
  <2>1. /\ lastPoll' = now /\ pending' = pending \ due /\ UNCHANGED <<now, shop>>
        /\ at' \in {"wait", "list"}
    BY <1>4, NothingLeftOut DEF ChangesEnd, Return, Call, CallAt, Asking
  <2>2. \A i \in pending' : modified'[i] >= begun - Lag
    BY <1>4, <2>1 DEF ChangesEnd, Owed, AfterBegun, shop
  <2>3. now <= begun + Slowest
    BY <1>4 DEF ChangesEnd, StillInTime
  <2>4. \A i \in pending' : modified'[i] \in Int
    BY <2>1 DEF TypeOK, shop
  <2>5. \A i \in pending' : modified'[i] >= now - Overlap
    BY <2>2, <2>3, <2>4 DEF Roomy, TypeOK
  <2> QED
    BY <2>1, <2>5 DEF Owed, Since
<1>5. CASE at = "boot" /\ (ListEnd \/ CallFails)
  <2>1. /\ lastPoll' = now /\ at' = "wait" /\ UNCHANGED <<now, shop, pending>>
    BY <1>5 DEF ListEnd, CallFails, Return, CallAt, AfterList
  <2>2. now <= begun + Slowest
    BY <1>5 DEF StillInTime
  <2>3. \A i \in pending : modified[i] >= begun - Lag /\ modified[i] \in Int
    BY <1>5 DEF Owed, AfterBegun, TypeOK
  <2>4. \A i \in pending : modified[i] >= now - Overlap
    BY <2>2, <2>3 DEF Roomy, TypeOK
  <2> QED
    BY <2>1, <2>4 DEF Owed, Since, shop
<1>6. CASE at # "boot" /\ (ListEnd \/ CallFails)
  BY <1>6 DEF ListEnd, CallFails, Return, CallAt, AfterList, shop, Owed, Since, TypeOK
<1>7. CASE UNCHANGED <<at, begun, lastPoll, shop, pending, due>>
  BY <1>7 DEF shop, Owed, AfterBegun, Since
<1>8. CASE UNCHANGED vars
  BY <1>7, <1>8 DEF vars, call
<1> QED
  BY <1>1, <1>2, <1>3, <1>4, <1>5, <1>6, <1>7, <1>8
     DEF Next, Answer, Tick, Throttled, NextPage, call

THEOREM Inductive == SafeSpec => []IInv
<1>1. Init => IInv
  <2> SUFFICES ASSUME Init
               PROVE  IInv
    OBVIOUS
  <2>1. TypeOK
    BY CatalogAssumption DEF Init, TypeOK
  <2>2. DueIsAhead
    BY <2>1, RankType DEF Init, DueIsAhead, Ahead, Matching
  <2> QED
    BY <2>1, <2>2, CatalogAssumption
       DEF Init, IInv, StillInTime, Owed
<1>2. IInv /\ [Next]_vars => IInv'
  <2> SUFFICES ASSUME IInv, [Next]_vars
               PROVE  IInv'
    OBVIOUS
  <2>1. TypeOK'
    BY TypeStep DEF IInv
  <2>2. StillInTime'
    BY InTimeStep DEF IInv
  <2>3. DueIsAhead'
    BY <2>1, DueIsAheadStep DEF IInv
  <2>4. Roomy => Owed'
    BY OwedStep DEF IInv
  <2> QED
    BY <2>1, <2>2, <2>3, <2>4 DEF IInv, Roomy
<1> QED
  BY <1>1, <1>2, PTL DEF SafeSpec

-----------------------------------------------------------------------------
(* The properties *)

(* The catalog's state is always of its type: a request is sent no more than *)
(* MaxAttempts times, and no call remembers an item that is not one.         *)
THEOREM TypeCorrect == SafeSpec => []TypeOK
<1>1. IInv => TypeOK
  BY DEF IInv
<1> QED
  BY <1>1, Inductive, PTL

(* No page is skipped: the catalog that replaces the cached one (clover.go:130, *)
(* poller.go:62) holds every item that was there while it was read.             *)
THEOREM FullCatalogHolds == SafeSpec => FullCatalog
<1>1. IInv /\ [Next]_vars => [cache' # cache => due \subseteq cache']_vars
  <2> SUFFICES ASSUME IInv, [Next]_vars, cache' # cache
               PROVE  due \subseteq cache'
    OBVIOUS
  <2>1. ListEnd
    BY DEF Next, Answer, Edit, Delete, Tick, Throttled, NextPage, Poll,
           ChangesEnd, CallFails, vars
  <2> QED
    BY <2>1, NothingLeftOut DEF ListEnd, IInv
<1> QED
  BY <1>1, Inductive, PTL DEF SafeSpec, FullCatalog

(* Every change is reported by the first successful poll that begins after *)
(* it (poller.go:48-55), given that no call takes longer than the overlap  *)
(* leaves room for.                                                        *)
THEOREM KeepsThePromise ==
  ASSUME Roomy
  PROVE  SafeSpec => ImplementsChangeFeed
<1> USE DEF Feed!vars
<1> DEFINE owed == IF at = "changes" THEN due ELSE {}
<1>1. Init => Feed!Init
  BY DEF Init, Feed!Init
<1>2. IInv /\ [Next]_vars => [Feed!Next]_(Feed!vars)
  <2> SUFFICES ASSUME IInv, [Next]_vars
               PROVE  [Feed!Next]_(Feed!vars)
    OBVIOUS
  <2> USE DEF IInv
  <2>1. ASSUME NEW i \in Items, NEW hide \in BOOLEAN, Edit(i, hide)
        PROVE  Feed!Edit(i)
    BY <2>1 DEF Edit, call, Feed!Edit
  <2>2. ASSUME NEW d \in Items, Delete(d)
        PROVE  Feed!Remove(d)
    <3>1. /\ d \in listed /\ listed' = listed \ {d} /\ at' = at
          /\ due' = due \ ({d} \cup Missed(d))
          /\ pending' = pending \ ({d} \cup IF at = "changes" THEN Missed(d) ELSE {})
      BY <2>2 DEF Delete, call
    <3>2. CASE at # "changes" \/ Missed(d) = {}
      BY <3>1, <3>2 DEF Feed!Remove
    <3>3. CASE at = "changes" /\ Missed(d) # {}
      <4>1. PICK u : u \in Missed(d)
        BY <3>3
      <4>2. Missed(d) = {u} /\ u \in due
        BY <3>3, <4>1, OneMissed DEF Missed
      <4>3. pending' = pending \ {d, u} /\ owed' = owed \ {d, u}
        BY <3>1, <3>3, <4>2
      <4> QED
        BY <3>1, <3>3, <4>2, <4>3 DEF Feed!Remove
    <3> QED
      BY <3>2, <3>3
  <2>3. CASE Poll
    BY <2>3 DEF Poll, Call, CallAt, shop, Feed!Next, Feed!Begin
  <2>4. CASE ChangesEnd
    <3>1. /\ pending' = pending \ due /\ at' # "changes" /\ UNCHANGED listed
      BY <2>4, NothingLeftOut DEF ChangesEnd, Return, Call, CallAt, Asking, shop
    <3> QED
      BY <2>4, <3>1 DEF ChangesEnd, Feed!Next, Feed!Report
  <2>5. CASE ListEnd
    BY <2>5 DEF ListEnd, Return, CallAt, shop
  <2>6. CASE CallFails
    BY <2>6 DEF CallFails, Return, CallAt, shop, Feed!Next, Feed!Fail
  <2>7. CASE UNCHANGED <<at, listed, pending, due>>
    BY <2>7
  <2>8. CASE UNCHANGED vars
    BY <2>7, <2>8 DEF vars, call, shop
  <2> QED
    BY <2>1, <2>2, <2>3, <2>4, <2>5, <2>6, <2>7, <2>8
       DEF Next, Answer, Tick, Throttled, NextPage, call, shop, Feed!Next
<1> QED
  BY <1>1, <1>2, Inductive, PTL DEF SafeSpec, ImplementsChangeFeed, Feed!Spec
=============================================================================
