------------------------- MODULE SampleOutputsProofs -------------------------
(***************************************************************************)
(* No sorter touches a deleted output, no clone is deleted twice, and no   *)
(* output is lost or in two places while the engine runs, for any number   *)
(* of outputs, clones and sorters.                                         *)
(***************************************************************************)
EXTENDS SampleOutputs, FiniteSetTheorems, TLAPS

\* The steps are first-order logic; those with arithmetic, or with a function
\* updated at several places, cite SMT.
USE Zenon

-----------------------------------------------------------------------------
(* Counting requests.                                                      *)

\* Two sets that a function pairs off have the same cardinality.
LEMMA Paired ==
    ASSUME NEW S, NEW T, IsFiniteSet(S), NEW f \in [S -> T],
           \A x, y \in S : f[x] = f[y] => x = y,
           \A z \in T : \E x \in S : f[x] = z
    PROVE  Cardinality(T) = Cardinality(S)
<1>1. f \in Bijection(S, T)
  BY DEF Bijection, Injection, Surjection, IsInjective
<1> QED BY <1>1, FS_Bijection DEF ExistsBijection

\* A set of positions of a list is finite and no larger than the list.
LEMMA Positions ==
    ASSUME NEW n \in Nat, NEW P \in SUBSET (1..n)
    PROVE  /\ IsFiniteSet(P) /\ Cardinality(P) \in Nat
           /\ Cardinality(P) <= n /\ Cardinality(1..n) = n
<1>1. IsFiniteSet(1..n) /\ Cardinality(1..n) = n
  BY SMT, FS_Interval
<1> QED BY <1>1, FS_Subset, FS_CardinalityType

\* The ranks of the positions in P are 1..Cardinality(P).
LEMMA Ranked ==
    ASSUME NEW n \in Nat, NEW P \in SUBSET (1..n)
    PROVE  /\ \A i \in P : Rank(i, P) \in 1..Cardinality(P)
           /\ \A i, j \in P : Rank(i, P) = Rank(j, P) => i = j
           /\ \A k \in 1..Cardinality(P) : \E i \in P : Rank(i, P) = k
<1> DEFINE Below(i) == {j \in P : j <= i}
           f == [i \in P |-> Rank(i, P)]
<1>1. IsFiniteSet(P) /\ Cardinality(P) \in Nat
  BY Positions
<1>2. ASSUME NEW i \in P
      PROVE  /\ IsFiniteSet(Below(i)) /\ Cardinality(Below(i)) \in Nat
             /\ Cardinality(Below(i)) <= Cardinality(P)
  BY <1>1, FS_Subset, FS_CardinalityType
<1>3. ASSUME NEW i \in P PROVE Cardinality(Below(i)) # 0
  <2>1. i \in Below(i)
    BY SMT
  <2> QED BY <2>1, <1>2, FS_EmptySet
<1>4. \A i \in P : Rank(i, P) = Cardinality(Below(i))
  BY DEF Rank
<1>5. \A i \in P : Rank(i, P) \in 1..Cardinality(P)
  <2> HIDE DEF Below
  <2> QED BY SMT, <1>1, <1>2, <1>3, <1>4
<1>6. ASSUME NEW i \in P, NEW j \in P, i < j PROVE Rank(i, P) # Rank(j, P)
  <2>1. Below(i) \subseteq Below(j)
    <3>1. i \in Nat /\ j \in Nat /\ \A k \in P : k \in Nat
      BY SMT
    <3>2. \A k \in P : k <= i => k <= j
      BY SMT, <3>1, <1>6
    <3> QED BY <3>2
  <2>2. j \in Below(j) /\ j \notin Below(i)
    BY SMT, <1>6
  <2>3. Cardinality(Below(i)) # Cardinality(Below(j))
    <3> HIDE DEF Below
    <3> QED BY <2>1, <2>2, <1>2, FS_Subset
  <2> QED BY <2>3, <1>4
<1>7. \A i, j \in P : i < j \/ j < i \/ i = j
  BY SMT
<1>8. \A i, j \in P : Rank(i, P) = Rank(j, P) => i = j
  BY <1>6, <1>7
<1>9. f \in Injection(P, 1..Cardinality(P))
  BY <1>5, <1>8 DEF Injection, IsInjective
<1>10. IsFiniteSet(1..Cardinality(P)) /\ Cardinality(1..Cardinality(P)) = Cardinality(P)
  BY SMT, <1>1, FS_Interval
<1>11. f \in Surjection(P, 1..Cardinality(P))
  BY <1>9, <1>10, FS_Injection
<1>12. \A k \in 1..Cardinality(P) : \E i \in P : f[i] = k
  BY <1>11 DEF Surjection
<1> QED BY <1>5, <1>8, <1>12

\* What Selected picks from a list of requests: the elements at the positions
\* in P, each once.
LEMMA SelectedIs ==
    ASSUME NEW S, NEW r \in Seq(S), NEW P \in SUBSET (1..Len(r))
    PROVE  /\ Selected(r, P) \in Seq(S)
           /\ Len(Selected(r, P)) = Cardinality(P)
           /\ \A i \in P : Selected(r, P)[Rank(i, P)] = r[i]
<1> DEFINE n == Cardinality(P)
           At(k) == CHOOSE i \in P : Rank(i, P) = k
<1>1. Len(r) \in Nat /\ \A i \in P : r[i] \in S
  BY SMT
<1>2. n \in Nat
  BY <1>1, Positions
<1>3. ASSUME NEW k \in 1..n PROVE At(k) \in P /\ Rank(At(k), P) = k
  BY <1>1, Ranked
<1>4. Selected(r, P) = [k \in 1..n |-> r[At(k)]]
  BY DEF Selected
<1>5. \A k \in 1..n : r[At(k)] \in S
  BY <1>1, <1>3
<1> HIDE DEF n, At
<1>6. Selected(r, P) \in Seq(S) /\ Len(Selected(r, P)) = n
  BY SMT, <1>2, <1>4, <1>5
<1>7. ASSUME NEW i \in P PROVE Selected(r, P)[Rank(i, P)] = r[i]
  <2>1. Rank(i, P) \in 1..n
    BY <1>1, Ranked DEF n
  <2>2. At(Rank(i, P)) = i
    <3>1. At(Rank(i, P)) \in P /\ Rank(At(Rank(i, P)), P) = Rank(i, P)
      BY <2>1, <1>3
    <3> QED BY <3>1, <1>1, Ranked
  <2> QED BY <2>1, <2>2, <1>4
<1> QED BY <1>6, <1>7 DEF n

\* The positions of the requests for an output.
Wanted(o, r) == {i \in 1..Len(r) : r[i].out = o}

\* The requests of an output in a list are countable.
LEMMA RequestedType ==
    ASSUME NEW r \in Seq(Request), NEW o
    PROVE  /\ IsFiniteSet(Wanted(o, r)) /\ Requested(o, r) = Cardinality(Wanted(o, r))
           /\ Requested(o, r) \in Nat
<1>1. Len(r) \in Nat /\ Wanted(o, r) \in SUBSET (1..Len(r))
  BY SMT DEF Wanted
<1> QED BY <1>1, Positions DEF Requested, Wanted

\* addConnectRequest() appends one request of the output it is called for.
LEMMA RequestedAppend ==
    ASSUME NEW r \in Seq(Request), NEW q \in Request, NEW o
    PROVE  /\ Append(r, q) \in Seq(Request)
           /\ Requested(o, Append(r, q)) = Requested(o, r) + IF q.out = o THEN 1 ELSE 0
<1> DEFINE n == Len(r) + 1
           t == Append(r, q)
<1>1. /\ t \in Seq(Request) /\ Len(t) = n /\ t[n] = q /\ n \notin 1..Len(r)
      /\ 1..n = (1..Len(r)) \cup {n}
      /\ \A i \in 1..Len(r) : t[i] = r[i]
  BY SMT
<1> HIDE DEF n, t
<1>2. Wanted(o, t) = Wanted(o, r) \cup (IF q.out = o THEN {n} ELSE {})
  BY <1>1 DEF Wanted
<1>3. n \notin Wanted(o, r)
  BY <1>1 DEF Wanted
<1>4. /\ IsFiniteSet(Wanted(o, r)) /\ Requested(o, r) = Cardinality(Wanted(o, r))
      /\ Requested(o, r) \in Nat /\ Requested(o, t) = Cardinality(Wanted(o, t))
  BY <1>1, RequestedType
<1>5. CASE q.out = o
  <2>1. Wanted(o, t) = Wanted(o, r) \cup {n}
    BY <1>2, <1>5
  <2>2. Cardinality(Wanted(o, r) \cup {n}) = Cardinality(Wanted(o, r)) + 1
    BY <1>3, <1>4, FS_AddElement
  <2>3. Requested(o, t) = Requested(o, r) + 1
    BY <2>1, <2>2, <1>4
  <2> QED BY <2>3, <1>1, <1>5 DEF t
<1>6. CASE q.out # o
  <2>1. Requested(o, t) = Requested(o, r)
    BY <1>2, <1>4, <1>6
  <2>2. Requested(o, r) = Requested(o, r) + 0
    BY SMT, <1>4
  <2> QED BY <2>1, <2>2, <1>1, <1>6 DEF t
<1> QED BY <1>5, <1>6

\* run() erases the first of the requests it has taken: one less of its output.
LEMMA RequestedTail ==
    ASSUME NEW r \in Seq(Request), r # <<>>, NEW o
    PROVE  /\ Tail(r) \in Seq(Request) /\ Head(r) \in Request
           /\ Len(r) \in Nat \ {0} /\ Len(Tail(r)) = Len(r) - 1
           /\ Requested(o, Tail(r)) = Requested(o, r) - IF Head(r).out = o THEN 1 ELSE 0
<1> DEFINE t == Tail(r)
           S == Wanted(o, r) \ {1}
           f == [i \in S |-> i - 1]
<1>1. /\ t \in Seq(Request) /\ Head(r) = r[1] /\ Head(r) \in Request
      /\ Len(r) \in Nat \ {0} /\ Len(t) = Len(r) - 1
      /\ \A i \in 1..Len(t) : t[i] = r[i + 1]
  BY SMT
<1> HIDE DEF t
<1>2. \A i \in S : i - 1 \in 1..Len(t) /\ t[i - 1] = r[i] /\ r[i].out = o
  <2>1. \A i \in S : i \in 1..Len(r) /\ i # 1 /\ r[i].out = o
    BY DEF Wanted
  <2> HIDE DEF S
  <2> QED BY SMT, <2>1, <1>1
<1>3. f \in [S -> Wanted(o, t)]
  BY <1>2 DEF Wanted
<1>4. \A x, y \in S : f[x] = f[y] => x = y
  <2>1. \A x, y \in S : x \in Int /\ y \in Int
    BY SMT DEF Wanted
  <2>2. \A x, y \in Int : x - 1 = y - 1 => x = y
    BY SMT
  <2> QED BY <2>1, <2>2
<1>5. ASSUME NEW z \in Wanted(o, t) PROVE \E x \in S : f[x] = z
  <2>1. z \in 1..Len(t) /\ t[z] = r[z + 1] /\ r[z + 1].out = o
    BY <1>1 DEF Wanted
  <2>2. z + 1 \in 1..Len(r) /\ z + 1 # 1 /\ (z + 1) - 1 = z
    BY SMT, <2>1, <1>1
  <2>3. z + 1 \in S
    BY <2>1, <2>2 DEF Wanted
  <2> QED BY <2>2, <2>3
<1>6. /\ IsFiniteSet(Wanted(o, r)) /\ Requested(o, r) = Cardinality(Wanted(o, r))
      /\ Requested(o, r) \in Nat /\ Requested(o, t) = Cardinality(Wanted(o, t))
  BY <1>1, RequestedType
<1>7. /\ IsFiniteSet(S)
      /\ Cardinality(S) = IF 1 \in Wanted(o, r) THEN Cardinality(Wanted(o, r)) - 1
                                                ELSE Cardinality(Wanted(o, r))
  BY <1>6, FS_RemoveElement
<1> HIDE DEF S
<1>8. Cardinality(Wanted(o, t)) = Cardinality(S)
  <2> HIDE DEF f
  <2> QED BY <1>3, <1>4, <1>5, <1>7, Paired
<1>9. 1 \in Wanted(o, r) <=> Head(r).out = o
  <2>1. 1 \in 1..Len(r)
    BY SMT, <1>1
  <2> QED BY <2>1, <1>1 DEF Wanted
<1>10. Requested(o, r) = Requested(o, r) - 0
  BY SMT, <1>6
<1>11. Requested(o, t) = Requested(o, r) - IF Head(r).out = o THEN 1 ELSE 0
  BY <1>6, <1>7, <1>8, <1>9, <1>10
<1> QED BY <1>1, <1>11 DEF t

\* What is selected from a list has the requests at the selected positions.
LEMMA RequestedSelected ==
    ASSUME NEW r \in Seq(Request), NEW P \in SUBSET (1..Len(r)), NEW o
    PROVE  Requested(o, Selected(r, P)) = Cardinality(Wanted(o, r) \cap P)
<1> DEFINE t == Selected(r, P)
           S == Wanted(o, r) \cap P
           f == [i \in S |-> Rank(i, P)]
<1>1. /\ t \in Seq(Request) /\ Len(t) = Cardinality(P)
      /\ \A i \in P : t[Rank(i, P)] = r[i]
  BY SelectedIs
<1>2. Len(r) \in Nat
  BY SMT
<1> HIDE DEF t
<1>3. f \in [S -> Wanted(o, t)]
  <2>1. \A i \in P : Rank(i, P) \in 1..Len(t)
    BY <1>1, <1>2, Ranked
  <2> QED BY <2>1, <1>1 DEF Wanted
<1>4. \A x, y \in S : f[x] = f[y] => x = y
  BY <1>2, Ranked
<1>5. ASSUME NEW z \in Wanted(o, t) PROVE \E x \in S : f[x] = z
  <2>1. z \in 1..Len(t) /\ t[z].out = o
    BY DEF Wanted
  <2>2. PICK i \in P : Rank(i, P) = z
    BY <2>1, <1>1, <1>2, Ranked
  <2>3. i \in S
    BY <2>1, <2>2, <1>1 DEF Wanted
  <2> QED BY <2>2, <2>3
<1>6. /\ IsFiniteSet(Wanted(o, r)) /\ Requested(o, t) = Cardinality(Wanted(o, t))
  BY <1>1, RequestedType
<1>7. IsFiniteSet(S)
  BY <1>6, FS_Subset
<1> HIDE DEF S, f
<1>8. Cardinality(Wanted(o, t)) = Cardinality(S)
  BY <1>3, <1>4, <1>5, <1>7, Paired
<1> QED BY <1>6, <1>8 DEF S, t

\* run() parts the list in due and postponed requests: none is lost or doubled.
LEMMA RequestedSplit ==
    ASSUME NEW r \in Seq(Request), NEW P \in SUBSET (1..Len(r)), NEW o
    PROVE  Requested(o, Selected(r, P)) + Requested(o, Selected(r, (1..Len(r)) \ P))
             = Requested(o, r)
<1> DEFINE S == Wanted(o, r) \cap P
           T == Wanted(o, r) \cap ((1..Len(r)) \ P)
<1>1. /\ IsFiniteSet(Wanted(o, r)) /\ Requested(o, r) = Cardinality(Wanted(o, r))
  BY RequestedType
<1>2. IsFiniteSet(S) /\ IsFiniteSet(T)
  BY <1>1, FS_Subset
<1>3. S \cup T = Wanted(o, r) /\ S \cap T = {}
  BY DEF Wanted
<1>4. /\ Requested(o, Selected(r, P)) = Cardinality(S)
      /\ Requested(o, Selected(r, (1..Len(r)) \ P)) = Cardinality(T)
  BY RequestedSelected
<1> HIDE DEF S, T
<1>5. Cardinality(S \cup T) = Cardinality(S) + Cardinality(T) - Cardinality(S \cap T)
  BY <1>2, FS_Union
<1>6. Cardinality(S \cap T) = 0 /\ Cardinality(S) \in Nat /\ Cardinality(T) \in Nat
  BY <1>2, <1>3, FS_EmptySet, FS_CardinalityType
<1>7. Cardinality(S) + Cardinality(T) - 0 = Cardinality(S) + Cardinality(T)
  BY SMT, <1>6
<1> QED BY <1>1, <1>3, <1>4, <1>5, <1>6, <1>7

\* When the time of a request comes, the requests of each output are the same.
LEMMA RequestedDue ==
    ASSUME NEW r \in Seq(Request), NEW i \in 1..Len(r), NEW o
    PROVE  /\ [r EXCEPT ![i].due = TRUE] \in Seq(Request)
           /\ Requested(o, [r EXCEPT ![i].due = TRUE]) = Requested(o, r)
<1> DEFINE t == [r EXCEPT ![i].due = TRUE]
<1>1. Len(r) \in Nat /\ r \in [1..Len(r) -> Request]
  BY SMT
<1>2. ASSUME NEW j \in 1..Len(r) PROVE t[j] \in Request /\ t[j].out = r[j].out
  BY <1>1 DEF Request
<1>3. DOMAIN t = 1..Len(r) /\ t = [j \in 1..Len(r) |-> t[j]]
  BY <1>1
<1> HIDE DEF t
<1>4. t \in Seq(Request) /\ Len(t) = Len(r)
  BY SMT, <1>1, <1>2, <1>3
<1>5. Requested(o, t) = Requested(o, r)
  BY <1>2, <1>4 DEF Requested
<1> QED BY <1>4, <1>5 DEF t

\* The empty list has no request: Init, and the lists after clear().
LEMMA RequestedNone == ASSUME NEW o PROVE Requested(o, <<>>) = 0
<1>1. {i \in 1..Len(<<>>) : <<>>[i].out = o} = {}
  BY SMT
<1> QED BY <1>1, FS_EmptySet DEF Requested

\* The sum of what is pending, receiving and leaving, as one of them moves on.
LEMMA Zero == \A a \in Nat : a - 0 = a /\ a + 0 = a
BY SMT

\* connect(): a pending output becomes a client of its sorter.
LEMMA Connects == \A a, b, c \in Nat : (a - 1) + (b + 1) + c = a + b + c
BY SMT

\* removeSampleClient(): a client becomes an output that its sorter disconnects.
LEMMA Leaves == \A a, b, c \in Nat : a + (b - 1) + (c + 1) = a + b + c
BY SMT

\* disconnect(): a disconnected output is requested again.
LEMMA Returns == \A a, b, c \in Nat : (a + 1) + b + (c - 1) = a + b + c
BY SMT

\* connectOutputs(): an output is requested for the first time.
LEMMA Appears == \A a, b, c \in Nat : (a + 1) + b + c = (a + b + c) + 1
BY SMT

\* An output that is in one place has one request, and no client while it has one.
LEMMA OnlyOne ==
    \A a, b, c \in Nat : a + b + c <= 1 => a <= 1 /\ (a - 1 \in Nat => b = 0)
BY SMT

\* Two sets of sorters that differ in one sorter at most.
DifferAt(s, A, B) == \A r : r # s => (r \in B <=> r \in A)

\* A sorter that a step moves enters a set, leaves it, or changes nothing in it.
LEMMA SameBut ==
    ASSUME NEW s, NEW A, NEW B, DifferAt(s, A, B)
    PROVE  /\ (s \in B <=> s \in A) => B = A
           /\ s \in B => B = A \union {s}
           /\ s \notin B => B = A \ {s}
BY SMT DEF DifferAt

-----------------------------------------------------------------------------
(* The clones.                                                             *)

\* The types the argument needs: the lists of requests play no part in it.
Types ==
    /\ disconnectRequests \subseteq Clone /\ curdis \subseteq Clone
    /\ cpc \in [Output -> {"none", "connect", "offer", "insert", "add", "jammed"}]
    /\ newout \in [Output -> Object \union {None}]
    /\ \A o \in Output : cpc[o] \in {"insert", "add"} => newout[o] # None
    /\ clients \subseteq Object
    /\ original \in [Clone -> Output \union {None}]
    /\ spc \in [Sorter -> {"idle", "loop", "remove", "erase", "delete",
                           "reconnect", "done"}]
    /\ tmp \in [Sorter -> SUBSET Object]
    /\ cur \in [Sorter -> Object \union {None}]
    /\ epc \in {"connect", "run", "join", "closing", "config", "closed"}
    /\ held \in Output \union {None}

\* A sorter works on clones that are connected and receive its samples only;
\* the one it disconnects is no longer a client once it is erased.
SorterInv ==
    \A s \in Sorter :
        /\ spc[s] \in {"idle", "done"} => tmp[s] = {}
        /\ spc[s] \in {"idle", "done", "loop"} <=> cur[s] = None
        /\ spc[s] = "reconnect" => cur[s] \in Output
        /\ \A c \in Clone : c \in tmp[s] =>
              c \in outputSet /\ c # cur[s] /\ Source[original[c]] = s
        /\ \A c \in Clone : c = cur[s] =>
              /\ spc[s] \in {"remove", "erase"} => c \in outputSet
              /\ spc[s] \in {"erase", "delete"} => c \notin clients
              /\ Source[original[c]] = s

\* A clone that is being connected is not yet a client, and no other
\* connection thread has it.
ChannelInv ==
    /\ \A o \in Output : \A c \in Clone :
          Running /\ cpc[o] = "add" /\ newout[o] = c =>
             /\ c \in outputSet /\ c \notin clients
             /\ \A s \in Sorter : c \notin tmp[s] /\ c # cur[s]
    /\ \A o, p \in Output : \A c \in Clone :
          /\ cpc[o] = "insert" /\ newout[o] = c
          /\ cpc[p] = "insert" \/ (Running /\ cpc[p] = "add")
          /\ newout[p] = c
          => o = p
    /\ \A o, p \in Output : \A c \in Clone :
          Running /\ cpc[o] = "add" /\ cpc[p] = "add" /\ newout[o] = c /\ newout[p] = c
          => o = p

\* While the engine runs the receiving clones are connected; it closes them
\* when the sorters have ended.
EngineInv ==
    /\ Running => \A c \in Clone : c \in clients => c \in outputSet
    /\ ~Running => \A s \in Sorter : spc[s] = "done"
    /\ epc = "closing" => todo \subseteq outputSet
    /\ epc = "config" => todo \subseteq Output
    /\ held # None => epc = "config"

OutputsInv == Types /\ SorterInv /\ ChannelInv /\ EngineInv /\ DeletedOnce

\* Facts about the constants, in the form in which the steps use them.
LEMMA Constants ==
    /\ \A c \in Clone : c \notin Output /\ c # None /\ c \in Object
    /\ \A o \in Output : o \notin Clone /\ o # None /\ o \in Object
BY OutputsAreObjects, NoneIsNoObject DEF Object

\* The invariant holds when the engine is about to connect its outputs.
LEMMA OutputsInit == Init => OutputsInv
<1> SUFFICES ASSUME Init PROVE OutputsInv
  OBVIOUS
<1>1. Types
  BY DEF Init, Types
<1>2. SorterInv /\ ChannelInv /\ EngineInv
  BY Constants DEF Init, SorterInv, ChannelInv, EngineInv, Running
<1>3. DeletedOnce
  BY DEF Init, DeletedOnce, Owned, Connected, Inserting, Disconnecting
<1> QED
  BY <1>1, <1>2, <1>3 DEF OutputsInv

\* The invariant implies that the sorters use live outputs only.
LEMMA InvReceiveAlive == OutputsInv => ReceiveAlive
<1> SUFFICES ASSUME OutputsInv, NEW s \in Sorter
             PROVE  tmp[s] \subseteq Live /\ cur[s] \in Live \union {None}
  BY DEF ReceiveAlive
<1>1. spc[s] # "done" => Running
  BY DEF OutputsInv, EngineInv
<1>2. ASSUME NEW c \in Clone, c \in outputSet, Running PROVE c \in alive
  BY <1>2 DEF OutputsInv, DeletedOnce, Owned, Connected, Running
<1>3. tmp[s] \subseteq Live
  BY <1>1, <1>2 DEF OutputsInv, Types, SorterInv, Live, Object
<1>4. cur[s] \in Live \union {None}
  <2>1. cur[s] \in Output \union Clone \union {None}
    BY DEF OutputsInv, Types, Object
  <2>2. ASSUME cur[s] \in Clone PROVE cur[s] \in alive
    <3>1. spc[s] \in {"remove", "erase", "delete"}
      BY SMT, <2>2, Constants DEF OutputsInv, Types, SorterInv
    <3>2. CASE spc[s] = "delete"
      BY <2>2, <3>2 DEF OutputsInv, DeletedOnce, Owned, Disconnecting
    <3>3. CASE spc[s] \in {"remove", "erase"}
      BY <2>2, <3>3, <1>1, <1>2 DEF OutputsInv, SorterInv
    <3> QED BY <3>1, <3>2, <3>3
  <2> QED BY <2>1, <2>2 DEF Live
<1> QED BY <1>3, <1>4

-----------------------------------------------------------------------------
\* What the invariant speaks about.
pointers == <<disconnectRequests, curdis, cpc, newout, original, outputSet, clients,
              spc, tmp, cur, epc, todo, held>>

\* A step that leaves all of that alone preserves the invariant.
LEMMA Frame == OutputsInv /\ UNCHANGED pointers => OutputsInv'
<1> SUFFICES ASSUME OutputsInv, UNCHANGED pointers PROVE OutputsInv'
  OBVIOUS
<1>1. Types' /\ SorterInv' /\ ChannelInv' /\ EngineInv'
  BY SMT DEF OutputsInv, pointers, Types, SorterInv, ChannelInv, EngineInv, Running
<1>2. DeletedOnce'
  BY SMT DEF OutputsInv, pointers, DeletedOnce, Owned, Connected, Inserting,
     Disconnecting, alive
<1> QED BY <1>1, <1>2 DEF OutputsInv

\* So does a step that starts a connection thread, or ends one that has not
\* connected its output.
LEMMA ChannelFrame ==
    ASSUME OutputsInv,
           cpc' \in [Output -> {"none", "connect", "offer", "insert", "add", "jammed"}],
           \A o \in Output : cpc'[o] \in {"insert", "add"} => cpc'[o] = cpc[o],
           UNCHANGED <<disconnectRequests, curdis, newout, original, outputSet, clients,
                       spc, tmp, cur, epc, todo, held>>
    PROVE  OutputsInv'
<1>1. Types' /\ SorterInv' /\ EngineInv'
  BY SMT DEF OutputsInv, Types, SorterInv, EngineInv, Running
<1>2. ChannelInv'
  BY SMT DEF OutputsInv, ChannelInv, Running
<1>3. DeletedOnce'
  <2>1. Inserting' \subseteq Inserting
    BY DEF Inserting
  <2>2. UNCHANGED <<Connected, Disconnecting, alive>>
    BY DEF Connected, Disconnecting, alive
  <2> QED BY <2>1, <2>2 DEF OutputsInv, DeletedOnce, Owned
<1> QED BY <1>1, <1>2, <1>3 DEF OutputsInv

\* A step of the request thread preserves the invariant: it deletes clones
\* that nobody else holds.
LEMMA RunNext == OutputsInv /\ run => OutputsInv'
<1> SUFFICES ASSUME OutputsInv, run PROVE OutputsInv'
  OBVIOUS
<1> USE DEF requests, requester, channels, sorters, engine
<1>1. CASE RequestSleep \/ RequestAwake
  BY <1>1, Frame DEF RequestSleep, RequestAwake, pointers
<1>2. CASE RequestTop
  <2>1. disconnectRequests' \union curdis' \subseteq disconnectRequests \union curdis
    BY <1>2 DEF RequestTop
  <2>2. disconnectRequests' \intersect curdis' = {}
    BY <1>2 DEF RequestTop, OutputsInv, DeletedOnce, Owned
  <2>3. UNCHANGED <<cpc, newout, original, outputSet, clients, spc, tmp, cur, epc,
                    todo, held>>
    BY <1>2 DEF RequestTop
  <2>4. Types' /\ SorterInv' /\ ChannelInv' /\ EngineInv'
    BY SMT, <2>1, <2>3 DEF OutputsInv, Types, SorterInv, ChannelInv, EngineInv, Running
  <2>5. DeletedOnce'
    BY SMT, <2>1, <2>2, <2>3
    DEF OutputsInv, DeletedOnce, Owned, Connected, Inserting, Disconnecting, alive
  <2> QED BY <2>4, <2>5 DEF OutputsInv
<1>3. CASE RequestRefused \/ RequestConnection
  <2> DEFINE o == Head(curreqs).out
  <2>1. UNCHANGED <<disconnectRequests, curdis, newout, original, outputSet, clients,
                    spc, tmp, cur, epc, todo, held>>
    BY <1>3 DEF RequestRefused, RequestConnection
  <2>2. \/ cpc' = cpc
        \/ cpc' = [cpc EXCEPT ![o] = "connect"]
        \/ cpc' = [cpc EXCEPT ![o] = IF Kind[o] = "mcrequest" THEN "jammed" ELSE @]
    BY <1>3 DEF RequestRefused, NotStarted, RequestConnection, requestConnection
  <2> HIDE DEF o
  <2>3. /\ cpc' \in [Output -> {"none", "connect", "offer", "insert", "add", "jammed"}]
        /\ \A p \in Output : cpc'[p] \in {"insert", "add"} => cpc'[p] = cpc[p]
    BY SMT, <2>2 DEF OutputsInv, Types
  <2> QED BY <2>1, <2>3, ChannelFrame
<1>4. CASE RequestDelete
  <2>1. PICK c \in curdis : /\ curdis' = curdis \ {c}
                            /\ original' = [k \in Clone |-> IF k \in {c} THEN None
                                                            ELSE original[k]]
    BY <1>4 DEF RequestDelete, Delete
  <2>2. UNCHANGED <<disconnectRequests, cpc, newout, outputSet, clients, spc, tmp,
                    cur, epc, todo, held>>
    BY <1>4 DEF RequestDelete
  <2>3. /\ c \in Clone /\ c \notin Connected /\ c \notin Inserting
        /\ c \notin Disconnecting /\ c \notin disconnectRequests
    BY <2>1 DEF OutputsInv, DeletedOnce, Owned, Types
  <2>4. \A k \in Clone : k # c => original'[k] = original[k]
    BY <2>1
  <2>5. Types'
    BY <2>1, <2>2 DEF OutputsInv, Types
  <2>6. \A s \in Sorter : c \notin tmp[s] /\ c # cur[s]
    <3>1. \A s \in Sorter : spc[s] # "done" => Running
      BY DEF OutputsInv, EngineInv
    <3>2. Running => c \notin outputSet
      BY <2>3 DEF Connected, Running
    <3>3. \A s \in Sorter : spc[s] # "delete" \/ c # cur[s]
      BY <2>3 DEF Disconnecting
    <3> QED BY SMT, <3>1, <3>2, <3>3, <2>3, Constants DEF OutputsInv, SorterInv, Types
  <2>7. SorterInv'
    BY SMT, <2>2, <2>4, <2>6 DEF OutputsInv, SorterInv
  <2>8. ChannelInv' /\ EngineInv'
    BY <2>2 DEF OutputsInv, ChannelInv, EngineInv, Running
  <2>9. DeletedOnce'
    <3>1. UNCHANGED <<Connected, Inserting, Disconnecting>>
      BY <2>2 DEF Connected, Inserting, Disconnecting
    <3>2. alive \ {c} \subseteq alive'
      BY <2>4 DEF alive
    <3> QED BY <2>1, <2>2, <2>3, <3>1, <3>2 DEF OutputsInv, DeletedOnce, Owned
  <2> QED BY <2>5, <2>7, <2>8, <2>9 DEF OutputsInv
<1> QED BY <1>1, <1>2, <1>3, <1>4 DEF run

\* A clone at a new address: nobody has it yet.
LEMMA ClonedNext ==
    ASSUME OutputsInv, NEW o \in Output, connected(o), cpc[o] # "insert",
           UNCHANGED <<disconnectRequests, curdis, outputSet, clients, spc, tmp, cur,
                       epc, todo, held>>
    PROVE  OutputsInv'
<1>1. PICK c \in Clone \ alive : /\ original' = [original EXCEPT ![c] = o]
                                 /\ newout' = [newout EXCEPT ![o] = c]
                                 /\ cpc' = [cpc EXCEPT ![o] = "insert"]
  BY DEF connected
<1>2. Types'
  BY <1>1, Constants DEF OutputsInv, Types
<1>3. /\ c \notin Connected /\ c \notin Inserting /\ c \notin Disconnecting
      /\ c \notin disconnectRequests /\ c \notin curdis
  BY <1>1 DEF OutputsInv, DeletedOnce, Owned
<1>4. Running => c \notin outputSet
  BY <1>1, <1>3 DEF Connected, Running
<1>5. \A s \in Sorter : c \notin tmp[s] /\ c # cur[s]
  BY <1>1, InvReceiveAlive, Constants DEF ReceiveAlive, Live
<1>6. \A k \in Clone : k # c => original'[k] = original[k]
  BY <1>1 DEF OutputsInv, Types
<1>7. SorterInv'
  BY SMT, <1>5, <1>6 DEF OutputsInv, SorterInv
<1>8. /\ cpc'[o] = "insert" /\ newout'[o] = c
      /\ \A p \in Output : p # o => cpc'[p] = cpc[p] /\ newout'[p] = newout[p]
  BY <1>1 DEF OutputsInv, Types
<1>9. \A p \in Output : p # o =>
         ~(newout[p] = c /\ (cpc[p] = "insert" \/ (Running /\ cpc[p] = "add")))
  BY <1>1, <1>3, <1>4 DEF OutputsInv, ChannelInv, Inserting
<1>10. ChannelInv'
  <2>1. ASSUME NEW p \in Output, NEW k \in Clone,
               Running' /\ cpc'[p] = "add" /\ newout'[p] = k
        PROVE  /\ k \in outputSet' /\ k \notin clients'
               /\ \A s \in Sorter : k \notin tmp'[s] /\ k # cur'[s]
    BY <2>1, <1>8 DEF OutputsInv, ChannelInv, Running
  <2>2. ASSUME NEW q \in Output, NEW p \in Output, NEW k \in Clone,
               cpc'[q] = "insert", newout'[q] = k,
               cpc'[p] = "insert" \/ (Running' /\ cpc'[p] = "add"), newout'[p] = k
        PROVE  q = p
    BY SMT, <2>2, <1>8, <1>9 DEF OutputsInv, ChannelInv, Running
  <2>3. ASSUME NEW q \in Output, NEW p \in Output, NEW k \in Clone,
               Running' /\ cpc'[q] = "add" /\ cpc'[p] = "add",
               newout'[q] = k, newout'[p] = k
        PROVE  q = p
    BY ZenonT(60), <2>3, <1>8 DEF OutputsInv, ChannelInv, Running
  <2> QED BY <2>1, <2>2, <2>3 DEF ChannelInv
<1>11. EngineInv'
  BY DEF OutputsInv, EngineInv, Running
<1>12. DeletedOnce'
  <2>1. Inserting' \subseteq Inserting \union {c}
    BY <1>8 DEF Inserting
  <2>2. UNCHANGED <<Connected, Disconnecting>>
    BY DEF Connected, Disconnecting
  <2>3. alive \union {c} \subseteq alive'
    <3>1. original'[c] = o
      BY <1>1 DEF OutputsInv, Types
    <3> QED BY <3>1, <1>6, Constants DEF alive
  <2> QED BY SMT, <2>1, <2>2, <2>3, <1>3 DEF OutputsInv, DeletedOnce, Owned
<1> QED BY <1>2, <1>7, <1>10, <1>11, <1>12 DEF OutputsInv

\* A step of a connection thread preserves the invariant.
LEMMA ConnectingNext ==
    ASSUME OutputsInv, NEW o \in Output, Connecting(o) PROVE OutputsInv'
<1> USE DEF requests, requester, channels, sorters, engine
<1>1. CASE offer(o) \/ AcceptConnection(o)
  BY <1>1, ClonedNext DEF offer, AcceptConnection
<1>2. CASE ThreadJoiner(o)
  BY <1>2, Frame DEF ThreadJoiner, pointers
<1>3. CASE AcceptMulticast(o) \/ ConnectSocket(o)
  <2>1. UNCHANGED <<disconnectRequests, curdis, original, outputSet, clients, spc,
                    tmp, cur, epc, todo, held>>
    BY <1>3 DEF AcceptMulticast, ConnectSocket
  <2>2. Types'
    BY SMT, <1>3, Constants DEF AcceptMulticast, ConnectSocket, OutputsInv, Types
  <2>3. \A p \in Output : cpc'[p] \in {"insert", "add"} /\ newout'[p] \in Clone =>
           cpc'[p] = cpc[p] /\ newout'[p] = newout[p]
    BY SMT, <1>3, Constants DEF AcceptMulticast, ConnectSocket, OutputsInv, Types
  <2>4. SorterInv' /\ EngineInv'
    BY SMT, <2>1 DEF OutputsInv, SorterInv, EngineInv, Running
  <2>5. ChannelInv'
    BY SMT, <2>1, <2>3 DEF OutputsInv, ChannelInv, Running
  <2>6. DeletedOnce'
    <3>1. Inserting' \subseteq Inserting
      BY <2>3 DEF Inserting
    <3>2. UNCHANGED <<Connected, Disconnecting, alive>>
      BY <2>1 DEF Connected, Disconnecting, alive
    <3> QED BY ZenonT(60), <2>1, <3>1, <3>2 DEF OutputsInv, DeletedOnce, Owned
  <2> QED BY <2>2, <2>4, <2>5, <2>6 DEF OutputsInv
<1>4. CASE InsertOutput(o)
  <2>1. /\ cpc[o] = "insert" /\ epc # "closing"
        /\ outputSet' = outputSet \union {newout[o]}
        /\ cpc' = [cpc EXCEPT ![o] = "add"]
        /\ UNCHANGED <<disconnectRequests, curdis, newout, original, clients, spc,
                       tmp, cur, epc, todo, held>>
    BY <1>4 DEF InsertOutput
  <2>2. Types'
    BY <2>1 DEF OutputsInv, Types
  <2>3. SorterInv'
    BY SMT, <2>1 DEF OutputsInv, SorterInv
  <2>4. /\ cpc'[o] = "add"
        /\ \A p \in Output : p # o => cpc'[p] = cpc[p]
    BY <2>1 DEF OutputsInv, Types
  <2>5. EngineInv'
    BY <2>1 DEF OutputsInv, EngineInv, Running
  <2>6. ASSUME newout[o] \in Clone, Running
        PROVE  /\ newout[o] \notin clients
               /\ \A s \in Sorter : newout[o] \notin tmp[s] /\ newout[o] # cur[s]
    <3>1. newout[o] \in Inserting
      BY <2>1, <2>6 DEF Inserting
    <3>2. newout[o] \notin outputSet /\ newout[o] \notin Disconnecting
      BY <3>1, <2>6, <2>1 DEF OutputsInv, DeletedOnce, Owned, Connected
    <3> QED BY SMT, <3>2, <2>6, Constants
            DEF OutputsInv, EngineInv, SorterInv, Types, Disconnecting
  <2>7. ChannelInv'
    <3>1. ASSUME NEW p \in Output, NEW k \in Clone,
                 Running' /\ cpc'[p] = "add" /\ newout'[p] = k
          PROVE  /\ k \in outputSet' /\ k \notin clients'
                 /\ \A s \in Sorter : k \notin tmp'[s] /\ k # cur'[s]
      BY <3>1, <2>1, <2>4, <2>6 DEF OutputsInv, ChannelInv, Running
    <3>2. ASSUME NEW q \in Output, NEW p \in Output, NEW k \in Clone,
                 cpc'[q] = "insert", newout'[q] = k,
                 cpc'[p] = "insert" \/ (Running' /\ cpc'[p] = "add"), newout'[p] = k
          PROVE  q = p
      BY SMT, <3>2, <2>1, <2>4 DEF OutputsInv, ChannelInv, Running
    <3>3. ASSUME NEW q \in Output, NEW p \in Output, NEW k \in Clone,
                 Running' /\ cpc'[q] = "add" /\ cpc'[p] = "add",
                 newout'[q] = k, newout'[p] = k
          PROVE  q = p
      BY SMT, <3>3, <2>1, <2>4 DEF OutputsInv, ChannelInv, Running
    <3> QED BY <3>1, <3>2, <3>3 DEF ChannelInv
  <2>8. DeletedOnce'
    <3>1. Inserting' \subseteq Inserting \ {newout[o]}
      BY <2>1, <2>4 DEF OutputsInv, ChannelInv, Inserting
    <3>2. Connected' = Connected \union (Clone \intersect {newout[o]})
      BY <2>1 DEF Connected
    <3>3. UNCHANGED <<Disconnecting, alive>>
      BY <2>1 DEF Disconnecting, alive
    <3>4. Clone \intersect {newout[o]} \subseteq Inserting
      BY <2>1 DEF Inserting
    <3> QED BY <2>1, <3>1, <3>2, <3>3, <3>4 DEF OutputsInv, DeletedOnce, Owned
  <2> QED BY <2>2, <2>3, <2>5, <2>7, <2>8 DEF OutputsInv
<1>5. CASE AddClient(o)
  <2>1. /\ cpc[o] = "add"
        /\ clients' = clients \union {newout[o]}
        /\ newout' = [newout EXCEPT ![o] = None]
        /\ UNCHANGED <<disconnectRequests, curdis, original, outputSet, spc, tmp, cur,
                       epc, todo, held>>
    BY <1>5 DEF AddClient
  <2>2. Types'
    BY <1>5 DEF AddClient, OutputsInv, Types
  <2>3. /\ newout'[o] = None
        /\ \A p \in Output : p # o => cpc'[p] = cpc[p] /\ newout'[p] = newout[p]
    BY <1>5 DEF AddClient, OutputsInv, Types
  <2>4. SorterInv'
    <3>1. ASSUME NEW s \in Sorter, cur[s] \in Clone PROVE cur[s] # newout[o]
      <4>1. Running
        BY <3>1, Constants DEF OutputsInv, SorterInv, EngineInv
      <4> QED BY <3>1, <4>1, <2>1 DEF OutputsInv, ChannelInv
    <3> QED BY SMT, <3>1, <2>1 DEF OutputsInv, SorterInv
  <2>5. EngineInv'
    BY <2>1 DEF OutputsInv, EngineInv, ChannelInv, Running
  <2>6. ChannelInv'
    BY SMT, <2>1, <2>3, Constants DEF OutputsInv, ChannelInv, Running
  <2>7. DeletedOnce'
    <3>1. Inserting' \subseteq Inserting
      BY <2>3, Constants DEF Inserting
    <3>2. UNCHANGED <<Connected, Disconnecting, alive>>
      BY <2>1 DEF Connected, Disconnecting, alive
    <3> QED BY <2>1, <3>1, <3>2 DEF OutputsInv, DeletedOnce, Owned
  <2> QED BY <2>2, <2>4, <2>5, <2>6, <2>7 DEF OutputsInv
<1> QED BY <1>1, <1>2, <1>3, <1>4, <1>5 DEF Connecting

\* So does the end of one that has not connected its output.
LEMMA ConnectingEndsNext ==
    ASSUME OutputsInv, NEW o \in Output, ConnectingEnds(o) PROVE OutputsInv'
<1> USE DEF requests, requester, channels, sorters, engine
<1>1. /\ cpc' = [cpc EXCEPT ![o] = "none"]
      /\ UNCHANGED <<disconnectRequests, curdis, newout, original, outputSet, clients,
                     spc, tmp, cur, epc, todo, held>>
  BY DEF ConnectingEnds, OfferError, AcceptThrows
<1>2. /\ cpc' \in [Output -> {"none", "connect", "offer", "insert", "add", "jammed"}]
      /\ \A p \in Output : cpc'[p] \in {"insert", "add"} => cpc'[p] = cpc[p]
  BY SMT, <1>1 DEF OutputsInv, Types
<1> QED BY <1>1, <1>2, ChannelFrame

\* A sorter's own steps, seen from the clones: tmp and cur of the sorter
\* hold nothing new that a connection thread is still connecting.
LEMMA SorterFrame ==
    ASSUME OutputsInv, NEW s \in Sorter,
           UNCHANGED <<curdis, cpc, newout, original, epc, todo, held>>,
           Types', SorterInv', DeletedOnce',
           \A r \in Sorter : r # s => /\ tmp'[r] = tmp[r] /\ cur'[r] = cur[r]
                                      /\ spc'[r] = spc[r],
           outputSet' \subseteq outputSet, clients' \subseteq clients,
           spc[s] # "done",
           \A c \in Clone : c \in tmp'[s] \/ c = cur'[s] =>
              c \in clients \/ c \in tmp[s] \/ c = cur[s],
           \A c \in Clone : c \in outputSet \ outputSet' => c = cur[s] /\ c \notin clients'
    PROVE  OutputsInv'
<1>1. Running
  BY DEF OutputsInv, EngineInv
<1>2. EngineInv'
  BY <1>1 DEF OutputsInv, EngineInv, Running
<1>3. ChannelInv'
  BY SMT, <1>1 DEF OutputsInv, ChannelInv, Running
<1> QED BY <1>2, <1>3 DEF OutputsInv

\* A step of a sorter preserves the invariant.
LEMMA SortingNext ==
    ASSUME OutputsInv, NEW s \in Sorter, Sorting(s) PROVE OutputsInv'
<1> USE DEF requests, requester, channels, sorters, engine
<1>1. CASE distribute(s)
  <2>1. /\ spc[s] = "idle"
        /\ tmp' = [tmp EXCEPT ![s] = {c \in clients : Source[getOriginal(c)] = s}]
        /\ spc' = [spc EXCEPT ![s] = "loop"]
        /\ UNCHANGED <<disconnectRequests, curdis, cpc, newout, original, outputSet,
                       clients, cur, epc, todo, held>>
    BY <1>1 DEF distribute
  <2>2. Running
    BY <2>1 DEF OutputsInv, EngineInv
  <2>3. Types'
    BY <2>1 DEF OutputsInv, Types
  <2>4. SorterInv'
    <3>1. tmp'[s] = {c \in clients : Source[getOriginal(c)] = s} /\ spc'[s] = "loop"
      BY <2>1 DEF OutputsInv, Types
    <3>2. \A c \in Clone : c \in tmp'[s] =>
             c \in outputSet /\ c # cur[s] /\ Source[original[c]] = s
      BY SMT, <3>1, <2>1, <2>2, Constants
      DEF OutputsInv, EngineInv, SorterInv, getOriginal
    <3>3. \A r \in Sorter : r # s => tmp'[r] = tmp[r] /\ spc'[r] = spc[r]
      BY <2>1 DEF OutputsInv, Types
    <3>4. cur[s] = None
      BY <2>1 DEF OutputsInv, SorterInv
    <3> QED BY SMT, <2>1, <3>1, <3>2, <3>3, <3>4, Constants DEF OutputsInv, SorterInv
  <2>5. DeletedOnce'
    <3>1. Disconnecting' = Disconnecting
      BY <2>1 DEF OutputsInv, Types, Disconnecting
    <3>2. UNCHANGED <<Connected, Inserting, alive>>
      BY <2>1 DEF Connected, Inserting, alive
    <3> QED BY <2>1, <3>1, <3>2 DEF OutputsInv, DeletedOnce, Owned
  <2> QED BY ZenonT(60), <2>1, <2>3, <2>4, <2>5, SorterFrame DEF OutputsInv, Types
<1>2. CASE receive(s)
  <2>1. PICK c \in tmp[s] : /\ tmp' = [tmp EXCEPT ![s] = @ \ {c}]
                            /\ \/ UNCHANGED <<spc, cur>>
                               \/ /\ spc' = [spc EXCEPT ![s] = "remove"]
                                  /\ cur' = [cur EXCEPT ![s] = c]
    BY <1>2 DEF receive
  <2>2. /\ spc[s] = "loop"
        /\ UNCHANGED <<disconnectRequests, curdis, cpc, newout, original, outputSet,
                       clients, epc, todo, held>>
    BY <1>2 DEF receive
  <2>3. Types'
    BY SMT, <2>1, <2>2 DEF OutputsInv, Types
  <2>4. /\ tmp'[s] = tmp[s] \ {c}
        /\ \A r \in Sorter : r # s => /\ tmp'[r] = tmp[r] /\ spc'[r] = spc[r]
                                      /\ cur'[r] = cur[r]
        /\ \/ spc'[s] = "loop" /\ cur'[s] = cur[s]
           \/ spc'[s] = "remove" /\ cur'[s] = c
    BY <2>1, <2>2 DEF OutputsInv, Types
  <2>5. SorterInv'
    <3>1. cur[s] = None /\ c \in Object
      BY <2>1, <2>2 DEF OutputsInv, SorterInv, Types
    <3> QED BY SMT, <2>1, <2>2, <2>4, <3>1, Constants DEF OutputsInv, SorterInv, Object
  <2>6. DeletedOnce'
    <3>1. Disconnecting' = Disconnecting
      BY <2>2, <2>4 DEF Disconnecting
    <3>2. UNCHANGED <<Connected, Inserting, alive>>
      BY <2>2 DEF Connected, Inserting, alive
    <3> QED BY <2>2, <3>1, <3>2 DEF OutputsInv, DeletedOnce, Owned
  <2> QED BY <2>1, <2>2, <2>3, <2>4, <2>5, <2>6, SorterFrame
<1>3. CASE DistributeEnds(s) \/ SorterEnds(s)
  <2>1. /\ spc[s] \in {"loop", "idle"} /\ tmp[s] = {}
        /\ \/ spc' = [spc EXCEPT ![s] = "idle"]
           \/ epc = "join" /\ spc' = [spc EXCEPT ![s] = "done"]
        /\ UNCHANGED <<disconnectRequests, curdis, cpc, newout, original, outputSet,
                       clients, tmp, cur, epc, todo, held>>
    BY <1>3 DEF DistributeEnds, SorterEnds, OutputsInv, SorterInv
  <2>2. Types'
    BY <2>1 DEF OutputsInv, Types
  <2>3. /\ spc'[s] \in {"idle", "done"}
        /\ \A r \in Sorter : r # s => spc'[r] = spc[r]
    BY <2>1 DEF OutputsInv, Types
  <2>4. SorterInv'
    BY SMT, <2>1, <2>3, Constants DEF OutputsInv, SorterInv
  <2>5. DeletedOnce'
    <3>1. Disconnecting' = Disconnecting
      BY <2>1, <2>3 DEF Disconnecting
    <3>2. UNCHANGED <<Connected, Inserting, alive>>
      BY <2>1 DEF Connected, Inserting, alive
    <3> QED BY <2>1, <3>1, <3>2 DEF OutputsInv, DeletedOnce, Owned
  <2> QED BY <2>1, <2>2, <2>3, <2>4, <2>5, SorterFrame
<1>4. CASE removeSampleClient(s)
  <2>1. /\ spc[s] = "remove"
        /\ clients' = clients \ {cur[s]}
        /\ spc' = [spc EXCEPT ![s] = "erase"]
        /\ UNCHANGED <<disconnectRequests, curdis, cpc, newout, original, outputSet,
                       tmp, cur, epc, todo, held>>
    BY <1>4 DEF removeSampleClient
  <2>2. Types'
    BY <2>1 DEF OutputsInv, Types
  <2>3. /\ spc'[s] = "erase"
        /\ \A r \in Sorter : r # s => spc'[r] = spc[r]
    BY <2>1 DEF OutputsInv, Types
  <2>4. SorterInv'
    BY SMT, <2>1, <2>3, Constants DEF OutputsInv, SorterInv
  <2>5. DeletedOnce'
    <3>1. Disconnecting' = Disconnecting
      BY <2>1, <2>3 DEF Disconnecting
    <3>2. UNCHANGED <<Connected, Inserting, alive>>
      BY <2>1 DEF Connected, Inserting, alive
    <3> QED BY <2>1, <3>1, <3>2 DEF OutputsInv, DeletedOnce, Owned
  <2> QED BY <2>1, <2>2, <2>3, <2>4, <2>5, SorterFrame
<1>5. CASE EraseOutput(s)
  <2>1. /\ spc[s] = "erase" /\ epc # "closing"
        /\ outputSet' = outputSet \ {cur[s]}
        /\ spc' = [spc EXCEPT ![s] = "delete"]
        /\ UNCHANGED <<disconnectRequests, curdis, cpc, newout, original, clients,
                       tmp, cur, epc, todo, held>>
    BY <1>5 DEF EraseOutput
  <2>2. Types'
    BY <2>1 DEF OutputsInv, Types
  <2>3. /\ spc'[s] = "delete"
        /\ \A r \in Sorter : r # s => spc'[r] = spc[r]
    BY <2>1 DEF OutputsInv, Types
  <2>4. \A r \in Sorter : r # s /\ cur[s] \in Clone =>
           cur[s] \notin tmp[r] /\ cur[s] # cur[r]
    BY SMT DEF OutputsInv, SorterInv
  <2>5. SorterInv'
    BY SMT, <2>1, <2>3, <2>4, Constants DEF OutputsInv, SorterInv
  <2>6. DeletedOnce'
    <3>1. Disconnecting' \subseteq Disconnecting \union {cur[s]}
      BY <2>1, <2>3 DEF Disconnecting
    <3>2. Connected' = Connected \ {cur[s]}
      BY <2>1 DEF Connected
    <3>3. cur[s] \in Clone => cur[s] \in Connected
      BY <2>1 DEF OutputsInv, SorterInv, Connected
    <3>4. Disconnecting' \subseteq Clone
      BY DEF Disconnecting
    <3>5. UNCHANGED <<Inserting, alive>>
      BY <2>1 DEF Inserting, alive
    <3> QED BY SMT, <2>1, <3>1, <3>2, <3>3, <3>4, <3>5 DEF OutputsInv, DeletedOnce,
               Owned
  <2>7. cur[s] \in Clone => cur[s] \notin clients
    BY <2>1 DEF OutputsInv, SorterInv
  <2> QED BY <2>1, <2>2, <2>3, <2>5, <2>6, <2>7, SorterFrame
<1>6. CASE DeleteLater(s)
  <2>1. /\ spc[s] = "delete"
        /\ spc' = [spc EXCEPT ![s] = "reconnect"]
        /\ cur' = [cur EXCEPT ![s] = getOriginal(cur[s])]
        /\ UNCHANGED <<curdis, cpc, newout, original, outputSet, clients, tmp, epc,
                       todo, held>>
    BY <1>6 DEF DeleteLater, addDeleteRequest
  <2>2. disconnectRequests' = disconnectRequests \union (Clone \intersect {cur[s]})
    BY <1>6 DEF DeleteLater, addDeleteRequest
  <2>3. getOriginal(cur[s]) \in Output
    <3>1. cur[s] \in Object
      BY SMT, <2>1 DEF OutputsInv, Types, SorterInv
    <3>2. ASSUME cur[s] \in Clone PROVE original[cur[s]] \in Output
      <4>1. cur[s] \in alive
        BY <3>2, <2>1 DEF OutputsInv, DeletedOnce, Owned, Disconnecting
      <4> QED BY <4>1 DEF alive, OutputsInv, Types
    <3> QED BY <3>1, <3>2 DEF getOriginal, Object
  <2>4. Types'
    BY <2>1, <2>2, <2>3, Constants DEF OutputsInv, Types
  <2>5. /\ spc'[s] = "reconnect" /\ cur'[s] = getOriginal(cur[s])
        /\ \A r \in Sorter : r # s => spc'[r] = spc[r] /\ cur'[r] = cur[r]
    BY <2>1 DEF OutputsInv, Types
  <2>6. SorterInv'
    BY SMT, <2>1, <2>3, <2>5, Constants DEF OutputsInv, SorterInv
  <2>7. DeletedOnce'
    <3>1. \A r \in Sorter : r # s /\ cur[s] \in Clone => cur[s] # cur[r]
      BY SMT DEF OutputsInv, SorterInv
    <3>2. Disconnecting' \subseteq Disconnecting \ {cur[s]}
      BY <2>3, <2>5, <3>1, Constants DEF Disconnecting
    <3>3. Clone \intersect {cur[s]} \subseteq Disconnecting
      BY <2>1 DEF Disconnecting
    <3>4. UNCHANGED <<Connected, Inserting, alive>>
      BY <2>1 DEF Connected, Inserting, alive
    <3> QED BY <2>1, <2>2, <3>2, <3>3, <3>4 DEF OutputsInv, DeletedOnce, Owned
  <2> QED BY <2>1, <2>3, <2>4, <2>5, <2>6, <2>7, Constants, SorterFrame
<1>7. CASE ConnectLater(s)
  <2>1. /\ spc[s] = "reconnect"
        /\ spc' = [spc EXCEPT ![s] = "loop"]
        /\ cur' = [cur EXCEPT ![s] = None]
        /\ UNCHANGED <<disconnectRequests, curdis, cpc, newout, original, outputSet,
                       clients, tmp, epc, todo, held>>
    BY <1>7 DEF ConnectLater
  <2>2. Types'
    BY <2>1 DEF OutputsInv, Types
  <2>3. /\ spc'[s] = "loop" /\ cur'[s] = None
        /\ \A r \in Sorter : r # s => spc'[r] = spc[r] /\ cur'[r] = cur[r]
    BY ZenonT(60), <2>1 DEF OutputsInv, Types
  <2>4. SorterInv'
    BY SMT, <2>1, <2>3, Constants DEF OutputsInv, SorterInv
  <2>5. DeletedOnce'
    <3>1. Disconnecting' \subseteq Disconnecting
      BY <2>3 DEF Disconnecting
    <3>2. UNCHANGED <<Connected, Inserting, alive>>
      BY <2>1 DEF Connected, Inserting, alive
    <3> QED BY <2>1, <3>1, <3>2 DEF OutputsInv, DeletedOnce, Owned
  <2> QED BY <2>1, <2>2, <2>3, <2>4, <2>5, Constants, SorterFrame
<1> QED BY <1>1, <1>2, <1>3, <1>4, <1>5, <1>6, <1>7 DEF Sorting

\* A step of the engine preserves the invariant: it deletes connected clones
\* when the sorters have ended, and the ones that wait to be deleted.
LEMMA EngineNext ==
    ASSUME OutputsInv, connectOutputs \/ interrupt \/ joinDataThreads \/ closeOutputs
    PROVE  OutputsInv'
<1> USE DEF requests, requester, channels, sorters, engine
<1>1. CASE connectOutputs \/ interrupt
  <2>1. /\ epc \in {"connect", "run"} /\ epc' \in {"connect", "run", "join"}
        /\ UNCHANGED <<disconnectRequests, curdis, cpc, newout, original, outputSet,
                       clients, spc, tmp, cur, held>>
    BY <1>1 DEF connectOutputs, interrupt
  <2>2. Types' /\ SorterInv' /\ ChannelInv' /\ EngineInv'
    BY SMT, <2>1 DEF OutputsInv, Types, SorterInv, ChannelInv, EngineInv, Running
  <2>3. UNCHANGED <<Connected, Inserting, Disconnecting, alive>>
    BY <2>1 DEF Connected, Inserting, Disconnecting, alive
  <2> QED BY <2>1, <2>2, <2>3 DEF OutputsInv, DeletedOnce, Owned
<1>2. CASE joinDataThreads
  <2>1. /\ epc = "join" /\ \A s \in Sorter : spc[s] = "done"
        /\ epc' = "closing" /\ todo' = outputSet
        /\ UNCHANGED <<disconnectRequests, curdis, cpc, newout, original, outputSet,
                       clients, spc, tmp, cur, held>>
    BY <1>2 DEF joinDataThreads
  <2>2. Types' /\ SorterInv' /\ ChannelInv' /\ EngineInv'
    BY SMT, <2>1 DEF OutputsInv, Types, SorterInv, ChannelInv, EngineInv, Running
  <2>3. Connected' = Connected
    BY <2>1 DEF Connected
  <2>4. UNCHANGED <<Inserting, Disconnecting, alive>>
    BY <2>1 DEF Inserting, Disconnecting, alive
  <2> QED BY <2>1, <2>2, <2>3, <2>4 DEF OutputsInv, DeletedOnce, Owned
<1>3. CASE CloseConnected
  <2>1. PICK c \in todo : /\ clients' = clients \ {c}
                          /\ original' = [k \in Clone |-> IF k \in {c} THEN None
                                                          ELSE original[k]]
                          /\ todo' = todo \ {c}
    BY <1>3 DEF CloseConnected, Delete
  <2>2. /\ epc = "closing"
        /\ UNCHANGED <<disconnectRequests, curdis, cpc, newout, outputSet, spc, tmp,
                       cur, epc, held>>
    BY <1>3 DEF CloseConnected
  <2>3. ~Running /\ \A s \in Sorter : spc[s] = "done" /\ tmp[s] = {} /\ cur[s] = None
    BY <2>2 DEF OutputsInv, EngineInv, SorterInv, Running
  <2>4. Types'
    BY <2>1, <2>2 DEF OutputsInv, Types
  <2>5. SorterInv'
    BY <2>2, <2>3, Constants DEF SorterInv
  <2>6. ChannelInv' /\ EngineInv'
    BY <2>1, <2>2, <2>3 DEF OutputsInv, ChannelInv, EngineInv, Running
  <2>7. DeletedOnce'
    <3>1. Connected' = Connected \ {c}
      BY <2>1, <2>2 DEF Connected
    <3>2. c \in Clone => c \in Connected
      BY <2>1, <2>2 DEF Connected, OutputsInv, EngineInv
    <3>3. alive \ {c} \subseteq alive'
      BY <2>1 DEF alive
    <3>4. UNCHANGED <<Inserting, Disconnecting>>
      BY <2>2 DEF Inserting, Disconnecting
    <3>5. /\ Inserting \subseteq Clone /\ Disconnecting \subseteq Clone
          /\ disconnectRequests \subseteq Clone /\ curdis \subseteq Clone
      BY DEF Inserting, Disconnecting, OutputsInv, Types
    <3> QED BY <2>2, <3>1, <3>2, <3>3, <3>4, <3>5 DEF OutputsInv, DeletedOnce, Owned
  <2> QED BY <2>4, <2>5, <2>6, <2>7 DEF OutputsInv
<1>4. CASE ConnectedClosed
  <2>1. /\ epc = "closing" /\ outputSet' = {} /\ epc' = "config" /\ todo' \subseteq Output
        /\ UNCHANGED <<disconnectRequests, curdis, cpc, newout, original, clients,
                       spc, tmp, cur, held>>
    BY <1>4 DEF ConnectedClosed
  <2>2. ~Running /\ \A s \in Sorter : spc[s] = "done" /\ tmp[s] = {} /\ cur[s] = None
    BY <2>1 DEF OutputsInv, EngineInv, SorterInv, Running
  <2>3. Types' /\ ChannelInv' /\ EngineInv'
    BY <2>1, <2>2 DEF OutputsInv, Types, ChannelInv, EngineInv, Running
  <2>4. SorterInv'
    BY <2>1, <2>2, Constants DEF SorterInv
  <2>5. Connected' = {}
    BY <2>1 DEF Connected
  <2>6. UNCHANGED <<Inserting, Disconnecting, alive>>
    BY <2>1 DEF Inserting, Disconnecting, alive
  <2> QED BY <2>1, <2>3, <2>4, <2>5, <2>6 DEF OutputsInv, DeletedOnce, Owned
<1>5. CASE CloseServerSocket \/ CloseMcSocket \/ InterruptMulticaster
  <2>1. /\ epc = "config" /\ epc' = "config"
        /\ UNCHANGED <<disconnectRequests, curdis, newout, original, outputSet,
                       clients, spc, tmp, cur>>
    BY <1>5 DEF CloseServerSocket, CloseMcSocket, InterruptMulticaster,
                OutputsInv, EngineInv
  <2>2. /\ cpc' \in [Output -> {"none", "connect", "offer", "insert", "add", "jammed"}]
        /\ \A o \in Output : cpc'[o] \in {"insert", "add"} => cpc'[o] = cpc[o]
    <3>1. CASE CloseMcSocket
      BY <3>1 DEF CloseMcSocket, OutputsInv, Types
    <3>2. CASE CloseServerSocket
      <4>1. PICK o : cpc' = [cpc EXCEPT ![o] = IF @ = "connect" THEN "none" ELSE @]
        BY <3>2 DEF CloseServerSocket
      <4> QED BY <4>1 DEF OutputsInv, Types
    <3>3. CASE InterruptMulticaster
      BY <3>3 DEF InterruptMulticaster, OutputsInv, Types
    <3> QED BY <1>5, <3>1, <3>2, <3>3
  <2>3. held' \in Output \union {None}
    <3>1. CASE CloseMcSocket
      <4>1. todo # {} /\ (held' = First(todo) \/ held' = None)
        BY <3>1 DEF CloseMcSocket
      <4>2. First(todo) \in todo
        BY <4>1 DEF First
      <4>3. todo \subseteq Output
        BY <2>1 DEF OutputsInv, EngineInv
      <4> QED BY <4>1, <4>2, <4>3
    <3>2. CASE CloseServerSocket \/ InterruptMulticaster
      BY <3>2 DEF CloseServerSocket, InterruptMulticaster, OutputsInv,
                  Types
    <3> QED BY <1>5, <3>1, <3>2
  <2>4. todo' \subseteq todo
    BY <1>5 DEF CloseServerSocket, CloseMcSocket, InterruptMulticaster
  <2>5. Types' /\ SorterInv' /\ EngineInv'
    BY ZenonT(60), <2>1, <2>2, <2>3, <2>4 DEF OutputsInv, Types, SorterInv, EngineInv,
       Running
  <2>6. ChannelInv'
    BY <2>1, <2>2 DEF OutputsInv, ChannelInv, Running
  <2>7. Inserting' \subseteq Inserting
    BY <2>1, <2>2 DEF Inserting
  <2>8. UNCHANGED <<Connected, Disconnecting, alive>>
    BY <2>1 DEF Connected, Disconnecting, alive
  <2> QED BY <2>1, <2>5, <2>6, <2>7, <2>8 DEF OutputsInv, DeletedOnce, Owned
<1>6. CASE clear
  <2>1. /\ epc = "config" /\ held = None /\ epc' = "closed"
        /\ disconnectRequests' = {}
        /\ original' = [k \in Clone |-> IF k \in disconnectRequests THEN None
                                        ELSE original[k]]
        /\ UNCHANGED <<curdis, cpc, newout, outputSet, clients, spc, tmp, cur, held>>
    BY <1>6 DEF clear, Delete
  <2>2. ~Running /\ \A s \in Sorter : spc[s] = "done" /\ tmp[s] = {} /\ cur[s] = None
    BY <2>1 DEF OutputsInv, EngineInv, SorterInv, Running
  <2>3. Types' /\ ChannelInv' /\ EngineInv'
    BY <2>1, <2>2 DEF OutputsInv, Types, ChannelInv, EngineInv, Running
  <2>4. SorterInv'
    BY <2>1, <2>2, Constants DEF SorterInv
  <2>5. UNCHANGED <<Connected, Inserting, Disconnecting>>
    BY <2>1 DEF Connected, Inserting, Disconnecting
  <2>6. alive \ disconnectRequests \subseteq alive'
    BY <2>1 DEF alive
  <2> QED BY <2>1, <2>3, <2>4, <2>5, <2>6 DEF OutputsInv, DeletedOnce, Owned
<1> QED BY <1>1, <1>2, <1>3, <1>4, <1>5, <1>6 DEF closeOutputs

\* The invariant is inductive.
LEMMA OutputsNext == OutputsInv /\ [Next]_vars => OutputsInv'
<1> SUFFICES ASSUME OutputsInv, [Next]_vars PROVE OutputsInv'
  OBVIOUS
<1> USE DEF requests, requester, channels, sorters, engine
<1>1. CASE UNCHANGED vars
  BY <1>1, Frame DEF vars, pointers
<1>2. CASE \E o \in Output : TimePasses(o)
  BY <1>2, Frame DEF TimePasses, pointers
<1> QED
  BY <1>1, <1>2, RunNext, ConnectingNext, ConnectingEndsNext, SortingNext, EngineNext
  DEF Next

\* The sorters never touch a deleted output: distribute() may use its copy of
\* the list of clients without a lock, because the outputs it distributes to
\* are disconnected by the same sorter or closed after it has ended.
THEOREM ReceivedByTheLiving == Spec => []ReceiveAlive
<1>1. Spec => []OutputsInv
  BY OutputsInit, OutputsNext, PTL DEF Spec
<1> QED BY <1>1, InvReceiveAlive, PTL

\* No clone is deleted twice, by run(), clear() or closeOutputs().
THEOREM ClonesDeletedOnce == Spec => []DeletedOnce
<1>1. Spec => []OutputsInv
  BY OutputsInit, OutputsNext, PTL DEF Spec
<1>2. OutputsInv => DeletedOnce
  BY DEF OutputsInv
<1> QED BY <1>1, <1>2, PTL

-----------------------------------------------------------------------------
\* The lists of run(): nreq counts down to the postponed requests, and what
\* run() has taken is handled before it looks at the lists again.
RequestsInv ==
    /\ connectRequests \in Seq(Request) /\ curreqs \in Seq(Request)
    /\ rpc \in {"top", "wait", "handle", "sleep"}
    /\ IsFiniteSet(disconnectRequests) /\ IsFiniteSet(curdis)
    /\ nreq \in Nat /\ Len(curreqs) + Cardinality(curdis) <= nreq
    /\ rpc # "handle" => curreqs = <<>> /\ curdis = {}

\* The lists of the engine.
ListsInv ==
    /\ outputSet \subseteq Object /\ todo \subseteq Object
    /\ epc = "connect" => todo # {} /\ todo \subseteq Output

\* Only a connection that is being made has a thread, and one whose thread has
\* failed; the ThreadJoiners are those of Sockets, and McSocket::close()
\* interrupts a multicaster it has a pointer to.
ThreadsInv ==
    /\ thread \in [Output -> BOOLEAN] /\ joining \in [Output -> BOOLEAN]
    /\ interrupted \subseteq Output /\ gaveUp \subseteq Output
    /\ \A o \in Output :
          /\ Kind[o] # "server" /\ thread[o] =>
                \/ cpc[o] \in {"connect", "offer"}
                \/ cpc[o] \in {"none", "jammed"} /\ o \in gaveUp
          /\ Kind[o] = "server" /\ cpc[o] # "none" => thread[o]
          /\ cpc[o] = "offer" => Kind[o] = "mcrequest"
          /\ joining[o] => Kind[o] = "client"
    /\ held # None => Kind[held] = "mcrequest" /\ thread[held]

\* An output that is not a server is in one list of requests at most, or is being
\* connected: RequestConnection would otherwise start a second connection over it.
OnceInv == \A o \in Output : Kind[o] # "server" => Pending(o) <= 1

\* At the start the lists are empty and no thread runs.
LEMMA MoreInit == Init => RequestsInv /\ ListsInv /\ ThreadsInv
<1> SUFFICES ASSUME Init PROVE RequestsInv /\ ListsInv /\ ThreadsInv
  OBVIOUS
<1>1. RequestsInv
  <2>1. /\ Cardinality({}) = 0 /\ IsFiniteSet({})
    BY FS_EmptySet
  <2>2. <<>> \in Seq(Request) /\ Len(<<>>) + 0 <= 0 /\ 0 \in Nat
    BY SMT
  <2> QED BY <2>1, <2>2 DEF Init, RequestsInv
<1>2. ListsInv
  BY DEF Init, ListsInv, Object
<1>3. ThreadsInv
  BY DEF Init, ThreadsInv
<1> QED BY <1>1, <1>2, <1>3

\* A step of the request thread keeps its lists.
LEMMA RequestsRun == RequestsInv /\ run => RequestsInv'
<1> SUFFICES ASSUME RequestsInv, run PROVE RequestsInv'
  OBVIOUS
<1> USE DEF requests, requester, channels, sorters, engine
<1>1. CASE RequestTop
  <2>1. CASE connectRequests = <<>> /\ disconnectRequests = {}
    BY <1>1, <2>1 DEF RequestTop, RequestsInv
  <2>2. CASE ~(connectRequests = <<>> /\ disconnectRequests = {})
    <3> DEFINE all == 1..Len(connectRequests)
               come == {i \in all : connectRequests[i].due}
    <3>1. /\ nreq' = Len(connectRequests) + Cardinality(disconnectRequests)
          /\ curdis' = disconnectRequests /\ disconnectRequests' = {}
          /\ curreqs' = Selected(connectRequests, come)
          /\ connectRequests' = Selected(connectRequests, all \ come)
          /\ rpc' = "handle"
      BY <1>1, <2>2 DEF RequestTop
    <3>2. /\ connectRequests \in Seq(Request) /\ Len(connectRequests) \in Nat
          /\ IsFiniteSet(disconnectRequests) /\ Cardinality(disconnectRequests) \in Nat
      BY SMT, FS_CardinalityType DEF RequestsInv
    <3>3. come \in SUBSET all /\ all \ come \in SUBSET all
      OBVIOUS
    <3> HIDE DEF come
    <3>4. /\ curreqs' \in Seq(Request) /\ connectRequests' \in Seq(Request)
          /\ Len(curreqs') = Cardinality(come)
      BY <3>1, <3>2, <3>3, SelectedIs
    <3>5. Cardinality(come) \in Nat /\ Cardinality(come) <= Len(connectRequests)
      BY <3>2, <3>3, Positions
    <3>6. nreq' \in Nat /\ Len(curreqs') + Cardinality(curdis') <= nreq'
      BY SMT, <3>1, <3>2, <3>4, <3>5
    <3>7. IsFiniteSet({})
      BY FS_EmptySet
    <3> QED BY <3>1, <3>2, <3>4, <3>6, <3>7 DEF RequestsInv
  <2> QED BY <2>1, <2>2
<1>2. CASE RequestRefused \/ RequestConnection
  <2>1. /\ rpc = "handle" /\ curreqs # <<>> /\ rpc' = "handle"
        /\ curreqs' = Tail(curreqs) /\ nreq' = nreq - 1
        /\ UNCHANGED <<disconnectRequests, curdis>>
    BY <1>2 DEF RequestRefused, RequestConnection, addConnectRequest, Signalled
  <2>2. /\ curreqs \in Seq(Request) /\ connectRequests \in Seq(Request)
        /\ nreq \in Nat /\ Len(curreqs) + Cardinality(curdis) <= nreq
        /\ IsFiniteSet(curdis) /\ Cardinality(curdis) \in Nat
    BY FS_CardinalityType DEF RequestsInv
  <2>3. /\ curreqs' \in Seq(Request) /\ Head(curreqs) \in Request
        /\ Len(curreqs) \in Nat \ {0} /\ Len(curreqs') = Len(curreqs) - 1
    BY <2>1, <2>2, RequestedTail
  <2>4. nreq' \in Nat /\ Len(curreqs') + Cardinality(curdis) <= nreq'
    BY SMT, <2>1, <2>2, <2>3
  <2>5. connectRequests' \in Seq(Request)
    <3>1. CASE RequestConnection
      BY <3>1, <2>2 DEF RequestConnection
    <3>2. CASE RequestRefused
      <4>1. [out |-> Head(curreqs).out, due |-> FALSE] \in Request
        BY <2>3 DEF Request
      <4>2. connectRequests' = Append(connectRequests, [out |-> Head(curreqs).out,
                                                        due |-> FALSE])
        BY <3>2 DEF RequestRefused, addConnectRequest
      <4> QED BY <4>1, <4>2, <2>2, RequestedAppend
    <3> QED BY <1>2, <3>1, <3>2
  <2> QED BY <2>1, <2>2, <2>3, <2>4, <2>5 DEF RequestsInv
<1>3. CASE RequestDelete
  <2>1. PICK c \in curdis : curdis' = curdis \ {c}
    BY <1>3 DEF RequestDelete
  <2>2. /\ rpc = "handle" /\ nreq' = nreq - 1
        /\ UNCHANGED <<connectRequests, disconnectRequests, rpc, curreqs>>
    BY <1>3 DEF RequestDelete
  <2>3. /\ IsFiniteSet(curdis') /\ Cardinality(curdis') = Cardinality(curdis) - 1
        /\ Cardinality(curdis) \in Nat /\ Cardinality(curdis') \in Nat
    BY <2>1, FS_RemoveElement, FS_CardinalityType DEF RequestsInv
  <2>4. Len(curreqs) \in Nat
    BY SMT DEF RequestsInv
  <2>5. nreq' \in Nat /\ Len(curreqs') + Cardinality(curdis') <= nreq'
    BY SMT, <2>2, <2>3, <2>4 DEF RequestsInv
  <2> QED BY <2>2, <2>3, <2>5 DEF RequestsInv
<1>4. CASE RequestSleep \/ RequestAwake
  BY <1>4 DEF RequestSleep, RequestAwake, RequestsInv
<1> QED BY <1>1, <1>2, <1>3, <1>4 DEF run

\* So does a step of anyone else.
LEMMA RequestsNext ==
    OutputsInv /\ RequestsInv /\ ListsInv /\ [Next]_vars => RequestsInv'
<1> SUFFICES ASSUME OutputsInv, RequestsInv, ListsInv, [Next]_vars PROVE RequestsInv'
  OBVIOUS
<1> USE DEF requests, requester, channels, sorters, engine
<1>1. ASSUME UNCHANGED <<requests, requester>> PROVE RequestsInv'
  BY <1>1 DEF RequestsInv
<1>2. ASSUME NEW o \in Output, NEW due \in BOOLEAN, addConnectRequest(o, due),
             UNCHANGED <<disconnectRequests, curreqs, curdis, nreq>>
      PROVE  RequestsInv'
  <2>1. [out |-> o, due |-> due] \in Request
    BY DEF Request
  <2>2. connectRequests' \in Seq(Request)
    BY <1>2, <2>1, RequestedAppend DEF addConnectRequest, RequestsInv
  <2>3. rpc' \in {"top", "wait", "handle", "sleep"} /\ (rpc' # "handle" => rpc # "handle")
    BY <1>2 DEF addConnectRequest, Signalled, RequestsInv
  <2> QED BY <1>2, <2>2, <2>3 DEF RequestsInv
<1>3. CASE UNCHANGED vars
  BY <1>3, <1>1 DEF vars
<1>4. CASE run
  BY <1>4, RequestsRun
<1>5. ASSUME NEW o \in Output, TimePasses(o) PROVE RequestsInv'
  <2>1. PICK i \in 1..Len(connectRequests) :
            connectRequests' = [connectRequests EXCEPT ![i].due = TRUE]
    BY <1>5 DEF TimePasses
  <2>2. connectRequests' \in Seq(Request)
    BY <2>1, RequestedDue DEF RequestsInv
  <2> QED BY <1>5, <2>2 DEF TimePasses, RequestsInv
<1>6. ASSUME NEW o \in Output, Connecting(o) \/ ConnectingEnds(o) PROVE RequestsInv'
  BY <1>6, <1>1 DEF Connecting, ConnectSocket, AcceptMulticast, offer, AcceptConnection,
                    InsertOutput, AddClient, ThreadJoiner, ConnectingEnds, OfferError,
                    AcceptThrows
<1>7. ASSUME NEW s \in Sorter, Sorting(s) PROVE RequestsInv'
  <2>1. CASE DeleteLater(s)
    <3>1. /\ rpc' \in {"top", "wait", "handle", "sleep"}
          /\ (rpc' # "handle" => rpc # "handle")
          /\ \/ disconnectRequests' = disconnectRequests
             \/ disconnectRequests' = disconnectRequests \union {cur[s]}
          /\ UNCHANGED <<connectRequests, curreqs, curdis, nreq>>
      BY <2>1 DEF DeleteLater, addDeleteRequest, Signalled, RequestsInv
    <3>2. IsFiniteSet(disconnectRequests')
      BY ZenonT(60), <3>1, FS_AddElement DEF RequestsInv
    <3> QED BY <3>1, <3>2 DEF RequestsInv
  <2>2. CASE ConnectLater(s)
    <3>1. cur[s] \in Output /\ FALSE \in BOOLEAN
      BY <2>2 DEF ConnectLater, OutputsInv, SorterInv
    <3> QED BY <2>2, <3>1, <1>2 DEF ConnectLater
  <2>3. CASE \/ distribute(s) \/ receive(s) \/ DistributeEnds(s)
             \/ removeSampleClient(s) \/ EraseOutput(s) \/ SorterEnds(s)
    BY <2>3, <1>1 DEF distribute, receive, DistributeEnds, removeSampleClient,
                      EraseOutput, SorterEnds
  <2> QED BY <1>7, <2>1, <2>2, <2>3 DEF Sorting
<1>8. CASE connectOutputs
  <2>1. First(todo) \in Output /\ TRUE \in BOOLEAN
    BY <1>8 DEF connectOutputs, First, ListsInv
  <2> QED BY <1>8, <2>1, <1>2 DEF connectOutputs
<1>9. CASE clear
  <2>1. <<>> \in Seq(Request) /\ IsFiniteSet({})
    BY SMT, FS_EmptySet
  <2> QED BY <1>9, <2>1 DEF clear, RequestsInv
<1>10. CASE \/ interrupt \/ joinDataThreads \/ CloseConnected \/ ConnectedClosed
            \/ CloseServerSocket \/ CloseMcSocket \/ InterruptMulticaster
  BY <1>10, <1>1 DEF interrupt, joinDataThreads, CloseConnected, ConnectedClosed,
                CloseServerSocket, CloseMcSocket, InterruptMulticaster
<1> QED BY <1>3, <1>4, <1>5, <1>6, <1>7, <1>8, <1>9, <1>10 DEF Next, closeOutputs

\* Each step of connectOutputs(), disconnect() and deleteDSMEngine() keeps the
\* engine's lists.
LEMMA ListsNext == OutputsInv /\ ListsInv /\ [Next]_vars => ListsInv'
<1> SUFFICES ASSUME OutputsInv, ListsInv, [Next]_vars PROVE ListsInv'
  OBVIOUS
<1> USE DEF requests, requester, channels, sorters, engine
<1>1. ASSUME UNCHANGED <<todo, epc>>, outputSet' \subseteq Object PROVE ListsInv'
  BY <1>1 DEF ListsInv
<1>2. CASE UNCHANGED vars \/ run \/ \E o \in Output : TimePasses(o)
  BY <1>2, <1>1 DEF vars, run, RequestTop, RequestRefused, RequestConnection,
     RequestDelete,
                    RequestSleep, RequestAwake, TimePasses, ListsInv
<1>3. ASSUME NEW o \in Output, Connecting(o) \/ ConnectingEnds(o) PROVE ListsInv'
  <2>1. CASE InsertOutput(o)
    <3>1. newout[o] \in Object
      BY <2>1 DEF InsertOutput, OutputsInv, Types
    <3> QED BY <2>1, <3>1, <1>1 DEF InsertOutput, ListsInv
  <2>2. CASE ~InsertOutput(o)
    BY <1>3, <2>2, <1>1 DEF Connecting, ConnectSocket, AcceptMulticast, offer,
                            AcceptConnection, AddClient, ThreadJoiner, ConnectingEnds,
                            OfferError, AcceptThrows, ListsInv
  <2> QED BY <2>1, <2>2
<1>4. ASSUME NEW s \in Sorter, Sorting(s) PROVE ListsInv'
  BY <1>4, <1>1 DEF Sorting, distribute, receive, DistributeEnds, removeSampleClient,
                    EraseOutput, DeleteLater, ConnectLater, SorterEnds, ListsInv
<1>5. CASE connectOutputs \/ interrupt \/ joinDataThreads
  BY <1>5 DEF connectOutputs, interrupt, joinDataThreads, ListsInv
<1>6. CASE closeOutputs
  BY <1>6, Constants DEF closeOutputs, CloseConnected, ConnectedClosed,
                         CloseServerSocket, CloseMcSocket, InterruptMulticaster, clear,
                         ListsInv, OutputsInv, EngineInv
<1> QED BY <1>2, <1>3, <1>4, <1>5, <1>6 DEF Next

\* The connections and requests of an output are countable.
LEMMA PendingType ==
    ASSUME RequestsInv, NEW o
    PROVE  /\ Requested(o, connectRequests) \in Nat /\ Requested(o, curreqs) \in Nat
           /\ Pending(o) \in Nat
<1>1. Requested(o, connectRequests) \in Nat /\ Requested(o, curreqs) \in Nat
  BY RequestedType DEF RequestsInv
<1> QED BY SMT, <1>1 DEF Pending

\* An output that run() has a request for has no connection thread, or is a server
\* with one.
LEMMA RequestedIdle ==
    ASSUME RequestsInv, ThreadsInv, OnceInv, curreqs # <<>>
    PROVE  /\ Head(curreqs).out \in Output
           /\ \/ Kind[Head(curreqs).out] = "server" /\ thread[Head(curreqs).out]
              \/ cpc[Head(curreqs).out] \in {"none", "jammed"}
<1> DEFINE p == Head(curreqs).out
<1>1. p \in Output
  <2>1. Head(curreqs) \in Request
    BY RequestedTail DEF RequestsInv
  <2> QED BY <2>1 DEF Request
<1>2. CASE Kind[p] = "server"
  BY <1>1, <1>2 DEF ThreadsInv
<1>3. CASE Kind[p] # "server"
  <2> DEFINE a == Requested(p, connectRequests)
             b == Requested(p, curreqs)
             t == Requested(p, Tail(curreqs))
             k == IF cpc[p] \in {"none", "jammed"} THEN 0 ELSE 1
  <2>1. Tail(curreqs) \in Seq(Request) /\ t = b - 1
    BY RequestedTail DEF RequestsInv
  <2>2. a \in Nat /\ b \in Nat /\ t \in Nat /\ k \in {0, 1}
    BY <2>1, PendingType, RequestedType
  <2>3. a + b + k <= 1
    BY <1>1, <1>3 DEF OnceInv, Pending
  <2>4. k # 1
    <3> HIDE DEF a, b, t, k
    <3> QED BY SMT, <2>1, <2>2, <2>3
  <2> QED BY <1>1, <2>4
<1> QED BY <1>1, <1>2, <1>3

\* Each step of the connection threads, the ThreadJoiners and close() keeps
\* what is known of the threads.
LEMMA ThreadsNext ==
    OutputsInv /\ RequestsInv /\ ThreadsInv /\ OnceInv /\ [Next]_vars => ThreadsInv'
<1> SUFFICES ASSUME OutputsInv, RequestsInv, ThreadsInv, OnceInv, [Next]_vars
             PROVE  ThreadsInv'
  OBVIOUS
<1> USE DEF requests, requester, channels, sorters, engine
<1>1. ASSUME UNCHANGED <<cpc, thread, joining, gaveUp, held, interrupted>> PROVE ThreadsInv'
  BY <1>1 DEF ThreadsInv
<1>2. CASE UNCHANGED vars \/ \E o \in Output : TimePasses(o)
  BY <1>2, <1>1 DEF vars, TimePasses
<1>3. CASE run
  <2> DEFINE o == Head(curreqs).out
             At(p) == /\ Kind[p] # "server" /\ thread'[p] =>
                           \/ cpc'[p] \in {"connect", "offer"}
                           \/ cpc'[p] \in {"none", "jammed"} /\ p \in gaveUp'
                      /\ Kind[p] = "server" /\ cpc'[p] # "none" => thread'[p]
                      /\ cpc'[p] = "offer" => Kind[p] = "mcrequest"
                      /\ thread[p] => thread'[p]
  <2>1. ASSUME NEW p \in Output, cpc'[p] = cpc[p], thread'[p] <=> thread[p],
               p \in gaveUp' <=> p \in gaveUp
        PROVE  At(p)
    BY <2>1 DEF ThreadsInv
  <2>2. ASSUME RequestRefused \/ RequestConnection, thread' \in [Output -> BOOLEAN],
               gaveUp' \subseteq Output, \A p \in Output : At(p)
        PROVE  ThreadsInv'
    <3> HIDE DEF o
    <3>1. UNCHANGED <<joining, held, interrupted>>
      BY <2>2 DEF RequestRefused, RequestConnection
    <3>2. held # None => Kind[held] = "mcrequest" /\ thread'[held]
      BY <2>2 DEF ThreadsInv, OutputsInv, Types
    <3> QED BY <2>2, <3>1, <3>2 DEF ThreadsInv
  <2>3. CASE RequestConnection
    <3>1. o \in Output
      BY <2>3, RequestedIdle DEF RequestConnection
    <3>2. /\ thread' = [thread EXCEPT ![o] = TRUE]
          /\ IF thread[o] THEN cpc' = cpc /\ gaveUp' = gaveUp
             ELSE cpc' = [cpc EXCEPT ![o] = "connect"] /\ gaveUp' = gaveUp \ {o}
      BY <2>3 DEF RequestConnection, requestConnection
    <3> HIDE DEF o
    <3>3. ASSUME NEW p \in Output PROVE At(p)
      <4>1. CASE p = o /\ ~thread[o]
        BY <4>1, <3>2 DEF OutputsInv, Types, ThreadsInv
      <4>2. CASE p # o \/ thread[o]
        <5>1. /\ cpc'[p] = cpc[p] /\ (thread'[p] <=> thread[p])
              /\ p \in gaveUp' <=> p \in gaveUp
          BY <4>2, <3>2 DEF OutputsInv, Types, ThreadsInv
        <5> QED BY <5>1, <2>1
      <4> QED BY <4>1, <4>2
    <3>4. thread' \in [Output -> BOOLEAN] /\ gaveUp' \subseteq Output
      BY <3>1, <3>2 DEF ThreadsInv
    <3> QED BY <2>3, <3>3, <3>4, <2>2
  <2>4. CASE RequestRefused
    <3>1. /\ o \in Output /\ ~thread[o]
          /\ cpc[o] \in {"none", "jammed"}
      BY <2>4, RequestedIdle DEF RequestRefused
    <3>2. \/ UNCHANGED <<cpc, thread, gaveUp>>
          \/ /\ thread' = [thread EXCEPT ![o] = TRUE]
             /\ cpc' = [cpc EXCEPT ![o] = IF Kind[o] = "mcrequest" THEN "jammed" ELSE @]
             /\ gaveUp' = gaveUp \union {o}
      BY <2>4 DEF RequestRefused, NotStarted, GivesUp
    <3> HIDE DEF o
    <3>3. ASSUME NEW p \in Output PROVE At(p)
      <4>1. CASE p = o /\ thread' # thread
        <5>1. /\ thread'[o] /\ o \in gaveUp'
              /\ cpc'[o] = IF Kind[o] = "mcrequest" THEN "jammed" ELSE cpc[o]
          BY <4>1, <3>1, <3>2 DEF OutputsInv, Types, ThreadsInv
        <5>2. cpc'[o] \in {"none", "jammed"}
          BY <5>1, <3>1
        <5> QED BY <4>1, <5>1, <5>2
      <4>2. CASE p # o \/ thread' = thread
        <5>1. /\ cpc'[p] = cpc[p] /\ (thread'[p] <=> thread[p])
              /\ p \in gaveUp' <=> p \in gaveUp
          <6>1. CASE UNCHANGED <<cpc, thread, gaveUp>>
            BY <6>1
          <6>2. CASE p # o /\ ~UNCHANGED <<cpc, thread, gaveUp>>
            BY <6>2, <3>2 DEF OutputsInv, Types, ThreadsInv
          <6>3. thread' = thread => UNCHANGED <<cpc, thread, gaveUp>>
            <7>1. [thread EXCEPT ![o] = TRUE][o]
              BY <3>1 DEF ThreadsInv
            <7> QED BY <3>1, <3>2, <7>1
          <6> QED BY <4>2, <6>1, <6>2, <6>3
        <5> QED BY <5>1, <2>1
      <4> QED BY <4>1, <4>2
    <3>4. thread' \in [Output -> BOOLEAN] /\ gaveUp' \subseteq Output
      BY <3>1, <3>2 DEF ThreadsInv
    <3> QED BY <2>4, <3>3, <3>4, <2>2
  <2>5. CASE RequestTop \/ RequestDelete \/ RequestSleep \/ RequestAwake
    BY <2>5, <1>1 DEF RequestTop, RequestDelete, RequestSleep, RequestAwake
  <2> QED BY <1>3, <2>3, <2>4, <2>5 DEF run
<1>4. ASSUME NEW o \in Output, Connecting(o) PROVE ThreadsInv'
  <2>1. /\ UNCHANGED <<held, interrupted, gaveUp>>
        /\ thread' \in [Output -> BOOLEAN] /\ joining' \in [Output -> BOOLEAN]
    BY <1>4 DEF Connecting, ConnectSocket, AcceptMulticast, offer, AcceptConnection,
                connected, InsertOutput, AddClient, ThreadJoiner, ThreadsInv
  <2>2. \A p \in Output : p # o => /\ cpc'[p] = cpc[p] /\ thread'[p] = thread[p]
                                   /\ joining'[p] = joining[p]
    BY ZenonT(60), <1>4 DEF Connecting, ConnectSocket, AcceptMulticast, offer,
       AcceptConnection,
                connected, InsertOutput, AddClient, ThreadJoiner, ThreadsInv, OutputsInv,
                Types
  <2>3. Kind[o] # "server" /\ thread'[o] =>
           \/ cpc'[o] \in {"connect", "offer"}
           \/ cpc'[o] \in {"none", "jammed"} /\ o \in gaveUp
    <3>1. CASE ConnectSocket(o) \/ offer(o) \/ ThreadJoiner(o)
      BY <3>1 DEF ConnectSocket, offer, ThreadJoiner, ThreadsInv
    <3>2. CASE AcceptMulticast(o)
      BY <3>2 DEF AcceptMulticast, OutputsInv, Types
    <3>3. CASE AcceptConnection(o)
      BY <3>3 DEF AcceptConnection
    <3>4. CASE InsertOutput(o) \/ AddClient(o)
      BY <3>4 DEF InsertOutput, AddClient, ThreadsInv
    <3> QED BY <1>4, <3>1, <3>2, <3>3, <3>4 DEF Connecting
  <2>4. joining'[o] => Kind[o] = "client"
    BY <1>4 DEF Connecting, ConnectSocket, AcceptMulticast, offer, AcceptConnection,
                InsertOutput, AddClient, ThreadJoiner, ThreadsInv
  <2>6. Kind[o] = "server" /\ cpc'[o] # "none" => thread'[o]
    BY <1>4 DEF Connecting, ConnectSocket, AcceptMulticast, offer, AcceptConnection,
                InsertOutput, AddClient, ThreadJoiner, ThreadsInv
  <2>7. cpc'[o] = "offer" => Kind[o] = "mcrequest"
    BY ZenonT(60), <1>4 DEF Connecting, ConnectSocket, AcceptMulticast, offer,
       AcceptConnection,
                connected, InsertOutput, AddClient, ThreadJoiner, ThreadsInv, OutputsInv,
                Types
  <2>5. held = o => thread'[o]
    <3>1. CASE ConnectSocket(o) \/ ThreadJoiner(o)
      BY <3>1, Constants DEF ConnectSocket, ThreadJoiner, ThreadsInv
    <3>2. CASE offer(o)
      BY <3>2 DEF offer
    <3>3. CASE AcceptMulticast(o) \/ AcceptConnection(o) \/ InsertOutput(o) \/ AddClient(o)
      BY <3>3, Constants DEF AcceptMulticast, AcceptConnection, InsertOutput, AddClient,
                             ThreadsInv
    <3> QED BY <1>4, <3>1, <3>2, <3>3 DEF Connecting
  <2> QED BY ZenonT(60), <2>1, <2>2, <2>3, <2>4, <2>5, <2>6, <2>7 DEF ThreadsInv,
             OutputsInv, Types
<1>5. ASSUME NEW o \in Output, ConnectingEnds(o) PROVE ThreadsInv'
  <2>1. /\ UNCHANGED <<joining, held, interrupted>>
        /\ cpc' = [cpc EXCEPT ![o] = "none"] /\ gaveUp' = gaveUp \union {o}
        /\ \/ thread' = thread
           \/ held # o /\ thread' = [thread EXCEPT ![o] = FALSE]
    BY <1>5 DEF ConnectingEnds, OfferError, AcceptThrows, GivesUp
  <2>2. /\ thread' \in [Output -> BOOLEAN] /\ gaveUp' \subseteq Output
        /\ cpc'[o] = "none" /\ o \in gaveUp'
        /\ held # None => (thread'[held] <=> thread[held])
    BY <2>1 DEF ThreadsInv, OutputsInv, Types
  <2>3. ASSUME NEW p \in Output
        PROVE  /\ Kind[p] # "server" /\ thread'[p] =>
                     \/ cpc'[p] \in {"connect", "offer"}
                     \/ cpc'[p] \in {"none", "jammed"} /\ p \in gaveUp'
               /\ Kind[p] = "server" /\ cpc'[p] # "none" => thread'[p]
               /\ cpc'[p] = "offer" => Kind[p] = "mcrequest"
               /\ joining'[p] => Kind[p] = "client"
    <3>1. CASE p = o
      BY <3>1, <2>1, <2>2 DEF ThreadsInv
    <3>2. CASE p # o
      <4>1. /\ cpc'[p] = cpc[p] /\ (thread'[p] <=> thread[p])
            /\ p \in gaveUp' <=> p \in gaveUp
        BY <3>2, <2>1 DEF ThreadsInv, OutputsInv, Types
      <4>2. joining' = joining
        BY <2>1
      <4> QED BY <4>1, <4>2 DEF ThreadsInv
    <3> QED BY <3>1, <3>2
  <2> QED BY <2>1, <2>2, <2>3 DEF ThreadsInv
<1>6. ASSUME NEW s \in Sorter, Sorting(s) PROVE ThreadsInv'
  BY <1>6, <1>1 DEF Sorting, distribute, receive, DistributeEnds, removeSampleClient,
                    EraseOutput, DeleteLater, ConnectLater, SorterEnds
<1>7. CASE \/ connectOutputs \/ interrupt \/ joinDataThreads \/ CloseConnected
           \/ ConnectedClosed \/ clear
  BY <1>7, <1>1 DEF connectOutputs, interrupt, joinDataThreads, CloseConnected,
                    ConnectedClosed, clear
<1>8. epc = "config" /\ todo # {} => First(todo) \in Output
  BY DEF OutputsInv, EngineInv, First
<1>9. CASE CloseServerSocket
  <2> DEFINE o == First(todo)
  <2>1. /\ o \in Output /\ Kind[o] = "server"
        /\ interrupted' = interrupted \union (IF thread[o] THEN {o} ELSE {})
        /\ cpc' = [cpc EXCEPT ![o] = IF @ = "connect" THEN "none" ELSE @]
        /\ UNCHANGED <<thread, joining, gaveUp, held>>
    BY <1>8, <1>9 DEF CloseServerSocket
  <2> HIDE DEF o
  <2>2. /\ cpc'[o] = IF cpc[o] = "connect" THEN "none" ELSE cpc[o]
        /\ \A p \in Output : p # o => cpc'[p] = cpc[p]
    BY <2>1 DEF OutputsInv, Types
  <2>3. /\ cpc'[o] # "none" => thread[o]
        /\ cpc'[o] # "offer"
    <3>1. cpc'[o] = "none" \/ cpc'[o] = cpc[o]
      BY <2>2
    <3>2. (cpc[o] # "none" => thread[o]) /\ cpc[o] # "offer"
      BY <2>1 DEF ThreadsInv
    <3> QED BY <3>1, <3>2
  <2>4. interrupted' \subseteq Output
    BY <2>1 DEF ThreadsInv
  <2> QED BY <2>1, <2>2, <2>3, <2>4 DEF ThreadsInv
<1>10. CASE CloseMcSocket
  <2> DEFINE o == First(todo)
  <2>1. /\ Kind[o] = "mcrequest" /\ held' = IF thread[o] THEN o ELSE None
        /\ UNCHANGED <<cpc, thread, joining, gaveUp, interrupted>>
    BY <1>10 DEF CloseMcSocket
  <2> QED BY <2>1 DEF ThreadsInv
<1>11. CASE InterruptMulticaster
  <2>1. /\ held \in Output /\ held' = None
        /\ cpc' = [cpc EXCEPT ![held] = "none"]
        /\ thread' = [thread EXCEPT ![held] = FALSE]
        /\ UNCHANGED <<joining, gaveUp, interrupted>>
    BY <1>11 DEF InterruptMulticaster, OutputsInv, Types
  <2>2. /\ cpc'[held] = "none" /\ ~thread'[held] /\ Kind[held] = "mcrequest"
        /\ \A p \in Output : p # held => cpc'[p] = cpc[p] /\ thread'[p] = thread[p]
        /\ thread' \in [Output -> BOOLEAN]
    BY <2>1, Constants DEF ThreadsInv, OutputsInv, Types
  <2> QED BY ZenonT(60), <2>1, <2>2 DEF ThreadsInv
<1> QED BY ZenonT(60), <1>2, <1>3, <1>4, <1>5, <1>6, <1>7, <1>9, <1>10, <1>11 DEF Next,
           closeOutputs

-----------------------------------------------------------------------------
\* What becomes of an output that is requested or connecting: it still is, or its
\* connection thread has failed and nothing is left of it.  A thread that is
\* started again has the output that was requested.
PendingMoves(o) ==
    \/ Pending(o)' = Pending(o) /\ (o \in gaveUp => o \in gaveUp')
    \/ Pending(o) = 1 /\ Pending(o)' = 1
    \/ Pending(o)' = Pending(o) - 1 /\ o \in gaveUp'

\* A step of the request thread moves the request of an output from list to
\* list, and to a connection thread.
LEMMA PendingRun ==
    ASSUME OutputsInv, RequestsInv, ThreadsInv, NEW o \in Output, Kind[o] # "server",
           Pending(o) <= 1, run \/ \E p \in Output : TimePasses(p)
    PROVE  PendingMoves(o)
<1> USE DEF requests, requester, channels, sorters, engine
<1> DEFINE a == Requested(o, connectRequests)
           b == Requested(o, curreqs)
           k == IF cpc[o] \in {"none", "jammed"} THEN 0 ELSE 1
<1>0. /\ a \in Nat /\ b \in Nat /\ k \in {0, 1}
      /\ Pending(o) = a + b + k
      /\ Pending(o)' = a' + b' + k'
  BY PendingType DEF Pending
<1>00. connectRequests \in Seq(Request) /\ curreqs \in Seq(Request)
  BY DEF RequestsInv
<1>1. CASE RequestTop
  <2>1. CASE connectRequests = <<>> /\ disconnectRequests = {}
    BY <1>1, <2>1 DEF RequestTop, Pending, PendingMoves
  <2>2. CASE ~(connectRequests = <<>> /\ disconnectRequests = {})
    <3> DEFINE all == 1..Len(connectRequests)
               come == {i \in all : connectRequests[i].due}
    <3>1. /\ curreqs' = Selected(connectRequests, come)
          /\ connectRequests' = Selected(connectRequests, all \ come)
          /\ cpc' = cpc /\ gaveUp' = gaveUp /\ curreqs = <<>>
      BY <1>1, <2>2 DEF RequestTop, RequestsInv
    <3>2. come \in SUBSET all
      OBVIOUS
    <3> HIDE DEF come
    <3>3. b' + a' = a
      BY <3>1, <3>2, <1>00, RequestedSplit
    <3>4. b = 0
      BY <3>1, RequestedNone
    <3>5. k' = k
      BY <3>1
    <3>6. a' \in Nat /\ b' \in Nat
      BY <3>1, <3>2, <1>00, SelectedIs, RequestedType
    <3> HIDE DEF a, b, k
    <3>7. a' + b' = b' + a' /\ a + 0 = a
      BY SMT, <1>0, <3>6
    <3>8. Pending(o)' = Pending(o)
      BY <1>0, <3>3, <3>4, <3>5, <3>7
    <3> QED BY <3>1, <3>8 DEF PendingMoves
  <2> QED BY <2>1, <2>2
<1>2. ASSUME curreqs # <<>>, curreqs' = Tail(curreqs)
      PROVE  /\ Head(curreqs).out \in Output
             /\ b' = b - IF Head(curreqs).out = o THEN 1 ELSE 0
             /\ b' \in Nat
  <2>1. /\ Head(curreqs) \in Request /\ Tail(curreqs) \in Seq(Request)
        /\ Requested(o, Tail(curreqs)) = b - IF Head(curreqs).out = o THEN 1 ELSE 0
    BY <1>2, <1>00, RequestedTail
  <2>2. Requested(o, Tail(curreqs)) \in Nat
    BY <2>1, RequestedType
  <2> QED BY <1>2, <2>1, <2>2 DEF Request
<1>3. CASE RequestRefused
  <2> DEFINE p == Head(curreqs).out
             n == IF p = o THEN 1 ELSE 0
  <2>1. /\ curreqs # <<>> /\ curreqs' = Tail(curreqs)
        /\ connectRequests' = Append(connectRequests, [out |-> p, due |-> FALSE])
        /\ \/ UNCHANGED <<cpc, gaveUp>>
           \/ /\ cpc' = [cpc EXCEPT ![p] = IF Kind[p] = "mcrequest" THEN "jammed" ELSE @]
              /\ gaveUp' = gaveUp \union {p}
    BY <1>3 DEF RequestRefused, NotStarted, GivesUp, addConnectRequest
  <2>2. p \in Output /\ b' \in Nat /\ b' = b - n
    BY <2>1, <1>2
  <2>3. a' = a + n
    <3>1. [out |-> p, due |-> FALSE] \in Request
      BY <2>2 DEF Request
    <3>2. Requested(o, Append(connectRequests, [out |-> p, due |-> FALSE]))
            = a + IF [out |-> p, due |-> FALSE].out = o THEN 1 ELSE 0
      BY <3>1, <1>00, RequestedAppend
    <3>3. [out |-> p, due |-> FALSE].out = p
      OBVIOUS
    <3> QED BY <2>1, <3>2, <3>3
  <2>4. k' = k
    <3>1. CASE p # o
      <4> HIDE DEF p
      <4>1. cpc'[o] = cpc[o]
        BY <2>1, <3>1 DEF OutputsInv, Types
      <4> QED BY <4>1
    <3>2. CASE p = o
      <4>1. n = 1
        BY <3>2
      <4>2. k = 0
        <5> HIDE DEF a, b, k, n
        <5> QED BY SMT, <1>0, <2>2, <4>1
      <4>3. cpc[o] \in {"none", "jammed"}
        <5>1. 0 # 1
          BY SMT
        <5> QED BY <4>2, <5>1
      <4>4. cpc'[o] \in {"none", "jammed"}
        BY <2>1, <3>2, <4>3 DEF OutputsInv, Types
      <4> QED BY <4>3, <4>4
    <3> QED BY <3>1, <3>2
  <2>5. Pending(o)' = Pending(o)
    <3>1. n \in {0, 1}
      OBVIOUS
    <3> HIDE DEF a, b, k, n
    <3> QED BY SMT, <1>0, <2>2, <2>3, <2>4, <3>1
  <2>6. gaveUp \subseteq gaveUp'
    BY <2>1
  <2> QED BY <2>5, <2>6 DEF PendingMoves
<1>4. CASE RequestConnection
  <2> DEFINE p == Head(curreqs).out
  <2>1. /\ curreqs # <<>> /\ curreqs' = Tail(curreqs)
        /\ connectRequests' = connectRequests
        /\ IF thread[p] THEN cpc' = cpc /\ gaveUp' = gaveUp
           ELSE cpc' = [cpc EXCEPT ![p] = "connect"] /\ gaveUp' = gaveUp \ {p}
        /\ cpc[p] # "jammed"
    BY <1>4 DEF RequestConnection, requestConnection
  <2>2. p \in Output /\ b' \in Nat /\ b' = b - IF p = o THEN 1 ELSE 0
    BY <2>1, <1>2
  <2>3. a' = a
    BY <2>1
  <2> HIDE DEF p
  <2>4. CASE p # o
    <3>1. b' = b - 0
      BY <2>2, <2>4
    <3>2. k' = k
      <4>1. cpc'[o] = cpc[o]
        BY <2>1, <2>4 DEF OutputsInv, Types
      <4> QED BY <4>1
    <3>3. Pending(o)' = Pending(o)
      <4> HIDE DEF a, b, k
      <4> QED BY SMT, <1>0, <2>3, <3>1, <3>2
    <3>4. o \in gaveUp => o \in gaveUp'
      BY <2>1, <2>4
    <3> QED BY <3>3, <3>4 DEF PendingMoves
  <2>5. CASE p = o
    <3>1. b' = b - 1
      BY <2>2, <2>5
    <3>2. a = 0 /\ b = 1 /\ k = 0
      <4> HIDE DEF a, b, k
      <4> QED BY SMT, <1>0, <2>2, <3>1
    <3>3. cpc[o] = "none"
      <4>1. 0 # 1
        BY SMT
      <4>2. cpc[o] \in {"none", "jammed"}
        BY <3>2, <4>1
      <4> QED BY <2>1, <2>5, <4>2
    <3>4. CASE thread[o]
      <4>1. cpc' = cpc /\ gaveUp' = gaveUp
        BY <2>1, <2>5, <3>4
      <4>2. k' = k
        BY <4>1
      <4>3. o \in gaveUp'
        BY <3>3, <3>4, <4>1 DEF ThreadsInv
      <4>4. Pending(o)' = Pending(o) - 1
        <5> HIDE DEF a, b, k
        <5> QED BY SMT, <1>0, <2>3, <3>1, <3>2, <4>2
      <4> QED BY <4>3, <4>4 DEF PendingMoves
    <3>5. CASE ~thread[o]
      <4>1. cpc'[o] = "connect"
        BY <2>1, <2>5, <3>5 DEF OutputsInv, Types
      <4>2. k' = 1
        BY <4>1
      <4>3. Pending(o) = 1 /\ Pending(o)' = 1
        <5> HIDE DEF a, b, k
        <5> QED BY SMT, <1>0, <2>3, <3>1, <3>2, <4>2
      <4> QED BY <4>3 DEF PendingMoves
    <3> QED BY <3>4, <3>5
  <2> QED BY <2>4, <2>5
<1>5. CASE RequestDelete \/ RequestSleep \/ RequestAwake
  BY <1>5 DEF RequestDelete, RequestSleep, RequestAwake, Pending, PendingMoves
<1>6. ASSUME NEW p \in Output, TimePasses(p) PROVE PendingMoves(o)
  <2>1. PICK i \in 1..Len(connectRequests) :
            connectRequests' = [connectRequests EXCEPT ![i].due = TRUE]
    BY <1>6 DEF TimePasses
  <2>2. a' = a
    BY <2>1, <1>00, RequestedDue
  <2> QED BY <1>6, <2>2 DEF TimePasses, Pending, PendingMoves
<1> QED BY <1>1, <1>3, <1>4, <1>5, <1>6 DEF run

\* A connection thread has its output until it receives samples.
LEMMA PendingConnecting ==
    ASSUME OutputsInv, RequestsInv, NEW o \in Output, Kind[o] # "server",
           NEW p \in Output, Connecting(p)
    PROVE  Pending(o)' = Pending(o) - IF p = o /\ AddClient(p) THEN 1 ELSE 0
<1> USE DEF requests, requester, channels, sorters, engine
<1> DEFINE k == IF cpc[o] \in {"none", "jammed"} THEN 0 ELSE 1
           c == Requested(o, connectRequests) + Requested(o, curreqs)
<1>1. /\ Pending(o) = c + k /\ Pending(o)' = c' + k'
      /\ c \in Nat /\ k \in {0, 1}
  <2>1. Requested(o, connectRequests) \in Nat /\ Requested(o, curreqs) \in Nat
    BY PendingType
  <2>2. c \in Nat
    BY SMT, <2>1
  <2> QED BY <2>2 DEF Pending
<1>2. c' = c
  BY DEF Connecting, ConnectSocket, AcceptMulticast, offer, AcceptConnection,
     InsertOutput,
         AddClient, ThreadJoiner
<1>3. CASE p # o
  <2>1. cpc'[o] = cpc[o]
    BY <1>3 DEF Connecting, ConnectSocket, AcceptMulticast, offer, AcceptConnection,
                connected, InsertOutput, AddClient, ThreadJoiner, OutputsInv, Types
  <2>2. k' = k /\ ~(p = o /\ AddClient(p))
    BY <2>1, <1>3
  <2> HIDE DEF c, k
  <2>3. Pending(o)' = Pending(o) - 0
    BY SMT, <1>1, <1>2, <2>2
  <2> QED BY <2>2, <2>3
<1>4. CASE p = o /\ AddClient(p)
  <2>1. cpc[o] = "add" /\ cpc'[o] = "none"
    BY <1>4 DEF AddClient, OutputsInv, Types
  <2>2. k = 1 /\ k' = 0
    BY <2>1
  <2> HIDE DEF c, k
  <2>3. Pending(o)' = Pending(o) - 1
    BY SMT, <1>1, <1>2, <2>2
  <2> QED BY <1>4, <2>3
<1>5. CASE p = o /\ ~AddClient(p)
  <2>1. (cpc[o] \notin {"none", "jammed"} /\ cpc'[o] \notin {"none", "jammed"}) \/ cpc' = cpc
    BY <1>5 DEF Connecting, ConnectSocket, AcceptMulticast, offer, AcceptConnection,
                connected, InsertOutput, ThreadJoiner, OutputsInv, Types
  <2>2. k' = k
    BY <2>1
  <2> HIDE DEF c, k
  <2>3. Pending(o)' = Pending(o) - 0
    BY SMT, <1>1, <1>2, <2>2
  <2> QED BY <1>5, <2>3
<1> QED BY <1>3, <1>4, <1>5

\* A thread that ends without a connection leaves nothing of its output.
LEMMA PendingEnds ==
    ASSUME OutputsInv, RequestsInv, NEW o \in Output, NEW p \in Output,
           ConnectingEnds(p)
    PROVE  PendingMoves(o)
<1> USE DEF requests, requester, channels, sorters, engine
<1>1. /\ cpc[p] \in {"connect", "offer"} /\ cpc' = [cpc EXCEPT ![p] = "none"]
      /\ gaveUp' = gaveUp \union {p} /\ UNCHANGED <<connectRequests, curreqs>>
  BY DEF ConnectingEnds, OfferError, AcceptThrows, GivesUp
<1>2. CASE p # o
  <2>1. cpc'[o] = cpc[o] /\ (o \in gaveUp => o \in gaveUp')
    BY <1>1, <1>2 DEF OutputsInv, Types
  <2> QED BY <1>1, <2>1 DEF Pending, PendingMoves
<1>3. CASE p = o
  <2> DEFINE c == Requested(o, connectRequests) + Requested(o, curreqs)
  <2>1. Requested(o, connectRequests) \in Nat /\ Requested(o, curreqs) \in Nat
    BY PendingType
  <2>2. c \in Nat /\ (c + 1) - 1 = c + 0
    BY SMT, <2>1
  <2>3. cpc[o] \notin {"none", "jammed"} /\ cpc'[o] = "none" /\ o \in gaveUp'
    BY <1>1, <1>3 DEF OutputsInv, Types
  <2>4. Pending(o) = c + 1 /\ Pending(o)' = c + 0
    BY <1>1, <2>3 DEF Pending
  <2> QED BY <2>2, <2>3, <2>4 DEF PendingMoves
<1> QED BY <1>2, <1>3

-----------------------------------------------------------------------------
\* The engine is not started again.
LEMMA StillRunning == [Next]_vars /\ Running' => Running
<1> USE DEF requests, requester, channels, sorters, engine
<1>1. ASSUME UNCHANGED epc PROVE Running' => Running
  BY <1>1 DEF Running
<1>2. CASE connectOutputs \/ interrupt \/ joinDataThreads \/ closeOutputs
  BY <1>2, <1>1 DEF connectOutputs, interrupt, joinDataThreads, closeOutputs,
     CloseConnected,
                    ConnectedClosed, CloseServerSocket, CloseMcSocket,
                    InterruptMulticaster, clear, Running
<1>3. CASE UNCHANGED vars \/ run \/ \E o \in Output : TimePasses(o)
  BY <1>3, <1>1 DEF vars, run, RequestTop, RequestRefused, RequestConnection,
     RequestDelete,
                    RequestSleep, RequestAwake, TimePasses
<1>4. CASE \E o \in Output : Connecting(o) \/ ConnectingEnds(o)
  BY <1>4, <1>1 DEF Connecting, ConnectSocket, AcceptMulticast, offer, AcceptConnection,
                    InsertOutput, AddClient, ThreadJoiner, ConnectingEnds, OfferError,
                    AcceptThrows
<1>5. CASE \E s \in Sorter : Sorting(s)
  BY <1>5, <1>1 DEF Sorting, distribute, receive, DistributeEnds, removeSampleClient,
                    EraseOutput, DeleteLater, ConnectLater, SorterEnds
<1> QED BY <1>2, <1>3, <1>4, <1>5 DEF Next

\* x is an output that a connection thread, the list of clients or a sorter
\* has a pointer to.
Used(x) ==
    \/ x \in clients
    \/ \E s \in Sorter : x \in tmp[s] \/ x = cur[s]
    \/ \E o \in Output : cpc[o] \in {"insert", "add"} /\ x = newout[o]

\* While the engine runs, the original of such an output does not change: it
\* is not deleted, and its address not used again.
LEMMA OriginalKept ==
    ASSUME OutputsInv, [Next]_vars, Running', NEW x, Used(x)
    PROVE  getOriginal(x)' = getOriginal(x)
<1> USE DEF requests, requester, channels, sorters, engine
<1>1. Running
  BY StillRunning
<1>2. CASE x \notin Clone
  BY <1>2 DEF getOriginal
<1>3. CASE x \in Clone
  <2>1. x \in Connected \union Inserting \union Disconnecting
    <3>1. \A c \in Clone : c \in outputSet => c \in Connected
      BY <1>1 DEF Connected, Running
    <3>2. CASE x \in clients
      BY <3>1, <3>2, <1>1, <1>3 DEF OutputsInv, EngineInv
    <3>3. CASE \E s \in Sorter : x \in tmp[s]
      BY <3>1, <3>3, <1>3 DEF OutputsInv, SorterInv
    <3>4. ASSUME NEW s \in Sorter, x = cur[s] PROVE x \in Connected \union Disconnecting
      <4>1. x # None /\ x \notin Output
        BY <1>3, Constants
      <4>2. spc[s] \in {"remove", "erase"} \/ spc[s] = "delete"
        <5>1. spc[s] \notin {"idle", "done", "loop"} /\ spc[s] # "reconnect"
          BY <3>4, <4>1 DEF OutputsInv, SorterInv
        <5>2. spc[s] \in {"idle", "loop", "remove", "erase", "delete", "reconnect", "done"}
          BY DEF OutputsInv, Types
        <5> QED BY <5>1, <5>2
      <4> QED BY <3>1, <3>4, <4>2, <1>3 DEF OutputsInv, SorterInv, Disconnecting
    <3>5. CASE \E o \in Output : cpc[o] \in {"insert", "add"} /\ x = newout[o]
      BY <3>1, <3>5, <1>1, <1>3 DEF OutputsInv, ChannelInv, Inserting
    <3> QED BY <3>2, <3>3, <3>4, <3>5 DEF Used
  <2>2. ASSUME UNCHANGED original PROVE getOriginal(x)' = getOriginal(x)
    BY <2>2 DEF getOriginal
  <2>3. CASE run
    <3>1. CASE RequestDelete
      <4>1. PICK c \in curdis :
                original' = [k \in Clone |-> IF k \in {c} THEN None ELSE original[k]]
        BY <3>1 DEF RequestDelete, Delete
      <4>2. x # c
        BY <2>1, <4>1 DEF OutputsInv, DeletedOnce
      <4> QED BY <4>1, <4>2, <1>3 DEF getOriginal
    <3>2. CASE ~RequestDelete
      BY <2>3, <3>2, <2>2 DEF run, RequestTop, RequestRefused, RequestConnection,
                              RequestSleep, RequestAwake
    <3> QED BY <3>1, <3>2
  <2>4. ASSUME NEW o \in Output, Connecting(o) \/ ConnectingEnds(o)
        PROVE  getOriginal(x)' = getOriginal(x)
    <3>1. CASE connected(o)
      <4>1. PICK c \in Clone \ alive : original' = [original EXCEPT ![c] = o]
        BY <3>1 DEF connected
      <4>2. x # c
        BY <2>1, <4>1 DEF OutputsInv, DeletedOnce, Owned
      <4> QED BY <4>1, <4>2, <1>3 DEF getOriginal, OutputsInv, Types
    <3>2. CASE ~connected(o)
      BY <2>4, <3>2, <2>2 DEF Connecting, ConnectSocket, AcceptMulticast, offer,
                              AcceptConnection, InsertOutput, AddClient, ThreadJoiner,
                              ConnectingEnds, OfferError, AcceptThrows
    <3> QED BY <3>1, <3>2
  <2>5. ASSUME NEW s \in Sorter, Sorting(s) PROVE getOriginal(x)' = getOriginal(x)
    BY <2>5, <2>2 DEF Sorting, distribute, receive, DistributeEnds, removeSampleClient,
                      EraseOutput, DeleteLater, ConnectLater, SorterEnds
  <2>6. ~CloseConnected /\ ~clear
    BY <1>1 DEF CloseConnected, clear, Running
  <2>7. CASE UNCHANGED vars \/ \E o \in Output : TimePasses(o)
    BY <2>7, <2>2 DEF vars, TimePasses
  <2>8. CASE connectOutputs \/ interrupt \/ joinDataThreads \/ closeOutputs
    BY <2>8, <2>6, <2>2 DEF connectOutputs, interrupt, joinDataThreads, closeOutputs,
                            ConnectedClosed, CloseServerSocket, CloseMcSocket,
                            InterruptMulticaster
  <2> QED BY <2>3, <2>4, <2>5, <2>7, <2>8 DEF Next
<1> QED BY <1>2, <1>3

\* While the engine runs, the output that a connection thread has connected is
\* its own or a clone of it.
OriginInv ==
    Running => \A o \in Output :
                   cpc[o] \in {"insert", "add"} => getOriginal(newout[o]) = o

\* A connection thread clones its own output and passes on nothing else.
LEMMA OriginNext ==
    OutputsInv /\ RequestsInv /\ OriginInv /\ [Next]_vars => OriginInv'
<1> SUFFICES ASSUME OutputsInv, RequestsInv, OriginInv, [Next]_vars, Running', NEW o \in Output,
                    cpc'[o] \in {"insert", "add"}
             PROVE  getOriginal(newout[o])' = o
  BY DEF OriginInv
<1> USE DEF requests, requester, channels, sorters, engine
<1>1. Running
  BY StillRunning
<1>2. ASSUME newout'[o] = newout[o], cpc[o] \in {"insert", "add"}
      PROVE  getOriginal(newout[o])' = o
  <2>1. PICK x : x = newout[o]
    OBVIOUS
  <2>2. getOriginal(x)' = getOriginal(x)
    BY <1>2, <2>1, OriginalKept DEF Used
  <2>3. getOriginal(x) = o
    BY <1>1, <1>2, <2>1 DEF OriginInv
  <2> QED BY <1>2, <2>1, <2>2, <2>3 DEF getOriginal
<1>3. CASE run \/ UNCHANGED vars \/ \E p \in Output : TimePasses(p)
  <2>1. newout' = newout /\ (cpc' = cpc \/ RequestConnection \/ RequestRefused)
    BY <1>3 DEF vars, run, RequestTop, RequestRefused, RequestConnection, RequestDelete,
                RequestSleep, RequestAwake, TimePasses
  <2>2. cpc[o] \in {"insert", "add"}
    BY <2>1 DEF RequestConnection, requestConnection, RequestRefused, NotStarted,
                OutputsInv, Types
  <2> QED BY <2>1, <2>2, <1>2
<1>4. ASSUME NEW p \in Output, Connecting(p) PROVE getOriginal(newout[o])' = o
  <2>1. CASE p # o
    <3>1. newout'[o] = newout[o] /\ cpc'[o] = cpc[o]
      BY <1>4, <2>1 DEF Connecting, ConnectSocket, AcceptMulticast, offer,
         AcceptConnection,
                connected, InsertOutput, AddClient, ThreadJoiner, OutputsInv, Types
    <3> QED BY <3>1, <1>2
  <2>2. CASE p = o /\ ConnectSocket(p)
    <3>1. newout'[o] = o
      BY <2>2 DEF ConnectSocket, OutputsInv, Types
    <3> QED BY <3>1, Constants DEF getOriginal
  <2>3. CASE p = o /\ connected(p)
    <3>1. PICK c \in Clone \ alive : /\ original' = [original EXCEPT ![c] = o]
                                     /\ newout' = [newout EXCEPT ![o] = c]
      BY <2>3 DEF connected
    <3>2. newout'[o] = c /\ original'[c] = o
      BY <3>1 DEF OutputsInv, Types
    <3> QED BY <3>1, <3>2 DEF getOriginal
  <2>4. CASE p = o /\ ~ConnectSocket(p) /\ ~connected(p)
    <3>1. newout'[o] = newout[o] /\ cpc[o] \in {"insert", "add"}
      BY <1>4, <2>4 DEF Connecting, AcceptMulticast, offer, AcceptConnection,
                InsertOutput, AddClient, ThreadJoiner, OutputsInv, Types
    <3> QED BY <3>1, <1>2
  <2> QED BY <2>1, <2>2, <2>3, <2>4
<1>5. CASE \E s \in Sorter : Sorting(s)
  BY <1>5, <1>2 DEF Sorting, distribute, receive, DistributeEnds, removeSampleClient,
                    EraseOutput, DeleteLater, ConnectLater, SorterEnds
<1>6. CASE connectOutputs \/ interrupt
  BY <1>6, <1>2 DEF connectOutputs, interrupt
<1>7. ~joinDataThreads /\ ~closeOutputs
  BY <1>1 DEF joinDataThreads, closeOutputs, CloseConnected, ConnectedClosed,

              CloseServerSocket, CloseMcSocket, InterruptMulticaster, clear, Running,
              OutputsInv, EngineInv
<1>8. ASSUME NEW p \in Output, ConnectingEnds(p) PROVE getOriginal(newout[o])' = o
  <2>1. cpc' = [cpc EXCEPT ![p] = "none"] /\ newout' = newout
    BY <1>8 DEF ConnectingEnds, OfferError, AcceptThrows
  <2>2. cpc[o] \in {"insert", "add"}
    BY <2>1 DEF OutputsInv, Types
  <2> QED BY <2>1, <2>2, <1>2
<1> QED BY <1>3, <1>4, <1>5, <1>6, <1>7, <1>8 DEF Next

\* While the engine runs, a sorter disconnects its own clients only, and each
\* of them once.
ClientsInv ==
    /\ IsFiniteSet(clients)
    /\ Running => \A s \in Sorter :
          /\ \A c \in tmp[s] : c \in clients /\ Source[getOriginal(c)] = s
          /\ spc[s] = "remove" => /\ cur[s] \in clients /\ cur[s] \notin tmp[s]
                                  /\ Source[getOriginal(cur[s])] = s

\* A sorter's list and the output it removes, and the rest of the clients.
LEMMA ClientsNext == OutputsInv /\ ClientsInv /\ [Next]_vars => ClientsInv'
<1> SUFFICES ASSUME OutputsInv, ClientsInv, [Next]_vars PROVE ClientsInv'
  OBVIOUS
<1> USE DEF requests, requester, channels, sorters, engine
<1>1. \E x : clients' \in {clients, clients \union {x}, clients \ {x}}
  <2>1. CASE UNCHANGED vars \/ run \/ \E o \in Output : TimePasses(o)
    BY <2>1 DEF vars, run, RequestTop, RequestRefused, RequestConnection, RequestDelete,
                RequestSleep, RequestAwake, TimePasses
  <2>2. CASE \E o \in Output : Connecting(o) \/ ConnectingEnds(o)
    BY <2>2 DEF Connecting, ConnectSocket, AcceptMulticast, offer, AcceptConnection,
                InsertOutput, AddClient, ThreadJoiner, ConnectingEnds, OfferError,
                AcceptThrows
  <2>3. CASE \E s \in Sorter : Sorting(s)
    BY <2>3 DEF Sorting, distribute, receive, DistributeEnds, removeSampleClient,
                EraseOutput, DeleteLater, ConnectLater, SorterEnds
  <2>4. CASE connectOutputs \/ interrupt \/ joinDataThreads \/ closeOutputs
    BY <2>4 DEF connectOutputs, interrupt, joinDataThreads, closeOutputs,
       CloseConnected,
                ConnectedClosed, CloseServerSocket, CloseMcSocket,
                InterruptMulticaster, clear
  <2> QED BY <2>1, <2>2, <2>3, <2>4 DEF Next
<1>2. IsFiniteSet(clients')
  <2>1. PICK x : clients' \in {clients, clients \union {x}, clients \ {x}}
    BY <1>1
  <2>2. IsFiniteSet(clients)
    BY DEF ClientsInv
  <2>3. IsFiniteSet(clients \union {x}) /\ IsFiniteSet(clients \ {x})
    BY <2>2, FS_AddElement, FS_RemoveElement
  <2> QED BY <2>1, <2>2, <2>3
<1> SUFFICES ASSUME Running', NEW s \in Sorter
             PROVE  /\ \A c \in tmp'[s] : c \in clients' /\ Source[getOriginal(c)'] = s
                    /\ spc'[s] = "remove" => /\ cur'[s] \in clients' /\ cur'[s] \notin tmp'[s]
                                             /\ Source[getOriginal(cur[s])'] = s
  BY <1>2 DEF ClientsInv
<1>3. Running
  BY StillRunning
<1>4. \A x : Used(x) => getOriginal(x)' = getOriginal(x)
  BY OriginalKept
<1>5. /\ \A c \in tmp[s] : c \in clients /\ Source[getOriginal(c)'] = s
      /\ spc[s] = "remove" => /\ cur[s] \in clients /\ cur[s] \notin tmp[s]
                              /\ \A x : x = cur[s] => Source[getOriginal(x)'] = s
  <2>1. /\ \A c \in tmp[s] : c \in clients /\ Source[getOriginal(c)] = s
        /\ spc[s] = "remove" => /\ cur[s] \in clients /\ cur[s] \notin tmp[s]
                                /\ \A x : x = cur[s] => Source[getOriginal(x)] = s
    BY <1>3 DEF ClientsInv
  <2>2. /\ \A c \in tmp[s] : Used(c)
        /\ \A x : x = cur[s] => Used(x)
    BY DEF Used
  <2>3. /\ \A c \in tmp[s] : getOriginal(c)' = getOriginal(c)
        /\ \A x : x = cur[s] => getOriginal(x)' = getOriginal(x)
    BY <1>4, <2>2
  <2>4. ASSUME NEW c \in tmp[s] PROVE Source[getOriginal(c)'] = s
    <3>1. Source[getOriginal(c)] = s
      BY <2>1
    <3>2. getOriginal(c)' = getOriginal(c)
      BY <2>3
    <3> QED BY <3>1, <3>2
  <2>5. ASSUME NEW x, x = cur[s], spc[s] = "remove" PROVE Source[getOriginal(x)'] = s
    BY <2>1, <2>3, <2>5
  <2> QED BY <2>1, <2>4, <2>5
<1>6. ASSUME tmp'[s] = tmp[s], spc'[s] = spc[s], cur'[s] = cur[s],
             \A c \in tmp[s] : c \in clients',
             spc[s] = "remove" => cur[s] \in clients'
      PROVE  /\ \A c \in tmp'[s] : c \in clients' /\ Source[getOriginal(c)'] = s
             /\ spc'[s] = "remove" => /\ cur'[s] \in clients' /\ cur'[s] \notin tmp'[s]
                                      /\ Source[getOriginal(cur[s])'] = s
  BY <1>5, <1>6 DEF getOriginal
<1>7. CASE UNCHANGED vars \/ run \/ \E o \in Output : TimePasses(o)
  <2>1. UNCHANGED <<tmp, spc, cur, clients>>
    BY <1>7 DEF vars, run, RequestTop, RequestRefused, RequestConnection, RequestDelete,
                RequestSleep, RequestAwake, TimePasses
  <2> QED BY <2>1, <1>5, <1>6
<1>8. CASE \E o \in Output : Connecting(o) \/ ConnectingEnds(o)
  <2>1. UNCHANGED <<tmp, spc, cur>> /\ clients \subseteq clients'
    BY <1>8 DEF Connecting, ConnectSocket, AcceptMulticast, offer, AcceptConnection,
                InsertOutput, AddClient, ThreadJoiner, ConnectingEnds, OfferError,
                AcceptThrows
  <2> QED BY <2>1, <1>5, <1>6
<1>9. CASE connectOutputs \/ interrupt \/ joinDataThreads
  <2>1. UNCHANGED <<tmp, spc, cur, clients>>
    BY <1>9 DEF connectOutputs, interrupt, joinDataThreads
  <2> QED BY <2>1, <1>5, <1>6
<1>10. ~closeOutputs
  BY <1>3 DEF closeOutputs, CloseConnected, ConnectedClosed,
     CloseServerSocket,
              CloseMcSocket, InterruptMulticaster, clear, Running, OutputsInv, EngineInv
<1>11. ASSUME NEW r \in Sorter, r # s, Sorting(r)
       PROVE  /\ \A c \in tmp'[s] : c \in clients' /\ Source[getOriginal(c)'] = s
              /\ spc'[s] = "remove" => /\ cur'[s] \in clients' /\ cur'[s] \notin tmp'[s]
                                       /\ Source[getOriginal(cur[s])'] = s
  <2>1. tmp'[s] = tmp[s] /\ spc'[s] = spc[s] /\ cur'[s] = cur[s]
    BY <1>11 DEF Sorting, distribute, receive, DistributeEnds, removeSampleClient,
                 EraseOutput, DeleteLater, ConnectLater, SorterEnds, OutputsInv, Types
  <2>2. clients' = clients \/ (spc[r] = "remove" /\ clients' = clients \ {cur[r]})
    BY <1>11 DEF Sorting, distribute, receive, DistributeEnds, removeSampleClient,
                 EraseOutput, DeleteLater, ConnectLater, SorterEnds
  <2>3. spc[r] = "remove" => /\ cur[r] \notin tmp[s]
                             /\ spc[s] = "remove" => cur[s] # cur[r]
    BY <1>3, <1>11 DEF ClientsInv
  <2> QED BY <2>1, <2>2, <2>3, <1>5, <1>6
<1>12. CASE distribute(s)
  <2>1. /\ tmp' = [tmp EXCEPT ![s] = {c \in clients : Source[getOriginal(c)] = s}]
        /\ spc' = [spc EXCEPT ![s] = "loop"] /\ clients' = clients
    BY <1>12 DEF distribute
  <2>2. tmp'[s] = {c \in clients : Source[getOriginal(c)] = s} /\ spc'[s] = "loop"
    BY <2>1 DEF OutputsInv, Types
  <2> QED BY <2>1, <2>2, <1>4 DEF Used
<1>13. CASE receive(s)
  <2>1. PICK c \in tmp[s] : /\ tmp' = [tmp EXCEPT ![s] = @ \ {c}]
                            /\ \/ UNCHANGED <<spc, cur>>
                               \/ /\ spc' = [spc EXCEPT ![s] = "remove"]
                                  /\ cur' = [cur EXCEPT ![s] = c]
    BY <1>13 DEF receive
  <2>2. /\ spc[s] = "loop" /\ clients' = clients
        /\ tmp'[s] = tmp[s] \ {c}
        /\ spc'[s] = "loop" \/ (spc'[s] = "remove" /\ cur'[s] = c)
    BY <1>13, <2>1 DEF receive, OutputsInv, Types
  <2> QED BY <2>1, <2>2, <1>5 DEF getOriginal
<1>14. CASE removeSampleClient(s)
  <2>1. /\ spc[s] = "remove" /\ clients' = clients \ {cur[s]} /\ tmp' = tmp
        /\ spc'[s] = "erase"
    BY <1>14 DEF removeSampleClient, OutputsInv, Types
  <2> QED BY <2>1, <1>5
<1>15. CASE \/ DistributeEnds(s) \/ EraseOutput(s) \/ DeleteLater(s) \/ ConnectLater(s)
            \/ SorterEnds(s)
  <2>1. clients' = clients /\ tmp' = tmp /\ spc'[s] # "remove"
    BY <1>15 DEF DistributeEnds, EraseOutput, DeleteLater, ConnectLater, SorterEnds,
                 OutputsInv, Types
  <2> QED BY <2>1, <1>5
<1> QED BY ZenonT(60), <1>7, <1>8, <1>9, <1>10, <1>11, <1>12, <1>13, <1>14, <1>15
           DEF Next, Sorting

-----------------------------------------------------------------------------
\* While the engine runs, an output that is not a server is in one place, once
\* connectOutputs() has come to it; in one at most when its thread has failed.
Places(o) == IF epc = "connect" /\ o \in todo THEN 0 ELSE 1
InPlace(o) == Held(o) <= Places(o) /\ (o \in gaveUp \/ Held(o) = Places(o))
HeldInv == Running => \A o \in Output : Kind[o] # "server" => InPlace(o)

\* The places of an output are finite sets of clones and sorters.
LEMMA HeldParts ==
    ASSUME RequestsInv, ClientsInv, NEW o
    PROVE  /\ IsFiniteSet(Receiving(o)) /\ Cardinality(Receiving(o)) \in Nat
           /\ IsFiniteSet(Leaving(o)) /\ Cardinality(Leaving(o)) \in Nat
           /\ Pending(o) \in Nat
<1>1. IsFiniteSet(clients) /\ Receiving(o) \in SUBSET clients
  BY DEF ClientsInv, Receiving
<1>2. IsFiniteSet(Sorter) /\ Leaving(o) \in SUBSET Sorter
  BY SortersOK DEF Leaving
<1>3. IsFiniteSet(Receiving(o)) /\ IsFiniteSet(Leaving(o))
  BY <1>1, <1>2, FS_Subset
<1> QED BY <1>3, FS_CardinalityType, PendingType

\* A clone is a clone of the same output as long as anything points to it, so its
\* places change with the clients and the sorters only.
LEMMA PlacesKept ==
    ASSUME OutputsInv, [Next]_vars, Running', NEW o
    PROVE  /\ clients' = clients => Receiving(o)' = Receiving(o)
           /\ \A s \in Sorter : spc'[s] = spc[s] /\ cur'[s] = cur[s] =>
                 (s \in Leaving(o)' <=> s \in Leaving(o))
           /\ spc' = spc /\ cur' = cur => Leaving(o)' = Leaving(o)
<1>1. \A x : Used(x) => getOriginal(x)' = getOriginal(x)
  BY OriginalKept
<1>2. ASSUME clients' = clients PROVE Receiving(o)' = Receiving(o)
  <2>1. \A c \in clients : getOriginal(c)' = getOriginal(c)
    BY <1>1 DEF Used
  <2> QED BY <2>1, <1>2 DEF Receiving
<1>3. ASSUME NEW s \in Sorter, spc'[s] = spc[s], cur'[s] = cur[s]
      PROVE  s \in Leaving(o)' <=> s \in Leaving(o)
  <2>1. PICK x : x = cur[s]
    OBVIOUS
  <2>2. getOriginal(x)' = getOriginal(x)
    BY <2>1, <1>1 DEF Used
  <2>3. getOriginal(cur[s])' = getOriginal(x)'
    BY <2>1, <1>3 DEF getOriginal
  <2>4. getOriginal(cur[s])' = getOriginal(cur[s])
    BY <2>1, <2>2, <2>3
  <2> QED BY <2>4, <1>3 DEF Leaving
<1>4. Leaving(o) \subseteq Sorter /\ Leaving(o)' \subseteq Sorter
  BY DEF Leaving
<1> QED BY <1>2, <1>3, <1>4

\* The connection of an output ends with its client, or in no change at all.
LEMMA HeldConnecting ==
    ASSUME OutputsInv, RequestsInv, ClientsInv, OriginInv, [Next]_vars, Running',
           NEW o \in Output, Kind[o] # "server", Held(o) <= 1,
           NEW p \in Output, Connecting(p)
    PROVE  Held(o)' = Held(o)
<1> USE DEF requests, requester, channels, sorters, engine
<1>1. Running
  BY StillRunning
<1>2. UNCHANGED <<spc, cur>>
  BY DEF Connecting, ConnectSocket, AcceptMulticast, offer, AcceptConnection,
     InsertOutput,
         AddClient, ThreadJoiner
<1>3. Leaving(o)' = Leaving(o)
  BY <1>2, PlacesKept
<1>4. /\ IsFiniteSet(Receiving(o)) /\ Cardinality(Receiving(o)) \in Nat
      /\ Cardinality(Leaving(o)) \in Nat /\ Pending(o) \in Nat
  BY HeldParts
<1>5. CASE AddClient(p)
  <2>1. /\ cpc[p] = "add" /\ clients' = clients \union {newout[p]} /\ original' = original
    BY <1>5 DEF AddClient
  <2>2. getOriginal(newout[p]) = p
    BY <2>1, <1>1 DEF OriginInv
  <2>3. Receiving(o)' = Receiving(o) \union (IF p = o THEN {newout[p]} ELSE {})
    BY <2>1, <2>2 DEF Receiving, getOriginal
  <2>4. CASE p # o
    <3>1. Receiving(o)' = Receiving(o)
      BY <2>3, <2>4
    <3>2. Pending(o)' = Pending(o) - 0
      BY <2>4, PendingConnecting
    <3>3. Pending(o) - 0 = Pending(o)
      BY <1>4, Zero
    <3> QED BY <1>3, <3>1, <3>2, <3>3 DEF Held
  <2>5. CASE p = o
    <3>1. Pending(o)' = Pending(o) - 1
      BY <1>5, <2>5, PendingConnecting
    <3>2. Pending(o) - 1 \in Nat
      <4> DEFINE c == Requested(o, connectRequests) + Requested(o, curreqs)
      <4>1. Requested(o, connectRequests) \in Nat /\ Requested(o, curreqs) \in Nat
        BY PendingType
      <4>2. c \in Nat /\ (c + 1) - 1 = c
        BY SMT, <4>1
      <4>3. Pending(o) = c + 1
        BY <2>1, <2>5 DEF Pending
      <4> QED BY <4>2, <4>3
    <3>3. Cardinality(Receiving(o)) = 0
      BY <1>4, <3>2, OnlyOne DEF Held
    <3>4. Receiving(o) = {}
      BY <1>4, <3>3, FS_EmptySet
    <3>5. /\ Receiving(o)' = Receiving(o) \union {newout[p]}
          /\ newout[p] \notin Receiving(o)
      BY <2>3, <2>5, <3>4
    <3>6. Cardinality(Receiving(o) \union {newout[p]}) = Cardinality(Receiving(o)) + 1
      BY <3>5, <1>4, FS_AddElement
    <3>7. Held(o)' = (Pending(o) - 1) + (Cardinality(Receiving(o)) + 1)
                       + Cardinality(Leaving(o))
      BY <3>1, <3>5, <3>6, <1>3 DEF Held
    <3>8. (Pending(o) - 1) + (Cardinality(Receiving(o)) + 1) + Cardinality(Leaving(o))
            = Pending(o) + Cardinality(Receiving(o)) + Cardinality(Leaving(o))
      BY ZenonT(60), <1>4, Connects
    <3> QED BY <3>7, <3>8 DEF Held
  <2> QED BY <2>4, <2>5
<1>6. CASE ~AddClient(p)
  <2>1. clients' = clients
    BY <1>6 DEF Connecting, ConnectSocket, AcceptMulticast, offer, AcceptConnection,
                InsertOutput, ThreadJoiner
  <2>2. Receiving(o)' = Receiving(o)
    BY <2>1, PlacesKept
  <2>3. Pending(o)' = Pending(o) - 0
    BY <1>6, PendingConnecting
  <2>4. Pending(o) - 0 = Pending(o)
    BY <1>4, Zero
  <2> QED BY <1>3, <2>2, <2>3, <2>4 DEF Held
<1> QED BY <1>5, <1>6

\* A request for an output is added.
LEMMA PendingAdded ==
    ASSUME RequestsInv, NEW o \in Output, NEW p \in Output, NEW due \in BOOLEAN,
           addConnectRequest(p, due), UNCHANGED <<curreqs, cpc>>
    PROVE  Pending(o)' = Pending(o) + IF p = o THEN 1 ELSE 0
<1> DEFINE a == Requested(o, connectRequests)
           b == Requested(o, curreqs)
           k == IF cpc[o] \in {"none", "jammed"} THEN 0 ELSE 1
           n == IF p = o THEN 1 ELSE 0
<1>1. a \in Nat /\ b \in Nat /\ k \in {0, 1} /\ n \in {0, 1}
  BY PendingType
<1>2. b' = b /\ k' = k /\ Pending(o) = a + b + k /\ Pending(o)' = a' + b' + k'
  BY DEF Pending
<1>3. a' = a + n
  <2>1. [out |-> p, due |-> due] \in Request
    BY DEF Request
  <2>2. Requested(o, Append(connectRequests, [out |-> p, due |-> due]))
          = a + IF [out |-> p, due |-> due].out = o THEN 1 ELSE 0
    BY <2>1, RequestedAppend DEF RequestsInv
  <2>3. [out |-> p, due |-> due].out = p
    OBVIOUS
  <2> QED BY <2>2, <2>3 DEF addConnectRequest
<1> HIDE DEF a, b, k, n
<1>4. (a + n) + b + k = (a + b + k) + n
  BY SMT, <1>1
<1> QED BY <1>2, <1>3, <1>4 DEF n

\* A sorter that disconnects an output passes it to the request thread.
LEMMA HeldSorting ==
    ASSUME OutputsInv, RequestsInv, ClientsInv, [Next]_vars, Running',
           NEW o \in Output, NEW s \in Sorter, Sorting(s),
           spc'[s] = "reconnect" => cur'[s] \in Output
    PROVE  Held(o)' = Held(o)
<1> USE DEF requests, requester, channels, sorters, engine
<1>1. Running
  BY StillRunning
<1>2. /\ original' = original /\ UNCHANGED <<curreqs, cpc>>
      /\ \A r \in Sorter : r # s => spc'[r] = spc[r] /\ cur'[r] = cur[r]
  <2>1. original' = original /\ UNCHANGED <<curreqs, cpc>>
    BY DEF Sorting, distribute, receive, DistributeEnds, removeSampleClient,
       EraseOutput,
           DeleteLater, ConnectLater, SorterEnds
  <2>2. ASSUME NEW r \in Sorter, r # s PROVE spc'[r] = spc[r] /\ cur'[r] = cur[r]
    BY ZenonT(60), <2>2 DEF Sorting, distribute, receive, DistributeEnds,
       removeSampleClient, EraseOutput,
           DeleteLater, ConnectLater, SorterEnds, OutputsInv, Types
  <2> QED BY <2>1, <2>2
<1>3. DifferAt(s, Leaving(o), Leaving(o)')
  <2>1. \A r \in Sorter : r # s => (r \in Leaving(o)' <=> r \in Leaving(o))
    BY <1>2, PlacesKept
  <2>2. Leaving(o) \subseteq Sorter /\ Leaving(o)' \subseteq Sorter
    BY DEF Leaving
  <2> QED BY <2>1, <2>2 DEF DifferAt
<1>5. /\ IsFiniteSet(Receiving(o)) /\ Cardinality(Receiving(o)) \in Nat
      /\ IsFiniteSet(Leaving(o)) /\ Cardinality(Leaving(o)) \in Nat
      /\ Pending(o) \in Nat
  BY HeldParts
<1>6. ASSUME clients' = clients, connectRequests' = connectRequests,
             s \in Leaving(o)' <=> s \in Leaving(o)
      PROVE  Held(o)' = Held(o)
  <2>1. Receiving(o)' = Receiving(o)
    BY <1>6, PlacesKept
  <2>2. Leaving(o)' = Leaving(o)
    BY <1>3, <1>6, SameBut
  <2>3. Pending(o)' = Pending(o)
    BY <1>2, <1>6 DEF Pending
  <2> QED BY <2>1, <2>2, <2>3 DEF Held
<1>7. CASE distribute(s) \/ receive(s) \/ DistributeEnds(s) \/ SorterEnds(s)
  <2>1. clients' = clients /\ connectRequests' = connectRequests
    BY <1>7 DEF distribute, receive, DistributeEnds, SorterEnds
  <2>2. spc[s] \in {"idle", "loop"} /\ spc'[s] \in {"idle", "loop", "remove", "done"}
    BY <1>7 DEF distribute, receive, DistributeEnds, SorterEnds, OutputsInv, Types
  <2>3. s \notin Leaving(o) /\ s \notin Leaving(o)'
    BY <2>2 DEF Leaving
  <2> QED BY <2>1, <2>3, <1>6
<1>8. CASE removeSampleClient(s)
  <2>1. /\ spc[s] = "remove" /\ spc'[s] = "erase" /\ cur' = cur
        /\ clients' = clients \ {cur[s]} /\ connectRequests' = connectRequests
    BY <1>8 DEF removeSampleClient, OutputsInv, Types
  <2>2. cur[s] \in clients
    BY <1>1, <2>1 DEF ClientsInv
  <2>3. s \notin Leaving(o)
    BY <2>1 DEF Leaving
  <2>4. s \in Leaving(o)' <=> getOriginal(cur[s]) = o
    BY <2>1, <1>2 DEF Leaving, getOriginal
  <2>5. /\ Receiving(o)' = Receiving(o) \ {cur[s]}
        /\ cur[s] \in Receiving(o) <=> getOriginal(cur[s]) = o
    BY <2>1, <2>2, <1>2 DEF Receiving, getOriginal
  <2>6. Pending(o)' = Pending(o)
    BY <1>2, <2>1 DEF Pending
  <2>7. CASE getOriginal(cur[s]) = o
    <3>1. Leaving(o)' = Leaving(o) \union {s}
      BY <1>3, <2>4, <2>7, SameBut
    <3>2. Cardinality(Leaving(o)') = Cardinality(Leaving(o)) + 1
      BY <3>1, <2>3, <1>5, FS_AddElement
    <3>3. Cardinality(Receiving(o)') = Cardinality(Receiving(o)) - 1
      BY ZenonT(60), <2>5, <2>7, <1>5, FS_RemoveElement
    <3>4. Held(o)' = Pending(o) + (Cardinality(Receiving(o)) - 1)
                       + (Cardinality(Leaving(o)) + 1)
      BY <2>6, <3>2, <3>3 DEF Held
    <3>5. Pending(o) + (Cardinality(Receiving(o)) - 1) + (Cardinality(Leaving(o)) + 1)
            = Pending(o) + Cardinality(Receiving(o)) + Cardinality(Leaving(o))
      BY <1>5, Leaves
    <3> QED BY <3>4, <3>5 DEF Held
  <2>8. CASE getOriginal(cur[s]) # o
    <3>1. Leaving(o)' = Leaving(o)
      <4>1. s \in Leaving(o)' <=> s \in Leaving(o)
        BY <2>3, <2>4, <2>8
      <4> QED BY <1>3, <4>1, SameBut
    <3>2. Receiving(o)' = Receiving(o)
      BY <2>5, <2>8
    <3> QED BY <2>6, <3>1, <3>2 DEF Held
  <2> QED BY <2>7, <2>8
<1>9. CASE EraseOutput(s)
  <2>1. /\ spc[s] = "erase" /\ spc'[s] = "delete" /\ cur' = cur
        /\ clients' = clients /\ connectRequests' = connectRequests
    BY <1>9 DEF EraseOutput, OutputsInv, Types
  <2>2. s \in Leaving(o)' <=> s \in Leaving(o)
    BY <2>1, <1>2 DEF Leaving, getOriginal
  <2> QED BY <2>1, <2>2, <1>6
<1>10. CASE DeleteLater(s)
  <2>1. /\ spc[s] = "delete" /\ spc'[s] = "reconnect"
        /\ cur'[s] = getOriginal(cur[s])
        /\ clients' = clients /\ connectRequests' = connectRequests
    BY <1>10 DEF DeleteLater, OutputsInv, Types
  <2>2. cur'[s] \in Output
    BY <2>1
  <2>3. getOriginal(cur[s])' = cur'[s]
    BY <2>2, Constants DEF getOriginal
  <2>4. s \in Leaving(o)' <=> s \in Leaving(o)
    BY <2>1, <2>3 DEF Leaving
  <2> QED BY <2>1, <2>4, <1>6
<1>11. CASE ConnectLater(s)
  <2>1. /\ spc[s] = "reconnect" /\ spc'[s] = "loop"
        /\ clients' = clients /\ addConnectRequest(cur[s], FALSE)
    BY <1>11 DEF ConnectLater, OutputsInv, Types
  <2>2. cur[s] \in Output
    BY <2>1 DEF OutputsInv, SorterInv
  <2>3. getOriginal(cur[s]) = cur[s]
    BY <2>2, Constants DEF getOriginal
  <2>4. s \in Leaving(o) <=> cur[s] = o
    BY <2>1, <2>3 DEF Leaving
  <2>5. s \notin Leaving(o)'
    BY <2>1 DEF Leaving
  <2>6. Receiving(o)' = Receiving(o)
    BY <2>1, PlacesKept
  <2>7. Pending(o)' = Pending(o) + IF cur[s] = o THEN 1 ELSE 0
    <3>1. PICK p \in Output : p = cur[s]
      BY <2>2
    <3>2. addConnectRequest(p, FALSE) /\ FALSE \in BOOLEAN
      BY <3>1, <2>1 DEF addConnectRequest
    <3>3. Pending(o)' = Pending(o) + IF p = o THEN 1 ELSE 0
      BY <3>2, <1>2, PendingAdded
    <3> QED BY <3>1, <3>3
  <2>8. CASE cur[s] = o
    <3>1. Leaving(o)' = Leaving(o) \ {s} /\ s \in Leaving(o)
      BY ZenonT(60), <1>3, <2>4, <2>5, <2>8, SameBut
    <3>2. Cardinality(Leaving(o)') = Cardinality(Leaving(o)) - 1
      BY ZenonT(60), <3>1, <1>5, FS_RemoveElement
    <3>3. Pending(o)' = Pending(o) + 1
      BY <2>7, <2>8
    <3>4. Held(o)' = (Pending(o) + 1) + Cardinality(Receiving(o))
                       + (Cardinality(Leaving(o)) - 1)
      BY <2>6, <3>2, <3>3 DEF Held
    <3>5. (Pending(o) + 1) + Cardinality(Receiving(o)) + (Cardinality(Leaving(o)) - 1)
            = Pending(o) + Cardinality(Receiving(o)) + Cardinality(Leaving(o))
      BY <1>5, Returns
    <3> QED BY <3>4, <3>5 DEF Held
  <2>9. CASE cur[s] # o
    <3>1. Leaving(o)' = Leaving(o)
      BY <1>3, <2>4, <2>5, <2>9, SameBut
    <3>2. Pending(o)' = Pending(o) + 0
      BY <2>7, <2>9
    <3>3. Pending(o) + 0 = Pending(o)
      BY <1>5, Zero
    <3> QED BY <2>6, <3>1, <3>2, <3>3 DEF Held
  <2> QED BY <2>8, <2>9
<1> QED BY <1>7, <1>8, <1>9, <1>10, <1>11 DEF Sorting

\* While the engine runs, an output with one connection at a time is in one
\* place, and moves from place to place.
LEMMA HeldNext ==
    ASSUME OutputsInv, OutputsInv', RequestsInv, ListsInv, ThreadsInv, OriginInv, ClientsInv,
           HeldInv, OnceInv, [Next]_vars
    PROVE  HeldInv'
<1> SUFFICES ASSUME Running', NEW o \in Output, Kind[o] # "server"
             PROVE  InPlace(o)'
  BY DEF HeldInv
<1> USE DEF requests, requester, channels, sorters, engine
<1>1. Running
  BY StillRunning
<1>2. InPlace(o) /\ Places(o) \in {0, 1}
  BY <1>1 DEF HeldInv, Places
<1>3. /\ Cardinality(Receiving(o)) \in Nat /\ Cardinality(Leaving(o)) \in Nat
       /\ Pending(o) \in Nat /\ Held(o) \in Nat
  <2>1. /\ Cardinality(Receiving(o)) \in Nat /\ Cardinality(Leaving(o)) \in Nat
        /\ Pending(o) \in Nat
    BY HeldParts
  <2> QED BY SMT, <2>1 DEF Held
<1>4. Pending(o) <= 1 /\ Held(o) <= 1
  <2>1. Held(o) <= Places(o)
    BY <1>2 DEF InPlace
  <2>2. Held(o) <= 1
    BY SMT, <1>2, <1>3, <2>1
  <2> QED BY <2>2 DEF OnceInv
<1>5. ASSUME UNCHANGED <<epc, todo, gaveUp>>, Held(o)' = Held(o)
      PROVE  InPlace(o)'
  BY <1>2, <1>5 DEF InPlace, Places
<1>6. ASSUME UNCHANGED <<clients, spc, cur>>, Pending(o)' = Pending(o)
      PROVE  Held(o)' = Held(o)
  <2>1. Receiving(o)' = Receiving(o) /\ Leaving(o)' = Leaving(o)
    BY <1>6, PlacesKept
  <2> QED BY <2>1, <1>6 DEF Held
<1>7. ASSUME UNCHANGED <<epc, todo, clients, spc, cur>>, PendingMoves(o)
       PROVE  InPlace(o)'
  <2> DEFINE r == Cardinality(Receiving(o))
             l == Cardinality(Leaving(o))
  <2>1. Receiving(o)' = Receiving(o) /\ Leaving(o)' = Leaving(o)
    BY <1>7, PlacesKept
  <2>2. /\ Held(o) = Pending(o) + r + l /\ Held(o)' = Pending(o)' + r + l
        /\ r \in Nat /\ l \in Nat
    BY <2>1, <1>3 DEF Held
  <2>3. Places(o)' = Places(o)
    BY <1>7 DEF Places
  <2>4. Held(o) <= Places(o) /\ (o \in gaveUp \/ Held(o) = Places(o))
    BY <1>2 DEF InPlace
  <2> HIDE DEF r, l
  <2>5. CASE Pending(o)' = Pending(o) /\ (o \in gaveUp => o \in gaveUp')
    BY <2>2, <2>3, <2>4, <2>5 DEF InPlace
  <2>6. CASE Pending(o) = 1 /\ Pending(o)' = 1
    <3>1. Held(o) = Places(o)
      BY SMT, <1>2, <1>3, <2>2, <2>4, <2>6
    <3>2. Held(o)' = Held(o)
      BY <2>2, <2>6
    <3> QED BY <2>3, <2>4, <3>1, <3>2 DEF InPlace
  <2>7. CASE Pending(o)' = Pending(o) - 1 /\ o \in gaveUp'
    <3>1. Held(o)' <= Places(o)
      BY SMT, <1>2, <1>3, <2>2, <2>4, <2>7
    <3> QED BY <2>3, <2>7, <3>1 DEF InPlace
  <2> QED BY <1>7, <2>5, <2>6, <2>7 DEF PendingMoves
<1>8. CASE UNCHANGED vars
  <2>1. UNCHANGED <<epc, todo, gaveUp, clients, spc, cur>> /\ Pending(o)' = Pending(o)
    BY <1>8 DEF vars, Pending
  <2> QED BY <2>1, <1>5, <1>6
<1>9. CASE run \/ \E p \in Output : TimePasses(p)
  <2>1. UNCHANGED <<epc, todo, clients, spc, cur>>
    BY <1>9 DEF run, RequestTop, RequestRefused, RequestConnection, RequestDelete,
                RequestSleep, RequestAwake, TimePasses
  <2>2. PendingMoves(o)
    BY <1>4, <1>9, PendingRun
  <2> QED BY <2>1, <2>2, <1>7
<1>10. ASSUME NEW p \in Output, Connecting(p)
      PROVE  InPlace(o)'
  <2>1. UNCHANGED <<epc, todo, gaveUp>>
    BY <1>10 DEF Connecting, ConnectSocket, AcceptMulticast, offer, AcceptConnection,
                InsertOutput, AddClient, ThreadJoiner
  <2>2. Held(o)' = Held(o)
    BY <1>4, <1>10, HeldConnecting
  <2> QED BY <2>1, <2>2, <1>5
<1>11. ASSUME NEW s \in Sorter, Sorting(s)
      PROVE  InPlace(o)'
  <2>1. UNCHANGED <<epc, todo, gaveUp>>
    BY <1>11 DEF Sorting, distribute, receive, DistributeEnds, removeSampleClient,
                EraseOutput, DeleteLater, ConnectLater, SorterEnds
  <2>2. spc'[s] = "reconnect" => cur'[s] \in Output
    BY DEF OutputsInv, SorterInv
  <2>3. Held(o)' = Held(o)
    BY <1>11, <2>2, HeldSorting
  <2> QED BY <2>1, <2>3, <1>5
<1>12. CASE connectOutputs
  <2> DEFINE p == First(todo)
  <2>1. /\ epc = "connect" /\ addConnectRequest(p, TRUE) /\ todo' = todo \ {p}
        /\ epc' = IF todo' = {} THEN "run" ELSE epc
        /\ UNCHANGED <<curreqs, cpc, gaveUp, clients, spc, cur>>
    BY <1>12 DEF connectOutputs
  <2>2. p \in todo /\ p \in Output
    BY <2>1 DEF ListsInv, First
  <2> HIDE DEF p
  <2>3. Pending(o)' = Pending(o) + IF p = o THEN 1 ELSE 0
    <3>1. PICK q \in Output : q = p
      BY <2>2
    <3>2. addConnectRequest(q, TRUE) /\ TRUE \in BOOLEAN
      BY <3>1, <2>1 DEF addConnectRequest
    <3>3. Pending(o)' = Pending(o) + IF q = o THEN 1 ELSE 0
      BY <3>2, <2>1, PendingAdded
    <3> QED BY <3>1, <3>3
  <2>5. Receiving(o)' = Receiving(o) /\ Leaving(o)' = Leaving(o)
    BY <2>1, PlacesKept
  <2>6. CASE p = o
    <3>1. Held(o) = 0
      <4>1. Places(o) = 0
        BY <2>1, <2>2, <2>6 DEF Places
      <4>2. Held(o) <= 0
        BY <1>2, <4>1 DEF InPlace
      <4> QED BY SMT, <1>3, <4>2
    <3>2. Held(o)' = (Pending(o) + 1) + Cardinality(Receiving(o)) + Cardinality(Leaving(o))
      BY <2>3, <2>5, <2>6 DEF Held
    <3>3. (Pending(o) + 1) + Cardinality(Receiving(o)) + Cardinality(Leaving(o))
            = Held(o) + 1
      BY <1>3, Appears DEF Held
    <3>4. 0 + 1 = 1
      BY SMT
    <3>5. Held(o)' = 1
      BY <3>1, <3>2, <3>3, <3>4
    <3>6. Places(o)' = 1
      BY <2>1, <2>6 DEF Places
    <3>7. 1 <= 1
      BY SMT
    <3> QED BY <3>5, <3>6, <3>7 DEF InPlace
  <2>7. CASE p # o
    <3>1. Pending(o)' = Pending(o)
      BY <2>3, <1>3, <2>7, Zero
    <3>2. Held(o)' = Held(o)
      BY <2>1, <3>1, <1>6
    <3>3. o \in todo' <=> o \in todo
      BY <2>1, <2>7
    <3>4. Places(o)' = Places(o)
      <4>1. o \in todo' => epc' = "connect"
        BY <2>1
      <4> QED BY <2>1, <3>3, <4>1 DEF Places
    <3>5. gaveUp' = gaveUp
      BY <2>1
    <3> QED BY <1>2, <3>2, <3>4, <3>5 DEF InPlace
  <2> QED BY <2>6, <2>7
<1>13. CASE interrupt
  <2>1. /\ epc = "run" /\ epc' = "join" /\ UNCHANGED <<gaveUp, clients, spc, cur>>
        /\ Pending(o)' = Pending(o)
    BY <1>13 DEF interrupt, Pending
  <2>2. Held(o)' = Held(o)
    BY <2>1, <1>6
  <2>3. Places(o)' = Places(o)
    BY <2>1 DEF Places
  <2> QED BY <2>1, <2>2, <2>3, <1>2 DEF InPlace
<1>14. ~joinDataThreads /\ ~closeOutputs
  BY <1>1 DEF joinDataThreads, closeOutputs, CloseConnected, ConnectedClosed,

              CloseServerSocket, CloseMcSocket, InterruptMulticaster, clear, Running,
              OutputsInv, EngineInv
<1>15. ASSUME NEW p \in Output, ConnectingEnds(p) PROVE InPlace(o)'
  <2>1. UNCHANGED <<epc, todo, clients, spc, cur>>
    BY <1>15 DEF ConnectingEnds, OfferError, AcceptThrows
  <2> QED BY <2>1, <1>15, <1>7, PendingEnds
<1> QED BY ZenonT(60), <1>8, <1>9, <1>10, <1>11, <1>12, <1>13, <1>14, <1>15 DEF Next

\* When the engine closes, an output is still requested or connecting once at
\* most.
LEMMA InvOnce ==
    ASSUME RequestsInv, ClientsInv, HeldInv, ~Running => OnceInv PROVE OnceInv
<1> SUFFICES ASSUME Running, NEW o \in Output, Kind[o] # "server" PROVE Pending(o) <= 1
  BY DEF OnceInv
<1>1. /\ Cardinality(Receiving(o)) \in Nat /\ Cardinality(Leaving(o)) \in Nat
      /\ Pending(o) \in Nat
  BY HeldParts
<1>2. Held(o) <= Places(o) /\ Places(o) \in {0, 1}
  BY DEF HeldInv, InPlace, Places
<1>3. Held(o) <= 1
  <2>1. Held(o) \in Nat
    BY SMT, <1>1 DEF Held
  <2> QED BY SMT, <1>2, <2>1
<1> QED BY <1>1, <1>3, OnlyOne DEF Held

\* clear() and the threads that end once the engine stops only take requests away.
LEMMA OnceNext ==
    ASSUME OutputsInv, RequestsInv, ThreadsInv, OnceInv, [Next]_vars
    PROVE  ~Running' => OnceInv'
<1> SUFFICES ASSUME ~Running', NEW o \in Output, Kind[o] # "server" PROVE Pending(o)' <= 1
  BY DEF OnceInv
<1> USE DEF requests, requester, channels, sorters, engine
<1>1. Pending(o) <= 1 /\ Pending(o) \in Nat
  BY PendingType DEF OnceInv
<1>2. CASE UNCHANGED vars
  BY <1>1, <1>2 DEF vars, Pending
<1>3. PendingMoves(o) => Pending(o)' <= 1
  <2>1. Pending(o) - 1 <= 1 /\ 1 <= 1
    BY SMT, <1>1
  <2> QED BY <1>1, <2>1 DEF PendingMoves
<1>4. CASE run \/ \E p \in Output : TimePasses(p)
  BY <1>1, <1>4, <1>3, PendingRun
<1>5. ASSUME NEW p \in Output, ConnectingEnds(p) PROVE Pending(o)' <= 1
  BY <1>5, <1>3, PendingEnds
<1>6. ASSUME NEW p \in Output, Connecting(p) PROVE Pending(o)' <= 1
  <2>1. Pending(o)' = Pending(o) - 0 \/ Pending(o)' = Pending(o) - 1
    BY <1>6, PendingConnecting
  <2>2. Pending(o) - 0 <= 1 /\ Pending(o) - 1 <= 1
    BY SMT, <1>1
  <2> QED BY <2>1, <2>2
<1>7. ASSUME NEW s \in Sorter, Sorting(s) PROVE FALSE
  <2>1. epc' = epc /\ spc[s] # "done"
    BY <1>7 DEF Sorting, distribute, receive, DistributeEnds, removeSampleClient,
                EraseOutput, DeleteLater, ConnectLater, SorterEnds
  <2> QED BY <2>1 DEF OutputsInv, EngineInv, Running
<1>8. ~connectOutputs /\ ~interrupt
  BY DEF connectOutputs, interrupt, Running
<1>9. CASE joinDataThreads \/ CloseConnected \/ ConnectedClosed \/ CloseMcSocket
  <2>1. UNCHANGED <<connectRequests, curreqs, cpc>>
    BY <1>9 DEF joinDataThreads, CloseConnected, ConnectedClosed,
       CloseMcSocket
  <2> QED BY <2>1, <1>1 DEF Pending
<1> DEFINE a == Requested(o, connectRequests)
           b == Requested(o, curreqs)
           k == IF cpc[o] \in {"none", "jammed"} THEN 0 ELSE 1
<1>10. /\ a \in Nat /\ b \in Nat /\ k \in {0, 1} /\ Pending(o) = a + b + k
      /\ Pending(o)' = a' + b' + k'
  BY PendingType DEF Pending
<1>11. CASE CloseServerSocket \/ InterruptMulticaster
  <2>1. UNCHANGED <<connectRequests, curreqs>>
    BY <1>11 DEF CloseServerSocket, InterruptMulticaster
  <2>2. cpc'[o] = cpc[o] \/ cpc'[o] = "none"
    BY <1>11 DEF CloseServerSocket, InterruptMulticaster, OutputsInv, Types
  <2>3. k' = k \/ k' = 0
    BY <2>2
  <2>4. a' = a /\ b' = b
    BY <2>1
  <2> HIDE DEF a, b, k
  <2>5. a + b + 0 <= 1
    BY SMT, <1>1, <1>10
  <2> QED BY <1>1, <1>10, <2>3, <2>4, <2>5
<1>12. CASE clear
  <2>1. connectRequests' = <<>> /\ UNCHANGED <<curreqs, cpc>>
    BY <1>12 DEF clear
  <2>2. a' = 0 /\ b' = b /\ k' = k
    BY <2>1, RequestedNone
  <2> HIDE DEF a, b, k
  <2>3. 0 + b + k <= 1
    BY SMT, <1>1, <1>10
  <2> QED BY <1>10, <2>2, <2>3
<1> QED BY ZenonT(60), <1>2, <1>4, <1>5, <1>6, <1>7, <1>8, <1>9, <1>11, <1>12 DEF Next,
           closeOutputs

\* Every clone has a holder: what deletes it, or hands it to who does.
LEMMA OwnedNext ==
    ASSUME OutputsInv, RequestsInv, ThreadsInv, OnceInv, alive \subseteq Owned, [Next]_vars
    PROVE  alive' \subseteq Owned'
<1> USE DEF requests, requester, channels, sorters, engine
<1>1. ASSUME alive' \subseteq alive, UNCHANGED <<disconnectRequests, curdis>>,
             Connected \subseteq Connected', Inserting \subseteq Inserting',
             Disconnecting \subseteq Disconnecting'
      PROVE  alive' \subseteq Owned'
  BY <1>1 DEF Owned
<1>2. ASSUME UNCHANGED <<disconnectRequests, curdis, cpc, newout, original, outputSet,
                         spc, cur, epc, todo>>
      PROVE  alive' \subseteq Owned'
  BY <1>2 DEF Owned, Connected, Inserting, Disconnecting, alive
<1>3. CASE UNCHANGED vars \/ \E o \in Output : TimePasses(o)
  BY <1>3, <1>2 DEF vars, TimePasses
<1>4. CASE RequestSleep \/ RequestAwake
  BY <1>4, <1>2 DEF RequestSleep, RequestAwake
<1>5. CASE RequestTop
  <2>1. disconnectRequests \union curdis \subseteq disconnectRequests' \union curdis'
    BY <1>5 DEF RequestTop, RequestsInv
  <2>2. UNCHANGED <<Connected, Inserting, Disconnecting, alive>>
    BY <1>5 DEF RequestTop, Connected, Inserting, Disconnecting, alive
  <2> QED BY <2>1, <2>2 DEF Owned
<1>6. CASE RequestRefused \/ RequestConnection
  <2> DEFINE p == Head(curreqs).out
  <2>1. /\ curreqs # <<>>
        /\ \/ cpc' = cpc
           \/ ~thread[p] /\ cpc' = [cpc EXCEPT ![p] = "connect"]
           \/ /\ ~thread[p]
              /\ cpc' = [cpc EXCEPT ![p] = IF Kind[p] = "mcrequest" THEN "jammed" ELSE @]
    BY <1>6 DEF RequestRefused, NotStarted, RequestConnection, requestConnection
  <2>2. p \in Output /\ (~thread[p] => cpc[p] # "insert")
    BY <2>1, RequestedIdle
  <2> HIDE DEF p
  <2>3. ASSUME NEW o \in Output, cpc[o] = "insert" PROVE cpc'[o] = "insert"
    <3>1. CASE p = o
      BY <2>1, <2>2, <2>3, <3>1
    <3>2. CASE p # o
      BY <2>1, <2>3, <3>2 DEF OutputsInv, Types
    <3> QED BY <3>1, <3>2
  <2>5. UNCHANGED <<disconnectRequests, curdis, newout, Connected, Disconnecting, alive>>
    BY <1>6 DEF RequestRefused, RequestConnection, Connected, Disconnecting, alive
  <2>6. Inserting \subseteq Inserting'
    BY <2>3, <2>5 DEF Inserting
  <2> QED BY <2>5, <2>6, <1>1
<1>7. CASE RequestDelete
  <2>1. PICK c \in curdis : /\ curdis' = curdis \ {c}
                            /\ original' = [k \in Clone |-> IF k \in {c} THEN None
                                                            ELSE original[k]]
    BY <1>7 DEF RequestDelete, Delete
  <2>2. alive' \subseteq alive \ {c}
    BY <2>1 DEF alive
  <2>3. UNCHANGED <<disconnectRequests, Connected, Inserting, Disconnecting>>
    BY <1>7 DEF RequestDelete, Connected, Inserting, Disconnecting
  <2> QED BY <2>1, <2>2, <2>3 DEF Owned
<1>8. ASSUME NEW o \in Output, offer(o) \/ AcceptConnection(o) PROVE alive' \subseteq Owned'
  <2>1. PICK c \in Clone \ alive : /\ original' = [original EXCEPT ![c] = o]
                                   /\ newout' = [newout EXCEPT ![o] = c]
                                   /\ cpc' = [cpc EXCEPT ![o] = "insert"]
    BY <1>8 DEF offer, AcceptConnection, connected
  <2>2. /\ cpc[o] # "insert"
        /\ UNCHANGED <<disconnectRequests, curdis, outputSet, epc, todo, spc, cur>>
    BY <1>8 DEF offer, AcceptConnection
  <2>3. alive' \subseteq alive \union {c}
    BY <2>1 DEF alive, OutputsInv, Types
  <2>4. Inserting \union {c} \subseteq Inserting'
    BY <2>1, <2>2 DEF Inserting, OutputsInv, Types
  <2>5. UNCHANGED <<Connected, Disconnecting>>
    BY <2>2 DEF Connected, Disconnecting
  <2> QED BY <2>2, <2>3, <2>4, <2>5 DEF Owned
<1>9. ASSUME NEW o \in Output, ConnectSocket(o) \/ AcceptMulticast(o) \/ AddClient(o)
      PROVE  alive' \subseteq Owned'
  <2>1. /\ cpc[o] # "insert"
        /\ UNCHANGED <<disconnectRequests, curdis, original, outputSet, epc, todo, spc, cur>>
        /\ \A p \in Output : p # o => cpc'[p] = cpc[p] /\ newout'[p] = newout[p]
    BY <1>9 DEF ConnectSocket, AcceptMulticast, AddClient, OutputsInv, Types
  <2>2. Inserting \subseteq Inserting'
    BY <2>1 DEF Inserting
  <2>3. UNCHANGED <<Connected, Disconnecting, alive>>
    BY <2>1 DEF Connected, Disconnecting, alive
  <2> QED BY <2>1, <2>2, <2>3, <1>1
<1>10. ASSUME NEW o \in Output, ConnectingEnds(o) PROVE alive' \subseteq Owned'
  <2>1. /\ cpc[o] # "insert" /\ cpc' = [cpc EXCEPT ![o] = "none"]
        /\ UNCHANGED <<disconnectRequests, curdis, newout, original, outputSet, epc, todo,
                       spc, cur>>
    BY <1>10 DEF ConnectingEnds, OfferError, AcceptThrows
  <2>2. Inserting \subseteq Inserting'
    BY <2>1 DEF Inserting, OutputsInv, Types
  <2>3. UNCHANGED <<Connected, Disconnecting, alive>>
    BY <2>1 DEF Connected, Disconnecting, alive
  <2> QED BY <2>1, <2>2, <2>3, <1>1
<1>11. ASSUME NEW o \in Output, ThreadJoiner(o) PROVE alive' \subseteq Owned'
  BY <1>11, <1>2 DEF ThreadJoiner
<1>12. ASSUME NEW o \in Output, InsertOutput(o) PROVE alive' \subseteq Owned'
  <2>1. /\ cpc[o] = "insert" /\ epc # "closing"
        /\ outputSet' = outputSet \union {newout[o]}
        /\ cpc' = [cpc EXCEPT ![o] = "add"]
        /\ UNCHANGED <<disconnectRequests, curdis, newout, original, epc, todo, spc, cur>>
    BY <1>12 DEF InsertOutput
  <2>2. Inserting \ {newout[o]} \subseteq Inserting'
    BY <2>1 DEF Inserting, OutputsInv, Types
  <2>3. Connected' = Connected \union (Clone \intersect {newout[o]})
    BY <2>1 DEF Connected
  <2>4. UNCHANGED <<Disconnecting, alive>> /\ Inserting \subseteq Clone
    BY <2>1 DEF Disconnecting, alive, Inserting
  <2> QED BY <2>1, <2>2, <2>3, <2>4 DEF Owned
<1>13. ASSUME NEW s \in Sorter, \/ distribute(s) \/ receive(s) \/ DistributeEnds(s)
                                \/ removeSampleClient(s) \/ ConnectLater(s)
                                \/ SorterEnds(s)
       PROVE  alive' \subseteq Owned'
  <2>1. /\ UNCHANGED <<disconnectRequests, curdis, cpc, newout, original, outputSet, epc,
                       todo>>
        /\ spc[s] # "delete"
    BY <1>13 DEF distribute, receive, DistributeEnds, removeSampleClient, ConnectLater,
                 SorterEnds
  <2>2. \A r \in Sorter : r # s => spc'[r] = spc[r] /\ cur'[r] = cur[r]
    BY ZenonT(60), <1>13 DEF distribute, receive, DistributeEnds, removeSampleClient,
       ConnectLater,
                 SorterEnds, OutputsInv, Types
  <2>3. Disconnecting \subseteq Disconnecting'
    BY <2>1, <2>2 DEF Disconnecting
  <2>4. UNCHANGED <<Connected, Inserting, alive>>
    BY <2>1 DEF Connected, Inserting, alive
  <2> QED BY <2>1, <2>3, <2>4, <1>1
<1>14. ASSUME NEW s \in Sorter, EraseOutput(s) PROVE alive' \subseteq Owned'
  <2>1. /\ epc # "closing" /\ spc[s] = "erase"
        /\ outputSet' = outputSet \ {cur[s]}
        /\ spc' = [spc EXCEPT ![s] = "delete"]
        /\ UNCHANGED <<disconnectRequests, curdis, cpc, newout, original, cur, epc, todo>>
    BY <1>14 DEF EraseOutput
  <2>2. Disconnecting \union (Clone \intersect {cur[s]}) \subseteq Disconnecting'
    BY <2>1 DEF Disconnecting, OutputsInv, Types
  <2>3. Connected' = Connected \ {cur[s]} /\ Connected \subseteq Clone
    BY <2>1 DEF Connected
  <2>4. UNCHANGED <<Inserting, alive>>
    BY <2>1 DEF Inserting, alive
  <2> QED BY <2>1, <2>2, <2>3, <2>4 DEF Owned
<1>15. ASSUME NEW s \in Sorter, DeleteLater(s) PROVE alive' \subseteq Owned'
  <2>1. /\ spc' = [spc EXCEPT ![s] = "reconnect"]
        /\ cur' = [cur EXCEPT ![s] = getOriginal(cur[s])]
        /\ UNCHANGED <<curdis, cpc, newout, original, outputSet, epc, todo>>
        /\ disconnectRequests' = disconnectRequests \union (Clone \intersect {cur[s]})
    BY <1>15 DEF DeleteLater, addDeleteRequest
  <2>2. \A r \in Sorter : r # s => spc'[r] = spc[r] /\ cur'[r] = cur[r]
    BY <2>1 DEF OutputsInv, Types
  <2>3. Disconnecting \ {cur[s]} \subseteq Disconnecting' /\ Disconnecting \subseteq Clone
    BY <2>2 DEF Disconnecting
  <2>4. UNCHANGED <<Connected, Inserting, alive>>
    BY <2>1 DEF Connected, Inserting, alive
  <2> QED BY <2>1, <2>3, <2>4 DEF Owned
<1>16. CASE connectOutputs \/ interrupt \/ joinDataThreads
  <2>1. /\ UNCHANGED <<disconnectRequests, curdis, cpc, newout, original, outputSet, spc,
                       cur>>
        /\ epc # "closing" /\ (epc' = "closing" => todo' = outputSet)
    BY <1>16 DEF connectOutputs, interrupt, joinDataThreads
  <2>2. Connected' = Connected
    BY <2>1 DEF Connected
  <2>3. UNCHANGED <<Inserting, Disconnecting, alive>>
    BY <2>1 DEF Inserting, Disconnecting, alive
  <2> QED BY <2>1, <2>2, <2>3, <1>1
<1>17. CASE CloseConnected
  <2>1. PICK c \in todo : /\ original' = [k \in Clone |-> IF k \in {c} THEN None
                                                          ELSE original[k]]
                          /\ todo' = todo \ {c}
    BY <1>17 DEF CloseConnected, Delete
  <2>2. /\ epc = "closing"
        /\ UNCHANGED <<disconnectRequests, curdis, cpc, newout, outputSet, spc, cur, epc>>
    BY <1>17 DEF CloseConnected
  <2>3. alive' \subseteq alive \ {c}
    BY <2>1 DEF alive
  <2>4. Connected' = Connected \ {c}
    BY <2>1, <2>2 DEF Connected
  <2>5. UNCHANGED <<Inserting, Disconnecting>>
    BY <2>2 DEF Inserting, Disconnecting
  <2> QED BY <2>2, <2>3, <2>4, <2>5 DEF Owned
<1>18. CASE ConnectedClosed
  <2>1. /\ epc = "closing" /\ todo = {}
        /\ UNCHANGED <<disconnectRequests, curdis, cpc, newout, original, spc, cur>>
    BY <1>18 DEF ConnectedClosed
  <2>2. Connected = {}
    BY <2>1 DEF Connected
  <2>3. UNCHANGED <<Inserting, Disconnecting, alive>>
    BY <2>1 DEF Inserting, Disconnecting, alive
  <2> QED BY <2>1, <2>2, <2>3, <1>1
<1>19. CASE CloseServerSocket \/ CloseMcSocket \/ InterruptMulticaster
  <2>1. /\ epc = "config" /\ epc' = "config"
        /\ UNCHANGED <<disconnectRequests, curdis, newout, original, outputSet, spc, cur>>
    BY <1>19 DEF CloseServerSocket, CloseMcSocket, InterruptMulticaster,
                 OutputsInv, EngineInv
  <2>2. \A o \in Output : cpc[o] = "insert" => cpc'[o] = "insert"
    <3>1. CASE CloseMcSocket
      BY <3>1 DEF CloseMcSocket
    <3>2. CASE CloseServerSocket
      BY <3>2 DEF CloseServerSocket, OutputsInv, Types
    <3>3. CASE InterruptMulticaster
      <4>1. held \in Output /\ cpc' = [cpc EXCEPT ![held] = "none"]
        BY <3>3 DEF InterruptMulticaster, OutputsInv, Types
      <4>2. cpc[held] # "insert"
        BY <3>3, <4>1 DEF InterruptMulticaster, ThreadsInv
      <4> QED BY <4>1, <4>2 DEF OutputsInv, Types
    <3> QED BY <1>19, <3>1, <3>2, <3>3
  <2>3. Inserting \subseteq Inserting'
    BY <2>1, <2>2 DEF Inserting
  <2>4. UNCHANGED <<Connected, Disconnecting, alive>>
    BY <2>1 DEF Connected, Disconnecting, alive
  <2> QED BY <2>1, <2>3, <2>4, <1>1
<1>20. CASE clear
  <2>1. /\ epc = "config" /\ epc' = "closed"
        /\ original' = [k \in Clone |-> IF k \in disconnectRequests THEN None
                                        ELSE original[k]]
        /\ UNCHANGED <<curdis, cpc, newout, outputSet, spc, cur>>
    BY <1>20 DEF clear, Delete
  <2>2. alive' \subseteq alive \ disconnectRequests
    BY <2>1 DEF alive
  <2>3. UNCHANGED <<Connected, Inserting, Disconnecting>>
    BY <2>1 DEF Connected, Inserting, Disconnecting
  <2> QED BY <2>1, <2>2, <2>3 DEF Owned
<1> QED BY ZenonT(60), <1>3, <1>4, <1>5, <1>6, <1>7, <1>8, <1>9, <1>10, <1>11, <1>12,
           <1>13, <1>14, <1>15, <1>16, <1>17, <1>18, <1>19, <1>20
        DEF Next, run, Connecting, Sorting, closeOutputs

\* The inductive invariant of NothingLost: that an output is in one place rests on
\* what the lists hold, which threads run and what the clones are clones of.
PlacesInv ==
    /\ OutputsInv /\ RequestsInv /\ ListsInv /\ ThreadsInv /\ OriginInv /\ ClientsInv
    /\ HeldInv /\ (~Running => OnceInv) /\ alive \subseteq Owned

\* connectOutputs() has every output to do at the start.
LEMMA PlacesInit == Init => PlacesInv
<1> SUFFICES ASSUME Init PROVE PlacesInv
  OBVIOUS
<1>1. OutputsInv /\ RequestsInv /\ ListsInv /\ ThreadsInv
  BY OutputsInit, MoreInit
<1>2. OriginInv /\ alive \subseteq Owned /\ Running
  BY DEF Init, OriginInv, alive, Running
<1>3. ClientsInv
  BY FS_EmptySet DEF Init, ClientsInv
<1>4. HeldInv
  <2>0. 0 <= 0
    BY SMT
  <2> SUFFICES ASSUME NEW o \in Output PROVE Held(o) = 0 /\ epc = "connect" /\ o \in todo
    BY <2>0 DEF HeldInv, InPlace, Places
  <2>1. epc = "connect" /\ o \in todo
    BY DEF Init
  <2>2. Receiving(o) = {} /\ Leaving(o) = {}
    BY DEF Init, Receiving, Leaving
  <2>3. Pending(o) = 0 + 0 + 0
    BY RequestedNone DEF Init, Pending
  <2>4. 0 + 0 + 0 + 0 + 0 = 0
    BY SMT
  <2> QED BY <2>1, <2>2, <2>3, <2>4, FS_EmptySet DEF Held
<1> QED BY <1>1, <1>2, <1>3, <1>4 DEF PlacesInv

\* Every step of the threads keeps the inductive invariant.
LEMMA PlacesNext == PlacesInv /\ [Next]_vars => PlacesInv'
<1> SUFFICES ASSUME PlacesInv, [Next]_vars PROVE PlacesInv'
  OBVIOUS
<1>1. /\ OutputsInv /\ RequestsInv /\ ListsInv /\ ThreadsInv /\ OriginInv /\ ClientsInv
      /\ HeldInv /\ alive \subseteq Owned
  BY DEF PlacesInv
<1>2. OnceInv
  BY InvOnce DEF PlacesInv
<1>3. OutputsInv' /\ RequestsInv' /\ ListsInv' /\ ThreadsInv'
  BY <1>1, <1>2, OutputsNext, RequestsNext, ListsNext, ThreadsNext
<1>4. OriginInv' /\ ClientsInv'
  BY <1>1, OriginNext, ClientsNext
<1>5. HeldInv'
  BY <1>1, <1>2, <1>3, HeldNext
<1>6. (~Running => OnceInv)' /\ (alive \subseteq Owned)'
  BY <1>1, <1>2, OnceNext, OwnedNext
<1> QED BY <1>3, <1>4, <1>5, <1>6 DEF PlacesInv

\* Every variable keeps its type: in particular the lists hold requests for
\* configured outputs only, and nreq never goes below zero.
THEOREM OutputsTyped == Spec => []TypeOK
<1>1. PlacesInv => TypeOK
  BY DEF PlacesInv, OutputsInv, Types, RequestsInv, ListsInv, ThreadsInv, TypeOK
<1> QED BY <1>1, PlacesInit, PlacesNext, PTL DEF Spec

\* While the engine runs, an output with one connection at a time is in exactly
\* one place: requested, in its connection thread, a client, or leaving a
\* sorter.  It is forgotten in one way only, when its connection thread could
\* not be started or ended without a connection and has not been started since;
\* and it is never connected twice, whatever fails.  And no clone is left
\* without a holder, not even while closeOutputs() closes them.
THEOREM NoOutputLost == Spec => []NothingLost
<1>1. PlacesInv => NothingLost
  BY DEF PlacesInv, HeldInv, InPlace, Places, NothingLost
<1> QED BY <1>1, PlacesInit, PlacesNext, PTL DEF Spec
=============================================================================
