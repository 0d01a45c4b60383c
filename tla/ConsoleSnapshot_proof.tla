------------------------ MODULE ConsoleSnapshot_proof ------------------------
(***************************************************************************)
(* Proofs about ConsoleSnapshot, for any finite sets of clients and of     *)
(* buffers and for every value of the limits.                              *)
(*                                                                         *)
(* The argument.  A buffer is allocated when nobody holds it, becomes      *)
(* private by the one ARM of its connection and is mapped only by that     *)
(* connection, so no two connections refer to one buffer (Apart).  The     *)
(* owner is an open connection whose private buffer the driver copies from *)
(* (Owned): an ARM whose connection closed while it allocated finds its    *)
(* attempt used (Connected).  Every retain and release moves the count     *)
(* with exactly one reference, and a slot goes with the last of them       *)
(* (RefsExact).  While there is an owner the device is armed in its epoch  *)
(* and in step, so a retirement cannot fail and leaves no frame behind     *)
(* (Followed).                                                             *)
(***************************************************************************)
EXTENDS ConsoleSnapshot, FiniteSetTheorems, TLAPS

(***************************************************************************)
(* The inductive invariant.                                                *)
(***************************************************************************)

\* The types, with counts that have no bound yet.
Connection == [life : {"new", "open", "closed"}, attempted : BOOLEAN,
               private : Buffers \cup {None}, arming : Buffers \cup {None},
               alias : Buffers \cup {None}]
Frame == [by : Clients \cup {None}, seq : 0..MaxSequence]
Device == [state : 0..2, requested : 0..MaxEpoch, active : 0..MaxEpoch,
           ack : 0..MaxSequence, error : BOOLEAN, pending : Frame]
Kinds ==
  /\ client \in [Clients -> Connection]
  /\ owner \in Clients \cup {None} /\ buffer \in Buffers \cup {None}
  /\ epoch \in 0..MaxEpoch /\ sequence \in 0..MaxSequence
  /\ poisoned \in BOOLEAN /\ leased \in BOOLEAN
  /\ restartable \in BOOLEAN /\ inactive \in BOOLEAN /\ stopped \in BOOLEAN
  /\ refs \in [Buffers -> Nat] /\ slots \in 0..BufferLimit
  /\ dev \in Device
  /\ strays \in 0..MaxStrays
  /\ armedBy \in Seq(Clients)

\* A connection arms once, so its buffer comes from its one ARM; a closed one has none,
\* and its ARM, if one was under way, will be refused.
Connected ==
  \A c \in Clients :
    /\ client[c].private # None => client[c].attempted
    /\ client[c].arming # None => client[c].life # "new"
    /\ client[c].life = "closed" => client[c].attempted

\* The owner is an open connection and the driver's buffer is its private one.
Owned ==
  /\ owner # None => /\ IsOpen(owner) /\ buffer # None /\ client[owner].private = buffer
                     /\ ~poisoned /\ ~stopped /\ leased
  /\ owner = None => buffer = None
  /\ stopped => inactive

\* No two connections refer to the same buffer.
References(c) == {client[c].arming, client[c].private, client[c].alias} \ {None}
Apart == \A c, d \in Clients : c # d => References(c) \cap References(d) = {}

\* Who armed has used its one attempt, and the device of one life was leased.
Remembered ==
  /\ \A i \in 1..Len(armedBy) : client[armedBy[i]].attempted
  /\ Len(armedBy) > 0 => leased
  /\ OnceArmed

\* The device follows its owner, in an epoch that is not the first.
Followed == InAgreement /\ (restartable /\ owner # None => epoch # 0)

IInv == Kinds /\ Connected /\ Owned /\ Apart /\ RefsExact /\ Remembered /\ Followed

-----------------------------------------------------------------------------
(***************************************************************************)
(* What a step does to the connection it is of.                            *)
(***************************************************************************)

Refers(c, p, g, m) ==
  /\ \A d \in Clients : d # c => client'[d] = client[d]
  /\ client'[c].private = p /\ client'[c].arming = g /\ client'[c].alias = m
Becomes(c, l, a, p, g, m) ==
  /\ client' \in [Clients -> Connection] /\ Refers(c, p, g, m)
  /\ client'[c].life = l /\ client'[c].attempted = a

\* A connection opens and refers to nothing new.
LEMMA OpenMoves ==
  ASSUME Kinds, NEW c \in Clients, Open(c)
  PROVE  Becomes(c, "open", client[c].attempted, client[c].private, client[c].arming,
                 client[c].alias)
BY DEF Kinds, Open, Becomes, Refers, Connection

\* An ARM gets a buffer nobody held.
LEMMA AllocateMoves ==
  ASSUME Kinds, NEW c \in Clients, Allocate(c)
  PROVE  \E b \in Buffers :
           /\ refs[b] = 0 /\ refs' = [refs EXCEPT ![b] = 1]
           /\ Becomes(c, client[c].life, client[c].attempted, client[c].private, b,
                      client[c].alias)
<1>1. PICK b \in Buffers : /\ refs[b] = 0 /\ refs' = [refs EXCEPT ![b] = 1]
                          /\ client' = [client EXCEPT ![c].arming = b]
  BY DEF Allocate
<1>2. Becomes(c, client[c].life, client[c].attempted, client[c].private, b, client[c].alias)
  BY <1>1 DEF Kinds, Becomes, Refers, Connection
<1> QED
  BY <1>1, <1>2

\* A mapping is of the client's own buffer.
LEMMA MapMoves ==
  ASSUME Kinds, NEW c \in Clients, Map(c)
  PROVE  Becomes(c, client[c].life, client[c].attempted, client[c].private,
                 client[c].arming, client[c].private)
BY DEF Kinds, Map, Becomes, Refers, Connection

\* The mapping goes.
LEMMA UnmapMoves ==
  ASSUME Kinds, NEW c \in Clients, Unmap(c)
  PROVE  Becomes(c, client[c].life, client[c].attempted, client[c].private,
                 client[c].arming, None)
BY DEF Kinds, Unmap, Becomes, Refers, Connection

\* A refused ARM drops its buffer.
LEMMA ArmRefusedMoves ==
  ASSUME Kinds, NEW c \in Clients, ArmRefused(c)
  PROVE  Becomes(c, client[c].life, client[c].attempted, client[c].private, None,
                 client[c].alias)
BY DEF Kinds, ArmRefused, Becomes, Refers, Connection

\* A retirement keeps the buffer.
LEMMA RetireMoves ==
  ASSUME Kinds, NEW c \in Clients, Retire(c)
  PROVE  Becomes(c, client[c].life, TRUE, client[c].private, client[c].arming,
                 client[c].alias)
BY DEF Kinds, Retire, Becomes, Refers, Connection

\* A close drops the private buffer, and neither an ARM in progress nor a mapping.
LEMMA FinalCloseMoves ==
  ASSUME Kinds, NEW c \in Clients, FinalClose(c)
  PROVE  Becomes(c, "closed", TRUE, None, client[c].arming, client[c].alias)
BY DEF Kinds, FinalClose, Becomes, Refers, Connection

\* What must be shown of one connection so that it is so of all.
LEMMA ConnectedMoved ==
  ASSUME Connected, NEW c \in Clients, NEW l, NEW a, NEW p, NEW g, NEW m,
         Becomes(c, l, a, p, g, m),
         p # None => a, g # None => l # "new", l = "closed" => a
  PROVE  Connected'
BY DEF Becomes, Refers, Connected

\* The history stays true while no attempt is taken back.
LEMMA RememberedMoved ==
  ASSUME Kinds, Remembered, NEW c \in Clients, NEW l, NEW a, NEW p, NEW g, NEW m,
         Becomes(c, l, a, p, g, m), client[c].attempted => a,
         UNCHANGED <<leased, restartable, armedBy>>
  PROVE  Remembered'
<1>1. /\ \A i \in 1..Len(armedBy) : armedBy[i] \in Clients
      /\ armedBy' = armedBy
  BY DEF Kinds
<1>2. \A d \in Clients : client[d].attempted => client'[d].attempted
  BY DEF Becomes, Refers
<1>3. \A i \in 1..Len(armedBy') : client'[armedBy'[i]].attempted
  BY <1>1, <1>2 DEF Remembered
<1> QED
  BY <1>3 DEF Remembered, OnceArmed

\* Two connections stay apart if the new references of one are not of another.
LEMMA ApartMoved ==
  ASSUME Apart, NEW c \in Clients, NEW l, NEW a, NEW p, NEW g, NEW m,
         Becomes(c, l, a, p, g, m),
         \A d \in Clients : d # c => References(d) \cap ({g, p, m} \ {None}) = {}
  PROVE  Apart'
<1>1. /\ References(c)' = {g, p, m} \ {None}
      /\ \A d \in Clients : d # c => References(d)' = References(d)
  BY DEF References, Becomes, Refers
<1> QED
  BY <1>1 DEF Apart

\* In particular when it refers to nothing new.
LEMMA ApartShrunk ==
  ASSUME Apart, NEW c \in Clients, NEW l, NEW a, NEW p, NEW g, NEW m,
         Becomes(c, l, a, p, g, m),
         {g, p, m} \ {None} \subseteq References(c)
  PROVE  Apart'
<1>1. \A d \in Clients : d # c => References(d) \cap ({g, p, m} \ {None}) = {}
  BY DEF Apart
<1> QED
  BY <1>1, ApartMoved

-----------------------------------------------------------------------------
(***************************************************************************)
(* Counting.                                                               *)
(***************************************************************************)

\* One if it is so.
Bit(p) == IF p THEN 1 ELSE 0

\* Two sets of connections that differ in one connection at most.
LEMMA Counted ==
  ASSUME NEW S \in SUBSET Clients, NEW T \in SUBSET Clients, NEW c \in Clients,
         \A x \in Clients \ {c} : x \in S <=> x \in T
  PROVE  /\ Cardinality(S) \in Nat /\ Cardinality(T) \in Nat
         /\ Cardinality(T) = Cardinality(S) + Bit(c \in T) - Bit(c \in S)
<1>1. IsFiniteSet(S) /\ IsFiniteSet(T)
  BY ConsoleAssumption, FS_Subset
<1>2. Cardinality(S) \in Nat /\ Cardinality(T) \in Nat
  BY <1>1, FS_CardinalityType
<1>3. CASE c \in S <=> c \in T
  <2>1. S = T
    BY <1>3
  <2> QED
    BY <1>2, <2>1 DEF Bit
<1>4. CASE c \in S /\ c \notin T
  <2>1. T = S \ {c}
    BY <1>4
  <2>2. Cardinality(T) = Cardinality(S) - 1
    BY <1>1, <1>4, <2>1, FS_RemoveElement
  <2> QED
    BY <1>2, <1>4, <2>2 DEF Bit
<1>5. CASE c \notin S /\ c \in T
  <2>1. T = S \cup {c}
    BY <1>5
  <2>2. Cardinality(T) = Cardinality(S) + 1
    BY <1>1, <1>5, <2>1, FS_AddElement
  <2> QED
    BY <1>2, <1>5, <2>2 DEF Bit
<1> QED
  BY <1>3, <1>4, <1>5

\* The connections that refer to a buffer in one of the three ways.
Arming(b)  == {c \in Clients : client[c].arming = b}
Keeping(b) == {c \in Clients : client[c].private = b}
Mapping(b) == {c \in Clients : client[c].alias = b}

\* A buffer has a number of holders, and none only if nothing refers to it.
LEMMA HoldersCounted ==
  ASSUME Kinds, NEW b \in Buffers
  PROVE  /\ Holders(b) \in Nat
         /\ Holders(b) = 0 => buffer # b /\ \A c \in Clients : b \notin References(c)
<1> DEFINE i == Cardinality(Arming(b))
           j == Cardinality(Keeping(b))
           k == Cardinality(Mapping(b))
           l == IF buffer = b THEN 1 ELSE 0
<1>1. Holders(b) = i + j + k + l
  BY DEF Holders, Arming, Keeping, Mapping
<1>2. IsFiniteSet(Arming(b)) /\ IsFiniteSet(Keeping(b)) /\ IsFiniteSet(Mapping(b))
  <2>1. /\ Arming(b) \in SUBSET Clients /\ Keeping(b) \in SUBSET Clients
        /\ Mapping(b) \in SUBSET Clients
    BY DEF Arming, Keeping, Mapping
  <2> QED
    BY <2>1, ConsoleAssumption, FS_Subset
<1>3. i \in Nat /\ j \in Nat /\ k \in Nat /\ l \in Nat
  BY <1>2, FS_CardinalityType
<1>4. Holders(b) \in Nat /\ (Holders(b) = 0 => i = 0 /\ j = 0 /\ k = 0 /\ l = 0)
  <2> HIDE DEF i, j, k, l
  <2> QED
    BY <1>1, <1>3
<1>5. i = 0 /\ j = 0 /\ k = 0 => Arming(b) = {} /\ Keeping(b) = {} /\ Mapping(b) = {}
  BY <1>2, FS_EmptySet
<1>6. (Arming(b) = {} /\ Keeping(b) = {} /\ Mapping(b) = {})
        => \A c \in Clients : b \notin References(c)
  BY DEF References, Arming, Keeping, Mapping
<1>7. l = 0 => buffer # b
  OBVIOUS
<1> QED
  BY <1>4, <1>5, <1>6, <1>7

\* What a change of one connection and of the driver's buffer does to the count.
LEMMA HoldersMoved ==
  ASSUME Kinds, NEW c \in Clients, NEW p, NEW g, NEW m, Refers(c, p, g, m), NEW b \in Buffers
  PROVE  /\ Holders(b) \in Nat /\ Holders(b)' \in Nat
         /\ Holders(b)' = Holders(b) + Bit(g = b) - Bit(client[c].arming = b)
                          + Bit(p = b) - Bit(client[c].private = b)
                          + Bit(m = b) - Bit(client[c].alias = b)
                          + Bit(buffer' = b) - Bit(buffer = b)
<1>0. /\ client'[c].private = p /\ client'[c].arming = g /\ client'[c].alias = m
      /\ \A x \in Clients \ {c} : client'[x] = client[x]
  BY DEF Refers
<1>1. /\ Cardinality(Arming(b)) \in Nat /\ Cardinality(Arming(b)') \in Nat
      /\ Cardinality(Arming(b)') = Cardinality(Arming(b)) + Bit(g = b)
                                   - Bit(client[c].arming = b)
  <2>1. /\ Arming(b) \in SUBSET Clients /\ Arming(b)' \in SUBSET Clients
        /\ \A x \in Clients \ {c} : x \in Arming(b) <=> x \in Arming(b)'
        /\ c \in Arming(b)' <=> g = b
        /\ c \in Arming(b) <=> client[c].arming = b
    BY <1>0 DEF Arming
  <2> QED
    BY <2>1, Counted DEF Bit
<1>2. /\ Cardinality(Keeping(b)) \in Nat /\ Cardinality(Keeping(b)') \in Nat
      /\ Cardinality(Keeping(b)') = Cardinality(Keeping(b)) + Bit(p = b)
                                    - Bit(client[c].private = b)
  <2>1. /\ Keeping(b) \in SUBSET Clients /\ Keeping(b)' \in SUBSET Clients
        /\ \A x \in Clients \ {c} : x \in Keeping(b) <=> x \in Keeping(b)'
        /\ c \in Keeping(b)' <=> p = b
        /\ c \in Keeping(b) <=> client[c].private = b
    BY <1>0 DEF Keeping
  <2> QED
    BY <2>1, Counted DEF Bit
<1>3. /\ Cardinality(Mapping(b)) \in Nat /\ Cardinality(Mapping(b)') \in Nat
      /\ Cardinality(Mapping(b)') = Cardinality(Mapping(b)) + Bit(m = b)
                                    - Bit(client[c].alias = b)
  <2>1. /\ Mapping(b) \in SUBSET Clients /\ Mapping(b)' \in SUBSET Clients
        /\ \A x \in Clients \ {c} : x \in Mapping(b) <=> x \in Mapping(b)'
        /\ c \in Mapping(b)' <=> m = b
        /\ c \in Mapping(b) <=> client[c].alias = b
    BY <1>0 DEF Mapping
  <2> QED
    BY <2>1, Counted DEF Bit
<1>4. /\ Holders(b) = Cardinality(Arming(b)) + Cardinality(Keeping(b))
                      + Cardinality(Mapping(b)) + Bit(buffer = b)
      /\ Holders(b)' = Cardinality(Arming(b)') + Cardinality(Keeping(b)')
                       + Cardinality(Mapping(b)') + Bit(buffer' = b)
  BY DEF Holders, Bit, Arming, Keeping, Mapping
<1> QED
  BY <1>1, <1>2, <1>3, <1>4 DEF Bit

\* The same for a step that leaves the connections alone.
LEMMA HoldersSame ==
  ASSUME Kinds, UNCHANGED client, NEW b \in Buffers
  PROVE  /\ Holders(b) \in Nat /\ Holders(b)' \in Nat
         /\ Holders(b)' = Holders(b) + Bit(buffer' = b) - Bit(buffer = b)
<1> DEFINE n == Cardinality(Arming(b)) + Cardinality(Keeping(b)) + Cardinality(Mapping(b))
<1>1. /\ Holders(b) = n + Bit(buffer = b)
      /\ Holders(b)' = n + Bit(buffer' = b)
  BY DEF Holders, Bit, Arming, Keeping, Mapping
<1>2. /\ Arming(b) \in SUBSET Clients /\ Keeping(b) \in SUBSET Clients
      /\ Mapping(b) \in SUBSET Clients
  BY DEF Arming, Keeping, Mapping
<1>3. n \in Nat
  <2>1. /\ IsFiniteSet(Arming(b)) /\ IsFiniteSet(Keeping(b))
        /\ IsFiniteSet(Mapping(b))
    BY <1>2, ConsoleAssumption, FS_Subset
  <2> QED
    BY <2>1, FS_CardinalityType
<1> HIDE DEF n
<1> QED
  BY <1>1, <1>3 DEF Bit

\* The counts and the slots, with their types.
Counts == RefsExact /\ refs \in [Buffers -> Nat] /\ slots \in 0..BufferLimit
Live(r) == {b \in Buffers : r[b] > 0}

\* Releasing down to the holders that are left keeps the counts and frees the slots.
LEMMA Balance ==
  ASSUME Kinds, RefsExact, NEW r,
         r \in [Buffers -> Int],
         \A b \in Buffers : r[b] = Holders(b)' /\ r[b] \in Nat /\ r[b] <= refs[b],
         ReleaseTo(r)
  PROVE  Counts'
<1> DEFINE freed == {b \in Buffers : refs[b] > 0 /\ r[b] = 0}
<1>1. refs' = r /\ slots' = slots - Cardinality(freed)
  BY DEF ReleaseTo
<1>2. r \in [Buffers -> Nat]
  OBVIOUS
<1>3. slots = Cardinality(Live(refs)) /\ refs \in [Buffers -> Nat]
  BY DEF RefsExact, Kinds, Live
<1>4. Live(r) = Live(refs) \ freed /\ Live(refs) \cap freed = freed
  BY <1>2, <1>3 DEF Live
<1>5. IsFiniteSet(Live(refs)) /\ IsFiniteSet(freed) /\ IsFiniteSet(Live(r))
  <2>1. /\ Live(refs) \in SUBSET Buffers /\ freed \in SUBSET Buffers
        /\ Live(r) \in SUBSET Buffers
    BY DEF Live
  <2> QED
    BY <2>1, ConsoleAssumption, FS_Subset
<1>6. /\ Cardinality(Live(refs)) \in Nat /\ Cardinality(freed) \in Nat
      /\ Cardinality(Live(r)) \in Nat
  BY <1>5, FS_CardinalityType
<1>7. Cardinality(Live(r)) = Cardinality(Live(refs)) - Cardinality(freed)
  BY <1>4, <1>5, FS_Difference
<1>8. slots' = Cardinality(Live(r)) /\ slots' \in 0..BufferLimit
  <2>1. slots \in 0..BufferLimit
    BY DEF Kinds
  <2> HIDE DEF freed
  <2> QED
    BY <1>1, <1>3, <1>6, <1>7, <2>1, ConsoleAssumption
<1> QED
  BY <1>1, <1>2, <1>8 DEF Counts, RefsExact, Live

\* A reference more to a buffer that lives needs no slot.
LEMMA Retained ==
  ASSUME Kinds, RefsExact, NEW x \in Buffers, refs[x] > 0,
         refs' = [refs EXCEPT ![x] = @ + 1], UNCHANGED slots,
         \A b \in Buffers : Holders(b)' = refs[b] + Bit(b = x)
  PROVE  Counts'
<1>1. /\ refs \in [Buffers -> Nat] /\ refs' \in [Buffers -> Nat]
      /\ slots \in 0..BufferLimit /\ slots = Cardinality(Live(refs))
  BY DEF Kinds, RefsExact, Live
<1>2. Live(refs') = Live(refs)
  BY <1>1 DEF Live
<1>3. \A b \in Buffers : refs'[b] = Holders(b)'
  BY <1>1 DEF Bit
<1> QED
  BY <1>1, <1>2, <1>3 DEF Counts, RefsExact, Live

\* One reference given back, if there was one.
LEMMA ReleasedOnce ==
  ASSUME Kinds, RefsExact, NEW x \in Buffers \cup {None}, ReleaseTo(Released(refs, x)),
         \A b \in Buffers : Holders(b)' \in Nat /\ Holders(b)' = refs[b] - Bit(x = b)
  PROVE  Counts'
<1>1. refs \in [Buffers -> Nat] /\ None \notin Buffers
  BY ConsoleAssumption DEF Kinds
<1>2. /\ Released(refs, x) \in [Buffers -> Int]
      /\ \A b \in Buffers : Released(refs, x)[b] = refs[b] - Bit(x = b)
  <2>1. CASE x = None
    BY <1>1, <2>1 DEF Released, Bit
  <2>2. CASE x \in Buffers
    BY <1>1, <2>2 DEF Released, Bit
  <2> QED
    BY <2>1, <2>2
<1>3. \A b \in Buffers : /\ Released(refs, x)[b] = Holders(b)'
                         /\ Released(refs, x)[b] \in Nat /\ Released(refs, x)[b] <= refs[b]
  <2> SUFFICES ASSUME NEW b \in Buffers
               PROVE  /\ Released(refs, x)[b] = Holders(b)'
                      /\ Released(refs, x)[b] \in Nat /\ Released(refs, x)[b] <= refs[b]
    OBVIOUS
  <2>1. refs[b] \in Nat /\ (Bit(x = b) = 0 \/ Bit(x = b) = 1)
    BY <1>1 DEF Bit
  <2> QED
    BY <1>2, <2>1
<1> QED
  BY <1>2, <1>3, Balance

\* Two at once, of what may be the same buffer.
LEMMA ReleasedTwice ==
  ASSUME Kinds, RefsExact, NEW x \in Buffers \cup {None}, NEW y \in Buffers \cup {None},
         ReleaseTo(Released(Released(refs, x), y)),
         \A b \in Buffers : /\ Holders(b)' \in Nat
                            /\ Holders(b)' = refs[b] - Bit(x = b) - Bit(y = b)
  PROVE  Counts'
<1> DEFINE r == Released(refs, x)
           s == Released(r, y)
<1>1. refs \in [Buffers -> Nat] /\ None \notin Buffers
  BY ConsoleAssumption DEF Kinds
<1>2. r \in [Buffers -> Int] /\ \A b \in Buffers : r[b] = refs[b] - Bit(x = b)
  <2>1. CASE x = None
    BY <1>1, <2>1 DEF Released, Bit
  <2>2. CASE x \in Buffers
    BY <1>1, <2>2 DEF Released, Bit
  <2> QED
    BY <2>1, <2>2
<1>3. s \in [Buffers -> Int] /\ \A b \in Buffers : s[b] = r[b] - Bit(y = b)
  <2> HIDE DEF r
  <2>1. CASE y = None
    BY <1>1, <1>2, <2>1 DEF Released, Bit
  <2>2. CASE y \in Buffers
    BY <1>1, <1>2, <2>2 DEF Released, Bit
  <2> QED
    BY <2>1, <2>2
<1> HIDE DEF r
<1>4. \A b \in Buffers : s[b] = Holders(b)' /\ s[b] \in Nat /\ s[b] <= refs[b]
  <2> SUFFICES ASSUME NEW b \in Buffers
               PROVE  s[b] = Holders(b)' /\ s[b] \in Nat /\ s[b] <= refs[b]
    OBVIOUS
  <2>1. /\ refs[b] \in Nat /\ r[b] \in Int /\ s[b] \in Int
        /\ Bit(x = b) = 0 \/ Bit(x = b) = 1
        /\ Bit(y = b) = 0 \/ Bit(y = b) = 1
    BY <1>1, <1>2, <1>3 DEF Bit
  <2> HIDE DEF s
  <2> QED
    BY <1>2, <1>3, <2>1
<1> QED
  BY <1>3, <1>4, Balance DEF r

\* A step that moves no reference.
LEMMA CountsSame ==
  ASSUME Kinds, RefsExact, UNCHANGED memory, \A b \in Buffers : Holders(b)' = Holders(b)
  PROVE  Counts'
BY DEF memory, Kinds, RefsExact, Counts

-----------------------------------------------------------------------------
(***************************************************************************)
(* What the registers answer while driver and device agree.                *)
(***************************************************************************)

Quiet(d) == [d EXCEPT !.state = 2, !.pending = NoFrame]

\* The retirement of an owner is always sure.
LEMMA RetireMeans ==
  ASSUME IInv, NEW poison \in BOOLEAN, RetireLocked(dev, poison)
  PROVE  /\ owner' = None /\ buffer' = None /\ poisoned' = (poisoned \/ poison)
         /\ dev' = IF owner = None THEN dev ELSE Quiet(dev)
<1>1. CASE owner = None
  BY <1>1 DEF RetireLocked, IInv, Kinds
<1>2. CASE owner # None
  <2>1. /\ dev \in Device /\ dev.state = 1
        /\ restartable => dev.active = epoch /\ dev.requested = epoch /\ epoch # 0
    BY <1>2 DEF IInv, Kinds, Followed, InAgreement
  <2>2. WriteEpoch(dev, epoch) = dev
    BY <2>1 DEF WriteEpoch, Device
  <2>3. WriteRetire(dev) = Quiet(dev)
    BY <2>1 DEF WriteRetire, InEpoch, Quiet
  <2>4. Quiet(dev).state = 2 /\ Quiet(dev).active = dev.active
    BY <2>1 DEF Quiet, Device
  <2> QED
    BY <1>2, <2>1, <2>2, <2>3, <2>4 DEF RetireLocked, IInv, Kinds
<1> QED
  BY <1>1, <1>2

\* The device takes a frame that is in step.
LEMMA CommitMeans ==
  ASSUME IInv, NEW c \in Clients, owner = c, sequence # MaxSequence, InStep(dev, sequence)
  PROVE  LET d == WriteCommit(WriteEpoch(dev, epoch), [by |-> c, seq |-> sequence + 1])
         IN  /\ d = [dev EXCEPT !.pending = [by |-> c, seq |-> sequence + 1],
                                !.ack = sequence + 1, !.error = FALSE]
             /\ InStep(d, sequence + 1)
<1> DEFINE f == [by |-> c, seq |-> sequence + 1]
           d == [dev EXCEPT !.pending = f, !.ack = f.seq, !.error = FALSE]
<1>1. /\ dev \in Device /\ dev.state = 1 /\ ~dev.error /\ dev.ack = sequence
      /\ restartable => dev.active = epoch /\ dev.requested = epoch /\ epoch # 0
      /\ sequence \in 0..MaxSequence /\ owner # None
  BY ConsoleAssumption DEF IInv, Kinds, Followed, InAgreement, InStep
<1>2. WriteEpoch(dev, epoch) = dev
  BY <1>1 DEF WriteEpoch, Device
<1>3. WriteCommit(dev, f) = d
  BY <1>1 DEF WriteCommit, InEpoch
<1>4. InStep(d, sequence + 1)
  <2>1. d.state = 1 /\ d.error = FALSE /\ d.ack = sequence + 1 /\ d.active = dev.active
    BY <1>1 DEF Device
  <2> HIDE DEF d
  <2> QED
    BY <1>1, <2>1 DEF InStep
<1> QED
  BY <1>2, <1>3, <1>4

\* So a commit that fails, fails before the copy.
LEMMA CommitFailsMeans ==
  ASSUME IInv, NEW c \in Clients, CommitFails(c)
  PROVE  owner = c /\ RetireLocked(dev, TRUE)
<1>1. owner = c /\ sequence # MaxSequence
  BY DEF CommitFails, CommitReady
<1>2. CASE InStep(dev, sequence)
  BY <1>1, <1>2, CommitMeans DEF CommitFails
<1>3. CASE ~InStep(dev, sequence)
  BY <1>1, <1>3 DEF CommitFails
<1> QED
  BY <1>2, <1>3

Armed == IF restartable
         THEN [dev EXCEPT !.requested = epoch + 1, !.state = 1, !.error = FALSE,
                          !.pending = NoFrame, !.ack = 0, !.active = epoch + 1]
         ELSE [dev EXCEPT !.state = 1, !.error = FALSE]

\* A register holds what was written to it and the device stays a device.
LEMMA Registers ==
  ASSUME NEW d \in Device
  PROVE  /\ \A n \in 0..2 : [d EXCEPT !.state = n] \in Device
         /\ \A e \in 0..MaxEpoch : [d EXCEPT !.requested = e] \in Device
         /\ \A e \in 0..MaxEpoch : [d EXCEPT !.active = e] \in Device
         /\ \A n \in 0..MaxSequence : [d EXCEPT !.ack = n] \in Device
         /\ \A b \in BOOLEAN : [d EXCEPT !.error = b] \in Device
         /\ \A f \in Frame : [d EXCEPT !.pending = f] \in Device
BY DEF Device

\* So are the states the driver brings it to.
LEMMA DeviceKept ==
  ASSUME IInv
  PROVE  /\ NoFrame \in Frame
         /\ \A d \in Device : Quiet(d) \in Device /\ Quiet(d).pending = NoFrame
         /\ Idle => Armed \in Device
         /\ \A c \in Clients : sequence # MaxSequence =>
              [dev EXCEPT !.pending = [by |-> c, seq |-> sequence + 1],
                          !.ack = sequence + 1, !.error = FALSE] \in Device
<1>1. /\ dev \in Device /\ epoch \in 0..MaxEpoch /\ MaxEpoch \in Nat
      /\ sequence \in 0..MaxSequence /\ MaxSequence \in Nat /\ 0 \in 0..MaxSequence
      /\ 1 \in 0..2 /\ 2 \in 0..2 /\ FALSE \in BOOLEAN
  BY ConsoleAssumption DEF IInv, Kinds
<1>2. NoFrame \in Frame
  BY <1>1 DEF NoFrame, Frame
<1>3. ASSUME NEW d \in Device
      PROVE  Quiet(d) \in Device /\ Quiet(d).pending = NoFrame
  <2> DEFINE d1 == [d EXCEPT !.state = 2]
  <2>1. d1 \in Device
    BY <1>1, Registers
  <2>2. [d1 EXCEPT !.pending = NoFrame] \in Device
    <3> HIDE DEF d1
    <3> QED
      BY <1>2, <2>1, Registers
  <2> QED
    BY <1>3, <2>2 DEF Quiet, Device
<1>4. ASSUME NEW d \in Device PROVE [d EXCEPT !.state = 1, !.error = FALSE] \in Device
  <2> DEFINE d1 == [d EXCEPT !.state = 1]
  <2>1. d1 \in Device
    BY <1>1, Registers
  <2>2. [d1 EXCEPT !.error = FALSE] \in Device
    <3> HIDE DEF d1
    <3> QED
      BY <1>1, <2>1, Registers
  <2> QED
    BY <2>2
<1>5. ASSUME Idle PROVE Armed \in Device
  <2>1. CASE restartable
    <3> DEFINE d1 == [dev EXCEPT !.requested = epoch + 1]
               d2 == [d1 EXCEPT !.state = 1, !.error = FALSE]
               d3 == [d2 EXCEPT !.pending = NoFrame]
               d4 == [d3 EXCEPT !.ack = 0]
               d5 == [d4 EXCEPT !.active = epoch + 1]
    <3>1. epoch + 1 \in 0..MaxEpoch
      BY <1>1, <1>5, <2>1 DEF Idle
    <3>2. d1 \in Device
      BY <1>1, <3>1, Registers
    <3>3. d2 \in Device
      <4> HIDE DEF d1
      <4> QED
        BY <1>4, <3>2
    <3>4. d3 \in Device
      <4> HIDE DEF d2
      <4> QED
        BY <1>2, <3>3, Registers
    <3>5. d4 \in Device
      <4> HIDE DEF d3
      <4> QED
        BY <1>1, <3>4, Registers
    <3>6. d5 \in Device
      <4> HIDE DEF d4
      <4> QED
        BY <3>1, <3>5, Registers
    <3> QED
      BY <2>1, <3>6 DEF Armed
  <2>2. CASE ~restartable
    BY <1>1, <1>4, <2>2 DEF Armed
  <2> QED
    BY <2>1, <2>2
<1>6. ASSUME NEW c \in Clients, sequence # MaxSequence
      PROVE  [dev EXCEPT !.pending = [by |-> c, seq |-> sequence + 1],
                         !.ack = sequence + 1, !.error = FALSE] \in Device
  <2> DEFINE f  == [by |-> c, seq |-> sequence + 1]
             d1 == [dev EXCEPT !.pending = f]
             d2 == [d1 EXCEPT !.ack = sequence + 1]
             d3 == [d2 EXCEPT !.error = FALSE]
  <2>1. sequence + 1 \in 0..MaxSequence
    BY <1>1, <1>6
  <2>2. d1 \in Device
    <3>1. f \in Frame
      BY <2>1 DEF Frame
    <3> HIDE DEF f
    <3> QED
      BY <1>1, <3>1, Registers
  <2>3. d2 \in Device
    <3> HIDE DEF d1
    <3> QED
      BY <2>1, <2>2, Registers
  <2>4. d3 \in Device
    <3> HIDE DEF d2
    <3> QED
      BY <1>1, <2>3, Registers
  <2> QED
    BY <2>4
<1> QED
  BY <1>2, <1>3, <1>5, <1>6

\* An idle device accepts the ARM; the driver is content, or it retires the device at once.
LEMMA ArmMeans ==
  ASSUME IInv, NEW c \in Clients, Arm(c)
  PROVE  /\ owner = None /\ ~poisoned /\ ~inactive /\ ~client[c].attempted
         /\ ~restartable => ~leased
         /\ client[c].arming # None
         /\ Idle
         /\ leased' = TRUE /\ epoch' = IF restartable THEN epoch + 1 ELSE epoch
         /\ UNCHANGED <<service, strays>>
         /\ \/ /\ dev' = Armed /\ Armed.ack = 0
               /\ owner' = c /\ buffer' = client[c].arming /\ sequence' = 0
               /\ Becomes(c, client[c].life, TRUE, client[c].arming, None, client[c].alias)
               /\ refs' = [refs EXCEPT ![client[c].arming] = @ + 1]
               /\ armedBy' = Append(armedBy, c) /\ UNCHANGED <<poisoned, slots>>
            \/ /\ dev' = Quiet(Armed) /\ poisoned' = TRUE
               /\ Becomes(c, client[c].life, TRUE, client[c].private, None, client[c].alias)
               /\ ReleaseTo(Released(refs, client[c].arming))
               /\ UNCHANGED <<owner, buffer, sequence, armedBy>>
<1> DEFINE next == IF restartable THEN epoch + 1 ELSE epoch
           d    == WriteArm(WriteEpoch(dev, next))
           ok   == d.state = 1 /\ ~d.error /\ d.ack = 0 /\ (restartable => d.active = next)
<1>1. /\ client[c].arming # None /\ ~NotReady(c) /\ Idle
      /\ leased' = TRUE /\ epoch' = next
      /\ client' = [client EXCEPT ![c].attempted = TRUE, ![c].arming = None,
                                  ![c].private = IF ok THEN client[c].arming ELSE @]
      /\ IF ok THEN /\ dev' = d /\ owner' = c /\ buffer' = client[c].arming /\ sequence' = 0
                    /\ refs' = [refs EXCEPT ![client[c].arming] = @ + 1]
                    /\ armedBy' = Append(armedBy, c) /\ UNCHANGED <<poisoned, slots>>
               ELSE /\ poisoned' = TRUE /\ dev' = WriteRetire(d)
                    /\ ReleaseTo(Released(refs, client[c].arming))
                    /\ UNCHANGED <<owner, buffer, sequence, armedBy>>
      /\ UNCHANGED <<service, strays>>
  BY DEF Arm
<1>2. /\ dev \in Device /\ epoch \in 0..MaxEpoch /\ MaxEpoch \in Nat /\ restartable \in BOOLEAN
      /\ client \in [Clients -> Connection]
  BY ConsoleAssumption DEF IInv, Kinds
<1>3. d = Armed
  <2>1. CASE restartable
    <3> DEFINE w == [dev EXCEPT !.requested = epoch + 1]
    <3>1. /\ w.state \in {0, 2} /\ w.active = epoch /\ epoch # MaxEpoch
          /\ w.requested = epoch + 1
      BY <1>1, <1>2, <2>1 DEF Idle, Device
    <3>2. WriteEpoch(dev, next) = w
      BY <2>1 DEF WriteEpoch
    <3>3. ArmAccepted(w)
      BY <2>1, <3>1 DEF ArmAccepted
    <3>4. WriteArm(w) = [w EXCEPT !.state = 1, !.error = FALSE, !.pending = NoFrame,
                                  !.ack = 0, !.active = w.requested]
      BY <2>1, <3>3 DEF WriteArm
    <3>5. WriteArm(w) = [dev EXCEPT !.requested = epoch + 1, !.state = 1, !.error = FALSE,
                          !.pending = NoFrame, !.ack = 0, !.active = epoch + 1]
      BY <1>2, <3>1, <3>4 DEF Device
    <3> QED
      BY <2>1, <3>2, <3>5 DEF Armed
  <2>2. CASE ~restartable
    <3>1. dev.state = 0
      BY <1>1, <2>2 DEF Idle
    <3>2. WriteEpoch(dev, next) = dev
      BY <2>2 DEF WriteEpoch
    <3>3. ArmAccepted(dev)
      BY <2>2, <3>1 DEF ArmAccepted
    <3>4. WriteArm(dev) = [dev EXCEPT !.state = 1, !.error = FALSE]
      BY <1>2, <2>2, <3>3 DEF WriteArm, Device
    <3> QED
      BY <2>2, <3>2, <3>4 DEF Armed
  <2> QED
    BY <2>1, <2>2
<1>4. /\ Armed.state = 1 /\ Armed.error = FALSE
      /\ restartable => Armed.active = epoch + 1 /\ Armed.requested = epoch + 1
  BY <1>2 DEF Armed, Device
<1>5. WriteRetire(Armed) = Quiet(Armed)
  BY <1>2, <1>4 DEF WriteRetire, InEpoch, Quiet
<1>6. ok <=> Armed.ack = 0
  BY <1>3, <1>4
<1>7. CASE ok
  <2>1. client' = [client EXCEPT ![c].attempted = TRUE, ![c].arming = None,
                                 ![c].private = client[c].arming]
    BY <1>1, <1>7
  <2>2. Becomes(c, client[c].life, TRUE, client[c].arming, None, client[c].alias)
    BY <1>2, <2>1 DEF Becomes, Refers, Connection
  <2> QED
    BY <1>1, <1>3, <1>6, <1>7, <2>2 DEF NotReady
<1>8. CASE ~ok
  <2>1. client' = [client EXCEPT ![c].attempted = TRUE, ![c].arming = None,
                                 ![c].private = @]
    BY <1>1, <1>8
  <2>2. Becomes(c, client[c].life, TRUE, client[c].private, None, client[c].alias)
    BY <1>2, <2>1 DEF Becomes, Refers, Connection
  <2>3. dev' = Quiet(Armed)
    BY <1>1, <1>3, <1>5, <1>8
  <2> QED
    BY <1>1, <1>8, <2>2, <2>3 DEF NotReady
<1> QED
  BY <1>7, <1>8

-----------------------------------------------------------------------------
(***************************************************************************)
(* Every step keeps the invariant, part by part.                           *)
(***************************************************************************)

\* Every step of the driver, of a client and of a task keeps the counts.
LEMMA CountsKept == ASSUME IInv, [Next]_vars PROVE Counts'
<1>0. Kinds /\ RefsExact /\ \A b \in Buffers : refs[b] = Holders(b) /\ refs[b] \in Nat
  BY DEF IInv, Kinds, RefsExact
<1>1. ASSUME NEW c \in Clients, Open(c) PROVE Counts'
  <2>1. UNCHANGED <<buffer, memory>>
    BY <1>1 DEF Open, driver
  <2>2. \A b \in Buffers : Holders(b)' = Holders(b)
    BY <1>0, <1>1, <2>1, OpenMoves, HoldersMoved DEF Bit, Becomes
  <2> QED
    BY <1>0, <2>1, <2>2, CountsSame
<1>2. ASSUME NEW c \in Clients, Allocate(c) PROVE Counts'
  <2>1. PICK x \in Buffers :
          /\ refs[x] = 0 /\ refs' = [refs EXCEPT ![x] = 1]
          /\ Becomes(c, client[c].life, client[c].attempted, client[c].private, x,
                     client[c].alias)
    BY <1>0, <1>2, AllocateMoves
  <2>2. /\ client[c].arming = None /\ slots < BufferLimit /\ slots' = slots + 1
        /\ UNCHANGED buffer
    BY <1>2 DEF Allocate, driver
  <2>3. \A b \in Buffers : Holders(b)' = refs[b] + Bit(x = b)
    BY <1>0, <2>1, <2>2, ConsoleAssumption, HoldersMoved DEF Bit, Becomes
  <2>4. refs \in [Buffers -> Nat] /\ refs' \in [Buffers -> Nat]
    BY <1>0, <2>1 DEF Kinds
  <2>5. \A b \in Buffers : refs'[b] = Holders(b)'
    BY <1>0, <2>1, <2>3, <2>4 DEF Bit
  <2>6. /\ Live(refs') = Live(refs) \cup {x} /\ x \notin Live(refs)
        /\ Live(refs) \in SUBSET Buffers
    BY <2>1, <2>4 DEF Live
  <2>7. Cardinality(Live(refs')) = Cardinality(Live(refs)) + 1
    <3>1. IsFiniteSet(Live(refs))
      BY <2>6, ConsoleAssumption, FS_Subset
    <3> QED
      BY <2>6, <3>1, FS_AddElement
  <2>8. slots' = Cardinality(Live(refs')) /\ slots' \in 0..BufferLimit
    BY <1>0, <2>2, <2>7, ConsoleAssumption DEF RefsExact, Live, Kinds
  <2> QED
    BY <2>4, <2>5, <2>8 DEF Counts, RefsExact, Live
<1>3. ASSUME NEW c \in Clients, ArmRefused(c) PROVE Counts'
  <2>1. UNCHANGED buffer /\ ReleaseTo(Released(refs, client[c].arming))
    BY <1>3 DEF ArmRefused
  <2>2. \A b \in Buffers : /\ Holders(b)' \in Nat
                           /\ Holders(b)' = refs[b] - Bit(client[c].arming = b)
    BY <1>0, <1>3, <2>1, ArmRefusedMoves, HoldersMoved, ConsoleAssumption DEF Bit, Becomes
  <2>3. client[c].arming \in Buffers \cup {None}
    BY <1>0 DEF Kinds, Connection
  <2> QED
    BY <1>0, <2>1, <2>2, <2>3, ReleasedOnce
<1>4. ASSUME NEW c \in Clients, Arm(c) PROVE Counts'
  <2> DEFINE x == client[c].arming
  <2>1. /\ x \in Buffers /\ client[c].private = None /\ buffer = None /\ None \notin Buffers
        /\ c # None
    BY <1>0, <1>4, ArmMeans, ConsoleAssumption DEF IInv, Kinds, Connection, Connected, Owned
  <2>2. CASE /\ Becomes(c, client[c].life, TRUE, x, None, client[c].alias)
             /\ buffer' = x /\ refs' = [refs EXCEPT ![x] = @ + 1] /\ UNCHANGED slots
    <3>1. \A b \in Buffers : Holders(b)' = refs[b] + Bit(x = b)
      BY <1>0, <2>1, <2>2, HoldersMoved DEF Bit, Becomes
    <3>2. refs[x] # 0
      <4>1. x \in References(c)
        BY <2>1 DEF References
      <4> QED
        BY <1>0, <2>1, <4>1, HoldersCounted
    <3>3. refs[x] > 0
      BY <1>0, <2>1, <3>2
    <3> QED
      BY <1>0, <2>1, <2>2, <3>1, <3>3, Retained DEF Bit
  <2>3. CASE /\ Becomes(c, client[c].life, TRUE, client[c].private, None, client[c].alias)
             /\ ReleaseTo(Released(refs, x)) /\ UNCHANGED buffer
    <3>1. \A b \in Buffers : /\ Holders(b)' \in Nat
                             /\ Holders(b)' = refs[b] - Bit(x = b)
      BY <1>0, <2>1, <2>3, HoldersMoved DEF Bit, Becomes
    <3> QED
      BY <1>0, <2>1, <2>3, <3>1, ReleasedOnce
  <2> QED
    BY <1>4, <2>2, <2>3, ArmMeans
<1>5. ASSUME NEW c \in Clients, Commit(c) PROVE Counts'
  <2>1. UNCHANGED <<client, buffer, memory>>
    BY <1>5 DEF Commit
  <2> QED
    BY <1>0, <2>1, HoldersSame, CountsSame DEF Bit
<1>6. ASSUME NEW c \in Clients, CommitFails(c) PROVE Counts'
  <2>1. UNCHANGED client /\ buffer' = None /\ ReleaseTo(Released(refs, buffer))
    BY <1>6, CommitFailsMeans, RetireMeans DEF CommitFails
  <2>2. \A b \in Buffers : /\ Holders(b)' \in Nat
                           /\ Holders(b)' = refs[b] - Bit(buffer = b)
    BY <1>0, <2>1, HoldersSame, ConsoleAssumption DEF Bit
  <2>3. buffer \in Buffers \cup {None}
    BY <1>0 DEF Kinds
  <2> QED
    BY <1>0, <2>1, <2>2, <2>3, ReleasedOnce
<1>7. ASSUME NEW c \in Clients, Retire(c) PROVE Counts'
  <2>0. Refers(c, client[c].private, client[c].arming, client[c].alias)
    BY <1>0, <1>7, RetireMoves DEF Becomes
  <2>1. CASE owner = c
    <3>1. buffer' = None /\ ReleaseTo(Released(refs, buffer))
      BY <1>7, <2>1, RetireMeans DEF Retire
    <3>2. \A b \in Buffers : /\ Holders(b)' \in Nat
                             /\ Holders(b)' = refs[b] - Bit(buffer = b)
      BY <1>0, <2>0, <3>1, HoldersMoved, ConsoleAssumption DEF Bit
    <3>3. buffer \in Buffers \cup {None}
      BY <1>0 DEF Kinds
    <3> QED
      BY <1>0, <3>1, <3>2, <3>3, ReleasedOnce
  <2>2. CASE owner # c
    <3>1. UNCHANGED <<buffer, memory>>
      BY <1>7, <2>2 DEF Retire
    <3>2. \A b \in Buffers : Holders(b)' = Holders(b)
      BY <1>0, <2>0, <3>1, HoldersMoved DEF Bit
    <3> QED
      BY <1>0, <3>1, <3>2, CountsSame
  <2> QED
    BY <2>1, <2>2
<1>8. ASSUME NEW c \in Clients, FinalClose(c) PROVE Counts'
  <2>1. client[c].private \in Buffers \cup {None} /\ buffer \in Buffers \cup {None}
    BY <1>0 DEF Kinds, Connection
  <2>0. Refers(c, None, client[c].arming, client[c].alias)
    BY <1>0, <1>8, FinalCloseMoves DEF Becomes
  <2>2. CASE owner = c
    <3>1. /\ buffer' = None
          /\ ReleaseTo(Released(Released(refs, client[c].private), buffer))
      BY <1>8, <2>2, RetireMeans DEF FinalClose
    <3>2. \A b \in Buffers :
            /\ Holders(b)' \in Nat
            /\ Holders(b)' = refs[b] - Bit(client[c].private = b) - Bit(buffer = b)
      BY <1>0, <2>0, <3>1, HoldersMoved, ConsoleAssumption DEF Bit
    <3> QED
      BY <1>0, <2>1, <3>1, <3>2, ReleasedTwice
  <2>3. CASE owner # c
    <3>1. UNCHANGED buffer /\ ReleaseTo(Released(refs, client[c].private))
      BY <1>8, <2>3 DEF FinalClose
    <3>2. \A b \in Buffers : /\ Holders(b)' \in Nat
                             /\ Holders(b)' = refs[b] - Bit(client[c].private = b)
      BY <1>0, <2>0, <3>1, HoldersMoved, ConsoleAssumption DEF Bit
    <3> QED
      BY <1>0, <2>1, <3>1, <3>2, ReleasedOnce
  <2> QED
    BY <2>2, <2>3
<1>9. ASSUME NEW c \in Clients, Map(c) PROVE Counts'
  <2> DEFINE x == client[c].private
  <2>1. /\ x \in Buffers /\ client[c].alias = None /\ None \notin Buffers
        /\ refs' = [refs EXCEPT ![x] = @ + 1] /\ UNCHANGED <<buffer, slots>>
    BY <1>0, <1>9, ConsoleAssumption DEF Map, driver, Kinds, Connection
  <2>2. \A b \in Buffers : Holders(b)' = refs[b] + Bit(x = b)
    BY <1>0, <1>9, <2>1, MapMoves, HoldersMoved DEF Bit, Becomes
  <2>3. refs[x] > 0
    <3>1. x \in References(c)
      BY <2>1 DEF References
    <3>2. refs[x] # 0
      BY <1>0, <2>1, <3>1, HoldersCounted
    <3> QED
      BY <1>0, <2>1, <3>2
  <2> QED
    BY <1>0, <2>1, <2>2, <2>3, Retained DEF Bit
<1>10. ASSUME NEW c \in Clients, Unmap(c) PROVE Counts'
  <2>1. UNCHANGED buffer /\ ReleaseTo(Released(refs, client[c].alias))
    BY <1>10 DEF Unmap, driver
  <2>2. \A b \in Buffers : /\ Holders(b)' \in Nat
                           /\ Holders(b)' = refs[b] - Bit(client[c].alias = b)
    BY <1>0, <1>10, <2>1, UnmapMoves, HoldersMoved, ConsoleAssumption DEF Bit, Becomes
  <2>3. client[c].alias \in Buffers \cup {None}
    BY <1>0 DEF Kinds, Connection
  <2> QED
    BY <1>0, <2>1, <2>2, <2>3, ReleasedOnce
<1>11. CASE Publish \/ Stray \/ Terminate
  <2>1. UNCHANGED <<client, buffer, memory>>
    BY <1>11 DEF Publish, Stray, Terminate, driver
  <2> QED
    BY <1>0, <2>1, HoldersSame, CountsSame DEF Bit
<1>12. CASE Stop
  <2>1. UNCHANGED client /\ buffer' = None /\ ReleaseTo(Released(refs, buffer))
    BY <1>12, RetireMeans DEF Stop
  <2>2. \A b \in Buffers : /\ Holders(b)' \in Nat
                           /\ Holders(b)' = refs[b] - Bit(buffer = b)
    BY <1>0, <2>1, HoldersSame, ConsoleAssumption DEF Bit
  <2>3. buffer \in Buffers \cup {None}
    BY <1>0 DEF Kinds
  <2> QED
    BY <1>0, <2>1, <2>2, <2>3, ReleasedOnce
<1>13. CASE UNCHANGED vars
  <2>1. UNCHANGED <<client, buffer, memory>>
    BY <1>13 DEF vars, driver
  <2> QED
    BY <1>0, <2>1, HoldersSame, CountsSame DEF Bit
<1> QED
  BY <1>1, <1>2, <1>3, <1>4, <1>5, <1>6, <1>7, <1>8, <1>9, <1>10, <1>11, <1>12, <1>13
  DEF Next

\* Every step keeps the types, given that it keeps the counts.
LEMMA KindsKept == ASSUME IInv, Counts', [Next]_vars PROVE Kinds'
<1>1. ASSUME NEW c \in Clients, Open(c) PROVE Kinds'
  BY <1>1, OpenMoves DEF Open, driver, service, IInv, Kinds, Counts, Becomes, Refers
<1>2. ASSUME NEW c \in Clients, Allocate(c) PROVE Kinds'
  <2>1. PICK b \in Buffers :
          /\ refs[b] = 0
          /\ Becomes(c, client[c].life, client[c].attempted, client[c].private, b,
                     client[c].alias)
    BY <1>2, AllocateMoves DEF IInv
  <2> QED
    BY <1>2, <2>1 DEF Allocate, driver, service, IInv, Kinds, Counts, Becomes, Refers
<1>3. ASSUME NEW c \in Clients, ArmRefused(c) PROVE Kinds'
  BY <1>3, ArmRefusedMoves DEF ArmRefused, driver, service, IInv, Kinds, Counts, Becomes,
     Refers
<1>4. ASSUME NEW c \in Clients, Arm(c) PROVE Kinds'
  <2>1. /\ leased' = TRUE /\ epoch' = (IF restartable THEN epoch + 1 ELSE epoch)
        /\ UNCHANGED <<service, strays>> /\ Idle /\ client[c].arming # None
    BY <1>4, ArmMeans
  <2>2. epoch' \in 0..MaxEpoch
    BY <2>1, ConsoleAssumption DEF Idle, IInv, Kinds
  <2>3. \/ /\ dev' = Armed
           /\ owner' = c /\ buffer' = client[c].arming /\ sequence' = 0
           /\ Becomes(c, client[c].life, TRUE, client[c].arming, None, client[c].alias)
           /\ armedBy' = Append(armedBy, c) /\ UNCHANGED poisoned
        \/ /\ dev' = Quiet(Armed) /\ poisoned' = TRUE
           /\ Becomes(c, client[c].life, TRUE, client[c].private, None, client[c].alias)
           /\ UNCHANGED <<owner, buffer, sequence, armedBy>>
    BY <1>4, ArmMeans
  <2>4. dev' \in Device
    BY <2>1, <2>3, DeviceKept
  <2>5. client' \in [Clients -> Connection] /\ armedBy' \in Seq(Clients)
    <3>1. client' \in [Clients -> Connection]
      BY <2>3 DEF Becomes, Refers
    <3>2. armedBy \in Seq(Clients)
      BY DEF IInv, Kinds
    <3>3. Append(armedBy, c) \in Seq(Clients)
      BY <3>2
    <3> QED
      BY <2>3, <3>1, <3>2, <3>3
  <2>6. /\ owner' \in Clients \cup {None} /\ buffer' \in Buffers \cup {None}
        /\ poisoned' \in BOOLEAN /\ sequence' \in 0..MaxSequence
    <3>1. /\ client[c].arming \in Buffers \cup {None} /\ 0 \in 0..MaxSequence
          /\ owner \in Clients \cup {None} /\ buffer \in Buffers \cup {None}
          /\ poisoned \in BOOLEAN /\ sequence \in 0..MaxSequence
      BY ConsoleAssumption DEF IInv, Kinds, Connection
    <3> QED
      BY <2>3, <3>1
  <2> QED
    BY <2>1, <2>2, <2>4, <2>5, <2>6 DEF service, IInv, Kinds, Counts
<1>5. ASSUME NEW c \in Clients, Retire(c) PROVE Kinds'
  <2>1. UNCHANGED <<epoch, sequence, leased, service, strays, armedBy>>
    BY <1>5 DEF Retire
  <2>2. client' \in [Clients -> Connection]
    BY <1>5, RetireMoves DEF IInv, Becomes, Refers
  <2>3. /\ owner' \in Clients \cup {None} /\ buffer' \in Buffers \cup {None}
        /\ poisoned' \in BOOLEAN /\ dev' \in Device
    <3>1. CASE owner = c
      BY <1>5, <3>1, RetireMeans, DeviceKept, ConsoleAssumption DEF Retire, IInv, Kinds
    <3>2. CASE owner # c
      BY <1>5, <3>2 DEF Retire, IInv, Kinds
    <3> QED
      BY <3>1, <3>2
  <2> QED
    BY <2>1, <2>2, <2>3 DEF service, IInv, Kinds, Counts
<1>6. ASSUME NEW c \in Clients, FinalClose(c) PROVE Kinds'
  <2>1. UNCHANGED <<epoch, sequence, leased, service, strays, armedBy>>
    BY <1>6 DEF FinalClose
  <2>2. client' \in [Clients -> Connection]
    BY <1>6, FinalCloseMoves DEF IInv, Becomes, Refers
  <2>3. /\ owner' \in Clients \cup {None} /\ buffer' \in Buffers \cup {None}
        /\ poisoned' \in BOOLEAN /\ dev' \in Device
    <3>1. CASE owner = c
      BY <1>6, <3>1, RetireMeans, DeviceKept, ConsoleAssumption DEF FinalClose, IInv, Kinds
    <3>2. CASE owner # c
      BY <1>6, <3>2 DEF FinalClose, IInv, Kinds
    <3> QED
      BY <3>1, <3>2
  <2> QED
    BY <2>1, <2>2, <2>3 DEF service, IInv, Kinds, Counts
<1>7. ASSUME NEW c \in Clients, Map(c) PROVE Kinds'
  BY <1>7, MapMoves DEF Map, driver, service, IInv, Kinds, Counts, Becomes, Refers
<1>8. ASSUME NEW c \in Clients, Unmap(c) PROVE Kinds'
  BY <1>8, UnmapMoves DEF Unmap, driver, service, IInv, Kinds, Counts, Becomes, Refers
<1>9. ASSUME NEW c \in Clients, Commit(c) PROVE Kinds'
  <2>1. /\ owner = c /\ sequence # MaxSequence /\ InStep(dev, sequence)
        /\ dev' = WriteCommit(WriteEpoch(dev, epoch), [by |-> c, seq |-> sequence + 1])
        /\ sequence' = sequence + 1
        /\ UNCHANGED <<client, owner, buffer, epoch, poisoned, leased, service,
                       strays, armedBy>>
    BY <1>9 DEF Commit, CommitReady
  <2>2. dev' \in Device
    BY <2>1, CommitMeans, DeviceKept
  <2>3. sequence' \in 0..MaxSequence
    BY <2>1, ConsoleAssumption DEF IInv, Kinds
  <2> QED
    BY <2>1, <2>2, <2>3 DEF service, IInv, Kinds, Counts
<1>10. ASSUME NEW c \in Clients, CommitFails(c) PROVE Kinds'
  <2>1. owner' = None /\ buffer' = None /\ poisoned' = TRUE /\ dev' \in Device
    BY <1>10, CommitFailsMeans, RetireMeans, DeviceKept DEF IInv, Kinds
  <2> QED
    BY <1>10, <2>1 DEF CommitFails, service, IInv, Kinds, Counts
<1>11. CASE Publish
  <2>1. dev' \in Device
    BY <1>11, DeviceKept, Registers DEF Publish, IInv, Kinds
  <2> QED
    BY <1>11, <2>1 DEF Publish, driver, service, IInv, Kinds, Counts
<1>12. CASE Stray
  <2>1. dev' \in Device
    BY <1>12, DeviceKept, Registers DEF Stray, IInv, Kinds
  <2>2. strays' \in 0..MaxStrays
    BY <1>12, ConsoleAssumption DEF Stray, IInv, Kinds
  <2> QED
    BY <1>12, <2>1, <2>2 DEF Stray, driver, service, IInv, Kinds, Counts
<1>13. CASE Terminate
  BY <1>13 DEF Terminate, driver, IInv, Kinds, Counts
<1>14. CASE Stop
  <2>1. owner' = None /\ buffer' = None /\ poisoned' = poisoned /\ dev' \in Device
    BY <1>14, RetireMeans, DeviceKept DEF Stop, IInv, Kinds
  <2> QED
    BY <1>14, <2>1 DEF Stop, IInv, Kinds, Counts
<1>15. CASE UNCHANGED vars
  BY <1>15 DEF IInv, Kinds, Counts, vars, driver, service, memory
<1> QED
  BY <1>1, <1>2, <1>3, <1>4, <1>5, <1>6, <1>7, <1>8, <1>9, <1>10, <1>11, <1>12, <1>13, <1>14,
    <1>15 DEF Next

\* Every step keeps what is known of a connection.
LEMMA ConnectedKept == ASSUME IInv, [Next]_vars PROVE Connected'
<1>1. ASSUME NEW c \in Clients, Open(c) PROVE Connected'
  BY <1>1, OpenMoves, ConnectedMoved DEF IInv, Connected, Open
<1>2. ASSUME NEW c \in Clients, Allocate(c) PROVE Connected'
  <2>1. PICK b \in Buffers :
          /\ refs[b] = 0
          /\ Becomes(c, client[c].life, client[c].attempted, client[c].private, b,
                     client[c].alias)
    BY <1>2, AllocateMoves DEF IInv
  <2>2. client[c].life # "new"
    BY <1>2 DEF Allocate, IsOpen
  <2> QED
    BY <2>1, <2>2, ConnectedMoved DEF IInv, Connected
<1>3. ASSUME NEW c \in Clients, ArmRefused(c) PROVE Connected'
  BY <1>3, ArmRefusedMoves, ConnectedMoved DEF IInv, Connected
<1>4. ASSUME NEW c \in Clients, Arm(c) PROVE Connected'
  <2> QED
    BY <1>4, ArmMeans, ConnectedMoved DEF IInv, Connected
<1>5. ASSUME NEW c \in Clients, Retire(c) PROVE Connected'
  BY <1>5, RetireMoves, ConnectedMoved DEF IInv, Connected
<1>6. ASSUME NEW c \in Clients, FinalClose(c) PROVE Connected'
  BY <1>6, FinalCloseMoves, ConnectedMoved DEF IInv, Connected, FinalClose, IsOpen
<1>7. ASSUME NEW c \in Clients, Map(c) PROVE Connected'
  BY <1>7, MapMoves, ConnectedMoved DEF IInv, Connected
<1>8. ASSUME NEW c \in Clients, Unmap(c) PROVE Connected'
  BY <1>8, UnmapMoves, ConnectedMoved DEF IInv, Connected
<1>9. ASSUME NEW c \in Clients, Commit(c) PROVE Connected'
  BY <1>9 DEF Commit, service,memory, IInv, Connected
<1>10. ASSUME NEW c \in Clients, CommitFails(c) PROVE Connected'
  BY <1>10 DEF CommitFails, IInv, Connected
<1>11. CASE Publish
  BY <1>11 DEF Publish, driver,service,memory, IInv, Connected
<1>12. CASE Stray
  BY <1>12 DEF Stray, driver,service,memory, IInv, Connected
<1>13. CASE Terminate
  BY <1>13 DEF Terminate, driver,memory, IInv, Connected
<1>14. CASE Stop
  BY <1>14 DEF Stop, IInv, Connected
<1>15. CASE UNCHANGED vars
  BY <1>15 DEF IInv, Connected, vars, driver, service, memory
<1> QED
  BY <1>1, <1>2, <1>3, <1>4, <1>5, <1>6, <1>7, <1>8, <1>9, <1>10, <1>11, <1>12, <1>13, <1>14,
    <1>15 DEF Next

\* Every step leaves no owner or an open one with its own buffer.
LEMMA OwnedKept == ASSUME IInv, [Next]_vars PROVE Owned'
<1>1. ASSUME NEW c \in Clients, Open(c) PROVE Owned'
  BY <1>1, OpenMoves DEF Open, driver, service, IInv, Kinds, Owned, IsOpen, Becomes, Refers
<1>2. ASSUME NEW c \in Clients, Allocate(c) PROVE Owned'
  <2>1. PICK b \in Buffers :
          /\ refs[b] = 0
          /\ Becomes(c, client[c].life, client[c].attempted, client[c].private, b,
                     client[c].alias)
    BY <1>2, AllocateMoves DEF IInv
  <2> QED
    BY <1>2, <2>1 DEF Allocate, driver, service, IInv, Kinds, Owned, IsOpen, Becomes, Refers
<1>3. ASSUME NEW c \in Clients, ArmRefused(c) PROVE Owned'
  <2>1. UNCHANGED <<owner, buffer, leased, inactive, stopped>>
    BY <1>3 DEF ArmRefused, service
  <2>2. owner # None => poisoned' = poisoned
    BY <1>3 DEF ArmRefused, NotReady, IInv, Kinds
  <2> QED
    BY <1>3, <2>1, <2>2, ArmRefusedMoves DEF IInv, Kinds, Owned, IsOpen, Becomes, Refers
<1>4. ASSUME NEW c \in Clients, Arm(c) PROVE Owned'
  <2>1. /\ UNCHANGED <<inactive, stopped>> /\ leased' /\ owner = None /\ ~poisoned /\ ~inactive
        /\ client[c].arming # None /\ ~client[c].attempted
    BY <1>4, ArmMeans DEF service
  <2>2. \/ /\ owner' = c /\ buffer' = client[c].arming /\ poisoned' = poisoned
           /\ Becomes(c, client[c].life, TRUE, client[c].arming, None, client[c].alias)
        \/ UNCHANGED <<owner, buffer>>
    BY <1>4, ArmMeans
  <2>3. client[c].life = "open"
    BY <2>1 DEF IInv, Kinds, Connection, Connected
  <2> QED
    BY <2>1, <2>2, <2>3, ConsoleAssumption DEF IInv, Owned, IsOpen, Becomes, Refers
<1>5. ASSUME NEW c \in Clients, Retire(c) PROVE Owned'
  <2>1. UNCHANGED <<leased, inactive, stopped>>
    BY <1>5 DEF Retire, service
  <2>2. CASE owner = c
    <3>1. owner' = None /\ buffer' = None
      BY <1>5, <2>2, RetireMeans DEF Retire
    <3> QED
      BY <2>1, <3>1 DEF IInv, Owned
  <2>3. CASE owner # c
    <3>1. UNCHANGED <<owner, buffer, poisoned>>
      BY <1>5, <2>3 DEF Retire
    <3> QED
      BY <1>5, <2>1, <2>3, <3>1, RetireMoves DEF IInv, Kinds, Owned, IsOpen, Becomes, Refers
  <2> QED
    BY <2>2, <2>3
<1>6. ASSUME NEW c \in Clients, FinalClose(c) PROVE Owned'
  <2>1. UNCHANGED <<leased, inactive, stopped>>
    BY <1>6 DEF FinalClose, service
  <2>2. CASE owner = c
    <3>1. owner' = None /\ buffer' = None
      BY <1>6, <2>2, RetireMeans DEF FinalClose
    <3> QED
      BY <2>1, <3>1 DEF IInv, Owned
  <2>3. CASE owner # c
    <3>1. UNCHANGED <<owner, buffer, poisoned>>
      BY <1>6, <2>3 DEF FinalClose
    <3> QED
      BY <1>6, <2>1, <2>3, <3>1, FinalCloseMoves DEF IInv, Kinds, Owned, IsOpen, Becomes,
         Refers
  <2> QED
    BY <2>2, <2>3
<1>7. ASSUME NEW c \in Clients, Map(c) PROVE Owned'
  BY <1>7, MapMoves DEF Map, driver, service, IInv, Kinds, Owned, IsOpen, Becomes, Refers
<1>8. ASSUME NEW c \in Clients, Unmap(c) PROVE Owned'
  BY <1>8, UnmapMoves DEF Unmap, driver, service, IInv, Kinds, Owned, IsOpen, Becomes, Refers
<1>9. ASSUME NEW c \in Clients, Commit(c) PROVE Owned'
  BY <1>9 DEF Commit, driver, service, IInv, Owned, IsOpen
<1>10. ASSUME NEW c \in Clients, CommitFails(c) PROVE Owned'
  <2>1. /\ owner' = None /\ buffer' = None /\ UNCHANGED <<inactive, stopped>>
    BY <1>10, CommitFailsMeans, RetireMeans DEF CommitFails, service
  <2> QED
    BY <2>1 DEF IInv, Owned
<1>11. CASE Publish
  BY <1>11 DEF Publish, driver, service, IInv, Owned, IsOpen
<1>12. CASE Stray
  BY <1>12 DEF Stray, driver, service, IInv, Owned, IsOpen
<1>13. CASE Terminate
  BY <1>13 DEF Terminate, driver, IInv, Owned, IsOpen
<1>14. CASE Stop
  <2>1. owner' = None /\ buffer' = None /\ inactive' /\ stopped'
    BY <1>14, RetireMeans DEF Stop
  <2> QED
    BY <2>1 DEF IInv, Owned
<1>15. CASE UNCHANGED vars
  BY <1>15 DEF IInv, Owned, IsOpen, vars, driver, service, memory
<1> QED
  BY <1>1, <1>2, <1>3, <1>4, <1>5, <1>6, <1>7, <1>8, <1>9, <1>10, <1>11, <1>12, <1>13, <1>14,
    <1>15 DEF Next

\* No step makes two connections refer to one buffer: an ARM allocates a buffer
\* nobody holds, a mapping is of the client's own.
LEMMA ApartKept == ASSUME IInv, [Next]_vars PROVE Apart'
<1>1. ASSUME NEW c \in Clients, Open(c) PROVE Apart'
  BY <1>1, OpenMoves, ApartShrunk DEF IInv, References
<1>2. ASSUME NEW c \in Clients, Allocate(c) PROVE Apart'
  <2>1. PICK b \in Buffers :
          /\ refs[b] = 0
          /\ Becomes(c, client[c].life, client[c].attempted, client[c].private, b,
                     client[c].alias)
    BY <1>2, AllocateMoves DEF IInv
  <2>2. \A d \in Clients : b \notin References(d)
    <3>1. Holders(b) = 0
      BY <2>1 DEF IInv, RefsExact
    <3> QED
      BY <3>1, HoldersCounted DEF IInv
  <2>3. \A d \in Clients :
          d # c => References(d) \cap ({b, client[c].private, client[c].alias} \ {None}) = {}
    BY <2>2 DEF IInv, Apart, References
  <2> QED
    BY <2>1, <2>3, ApartMoved DEF IInv
<1>3. ASSUME NEW c \in Clients, ArmRefused(c) PROVE Apart'
  BY <1>3, ArmRefusedMoves, ApartShrunk DEF IInv, References
<1>4. ASSUME NEW c \in Clients, Arm(c) PROVE Apart'
  <2> QED
    BY <1>4, ArmMeans, ApartShrunk DEF IInv, References
<1>5. ASSUME NEW c \in Clients, Retire(c) PROVE Apart'
  BY <1>5, RetireMoves, ApartShrunk DEF IInv, References
<1>6. ASSUME NEW c \in Clients, FinalClose(c) PROVE Apart'
  BY <1>6, FinalCloseMoves, ApartShrunk DEF IInv, References
<1>7. ASSUME NEW c \in Clients, Map(c) PROVE Apart'
  BY <1>7, MapMoves, ApartShrunk DEF IInv, References
<1>8. ASSUME NEW c \in Clients, Unmap(c) PROVE Apart'
  BY <1>8, UnmapMoves, ApartShrunk DEF IInv, References
<1>9. ASSUME NEW c \in Clients, Commit(c) PROVE Apart'
  BY <1>9 DEF Commit, service,memory, IInv, Apart, References
<1>10. ASSUME NEW c \in Clients, CommitFails(c) PROVE Apart'
  BY <1>10 DEF CommitFails, IInv, Apart, References
<1>11. CASE Publish
  BY <1>11 DEF Publish, driver,service,memory, IInv, Apart, References
<1>12. CASE Stray
  BY <1>12 DEF Stray, driver,service,memory, IInv, Apart, References
<1>13. CASE Terminate
  BY <1>13 DEF Terminate, driver,memory, IInv, Apart, References
<1>14. CASE Stop
  BY <1>14 DEF Stop, IInv, Apart, References
<1>15. CASE UNCHANGED vars
  BY <1>15 DEF IInv, Apart, References, vars, driver, service, memory
<1> QED
  BY <1>1, <1>2, <1>3, <1>4, <1>5, <1>6, <1>7, <1>8, <1>9, <1>10, <1>11, <1>12, <1>13, <1>14,
    <1>15 DEF Next

\* Who armed has used its attempt, and arms no more.
LEMMA RememberedKept == ASSUME IInv, [Next]_vars PROVE Remembered'
<1>1. ASSUME NEW c \in Clients, Open(c) PROVE Remembered'
  <2>1. UNCHANGED <<leased, restartable, armedBy>>
    BY <1>1 DEF Open, driver, service
  <2> QED
    BY <1>1, <2>1, OpenMoves, RememberedMoved DEF IInv
<1>2. ASSUME NEW c \in Clients, Allocate(c) PROVE Remembered'
  <2>1. PICK b \in Buffers :
          /\ refs[b] = 0
          /\ Becomes(c, client[c].life, client[c].attempted, client[c].private, b,
                     client[c].alias)
    BY <1>2, AllocateMoves DEF IInv
  <2>2. UNCHANGED <<leased, restartable, armedBy>>
    BY <1>2 DEF Allocate, driver, service
  <2> QED
    BY <2>1, <2>2, RememberedMoved DEF IInv
<1>3. ASSUME NEW c \in Clients, ArmRefused(c) PROVE Remembered'
  <2>1. UNCHANGED <<leased, restartable, armedBy>>
    BY <1>3 DEF ArmRefused, driver, service
  <2> QED
    BY <1>3, <2>1, ArmRefusedMoves, RememberedMoved DEF IInv
<1>4. ASSUME NEW c \in Clients, Arm(c) PROVE Remembered'
  <2>1. /\ restartable' = restartable /\ leased' /\ ~client[c].attempted
        /\ ~restartable => ~leased
    BY <1>4, ArmMeans DEF service
  <2>2. \/ /\ armedBy' = Append(armedBy, c)
           /\ Becomes(c, client[c].life, TRUE, client[c].arming, None, client[c].alias)
        \/ /\ UNCHANGED armedBy
           /\ Becomes(c, client[c].life, TRUE, client[c].private, None, client[c].alias)
    BY <1>4, ArmMeans
  <2>3. /\ armedBy \in Seq(Clients) /\ Len(armedBy) \in Nat
        /\ \A i \in 1..Len(armedBy) : armedBy[i] \in Clients /\ armedBy[i] # c
    BY <2>1 DEF IInv, Kinds, Remembered
  <2>4. CASE UNCHANGED armedBy
    BY <2>1, <2>2, <2>3, <2>4 DEF IInv, Remembered, OnceArmed, Becomes, Refers
  <2>5. CASE armedBy' = Append(armedBy, c)
    <3>1. /\ Len(armedBy') = Len(armedBy) + 1 /\ armedBy'[Len(armedBy) + 1] = c
          /\ \A i \in 1..Len(armedBy) : armedBy'[i] = armedBy[i]
      BY <2>3, <2>5
    <3>2. /\ client'[c].attempted
          /\ \A d \in Clients : client[d].attempted => client'[d].attempted
      BY <2>2 DEF Becomes, Refers
    <3>3. \A i \in 1..Len(armedBy') : i \in 1..Len(armedBy) \/ i = Len(armedBy) + 1
      BY <2>3, <3>1
    <3>4. \A i \in 1..Len(armedBy') : client'[armedBy'[i]].attempted
      BY <2>3, <3>1, <3>2, <3>3 DEF IInv, Remembered
    <3>5. \A i, j \in 1..Len(armedBy') : armedBy'[i] = armedBy'[j] => i = j
      BY <2>3, <3>1, <3>3 DEF IInv, Remembered, OnceArmed
    <3>6. ~restartable' => Len(armedBy') <= 1
      BY <2>1, <2>3, <3>1 DEF IInv, Remembered
    <3> QED
      BY <2>1, <3>4, <3>5, <3>6 DEF Remembered, OnceArmed
  <2> QED
    BY <2>2, <2>4, <2>5
<1>5. ASSUME NEW c \in Clients, Retire(c) PROVE Remembered'
  <2>1. UNCHANGED <<leased, restartable, armedBy>>
    BY <1>5 DEF Retire, driver, service
  <2> QED
    BY <1>5, <2>1, RetireMoves, RememberedMoved DEF IInv
<1>6. ASSUME NEW c \in Clients, FinalClose(c) PROVE Remembered'
  <2>1. UNCHANGED <<leased, restartable, armedBy>>
    BY <1>6 DEF FinalClose, driver, service
  <2> QED
    BY <1>6, <2>1, FinalCloseMoves, RememberedMoved DEF IInv
<1>7. ASSUME NEW c \in Clients, Map(c) PROVE Remembered'
  <2>1. UNCHANGED <<leased, restartable, armedBy>>
    BY <1>7 DEF Map, driver, service
  <2> QED
    BY <1>7, <2>1, MapMoves, RememberedMoved DEF IInv
<1>8. ASSUME NEW c \in Clients, Unmap(c) PROVE Remembered'
  <2>1. UNCHANGED <<leased, restartable, armedBy>>
    BY <1>8 DEF Unmap, driver, service
  <2> QED
    BY <1>8, <2>1, UnmapMoves, RememberedMoved DEF IInv
<1>9. ASSUME NEW c \in Clients, Commit(c) PROVE Remembered'
  BY <1>9 DEF Commit, driver, service, IInv, Kinds, Remembered, OnceArmed
<1>10. ASSUME NEW c \in Clients, CommitFails(c) PROVE Remembered'
  BY <1>10 DEF CommitFails, driver, service, IInv, Kinds, Remembered, OnceArmed
<1>11. CASE Publish
  BY <1>11 DEF Publish, driver, service, IInv, Kinds, Remembered, OnceArmed
<1>12. CASE Stray
  BY <1>12 DEF Stray, driver, service, IInv, Kinds, Remembered, OnceArmed
<1>13. CASE Terminate
  BY <1>13 DEF Terminate, driver, service, IInv, Kinds, Remembered, OnceArmed
<1>14. CASE Stop
  BY <1>14 DEF Stop, driver, service, IInv, Kinds, Remembered, OnceArmed
<1>15. CASE UNCHANGED vars
  BY <1>15 DEF IInv, Kinds, Remembered, OnceArmed, vars, driver, service, memory
<1> QED
  BY <1>1, <1>2, <1>3, <1>4, <1>5, <1>6, <1>7, <1>8, <1>9, <1>10, <1>11, <1>12, <1>13, <1>14,
    <1>15 DEF Next

\* Every step leaves the device and the driver in agreement.
LEMMA FollowedKept == ASSUME IInv, [Next]_vars PROVE Followed'
<1>1. ASSUME NEW c \in Clients, Open(c) PROVE Followed'
  BY <1>1 DEF Open, driver, service, IInv, Kinds, Followed, InAgreement
<1>2. ASSUME NEW c \in Clients, Allocate(c) PROVE Followed'
  BY <1>2 DEF Allocate, driver, service, IInv, Kinds, Followed, InAgreement
<1>3. ASSUME NEW c \in Clients, ArmRefused(c) PROVE Followed'
  BY <1>3 DEF ArmRefused, driver, service, IInv, Kinds, Followed, InAgreement
<1>4. ASSUME NEW c \in Clients, Arm(c) PROVE Followed'
  <2>1. /\ owner = None /\ Idle /\ UNCHANGED restartable
        /\ epoch' = IF restartable THEN epoch + 1 ELSE epoch
        /\ \/ dev' = Armed /\ Armed.ack = 0 /\ owner' = c /\ sequence' = 0
           \/ dev' = Quiet(Armed) /\ UNCHANGED <<owner, sequence>>
    BY <1>4, ArmMeans DEF service
  <2>2. /\ Armed.state = 1 /\ Armed.pending = NoFrame
        /\ restartable => Armed.active = epoch + 1 /\ Armed.requested = epoch + 1
    BY <2>1 DEF IInv, Kinds, Followed, InAgreement, Armed, Device, Idle
  <2>3. Armed \in Device
    BY <2>1, DeviceKept
  <2>4. Quiet(Armed).pending = NoFrame
    BY <2>3, DeviceKept
  <2>5. epoch + 1 # 0 /\ restartable \in BOOLEAN
    BY DEF IInv, Kinds
  <2> QED
    BY <2>1, <2>2, <2>4, <2>5 DEF Followed, InAgreement
<1>5. ASSUME NEW c \in Clients, Retire(c) PROVE Followed'
  <2>1. /\ UNCHANGED <<epoch, sequence, restartable>>
        /\ \/ owner' = None /\ dev' = Quiet(dev)
           \/ UNCHANGED <<owner, dev>>
    <3>1. CASE owner = c
      BY <1>5, <3>1, RetireMeans, ConsoleAssumption DEF Retire, service
    <3>2. CASE owner # c
      BY <1>5, <3>2 DEF Retire, service
    <3> QED
      BY <3>1, <3>2
  <2> QED
    BY <2>1 DEF IInv, Kinds, Followed, InAgreement, Quiet, Device
<1>6. ASSUME NEW c \in Clients, FinalClose(c) PROVE Followed'
  <2>1. /\ UNCHANGED <<epoch, sequence, restartable>>
        /\ \/ owner' = None /\ dev' = Quiet(dev)
           \/ UNCHANGED <<owner, dev>>
    <3>1. CASE owner = c
      BY <1>6, <3>1, RetireMeans, ConsoleAssumption DEF FinalClose, service
    <3>2. CASE owner # c
      BY <1>6, <3>2 DEF FinalClose, service
    <3> QED
      BY <3>1, <3>2
  <2> QED
    BY <2>1 DEF IInv, Kinds, Followed, InAgreement, Quiet, Device
<1>7. ASSUME NEW c \in Clients, Map(c) PROVE Followed'
  BY <1>7 DEF Map, driver, service, IInv, Kinds, Followed, InAgreement
<1>8. ASSUME NEW c \in Clients, Unmap(c) PROVE Followed'
  BY <1>8 DEF Unmap, driver, service, IInv, Kinds, Followed, InAgreement
<1>9. ASSUME NEW c \in Clients, Commit(c) PROVE Followed'
  <2>1. /\ owner = c /\ sequence # MaxSequence /\ InStep(dev, sequence)
        /\ dev' = WriteCommit(WriteEpoch(dev, epoch), [by |-> c, seq |-> sequence + 1])
        /\ sequence' = sequence + 1 /\ UNCHANGED <<owner, epoch, restartable>>
    BY <1>9 DEF Commit, CommitReady, service
  <2>2. dev' = [dev EXCEPT !.pending = [by |-> c, seq |-> sequence + 1],
                           !.ack = sequence + 1, !.error = FALSE]
    BY <2>1, CommitMeans
  <2>3. /\ dev'.state = dev.state /\ dev'.active = dev.active
        /\ dev'.requested = dev.requested /\ dev'.ack = sequence + 1
        /\ dev'.pending = [by |-> c, seq |-> sequence + 1]
    BY <2>2 DEF IInv, Kinds, Device
  <2> QED
    BY <2>1, <2>3 DEF IInv, Followed, InAgreement, InStep
<1>10. ASSUME NEW c \in Clients, CommitFails(c) PROVE Followed'
  <2>1. /\ owner' = None /\ dev' = IF owner = None THEN dev ELSE Quiet(dev)
        /\ UNCHANGED <<epoch, sequence, restartable>>
    BY <1>10, CommitFailsMeans, RetireMeans DEF CommitFails, service
  <2> QED
    BY <2>1 DEF IInv, Kinds, Followed, InAgreement, Quiet, Device
<1>11. CASE Publish
  BY <1>11 DEF Publish, driver, service, IInv, Kinds, Followed, InAgreement, Device, Frame,
    NoFrame
<1>12. CASE Stray
  BY <1>12 DEF Stray, driver, service, IInv, Kinds, Followed, InAgreement, Device, Frame,
     NoFrame
<1>13. CASE Terminate
  BY <1>13 DEF Terminate, driver, service, IInv, Kinds, Followed, InAgreement
<1>14. CASE Stop
  <2>1. /\ owner' = None /\ dev' = IF owner = None THEN dev ELSE Quiet(dev)
        /\ UNCHANGED <<epoch, sequence, restartable>>
    BY <1>14, RetireMeans DEF Stop, IInv, Kinds
  <2> QED
    BY <2>1 DEF IInv, Kinds, Followed, InAgreement, Quiet, Device
<1>15. CASE UNCHANGED vars
  BY <1>15 DEF IInv, Kinds, Followed, InAgreement, vars, driver, service, memory
<1> QED
  BY <1>1, <1>2, <1>3, <1>4, <1>5, <1>6, <1>7, <1>8, <1>9, <1>10, <1>11, <1>12, <1>13, <1>14,
    <1>15 DEF Next

\* The inductive invariant holds in every reachable state.
THEOREM InvariantHolds == Spec => []IInv
<1>1. Init => IInv
  <2> SUFFICES ASSUME Init PROVE IInv
    OBVIOUS
  <2>1. Kinds
    <3>1. 0 \in 0..MaxEpoch /\ 1 \in 0..MaxEpoch
          /\ 0 \in 0..MaxSequence /\ 1 \in 0..MaxSequence
      BY ConsoleAssumption
    <3>2. NoFrame \in Frame
      BY <3>1 DEF NoFrame, Frame
    <3>3. Fresh \in Device /\ \A d \in LeftOver : d \in Device
      <4>1. Fresh \in Device
        BY <3>1, <3>2 DEF Fresh, Device
      <4>2. ASSUME NEW d \in LeftOver PROVE d \in Device
        <5>1. /\ {1, 2} \subseteq 0..2 /\ {0, 1} \subseteq 0..MaxEpoch
              /\ {0, 1} \subseteq 0..MaxSequence
              /\ {FALSE} \subseteq BOOLEAN /\ {NoFrame} \subseteq Frame
          BY <3>1, <3>2
        <5> QED
          BY <4>2, <5>1, Zenon DEF LeftOver, Device
      <4> QED
        BY <4>1, <4>2
    <3>4. client \in [Clients -> Connection]
      BY DEF Init, Connection
    <3>5. /\ owner \in Clients \cup {None} /\ buffer \in Buffers \cup {None}
          /\ epoch \in 0..MaxEpoch /\ sequence \in 0..MaxSequence
          /\ slots \in 0..BufferLimit /\ strays \in 0..MaxStrays
          /\ refs \in [Buffers -> Nat] /\ armedBy \in Seq(Clients)
      BY <3>1, ConsoleAssumption DEF Init
    <3>6. dev \in Device
      BY <3>3 DEF Init
    <3> QED
      BY <3>4, <3>5, <3>6 DEF Init, Kinds
  <2>2. Connected /\ Owned /\ Apart
    BY DEF Init, Connected, Owned, Apart, References
  <2>3. RefsExact
    <3>1. /\ \A b \in Buffers : refs[b] = 0 /\ buffer # b
          /\ slots = 0 /\ {b \in Buffers : refs[b] > 0} = {}
      BY ConsoleAssumption DEF Init
    <3>2. \A b \in Buffers : Holders(b) = 0
      <4>1. \A b \in Buffers : /\ {c \in Clients : client[c].arming = b} = {}
                               /\ {c \in Clients : client[c].private = b} = {}
                               /\ {c \in Clients : client[c].alias = b} = {}
        BY ConsoleAssumption DEF Init
      <4>2. Cardinality({}) = 0
        BY FS_EmptySet
      <4> SUFFICES ASSUME NEW b \in Buffers PROVE Holders(b) = 0
        OBVIOUS
      <4>3. Holders(b) = 0 + 0 + 0 + (IF buffer = b THEN 1 ELSE 0)
        BY <4>1, <4>2 DEF Holders
      <4> QED
        BY <3>1, <4>3
    <3> QED
      BY <3>1, <3>2, FS_EmptySet DEF RefsExact
  <2>4. Remembered
    BY DEF Init, Remembered, OnceArmed
  <2>5. Followed
    <3>1. dev.pending = NoFrame /\ owner = None
      <4>1. dev = Fresh \/ dev \in LeftOver
        BY DEF Init
      <4>2. Fresh.pending = NoFrame
        BY DEF Fresh
      <4>3. \A d \in LeftOver : d.pending \in {NoFrame}
        BY DEF LeftOver
      <4> QED
        BY <4>1, <4>2, <4>3 DEF Init
    <3> QED
      BY <3>1 DEF Followed, InAgreement
  <2> QED
    BY <2>1, <2>2, <2>3, <2>4, <2>5 DEF IInv
<1>2. ASSUME IInv, [Next]_vars PROVE IInv'
  <2>1. Counts'
    BY <1>2, CountsKept
  <2>2. Kinds'
    BY <1>2, <2>1, KindsKept
  <2> QED
    BY <1>2, <2>1, <2>2, ConnectedKept, OwnedKept, ApartKept, RememberedKept, FollowedKept
       DEF IInv, Counts
<1> QED
  BY <1>1, <1>2, PTL DEF Spec

-----------------------------------------------------------------------------
(***************************************************************************)
(* What the run checks, for every value of the constants.                  *)
(***************************************************************************)

\* Every variable keeps its type, and the counts their bounds.
THEOREM TypeCorrect == Spec => []TypeOK
<1>1. ASSUME IInv PROVE TypeOK
  <2>1. \A b \in Buffers : refs[b] \in 0..(3 * Cardinality(Clients) + 1)
    <3> SUFFICES ASSUME NEW b \in Buffers
                 PROVE  refs[b] \in 0..(3 * Cardinality(Clients) + 1)
      OBVIOUS
    <3> DEFINE n == Cardinality(Clients)
               i == Cardinality(Arming(b))
               j == Cardinality(Keeping(b))
               k == Cardinality(Mapping(b))
               l == IF buffer = b THEN 1 ELSE 0
    <3>1. refs[b] = i + j + k + l
      BY <1>1 DEF IInv, RefsExact, Holders, Arming, Keeping, Mapping
    <3>2. /\ Arming(b) \in SUBSET Clients /\ Keeping(b) \in SUBSET Clients
          /\ Mapping(b) \in SUBSET Clients
      BY DEF Arming, Keeping, Mapping
    <3>3. i <= n /\ j <= n /\ k <= n
      BY <3>2, ConsoleAssumption, FS_Subset
    <3>4. n \in Nat /\ i \in Nat /\ j \in Nat /\ k \in Nat /\ l \in 0..1
      <4>1. /\ IsFiniteSet(Arming(b)) /\ IsFiniteSet(Keeping(b))
            /\ IsFiniteSet(Mapping(b)) /\ IsFiniteSet(Clients)
        BY <3>2, ConsoleAssumption, FS_Subset
      <4> QED
        BY <4>1, FS_CardinalityType
    <3> HIDE DEF n, i, j, k, l
    <3> QED
      BY <3>1, <3>3, <3>4 DEF n
  <2>2. refs \in [Buffers -> 0..(3 * Cardinality(Clients) + 1)]
    BY <1>1, <2>1 DEF IInv, Kinds
  <2> QED
    BY <1>1, <2>2 DEF IInv, Kinds, TypeOK, Connection, Device, Frame
<1> QED
  BY <1>1, InvariantHolds, PTL

\* The window is leased to one live connection at a time, with a buffer nobody
\* else reaches, and every buffer lives exactly as long as something refers to
\* it (snapshotArm, snapshotClose and the retain counts of ConsoleBridge.cpp).
THEOREM LeaseSoundAlways == Spec => []LeaseSound
<1>1. ASSUME IInv PROVE LeaseSound
  <2>1. BufferIsOwners
    <3> SUFFICES ASSUME buffer # None PROVE BufferIsOwners
      BY DEF BufferIsOwners
    <3>1. /\ owner \in Clients /\ owner # None /\ client[owner].private = buffer
          /\ buffer \in References(owner)
      BY <1>1 DEF IInv, Kinds, Owned, References
    <3>2. \A c \in Clients : c # owner => buffer \notin References(c)
      BY <1>1, <3>1 DEF IInv, Apart
    <3> QED
      BY <3>1, <3>2 DEF BufferIsOwners, References
  <2>2. OwnerIsOpen
    BY <1>1 DEF IInv, Owned, OwnerIsOpen
  <2> QED
    BY <1>1, <2>1, <2>2 DEF IInv, Remembered, LeaseSound
<1> QED
  BY <1>1, InvariantHolds, PTL

\* The device is armed in its owner's epoch, has acknowledged what the driver
\* counts, and a frame that waits is the owner's latest.
THEOREM InAgreementAlways == Spec => []InAgreement
<1>1. IInv => InAgreement
  BY DEF IInv, Followed
<1> QED
  BY <1>1, InvariantHolds, PTL

PoisonStep == poisoned => poisoned' /\ owner' = None /\ armedBy' = armedBy

\* A poisoned driver has no owner, and arming needs one that is not poisoned.
LEMMA PoisonKept == ASSUME IInv, [Next]_vars PROVE PoisonStep
<1>1. ASSUME NEW c \in Clients, Open(c) PROVE PoisonStep
  BY <1>1 DEF PoisonStep, Open, driver, service, memory, IInv, Kinds, Owned
<1>2. ASSUME NEW c \in Clients, Allocate(c) PROVE PoisonStep
  BY <1>2 DEF PoisonStep, Allocate, driver, service, IInv, Kinds, Owned
<1>3. ASSUME NEW c \in Clients, ArmRefused(c) PROVE PoisonStep
  BY <1>3 DEF PoisonStep, ArmRefused, service, IInv, Kinds, Owned
<1>4. ASSUME NEW c \in Clients, Arm(c) PROVE PoisonStep
  BY <1>4, ArmMeans DEF PoisonStep
<1>5. ASSUME NEW c \in Clients, Commit(c) PROVE PoisonStep
  BY <1>5 DEF Commit, CommitReady, PoisonStep
<1>6. ASSUME NEW c \in Clients, CommitFails(c) PROVE PoisonStep
  BY <1>6 DEF CommitFails, CommitReady, PoisonStep
<1>7. ASSUME NEW c \in Clients, Retire(c) PROVE PoisonStep
  <2>1. CASE owner = c
    BY <1>7, <2>1, ConsoleAssumption DEF PoisonStep, IInv, Owned
  <2>2. CASE owner # c
    BY <1>7, <2>2 DEF Retire, PoisonStep, IInv, Owned
  <2> QED
    BY <2>1, <2>2
<1>8. ASSUME NEW c \in Clients, FinalClose(c) PROVE PoisonStep
  <2>1. CASE owner = c
    BY <1>8, <2>1, ConsoleAssumption DEF PoisonStep, IInv, Owned
  <2>2. CASE owner # c
    BY <1>8, <2>2 DEF FinalClose, PoisonStep, IInv, Owned
  <2> QED
    BY <2>1, <2>2
<1>9. ASSUME NEW c \in Clients, Map(c) PROVE PoisonStep
  BY <1>9 DEF PoisonStep, Map, driver, service, IInv, Kinds, Owned
<1>10. ASSUME NEW c \in Clients, Unmap(c) PROVE PoisonStep
  BY <1>10 DEF PoisonStep, Unmap, driver, service, IInv, Kinds, Owned
<1>11. CASE Publish
  BY <1>11 DEF PoisonStep, Publish, driver, service, memory, IInv, Kinds, Owned
<1>12. CASE Stray
  BY <1>12 DEF PoisonStep, Stray, driver, service, memory, IInv, Kinds, Owned
<1>13. CASE Terminate
  BY <1>13 DEF PoisonStep, Terminate, driver, memory, IInv, Kinds, Owned
<1>14. CASE Stop
  BY <1>14, RetireMeans DEF Stop, PoisonStep, IInv, Kinds
<1>15. CASE UNCHANGED vars
  BY <1>15 DEF PoisonStep, IInv, Owned, vars, driver, service, memory
<1> QED
  BY <1>1, <1>2, <1>3, <1>4, <1>5, <1>6, <1>7, <1>8, <1>9, <1>10, <1>11, <1>12, <1>13, <1>14,
    <1>15 DEF Next

\* An ambiguous answer of the device is for good (retireLocked, snapshotArm).
THEOREM PoisonedForGoodAlways == Spec => PoisonedForGood
<1>1. ASSUME IInv, [Next]_vars PROVE [PoisonStep]_vars
  BY <1>1, PoisonKept
<1> QED
  BY <1>1, InvariantHolds, PTL DEF Spec, PoisonedForGood, PoisonStep
=============================================================================
