--------------------------- MODULE Messaging_proofs ---------------------------
(* Proofs about the messaging plugins: the inboxes lose no message and hand *)
(* none over a second time, and the Discord plugin goes past no message     *)
(* that it does not have in hand and commits them in order.                 *)
EXTENDS MCInboxes, DiscordGateway, FiniteSetTheorems, SequenceTheorems, TLAPS

-----------------------------------------------------------------------------
(* Sets of numbers, and their members in order.                             *)

(* A set of naturals that is not empty has a least member.                  *)
LEMMA LeastMember ==
  ASSUME NEW S \in SUBSET Nat, S # {}
  PROVE  \E n \in S : \A m \in S : n <= m
<1> DEFINE R == {ss \in Nat \X Nat : ss[1] < ss[2]}
<1>1. IsWellFoundedOn(R, Nat)
  BY NatLessThanWellFounded DEF OpToRel
<1>2. PICK n \in S : \A m \in S : <<m, n>> \notin R
  BY <1>1, WFMin
<1>3. ASSUME NEW m \in S PROVE n <= m
  <2>1. m \in Nat /\ n \in Nat
    OBVIOUS
  <2>2. <<m, n>> \in Nat \X Nat /\ <<m, n>>[1] = m /\ <<m, n>>[2] = n
    BY <2>1
  <2>3. ~(m < n)
    BY <1>2, <2>2
  <2> QED BY <2>1, <2>3
<1> QED BY <1>3

(* One that is bounded has a largest.                                       *)
LEMMA LargestMember ==
  ASSUME NEW b \in Nat, NEW S \in SUBSET (0 .. b), S # {}
  PROVE  \E n \in S : \A m \in S : m <= n
<1> DEFINE D == {d \in 0 .. b : b - d \in S}
<1>1. D \in SUBSET Nat
  OBVIOUS
<1>2. D # {}
  <2>1. PICK m \in S : TRUE
    OBVIOUS
  <2>2. b - m \in 0 .. b /\ b - (b - m) = m
    OBVIOUS
  <2>3. b - m \in D
    BY <2>2
  <2> QED BY <2>3
<1>3. PICK d \in D : \A e \in D : d <= e
  BY <1>1, <1>2, LeastMember
<1>4. b - d \in S /\ d \in 0 .. b
  OBVIOUS
<1>5. ASSUME NEW m \in S PROVE m <= b - d
  <2>1. b - m \in 0 .. b /\ b - (b - m) = m
    OBVIOUS
  <2>2. b - m \in D
    BY <2>1
  <2>3. d <= b - m
    BY <1>3, <2>2
  <2> QED BY <1>4, <2>1, <2>3
<1> QED BY <1>4, <1>5

Below(S, m) == {u \in S : u < m}

(* A larger member has more below it.                                       *)
LEMMA MoreBelow ==
  ASSUME NEW S \in SUBSET Nat, IsFiniteSet(S), NEW m \in S, NEW v \in S, m < v
  PROVE  /\ Cardinality(Below(S, m)) \in Nat
         /\ Cardinality(Below(S, v)) \in Nat
         /\ Cardinality(Below(S, m)) < Cardinality(Below(S, v))
<1> DEFINE A == Below(S, m)
           B == Below(S, v)
<1>a. \A u \in S : u \in Nat
  OBVIOUS
<1>b. \A u \in S : u < m => u < v
  BY <1>a
<1>c. m \in B /\ m \notin A
  BY <1>a DEF Below
<1>1. A \in SUBSET B /\ B \in SUBSET S /\ m \in B /\ m \notin A
  BY <1>b, <1>c DEF Below
<1> HIDE DEF A, B
<1>2. IsFiniteSet(B)
  BY <1>1, FS_Subset
<1>3. IsFiniteSet(A) /\ Cardinality(A) <= Cardinality(B) /\ (Cardinality(B) = Cardinality(A) => B = A)
  BY <1>1, <1>2, FS_Subset
<1>4. Cardinality(A) # Cardinality(B)
  BY <1>1, <1>3
<1>5. Cardinality(A) \in Nat /\ Cardinality(B) \in Nat
  BY <1>2, <1>3, FS_CardinalityType
<1> QED BY <1>3, <1>4, <1>5 DEF A, B

(* Each place of the order is that of one member, and each member has one.  *)
LEMMA AscendingMembers ==
  ASSUME NEW S \in SUBSET Nat, IsFiniteSet(S)
  PROVE  /\ Cardinality(S) \in Nat
         /\ \A i \in 1 .. Cardinality(S) : Ascending(S)[i] \in S
         /\ \A m \in S : \E i \in 1 .. Cardinality(S) : Ascending(S)[i] = m
         /\ \A i, j \in 1 .. Cardinality(S) : i < j => Ascending(S)[i] < Ascending(S)[j]
<1> DEFINE n == Cardinality(S)
           rank == [m \in S |-> Cardinality(Below(S, m)) + 1]
<1>1. n \in Nat
  BY FS_CardinalityType
<1>2. ASSUME NEW m \in S
      PROVE  Cardinality(Below(S, m)) \in Nat /\ Cardinality(Below(S, m)) < n
  <2> DEFINE A == Below(S, m)
  <2>1. A \in SUBSET S /\ m \notin A
    BY DEF Below
  <2> HIDE DEF A
  <2>2. IsFiniteSet(A) /\ Cardinality(A) <= n /\ (n = Cardinality(A) => S = A)
    BY <2>1, FS_Subset
  <2>3. Cardinality(A) \in Nat /\ Cardinality(A) # n
    BY <2>1, <2>2, FS_CardinalityType
  <2> QED BY <1>1, <2>2, <2>3 DEF A
<1>3. \A m \in S : rank[m] = Cardinality(Below(S, m)) + 1 /\ rank[m] \in 1 .. n
  BY <1>1, <1>2
<1>4. ASSUME NEW m \in S, NEW v \in S, m < v PROVE rank[m] < rank[v]
  <2>1. /\ Cardinality(Below(S, m)) \in Nat
        /\ Cardinality(Below(S, v)) \in Nat
        /\ Cardinality(Below(S, m)) < Cardinality(Below(S, v))
    BY <1>4, MoreBelow
  <2> QED BY <1>3, <2>1
<1>5. rank \in [S -> 1 .. n]
  BY <1>3
<1>a. \A m \in S : m \in Nat
  OBVIOUS
<1> HIDE DEF rank, n
<1>6. ASSUME NEW m \in S, NEW v \in S, rank[m] = rank[v] PROVE m = v
  <2>1. rank[m] \in 1 .. n /\ rank[v] \in 1 .. n
    BY <1>5
  <2>2. ~(m < v) /\ ~(v < m)
    BY <1>4, <1>6, <2>1, <1>1
  <2> QED BY <2>2, <1>a
<1>7. rank \in Injection(S, 1 .. n)
  BY <1>5, <1>6 DEF Injection, IsInjective
<1>8. IsFiniteSet(1 .. n) /\ Cardinality(1 .. n) = n
  BY <1>1, FS_Interval
<1>9. rank \in Surjection(S, 1 .. n)
  BY <1>7, <1>8, FS_Injection DEF n
<1>10. \A i \in 1 .. n : \E m \in S : rank[m] = i
  BY <1>9 DEF Surjection
<1>11. ASSUME NEW i \in 1 .. n PROVE Ascending(S)[i] \in S /\ rank[Ascending(S)[i]] = i
  <2>1. Ascending(S)[i] = CHOOSE m \in S : Cardinality({u \in S : u < m}) = i - 1
    BY DEF Ascending, n
  <2>2. PICK m \in S : rank[m] = i
    BY <1>10
  <2>3. Cardinality({u \in S : u < m}) = i - 1
    <3>1. rank[m] = Cardinality(Below(S, m)) + 1 /\ Cardinality(Below(S, m)) \in Nat
      BY <1>2, <1>3 DEF rank
    <3> QED BY <2>2, <3>1 DEF Below
  <2>4. /\ Ascending(S)[i] \in S
        /\ Cardinality({u \in S : u < Ascending(S)[i]}) = i - 1
    BY <2>1, <2>3
  <2> DEFINE a == Ascending(S)[i]
  <2>5. rank[a] = Cardinality(Below(S, a)) + 1
    BY <1>3, <2>4
  <2>6. Cardinality(Below(S, a)) = i - 1
    BY <2>4 DEF Below
  <2>7. rank[a] = i
    BY <1>1, <2>5, <2>6
  <2> QED BY <2>4, <2>7
<1>12. \A m \in S : \E i \in 1 .. n : Ascending(S)[i] = m
  <2> TAKE m \in S
  <2>1. rank[m] \in 1 .. n
    BY <1>5
  <2>2. Ascending(S)[rank[m]] \in S /\ rank[Ascending(S)[rank[m]]] = rank[m]
    BY <1>11, <2>1
  <2> QED BY <1>6, <2>1, <2>2
<1>13. ASSUME NEW i \in 1 .. n, NEW j \in 1 .. n, i < j
       PROVE  Ascending(S)[i] < Ascending(S)[j]
  <2> DEFINE a == Ascending(S)[i]
             b == Ascending(S)[j]
  <2>1. a \in S /\ b \in S /\ rank[a] = i /\ rank[b] = j
    BY <1>11
  <2> HIDE DEF a, b
  <2>2. a # b /\ ~(b < a)
    BY <1>4, <1>13, <2>1, <1>1
  <2>3. a < b
    BY <1>a, <2>1, <2>2
  <2> QED BY <2>3 DEF a, b
<1> QED BY <1>1, <1>11, <1>12, <1>13 DEF n
-----------------------------------------------------------------------------
(* The inbox of Slack.                                                      *)

Event == [message : Nat, history : BOOLEAN]

InboxRec == [channel : Nat, scanned : Nat, below : Nat, since : Nat,
             socket : SUBSET Nat, pending : Seq(Event)]

Mark(x) == Larger(x.channel, x.scanned)

(* The messages that are accepted or in the inbox.                          *)
KnownTo(x, a) == a \cup {x.pending[i].message : i \in DOMAIN x.pending}

(* The messages that a reading of the history shows.                        *)
InReach(x, m) == m > Mark(x) \/ (x.since < m /\ m < x.below)

(* Nothing is lost, and no event that is to move the watermark passes a     *)
(* message that nobody knows.                                               *)
Sound(w, n, x, a) ==
  /\ x \in InboxRec
  /\ Mark(x) <= w /\ x.below <= w /\ x.since <= Mark(x)
  /\ KnownTo(x, a) \subseteq 1 .. w
  /\ x.socket \subseteq KnownTo(x, a)
  /\ \A i \in DOMAIN x.pending :
       x.pending[i].history /\ x.below = None => (1 .. x.pending[i].message) \ n \subseteq KnownTo(x, a)
  /\ \A m \in (1 .. w) \ n : m \in KnownTo(x, a) \/ InReach(x, m)

SlackInv ==
  /\ written \in 0 .. MaxPosts /\ notices \in SUBSET (1 .. MaxPosts)
  /\ envelopes \in SUBSET (1 .. written)
  /\ Sound(written, notices, inbox, accepted)


LEMMA RecFields ==
  ASSUME NEW x \in InboxRec
  PROVE  /\ x.channel \in Nat /\ x.scanned \in Nat /\ x.below \in Nat /\ x.since \in Nat
         /\ x.socket \in SUBSET Nat /\ x.pending \in Seq(Event)
         /\ DOMAIN x.pending = 1 .. Len(x.pending) /\ Len(x.pending) \in Nat
         /\ \A i \in DOMAIN x.pending :
              x.pending[i].message \in Nat /\ x.pending[i].history \in BOOLEAN
         /\ Mark(x) \in Nat /\ Mark(x) >= x.channel /\ Mark(x) >= x.scanned
         /\ Mark(x) \in {x.channel, x.scanned}
<1>1. x.pending \in Seq(Event)
  BY DEF InboxRec
<1>2. /\ DOMAIN x.pending = 1 .. Len(x.pending) /\ Len(x.pending) \in Nat
      /\ \A i \in DOMAIN x.pending : x.pending[i] \in Event
  BY <1>1, LenProperties, ElementOfSeq
<1>3. x.channel \in Nat /\ x.scanned \in Nat /\ x.below \in Nat /\ x.since \in Nat
  BY DEF InboxRec
<1>4. x.socket \in SUBSET Nat
  BY DEF InboxRec
<1>5. /\ Mark(x) \in Nat /\ Mark(x) >= x.channel /\ Mark(x) >= x.scanned
      /\ Mark(x) \in {x.channel, x.scanned}
  BY <1>3 DEF Mark, Larger
<1>6. \A i \in DOMAIN x.pending :
        x.pending[i].message \in Nat /\ x.pending[i].history \in BOOLEAN
  BY <1>2 DEF Event
<1> QED BY <1>1, <1>2, <1>3, <1>4, <1>5, <1>6

(* A message appears: it is above the watermark.                            *)
LEMMA SoundPost ==
  ASSUME NEW w \in Nat, NEW n, NEW x, NEW a, Sound(w, n, x, a)
  PROVE  Sound(w + 1, n, x, a)
<1>1. x \in InboxRec
  BY DEF Sound
<1>2. x.below \in Nat /\ x.since \in Nat /\ Mark(x) \in Nat
  BY <1>1, RecFields
<1>3. Mark(x) <= w + 1 /\ x.below <= w + 1
  BY <1>2 DEF Sound
<1>4. KnownTo(x, a) \subseteq 1 .. (w + 1)
  BY DEF Sound
<1>5. ASSUME NEW m \in (1 .. (w + 1)) \ n PROVE m \in KnownTo(x, a) \/ InReach(x, m)
  <2>1. CASE m \in 1 .. w
    BY <1>5, <2>1 DEF Sound
  <2>2. CASE m \notin 1 .. w
    <3>1. m = w + 1
      BY <2>2
    <3>2. Mark(x) <= w
      BY DEF Sound
    <3> QED BY <1>2, <3>1, <3>2 DEF InReach
  <2> QED BY <2>1, <2>2
<1> QED BY <1>1, <1>3, <1>4, <1>5 DEF Sound

(* The history moves no further; more messages are known.                   *)
LEMMA SoundSame ==
  ASSUME NEW w \in Nat, NEW n, NEW x, NEW a, NEW y \in InboxRec, NEW b,
         Sound(w, n, x, a),
         y.channel = x.channel, y.scanned = x.scanned, y.below = x.below, y.since = x.since,
         KnownTo(x, a) \subseteq KnownTo(y, b), KnownTo(y, b) \subseteq 1 .. w,
         y.socket \subseteq KnownTo(y, b),
         \A i \in DOMAIN y.pending : y.pending[i].history =>
           \E j \in DOMAIN x.pending :
             x.pending[j].history /\ x.pending[j].message = y.pending[i].message
  PROVE  Sound(w, n, y, b)
<1>1. Mark(y) = Mark(x)
  BY DEF Mark
<1>2. \A i \in DOMAIN y.pending :
        y.pending[i].history /\ y.below = None => (1 .. y.pending[i].message) \ n \subseteq KnownTo(y, b)
  BY DEF Sound
<1>3. \A m \in (1 .. w) \ n : m \in KnownTo(y, b) \/ InReach(y, m)
  BY <1>1 DEF Sound, InReach
<1> QED BY <1>1, <1>2, <1>3 DEF Sound

(* The first event is done with: if it moves the watermark, then over known *)
(* messages only.                                                           *)
LEMMA SoundAcknowledge ==
  ASSUME NEW w \in Nat, NEW n, NEW x, NEW a, NEW y \in InboxRec,
         Sound(w, n, x, a), x.pending # <<>>, x.pending[1].message \in a,
         y.pending = Tail(x.pending),
         y.channel = IF x.pending[1].history /\ x.below = None
                     THEN Larger(x.channel, x.pending[1].message) ELSE x.channel,
         y.scanned = x.scanned, y.below = x.below, y.since = x.since, y.socket = x.socket
  PROVE  Sound(w, n, y, a)
<1> DEFINE e == x.pending[1]
<1>1. x \in InboxRec
  BY DEF Sound
<1>2. /\ x.channel \in Nat /\ x.scanned \in Nat /\ x.below \in Nat /\ x.since \in Nat
      /\ Mark(x) \in Nat /\ Mark(x) >= x.channel /\ Mark(x) >= x.scanned
      /\ Mark(x) \in {x.channel, x.scanned} /\ x.pending \in Seq(Event)
      /\ DOMAIN x.pending = 1 .. Len(x.pending) /\ Len(x.pending) \in Nat
  BY <1>1, RecFields
<1>3. /\ Len(y.pending) = Len(x.pending) - 1 /\ DOMAIN y.pending = 1 .. Len(y.pending)
      /\ \A i \in DOMAIN y.pending : y.pending[i] = x.pending[i + 1] /\ i + 1 \in DOMAIN x.pending
      /\ 1 \in DOMAIN x.pending
  <2>1. /\ Tail(x.pending) \in Seq(Event) /\ Len(Tail(x.pending)) = Len(x.pending) - 1
        /\ \A i \in 1 .. Len(Tail(x.pending)) : Tail(x.pending)[i] = x.pending[i + 1]
    BY <1>2, HeadTailProperties
  <2>2. DOMAIN Tail(x.pending) = 1 .. Len(Tail(x.pending)) /\ Len(Tail(x.pending)) \in Nat
    BY <2>1, LenProperties
  <2> QED BY <1>2, <2>1, <2>2
<1>4. KnownTo(y, a) = KnownTo(x, a)
  <2>1. ASSUME NEW m \in KnownTo(x, a) PROVE m \in KnownTo(y, a)
    <3>1. CASE m \in a
      BY <3>1 DEF KnownTo
    <3>2. CASE m \notin a
      <4>1. PICK i \in DOMAIN x.pending : x.pending[i].message = m
        BY <2>1, <3>2 DEF KnownTo
      <4>2. i # 1
        BY <3>2, <4>1
      <4>3. i - 1 \in DOMAIN y.pending /\ y.pending[i - 1] = x.pending[i]
        <5>1. i - 1 \in DOMAIN y.pending /\ (i - 1) + 1 = i
          BY <1>2, <1>3, <4>1, <4>2
        <5> QED BY <1>3, <5>1
      <4> QED BY <4>1, <4>3 DEF KnownTo
    <3> QED BY <3>1, <3>2
  <2>2. KnownTo(y, a) \subseteq KnownTo(x, a)
    BY <1>3 DEF KnownTo
  <2> QED BY <2>1, <2>2
<1>5. CASE e.history /\ x.below = None
  <2>0. e.message \in Nat
    BY <1>1, <1>3, RecFields
  <2>1. y.channel = Larger(x.channel, e.message)
    BY <1>5
  <2>2. /\ Mark(y) \in Nat /\ Mark(y) >= Mark(x)
        /\ Mark(y) = Mark(x) \/ Mark(y) = e.message
    <3> HIDE DEF e
    <3> QED BY <1>2, <2>0, <2>1 DEF Mark, Larger
  <2>3. (1 .. e.message) \ n \subseteq KnownTo(x, a) /\ e.message \in 1 .. w
    BY <1>3, <1>5 DEF Sound, KnownTo
  <2>4. Mark(y) <= w
    BY <2>2, <2>3 DEF Sound
  <2>5. ASSUME NEW m \in (1 .. w) \ n, m \notin KnownTo(y, a) PROVE InReach(y, m)
    <3>1. InReach(x, m) /\ m \notin KnownTo(x, a)
      BY <1>4, <2>5 DEF Sound
    <3>2. m \in Nat /\ m \in 1 .. w
      OBVIOUS
    <3>3. m > Mark(x)
      BY <1>2, <1>5, <3>1, <3>2 DEF InReach, None
    <3>4. ~(m <= e.message)
      BY <2>0, <2>3, <3>1, <3>2, <2>5
    <3>5. m > Mark(y)
      BY <2>0, <2>2, <3>2, <3>3, <3>4
    <3> QED BY <3>5 DEF InReach
  <2>6. y.since <= Mark(y) /\ y.below <= w
    BY <1>2, <2>2 DEF Sound
  <2>7. \A i \in DOMAIN y.pending :
          y.pending[i].history /\ y.below = None => (1 .. y.pending[i].message) \ n \subseteq KnownTo(y, a)
    BY <1>3, <1>4 DEF Sound
  <2>8. KnownTo(y, a) \subseteq 1 .. w /\ y.socket \subseteq KnownTo(y, a)
    BY <1>4 DEF Sound
  <2> QED BY <2>4, <2>5, <2>6, <2>7, <2>8 DEF Sound
<1>6. CASE ~(e.history /\ x.below = None)
  <2>1. y.channel = x.channel
    BY <1>6
  <2>2. \A i \in DOMAIN y.pending : y.pending[i].history =>
          \E j \in DOMAIN x.pending :
            x.pending[j].history /\ x.pending[j].message = y.pending[i].message
    BY <1>3
  <2>3. KnownTo(y, a) \subseteq 1 .. w /\ y.socket \subseteq KnownTo(y, a)
    BY <1>4 DEF Sound
  <2> QED BY <1>4, <2>1, <2>2, <2>3, SoundSame
<1> QED BY <1>5, <1>6
(* Pages of the history: from the newest downward, everything or down to    *)
(* the cursor.                                                              *)
LEMMA SoundPages ==
  ASSUME NEW w \in Nat, NEW n, NEW x, NEW a, NEW y \in InboxRec, NEW older, NEW page, NEW s,
         Sound(w, n, x, a), x.pending = <<>>,
         older = IF x.below = None THEN {m \in 1 .. w : m > Mark(x)}
                 ELSE {m \in 1 .. x.below - 1 : m > x.since},
         page \subseteq older,
         s \in (page \cap n) \cup {None},
         y.channel = x.channel, y.socket = x.socket, y.scanned = Larger(x.scanned, s),
         {y.pending[i].message : i \in DOMAIN y.pending} = (page \ x.socket) \ n,
         \/ page = older /\ y.below = None /\ y.since = None
         \/ /\ y.below \in page
            /\ \A u \in older : u >= y.below => u \in page
            /\ y.since \in IF x.below = None THEN {None, Mark(x)} ELSE {x.since}
  PROVE  Sound(w, n, y, a)
<1>1. x \in InboxRec
  BY DEF Sound
<1>2. /\ x.channel \in Nat /\ x.scanned \in Nat /\ x.below \in Nat /\ x.since \in Nat
      /\ Mark(x) \in Nat /\ Mark(x) >= x.channel /\ Mark(x) >= x.scanned
      /\ Mark(x) \in {x.channel, x.scanned}
  BY <1>1, RecFields
<1>3. x.below <= w /\ Mark(x) <= w /\ x.since <= Mark(x)
  BY DEF Sound
<1>4. older \subseteq 1 .. w
  BY <1>2, <1>3 DEF None
<1>5. s \in 0 .. w
  BY <1>4 DEF None
<1>6. KnownTo(x, a) = a /\ KnownTo(y, a) = a \cup ((page \ x.socket) \ n)
  BY DEF KnownTo
<1>7. /\ Mark(y) \in Nat /\ Mark(y) >= Mark(x) /\ Mark(y) <= w
      /\ Mark(y) = Mark(x) \/ (Mark(y) = s /\ s \in page)
  BY <1>2, <1>3, <1>5 DEF Mark, Larger, None
<1>8. y.since <= Mark(y) /\ y.below <= w
  <2>1. CASE y.below = None /\ y.since = None
    BY <1>7, <2>1 DEF None
  <2>2. CASE /\ y.below \in page
             /\ y.since \in IF x.below = None THEN {None, Mark(x)} ELSE {x.since}
    <3>1. y.since \in {None, Mark(x), x.since}
      BY <2>2
    <3>2. y.since <= Mark(y)
      BY <1>2, <1>3, <1>7, <3>1 DEF None
    <3>3. \A u \in page : u <= w
      BY <1>4
    <3> QED BY <2>2, <3>2, <3>3
  <2> QED BY <2>1, <2>2
<1>9. KnownTo(y, a) \subseteq 1 .. w /\ y.socket \subseteq KnownTo(y, a)
  BY <1>4, <1>6 DEF Sound
<1>10. ASSUME NEW m \in (1 .. w) \ n, m \in page PROVE m \in KnownTo(y, a)
  BY <1>6, <1>10 DEF Sound
<1>11. ASSUME NEW m \in (1 .. w) \ n, m \notin a, m \in Nat
       PROVE  m \in older \/ (x.below # None /\ m > Mark(x) /\ m >= x.below)
  <2>1. InReach(x, m)
    BY <1>6, <1>11 DEF Sound
  <2>2. CASE x.below = None
    BY <1>2, <1>11, <2>1, <2>2 DEF InReach, None
  <2>3. CASE x.below # None
    BY <1>2, <1>3, <1>11, <2>1, <2>3 DEF InReach, None
  <2> QED BY <2>2, <2>3
<1>12. ASSUME NEW m \in (1 .. w) \ n, m \notin KnownTo(y, a), m \in Nat PROVE InReach(y, m)
  <2>1. m \notin a /\ m \notin page
    BY <1>6, <1>10, <1>12
  <2>2. CASE m \notin older
    <3>1. x.below # None /\ m > Mark(x) /\ m >= x.below
      BY <1>11, <1>12, <2>1, <2>2
    <3>2. s \in page => s < x.below
      BY <1>2, <3>1
    <3>3. m > Mark(y)
      BY <1>2, <1>5, <1>7, <1>12, <3>1, <3>2
    <3> QED BY <3>3 DEF InReach
  <2>3. CASE m \in older
    <3>1. /\ y.below \in page /\ ~(m >= y.below)
          /\ y.since \in IF x.below = None THEN {None, Mark(x)} ELSE {x.since}
      BY <2>1, <2>3
    <3>2. m < y.below
      <4>1. y.below \in Nat
        BY DEF InboxRec
      <4> QED BY <1>12, <3>1, <4>1
    <3>3. y.since < m
      BY <1>2, <1>12, <2>3, <3>1 DEF None
    <3> QED BY <3>2, <3>3 DEF InReach
  <2> QED BY <2>2, <2>3
<1>13. ASSUME y.below = None, NEW m \in (1 .. w) \ n, NEW u \in page, m <= u, m \in Nat
       PROVE  m \in KnownTo(y, a)
  <2>1. page = older
    BY <1>4, <1>13 DEF None
  <2>2. u < x.below \/ x.below = None
    <3>1. u \in older
      OBVIOUS
    <3> QED BY <1>2, <3>1
  <2>3. CASE m \in a
    BY <1>6, <2>3
  <2>4. CASE m \notin a
    <3>1. m \in older
      <4>1. u \in 1 .. w
        BY <1>4
      <4>2. ~(x.below # None /\ m >= x.below)
        BY <1>2, <1>13, <2>2, <4>1
      <4> QED BY <1>11, <1>13, <2>4, <4>2
    <3> QED BY <1>10, <2>1, <3>1
  <2> QED BY <2>3, <2>4
<1>14. ASSUME NEW i \in DOMAIN y.pending, y.below = None,
              NEW m \in (1 .. y.pending[i].message) \ n
       PROVE  m \in KnownTo(y, a)
  <2>1. y.pending[i].message \in KnownTo(y, a) /\ y.pending[i].message \in 1 .. w
    BY <1>9 DEF KnownTo
  <2>2. m \in (1 .. w) \ n /\ m \in Nat /\ m <= y.pending[i].message
    BY <2>1
  <2>3. y.pending[i].message \in page
    OBVIOUS
  <2> QED BY <1>13, <1>14, <2>2, <2>3
<1> QED BY <1>7, <1>8, <1>9, <1>12, <1>14 DEF Sound

(* The newest of a set are above all others of it.                          *)
LEMMA NewestAbove ==
  ASSUME NEW b \in Nat, NEW S \in SUBSET (1 .. b), NEW k \in Nat \ {0}
  PROVE  /\ NewestOf(S, k) \subseteq S
         /\ \A m \in NewestOf(S, k) : \A u \in S : u >= m => u \in NewestOf(S, k)
         /\ S # {} => NewestOf(S, k) # {}
<1> DEFINE Above(m) == {u \in S : u > m}
<1>a. IsFiniteSet(1 .. b)
  BY FS_Interval
<1>b. IsFiniteSet(S)
  BY <1>a, FS_Subset
<1>0. IsFiniteSet(S) /\ \A m \in S : m \in Nat
  BY <1>b
<1>1. ASSUME NEW m \in NewestOf(S, k), NEW u \in S, u >= m PROVE u \in NewestOf(S, k)
  <2> DEFINE A == Above(m)
             B == Above(u)
  <2>0. m \in S /\ Cardinality(A) < k
    BY DEF NewestOf
  <2>a. u \in Nat /\ m \in Nat
    BY <1>0, <2>0
  <2>b. \A v \in S : v > u => v > m
    BY <1>0, <1>1, <2>a
  <2>1. B \in SUBSET A /\ A \in SUBSET S
    BY <2>b
  <2> HIDE DEF A, B
  <2>2. IsFiniteSet(A)
    BY <1>0, <2>1, FS_Subset
  <2>3. IsFiniteSet(B) /\ Cardinality(B) <= Cardinality(A)
    BY <2>1, <2>2, FS_Subset
  <2>4. Cardinality(A) \in Nat /\ Cardinality(B) \in Nat
    BY <2>2, <2>3, FS_CardinalityType
  <2>5. Cardinality(B) < k
    BY <2>0, <2>3, <2>4
  <2> QED BY <2>5 DEF NewestOf, B
<1>2. ASSUME S # {} PROVE NewestOf(S, k) # {}
  <2>1. S \in SUBSET (0 .. b)
    OBVIOUS
  <2>2. PICK m \in S : \A u \in S : u <= m
    BY <1>2, <2>1, LargestMember
  <2>a. \A u \in S : ~(u > m)
    BY <1>0, <2>2
  <2>3. Above(m) = {}
    BY <2>a
  <2>4. Cardinality(Above(m)) = 0
    BY <2>3, FS_EmptySet
  <2> QED BY <2>4 DEF NewestOf
<1> QED BY <1>1, <1>2 DEF NewestOf

(* What is staged of pages: an event of each message that is news, and the  *)
(* watermark of the notices.                                                *)
LEMMA StagedPages ==
  ASSUME inbox \in InboxRec, NEW b \in Nat, NEW page \in SUBSET (1 .. b), notices \in SUBSET Nat,
         NEW below \in Nat, NEW since \in Nat, NEW y, y = StagePages(page, below, since)
  PROVE  /\ y \in InboxRec
         /\ y.channel = inbox.channel /\ y.socket = inbox.socket
         /\ y.below = below /\ y.since = since
         /\ \E s \in (page \cap notices) \cup {None} : y.scanned = Larger(inbox.scanned, s)
         /\ {y.pending[i].message : i \in DOMAIN y.pending} = (page \ inbox.socket) \ notices
<1> DEFINE events == (page \ inbox.socket) \ notices
           list == [i \in 1 .. Cardinality(events) |->
                      [message |-> Ascending(events)[i], history |-> TRUE]]
           s == Highest(page \intersect notices)
<1>1. events \in SUBSET Nat /\ IsFiniteSet(events)
  <2>1. events \in SUBSET (1 .. b)
    OBVIOUS
  <2>2. IsFiniteSet(1 .. b)
    BY FS_Interval
  <2> HIDE DEF events
  <2>3. IsFiniteSet(events)
    BY <2>1, <2>2, FS_Subset
  <2> QED BY <2>1, <2>3
<1> HIDE DEF events
<1>2. /\ Cardinality(events) \in Nat
      /\ \A i \in 1 .. Cardinality(events) : Ascending(events)[i] \in events
      /\ \A m \in events : \E i \in 1 .. Cardinality(events) : Ascending(events)[i] = m
  BY <1>1, AscendingMembers
<1>3. list \in Seq(Event)
  <2>1. \A i \in 1 .. Cardinality(events) :
          [message |-> Ascending(events)[i], history |-> TRUE] \in Event
    BY <1>1, <1>2 DEF Event
  <2>2. list \in [1 .. Cardinality(events) -> Event]
    BY <2>1
  <2> HIDE DEF list
  <2> QED BY <1>2, <2>2, SeqDef
<1>4. DOMAIN list = 1 .. Cardinality(events)
  OBVIOUS
<1>5. \A i \in DOMAIN list : list[i].message = Ascending(events)[i]
  OBVIOUS
<1> HIDE DEF list
<1>6. {list[i].message : i \in DOMAIN list} = events
  BY <1>2, <1>4, <1>5
<1>7. s \in (page \cap notices) \cup {None} /\ s \in Nat
  <2> DEFINE T == (page \cap notices) \cup {None}
  <2>1. T \in SUBSET (0 .. b) /\ T # {}
    BY DEF None
  <2>2. s = CHOOSE m \in T : \A u \in page \cap notices : u <= m
    BY DEF Highest
  <2> HIDE DEF T, s
  <2>3. PICK m \in T : \A u \in T : u <= m
    BY <2>1, LargestMember
  <2>4. \A u \in page \cap notices : u <= m
    BY <2>3 DEF T
  <2>5. s \in T
    BY <2>2, <2>3, <2>4
  <2> QED BY <2>1, <2>5 DEF T
<1> HIDE DEF s
<1>8. y = [inbox EXCEPT !.pending = list, !.scanned = Larger(@, s), !.below = below, !.since = since]
  BY DEF StagePages, list, s, events
<1>9. Larger(inbox.scanned, s) \in Nat
  BY <1>7, RecFields DEF Larger
<1>10. y \in InboxRec
  BY <1>3, <1>8, <1>9 DEF InboxRec
<1>11. /\ y.channel = inbox.channel /\ y.socket = inbox.socket
       /\ y.below = below /\ y.since = since
       /\ y.scanned = Larger(inbox.scanned, s) /\ y.pending = list
  BY <1>8 DEF InboxRec
<1> QED BY <1>6, <1>7, <1>10, <1>11 DEF events

LEMMA SlackTyped == SlackInit => SlackInv
<1> SUFFICES ASSUME SlackInit PROVE SlackInv
  OBVIOUS
<1>1. MaxPosts \in Nat
  BY SlackAssumption
<1>2. inbox = [channel |-> None, scanned |-> None, below |-> None, since |-> None,
               socket |-> {}, pending |-> <<>>]
  BY DEF SlackInit
<1>3. inbox \in InboxRec
  BY <1>2 DEF InboxRec, None
<1>4. Mark(inbox) = 0 /\ inbox.below = 0 /\ inbox.since = 0 /\ inbox.socket = {}
  BY <1>2 DEF Mark, Larger, None
<1>5. inbox.pending = <<>>
  BY <1>2
<1>6. KnownTo(inbox, accepted) = {}
  BY <1>5 DEF KnownTo, SlackInit
<1>7. Sound(0, notices, inbox, accepted)
  BY <1>3, <1>4, <1>5, <1>6 DEF Sound
<1> QED BY <1>1, <1>7 DEF SlackInv, SlackInit

(* Each step of the plugin, of Slack and of the daemon keeps it so.         *)
LEMMA SlackStep == SlackInv /\ [SlackNext]_slack => SlackInv'
<1> SUFFICES ASSUME SlackInv, [SlackNext]_slack PROVE SlackInv'
  OBVIOUS
<1>0. /\ MaxPosts \in Nat /\ InboxLimit \in Nat
      /\ written \in Nat /\ written <= MaxPosts /\ notices \in SUBSET Nat
  BY SlackAssumption DEF SlackInv
<1>a. Sound(written, notices, inbox, accepted) /\ envelopes \in SUBSET (1 .. written)
  BY DEF SlackInv
<1>b. inbox \in InboxRec
  BY <1>a DEF Sound
<1>c. inbox.pending \in Seq(Event)
  BY <1>b DEF InboxRec
<1>d. SlackInv' <=> /\ written' \in 0 .. MaxPosts /\ notices' \in SUBSET (1 .. MaxPosts)
                    /\ envelopes' \in SUBSET (1 .. written')
                    /\ Sound(written', notices', inbox', accepted')
  BY DEF SlackInv
<1>e. written \in 0 .. MaxPosts /\ notices \in SUBSET (1 .. MaxPosts)
  BY DEF SlackInv
<1>1. CASE Post
  <2>1. written' = written + 1 /\ written < MaxPosts /\ notices' = notices /\ inbox' = inbox /\ accepted' = accepted
    BY <1>1 DEF Post
  <2>2. envelopes' \in SUBSET (1 .. written')
    <3>1. \/ envelopes' = envelopes \cup ({written + 1} \ notices)
          \/ envelopes' = envelopes
      BY <1>1 DEF Post
    <3>2. envelopes \in SUBSET (1 .. (written + 1)) /\ written + 1 \in 1 .. (written + 1)
      BY <1>0, <1>a
    <3> QED BY <2>1, <3>1, <3>2
  <2>3. Sound(written + 1, notices, inbox, accepted)
    BY <1>0, <1>a, SoundPost
  <2> QED BY <1>0, <1>d, <1>e, <2>1, <2>2, <2>3
<1>2. CASE Abandon \/ AcknowledgeEnvelope
  BY <1>2, <1>a, <1>d, <1>e DEF Abandon, AcknowledgeEnvelope
<1>3. CASE SocketPoll
  <2>1. inbox.pending = <<>> /\ written' = written /\ notices' = notices /\ accepted' = accepted
    BY <1>3 DEF SocketPoll
  <2>2. PICK m \in envelopes : inbox' = StageSocket(m) /\ envelopes' \in {envelopes, envelopes \ {m}}
    BY <1>3 DEF SocketPoll
  <2>3. m \in 1 .. written /\ m \in Nat
    BY <1>0, <1>a
  <2> DEFINE y == StageSocket(m)
             e == [message |-> m, history |-> FALSE]
  <2>4. RememberSocket(m) \subseteq inbox.socket \cup {m}
    BY DEF RememberSocket
  <2>5. RememberSocket(m) \in SUBSET Nat
    BY <1>b, <2>3, <2>4 DEF InboxRec
  <2>6. Append(inbox.pending, e) = <<e>> /\ <<e>> \in Seq(Event)
    BY <2>1, <2>3 DEF Event
  <2>7. y = [inbox EXCEPT !.pending = <<e>>, !.socket = RememberSocket(m)]
    BY <2>6 DEF StageSocket
  <2> HIDE DEF y
  <2>8. y \in InboxRec
    BY <1>b, <2>5, <2>6, <2>7 DEF InboxRec
  <2>9. /\ y.channel = inbox.channel /\ y.scanned = inbox.scanned
        /\ y.below = inbox.below /\ y.since = inbox.since
        /\ y.pending = <<e>> /\ y.socket = RememberSocket(m)
    BY <1>b, <2>7 DEF InboxRec
  <2>10. /\ DOMAIN y.pending = {1} /\ y.pending[1] = e
    BY <2>9
  <2>11. KnownTo(y, accepted) = accepted \cup {m} /\ KnownTo(inbox, accepted) = accepted
    <3>1. e.message = m
      OBVIOUS
    <3> HIDE DEF e
    <3> QED BY <2>1, <2>10, <3>1 DEF KnownTo
  <2>12. /\ KnownTo(inbox, accepted) \subseteq 1 .. written
         /\ inbox.socket \subseteq KnownTo(inbox, accepted)
    BY <1>a DEF Sound
  <2>13. KnownTo(y, accepted) \subseteq 1 .. written /\ y.socket \subseteq KnownTo(y, accepted)
    BY <2>3, <2>4, <2>9, <2>11, <2>12
  <2>14. \A i \in DOMAIN y.pending : ~ y.pending[i].history
    BY <2>10
  <2>15. Sound(written, notices, y, accepted)
    BY <1>0, <1>a, <2>8, <2>9, <2>11, <2>13, <2>14, SoundSame
  <2> QED BY <1>a, <1>d, <1>e, <2>1, <2>2, <2>15 DEF y
<1>4. CASE HistoryPoll
  <2>1. /\ inbox.pending = <<>> /\ written' = written /\ notices' = notices
        /\ envelopes' = envelopes /\ accepted' = accepted
    BY <1>4 DEF HistoryPoll
  <2>2. PICK k \in 1 .. InboxLimit :
          LET page == NewestOf(Older, k)
          IN IF page = Older THEN inbox' = StagePages(page, None, None)
             ELSE \E since \in IF inbox.below = None THEN {None, Watermark} ELSE {inbox.since} :
                    inbox' = StagePages(page, CHOOSE m \in page : \A u \in page : m <= u, since)
    BY <1>4 DEF HistoryPoll
  <2> DEFINE older == IF inbox.below = None THEN {m \in 1 .. written : m > Mark(inbox)}
                      ELSE {m \in 1 .. inbox.below - 1 : m > inbox.since}
             page == NewestOf(older, k)
  <2>3. older = Older /\ Watermark = Mark(inbox)
    BY DEF Older, Watermark, Mark
  <2>4. /\ inbox.below \in Nat /\ inbox.since \in Nat /\ Mark(inbox) \in Nat
        /\ inbox.below <= written
    BY <1>a, <1>b, RecFields DEF Sound
  <2>5. older \in SUBSET (1 .. written)
    BY <1>0, <2>4 DEF None
  <2>6. k \in Nat \ {0}
    BY <1>0
  <2> HIDE DEF older
  <2>7. /\ page \subseteq older
        /\ \A m \in page : \A u \in older : u >= m => u \in page
        /\ older # {} => page # {}
    BY <1>0, <2>5, <2>6, NewestAbove
  <2> DEFINE least == CHOOSE m \in page : \A u \in page : m <= u
  <2>8. \/ page = older /\ inbox' = StagePages(page, None, None)
        \/ /\ page # older
           /\ \E since \in IF inbox.below = None THEN {None, Mark(inbox)} ELSE {inbox.since} :
                inbox' = StagePages(page, least, since)
    BY <2>2, <2>3
  <2> HIDE DEF page
  <2>9. page # older => least \in page
    <3> SUFFICES ASSUME page # older PROVE least \in page
      OBVIOUS
    <3>1. page \in SUBSET Nat /\ page # {}
      BY <1>0, <2>5, <2>7
    <3> QED BY <3>1, LeastMember
  <2> HIDE DEF least
  <2>10. PICK below, since :
           /\ inbox' = StagePages(page, below, since)
           /\ \/ page = older /\ below = None /\ since = None
              \/ /\ below \in page
                 /\ since \in IF inbox.below = None THEN {None, Mark(inbox)} ELSE {inbox.since}
    BY <2>8, <2>9
  <2>11. page \in SUBSET (1 .. written)
    BY <2>5, <2>7
  <2>12. below \in Nat /\ since \in Nat
    <3>1. since \in {None, Mark(inbox), inbox.since} /\ below \in page \cup {None}
      BY <2>10
    <3> QED BY <1>0, <2>4, <2>11, <3>1 DEF None
  <2>y. PICK y : y = StagePages(page, below, since)
    OBVIOUS
  <2>13. /\ y \in InboxRec
         /\ y.channel = inbox.channel /\ y.socket = inbox.socket
         /\ y.below = below /\ y.since = since
         /\ \E s \in (page \cap notices) \cup {None} : y.scanned = Larger(inbox.scanned, s)
         /\ {y.pending[i].message : i \in DOMAIN y.pending} = (page \ inbox.socket) \ notices
    BY <1>0, <1>b, <2>11, <2>12, <2>y, StagedPages
  <2>14. PICK s \in (page \cap notices) \cup {None} : y.scanned = Larger(inbox.scanned, s)
    BY <2>13
  <2>15. older = IF inbox.below = None THEN {m \in 1 .. written : m > Mark(inbox)}
                 ELSE {m \in 1 .. inbox.below - 1 : m > inbox.since}
    BY DEF older
  <2>16. \/ page = older /\ y.below = None /\ y.since = None
         \/ /\ y.below \in page
            /\ \A u \in older : u >= y.below => u \in page
            /\ y.since \in IF inbox.below = None THEN {None, Mark(inbox)} ELSE {inbox.since}
    BY <2>7, <2>10, <2>13
  <2>17. Sound(written, notices, y, accepted)
    BY <1>0, <1>a, <2>1, <2>7, <2>13, <2>14, <2>15, <2>16, SoundPages
  <2> QED BY <1>a, <1>d, <1>e, <2>1, <2>10, <2>y, <2>17
<1>5. CASE AcceptEvent
  <2>1. /\ inbox.pending # <<>> /\ written' = written /\ notices' = notices
        /\ envelopes' = envelopes /\ inbox' = inbox
        /\ accepted' = accepted \cup {Head(inbox.pending).message}
    BY <1>5 DEF AcceptEvent
  <2>2. Head(inbox.pending) = inbox.pending[1] /\ 1 \in DOMAIN inbox.pending
    BY <1>c, <2>1
  <2> DEFINE b == accepted \cup {inbox.pending[1].message}
  <2>3. KnownTo(inbox, b) = KnownTo(inbox, accepted)
    BY <2>2 DEF KnownTo
  <2>4. Sound(written, notices, inbox, b)
    BY <1>a, <2>3 DEF Sound
  <2> QED BY <1>a, <1>d, <1>e, <2>1, <2>2, <2>4
<1>6. CASE AcknowledgeEvent
  <2>1. /\ inbox.pending # <<>> /\ written' = written /\ notices' = notices
        /\ envelopes' = envelopes /\ accepted' = accepted
    BY <1>6 DEF AcknowledgeEvent
  <2>2. Head(inbox.pending) = inbox.pending[1] /\ 1 \in DOMAIN inbox.pending
    BY <1>c, <2>1
  <2> DEFINE e == inbox.pending[1]
             c == IF e.history /\ inbox.below = None THEN Larger(inbox.channel, e.message) ELSE inbox.channel
  <2>3. e.message \in accepted
    BY <1>6, <2>2 DEF AcknowledgeEvent
  <2>4. inbox' = [inbox EXCEPT !.pending = Tail(inbox.pending), !.channel = c]
    BY <1>6, <2>2 DEF AcknowledgeEvent, Passed
  <2>5. inbox.channel \in Nat /\ e.message \in Nat
    BY <1>b, <2>2, RecFields
  <2>6. c \in Nat
    BY <2>5 DEF Larger
  <2>7. Tail(inbox.pending) \in Seq(Event)
    BY <1>c, <2>1, HeadTailProperties
  <2>8. c = IF e.history /\ inbox.below = None THEN Larger(inbox.channel, e.message) ELSE inbox.channel
    OBVIOUS
  <2> HIDE DEF c, e
  <2>9. PICK y : y = inbox'
    OBVIOUS
  <2>10. y \in InboxRec
    BY <1>b, <2>4, <2>6, <2>7, <2>9 DEF InboxRec
  <2>11. /\ y.pending = Tail(inbox.pending) /\ y.channel = c
         /\ y.scanned = inbox.scanned /\ y.below = inbox.below
         /\ y.since = inbox.since /\ y.socket = inbox.socket
    BY <1>b, <2>4, <2>9 DEF InboxRec
  <2>12. Sound(written, notices, y, accepted)
    BY <1>0, <1>a, <2>1, <2>3, <2>8, <2>10, <2>11, SoundAcknowledge DEF e
  <2> QED BY <1>a, <1>d, <1>e, <2>1, <2>9, <2>12
<1>7. CASE UNCHANGED slack
  BY <1>7, <1>a, <1>d, <1>e DEF slack
<1> QED BY <1>1, <1>2, <1>3, <1>4, <1>5, <1>6, <1>7 DEF SlackNext

LEMMA SlackKeeps == SlackInv => NothingLost
<1> SUFFICES ASSUME SlackInv, NEW m \in (1 .. written) \ notices
             PROVE  \/ m \in accepted
                    \/ \E i \in DOMAIN inbox.pending : inbox.pending[i].message = m
                    \/ m > Watermark
                    \/ inbox.since < m /\ m < inbox.below
  BY DEF NothingLost
<1>1. m \in KnownTo(inbox, accepted) \/ InReach(inbox, m)
  BY DEF SlackInv, Sound
<1> QED BY <1>1 DEF KnownTo, InReach, Mark, Watermark
-----------------------------------------------------------------------------
(* The receive spool of Signal.                                             *)

(* A message is with Signal, in the temporary file, or kept; the spool and  *)
(* the inbox hold kept messages that are not acknowledged, and the spool is *)
(* read again only by a poll that knows what is pending.                    *)
SignalInv ==
  /\ spool \in [there : BOOLEAN, events : SUBSET Inbound]
  /\ polling \in {"no", "cleared", "receiving", "staged", "answer"}
  /\ server \cup receiving \cup kept \cup handed \subseteq Inbound
  /\ server \cap receiving = {} /\ server \cap kept = {} /\ receiving \cap kept = {}
  /\ ~ spool.there => spool.events = {}
  /\ polling = "receiving" => staged = {} /\ ~ spool.there
  /\ spool.there /\ staged # {} => staged = spool.events /\ polling # "cleared"
  /\ polling = "staged" => staged = spool.events
  /\ polling = "answer" => ~ spool.there
  /\ handed \cap spool.events = {}
  /\ handed \subseteq kept
  /\ polling # "receiving" => receiving = {}
  /\ spool.events \cup staged \cup done \subseteq kept
  /\ HandedOverOnce

LEMMA SignalTyped == SignalInit => SignalInv
BY DEF SignalInit, SignalInv, HandedOverOnce, NoSpool

(* Each step of the plugin, of Signal and of the daemon keeps it so.        *)
LEMMA SignalStep == SignalInv /\ [SignalNext]_signal => SignalInv'
<1> SUFFICES ASSUME SignalInv, [SignalNext]_signal PROVE SignalInv'
  OBVIOUS
<1> USE DEF SignalInv, HandedOverOnce
<1>1. CASE ClearRedundant
  <2>1. CASE spool' = spool
    <3>1. /\ polling = "no" /\ polling' \in {"no", "cleared"}
          /\ UNCHANGED <<server, receiving, staged, handed, kept, done>>
      BY <1>1 DEF ClearRedundant
    <3>2. polling' = "cleared" => ~ Redundant
      BY <1>1, <2>1 DEF ClearRedundant, Redundant, NoSpool
    <3> QED BY <2>1, <3>1, <3>2 DEF Redundant
  <2>2. CASE spool' # spool
    <3>1. spool' = NoSpool /\ Redundant /\ polling' = "cleared" /\ polling = "no"
      BY <1>1, <2>2 DEF ClearRedundant
    <3>2. UNCHANGED <<server, receiving, staged, handed, kept, done>>
      BY <1>1 DEF ClearRedundant
    <3> QED BY <3>1, <3>2 DEF Redundant, NoSpool
  <2> QED BY <2>1, <2>2
<1>2. CASE Receive
  BY <1>2 DEF Receive
<1>3. CASE Discard
  BY <1>3 DEF Discard
<1>4. CASE Spool
  BY <1>4 DEF Spool
<1>5. CASE StageSpool
  BY <1>5 DEF StageSpool
<1>6. CASE ClearSpool
  <2>1. /\ polling = "staged"
        /\ UNCHANGED <<server, receiving, staged, handed, kept, done>>
    BY <1>6 DEF ClearSpool
  <2>2. CASE spool' = NoSpool /\ polling' = "answer"
    BY <2>1, <2>2 DEF NoSpool
  <2>3. CASE UNCHANGED spool /\ polling' = "no"
    BY <2>1, <2>3
  <2> QED BY <1>6, <2>2, <2>3 DEF ClearSpool
<1>7. CASE AnswerPoll
  BY <1>7 DEF AnswerPoll
<1>8. CASE AcknowledgeMessage
  BY <1>8 DEF AcknowledgeMessage
<1>9. CASE PluginEnds
  BY <1>9 DEF PluginEnds
<1>10. CASE UNCHANGED signal
  BY <1>10 DEF signal
<1> QED BY <1>1, <1>2, <1>3, <1>4, <1>5, <1>6, <1>7, <1>8, <1>9, <1>10 DEF SignalNext
-----------------------------------------------------------------------------
(* The inbox of WhatsApp.                                                   *)

In(s, x) == \E i \in 1 .. Len(s) : s[i] = x

(* The ledger holds what is pending and what was queued last: an id has as  *)
(* many messages behind it in the order as ids behind it in the ledger, and *)
(* one that the ledger has forgotten has more than IdLimit - QueueLimit.    *)
Ordered(q, l, o) ==
  /\ q \in Seq(Messages) /\ l \in Seq(Messages) /\ o \in Seq(Messages)
  /\ Len(q) <= QueueLimit /\ Len(l) <= IdLimit
  /\ \A i, j \in 1 .. Len(l) : l[i] = l[j] => i = j
  /\ \A i \in 1 .. Len(q) : In(l, q[i])
  /\ \A i \in 1 .. Len(l) : In(o, l[i])
  /\ \A i \in 1 .. Len(l) : \A j \in 1 .. Len(o) : o[j] = l[i] => Len(o) - j >= Len(l) - i
  /\ \A j \in 1 .. Len(o) : ~ In(l, o[j]) => Len(o) - j > IdLimit - QueueLimit
  /\ \A i, j \in 1 .. Len(o) : i < j /\ o[i] = o[j] => j - i - 1 > IdLimit - QueueLimit

WhatsAppInv ==
  /\ meta \subseteq Messages /\ Messages \ meta \subseteq ToSet(order)
  /\ Ordered(queue, ledger, order)

LEMMA InSet ==
  ASSUME NEW S, NEW s \in Seq(S)
  PROVE  /\ Len(s) \in Nat /\ DOMAIN s = 1 .. Len(s)
         /\ \A i \in 1 .. Len(s) : s[i] \in S
         /\ \A x : x \in ToSet(s) <=> In(s, x)
<1>1. Len(s) \in Nat /\ DOMAIN s = 1 .. Len(s)
  BY LenProperties
<1>2. \A i \in 1 .. Len(s) : s[i] \in S
  BY ElementOfSeq
<1> QED BY <1>1, <1>2 DEF ToSet, In

(* As many different ids as are all pending are no more than are pending.   *)
LEMMA NoMorePending ==
  ASSUME NEW S, NEW q \in Seq(S), NEW l \in Seq(S), NEW k \in Nat, k <= Len(l),
         \A i, j \in 1 .. Len(l) : l[i] = l[j] => i = j,
         \A i \in 1 .. k : In(q, l[i])
  PROVE  k <= Len(q)
<1>1. Len(q) \in Nat /\ Len(l) \in Nat
  BY LenProperties
<1> DEFINE f == [i \in 1 .. k |-> CHOOSE j \in 1 .. Len(q) : q[j] = l[i]]
<1>2. \A i \in 1 .. k : f[i] \in 1 .. Len(q) /\ q[f[i]] = l[i]
  BY DEF In
<1>3. f \in [1 .. k -> 1 .. Len(q)]
  BY <1>2
<1> HIDE DEF f
<1>4. ASSUME NEW i \in 1 .. k, NEW j \in 1 .. k, f[i] = f[j] PROVE i = j
  <2>1. l[i] = l[j]
    BY <1>2, <1>4
  <2>2. i \in 1 .. Len(l) /\ j \in 1 .. Len(l)
    BY <1>1
  <2> QED BY <2>1, <2>2
<1>5. f \in Injection(1 .. k, 1 .. Len(q))
  BY <1>3, <1>4 DEF Injection, IsInjective
<1>6. /\ IsFiniteSet(1 .. Len(q)) /\ Cardinality(1 .. Len(q)) = Len(q)
      /\ Cardinality(1 .. k) = k
  <2>1. \A n \in Nat : IsFiniteSet(1 .. n) /\ Cardinality(1 .. n) = n
    <3> TAKE n \in Nat
    <3>1. IsFiniteSet(1 .. n) /\ Cardinality(1 .. n) = IF 1 > n THEN 0 ELSE n - 1 + 1
      BY FS_Interval
    <3> QED BY <3>1
  <2> QED BY <1>1, <2>1
<1> QED BY <1>5, <1>6, FS_Injection

LEMMA RemoveAtShape ==
  ASSUME NEW S, NEW s \in Seq(S), NEW e \in 1 .. Len(s)
  PROVE  /\ RemoveAt(s, e) \in Seq(S) /\ Len(RemoveAt(s, e)) = Len(s) - 1
         /\ \A i \in 1 .. Len(s) - 1 : RemoveAt(s, e)[i] = IF i < e THEN s[i] ELSE s[i + 1]
<1>1. Len(s) \in Nat /\ \A i \in 1 .. Len(s) : s[i] \in S
  BY LenProperties, ElementOfSeq
<1> DEFINE front == SubSeq(s, 1, e - 1)
           rear == SubSeq(s, e + 1, Len(s))
<1>2. /\ front \in Seq(S) /\ Len(front) = e - 1
      /\ \A i \in 1 .. e - 1 : front[i] = s[i]
  <2>1. \A i \in 1 .. (e - 1) : s[i] \in S
    BY <1>1
  <2>2. /\ front \in Seq(S) /\ Len(front) = IF 1 <= e - 1 THEN (e - 1) - 1 + 1 ELSE 0
        /\ \A i \in 1 .. (e - 1) - 1 + 1 : front[i] = s[1 + i - 1]
    BY <1>1, <2>1, SubSeqProperties
  <2> HIDE DEF front
  <2> QED BY <1>1, <2>2
<1>3. /\ rear \in Seq(S) /\ Len(rear) = Len(s) - e
      /\ \A i \in 1 .. Len(s) - e : rear[i] = s[e + i]
  <2>1. \A i \in (e + 1) .. Len(s) : s[i] \in S
    BY <1>1
  <2>2. /\ rear \in Seq(S) /\ Len(rear) = IF e + 1 <= Len(s) THEN Len(s) - (e + 1) + 1 ELSE 0
        /\ \A i \in 1 .. Len(s) - (e + 1) + 1 : rear[i] = s[(e + 1) + i - 1]
    BY <1>1, <2>1, SubSeqProperties
  <2> HIDE DEF rear
  <2> QED BY <1>1, <2>2
<1>4. RemoveAt(s, e) = front \o rear
  BY DEF RemoveAt
<1> HIDE DEF front, rear
<1>5. /\ front \o rear \in Seq(S) /\ Len(front \o rear) = Len(front) + Len(rear)
      /\ \A i \in 1 .. Len(front) + Len(rear) :
           (front \o rear)[i] = IF i <= Len(front) THEN front[i] ELSE rear[i - Len(front)]
  BY <1>2, <1>3, ConcatProperties
<1>6. Len(front) + Len(rear) = Len(s) - 1
  BY <1>1, <1>2, <1>3
<1>7. ASSUME NEW i \in 1 .. Len(s) - 1
      PROVE  (front \o rear)[i] = IF i < e THEN s[i] ELSE s[i + 1]
  <2>1. CASE i < e
    BY <1>1, <1>2, <1>5, <1>6, <2>1
  <2>2. CASE ~(i < e)
    <3>1. i - (e - 1) \in 1 .. Len(s) - e /\ e + (i - (e - 1)) = i + 1
      BY <1>1, <2>2
    <3>2. (front \o rear)[i] = rear[i - (e - 1)]
      BY <1>1, <1>2, <1>5, <1>6, <2>2
    <3> QED BY <1>3, <2>2, <3>1, <3>2
  <2> QED BY <2>1, <2>2
<1> QED BY <1>4, <1>5, <1>6, <1>7

(* Before a message is pending there is room for its id: at the limit one   *)
(* is forgotten that is not pending and has only pending ones before it.    *)
LEMMA RoomForOne ==
  ASSUME NEW q, NEW l, NEW o, Ordered(q, l, o), Len(q) < QueueLimit
  PROVE  \/ ForgetOldest(l, q) = l /\ Len(l) < IdLimit
         \/ \E e \in 1 .. Len(l) :
              /\ ForgetOldest(l, q) = RemoveAt(l, e)
              /\ Len(l) = IdLimit /\ e <= QueueLimit /\ ~ In(q, l[e])
<1> DEFINE free == {i \in DOMAIN l : l[i] \notin ToSet(q)}
           e == CHOOSE i \in free : \A j \in free : i <= j
<1>1. q \in Seq(Messages) /\ l \in Seq(Messages)
  BY DEF Ordered
<1>2. /\ Len(q) \in Nat /\ Len(l) \in Nat /\ DOMAIN l = 1 .. Len(l)
      /\ \A x : x \in ToSet(q) <=> In(q, x)
  BY <1>1, InSet
<1>3. QueueLimit \in Nat /\ IdLimit \in Nat /\ QueueLimit <= IdLimit
  BY WhatsAppAssumption
<1>4. Len(l) <= IdLimit
  BY DEF Ordered
<1>5. CASE Len(l) < IdLimit
  BY <1>5 DEF ForgetOldest
<1>6. CASE ~(Len(l) < IdLimit)
  <2>1. Len(l) = IdLimit
    <3>1. Len(l) \in Nat /\ IdLimit \in Nat
      BY <1>2, <1>3
    <3> QED BY <1>4, <1>6, <3>1
  <2>2. ASSUME NEW k \in Nat, k <= Len(l), \A i \in 1 .. k : In(q, l[i]) PROVE k <= Len(q)
    <3>1. \A i, j \in 1 .. Len(l) : l[i] = l[j] => i = j
      BY DEF Ordered
    <3> QED BY <1>1, <2>2, <3>1, NoMorePending
  <2>3. free # {}
    <3> SUFFICES ASSUME free = {} PROVE FALSE
      OBVIOUS
    <3>1. \A i \in 1 .. Len(l) : In(q, l[i])
      BY <1>2
    <3>2. Len(l) <= Len(q)
      BY <1>2, <2>2, <3>1
    <3> QED BY <1>2, <1>3, <2>1, <3>2
  <2>4. free \in SUBSET Nat
    BY <1>2
  <2>5. e \in free /\ \A j \in free : e <= j
    <3> HIDE DEF free
    <3> QED BY <2>3, <2>4, LeastMember
  <2>6. ForgetOldest(l, q) = RemoveAt(l, e)
    BY <1>6, <2>3 DEF ForgetOldest
  <2> HIDE DEF e
  <2>7. e \in 1 .. Len(l) /\ ~ In(q, l[e])
    BY <1>2, <2>5
  <2>8. \A i \in 1 .. (e - 1) : In(q, l[i])
    <3> TAKE i \in 1 .. (e - 1)
    <3>1. i \in DOMAIN l /\ ~(e <= i)
      BY <1>2, <2>7
    <3> QED BY <1>2, <2>5, <3>1
  <2>9. e - 1 <= Len(q)
    <3>1. e - 1 \in Nat /\ e - 1 <= Len(l)
      BY <1>2, <2>7
    <3> QED BY <2>2, <2>8, <3>1
  <2>10. e <= QueueLimit
    BY <1>2, <1>3, <2>7, <2>9
  <2> QED BY <2>1, <2>6, <2>7, <2>10
<1> QED BY <1>5, <1>6
(* The ledger with the id of a message that was not in it, perhaps in place *)
(* of one that can be forgotten.                                            *)
LEMMA OrderedAfter ==
  ASSUME NEW q, NEW l, NEW o, Ordered(q, l, o), Len(q) < QueueLimit,
         NEW m \in Messages, ~ In(l, m),
         NEW t \in Seq(Messages), Len(t) \in 1 .. IdLimit, t[Len(t)] = m,
         \A i \in 1 .. Len(t) - 1 : \E r \in 1 .. Len(l) :
           t[i] = l[r] /\ Len(t) - i <= Len(l) - r + 1,
         \A i, j \in 1 .. Len(t) - 1 : t[i] = t[j] => i = j,
         \A r \in 1 .. Len(l) :
           In(t, l[r]) \/ (~ In(q, l[r]) /\ Len(l) - r >= IdLimit - QueueLimit)
  PROVE  Ordered(Append(q, m), t, Append(o, m))
<1> DEFINE q2 == Append(q, m)
           o2 == Append(o, m)
<1>1. q \in Seq(Messages) /\ l \in Seq(Messages) /\ o \in Seq(Messages)
  BY DEF Ordered
<1>2. /\ q2 \in Seq(Messages) /\ Len(q2) = Len(q) + 1 /\ q2[Len(q) + 1] = m
      /\ \A i \in 1 .. Len(q) : q2[i] = q[i]
  BY <1>1, AppendProperties
<1>3. /\ o2 \in Seq(Messages) /\ Len(o2) = Len(o) + 1 /\ o2[Len(o) + 1] = m
      /\ \A i \in 1 .. Len(o) : o2[i] = o[i]
  BY <1>1, AppendProperties
<1> HIDE DEF q2, o2
<1>4. Len(q) \in Nat /\ Len(l) \in Nat /\ Len(o) \in Nat /\ Len(t) \in Nat
  BY <1>1, LenProperties
<1>5. QueueLimit \in Nat /\ IdLimit \in Nat
  BY WhatsAppAssumption
<1>6. Len(q2) <= QueueLimit /\ Len(t) <= IdLimit
  BY <1>2, <1>4, <1>5
<1>7. ASSUME NEW i \in 1 .. Len(t), i # Len(t)
      PROVE  /\ i \in 1 .. Len(t) - 1
             /\ \E r \in 1 .. Len(l) : t[i] = l[r] /\ Len(t) - i <= Len(l) - r + 1
             /\ t[i] # m
  <2>1. i \in 1 .. Len(t) - 1
    BY <1>4, <1>7
  <2>2. PICK r \in 1 .. Len(l) : t[i] = l[r] /\ Len(t) - i <= Len(l) - r + 1
    BY <2>1
  <2>3. l[r] # m
    BY DEF In
  <2> QED BY <2>1, <2>2, <2>3
<1>8. \A i, j \in 1 .. Len(t) : t[i] = t[j] => i = j
  BY <1>7
<1>9. ASSUME NEW i \in 1 .. Len(q2) PROVE In(t, q2[i])
  <2>1. CASE i = Len(q) + 1
    BY <1>2, <1>4, <2>1 DEF In
  <2>2. CASE i # Len(q) + 1
    <3>1. i \in 1 .. Len(q) /\ q2[i] = q[i]
      BY <1>2, <1>4, <2>2
    <3>2. PICK r \in 1 .. Len(l) : l[r] = q[i]
      BY <3>1 DEF Ordered, In
    <3>3. In(q, l[r])
      BY <3>1, <3>2 DEF In
    <3> QED BY <3>1, <3>2, <3>3
  <2> QED BY <2>1, <2>2
<1>10. ASSUME NEW i \in 1 .. Len(t) PROVE In(o2, t[i])
  <2>1. CASE i = Len(t)
    BY <1>3, <1>4, <2>1 DEF In
  <2>2. CASE i # Len(t)
    <3>1. PICK r \in 1 .. Len(l) : t[i] = l[r]
      BY <1>7, <2>2
    <3>2. PICK j \in 1 .. Len(o) : o[j] = l[r]
      BY DEF Ordered, In
    <3>3. j \in 1 .. Len(o2) /\ o2[j] = t[i]
      BY <1>3, <1>4, <3>1, <3>2
    <3> QED BY <3>3 DEF In
  <2> QED BY <2>1, <2>2
<1>11. ASSUME NEW i \in 1 .. Len(t), NEW j \in 1 .. Len(o2), o2[j] = t[i]
       PROVE  Len(o2) - j >= Len(t) - i
  <2>1. CASE i = Len(t)
    BY <1>3, <1>4, <2>1
  <2>2. CASE i # Len(t)
    <3>1. t[i] # m
      BY <1>7, <2>2
    <3>2. PICK r \in 1 .. Len(l) : t[i] = l[r] /\ Len(t) - i <= Len(l) - r + 1
      BY <1>7, <2>2
    <3>3. j \in 1 .. Len(o) /\ o[j] = l[r]
      BY <1>3, <1>4, <1>11, <3>1, <3>2
    <3>4. Len(o) - j >= Len(l) - r
      BY <3>3 DEF Ordered
    <3> QED BY <1>3, <1>4, <3>2, <3>3, <3>4
  <2> QED BY <2>1, <2>2
<1>12. ASSUME NEW j \in 1 .. Len(o2), ~ In(t, o2[j])
       PROVE  Len(o2) - j > IdLimit - QueueLimit
  <2>1. In(t, m)
    BY <1>4 DEF In
  <2>2. j \in 1 .. Len(o) /\ o2[j] = o[j]
    BY <1>3, <1>4, <1>12, <2>1
  <2>3. CASE In(l, o[j])
    <3>1. PICK r \in 1 .. Len(l) : l[r] = o[j]
      BY <2>3 DEF In
    <3>2. Len(l) - r >= IdLimit - QueueLimit
      BY <1>12, <2>2, <3>1
    <3>3. Len(o) - j >= Len(l) - r
      BY <2>2, <3>1 DEF Ordered
    <3> QED BY <1>3, <1>4, <1>5, <2>2, <3>2, <3>3
  <2>4. CASE ~ In(l, o[j])
    <3>1. Len(o) - j > IdLimit - QueueLimit
      BY <2>2, <2>4 DEF Ordered
    <3> QED BY <1>3, <1>4, <1>5, <2>2, <3>1
  <2> QED BY <2>3, <2>4
<1>13. ASSUME NEW i \in 1 .. Len(o2), NEW j \in 1 .. Len(o2), i < j, o2[i] = o2[j]
       PROVE  j - i - 1 > IdLimit - QueueLimit
  <2>1. i \in 1 .. Len(o) /\ o2[i] = o[i]
    BY <1>3, <1>4, <1>13
  <2>2. CASE j = Len(o) + 1
    <3>1. ~ In(l, o[i])
      BY <1>3, <1>13, <2>1, <2>2
    <3>2. Len(o) - i > IdLimit - QueueLimit
      BY <2>1, <3>1 DEF Ordered
    <3> QED BY <1>4, <1>5, <2>1, <2>2, <3>2
  <2>3. CASE j # Len(o) + 1
    <3>1. j \in 1 .. Len(o) /\ o2[j] = o[j]
      BY <1>3, <1>4, <2>3
    <3> QED BY <1>13, <2>1, <3>1 DEF Ordered
  <2> QED BY <2>2, <2>3
<1> QED BY <1>2, <1>3, <1>6, <1>8, <1>9, <1>10, <1>11, <1>12, <1>13 DEF Ordered, q2, o2

States == [queue : Seq(Messages), ledger : Seq(Messages)]

(* One message staged.                                                      *)
LEMMA OrderedRemember ==
  ASSUME NEW s \in States, NEW o, Ordered(s.queue, s.ledger, o), Len(s.queue) < QueueLimit,
         NEW m \in Messages, ~ In(s.ledger, m)
  PROVE  /\ Remember(s, m) \in States
         /\ Remember(s, m).queue = Append(s.queue, m)
         /\ Ordered(Remember(s, m).queue, Remember(s, m).ledger, Append(o, m))
         /\ \A x : In(Remember(s, m).ledger, x) => In(s.ledger, x) \/ x = m
<1> DEFINE q == s.queue
           l == s.ledger
           ids == ForgetOldest(l, q)
           t == Append(ids, m)
<1>1. q \in Seq(Messages) /\ l \in Seq(Messages) /\ Len(q) \in Nat /\ Len(l) \in Nat
  BY LenProperties DEF States
<1>2. QueueLimit \in Nat /\ IdLimit \in Nat /\ QueueLimit <= IdLimit
  BY WhatsAppAssumption
<1>3. \A i, j \in 1 .. Len(l) : l[i] = l[j] => i = j
  BY DEF Ordered
<1>4. /\ ids \in Seq(Messages) /\ Len(ids) < IdLimit
      /\ \A i \in 1 .. Len(ids) : \E r \in 1 .. Len(l) :
           ids[i] = l[r] /\ Len(ids) + 1 - i <= Len(l) - r + 1
      /\ \A i, j \in 1 .. Len(ids) : ids[i] = ids[j] => i = j
      /\ \A r \in 1 .. Len(l) :
           In(ids, l[r]) \/ (~ In(q, l[r]) /\ Len(l) - r >= IdLimit - QueueLimit)
  <2>1. CASE ids = l /\ Len(l) < IdLimit
    <3>1. \A i \in 1 .. Len(ids) : \E r \in 1 .. Len(l) :
            ids[i] = l[r] /\ Len(ids) + 1 - i <= Len(l) - r + 1
      <4> TAKE i \in 1 .. Len(ids)
      <4>1. i \in 1 .. Len(l) /\ ids[i] = l[i] /\ Len(ids) + 1 - i <= Len(l) - i + 1
        BY <1>1, <2>1
      <4> QED BY <4>1
    <3>2. \A r \in 1 .. Len(l) : In(ids, l[r])
      BY <2>1 DEF In
    <3> QED BY <1>1, <1>3, <2>1, <3>1, <3>2
  <2>2. CASE \E e \in 1 .. Len(l) : /\ ids = RemoveAt(l, e)
                                    /\ Len(l) = IdLimit /\ e <= QueueLimit /\ ~ In(q, l[e])
    <3>1. PICK e \in 1 .. Len(l) : /\ ids = RemoveAt(l, e)
                                   /\ Len(l) = IdLimit /\ e <= QueueLimit /\ ~ In(q, l[e])
      BY <2>2
    <3> HIDE DEF ids, l, q
    <3>2. /\ ids \in Seq(Messages) /\ Len(ids) = Len(l) - 1
          /\ \A i \in 1 .. Len(l) - 1 : ids[i] = IF i < e THEN l[i] ELSE l[i + 1]
      BY <1>1, <3>1, RemoveAtShape
    <3>3. ASSUME NEW i \in 1 .. Len(ids)
          PROVE  \E r \in 1 .. Len(l) : /\ ids[i] = l[r] /\ Len(ids) + 1 - i <= Len(l) - r + 1
      <4>1. CASE i < e
        <5>1. i \in 1 .. Len(l) /\ ids[i] = l[i] /\ Len(ids) + 1 - i <= Len(l) - i + 1
          BY <1>1, <3>2, <4>1
        <5> QED BY <5>1
      <4>2. CASE ~(i < e)
        <5>1. i + 1 \in 1 .. Len(l) /\ ids[i] = l[i + 1] /\ Len(ids) + 1 - i <= Len(l) - (i + 1) + 1
          BY <1>1, <3>2, <4>2
        <5> QED BY <5>1
      <4> QED BY <4>1, <4>2
    <3>4. ASSUME NEW i \in 1 .. Len(ids), NEW j \in 1 .. Len(ids), ids[i] = ids[j] PROVE i = j
      <4>1. /\ i < e => ids[i] = l[i] /\ i \in 1 .. Len(l)
            /\ ~(i < e) => ids[i] = l[i + 1] /\ i + 1 \in 1 .. Len(l)
            /\ j < e => ids[j] = l[j] /\ j \in 1 .. Len(l)
            /\ ~(j < e) => ids[j] = l[j + 1] /\ j + 1 \in 1 .. Len(l)
        BY <1>1, <3>2
      <4>2. CASE i < e
        BY <1>3, <3>4, <4>1, <4>2
      <4>3. CASE ~(i < e)
        BY <1>3, <3>4, <4>1, <4>3
      <4> QED BY <4>2, <4>3
    <3>5. ASSUME NEW r \in 1 .. Len(l), r # e PROVE In(ids, l[r])
      <4>1. CASE r < e
        <5>1. r \in 1 .. Len(ids) /\ ids[r] = l[r]
          BY <1>1, <3>2, <4>1
        <5> QED BY <5>1 DEF In
      <4>2. CASE ~(r < e)
        <5>1. r - 1 \in 1 .. Len(ids) /\ ~(r - 1 < e) /\ (r - 1) + 1 = r
          BY <1>1, <3>2, <3>5, <4>2
        <5>2. ids[r - 1] = l[r]
          BY <3>2, <5>1
        <5> QED BY <5>1, <5>2 DEF In
      <4> QED BY <4>1, <4>2
    <3>6. Len(l) - e >= IdLimit - QueueLimit /\ Len(ids) < IdLimit
      BY <1>1, <1>2, <3>1, <3>2
    <3> QED BY <3>1, <3>2, <3>3, <3>4, <3>5, <3>6
  <2> QED BY <2>1, <2>2, RoomForOne
<1> HIDE DEF ids
<1>5. Remember(s, m) = [queue |-> Append(q, m), ledger |-> t]
  BY <1>4 DEF Remember, Contains, In, ids
<1>6. /\ t \in Seq(Messages) /\ Len(t) = Len(ids) + 1 /\ t[Len(ids) + 1] = m
      /\ \A i \in 1 .. Len(ids) : t[i] = ids[i]
  BY <1>4, AppendProperties
<1>7. Len(ids) \in Nat
  BY <1>4, LenProperties
<1> HIDE DEF t
<1>8. Ordered(Append(q, m), t, Append(o, m))
  <2>1. Len(t) \in 1 .. IdLimit /\ t[Len(t)] = m /\ Len(t) - 1 = Len(ids)
    BY <1>2, <1>4, <1>6, <1>7
  <2>2. \A i \in 1 .. Len(t) - 1 : \E r \in 1 .. Len(l) :
          t[i] = l[r] /\ Len(t) - i <= Len(l) - r + 1
    <3> TAKE i \in 1 .. Len(t) - 1
    <3>1. i \in 1 .. Len(ids) /\ t[i] = ids[i]
      BY <1>6, <2>1
    <3>2. PICK r \in 1 .. Len(l) : ids[i] = l[r] /\ Len(ids) + 1 - i <= Len(l) - r + 1
      BY <1>4, <3>1
    <3> QED BY <1>6, <3>1, <3>2
  <2>3. \A i, j \in 1 .. Len(t) - 1 : t[i] = t[j] => i = j
    BY <1>4, <1>6, <2>1
  <2>4. \A x : In(ids, x) => In(t, x)
    <3> SUFFICES ASSUME NEW i \in 1 .. Len(ids) PROVE In(t, ids[i])
      BY DEF In
    <3>1. i \in 1 .. Len(t) /\ t[i] = ids[i]
      BY <1>6, <1>7
    <3> QED BY <3>1 DEF In
  <2>5. \A r \in 1 .. Len(l) :
          In(t, l[r]) \/ (~ In(q, l[r]) /\ Len(l) - r >= IdLimit - QueueLimit)
    <3> HIDE DEF l, q
    <3> TAKE r \in 1 .. Len(l)
    <3>1. In(ids, l[r]) \/ (~ In(q, l[r]) /\ Len(l) - r >= IdLimit - QueueLimit)
      BY <1>4
    <3> QED BY <2>4, <3>1
  <2> QED BY <1>6, <2>1, <2>2, <2>3, <2>5, OrderedAfter
<1>9. ASSUME NEW x, In(t, x) PROVE In(l, x) \/ x = m
  <2>1. PICK i \in 1 .. Len(t) : t[i] = x
    BY <1>9 DEF In
  <2>2. CASE i = Len(ids) + 1
    BY <1>6, <2>1, <2>2
  <2>3. CASE i # Len(ids) + 1
    <3>1. i \in 1 .. Len(ids) /\ ids[i] = x
      BY <1>6, <1>7, <2>1, <2>3
    <3> QED BY <1>4, <3>1 DEF In
  <2> QED BY <2>2, <2>3
<1>10. Append(q, m) \in Seq(Messages)
  BY <1>1, AppendProperties
<1> QED BY <1>5, <1>6, <1>8, <1>9, <1>10 DEF States
(* What is left of a batch.                                                 *)
LEMMA WithoutKnown ==
  ASSUME NEW S, NEW s \in Seq(S), NEW known
  PROVE  /\ Without(s, known) \in Seq(S)
         /\ \A i \in 1 .. Len(Without(s, known)) : Without(s, known)[i] \notin known
         /\ \A x : In(s, x) /\ x \notin known => In(Without(s, known), x)
         /\ IsInjective(s) => \A i, j \in 1 .. Len(Without(s, known)) :
                                Without(s, known)[i] = Without(s, known)[j] => i = j
<1> DEFINE new == {i \in DOMAIN s : s[i] \notin known}
           c == Cardinality(new)
           t == Without(s, known)
<1>1. /\ Len(s) \in Nat /\ DOMAIN s = 1 .. Len(s)
      /\ \A i \in 1 .. Len(s) : s[i] \in S
  BY InSet
<1>2. new \in SUBSET (1 .. Len(s)) /\ new \in SUBSET Nat
  BY <1>1
<1>3. \A i \in new : s[i] \notin known
  OBVIOUS
<1>4. \A i \in 1 .. Len(s) : s[i] \notin known => i \in new
  BY <1>1
<1>5. t = [k \in 1 .. c |-> s[Ascending(new)[k]]]
  BY DEF Without
<1> HIDE DEF new, t
<1>a. IsFiniteSet(1 .. Len(s))
  BY <1>1, FS_Interval
<1>6. IsFiniteSet(new)
  BY <1>2, <1>a, FS_Subset
<1>7. /\ c \in Nat
      /\ \A i \in 1 .. c : Ascending(new)[i] \in new
      /\ \A m \in new : \E i \in 1 .. c : Ascending(new)[i] = m
      /\ \A i, j \in 1 .. c : i < j => Ascending(new)[i] < Ascending(new)[j]
  BY <1>2, <1>6, AscendingMembers
<1> HIDE DEF c
<1>8. t \in Seq(S) /\ Len(t) = c /\ \A i \in 1 .. c : t[i] = s[Ascending(new)[i]]
  <2>1. t \in [1 .. c -> S]
    BY <1>1, <1>2, <1>5, <1>7
  <2>2. t \in Seq(S)
    BY <1>7, <2>1, SeqDef
  <2>3. Len(t) = c
    BY <1>7, <2>1, <2>2
  <2> QED BY <1>5, <2>2, <2>3
<1>9. \A i \in 1 .. c : t[i] \notin known
  BY <1>3, <1>7, <1>8
<1>10. ASSUME NEW x, In(s, x), x \notin known PROVE In(t, x)
  <2>1. PICK k \in 1 .. Len(s) : s[k] = x
    BY <1>10 DEF In
  <2>2. k \in new
    BY <1>4, <1>10, <2>1
  <2>3. PICK i \in 1 .. c : Ascending(new)[i] = k
    BY <1>7, <2>2
  <2> QED BY <1>8, <2>1, <2>3 DEF In
<1>11. ASSUME IsInjective(s), NEW i \in 1 .. c, NEW j \in 1 .. c, t[i] = t[j] PROVE i = j
  <2>1. /\ Ascending(new)[i] \in DOMAIN s /\ Ascending(new)[j] \in DOMAIN s
        /\ Ascending(new)[i] \in Nat /\ Ascending(new)[j] \in Nat
    BY <1>1, <1>2, <1>7
  <2>2. Ascending(new)[i] = Ascending(new)[j]
    BY <1>8, <1>11, <2>1 DEF IsInjective
  <2>3. ~(i < j) /\ ~(j < i)
    BY <1>7, <2>1, <2>2
  <2> QED BY <1>7, <2>3
<1> QED BY <1>8, <1>9, <1>10, <1>11 DEF t

(* The states of a staging, from base on.                                   *)
Stages(g, base, s, n) ==
  g = [i \in 0 .. n |-> IF i = 0 THEN base ELSE Remember(g[i - 1], s[i])]

(* They exist.                                                              *)
LEMMA StatesExist ==
  ASSUME NEW base, NEW s, NEW n \in Nat
  PROVE  \E g : Stages(g, base, s, n)
<1> DEFINE Good(g, k) == g = [i \in 0 .. k |-> IF i = 0 THEN base ELSE Remember(g[i - 1], s[i])]
           bad == {k \in Nat : ~ \E g : Good(g, k)}
<1>1. SUFFICES ASSUME bad # {} PROVE FALSE
  BY DEF Stages
<1>2. bad \in SUBSET Nat
  OBVIOUS
<1>3. PICK k \in bad : \A j \in bad : k <= j
  BY <1>1, <1>2, LeastMember
<1>4. k \in Nat /\ ~ \E g : Good(g, k)
  OBVIOUS
<1>5. CASE k = 0
  <2> DEFINE g == [i \in 0 .. k |-> base]
  <2>1. \A i \in 0 .. k : i = 0
    BY <1>5
  <2>2. g = [i \in 0 .. k |-> IF i = 0 THEN base ELSE Remember(g[i - 1], s[i])]
    BY <2>1
  <2> QED BY <1>4, <2>2
<1>6. CASE k # 0
  <2>1. k - 1 \in Nat /\ ~(k <= k - 1)
    BY <1>4, <1>6
  <2>2. k - 1 \notin bad
    BY <1>3, <2>1
  <2>3. PICK h : Good(h, k - 1)
    BY <2>1, <2>2
  <2> DEFINE g == [i \in 0 .. k |-> IF i = k THEN Remember(h[k - 1], s[k]) ELSE h[i]]
  <2>4. \A i \in 0 .. k : i # k => i \in 0 .. (k - 1) /\ g[i] = h[i]
    BY <1>4
  <2>5. g[k] = Remember(h[k - 1], s[k]) /\ g[k - 1] = h[k - 1]
    BY <1>4, <2>1, <2>4
  <2>6. /\ DOMAIN h = 0 .. (k - 1)
        /\ \A i \in 0 .. (k - 1) : h[i] = IF i = 0 THEN base ELSE Remember(h[i - 1], s[i])
    <3> DEFINE b == [i \in 0 .. (k - 1) |-> IF i = 0 THEN base ELSE Remember(h[i - 1], s[i])]
    <3>1. h = b
      BY <2>3
    <3>2. DOMAIN b = 0 .. (k - 1) /\ \A i \in 0 .. (k - 1) : b[i] = IF i = 0 THEN base ELSE Remember(h[i - 1], s[i])
      OBVIOUS
    <3> HIDE DEF b
    <3> QED BY <3>1, <3>2
  <2>7. ASSUME NEW i \in 0 .. k
        PROVE  g[i] = IF i = 0 THEN base ELSE Remember(g[i - 1], s[i])
    <3> HIDE DEF g
    <3>1. CASE i = k
      BY <1>6, <2>5, <3>1
    <3>2. CASE i # k
      <4>1. i \in 0 .. (k - 1) /\ g[i] = h[i]
        BY <2>4, <3>2
      <4>2. CASE i = 0
        BY <2>6, <4>1, <4>2
      <4>3. CASE i # 0
        <5>1. i - 1 \in 0 .. k /\ i - 1 # k
          BY <1>4, <4>1, <4>3
        <5>2. g[i - 1] = h[i - 1]
          BY <2>4, <5>1
        <5> QED BY <2>6, <4>1, <4>3, <5>2
      <4> QED BY <4>2, <4>3
    <3> QED BY <3>1, <3>2
  <2>8. \E f : f = g /\ DOMAIN f = 0 .. k /\ f = [i \in 0 .. k |-> f[i]]
    OBVIOUS
  <2> HIDE DEF g
  <2>9. g = [i \in 0 .. k |-> IF i = 0 THEN base ELSE Remember(g[i - 1], s[i])]
    BY <2>7, <2>8
  <2> QED BY <1>4, <2>9
<1> QED BY <1>5, <1>6
(* The messages of a request staged one after the other.                    *)
LEMMA OrderedStaged ==
  ASSUME NEW q, NEW l, NEW o, Ordered(q, l, o), q = queue, l = ledger,
         NEW s \in Seq(Messages), Len(q) + Len(s) <= QueueLimit,
         \A i, j \in 1 .. Len(s) : s[i] = s[j] => i = j,
         \A i \in 1 .. Len(s) : ~ In(l, s[i])
  PROVE  Staged(s) \in States /\ Ordered(Staged(s).queue, Staged(s).ledger, o \o s)
<1> DEFINE base == [queue |-> q, ledger |-> l]
           n == Len(s)
           f == CHOOSE g : Stages(g, base, s, n)
<1>1. /\ q \in Seq(Messages) /\ l \in Seq(Messages) /\ o \in Seq(Messages)
      /\ Len(q) \in Nat /\ Len(l) \in Nat /\ Len(o) \in Nat /\ n \in Nat
      /\ \A i \in 1 .. n : s[i] \in Messages
  <2>1. q \in Seq(Messages) /\ l \in Seq(Messages) /\ o \in Seq(Messages)
    BY DEF Ordered
  <2> QED BY <2>1, LenProperties, ElementOfSeq
<1>2. Staged(s) = f[n]
  BY DEF Staged, Stages
<1> HIDE DEF base
<1>3. \E g : Stages(g, base, s, n)
  BY <1>1, StatesExist
<1>4. Stages(f, base, s, n)
  BY <1>3
<1> HIDE DEF f
<1>5. f[0] = base /\ \A i \in 1 .. n : f[i] = Remember(f[i - 1], s[i])
  <2> DEFINE b == [i \in 0 .. n |-> IF i = 0 THEN base ELSE Remember(f[i - 1], s[i])]
  <2>1. f = b
    BY <1>4 DEF Stages
  <2>2. b[0] = base /\ \A i \in 1 .. n : b[i] = Remember(f[i - 1], s[i])
    BY <1>1
  <2> HIDE DEF b
  <2> QED BY <2>1, <2>2
<1> HIDE DEF n
<1> DEFINE past(i) == o \o SubSeq(s, 1, i)
           J(i) == /\ f[i] \in States
                   /\ Len(f[i].queue) = Len(q) + i
                   /\ Ordered(f[i].queue, f[i].ledger, past(i))
                   /\ \A x : In(f[i].ledger, x) => In(l, x) \/ \E j \in 1 .. i : s[j] = x
           bad == {i \in 0 .. n : ~ J(i)}
<1>6. J(0)
  <2>1. SubSeq(s, 1, 0) = <<>>
    BY SubSeqEmpty
  <2>2. past(0) = o
    BY <1>1, <2>1, ConcatEmptySeq
  <2>3. f[0] = base /\ base \in States /\ base.queue = q /\ base.ledger = l
    BY <1>1, <1>5 DEF States, base
  <2> HIDE DEF past
  <2> QED BY <1>1, <2>2, <2>3
<1>7. ASSUME NEW i \in 0 .. n, i # 0, J(i - 1) PROVE J(i)
  <2>1. i \in 1 .. n /\ i - 1 \in Nat /\ s[i] \in Messages
    BY <1>1, <1>7
  <2>2. past(i) = Append(past(i - 1), s[i]) /\ past(i - 1) \in Seq(Messages)
    <3> DEFINE u == SubSeq(s, 1, i - 1)
    <3>1. SubSeq(s, 1, i) = SubSeq(s, 1, i - 1) \o <<s[i]>>
      <4>1. 1 \in 1 .. Len(s) /\ i \in 1 .. Len(s)
        BY <1>1, <2>1 DEF n
      <4> QED BY <4>1, SubSeqRecursiveSecond
    <3>2. u \in Seq(Messages)
      <4>1. \A j \in 1 .. (i - 1) : s[j] \in Messages
        BY <1>1, <2>1
      <4> QED BY <2>1, <4>1, SubSeqProperties
    <3> HIDE DEF u
    <3>3. o \o u \in Seq(Messages) /\ <<s[i]>> \in Seq(Messages)
      BY <1>1, <2>1, <3>2, ConcatProperties
    <3>4. (o \o u) \o <<s[i]>> = o \o (u \o <<s[i]>>)
      <4>1. PICK w \in Seq(Messages) : w = <<s[i]>>
        BY <3>3
      <4>2. (o \o u) \o w = o \o (u \o w)
        <5>1. o \in Seq(Messages)
          BY <1>1
        <5> QED BY <3>2, <4>1, <5>1, ConcatAssociative
      <4> QED BY <4>1, <4>2
    <3>5. Append(o \o u, s[i]) = (o \o u) \o <<s[i]>>
      BY <2>1, <3>3, AppendIsConcat
    <3> QED BY <3>1, <3>3, <3>4, <3>5 DEF u
  <2> DEFINE t == f[i - 1]
             v == past(i - 1)
  <2>3. /\ t \in States /\ Len(t.queue) = Len(q) + (i - 1)
        /\ Ordered(t.queue, t.ledger, v)
        /\ \A x : In(t.ledger, x) => In(l, x) \/ \E j \in 1 .. (i - 1) : s[j] = x
    BY <1>7
  <2>4. f[i] = Remember(t, s[i])
    BY <1>5, <2>1
  <2>5. past(i) = Append(v, s[i])
    BY <2>2
  <2> HIDE DEF t, v, past
  <2>6. Len(t.queue) < QueueLimit
    <3>1. QueueLimit \in Nat
      BY WhatsAppAssumption
    <3>2. Len(q) + n <= QueueLimit
      BY DEF n
    <3> QED BY <1>1, <2>1, <2>3, <3>1, <3>2
  <2>7. ~ In(t.ledger, s[i])
    <3>1. ~ In(l, s[i])
      BY <2>1 DEF n
    <3>2. \A j \in 1 .. (i - 1) : j \in 1 .. n /\ j # i
      BY <1>1, <2>1
    <3>3. \A j \in 1 .. (i - 1) : s[j] # s[i]
      BY <2>1, <3>2 DEF n
    <3> QED BY <2>3, <3>1, <3>3
  <2>8. /\ f[i] \in States
        /\ f[i].queue = Append(t.queue, s[i])
        /\ Ordered(f[i].queue, f[i].ledger, past(i))
        /\ \A x : In(f[i].ledger, x) => In(t.ledger, x) \/ x = s[i]
    <3>1. LET d == Remember(t, s[i])
          IN /\ d \in States
             /\ d.queue = Append(t.queue, s[i])
             /\ Ordered(d.queue, d.ledger, Append(v, s[i]))
             /\ \A x : In(d.ledger, x) => In(t.ledger, x) \/ x = s[i]
      BY <2>1, <2>3, <2>6, <2>7, OrderedRemember
    <3> QED BY <2>4, <2>5, <3>1
  <2>9. Len(f[i].queue) = Len(q) + i
    <3>1. t.queue \in Seq(Messages)
      BY <2>3 DEF States
    <3>2. Len(Append(t.queue, s[i])) = Len(t.queue) + 1
      BY <2>1, <3>1, AppendProperties
    <3> QED BY <1>1, <2>1, <2>3, <2>8, <3>2
  <2>10. \A x : In(f[i].ledger, x) => In(l, x) \/ \E j \in 1 .. i : s[j] = x
    <3>1. \A j \in 1 .. (i - 1) : j \in 1 .. i
      BY <2>1
    <3>2. i \in 1 .. i
      BY <2>1
    <3> QED BY <2>3, <2>8, <3>1, <3>2
  <2> QED BY <2>8, <2>9, <2>10
<1> HIDE DEF J
<1>8. bad = {}
  <2> SUFFICES ASSUME bad # {} PROVE FALSE
    OBVIOUS
  <2>1. bad \in SUBSET Nat
    BY <1>1
  <2>2. PICK k \in bad : \A j \in bad : k <= j
    BY <2>1, LeastMember
  <2>3. k \in 0 .. n /\ ~ J(k)
    OBVIOUS
  <2>4. k # 0
    BY <1>6, <2>3
  <2>5. k - 1 \in 0 .. n /\ ~(k <= k - 1)
    BY <1>1, <2>3, <2>4
  <2>6. J(k - 1)
    BY <2>2, <2>5
  <2> QED BY <1>7, <2>3, <2>4, <2>6
<1>9. J(n)
  BY <1>1, <1>8
<1>10. past(n) = o \o s
  BY SubSeqFull DEF n
<1> HIDE DEF past
<1> QED BY <1>2, <1>9, <1>10 DEF J

LEMMA WhatsAppTyped == WhatsAppInit => WhatsAppInv
<1> SUFFICES ASSUME WhatsAppInit PROVE WhatsAppInv
  OBVIOUS
<1>1. QueueLimit \in Nat /\ IdLimit \in Nat
  BY WhatsAppAssumption
<1>2. queue = <<>> /\ ledger = <<>> /\ order = <<>> /\ meta = Messages
  BY DEF WhatsAppInit
<1>3. Ordered(<<>>, <<>>, <<>>)
  BY <1>1 DEF Ordered, In
<1> QED BY <1>2, <1>3 DEF WhatsAppInv

(* Each request of Meta and each answer of the daemon keeps it so.          *)
LEMMA WhatsAppStep == WhatsAppInv /\ [WhatsAppNext]_whatsapp => WhatsAppInv'
<1> SUFFICES ASSUME WhatsAppInv, [WhatsAppNext]_whatsapp PROVE WhatsAppInv'
  OBVIOUS
<1>0. Ordered(queue, ledger, order) /\ meta \subseteq Messages /\ Messages \ meta \subseteq ToSet(order)
  BY DEF WhatsAppInv
<1>a. queue \in Seq(Messages) /\ ledger \in Seq(Messages) /\ order \in Seq(Messages)
  BY <1>0 DEF Ordered
<1>1. CASE Deliver
  <2>0. PICK n \in 1 .. BatchSize : \E batch \in [1 .. n -> meta] :
          /\ IsInjective(batch)
          /\ Len(queue) + Len(Fresh(batch)) <= QueueLimit
          /\ queue' = Staged(Fresh(batch)).queue /\ ledger' = Staged(Fresh(batch)).ledger
          /\ order' = order \o Fresh(batch)
          /\ meta' = meta \ ToSet(batch) \/ meta' = meta
    BY <1>1 DEF Deliver
  <2>1. PICK batch \in [1 .. n -> meta] :
          /\ IsInjective(batch)
          /\ Len(queue) + Len(Fresh(batch)) <= QueueLimit
          /\ queue' = Staged(Fresh(batch)).queue /\ ledger' = Staged(Fresh(batch)).ledger
          /\ order' = order \o Fresh(batch)
          /\ meta' = meta \ ToSet(batch) \/ meta' = meta
    BY <2>0
  <2> DEFINE known == ToSet(ledger) \cup ToSet(queue)
             s == Fresh(batch)
  <2>2. batch \in Seq(Messages)
    <3>1. n \in Nat /\ batch \in [1 .. n -> Messages]
      BY <1>0, WhatsAppAssumption
    <3> QED BY <3>1, SeqDef
  <2>3. s = Without(batch, known)
    BY DEF Fresh
  <2> HIDE DEF s, known
  <2>4. /\ s \in Seq(Messages)
        /\ \A i \in 1 .. Len(s) : s[i] \notin known
        /\ \A x : In(batch, x) /\ x \notin known => In(s, x)
        /\ \A i, j \in 1 .. Len(s) : s[i] = s[j] => i = j
    BY <2>1, <2>2, <2>3, WithoutKnown
  <2>5. \A i \in 1 .. Len(s) : ~ In(ledger, s[i])
    BY <1>a, <2>4, InSet DEF known
  <2>6. Staged(s) \in States /\ Ordered(Staged(s).queue, Staged(s).ledger, order \o s)
    BY <1>0, <2>1, <2>4, <2>5, OrderedStaged DEF s
  <2>7. Ordered(queue', ledger', order')
    BY <2>1, <2>6 DEF s
  <2>8. order \o s \in Seq(Messages) /\ \A x : In(order, x) \/ In(s, x) => In(order \o s, x)
    <3>1. /\ order \o s \in Seq(Messages) /\ Len(order \o s) = Len(order) + Len(s)
          /\ \A i \in 1 .. Len(order) + Len(s) :
               (order \o s)[i] = IF i <= Len(order) THEN order[i] ELSE s[i - Len(order)]
          /\ Len(order) \in Nat /\ Len(s) \in Nat
      BY <1>a, <2>4, ConcatProperties, LenProperties
    <3>2. ASSUME NEW i \in 1 .. Len(order) PROVE In(order \o s, order[i])
      <4>1. i \in 1 .. Len(order \o s) /\ (order \o s)[i] = order[i]
        BY <3>1
      <4> QED BY <4>1 DEF In
    <3>3. ASSUME NEW i \in 1 .. Len(s) PROVE In(order \o s, s[i])
      <4>1. Len(order) + i \in 1 .. Len(order \o s) /\ (order \o s)[Len(order) + i] = s[i]
        BY <3>1
      <4> QED BY <4>1 DEF In
    <3> QED BY <3>1, <3>2, <3>3 DEF In
  <2>9. ASSUME NEW x \in known PROVE In(order, x)
    <3>1. In(ledger, x) \/ In(queue, x)
      BY <1>a, <2>9, InSet DEF known
    <3>2. In(ledger, x)
      BY <1>0, <3>1 DEF Ordered, In
    <3> QED BY <1>0, <3>2 DEF Ordered, In
  <2>10. ASSUME NEW x \in Messages \ meta' PROVE x \in ToSet(order')
    <3>1. x \in ToSet(order) \/ x \in ToSet(batch)
      BY <1>0, <2>1, <2>10
    <3>2. In(order, x) \/ In(batch, x)
      BY <1>a, <2>2, <3>1, InSet
    <3>3. In(order \o s, x)
      BY <2>4, <2>8, <2>9, <3>2
    <3> QED BY <2>1, <2>8, <3>3, InSet DEF s
  <2>11. meta' \subseteq Messages
    BY <1>0, <2>1
  <2> QED BY <2>7, <2>10, <2>11 DEF WhatsAppInv
<1>2. CASE RemoveAcknowledged
  <2>1. PICK e \in DOMAIN queue : queue' = RemoveAt(queue, e)
    BY <1>2 DEF RemoveAcknowledged
  <2>2. UNCHANGED <<meta, ledger, order>>
    BY <1>2 DEF RemoveAcknowledged
  <2>3. DOMAIN queue = 1 .. Len(queue) /\ Len(queue) \in Nat
    BY <1>a, LenProperties
  <2>4. /\ queue' \in Seq(Messages) /\ Len(queue') = Len(queue) - 1
        /\ \A i \in 1 .. Len(queue) - 1 : queue'[i] = IF i < e THEN queue[i] ELSE queue[i + 1]
    BY <1>a, <2>1, <2>3, RemoveAtShape
  <2>5. Len(queue') <= QueueLimit
    <3>1. Len(queue) <= QueueLimit /\ QueueLimit \in Nat
      BY <1>0, WhatsAppAssumption DEF Ordered
    <3> QED BY <2>3, <2>4, <3>1
  <2>6. ASSUME NEW i \in 1 .. Len(queue') PROVE In(ledger, queue'[i])
    <3>1. i \in 1 .. Len(queue) /\ i + 1 \in 1 .. Len(queue) /\ queue'[i] \in {queue[i], queue[i + 1]}
      BY <2>3, <2>4
    <3> QED BY <1>0, <3>1 DEF Ordered
  <2>7. Ordered(queue', ledger, order)
    BY <1>0, <2>4, <2>5, <2>6 DEF Ordered
  <2> QED BY <1>0, <2>2, <2>7 DEF WhatsAppInv
<1>3. CASE UNCHANGED whatsapp
  BY <1>0, <1>3 DEF whatsapp, WhatsAppInv
<1> QED BY <1>1, <1>2, <1>3 DEF WhatsAppNext

LEMMA WhatsAppKeeps == WhatsAppInv => QueuedOnce
<1> SUFFICES ASSUME WhatsAppInv PROVE QueuedOnce
  OBVIOUS
<1>1. Ordered(queue, ledger, order) /\ order \in Seq(Messages)
  BY DEF WhatsAppInv, Ordered
<1>2. DOMAIN order = 1 .. Len(order)
  BY <1>1, LenProperties
<1> QED BY <1>1, <1>2 DEF WhatsAppInv, QueuedOnce, Ordered

-----------------------------------------------------------------------------
(* The inboxes of the messaging plugins keep the messages: what Slack or    *)
(* Meta lets go of, or what has reached the spool of Signal, is in the      *)
(* inbox, can be read again or was accepted, and what was accepted does not *)
(* come again from a spool or from an early repetition (acknowledge,        *)
(* stage_socket and poll_at of Slack, poll of Signal, Inbox::stage of       *)
(* WhatsApp).                                                               *)
THEOREM InboxesKeepMessages == InboxesSpec => []MessagesKept
<1> DEFINE Inv == SlackInv /\ SignalInv /\ WhatsAppInv
<1>1. InboxesInit => Inv
  BY SlackTyped, SignalTyped, WhatsAppTyped DEF InboxesInit
<1>2. Inv /\ [InboxesNext]_inboxes => Inv'
  <2>1. [InboxesNext]_inboxes => [SlackNext]_slack /\ [SignalNext]_signal /\ [WhatsAppNext]_whatsapp
    BY DEF InboxesNext, inboxes
  <2> QED BY <2>1, SlackStep, SignalStep, WhatsAppStep
<1>3. Inv => MessagesKept
  BY SlackKeeps, WhatsAppKeeps DEF MessagesKept, SignalInv
<1> QED BY <1>1, <1>2, <1>3, PTL DEF InboxesSpec

-----------------------------------------------------------------------------
(* The Discord plugin and Discord's gateway.                                *)

Dispatch == [message : Nat, kind : Kinds \union {"ready"}]

Events == [sequence : Nat, message : Nat, kind : {"message", "press"}]

(* What holds however much goes wrong.                                      *)
GatewayTypes ==
  /\ log \in Seq(Dispatch) /\ session \in Nat /\ issued \in Nat
  /\ wire = Closed \/ wire \in [session : Nat, read : Nat]
  /\ gateway \in [sequence : Nat, session_id : Nat, pending : Events \union {Nothing}, from_queue : BOOLEAN]
  /\ poll \in [on : BOOLEAN, sequence : Nat, session_id : Nat]
  /\ cursor \in [sequence : Nat, session_id : Nat]
  /\ dispatches \in Seq(Events) /\ answer \in Seq(Events) /\ committed \in SUBSET Nat
  /\ bridge \in {"idle", "handling", "acking"}
  /\ left \in [sessions : Nat, losses : Nat, fails : Nat, kills : Nat]
  /\ poll.on => bridge = "idle" /\ wire # Closed
  /\ bridge = "idle" <=> answer = <<>>
  /\ gateway.from_queue => EventPending /\ dispatches # <<>> /\ Head(dispatches) = gateway.pending

LEMMA MayLess ==
  ASSUME left \in [sessions : Nat, losses : Nat, fails : Nat, kills : Nat],
         NEW f \in {"losses", "fails", "kills"}, May(f)
  PROVE  /\ left' \in [sessions : Nat, losses : Nat, fails : Nat, kills : Nat]
         /\ left'.sessions = left.sessions /\ left[f] > 0
         /\ left'.losses <= left.losses /\ left'.fails <= left.fails /\ left'.kills <= left.kills
BY DEF May

LEMMA GatewayTyped == DiscordInit => GatewayTypes
<1> SUFFICES ASSUME DiscordInit PROVE GatewayTypes
  OBVIOUS
<1>1. left \in [sessions : Nat, losses : Nat, fails : Nat, kills : Nat]
  BY DiscordAssumption DEF DiscordInit
<1> QED BY <1>1 DEF DiscordInit, GatewayTypes, Closed, NoPoll, Cursor, LoadedState, Nothing, Events

(* The end of a poll, and what it makes of the state of the plugin.         *)
LEMMA ReturnedTyped ==
  ASSUME GatewayTypes, NEW events \in Seq(Events), Returned(events), bridge = "idle"
  PROVE  /\ answer' \in Seq(Events) /\ bridge' \in {"idle", "handling", "acking"}
         /\ bridge' = "idle" <=> answer' = <<>>
         /\ left' \in [sessions : Nat, losses : Nat, fails : Nat, kills : Nat]
<1>1. CASE answer' = events /\ bridge' = (IF events = <<>> THEN "idle" ELSE "handling") /\ UNCHANGED left
  BY <1>1 DEF GatewayTypes
<1>2. CASE events # <<>> /\ May("losses") /\ UNCHANGED <<answer, bridge>>
  <2>1. left' \in [sessions : Nat, losses : Nat, fails : Nat, kills : Nat]
    BY <1>2, MayLess DEF GatewayTypes
  <2> QED BY <1>2, <2>1 DEF GatewayTypes
<1> QED BY <1>1, <1>2 DEF Returned

LEMMA ReloadedTyped ==
  ASSUME cursor' \in [sequence : Nat, session_id : Nat], Reloaded
  PROVE  /\ gateway' \in [sequence : Nat, session_id : Nat, pending : Events \union {Nothing}, from_queue : BOOLEAN]
         /\ gateway' = [sequence |-> cursor'.sequence, session_id |-> cursor'.session_id,
                        pending |-> Nothing, from_queue |-> FALSE]
         /\ wire' = Closed /\ poll' = NoPoll
         /\ poll' \in [on : BOOLEAN, sequence : Nat, session_id : Nat] /\ ~ poll'.on
BY DEF Reloaded, LoadedState, NoPoll, Nothing, Events

LEMMA FailedTyped ==
  ASSUME cursor' \in [sequence : Nat, session_id : Nat],
         NEW state \in [sequence : Nat, session_id : Nat, pending : Events \union {Nothing}, from_queue : BOOLEAN],
         PollFailed(state)
  PROVE  /\ gateway' \in [sequence : Nat, session_id : Nat, pending : Events \union {Nothing}, from_queue : BOOLEAN]
         /\ wire' = Closed
         /\ poll' \in [on : BOOLEAN, sequence : Nat, session_id : Nat] /\ ~ poll'.on
         /\ gateway'.from_queue => gateway' = state
<1>1. CASE Reloaded
  BY <1>1, ReloadedTyped
<1>2. CASE gateway' = state /\ wire' = Closed /\ poll' = NoPoll
  BY <1>2 DEF NoPoll
<1> QED BY <1>1, <1>2 DEF PollFailed

LEMMA DoneTyped ==
  ASSUME GatewayTypes, poll.on,
         NEW n \in Nat, NEW pending \in Events \union {Nothing},
         NEW socket \in {Closed} \union [session : Nat, read : Nat],
         NEW events \in Seq(Events), PollDone(n, pending, socket, events),
         UNCHANGED <<service, committed>>, dispatches' \in Seq(Events),
         gateway.from_queue => /\ pending = gateway.pending
                               /\ dispatches' # <<>> /\ Head(dispatches') = Head(dispatches)
  PROVE  GatewayTypes'
<1>1. bridge = "idle"
  BY DEF GatewayTypes
<1> DEFINE state == [gateway EXCEPT !.sequence = n, !.session_id = poll.session_id, !.pending = pending]
<1>2. state \in [sequence : Nat, session_id : Nat, pending : Events \union {Nothing}, from_queue : BOOLEAN]
  BY DEF GatewayTypes
<1>5. /\ state.from_queue = gateway.from_queue /\ state.pending = pending
      /\ gateway.from_queue => gateway.pending # Nothing /\ Head(dispatches) = gateway.pending
  BY DEF GatewayTypes, EventPending
<1>3. CASE /\ cursor' = Cursor(n, poll.session_id)
           /\ gateway' = state /\ wire' = socket /\ poll' = NoPoll
           /\ Returned(events)
  <2>1. /\ answer' \in Seq(Events) /\ bridge' \in {"idle", "handling", "acking"}
        /\ bridge' = "idle" <=> answer' = <<>>
        /\ left' \in [sessions : Nat, losses : Nat, fails : Nat, kills : Nat]
    BY <1>1, <1>3, ReturnedTyped
  <2> HIDE DEF state
  <2>2. gateway'.from_queue => EventPending' /\ dispatches' # <<>> /\ Head(dispatches') = gateway'.pending
    BY <1>3, <1>5 DEF EventPending
  <2> QED BY <1>2, <1>3, <2>1, <2>2 DEF GatewayTypes, service, Cursor, NoPoll
<1>4. CASE /\ May("fails")
           /\ UNCHANGED <<cursor, bridge, answer>>
           /\ PollFailed(state)
  <2>1. left' \in [sessions : Nat, losses : Nat, fails : Nat, kills : Nat]
    BY <1>4, MayLess DEF GatewayTypes
  <2>2. /\ gateway' \in [sequence : Nat, session_id : Nat, pending : Events \union {Nothing}, from_queue : BOOLEAN]
        /\ wire' = Closed
        /\ poll' \in [on : BOOLEAN, sequence : Nat, session_id : Nat] /\ ~ poll'.on
        /\ gateway'.from_queue => gateway' = state
    <3> HIDE DEF state
    <3> QED BY <1>2, <1>4, FailedTyped DEF GatewayTypes
  <2>3. gateway'.from_queue => EventPending' /\ dispatches' # <<>> /\ Head(dispatches') = gateway'.pending
    <3> HIDE DEF state
    <3> QED BY <1>5, <2>2 DEF EventPending
  <2> QED BY <1>4, <2>1, <2>2, <2>3 DEF GatewayTypes, service
<1> QED BY <1>3, <1>4 DEF PollDone

LEMMA StagedTyped ==
  ASSUME GatewayTypes, poll.on, NEW kinds \in SUBSET {"message", "press"}, Read(kinds)
  PROVE  /\ wire \in [session : Nat, read : Nat] /\ wire.session = session
         /\ wire.read + 1 \in 1 .. Len(log)
         /\ Further \in [session : Nat, read : Nat]
         /\ Further = [session |-> wire.session, read |-> wire.read + 1]
         /\ StagedEvent \in Events
         /\ StagedEvent = [sequence |-> wire.read + 1, message |-> log[wire.read + 1].message,
                           kind |-> log[wire.read + 1].kind]
         /\ log[wire.read + 1].kind \in kinds
<1>1. wire \in [session : Nat, read : Nat] /\ wire.session = session /\ wire.read + 1 \in 1 .. Len(log)
  BY DEF GatewayTypes, Read, Known
<1>2. log[wire.read + 1] \in Dispatch /\ log[wire.read + 1].kind \in kinds
  BY <1>1 DEF GatewayTypes, Read
<1> QED BY <1>1, <1>2 DEF Further, StagedEvent, Events, Dispatch

LEMMA FrontKept ==
  ASSUME NEW S, NEW s \in Seq(S), s # <<>>
  PROVE  /\ Len(s) \in Nat /\ Len(s) > 0 /\ s[1] \in S /\ Head(s) = s[1]
         /\ Tail(s) \in Seq(S) /\ Len(Tail(s)) = Len(s) - 1
         /\ Tail(s) = <<>> <=> ~ (Len(s) > 1)
         /\ \A k \in 1 .. Len(Tail(s)) : Tail(s)[k] = s[k + 1]
<1>1. Len(s) \in Nat /\ Len(s) > 0 /\ s[1] \in S /\ Head(s) = s[1]
  OBVIOUS
<1>2. Tail(s) \in Seq(S) /\ Len(Tail(s)) = Len(s) - 1
  BY <1>1
<1>3. ASSUME NEW u \in Seq(S) PROVE u = <<>> <=> Len(u) = 0
  OBVIOUS
<1>4. Tail(s) = <<>> <=> Len(Tail(s)) = 0
  BY <1>2, <1>3
<1> QED BY <1>1, <1>2, <1>4

LEMMA AnswerKept ==
  ASSUME GatewayTypes, bridge # "idle"
  PROVE  /\ Len(answer) \in Nat /\ Len(answer) > 0 /\ answer[1] \in Events /\ Head(answer) = answer[1]
         /\ Tail(answer) \in Seq(Events) /\ Len(Tail(answer)) = Len(answer) - 1
         /\ Tail(answer) = <<>> <=> ~ (Len(answer) > 1)
         /\ \A k \in 1 .. Len(Tail(answer)) : Tail(answer)[k] = answer[k + 1]
<1>1. answer \in Seq(Events) /\ answer # <<>>
  BY DEF GatewayTypes
<1> QED BY <1>1, FrontKept

LEMMA QueueKept ==
  ASSUME GatewayTypes, dispatches # <<>>
  PROVE  /\ Len(dispatches) \in Nat /\ Len(dispatches) > 0 /\ dispatches[1] \in Events
         /\ Head(dispatches) = dispatches[1] /\ Tail(dispatches) \in Seq(Events)
         /\ Len(Tail(dispatches)) = Len(dispatches) - 1
         /\ \A k \in 1 .. Len(Tail(dispatches)) : Tail(dispatches)[k] = dispatches[k + 1]
<1>1. dispatches \in Seq(Events)
  BY DEF GatewayTypes
<1> QED BY <1>1, FrontKept

(* Each step keeps the types.                                               *)
LEMMA GatewayStep == GatewayTypes /\ [DiscordNext]_discord => GatewayTypes'
<1> SUFFICES ASSUME GatewayTypes, [DiscordNext]_discord PROVE GatewayTypes'
  OBVIOUS
<1> DEFINE Lefts == [sessions : Nat, losses : Nat, fails : Nat, kills : Nat]
           Gateways == [sequence : Nat, session_id : Nat, pending : Events \union {Nothing}, from_queue : BOOLEAN]
           Places == [sequence : Nat, session_id : Nat]
           Sockets == {Closed} \union [session : Nat, read : Nat]
<1>t. /\ log \in Seq(Dispatch) /\ session \in Nat /\ issued \in Nat
      /\ wire \in Sockets /\ gateway \in Gateways
      /\ cursor \in Places /\ dispatches \in Seq(Events) /\ answer \in Seq(Events)
      /\ poll \in [on : BOOLEAN, sequence : Nat, session_id : Nat]
      /\ left \in Lefts
  BY DEF GatewayTypes
<1>p. /\ gateway.pending \in Events \union {Nothing} /\ (EventPending => gateway.pending \in Events)
      /\ gateway.sequence \in Nat /\ gateway.session_id \in Nat
  BY <1>t DEF EventPending
<1>1. ASSUME NEW kind \in Kinds, Sent(kind) PROVE GatewayTypes'
  <2>1. [message |-> issued + 1, kind |-> kind] \in Dispatch
    BY <1>t DEF Dispatch
  <2>2. log' \in Seq(Dispatch) /\ issued' \in Nat
    BY <1>1, <1>t, <2>1 DEF Sent
  <2> QED BY <1>1, <2>2 DEF GatewayTypes, EventPending, Sent
<1>2. CASE SessionForgotten
  <2>1. log' \in Seq(Dispatch)
    BY <1>2 DEF SessionForgotten
  <2> QED BY <1>2, <2>1 DEF GatewayTypes, EventPending, SessionForgotten
<1>3. CASE PollQueued
  <2>1. dispatches # <<>> /\ bridge = "idle"
    BY <1>3 DEF PollQueued, ServesQueue
  <2>2. Head(dispatches) \in Events /\ <<Head(dispatches)>> \in Seq(Events)
    BY <2>1, <1>t, QueueKept
  <2>3. /\ answer' \in Seq(Events) /\ bridge' \in {"idle", "handling", "acking"}
        /\ bridge' = "idle" <=> answer' = <<>>
        /\ left' \in Lefts
    BY <1>3, <2>1, <2>2, ReturnedTyped DEF PollQueued
  <2>4. gateway' \in Gateways /\ cursor' \in Places
    BY <1>3, <1>t, <2>2 DEF PollQueued, Cursor
  <2>6. EventPending' /\ Head(dispatches') = gateway'.pending
    <3>1. Head(dispatches).kind # "none"
      BY <2>2 DEF Events
    <3> QED BY <1>3, <1>t, <3>1 DEF PollQueued, EventPending, Nothing
  <2> QED BY <1>3, <2>1, <2>3, <2>4, <2>6 DEF GatewayTypes, PollQueued, service
<1>4. CASE PollStarts
  <2>1. poll' \in [on : BOOLEAN, sequence : Nat, session_id : Nat] /\ bridge = "idle"
    BY <1>4, <1>t DEF PollStarts
  <2>2. CASE wire # Closed /\ UNCHANGED <<log, session, wire>>
    BY <1>4, <2>1, <2>2 DEF GatewayTypes, EventPending, PollStarts
  <2>3. CASE /\ session' = session + 1 /\ log' = <<Ready>>
             /\ wire' = [session |-> session', read |-> 0]
    <3>1. Ready \in Dispatch
      BY DEF Ready, Dispatch
    <3>2. log' \in Seq(Dispatch) /\ session' \in Nat /\ wire' \in [session : Nat, read : Nat] /\ wire' # Closed
      BY <1>t, <2>3, <3>1 DEF Closed
    <3> QED BY <1>4, <2>1, <3>2 DEF GatewayTypes, EventPending, PollStarts
  <2>4. CASE /\ wire' = [session |-> gateway.session_id, read |-> gateway.sequence]
             /\ UNCHANGED <<log, session>>
    <3>1. wire' \in [session : Nat, read : Nat] /\ wire' # Closed
      BY <1>p, <2>4 DEF Closed
    <3> QED BY <1>4, <2>1, <2>4, <3>1 DEF GatewayTypes, EventPending, PollStarts
  <2> QED BY <1>4, <2>2, <2>3, <2>4 DEF PollStarts
<1>r. ASSUME poll.on, wire.read < Len(log), Known
      PROVE  /\ wire \in [session : Nat, read : Nat] /\ Further \in [session : Nat, read : Nat]
             /\ Further # Closed /\ bridge = "idle"
  <2>1. wire \in [session : Nat, read : Nat] /\ bridge = "idle"
    BY <1>r DEF GatewayTypes
  <2> QED BY <2>1 DEF Further, Closed
<1>5. CASE ReadReady
  <2>1. /\ wire \in [session : Nat, read : Nat] /\ Further \in [session : Nat, read : Nat]
        /\ Further # Closed /\ bridge = "idle"
    BY <1>5, <1>r DEF ReadReady, Read
  <2>2. poll' \in [on : BOOLEAN, sequence : Nat, session_id : Nat] /\ cursor' \in Places
    <3>1. wire.read + 1 \in Nat /\ wire.session \in Nat
      BY <2>1
    <3> QED BY <1>5, <1>t, <1>p, <3>1 DEF ReadReady, Cursor
  <2> QED BY <1>5, <2>1, <2>2 DEF GatewayTypes, EventPending, ReadReady, service
<1>6. CASE ReadOtherDispatch
  <2>1. /\ wire \in [session : Nat, read : Nat] /\ Further \in [session : Nat, read : Nat]
        /\ Further # Closed /\ bridge = "idle"
    BY <1>6, <1>r DEF ReadOtherDispatch, Read
  <2>2. poll' \in [on : BOOLEAN, sequence : Nat, session_id : Nat]
    <3>1. wire.read + 1 \in Nat
      BY <2>1
    <3> QED BY <1>6, <1>t, <3>1 DEF ReadOtherDispatch
  <2> QED BY <1>6, <2>1, <2>2 DEF GatewayTypes, EventPending, ReadOtherDispatch, service
<1>7. CASE ReadEvent
  <2>1. StagedEvent \in Events /\ Further \in Sockets /\ poll.on
    BY <1>7, StagedTyped DEF ReadEvent, Read
  <2>3. <<StagedEvent>> \in Seq(Events)
    BY <2>1
  <2>2. dispatches' \in Seq(Events)
    BY <1>7, <1>t DEF ReadEvent
  <2>4. ~ gateway.from_queue
    BY <1>7 DEF ReadEvent, GatewayTypes
  <2> QED BY <1>7, <1>p, <2>1, <2>2, <2>3, <2>4, DoneTyped DEF ReadEvent
<1>8. CASE ReadAwaiting
  <2>1. StagedEvent \in Events /\ Further \in Sockets /\ Closed \in Sockets /\ poll.on
    BY <1>8, StagedTyped DEF ReadAwaiting, Read
  <2>2. dispatches' \in Seq(Events)
    <3>1. Append(dispatches, StagedEvent) \in Seq(Events)
      BY <1>t, <2>1
    <3>2. dispatches' \in {dispatches, Append(dispatches, StagedEvent)}
      BY <1>8 DEF ReadAwaiting
    <3> QED BY <1>t, <3>1, <3>2
  <2>3. gateway.pending \in Events /\ <<gateway.pending>> \in Seq(Events)
    BY <1>8, <1>p DEF ReadAwaiting
  <2>4. \E socket \in Sockets : PollDone(gateway.sequence, gateway.pending, socket, <<gateway.pending>>)
    BY <1>8, <2>1 DEF ReadAwaiting
  <2>5. gateway.from_queue => dispatches' # <<>> /\ Head(dispatches') = Head(dispatches)
    <3>1. CASE dispatches' = dispatches
      BY <3>1 DEF GatewayTypes
    <3>2. CASE dispatches' = Append(dispatches, StagedEvent) /\ gateway.from_queue
      BY <1>t, <2>1, <3>2 DEF GatewayTypes
    <3> QED BY <1>8, <3>1, <3>2 DEF ReadAwaiting
  <2> QED BY <1>8, <1>p, <2>1, <2>2, <2>3, <2>4, <2>5, DoneTyped DEF ReadAwaiting
<1>9. CASE ReadPress
  <2>1. StagedEvent \in Events /\ Further \in Sockets /\ poll.on
    BY <1>9, StagedTyped DEF ReadPress, Read
  <2>2. dispatches' \in Seq(Events)
    BY <1>9, <1>t DEF ReadPress
  <2>3. <<gateway.pending, [StagedEvent EXCEPT !.sequence = 0]>> \in Seq(Events)
    <3>1. gateway.pending \in Events /\ [StagedEvent EXCEPT !.sequence = 0] \in Events
      BY <1>9, <1>p, <2>1 DEF ReadPress, Events
    <3> QED BY <3>1
  <2>4. gateway.from_queue => dispatches' # <<>> /\ Head(dispatches') = Head(dispatches)
    BY <1>9 DEF ReadPress, GatewayTypes
  <2> QED BY <1>9, <1>p, <2>1, <2>2, <2>3, <2>4, DoneTyped DEF ReadPress
<1>10. CASE PollEnds
  <2>1. /\ poll.on /\ poll.sequence \in Nat /\ dispatches' \in Seq(Events)
        /\ UNCHANGED <<service, committed>>
    BY <1>10, <1>t DEF PollEnds
  <2>2. PICK socket \in {wire, Closed} :
         IF EventPending
           THEN PollDone(gateway.sequence, gateway.pending, socket, <<gateway.pending>>)
           ELSE PollDone(poll.sequence, Nothing, socket, <<>>)
    BY <1>10 DEF PollEnds
  <2>3. socket \in Sockets /\ <<>> \in Seq(Events)
    BY <1>t, <2>2
  <2>6. gateway.from_queue => EventPending /\ dispatches' # <<>> /\ Head(dispatches') = Head(dispatches)
    BY <1>10 DEF PollEnds, GatewayTypes
  <2>4. CASE EventPending
    <3>1. gateway.pending \in Events /\ <<gateway.pending>> \in Seq(Events)
      BY <1>p, <2>4
    <3> QED BY <1>p, <3>1, <2>6, <2>1, <2>2, <2>3, <2>4, DoneTyped
  <2>5. CASE ~ EventPending
    BY <1>t, <2>1, <2>2, <2>3, <2>5, <2>6, DoneTyped
  <2> QED BY <2>4, <2>5
<1>f. ASSUME gateway'.from_queue => gateway' = gateway, dispatches' = dispatches
      PROVE  gateway'.from_queue => EventPending' /\ dispatches' # <<>> /\ Head(dispatches') = gateway'.pending
  BY <1>f DEF GatewayTypes, EventPending
<1>11. CASE PollFails
  <2>1. left' \in Lefts
    BY <1>11, <1>t, MayLess DEF PollFails
  <2>2. /\ gateway' \in Gateways /\ wire' = Closed
        /\ poll' \in [on : BOOLEAN, sequence : Nat, session_id : Nat] /\ ~ poll'.on
        /\ gateway'.from_queue => gateway' = gateway
    BY <1>11, <1>t, FailedTyped DEF PollFails
  <2> QED BY <1>11, <1>f, <2>1, <2>2 DEF GatewayTypes, PollFails, service
<1>12. CASE Rejected
  <2>1. cursor' \in Places
    BY <1>12, <1>p DEF Rejected, Cursor
  <2>2. /\ gateway' \in Gateways /\ wire' = Closed
        /\ poll' \in [on : BOOLEAN, sequence : Nat, session_id : Nat] /\ ~ poll'.on
        /\ gateway'.from_queue => gateway' = gateway
    BY <1>12, <1>t, <2>1, FailedTyped DEF Rejected
  <2> QED BY <1>12, <1>f, <2>1, <2>2 DEF GatewayTypes, Rejected, service
<1>d. ASSUME Dealt, bridge # "idle"
      PROVE  /\ answer' \in Seq(Events) /\ bridge' \in {"idle", "handling", "acking"}
             /\ bridge' = "idle" <=> answer' = <<>>
  BY <1>d, AnswerKept DEF Dealt
<1>13. CASE Commit
  <2>1. bridge = "handling" /\ Head(answer) \in Events
    BY <1>13, AnswerKept DEF Commit
  <2>2. committed' \in SUBSET Nat
    BY <1>13, <2>1 DEF GatewayTypes, Commit, Events
  <2>3. CASE Head(answer).sequence # 0
    BY <1>13, <2>1, <2>2, <2>3 DEF GatewayTypes, EventPending, Commit, service
  <2>4. CASE Head(answer).sequence = 0
    BY <1>13, <1>d, <2>1, <2>2, <2>4 DEF GatewayTypes, EventPending, Commit, service
  <2> QED BY <2>3, <2>4
<1>14. CASE Blocked
  <2>1. left' \in Lefts
    BY <1>14, <1>t, MayLess DEF Blocked
  <2> QED BY <1>14, <2>1 DEF GatewayTypes, EventPending, Blocked, service
<1>q. gateway.from_queue => Tail(dispatches) \in Seq(Events)
  BY QueueKept DEF GatewayTypes
<1>15. CASE Ack
  <2>1. bridge = "acking" /\ Head(answer).sequence \in Nat
    BY <1>15, AnswerKept DEF Ack, Events
  <2>2. cursor' \in Places
    BY <1>15, <1>p, <2>1 DEF Ack, Acknowledged, Cursor
  <2>3. CASE gateway.pending.sequence = Head(answer).sequence
    <3>1. gateway' \in Gateways /\ ~ gateway'.from_queue
      BY <1>15, <1>t, <2>1, <2>3 DEF Ack, Acknowledged
    <3>2. dispatches' = IF gateway.from_queue THEN Tail(dispatches) ELSE dispatches
      BY <1>15, <2>3 DEF Ack, Acknowledged
    <3>3. dispatches' \in Seq(Events)
      BY <1>t, <1>q, <3>2
    <3> QED BY <1>15, <1>d, <2>1, <2>2, <3>1, <3>3 DEF GatewayTypes, Ack, service
  <2>4. CASE gateway.pending.sequence # Head(answer).sequence
    <3>1. gateway' = gateway /\ dispatches' = dispatches
      BY <1>15, <2>4 DEF Ack, Acknowledged
    <3> QED BY <1>15, <1>d, <1>f, <2>1, <2>2, <3>1 DEF GatewayTypes, Ack, service
  <2> QED BY <2>3, <2>4
<1>16. CASE AckFails
  <2>1. bridge = "acking" /\ Head(answer).sequence \in Nat
    BY <1>16, AnswerKept DEF AckFails, Events
  <2>2. cursor' \in Places
    BY <1>16, <1>t, <1>p, <2>1 DEF AckFails, Cursor
  <2>3. dispatches' \in Seq(Events)
    <3>1. dispatches' = dispatches \/ (gateway.from_queue /\ dispatches' = Tail(dispatches))
      BY <1>16 DEF AckFails
    <3> QED BY <1>t, <1>q, <3>1
  <2>4. left' \in Lefts
    BY <1>16, <1>t, MayLess DEF AckFails
  <2> QED BY <1>16, <2>1, <2>2, <2>3, <2>4, ReloadedTyped DEF GatewayTypes, AckFails, service
<1>17. CASE Stopped /\ left' \in Lefts
  <2>1. cursor' \in Places /\ answer' \in Seq(Events)
    BY <1>17, <1>t DEF Stopped
  <2> QED BY <1>17, <2>1, ReloadedTyped DEF GatewayTypes, Stopped, service
<1>18. CASE GivenUp
  BY <1>18, <1>17, <1>t DEF GivenUp
<1>19. CASE DaemonKilled
  BY <1>19, <1>17, <1>t, MayLess DEF DaemonKilled
<1>20. CASE PluginKilled
  <2>1. cursor' \in Places /\ left' \in Lefts
    BY <1>20, <1>t, MayLess DEF PluginKilled
  <2> QED BY <1>20, <2>1, ReloadedTyped DEF GatewayTypes, PluginKilled, service
<1>21. CASE UNCHANGED discord
  BY <1>21 DEF GatewayTypes, EventPending, discord
<1> QED BY <1>1, <1>2, <1>3, <1>4, <1>5, <1>6, <1>7, <1>8, <1>9, <1>10, <1>11, <1>12, <1>13, <1>14,
           <1>15, <1>16, <1>18, <1>19, <1>20, <1>21 DEF DiscordNext

(* Discord numbers the dispatches of a session.                             *)
Numbered ==
  /\ log # <<>> => log[1] = Ready /\ issued >= Len(log) - 1
  /\ \A i \in 2 .. Len(log) : log[i].message = issued - Len(log) + i /\ log[i].kind \in Kinds

(* The places of the messages that are not committed.                       *)
Owing == {i \in MessagePlaces : log[i].message \notin committed}

UpTo(owing, n) == \A i \in owing : n < i

(* Whatever the bridge commits next leaves no earlier message behind.       *)
CommitsNext ==
  bridge = "handling" =>
    /\ Head(answer).message <= issued
    /\ \A j \in MessagePlaces : log[j].message = Head(answer).message => \A i \in Owing : j <= i

Listed == Numbered /\ InOrder /\ committed \in SUBSET (0 .. issued)

(* What Discord and the bridge do to the log and to what is committed.      *)
LEMMA LogChanges ==
  ASSUME [DiscordNext]_discord
  PROVE  \/ UNCHANGED <<log, session, issued, committed>>
         \/ \E kind \in Kinds : Sent(kind)
         \/ SessionForgotten
         \/ PollStarts /\ session' = session + 1 /\ log' = <<Ready>>
         \/ Commit
<1>1. CASE PollStarts
  BY <1>1 DEF PollStarts
<1>2. CASE ReadReady \/ ReadOtherDispatch \/ ReadEvent \/ ReadAwaiting \/ ReadPress
  BY <1>2 DEF ReadReady, ReadOtherDispatch, ReadEvent, ReadAwaiting, ReadPress, service
<1>3. CASE PollEnds \/ PollFails \/ Rejected \/ PollQueued
  BY <1>3 DEF PollEnds, PollFails, Rejected, PollQueued, service
<1>4. CASE Blocked \/ Ack \/ AckFails \/ GivenUp \/ DaemonKilled \/ PluginKilled
  BY <1>4 DEF Blocked, Ack, AckFails, GivenUp, DaemonKilled, PluginKilled, Stopped, service
<1>5. CASE UNCHANGED discord
  BY <1>5 DEF discord
<1> QED BY <1>1, <1>2, <1>3, <1>4, <1>5 DEF DiscordNext

LEMMA ListedInit == DiscordInit => Listed
BY DEF DiscordInit, Listed, Numbered, InOrder, MessagePlaces

LEMMA ListedStep == GatewayTypes /\ CommitsNext /\ Listed /\ [DiscordNext]_discord => Listed'
<1> SUFFICES ASSUME GatewayTypes, CommitsNext, Listed, [DiscordNext]_discord PROVE Listed'
  OBVIOUS
<1>0. log \in Seq(Dispatch) /\ issued \in Nat /\ session \in Nat /\ Len(log) \in Nat
  BY DEF GatewayTypes
<1>1. CASE UNCHANGED <<log, session, issued, committed>>
  BY <1>1 DEF Listed, Numbered, InOrder, MessagePlaces
<1>2. ASSUME NEW kind \in Kinds, Sent(kind) PROVE Listed'
  <2> DEFINE e == [message |-> issued + 1, kind |-> kind]
  <2>1. /\ log' = Append(log, e) /\ issued' = issued + 1 /\ committed' = committed /\ log # <<>>
        /\ e \in Dispatch /\ e.message = issued + 1 /\ e.kind \in Kinds
    BY <1>2, <1>0 DEF Sent, Dispatch
  <2> HIDE DEF e
  <2>2. /\ Len(log') = Len(log) + 1 /\ log'[Len(log) + 1] = e
        /\ \A i \in 1 .. Len(log) : log'[i] = log[i]
        /\ Len(log) > 0
    BY <1>0, <2>1
  <2>3. Numbered'
    <3>1. log'[1] = Ready /\ issued' >= Len(log') - 1
      BY <1>0, <2>1, <2>2 DEF Listed, Numbered
    <3>2. ASSUME NEW i \in 2 .. Len(log')
          PROVE  log'[i].message = issued' - Len(log') + i /\ log'[i].kind \in Kinds
      <4>1. CASE i = Len(log) + 1
        BY <1>0, <2>1, <2>2, <4>1
      <4>2. CASE i \in 2 .. Len(log)
        BY <1>0, <2>1, <2>2, <4>2 DEF Listed, Numbered
      <4> QED BY <1>0, <2>2, <4>1, <4>2
    <3> QED BY <3>1, <3>2 DEF Numbered
  <2>4. committed' \in SUBSET (0 .. issued')
    BY <1>0, <2>1 DEF Listed
  <2>5. InOrder'
    <3> SUFFICES ASSUME NEW i \in MessagePlaces', NEW j \in MessagePlaces', i < j, log'[j].message \in committed
                 PROVE  log'[i].message \in committed
      BY <2>1 DEF InOrder
    <3>1. i \in 1 .. Len(log) + 1 /\ j \in 1 .. Len(log) + 1
      BY <2>2 DEF MessagePlaces
    <3>2. issued + 1 \notin committed
      BY <1>0 DEF Listed
    <3>3. j \in 1 .. Len(log) /\ i \in 1 .. Len(log)
      BY <1>0, <2>1, <2>2, <3>1, <3>2
    <3>4. i \in MessagePlaces /\ j \in MessagePlaces
      BY <2>2, <3>3 DEF MessagePlaces
    <3> QED BY <2>2, <3>3, <3>4 DEF Listed, InOrder
  <2> QED BY <2>3, <2>4, <2>5 DEF Listed
<1>3. CASE SessionForgotten
  BY <1>3 DEF SessionForgotten, Listed, Numbered, InOrder, MessagePlaces
<1>4. CASE PollStarts /\ session' = session + 1 /\ log' = <<Ready>>
  <2>1. /\ issued' = issued /\ committed' = committed /\ Len(log') = 1 /\ log'[1] = Ready
        /\ Ready.kind # "message"
    BY <1>4 DEF PollStarts, Ready
  <2>2. MessagePlaces' = {}
    BY <2>1 DEF MessagePlaces
  <2>3. Numbered'
    BY <1>0, <2>1 DEF Numbered
  <2> QED BY <2>1, <2>2, <2>3 DEF Listed, InOrder
<1>5. CASE Commit
  <2>1. /\ bridge = "handling" /\ committed' = committed \union {Head(answer).message}
        /\ UNCHANGED <<log, issued>>
    BY <1>5 DEF Commit, service
  <2>2. Head(answer).message \in 0 .. issued
    BY <2>1, <1>0, AnswerKept DEF CommitsNext, Events
  <2>3. MessagePlaces' = MessagePlaces
    BY <2>1 DEF MessagePlaces
  <2>4. InOrder'
    <3> SUFFICES ASSUME NEW i \in MessagePlaces, NEW j \in MessagePlaces, i < j,
                        log[j].message \in committed', log[i].message \notin committed'
                 PROVE  FALSE
      BY <2>1, <2>3 DEF InOrder
    <3>1. i \in Owing /\ i \in Nat /\ j \in Nat
      BY <1>0, <2>1 DEF Owing, MessagePlaces
    <3>2. log[j].message \notin committed
      BY <3>1 DEF Listed, InOrder, Owing
    <3>3. log[j].message = Head(answer).message
      BY <2>1, <3>2
    <3> QED BY <2>1, <3>1, <3>3 DEF CommitsNext
  <2>5. Numbered'
    BY <2>1, <2>2 DEF Listed, Numbered
  <2> QED BY <2>1, <2>2, <2>4, <2>5 DEF Listed
<1> QED BY <1>1, <1>2, <1>3, <1>4, <1>5, LogChanges

-----------------------------------------------------------------------------
(* One session of Discord.                                                  *)

(* An event with the number of its dispatch, and no message is owed before. *)
Genuine(l, e) ==
  e.sequence \in 2 .. Len(l) /\ e.message = e.sequence - 1 /\ e.kind = l[e.sequence].kind

Due(l, owing, e) == Genuine(l, e) /\ \A i \in owing : e.sequence <= i

(* A press that is handed on at once.                                       *)
Handed(l, e) ==
  /\ e.sequence = 0 /\ e.kind = "press" /\ e.message + 1 \in 2 .. Len(l)
  /\ l[e.message + 1].kind = "press"

(* One session; and either the bridge may do without an answer, or calls    *)
(* may fail and processes end.                                              *)
Single(stays) ==
  /\ left.sessions <= 1
  /\ IF stays THEN left.fails = 0 /\ left.kills = 0 ELSE left.losses = 0
  /\ session = (IF log = <<>> THEN 0 ELSE 1) /\ issued = (IF log = <<>> THEN 0 ELSE Len(log) - 1)

(* What the plugin resumes behind is committed.                             *)
Caught ==
  /\ gateway.session_id <= session /\ cursor.session_id <= session /\ poll.session_id <= session
  /\ gateway.sequence <= Len(log) /\ UpTo(Owing, gateway.sequence)
  /\ cursor.sequence <= Len(log) /\ UpTo(Owing, cursor.sequence)
  /\ poll.sequence <= Len(log)
  /\ poll.on /\ ~ EventPending => dispatches = <<>> /\ UpTo(Owing, poll.sequence)

Answered(stays) ==
  /\ EventPending => Due(log, Owing, gateway.pending)
  /\ bridge # "idle" =>
       /\ Due(log, Owing, answer[1]) \/ Handed(log, answer[1])
       /\ \A k \in 2 .. Len(answer) : Handed(log, answer[k])
       /\ EventPending => answer[1] = gateway.pending
       /\ stays /\ answer[1].sequence # 0 => EventPending
  /\ bridge = "acking" => answer[1].sequence # 0 /\ answer[1].message \in committed

(* What is owed before a kept event is kept before it, unless it waits and  *)
(* cannot be lost.                                                          *)
InQueue(l, owing, stored, place, stays) ==
  \A k \in 1 .. Len(stored) :
    /\ Genuine(l, stored[k])
    /\ \A i \in owing : i < stored[k].sequence =>
         (\E n \in 1 .. k - 1 : stored[n].sequence = i) \/ (stays /\ i = place)

(* What was read and is owed is kept or waits.                              *)
FromSocket(l, owing, socket, stored, place, safe) ==
  /\ socket.session = 1 /\ socket.read <= Len(l)
  /\ \A i \in owing : i <= socket.read =>
       (\E n \in 1 .. Len(stored) : stored[n].sequence = i) \/ (safe /\ i = place)

One(stays) ==
  /\ Single(stays) /\ Caught /\ Answered(stays)
  /\ InQueue(log, Owing, dispatches, gateway.pending.sequence, stays)
  /\ wire # Closed =>
       /\ session = 1
       /\ FromSocket(log, Owing, wire, dispatches, gateway.pending.sequence, stays \/ bridge # "idle")

(* The same session, and nothing more committed.                            *)
LEMMA SameSession ==
  ASSUME UNCHANGED <<log, session, issued, committed>>
  PROVE  Owing' = Owing /\ MessagePlaces' = MessagePlaces
<1>1. MessagePlaces' = MessagePlaces
  BY DEF MessagePlaces
<1> QED BY <1>1 DEF Owing

LEMMA OwedPlaces ==
  ASSUME GatewayTypes
  PROVE  /\ Len(log) \in Nat /\ MessagePlaces \in SUBSET (1 .. Len(log)) /\ Owing \in SUBSET (1 .. Len(log))
         /\ Owing \in SUBSET Nat
         /\ \A i \in Owing : log[i].kind = "message" /\ log[i].message \notin committed
<1>1. Len(log) \in Nat
  BY DEF GatewayTypes
<1>2. MessagePlaces \in SUBSET (1 .. Len(log))
  BY DEF MessagePlaces
<1> QED BY <1>1, <1>2 DEF Owing, MessagePlaces

(* The plugin starts again.                                                 *)
LEMMA ReloadOne ==
  ASSUME GatewayTypes, One(FALSE), UNCHANGED <<service, committed>>, Reloaded,
         left'.sessions <= 1, left'.losses = 0,
         cursor'.sequence <= Len(log), UpTo(Owing, cursor'.sequence), cursor'.session_id <= session,
         InQueue(log, Owing, dispatches', 0, FALSE),
         UNCHANGED <<bridge, answer>> \/ bridge' = "idle"
  PROVE  One(FALSE)'
<1>1. UNCHANGED <<log, session, issued, committed>> /\ Owing' = Owing
  BY SameSession DEF service
<1>2. /\ gateway' = [sequence |-> cursor'.sequence, session_id |-> cursor'.session_id,
                     pending |-> Nothing, from_queue |-> FALSE]
      /\ wire' = Closed /\ poll' = NoPoll
  BY DEF Reloaded, LoadedState
<1>3. Single(FALSE)'
  BY <1>1 DEF One, Single
<1>4. Caught'
  <2>1. Len(log) \in Nat /\ session \in Nat
    BY DEF GatewayTypes
  <2> QED BY <1>1, <1>2, <2>1 DEF Caught, NoPoll
<1>5. ~ EventPending'
  BY <1>2 DEF EventPending
<1>6. Answered(FALSE)'
  BY <1>1, <1>5 DEF One, Answered
<1>7. gateway'.pending.sequence = 0
  BY <1>2 DEF Nothing
<1>8. InQueue(log, Owing, dispatches, gateway.pending.sequence, FALSE)'
  BY <1>1, <1>7
<1> QED BY <1>2, <1>3, <1>4, <1>6, <1>8 DEF One

(* A place that is not owed does not matter, and of fewer that are owed     *)
(* each is where it was.                                                    *)
LEMMA PlaceFree ==
  ASSUME NEW l, NEW o, NEW q, NEW p, NEW r, NEW s \in BOOLEAN, InQueue(l, o, q, p, s), p \notin o \/ ~ s
  PROVE  InQueue(l, o, q, r, s)
BY DEF InQueue

LEMMA FewerOwed ==
  ASSUME NEW l, NEW o, NEW u, u \subseteq o
  PROVE  /\ \A e : Due(l, o, e) => Due(l, u, e)
         /\ \A n : UpTo(o, n) => UpTo(u, n)
         /\ \A q, p, s : InQueue(l, o, q, p, s) => InQueue(l, u, q, p, s)
         /\ \A w, q, p, s : FromSocket(l, o, w, q, p, s) => FromSocket(l, u, w, q, p, s)
BY DEF Due, UpTo, InQueue, FromSocket

LEMMA TailQueue ==
  ASSUME NEW l, NEW o \in SUBSET Nat, NEW q \in Seq(Events), q # <<>>, NEW p, NEW s \in BOOLEAN,
         InQueue(l, o, q, p, s), q[1].sequence \notin o, p \notin o \/ ~ s
  PROVE  InQueue(l, o, Tail(q), 0, s)
<1>1. /\ Len(q) \in Nat /\ Len(Tail(q)) = Len(q) - 1
      /\ \A k \in 1 .. Len(Tail(q)) : Tail(q)[k] = q[k + 1]
  BY FrontKept
<1> SUFFICES ASSUME NEW k \in 1 .. Len(Tail(q))
             PROVE  /\ Genuine(l, Tail(q)[k])
                    /\ \A i \in o : i < Tail(q)[k].sequence => \E n \in 1 .. k - 1 : Tail(q)[n].sequence = i
  BY DEF InQueue
<1>2. k + 1 \in 1 .. Len(q) /\ Tail(q)[k] = q[k + 1]
  BY <1>1
<1>3. Genuine(l, Tail(q)[k])
  BY <1>2 DEF InQueue
<1>4. ASSUME NEW i \in o, i < Tail(q)[k].sequence PROVE \E n \in 1 .. k - 1 : Tail(q)[n].sequence = i
  <2>1. \E n \in 1 .. (k + 1) - 1 : q[n].sequence = i
    BY <1>2, <1>4 DEF InQueue
  <2>2. PICK n \in 1 .. k : q[n].sequence = i
    BY <2>1
  <2>3. n # 1
    BY <1>4, <2>2
  <2>4. n - 1 \in 1 .. k - 1 /\ n - 1 \in 1 .. Len(Tail(q))
    BY <1>1, <2>3
  <2>5. Tail(q)[n - 1] = q[(n - 1) + 1]
    BY <1>1, <2>4
  <2>6. (n - 1) + 1 = n
    OBVIOUS
  <2>7. Tail(q)[n - 1].sequence = i
    BY <2>2, <2>5, <2>6
  <2> QED BY <2>4, <2>7
<1> QED BY <1>3, <1>4

(* What is committed and acknowledged is not owed.                          *)
LEMMA AckedPlace ==
  ASSUME GatewayTypes, Numbered, NEW stays \in BOOLEAN, Single(stays),
         NEW e \in Events, Due(log, Owing, e), e.message \in committed
  PROVE  UpTo(Owing, e.sequence) /\ e.sequence \notin Owing
<1>1. Len(log) \in Nat /\ e.sequence \in 2 .. Len(log) /\ e.message = e.sequence - 1
  BY DEF GatewayTypes, Due, Genuine
<1>2. log # <<>>
  BY <1>1
<1>3. issued = Len(log) - 1
  BY <1>2 DEF Single
<1>4. log[e.sequence].message = e.message
  BY <1>1, <1>3 DEF Numbered
<1>5. e.sequence \notin Owing
  BY <1>4 DEF Owing
<1> QED BY <1>5, <1>1, OwedPlaces DEF Due, UpTo

(* The end of a poll.                                                       *)
LEMMA DoneOne ==
  ASSUME GatewayTypes, NEW stays \in BOOLEAN, One(stays), poll.on,
         NEW n \in Nat, NEW pending \in Events \union {Nothing}, NEW socket, NEW events \in Seq(Events),
         PollDone(n, pending, socket, events), UNCHANGED <<service, committed>>,
         n <= Len(log), UpTo(Owing, n),
         IF pending = Nothing THEN events = <<>>
         ELSE /\ Due(log, Owing, pending) /\ events # <<>> /\ events[1] = pending
              /\ \A k \in 2 .. Len(events) : Handed(log, events[k]),
         InQueue(log, Owing, dispatches', pending.sequence, stays),
         socket # Closed => FromSocket(log, Owing, socket, dispatches', pending.sequence, TRUE)
  PROVE  One(stays)'
<1> DEFINE state == [gateway EXCEPT !.sequence = n, !.session_id = poll.session_id, !.pending = pending]
<1>1. UNCHANGED <<log, session, issued, committed>> /\ Owing' = Owing
  BY SameSession DEF service
<1>2. /\ bridge = "idle" /\ wire # Closed /\ Len(log) \in Nat /\ session \in Nat
      /\ left \in [sessions : Nat, losses : Nat, fails : Nat, kills : Nat]
  BY DEF GatewayTypes
<1>3. /\ state.sequence = n /\ state.session_id = poll.session_id /\ state.pending = pending
      /\ poll.session_id <= session /\ session = 1
  BY <1>2 DEF GatewayTypes, One, Caught
<1> HIDE DEF state
<1>4. 0 \notin Owing /\ Nothing.sequence = 0
  BY OwedPlaces DEF Nothing
<1>5. ~ NoPoll.on /\ NoPoll.session_id = 0 /\ NoPoll.sequence = 0
  BY DEF NoPoll
<1>6. CASE /\ cursor' = Cursor(n, poll.session_id)
           /\ gateway' = state /\ wire' = socket /\ poll' = NoPoll
           /\ Returned(events)
  <2>1. Single(stays)'
    <3>1. CASE UNCHANGED left
      BY <1>1, <3>1 DEF One, Single
    <3>2. CASE May("losses")
      BY <1>1, <1>2, <3>2, MayLess DEF One, Single
    <3> QED BY <1>6, <3>1, <3>2 DEF Returned
  <2>2. Caught'
    BY <1>1, <1>2, <1>3, <1>5, <1>6 DEF Caught, Cursor
  <2>3. EventPending' <=> pending # Nothing
    BY <1>3, <1>6 DEF EventPending
  <2>4. \/ bridge' = "idle" /\ (stays \/ pending = Nothing)
        \/ bridge' = "handling" /\ answer' = events
    <3>1. CASE May("losses")
      BY <1>2, <1>6, <3>1, MayLess DEF Returned, One, Single
    <3> QED BY <1>6, <3>1, <1>2 DEF Returned
  <2>5. Answered(stays)'
    <3>1. EventPending' => Due(log', Owing', gateway'.pending)
      BY <1>1, <1>3, <1>6, <2>3
    <3>2. bridge' # "acking"
      BY <2>4
    <3>3. CASE bridge' # "idle" /\ pending # Nothing
      <4>1. answer' = events /\ EventPending' /\ gateway'.pending = pending
        BY <1>3, <1>6, <2>3, <2>4, <3>3
      <4> QED BY <1>1, <3>1, <3>2, <3>3, <4>1 DEF Answered
    <3>4. CASE bridge' # "idle" /\ pending = Nothing
      <4>1. FALSE
        BY <1>6, <1>2, <3>4 DEF Returned
      <4> QED BY <4>1
    <3> QED BY <3>1, <3>2, <3>3, <3>4 DEF Answered
  <2>6. InQueue(log, Owing, dispatches, gateway.pending.sequence, stays)'
    BY <1>1, <1>3, <1>6
  <2>7. wire' # Closed =>
          FromSocket(log, Owing, wire, dispatches, gateway.pending.sequence, stays \/ bridge # "idle")'
    <3>1. stays \/ bridge' # "idle" \/ gateway'.pending.sequence = 0
      BY <1>3, <1>4, <1>6, <2>4
    <3>2. ASSUME wire' # Closed, NEW safe \in BOOLEAN, safe \/ pending.sequence = 0
          PROVE  FromSocket(log, Owing, socket, dispatches', pending.sequence, safe)
      BY <1>4, <1>6, <3>2 DEF FromSocket
    <3> QED BY <1>1, <1>3, <1>6, <3>1, <3>2
  <2> QED BY <1>1, <1>3, <2>1, <2>2, <2>5, <2>6, <2>7 DEF One
<1>7. CASE /\ May("fails")
           /\ UNCHANGED <<cursor, bridge, answer>>
           /\ PollFailed(state)
  <2>1. /\ stays = FALSE /\ left'.sessions <= 1 /\ left'.losses = 0
    BY <1>2, <1>7, MayLess DEF One, Single
  <2>2. InQueue(log, Owing, dispatches', 0, FALSE)
    BY <2>1, PlaceFree
  <2>3. /\ cursor'.sequence <= Len(log) /\ UpTo(Owing, cursor'.sequence) /\ cursor'.session_id <= session
    BY <1>7 DEF One, Caught
  <2>4. CASE Reloaded
    BY <1>7, <2>1, <2>2, <2>3, <2>4, ReloadOne
  <2>5. CASE gateway' = state /\ wire' = Closed /\ poll' = NoPoll
    <3>1. Single(FALSE)'
      BY <1>1, <2>1 DEF One, Single
    <3>2. Caught'
      BY <1>1, <1>2, <1>3, <1>5, <2>3, <2>5 DEF Caught
    <3>3. EventPending' => Due(log', Owing', gateway'.pending)
      BY <1>1, <1>3, <2>5 DEF EventPending
    <3>4. Answered(FALSE)'
      BY <1>2, <1>7, <3>3 DEF Answered
    <3>5. InQueue(log, Owing, dispatches, gateway.pending.sequence, FALSE)'
      BY <1>1, <1>3, <2>1, <2>5
    <3> QED BY <2>1, <2>5, <3>1, <3>2, <3>4, <3>5 DEF One
  <2> QED BY <1>7, <2>4, <2>5 DEF PollFailed
<1> QED BY <1>6, <1>7 DEF PollDone, state

(* Discord sends another dispatch.                                          *)
LEMMA SentOne ==
  ASSUME GatewayTypes, NEW stays \in BOOLEAN, One(stays), NEW kind \in Kinds, Sent(kind)
  PROVE  One(stays)'
<1> DEFINE e == [message |-> issued + 1, kind |-> kind]
<1>1. /\ log' = Append(log, e) /\ issued' = issued + 1 /\ log # <<>> /\ e \in Dispatch
      /\ UNCHANGED <<session, wire, gateway, poll, cursor, dispatches, bridge, answer, committed, left>>
      /\ log \in Seq(Dispatch) /\ Len(log) \in Nat
  BY DEF GatewayTypes, Sent, Dispatch
<1> HIDE DEF e
<1>2. /\ Len(log') = Len(log) + 1 /\ log' # <<>>
      /\ \A i \in 1 .. Len(log) : log'[i] = log[i]
  BY <1>1
<1>3. /\ \A i \in Owing' : i \in Owing \/ i = Len(log) + 1
      /\ \A i \in Owing : i \in Nat /\ i <= Len(log)
  <2>1. \A i \in Owing' : i \in Owing \/ i = Len(log) + 1
    BY <1>1, <1>2 DEF Owing, MessagePlaces
  <2>2. Owing \in SUBSET (1 .. Len(log))
    BY OwedPlaces
  <2> QED BY <1>1, <2>1, <2>2
<1>4. /\ \A x : Genuine(log, x) => Genuine(log', x)
      /\ \A x : Handed(log, x) => Handed(log', x)
  BY <1>1, <1>2 DEF Genuine, Handed
<1>5. ASSUME NEW x, Due(log, Owing, x) PROVE Due(log', Owing', x)
  <2>1. x.sequence \in Nat /\ x.sequence <= Len(log) /\ Genuine(log', x)
    BY <1>1, <1>4, <1>5 DEF Due, Genuine
  <2>2. ASSUME NEW i \in Owing' PROVE x.sequence <= i
    <3>1. CASE i \in Owing
      BY <1>5, <3>1 DEF Due
    <3>2. CASE i = Len(log) + 1
      BY <1>1, <2>1, <3>2
    <3> QED BY <1>3, <2>2, <3>1, <3>2
  <2> QED BY <2>1, <2>2 DEF Due
<1>6. ASSUME NEW n \in Nat, n <= Len(log), UpTo(Owing, n) PROVE n <= Len(log') /\ UpTo(Owing', n)
  <2>1. ASSUME NEW i \in Owing' PROVE n < i
    <3>1. CASE i \in Owing
      BY <1>6, <3>1 DEF UpTo
    <3>2. CASE i = Len(log) + 1
      BY <1>1, <1>6, <3>2
    <3> QED BY <1>3, <2>1, <3>1, <3>2
  <2> QED BY <1>1, <1>2, <1>6, <2>1 DEF UpTo
<1>7. Single(stays)'
  BY <1>1, <1>2 DEF One, Single
<1>8. Caught'
  <2>1. gateway.sequence \in Nat /\ cursor.sequence \in Nat /\ poll.sequence \in Nat
    BY DEF GatewayTypes
  <2>2. EventPending' <=> EventPending
    BY <1>1 DEF EventPending
  <2>3. poll.sequence <= Len(log')
    BY <1>1, <1>2, <2>1 DEF One, Caught
  <2>4. /\ gateway.sequence <= Len(log') /\ UpTo(Owing', gateway.sequence)
        /\ cursor.sequence <= Len(log') /\ UpTo(Owing', cursor.sequence)
    BY <1>6, <2>1 DEF One, Caught
  <2>5. poll.on /\ ~ EventPending => dispatches = <<>> /\ UpTo(Owing', poll.sequence)
    BY <1>6, <2>1 DEF One, Caught
  <2> QED BY <1>1, <2>2, <2>3, <2>4, <2>5 DEF One, Caught
<1>9. Answered(stays)'
  BY <1>1, <1>4, <1>5 DEF One, Answered, EventPending
<1>10. InQueue(log', Owing', dispatches, gateway.pending.sequence, stays)
  <2>1. ASSUME NEW k \in 1 .. Len(dispatches)
        PROVE  /\ Genuine(log', dispatches[k])
               /\ \A i \in Owing' : i < dispatches[k].sequence => i \in Owing
    BY <1>1, <1>3, <1>4, <2>1 DEF One, InQueue, Genuine
  <2> QED BY <2>1 DEF One, InQueue
<1>11. ASSUME wire # Closed
       PROVE  /\ session = 1
              /\ FromSocket(log', Owing', wire, dispatches, gateway.pending.sequence, stays \/ bridge # "idle")
  <2>1. wire.read \in Nat /\ wire.read <= Len(log)
    BY <1>11 DEF One, FromSocket, GatewayTypes
  <2>2. \A i \in Owing' : i <= wire.read => i \in Owing
    BY <1>1, <1>3, <2>1
  <2>3. wire.read <= Len(log')
    BY <1>1, <1>2, <2>1
  <2> QED BY <1>11, <2>2, <2>3 DEF One, FromSocket
<1> QED BY <1>1, <1>7, <1>8, <1>9, <1>10, <1>11 DEF One

(* Without a waiting event all that was read is committed.                  *)
LEMMA ReadUpTo ==
  ASSUME GatewayTypes, NEW stays \in BOOLEAN, One(stays), poll.on, ~ EventPending
  PROVE  dispatches = <<>> /\ UpTo(Owing, wire.read) /\ 0 \notin Owing /\ gateway.pending.sequence = 0
<1>1. /\ wire # Closed /\ wire.read \in Nat /\ gateway.pending.sequence = 0
  BY DEF GatewayTypes, EventPending, Nothing
<1>2. dispatches = <<>> /\ 0 \notin Owing /\ Owing \in SUBSET Nat
  BY OwedPlaces DEF One, Caught
<1> QED BY <1>1, <1>2 DEF One, FromSocket, UpTo

(* What is read next: it has its number, and is a message or not.           *)
LEMMA StagedOne ==
  ASSUME GatewayTypes, Numbered, NEW stays \in BOOLEAN, One(stays),
         NEW kinds \in SUBSET {"message", "press"}, Read(kinds)
  PROVE  /\ Genuine(log, StagedEvent) /\ StagedEvent.sequence = wire.read + 1 /\ StagedEvent \in Events
         /\ StagedEvent.kind \in kinds
         /\ StagedEvent.kind = "press" => Handed(log, [StagedEvent EXCEPT !.sequence = 0]) /\ wire.read + 1 \notin Owing
         /\ wire # Closed /\ Further # Closed /\ Further.session = 1 /\ Further.read = wire.read + 1
         /\ wire.read + 1 \in Nat /\ wire.read + 1 <= Len(log) /\ poll.on
<1>1. /\ wire \in [session : Nat, read : Nat] /\ wire.session = session
      /\ wire.read + 1 \in 1 .. Len(log)
      /\ Further = [session |-> wire.session, read |-> wire.read + 1]
      /\ StagedEvent \in Events
      /\ StagedEvent = [sequence |-> wire.read + 1, message |-> log[wire.read + 1].message,
                        kind |-> log[wire.read + 1].kind]
      /\ log[wire.read + 1].kind \in kinds /\ poll.on /\ wire # Closed
  BY StagedTyped DEF Read, GatewayTypes
<1>2. log # <<>> /\ wire.read \in Nat /\ Len(log) \in Nat /\ session = 1
  BY <1>1 DEF GatewayTypes, One
<1>3. wire.read + 1 # 1
  BY <1>1, <1>2 DEF Numbered, Ready
<1>4. log[wire.read + 1].message = wire.read
  <2>1. issued = Len(log) - 1 /\ wire.read + 1 \in 2 .. Len(log)
    BY <1>1, <1>2, <1>3 DEF One, Single
  <2> QED BY <1>2, <2>1 DEF Numbered
<1>5. Genuine(log, StagedEvent) /\ StagedEvent.sequence = wire.read + 1 /\ StagedEvent.kind \in kinds
  BY <1>1, <1>2, <1>3, <1>4 DEF Genuine
<1>6. ASSUME StagedEvent.kind = "press"
      PROVE  Handed(log, [StagedEvent EXCEPT !.sequence = 0]) /\ wire.read + 1 \notin Owing
  <2>1. log[wire.read + 1].kind = "press"
    BY <1>1, <1>6
  <2> QED BY <1>1, <1>2, <1>3, <1>4, <2>1, OwedPlaces DEF Handed
<1> QED BY <1>1, <1>2, <1>5, <1>6 DEF Closed

(* Before the log begins nothing is read, kept or waiting.                  *)
LEMMA BeforeOne ==
  ASSUME GatewayTypes, NEW stays \in BOOLEAN, One(stays), log = <<>>
  PROVE  dispatches = <<>> /\ ~ EventPending /\ Owing = {} /\ session = 0 /\ wire = Closed
<1>1. session = 0 /\ Owing = {} /\ Len(log) = 0
  BY DEF One, Single, Owing, MessagePlaces
<1>2. \A e : ~ Genuine(log, e)
  BY <1>1 DEF Genuine
<1>3. ~ EventPending
  BY <1>2 DEF One, Answered, Due
<1>4. dispatches = <<>>
  <2>1. dispatches \in Seq(Events)
    BY DEF GatewayTypes
  <2>2. Len(dispatches) = 0
    BY <1>2, <2>1 DEF One, InQueue
  <2> QED BY <2>1, <2>2
<1> QED BY <1>1, <1>3, <1>4 DEF One

LEMMA StartsOne ==
  ASSUME GatewayTypes, NEW stays \in BOOLEAN, One(stays), PollStarts
  PROVE  One(stays)'
<1>1. bridge = "idle" /\ (EventPending \/ dispatches = <<>>)
  BY DEF PollStarts, ServesQueue
<1>2. /\ UNCHANGED <<issued, gateway, cursor, dispatches, bridge, answer, committed, left>>
      /\ poll' = [on |-> TRUE, sequence |-> gateway.sequence, session_id |-> gateway.session_id]
      /\ (EventPending' <=> EventPending)
      /\ bridge = "idle"
  BY DEF PollStarts, EventPending
<1>3. Len(log) \in Nat /\ session \in Nat /\ gateway.sequence \in Nat /\ gateway.session_id \in Nat
  BY DEF GatewayTypes
<1>4. ASSUME UNCHANGED <<log, session>>,
             wire' = wire \/ (gateway.session_id # 0 /\
                               wire' = [session |-> gateway.session_id, read |-> gateway.sequence])
      PROVE  One(stays)'
  <2>1. Owing' = Owing
    BY <1>2, <1>4, SameSession
  <2>2. Single(stays)' /\ Caught' /\ Answered(stays)'
    BY <1>1, <1>2, <1>4, <2>1 DEF One, Single, Caught, Answered
  <2>3. CASE wire' = wire
    BY <1>2, <1>4, <2>1, <2>2, <2>3 DEF One
  <2>4. CASE gateway.session_id # 0 /\ wire' = [session |-> gateway.session_id, read |-> gateway.sequence]
    <3>1. session = 1 /\ gateway.session_id = 1
      BY <1>3, <2>4 DEF One, Caught, Single
    <3>2. gateway.sequence <= Len(log) /\ UpTo(Owing, gateway.sequence)
      BY DEF One, Caught
    <3>3. Owing \in SUBSET Nat
      BY OwedPlaces
    <3>4. FromSocket(log', Owing', wire', dispatches', gateway'.pending.sequence, stays \/ bridge' # "idle")
      <4>1. ASSUME NEW i \in Owing, i <= gateway.sequence PROVE FALSE
        BY <1>3, <3>2, <3>3, <4>1 DEF UpTo
      <4>2. wire'.session = 1 /\ wire'.read = gateway.sequence
        BY <2>4, <3>1
      <4> QED BY <1>4, <2>1, <3>2, <4>1, <4>2 DEF FromSocket
    <3> QED BY <1>2, <1>4, <2>1, <2>2, <3>1, <3>4 DEF One
  <2> QED BY <1>4, <2>3, <2>4
<1>5. CASE /\ session < left.sessions /\ session' = session + 1 /\ log' = <<Ready>>
           /\ wire' = [session |-> session', read |-> 0]
  <2>1. session = 0 /\ log = <<>>
    BY <1>3, <1>5 DEF One, Single, GatewayTypes
  <2>2. dispatches = <<>> /\ ~ EventPending
    BY <2>1, BeforeOne
  <2>3. Len(log') = 1 /\ log'[1] = Ready /\ Ready.kind # "message" /\ log' # <<>> /\ Len(log) = 0
    BY <1>5, <2>1 DEF Ready
  <2>4. Owing' = {}
    BY <2>3 DEF Owing, MessagePlaces
  <2>5. issued = 0 /\ Single(stays)'
    BY <1>2, <1>5, <2>1, <2>3 DEF One, Single
  <2>6. Caught'
    <3>1. \A n : UpTo(Owing', n)
      BY <2>4 DEF UpTo
    <3>2. /\ cursor.sequence \in Nat /\ cursor.session_id \in Nat
          /\ cursor.sequence <= 1 /\ gateway.sequence <= 1
          /\ cursor.session_id <= 1 /\ gateway.session_id <= 1
      BY <1>3, <2>1, <2>3 DEF One, Caught, GatewayTypes
    <3> QED BY <1>2, <1>5, <2>1, <2>2, <2>3, <3>1, <3>2 DEF Caught
  <2>7. Answered(stays)'
    BY <1>1, <1>2, <2>2 DEF Answered
  <2>8. InQueue(log', Owing', dispatches', gateway'.pending.sequence, stays)
    BY <1>2, <2>2 DEF InQueue
  <2>9. FromSocket(log', Owing', wire', dispatches', gateway'.pending.sequence, stays \/ bridge' # "idle")
    BY <1>5, <2>1, <2>3, <2>4 DEF FromSocket
  <2> QED BY <1>5, <2>1, <2>5, <2>6, <2>7, <2>8, <2>9 DEF One
<1> QED BY <1>4, <1>5 DEF PollStarts

(* The plugin reads what is no event.                                       *)
LEMMA ReadOne ==
  ASSUME GatewayTypes, Numbered, NEW stays \in BOOLEAN, One(stays), ReadReady \/ ReadOtherDispatch
  PROVE  One(stays)'
<1>1. /\ poll.on /\ wire.read < Len(log) /\ log[wire.read + 1].kind \in {"ready", "other"}
      /\ wire' = Further /\ poll'.on = poll.on /\ poll'.sequence = wire.read + 1
      /\ poll'.session_id \in {poll.session_id, wire.session}
      /\ cursor'.sequence \in {cursor.sequence, gateway.sequence}
      /\ cursor'.session_id \in {cursor.session_id, wire.session}
      /\ UNCHANGED <<log, session, issued, gateway, dispatches, bridge, answer, committed, left>>
  <2>1. poll \in [on : BOOLEAN, sequence : Nat, session_id : Nat]
    BY DEF GatewayTypes
  <2>2. CASE ReadReady
    <3>1. /\ poll' = [poll EXCEPT !.sequence = wire.read + 1, !.session_id = wire.session]
          /\ cursor' = Cursor(gateway.sequence, wire.session)
          /\ UNCHANGED <<log, session, issued, gateway, dispatches, bridge, answer, committed, left>>
          /\ wire' = Further
      BY <2>2 DEF ReadReady, service
    <3>2. poll.on /\ wire.read < Len(log) /\ log[wire.read + 1].kind \in {"ready"}
      BY <2>2 DEF ReadReady, Read
    <3> QED BY <2>1, <3>1, <3>2 DEF Cursor
  <2>3. CASE ReadOtherDispatch
    <3>1. /\ poll' = [poll EXCEPT !.sequence = wire.read + 1] /\ wire' = Further
          /\ UNCHANGED <<log, session, issued, gateway, cursor, dispatches, bridge, answer, committed, left>>
      BY <2>3 DEF ReadOtherDispatch, service
    <3>2. poll.on /\ wire.read < Len(log) /\ log[wire.read + 1].kind \in {"other"}
      BY <2>3 DEF ReadOtherDispatch, Read
    <3> QED BY <2>1, <3>1, <3>2
  <2> QED BY <2>2, <2>3
<1>2. Owing' = Owing /\ Owing \in SUBSET Nat /\ 0 \notin Owing
  BY <1>1, SameSession, OwedPlaces
<1>3. /\ wire # Closed /\ wire.read \in Nat /\ wire.session = 1 /\ session = 1 /\ Len(log) \in Nat
      /\ Further = [session |-> wire.session, read |-> wire.read + 1]
  BY <1>1 DEF GatewayTypes, One, FromSocket, Further
<1>4. wire.read + 1 \notin Owing
  BY <1>1, OwedPlaces
<1>5. EventPending' <=> EventPending
  BY <1>1 DEF EventPending
<1>6. Single(stays)' /\ Answered(stays)'
  BY <1>1, <1>2, <1>5 DEF One, Single, Answered
<1>7. Caught'
  <2>1. ~ EventPending => dispatches = <<>> /\ UpTo(Owing, wire.read + 1)
    <3>1. ASSUME ~ EventPending PROVE dispatches = <<>> /\ UpTo(Owing, wire.read)
      BY <1>1, <3>1, ReadUpTo
    <3> QED BY <1>2, <1>3, <1>4, <3>1 DEF UpTo
  <2>2. poll'.sequence <= Len(log') /\ poll'.session_id <= session'
    BY <1>1, <1>3 DEF One, Caught
  <2>3. cursor'.sequence <= Len(log') /\ UpTo(Owing', cursor'.sequence) /\ cursor'.session_id <= session'
    BY <1>1, <1>2, <1>3 DEF One, Caught
  <2> QED BY <1>1, <1>2, <1>5, <2>1, <2>2, <2>3 DEF One, Caught
<1>8. FromSocket(log', Owing', wire', dispatches', gateway'.pending.sequence, stays \/ bridge' # "idle")
  <2>1. \A i \in Owing : i <= wire.read + 1 => i <= wire.read
    BY <1>2, <1>3, <1>4
  <2>2. wire'.session = 1 /\ wire'.read = wire.read + 1 /\ wire.read + 1 <= Len(log)
    BY <1>1, <1>3
  <2> QED BY <1>1, <1>2, <1>3, <2>1, <2>2 DEF One, FromSocket
<1> QED BY <1>1, <1>2, <1>3, <1>6, <1>7, <1>8 DEF One

LEMMA EventOne ==
  ASSUME GatewayTypes, Numbered, NEW stays \in BOOLEAN, One(stays), ReadEvent
  PROVE  One(stays)'
<1>1. /\ ~ EventPending /\ Read({"message", "press"})
      /\ PollDone(gateway.sequence, StagedEvent, Further, <<StagedEvent>>)
      /\ UNCHANGED <<service, committed>> /\ dispatches' = dispatches
  BY DEF ReadEvent
<1>2. /\ Genuine(log, StagedEvent) /\ StagedEvent.sequence = wire.read + 1 /\ StagedEvent \in Events
      /\ Further.session = 1 /\ Further.read = wire.read + 1
      /\ wire.read + 1 \in Nat /\ wire.read + 1 <= Len(log) /\ poll.on
  BY <1>1, StagedOne
<1>3. dispatches = <<>> /\ UpTo(Owing, wire.read) /\ Owing \in SUBSET Nat
  BY <1>1, <1>2, ReadUpTo, OwedPlaces
<1>4. \A i \in Owing : wire.read + 1 <= i
  BY <1>2, <1>3, OwedPlaces DEF UpTo, GatewayTypes
<1> DEFINE e == StagedEvent
           s == <<StagedEvent>>
<1>5. /\ e \in Events /\ e # Nothing /\ s \in Seq(Events) /\ s # <<>> /\ s[1] = e /\ Len(s) = 1
  BY <1>2 DEF Nothing, Events
<1>6. Due(log, Owing, e)
  BY <1>2, <1>4 DEF Due
<1>7. InQueue(log, Owing, dispatches', e.sequence, stays)
  BY <1>1, <1>3 DEF InQueue
<1>8. FromSocket(log, Owing, Further, dispatches', e.sequence, TRUE)
  <2>1. \A i \in Owing : i <= wire.read + 1 => i = wire.read + 1
    BY <1>2, <1>3, <1>4
  <2> QED BY <1>2, <2>1 DEF FromSocket
<1>9. gateway.sequence \in Nat /\ gateway.sequence <= Len(log) /\ UpTo(Owing, gateway.sequence)
  BY DEF GatewayTypes, One, Caught
<1>10. PollDone(gateway.sequence, e, Further, s) /\ \A k \in 2 .. Len(s) : Handed(log, s[k])
  BY <1>1, <1>5
<1> HIDE DEF e, s
<1> QED BY <1>1, <1>2, <1>5, <1>6, <1>7, <1>8, <1>9, <1>10, DoneOne

(* The queue with another event read behind it.                             *)
LEMMA AppendQueue ==
  ASSUME GatewayTypes, NEW stays \in BOOLEAN, NEW p, NEW e \in Events,
         InQueue(log, Owing, dispatches, p, stays), FromSocket(log, Owing, wire, dispatches, p, stays),
         Genuine(log, e), e.sequence = wire.read + 1, wire.read \in Nat,
         dispatches' = Append(dispatches, e)
  PROVE  /\ InQueue(log, Owing, dispatches', p, stays)
         /\ \A i \in Owing : i <= wire.read + 1 =>
              (\E n \in 1 .. Len(dispatches') : dispatches'[n].sequence = i) \/ (stays /\ i = p)
<1> DEFINE q == dispatches
           r == dispatches'
<1>0. q \in Seq(Events) /\ r = Append(q, e) /\ Owing \in SUBSET Nat
  BY OwedPlaces DEF GatewayTypes
<1> HIDE DEF q, r
<1>1. /\ Len(q) \in Nat /\ Len(r) = Len(q) + 1 /\ r[Len(q) + 1] = e
      /\ \A k \in 1 .. Len(q) : r[k] = q[k]
  BY <1>0
<1>2. ASSUME NEW i \in Owing, i <= wire.read
      PROVE  (\E n \in 1 .. Len(q) : r[n].sequence = i) \/ (stays /\ i = p)
  BY <1>1, <1>2 DEF FromSocket, q
<1>3. ASSUME NEW k \in 1 .. Len(r)
      PROVE  /\ Genuine(log, r[k])
             /\ \A i \in Owing : i < r[k].sequence => (\E n \in 1 .. k - 1 : r[n].sequence = i) \/ (stays /\ i = p)
  <2>1. CASE k \in 1 .. Len(q)
    <3>1. \A n \in 1 .. k - 1 : r[n] = q[n]
      BY <1>1, <2>1
    <3>2. r[k] = q[k]
      BY <1>1, <2>1
    <3> QED BY <2>1, <3>1, <3>2 DEF InQueue, q
  <2>2. CASE k = Len(q) + 1
    <3>1. r[k] = e /\ k - 1 = Len(q)
      BY <1>1, <2>2
    <3>2. ASSUME NEW i \in Owing, i < e.sequence PROVE i <= wire.read
      <4>1. i \in Nat
        BY <1>0
      <4> QED BY <3>2, <4>1
    <3>3. ASSUME NEW i \in Owing, i < e.sequence
          PROVE  (\E n \in 1 .. k - 1 : r[n].sequence = i) \/ (stays /\ i = p)
      BY <1>2, <3>1, <3>2, <3>3
    <3> QED BY <3>1, <3>3
  <2> QED BY <1>1, <2>1, <2>2
<1>4. InQueue(log, Owing, r, p, stays)
  BY <1>3 DEF InQueue
<1>5. ASSUME NEW i \in Owing, i <= wire.read + 1
      PROVE  (\E n \in 1 .. Len(r) : r[n].sequence = i) \/ (stays /\ i = p)
  <2>1. CASE i <= wire.read
    BY <1>1, <1>2, <2>1
  <2>2. CASE i = wire.read + 1
    BY <1>1, <2>2
  <2>3. i \in Nat
    BY <1>0
  <2> QED BY <1>5, <2>1, <2>2, <2>3
<1> QED BY <1>4, <1>5 DEF r

LEMMA AwaitingOne ==
  ASSUME GatewayTypes, Numbered, NEW stays \in BOOLEAN, One(stays), ReadAwaiting \/ ReadPress
  PROVE  One(stays)'
<1>0. /\ EventPending /\ poll.on /\ UNCHANGED <<service, committed>>
  BY DEF ReadAwaiting, ReadPress, Read
<1> DEFINE p == gateway.pending
<1>1. /\ p \in Events /\ p # Nothing /\ bridge = "idle" /\ wire # Closed
      /\ gateway.sequence \in Nat /\ dispatches \in Seq(Events)
  BY <1>0 DEF GatewayTypes, EventPending
<1>2. /\ Due(log, Owing, p) /\ gateway.sequence <= Len(log) /\ UpTo(Owing, gateway.sequence)
  BY <1>0 DEF One, Caught, Answered
<1>3. /\ InQueue(log, Owing, dispatches, p.sequence, stays)
      /\ FromSocket(log, Owing, wire, dispatches, p.sequence, stays)
  BY <1>1 DEF One
<1>o. Owing \in SUBSET Nat
  BY OwedPlaces
<1>4. CASE ReadPress
  <2>1. /\ Read({"press"}) /\ dispatches' = dispatches
        /\ PollDone(gateway.sequence, p, Further, <<p, [StagedEvent EXCEPT !.sequence = 0]>>)
    BY <1>4 DEF ReadPress
  <2>r. wire.read \in Nat
    BY <1>1 DEF GatewayTypes
  <2>k. {"press"} \in SUBSET {"message", "press"}
    OBVIOUS
  <2>g. StagedEvent.kind \in {"press"}
    BY <2>1, <2>k, StagedOne
  <2>2. /\ StagedEvent.kind = "press" /\ StagedEvent \in Events
        /\ Handed(log, [StagedEvent EXCEPT !.sequence = 0]) /\ wire.read + 1 \notin Owing
        /\ Further.session = 1 /\ Further.read = wire.read + 1
        /\ wire.read + 1 \in Nat /\ wire.read + 1 <= Len(log) /\ wire.read \in Nat
    BY <2>1, <2>r, <2>k, <2>g, StagedOne
  <2> DEFINE h == [StagedEvent EXCEPT !.sequence = 0]
             s == <<p, h>>
  <2>3. h \in Events
    BY <2>2 DEF Events
  <2>4. s \in Seq(Events) /\ s # <<>> /\ s[1] = p /\ Len(s) = 2 /\ s[2] = h
    <3> HIDE DEF h
    <3> QED BY <1>1, <2>3
  <2>5. \A k \in 2 .. Len(s) : Handed(log, s[k])
    BY <2>2, <2>4
  <2>6. FromSocket(log, Owing, Further, dispatches', p.sequence, TRUE)
    <3>1. \A i \in Owing : i <= wire.read + 1 => i <= wire.read
      BY <1>o, <2>2
    <3> QED BY <1>3, <2>1, <2>2, <3>1 DEF FromSocket
  <2>7. InQueue(log, Owing, dispatches', p.sequence, stays) /\ PollDone(gateway.sequence, p, Further, s)
    BY <1>3, <2>1
  <2> HIDE DEF p, s
  <2> QED BY <1>0, <1>1, <1>2, <2>4, <2>5, <2>6, <2>7, DoneOne
<1>5. CASE ReadAwaiting
  <2> DEFINE s == <<p>>
  <2>1. /\ s \in Seq(Events) /\ s # <<>> /\ s[1] = p /\ Len(s) = 1
    BY <1>1
  <2>2. \A k \in 2 .. Len(s) : Handed(log, s[k])
    BY <2>1
  <2>3. /\ Genuine(log, StagedEvent) /\ StagedEvent.sequence = wire.read + 1 /\ StagedEvent \in Events
        /\ Further.session = 1 /\ Further.read = wire.read + 1
        /\ wire.read + 1 <= Len(log) /\ wire.read \in Nat
    BY <1>1, <1>5, StagedOne DEF ReadAwaiting, GatewayTypes
  <2>4. CASE /\ dispatches' = Append(dispatches, StagedEvent)
             /\ PollDone(gateway.sequence, p, Further, s)
    <3>1. /\ InQueue(log, Owing, dispatches', p.sequence, stays)
          /\ \A i \in Owing : i <= wire.read + 1 =>
               (\E n \in 1 .. Len(dispatches') : dispatches'[n].sequence = i) \/ (stays /\ i = p.sequence)
      <4> HIDE DEF p
      <4> QED BY <1>3, <2>3, <2>4, AppendQueue
    <3>2. FromSocket(log, Owing, Further, dispatches', p.sequence, TRUE)
      BY <2>3, <3>1 DEF FromSocket
    <3> HIDE DEF p, s
    <3> QED BY <1>0, <1>1, <1>2, <2>1, <2>2, <2>4, <3>1, <3>2, DoneOne
  <2>5. CASE /\ dispatches' = dispatches
             /\ PollDone(gateway.sequence, p, Closed, s)
    <3>1. InQueue(log, Owing, dispatches', p.sequence, stays)
      BY <1>3, <2>5
    <3> HIDE DEF p, s
    <3> QED BY <1>0, <1>1, <1>2, <2>1, <2>2, <2>5, <3>1, DoneOne
  <2> QED BY <1>5, <2>4, <2>5 DEF ReadAwaiting
<1> QED BY <1>4, <1>5

LEMMA EndsOne ==
  ASSUME GatewayTypes, NEW stays \in BOOLEAN, One(stays), PollEnds
  PROVE  One(stays)'
<1>1. /\ poll.on /\ UNCHANGED <<service, committed>> /\ dispatches' = dispatches
  BY DEF PollEnds
<1>2. PICK socket \in {wire, Closed} :
        IF EventPending
          THEN PollDone(gateway.sequence, gateway.pending, socket, <<gateway.pending>>)
          ELSE PollDone(poll.sequence, Nothing, socket, <<>>)
  BY DEF PollEnds
<1> DEFINE p == gateway.pending
<1>3. /\ bridge = "idle" /\ wire # Closed /\ gateway.sequence \in Nat /\ poll.sequence \in Nat
      /\ p \in Events \union {Nothing}
  BY <1>1 DEF GatewayTypes
<1>4. /\ InQueue(log, Owing, dispatches', p.sequence, stays)
      /\ FromSocket(log, Owing, wire, dispatches', p.sequence, stays)
  BY <1>1, <1>3 DEF One
<1>5. FromSocket(log, Owing, wire, dispatches', p.sequence, TRUE)
  BY <1>4 DEF FromSocket
<1>6. CASE EventPending
  <2> DEFINE s == <<p>>
  <2>1. p # Nothing /\ p \in Events
    BY <1>3, <1>6 DEF EventPending
  <2>2. s \in Seq(Events) /\ s # <<>> /\ s[1] = p /\ Len(s) = 1
    BY <2>1
  <2>3. \A k \in 2 .. Len(s) : Handed(log, s[k])
    BY <2>2
  <2>4. /\ Due(log, Owing, p) /\ gateway.sequence <= Len(log) /\ UpTo(Owing, gateway.sequence)
    BY <1>6 DEF One, Caught, Answered
  <2>5. PollDone(gateway.sequence, p, socket, s) /\ (socket # Closed => socket = wire)
    BY <1>2, <1>6
  <2> HIDE DEF p, s
  <2> QED BY <1>1, <1>3, <1>4, <1>5, <2>1, <2>2, <2>3, <2>4, <2>5, DoneOne
<1>7. CASE ~ EventPending
  <2> DEFINE s == <<>>
  <2>1. p = Nothing
    BY <1>7 DEF EventPending
  <2>2. poll.sequence <= Len(log) /\ UpTo(Owing, poll.sequence)
    BY <1>1, <1>7 DEF One, Caught
  <2>3. PollDone(poll.sequence, p, socket, s) /\ (socket # Closed => socket = wire)
    BY <1>2, <1>7, <2>1
  <2>4. s \in Seq(Events) /\ s = <<>>
    OBVIOUS
  <2> HIDE DEF p, s
  <2> QED BY <1>1, <1>3, <1>4, <1>5, <2>1, <2>2, <2>3, <2>4, DoneOne
<1> QED BY <1>6, <1>7

(* A poll that fails, and one of an unknown session, which there is not.    *)
LEMMA FailsOne ==
  ASSUME GatewayTypes, NEW stays \in BOOLEAN, One(stays), PollFails \/ Rejected
  PROVE  One(stays)'
<1>1. CASE PollFails
  <2>1. /\ May("fails") /\ PollFailed(gateway)
        /\ UNCHANGED <<service, cursor, dispatches, bridge, answer, committed>>
    BY <1>1 DEF PollFails
  <2>2. stays = FALSE /\ left'.sessions <= 1 /\ left'.losses = 0
    BY <2>1, MayLess DEF One, Single, GatewayTypes
  <2>3. CASE Reloaded
    <3>1. InQueue(log, Owing, dispatches', 0, FALSE)
      BY <2>1, <2>2, PlaceFree DEF One
    <3>2. cursor'.sequence <= Len(log) /\ UpTo(Owing, cursor'.sequence) /\ cursor'.session_id <= session
      BY <2>1 DEF One, Caught
    <3> QED BY <2>1, <2>2, <2>3, <3>1, <3>2, ReloadOne
  <2>4. CASE gateway' = gateway /\ wire' = Closed /\ poll' = NoPoll
    <3>1. Owing' = Owing /\ UNCHANGED <<log, session, issued>> /\ (EventPending' <=> EventPending)
      BY <2>1, <2>4, SameSession DEF service, EventPending
    <3>2. Single(FALSE)'
      BY <2>1, <2>2, <3>1 DEF One, Single
    <3>3. Caught'
      BY <2>1, <2>4, <3>1 DEF One, Caught, NoPoll, GatewayTypes
    <3>4. Answered(FALSE)'
      BY <2>1, <2>2, <2>4, <3>1 DEF One, Answered
    <3> QED BY <2>1, <2>2, <2>4, <3>1, <3>2, <3>3, <3>4 DEF One
  <2> QED BY <2>1, <2>3, <2>4 DEF PollFailed
<1>2. CASE Rejected
  <2>1. poll.on /\ ~ Known /\ wire # Closed
    BY <1>2 DEF Rejected, GatewayTypes
  <2>2. session = 1 /\ wire.session = 1 /\ wire.read <= Len(log) /\ log # <<>>
    BY <2>1 DEF One, FromSocket, Single
  <2> QED BY <2>1, <2>2 DEF Known
<1> QED BY <1>1, <1>2

LEMMA QueuedOne ==
  ASSUME GatewayTypes, NEW stays \in BOOLEAN, One(stays), PollQueued
  PROVE  One(stays)'
<1> DEFINE h == Head(dispatches)
<1>1. /\ bridge = "idle" /\ ~ poll.on /\ ~ EventPending /\ dispatches # <<>>
      /\ cursor' = Cursor(gateway.sequence, gateway.session_id)
      /\ gateway' = [gateway EXCEPT !.pending = h, !.from_queue = TRUE]
      /\ Returned(<<h>>)
      /\ UNCHANGED <<log, session, issued, wire, poll, dispatches, committed>>
  BY DEF PollQueued, ServesQueue, service
<1>2. h = dispatches[1] /\ h \in Events /\ Len(dispatches) \in Nat /\ Len(dispatches) > 0
  BY <1>1, QueueKept
<1>3. h.kind # "none" /\ h # Nothing
  BY <1>2 DEF Events, Nothing
<1> HIDE DEF h
<1>4. /\ gateway'.sequence = gateway.sequence /\ gateway'.session_id = gateway.session_id
      /\ gateway'.pending = h /\ EventPending'
  BY <1>1, <1>3 DEF GatewayTypes, EventPending
<1>5. Owing' = Owing /\ Owing \in SUBSET Nat /\ 0 \notin Owing
  BY <1>1, SameSession, OwedPlaces
<1>6. gateway.pending.sequence = 0
  BY <1>1 DEF EventPending, Nothing
<1>7. Due(log, Owing, h)
  <2>1. Genuine(log, h)
    BY <1>2 DEF One, InQueue
  <2>2. ASSUME NEW i \in Owing, i < h.sequence PROVE FALSE
    <3>1. ~ \E n \in 1 .. 1 - 1 : dispatches[n].sequence = i
      OBVIOUS
    <3>2. 1 \in 1 .. Len(dispatches)
      BY <1>2
    <3> QED BY <1>2, <1>5, <1>6, <2>2, <3>1, <3>2 DEF One, InQueue
  <2>3. h.sequence \in Nat
    BY <1>2 DEF Events
  <2> QED BY <1>5, <2>1, <2>2, <2>3 DEF Due
<1>8. \/ /\ bridge' = "handling" /\ answer' = <<h>> /\ left' = left
      \/ /\ bridge' = "idle" /\ May("losses")
  BY <1>1 DEF Returned
<1>9. Single(stays)' /\ (bridge' = "idle" => stays)
  <2>1. CASE left' = left /\ bridge' = "handling"
    BY <1>1, <2>1 DEF One, Single
  <2>2. CASE May("losses")
    BY <1>1, <2>2, MayLess DEF One, Single, GatewayTypes
  <2> QED BY <1>8, <2>1, <2>2
<1>10. Caught'
  BY <1>1, <1>4, <1>5 DEF One, Caught, Cursor
<1>11. Answered(stays)'
  <2>1. CASE bridge' = "idle"
    BY <1>1, <1>4, <1>5, <1>7, <2>1 DEF Answered
  <2>2. CASE bridge' = "handling" /\ answer' = <<h>>
    <3>1. answer'[1] = h /\ Len(answer') = 1
      BY <2>2
    <3> QED BY <1>1, <1>4, <1>5, <1>7, <2>2, <3>1 DEF Answered
  <2> QED BY <1>8, <2>1, <2>2
<1>12. InQueue(log', Owing', dispatches', gateway'.pending.sequence, stays)
  BY <1>1, <1>5, <1>6, PlaceFree DEF One
<1>13. ASSUME wire' # Closed
       PROVE  FromSocket(log', Owing', wire', dispatches', gateway'.pending.sequence, stays \/ bridge' # "idle")
  BY <1>1, <1>5, <1>6, <1>13 DEF One, FromSocket
<1> QED BY <1>1, <1>9, <1>10, <1>11, <1>12, <1>13 DEF One

(* The answer that the bridge deals with, one event after the other.        *)
LEMMA DealtOne ==
  ASSUME GatewayTypes, NEW stays \in BOOLEAN, One(stays), bridge # "idle", Dealt
  PROVE  /\ bridge' \in {"idle", "handling"}
         /\ bridge' # "idle" => /\ Handed(log, answer'[1]) /\ answer'[1].sequence = 0
                                /\ \A k \in 2 .. Len(answer') : Handed(log, answer'[k])
<1>1. /\ answer' = Tail(answer) /\ Len(Tail(answer)) = Len(answer) - 1 /\ Len(answer) \in Nat
      /\ \A k \in 1 .. Len(Tail(answer)) : Tail(answer)[k] = answer[k + 1]
      /\ bridge' = (IF Len(answer) > 1 THEN "handling" ELSE "idle")
  BY AnswerKept DEF Dealt
<1>2. \A k \in 2 .. Len(answer) : Handed(log, answer[k])
  BY DEF One, Answered
<1>3. ASSUME NEW k \in 1 .. Len(answer) - 1 PROVE Handed(log, answer'[k])
  <2>1. k + 1 \in 2 .. Len(answer)
    BY <1>1
  <2> QED BY <1>1, <1>2, <2>1
<1> QED BY <1>1, <1>3 DEF Handed

LEMMA CommitOne ==
  ASSUME GatewayTypes, NEW stays \in BOOLEAN, One(stays), Commit
  PROVE  One(stays)'
<1>1. /\ bridge = "handling" /\ committed' = committed \union {Head(answer).message}
      /\ IF Head(answer).sequence # 0 THEN bridge' = "acking" /\ UNCHANGED answer ELSE Dealt
      /\ UNCHANGED <<log, session, issued, wire, gateway, poll, cursor, dispatches, left>>
  BY DEF Commit, service
<1>2. Head(answer) = answer[1] /\ answer[1] \in Events
  BY <1>1, AnswerKept
<1>3. Owing' \subseteq Owing /\ 0 \notin Owing
  BY <1>1, OwedPlaces DEF Owing, MessagePlaces
<1>4. EventPending' <=> EventPending
  BY <1>1 DEF EventPending
<1>5. Single(stays)'
  BY <1>1 DEF One, Single
<1>6. Caught'
  BY <1>1, <1>3, <1>4, FewerOwed DEF One, Caught
<1>7. ~ poll.on
  BY <1>1 DEF GatewayTypes
<1>8. EventPending => Due(log', Owing', gateway'.pending)
  BY <1>1, <1>3, FewerOwed DEF One, Answered
<1>9. CASE Head(answer).sequence # 0
  <2>1. bridge' = "acking" /\ answer' = answer /\ answer[1].message \in committed'
    BY <1>1, <1>2, <1>9
  <2>2. Due(log, Owing, answer[1]) \/ Handed(log, answer[1])
    BY <1>1 DEF One, Answered
  <2>3. Due(log', Owing', answer'[1])
    <3>1. ~ Handed(log, answer[1])
      BY <1>2, <1>9 DEF Handed
    <3> QED BY <1>1, <1>3, <2>1, <2>2, <3>1, FewerOwed
  <2>4. Answered(stays)'
    BY <1>1, <1>2, <1>4, <1>8, <1>9, <2>1, <2>3 DEF One, Answered
  <2>5. InQueue(log', Owing', dispatches', gateway'.pending.sequence, stays)
    BY <1>1, <1>3, FewerOwed DEF One
  <2>6. ASSUME wire' # Closed
        PROVE  FromSocket(log', Owing', wire', dispatches', gateway'.pending.sequence, stays \/ bridge' # "idle")
    <3>1. FromSocket(log, Owing, wire, dispatches, gateway.pending.sequence, TRUE)
      BY <1>1, <2>6 DEF One
    <3>2. FromSocket(log, Owing', wire, dispatches, gateway.pending.sequence, TRUE)
      BY <1>3, <3>1 DEF FromSocket
    <3>3. (stays \/ bridge' # "idle") = TRUE
      BY <2>1
    <3> QED BY <1>1, <3>2, <3>3
  <2> QED BY <1>1, <1>5, <1>6, <2>4, <2>5, <2>6 DEF One
<1>10. CASE Head(answer).sequence = 0
  <2>1. ~ EventPending
    <3>1. EventPending => answer[1] = gateway.pending /\ Due(log, Owing, gateway.pending)
      BY <1>1 DEF One, Answered
    <3> QED BY <1>2, <1>10, <3>1 DEF Due, Genuine
  <2>2. gateway.pending.sequence = 0
    BY <2>1 DEF EventPending, Nothing
  <2>3. /\ bridge' \in {"idle", "handling"}
        /\ bridge' # "idle" => /\ Handed(log, answer'[1]) /\ answer'[1].sequence = 0
                               /\ \A k \in 2 .. Len(answer') : Handed(log, answer'[k])
    BY <1>1, <1>10, DealtOne
  <2>4. Answered(stays)'
    BY <1>1, <1>4, <2>1, <2>3 DEF Answered
  <2>5. InQueue(log', Owing', dispatches', gateway'.pending.sequence, stays)
    BY <1>1, <1>3, FewerOwed DEF One
  <2>6. ASSUME wire' # Closed, NEW safe \in BOOLEAN
        PROVE  FromSocket(log', Owing', wire', dispatches', gateway'.pending.sequence, safe)
    BY <1>1, <1>3, <2>2, <2>6 DEF One, FromSocket
  <2> QED BY <1>1, <1>5, <1>6, <2>4, <2>5, <2>6 DEF One
<1> QED BY <1>9, <1>10

LEMMA BlockedOne ==
  ASSUME GatewayTypes, NEW stays \in BOOLEAN, One(stays), Blocked
  PROVE  One(stays)'
<1>1. /\ bridge = "handling" /\ bridge' = "idle" /\ May("losses")
      /\ UNCHANGED <<log, session, issued, wire, gateway, poll, cursor, dispatches, committed>>
  BY DEF Blocked, service
<1>2. Owing' = Owing /\ (EventPending' <=> EventPending)
  BY <1>1, SameSession DEF EventPending
<1>3. stays = TRUE /\ Single(stays)'
  BY <1>1, MayLess DEF One, Single, GatewayTypes
<1>4. Caught' /\ Answered(stays)'
  BY <1>1, <1>2 DEF One, Caught, Answered
<1> QED BY <1>1, <1>2, <1>3, <1>4 DEF One

(* The event that is acknowledged is committed, and the one that waits.     *)
LEMMA AckedOne ==
  ASSUME GatewayTypes, Numbered, NEW stays \in BOOLEAN, One(stays), bridge = "acking"
  PROVE  /\ Head(answer) = answer[1] /\ answer[1] \in Events /\ answer[1].sequence # 0
         /\ answer[1].sequence <= Len(log) /\ UpTo(Owing, answer[1].sequence)
         /\ answer[1].sequence \notin Owing
         /\ EventPending => gateway.pending = answer[1]
         /\ gateway.pending.sequence \notin Owing
         /\ gateway.from_queue =>
              /\ dispatches # <<>> /\ dispatches[1].sequence \notin Owing
              /\ InQueue(log, Owing, Tail(dispatches), 0, stays)
         /\ InQueue(log, Owing, dispatches, 0, stays)
<1>1. /\ Head(answer) = answer[1] /\ answer[1] \in Events
      /\ answer[1].sequence # 0 /\ answer[1].message \in committed
  BY AnswerKept DEF One, Answered
<1>2. Due(log, Owing, answer[1])
  BY <1>1 DEF One, Answered, Handed
<1>0. Single(stays)
  BY DEF One
<1>9. UpTo(Owing, answer[1].sequence) /\ answer[1].sequence \notin Owing
  BY <1>0, <1>1, <1>2, AckedPlace
<1>10. answer[1].sequence <= Len(log)
  BY <1>2, OwedPlaces DEF Due, Genuine
<1>3. UpTo(Owing, answer[1].sequence) /\ answer[1].sequence \notin Owing /\ answer[1].sequence <= Len(log)
  BY <1>9, <1>10
<1>4. EventPending => gateway.pending = answer[1]
  BY DEF One, Answered
<1>5. gateway.pending.sequence \notin Owing
  BY <1>3, <1>4, OwedPlaces DEF EventPending, Nothing
<1>6. InQueue(log, Owing, dispatches, gateway.pending.sequence, stays)
  BY DEF One
<1>7. InQueue(log, Owing, dispatches, 0, stays)
  BY <1>5, <1>6, PlaceFree
<1>8. ASSUME gateway.from_queue
      PROVE  /\ dispatches # <<>> /\ dispatches[1].sequence \notin Owing
             /\ InQueue(log, Owing, Tail(dispatches), 0, stays)
  <2>1. dispatches # <<>> /\ Head(dispatches) = gateway.pending /\ dispatches \in Seq(Events)
    BY <1>8 DEF GatewayTypes
  <2>2. dispatches[1].sequence \notin Owing
    BY <1>5, <2>1
  <2> QED BY <1>5, <1>6, <2>1, <2>2, OwedPlaces, TailQueue
<1> QED BY <1>1, <1>3, <1>4, <1>5, <1>7, <1>8

LEMMA AckOne ==
  ASSUME GatewayTypes, Numbered, NEW stays \in BOOLEAN, One(stays), Ack
  PROVE  One(stays)'
<1> DEFINE h == answer[1]
<1>1. /\ bridge = "acking" /\ Acknowledged(Head(answer).sequence) /\ Dealt
      /\ UNCHANGED <<log, session, issued, wire, poll, committed, left>>
  BY DEF Ack, service
<1>2. /\ Head(answer) = h /\ h \in Events /\ h.sequence # 0
      /\ h.sequence <= Len(log) /\ UpTo(Owing, h.sequence)
      /\ EventPending => gateway.pending = h
      /\ gateway.pending.sequence \notin Owing
      /\ gateway.from_queue =>
           /\ dispatches # <<>> /\ dispatches[1].sequence \notin Owing
           /\ InQueue(log, Owing, Tail(dispatches), 0, stays)
      /\ InQueue(log, Owing, dispatches, 0, stays)
  BY <1>1, AckedOne
<1> HIDE DEF h
<1>3. Owing' = Owing /\ 0 \notin Owing /\ ~ poll.on
  BY <1>1, SameSession, OwedPlaces DEF GatewayTypes
<1>4. Single(stays)'
  BY <1>1 DEF One, Single
<1>5. /\ cursor' = Cursor(h.sequence, gateway.session_id)
      /\ gateway'.session_id = gateway.session_id /\ gateway'.sequence = h.sequence
      /\ gateway'.pending = Nothing /\ gateway'.pending.sequence = 0
      /\ dispatches' = IF EventPending /\ gateway.from_queue THEN Tail(dispatches) ELSE dispatches
  <2>1. CASE EventPending
    <3>1. gateway.pending.sequence = h.sequence
      BY <1>2, <2>1
    <3>2. /\ gateway' = [gateway EXCEPT !.sequence = h.sequence, !.pending = Nothing, !.from_queue = FALSE]
          /\ cursor' = Cursor(h.sequence, gateway.session_id)
          /\ dispatches' = IF gateway.from_queue THEN Tail(dispatches) ELSE dispatches
      BY <1>1, <1>2, <3>1 DEF Acknowledged
    <3>3. gateway \in [sequence : Nat, session_id : Nat, pending : Events \union {Nothing}, from_queue : BOOLEAN]
      BY DEF GatewayTypes
    <3>4. /\ gateway'.session_id = gateway.session_id /\ gateway'.sequence = h.sequence
          /\ gateway'.pending = Nothing
      BY <3>2, <3>3
    <3>5. Nothing.sequence = 0
      BY DEF Nothing
    <3> QED BY <2>1, <3>2, <3>4, <3>5
  <2>2. CASE ~ EventPending
    <3>1. gateway.pending = Nothing /\ gateway.pending.sequence = 0
      BY <2>2 DEF EventPending, Nothing
    <3>2. gateway.pending.sequence # h.sequence
      BY <1>2, <3>1
    <3> QED BY <1>1, <1>2, <2>2, <3>1, <3>2 DEF Acknowledged
  <2> QED BY <2>1, <2>2
<1>6. ~ EventPending'
  BY <1>5 DEF EventPending
<1>7. Caught'
  BY <1>1, <1>2, <1>3, <1>5 DEF One, Caught, Cursor
<1>8. Answered(stays)'
  <2>1. /\ bridge' \in {"idle", "handling"}
        /\ bridge' # "idle" => /\ Handed(log, answer'[1]) /\ answer'[1].sequence = 0
                               /\ \A k \in 2 .. Len(answer') : Handed(log, answer'[k])
    BY <1>1, DealtOne
  <2> QED BY <1>1, <1>6, <2>1 DEF Answered
<1>9. InQueue(log', Owing', dispatches', gateway'.pending.sequence, stays)
  BY <1>1, <1>2, <1>3, <1>5
<1>10. ASSUME wire' # Closed, NEW safe \in BOOLEAN
       PROVE  FromSocket(log', Owing', wire', dispatches', gateway'.pending.sequence, safe)
  <2>1. FromSocket(log, Owing, wire, dispatches, gateway.pending.sequence, TRUE)
    BY <1>1, <1>10 DEF One
  <2>2. ASSUME NEW i \in Owing, i <= wire.read
        PROVE  \E n \in 1 .. Len(dispatches') : dispatches'[n].sequence = i
    <3>1. PICK n \in 1 .. Len(dispatches) : dispatches[n].sequence = i
      BY <1>2, <2>1, <2>2 DEF FromSocket
    <3>2. CASE EventPending /\ gateway.from_queue
      <4>1. /\ dispatches # <<>> /\ dispatches' = Tail(dispatches) /\ n # 1
        BY <1>2, <1>5, <2>2, <3>1, <3>2
      <4>2. /\ Len(dispatches') = Len(dispatches) - 1 /\ Len(dispatches) \in Nat
            /\ \A k \in 1 .. Len(dispatches') : dispatches'[k] = dispatches[k + 1]
        BY <4>1, QueueKept
      <4>3. n - 1 \in 1 .. Len(dispatches') /\ (n - 1) + 1 = n
        BY <4>1, <4>2
      <4>4. dispatches'[n - 1] = dispatches[n]
        BY <4>2, <4>3
      <4> QED BY <3>1, <4>3, <4>4
    <3>3. CASE ~ (EventPending /\ gateway.from_queue)
      BY <1>5, <3>1, <3>3
    <3> QED BY <3>2, <3>3
  <2> QED BY <1>1, <1>3, <2>1, <2>2 DEF FromSocket
<1> QED BY <1>1, <1>4, <1>7, <1>8, <1>9, <1>10 DEF One

(* The ends of the process, and an acknowledgement that fails.              *)
LEMMA StopsOne ==
  ASSUME GatewayTypes, Numbered, NEW stays \in BOOLEAN, One(stays),
         AckFails \/ GivenUp \/ DaemonKilled \/ PluginKilled
  PROVE  One(stays)'
<1>1. Reloaded /\ UNCHANGED <<service, committed>>
  BY DEF AckFails, GivenUp, DaemonKilled, PluginKilled, Stopped
<1>2. stays = FALSE
  <2>1. CASE AckFails \/ DaemonKilled \/ PluginKilled
    BY <2>1, MayLess DEF AckFails, DaemonKilled, PluginKilled, One, Single, GatewayTypes
  <2>2. CASE GivenUp
    <3>1. bridge = "acking" /\ StaleAck
      BY <2>2 DEF GivenUp
    <3>2. Head(answer) = answer[1] /\ answer[1].sequence # 0 /\ (EventPending => gateway.pending = answer[1])
      BY <3>1, AckedOne
    <3> QED BY <3>1, <3>2 DEF StaleAck, One, Answered
  <2> QED BY <2>1, <2>2
<1>3. left'.sessions <= 1 /\ left'.losses = 0
  <2>1. CASE left' = left
    BY <1>2, <2>1 DEF One, Single
  <2>2. CASE May("fails") \/ May("kills")
    BY <1>2, <2>2, MayLess DEF One, Single, GatewayTypes
  <2> QED BY <2>1, <2>2 DEF AckFails, GivenUp, DaemonKilled, PluginKilled
<1>4. UNCHANGED <<bridge, answer>> \/ bridge' = "idle"
  BY DEF AckFails, GivenUp, DaemonKilled, PluginKilled, Stopped
<1>5. /\ cursor'.sequence <= Len(log) /\ UpTo(Owing, cursor'.sequence) /\ cursor'.session_id <= session
      /\ InQueue(log, Owing, dispatches', 0, FALSE)
  <2>1. CASE UNCHANGED <<cursor, dispatches>>
    BY <1>2, <2>1, PlaceFree DEF One, Caught
  <2>2. CASE AckFails
    <3>1. /\ Head(answer) = answer[1] /\ answer[1].sequence <= Len(log) /\ UpTo(Owing, answer[1].sequence)
          /\ gateway.from_queue => InQueue(log, Owing, Tail(dispatches), 0, FALSE)
          /\ InQueue(log, Owing, dispatches, 0, FALSE)
      BY <1>2, <2>2, AckedOne DEF AckFails
    <3>2. cursor' = cursor \/ cursor' = Cursor(answer[1].sequence, gateway.session_id)
      BY <2>2, <3>1 DEF AckFails
    <3>3. dispatches' = dispatches \/ (gateway.from_queue /\ dispatches' = Tail(dispatches))
      BY <2>2 DEF AckFails
    <3>4. InQueue(log, Owing, dispatches', 0, FALSE)
      <4>1. CASE dispatches' = dispatches
        BY <3>1, <4>1
      <4>2. CASE gateway.from_queue /\ dispatches' = Tail(dispatches)
        BY <3>1, <4>2
      <4> QED BY <3>3, <4>1, <4>2
    <3>5. /\ cursor'.sequence <= Len(log) /\ UpTo(Owing, cursor'.sequence) /\ cursor'.session_id <= session
      <4>1. CASE cursor' = cursor
        BY <4>1 DEF One, Caught
      <4>2. CASE cursor' = Cursor(answer[1].sequence, gateway.session_id)
        <5>1. cursor'.sequence = answer[1].sequence /\ cursor'.session_id = gateway.session_id
          BY <4>2 DEF Cursor
        <5> QED BY <3>1, <5>1 DEF One, Caught
      <4> QED BY <3>2, <4>1, <4>2
    <3> QED BY <3>4, <3>5
  <2> QED BY <2>1, <2>2 DEF GivenUp, DaemonKilled, PluginKilled, Stopped
<1> QED BY <1>1, <1>2, <1>3, <1>4, <1>5, ReloadOne

LEMMA OneStep ==
  ASSUME NEW stays \in BOOLEAN
  PROVE  GatewayTypes /\ Numbered /\ One(stays) /\ [DiscordNext]_discord => One(stays)'
<1> SUFFICES ASSUME GatewayTypes, Numbered, One(stays), [DiscordNext]_discord PROVE One(stays)'
  OBVIOUS
<1>1. CASE SessionForgotten
  BY <1>1 DEF SessionForgotten, One, Single, GatewayTypes
<1>2. CASE UNCHANGED discord
  <2>1. /\ Owing' = Owing /\ (EventPending' <=> EventPending)
        /\ UNCHANGED <<log, session, issued, wire, gateway, poll, cursor, dispatches, bridge, answer, committed, left>>
    BY <1>2, SameSession DEF discord, EventPending
  <2>2. Single(stays)' /\ Caught' /\ Answered(stays)'
    BY <2>1 DEF One, Single, Caught, Answered
  <2> QED BY <2>1, <2>2 DEF One
<1> QED BY <1>1, <1>2, SentOne, StartsOne, ReadOne, EventOne, AwaitingOne, EndsOne, FailsOne, QueuedOne,
           CommitOne, BlockedOne, AckOne, StopsOne DEF DiscordNext

(* With one session nothing is committed past what is owed, nor read.       *)
LEMMA OneCommits ==
  ASSUME GatewayTypes, Numbered, NEW stays \in BOOLEAN, One(stays)
  PROVE  CommitsNext /\ NothingSkipped
<1>1. CommitsNext
  <2> SUFFICES ASSUME bridge = "handling"
               PROVE  /\ Head(answer).message <= issued
                      /\ \A j \in MessagePlaces : log[j].message = Head(answer).message => \A i \in Owing : j <= i
    BY DEF CommitsNext
  <2> DEFINE h == answer[1]
  <2>1. Head(answer) = h /\ h \in Events /\ Len(log) \in Nat /\ issued \in Nat
    BY AnswerKept DEF GatewayTypes
  <2>2. Due(log, Owing, h) \/ Handed(log, h)
    BY DEF One, Answered
  <2> HIDE DEF h
  <2>3. h.message + 1 \in 2 .. Len(log) /\ h.message \in Nat
    BY <2>1, <2>2 DEF Due, Genuine, Handed, Events
  <2>4. issued = Len(log) - 1
    BY <2>1, <2>3 DEF One, Single
  <2>5. ASSUME NEW j \in MessagePlaces, log[j].message = h.message PROVE j = h.message + 1
    <3>1. j \in 1 .. Len(log) /\ log[j].kind = "message"
      BY <2>5 DEF MessagePlaces
    <3>2. j # 1
      BY <2>1, <3>1 DEF Numbered, Ready
    <3>3. log[j].message = issued - Len(log) + j
      BY <2>1, <3>1, <3>2 DEF Numbered
    <3> QED BY <2>1, <2>4, <2>5, <3>1, <3>3
  <2>6. ASSUME NEW j \in MessagePlaces, log[j].message = h.message, NEW i \in Owing PROVE j <= i
    <3>1. j = h.message + 1 /\ log[j].kind = "message"
      BY <2>5, <2>6 DEF MessagePlaces
    <3>2. ~ Handed(log, h)
      BY <3>1 DEF Handed
    <3> QED BY <2>2, <2>3, <3>1, <3>2 DEF Due, Genuine
  <2> QED BY <2>1, <2>3, <2>4, <2>6
<1>2. NothingSkipped
  <2> SUFFICES ASSUME NEW i \in Owing, i <= Behind PROVE log[i].message \in InHand
    BY DEF NothingSkipped, Owing
  <2>1. /\ i \in 1 .. Len(log) /\ Len(log) \in Nat /\ log # <<>> /\ log[i].kind = "message" /\ session = 1
    BY OwedPlaces DEF One, Single
  <2>2. issued = Len(log) - 1 /\ i \in 2 .. Len(log)
    BY <2>1 DEF One, Single, Numbered, Ready
  <2>3. log[i].message = i - 1
    BY <2>1, <2>2 DEF Numbered
  <2>4. wire # Closed /\ i <= wire.read
    <3>1. UpTo(Owing, gateway.sequence) /\ gateway.sequence \in Nat
      BY DEF One, Caught, GatewayTypes
    <3>2. wire = Closed => Behind \in {0, gateway.sequence}
      BY DEF Behind
    <3>3. wire # Closed => Behind = wire.read
      BY <2>1 DEF Behind, One, FromSocket
    <3> QED BY <2>1, <3>1, <3>2, <3>3 DEF UpTo
  <2>5. \/ \E n \in 1 .. Len(dispatches) : dispatches[n].sequence = i
        \/ i = gateway.pending.sequence
    BY <2>4 DEF One, FromSocket
  <2>6. ASSUME NEW n \in 1 .. Len(dispatches), dispatches[n].sequence = i PROVE dispatches[n].message = i - 1
    BY <2>6 DEF One, InQueue, Genuine
  <2>7. ASSUME i = gateway.pending.sequence PROVE gateway.pending.message = i - 1
    <3>1. EventPending
      BY <2>1, <2>7 DEF EventPending, Nothing
    <3> QED BY <2>7, <3>1 DEF One, Answered, Due, Genuine
  <2> QED BY <2>3, <2>5, <2>6, <2>7 DEF InHand
<1> QED BY <1>1, <1>2

-----------------------------------------------------------------------------
(* Any number of sessions, where nothing fails.                             *)

(* No message up to the n-th dispatch of the log is owed.                   *)
Within(l, owing, n) == n <= Len(l) /\ UpTo(owing, n)

NoFaults == left.losses = 0 /\ left.fails = 0 /\ left.kills = 0

(* Nothing waits between the polls, and what is dealt with was read last.   *)
AtHand ==
  /\ dispatches = <<>>
  /\ bridge = "idle" => ~ EventPending
  /\ bridge # "idle" =>
       /\ EventPending /\ answer = <<gateway.pending>> /\ wire # Closed
       /\ gateway.pending.sequence # 0 /\ gateway.pending.message <= issued
       /\ log # <<>> => /\ gateway.pending.sequence = wire.read /\ wire.read \in 1 .. Len(log)
                        /\ gateway.pending.message = log[wire.read].message
  /\ bridge = "acking" => gateway.pending.message \in committed

(* The plugin knows no session but the last.                                *)
OfLast ==
  /\ log # <<>> => session # 0
  /\ {gateway.session_id, cursor.session_id, poll.session_id} \subseteq {0, session}
  /\ ~ poll.on /\ gateway.session_id = 0 => cursor.session_id = 0

(* What was read of it is committed, but what is dealt with.                *)
Followed ==
  /\ wire # Closed =>
       /\ wire.session = session
       /\ log # <<>> => /\ wire.read <= Len(log)
                        /\ \A i \in Owing : i <= wire.read => bridge # "idle" /\ i = wire.read
  /\ log # <<>> /\ gateway.session_id = session /\ bridge = "idle" => Within(log, Owing, gateway.sequence)
  /\ log # <<>> /\ poll.on /\ poll.session_id = session => Within(log, Owing, poll.sequence)

Many == NoFaults /\ AtHand /\ OfLast /\ Followed

(* The bounds forbid every fault.                                           *)
LEMMA NoneFails ==
  ASSUME GatewayTypes, NoFaults, NEW f \in {"losses", "fails", "kills"}
  PROVE  ~ May(f)
BY MayLess DEF NoFaults, GatewayTypes

(* Discord sends another dispatch, which nothing has read yet.              *)
LEMMA SentMany ==
  ASSUME GatewayTypes, Many, NEW kind \in Kinds, Sent(kind)
  PROVE  Many'
<1> DEFINE e == [message |-> issued + 1, kind |-> kind]
<1>1. /\ log' = Append(log, e) /\ issued' = issued + 1 /\ log # <<>> /\ e \in Dispatch /\ issued \in Nat
      /\ UNCHANGED <<session, wire, gateway, poll, cursor, dispatches, bridge, answer, committed, left>>
      /\ log \in Seq(Dispatch) /\ Len(log) \in Nat
      /\ gateway.sequence \in Nat /\ poll.sequence \in Nat
  BY DEF GatewayTypes, Sent, Dispatch
<1> HIDE DEF e
<1>2. /\ Len(log') = Len(log) + 1 /\ log' # <<>>
      /\ \A i \in 1 .. Len(log) : log'[i] = log[i]
  BY <1>1
<1>3. \A i \in Owing' : i \in Owing \/ i = Len(log) + 1
  BY <1>1, <1>2 DEF Owing, MessagePlaces
<1>4. ASSUME NEW n \in Nat, Within(log, Owing, n) PROVE Within(log', Owing', n)
  <2>1. ASSUME NEW i \in Owing' PROVE n < i
    <3>1. CASE i \in Owing
      BY <1>4, <3>1 DEF Within, UpTo
    <3>2. CASE i = Len(log) + 1
      BY <1>1, <1>4, <3>2 DEF Within
    <3> QED BY <1>3, <2>1, <3>1, <3>2
  <2> QED BY <1>1, <1>2, <1>4, <2>1 DEF Within, UpTo
<1>5. AtHand'
  <2>1. ASSUME bridge # "idle"
        PROVE  /\ wire.read \in 1 .. Len(log') /\ gateway.pending.sequence = wire.read
               /\ gateway.pending.message = log'[wire.read].message
               /\ gateway.pending.message <= issued'
    <3>1. gateway.pending.message \in Nat
      BY <2>1 DEF Many, AtHand, GatewayTypes, EventPending, Events
    <3>2. wire.read \in 1 .. Len(log) /\ gateway.pending.sequence = wire.read
          /\ gateway.pending.message = log[wire.read].message /\ gateway.pending.message <= issued
      BY <1>1, <2>1 DEF Many, AtHand
    <3> QED BY <1>1, <1>2, <3>1, <3>2
  <2> QED BY <1>1, <2>1 DEF Many, AtHand, EventPending
<1>6. Followed'
  <2>1. ASSUME wire # Closed
        PROVE  /\ wire.session = session /\ wire.read <= Len(log')
               /\ \A i \in Owing' : i <= wire.read => bridge # "idle" /\ i = wire.read
    <3>1. wire.read \in Nat
      BY <2>1 DEF GatewayTypes
    <3> QED BY <1>1, <1>2, <1>3, <2>1, <3>1 DEF Many, Followed
  <2> QED BY <1>1, <1>4, <2>1 DEF Many, Followed
<1>7. NoFaults' /\ OfLast'
  BY <1>1 DEF Many, NoFaults, OfLast
<1> QED BY <1>5, <1>6, <1>7 DEF Many

LEMMA ForgottenMany ==
  ASSUME GatewayTypes, Many, SessionForgotten
  PROVE  Many'
BY DEF SessionForgotten, Many, NoFaults, AtHand, OfLast, Followed, EventPending

LEMMA StartsMany ==
  ASSUME GatewayTypes, Many, PollStarts
  PROVE  Many'
<1>1. /\ UNCHANGED <<issued, gateway, cursor, dispatches, bridge, answer, committed, left>>
      /\ poll' = [on |-> TRUE, sequence |-> gateway.sequence, session_id |-> gateway.session_id]
      /\ (EventPending' <=> EventPending)
      /\ bridge = "idle" /\ ~ poll.on
  BY DEF PollStarts, EventPending
<1>2. poll'.on /\ poll'.sequence = gateway.sequence /\ poll'.session_id = gateway.session_id
  BY <1>1
<1>3. NoFaults'
  BY <1>1 DEF Many, NoFaults
<1>4. AtHand'
  BY <1>1 DEF Many, AtHand
<1>5. session \in Nat /\ gateway.sequence \in Nat /\ Owing \in SUBSET Nat
  BY OwedPlaces DEF GatewayTypes
<1>6. CASE wire # Closed /\ UNCHANGED <<log, session, wire>>
  <2>1. Owing' = Owing
    BY <1>1, <1>6, SameSession
  <2>2. OfLast'
    BY <1>1, <1>2, <1>6 DEF Many, OfLast
  <2>3. Followed'
    BY <1>1, <1>2, <1>6, <2>1 DEF Many, Followed
  <2> QED BY <1>3, <1>4, <2>2, <2>3 DEF Many
<1>7. CASE /\ gateway.session_id = 0 /\ session' = session + 1 /\ log' = <<Ready>>
           /\ wire' = [session |-> session', read |-> 0]
  <2>1. Len(log') = 1 /\ log'[1] = Ready /\ Ready.kind # "message"
    BY <1>7 DEF Ready
  <2>2. Owing' = {}
    BY <2>1 DEF Owing, MessagePlaces
  <2>3. cursor.session_id = 0 /\ session' # 0
    BY <1>1, <1>5, <1>7 DEF Many, OfLast
  <2>4. OfLast'
    BY <1>1, <1>2, <1>7, <2>3 DEF OfLast
  <2>5. wire'.session = session' /\ wire'.read = 0
    BY <1>7
  <2>6. Followed'
    BY <1>1, <1>2, <1>7, <2>1, <2>2, <2>3, <2>5 DEF Followed
  <2> QED BY <1>3, <1>4, <2>4, <2>6 DEF Many
<1>8. CASE /\ gateway.session_id # 0 /\ UNCHANGED <<log, session>>
           /\ wire' = [session |-> gateway.session_id, read |-> gateway.sequence]
  <2>1. Owing' = Owing
    BY <1>1, <1>8, SameSession
  <2>2. OfLast'
    BY <1>1, <1>2, <1>8 DEF Many, OfLast
  <2>3. gateway.session_id = session /\ wire'.session = session /\ wire'.read = gateway.sequence
    BY <1>8 DEF Many, OfLast
  <2>4. log # <<>> => Within(log, Owing, gateway.sequence)
    BY <1>1, <2>3 DEF Many, Followed
  <2>5. log # <<>> => \A i \in Owing : ~ (i <= gateway.sequence)
    BY <1>5, <2>4 DEF Within, UpTo
  <2>6. log # <<>> => gateway.sequence <= Len(log)
    BY <2>4 DEF Within
  <2>7. Followed'
    BY <1>1, <1>2, <1>8, <2>1, <2>3, <2>4, <2>5, <2>6 DEF Followed
  <2> QED BY <1>3, <1>4, <2>2, <2>7 DEF Many
<1> QED BY <1>6, <1>7, <1>8 DEF PollStarts

(* What is read when nothing waits.                                         *)
LEMMA ReadMany ==
  ASSUME GatewayTypes, Many, NEW kinds, Read(kinds)
  PROVE  /\ poll.on /\ bridge = "idle" /\ ~ EventPending /\ log # <<>> /\ session # 0
         /\ wire # Closed /\ wire.session = session /\ wire.read \in Nat /\ wire.read < Len(log) /\ Len(log) \in Nat
         /\ Further = [session |-> session, read |-> wire.read + 1] /\ Further # Closed
         /\ log[wire.read + 1].kind \in kinds
         /\ \A i \in Owing : i <= wire.read + 1 => i = wire.read + 1
         /\ "message" \notin kinds => Within(log, Owing, wire.read + 1)
<1>1. /\ poll.on /\ bridge = "idle" /\ ~ EventPending /\ log # <<>> /\ session # 0
      /\ wire # Closed /\ wire \in [session : Nat, read : Nat] /\ wire.session = session
      /\ wire.read < Len(log) /\ Len(log) \in Nat /\ log[wire.read + 1].kind \in kinds
  BY DEF GatewayTypes, Many, AtHand, OfLast, Read, Known
<1>2. Further = [session |-> session, read |-> wire.read + 1] /\ Further # Closed
  BY <1>1 DEF Further, Closed
<1>3. Owing \in SUBSET Nat /\ \A i \in Owing : log[i].kind = "message"
  BY OwedPlaces
<1>4. \A i \in Owing : ~ (i <= wire.read)
  BY <1>1 DEF Many, Followed
<1>5. ASSUME "message" \notin kinds PROVE Within(log, Owing, wire.read + 1)
  <2>1. wire.read + 1 \notin Owing
    BY <1>1, <1>3, <1>5
  <2> QED BY <1>1, <1>3, <1>4, <2>1 DEF Within, UpTo
<1> QED BY <1>1, <1>2, <1>3, <1>4, <1>5

LEMMA PassedMany ==
  ASSUME GatewayTypes, Many, ReadReady \/ ReadOtherDispatch
  PROVE  Many'
<1>1. PICK kinds \in {{"ready"}, {"other"}} : Read(kinds)
  BY DEF ReadReady, ReadOtherDispatch
<1>2. /\ poll.on /\ bridge = "idle" /\ ~ EventPending /\ log # <<>> /\ session # 0
      /\ wire # Closed /\ wire.session = session /\ wire.read \in Nat /\ wire.read < Len(log) /\ Len(log) \in Nat
      /\ Further = [session |-> session, read |-> wire.read + 1] /\ Further # Closed
      /\ Within(log, Owing, wire.read + 1)
  BY <1>1, ReadMany
<1>3. /\ UNCHANGED <<log, session, issued, gateway, dispatches, bridge, answer, committed, left>>
      /\ wire' = Further
  BY DEF ReadReady, ReadOtherDispatch, service
<1>4. poll'.on /\ poll'.sequence = wire.read + 1 /\ poll'.session_id \in {0, session}
  <2>1. poll \in [on : BOOLEAN, sequence : Nat, session_id : Nat] /\ poll.session_id \in {0, session}
    BY DEF GatewayTypes, Many, OfLast
  <2>2. \/ poll' = [poll EXCEPT !.sequence = wire.read + 1, !.session_id = wire.session]
        \/ poll' = [poll EXCEPT !.sequence = wire.read + 1]
    BY DEF ReadReady, ReadOtherDispatch
  <2> QED BY <1>2, <2>1, <2>2
<1>5. cursor'.session_id \in {0, session}
  <2>1. CASE ReadReady
    BY <1>2, <2>1 DEF ReadReady, Cursor
  <2>2. CASE ReadOtherDispatch
    BY <2>2 DEF ReadOtherDispatch, Many, OfLast
  <2> QED BY <2>1, <2>2
<1>6. Owing' = Owing /\ (EventPending' <=> EventPending) /\ Owing \in SUBSET Nat
  BY <1>3, SameSession, OwedPlaces DEF EventPending
<1>7. NoFaults' /\ AtHand'
  BY <1>2, <1>3, <1>6 DEF Many, NoFaults, AtHand
<1>8. OfLast'
  BY <1>2, <1>3, <1>4, <1>5 DEF Many, OfLast
<1>9. Followed'
  <2>1. wire'.session = session /\ wire'.read = wire.read + 1 /\ wire.read + 1 <= Len(log)
    BY <1>2, <1>3
  <2>2. \A i \in Owing : ~ (i <= wire.read + 1)
    BY <1>2, <1>6 DEF Within, UpTo
  <2> QED BY <1>2, <1>3, <1>4, <1>6, <2>1, <2>2 DEF Many, Followed
<1> QED BY <1>7, <1>8, <1>9 DEF Many

(* A poll that ends, with an event or without one.                          *)
LEMMA DoneMany ==
  ASSUME GatewayTypes, Many, NEW n, NEW pending, NEW socket, NEW events, PollDone(n, pending, socket, events)
  PROVE  /\ cursor' = Cursor(n, poll.session_id) /\ wire' = socket /\ poll' = NoPoll
         /\ gateway'.sequence = n /\ gateway'.session_id = poll.session_id /\ gateway'.pending = pending
         /\ answer' = events /\ bridge' = (IF events = <<>> THEN "idle" ELSE "handling") /\ left' = left
<1>1. ~ May("fails") /\ ~ May("losses")
  BY NoneFails DEF Many
<1>2. gateway \in [sequence : Nat, session_id : Nat, pending : Events \union {Nothing}, from_queue : BOOLEAN]
  BY DEF GatewayTypes
<1> QED BY <1>1, <1>2 DEF PollDone, Returned

LEMMA EventMany ==
  ASSUME GatewayTypes, Numbered, Many, ReadEvent
  PROVE  Many'
<1>1. Read({"message", "press"}) /\ PollDone(gateway.sequence, StagedEvent, Further, <<StagedEvent>>)
      /\ UNCHANGED <<log, session, issued, dispatches, committed>>
  BY DEF ReadEvent, service
<1>2. /\ poll.on /\ bridge = "idle" /\ ~ EventPending /\ log # <<>> /\ session # 0
      /\ wire # Closed /\ wire.session = session /\ wire.read \in Nat /\ wire.read < Len(log) /\ Len(log) \in Nat
      /\ Further = [session |-> session, read |-> wire.read + 1] /\ Further # Closed
      /\ log[wire.read + 1].kind \in {"message", "press"}
      /\ \A i \in Owing : i <= wire.read + 1 => i = wire.read + 1
  BY <1>1, ReadMany
<1>3. /\ cursor' = Cursor(gateway.sequence, poll.session_id) /\ wire' = Further /\ poll' = NoPoll
      /\ gateway'.sequence = gateway.sequence /\ gateway'.session_id = poll.session_id
      /\ gateway'.pending = StagedEvent
      /\ answer' = <<StagedEvent>> /\ bridge' = "handling" /\ left' = left
  BY <1>1, DoneMany
<1>4. Owing' = Owing
  BY <1>1, SameSession
<1>5. /\ StagedEvent.sequence = wire.read + 1 /\ StagedEvent.message = log[wire.read + 1].message
      /\ StagedEvent # Nothing
  BY <1>2 DEF StagedEvent, Nothing
<1>6. StagedEvent.message <= issued
  <2>1. wire.read + 1 # 1
    BY <1>2 DEF Numbered, Ready
  <2>2. log[wire.read + 1].message = issued - Len(log) + (wire.read + 1)
    BY <1>2, <2>1 DEF Numbered
  <2>3. issued \in Nat
    BY DEF GatewayTypes
  <2> QED BY <1>2, <1>5, <2>2, <2>3
<1>7. wire'.session = session /\ wire'.read = wire.read + 1 /\ wire' # Closed
  BY <1>2, <1>3
<1>8. AtHand'
  <2>1. EventPending'
    BY <1>3, <1>5 DEF EventPending
  <2>2. wire'.read \in 1 .. Len(log')
    BY <1>1, <1>2, <1>7
  <2> QED BY <1>1, <1>2, <1>3, <1>5, <1>6, <1>7, <2>1, <2>2 DEF Many, AtHand
<1>9. OfLast'
  <2>1. ~ poll'.on /\ poll'.session_id = 0 /\ cursor'.session_id = poll.session_id
    BY <1>3 DEF NoPoll, Cursor
  <2> QED BY <1>1, <1>3, <2>1 DEF Many, OfLast
<1>10. Followed'
  <2>1. ~ poll'.on
    BY <1>3 DEF NoPoll
  <2>2. wire'.read <= Len(log')
    BY <1>1, <1>2, <1>7
  <2> QED BY <1>1, <1>2, <1>3, <1>4, <1>7, <2>1, <2>2 DEF Followed
<1>11. NoFaults'
  BY <1>3 DEF Many, NoFaults
<1> QED BY <1>8, <1>9, <1>10, <1>11 DEF Many

LEMMA EndsMany ==
  ASSUME GatewayTypes, Many, PollEnds
  PROVE  Many'
<1>1. poll.on /\ ~ EventPending /\ bridge = "idle" /\ UNCHANGED <<log, session, issued, dispatches, committed>>
  BY DEF PollEnds, GatewayTypes, Many, AtHand, service
<1>2. PICK socket \in {wire, Closed} : PollDone(poll.sequence, Nothing, socket, <<>>)
  BY <1>1 DEF PollEnds
<1>3. /\ cursor' = Cursor(poll.sequence, poll.session_id) /\ wire' = socket /\ poll' = NoPoll
      /\ gateway'.sequence = poll.sequence /\ gateway'.session_id = poll.session_id /\ gateway'.pending = Nothing
      /\ answer' = <<>> /\ bridge' = "idle" /\ left' = left
  BY <1>2, DoneMany
<1>4. Owing' = Owing
  BY <1>1, SameSession
<1>5. ~ poll'.on /\ poll'.session_id = 0 /\ cursor'.session_id = poll.session_id
  BY <1>3 DEF NoPoll, Cursor
<1>6. NoFaults' /\ AtHand'
  BY <1>1, <1>3 DEF Many, NoFaults, AtHand, EventPending
<1>7. OfLast'
  BY <1>1, <1>3, <1>5 DEF Many, OfLast
<1>8. Followed'
  BY <1>1, <1>2, <1>3, <1>4, <1>5 DEF Many, Followed
<1> QED BY <1>6, <1>7, <1>8 DEF Many

LEMMA RejectedMany ==
  ASSUME GatewayTypes, Many, Rejected
  PROVE  Many'
<1>1. /\ poll.on /\ bridge = "idle" /\ ~ EventPending
      /\ cursor' = Cursor(gateway.sequence, 0) /\ PollFailed(gateway)
      /\ UNCHANGED <<log, session, issued, dispatches, bridge, answer, committed, left>>
  BY DEF Rejected, GatewayTypes, Many, AtHand, service
<1>2. Owing' = Owing
  BY <1>1, SameSession
<1>3. /\ wire' = Closed /\ poll' = NoPoll /\ ~ poll'.on /\ poll'.session_id = 0 /\ cursor'.session_id = 0
      /\ gateway' = gateway \/ (gateway'.session_id = 0 /\ gateway'.pending = Nothing)
  BY <1>1 DEF PollFailed, Reloaded, LoadedState, NoPoll, Cursor
<1>4. NoFaults' /\ AtHand'
  BY <1>1, <1>3 DEF Many, NoFaults, AtHand, EventPending
<1>5. OfLast'
  BY <1>1, <1>3 DEF Many, OfLast
<1>6. Followed'
  BY <1>1, <1>2, <1>3 DEF Many, OfLast, Followed
<1> QED BY <1>4, <1>5, <1>6 DEF Many

LEMMA CommitMany ==
  ASSUME GatewayTypes, Many, Commit
  PROVE  Many'
<1>1. /\ bridge = "handling" /\ answer = <<gateway.pending>> /\ gateway.pending.sequence # 0 /\ EventPending
  BY DEF Commit, Many, AtHand
<1>2. Head(answer) = gateway.pending
  BY <1>1
<1>3. /\ committed' = committed \union {gateway.pending.message} /\ bridge' = "acking" /\ answer' = answer
      /\ UNCHANGED <<log, session, issued, wire, gateway, poll, cursor, dispatches, left>>
  BY <1>1, <1>2 DEF Commit, service
<1>4. Owing' \subseteq Owing
  BY <1>3 DEF Owing, MessagePlaces
<1>5. NoFaults' /\ OfLast'
  BY <1>3 DEF Many, NoFaults, OfLast
<1>6. AtHand'
  BY <1>1, <1>3 DEF Many, AtHand, EventPending
<1>7. Followed'
  <2>1. ~ poll.on
    BY <1>1 DEF GatewayTypes
  <2> QED BY <1>1, <1>3, <1>4, <2>1 DEF Many, Followed
<1> QED BY <1>5, <1>6, <1>7 DEF Many

LEMMA AckMany ==
  ASSUME GatewayTypes, Many, Ack
  PROVE  Many'
<1>1. /\ bridge = "acking" /\ answer = <<gateway.pending>> /\ gateway.pending.sequence # 0 /\ EventPending
      /\ dispatches = <<>> /\ ~ gateway.from_queue /\ ~ poll.on /\ wire # Closed
      /\ gateway \in [sequence : Nat, session_id : Nat, pending : Events \union {Nothing}, from_queue : BOOLEAN]
      /\ gateway.pending.message \in committed
  BY DEF Ack, Many, AtHand, GatewayTypes
<1>2. Head(answer) = gateway.pending /\ Len(answer) = 1 /\ Tail(answer) = <<>>
  BY <1>1
<1>3. /\ gateway' = [gateway EXCEPT !.sequence = gateway.pending.sequence, !.pending = Nothing, !.from_queue = FALSE]
      /\ cursor' = Cursor(gateway.pending.sequence, gateway.session_id)
      /\ dispatches' = <<>> /\ answer' = <<>> /\ bridge' = "idle"
      /\ UNCHANGED <<log, session, issued, wire, poll, committed, left>>
  BY <1>1, <1>2 DEF Ack, Acknowledged, Dealt, service
<1>4. /\ gateway'.sequence = gateway.pending.sequence /\ gateway'.pending = Nothing
      /\ gateway'.session_id = gateway.session_id /\ cursor'.session_id = gateway.session_id
  BY <1>1, <1>3 DEF Cursor
<1>5. Owing' = Owing /\ Owing \in SUBSET Nat
  BY <1>3, SameSession, OwedPlaces
<1>6. NoFaults' /\ AtHand'
  BY <1>3, <1>4 DEF Many, NoFaults, AtHand, EventPending
<1>7. OfLast'
  BY <1>1, <1>3, <1>4 DEF Many, OfLast
<1>8. Followed'
  <2>1. ASSUME log # <<>>
        PROVE  /\ wire.session = session /\ wire.read <= Len(log) /\ gateway.pending.sequence = wire.read
               /\ \A i \in Owing : ~ (i <= wire.read)
    <3>1. /\ gateway.pending.sequence = wire.read /\ wire.read \in 1 .. Len(log)
          /\ gateway.pending.message = log[wire.read].message
      BY <1>1, <2>1 DEF Many, AtHand
    <3>2. wire.read \notin Owing
      BY <1>1, <3>1 DEF Owing
    <3>3. wire.session = session /\ \A i \in Owing : i <= wire.read => i = wire.read
      BY <1>1, <2>1 DEF Many, Followed
    <3> QED BY <3>1, <3>2, <3>3, OwedPlaces
  <2>2. ASSUME log # <<>> PROVE Within(log, Owing, gateway.pending.sequence)
    <3>1. wire.read \in Nat
      BY <1>1 DEF GatewayTypes
    <3>2. ASSUME NEW i \in Owing PROVE wire.read < i
      <4>1. i \in Nat /\ ~ (i <= wire.read)
        BY <1>5, <2>1, <2>2
      <4> QED BY <3>1, <4>1
    <3> QED BY <2>1, <2>2, <3>2 DEF Within, UpTo
  <2>3. wire.session = session
    BY <1>1 DEF Many, Followed
  <2> QED BY <1>1, <1>3, <1>4, <1>5, <2>1, <2>2, <2>3 DEF Followed
<1> QED BY <1>6, <1>7, <1>8 DEF Many

LEMMA ManyStep == GatewayTypes /\ Numbered /\ Many /\ [DiscordNext]_discord => Many'
<1> SUFFICES ASSUME GatewayTypes, Numbered, Many, [DiscordNext]_discord PROVE Many'
  OBVIOUS
<1>1. ~ May("losses") /\ ~ May("fails") /\ ~ May("kills")
  BY NoneFails DEF Many
<1>2. ~ PollQueued
  BY DEF PollQueued, ServesQueue, Many, AtHand
<1>3. ~ ReadAwaiting /\ ~ ReadPress
  BY DEF ReadAwaiting, ReadPress, Read, GatewayTypes, Many, AtHand
<1>4. ~ PollFails /\ ~ Blocked /\ ~ AckFails /\ ~ DaemonKilled /\ ~ PluginKilled
  BY <1>1 DEF PollFails, Blocked, AckFails, DaemonKilled, PluginKilled
<1>5. ~ GivenUp
  <2> SUFFICES ASSUME bridge = "acking" PROVE ~ StaleAck
    BY DEF GivenUp
  <2>1. answer = <<gateway.pending>>
    BY DEF Many, AtHand
  <2>2. Head(answer) = gateway.pending
    BY <2>1
  <2> QED BY <2>2 DEF StaleAck
<1>6. CASE UNCHANGED discord
  <2>1. /\ UNCHANGED <<log, session, issued, wire, gateway, poll, cursor, dispatches, bridge, answer, committed, left>>
        /\ Owing' = Owing /\ (EventPending' <=> EventPending)
    BY <1>6, SameSession DEF discord, EventPending
  <2> QED BY <2>1 DEF Many, NoFaults, AtHand, OfLast, Followed
<1> QED BY <1>2, <1>3, <1>4, <1>5, <1>6, SentMany, ForgottenMany, StartsMany, PassedMany, EventMany, EndsMany,
           RejectedMany, CommitMany, AckMany DEF DiscordNext

(* And what is committed next is the first that is owed.                    *)
LEMMA ManyCommits ==
  ASSUME GatewayTypes, Numbered, Many
  PROVE  CommitsNext /\ NothingSkipped
<1>0. /\ Len(log) \in Nat /\ issued \in Nat /\ Owing \in SUBSET (1 .. Len(log))
  BY OwedPlaces DEF GatewayTypes
<1>1. CommitsNext
  <2> SUFFICES ASSUME bridge = "handling"
               PROVE  /\ Head(answer).message <= issued
                      /\ \A j \in MessagePlaces : log[j].message = Head(answer).message => \A i \in Owing : j <= i
    BY DEF CommitsNext
  <2>1. /\ answer = <<gateway.pending>> /\ gateway.pending.message <= issued /\ wire # Closed /\ EventPending
    BY DEF Many, AtHand
  <2>2. Head(answer) = gateway.pending
    BY <2>1
  <2>3. ASSUME NEW j \in MessagePlaces, log[j].message = gateway.pending.message, NEW i \in Owing PROVE j <= i
    <3>1. j \in 1 .. Len(log) /\ log[j].kind = "message" /\ log # <<>>
      BY <1>0, <2>3 DEF MessagePlaces
    <3>2. /\ wire.read \in 1 .. Len(log) /\ gateway.pending.message = log[wire.read].message
      BY <3>1 DEF Many, AtHand
    <3>3. i <= wire.read => i = wire.read
      BY <2>1, <2>3, <3>1 DEF Many, Followed
    <3>4. issued >= Len(log) - 1 /\ log[1] = Ready /\ j # 1
      BY <3>1 DEF Numbered, Ready
    <3>5. log[j].message = issued - Len(log) + j
      BY <1>0, <3>1, <3>4 DEF Numbered
    <3>6. wire.read # 1
      <4>1. Ready.message = 0
        BY DEF Ready
      <4> QED BY <1>0, <2>3, <3>1, <3>2, <3>4, <3>5, <4>1
    <3>7. log[wire.read].message = issued - Len(log) + wire.read
      BY <1>0, <3>2, <3>6 DEF Numbered
    <3>8. j = wire.read
      BY <1>0, <2>3, <3>1, <3>2, <3>5, <3>7
    <3> QED BY <1>0, <2>3, <3>2, <3>3, <3>8
  <2> QED BY <2>1, <2>2, <2>3
<1>2. NothingSkipped
  <2> SUFFICES ASSUME NEW i \in Owing, i <= Behind PROVE log[i].message \in InHand
    BY DEF NothingSkipped, Owing
  <2>1. log # <<>> /\ i \in Nat /\ i > 0
    BY <1>0
  <2>2. CASE wire # Closed
    <3>1. wire.session = session
      BY <2>2 DEF Many, Followed
    <3>2. Behind = wire.read
      BY <2>2, <3>1 DEF Behind
    <3>3. bridge # "idle" /\ i = wire.read
      BY <2>1, <2>2, <3>2 DEF Many, Followed
    <3>4. gateway.pending.message = log[wire.read].message
      BY <2>1, <3>3 DEF Many, AtHand
    <3> QED BY <3>3, <3>4 DEF InHand
  <2>3. CASE wire = Closed
    <3>1. bridge = "idle"
      BY <2>3 DEF Many, AtHand
    <3>2. Behind = gateway.sequence /\ gateway.session_id = session
      BY <2>1, <2>3 DEF Behind
    <3>3. UpTo(Owing, gateway.sequence) /\ gateway.sequence \in Nat
      BY <2>1, <3>1, <3>2 DEF Many, Followed, Within, GatewayTypes
    <3> QED BY <2>1, <3>2, <3>3 DEF UpTo
  <2> QED BY <2>2, <2>3
<1> QED BY <1>1, <1>2

-----------------------------------------------------------------------------
(* The troubles of a behaviour are of one kind: one session, and answers    *)
(* that the bridge does without; or one session, and calls that fail and    *)
(* processes that are killed; or any number of sessions and nothing else.   *)
(* Troubles of two kinds do lead past messages (run skipped).               *)
OfOneKind(s) ==
  \/ s.sessions <= 1 /\ s.fails = 0 /\ s.kills = 0
  \/ s.sessions <= 1 /\ s.losses = 0
  \/ s.losses = 0 /\ s.fails = 0 /\ s.kills = 0

DiscordInv == GatewayTypes /\ Listed /\ (One(TRUE) \/ One(FALSE) \/ Many)

LEMMA BeginsSafe ==
  ASSUME DiscordInit, OfOneKind(left)
  PROVE  DiscordInv
<1>1. GatewayTypes /\ Listed
  BY GatewayTyped, ListedInit
<1>2. /\ log = <<>> /\ session = 0 /\ issued = 0 /\ wire = Closed /\ poll = NoPoll
      /\ cursor = [sequence |-> 0, session_id |-> 0]
      /\ gateway = [sequence |-> 0, session_id |-> 0, pending |-> Nothing, from_queue |-> FALSE]
      /\ dispatches = <<>> /\ bridge = "idle" /\ answer = <<>>
  BY DEF DiscordInit, Cursor, LoadedState
<1>3. /\ ~ EventPending /\ ~ poll.on /\ poll.session_id = 0 /\ poll.sequence = 0 /\ Len(log) = 0
      /\ Owing = {} /\ \A n : UpTo(Owing, n)
  BY <1>2 DEF EventPending, NoPoll, Owing, MessagePlaces, UpTo
<1>4. /\ Caught
      /\ \A stays \in BOOLEAN : /\ Answered(stays)
                              /\ InQueue(log, Owing, dispatches, gateway.pending.sequence, stays)
  BY <1>2, <1>3 DEF Caught, Answered, InQueue
<1>5. CASE left.sessions <= 1 /\ left.fails = 0 /\ left.kills = 0
  BY <1>1, <1>2, <1>4, <1>5 DEF DiscordInv, One, Single
<1>6. CASE left.sessions <= 1 /\ left.losses = 0
  BY <1>1, <1>2, <1>4, <1>6 DEF DiscordInv, One, Single
<1>7. CASE left.losses = 0 /\ left.fails = 0 /\ left.kills = 0
  BY <1>1, <1>2, <1>3, <1>7 DEF DiscordInv, Many, NoFaults, AtHand, OfLast, Followed
<1> QED BY <1>5, <1>6, <1>7 DEF OfOneKind

LEMMA CommitsSafely == DiscordInv => CommitsNext /\ NothingSkipped
<1>1. GatewayTypes /\ Listed /\ (One(TRUE) \/ One(FALSE)) => CommitsNext /\ NothingSkipped
  BY OneCommits DEF Listed
<1>2. GatewayTypes /\ Listed /\ Many => CommitsNext /\ NothingSkipped
  BY ManyCommits DEF Listed
<1> QED BY <1>1, <1>2 DEF DiscordInv

LEMMA StaysSafe == DiscordInv /\ [DiscordNext]_discord => DiscordInv'
<1> SUFFICES ASSUME DiscordInv, [DiscordNext]_discord PROVE DiscordInv'
  OBVIOUS
<1>1. GatewayTypes' /\ Listed'
  BY GatewayStep, ListedStep, CommitsSafely DEF DiscordInv
<1>2. One(TRUE)' \/ One(FALSE)' \/ Many'
  BY OneStep, ManyStep DEF DiscordInv, Listed
<1> QED BY <1>1, <1>2 DEF DiscordInv

(* With troubles of one kind, however many, no message is behind the        *)
(* Discord plugin that was neither committed nor is in hand: the cursor     *)
(* moves with the acknowledgement alone (gateway, acknowledge).             *)
THEOREM NothingIsSkipped == DiscordSpec /\ OfOneKind(left) => []NothingSkipped
<1>1. DiscordInit /\ OfOneKind(left) => DiscordInv
  BY BeginsSafe
<1> QED BY <1>1, StaysSafe, CommitsSafely, PTL DEF DiscordSpec

(* And the messages of a session are committed in the order in which        *)
(* Discord sent them, those kept while another one waited too               *)
(* (queued_dispatch, gateway, acknowledge).                                 *)
THEOREM CommittedInOrder == DiscordSpec /\ OfOneKind(left) => []InOrder
<1>1. DiscordInit /\ OfOneKind(left) => DiscordInv
  BY BeginsSafe
<1>2. DiscordInv => InOrder
  BY DEF DiscordInv, Listed
<1> QED BY <1>1, <1>2, StaysSafe, PTL DEF DiscordSpec
=============================================================================
