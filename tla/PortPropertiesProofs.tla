------------------------ MODULE PortPropertiesProofs ------------------------
(* Proofs of the properties of PortProperties, for every set of ports,     *)
(* threads and observers, every profile and every batch.                   *)
EXTENDS PortProperties, FiniteSetTheorems, SequenceTheorems, TLAPS

----------------------------------------------------------------------------
(* Numbers, and sets as sequences.                                         *)

(* A set of natural numbers that is not empty has a least element.         *)
LEMMA Least ==
    ASSUME NEW T, T \subseteq Nat, T # {}
    PROVE  \E n \in T : \A m \in T : n <= m
<1> DEFINE R == {ss \in Nat \X Nat : ss[1] < ss[2]}
<1>1. IsWellFoundedOn(R, Nat)
  BY NatLessThanWellFounded DEF OpToRel
<1>2. \A x, y \in Nat : <<y, x>> \in R <=> y < x
  OBVIOUS
<1> HIDE DEF R
<1>3. PICK x \in T : \A y \in T : ~ (<<y, x>> \in R)
  BY <1>1, WFMin
<1>4. ASSUME NEW m \in T PROVE x <= m
  <2>1. m \in Nat /\ x \in Nat
    OBVIOUS
  <2>2. ~ (m < x)
    BY <1>2, <1>3, <2>1
  <2> QED
    BY <2>1, <2>2
<1> QED
  BY <1>4

(* Min is that element.                                                    *)
LEMMA MinIs ==
    ASSUME NEW T, T \subseteq Nat, T # {}
    PROVE  Min(T) \in T /\ \A m \in T : Min(T) <= m
<1>1. \E n \in T : \A m \in T : n =< m
  BY Least
<1> QED
  BY <1>1 DEF Min

(* A set of natural numbers with a bound has a greatest one, and Max is it.*)
LEMMA MaxIs ==
    ASSUME NEW T, NEW b \in Nat, T \subseteq 0..b, T # {}
    PROVE  Max(T) \in T /\ \A m \in T : m <= Max(T)
<1> DEFINE U == {n \in Nat : b - n \in T}
<1>1. U \subseteq Nat /\ U # {}
  <2>1. PICK n \in T : TRUE
    OBVIOUS
  <2>2. b - n \in Nat /\ b - (b - n) = n
    BY <2>1
  <2> QED
    BY <2>2
<1>2. PICK u \in U : \A v \in U : u <= v
  <2> HIDE DEF U
  <2> QED
    BY <1>1, Least
<1>3. \A m \in T : m \in Int /\ b - m \in U
  <2> TAKE m \in T
  <2>1. m \in Nat /\ b - m \in Nat /\ b - (b - m) = m
    OBVIOUS
  <2> QED
    BY <2>1
<1>4. b - u \in T /\ u \in Nat
  OBVIOUS
<1> HIDE DEF U
<1>5. \A m \in T : b - u >= m
  BY <1>2, <1>3, <1>4
<1>6. \E n \in T : \A m \in T : n >= m
  BY <1>4, <1>5
<1>7. Max(T) \in T /\ \A m \in T : Max(T) >= m
  BY <1>6 DEF Max
<1> QED
  BY <1>3, <1>7

(* SetToSeq lists a finite set: its elements, and every one of them.       *)
LEMMA SetToSeqLists ==
    ASSUME NEW S, IsFiniteSet(S)
    PROVE  /\ SetToSeq(S) \in Seq(S)
           /\ \A s \in S : \E i \in DOMAIN SetToSeq(S) : SetToSeq(S)[i] = s
<1> DEFINE n == Cardinality(S)
<1> DEFINE q == SetToSeq(S)
<1>1. n \in Nat /\ ExistsBijection(1..n, S)
  BY FS_CardinalityType
<1>2. \E f \in [1..n -> S] : IsInjective(f)
  BY <1>1 DEF ExistsBijection, Bijection, Injection, IsInjective
<1>3. q \in [1..n -> S] /\ IsInjective(q)
  BY <1>2 DEF SetToSeq
<1>4. q \in Injection(1..n, S)
  BY <1>3 DEF Injection, IsInjective
<1>5. IsFiniteSet(1..n) /\ Cardinality(1..n) = n
  BY <1>1, FS_Interval
<1>6. q \in Surjection(1..n, S)
  <2> HIDE DEF q
  <2> QED
    BY <1>4, <1>5, FS_Injection
<1>7. \A s \in S : \E i \in 1..n : q[i] = s
  BY <1>6 DEF Surjection
<1>8. q \in Seq(S) /\ DOMAIN q = 1..n
  BY <1>1, <1>3
<1> QED
  BY <1>7, <1>8

----------------------------------------------------------------------------
(* What a sequence of events tells an observer of one property.            *)

About(e, o, p, x) == o \in e.to /\ e.port = p /\ e.property = x

Tells(es, o, p, x) == \E i \in DOMAIN es : About(es[i], o, p, x)

(* The last event that tells of it, if any does, gives it the value v.     *)
EndsWith(es, o, p, x, v) ==
    \A i \in DOMAIN es :
        /\ About(es[i], o, p, x)
        /\ \A j \in DOMAIN es : j > i => ~ About(es[j], o, p, x)
        => es[i].value = v

(* Unheard cuts a beginning off that is owed to nobody.                    *)
LEMMA UnheardCuts ==
    ASSUME NEW es \in Seq(Event)
    PROVE  /\ Unheard(es) \in Seq(Event)
           /\ \E k \in 0..Len(es) :
                /\ Len(Unheard(es)) = Len(es) - k
                /\ \A i \in 1..Len(es) - k : Unheard(es)[i] = es[i + k]
                /\ \A i \in 1..k : es[i].to = {}
<1> DEFINE owed == {i \in DOMAIN es : es[i].to # {}}
<1>1. Len(es) \in Nat /\ DOMAIN es = 1..Len(es)
  OBVIOUS
<1>2. CASE owed = {}
  <2>1. Unheard(es) = <<>>
    BY <1>2 DEF Unheard
  <2>2. \A i \in 1..Len(es) : es[i].to = {}
    BY <1>1, <1>2
  <2>3. Len(es) \in 0..Len(es) /\ Len(es) - Len(es) = 0
    BY <1>1
  <2> QED
    BY <2>1, <2>2, <2>3
<1>3. CASE owed # {}
  <2>1. owed \subseteq Nat
    BY <1>1
  <2> DEFINE m == Min(owed)
  <2>2. m \in owed /\ \A i \in owed : m <= i
    <3> HIDE DEF owed
    <3> QED
      BY <1>3, <2>1, MinIs
  <2>3. Unheard(es) = SubSeq(es, m, Len(es))
    BY <1>3 DEF Unheard
  <2>4. m \in 1..Len(es)
    BY <1>1, <2>2
  <2>5. \A i \in 1..m - 1 : es[i].to = {}
    <3> TAKE i \in 1..m - 1
    <3>1. i \in DOMAIN es /\ ~ (m <= i)
      BY <1>1, <2>4
    <3> QED
      BY <2>2, <3>1
  <2> HIDE DEF m, owed
  <2>6. m \in Int /\ Len(es) \in Int /\ \A i \in m..Len(es) : es[i] \in Event
    BY <1>1, <2>4
  <2>7. /\ SubSeq(es, m, Len(es)) \in Seq(Event)
        /\ Len(SubSeq(es, m, Len(es))) =
             IF m <= Len(es) THEN Len(es) - m + 1 ELSE 0
        /\ \A i \in 1..Len(es) - m + 1 :
             SubSeq(es, m, Len(es))[i] = es[m + i - 1]
    BY <2>6, SubSeqProperties
  <2>8. m - 1 \in 0..Len(es) /\ Len(es) - (m - 1) = Len(es) - m + 1
    BY <1>1, <2>4
  <2>9. \A i \in 1..Len(es) - m + 1 : m + i - 1 = i + (m - 1)
    BY <1>1, <2>4
  <2>10. Len(SubSeq(es, m, Len(es))) = Len(es) - (m - 1)
    BY <1>1, <2>4, <2>7
  <2>11. \A i \in 1..Len(es) - (m - 1) : Unheard(es)[i] = es[i + (m - 1)]
    BY <2>3, <2>7, <2>8, <2>9
  <2> QED
    BY <2>3, <2>5, <2>7, <2>8, <2>10, <2>11
<1> QED
  BY <1>2, <1>3

(* What is cut off told nobody anything.                                   *)
LEMMA UnheardTells ==
    ASSUME NEW es \in Seq(Event), NEW o, NEW p, NEW x, NEW v
    PROVE  /\ Tells(Unheard(es), o, p, x) <=> Tells(es, o, p, x)
           /\ EndsWith(es, o, p, x, v) => EndsWith(Unheard(es), o, p, x, v)
<1> DEFINE un == Unheard(es)
<1>1. un \in Seq(Event)
  BY UnheardCuts
<1>2. PICK k \in 0..Len(es) :
         /\ Len(un) = Len(es) - k
         /\ \A i \in 1..Len(es) - k : un[i] = es[i + k]
         /\ \A i \in 1..k : es[i].to = {}
  BY UnheardCuts
<1> HIDE DEF un
<1>3. /\ DOMAIN es = 1..Len(es) /\ Len(es) \in Nat
      /\ DOMAIN un = 1..Len(un) /\ k \in Nat
  BY <1>1
<1>4. \A i \in DOMAIN un : i + k \in DOMAIN es /\ un[i] = es[i + k]
  BY <1>2, <1>3
<1>5. \A i \in DOMAIN es : About(es[i], o, p, x) =>
         /\ i - k \in DOMAIN un
         /\ un[i - k] = es[i]
  <2> TAKE i \in DOMAIN es
  <2> HAVE About(es[i], o, p, x)
  <2>1. i \notin 1..k
    BY <1>2 DEF About
  <2>2. i - k \in 1..Len(es) - k /\ (i - k) + k = i
    BY <1>3, <2>1
  <2> QED
    BY <1>2, <1>3, <2>2
<1>6. Tells(un, o, p, x) <=> Tells(es, o, p, x)
  BY <1>4, <1>5 DEF Tells
<1>7. ASSUME EndsWith(es, o, p, x, v) PROVE EndsWith(un, o, p, x, v)
  <2> SUFFICES ASSUME NEW i \in DOMAIN un, About(un[i], o, p, x),
                      \A j \in DOMAIN un : j > i => ~ About(un[j], o, p, x)
               PROVE  un[i].value = v
    BY DEF EndsWith
  <2>1. i + k \in DOMAIN es /\ About(es[i + k], o, p, x)
    BY <1>4
  <2>2. ASSUME NEW j \in DOMAIN es, j > i + k PROVE ~ About(es[j], o, p, x)
    <3>1. j - k > i
      BY <1>3, <2>2
    <3> QED
      BY <1>5, <3>1
  <2>3. es[i + k].value = v
    BY <1>7, <2>1, <2>2 DEF EndsWith
  <2> QED
    BY <1>4, <2>3
<1> QED
  BY <1>6, <1>7 DEF un

----------------------------------------------------------------------------
(* A batch, what it writes and what it announces.                          *)

(* The last update of a property that a batch touches.                     *)
LEMMA LastOfIs ==
    ASSUME NEW us \in Seq(Update), NEW x \in Touched(us)
    PROVE  /\ LastOf(us, x) \in DOMAIN us
           /\ us[LastOf(us, x)].property = x
           /\ \A j \in DOMAIN us : us[j].property = x => j <= LastOf(us, x)
<1> DEFINE T == {i \in DOMAIN us : us[i].property = x}
<1>1. Len(us) \in Nat /\ DOMAIN us = 1..Len(us)
  OBVIOUS
<1>2. T \subseteq 0..Len(us) /\ T # {}
  BY <1>1 DEF Touched
<1>3. Max(T) \in T /\ \A m \in T : m <= Max(T)
  <2> HIDE DEF T
  <2> QED
    BY <1>1, <1>2, MaxIs
<1>4. \E i \in DOMAIN us :
         us[i].property = x /\ \A j \in DOMAIN us : us[j].property = x => j <= i
  <2>1. Max(T) \in DOMAIN us /\ us[Max(T)].property = x
    BY <1>3
  <2>2. \A j \in DOMAIN us : us[j].property = x => j <= Max(T)
    BY <1>3
  <2> HIDE DEF T
  <2> QED
    BY <2>1, <2>2
<1> QED
  BY <1>4 DEF LastOf

(* Every update of a batch gives some property some value.                 *)
LEMMA UpdateType ==
    ASSUME NEW us \in Seq(Update)
    PROVE  \A i \in DOMAIN us :
              us[i].property \in Properties /\ us[i].value \in Value
<1>1. \A i \in DOMAIN us : us[i] \in Update
  OBVIOUS
<1>2. \A u \in Update : u.property \in Properties /\ u.value \in Value
  BY DEF Update
<1> QED
  BY <1>1, <1>2

(* A batch touches properties of a port only.                              *)
LEMMA TouchedType ==
    ASSUME NEW us \in Seq(Update)
    PROVE  Touched(us) \subseteq Properties
BY UpdateType DEF Touched

(* What the cache holds after a batch: the last update of each property    *)
(* the batch touches, what it held before of the others.                   *)
LEMMA AppliedIs ==
    ASSUME NEW us \in Seq(Update), NEW c \in [Properties -> Value]
    PROVE  /\ Applied(c, us) \in [Properties -> Value]
           /\ \A x \in Properties \ Touched(us) : Applied(c, us)[x] = c[x]
           /\ \A x \in Touched(us) :
                \E i \in DOMAIN us :
                   /\ us[i].property = x
                   /\ \A j \in DOMAIN us : us[j].property = x => j <= i
                   /\ us[i].value = Applied(c, us)[x]
<1>1. \A x \in Touched(us) :
         LastOf(us, x) \in DOMAIN us /\ us[LastOf(us, x)].value \in Value
  BY LastOfIs, UpdateType
<1>2. Applied(c, us) \in [Properties -> Value]
  BY <1>1 DEF Applied
<1>3. \A x \in Properties \ Touched(us) : Applied(c, us)[x] = c[x]
  BY DEF Applied
<1>4. \A x \in Touched(us) : us[LastOf(us, x)].value = Applied(c, us)[x]
  BY TouchedType DEF Applied
<1> QED
  BY <1>2, <1>3, <1>4, LastOfIs

(* A batch that touches x leaves it with the value v.                      *)
LastGives(us, x, v) ==
    \A i \in DOMAIN us :
        /\ us[i].property = x
        /\ \A j \in DOMAIN us : us[j].property = x => j <= i
        => us[i].value = v

(* A batch is announced to every listener, property by property; what it   *)
(* announces last of a property is the last update.                        *)
LEMMA EventsOfTell ==
    ASSUME NEW us \in Seq(Update), NEW p \in Ports,
           listening \in [Ports -> SUBSET Observers]
    PROVE  /\ EventsOf(p, us) \in Seq(Event)
           /\ \A o, q, x :
                Tells(EventsOf(p, us), o, q, x) <=>
                   o \in listening[p] /\ q = p /\ x \in Touched(us)
           /\ \A o, x, v : LastGives(us, x, v) => EndsWith(EventsOf(p, us), o, p, x, v)
<1> DEFINE es == EventsOf(p, us)
<1>1. Len(us) \in Nat /\ DOMAIN us = 1..Len(us)
  OBVIOUS
<1>2. DOMAIN es = DOMAIN us
  BY DEF EventsOf
<1>3. \A i \in DOMAIN us :
         es[i] = [to |-> listening[p], port |-> p,
                  property |-> us[i].property, value |-> us[i].value]
  BY DEF EventsOf
<1>4. \A i \in DOMAIN us :
         /\ es[i].to = listening[p] /\ es[i].port = p
         /\ es[i].property = us[i].property /\ es[i].value = us[i].value
  <2> TAKE i \in DOMAIN us
  <2> HIDE DEF es
  <2>1. es[i] = [to |-> listening[p], port |-> p,
                 property |-> us[i].property, value |-> us[i].value]
    BY <1>3
  <2> QED
    BY <2>1
<1>5. \A i \in DOMAIN us : es[i] \in Event
  <2> TAKE i \in DOMAIN us
  <2>1. us[i].property \in Properties /\ us[i].value \in Value
    BY UpdateType
  <2> HIDE DEF es
  <2>2. es[i] = [to |-> listening[p], port |-> p,
                 property |-> us[i].property, value |-> us[i].value]
    BY <1>3
  <2> QED
    BY <2>1, <2>2 DEF Event
<1>6. es \in Seq(Event)
  <2>1. es = [i \in 1..Len(us) |-> es[i]]
    BY <1>1 DEF EventsOf
  <2> HIDE DEF es
  <2> QED
    BY <1>1, <1>5, <2>1
<1> HIDE DEF es
<1>7. \A i \in DOMAIN us : \A o, q, x :
         About(es[i], o, q, x) <=>
           o \in listening[p] /\ q = p /\ us[i].property = x
  BY <1>4 DEF About
<1>8. \A o, q, x :
         Tells(es, o, q, x) <=>
            o \in listening[p] /\ q = p /\ x \in Touched(us)
  BY <1>2, <1>7 DEF Tells, Touched
<1>9. ASSUME NEW o, NEW x, NEW v, LastGives(us, x, v)
       PROVE  EndsWith(es, o, p, x, v)
  <2> SUFFICES ASSUME NEW i \in DOMAIN us, About(es[i], o, p, x),
                      \A j \in DOMAIN us : j > i => ~ About(es[j], o, p, x)
               PROVE  es[i].value = v
    BY <1>2 DEF EndsWith
  <2>1. us[i].property = x /\ o \in listening[p]
    BY <1>7
  <2>2. ASSUME NEW j \in DOMAIN us, us[j].property = x PROVE j <= i
    <3>1. ~ (j > i)
      BY <1>7, <2>1, <2>2
    <3> QED
      BY <1>1, <3>1
  <2>3. us[i].value = v
    BY <1>9, <2>1, <2>2 DEF LastGives
  <2> QED
    BY <1>4, <2>3
<1> QED
  BY <1>2, <1>4, <1>6, <1>8, <1>9 DEF es

(* What the thread owes then.                                              *)
LEMMA AnnouncedTell ==
    ASSUME NEW us \in Seq(Update), NEW p \in Ports,
           listening \in [Ports -> SUBSET Observers],
           NEW es, es = Unheard(EventsOf(p, us))
    PROVE  /\ es \in Seq(Event)
           /\ \A o, q, x :
                Tells(es, o, q, x) <=>
                   o \in listening[p] /\ q = p /\ x \in Touched(us)
           /\ \A o, x, v : LastGives(us, x, v) => EndsWith(es, o, p, x, v)
<1> DEFINE ev == EventsOf(p, us)
<1>1. ev \in Seq(Event)
  BY EventsOfTell
<1>2. es \in Seq(Event)
  BY <1>1, UnheardCuts
<1>4. \A o, q, x : Tells(es, o, q, x) <=> Tells(ev, o, q, x)
  BY <1>1, UnheardTells
<1>5. \A o, x, v : EndsWith(ev, o, p, x, v) => EndsWith(es, o, p, x, v)
  BY <1>1, UnheardTells
<1> QED
  BY <1>2, <1>4, <1>5, EventsOfTell

----------------------------------------------------------------------------
(* Events that somebody has got.                                           *)

(* The same events, for no more observers than before.                     *)
Thinner(thin, es) ==
    /\ DOMAIN thin = DOMAIN es
    /\ \A i \in DOMAIN es :
          /\ thin[i].to \subseteq es[i].to
          /\ thin[i].port = es[i].port
          /\ thin[i].property = es[i].property
          /\ thin[i].value = es[i].value

(* Who is told as much as before is told the same.                         *)
LEMMA ThinnerTells ==
    ASSUME NEW es \in Seq(Event), NEW thin \in Seq(Event), Thinner(thin, es),
           NEW un, un = Unheard(thin), NEW o, NEW p, NEW x,
           \A i \in DOMAIN es : About(es[i], o, p, x) => o \in thin[i].to
    PROVE  /\ Tells(un, o, p, x) <=> Tells(es, o, p, x)
           /\ \A v : EndsWith(es, o, p, x, v) => EndsWith(un, o, p, x, v)
<1>1. \A i \in DOMAIN es : About(thin[i], o, p, x) <=> About(es[i], o, p, x)
  BY DEF Thinner, About
<1>2. Tells(thin, o, p, x) <=> Tells(es, o, p, x)
  BY <1>1 DEF Tells, Thinner
<1>3. \A v : EndsWith(es, o, p, x, v) => EndsWith(thin, o, p, x, v)
  BY <1>1 DEF EndsWith, Thinner
<1>4. \A v : /\ Tells(un, o, p, x) <=> Tells(thin, o, p, x)
             /\ EndsWith(thin, o, p, x, v) => EndsWith(un, o, p, x, v)
  BY UnheardTells
<1> QED
  BY <1>2, <1>3, <1>4

(* Delivered: everyone but the observer, and of everything but the         *)
(* property of the event, is told as much as before; the observer hears    *)
(* what it is told last.                                                   *)
LEMMA DeliveredTell ==
    ASSUME NEW es \in Seq(Event), es # <<>>, NEW o, o \in es[1].to,
           NEW un, un = Unheard(FirstGot(es, o))
    PROVE  /\ un \in Seq(Event)
           /\ \A r, q, x :
                ~ About(es[1], r, q, x) \/ r # o =>
                   /\ Tells(un, r, q, x) <=> Tells(es, r, q, x)
                   /\ \A v : EndsWith(es, r, q, x, v) => EndsWith(un, r, q, x, v)
           /\ \A q, x, v :
                About(es[1], o, q, x) /\ EndsWith(es, o, q, x, v) =>
                   /\ EndsWith(un, o, q, x, v)
                   /\ Tells(un, o, q, x) \/ es[1].value = v
<1> DEFINE thin == FirstGot(es, o)
<1>1. 1 \in DOMAIN es /\ es[1] \in Event /\ DOMAIN es = 1..Len(es) /\ Len(es) \in Nat
  OBVIOUS
<1>2. /\ DOMAIN thin = DOMAIN es
      /\ thin[1] = [es[1] EXCEPT !.to = @ \ {o}]
      /\ \A i \in DOMAIN es : i # 1 => thin[i] = es[i]
  BY <1>1 DEF FirstGot
<1>3. /\ [es[1] EXCEPT !.to = @ \ {o}] \in Event
      /\ [es[1] EXCEPT !.to = @ \ {o}].to = es[1].to \ {o}
      /\ [es[1] EXCEPT !.to = @ \ {o}].port = es[1].port
      /\ [es[1] EXCEPT !.to = @ \ {o}].property = es[1].property
      /\ [es[1] EXCEPT !.to = @ \ {o}].value = es[1].value
  BY <1>1 DEF Event
<1> HIDE DEF thin
<1>4. thin \in Seq(Event)
  <2>1. \A i \in DOMAIN es : thin[i] \in Event
    BY <1>2, <1>3
  <2>2. thin = [i \in 1..Len(es) |-> thin[i]]
    BY <1>1, <1>2 DEF thin, FirstGot
  <2> QED
    BY <1>1, <2>1, <2>2
<1>5. Thinner(thin, es)
  BY <1>2, <1>3 DEF Thinner
<1>6. un = Unheard(thin)
  BY DEF thin
<1>7. un \in Seq(Event)
  BY <1>4, <1>6, UnheardCuts
<1>8. ASSUME NEW r, NEW q, NEW x, ~ About(es[1], r, q, x) \/ r # o
      PROVE  /\ Tells(un, r, q, x) <=> Tells(es, r, q, x)
             /\ \A v : EndsWith(es, r, q, x, v) => EndsWith(un, r, q, x, v)
  <2>1. \A i \in DOMAIN es : About(es[i], r, q, x) => r \in thin[i].to
    BY <1>2, <1>3, <1>8 DEF About
  <2> QED
    BY <1>4, <1>5, <1>6, <2>1, ThinnerTells
<1>9. ASSUME NEW q, NEW x, NEW v, About(es[1], o, q, x), EndsWith(es, o, q, x, v)
      PROVE  /\ EndsWith(un, o, q, x, v)
             /\ Tells(un, o, q, x) \/ es[1].value = v
  <2>1. ~ About(thin[1], o, q, x)
    BY <1>2, <1>3 DEF About
  <2>2. \A i \in DOMAIN es : i # 1 => thin[i] = es[i]
    BY <1>2
  <2>3. EndsWith(thin, o, q, x, v)
    <3> SUFFICES ASSUME NEW i \in DOMAIN thin, About(thin[i], o, q, x),
                        \A j \in DOMAIN thin : j > i => ~ About(thin[j], o, q, x)
                 PROVE  thin[i].value = v
      BY DEF EndsWith
    <3>1. i # 1 /\ i \in DOMAIN es /\ thin[i] = es[i]
      BY <1>2, <2>1
    <3>2. \A j \in DOMAIN es : j > i => ~ About(es[j], o, q, x)
      BY <1>1, <1>2, <3>1
    <3> QED
      BY <1>9, <3>1, <3>2 DEF EndsWith
  <2>4. CASE Tells(thin, o, q, x)
    BY <1>4, <1>6, <2>3, <2>4, UnheardTells
  <2>5. CASE ~ Tells(thin, o, q, x)
    <3>1. \A j \in DOMAIN es : j > 1 => ~ About(es[j], o, q, x)
      BY <1>1, <1>2, <2>5 DEF Tells
    <3>2. es[1].value = v
      BY <1>1, <1>9, <3>1 DEF EndsWith
    <3> QED
      BY <1>4, <1>6, <2>3, <3>2, UnheardTells
  <2> QED
    BY <2>4, <2>5
<1> QED
  BY <1>7, <1>8, <1>9

----------------------------------------------------------------------------
(* The inductive invariant.                                                *)

States == {"CLOSED", "OPENING", "READY", "STARTING", "STARTED", "STOPPING",
           "CLOSING"}

LifeTypeOK == life \in [Ports -> States]

(* start() has nothing else on its way when it takes its snapshot.         *)
BaselineFirst ==
    \A t \in Threads : baseline[t] # None => outbox[t] = <<>>

(* Unless the property is in doubt, no thread has a value other than the   *)
(* present one for the last it will tell any observer of it, one that left *)
(* included.                                                               *)
PendingCurrent ==
    \A p \in Ports, x \in Properties : x \notin doubtful[p] =>
        \A t \in Senders, o \in Observers :
            EndsWith(outbox[t], o, p, x, cached[p][x])

(* An observer that will be told nothing more of an announced property has *)
(* heard its value, or missed it.                                          *)
ChangesReach ==
    \A p \in Ports, x \in Properties : \A o \in listening[p] :
        Announced(p, x) =>
           \/ heard[o][p][x] \in {cached[p][x], Missed}
           \/ \E t \in Senders : Tells(outbox[t], o, p, x)

PropertiesIInv ==
    /\ PropertiesTypeOK
    /\ LifeTypeOK
    /\ CountersRestart
    /\ TypesDeclared
    /\ BaselineFirst
    /\ PendingCurrent
    /\ ChangesReach

----------------------------------------------------------------------------
(* Writing and announcing.                                                 *)

Writers == {"service", "controller", "host"}

(* A write changes what it touches and leaves the rest.                    *)
LEMMA WriteIs ==
    ASSUME PropertiesTypeOK, NEW p \in Ports, NEW us \in Seq(Update),
           NEW by \in Writers, Write(p, us, by)
    PROVE  /\ cached' \in [Ports -> [Properties -> Value]]
           /\ writer' \in [Ports -> [Properties -> Writers]]
           /\ written' \in [Ports -> SUBSET Metrics]
           /\ \A q \in Ports, x \in Properties :
                q # p \/ x \notin Touched(us) =>
                   cached'[q][x] = cached[q][x] /\ writer'[q][x] = writer[q][x]
           /\ \A x \in Touched(us) :
                /\ writer'[p][x] = by
                /\ \E i \in DOMAIN us :
                      /\ us[i].property = x
                      /\ \A j \in DOMAIN us : us[j].property = x => j <= i
                      /\ us[i].value = cached'[p][x]
           /\ \A q \in Ports : written[q] \subseteq written'[q]
           /\ Touched(us) \cap Metrics \subseteq written'[p]
<1>1. /\ cached \in [Ports -> [Properties -> Value]]
      /\ writer \in [Ports -> [Properties -> Writers]]
      /\ written \in [Ports -> SUBSET Metrics]
  BY DEF PropertiesTypeOK, Writers
<1> DEFINE new == Applied(cached[p], us)
<1>2. /\ cached' = [cached EXCEPT ![p] = new]
      /\ writer' = [writer EXCEPT ![p] =
            [x \in Properties |-> IF x \in Touched(us) THEN by ELSE writer[p][x]]]
      /\ written' = [written EXCEPT ![p] =
            written[p] \union (Touched(us) \cap Metrics)]
  BY <1>1 DEF Write
<1>3. /\ new \in [Properties -> Value]
      /\ \A x \in Properties \ Touched(us) : new[x] = cached[p][x]
      /\ \A x \in Touched(us) :
           \E i \in DOMAIN us :
              /\ us[i].property = x
              /\ \A j \in DOMAIN us : us[j].property = x => j <= i
              /\ us[i].value = new[x]
  <2>1. cached[p] \in [Properties -> Value]
    BY <1>1
  <2> QED
    BY <2>1, AppliedIs
<1>4. Touched(us) \subseteq Properties
  BY TouchedType
<1> HIDE DEF new
<1>5. /\ cached' \in [Ports -> [Properties -> Value]]
      /\ \A q \in Ports \ {p} : cached'[q] = cached[q]
      /\ cached'[p] = new
  BY <1>1, <1>2, <1>3
<1>6. /\ writer' \in [Ports -> [Properties -> Writers]]
      /\ \A q \in Ports \ {p} : writer'[q] = writer[q]
      /\ \A x \in Properties :
           writer'[p][x] = IF x \in Touched(us) THEN by ELSE writer[p][x]
  BY <1>1, <1>2
<1>7. /\ written' \in [Ports -> SUBSET Metrics]
      /\ \A q \in Ports : written[q] \subseteq written'[q]
      /\ Touched(us) \cap Metrics \subseteq written'[p]
  BY <1>1, <1>2
<1>8. ASSUME NEW q \in Ports, NEW x \in Properties, q # p \/ x \notin Touched(us)
      PROVE  cached'[q][x] = cached[q][x] /\ writer'[q][x] = writer[q][x]
  BY <1>3, <1>5, <1>6, <1>8
<1>9. \A x \in Touched(us) : writer'[p][x] = by
  BY <1>4, <1>6
<1> QED
  BY <1>3, <1>5, <1>6, <1>7, <1>8, <1>9

(* The type that a writer has to give a property.                          *)
TypeBy(by, x) == IF by = "controller" THEN Declared[x] ELSE Native(x)

(* A write marks the metrics it changes, and gives no property another     *)
(* type unless the host asks for it.                                       *)
LEMMA WriteKeeps ==
    ASSUME PropertiesTypeOK, CountersRestart, TypesDeclared,
           NEW p \in Ports, NEW us \in Seq(Update), NEW by \in Writers,
           Write(p, us, by),
           by # "host" =>
             \A i \in DOMAIN us : us[i].value.tag = TypeBy(by, us[i].property)
    PROVE  CountersRestart' /\ TypesDeclared'
<1>1. /\ \A q \in Ports, x \in Properties :
           q # p \/ x \notin Touched(us) =>
              cached'[q][x] = cached[q][x] /\ writer'[q][x] = writer[q][x]
      /\ \A x \in Touched(us) :
           /\ writer'[p][x] = by
           /\ \E i \in DOMAIN us :
                 us[i].property = x /\ us[i].value = cached'[p][x]
      /\ \A q \in Ports : written[q] \subseteq written'[q]
      /\ Touched(us) \cap Metrics \subseteq written'[p]
  BY WriteIs
<1>2. ASSUME NEW q \in Ports, NEW m \in Metrics,
             Counts(cached'[q][m]), cached'[q][m].number # 0
      PROVE  m \in written'[q]
  <2>1. m \in Properties
    BY DEF Properties
  <2>2. CASE q # p \/ m \notin Touched(us)
    BY <1>1, <1>2, <2>1, <2>2 DEF CountersRestart
  <2>3. CASE q = p /\ m \in Touched(us)
    BY <1>1, <2>3
  <2> QED
    BY <2>2, <2>3
<1>3. ASSUME NEW q \in Ports, NEW x \in Properties
      PROVE  /\ writer'[q][x] = "controller" => cached'[q][x].tag = Declared[x]
             /\ writer'[q][x] = "service" => cached'[q][x].tag = Native(x)
  <2>1. CASE q # p \/ x \notin Touched(us)
    BY <1>1, <2>1 DEF TypesDeclared
  <2>2. CASE q = p /\ x \in Touched(us)
    BY <1>1, <2>2 DEF TypeBy
  <2> QED
    BY <2>1, <2>2
<1>4. CountersRestart'
  BY <1>2 DEF CountersRestart, Counts
<1>5. TypesDeclared'
  BY <1>3 DEF TypesDeclared, Native
<1> QED
  BY <1>4, <1>5

(* An announcement takes the place of an empty outbox; nobody else is      *)
(* about to tell of a property that is in no doubt after it.               *)
LEMMA AnnounceIs ==
    ASSUME PropertiesTypeOK, NEW t \in Senders, NEW p \in Ports,
           NEW us \in Seq(Update), Announce(t, p, us)
    PROVE  /\ outbox' \in [Senders -> Seq(Event)]
           /\ doubtful' \in [Ports -> SUBSET Properties]
           /\ \A u \in Senders \ {t} : outbox'[u] = outbox[u]
           /\ \A o, q, x :
                Tells(outbox'[t], o, q, x) <=>
                   o \in listening[p] /\ q = p /\ x \in Touched(us)
           /\ \A o, x, v : LastGives(us, x, v) => EndsWith(outbox'[t], o, p, x, v)
           /\ \A q \in Ports, x \in Properties :
                q # p \/ x \notin Touched(us) =>
                   (x \in doubtful'[q] <=> x \in doubtful[q])
           /\ \A x \in Touched(us) : x \notin doubtful'[p] =>
                \A u \in Senders \ {t} : \A o : ~ Tells(outbox[u], o, p, x)
<1> DEFINE es == Unheard(EventsOf(p, us))
<1>1. /\ outbox \in [Senders -> Seq(Event)]
      /\ listening \in [Ports -> SUBSET Observers]
      /\ doubtful \in [Ports -> SUBSET Properties]
  BY DEF PropertiesTypeOK
<1>2. /\ es \in Seq(Event)
      /\ \A o, q, x :
           Tells(es, o, q, x) <=> o \in listening[p] /\ q = p /\ x \in Touched(us)
      /\ \A o, x, v : LastGives(us, x, v) => EndsWith(es, o, p, x, v)
  BY <1>1, AnnouncedTell
<1>3. outbox' = [outbox EXCEPT ![t] = es]
  BY DEF Announce
<1> HIDE DEF es
<1>4. /\ outbox' \in [Senders -> Seq(Event)]
      /\ outbox'[t] = es
      /\ \A u \in Senders \ {t} : outbox'[u] = outbox[u]
  BY <1>1, <1>2, <1>3
<1>5. doubtful' = [doubtful EXCEPT ![p] =
         {x \in Properties :
            IF x \in Touched(us)
            THEN \E u \in Senders \ {t} : x \in Pending(u, p)
            ELSE x \in doubtful[p]}]
  BY <1>1 DEF Announce
<1>6. /\ doubtful' \in [Ports -> SUBSET Properties]
      /\ \A q \in Ports \ {p} : doubtful'[q] = doubtful[q]
      /\ \A x \in Properties :
           x \in doubtful'[p] <=>
             IF x \in Touched(us)
             THEN \E u \in Senders \ {t} : x \in Pending(u, p)
             ELSE x \in doubtful[p]
  BY <1>1, <1>5
<1>7. Touched(us) \subseteq Properties
  BY TouchedType
<1>8. ASSUME NEW x \in Touched(us), x \notin doubtful'[p],
             NEW u \in Senders \ {t}, NEW o
      PROVE  ~ Tells(outbox[u], o, p, x)
  <2>1. x \notin Pending(u, p)
    BY <1>6, <1>7, <1>8
  <2> QED
    BY <2>1 DEF Pending, Tells, About
<1>9. ASSUME NEW q \in Ports, NEW x \in Properties, q # p \/ x \notin Touched(us)
      PROVE  x \in doubtful'[q] <=> x \in doubtful[q]
  BY <1>6, <1>9
<1> QED
  BY <1>2, <1>4, <1>6, <1>8, <1>9

(* A value that nobody touches, of a property that was announced before,   *)
(* goes on being heard.                                                    *)
LEMMA QuietReaches ==
    ASSUME PendingCurrent, ChangesReach,
           listening' = listening, heard' = heard, outbox' = outbox,
           \A p \in Ports, x \in Properties : x \notin doubtful'[p] =>
              x \notin doubtful[p] /\ cached'[p][x] = cached[p][x],
           \A p \in Ports, x \in Properties :
              Announced(p, x)' => Announced(p, x)
    PROVE  PendingCurrent' /\ ChangesReach'
<1>1. ASSUME NEW p \in Ports, NEW x \in Properties, x \notin doubtful'[p],
             NEW t \in Senders, NEW o \in Observers
      PROVE  EndsWith(outbox[t], o, p, x, cached'[p][x])
  <2>1. x \notin doubtful[p] /\ cached'[p][x] = cached[p][x]
    BY <1>1
  <2> QED
    BY <2>1 DEF PendingCurrent
<1>2. ASSUME NEW p \in Ports, NEW x \in Properties,
             NEW o \in listening[p], Announced(p, x)'
      PROVE  \/ heard[o][p][x] \in {cached'[p][x], Missed}
             \/ \E t \in Senders : Tells(outbox[t], o, p, x)
  <2>1. Announced(p, x) /\ cached'[p][x] = cached[p][x]
    BY <1>2 DEF Announced
  <2> QED
    BY <2>1 DEF ChangesReach
<1>3. PendingCurrent'
  BY <1>1 DEF PendingCurrent, Senders
<1>4. ChangesReach'
  BY <1>2 DEF ChangesReach, Senders, Missed, Null, Number
<1> QED
  BY <1>3, <1>4

(* What a thread announces of a property is its present value, and it is   *)
(* the only one to tell of it, unless the property is in doubt.            *)
LEMMA AnnouncePending ==
    ASSUME PropertiesTypeOK, PendingCurrent,
           NEW t \in Senders, NEW p \in Ports, NEW us \in Seq(Update),
           Announce(t, p, us),
           \A q \in Ports, x \in Properties :
              q # p \/ x \notin Touched(us) => cached'[q][x] = cached[q][x],
           \A x \in Touched(us) : LastGives(us, x, cached'[p][x])
    PROVE  PendingCurrent'
<1> SUFFICES ASSUME NEW q \in Ports, NEW x \in Properties, x \notin doubtful'[q],
                    NEW u \in Senders, NEW o \in Observers
             PROVE  EndsWith(outbox'[u], o, q, x, cached'[q][x])
  BY DEF PendingCurrent, Senders
<1>1. /\ \A w \in Senders \ {t} : outbox'[w] = outbox[w]
      /\ \A oo, qq, xx :
           Tells(outbox'[t], oo, qq, xx) <=>
              oo \in listening[p] /\ qq = p /\ xx \in Touched(us)
      /\ \A oo, xx, v : LastGives(us, xx, v) => EndsWith(outbox'[t], oo, p, xx, v)
      /\ q # p \/ x \notin Touched(us) => (x \in doubtful'[q] <=> x \in doubtful[q])
      /\ \A xx \in Touched(us) : xx \notin doubtful'[p] =>
           \A w \in Senders \ {t} : \A oo : ~ Tells(outbox[w], oo, p, xx)
  BY AnnounceIs
<1>2. CASE q = p /\ x \in Touched(us)
  <2>1. CASE u = t
    BY <1>1, <1>2, <2>1
  <2>2. CASE u # t
    <3>1. ~ Tells(outbox'[u], o, p, x)
      BY <1>1, <1>2, <2>2
    <3> QED
      BY <1>2, <3>1 DEF Tells, EndsWith
  <2> QED
    BY <2>1, <2>2
<1>3. CASE q # p \/ x \notin Touched(us)
  <2>1. EndsWith(outbox[u], o, q, x, cached'[q][x])
    BY <1>1, <1>3 DEF PendingCurrent
  <2>2. CASE u = t
    <3>1. ~ Tells(outbox'[u], o, q, x)
      BY <1>1, <1>3, <2>2
    <3> QED
      BY <3>1 DEF Tells, EndsWith
  <2>3. CASE u # t
    BY <1>1, <2>1, <2>3
  <2> QED
    BY <2>2, <2>3
<1> QED
  BY <1>2, <1>3

(* A change that is announced as the last update of it reaches everyone.   *)
LEMMA AnnounceReaches ==
    ASSUME PropertiesTypeOK, ChangesReach,
           NEW t \in Senders, NEW p \in Ports, NEW us \in Seq(Update),
           outbox[t] = <<>>, Announce(t, p, us),
           life' = life, listening' = listening, heard' = heard,
           \A q \in Ports, x \in Properties :
              q # p \/ x \notin Touched(us) => cached'[q][x] = cached[q][x],
           \/ baseline' = baseline
           \/ /\ Telemetry \subseteq Touched(us)
              /\ \A u \in Threads : baseline'[u] = baseline[u] \/ baseline[u] = p
    PROVE  ChangesReach'
<1> SUFFICES ASSUME NEW q \in Ports, NEW x \in Properties,
                    NEW o \in listening[q], Announced(q, x)'
             PROVE  \/ heard[o][q][x] \in {cached'[q][x], Missed}
                    \/ \E u \in Senders : Tells(outbox'[u], o, q, x)
  BY DEF ChangesReach, Senders, Missed, Null, Number
<1>1. /\ \A u \in Senders \ {t} : outbox'[u] = outbox[u]
      /\ \A oo, qq, xx :
           Tells(outbox'[t], oo, qq, xx) <=>
              oo \in listening[p] /\ qq = p /\ xx \in Touched(us)
      /\ q # p \/ x \notin Touched(us) => (x \in doubtful'[q] <=> x \in doubtful[q])
  BY AnnounceIs
<1>2. CASE q = p /\ x \in Touched(us)
  BY <1>1, <1>2
<1>3. CASE q # p \/ x \notin Touched(us)
  <2>1. Announced(q, x)
    <3>1. x \in Supported \ doubtful[q]
      BY <1>1, <1>3 DEF Announced
    <3>2. ASSUME x \in Telemetry
          PROVE  life[q] = "STARTED" /\ \A u \in Threads : baseline[u] # q
      <4>1. life[q] = "STARTED" /\ \A u \in Threads : baseline'[u] # q
        BY <3>2 DEF Announced
      <4>2. CASE baseline' = baseline
        BY <4>1, <4>2
      <4>3. CASE /\ Telemetry \subseteq Touched(us)
                 /\ \A u \in Threads : baseline'[u] = baseline[u] \/ baseline[u] = p
        BY <1>3, <3>2, <4>1, <4>3
      <4> QED
        BY <4>2, <4>3
    <3> QED
      BY <3>1, <3>2 DEF Announced
  <2>2. \/ heard[o][q][x] \in {cached[q][x], Missed}
        \/ \E u \in Senders : Tells(outbox[u], o, q, x)
    BY <2>1 DEF ChangesReach
  <2>3. cached'[q][x] = cached[q][x]
    BY <1>3
  <2>4. ~ Tells(outbox[t], o, q, x)
    BY DEF Tells
  <2>5. \A u \in Senders : Tells(outbox[u], o, q, x) => Tells(outbox'[u], o, q, x)
    BY <1>1, <2>4
  <2> QED
    BY <2>2, <2>3, <2>5
<1> QED
  BY <1>2, <1>3

----------------------------------------------------------------------------
(* The batches there are.                                                  *)

(* The telemetry and the metrics of a port are finitely many.              *)
LEMMA FiniteProperties ==
    IsFiniteSet(Telemetry) /\ IsFiniteSet(Properties)
<1>1. IsFiniteSet(Telemetry)
  <2>1. IsFiniteSet({}) /\ IsFiniteSet({} \union {"SIGNAL_STRENGTH"})
    BY FS_EmptySet, FS_AddElement
  <2>2. IsFiniteSet(({} \union {"SIGNAL_STRENGTH"}) \union {"SIGNAL_QUALITY"})
    BY <2>1, FS_AddElement
  <2>3. Telemetry = ({} \union {"SIGNAL_STRENGTH"}) \union {"SIGNAL_QUALITY"}
    BY DEF Telemetry
  <2> QED
    BY <2>2, <2>3
<1>2. IsFiniteSet(Properties)
  BY <1>1, PropertiesAssumption, FS_Union DEF Properties
<1> QED
  BY <1>1, <1>2

(* One update for each of finitely many properties is a batch: it touches  *)
(* these properties, and gives each its value.                             *)
LEMMA UpdatesOf ==
    ASSUME NEW S, S \subseteq Properties, IsFiniteSet(S),
           NEW v \in [S -> Value],
           NEW us, us = SetToSeq({[property |-> x, value |-> v[x]] : x \in S})
    PROVE  /\ us \in Seq(Update)
           /\ Touched(us) = S
           /\ \A i \in DOMAIN us :
                us[i].property \in S /\ us[i].value = v[us[i].property]
<1> DEFINE f == [x \in S |-> [property |-> x, value |-> v[x]]]
<1> DEFINE T == {[property |-> x, value |-> v[x]] : x \in S}
<1>1. f \in Surjection(S, T)
  BY DEF Surjection
<1>2. IsFiniteSet(T)
  <2> HIDE DEF f, T
  <2> QED
    BY <1>1, FS_Surjection
<1>3. \A u \in T : u \in Update /\ u.property \in S /\ u.value = v[u.property]
  BY DEF Update
<1>4. \A x \in S : \E u \in T : u.property = x
  <2> TAKE x \in S
  <2>1. [property |-> x, value |-> v[x]] \in T
    OBVIOUS
  <2> QED
    BY <2>1
<1> HIDE DEF f, T
<1>5. us = SetToSeq(T)
  BY DEF T
<1>6. us \in Seq(T) /\ \A u \in T : \E i \in DOMAIN us : us[i] = u
  BY <1>2, <1>5, SetToSeqLists
<1>7. \A i \in DOMAIN us : us[i] \in T
  BY <1>6
<1>8. us \in Seq(Update)
  BY <1>3, <1>6
<1>9. Touched(us) = S
  <2>1. \A i \in DOMAIN us : us[i].property \in S
    BY <1>3, <1>7
  <2>2. \A x \in S : \E i \in DOMAIN us : us[i].property = x
    <3> TAKE x \in S
    <3>1. PICK u \in T : u.property = x
      BY <1>4
    <3> QED
      BY <1>6, <3>1
  <2> QED
    BY <2>1, <2>2 DEF Touched
<1> QED
  BY <1>3, <1>7, <1>8, <1>9

(* A refresh of the telemetry by a report.                                 *)
LEMMA SignalIs ==
    ASSUME NEW n \in Nat
    PROVE  Signal(n) \in Seq(Update) /\ Touched(Signal(n)) = Telemetry
<1> DEFINE v == [x \in Telemetry |-> Number(Native(x), n)]
<1>1. v \in [Telemetry -> Value]
  BY DEF Number, Native, Value, Tags
<1>2. Signal(n) = SetToSeq({[property |-> x, value |-> v[x]] : x \in Telemetry})
  <2>1. {[property |-> x, value |-> Number(Native(x), n)] : x \in Telemetry}
          = {[property |-> x, value |-> v[x]] : x \in Telemetry}
    OBVIOUS
  <2> QED
    BY <2>1 DEF Signal
<1>3. Telemetry \subseteq Properties
  BY DEF Properties
<1> HIDE DEF v
<1> QED
  BY <1>1, <1>2, <1>3, FiniteProperties, UpdatesOf

(* What start() announces is what the cache holds.                         *)
LEMMA SnapshotIs ==
    ASSUME PropertiesTypeOK, NEW p \in Ports
    PROVE  /\ Snapshot(p) \in Seq(Update)
           /\ Touched(Snapshot(p)) = Telemetry
           /\ \A i \in DOMAIN Snapshot(p) :
                Snapshot(p)[i].value = cached[p][Snapshot(p)[i].property]
<1> DEFINE v == [x \in Telemetry |-> cached[p][x]]
<1>1. Telemetry \subseteq Properties
  BY DEF Properties
<1>2. v \in [Telemetry -> Value]
  BY <1>1 DEF PropertiesTypeOK
<1>3. Snapshot(p) = SetToSeq({[property |-> x, value |-> v[x]] : x \in Telemetry})
  <2>1. {[property |-> x, value |-> cached[p][x]] : x \in Telemetry}
          = {[property |-> x, value |-> v[x]] : x \in Telemetry}
    OBVIOUS
  <2> QED
    BY <2>1 DEF Snapshot
<1>4. \A x \in Telemetry : v[x] = cached[p][x]
  OBVIOUS
<1> HIDE DEF v
<1>5. /\ Snapshot(p) \in Seq(Update)
      /\ Touched(Snapshot(p)) = Telemetry
      /\ \A i \in DOMAIN Snapshot(p) :
           /\ Snapshot(p)[i].property \in Telemetry
           /\ Snapshot(p)[i].value = v[Snapshot(p)[i].property]
  BY <1>1, <1>2, <1>3, FiniteProperties, UpdatesOf
<1> QED
  BY <1>4, <1>5

(* resetMetrics() touches every metric, with the type it was built with.   *)
LEMMA ResetUpdatesAre ==
    /\ ResetUpdates \in Seq(Update)
    /\ \A i \in DOMAIN ResetUpdates :
          ResetUpdates[i].value.tag = Native(ResetUpdates[i].property)
<1> DEFINE S == Metrics \ {LastReset}
<1> DEFINE v == [x \in S |-> Number("longValue", 0)]
<1> DEFINE u == [property |-> LastReset, value |-> Number("longValue", Now)]
<1>1. /\ S \subseteq Properties /\ IsFiniteSet(S)
      /\ \A m \in Metrics : Native(m) = "longValue"
  <2>1. IsFiniteSet(S)
    BY PropertiesAssumption, FS_Subset
  <2> QED
    BY <2>1, PropertiesAssumption DEF Properties, Native, Telemetry
<1>2. v \in [S -> Value]
  BY DEF Number, Value, Tags
<1>3. Zeroed = SetToSeq({[property |-> x, value |-> v[x]] : x \in S})
  <2>1. {[property |-> x, value |-> Number("longValue", 0)] : x \in S}
          = {[property |-> x, value |-> v[x]] : x \in S}
    OBVIOUS
  <2> QED
    BY <2>1 DEF Zeroed
<1>4. \A x \in S : v[x].tag = "longValue"
  BY DEF Number
<1>5. u \in Update /\ u.property = LastReset /\ u.value.tag = "longValue"
  BY PropertiesAssumption, NumbersAssumption
  DEF Number, Value, Tags, Update, Properties
<1>6. ResetUpdates = Append(Zeroed, u)
  BY DEF ResetUpdates
<1> HIDE DEF v, u, S
<1>7. /\ Zeroed \in Seq(Update)
      /\ \A i \in DOMAIN Zeroed :
           Zeroed[i].property \in S /\ Zeroed[i].value = v[Zeroed[i].property]
  BY <1>1, <1>2, <1>3, UpdatesOf
<1>8. ResetUpdates \in Seq(Update)
  BY <1>5, <1>6, <1>7
<1>9. ASSUME NEW i \in DOMAIN ResetUpdates
      PROVE  ResetUpdates[i].value.tag = Native(ResetUpdates[i].property)
  <2>1. /\ DOMAIN Zeroed = 1..Len(Zeroed) /\ Len(Zeroed) \in Nat
        /\ DOMAIN ResetUpdates = 1..Len(Zeroed) + 1
    BY <1>6, <1>7
  <2>2. CASE i \in DOMAIN Zeroed
    <3>1. ResetUpdates[i] = Zeroed[i]
      BY <1>6, <2>1, <2>2
    <3>2. ResetUpdates[i].property \in S /\ ResetUpdates[i].value.tag = "longValue"
      BY <1>4, <1>7, <2>2, <3>1
    <3> QED
      BY <1>1, <3>2 DEF S
  <2>3. CASE i = Len(Zeroed) + 1
    <3>1. ResetUpdates[i] = u
      BY <1>6, <1>7, <2>3
    <3> QED
      BY <1>1, <1>5, <3>1, PropertiesAssumption
  <2> QED
    BY <2>1, <2>2, <2>3
<1> QED
  BY <1>8, <1>9

(* A batch that is not refused is made whole, and of entries that would be *)
(* accepted on their own.                                                  *)
LEMMA ValidIs ==
    ASSUME NEW b \in Batches, Valid(b) # <<>>
    PROVE  /\ Valid(b) = b
           /\ b \in Seq(Update)
           /\ \A i \in DOMAIN b : Accepted(b[i])
<1>1. Valid(b) = b /\ \A u \in ToSet(b) : Accepted(u)
  BY DEF Valid
<1>2. b \in Seq(Update)
  BY UpdatesAssumption
<1> QED
  BY <1>1, <1>2 DEF ToSet

----------------------------------------------------------------------------
(* Every step keeps the inductive invariant.                               *)

(* A batch is written and announced by a thread with nothing else to do.   *)
LEMMA BatchKeeps ==
    ASSUME PropertiesIInv, NEW t \in Senders, NEW p \in Ports,
           NEW us \in Seq(Update), NEW by \in Writers,
           Free(t), Write(p, us, by), Announce(t, p, us),
           UNCHANGED <<lifecycle, issued, listening, baseline, heard>>,
           by # "host" =>
             \A i \in DOMAIN us : us[i].value.tag = TypeBy(by, us[i].property)
    PROVE  PropertiesIInv'
<1>1. /\ PropertiesTypeOK /\ LifeTypeOK /\ CountersRestart /\ TypesDeclared
      /\ BaselineFirst /\ PendingCurrent /\ ChangesReach
  BY DEF PropertiesIInv
<1>2. /\ life' = life /\ issued' = issued /\ listening' = listening
      /\ baseline' = baseline /\ heard' = heard
  BY DEF lifecycle, vars
<1>3. PropertiesTypeOK'
  <2>1. /\ cached' \in [Ports -> [Properties -> Value]]
        /\ writer' \in [Ports -> [Properties -> Writers]]
        /\ written' \in [Ports -> SUBSET Metrics]
    BY <1>1, WriteIs
  <2>2. /\ outbox' \in [Senders -> Seq(Event)]
        /\ doubtful' \in [Ports -> SUBSET Properties]
    BY <1>1, AnnounceIs
  <2> QED
    BY <1>1, <1>2, <2>1, <2>2 DEF PropertiesTypeOK, Senders, Writers
<1>4. LifeTypeOK'
  BY <1>1, <1>2 DEF LifeTypeOK
<1>5. CountersRestart' /\ TypesDeclared'
  BY <1>1, WriteKeeps
<1>6. BaselineFirst'
  <2>1. \A u \in Senders \ {t} : outbox'[u] = outbox[u]
    BY <1>1, AnnounceIs
  <2> QED
    BY <1>1, <1>2, <2>1 DEF BaselineFirst, Free, Senders
<1>7. /\ \A q \in Ports, x \in Properties :
           q # p \/ x \notin Touched(us) => cached'[q][x] = cached[q][x]
      /\ \A x \in Touched(us) :
           \E i \in DOMAIN us :
              /\ us[i].property = x
              /\ \A j \in DOMAIN us : us[j].property = x => j <= i
              /\ us[i].value = cached'[p][x]
  BY <1>1, WriteIs
<1>8. ASSUME NEW x \in Touched(us)
      PROVE  LastGives(us, x, cached'[p][x])
  <2> SUFFICES ASSUME NEW i \in DOMAIN us, us[i].property = x,
                      \A j \in DOMAIN us : us[j].property = x => j <= i
               PROVE  us[i].value = cached'[p][x]
    BY DEF LastGives
  <2>1. PICK k \in DOMAIN us :
           /\ us[k].property = x
           /\ \A j \in DOMAIN us : us[j].property = x => j <= k
           /\ us[k].value = cached'[p][x]
    BY <1>7
  <2>2. k <= i /\ i <= k
    BY <1>8, <2>1
  <2>3. k = i
    BY <2>2
  <2> QED
    BY <2>1, <2>3
<1>9. PendingCurrent'
  BY <1>1, <1>7, <1>8, AnnouncePending
<1>10. ChangesReach'
  <2>1. outbox[t] = <<>>
    BY DEF Free
  <2> QED
    BY <1>1, <1>2, <1>7, <2>1, AnnounceReaches
<1> QED
  BY <1>3, <1>4, <1>5, <1>6, <1>9, <1>10 DEF PropertiesIInv

(* setProperty() and setPropertyMulti().                                   *)
LEMMA SetPropertiesKeeps ==
    ASSUME PropertiesIInv, NEW t \in Threads, NEW p \in Ports, NEW b \in Batches,
           SetProperties(t, p, b)
    PROVE  PropertiesIInv'
<1>1. /\ Free(t) /\ Valid(b) # <<>>
      /\ Write(p, Valid(b), "controller") /\ Announce(t, p, Valid(b))
      /\ UNCHANGED <<lifecycle, issued, listening, baseline, heard>>
  BY DEF SetProperties
<1>2. /\ Valid(b) = b /\ b \in Seq(Update)
      /\ \A i \in DOMAIN b : b[i].value.tag = Declared[b[i].property]
  BY <1>1, ValidIs DEF Accepted
<1>3. t \in Senders /\ "controller" \in Writers
  BY DEF Senders, Writers
<1>4. \A i \in DOMAIN b : b[i].value.tag = TypeBy("controller", b[i].property)
  BY <1>2 DEF TypeBy
<1> QED
  BY <1>1, <1>2, <1>3, <1>4, BatchKeeps

(* resetMetrics().                                                         *)
LEMMA ResetMetricsKeeps ==
    ASSUME PropertiesIInv, NEW t \in Threads, NEW p \in Ports, ResetMetrics(t, p)
    PROVE  PropertiesIInv'
<1>1. /\ Free(t)
      /\ Write(p, ResetUpdates, "service") /\ Announce(t, p, ResetUpdates)
      /\ UNCHANGED <<lifecycle, issued, listening, baseline, heard>>
  BY DEF ResetMetrics
<1>2. t \in Senders /\ "service" \in Writers
  BY DEF Senders, Writers
<1>3. /\ ResetUpdates \in Seq(Update)
      /\ \A i \in DOMAIN ResetUpdates :
           ResetUpdates[i].value.tag = TypeBy("service", ResetUpdates[i].property)
  BY ResetUpdatesAre DEF TypeBy
<1> QED
  BY <1>1, <1>2, <1>3, BatchKeeps

(* The control plane sets a property.                                      *)
LEMMA UtSetPropertyKeeps ==
    ASSUME PropertiesIInv, NEW p \in Ports, NEW u \in UtUpdates,
           UtSetProperty(p, u)
    PROVE  PropertiesIInv'
<1>1. /\ Free(UtWorker)
      /\ Write(p, <<u>>, "host") /\ Announce(UtWorker, p, <<u>>)
      /\ UNCHANGED <<lifecycle, issued, listening, baseline, heard>>
  BY DEF UtSetProperty
<1>2. UtWorker \in Senders /\ "host" \in Writers
  BY DEF Senders, Writers
<1>3. <<u>> \in Seq(Update)
  BY UpdatesAssumption
<1> QED
  BY <1>1, <1>2, <1>3, BatchKeeps

(* The control plane reports a signal.                                     *)
LEMMA UtSignalKeeps ==
    ASSUME PropertiesIInv, NEW p \in Ports, NEW n \in Levels, UtSignal(p, n)
    PROVE  PropertiesIInv'
<1>1. /\ Free(UtWorker)
      /\ Write(p, Signal(n), "host") /\ Announce(UtWorker, p, Signal(n))
      /\ UNCHANGED <<lifecycle, issued, listening, baseline, heard>>
  BY DEF UtSignal
<1>2. UtWorker \in Senders /\ "host" \in Writers
  BY DEF Senders, Writers
<1>3. Signal(n) \in Seq(Update)
  BY NumbersAssumption, SignalIs
<1> QED
  BY <1>1, <1>2, <1>3, BatchKeeps

(* The control plane detects a mode: what it refreshes is in doubt.        *)
LEMMA UtVideoModeKeeps ==
    ASSUME PropertiesIInv, NEW p \in Ports, NEW n \in Levels, UtVideoMode(p, n)
    PROVE  PropertiesIInv'
<1>1. /\ PropertiesTypeOK /\ LifeTypeOK /\ CountersRestart /\ TypesDeclared
      /\ BaselineFirst /\ PendingCurrent /\ ChangesReach
  BY DEF PropertiesIInv
<1>2. /\ Write(p, Signal(n), "host")
      /\ doubtful' = [doubtful EXCEPT ![p] = @ \union Telemetry]
      /\ life' = life /\ issued' = issued /\ listening' = listening
      /\ outbox' = outbox /\ baseline' = baseline /\ heard' = heard
  BY DEF UtVideoMode, lifecycle, vars
<1>3. /\ Signal(n) \in Seq(Update) /\ Touched(Signal(n)) = Telemetry
      /\ "host" \in Writers
  BY NumbersAssumption, SignalIs DEF Writers
<1>4. /\ doubtful' \in [Ports -> SUBSET Properties]
      /\ \A q \in Ports : doubtful'[q] = IF q = p THEN doubtful[q] \union Telemetry
                                         ELSE doubtful[q]
  BY <1>1, <1>2 DEF PropertiesTypeOK, Properties
<1>5. /\ cached' \in [Ports -> [Properties -> Value]]
      /\ writer' \in [Ports -> [Properties -> Writers]]
      /\ written' \in [Ports -> SUBSET Metrics]
      /\ \A q \in Ports, x \in Properties :
           q # p \/ x \notin Telemetry => cached'[q][x] = cached[q][x]
  <2>1. /\ cached' \in [Ports -> [Properties -> Value]]
        /\ writer' \in [Ports -> [Properties -> Writers]]
        /\ written' \in [Ports -> SUBSET Metrics]
        /\ \A q \in Ports, x \in Properties :
             q # p \/ x \notin Touched(Signal(n)) => cached'[q][x] = cached[q][x]
    BY <1>1, <1>2, <1>3, WriteIs
  <2> QED
    BY <1>3, <2>1
<1>6. PropertiesTypeOK'
  BY <1>1, <1>2, <1>4, <1>5 DEF PropertiesTypeOK, Senders, Writers
<1>7. CountersRestart' /\ TypesDeclared'
  BY <1>1, <1>2, <1>3, WriteKeeps
<1>8. LifeTypeOK' /\ BaselineFirst'
  BY <1>1, <1>2 DEF LifeTypeOK, BaselineFirst
<1>9. PendingCurrent' /\ ChangesReach'
  <2>1. ASSUME NEW q \in Ports, NEW x \in Properties, x \notin doubtful'[q]
        PROVE  x \notin doubtful[q] /\ cached'[q][x] = cached[q][x]
    <3>1. x \notin doubtful[q] /\ (q # p \/ x \notin Telemetry)
      BY <1>4, <2>1
    <3> QED
      BY <1>5, <3>1
  <2>2. \A q \in Ports, x \in Properties : Announced(q, x)' => Announced(q, x)
    BY <1>2, <2>1 DEF Announced
  <2> QED
    BY <1>1, <1>2, <2>1, <2>2, QuietReaches
<1> QED
  BY <1>6, <1>7, <1>8, <1>9 DEF PropertiesIInv

(* An edge of the lifecycle moves one port, and only Up makes it STARTED.  *)
LEMMA EdgeMoves ==
    ASSUME LifeTypeOK, NEW p \in Ports, NEW from, NEW to \in States,
           Edge(p, from, to)
    PROVE  /\ LifeTypeOK'
           /\ \A q \in Ports : life'[q] = IF q = p THEN to ELSE life[q]
BY DEF LifeTypeOK, Edge

(* A step of the lifecycle that the cache takes no part in.                *)
LEMMA PassKeeps ==
    ASSUME PropertiesIInv, LifeTypeOK', UNCHANGED <<values, events>>,
           issued' \in [Ports -> BOOLEAN],
           \A q \in Ports : life'[q] = "STARTED" => life[q] = "STARTED"
    PROVE  PropertiesIInv'
<1>1. /\ PropertiesTypeOK /\ CountersRestart /\ TypesDeclared
      /\ BaselineFirst /\ PendingCurrent /\ ChangesReach
  BY DEF PropertiesIInv
<1>2. /\ cached' = cached /\ writer' = writer /\ written' = written
      /\ listening' = listening /\ outbox' = outbox /\ baseline' = baseline
      /\ heard' = heard /\ doubtful' = doubtful
  BY DEF values, events
<1>3. PropertiesTypeOK'
  BY <1>1, <1>2 DEF PropertiesTypeOK, Senders
<1>4. CountersRestart' /\ TypesDeclared' /\ BaselineFirst'
  BY <1>1, <1>2
  DEF CountersRestart, TypesDeclared, BaselineFirst, Native, Counts
<1>5. /\ \A q \in Ports, x \in Properties : x \notin doubtful'[q] =>
           x \notin doubtful[q] /\ cached'[q][x] = cached[q][x]
      /\ \A q \in Ports, x \in Properties : Announced(q, x)' => Announced(q, x)
  BY <1>2 DEF Announced
<1>6. PendingCurrent' /\ ChangesReach'
  BY <1>1, <1>2, <1>5, QuietReaches
<1> QED
  BY <1>3, <1>4, <1>6 DEF PropertiesIInv

(* start() has made the port STARTED: it owes the telemetry.               *)
LEMMA StartedPortKeeps ==
    ASSUME PropertiesIInv, NEW t \in Threads, NEW p \in Ports, StartedPort(t, p)
    PROVE  PropertiesIInv'
<1>1. /\ PropertiesTypeOK /\ LifeTypeOK /\ CountersRestart /\ TypesDeclared
      /\ BaselineFirst /\ PendingCurrent /\ ChangesReach
  BY DEF PropertiesIInv
<1>2. /\ cached' = cached /\ writer' = writer /\ written' = written
      /\ issued' = issued /\ listening' = listening /\ outbox' = outbox
      /\ heard' = heard /\ doubtful' = doubtful
      /\ baseline' = [baseline EXCEPT ![t] = p]
      /\ outbox[t] = <<>> /\ baseline[t] = None
      /\ Edge(p, "STARTING", "STARTED")
  BY DEF StartedPort, values, Free, Up, Keep
<1>3. /\ baseline' \in [Threads -> Ports \union {None}]
      /\ baseline'[t] = p
      /\ \A u \in Threads \ {t} : baseline'[u] = baseline[u]
  BY <1>1, <1>2 DEF PropertiesTypeOK
<1>4. PropertiesTypeOK'
  BY <1>1, <1>2, <1>3 DEF PropertiesTypeOK, Senders
<1>5. /\ LifeTypeOK'
      /\ \A q \in Ports : life'[q] = IF q = p THEN "STARTED" ELSE life[q]
  <2>1. "STARTED" \in States
    BY DEF States
  <2> QED
    BY <1>1, <1>2, <2>1, EdgeMoves
<1>6. CountersRestart' /\ TypesDeclared'
  BY <1>1, <1>2 DEF CountersRestart, TypesDeclared, Native, Counts
<1>7. BaselineFirst'
  BY <1>1, <1>2, <1>3 DEF BaselineFirst
<1>8. ASSUME NEW q \in Ports, NEW x \in Properties, Announced(q, x)'
      PROVE  Announced(q, x)
  <2>1. x \in Supported \ doubtful[q]
    BY <1>2, <1>8 DEF Announced
  <2>2. ASSUME x \in Telemetry
        PROVE  life[q] = "STARTED" /\ \A u \in Threads : baseline[u] # q
    <3>1. life'[q] = "STARTED" /\ \A u \in Threads : baseline'[u] # q
      BY <1>8, <2>2 DEF Announced
    <3>2. q # p
      BY <1>3, <3>1
    <3>3. \A u \in Threads : baseline[u] # q
      BY <1>2, <1>3, <3>1, PropertiesAssumption
    <3> QED
      BY <1>5, <3>1, <3>2, <3>3
  <2> QED
    BY <1>2, <2>1, <2>2 DEF Announced
<1>9. PendingCurrent' /\ ChangesReach'
  <2>1. \A q \in Ports, x \in Properties : x \notin doubtful'[q] =>
           x \notin doubtful[q] /\ cached'[q][x] = cached[q][x]
    BY <1>2
  <2> QED
    BY <1>1, <1>2, <1>8, <2>1, QuietReaches
<1> QED
  BY <1>4, <1>5, <1>6, <1>7, <1>9 DEF PropertiesIInv

(* start() announces the telemetry from its snapshot.                      *)
LEMMA StartBaselineKeeps ==
    ASSUME PropertiesIInv, NEW t \in Threads, NEW p \in Ports,
           StartBaseline(t, p)
    PROVE  PropertiesIInv'
<1>1. /\ PropertiesTypeOK /\ LifeTypeOK /\ CountersRestart /\ TypesDeclared
      /\ BaselineFirst /\ PendingCurrent /\ ChangesReach
  BY DEF PropertiesIInv
<1>2. /\ cached' = cached /\ writer' = writer /\ written' = written
      /\ life' = life /\ issued' = issued /\ listening' = listening
      /\ heard' = heard
      /\ baseline' = [baseline EXCEPT ![t] = None]
      /\ baseline[t] = p
      /\ Announce(t, p, Snapshot(p))
  BY DEF StartBaseline, values, lifecycle, vars
<1>3. /\ Snapshot(p) \in Seq(Update)
      /\ Touched(Snapshot(p)) = Telemetry
      /\ \A i \in DOMAIN Snapshot(p) :
           Snapshot(p)[i].value = cached[p][Snapshot(p)[i].property]
  BY <1>1, SnapshotIs
<1>4. t \in Senders /\ outbox[t] = <<>>
  BY <1>1, <1>2, PropertiesAssumption DEF BaselineFirst, Senders
<1>5. /\ baseline' \in [Threads -> Ports \union {None}]
      /\ baseline'[t] = None
      /\ \A u \in Threads \ {t} : baseline'[u] = baseline[u]
  BY <1>1, <1>2 DEF PropertiesTypeOK
<1>6. /\ outbox' \in [Senders -> Seq(Event)]
      /\ doubtful' \in [Ports -> SUBSET Properties]
      /\ \A u \in Senders \ {t} : outbox'[u] = outbox[u]
  BY <1>1, <1>2, <1>3, <1>4, AnnounceIs
<1>7. PropertiesTypeOK'
  BY <1>1, <1>2, <1>5, <1>6 DEF PropertiesTypeOK, Senders
<1>8. LifeTypeOK' /\ CountersRestart' /\ TypesDeclared'
  BY <1>1, <1>2 DEF LifeTypeOK, CountersRestart, TypesDeclared, Native, Counts
<1>9. BaselineFirst'
  BY <1>1, <1>5, <1>6 DEF BaselineFirst, Senders
<1>10. PendingCurrent' /\ ChangesReach'
  <2>1. \A x \in Touched(Snapshot(p)), i \in DOMAIN Snapshot(p) :
           Snapshot(p)[i].property = x => Snapshot(p)[i].value = cached'[p][x]
    BY <1>2, <1>3
  <2>2. \A u \in Threads : baseline'[u] = baseline[u] \/ baseline[u] = p
    BY <1>2, <1>5
  <2>3. \A q \in Ports, x \in Properties : cached'[q][x] = cached[q][x]
    BY <1>2
  <2> DEFINE us == Snapshot(p)
  <2>4. us \in Seq(Update) /\ Telemetry \subseteq Touched(us) /\ Announce(t, p, us)
    BY <1>2, <1>3
  <2>5. \A x \in Touched(us) : LastGives(us, x, cached'[p][x])
    BY <2>1 DEF LastGives
  <2> HIDE DEF us
  <2>6. PendingCurrent'
    BY <1>1, <1>4, <2>3, <2>4, <2>5, AnnouncePending
  <2>7. ChangesReach'
    BY <1>1, <1>2, <1>4, <2>2, <2>3, <2>4, AnnounceReaches
  <2> QED
    BY <2>6, <2>7
<1> QED
  BY <1>7, <1>8, <1>9, <1>10 DEF PropertiesIInv

(* A session ends: its counters start afresh, and every metric is in doubt.*)
LEMMA EndSessionKeeps ==
    ASSUME PropertiesIInv, NEW p \in Ports, EndSession(p)
    PROVE  PropertiesIInv'
<1>1. /\ PropertiesTypeOK /\ LifeTypeOK /\ CountersRestart /\ TypesDeclared
      /\ BaselineFirst /\ PendingCurrent /\ ChangesReach
  BY DEF PropertiesIInv
<1>2. /\ writer' = writer /\ issued' = issued /\ listening' = listening
      /\ outbox' = outbox /\ baseline' = baseline /\ heard' = heard
      /\ written' = [written EXCEPT ![p] = {}]
      /\ doubtful' = [doubtful EXCEPT ![p] = @ \union Metrics]
      /\ cached' = [cached EXCEPT ![p] = [x \in Properties |->
            IF x \in Metrics THEN Retired(cached[p][x]) ELSE cached[p][x]]]
  BY <1>1 DEF EndSession, PropertiesTypeOK
<1>3. LifeTypeOK' /\ \A q \in Ports : life'[q] = "STARTED" => life[q] = "STARTED"
  <2>1. "CLOSED" \in States
    BY DEF States
  <2>2. \E from : Edge(p, from, "CLOSED")
    BY DEF EndSession, Closed, Undo
  <2> QED
    BY <1>1, <2>1, <2>2, EdgeMoves
<1>4. \A v \in Value :
         /\ Retired(v) \in Value
         /\ Retired(v).tag = v.tag
         /\ Counts(Retired(v)) => Retired(v).number = 0
  BY DEF Retired, Value, Number, Counts
<1>5. /\ cached' \in [Ports -> [Properties -> Value]]
      /\ \A q \in Ports, x \in Properties :
           /\ q # p \/ x \notin Metrics => cached'[q][x] = cached[q][x]
           /\ q = p /\ x \in Metrics => cached'[q][x] = Retired(cached[q][x])
  BY <1>1, <1>2, <1>4 DEF PropertiesTypeOK
<1>6. /\ written' \in [Ports -> SUBSET Metrics]
      /\ \A q \in Ports \ {p} : written'[q] = written[q]
  BY <1>1, <1>2 DEF PropertiesTypeOK
<1>7. /\ doubtful' \in [Ports -> SUBSET Properties]
      /\ \A q \in Ports : doubtful'[q] = IF q = p THEN doubtful[q] \union Metrics
                                         ELSE doubtful[q]
  BY <1>1, <1>2 DEF PropertiesTypeOK, Properties
<1>8. PropertiesTypeOK'
  BY <1>1, <1>2, <1>5, <1>6, <1>7 DEF PropertiesTypeOK, Senders
<1>9. \A q \in Ports, x \in Properties : cached[q][x] \in Value
  BY <1>1 DEF PropertiesTypeOK
<1>10. CountersRestart'
  <2> SUFFICES ASSUME NEW q \in Ports, NEW m \in Metrics,
                      Counts(cached'[q][m]), cached'[q][m].number # 0
               PROVE  m \in written'[q]
    BY DEF CountersRestart, Counts
  <2>1. m \in Properties
    BY DEF Properties
  <2>2. q # p
    BY <1>4, <1>5, <1>9, <2>1
  <2> QED
    BY <1>1, <1>5, <1>6, <2>1, <2>2 DEF CountersRestart
<1>11. TypesDeclared'
  <2> SUFFICES ASSUME NEW q \in Ports, NEW x \in Properties
               PROVE  /\ writer[q][x] = "controller" =>
                            cached'[q][x].tag = Declared[x]
                      /\ writer[q][x] = "service" =>
                            cached'[q][x].tag = Native(x)
    BY <1>2 DEF TypesDeclared, Native
  <2>1. cached'[q][x].tag = cached[q][x].tag
    BY <1>4, <1>5, <1>9
  <2> QED
    BY <1>1, <2>1 DEF TypesDeclared
<1>12. BaselineFirst'
  BY <1>1, <1>2 DEF BaselineFirst
<1>13. PendingCurrent' /\ ChangesReach'
  <2>1. ASSUME NEW q \in Ports, NEW x \in Properties, x \notin doubtful'[q]
        PROVE  x \notin doubtful[q] /\ cached'[q][x] = cached[q][x]
    <3>1. x \notin doubtful[q] /\ (q # p \/ x \notin Metrics)
      BY <1>7, <2>1
    <3> QED
      BY <1>5, <3>1
  <2>2. \A q \in Ports, x \in Properties : Announced(q, x)' => Announced(q, x)
    BY <1>2, <1>3, <2>1 DEF Announced
  <2> QED
    BY <1>1, <1>2, <2>1, <2>2, QuietReaches
<1> QED
  BY <1>3, <1>8, <1>10, <1>11, <1>12, <1>13 DEF PropertiesIInv

(* An observer that registers reads what it would have been told.          *)
LEMMA RegisterKeeps ==
    ASSUME PropertiesIInv, NEW o \in Observers, NEW p \in Ports, Register(o, p)
    PROVE  PropertiesIInv'
<1>1. /\ PropertiesTypeOK /\ LifeTypeOK /\ CountersRestart /\ TypesDeclared
      /\ BaselineFirst /\ PendingCurrent /\ ChangesReach
  BY DEF PropertiesIInv
<1>2. /\ cached' = cached /\ writer' = writer /\ written' = written
      /\ life' = life /\ issued' = issued /\ outbox' = outbox
      /\ baseline' = baseline /\ doubtful' = doubtful
      /\ o \notin listening[p]
      /\ listening' = [listening EXCEPT ![p] = @ \union {o}]
      /\ heard' = [heard EXCEPT ![o][p] = Polled(p)]
  BY DEF Register, values, lifecycle, vars
<1>3. /\ \A q \in Ports, x \in Properties :
           GetProperty(q, x) \in Value \union {Null}
      /\ \A q \in Ports, x \in Properties :
           Announced(q, x) => GetProperty(q, x) = cached[q][x]
  <2>1. \A q \in Ports, x \in Properties : cached[q][x] \in Value
    BY <1>1 DEF PropertiesTypeOK
  <2>2. \A x \in Properties : Number(Native(x), 0) \in Value
    BY DEF Native, Number, Value, Tags
  <2> QED
    BY <2>1, <2>2 DEF GetProperty, Announced, Live
<1>4. Polled(p) \in [Properties -> Value \union {Null}]
  BY <1>3 DEF Polled
<1>5. /\ heard' \in [Observers -> [Ports -> [Properties -> Value \union {Null}]]]
      /\ \A r \in Observers, q \in Ports :
           heard'[r][q] = IF r = o /\ q = p THEN Polled(p) ELSE heard[r][q]
  BY <1>1, <1>2, <1>4 DEF PropertiesTypeOK
<1>6. /\ listening' \in [Ports -> SUBSET Observers]
      /\ \A q \in Ports : listening'[q] = IF q = p THEN listening[q] \union {o}
                                          ELSE listening[q]
  BY <1>1, <1>2 DEF PropertiesTypeOK
<1>7. PropertiesTypeOK'
  BY <1>1, <1>2, <1>5, <1>6 DEF PropertiesTypeOK, Senders
<1>8. LifeTypeOK' /\ CountersRestart' /\ TypesDeclared' /\ BaselineFirst'
  BY <1>1, <1>2
  DEF LifeTypeOK, CountersRestart, TypesDeclared, BaselineFirst, Native, Counts
<1>9. PendingCurrent'
  BY <1>1, <1>2 DEF PendingCurrent, Senders
<1>10. ChangesReach'
  <2> SUFFICES ASSUME NEW q \in Ports, NEW x \in Properties,
                      NEW r \in listening'[q], Announced(q, x)'
               PROVE  \/ heard'[r][q][x] \in {cached[q][x], Missed}
                      \/ \E t \in Senders : Tells(outbox[t], r, q, x)
    BY <1>2 DEF ChangesReach, Senders, Missed, Null, Number
  <2>1. Announced(q, x) /\ r \in Observers
    BY <1>2, <1>6 DEF Announced
  <2>2. CASE r = o /\ q = p
    BY <1>3, <1>5, <2>1, <2>2 DEF Polled
  <2>3. CASE ~ (r = o /\ q = p)
    <3>1. r \in listening[q] /\ heard'[r][q] = heard[r][q]
      BY <1>5, <1>6, <2>1, <2>3
    <3> QED
      BY <1>1, <2>1, <3>1 DEF ChangesReach
  <2> QED
    BY <2>2, <2>3
<1> QED
  BY <1>7, <1>8, <1>9, <1>10 DEF PropertiesIInv

(* An observer that leaves forgets; what the others have heard, and what   *)
(* is on its way, stays.                                                   *)
LEMMA UnregisterKeeps ==
    ASSUME PropertiesIInv, NEW o \in Observers, NEW p \in Ports, Unregister(o, p)
    PROVE  PropertiesIInv'
<1>1. /\ PropertiesTypeOK /\ LifeTypeOK /\ CountersRestart /\ TypesDeclared
      /\ BaselineFirst /\ PendingCurrent /\ ChangesReach
  BY DEF PropertiesIInv
<1>2. /\ cached' = cached /\ writer' = writer /\ written' = written
      /\ life' = life /\ issued' = issued /\ outbox' = outbox
      /\ baseline' = baseline /\ doubtful' = doubtful
      /\ listening' = [listening EXCEPT ![p] = @ \ {o}]
      /\ heard' = [heard EXCEPT ![o][p] = Forgotten]
  BY DEF Unregister, values, lifecycle, vars
<1>3. Forgotten \in [Properties -> Value \union {Null}]
  BY DEF Forgotten, Missed
<1>4. /\ heard' \in [Observers -> [Ports -> [Properties -> Value \union {Null}]]]
      /\ \A r \in Observers, q \in Ports :
           heard'[r][q] = IF r = o /\ q = p THEN Forgotten ELSE heard[r][q]
  BY <1>1, <1>2, <1>3 DEF PropertiesTypeOK
<1>5. /\ listening' \in [Ports -> SUBSET Observers]
      /\ \A q \in Ports : listening'[q] = IF q = p THEN listening[q] \ {o}
                                          ELSE listening[q]
  BY <1>1, <1>2 DEF PropertiesTypeOK
<1>6. PropertiesTypeOK'
  BY <1>1, <1>2, <1>4, <1>5 DEF PropertiesTypeOK, Senders
<1>7. LifeTypeOK' /\ CountersRestart' /\ TypesDeclared' /\ BaselineFirst'
  BY <1>1, <1>2
  DEF LifeTypeOK, CountersRestart, TypesDeclared, BaselineFirst, Native, Counts
<1>8. PendingCurrent'
  BY <1>1, <1>2 DEF PendingCurrent, Senders
<1>9. ChangesReach'
  <2> SUFFICES ASSUME NEW q \in Ports, NEW x \in Properties,
                      NEW r \in listening'[q], Announced(q, x)'
               PROVE  \/ heard'[r][q][x] \in {cached[q][x], Missed}
                      \/ \E t \in Senders : Tells(outbox[t], r, q, x)
    BY <1>2 DEF ChangesReach, Senders, Missed, Null, Number
  <2>1. Announced(q, x) /\ r \in listening[q] /\ r \in Observers
    BY <1>1, <1>2, <1>5 DEF Announced, PropertiesTypeOK
  <2>2. heard'[r][q] = heard[r][q]
    BY <1>4, <1>5, <2>1
  <2> QED
    BY <1>1, <2>1, <2>2 DEF ChangesReach
<1> QED
  BY <1>6, <1>7, <1>8, <1>9 DEF PropertiesIInv

(* An observer hears the value of an event, or misses it.                  *)
LEMMA ToldKeeps ==
    ASSUME PropertiesIInv, NEW t \in Senders, NEW o \in Observers,
           NEW v, v \in {Head(outbox[t]).value, Missed}, Told(t, o, v)
    PROVE  PropertiesIInv'
<1> DEFINE e == Head(outbox[t])
<1>1. /\ PropertiesTypeOK /\ LifeTypeOK /\ CountersRestart /\ TypesDeclared
      /\ BaselineFirst /\ PendingCurrent /\ ChangesReach
  BY DEF PropertiesIInv
<1>2. /\ cached' = cached /\ writer' = writer /\ written' = written
      /\ life' = life /\ issued' = issued /\ listening' = listening
      /\ baseline' = baseline /\ doubtful' = doubtful
      /\ outbox[t] # <<>> /\ o \in e.to
      /\ heard' = [heard EXCEPT ![o][e.port][e.property] = v]
      /\ v \in {e.value, Missed}
  BY DEF Told, values, lifecycle, vars
<1>3. outbox' = [outbox EXCEPT ![t] = Unheard(FirstGot(outbox[t], o))]
  BY <1>1 DEF Told, FirstGot, PropertiesTypeOK
<1>4. \A u \in Senders : outbox[u] \in Seq(Event)
  BY <1>1 DEF PropertiesTypeOK
<1>5. /\ e = outbox[t][1] /\ 1 \in DOMAIN outbox[t] /\ outbox[t][1] \in Event
  BY <1>2, <1>4
<1> HIDE DEF e
<1>6. /\ e.port \in Ports /\ e.property \in Properties /\ e.value \in Value
  BY <1>5 DEF Event
<1> DEFINE un == Unheard(FirstGot(outbox[t], o))
<1>7. /\ un \in Seq(Event)
      /\ \A r, q, x :
            ~ About(e, r, q, x) \/ r # o =>
               /\ Tells(un, r, q, x) <=> Tells(outbox[t], r, q, x)
               /\ \A w : EndsWith(outbox[t], r, q, x, w) => EndsWith(un, r, q, x, w)
      /\ \A q, x, w :
            About(e, o, q, x) /\ EndsWith(outbox[t], o, q, x, w) =>
               /\ EndsWith(un, o, q, x, w)
               /\ Tells(un, o, q, x) \/ e.value = w
  <2> DEFINE es == outbox[t]
  <2>1. es \in Seq(Event) /\ es # <<>> /\ e = es[1] /\ o \in es[1].to
    BY <1>2, <1>4, <1>5
  <2>2. un = Unheard(FirstGot(es, o))
    OBVIOUS
  <2> HIDE DEF es, un
  <2>3. /\ un \in Seq(Event)
        /\ \A r, q, x :
              ~ About(es[1], r, q, x) \/ r # o =>
                 /\ Tells(un, r, q, x) <=> Tells(es, r, q, x)
                 /\ \A w : EndsWith(es, r, q, x, w) => EndsWith(un, r, q, x, w)
        /\ \A q, x, w :
              About(es[1], o, q, x) /\ EndsWith(es, o, q, x, w) =>
                 /\ EndsWith(un, o, q, x, w)
                 /\ Tells(un, o, q, x) \/ es[1].value = w
    BY <2>1, <2>2, DeliveredTell
  <2> QED
    BY <2>1, <2>3 DEF es
<1>8. outbox' = [outbox EXCEPT ![t] = un]
  BY <1>3
<1> HIDE DEF un
<1>9. /\ outbox' \in [Senders -> Seq(Event)]
      /\ outbox'[t] = un
      /\ \A u \in Senders \ {t} : outbox'[u] = outbox[u]
  BY <1>1, <1>7, <1>8 DEF PropertiesTypeOK
<1>10. /\ heard' \in [Observers -> [Ports -> [Properties -> Value \union {Null}]]]
      /\ \A r \in Observers, q \in Ports, x \in Properties :
           heard'[r][q][x] = IF r = o /\ q = e.port /\ x = e.property
                             THEN v ELSE heard[r][q][x]
  BY <1>1, <1>2, <1>6 DEF PropertiesTypeOK, Missed
<1>11. PropertiesTypeOK'
  BY <1>1, <1>2, <1>9, <1>10 DEF PropertiesTypeOK, Senders
<1>12. LifeTypeOK' /\ CountersRestart' /\ TypesDeclared'
  BY <1>1, <1>2 DEF LifeTypeOK, CountersRestart, TypesDeclared, Native, Counts
<1>13. BaselineFirst'
  BY <1>1, <1>2, <1>9 DEF BaselineFirst, Senders
<1>14. PendingCurrent'
  <2> SUFFICES ASSUME NEW q \in Ports, NEW x \in Properties, x \notin doubtful[q],
                      NEW u \in Senders, NEW r \in Observers
               PROVE  EndsWith(outbox'[u], r, q, x, cached[q][x])
    BY <1>2 DEF PendingCurrent, Senders
  <2>1. \A w \in Senders : EndsWith(outbox[w], r, q, x, cached[q][x])
    BY <1>1 DEF PendingCurrent
  <2>2. EndsWith(un, r, q, x, cached[q][x])
    BY <1>7, <2>1
  <2> QED
    BY <1>9, <2>1, <2>2
<1>15. ChangesReach'
  <2> SUFFICES ASSUME NEW q \in Ports, NEW x \in Properties,
                      NEW r \in listening[q], Announced(q, x)'
               PROVE  \/ heard'[r][q][x] \in {cached[q][x], Missed}
                      \/ \E u \in Senders : Tells(outbox'[u], r, q, x)
    BY <1>2 DEF ChangesReach, Senders, Missed, Null, Number
  <2>1. Announced(q, x) /\ r \in Observers /\ x \notin doubtful[q]
    BY <1>1, <1>2 DEF Announced, PropertiesTypeOK
  <2>2. /\ EndsWith(outbox[t], r, q, x, cached[q][x])
        /\ \/ heard[r][q][x] \in {cached[q][x], Missed}
           \/ \E u \in Senders : Tells(outbox[u], r, q, x)
    BY <1>1, <2>1 DEF ChangesReach, PendingCurrent
  <2>3. CASE r = o /\ About(e, o, q, x)
    <3>1. q = e.port /\ x = e.property
      BY <2>3 DEF About
    <3>2. heard'[r][q][x] = v
      BY <1>10, <2>1, <2>3, <3>1
    <3>3. Tells(un, o, q, x) \/ e.value = cached[q][x]
      BY <1>7, <2>2, <2>3
    <3> QED
      BY <1>2, <1>9, <2>3, <3>2, <3>3
  <2>4. CASE ~ (r = o /\ About(e, o, q, x))
    <3>1. Tells(un, r, q, x) <=> Tells(outbox[t], r, q, x)
      BY <1>7, <2>4
    <3>2. \A u \in Senders : Tells(outbox[u], r, q, x) => Tells(outbox'[u], r, q, x)
      BY <1>9, <3>1
    <3>3. ~ (r = o /\ q = e.port /\ x = e.property)
      BY <1>2, <2>4 DEF About
    <3>4. heard'[r][q][x] = heard[r][q][x]
      BY <1>10, <2>1, <3>3
    <3> QED
      BY <2>2, <3>2, <3>4
  <2> QED
    BY <2>3, <2>4
<1> QED
  BY <1>11, <1>12, <1>13, <1>14, <1>15 DEF PropertiesIInv

(* A port is new: nobody listens, nothing is on its way, and no counter    *)
(* has counted.                                                            *)
LEMMA InitHolds == PropertiesInit => PropertiesIInv
<1> SUFFICES ASSUME PropertiesInit PROVE PropertiesIInv
  OBVIOUS
<1>1. \A x \in Properties : Native(x) \in Tags
  BY DEF Native, Tags
<1>2. PowerOn \in [Properties -> Value]
  BY <1>1 DEF PowerOn, Number, Value
<1>3. PropertiesTypeOK
  BY <1>2 DEF PropertiesTypeOK, PropertiesInit, Forgotten, Missed
<1>4. LifeTypeOK
  BY DEF LifeTypeOK, PropertiesInit, Init, States
<1>5. CountersRestart
  BY DEF CountersRestart, PropertiesInit, PowerOn, Number, Properties
<1>6. TypesDeclared
  BY DEF TypesDeclared, PropertiesInit, PowerOn, Number
<1>7. BaselineFirst /\ PendingCurrent /\ ChangesReach
  BY DEF BaselineFirst, PendingCurrent, ChangesReach, EndsWith, PropertiesInit
<1> QED
  BY <1>3, <1>4, <1>5, <1>6, <1>7 DEF PropertiesIInv

(* Every step keeps the invariant.                                         *)
LEMMA StepKeeps ==
    PropertiesIInv /\ [PropertiesNext]_propVars => PropertiesIInv'
<1> SUFFICES ASSUME PropertiesIInv, [PropertiesNext]_propVars
             PROVE  PropertiesIInv'
  OBVIOUS
<1>1. LifeTypeOK /\ issued \in [Ports -> BOOLEAN]
  BY DEF PropertiesIInv, PropertiesTypeOK
<1>2. ASSUME NEW t \in Threads, NEW p \in Ports, Operation(t, p)
      PROVE  PropertiesIInv'
  BY <1>2, SetPropertiesKeeps, ResetMetricsKeeps, StartedPortKeeps,
     StartBaselineKeeps DEF Operation
<1>3. ASSUME NEW p \in Ports, NEW u \in UtUpdates, UtSetProperty(p, u)
      PROVE  PropertiesIInv'
  BY <1>3, UtSetPropertyKeeps
<1>4. ASSUME NEW p \in Ports, NEW n \in Levels, UtSignal(p, n) \/ UtVideoMode(p, n)
      PROVE  PropertiesIInv'
  BY <1>4, UtSignalKeeps, UtVideoModeKeeps
<1>5. ASSUME NEW p \in Ports, OpenPort(p)
      PROVE  PropertiesIInv'
  <2>1. /\ Edge(p, "CLOSED", "OPENING")
        /\ issued' = issued /\ UNCHANGED <<values, events>>
    BY <1>5 DEF OpenPort, Open
  <2>2. "OPENING" \in States
    BY DEF States
  <2>3. LifeTypeOK' /\ \A q \in Ports : life'[q] = "STARTED" => life[q] = "STARTED"
    BY <1>1, <2>1, <2>2, EdgeMoves
  <2> QED
    BY <1>1, <2>1, <2>3, PassKeeps
<1>6. ASSUME NEW p \in Ports, OpenedPort(p)
      PROVE  PropertiesIInv'
  <2>1. /\ Edge(p, "OPENING", "READY")
        /\ issued' = [issued EXCEPT ![p] = TRUE] /\ UNCHANGED <<values, events>>
    BY <1>6 DEF OpenedPort, Opened, Keep
  <2>2. "READY" \in States /\ issued' \in [Ports -> BOOLEAN]
    BY <1>1, <2>1 DEF States
  <2>3. LifeTypeOK' /\ \A q \in Ports : life'[q] = "STARTED" => life[q] = "STARTED"
    BY <1>1, <2>1, <2>2, EdgeMoves
  <2> QED
    BY <2>1, <2>2, <2>3, PassKeeps
<1>7. ASSUME NEW p \in Ports, Pass(p)
      PROVE  PropertiesIInv'
  <2>1. issued' = issued /\ UNCHANGED <<values, events>>
    BY <1>7 DEF Pass
  <2>2. PICK to \in {"STARTING", "STOPPING", "READY", "CLOSING"} :
           \E from : Edge(p, from, to)
    BY <1>7 DEF Pass, Start, Stop, Stopped, Close, Keep
  <2>3. to \in States /\ to # "STARTED"
    BY DEF States
  <2>4. LifeTypeOK' /\ \A q \in Ports : life'[q] = "STARTED" => life[q] = "STARTED"
    BY <1>1, <2>2, <2>3, EdgeMoves
  <2> QED
    BY <1>1, <2>1, <2>4, PassKeeps
<1>8. ASSUME NEW p \in Ports, EndSession(p)
      PROVE  PropertiesIInv'
  BY <1>8, EndSessionKeeps
<1>9. ASSUME NEW o \in Observers, NEW p \in Ports, Register(o, p) \/ Unregister(o, p)
      PROVE  PropertiesIInv'
  BY <1>9, RegisterKeeps, UnregisterKeeps
<1>10. ASSUME NEW t \in Senders, NEW o \in Observers, Deliver(t, o) \/ Refuse(t, o)
       PROVE  PropertiesIInv'
  BY <1>10, ToldKeeps DEF Deliver, Refuse
<1>11. ASSUME NEW c \in Mortal, ClientLeaves(c)
       PROVE  PropertiesIInv'
  <2>1. life' = life /\ issued' = issued /\ UNCHANGED <<values, events>>
    BY <1>11 DEF ClientLeaves, Leave
  <2>2. LifeTypeOK'
    BY <1>1, <2>1 DEF LifeTypeOK
  <2> QED
    BY <1>1, <2>1, <2>2, PassKeeps
<1>12. CASE UNCHANGED propVars
  <2>1. life' = life /\ issued' = issued /\ UNCHANGED <<values, events>>
    BY <1>12 DEF propVars, lifecycle, vars
  <2>2. LifeTypeOK'
    BY <1>1, <2>1 DEF LifeTypeOK
  <2> QED
    BY <1>1, <2>1, <2>2, PassKeeps
<1> QED
  BY <1>2, <1>3, <1>4, <1>5, <1>6, <1>7, <1>8, <1>9, <1>10, <1>11, <1>12
  DEF PropertiesNext

----------------------------------------------------------------------------
(* The theorems.                                                           *)

(* The inductive invariant holds.                                          *)
THEOREM PropertiesInvariant == PropertiesSpec => []PropertiesIInv
<1> QED
  BY InitHolds, StepKeeps, PTL DEF PropertiesSpec

(* The cache, the outboxes and what the observers have heard keep their    *)
(* types.                                                                  *)
THEOREM PropertiesTypeCorrect == PropertiesSpec => []PropertiesTypeOK
<1>1. PropertiesIInv => PropertiesTypeOK
  BY DEF PropertiesIInv
<1> QED
  BY <1>1, PropertiesInvariant, PTL

(* resetSessionStateLocked and the writes between them: what a metric of   *)
(* an integer type counts was written since the last session ended, by the *)
(* session of now, by the host, or late, by the controller of an earlier   *)
(* one.                                                                    *)
THEOREM CountersStartAfresh == PropertiesSpec => []CountersRestart
<1>1. PropertiesIInv => CountersRestart
  BY DEF PropertiesIInv
<1> QED
  BY <1>1, PropertiesInvariant, PTL

(* setPropertyMulti() makes every update of a batch, and only of one whose *)
(* entries are all acceptable.                                             *)
THEOREM BatchesWhole == PropertiesSpec => BatchAtomic
<1>1. ASSUME PropertiesIInv, NEW t \in Threads, NEW p \in Ports, NEW b \in Batches,
             SetProperties(t, p, b), NEW i \in DOMAIN b
      PROVE  /\ b[i].property \in Writable
             /\ \/ cached'[p][b[i].property] = b[i].value
                \/ \E j \in DOMAIN b : j > i /\ b[j].property = b[i].property
  <2>1. Valid(b) # <<>> /\ Write(p, Valid(b), "controller")
    BY <1>1 DEF SetProperties
  <2>2. /\ Valid(b) = b /\ b \in Seq(Update)
        /\ b[i].property \in Writable
    BY <1>1, <2>1, ValidIs DEF Accepted
  <2>3. b[i].property \in Touched(b)
    BY DEF Touched
  <2>4. PropertiesTypeOK /\ "controller" \in Writers /\ Write(p, b, "controller")
    BY <1>1, <2>1, <2>2 DEF PropertiesIInv, Writers
  <2>5. \A x \in Touched(b) : \E j \in DOMAIN b :
           /\ b[j].property = x
           /\ \A k \in DOMAIN b : b[k].property = x => k <= j
           /\ b[j].value = cached'[p][x]
    BY <2>2, <2>4, WriteIs
  <2>6. PICK j \in DOMAIN b :
           /\ b[j].property = b[i].property
           /\ \A k \in DOMAIN b : b[k].property = b[i].property => k <= j
           /\ b[j].value = cached'[p][b[i].property]
    BY <2>3, <2>5
  <2>7. i <= j /\ i \in Nat /\ j \in Nat
    BY <2>2, <2>6
  <2>8. CASE j = i
    BY <2>2, <2>6, <2>8
  <2>9. CASE j > i
    BY <2>2, <2>6, <2>9
  <2> QED
    BY <2>7, <2>8, <2>9
<1>2. PropertiesIInv =>
         [cached' # cached =>
            \A t \in Threads, p \in Ports, b \in Batches :
               SetProperties(t, p, b) =>
                  \A i \in DOMAIN b :
                     /\ b[i].property \in Writable
                     /\ \/ cached'[p][b[i].property] = b[i].value
                        \/ \E j \in DOMAIN b :
                              j > i /\ b[j].property = b[i].property]_propVars
  BY <1>1
<1> QED
  BY <1>2, PropertiesInvariant, PTL DEF BatchAtomic, PropertiesSpec

(* setPropertyMulti() lets no controller give a property another type than *)
(* the profile declares, and the service keeps to the one it built it with *)
(* whatever the profile declares.                                          *)
THEOREM TypesAsDeclared == PropertiesSpec => []TypesDeclared
<1>1. PropertiesIInv => TypesDeclared
  BY DEF PropertiesIInv
<1> QED
  BY <1>1, PropertiesInvariant, PTL

(* The invariant says it of one property at a time.                        *)
LEMMA AnnouncedIsLearnt ==
    ASSUME PropertiesIInv, NEW p \in Ports, NEW o \in listening[p],
           NEW x \in Properties, Announced(p, x)
    PROVE  Learns(o, p, x, cached[p][x])
<1>1. /\ \A t \in Senders : EndsWith(outbox[t], o, p, x, cached[p][x])
      /\ \/ heard[o][p][x] \in {cached[p][x], Missed}
         \/ \E t \in Senders : Tells(outbox[t], o, p, x)
  BY DEF PropertiesIInv, PropertiesTypeOK, PendingCurrent, ChangesReach, Announced
<1>2. ASSUME NEW t \in Senders
      PROVE  ToCome(t, o, p, x) =
                {j \in DOMAIN outbox[t] : About(outbox[t][j], o, p, x)}
  BY DEF ToCome, About
<1>3. ASSUME NEW t \in Senders, ToCome(t, o, p, x) # {}
      PROVE  outbox[t][Max(ToCome(t, o, p, x))].value = cached[p][x]
  <2> DEFINE T == ToCome(t, o, p, x)
  <2>1. outbox[t] \in Seq(Event)
    BY DEF PropertiesIInv, PropertiesTypeOK
  <2>2. Len(outbox[t]) \in Nat /\ T \subseteq 0..Len(outbox[t])
    BY <1>2, <2>1
  <2> HIDE DEF T
  <2>3. Max(T) \in T /\ \A m \in T : m <= Max(T)
    BY <1>3, <2>2, MaxIs DEF T
  <2>4. /\ Max(T) \in DOMAIN outbox[t] /\ About(outbox[t][Max(T)], o, p, x)
        /\ \A j \in DOMAIN outbox[t] : About(outbox[t][j], o, p, x) => j <= Max(T)
    BY <1>2, <2>3 DEF T
  <2>5. \A j \in DOMAIN outbox[t] : j > Max(T) => ~ About(outbox[t][j], o, p, x)
    BY <2>1, <2>4
  <2> QED
    BY <1>1, <2>4, <2>5 DEF EndsWith, T
<1>4. \A t \in Senders : Tells(outbox[t], o, p, x) => ToCome(t, o, p, x) # {}
  BY <1>2 DEF Tells
<1> QED
  BY <1>1, <1>3, <1>4 DEF Learns

(* What is announced can be read: getPropertyMulti() answers what the      *)
(* cache holds.                                                            *)
LEMMA AnnouncedIsRead ==
    ASSUME NEW p \in Ports, NEW xs \in Seq(Properties), NEW i \in DOMAIN xs,
           Announced(p, xs[i])
    PROVE  GetPropertyMulti(p, xs)[i].value = cached[p][xs[i]]
<1>1. xs # <<>>
  OBVIOUS
<1>2. xs[i] \in Supported /\ (xs[i] \in Telemetry => Live(p))
  BY DEF Announced, Live
<1> QED
  BY <1>1, <1>2 DEF GetPropertyMulti

(* Together: of everything announced, in the order of one reading.         *)
LEMMA ReachIsHeard == PropertiesIInv => CurrentValueAnnounced
<1> SUFFICES ASSUME PropertiesIInv, NEW p \in Ports, NEW o \in listening[p],
                    NEW i \in DOMAIN SetToSeq({x \in Properties : Announced(p, x)})
             PROVE  LET xs == SetToSeq({x \in Properties : Announced(p, x)}) IN
                    Learns(o, p, xs[i], GetPropertyMulti(p, xs)[i].value)
  BY DEF CurrentValueAnnounced
<1> DEFINE S == {x \in Properties : Announced(p, x)}
<1> DEFINE xs == SetToSeq(S)
<1>1. IsFiniteSet(S) /\ S \subseteq Properties
  BY FiniteProperties, FS_Subset
<1>2. xs \in Seq(S)
  <2> HIDE DEF S
  <2> QED
    BY <1>1, SetToSeqLists
<1>3. xs \in Seq(Properties) /\ xs[i] \in S
  <2> HIDE DEF S, xs
  <2> QED
    BY <1>1, <1>2 DEF xs, S
<1>4. xs[i] \in Properties /\ Announced(p, xs[i])
  BY <1>3
<1> HIDE DEF S
<1>5. Learns(o, p, xs[i], cached[p][xs[i]])
  BY <1>4, AnnouncedIsLearnt
<1>6. GetPropertyMulti(p, xs)[i].value = cached[p][xs[i]]
  BY <1>3, <1>4, AnnouncedIsRead DEF S
<1> QED
  BY <1>5, <1>6 DEF S

(* What an observer has heard of a property, or is about to hear last, is  *)
(* what it reads, unless events of two threads crossed, a value changed    *)
(* silently, or the observer missed what it was told.                      *)
THEOREM CurrentValueReaches == PropertiesSpec => []CurrentValueAnnounced
<1> QED
  BY ReachIsHeard, PropertiesInvariant, PTL

----------------------------------------------------------------------------
(* The contract underneath.                                                *)

(* The cache moves no port: the ports go where the contract lets them.     *)
LEMMA ContractStep == [PropertiesNext]_propVars => [Next]_vars
<1> SUFFICES ASSUME [PropertiesNext]_propVars PROVE Next \/ UNCHANGED vars
  OBVIOUS
<1>1. ASSUME NEW t \in Threads, NEW p \in Ports, Operation(t, p)
      PROVE  Next \/ UNCHANGED vars
  <2>1. CASE StartedPort(t, p)
    BY <2>1 DEF StartedPort, Next
  <2>2. CASE StartBaseline(t, p)
    BY <2>2 DEF StartBaseline, lifecycle
  <2>3. CASE ResetMetrics(t, p)
    BY <2>3 DEF ResetMetrics, lifecycle
  <2>4. ASSUME NEW b \in Batches, SetProperties(t, p, b)
        PROVE  UNCHANGED vars
    BY <2>4 DEF SetProperties, lifecycle
  <2> QED
    BY <1>1, <2>1, <2>2, <2>3, <2>4 DEF Operation
<1>2. ASSUME NEW p \in Ports,
             \/ \E u \in UtUpdates : UtSetProperty(p, u)
             \/ \E n \in Levels : UtSignal(p, n) \/ UtVideoMode(p, n)
      PROVE  UNCHANGED vars
  BY <1>2 DEF UtSetProperty, UtSignal, UtVideoMode, lifecycle
<1>3. ASSUME NEW p \in Ports,
             OpenPort(p) \/ OpenedPort(p) \/ Pass(p) \/ EndSession(p)
      PROVE  Next
  BY <1>3 DEF OpenPort, OpenedPort, Pass, EndSession, Next
<1>4. ASSUME NEW o \in Observers, NEW p \in Ports, Register(o, p) \/ Unregister(o, p)
      PROVE  UNCHANGED vars
  BY <1>4 DEF Register, Unregister, lifecycle
<1>5. ASSUME NEW t \in Senders, NEW o \in Observers, Deliver(t, o) \/ Refuse(t, o)
      PROVE  UNCHANGED vars
  BY <1>5 DEF Deliver, Refuse, Told, lifecycle
<1>6. ASSUME NEW c \in Mortal, ClientLeaves(c)
      PROVE  Next
  BY <1>6 DEF ClientLeaves, Next
<1>7. CASE UNCHANGED propVars
  BY <1>7 DEF propVars, lifecycle
<1> QED
  BY <1>1, <1>2, <1>3, <1>4, <1>5, <1>6, <1>7 DEF PropertiesNext

(* The ports of the cache live as the lifecycle, which implements the same *)
(* contract, has them live: nothing is cached, announced or cleared in an  *)
(* order of states that a port of the service could not go through.        *)
THEOREM PropertiesKeepContract == PropertiesSpec => Spec
<1>1. PropertiesInit => Init
  BY DEF PropertiesInit
<1> QED
  BY <1>1, ContractStep, PTL DEF PropertiesSpec, Spec
=============================================================================
