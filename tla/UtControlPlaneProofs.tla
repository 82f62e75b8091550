------------------------- MODULE UtControlPlaneProofs -------------------------
(* Proofs of the safety properties of UtControlPlane, for command lines of *)
(* any length, every profile and set of messages, and any number of them.  *)
EXTENDS UtControlPlane, SequenceTheorems, WellFoundedInduction, TLAPS

----------------------------------------------------------------------------
(* Induction over what is computed step by step.                           *)

(* A set of natural numbers that is not empty has a least element.         *)
LEMMA Least ==
    ASSUME NEW T, T \subseteq Nat, T # {}
    PROVE  \E n \in T : \A m \in T : n <= m
<1> DEFINE R == {ss \in Nat \X Nat : ss[1] < ss[2]}
<1>1. IsWellFoundedOn(R, Nat)
  BY NatLessThanWellFounded DEF OpToRel
<1>2. \A x, y \in Nat : <<y, x>> \in R <=> y < x
  OBVIOUS
<1> HIDE DEF R
<1>3. PICK x \in T : \A y \in T : ~ (<<y, x>> \in R)
  BY <1>1, WFMin
<1>4. ASSUME NEW m \in T PROVE x <= m
  <2>1. m \in Nat /\ x \in Nat
    OBVIOUS
  <2>2. ~ (m < x)
    BY <1>2, <1>3, <2>1
  <2> QED
    BY <2>1, <2>2
<1> QED
  BY <1>4

(* A set that holds 0 and, with each number up to n, the next one, holds   *)
(* all of 0..n.                                                            *)
LEMMA UpTo ==
    ASSUME NEW n \in Nat, NEW T, 0 \in T,
           \A i \in 1..n : i - 1 \in T => i \in T
    PROVE  0..n \subseteq T
<1> DEFINE U == {i \in 0..n : i \notin T}
<1>1. CASE U # {}
  <2>1. U \subseteq Nat
    OBVIOUS
  <2>2. \E i \in U : \A m \in U : i <= m
    <3> HIDE DEF U
    <3> QED
      BY <1>1, <2>1, Least
  <2>3. PICK i \in U : \A m \in U : i <= m
    BY <2>2
  <2>4. i # 0 /\ i \in 1..n /\ i - 1 \in 0..n
    OBVIOUS
  <2>5. i - 1 \in T
    BY <2>3, <2>4
  <2> QED
    BY <2>4, <2>5
<1>2. CASE U = {}
  BY <1>2
<1> QED
  BY <1>1, <1>2

(* What starts with b and is computed by h step by step exists.            *)
Stepwise(g, m, b, h) ==
    g[0] = b /\ \A i \in 1..m : g[i] = h[<<i, g[i - 1]>>]

(* There is such a sequence of any length, by induction on it.             *)
LEMMA Recursion ==
    ASSUME NEW S, NEW n \in Nat, NEW b \in S, NEW h \in [(1..n) \X S -> S]
    PROVE  \E g \in [0..n -> S] : Stepwise(g, n, b, h)
<1> DEFINE T == {m \in 0..n : \E g \in [0..m -> S] : Stepwise(g, m, b, h)}
<1>1. 0 \in T
  <2>1. [i \in 0..0 |-> b] \in [0..0 -> S] /\ Stepwise([i \in 0..0 |-> b], 0, b, h)
    BY DEF Stepwise
  <2> QED
    BY <2>1
<1>2. ASSUME NEW m \in 1..n, m - 1 \in T PROVE m \in T
  <2>1. PICK g \in [0..m - 1 -> S] : Stepwise(g, m - 1, b, h)
    BY <1>2
  <2> DEFINE f == [i \in 0..m |-> IF i = m THEN h[<<m, g[m - 1]>>] ELSE g[i]]
  <2>2. m - 1 \in 0..m - 1 /\ g[m - 1] \in S
    BY <2>1
  <2>3. h[<<m, g[m - 1]>>] \in S
    BY <2>2
  <2>4. f \in [0..m -> S]
    <3>1. ASSUME NEW i \in 0..m PROVE f[i] \in S
      <4>1. CASE i = m
        BY <4>1, <2>3
      <4>2. CASE i # m
        BY <4>2
      <4> QED
        BY <4>1, <4>2
    <3> HIDE DEF f
    <3>2. f = [i \in 0..m |-> f[i]]
      BY DEF f
    <3> QED
      BY <3>1, <3>2
  <2>5. f[0] = b
    BY <2>1 DEF Stepwise
  <2>6. ASSUME NEW i \in 1..m PROVE f[i] = h[<<i, f[i - 1]>>]
    <3>1. i - 1 \in 0..m - 1 /\ f[i - 1] = g[i - 1]
      OBVIOUS
    <3>2. CASE i = m
      <4>1. f[m] = h[<<m, g[m - 1]>>]
        OBVIOUS
      <4> HIDE DEF f
      <4> QED
        BY <3>1, <3>2, <4>1
    <3>3. CASE i # m
      BY <3>1, <3>3, <2>1 DEF Stepwise
    <3> QED
      BY <3>2, <3>3
  <2> HIDE DEF f
  <2>7. Stepwise(f, m, b, h)
    BY <2>5, <2>6 DEF Stepwise
  <2>8. \E e \in [0..m -> S] : Stepwise(e, m, b, h)
    BY <2>4, <2>7
  <2> QED
    BY <2>8
<1>3. n \in T
  <2> HIDE DEF T
  <2>1. 0..n \subseteq T
    BY <1>1, <1>2, UpTo
  <2> QED
    BY <2>1
<1> QED
  BY <1>3

----------------------------------------------------------------------------
(* The command line.                                                       *)

ReadSoFar == [awaits : {"option", "path", "port", "nothing"},
              path : STRING, port : 1..MaxPort]

NothingRead == [awaits |-> "option", path |-> DefaultPath, port |-> DefaultPort]

(* What a word makes of what was read before it.                           *)
LEMMA ReadWordIs ==
    ASSUME NEW s \in ReadSoFar, NEW w \in Word
    PROVE  LET r == ReadWord(s, w) IN
           /\ r \in ReadSoFar
           /\ s.awaits = "nothing" => r.awaits = "nothing"
           /\ s.awaits = "option" =>
                 /\ r.path = s.path /\ r.port = s.port
                 /\ r.awaits = IF w = Plain("--hfp") THEN "path"
                               ELSE IF w = Plain("--port") THEN "port"
                               ELSE "nothing"
           /\ s.awaits = "path" =>
                 /\ r.port = s.port
                 /\ r.awaits = IF w # Plain("") THEN "option" ELSE "nothing"
                 /\ w # Plain("") => r.path = w.text
           /\ s.awaits = "port" =>
                 /\ r.path = s.path
                 /\ r.awaits = IF ParsePort(w) THEN "option" ELSE "nothing"
                 /\ ParsePort(w) => r.port = w.number
<1>1. Plain("--hfp") # Plain("--port")
  BY DEF Plain
<1>2. CASE s.awaits = "option" /\ w = Plain("--hfp")
  <2>1. ReadWord(s, w) = [s EXCEPT !.awaits = "path"]
    BY <1>1, <1>2 DEF ReadWord
  <2> QED
    BY <1>1, <1>2, <2>1 DEF ReadSoFar
<1>3. CASE s.awaits = "option" /\ w = Plain("--port")
  <2>1. ReadWord(s, w) = [s EXCEPT !.awaits = "port"]
    BY <1>1, <1>3 DEF ReadWord
  <2> QED
    BY <1>1, <1>3, <2>1 DEF ReadSoFar
<1>4. CASE s.awaits = "path" /\ w # Plain("")
  <2>1. ReadWord(s, w) = [s EXCEPT !.awaits = "option", !.path = w.text]
    BY <1>4 DEF ReadWord, Empty
  <2>2. w.text \in STRING
    BY DEF Word
  <2> QED
    BY <1>4, <2>1, <2>2 DEF ReadSoFar
<1>5. CASE s.awaits = "port" /\ ParsePort(w)
  <2>1. ReadWord(s, w) = [s EXCEPT !.awaits = "option", !.port = w.number]
    BY <1>5 DEF ReadWord
  <2>2. w.number \in 1..MaxPort
    BY <1>5 DEF ParsePort
  <2> QED
    BY <1>5, <2>1, <2>2 DEF ReadSoFar
<1>6. CASE /\ ~ (s.awaits = "option" /\ w = Plain("--hfp"))
           /\ ~ (s.awaits = "option" /\ w = Plain("--port"))
           /\ ~ (s.awaits = "path" /\ w # Plain(""))
           /\ ~ (s.awaits = "port" /\ ParsePort(w))
  <2>1. ReadWord(s, w) = [s EXCEPT !.awaits = "nothing"]
    BY <1>6 DEF ReadWord, Empty
  <2> QED
    BY <1>6, <2>1 DEF ReadSoFar
<1> QED
  BY <1>2, <1>3, <1>4, <1>5, <1>6

(* The words are read one by one.                                          *)
LEMMA ReadingIs ==
    ASSUME NEW argv \in Seq(Word)
    PROVE  /\ Reading(argv)[0] = NothingRead
           /\ \A n \in 0..Len(argv) : Reading(argv)[n] \in ReadSoFar
           /\ \A n \in 1..Len(argv) :
                 Reading(argv)[n] = ReadWord(Reading(argv)[n - 1], argv[n])
<1> DEFINE N == Len(argv)
           h == [x \in (1..N) \X ReadSoFar |-> ReadWord(x[2], argv[x[1]])]
           body(f) == [n \in 0..N |->
                          IF n = 0
                          THEN [awaits |-> "option", path |-> DefaultPath, port |-> DefaultPort]
                          ELSE ReadWord(f[n - 1], argv[n])]
           r == Reading(argv)
<1>1. N \in Nat /\ \A i \in 1..N : argv[i] \in Word
  OBVIOUS
<1>2. NothingRead \in ReadSoFar
  BY SettingsAssumption DEF NothingRead, ReadSoFar
<1>3. h \in [(1..N) \X ReadSoFar -> ReadSoFar]
  BY <1>1, ReadWordIs
<1>4. PICK g \in [0..N -> ReadSoFar] : Stepwise(g, N, NothingRead, h)
  <2> HIDE DEF h, N
  <2>1. \E g \in [0..N -> ReadSoFar] : Stepwise(g, N, NothingRead, h)
    BY <1>1, <1>2, <1>3, Recursion
  <2> QED
    BY <2>1
<1>5. ASSUME NEW i \in 1..N PROVE g[i] = ReadWord(g[i - 1], argv[i])
  <2>1. g[i - 1] \in ReadSoFar
    BY <1>4
  <2> QED
    BY <1>4, <2>1 DEF Stepwise
<1>6. g = body(g)
  BY <1>4, <1>5 DEF Stepwise, NothingRead
<1>7. r = body(r)
  <2>1. \E f : f = body(f)
    BY <1>6
  <2>2. r = CHOOSE f : f = body(f)
    BY DEF Reading
  <2> HIDE DEF body, r
  <2> QED
    BY <2>1, <2>2
<1>8. r[0] = NothingRead /\ \A n \in 1..N : r[n] = ReadWord(r[n - 1], argv[n])
  <2> HIDE DEF r
  <2> QED
    BY <1>1, <1>7 DEF NothingRead
<1>9. \A n \in 0..N : r[n] \in ReadSoFar
  <2> DEFINE T == {n \in 0..N : r[n] \in ReadSoFar}
  <2> HIDE DEF r, N
  <2>1. ASSUME NEW i \in 1..N, i - 1 \in T PROVE i \in T
    <3>1. r[i - 1] \in ReadSoFar /\ argv[i] \in Word
      BY <1>1, <2>1 DEF T
    <3>2. r[i] \in ReadSoFar
      BY <1>8, <3>1, ReadWordIs
    <3> QED
      BY <1>1, <3>2 DEF T
  <2>2. 0 \in T
    BY <1>1, <1>2, <1>8
  <2>3. 0..N \subseteq T
    <3> HIDE DEF T
    <3> QED
      BY <1>1, <2>1, <2>2, UpTo
  <2> QED
    BY <2>3
<1> QED
  BY <1>8, <1>9

(* The option that i pairs in, up to k, name last.                         *)
LastOf(argv, i, k, option) ==
    /\ argv[2 * i - 1] = Plain(option)
    /\ \A j \in 1..k : argv[2 * j - 1] = Plain(option) => j <= i

GoodPair(argv, i) ==
    \/ argv[2 * i - 1] = Plain("--hfp") /\ argv[2 * i] # Plain("")
    \/ argv[2 * i - 1] = Plain("--port") /\ ParsePort(argv[2 * i])

(* What is known after k pairs.                                            *)
PairsRead(argv, k) ==
    LET s == Reading(argv)[2 * k] IN
    /\ s.awaits \in {"option", "nothing"}
    /\ s.awaits = "option" <=> \A i \in 1..k : GoodPair(argv, i)
    /\ s.awaits = "option" =>
          /\ \/ /\ s.path = DefaultPath
                /\ \A i \in 1..k : argv[2 * i - 1] # Plain("--hfp")
             \/ \E i \in 1..k : LastOf(argv, i, k, "--hfp") /\ s.path = argv[2 * i].text
          /\ \/ /\ s.port = DefaultPort
                /\ \A i \in 1..k : argv[2 * i - 1] # Plain("--port")
             \/ \E i \in 1..k : LastOf(argv, i, k, "--port") /\ s.port = argv[2 * i].number

(* One more pair.                                                          *)
LEMMA OneMorePair ==
    ASSUME NEW argv \in Seq(Word), NEW k \in Nat, k # 0, 2 * k <= Len(argv),
           PairsRead(argv, k - 1)
    PROVE  PairsRead(argv, k)
<1> DEFINE s == Reading(argv)[2 * (k - 1)]
           m == Reading(argv)[2 * k - 1]
           r == Reading(argv)[2 * k]
           o == argv[2 * k - 1]
           v == argv[2 * k]
<1>1. /\ 2 * (k - 1) \in 0..Len(argv)
      /\ 2 * k - 1 \in 1..Len(argv) /\ 2 * k \in 1..Len(argv)
      /\ (2 * k - 1) - 1 = 2 * (k - 1)
      /\ Len(argv) \in Nat
  OBVIOUS
<1>2. /\ s \in ReadSoFar /\ m \in ReadSoFar /\ r \in ReadSoFar
      /\ o \in Word /\ v \in Word
      /\ m = ReadWord(s, o) /\ r = ReadWord(m, v)
  <2>1. \A n \in 1..Len(argv) : argv[n] \in Word
    OBVIOUS
  <2> QED
    BY <1>1, <2>1, ReadingIs
<1>3. /\ s.awaits \in {"option", "nothing"}
      /\ s.awaits = "option" <=> \A i \in 1..(k - 1) : GoodPair(argv, i)
  BY DEF PairsRead
<1>4. Plain("--hfp") # Plain("--port")
  BY DEF Plain
<1>5. GoodPair(argv, k) <=> \/ o = Plain("--hfp") /\ v # Plain("")
                            \/ o = Plain("--port") /\ ParsePort(v)
  BY DEF GoodPair
<1>6. (\A i \in 1..k : GoodPair(argv, i))
      <=> (\A i \in 1..(k - 1) : GoodPair(argv, i)) /\ GoodPair(argv, k)
  <2>1. 1..k = 1..(k - 1) \union {k}
    OBVIOUS
  <2> QED
    BY <2>1
<1>7. /\ s.awaits = "nothing" => m.awaits = "nothing"
      /\ s.awaits = "option" =>
            /\ m.path = s.path /\ m.port = s.port
            /\ m.awaits = IF o = Plain("--hfp") THEN "path"
                          ELSE IF o = Plain("--port") THEN "port" ELSE "nothing"
  <2> HIDE DEF s, m, r, o, v
  <2>1. s \in ReadSoFar /\ o \in Word /\ m = ReadWord(s, o)
    BY <1>2
  <2> QED
    BY <2>1, ReadWordIs, Zenon
<1>8. /\ m.awaits = "nothing" => r.awaits = "nothing"
      /\ m.awaits = "path" =>
            /\ r.port = m.port
            /\ r.awaits = IF v # Plain("") THEN "option" ELSE "nothing"
            /\ v # Plain("") => r.path = v.text
      /\ m.awaits = "port" =>
            /\ r.path = m.path
            /\ r.awaits = IF ParsePort(v) THEN "option" ELSE "nothing"
            /\ ParsePort(v) => r.port = v.number
  <2> HIDE DEF s, m, r, o, v
  <2>1. m \in ReadSoFar /\ v \in Word /\ r = ReadWord(m, v)
    BY <1>2
  <2> QED
    BY <2>1, ReadWordIs, Zenon
<1> DEFINE good == \A i \in 1..(k - 1) : GoodPair(argv, i)
           gk == GoodPair(argv, k)
<1>9. /\ r.awaits \in {"option", "nothing"}
      /\ r.awaits = "option" <=> good /\ gk
  <2> HIDE DEF s, m, r, o, v, good, gk
  <2>1. gk <=> \/ o = Plain("--hfp") /\ v # Plain("")
               \/ o = Plain("--port") /\ ParsePort(v)
    BY <1>5 DEF gk, o, v
  <2>2. s.awaits = "option" <=> good
    BY <1>3 DEF s, good
  <2>3. s.awaits \in {"option", "nothing"}
    BY <1>3 DEF s
  <2> QED
    BY <1>4, <1>7, <1>8, <2>1, <2>2, <2>3
<1>10. ASSUME r.awaits = "option"
       PROVE  /\ s.awaits = "option"
              /\ \/ o = Plain("--hfp") /\ r.path = v.text /\ r.port = s.port
                 \/ o = Plain("--port") /\ r.port = v.number /\ r.path = s.path
  <2>1. s.awaits \in {"option", "nothing"}
    BY <1>3
  <2> HIDE DEF s, m, r, o, v
  <2> QED
    BY <1>10, <1>7, <1>8, <2>1
<1>11. ASSUME NEW option, o = Plain(option)
       PROVE  LastOf(argv, k, k, option)
  BY <1>11 DEF LastOf
<1>12. ASSUME r.awaits = "option"
       PROVE  \/ /\ r.path = DefaultPath
                 /\ \A i \in 1..k : argv[2 * i - 1] # Plain("--hfp")
              \/ \E i \in 1..k : LastOf(argv, i, k, "--hfp") /\ r.path = argv[2 * i].text
  <2>1. CASE o = Plain("--hfp")
    BY <1>4, <1>10, <1>11, <1>12, <2>1
  <2>2. CASE o # Plain("--hfp")
    <3>1. \/ /\ s.path = DefaultPath
             /\ \A i \in 1..(k - 1) : argv[2 * i - 1] # Plain("--hfp")
          \/ \E i \in 1..(k - 1) : /\ LastOf(argv, i, k - 1, "--hfp")
                                   /\ s.path = argv[2 * i].text
      BY <1>10, <1>12 DEF PairsRead
    <3>2. r.path = s.path
      BY <1>10, <1>12, <2>2
    <3>3. 1..k = 1..(k - 1) \union {k}
      OBVIOUS
    <3> QED
      BY <2>2, <3>1, <3>2, <3>3 DEF LastOf
  <2> QED
    BY <2>1, <2>2
<1>13. ASSUME r.awaits = "option"
       PROVE  \/ /\ r.port = DefaultPort
                 /\ \A i \in 1..k : argv[2 * i - 1] # Plain("--port")
              \/ \E i \in 1..k : LastOf(argv, i, k, "--port") /\ r.port = argv[2 * i].number
  <2>1. CASE o = Plain("--port")
    BY <1>4, <1>10, <1>11, <1>13, <2>1
  <2>2. CASE o # Plain("--port")
    <3>1. \/ /\ s.port = DefaultPort
             /\ \A i \in 1..(k - 1) : argv[2 * i - 1] # Plain("--port")
          \/ \E i \in 1..(k - 1) : /\ LastOf(argv, i, k - 1, "--port")
                                   /\ s.port = argv[2 * i].number
      BY <1>10, <1>13 DEF PairsRead
    <3>2. r.port = s.port
      BY <1>10, <1>13, <2>2
    <3>3. 1..k = 1..(k - 1) \union {k}
      OBVIOUS
    <3> QED
      BY <2>2, <3>1, <3>2, <3>3 DEF LastOf
  <2> QED
    BY <2>1, <2>2
<1> QED
  BY <1>6, <1>9, <1>12, <1>13 DEF PairsRead

(* Every pair is read so.                                                  *)
LEMMA EveryPairRead ==
    ASSUME NEW argv \in Seq(Word), NEW K \in Nat, 2 * K <= Len(argv)
    PROVE  PairsRead(argv, K)
<1> DEFINE T == {k \in 0..K : PairsRead(argv, k)}
<1>1. PairsRead(argv, 0)
  <2>1. Reading(argv)[2 * 0] = NothingRead
    BY ReadingIs
  <2> QED
    BY <2>1 DEF PairsRead, NothingRead
<1>2. ASSUME NEW k \in 1..K, PairsRead(argv, k - 1) PROVE PairsRead(argv, k)
  <2>1. k \in Nat /\ k # 0 /\ 2 * k <= Len(argv)
    OBVIOUS
  <2> QED
    BY <1>2, <2>1, OneMorePair
<1>3. 0 \in T /\ \A k \in 1..K : k - 1 \in T => k \in T
  BY <1>1, <1>2
<1>4. 0..K \subseteq T
  <2> HIDE DEF T
  <2> QED
    BY <1>3, UpTo
<1> QED
  BY <1>4

(* The value of the last pair with an option is the one that LastOf names. *)
LEMMA LastValueIs ==
    ASSUME NEW argv \in Seq(Word), NEW option, NEW i \in Pairs(argv),
           LastOf(argv, i, Len(argv) \div 2, option)
    PROVE  /\ ValuesOf(argv, option) # {}
           /\ LastValue(argv, option) = argv[2 * i]
<1> DEFINE V == ValuesOf(argv, option)
           c == CHOOSE j \in V : \A l \in V : l <= j
<1>1. V \subseteq Int
  BY DEF ValuesOf, Pairs
<1>2. i \in V /\ \A l \in V : l <= i
  BY DEF LastOf, ValuesOf, Pairs
<1>3. c \in V /\ \A l \in V : l <= c
  <2> HIDE DEF V
  <2> QED
    BY <1>2
<1>4. c = i
  <2> HIDE DEF V, c
  <2>1. c <= i /\ i <= c /\ c \in Int /\ i \in Int
    BY <1>1, <1>2, <1>3
  <2> QED
    BY <2>1
<1>5. LastValue(argv, option) = argv[2 * c]
  BY DEF LastValue
<1> QED
  BY <1>2, <1>4, <1>5

(* The numbers of ports are the ones a port may have.                      *)
LEMMA PortRange == \A n \in Int : n \in 1..MaxPort <=> 0 < n /\ n < 65536
<1> SUFFICES ASSUME NEW n \in Int
             PROVE  n \in 1..MaxPort <=> 0 < n /\ n < 65536
  OBVIOUS
<1>1. MaxPort \in Int /\ MaxPort + 1 = 65536
  BY SMT DEF MaxPort
<1>2. \A m \in Int : n \in 1..m <=> 0 < n /\ n < m + 1
  OBVIOUS
<1>3. n \in 1..MaxPort <=> 0 < n /\ n < MaxPort + 1
  BY <1>1, <1>2
<1> QED
  BY <1>1, <1>3

(* The words are read as the grammar says.                                 *)
LEMMA ParseArgsIs ==
    ASSUME NEW argv \in Seq(Word)
    PROVE  LET read == ParseArgs(argv) IN
           /\ GoodUsage(read) <=> RightUsage(argv)
           /\ RightUsage(argv) =>
                 Settings(read) = [path |-> AskedPath(argv), port |-> AskedPort(argv)]
           /\ Settings(read) \in [path : STRING, port : 1..MaxPort]
<1> DEFINE K == Len(argv) \div 2
           s == Reading(argv)[2 * K]
           read == ParseArgs(argv)
<1>1. /\ Len(argv) \in Nat /\ K \in Nat
      /\ \/ Len(argv) = 2 * K /\ Len(argv) % 2 = 0
         \/ Len(argv) = 2 * K + 1 /\ Len(argv) % 2 # 0
  <2>1. Len(argv) \in Nat
    OBVIOUS
  <2>2. \A n \in Nat : /\ n \div 2 \in Nat
                       /\ \/ n = 2 * (n \div 2) /\ n % 2 = 0
                          \/ n = 2 * (n \div 2) + 1 /\ n % 2 # 0
    OBVIOUS
  <2> QED
    BY <2>1, <2>2
<1>2. PairsRead(argv, K)
  BY <1>1, EveryPairRead
<1>3. read \in ReadSoFar /\ s \in ReadSoFar
  BY <1>1, ReadingIs DEF ParseArgs
<1>4. Settings(read) \in [path : STRING, port : 1..MaxPort]
  <2> HIDE DEF read
  <2> QED
    BY <1>3 DEF Settings, ReadSoFar
<1>5. CASE Len(argv) = 2 * K + 1
  <2>1. read = ReadWord(s, argv[Len(argv)]) /\ argv[Len(argv)] \in Word
    BY <1>1, <1>5, ReadingIs DEF ParseArgs
  <2>2. s.awaits \in {"option", "nothing"}
    BY <1>2 DEF PairsRead
  <2>3. read.awaits # "option"
    <3> HIDE DEF s, read
    <3> QED
      BY <1>3, <2>1, <2>2, ReadWordIs
  <2>4. ~ RightUsage(argv)
    <3>1. Len(argv) % 2 # 0
      BY <1>1, <1>5
    <3> QED
      BY <3>1, Zenon DEF RightUsage
  <2> QED
    BY <1>4, <2>3, <2>4 DEF GoodUsage
<1>6. CASE Len(argv) = 2 * K
  <2> DEFINE good == \A i \in 1..K : GoodPair(argv, i)
  <2>1. read = s /\ Len(argv) % 2 = 0
    BY <1>1, <1>6 DEF ParseArgs
  <2>2. Pairs(argv) = 1..K
    BY DEF Pairs
  <2>3. \A i \in 1..K : argv[2 * i] \in Word /\ argv[2 * i].number \in Int
    <3>1. ASSUME NEW i \in 1..K PROVE argv[2 * i] \in Word
      <4>1. 2 * i \in 1..Len(argv)
        BY <1>1, <1>6
      <4> QED
        BY <4>1
    <3> QED
      BY <3>1 DEF Word
  <2>4. good <=> /\ ValuesOf(argv, "--hfp") \union ValuesOf(argv, "--port") = 1..K
                 /\ \A i \in ValuesOf(argv, "--hfp") : argv[2 * i] # Plain("")
                 /\ \A i \in ValuesOf(argv, "--port") : NamesPort(argv[2 * i])
    <3>1. \A i \in 1..K : ParsePort(argv[2 * i])
                          <=> NamesPort(argv[2 * i])
      BY <2>3, PortRange DEF ParsePort, NamesPort
    <3>2. Plain("--hfp") # Plain("--port")
      BY DEF Plain
    <3> DEFINE hfp == ValuesOf(argv, "--hfp")
               port == ValuesOf(argv, "--port")
    <3>3. /\ \A i : i \in hfp <=> i \in 1..K /\ argv[2 * i - 1] = Plain("--hfp")
          /\ \A i : i \in port <=> i \in 1..K /\ argv[2 * i - 1] = Plain("--port")
      BY <2>2 DEF ValuesOf
    <3> HIDE DEF K, hfp, port
    <3>4. hfp \union port = 1..K <=> \A i \in 1..K : i \in hfp \/ i \in port
      BY <3>3
    <3>5. \A i \in 1..K : GoodPair(argv, i) <=>
             \/ i \in hfp /\ argv[2 * i] # Plain("")
             \/ i \in port /\ ParsePort(argv[2 * i])
      BY <3>3 DEF GoodPair
    <3>6. \A i \in 1..K : ~ (i \in hfp /\ i \in port)
      BY <3>2, <3>3
    <3>7. \A i : i \in hfp \/ i \in port => i \in 1..K
      BY <3>3
    <3>8. good <=> /\ \A i \in 1..K : i \in hfp \/ i \in port
                   /\ \A i \in hfp : argv[2 * i] # Plain("")
                   /\ \A i \in port : ParsePort(argv[2 * i])
      BY <3>5, <3>6, <3>7, Zenon
    <3>9. (\A i \in port : ParsePort(argv[2 * i]))
          <=> \A i \in port : NamesPort(argv[2 * i])
      BY <3>1, <3>7, Zenon
    <3> HIDE DEF good
    <3>10. good <=> /\ hfp \union port = 1..K
                    /\ \A i \in hfp : argv[2 * i] # Plain("")
                    /\ \A i \in port : NamesPort(argv[2 * i])
      BY <3>4, <3>8, <3>9, Zenon
    <3> QED
      BY <3>10 DEF hfp, port
  <2>5. s.awaits = "option" <=> good
    BY <1>2 DEF PairsRead
  <2>6. ASSUME s.awaits = "option" PROVE s.path = AskedPath(argv)
    <3>1. CASE \E i \in 1..K : LastOf(argv, i, K, "--hfp") /\ s.path = argv[2 * i].text
      BY <2>2, <3>1, LastValueIs DEF AskedPath
    <3>2. CASE /\ s.path = DefaultPath
               /\ \A i \in 1..K : argv[2 * i - 1] # Plain("--hfp")
      BY <2>2, <3>2 DEF AskedPath, ValuesOf
    <3> QED
      BY <1>2, <2>6, <3>1, <3>2 DEF PairsRead
  <2>7. ASSUME s.awaits = "option" PROVE s.port = AskedPort(argv)
    <3>1. CASE \E i \in 1..K : LastOf(argv, i, K, "--port") /\ s.port = argv[2 * i].number
      BY <2>2, <3>1, LastValueIs DEF AskedPort
    <3>2. CASE /\ s.port = DefaultPort
               /\ \A i \in 1..K : argv[2 * i - 1] # Plain("--port")
      BY <2>2, <3>2 DEF AskedPort, ValuesOf
    <3> QED
      BY <1>2, <2>7, <3>1, <3>2 DEF PairsRead
  <2>8. RightUsage(argv) <=> good /\ AskedPath(argv) # ""
    <3> HIDE DEF good, K
    <3> QED
      BY <2>1, <2>2, <2>4, Zenon DEF RightUsage
  <2>9. GoodUsage(read) <=> s.awaits = "option" /\ s.path # ""
    BY <2>1 DEF GoodUsage
  <2>10. Settings(read) = [path |-> s.path, port |-> s.port]
    BY <2>1 DEF Settings
  <2> HIDE DEF good, s, read
  <2> QED
    BY <1>4, <2>5, <2>6, <2>7, <2>8, <2>9, <2>10 DEF read
<1> QED
  BY <1>1, <1>5, <1>6

----------------------------------------------------------------------------
(* The pipe from the host to the ports.                                    *)

(* What becomes of a message.                                              *)
Handling == [message : Payloads, to : Configured \union {Absent}]

(* The types of what the messages go through, whatever the settings are.   *)
PipeTypeOK ==
    /\ main \in Phases
    /\ worker \in Running \union {"none", "done"}
    /\ instance \in BOOLEAN
    /\ ports \subseteq Configured
    /\ hand \in Seq(Payloads)
    /\ queue \in Seq(Payloads)
    /\ sent \in Seq(Payloads)
    /\ handled \in Seq(Handling)

(* The types of what the command line and the threads set.                 *)
SetupTypeOK ==
    /\ args \in Seq(Word)
    /\ settings \in [path : STRING, port : 1..MaxPort]
    /\ exitCode \in 0..2
    /\ stop \in BOOLEAN

(* The worker holds a message exactly while it handles one.                *)
OneInHand ==
    IF worker = "handle" THEN \E m \in Payloads : hand = <<m>> ELSE hand = <<>>

(* There is no worker before it is started, none that runs once it is      *)
(* joined, and no control plane left to hear the host in the end.          *)
Unstarted == main \in {"args", "init_ut", "load", "start_worker"}

Over == main \in {"exit", "clear", "gone"}

WorkerWithinPhases ==
    /\ Unstarted => worker = "none" /\ handled = <<>>
    /\ Over => worker \in {"none", "done"}
    /\ main \in {"args", "clear", "gone"} => ~instance

(* There are no ports before the profile is loaded, and nothing is queued  *)
(* before the command line is read.                                        *)
NothingYet ==
    /\ main \in {"args", "init_ut", "load"} => ports = {}
    /\ main = "args" => queue = <<>>

Messages(h) == [i \in DOMAIN h |-> h[i].message]

(* Every message the host sent is handled, in hand or queued, once and in  *)
(* the order it was sent, until the queue is cleared at the very end; then *)
(* those handled are the first ones sent.                                  *)
FirstInFirstOut ==
    IF main = "gone"
    THEN IsPrefix(Messages(handled), sent)
    ELSE sent = Messages(handled) \o hand \o queue

(* The inductive invariant.                                                *)
UtIInv ==
    /\ SetupTypeOK /\ PipeTypeOK /\ OneInHand /\ WorkerWithinPhases
    /\ NothingYet /\ FirstInFirstOut /\ EarlyMessagesKept

----------------------------------------------------------------------------
(* What was said of a message does not change what it was.                 *)
LEMMA MessagesType ==
    ASSUME NEW h \in Seq(Handling)
    PROVE  /\ Messages(h) \in Seq(Payloads)
           /\ Len(Messages(h)) = Len(h)
<1>1. DOMAIN h = 1..Len(h) /\ Len(h) \in Nat
  BY LenProperties
<1>2. \A i \in 1..Len(h) : h[i].message \in Payloads
  <2>1. \A i \in 1..Len(h) : h[i] \in Handling
    BY ElementOfSeq
  <2> QED
    BY <2>1 DEF Handling
<1>3. Messages(h) \in [1..Len(h) -> Payloads]
  BY <1>1, <1>2, Zenon DEF Messages
<1>4. Messages(h) \in Seq(Payloads)
  BY <1>1, <1>3, SeqDef
<1> QED
  BY <1>1, <1>3, <1>4, LenProperties

(* What a message that was handled last adds to the messages handled.      *)
LEMMA MessagesAppend ==
    ASSUME NEW h \in Seq(Handling), NEW e \in Handling
    PROVE  Messages(Append(h, e)) = Append(Messages(h), e.message)
<1> DEFINE g == Append(h, e)
           l == Messages(g)
           r == Append(Messages(h), e.message)
<1>1. e.message \in Payloads
  BY DEF Handling
<1>2. /\ g \in Seq(Handling) /\ Len(g) = Len(h) + 1 /\ g[Len(h) + 1] = e
      /\ \A i \in 1..Len(h) : g[i] = h[i]
  BY AppendProperties
<1>3. /\ l \in Seq(Payloads) /\ Len(l) = Len(h) + 1
      /\ Messages(h) \in Seq(Payloads) /\ Len(Messages(h)) = Len(h)
  BY <1>2, MessagesType
<1>4. /\ r \in Seq(Payloads) /\ Len(r) = Len(h) + 1
      /\ \A i \in 1..Len(h) : r[i] = Messages(h)[i]
      /\ r[Len(h) + 1] = e.message
  BY <1>1, <1>3, AppendProperties
<1>5. \A i \in 1..Len(l) : l[i] = r[i]
  <2> TAKE i \in 1..Len(l)
  <2>1. Len(h) \in Nat /\ DOMAIN g = 1..Len(h) + 1 /\ DOMAIN h = 1..Len(h)
    BY <1>2, LenProperties
  <2>2. l[i] = g[i].message
    BY <1>3, <2>1 DEF Messages
  <2>3. CASE i \in 1..Len(h)
    BY <1>2, <1>4, <2>1, <2>2, <2>3 DEF Messages
  <2>4. CASE i = Len(h) + 1
    BY <1>2, <1>4, <2>2, <2>4
  <2> QED
    BY <1>3, <2>1, <2>3, <2>4
<1> QED
  BY <1>3, <1>4, <1>5, SeqEqual
(* A sequence begins with its head, and ends with its tail.                *)
LEMMA HeadThenTail ==
    ASSUME NEW S, NEW q \in Seq(S), q # <<>>
    PROVE  <<Head(q)>> \o Tail(q) = q
<1>1. Len(q) \in Nat \ {0}
  BY EmptySeq
<1>2. q = SubSeq(q, 1, Len(q)) /\ Tail(q) = SubSeq(q, 2, Len(q))
  BY SubSeqFull, TailIsSubSeq
<1>3. SubSeq(q, 1, Len(q)) = <<q[1]>> \o SubSeq(q, 2, Len(q))
  BY <1>1, SubSeqRecursiveFirst
<1> QED
  BY <1>2, <1>3

(* What is appended to three sequences in a row is appended to the last.   *)
LEMMA AppendToLast ==
    ASSUME NEW s \in Seq(Payloads), NEW t \in Seq(Payloads),
           NEW u \in Seq(Payloads), NEW e \in Payloads
    PROVE  Append(s \o t \o u, e) = s \o t \o Append(u, e)
<1> DEFINE st == s \o t
<1>1. st \in Seq(Payloads) /\ <<e>> \in Seq(Payloads)
  BY ConcatProperties
<1> HIDE DEF st
<1>2. st \o u \in Seq(Payloads)
  BY <1>1, ConcatProperties
<1>3. Append(st \o u, e) = (st \o u) \o <<e>> /\ Append(u, e) = u \o <<e>>
  BY <1>2, AppendIsConcat
<1>4. (st \o u) \o <<e>> = st \o (u \o <<e>>)
  BY <1>1, ConcatAssociative
<1>5. Append(st \o u, e) = st \o Append(u, e)
  BY <1>3, <1>4
<1> QED
  BY <1>5 DEF st

(* What a sequence is continued with leaves it a prefix.                   *)
LEMMA ConcatIsPrefix ==
    ASSUME NEW S, NEW s \in Seq(S), NEW t \in Seq(S)
    PROVE  IsPrefix(s, s \o t)
<1> DEFINE n == Len(s)
           u == s \o t
<1>1. /\ n \in Nat /\ Len(t) \in Nat
      /\ u \in Seq(S) /\ Len(u) = n + Len(t)
      /\ \A i \in 1..n : s[i] = u[i]
  BY LenProperties, ConcatProperties
<1>2. \A i \in 1..n : s[i] \in S /\ u[i] \in S
  BY <1>1, ElementOfSeq
<1> DEFINE l == SubSeq(s, 1, n)
           r == SubSeq(u, 1, n)
<1>3. l \in Seq(S) /\ Len(l) = n /\ \A i \in 1..n : l[i] = s[i]
  BY <1>1, <1>2, SubSeqFull
<1>4. r \in Seq(S) /\ Len(r) = n /\ \A i \in 1..n : r[i] = u[i]
  <2> HIDE DEF u, n
  <2>1. /\ r \in Seq(S)
        /\ Len(r) = IF 1 <= n THEN n - 1 + 1 ELSE 0
        /\ \A i \in 1..n - 1 + 1 : r[i] = u[1 + i - 1]
    BY <1>1, <1>2, SubSeqProperties
  <2> QED
    BY <1>1, <2>1
<1>5. l = r
  BY <1>1, <1>3, <1>4, SeqEqual
<1> QED
  BY <1>1, <1>5 DEF IsPrefix

----------------------------------------------------------------------------
(* Nothing is sent, queued or handled when the process starts.             *)
LEMMA UtIInvInit == UtInit => UtIInv
<1> SUFFICES ASSUME UtInit PROVE UtIInv
  OBVIOUS
<1>1. Messages(<<>>) = <<>>
  BY DEF Messages
<1>2. PipeTypeOK
  BY EmptySeq DEF UtInit, PipeTypeOK, Phases, Running
<1>3. FirstInFirstOut
  BY <1>1, <1>2, ConcatEmptySeq DEF UtInit, FirstInFirstOut, PipeTypeOK
<1>4. OneInHand /\ WorkerWithinPhases /\ NothingYet /\ EarlyMessagesKept
  BY DEF UtInit, OneInHand, WorkerWithinPhases, Unstarted, Over, NothingYet,
     EarlyMessagesKept
<1>5. SetupTypeOK
  <2>1. args \in Seq(Word)
    BY CommandLinesAssumption DEF UtInit
  <2>2. settings \in [path : STRING, port : 1..MaxPort]
    BY SettingsAssumption DEF UtInit
  <2>3. exitCode \in 0..2
    BY DEF UtInit
  <2>4. stop \in BOOLEAN
    BY DEF UtInit
  <2> QED
    BY <2>1, <2>2, <2>3, <2>4 DEF SetupTypeOK
<1> QED
  BY <1>2, <1>3, <1>4, <1>5 DEF UtIInv

(* Every step keeps the types of the settings: what is read of the command *)
(* line is a text and the number of a port.                                *)
LEMMA SetupTypeStep ==
    ASSUME UtIInv, UtNext
    PROVE  SetupTypeOK'
<1> USE DEF UtIInv, SetupTypeOK, service, setup, pipe, history
<1>1. CASE ReadArguments
  <2>1. Settings(ParseArgs(args)) \in [path : STRING, port : 1..MaxPort]
    BY ParseArgsIs
  <2>2. settings' \in [path : STRING, port : 1..MaxPort]
    BY <1>1, <2>1 DEF ReadArguments
  <2>3. args' \in Seq(Word) /\ exitCode' \in 0..2 /\ stop' \in BOOLEAN
    BY <1>1, EmptySeq DEF ReadArguments
  <2> QED
    BY <2>2, <2>3
<1>2. CASE StartWorker \/ StopWorker
  BY <1>2 DEF StartWorker, StopWorker
<1>3. CASE Publish \/ LeaveThreadPool
  <2>1. exitCode' \in {exitCode, 0, 1}
    BY <1>3 DEF Publish, LeaveThreadPool
  <2> QED
    BY <1>3, <2>1 DEF Publish, LeaveThreadPool
<1>4. CASE InitUt \/ LoadProfile \/ JoinWorker \/ ExitUt \/ ClearQueue
  BY <1>4 DEF InitUt, LoadProfile, JoinWorker, ExitUt, ClearQueue
<1>5. CASE WorkerStep
  BY <1>5 DEF WorkerStep, WorkerStops, WorkerGoesOn, WorkerSleeps, GetMessage,
     HandleMessage
<1>6. ASSUME NEW m \in Payloads, PushMessage(m)
      PROVE  SetupTypeOK'
  BY <1>6 DEF PushMessage
<1> QED
  BY <1>1, <1>2, <1>3, <1>4, <1>5, <1>6 DEF UtNext, MainStep

(* Every step keeps the types of the pipe.                                 *)
LEMMA PipeTypeStep ==
    ASSUME UtIInv, UtNext
    PROVE  PipeTypeOK'
<1> USE DEF UtIInv, PipeTypeOK, service, setup, pipe, history, Phases, Running
<1>1. CASE MainStep
  BY <1>1, EmptySeq DEF MainStep, ReadArguments, InitUt, LoadProfile, StartWorker,
     Publish, StopWorker, JoinWorker, ExitUt, ClearQueue
<1>2. CASE LeaveThreadPool
  BY <1>2 DEF LeaveThreadPool
<1>3. CASE WorkerStops \/ WorkerGoesOn \/ WorkerSleeps
  BY <1>3 DEF WorkerStops, WorkerGoesOn, WorkerSleeps
<1>4. CASE GetMessage
  <2>1. Head(queue) \in Payloads /\ Tail(queue) \in Seq(Payloads)
    BY <1>4, HeadTailProperties DEF GetMessage
  <2> QED
    BY <1>4, <2>1 DEF GetMessage
<1>5. CASE HandleMessage
  <2>1. PICK m \in Payloads : hand = <<m>>
    BY <1>5 DEF HandleMessage, OneInHand
  <2>2. Target(m, ports) \in Configured \union {Absent}
    BY DEF Target
  <2>3. [message |-> m, to |-> Target(m, ports)] \in Handling
    BY <2>2 DEF Handling
  <2>4. handled' \in Seq(Handling)
    BY <1>5, <2>1, <2>3, AppendProperties DEF HandleMessage
  <2> QED
    BY <1>5, <2>4, EmptySeq DEF HandleMessage
<1>6. ASSUME NEW m \in Payloads, PushMessage(m)
      PROVE  PipeTypeOK'
  BY <1>6, AppendProperties DEF PushMessage
<1> QED
  BY <1>1, <1>2, <1>3, <1>4, <1>5, <1>6 DEF UtNext, WorkerStep

(* The worker runs between its start and its join only, and takes one      *)
(* message at a time.                                                      *)
LEMMA WorkerStepOK ==
    ASSUME UtIInv, UtNext
    PROVE  OneInHand' /\ WorkerWithinPhases'
<1> USE DEF UtIInv, PipeTypeOK, OneInHand, WorkerWithinPhases, Unstarted, Over,
        service, setup, pipe, history, Phases, Running
<1>1. CASE MainStep
  BY <1>1 DEF MainStep, ReadArguments, InitUt, LoadProfile, StartWorker,
     Publish, StopWorker, JoinWorker, ExitUt, ClearQueue
<1>2. CASE LeaveThreadPool
  BY <1>2 DEF LeaveThreadPool
<1>3. CASE WorkerStops \/ WorkerGoesOn \/ WorkerSleeps
  BY <1>3 DEF WorkerStops, WorkerGoesOn, WorkerSleeps
<1>4. CASE GetMessage
  <2>1. Head(queue) \in Payloads
    BY <1>4, HeadTailProperties DEF GetMessage
  <2> QED
    BY <1>4, <2>1 DEF GetMessage
<1>5. CASE HandleMessage
  BY <1>5 DEF HandleMessage
<1>6. ASSUME NEW m \in Payloads, PushMessage(m)
      PROVE  OneInHand' /\ WorkerWithinPhases'
  BY <1>6 DEF PushMessage
<1> QED
  BY <1>1, <1>2, <1>3, <1>4, <1>5, <1>6 DEF UtNext, WorkerStep

(* The ports are loaded by the main thread alone, and the host is heard    *)
(* only after the command line was read.                                   *)
LEMMA NothingYetStep ==
    ASSUME UtIInv, UtNext
    PROVE  NothingYet'
<1> USE DEF NothingYet, service, setup, pipe, history
<1>0. /\ main = "args" => ~instance /\ worker = "none"
      /\ main \in {"args", "init_ut", "load"} => ports = {}
      /\ main = "args" => queue = <<>>
  BY DEF UtIInv, WorkerWithinPhases, Unstarted
<1>1. CASE ReadArguments \/ InitUt \/ LoadProfile \/ StartWorker
  BY <1>0, <1>1 DEF ReadArguments, InitUt, LoadProfile, StartWorker
<1>2. CASE Publish \/ StopWorker \/ JoinWorker \/ ExitUt \/ ClearQueue
           \/ LeaveThreadPool
  BY <1>2 DEF Publish, StopWorker, JoinWorker, ExitUt, ClearQueue, LeaveThreadPool
<1>3. CASE WorkerStep
  BY <1>0, <1>3 DEF WorkerStep, WorkerStops, WorkerGoesOn, WorkerSleeps, GetMessage,
     HandleMessage
<1>4. ASSUME NEW m \in Payloads, PushMessage(m)
      PROVE  NothingYet'
  BY <1>0, <1>4 DEF PushMessage
<1> QED
  BY <1>1, <1>2, <1>3, <1>4 DEF UtNext, MainStep

(* A message moves from the host to the queue, to the hand of the worker   *)
(* and to those handled, always at the end of one and from the front of    *)
(* the other.                                                              *)
LEMMA OrderStep ==
    ASSUME UtIInv, UtNext
    PROVE  FirstInFirstOut'
<1> USE DEF UtIInv, PipeTypeOK, FirstInFirstOut, service, setup, pipe, history,
        Phases, Running
<1> DEFINE done == Messages(handled)
<1>0. done \in Seq(Payloads)
  BY MessagesType
<1>1. CASE ReadArguments
  <2>1. main # "gone" /\ handled = <<>> /\ hand = <<>>
    BY <1>1 DEF ReadArguments, WorkerWithinPhases, Unstarted, OneInHand
  <2>2. UNCHANGED <<handled, hand, queue, sent>>
    BY <1>1 DEF ReadArguments
  <2>3. CASE main' # "gone"
    BY <2>1, <2>2, <2>3 DEF Messages
  <2>4. CASE main' = "gone"
    <3>1. done = <<>>
      BY <2>1 DEF Messages
    <3>2. IsPrefix(done, sent)
      BY <3>1, EmptySeq, SubSeqEmpty, LenProperties DEF IsPrefix
    <3>3. Messages(handled)' = done /\ sent' = sent
      BY <2>2 DEF Messages
    <3> QED
      BY <2>4, <3>2, <3>3 DEF IsPrefix
  <2> QED
    BY <2>3, <2>4
<1>2. CASE \/ InitUt \/ LoadProfile \/ StartWorker \/ Publish
           \/ StopWorker \/ JoinWorker \/ ExitUt \/ LeaveThreadPool
           \/ WorkerStops \/ WorkerGoesOn \/ WorkerSleeps
  <2>1. /\ UNCHANGED <<handled, hand, queue, sent>>
        /\ main = "gone" <=> main' = "gone"
    BY <1>2 DEF InitUt, LoadProfile, StartWorker, Publish, StopWorker, JoinWorker,
       ExitUt, LeaveThreadPool, WorkerStops, WorkerGoesOn, WorkerSleeps
  <2>2. Messages(handled)' = done
    BY <2>1 DEF Messages
  <2> QED
    BY <2>1, <2>2 DEF IsPrefix
<1>3. CASE ClearQueue
  <2>1. /\ main = "clear" /\ main' = "gone"
        /\ Messages(handled)' = done /\ sent' = sent /\ hand = <<>>
    BY <1>3 DEF ClearQueue, Messages, WorkerWithinPhases, Over, OneInHand
  <2>2. sent = done \o queue
    BY <1>0, <2>1, ConcatEmptySeq
  <2>3. IsPrefix(done, sent)
    BY <1>0, <2>2, ConcatIsPrefix
  <2> QED
    BY <2>1, <2>3 DEF IsPrefix
<1>4. CASE GetMessage
  <2>1. /\ worker = "take" /\ queue # <<>> /\ hand = <<>>
        /\ hand' = <<Head(queue)>> /\ queue' = Tail(queue)
        /\ main' = main /\ main # "gone"
        /\ Messages(handled)' = done /\ sent' = sent
    BY <1>4 DEF GetMessage, OneInHand, Messages, WorkerWithinPhases, Over
  <2>2. <<Head(queue)>> \o Tail(queue) = queue
    BY <2>1, HeadThenTail
  <2>3. sent = done \o queue
    BY <1>0, <2>1, ConcatEmptySeq
  <2>4. Head(queue) \in Payloads /\ Tail(queue) \in Seq(Payloads)
    BY <2>1, HeadTailProperties
  <2>5. done \o <<Head(queue)>> \o Tail(queue) = done \o queue
    BY <1>0, <2>2, <2>4, ConcatAssociative
  <2> QED
    BY <2>1, <2>3, <2>5
<1>5. CASE HandleMessage
  <2>1. PICK m \in Payloads : hand = <<m>>
    BY <1>5 DEF HandleMessage, OneInHand
  <2> DEFINE e == [message |-> m, to |-> Target(m, ports)]
  <2>2. e \in Handling
    BY DEF Target, Handling
  <2>3. /\ handled' = Append(handled, e) /\ hand' = <<>> /\ queue' = queue
        /\ sent' = sent /\ main' = main /\ main # "gone"
    BY <1>5, <2>1 DEF HandleMessage, WorkerWithinPhases, Over
  <2>4. Messages(handled)' = done \o <<m>>
    <3>1. Messages(handled)' = Append(done, m)
      BY <2>2, <2>3, MessagesAppend DEF Messages
    <3> QED
      BY <1>0, <3>1, AppendIsConcat
  <2>5. done \o <<m>> \in Seq(Payloads)
    BY <1>0, ConcatProperties
  <2> QED
    BY <2>1, <2>3, <2>4, <2>5, ConcatEmptySeq
<1>6. ASSUME NEW m \in Payloads, PushMessage(m)
      PROVE  FirstInFirstOut'
  <2>1. /\ main' = main /\ main # "gone" /\ hand' = hand
        /\ queue' = Append(queue, m) /\ sent' = Append(sent, m)
        /\ Messages(handled)' = done
    BY <1>6 DEF PushMessage, WorkerWithinPhases, Messages
  <2>2. Append(done \o hand \o queue, m) = done \o hand \o Append(queue, m)
    <3>1. hand \in Seq(Payloads) /\ queue \in Seq(Payloads) /\ m \in Payloads
      BY <1>6
    <3> HIDE DEF done, UtIInv, PipeTypeOK, FirstInFirstOut
    <3> QED
      BY <1>0, <3>1, AppendToLast
  <2> QED
    BY <2>1, <2>2
<1> QED
  BY <1>1, <1>2, <1>3, <1>4, <1>5, <1>6 DEF UtNext, WorkerStep, MainStep

(* Before the ports are there nothing has been handled; afterwards they    *)
(* stay until the end.                                                     *)
LEMMA EarlyStep ==
    ASSUME UtIInv, UtNext
    PROVE  EarlyMessagesKept'
<1> USE DEF UtIInv, PipeTypeOK, EarlyMessagesKept, service, setup, pipe, history,
        Phases, Running
<1>1. CASE ReadArguments \/ InitUt \/ LoadProfile \/ StartWorker
  <2>1. handled = <<>> /\ handled' = handled
    BY <1>1 DEF ReadArguments, InitUt, LoadProfile, StartWorker,
       WorkerWithinPhases, Unstarted
  <2> QED
    BY <2>1
<1>2. CASE Publish \/ StopWorker \/ JoinWorker \/ ExitUt \/ LeaveThreadPool
  BY <1>2 DEF Publish, StopWorker, JoinWorker, ExitUt, LeaveThreadPool
<1>3. CASE ClearQueue
  BY <1>3 DEF ClearQueue
<1>4. CASE WorkerStops \/ WorkerGoesOn \/ WorkerSleeps \/ GetMessage
  BY <1>4 DEF WorkerStops, WorkerGoesOn, WorkerSleeps, GetMessage
<1>5. CASE HandleMessage
  <2>1. PICK m \in Payloads : hand = <<m>>
    BY <1>5 DEF HandleMessage, OneInHand
  <2> DEFINE e == [message |-> m, to |-> Target(m, ports)]
  <2>2. e \in Handling
    BY DEF Target, Handling
  <2>3. handled' = Append(handled, e) /\ ports' = ports /\ main' = main
    BY <1>5, <2>1 DEF HandleMessage
  <2>4. e.to = Target(e.message, ports)
    OBVIOUS
  <2> HIDE DEF e
  <2>5. /\ DOMAIN handled = 1..Len(handled) /\ Len(handled) \in Nat
        /\ DOMAIN handled' = 1..Len(handled) + 1
        /\ \A i \in 1..Len(handled) : handled'[i] = handled[i]
        /\ handled'[Len(handled) + 1] = e
    BY <2>2, <2>3, AppendProperties, LenProperties
  <2>6. ASSUME main # "gone", NEW i \in 1..Len(handled) + 1
        PROVE  handled'[i].to = Target(handled'[i].message, ports)
    <3>1. CASE i \in 1..Len(handled)
      BY <2>5, <2>6, <3>1
    <3>2. CASE i = Len(handled) + 1
      BY <2>4, <2>5, <3>2
    <3> QED
      BY <2>5, <3>1, <3>2
  <2> QED
    BY <2>3, <2>5, <2>6 DEF Target
<1>6. ASSUME NEW m \in Payloads, PushMessage(m)
      PROVE  EarlyMessagesKept'
  BY <1>6 DEF PushMessage
<1> QED
  BY <1>1, <1>2, <1>3, <1>4, <1>5, <1>6 DEF UtNext, WorkerStep, MainStep

(* The parts are inductive together.                                       *)
LEMMA UtIInvStep == UtIInv /\ [UtNext]_utVars => UtIInv'
<1> SUFFICES ASSUME UtIInv, [UtNext]_utVars PROVE UtIInv'
  OBVIOUS
<1>1. CASE UtNext
  BY <1>1, SetupTypeStep, PipeTypeStep, WorkerStepOK, NothingYetStep, OrderStep,
     EarlyStep DEF UtIInv
<1>2. CASE UNCHANGED utVars
  BY <1>2 DEF UtIInv, utVars, service, setup, pipe, history, SetupTypeOK, PipeTypeOK,
     OneInHand, WorkerWithinPhases, Unstarted, Over, NothingYet, FirstInFirstOut,
     Messages, IsPrefix, EarlyMessagesKept, Target
<1> QED
  BY <1>1, <1>2

----------------------------------------------------------------------------
(* Whatever the host sends, and whenever: the inductive invariant holds.   *)
THEOREM UtInvariant == UtSpec => []UtIInv
BY UtIInvInit, UtIInvStep, PTL DEF UtSpec

(* The types, which the settings keep whatever the command line says.      *)
THEOREM UtTypeCorrect == UtSpec => []UtTypeOK
<1>1. UtIInv => UtTypeOK
  <2> SUFFICES ASSUME UtIInv PROVE UtTypeOK
    OBVIOUS
  <2>1. Len(hand) <= 1
    <3>1. CASE hand = <<>>
      BY <3>1, EmptySeq
    <3>2. CASE \E m \in Payloads : hand = <<m>>
      BY <3>2
    <3> QED
      BY <3>1, <3>2 DEF UtIInv, OneInHand
  <2> QED
    BY <2>1 DEF UtIInv, SetupTypeOK, PipeTypeOK, Handling, UtTypeOK
<1> QED
  BY <1>1, UtInvariant, PTL

(* Exactly the command lines that are pairs of an option and a good value  *)
(* are served, and with the last values they give.                         *)
THEOREM CommandLineExact == UtSpec => ArgsExact
<1> DEFINE Exact == main = "args" =>
               IF RightUsage(args)
               THEN /\ main' = "init_ut"
                    /\ settings' = [path |-> AskedPath(args), port |-> AskedPort(args)]
               ELSE /\ main' = "gone" /\ exitCode' = 2
                    /\ UNCHANGED <<settings, instance, ports, worker>>
<1>1. UtIInv /\ [UtNext]_utVars => [Exact]_utVars
  <2> SUFFICES ASSUME UtIInv, UtNext, main = "args" PROVE Exact
    OBVIOUS
  <2>1. ReadArguments
    <3>1. ~instance /\ worker = "none"
      BY DEF UtIInv, WorkerWithinPhases, Unstarted
    <3> QED
      BY <3>1 DEF UtNext, MainStep, InitUt, LoadProfile, StartWorker, Publish,
         StopWorker, JoinWorker, ExitUt, ClearQueue, LeaveThreadPool, WorkerStep,
         WorkerStops, WorkerGoesOn, WorkerSleeps, GetMessage, HandleMessage,
         PushMessage
  <2>2. args \in Seq(Word)
    BY DEF UtIInv, SetupTypeOK
  <2>3. /\ GoodUsage(ParseArgs(args)) <=> RightUsage(args)
        /\ RightUsage(args) => Settings(ParseArgs(args)) =
               [path |-> AskedPath(args), port |-> AskedPort(args)]
    BY <2>2, ParseArgsIs
  <2> QED
    BY <2>1, <2>3 DEF ReadArguments, pipe
<1> QED
  BY <1>1, UtInvariant, PTL DEF UtSpec, ArgsExact

(* No message is lost, doubled or overtaken between the control plane and  *)
(* the port, and at the end those handled are the first ones sent.         *)
THEOREM QueueInOrder == UtSpec => []FirstInFirstOut
BY UtInvariant, PTL DEF UtIInv

(* What the host sent while the profile was being loaded reaches its port. *)
THEOREM EarlyMessagesReach == UtSpec => []EarlyMessagesKept
BY UtInvariant, PTL DEF UtIInv

(* Once the worker is joined no port is touched any more, and nothing is   *)
(* queued behind the clearing of the queue.                                *)
THEOREM QuietAfterJoin == UtSpec => NothingAfterTheEnd
<1> DEFINE Quiet == /\ main \in {"exit", "clear", "gone"} => UNCHANGED handled
                    /\ main = "gone" => UNCHANGED <<handled, queue, ports>>
<1>1. UtIInv /\ [UtNext]_utVars => [Quiet]_utVars
  <2> SUFFICES ASSUME UtIInv, UtNext PROVE Quiet
    OBVIOUS
  <2> USE DEF UtIInv, WorkerWithinPhases, Over, service, setup, pipe, history
  <2>1. CASE MainStep
    BY <2>1 DEF MainStep, ReadArguments, InitUt, LoadProfile, StartWorker,
       Publish, StopWorker, JoinWorker, ExitUt, ClearQueue
  <2>2. CASE LeaveThreadPool
    BY <2>2 DEF LeaveThreadPool
  <2>3. CASE WorkerStep
    BY <2>3 DEF WorkerStep, WorkerStops, WorkerGoesOn, WorkerSleeps, GetMessage,
       HandleMessage
  <2>4. ASSUME NEW m \in Payloads, PushMessage(m)
        PROVE  Quiet
    BY <2>4 DEF PushMessage
  <2> QED
    BY <2>1, <2>2, <2>3, <2>4 DEF UtNext
<1> QED
  BY <1>1, UtInvariant, PTL DEF UtSpec, NothingAfterTheEnd

----------------------------------------------------------------------------
(* The threads as one channel.                                             *)

(* Nobody has used the channel when the process starts.                    *)
LEMMA ChannelInit == UtInit => Channel!Init
<1>1. <<>> \o <<>> = <<>>
  BY EmptySeq, ConcatEmptySeq
<1> QED
  BY <1>1 DEF UtInit, Channel!Init

(* What the worker does not see of a message, the channel does not either. *)
LEMMA TargetIsDestination ==
    ASSUME NEW m \in Payloads, ports \subseteq Configured
    PROVE  Target(m, ports) = Channel!Destination(m)
<1>1. /\ Absent # Unreadable /\ Absent \notin ports /\ Unreadable \notin ports
  BY IdsAssumption, TokensAssumption
<1>2. CASE m = Unreadable
  BY <1>1, <1>2 DEF Target, Channel!Destination
<1>3. CASE m = Absent
  BY <1>1, <1>3 DEF Target, Addressee, Channel!Destination
<1>4. CASE m # Unreadable /\ m # Absent
  BY <1>4 DEF Target, Addressee, Channel!Destination
<1> QED
  BY <1>2, <1>3, <1>4

(* Every step of a thread is something that may happen to the channel, or  *)
(* nothing that the host could tell.                                       *)
LEMMA ChannelStep == UtIInv /\ [UtNext]_utVars => [Channel!Next]_(Channel!channelVars)
<1> SUFFICES ASSUME UtIInv, [UtNext]_utVars
             PROVE  [Channel!Next]_(Channel!channelVars)
  OBVIOUS
<1> DEFINE phase == IF main = "gone" THEN "closed"
                    ELSE IF main \in {"exit", "clear"} THEN "quiet" ELSE "open"
           waiting == hand \o queue
<1>0. /\ hand \in Seq(Payloads) /\ queue \in Seq(Payloads)
      /\ ports \subseteq Configured
  BY DEF UtIInv, PipeTypeOK
<1>1. CASE ReadArguments
  <2>1. /\ main = "args" /\ main' \in {"init_ut", "gone"}
        /\ UNCHANGED <<ports, hand, queue, handled>>
    BY <1>1 DEF ReadArguments, pipe, history
  <2>2. ports = {} /\ hand = <<>> /\ queue = <<>> /\ handled = <<>>
    BY <2>1 DEF UtIInv, NothingYet, WorkerWithinPhases, Unstarted, OneInHand
  <2>3. waiting = <<>> /\ waiting' = <<>>
    BY <2>1, <2>2, EmptySeq, ConcatEmptySeq
  <2>4. CASE main' = "init_ut"
    BY <2>1, <2>4 DEF Channel!channelVars
  <2>5. CASE main' = "gone"
    <3>1. phase = "open" /\ phase' = "closed"
      BY <2>1, <2>5
    <3> HIDE DEF phase, waiting
    <3>2. Channel!Close
      BY <2>1, <2>2, <2>3, <3>1 DEF Channel!Close, phase, waiting
    <3> QED
      BY <3>2 DEF Channel!Next
  <2> QED
    BY <2>1, <2>4, <2>5
<1>2. CASE LoadProfile
  <2>1. /\ main = "load" /\ main' = "start_worker"
        /\ UNCHANGED <<hand, queue, handled>>
        /\ ports' \in SUBSET Configured
    BY <1>2 DEF LoadProfile, pipe, history
  <2>2. ports = {} /\ handled = <<>>
    BY <2>1 DEF UtIInv, NothingYet, WorkerWithinPhases, Unstarted
  <2>3. Channel!Learn
    BY <2>1, <2>2 DEF Channel!Learn
  <2> QED
    BY <2>3 DEF Channel!Next
<1>3. CASE \/ InitUt \/ StartWorker \/ Publish \/ LeaveThreadPool \/ StopWorker
           \/ ExitUt \/ WorkerStops \/ WorkerGoesOn \/ WorkerSleeps
  <2>1. UNCHANGED <<ports, hand, queue, handled>>
    BY <1>3 DEF InitUt, StartWorker, Publish, LeaveThreadPool, StopWorker, ExitUt,
       WorkerStops, WorkerGoesOn, WorkerSleeps, setup, service, pipe, history
  <2>2. phase' = phase
    BY <1>3 DEF InitUt, StartWorker, Publish, LeaveThreadPool, StopWorker, ExitUt,
       WorkerStops, WorkerGoesOn, WorkerSleeps, setup, service, pipe, history
  <2> QED
    BY <2>1, <2>2 DEF Channel!channelVars
<1>4. CASE JoinWorker
  <2>1. /\ main = "join" /\ main' = "exit"
        /\ UNCHANGED <<ports, hand, queue, handled>>
    BY <1>4 DEF JoinWorker, pipe, history
  <2>2. Channel!Quieten
    BY <2>1 DEF Channel!Quieten
  <2> QED
    BY <2>2 DEF Channel!Next
<1>5. CASE ClearQueue
  <2>1. /\ main = "clear" /\ main' = "gone" /\ queue' = <<>> /\ ports' = {}
        /\ UNCHANGED <<hand, handled>>
    BY <1>5 DEF ClearQueue, history
  <2>2. hand = <<>>
    BY <2>1 DEF UtIInv, WorkerWithinPhases, Over, OneInHand
  <2>3. waiting' = <<>>
    BY <2>1, <2>2, EmptySeq, ConcatEmptySeq
  <2>4. Channel!Close
    BY <2>1, <2>3 DEF Channel!Close
  <2> QED
    BY <2>4 DEF Channel!Next
<1>6. ASSUME NEW m \in Payloads, PushMessage(m)
      PROVE  Channel!Next
  <2>1. /\ main # "gone" /\ queue' = Append(queue, m)
        /\ UNCHANGED <<main, ports, hand, handled>>
    BY <1>6 DEF PushMessage, UtIInv, WorkerWithinPhases, service
  <2>2. Append(queue, m) = queue \o <<m>> /\ <<m>> \in Seq(Payloads)
    BY <1>0, AppendIsConcat
  <2>3. Append(waiting, m) = waiting \o <<m>>
    BY <1>0, AppendIsConcat, ConcatProperties
  <2>4. waiting' = Append(waiting, m)
    BY <1>0, <2>1, <2>2, <2>3, ConcatAssociative
  <2>5. Channel!Send(m)
    BY <2>1, <2>4 DEF Channel!Send
  <2> QED
    BY <2>5 DEF Channel!Next
<1>7. CASE GetMessage
  <2>1. /\ queue # <<>> /\ hand' = <<Head(queue)>> /\ queue' = Tail(queue)
        /\ hand = <<>> /\ UNCHANGED <<main, ports, handled>>
    BY <1>7 DEF GetMessage, UtIInv, OneInHand, service, history
  <2>2. <<Head(queue)>> \o Tail(queue) = queue /\ <<>> \o queue = queue
    BY <1>0, <2>1, HeadThenTail, ConcatEmptySeq
  <2>3. waiting' = waiting
    BY <2>1, <2>2
  <2> QED
    BY <2>1, <2>3 DEF Channel!channelVars
<1>8. CASE HandleMessage
  <2>1. PICK m \in Payloads : hand = <<m>>
    BY <1>8 DEF HandleMessage, UtIInv, OneInHand
  <2>2. /\ handled' = Append(handled, [message |-> m, to |-> Target(m, ports)])
        /\ hand' = <<>> /\ UNCHANGED <<main, ports, queue>>
    BY <1>8, <2>1 DEF HandleMessage, service
  <2>3. phase = "open"
    BY <1>8 DEF HandleMessage, UtIInv, WorkerWithinPhases, Over
  <2>4. waiting = <<m>> \o queue /\ waiting' = queue
    BY <1>0, <2>1, <2>2, ConcatEmptySeq
  <2>5. <<m>> \o queue # <<>> /\ Head(<<m>> \o queue) = m /\ Tail(<<m>> \o queue) = queue
    BY <1>0
  <2>6. Target(m, ports) = Channel!Destination(m)
    BY <1>0, TargetIsDestination
  <2>7. Channel!Deliver
    BY <2>2, <2>3, <2>4, <2>5, <2>6 DEF Channel!Deliver
  <2> QED
    BY <2>7 DEF Channel!Next
<1>9. CASE UNCHANGED utVars
  BY <1>9 DEF utVars, setup, service, pipe, history, Channel!channelVars
<1> QED
  BY <1>1, <1>2, <1>3, <1>4, <1>5, <1>6, <1>7, <1>8, <1>9 DEF UtNext, MainStep,
     WorkerStep

(* Behind the control plane, its queue, the worker and the phases of the   *)
(* process there is one channel: in order, without loss while it is open,  *)
(* and with no port to deliver to before the profile is known.             *)
THEOREM ChannelImplemented == UtSpec => ImplementsChannel
<1>1. UtInit => Channel!Init
  BY ChannelInit
<1>2. UtIInv /\ [UtNext]_utVars => [Channel!Next]_(Channel!channelVars)
  BY ChannelStep
<1> QED
  BY <1>1, <1>2, UtInvariant, PTL DEF UtSpec, ImplementsChannel, Channel!Spec
=============================================================================
