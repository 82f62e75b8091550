-------------------------- MODULE HfpProfileProofs --------------------------
(* Proofs of the properties of HfpProfile, for every set of files, any     *)
(* number of ports and properties in them, and every width of a number.    *)
EXTENDS HfpProfile, WellFoundedInduction, TLAPS

----------------------------------------------------------------------------
(* Induction over what is computed step by step.                           *)

(* A set of natural numbers that is not empty has a least element.         *)
LEMMA Least ==
    ASSUME NEW T, T \subseteq Nat, T # {}
    PROVE  \E n \in T : \A m \in T : n <= m
<1> DEFINE R == {ss \in Nat \X Nat : ss[1] < ss[2]}
<1>1. IsWellFoundedOn(R, Nat)
  BY NatLessThanWellFounded DEF OpToRel
<1>2. \A x, y \in Nat : <<y, x>> \in R <=> y < x
  OBVIOUS
<1> HIDE DEF R
<1>3. PICK x \in T : \A y \in T : ~ (<<y, x>> \in R)
  BY <1>1, WFMin
<1>4. ASSUME NEW m \in T PROVE x <= m
  <2>1. m \in Nat /\ x \in Nat
    OBVIOUS
  <2>2. ~ (m < x)
    BY <1>2, <1>3, <2>1
  <2> QED
    BY <2>1, <2>2
<1> QED
  BY <1>4

(* A set that holds 0 and, with each number up to n, the next one, holds   *)
(* all of 0..n.                                                            *)
LEMMA UpTo ==
    ASSUME NEW n \in Nat, NEW T, 0 \in T,
           \A i \in 1..n : i - 1 \in T => i \in T
    PROVE  0..n \subseteq T
<1> DEFINE U == {i \in 0..n : i \notin T}
<1>1. CASE U # {}
  <2>1. U \subseteq Nat
    OBVIOUS
  <2>2. \E i \in U : \A m \in U : i <= m
    <3> HIDE DEF U
    <3> QED
      BY <1>1, <2>1, Least
  <2>3. PICK i \in U : \A m \in U : i <= m
    BY <2>2
  <2>4. i # 0 /\ i \in 1..n /\ i - 1 \in 0..n
    OBVIOUS
  <2>5. i - 1 \in T
    BY <2>3, <2>4
  <2> QED
    BY <2>4, <2>5
<1>2. CASE U = {}
  BY <1>2
<1> QED
  BY <1>1, <1>2

(* The lists of a port or of the platform, as the reader yields them.      *)
Listed(r) == r.supported \in RawTokens /\ r.metadata \in RawEntries

----------------------------------------------------------------------------
(* The parser, field by field.                                             *)

(* A number reads, and is at least n, if the text says so and it fits.     *)
LEMMA ReadInt32Is ==
    ASSUME NEW text, NEW n \in Nat
    PROVE  /\ ReadInt32(text) # Bad /\ ReadInt32(text) >= n <=> AtLeast(text, n)
           /\ ReadInt32(text) # Bad =>
                 /\ text \in DOMAIN Strtol
                 /\ ReadInt32(text) = Strtol[text] /\ Strtol[text] \in Int
<1> DEFINE x == Strtol[text]
<1>1. CASE text \in DOMAIN Strtol
  <2>1. x \in Int /\ x # Bad
    BY <1>1, StrtolAssumption, BadAssumption
  <2> HIDE DEF x
  <2>2. x >= n => x >= -IntHalf
    BY <2>1, WidthAssumption
  <2>3. x \in -IntHalf..IntHalf - 1 <=> -IntHalf <= x /\ x < IntHalf
    BY <2>1, WidthAssumption
  <2>4. ReadInt32(text) = IF x \in -IntHalf..IntHalf - 1 THEN x ELSE Bad
    BY <1>1 DEF ReadInt32, x
  <2>5. AtLeast(text, n) <=> n <= x /\ x < IntHalf
    BY <1>1 DEF AtLeast, x
  <2>6. x >= n <=> n <= x
    BY <2>1
  <2>7. ReadInt32(text) # Bad <=> x \in -IntHalf..IntHalf - 1
    BY <2>1, <2>4
  <2>8. ReadInt32(text) # Bad => ReadInt32(text) = x
    BY <2>4
  <2> QED
    BY <1>1, <2>1, <2>2, <2>3, <2>5, <2>6, <2>7, <2>8 DEF x
<1>2. CASE text \notin DOMAIN Strtol
  BY <1>2 DEF ReadInt32, AtLeast
<1> QED
  BY <1>1, <1>2

(* A Boolean reads if it is one of the spellings, and is what they mean.   *)
LEMMA ReadBoolIs ==
    ASSUME NEW text
    PROVE  /\ ReadBool(text) # Bad <=> text \in Yes \union No
           /\ text \in Yes \union No => ReadBool(text) = (text \in Yes)
<1>1. Bad # TRUE /\ Bad # FALSE
  BY BadAssumption
<1>2. Yes \cap No = {}
  BY DEF Yes, No
<1>3. CASE text \in Yes
  <2>1. ReadBool(text) = TRUE
    BY <1>2, <1>3 DEF ReadBool, Yes, No
  <2> QED
    BY <1>1, <1>3, <2>1
<1>4. CASE text \in No
  <2>1. ReadBool(text) = FALSE
    BY <1>2, <1>4 DEF ReadBool, Yes, No
  <2>2. (text \in Yes) = FALSE
    BY <1>2, <1>4
  <2> QED
    BY <1>1, <1>4, <2>1, <2>2
<1>5. CASE text \notin Yes \union No
  <2>1. ReadBool(text) = Bad
    BY <1>5 DEF ReadBool, Yes, No
  <2> QED
    BY <1>5, <2>1
<1> QED
  BY <1>3, <1>4, <1>5

(* The lists read if everything in them does.                              *)
LEMMA ListsReadIs ==
    ASSUME NEW r, Listed(r)
    PROVE  ListsRead(r.supported, r.metadata) <=> Readable(r)
<1> DEFINE s == r.supported
           m == r.metadata
<1>1. ListReads(s) <=> s # Bad /\ \A i \in DOMAIN s : s[i] # Bad
  BY DEF ListReads, ToSet
<1>2. ASSUME NEW i \in DOMAIN m
      PROVE  EntryReads(m[i]) <=>
                /\ Bad \notin {m[i].key, m[i].type, m[i].description}
                /\ {m[i].readOnly, m[i].isMetric} \subseteq Yes \union No
  <2>1. /\ ReadBool(m[i].readOnly) # Bad <=> m[i].readOnly \in Yes \union No
        /\ ReadBool(m[i].isMetric) # Bad <=> m[i].isMetric \in Yes \union No
    BY ReadBoolIs
  <2> HIDE DEF m
  <2> QED
    BY <2>1 DEF EntryReads
<1>3. (\A e \in ToSet(m) : EntryReads(e)) <=> \A i \in DOMAIN m : EntryReads(m[i])
  BY DEF ToSet
<1> QED
  BY <1>1, <1>2, <1>3 DEF ListsRead, Readable

(* No token is a duplicate of one before it if no two are the same.        *)
LEMMA NoDuplicateIs ==
    ASSUME NEW tokens, DOMAIN tokens \subseteq Nat \ {0},
           \A i \in DOMAIN tokens : 1..i \subseteq DOMAIN tokens
    PROVE  NoDuplicate(tokens)
           <=> \A i, j \in DOMAIN tokens : tokens[i] = tokens[j] => i = j
<1>1. ASSUME NoDuplicate(tokens), NEW i \in DOMAIN tokens, NEW j \in DOMAIN tokens,
             tokens[i] = tokens[j], i # j
      PROVE  FALSE
  <2>1. i \in 1..(j - 1) \/ j \in 1..(i - 1)
    BY <1>1
  <2> QED
    BY <1>1, <2>1 DEF NoDuplicate
<1>2. ASSUME \A i, j \in DOMAIN tokens : tokens[i] = tokens[j] => i = j
      PROVE  NoDuplicate(tokens)
  <2> SUFFICES ASSUME NEW i \in DOMAIN tokens, NEW j \in 1..(i - 1),
                      tokens[i] = tokens[j]
               PROVE  FALSE
    BY DEF NoDuplicate
  <2>1. j \in 1..i /\ j # i
    OBVIOUS
  <2> QED
    BY <1>2, <2>1
<1> QED
  BY <1>1, <1>2

(* The lists are valid if they go side by side.                            *)
LEMMA DeclaresIs ==
    ASSUME NEW r, Listed(r)
    PROVE  Declares(r) <=> Readable(r) /\ Aligned(r)
<1> DEFINE s == r.supported
           m == r.metadata
<1> SUFFICES ASSUME Readable(r)
             PROVE  ValidProperties(s, m) <=> Aligned(r)
  BY ListsReadIs DEF Declares
<1>1. /\ DOMAIN s = 1..Len(s) /\ Len(s) \in Nat
      /\ DOMAIN m = 1..Len(m) /\ Len(m) \in Nat
  <2>1. s \in Seq({Bad} \union Token) /\ m \in Seq(RawEntry)
    BY DEF Listed, RawTokens, RawEntries, RawEntry, Readable
  <2> HIDE DEF s, m
  <2> QED
    BY <2>1
<1>2. NoDuplicate(s) <=> \A i, j \in DOMAIN s : s[i] = s[j] => i = j
  <2> HIDE DEF s, m
  <2> QED
    BY <1>1, NoDuplicateIs
<1>3. Len(m) = Len(s) <=> DOMAIN m = DOMAIN s
  <2> HIDE DEF s, m
  <2>1. ASSUME 1..Len(m) = 1..Len(s) PROVE Len(m) = Len(s)
    <3>1. \A a, b \in Nat : 1..a \subseteq 1..b => a <= b
      <4> SUFFICES ASSUME NEW a \in Nat, NEW b \in Nat, 1..a \subseteq 1..b, a > b
                   PROVE  FALSE
        OBVIOUS
      <4>1. a \in 1..a
        OBVIOUS
      <4>2. a \in 1..b
        BY <4>1
      <4> QED
        BY <4>2
    <3>2. Len(m) <= Len(s) /\ Len(s) <= Len(m)
      BY <1>1, <2>1, <3>1
    <3>3. \A a, b \in Nat : a <= b /\ b <= a => a = b
      OBVIOUS
    <3> QED
      BY <1>1, <3>2, <3>3, Zenon
  <2> QED
    BY <1>1, <2>1
<1>4. (\A t \in ToSet(s) : Maps(t, PropertyNames))
      <=> \A i \in DOMAIN s : s[i].name \in PropertyNames
  BY DEF ToSet, Maps
<1>5. Aligned(r) <=>
         /\ DOMAIN m = DOMAIN s
         /\ \A i \in DOMAIN s : s[i].name \in PropertyNames
         /\ \A i \in DOMAIN s : m[i].key = s[i]
         /\ \A i \in DOMAIN s : m[i].type.name \in TypeNames
         /\ \A i, j \in DOMAIN s : s[i] = s[j] => i = j
  BY DEF Aligned
<1>6. ValidProperties(s, m) <=>
         /\ \A i \in DOMAIN s : s[i].name \in PropertyNames
         /\ NoDuplicate(s)
         /\ Len(m) = Len(s)
         /\ \A i \in DOMAIN m : m[i].key.name \in PropertyNames
         /\ \A i \in DOMAIN m : m[i].type.name \in TypeNames
         /\ \A i \in DOMAIN m : m[i].key = s[i]
  <2> HIDE DEF s, m
  <2> QED
    BY <1>4 DEF ValidProperties, Maps
<1> HIDE DEF s, m
<1> QED
  BY <1>2, <1>3, <1>5, <1>6

(* What is read of the entries is what they say.                           *)
LEMMA EntriesReadIs ==
    ASSUME NEW r, Readable(r)
    PROVE  EntriesRead(r.metadata) = Said(r.metadata)
<1> DEFINE m == r.metadata
<1>1. ASSUME NEW i \in DOMAIN m
      PROVE  /\ ReadBool(m[i].readOnly) = (m[i].readOnly \in Yes)
             /\ ReadBool(m[i].isMetric) = (m[i].isMetric \in Yes)
  <2>1. m[i].readOnly \in Yes \union No /\ m[i].isMetric \in Yes \union No
    BY DEF Readable
  <2> QED
    BY <2>1, ReadBoolIs
<1> HIDE DEF m
<1>2. EntriesRead(m) = Said(m)
  BY <1>1 DEF EntriesRead, Said
<1> QED
  BY <1>2 DEF m

----------------------------------------------------------------------------
(* The parser as a whole.                                                  *)

(* One port reads if it is right, and is then what it says.                *)
LEMMA PortReadsIs ==
    ASSUME NEW r \in RawPort
    PROVE  /\ PortReads(r) <=> RightPort(r)
           /\ RightPort(r) =>
                 /\ ReadPort(r) = [r EXCEPT !.id = Strtol[@], !.metadata = Said(@)]
                 /\ ReadInt32(r.id) = Strtol[r.id]
                 /\ ReadPort(r).id = Strtol[r.id]
                 /\ Strtol[r.id] \in Nat
<1>1. Listed(r)
  BY DEF Listed, RawPort
<1>2. Declares(r) <=> Readable(r) /\ Aligned(r)
  BY <1>1, DeclaresIs
<1>3. /\ ReadInt32(r.id) # Bad /\ ReadInt32(r.id) >= 0 <=> AtLeast(r.id, 0)
      /\ ReadInt32(r.id) # Bad =>
            ReadInt32(r.id) = Strtol[r.id] /\ Strtol[r.id] \in Int
  BY ReadInt32Is
<1>4. PortReads(r) <=> RightPort(r)
  BY <1>2, <1>3, Zenon DEF PortReads, RightPort
<1>5. ASSUME RightPort(r)
      PROVE  /\ ReadPort(r) = [r EXCEPT !.id = Strtol[@], !.metadata = Said(@)]
             /\ ReadInt32(r.id) = Strtol[r.id]
             /\ ReadPort(r).id = Strtol[r.id]
             /\ Strtol[r.id] \in Nat
  <2>1. ReadInt32(r.id) = Strtol[r.id] /\ Strtol[r.id] \in Nat
    BY <1>3, <1>5 DEF RightPort
  <2>2. EntriesRead(r.metadata) = Said(r.metadata)
    BY <1>5, EntriesReadIs DEF RightPort
  <2>3. ReadPort(r) = [r EXCEPT !.id = Strtol[@], !.metadata = Said(@)]
    BY <2>1, <2>2 DEF ReadPort
  <2>4. ReadPort(r).id = ReadInt32(r.id)
    BY DEF ReadPort, RawPort
  <2> QED
    BY <2>1, <2>3, <2>4
<1> QED
  BY <1>4, <1>5

(* The ports up to the n-th are right, and no two have the same id.        *)
RightUpTo(rs, n) ==
    /\ \A i \in 1..n : RightPort(rs[i])
    /\ \A i, j \in 1..n : Strtol[rs[i].id] = Strtol[rs[j].id] => i = j

AllRead(rs, n) == [ok |-> TRUE, ports |-> [i \in 1..n |-> ReadPort(rs[i])]]

(* One more port.                                                          *)
LEMMA TakePortIs ==
    ASSUME NEW rs \in Seq(RawPort), NEW n \in 1..Len(rs)
    PROVE  /\ RightUpTo(rs, n - 1) =>
                 TakePort(AllRead(rs, n - 1), rs[n]) =
                    IF RightUpTo(rs, n) THEN AllRead(rs, n) ELSE Failed
           /\ ~RightUpTo(rs, n - 1) =>
                 TakePort(Failed, rs[n]) = Failed /\ ~RightUpTo(rs, n)
<1>1. /\ n \in Nat /\ n - 1 \in Nat /\ 1..n = 1..(n - 1) \union {n}
      /\ \A i \in 1..n : rs[i] \in RawPort
  OBVIOUS
<1>2. ASSUME RightUpTo(rs, n - 1)
      PROVE  TakePort(AllRead(rs, n - 1), rs[n]) =
                IF RightUpTo(rs, n) THEN AllRead(rs, n) ELSE Failed
  <2> DEFINE was == [i \in 1..(n - 1) |-> ReadPort(rs[i])]
             r == rs[n]
             others == {was[i].id : i \in DOMAIN was}
  <2>1. others = {Strtol[rs[i].id] : i \in 1..(n - 1)}
    <3>1. \A i \in 1..(n - 1) : was[i].id = Strtol[rs[i].id]
      BY <1>1, <1>2, PortReadsIs DEF RightUpTo
    <3> HIDE DEF was
    <3>2. DOMAIN was = 1..(n - 1)
      BY DEF was
    <3> QED
      BY <3>1, <3>2
  <2>2. /\ PortReads(r) <=> RightPort(r)
        /\ RightPort(r) => ReadInt32(r.id) = Strtol[r.id]
    BY <1>1, PortReadsIs
  <2>3. PortReads(r) /\ ReadInt32(r.id) \notin others <=> RightUpTo(rs, n)
    <3>1. RightUpTo(rs, n) <=>
             /\ RightPort(r)
             /\ \A i \in 1..(n - 1) : Strtol[rs[i].id] # Strtol[r.id]
      <4>1. (\A i \in 1..n : RightPort(rs[i]))
            <=> (\A i \in 1..(n - 1) : RightPort(rs[i])) /\ RightPort(r)
        BY <1>1
      <4>2. \A i \in 1..(n - 1) : i # n
        BY <1>1
      <4> HIDE DEF r
      <4>3. (\A i, j \in 1..n : Strtol[rs[i].id] = Strtol[rs[j].id] => i = j)
            <=> /\ \A i, j \in 1..(n - 1) : Strtol[rs[i].id] = Strtol[rs[j].id] => i = j
                /\ \A i \in 1..(n - 1) : Strtol[rs[i].id] # Strtol[r.id]
        BY <1>1, <4>2 DEF r
      <4> QED
        BY <1>2, <4>1, <4>3 DEF RightUpTo
    <3>2. Strtol[r.id] \in others
          <=> \E i \in 1..(n - 1) : Strtol[rs[i].id] = Strtol[r.id]
      BY <2>1
    <3> HIDE DEF r, others
    <3> QED
      BY <2>2, <3>1, <3>2
  <2>4. ASSUME RightUpTo(rs, n)
        PROVE  Append(was, ReadPort(r)) = [i \in 1..n |-> ReadPort(rs[i])]
    <3>1. \A i \in 1..(n - 1) : was[i] = ReadPort(rs[i])
      OBVIOUS
    <3>2. was \in Seq({ReadPort(rs[i]) : i \in 1..(n - 1)}) /\ Len(was) = n - 1
      BY <1>1
    <3> HIDE DEF was
    <3>3. Append(was, ReadPort(r)) =
             [i \in 1..(Len(was) + 1) |-> IF i <= Len(was) THEN was[i] ELSE ReadPort(r)]
      BY <3>2
    <3> QED
      BY <1>1, <3>1, <3>2, <3>3
  <2>5. TakePort(AllRead(rs, n - 1), r) =
           IF PortReads(r) /\ ReadInt32(r.id) \notin others
           THEN [ok |-> TRUE, ports |-> Append(was, ReadPort(r))]
           ELSE Failed
    <3> HIDE DEF was
    <3>1. AllRead(rs, n - 1).ok /\ AllRead(rs, n - 1).ports = was
      BY DEF AllRead, was
    <3> QED
      BY <3>1, Zenon DEF TakePort
  <2> HIDE DEF was, r, others
  <2>6. CASE RightUpTo(rs, n)
    BY <2>3, <2>4, <2>5, <2>6 DEF AllRead, r
  <2>7. CASE ~RightUpTo(rs, n)
    BY <2>3, <2>5, <2>7 DEF r
  <2> QED
    BY <2>6, <2>7
<1>3. ASSUME ~RightUpTo(rs, n - 1)
      PROVE  TakePort(Failed, rs[n]) = Failed /\ ~RightUpTo(rs, n)
  <2>1. ~RightUpTo(rs, n)
    BY <1>1, <1>3 DEF RightUpTo
  <2>2. ~Failed.ok
    BY DEF Failed
  <2> QED
    BY <2>1, <2>2 DEF TakePort
<1> QED
  BY <1>2, <1>3

(* The ports that are read are all of them, or there was a fault.          *)
LEMMA ReadPortsIs ==
    ASSUME NEW rs \in Seq(RawPort)
    PROVE  ReadPorts(rs) = IF RightUpTo(rs, Len(rs)) THEN AllRead(rs, Len(rs)) ELSE Failed
<1> DEFINE N == Len(rs)
           start == [ok |-> TRUE, ports |-> <<>>]
           body(f) == [n \in 0..N |-> IF n = 0 THEN start
                                      ELSE TakePort(f[n - 1], rs[n])]
           g == [n \in 0..N |-> IF RightUpTo(rs, n) THEN AllRead(rs, n) ELSE Failed]
           read == ReadingPorts(rs)
<1>1. N \in Nat
  OBVIOUS
<1>2. g[0] = start
  <2>1. RightUpTo(rs, 0)
    BY DEF RightUpTo
  <2>2. AllRead(rs, 0) = start
    BY DEF AllRead
  <2> QED
    BY <1>1, <2>1, <2>2
<1>3. \A n \in 1..N : g[n] = TakePort(g[n - 1], rs[n])
  <2> SUFFICES ASSUME NEW n \in 1..N PROVE g[n] = TakePort(g[n - 1], rs[n])
    OBVIOUS
  <2>1. n \in 0..N /\ n - 1 \in 0..N
    BY <1>1
  <2>2. /\ g[n] = IF RightUpTo(rs, n) THEN AllRead(rs, n) ELSE Failed
        /\ g[n - 1] = IF RightUpTo(rs, n - 1) THEN AllRead(rs, n - 1) ELSE Failed
    BY <2>1
  <2> HIDE DEF g
  <2> QED
    BY <2>2, TakePortIs
<1>4. g = body(g)
  <2>1. g = [n \in 0..N |-> g[n]]
    OBVIOUS
  <2> HIDE DEF g, N, start
  <2>2. \A n \in 0..N : g[n] = IF n = 0 THEN start ELSE TakePort(g[n - 1], rs[n])
    BY <1>1, <1>2, <1>3
  <2> QED
    BY <2>1, <2>2
<1>5. read = body(read)
  <2>1. \E f : f = body(f)
    BY <1>4
  <2>2. read = CHOOSE f : f = body(f)
    BY DEF ReadingPorts
  <2> HIDE DEF body, read
  <2> QED
    BY <2>1, <2>2
<1>6. read[0] = start
      /\ \A n \in 1..N : read[n] = TakePort(read[n - 1], rs[n])
  <2> HIDE DEF read, N, start
  <2> QED
    BY <1>1, <1>5
<1>7. \A n \in 0..N : read[n] = g[n]
  <2> DEFINE T == {n \in 0..N : read[n] = g[n]}
  <2> HIDE DEF read, g, N
  <2>1. ASSUME NEW i \in 1..N, i - 1 \in T PROVE i \in T
    BY <1>1, <1>3, <1>6, <2>1
  <2>2. 0 \in T
    BY <1>1, <1>2, <1>6
  <2>3. 0..N \subseteq T
    <3> HIDE DEF T
    <3> QED
      BY <1>1, <2>1, <2>2, UpTo
  <2> QED
    BY <2>3
<1>8. ReadPorts(rs) = g[N]
  BY <1>1, <1>7 DEF ReadPorts
<1> QED
  BY <1>1, <1>8

(* What a platform section says, and when it is right.                     *)
MeantPlatform(r) ==
    [r EXCEPT !.maxPorts = Strtol[@], !.maxStarted = Strtol[@],
              !.macrovision = @ \in Yes, !.metadata = Said(@)]

RightPlatform(r) ==
    /\ r.halVersion # Bad
    /\ AtLeast(r.maxPorts, 1) /\ AtLeast(r.maxStarted, 1)
    /\ r.macrovision \in Yes \union No
    /\ Readable(r) /\ Aligned(r)

(* The platform reads if it is right, and is then what it says.            *)
LEMMA PlatformReadsIs ==
    ASSUME NEW r \in RawPlatform
    PROVE  /\ PlatformReads(r) <=> RightPlatform(r)
           /\ RightPlatform(r) => ReadPlatform(r) = MeantPlatform(r)
<1>1. Listed(r)
  BY DEF Listed, RawPlatform
<1>2. Declares(r) <=> Readable(r) /\ Aligned(r)
  BY <1>1, DeclaresIs
<1>3. /\ ReadInt32(r.maxPorts) # Bad /\ ReadInt32(r.maxPorts) >= 1
            <=> AtLeast(r.maxPorts, 1)
      /\ ReadInt32(r.maxStarted) # Bad /\ ReadInt32(r.maxStarted) >= 1
            <=> AtLeast(r.maxStarted, 1)
  BY ReadInt32Is
<1>4. ReadBool(r.macrovision) # Bad <=> r.macrovision \in Yes \union No
  BY ReadBoolIs
<1>5. PlatformReads(r) <=> RightPlatform(r)
  <2>1. PlatformReads(r) <=>
           /\ r.halVersion # Bad /\ ReadInt32(r.maxPorts) # Bad
           /\ ReadInt32(r.maxStarted) # Bad /\ ReadBool(r.macrovision) # Bad
           /\ Declares(r)
           /\ ReadInt32(r.maxPorts) >= 1 /\ ReadInt32(r.maxStarted) >= 1
    BY Zenon DEF PlatformReads
  <2> QED
    BY <1>2, <1>3, <1>4, <2>1, Zenon DEF RightPlatform
<1>6. ASSUME RightPlatform(r) PROVE ReadPlatform(r) = MeantPlatform(r)
  <2>1. /\ ReadInt32(r.maxPorts) = Strtol[r.maxPorts]
        /\ ReadInt32(r.maxStarted) = Strtol[r.maxStarted]
    BY <1>3, <1>6, ReadInt32Is DEF RightPlatform
  <2>2. ReadBool(r.macrovision) = (r.macrovision \in Yes)
    BY <1>6, ReadBoolIs DEF RightPlatform
  <2>3. EntriesRead(r.metadata) = Said(r.metadata)
    BY <1>6, EntriesReadIs DEF RightPlatform
  <2> QED
    BY <2>1, <2>2, <2>3 DEF ReadPlatform, MeantPlatform
<1> QED
  BY <1>5, <1>6

(* The parser does what the rule over the whole file says.                 *)
LEMMA ParseConfigIs ==
    ASSUME NEW f \in Profiles
    PROVE  ParseConfig(f) = IF Right(f) THEN Meant(f) ELSE Nothing
<1>1. CASE f = Bad
  BY <1>1 DEF ParseConfig, Right
<1>2. CASE f # Bad /\ (f.interfaceVersion = Bad \/ f.ports = Bad \/ f.ports = <<>>)
  BY <1>2 DEF ParseConfig, Right
<1>3. CASE f # Bad /\ f.interfaceVersion # Bad /\ f.ports # Bad /\ f.ports # <<>>
  <2> DEFINE rs == f.ports
             N == Len(rs)
  <2>1. rs \in Seq(RawPort) /\ f.platform \in RawPlatform
    BY <1>3, ProfilesAssumption DEF RawFile
  <2>2. DOMAIN rs = 1..N
    BY <2>1
  <2>3. Right(f) <=> RightUpTo(rs, N) /\ RightPlatform(f.platform)
    BY <1>3, <2>2, Zenon DEF Right, RightUpTo, RightPlatform
  <2>4. ReadPorts(rs) = IF RightUpTo(rs, N) THEN AllRead(rs, N) ELSE Failed
    BY <2>1, ReadPortsIs
  <2>5. /\ PlatformReads(f.platform) <=> RightPlatform(f.platform)
        /\ RightPlatform(f.platform) => ReadPlatform(f.platform) = MeantPlatform(f.platform)
    BY <2>1, PlatformReadsIs
  <2>6. ParseConfig(f) = IF ReadPorts(rs).ok /\ PlatformReads(f.platform)
                         THEN [ports |-> ReadPorts(rs).ports,
                               platform |-> ReadPlatform(f.platform)]
                         ELSE Nothing
    BY <1>3 DEF ParseConfig
  <2>7. ASSUME RightUpTo(rs, N)
        PROVE  AllRead(rs, N).ok /\
               AllRead(rs, N).ports =
                 [i \in DOMAIN rs |-> [rs[i] EXCEPT !.id = Strtol[@], !.metadata = Said(@)]]
    <3>1. \A i \in 1..N : ReadPort(rs[i]) =
                             [rs[i] EXCEPT !.id = Strtol[@], !.metadata = Said(@)]
      <4> SUFFICES ASSUME NEW i \in 1..N
                   PROVE  ReadPort(rs[i]) =
                             [rs[i] EXCEPT !.id = Strtol[@], !.metadata = Said(@)]
        OBVIOUS
      <4>1. rs[i] \in RawPort /\ RightPort(rs[i])
        BY <2>1, <2>7 DEF RightUpTo
      <4> HIDE DEF rs
      <4> QED
        BY <4>1, PortReadsIs
    <3> QED
      BY <2>2, <3>1 DEF AllRead
  <2>8. ~Failed.ok
    BY DEF Failed
  <2>9. CASE Right(f)
    <3>1. Meant(f) = [ports |-> AllRead(rs, N).ports, platform |-> MeantPlatform(f.platform)]
      BY <2>3, <2>7, <2>9 DEF Meant, MeantPlatform
    <3> HIDE DEF rs, N
    <3> QED
      BY <2>3, <2>4, <2>5, <2>6, <2>7, <2>9, <3>1
  <2>10. CASE ~Right(f)
    <3> HIDE DEF rs, N
    <3> QED
      BY <2>3, <2>4, <2>5, <2>6, <2>8, <2>10
  <2> QED
    BY <2>9, <2>10
<1> QED
  BY <1>1, <1>2, <1>3

----------------------------------------------------------------------------
(* The manager loses nothing of what the parser returns.                   *)

(* A list of which every element is known is kept as it is.                *)
LEMMA KeptAll ==
    ASSUME NEW W, NEW s \in Seq(W), NEW places, 1..Len(s) \subseteq places
    PROVE  Kept(s, places) = s
<1> DEFINE N == Len(s)
           body(f) == [n \in 0..N |-> IF n = 0 THEN <<>>
                                      ELSE IF n \in places THEN Append(f[n - 1], s[n])
                                      ELSE f[n - 1]]
           first(n) == [i \in 1..n |-> s[i]]
           g == [n \in 0..N |-> first(n)]
           kept == CHOOSE f : f = body(f)
<1>1. N \in Nat /\ s = [i \in 1..N |-> s[i]] /\ \A i \in 1..N : s[i] \in W
  OBVIOUS
<1>2. \A n \in 1..N : first(n) = Append(first(n - 1), s[n])
  <2> SUFFICES ASSUME NEW n \in 1..N PROVE first(n) = Append(first(n - 1), s[n])
    OBVIOUS
  <2> DEFINE w == first(n - 1)
  <2>1. w \in Seq(W) /\ Len(w) = n - 1 /\ \A i \in 1..(n - 1) : w[i] = s[i]
    BY <1>1
  <2> HIDE DEF w, N
  <2>2. Append(w, s[n]) = [i \in 1..(Len(w) + 1) |-> IF i <= Len(w) THEN w[i] ELSE s[n]]
    BY <2>1
  <2>3. n \in Nat /\ Len(w) + 1 = n
    BY <1>1, <2>1
  <2>4. \A i \in 1..n : s[i] = IF i <= Len(w) THEN w[i] ELSE s[n]
    BY <2>1, <2>3
  <2> QED
    BY <2>2, <2>3, <2>4 DEF w
<1>3. first(0) = <<>>
  OBVIOUS
<1>4. g = body(g)
  <2> HIDE DEF N, first
  <2>1. \A n \in 0..N : g[n] = first(n)
    OBVIOUS
  <2>2. \A n \in 1..N : n - 1 \in 0..N
    BY <1>1
  <2>3. \A n \in 0..N : first(n) = IF n = 0 THEN <<>>
                                   ELSE IF n \in places THEN Append(g[n - 1], s[n])
                                   ELSE g[n - 1]
    BY <1>1, <1>2, <1>3, <2>1, <2>2 DEF N
  <2> QED
    BY <2>1, <2>3
<1>5. kept = body(kept)
  <2>1. \E f : f = body(f)
    BY <1>4
  <2> HIDE DEF body
  <2> QED
    BY <2>1
<1>6. kept[0] = <<>> /\ \A n \in 1..N : kept[n] = Append(kept[n - 1], s[n])
  <2> HIDE DEF kept
  <2>1. \A n \in 0..N : kept[n] = IF n = 0 THEN <<>>
                                  ELSE IF n \in places THEN Append(kept[n - 1], s[n])
                                  ELSE kept[n - 1]
    BY <1>5
  <2>2. kept[0] = <<>>
    BY <1>1, <2>1
  <2>3. ASSUME NEW n \in 1..N PROVE kept[n] = Append(kept[n - 1], s[n])
    <3>1. n \in 0..N /\ n # 0 /\ n \in places
      BY <1>1
    <3> HIDE DEF N
    <3> QED
      BY <2>1, <3>1
  <2> QED
    BY <2>2, <2>3
<1>7. \A n \in 0..N : kept[n] = first(n)
  <2> DEFINE T == {n \in 0..N : kept[n] = first(n)}
  <2> HIDE DEF kept, first, N
  <2>1. ASSUME NEW i \in 1..N, i - 1 \in T PROVE i \in T
    <3>1. kept[i] = Append(kept[i - 1], s[i]) /\ kept[i - 1] = first(i - 1)
      BY <1>6, <2>1
    <3>2. kept[i] = first(i)
      BY <1>2, <3>1
    <3> QED
      BY <1>1, <3>2
  <2>2. 0 \in T
    BY <1>1, <1>3, <1>6
  <2>3. 0..N \subseteq T
    <3> HIDE DEF T
    <3> QED
      BY <1>1, <2>1, <2>2, UpTo
  <2> QED
    BY <2>3
<1>8. Kept(s, places) = kept[N]
  BY DEF Kept
<1> HIDE DEF kept
<1> QED
  BY <1>1, <1>7, <1>8

(* What is offered of a right list of properties stands side by side.      *)
LEMMA CapabilitiesSideBySide ==
    ASSUME NEW r, Listed(r), Readable(r), Aligned(r),
           NEW q, q.supported = r.supported, q.metadata = Said(r.metadata)
    PROVE  SideBySide(Capabilities(q), q)
<1> DEFINE s == r.supported
           m == Said(r.metadata)
           N == Len(s)
           c == Capabilities(q)
<1>1. /\ s \in Seq({Bad} \union Token) /\ r.metadata \in Seq(RawEntry)
      /\ DOMAIN s = 1..N /\ N \in Nat /\ DOMAIN r.metadata = 1..N
  <2>1. s \in Seq({Bad} \union Token) /\ r.metadata \in Seq(RawEntry)
    BY DEF Listed, RawTokens, RawEntries, RawEntry, Readable
  <2>2. DOMAIN r.metadata = DOMAIN s
    BY DEF Aligned
  <2> HIDE DEF s
  <2> QED
    BY <2>1, <2>2
<1>2. DOMAIN m = 1..N /\ m \in Seq({m[i] : i \in 1..N}) /\ Len(m) = N
  <2>1. m = [i \in 1..N |-> m[i]]
    BY <1>1 DEF Said
  <2> HIDE DEF m
  <2> QED
    BY <1>1, <2>1
<1>3. \A i \in 1..N : /\ m[i].key = s[i] /\ m[i].type.name \in TypeNames
                      /\ s[i].name \in PropertyNames
  <2> SUFFICES ASSUME NEW i \in 1..N
               PROVE  /\ m[i].key = s[i] /\ m[i].type.name \in TypeNames
                      /\ s[i].name \in PropertyNames
    OBVIOUS
  <2>1. /\ r.metadata[i].key = s[i] /\ r.metadata[i].type.name \in TypeNames
        /\ s[i].name \in PropertyNames
    BY <1>1 DEF Aligned
  <2> DEFINE e == r.metadata[i]
  <2>2. m[i] = [e EXCEPT !.readOnly = @ \in Yes, !.isMetric = @ \in Yes]
    BY <1>1 DEF Said
  <2>3. e \in RawEntry
    BY <1>1
  <2>4. m[i].key = e.key /\ m[i].type = e.type
    <3> HIDE DEF e, m
    <3> QED
      BY <2>2, <2>3 DEF RawEntry
  <2> QED
    BY <2>1, <2>4
<1> HIDE DEF s, m
<1>4. ToPortProperties(s) = [i \in 1..N |-> s[i].name]
  <2>1. 1..N \subseteq {i \in DOMAIN s : Maps(s[i], PropertyNames)}
    BY <1>1, <1>3 DEF Maps
  <2>2. Kept(s, {i \in DOMAIN s : Maps(s[i], PropertyNames)}) = s
    BY <1>1, <2>1, KeptAll
  <2> QED
    BY <1>1, <2>2 DEF ToPortProperties
<1>5. ToPropertyMetadata(m) = [i \in 1..N |-> [property |-> m[i].key.name,
                                               type |-> m[i].type.name,
                                               readOnly |-> m[i].readOnly]]
  <2> DEFINE places == {i \in DOMAIN m : /\ Maps(m[i].key, PropertyNames)
                                         /\ Maps(m[i].type, TypeNames)}
  <2>1. 1..N \subseteq places
    BY <1>2, <1>3 DEF Maps
  <2>2. Kept(m, places) = m
    <3> HIDE DEF places
    <3> QED
      BY <1>2, <2>1, KeptAll
  <2> QED
    BY <1>2, <2>2 DEF ToPropertyMetadata
<1>6. c.supported = [i \in 1..N |-> s[i].name]
  BY <1>4 DEF Capabilities, s
<1>7. N # 0 => c.metadata = ToPropertyMetadata(m)
  <2>1. N # 0 => m # <<>>
    BY <1>1, <1>2
  <2>2. c.metadata = IF m = <<>> THEN Bad ELSE ToPropertyMetadata(m)
    BY DEF Capabilities, m
  <2> QED
    BY <2>1, <2>2
<1> HIDE DEF c
<1>8. Len(c.supported) = N /\ DOMAIN c.supported = 1..N
  BY <1>1, <1>6
<1>9. Len(q.supported) = N
  BY DEF s
<1>10. N # 0 => /\ DOMAIN c.metadata = 1..N
                /\ \A i \in 1..N : c.metadata[i].property = s[i].name
  BY <1>3, <1>5, <1>7
<1>11. c.supported # <<>> => N # 0
  BY <1>1, <1>8
<1> QED
  BY <1>6, <1>8, <1>9, <1>10, <1>11 DEF SideBySide, c

(* Ports that are all usable are all built, in order.                      *)
LEMMA BuildPortsIs ==
    ASSUME NEW W, NEW rs \in Seq(W), \A i \in 1..Len(rs) : rs[i].id \in Nat,
           \A i, j \in 1..Len(rs) : rs[i].id = rs[j].id => i = j
    PROVE  BuildPorts(rs) = [i \in 1..Len(rs) |-> Built(rs[i])]
<1> DEFINE N == Len(rs)
           body(f) == [n \in 0..N |-> IF n = 0 THEN <<>>
                                      ELSE AddPort(f[n - 1], rs[n])]
           first(n) == [i \in 1..n |-> Built(rs[i])]
           g == [n \in 0..N |-> first(n)]
           built == CHOOSE f : f = body(f)
<1>1. N \in Nat /\ \A n \in 1..N : n \in Nat /\ n - 1 \in Nat /\ n \in 0..N /\ n - 1 \in 0..N
  OBVIOUS
<1>2. \A n \in 1..N : AddPort(first(n - 1), rs[n]) = first(n)
  <2> SUFFICES ASSUME NEW n \in 1..N PROVE AddPort(first(n - 1), rs[n]) = first(n)
    OBVIOUS
  <2> DEFINE w == first(n - 1)
             ids == {w[i].id : i \in DOMAIN w}
  <2>1. /\ w \in Seq({Built(rs[i]) : i \in 1..N}) /\ Len(w) = n - 1
        /\ DOMAIN w = 1..(n - 1)
        /\ \A i \in 1..(n - 1) : w[i] = Built(rs[i]) /\ w[i].id = rs[i].id
    <3>1. /\ n - 1 \in Nat /\ 1..(n - 1) \subseteq 1..N
          /\ \A i : Built(rs[i]).id = rs[i].id
      BY <1>1 DEF Built
    <3> DEFINE B == {Built(rs[i]) : i \in 1..N}
    <3>2. DOMAIN w = 1..(n - 1) /\ \A i \in 1..(n - 1) : w[i] = Built(rs[i])
      OBVIOUS
    <3>3. \A i \in 1..(n - 1) : Built(rs[i]) \in B
      BY <3>1
    <3> HIDE DEF B
    <3>4. w \in Seq(B) /\ Len(w) = n - 1
      BY <3>1, <3>3
    <3> QED
      BY <3>1, <3>2, <3>4 DEF B
  <2> HIDE DEF w, N
  <2>2. rs[n].id \notin ids
    <3> SUFFICES ASSUME NEW i \in 1..(n - 1), w[i].id = rs[n].id PROVE FALSE
      BY <2>1
    <3>1. i \in 1..N /\ i # n /\ rs[i].id = rs[n].id
      BY <1>1, <2>1
    <3> QED
      BY <3>1 DEF N
  <2>3. Usable(rs[n], ids)
    <3>1. rs[n].id \in Nat
      BY DEF N
    <3> QED
      BY <2>2, <3>1 DEF Usable
  <2>4. AddPort(w, rs[n]) = Append(w, Built(rs[n]))
    BY <2>3 DEF AddPort, Built
  <2>5. Append(w, Built(rs[n])) =
           [i \in 1..(Len(w) + 1) |-> IF i <= Len(w) THEN w[i] ELSE Built(rs[n])]
    BY <2>1
  <2>6. n \in Nat /\ Len(w) + 1 = n
    BY <1>1, <2>1
  <2>7. \A i \in 1..n : Built(rs[i]) = IF i <= Len(w) THEN w[i] ELSE Built(rs[n])
    BY <2>1, <2>6
  <2> QED
    BY <2>4, <2>5, <2>6, <2>7 DEF w
<1>3. first(0) = <<>>
  OBVIOUS
<1>4. g = body(g)
  <2> HIDE DEF N, first
  <2>1. \A n \in 0..N : g[n] = first(n)
    OBVIOUS
  <2>2. \A n \in 0..N : first(n) = IF n = 0 THEN <<>> ELSE AddPort(g[n - 1], rs[n])
    BY <1>1, <1>2, <1>3, <2>1
  <2> QED
    BY <2>1, <2>2
<1>5. built = body(built)
  <2>1. \E f : f = body(f)
    BY <1>4
  <2> HIDE DEF body
  <2> QED
    BY <2>1
<1>6. built[0] = <<>> /\ \A n \in 1..N : built[n] = AddPort(built[n - 1], rs[n])
  <2> HIDE DEF built
  <2>1. \A n \in 0..N : built[n] = IF n = 0 THEN <<>> ELSE AddPort(built[n - 1], rs[n])
    BY <1>5
  <2> HIDE DEF N
  <2> QED
    BY <1>1, <2>1
<1>7. \A n \in 0..N : built[n] = first(n)
  <2> DEFINE T == {n \in 0..N : built[n] = first(n)}
  <2> HIDE DEF built, first, N
  <2>1. ASSUME NEW i \in 1..N, i - 1 \in T PROVE i \in T
    <3>1. built[i] = AddPort(built[i - 1], rs[i]) /\ built[i - 1] = first(i - 1)
      BY <1>6, <2>1
    <3>2. built[i] = first(i)
      BY <1>2, <3>1
    <3> QED
      BY <1>1, <3>2
  <2>2. 0 \in T
    BY <1>1, <1>3, <1>6
  <2>3. 0..N \subseteq T
    <3> HIDE DEF T
    <3> QED
      BY <1>1, <2>1, <2>2, UpTo
  <2> QED
    BY <2>3
<1>8. BuildPorts(rs) = built[N]
  BY DEF BuildPorts
<1> HIDE DEF built
<1> QED
  BY <1>1, <1>7, <1>8

(* What a right file means can be loaded: there are ports, their ids are   *)
(* good and distinct, and their properties side by side with the metadata. *)
LEMMA MeantIs ==
    ASSUME NEW f \in Profiles, Right(f)
    PROVE  LET c == Meant(f) IN
           /\ c.ports \in Seq(ToSet(c.ports)) /\ Len(c.ports) # 0
           /\ \A i \in 1..Len(c.ports) :
                 /\ c.ports[i].id \in Nat
                 /\ SideBySide(Capabilities(c.ports[i]), c.ports[i])
           /\ \A i, j \in 1..Len(c.ports) : c.ports[i].id = c.ports[j].id => i = j
           /\ c.platform.maxPorts \in Int /\ c.platform.maxStarted \in Int
           /\ SideBySide(Capabilities(c.platform), c.platform)
<1> DEFINE rs == f.ports
           N == Len(rs)
           c == Meant(f)
           ports == c.ports
           platform == c.platform
<1>1. /\ rs \in Seq(RawPort) /\ f.platform \in RawPlatform
      /\ DOMAIN rs = 1..N /\ N \in Nat \ {0}
  <2>1. rs \in Seq(RawPort) /\ f.platform \in RawPlatform /\ rs # <<>>
    BY ProfilesAssumption DEF RawFile, Right
  <2> HIDE DEF rs
  <2> QED
    BY <2>1
<1>2. ports = [i \in 1..N |-> [rs[i] EXCEPT !.id = Strtol[@], !.metadata = Said(@)]]
  BY <1>1 DEF Meant
<1>3. platform = MeantPlatform(f.platform)
  BY DEF Meant, MeantPlatform
<1> HIDE DEF c, ports, platform
<1>4. ports \in Seq(ToSet(ports)) /\ Len(ports) = N
  <2>1. ports = [i \in 1..N |-> ports[i]]
    BY <1>2
  <2>2. \A i \in 1..N : ports[i] \in ToSet(ports)
    BY <1>2 DEF ToSet
  <2> QED
    BY <1>1, <2>1, <2>2
<1>5. ASSUME NEW i \in 1..N
      PROVE  /\ ports[i].id = Strtol[rs[i].id] /\ Strtol[rs[i].id] \in Nat
             /\ SideBySide(Capabilities(ports[i]), ports[i])
  <2> DEFINE r == rs[i]
  <2>1. r \in RawPort /\ RightPort(r)
    BY <1>1 DEF Right
  <2>2. Listed(r)
    BY <2>1 DEF Listed, RawPort
  <2>3. Strtol[r.id] \in Nat
    <3> HIDE DEF r
    <3> QED
      BY <2>1, PortReadsIs
  <2>4. /\ ports[i].id = Strtol[r.id]
        /\ ports[i].supported = r.supported
        /\ ports[i].metadata = Said(r.metadata)
    <3>1. ports[i] = [r EXCEPT !.id = Strtol[@], !.metadata = Said(@)]
      BY <1>2
    <3> HIDE DEF r
    <3> QED
      BY <2>1, <3>1 DEF RawPort
  <2>5. SideBySide(Capabilities(ports[i]), ports[i])
    <3> HIDE DEF r
    <3> QED
      BY <2>1, <2>2, <2>4, CapabilitiesSideBySide DEF RightPort
  <2> QED
    BY <2>3, <2>4, <2>5
<1>6. \A i, j \in 1..N : ports[i].id = ports[j].id => i = j
  BY <1>1, <1>5 DEF Right
<1>7. /\ platform.maxPorts \in Int /\ platform.maxStarted \in Int
      /\ SideBySide(Capabilities(platform), platform)
  <2> DEFINE r == f.platform
  <2>1. r \in RawPlatform /\ Readable(r) /\ Aligned(r)
        /\ AtLeast(r.maxPorts, 1) /\ AtLeast(r.maxStarted, 1)
    BY <1>1 DEF Right
  <2> HIDE DEF r
  <2>2. Listed(r)
    BY <2>1 DEF Listed, RawPlatform
  <2>3. platform = MeantPlatform(r)
    BY <1>3 DEF r
  <2>4. /\ platform.maxPorts = Strtol[r.maxPorts]
        /\ platform.maxStarted = Strtol[r.maxStarted]
        /\ platform.supported = r.supported
        /\ platform.metadata = Said(r.metadata)
    BY <2>1, <2>3 DEF MeantPlatform, RawPlatform
  <2>5. Strtol[r.maxPorts] \in Int /\ Strtol[r.maxStarted] \in Int
    BY <2>1, StrtolAssumption DEF AtLeast
  <2>6. SideBySide(Capabilities(platform), platform)
    BY <2>1, <2>2, <2>4, CapabilitiesSideBySide
  <2> QED
    BY <2>4, <2>5, <2>6
<1> QED
  BY <1>1, <1>4, <1>5, <1>6, <1>7 DEF c, ports, platform

(* What is loaded of a configuration with good ports.                      *)
LEMMA LoadIs ==
    ASSUME NEW f \in Profiles, Right(f)
    PROVE  LET c == Meant(f)
               s == Load(c) IN
           /\ s.ports = [i \in 1..Len(c.ports) |-> Built(c.ports[i])]
           /\ Len(s.ports) = Len(c.ports) /\ Len(c.ports) \in Nat
           /\ s.maxPorts = Int8(Clamp(c.platform.maxPorts, Len(c.ports)))
           /\ s.maxStarted = IF c.platform.maxStarted >= 1
                             THEN c.platform.maxStarted ELSE 1
           /\ s.capabilities = Capabilities(c.platform)
<1> DEFINE c == Meant(f)
           N == Len(c.ports)
           ports == [i \in 1..N |-> Built(c.ports[i])]
<1>1. /\ c.ports \in Seq(ToSet(c.ports)) /\ N # 0
      /\ \A i \in 1..N : c.ports[i].id \in Nat
      /\ \A i, j \in 1..N : c.ports[i].id = c.ports[j].id => i = j
  BY MeantIs
<1> HIDE DEF c
<1>2. N \in Nat
  BY <1>1
<1>3. BuildPorts(c.ports) = ports
  BY <1>1, BuildPortsIs
<1>4. Len(ports) = N /\ ports # <<>>
  <2>1. ports \in Seq({Built(c.ports[i]) : i \in 1..N}) /\ Len(ports) = N
    BY <1>2
  <2> HIDE DEF ports
  <2> QED
    BY <1>1, <2>1
<1>5. c # Nothing
  <2>1. c.ports # <<>>
    BY <1>1
  <2> QED
    BY <2>1 DEF Nothing
<1>6. Load(c) = [ports |-> ports,
                 maxPorts |-> Int8(Clamp(c.platform.maxPorts, Len(ports))),
                 maxStarted |-> IF c.platform.maxStarted >= 1
                                THEN c.platform.maxStarted ELSE 1,
                 capabilities |-> Capabilities(c.platform)]
  <2> HIDE DEF ports
  <2> QED
    BY <1>3, <1>4, <1>5 DEF Load
<1> HIDE DEF ports, N
<1>7. /\ Load(c).ports = ports /\ Len(Load(c).ports) = N
      /\ Load(c).maxPorts = Int8(Clamp(c.platform.maxPorts, N))
      /\ Load(c).maxStarted = IF c.platform.maxStarted >= 1
                              THEN c.platform.maxStarted ELSE 1
      /\ Load(c).capabilities = Capabilities(c.platform)
  BY <1>4, <1>6
<1> QED
  BY <1>2, <1>7 DEF c, ports, N

(* The clamped count is a byte that has not turned negative.               *)
LEMMA ClampIs ==
    ASSUME NEW n \in Int, NEW count \in Nat, count # 0
    PROVE  LET b == Int8(Clamp(n, count)) IN b \in 1..127 /\ (b >= count \/ b = 127)
<1>1. /\ Clamp(n, count) \in Int /\ 1 <= Clamp(n, count) /\ Clamp(n, count) <= 127
      /\ Clamp(n, count) >= count \/ Clamp(n, count) = 127
  BY DEF Clamp
<1>2. ASSUME NEW b \in Int, 1 <= b, b <= 127 PROVE Int8(b) = b
  BY <1>2 DEF Int8
<1>3. Int8(Clamp(n, count)) = Clamp(n, count)
  BY <1>1, <1>2
<1> QED
  BY <1>1, <1>3

----------------------------------------------------------------------------
(* The service is what is loaded of what is parsed of the file.            *)
HfpIInv ==
    /\ file \in Profiles
    /\ stage \in {"start", "parsed", "loaded"}
    /\ config = IF stage = "start" THEN Nothing ELSE ParseConfig(file)
    /\ service = IF stage = "loaded" THEN Load(config) ELSE Nothing

(* Nothing is read or served at the start.                                 *)
LEMMA HfpIInvInit == HfpInit => HfpIInv
BY DEF HfpInit, HfpIInv

(* The file is parsed first and loaded once.                               *)
LEMMA HfpIInvStep == HfpIInv /\ [HfpNext]_hfpVars => HfpIInv'
<1> SUFFICES ASSUME HfpIInv, [HfpNext]_hfpVars PROVE HfpIInv'
  OBVIOUS
<1>1. CASE Parse
  BY <1>1 DEF Parse, HfpIInv
<1>2. CASE LoadCapabilities
  BY <1>2 DEF LoadCapabilities, HfpIInv
<1>3. CASE UNCHANGED hfpVars
  BY <1>3 DEF hfpVars, HfpIInv
<1> QED
  BY <1>1, <1>2, <1>3 DEF HfpNext

(* The service always is what the file makes of it.                        *)
THEOREM HfpInvariant == HfpSpec => []HfpIInv
BY HfpIInvInit, HfpIInvStep, PTL DEF HfpSpec

(* The parser accepts exactly the right files, whole.                      *)
THEOREM ParserIsExact == HfpSpec => []ParserExact
<1>1. HfpIInv => ParserExact
  BY ParseConfigIs DEF HfpIInv, ParserExact
<1> QED
  BY <1>1, HfpInvariant, PTL

(* A service without ports, or one loaded of a right file.                 *)
LEMMA LoadedIs ==
    ASSUME HfpIInv
    PROVE  /\ config = IF stage # "start" /\ Right(file) THEN Meant(file) ELSE Nothing
           /\ stage = "loaded" /\ config = Nothing => service = Nothing
           /\ stage # "loaded" => service = Nothing
<1>1. Load(Nothing) = Nothing
  BY DEF Load
<1> QED
  BY <1>1, ParseConfigIs DEF HfpIInv

(* What is served fits the types and the limits of the platform.           *)
THEOREM HfpTypeCorrect == HfpSpec => []HfpTypeOK
<1>1. HfpIInv => HfpTypeOK
  <2> SUFFICES ASSUME HfpIInv, service # Nothing
               PROVE  /\ service.maxPorts \in 1..127
                      /\ service.maxPorts >= Len(service.ports) \/ service.maxPorts = 127
                      /\ service.maxStarted >= 1
    BY DEF HfpTypeOK, HfpIInv
  <2>1. stage = "loaded" /\ Right(file) /\ config = Meant(file)
    BY LoadedIs DEF HfpIInv
  <2>2. file \in Profiles /\ service = Load(Meant(file))
    BY <2>1 DEF HfpIInv
  <2> DEFINE c == Meant(file)
             N == Len(c.ports)
  <2>3. /\ c.platform.maxPorts \in Int /\ c.platform.maxStarted \in Int
        /\ N # 0
    BY <2>1, <2>2, MeantIs
  <2>4. /\ Len(service.ports) = N /\ N \in Nat
        /\ service.maxPorts = Int8(Clamp(c.platform.maxPorts, N))
        /\ service.maxStarted = IF c.platform.maxStarted >= 1
                                THEN c.platform.maxStarted ELSE 1
    BY <2>1, <2>2, LoadIs
  <2> HIDE DEF c, N
  <2>5. service.maxPorts \in 1..127 /\ (service.maxPorts >= N \/ service.maxPorts = 127)
    <3>1. LET b == Int8(Clamp(c.platform.maxPorts, N)) IN b \in 1..127 /\ (b >= N \/ b = 127)
      BY <2>3, <2>4, ClampIs, Zenon
    <3> QED
      BY <2>4, <3>1, Zenon
  <2>6. service.maxStarted >= 1
    BY <2>3, <2>4
  <2> QED
    BY <2>4, <2>5, <2>6
<1> QED
  BY <1>1, HfpInvariant, PTL

(* Every port of an accepted file is served, found by its own id and with  *)
(* its properties and metadata side by side, and no other.                 *)
THEOREM NothingIsSkipped == HfpSpec => []NothingSkipped
<1>1. HfpIInv => NothingSkipped
  <2> SUFFICES ASSUME HfpIInv, stage = "loaded", config # Nothing
               PROVE  NothingSkipped
    BY DEF NothingSkipped
  <2>1. /\ Right(file) /\ config = Meant(file) /\ file \in Profiles
        /\ service = Load(config)
    BY LoadedIs DEF HfpIInv
  <2> DEFINE N == Len(config.ports)
  <2>2. /\ N \in Nat /\ N # 0 /\ DOMAIN config.ports = 1..N
        /\ \A i \in 1..N : /\ config.ports[i].id \in Nat
                           /\ SideBySide(Capabilities(config.ports[i]), config.ports[i])
        /\ \A i, j \in 1..N : config.ports[i].id = config.ports[j].id => i = j
        /\ SideBySide(Capabilities(config.platform), config.platform)
    <3>1. config.ports \in Seq(ToSet(config.ports))
      BY <2>1, MeantIs
    <3> QED
      BY <2>1, <3>1, MeantIs
  <2>3. /\ service.ports = [i \in 1..N |-> Built(config.ports[i])]
        /\ service.capabilities = Capabilities(config.platform)
    BY <2>1, LoadIs
  <2> HIDE DEF N
  <2>4. /\ DOMAIN service.ports = 1..N
        /\ \A i \in 1..N :
              /\ service.ports[i].id = config.ports[i].id
              /\ service.ports[i].info.name = config.ports[i].name
              /\ service.ports[i].info.description = config.ports[i].description
              /\ service.ports[i].capabilities = Capabilities(config.ports[i])
    BY <2>3 DEF Built, PortInfo
  <2>5. GetPortIds = [i \in 1..N |-> config.ports[i].id]
    BY <2>4 DEF GetPortIds
  <2>6. Len(GetPortIds) = N
    BY <2>2, <2>5
  <2>7. ASSUME NEW i \in 1..N
        PROVE  GetPort(config.ports[i].id) = <<service.ports[i]>>
    <3> DEFINE found == {j \in DOMAIN service.ports :
                           service.ports[j].id = config.ports[i].id}
    <3>1. found = {i}
      BY <2>2, <2>4
    <3>2. Min({i}) = i
      <4>1. i \in Nat
        BY <2>2
      <4>2. \E x \in {i} : \A y \in {i} : x <= y
        BY <4>1
      <4>3. Min({i}) = CHOOSE x \in {i} : \A y \in {i} : x <= y
        BY DEF Min
      <4>4. (CHOOSE x \in {i} : \A y \in {i} : x <= y) \in {i}
        BY <4>2
      <4> QED
        BY <4>3, <4>4
    <3>3. ~ (config.ports[i].id < 0)
      BY <2>2
    <3> HIDE DEF found
    <3>4. GetPort(config.ports[i].id) =
             IF config.ports[i].id < 0 \/ found = {} THEN <<>>
             ELSE <<service.ports[Min(found)]>>
      BY DEF GetPort, found
    <3> QED
      BY <3>1, <3>2, <3>3, <3>4
  <2>8. ASSUME NEW id \in -1..Len(GetPortIds), GetPort(id) # <<>>
        PROVE  id \in ToSet(GetPortIds)
    <3>1. {j \in DOMAIN service.ports : service.ports[j].id = id} # {}
      BY <2>8 DEF GetPort
    <3>2. PICK j \in DOMAIN service.ports : service.ports[j].id = id
      BY <3>1
    <3>3. j \in DOMAIN GetPortIds /\ GetPortIds[j] = id
      BY <2>4, <2>5, <3>2
    <3> HIDE DEF GetPortIds
    <3> QED
      BY <3>3 DEF ToSet
  <2>9. \A i \in 1..N :
           LET port == GetPort(config.ports[i].id) IN
           /\ GetPortIds[i] = config.ports[i].id
           /\ Len(port) = 1
           /\ port[1].info.name = config.ports[i].name
           /\ port[1].info.description = config.ports[i].description
           /\ SideBySide(port[1].capabilities, config.ports[i])
    <3> SUFFICES ASSUME NEW i \in 1..N
                 PROVE  LET port == <<service.ports[i]>> IN
                        /\ GetPortIds[i] = config.ports[i].id
                        /\ Len(port) = 1
                        /\ port[1].info.name = config.ports[i].name
                        /\ port[1].info.description = config.ports[i].description
                        /\ SideBySide(port[1].capabilities, config.ports[i])
      BY <2>7, Zenon
    <3>1. /\ GetPortIds[i] = config.ports[i].id
          /\ service.ports[i].info.name = config.ports[i].name
          /\ service.ports[i].info.description = config.ports[i].description
          /\ SideBySide(service.ports[i].capabilities, config.ports[i])
      BY <2>2, <2>4, <2>5
    <3>2. \A x : Len(<<x>>) = 1 /\ <<x>>[1] = x
      OBVIOUS
    <3> QED
      BY <3>1, <3>2, Zenon
  <2>10. SideBySide(service.capabilities, config.platform)
    BY <2>2, <2>3
  <2>11. Len(config.ports) = N /\ DOMAIN config.ports = 1..N
    BY <2>2 DEF N
  <2> QED
    BY <2>6, <2>8, <2>9, <2>10, <2>11, Zenon DEF NothingSkipped
<1> QED
  BY <1>1, HfpInvariant, PTL
=============================================================================
