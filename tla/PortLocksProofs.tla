--------------------------- MODULE PortLocksProofs ---------------------------
(* Proofs of the properties of PortLocks, for every set of ports and       *)
(* threads, every set of calls a listener may make from within a callback, *)
(* and every depth to which such calls nest.                               *)
EXTENDS PortLocks, SequenceTheorems, WellFoundedInduction, TLAPS

----------------------------------------------------------------------------
(* What a call holds while it goes its way.                                *)

Names == {"port", "slots", "manager", "queue"}

(* Nothing; one mutex; the slots inside the port; and the end of the way,  *)
(* where it goes on with another function.                                 *)
Holds == Names \union {"none", "both", "end"}

Held(a) == IF a \in Names THEN {a}
           ELSE IF a = "both" THEN {"port", "slots"} ELSE {}

(* The only nesting there is: the slots inside a port.  No call out and no *)
(* other function inside a section.                                        *)
Does(a, s, b) ==
    \/ s.op = "lock"   /\ a = "none" /\ b = s.on    /\ s.on \in Names
    \/ s.op = "lock"   /\ a = "port" /\ b = "both"  /\ s.on = "slots"
    \/ s.op = "unlock" /\ a = s.on   /\ b = "none"  /\ s.on \in Names
    \/ s.op = "unlock" /\ a = "both" /\ b = "port"  /\ s.on = "slots"
    \/ s.op = "out"    /\ a = "none" /\ b = "none"
    \/ /\ s.op = "run" /\ a = "none" /\ b = "end"
       /\ s.on \in Functions \union {"tail"}

Steps == [op : {"lock", "unlock", "out", "run"},
          on : Names \union Functions \union {"tail", "listeners"}]

(* What is left to do leads from holding a to holding b.                   *)
Path(a, todo, b) ==
    /\ todo \in Seq(Steps)
    /\ \E h \in [0..Len(todo) -> Holds] :
          /\ h[0] = a
          /\ h[Len(todo)] = b
          /\ \A i \in 1..Len(todo) : Does(h[i - 1], todo[i], h[i])

(* A call with nothing to do is where it is.                               *)
LEMMA PathNone == ASSUME NEW a \in Holds PROVE Path(a, <<>>, a)
<1> DEFINE h == [i \in 0..0 |-> a]
<1>1. /\ h \in [0..Len(<<>>) -> Holds] /\ h[0] = a /\ h[Len(<<>>)] = a
      /\ \A i \in 1..Len(<<>>) : Does(h[i - 1], <<>>[i], h[i])
  OBVIOUS
<1>2. <<>> \in Seq(Steps)
  OBVIOUS
<1> HIDE DEF h
<1> QED
  BY <1>1, <1>2 DEF Path

(* One step.                                                               *)
LEMMA PathOne ==
    ASSUME NEW a \in Holds, NEW b \in Holds, NEW s \in Steps, Does(a, s, b)
    PROVE  Path(a, <<s>>, b)
<1> DEFINE h == [i \in 0..1 |-> IF i = 0 THEN a ELSE b]
<1>1. /\ h \in [0..Len(<<s>>) -> Holds] /\ h[0] = a /\ h[Len(<<s>>)] = b
      /\ \A i \in 1..Len(<<s>>) : Does(h[i - 1], <<s>>[i], h[i])
  OBVIOUS
<1>2. <<s>> \in Seq(Steps)
  OBVIOUS
<1> HIDE DEF h
<1> QED
  BY <1>1, <1>2 DEF Path

(* One way after the other.                                                *)
LEMMA PathJoin ==
    ASSUME NEW a, NEW b, NEW c, NEW q, NEW r, Path(a, q, b), Path(b, r, c)
    PROVE  Path(a, q \o r, c)
<1>1. q \in Seq(Steps) /\ r \in Seq(Steps)
  BY DEF Path
<1>2. PICK g \in [0..Len(q) -> Holds] :
         /\ g[0] = a /\ g[Len(q)] = b
         /\ \A i \in 1..Len(q) : Does(g[i - 1], q[i], g[i])
  BY DEF Path
<1>3. PICK h \in [0..Len(r) -> Holds] :
         /\ h[0] = b /\ h[Len(r)] = c
         /\ \A i \in 1..Len(r) : Does(h[i - 1], r[i], h[i])
  BY DEF Path
<1> DEFINE gh == [i \in 0..Len(q \o r) |-> IF i <= Len(q) THEN g[i]
                                           ELSE h[i - Len(q)]]
<1>4. /\ q \o r \in Seq(Steps) /\ Len(q \o r) = Len(q) + Len(r)
      /\ Len(q) \in Nat /\ Len(r) \in Nat
      /\ \A i \in 1..Len(q \o r) :
            (q \o r)[i] = IF i <= Len(q) THEN q[i] ELSE r[i - Len(q)]
  BY <1>1
<1>5. gh \in [0..Len(q \o r) -> Holds]
  BY <1>2, <1>3, <1>4
<1>6. gh[0] = a /\ gh[Len(q \o r)] = c
  BY <1>2, <1>3, <1>4
<1>7. ASSUME NEW i \in 1..Len(q \o r)
      PROVE  Does(gh[i - 1], (q \o r)[i], gh[i])
  <2>1. CASE i <= Len(q)
    BY <1>2, <1>4, <2>1
  <2>2. CASE i = Len(q) + 1
    BY <1>2, <1>3, <1>4, <2>2
  <2>3. CASE i > Len(q) + 1
    <3> DEFINE j == i - Len(q)
    <3>1. /\ j \in 1..Len(r) /\ (q \o r)[i] = r[j]
          /\ gh[i - 1] = h[j - 1] /\ gh[i] = h[j]
      BY <1>4, <2>3
    <3> QED
      BY <1>3, <3>1
  <2> QED
    BY <1>4, <2>1, <2>2, <2>3
<1> QED
  BY <1>4, <1>5, <1>6, <1>7 DEF Path

(* The next step and the way that is left after it.                        *)
LEMMA PathNext ==
    ASSUME NEW a, NEW b, NEW q, Path(a, q, b), q # <<>>
    PROVE  \E c \in Holds : Does(a, Head(q), c) /\ Path(c, Tail(q), b)
<1>1. q \in Seq(Steps)
  BY DEF Path
<1>2. PICK h \in [0..Len(q) -> Holds] :
         /\ h[0] = a /\ h[Len(q)] = b
         /\ \A i \in 1..Len(q) : Does(h[i - 1], q[i], h[i])
  BY DEF Path
<1>3. /\ Len(q) \in Nat \ {0} /\ Head(q) = q[1]
      /\ Tail(q) \in Seq(Steps) /\ Len(Tail(q)) = Len(q) - 1
      /\ \A i \in 1..Len(Tail(q)) : Tail(q)[i] = q[i + 1]
  BY <1>1
<1> DEFINE g == [i \in 0..Len(Tail(q)) |-> h[i + 1]]
<1>4. Does(a, Head(q), h[1]) /\ h[1] \in Holds
  BY <1>2, <1>3
<1>5. g \in [0..Len(Tail(q)) -> Holds] /\ g[0] = h[1] /\ g[Len(Tail(q))] = b
  BY <1>2, <1>3
<1>6. \A i \in 1..Len(Tail(q)) : Does(g[i - 1], Tail(q)[i], g[i])
  BY <1>2, <1>3
<1>7. Path(h[1], Tail(q), b)
  BY <1>3, <1>5, <1>6 DEF Path
<1> QED
  BY <1>4, <1>7

(* With nothing left to do one is at the end of the way, and nothing is    *)
(* left to do there.                                                       *)
LEMMA PathEnds ==
    ASSUME NEW a, NEW b, NEW q, Path(a, q, b)
    PROVE  /\ q = <<>> => a = b
           /\ a = "end" => q = <<>>
<1>1. q = <<>> => a = b
  BY DEF Path
<1>2. a = "end" => q = <<>>
  BY PathNext DEF Does, Names
<1> QED
  BY <1>1, <1>2

----------------------------------------------------------------------------
(* The ways through the functions.                                         *)

(* A way starts with nothing held and ends so, or goes on with another     *)
(* function; it is never empty.                                            *)
Way(q, b) == Path("none", q, b) /\ q # <<>>

Goes(a, q) == Path(a, q, "none") \/ Path(a, q, "end")

(* Something follows a way that ends with nothing held.                    *)
LEMMA WayJoin ==
    ASSUME NEW q, NEW r, NEW b, Way(q, "none"), Way(r, b)
    PROVE  Way(q \o r, b)
<1>1. q \in Seq(Steps) /\ r \in Seq(Steps) /\ q # <<>>
  BY DEF Way, Path
<1>2. q \o r # <<>>
  BY <1>1
<1> QED
  BY <1>2, PathJoin DEF Way

(* What each step does to what is held.                                    *)
LEMMA StepFacts ==
    /\ \A m \in Names : /\ Lock(m) \in Steps /\ Unlock(m) \in Steps
                        /\ Does("none", Lock(m), m)
                        /\ Does(m, Unlock(m), "none")
                        /\ m \in Holds
    /\ Does("port", Lock("slots"), "both")
    /\ Does("both", Unlock("slots"), "port")
    /\ CallOut \in Steps /\ Does("none", CallOut, "none")
    /\ \A f \in Functions \union {"tail"} :
          Run(f) \in Steps /\ Does("none", Run(f), "end")
    /\ "none" \in Holds /\ "both" \in Holds /\ "end" \in Holds
<1>1. ASSUME NEW m \in Names
      PROVE  Lock(m) \in Steps /\ Unlock(m) \in Steps /\ m \in Holds
  BY DEF Lock, Unlock, Steps, Holds
<1>2. ASSUME NEW m \in Names
      PROVE  Does("none", Lock(m), m) /\ Does(m, Unlock(m), "none")
  BY DEF Lock, Unlock, Does
<1>3. Does("port", Lock("slots"), "both") /\ Does("both", Unlock("slots"), "port")
  BY DEF Lock, Unlock, Does
<1>4. CallOut \in Steps /\ Does("none", CallOut, "none")
  BY DEF CallOut, Steps, Does
<1>5. ASSUME NEW f \in Functions \union {"tail"}
      PROVE  Run(f) \in Steps /\ Does("none", Run(f), "end")
  BY DEF Run, Steps, Does
<1> QED
  BY <1>1, <1>2, <1>3, <1>4, <1>5 DEF Holds

(* Two steps are one after the other.                                      *)
LEMMA TwoSteps ==
    ASSUME NEW x \in Steps, NEW y \in Steps
    PROVE  <<x>> \o <<y>> = <<x, y>>
<1> DEFINE u == <<x>> \o <<y>>
           v == <<x, y>>
<1>1. u \in Seq(Steps) /\ v \in Seq(Steps)
  OBVIOUS
<1>2. Len(u) = 2 /\ Len(v) = 2
  OBVIOUS
<1>3. \A i \in 1..2 : u[i] = v[i]
  OBVIOUS
<1> HIDE DEF u, v
<1>4. u = v
  BY <1>1, <1>2, <1>3, SeqEqual
<1> QED
  BY <1>4 DEF u, v

(* A section, a section with its listeners, another function.              *)
LEMMA Pieces ==
    /\ \A m \in Names : Way(Section(m), "none")
    /\ Way(<<CallOut>>, "none")
    /\ Way(Edge, "none")
    /\ \A f \in Functions \union {"tail"} : Way(<<Run(f)>>, "end")
<1>1. ASSUME NEW m \in Names PROVE Way(Section(m), "none")
  <2>1. Path("none", <<Lock(m)>>, m) /\ Path(m, <<Unlock(m)>>, "none")
    BY StepFacts, PathOne
  <2>2. <<Lock(m)>> \o <<Unlock(m)>> = Section(m) /\ Section(m) # <<>>
    BY StepFacts, TwoSteps DEF Section
  <2> QED
    BY <2>1, <2>2, PathJoin DEF Way
<1>2. Way(<<CallOut>>, "none")
  BY StepFacts, PathOne DEF Way
<1>3. Way(Edge, "none")
  BY <1>1, <1>2, WayJoin DEF Edge, Names
<1>4. ASSUME NEW f \in Functions \union {"tail"} PROVE Way(<<Run(f)>>, "end")
  <2>1. Path("none", <<Run(f)>>, "end")
    BY <1>4, StepFacts, PathOne
  <2> QED
    BY <2>1 DEF Way
<1> QED
  BY <1>1, <1>2, <1>3, <1>4

(* The early return of start(): the slots inside the port.                 *)
LEMMA NestedPiece ==
    Way(Section("slots") \o <<Lock("port")>> \o Section("slots")
                         \o <<Unlock("port")>>, "none")
<1> DEFINE s == Section("slots")
           ls == <<Lock("slots")>>
           us == <<Unlock("slots")>>
           lp == <<Lock("port")>>
           up == <<Unlock("port")>>
<1>1. /\ Path("none", lp, "port") /\ Path("port", ls, "both")
      /\ Path("both", us, "port") /\ Path("port", up, "none")
  BY StepFacts, PathOne DEF Names
<1>2. ls \o us = s
  BY StepFacts, TwoSteps DEF Section, Names
<1>3. Way(s, "none")
  BY Pieces DEF Names
<1> HIDE DEF s, ls, us, lp, up
<1>4. Path("port", s, "port")
  BY <1>1, <1>2, PathJoin
<1>5. Path("none", s \o lp, "port")
  BY <1>1, <1>3, PathJoin DEF Way
<1>6. Path("none", s \o lp \o s \o up, "none")
  BY <1>1, <1>4, <1>5, PathJoin
<1>7. s \o lp \o s \o up # <<>>
  <2>1. s \in Seq(Steps) /\ lp \in Seq(Steps) /\ up \in Seq(Steps) /\ s # <<>>
    BY <1>1, <1>3 DEF Way, Path
  <2> QED
    BY <2>1
<1>8. Way(s \o lp \o s \o up, "none")
  BY <1>6, <1>7 DEF Way
<1> QED
  BY <1>8 DEF s, lp, up

(* Every way through every function is one.                                *)
LEMMA WaysAreWays ==
    ASSUME NEW f \in Functions \union {"tail"}, NEW way \in Ways(f)
    PROVE  Way(way, "none") \/ Way(way, "end")
<1> DEFINE Good(q) == Way(q, "none") \/ Way(q, "end")
<1>1. /\ Way(Section("port"), "none") /\ Way(Section("slots"), "none")
      /\ Way(Section("manager"), "none") /\ Way(Section("queue"), "none")
      /\ Way(Edge, "none")
      /\ Way(<<Run("tail")>>, "end") /\ Way(<<Run("obituary")>>, "end")
      /\ Way(<<Run("close")>>, "end")
  BY Pieces DEF Names, Functions
<1> HIDE DEF Good
<1>j. \A q, r : Way(q, "none") /\ Way(r, "none") => Way(q \o r, "none")
  BY WayJoin
<1>e. \A q, r : Way(q, "none") /\ Way(r, "end") => Way(q \o r, "end")
  BY WayJoin
<1>2. CASE f = "open"
  BY <1>1, <1>j, <1>e, <1>2 DEF Ways, OpenWays, Good
<1>3. CASE f = "close"
  BY <1>1, <1>j, <1>3 DEF Ways, CloseWays, Good
<1>4. CASE f = "start"
  BY <1>1, <1>j, <1>e, <1>4, NestedPiece DEF Ways, StartWays, Good
<1>5. CASE f = "stop"
  BY <1>1, <1>j, <1>e, <1>5 DEF Ways, StopWays, Good
<1>6. CASE f = "property"
  BY <1>1, <1>6 DEF Ways, PropertyWays, Good
<1>7. CASE f \in {"query", "lookup", "push"}
  BY <1>1, <1>7 DEF Ways, QueryWays, LookupWays, PushWays, Good
<1>8. CASE f = "deliver"
  BY <1>1, <1>j, <1>8 DEF Ways, DeliverWays, Good
<1>9. CASE f = "obituary"
  BY <1>1, <1>j, <1>e, <1>9 DEF Ways, ObituaryWays, Good
<1>10. CASE f = "tail"
  BY <1>1, <1>e, <1>10 DEF Ways, TailWays, Good
<1> QED
  BY <1>2, <1>3, <1>4, <1>5, <1>6, <1>7, <1>8, <1>9, <1>10
     DEF Functions, Good

----------------------------------------------------------------------------
(* What a call still has to give back is what it holds.                    *)

(* Every set of numbers that is not empty has a least one.                 *)
LEMMA Least ==
    ASSUME NEW T, T \subseteq Nat, T # {}
    PROVE  \E n \in T : \A m \in T : n <= m
<1> DEFINE R == {ss \in Nat \X Nat : ss[1] < ss[2]}
<1>1. IsWellFoundedOn(R, Nat)
  BY NatLessThanWellFounded DEF OpToRel
<1>2. \A x, y \in Nat : <<y, x>> \in R <=> y < x
  OBVIOUS
<1> HIDE DEF R
<1>3. PICK x \in T : \A y \in T : ~ (<<y, x>> \in R)
  BY <1>1, WFMin
<1>4. ASSUME NEW m \in T PROVE x <= m
  <2>1. m \in Nat /\ x \in Nat
    OBVIOUS
  <2>2. ~ (m < x)
    BY <1>2, <1>3, <2>1
  <2> QED
    BY <2>1, <2>2
<1> QED
  BY <1>4

(* A step takes or gives back the mutex it names, and only that one.       *)
LEMMA StepHeld ==
    ASSUME NEW a \in Holds, NEW b \in Holds, NEW s \in Steps, Does(a, s, b),
           NEW x
    PROVE  /\ x \in Held(a) /\ x \notin Held(b) => s.op = "unlock" /\ s.on = x
           /\ x \in Held(b) /\ x \notin Held(a) => s = Lock(x)
           /\ s = Lock(x) => x \notin Held(a)
           /\ s.op = "unlock" /\ s.on = x => x \in Held(a)
<1>1. ASSUME s.op = "lock", s.on = x PROVE s = Lock(x)
  BY <1>1 DEF Lock, Steps
<1>2. s = Lock(x) => s.op = "lock" /\ s.on = x
  BY DEF Lock
<1> HIDE DEF Lock
<1> QED
  BY <1>1, <1>2 DEF Does, Held, Holds, Names

(* A name is held exactly if the way gives it back before it takes it      *)
(* (again).                                                                *)
LEMMA OwedNames ==
    ASSUME NEW a \in Holds, NEW q, Goes(a, q), NEW x
    PROVE  x \in Held(a) <=>
              \E j \in DOMAIN q : /\ q[j].op = "unlock" /\ q[j].on = x
                                  /\ \A k \in 1..j - 1 : q[k] # Lock(x)
<1>1. PICK e \in {"none", "end"} : Path(a, q, e)
  BY DEF Goes
<1>2. q \in Seq(Steps) /\ Len(q) \in Nat /\ DOMAIN q = 1..Len(q)
  BY <1>1 DEF Path
<1>3. PICK h \in [0..Len(q) -> Holds] :
         /\ h[0] = a /\ h[Len(q)] = e
         /\ \A i \in 1..Len(q) : Does(h[i - 1], q[i], h[i])
  BY <1>1 DEF Path
<1>4. x \notin Held(h[Len(q)])
  BY <1>1, <1>3 DEF Held, Names
<1>s. ASSUME NEW i \in 1..Len(q)
      PROVE  /\ i - 1 \in 0..Len(q) /\ i \in 0..Len(q)
             /\ x \in Held(h[i - 1]) /\ x \notin Held(h[i]) =>
                   q[i].op = "unlock" /\ q[i].on = x
             /\ x \in Held(h[i]) /\ x \notin Held(h[i - 1]) => q[i] = Lock(x)
             /\ q[i] = Lock(x) => x \notin Held(h[i - 1])
             /\ q[i].op = "unlock" /\ q[i].on = x => x \in Held(h[i - 1])
  <2>1. i - 1 \in 0..Len(q) /\ i \in 0..Len(q)
    BY <1>2
  <2>2. h[i - 1] \in Holds /\ h[i] \in Holds /\ q[i] \in Steps
    BY <1>2, <1>3, <2>1
  <2>3. Does(h[i - 1], q[i], h[i])
    BY <1>3
  <2> QED
    BY <2>1, <2>2, <2>3, StepHeld
<1>5. ASSUME x \in Held(a)
      PROVE  \E j \in DOMAIN q : /\ q[j].op = "unlock" /\ q[j].on = x
                                 /\ \A k \in 1..j - 1 : q[k] # Lock(x)
  <2> DEFINE T == {i \in 0..Len(q) : x \notin Held(h[i])}
  <2>1. PICK j \in T : \A i \in T : j <= i
    <3>1. T \subseteq Nat /\ Len(q) \in T
      BY <1>2, <1>4
    <3> HIDE DEF T
    <3> QED
      BY <3>1, Least
  <2>2. j \in 1..Len(q) /\ x \notin Held(h[j])
    BY <1>2, <1>3, <1>5, <2>1
  <2>3. \A i \in 0..j - 1 : x \in Held(h[i])
    BY <1>2, <2>1, <2>2
  <2>4. q[j].op = "unlock" /\ q[j].on = x
    BY <1>s, <2>2, <2>3
  <2>5. ASSUME NEW k \in 1..j - 1 PROVE q[k] # Lock(x)
    <3>1. k \in 1..Len(q) /\ k - 1 \in 0..j - 1
      BY <1>2, <2>2
    <3> QED
      BY <1>s, <2>3, <3>1
  <2> QED
    BY <1>2, <2>2, <2>4, <2>5
<1>6. ASSUME NEW j \in DOMAIN q, q[j].op = "unlock", q[j].on = x,
             \A k \in 1..j - 1 : q[k] # Lock(x), x \notin Held(a)
      PROVE  FALSE
  <2> DEFINE T == {i \in 0..j - 1 : x \in Held(h[i])}
  <2>1. j \in 1..Len(q)
    BY <1>2
  <2>2. j - 1 \in T
    BY <1>2, <1>6, <1>s, <2>1
  <2>3. PICK i \in T : \A k \in T : i <= k
    <3>1. T \subseteq Nat
      BY <2>1
    <3> HIDE DEF T
    <3> QED
      BY <2>2, <3>1, Least
  <2>4. i \in 1..j - 1 /\ x \in Held(h[i])
    BY <1>3, <1>6, <2>1, <2>3
  <2>5. x \notin Held(h[i - 1])
    BY <2>1, <2>3, <2>4
  <2>6. i \in 1..Len(q)
    BY <2>1, <2>4
  <2>7. q[i] = Lock(x)
    BY <1>s, <2>4, <2>5, <2>6
  <2> QED
    BY <1>6, <2>4, <2>7
<1> QED
  BY <1>5, <1>6

----------------------------------------------------------------------------
(* The inductive invariant.                                                *)

Frames == [port : Ports, todo : Seq(Steps)]

(* The mutexes behind the names, for a call on port p.                     *)
Has(a, p) == {IF x = "port" THEN p ELSE x : x \in Held(a)}

(* A call that waits for its listener holds nothing and has more to do.    *)
Waits(f) == /\ f.todo # <<>>
            /\ Head(f.todo).op = "out"
            /\ Goes("none", f.todo)

(* The innermost call is on a way of its function, and what it holds is    *)
(* what its thread holds.                                                  *)
Works(t, a) ==
    /\ Top(t).todo # <<>>
    /\ Goes(a, Top(t).todo)
    /\ \A m \in Mutexes : owner[m] = t <=> m \in Has(a, Top(t).port)

ThreadOK(t) ==
    /\ stack[t] \in Seq(Frames)
    /\ Len(stack[t]) <= MaxDepth
    /\ \A i \in 2..Len(stack[t]) : Waits(stack[t][i])
    /\ stack[t] = <<>> => \A m \in Mutexes : owner[m] # t
    /\ stack[t] # <<>> => \E a \in Holds : Works(t, a)

LocksIInv ==
    /\ owner \in [Mutexes -> Threads \union {NoOwner}]
    /\ DOMAIN stack = Threads
    /\ \A t \in Threads : ThreadOK(t)

(* The names stand for different mutexes.                                  *)
LEMMA HasFacts ==
    ASSUME NEW p \in Ports
    PROVE  /\ Has("none", p) = {} /\ Has("end", p) = {}
           /\ Has("port", p) = {p} /\ Has("slots", p) = {"slots"}
           /\ Has("both", p) = {p, "slots"}
           /\ Has("manager", p) = {"manager"} /\ Has("queue", p) = {"queue"}
           /\ p \notin {"slots", "manager", "queue", "port"}
           /\ p \in Mutexes
BY LocksAssumption DEF Has, Held, Names, Mutexes

(* A path survives a step: the innermost call goes on, with what the step  *)
(* left it.                                                                *)
LEMMA GoesOn ==
    ASSUME NEW a \in Holds, NEW q, Goes(a, q), q # <<>>
    PROVE  \E c \in Holds :
              /\ Does(a, Head(q), c)
              /\ Goes(c, Tail(q))
              /\ Tail(q) = <<>> => c \in {"none", "end"}
              /\ Head(q).op = "run" => Tail(q) = <<>>
              /\ Head(q) \in Steps /\ q \in Seq(Steps) /\ Tail(q) \in Seq(Steps)
<1>1. PICK e \in {"none", "end"} : Path(a, q, e)
  BY DEF Goes
<1>2. PICK c \in Holds : Does(a, Head(q), c) /\ Path(c, Tail(q), e)
  BY <1>1, PathNext
<1>3. Tail(q) = <<>> => c = e
  BY <1>2, PathEnds
<1>4. Head(q).op = "run" => Tail(q) = <<>>
  BY <1>2, PathEnds DEF Does
<1>5. q \in Seq(Steps)
  BY <1>1 DEF Path
<1>6. Head(q) \in Steps /\ Tail(q) \in Seq(Steps)
  BY <1>5
<1> QED
  BY <1>1, <1>2, <1>3, <1>4, <1>5, <1>6 DEF Goes

(* A new frame on a stack, or in the place of its first.                   *)
LEMMA Pushed ==
    ASSUME NEW s \in Seq(Frames), NEW f \in Frames
    PROVE  /\ <<f>> \o s \in Seq(Frames)
           /\ <<f>> \o s # <<>>
           /\ Len(<<f>> \o s) = Len(s) + 1
           /\ Head(<<f>> \o s) = f
           /\ \A i \in 2..Len(s) + 1 : (<<f>> \o s)[i] = s[i - 1]
           /\ s # <<>> => Head(s) = s[1]
<1>1. <<f>> \in Seq(Frames) /\ Len(<<f>>) = 1 /\ <<f>>[1] = f
  OBVIOUS
<1> DEFINE u == <<f>>
<1>2. u \in Seq(Frames) /\ Len(u) = 1 /\ u[1] = f
  BY <1>1
<1> HIDE DEF u
<1>3. /\ u \o s \in Seq(Frames) /\ Len(u \o s) = Len(s) + 1
      /\ \A i \in 1..Len(s) + 1 :
            (u \o s)[i] = IF i <= 1 THEN u[i] ELSE s[i - 1]
  <2>1. /\ u \o s \in Seq(Frames)
        /\ Len(u \o s) = Len(u) + Len(s)
        /\ \A i \in 1..Len(u) + Len(s) :
              (u \o s)[i] = IF i <= Len(u) THEN u[i] ELSE s[i - Len(u)]
    BY <1>2, ConcatProperties
  <2>2. Len(s) \in Nat
    OBVIOUS
  <2> QED
    BY <1>2, <2>1, <2>2
<1>4. u \o s # <<>> /\ Head(u \o s) = f
  BY <1>2, <1>3
<1> QED
  BY <1>3, <1>4 DEF u

(* What a step of thread t keeps for the others: their stacks, and the     *)
(* mutexes that they hold.                                                 *)
LEMMA OthersKept ==
    ASSUME LocksIInv, NEW t \in Threads, NEW u \in Threads \ {t},
           stack'[u] = stack[u],
           \A m \in Mutexes : owner'[m] = u <=> owner[m] = u
    PROVE  ThreadOK(u)'
BY DEF LocksIInv, ThreadOK, Works, Top

(* The innermost call goes on, or returns to one that waits.               *)
LEMMA Proceeds ==
    ASSUME LocksIInv, NEW t \in Threads, stack[t] # <<>>,
           NEW todo \in Seq(Steps), NEW c \in Holds,
           Goes(c, todo), todo = <<>> => c \in {"none", "end"},
           Proceed(t, todo),
           \A m \in Mutexes : owner'[m] = t <=> m \in Has(c, Top(t).port)
    PROVE  /\ ThreadOK(t)'
           /\ DOMAIN stack' = Threads
           /\ \A u \in Threads \ {t} : stack'[u] = stack[u]
<1>a. /\ stack[t] \in Seq(Frames) /\ Len(stack[t]) <= MaxDepth
      /\ \A i \in 2..Len(stack[t]) : Waits(stack[t][i])
      /\ DOMAIN stack = Threads
  BY DEF LocksIInv, ThreadOK
<1> DEFINE s == stack[t]
           r == Tail(stack[t])
<1>b. /\ s \in Seq(Frames) /\ s # <<>> /\ Len(s) <= MaxDepth
      /\ \A i \in 2..Len(s) : Waits(s[i])
  BY <1>a
<1>c. /\ Head(s) \in Frames /\ Top(t) = Head(s)
      /\ r \in Seq(Frames) /\ Len(r) = Len(s) - 1
      /\ \A i \in 1..Len(r) : r[i] = s[i + 1]
  BY <1>b DEF Top
<1>d. Top(t).port \in Ports
  BY <1>c DEF Frames
<1>e. stack'[t] = IF todo = <<>> THEN r
                  ELSE <<[port |-> Head(s).port, todo |-> todo]>> \o r
  BY <1>a DEF Proceed
<1>f. /\ DOMAIN stack' = Threads
      /\ \A u \in Threads \ {t} : stack'[u] = stack[u]
  BY <1>a DEF Proceed
<1>g. Len(s) \in Nat \ {0} /\ MaxDepth \in Nat
  BY <1>b, LocksAssumption
<1> HIDE DEF s, r
<1>1. CASE todo = <<>>
  <2>1. stack'[t] = r /\ \A m \in Mutexes : owner'[m] # t
    BY <1>1, <1>d, <1>e, HasFacts
  <2>2. \A i \in 1..Len(r) : Waits(r[i])
    BY <1>b, <1>c, <1>g
  <2>3. ASSUME r # <<>>
        PROVE  /\ Head(r).todo # <<>> /\ Goes("none", Head(r).todo)
               /\ Head(r).port \in Ports
    <3>1. Head(r) = r[1] /\ Head(r) \in Frames /\ 1 \in 1..Len(r)
      BY <1>c, <2>3
    <3> QED
      BY <2>2, <3>1 DEF Waits, Frames
  <2>4. r # <<>> => Works(t, "none")'
    BY <2>1, <2>3, HasFacts DEF Works, Top
  <2>5. "none" \in Holds
    BY DEF Holds
  <2>6. ThreadOK(t)'
    BY <1>b, <1>c, <1>g, <2>1, <2>2, <2>4, <2>5 DEF ThreadOK
  <2> QED
    BY <1>f, <2>6
<1>2. CASE todo # <<>>
  <2> DEFINE f == [port |-> Head(s).port, todo |-> todo]
  <2>1. f \in Frames /\ f.port = Top(t).port /\ f.todo = todo
    BY <1>c DEF Frames
  <2>2. stack'[t] = <<f>> \o r
    BY <1>2, <1>e
  <2> HIDE DEF f
  <2>3. /\ stack'[t] \in Seq(Frames) /\ stack'[t] # <<>>
        /\ Len(stack'[t]) = Len(s) /\ Head(stack'[t]) = f
        /\ \A i \in 2..Len(s) : stack'[t][i] = s[i]
    <3>1. /\ stack'[t] \in Seq(Frames) /\ stack'[t] # <<>>
          /\ Len(stack'[t]) = Len(r) + 1 /\ Head(stack'[t]) = f
          /\ \A i \in 2..Len(r) + 1 : stack'[t][i] = r[i - 1]
      BY <1>c, <2>1, <2>2, Pushed
    <3> QED
      BY <1>c, <1>g, <3>1
  <2>4. Works(t, c)'
    BY <1>2, <2>1, <2>3 DEF Works, Top
  <2>5. ThreadOK(t)'
    BY <1>b, <2>3, <2>4 DEF ThreadOK
  <2> QED
    BY <1>f, <2>5
<1> QED
  BY <1>1, <1>2

(* A call: a frame on top of none, or of one that waits for its listener.  *)
LEMMA Calls ==
    ASSUME LocksIInv, NEW t \in Threads, NEW p \in Ports, NEW f \in Functions,
           Call(t, p, f), Len(stack[t]) < MaxDepth,
           stack[t] = <<>> \/ At(t, "out")
    PROVE  LocksIInv'
<1>a. /\ stack[t] \in Seq(Frames) /\ Len(stack[t]) <= MaxDepth
      /\ \A i \in 2..Len(stack[t]) : Waits(stack[t][i])
      /\ DOMAIN stack = Threads /\ owner' = owner
  BY DEF LocksIInv, ThreadOK, Call
<1>1. PICK way \in Ways(f) :
         stack' = [stack EXCEPT ![t] = <<[port |-> p, todo |-> way]>> \o @]
  BY DEF Call
<1>2. way \in Seq(Steps) /\ way # <<>> /\ Goes("none", way)
  BY WaysAreWays DEF Way, Goes, Path
<1> DEFINE s == stack[t]
           g == [port |-> p, todo |-> way]
<1>3. g \in Frames /\ g.port = p /\ g.todo = way
  BY <1>2 DEF Frames
<1>4. stack'[t] = <<g>> \o s /\ s \in Seq(Frames) /\ Len(s) < MaxDepth
  BY <1>a, <1>1
<1>5. /\ DOMAIN stack' = Threads
      /\ \A u \in Threads \ {t} : stack'[u] = stack[u]
  BY <1>a, <1>1
<1>6. \A m \in Mutexes : owner[m] # t
  <2>1. CASE s = <<>>
    BY <2>1 DEF LocksIInv, ThreadOK
  <2>2. CASE At(t, "out")
    <3>1. PICK a \in Holds : Works(t, a)
      BY <2>2 DEF At, LocksIInv, ThreadOK
    <3>2. a = "none"
      BY <2>2, <3>1, GoesOn DEF Works, At, NextStep, Does
    <3>3. Top(t).port \in Ports
      <4>1. stack[t] # <<>> /\ stack[t] \in Seq(Frames)
        BY <1>a, <2>2 DEF At
      <4>2. Head(stack[t]) \in Frames
        BY <4>1
      <4> QED
        BY <4>2 DEF Top, Frames
    <3> QED
      BY <3>1, <3>2, <3>3, HasFacts DEF Works
  <2> QED
    BY <2>1, <2>2
<1>7. \A i \in 1..Len(s) : Waits(s[i])
  <2>1. ASSUME s # <<>> PROVE Waits(s[1])
    <3>1. At(t, "out")
      BY <2>1
    <3>2. PICK a \in Holds : Works(t, a)
      BY <2>1 DEF LocksIInv, ThreadOK
    <3>3. a = "none"
      BY <3>1, <3>2, GoesOn DEF Works, At, NextStep, Does
    <3>4. Head(s) = s[1]
      BY <1>4, <2>1
    <3> QED
      BY <3>1, <3>2, <3>3, <3>4 DEF Works, Waits, At, NextStep, Top
  <2>2. Len(s) \in Nat /\ (Len(s) > 0 => s # <<>>)
    BY <1>4
  <2> QED
    BY <1>a, <2>1, <2>2
<1> HIDE DEF s, g
<1>8. /\ stack'[t] \in Seq(Frames) /\ stack'[t] # <<>>
      /\ Len(stack'[t]) = Len(s) + 1 /\ Head(stack'[t]) = g
      /\ \A i \in 2..Len(s) + 1 : stack'[t][i] = s[i - 1]
  BY <1>3, <1>4, Pushed
<1>9. Works(t, "none")'
  BY <1>2, <1>3, <1>6, <1>8, <1>a, HasFacts DEF Works, Top
<1>10. ThreadOK(t)'
  <2>1. /\ Len(s) \in Nat /\ MaxDepth \in Nat /\ "none" \in Holds
    BY <1>4, LocksAssumption DEF Holds
  <2>2. Len(stack'[t]) <= MaxDepth
    BY <1>4, <1>8, <2>1
  <2>3. \A i \in 2..Len(stack'[t]) : Waits(stack'[t][i])
    BY <1>7, <1>8, <2>1
  <2> QED
    BY <1>8, <1>9, <2>1, <2>2, <2>3 DEF ThreadOK
<1>11. ASSUME NEW u \in Threads \ {t} PROVE ThreadOK(u)'
  BY <1>5, <1>a, OthersKept
<1> QED
  BY <1>5, <1>10, <1>11, <1>a DEF LocksIInv

(* A step of the innermost call, whatever it is: what the call holds next. *)
LEMMA Stepping ==
    ASSUME LocksIInv, NEW t \in Threads, stack[t] # <<>>
    PROVE  \E a \in Holds, c \in Holds :
              /\ \A m \in Mutexes : owner[m] = t <=> m \in Has(a, Top(t).port)
              /\ Does(a, NextStep(t), c)
              /\ Goes(c, Rest(t))
              /\ Rest(t) = <<>> => c \in {"none", "end"}
              /\ NextStep(t).op = "run" => Rest(t) = <<>>
              /\ NextStep(t) \in Steps /\ Rest(t) \in Seq(Steps)
              /\ Top(t).port \in Ports
              /\ Goes(a, Top(t).todo) /\ Top(t).todo \in Seq(Steps)
<1>1. PICK a \in Holds : Works(t, a)
  BY DEF LocksIInv, ThreadOK
<1>2. PICK c \in Holds :
         /\ Does(a, NextStep(t), c)
         /\ Goes(c, Rest(t))
         /\ Rest(t) = <<>> => c \in {"none", "end"}
         /\ NextStep(t).op = "run" => Rest(t) = <<>>
         /\ NextStep(t) \in Steps /\ Rest(t) \in Seq(Steps)
         /\ Top(t).todo \in Seq(Steps)
  BY <1>1, GoesOn DEF Works, NextStep, Rest
<1>3. Top(t).port \in Ports
  <2>1. stack[t] \in Seq(Frames)
    BY DEF LocksIInv, ThreadOK
  <2>2. Head(stack[t]) \in Frames
    BY <2>1
  <2> QED
    BY <2>2 DEF Top, Frames
<1> QED
  BY <1>1, <1>2, <1>3 DEF Works

(* A mutex that is taken is added to what its thread holds, one that is    *)
(* given back is taken off, and no other thread holds it before or after.  *)
LEMMA LockStep ==
    ASSUME LocksIInv, NEW t \in Threads, Acquire(t) \/ Release(t)
    PROVE  LocksIInv'
<1>1. PICK a \in Holds, c \in Holds :
              /\ \A m \in Mutexes : owner[m] = t <=> m \in Has(a, Top(t).port)
              /\ Does(a, NextStep(t), c)
              /\ Goes(c, Rest(t))
              /\ Rest(t) = <<>> => c \in {"none", "end"}
              /\ NextStep(t) \in Steps /\ Rest(t) \in Seq(Steps)
              /\ Top(t).port \in Ports
  BY Stepping DEF Acquire, Release, At
<1> DEFINE p == Top(t).port
           w == Mutex(Top(t), NextStep(t).on)
<1>2. owner \in [Mutexes -> Threads \union {NoOwner}] /\ NoOwner \notin Threads
  BY LocksAssumption DEF LocksIInv
<1>3. stack[t] # <<>> /\ Proceed(t, Rest(t))
  BY DEF Acquire, Release, At
<1>4. CASE Acquire(t)
  <2>1. /\ NextStep(t).op = "lock" /\ owner[w] = NoOwner
        /\ owner' = [owner EXCEPT ![w] = t]
    BY <1>4 DEF Acquire, At
  <2>2. w \in Mutexes /\ Has(c, p) = Has(a, p) \union {w}
    BY <1>1, <2>1, HasFacts DEF Does, Mutex, Names, Mutexes
  <2>3. /\ \A m \in Mutexes : owner'[m] = t <=> m \in Has(c, p)
        /\ owner' \in [Mutexes -> Threads \union {NoOwner}]
        /\ \A u \in Threads \ {t}, m \in Mutexes :
              owner'[m] = u <=> owner[m] = u
    BY <1>1, <1>2, <2>1, <2>2
  <2> QED
    BY <1>1, <1>3, <2>3, Proceeds, OthersKept DEF LocksIInv
<1>5. CASE Release(t)
  <2>1. /\ NextStep(t).op = "unlock"
        /\ owner' = [owner EXCEPT ![w] = NoOwner]
    BY <1>5 DEF Release, At
  <2>2. w \in Mutexes /\ w \in Has(a, p) /\ Has(c, p) = Has(a, p) \ {w}
    BY <1>1, <2>1, HasFacts DEF Does, Mutex, Names, Mutexes
  <2>3. /\ \A m \in Mutexes : owner'[m] = t <=> m \in Has(c, p)
        /\ owner' \in [Mutexes -> Threads \union {NoOwner}]
        /\ \A u \in Threads \ {t}, m \in Mutexes :
              owner'[m] = u <=> owner[m] = u
    BY <1>1, <1>2, <2>1, <2>2
  <2> QED
    BY <1>1, <1>3, <2>3, Proceeds, OthersKept DEF LocksIInv
<1> QED
  BY <1>4, <1>5

(* Nothing is held while the listeners are called, nor where a function    *)
(* goes on with another.                                                   *)
LEMMA FreeStep ==
    ASSUME LocksIInv, NEW t \in Threads, ListenersReturn(t) \/ Branch(t)
    PROVE  LocksIInv'
<1>1. PICK a \in Holds, c \in Holds :
              /\ \A m \in Mutexes : owner[m] = t <=> m \in Has(a, Top(t).port)
              /\ Does(a, NextStep(t), c)
              /\ Goes(c, Rest(t))
              /\ Rest(t) = <<>> => c \in {"none", "end"}
              /\ NextStep(t).op = "run" => Rest(t) = <<>>
              /\ NextStep(t) \in Steps /\ Rest(t) \in Seq(Steps)
              /\ Top(t).port \in Ports
  BY Stepping DEF ListenersReturn, Branch, At
<1>2. stack[t] # <<>> /\ owner' = owner
  BY DEF ListenersReturn, Branch, At
<1>3. CASE ListenersReturn(t)
  <2>1. a = "none" /\ c = "none" /\ Proceed(t, Rest(t))
    BY <1>1, <1>3 DEF ListenersReturn, At, Does
  <2>2. \A m \in Mutexes : owner'[m] = t <=> m \in Has(c, Top(t).port)
    BY <1>1, <1>2, <2>1
  <2> QED
    BY <1>1, <1>2, <2>1, <2>2, Proceeds, OthersKept DEF LocksIInv
<1>4. CASE Branch(t)
  <2>1. /\ a = "none" /\ Rest(t) = <<>>
        /\ NextStep(t).on \in Functions \union {"tail"}
    BY <1>1, <1>4 DEF Branch, At, Does
  <2>2. PICK way \in Ways(NextStep(t).on) : Proceed(t, way \o Rest(t))
    BY <1>4 DEF Branch
  <2>3. way \in Seq(Steps) /\ way # <<>> /\ Goes("none", way)
    BY <2>1, WaysAreWays DEF Way, Goes, Path
  <2>4. way \o Rest(t) = way
    BY <2>1, <2>3
  <2>5. "none" \in Holds
    BY DEF Holds
  <2>6. \A m \in Mutexes : owner'[m] = t <=> m \in Has("none", Top(t).port)
    BY <1>1, <1>2, <2>1
  <2>7. Proceed(t, way)
    BY <2>2, <2>4
  <2> QED
    BY <1>2, <2>3, <2>5, <2>6, <2>7, Proceeds, OthersKept DEF LocksIInv
<1> QED
  BY <1>3, <1>4

(* Every mutex is free and every thread is outside the service.            *)
LEMMA LocksIInvInit == LocksInit => LocksIInv
BY LocksAssumption DEF LocksInit, LocksIInv, ThreadOK

(* The invariant is inductive.                                             *)
LEMMA LocksIInvStep == LocksIInv /\ [LocksNext]_lockVars => LocksIInv'
<1> SUFFICES ASSUME LocksIInv, [LocksNext]_lockVars PROVE LocksIInv'
  OBVIOUS
<1>1. ASSUME NEW t \in Threads, Enter(t)
      PROVE  LocksIInv'
  <2>1. Len(stack[t]) < MaxDepth
    BY <1>1, LocksAssumption DEF Enter
  <2> QED
    BY <1>1, <2>1, Calls DEF Enter
<1>2. ASSUME NEW t \in Threads, Reenter(t)
      PROVE  LocksIInv'
  BY <1>2, LocksAssumption, Calls DEF Reenter
<1>3. CASE UNCHANGED lockVars
  BY <1>3 DEF lockVars, LocksIInv, ThreadOK, Works, Top
<1> QED
  BY <1>1, <1>2, <1>3, LockStep, FreeStep DEF LocksNext

----------------------------------------------------------------------------
(* The theorems.                                                           *)

(* The inductive invariant holds, whatever the ports, threads, listeners   *)
(* and nesting.                                                            *)
THEOREM LocksInvariant == LocksSpec => []LocksIInv
BY LocksIInvInit, LocksIInvStep, PTL DEF LocksSpec

(* No thread calls out of the service with a mutex held, in this call or   *)
(* in one around it.                                                       *)
THEOREM CallOutsHoldNothing == LocksSpec => []CallOutsUnlocked
<1>1. LocksIInv => CallOutsUnlocked
  <2> SUFFICES ASSUME LocksIInv, NEW t \in Threads, At(t, "out"),
                      NEW m \in Mutexes
               PROVE  owner[m] # t
    BY DEF CallOutsUnlocked
  <2>1. PICK a \in Holds, c \in Holds :
           /\ \A n \in Mutexes : owner[n] = t <=> n \in Has(a, Top(t).port)
           /\ Does(a, NextStep(t), c)
           /\ Top(t).port \in Ports
    BY Stepping DEF At
  <2>2. a = "none"
    BY <2>1 DEF At, Does
  <2> QED
    BY <2>1, <2>2, HasFacts
<1> QED
  BY <1>1, LocksInvariant, PTL

(* A thread that waits for a mutex holds a port's at most, and then it     *)
(* waits for the slots.                                                    *)
LEMMA WhoWaits ==
    ASSUME LocksIInv, NEW t \in Threads, At(t, "lock")
    PROVE  \/ \A m \in Mutexes : owner[m] # t
           \/ /\ Wanted(t) = "slots"
              /\ owner["slots"] # t
<1>1. PICK a \in Holds, c \in Holds :
         /\ \A m \in Mutexes : owner[m] = t <=> m \in Has(a, Top(t).port)
         /\ Does(a, NextStep(t), c)
         /\ Top(t).port \in Ports
  BY Stepping DEF At
<1>2. NextStep(t).op = "lock"
  BY DEF At
<1>3. CASE a = "none"
  BY <1>1, <1>3, HasFacts
<1>4. CASE a = "port" /\ NextStep(t).on = "slots"
  BY <1>1, <1>4, HasFacts DEF Wanted, Mutex, Mutexes
<1> QED
  BY <1>1, <1>2, <1>3, <1>4 DEF Does

(* No threads wait for each other in a circle, whatever they call and      *)
(* however deep the listeners nest.                                        *)
THEOREM NoDeadlock == LocksSpec => []DeadlockFree
<1>1. LocksIInv => DeadlockFree
  <2> SUFFICES ASSUME LocksIInv, NEW S \in (SUBSET Threads) \ {{}},
                      \A u \in S : At(u, "lock") /\ owner[Wanted(u)] \in S
               PROVE  FALSE
    BY Zenon DEF DeadlockFree
  <2>0. PICK t \in S : TRUE
    OBVIOUS
  <2>1. \A u \in S : Wanted(u) \in Mutexes
    <3> TAKE u \in S
    <3>1. PICK a \in Holds, c \in Holds :
             /\ Does(a, NextStep(u), c)
             /\ Top(u).port \in Ports
      BY Stepping DEF At
    <3> QED
      BY <3>1 DEF At, Does, Wanted, Mutex, Mutexes, Names
  <2>2. \A u \in S : Wanted(u) = "slots" \/ \A m \in Mutexes : owner[m] # u
    BY WhoWaits
  <2> DEFINE u == owner[Wanted(t)]
             v == owner[Wanted(u)]
  <2>3. u \in S /\ Wanted(u) = "slots"
    BY <2>0, <2>1, <2>2
  <2>4. v \in S /\ v = owner["slots"] /\ "slots" \in Mutexes
    BY <2>3 DEF Mutexes
  <2> QED
    BY <2>4, WhoWaits
<1> QED
  BY <1>1, LocksInvariant, PTL

(* The mutexes that a thread still gives back, in whichever of its calls,  *)
(* are those it holds: none is kept by an early return, none is given back *)
(* that was not taken.                                                     *)
LEMMA OwesWhatItHolds ==
    ASSUME LocksIInv, NEW t \in Threads
    PROVE  Owes(t) = {m \in Mutexes : owner[m] = t}
<1> DEFINE s == stack[t]
           Gives(i, m) ==
              \E j \in DOMAIN s[i].todo :
                 /\ s[i].todo[j].op = "unlock"
                 /\ Mutex(s[i], s[i].todo[j].on) = m
                 /\ \A k \in 1..j - 1 : s[i].todo[k] # Lock(s[i].todo[j].on)
<1>1. /\ s \in Seq(Frames)
      /\ \A i \in 2..Len(s) : Waits(s[i])
      /\ s = <<>> => \A m \in Mutexes : owner[m] # t
      /\ s # <<>> => \E a \in Holds : Works(t, a)
  BY DEF LocksIInv, ThreadOK
<1>2. DOMAIN s = 1..Len(s) /\ Len(s) \in Nat
  BY <1>1
<1>3. \A m : m \in Owes(t) <=> m \in Mutexes /\ \E i \in DOMAIN s : Gives(i, m)
  BY DEF Owes
<1>4. ASSUME NEW i \in DOMAIN s, NEW a \in Holds, Goes(a, s[i].todo)
      PROVE  \A m : Gives(i, m) <=> m \in Has(a, s[i].port)
  <2> DEFINE q == s[i].todo
  <2>1. \A x : x \in Held(a) <=>
                  \E j \in DOMAIN q : /\ q[j].op = "unlock" /\ q[j].on = x
                                      /\ \A k \in 1..j - 1 : q[k] # Lock(x)
    BY <1>4, OwedNames
  <2>2. ASSUME NEW m, Gives(i, m) PROVE m \in Has(a, s[i].port)
    <3>1. PICK j \in DOMAIN q :
             /\ q[j].op = "unlock" /\ Mutex(s[i], q[j].on) = m
             /\ \A k \in 1..j - 1 : q[k] # Lock(q[j].on)
      BY <2>2
    <3>2. q[j].on \in Held(a)
      BY <2>1, <3>1
    <3> QED
      BY <3>1, <3>2 DEF Has, Mutex
  <2>3. ASSUME NEW m \in Has(a, s[i].port) PROVE Gives(i, m)
    <3>1. PICK x \in Held(a) : m = IF x = "port" THEN s[i].port ELSE x
      BY DEF Has
    <3>2. PICK j \in DOMAIN q : /\ q[j].op = "unlock" /\ q[j].on = x
                                /\ \A k \in 1..j - 1 : q[k] # Lock(x)
      BY <2>1, <3>1
    <3> QED
      BY <3>1, <3>2 DEF Mutex
  <2> QED
    BY <2>2, <2>3
<1>5. ASSUME NEW i \in DOMAIN s, i # 1 PROVE \A m : ~Gives(i, m)
  <2>1. Waits(s[i]) /\ "none" \in Holds
    BY <1>1, <1>2, <1>5 DEF Holds
  <2>2. \A m : Gives(i, m) <=> m \in Has("none", s[i].port)
    BY <1>4, <2>1 DEF Waits
  <2>3. s[i] \in Frames
    BY <1>1
  <2>4. s[i].port \in Ports
    BY <2>3 DEF Frames
  <2> QED
    BY <2>2, <2>4, HasFacts
<1> HIDE DEF Gives
<1>6. CASE s = <<>>
  BY <1>1, <1>2, <1>3, <1>6
<1>7. CASE s # <<>>
  <2>1. PICK a \in Holds : Works(t, a)
    BY <1>1, <1>7
  <2>2. 1 \in DOMAIN s /\ Top(t) = s[1]
    BY <1>1, <1>2, <1>7 DEF Top
  <2>3. \A m : Gives(1, m) <=> m \in Has(a, s[1].port)
    BY <1>4, <2>1, <2>2 DEF Works
  <2>4. \A m \in Mutexes : owner[m] = t <=> m \in Has(a, s[1].port)
    BY <2>1, <2>2 DEF Works
  <2> HIDE DEF s
  <2>5. \A m : m \in Owes(t) <=> m \in Mutexes /\ Gives(1, m)
    BY <1>3, <1>5, <2>2
  <2> QED
    BY <2>3, <2>4, <2>5
<1> QED
  BY <1>6, <1>7

(* The types, and every mutex is held by the thread that will give it back. *)
THEOREM LocksTypeCorrect == LocksSpec => []LocksTypeOK
<1>1. LocksIInv => LocksTypeOK
  <2> SUFFICES ASSUME LocksIInv PROVE LocksTypeOK
    OBVIOUS
  <2>1. owner \in [Mutexes -> Threads \union {NoOwner}]
    BY DEF LocksIInv
  <2>2. ASSUME NEW t \in Threads
        PROVE  /\ Len(stack[t]) <= MaxDepth
               /\ \A i \in DOMAIN stack[t] :
                     stack[t][i].port \in Ports /\ stack[t][i].todo # <<>>
               /\ Owes(t) = {m \in Mutexes : owner[m] = t}
    <3>1. /\ stack[t] \in Seq(Frames) /\ Len(stack[t]) <= MaxDepth
          /\ \A i \in 2..Len(stack[t]) : Waits(stack[t][i])
          /\ stack[t] # <<>> => \E a \in Holds : Works(t, a)
      BY DEF LocksIInv, ThreadOK
    <3>2. ASSUME NEW i \in DOMAIN stack[t]
          PROVE  stack[t][i].port \in Ports /\ stack[t][i].todo # <<>>
      <4>1. stack[t][i] \in Frames /\ i \in 1..Len(stack[t])
        BY <3>1
      <4>2. stack[t][i].port \in Ports
        BY <4>1 DEF Frames
      <4>3. CASE i = 1
        <5>1. stack[t] # <<>> /\ Top(t) = stack[t][1]
          BY <3>1, <4>1, <4>3 DEF Top
        <5> QED
          BY <3>1, <4>2, <4>3, <5>1 DEF Works
      <4>4. CASE i # 1
        <5>1. Waits(stack[t][i])
          BY <3>1, <4>1, <4>4
        <5> QED
          BY <4>2, <5>1 DEF Waits
      <4> QED
        BY <4>3, <4>4
    <3> QED
      BY <3>1, <3>2, OwesWhatItHolds
  <2> QED
    BY <2>1, <2>2 DEF LocksTypeOK
<1> QED
  BY <1>1, LocksInvariant, PTL
=============================================================================
