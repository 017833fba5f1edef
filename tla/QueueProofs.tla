---------------------------- MODULE QueueProofs ----------------------------
(***************************************************************************)
(* What Append and Tail do to the number of occurrences in a queue, and to *)
(* the timers whose commands are in it.                                    *)
(***************************************************************************)
EXTENDS Counting, TimerCommands, FiniteSetTheorems, FunctionTheorems, SequenceTheorems,
        WellFoundedInduction, TLAPS

\* The first m numbers are m.
LEMMA IntervalCardinality ==
  ASSUME NEW m \in Nat
  PROVE  IsFiniteSet(1..m) /\ Cardinality(1..m) = m
BY FS_Interval

\* Two different places are two.
LEMMA PairCardinality ==
  ASSUME NEW i, NEW j, i # j
  PROVE  Cardinality({i, j}) = 2
<1>1. IsFiniteSet({i}) /\ Cardinality({i}) = 1
  BY FS_Singleton
<1>2. j \notin {i} /\ {i, j} = {i} \cup {j}
  OBVIOUS
<1>3. Cardinality({i} \cup {j}) = Cardinality({i}) + 1
  BY <1>1, <1>2, FS_AddElement
<1>. QED
  BY <1>1, <1>2, <1>3

\* The places of an element are finitely many, so a count is a number.
LEMMA CountType ==
  ASSUME NEW S, NEW q \in Seq(S), NEW x
  PROVE  /\ IsFiniteSet({i \in DOMAIN q : q[i] = x})
         /\ Count(q, x) \in Nat
<1>1. DOMAIN q = 1..Len(q) /\ Len(q) \in Nat
  OBVIOUS
<1>2. IsFiniteSet(1..Len(q))
  BY <1>1, FS_Interval
<1>3. {i \in DOMAIN q : q[i] = x} \in SUBSET (1..Len(q))
  BY <1>1
<1>4. IsFiniteSet({i \in DOMAIN q : q[i] = x})
  BY <1>2, <1>3, FS_Subset
<1>. QED
  BY <1>4, FS_CardinalityType DEF Count

\* An element that is somewhere in the queue is counted.
LEMMA CountPositive ==
  ASSUME NEW S, NEW q \in Seq(S), NEW i \in DOMAIN q
  PROVE  Count(q, q[i]) > 0
<1>. DEFINE P == {j \in DOMAIN q : q[j] = q[i]}
<1>1. IsFiniteSet(P) /\ Cardinality(P) \in Nat
  BY CountType DEF Count
<1>2. P # {}
  OBVIOUS
<1>3. Cardinality(P) # 0
  BY <1>1, <1>2, FS_EmptySet
<1>. QED
  BY <1>1, <1>3 DEF Count

\* An empty queue holds nothing.
LEMMA CountEmpty ==
  ASSUME NEW x
  PROVE  Count(<<>>, x) = 0
<1>1. {i \in DOMAIN <<>> : <<>>[i] = x} = {}
  OBVIOUS
<1>. QED
  BY <1>1, FS_EmptySet DEF Count

\* Append adds one occurrence of its element.
LEMMA CountAppend ==
  ASSUME NEW S, NEW q \in Seq(S), NEW y \in S, NEW x
  PROVE  Count(Append(q, y), x) = Count(q, x) + One(y = x)
<1>. DEFINE a == Append(q, y)
            n == Len(q) + 1
            P == {i \in DOMAIN q : q[i] = x}
            R == {i \in DOMAIN a : a[i] = x}
<1>1. /\ Len(q) \in Nat /\ DOMAIN q = 1..Len(q) /\ DOMAIN a = 1..n
      /\ a[n] = y /\ \A i \in 1..Len(q) : a[i] = q[i]
  OBVIOUS
<1>2. IsFiniteSet(P) /\ Cardinality(P) \in Nat
  BY CountType DEF Count
<1>3. Count(q, x) = Cardinality(P) /\ Count(a, x) = Cardinality(R)
  BY DEF Count
<1>4. CASE y = x
  <2>1. R = P \cup {n} /\ n \notin P
    BY <1>1, <1>4
  <2>2. Cardinality(R) = Cardinality(P) + 1
    BY <1>2, <2>1, FS_AddElement
  <2>3. Count(a, x) = Count(q, x) + 1
    BY <1>3, <2>2
  <2>. QED
    BY <1>4, <2>3 DEF One
<1>5. CASE y # x
  <2>1. R = P
    BY <1>1, <1>5
  <2>2. Count(a, x) = Count(q, x) /\ Count(q, x) \in Nat
    BY <1>2, <1>3, <2>1
  <2>. QED
    BY <1>5, <2>2 DEF One
<1>. QED
  BY <1>4, <1>5

\* Tail removes one occurrence of the head.
LEMMA CountTail ==
  ASSUME NEW S, NEW q \in Seq(S), q # <<>>, NEW x
  PROVE  Count(q, x) = Count(Tail(q), x) + One(Head(q) = x)
<1>. DEFINE t == Tail(q)
            P == {i \in DOMAIN t : t[i] = x}
            R == {i \in DOMAIN q : q[i] = x}
            f == [i \in P |-> i + 1]
<1>1. /\ Len(q) \in Nat /\ Len(q) > 0 /\ DOMAIN q = 1..Len(q)
      /\ t \in Seq(S) /\ Len(t) = Len(q) - 1 /\ DOMAIN t = 1..(Len(q) - 1)
      /\ \A i \in 1..(Len(q) - 1) : t[i] = q[i+1]
      /\ Head(q) = q[1]
  OBVIOUS
<1>2. /\ IsFiniteSet(P) /\ Cardinality(P) \in Nat
      /\ IsFiniteSet(R) /\ Cardinality(R) \in Nat
  BY <1>1, CountType DEF Count
<1>3. f \in Bijection(P, R \ {1})
  <2>1. f \in [P -> R \ {1}]
    BY <1>1
  <2>2. \A i, j \in P : f[i] = f[j] => i = j
    BY <1>1
  <2>3. \A k \in R \ {1} : \E i \in P : f[i] = k
    <3>. SUFFICES ASSUME NEW k \in R \ {1} PROVE \E i \in P : f[i] = k
      OBVIOUS
    <3>1. k - 1 \in P /\ k = (k - 1) + 1
      BY <1>1
    <3>. QED
      BY <3>1
  <2>. QED
    BY <2>1, <2>2, <2>3 DEF Bijection, Injection, Surjection, IsInjective
<1>4. ExistsBijection(P, R \ {1})
  BY <1>3 DEF ExistsBijection
<1>5. Cardinality(R \ {1}) = Cardinality(P)
  BY <1>2, <1>4, FS_Bijection
<1>6. Count(t, x) = Cardinality(P) /\ Count(q, x) = Cardinality(R)
  BY DEF Count
<1>. HIDE DEF P, R, f
<1>7. CASE q[1] = x
  <2>1. 1 \in R
    BY <1>1, <1>7 DEF R
  <2>2. Cardinality(R \ {1}) = Cardinality(R) - 1
    BY <1>2, <2>1, FS_RemoveElement
  <2>3. Count(q, x) = Count(t, x) + 1
    BY <1>2, <1>5, <1>6, <2>2
  <2>. QED
    BY <1>1, <1>7, <2>3 DEF One
<1>8. CASE q[1] # x
  <2>1. R \ {1} = R
    BY <1>1, <1>8 DEF R
  <2>2. Count(q, x) = Count(t, x) /\ Count(t, x) \in Nat
    BY <1>2, <1>5, <1>6, <2>1
  <2>. QED
    BY <1>1, <1>8, <2>2 DEF One
<1>. QED
  BY <1>7, <1>8

\* A queue of two kinds of handles is as long as both counts together.
LEMMA CountTwo ==
  ASSUME NEW a, NEW b, a # b, NEW q \in Seq({a, b})
  PROVE  Len(q) = Count(q, a) + Count(q, b)
<1>. DEFINE A == {i \in DOMAIN q : q[i] = a}
            B == {i \in DOMAIN q : q[i] = b}
<1>1. Len(q) \in Nat /\ DOMAIN q = 1..Len(q) /\ \A i \in 1..Len(q) : q[i] \in {a, b}
  OBVIOUS
<1>2. /\ IsFiniteSet(A) /\ IsFiniteSet(B)
      /\ Cardinality(A) \in Nat /\ Cardinality(B) \in Nat
  BY CountType DEF Count
<1>3. A \cup B = 1..Len(q) /\ A \cap B = {}
  BY <1>1
<1>4. Cardinality(1..Len(q)) = Cardinality(A) + Cardinality(B) - Cardinality({})
  BY <1>2, <1>3, FS_Union
<1>5. Cardinality(1..Len(q)) = Len(q)
  BY <1>1, FS_Interval
<1>. QED
  BY <1>1, <1>2, <1>4, <1>5, FS_EmptySet DEF Count

\* A queue of buffers 1..n that lacks one of them and repeats none has room.
LEMMA CountRoom ==
  ASSUME NEW n \in Nat, NEW q \in Seq(1..n), NEW b \in 1..n,
         Count(q, b) = 0,
         \A x \in 1..n : Count(q, x) <= 1
  PROVE  Len(q) < n
<1>. DEFINE T == (1..n) \ {b}
<1>1. /\ Len(q) \in Nat /\ DOMAIN q = 1..Len(q)
      /\ \A i \in 1..Len(q) : q[i] \in 1..n
      /\ q = [i \in 1..Len(q) |-> q[i]]
  OBVIOUS
<1>2. \A i \in 1..Len(q) : q[i] # b
  BY <1>1, CountPositive
<1>3. q \in [1..Len(q) -> T]
  BY <1>1, <1>2
<1>4. IsFiniteSet(T) /\ Cardinality(T) = n - 1
  <2>1. IsFiniteSet(1..n) /\ Cardinality(1..n) = n
    BY FS_Interval
  <2>. QED
    BY <2>1, FS_RemoveElement
<1>. HIDE DEF T
<1>5. IsFiniteSet(1..Len(q)) /\ Cardinality(1..Len(q)) = Len(q)
  BY <1>1, IntervalCardinality
<1>6. SUFFICES ASSUME Cardinality(T) < Cardinality(1..Len(q)) PROVE FALSE
  BY <1>1, <1>4, <1>5
<1>7. PICK i, j \in 1..Len(q) : i # j /\ q[i] = q[j]
  <2>. HIDE DEF T
  <2>. DEFINE D == 1..Len(q)
  <2>1. IsFiniteSet(D) /\ Cardinality(T) < Cardinality(D) /\ q \in [D -> T]
    BY <1>3, <1>5, <1>6
  <2>. HIDE DEF D
  <2>2. \E x, y \in D : x # y /\ q[x] = q[y]
    BY <1>4, <2>1, FS_PigeonHole
  <2>. QED
    BY <2>2 DEF D
<1>8. {i, j} \in SUBSET {k \in DOMAIN q : q[k] = q[i]}
  BY <1>1, <1>7
<1>9. IsFiniteSet({k \in DOMAIN q : q[k] = q[i]}) /\ Count(q, q[i]) \in Nat
  BY CountType
<1>10. Cardinality({i, j}) <= Count(q, q[i])
  BY <1>8, <1>9, FS_Subset DEF Count
<1>11. Cardinality({i, j}) = 2
  BY <1>7, PairCardinality
<1>. QED
  BY <1>1, <1>7, <1>9, <1>10, <1>11

-----------------------------------------------------------------------------
(* Commands for the timers.                                                *)

\* A command that is sent is the last one for its timer.
LEMMA SentRuns ==
  ASSUME NEW S, NEW commands \in Seq(S), NEW command \in S, NEW timers
  PROVE  RunsAfter(Append(commands, command), timers, command.timer) <=> command.expiry # Off
<1>. DEFINE sent == Append(commands, command)
            n == Len(commands) + 1
<1>1. n \in DOMAIN sent /\ sent[n] = command /\ DOMAIN sent = 1..n /\ n \in Nat
  BY AppendProperties
<1>. HIDE DEF sent, n
<1>2. n \in Concerning(command.timer, sent)
  BY <1>1 DEF Concerning
<1>3. \A i \in Concerning(command.timer, sent) : i \in Int /\ i <= n
  BY <1>1 DEF Concerning
<1>4. \A last \in Concerning(command.timer, sent) :
        (\A i \in Concerning(command.timer, sent) : i <= last) => last = n
  BY <1>1, <1>2, <1>3
<1>5. RunsAfter(sent, timers, command.timer) <=> command.expiry # Off
  BY <1>1, <1>2, <1>3, <1>4 DEF RunsAfter
<1>. QED  BY <1>5 DEF sent

\* It does not concern the other timers.
LEMMA SentToOther ==
  ASSUME NEW S, NEW commands \in Seq(S), NEW command \in S, NEW timers,
         NEW timer, timer # command.timer
  PROVE  RunsAfter(Append(commands, command), timers, timer) <=> RunsAfter(commands, timers, timer)
<1>. DEFINE sent == Append(commands, command)
<1>1. /\ DOMAIN commands = 1..Len(commands) /\ DOMAIN sent = 1..(Len(commands) + 1)
      /\ sent[Len(commands) + 1] = command /\ Len(commands) \in Nat
      /\ \A i \in 1..Len(commands) : sent[i] = commands[i]
  BY AppendProperties
<1>. HIDE DEF sent
<1>2. Concerning(timer, sent) = Concerning(timer, commands)
  BY <1>1 DEF Concerning
<1>3. \A i \in Concerning(timer, commands) : sent[i] = commands[i]
  BY <1>1 DEF Concerning
<1>4. RunsAfter(sent, timers, timer) <=> RunsAfter(commands, timers, timer)
  BY <1>2, <1>3 DEF RunsAfter
<1>. QED  BY <1>4 DEF sent

\* The places after the first one, in the rest of a queue.
LEMMA RestOfQueue ==
  ASSUME NEW S, NEW commands \in Seq(S), commands # <<>>, NEW timer
  PROVE  /\ \A i \in Concerning(timer, Tail(commands)) :
              /\ i \in Nat \ {0} /\ i + 1 \in Concerning(timer, commands)
              /\ Tail(commands)[i] = commands[i + 1]
         /\ \A i \in Concerning(timer, commands) :
              /\ i \in Nat \ {0}
              /\ i # 1 => i - 1 \in Concerning(timer, Tail(commands))
         /\ 1 \in Concerning(timer, commands) <=> Head(commands).timer = timer
<1>1. /\ DOMAIN commands = 1..Len(commands) /\ Len(commands) \in Nat \ {0}
      /\ DOMAIN Tail(commands) = 1..(Len(commands) - 1)
      /\ \A i \in 1..(Len(commands) - 1) : Tail(commands)[i] = commands[i + 1]
      /\ Head(commands) = commands[1]
  BY HeadTailProperties, EmptySeq
<1>. QED  BY <1>1 DEF Concerning

\* Executing a command makes no difference to what comes of its timer.
LEMMA ExecutedRuns ==
  ASSUME NEW S, NEW commands \in Seq(S), commands # <<>>,
         NEW T, NEW timers \in [T -> Nat], Head(commands).timer \in T
  PROVE  LET command == Head(commands) IN
           RunsAfter(Tail(commands), [timers EXCEPT ![command.timer] = command.expiry], command.timer)
             <=> RunsAfter(commands, timers, command.timer)
<1>. DEFINE command == Head(commands)
            rest == Tail(commands)
            mine == Concerning(command.timer, commands)
            others == Concerning(command.timer, rest)
            set == [timers EXCEPT ![command.timer] = command.expiry]
<1>. SUFFICES RunsAfter(rest, set, command.timer) <=> RunsAfter(commands, timers, command.timer)
  OBVIOUS
<1>1. /\ \A i \in others : i \in Nat \ {0} /\ i + 1 \in mine /\ rest[i] = commands[i + 1]
      /\ \A i \in mine : i \in Nat \ {0} /\ (i # 1 => i - 1 \in others)
      /\ 1 \in mine
  BY RestOfQueue
<1>2. set[command.timer] = command.expiry
  OBVIOUS
<1>3. commands[1] = command
  BY HeadTailProperties
<1>4. /\ others = {} => (RunsAfter(rest, set, command.timer) <=> set[command.timer] # Off)
      /\ others # {} => (RunsAfter(rest, set, command.timer) <=>
           \E last \in others : (\A i \in others : i <= last) /\ rest[last].expiry # Off)
      /\ mine # {} => (RunsAfter(commands, timers, command.timer) <=>
           \E last \in mine : (\A i \in mine : i <= last) /\ commands[last].expiry # Off)
  BY DEF RunsAfter
<1>. HIDE DEF command, rest, mine, others, set
<1>5. CASE others = {}
  <2>1. mine = {1}
    BY <1>1, <1>5
  <2>2. RunsAfter(commands, timers, command.timer) <=> command.expiry # Off
    BY <1>3, <1>4, <2>1
  <2>3. RunsAfter(rest, set, command.timer) <=> command.expiry # Off
    BY <1>2, <1>4, <1>5
  <2>. QED  BY <2>2, <2>3
<1>6. CASE others # {}
  <2>1. ASSUME NEW last \in others, \A i \in others : i <= last
        PROVE  \A i \in mine : i <= last + 1
    BY <1>1, <2>1
  <2>2. ASSUME NEW last \in mine, \A i \in mine : i <= last
        PROVE  last # 1 /\ \A i \in others : i <= last - 1
    BY <1>1, <1>6, <2>2
  <2>3. ASSUME NEW last \in others, \A i \in others : i <= last, rest[last].expiry # Off
        PROVE  \E m \in mine : (\A i \in mine : i <= m) /\ commands[m].expiry # Off
    BY <1>1, <2>1, <2>3
  <2>4. ASSUME NEW last \in mine, \A i \in mine : i <= last, commands[last].expiry # Off
        PROVE  \E m \in others : (\A i \in others : i <= m) /\ rest[m].expiry # Off
    <3>1. last - 1 \in others /\ (last - 1) + 1 = last
      BY <1>1, <2>2, <2>4
    <3>2. rest[last - 1] = commands[last]
      BY <1>1, <3>1
    <3>3. \A i \in others : i <= last - 1
      BY <2>2, <2>4
    <3>4. rest[last - 1].expiry # Off
      BY <2>4, <3>2
    <3>. QED  BY <3>1, <3>3, <3>4
  <2>. QED  BY <1>1, <1>4, <1>6, <2>3, <2>4
<1>. QED  BY <1>5, <1>6

\* Nor to the other timers, whatever comes of its own.
LEMMA ExecutedOther ==
  ASSUME NEW S, NEW commands \in Seq(S), commands # <<>>,
         NEW timers, NEW set, NEW timer, timer # Head(commands).timer, set[timer] = timers[timer]
  PROVE  RunsAfter(Tail(commands), set, timer) <=> RunsAfter(commands, timers, timer)
<1>. DEFINE rest == Tail(commands)
            mine == Concerning(timer, commands)
            others == Concerning(timer, rest)
<1>1. /\ \A i \in others : i \in Nat \ {0} /\ i + 1 \in mine /\ rest[i] = commands[i + 1]
      /\ \A i \in mine : i \in Nat \ {0} /\ (i # 1 => i - 1 \in others)
      /\ 1 \notin mine
  BY RestOfQueue
<1>2. /\ RunsAfter(rest, set, timer) <=>
           IF others = {} THEN set[timer] # Off
           ELSE \E last \in others : (\A i \in others : i <= last) /\ rest[last].expiry # Off
      /\ RunsAfter(commands, timers, timer) <=>
           IF mine = {} THEN timers[timer] # Off
           ELSE \E last \in mine : (\A i \in mine : i <= last) /\ commands[last].expiry # Off
  BY DEF RunsAfter
<1>. HIDE DEF rest, mine, others
<1>3. others = {} <=> mine = {}
  BY <1>1
<1>4. ASSUME NEW last \in others, \A i \in others : i <= last, rest[last].expiry # Off
      PROVE  \E m \in mine : (\A i \in mine : i <= m) /\ commands[m].expiry # Off
  <2>1. \A i \in mine : i <= last + 1
    BY <1>1, <1>4
  <2>. QED  BY <1>1, <1>4, <2>1
<1>5. ASSUME NEW last \in mine, \A i \in mine : i <= last, commands[last].expiry # Off
      PROVE  \E m \in others : (\A i \in others : i <= m) /\ rest[m].expiry # Off
  <2>1. last - 1 \in others /\ (last - 1) + 1 = last
    BY <1>1, <1>5
  <2>2. rest[last - 1] = commands[last] /\ \A i \in others : i <= last - 1
    BY <1>1, <1>5, <2>1
  <2>. QED  BY <1>5, <2>1, <2>2
<1>6. RunsAfter(rest, set, timer) <=> RunsAfter(commands, timers, timer)
  BY <1>2, <1>3, <1>4, <1>5
<1>. QED  BY <1>6 DEF rest

\* A timer depends on no other timer.
LEMMA RunsAlone ==
  ASSUME NEW commands, NEW timers, NEW set, NEW timer, set[timer] = timers[timer]
  PROVE  RunsAfter(commands, set, timer) <=> RunsAfter(commands, timers, timer)
BY DEF RunsAfter

\* A set of numbers that are all at most n has a greatest one.
LEMMA GreatestNumber ==
  ASSUME NEW n \in Nat, NEW S \in SUBSET (1..n), S # {}
  PROVE  \E last \in S : \A i \in S : i <= last
<1>. DEFINE D == {n - i : i \in S}
<1>0. \A i \in S : n - i \in Nat
  OBVIOUS
<1>1. D \subseteq Nat /\ D # {}
  BY <1>0
<1>2. PICK d \in D : \A e \in D : ~ (<<e, d>> \in OpToRel(<, Nat))
  BY <1>1, NatLessThanWellFounded, WFMin, Zenon
<1>3. \A e \in D : ~ (e < d)
  BY <1>1, <1>2 DEF OpToRel
<1>4. PICK last \in S : d = n - last
  OBVIOUS
<1>5. ASSUME NEW i \in S PROVE i <= last
  <2>1. n - i \in D /\ ~ (n - i < d)
    BY <1>3
  <2>. QED  BY <1>4, <2>1
<1>. QED  BY <1>5

\* A list of commands that does not concern a timer makes no difference to it.
LEMMA ConcatOther ==
  ASSUME NEW S, NEW commands \in Seq(S), NEW list \in Seq(S), NEW timers, NEW timer,
         \A i \in DOMAIN list : list[i].timer # timer
  PROVE  RunsAfter(commands \o list, timers, timer) <=> RunsAfter(commands, timers, timer)
<1>. DEFINE sent == commands \o list
            n == Len(commands)
<1>1. /\ n \in Nat /\ Len(list) \in Nat /\ DOMAIN commands = 1..n /\ DOMAIN list = 1..Len(list)
      /\ DOMAIN sent = 1..(n + Len(list))
      /\ \A i \in 1..n : sent[i] = commands[i]
      /\ \A i \in (n + 1)..(n + Len(list)) : sent[i] = list[i - n]
  BY ConcatProperties
<1>. HIDE DEF sent
<1>2. ASSUME NEW i \in Concerning(timer, sent) PROVE i \in Concerning(timer, commands)
  <2>1. i \in 1..(n + Len(list)) /\ sent[i].timer = timer
    BY <1>1 DEF Concerning
  <2>2. ASSUME i > n PROVE FALSE
    <3>1. i - n \in DOMAIN list /\ sent[i] = list[i - n]
      BY <1>1, <2>1, <2>2
    <3>. QED  BY <2>1, <3>1
  <2>. QED  BY <1>1, <2>1, <2>2 DEF Concerning
<1>3. Concerning(timer, commands) \subseteq Concerning(timer, sent)
  BY <1>1 DEF Concerning
<1>4. Concerning(timer, sent) = Concerning(timer, commands)
  BY <1>2, <1>3
<1>5. \A i \in Concerning(timer, commands) : sent[i] = commands[i]
  BY <1>1 DEF Concerning
<1>6. RunsAfter(sent, timers, timer) <=> RunsAfter(commands, timers, timer)
  BY <1>4, <1>5 DEF RunsAfter
<1>. QED  BY <1>6 DEF sent

\* A list of commands that starts a timer, and does not stop it, leaves it running.
LEMMA ConcatStarts ==
  ASSUME NEW S, NEW commands \in Seq(S), NEW list \in Seq(S), NEW timers, NEW timer,
         \E i \in DOMAIN list : list[i].timer = timer,
         \A i \in DOMAIN list : list[i].timer = timer => list[i].expiry # Off
  PROVE  RunsAfter(commands \o list, timers, timer)
<1>. DEFINE sent == commands \o list
            n == Len(commands)
            m == n + Len(list)
<1>1. /\ n \in Nat /\ Len(list) \in Nat /\ DOMAIN commands = 1..n /\ DOMAIN list = 1..Len(list)
      /\ DOMAIN sent = 1..m /\ m \in Nat
      /\ \A i \in 1..n : sent[i] = commands[i]
      /\ \A i \in (n + 1)..m : sent[i] = list[i - n]
  BY ConcatProperties
<1>2. PICK k \in DOMAIN list : list[k].timer = timer
  OBVIOUS
<1>. HIDE DEF sent, m
<1>3. n + k \in (n + 1)..m /\ n + k \in 1..m /\ (n + k) - n = k
  BY <1>1, <1>2 DEF m
<1>4. n + k \in Concerning(timer, sent) /\ n + k > n
  BY <1>1, <1>2, <1>3 DEF Concerning
<1>5. Concerning(timer, sent) \in SUBSET (1..m) /\ Concerning(timer, sent) # {}
  BY <1>1, <1>4 DEF Concerning
<1>6. PICK last \in Concerning(timer, sent) : \A i \in Concerning(timer, sent) : i <= last
  BY <1>1, <1>5, GreatestNumber
<1>7. last \in (n + 1)..m /\ sent[last].timer = timer
  BY <1>1, <1>4, <1>5, <1>6 DEF Concerning
<1>8. last - n \in DOMAIN list /\ sent[last] = list[last - n]
  BY <1>1, <1>7 DEF m
<1>9. sent[last].expiry # Off
  BY <1>7, <1>8
<1>10. RunsAfter(sent, timers, timer)
  BY <1>5, <1>6, <1>9 DEF RunsAfter
<1>. QED  BY <1>10 DEF sent
=============================================================================
