--------------------------- MODULE WatcherSourceProofs ---------------------------
(***************************************************************************)
(* That a source of the watcher accounts for every change that passed its  *)
(* debouncer, and keeps to its rate, for every set of files, window,       *)
(* budget and queue.                                                       *)
(*                                                                         *)
(* The argument for the rate: since the last refill no more requests were  *)
(* queued than tokens are gone, and the change that refilled the bucket    *)
(* took the first of them, so that when the bucket is due again the window *)
(* that ends there saw one request less than a budget (RateInv).           *)
(***************************************************************************)
EXTENDS WatcherSource, SequenceTheorems, TLAPS

\* s is a sequence of running sums.
SumsUpTo(s, n) ==
  s \in [0..n -> Nat] /\ s[0] = 0 /\ \A i, j \in 0..n : i <= j => s[i] <= s[j]

QueueSums(s, q) ==
  SumsUpTo(s, Len(q)) /\ \A k \in 1..Len(q) : s[k] = s[k - 1] + q[k].n

RecentSums(s, r) ==
  SumsUpTo(s, Window) /\ \A k \in 1..Window : s[k] = s[k - 1] + r[k - 1]

AccountInv ==
  \E s : QueueSums(s, queue)
         /\ passed = ended + lost + hand.n + s[Len(queue)] + coalesced

\* With n ticks since the refill, and l tokens left.
Rate(s, r, n, l) ==
  /\ RecentSums(s, r)
  /\ n = Window => r[0] = 0 /\ s[Window] <= Budget - 1
  /\ n < Window => /\ s[n + 1] <= Budget - l
                   /\ s[n] <= Budget - l - 1
                   /\ s[Window] <= s[n + 1] + Budget - 1

\* c[k]: how many of the first k requests of q are for one change.
Singles(c, q) ==
  /\ c \in [0..Len(q) -> Nat] /\ c[0] = 0
  /\ \A k \in 1..Len(q) : /\ q[k] = Single => c[k] = c[k - 1] + 1
                          /\ q[k] # Single => c[k] = c[k - 1]
  /\ \A i, j \in 0..Len(q) : i <= j => c[i] <= c[j] /\ c[j] <= c[i] + (j - i)

\* What was started, and what waits to be, was queued since or waited then.
Behind(s, o, c, q) == \A k \in 0..Window : o[k] + c[Len(q)] <= s[k] + QueueCap

\* One more now; a tick later.
Raised(t, s) == \A k \in 1..Window : t[k] = s[k] + 1
Delayed(t, s) == \A k \in 1..Window : t[k] = s[k - 1]

RateInv ==
  \E s, o, c : /\ Rate(s, recent, refilled, left)
               /\ RecentSums(o, spawned) /\ Singles(c, queue) /\ Behind(s, o, c, queue)

HandInv == worker \notin {"busy", "refused"} => hand = NoRequest

SourceInv == TypeOK /\ HandInv /\ AccountInv /\ RateInv

-------------------------------------------------------------------------------
(* Running sums. *)

\* A request is queued.
LEMMA AppendSums ==
  ASSUME NEW q \in Seq(Request), NEW r \in Request, NEW s, QueueSums(s, q)
  PROVE  \E t : QueueSums(t, Append(q, r)) /\ t[Len(Append(q, r))] = s[Len(q)] + r.n
<1> DEFINE n == Len(q)
           t == [k \in 0..(n + 1) |-> IF k <= n THEN s[k] ELSE s[n] + r.n]
<1>1. n \in Nat /\ s \in [0..n -> Nat] /\ s[0] = 0 /\ r.n \in Nat
  BY LenProperties DEF QueueSums, SumsUpTo, Request
<1>2. \A k \in 0..n : s[k] \in Nat /\ s[k] <= s[n]
  BY <1>1 DEF QueueSums, SumsUpTo
<1>3. /\ Len(Append(q, r)) = n + 1 /\ Append(q, r)[n + 1] = r
      /\ \A k \in 1..n : Append(q, r)[k] = q[k]
  BY AppendProperties
<1>4. /\ t \in [0..(n + 1) -> Nat] /\ t[0] = 0 /\ t[n + 1] = s[n] + r.n
      /\ \A k \in 0..n : t[k] = s[k]
  BY <1>1, <1>2
<1>5. \A i, j \in 0..(n + 1) : i <= j => t[i] <= t[j]
  <2>1. SUFFICES ASSUME NEW i \in 0..(n + 1), NEW j \in 0..(n + 1), i <= j
                 PROVE  t[i] <= t[j]
    OBVIOUS
  <2>2. CASE j \in 0..n
    <3>1. i \in 0..n
      BY <1>1, <2>1, <2>2
    <3>2. s[i] <= s[j]
      BY <2>1, <2>2, <3>1 DEF QueueSums, SumsUpTo
    <3>3. QED
      BY <1>4, <2>2, <3>1, <3>2
  <2>3. CASE j = n + 1 /\ i \in 0..n
    BY <1>1, <1>2, <1>4, <2>3
  <2>4. CASE j = n + 1 /\ i = n + 1
    BY <1>1, <1>2, <1>4, <2>4
  <2>5. QED
    BY <1>1, <2>1, <2>2, <2>3, <2>4
<1>6. \A k \in 1..(n + 1) : t[k] = t[k - 1] + Append(q, r)[k].n
  <2>1. SUFFICES ASSUME NEW k \in 1..(n + 1) PROVE t[k] = t[k - 1] + Append(q, r)[k].n
    OBVIOUS
  <2>2. CASE k \in 1..n
    <3>1. s[k] = s[k - 1] + q[k].n /\ k \in 0..n /\ k - 1 \in 0..n
      BY <1>1, <2>2 DEF QueueSums
    <3>2. QED
      BY <1>3, <1>4, <2>2, <3>1
  <2>3. CASE k = n + 1
    BY <1>1, <1>3, <1>4, <2>3
  <2>4. QED
    BY <1>1, <2>1, <2>2, <2>3
<1>7. QED
  BY <1>3, <1>4, <1>5, <1>6 DEF QueueSums, SumsUpTo

\* The first request is taken.
LEMMA TailSums ==
  ASSUME NEW q \in Seq(Request), q # <<>>, NEW s, QueueSums(s, q)
  PROVE  \E t : QueueSums(t, Tail(q)) /\ s[Len(q)] = Head(q).n + t[Len(Tail(q))]
<1> DEFINE n == Len(q)
           t == [k \in 0..(n - 1) |-> s[k + 1] - s[1]]
<1>1. n \in Nat \ {0} /\ s \in [0..n -> Nat] /\ s[0] = 0
  BY EmptySeq, LenProperties DEF QueueSums, SumsUpTo
<1>2. /\ Tail(q) \in Seq(Request) /\ Len(Tail(q)) = n - 1 /\ Head(q) = q[1]
      /\ \A k \in 1..(n - 1) : Tail(q)[k] = q[k + 1]
  BY HeadTailProperties
<1>3. Head(q).n \in Nat /\ s[1] = Head(q).n
  <2>1. q[1] \in Request /\ s[1] = s[0] + q[1].n
    BY <1>1, ElementOfSeq DEF QueueSums
  <2>2. QED
    BY <1>1, <1>2, <2>1 DEF Request
<1>4. \A k \in 0..(n - 1) : s[k + 1] \in Nat /\ s[1] <= s[k + 1]
  BY <1>1 DEF QueueSums, SumsUpTo
<1>5. t \in [0..(n - 1) -> Nat] /\ t[0] = 0 /\ s[n] = Head(q).n + t[n - 1]
  BY <1>1, <1>3, <1>4
<1>6. \A i, j \in 0..(n - 1) : i <= j => t[i] <= t[j]
  <2>1. SUFFICES ASSUME NEW i \in 0..(n - 1), NEW j \in 0..(n - 1), i <= j
                 PROVE  t[i] <= t[j]
    OBVIOUS
  <2>2. s[i + 1] <= s[j + 1]
    BY <1>1, <2>1 DEF QueueSums, SumsUpTo
  <2>3. QED
    BY <1>3, <1>4, <2>1, <2>2
<1>7. \A k \in 1..(n - 1) : t[k] = t[k - 1] + Tail(q)[k].n
  <2>1. SUFFICES ASSUME NEW k \in 1..(n - 1) PROVE t[k] = t[k - 1] + Tail(q)[k].n
    OBVIOUS
  <2>2. s[k + 1] = s[k] + q[k + 1].n /\ q[k + 1] \in Request
    BY <1>1, <2>1, ElementOfSeq DEF QueueSums
  <2>3. q[k + 1].n \in Nat /\ k \in 0..(n - 1) /\ k - 1 \in 0..(n - 1)
    BY <1>1, <2>1, <2>2 DEF Request
  <2>4. t[k] = s[k + 1] - s[1] /\ t[k - 1] = s[k] - s[1] /\ s[k] \in Nat /\ s[1] \in Nat
    BY <1>1, <1>3, <1>4, <2>3
  <2>5. QED
    BY <1>2, <2>1, <2>2, <2>3, <2>4
<1>8. QED
  BY <1>2, <1>5, <1>6, <1>7 DEF QueueSums, SumsUpTo

\* A request is queued: the singles.
LEMMA AppendSingles ==
  ASSUME NEW q \in Seq(Request), NEW r \in Request, NEW c, Singles(c, q)
  PROVE  \E d : /\ Singles(d, Append(q, r))
                /\ r = Single => d[Len(Append(q, r))] = c[Len(q)] + 1
                /\ r # Single => d[Len(Append(q, r))] = c[Len(q)]
<1> DEFINE n == Len(q)
           w == IF r = Single THEN 1 ELSE 0
           d == [k \in 0..(n + 1) |-> IF k <= n THEN c[k] ELSE c[n] + w]
<1>1. n \in Nat /\ c \in [0..n -> Nat] /\ c[0] = 0 /\ w \in 0..1
  BY LenProperties DEF Singles
<1>e. \A k \in 1..n : /\ q[k] = Single => c[k] = c[k - 1] + 1
                      /\ q[k] # Single => c[k] = c[k - 1]
  BY DEF Singles
<1>g. \A i, j \in 0..n : i <= j => c[i] <= c[j] /\ c[j] <= c[i] + (j - i)
  BY DEF Singles
<1>2. /\ Len(Append(q, r)) = n + 1 /\ Append(q, r)[n + 1] = r
      /\ \A k \in 1..n : Append(q, r)[k] = q[k]
  BY AppendProperties
<1>w. (r = Single => w = 1) /\ (r # Single => w = 0)
  OBVIOUS
<1> HIDE DEF w
<1>3. /\ d \in [0..(n + 1) -> Nat] /\ d[0] = 0 /\ d[n + 1] = c[n] + w
      /\ \A k \in 0..n : d[k] = c[k] /\ c[k] \in Nat
  BY <1>1
<1> HIDE DEF d
<1>4. \A i, j \in 0..(n + 1) : i <= j => d[i] <= d[j] /\ d[j] <= d[i] + (j - i)
  <2>1. SUFFICES ASSUME NEW i \in 0..(n + 1), NEW j \in 0..(n + 1), i <= j
                 PROVE  d[i] <= d[j] /\ d[j] <= d[i] + (j - i)
    OBVIOUS
  <2>2. CASE j \in 0..n
    <3>1. i \in 0..n
      BY <1>1, <2>1, <2>2
    <3>2. c[i] <= c[j] /\ c[j] <= c[i] + (j - i)
      BY <1>g, <2>1, <2>2, <3>1
    <3>3. QED
      BY <1>3, <2>2, <3>1, <3>2
  <2>3. CASE j = n + 1 /\ i \in 0..n
    <3>0. i <= n /\ n \in 0..n
      BY <1>1, <2>3
    <3>1. c[i] <= c[n] /\ c[n] <= c[i] + (n - i) /\ c[i] \in Nat /\ c[n] \in Nat
      BY <1>3, <1>g, <2>3, <3>0
    <3>2. d[i] = c[i] /\ d[j] = c[n] + w
      BY <1>3, <2>3
    <3>3. QED
      BY <1>1, <2>3, <3>1, <3>2
  <2>4. CASE j = n + 1 /\ i = n + 1
    BY <1>1, <1>3, <2>4
  <2>5. QED
    BY <1>1, <2>1, <2>2, <2>3, <2>4
<1>5. \A k \in 1..(n + 1) : /\ Append(q, r)[k] = Single => d[k] = d[k - 1] + 1
                            /\ Append(q, r)[k] # Single => d[k] = d[k - 1]
  <2>1. SUFFICES ASSUME NEW k \in 1..(n + 1)
                 PROVE  /\ Append(q, r)[k] = Single => d[k] = d[k - 1] + 1
                        /\ Append(q, r)[k] # Single => d[k] = d[k - 1]
    OBVIOUS
  <2>2. CASE k \in 1..n
    <3>1. /\ q[k] = Single => c[k] = c[k - 1] + 1
          /\ q[k] # Single => c[k] = c[k - 1]
          /\ k \in 0..n /\ k - 1 \in 0..n
      BY <1>1, <1>e, <2>2
    <3>2. QED
      BY <1>2, <1>3, <2>2, <3>1
  <2>3. CASE k = n + 1
    <3>1. d[k] = c[n] + w /\ d[k - 1] = c[n] /\ c[n] \in Nat
      BY <1>1, <1>3, <2>3
    <3>2. QED
      BY <1>1, <1>2, <1>w, <2>3, <3>1
  <2>4. QED
    BY <1>1, <2>1, <2>2, <2>3
<1>6. Singles(d, Append(q, r))
  BY <1>2, <1>3, <1>4, <1>5 DEF Singles
<1>7. /\ r = Single => d[Len(Append(q, r))] = c[Len(q)] + 1
      /\ r # Single => d[Len(Append(q, r))] = c[Len(q)]
  <2>1. c[n] \in Nat
    BY <1>1, <1>3
  <2>2. QED
    BY <1>2, <1>3, <1>w, <2>1
<1>8. QED
  BY <1>6, <1>7

\* The first request is taken: the singles.
LEMMA TailSingles ==
  ASSUME NEW q \in Seq(Request), q # <<>>, NEW c, Singles(c, q)
  PROVE  \E d : /\ Singles(d, Tail(q))
                /\ Head(q) = Single => c[Len(q)] = d[Len(Tail(q))] + 1
                /\ Head(q) # Single => c[Len(q)] = d[Len(Tail(q))]
<1> DEFINE n == Len(q)
           d == [k \in 0..(n - 1) |-> c[k + 1] - c[1]]
<1>1. n \in Nat \ {0} /\ c \in [0..n -> Nat] /\ c[0] = 0
  BY EmptySeq, LenProperties DEF Singles
<1>e. \A k \in 1..n : /\ q[k] = Single => c[k] = c[k - 1] + 1
                      /\ q[k] # Single => c[k] = c[k - 1]
  BY DEF Singles
<1>g. \A i, j \in 0..n : i <= j => c[i] <= c[j] /\ c[j] <= c[i] + (j - i)
  BY DEF Singles
<1>2. /\ Tail(q) \in Seq(Request) /\ Len(Tail(q)) = n - 1 /\ Head(q) = q[1]
      /\ \A k \in 1..(n - 1) : Tail(q)[k] = q[k + 1]
  BY HeadTailProperties
<1>3. (Head(q) = Single => c[1] = 1) /\ (Head(q) # Single => c[1] = 0) /\ c[1] \in Nat
  <2>1. (q[1] = Single => c[1] = c[0] + 1) /\ (q[1] # Single => c[1] = c[0]) /\ c[1] \in Nat
    BY <1>1, <1>e
  <2>2. QED
    BY <1>1, <1>2, <2>1
<1>4. \A k \in 0..(n - 1) : c[k + 1] \in Nat /\ c[1] <= c[k + 1]
  <2>1. SUFFICES ASSUME NEW k \in 0..(n - 1) PROVE c[k + 1] \in Nat /\ c[1] <= c[k + 1]
    OBVIOUS
  <2>2. 1 \in 0..n /\ k + 1 \in 0..n /\ 1 <= k + 1
    BY <1>1
  <2>3. QED
    BY <1>1, <1>g, <2>2
<1>5. /\ d \in [0..(n - 1) -> Nat] /\ d[0] = 0 /\ c[n] = c[1] + d[n - 1]
      /\ \A k \in 0..(n - 1) : d[k] = c[k + 1] - c[1]
  BY <1>1, <1>3, <1>4
<1> HIDE DEF d
<1>6. \A i, j \in 0..(n - 1) : i <= j => d[i] <= d[j] /\ d[j] <= d[i] + (j - i)
  <2>1. SUFFICES ASSUME NEW i \in 0..(n - 1), NEW j \in 0..(n - 1), i <= j
                 PROVE  d[i] <= d[j] /\ d[j] <= d[i] + (j - i)
    OBVIOUS
  <2>2. c[i + 1] <= c[j + 1] /\ c[j + 1] <= c[i + 1] + ((j + 1) - (i + 1))
    <3>1. i + 1 \in 0..n /\ j + 1 \in 0..n /\ i + 1 <= j + 1
      BY <1>1, <2>1
    <3>2. QED
      BY <1>g, <3>1
  <2>3. d[i] = c[i + 1] - c[1] /\ d[j] = c[j + 1] - c[1]
        /\ c[i + 1] \in Nat /\ c[j + 1] \in Nat
    BY <1>4, <1>5, <2>1
  <2>4. QED
    BY <1>1, <1>3, <2>1, <2>2, <2>3
<1>7. \A k \in 1..(n - 1) : /\ Tail(q)[k] = Single => d[k] = d[k - 1] + 1
                            /\ Tail(q)[k] # Single => d[k] = d[k - 1]
  <2>1. SUFFICES ASSUME NEW k \in 1..(n - 1)
                 PROVE  /\ Tail(q)[k] = Single => d[k] = d[k - 1] + 1
                        /\ Tail(q)[k] # Single => d[k] = d[k - 1]
    OBVIOUS
  <2>2. /\ q[k + 1] = Single => c[k + 1] = c[k] + 1
        /\ q[k + 1] # Single => c[k + 1] = c[k]
    <3>1. k + 1 \in 1..n /\ (k + 1) - 1 = k
      BY <1>1, <2>1
    <3>2. /\ q[k + 1] = Single => c[k + 1] = c[(k + 1) - 1] + 1
          /\ q[k + 1] # Single => c[k + 1] = c[(k + 1) - 1]
      BY <1>e, <3>1
    <3>3. QED
      BY <3>1, <3>2
  <2>3. d[k] = c[k + 1] - c[1] /\ d[k - 1] = c[k] - c[1] /\ c[k] \in Nat /\ c[k + 1] \in Nat
    <3>1. k \in 0..(n - 1) /\ k - 1 \in 0..(n - 1) /\ (k - 1) + 1 = k /\ k \in 0..n /\ k + 1 \in 0..n
      BY <1>1, <2>1
    <3>2. d[k] = c[k + 1] - c[1] /\ d[k - 1] = c[(k - 1) + 1] - c[1]
      BY <1>5, <3>1
    <3>3. QED
      BY <1>1, <3>1, <3>2
  <2>4. Tail(q)[k] = q[k + 1]
    BY <1>2
  <2>5. QED
    BY <1>3, <2>2, <2>3, <2>4
<1>8. Singles(d, Tail(q))
  BY <1>1, <1>2, <1>5, <1>6, <1>7 DEF Singles
<1>9. /\ Head(q) = Single => c[Len(q)] = d[Len(Tail(q))] + 1
      /\ Head(q) # Single => c[Len(q)] = d[Len(Tail(q))]
  <2>1. d[n - 1] \in Nat /\ Len(Tail(q)) = n - 1
    BY <1>1, <1>2, <1>5
  <2>2. QED
    BY <1>3, <1>5, <2>1
<1>10. QED
  BY <1>8, <1>9

\* A single request is queued now.
LEMMA SpendSums ==
  ASSUME NEW r \in [0..(Window - 1) -> Nat], NEW s, RecentSums(s, r),
         NEW t, t = [k \in 0..Window |-> IF k = 0 THEN 0 ELSE s[k] + 1]
  PROVE  RecentSums(t, [r EXCEPT ![0] = @ + 1])
<1>1. /\ Window \in Nat \ {0} /\ s \in [0..Window -> Nat] /\ s[0] = 0
      /\ 0 \in 0..(Window - 1)
  BY WatcherAssumption DEF RecentSums, SumsUpTo
<1>2. t \in [0..Window -> Nat] /\ t[0] = 0 /\ \A k \in 1..Window : t[k] = s[k] + 1 /\ s[k] \in Nat
  BY <1>1
<1>3. \A i, j \in 0..Window : i <= j => t[i] <= t[j]
  <2>1. SUFFICES ASSUME NEW i \in 0..Window, NEW j \in 0..Window, i <= j PROVE t[i] <= t[j]
    OBVIOUS
  <2>2. s[i] <= s[j]
    BY <2>1 DEF RecentSums, SumsUpTo
  <2>3. CASE i = 0
    BY <1>2, <2>3
  <2>4. CASE i # 0
    BY <1>1, <1>2, <2>1, <2>2, <2>4
  <2>5. QED
    BY <2>3, <2>4
<1>4. \A k \in 1..Window : t[k] = t[k - 1] + [r EXCEPT ![0] = @ + 1][k - 1]
  <2>1. SUFFICES ASSUME NEW k \in 1..Window
                 PROVE  t[k] = t[k - 1] + [r EXCEPT ![0] = @ + 1][k - 1]
    OBVIOUS
  <2>2. s[k] = s[k - 1] + r[k - 1] /\ k - 1 \in 0..(Window - 1) /\ r[k - 1] \in Nat
    BY <1>1 DEF RecentSums
  <2>3. CASE k = 1
    BY <1>1, <1>2, <2>2, <2>3
  <2>4. CASE k # 1
    BY <1>1, <1>2, <2>2, <2>4
  <2>5. QED
    BY <2>3, <2>4
<1>5. QED
  BY <1>2, <1>3, <1>4 DEF RecentSums, SumsUpTo

\* A tick passes.
LEMMA ShiftSums ==
  ASSUME NEW r \in [0..(Window - 1) -> Nat], NEW s, RecentSums(s, r),
         NEW t, t = [k \in 0..Window |-> IF k = 0 THEN 0 ELSE s[k - 1]]
  PROVE  RecentSums(t, [a \in DOMAIN r |-> IF a = 0 THEN 0 ELSE r[a - 1]])
<1> DEFINE r2 == [a \in DOMAIN r |-> IF a = 0 THEN 0 ELSE r[a - 1]]
<1>1. /\ Window \in Nat \ {0} /\ s \in [0..Window -> Nat] /\ s[0] = 0
      /\ DOMAIN r = 0..(Window - 1)
  BY WatcherAssumption DEF RecentSums, SumsUpTo
<1>2. /\ t \in [0..Window -> Nat] /\ t[0] = 0
      /\ \A k \in 1..Window : t[k] = s[k - 1] /\ s[k - 1] \in Nat
  BY <1>1
<1>3. \A i, j \in 0..Window : i <= j => t[i] <= t[j]
  <2>1. SUFFICES ASSUME NEW i \in 0..Window, NEW j \in 0..Window, i <= j PROVE t[i] <= t[j]
    OBVIOUS
  <2>2. CASE i = 0
    BY <1>2, <2>2
  <2>3. CASE i # 0
    <3>1. s[i - 1] <= s[j - 1] /\ i \in 1..Window /\ j \in 1..Window
      BY <1>1, <2>1, <2>3 DEF RecentSums, SumsUpTo
    <3>2. QED
      BY <1>2, <3>1
  <2>4. QED
    BY <2>2, <2>3
<1>4. \A k \in 1..Window : t[k] = t[k - 1] + r2[k - 1]
  <2>1. SUFFICES ASSUME NEW k \in 1..Window PROVE t[k] = t[k - 1] + r2[k - 1]
    OBVIOUS
  <2>2. CASE k = 1
    BY <1>1, <1>2, <2>2
  <2>3. CASE k # 1
    <3>1. k - 1 \in 1..Window /\ k - 1 \in 0..(Window - 1) /\ k - 1 # 0
      BY <1>1, <2>1, <2>3
    <3>2. s[k - 1] = s[k - 2] + r[k - 2]
      BY <1>1, <3>1 DEF RecentSums
    <3>3. r2[k - 1] = r[k - 2] /\ t[k] = s[k - 1] /\ t[k - 1] = s[k - 2]
      BY <1>1, <1>2, <2>1, <3>1
    <3>4. QED
      BY <3>2, <3>3
  <2>4. QED
    BY <2>2, <2>3
<1>5. QED
  BY <1>2, <1>3, <1>4 DEF RecentSums, SumsUpTo

-------------------------------------------------------------------------------
(* The types, and what the worker has in hand. *)

LEMMA Parameters ==
  /\ Window \in Nat \ {0} /\ Budget \in Nat \ {0} /\ QueueCap \in Nat \ {0}
  /\ MaxChanges \in Nat
BY WatcherAssumption

LEMMA RequestFacts ==
  /\ Single \in Request /\ Single.n = 1 /\ NoRequest.n = 0
  /\ \A r \in Request \cup {NoRequest} : r.n \in Nat
  /\ \A n \in Nat \ {0} : /\ [n |-> n, rollup |-> TRUE] \in Request
                          /\ [n |-> n, rollup |-> TRUE] # Single
BY DEF Single, NoRequest, Request

LEMMA TokensFacts ==
  ASSUME TypeOK
  PROVE  /\ Tokens \in 0..Budget
         /\ refilled < Window => Tokens = left
         /\ refilled = Window => Tokens = Budget
         /\ Refill /\ refilled < Window => refilled' = refilled
         /\ Refill /\ refilled = Window => refilled' = 0
         /\ Refill => refilled' \in 0..Window
BY Parameters DEF TypeOK, Tokens, RefillDue, Refill

LEMMA SourceInit == Init => SourceInv
<1> SUFFICES ASSUME Init PROVE SourceInv
  OBVIOUS
<1>1. TypeOK /\ HandInv
  <2>1. queue \in Seq(Request) /\ Len(queue) = 0
    BY EmptySeq DEF Init
  <2>2. recent \in [0..(Window - 1) -> Nat] /\ seen \in [Files -> 0..(Window + 1)]
    BY Parameters DEF Init
  <2>3. QED
    <3>1. left \in 0..Budget /\ refilled \in 0..Window /\ phase \in 0..(Window - 1)
          /\ Len(queue) <= QueueCap
      BY <2>1, Parameters DEF Init
    <3>2. QED
      BY <2>1, <2>2, <3>1 DEF Init, TypeOK, HandInv
<1>2. AccountInv
  <2> DEFINE s == [k \in 0..0 |-> 0]
  <2>1. QueueSums(s, queue) /\ s[Len(queue)] = 0
    BY EmptySeq DEF Init, QueueSums, SumsUpTo
  <2>2. QED
    BY <2>1, RequestFacts DEF Init, AccountInv
<1>3. RateInv
  <2> DEFINE s == [k \in 0..Window |-> 0]
             c == [k \in 0..0 |-> 0]
  <2>1. /\ RecentSums(s, recent) /\ RecentSums(s, spawned)
        /\ s[Window] = 0 /\ recent[0] = 0
    BY Parameters DEF Init, RecentSums, SumsUpTo
  <2>2. Rate(s, recent, refilled, left)
    BY <2>1, Parameters DEF Init, Rate
  <2>3. Singles(c, queue) /\ c[Len(queue)] = 0
    BY EmptySeq DEF Init, Singles
  <2>4. Behind(s, s, c, queue)
    BY <2>3, Parameters DEF Behind
  <2>5. QED
    BY <2>1, <2>2, <2>3, <2>4 DEF RateInv
<1>4. QED
  BY <1>1, <1>2, <1>3 DEF SourceInv

LEMMA TypesStep ==
  ASSUME TypeOK, HandInv, Next
  PROVE  TypeOK' /\ HandInv'
<1> USE Parameters DEF TypeOK, HandInv
<1>0. queue \in Seq(Request) /\ Len(queue) \in Nat
  BY LenProperties
<1>1. ASSUME NEW f \in Files, Suppress(f) PROVE TypeOK' /\ HandInv'
  BY <1>1 DEF Suppress, vars
<1>2. ASSUME NEW f \in Files, Report(f) PROVE TypeOK' /\ HandInv'
  <2>1. queue' \in Seq(Request) /\ Len(queue') <= QueueCap
    BY <1>0, <1>2, RequestFacts, AppendProperties DEF Report, HasRoom
  <2>2. left' \in 0..Budget /\ refilled' \in 0..Window
    <3>1. Refill /\ left' = Tokens - 1 /\ Tokens > 0
      BY <1>2 DEF Report
    <3>2. Tokens \in 0..Budget /\ refilled' \in 0..Window
      BY <3>1, TokensFacts
    <3>3. QED
      BY <3>1, <3>2
  <2>3. seen' \in [Files -> 0..(Window + 1)] /\ recent' \in [0..(Window - 1) -> Nat]
    BY <1>2 DEF Report, Pass
  <2>4. QED
    BY <1>2, <2>1, <2>2, <2>3 DEF Report, Pass, output, life
<1>3. ASSUME NEW f \in Files, Coalesce(f) PROVE TypeOK' /\ HandInv'
  <2>1. left' \in 0..Budget /\ refilled' \in 0..Window
    BY <1>3, TokensFacts DEF Coalesce
  <2>2. seen' \in [Files -> 0..(Window + 1)]
    BY <1>3 DEF Coalesce, Pass
  <2>3. QED
    BY <1>3, <2>1, <2>2 DEF Coalesce, Pass, output, life
<1>4. CASE RollupIdle
  BY <1>4 DEF RollupIdle, intake, output, life
<1>5. CASE Rollup
  <2>1. queue' \in Seq(Request) /\ Len(queue') <= QueueCap /\ lost' \in Nat
    <3>1. CASE HasRoom /\ queue' = Append(queue, [n |-> coalesced, rollup |-> TRUE])
               /\ UNCHANGED lost
      <4>1. [n |-> coalesced, rollup |-> TRUE] \in Request
        BY <1>5, RequestFacts DEF Rollup
      <4>2. QED
        BY <1>0, <3>1, <4>1, AppendProperties DEF HasRoom
    <3>2. QED
      BY <1>5, <3>1 DEF Rollup
  <2>2. QED
    BY <1>5, <2>1 DEF Rollup, output, life
<1>6. CASE WorkerTake
  <2>1. /\ hand' \in Request /\ queue' \in Seq(Request) /\ Len(queue') <= QueueCap
    BY <1>0, <1>6, HeadTailProperties DEF WorkerTake
  <2>2. spawned' \in [0..(Window - 1) -> Nat]
    <3>1. spawned' = spawned \/ spawned' = [spawned EXCEPT ![0] = @ + 1]
      BY <1>6 DEF WorkerTake
    <3>2. CASE spawned' = spawned
      BY <3>2
    <3>3. CASE spawned' = [spawned EXCEPT ![0] = @ + 1]
      <4>1. spawned[0] + 1 \in Nat
        OBVIOUS
      <4>2. QED
        BY <3>3, <4>1
    <3>4. QED
      BY <3>1, <3>2, <3>3
  <2>3. QED
    BY <1>6, <2>1, <2>2 DEF WorkerTake, clock, intake, life
<1>7. CASE EmitSucceeds \/ EmitFails
  <2>1. ended' \in Nat
    BY <1>7, RequestFacts DEF EmitSucceeds, EmitFails
  <2>2. QED
    BY <1>7, <2>1 DEF EmitSucceeds, EmitFails, Free, clock, intake, life
<1>8. CASE WorkerExit
  BY <1>8 DEF WorkerExit, clock, intake, life
<1>9. CASE Tick
  <2>1. seen' \in [Files -> 0..(Window + 1)] /\ refilled' \in 0..Window
    BY <1>9 DEF Tick, Min2
  <2>2. phase' \in 0..(Window - 1) /\ tick' \in BOOLEAN
    BY <1>9 DEF Tick
  <2>3. recent' \in [0..(Window - 1) -> Nat] /\ spawned' \in [0..(Window - 1) -> Nat]
    BY <1>9 DEF Tick, Older
  <2>4. QED
    BY <1>9, <2>1, <2>2, <2>3 DEF Tick, intake, output, life
<1>10. CASE Cancel \/ LoopReturns
  BY <1>10 DEF Cancel, LoopReturns, clock, intake, output
<1>11. QED
  BY <1>1, <1>2, <1>3, <1>4, <1>5, <1>6, <1>7, <1>8, <1>9, <1>10 DEF Next, Handle

-------------------------------------------------------------------------------
(* Every change is accounted for. *)

LEMMA AccountStep ==
  ASSUME TypeOK, HandInv, AccountInv, Next
  PROVE  AccountInv'
<1>0. PICK s : QueueSums(s, queue)
               /\ passed = ended + lost + hand.n + s[Len(queue)] + coalesced
  BY DEF AccountInv
<1>a. /\ queue \in Seq(Request) /\ s[Len(queue)] \in Nat
      /\ passed \in Nat /\ ended \in Nat /\ lost \in Nat /\ coalesced \in Nat /\ hand.n \in Nat
  BY <1>0, LenProperties, RequestFacts DEF TypeOK, QueueSums, SumsUpTo
\* What follows when the queue stays.
<1>b. ASSUME queue' = queue, passed' = ended' + lost' + hand'.n + s[Len(queue)] + coalesced'
      PROVE  AccountInv'
  <2>1. QueueSums(s, queue')
    BY <1>0, <1>b
  <2>2. QED
    BY <1>b, <2>1 DEF AccountInv
<1>1. ASSUME NEW f \in Files, Suppress(f) PROVE AccountInv'
  BY <1>0, <1>1, <1>b DEF Suppress, vars
<1>2. ASSUME NEW f \in Files, Report(f) PROVE AccountInv'
  <2>1. queue' = Append(queue, Single) /\ UNCHANGED <<ended, lost, hand, coalesced>>
        /\ passed' = passed + 1
    BY <1>2 DEF Report, Pass, output
  <2>2. PICK t : QueueSums(t, queue') /\ t[Len(queue')] = s[Len(queue)] + 1
    BY <1>0, <1>a, <2>1, AppendSums, RequestFacts
  <2>3. passed' = ended' + lost' + hand'.n + t[Len(queue')] + coalesced'
    BY <1>0, <1>a, <2>1, <2>2
  <2>4. QED
    BY <2>2, <2>3 DEF AccountInv
<1>3. ASSUME NEW f \in Files, Coalesce(f) PROVE AccountInv'
  <2>1. UNCHANGED <<queue, ended, lost, hand>> /\ passed' = passed + 1 /\ coalesced' = coalesced + 1
    BY <1>3 DEF Coalesce, Pass, output
  <2>2. QED
    BY <1>0, <1>a, <1>b, <2>1
<1>4. CASE RollupIdle
  BY <1>0, <1>4, <1>b DEF RollupIdle, intake, output
<1>5. CASE Rollup
  <2>1. UNCHANGED <<ended, hand, passed>> /\ coalesced' = 0 /\ coalesced > 0
    BY <1>5 DEF Rollup, output
  <2>2. CASE queue' = Append(queue, [n |-> coalesced, rollup |-> TRUE]) /\ lost' = lost
    <3> DEFINE r == [n |-> coalesced, rollup |-> TRUE]
    <3>1. r \in Request /\ r.n = coalesced
      BY <1>a, <2>1, RequestFacts
    <3>2. PICK t : QueueSums(t, queue') /\ t[Len(queue')] = s[Len(queue)] + coalesced
      BY <1>0, <1>a, <2>2, <3>1, AppendSums
    <3>3. passed' = ended' + lost' + hand'.n + t[Len(queue')] + coalesced'
      BY <1>0, <1>a, <2>1, <2>2, <3>2
    <3>4. QED
      BY <3>2, <3>3 DEF AccountInv
  <2>3. CASE queue' = queue /\ lost' = lost + coalesced
    BY <1>0, <1>a, <1>b, <2>1, <2>3
  <2>4. QED
    BY <1>5, <2>2, <2>3 DEF Rollup
<1>6. CASE WorkerTake
  <2>1. /\ queue # <<>> /\ hand' = Head(queue) /\ queue' = Tail(queue) /\ hand.n = 0
        /\ UNCHANGED <<ended, lost, coalesced, passed>>
    BY <1>6, RequestFacts DEF WorkerTake, HandInv, intake
  <2>2. PICK t : QueueSums(t, queue') /\ s[Len(queue)] = hand'.n + t[Len(queue')]
    BY <1>0, <1>a, <2>1, TailSums
  <2>3. queue' \in Seq(Request) /\ hand' \in Request
    BY <1>a, <2>1, HeadTailProperties
  <2>4. t[Len(queue')] \in Nat /\ hand'.n \in Nat
    BY <2>2, <2>3, LenProperties, RequestFacts DEF QueueSums, SumsUpTo
  <2>5. passed' = ended' + lost' + hand'.n + t[Len(queue')] + coalesced'
    BY <1>0, <1>a, <2>1, <2>2, <2>4
  <2>6. QED
    BY <2>2, <2>5 DEF AccountInv
<1>7. CASE EmitSucceeds \/ EmitFails
  <2>1. /\ ended' = ended + hand.n /\ hand'.n = 0
        /\ UNCHANGED <<queue, lost, coalesced, passed>>
    BY <1>7, RequestFacts DEF EmitSucceeds, EmitFails, Free, intake
  <2>2. QED
    BY <1>0, <1>a, <1>b, <2>1
<1>8. CASE WorkerExit
  BY <1>0, <1>8, <1>b DEF WorkerExit, intake
<1>9. CASE Tick
  BY <1>0, <1>9, <1>b DEF Tick, intake, output
<1>10. CASE Cancel \/ LoopReturns
  BY <1>0, <1>10, <1>b DEF Cancel, LoopReturns, intake, output
<1>11. QED
  BY <1>1, <1>2, <1>3, <1>4, <1>5, <1>6, <1>7, <1>8, <1>9, <1>10 DEF Next, Handle

-------------------------------------------------------------------------------
(* The rate is kept. *)

LEMMA RateFacts ==
  ASSUME NEW s, NEW r \in [0..(Window - 1) -> Nat], NEW n \in 0..Window, NEW l, Rate(s, r, n, l)
  PROVE  /\ Window \in Nat \ {0} /\ Budget \in Nat \ {0}
         /\ s[0] = 0 /\ \A k \in 0..Window : s[k] \in Nat
         /\ \A k \in 1..Window : s[k] = s[k - 1] + r[k - 1] /\ r[k - 1] \in Nat
         /\ Window \in 1..Window
BY Parameters DEF Rate, RecentSums, SumsUpTo

\* A token is taken, and a single request is queued, or not.
LEMMA RateTakes ==
  ASSUME NEW s, NEW r \in [0..(Window - 1) -> Nat], NEW n \in 0..Window,
         NEW l \in Int, Rate(s, r, n, l), NEW n2 \in Int, NEW l2 \in Int,
         n = Window => n2 = 0 /\ l2 = Budget - 1,
         n # Window => n2 = n /\ l2 = l - 1
  PROVE  /\ \E t : /\ Rate(t, [r EXCEPT ![0] = @ + 1], n2, l2)
                   /\ Raised(t, s)
         /\ Rate(s, r, n2, l2)
<1> DEFINE t == [k \in 0..Window |-> IF k = 0 THEN 0 ELSE s[k] + 1]
           r2 == [r EXCEPT ![0] = @ + 1]
<1>1. /\ Window \in Nat \ {0} /\ Budget \in Nat \ {0}
      /\ s[0] = 0 /\ \A k \in 0..Window : s[k] \in Nat
      /\ \A k \in 1..Window : s[k] = s[k - 1] + r[k - 1]
      /\ Window \in 1..Window
  BY RateFacts
<1>n. n2 \in 0..(Window - 1) /\ n2 + 1 \in 1..Window /\ n2 \in 0..Window /\ n2 < Window
  BY <1>1
<1>2. RecentSums(s, r) /\ RecentSums(t, r2)
  BY SpendSums DEF Rate
<1>3. t[0] = 0 /\ \A k \in 1..Window : t[k] = s[k] + 1
  BY <1>1
<1> HIDE DEF t, r2
<1>4. /\ s[n2 + 1] <= Budget - l2 - 1
      /\ s[n2] <= Budget - l2 - 1 /\ (n2 # 0 => s[n2] <= Budget - l2 - 2)
      /\ s[Window] <= s[n2 + 1] + Budget - 1
  <2>1. CASE n = Window
    <3>1. s[1] = 0 /\ s[Window] <= Budget - 1 /\ n2 = 0 /\ l2 = Budget - 1
      BY <1>1, <2>1 DEF Rate
    <3>2. QED
      BY <1>1, <3>1
  <2>2. CASE n # Window
    <3>1. n2 = n /\ l2 = l - 1 /\ n < Window
      BY <1>1, <2>2
    <3>2. /\ s[n + 1] <= Budget - l /\ s[n] <= Budget - l - 1
          /\ s[Window] <= s[n + 1] + Budget - 1
      BY <3>1 DEF Rate
    <3>3. s[n] \in Nat /\ s[n + 1] \in Nat /\ s[Window] \in Nat
      BY <1>1, <3>1
    <3>4. /\ s[n + 1] <= Budget - l2 - 1 /\ s[n] <= Budget - l2 - 2
      BY <1>1, <3>1, <3>2, <3>3
    <3>5. QED
      BY <1>1, <3>1, <3>2, <3>3, <3>4
  <2>3. QED
    BY <2>1, <2>2
<1>5. s[n2] \in Nat /\ s[n2 + 1] \in Nat /\ s[Window] \in Nat
  BY <1>1, <1>n
<1>6. /\ t[n2 + 1] = s[n2 + 1] + 1 /\ t[Window] = s[Window] + 1
      /\ n2 = 0 => t[n2] = 0
      /\ n2 # 0 => t[n2] = s[n2] + 1
  BY <1>1, <1>3, <1>n
<1>7. Rate(s, r, n2, l2)
  BY <1>1, <1>n, <1>2, <1>4 DEF Rate
<1>8. t[n2 + 1] <= Budget - l2 /\ t[Window] <= t[n2 + 1] + Budget - 1
  <2>1. t[n2 + 1] = s[n2 + 1] + 1 /\ t[Window] = s[Window] + 1
    BY <1>6
  <2>2. s[n2 + 1] + 1 <= Budget - l2
    BY <1>1, <1>4, <1>5
  <2>3. s[Window] + 1 <= s[n2 + 1] + 1 + Budget - 1
    BY <1>1, <1>4, <1>5
  <2>4. QED
    BY <2>1, <2>2, <2>3
<1>9. t[n2] <= Budget - l2 - 1
  <2>1. CASE n2 = 0
    <3>1. t[n2] = 0 /\ s[n2] <= Budget - l2 - 1 /\ s[n2] >= 0
      BY <1>4, <1>5, <1>6, <2>1
    <3>2. Budget \in Int
      BY <1>1
    <3>3. QED
      BY <1>5, <3>1, <3>2
  <2>2. CASE n2 # 0
    <3>1. t[n2] = s[n2] + 1 /\ s[n2] <= Budget - l2 - 2 /\ Budget \in Int
      BY <1>1, <1>4, <1>6, <2>2
    <3>2. QED
      BY <1>5, <3>1
  <2>3. QED
    BY <2>1, <2>2
<1>10. Rate(t, r2, n2, l2)
  BY <1>1, <1>n, <1>2, <1>8, <1>9 DEF Rate
<1>11. QED
  BY <1>3, <1>7, <1>10 DEF r2, Raised

\* A tick passes.
LEMMA RateTicks ==
  ASSUME NEW s, NEW r \in [0..(Window - 1) -> Nat], NEW n \in 0..Window,
         NEW l \in Nat, Rate(s, r, n, l), NEW n2 \in Int,
         n = Window => n2 = Window, n # Window => n2 = n + 1
  PROVE  \E t : /\ Rate(t, [a \in DOMAIN r |-> IF a = 0 THEN 0 ELSE r[a - 1]], n2, l)
                /\ Delayed(t, s)
<1> DEFINE t == [k \in 0..Window |-> IF k = 0 THEN 0 ELSE s[k - 1]]
           r2 == [a \in DOMAIN r |-> IF a = 0 THEN 0 ELSE r[a - 1]]
<1>1. /\ Window \in Nat \ {0} /\ Budget \in Nat \ {0}
      /\ s[0] = 0 /\ \A k \in 0..Window : s[k] \in Nat
      /\ s[Window] = s[Window - 1] + r[Window - 1] /\ r[Window - 1] \in Nat
      /\ Window \in 1..Window
  BY RateFacts
<1>2. RecentSums(t, r2)
  BY ShiftSums DEF Rate
<1>r. r2[0] = 0
  BY <1>1
<1>3. \A k \in 1..Window : t[k] = s[k - 1]
  BY <1>1
<1> HIDE DEF t, r2
<1>4. t[Window] = s[Window - 1] /\ s[Window - 1] <= s[Window] /\ s[Window - 1] \in Nat
      /\ s[Window] \in Nat
  BY <1>1, <1>3
<1>5. CASE n = Window
  <2>1. s[Window] <= Budget - 1
    BY <1>5 DEF Rate
  <2>2. t[Window] <= Budget - 1
    BY <1>1, <1>4, <2>1
  <2>3. QED
    <3>1. Rate(t, r2, n2, l)
      BY <1>1, <1>2, <1>r, <1>5, <2>2 DEF Rate
    <3>2. QED
      BY <1>3, <3>1 DEF r2, Delayed
<1>6. CASE n # Window
  <2>1. n < Window /\ n2 = n + 1 /\ n2 \in 1..Window /\ n \in 0..Window /\ n + 1 \in 0..Window
    BY <1>1, <1>6
  <2>2. /\ s[n + 1] <= Budget - l /\ s[n] <= Budget - l - 1
        /\ s[Window] <= s[n + 1] + Budget - 1
    BY <2>1 DEF Rate
  <2>3. s[n] \in Nat /\ s[n + 1] \in Nat /\ t[n2] = s[n]
    BY <1>1, <1>3, <2>1
  <2>4. CASE n2 = Window
    <3>1. t[Window] <= Budget - 1
      BY <1>1, <2>2, <2>3, <2>4
    <3>2. QED
      <4>1. Rate(t, r2, n2, l)
        BY <1>1, <1>2, <1>r, <2>4, <3>1 DEF Rate
      <4>2. QED
        BY <1>3, <4>1 DEF r2, Delayed
  <2>5. CASE n2 # Window
    <3>1. n2 < Window /\ n2 + 1 \in 1..Window
      BY <1>1, <2>1, <2>5
    <3>2. t[n2 + 1] = s[n + 1]
      BY <1>3, <2>1, <3>1
    <3>3. /\ t[n2 + 1] <= Budget - l /\ t[n2] <= Budget - l - 1
          /\ t[Window] <= t[n2 + 1] + Budget - 1
      <4>1. t[n2 + 1] <= Budget - l /\ t[n2] <= Budget - l - 1
        BY <2>2, <2>3, <3>2
      <4>2. s[Window] <= s[n + 1] + Budget - 1 /\ t[Window] <= s[Window]
        BY <1>4, <2>2
      <4>3. QED
        BY <1>1, <1>4, <2>3, <3>2, <4>1, <4>2
    <3>4. QED
      <4>1. Rate(t, r2, n2, l)
        BY <1>2, <3>1, <3>3, <2>5 DEF Rate
      <4>2. QED
        BY <1>3, <4>1 DEF r2, Delayed
  <2>6. QED
    BY <2>4, <2>5
<1>7. QED
  BY <1>5, <1>6

LEMMA RateStep ==
  ASSUME TypeOK, RateInv, Next
  PROVE  RateInv'
<1>0. PICK s, o, c : /\ Rate(s, recent, refilled, left)
                     /\ RecentSums(o, spawned) /\ Singles(c, queue) /\ Behind(s, o, c, queue)
  BY DEF RateInv
<1>a. /\ Window \in Nat \ {0} /\ Budget \in Nat \ {0} /\ left \in 0..Budget
      /\ refilled \in 0..Window /\ recent \in [0..(Window - 1) -> Nat]
      /\ spawned \in [0..(Window - 1) -> Nat]
      /\ queue \in Seq(Request) /\ Len(queue) \in Nat /\ Len(queue) <= QueueCap
      /\ QueueCap \in Nat
  BY Parameters, LenProperties DEF TypeOK
<1>s. /\ s[0] = 0 /\ \A k \in 0..Window : s[k] \in Nat
  BY <1>0, <1>a, RateFacts
<1>o. /\ o[0] = 0 /\ \A k \in 0..Window : o[k] \in Nat
  BY <1>0, <1>a DEF RecentSums, SumsUpTo
<1>q. c[Len(queue)] \in 0..Len(queue)
  <2>1. c \in [0..Len(queue) -> Nat] /\ c[0] = 0
    BY <1>0 DEF Singles
  <2>2. c[Len(queue)] <= c[0] + (Len(queue) - 0)
    <3>1. 0 \in 0..Len(queue) /\ Len(queue) \in 0..Len(queue) /\ 0 <= Len(queue)
      BY <1>a
    <3>2. \A i, j \in 0..Len(queue) : i <= j => c[j] <= c[i] + (j - i)
      BY <1>0 DEF Singles
    <3>3. QED
      BY <3>1, <3>2
  <2>3. c[Len(queue)] \in Nat /\ c[0] \in Nat
    <3>1. 0 \in 0..Len(queue) /\ Len(queue) \in 0..Len(queue)
      BY <1>a
    <3>2. QED
      BY <2>1, <3>1
  <2>4. QED
    BY <1>a, <2>1, <2>2, <2>3
\* What follows when only the tokens change.
<1>b. ASSUME recent' = recent, spawned' = spawned, queue' = queue,
             Rate(s, recent, refilled', left')
      PROVE  RateInv'
  <2>1. /\ Rate(s, recent', refilled', left')
        /\ RecentSums(o, spawned') /\ Singles(c, queue') /\ Behind(s, o, c, queue')
    BY <1>0, <1>b
  <2>2. QED
    BY <2>1 DEF RateInv
<1>c. ASSUME Refill, Tokens > 0, left' = Tokens - 1
      PROVE  /\ \E t : /\ Rate(t, [recent EXCEPT ![0] = @ + 1], refilled', left')
                       /\ Raised(t, s)
             /\ Rate(s, recent, refilled', left')
  <2>1. /\ refilled = Window => refilled' = 0 /\ left' = Budget - 1
        /\ refilled # Window => refilled' = refilled /\ left' = left - 1
        /\ refilled' \in Int /\ left' \in Int /\ left \in Int
    BY <1>a, <1>c, TokensFacts
  <2>2. QED
    BY <1>0, <1>a, <2>1, RateTakes
<1>d. ASSUME UNCHANGED <<recent, spawned, queue, refilled, left>> PROVE RateInv'
  BY <1>0, <1>b, <1>d
<1>1. ASSUME NEW f \in Files, Suppress(f) PROVE RateInv'
  BY <1>1, <1>d DEF Suppress, vars
<1>2. ASSUME NEW f \in Files, Report(f) PROVE RateInv'
  <2>1. /\ queue' = Append(queue, Single) /\ recent' = [recent EXCEPT ![0] = @ + 1]
        /\ spawned' = spawned /\ Len(queue) + 1 <= QueueCap
    BY <1>2, <1>a DEF Report, Pass, HasRoom
  <2>2. PICK t : /\ Rate(t, recent', refilled', left')
                 /\ Raised(t, s)
    BY <1>2, <1>c, <2>1 DEF Report
  <2>3. PICK d : Singles(d, queue') /\ d[Len(queue')] = c[Len(queue)] + 1
    BY <1>0, <1>a, <2>1, AppendSingles, RequestFacts
  <2>4. Behind(t, o, d, queue')
    <3>1. SUFFICES ASSUME NEW k \in 0..Window
                   PROVE  o[k] + d[Len(queue')] <= t[k] + QueueCap
      BY DEF Behind
    <3>2. CASE k = 0
      <4>1. t[0] = 0
        BY <2>2 DEF Rate, RecentSums, SumsUpTo
      <4>2. QED
        BY <1>a, <1>o, <1>q, <2>1, <2>3, <3>2, <4>1
    <3>3. CASE k # 0
      <4>1. o[k] + c[Len(queue)] <= s[k] + QueueCap /\ t[k] = s[k] + 1
        BY <1>0, <1>a, <2>2, <3>3 DEF Behind, Raised
      <4>2. o[k] \in Nat /\ s[k] \in Nat /\ c[Len(queue)] \in Nat
        BY <1>o, <1>q, <1>s
      <4>3. QueueCap \in Nat /\ d[Len(queue')] = c[Len(queue)] + 1
        BY <1>a, <2>3
      <4>4. QED
        BY <4>1, <4>2, <4>3
    <3>4. QED
      BY <3>2, <3>3
  <2>5. RecentSums(o, spawned')
    BY <1>0, <2>1
  <2>6. QED
    BY <2>2, <2>3, <2>4, <2>5 DEF RateInv
<1>3. ASSUME NEW f \in Files, Coalesce(f) PROVE RateInv'
  <2>1. recent' = recent /\ spawned' = spawned /\ queue' = queue /\ Refill
    BY <1>3 DEF Coalesce, Pass
  <2>2. CASE Tokens = 0 /\ left' = 0
    <3>1. refilled' = refilled /\ left' = left
      BY <1>a, <2>1, <2>2, TokensFacts
    <3>2. QED
      BY <1>d, <2>1, <3>1
  <2>3. CASE Tokens > 0 /\ left' = Tokens - 1
    BY <1>b, <1>c, <2>1, <2>3
  <2>4. QED
    BY <1>3, <2>2, <2>3 DEF Coalesce
<1>4. CASE RollupIdle
  BY <1>4, <1>d DEF RollupIdle, intake
<1>5. CASE Rollup
  <2>1. UNCHANGED <<recent, spawned, refilled, left>> /\ coalesced \in Nat \ {0}
    BY <1>5 DEF Rollup, TypeOK
  <2>2. CASE queue' = Append(queue, [n |-> coalesced, rollup |-> TRUE])
    <3> DEFINE r == [n |-> coalesced, rollup |-> TRUE]
    <3>1. r \in Request /\ r # Single
      BY <2>1, RequestFacts
    <3>2. PICK d : Singles(d, queue') /\ d[Len(queue')] = c[Len(queue)]
      BY <1>0, <1>a, <2>2, <3>1, AppendSingles
    <3>3. /\ Rate(s, recent', refilled', left')
          /\ RecentSums(o, spawned') /\ Behind(s, o, d, queue')
      BY <1>0, <2>1, <3>2 DEF Behind
    <3>4. QED
      BY <3>2, <3>3 DEF RateInv
  <2>3. CASE queue' = queue
    BY <1>d, <2>1, <2>3
  <2>4. QED
    BY <1>5, <2>2, <2>3 DEF Rollup
<1>6. CASE WorkerTake
  <2>1. /\ queue # <<>> /\ queue' = Tail(queue)
        /\ UNCHANGED <<recent, refilled, left>>
        /\ \/ spawned' = spawned
           \/ spawned' = [spawned EXCEPT ![0] = @ + 1] /\ Head(queue) = Single
    BY <1>6 DEF WorkerTake, clock, intake
  <2>2. PICK d : /\ Singles(d, queue')
                 /\ Head(queue) = Single => c[Len(queue)] = d[Len(queue')] + 1
                 /\ Head(queue) # Single => c[Len(queue)] = d[Len(queue')]
    BY <1>0, <1>a, <2>1, TailSingles
  <2>3. d[Len(queue')] \in Nat
    <3>1. queue' \in Seq(Request)
      BY <1>a, <2>1, HeadTailProperties
    <3>2. QED
      BY <2>2, <3>1, LenProperties DEF Singles
  <2>4. Rate(s, recent', refilled', left')
    BY <1>0, <2>1
  <2>5. CASE spawned' = spawned
    <3>1. d[Len(queue')] <= c[Len(queue)]
      BY <2>2, <2>3
    <3>2. Behind(s, o, d, queue')
      <4>1. SUFFICES ASSUME NEW k \in 0..Window
                     PROVE  o[k] + d[Len(queue')] <= s[k] + QueueCap
        BY DEF Behind
      <4>2. o[k] + c[Len(queue)] <= s[k] + QueueCap
        BY <1>0 DEF Behind
      <4>3. o[k] \in Nat /\ s[k] \in Nat /\ c[Len(queue)] \in Nat
        BY <1>o, <1>q, <1>s
      <4>4. QED
        BY <1>a, <2>3, <3>1, <4>2, <4>3
    <3>3. RecentSums(o, spawned')
      BY <1>0, <2>5
    <3>4. QED
      BY <2>2, <2>4, <3>2, <3>3 DEF RateInv
  <2>6. CASE spawned' = [spawned EXCEPT ![0] = @ + 1] /\ Head(queue) = Single
    <3> DEFINE u == [k \in 0..Window |-> IF k = 0 THEN 0 ELSE o[k] + 1]
    <3>1. RecentSums(u, spawned')
      BY <1>0, <1>a, <2>6, SpendSums
    <3>2. u[0] = 0 /\ \A k \in 1..Window : u[k] = o[k] + 1
      BY <1>a
    <3> HIDE DEF u
    <3>3. Behind(s, u, d, queue')
      <4>1. SUFFICES ASSUME NEW k \in 0..Window
                     PROVE  u[k] + d[Len(queue')] <= s[k] + QueueCap
        BY DEF Behind
      <4>2. o[k] + c[Len(queue)] <= s[k] + QueueCap /\ c[Len(queue)] = d[Len(queue')] + 1
        BY <1>0, <2>2, <2>6 DEF Behind
      <4>3. o[k] \in Nat /\ s[k] \in Nat
        BY <1>o, <1>s
      <4>4. CASE k = 0
        BY <1>a, <1>o, <2>3, <3>2, <4>2, <4>3, <4>4
      <4>5. CASE k # 0
        <5>1. u[k] = o[k] + 1
          BY <1>a, <3>2, <4>5
        <5>2. QueueCap \in Nat /\ d[Len(queue')] \in Nat
          BY <1>a, <2>3
        <5>3. QED
          BY <4>2, <4>3, <5>1, <5>2
      <4>6. QED
        BY <4>4, <4>5
    <3>4. QED
      BY <2>2, <2>4, <3>1, <3>3 DEF RateInv
  <2>7. QED
    BY <2>1, <2>5, <2>6
<1>7. CASE EmitSucceeds \/ EmitFails
  BY <1>7, <1>d DEF EmitSucceeds, EmitFails, clock, intake
<1>8. CASE WorkerExit
  BY <1>8, <1>d DEF WorkerExit, clock, intake
<1>9. CASE Tick
  <2>1. /\ recent' = [a \in DOMAIN recent |-> IF a = 0 THEN 0 ELSE recent[a - 1]]
        /\ spawned' = [a \in DOMAIN spawned |-> IF a = 0 THEN 0 ELSE spawned[a - 1]]
        /\ left' = left /\ queue' = queue
    BY <1>9 DEF Tick, Older, intake
  <2>2. /\ refilled = Window => refilled' = Window
        /\ refilled # Window => refilled' = refilled + 1
        /\ refilled' \in Int /\ left \in Nat
    BY <1>9, <1>a DEF Tick, Min2
  <2>3. PICK t : /\ Rate(t, recent', refilled', left')
                 /\ Delayed(t, s)
    BY <1>0, <1>a, <2>1, <2>2, RateTicks
  <2> DEFINE u == [k \in 0..Window |-> IF k = 0 THEN 0 ELSE o[k - 1]]
  <2>4. RecentSums(u, spawned')
    BY <1>0, <1>a, <2>1, ShiftSums
  <2>5. u[0] = 0 /\ \A k \in 1..Window : u[k] = o[k - 1]
    BY <1>a
  <2> HIDE DEF u
  <2>6. Behind(t, u, c, queue')
    <3>1. SUFFICES ASSUME NEW k \in 0..Window
                   PROVE  u[k] + c[Len(queue)] <= t[k] + QueueCap
      BY <2>1 DEF Behind
    <3>2. CASE k = 0
      <4>1. t[0] = 0
        BY <2>3 DEF Rate, RecentSums, SumsUpTo
      <4>2. QED
        BY <1>a, <1>q, <2>5, <3>2, <4>1
    <3>3. CASE k # 0
      <4>1. k - 1 \in 0..Window /\ u[k] = o[k - 1] /\ t[k] = s[k - 1]
        BY <1>a, <2>3, <2>5, <3>3 DEF Delayed
      <4>2. QED
        BY <1>0, <4>1 DEF Behind
    <3>4. QED
      BY <3>2, <3>3
  <2>7. Singles(c, queue')
    BY <1>0, <2>1
  <2>8. QED
    BY <2>3, <2>4, <2>6, <2>7 DEF RateInv
<1>10. CASE Cancel \/ LoopReturns
  BY <1>10, <1>d DEF Cancel, LoopReturns, clock, intake
<1>11. QED
  BY <1>1, <1>2, <1>3, <1>4, <1>5, <1>6, <1>7, <1>8, <1>9, <1>10 DEF Next, Handle

-------------------------------------------------------------------------------

LEMMA SourceStep == SourceInv /\ [Next]_vars => SourceInv'
<1> SUFFICES ASSUME SourceInv, [Next]_vars PROVE SourceInv'
  OBVIOUS
<1>1. CASE Next
  BY <1>1, TypesStep, AccountStep, RateStep DEF SourceInv
<1>2. CASE UNCHANGED vars
  <2>1. TypeOK' /\ HandInv'
    BY <1>2 DEF SourceInv, TypeOK, HandInv, vars
  <2>2. AccountInv'
    BY <1>2 DEF SourceInv, AccountInv, vars
  <2>3. RateInv'
    BY <1>2 DEF SourceInv, RateInv, vars
  <2>4. QED
    BY <2>1, <2>2, <2>3 DEF SourceInv
<1>3. QED
  BY <1>1, <1>2

LEMMA SourceHolds == Spec => []SourceInv
BY SourceInit, SourceStep, PTL DEF Spec

(* The types; the queue never holds more than its capacity.                 *)
THEOREM SourceTypes == Spec => []TypeOK
<1>1. SourceInv => TypeOK
  BY DEF SourceInv
<1>2. QED
  BY <1>1, SourceHolds, PTL

(* A change that passed the debouncer waits, alone or in a rollup, or it    *)
(* was told, or the log says that it was lost: none twice (watchSource).    *)
THEOREM ChangesAccounted == Spec => []Accounted
<1>1. SourceInv => Accounted
  <2> SUFFICES ASSUME SourceInv PROVE Accounted
    OBVIOUS
  <2>1. PICK s : QueueSums(s, queue)
                 /\ passed = ended + lost + hand.n + s[Len(queue)] + coalesced
    BY DEF SourceInv, AccountInv
  <2>2. /\ Len(queue) \in Nat /\ passed \in Nat /\ ended \in Nat /\ lost \in Nat
        /\ coalesced \in Nat /\ hand.n \in Nat
    BY LenProperties, RequestFacts DEF SourceInv, TypeOK
  <2>3. \A k \in 0..Len(queue) : s[k] \in Nat /\ s[k] <= s[Len(queue)]
    <3>1. /\ s \in [0..Len(queue) -> Nat] /\ Len(queue) \in 0..Len(queue)
          /\ \A i, j \in 0..Len(queue) : i <= j => s[i] <= s[j]
      BY <2>1, <2>2 DEF QueueSums, SumsUpTo
    <3>2. SUFFICES ASSUME NEW k \in 0..Len(queue)
                   PROVE  s[k] \in Nat /\ s[k] <= s[Len(queue)]
      OBVIOUS
    <3>3. k <= Len(queue)
      BY <2>2
    <3>4. QED
      BY <3>1, <3>3
  <2>4. s[Len(queue)] \in Nat /\ s[Len(queue)] <= passed
    BY <2>1, <2>2, <2>3
  <2>5. s \in [0..Len(queue) -> 0..passed]
    <3>1. s \in [0..Len(queue) -> Nat]
      BY <2>1 DEF QueueSums, SumsUpTo
    <3>2. \A k \in 0..Len(queue) : s[k] \in 0..passed
      BY <2>2, <2>3, <2>4
    <3>3. QED
      BY <3>1, <3>2
  <2>6. QED
    BY <2>1, <2>2, <2>4, <2>5 DEF Accounted, QueueSums, SumsUpTo
<1>2. QED
  BY <1>1, SourceHolds, PTL

(* No window sees two budgets of individual emits queued (main.go,          *)
(* emitBudget), nor a whole queue more of them started than were queued in  *)
(* it (watchSource's worker).                                               *)
THEOREM RateBounded == Spec => []RateBound
<1>1. SourceInv => RateBound
  <2> SUFFICES ASSUME SourceInv PROVE RateBound
    OBVIOUS
  <2>1. PICK s, o, c : /\ Rate(s, recent, refilled, left)
                       /\ RecentSums(o, spawned) /\ Singles(c, queue)
                       /\ Behind(s, o, c, queue)
    BY DEF SourceInv, RateInv
  <2>2. /\ Window \in Nat \ {0} /\ Budget \in Nat \ {0} /\ QueueCap \in Nat \ {0}
        /\ left \in 0..Budget /\ refilled \in 0..Window
        /\ s \in [0..Window -> Nat] /\ o \in [0..Window -> Nat]
    BY <2>1, Parameters DEF Rate, SourceInv, TypeOK, RecentSums, SumsUpTo
  <2>3. \A k \in 0..Window : s[k] \in Nat /\ s[k] <= s[Window] /\ o[k] \in Nat
    BY <2>1, <2>2 DEF Rate, RecentSums, SumsUpTo
  <2>4. s[Window] <= 2 * Budget - 1
    <3>1. CASE refilled = Window
      BY <2>1, <2>2, <2>3, <3>1 DEF Rate
    <3>2. CASE refilled < Window
      <4>1. s[refilled + 1] \in Nat /\ s[Window] \in Nat
        BY <2>2, <2>3, <3>2
      <4>2. QED
        BY <2>1, <2>2, <3>2, <4>1 DEF Rate
    <3>3. QED
      BY <2>2, <3>1, <3>2
  <2>5. \A k \in 0..Window : o[k] <= s[k] + QueueCap
    <3>1. SUFFICES ASSUME NEW k \in 0..Window PROVE o[k] <= s[k] + QueueCap
      OBVIOUS
    <3>2. c[Len(queue)] \in Nat
      <4>1. Len(queue) \in Nat
        BY LenProperties DEF SourceInv, TypeOK
      <4>2. QED
        BY <2>1, <4>1 DEF Singles
    <3>3. o[k] + c[Len(queue)] <= s[k] + QueueCap
      BY <2>1 DEF Behind
    <3>4. QED
      BY <2>2, <2>3, <3>2, <3>3
  <2>6. /\ s \in [0..Window -> 0..(2 * Budget - 1 + QueueCap)]
        /\ o \in [0..Window -> 0..(2 * Budget - 1 + QueueCap)]
    <3>1. SUFFICES ASSUME NEW k \in 0..Window
                   PROVE  /\ s[k] \in 0..(2 * Budget - 1 + QueueCap)
                          /\ o[k] \in 0..(2 * Budget - 1 + QueueCap)
      BY <2>2
    <3>2. s[k] \in Nat /\ s[Window] \in Nat /\ o[k] \in Nat /\ s[k] <= s[Window]
          /\ o[k] <= s[k] + QueueCap
      BY <2>2, <2>3, <2>5
    <3>3. QED
      BY <2>2, <2>4, <3>2
  <2>7. QED
    BY <2>1, <2>4, <2>5, <2>6 DEF Rate, RateBound, RecentSums, SumsUpTo
<1>2. QED
  BY <1>1, SourceHolds, PTL
===============================================================================
