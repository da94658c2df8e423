---------------------------- MODULE FavoritosProofs ----------------------------
(***************************************************************************)
(* Theorems about Favoritos, for any places and any bounds.                *)
(*                                                                         *)
(* The queue of statements is read by position: an answer on its way will  *)
(* replace what the hearts believe, and a later one will replace it again. *)
(* What is said of the state is said of a queue q, hearts s, a page p and  *)
(* the ids t of a table, so that an action can be taken apart into sending,*)
(* answering and assigning.                                                *)
(***************************************************************************)
EXTENDS Favoritos, SequenceTheorems, TLAPS

USE PlaceAssumption

PageRec == [open : BOOLEAN, status : {"loading", "ready", "error"},
            loading : BOOLEAN, fetching : BOOLEAN, found : SUBSET Places,
            ordered : SUBSET Places, byId : SUBSET Places,
            pending : Places \cup {NoPlace}, late : SUBSET Places]

-----------------------------------------------------------------------------
(* The queue.                                                              *)
At(q, then, i) == i \in 1..Len(q) /\ q[i].then = then
Reads(q, i)    == i \in 1..Len(q) /\ q[i].then \in {"hearts", "page"}
Orders(q, i)   == At(q, "order", i) /\ q[i].mounted
LoadStep(q, i) == At(q, "page", i) \/ Orders(q, i)

(* What each continuation waits for.                                       *)
Asked(c) ==
  /\ c \in Call
  /\ c.then \in {"toggle", "detail"} <=> c.stmt # "select"
  /\ c.then \in {"toggle", "detail", "icon", "tap"} => c.id \in Places

KindSound(c) == Asked(c) /\ (c.then = "page" => c.mounted)

KindsSound(q) == \A i \in 1..Len(q) : KindSound(q[i])

(* SQLite has run the oldest ones.                                         *)
InOrder(q) ==
  \A i, j \in 1..Len(q) : i < j /\ q[i].at = "waiting" => q[j].at = "waiting"

(* A load is in one of its three steps.                                    *)
PhaseSound(q, p) ==
  /\ ~p.open => p = NoPage
  /\ p.fetching => p.loading
  /\ \A i \in 1..Len(q) : LoadStep(q, i) => p.loading /\ ~p.fetching
  /\ \A i, j \in 1..Len(q) : LoadStep(q, i) /\ LoadStep(q, j) => i = j
  /\ p.loading => p.open

(* A heart that was tapped before the page opened: the page reads after it.*)
Before(q, p, i) ==
  /\ p.ordered = {} /\ p.pending = NoPlace
  /\ \E k \in 1..Len(q) : k > i /\ At(q, "page", k)

(* A removal of the page: the place is out of the hearts, or out of the    *)
(* list until the load that reads the hearts before it has read the order  *)
(* after it.                                                               *)
OutOfHearts(q, s, i) ==
  q[i].id \notin s /\ \A k \in 1..Len(q) : Reads(q, k) => k > i
OutOfList(q, p, i) ==
  /\ q[i].id \notin p.ordered
  /\ \E k \in 1..Len(q) : (k < i /\ At(q, "page", k)) \/ (k > i /\ Orders(q, k))
Hidden(q, s, p, i) == OutOfHearts(q, s, i) \/ OutOfList(q, p, i)

Removes(q, s, p, i) ==
  /\ q[i].stmt = "delete"
  /\ q[i].id # p.pending
  /\ \A k \in 1..Len(q) : At(q, "toggle", k) /\ q[k].id = q[i].id => k = i
  /\ Hidden(q, s, p, i)

TogglesSound(q, s, p) ==
  p.open => \A i \in 1..Len(q) :
    At(q, "toggle", i) => Before(q, p, i) \/ Removes(q, s, p, i)

QueueSound(q, s, p) ==
  /\ q \in Seq(Call) /\ s \subseteq Places /\ p \in PageRec
  /\ KindsSound(q) /\ InOrder(q) /\ PhaseSound(q, p) /\ TogglesSound(q, s, p)

QueueOK == QueueSound(calls, saved, page)

QueueInv == Typed /\ QueueOK

-----------------------------------------------------------------------------
(* The order the load under way has read.                                  *)
OrderRan(q, p) == p.fetching \/ \E i \in 1..Len(q) : Orders(q, i) /\ q[i].at = "ok"

OrderHas(q, p, x) ==
  \/ p.fetching /\ x \in p.found
  \/ \E i \in 1..Len(q) : Orders(q, i) /\ q[i].at = "ok" /\ x \in q[i].rows

Brings(q, k, x) ==
  Reads(q, k) /\ (q[k].at = "waiting" \/ (q[k].at = "ok" /\ x \in q[k].rows))
Drops(q, k, x) ==
  Reads(q, k) /\ (q[k].at = "waiting" \/ (q[k].at = "ok" /\ x \notin q[k].rows))

Written(q, stmt, x) ==
  \E i \in 1..Len(q) :
    At(q, "detail", i) /\ q[i].stmt = stmt /\ q[i].id = x /\ q[i].at = "ok"

(* The hearts will learn, after the n-th answer, that x is in the table,   *)
(* or that it is not.                                                      *)
Comes(q, x, n) ==
  Written(q, "insert", x) \/ \E k \in 1..Len(q) : k > n /\ Brings(q, k, x)
Goes(q, x, n) ==
  Written(q, "delete", x) \/ \E k \in 1..Len(q) : k > n /\ Drops(q, k, x)

Removing(q, i, x) ==
  /\ At(q, "toggle", i) /\ q[i].stmt = "delete" /\ q[i].id = x
  /\ q[i].at \in {"waiting", "failed"}

IsRemoved(q, x) == \E i \in 1..Len(q) : Removing(q, i, x)

(* A place of the table that the hearts lack is coming.                    *)
HeartsCatchUp(q, s, p, t) ==
  p.open => \A x \in t :
    /\ x \notin s => Comes(q, x, 0) \/ IsRemoved(q, x)
    /\ \A i \in 1..Len(q) :
         Reads(q, i) /\ q[i].at = "ok" /\ x \notin q[i].rows => Comes(q, x, i)

(* And one that the list lacks, when nobody is loading.                    *)
ListCatchesUp(q, p, t) ==
  p.open /\ p.status = "ready" /\ ~p.loading =>
    \A x \in t \ p.late : x \notin p.ordered => Comes(q, x, 0) \/ IsRemoved(q, x)

(* The order that was read has all but the late ones.                      *)
OrderSound(q, p, t) == OrderRan(q, p) => \A x \in t \ p.late : OrderHas(q, p, x)

(* A place that has left the table is leaving the hearts, if it is or will *)
(* be listed.                                                              *)
ListLetsGo(q, s, p, t) ==
  p.open => \A x \in Places \ t : x \in p.ordered \/ OrderHas(q, p, x) =>
    /\ x \in s => Goes(q, x, 0)
    /\ \A i \in 1..Len(q) :
         Reads(q, i) /\ q[i].at = "ok" /\ x \in q[i].rows => Goes(q, x, i)
    /\ \A i \in 1..Len(q) : Removing(q, i, x) => Goes(q, x, i)

NothingRefused(q) ==
  \A i \in 1..Len(q) : q[i].stmt = "select" => q[i].at # "failed"

TableSound(q, s, p, t) ==
  /\ QueueSound(q, s, p) /\ t \subseteq Places /\ NothingRefused(q)
  /\ HeartsCatchUp(q, s, p, t) /\ OrderSound(q, p, t) /\ ListLetsGo(q, s, p, t)

Caught ==
  TableSound(calls, saved, page, Ids(fav)) /\ ListCatchesUp(calls, page, Ids(fav))

TableInv == Typed /\ Caught

-----------------------------------------------------------------------------
(* Sequences.                                                              *)
LEMMA Sent ==
  ASSUME NEW q \in Seq(Call), NEW c \in Call
  PROVE  LET r == Append(q, c) IN
         /\ r \in Seq(Call) /\ Len(q) \in Nat /\ Len(r) = Len(q) + 1
         /\ \A i \in 1..Len(q) : i \in 1..Len(r) /\ r[i] = q[i]
         /\ Len(r) \in 1..Len(r) /\ r[Len(r)] = c
         /\ \A i \in 1..Len(r) : i \in 1..Len(q) \/ i = Len(r)
BY AppendProperties, LenProperties

LEMMA Taken ==
  ASSUME NEW q \in Seq(Call), q # <<>>
  PROVE  LET r == Tail(q) IN
         /\ r \in Seq(Call) /\ Len(q) \in Nat /\ Len(r) = Len(q) - 1
         /\ \A i \in 1..Len(r) : i + 1 \in 1..Len(q) /\ r[i] = q[i + 1]
         /\ \A i \in 1..Len(q) : i > 1 => i - 1 \in 1..Len(r) /\ r[i - 1] = q[i]
         /\ 1 \in 1..Len(q) /\ Head(q) = q[1] /\ \A i \in 1..Len(q) : i = 1 \/ i > 1
BY HeadTailProperties, LenProperties, EmptySeq

LEMMA AskIs ==
  ASSUME NEW stmt \in {"select", "insert", "delete"},
         NEW then \in {"hearts", "page", "order", "icon", "tap", "toggle", "detail"},
         NEW id \in Places \cup {NoPlace}
  PROVE  LET c == Ask(stmt, then, id) IN
         /\ c \in Call /\ c.stmt = stmt /\ c.then = then /\ c.id = id
         /\ c.at = "waiting" /\ c.mounted
BY DEF Ask, Call

-----------------------------------------------------------------------------
(* Sending what is neither a heart nor a step of a load.                   *)
Neutral(c) ==
  /\ KindSound(c) /\ c.at = "waiting"
  /\ c.then \notin {"toggle", "page"} /\ (c.then = "order" => ~c.mounted)

LEMMA SendKeepsQueue ==
  ASSUME NEW q, NEW s, NEW p, QueueSound(q, s, p), NEW c, Neutral(c)
  PROVE  QueueSound(Append(q, c), s, p)
<1> DEFINE r == Append(q, c)
<1>1. /\ q \in Seq(Call) /\ c \in Call
  BY DEF QueueSound, Neutral, KindSound, Asked
<1>2. /\ r \in Seq(Call) /\ Len(q) \in Nat /\ Len(r) = Len(q) + 1
      /\ \A i \in 1..Len(q) : i \in 1..Len(r) /\ r[i] = q[i]
      /\ Len(r) \in 1..Len(r) /\ r[Len(r)] = c
      /\ \A i \in 1..Len(r) : i \in 1..Len(q) \/ i = Len(r)
  BY <1>1, Sent
<1> HIDE DEF r
<1>3. KindsSound(r)
  BY <1>2 DEF QueueSound, KindsSound, Neutral
<1>4. InOrder(r)
  BY <1>2 DEF QueueSound, InOrder, Neutral
<1>5. PhaseSound(r, p)
  BY <1>2 DEF QueueSound, PhaseSound, LoadStep, Orders, At, Neutral
<1>6. TogglesSound(r, s, p)
  <2> SUFFICES ASSUME p.open, NEW i \in 1..Len(r), At(r, "toggle", i)
               PROVE  Before(r, p, i) \/ Removes(r, s, p, i)
    BY DEF TogglesSound
  <2>1. i \in 1..Len(q) /\ At(q, "toggle", i) /\ r[i] = q[i]
    BY <1>2 DEF At, Neutral
  <2>2. CASE Before(q, p, i)
    BY <1>2, <2>2 DEF Before, At
  <2>3. CASE Removes(q, s, p, i)
    <3>1. \A k \in 1..Len(r) : At(r, "toggle", k) /\ r[k].id = r[i].id => k = i
      BY <1>2, <2>1, <2>3 DEF Removes, At, Neutral
    <3>2. Hidden(r, s, p, i)
      BY <1>2, <2>1, <2>3
         DEF Removes, Hidden, OutOfHearts, OutOfList, At, Reads, Orders, Neutral
    <3>3. QED
      BY <2>1, <2>3, <3>1, <3>2 DEF Removes
  <2>4. QED
    BY <2>1, <2>2, <2>3 DEF QueueSound, TogglesSound
<1>7. QED
  BY <1>2, <1>3, <1>4, <1>5, <1>6 DEF QueueSound, r

LEMMA SendKeepsTable ==
  ASSUME NEW q, NEW s, NEW p, NEW t, TableSound(q, s, p, t), NEW c, Neutral(c)
  PROVE  /\ TableSound(Append(q, c), s, p, t)
         /\ ListCatchesUp(q, p, t) => ListCatchesUp(Append(q, c), p, t)
<1> DEFINE r == Append(q, c)
<1>1. /\ q \in Seq(Call) /\ c \in Call
  BY DEF TableSound, QueueSound, Neutral, KindSound, Asked
<1>2. /\ r \in Seq(Call) /\ Len(q) \in Nat /\ Len(r) = Len(q) + 1
      /\ \A i \in 1..Len(q) : i \in 1..Len(r) /\ r[i] = q[i]
      /\ Len(r) \in 1..Len(r) /\ r[Len(r)] = c
      /\ \A i \in 1..Len(r) : i \in 1..Len(q) \/ i = Len(r)
  BY <1>1, Sent
<1>3. QueueSound(r, s, p)
  BY SendKeepsQueue DEF TableSound
<1> HIDE DEF r
<1>4. NothingRefused(r)
  BY <1>2 DEF TableSound, NothingRefused, Neutral
<1>5. /\ \A x, n : Comes(q, x, n) => Comes(r, x, n)
      /\ \A x, n : Goes(q, x, n) => Goes(r, x, n)
  BY <1>2 DEF Comes, Goes, Written, Brings, Drops, Reads, At
<1>6. /\ \A x : IsRemoved(q, x) => IsRemoved(r, x)
      /\ \A x : \A i \in 1..Len(r) : Removing(r, i, x) => i \in 1..Len(q) /\ Removing(q, i, x)
  BY <1>2 DEF IsRemoved, Removing, At, Neutral
<1>7. /\ OrderRan(r, p) <=> OrderRan(q, p)
      /\ \A x : OrderHas(r, p, x) <=> OrderHas(q, p, x)
  BY <1>2 DEF OrderRan, OrderHas, Orders, At, Neutral
<1>8. \A i \in 1..Len(r) : Reads(r, i) /\ r[i].at = "ok"
        => i \in 1..Len(q) /\ Reads(q, i) /\ r[i] = q[i]
  BY <1>2 DEF Reads, Neutral
<1>9. HeartsCatchUp(r, s, p, t)
  BY <1>5, <1>6, <1>8 DEF TableSound, HeartsCatchUp
<1>10. OrderSound(r, p, t)
  BY <1>7 DEF TableSound, OrderSound
<1>11. ListLetsGo(r, s, p, t)
  BY <1>5, <1>6, <1>7, <1>8 DEF TableSound, ListLetsGo
<1>12. ListCatchesUp(q, p, t) => ListCatchesUp(r, p, t)
  BY <1>5, <1>6 DEF ListCatchesUp
<1>13. QED
  BY <1>3, <1>4, <1>9, <1>10, <1>11, <1>12 DEF TableSound, r

-----------------------------------------------------------------------------
(* Taking the answer of what is not a step of a load.  The hearts may get  *)
(* what they were asked to read, or the place of a heart that was refused. *)
Gained(q, s, u) ==
  /\ u \subseteq Places
  /\ \A x \in u \ s : q[1].then = "hearts" \/ (q[1].then = "toggle" /\ x = q[1].id)

LEMMA TakeKeepsQueue ==
  ASSUME NEW q, NEW s, NEW p, QueueSound(q, s, p), q # <<>>, ~LoadStep(q, 1),
         NEW u, Gained(q, s, u)
  PROVE  QueueSound(Tail(q), u, p)
<1> DEFINE r == Tail(q)
<1>1. q \in Seq(Call)
  BY DEF QueueSound
<1>2. /\ r \in Seq(Call) /\ Len(q) \in Nat /\ Len(r) = Len(q) - 1
      /\ \A i \in 1..Len(r) : i + 1 \in 1..Len(q) /\ r[i] = q[i + 1]
      /\ \A i \in 1..Len(q) : i > 1 => i - 1 \in 1..Len(r) /\ r[i - 1] = q[i]
      /\ 1 \in 1..Len(q) /\ \A i \in 1..Len(q) : i = 1 \/ i > 1
  BY <1>1, Taken
<1> HIDE DEF r
<1>3. KindsSound(r)
  BY <1>2 DEF QueueSound, KindsSound
<1>4. InOrder(r)
  BY <1>2 DEF QueueSound, InOrder
<1>5. PhaseSound(r, p)
  <2>1. \A i \in 1..Len(r) : LoadStep(r, i) => LoadStep(q, i + 1)
    BY <1>2 DEF LoadStep, Orders, At
  <2>2. QED
    BY <1>2, <2>1 DEF QueueSound, PhaseSound
<1>6. TogglesSound(r, u, p)
  <2> SUFFICES ASSUME p.open, NEW i \in 1..Len(r), At(r, "toggle", i)
               PROVE  Before(r, p, i) \/ Removes(r, u, p, i)
    BY DEF TogglesSound
  <2>1. i + 1 \in 1..Len(q) /\ At(q, "toggle", i + 1) /\ r[i] = q[i + 1]
    BY <1>2 DEF At
  <2>2. CASE Before(q, p, i + 1)
    BY <1>2, <2>2 DEF Before, At
  <2>3. CASE Removes(q, s, p, i + 1)
    <3>1. \A k \in 1..Len(r) : At(r, "toggle", k) /\ r[k].id = r[i].id => k = i
      BY <1>2, <2>1, <2>3 DEF Removes, At
    <3>2. ASSUME OutOfHearts(q, s, i + 1)
          PROVE  OutOfHearts(r, u, i)
      <4>1. ~Reads(q, 1)
        BY <1>2, <2>1, <3>2 DEF OutOfHearts
      <4>2. ~(q[1].then = "toggle" /\ q[1].id = q[i + 1].id)
        BY <1>2, <2>1, <2>3 DEF Removes, At
      <4>3. r[i].id \notin u
        BY <1>2, <2>1, <3>2, <4>1, <4>2 DEF Gained, Reads, OutOfHearts
      <4>4. \A k \in 1..Len(r) : Reads(r, k) => Reads(q, k + 1)
        BY <1>2 DEF Reads
      <4>5. \A k \in 1..Len(r) : Reads(r, k) => k > i
        BY <1>2, <3>2, <4>4 DEF OutOfHearts
      <4>6. QED
        BY <4>3, <4>5 DEF OutOfHearts
    <3>3. ASSUME OutOfList(q, p, i + 1)
          PROVE  OutOfList(r, p, i)
      <4>1. PICK k \in 1..Len(q) : \/ k < i + 1 /\ At(q, "page", k)
                                   \/ k > i + 1 /\ Orders(q, k)
        BY <3>3 DEF OutOfList
      <4>2. k > 1 /\ k - 1 \in 1..Len(r) /\ r[k - 1] = q[k]
        BY <1>2, <4>1 DEF LoadStep
      <4>3. (k - 1 < i /\ At(r, "page", k - 1)) \/ (k - 1 > i /\ Orders(r, k - 1))
        BY <1>2, <2>1, <4>1, <4>2 DEF At, Orders
      <4>4. QED
        BY <2>1, <3>3, <4>2, <4>3 DEF OutOfList
    <3>4. Hidden(r, u, p, i)
      BY <2>3, <3>2, <3>3 DEF Removes, Hidden
    <3>5. QED
      BY <2>1, <2>3, <3>1, <3>4 DEF Removes
  <2>4. QED
    BY <2>1, <2>2, <2>3 DEF QueueSound, TogglesSound
<1>7. QED
  BY <1>2, <1>3, <1>4, <1>5, <1>6 DEF QueueSound, Gained, r

(* The last statement is a read that SQLite has not run.                   *)
EndsInRead(q) == Reads(q, Len(q)) /\ q[Len(q)].at = "waiting"

(* What is behind the head stays behind it.                                *)
LEMMA TakeShifts ==
  ASSUME NEW q \in Seq(Call), q # <<>>, q[1].then = "detail" => EndsInRead(q)
  PROVE  LET r == Tail(q) IN
         /\ \A x : \A n \in 1..Len(q) :
              /\ Comes(q, x, n) /\ (q[1].then = "detail" => n < Len(q)) => Comes(r, x, n - 1)
              /\ Goes(q, x, n) /\ (q[1].then = "detail" => n < Len(q)) => Goes(r, x, n - 1)
         /\ \A x : ~Reads(q, 1) =>
              /\ Comes(q, x, 0) => Comes(r, x, 0)
              /\ Goes(q, x, 0) => Goes(r, x, 0)
         /\ \A x : Comes(q, x, 0) => Comes(r, x, 0) \/ Brings(q, 1, x)
         /\ \A x : \A i \in 1..Len(r) : Removing(r, i, x) => Removing(q, i + 1, x)
         /\ \A x : IsRemoved(q, x) => IsRemoved(r, x) \/ Removing(q, 1, x)
         /\ \A i \in 1..Len(r) : Reads(r, i) => Reads(q, i + 1)
<1> DEFINE r == Tail(q)
<1>1. /\ r \in Seq(Call) /\ Len(q) \in Nat /\ Len(r) = Len(q) - 1
      /\ \A i \in 1..Len(r) : i + 1 \in 1..Len(q) /\ r[i] = q[i + 1]
      /\ \A i \in 1..Len(q) : i > 1 => i - 1 \in 1..Len(r) /\ r[i - 1] = q[i]
      /\ 1 \in 1..Len(q) /\ \A i \in 1..Len(q) : i = 1 \/ i > 1
  BY Taken
<1> HIDE DEF r
<1>2. \A k \in 1..Len(q) : k > 1 =>
        /\ k - 1 \in 1..Len(r)
        /\ \A x : Brings(q, k, x) => Brings(r, k - 1, x)
        /\ \A x : Drops(q, k, x) => Drops(r, k - 1, x)
  BY <1>1 DEF Brings, Drops, Reads
<1>3. \A stmt, x : Written(q, stmt, x) => Written(r, stmt, x) \/ q[1].then = "detail"
  BY <1>1 DEF Written, At
<1>4. q[1].then = "detail" =>
        /\ Len(q) > 1 /\ Len(q) \in 1..Len(q)
        /\ \A x : Brings(q, Len(q), x) /\ Drops(q, Len(q), x)
  BY <1>1 DEF EndsInRead, Reads, Brings, Drops
<1>5. \A x : \A n \in 1..Len(q) :
        /\ Comes(q, x, n) /\ (q[1].then = "detail" => n < Len(q)) => Comes(r, x, n - 1)
        /\ Goes(q, x, n) /\ (q[1].then = "detail" => n < Len(q)) => Goes(r, x, n - 1)
  <2> SUFFICES ASSUME NEW x, NEW n \in 1..Len(q), q[1].then = "detail" => n < Len(q)
               PROVE  /\ Comes(q, x, n) => Comes(r, x, n - 1)
                      /\ Goes(q, x, n) => Goes(r, x, n - 1)
    OBVIOUS
  <2>1. \A k \in 1..Len(q) : k > n => k > 1 /\ k - 1 > n - 1
    BY <1>1
  <2>2. Comes(q, x, n) => Comes(r, x, n - 1)
    BY <1>1, <1>2, <1>3, <1>4, <2>1 DEF Comes
  <2>3. Goes(q, x, n) => Goes(r, x, n - 1)
    BY <1>1, <1>2, <1>3, <1>4, <2>1 DEF Goes
  <2>4. QED
    BY <2>2, <2>3
<1>6. \A k \in 1..Len(q) : k > 1 => k - 1 > 0 /\ k - 1 \in 1..Len(r)
  BY <1>1
<1>7. \A x : /\ Comes(q, x, 0) => Comes(r, x, 0) \/ Brings(q, 1, x)
             /\ Goes(q, x, 0) => Goes(r, x, 0) \/ Drops(q, 1, x)
  BY <1>1, <1>2, <1>3, <1>4, <1>6 DEF Comes, Goes
<1>8. \A x : ~Reads(q, 1) => ~Brings(q, 1, x) /\ ~Drops(q, 1, x)
  BY DEF Brings, Drops
<1>9. \A x : \A i \in 1..Len(r) : Removing(r, i, x) => Removing(q, i + 1, x)
  BY <1>1 DEF Removing, At
<1>10. \A x : IsRemoved(q, x) => IsRemoved(r, x) \/ Removing(q, 1, x)
  BY <1>1 DEF IsRemoved, Removing, At
<1>11. \A i \in 1..Len(r) : Reads(r, i) => Reads(q, i + 1)
  BY <1>1 DEF Reads
<1>12. QED
  BY <1>5, <1>7, <1>8, <1>9, <1>10, <1>11 DEF r

(* The hearts after the first answer.                                      *)
AfterAnswer(q, s) ==
  IF q[1].then = "hearts" THEN q[1].rows
  ELSE IF q[1].then = "toggle" /\ q[1].at = "failed"
    THEN IF q[1].stmt = "delete" THEN s \cup {q[1].id} ELSE s \ {q[1].id}
  ELSE s

(* That answer is assigned to the hearts.                                  *)
Assigns(q) == q[1].then = "hearts" \/ (q[1].then = "toggle" /\ q[1].at = "failed")

LEMMA TakeKeepsTable ==
  ASSUME NEW q, NEW s, NEW p, NEW t, TableSound(q, s, p, t),
         q # <<>>, ~LoadStep(q, 1), q[1].at # "waiting",
         q[1].then = "detail" => EndsInRead(q)
  PROVE  LET u == AfterAnswer(q, s) IN
         /\ TableSound(Tail(q), u, p, t)
         /\ ListCatchesUp(q, p, t) /\ (Assigns(q) => ~Reloads(p, u))
              => ListCatchesUp(Tail(q), p, t)
<1> DEFINE r == Tail(q)
<1> DEFINE u == AfterAnswer(q, s)
<1>0. /\ q \in Seq(Call) /\ KindsSound(q) /\ InOrder(q) /\ QueueSound(q, s, p)
      /\ NothingRefused(q)
  BY DEF TableSound, QueueSound
<1>1. /\ r \in Seq(Call) /\ Len(q) \in Nat /\ Len(r) = Len(q) - 1
      /\ \A i \in 1..Len(r) : i + 1 \in 1..Len(q) /\ r[i] = q[i + 1]
      /\ \A i \in 1..Len(q) : i > 1 => i - 1 \in 1..Len(r) /\ r[i - 1] = q[i]
      /\ 1 \in 1..Len(q) /\ \A i \in 1..Len(q) : i = 1 \/ i > 1
  BY <1>0, Taken
<1>2. /\ \A x : \A n \in 1..Len(q) :
           /\ Comes(q, x, n) /\ (q[1].then = "detail" => n < Len(q)) => Comes(r, x, n - 1)
           /\ Goes(q, x, n) /\ (q[1].then = "detail" => n < Len(q)) => Goes(r, x, n - 1)
      /\ \A x : ~Reads(q, 1) => /\ Comes(q, x, 0) => Comes(r, x, 0)
                                /\ Goes(q, x, 0) => Goes(r, x, 0)
      /\ \A x : Comes(q, x, 0) => Comes(r, x, 0) \/ Brings(q, 1, x)
      /\ \A x : \A i \in 1..Len(r) : Removing(r, i, x) => Removing(q, i + 1, x)
      /\ \A x : IsRemoved(q, x) => IsRemoved(r, x) \/ Removing(q, 1, x)
      /\ \A i \in 1..Len(r) : Reads(r, i) => Reads(q, i + 1)
  BY <1>0, TakeShifts
<1>3. KindSound(q[1]) /\ q[1].at \in {"ok", "failed"}
  BY <1>0, <1>1 DEF KindsSound, KindSound, Asked, Call
<1>4. q[1].then \notin {"toggle", "detail"} => q[1].at = "ok"
  BY <1>0, <1>1, <1>3 DEF NothingRefused, KindSound, Asked
<1>5. Reads(q, 1) => q[1].then = "hearts" /\ q[1].at = "ok" /\ u = q[1].rows
  BY <1>1, <1>4 DEF LoadStep, Reads, At, AfterAnswer
<1>6. \A x : Removing(q, 1, x) => x \in u /\ q[1].at = "failed" /\ x = q[1].id
  BY <1>3 DEF Removing, At, AfterAnswer
<1> HIDE DEF r, u
<1>7. Gained(q, s, u)
  <2>1. q[1].rows \subseteq Places /\ q[1].id \in Places \cup {NoPlace}
    BY <1>3 DEF KindSound, Asked, Call
  <2>2. q[1].then = "toggle" => q[1].id \in Places
    BY <1>3 DEF KindSound, Asked
  <2>3. s \subseteq Places
    BY <1>0 DEF QueueSound
  <2>4. QED
    BY <2>1, <2>2, <2>3 DEF Gained, AfterAnswer, u
<1>8. QueueSound(r, u, p)
  BY <1>0, <1>7, TakeKeepsQueue DEF r
<1>9. NothingRefused(r)
  BY <1>0, <1>1 DEF NothingRefused
<1>10. /\ OrderRan(r, p) <=> OrderRan(q, p)
       /\ \A x : OrderHas(r, p, x) <=> OrderHas(q, p, x)
  <2>1. \A i \in 1..Len(r) : Orders(r, i) => Orders(q, i + 1) /\ r[i] = q[i + 1]
    BY <1>1 DEF Orders, At
  <2>2. \A i \in 1..Len(q) : Orders(q, i) =>
          i - 1 \in 1..Len(r) /\ Orders(r, i - 1) /\ r[i - 1] = q[i]
    BY <1>1 DEF Orders, At, LoadStep
  <2>3. QED
    BY <1>1, <2>1, <2>2 DEF OrderRan, OrderHas
<1>11. \A i \in 1..Len(q) : i < Len(q) \/ i = Len(q)
  BY <1>1
<1>12. ASSUME p.open, NEW x \in t
       PROVE  /\ x \notin u => Comes(r, x, 0) \/ IsRemoved(r, x)
              /\ \A i \in 1..Len(r) :
                   Reads(r, i) /\ r[i].at = "ok" /\ x \notin r[i].rows => Comes(r, x, i)
  <2>1. /\ x \notin s => Comes(q, x, 0) \/ IsRemoved(q, x)
        /\ \A i \in 1..Len(q) :
             Reads(q, i) /\ q[i].at = "ok" /\ x \notin q[i].rows => Comes(q, x, i)
    BY <1>12 DEF TableSound, HeartsCatchUp
  <2>2. ASSUME NEW i \in 1..Len(r), Reads(r, i), r[i].at = "ok", x \notin r[i].rows
        PROVE  Comes(r, x, i)
    <3>1. i + 1 \in 1..Len(q) /\ Reads(q, i + 1) /\ q[i + 1].at = "ok" /\ x \notin q[i + 1].rows
      BY <1>1, <1>2, <2>2
    <3>2. Comes(q, x, i + 1)
      BY <2>1, <3>1
    <3>3. q[1].then = "detail" => i + 1 < Len(q)
      BY <1>11, <3>1 DEF EndsInRead
    <3>4. Comes(r, x, (i + 1) - 1)
      BY <1>2, <3>1, <3>2, <3>3
    <3>5. (i + 1) - 1 = i
      BY <1>1
    <3>6. QED
      BY <3>4, <3>5
  <2>3. ASSUME x \notin u
        PROVE  Comes(r, x, 0) \/ IsRemoved(r, x)
    <3>1. CASE Reads(q, 1)
      <4>1. Comes(q, x, 1)
        BY <1>1, <1>5, <2>1, <2>3, <3>1
      <4>2. Comes(r, x, 1 - 1)
        BY <1>1, <1>2, <1>5, <3>1, <4>1
      <4>3. QED
        BY <4>2
    <3>2. CASE ~Reads(q, 1) /\ x \notin s
      BY <1>2, <1>6, <2>1, <2>3, <3>2
    <3>3. CASE ~Reads(q, 1) /\ x \in s
      <4>1. At(q, "toggle", 1) /\ q[1].stmt # "delete"
        BY <1>1, <1>5, <2>3, <3>3 DEF AfterAnswer, u, At, Reads
      <4>2. Before(q, p, 1)
        BY <1>0, <1>1, <1>12, <4>1 DEF QueueSound, TogglesSound, Removes
      <4>3. PICK k \in 1..Len(q) : k > 1 /\ At(q, "page", k)
        BY <4>2 DEF Before
      <4>4. Reads(q, k) /\ KindSound(q[k])
        BY <1>0, <4>3 DEF At, Reads, KindsSound
      <4>5. q[k].at \in {"waiting", "ok"}
        BY <1>0, <4>3, <4>4 DEF NothingRefused, KindSound, Asked, Call, At
      <4>6. Brings(q, k, x) \/ Comes(q, x, k)
        BY <2>1, <4>4, <4>5 DEF Brings
      <4>7. k > 0
        OBVIOUS
      <4>8. Comes(q, x, 0)
        BY <4>6, <4>7 DEF Comes
      <4>9. QED
        BY <1>2, <3>3, <4>8
    <3>4. QED
      BY <3>1, <3>2, <3>3
  <2>4. QED
    BY <2>2, <2>3
<1>13. HeartsCatchUp(r, u, p, t)
  BY <1>12 DEF HeartsCatchUp
<1>14. OrderSound(r, p, t)
  BY <1>10 DEF TableSound, OrderSound
<1>15. ASSUME p.open, NEW x \in Places \ t, x \in p.ordered \/ OrderHas(r, p, x)
       PROVE  /\ x \in u => Goes(r, x, 0)
              /\ \A i \in 1..Len(r) :
                   Reads(r, i) /\ r[i].at = "ok" /\ x \in r[i].rows => Goes(r, x, i)
              /\ \A i \in 1..Len(r) : Removing(r, i, x) => Goes(r, x, i)
  <2>1. /\ x \in s => Goes(q, x, 0)
        /\ \A i \in 1..Len(q) :
             Reads(q, i) /\ q[i].at = "ok" /\ x \in q[i].rows => Goes(q, x, i)
        /\ \A i \in 1..Len(q) : Removing(q, i, x) => Goes(q, x, i)
    BY <1>10, <1>15 DEF TableSound, ListLetsGo
  <2>2. ASSUME NEW i \in 1..Len(r),
               (Reads(r, i) /\ r[i].at = "ok" /\ x \in r[i].rows) \/ Removing(r, i, x)
        PROVE  Goes(r, x, i)
    <3>1. /\ i + 1 \in 1..Len(q)
          /\ \/ Reads(q, i + 1) /\ q[i + 1].at = "ok" /\ x \in q[i + 1].rows
             \/ Removing(q, i + 1, x)
      BY <1>1, <1>2, <2>2
    <3>2. Goes(q, x, i + 1)
      BY <2>1, <3>1
    <3>3. q[1].then = "detail" => i + 1 < Len(q)
      BY <1>11, <3>1 DEF EndsInRead, Reads, Removing, At
    <3>4. Goes(r, x, (i + 1) - 1)
      BY <1>2, <3>1, <3>2, <3>3
    <3>5. (i + 1) - 1 = i
      BY <1>1
    <3>6. QED
      BY <3>4, <3>5
  <2>3. ASSUME x \in u
        PROVE  Goes(r, x, 0)
    <3>1. CASE Reads(q, 1) \/ Removing(q, 1, x)
      <4>1. Goes(q, x, 1)
        BY <1>1, <1>5, <2>1, <2>3, <3>1
      <4>2. q[1].then # "detail"
        BY <3>1 DEF Reads, Removing, At
      <4>3. Goes(r, x, 1 - 1)
        BY <1>1, <1>2, <4>1, <4>2
      <4>4. QED
        BY <4>3
    <3>2. CASE ~Reads(q, 1) /\ ~Removing(q, 1, x)
      <4>1. x \in s
        BY <1>1, <1>3, <2>3, <3>2 DEF u, AfterAnswer, Reads, Removing, At
      <4>2. QED
        BY <1>2, <2>1, <3>2, <4>1
    <3>3. QED
      BY <3>1, <3>2
  <2>4. QED
    BY <2>2, <2>3
<1>16. ListLetsGo(r, u, p, t)
  BY <1>15 DEF ListLetsGo
<1>17. ASSUME ListCatchesUp(q, p, t), Assigns(q) => ~Reloads(p, u)
       PROVE  ListCatchesUp(r, p, t)
  <2> SUFFICES ASSUME p.open, p.status = "ready", ~p.loading,
                      NEW x \in t \ p.late, x \notin p.ordered
               PROVE  Comes(r, x, 0) \/ IsRemoved(r, x)
    BY DEF ListCatchesUp
  <2>1. Comes(q, x, 0) \/ IsRemoved(q, x)
    BY <1>17 DEF ListCatchesUp
  <2>2. CASE Assigns(q)
    BY <1>12, <1>17, <2>2 DEF Reloads
  <2>3. CASE ~Assigns(q)
    <3>1. ~Reads(q, 1) /\ ~Removing(q, 1, x)
      BY <1>5, <1>6, <2>3 DEF Assigns, Removing, At
    <3>2. QED
      BY <1>2, <2>1, <3>1
  <2>4. QED
    BY <2>2, <2>3
<1>18. QED
  BY <1>8, <1>9, <1>13, <1>14, <1>16, <1>17 DEF TableSound, u, r

-----------------------------------------------------------------------------
(* A load begins.                                                          *)
LEMMA PageIs ==
  ASSUME NEW p \in PageRec, NEW st \in {"loading", "ready", "error"}
  PROVE  LET v == [p EXCEPT !.loading = TRUE, !.status = st] IN
         /\ v \in PageRec /\ v.loading /\ v.status = st
         /\ (p.open => v.open) /\ v.fetching = p.fetching /\ v.found = p.found
         /\ v.ordered = p.ordered /\ v.pending = p.pending /\ v.late = p.late
         /\ v.byId = p.byId
BY DEF PageRec

LEMMA LoadPageIs ==
  /\ LoadPage \in Call /\ KindSound(LoadPage) /\ LoadPage.then = "page"
  /\ LoadPage.at = "waiting" /\ LoadPage.stmt = "select"
BY AskIs DEF LoadPage, KindSound, Asked, Ask

LEMMA LoadKeepsQueue ==
  ASSUME NEW q, NEW s, NEW p, QueueSound(q, s, p), p.open, ~p.loading,
         NEW st \in {"loading", "ready", "error"}
  PROVE  QueueSound(Append(q, LoadPage), s, [p EXCEPT !.loading = TRUE, !.status = st])
<1> DEFINE r == Append(q, LoadPage)
<1> DEFINE v == [p EXCEPT !.loading = TRUE, !.status = st]
<1>1. q \in Seq(Call) /\ p \in PageRec
  BY DEF QueueSound
<1>2. /\ r \in Seq(Call) /\ Len(q) \in Nat /\ Len(r) = Len(q) + 1
      /\ \A i \in 1..Len(q) : i \in 1..Len(r) /\ r[i] = q[i]
      /\ Len(r) \in 1..Len(r) /\ r[Len(r)] = LoadPage
      /\ \A i \in 1..Len(r) : i \in 1..Len(q) \/ i = Len(r)
  BY <1>1, LoadPageIs, Sent
<1>3. /\ v \in PageRec /\ v.loading /\ v.open /\ v.fetching = p.fetching
      /\ v.ordered = p.ordered /\ v.pending = p.pending
  BY <1>1, PageIs
<1> HIDE DEF r, v
<1>4. KindsSound(r)
  BY <1>2, LoadPageIs DEF QueueSound, KindsSound
<1>5. InOrder(r)
  BY <1>2, LoadPageIs DEF QueueSound, InOrder
<1>6. \A i \in 1..Len(r) : LoadStep(r, i) <=> i = Len(r)
  BY <1>2, LoadPageIs DEF QueueSound, PhaseSound, LoadStep, Orders, At
<1>7. PhaseSound(r, v)
  BY <1>3, <1>6 DEF QueueSound, PhaseSound
<1>8. TogglesSound(r, s, v)
  <2> SUFFICES ASSUME NEW i \in 1..Len(r), At(r, "toggle", i)
               PROVE  Before(r, v, i) \/ Removes(r, s, v, i)
    BY DEF TogglesSound
  <2>1. i \in 1..Len(q) /\ At(q, "toggle", i) /\ r[i] = q[i] /\ Len(r) > i
    BY <1>2, LoadPageIs DEF At
  <2>2. CASE Before(q, p, i)
    BY <1>2, <1>3, <2>2 DEF Before, At
  <2>3. CASE Removes(q, s, p, i)
    <3>1. \A k \in 1..Len(r) : At(r, "toggle", k) /\ r[k].id = r[i].id => k = i
      BY <1>2, <2>1, <2>3, LoadPageIs DEF Removes, At
    <3>2. Hidden(r, s, v, i)
      BY <1>2, <1>3, <2>1, <2>3, LoadPageIs
         DEF Removes, Hidden, OutOfHearts, OutOfList, At, Reads, Orders
    <3>3. QED
      BY <1>3, <2>1, <2>3, <3>1, <3>2 DEF Removes
  <2>4. QED
    BY <2>1, <2>2, <2>3 DEF QueueSound, TogglesSound
<1>9. s \subseteq Places
  BY DEF QueueSound
<1>10. QED
  BY <1>2, <1>3, <1>4, <1>5, <1>7, <1>8, <1>9 DEF QueueSound, r, v

LEMMA LoadKeepsTable ==
  ASSUME NEW q, NEW s, NEW p, NEW t, TableSound(q, s, p, t), p.open, ~p.loading,
         NEW st \in {"loading", "ready", "error"}
  PROVE  LET v == [p EXCEPT !.loading = TRUE, !.status = st] IN
         /\ TableSound(Append(q, LoadPage), s, v, t)
         /\ ListCatchesUp(Append(q, LoadPage), v, t)
<1> DEFINE r == Append(q, LoadPage)
<1> DEFINE v == [p EXCEPT !.loading = TRUE, !.status = st]
<1>1. q \in Seq(Call) /\ p \in PageRec
  BY DEF TableSound, QueueSound
<1>2. /\ r \in Seq(Call) /\ Len(q) \in Nat /\ Len(r) = Len(q) + 1
      /\ \A i \in 1..Len(q) : i \in 1..Len(r) /\ r[i] = q[i]
      /\ Len(r) \in 1..Len(r) /\ r[Len(r)] = LoadPage
      /\ \A i \in 1..Len(r) : i \in 1..Len(q) \/ i = Len(r)
  BY <1>1, LoadPageIs, Sent
<1>3. /\ v \in PageRec /\ v.loading /\ v.open /\ v.fetching = p.fetching
      /\ v.ordered = p.ordered /\ v.found = p.found
  BY <1>1, PageIs
<1>4. QueueSound(r, s, v)
  BY LoadKeepsQueue DEF TableSound
<1> HIDE DEF r, v
<1>5. NothingRefused(r)
  BY <1>2, LoadPageIs DEF TableSound, NothingRefused
<1>6. /\ \A x, n : Comes(q, x, n) => Comes(r, x, n)
      /\ \A x, n : Goes(q, x, n) => Goes(r, x, n)
  BY <1>2 DEF Comes, Goes, Written, Brings, Drops, Reads, At
<1>7. /\ \A x : IsRemoved(q, x) => IsRemoved(r, x)
      /\ \A x : \A i \in 1..Len(r) : Removing(r, i, x) => i \in 1..Len(q) /\ Removing(q, i, x)
  BY <1>2, LoadPageIs DEF IsRemoved, Removing, At
<1>8. ~OrderRan(r, v) /\ \A x : ~OrderHas(r, v, x)
  BY <1>2, <1>3, LoadPageIs
     DEF TableSound, QueueSound, PhaseSound, LoadStep, OrderRan, OrderHas, Orders, At
<1>9. \A i \in 1..Len(r) : Reads(r, i) /\ r[i].at = "ok"
        => i \in 1..Len(q) /\ Reads(q, i) /\ r[i] = q[i]
  BY <1>2, LoadPageIs DEF Reads
<1>10. HeartsCatchUp(r, s, v, t)
  BY <1>6, <1>7, <1>9 DEF TableSound, HeartsCatchUp
<1>11. OrderSound(r, v, t)
  BY <1>8 DEF OrderSound
<1>12. ListLetsGo(r, s, v, t)
  BY <1>3, <1>6, <1>7, <1>8, <1>9 DEF TableSound, ListLetsGo
<1>13. ListCatchesUp(r, v, t)
  BY <1>3 DEF ListCatchesUp
<1>14. t \subseteq Places
  BY DEF TableSound
<1>15. QED
  BY <1>4, <1>5, <1>10, <1>11, <1>12, <1>13, <1>14 DEF TableSound, r, v

(* Inside a change of the hearts.                                          *)
LEMMA TellKeepsQueue ==
  ASSUME NEW q, NEW s, NEW p, QueueSound(q, s, p)
  PROVE  QueueSound(Told(q, p, s), s, Notified(p, s))
<1>1. CASE Reloads(p, s)
  <2>1. p \in PageRec /\ p.open /\ ~p.loading /\ p.status = "ready"
    BY <1>1 DEF QueueSound, Reloads
  <2>2. [p EXCEPT !.loading = TRUE] = [p EXCEPT !.loading = TRUE, !.status = "ready"]
    BY <2>1 DEF PageRec
  <2>3. QED
    BY <1>1, <2>1, <2>2, LoadKeepsQueue DEF Told, Notified
<1>2. CASE ~Reloads(p, s)
  BY <1>2 DEF Told, Notified
<1>3. QED
  BY <1>1, <1>2

LEMMA TellKeepsTable ==
  ASSUME NEW q, NEW s, NEW p, NEW t, TableSound(q, s, p, t),
         ~Reloads(p, s) => ListCatchesUp(q, p, t)
  PROVE  /\ TableSound(Told(q, p, s), s, Notified(p, s), t)
         /\ ListCatchesUp(Told(q, p, s), Notified(p, s), t)
<1>1. CASE Reloads(p, s)
  <2>1. p \in PageRec /\ p.open /\ ~p.loading /\ p.status = "ready"
    BY <1>1 DEF TableSound, QueueSound, Reloads
  <2>2. [p EXCEPT !.loading = TRUE] = [p EXCEPT !.loading = TRUE, !.status = "ready"]
    BY <2>1 DEF PageRec
  <2>3. QED
    BY <1>1, <2>1, <2>2, LoadKeepsTable DEF Told, Notified
<1>2. CASE ~Reloads(p, s)
  BY <1>2 DEF Told, Notified
<1>3. QED
  BY <1>1, <1>2

-----------------------------------------------------------------------------
(* A removal is committed.                                                 *)
Left(p, next) == [p EXCEPT !.ordered = @ \ {p.pending}, !.pending = next]

LEMMA LeftIs ==
  ASSUME NEW p \in PageRec, NEW next \in Places \cup {NoPlace}
  PROVE  LET v == Left(p, next) IN
         /\ v \in PageRec /\ v.ordered = p.ordered \ {p.pending} /\ v.pending = next
         /\ v.open = p.open /\ v.loading = p.loading /\ v.fetching = p.fetching
         /\ v.found = p.found /\ v.late = p.late /\ v.status = p.status
BY DEF PageRec, Left

(* No read of the hearts is on its way, as for Calm.                       *)
Still(q) == \A k \in 1..Len(q) : ~Reads(q, k)

(* What the page shows has no removal on its way.                          *)
LEMMA VisibleIsFree ==
  ASSUME NEW q, NEW s, NEW p, QueueSound(q, s, p), p.open, Still(q),
         NEW x \in Visible(p, s), NEW i \in 1..Len(q), At(q, "toggle", i)
  PROVE  q[i].id # x
<1>1. ~Before(q, p, i)
  BY DEF Before, Still, Reads, At
<1>2. Removes(q, s, p, i)
  BY <1>1 DEF QueueSound, TogglesSound
<1>3. QED
  BY <1>2 DEF Removes, Hidden, OutOfHearts, OutOfList, Visible

(* The place that waited is not in the hearts, or nothing waited.          *)
LEMMA SkipKeepsQueue ==
  ASSUME NEW q, NEW s, NEW p, QueueSound(q, s, p), p.open, Still(q), p.pending \notin s,
         NEW next \in Places \cup {NoPlace},
         \A i \in 1..Len(q) : At(q, "toggle", i) => q[i].id # next
  PROVE  QueueSound(q, s, Left(p, next))
<1> DEFINE v == Left(p, next)
<1>1. /\ v \in PageRec /\ v.ordered = p.ordered \ {p.pending} /\ v.pending = next
      /\ v.open = p.open /\ v.loading = p.loading /\ v.fetching = p.fetching
  BY LeftIs DEF QueueSound
<1> HIDE DEF v
<1>2. PhaseSound(q, v)
  BY <1>1 DEF QueueSound, PhaseSound
<1>3. TogglesSound(q, s, v)
  <2> SUFFICES ASSUME NEW i \in 1..Len(q), At(q, "toggle", i)
               PROVE  Removes(q, s, v, i)
    BY DEF TogglesSound
  <2>1. ~Before(q, p, i)
    BY DEF Before, Still, Reads, At
  <2>2. Removes(q, s, p, i)
    BY <2>1 DEF QueueSound, TogglesSound
  <2>3. QED
    BY <1>1, <2>2 DEF Removes, Hidden, OutOfHearts, OutOfList
<1>4. QED
  BY <1>1, <1>2, <1>3 DEF QueueSound, v

LEMMA SkipKeepsTable ==
  ASSUME NEW q, NEW s, NEW p, NEW t, TableSound(q, s, p, t), p.open, Still(q),
         p.pending \notin s, NEW next \in Places \cup {NoPlace},
         \A i \in 1..Len(q) : At(q, "toggle", i) => q[i].id # next,
         ListCatchesUp(q, p, t)
  PROVE  TableSound(q, s, Left(p, next), t) /\ ListCatchesUp(q, Left(p, next), t)
<1> DEFINE v == Left(p, next)
<1>1. /\ v \in PageRec /\ v.ordered = p.ordered \ {p.pending} /\ v.pending = next
      /\ v.open = p.open /\ v.loading = p.loading /\ v.fetching = p.fetching
      /\ v.found = p.found /\ v.late = p.late /\ v.status = p.status
  BY LeftIs DEF TableSound, QueueSound
<1>2. QueueSound(q, s, v)
  BY SkipKeepsQueue DEF TableSound
<1> HIDE DEF v
<1>3. HeartsCatchUp(q, s, v, t)
  BY <1>1 DEF TableSound, HeartsCatchUp
<1>4. OrderSound(q, v, t) /\ \A x : OrderHas(q, v, x) <=> OrderHas(q, p, x)
  BY <1>1 DEF TableSound, OrderSound, OrderHas, OrderRan
<1>5. ListLetsGo(q, s, v, t)
  BY <1>1, <1>4 DEF TableSound, ListLetsGo
<1>6. ListCatchesUp(q, v, t)
  BY <1>1 DEF TableSound, ListCatchesUp, HeartsCatchUp
<1>7. QED
  BY <1>2, <1>3, <1>4, <1>5, <1>6 DEF TableSound, v

LEMMA ToggleCallIs ==
  ASSUME NEW s, NEW x \in Places
  PROVE  LET c == ToggleCall(s, x) IN
         /\ c \in Call /\ KindSound(c) /\ c.then = "toggle" /\ c.id = x /\ c.at = "waiting"
         /\ x \in s => c.stmt = "delete"
         /\ c.stmt # "select"
BY AskIs DEF ToggleCall, KindSound, Asked, Ask

LEMMA CommitKeepsQueue ==
  ASSUME NEW q, NEW s, NEW p, QueueSound(q, s, p), p.open,
         \A k \in 1..Len(q) : Reads(q, k) => q[k].then = "page",
         p.pending \in s, NEW next \in Places \cup {NoPlace}, next # p.pending,
         \A i \in 1..Len(q) : At(q, "toggle", i) => q[i].id # next
  PROVE  QueueSound(Append(q, ToggleCall(s, p.pending)), s \ {p.pending}, Left(p, next))
<1> DEFINE c == ToggleCall(s, p.pending)
<1> DEFINE r == Append(q, c)
<1> DEFINE v == Left(p, next)
<1>1. q \in Seq(Call) /\ p.pending \in Places
  BY DEF QueueSound
<1>2. /\ c \in Call /\ KindSound(c) /\ c.then = "toggle" /\ c.id = p.pending
      /\ c.at = "waiting" /\ c.stmt = "delete"
  BY <1>1, ToggleCallIs
<1> HIDE DEF c
<1>3. /\ r \in Seq(Call) /\ Len(q) \in Nat /\ Len(r) = Len(q) + 1
      /\ \A i \in 1..Len(q) : i \in 1..Len(r) /\ r[i] = q[i]
      /\ Len(r) \in 1..Len(r) /\ r[Len(r)] = c
      /\ \A i \in 1..Len(r) : i \in 1..Len(q) \/ i = Len(r)
  BY <1>1, <1>2, Sent
<1>4. /\ v \in PageRec /\ v.ordered = p.ordered \ {p.pending} /\ v.pending = next
      /\ v.open = p.open /\ v.loading = p.loading /\ v.fetching = p.fetching
  BY LeftIs DEF QueueSound
<1> HIDE DEF r, v
<1>5. KindsSound(r) /\ InOrder(r)
  BY <1>2, <1>3 DEF QueueSound, KindsSound, InOrder
<1>6. PhaseSound(r, v)
  BY <1>2, <1>3, <1>4 DEF QueueSound, PhaseSound, LoadStep, Orders, At
<1>7. ASSUME NEW i \in 1..Len(q), At(q, "toggle", i)
      PROVE  Removes(r, s \ {p.pending}, v, i) /\ r[i].id # p.pending
  <2>1. ~Before(q, p, i)
    BY <1>1 DEF Before
  <2>2. Removes(q, s, p, i) /\ r[i] = q[i] /\ i \in 1..Len(r)
    BY <1>3, <1>7, <2>1 DEF QueueSound, TogglesSound
  <2>3. \A k \in 1..Len(r) : At(r, "toggle", k) /\ r[k].id = r[i].id => k = i
    BY <1>2, <1>3, <2>2 DEF Removes, At
  <2>4. OutOfHearts(q, s, i) => OutOfHearts(r, s \ {p.pending}, i)
    BY <1>2, <1>3, <2>2 DEF OutOfHearts, Reads
  <2>5. OutOfList(q, p, i) => OutOfList(r, v, i)
    BY <1>2, <1>3, <1>4, <2>2 DEF OutOfList, Orders, At
  <2>6. QED
    BY <1>4, <1>7, <2>2, <2>3, <2>4, <2>5 DEF Removes, Hidden
<1>8. Removes(r, s \ {p.pending}, v, Len(r))
  <2>1. \A k \in 1..Len(r) : At(r, "toggle", k) /\ r[k].id = p.pending => k = Len(r)
    BY <1>3, <1>7 DEF At
  <2>2. ASSUME \E k \in 1..Len(q) : Reads(q, k)
        PROVE  OutOfList(r, v, Len(r))
    <3>1. PICK k \in 1..Len(q) : Reads(q, k)
      BY <2>2
    <3>2. k \in 1..Len(r) /\ k < Len(r) /\ At(r, "page", k)
      BY <1>3, <3>1 DEF At
    <3>3. r[Len(r)].id \notin v.ordered
      BY <1>2, <1>3, <1>4
    <3>4. QED
      BY <3>2, <3>3 DEF OutOfList
  <2>3. ASSUME \A k \in 1..Len(q) : ~Reads(q, k)
        PROVE  OutOfHearts(r, s \ {p.pending}, Len(r))
    <3>1. \A k \in 1..Len(q) : Reads(r, k) => Reads(q, k)
      BY <1>3 DEF Reads
    <3>2. ~Reads(r, Len(r))
      BY <1>2, <1>3 DEF Reads
    <3>3. \A k \in 1..Len(r) : ~Reads(r, k)
      BY <1>3, <2>3, <3>1, <3>2
    <3>4. r[Len(r)].id \notin s \ {p.pending}
      BY <1>2, <1>3
    <3>5. QED
      BY <3>3, <3>4 DEF OutOfHearts
  <2>4. Hidden(r, s \ {p.pending}, v, Len(r))
    BY <2>2, <2>3 DEF Hidden
  <2>5. QED
    BY <1>2, <1>3, <1>4, <2>1, <2>4 DEF Removes
<1>9. TogglesSound(r, s \ {p.pending}, v)
  BY <1>3, <1>7, <1>8 DEF TogglesSound, At
<1>10. s \ {p.pending} \subseteq Places
  BY DEF QueueSound
<1>11. QED
  BY <1>3, <1>4, <1>5, <1>6, <1>9, <1>10 DEF QueueSound, r, v, c

LEMMA CommitKeepsTable ==
  ASSUME NEW q, NEW s, NEW p, NEW t, TableSound(q, s, p, t), p.open,
         \A k \in 1..Len(q) : Reads(q, k) => q[k].then = "page",
         p.pending \in s, NEW next \in Places \cup {NoPlace}, next # p.pending,
         \A i \in 1..Len(q) : At(q, "toggle", i) => q[i].id # next,
         ListCatchesUp(q, p, t)
  PROVE  LET r == Append(q, ToggleCall(s, p.pending)) IN
         /\ TableSound(r, s \ {p.pending}, Left(p, next), t)
         /\ ListCatchesUp(r, Left(p, next), t)
<1> DEFINE c == ToggleCall(s, p.pending)
<1> DEFINE r == Append(q, c)
<1> DEFINE v == Left(p, next)
<1>1. q \in Seq(Call) /\ p.pending \in Places
  BY DEF TableSound, QueueSound
<1>2. /\ c \in Call /\ KindSound(c) /\ c.then = "toggle" /\ c.id = p.pending
      /\ c.at = "waiting" /\ c.stmt = "delete"
  BY <1>1, ToggleCallIs
<1>3. QueueSound(r, s \ {p.pending}, v)
  BY CommitKeepsQueue DEF TableSound
<1> HIDE DEF c
<1>4. /\ r \in Seq(Call) /\ Len(q) \in Nat /\ Len(r) = Len(q) + 1
      /\ \A i \in 1..Len(q) : i \in 1..Len(r) /\ r[i] = q[i]
      /\ Len(r) \in 1..Len(r) /\ r[Len(r)] = c
      /\ \A i \in 1..Len(r) : i \in 1..Len(q) \/ i = Len(r)
  BY <1>1, <1>2, Sent
<1>5. /\ v \in PageRec /\ v.ordered = p.ordered \ {p.pending} /\ v.pending = next
      /\ v.open = p.open /\ v.loading = p.loading /\ v.fetching = p.fetching
      /\ v.found = p.found /\ v.late = p.late /\ v.status = p.status
  BY LeftIs DEF TableSound, QueueSound
<1> HIDE DEF r, v
<1>6. NothingRefused(r)
  BY <1>2, <1>4 DEF TableSound, NothingRefused
<1>7. /\ \A x, n : Comes(q, x, n) => Comes(r, x, n)
      /\ \A x, n : Goes(q, x, n) => Goes(r, x, n)
  BY <1>4 DEF Comes, Goes, Written, Brings, Drops, Reads, At
<1>8. /\ \A x : IsRemoved(q, x) => IsRemoved(r, x)
      /\ IsRemoved(r, p.pending)
      /\ \A x : \A i \in 1..Len(r) : Removing(r, i, x)
           => (i \in 1..Len(q) /\ Removing(q, i, x)) \/ x = p.pending
  BY <1>2, <1>4 DEF IsRemoved, Removing, At
<1>9. /\ OrderRan(r, v) <=> OrderRan(q, p)
      /\ \A x : OrderHas(r, v, x) <=> OrderHas(q, p, x)
  BY <1>2, <1>4, <1>5 DEF OrderRan, OrderHas, Orders, At
<1>10. \A i \in 1..Len(r) : Reads(r, i) /\ r[i].at = "ok"
         => i \in 1..Len(q) /\ Reads(q, i) /\ r[i] = q[i]
  BY <1>2, <1>4 DEF Reads
<1>11. HeartsCatchUp(r, s \ {p.pending}, v, t)
  BY <1>5, <1>7, <1>8, <1>10 DEF TableSound, HeartsCatchUp
<1>12. OrderSound(r, v, t)
  BY <1>5, <1>9 DEF TableSound, OrderSound
<1>13. ASSUME OrderHas(q, p, p.pending), p.pending \notin t, NEW i
       PROVE  Goes(r, p.pending, i)
  <2>1. Goes(q, p.pending, 0)
    BY <1>1, <1>13 DEF TableSound, ListLetsGo
  <2>2. \A k \in 1..Len(q) : ~At(q, "page", k)
    BY <1>13 DEF OrderHas, TableSound, QueueSound, PhaseSound, LoadStep, Orders, At
  <2>3. \A k \in 1..Len(q) : ~Reads(q, k)
    BY <2>2 DEF At
  <2>4. Written(q, "delete", p.pending)
    BY <2>1, <2>3 DEF Goes, Drops
  <2>5. QED
    BY <1>7, <2>4 DEF Goes
<1>14. ListLetsGo(r, s \ {p.pending}, v, t)
  BY <1>5, <1>7, <1>8, <1>9, <1>10, <1>13 DEF TableSound, ListLetsGo
<1>15. ListCatchesUp(r, v, t)
  BY <1>5, <1>7, <1>8 DEF ListCatchesUp
<1>16. t \subseteq Places
  BY DEF TableSound
<1>17. QED
  BY <1>3, <1>6, <1>11, <1>12, <1>14, <1>15, <1>16 DEF TableSound, r, v, c

-----------------------------------------------------------------------------
(* The steps of a load.                                                    *)
OrderCall == Ask("select", "order", NoPlace)

LEMMA OrderCallIs ==
  /\ OrderCall \in Call /\ KindSound(OrderCall) /\ OrderCall.then = "order"
  /\ OrderCall.at = "waiting" /\ OrderCall.stmt = "select" /\ OrderCall.mounted
BY AskIs DEF OrderCall, KindSound, Asked, Ask

LEMMA Replaced ==
  ASSUME NEW q \in Seq(Call), q # <<>>
  PROVE  LET r == Append(Tail(q), OrderCall) IN
         /\ r \in Seq(Call) /\ Len(q) \in Nat /\ Len(r) = Len(q)
         /\ 1 \in 1..Len(q) /\ Len(r) \in 1..Len(r) /\ r[Len(r)] = OrderCall
         /\ \A i \in 1..Len(r) : i = Len(r) \/ (i + 1 \in 1..Len(q) /\ r[i] = q[i + 1])
         /\ \A i \in 1..Len(q) : i = 1 \/ (i > 1 /\ i - 1 \in 1..Len(r) /\ r[i - 1] = q[i])
<1> DEFINE f == Tail(q)
<1>1. /\ f \in Seq(Call) /\ Len(q) \in Nat /\ Len(f) = Len(q) - 1
      /\ \A i \in 1..Len(f) : i + 1 \in 1..Len(q) /\ f[i] = q[i + 1]
      /\ \A i \in 1..Len(q) : i > 1 => i - 1 \in 1..Len(f) /\ f[i - 1] = q[i]
      /\ 1 \in 1..Len(q) /\ \A i \in 1..Len(q) : i = 1 \/ i > 1
  BY Taken
<1> HIDE DEF f
<1> DEFINE r == Append(f, OrderCall)
<1>2. /\ r \in Seq(Call) /\ Len(r) = Len(f) + 1
      /\ \A i \in 1..Len(f) : i \in 1..Len(r) /\ r[i] = f[i]
      /\ Len(r) \in 1..Len(r) /\ r[Len(r)] = OrderCall
      /\ \A i \in 1..Len(r) : i \in 1..Len(f) \/ i = Len(r)
  BY <1>1, OrderCallIs, Sent
<1> HIDE DEF r
<1>3. \A i \in 1..Len(r) : i = Len(r) \/ (i + 1 \in 1..Len(q) /\ r[i] = q[i + 1])
  BY <1>1, <1>2
<1>4. \A i \in 1..Len(q) : i = 1 \/ (i > 1 /\ i - 1 \in 1..Len(r) /\ r[i - 1] = q[i])
  BY <1>1, <1>2
<1>5. Len(r) = Len(q)
  BY <1>1, <1>2
<1>6. QED
  BY <1>1, <1>2, <1>3, <1>4, <1>5 DEF f, r

LEMMA PageKeepsQueue ==
  ASSUME NEW q, NEW s, NEW p, QueueSound(q, s, p), q # <<>>, At(q, "page", 1),
         NEW u \in SUBSET Places
  PROVE  QueueSound(Append(Tail(q), OrderCall), u, p) /\ p.open /\ p.loading /\ q[1].mounted
<1> DEFINE r == Append(Tail(q), OrderCall)
<1>1. q \in Seq(Call)
  BY DEF QueueSound
<1>2. /\ r \in Seq(Call) /\ Len(q) \in Nat /\ Len(r) = Len(q)
      /\ 1 \in 1..Len(q) /\ Len(r) \in 1..Len(r) /\ r[Len(r)] = OrderCall
      /\ \A i \in 1..Len(r) : i = Len(r) \/ (i + 1 \in 1..Len(q) /\ r[i] = q[i + 1])
      /\ \A i \in 1..Len(q) : i = 1 \/ (i > 1 /\ i - 1 \in 1..Len(r) /\ r[i - 1] = q[i])
  BY <1>1, Replaced
<1> HIDE DEF r
<1>3. KindsSound(r) /\ InOrder(r)
  <2>1. KindsSound(q) /\ InOrder(q)
    BY DEF QueueSound
  <2>2. KindsSound(r)
    BY <1>2, <2>1, OrderCallIs DEF KindsSound
  <2>3. ASSUME NEW i \in 1..Len(r), NEW j \in 1..Len(r), i < j, r[i].at = "waiting"
        PROVE  r[j].at = "waiting"
    <3>1. i # Len(r) /\ i + 1 \in 1..Len(q) /\ r[i] = q[i + 1]
      BY <1>2, <2>3
    <3>2. CASE j = Len(r)
      BY <1>2, <3>2, OrderCallIs
    <3>3. CASE j # Len(r)
      <4>1. j + 1 \in 1..Len(q) /\ r[j] = q[j + 1] /\ i + 1 < j + 1
        BY <1>2, <2>3, <3>3
      <4>2. QED
        BY <2>1, <2>3, <3>1, <4>1 DEF InOrder
    <3>4. QED
      BY <3>2, <3>3
  <2>4. QED
    BY <2>2, <2>3 DEF InOrder
<1>4. \A k \in 1..Len(q) : LoadStep(q, k) => k = 1
  BY <1>2 DEF QueueSound, PhaseSound, LoadStep
<1>5. p.loading /\ ~p.fetching /\ p.open
  BY <1>2 DEF QueueSound, PhaseSound, LoadStep
<1>6. \A k \in 1..Len(r) : LoadStep(r, k) => k = Len(r)
  <2>1. \A k \in 1..Len(r) : k # Len(r) /\ LoadStep(r, k) => LoadStep(q, k + 1)
    BY <1>2 DEF LoadStep, Orders, At
  <2>2. QED
    BY <1>2, <1>4, <2>1
<1>7. PhaseSound(r, p)
  BY <1>5, <1>6 DEF PhaseSound
<1>8. TogglesSound(r, u, p)
  <2> SUFFICES ASSUME NEW i \in 1..Len(r), At(r, "toggle", i)
               PROVE  Removes(r, u, p, i)
    BY DEF TogglesSound
  <2>1. i + 1 \in 1..Len(q) /\ At(q, "toggle", i + 1) /\ r[i] = q[i + 1] /\ Len(r) > i
    BY <1>2, OrderCallIs DEF At
  <2>2. ~Before(q, p, i + 1)
    <3>1. \A k \in 1..Len(q) : At(q, "page", k) => ~(k > i + 1)
      BY <1>2, <1>4 DEF LoadStep
    <3>2. QED
      BY <3>1 DEF Before
  <2>3. Removes(q, u, p, i + 1) \/ Removes(q, s, p, i + 1)
    BY <1>5, <2>1, <2>2 DEF QueueSound, TogglesSound
  <2>4. ~OutOfHearts(q, s, i + 1)
    BY <1>2, <2>1 DEF OutOfHearts, Reads, At
  <2>5. OutOfList(q, p, i + 1) /\ Removes(q, s, p, i + 1)
    BY <1>5, <2>1, <2>2, <2>4 DEF QueueSound, TogglesSound, Removes, Hidden
  <2>6. Orders(r, Len(r))
    BY <1>2, OrderCallIs DEF Orders, At
  <2>7. OutOfList(r, p, i)
    BY <1>2, <2>1, <2>5, <2>6 DEF OutOfList
  <2>8. \A k \in 1..Len(r) : At(r, "toggle", k) /\ r[k].id = r[i].id => k = i
    <3>1. \A k \in 1..Len(r) : At(r, "toggle", k) =>
            k + 1 \in 1..Len(q) /\ At(q, "toggle", k + 1) /\ r[k] = q[k + 1]
      BY <1>2, OrderCallIs DEF At
    <3>2. \A k \in 1..Len(r) : At(r, "toggle", k) /\ r[k].id = r[i].id => k + 1 = i + 1
      BY <2>1, <2>5, <3>1 DEF Removes
    <3>3. QED
      BY <1>2, <3>2
  <2>9. QED
    BY <2>1, <2>5, <2>7, <2>8 DEF Removes, Hidden
<1>9. q[1].mounted
  BY <1>2 DEF QueueSound, KindsSound, KindSound, Asked, At
<1>10. p \in PageRec
  BY DEF QueueSound
<1>11. QED
  BY <1>2, <1>3, <1>5, <1>7, <1>8, <1>9, <1>10 DEF QueueSound, r

LEMMA PageKeepsTable ==
  ASSUME NEW q, NEW s, NEW p, NEW t, TableSound(q, s, p, t),
         q # <<>>, At(q, "page", 1), q[1].at # "waiting"
  PROVE  LET r == Append(Tail(q), OrderCall) IN
         /\ TableSound(r, q[1].rows, p, t) /\ ListCatchesUp(r, p, t)
         /\ q[1].at = "ok"
<1> DEFINE r == Append(Tail(q), OrderCall)
<1> DEFINE f == Tail(q)
<1>0. q \in Seq(Call) /\ QueueSound(q, s, p) /\ KindsSound(q) /\ NothingRefused(q)
  BY DEF TableSound, QueueSound
<1>1. /\ f \in Seq(Call) /\ Len(q) \in Nat /\ Len(f) = Len(q) - 1
      /\ \A i \in 1..Len(f) : i + 1 \in 1..Len(q) /\ f[i] = q[i + 1]
      /\ 1 \in 1..Len(q)
  BY <1>0, Taken
<1>2. LET g == Append(f, OrderCall) IN
      /\ g \in Seq(Call) /\ Len(g) = Len(f) + 1
      /\ \A i \in 1..Len(f) : i \in 1..Len(g) /\ g[i] = f[i]
      /\ Len(g) \in 1..Len(g) /\ g[Len(g)] = OrderCall
      /\ \A i \in 1..Len(g) : i \in 1..Len(f) \/ i = Len(g)
  <2> HIDE DEF f
  <2>1. QED
    BY <1>1, OrderCallIs, Sent
<1>3. /\ \A x : \A n \in 1..Len(q) :
           /\ Comes(q, x, n) => Comes(f, x, n - 1)
           /\ Goes(q, x, n) => Goes(f, x, n - 1)
      /\ \A x : \A i \in 1..Len(f) : Removing(f, i, x) => Removing(q, i + 1, x)
      /\ \A i \in 1..Len(f) : Reads(f, i) => Reads(q, i + 1)
  BY <1>0, TakeShifts DEF At
<1>4. KindSound(q[1]) /\ q[1].at = "ok" /\ Reads(q, 1) /\ q[1].rows \subseteq Places
  BY <1>0, <1>1 DEF KindsSound, KindSound, Asked, NothingRefused, Reads, At, Call
<1>5. QueueSound(r, q[1].rows, p) /\ p.open /\ p.loading
  BY <1>0, <1>4, PageKeepsQueue
<1> HIDE DEF f
<1>6. /\ r \in Seq(Call) /\ Len(r) = Len(f) + 1
      /\ \A i \in 1..Len(f) : i \in 1..Len(r) /\ r[i] = f[i]
      /\ Len(r) \in 1..Len(r) /\ r[Len(r)] = OrderCall
      /\ \A i \in 1..Len(r) : i \in 1..Len(f) \/ i = Len(r)
  BY <1>2 DEF f
<1> HIDE DEF r
<1>7. /\ \A x, n : Comes(f, x, n) => Comes(r, x, n)
      /\ \A x, n : Goes(f, x, n) => Goes(r, x, n)
  BY <1>6 DEF Comes, Goes, Written, Brings, Drops, Reads, At
<1>8. \A i \in 1..Len(r) : Reads(r, i) =>
        /\ i \in 1..Len(f) /\ i + 1 \in 1..Len(q) /\ (i + 1) - 1 = i
        /\ Reads(q, i + 1) /\ r[i] = q[i + 1]
  BY <1>1, <1>3, <1>6, OrderCallIs DEF Reads
<1>9. \A x : \A i \in 1..Len(r) : Removing(r, i, x) =>
        i \in 1..Len(f) /\ i + 1 \in 1..Len(q) /\ (i + 1) - 1 = i /\ Removing(q, i + 1, x)
  BY <1>1, <1>3, <1>6, OrderCallIs DEF Removing, At
<1>10. ~OrderRan(r, p) /\ \A x : ~OrderHas(r, p, x)
  <2>1. ~p.fetching /\ \A k \in 1..Len(r) : Orders(r, k) => k = Len(r)
    BY <1>4, <1>5, <1>6, OrderCallIs
       DEF TableSound, QueueSound, PhaseSound, LoadStep, Orders, At
  <2>2. QED
    BY <1>6, <2>1, OrderCallIs DEF OrderRan, OrderHas
<1>11. NothingRefused(r)
  BY <1>0, <1>1, <1>6, OrderCallIs DEF NothingRefused
<1>12. HeartsCatchUp(r, q[1].rows, p, t)
  <2> SUFFICES ASSUME NEW x \in t
               PROVE  /\ x \notin q[1].rows => Comes(r, x, 0)
                      /\ \A i \in 1..Len(r) :
                           Reads(r, i) /\ r[i].at = "ok" /\ x \notin r[i].rows => Comes(r, x, i)
    BY DEF HeartsCatchUp
  <2>1. \A i \in 1..Len(q) :
          Reads(q, i) /\ q[i].at = "ok" /\ x \notin q[i].rows => Comes(q, x, i)
    BY <1>5 DEF TableSound, HeartsCatchUp
  <2>2. x \notin q[1].rows => Comes(f, x, 1 - 1)
    BY <1>1, <1>3, <1>4, <2>1
  <2>3. \A i \in 1..Len(r) :
          Reads(r, i) /\ r[i].at = "ok" /\ x \notin r[i].rows => Comes(f, x, (i + 1) - 1)
    BY <1>3, <1>8, <2>1
  <2>4. QED
    BY <1>7, <1>8, <2>2, <2>3
<1>13. ListLetsGo(r, q[1].rows, p, t)
  <2> SUFFICES ASSUME NEW x \in Places \ t, x \in p.ordered
               PROVE  /\ x \in q[1].rows => Goes(r, x, 0)
                      /\ \A i \in 1..Len(r) :
                           Reads(r, i) /\ r[i].at = "ok" /\ x \in r[i].rows => Goes(r, x, i)
                      /\ \A i \in 1..Len(r) : Removing(r, i, x) => Goes(r, x, i)
    BY <1>10 DEF ListLetsGo
  <2>1. /\ \A i \in 1..Len(q) :
             Reads(q, i) /\ q[i].at = "ok" /\ x \in q[i].rows => Goes(q, x, i)
        /\ \A i \in 1..Len(q) : Removing(q, i, x) => Goes(q, x, i)
    BY <1>5 DEF TableSound, ListLetsGo
  <2>2. x \in q[1].rows => Goes(f, x, 1 - 1)
    BY <1>1, <1>3, <1>4, <2>1
  <2>3. \A i \in 1..Len(r) :
          Reads(r, i) /\ r[i].at = "ok" /\ x \in r[i].rows => Goes(f, x, (i + 1) - 1)
    BY <1>3, <1>8, <2>1
  <2>4. \A i \in 1..Len(r) : Removing(r, i, x) => Goes(f, x, (i + 1) - 1)
    BY <1>3, <1>9, <2>1
  <2>5. QED
    BY <1>7, <1>8, <1>9, <2>2, <2>3, <2>4
<1>14. OrderSound(r, p, t) /\ ListCatchesUp(r, p, t)
  BY <1>5, <1>10 DEF OrderSound, ListCatchesUp
<1>15. t \subseteq Places
  BY DEF TableSound
<1>16. QED
  BY <1>4, <1>5, <1>11, <1>12, <1>13, <1>14, <1>15 DEF TableSound, r, f

Fetching(p, rows) == [p EXCEPT !.fetching = TRUE, !.found = rows]

LEMMA FetchingIs ==
  ASSUME NEW p \in PageRec, NEW rows \in SUBSET Places
  PROVE  LET v == Fetching(p, rows) IN
         /\ v \in PageRec /\ v.fetching /\ v.found = rows /\ (p.open => v.open)
         /\ (p.loading => v.loading) /\ v.ordered = p.ordered /\ v.pending = p.pending
         /\ v.late = p.late
BY DEF PageRec, Fetching

(* The order has been read; what is missing is about to be fetched.        *)
LEMMA OrderKeepsQueue ==
  ASSUME NEW q, NEW s, NEW p, QueueSound(q, s, p), q # <<>>, Orders(q, 1)
  PROVE  /\ QueueSound(Tail(q), s, Fetching(p, q[1].rows))
         /\ \A k \in 1..Len(Tail(q)) : ~LoadStep(Tail(q), k)
<1> DEFINE r == Tail(q)
<1> DEFINE v == Fetching(p, q[1].rows)
<1>1. q \in Seq(Call) /\ p \in PageRec
  BY DEF QueueSound
<1>2. /\ r \in Seq(Call) /\ Len(q) \in Nat /\ Len(r) = Len(q) - 1
      /\ \A i \in 1..Len(r) : i + 1 \in 1..Len(q) /\ r[i] = q[i + 1]
      /\ 1 \in 1..Len(q)
  BY <1>1, Taken
<1>3. q[1].rows \subseteq Places
  BY <1>1, <1>2 DEF QueueSound, KindsSound, KindSound, Asked, Call
<1>4. \A k \in 1..Len(q) : LoadStep(q, k) => k = 1
  BY <1>2 DEF QueueSound, PhaseSound, LoadStep
<1>5. p.loading /\ ~p.fetching /\ p.open
  BY <1>2 DEF QueueSound, PhaseSound, LoadStep
<1>6. /\ v \in PageRec /\ v.fetching /\ v.open /\ v.loading
      /\ v.ordered = p.ordered /\ v.pending = p.pending
  BY <1>1, <1>3, <1>5, FetchingIs
<1> HIDE DEF r, v
<1>7. KindsSound(r) /\ InOrder(r)
  BY <1>2 DEF QueueSound, KindsSound, InOrder
<1>8. \A k \in 1..Len(r) : ~LoadStep(r, k)
  <2>1. \A k \in 1..Len(r) : LoadStep(r, k) => LoadStep(q, k + 1)
    BY <1>2 DEF LoadStep, Orders, At
  <2>2. QED
    BY <1>2, <1>4, <2>1
<1>9. PhaseSound(r, v)
  BY <1>6, <1>8 DEF PhaseSound
<1>10. TogglesSound(r, s, v)
  <2> SUFFICES ASSUME NEW i \in 1..Len(r), At(r, "toggle", i)
               PROVE  Removes(r, s, v, i)
    BY DEF TogglesSound
  <2>1. i + 1 \in 1..Len(q) /\ At(q, "toggle", i + 1) /\ r[i] = q[i + 1]
    BY <1>2 DEF At
  <2>2. \A k \in 1..Len(q) : ~At(q, "page", k) /\ (Orders(q, k) => ~(k > i + 1))
    BY <1>2, <1>4 DEF LoadStep, At, Orders
  <2>3. ~Before(q, p, i + 1) /\ ~OutOfList(q, p, i + 1)
    BY <2>2 DEF Before, OutOfList
  <2>4. Removes(q, s, p, i + 1)
    BY <1>5, <2>1, <2>3 DEF QueueSound, TogglesSound
  <2>5. OutOfHearts(q, s, i + 1)
    BY <2>3, <2>4 DEF Removes, Hidden
  <2>6. \A k \in 1..Len(r) : Reads(r, k) => Reads(q, k + 1)
    BY <1>2 DEF Reads
  <2>7. \A k \in 1..Len(r) : Reads(r, k) => k > i
    BY <1>2, <2>5, <2>6 DEF OutOfHearts
  <2>8. OutOfHearts(r, s, i)
    BY <2>1, <2>5, <2>7 DEF OutOfHearts
  <2>9. \A k \in 1..Len(r) : At(r, "toggle", k) /\ r[k].id = r[i].id => k = i
    BY <1>2, <2>1, <2>4 DEF Removes, At
  <2>10. QED
    BY <1>6, <2>1, <2>4, <2>8, <2>9 DEF Removes, Hidden
<1>11. s \subseteq Places
  BY DEF QueueSound
<1>12. QED
  BY <1>2, <1>6, <1>7, <1>8, <1>9, <1>10, <1>11 DEF QueueSound, r, v

LEMMA OrderKeepsTable ==
  ASSUME NEW q, NEW s, NEW p, NEW t, TableSound(q, s, p, t),
         q # <<>>, Orders(q, 1), q[1].at = "ok"
  PROVE  TableSound(Tail(q), s, Fetching(p, q[1].rows), t)
<1> DEFINE r == Tail(q)
<1> DEFINE v == Fetching(p, q[1].rows)
<1>0. /\ q \in Seq(Call) /\ QueueSound(q, s, p) /\ KindsSound(q) /\ NothingRefused(q)
      /\ p \in PageRec
  BY DEF TableSound, QueueSound
<1>1. /\ r \in Seq(Call) /\ Len(q) \in Nat /\ Len(r) = Len(q) - 1
      /\ \A i \in 1..Len(r) : i + 1 \in 1..Len(q) /\ r[i] = q[i + 1] /\ (i + 1) - 1 = i
      /\ 1 \in 1..Len(q)
  BY <1>0, Taken
<1>2. q[1].then = "order" /\ ~Reads(q, 1)
  BY DEF Orders, At, Reads
<1>3. /\ \A x : \A n \in 1..Len(q) :
           /\ Comes(q, x, n) => Comes(r, x, n - 1)
           /\ Goes(q, x, n) => Goes(r, x, n - 1)
      /\ \A x : /\ Comes(q, x, 0) => Comes(r, x, 0)
                /\ Goes(q, x, 0) => Goes(r, x, 0)
      /\ \A x : \A i \in 1..Len(r) : Removing(r, i, x) => Removing(q, i + 1, x)
      /\ \A x : IsRemoved(q, x) => IsRemoved(r, x) \/ Removing(q, 1, x)
      /\ \A i \in 1..Len(r) : Reads(r, i) => Reads(q, i + 1)
  BY <1>0, <1>2, TakeShifts
<1>4. \A x : ~Removing(q, 1, x)
  BY <1>2 DEF Removing, At
<1>5. q[1].rows \subseteq Places
  BY <1>0, <1>1 DEF KindsSound, KindSound, Asked, Call
<1>6. \A k \in 1..Len(q) : Orders(q, k) => k = 1
  BY <1>0, <1>1 DEF QueueSound, PhaseSound, LoadStep
<1>7. p.loading /\ ~p.fetching /\ p.open
  BY <1>0, <1>1 DEF QueueSound, PhaseSound, LoadStep
<1>8. /\ v \in PageRec /\ v.fetching /\ v.open /\ v.loading /\ v.found = q[1].rows
      /\ v.ordered = p.ordered /\ v.late = p.late
  BY <1>0, <1>5, <1>7, FetchingIs
<1>9. QueueSound(r, s, v) /\ \A k \in 1..Len(r) : ~LoadStep(r, k)
  BY <1>0, OrderKeepsQueue
<1> HIDE DEF r, v
<1>10. /\ OrderRan(r, v) /\ OrderRan(q, p)
       /\ \A x : OrderHas(r, v, x) <=> OrderHas(q, p, x)
  <2>1. \A x : OrderHas(r, v, x) <=> x \in q[1].rows
    BY <1>8, <1>9 DEF OrderHas, LoadStep
  <2>2. \A x : OrderHas(q, p, x) <=> x \in q[1].rows
    BY <1>1, <1>6, <1>7 DEF OrderHas
  <2>3. QED
    BY <1>1, <1>8, <2>1, <2>2 DEF OrderRan
<1>11. NothingRefused(r)
  BY <1>0, <1>1 DEF NothingRefused
<1>12. HeartsCatchUp(r, s, v, t)
  <2> SUFFICES ASSUME NEW x \in t
               PROVE  /\ x \notin s => Comes(r, x, 0) \/ IsRemoved(r, x)
                      /\ \A i \in 1..Len(r) :
                           Reads(r, i) /\ r[i].at = "ok" /\ x \notin r[i].rows => Comes(r, x, i)
    BY DEF HeartsCatchUp
  <2>1. /\ x \notin s => Comes(q, x, 0) \/ IsRemoved(q, x)
        /\ \A i \in 1..Len(q) :
             Reads(q, i) /\ q[i].at = "ok" /\ x \notin q[i].rows => Comes(q, x, i)
    BY <1>7 DEF TableSound, HeartsCatchUp
  <2>2. x \notin s => Comes(r, x, 0) \/ IsRemoved(r, x)
    BY <1>3, <1>4, <2>1
  <2>3. \A i \in 1..Len(r) : Reads(r, i) /\ r[i].at = "ok" /\ x \notin r[i].rows
          => Comes(r, x, (i + 1) - 1)
    BY <1>1, <1>3, <2>1
  <2>4. QED
    BY <1>1, <2>2, <2>3
<1>13. OrderSound(r, v, t)
  BY <1>8, <1>10 DEF TableSound, OrderSound
<1>14. ListLetsGo(r, s, v, t)
  <2> SUFFICES ASSUME NEW x \in Places \ t, x \in v.ordered \/ OrderHas(r, v, x)
               PROVE  /\ x \in s => Goes(r, x, 0)
                      /\ \A i \in 1..Len(r) :
                           Reads(r, i) /\ r[i].at = "ok" /\ x \in r[i].rows => Goes(r, x, i)
                      /\ \A i \in 1..Len(r) : Removing(r, i, x) => Goes(r, x, i)
    BY DEF ListLetsGo
  <2>1. /\ x \in s => Goes(q, x, 0)
        /\ \A i \in 1..Len(q) :
             Reads(q, i) /\ q[i].at = "ok" /\ x \in q[i].rows => Goes(q, x, i)
        /\ \A i \in 1..Len(q) : Removing(q, i, x) => Goes(q, x, i)
    BY <1>7, <1>8, <1>10 DEF TableSound, ListLetsGo
  <2>2. \A i \in 1..Len(r) : /\ Reads(r, i) /\ r[i].at = "ok" /\ x \in r[i].rows
                                => Goes(r, x, (i + 1) - 1)
                             /\ Removing(r, i, x) => Goes(r, x, (i + 1) - 1)
    BY <1>1, <1>3, <2>1
  <2>3. QED
    BY <1>1, <1>3, <2>1, <2>2
<1>15. t \subseteq Places
  BY DEF TableSound
<1>16. QED
  BY <1>9, <1>11, <1>12, <1>13, <1>14, <1>15 DEF TableSound, r, v

(* The load ends, with the order it found or with an error.                *)
LEMMA EndKeepsQueue ==
  ASSUME NEW q, NEW s, NEW p, QueueSound(q, s, p), p.fetching,
         NEW v \in PageRec, v.open, ~v.fetching, v.pending = p.pending
  PROVE  QueueSound(q, s, v)
<1>1. \A k \in 1..Len(q) : ~At(q, "page", k) /\ ~Orders(q, k)
  BY DEF QueueSound, PhaseSound, LoadStep
<1>2. p.open
  BY DEF QueueSound, PhaseSound
<1>3. PhaseSound(q, v)
  BY <1>1 DEF PhaseSound, LoadStep
<1>4. TogglesSound(q, s, v)
  <2> SUFFICES ASSUME NEW i \in 1..Len(q), At(q, "toggle", i)
               PROVE  Removes(q, s, v, i)
    BY DEF TogglesSound
  <2>1. ~Before(q, p, i) /\ ~OutOfList(q, p, i)
    BY <1>1 DEF Before, OutOfList
  <2>2. Removes(q, s, p, i)
    BY <1>2, <2>1 DEF QueueSound, TogglesSound
  <2>3. QED
    BY <2>1, <2>2 DEF Removes, Hidden
<1>5. QED
  BY <1>3, <1>4 DEF QueueSound

LEMMA ListedIs ==
  ASSUME NEW p \in PageRec, NEW found \in SUBSET Places, NEW known \in SUBSET Places
  PROVE  LET v == Listed(p, found, known) IN
         /\ v \in PageRec /\ v.ordered = found /\ ~v.loading /\ ~v.fetching
         /\ v.pending = p.pending /\ v.late = p.late /\ (p.open => v.open)
BY DEF PageRec, Listed

LEMMA ListedKeepsTable ==
  ASSUME NEW q, NEW s, NEW p, NEW t, TableSound(q, s, p, t), p.fetching,
         NEW known \in SUBSET Places
  PROVE  LET v == Listed(p, p.found, known) IN
         TableSound(q, s, v, t) /\ ListCatchesUp(q, v, t)
<1> DEFINE v == Listed(p, p.found, known)
<1>1. p \in PageRec /\ p.found \subseteq Places /\ p.open
  BY DEF TableSound, QueueSound, PhaseSound, PageRec
<1>2. /\ v \in PageRec /\ v.ordered = p.found /\ ~v.loading /\ ~v.fetching
      /\ v.pending = p.pending /\ v.late = p.late /\ v.open
  BY <1>1, ListedIs
<1> HIDE DEF v
<1>3. QueueSound(q, s, v)
  BY <1>2, EndKeepsQueue DEF TableSound
<1>4. \A k \in 1..Len(q) : ~Orders(q, k)
  BY DEF TableSound, QueueSound, PhaseSound, LoadStep
<1>5. /\ ~OrderRan(q, v) /\ (\A x : ~OrderHas(q, v, x))
      /\ OrderRan(q, p) /\ \A x : OrderHas(q, p, x) <=> x \in v.ordered
  BY <1>2, <1>4 DEF OrderRan, OrderHas
<1>6. HeartsCatchUp(q, s, v, t)
  BY <1>1 DEF TableSound, HeartsCatchUp
<1>7. OrderSound(q, v, t)
  BY <1>5 DEF OrderSound
<1>8. ListLetsGo(q, s, v, t)
  BY <1>1, <1>5 DEF TableSound, ListLetsGo
<1>9. ListCatchesUp(q, v, t)
  BY <1>2, <1>5 DEF TableSound, OrderSound, ListCatchesUp
<1>10. QED
  BY <1>3, <1>6, <1>7, <1>8, <1>9 DEF TableSound, v

-----------------------------------------------------------------------------
(* SQLite runs, or refuses, the oldest statement that waits.               *)
Ran(q, r, i, at) ==
  /\ q[i].at = "waiting" /\ \A j \in 1..(i - 1) : q[j].at # "waiting"
  /\ i \in 1..Len(q) /\ Len(r) = Len(q) /\ Len(q) \in Nat
  /\ r \in Seq(Call) /\ r[i].at = at /\ at # "waiting"
  /\ r[i].stmt = q[i].stmt /\ r[i].then = q[i].then /\ r[i].id = q[i].id
  /\ r[i].mounted = q[i].mounted
  /\ \A k \in 1..Len(q) : k # i => r[k] = q[k]

LateIs(p, l) == [p EXCEPT !.late = l]

LEMMA LateIsIs ==
  ASSUME NEW p \in PageRec, NEW l \in SUBSET Places
  PROVE  LET v == LateIs(p, l) IN
         /\ v \in PageRec /\ v.late = l /\ v.open = p.open /\ v.status = p.status
         /\ v.loading = p.loading /\ v.fetching = p.fetching /\ v.found = p.found
         /\ v.ordered = p.ordered /\ v.pending = p.pending
         /\ (l = p.late => v = p)
BY DEF PageRec, LateIs

LEMMA RunShape ==
  ASSUME NEW q \in Seq(Call), NEW i \in DOMAIN q, NEW at \in {"ok", "failed"},
         NEW rows \in SUBSET Places,
         q[i].at = "waiting", \A j \in 1..(i - 1) : q[j].at # "waiting"
  PROVE  LET r == [q EXCEPT ![i] = [[@ EXCEPT !.at = at] EXCEPT !.rows = rows]] IN
         Ran(q, r, i, at) /\ r[i].rows = rows
<1> DEFINE c == [[q[i] EXCEPT !.at = at] EXCEPT !.rows = rows]
<1> DEFINE r == [q EXCEPT ![i] = c]
<1>1. i \in 1..Len(q) /\ Len(q) \in Nat /\ q[i] \in Call
  BY ElementOfSeq, LenProperties
<1>2. /\ c \in Call /\ c.at = at /\ c.rows = rows /\ c.stmt = q[i].stmt
      /\ c.then = q[i].then /\ c.id = q[i].id /\ c.mounted = q[i].mounted
  BY <1>1 DEF Call
<1> HIDE DEF c
<1>3. /\ r \in Seq(Call) /\ Len(r) = Len(q) /\ r[i] = c
      /\ \A k \in 1..Len(q) : k # i => r[k] = q[k]
  BY <1>1, <1>2, ExceptSeq
<1>4. QED
  BY <1>1, <1>2, <1>3 DEF Ran, c

(* What the queue is made of stays.                                        *)
LEMMA RunKeepsShape ==
  ASSUME NEW q, NEW r, NEW i, NEW at, Ran(q, r, i, at), InOrder(q)
  PROVE  /\ \A then, k : At(r, then, k) <=> At(q, then, k)
         /\ \A k : Reads(r, k) <=> Reads(q, k)
         /\ \A k : Orders(r, k) <=> Orders(q, k)
         /\ \A k : LoadStep(r, k) <=> LoadStep(q, k)
         /\ \A k \in 1..Len(q) : r[k].id = q[k].id /\ r[k].stmt = q[k].stmt
         /\ \A k \in 1..Len(q) : k > i => q[k].at = "waiting" /\ r[k].at = "waiting"
         /\ \A k \in 1..Len(q) : k < i => q[k].at # "waiting"
<1>1. /\ \A then, k : At(r, then, k) <=> At(q, then, k)
      /\ \A k : Reads(r, k) <=> Reads(q, k)
      /\ \A k : Orders(r, k) <=> Orders(q, k)
  BY DEF Ran, At, Reads, Orders
<1>2. \A k \in 1..Len(q) : k > i => q[k].at = "waiting" /\ r[k].at = "waiting"
  BY DEF Ran, InOrder
<1>3. \A k \in 1..Len(q) : k < i => q[k].at # "waiting"
  BY DEF Ran
<1>4. QED
  BY <1>1, <1>2, <1>3 DEF Ran, LoadStep

LEMMA RunKeepsQueue ==
  ASSUME NEW q, NEW s, NEW p, QueueSound(q, s, p), NEW r, NEW i, NEW at,
         Ran(q, r, i, at), NEW l \in SUBSET Places, ~p.open => l = {}
  PROVE  QueueSound(r, s, LateIs(p, l))
<1> DEFINE v == LateIs(p, l)
<1>0. /\ q \in Seq(Call) /\ p \in PageRec /\ InOrder(q) /\ PhaseSound(q, p)
  BY DEF QueueSound
<1>1. /\ v \in PageRec /\ v.late = l /\ v.open = p.open
      /\ v.loading = p.loading /\ v.fetching = p.fetching
      /\ v.ordered = p.ordered /\ v.pending = p.pending /\ (l = p.late => v = p)
  BY <1>0, LateIsIs
<1> HIDE DEF v
<1>2. /\ \A then, k : At(r, then, k) <=> At(q, then, k)
      /\ \A k : Reads(r, k) <=> Reads(q, k)
      /\ \A k : Orders(r, k) <=> Orders(q, k)
      /\ \A k : LoadStep(r, k) <=> LoadStep(q, k)
      /\ \A k \in 1..Len(q) : r[k].id = q[k].id /\ r[k].stmt = q[k].stmt
      /\ \A k \in 1..Len(q) : k > i => q[k].at = "waiting" /\ r[k].at = "waiting"
      /\ \A k \in 1..Len(q) : k < i => q[k].at # "waiting"
  BY <1>0, RunKeepsShape
<1>3. /\ Len(r) = Len(q) /\ r \in Seq(Call) /\ i \in 1..Len(q) /\ Len(q) \in Nat
      /\ r[i].at # "waiting"
  BY DEF Ran
<1>4. KindsSound(r)
  <2>1. \A k \in 1..Len(q) : r[k] \in Call
    BY <1>3, ElementOfSeq
  <2>2. KindSound(r[i])
    BY <2>1, <1>3 DEF Ran, QueueSound, KindsSound, KindSound, Asked
  <2>3. QED
    BY <1>3, <2>2 DEF Ran, QueueSound, KindsSound
<1>5. InOrder(r)
  <2> SUFFICES ASSUME NEW j \in 1..Len(r), NEW k \in 1..Len(r), j < k, r[j].at = "waiting"
               PROVE  r[k].at = "waiting"
    BY DEF InOrder
  <2>1. j # i /\ ~(j < i)
    BY <1>2, <1>3 DEF Ran
  <2>2. QED
    BY <1>2, <1>3, <2>1
<1>6. PhaseSound(r, v)
  <2>1. ~p.open => v = NoPage
    <3>1. NoPage.late = {}
      BY DEF NoPage
    <3>2. QED
      BY <1>0, <1>1, <3>1 DEF PhaseSound
  <2>2. QED
    BY <1>0, <1>1, <1>2, <1>3, <2>1 DEF PhaseSound
<1>7. TogglesSound(r, s, v)
  <2> SUFFICES ASSUME p.open, NEW k \in 1..Len(q), At(q, "toggle", k)
               PROVE  Before(r, v, k) \/ Removes(r, s, v, k)
    BY <1>1, <1>2, <1>3 DEF TogglesSound
  <2>1. CASE Before(q, p, k)
    BY <1>1, <1>2, <1>3, <2>1 DEF Before
  <2>2. CASE Removes(q, s, p, k)
    <3>1. Hidden(r, s, v, k)
      BY <1>1, <1>2, <1>3, <2>2 DEF Removes, Hidden, OutOfHearts, OutOfList
    <3>2. QED
      BY <1>1, <1>2, <1>3, <2>2, <3>1 DEF Removes
  <2>3. QED
    BY <2>1, <2>2 DEF QueueSound, TogglesSound
<1>8. s \subseteq Places
  BY DEF QueueSound
<1>9. QED
  BY <1>1, <1>3, <1>4, <1>5, <1>6, <1>7, <1>8 DEF QueueSound, v

(* What a step of SQLite leaves of the chains to come.                     *)
LEMMA RunKeepsChains ==
  ASSUME NEW q, NEW r, NEW i, NEW at, Ran(q, r, i, at), InOrder(q), KindsSound(q)
  PROVE  /\ \A stmt, x : Written(q, stmt, x) => Written(r, stmt, x)
         /\ ~Reads(q, i) => \A k, x : /\ Brings(r, k, x) <=> Brings(q, k, x)
                                      /\ Drops(r, k, x) <=> Drops(q, k, x)
         /\ ~Reads(q, i) => \A x, n : /\ Comes(q, x, n) => Comes(r, x, n)
                                      /\ Goes(q, x, n) => Goes(r, x, n)
         /\ \A k, x : Removing(r, k, x) => Removing(q, k, x)
         /\ \A k, x : k # i /\ Removing(q, k, x) => Removing(r, k, x)
         /\ \A k \in 1..Len(q) : k # i => r[k] = q[k]
<1>1. /\ \A then, k : At(r, then, k) <=> At(q, then, k)
      /\ \A k : Reads(r, k) <=> Reads(q, k)
  BY RunKeepsShape
<1>2. \A stmt, x : Written(q, stmt, x) => Written(r, stmt, x)
  BY <1>1 DEF Ran, Written
<1>3. ~Reads(q, i) => \A k, x : /\ Brings(r, k, x) <=> Brings(q, k, x)
                                /\ Drops(r, k, x) <=> Drops(q, k, x)
  <2> SUFFICES ASSUME ~Reads(q, i), NEW k, NEW x
               PROVE  /\ Brings(r, k, x) <=> Brings(q, k, x)
                      /\ Drops(r, k, x) <=> Drops(q, k, x)
    OBVIOUS
  <2>1. CASE k = i
    BY <1>1, <2>1 DEF Brings, Drops
  <2>2. CASE k # i
    BY <1>1, <2>2 DEF Ran, Brings, Drops, Reads
  <2>3. QED
    BY <2>1, <2>2
<1>4. ~Reads(q, i) => \A x, n : /\ Comes(q, x, n) => Comes(r, x, n)
                                /\ Goes(q, x, n) => Goes(r, x, n)
  <2> SUFFICES ASSUME ~Reads(q, i), NEW x, NEW n
               PROVE  /\ Comes(q, x, n) => Comes(r, x, n)
                      /\ Goes(q, x, n) => Goes(r, x, n)
    OBVIOUS
  <2>1. Len(r) = Len(q)
    BY DEF Ran
  <2>2. QED
    BY <1>2, <1>3, <2>1 DEF Comes, Goes
<1>5. \A k, x : Removing(r, k, x) => Removing(q, k, x)
  <2> SUFFICES ASSUME NEW k, NEW x, Removing(r, k, x)
               PROVE  Removing(q, k, x)
    OBVIOUS
  <2>1. At(q, "toggle", k) /\ k \in 1..Len(q)
    BY <1>1 DEF Removing, At
  <2>2. QED
    BY <2>1 DEF Removing, Ran
<1>6. \A k, x : k # i /\ Removing(q, k, x) => Removing(r, k, x)
  BY <1>1 DEF Ran, Removing, At
<1>7. QED
  BY <1>2, <1>3, <1>4, <1>5, <1>6 DEF Ran

(* A refused write leaves everything as it is still believed to be.        *)
LEMMA RefusalKeepsTable ==
  ASSUME NEW q, NEW s, NEW p, NEW t, TableSound(q, s, p, t), NEW r, NEW i,
         Ran(q, r, i, "failed"), q[i].stmt # "select"
  PROVE  TableSound(r, s, p, t) /\ (ListCatchesUp(q, p, t) => ListCatchesUp(r, p, t))
<1>0. /\ q \in Seq(Call) /\ p \in PageRec /\ QueueSound(q, s, p) /\ InOrder(q)
      /\ KindsSound(q) /\ PhaseSound(q, p)
  BY DEF TableSound, QueueSound
<1>1. /\ \A then, k : At(r, then, k) <=> At(q, then, k)
      /\ \A k : Reads(r, k) <=> Reads(q, k)
      /\ \A k : Orders(r, k) <=> Orders(q, k)
  BY <1>0, RunKeepsShape
<1>2. /\ Len(r) = Len(q) /\ i \in 1..Len(q) /\ r[i].at = "failed" /\ q[i].at = "waiting"
      /\ \A k \in 1..Len(q) : k # i => r[k] = q[k]
  BY DEF Ran
<1>3. ~Reads(q, i) /\ ~Orders(q, i)
  BY <1>0, <1>2 DEF KindsSound, KindSound, Asked, Reads, Orders, At
<1>4. /\ \A x, n : Comes(q, x, n) => Comes(r, x, n)
      /\ \A x, n : Goes(q, x, n) => Goes(r, x, n)
      /\ \A k, x : Removing(r, k, x) => Removing(q, k, x)
      /\ \A k, x : k # i /\ Removing(q, k, x) => Removing(r, k, x)
  BY <1>0, <1>3, RunKeepsChains
<1>5. \A x : Removing(q, i, x) => Removing(r, i, x)
  BY <1>1, <1>2 DEF Removing, Ran
<1>6. \A x : IsRemoved(q, x) => IsRemoved(r, x)
  BY <1>2, <1>4, <1>5 DEF IsRemoved
<1>7. \A k \in 1..Len(q) :
        Reads(r, k) \/ Orders(r, k) => (Reads(q, k) \/ Orders(q, k)) /\ r[k] = q[k]
  BY <1>1, <1>2, <1>3
<1>8. /\ OrderRan(r, p) <=> OrderRan(q, p)
      /\ \A x : OrderHas(r, p, x) <=> OrderHas(q, p, x)
  BY <1>1, <1>2, <1>7 DEF OrderRan, OrderHas
<1>9. QueueSound(r, s, p)
  <2>1. /\ p.late \in SUBSET Places /\ (~p.open => p.late = {})
    BY <1>0 DEF PhaseSound, NoPage, PageRec
  <2>2. LateIs(p, p.late) = p
    BY <1>0, <2>1, LateIsIs
  <2>3. QED
    BY <1>0, <2>1, <2>2, RunKeepsQueue
<1>10. NothingRefused(r)
  BY <1>2 DEF TableSound, NothingRefused, Ran
<1>11. HeartsCatchUp(r, s, p, t)
  BY <1>1, <1>2, <1>4, <1>6, <1>7 DEF TableSound, HeartsCatchUp
<1>12. OrderSound(r, p, t)
  BY <1>8 DEF TableSound, OrderSound
<1>13. ListLetsGo(r, s, p, t)
  BY <1>1, <1>2, <1>4, <1>7, <1>8 DEF TableSound, ListLetsGo
<1>14. ListCatchesUp(q, p, t) => ListCatchesUp(r, p, t)
  BY <1>4, <1>6 DEF ListCatchesUp
<1>15. QED
  BY <1>9, <1>10, <1>11, <1>12, <1>13, <1>14 DEF TableSound

(* A read that the hearts or the list asked for has the table of now.      *)
LEMMA ReadKeepsTable ==
  ASSUME NEW q, NEW s, NEW p, NEW t, TableSound(q, s, p, t), NEW r, NEW i,
         Ran(q, r, i, "ok"), q[i].stmt = "select", r[i].rows = t,
         NEW l, l = IF Orders(q, i) THEN {} ELSE p.late
  PROVE  /\ TableSound(r, s, LateIs(p, l), t)
         /\ ListCatchesUp(q, p, t) => ListCatchesUp(r, LateIs(p, l), t)
<1> DEFINE v == LateIs(p, l)
<1>0. /\ q \in Seq(Call) /\ p \in PageRec /\ QueueSound(q, s, p) /\ InOrder(q)
      /\ KindsSound(q) /\ PhaseSound(q, p) /\ t \subseteq Places
  BY DEF TableSound, QueueSound
<1>1. /\ \A then, k : At(r, then, k) <=> At(q, then, k)
      /\ \A k : Reads(r, k) <=> Reads(q, k)
      /\ \A k : Orders(r, k) <=> Orders(q, k)
      /\ \A k : LoadStep(r, k) <=> LoadStep(q, k)
  BY <1>0, RunKeepsShape
<1>2. /\ Len(r) = Len(q) /\ i \in 1..Len(q) /\ r[i].at = "ok" /\ q[i].at = "waiting"
      /\ \A k \in 1..Len(q) : k # i => r[k] = q[k]
  BY DEF Ran
<1>3. l \in SUBSET Places /\ (~p.open => l = {})
  <2>1. NoPage.late = {} /\ p.late \in SUBSET Places
    BY <1>0 DEF NoPage, PageRec
  <2>2. QED
    BY <1>0, <2>1 DEF PhaseSound
<1>4. /\ v \in PageRec /\ v.late = l /\ v.open = p.open /\ v.status = p.status
      /\ v.loading = p.loading /\ v.fetching = p.fetching /\ v.found = p.found
      /\ v.ordered = p.ordered
  BY <1>0, <1>3, LateIsIs
<1>5. QueueSound(r, s, v)
  BY <1>0, <1>3, RunKeepsQueue
<1> HIDE DEF v
<1>6. NothingRefused(r)
  BY <1>2 DEF TableSound, NothingRefused, Ran
<1>7. ~At(q, "toggle", i)
  BY <1>0, <1>2 DEF KindsSound, KindSound, Asked, At
<1>8. /\ \A stmt, x : Written(q, stmt, x) => Written(r, stmt, x)
      /\ \A k, x : Removing(r, k, x) => Removing(q, k, x)
      /\ \A k, x : k # i /\ Removing(q, k, x) => Removing(r, k, x)
  BY <1>0, RunKeepsChains
<1>9. /\ \A k, x : Removing(r, k, x) <=> Removing(q, k, x)
      /\ \A x : IsRemoved(q, x) => IsRemoved(r, x)
  BY <1>2, <1>7, <1>8 DEF Removing, IsRemoved
<1>10. /\ \A k : \A x \in t : Brings(q, k, x) => Brings(r, k, x)
       /\ \A k : \A x \in Places \ t : Drops(q, k, x) => Drops(r, k, x)
  <2> SUFFICES ASSUME NEW k, Reads(q, k)
               PROVE  /\ \A x \in t : Brings(q, k, x) => Brings(r, k, x)
                      /\ \A x \in Places \ t : Drops(q, k, x) => Drops(r, k, x)
    BY DEF Brings, Drops
  <2>1. CASE k = i
    BY <1>1, <1>2, <2>1 DEF Brings, Drops
  <2>2. CASE k # i
    BY <1>1, <1>2, <2>2 DEF Brings, Drops, Reads
  <2>3. QED
    BY <2>1, <2>2
<1>11. /\ \A x \in t : \A n : Comes(q, x, n) => Comes(r, x, n)
       /\ \A x \in Places \ t : \A n : Goes(q, x, n) => Goes(r, x, n)
  BY <1>2, <1>8, <1>10 DEF Comes, Goes
<1>12. HeartsCatchUp(r, s, v, t)
  <2>1. \A x \in t : \A k \in 1..Len(r) :
          Reads(r, k) /\ r[k].at = "ok" /\ x \notin r[k].rows => k # i /\ r[k] = q[k]
    BY <1>2
  <2>2. QED
    BY <1>1, <1>2, <1>4, <1>9, <1>11, <2>1 DEF TableSound, HeartsCatchUp
<1>13. \A k \in 1..Len(q) : Orders(q, i) => /\ (Orders(q, k) => k = i)
                                            /\ ~p.fetching /\ p.loading
  BY <1>0, <1>2 DEF PhaseSound, LoadStep
<1>14. Orders(q, i) => \A x : OrderHas(r, v, x) <=> x \in t
  BY <1>1, <1>2, <1>4, <1>13 DEF OrderHas
<1>15. ~Orders(q, i) => /\ OrderRan(r, v) <=> OrderRan(q, p)
                        /\ \A x : OrderHas(r, v, x) <=> OrderHas(q, p, x)
  <2> SUFFICES ASSUME ~Orders(q, i)
               PROVE  /\ OrderRan(r, v) <=> OrderRan(q, p)
                      /\ \A x : OrderHas(r, v, x) <=> OrderHas(q, p, x)
    OBVIOUS
  <2>1. \A k \in 1..Len(q) : Orders(q, k) => r[k] = q[k]
    BY <1>2
  <2>2. QED
    BY <1>1, <1>2, <1>4, <2>1 DEF OrderRan, OrderHas
<1>16. OrderSound(r, v, t)
  BY <1>4, <1>14, <1>15 DEF TableSound, OrderSound
<1>17. ListLetsGo(r, s, v, t)
  <2> SUFFICES ASSUME v.open, NEW x \in Places \ t, x \in v.ordered \/ OrderHas(r, v, x)
               PROVE  /\ x \in s => Goes(r, x, 0)
                      /\ \A k \in 1..Len(r) :
                           Reads(r, k) /\ r[k].at = "ok" /\ x \in r[k].rows => Goes(r, x, k)
                      /\ \A k \in 1..Len(r) : Removing(r, k, x) => Goes(r, x, k)
    BY DEF ListLetsGo
  <2>1. p.open /\ (x \in p.ordered \/ OrderHas(q, p, x))
    BY <1>4, <1>14, <1>15
  <2>2. /\ x \in s => Goes(q, x, 0)
        /\ \A k \in 1..Len(q) :
             Reads(q, k) /\ q[k].at = "ok" /\ x \in q[k].rows => Goes(q, x, k)
        /\ \A k \in 1..Len(q) : Removing(q, k, x) => Goes(q, x, k)
    BY <2>1 DEF TableSound, ListLetsGo
  <2>3. \A k \in 1..Len(r) :
          Reads(r, k) /\ r[k].at = "ok" /\ x \in r[k].rows => k # i /\ r[k] = q[k]
    BY <1>2
  <2>4. QED
    BY <1>1, <1>2, <1>9, <1>11, <2>2, <2>3
<1>18. ListCatchesUp(q, p, t) => ListCatchesUp(r, v, t)
  <2> SUFFICES ASSUME ListCatchesUp(q, p, t), ~Orders(q, i)
               PROVE  ListCatchesUp(r, v, t)
    BY <1>2, <1>4, <1>13 DEF ListCatchesUp
  <2>1. \A x \in t : /\ Comes(q, x, 0) => Comes(r, x, 0)
                     /\ IsRemoved(q, x) => IsRemoved(r, x)
    BY <1>9, <1>11
  <2>2. QED
    BY <1>4, <2>1 DEF ListCatchesUp
<1>19. QED
  BY <1>0, <1>5, <1>6, <1>12, <1>16, <1>17, <1>18 DEF TableSound, v

(* The table after a write, and the places saved after the order was read. *)
TableAfter(c, t) == IF c.stmt = "insert" THEN t \cup {c.id} ELSE t \ {c.id}
LateNow(q, p, c) ==
  IF c.stmt = "insert" /\ OrderRan(q, p) THEN p.late \cup {c.id} ELSE p.late

LEMMA LateNowIs ==
  ASSUME NEW q, NEW s, NEW p, QueueSound(q, s, p), NEW c, c.stmt = "insert" => c.id \in Places
  PROVE  /\ LateNow(q, p, c) \in SUBSET Places
         /\ ~p.open => LateNow(q, p, c) = {}
<1>1. p \in PageRec /\ PhaseSound(q, p)
  BY DEF QueueSound
<1>2. p.late \in SUBSET Places
  BY <1>1 DEF PageRec
<1>3. ASSUME ~p.open
      PROVE  ~OrderRan(q, p) /\ p.late = {}
  <2>1. p = NoPage /\ ~p.loading /\ ~p.fetching
    BY <1>1, <1>3 DEF PhaseSound, NoPage
  <2>2. \A k \in 1..Len(q) : ~Orders(q, k)
    BY <1>1, <2>1 DEF PhaseSound, LoadStep
  <2>3. p.late = {}
    BY <2>1 DEF NoPage
  <2>4. QED
    BY <2>1, <2>2, <2>3 DEF OrderRan
<1>4. QED
  BY <1>2, <1>3 DEF LateNow

(* A write of the restaurant's screen: its answer makes the hearts read.   *)
LEMMA DetailKeepsTable ==
  ASSUME NEW q, NEW s, NEW p, NEW t, TableSound(q, s, p, t), NEW r, NEW i,
         Ran(q, r, i, "ok"), q[i].then = "detail"
  PROVE  LET u == TableAfter(q[i], t)
             v == LateIs(p, LateNow(q, p, q[i]))
         IN /\ TableSound(r, s, v, u)
            /\ ListCatchesUp(q, p, t) => ListCatchesUp(r, v, u)
<1> DEFINE u == TableAfter(q[i], t)
<1> DEFINE l == LateNow(q, p, q[i])
<1> DEFINE v == LateIs(p, l)
<1>0. /\ q \in Seq(Call) /\ p \in PageRec /\ QueueSound(q, s, p) /\ InOrder(q)
      /\ KindsSound(q) /\ PhaseSound(q, p) /\ t \subseteq Places
  BY DEF TableSound, QueueSound
<1>1. /\ \A then, k : At(r, then, k) <=> At(q, then, k)
      /\ \A k : Reads(r, k) <=> Reads(q, k)
      /\ \A k : Orders(r, k) <=> Orders(q, k)
  BY <1>0, RunKeepsShape
<1>2. /\ Len(r) = Len(q) /\ i \in 1..Len(q) /\ r[i].at = "ok" /\ q[i].at = "waiting"
      /\ \A k \in 1..Len(q) : k # i => r[k] = q[k]
      /\ r[i].stmt = q[i].stmt /\ r[i].id = q[i].id
  BY DEF Ran
<1>3. q[i].id \in Places /\ q[i].stmt \in {"insert", "delete"}
  BY <1>0, <1>2 DEF KindsSound, KindSound, Asked, Call
<1>4. l \in SUBSET Places /\ (~p.open => l = {})
  BY <1>0, <1>3, LateNowIs
<1>5. QueueSound(r, s, v)
  BY <1>0, <1>4, RunKeepsQueue
<1>6. /\ v \in PageRec /\ v.late = l /\ v.open = p.open /\ v.status = p.status
      /\ v.loading = p.loading /\ v.fetching = p.fetching /\ v.found = p.found
      /\ v.ordered = p.ordered
  BY <1>0, <1>4, LateIsIs
<1> HIDE DEF v
<1>7. NothingRefused(r)
  BY <1>2 DEF TableSound, NothingRefused, Ran
<1>8. ~Reads(q, i) /\ ~Orders(q, i) /\ (\A x : ~Removing(q, i, x)) /\ At(r, "detail", i)
  BY <1>1, <1>2 DEF Reads, Orders, At, Removing
<1>9. /\ \A x, n : Comes(q, x, n) => Comes(r, x, n)
      /\ \A x, n : Goes(q, x, n) => Goes(r, x, n)
      /\ \A k, x : Removing(r, k, x) => Removing(q, k, x)
      /\ \A k, x : k # i /\ Removing(q, k, x) => Removing(r, k, x)
  BY <1>0, <1>8, RunKeepsChains
<1>10. \A x : IsRemoved(q, x) => IsRemoved(r, x)
  BY <1>2, <1>8, <1>9 DEF IsRemoved
<1>11. \A k \in 1..Len(q) :
         Reads(r, k) \/ Orders(r, k) => (Reads(q, k) \/ Orders(q, k)) /\ r[k] = q[k]
  BY <1>1, <1>2, <1>8
<1>12. /\ OrderRan(r, v) <=> OrderRan(q, p)
       /\ \A x : OrderHas(r, v, x) <=> OrderHas(q, p, x)
  BY <1>1, <1>2, <1>6, <1>11 DEF OrderRan, OrderHas
<1>13. /\ \A n : q[i].stmt = "insert" => Comes(r, q[i].id, n)
       /\ \A n : q[i].stmt = "delete" => Goes(r, q[i].id, n)
  BY <1>2, <1>8 DEF Comes, Goes, Written
<1>14. /\ u \subseteq Places
       /\ \A x \in u : x \in t \/ (q[i].stmt = "insert" /\ x = q[i].id)
       /\ \A x \in Places \ u : x \in Places \ t \/ (q[i].stmt = "delete" /\ x = q[i].id)
       /\ p.late \subseteq l
  BY <1>0, <1>3 DEF TableAfter, LateNow
<1>15. OrderRan(q, p) => \A x \in u \ l : x \in t
  BY <1>3 DEF TableAfter, LateNow
<1> HIDE DEF u, l
<1>16. HeartsCatchUp(r, s, v, u)
  <2> SUFFICES ASSUME v.open, NEW x \in u
               PROVE  /\ x \notin s => Comes(r, x, 0) \/ IsRemoved(r, x)
                      /\ \A k \in 1..Len(r) :
                           Reads(r, k) /\ r[k].at = "ok" /\ x \notin r[k].rows => Comes(r, x, k)
    BY DEF HeartsCatchUp
  <2>1. CASE x \in t
    BY <1>1, <1>2, <1>6, <1>9, <1>10, <1>11, <2>1 DEF TableSound, HeartsCatchUp
  <2>2. QED
    BY <1>13, <1>14, <2>1
<1>17. OrderSound(r, v, u)
  BY <1>6, <1>12, <1>14, <1>15 DEF TableSound, OrderSound
<1>18. ListLetsGo(r, s, v, u)
  <2> SUFFICES ASSUME v.open, NEW x \in Places \ u, x \in v.ordered \/ OrderHas(r, v, x)
               PROVE  /\ x \in s => Goes(r, x, 0)
                      /\ \A k \in 1..Len(r) :
                           Reads(r, k) /\ r[k].at = "ok" /\ x \in r[k].rows => Goes(r, x, k)
                      /\ \A k \in 1..Len(r) : Removing(r, k, x) => Goes(r, x, k)
    BY DEF ListLetsGo
  <2>1. CASE x \in Places \ t
    BY <1>1, <1>2, <1>6, <1>9, <1>11, <1>12, <2>1 DEF TableSound, ListLetsGo
  <2>2. QED
    BY <1>13, <1>14, <2>1
<1>19. ListCatchesUp(q, p, t) => ListCatchesUp(r, v, u)
  <2> SUFFICES ASSUME ListCatchesUp(q, p, t), p.open, p.status = "ready", ~p.loading,
                      NEW x \in u \ l, x \notin p.ordered
               PROVE  Comes(r, x, 0) \/ IsRemoved(r, x)
    BY <1>6 DEF ListCatchesUp
  <2>1. CASE x \in t \ p.late
    BY <1>9, <1>10, <2>1 DEF ListCatchesUp
  <2>2. QED
    BY <1>13, <1>14, <2>1
<1>20. QED
  BY <1>5, <1>7, <1>14, <1>16, <1>17, <1>18, <1>19 DEF TableSound, u, v, l

(* Nothing is asked of the table while no page is open.                    *)
LEMMA ClosedIsSound ==
  ASSUME NEW q, NEW s, NEW p, NEW t, QueueSound(q, s, p), ~p.open,
         NothingRefused(q), t \subseteq Places
  PROVE  TableSound(q, s, p, t) /\ ListCatchesUp(q, p, t)
<1>1. ~p.loading /\ ~p.fetching
  BY DEF QueueSound, PhaseSound, NoPage
<1>2. ~OrderRan(q, p)
  BY <1>1 DEF QueueSound, PhaseSound, OrderRan, LoadStep
<1>3. QED
  BY <1>2 DEF TableSound, HeartsCatchUp, OrderSound, ListLetsGo, ListCatchesUp

(* Nor while an empty page is about to read the hearts.                    *)
LEMMA ToReadIsSound ==
  ASSUME NEW q, NEW s, NEW p, NEW t, QueueSound(q, s, p), NothingRefused(q),
         t \subseteq Places, p.ordered = {},
         NEW k \in 1..Len(q), At(q, "page", k), q[k].at = "waiting"
  PROVE  TableSound(q, s, p, t) /\ ListCatchesUp(q, p, t)
<1>1. Reads(q, k) /\ LoadStep(q, k) /\ q \in Seq(Call) /\ InOrder(q) /\ PhaseSound(q, p)
  BY DEF Reads, At, LoadStep, QueueSound
<1>2. p.loading /\ ~p.fetching /\ \A j \in 1..Len(q) : ~Orders(q, j)
  <2>1. ~Orders(q, k)
    BY DEF At, Orders
  <2>2. QED
    BY <1>1, <2>1 DEF PhaseSound, LoadStep
<1>3. ~OrderRan(q, p) /\ \A x : ~OrderHas(q, p, x)
  BY <1>2 DEF OrderRan, OrderHas
<1>4. \A x, n : n < k => Comes(q, x, n)
  BY <1>1 DEF Comes, Brings
<1>5. \A j \in 1..Len(q) : q[j].at = "ok" => j < k
  BY <1>1, LenProperties DEF InOrder
<1>6. HeartsCatchUp(q, s, p, t)
  <2>1. 0 < k
    OBVIOUS
  <2>2. QED
    BY <1>4, <1>5, <2>1 DEF HeartsCatchUp
<1>7. QED
  BY <1>2, <1>3, <1>6 DEF TableSound, OrderSound, ListLetsGo, ListCatchesUp

(* The write of a heart, or of a removal of the page.                      *)
LEMMA ToggleKeepsTable ==
  ASSUME NEW q, NEW s, NEW p, NEW t, TableSound(q, s, p, t), NEW r, NEW i,
         Ran(q, r, i, "ok"), q[i].then = "toggle"
  PROVE  LET u == TableAfter(q[i], t)
             v == LateIs(p, LateNow(q, p, q[i]))
         IN /\ TableSound(r, s, v, u)
            /\ ListCatchesUp(q, p, t) => ListCatchesUp(r, v, u)
<1> DEFINE u == TableAfter(q[i], t)
<1> DEFINE l == LateNow(q, p, q[i])
<1> DEFINE v == LateIs(p, l)
<1>0. /\ q \in Seq(Call) /\ p \in PageRec /\ QueueSound(q, s, p) /\ InOrder(q)
      /\ KindsSound(q) /\ PhaseSound(q, p) /\ t \subseteq Places
  BY DEF TableSound, QueueSound
<1>1. /\ \A then, k : At(r, then, k) <=> At(q, then, k)
      /\ \A k : Reads(r, k) <=> Reads(q, k)
      /\ \A k : Orders(r, k) <=> Orders(q, k)
      /\ \A k \in 1..Len(q) : k > i => q[k].at = "waiting" /\ r[k].at = "waiting"
  BY <1>0, RunKeepsShape
<1>2. /\ Len(r) = Len(q) /\ i \in 1..Len(q) /\ r[i].at = "ok" /\ q[i].at = "waiting"
      /\ \A k \in 1..Len(q) : k # i => r[k] = q[k]
      /\ r[i].stmt = q[i].stmt /\ r[i].id = q[i].id
  BY DEF Ran
<1>3. q[i].id \in Places /\ q[i].stmt \in {"insert", "delete"}
  BY <1>0, <1>2 DEF KindsSound, KindSound, Asked, Call
<1>4. l \in SUBSET Places /\ (~p.open => l = {})
  BY <1>0, <1>3, LateNowIs
<1>5. QueueSound(r, s, v)
  BY <1>0, <1>4, RunKeepsQueue
<1>6. /\ v \in PageRec /\ v.late = l /\ v.open = p.open /\ v.status = p.status
      /\ v.loading = p.loading /\ v.fetching = p.fetching /\ v.found = p.found
      /\ v.ordered = p.ordered /\ (l = p.late => v = p)
  BY <1>0, <1>4, LateIsIs
<1> HIDE DEF v
<1>7. NothingRefused(r)
  BY <1>2 DEF TableSound, NothingRefused, Ran
<1>8. u \subseteq Places
  BY <1>0, <1>3 DEF TableAfter
<1>9. CASE ~p.open
  BY <1>5, <1>6, <1>7, <1>8, <1>9, ClosedIsSound DEF u, v, l
<1>10. CASE Before(q, p, i)
  <2>1. PICK k \in 1..Len(q) : k > i /\ At(q, "page", k)
    BY <1>10 DEF Before
  <2>2. At(r, "page", k) /\ r[k].at = "waiting" /\ k \in 1..Len(r) /\ v.ordered = {}
    BY <1>1, <1>2, <1>6, <1>10, <2>1 DEF Before
  <2>3. TableSound(r, s, v, u) /\ ListCatchesUp(r, v, u)
    BY <1>5, <1>7, <1>8, <2>2, ToReadIsSound
  <2>4. QED
    BY <2>3 DEF u, v, l
<1>11. ASSUME p.open, Removes(q, s, p, i)
       PROVE  /\ TableSound(r, s, v, u)
              /\ ListCatchesUp(q, p, t) => ListCatchesUp(r, v, u)
  <2>1. u = t \ {q[i].id} /\ l = p.late /\ v = p
    BY <1>6, <1>11 DEF Removes, TableAfter, LateNow
  <2> HIDE DEF u, l
  <2>2. ~Reads(q, i) /\ ~Orders(q, i)
    BY <1>2 DEF Reads, Orders, At
  <2>3. /\ \A x, n : Comes(q, x, n) => Comes(r, x, n)
        /\ \A x, n : Goes(q, x, n) => Goes(r, x, n)
        /\ \A k, x : Removing(r, k, x) => Removing(q, k, x)
        /\ \A k, x : k # i /\ Removing(q, k, x) => Removing(r, k, x)
    BY <1>0, <2>2, RunKeepsChains
  <2>4. \A x : x # q[i].id /\ IsRemoved(q, x) => IsRemoved(r, x)
    <3>1. \A k, x : Removing(q, k, x) /\ x # q[i].id => k # i
      BY DEF Removing
    <3>2. QED
      BY <1>2, <2>3, <3>1 DEF IsRemoved
  <2>5. \A k \in 1..Len(q) :
          Reads(r, k) \/ Orders(r, k) => (Reads(q, k) \/ Orders(q, k)) /\ r[k] = q[k]
    BY <1>1, <1>2, <2>2
  <2>6. /\ OrderRan(r, p) <=> OrderRan(q, p)
        /\ \A x : OrderHas(r, p, x) <=> OrderHas(q, p, x)
    BY <1>1, <1>2, <2>5 DEF OrderRan, OrderHas
  <2>7. HeartsCatchUp(r, s, p, u)
    BY <1>1, <1>2, <2>1, <2>3, <2>4, <2>5 DEF TableSound, HeartsCatchUp
  <2>8. OrderSound(r, p, u)
    BY <2>1, <2>6 DEF TableSound, OrderSound
  <2>9. ListLetsGo(r, s, p, u)
    <3> SUFFICES ASSUME NEW x \in Places \ u, x \in p.ordered \/ OrderHas(r, p, x)
                 PROVE  /\ x \in s => Goes(r, x, 0)
                        /\ \A k \in 1..Len(r) :
                             Reads(r, k) /\ r[k].at = "ok" /\ x \in r[k].rows => Goes(r, x, k)
                        /\ \A k \in 1..Len(r) : Removing(r, k, x) => Goes(r, x, k)
      BY DEF ListLetsGo
    <3>1. CASE x # q[i].id
      <4>1. x \in Places \ t
        BY <2>1, <3>1
      <4>2. QED
        BY <1>1, <1>2, <1>11, <2>3, <2>5, <2>6, <4>1 DEF TableSound, ListLetsGo
    <3>2. CASE x = q[i].id
      <4>1. ~OutOfList(q, p, i)
        <5> SUFFICES ASSUME OutOfList(q, p, i)
                     PROVE  FALSE
          OBVIOUS
        <5>1. PICK k \in 1..Len(q) : (k < i /\ At(q, "page", k)) \/ (k > i /\ Orders(q, k))
          BY DEF OutOfList
        <5>2. ~p.fetching /\ \A j \in 1..Len(q) : Orders(q, j) => j = k
          BY <1>0, <5>1 DEF PhaseSound, LoadStep
        <5>3. ~(Orders(q, k) /\ q[k].at = "ok")
          BY <1>1, <5>1 DEF At, Orders
        <5>4. ~OrderHas(q, p, x)
          BY <5>2, <5>3 DEF OrderHas
        <5>5. x \notin p.ordered
          BY <3>2 DEF OutOfList
        <5>6. QED
          BY <2>6, <5>4, <5>5
      <4>2. OutOfHearts(q, s, i)
        BY <1>11, <4>1 DEF Removes, Hidden
      <4>3. x \notin s /\ \A k \in 1..Len(r) : Reads(r, k) => r[k].at = "waiting"
        BY <1>1, <1>2, <3>2, <4>2 DEF OutOfHearts
      <4>4. \A k \in 1..Len(r) : ~Removing(r, k, x)
        <5> SUFFICES ASSUME NEW k \in 1..Len(q), Removing(r, k, x)
                     PROVE  FALSE
          BY <1>2
        <5>1. Removing(q, k, x)
          BY <2>3
        <5>2. k = i
          BY <1>11, <3>2, <5>1 DEF Removes, Removing
        <5>3. QED
          BY <1>2, <5>2 DEF Removing
      <4>5. QED
        BY <4>3, <4>4
    <3>3. QED
      BY <3>1, <3>2
  <2>10. ListCatchesUp(q, p, t) => ListCatchesUp(r, p, u)
    BY <2>1, <2>3, <2>4 DEF ListCatchesUp
  <2>11. QED
    BY <1>5, <1>7, <1>8, <2>1, <2>7, <2>8, <2>9, <2>10 DEF TableSound
<1>12. QED
  <2>1. At(q, "toggle", i)
    BY <1>2 DEF At
  <2>2. p.open => Before(q, p, i) \/ Removes(q, s, p, i)
    BY <1>0, <1>2, <2>1 DEF QueueSound, TogglesSound
  <2>3. QED
    BY <1>9, <1>10, <1>11, <2>2 DEF u, v, l

-----------------------------------------------------------------------------
(* A screen is left.                                                       *)
LEMMA ForsakenIs ==
  ASSUME NEW q \in Seq(Call), NEW whose
  PROVE  LET r == Forsaken(q, whose) IN
         /\ r \in Seq(Call) /\ Len(r) = Len(q) /\ Len(q) \in Nat
         /\ \A i \in 1..Len(q) :
              /\ r[i].stmt = q[i].stmt /\ r[i].then = q[i].then /\ r[i].id = q[i].id
              /\ r[i].at = q[i].at /\ r[i].rows = q[i].rows
              /\ q[i].then \notin whose => r[i].mounted = q[i].mounted
              /\ q[i].then \in whose => r[i].mounted = FALSE
<1> DEFINE r == Forsaken(q, whose)
<1>1. DOMAIN q = 1..Len(q) /\ Len(q) \in Nat /\ \A i \in 1..Len(q) : q[i] \in Call
  BY ElementOfSeq, LenProperties
<1>2. \A i \in 1..Len(q) :
        r[i] = IF q[i].then \in whose THEN [q[i] EXCEPT !.mounted = FALSE] ELSE q[i]
  BY <1>1 DEF Forsaken
<1>3. \A i \in 1..Len(q) : [q[i] EXCEPT !.mounted = FALSE] \in Call
  BY <1>1 DEF Call
<1>4. r \in Seq(Call) /\ Len(r) = Len(q)
  <2>1. r = [i \in 1..Len(q) |-> r[i]]
    BY <1>1 DEF Forsaken
  <2>2. \A i \in 1..Len(q) : r[i] \in Call
    BY <1>1, <1>2, <1>3
  <2> HIDE DEF r
  <2>3. r \in Seq(Call)
    BY <1>1, <2>1, <2>2, IsASeq
  <2>4. QED
    BY <1>1, <2>1, <2>3, LenProperties
<1> HIDE DEF r
<1>5. \A i \in 1..Len(q) :
        /\ r[i].stmt = q[i].stmt /\ r[i].then = q[i].then /\ r[i].id = q[i].id
        /\ r[i].at = q[i].at /\ r[i].rows = q[i].rows
        /\ q[i].then \notin whose => r[i].mounted = q[i].mounted
        /\ q[i].then \in whose => r[i].mounted = FALSE
  BY <1>1, <1>2 DEF Call
<1>6. QED
  BY <1>1, <1>4, <1>5 DEF r

LEMMA LeaveKeepsQueue ==
  ASSUME NEW q, NEW s, NEW p, QueueSound(q, s, p)
  PROVE  QueueSound(Forsaken(q, {"icon", "tap", "detail"}), s, p)
<1> DEFINE w == {"icon", "tap", "detail"}
<1> DEFINE r == Forsaken(q, w)
<1>1. q \in Seq(Call)
  BY DEF QueueSound
<1>2. /\ r \in Seq(Call) /\ Len(r) = Len(q) /\ Len(q) \in Nat
      /\ \A i \in 1..Len(q) :
           /\ r[i].stmt = q[i].stmt /\ r[i].then = q[i].then /\ r[i].id = q[i].id
           /\ r[i].at = q[i].at /\ r[i].rows = q[i].rows
           /\ q[i].then \notin w => r[i].mounted = q[i].mounted
           /\ q[i].then \in w => r[i].mounted = FALSE
  <2> HIDE DEF w
  <2>1. QED
    BY <1>1, ForsakenIs
<1> HIDE DEF r
<1>3. /\ \A then, k : At(r, then, k) <=> At(q, then, k)
      /\ \A k : Reads(r, k) <=> Reads(q, k)
      /\ \A k : Orders(r, k) <=> Orders(q, k)
  BY <1>2 DEF At, Reads, Orders
<1>4. KindsSound(r)
  <2>1. \A i \in 1..Len(q) : r[i] \in Call
    BY <1>2, ElementOfSeq
  <2>2. QED
    BY <1>2, <2>1 DEF QueueSound, KindsSound, KindSound, Asked
<1>5. InOrder(r)
  BY <1>2 DEF QueueSound, InOrder
<1>6. PhaseSound(r, p)
  BY <1>2, <1>3 DEF QueueSound, PhaseSound, LoadStep
<1>7. TogglesSound(r, s, p)
  <2> SUFFICES ASSUME p.open, NEW i \in 1..Len(q), At(q, "toggle", i)
               PROVE  Before(r, p, i) \/ Removes(r, s, p, i)
    BY <1>2, <1>3 DEF TogglesSound
  <2>1. CASE Before(q, p, i)
    BY <1>2, <1>3, <2>1 DEF Before
  <2>2. CASE Removes(q, s, p, i)
    <3>1. Hidden(r, s, p, i)
      BY <1>2, <1>3, <2>2 DEF Removes, Hidden, OutOfHearts, OutOfList
    <3>2. QED
      BY <1>2, <1>3, <2>2, <3>1 DEF Removes
  <2>3. QED
    BY <2>1, <2>2 DEF QueueSound, TogglesSound
<1>8. QED
  BY <1>2, <1>4, <1>5, <1>6, <1>7 DEF QueueSound, r

LEMMA LeaveKeepsTable ==
  ASSUME NEW q, NEW s, NEW p, NEW t, TableSound(q, s, p, t)
  PROVE  LET r == Forsaken(q, {"icon", "tap", "detail"}) IN
         TableSound(r, s, p, t) /\ (ListCatchesUp(q, p, t) => ListCatchesUp(r, p, t))
<1> DEFINE w == {"icon", "tap", "detail"}
<1> DEFINE r == Forsaken(q, w)
<1>1. q \in Seq(Call) /\ QueueSound(q, s, p) /\ t \subseteq Places
  BY DEF TableSound, QueueSound
<1>2. /\ r \in Seq(Call) /\ Len(r) = Len(q) /\ Len(q) \in Nat
      /\ \A i \in 1..Len(q) :
           /\ r[i].stmt = q[i].stmt /\ r[i].then = q[i].then /\ r[i].id = q[i].id
           /\ r[i].at = q[i].at /\ r[i].rows = q[i].rows
           /\ q[i].then \notin w => r[i].mounted = q[i].mounted
           /\ q[i].then \in w => r[i].mounted = FALSE
  <2>1. q \in Seq(Call)
    BY <1>1
  <2> HIDE DEF w
  <2>2. QED
    BY <2>1, ForsakenIs
<1>3. QueueSound(r, s, p)
  BY <1>1, LeaveKeepsQueue
<1> HIDE DEF r
<1>4. /\ \A then, k : At(r, then, k) <=> At(q, then, k)
      /\ \A k : Reads(r, k) <=> Reads(q, k)
      /\ \A k : Orders(r, k) <=> Orders(q, k)
  BY <1>2 DEF At, Reads, Orders
<1>5. /\ \A k, x : Brings(q, k, x) => Brings(r, k, x)
      /\ \A k, x : Drops(q, k, x) => Drops(r, k, x)
      /\ \A stmt, x : Written(q, stmt, x) => Written(r, stmt, x)
      /\ \A k, x : Removing(q, k, x) <=> Removing(r, k, x)
  <2>1. /\ \A k : Reads(q, k) => k \in 1..Len(q)
        /\ \A k : At(q, "toggle", k) \/ At(q, "detail", k) => k \in 1..Len(q)
    BY DEF Reads, At
  <2>2. /\ \A k, x : Brings(q, k, x) => Brings(r, k, x)
        /\ \A k, x : Drops(q, k, x) => Drops(r, k, x)
    BY <1>2, <1>4, <2>1 DEF Brings, Drops
  <2>3. \A stmt, x : Written(q, stmt, x) => Written(r, stmt, x)
    BY <1>2, <1>4, <2>1 DEF Written
  <2>4. \A k, x : Removing(q, k, x) <=> Removing(r, k, x)
    BY <1>2, <1>4, <2>1 DEF Removing
  <2>5. QED
    BY <2>2, <2>3, <2>4
<1>6. /\ \A x, n : Comes(q, x, n) => Comes(r, x, n)
      /\ \A x, n : Goes(q, x, n) => Goes(r, x, n)
      /\ \A x : IsRemoved(q, x) => IsRemoved(r, x)
  BY <1>2, <1>5 DEF Comes, Goes, IsRemoved
<1>7. /\ OrderRan(r, p) <=> OrderRan(q, p)
      /\ \A x : OrderHas(r, p, x) <=> OrderHas(q, p, x)
  BY <1>2, <1>4 DEF OrderRan, OrderHas
<1>8. NothingRefused(r)
  BY <1>2 DEF TableSound, NothingRefused
<1>9. HeartsCatchUp(r, s, p, t)
  BY <1>2, <1>4, <1>6 DEF TableSound, HeartsCatchUp
<1>10. OrderSound(r, p, t)
  BY <1>7 DEF TableSound, OrderSound
<1>11. ListLetsGo(r, s, p, t)
  BY <1>2, <1>4, <1>5, <1>6, <1>7 DEF TableSound, ListLetsGo
<1>12. ListCatchesUp(q, p, t) => ListCatchesUp(r, p, t)
  BY <1>6 DEF ListCatchesUp
<1>13. QED
  BY <1>1, <1>3, <1>8, <1>9, <1>10, <1>11, <1>12 DEF TableSound, r

(* No page: nothing is asked of the toggles.                               *)
LEMMA NoPageIs == NoPage \in PageRec /\ ~NoPage.open /\ ~NoPage.loading /\ ~NoPage.fetching
BY DEF NoPage, PageRec

LEMMA ClosedQueue ==
  ASSUME NEW q \in Seq(Call), NEW s \in SUBSET Places, KindsSound(q), InOrder(q),
         \A k \in 1..Len(q) : ~LoadStep(q, k)
  PROVE  QueueSound(q, s, NoPage)
BY NoPageIs DEF QueueSound, PhaseSound, TogglesSound

LEMMA ClosedIs ==
  ASSUME NEW q, NEW s, NEW p, QueueSound(q, s, p), ~p.open
  PROVE  p = NoPage /\ \A k \in 1..Len(q) : ~LoadStep(q, k)
BY DEF QueueSound, PhaseSound

LEMMA ClosedSend ==
  ASSUME NEW q, NEW s, NEW p, QueueSound(q, s, p), ~p.open,
         NEW c, KindSound(c), c.at = "waiting", c.then \notin {"page", "order"},
         NEW u \in SUBSET Places
  PROVE  /\ QueueSound(Append(q, c), u, p)
         /\ NothingRefused(q) => NothingRefused(Append(q, c))
<1> DEFINE r == Append(q, c)
<1>1. q \in Seq(Call) /\ c \in Call
  BY DEF QueueSound, KindSound, Asked
<1>2. /\ r \in Seq(Call) /\ Len(q) \in Nat /\ Len(r) = Len(q) + 1
      /\ \A i \in 1..Len(q) : i \in 1..Len(r) /\ r[i] = q[i]
      /\ Len(r) \in 1..Len(r) /\ r[Len(r)] = c
      /\ \A i \in 1..Len(r) : i \in 1..Len(q) \/ i = Len(r)
  BY <1>1, Sent
<1>3. p = NoPage /\ \A k \in 1..Len(q) : ~LoadStep(q, k)
  BY ClosedIs
<1> HIDE DEF r
<1>4. KindsSound(r) /\ InOrder(r)
  BY <1>2 DEF QueueSound, KindsSound, InOrder
<1>5. \A k \in 1..Len(r) : ~LoadStep(r, k)
  BY <1>2, <1>3 DEF LoadStep, Orders, At
<1>6. QueueSound(r, u, p)
  BY <1>2, <1>3, <1>4, <1>5, ClosedQueue
<1>7. NothingRefused(q) => NothingRefused(r)
  BY <1>2 DEF NothingRefused
<1>8. QED
  BY <1>6, <1>7 DEF r

LEMMA CloseKeepsQueue ==
  ASSUME NEW q, NEW s, NEW p, QueueSound(q, s, p), Still(q), NEW u \in SUBSET Places
  PROVE  LET r == Forsaken(q, {"page", "order"}) IN
         /\ QueueSound(r, u, NoPage)
         /\ NothingRefused(q) => NothingRefused(r)
<1> DEFINE w == {"page", "order"}
<1> DEFINE r == Forsaken(q, w)
<1>1. q \in Seq(Call)
  BY DEF QueueSound
<1>2. /\ r \in Seq(Call) /\ Len(r) = Len(q) /\ Len(q) \in Nat
      /\ \A i \in 1..Len(q) :
           /\ r[i].stmt = q[i].stmt /\ r[i].then = q[i].then /\ r[i].id = q[i].id
           /\ r[i].at = q[i].at /\ r[i].rows = q[i].rows
           /\ q[i].then \notin w => r[i].mounted = q[i].mounted
           /\ q[i].then \in w => r[i].mounted = FALSE
  <2> HIDE DEF w
  <2>1. QED
    BY <1>1, ForsakenIs
<1> HIDE DEF r
<1>3. \A i \in 1..Len(q) : q[i].then # "page"
  BY DEF Still, Reads
<1>4. KindsSound(r)
  <2>1. \A i \in 1..Len(q) : r[i] \in Call
    BY <1>2, ElementOfSeq
  <2>2. QED
    BY <1>2, <1>3, <2>1 DEF QueueSound, KindsSound, KindSound, Asked
<1>5. InOrder(r)
  BY <1>2 DEF QueueSound, InOrder
<1>6. \A k \in 1..Len(r) : ~LoadStep(r, k)
  BY <1>2, <1>3 DEF LoadStep, At, Orders
<1>7. QueueSound(r, u, NoPage)
  BY <1>2, <1>4, <1>5, <1>6, ClosedQueue
<1>8. NothingRefused(q) => NothingRefused(r)
  BY <1>2 DEF NothingRefused
<1>9. QED
  BY <1>7, <1>8 DEF r

LEMMA OpenKeepsQueue ==
  ASSUME NEW q, NEW s, NEW p, QueueSound(q, s, p), ~p.open
  PROVE  LET r == Append(q, LoadPage)
             v == [NoPage EXCEPT !.open = TRUE, !.loading = TRUE]
         IN /\ QueueSound(r, s, v)
            /\ \A t \in SUBSET Places :
                 NothingRefused(q) => TableSound(r, s, v, t) /\ ListCatchesUp(r, v, t)
<1> DEFINE r == Append(q, LoadPage)
<1> DEFINE v == [NoPage EXCEPT !.open = TRUE, !.loading = TRUE]
<1>1. q \in Seq(Call) /\ s \subseteq Places
  BY DEF QueueSound
<1>2. /\ r \in Seq(Call) /\ Len(q) \in Nat /\ Len(r) = Len(q) + 1
      /\ \A i \in 1..Len(q) : i \in 1..Len(r) /\ r[i] = q[i]
      /\ Len(r) \in 1..Len(r) /\ r[Len(r)] = LoadPage
      /\ \A i \in 1..Len(r) : i \in 1..Len(q) \/ i = Len(r)
  BY <1>1, LoadPageIs, Sent
<1>3. p = NoPage /\ \A k \in 1..Len(q) : ~LoadStep(q, k)
  BY ClosedIs
<1>4. /\ v \in PageRec /\ v.open /\ v.loading /\ ~v.fetching
      /\ v.ordered = {} /\ v.pending = NoPlace
  BY DEF NoPage, PageRec
<1> HIDE DEF r, v
<1>5. KindsSound(r) /\ InOrder(r)
  BY <1>2, LoadPageIs DEF QueueSound, KindsSound, InOrder
<1>6. \A k \in 1..Len(r) : LoadStep(r, k) => k = Len(r)
  BY <1>2, <1>3 DEF LoadStep, Orders, At
<1>7. PhaseSound(r, v)
  BY <1>4, <1>6 DEF PhaseSound
<1>8. At(r, "page", Len(r)) /\ r[Len(r)].at = "waiting"
  BY <1>2, LoadPageIs DEF At
<1>9. \A i \in 1..Len(r) : At(r, "toggle", i) => i < Len(r)
  BY <1>2, LoadPageIs DEF At
<1>10. TogglesSound(r, s, v)
  BY <1>2, <1>4, <1>8, <1>9 DEF TogglesSound, Before
<1>11. QueueSound(r, s, v)
  BY <1>1, <1>2, <1>4, <1>5, <1>7, <1>10 DEF QueueSound
<1>12. ASSUME NEW t \in SUBSET Places, NothingRefused(q)
       PROVE  TableSound(r, s, v, t) /\ ListCatchesUp(r, v, t)
  <2>1. NothingRefused(r)
    BY <1>2, <1>12, LoadPageIs DEF NothingRefused
  <2>2. QED
    BY <1>2, <1>4, <1>8, <1>11, <2>1, ToReadIsSound
<1>13. QED
  BY <1>11, <1>12 DEF r, v

(* "Deshacer": nothing waits any more.                                     *)
LEMMA UndoKeepsQueue ==
  ASSUME NEW q, NEW s, NEW p, QueueSound(q, s, p), p.open
  PROVE  QueueSound(q, s, [p EXCEPT !.pending = NoPlace])
<1> DEFINE v == [p EXCEPT !.pending = NoPlace]
<1>1. /\ v \in PageRec /\ v.open /\ v.loading = p.loading /\ v.fetching = p.fetching
      /\ v.ordered = p.ordered /\ v.pending = NoPlace
  BY DEF QueueSound, PageRec
<1> HIDE DEF v
<1>2. PhaseSound(q, v)
  BY <1>1 DEF QueueSound, PhaseSound
<1>3. TogglesSound(q, s, v)
  <2> SUFFICES ASSUME NEW i \in 1..Len(q), At(q, "toggle", i)
               PROVE  Before(q, v, i) \/ Removes(q, s, v, i)
    BY DEF TogglesSound
  <2>1. q[i].id \in Places
    BY DEF QueueSound, KindsSound, KindSound, Asked, At
  <2>2. CASE Before(q, p, i)
    BY <1>1, <2>2 DEF Before
  <2>3. CASE Removes(q, s, p, i)
    BY <1>1, <2>1, <2>3 DEF Removes, Hidden, OutOfList
  <2>4. QED
    BY <2>2, <2>3 DEF QueueSound, TogglesSound
<1>4. QED
  BY <1>1, <1>2, <1>3 DEF QueueSound, v

LEMMA UndoKeepsTable ==
  ASSUME NEW q, NEW s, NEW p, NEW t, TableSound(q, s, p, t), p.open, ListCatchesUp(q, p, t)
  PROVE  LET v == [p EXCEPT !.pending = NoPlace] IN
         TableSound(q, s, v, t) /\ ListCatchesUp(q, v, t)
<1> DEFINE v == [p EXCEPT !.pending = NoPlace]
<1>1. /\ v.open /\ v.loading = p.loading /\ v.fetching = p.fetching
      /\ v.ordered = p.ordered /\ v.found = p.found /\ v.late = p.late
      /\ v.status = p.status
  BY DEF TableSound, QueueSound, PageRec
<1>2. QueueSound(q, s, v)
  BY UndoKeepsQueue DEF TableSound
<1> HIDE DEF v
<1>3. /\ OrderRan(q, v) <=> OrderRan(q, p)
      /\ \A x : OrderHas(q, v, x) <=> OrderHas(q, p, x)
  BY <1>1 DEF OrderRan, OrderHas
<1>4. HeartsCatchUp(q, s, v, t)
  BY DEF TableSound, HeartsCatchUp
<1>5. OrderSound(q, v, t)
  BY <1>1, <1>3 DEF TableSound, OrderSound
<1>6. ListLetsGo(q, s, v, t)
  BY <1>1, <1>3 DEF TableSound, ListLetsGo
<1>7. ListCatchesUp(q, v, t)
  BY <1>1 DEF ListCatchesUp
<1>8. QED
  BY <1>2, <1>4, <1>5, <1>6, <1>7 DEF TableSound, v

-----------------------------------------------------------------------------
(* The actions.                                                            *)
LEMMA RunIs ==
  ASSUME NEW q \in Seq(Call), NEW i \in DOMAIN q, NEW rows \in SUBSET Places,
         q[i].at = "waiting", \A j \in 1..(i - 1) : q[j].at # "waiting"
  PROVE  LET r == [q EXCEPT ![i].at = "ok", ![i].rows = rows] IN
         Ran(q, r, i, "ok") /\ r[i].rows = rows
<1> DEFINE m == [q EXCEPT ![i].at = "ok"]
<1> DEFINE r == [q EXCEPT ![i].at = "ok", ![i].rows = rows]
<1>1. i \in 1..Len(q) /\ Len(q) \in Nat /\ q[i] \in Call
  BY ElementOfSeq, LenProperties
<1>2. [q[i] EXCEPT !.at = "ok"] \in Call
  BY <1>1 DEF Call
<1>3. /\ m \in Seq(Call) /\ Len(m) = Len(q) /\ m[i] = [q[i] EXCEPT !.at = "ok"]
      /\ \A k \in 1..Len(q) : k # i => m[k] = q[k]
  BY <1>1, <1>2, ExceptSeq
<1>4. r = [m EXCEPT ![i].rows = rows]
  OBVIOUS
<1> HIDE DEF m, r
<1>5. [m[i] EXCEPT !.rows = rows] \in Call
  BY <1>2, <1>3 DEF Call
<1>6. /\ r \in Seq(Call) /\ Len(r) = Len(m) /\ r[i] = [m[i] EXCEPT !.rows = rows]
      /\ \A k \in 1..Len(m) : k # i => r[k] = m[k]
  BY <1>1, <1>3, <1>4, <1>5, ExceptSeq
<1>7. /\ r[i].at = "ok" /\ r[i].rows = rows /\ r[i].stmt = q[i].stmt
      /\ r[i].then = q[i].then /\ r[i].id = q[i].id /\ r[i].mounted = q[i].mounted
  BY <1>1, <1>3, <1>6 DEF Call
<1>8. QED
  BY <1>1, <1>3, <1>6, <1>7 DEF Ran, r

LEMMA RefusalIs ==
  ASSUME NEW q \in Seq(Call), NEW i \in DOMAIN q,
         q[i].at = "waiting", \A j \in 1..(i - 1) : q[j].at # "waiting"
  PROVE  Ran(q, [q EXCEPT ![i].at = "failed"], i, "failed")
<1> DEFINE r == [q EXCEPT ![i].at = "failed"]
<1>1. i \in 1..Len(q) /\ Len(q) \in Nat /\ q[i] \in Call
  BY ElementOfSeq, LenProperties
<1>2. [q[i] EXCEPT !.at = "failed"] \in Call
  BY <1>1 DEF Call
<1>3. /\ r \in Seq(Call) /\ Len(r) = Len(q) /\ r[i] = [q[i] EXCEPT !.at = "failed"]
      /\ \A k \in 1..Len(q) : k # i => r[k] = q[k]
  BY <1>1, <1>2, ExceptSeq
<1> HIDE DEF r
<1>4. /\ r[i].at = "failed" /\ r[i].stmt = q[i].stmt
      /\ r[i].then = q[i].then /\ r[i].id = q[i].id /\ r[i].mounted = q[i].mounted
  BY <1>1, <1>3 DEF Call
<1>5. QED
  BY <1>1, <1>3, <1>4 DEF Ran, r

(* The table.                                                              *)
LEMMA IdsAfter ==
  ASSUME NEW f \in [Places -> Nat], NEW x \in Places
  PROVE  /\ [f EXCEPT ![x] = @ + 1] \in [Places -> Nat]
         /\ Ids([f EXCEPT ![x] = @ + 1]) = Ids(f) \cup {x}
         /\ [f EXCEPT ![x] = 0] \in [Places -> Nat]
         /\ Ids([f EXCEPT ![x] = 0]) = Ids(f) \ {x}
BY DEF Ids

LEMMA TypeIs == Typed <=> /\ fav \in [Places -> Nat] /\ saved \in SUBSET Places
                           /\ loaded \in BOOLEAN /\ calls \in Seq(Call) /\ page \in PageRec
                           /\ detail \in [id : Places \cup {NoPlace}, icon : BOOLEAN]
BY DEF Typed, PageRec

-----------------------------------------------------------------------------
LEMMA SentIs ==
  ASSUME NEW q \in Seq(Call), NEW c \in Call
  PROVE  Append(q, c) \in Seq(Call)
BY Sent

LEMMA ToldIs ==
  ASSUME NEW q \in Seq(Call), NEW p \in PageRec, NEW s
  PROVE  Told(q, p, s) \in Seq(Call) /\ Notified(p, s) \in PageRec
<1>1. [p EXCEPT !.loading = TRUE] \in PageRec
  BY DEF PageRec
<1>2. Append(q, LoadPage) \in Seq(Call)
  BY LoadPageIs, SentIs
<1>3. QED
  BY <1>1, <1>2 DEF Told, Notified

LEMMA DroppedIs ==
  ASSUME NEW p \in PageRec, NEW next \in Places \cup {NoPlace}
  PROVE  Dropped(p) \in PageRec /\ [Dropped(p) EXCEPT !.pending = next] \in PageRec
BY DEF Dropped, PageRec

LEMMA CommitType ==
  ASSUME Typed, NEW next \in Places \cup {NoPlace}, Commit(next)
  PROVE  saved' \in SUBSET Places /\ page' \in PageRec /\ Committed \in Seq(Call)
<1> USE TypeIs
<1>1. saved' \in SUBSET Places
  BY DEF Commit, Kept
<1>2. /\ Dropped(page) \in PageRec /\ [Dropped(page) EXCEPT !.pending = next] \in PageRec
  BY DroppedIs
<1>3. /\ page' = Notified([Dropped(page) EXCEPT !.pending = next], Kept)
         \/ page' = [Dropped(page) EXCEPT !.pending = next]
  BY DEF Commit
<1>4. Notified([Dropped(page) EXCEPT !.pending = next], Kept) \in PageRec
  BY <1>2, ToldIs
<1>5. Told(calls, Dropped(page), Kept) \in Seq(Call)
  BY <1>2, ToldIs
<1>6. page.pending \in saved => ToggleCall(saved, page.pending) \in Call
  BY ToggleCallIs
<1>7. Committed \in Seq(Call)
  BY <1>5, <1>6, SentIs DEF Committed
<1>8. QED
  BY <1>1, <1>2, <1>3, <1>4, <1>7

-----------------------------------------------------------------------------
(* What is asked is asked about a place, whatever the user does.           *)
AllAsked(q) == q \in Seq(Call) /\ \A i \in 1..Len(q) : Asked(q[i])

TypeInv == Typed /\ AllAsked(calls)

LEMMA SentAsked ==
  ASSUME NEW q, AllAsked(q), NEW c, Asked(c)
  PROVE  AllAsked(Append(q, c))
<1> DEFINE r == Append(q, c)
<1>1. /\ r \in Seq(Call) /\ \A i \in 1..Len(q) : r[i] = q[i]
      /\ r[Len(r)] = c /\ \A i \in 1..Len(r) : i \in 1..Len(q) \/ i = Len(r)
  BY Sent DEF AllAsked, Asked
<1> HIDE DEF r
<1>2. QED
  BY <1>1 DEF AllAsked, r

LEMMA TakenAsked ==
  ASSUME NEW q, AllAsked(q), q # <<>>
  PROVE  AllAsked(Tail(q)) /\ Asked(Head(q)) /\ Head(q) = q[1]
<1> DEFINE r == Tail(q)
<1>1. /\ r \in Seq(Call) /\ \A i \in 1..Len(r) : i + 1 \in 1..Len(q) /\ r[i] = q[i + 1]
      /\ 1 \in 1..Len(q) /\ Head(q) = q[1]
  BY Taken DEF AllAsked
<1> HIDE DEF r
<1>2. QED
  BY <1>1 DEF AllAsked, r

LEMMA RanAsked ==
  ASSUME NEW q, AllAsked(q), NEW r, NEW i, NEW at, Ran(q, r, i, at)
  PROVE  AllAsked(r)
<1>1. \A k \in 1..Len(r) : r[k] \in Call
  BY ElementOfSeq DEF Ran
<1>2. Asked(r[i])
  BY <1>1 DEF Ran, AllAsked, Asked
<1>3. QED
  BY <1>2 DEF Ran, AllAsked

LEMMA ForsakenAsked ==
  ASSUME NEW q, AllAsked(q), NEW whose
  PROVE  AllAsked(Forsaken(q, whose))
<1> DEFINE r == Forsaken(q, whose)
<1>1. q \in Seq(Call)
  BY DEF AllAsked
<1>2. /\ r \in Seq(Call) /\ Len(r) = Len(q)
      /\ \A i \in 1..Len(q) : r[i].stmt = q[i].stmt /\ r[i].then = q[i].then /\ r[i].id = q[i].id
  BY <1>1, ForsakenIs
<1> HIDE DEF r
<1>3. \A i \in 1..Len(q) : r[i] \in Call
  BY <1>2, ElementOfSeq
<1>4. QED
  BY <1>2, <1>3 DEF AllAsked, Asked, r

LEMMA AskAsked ==
  /\ Asked(LoadHearts) /\ Asked(LoadPage) /\ Asked(Ask("select", "order", NoPlace))
  /\ \A x \in Places : /\ Asked(Ask("select", "icon", x)) /\ Asked(Ask("select", "tap", x))
                       /\ Asked(Ask("insert", "detail", x)) /\ Asked(Ask("delete", "detail", x))
                       /\ \A s : Asked(ToggleCall(s, x))
BY AskIs, ToggleCallIs DEF LoadHearts, LoadPage, Asked, KindSound

LEMMA ToldAsked ==
  ASSUME NEW q, AllAsked(q), NEW p, NEW s
  PROVE  AllAsked(Told(q, p, s))
BY AskAsked, SentAsked DEF Told

LEMMA SetSavedType ==
  ASSUME NEW q, AllAsked(q), NEW s \in SUBSET Places, page \in PageRec, SetSaved(s, page, q)
  PROVE  saved' \in SUBSET Places /\ page' \in PageRec /\ AllAsked(calls')
<1>1. q \in Seq(Call)
  BY DEF AllAsked
<1>2. QED
  BY <1>1, ToldIs, ToldAsked DEF SetSaved

LEMMA CommitAsked ==
  ASSUME TypeInv
  PROVE  AllAsked(Committed)
<1>1. page.pending \in saved => Asked(ToggleCall(saved, page.pending))
  BY AskAsked, TypeIs DEF TypeInv
<1>2. QED
  BY <1>1, ToldAsked, SentAsked DEF TypeInv, Committed

LEMMA AnswerIs ==
  ASSUME AllAsked(calls), calls # <<>>
  PROVE  /\ Asked(Answer) /\ Answer \in Call /\ Answer.rows \in SUBSET Places
         /\ AllAsked(Tail(calls)) /\ Tail(calls) \in Seq(Call) /\ Answer = calls[1]
<1>1. Asked(Answer) /\ AllAsked(Tail(calls)) /\ Answer = calls[1]
  BY TakenAsked DEF Answer
<1>2. QED
  BY <1>1 DEF Asked, Call, AllAsked

(* A tap on the heart of the restaurant's screen, once it has read.        *)
TapCall(c) == [Ask(IF c.id \in c.rows THEN "delete" ELSE "insert", "detail", c.id)
                 EXCEPT !.mounted = c.mounted]

LEMMA TapCallIs ==
  ASSUME NEW c, Asked(c), c.then = "tap"
  PROVE  LET d == TapCall(c) IN
         /\ Asked(d) /\ d.then = "detail" /\ d.at = "waiting" /\ KindSound(d) /\ d.id = c.id
<1> DEFINE stmt == IF c.id \in c.rows THEN "delete" ELSE "insert"
<1> DEFINE a == Ask(stmt, "detail", c.id)
<1>1. c.id \in Places /\ c.mounted \in BOOLEAN
  BY DEF Asked, Call
<1>2. stmt \in {"insert", "delete"}
  OBVIOUS
<1> HIDE DEF stmt
<1>3. a \in Call /\ a.stmt = stmt /\ a.then = "detail" /\ a.id = c.id /\ a.at = "waiting"
  BY <1>1, <1>2, AskIs
<1> HIDE DEF a
<1>4. LET d == [a EXCEPT !.mounted = c.mounted] IN
      /\ d \in Call /\ d.stmt = stmt /\ d.then = "detail" /\ d.id = c.id /\ d.at = "waiting"
  BY <1>1, <1>3 DEF Call
<1>5. QED
  BY <1>1, <1>2, <1>4 DEF TapCall, Asked, KindSound, a, stmt

LEMMA UserType ==
  ASSUME TypeInv, User
  PROVE  TypeInv'
<1> USE TypeIs DEF TypeInv
<1>1. CASE OpenPage
  <2>1. page' \in PageRec
    BY <1>1 DEF OpenPage, NoPage, PageRec
  <2>2. AllAsked(calls')
    BY <1>1, SentAsked, AskAsked DEF OpenPage
  <2>3. QED
    BY <1>1, <2>1, <2>2 DEF OpenPage, Typed, PageRec, AllAsked
<1>2. CASE Undo
  <2>1. page' \in PageRec
    BY <1>2 DEF Undo, PageRec
  <2>2. QED
    BY <1>2, <2>1 DEF Undo, Typed, PageRec
<1>3. CASE ClosePage
  <2>1. AllAsked(Forsaken(calls, {"page", "order"}))
    BY ForsakenAsked
  <2>2. page.pending \in saved => Asked(ToggleCall(saved, page.pending))
    BY AskAsked
  <2>3. AllAsked(calls')
    BY <1>3, <2>1, <2>2, SentAsked DEF ClosePage
  <2>4. QED
    BY <1>3, <2>3, NoPageIs DEF ClosePage, Typed, PageRec, AllAsked
<1>4. CASE TapSave
  <2>1. detail.id \in Places
    BY <1>4 DEF TapSave
  <2>2. AllAsked(calls')
    BY <1>4, <2>1, AskAsked, SentAsked DEF TapSave
  <2>3. QED
    BY <1>4, <2>2 DEF TapSave, Typed, AllAsked
<1>5. CASE CloseDetail
  <2>1. AllAsked(Forsaken(calls, {"icon", "tap", "detail"}))
    BY ForsakenAsked
  <2>2. AllAsked(Append(Forsaken(calls, {"icon", "tap", "detail"}), LoadPage))
    BY <2>1, SentAsked, AskAsked
  <2>3. [page EXCEPT !.loading = TRUE] \in PageRec
    BY DEF PageRec
  <2>4. AllAsked(calls') /\ page' \in PageRec
    BY <1>5, <2>1, <2>2, <2>3 DEF CloseDetail
  <2>5. detail' \in [id : Places \cup {NoPlace}, icon : BOOLEAN]
    BY <1>5 DEF CloseDetail, NoDetail
  <2>6. QED
    BY <1>5, <2>4, <2>5 DEF CloseDetail, Typed, PageRec, AllAsked
<1>6. ASSUME NEW x \in Places, Toggle(x)
      PROVE  TypeInv'
  <2>1. Flipped(saved, x) \in SUBSET Places
    BY DEF Flipped
  <2>2. AllAsked(Append(calls, ToggleCall(saved, x)))
    BY AskAsked, SentAsked
  <2>3. saved' \in SUBSET Places /\ page' \in PageRec /\ AllAsked(calls')
    BY <1>6, <2>1, <2>2, SetSavedType DEF Toggle
  <2>4. QED
    BY <1>6, <2>3 DEF Toggle, Typed, PageRec, AllAsked
<1>7. ASSUME NEW x \in Places, OpenDetail(x)
      PROVE  TypeInv'
  <2>1. AllAsked(calls')
    BY <1>7, AskAsked, SentAsked DEF OpenDetail
  <2>2. QED
    BY <1>7, <2>1 DEF OpenDetail, Typed, AllAsked
<1>8. ASSUME NEW x \in Places, TakeOut(x)
      PROVE  TypeInv'
  <2>1. saved' \in SUBSET Places /\ page' \in PageRec /\ AllAsked(calls')
    BY <1>8, CommitType, CommitAsked DEF TakeOut
  <2>2. QED
    BY <1>8, <2>1 DEF TakeOut, Typed, PageRec, AllAsked
<1>9. ASSUME NEW x \in Places, OpenRow(x)
      PROVE  TypeInv'
  <2>1. saved' \in SUBSET Places /\ page' \in PageRec
    BY <1>9, CommitType DEF OpenRow
  <2>2. AllAsked(calls')
    BY <1>9, CommitAsked, SentAsked, AskAsked DEF OpenRow
  <2>3. detail' \in [id : Places \cup {NoPlace}, icon : BOOLEAN]
    BY <1>9 DEF OpenRow
  <2>4. QED
    BY <1>9, <2>1, <2>2, <2>3 DEF OpenRow, Typed, PageRec, AllAsked
<1>10. ASSUME NEW force \in BOOLEAN, EnsureLoaded(force)
       PROVE  TypeInv'
  <2>1. AllAsked(calls')
    BY <1>10, SentAsked, AskAsked DEF EnsureLoaded
  <2>2. QED
    BY <1>10, <2>1 DEF EnsureLoaded, Typed, AllAsked
<1>11. ASSUME NEW quiet \in BOOLEAN, Load(quiet)
       PROVE  TypeInv'
  <2>1. AllAsked(calls')
    BY <1>11, SentAsked, AskAsked DEF Load
  <2>2. page' \in PageRec
    BY <1>11 DEF Load, PageRec
  <2>3. QED
    BY <1>11, <2>1, <2>2 DEF Load, Typed, PageRec, AllAsked
<1>12. QED
  BY <1>1, <1>2, <1>3, <1>4, <1>5, <1>6, <1>7, <1>8, <1>9, <1>10, <1>11 DEF User

LEMMA ListedType ==
  ASSUME NEW p \in PageRec, NEW found \in SUBSET Places, NEW known \in SUBSET Places
  PROVE  Listed(p, found, known) \in PageRec
BY ListedIs

LEMMA TakeType ==
  ASSUME TypeInv, Take
  PROVE  TypeInv'
<1> USE TypeIs DEF TypeInv
<1>0. /\ Asked(Answer) /\ Answer \in Call /\ Answer.rows \in SUBSET Places
      /\ AllAsked(Tail(calls)) /\ Tail(calls) \in Seq(Call)
  BY AnswerIs DEF Take, HeartsLoaded, PageHeartsLoaded, OrderRead, Toggled, IconRead,
                  TapRead, DetailWritten, Answered
<1>1. CASE HeartsLoaded
  <2>1. saved' \in SUBSET Places /\ page' \in PageRec /\ AllAsked(calls')
    BY <1>0, <1>1, SetSavedType DEF HeartsLoaded
  <2>2. QED
    BY <1>1, <2>1 DEF HeartsLoaded, Typed, PageRec, AllAsked
<1>2. CASE PageHeartsLoaded
  <2>1. AllAsked(calls')
    <3>1. AllAsked(Append(Tail(calls), Ask("select", "order", NoPlace)))
      BY <1>0, SentAsked, AskAsked
    <3>2. AllAsked(Told(Tail(calls), page, saved'))
      BY <1>0, ToldAsked
    <3>3. QED
      BY <1>0, <1>2, <3>1, <3>2 DEF PageHeartsLoaded
  <2>2. saved' \in SUBSET Places /\ page' \in PageRec
    BY <1>0, <1>2, ToldIs DEF PageHeartsLoaded
  <2>3. QED
    BY <1>2, <2>1, <2>2 DEF PageHeartsLoaded, Typed, PageRec, AllAsked
<1>3. CASE OrderRead
  <2>1. Listed(page, Answer.rows, page.byId) \in PageRec
    <3>1. page.byId \in SUBSET Places
      BY DEF PageRec
    <3>2. QED
      BY <1>0, <3>1, ListedType
  <2>2. /\ [page EXCEPT !.status = "error", !.loading = FALSE] \in PageRec
        /\ [page EXCEPT !.fetching = TRUE, !.found = Answer.rows] \in PageRec
    BY <1>0 DEF PageRec
  <2>3. page' \in PageRec /\ AllAsked(calls')
    BY <1>0, <1>3, <2>1, <2>2 DEF OrderRead
  <2>4. QED
    BY <1>3, <2>3 DEF OrderRead, Typed, PageRec, AllAsked
<1>4. CASE Toggled
  <2>1. Answer.id \in Places
    BY <1>0, <1>4 DEF Toggled, Answered, Asked, Answer
  <2>2. saved \cup {Answer.id} \in SUBSET Places /\ saved \ {Answer.id} \in SUBSET Places
    BY <2>1
  <2>3. saved' \in SUBSET Places /\ page' \in PageRec /\ AllAsked(calls')
    BY <1>0, <1>4, <2>2, SetSavedType DEF Toggled
  <2>4. QED
    BY <1>4, <2>3 DEF Toggled, Typed, PageRec, AllAsked
<1>5. ASSUME NEW isFav \in BOOLEAN, SetFav(isFav), UNCHANGED <<fav, saved, page>>
      PROVE  TypeInv'
  <2>1. AllAsked(calls')
    BY <1>0, <1>5, SentAsked, AskAsked DEF SetFav
  <2>2. detail' \in [id : Places \cup {NoPlace}, icon : BOOLEAN]
    BY <1>5 DEF SetFav
  <2>3. QED
    BY <1>5, <2>1, <2>2 DEF SetFav, Typed, AllAsked
<1>6. CASE IconRead
  <2>1. CASE Answer.at = "ok"
    <3>1. (Answer.id \in Answer.rows) \in BOOLEAN
      OBVIOUS
    <3>2. SetFav(Answer.id \in Answer.rows) /\ UNCHANGED <<fav, saved, page>>
      BY <1>6, <2>1 DEF IconRead
    <3>3. QED
      BY <1>5, <3>1, <3>2
  <2>2. CASE Answer.at # "ok"
    BY <1>0, <1>6, <2>2 DEF IconRead, Typed
  <2>3. QED
    BY <2>1, <2>2
<1>7. CASE TapRead
  <2>1. Asked(TapCall(Answer))
    BY <1>0, <1>7, TapCallIs DEF TapRead, Answered, Answer
  <2>2. AllAsked(calls')
    BY <1>0, <1>7, <2>1, SentAsked DEF TapRead, TapCall
  <2>3. QED
    BY <1>7, <2>2 DEF TapRead, Typed, AllAsked
<1>8. CASE DetailWritten
  BY <1>5, <1>8 DEF DetailWritten
<1>9. QED
  BY <1>1, <1>2, <1>3, <1>4, <1>6, <1>7, <1>8 DEF Take

LEMMA TypeStep ==
  ASSUME TypeInv, [Next]_vars
  PROVE  TypeInv'
<1> USE TypeIs DEF TypeInv
<1>1. CASE RunStatement
  <2>1. PICK i \in DOMAIN calls :
          /\ Waiting(i)
          /\ calls' = [calls EXCEPT ![i].at = "ok",
                         ![i].rows = IF calls[i].stmt = "select" THEN Ids(fav) ELSE {}]
          /\ fav' = CASE calls[i].stmt = "insert" -> [fav EXCEPT ![calls[i].id] = @ + 1]
                      [] calls[i].stmt = "delete" -> [fav EXCEPT ![calls[i].id] = 0]
                      [] OTHER -> fav
          /\ page' = [page EXCEPT !.late = LateAfter(calls[i])]
    BY <1>1 DEF RunStatement
  <2>2. Ran(calls, calls', i, "ok")
    <3>1. (IF calls[i].stmt = "select" THEN Ids(fav) ELSE {}) \in SUBSET Places
      BY DEF Ids
    <3>2. QED
      BY <2>1, <3>1, RunIs DEF Waiting
  <2>3. AllAsked(calls')
    BY <2>2, RanAsked
  <2>4. Asked(calls[i])
    BY <2>2 DEF AllAsked, Ran
  <2>5. fav' \in [Places -> Nat]
    BY <2>1, <2>4, IdsAfter DEF Asked
  <2>6. LateAfter(calls[i]) \in SUBSET Places
    BY <2>4 DEF LateAfter, Asked, PageRec
  <2>7. page' \in PageRec
    BY <2>1, <2>6 DEF PageRec
  <2>8. QED
    BY <1>1, <2>3, <2>5, <2>7 DEF RunStatement, Typed, PageRec, AllAsked
<1>2. CASE RefuseStatement
  <2>1. PICK i \in DOMAIN calls : Waiting(i) /\ calls' = [calls EXCEPT ![i].at = "failed"]
    BY <1>2 DEF RefuseStatement
  <2>2. AllAsked(calls')
    BY <2>1, RefusalIs, RanAsked DEF Waiting
  <2>3. QED
    BY <1>2, <2>2 DEF RefuseStatement, Typed, AllAsked
<1>3. CASE PageFetched
  <2>1. PICK got \in SUBSET (page.found \ page.byId) :
          page' = Listed(page, page.found, page.byId \cup got)
    BY <1>3 DEF PageFetched
  <2>2. page.found \in SUBSET Places /\ page.byId \cup got \in SUBSET Places
    BY DEF PageRec
  <2>3. page' \in PageRec
    BY <2>1, <2>2, ListedType
  <2>4. QED
    BY <1>3, <2>3 DEF PageFetched, Typed, PageRec
<1>4. CASE PendingExpires
  <2>1. saved' \in SUBSET Places /\ page' \in PageRec /\ AllAsked(calls')
    BY <1>4, CommitType, CommitAsked DEF PendingExpires
  <2>2. QED
    BY <1>4, <2>1 DEF PendingExpires, Typed, PageRec, AllAsked
<1>5. CASE Killed
  <2>1. AllAsked(<<>>)
    BY EmptySeq DEF AllAsked
  <2>2. NoDetail \in [id : Places \cup {NoPlace}, icon : BOOLEAN]
    BY DEF NoDetail
  <2>3. QED
    BY <1>5, <2>1, <2>2, NoPageIs DEF Killed, Typed, PageRec, AllAsked
<1>6. CASE UNCHANGED vars
  BY <1>6 DEF vars, Typed, AllAsked
<1>7. QED
  BY <1>1, <1>2, <1>3, <1>4, <1>5, <1>6, UserType, TakeType DEF Next

LEMMA TypeInit ==
  ASSUME Init
  PROVE  TypeInv
<1>1. AllAsked(<<>>)
  BY EmptySeq DEF AllAsked
<1>2. NoDetail \in [id : Places \cup {NoPlace}, icon : BOOLEAN]
  BY DEF NoDetail
<1>3. QED
  BY <1>1, <1>2, NoPageIs, TypeIs DEF Init, TypeInv, AllAsked

(* Type correctness: every statement on its way, whatever it is asked for, *)
(* and every part of the page is of its type; a write is about a place.    *)
THEOREM TypesHold == Spec => []TypeOK
<1>1. Init => TypeInv
  BY TypeInit
<1>2. TypeInv /\ [Next]_vars => TypeInv'
  BY TypeStep
<1>3. TypeInv => TypeOK
  <2> SUFFICES ASSUME TypeInv
               PROVE  TypeOK
    OBVIOUS
  <2>1. DOMAIN calls = 1..Len(calls)
    BY TypeIs, LenProperties DEF TypeInv
  <2>2. \A i \in 1..Len(calls) : calls[i].stmt # "select" => calls[i].id \in Places
    BY DEF TypeInv, AllAsked, Asked
  <2>3. QED
    BY <2>1, <2>2 DEF TypeInv, TypeOK
<1>4. QED
  BY <1>1, <1>2, <1>3, PTL DEF Spec

-----------------------------------------------------------------------------
(* The actions of the user keep both invariants.                           *)
LEMMA CalmIsStill ==
  ASSUME Typed, Calm
  PROVE  Still(calls)
<1>1. DOMAIN calls = 1..Len(calls)
  BY TypeIs, LenProperties
<1>2. QED
  BY <1>1 DEF Calm, Still, Reads

LEMMA LoadingIs ==
  ASSUME NEW p \in PageRec
  PROVE  [p EXCEPT !.loading = TRUE] = [p EXCEPT !.loading = TRUE, !.status = p.status]
BY DEF PageRec

LEMMA ClosedStep ==
  ASSUME QueueOK, ~page.open, NEW c, KindSound(c), c.at = "waiting",
         c.then \notin {"page", "order"}, calls' = Append(calls, c),
         saved' \in SUBSET Places, UNCHANGED <<fav, page>>
  PROVE  QueueOK' /\ (Caught => Caught')
<1>1. /\ QueueSound(Append(calls, c), saved', page)
      /\ NothingRefused(calls) => NothingRefused(Append(calls, c))
  BY ClosedSend DEF QueueOK
<1>2. Ids(fav) \subseteq Places
  BY DEF Ids
<1>3. NothingRefused(calls) =>
        /\ TableSound(Append(calls, c), saved', page, Ids(fav))
        /\ ListCatchesUp(Append(calls, c), page, Ids(fav))
  BY <1>1, <1>2, ClosedIsSound
<1>4. Caught => NothingRefused(calls)
  BY DEF Caught, TableSound
<1>5. Ids(fav)' = Ids(fav)
  BY DEF Ids
<1>6. QED
  BY <1>1, <1>3, <1>4, <1>5 DEF QueueOK, Caught

LEMMA SendStep ==
  ASSUME QueueOK, NEW c, Neutral(c), calls' = Append(calls, c),
         UNCHANGED <<fav, saved, page>>
  PROVE  QueueOK' /\ (Caught => Caught')
<1>1. Ids(fav)' = Ids(fav)
  BY DEF Ids
<1>2. QueueSound(Append(calls, c), saved, page)
  BY SendKeepsQueue DEF QueueOK
<1>3. Caught => /\ TableSound(Append(calls, c), saved, page, Ids(fav))
                /\ ListCatchesUp(Append(calls, c), page, Ids(fav))
  BY SendKeepsTable DEF Caught
<1>4. QED
  BY <1>1, <1>2, <1>3 DEF QueueOK, Caught

(* A removal is committed, and `next` may wait: the statements it leaves.  *)
LEMMA CommitStep ==
  ASSUME Typed, QueueOK, page.open, Still(calls),
         NEW next \in Places \cup {NoPlace}, page.pending \in saved => next # page.pending,
         \A i \in 1..Len(calls) : At(calls, "toggle", i) => calls[i].id # next,
         Commit(next)
  PROVE  /\ QueueSound(Committed, saved', page')
         /\ Caught => /\ TableSound(Committed, saved', page', Ids(fav))
                      /\ ListCatchesUp(Committed, page', Ids(fav))
<1> DEFINE y == page.pending
<1> DEFINE d == [Dropped(page) EXCEPT !.pending = next]
<1> DEFINE v == [page EXCEPT !.loading = TRUE, !.status = page.status]
<1>1. page \in PageRec /\ calls \in Seq(Call)
  BY TypeIs
<1>2. d = Left(page, next)
  BY <1>1 DEF Dropped, Left, PageRec
<1>3. CASE y \notin saved
  <2>1. Committed = calls /\ saved' = saved /\ page' = Left(page, next)
    BY <1>2, <1>3 DEF Committed, Commit, Kept
  <2>2. QueueSound(calls, saved, Left(page, next))
    BY <1>3, SkipKeepsQueue DEF QueueOK
  <2>3. Caught => /\ TableSound(calls, saved, Left(page, next), Ids(fav))
                  /\ ListCatchesUp(calls, Left(page, next), Ids(fav))
    BY <1>3, SkipKeepsTable DEF Caught
  <2>4. QED
    BY <2>1, <2>2, <2>3
<1>4. CASE y \in saved /\ ~Reloads(d, Kept)
  <2>1. ~Reloads(Dropped(page), Kept)
    BY <1>1, <1>4 DEF Reloads, Dropped, PageRec
  <2>2. /\ Committed = Append(calls, ToggleCall(saved, y)) /\ saved' = saved \ {y}
        /\ page' = Left(page, next)
    BY <1>2, <1>4, <2>1 DEF Committed, Commit, Kept, Told, Notified
  <2>3. \A k \in 1..Len(calls) : Reads(calls, k) => calls[k].then = "page"
    BY DEF Still
  <2>4. QueueSound(Append(calls, ToggleCall(saved, y)), saved \ {y}, Left(page, next))
    BY <1>4, <2>3, CommitKeepsQueue DEF QueueOK
  <2>5. Caught => LET r == Append(calls, ToggleCall(saved, y)) IN
                  /\ TableSound(r, saved \ {y}, Left(page, next), Ids(fav))
                  /\ ListCatchesUp(r, Left(page, next), Ids(fav))
    BY <1>4, <2>3, CommitKeepsTable DEF Caught
  <2>6. QED
    BY <2>2, <2>4, <2>5
<1>5. CASE y \in saved /\ Reloads(d, Kept)
  <2>1. Reloads(Dropped(page), Kept) /\ ~page.loading
    BY <1>1, <1>5 DEF Reloads, Dropped, PageRec
  <2> DEFINE q == Append(calls, LoadPage)
  <2>2. /\ v \in PageRec /\ v.open /\ v.pending = y
    BY <1>1, PageIs DEF PageRec
  <2>3. [d EXCEPT !.loading = TRUE] = Left(v, next)
    BY <1>1, <1>2 DEF Left, PageRec
  <2>4. /\ Committed = Append(q, ToggleCall(saved, v.pending))
        /\ saved' = saved \ {v.pending} /\ page' = Left(v, next)
    BY <1>5, <2>1, <2>2, <2>3 DEF Committed, Commit, Kept, Told, Notified
  <2>5. page.status \in {"loading", "ready", "error"}
    BY <1>1 DEF PageRec
  <2>6. QueueSound(q, saved, v)
    BY <2>1, <2>5, LoadKeepsQueue DEF QueueOK
  <2>7. Caught => TableSound(q, saved, v, Ids(fav)) /\ ListCatchesUp(q, v, Ids(fav))
    BY <2>1, <2>5, LoadKeepsTable DEF Caught
  <2>8. /\ Len(q) \in Nat /\ \A i \in 1..Len(calls) : q[i] = calls[i]
        /\ \A i \in 1..Len(q) : i \in 1..Len(calls) \/ q[i] = LoadPage
    BY <1>1, LoadPageIs, Sent
  <2> HIDE DEF q, v
  <2>9. \A k \in 1..Len(q) : Reads(q, k) => q[k].then = "page"
    BY <2>8, LoadPageIs DEF Still, Reads
  <2>10. \A i \in 1..Len(q) : At(q, "toggle", i) => q[i].id # next
    BY <2>8, LoadPageIs DEF At
  <2>11. v.pending \in saved /\ next # v.pending
    BY <1>5, <2>2
  <2>12. QueueSound(Append(q, ToggleCall(saved, v.pending)), saved \ {v.pending}, Left(v, next))
    BY <2>2, <2>6, <2>9, <2>10, <2>11, CommitKeepsQueue
  <2>13. Caught => LET r == Append(q, ToggleCall(saved, v.pending)) IN
                   /\ TableSound(r, saved \ {v.pending}, Left(v, next), Ids(fav))
                   /\ ListCatchesUp(r, Left(v, next), Ids(fav))
    BY <2>2, <2>7, <2>9, <2>10, <2>11, CommitKeepsTable
  <2>14. QED
    BY <2>4, <2>12, <2>13
<1>6. QED
  BY <1>3, <1>4, <1>5

LEMMA IsFree ==
  ASSUME Typed, QueueOK
  PROVE  \A i \in 1..Len(calls) : At(calls, "toggle", i) => calls[i].id # NoPlace
BY DEF QueueOK, QueueSound, KindsSound, KindSound, Asked, At

LEMMA UserStep ==
  ASSUME ~Overlap, Typed, QueueOK, User
  PROVE  QueueOK' /\ (Caught => Caught')
<1> USE TypeIs
<1>0. /\ Ids(fav) \subseteq Places /\ (UNCHANGED fav => Ids(fav)' = Ids(fav))
      /\ page \in PageRec /\ calls \in Seq(Call)
      /\ page.status \in {"loading", "ready", "error"}
  BY DEF Ids, PageRec
<1>1. CASE OpenPage
  <2>1. ~page.open
    BY <1>1 DEF OpenPage, OnHome
  <2>2. Caught => NothingRefused(calls)
    BY DEF Caught, TableSound
  <2>3. QED
    BY <1>0, <1>1, <2>1, <2>2, OpenKeepsQueue DEF OpenPage, QueueOK, Caught
<1>2. CASE Undo
  <2>1. page.open
    BY <1>2 DEF Undo, OnPage
  <2>2. QueueOK'
    BY <1>2, <2>1, UndoKeepsQueue DEF Undo, QueueOK
  <2>3. Caught => Caught'
    BY <1>0, <1>2, <2>1, UndoKeepsTable DEF Undo, Caught
  <2>4. QED
    BY <2>2, <2>3
<1>3. CASE ClosePage
  <2> DEFINE q == Forsaken(calls, {"page", "order"})
  <2> DEFINE u == saved \ {page.pending}
  <2> DEFINE c == ToggleCall(saved, page.pending)
  <2>1. Still(calls)
    BY <1>3, CalmIsStill DEF ClosePage, Room
  <2>2. u \in SUBSET Places /\ page' = NoPage /\ saved' = u /\ Ids(fav)' = Ids(fav)
    BY <1>0, <1>3 DEF ClosePage
  <2>3. QueueSound(q, u, NoPage) /\ (NothingRefused(calls) => NothingRefused(q))
    BY <2>1, <2>2, CloseKeepsQueue DEF QueueOK
  <2>4. page.pending \in saved => /\ KindSound(c) /\ c.at = "waiting" /\ c.then = "toggle"
    BY ToggleCallIs
  <2> HIDE DEF u, c, q
  <2>5. page.pending \in saved => /\ QueueSound(Append(q, c), u, NoPage)
                                  /\ NothingRefused(q) => NothingRefused(Append(q, c))
    BY <2>2, <2>3, <2>4, NoPageIs, ClosedSend
  <2>6. calls' = IF page.pending \in saved THEN Append(q, c) ELSE q
    BY <1>3 DEF ClosePage, q, c
  <2>7. QueueSound(calls', u, NoPage) /\ (NothingRefused(calls) => NothingRefused(calls'))
    BY <2>3, <2>5, <2>6
  <2>8. Caught => /\ TableSound(calls', u, NoPage, Ids(fav))
                  /\ ListCatchesUp(calls', NoPage, Ids(fav))
    BY <1>0, <2>7, NoPageIs, ClosedIsSound DEF Caught, TableSound
  <2>9. QED
    BY <2>2, <2>7, <2>8 DEF QueueOK, Caught
<1>4. CASE TapSave
  <2>1. detail.id \in Places
    BY <1>4 DEF TapSave
  <2> DEFINE c == Ask("select", "tap", detail.id)
  <2>2. Neutral(c)
    BY <2>1, AskIs, AskAsked DEF Neutral, KindSound
  <2> HIDE DEF c
  <2>3. calls' = Append(calls, c) /\ UNCHANGED <<fav, saved, page>>
    BY <1>4 DEF TapSave, c
  <2>4. QED
    BY <2>2, <2>3, SendStep
<1>5. CASE CloseDetail
  <2> DEFINE q == Forsaken(calls, {"icon", "tap", "detail"})
  <2> DEFINE v == [page EXCEPT !.loading = TRUE, !.status = page.status]
  <2>1. QueueSound(q, saved, page)
    BY LeaveKeepsQueue DEF QueueOK
  <2>2. Caught => TableSound(q, saved, page, Ids(fav)) /\ ListCatchesUp(q, page, Ids(fav))
    BY LeaveKeepsTable DEF Caught
  <2>3. [page EXCEPT !.loading = TRUE] = v
    BY <1>0, LoadingIs
  <2> HIDE DEF q, v
  <2>4. CASE page.open /\ ~page.loading
    <3>1. page' = v /\ calls' = Append(q, LoadPage) /\ saved' = saved /\ Ids(fav)' = Ids(fav)
      BY <1>0, <1>5, <2>3, <2>4 DEF CloseDetail, q
    <3>2. QueueSound(Append(q, LoadPage), saved, v)
      BY <1>0, <2>1, <2>4, LoadKeepsQueue DEF v
    <3>3. Caught => /\ TableSound(Append(q, LoadPage), saved, v, Ids(fav))
                    /\ ListCatchesUp(Append(q, LoadPage), v, Ids(fav))
      BY <1>0, <2>2, <2>4, LoadKeepsTable DEF v
    <3>4. QED
      BY <3>1, <3>2, <3>3 DEF QueueOK, Caught
  <2>5. CASE ~(page.open /\ ~page.loading)
    <3>1. page' = page /\ calls' = q /\ saved' = saved /\ Ids(fav)' = Ids(fav)
      BY <1>0, <1>5, <2>5 DEF CloseDetail, q
    <3>2. QED
      BY <2>1, <2>2, <3>1 DEF QueueOK, Caught
  <2>6. QED
    BY <2>4, <2>5
<1>6. ASSUME NEW x \in Places, Toggle(x)
      PROVE  QueueOK' /\ (Caught => Caught')
  <2> DEFINE c == ToggleCall(saved, x)
  <2>1. ~page.open
    BY <1>6 DEF Toggle, OnHome
  <2>2. KindSound(c) /\ c.at = "waiting" /\ c.then \notin {"page", "order"}
    BY ToggleCallIs
  <2>3. saved' \in SUBSET Places /\ UNCHANGED <<fav, page>> /\ calls' = Append(calls, c)
    BY <1>6, <2>1 DEF Toggle, SetSaved, Told, Notified, Reloads, Flipped
  <2> HIDE DEF c
  <2>4. QED
    BY <2>1, <2>2, <2>3, ClosedStep
<1>7. ASSUME NEW x \in Places, OpenDetail(x)
      PROVE  QueueOK' /\ (Caught => Caught')
  <2> DEFINE c == Ask("select", "icon", x)
  <2>1. Neutral(c)
    BY AskIs, AskAsked DEF Neutral, KindSound
  <2> HIDE DEF c
  <2>2. calls' = Append(calls, c) /\ UNCHANGED <<fav, saved, page>>
    BY <1>7 DEF OpenDetail, c
  <2>3. QED
    BY <2>1, <2>2, SendStep
<1>8. ASSUME NEW x \in Places, TakeOut(x)
      PROVE  QueueOK' /\ (Caught => Caught')
  <2>1. page.open /\ x \in Visible(page, saved) /\ Still(calls)
    BY <1>8, CalmIsStill DEF TakeOut, OnPage, Room
  <2>2. \A i \in 1..Len(calls) : At(calls, "toggle", i) => calls[i].id # x
    BY <2>1, VisibleIsFree DEF QueueOK
  <2>3. x # page.pending
    BY <2>1 DEF Visible
  <2>4. Commit(x) /\ calls' = Committed /\ Ids(fav)' = Ids(fav)
    BY <1>0, <1>8 DEF TakeOut
  <2>5. QED
    BY <2>1, <2>2, <2>3, <2>4, CommitStep DEF QueueOK, Caught
<1>9. ASSUME NEW x \in Places, OpenRow(x)
      PROVE  QueueOK' /\ (Caught => Caught')
  <2> DEFINE c == Ask("select", "icon", x)
  <2>1. page.open /\ Still(calls)
    BY <1>9, CalmIsStill DEF OpenRow, OnPage, Room
  <2>2. Commit(NoPlace) /\ calls' = Append(Committed, c) /\ Ids(fav)' = Ids(fav)
    BY <1>0, <1>9 DEF OpenRow
  <2>3. Neutral(c)
    BY AskIs, AskAsked DEF Neutral, KindSound
  <2> HIDE DEF c
  <2>4. page.pending \in saved => NoPlace # page.pending
    OBVIOUS
  <2>5. /\ QueueSound(Committed, saved', page')
        /\ Caught => /\ TableSound(Committed, saved', page', Ids(fav))
                     /\ ListCatchesUp(Committed, page', Ids(fav))
    BY <2>1, <2>2, <2>4, IsFree, CommitStep
  <2>6. QueueSound(calls', saved', page')
    BY <2>2, <2>3, <2>5, SendKeepsQueue
  <2>7. Caught => /\ TableSound(calls', saved', page', Ids(fav))
                  /\ ListCatchesUp(calls', page', Ids(fav))
    BY <2>2, <2>3, <2>5, SendKeepsTable
  <2>8. QED
    BY <2>2, <2>6, <2>7 DEF QueueOK, Caught
<1>10. ASSUME NEW force \in BOOLEAN, EnsureLoaded(force)
       PROVE  QueueOK' /\ (Caught => Caught')
  <2>1. ~page.open /\ calls' = Append(calls, LoadHearts) /\ UNCHANGED <<fav, saved, page>>
    BY <1>10 DEF EnsureLoaded, OnHome
  <2>2. Neutral(LoadHearts)
    BY AskIs, AskAsked DEF Neutral, KindSound, LoadHearts
  <2>3. QED
    BY <2>1, <2>2, SendStep
<1>11. ASSUME NEW quiet \in BOOLEAN, Load(quiet)
       PROVE  QueueOK' /\ (Caught => Caught')
  <2> DEFINE st == IF quiet THEN page.status ELSE "loading"
  <2> DEFINE v == [page EXCEPT !.loading = TRUE, !.status = st]
  <2>1. page.open /\ ~page.loading /\ st \in {"loading", "ready", "error"}
    BY <1>0, <1>11 DEF Load, OnPage
  <2>2. /\ calls' = Append(calls, LoadPage) /\ page' = v /\ saved' = saved
        /\ Ids(fav)' = Ids(fav)
    BY <1>0, <1>11 DEF Load, PageRec
  <2> HIDE DEF st
  <2>3. QueueSound(Append(calls, LoadPage), saved, v)
    BY <2>1, LoadKeepsQueue DEF QueueOK
  <2>4. Caught => /\ TableSound(Append(calls, LoadPage), saved, v, Ids(fav))
                  /\ ListCatchesUp(Append(calls, LoadPage), v, Ids(fav))
    BY <2>1, LoadKeepsTable DEF Caught
  <2>5. QED
    BY <2>2, <2>3, <2>4 DEF QueueOK, Caught
<1>12. QED
  BY <1>1, <1>2, <1>3, <1>4, <1>5, <1>6, <1>7, <1>8, <1>9, <1>10, <1>11 DEF User

(* An answer is taken: what is assigned is told to the page.               *)
LEMMA AssignStep ==
  ASSUME QueueOK, calls # <<>>, ~LoadStep(calls, 1), calls[1].at # "waiting",
         NEW u, Gained(calls, saved, u), SetSaved(u, page, Tail(calls)), UNCHANGED fav,
         calls[1].then # "detail", Caught => u = AfterAnswer(calls, saved)
  PROVE  QueueOK' /\ (Caught => Caught')
<1> DEFINE q == Tail(calls)
<1>1. /\ saved' = u /\ page' = Notified(page, u) /\ calls' = Told(q, page, u)
      /\ Ids(fav)' = Ids(fav)
  BY DEF SetSaved, Ids
<1>2. QueueSound(q, u, page)
  BY TakeKeepsQueue DEF QueueOK
<1>3. Caught => /\ TableSound(q, u, page, Ids(fav))
                /\ ~Reloads(page, u) => ListCatchesUp(q, page, Ids(fav))
  BY TakeKeepsTable DEF Caught
<1> HIDE DEF q
<1>4. QueueSound(Told(q, page, u), u, Notified(page, u))
  BY <1>2, TellKeepsQueue
<1>5. Caught => /\ TableSound(Told(q, page, u), u, Notified(page, u), Ids(fav))
                /\ ListCatchesUp(Told(q, page, u), Notified(page, u), Ids(fav))
  BY <1>3, TellKeepsTable
<1>6. QED
  BY <1>1, <1>4, <1>5 DEF QueueOK, Caught

(* Nothing is assigned.                                                    *)
LEMMA DropStep ==
  ASSUME QueueOK, calls # <<>>, ~LoadStep(calls, 1), calls[1].at # "waiting",
         calls' = Tail(calls), UNCHANGED <<fav, saved, page>>,
         calls[1].then # "detail", Caught => ~Assigns(calls)
  PROVE  QueueOK' /\ (Caught => Caught')
<1> DEFINE q == Tail(calls)
<1>1. Ids(fav)' = Ids(fav)
  BY DEF Ids
<1>2. Gained(calls, saved, saved)
  BY DEF Gained, QueueOK, QueueSound
<1>3. QueueSound(q, saved, page)
  BY <1>2, TakeKeepsQueue DEF QueueOK
<1>4. Caught => AfterAnswer(calls, saved) = saved
  BY DEF AfterAnswer, Assigns
<1>5. Caught => TableSound(q, saved, page, Ids(fav)) /\ ListCatchesUp(q, page, Ids(fav))
  BY <1>4, TakeKeepsTable DEF Caught
<1>6. QED
  BY <1>1, <1>3, <1>5 DEF QueueOK, Caught

(* The answer asks for one thing more.                                     *)
LEMMA AskStep ==
  ASSUME QueueOK, calls # <<>>, calls[1].at # "waiting",
         calls[1].then \in {"icon", "tap", "detail"},
         NEW c, Neutral(c), calls[1].then = "detail" => c = LoadHearts,
         calls' = Append(Tail(calls), c), UNCHANGED <<fav, saved, page>>
  PROVE  QueueOK' /\ (Caught => Caught')
<1> DEFINE q == Append(calls, c)
<1>1. calls \in Seq(Call) /\ c \in Call
  BY DEF QueueOK, QueueSound, Neutral, KindSound, Asked
<1>2. /\ q \in Seq(Call) /\ Len(q) \in Nat /\ Len(q) = Len(calls) + 1
      /\ q[Len(q)] = c /\ Len(q) \in 1..Len(q) /\ \A i \in 1..Len(calls) : q[i] = calls[i]
  BY <1>1, Sent
<1>3. 1 \in 1..Len(calls)
  BY <1>1, Taken
<1>4. q # <<>> /\ Tail(q) = Append(Tail(calls), c)
  BY <1>1, HeadTailAppend, AppendProperties
<1>5. QueueSound(q, saved, page)
  BY SendKeepsQueue DEF QueueOK
<1>6. Caught => TableSound(q, saved, page, Ids(fav)) /\ ListCatchesUp(q, page, Ids(fav))
  BY SendKeepsTable DEF Caught
<1> HIDE DEF q
<1>7. q[1] = calls[1]
  BY <1>2, <1>3
<1>8. ~LoadStep(q, 1) /\ ~Assigns(q)
  BY <1>7 DEF LoadStep, Orders, At, Assigns
<1>9. q[1].then = "detail" => EndsInRead(q)
  BY <1>2, <1>7, AskIs DEF EndsInRead, Reads, LoadHearts
<1>10. Gained(q, saved, saved) /\ AfterAnswer(q, saved) = saved
  BY <1>8 DEF Gained, QueueOK, QueueSound, AfterAnswer, Assigns
<1>11. QueueSound(Tail(q), saved, page)
  BY <1>4, <1>5, <1>8, <1>10, TakeKeepsQueue
<1>12. Caught => /\ TableSound(Tail(q), saved, page, Ids(fav))
                 /\ ListCatchesUp(Tail(q), page, Ids(fav))
  <2>1. q[1].at # "waiting"
    BY <1>7
  <2>2. Caught => TableSound(Tail(q), AfterAnswer(q, saved), page, Ids(fav))
    BY <1>4, <1>6, <1>8, <1>9, <2>1, TakeKeepsTable
  <2>3. Caught => ListCatchesUp(Tail(q), page, Ids(fav))
    BY <1>4, <1>6, <1>8, <1>9, <2>1, TakeKeepsTable
  <2>4. QED
    BY <1>10, <2>2, <2>3
<1>13. Ids(fav)' = Ids(fav)
  BY DEF Ids
<1>14. QED
  BY <1>4, <1>11, <1>12, <1>13 DEF QueueOK, Caught

LEMMA OrderStep ==
  ASSUME Typed, QueueOK, OrderRead
  PROVE  QueueOK' /\ (Caught => Caught')
<1> USE TypeIs
<1>1. /\ calls # <<>> /\ calls[1].then = "order" /\ calls[1].at # "waiting"
      /\ calls' = Tail(calls) /\ saved' = saved /\ fav' = fav /\ Ids(fav)' = Ids(fav)
      /\ 1 \in 1..Len(calls) /\ Answer = calls[1]
  BY Taken DEF OrderRead, Answered, Answer, Ids
<1>2. CASE ~calls[1].mounted
  <2>1. ~LoadStep(calls, 1) /\ ~Assigns(calls)
    BY <1>1, <1>2 DEF LoadStep, Orders, At, Assigns
  <2>2. page' = page
    BY <1>1, <1>2 DEF OrderRead
  <2>3. QED
    BY <1>1, <2>1, <2>2, DropStep
<1>3. CASE calls[1].mounted
  <2> DEFINE rows == calls[1].rows
  <2> DEFINE q == Tail(calls)
  <2> DEFINE f == Fetching(page, rows)
  <2>1. Orders(calls, 1) /\ LoadStep(calls, 1)
    BY <1>1, <1>3 DEF Orders, At, LoadStep
  <2>2. /\ rows \in SUBSET Places /\ page \in PageRec /\ page.byId \in SUBSET Places
        /\ page.open
    BY <1>1, <2>1 DEF QueueOK, QueueSound, KindsSound, KindSound, Asked, Call, PhaseSound, PageRec
  <2>3. QueueSound(q, saved, f)
    BY <1>1, <2>1, OrderKeepsQueue DEF QueueOK
  <2>4. Caught => calls[1].at = "ok"
    <3>1. calls[1].stmt = "select" /\ calls[1].at \in {"waiting", "ok", "failed"}
      BY <1>1 DEF QueueOK, QueueSound, KindsSound, KindSound, Asked, Call
    <3>2. QED
      BY <1>1, <3>1 DEF Caught, TableSound, NothingRefused
  <2>5. Caught => TableSound(q, saved, f, Ids(fav))
    BY <1>1, <2>1, <2>4, OrderKeepsTable DEF Caught
  <2>6. f.fetching /\ f.found = rows /\ f.open /\ f.pending = page.pending /\ f \in PageRec
    BY <2>2, FetchingIs
  <2>7. CASE calls[1].at = "failed"
    <3> DEFINE v == [page EXCEPT !.status = "error", !.loading = FALSE]
    <3>1. page' = v
      BY <1>1, <1>3, <2>7 DEF OrderRead
    <3>2. ~page.fetching
      BY <1>1, <2>1 DEF QueueOK, QueueSound, PhaseSound
    <3>3. v \in PageRec /\ v.open /\ ~v.fetching /\ v.pending = page.pending
      BY <2>2, <3>2 DEF PageRec
    <3> HIDE DEF v, f, q
    <3>4. QueueSound(q, saved, v)
      BY <2>3, <2>6, <3>3, EndKeepsQueue
    <3>5. QED
      BY <1>1, <2>4, <2>7, <3>1, <3>4 DEF QueueOK, q
  <2>8. CASE calls[1].at # "failed" /\ rows \subseteq page.byId
    <3> DEFINE v == Listed(f, f.found, page.byId)
    <3>1. page' = v
      <4>1. page' = Listed(page, rows, page.byId)
        BY <1>1, <1>3, <2>8 DEF OrderRead
      <4>2. Listed(page, rows, page.byId) = Listed(f, rows, page.byId)
        BY <2>2 DEF Listed, Fetching, PageRec
      <4>3. QED
        BY <2>6, <4>1, <4>2
    <3> HIDE DEF f, q
    <3>2. v \in PageRec /\ v.open /\ ~v.fetching /\ v.pending = f.pending
      BY <2>2, <2>6, ListedIs
    <3>3. QueueSound(q, saved, v)
      BY <2>3, <2>6, <3>2, EndKeepsQueue
    <3>4. Caught => TableSound(q, saved, v, Ids(fav)) /\ ListCatchesUp(q, v, Ids(fav))
      BY <2>2, <2>5, <2>6, ListedKeepsTable
    <3>5. QED
      BY <1>1, <3>1, <3>3, <3>4 DEF QueueOK, Caught, q
  <2>9. CASE calls[1].at # "failed" /\ ~(rows \subseteq page.byId)
    <3>1. page' = f
      BY <1>1, <1>3, <2>9 DEF OrderRead, Fetching
    <3>2. f.loading
      BY <1>1, <2>1, <2>2, FetchingIs DEF QueueOK, QueueSound, PhaseSound
    <3> HIDE DEF f, q
    <3>3. ListCatchesUp(q, f, Ids(fav))
      BY <3>2 DEF ListCatchesUp
    <3>4. QED
      BY <1>1, <2>3, <2>5, <3>1, <3>3 DEF QueueOK, Caught, q
  <2>10. QED
    BY <2>7, <2>8, <2>9
<1>4. QED
  BY <1>2, <1>3

LEMMA TakeStep ==
  ASSUME Typed, QueueOK, Take
  PROVE  QueueOK' /\ (Caught => Caught')
<1> USE TypeIs
<1>0. /\ calls # <<>> /\ calls[1].at # "waiting" /\ Answer = calls[1] /\ 1 \in 1..Len(calls)
      /\ calls \in Seq(Call) /\ Head(calls) = calls[1] /\ KindSound(calls[1])
      /\ calls[1].rows \in SUBSET Places /\ calls[1].at \in {"ok", "failed"}
      /\ Ids(fav)' = Ids(fav) /\ fav' = fav
  <2>1. calls # <<>> /\ calls[1].at # "waiting" /\ fav' = fav
    BY Taken DEF Take, HeartsLoaded, PageHeartsLoaded, OrderRead, Toggled, IconRead,
                 TapRead, DetailWritten, Answered
  <2>2. calls \in Seq(Call) /\ Answer = calls[1] /\ Head(calls) = calls[1]
        /\ 1 \in 1..Len(calls)
    BY <2>1, Taken DEF Answer
  <2>3. KindSound(calls[1])
    BY <2>2 DEF QueueOK, QueueSound, KindsSound
  <2>4. calls[1].rows \in SUBSET Places /\ calls[1].at \in {"ok", "failed"}
    BY <2>1, <2>3 DEF KindSound, Asked, Call
  <2>5. QED
    BY <2>1, <2>2, <2>3, <2>4 DEF Ids
<1>1. Caught => (calls[1].stmt = "select" => calls[1].at = "ok")
  BY <1>0 DEF Caught, TableSound, NothingRefused
<1>2. CASE HeartsLoaded
  <2>1. calls[1].then = "hearts" /\ ~LoadStep(calls, 1) /\ calls[1].stmt = "select"
    BY <1>0, <1>2 DEF HeartsLoaded, Answered, LoadStep, Orders, At, KindSound, Asked, Call
  <2>2. CASE calls[1].at = "ok"
    <3> DEFINE u == calls[1].rows
    <3>1. SetSaved(u, page, Tail(calls)) /\ u = AfterAnswer(calls, saved)
      BY <1>0, <1>2, <2>1, <2>2 DEF HeartsLoaded, AfterAnswer
    <3>2. Gained(calls, saved, u)
      BY <1>0, <2>1 DEF Gained
    <3> HIDE DEF u
    <3>3. QED
      BY <1>0, <2>1, <3>1, <3>2, AssignStep
  <2>3. CASE calls[1].at = "failed"
    <3>1. calls' = Tail(calls) /\ UNCHANGED <<fav, saved, page>>
      BY <1>0, <1>2, <2>3 DEF HeartsLoaded
    <3>2. ~Caught
      BY <1>1, <2>1, <2>3
    <3>3. QED
      BY <1>0, <2>1, <3>1, <3>2, DropStep
  <2>4. QED
    BY <1>0, <2>2, <2>3
<1>3. CASE PageHeartsLoaded
  <2>1. At(calls, "page", 1) /\ calls[1].stmt = "select"
    BY <1>0, <1>3 DEF PageHeartsLoaded, Answered, At, KindSound, Asked, Call
  <2> DEFINE u == IF calls[1].at = "ok" THEN calls[1].rows ELSE saved
  <2> DEFINE q == Append(Tail(calls), OrderCall)
  <2>2. u \in SUBSET Places
    BY <1>0
  <2>3. saved' = u
    BY <1>0, <1>3 DEF PageHeartsLoaded
  <2> HIDE DEF u
  <2>4. QueueSound(q, u, page) /\ calls[1].mounted
    BY <1>0, <2>1, <2>2, PageKeepsQueue DEF QueueOK
  <2>5. page' = page /\ calls' = q
    BY <1>0, <1>3, <2>4 DEF PageHeartsLoaded, OrderCall
  <2>6. Caught => /\ TableSound(q, calls[1].rows, page, Ids(fav))
                  /\ ListCatchesUp(q, page, Ids(fav)) /\ calls[1].at = "ok"
    BY <1>0, <2>1, PageKeepsTable DEF Caught
  <2> HIDE DEF q
  <2>7. Caught => TableSound(q, u, page, Ids(fav)) /\ ListCatchesUp(q, page, Ids(fav))
    BY <2>6 DEF u
  <2>8. QED
    BY <1>0, <2>3, <2>4, <2>5, <2>7 DEF QueueOK, Caught
<1>4. CASE OrderRead
  BY <1>4, OrderStep
<1>5. CASE Toggled
  <2>1. calls[1].then = "toggle" /\ ~LoadStep(calls, 1) /\ calls[1].id \in Places
    BY <1>0, <1>5 DEF Toggled, Answered, LoadStep, Orders, At, KindSound, Asked
  <2>2. CASE calls[1].at = "ok"
    <3>1. calls' = Tail(calls) /\ UNCHANGED <<fav, saved, page>> /\ ~Assigns(calls)
      BY <1>0, <1>5, <2>1, <2>2 DEF Toggled, Assigns
    <3>2. QED
      BY <1>0, <2>1, <3>1, DropStep
  <2>3. CASE calls[1].at = "failed"
    <3> DEFINE u == IF calls[1].stmt = "delete" THEN saved \cup {calls[1].id}
                                                ELSE saved \ {calls[1].id}
    <3>1. SetSaved(u, page, Tail(calls)) /\ u = AfterAnswer(calls, saved)
      BY <1>0, <1>5, <2>1, <2>3 DEF Toggled, AfterAnswer
    <3>2. Gained(calls, saved, u)
      BY <1>0, <2>1 DEF Gained
    <3> HIDE DEF u
    <3>3. QED
      BY <1>0, <2>1, <3>1, <3>2, AssignStep
  <2>4. QED
    BY <1>0, <2>2, <2>3
<1>6. Neutral(LoadHearts)
  BY AskIs, AskAsked DEF Neutral, KindSound, LoadHearts
<1>7. CASE IconRead
  <2>1. calls[1].then = "icon" /\ ~LoadStep(calls, 1) /\ ~Assigns(calls)
    BY <1>0, <1>7 DEF IconRead, Answered, LoadStep, Orders, At, Assigns
  <2>2. CASE calls[1].at = "ok"
    <3>1. calls' = Append(Tail(calls), LoadHearts) /\ UNCHANGED <<fav, saved, page>>
      BY <1>0, <1>7, <2>2 DEF IconRead, SetFav
    <3>2. QED
      BY <1>0, <1>6, <2>1, <3>1, AskStep
  <2>3. CASE calls[1].at # "ok"
    <3>1. calls' = Tail(calls) /\ UNCHANGED <<fav, saved, page>>
      BY <1>0, <1>7, <2>3 DEF IconRead
    <3>2. QED
      BY <1>0, <2>1, <3>1, DropStep
  <2>4. QED
    BY <2>2, <2>3
<1>8. CASE TapRead
  <2>1. calls[1].then = "tap" /\ ~LoadStep(calls, 1) /\ ~Assigns(calls)
    BY <1>0, <1>8 DEF TapRead, Answered, LoadStep, Orders, At, Assigns
  <2>2. CASE calls[1].at = "failed"
    <3>1. calls' = Tail(calls) /\ UNCHANGED <<fav, saved, page>>
      BY <1>0, <1>8, <2>2 DEF TapRead
    <3>2. QED
      BY <1>0, <2>1, <3>1, DropStep
  <2>3. CASE calls[1].at # "failed"
    <3>1. calls' = Append(Tail(calls), TapCall(calls[1])) /\ UNCHANGED <<fav, saved, page>>
      BY <1>0, <1>8, <2>3 DEF TapRead, TapCall
    <3>2. Neutral(TapCall(calls[1]))
      BY <1>0, <2>1, TapCallIs DEF KindSound, Neutral
    <3>3. QED
      BY <1>0, <2>1, <3>1, <3>2, AskStep
  <2>4. QED
    BY <2>2, <2>3
<1>9. CASE DetailWritten
  <2>1. /\ calls[1].then = "detail" /\ UNCHANGED <<fav, saved, page>>
        /\ calls' = Append(Tail(calls), LoadHearts)
    BY <1>0, <1>9 DEF DetailWritten, Answered, SetFav
  <2>2. QED
    BY <1>0, <1>6, <2>1, AskStep
<1>10. QED
  BY <1>2, <1>3, <1>4, <1>5, <1>7, <1>8, <1>9 DEF Take

-----------------------------------------------------------------------------
(* What happens without the user.                                          *)
LEMMA OrderedIs ==
  ASSUME Typed
  PROVE  Ordered <=> OrderRan(calls, page)
<1>1. DOMAIN calls = 1..Len(calls)
  BY TypeIs, LenProperties
<1>2. QED
  BY <1>1 DEF Ordered, OrderRan, Orders, At

LEMMA WaitingRuns ==
  ASSUME Typed, NEW i \in DOMAIN calls, Waiting(i), NEW rows \in SUBSET Places,
         calls' = [calls EXCEPT ![i].at = "ok", ![i].rows = rows]
  PROVE  Ran(calls, calls', i, "ok") /\ calls'[i].rows = rows
<1>1. calls \in Seq(Call)
  BY TypeIs
<1>2. calls[i].at = "waiting" /\ \A j \in 1..(i - 1) : calls[j].at # "waiting"
  BY DEF Waiting
<1>3. LET r == [calls EXCEPT ![i].at = "ok", ![i].rows = rows] IN
      Ran(calls, r, i, "ok") /\ r[i].rows = rows
  BY <1>1, <1>2, RunIs
<1>4. QED
  BY <1>3

LEMMA RunStep ==
  ASSUME Typed, QueueOK, RunStatement
  PROVE  QueueOK' /\ (Caught => Caught')
<1>1. PICK i \in DOMAIN calls :
        /\ Waiting(i)
        /\ calls' = [calls EXCEPT ![i].at = "ok",
                       ![i].rows = IF calls[i].stmt = "select" THEN Ids(fav) ELSE {}]
        /\ fav' = CASE calls[i].stmt = "insert" -> [fav EXCEPT ![calls[i].id] = @ + 1]
                    [] calls[i].stmt = "delete" -> [fav EXCEPT ![calls[i].id] = 0]
                    [] OTHER -> fav
        /\ page' = [page EXCEPT !.late = LateAfter(calls[i])]
        /\ saved' = saved
  BY DEF RunStatement
<1> DEFINE w == IF calls[i].stmt = "select" THEN Ids(fav) ELSE {}
<1> DEFINE l == LateAfter(calls[i])
<1>2. w \in SUBSET Places
  BY DEF Ids
<1>3. Ran(calls, calls', i, "ok") /\ calls'[i].rows = w
  <2>1. calls' = [calls EXCEPT ![i].at = "ok", ![i].rows = w] /\ Waiting(i)
    BY <1>1
  <2> HIDE DEF w
  <2>2. QED
    BY <1>2, <2>1, WaitingRuns, ZenonT(30)
<1>4. i \in 1..Len(calls) /\ KindSound(calls[i])
  BY <1>3 DEF Ran, QueueOK, QueueSound, KindsSound
<1>5. calls[i].stmt \in {"insert", "delete"} => calls[i].id \in Places
  BY <1>4 DEF KindSound, Asked
<1>6. page' = LateIs(page, l)
  BY <1>1 DEF LateIs
<1>7. Orders(calls, i) <=> calls[i].then = "order" /\ calls[i].mounted
  BY <1>4 DEF Orders, At
<1>8. l = IF Orders(calls, i) THEN {} ELSE LateNow(calls, page, calls[i])
  BY <1>7, OrderedIs DEF LateAfter, LateNow
<1> HIDE DEF l
<1>9. l \in SUBSET Places /\ (~page.open => l = {})
  <2>1. /\ LateNow(calls, page, calls[i]) \in SUBSET Places
        /\ ~page.open => LateNow(calls, page, calls[i]) = {}
    BY <1>5, LateNowIs DEF QueueOK
  <2>2. QED
    BY <1>8, <2>1
<1>10. QueueSound(calls', saved, LateIs(page, l))
  BY <1>3, <1>9, RunKeepsQueue DEF QueueOK
<1>11. ASSUME Caught, calls[i].stmt = "select"
       PROVE  Caught'
  <2>1. Ids(fav)' = Ids(fav) /\ calls'[i].rows = Ids(fav)
    BY <1>1, <1>3, <1>11 DEF Ids
  <2>2. l = IF Orders(calls, i) THEN {} ELSE page.late
    BY <1>8, <1>11 DEF LateNow
  <2>3. /\ TableSound(calls', saved, LateIs(page, l), Ids(fav))
        /\ ListCatchesUp(calls', LateIs(page, l), Ids(fav))
    BY <1>3, <1>11, <2>1, <2>2, ReadKeepsTable DEF Caught
  <2>4. QED
    BY <1>1, <1>6, <2>1, <2>3 DEF Caught
<1>12. ASSUME Caught, calls[i].stmt # "select"
       PROVE  Caught'
  <2>1. calls[i].then \in {"toggle", "detail"} /\ calls[i].stmt \in {"insert", "delete"}
    BY <1>4, <1>12 DEF KindSound, Asked, Call
  <2>2. Ids(fav)' = TableAfter(calls[i], Ids(fav))
    <3>1. fav \in [Places -> Nat] /\ calls[i].id \in Places
      BY <1>5, <2>1, TypeIs
    <3>2. CASE calls[i].stmt = "insert"
      <4>1. fav' = [fav EXCEPT ![calls[i].id] = @ + 1]
        BY <1>1, <3>2
      <4>2. QED
        BY <3>1, <3>2, <4>1, IdsAfter DEF TableAfter, Ids
    <3>3. CASE calls[i].stmt = "delete"
      <4>1. fav' = [fav EXCEPT ![calls[i].id] = 0]
        BY <1>1, <3>3
      <4>2. QED
        BY <3>1, <3>3, <4>1, IdsAfter DEF TableAfter, Ids
    <3>4. QED
      BY <2>1, <3>2, <3>3
  <2>3. l = LateNow(calls, page, calls[i])
    BY <1>7, <1>8, <2>1
  <2>4. LET u == TableAfter(calls[i], Ids(fav)) IN
        /\ TableSound(calls', saved, LateIs(page, l), u)
        /\ ListCatchesUp(calls', LateIs(page, l), u)
    BY <1>3, <1>12, <2>1, <2>3, DetailKeepsTable, ToggleKeepsTable DEF Caught
  <2>5. QED
    BY <1>1, <1>6, <2>2, <2>4 DEF Caught
<1>13. QED
  BY <1>1, <1>6, <1>10, <1>11, <1>12 DEF QueueOK

LEMMA RefuseStep ==
  ASSUME Typed, QueueOK, RefuseStatement
  PROVE  QueueOK' /\ ("read" \notin Faults /\ Caught => Caught')
<1> USE TypeIs
<1>1. PICK i \in DOMAIN calls :
        /\ Waiting(i)
        /\ (IF calls[i].stmt = "select" THEN "read" ELSE "write") \in Faults
        /\ calls' = [calls EXCEPT ![i].at = "failed"]
        /\ UNCHANGED <<fav, saved, loaded, page, detail>>
  BY DEF RefuseStatement
<1>2. Ran(calls, calls', i, "failed")
  BY <1>1, RefusalIs DEF Waiting
<1>3. page.late \in SUBSET Places /\ LateIs(page, page.late) = page
  <2>1. page.late \in SUBSET Places
    BY DEF PageRec
  <2>2. QED
    BY <2>1, LateIsIs
<1>4. ~page.open => page.late = {}
  BY DEF QueueOK, QueueSound, PhaseSound, NoPage
<1>5. QueueSound(calls', saved, page)
  BY <1>2, <1>3, <1>4, RunKeepsQueue DEF QueueOK
<1>6. ASSUME "read" \notin Faults, Caught
      PROVE  Caught'
  <2>1. calls[i].stmt # "select" /\ Ids(fav)' = Ids(fav)
    BY <1>1, <1>6 DEF Ids
  <2>2. TableSound(calls', saved, page, Ids(fav)) /\ ListCatchesUp(calls', page, Ids(fav))
    BY <1>2, <1>6, <2>1, RefusalKeepsTable DEF Caught
  <2>3. QED
    BY <1>1, <2>1, <2>2 DEF Caught
<1>7. QED
  BY <1>1, <1>5, <1>6 DEF QueueOK

LEMMA PageStep ==
  ASSUME Typed, QueueOK, PageFetched
  PROVE  QueueOK' /\ (Caught => Caught')
<1> USE TypeIs
<1>1. PICK got \in SUBSET (page.found \ page.byId) :
        page' = Listed(page, page.found, page.byId \cup got)
  BY DEF PageFetched
<1> DEFINE known == page.byId \cup got
<1>2. page.found \in SUBSET Places /\ known \in SUBSET Places /\ page.fetching
  BY DEF PageRec, PageFetched
<1>3. /\ UNCHANGED <<fav, saved, calls>> /\ Ids(fav)' = Ids(fav)
      /\ page' = Listed(page, page.found, known)
  BY <1>1 DEF PageFetched, Ids
<1> HIDE DEF known
<1>4. page.open
  BY <1>2 DEF QueueOK, QueueSound, PhaseSound
<1>5. QueueSound(calls, saved, Listed(page, page.found, known))
  <2> DEFINE v == Listed(page, page.found, known)
  <2>1. v \in PageRec /\ v.open /\ ~v.fetching /\ v.pending = page.pending
    BY <1>2, <1>4, ListedIs
  <2> HIDE DEF v
  <2>2. QueueSound(calls, saved, v)
    BY <1>2, <2>1, EndKeepsQueue DEF QueueOK
  <2>3. QED
    BY <2>2 DEF v
<1>6. Caught => /\ TableSound(calls, saved, Listed(page, page.found, known), Ids(fav))
                /\ ListCatchesUp(calls, Listed(page, page.found, known), Ids(fav))
  BY <1>2, ListedKeepsTable DEF Caught
<1>7. QED
  BY <1>3, <1>5, <1>6 DEF QueueOK, Caught

LEMMA ExpireStep ==
  ASSUME ~Overlap, Typed, QueueOK, PendingExpires
  PROVE  QueueOK' /\ (Caught => Caught')
<1>1. /\ page.pending # NoPlace /\ Commit(NoPlace) /\ calls' = Committed
      /\ Ids(fav)' = Ids(fav) /\ Still(calls)
  BY CalmIsStill DEF PendingExpires, Ids, Room
<1>2. page.open
  BY <1>1 DEF QueueOK, QueueSound, PhaseSound, NoPage
<1>3. QED
  BY <1>1, <1>2, IsFree, CommitStep DEF QueueOK, Caught

LEMMA EmptyIsSound ==
  /\ QueueSound(<<>>, {}, NoPage)
  /\ \A t \in SUBSET Places : TableSound(<<>>, {}, NoPage, t) /\ ListCatchesUp(<<>>, NoPage, t)
<1>1. <<>> \in Seq(Call) /\ Len(<<>>) = 0
  BY EmptySeq
<1>2. KindsSound(<<>>) /\ InOrder(<<>>) /\ NothingRefused(<<>>)
  BY <1>1 DEF KindsSound, InOrder, NothingRefused
<1>3. QueueSound(<<>>, {}, NoPage)
  <2>1. \A k \in 1..Len(<<>>) : ~LoadStep(<<>>, k)
    BY <1>1
  <2>2. QED
    BY <1>1, <1>2, <2>1, ClosedQueue
<1>4. QED
  BY <1>2, <1>3, NoPageIs, ClosedIsSound

LEMMA KilledStep ==
  ASSUME Killed
  PROVE  QueueOK' /\ Caught'
<1>1. Ids(fav)' \in SUBSET Places
  BY DEF Ids
<1>2. calls' = <<>> /\ saved' = {} /\ page' = NoPage
  BY DEF Killed
<1>3. QED
  BY <1>1, <1>2, EmptyIsSound DEF QueueOK, Caught

LEMMA NextStep ==
  ASSUME ~Overlap, Typed, QueueOK, [Next]_vars
  PROVE  QueueOK' /\ ("read" \notin Faults /\ Caught => Caught')
<1>1. CASE UNCHANGED vars
  BY <1>1 DEF vars, QueueOK, Caught, Ids
<1>2. QED
  BY <1>1, UserStep, RunStep, RefuseStep, TakeStep, PageStep, ExpireStep, KilledStep DEF Next

-----------------------------------------------------------------------------
LEMMA FirstSound ==
  ASSUME Init
  PROVE  QueueInv /\ TableInv
<1>1. Ids(fav) \in SUBSET Places
  BY DEF Ids
<1>2. Typed
  BY TypeInit DEF TypeInv
<1>3. QED
  BY <1>1, <1>2, EmptyIsSound DEF Init, QueueInv, TableInv, QueueOK, Caught

(* A delete of the place that waits is the restaurant's screen's.          *)
LEMMA RowKept ==
  ASSUME Typed, QueueOK, [Next]_vars, page.pending # NoPlace,
         page.pending \in Ids(fav) \ Ids(fav')
  PROVE  \E i \in DOMAIN calls : Waiting(i) /\ calls[i].then = "detail"
<1> USE TypeIs
<1>1. fav' # fav
  BY DEF Ids
<1>2. RunStatement
  BY <1>1 DEF Next, vars, User, OpenPage, Undo, ClosePage, TapSave, CloseDetail, Toggle,
              OpenDetail, TakeOut, OpenRow, EnsureLoaded, Load, RefuseStatement, Take,
              HeartsLoaded, PageHeartsLoaded, OrderRead, Toggled, IconRead, TapRead,
              DetailWritten, PageFetched, PendingExpires, Killed
<1>3. PICK i \in DOMAIN calls :
        /\ Waiting(i)
        /\ fav' = CASE calls[i].stmt = "insert" -> [fav EXCEPT ![calls[i].id] = @ + 1]
                    [] calls[i].stmt = "delete" -> [fav EXCEPT ![calls[i].id] = 0]
                    [] OTHER -> fav
  BY <1>2 DEF RunStatement
<1>4. i \in 1..Len(calls)
  BY LenProperties
<1>5. KindSound(calls[i])
  BY <1>4 DEF QueueOK, QueueSound, KindsSound
<1>6. calls[i].stmt \in {"insert", "delete"} /\ calls[i].id \in Places
      /\ calls[i].then \in {"toggle", "detail"}
  <2>1. calls[i].stmt \in {"insert", "delete"}
    BY <1>1, <1>3
  <2>2. QED
    BY <1>5, <2>1 DEF KindSound, Asked
<1>7. calls[i].stmt = "delete" /\ calls[i].id = page.pending
  <2>1. CASE calls[i].stmt = "insert"
    <3>1. fav' = [fav EXCEPT ![calls[i].id] = @ + 1]
      BY <1>3, <2>1
    <3>2. Ids(fav') = Ids(fav) \cup {calls[i].id}
      BY <1>6, <3>1, IdsAfter
    <3>3. QED
      BY <3>2
  <2>2. CASE calls[i].stmt = "delete"
    <3>1. fav' = [fav EXCEPT ![calls[i].id] = 0]
      BY <1>3, <2>2
    <3>2. Ids(fav') = Ids(fav) \ {calls[i].id}
      BY <1>6, <3>1, IdsAfter
    <3>3. QED
      BY <2>2, <3>2
  <2>3. QED
    BY <1>6, <2>1, <2>2
<1>8. calls[i].then # "toggle"
  <2> SUFFICES ASSUME calls[i].then = "toggle"
               PROVE  FALSE
    OBVIOUS
  <2>1. page.open
    BY DEF QueueOK, QueueSound, PhaseSound, NoPage
  <2>2. Before(calls, page, i) \/ Removes(calls, saved, page, i)
    BY <1>4, <2>1 DEF QueueOK, QueueSound, TogglesSound, At
  <2>3. QED
    BY <1>7, <2>2 DEF Before, Removes
<1>9. QED
  BY <1>3, <1>6, <1>8

(* "Deshacer" undoes: while a removal is offered to be undone, no toggle on*)
(* its way is a delete of that place, so the row stays in the table, for   *)
(* any number of places and statements, reads and writes refused included, *)
(* as long as the user does not outrun a read of the hearts.               *)
THEOREM RowsAreKept ==
  ASSUME ~Overlap
  PROVE  Spec => UndoKeepsTheRow
<1>1. Init => QueueInv
  BY FirstSound
<1>2. QueueInv /\ TypeInv /\ [Next]_vars => QueueInv'
  BY TypeStep, NextStep DEF QueueInv, TypeInv
<1>3. QueueInv /\ [Next]_vars =>
        [page.pending # NoPlace /\ page'.pending = page.pending
           /\ page.pending \in Ids(fav) \ Ids(fav')
         => \E i \in DOMAIN calls : Waiting(i) /\ calls[i].then = "detail"]_vars
  BY RowKept DEF QueueInv
<1>4. Init => TypeInv
  BY TypeInit
<1>5. TypeInv /\ [Next]_vars => TypeInv'
  BY TypeStep
<1>6. QED
  BY <1>1, <1>2, <1>3, <1>4, <1>5, PTL DEF Spec, UndoKeepsTheRow

LEMMA QuietShows ==
  ASSUME TableInv
  PROVE  PageShowsTheTable
<1> SUFFICES ASSUME calls = <<>>, ~page.loading, page.open, page.status = "ready",
                    NEW x \in Places \ page.late
             PROVE  x \in Visible(page, saved)
                      <=> x \in (Ids(fav) \cap page.byId) \ {page.pending}
  BY DEF PageShowsTheTable, Quiet
<1>1. Len(calls) = 0
  BY EmptySeq
<1>2. \A n : ~Comes(calls, x, n) /\ ~Goes(calls, x, n) /\ ~IsRemoved(calls, x)
  BY <1>1 DEF Comes, Goes, IsRemoved, Written, Brings, Drops, Reads
<1>3. x \in Ids(fav) => x \in saved /\ x \in page.ordered
  BY <1>2 DEF TableInv, Caught, TableSound, HeartsCatchUp, ListCatchesUp
<1>4. x \in saved /\ x \in page.ordered => x \in Ids(fav)
  BY <1>2 DEF TableInv, Caught, TableSound, ListLetsGo
<1>5. QED
  BY <1>3, <1>4 DEF Visible

(* The page converges: once everything has been answered it lists the rows *)
(* of the table, for any number of places, of rows and of statements on    *)
(* their way, when no read is refused and the user does not outrun one.    *)
THEOREM PagesShowTheTable ==
  ASSUME ~Overlap, "read" \notin Faults
  PROVE  Spec => []PageShowsTheTable
<1>1. Init => TypeInv /\ QueueInv /\ TableInv
  BY TypeInit, FirstSound
<1>2. TypeInv /\ QueueInv /\ TableInv /\ [Next]_vars => (TypeInv /\ QueueInv /\ TableInv)'
  BY TypeStep, NextStep DEF TypeInv, QueueInv, TableInv
<1>3. TableInv => PageShowsTheTable
  BY QuietShows
<1>4. QED
  BY <1>1, <1>2, <1>3, PTL DEF Spec

=============================================================================
