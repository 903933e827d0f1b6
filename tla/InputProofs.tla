---------------------------- MODULE InputProofs ----------------------------
(***************************************************************************)
(* Proofs about the way of a key: UsbHid, from the keyboard's reports to   *)
(* gui_task, and Desktop, where the window on top gets it.  For every size *)
(* of the rings, any number of windows, and any device, cable and user.    *)
(*                                                                         *)
(* Induction over the events of a ring, and over the windows of the stack, *)
(* goes by the least counterexample (LeastNat).                            *)
(***************************************************************************)
EXTENDS UsbHid, Desktop, FiniteSetTheorems, SequenceTheorems, WellFoundedInduction, TLAPS

(* A non-empty set of naturals has a least element. *)
LEMMA LeastNat ==
    ASSUME NEW T, T \subseteq Nat, T # {}
    PROVE  \E x \in T : \A y \in T : x <= y
<1> DEFINE Less == OpToRel(<, Nat)
<1>1. IsWellFoundedOn(Less, Nat)
  BY NatLessThanWellFounded, Zenon
<1>2. \A x, y \in Nat : y < x => <<y, x>> \in Less
  BY DEF OpToRel
<1> HIDE DEF Less
<1>3. PICK x \in T : \A y \in T : ~ (<<y, x>> \in Less)
  BY <1>1, WFMin, Zenon
<1>4. ASSUME NEW y \in T PROVE x <= y
  <2>1. x \in Nat /\ y \in Nat
    OBVIOUS
  <2>2. ~ (y < x)
    BY <1>2, <1>3, <2>1
  <2> QED
    BY <2>1, <2>2
<1> QED
  BY <1>4

-----------------------------------------------------------------------------
(* UsbHid: the loop of virtio_input_poll.                                     *)

(* f holds what the decoder knows after each of the first n events of r. *)
Run(f, st, r, n) == f = [i \in 0 .. n |-> IF i = 0 THEN st ELSE Decode(f[i - 1], r[i])]

LEMMA RunExists ==
    ASSUME NEW st, NEW r, NEW n \in Nat
    PROVE  \E f : Run(f, st, r, n)
<1> DEFINE T == {k \in Nat : ~ \E f : Run(f, st, r, k)}
<1>1. SUFFICES ASSUME T # {} PROVE FALSE
  OBVIOUS
<1>2. T \subseteq Nat
  OBVIOUS
<1>3. PICK x \in T : \A y \in T : x <= y
  <2> HIDE DEF T
  <2> QED
    BY <1>1, <1>2, LeastNat
<1>4. CASE x = 0
  <2>1. Run([i \in 0 .. 0 |-> st], st, r, 0)
    BY DEF Run
  <2> QED
    BY <1>4, <2>1
<1>5. CASE x # 0
  <2>1. x - 1 \in Nat /\ ~ (x <= x - 1)
    BY <1>5
  <2>2. x - 1 \notin T
    BY <1>3, <2>1
  <2>3. PICK g : Run(g, st, r, x - 1)
    BY <2>1, <2>2
  <2> DEFINE f == [i \in 0 .. x |-> IF i = x THEN Decode(g[x - 1], r[x]) ELSE g[i]]
  <2>4. \A i \in 0 .. x - 1 : g[i] = IF i = 0 THEN st ELSE Decode(g[i - 1], r[i])
    BY <2>3 DEF Run
  <2>5. ASSUME NEW i \in 0 .. x PROVE f[i] = IF i = 0 THEN st ELSE Decode(f[i - 1], r[i])
    <3>1. CASE i = x
      BY <1>5, <3>1
    <3>2. CASE i # x
      <4>1. i \in 0 .. x - 1 /\ (i # 0 => i - 1 \in 0 .. x /\ i - 1 # x)
        BY <2>1, <3>2
      <4>2. f[i] = g[i] /\ (i # 0 => f[i - 1] = g[i - 1])
        BY <3>2, <4>1
      <4> QED
        BY <2>4, <4>1, <4>2
    <3> QED
      BY <3>1, <3>2
  <2>6. f = [i \in 0 .. x |-> f[i]]
    OBVIOUS
  <2> HIDE DEF f
  <2>7. Run(f, st, r, x)
    BY <2>5, <2>6 DEF Run
  <2> QED
    BY <2>7
<1> QED
  BY <1>4, <1>5

LEMMA DecodedRun ==
    ASSUME NEW st, NEW r, NEW n \in Nat
    PROVE  \E f : Run(f, st, r, n) /\ Decoded(st, r, n) = f[n]
<1>1. \E f : Run(f, st, r, n)
  BY RunExists
<1> DEFINE g == CHOOSE f : Run(f, st, r, n)
<1>2. Run(g, st, r, n)
  BY <1>1
<1>3. Decoded(st, r, n) = g[n]
  BY DEF Decoded, Run
<1> QED
  BY <1>2, <1>3

-----------------------------------------------------------------------------
(* The keys of gui_task.                                                    *)

KeyCodes == Letters \cup {CtrlC}

Queued(g) ==
    /\ DOMAIN g = {"key", "queue"}
    /\ g.key \in KeyCodes \cup {NoKey}
    /\ g.queue \in Seq(KeyCodes) /\ Len(g.queue) <= GUI_KEY_QUEUE_SIZE - 1

(* gui_key_submit keeps the keys in order and the ring within its size. *)
LEMMA SubmitKeeps ==
    ASSUME NEW g, Queued(g), NEW k \in KeyCodes
    PROVE  /\ Queued(Submit(g, k))
           /\ PendingKeys(Submit(g, k)) = Owe(g, PendingKeys(g), k)
<1> DEFINE q == g.queue
           h == Submit(g, k)
<1>1. GUI_KEY_QUEUE_SIZE \in Nat /\ GUI_KEY_QUEUE_SIZE > 1
  BY KeyQueueAssumption
<1>2. NoKey \notin KeyCodes
  BY DEF NoKey, KeyCodes, Letters, CtrlC
<1>3. q \in Seq(KeyCodes) /\ Len(q) \in Nat
  BY DEF Queued
<1>4. CASE k = CtrlC
  <2>1. h = [key |-> k, queue |-> <<>>] /\ Owe(g, PendingKeys(g), k) = <<k>>
    BY <1>4 DEF Submit, Owe
  <2>2. PendingKeys(h) = <<k>>
    BY <1>2, <2>1 DEF PendingKeys
  <2>3. Queued(h)
    BY <1>1, <2>1 DEF Queued
  <2> QED
    BY <2>1, <2>2, <2>3
<1>5. CASE k # CtrlC /\ g.key = NoKey /\ q = <<>>
  <2>1. h.key = k /\ h.queue = <<>> /\ DOMAIN h = {"key", "queue"}
    BY <1>5 DEF Submit, Queued
  <2>2. ~QueueFull(g)
    BY <1>1, <1>5 DEF QueueFull
  <2>3. PendingKeys(g) = <<>> /\ PendingKeys(h) = <<k>>
    BY <1>2, <1>5, <2>1 DEF PendingKeys
  <2>4. Owe(g, PendingKeys(g), k) = <<k>>
    BY <1>5, <2>2, <2>3 DEF Owe
  <2>5. Queued(h)
    BY <1>1, <2>1 DEF Queued
  <2> QED
    BY <2>3, <2>4, <2>5
<1>6. CASE k # CtrlC /\ ~ (g.key = NoKey /\ q = <<>>)
  <2> DEFINE r == IF QueueFull(g) THEN Tail(q) ELSE q
  <2>1. h.key = g.key /\ h.queue = Append(r, k) /\ DOMAIN h = {"key", "queue"}
    BY <1>6 DEF Submit, Queued
  <2>2. r \in Seq(KeyCodes) /\ Len(r) <= GUI_KEY_QUEUE_SIZE - 2
    BY <1>1, <1>3 DEF QueueFull, Queued
  <2>3. Append(r, k) \in Seq(KeyCodes) /\ Len(Append(r, k)) = Len(r) + 1 /\ Len(r) \in Nat
    BY <2>2
  <2>4. Queued(h)
    BY <1>1, <2>1, <2>2, <2>3 DEF Queued
  <2>5. CASE g.key = NoKey
    <3>1. PendingKeys(g) = q /\ PendingKeys(h) = Append(r, k)
      BY <1>3, <2>1, <2>3, <2>5 DEF PendingKeys
    <3> QED
      BY <1>6, <2>4, <2>5, <3>1 DEF Owe
  <2>6. CASE g.key # NoKey
    <3>1. PendingKeys(g) = <<g.key>> \o q /\ PendingKeys(h) = <<g.key>> \o Append(r, k)
      BY <2>1, <2>6 DEF PendingKeys
    <3>2. g.key \in KeyCodes
      BY <2>6 DEF Queued
    <3>3. Head(<<g.key>> \o q) = g.key /\ Tail(<<g.key>> \o q) = q
      BY <1>3, <3>2
    <3>4. <<g.key>> \o Append(r, k) = Append(<<g.key>> \o r, k)
      BY <2>2, <3>2
    <3>5. Owe(g, PendingKeys(g), k) = Append(<<g.key>> \o r, k)
      BY <1>6, <2>6, <3>1, <3>3 DEF Owe
    <3> QED
      BY <2>4, <3>1, <3>4, <3>5
  <2> QED
    BY <2>5, <2>6
<1> QED
  BY <1>4, <1>5, <1>6

-----------------------------------------------------------------------------
(* The event ring.                                                          *)

Events == [code : Letters \cup {"ctrl"}, down : BOOLEAN]

(* What the events of r say of key u, for a decoder that believes `now'. *)
SettledIn(r, u, now) ==
    LET at == {i \in DOMAIN r : r[i].code = u}
    IN IF at = {} THEN now ELSE r[CHOOSE i \in at : \A j \in at : j <= i].down

LEMMA Greatest ==
    ASSUME NEW n \in Nat, NEW T, T \subseteq 1 .. n, T # {}
    PROVE  \E x \in T : \A y \in T : y <= x
<1> DEFINE U == {n - k : k \in T}
<1>1. U \subseteq Nat /\ U # {}
  <2>1. \A k \in T : k \in 1 .. n /\ n - k \in Nat
    OBVIOUS
  <2> QED
    BY <2>1
<1>2. PICK u \in U : \A y \in U : u <= y
  <2> HIDE DEF U
  <2> QED
    BY <1>1, LeastNat
<1>3. PICK x \in T : u = n - x
  BY <1>2
<1>4. ASSUME NEW y \in T PROVE y <= x
  <2>1. n - y \in U
    OBVIOUS
  <2>2. n - x <= n - y
    BY <1>2, <1>3, <2>1
  <2>3. x \in 1 .. n /\ y \in 1 .. n
    OBVIOUS
  <2> QED
    BY <2>2, <2>3
<1> QED
  BY <1>4

(* The last event of u decides. *)
LEMMA SettledByLast ==
    ASSUME NEW r \in Seq(Events), NEW u, NEW now
    PROVE  /\ u \notin Codes(r) => SettledIn(r, u, now) = now
           /\ \A j \in 1 .. Len(r) :
                r[j].code = u /\ (\A k \in 1 .. Len(r) : r[k].code = u => k <= j)
                    => SettledIn(r, u, now) = r[j].down
           /\ u \in Codes(r) =>
                \E j \in 1 .. Len(r) : /\ r[j].code = u
                                       /\ \A k \in 1 .. Len(r) : r[k].code = u => k <= j
                                       /\ SettledIn(r, u, now) = r[j].down
<1> DEFINE at == {i \in DOMAIN r : r[i].code = u}
           last == CHOOSE i \in at : \A j \in at : j <= i
<1>1. DOMAIN r = 1 .. Len(r) /\ Len(r) \in Nat
  OBVIOUS
<1>2. u \in Codes(r) <=> at # {}
  BY DEF Codes
<1>3. at # {} => last \in at /\ \A j \in at : j <= last
  <2>1. at # {} => \E x \in at : \A y \in at : y <= x
    BY <1>1, Greatest
  <2> QED
    BY <2>1
<1>4. SettledIn(r, u, now) = IF at = {} THEN now ELSE r[last].down
  BY DEF SettledIn
<1> HIDE DEF last
<1>5. ASSUME NEW j \in 1 .. Len(r), r[j].code = u,
             \A k \in 1 .. Len(r) : r[k].code = u => k <= j
      PROVE  SettledIn(r, u, now) = r[j].down
  <2>1. j \in at
    BY <1>1, <1>5
  <2>2. last \in at /\ j <= last /\ last <= j
    BY <1>1, <1>3, <1>5, <2>1
  <2>3. j = last
    BY <1>1, <2>2
  <2> QED
    BY <1>4, <2>1, <2>3
<1>6. ASSUME u \in Codes(r)
      PROVE  \E j \in 1 .. Len(r) : /\ r[j].code = u
                                    /\ \A k \in 1 .. Len(r) : r[k].code = u => k <= j
                                    /\ SettledIn(r, u, now) = r[j].down
  <2>1. last \in at /\ \A j \in at : j <= last
    BY <1>2, <1>3, <1>6
  <2>2. SettledIn(r, u, now) = r[last].down
    BY <1>4, <2>1
  <2> QED
    BY <1>1, <2>1, <2>2
<1> QED
  BY <1>2, <1>4, <1>5, <1>6

(* The same, under one name. *)
LastDecides(r, u, now) ==
    /\ \A j \in 1 .. Len(r) :
           r[j].code = u /\ (\A k \in 1 .. Len(r) : r[k].code = u => k <= j)
               => SettledIn(r, u, now) = r[j].down
    /\ u \in Codes(r) =>
           \E j \in 1 .. Len(r) : /\ r[j].code = u
                                  /\ \A k \in 1 .. Len(r) : r[k].code = u => k <= j
                                  /\ SettledIn(r, u, now) = r[j].down

LEMMA LastIsDecisive ==
    ASSUME NEW r \in Seq(Events), NEW u, NEW now
    PROVE  LastDecides(r, u, now)
BY SettledByLast DEF LastDecides

(* enqueue_input_event: what is left is the end of what there was. *)
LEMMA EnqueueShape ==
    ASSUME NEW r \in Seq(Events), NEW es \in Seq(Events)
    PROVE  LET t == EnqueueAll(r, es)
           IN  /\ t \in Seq(Events) /\ r \o es \in Seq(Events)
               /\ Len(r \o es) = Len(r) + Len(es)
               /\ \E o \in 0 .. Len(r \o es) :
                    /\ Len(t) = Len(r \o es) - o
                    /\ \A i \in 1 .. Len(t) : t[i] = (r \o es)[i + o]
<1> DEFINE all == r \o es
           over == Len(all) - (INPUT_EVENT_QUEUE_SIZE - 1)
           t == EnqueueAll(r, es)
<1>1. INPUT_EVENT_QUEUE_SIZE \in Nat /\ INPUT_EVENT_QUEUE_SIZE > 1
  BY UsbHidAssumption
<1>2. all \in Seq(Events) /\ Len(all) = Len(r) + Len(es) /\ Len(all) \in Nat
  OBVIOUS
<1>3. t = IF over > 0 THEN SubSeq(all, over + 1, Len(all)) ELSE all
  BY DEF EnqueueAll
<1> HIDE DEF t, all
<1>4. CASE over > 0
  <2>1. over \in 0 .. Len(all) /\ over + 1 \in 1 .. Len(all)
    BY <1>1, <1>2, <1>4
  <2> HIDE DEF over
  <2>2. t \in Seq(Events) /\ Len(t) = Len(all) - over /\ \A i \in 1 .. Len(t) : t[i] = all[i + over]
    <3>1. t = SubSeq(all, over + 1, Len(all))
      BY <1>3, <1>4
    <3>2. /\ t \in Seq(Events) /\ Len(t) = Len(all) - (over + 1) + 1
          /\ \A i \in 1 .. Len(all) - (over + 1) + 1 : t[i] = all[over + 1 + i - 1]
      BY <1>2, <2>1, <3>1
    <3> QED
      BY <1>2, <2>1, <3>2
  <2> QED
    BY <1>2, <2>1, <2>2 DEF t, all
<1>5. CASE ~ (over > 0)
  <2>1. t = all
    BY <1>3, <1>5
  <2>2. /\ 0 \in 0 .. Len(all) /\ Len(t) = Len(all) - 0
        /\ \A i \in 1 .. Len(t) : t[i] = all[i + 0]
    BY <1>2, <2>1
  <2> QED
    BY <1>2, <2>1, <2>2 DEF t, all
<1> QED
  BY <1>4, <1>5

(* An event of u that is kept: the last one is kept too, and it is an event  *)
(* of es if es has any.                                                      *)
LEMMA EnqueueSettles ==
    ASSUME NEW r \in Seq(Events), NEW es \in Seq(Events), NEW u, NEW now, NEW any
    PROVE  LET t == EnqueueAll(r, es)
           IN  /\ u \in Codes(es) /\ u \in Codes(t) => SettledIn(t, u, now) = SettledIn(es, u, any)
               /\ u \notin Codes(es) /\ u \in Codes(t) => SettledIn(t, u, now) = SettledIn(r, u, now)
               /\ u \notin Codes(r \o es) => SettledIn(t, u, now) = now /\ SettledIn(r, u, now) = now
<1> DEFINE all == r \o es
           t == EnqueueAll(r, es)
<1>1. /\ t \in Seq(Events) /\ all \in Seq(Events) /\ Len(all) = Len(r) + Len(es)
      /\ Len(r) \in Nat /\ Len(es) \in Nat /\ Len(t) \in Nat
  BY EnqueueShape
<1>2. PICK o \in 0 .. Len(all) :
         Len(t) = Len(all) - o /\ \A i \in 1 .. Len(t) : t[i] = all[i + o]
  BY EnqueueShape
<1>3. \A i \in 1 .. Len(t) : i + o \in 1 .. Len(all) /\ t[i] = all[i + o]
  <2> HIDE DEF all, t
  <2> QED
    BY <1>1, <1>2
<1>4. /\ \A i \in 1 .. Len(r) : all[i] = r[i]
      /\ \A i \in 1 .. Len(es) : all[Len(r) + i] = es[i]
  BY <1>1
<1>5. \A x \in Seq(Events) : u \in Codes(x) <=> \E i \in 1 .. Len(x) : x[i].code = u
  BY DEF Codes
<1> HIDE DEF all, t
<1>6. ASSUME u \in Codes(es), u \in Codes(t) PROVE SettledIn(t, u, now) = SettledIn(es, u, any)
  <2>1. PICK j \in 1 .. Len(es) : /\ es[j].code = u
                                  /\ \A k \in 1 .. Len(es) : es[k].code = u => k <= j
                                  /\ SettledIn(es, u, any) = es[j].down
    BY <1>6, SettledByLast
  <2>2. all[Len(r) + j].code = u /\ \A k \in 1 .. Len(all) : all[k].code = u => k <= Len(r) + j
    <3>1. ASSUME NEW k \in 1 .. Len(all), all[k].code = u, k > Len(r) + j PROVE FALSE
      <4>1. k - Len(r) \in 1 .. Len(es) /\ Len(r) + (k - Len(r)) = k /\ k - Len(r) > j
        BY <1>1, <3>1
      <4>2. es[k - Len(r)].code = u
        BY <1>4, <3>1, <4>1
      <4> QED
        BY <1>1, <2>1, <4>1, <4>2
    <3>2. all[Len(r) + j].code = u
      BY <1>4, <2>1
    <3>3. Len(r) + j \in Int /\ \A k \in 1 .. Len(all) : k \in Int
      BY <1>1, <2>1
    <3>4. \A k \in 1 .. Len(all) : all[k].code = u => ~ (k > Len(r) + j)
      BY <3>1
    <3> QED
      BY <3>2, <3>3, <3>4
  <2>3. PICK i \in 1 .. Len(t) : t[i].code = u
    BY <1>1, <1>5, <1>6
  <2> DEFINE m == Len(r) + j - o
  <2>4. m \in 1 .. Len(t) /\ m + o = Len(r) + j
    <3>1. i + o \in 1 .. Len(all) /\ all[i + o].code = u
      BY <1>3, <2>3
    <3>2. i + o <= Len(r) + j
      BY <2>2, <3>1
    <3> QED
      BY <1>1, <1>2, <2>1, <2>3, <3>2
  <2> HIDE DEF m
  <2>5. t[m].code = u /\ t[m].down = es[j].down
    BY <1>2, <1>4, <2>1, <2>4
  <2>6. ASSUME NEW k \in 1 .. Len(t), t[k].code = u PROVE k <= m
    <3>1. k + o \in 1 .. Len(all) /\ all[k + o].code = u
      BY <1>3, <2>6
    <3>2. k + o <= m + o
      BY <2>2, <2>4, <3>1
    <3> QED
      BY <1>1, <1>2, <2>4, <3>2
  <2>7. SettledIn(t, u, now) = t[m].down
    <3>1. t \in Seq(Events)
      BY <1>1
    <3>2. LastDecides(t, u, now)
      BY <3>1, LastIsDecisive
    <3> QED
      BY <2>4, <2>5, <2>6, <3>2 DEF LastDecides
  <2> QED
    BY <2>1, <2>5, <2>7
<1>7. ASSUME u \notin Codes(es), u \in Codes(t) PROVE SettledIn(t, u, now) = SettledIn(r, u, now)
  <2>1. \A k \in 1 .. Len(all) : all[k].code = u => k \in 1 .. Len(r)
    <3>1. ASSUME NEW k \in 1 .. Len(all), all[k].code = u, k \notin 1 .. Len(r) PROVE FALSE
      <4>1. k - Len(r) \in 1 .. Len(es) /\ Len(r) + (k - Len(r)) = k
        BY <1>1, <3>1
      <4>2. es[k - Len(r)].code = u
        BY <1>4, <3>1, <4>1
      <4> QED
        BY <1>5, <1>7, <4>1, <4>2
    <3> QED
      BY <3>1
  <2>2. PICK i \in 1 .. Len(t) : t[i].code = u
    BY <1>1, <1>5, <1>7
  <2>3. i + o \in 1 .. Len(r) /\ r[i + o].code = u
    <3>1. i + o \in 1 .. Len(all) /\ all[i + o].code = u
      BY <1>3, <2>2
    <3> QED
      BY <1>4, <2>1, <3>1
  <2>4. PICK j \in 1 .. Len(r) : /\ r[j].code = u
                                 /\ \A k \in 1 .. Len(r) : r[k].code = u => k <= j
                                 /\ SettledIn(r, u, now) = r[j].down
    <3>1. u \in Codes(r)
      BY <1>5, <2>3
    <3> QED
      BY <3>1, SettledByLast
  <2> DEFINE m == j - o
  <2>5. m \in 1 .. Len(t) /\ m + o = j
    <3>1. i + o <= j
      BY <2>3, <2>4
    <3> QED
      BY <1>1, <1>2, <2>2, <2>4, <3>1
  <2> HIDE DEF m
  <2>6. t[m].code = u /\ t[m].down = r[j].down
    BY <1>2, <1>4, <2>4, <2>5
  <2>7. ASSUME NEW k \in 1 .. Len(t), t[k].code = u PROVE k <= m
    <3>1. k + o \in 1 .. Len(all) /\ all[k + o].code = u
      BY <1>3, <2>7
    <3>2. k + o <= m + o
      BY <1>4, <2>1, <2>4, <2>5, <3>1
    <3> QED
      BY <1>1, <1>2, <2>5, <3>2
  <2>8. SettledIn(t, u, now) = t[m].down
    BY <1>1, <2>5, <2>6, <2>7, SettledByLast
  <2> QED
    BY <2>4, <2>6, <2>8
<1>8. ASSUME u \notin Codes(all) PROVE SettledIn(t, u, now) = now /\ SettledIn(r, u, now) = now
  <2>1. \A k \in 1 .. Len(all) : all[k].code # u
    BY <1>1, <1>5, <1>8
  <2>2. u \notin Codes(t)
    <3>1. \A i \in 1 .. Len(t) : i + o \in 1 .. Len(all)
      BY <1>1, <1>2
    <3> QED
      BY <1>1, <1>2, <1>5, <2>1, <3>1
  <2>3. u \notin Codes(r)
    <3>1. \A i \in 1 .. Len(r) : i \in 1 .. Len(all)
      BY <1>1
    <3> QED
      BY <1>4, <1>5, <2>1, <3>1
  <2> QED
    BY <1>1, <2>2, <2>3, SettledByLast
<1> QED
  BY <1>6, <1>7, <1>8 DEF t, all

-----------------------------------------------------------------------------
(* Reports.                                                                 *)

LEMMA FunctionIsSeq ==
    ASSUME NEW T, NEW n \in Nat, NEW f \in [1 .. n -> T]
    PROVE  f \in Seq(T) /\ Len(f) = n
OBVIOUS

LEMMA OrderOf ==
    ASSUME NEW S, S \subseteq Letters, NEW s \in Orders(S)
    PROVE  /\ s \in Seq(Letters) /\ \A i \in 1 .. Len(s) : s[i] \in S
           /\ \A u \in S : \E i \in 1 .. Len(s) : s[i] = u
<1>1. IsFiniteSet(Letters)
  <2>1. IsFiniteSet({"c"}) /\ IsFiniteSet({"c"} \cup {"tab"})
    BY FS_EmptySet, FS_Singleton, FS_AddElement
  <2> QED
    BY <2>1 DEF Letters
<1>2. Cardinality(S) \in Nat
  BY <1>1, FS_Subset, FS_CardinalityType
<1>3. /\ s \in [1 .. Cardinality(S) -> S]
      /\ \A u \in S : \E i \in DOMAIN s : s[i] = u
  BY DEF Orders
<1> HIDE DEF Letters
<1>4. s \in Seq(Letters) /\ Len(s) = Cardinality(S)
  BY <1>2, <1>3
<1> QED
  BY <1>3, <1>4

(* The events of keys pressed, or of keys let go. *)
LEMMA KeyEvents ==
    ASSUME NEW g \in Seq(Letters), NEW b \in BOOLEAN
    PROVE  LET G == [i \in DOMAIN g |-> InputEvent(g[i], b)]
           IN  /\ G \in Seq(Events) /\ Len(G) = Len(g)
               /\ \A i \in 1 .. Len(G) : G[i].code = g[i] /\ G[i].code \in Letters /\ G[i].down = b
<1> DEFINE G == [i \in DOMAIN g |-> InputEvent(g[i], b)]
<1>1. Len(g) \in Nat /\ DOMAIN g = 1 .. Len(g) /\ \A i \in 1 .. Len(g) : g[i] \in Letters
  OBVIOUS
<1>2. \A i \in 1 .. Len(g) : G[i] \in Events /\ G[i].code = g[i] /\ G[i].down = b
  BY <1>1 DEF InputEvent, Events
<1>3. G \in [1 .. Len(g) -> Events]
  BY <1>1, <1>2
<1> HIDE DEF G, Letters
<1>4. G \in Seq(Events) /\ Len(G) = Len(g)
  BY <1>1, <1>3, FunctionIsSeq
<1>5. \A i \in 1 .. Len(G) : G[i].code = g[i] /\ G[i].code \in Letters /\ G[i].down = b
  BY <1>1, <1>2, <1>4
<1> QED
  BY <1>4, <1>5 DEF G

LEMMA ConcatEvents ==
    ASSUME NEW x \in Seq(Events), NEW y \in Seq(Events)
    PROVE  /\ x \o y \in Seq(Events) /\ Len(x \o y) = Len(x) + Len(y)
           /\ Len(x) \in Nat /\ Len(y) \in Nat
           /\ \A i \in 1 .. Len(x) : (x \o y)[i] = x[i]
           /\ \A i \in 1 .. Len(y) : (x \o y)[Len(x) + i] = y[i]
           /\ \A i \in 1 .. Len(x) + Len(y) :
                \/ i \in 1 .. Len(x) /\ (x \o y)[i] = x[i]
                \/ i - Len(x) \in 1 .. Len(y) /\ (x \o y)[i] = y[i - Len(x)]
OBVIOUS

(* The events es of a poll whose last report was prev: of the report now, if it *)
(* is new, and of the repeated key of r.                                        *)
FromReport(prev, now, s, gone, r, new, es) ==
    /\ s \in Orders(Letters \cap (now \ prev)) /\ gone \in Orders(Letters \cap (prev \ now))
    /\ r.key \in Letters \cup {NoUsage} /\ new \in BOOLEAN
    /\ es = Repeat(r, IF new THEN ReportEvents(prev, now, gone, s) ELSE <<>>)

Tells(prev, now, new, es, any) ==
    /\ es \in Seq(Events)
    /\ "ctrl" \in Codes(es) => new /\ (SettledIn(es, "ctrl", any) <=> "ctrl" \in now)
    /\ "ctrl" \notin Codes(es) /\ new => ("ctrl" \in prev <=> "ctrl" \in now)
    /\ "tab" \in Codes(es) /\ SettledIn(es, "tab", any) => new /\ "tab" \in now
    /\ "tab" \notin Codes(es) /\ new /\ "tab" \in prev => "tab" \in now

(* The events of a report and of a repeated key say of Ctrl what the report    *)
(* says, and of the game button nothing that the report does not.              *)
LEMMA EventsTell ==
    ASSUME NEW prev, NEW now, NEW s, NEW gone, NEW r, NEW new, NEW any, NEW es,
           FromReport(prev, now, s, gone, r, new, es)
    PROVE  Tells(prev, now, new, es, any)
<1>a. /\ s \in Orders(Letters \cap (now \ prev)) /\ gone \in Orders(Letters \cap (prev \ now))
      /\ r.key \in Letters \cup {NoUsage} /\ new \in BOOLEAN
      /\ es = Repeat(r, IF new THEN ReportEvents(prev, now, gone, s) ELSE <<>>)
  BY DEF FromReport
<1> USE <1>a
<1> SUFFICES /\ es \in Seq(Events)
             /\ "ctrl" \in Codes(es) => new /\ (SettledIn(es, "ctrl", any) <=> "ctrl" \in now)
             /\ "ctrl" \notin Codes(es) /\ new => ("ctrl" \in prev <=> "ctrl" \in now)
             /\ "tab" \in Codes(es) /\ SettledIn(es, "tab", any) => new /\ "tab" \in now
             /\ "tab" \notin Codes(es) /\ new /\ "tab" \in prev => "tab" \in now
  BY DEF Tells
<1> DEFINE A == IF ("ctrl" \in prev) # ("ctrl" \in now)
                THEN <<InputEvent("ctrl", "ctrl" \in now)>> ELSE <<>>
           G == [i \in DOMAIN gone |-> InputEvent(gone[i], FALSE)]
           S == [i \in DOMAIN s |-> InputEvent(s[i], TRUE)]
           R == IF r.key # NoUsage /\ r.due
                THEN <<InputEvent(r.key, TRUE), InputEvent(r.key, FALSE)>> ELSE <<>>
           B == IF new THEN (A \o G) \o S ELSE <<>>
<1>1. /\ s \in Seq(Letters) /\ \A i \in 1 .. Len(s) : s[i] \in now
      /\ gone \in Seq(Letters)
      /\ "tab" \in prev /\ "tab" \notin now => \E i \in 1 .. Len(gone) : gone[i] = "tab"
  <2>1. /\ s \in Seq(Letters) /\ \A i \in 1 .. Len(s) : s[i] \in Letters \cap (now \ prev)
    BY OrderOf
  <2>2. /\ gone \in Seq(Letters)
        /\ \A u \in Letters \cap (prev \ now) : \E i \in 1 .. Len(gone) : gone[i] = u
    BY OrderOf
  <2>3. "tab" \in Letters
    BY DEF Letters
  <2> HIDE DEF Letters
  <2> QED
    BY <2>1, <2>2, <2>3
<1>2. \A u \in Letters \cup {"ctrl"}, b \in BOOLEAN :
         InputEvent(u, b) \in Events /\ InputEvent(u, b).code = u /\ InputEvent(u, b).down = b
  BY DEF InputEvent, Events
<1>3. /\ A \in Seq(Events) /\ \A i \in 1 .. Len(A) : A[i].code = "ctrl" /\ (A[i].down <=> "ctrl" \in now)
      /\ Len(A) <= 1 /\ (Len(A) = 0 <=> ("ctrl" \in prev <=> "ctrl" \in now))
  <2> DEFINE b == "ctrl" \in now
  <2>1. InputEvent("ctrl", b) \in Events /\ InputEvent("ctrl", b).code = "ctrl" /\ (InputEvent("ctrl", b).down <=> b)
    <3>1. b \in BOOLEAN
      OBVIOUS
    <3> HIDE DEF b
    <3> QED
      BY <1>2, <3>1
  <2>2. CASE ("ctrl" \in prev) # ("ctrl" \in now)
    <3> DEFINE e == InputEvent("ctrl", b)
    <3>1. A = <<e>>
      BY <2>2
    <3>2. e \in Events /\ e.code = "ctrl" /\ (e.down <=> "ctrl" \in now)
      BY <2>1
    <3> HIDE DEF A, e
    <3>3. A \in Seq(Events) /\ Len(A) = 1 /\ A[1] = e
      BY <3>1, <3>2
    <3> QED
      BY <2>2, <3>2, <3>3
  <2>3. CASE ~ (("ctrl" \in prev) # ("ctrl" \in now))
    <3>1. A = <<>>
      BY <2>3
    <3> HIDE DEF A
    <3> QED
      BY <2>3, <3>1
  <2> QED
    BY <2>2, <2>3
<1>4. /\ G \in Seq(Events) /\ Len(G) = Len(gone)
      /\ \A i \in 1 .. Len(G) : G[i].code = gone[i] /\ G[i].code \in Letters /\ G[i].down = FALSE
  BY <1>1, KeyEvents
<1>5. /\ S \in Seq(Events) /\ Len(S) = Len(s)
      /\ \A i \in 1 .. Len(S) : S[i].code \in now /\ S[i].code \in Letters
  <2>1. /\ S \in Seq(Events) /\ Len(S) = Len(s)
        /\ \A i \in 1 .. Len(S) : S[i].code = s[i] /\ S[i].code \in Letters
    BY <1>1, KeyEvents
  <2> HIDE DEF S
  <2> QED
    BY <1>1, <2>1
<1>6. /\ R \in Seq(Events)
      /\ Len(R) = 0 \/ (/\ Len(R) = 2 /\ R[1].code = R[2].code
                        /\ R[2].code \in Letters /\ R[2].down = FALSE)
  <2>1. CASE r.key # NoUsage /\ r.due
    <3> DEFINE d == InputEvent(r.key, TRUE)
               e == InputEvent(r.key, FALSE)
    <3>1. R = <<d, e>> /\ r.key \in Letters
      BY <2>1
    <3>2. d \in Events /\ e \in Events /\ d.code = r.key /\ e.code = r.key /\ e.down = FALSE
      BY <1>2, <3>1
    <3> HIDE DEF R, Letters, d, e
    <3>3. R \in Seq(Events) /\ Len(R) = 2 /\ R[1] = d /\ R[2] = e
      BY <3>1, <3>2
    <3> QED
      BY <3>1, <3>2, <3>3
  <2>2. CASE ~ (r.key # NoUsage /\ r.due)
    <3>1. R = <<>>
      BY <2>2
    <3> HIDE DEF R
    <3> QED
      BY <3>1
  <2> QED
    BY <2>1, <2>2
<1>7. es = B \o R
  <2>1. ReportEvents(prev, now, gone, s) = (A \o G) \o S
    BY DEF ReportEvents
  <2>2. B = IF new THEN ReportEvents(prev, now, gone, s) ELSE <<>>
    BY <2>1
  <2>3. B \in Seq(Events)
    BY <1>3, <1>4, <1>5, ConcatEvents
  <2> HIDE DEF A, G, S, B
  <2>4. es = IF r.key # NoUsage /\ r.due
             THEN B \o <<InputEvent(r.key, TRUE), InputEvent(r.key, FALSE)>> ELSE B
    BY <2>2 DEF Repeat
  <2>5. B \o <<>> = B
    BY <2>3
  <2> QED
    BY <2>4, <2>5
<1>8. /\ B \in Seq(Events)
      /\ \A i \in 1 .. Len(B) : B[i].code = "ctrl" => new /\ (B[i].down <=> "ctrl" \in now)
      /\ new /\ ~("ctrl" \in prev <=> "ctrl" \in now) => \E i \in 1 .. Len(B) : B[i].code = "ctrl"
      /\ \A i \in 1 .. Len(B) : B[i].code = "tab" /\ B[i].down => new /\ "tab" \in now
      /\ new /\ "tab" \in prev /\ "tab" \notin now => \E i \in 1 .. Len(B) : B[i].code = "tab"
  <2>1. CASE ~new
    BY <2>1
  <2>2. CASE new
    <3> DEFINE X == A \o G
    <3>1. B = X \o S
      BY <2>2
    <3> HIDE DEF A, G, S, B
    <3>2. /\ X \in Seq(Events) /\ Len(X) = Len(A) + Len(G) /\ Len(A) \in Nat /\ Len(G) \in Nat
          /\ \A i \in 1 .. Len(A) : X[i] = A[i]
          /\ \A i \in 1 .. Len(G) : X[Len(A) + i] = G[i]
          /\ \A i \in 1 .. Len(A) + Len(G) :
                \/ i \in 1 .. Len(A) /\ X[i] = A[i]
                \/ i - Len(A) \in 1 .. Len(G) /\ X[i] = G[i - Len(A)]
      BY <1>3, <1>4, ConcatEvents
    <3> HIDE DEF X
    <3>3. /\ B \in Seq(Events) /\ Len(B) = Len(X) + Len(S) /\ Len(S) \in Nat
          /\ \A i \in 1 .. Len(X) : B[i] = X[i]
          /\ \A i \in 1 .. Len(X) + Len(S) :
                \/ i \in 1 .. Len(X) /\ B[i] = X[i]
                \/ i - Len(X) \in 1 .. Len(S) /\ B[i] = S[i - Len(X)]
      BY <1>5, <3>1, <3>2, ConcatEvents
    <3>4. ASSUME NEW i \in 1 .. Len(B)
          PROVE  \/ B[i].code = "ctrl" /\ (B[i].down <=> "ctrl" \in now)
                 \/ B[i].code \in Letters /\ B[i].down = FALSE
                 \/ B[i].code \in Letters /\ B[i].code \in now
      <4>1. CASE i \in 1 .. Len(A) /\ B[i] = A[i]
        BY <1>3, <4>1
      <4>2. CASE i - Len(A) \in 1 .. Len(G) /\ B[i] = G[i - Len(A)]
        BY <1>4, <4>2
      <4>3. CASE i - Len(X) \in 1 .. Len(S) /\ B[i] = S[i - Len(X)]
        BY <1>5, <4>3
      <4> QED
        BY <3>2, <3>3, <4>1, <4>2, <4>3
    <3>5. "ctrl" \notin Letters
      BY DEF Letters
    <3>6. ASSUME ~("ctrl" \in prev <=> "ctrl" \in now) PROVE \E i \in 1 .. Len(B) : B[i].code = "ctrl"
      <4>1. 1 \in 1 .. Len(A) /\ 1 \in 1 .. Len(X) /\ 1 \in 1 .. Len(B)
        BY <1>3, <3>2, <3>3, <3>6
      <4>2. B[1].code = "ctrl"
        BY <1>3, <3>2, <3>3, <4>1
      <4> QED
        BY <4>1, <4>2
    <3>7. ASSUME "tab" \in prev, "tab" \notin now PROVE \E i \in 1 .. Len(B) : B[i].code = "tab"
      <4>1. PICK i \in 1 .. Len(G) : G[i].code = "tab"
        BY <1>1, <1>4, <3>7
      <4>2. Len(A) + i \in 1 .. Len(X) /\ Len(A) + i \in 1 .. Len(B)
        BY <3>2, <3>3
      <4>3. B[Len(A) + i].code = "tab"
        BY <3>2, <3>3, <4>1, <4>2
      <4> QED
        BY <4>2, <4>3
    <3> QED
      BY <2>2, <3>3, <3>4, <3>5, <3>6, <3>7 DEF Letters
  <2> QED
    BY <2>1, <2>2
<1> HIDE DEF A, G, S, R, B
<1>9. /\ es \in Seq(Events) /\ Len(es) = Len(B) + Len(R) /\ Len(B) \in Nat
      /\ \A i \in 1 .. Len(B) : es[i] = B[i]
      /\ \A i \in 1 .. Len(R) : es[Len(B) + i] = R[i]
      /\ \A i \in 1 .. Len(B) + Len(R) :
                \/ i \in 1 .. Len(B) /\ es[i] = B[i]
                \/ i - Len(B) \in 1 .. Len(R) /\ es[i] = R[i - Len(B)]
  <2>1. B \in Seq(Events) /\ R \in Seq(Events)
    BY <1>6, <1>8
  <2> DEFINE c == B \o R
  <2>2. /\ c \in Seq(Events) /\ Len(c) = Len(B) + Len(R) /\ Len(B) \in Nat
        /\ \A i \in 1 .. Len(B) : c[i] = B[i]
        /\ \A i \in 1 .. Len(R) : c[Len(B) + i] = R[i]
        /\ \A i \in 1 .. Len(B) + Len(R) :
                \/ i \in 1 .. Len(B) /\ c[i] = B[i]
                \/ i - Len(B) \in 1 .. Len(R) /\ c[i] = R[i - Len(B)]
    BY <2>1, ConcatEvents
  <2>3. es = c
    BY <1>7
  <2> HIDE DEF c
  <2> QED
    BY <2>2, <2>3
<1>10. \A u : u \in Codes(es) <=> \E i \in 1 .. Len(es) : es[i].code = u
  BY <1>9 DEF Codes
<1>11. ASSUME "ctrl" \in Codes(es)
       PROVE  new /\ (SettledIn(es, "ctrl", any) <=> "ctrl" \in now)
  <2>1. PICK j \in 1 .. Len(es) : es[j].code = "ctrl" /\ SettledIn(es, "ctrl", any) = es[j].down
    <3>1. es \in Seq(Events)
      BY <1>9
    <3> QED
      BY <1>11, <3>1, SettledByLast
  <2>2. "ctrl" \notin Letters
    BY DEF Letters
  <2>3. j \in 1 .. Len(B) /\ es[j] = B[j]
    <3>1. \A i \in 1 .. Len(R) : R[i].code \in Letters
      BY <1>6
    <3>2. CASE j - Len(B) \in 1 .. Len(R) /\ es[j] = R[j - Len(B)]
      BY <2>1, <2>2, <3>1, <3>2
    <3> QED
      BY <1>9, <2>1, <3>2
  <2> QED
    BY <1>8, <2>1, <2>3
<1>12. ASSUME "tab" \in Codes(es), SettledIn(es, "tab", any) PROVE new /\ "tab" \in now
  <2>1. PICK j \in 1 .. Len(es) : /\ es[j].code = "tab" /\ SettledIn(es, "tab", any) = es[j].down
                                  /\ \A k \in 1 .. Len(es) : es[k].code = "tab" => k <= j
    <3>1. es \in Seq(Events)
      BY <1>9
    <3> QED
      BY <1>12, <3>1, SettledByLast
  <2>2. CASE j \in 1 .. Len(B) /\ es[j] = B[j]
    BY <1>8, <1>12, <2>1, <2>2
  <2>3. CASE j - Len(B) \in 1 .. Len(R) /\ es[j] = R[j - Len(B)]
    <3>1. Len(R) = 2 /\ R[1].code = R[2].code /\ R[2].down = FALSE /\ j - Len(B) \in {1, 2}
      BY <1>6, <2>3
    <3>2. R[2].code = "tab"
      BY <2>1, <2>3, <3>1
    <3>3. Len(B) + 2 \in 1 .. Len(es) /\ es[Len(B) + 2] = R[2]
      BY <1>9, <3>1
    <3>4. Len(B) + 2 <= j
      BY <2>1, <3>2, <3>3
    <3>5. j - Len(B) = 2
      BY <1>9, <3>1, <3>4
    <3> QED
      BY <1>12, <2>1, <2>3, <3>1, <3>5
  <2> QED
    BY <1>9, <2>1, <2>2, <2>3
<1>13. \A u : (\E i \in 1 .. Len(B) : B[i].code = u) => u \in Codes(es)
  <2>1. \A i \in 1 .. Len(B) : i \in 1 .. Len(es)
    BY <1>6, <1>9
  <2> QED
    BY <1>9, <1>10, <2>1
<1> QED
  BY <1>8, <1>9, <1>11, <1>12, <1>13

-----------------------------------------------------------------------------
(* The decoder.                                                             *)

Known(st) ==
    /\ DOMAIN st = {"inp", "gui", "owed"}
    /\ DOMAIN st.inp = {"ctrl", "button", "shortcut"}
    /\ Queued(st.gui) /\ PendingKeys(st.gui) = st.owed

LEMMA DecodeOne ==
    ASSUME NEW st, Known(st), NEW e \in Events
    PROVE  /\ Known(Decode(st, e))
           /\ Decode(st, e).inp.ctrl = IF e.code = "ctrl" THEN e.down ELSE st.inp.ctrl
           /\ Decode(st, e).inp.button = IF e.code = "tab" THEN e.down ELSE st.inp.button
<1> DEFINE k == IF st.inp.ctrl /\ e.code = "c" THEN CtrlC ELSE e.code
           sent == SubmitTo(st, k)
           decoded == IF e.code = "ctrl" THEN [st EXCEPT !.inp.ctrl = e.down]
                    ELSE IF ~ e.down THEN st
                    ELSE IF st.inp.ctrl /\ e.code = "tab" THEN [st EXCEPT !.inp.shortcut = TRUE]
                    ELSE sent
<1>1. e.code \in Letters \cup {"ctrl"} /\ e.down \in BOOLEAN
  BY DEF Events
<1>2. ASSUME e.code # "ctrl" PROVE Known(sent) /\ sent.inp = st.inp
  <2>1. k \in KeyCodes
    BY <1>1, <1>2 DEF KeyCodes
  <2> HIDE DEF k
  <2>2. /\ DOMAIN sent = {"inp", "gui", "owed"} /\ sent.inp = st.inp
        /\ sent.gui = Submit(st.gui, k) /\ sent.owed = Owe(st.gui, st.owed, k)
    BY DEF SubmitTo, Known
  <2>3. Queued(sent.gui) /\ PendingKeys(sent.gui) = sent.owed
    BY <2>1, <2>2, SubmitKeeps DEF Known
  <2> QED
    BY <2>2, <2>3 DEF Known
<1> HIDE DEF sent
<1>3. /\ Known(decoded)
      /\ decoded.inp.ctrl = IF e.code = "ctrl" THEN e.down ELSE st.inp.ctrl
      /\ decoded.inp.button = st.inp.button
  <2>1. CASE e.code = "ctrl"
    <3>1. decoded = [st EXCEPT !.inp.ctrl = e.down]
      BY <2>1
    <3>2. /\ DOMAIN decoded = DOMAIN st /\ decoded.inp = [st.inp EXCEPT !.ctrl = e.down]
          /\ decoded.gui = st.gui /\ decoded.owed = st.owed
      BY <3>1 DEF Known
    <3> HIDE DEF decoded
    <3> QED
      BY <2>1, <3>2 DEF Known
  <2>2. CASE e.code # "ctrl" /\ ~ e.down
    BY <2>2
  <2>3. CASE e.code # "ctrl" /\ e.down /\ st.inp.ctrl /\ e.code = "tab"
    <3>1. decoded = [st EXCEPT !.inp.shortcut = TRUE]
      BY <2>3
    <3>2. /\ DOMAIN decoded = DOMAIN st /\ decoded.inp = [st.inp EXCEPT !.shortcut = TRUE]
          /\ decoded.gui = st.gui /\ decoded.owed = st.owed
      BY <3>1 DEF Known
    <3> HIDE DEF decoded
    <3> QED
      BY <2>3, <3>2 DEF Known
  <2>4. CASE e.code # "ctrl" /\ e.down /\ ~ (st.inp.ctrl /\ e.code = "tab")
    <3>1. decoded = sent
      BY <2>4
    <3> HIDE DEF decoded
    <3> QED
      BY <1>2, <2>4, <3>1
  <2> QED
    BY <2>1, <2>2, <2>3, <2>4
<1>4. Decode(st, e) = IF e.code = "tab" THEN [decoded EXCEPT !.inp.button = e.down] ELSE decoded
  BY DEF Decode, sent
<1> HIDE DEF decoded
<1>5. CASE e.code = "tab"
  <2> DEFINE d == Decode(st, e)
  <2>1. d = [decoded EXCEPT !.inp.button = e.down]
    BY <1>4, <1>5
  <2>2. /\ DOMAIN d = DOMAIN decoded /\ d.inp = [decoded.inp EXCEPT !.button = e.down]
        /\ d.gui = decoded.gui /\ d.owed = decoded.owed
    BY <1>3, <2>1 DEF Known
  <2> HIDE DEF d
  <2>3. Known(d) /\ d.inp.ctrl = decoded.inp.ctrl /\ d.inp.button = e.down
    BY <1>3, <2>2 DEF Known
  <2> QED
    BY <1>3, <1>5, <2>3 DEF d
<1>6. CASE e.code # "tab"
  BY <1>3, <1>4, <1>6
<1> QED
  BY <1>5, <1>6

(* v is what the first i events of r say of u. *)
Believed(r, i, u, now, v) ==
    \/ \E j \in 1 .. i : /\ r[j].code = u /\ v = r[j].down
                         /\ \A k \in 1 .. i : r[k].code = u => k <= j
    \/ v = now /\ \A k \in 1 .. i : r[k].code # u

LEMMA BelievedNext ==
    ASSUME NEW r, NEW i \in Nat, i # 0, NEW u, NEW now, NEW v, Believed(r, i - 1, u, now, v),
           NEW w, w = IF r[i].code = u THEN r[i].down ELSE v
    PROVE  Believed(r, i, u, now, w)
<1>1. CASE r[i].code = u
  <2>1. i \in 1 .. i /\ \A k \in 1 .. i : k <= i
    OBVIOUS
  <2> QED
    BY <1>1, <2>1 DEF Believed
<1>2. CASE r[i].code # u
  <2>1. \A k \in 1 .. i : k = i \/ k \in 1 .. i - 1
    OBVIOUS
  <2>2. \A k \in 1 .. i - 1 : k \in 1 .. i
    OBVIOUS
  <2>3. CASE v = now /\ \A k \in 1 .. i - 1 : r[k].code # u
    BY <1>2, <2>1, <2>3 DEF Believed
  <2>4. CASE \E j \in 1 .. i - 1 : /\ r[j].code = u /\ v = r[j].down
                                   /\ \A k \in 1 .. i - 1 : r[k].code = u => k <= j
    <3>1. PICK j \in 1 .. i - 1 : /\ r[j].code = u /\ v = r[j].down
                                  /\ \A k \in 1 .. i - 1 : r[k].code = u => k <= j
      BY <2>4
    <3>2. j \in 1 .. i /\ \A k \in 1 .. i : r[k].code = u => k <= j
      BY <1>2, <2>1, <2>2, <3>1
    <3> QED
      BY <1>2, <3>1, <3>2 DEF Believed
  <2> QED
    BY <2>3, <2>4 DEF Believed
<1> QED
  BY <1>1, <1>2

(* virtio_input_poll decodes n events one after the other. *)
LEMMA DecodeMany ==
    ASSUME NEW st, Known(st), NEW r \in Seq(Events), NEW n \in 0 .. Len(r)
    PROVE  LET d == Decoded(st, r, n)
           IN  /\ Known(d)
               /\ Believed(r, n, "ctrl", st.inp.ctrl, d.inp.ctrl)
               /\ Believed(r, n, "tab", st.inp.button, d.inp.button)
<1>1. n \in Nat /\ Len(r) \in Nat
  OBVIOUS
<1>2. PICK f : Run(f, st, r, n) /\ Decoded(st, r, n) = f[n]
  BY <1>1, DecodedRun
<1> DEFINE Good(i) == /\ Known(f[i])
                      /\ Believed(r, i, "ctrl", st.inp.ctrl, f[i].inp.ctrl)
                      /\ Believed(r, i, "tab", st.inp.button, f[i].inp.button)
           T == {i \in 0 .. n : ~Good(i)}
<1>3. \A i \in 0 .. n : f[i] = IF i = 0 THEN st ELSE Decode(f[i - 1], r[i])
  BY <1>2 DEF Run
<1>4. T = {}
  <2>1. SUFFICES ASSUME T # {} PROVE FALSE
    OBVIOUS
  <2>2. T \subseteq Nat
    OBVIOUS
  <2>3. PICK x \in T : \A y \in T : x <= y
    <3> HIDE DEF T
    <3> QED
      BY <2>1, <2>2, LeastNat
  <2>4. x \in 0 .. n /\ ~Good(x)
    OBVIOUS
  <2>5. CASE x = 0
    <3>1. 0 \in 0 .. n
      BY <1>1
    <3>2. f[0] = st
      BY <1>3, <3>1
    <3>3. \A k \in 1 .. 0 : FALSE
      OBVIOUS
    <3>4. Known(f[0]) /\ f[0].inp = st.inp
      BY <3>2
    <3>5. /\ Believed(r, 0, "ctrl", st.inp.ctrl, f[0].inp.ctrl)
          /\ Believed(r, 0, "tab", st.inp.button, f[0].inp.button)
      BY <3>3, <3>4 DEF Believed
    <3> QED
      BY <2>4, <2>5, <3>4, <3>5
  <2>6. CASE x # 0
    <3>1. x - 1 \in 0 .. n /\ ~ (x <= x - 1) /\ x \in 1 .. Len(r) /\ x \in Nat
      BY <1>1, <2>4, <2>6
    <3>2. Good(x - 1)
      BY <2>3, <3>1
    <3> DEFINE g == f[x - 1]
               e == r[x]
    <3>3. f[x] = Decode(g, e) /\ e \in Events
      BY <1>3, <2>4, <2>6, <3>1
    <3>4. Known(g)
      BY <3>2
    <3>5. /\ Known(f[x])
          /\ f[x].inp.ctrl = IF e.code = "ctrl" THEN e.down ELSE g.inp.ctrl
          /\ f[x].inp.button = IF e.code = "tab" THEN e.down ELSE g.inp.button
      <4> HIDE DEF g, e
      <4> QED
        BY <3>3, <3>4, DecodeOne
    <3>6. Believed(r, x, "ctrl", st.inp.ctrl, f[x].inp.ctrl)
      BY <2>6, <3>1, <3>2, <3>5, BelievedNext
    <3>7. Believed(r, x, "tab", st.inp.button, f[x].inp.button)
      BY <2>6, <3>1, <3>2, <3>5, BelievedNext
    <3> QED
      BY <2>4, <3>5, <3>6, <3>7
  <2> QED
    BY <2>5, <2>6
<1>5. Good(n)
  BY <1>1, <1>4
<1> QED
  BY <1>2, <1>5

(* What is left of the ring settles to the same. *)
LEMMA RestSettles ==
    ASSUME NEW r \in Seq(Events), NEW n \in 0 .. Len(r), NEW u, NEW now, NEW v,
           Believed(r, n, u, now, v)
    PROVE  LET t == SubSeq(r, n + 1, Len(r))
           IN  t \in Seq(Events) /\ SettledIn(t, u, v) = SettledIn(r, u, now)
<1> DEFINE t == SubSeq(r, n + 1, Len(r))
<1>1. n \in Nat /\ Len(r) \in Nat /\ n <= Len(r)
  OBVIOUS
<1>2. t \in Seq(Events) /\ Len(t) = Len(r) - n /\ \A i \in 1 .. Len(t) : t[i] = r[i + n]
  <2>1. /\ t \in Seq(Events) /\ Len(t) = Len(r) - n
        /\ \A i \in 1 .. Len(r) - n : t[i] = r[n + 1 + i - 1]
    BY <1>1
  <2> HIDE DEF t
  <2> QED
    BY <1>1, <2>1
<1> HIDE DEF t
<1>3. \A x \in Seq(Events) : u \in Codes(x) <=> \E i \in 1 .. Len(x) : x[i].code = u
  BY DEF Codes
<1>4. \A i \in 1 .. Len(t) : i + n \in 1 .. Len(r) /\ t[i] = r[i + n]
  BY <1>1, <1>2
<1>5. \A k \in 1 .. Len(r) : k \in 1 .. n \/ (k - n \in 1 .. Len(t) /\ k - n + n = k /\ t[k - n] = r[k])
  BY <1>1, <1>2
<1>6. CASE u \in Codes(t)
  <2>1. PICK j \in 1 .. Len(t) : /\ t[j].code = u
                                 /\ \A k \in 1 .. Len(t) : t[k].code = u => k <= j
                                 /\ SettledIn(t, u, v) = t[j].down
    <3>1. t \in Seq(Events)
      BY <1>2
    <3>2. LastDecides(t, u, v)
      BY <3>1, LastIsDecisive
    <3> QED
      BY <1>6, <3>2 DEF LastDecides
  <2>2. j + n \in 1 .. Len(r) /\ r[j + n].code = u /\ r[j + n].down = t[j].down
    BY <1>4, <2>1
  <2>3. ASSUME NEW k \in 1 .. Len(r), r[k].code = u PROVE k <= j + n
    <3>1. CASE k \in 1 .. n
      BY <1>1, <1>2, <2>1, <3>1
    <3>2. CASE k - n \in 1 .. Len(t) /\ t[k - n] = r[k]
      <4>1. k - n <= j
        BY <2>1, <2>3, <3>2
      <4> QED
        BY <1>1, <1>2, <2>1, <3>2, <4>1
    <3> QED
      BY <1>5, <3>1, <3>2
  <2>4. SettledIn(r, u, now) = r[j + n].down
    BY <2>2, <2>3, SettledByLast
  <2> QED
    BY <1>2, <2>1, <2>2, <2>4 DEF t
<1>7. CASE u \notin Codes(t)
  <2>1. SettledIn(t, u, v) = v
    BY <1>2, <1>7, SettledByLast
  <2>2. \A k \in 1 .. Len(r) : r[k].code = u => k \in 1 .. n
    BY <1>2, <1>3, <1>5, <1>7
  <2>3. CASE v = now /\ \A k \in 1 .. n : r[k].code # u
    <3>1. u \notin Codes(r)
      BY <1>3, <2>2, <2>3
    <3>2. SettledIn(r, u, now) = now
      BY <3>1, SettledByLast
    <3> QED
      BY <1>2, <2>1, <2>3, <3>2 DEF t
  <2>4. CASE \E j \in 1 .. n : /\ r[j].code = u /\ v = r[j].down
                               /\ \A k \in 1 .. n : r[k].code = u => k <= j
    <3>1. PICK j \in 1 .. n : /\ r[j].code = u /\ v = r[j].down
                              /\ \A k \in 1 .. n : r[k].code = u => k <= j
      BY <2>4
    <3>2. j \in 1 .. Len(r) /\ \A k \in 1 .. Len(r) : r[k].code = u => k <= j
      BY <1>1, <2>2, <3>1
    <3>3. SettledIn(r, u, now) = r[j].down
      BY <3>1, <3>2, SettledByLast
    <3> QED
      BY <1>2, <2>1, <3>1, <3>3 DEF t
  <2> QED
    BY <2>3, <2>4 DEF Believed
<1> QED
  BY <1>6, <1>7

-----------------------------------------------------------------------------
(* One enumeration changes neither what the device is nor its keys.            *)

DeviceFields == {"plugged", "kind", "flaky", "pe", "addr", "cfg", "down", "told"}

SameDevice(d, e) ==
    /\ DOMAIN e = DeviceFields
    /\ e.plugged = d.plugged /\ e.kind = d.kind /\ e.down = d.down

KeepsDevice(d, s) == DOMAIN s = {"dev", "reset", "fail"} /\ SameDevice(d, s.dev)

LEMMA ResetKeeps ==
    ASSUME NEW d, NEW x, SameDevice(d, x), NEW e \in PortReset(x)
    PROVE  SameDevice(d, e)
<1> DEFINE back == [x EXCEPT !.addr = 0, !.cfg = FALSE, !.told = {}]
<1>1. PICK b : e = [back EXCEPT !.pe = b]
  BY DEF PortReset
<1>2. SameDevice(d, back)
  BY DEF SameDevice, DeviceFields
<1> HIDE DEF back
<1> QED
  BY <1>1, <1>2 DEF SameDevice, DeviceFields

LEMMA PortUpKeeps ==
    ASSUME NEW d, DOMAIN d = DeviceFields, NEW s \in PortUp(d)
    PROVE  KeepsDevice(d, s)
<1>1. SameDevice(d, d)
  BY DEF SameDevice
<1>2. CASE s = [dev |-> d, reset |-> FALSE, fail |-> 0]
  BY <1>1, <1>2 DEF KeepsDevice
<1>3. ASSUME NEW e \in PortReset(d), s = [dev |-> e, reset |-> TRUE, fail |-> IF e.pe THEN 0 ELSE 2]
      PROVE  KeepsDevice(d, s)
  <2>1. SameDevice(d, e)
    BY <1>1, ResetKeeps
  <2> QED
    BY <1>3, <2>1 DEF KeepsDevice
<1> QED
  BY <1>2, <1>3 DEF PortUp

LEMMA DescribedKeeps ==
    ASSUME NEW d, NEW s, KeepsDevice(d, s), NEW t \in Described(s)
    PROVE  KeepsDevice(d, t)
<1> DEFINE again == IF s.reset THEN {s}
                    ELSE {[s EXCEPT !.dev = e, !.reset = e.pe] : e \in PortReset(s.dev)}
<1>1. ASSUME NEW r \in again PROVE KeepsDevice(d, r)
  <2>1. CASE r = s
    BY <2>1
  <2>2. ASSUME NEW e \in PortReset(s.dev), r = [s EXCEPT !.dev = e, !.reset = e.pe]
        PROVE  KeepsDevice(d, r)
    <3>1. SameDevice(d, e)
      BY ResetKeeps DEF KeepsDevice
    <3> QED
      BY <2>2, <3>1 DEF KeepsDevice
  <2> QED
    BY <2>1, <2>2
<1>2. CASE t = s
  BY <1>2
<1>3. ASSUME NEW r \in again, NEW f, t = [r EXCEPT !.fail = f]
      PROVE  KeepsDevice(d, t)
  <2> HIDE DEF again
  <2>1. KeepsDevice(d, r)
    BY <1>1
  <2> QED
    BY <1>3, <2>1 DEF KeepsDevice
<1>4. t = s \/ \E r \in again : \E f : t = [r EXCEPT !.fail = f]
  <2>1. \/ t = s
        \/ t \in UNION {{[r EXCEPT !.fail = IF ok THEN 0 ELSE IF r.dev.pe THEN 2 ELSE 1] :
                            ok \in Transfer(r.dev, 0)} : r \in again}
    <3> HIDE DEF again
    <3> QED
      BY DEF Described, again
  <2> HIDE DEF again
  <2>2. CASE t \in UNION {{[r EXCEPT !.fail = IF ok THEN 0 ELSE IF r.dev.pe THEN 2 ELSE 1] :
                              ok \in Transfer(r.dev, 0)} : r \in again}
    <3>1. PICK r \in again : \E ok \in Transfer(r.dev, 0) :
                 t = [r EXCEPT !.fail = IF ok THEN 0 ELSE IF r.dev.pe THEN 2 ELSE 1]
      BY <2>2
    <3> QED
      BY <3>1
  <2> QED
    BY <2>1, <2>2
<1> HIDE DEF again
<1> QED
  BY <1>2, <1>3, <1>4

LEMMA AddressedKeeps ==
    ASSUME NEW d, NEW s, KeepsDevice(d, s), NEW t \in Addressed(s)
    PROVE  KeepsDevice(d, t)
<1>1. \/ t = s
      \/ \E a \in {0, 1} : t = [s EXCEPT !.dev.addr = a]
      \/ \E a \in {0, 1} : t = [s EXCEPT !.dev.addr = a, !.fail = 2]
  BY DEF Addressed
<1>2. ASSUME NEW a, t = [s EXCEPT !.dev.addr = a] \/ t = [s EXCEPT !.dev.addr = a, !.fail = 2]
      PROVE  KeepsDevice(d, t)
  <2>1. DOMAIN t = DOMAIN s /\ t.dev = [s.dev EXCEPT !.addr = a]
    BY <1>2 DEF KeepsDevice
  <2> QED
    BY <2>1 DEF KeepsDevice, SameDevice, DeviceFields
<1> QED
  BY <1>1, <1>2

LEMMA ConfiguredKeeps ==
    ASSUME NEW d, NEW s, KeepsDevice(d, s), NEW t \in Configured(s)
    PROVE  KeepsDevice(d, t)
<1>1. \/ t = s
      \/ \E a : t = [s EXCEPT !.dev.cfg = a]
      \/ \E a : t = [s EXCEPT !.dev.cfg = a, !.fail = 2]
  <2>1. CASE s.fail # 0
    BY <2>1 DEF Configured
  <2>2. CASE s.fail = 0
    <3>1. PICK ok \in Transfer(s.dev, 1) :
             t \in IF ok THEN {[s EXCEPT !.dev.cfg = TRUE]}
                   ELSE {[s EXCEPT !.dev.cfg = c, !.fail = 2] : c \in BOOLEAN}
      BY <2>2 DEF Configured
    <3>2. CASE t = [s EXCEPT !.dev.cfg = TRUE]
      BY <3>2
    <3>3. CASE t \in {[s EXCEPT !.dev.cfg = c, !.fail = 2] : c \in BOOLEAN}
      <4>1. PICK c \in BOOLEAN : t = [s EXCEPT !.dev.cfg = c, !.fail = 2]
        BY <3>3, Zenon
      <4> QED
        BY <4>1, Zenon
    <3> QED
      BY <3>1, <3>2, <3>3
  <2> QED
    BY <2>1, <2>2
<1>2. ASSUME NEW a, t = [s EXCEPT !.dev.cfg = a] \/ t = [s EXCEPT !.dev.cfg = a, !.fail = 2]
      PROVE  KeepsDevice(d, t)
  <2>1. DOMAIN t = DOMAIN s /\ t.dev = [s.dev EXCEPT !.cfg = a]
    BY <1>2 DEF KeepsDevice
  <2> QED
    BY <2>1 DEF KeepsDevice, SameDevice, DeviceFields
<1> QED
  BY <1>1, <1>2

LEMMA EnumerationKeeps ==
    ASSUME NEW d, DOMAIN d = DeviceFields, NEW t \in Enumerations(d)
    PROVE  SameDevice(d, t.dev)
<1>1. PICK a \in PortUp(d) : \E b \in Described(a) : \E c \in Addressed(b) : t \in Configured(c)
  BY DEF Enumerations
<1>2. PICK b \in Described(a) : \E c \in Addressed(b) : t \in Configured(c)
  BY <1>1
<1>3. PICK c \in Addressed(b) : t \in Configured(c)
  BY <1>2
<1>4. KeepsDevice(d, a)
  BY PortUpKeeps
<1>5. KeepsDevice(d, b)
  BY <1>4, DescribedKeeps
<1>6. KeepsDevice(d, c)
  BY <1>5, AddressedKeeps
<1> QED
  BY <1>3, <1>6, ConfiguredKeeps DEF KeepsDevice

-----------------------------------------------------------------------------
(* What is held, as a relation between the ring, the decoder and the report.   *)

HeldOf(c, r, i, prev, key) ==
    /\ "ctrl" \notin c => (SettledIn(r, "ctrl", i.ctrl) <=> "ctrl" \in prev)
    /\ "tab" \notin c /\ SettledIn(r, "tab", i.button) => "tab" \in prev
    /\ key # NoUsage => key \in prev \/ "repeat" \in c

LEMMA HeldAsRelation ==
    /\ HeldIsReal <=> HeldOf(cut, ring, inp, hid.prev, rep.key)
    /\ HeldIsReal' <=> HeldOf(cut', ring', inp', hid'.prev, rep'.key)
BY DEF HeldIsReal, HeldOf, Settled, SettledIn

LEMMA CodesOfConcat ==
    ASSUME NEW x \in Seq(Events), NEW y \in Seq(Events)
    PROVE  Codes(y) \subseteq Codes(x \o y) /\ Codes(y) \subseteq Letters \cup {"ctrl"}
<1>1. /\ Len(x \o y) = Len(x) + Len(y) /\ Len(x) \in Nat /\ Len(y) \in Nat
      /\ x \o y \in Seq(Events) /\ \A i \in 1 .. Len(y) : (x \o y)[Len(x) + i] = y[i]
  BY ConcatEvents
<1>2. ASSUME NEW i \in 1 .. Len(y)
      PROVE  y[i].code \in Codes(x \o y) /\ y[i].code \in Letters \cup {"ctrl"}
  <2>1. Len(x) + i \in 1 .. Len(x \o y) /\ (x \o y)[Len(x) + i] = y[i]
    BY <1>1
  <2>2. DOMAIN (x \o y) = 1 .. Len(x \o y)
    BY <1>1
  <2>3. y[i] \in Events
    OBVIOUS
  <2> QED
    BY <2>1, <2>2, <2>3 DEF Codes, Events
<1>3. DOMAIN y = 1 .. Len(y)
  OBVIOUS
<1> QED
  BY <1>2, <1>3 DEF Codes

(* The events of a poll leave what is held real. *)
LEMMA PollKeepsHeld ==
    ASSUME ring \in Seq(Events), HeldOf(cut, ring, inp, hid.prev, rep.key),
           NEW now,
           NEW s \in Orders(Letters \cap (now \ hid.prev)),
           NEW gone \in Orders(Letters \cap (hid.prev \ now)),
           NEW new \in BOOLEAN,
           NEW r, r = (IF new THEN RepeatAfter(now, s) ELSE rep),
           rep.key \in Letters \cup {NoUsage},
           NEW es, es = Repeat(r, IF new THEN ReportEvents(hid.prev, now, gone, s) ELSE <<>>),
           NEW c, c = CutBy(es) \ (IF new THEN {"repeat"} ELSE {})
    PROVE  /\ EnqueueAll(ring, es) \in Seq(Events)
           /\ r.key \in Letters \cup {NoUsage}
           /\ HeldOf(c, EnqueueAll(ring, es), inp, IF new THEN now ELSE hid.prev, r.key)
<1> DEFINE t == EnqueueAll(ring, es)
           all == ring \o es
           p == IF new THEN now ELSE hid.prev
<1>1. /\ r.key \in Letters \cup {NoUsage}
      /\ new /\ r.key # NoUsage => r.key \in now
      /\ ~new => r.key = rep.key
  <2>1. /\ s \in Seq(Letters) /\ \A i \in 1 .. Len(s) : s[i] \in Letters \cap (now \ hid.prev)
    BY OrderOf
  <2>2. CASE new /\ s # <<>>
    <3>1. Len(s) \in 1 .. Len(s)
      BY <2>1, <2>2
    <3>2. r.key = s[Len(s)]
      BY <2>2 DEF RepeatAfter
    <3> QED
      BY <2>1, <2>2, <3>1, <3>2
  <2>3. CASE new /\ s = <<>>
    BY <2>3 DEF RepeatAfter
  <2>4. CASE ~new
    BY <2>4
  <2> QED
    BY <2>2, <2>3, <2>4
<1>2. /\ es \in Seq(Events)
      /\ "ctrl" \in Codes(es) => new /\ (SettledIn(es, "ctrl", 0) <=> "ctrl" \in now)
      /\ "ctrl" \notin Codes(es) /\ new => ("ctrl" \in hid.prev <=> "ctrl" \in now)
      /\ "tab" \in Codes(es) /\ SettledIn(es, "tab", 0) => new /\ "tab" \in now
      /\ "tab" \notin Codes(es) /\ new /\ "tab" \in hid.prev => "tab" \in now
  <2>1. FromReport(hid.prev, now, s, gone, r, new, es)
    BY <1>1 DEF FromReport
  <2>2. Tells(hid.prev, now, new, es, 0)
    BY <2>1, EventsTell
  <2> QED
    BY <2>2 DEF Tells
<1>3. t \in Seq(Events)
  BY <1>2, EnqueueShape
<1>4. Codes(es) \subseteq Codes(all) /\ Codes(es) \subseteq Letters \cup {"ctrl"}
  BY <1>2, CodesOfConcat
<1>5. \A u : u # "repeat" /\ u \notin c =>
          /\ u \in Codes(es) => u \in Codes(t)
          /\ u \notin Codes(es) => u \notin cut
          /\ u \in Codes(all) => u \in Codes(t)
  <2> HIDE DEF t
  <2> QED
    BY <1>4 DEF CutBy, t
<1>6. ASSUME NEW u, NEW b
      PROVE  /\ u \in Codes(es) /\ u \in Codes(t) => SettledIn(t, u, b) = SettledIn(es, u, 0)
             /\ u \notin Codes(es) /\ u \in Codes(t) => SettledIn(t, u, b) = SettledIn(ring, u, b)
             /\ u \notin Codes(all) => SettledIn(t, u, b) = b /\ SettledIn(ring, u, b) = b
  BY <1>2, EnqueueSettles
<1>7. "ctrl" \notin c => (SettledIn(t, "ctrl", inp.ctrl) <=> "ctrl" \in p)
  <2> HIDE DEF t, all
  <2>1. SUFFICES ASSUME "ctrl" \notin c PROVE SettledIn(t, "ctrl", inp.ctrl) <=> "ctrl" \in p
    OBVIOUS
  <2>2. CASE "ctrl" \in Codes(es)
    <3>1. SettledIn(t, "ctrl", inp.ctrl) = SettledIn(es, "ctrl", 0)
      BY <1>5, <1>6, <2>1, <2>2
    <3> QED
      BY <1>2, <2>2, <3>1
  <2>3. CASE "ctrl" \notin Codes(es)
    <3>1. SettledIn(t, "ctrl", inp.ctrl) = SettledIn(ring, "ctrl", inp.ctrl)
      BY <1>5, <1>6, <2>1, <2>3
    <3>2. SettledIn(ring, "ctrl", inp.ctrl) <=> "ctrl" \in hid.prev
      BY <1>5, <2>1, <2>3 DEF HeldOf
    <3> QED
      BY <1>2, <2>3, <3>1, <3>2
  <2> QED
    BY <2>2, <2>3
<1>8. "tab" \notin c /\ SettledIn(t, "tab", inp.button) => "tab" \in p
  <2> HIDE DEF t, all
  <2>1. SUFFICES ASSUME "tab" \notin c, SettledIn(t, "tab", inp.button) PROVE "tab" \in p
    OBVIOUS
  <2>2. CASE "tab" \in Codes(es)
    <3>1. SettledIn(t, "tab", inp.button) = SettledIn(es, "tab", 0)
      BY <1>5, <1>6, <2>1, <2>2
    <3> QED
      BY <1>2, <2>1, <2>2, <3>1
  <2>3. CASE "tab" \notin Codes(es)
    <3>1. SettledIn(t, "tab", inp.button) = SettledIn(ring, "tab", inp.button)
      BY <1>5, <1>6, <2>1, <2>3
    <3>2. "tab" \in hid.prev
      BY <1>5, <2>1, <2>3, <3>1 DEF HeldOf
    <3> QED
      BY <1>2, <2>3, <3>2
  <2> QED
    BY <2>2, <2>3
<1>9. r.key # NoUsage => r.key \in p \/ "repeat" \in c
  <2>1. CASE new
    BY <1>1, <2>1
  <2>2. CASE ~new
    <3>1. "repeat" \notin Codes(es)
      BY <1>4 DEF Letters
    <3>2. "repeat" \in cut => "repeat" \in c
      BY <2>2, <3>1 DEF CutBy
    <3> QED
      BY <1>1, <2>2, <3>2 DEF HeldOf
  <2> QED
    BY <2>1, <2>2
<1> QED
  BY <1>1, <1>3, <1>7, <1>8, <1>9 DEF HeldOf

-----------------------------------------------------------------------------
(* The invariant.                                                              *)

HidShapes ==
    /\ ring \in Seq(Events)
    /\ DOMAIN inp = {"ctrl", "button", "shortcut"}
    /\ DOMAIN hid = {"ready", "kbd", "mouse", "fail", "pending", "halts", "prev"}
    /\ DOMAIN rep = {"key", "due"} /\ rep.key \in Letters \cup {NoUsage}
    /\ DOMAIN dev = DeviceFields

(* A driver that polls a mouse has seen no key of a keyboard. *)
MousePolled ==
    /\ dev.plugged => dev.kind \in Kinds
    /\ dev.kind = "mouse" => dev.down \subseteq Pointers
    /\ hid.ready /\ ~ hid.kbd =>
           /\ hid.prev \subseteq Pointers
           /\ dev.plugged /\ dev.addr = 1 => dev.kind = "mouse"

HidInv == HidShapes /\ MousePolled /\ Queued(gui) /\ KeysInOrder /\ HeldIsReal

LEMMA InitHidInv == HidInit => HidInv
<1> SUFFICES ASSUME HidInit PROVE HidInv
  OBVIOUS
<1>1. /\ ring = <<>> /\ inp = [ctrl |-> FALSE, button |-> FALSE, shortcut |-> FALSE]
      /\ gui = NoKeys /\ owed = <<>> /\ cut = {} /\ hid = Zeroed(0)
      /\ rep = [key |-> NoUsage, due |-> FALSE]
  BY DEF HidInit
<1>2. /\ DOMAIN dev = DeviceFields /\ dev.down = {} /\ (dev.plugged => dev.kind \in Kinds)
  <2>1. CASE dev = Unplugged
    BY <2>1 DEF Unplugged, DeviceFields
  <2>2. dev \in {Unplugged} \cup {AsLoaded(kind, a) : kind \in Kinds, a \in {0, 1}}
    BY DEF HidInit
  <2>3. ASSUME NEW kind \in Kinds, NEW a \in {0, 1}, dev = AsLoaded(kind, a)
        PROVE  DOMAIN dev = DeviceFields /\ dev.down = {} /\ dev.kind \in Kinds
    <3> DEFINE c == (a = 1)
    <3>1. dev = [Fresh(kind) EXCEPT !.pe = TRUE, !.addr = a, !.cfg = c]
      BY <2>3 DEF AsLoaded
    <3> HIDE DEF c
    <3> QED
      BY <3>1 DEF Fresh, Unplugged, DeviceFields
  <2>4. CASE \E kind \in Kinds, a \in {0, 1} : dev = AsLoaded(kind, a)
    BY <2>3, <2>4
  <2> QED
    BY <2>1, <2>2, <2>4
<1>3. HidShapes
  BY <1>1, <1>2 DEF HidShapes, Zeroed
<1>4. MousePolled
  BY <1>1, <1>2 DEF MousePolled, Zeroed
<1>5. Queued(gui) /\ PendingKeys(gui) = <<>>
  BY <1>1, KeyQueueAssumption DEF Queued, NoKeys, PendingKeys
<1>6. HeldOf(cut, ring, inp, hid.prev, rep.key)
  <2>1. DOMAIN ring = {}
    BY <1>1
  <2>2. SettledIn(ring, "ctrl", inp.ctrl) = FALSE /\ SettledIn(ring, "tab", inp.button) = FALSE
    BY <1>1, <2>1 DEF SettledIn
  <2> QED
    BY <1>1, <2>2 DEF HeldOf, Zeroed
<1> QED
  BY <1>1, <1>3, <1>4, <1>5, <1>6, HeldAsRelation DEF HidInv, KeysInOrder

(* A step that leaves the ring, the decoder, the keys and the last report alone. *)
LEMMA Undisturbed ==
    ASSUME HidInv, HidShapes', MousePolled', UNCHANGED <<ring, gui, owed, cut>>,
           inp'.ctrl = inp.ctrl, inp'.button = inp.button,
           hid'.prev = hid.prev, rep'.key = rep.key
    PROVE  HidInv'
<1>1. HeldOf(cut', ring', inp', hid'.prev, rep'.key)
  BY HeldAsRelation DEF HidInv, HeldOf
<1>2. Queued(gui') /\ KeysInOrder'
  BY DEF HidInv, KeysInOrder
<1> QED
  BY <1>1, <1>2, HeldAsRelation DEF HidInv

(* The driver forgets the last report: its keys are cut. *)
LEMMA Forgotten ==
    ASSUME HidInv, HidShapes', MousePolled', UNCHANGED <<ring, gui, owed, inp, rep>>,
           hid'.prev = {}, cut' = cut \cup hid.prev \cup {"repeat"}
    PROVE  HidInv'
<1>1. HeldOf(cut', ring', inp', hid'.prev, rep'.key)
  BY HeldAsRelation DEF HidInv, HeldOf
<1>2. Queued(gui') /\ KeysInOrder'
  BY DEF HidInv, KeysInOrder
<1> QED
  BY <1>1, <1>2, HeldAsRelation DEF HidInv

-----------------------------------------------------------------------------
(* The poll task.                                                              *)

LEMMA PollGoneKeeps == ASSUME HidInv, PollGone PROVE HidInv'
<1>1. /\ UNCHANGED <<dev, rep, ring, inp, gui, owed>> /\ ~ dev.plugged
      /\ \/ UNCHANGED <<hid, cut>>
         \/ hid' = Zeroed(1) /\ cut' = cut \cup hid.prev \cup {"repeat"}
  BY DEF PollGone, Rest
<1>2. HidShapes'
  BY <1>1 DEF HidInv, HidShapes, Zeroed
<1>3. MousePolled'
  BY <1>1 DEF HidInv, MousePolled, Zeroed
<1>4. CASE UNCHANGED <<hid, cut>>
  BY <1>1, <1>2, <1>3, <1>4, Undisturbed
<1>5. CASE hid' = Zeroed(1) /\ cut' = cut \cup hid.prev \cup {"repeat"}
  <2>1. hid'.prev = {}
    BY <1>5 DEF Zeroed
  <2> QED
    BY <1>1, <1>2, <1>3, <1>5, <2>1, Forgotten
<1> QED
  BY <1>1, <1>4, <1>5

LEMMA PollConnectedKeeps == ASSUME HidInv, PollConnected PROVE HidInv'
<1>1. /\ UNCHANGED <<dev, rep, ring, inp, gui, owed, cut>>
      /\ hid' = [hid EXCEPT !.ready = FALSE, !.kbd = FALSE, !.mouse = FALSE, !.fail = 0]
  BY DEF PollConnected, Rest
<1>2. DOMAIN hid' = DOMAIN hid /\ hid'.prev = hid.prev /\ hid'.ready = FALSE
  BY <1>1 DEF HidInv, HidShapes
<1>3. HidShapes'
  BY <1>1, <1>2 DEF HidInv, HidShapes
<1>4. MousePolled'
  BY <1>1, <1>2 DEF HidInv, MousePolled
<1> QED
  BY <1>1, <1>2, <1>3, <1>4, Undisturbed

LEMMA PollEnumeratesKeeps == ASSUME HidInv, PollEnumerates PROVE HidInv'
<1>1. PICK r \in Enumerations(dev) : dev' = r.dev /\ hid' = Opened(dev.kind, r.fail)
  BY DEF PollEnumerates
<1>2. /\ UNCHANGED <<rep, ring, inp, gui, owed>> /\ dev.plugged
      /\ cut' = cut \cup hid.prev \cup {"repeat"}
  BY DEF PollEnumerates, Rest
<1>3. SameDevice(dev, dev')
  BY <1>1, EnumerationKeeps DEF HidInv, HidShapes
<1>4. /\ DOMAIN hid' = {"ready", "kbd", "mouse", "fail", "pending", "halts", "prev"}
      /\ hid'.prev = {} /\ (hid'.ready => (hid'.kbd <=> dev.kind \in {"kbd", "combo"}))
  BY <1>1 DEF Opened, Zeroed
<1>5. HidShapes'
  BY <1>2, <1>3, <1>4 DEF HidInv, HidShapes, SameDevice
<1>6. MousePolled'
  <2>1. dev.kind \in {"kbd", "mouse", "combo"}
    BY <1>2, UsbHidAssumption DEF HidInv, MousePolled
  <2> QED
    BY <1>3, <1>4, <2>1 DEF HidInv, MousePolled, SameDevice
<1> QED
  BY <1>2, <1>4, <1>5, <1>6, Forgotten

(* One transfer of the interrupt endpoint. *)
LEMMA OneTransfer ==
    ASSUME DOMAIN hid = {"ready", "kbd", "mouse", "fail", "pending", "halts", "prev"},
           DOMAIN dev = DeviceFields,
           (~ hid.pending /\ Post) \/ Halted \/ StillActive \/ Reported
    PROVE  /\ DOMAIN hid' = DOMAIN hid /\ hid'.ready = hid.ready /\ hid'.kbd = hid.kbd
           /\ DOMAIN dev' = DOMAIN dev /\ dev'.plugged = dev.plugged /\ dev'.kind = dev.kind
           /\ dev'.down = dev.down /\ dev'.addr = dev.addr
           /\ hid'.prev = hid.prev \/ (hid.pending /\ Answering /\ hid'.prev = dev.down)
<1>1. CASE Post
  BY <1>1 DEF Post
<1>2. CASE Halted
  BY <1>2 DEF Halted
<1>3. CASE StillActive
  BY <1>3 DEF StillActive
<1>4. CASE Reported
  BY <1>4 DEF Reported, DeviceFields
<1> QED
  BY <1>1, <1>2, <1>3, <1>4

LEMMA PollKeyboardKeeps == ASSUME HidInv, PollKeyboard PROVE HidInv'
<1> DEFINE new == hid.pending /\ hid'.prev # hid.prev
<1>1. PICK s \in Orders(Letters \cap (dev.down \ hid.prev)),
           gone \in Orders(Letters \cap (hid.prev \ dev.down)) :
         LET r  == IF new THEN RepeatAfter(dev.down, s) ELSE rep
             es == Repeat(r, IF new THEN ReportEvents(hid.prev, dev.down, gone, s) ELSE <<>>)
         IN /\ (~ hid.pending /\ Post) \/ Halted \/ StillActive \/ Reported
            /\ rep' = [r EXCEPT !.due = FALSE]
            /\ ring' = EnqueueAll(ring, es)
            /\ cut' = CutBy(es) \ (IF new THEN {"repeat"} ELSE {})
  BY DEF PollKeyboard
<1>2. UNCHANGED <<inp, gui, owed>> /\ hid.ready /\ hid.kbd
  BY DEF PollKeyboard, Rest
<1>3. /\ DOMAIN hid' = DOMAIN hid /\ hid'.ready = hid.ready /\ hid'.kbd = hid.kbd
      /\ DOMAIN dev' = DOMAIN dev /\ dev'.plugged = dev.plugged /\ dev'.kind = dev.kind
      /\ dev'.down = dev.down /\ dev'.addr = dev.addr
      /\ hid'.prev = hid.prev \/ (hid.pending /\ Answering /\ hid'.prev = dev.down)
  BY <1>1, OneTransfer DEF HidInv, HidShapes
<1> DEFINE r == IF new THEN RepeatAfter(dev.down, s) ELSE rep
           es == Repeat(r, IF new THEN ReportEvents(hid.prev, dev.down, gone, s) ELSE <<>>)
<1>4. /\ rep' = [r EXCEPT !.due = FALSE] /\ ring' = EnqueueAll(ring, es)
      /\ cut' = CutBy(es) \ (IF new THEN {"repeat"} ELSE {})
  BY <1>1
<1>5. new \in BOOLEAN /\ hid'.prev = (IF new THEN dev.down ELSE hid.prev)
  BY <1>3
<1>6. DOMAIN r = {"key", "due"}
  BY DEF RepeatAfter, HidInv, HidShapes
<1>7. /\ ring \in Seq(Events) /\ HeldOf(cut, ring, inp, hid.prev, rep.key)
      /\ rep.key \in Letters \cup {NoUsage}
  BY HeldAsRelation DEF HidInv, HidShapes
<1> HIDE DEF new
<1>8. /\ EnqueueAll(ring, es) \in Seq(Events)
      /\ r.key \in Letters \cup {NoUsage}
      /\ HeldOf(cut', EnqueueAll(ring, es), inp, IF new THEN dev.down ELSE hid.prev, r.key)
  BY <1>4, <1>5, <1>7, PollKeepsHeld
<1> HIDE DEF r, es
<1>9. DOMAIN rep' = {"key", "due"} /\ rep'.key = r.key
  BY <1>4, <1>6
<1>10. HidShapes'
  BY <1>2, <1>3, <1>4, <1>8, <1>9 DEF HidInv, HidShapes
<1>11. MousePolled'
  BY <1>2, <1>3 DEF HidInv, MousePolled
<1>12. HeldIsReal'
  BY <1>2, <1>4, <1>5, <1>8, <1>9, HeldAsRelation
<1>13. Queued(gui') /\ KeysInOrder'
  BY <1>2 DEF HidInv, KeysInOrder
<1> QED
  BY <1>10, <1>11, <1>12, <1>13 DEF HidInv

LEMMA PollMouseKeeps == ASSUME HidInv, PollMouse PROVE HidInv'
<1>1. /\ UNCHANGED <<inp, gui, owed, rep, ring, cut>> /\ dev.plugged /\ hid.ready /\ ~ hid.kbd
      /\ (~ hid.pending /\ Post) \/ Halted \/ StillActive \/ Reported
  BY DEF PollMouse, Rest
<1>2. /\ DOMAIN hid' = DOMAIN hid /\ hid'.ready = hid.ready /\ hid'.kbd = hid.kbd
      /\ DOMAIN dev' = DOMAIN dev /\ dev'.plugged = dev.plugged /\ dev'.kind = dev.kind
      /\ dev'.down = dev.down /\ dev'.addr = dev.addr
      /\ hid'.prev = hid.prev \/ (hid.pending /\ Answering /\ hid'.prev = dev.down)
  BY <1>1, OneTransfer DEF HidInv, HidShapes
<1>3. hid.prev \subseteq Pointers /\ hid'.prev \subseteq Pointers
  BY <1>1, <1>2 DEF HidInv, MousePolled, Answering
<1>4. HidShapes'
  BY <1>1, <1>2 DEF HidInv, HidShapes
<1>5. MousePolled'
  BY <1>1, <1>2, <1>3 DEF HidInv, MousePolled
<1>6. HeldOf(cut', ring', inp', hid'.prev, rep'.key)
  <2>1. HeldOf(cut, ring, inp, hid.prev, rep.key) /\ rep.key \in Letters \cup {NoUsage}
    BY HeldAsRelation DEF HidInv, HidShapes
  <2>2. \A u \in Letters \cup {"ctrl"} : u \notin hid.prev /\ u \notin hid'.prev
    BY <1>3 DEF Pointers, Letters
  <2> QED
    BY <1>1, <2>1, <2>2 DEF HeldOf, Letters
<1>7. Queued(gui') /\ KeysInOrder'
  BY <1>1 DEF HidInv, KeysInOrder
<1> QED
  BY <1>4, <1>5, <1>6, <1>7, HeldAsRelation DEF HidInv

-----------------------------------------------------------------------------
(* The decoder, gui_task, the user and the clock.                              *)

LEMMA InputPollKeeps == ASSUME HidInv, InputPoll PROVE HidInv'
<1> DEFINE n == IF Len(ring) < EventBudget THEN Len(ring) ELSE EventBudget
           st == [inp |-> inp, gui |-> gui, owed |-> owed]
           d == Decoded(st, ring, n)
<1>1. /\ ring' = SubSeq(ring, n + 1, Len(ring))
      /\ inp' = d.inp /\ gui' = d.gui /\ owed' = d.owed
      /\ UNCHANGED <<dev, hid, rep, cut>>
  BY DEF InputPoll
<1>2. ring \in Seq(Events) /\ n \in 0 .. Len(ring)
  BY UsbHidAssumption DEF HidInv, HidShapes
<1>3. Known(st) /\ st.inp = inp
  BY DEF Known, HidInv, HidShapes, KeysInOrder
<1> HIDE DEF n, st
<1>4. /\ Known(d)
      /\ Believed(ring, n, "ctrl", inp.ctrl, d.inp.ctrl)
      /\ Believed(ring, n, "tab", inp.button, d.inp.button)
  BY <1>2, <1>3, DecodeMany
<1> HIDE DEF d
<1>5. /\ ring' \in Seq(Events)
      /\ SettledIn(ring', "ctrl", inp'.ctrl) = SettledIn(ring, "ctrl", inp.ctrl)
  BY <1>1, <1>2, <1>4, RestSettles
<1>6. SettledIn(ring', "tab", inp'.button) = SettledIn(ring, "tab", inp.button)
  BY <1>1, <1>2, <1>4, RestSettles
<1>7. HidShapes'
  BY <1>1, <1>4, <1>5 DEF HidInv, HidShapes, Known
<1>8. MousePolled'
  BY <1>1 DEF HidInv, MousePolled
<1>9. Queued(gui') /\ KeysInOrder'
  BY <1>1, <1>4 DEF Known, KeysInOrder
<1>10. HeldOf(cut', ring', inp', hid'.prev, rep'.key)
  <2>1. HeldOf(cut, ring, inp, hid.prev, rep.key)
    BY HeldAsRelation DEF HidInv
  <2> QED
    BY <1>1, <1>5, <1>6, <2>1 DEF HeldOf
<1> QED
  BY <1>7, <1>8, <1>9, <1>10, HeldAsRelation DEF HidInv

LEMMA GuiPullKeeps == ASSUME HidInv, GuiPull PROVE HidInv'
<1>1. /\ gui.key = NoKey /\ gui.queue # <<>>
      /\ gui' = [key |-> Head(gui.queue), queue |-> Tail(gui.queue)]
      /\ UNCHANGED <<dev, hid, rep, ring, inp, owed, cut>>
  BY DEF GuiPull, KeysWaiting, Pull
<1> DEFINE q == gui.queue
<1>2. q \in Seq(KeyCodes) /\ q # <<>> /\ Len(q) <= GUI_KEY_QUEUE_SIZE - 1 /\ Len(q) \in Nat
  BY <1>1 DEF HidInv, Queued
<1>3. owed = q
  <2>1. owed = <<>> \o q
    BY <1>1 DEF HidInv, KeysInOrder, PendingKeys
  <2> QED
    BY <1>2, <2>1
<1>4. gui'.key = Head(q) /\ gui'.queue = Tail(q) /\ DOMAIN gui' = {"key", "queue"}
  BY <1>1
<1> HIDE DEF q
<1>5. /\ Head(q) \in KeyCodes /\ Tail(q) \in Seq(KeyCodes) /\ Len(Tail(q)) = Len(q) - 1
      /\ <<Head(q)>> \o Tail(q) = q
  BY <1>2
<1>6. NoKey \notin KeyCodes
  BY DEF NoKey, KeyCodes, Letters, CtrlC
<1>7. Queued(gui')
  BY <1>2, <1>4, <1>5, KeyQueueAssumption DEF Queued
<1>8. KeysInOrder'
  BY <1>1, <1>3, <1>4, <1>5, <1>6 DEF KeysInOrder, PendingKeys
<1>9. HidShapes' /\ MousePolled'
  BY <1>1 DEF HidInv, HidShapes, MousePolled
<1>10. HeldIsReal'
  BY <1>1, HeldAsRelation DEF HidInv
<1> QED
  BY <1>7, <1>8, <1>9, <1>10 DEF HidInv

LEMMA GuiHandleKeeps == ASSUME HidInv, GuiHandle PROVE HidInv'
<1>1. /\ gui.key # NoKey /\ gui' = [gui EXCEPT !.key = NoKey]
      /\ owed' = IF owed # <<>> /\ Head(owed) = gui.key THEN Tail(owed) ELSE owed
      /\ UNCHANGED <<dev, hid, rep, ring, inp, cut>>
  BY DEF GuiHandle
<1> DEFINE q == gui.queue
           k == gui.key
<1>2. /\ q \in Seq(KeyCodes) /\ k \in KeyCodes /\ Len(q) <= GUI_KEY_QUEUE_SIZE - 1
      /\ DOMAIN gui = {"key", "queue"}
  BY <1>1 DEF HidInv, Queued
<1>3. owed = <<k>> \o q
  BY <1>1 DEF HidInv, KeysInOrder, PendingKeys
<1>4. gui'.key = NoKey /\ gui'.queue = q /\ DOMAIN gui' = {"key", "queue"}
  BY <1>1, <1>2
<1>5. owed' = IF owed # <<>> /\ Head(owed) = k THEN Tail(owed) ELSE owed
  BY <1>1
<1> HIDE DEF q, k
<1>6. owed # <<>> /\ Head(owed) = k /\ Tail(owed) = q /\ <<>> \o q = q
  BY <1>2, <1>3
<1>7. Queued(gui')
  BY <1>2, <1>4 DEF Queued
<1>8. KeysInOrder'
  BY <1>4, <1>5, <1>6 DEF KeysInOrder, PendingKeys
<1>9. HidShapes' /\ MousePolled'
  BY <1>1 DEF HidInv, HidShapes, MousePolled
<1>10. HeldIsReal'
  BY <1>1, HeldAsRelation DEF HidInv
<1> QED
  BY <1>7, <1>8, <1>9, <1>10 DEF HidInv

LEMMA OthersKeep ==
    ASSUME HidInv, PollWaits \/ GuiFlags \/ KeyChange \/ Unplug \/ Plug \/ Contact \/ TimePasses
    PROVE  HidInv'
<1>1. CASE PollWaits
  <2>1. UNCHANGED <<dev, hid, rep, ring, inp, gui, owed, cut>>
    BY <1>1 DEF PollWaits, Rest
  <2>2. HidShapes' /\ MousePolled'
    BY <2>1 DEF HidInv, HidShapes, MousePolled
  <2> QED
    BY <2>1, <2>2, Undisturbed
<1>2. CASE GuiFlags
  <2>1. UNCHANGED <<dev, hid, rep, ring, gui, owed, cut>> /\ inp' = [inp EXCEPT !.shortcut = FALSE]
    BY <1>2 DEF GuiFlags
  <2>2. DOMAIN inp' = DOMAIN inp /\ inp'.ctrl = inp.ctrl /\ inp'.button = inp.button
    BY <2>1 DEF HidInv, HidShapes
  <2>3. HidShapes' /\ MousePolled'
    BY <2>1, <2>2 DEF HidInv, HidShapes, MousePolled
  <2> QED
    BY <2>1, <2>2, <2>3, Undisturbed
<1>3. CASE TimePasses
  <2>1. UNCHANGED <<dev, hid, ring, inp, gui, owed, cut>> /\ rep' = [rep EXCEPT !.due = rep.key # NoUsage]
    BY <1>3 DEF TimePasses
  <2> DEFINE b == rep.key # NoUsage
  <2>2. rep' = [rep EXCEPT !.due = b]
    BY <2>1
  <2> HIDE DEF b
  <2>3. DOMAIN rep' = DOMAIN rep /\ rep'.key = rep.key
    BY <2>2 DEF HidInv, HidShapes
  <2>4. HidShapes' /\ MousePolled'
    BY <2>1, <2>3 DEF HidInv, HidShapes, MousePolled
  <2> QED
    BY <2>1, <2>3, <2>4, Undisturbed
<1>4. ASSUME KeyChange \/ Unplug \/ Plug \/ Contact PROVE HidInv'
  <2>1. UNCHANGED <<hid, rep, ring, inp, gui, owed, cut>>
    BY <1>4 DEF KeyChange, Unplug, Plug, Contact, Touch, Others
  <2>2. /\ DOMAIN dev' = DeviceFields /\ (dev'.plugged => dev'.kind \in Kinds)
        /\ dev'.kind = "mouse" => dev'.down \subseteq Pointers
        /\ (dev'.plugged /\ dev'.addr = 1) => (dev.plugged /\ dev.addr = 1 /\ dev'.kind = dev.kind)
    <3>1. CASE KeyChange
      <4>1. PICK u \in IF dev.kind = "mouse" THEN Pointers ELSE Usages :
               dev' = [dev EXCEPT !.down = IF u \in dev.down THEN dev.down \ {u} ELSE dev.down \cup {u}]
        BY <3>1 DEF KeyChange
      <4> DEFINE D == IF u \in dev.down THEN dev.down \ {u} ELSE dev.down \cup {u}
      <4>2. dev' = [dev EXCEPT !.down = D] /\ (dev.kind = "mouse" => D \subseteq Pointers)
        BY <4>1 DEF HidInv, MousePolled
      <4> HIDE DEF D
      <4> QED
        BY <4>2 DEF HidInv, HidShapes, MousePolled, DeviceFields
    <3>2. CASE Unplug
      BY <3>2 DEF Unplug, Unplugged, DeviceFields
    <3>3. CASE Plug
      <4>1. PICK kind \in Kinds : dev' = Fresh(kind)
        BY <3>3 DEF Plug
      <4> QED
        BY <4>1 DEF Fresh, Unplugged, DeviceFields
    <3>4. CASE Contact
      <4>1. PICK b : dev' = [dev EXCEPT !.flaky = b]
        BY <3>4 DEF Contact
      <4> QED
        BY <4>1 DEF HidInv, HidShapes, MousePolled, DeviceFields
    <3> QED
      BY <1>4, <3>1, <3>2, <3>3, <3>4
  <2>3. HidShapes'
    BY <2>1, <2>2 DEF HidInv, HidShapes
  <2>4. MousePolled'
    BY <2>1, <2>2 DEF HidInv, MousePolled
  <2> QED
    BY <2>1, <2>3, <2>4, Undisturbed
<1> QED
  BY <1>1, <1>2, <1>3, <1>4

LEMMA NextHidInv == HidInv /\ [HidNext]_hidVars => HidInv'
<1> SUFFICES ASSUME HidInv, [HidNext]_hidVars PROVE HidInv'
  OBVIOUS
<1>1. CASE UsbPoll
  BY <1>1, PollGoneKeeps, PollConnectedKeeps, PollEnumeratesKeeps, PollKeyboardKeeps,
     PollMouseKeeps, OthersKeep DEF UsbPoll
<1>2. CASE UNCHANGED hidVars
  <2>1. UNCHANGED <<dev, hid, rep, ring, inp, gui, owed, cut>>
    BY <1>2 DEF hidVars
  <2>2. HidShapes' /\ MousePolled'
    BY <2>1 DEF HidInv, HidShapes, MousePolled
  <2> QED
    BY <2>1, <2>2, Undisturbed
<1> QED
  BY <1>1, <1>2, InputPollKeeps, GuiPullKeeps, GuiHandleKeeps, OthersKeep DEF HidNext

LEMMA HidInductive == HidSpec => []HidInv
BY InitHidInv, NextHidInv, PTL DEF HidSpec

(* The keys gui_task has yet to see are, for every ring size and every         *)
(* interleaving of decoder and gui_task, the keys submitted, in order:         *)
(* gui_key_submit and gui_key_pull_next let none overtake another and lose     *)
(* only the oldest of a full ring and what a Ctrl-C cancels.                   *)
THEOREM KeysArriveInOrder == HidSpec => []KeysInOrder
<1>1. HidInv => KeysInOrder
  BY DEF HidInv
<1> QED
  BY <1>1, HidInductive, PTL

(* Ctrl, the game button and the repeated key are believed held only while     *)
(* the last report holds them, however often the device is unplugged, fails or *)
(* is enumerated again, and for every size of the event ring, but for keys     *)
(* whose release the ring or a lost report cut (usb_keyboard_apply_report,     *)
(* virtio_input_poll, usb_phy_recover_from_os).                                *)
THEOREM HeldKeysAreReal == HidSpec => []HeldIsReal
<1>1. HidInv => HeldIsReal
  BY DEF HidInv
<1> QED
  BY <1>1, HidInductive, PTL

-----------------------------------------------------------------------------
(* Desktop: z_order and the active window.                                    *)

Places == 1 .. MAX_WINDOWS

(* z_order names every window once. *)
Order(z) ==
    /\ z \in [Places -> Windows]
    /\ \A j, k \in Places : z[j] = z[k] => j = k
    /\ \A i \in Windows : \E k \in Places : z[k] = i

(* A window has its fields, whatever is in them. *)
Shape(w) ==
    DOMAIN w = {"kind", "queue", "text", "executing", "locked", "cancel", "auth", "min"}

(* The stack and the windows of the desktop. *)
Laid(d) ==
    /\ DOMAIN d = {"win", "active", "z"}
    /\ DOMAIN d.win = Windows
    /\ \A i \in Windows : Shape(d.win[i])
    /\ d.active \in Windows \cup {NoWindow}
    /\ Order(d.z)

(* No window that is shown lies above window i. *)
Above(d, i) == \A k \in Places : Place(d.z, i) < k => ~Valid(d, d.z[k])

(* The window that gets the keys is shown, and on top of the others. *)
Foremost(d) == d.active # NoWindow => Valid(d, d.active) /\ Above(d, d.active)

(* The same in the middle of a click, when the window may be closed. *)
InFront(d) == d.active # NoWindow => Above(d, d.active)

(* Where the tasks, the application and the next click are. *)
Placed ==
    /\ DOMAIN task = Tasks
    /\ \A t \in Tasks :
        /\ DOMAIN task[t] = {"st", "win", "cmd", "did", "batch"}
        /\ task[t].st = "command" => task[t].win \in Windows
    /\ DOMAIN app = {"running", "owner"} /\ (app.running => app.owner \in Windows)
    /\ DOMAIN pend = {"flags", "click", "paste", "serial"}
    /\ pend.click \in Clicks \cup {NoClick}

DeskInv == Laid(desk) /\ Foremost(desk) /\ Placed

(* A window may change in everything but its kind and whether it is shown. *)
Alike(w, v) == Shape(v) /\ v.kind = w.kind /\ v.min = w.min

-----------------------------------------------------------------------------
(* z_order.                                                                 *)

(* bring_to_front finds the window it looks for. *)
LEMMA PlaceFound ==
    ASSUME NEW z, Order(z), NEW i \in Windows
    PROVE  /\ Place(z, i) \in Places /\ z[Place(z, i)] = i
           /\ \A k \in Places : z[k] = i => k = Place(z, i)
<1>1. \E p \in DOMAIN z : z[p] = i
  BY DEF Order
<1>2. Place(z, i) \in DOMAIN z /\ z[Place(z, i)] = i
  BY <1>1 DEF Place
<1> QED
  BY <1>2 DEF Order

(* bring_to_front moves the windows above one place down: every window is    *)
(* still there once, the one brought to the front last.                      *)
LEMMA ToTopOrder ==
    ASSUME NEW z, Order(z), NEW i \in Windows
    PROVE  Order(ToTop(z, i)) /\ Place(ToTop(z, i), i) = MAX_WINDOWS
<1> DEFINE p == Place(z, i)
           t == ToTop(z, i)
<1>1. MAX_WINDOWS \in Nat \ {0}
  BY DesktopAssumption
<1>2. p \in Places /\ z[p] = i /\ \A k \in Places : z[k] = i => k = p
  BY PlaceFound
<1>3. z \in [Places -> Windows]
  BY DEF Order
<1> HIDE DEF p
<1>4. t = [k \in Places |-> IF k < p THEN z[k] ELSE IF k < MAX_WINDOWS THEN z[k + 1] ELSE i]
  BY <1>3 DEF ToTop, p
<1> HIDE DEF t
<1>5. t \in [Places -> Windows]
  BY <1>1, <1>2, <1>3, <1>4 DEF Places
<1>6. ASSUME NEW j \in Places, NEW k \in Places, t[j] = t[k] PROVE j = k
  BY <1>1, <1>2, <1>3, <1>4, <1>6 DEF Places, Order
<1>7. ASSUME NEW j \in Windows PROVE \E k \in Places : t[k] = j
  <2>1. CASE j = i
    <3>1. MAX_WINDOWS \in Places /\ t[MAX_WINDOWS] = i
      BY <1>1, <1>2, <1>3, <1>4 DEF Places
    <3> QED
      BY <2>1, <3>1
  <2>2. CASE j # i
    <3>1. PICK k \in Places : z[k] = j
      BY DEF Order
    <3>2. k # p
      BY <1>2, <2>2, <3>1
    <3>3. CASE k < p
      BY <1>4, <3>1, <3>3
    <3>4. CASE k > p
      <4>1. k - 1 \in Places /\ ~ (k - 1 < p) /\ k - 1 < MAX_WINDOWS /\ k - 1 + 1 = k
        BY <1>1, <1>2, <3>4 DEF Places
      <4>2. t[k - 1] = j
        BY <1>1, <1>4, <3>1, <4>1 DEF Places
      <4> QED
        BY <4>1, <4>2
    <3> QED
      BY <1>1, <1>2, <3>2, <3>3, <3>4 DEF Places
  <2> QED
    BY <2>1, <2>2
<1>8. Order(t)
  BY <1>5, <1>6, <1>7 DEF Order
<1>9. MAX_WINDOWS \in Places /\ t[MAX_WINDOWS] = i
  BY <1>1, <1>2, <1>3, <1>4 DEF Places
<1>10. Place(t, i) = MAX_WINDOWS
  BY <1>8, <1>9, PlaceFound
<1> QED
  BY <1>8, <1>10 DEF t

(* Above the place it came from, the windows keep their order. *)
LEMMA ToTopKeeps ==
    ASSUME NEW z, Order(z), NEW i \in Windows, NEW k \in Places
    PROVE  /\ k < Place(z, i) => ToTop(z, i)[k] = z[k]
           /\ ~ (k < Place(z, i)) /\ k < MAX_WINDOWS =>
                  k + 1 \in Places /\ ToTop(z, i)[k] = z[k + 1]
           /\ k = MAX_WINDOWS => ToTop(z, i)[k] = i
<1>1. MAX_WINDOWS \in Nat \ {0}
  BY DesktopAssumption
<1>2. DOMAIN z = Places /\ Place(z, i) \in Places
  BY PlaceFound DEF Order
<1> QED
  BY <1>1, <1>2 DEF ToTop, Places

(* cycle_active_window moves the windows below one place up. *)
LEMMA ToBottomOrder ==
    ASSUME NEW z, Order(z), NEW i \in Windows
    PROVE  Order(ToBottom(z, i))
<1> DEFINE p == Place(z, i)
           t == ToBottom(z, i)
<1>1. MAX_WINDOWS \in Nat \ {0}
  BY DesktopAssumption
<1>2. p \in Places /\ z[p] = i /\ \A k \in Places : z[k] = i => k = p
  BY PlaceFound
<1>3. z \in [Places -> Windows]
  BY DEF Order
<1> HIDE DEF p
<1>4. t = [k \in Places |-> IF k > p THEN z[k] ELSE IF k > 1 THEN z[k - 1] ELSE i]
  BY <1>3 DEF ToBottom, p
<1> HIDE DEF t
<1>5. t \in [Places -> Windows]
  BY <1>1, <1>2, <1>3, <1>4 DEF Places
<1>6. ASSUME NEW j \in Places, NEW k \in Places, t[j] = t[k] PROVE j = k
  BY <1>1, <1>2, <1>3, <1>4, <1>6 DEF Places, Order
<1>7. ASSUME NEW j \in Windows PROVE \E k \in Places : t[k] = j
  <2>1. CASE j = i
    <3>1. 1 \in Places /\ t[1] = i
      BY <1>1, <1>2, <1>3, <1>4 DEF Places
    <3> QED
      BY <2>1, <3>1
  <2>2. CASE j # i
    <3>1. PICK k \in Places : z[k] = j
      BY DEF Order
    <3>2. k # p
      BY <1>2, <2>2, <3>1
    <3>3. CASE k > p
      BY <1>4, <3>1, <3>3
    <3>4. CASE k < p
      <4>1. k + 1 \in Places /\ ~ (k + 1 > p) /\ k + 1 > 1 /\ k + 1 - 1 = k
        BY <1>1, <1>2, <3>4 DEF Places
      <4>2. t[k + 1] = j
        BY <1>1, <1>4, <3>1, <4>1 DEF Places
      <4> QED
        BY <4>1, <4>2
    <3> QED
      BY <1>1, <1>2, <3>2, <3>3, <3>4 DEF Places
  <2> QED
    BY <2>1, <2>2
<1>8. Order(t)
  BY <1>5, <1>6, <1>7 DEF Order
<1> QED
  BY <1>8 DEF t

-----------------------------------------------------------------------------
(* The desktop.                                                             *)

(* What is in the windows, apart from their kind and whether they are        *)
(* minimised, does not matter to the stack.                                  *)
LEMMA AlikeStack ==
    ASSUME NEW d, Laid(d), NEW e, e = [d EXCEPT !.win = e.win], DOMAIN e.win = Windows,
           \A i \in Windows : Alike(d.win[i], e.win[i])
    PROVE  /\ Laid(e) /\ e.z = d.z /\ e.active = d.active
           /\ \A i : Valid(e, i) <=> Valid(d, i)
           /\ Foremost(d) => Foremost(e)
           /\ InFront(d) => InFront(e)
<1>1. DOMAIN e = DOMAIN d
  OBVIOUS
<1>2. e.z = d.z /\ e.active = d.active
  BY DEF Laid
<1>3. Laid(e)
  BY <1>1, <1>2 DEF Laid, Alike
<1>4. \A i : Valid(e, i) <=> Valid(d, i)
  BY DEF Valid, Alike
<1> QED
  BY <1>2, <1>3, <1>4 DEF Foremost, InFront, Above

LEMMA AlikeOne ==
    ASSUME NEW d, Laid(d), NEW i \in Windows, NEW w, Alike(d.win[i], w)
    PROVE  LET e == [d EXCEPT !.win[i] = w]
           IN  /\ Laid(e) /\ e.z = d.z /\ e.active = d.active
               /\ \A j : Valid(e, j) <=> Valid(d, j)
               /\ Foremost(d) => Foremost(e)
               /\ InFront(d) => InFront(e)
<1> DEFINE e == [d EXCEPT !.win[i] = w]
<1>1. e.win = [d.win EXCEPT ![i] = w] /\ e = [d EXCEPT !.win = e.win]
  BY DEF Laid
<1>2. DOMAIN e.win = Windows /\ \A j \in Windows : Alike(d.win[j], e.win[j])
  BY <1>1 DEF Laid, Alike
<1> HIDE DEF e
<1>3. /\ Laid(e) /\ e.z = d.z /\ e.active = d.active
      /\ \A j : Valid(e, j) <=> Valid(d, j)
      /\ Foremost(d) => Foremost(e)
      /\ InFront(d) => InFront(e)
  BY <1>1, <1>2, AlikeStack
<1> QED
  BY <1>3 DEF e

(* The loop of cycle_active_window finds the highest window that is shown. *)
LEMMA TopShown ==
    ASSUME NEW d, Laid(d)
    PROVE  /\ TopWindow(d) \in Windows \cup {NoWindow}
           /\ TopWindow(d) # NoWindow => Valid(d, TopWindow(d)) /\ Above(d, TopWindow(d))
           /\ TopWindow(d) = NoWindow => \A i : ~Valid(d, i)
<1> DEFINE shown == {k \in DOMAIN d.z : Valid(d, d.z[k])}
<1>1. MAX_WINDOWS \in Nat \ {0} /\ NoWindow \notin Windows
  BY DesktopAssumption DEF NoWindow, Windows
<1>2. DOMAIN d.z = Places /\ Order(d.z) /\ \A k \in Places : d.z[k] \in Windows
  BY DEF Laid, Order
<1>3. CASE shown = {}
  <2>1. TopWindow(d) = NoWindow
    BY <1>3 DEF TopWindow
  <2>2. ASSUME NEW i PROVE ~Valid(d, i)
    <3>1. SUFFICES ASSUME Valid(d, i) PROVE FALSE
      OBVIOUS
    <3>2. PICK k \in Places : d.z[k] = i
      BY <1>2, <3>1 DEF Valid, Order
    <3> QED
      BY <1>2, <1>3, <3>1, <3>2
  <2> QED
    BY <2>1, <2>2
<1>4. CASE shown # {}
  <2> DEFINE T == {MAX_WINDOWS - k : k \in shown}
  <2>1. T \subseteq Nat /\ T # {}
    BY <1>1, <1>2, <1>4 DEF Places
  <2>2. PICK x \in T : \A y \in T : x <= y
    <3> HIDE DEF T
    <3> QED
      BY <2>1, LeastNat
  <2>3. PICK m \in shown : x = MAX_WINDOWS - m
    BY <2>2
  <2>4. \A k \in shown : m >= k
    <3> SUFFICES ASSUME NEW k \in shown PROVE m >= k
      OBVIOUS
    <3>1. MAX_WINDOWS - k \in T
      OBVIOUS
    <3>2. MAX_WINDOWS - m <= MAX_WINDOWS - k
      BY <2>2, <2>3, <3>1
    <3>3. k \in Places /\ m \in Places
      BY <1>2
    <3> QED
      BY <1>1, <3>2, <3>3 DEF Places
  <2>5. Max(shown) \in shown /\ \A k \in shown : Max(shown) >= k
    BY <2>4 DEF Max
  <2> DEFINE p == Max(shown)
  <2> HIDE DEF p
  <2>6. p \in Places /\ Valid(d, d.z[p]) /\ \A k \in Places : p < k => ~Valid(d, d.z[k])
    <3>1. p \in shown
      BY <2>5 DEF p
    <3>2. \A k \in shown : p >= k
      BY <2>5 DEF p
    <3>3. p \in Places /\ Valid(d, d.z[p])
      BY <1>2, <3>1
    <3>4. ASSUME NEW k \in Places, p < k, Valid(d, d.z[k]) PROVE FALSE
      <4>1. k \in shown
        BY <1>2, <3>4
      <4>2. p >= k
        BY <3>2, <4>1
      <4> QED
        BY <1>1, <3>3, <3>4, <4>2 DEF Places
    <3> QED
      BY <3>3, <3>4
  <2>7. TopWindow(d) = d.z[p]
    BY <1>4 DEF TopWindow, p
  <2>8. d.z[p] \in Windows /\ Place(d.z, d.z[p]) = p
    BY <1>2, <2>6, PlaceFound
  <2>9. Above(d, d.z[p])
    BY <2>6, <2>8 DEF Above
  <2> QED
    BY <1>1, <2>6, <2>7, <2>8, <2>9
<1> QED
  BY <1>3, <1>4

(* The window in front is the one the loop would find. *)
LEMMA ForemostIsTop ==
    ASSUME NEW d, Laid(d), Foremost(d), d.active # NoWindow
    PROVE  d.active = TopWindow(d)
<1> DEFINE a == d.active
           b == TopWindow(d)
<1>1. Valid(d, a) /\ Above(d, a)
  BY DEF Foremost
<1>2. b # NoWindow /\ Valid(d, b) /\ Above(d, b)
  BY <1>1, TopShown
<1>3. a \in Windows /\ b \in Windows /\ Order(d.z)
  BY <1>1, <1>2 DEF Valid, Laid
<1> HIDE DEF a, b
<1>4. /\ Place(d.z, a) \in Places /\ d.z[Place(d.z, a)] = a
      /\ Place(d.z, b) \in Places /\ d.z[Place(d.z, b)] = b
  BY <1>3, PlaceFound
<1>5. ~ (Place(d.z, a) < Place(d.z, b)) /\ ~ (Place(d.z, b) < Place(d.z, a))
  BY <1>1, <1>2, <1>4 DEF Above
<1>6. Place(d.z, a) = Place(d.z, b)
  BY <1>4, <1>5, DesktopAssumption DEF Places
<1>7. a = b
  BY <1>4, <1>6
<1> QED
  BY <1>7 DEF a, b

(* bring_to_front *)
LEMMA BroughtToFront ==
    ASSUME NEW d, Laid(d), NEW i \in Windows
    PROVE  LET e == BringToFront(d, i)
           IN  /\ Laid(e) /\ InFront(e) /\ e.active = i
               /\ e.win[i].kind = d.win[i].kind /\ ~e.win[i].min
               /\ d.win[i].kind # "none" => Foremost(e)
<1> DEFINE e == BringToFront(d, i)
           ws == [d.win EXCEPT ![i] = [d.win[i] EXCEPT !.min = FALSE]]
<1>1. MAX_WINDOWS \in Nat \ {0}
  BY DesktopAssumption
<1>2. e.win = ws /\ e.active = i /\ e.z = ToTop(d.z, i) /\ DOMAIN e = DOMAIN d
  BY DEF Laid, BringToFront
<1>3. Order(ToTop(d.z, i)) /\ Place(ToTop(d.z, i), i) = MAX_WINDOWS
  BY ToTopOrder DEF Laid
<1>4. /\ DOMAIN ws = Windows /\ \A j \in Windows : Shape(ws[j])
      /\ ws[i].kind = d.win[i].kind /\ ~ws[i].min
  <2>1. DOMAIN d.win = Windows /\ \A j \in Windows : Shape(d.win[j])
    BY DEF Laid
  <2>2. DOMAIN ws = Windows /\ \A j \in Windows \ {i} : ws[j] = d.win[j]
    BY <2>1
  <2>3. ws[i] = [d.win[i] EXCEPT !.min = FALSE]
    BY <2>1
  <2>4. Shape(d.win[i])
    BY <2>1
  <2> HIDE DEF ws
  <2>5. Shape(ws[i]) /\ ws[i].kind = d.win[i].kind /\ ~ws[i].min
    BY <2>3, <2>4 DEF Shape
  <2> QED
    BY <2>1, <2>2, <2>5
<1> HIDE DEF e, ws
<1>5. Laid(e)
  BY <1>2, <1>3, <1>4 DEF Laid
<1>6. Above(e, i)
  BY <1>1, <1>2, <1>3 DEF Above, Places
<1>7. d.win[i].kind # "none" => Valid(e, i)
  BY <1>2, <1>4 DEF Valid
<1>8. /\ Laid(e) /\ InFront(e) /\ e.active = i
      /\ e.win[i].kind = d.win[i].kind /\ ~e.win[i].min
      /\ d.win[i].kind # "none" => Foremost(e)
  BY <1>2, <1>4, <1>5, <1>6, <1>7 DEF InFront, Foremost
<1> QED
  BY <1>8 DEF e

(* cycle_active_window *)
LEMMA Cycled ==
    ASSUME NEW d, Laid(d)
    PROVE  Laid(CycleActive(d)) /\ Foremost(CycleActive(d))
<1> DEFINE e == IF d.active = NoWindow THEN d ELSE [d EXCEPT !.z = ToBottom(@, d.active)]
           f == [e EXCEPT !.active = TopWindow(e)]
<1>1. Laid(e)
  <2>1. CASE d.active = NoWindow
    BY <2>1
  <2>2. CASE d.active # NoWindow
    <3>1. Order(ToBottom(d.z, d.active))
      BY <2>2, ToBottomOrder DEF Laid
    <3>2. /\ e.win = d.win /\ e.active = d.active /\ e.z = ToBottom(d.z, d.active)
          /\ DOMAIN e = DOMAIN d
      BY <2>2 DEF Laid
    <3> QED
      BY <3>1, <3>2 DEF Laid
  <2> QED
    BY <2>1, <2>2
<1> HIDE DEF e
<1>2. f.win = e.win /\ f.active = TopWindow(e) /\ f.z = e.z /\ DOMAIN f = DOMAIN e
  BY <1>1 DEF Laid
<1>3. Laid(f)
  BY <1>1, <1>2, TopShown DEF Laid
<1>4. \A i : Valid(f, i) <=> Valid(e, i)
  BY <1>2 DEF Valid
<1>5. Foremost(f)
  BY <1>1, <1>2, <1>4, TopShown DEF Foremost, Above
<1>6. f = CycleActive(d)
  BY DEF CycleActive, e
<1> QED
  BY <1>3, <1>5, <1>6

(* A window that leaves the stack for its top, where it is closed, does not *)
(* bring another one above the window in front.                             *)
LEMMA ToTopAbove ==
    ASSUME NEW z, Order(z), NEW i \in Windows, NEW a \in Windows, a # i,
           NEW k \in Places, Place(ToTop(z, i), a) < k, ToTop(z, i)[k] # i
    PROVE  \E m \in Places : Place(z, a) < m /\ ToTop(z, i)[k] = z[m]
<1> DEFINE t == ToTop(z, i)
           p == Place(z, i)
           q == Place(t, a)
<1>1. MAX_WINDOWS \in Nat \ {0}
  BY DesktopAssumption
<1>2. Order(t)
  BY ToTopOrder
<1>3. q \in Places /\ t[q] = a
  BY <1>2, PlaceFound
<1>4. p \in Places
  BY PlaceFound
<1>5. /\ k < p => t[k] = z[k]
      /\ ~ (k < p) /\ k < MAX_WINDOWS => k + 1 \in Places /\ t[k] = z[k + 1]
      /\ k = MAX_WINDOWS => t[k] = i
  BY ToTopKeeps
<1>6. /\ q < p => t[q] = z[q]
      /\ ~ (q < p) /\ q < MAX_WINDOWS => q + 1 \in Places /\ t[q] = z[q + 1]
      /\ q = MAX_WINDOWS => t[q] = i
  BY <1>3, ToTopKeeps
<1>7. \A m \in Places : z[m] = a => m = Place(z, a)
  BY PlaceFound
<1>8. q < k /\ t[k] # i
  OBVIOUS
<1> HIDE DEF t, p, q
<1>9. CASE q < p
  <2>1. Place(z, a) = q
    BY <1>3, <1>6, <1>7, <1>9
  <2>2. CASE k < p
    BY <1>5, <1>8, <2>1, <2>2 DEF t
  <2>3. CASE ~ (k < p)
    <3>1. k < MAX_WINDOWS
      BY <1>1, <1>5, <1>8 DEF Places
    <3>2. k + 1 \in Places /\ t[k] = z[k + 1]
      BY <1>5, <2>3, <3>1
    <3>3. q < k + 1
      BY <1>1, <1>3, <1>8 DEF Places
    <3> QED
      BY <2>1, <3>2, <3>3 DEF t
  <2> QED
    BY <2>2, <2>3
<1>10. CASE ~ (q < p)
  <2>1. q < MAX_WINDOWS /\ k < MAX_WINDOWS /\ ~ (k < p)
    BY <1>1, <1>3, <1>4, <1>5, <1>6, <1>8, <1>10 DEF Places
  <2>2. Place(z, a) = q + 1
    BY <1>3, <1>6, <1>7, <1>10, <2>1
  <2>3. k + 1 \in Places /\ t[k] = z[k + 1]
    BY <1>5, <2>1
  <2>4. q + 1 < k + 1
    BY <1>1, <1>3, <1>8 DEF Places
  <2> QED
    BY <2>2, <2>3, <2>4 DEF t
<1> QED
  BY <1>9, <1>10

(* close_window *)
LEMMA Closed ==
    ASSUME NEW d, Laid(d), NEW i \in Windows
    PROVE  LET e == CloseWindow(d, i)
           IN  /\ Laid(e)
               /\ Foremost(d) => Foremost(e)
               /\ InFront(d) => InFront(e)
<1> DEFINE e == [d EXCEPT !.z = ToTop(@, i), !.win[i] = EmptyWindow,
                          !.active = IF @ = i THEN NoWindow ELSE @]
<1>1. /\ DOMAIN e = DOMAIN d /\ e.z = ToTop(d.z, i)
      /\ e.win = [d.win EXCEPT ![i] = EmptyWindow]
      /\ e.active = IF d.active = i THEN NoWindow ELSE d.active
  BY DEF Laid
<1>2. CloseWindow(d, i) = IF e.active = NoWindow THEN CycleActive(e) ELSE e
  BY DEF CloseWindow
<1> HIDE DEF e
<1>3. Order(e.z)
  BY <1>1, ToTopOrder DEF Laid
<1>4. Shape(EmptyWindow) /\ EmptyWindow.kind = "none"
  BY DEF Shape, EmptyWindow
<1>5. Laid(e)
  BY <1>1, <1>3, <1>4 DEF Laid
<1>6. \A j : Valid(e, j) <=> Valid(d, j) /\ j # i
  BY <1>1, <1>4 DEF Valid, Laid
<1>7. CASE e.active = NoWindow
  <2>1. Laid(CycleActive(e)) /\ Foremost(CycleActive(e))
    BY <1>5, Cycled
  <2> QED
    BY <1>2, <1>7, <2>1 DEF Foremost, InFront
<1>8. CASE e.active # NoWindow
  <2>1. d.active # i /\ e.active = d.active /\ d.active \in Windows
    BY <1>1, <1>8 DEF Laid
  <2>2. ASSUME Above(d, d.active) PROVE Above(e, d.active)
    <3> SUFFICES ASSUME NEW k \in Places, Place(e.z, d.active) < k, Valid(e, e.z[k])
                 PROVE  FALSE
      BY DEF Above
    <3>1. Valid(d, e.z[k]) /\ e.z[k] # i
      BY <1>6
    <3>2. PICK m \in Places : Place(d.z, d.active) < m /\ e.z[k] = d.z[m]
      BY <1>1, <2>1, <3>1, ToTopAbove DEF Laid
    <3> QED
      BY <2>2, <3>1, <3>2 DEF Above
  <2>3. Valid(d, d.active) => Valid(e, d.active)
    BY <1>6, <2>1
  <2> QED
    BY <1>2, <1>5, <1>8, <2>1, <2>2, <2>3 DEF Foremost, InFront
<1> QED
  BY <1>7, <1>8

(* minimize_window *)
LEMMA Minimized ==
    ASSUME NEW d, Laid(d), NEW i \in Windows
    PROVE  LET e == Minimize(d, i)
           IN  /\ Laid(e)
               /\ Foremost(d) => Foremost(e)
               /\ InFront(d) => InFront(e)
<1> DEFINE e == Minimize(d, i)
           ws == [d.win EXCEPT ![i] = [d.win[i] EXCEPT !.min = TRUE]]
<1>1. /\ DOMAIN e = DOMAIN d /\ e.z = d.z /\ e.win = ws
      /\ e.active = IF d.active = i THEN NoWindow ELSE d.active
  BY DEF Minimize, Laid
<1>2. DOMAIN ws = Windows /\ \A j \in Windows \ {i} : ws[j] = d.win[j]
  BY DEF Laid
<1>3. Shape(ws[i]) /\ ws[i].kind = d.win[i].kind /\ ws[i].min
  <2>1. Shape(d.win[i]) /\ ws[i] = [d.win[i] EXCEPT !.min = TRUE]
    BY DEF Laid
  <2> HIDE DEF ws
  <2> QED
    BY <2>1 DEF Shape
<1> HIDE DEF e, ws
<1>4. Laid(e)
  BY <1>1, <1>2, <1>3 DEF Laid
<1>5. \A j : Valid(e, j) <=> Valid(d, j) /\ j # i
  BY <1>1, <1>2, <1>3 DEF Valid
<1>6. Foremost(d) => Foremost(e)
  BY <1>1, <1>5 DEF Foremost, Above
<1>7. InFront(d) => InFront(e)
  BY <1>1, <1>5 DEF InFront, Above
<1> QED
  BY <1>4, <1>6, <1>7 DEF e

(* create_new_task and open_text_editor *)
LEMMA OpenedOnTop ==
    ASSUME NEW d, Laid(d), Foremost(d), NEW kind, kind # "none"
    PROVE  Laid(OpenWindow(d, kind)) /\ Foremost(OpenWindow(d, kind))
<1>1. CASE FreeSlots(d) = {}
  BY <1>1 DEF OpenWindow
<1>2. CASE FreeSlots(d) # {}
  <2> DEFINE i == Min(FreeSlots(d))
             w == [EmptyWindow EXCEPT !.kind = kind]
             e == [d EXCEPT !.win[i] = w]
  <2>1. i \in Windows
    <3>1. FreeSlots(d) \subseteq Nat
      BY DesktopAssumption DEF FreeSlots, Windows
    <3>2. \E x \in FreeSlots(d) : \A y \in FreeSlots(d) : x <= y
      BY <1>2, <3>1, LeastNat
    <3>3. i \in FreeSlots(d)
      BY <3>2 DEF Min
    <3> QED
      BY <3>3 DEF FreeSlots
  <2>2. OpenWindow(d, kind) = BringToFront(e, i)
    BY <1>2 DEF OpenWindow
  <2>3. Shape(w) /\ w.kind = kind
    BY DEF Shape, EmptyWindow
  <2> HIDE DEF i, w
  <2>4. /\ DOMAIN e = DOMAIN d /\ e.z = d.z /\ e.active = d.active
        /\ e.win = [d.win EXCEPT ![i] = w]
    BY DEF Laid
  <2> HIDE DEF e
  <2>5. Laid(e) /\ e.win[i].kind = kind
    BY <2>1, <2>3, <2>4 DEF Laid
  <2> QED
    BY <2>1, <2>2, <2>5, BroughtToFront
<1> QED
  BY <1>1, <1>2

-----------------------------------------------------------------------------
(* Keys.                                                                    *)

(* handle_window_mailbox changes the flags of the window and its line. *)
LEMMA MailboxAlike ==
    ASSUME NEW i, NEW w, Shape(w), NEW k, NEW o \in MailboxKey(i, w, k)
    PROVE  Alike(w, o.win)
<1> DEFINE stale == w.executing /\ ~app.running
           u == [w EXCEPT !.executing = @ /\ ~stale, !.cancel = @ /\ ~stale,
                          !.locked = @ /\ k # "a"]
<1>1. Alike(w, u)
  BY DEF Shape, Alike
<1>2. Alike(w, w)
  BY DEF Alike
<1>3. ASSUME NEW v, Alike(w, v)
      PROVE  /\ Alike(w, [v EXCEPT !.text = TRUE]) /\ Alike(w, [v EXCEPT !.text = FALSE])
             /\ Alike(w, [v EXCEPT !.cancel = TRUE])
             /\ Alike(w, Unlocked(v)) /\ Alike(w, CtrlCClears(v))
             /\ Alike(w, [v EXCEPT !.auth = FALSE, !.locked = FALSE, !.text = FALSE])
             /\ Alike(w, [v EXCEPT !.auth = TRUE, !.locked = FALSE, !.text = TRUE])
             /\ Alike(w, [v EXCEPT !.executing = FALSE, !.locked = FALSE, !.text = FALSE])
             /\ Alike(w, [v EXCEPT !.executing = TRUE, !.locked = TRUE])
  BY <1>3 DEF Alike, Shape, Unlocked, CtrlCClears, Cleared
<1>4. CASE o \in EditorKey(w)
  BY <1>2, <1>4 DEF EditorKey, Outcome
<1>5. CASE o \in AuthKey(w, k)
  <2>1. o.win \in {[w EXCEPT !.auth = FALSE, !.locked = FALSE, !.text = FALSE],
                   [w EXCEPT !.text = TRUE]}
    BY <1>5 DEF AuthKey, Outcome
  <2> QED
    BY <1>2, <1>3, <2>1
<1>6. CASE o \in CtrlCKey(i, w)
  <2>1. o.win \in {Unlocked(w), [w EXCEPT !.cancel = TRUE], CtrlCClears(w)}
    BY <1>6 DEF CtrlCKey, CtrlCMark, Outcome
  <2> QED
    BY <1>2, <1>3, <2>1
<1>7. CASE o = Outcome(u)
  BY <1>1, <1>7 DEF Outcome
<1> HIDE DEF u
<1>8. CASE o \in EnterKey(u)
  <2>1. CASE o = Outcome(u)
    BY <1>7, <2>1
  <2>2. CASE \E c \in Commands : o = Submitted(u, c)
    <3>1. PICK c \in Commands : o = Submitted(u, c)
      BY <2>2
    <3> QED
      BY <1>1, <1>3, <3>1 DEF Submitted, Outcome
  <2> QED
    BY <1>8, <2>1, <2>2 DEF EnterKey
<1>9. CASE o \in EditKey(u, k)
  <2>1. o.win \in {u, [u EXCEPT !.text = TRUE], [u EXCEPT !.text = FALSE]}
    BY <1>9 DEF EditKey, Outcome
  <2> QED
    BY <1>1, <1>3, <2>1
<1>10. \/ o \in EditorKey(w) \/ o \in AuthKey(w, k) \/ o \in CtrlCKey(i, w)
       \/ o = Outcome(u) \/ o \in EnterKey(u) \/ o \in EditKey(u, k)
  BY DEF MailboxKey, u
<1> QED
  BY <1>4, <1>5, <1>6, <1>7, <1>8, <1>9, <1>10

(* Where task t goes on: to a command, or elsewhere. *)
GoesOn(t, i, next) ==
    \E cmd : task' = [task EXCEPT ![t] =
                IF cmd = "none" THEN next
                ELSE [next EXCEPT !.st = "command", !.win = i, !.cmd = cmd]]

(* A key taken from a mailbox by any task: the editor may close its window. *)
LEMMA MailboxHandled ==
    ASSUME NEW d, Laid(d), Foremost(d), NEW i \in Windows, NEW t, NEW next,
           HandleMailbox(t, d, i, next)
    PROVE  /\ Laid(desk') /\ Foremost(desk')
           /\ GoesOn(t, i, next)
<1> DEFINE w == Popped(d.win[i])
<1>1. Shape(d.win[i])
  BY DEF Laid
<1>2. Alike(d.win[i], w)
  BY <1>1 DEF Popped, Alike, Shape
<1>3. PICK o \in MailboxKey(i, w, Head(d.win[i].queue)) :
         LET e == [d EXCEPT !.win[i] = o.win]
         IN  /\ desk' = IF o.close THEN CloseWindow(e, i) ELSE e
             /\ task' = [task EXCEPT ![t] =
                  IF o.cmd = "none" THEN next
                  ELSE [next EXCEPT !.st = "command", !.win = i, !.cmd = o.cmd]]
  BY DEF HandleMailbox
<1> DEFINE e == [d EXCEPT !.win[i] = o.win]
<1>4. Alike(w, o.win)
  BY <1>2, MailboxAlike DEF Alike
<1>5. Alike(d.win[i], o.win)
  BY <1>2, <1>4 DEF Alike
<1>6. Laid(e) /\ Foremost(e)
  BY <1>5, AlikeOne
<1>7. desk' = IF o.close THEN CloseWindow(e, i) ELSE e
  BY <1>3
<1> HIDE DEF e
<1>8. Laid(desk') /\ Foremost(desk')
  BY <1>6, <1>7, Closed
<1>9. GoesOn(t, i, next)
  BY <1>3 DEF GoesOn
<1> QED
  BY <1>8, <1>9

-----------------------------------------------------------------------------
(* gui_task.                                                                *)

(* An active window that is not shown gives up the keys. *)
LEMMA CheckedForemost ==
    ASSUME NEW d, Laid(d), InFront(d)
    PROVE  Laid(Checked(d)) /\ Foremost(Checked(d))
<1>1. CASE Valid(d, d.active)
  BY <1>1 DEF Checked, Foremost, InFront
<1>2. CASE ~Valid(d, d.active)
  <2> DEFINE e == [d EXCEPT !.active = NoWindow]
  <2>1. e.win = d.win /\ e.z = d.z /\ e.active = NoWindow /\ DOMAIN e = DOMAIN d
    BY DEF Laid
  <2>2. Checked(d) = e
    BY <1>2 DEF Checked
  <2> QED
    BY <2>1, <2>2 DEF Laid, Foremost
<1> QED
  BY <1>1, <1>2

LEMMA ShortcutForemost ==
    ASSUME NEW d, Laid(d), Foremost(d), NEW S
    PROVE  Laid(Shortcut(d, S)) /\ Foremost(Shortcut(d, S))
<1> DEFINE opened == IF "new" \in S THEN OpenWindow(d, "term") ELSE d
           closed == IF "close" \in S /\ opened.active # NoWindow
                     THEN CloseWindow(opened, opened.active) ELSE opened
<1>1. Laid(opened) /\ Foremost(opened)
  BY OpenedOnTop
<1> HIDE DEF opened
<1>2. Laid(closed) /\ Foremost(closed)
  <2>1. opened.active # NoWindow => opened.active \in Windows
    BY <1>1 DEF Laid
  <2> QED
    BY <1>1, <2>1, Closed
<1> HIDE DEF closed
<1>3. Shortcut(d, S) = IF "switch" \in S THEN CycleActive(closed) ELSE closed
  BY DEF Shortcut, opened, closed
<1> QED
  BY <1>2, <1>3, Cycled

LEMMA ClickInFront ==
    ASSUME NEW d, Laid(d), Foremost(d), NEW c \in Clicks \cup {NoClick}
    PROVE  Laid(Clicked(d, c)) /\ InFront(Clicked(d, c))
<1>1. \A e : Foremost(e) => InFront(e)
  BY DEF Foremost, InFront
<1>2. CASE c.at = "none"
  BY <1>1, <1>2 DEF Clicked
<1>3. CASE c.at = "new"
  BY <1>1, <1>3, OpenedOnTop DEF Clicked
<1>4. CASE c.at = "desktop"
  <2> DEFINE e == [d EXCEPT !.active = NoWindow]
  <2>1. e.win = d.win /\ e.z = d.z /\ e.active = NoWindow /\ DOMAIN e = DOMAIN d
    BY DEF Laid
  <2>2. Clicked(d, c) = e
    BY <1>4 DEF Clicked
  <2> QED
    BY <2>1, <2>2 DEF Laid, InFront
<1>5. CASE c.at \in {"inside", "shut", "min", "bar"}
  <2>1. c.win \in Windows
    BY <1>5 DEF Clicks, NoClick
  <2> DEFINE e == BringToFront(d, c.win)
  <2>2. Laid(e) /\ InFront(e)
    BY <2>1, BroughtToFront
  <2> HIDE DEF e
  <2>3. Laid(CloseWindow(e, c.win)) /\ InFront(CloseWindow(e, c.win))
    BY <2>1, <2>2, Closed
  <2>4. Laid(Minimize(e, c.win)) /\ InFront(Minimize(e, c.win))
    BY <2>1, <2>2, Minimized
  <2>5. Clicked(d, c) \in {d, e, CloseWindow(e, c.win), Minimize(e, c.win)}
    BY <1>5 DEF Clicked, e
  <2> QED
    BY <1>1, <2>2, <2>3, <2>4, <2>5
<1>6. c.at \in {"none", "new", "desktop", "inside", "shut", "min", "bar"}
  BY DEF Clicks, NoClick
<1> QED
  BY <1>2, <1>3, <1>4, <1>5, <1>6

(* A key put into the mailbox of the active window. *)
LEMMA PushedAlike ==
    ASSUME NEW d, Laid(d), d.active \in Windows, NEW k
    PROVE  /\ Laid(Pushed(d, k)) /\ Pushed(d, k).active = d.active
           /\ Foremost(d) => Foremost(Pushed(d, k))
           /\ InFront(d) => InFront(Pushed(d, k))
<1>1. Shape(d.win[d.active])
  BY DEF Laid
<1>2. Alike(d.win[d.active], Push(d.win[d.active], k))
  BY <1>1 DEF Push, Alike, Shape
<1>3. Pushed(d, k) = [d EXCEPT !.win[d.active] = Push(d.win[d.active], k)]
  BY DEF Pushed
<1> QED
  BY <1>2, <1>3, AlikeOne

(* release_finished_app_commands *)
LEMMA ReleasedAlike ==
    ASSUME NEW d, Laid(d), Foremost(d), NEW e, e = [d EXCEPT !.win = Released(@)]
    PROVE  Laid(e) /\ Foremost(e)
<1>1. e.win = Released(d.win)
  BY DEF Laid
<1>2. DOMAIN e.win = Windows
  BY <1>1 DEF Released
<1>3. ASSUME NEW i \in Windows PROVE Alike(d.win[i], e.win[i])
  <2>1. Shape(d.win[i])
    BY DEF Laid
  <2>2. e.win[i] \in {d.win[i], [d.win[i] EXCEPT !.executing = FALSE, !.cancel = FALSE]}
    BY <1>1 DEF Released
  <2> QED
    BY <2>1, <2>2 DEF Alike, Shape
<1> QED
  BY <1>1, <1>2, <1>3, AlikeStack

-----------------------------------------------------------------------------
(* The invariant.                                                           *)

LEMMA DeskInit == Init => DeskInv
<1> SUFFICES ASSUME Init PROVE DeskInv
  OBVIOUS
<1> DEFINE blank == [win |-> [i \in Windows |-> EmptyWindow], active |-> NoWindow,
                     z |-> [k \in 1 .. MAX_WINDOWS |-> k - 1]]
<1>1. MAX_WINDOWS \in Nat \ {0}
  BY DesktopAssumption
<1>2. Order(blank.z)
  <2>1. blank.z \in [Places -> Windows]
    BY <1>1 DEF Places, Windows
  <2>2. \A j, k \in Places : blank.z[j] = blank.z[k] => j = k
    BY <1>1 DEF Places
  <2>3. ASSUME NEW i \in Windows PROVE \E k \in Places : blank.z[k] = i
    <3>1. i + 1 \in Places /\ blank.z[i + 1] = i
      BY <1>1 DEF Places, Windows
    <3> QED
      BY <3>1
  <2> QED
    BY <2>1, <2>2, <2>3 DEF Order
<1>3. Shape(EmptyWindow)
  BY DEF Shape, EmptyWindow
<1>4. Laid(blank) /\ Foremost(blank)
  BY <1>2, <1>3 DEF Laid, Foremost
<1>5. Booted = OpenWindow(blank, "term")
  BY DEF Booted
<1> HIDE DEF blank
<1>6. ASSUME NEW d, Laid(d), Foremost(d)
      PROVE  Laid(Written(d)) /\ Foremost(Written(d))
  <2> DEFINE e == Written(d)
  <2>1. e.win = [i \in Windows |-> [d.win[i] EXCEPT !.text = d.win[i].kind = "term"]]
    BY <1>6 DEF Written, Laid
  <2>2. e = [d EXCEPT !.win = e.win]
    BY <2>1 DEF Written
  <2>3. DOMAIN e.win = Windows /\ \A i \in Windows : Alike(d.win[i], e.win[i])
    BY <1>6, <2>1 DEF Laid, Alike, Shape
  <2> HIDE DEF e
  <2>4. Laid(e) /\ Foremost(e)
    BY <1>6, <2>2, <2>3, AlikeStack
  <2> QED
    BY <2>4 DEF e
<1>7. Laid(Booted) /\ Foremost(Booted)
  BY <1>4, <1>5, OpenedOnTop
<1>8. LET two == OpenWindow(Booted, "term") IN Laid(two) /\ Foremost(two)
  BY <1>7, OpenedOnTop
<1>9. LET three == OpenWindow(OpenWindow(Booted, "term"), "term")
      IN  Laid(three) /\ Foremost(three)
  BY <1>8, OpenedOnTop
<1>10. Laid(desk) /\ Foremost(desk)
  BY <1>6, <1>7, <1>8, <1>9 DEF Init
<1>11. Placed
  BY DEF Init, Placed, Resting, Quiet, NoClick
<1> QED
  BY <1>10, <1>11 DEF DeskInv

LEMMA DeskNext == DeskInv /\ [Next]_vars => DeskInv'
<1> SUFFICES ASSUME DeskInv, [Next]_vars PROVE DeskInv'
  OBVIOUS
<1> USE DEF DeskInv
<1>1. ASSUME UNCHANGED vars PROVE DeskInv'
  BY <1>1 DEF vars, Laid, Foremost, Above, Placed, Valid
<1>2. ASSUME NEW k \in Keys, Typed(k) PROVE DeskInv'
  BY <1>2 DEF Typed, Laid, Foremost, Above, Placed, Valid
<1>3. ASSUME Event PROVE DeskInv'
  <2>1. DOMAIN pend' = DOMAIN pend /\ pend'.click \in Clicks \cup {NoClick}
    <3>1. pend' \in Raised
      BY <1>3 DEF Event
    <3> QED
      BY <3>1 DEF Raised, Placed
  <2>2. Laid(desk') /\ Foremost(desk')
    BY <1>3 DEF Event
  <2>3. UNCHANGED <<task, app>>
    BY <1>3 DEF Event
  <2> QED
    BY <2>1, <2>2, <2>3 DEF Placed, Laid, Foremost, Above, Valid
<1>4. ASSUME GuiRound PROVE DeskInv'
  <2> DEFINE d == [desk EXCEPT !.win = Released(@)]
  <2>1. Laid(d) /\ Foremost(d)
    BY ReleasedAlike
  <2>2. desk' = d \/ (Takes({"term"}, d) /\ desk' = Pushed(d, pend.serial))
    BY <1>4 DEF GuiRound
  <2> HIDE DEF d
  <2>3. Takes({"term"}, d) => d.active \in Windows
    BY DEF Takes, Valid
  <2>4. Laid(desk') /\ Foremost(desk')
    BY <2>1, <2>2, <2>3, PushedAlike
  <2>5. Placed'
    <3>1. task' = [task EXCEPT ![Gui] = [Resting EXCEPT !.st = "events"]]
      BY <1>4 DEF GuiRound
    <3>2. app' = app /\ pend' \in {pend, [pend EXCEPT !.serial = NoKey]}
      BY <1>4 DEF GuiRound
    <3> QED
      BY <3>1, <3>2 DEF Placed, Resting
  <2> QED
    BY <2>4, <2>5 DEF Laid, Foremost, Above, Valid
<1>5. ASSUME GuiEvents PROVE DeskInv'
  <2> DEFINE d == Clicked(Shortcut(desk, pend.flags), pend.click)
  <2>1. Laid(d) /\ InFront(d)
    BY ShortcutForemost, ClickInFront DEF Placed
  <2>2. desk' = Checked(d) \/ (Takes({"term", "editor"}, d) /\ desk' = Checked(Pushed(d, pend.paste)))
    BY <1>5 DEF GuiEvents
  <2> HIDE DEF d
  <2>3. Takes({"term", "editor"}, d) => d.active \in Windows
    BY DEF Takes, Valid
  <2>4. Laid(desk') /\ Foremost(desk')
    BY <2>1, <2>2, <2>3, PushedAlike, CheckedForemost
  <2>5. Placed'
    <3>1. task' = [task EXCEPT ![Gui].st = "keys"]
      BY <1>5 DEF GuiEvents
    <3>2. app' = app /\ pend' = [Quiet EXCEPT !.serial = pend.serial]
      BY <1>5 DEF GuiEvents
    <3> QED
      BY <3>1, <3>2 DEF Placed, Quiet
  <2> QED
    BY <2>4, <2>5 DEF Laid, Foremost, Above, Valid
<1>6. ASSUME GuiKey PROVE DeskInv'
  <2> DEFINE k == Pull(gui).key
             i == desk.active
  <2>1. i \in Windows /\ UNCHANGED <<app, pend>>
    BY <1>6 DEF GuiKey, KeyDue, Valid
  <2>2. Gui \in Tasks /\ CounterUp = [task[Gui] EXCEPT !.batch = @ + 1]
    BY DEF Tasks, CounterUp
  <2>3. ASSUME task' = [task EXCEPT ![Gui] = CounterUp] PROVE Placed'
    BY <2>1, <2>2, <2>3 DEF Placed
  <2>4. ASSUME GoesOn(Gui, i, CounterUp) PROVE Placed'
    BY <2>1, <2>2, <2>4 DEF Placed, GoesOn
  <2>5. CASE GuiKeyWindow(k, i)
    <3>1. desk' \in {desk, Minimize(desk, i), CloseWindow(desk, i)}
      BY <2>5 DEF GuiKeyWindow
    <3>2. Laid(desk') /\ Foremost(desk')
      BY <2>1, <3>1, Minimized, Closed
    <3> QED
      BY <2>3, <2>5, <3>2 DEF GuiKeyWindow, Laid, Foremost, Above, Valid
  <2>6. CASE GuiKeyCtrlC(k, i)
    <3>1. Shape(desk.win[i])
      BY <2>1 DEF Laid
    <3>2. /\ Alike(desk.win[i], CtrlCMark(i, desk.win[i], jit))
          /\ Alike(desk.win[i], CtrlCClears(desk.win[i]))
      BY <3>1 DEF Alike, Shape, CtrlCMark, CtrlCClears, Unlocked, Cleared
    <3>3. desk' \in {desk, [desk EXCEPT !.win[i] = CtrlCMark(i, desk.win[i], jit)],
                     [desk EXCEPT !.win[i] = CtrlCClears(desk.win[i])]}
      BY <2>6 DEF GuiKeyCtrlC
    <3>4. Laid(desk') /\ Foremost(desk')
      BY <2>1, <3>2, <3>3, AlikeOne
    <3> QED
      BY <2>3, <2>6, <3>4 DEF GuiKeyCtrlC, Laid, Foremost, Above, Valid
  <2>7. CASE GuiKeyTerminal(k, i)
    <3>1. Laid(Pushed(desk, k)) /\ Foremost(Pushed(desk, k))
      BY <2>1, PushedAlike
    <3>2. CASE HandleMailbox(Gui, Pushed(desk, k), i, CounterUp)
      <4>1. /\ Laid(desk') /\ Foremost(desk')
            /\ GoesOn(Gui, i, CounterUp)
        BY <2>1, <3>1, <3>2, MailboxHandled
      <4>2. Placed'
        BY <2>1, <2>4, <4>1
      <4> QED
        BY <4>1, <4>2 DEF Laid, Foremost, Above, Valid
    <3>3. CASE desk' = Pushed(desk, k) /\ task' = [task EXCEPT ![Gui] = CounterUp]
      BY <2>3, <3>1, <3>3 DEF Laid, Foremost, Above, Valid
    <3> QED
      BY <2>7, <3>2, <3>3 DEF GuiKeyTerminal
  <2> QED
    BY <1>6, <2>5, <2>6, <2>7 DEF GuiKey
<1>7. ASSUME GuiEnds PROVE DeskInv'
  <2>1. desk' = desk /\ app' = app /\ pend' = pend /\ task' = [task EXCEPT ![Gui] = Resting]
    BY <1>7 DEF GuiEnds
  <2>2. Placed'
    BY <2>1 DEF Placed, Resting
  <2> QED
    BY <2>1, <2>2 DEF Laid, Foremost, Above, Valid
<1>8. ASSUME NEW t \in Workers, WorkerTop(t) PROVE DeskInv'
  <2>1. Laid(desk') /\ Foremost(desk')
    BY <1>8, ReleasedAlike DEF WorkerTop
  <2>2. /\ app' = app /\ pend' = pend
        /\ task' = [task EXCEPT ![t] = [Resting EXCEPT !.st = "scan"]]
    BY <1>8 DEF WorkerTop
  <2>3. Placed'
    BY <2>2 DEF Placed, Resting, Tasks
  <2> QED
    BY <2>1, <2>3 DEF Laid, Foremost, Above, Valid
<1>9. ASSUME NEW t \in Workers, WorkerHandles(t) PROVE DeskInv'
  <2> DEFINE i == Min(Waiting(t))
             n == [task[t] EXCEPT !.win = i, !.did = TRUE]
  <2>1. i \in Windows
    <3>1. Waiting(t) \subseteq Nat /\ Waiting(t) # {}
      BY <1>9, DesktopAssumption DEF WorkerHandles, Waiting, Windows
    <3>2. \E x \in Waiting(t) : \A y \in Waiting(t) : x <= y
      BY <3>1, LeastNat
    <3>3. i \in Waiting(t)
      BY <3>2 DEF Min
    <3> QED
      BY <3>3 DEF Waiting
  <2>2. HandleMailbox(t, desk, i, n) /\ app' = app /\ pend' = pend
    BY <1>9 DEF WorkerHandles
  <2> HIDE DEF i, n
  <2>3. /\ Laid(desk') /\ Foremost(desk')
        /\ GoesOn(t, i, n)
    BY <2>1, <2>2, MailboxHandled
  <2>4. Placed'
    <3>1. PICK c : task' = [task EXCEPT ![t] =
              IF c = "none" THEN n
              ELSE [n EXCEPT !.st = "command", !.win = i, !.cmd = c]]
      BY <2>3 DEF GoesOn
    <3>2. t \in Tasks
      BY DEF Tasks
    <3> QED
      BY <2>1, <2>2, <3>1, <3>2 DEF Placed, n
  <2> QED
    BY <2>3, <2>4 DEF Laid, Foremost, Above, Valid
<1>10. ASSUME NEW t \in Workers, WorkerEnds(t) PROVE DeskInv'
  <2>1. desk' = desk /\ app' = app /\ pend' = pend /\ task' = [task EXCEPT ![t] = Resting]
    BY <1>10 DEF WorkerEnds
  <2>2. Placed'
    BY <2>1 DEF Placed, Resting
  <2> QED
    BY <2>1, <2>2 DEF Laid, Foremost, Above, Valid
<1>11. ASSUME NEW t \in Tasks, CommandEnds(t) PROVE DeskInv'
  <2> DEFINE i == task[t].win
             c == task[t].cmd
             e == CommandEffect(desk, c, i)
  <2>1. i \in Windows
    <3>1. task[t].st = "command"
      BY <1>11 DEF CommandEnds
    <3> QED
      BY <3>1 DEF Placed
  <2>2. /\ app' = IF Launches(c) THEN [running |-> TRUE, owner |-> i] ELSE app
        /\ desk' = [e EXCEPT !.win[i] = CommandReturns(@, app'.running)]
        /\ task' = [task EXCEPT ![t].st = IF t = Gui THEN "keys" ELSE "scan", ![t].cmd = "none"]
        /\ pend' = pend
    BY <1>11 DEF CommandEnds
  <2>3. Laid(e) /\ Foremost(e)
    <3>1. Shape(desk.win[i])
      BY <2>1 DEF Laid
    <3>2. Alike(desk.win[i], [desk.win[i] EXCEPT !.queue = <<>>])
      BY <3>1 DEF Alike, Shape
    <3>3. LET f == [desk EXCEPT !.win[i] = [desk.win[i] EXCEPT !.queue = <<>>]]
          IN  Laid(f) /\ Foremost(f)
      BY <2>1, <3>2, AlikeOne
    <3>4. [desk EXCEPT !.win[i].queue = <<>>] = [desk EXCEPT !.win[i] = [desk.win[i] EXCEPT !.queue = <<>>]]
      OBVIOUS
    <3> QED
      BY <3>3, <3>4, OpenedOnTop DEF CommandEffect
  <2> HIDE DEF e
  <2>4. Shape(e.win[i])
    BY <2>1, <2>3 DEF Laid
  <2>5. Alike(e.win[i], CommandReturns(e.win[i], app'.running))
    BY <2>4 DEF Alike, Shape, CommandReturns
  <2>6. Laid(desk') /\ Foremost(desk')
    <3>1. desk' = [e EXCEPT !.win[i] = CommandReturns(e.win[i], app'.running)]
      BY <2>2
    <3> QED
      BY <2>1, <2>3, <2>5, <3>1, AlikeOne
  <2>7. Placed'
    BY <2>1, <2>2 DEF Placed
  <2> QED
    BY <2>6, <2>7 DEF Laid, Foremost, Above, Valid
<1>12. ASSUME NEW i \in Windows, JitEnds(i) PROVE DeskInv'
  BY <1>12 DEF JitEnds, Laid, Foremost, Above, Placed, Valid
<1>13. ASSUME AppExits PROVE DeskInv'
  <2> DEFINE i == app.owner
  <2>1. i \in Windows
    BY <1>13 DEF AppExits, Placed
  <2>2. Shape(desk.win[i])
    BY <2>1 DEF Laid
  <2>3. desk' \in {[desk EXCEPT !.win[i] = desk.win[i]],
                   [desk EXCEPT !.win[i] = Unlocked(desk.win[i])]}
    BY <1>13 DEF AppExits
  <2>4. Alike(desk.win[i], desk.win[i]) /\ Alike(desk.win[i], Unlocked(desk.win[i]))
    BY <2>2 DEF Alike, Shape, Unlocked, Cleared
  <2>5. Laid(desk') /\ Foremost(desk')
    BY <2>1, <2>3, <2>4, AlikeOne
  <2>6. Placed'
    BY <1>13 DEF AppExits, Placed
  <2> QED
    BY <2>5, <2>6 DEF Laid, Foremost, Above, Valid
<1> QED
  BY <1>1, <1>2, <1>3, <1>4, <1>5, <1>6, <1>7, <1>8, <1>9, <1>10, <1>11, <1>12, <1>13
  DEF Next, GuiTask, Worker

(* Whatever was opened, closed, clicked, minimised or switched, by gui_task or  *)
(* by a command on a worker, the window that gets the keys is the highest one   *)
(* shown (bring_to_front, close_window, cycle_active_window).                   *)
THEOREM KeysGoToTheTop == Spec => []ActiveOnTop
<1>1. DeskInv => ActiveOnTop
  BY ForemostIsTop DEF DeskInv, ActiveOnTop
<1> QED
  BY <1>1, DeskInit, DeskNext, PTL DEF Spec

=============================================================================
