---------------------------- MODULE BrowserProofs ----------------------------
(***************************************************************************)
(* Proofs about what runs in the browser: the adapter runtime and the      *)
(* mounting of views.  Each part first shows what an operator of the model *)
(* does to one record or to one document, then that every action keeps the *)
(* invariant stated in the component's module.                             *)
(***************************************************************************)
EXTENDS AdapterRuntime, DomMount, FoldLemmas, SequenceTheorems, TLAPS

-----------------------------------------------------------------------------
(* Sequences of callbacks.                                                 *)

LEMMA AdAppendSeq ==
    ASSUME NEW S, NEW s \in Seq(S), NEW x \in S
    PROVE  /\ Append(s, x) \in Seq(S)
           /\ ToSet(Append(s, x)) = ToSet(s) \cup {x}
<1>1. Append(s, x) \in Seq(S) /\ Len(Append(s, x)) = Len(s) + 1 /\ Append(s, x)[Len(s) + 1] = x
  OBVIOUS
<1>2. \A i \in 1..Len(s) : Append(s, x)[i] = s[i]
  OBVIOUS
<1>3. DOMAIN Append(s, x) = 1..(Len(s) + 1) /\ DOMAIN s = 1..Len(s) /\ Len(s) \in Nat
  OBVIOUS
<1> HIDE DEF ToSet
<1>4. ToSet(Append(s, x)) = ToSet(s) \cup {x}
  BY <1>1, <1>2, <1>3 DEF ToSet
<1> QED BY <1>1, <1>4

LEMMA AdAppendOnce ==
    ASSUME NEW S, NEW s \in Seq(S), NEW x \in S, IsInjective(s), x \notin ToSet(s)
    PROVE  IsInjective(Append(s, x))
  BY DEF ToSet, IsInjective

LEMMA AdTail ==
    ASSUME NEW S, NEW s \in Seq(S), s /= <<>>, IsInjective(s)
    PROVE  /\ Tail(s) \in Seq(S) /\ IsInjective(Tail(s)) /\ Head(s) \in S
           /\ Head(s) \in ToSet(s) /\ Head(s) \notin ToSet(Tail(s))
           /\ ToSet(Tail(s)) \subseteq ToSet(s)
  BY DEF IsInjective, ToSet

LEMMA AdEmpty == ToSet(<<>>) = {} /\ IsInjective(<<>>) /\ \A S : <<>> \in Seq(S)
  BY DEF ToSet, IsInjective

\* What a cleanup appends for one callback, if anything.
LEMMA AdPush ==
    ASSUME NEW S, NEW q \in Seq(S), NEW r, NEW x \in S, NEW p,
           p = <<>> \/ (p = <<x>> /\ x \notin ToSet(q) \cup ToSet(r)),
           IsInjective(q), ToSet(q) \cap ToSet(r) = {}
    PROVE  /\ q \o p \in Seq(S) /\ IsInjective(q \o p) /\ ToSet(q \o p) \cap ToSet(r) = {}
           /\ ToSet(q \o p) = ToSet(q) \cup (IF p = <<>> THEN {} ELSE {x})
<1>1. CASE p = <<>>
  <2>1. q \o p = q
    BY <1>1
  <2> QED BY <1>1, <2>1
<1>2. CASE p = <<x>> /\ x \notin ToSet(q) \cup ToSet(r)
  <2>1. q \o p = Append(q, x)
    BY <1>2
  <2>2. p /= <<>>
    BY <1>2
  <2>3. q \o p \in Seq(S) /\ ToSet(q \o p) = ToSet(q) \cup {x}
    BY <2>1, AdAppendSeq
  <2>4. IsInjective(q \o p)
    BY <1>2, <2>1, AdAppendOnce
  <2> QED BY <1>2, <2>2, <2>3, <2>4
<1> QED BY <1>1, <1>2

LEMMA AdCleanupQueues ==
    ASSUME NEW m, NEW l, NEW r, AdShape(m, l, r), AdOnce(m, l, r)
    PROVE  LET c == AdCleanup(m, l)
           IN  /\ AdShape(m, c, r) /\ AdOnce(m, c, r)
               /\ "unmount" \in l.taken /\ l.regs = <<>> =>
                     ToSet(c.queue) \subseteq ToSet(l.queue) \cup {<<m, "returned">>}
               /\ l.returned = "none" =>
                     ToSet(c.queue) \subseteq ToSet(l.queue) \cup {<<m, "unmount">>, <<m, "cleanup">>}
<1> DEFINE S == AdCallbacks(m)
           u == <<m, "unmount">>
           v == <<m, "returned">>
           w == <<m, "cleanup">>
           q0 == l.queue
           p1 == IF "unmount" \in l.taken THEN <<>> ELSE <<<<m, "unmount">>>>
           p2 == IF l.returned = "fn" THEN <<<<m, "returned">>>> ELSE <<>>
           p3 == [i \in DOMAIN l.regs |-> <<m, l.regs[Len(l.regs) + 1 - i]>>]
           c == AdCleanup(m, l)
<1>1. DOMAIN l = AdLifeFields /\ l.regs \in {<<>>, <<"cleanup">>} /\ l.returned \in {"none", "fn"}
      /\ q0 \in Seq(S) /\ r \in Seq(S) /\ l.at \in AdBefore \cup AdUnsettled \cup {"settled"}
  BY DEF AdShape
<1>2. /\ IsInjective(q0) /\ IsInjective(r) /\ ToSet(q0) \cap ToSet(r) = {}
      /\ u \in ToSet(q0) \cup ToSet(r) => "unmount" \in l.taken
      /\ w \in ToSet(q0) \cup ToSet(r) => "cleanup" \in l.taken /\ l.regs = <<>>
      /\ v \in ToSet(q0) \cup ToSet(r) => l.returned = "none"
      /\ l.regs /= <<>> => "cleanup" \in l.taken
  BY DEF AdOnce, AdUsed
<1>3. u \in S /\ v \in S /\ w \in S
  BY DEF AdCallbacks
<1>4. u /= v /\ u /= w /\ v /= w
  OBVIOUS
<1>5. p1 = <<>> \/ (p1 = <<u>> /\ u \notin ToSet(q0) \cup ToSet(r))
  BY <1>2
<1>6. p2 = <<>> \/ (p2 = <<v>> /\ v \notin ToSet(q0) \cup ToSet(r))
  BY <1>1, <1>2
<1>7. p3 = <<>> \/ (p3 = <<w>> /\ w \notin ToSet(q0) \cup ToSet(r))
  BY <1>2, <1>1
<1>8. "unmount" \in l.taken => p1 = <<>>
  OBVIOUS
<1>9. l.returned = "none" => p2 = <<>>
  OBVIOUS
<1>10. l.regs = <<>> => p3 = <<>>
  OBVIOUS
<1>11. /\ DOMAIN c = AdLifeFields /\ c.at = l.at /\ c.taken = l.taken \cup {"unmount"}
       /\ c.returned = "none" /\ c.regs = <<>> /\ c.queue = ((q0 \o p1) \o p2) \o p3
  BY ONLY <1>1 DEF AdCleanup, AdLifeFields
<1> HIDE DEF p1, p2, p3, c, S, u, v, w
<1> DEFINE q1 == q0 \o p1
           q2 == q1 \o p2
           q3 == q2 \o p3
<1>12. /\ q1 \in Seq(S) /\ IsInjective(q1) /\ ToSet(q1) \cap ToSet(r) = {}
       /\ ToSet(q1) = ToSet(q0) \cup (IF p1 = <<>> THEN {} ELSE {u})
  BY <1>1, <1>2, <1>3, <1>5, AdPush
<1> HIDE DEF q1
<1>13. p2 = <<>> \/ (p2 = <<v>> /\ v \notin ToSet(q1) \cup ToSet(r))
  BY <1>4, <1>6, <1>12
<1>14. /\ q2 \in Seq(S) /\ IsInjective(q2) /\ ToSet(q2) \cap ToSet(r) = {}
       /\ ToSet(q2) = ToSet(q1) \cup (IF p2 = <<>> THEN {} ELSE {v})
  <2>1. q1 \in Seq(S) /\ IsInjective(q1) /\ ToSet(q1) \cap ToSet(r) = {} /\ v \in S
    BY <1>3, <1>12
  <2> QED BY ONLY <2>1, <1>13, AdPush
<1> HIDE DEF q2
<1>15. p3 = <<>> \/ (p3 = <<w>> /\ w \notin ToSet(q2) \cup ToSet(r))
  BY <1>4, <1>7, <1>12, <1>14
<1>16. /\ q3 \in Seq(S) /\ IsInjective(q3) /\ ToSet(q3) \cap ToSet(r) = {}
       /\ ToSet(q3) = ToSet(q2) \cup (IF p3 = <<>> THEN {} ELSE {w})
  <2>1. q2 \in Seq(S) /\ IsInjective(q2) /\ ToSet(q2) \cap ToSet(r) = {} /\ w \in S
    BY <1>3, <1>14
  <2> QED BY ONLY <2>1, <1>15, AdPush
<1>17. c.queue = q3
  BY <1>11 DEF q1, q2
<1> HIDE DEF q3
<1>18. AdShape(m, c, r)
  BY <1>1, <1>11, <1>16, <1>17 DEF AdShape, S
<1>19. w \in ToSet(q3) \cup ToSet(r) => "cleanup" \in l.taken
  BY <1>2, <1>4, <1>10, <1>12, <1>14, <1>16
<1>20. AdOnce(m, c, r)
  BY <1>2, <1>11, <1>16, <1>17, <1>19 DEF AdOnce, AdUsed, u, v, w
<1>21. "unmount" \in l.taken /\ l.regs = <<>> =>
         ToSet(c.queue) \subseteq ToSet(l.queue) \cup {v}
  BY <1>8, <1>10, <1>12, <1>14, <1>16, <1>17 DEF v
<1>22. l.returned = "none" =>
         ToSet(c.queue) \subseteq ToSet(l.queue) \cup {u, w}
  BY <1>9, <1>12, <1>14, <1>16, <1>17 DEF u, w
<1> QED BY <1>18, <1>20, <1>21, <1>22 DEF c, u, v, w

LEMMA AdElsewhere ==
    ASSUME NEW a, NEW b, NEW m, NEW l, NEW r, AdProgress(a, m, l, r), b.mounts = a.mounts,
           b.pending = m <=> a.pending = m, b.life = m <=> a.life = m
    PROVE  AdProgress(b, m, l, r)
  BY DEF AdProgress

LEMMA AdRanFine ==
    ASSUME NEW a, NEW m, NEW l, NEW r, AdFine(a, m, l, r), l.queue /= <<>>
    PROVE  AdFine(a, m, [l EXCEPT !.queue = Tail(@)], Append(r, Head(l.queue)))
<1> DEFINE c == [l EXCEPT !.queue = Tail(@)]
           t == Append(r, Head(l.queue))
           S == AdCallbacks(m)
<1>1. AdShape(m, l, r) /\ AdOnce(m, l, r) /\ AdProgress(a, m, l, r)
  BY DEF AdFine
<1>2. DOMAIN l = AdLifeFields /\ l.queue \in Seq(S) /\ r \in Seq(S)
  BY <1>1 DEF AdShape
<1>3. IsInjective(l.queue) /\ IsInjective(r) /\ ToSet(l.queue) \cap ToSet(r) = {}
  BY <1>1 DEF AdOnce
<1>4. /\ Tail(l.queue) \in Seq(S) /\ IsInjective(Tail(l.queue)) /\ Head(l.queue) \in S
      /\ Head(l.queue) \in ToSet(l.queue) /\ Head(l.queue) \notin ToSet(Tail(l.queue))
      /\ ToSet(Tail(l.queue)) \subseteq ToSet(l.queue)
  BY <1>2, <1>3, AdTail
<1>5. t \in Seq(S) /\ ToSet(t) = ToSet(r) \cup {Head(l.queue)}
  BY <1>2, <1>4, AdAppendSeq
<1>6. IsInjective(t)
  BY <1>2, <1>3, <1>4, AdAppendOnce
<1>7. /\ DOMAIN c = AdLifeFields /\ c.at = l.at /\ c.gen = l.gen /\ c.aborted = l.aborted
      /\ c.prior = l.prior /\ c.life = l.life /\ c.update = l.update /\ c.taken = l.taken
      /\ c.returned = l.returned /\ c.regs = l.regs /\ c.queue = Tail(l.queue)
  BY <1>2 DEF AdLifeFields
<1> HIDE DEF c, t, S
<1>8. AdShape(m, c, t)
  BY <1>1, <1>4, <1>5, <1>7 DEF AdShape, S
<1>9. AdUsed(c, t) \subseteq AdUsed(l, r)
  BY <1>4, <1>5, <1>7 DEF AdUsed
<1>10. ToSet(c.queue) \cap ToSet(t) = {}
  BY <1>3, <1>4, <1>5, <1>7
<1>11. AdOnce(m, c, t)
  BY <1>1, <1>4, <1>6, <1>7, <1>9, <1>10 DEF AdOnce
<1>12. ~AdUntouched(l, r)
  BY DEF AdUntouched
<1>13. c.at /= "none"
  BY <1>1, <1>7, <1>12 DEF AdProgress, AdBefore
<1>14. AdProgress(a, m, c, t)
  BY <1>1, <1>7, <1>9, <1>12, <1>13 DEF AdProgress
<1> QED BY <1>8, <1>11, <1>14 DEF AdFine, c, t

LEMMA AdAbortKeeps ==
    ASSUME NEW m, NEW l, NEW r, AdShape(m, l, r), AdOnce(m, l, r)
    PROVE  LET c == AdAbort(m, l)
           IN  /\ AdShape(m, c, r) /\ AdOnce(m, c, r) /\ c.aborted = TRUE
               /\ c.at = l.at /\ c.gen = l.gen /\ c.prior = l.prior /\ c.life = l.life
               /\ c.taken = l.taken /\ c.returned = l.returned /\ c.regs = l.regs
               /\ c.queue = l.queue
  BY DEF AdShape, AdAbort, AdLifeFields, AdOnce, AdUsed

\* dispose of one record.
AdEnd(m, l) == IF l.life THEN AdCleanup(m, AdAbort(m, l)) ELSE AdAbort(m, l)

LEMMA AdEndFine ==
    ASSUME NEW a, NEW b, NEW m \in Nat \ {0}, NEW l, NEW r, AdFine(a, m, l, r),
           b.mounts = a.mounts, b.pending = 0, b.life = 0, a.mounts \in Nat, m <= a.mounts
    PROVE  AdFine(b, m, AdEnd(m, l), r)
<1> DEFINE c == AdAbort(m, l)
           e == AdEnd(m, l)
<1>1. AdShape(m, l, r) /\ AdOnce(m, l, r) /\ AdProgress(a, m, l, r)
  BY DEF AdFine
<1>2. /\ AdShape(m, c, r) /\ AdOnce(m, c, r) /\ c.aborted = TRUE
      /\ c.at = l.at /\ c.life = l.life /\ c.taken = l.taken /\ c.returned = l.returned
      /\ c.regs = l.regs /\ c.queue = l.queue
  BY ONLY ZenonT(60), <1>1, AdAbortKeeps
<1> HIDE DEF c
<1>3. CASE ~l.life
  <2>1. e = c
    BY <1>3 DEF AdEnd, c
  <2> HIDE DEF e
  <2>0. ~(m > a.mounts) /\ ~(m > b.mounts) /\ m /= 0
    OBVIOUS
  <2>2. AdProgress(b, m, c, r)
    BY <2>0, <1>1, <1>2, <1>3 DEF AdProgress, AdUntouched, AdUsed, AdBefore, AdUnsettled
  <2> QED BY <1>2, <2>1, <2>2 DEF AdFine, e
<1>4. CASE l.life
  <2>1. e = AdCleanup(m, c)
    BY <1>4 DEF AdEnd, c
  <2> HIDE DEF e
  <2>2. /\ AdShape(m, e, r) /\ AdOnce(m, e, r)
        /\ c.returned = "none" =>
             ToSet(e.queue) \subseteq ToSet(c.queue) \cup {<<m, "unmount">>, <<m, "cleanup">>}
    BY <1>2, <2>1, AdCleanupQueues
  <2>3. DOMAIN c = AdLifeFields
    BY <1>2 DEF AdShape
  <2>4. /\ e.at = c.at /\ e.aborted = c.aborted /\ e.life = c.life
        /\ e.taken = c.taken \cup {"unmount"} /\ e.returned = "none" /\ e.regs = <<>>
    BY ONLY <2>1, <2>3 DEF AdCleanup, AdLifeFields
  <2>5. l.at = "mounting" => <<m, "returned">> \notin AdUsed(e, r)
    BY <1>1, <1>2, <2>2 DEF AdProgress, AdUsed
  <2>0. ~(m > a.mounts) /\ ~(m > b.mounts) /\ m /= 0
    OBVIOUS
  <2>6. AdProgress(b, m, e, r)
    BY <2>0, <1>1, <1>2, <1>4, <2>4, <2>5 DEF AdProgress, AdUntouched, AdBefore, AdUnsettled
  <2> QED BY <2>2, <2>6 DEF AdFine, e
<1> QED BY <1>3, <1>4

-----------------------------------------------------------------------------
(* One record, or only the maps, change.                                   *)

LEMMA AdSoundAt ==
    ASSUME NEW a, NEW lives, NEW ran, AdSound(a, lives, ran)
    PROVE  /\ AdMapsHold(a) /\ DOMAIN lives = 1..AdMounts /\ DOMAIN ran = 1..AdMounts
           /\ \A m \in 1..AdMounts : AdFine(a, m, lives[m], ran[m])
           /\ \A m, n \in 1..AdMounts : m < n => AdWaits(a, m, lives[m].queue, n, lives[n])
  BY DEF AdSound

LEMMA AdOneLife ==
    ASSUME NEW a, NEW b, NEW lives, NEW ran, AdSound(a, lives, ran), AdMapsHold(b),
           NEW k \in 1..AdMounts, NEW l, NEW r, AdFine(b, k, l, r),
           \A m \in 1..AdMounts : m /= k =>
               AdProgress(b, m, lives[m], ran[m]) /\ (b.life = m <=> a.life = m),
           \A m \in 1..AdMounts : m < k => AdWaits(b, m, lives[m].queue, k, l),
           \A n \in 1..AdMounts : k < n => AdWaits(b, k, l.queue, n, lives[n])
    PROVE  AdSound(b, [lives EXCEPT ![k] = l], [ran EXCEPT ![k] = r])
<1> DEFINE lives2 == [lives EXCEPT ![k] = l]
           ran2 == [ran EXCEPT ![k] = r]
<1>1. /\ lives = [m \in 1..AdMounts |-> lives[m]] /\ ran = [m \in 1..AdMounts |-> ran[m]]
      /\ \A m \in 1..AdMounts : AdFine(a, m, lives[m], ran[m])
      /\ \A m, n \in 1..AdMounts : m < n => AdWaits(a, m, lives[m].queue, n, lives[n])
  BY DEF AdSound
<1>2. /\ lives2 = [m \in 1..AdMounts |-> IF m = k THEN l ELSE lives[m]]
      /\ ran2 = [m \in 1..AdMounts |-> IF m = k THEN r ELSE ran[m]]
  BY <1>1
<1> HIDE DEF lives2, ran2
<1>3. /\ lives2[k] = l /\ ran2[k] = r
      /\ \A m \in 1..AdMounts : m /= k => lives2[m] = lives[m] /\ ran2[m] = ran[m]
  BY <1>2
<1>4. lives2 = [m \in 1..AdMounts |-> lives2[m]]
  BY <1>2
<1>5. ran2 = [m \in 1..AdMounts |-> ran2[m]]
  BY <1>2
<1>6. \A m \in 1..AdMounts : AdFine(b, m, lives2[m], ran2[m])
  BY <1>3, <1>1 DEF AdFine
<1>7. \A m, n \in 1..AdMounts : m < n => AdWaits(b, m, lives2[m].queue, n, lives2[n])
  <2> SUFFICES ASSUME NEW m \in 1..AdMounts, NEW n \in 1..AdMounts, m < n
               PROVE  AdWaits(b, m, lives2[m].queue, n, lives2[n])
    OBVIOUS
  <2>1. m /= n
    OBVIOUS
  <2>2. CASE m = k
    BY <2>1, <2>2, <1>3
  <2>3. CASE n = k
    BY <2>1, <2>3, <1>3
  <2>4. CASE m /= k /\ n /= k
    BY <1>1, <2>4, <1>3 DEF AdWaits
  <2> QED BY <2>2, <2>3, <2>4
<1> QED BY <1>4, <1>5, <1>6, <1>7 DEF AdSound, lives2, ran2

LEMMA AdMapsOnly ==
    ASSUME NEW a, NEW b, NEW lives, NEW ran, AdSound(a, lives, ran), DOMAIN b = AdMapFields,
           b.mounts = a.mounts, b.pending = a.pending, b.task = a.task, b.life = a.life
    PROVE  AdSound(b, lives, ran)
  BY AdElsewhere DEF AdSound, AdMapsHold, AdFine, AdWaits

\* What a later mount waits for does not grow, or there is no later mount.
LEMMA AdLaterWaits ==
    ASSUME NEW a, NEW b, NEW lives, NEW ran, AdSound(a, lives, ran), AdMapsHold(b),
           b.mounts = a.mounts, NEW k \in 1..AdMounts, NEW queue,
           \A n \in 1..AdMounts : n /= k => (b.life = n <=> a.life = n),
           \/ k = a.mounts
           \/ \A x \in {"unmount", "cleanup"} :
                 <<k, x>> \in ToSet(queue) => <<k, x>> \in ToSet(lives[k].queue)
    PROVE  \A n \in 1..AdMounts : k < n => AdWaits(b, k, queue, n, lives[n])
<1> SUFFICES ASSUME NEW n \in 1..AdMounts, k < n PROVE AdWaits(b, k, queue, n, lives[n])
  OBVIOUS
<1>1. AdFine(a, n, lives[n], ran[n]) /\ AdWaits(a, k, lives[k].queue, n, lives[n])
  BY DEF AdSound
<1>2. n /= k
  OBVIOUS
<1>3. CASE k = a.mounts
  BY <1>3, <1>1, <1>2, AdBoundsAssumption DEF AdFine, AdProgress, AdMapsHold, AdWaits
<1>4. CASE \A x \in {"unmount", "cleanup"} :
              <<k, x>> \in ToSet(queue) => <<k, x>> \in ToSet(lives[k].queue)
  BY <1>1, <1>2, <1>4 DEF AdWaits
<1> QED BY <1>3, <1>4

\* A record that stays where it is waits for what it waited for.
LEMMA AdStillWaits ==
    ASSUME NEW a, NEW b, NEW m, NEW queue, NEW k, NEW l, NEW c, AdWaits(a, m, queue, k, l),
           c.at = l.at, c.prior = l.prior, b.life = k => a.life = k
    PROVE  AdWaits(b, m, queue, k, c)
  BY DEF AdWaits

-----------------------------------------------------------------------------
(* Disposal and mounting.                                                  *)

LEMMA AdEndKeeps ==
    ASSUME NEW m, NEW l, DOMAIN l = AdLifeFields
    PROVE  AdEnd(m, l).at = l.at /\ AdEnd(m, l).prior = l.prior
  BY DEF AdAbort, AdLifeFields, AdCleanup, AdEnd

LEMMA AdDisposedSound ==
    ASSUME NEW a, NEW b, NEW lives, NEW ran, AdSound(a, lives, ran), DOMAIN b = AdMapFields,
           b.mounts = a.mounts, b.pending = 0, b.task = 0, b.life = 0
    PROVE  AdSound(b, AdDisposed(a, lives), ran)
<1> DEFINE k == a.mounts
           lives2 == AdDisposed(a, lives)
<1>1. /\ AdMapsHold(a) /\ DOMAIN lives = 1..AdMounts /\ DOMAIN ran = 1..AdMounts
      /\ \A m \in 1..AdMounts : AdFine(a, m, lives[m], ran[m])
      /\ \A m, n \in 1..AdMounts : m < n => AdWaits(a, m, lives[m].queue, n, lives[n])
  BY AdSoundAt
<1>2. lives = [m \in 1..AdMounts |-> lives[m]] /\ ran = [m \in 1..AdMounts |-> ran[m]]
  BY DEF AdSound
<1>3. /\ k \in 0..AdMounts /\ a.pending = a.task /\ a.pending \in {0, k} /\ a.life \in {0, k}
      /\ k \in Nat /\ AdMounts \in Nat
  BY <1>1, AdBoundsAssumption DEF AdMapsHold
<1>4. lives2 = [m \in 1..AdMounts |-> IF m \in {a.pending, a.life} THEN AdEnd(m, lives[m]) ELSE lives[m]]
  BY <1>1 DEF AdDisposed, AdEnd
<1>5. AdMapsHold(b)
  BY <1>1 DEF AdMapsHold
<1> HIDE DEF lives2
<1>6. CASE a.pending = 0 /\ a.life = 0
  <2>1. \A m \in 1..AdMounts : m \notin {a.pending, a.life}
    BY <1>6
  <2>2. lives2 = lives
    BY <1>4, <1>2, <2>1
  <2>3. AdSound(b, lives, ran)
    BY <1>6, <1>3, AdMapsOnly
  <2> QED BY <2>2, <2>3 DEF lives2
<1>7. CASE ~(a.pending = 0 /\ a.life = 0)
  <2>1. k \in 1..AdMounts \/ k = 0
    BY <1>3
  <2>2. k \in 1..AdMounts /\ k \in {a.pending, a.life}
    BY <1>7, <1>3, <2>1
  <2>3. \A m \in 1..AdMounts : m \in {a.pending, a.life} <=> m = k
    BY <1>3, <2>2
  <2> DEFINE l == AdEnd(k, lives[k])
  <2>4. lives2 = [lives EXCEPT ![k] = l]
    BY <1>4, <1>2, <2>3
  <2>5. ran = [ran EXCEPT ![k] = ran[k]]
    BY <1>2, <2>2
  <2>6. AdFine(a, k, lives[k], ran[k])
    BY <1>1, <2>2
  <2>7. AdFine(b, k, l, ran[k])
    BY <2>2, <1>3, <2>6, AdEndFine
  <2>8. l.at = lives[k].at /\ l.prior = lives[k].prior
    BY <2>6, AdEndKeeps DEF AdFine, AdShape
  <2> HIDE DEF l
  <2>9. \A m \in 1..AdMounts : m /= k =>
           AdProgress(b, m, lives[m], ran[m]) /\ (b.life = m <=> a.life = m)
    BY <1>3, <1>1, AdElsewhere DEF AdFine
  <2>10. \A m \in 1..AdMounts : m < k => AdWaits(b, m, lives[m].queue, k, l)
    <3> SUFFICES ASSUME NEW m \in 1..AdMounts, m < k PROVE AdWaits(b, m, lives[m].queue, k, l)
      OBVIOUS
    <3>1. AdWaits(a, m, lives[m].queue, k, lives[k])
      BY <1>1, <2>2
    <3>2. b.life /= k
      BY <2>2
    <3> QED BY <3>1, <3>2, <2>8 DEF AdWaits
  <2>11. \A n \in 1..AdMounts : k < n => AdWaits(b, k, l.queue, n, lives[n])
    <3>1. \A n \in 1..AdMounts : n /= k => (b.life = n <=> a.life = n)
      BY <2>9
    <3> QED BY <3>1, <1>5, <2>2, AdLaterWaits
  <2>12. AdSound(b, [lives EXCEPT ![k] = l], [ran EXCEPT ![k] = ran[k]])
    <3> HIDE DEF k
    <3> QED BY <1>5, <2>2, <2>7, <2>9, <2>10, <2>11, AdOneLife
  <2> QED BY <2>4, <2>5, <2>12 DEF lives2
<1> QED BY <1>6, <1>7

LEMMA AdMountSound ==
    ASSUME NEW a, NEW lives, NEW ran, AdSound(a, lives, ran), AdMayMount(a)
    PROVE  AdSound(AdMountMaps(a), AdMountLives(a, lives), ran)
<1> DEFINE k == a.mounts + 1
           b == AdMountMaps(a)
           l == [lives[k] EXCEPT !.at = "waiting", !.gen = a.gen + 1,
                              !.prior = AdOutstanding(lives) \ AdLate(lives)]
<1>1. /\ AdMapsHold(a) /\ DOMAIN lives = 1..AdMounts /\ DOMAIN ran = 1..AdMounts
      /\ \A m \in 1..AdMounts : AdFine(a, m, lives[m], ran[m])
      /\ \A m, n \in 1..AdMounts : m < n => AdWaits(a, m, lives[m].queue, n, lives[n])
  BY AdSoundAt
<1>2. ran = [m \in 1..AdMounts |-> ran[m]]
  BY DEF AdSound
<1>3. /\ DOMAIN a = AdMapFields /\ a.mounts \in Nat /\ AdMounts \in Nat /\ a.mounts < AdMounts
      /\ a.pending = 0 /\ a.life = 0 /\ a.task = 0
  BY <1>1, AdBoundsAssumption DEF AdMapsHold, AdMayMount
<1>4. k \in 1..AdMounts /\ k > a.mounts /\ k /= 0
  BY <1>3
<1>5. DOMAIN b = AdMapFields /\ b.mounts = k /\ b.pending = k /\ b.task = k /\ b.life = 0
  BY <1>3 DEF AdMountMaps, AdMapFields
<1>6. AdMountLives(a, lives) = [lives EXCEPT ![k] = l]
  BY <1>4, <1>1 DEF AdMountLives
<1>7. lives[k] = AdNoLife /\ AdFine(a, k, lives[k], ran[k])
  BY <1>1, <1>4 DEF AdFine, AdProgress
<1>8. /\ DOMAIN l = AdLifeFields /\ l.at = "waiting" /\ l.prior = AdOutstanding(lives) \ AdLate(lives)
      /\ l.aborted = FALSE /\ l.life = FALSE /\ l.returned = "none" /\ l.regs = <<>>
      /\ l.taken = {} /\ l.queue = <<>>
  BY <1>7 DEF AdNoLife, AdLifeFields
<1>9. ran[k] = <<>>
  BY <1>7 DEF AdFine, AdProgress, AdUntouched, AdBefore, AdNoLife
<1>10. AdMapsHold(b)
  BY <1>4, <1>5 DEF AdMapsHold
<1> HIDE DEF l, b
<1>11. AdShape(k, l, ran[k])
  BY <1>8, <1>9, AdEmpty DEF AdShape, AdUnsettled
<1>12. AdOnce(k, l, ran[k])
  BY <1>8, <1>9, AdEmpty DEF AdOnce, AdUsed
<1>13. AdProgress(b, k, l, ran[k])
  BY <1>4, <1>5, <1>8, <1>9 DEF AdProgress, AdUntouched, AdUnsettled, AdBefore
<1>14. \A m \in 1..AdMounts : m /= k =>
         AdProgress(b, m, lives[m], ran[m]) /\ (b.life = m <=> a.life = m)
  <2> SUFFICES ASSUME NEW m \in 1..AdMounts, m /= k PROVE AdProgress(b, m, lives[m], ran[m])
    BY <1>3, <1>5
  <2>1. AdProgress(a, m, lives[m], ran[m])
    BY <1>1 DEF AdFine
  <2>2. /\ b.pending /= m /\ a.pending /= m /\ b.life /= m /\ a.life /= m
        /\ m > a.mounts <=> m > b.mounts
    BY <1>3, <1>5
  <2>3. lives[m].at \in AdUnsettled => lives[m].aborted
    BY <2>1, <2>2 DEF AdProgress
  <2> QED BY <2>1, <2>2 DEF AdProgress
<1>15. \A m \in 1..AdMounts : m < k => AdWaits(b, m, lives[m].queue, k, l)
  <2>1. \A m : <<m, "unmount">> \notin AdLate(lives) /\ <<m, "cleanup">> \notin AdLate(lives)
    BY DEF AdLate
  <2>2. \A m \in 1..AdMounts : ToSet(lives[m].queue) \subseteq AdOutstanding(lives)
    BY <1>1 DEF AdOutstanding
  <2> QED BY <1>8, <1>4, <1>5, <2>1, <2>2 DEF AdWaits
<1>16. \A n \in 1..AdMounts : k < n => AdWaits(b, k, l.queue, n, lives[n])
  BY <1>8, AdEmpty DEF AdWaits
<1>17. AdSound(b, [lives EXCEPT ![k] = l], [ran EXCEPT ![k] = ran[k]])
  <2>1. AdFine(b, k, l, ran[k])
    BY <1>11, <1>12, <1>13 DEF AdFine
  <2> HIDE DEF k
  <2> QED BY <1>4, <1>10, <2>1, <1>14, <1>15, <1>16, AdOneLife
<1>18. ran = [ran EXCEPT ![k] = ran[k]]
  BY <1>2, <1>4
<1> QED BY <1>6, <1>17, <1>18 DEF b

-----------------------------------------------------------------------------
(* The steps of one mount.                                                 *)

LEMMA AdStep ==
    ASSUME NEW a, NEW b, NEW lives, NEW ran, AdSound(a, lives, ran), AdMapsHold(b),
           b.mounts = a.mounts, NEW k \in 1..AdMounts, NEW l, NEW r, AdFine(b, k, l, r),
           \A m \in 1..AdMounts : m /= k =>
               (b.pending = m <=> a.pending = m) /\ (b.life = m <=> a.life = m),
           \A m \in 1..AdMounts : m < k => AdWaits(b, m, lives[m].queue, k, l),
           \/ k = a.mounts
           \/ \A x \in {"unmount", "cleanup"} :
                 <<k, x>> \in ToSet(l.queue) => <<k, x>> \in ToSet(lives[k].queue)
    PROVE  AdSound(b, [lives EXCEPT ![k] = l], [ran EXCEPT ![k] = r])
<1>1. \A m \in 1..AdMounts : m /= k =>
        AdProgress(b, m, lives[m], ran[m]) /\ (b.life = m <=> a.life = m)
  BY AdElsewhere DEF AdSound, AdFine
<1>2. \A n \in 1..AdMounts : k < n => AdWaits(b, k, l.queue, n, lives[n])
  BY AdLaterWaits
<1> QED BY <1>1, <1>2, AdOneLife

\* The callbacks that ran are the same.
LEMMA AdQuiet ==
    ASSUME NEW a, NEW lives, NEW ran, AdSound(a, lives, ran), NEW k \in 1..AdMounts
    PROVE  [ran EXCEPT ![k] = ran[k]] = ran
  BY DEF AdSound

LEMMA AdSettledMaps ==
    ASSUME NEW a, AdMapsHold(a), NEW k \in Nat \ {0}
    PROVE  LET b == AdSettled(a, k)
           IN  /\ AdMapsHold(b) /\ b.mounts = a.mounts /\ b.life = a.life /\ b.pending /= k
               /\ \A m : m /= k /\ m /= 0 => (b.pending = m <=> a.pending = m)
  BY DEF AdMapsHold, AdSettled, AdMapFields

LEMMA AdSettledFine ==
    ASSUME NEW b, NEW k \in Nat, NEW c, NEW r, AdShape(k, c, r), AdOnce(k, c, r),
           b.mounts \in Nat, k <= b.mounts, b.pending /= k,
           ~c.life => c.taken = {} /\ c.regs = <<>> /\ c.returned = "none" /\ AdUntouched(c, r),
           c.aborted => c.regs = <<>> /\ (c.life => "unmount" \in c.taken),
           b.life = k => c.life /\ ~c.aborted /\ AdUntouched(c, r),
           b.life /= k /\ c.life => "unmount" \in c.taken /\ c.returned = "none"
    PROVE  AdFine(b, k, [c EXCEPT !.at = "settled", !.prior = {}], r)
<1> DEFINE f == [c EXCEPT !.at = "settled", !.prior = {}]
<1>1. DOMAIN c = AdLifeFields
  BY DEF AdShape
<1>2. /\ DOMAIN f = AdLifeFields /\ f.at = "settled" /\ f.aborted = c.aborted
      /\ f.life = c.life /\ f.taken = c.taken /\ f.returned = c.returned /\ f.regs = c.regs
      /\ f.queue = c.queue
  BY <1>1 DEF AdLifeFields
<1> HIDE DEF f
<1>3. AdShape(k, f, r)
  BY <1>2 DEF AdShape
<1>4. AdOnce(k, f, r)
  BY <1>2 DEF AdOnce, AdUsed
<1>5. ~(k > b.mounts)
  OBVIOUS
<1>6. AdProgress(b, k, f, r)
  BY <1>2, <1>5 DEF AdProgress, AdUntouched, AdBefore, AdUnsettled
<1> QED BY <1>3, <1>4, <1>6 DEF AdFine, f

\* A mount that is given up, or has failed, settles; nothing of it is the root's.
LEMMA AdSettleSound ==
    ASSUME NEW a, NEW d, NEW lives, NEW ran, AdSound(a, lives, ran), NEW k \in 1..AdMounts,
           DOMAIN d = AdMapFields, d.mounts = a.mounts, d.pending = a.pending, d.task = a.task,
           d.life = a.life, lives[k].at \in AdUnsettled \ {"mounting"},
           NEW c, \/ c = lives[k]
                  \/ c = AdAbort(k, lives[k]) /\ lives[k].at \in AdBefore
    PROVE  AdSound(AdSettled(d, k),
                   [lives EXCEPT ![k] = [c EXCEPT !.at = "settled", !.prior = {}]], ran)
<1> DEFINE b == AdSettled(d, k)
           f == [c EXCEPT !.at = "settled", !.prior = {}]
           l == lives[k]
           r == ran[k]
<1>1. AdSound(d, lives, ran)
  BY AdMapsOnly
<1>2. AdFine(d, k, l, r) /\ AdMapsHold(d)
  BY <1>1, AdSoundAt
<1>3. AdShape(k, l, r) /\ AdOnce(k, l, r) /\ AdProgress(d, k, l, r)
  BY <1>2 DEF AdFine
<1>4. /\ AdMapsHold(b) /\ b.mounts = d.mounts /\ b.life = d.life /\ b.pending /= k
      /\ \A m : m /= k /\ m /= 0 => (b.pending = m <=> d.pending = m)
  <2>1. k \in Nat \ {0}
    OBVIOUS
  <2> QED BY <1>2, <2>1, AdSettledMaps
<1> HIDE DEF b
<1>5. d.mounts \in Nat /\ k <= d.mounts /\ k \in Nat /\ b.life /= k
  BY <1>2, <1>3, <1>4, AdBoundsAssumption DEF AdMapsHold, AdProgress, AdUnsettled
<1>6. /\ AdShape(k, c, r) /\ AdOnce(k, c, r) /\ c.life = l.life /\ c.taken = l.taken
      /\ c.returned = l.returned /\ c.regs = l.regs /\ c.queue = l.queue
      /\ c = l \/ l.at \in AdBefore
  <2>1. CASE c = l
    BY <2>1, <1>3
  <2>2. CASE c = AdAbort(k, l) /\ l.at \in AdBefore
    <3> DEFINE e == AdAbort(k, l)
    <3> HIDE DEF l, r
    <3>1. /\ AdShape(k, e, r) /\ AdOnce(k, e, r) /\ e.life = l.life /\ e.taken = l.taken
          /\ e.returned = l.returned /\ e.regs = l.regs /\ e.queue = l.queue
      BY ONLY <1>3, AdAbortKeeps
    <3> HIDE DEF e
    <3>2. c = e
      BY <2>2 DEF e
    <3> QED BY <2>2, <3>1, <3>2
  <2> QED BY <2>1, <2>2
<1>7. c.life => "unmount" \in c.taken /\ c.returned = "none"
  BY <1>3, <1>6 DEF AdProgress, AdBefore, AdUnsettled
<1>8. ~c.life => c.taken = {} /\ c.regs = <<>> /\ c.returned = "none" /\ AdUntouched(c, r)
  BY <1>3, <1>6 DEF AdProgress, AdUntouched
<1>9. c.aborted => c.regs = <<>>
  <2>1. CASE l.aborted
    BY <2>1, <1>3, <1>6 DEF AdProgress
  <2>2. CASE ~l.aborted /\ l.life
    <3>1. l.at \notin AdBefore
      BY <2>2, <1>3 DEF AdProgress
    <3> QED BY <2>2, <3>1, <1>6
  <2>3. CASE ~l.life
    BY <2>3, <1>8, <1>6
  <2> QED BY <2>1, <2>2, <2>3
<1>10. AdFine(b, k, f, r)
  BY <1>4, <1>5, <1>6, <1>7, <1>8, <1>9, AdSettledFine
<1>11. f.at = "settled" /\ f.queue = l.queue
  BY <1>6 DEF AdShape, AdLifeFields
<1> HIDE DEF f
<1>12. \A m \in 1..AdMounts : m < k => AdWaits(b, m, lives[m].queue, k, f)
  BY <1>5, <1>11 DEF AdWaits
<1>13. AdSound(b, [lives EXCEPT ![k] = f], [ran EXCEPT ![k] = r])
  <2>1. \A m \in 1..AdMounts : m /= k =>
          (b.pending = m <=> d.pending = m) /\ (b.life = m <=> d.life = m)
    BY <1>4
  <2>2. \A x \in {"unmount", "cleanup"} :
           <<k, x>> \in ToSet(f.queue) => <<k, x>> \in ToSet(lives[k].queue)
    BY <1>11
  <2>3. b.mounts = d.mounts /\ AdMapsHold(b)
    BY <1>4
  <2> HIDE DEF r
  <2> QED BY ONLY <1>1, <2>3, <1>10, <2>1, <2>2, <1>12, k \in 1..AdMounts, AdStep
<1> QED BY <1>13, AdQuiet DEF b, f

\* The plugin returned in time: its lifecycle is the root's.
LEMMA AdAdopted ==
    ASSUME NEW a, NEW lives, NEW ran, AdSound(a, lives, ran), NEW k \in 1..AdMounts,
           lives[k].at = "mounting", a.pending = k, ~lives[k].aborted,
           NEW d, d = [a EXCEPT !.life = k, !.loading = FALSE],
           NEW ret \in {"none", "fn"}, NEW c, c = [lives[k] EXCEPT !.returned = ret]
    PROVE  AdSound(AdSettled(d, k),
                   [lives EXCEPT ![k] = [c EXCEPT !.at = "settled", !.prior = {}]], ran)
<1> DEFINE b == AdSettled(d, k)
           f == [c EXCEPT !.at = "settled", !.prior = {}]
           l == lives[k]
           r == ran[k]
<1>1. AdFine(a, k, l, r) /\ AdMapsHold(a)
  BY AdSoundAt
<1>2. AdShape(k, l, r) /\ AdOnce(k, l, r) /\ AdProgress(a, k, l, r)
  BY <1>1 DEF AdFine
<1>3. /\ a.mounts = k /\ a.pending = k /\ a.task = k /\ a.life = 0
      /\ DOMAIN a = AdMapFields
  BY <1>1 DEF AdMapsHold
<1>4. DOMAIN d = AdMapFields /\ d.mounts = k /\ d.pending = k /\ d.task = k /\ d.life = k
  BY <1>3 DEF AdMapFields
<1>5. DOMAIN b = AdMapFields /\ b.mounts = k /\ b.pending = 0 /\ b.task = 0 /\ b.life = k
  BY <1>4 DEF AdSettled, AdMapFields
<1> HIDE DEF b
<1>6. AdMapsHold(b)
  BY <1>1, <1>3, <1>5 DEF AdMapsHold
<1>7. DOMAIN l = AdLifeFields
  BY <1>2 DEF AdShape
<1>8. /\ DOMAIN c = AdLifeFields /\ c.at = l.at /\ c.aborted = l.aborted /\ c.life = l.life
      /\ c.taken = l.taken /\ c.returned = ret /\ c.regs = l.regs /\ c.queue = l.queue
  BY <1>7 DEF AdLifeFields
<1>9. l.life /\ AdUntouched(l, r) /\ l.returned = "none"
  BY <1>2 DEF AdProgress
<1>10. AdShape(k, c, r)
  BY <1>2, <1>8 DEF AdShape
<1>11. AdOnce(k, c, r)
  <2>1. AdUsed(c, r) = {}
    BY <1>8, <1>9, AdEmpty DEF AdUsed, AdUntouched
  <2> QED BY <2>1, <1>2, <1>8 DEF AdOnce
<1>12. c.life /\ ~c.aborted /\ AdUntouched(c, r)
  BY <1>8, <1>9 DEF AdUntouched
<1>13. AdFine(b, k, f, r)
  <2>1. b.mounts \in Nat /\ k \in Nat /\ k <= b.mounts /\ b.pending /= k
    BY <1>5
  <2> QED BY <2>1, <1>5, <1>10, <1>11, <1>12, AdSettledFine
<1>14. f.at = "settled" /\ f.queue = <<>>
  BY <1>8, <1>12 DEF AdLifeFields, AdUntouched
<1> HIDE DEF f
<1>15. \A m \in 1..AdMounts : m < k => AdWaits(b, m, lives[m].queue, k, f)
  BY AdSoundAt DEF AdWaits
<1>16. \A m \in 1..AdMounts : m /= k =>
         (b.pending = m <=> a.pending = m) /\ (b.life = m <=> a.life = m)
  BY <1>3, <1>5
<1>17. AdSound(b, [lives EXCEPT ![k] = f], [ran EXCEPT ![k] = r])
  <2>1. k = a.mounts /\ b.mounts = a.mounts
    BY <1>3, <1>5
  <2> HIDE DEF r
  <2> QED BY <2>1, <1>6, <1>13, <1>15, <1>16, AdStep
<1> QED BY <1>17, AdQuiet DEF b, f

\* The maps do not change, nor does where the record stands with earlier ones.
LEMMA AdStepHere ==
    ASSUME NEW a, NEW lives, NEW ran, AdSound(a, lives, ran), NEW k \in 1..AdMounts,
           NEW l, AdFine(a, k, l, ran[k]),
           \A m \in 1..AdMounts : m < k => AdWaits(a, m, lives[m].queue, k, l),
           \/ k = a.mounts
           \/ \A x \in {"unmount", "cleanup"} :
                 <<k, x>> \in ToSet(l.queue) => <<k, x>> \in ToSet(lives[k].queue)
    PROVE  AdSound(a, [lives EXCEPT ![k] = l], ran)
<1>1. AdMapsHold(a)
  BY AdSoundAt
<1>2. AdSound(a, [lives EXCEPT ![k] = l], [ran EXCEPT ![k] = ran[k]])
  BY <1>1, AdStep
<1> QED BY <1>2, AdQuiet

\* The teardown a mount waited for is over.
LEMMA AdImporting ==
    ASSUME NEW a, NEW lives, NEW ran, AdSound(a, lives, ran), NEW k \in 1..AdMounts,
           lives[k].at = "waiting", lives[k].prior \cap AdOutstanding(lives) = {}
    PROVE  AdSound(a, [lives EXCEPT ![k] = [lives[k] EXCEPT !.at = "importing", !.prior = {}]], ran)
<1> DEFINE l == lives[k]
           r == ran[k]
           f == [l EXCEPT !.at = "importing", !.prior = {}]
<1>1. AdShape(k, l, r) /\ AdOnce(k, l, r) /\ AdProgress(a, k, l, r)
  BY AdSoundAt DEF AdFine
<1>2. DOMAIN l = AdLifeFields
  BY <1>1 DEF AdShape
<1>3. /\ DOMAIN f = AdLifeFields /\ f.at = "importing" /\ f.aborted = l.aborted
      /\ f.life = l.life /\ f.taken = l.taken /\ f.returned = l.returned /\ f.regs = l.regs
      /\ f.queue = l.queue
  BY <1>2 DEF AdLifeFields
<1> HIDE DEF f
<1>4. AdShape(k, f, r)
  BY <1>1, <1>3 DEF AdShape, AdBefore
<1>5. AdOnce(k, f, r)
  BY <1>1, <1>3 DEF AdOnce, AdUsed
<1>6. AdProgress(a, k, f, r)
  BY <1>1, <1>3 DEF AdProgress, AdUntouched, AdBefore, AdUnsettled
<1>7. a.life /= k
  BY <1>1 DEF AdProgress
<1>8. \A m \in 1..AdMounts : m < k => AdWaits(a, m, lives[m].queue, k, f)
  <2> SUFFICES ASSUME NEW m \in 1..AdMounts, m < k PROVE AdWaits(a, m, lives[m].queue, k, f)
    OBVIOUS
  <2>1. AdWaits(a, m, lives[m].queue, k, l)
    BY AdSoundAt
  <2>2. ToSet(lives[m].queue) \subseteq AdOutstanding(lives)
    BY AdSoundAt DEF AdOutstanding
  <2> QED BY <2>1, <2>2 DEF AdWaits
<1>9. AdFine(a, k, f, r)
  BY <1>4, <1>5, <1>6 DEF AdFine
<1> QED
  BY <1>3, <1>8, <1>9, AdStepHere DEF f

\* The plugin is called.
LEMMA AdMounting ==
    ASSUME NEW a, NEW lives, NEW ran, AdSound(a, lives, ran), NEW k \in 1..AdMounts,
           lives[k].at = "importing", a.pending = k, ~lives[k].aborted, NEW up
    PROVE  AdSound(a, [lives EXCEPT ![k] = [lives[k] EXCEPT !.at = "mounting", !.life = TRUE,
                                                            !.update = up]], ran)
<1> DEFINE l == lives[k]
           r == ran[k]
           f == [l EXCEPT !.at = "mounting", !.life = TRUE, !.update = up]
<1>1. AdShape(k, l, r) /\ AdOnce(k, l, r) /\ AdProgress(a, k, l, r)
  BY AdSoundAt DEF AdFine
<1>2. DOMAIN l = AdLifeFields
  BY <1>1 DEF AdShape
<1>3. /\ DOMAIN f = AdLifeFields /\ f.at = "mounting" /\ f.aborted = l.aborted
      /\ f.life = TRUE /\ f.taken = l.taken /\ f.returned = l.returned /\ f.regs = l.regs
      /\ f.queue = l.queue
  BY <1>2 DEF AdLifeFields
<1>4. ~l.life /\ l.returned = "none" /\ AdUntouched(l, r)
  BY <1>1 DEF AdProgress, AdBefore
<1> HIDE DEF f
<1>5. AdShape(k, f, r)
  BY <1>1, <1>3 DEF AdShape, AdUnsettled
<1>6. AdOnce(k, f, r)
  BY <1>1, <1>3 DEF AdOnce, AdUsed
<1>7. AdUntouched(f, r) /\ AdUsed(f, r) = {}
  BY <1>3, <1>4, AdEmpty DEF AdUntouched, AdUsed
<1>8. AdProgress(a, k, f, r)
  BY <1>1, <1>3, <1>4, <1>7 DEF AdProgress, AdBefore, AdUnsettled
<1>9. \A m \in 1..AdMounts : m < k => AdWaits(a, m, lives[m].queue, k, f)
  BY AdSoundAt DEF AdWaits
<1>10. AdFine(a, k, f, r)
  BY <1>5, <1>6, <1>8 DEF AdFine
<1> QED
  BY <1>3, <1>9, <1>10, AdStepHere DEF f

\* The plugin is left behind: what it did is cleaned up.
LEMMA AdLeft ==
    ASSUME NEW a, NEW lives, NEW ran, AdSound(a, lives, ran), NEW k \in 1..AdMounts,
           lives[k].at = "mounting", NEW at \in {"failed", "abandoned"},
           NEW c, AdShape(k, c, ran[k]), AdOnce(k, c, ran[k]), c.life = lives[k].life,
           c.aborted = lives[k].aborted \/ c.aborted = TRUE, c.taken = lives[k].taken,
           c.regs = lives[k].regs, c.queue = lives[k].queue
    PROVE  AdSound(a, [lives EXCEPT ![k] = [AdCleanup(k, c) EXCEPT !.at = at]], ran)
<1> DEFINE l == lives[k]
           r == ran[k]
           e == AdCleanup(k, c)
           f == [e EXCEPT !.at = at]
           v == <<k, "returned">>
<1>1. AdProgress(a, k, l, r) /\ AdMapsHold(a)
  BY AdSoundAt DEF AdFine
<1>2. DOMAIN c = AdLifeFields
  BY DEF AdShape
<1>3. /\ AdShape(k, e, r) /\ AdOnce(k, e, r)
      /\ "unmount" \in c.taken /\ c.regs = <<>> => ToSet(e.queue) \subseteq ToSet(c.queue) \cup {v}
  BY AdCleanupQueues DEF r
<1>4. /\ DOMAIN e = AdLifeFields /\ e.aborted = c.aborted /\ e.life = c.life
      /\ e.taken = c.taken \cup {"unmount"} /\ e.returned = "none" /\ e.regs = <<>>
  BY ONLY <1>2 DEF AdCleanup, AdLifeFields
<1> HIDE DEF e
<1>5. /\ DOMAIN f = AdLifeFields /\ f.at = at /\ f.aborted = e.aborted
      /\ f.life = e.life /\ f.taken = e.taken /\ f.returned = e.returned /\ f.regs = e.regs
      /\ f.queue = e.queue
  BY <1>4 DEF AdLifeFields
<1> HIDE DEF f
<1>6. AdShape(k, f, r)
  BY <1>3, <1>5 DEF AdShape, AdUnsettled
<1>7. AdOnce(k, f, r)
  BY <1>3, <1>5 DEF AdOnce, AdUsed
<1>8. l.life /\ a.life /= k /\ (a.pending = k \/ l.aborted)
  BY <1>1 DEF AdProgress, AdUnsettled
<1>9. f.aborted => f.regs = <<>>
  BY <1>4, <1>5
<1>10. f.life /\ "unmount" \in f.taken /\ f.returned = "none" /\ f.regs = <<>>
  BY <1>4, <1>5, <1>8
<1>11. a.pending = k \/ f.aborted
  BY <1>4, <1>5, <1>8
<1>12. k > a.mounts <=> l.at = "none"
  BY <1>1 DEF AdProgress
<1>13. AdProgress(a, k, f, r)
  BY <1>5, <1>8, <1>10, <1>11, <1>12 DEF AdProgress, AdBefore, AdUnsettled
<1>14. \A m \in 1..AdMounts : m < k => AdWaits(a, m, lives[m].queue, k, f)
  <2> SUFFICES ASSUME NEW m \in 1..AdMounts, m < k PROVE AdWaits(a, m, lives[m].queue, k, f)
    OBVIOUS
  <2>1. AdWaits(a, m, lives[m].queue, k, l)
    BY AdSoundAt
  <2> QED BY <2>1, <1>5 DEF AdWaits
<1>15. \/ k = a.mounts
       \/ \A x \in {"unmount", "cleanup"} :
             <<k, x>> \in ToSet(f.queue) => <<k, x>> \in ToSet(lives[k].queue)
  BY <1>1, <1>8, <1>3, <1>5 DEF AdMapsHold, AdProgress
<1>16. AdFine(a, k, f, r)
  BY <1>6, <1>7, <1>13 DEF AdFine
<1> QED
  BY <1>14, <1>15, <1>16, AdStepHere DEF f, e

\* onCleanup, before and after the abort.
LEMMA AdRegisteredFine ==
    ASSUME NEW a, NEW k, NEW l, NEW r, AdFine(a, k, l, r), l.life, l.regs = <<>>,
           "cleanup" \notin l.taken, ~l.aborted
    PROVE  AdFine(a, k, [l EXCEPT !.regs = Append(@, "cleanup"), !.taken = @ \cup {"cleanup"}], r)
<1> DEFINE f == [l EXCEPT !.regs = Append(@, "cleanup"), !.taken = @ \cup {"cleanup"}]
<1>1. AdShape(k, l, r) /\ AdOnce(k, l, r) /\ AdProgress(a, k, l, r)
  BY DEF AdFine
<1>2. DOMAIN l = AdLifeFields
  BY <1>1 DEF AdShape
<1>3. Append(l.regs, "cleanup") = <<"cleanup">>
  OBVIOUS
<1>4. /\ DOMAIN f = AdLifeFields /\ f.at = l.at /\ f.aborted = l.aborted
      /\ f.life = l.life /\ f.taken = l.taken \cup {"cleanup"} /\ f.returned = l.returned
      /\ f.regs = <<"cleanup">> /\ f.queue = l.queue
  BY <1>2, <1>3 DEF AdLifeFields
<1> HIDE DEF f
<1>5. AdShape(k, f, r)
  BY <1>1, <1>4 DEF AdShape
<1>6. AdOnce(k, f, r)
  BY <1>1, <1>4 DEF AdOnce, AdUsed
<1>7. l.at /= "none"
  BY <1>1 DEF AdProgress, AdBefore
<1>8. AdProgress(a, k, f, r)
  BY <1>4, <1>1, <1>7 DEF AdUsed, AdUntouched, AdProgress
<1> QED BY <1>5, <1>6, <1>8 DEF AdFine, f

LEMMA AdRanAtOnceFine ==
    ASSUME NEW a, NEW k, NEW l, NEW r, AdFine(a, k, l, r), l.life, l.regs = <<>>,
           "cleanup" \notin l.taken, l.aborted
    PROVE  AdFine(a, k, [l EXCEPT !.taken = @ \cup {"cleanup"}], Append(r, <<k, "cleanup">>))
<1> DEFINE f == [l EXCEPT !.taken = @ \cup {"cleanup"}]
           w == <<k, "cleanup">>
           t == Append(r, w)
           S == AdCallbacks(k)
<1>1. AdShape(k, l, r) /\ AdOnce(k, l, r) /\ AdProgress(a, k, l, r)
  BY DEF AdFine
<1>2. DOMAIN l = AdLifeFields /\ r \in Seq(S)
  BY <1>1 DEF AdShape
<1>3. w \in S
  BY DEF AdCallbacks
<1>4. w \notin AdUsed(l, r)
  BY <1>1 DEF AdOnce
<1>5. w /= <<k, "unmount">> /\ w /= <<k, "returned">>
  OBVIOUS
<1>6. /\ DOMAIN f = AdLifeFields /\ f.at = l.at /\ f.aborted = l.aborted
      /\ f.life = l.life /\ f.taken = l.taken \cup {"cleanup"} /\ f.returned = l.returned
      /\ f.regs = l.regs /\ f.queue = l.queue
  BY <1>2 DEF AdLifeFields
<1> HIDE DEF f, w
<1>7. t \in Seq(S) /\ ToSet(t) = ToSet(r) \cup {w}
  BY ONLY <1>2, <1>3, AdAppendSeq
<1>8. IsInjective(t)
  BY <1>1, <1>4, <1>2, <1>3, AdAppendOnce DEF AdOnce, AdUsed
<1> HIDE DEF t
<1>9. AdUsed(f, t) = AdUsed(l, r) \cup {w}
  BY <1>6, <1>7 DEF AdUsed
<1>10. AdShape(k, f, t)
  BY <1>1, <1>6, <1>7 DEF AdShape, S
<1>11. AdOnce(k, f, t)
  BY <1>1, <1>4, <1>6, <1>7, <1>5, <1>8, <1>9 DEF AdOnce, AdUsed
<1>12. l.at \notin AdBefore
  BY <1>1 DEF AdProgress
<1>13. AdProgress(a, k, f, t)
  BY <1>1, <1>5, <1>6, <1>9, <1>12 DEF AdProgress, AdBefore
<1> QED BY <1>10, <1>11, <1>13 DEF AdFine, f, t, w

\* A record that stays where it is, with no more to run.
LEMMA AdStays ==
    ASSUME NEW a, NEW lives, NEW ran, AdSound(a, lives, ran), NEW k \in 1..AdMounts,
           NEW l, NEW r, AdFine(a, k, l, r), l.at = lives[k].at, l.prior = lives[k].prior,
           ToSet(l.queue) \subseteq ToSet(lives[k].queue)
    PROVE  AdSound(a, [lives EXCEPT ![k] = l], [ran EXCEPT ![k] = r])
<1>1. \A m \in 1..AdMounts : m < k => AdWaits(a, m, lives[m].queue, k, l)
  BY AdSoundAt, AdStillWaits
<1>2. AdMapsHold(a)
  BY AdSoundAt
<1> QED BY <1>1, <1>2, AdStep

-----------------------------------------------------------------------------
(* The actions.                                                            *)

LEMMA AdForgetMaps ==
    ASSUME NEW a, DOMAIN a = AdMapFields, NEW i
    PROVE  /\ DOMAIN AdForget(a, i) = AdMapFields /\ AdForget(a, i).mounts = a.mounts
           /\ AdForget(a, i).pending = 0 /\ AdForget(a, i).task = 0 /\ AdForget(a, i).life = 0
  BY DEF AdForget, AdMapFields

\* unmount, refresh and a lost root dispose of what the maps hold.
LEMMA AdDisposes ==
    ASSUME AdInvariant, adLives' = AdDisposed(ad, adLives), adRan' = adRan,
           \/ ad' = [AdForget(ad, TRUE) EXCEPT !.disposals = @ + 1]
           \/ ad' = [AdForget(ad, TRUE) EXCEPT !.scheduled = TRUE, !.disposals = @ + 1]
           \/ ad' = [AdForget(ad, TRUE) EXCEPT !.removed = FALSE]
    PROVE  AdInvariant'
<1> DEFINE f == AdForget(ad, TRUE)
<1>1. AdSound(ad, adLives, adRan)
  BY DEF AdInvariant
<1>2. DOMAIN ad = AdMapFields
  BY <1>1 DEF AdSound, AdMapsHold
<1>3. DOMAIN f = AdMapFields /\ f.mounts = ad.mounts /\ f.pending = 0 /\ f.task = 0 /\ f.life = 0
  BY <1>2, AdForgetMaps
<1>4. \/ ad' = [f EXCEPT !.disposals = @ + 1]
      \/ ad' = [f EXCEPT !.scheduled = TRUE, !.disposals = @ + 1]
      \/ ad' = [f EXCEPT !.removed = FALSE]
  OBVIOUS
<1> HIDE DEF f
<1>5. /\ DOMAIN ad' = AdMapFields /\ (ad').mounts = ad.mounts /\ (ad').pending = 0
      /\ (ad').task = 0 /\ (ad').life = 0
  BY ONLY <1>3, <1>4 DEF AdMapFields
<1>6. AdSound(ad', AdDisposed(ad, adLives), adRan)
  BY ONLY <1>1, <1>5, AdDisposedSound
<1> QED BY <1>6 DEF AdInvariant

\* Only what the invariant does not speak of changes in the maps.
LEMMA AdMapsMove ==
    ASSUME AdInvariant, adLives' = adLives, adRan' = adRan, DOMAIN ad' = AdMapFields,
           (ad').mounts = ad.mounts, (ad').pending = ad.pending, (ad').task = ad.task,
           (ad').life = ad.life
    PROVE  AdInvariant'
  BY AdMapsOnly DEF AdInvariant

LEMMA AdCleanupRunsKeeps == AdInvariant /\ AdCleanupRuns => AdInvariant'
<1> SUFFICES ASSUME AdInvariant, AdCleanupRuns PROVE AdInvariant'
  OBVIOUS
<1>1. AdSound(ad, adLives, adRan)
  BY DEF AdInvariant
<1>2. DOMAIN adLives = 1..AdMounts
  BY <1>1, AdSoundAt
<1>3. PICK m \in 1..AdMounts :
        /\ adLives[m].queue /= <<>>
        /\ adLives' = [adLives EXCEPT ![m].queue = Tail(@)]
        /\ adRan' = [adRan EXCEPT ![m] = Append(@, Head(adLives[m].queue))]
        /\ ad' = ad
  BY <1>2 DEF AdCleanupRuns
<1> DEFINE c == [adLives[m] EXCEPT !.queue = Tail(@)]
           r == Append(adRan[m], Head(adLives[m].queue))
<1>4. AdFine(ad, m, adLives[m], adRan[m])
  BY <1>1, AdSoundAt
<1>5. AdFine(ad, m, c, r)
  BY <1>3, <1>4, AdRanFine
<1>6. DOMAIN adLives[m] = AdLifeFields
  BY <1>4 DEF AdFine, AdShape
<1>7. c.at = adLives[m].at /\ c.prior = adLives[m].prior /\ c.queue = Tail(adLives[m].queue)
  BY <1>6 DEF AdLifeFields
<1>8. ToSet(Tail(adLives[m].queue)) \subseteq ToSet(adLives[m].queue)
  BY <1>3, <1>4, AdTail DEF AdFine, AdShape, AdOnce
<1>9. adLives' = [adLives EXCEPT ![m] = c] /\ adRan' = [adRan EXCEPT ![m] = r]
  BY <1>3
<1> HIDE DEF c, r
<1>10. AdSound(ad, [adLives EXCEPT ![m] = c], [adRan EXCEPT ![m] = r])
  BY <1>1, <1>5, <1>7, <1>8, AdStays
<1> QED BY <1>3, <1>9, <1>10 DEF AdInvariant

LEMMA AdMountsKeep ==
    ASSUME AdInvariant, AdMayMount(ad), ad' = AdMountMaps(ad),
           adLives' = AdMountLives(ad, adLives), adRan' = adRan
    PROVE  AdInvariant'
  BY AdMountSound DEF AdInvariant

\* A mount settles, and nothing of it is the root's.
LEMMA AdSettles ==
    ASSUME AdInvariant, NEW m \in 1..AdMounts, NEW l, NEW d, AdSettle(m, l, d), adRan' = adRan,
           d = ad \/ d = [ad EXCEPT !.loading = FALSE],
           adLives[m].at \in AdUnsettled \ {"mounting"},
           l = adLives[m] \/ (l = AdAbort(m, adLives[m]) /\ adLives[m].at \in AdBefore)
    PROVE  AdInvariant'
<1>1. AdSound(ad, adLives, adRan)
  BY DEF AdInvariant
<1>2. DOMAIN ad = AdMapFields
  BY <1>1 DEF AdSound, AdMapsHold
<1>3. /\ DOMAIN d = AdMapFields /\ d.mounts = ad.mounts /\ d.pending = ad.pending
      /\ d.task = ad.task /\ d.life = ad.life
  BY <1>2 DEF AdMapFields
<1>4. AdSound(AdSettled(d, m),
              [adLives EXCEPT ![m] = [l EXCEPT !.at = "settled", !.prior = {}]], adRan)
  BY <1>1, <1>3, AdSettleSound
<1> QED BY <1>4 DEF AdInvariant, AdSettle

LEMMA AdBeginKeeps ==
    ASSUME AdInvariant, NEW m \in 1..AdMounts, AdBegin(m)
    PROVE  AdInvariant'
<1>1. /\ adLives[m].at = "waiting" /\ adLives[m].prior \cap AdOutstanding(adLives) = {}
      /\ adRan' = adRan
  BY DEF AdBegin
<1>2. CASE AdSettle(m, adLives[m], ad)
  BY <1>1, <1>2, AdSettles DEF AdUnsettled
<1>3. CASE AdSettle(m, AdAbort(m, adLives[m]), [ad EXCEPT !.loading = FALSE])
  BY <1>1, <1>3, AdSettles DEF AdUnsettled, AdBefore
<1>4. CASE /\ adLives' = [adLives EXCEPT ![m] = [@ EXCEPT !.at = "importing", !.prior = {}]]
           /\ ad' = ad
  BY <1>1, AdImporting, <1>4 DEF AdInvariant
<1> QED BY <1>2, <1>3, <1>4 DEF AdBegin

LEMMA AdImportedKeeps ==
    ASSUME AdInvariant, NEW m \in 1..AdMounts, AdImported(m)
    PROVE  AdInvariant'
<1>1. adLives[m].at = "importing" /\ adRan' = adRan
  BY DEF AdImported
<1>2. CASE AdSettle(m, adLives[m], ad)
  BY <1>1, <1>2, AdSettles DEF AdUnsettled
<1>3. CASE AdSettle(m, AdAbort(m, adLives[m]),
                    IF AdCurrent(m) THEN [ad EXCEPT !.loading = FALSE] ELSE ad)
  BY <1>1, <1>3, AdSettles DEF AdUnsettled, AdBefore
<1>4. ASSUME NEW update \in BOOLEAN, AdCurrent(m), ad' = ad,
             adLives' = [adLives EXCEPT ![m] = [@ EXCEPT !.at = "mounting", !.life = TRUE,
                                                        !.update = update]]
      PROVE  AdInvariant'
  BY <1>4, <1>1, AdMounting DEF AdCurrent, AdInvariant
<1> QED BY <1>2, <1>3, <1>4 DEF AdImported

LEMMA AdRegisterKeeps ==
    ASSUME AdInvariant, NEW m \in 1..AdMounts, AdRegister(m)
    PROVE  AdInvariant'
<1> DEFINE l == adLives[m]
           c == [l EXCEPT !.taken = @ \cup {"cleanup"}]
           d == [l EXCEPT !.regs = Append(@, "cleanup"), !.taken = @ \cup {"cleanup"}]
<1>1. AdSound(ad, adLives, adRan)
  BY DEF AdInvariant
<1>2. l.life /\ l.regs = <<>> /\ "cleanup" \notin l.taken /\ ad' = ad
  BY DEF AdRegister
<1>3. AdFine(ad, m, l, adRan[m])
  BY <1>1, AdSoundAt
<1>4. DOMAIN l = AdLifeFields
  BY <1>3 DEF AdFine, AdShape
<1>7. /\ adLives' = [adLives EXCEPT ![m] = IF l.aborted THEN c ELSE d]
      /\ adRan' = IF l.aborted THEN [adRan EXCEPT ![m] = Append(adRan[m], <<m, "cleanup">>)]
                 ELSE adRan
  BY Zenon DEF AdRegister
<1>5. CASE l.aborted
  <2>1. AdFine(ad, m, c, Append(adRan[m], <<m, "cleanup">>))
    BY <1>2, <1>3, <1>5, AdRanAtOnceFine
  <2>2. c.at = l.at /\ c.prior = l.prior /\ c.queue = l.queue
    BY <1>4 DEF AdLifeFields
  <2>3. /\ adLives' = [adLives EXCEPT ![m] = c]
        /\ adRan' = [adRan EXCEPT ![m] = Append(adRan[m], <<m, "cleanup">>)]
    <3> HIDE DEF c, d, l
    <3> QED BY <1>5, <1>7
  <2> HIDE DEF c
  <2>4. AdSound(ad, [adLives EXCEPT ![m] = c],
                [adRan EXCEPT ![m] = Append(adRan[m], <<m, "cleanup">>)])
    BY <1>1, <2>1, <2>2, AdStays
  <2> QED BY <1>2, <2>3, <2>4 DEF AdInvariant
<1>6. CASE ~l.aborted
  <2>1. AdFine(ad, m, d, adRan[m])
    BY <1>2, <1>3, <1>6, AdRegisteredFine
  <2>2. d.at = l.at /\ d.prior = l.prior /\ d.queue = l.queue
    BY <1>4 DEF AdLifeFields
  <2>3. adLives' = [adLives EXCEPT ![m] = d] /\ adRan' = adRan
    <3> HIDE DEF c, d, l
    <3> QED BY <1>6, <1>7
  <2> HIDE DEF d
  <2>4. AdSound(ad, [adLives EXCEPT ![m] = d], [adRan EXCEPT ![m] = adRan[m]])
    BY <1>1, <2>1, <2>2, AdStays
  <2>5. [adRan EXCEPT ![m] = adRan[m]] = adRan
    BY <1>1, AdQuiet
  <2> QED BY <1>2, <2>3, <2>4, <2>5 DEF AdInvariant
<1> QED BY <1>5, <1>6

LEMMA AdPluginReturnsKeeps ==
    ASSUME AdInvariant, NEW m \in 1..AdMounts, AdPluginReturns(m)
    PROVE  AdInvariant'
<1> DEFINE l == adLives[m]
<1>1. AdSound(ad, adLives, adRan)
  BY DEF AdInvariant
<1>2. l.at = "mounting" /\ adRan' = adRan
  BY DEF AdPluginReturns
<1>3. PICK ret \in {"none", "fn"} : AdReturned(m, [l EXCEPT !.returned = ret])
  BY DEF AdPluginReturns
<1> DEFINE c == [l EXCEPT !.returned = ret]
<1>4. AdFine(ad, m, l, adRan[m])
  BY <1>1, AdSoundAt
<1>5. CASE AdCurrent(m) /\ ad.connected
  <2> DEFINE d == [ad EXCEPT !.life = m, !.loading = FALSE]
  <2>1. AdSettle(m, c, d)
    BY <1>3, <1>5 DEF AdReturned
  <2>2. ad.pending = m /\ ~l.aborted
    BY SMTT(60), <1>5 DEF AdCurrent
  <2>3. AdSound(AdSettled(d, m),
                [adLives EXCEPT ![m] = [c EXCEPT !.at = "settled", !.prior = {}]], adRan)
    BY <1>1, <1>2, <2>2, AdAdopted
  <2> QED BY <1>2, <2>1, <2>3 DEF AdInvariant, AdSettle
<1>6. CASE ~(AdCurrent(m) /\ ad.connected)
  <2> DEFINE d == [c EXCEPT !.late = c.aborted]
  <2>1. adLives' = [adLives EXCEPT ![m] = [AdCleanup(m, d) EXCEPT !.at = "abandoned"]] /\ ad' = ad
    BY <1>3, <1>6 DEF AdReturned
  <2>2. AdShape(m, l, adRan[m]) /\ AdOnce(m, l, adRan[m]) /\ AdProgress(ad, m, l, adRan[m])
    BY <1>4 DEF AdFine
  <2>3. DOMAIN l = AdLifeFields
    BY <2>2 DEF AdShape
  <2>4. /\ DOMAIN c = AdLifeFields /\ c.at = l.at /\ c.aborted = l.aborted /\ c.life = l.life
        /\ c.taken = l.taken /\ c.returned = ret /\ c.regs = l.regs /\ c.queue = l.queue
    BY <2>3 DEF AdLifeFields
  <2> HIDE DEF c
  <2>5. /\ DOMAIN d = AdLifeFields /\ d.at = l.at /\ d.aborted = l.aborted /\ d.life = l.life
        /\ d.taken = l.taken /\ d.returned = ret /\ d.regs = l.regs /\ d.queue = l.queue
    BY <2>4 DEF AdLifeFields
  <2> HIDE DEF d
  <2>6. AdShape(m, d, adRan[m])
    BY <2>2, <2>5 DEF AdShape
  <2>7. AdOnce(m, d, adRan[m])
    BY <1>2, <2>2, <2>5 DEF AdProgress, AdUsed, AdOnce
  <2>8. AdSound(ad, [adLives EXCEPT ![m] = [AdCleanup(m, d) EXCEPT !.at = "abandoned"]], adRan)
    BY <1>1, <1>2, <2>5, <2>6, <2>7, AdLeft
  <2> QED BY <1>2, <2>1, <2>8 DEF AdInvariant
<1> QED BY <1>5, <1>6

LEMMA AdPluginFailsKeeps ==
    ASSUME AdInvariant, NEW m \in 1..AdMounts, AdPluginFails(m)
    PROVE  AdInvariant'
<1> DEFINE l == adLives[m]
           c == AdAbort(m, l)
           at == IF AdCurrent(m) THEN "failed" ELSE "abandoned"
<1>1. AdSound(ad, adLives, adRan)
  BY DEF AdInvariant
<1>2. /\ l.at = "mounting" /\ adRan' = adRan /\ ad' = ad
      /\ adLives' = [adLives EXCEPT ![m] = [AdCleanup(m, c) EXCEPT !.at = at]]
  BY DEF AdPluginFails
<1>3. AdShape(m, l, adRan[m]) /\ AdOnce(m, l, adRan[m])
  BY <1>1, AdSoundAt DEF AdFine
<1>4. /\ AdShape(m, c, adRan[m]) /\ AdOnce(m, c, adRan[m]) /\ c.aborted = TRUE
      /\ c.life = l.life /\ c.taken = l.taken /\ c.regs = l.regs /\ c.queue = l.queue
  <2> HIDE DEF l
  <2> QED BY ONLY <1>3, AdAbortKeeps
<1>5. at \in {"failed", "abandoned"}
  OBVIOUS
<1> HIDE DEF c, at
<1>6. AdSound(ad, [adLives EXCEPT ![m] = [AdCleanup(m, c) EXCEPT !.at = at]], adRan)
  BY <1>1, <1>2, <1>4, <1>5, AdLeft
<1> QED BY <1>2, <1>6 DEF AdInvariant

LEMMA AdCleanedKeeps ==
    ASSUME AdInvariant, NEW m \in 1..AdMounts, AdCleaned(m)
    PROVE  AdInvariant'
  BY AdSettles DEF AdCleaned, AdUnsettled

\* A plugin without update is disposed and mounted anew.
LEMMA AdUpdateRunsKeeps ==
    ASSUME AdInvariant, NEW u \in 1..AdUpdates, AdUpdateRuns(u)
    PROVE  AdInvariant'
<1> DEFINE a == AdForget(ad, FALSE)
           lives == AdDisposed(ad, adLives)
<1>1. AdSound(ad, adLives, adRan)
  BY DEF AdInvariant
<1>2. DOMAIN ad = AdMapFields
  BY <1>1 DEF AdSound, AdMapsHold
<1>3. DOMAIN a = AdMapFields /\ a.mounts = ad.mounts /\ a.pending = 0 /\ a.task = 0 /\ a.life = 0
  BY <1>2, AdForgetMaps
<1> HIDE DEF a
<1>4. AdSound(a, lives, adRan)
  BY <1>1, <1>3, AdDisposedSound
<1>5. adRan' = adRan
  BY DEF AdUpdateRuns
<1>6. CASE ad' = ad /\ adLives' = adLives
  BY <1>5, <1>6 DEF AdInvariant
<1>7. CASE AdMayMount(a) /\ ad' = AdMountMaps(a) /\ adLives' = AdMountLives(a, lives)
  <2>1. AdSound(AdMountMaps(a), AdMountLives(a, lives), adRan)
    <3> HIDE DEF lives
    <3> QED BY <1>4, <1>7, AdMountSound
  <2> QED BY <1>5, <1>7, <2>1 DEF AdInvariant
<1>8. CASE ad' = a /\ adLives' = lives
  BY <1>4, <1>5, <1>8 DEF AdInvariant
<1>9. CASE ad' = [ad EXCEPT !.loading = FALSE] /\ adLives' = adLives
  BY <1>2, <1>5, <1>9, AdMapsMove DEF AdMapFields
<1> QED BY <1>6, <1>7, <1>8, <1>9 DEF AdUpdateRuns, a

LEMMA AdInitHolds == AdInit => AdInvariant
<1> SUFFICES ASSUME AdInit PROVE AdInvariant
  OBVIOUS
<1>1. /\ DOMAIN ad = AdMapFields /\ ad.mounts = 0 /\ ad.pending = 0 /\ ad.task = 0 /\ ad.life = 0
  BY DEF AdInit, AdMapFields
<1>2. AdMapsHold(ad)
  BY <1>1, AdBoundsAssumption DEF AdMapsHold
<1>3. /\ adLives = [m \in 1..AdMounts |-> adLives[m]] /\ adRan = [m \in 1..AdMounts |-> adRan[m]]
      /\ \A m \in 1..AdMounts : adLives[m] = AdNoLife /\ adRan[m] = <<>>
  BY DEF AdInit
<1>4. /\ DOMAIN AdNoLife = AdLifeFields /\ AdNoLife.at = "none" /\ AdNoLife.aborted = FALSE
      /\ AdNoLife.life = FALSE /\ AdNoLife.returned = "none" /\ AdNoLife.regs = <<>>
      /\ AdNoLife.taken = {} /\ AdNoLife.queue = <<>>
  BY DEF AdNoLife, AdLifeFields
<1>5. ASSUME NEW m \in 1..AdMounts PROVE AdFine(ad, m, AdNoLife, <<>>)
  <2>1. AdShape(m, AdNoLife, <<>>)
    BY <1>4, AdEmpty DEF AdShape, AdBefore
  <2>2. AdOnce(m, AdNoLife, <<>>)
    BY <1>4, AdEmpty DEF AdOnce, AdUsed
  <2>3. m > ad.mounts /\ m /= 0
    BY <1>1
  <2>4. AdProgress(ad, m, AdNoLife, <<>>)
    BY <1>1, <1>4, <2>3 DEF AdProgress, AdUntouched, AdUnsettled
  <2> QED BY <2>1, <2>2, <2>4 DEF AdFine
<1>6. ASSUME NEW m \in 1..AdMounts, NEW n \in 1..AdMounts
      PROVE  AdWaits(ad, m, adLives[m].queue, n, adLives[n])
  BY <1>3, <1>4, AdEmpty DEF AdWaits
<1> QED BY <1>2, <1>3, <1>5, <1>6 DEF AdInvariant, AdSound

LEMMA AdNextKeeps == AdInvariant /\ [AdNext]_adVars => AdInvariant'
<1> SUFFICES ASSUME AdInvariant, [AdNext]_adVars PROVE AdInvariant'
  OBVIOUS
<1>1. DOMAIN ad = AdMapFields
  BY DEF AdInvariant, AdSound, AdMapsHold
<1>2. CASE AdUnmount
  BY <1>2, AdDisposes DEF AdUnmount
<1>3. CASE AdRefresh
  BY <1>3, AdDisposes DEF AdRefresh
<1>4. CASE AdCleanupRuns
  BY <1>4, AdCleanupRunsKeeps
<1>5. CASE AdSchedule
  BY <1>1, <1>5, AdMapsMove DEF AdSchedule, AdMapFields
<1>6. CASE AdMount
  BY <1>6, AdMountsKeep DEF AdMount
<1>7. CASE AdRemoveRoot
  BY <1>1, <1>7, AdMapsMove DEF AdRemoveRoot, AdMapFields
<1>8. CASE AdReturnRoot
  BY <1>8, <1>1, AdMapsMove DEF AdReturnRoot, AdMapFields
<1>9. CASE AdObserveRemoval
  BY <1>1, <1>9, AdMapsMove, AdDisposes DEF AdMapFields, AdObserveRemoval
<1>10. CASE AdUpdate
  BY <1>1, <1>10, AdMapsMove DEF AdUpdate, AdMapFields
<1>11. ASSUME NEW m \in 1..AdMounts,
              AdBegin(m) \/ AdImported(m) \/ AdRegister(m) \/ AdPluginReturns(m)
                \/ AdPluginFails(m) \/ AdCleaned(m)
       PROVE  AdInvariant'
  BY <1>11, AdBeginKeeps, AdImportedKeeps, AdRegisterKeeps, AdPluginReturnsKeeps,
     AdPluginFailsKeeps, AdCleanedKeeps
<1>12. ASSUME NEW u \in 1..AdUpdates, AdUpdateBegins(u) PROVE AdInvariant'
  BY <1>12 DEF AdUpdateBegins, AdInvariant
<1>13. ASSUME NEW u \in 1..AdUpdates, AdUpdateMounts(u) PROVE AdInvariant'
  BY <1>13, AdMountsKeep DEF AdUpdateMounts
<1>14. ASSUME NEW u \in 1..AdUpdates, AdUpdateRuns(u) PROVE AdInvariant'
  BY <1>14, AdUpdateRunsKeeps
<1>15. ASSUME NEW u \in 1..AdUpdates, AdUpdateGivesUp(u) PROVE AdInvariant'
  BY <1>15 DEF AdUpdateGivesUp, AdInvariant
<1>16. ASSUME NEW u \in 1..AdUpdates, AdUpdateEnds(u) PROVE AdInvariant'
  BY <1>1, <1>16, AdMapsMove DEF AdUpdateEnds, AdMapFields
<1>17. CASE UNCHANGED adVars
  BY <1>17 DEF adVars, AdInvariant
<1> QED BY <1>2, <1>3, <1>4, <1>5, <1>6, <1>7, <1>8, <1>9, <1>10, <1>11, <1>12, <1>13, <1>14,
           <1>15, <1>16, <1>17 DEF AdNext

LEMMA AdInvariantSuffices == AdInvariant => AdGuarantees
<1> SUFFICES ASSUME AdInvariant PROVE AdGuarantees
  OBVIOUS
<1>1. /\ AdMapsHold(ad) /\ DOMAIN adLives = 1..AdMounts
      /\ \A m \in 1..AdMounts : AdFine(ad, m, adLives[m], adRan[m])
      /\ \A m, n \in 1..AdMounts : m < n => AdWaits(ad, m, adLives[m].queue, n, adLives[n])
  BY AdSoundAt DEF AdInvariant
<1>2. AdCleansUpOnce
  BY <1>1 DEF AdCleansUpOnce, AdFine, AdOnce, AdProgress, AdUntouched
<1>3. AdTeardownFirst
  <2> SUFFICES ASSUME NEW m \in 1..AdMounts, NEW n \in 1..AdMounts, m < n,
                      ad.life = n \/ adLives[n].at = "mounting",
                      NEW x \in {"unmount", "cleanup"}, <<m, x>> \in AdOutstanding(adLives)
               PROVE  FALSE
    BY <1>1 DEF AdTeardownFirst
  <2>1. PICK k \in 1..AdMounts : <<m, x>> \in ToSet(adLives[k].queue)
    BY <1>1 DEF AdOutstanding
  <2>2. adLives[k].queue \in Seq(AdCallbacks(k))
    BY <1>1 DEF AdFine, AdShape
  <2>3. <<m, x>> \in AdCallbacks(k)
    BY <2>1, <2>2 DEF ToSet
  <2>4. k = m
    BY <2>3 DEF AdCallbacks
  <2>5. AdWaits(ad, m, adLives[m].queue, n, adLives[n])
    BY <1>1
  <2> QED BY <2>1, <2>4, <2>5 DEF AdWaits
<1> QED BY <1>2, <1>3 DEF AdGuarantees

\* runtime-v1.js dispose, cleanupLifecycle, mountInternal: for any number of
\* mounts and updates of a root, and whatever fails or is abandoned on the way,
\* a plugin's callbacks run at most once and only after its lifecycle is no
\* longer the root's, every settled plugin that was replaced has had them
\* taken, and no plugin is mounted over an earlier teardown.
THEOREM PluginsAreCleanedUp == AdSpec => []AdGuarantees
  BY AdInitHolds, AdNextKeeps, AdInvariantSuffices, PTL DEF AdSpec

-----------------------------------------------------------------------------
(* Nodes in order: what selecting from a document keeps.                   *)

\* The nodes kept up to each place.
DomKeptTo(f, s, S, P) ==
    /\ f \in [0..Len(s) -> Seq(P)] /\ f[0] = <<>> /\ DomOnly(s, S) = f[Len(s)]
    /\ \A k \in 1..Len(s) : f[k] = IF s[k] \in S THEN Append(f[k - 1], s[k]) ELSE f[k - 1]

LEMMA DomOnlyDefined ==
    ASSUME NEW P, NEW s \in Seq(P), NEW S
    PROVE  \E f : DomKeptTo(f, s, S, P)
<1> DEFINE n == Len(s)
           Step(v, i) == IF s[i] \in S THEN Append(v, s[i]) ELSE v
           Eq(h) == h = [T \in SUBSET (1..n) |->
                           IF T = {} THEN <<>> ELSE Step(h[T \ {Max(T)}], Max(T))]
           G == [y \in (1..n) \X Seq(P) |-> Step(y[2], y[1])]
           F == CHOOSE h : Eq(h)
           f == [k \in 0..n |-> F[1..k]]
<1>1. /\ n \in Nat /\ DOMAIN s = 1..n /\ <<>> \in Seq(P)
      /\ \A i \in 1..n, v \in Seq(P) : Step(v, i) \in Seq(P)
  OBVIOUS
<1>2. DomOnly(s, S) = F[1..n]
  BY <1>1 DEF DomOnly, FoldLeft, MapThenFoldSet
<1> HIDE DEF Step, n
<1>3. G \in [(1..n) \X Seq(P) -> Seq(P)]
  BY <1>1
<1>4. PICK g : FoldsTo(g, n, Seq(P), <<>>, G)
  BY <1>1, <1>3, FoldDefined
<1>5. g \in [SUBSET (1..n) -> Seq(P)] /\ g[{}] = <<>>
  BY <1>4 DEF FoldsTo
<1>6. \A T \in SUBSET (1..n) : T # {} => g[T] = Step(g[T \ {Max(T)}], Max(T))
  <2> SUFFICES ASSUME NEW T \in SUBSET (1..n), T # {}
               PROVE  g[T] = Step(g[T \ {Max(T)}], Max(T))
    OBVIOUS
  <2>1. Max(T) \in 1..n
    BY <1>1, MaxExists
  <2> DEFINE m == Max(T)
             v == g[T \ {m}]
  <2>2. v \in Seq(P)
    BY <1>5
  <2>3. g[T] = G[<<m, v>>]
    <3> HIDE DEF G
    <3> QED BY <1>4 DEF FoldsTo
  <2>4. m \in 1..n
    BY <2>1
  <2> HIDE DEF m, v
  <2>5. G[<<m, v>>] = Step(v, m)
    BY <2>2, <2>4
  <2> QED BY <2>3, <2>5 DEF m, v
<1>7. Eq(g)
  BY <1>5, <1>6
<1>8. Eq(F)
  <2> HIDE DEF Eq
  <2> QED BY <1>7
<1> HIDE DEF F, G
<1>9. F[{}] = <<>>
  BY <1>8
<1>10. \A k \in 1..n : F[1..k] = Step(F[1..(k - 1)], k)
  <2> SUFFICES ASSUME NEW k \in 1..n PROVE F[1..k] = Step(F[1..(k - 1)], k)
    OBVIOUS
  <2>0. k \in Nat /\ k > 0
    BY <1>1
  <2>1. Max(1..k) = k /\ (1..k) \ {k} = 1..(k - 1) /\ 1..k # {}
    BY ONLY <2>0, MaxUpTo
  <2>2. 1..k \in SUBSET (1..n)
    BY <1>1
  <2>3. F[1..k] = Step(F[(1..k) \ {Max(1..k)}], Max(1..k))
    BY <1>8, <2>1, <2>2
  <2> QED BY <2>1, <2>3
<1>11. f[0] = <<>> /\ \A k \in 1..n : f[k] = Step(f[k - 1], k)
  BY <1>1, <1>9, <1>10
<1>12. f[n] = F[1..n] /\ f = [k \in 0..n |-> f[k]]
  BY <1>1
<1> HIDE DEF f
<1>13. \A k \in 0..n : f[k] \in Seq(P)
  <2> DEFINE T == {k \in 0..n : f[k] \in Seq(P)}
  <2>0. 0 \in 0..n /\ f[0] \in Seq(P)
    BY ONLY <1>1, <1>11
  <2>1. 0 \in T
    BY ONLY <2>0
  <2>2. \A k \in 0..n : k < n /\ k \in T => k + 1 \in T
    BY <1>1, <1>11
  <2>3. \A k \in 0..n : k \in T
    <3> HIDE DEF T
    <3> QED BY <1>1, <2>1, <2>2, UpTo
  <2> QED BY <2>3
<1>14. f \in [0..n -> Seq(P)] /\ DomOnly(s, S) = f[n]
  BY <1>2, <1>12, <1>13
<1>15. \A k \in 1..n : f[k] = IF s[k] \in S THEN Append(f[k - 1], s[k]) ELSE f[k - 1]
  BY <1>11 DEF Step
<1>16. DomKeptTo(f, s, S, P)
  BY <1>11, <1>14, <1>15 DEF DomKeptTo, n
<1> QED BY <1>16

\* r keeps the nodes of S among the first k of s, in order.
DomKeeps(r, s, S, k) ==
    /\ \A a \in 1..Len(r) : \E i \in 1..k : s[i] = r[a] /\ s[i] \in S
    /\ \A i \in 1..k : s[i] \in S => \E a \in 1..Len(r) : s[i] = r[a]
    /\ \A a, b \in 1..Len(r) : a < b => \E i, j \in 1..k : i < j /\ s[i] = r[a] /\ s[j] = r[b]
    /\ \A i, j \in 1..k : i < j /\ s[i] \in S /\ s[j] \in S =>
         \E a, b \in 1..Len(r) : a < b /\ s[i] = r[a] /\ s[j] = r[b]

LEMMA DomKeepsMore ==
    ASSUME NEW P, NEW s \in Seq(P), NEW S, NEW r \in Seq(P), NEW k \in Nat, k + 1 <= Len(s),
           DomKeeps(r, s, S, k)
    PROVE  DomKeeps(IF s[k + 1] \in S THEN Append(r, s[k + 1]) ELSE r, s, S, k + 1)
<1> DEFINE l == Len(r)
           z == s[k + 1]
<1>1. l \in Nat
  OBVIOUS
<1>2. \A i \in 1..(k + 1) : i \in 1..k \/ i = k + 1
  OBVIOUS
<1>3. \A i \in 1..k : i \in 1..(k + 1) /\ i < k + 1
  OBVIOUS
<1>4. CASE z \notin S
  <2> HIDE DEF l
  <2>1. \A i, j \in 1..(k + 1) : s[i] \in S /\ s[j] \in S => i \in 1..k /\ j \in 1..k
    BY <1>2, <1>4
  <2> HIDE DEF z
  <2>2. DomKeeps(r, s, S, k + 1)
    BY <1>3, <2>1 DEF DomKeeps
  <2> QED BY <1>4, <2>2 DEF z
<1>5. CASE z \in S
  <2> DEFINE t == Append(r, z)
  <2>1. Len(t) = l + 1 /\ t[l + 1] = z /\ \A a \in 1..l : t[a] = r[a]
    OBVIOUS
  <2>2. \A a \in 1..(l + 1) : a \in 1..l \/ a = l + 1
    OBVIOUS
  <2>3. \A a \in 1..l : a \in 1..(l + 1) /\ a < l + 1
    OBVIOUS
  <2>4. k + 1 \in 1..(k + 1) /\ l + 1 \in 1..(l + 1) /\ s[k + 1] = z
    OBVIOUS
  <2>5. \A i, j \in 1..(k + 1) : i < j => i \in 1..k
    OBVIOUS
  <2>6. \A a, b \in 1..(l + 1) : a < b => a \in 1..l
    OBVIOUS
  <2> HIDE DEF t, l, z
  <2>7. \A a \in 1..(l + 1) : \E i \in 1..(k + 1) : s[i] = t[a] /\ s[i] \in S
    <3> TAKE a \in 1..(l + 1)
    <3>1. CASE a \in 1..l
      <4>1. PICK i \in 1..k : s[i] = r[a] /\ s[i] \in S
        BY <3>1 DEF DomKeeps, l
      <4> QED BY <1>3, <2>1, <3>1, <4>1
    <3>2. CASE a = l + 1
      BY <1>5, <2>1, <2>4, <3>2
    <3> QED BY <2>2, <3>1, <3>2
  <2>8. \A i \in 1..(k + 1) : s[i] \in S => \E a \in 1..(l + 1) : s[i] = t[a]
    BY <1>2, <2>1, <2>3, <2>4 DEF DomKeeps, l
  <2>9. ASSUME NEW a \in 1..(l + 1), NEW b \in 1..(l + 1), a < b
        PROVE  \E i, j \in 1..(k + 1) : i < j /\ s[i] = t[a] /\ s[j] = t[b]
    <3>1. a \in 1..l
      BY <2>6, <2>9
    <3>2. CASE b \in 1..l
      <4>1. PICK i, j \in 1..k : i < j /\ s[i] = r[a] /\ s[j] = r[b]
        BY <2>9, <3>1, <3>2 DEF DomKeeps, l
      <4> QED BY <1>3, <2>1, <3>1, <3>2, <4>1
    <3>3. CASE b = l + 1
      <4>1. PICK i \in 1..k : s[i] = r[a]
        BY <3>1 DEF DomKeeps, l
      <4> QED BY <1>3, <2>1, <2>4, <3>1, <3>3, <4>1
    <3> QED BY <2>2, <3>2, <3>3
  <2>10. ASSUME NEW i \in 1..(k + 1), NEW j \in 1..(k + 1), i < j, s[i] \in S, s[j] \in S
         PROVE  \E a, b \in 1..(l + 1) : a < b /\ s[i] = t[a] /\ s[j] = t[b]
    <3>1. i \in 1..k
      BY <2>5, <2>10
    <3>2. CASE j \in 1..k
      <4>1. PICK a, b \in 1..l : a < b /\ s[i] = r[a] /\ s[j] = r[b]
        BY <2>10, <3>1, <3>2 DEF DomKeeps, l
      <4> QED BY <2>1, <2>3, <4>1
    <3>3. CASE j = k + 1
      <4>1. PICK a \in 1..l : s[i] = r[a]
        BY <2>10, <3>1 DEF DomKeeps, l
      <4> QED BY <2>1, <2>3, <2>4, <3>3, <4>1
    <3> QED BY <1>2, <3>2, <3>3
  <2>11. DomKeeps(t, s, S, k + 1)
    BY <2>1, <2>7, <2>8, <2>9, <2>10 DEF DomKeeps
  <2> QED BY <1>5, <2>11 DEF t, z
<1> QED BY <1>4, <1>5

LEMMA DomOnlyKeeps ==
    ASSUME NEW P, NEW s \in Seq(P), NEW S
    PROVE  DomOnly(s, S) \in Seq(P) /\ DomKeeps(DomOnly(s, S), s, S, Len(s))
<1> DEFINE n == Len(s)
<1>1. PICK f : DomKeptTo(f, s, S, P)
  BY DomOnlyDefined
<1>2. n \in Nat /\ f \in [0..n -> Seq(P)] /\ f[0] = <<>> /\ DomOnly(s, S) = f[n]
  BY <1>1 DEF DomKeptTo
<1>3. \A k \in 1..n : f[k] = IF s[k] \in S THEN Append(f[k - 1], s[k]) ELSE f[k - 1]
  BY <1>1 DEF DomKeptTo
<1> DEFINE T == {k \in 0..n : DomKeeps(f[k], s, S, k)}
<1>4. 0 \in T
  BY <1>2 DEF DomKeeps
<1>5. \A k \in 0..n : k < n /\ k \in T => k + 1 \in T
  <2> SUFFICES ASSUME NEW k \in 0..n, k < n, k \in T PROVE k + 1 \in T
    OBVIOUS
  <2>1. k \in Nat /\ k + 1 <= Len(s) /\ k + 1 \in 0..n /\ k + 1 \in 1..n /\ (k + 1) - 1 = k
    BY <1>2
  <2> DEFINE r == f[k]
  <2>2. r \in Seq(P) /\ DomKeeps(r, s, S, k)
    BY <1>2
  <2>3. f[k + 1] = IF s[k + 1] \in S THEN Append(r, s[k + 1]) ELSE r
    BY <1>3, <2>1
  <2> HIDE DEF r
  <2>4. DomKeeps(IF s[k + 1] \in S THEN Append(r, s[k + 1]) ELSE r, s, S, k + 1)
    BY <2>1, <2>2, DomKeepsMore
  <2> QED BY <2>1, <2>3, <2>4
<1>6. n \in T
  <2> HIDE DEF T, n
  <2>1. \A k \in 0..n : k \in T
    BY <1>2, <1>4, <1>5, UpTo
  <2> QED BY <1>2, <2>1
<1> QED BY <1>2, <1>6

\* Selecting keeps the order, and what it selects.
LEMMA DomOnlyFacts ==
    ASSUME NEW P, NEW s \in Seq(P), NEW S
    PROVE  LET r == DomOnly(s, S)
           IN  /\ r \in Seq(P) /\ Range(r) = Range(s) \cap S
               /\ IsInjective(s) => IsInjective(r)
               /\ \A x, y : DomPrecedes(r, x, y) <=>
                              DomPrecedes(s, x, y) /\ x \in S /\ y \in S
<1> DEFINE r == DomOnly(s, S)
           n == Len(s)
           m == Len(r)
<1>1. r \in Seq(P) /\ DomKeeps(r, s, S, n)
  BY DomOnlyKeeps
<1> HIDE DEF r
<1>2. DOMAIN s = 1..n /\ DOMAIN r = 1..m /\ n \in Nat /\ m \in Nat
  BY <1>1
<1>3. Range(r) = Range(s) \cap S
  <2>0. Range(r) = {r[a] : a \in 1..m} /\ Range(s) = {s[i] : i \in 1..n}
    BY <1>2 DEF Range
  <2>1. \A a \in 1..m : \E i \in 1..n : s[i] = r[a] /\ s[i] \in S
    BY <1>1 DEF DomKeeps
  <2>2. \A i \in 1..n : s[i] \in S => \E a \in 1..m : s[i] = r[a]
    BY <1>1 DEF DomKeeps
  <2> HIDE DEF m, n
  <2> QED BY ONLY <2>0, <2>1, <2>2
<1>4. ASSUME IsInjective(s) PROVE IsInjective(r)
  <2> SUFFICES ASSUME NEW a \in 1..m, NEW b \in 1..m, r[a] = r[b], a # b PROVE FALSE
    BY <1>2 DEF IsInjective
  <2>1. ~(a < b)
    <3> SUFFICES ASSUME a < b PROVE FALSE
      OBVIOUS
    <3>1. PICK i, j \in 1..n : i < j /\ s[i] = r[a] /\ s[j] = r[b]
      BY <1>1 DEF DomKeeps
    <3> QED BY <1>2, <1>4, <3>1 DEF IsInjective
  <2>2. ~(b < a)
    <3> SUFFICES ASSUME b < a PROVE FALSE
      OBVIOUS
    <3>1. PICK i, j \in 1..n : i < j /\ s[i] = r[b] /\ s[j] = r[a]
      BY <1>1 DEF DomKeeps
    <3> QED BY <1>2, <1>4, <3>1 DEF IsInjective
  <2> QED BY <1>2, <2>1, <2>2
<1>5. ASSUME NEW x, NEW y, DomPrecedes(r, x, y)
      PROVE  DomPrecedes(s, x, y) /\ x \in S /\ y \in S
  <2>1. PICK a, b \in 1..m : a < b /\ r[a] = x /\ r[b] = y
    BY <1>2, <1>5 DEF DomPrecedes
  <2>2. PICK i, j \in 1..n : i < j /\ s[i] = r[a] /\ s[j] = r[b]
    BY <1>1, <2>1 DEF DomKeeps
  <2>3. x \in Range(r) /\ y \in Range(r)
    BY <1>2, <2>1 DEF Range
  <2> QED BY <1>2, <1>3, <2>1, <2>2, <2>3 DEF DomPrecedes
<1>6. ASSUME NEW x, NEW y, DomPrecedes(s, x, y), x \in S, y \in S
      PROVE  DomPrecedes(r, x, y)
  <2>1. PICK i, j \in 1..n : i < j /\ s[i] = x /\ s[j] = y
    BY <1>2, <1>6 DEF DomPrecedes
  <2>2. PICK a, b \in 1..m : a < b /\ s[i] = r[a] /\ s[j] = r[b]
    BY <1>1, <1>6, <2>1 DEF DomKeeps
  <2> QED BY <1>2, <2>1, <2>2 DEF DomPrecedes
<1> QED BY <1>1, <1>3, <1>4, <1>5, <1>6 DEF r

LEMMA DomWithoutFacts ==
    ASSUME NEW P, NEW s \in Seq(P), NEW S
    PROVE  LET r == DomWithout(s, S)
           IN  /\ r \in Seq(P) /\ Range(r) = Range(s) \ S
               /\ IsInjective(s) => IsInjective(r)
               /\ \A x, y : DomPrecedes(r, x, y) <=>
                              DomPrecedes(s, x, y) /\ x \notin S /\ y \notin S
<1> DEFINE A == Range(s) \ S
           r == DomOnly(s, A)
<1>1. r \in Seq(P) /\ Range(r) = Range(s) \cap A /\ (IsInjective(s) => IsInjective(r))
  <2> HIDE DEF A
  <2> QED BY DomOnlyFacts
<1>2. \A x, y : DomPrecedes(r, x, y) <=> DomPrecedes(s, x, y) /\ x \in A /\ y \in A
  <2> HIDE DEF A
  <2> QED BY DomOnlyFacts
<1>3. \A x, y : DomPrecedes(s, x, y) => x \in Range(s) /\ y \in Range(s)
  BY DEF DomPrecedes, Range
<1>4. Range(s) \cap A = Range(s) \ S
  OBVIOUS
<1> HIDE DEF r
<1>5. \A x, y : DomPrecedes(r, x, y) <=> DomPrecedes(s, x, y) /\ x \notin S /\ y \notin S
  BY <1>2, <1>3
<1>6. DomWithout(s, S) = r
  BY DEF DomWithout, r
<1> QED BY <1>1, <1>4, <1>5, <1>6

\* The order of its nodes determines a document.
LEMMA DomSameOrder ==
    ASSUME NEW P, NEW s \in Seq(P), NEW t \in Seq(P), IsInjective(s), IsInjective(t),
           Range(s) = Range(t), \A x, y : DomPrecedes(s, x, y) => DomPrecedes(t, x, y)
    PROVE  s = t
<1> DEFINE n == Len(s)
           m == Len(t)
<1>1. DOMAIN s = 1..n /\ DOMAIN t = 1..m /\ n \in Nat /\ m \in Nat
  OBVIOUS
<1>2. \A i \in 1..n : \E j \in 1..m : t[j] = s[i]
  BY <1>1 DEF Range
<1>3. \A j \in 1..m : \E i \in 1..n : t[j] = s[i]
  BY <1>1 DEF Range
<1>4. \A i, j \in 1..n : \A a, b \in 1..m : i < j /\ s[i] = t[a] /\ s[j] = t[b] => a < b
  <2> SUFFICES ASSUME NEW i \in 1..n, NEW j \in 1..n, NEW a \in 1..m, NEW b \in 1..m,
                      i < j, s[i] = t[a], s[j] = t[b]
               PROVE  a < b
    OBVIOUS
  <2>1. DomPrecedes(s, t[a], t[b])
    BY <1>1 DEF DomPrecedes
  <2>0. DomPrecedes(t, t[a], t[b])
    BY <2>1
  <2>2. PICK c, d \in 1..m : c < d /\ t[c] = t[a] /\ t[d] = t[b]
    BY <1>1, <2>0 DEF DomPrecedes
  <2>3. c = a /\ d = b
    BY <1>1, <2>2 DEF IsInjective
  <2> QED BY <2>2, <2>3
<1> DEFINE Bad == {i \in 1..n : ~(i \in 1..m /\ s[i] = t[i])}
<1>5. Bad = {}
  <2> SUFFICES ASSUME Bad # {} PROVE FALSE
    OBVIOUS
  <2>1. PICK i \in Bad : \A y \in Bad : ~(y < i)
    <3>1. Bad \subseteq Nat
      OBVIOUS
    <3> HIDE DEF Bad
    <3> QED BY <3>1, Least
  <2>2. i \in 1..n /\ ~(i \in 1..m /\ s[i] = t[i])
    OBVIOUS
  <2>3. \A y \in 1..n : y < i => y \in 1..m /\ s[y] = t[y]
    BY <2>1
  <2>4. PICK j \in 1..m : t[j] = s[i]
    BY <1>2, <2>2
  <2>5. i \in Int /\ j \in Int
    BY <1>1, <2>2
  <2>6. j > i
    BY <2>2, <2>4, <1>1, <2>5, <2>3 DEF IsInjective
  <2>7. i \in 1..m
    BY <1>1, <2>2, <2>5, <2>6
  <2>8. PICK k \in 1..n : t[i] = s[k]
    BY <1>3, <2>7
  <2>9. k \in Int /\ k # i /\ ~(k < i)
    BY <2>2, <2>7, <2>8, <2>3, <1>1 DEF IsInjective
  <2>10. i < k
    BY <2>5, <2>9
  <2>11. j < i
    BY <1>4, <2>2, <2>4, <2>7, <2>8, <2>10
  <2> QED BY <2>5, <2>6, <2>11
<1>6. \A i \in 1..n : i \in 1..m /\ s[i] = t[i]
  BY <1>5
<1>7. m <= n
  <2> SUFFICES ASSUME n < m PROVE FALSE
    BY <1>1
  <2>1. n + 1 \in 1..m
    BY <1>1
  <2>2. PICK i \in 1..n : t[n + 1] = s[i]
    BY <1>3, <2>1
  <2>3. i \in 1..m /\ t[i] = t[n + 1]
    BY <1>6, <2>2
  <2>4. i = n + 1
    BY <1>1, <2>1, <2>3 DEF IsInjective
  <2> QED BY <1>1, <2>4
<1>8. n <= m
  BY <1>1, <1>6
<1>9. n = m
  <2> HIDE DEF n, m
  <2> QED BY ONLY <1>1, <1>7, <1>8
<1> QED BY <1>1, <1>6, <1>9

LEMMA DomPrecedesIn ==
    ASSUME NEW s, NEW x, NEW y, DomPrecedes(s, x, y)
    PROVE  x \in Range(s) /\ y \in Range(s)
  BY DEF DomPrecedes, Range

LEMMA DomPrecedesTransitive ==
    ASSUME NEW P, NEW s \in Seq(P), IsInjective(s), NEW x, NEW y, NEW z,
           DomPrecedes(s, x, y), DomPrecedes(s, y, z)
    PROVE  DomPrecedes(s, x, z)
  BY DEF DomPrecedes, IsInjective

\* Nothing is taken away.
LEMMA DomWithoutNone ==
    ASSUME NEW P, NEW s \in Seq(P), IsInjective(s), NEW S, Range(s) \cap S = {}
    PROVE  DomWithout(s, S) = s
<1> DEFINE r == DomWithout(s, S)
<1>1. r \in Seq(P) /\ Range(r) = Range(s) \ S /\ IsInjective(r)
      /\ \A x, y : DomPrecedes(r, x, y) => DomPrecedes(s, x, y)
  BY DomWithoutFacts
<1> HIDE DEF r
<1>2. Range(r) = Range(s)
  BY <1>1
<1>3. r = s
  BY <1>1, <1>2, DomSameOrder
<1> QED BY <1>3 DEF r

-----------------------------------------------------------------------------
(* Inserting a node.                                                       *)

LEMMA DomInsertAtPlaces ==
    ASSUME NEW P, NEW s \in Seq(P), NEW node \in P, NEW c \in 1..Len(s)
    PROVE  LET t == InsertAt(s, c, node)
           IN  /\ t \in Seq(P) /\ Len(t) = Len(s) + 1 /\ t[c] = node
               /\ \A i \in 1..Len(s) : t[IF i < c THEN i ELSE i + 1] = s[i]
<1> DEFINE n == Len(s)
           a == SubSeq(s, 1, c - 1)
           b == SubSeq(s, c, n)
           e == <<node>>
           d == Joined(a, e)
           t == Joined(d, b)
<1>1. n \in Nat /\ c \in Int /\ c >= 1 /\ c <= n
  OBVIOUS
<1>2. a \in Seq(P) /\ Len(a) = c - 1 /\ \A i \in 1..(c - 1) : a[i] = s[i]
  OBVIOUS
<1>3. b \in Seq(P) /\ Len(b) = n - c + 1 /\ \A i \in 1..(n - c + 1) : b[i] = s[c + i - 1]
  OBVIOUS
<1>0. e \in Seq(P) /\ Len(e) = 1 /\ e[1] = node
  OBVIOUS
<1> HIDE DEF a, b, n, e
<1>4. d \in Seq(P) /\ Len(d) = c /\ d[c] = node /\ \A i \in 1..(c - 1) : d[i] = a[i]
  <2>1. d \in Seq(P) /\ Len(d) = Len(a) + Len(e)
    BY ONLY <1>0, <1>2, JoinedSeq, JoinedLen
  <2>2. (\A i \in 1..Len(a) : d[i] = a[i]) /\ \A i \in 1..Len(e) : d[Len(a) + i] = e[i]
    <3>1. a \in Seq(P) /\ e \in Seq(P)
      BY ONLY <1>0, <1>2
    <3> QED BY ONLY <3>1, JoinedAt
  <2>3. 1 \in 1..Len(e) /\ Len(a) + 1 = c /\ Len(a) + Len(e) = c
    BY ONLY <1>0, <1>1, <1>2
  <2>4. d[Len(a) + 1] = e[1]
    BY ONLY <2>2, <2>3
  <2> QED BY ONLY <1>0, <1>2, <2>1, <2>2, <2>3, <2>4
<1> HIDE DEF d
<1>5. t \in Seq(P) /\ Len(t) = c + (n - c + 1) /\ (\A i \in 1..c : t[i] = d[i])
  <2>1. t \in Seq(P) /\ Len(t) = Len(d) + Len(b)
    BY ONLY <1>3, <1>4, JoinedSeq, JoinedLen
  <2>2. \A i \in 1..Len(d) : t[i] = d[i]
    BY ONLY ZenonT(60), <1>3, <1>4, JoinedAt
  <2> QED BY ONLY <1>3, <1>4, <2>1, <2>2
<1>6. \A i \in 1..(n - c + 1) : t[c + i] = b[i]
  <2>1. \A i \in 1..Len(b) : t[Len(d) + i] = b[i]
    <3>1. d \in Seq(P) /\ b \in Seq(P)
      BY ONLY <1>3, <1>4
    <3> QED BY ONLY <3>1, JoinedAt
  <2> QED BY ONLY <1>3, <1>4, <2>1
<1> HIDE DEF t
<1>7. Len(t) = n + 1 /\ t[c] = node
  BY <1>1, <1>4, <1>5
<1>8. ASSUME NEW i \in 1..n, i < c PROVE t[i] = s[i]
  <2>1. i \in 1..(c - 1) /\ i \in 1..c
    BY <1>1, <1>8
  <2> QED BY <1>2, <1>4, <1>5, <2>1
<1>9. ASSUME NEW i \in 1..n, ~(i < c) PROVE t[i + 1] = s[i]
  <2> DEFINE k == i - c + 1
  <2>1. k \in 1..(n - c + 1) /\ c + k = i + 1 /\ c + k - 1 = i
    BY <1>1, <1>9
  <2> HIDE DEF k
  <2>2. t[c + k] = b[k] /\ b[k] = s[c + k - 1]
    BY <1>3, <1>6, <2>1
  <2> QED BY <2>1, <2>2
<1>10. InsertAt(s, c, node) = t
  BY DEF InsertAt, Joined, t, d, e, a, b, n
<1>11. \A i \in 1..n : t[IF i < c THEN i ELSE i + 1] = s[i]
  BY <1>8, <1>9
<1> QED BY <1>5, <1>7, <1>10, <1>11 DEF n

LEMMA DomInsertFacts ==
    ASSUME NEW P, NEW s \in Seq(P), IsInjective(s), NEW node \in P, NEW anchor,
           anchor \in Range(s), anchor # node
    PROVE  LET t == DomInsert(s, node, anchor)
           IN  /\ t \in Seq(P) /\ IsInjective(t) /\ Range(t) = Range(s) \cup {node}
               /\ \A x, y : x # node /\ y # node =>
                              (DomPrecedes(t, x, y) <=> DomPrecedes(s, x, y))
               /\ \A y : y # node /\ (y = anchor \/ DomPrecedes(s, anchor, y)) =>
                           DomPrecedes(t, node, y)
               /\ \A x : x # node /\ DomPrecedes(s, x, anchor) => DomPrecedes(t, x, node)
<1> DEFINE r == DomWithout(s, {node})
           n == Len(r)
           c == CHOOSE i \in DOMAIN r : r[i] = anchor
           t == InsertAt(r, c, node)
           Sh(i) == IF i < c THEN i ELSE i + 1
<1>1. r \in Seq(P) /\ Range(r) = Range(s) \ {node} /\ IsInjective(r)
  BY DomWithoutFacts
<1>2. \A x, y : DomPrecedes(r, x, y) <=> DomPrecedes(s, x, y) /\ x # node /\ y # node
  BY DomWithoutFacts
<1> HIDE DEF r
<1>3. n \in Nat /\ DOMAIN r = 1..n
  BY <1>1
<1>4. anchor \in Range(r)
  BY <1>1
<1>5. \E i \in 1..n : r[i] = anchor
  BY <1>3, <1>4 DEF Range
<1>6. c \in 1..n /\ r[c] = anchor
  BY <1>3, <1>5
<1>7. DomInsert(s, node, anchor) = t
  BY DEF DomInsert, r
<1> HIDE DEF c
<1>8. t \in Seq(P) /\ Len(t) = n + 1 /\ t[c] = node /\ \A i \in 1..n : t[Sh(i)] = r[i]
  BY <1>1, <1>6, DomInsertAtPlaces
<1> HIDE DEF t, n
<1>9. DOMAIN t = 1..(n + 1)
  BY <1>8
<1>10. \A i \in 1..n : Sh(i) \in 1..(n + 1) /\ Sh(i) # c
  BY <1>3, <1>6
<1>11. \A i, j \in 1..n : i < j => Sh(i) < Sh(j)
  BY <1>3, <1>6
<1>12. \A j \in 1..(n + 1) : j = c \/ \E i \in 1..n : j = Sh(i)
  <2> TAKE j \in 1..(n + 1)
  <2>1. CASE j < c
    <3>1. j \in 1..n /\ j = Sh(j)
      BY <1>3, <1>6, <2>1
    <3> QED BY <3>1
  <2>2. CASE j > c
    BY <1>3, <1>6, <2>2
  <2> QED BY <1>3, <1>6, <2>1, <2>2
<1>13. \A i \in 1..n : (i < c => Sh(i) < c) /\ (i >= c => c < Sh(i))
  BY <1>3, <1>6
<1>14. \A i, j \in 1..n : Sh(i) < Sh(j) => i < j
  BY <1>3, <1>6
<1>15. c \in 1..(n + 1)
  BY <1>3, <1>6
<1> HIDE DEF Sh
<1>16. node \notin Range(r)
  BY <1>1
<1>17. \A i \in 1..n : r[i] # node
  BY <1>3, <1>16 DEF Range
<1>18. Range(t) = Range(s) \cup {node}
  <2>1. Range(t) = {t[j] : j \in 1..(n + 1)} /\ Range(r) = {r[i] : i \in 1..n}
    BY <1>3, <1>9 DEF Range
  <2>2. Range(t) = Range(r) \cup {node}
    BY ONLY <1>8, <1>10, <1>12, <1>15, <2>1
  <2> QED BY <1>1, <2>2
<1>19. IsInjective(t)
  <2> SUFFICES ASSUME NEW a \in 1..(n + 1), NEW b \in 1..(n + 1), t[a] = t[b] PROVE a = b
    BY <1>9 DEF IsInjective
  <2>1. CASE a = c \/ b = c
    BY <1>8, <1>12, <1>17, <2>1
  <2>2. CASE a # c /\ b # c
    <3>1. PICK i \in 1..n : a = Sh(i)
      BY <1>12, <2>2
    <3>2. PICK j \in 1..n : b = Sh(j)
      BY <1>12, <2>2
    <3>3. r[i] = r[j]
      BY <1>8, <3>1, <3>2
    <3>4. i = j
      BY <1>1, <1>3, <3>3 DEF IsInjective
    <3> QED BY <3>1, <3>2, <3>4
  <2> QED BY <2>1, <2>2
<1>20. ASSUME NEW x, NEW y, DomPrecedes(r, x, y) PROVE DomPrecedes(t, x, y)
  BY <1>3, <1>20, <1>8, <1>10, <1>11, <1>9 DEF DomPrecedes
<1>21. ASSUME NEW x, NEW y, DomPrecedes(t, x, y), x # node, y # node PROVE DomPrecedes(r, x, y)
  <2>1. PICK a, b \in 1..(n + 1) : a < b /\ t[a] = x /\ t[b] = y
    BY <1>9, <1>21 DEF DomPrecedes
  <2>2. a # c /\ b # c
    BY <1>8, <1>21, <2>1
  <2>3. PICK i \in 1..n : a = Sh(i)
    BY <1>12, <2>2
  <2>4. PICK j \in 1..n : b = Sh(j)
    BY <1>12, <2>2
  <2>5. i < j /\ r[i] = x /\ r[j] = y
    BY <1>8, <1>14, <2>1, <2>3, <2>4
  <2> QED BY <1>3, <2>5 DEF DomPrecedes
<1>22. \A x, y : x # node /\ y # node => (DomPrecedes(t, x, y) <=> DomPrecedes(s, x, y))
  BY <1>2, <1>20, <1>21
<1>23. ASSUME NEW y, y # node, y = anchor \/ DomPrecedes(s, anchor, y)
       PROVE  DomPrecedes(t, node, y)
  <2>1. \E j \in 1..n : j >= c /\ r[j] = y
    <3>1. CASE y = anchor
      <4>1. c >= c
        BY <1>3, <1>6
      <4> QED BY <1>6, <3>1, <4>1
    <3>2. CASE y # anchor
      <4>1. DomPrecedes(r, anchor, y)
        BY <1>2, <1>23, <3>2
      <4>2. PICK i, j \in 1..n : i < j /\ r[i] = anchor /\ r[j] = y
        BY <1>3, <4>1 DEF DomPrecedes
      <4>3. i = c
        BY <1>1, <1>3, <1>6, <4>2 DEF IsInjective
      <4>4. j >= c
        BY <1>3, <4>2, <4>3
      <4> QED BY <4>2, <4>4
    <3> QED BY <3>1, <3>2
  <2>2. PICK j \in 1..n : j >= c /\ r[j] = y
    BY <2>1
  <2>3. Sh(j) \in 1..(n + 1) /\ c < Sh(j) /\ t[Sh(j)] = y
    BY <1>8, <1>10, <1>13, <2>2
  <2> QED BY <1>8, <1>9, <1>15, <2>3 DEF DomPrecedes
<1>24. ASSUME NEW x, x # node, DomPrecedes(s, x, anchor) PROVE DomPrecedes(t, x, node)
  <2>1. DomPrecedes(r, x, anchor)
    BY <1>2, <1>24
  <2>2. PICK i, j \in 1..n : i < j /\ r[i] = x /\ r[j] = anchor
    BY <1>3, <2>1 DEF DomPrecedes
  <2>3. j = c
    BY <1>1, <1>3, <1>6, <2>2 DEF IsInjective
  <2>4. Sh(i) \in 1..(n + 1) /\ Sh(i) < c /\ t[Sh(i)] = x
    BY <1>8, <1>10, <1>13, <2>2, <2>3
  <2> QED BY <1>8, <1>9, <1>15, <2>4 DEF DomPrecedes
<1> QED BY <1>7, <1>8, <1>18, <1>19, <1>22, <1>23, <1>24

-----------------------------------------------------------------------------
(* The page.                                                               *)

LEMMA DomPagePlaces ==
    ASSUME NEW P, NEW rows \in Seq(P)
    PROVE  LET p == DomPage(rows)
               n == Len(rows)
           IN  /\ p \in Seq(P \cup DomFrame) /\ Len(p) = n + 4
               /\ p[1] = <<"root", 0>> /\ p[2] = <<"slot", 0>>
               /\ \A i \in 1..n : p[i + 2] = rows[i]
               /\ p[n + 3] = <<"slot", 1>> /\ p[n + 4] = <<"root", 1>>
<1> DEFINE Q == P \cup DomFrame
           n == Len(rows)
           ra == <<"root", 0>>
           sa == <<"slot", 0>>
           sb == <<"slot", 1>>
           rb == <<"root", 1>>
<1>1. ra \in Q /\ sa \in Q /\ sb \in Q /\ rb \in Q
  BY DEF DomFrame
<1>2. DomPage(rows) = (<<ra, sa>> \o rows) \o <<sb, rb>>
  BY DEF DomPage
<1>3. rows \in Seq(Q) /\ n \in Nat
  OBVIOUS
<1> HIDE DEF Q, ra, sa, sb, rb, n
<1> DEFINE a == <<ra, sa>>
           b == Joined(a, rows)
           c == <<sb, rb>>
           p == Joined(b, c)
<1>4. a \in Seq(Q) /\ Len(a) = 2 /\ a[1] = ra /\ a[2] = sa
  BY <1>1
<1>5. c \in Seq(Q) /\ Len(c) = 2 /\ c[1] = sb /\ c[2] = rb
  BY <1>1
<1> HIDE DEF a, c
<1>6. b \in Seq(Q) /\ Len(b) = 2 + n
  BY <1>3, <1>4, JoinedSeq, JoinedLen DEF n
<1>7. (\A i \in 1..2 : b[i] = a[i]) /\ \A i \in 1..n : b[2 + i] = rows[i]
  <2>1. (\A i \in 1..Len(a) : b[i] = a[i]) /\ \A i \in 1..Len(rows) : b[Len(a) + i] = rows[i]
    <3>1. a \in Seq(Q) /\ rows \in Seq(Q)
      BY ONLY <1>3, <1>4
    <3> QED BY ONLY <3>1, JoinedAt
  <2> QED BY ONLY <1>4, <2>1 DEF n
<1> HIDE DEF b
<1>8. p \in Seq(Q) /\ Len(p) = (2 + n) + 2
  BY <1>5, <1>6, JoinedSeq, JoinedLen
<1>9. (\A i \in 1..(2 + n) : p[i] = b[i]) /\ \A i \in 1..2 : p[(2 + n) + i] = c[i]
  <2>1. (\A i \in 1..Len(b) : p[i] = b[i]) /\ \A i \in 1..Len(c) : p[Len(b) + i] = c[i]
    <3>1. b \in Seq(Q) /\ c \in Seq(Q)
      BY ONLY <1>5, <1>6
    <3> QED BY ONLY <3>1, JoinedAt
  <2> QED BY ONLY <1>5, <1>6, <2>1
<1> HIDE DEF p
<1>10. Len(p) = n + 4 /\ p[1] = ra /\ p[2] = sa
  BY <1>3, <1>4, <1>7, <1>8, <1>9
<1>11. \A i \in 1..n : p[i + 2] = rows[i]
  BY <1>3, <1>7, <1>9
<1>12. p[n + 3] = sb /\ p[n + 4] = rb
  BY <1>3, <1>9, <1>5
<1>13. DomPage(rows) = p
  BY <1>2 DEF p, b, a, c, Joined
<1> QED BY <1>8, <1>10, <1>11, <1>12, <1>13 DEF Q, n, ra, sa, sb, rb

\* Rows that are not markers.
DomPlain(rows, P) == rows \in Seq(P) /\ P \cap DomFrame = {} /\ IsInjective(rows)

LEMMA DomMarkersDiffer ==
    /\ <<"root", 0>> # <<"slot", 0>> /\ <<"root", 0>> # <<"slot", 1>>
    /\ <<"root", 0>> # <<"root", 1>> /\ <<"slot", 0>> # <<"slot", 1>>
    /\ <<"slot", 0>> # <<"root", 1>> /\ <<"slot", 1>> # <<"root", 1>>
  OBVIOUS

LEMMA DomPageFacts ==
    ASSUME NEW P, NEW rows, DomPlain(rows, P)
    PROVE  LET p == DomPage(rows)
           IN  /\ p \in Seq(P \cup DomFrame) /\ IsInjective(p)
               /\ Range(p) = DomFrame \cup Range(rows)
<1> DEFINE p == DomPage(rows)
           n == Len(rows)
           ra == <<"root", 0>>
           sa == <<"slot", 0>>
           sb == <<"slot", 1>>
           rb == <<"root", 1>>
<1>1. rows \in Seq(P) /\ P \cap DomFrame = {} /\ IsInjective(rows)
  BY DEF DomPlain
<1>2. p \in Seq(P \cup DomFrame) /\ Len(p) = n + 4 /\ p[1] = ra /\ p[2] = sa
      /\ (\A i \in 1..n : p[i + 2] = rows[i]) /\ p[n + 3] = sb /\ p[n + 4] = rb
  BY <1>1, DomPagePlaces
<1>3. DomFrame = {ra, rb, sa, sb}
  BY DEF DomFrame
<1>4. ra # sa /\ ra # sb /\ ra # rb /\ sa # sb /\ sa # rb /\ sb # rb
  BY DomMarkersDiffer
<1>5. n \in Nat /\ DOMAIN rows = 1..n /\ \A i \in 1..n : rows[i] \in P
  BY <1>1
<1> HIDE DEF p, n, ra, sa, sb, rb
<1>6. DOMAIN p = 1..(n + 4)
  BY <1>2, <1>5
<1>7. \A j \in 1..(n + 4) : \/ j = 1 \/ j = 2 \/ j = n + 3 \/ j = n + 4
                            \/ \E i \in 1..n : j = i + 2
  BY <1>5
<1>8. \A i \in 1..n : rows[i] # ra /\ rows[i] # sa /\ rows[i] # sb /\ rows[i] # rb
  BY <1>1, <1>3, <1>5
<1>9. \A i \in 1..n : i + 2 \in 1..(n + 4)
  BY <1>5
<1>10. 1 \in 1..(n + 4) /\ 2 \in 1..(n + 4) /\ n + 3 \in 1..(n + 4) /\ n + 4 \in 1..(n + 4)
  BY <1>5
<1>11. Range(p) = DomFrame \cup Range(rows)
  <2>1. Range(p) = {p[j] : j \in 1..(n + 4)} /\ Range(rows) = {rows[i] : i \in 1..n}
    BY <1>5, <1>6 DEF Range
  <2>2. Range(p) \subseteq DomFrame \cup Range(rows)
    BY ONLY <1>2, <1>3, <1>7, <2>1
  <2>3. DomFrame \subseteq Range(p)
    BY ONLY <1>2, <1>3, <1>10, <2>1
  <2>4. Range(rows) \subseteq Range(p)
    BY ONLY <1>2, <1>9, <2>1
  <2> QED BY <2>2, <2>3, <2>4
<1>12. IsInjective(p)
  <2> SUFFICES ASSUME NEW j \in 1..(n + 4), NEW k \in 1..(n + 4), p[j] = p[k] PROVE j = k
    BY <1>6 DEF IsInjective
  <2>1. CASE (\E i \in 1..n : j = i + 2) /\ (\E i \in 1..n : k = i + 2)
    <3>1. PICK a \in 1..n : j = a + 2
      BY <2>1
    <3>2. PICK b \in 1..n : k = b + 2
      BY <2>1
    <3>3. rows[a] = rows[b]
      BY <1>2, <3>1, <3>2
    <3>4. a = b
      BY <1>1, <1>5, <3>3 DEF IsInjective
    <3> QED BY <3>1, <3>2, <3>4
  <2>2. CASE (\E i \in 1..n : j = i + 2) /\ k \in {1, 2, n + 3, n + 4}
    BY <1>2, <1>8, <2>2
  <2>3. CASE (\E i \in 1..n : k = i + 2) /\ j \in {1, 2, n + 3, n + 4}
    BY <1>2, <1>8, <2>3
  <2>4. CASE j \in {1, 2, n + 3, n + 4} /\ k \in {1, 2, n + 3, n + 4}
    BY <1>2, <1>4, <2>4
  <2> QED BY <1>7, <2>1, <2>2, <2>3, <2>4
<1> QED BY <1>2, <1>11, <1>12 DEF p

\* Who stands before whom on the page.
LEMMA DomPageOrder ==
    ASSUME NEW P, NEW rows, DomPlain(rows, P)
    PROVE  LET p == DomPage(rows)
           IN  /\ DomPrecedes(p, <<"root", 0>>, <<"slot", 0>>)
               /\ DomPrecedes(p, <<"slot", 0>>, <<"slot", 1>>)
               /\ DomPrecedes(p, <<"slot", 1>>, <<"root", 1>>)
               /\ \A x \in Range(rows) : /\ DomPrecedes(p, <<"slot", 0>>, x)
                                         /\ DomPrecedes(p, x, <<"slot", 1>>)
               /\ \A x, y : DomPrecedes(rows, x, y) => DomPrecedes(p, x, y)
<1> DEFINE p == DomPage(rows)
           n == Len(rows)
           ra == <<"root", 0>>
           sa == <<"slot", 0>>
           sb == <<"slot", 1>>
           rb == <<"root", 1>>
<1>1. rows \in Seq(P)
  BY DEF DomPlain
<1>2. p \in Seq(P \cup DomFrame) /\ Len(p) = n + 4 /\ p[1] = ra /\ p[2] = sa
      /\ (\A i \in 1..n : p[i + 2] = rows[i]) /\ p[n + 3] = sb /\ p[n + 4] = rb
  BY <1>1, DomPagePlaces
<1>3. n \in Nat /\ DOMAIN rows = 1..n
  BY <1>1
<1> HIDE DEF p, n, ra, sa, sb, rb
<1>4. DOMAIN p = 1..(n + 4)
  BY <1>2, <1>3
<1>5. 1 \in 1..(n + 4) /\ 2 \in 1..(n + 4) /\ n + 3 \in 1..(n + 4) /\ n + 4 \in 1..(n + 4)
      /\ 1 < 2 /\ 2 < n + 3 /\ n + 3 < n + 4
  BY <1>3
<1>6. \A i \in 1..n : i + 2 \in 1..(n + 4) /\ 2 < i + 2 /\ i + 2 < n + 3
  BY <1>3
<1>7. \A i, j \in 1..n : i < j => i + 2 < j + 2
  BY <1>3
<1>8. DomPrecedes(p, ra, sa) /\ DomPrecedes(p, sa, sb) /\ DomPrecedes(p, sb, rb)
  BY <1>2, <1>4, <1>5 DEF DomPrecedes
<1>9. ASSUME NEW x \in Range(rows) PROVE DomPrecedes(p, sa, x) /\ DomPrecedes(p, x, sb)
  <2>1. PICK i \in 1..n : x = rows[i]
    BY <1>3 DEF Range
  <2> QED BY <1>2, <1>4, <1>5, <1>6, <2>1 DEF DomPrecedes
<1>10. ASSUME NEW x, NEW y, DomPrecedes(rows, x, y) PROVE DomPrecedes(p, x, y)
  <2>1. PICK i, j \in 1..n : i < j /\ rows[i] = x /\ rows[j] = y
    BY <1>3, <1>10 DEF DomPrecedes
  <2> QED BY <1>2, <1>4, <1>6, <1>7, <2>1 DEF DomPrecedes
<1> QED BY <1>8, <1>9, <1>10 DEF p, ra, sa, sb, rb

\* A document in that order is the page.
LEMMA DomPageIs ==
    ASSUME NEW P, NEW rows, DomPlain(rows, P), NEW Q, NEW tree \in Seq(Q), IsInjective(tree),
           Range(tree) = DomFrame \cup Range(rows),
           DomPrecedes(tree, <<"root", 0>>, <<"slot", 0>>),
           DomPrecedes(tree, <<"slot", 0>>, <<"slot", 1>>),
           DomPrecedes(tree, <<"slot", 1>>, <<"root", 1>>),
           \A x \in Range(rows) : /\ DomPrecedes(tree, <<"slot", 0>>, x)
                                  /\ DomPrecedes(tree, x, <<"slot", 1>>),
           \A x, y : DomPrecedes(rows, x, y) => DomPrecedes(tree, x, y)
    PROVE  tree = DomPage(rows)
<1> DEFINE p == DomPage(rows)
           n == Len(rows)
           ra == <<"root", 0>>
           sa == <<"slot", 0>>
           sb == <<"slot", 1>>
           rb == <<"root", 1>>
           R == P \cup DomFrame \cup Q
<1>1. rows \in Seq(P)
  BY DEF DomPlain
<1>2. p \in Seq(P \cup DomFrame) /\ Len(p) = n + 4 /\ p[1] = ra /\ p[2] = sa
      /\ (\A i \in 1..n : p[i + 2] = rows[i]) /\ p[n + 3] = sb /\ p[n + 4] = rb
  BY <1>1, DomPagePlaces
<1>3. n \in Nat /\ DOMAIN rows = 1..n
  BY <1>1
<1>4. IsInjective(p) /\ Range(p) = DomFrame \cup Range(rows)
  BY DomPageFacts
<1>5. DomPrecedes(tree, ra, sa) /\ DomPrecedes(tree, sa, sb) /\ DomPrecedes(tree, sb, rb)
      /\ \A x \in Range(rows) : DomPrecedes(tree, sa, x) /\ DomPrecedes(tree, x, sb)
  OBVIOUS
<1> HIDE DEF p, n, ra, sa, sb, rb
<1>6. DOMAIN p = 1..(n + 4)
  BY <1>2, <1>3
<1>7. \A x, y, z : DomPrecedes(tree, x, y) /\ DomPrecedes(tree, y, z) => DomPrecedes(tree, x, z)
  BY DomPrecedesTransitive
<1>8. \A i \in 1..n : rows[i] \in Range(rows)
  BY <1>3 DEF Range
<1>9. ASSUME NEW x, NEW y, DomPrecedes(p, x, y) PROVE DomPrecedes(tree, x, y)
  <2>1. PICK j, k \in 1..(n + 4) : j < k /\ p[j] = x /\ p[k] = y
    BY <1>6, <1>9 DEF DomPrecedes
  <2>2. CASE j = 1
    <3>1. x = ra
      BY <1>2, <2>1, <2>2
    <3>2. y = sa \/ DomPrecedes(tree, sa, y)
      <4>1. CASE k = 2
        BY <1>2, <2>1, <4>1
      <4>2. CASE k = n + 3
        BY <1>2, <1>5, <2>1, <4>2
      <4>3. CASE k = n + 4
        BY <1>2, <1>5, <1>7, <2>1, <4>3
      <4>4. CASE k > 2 /\ k < n + 3
        <5>1. k - 2 \in 1..n /\ (k - 2) + 2 = k
          BY <1>3, <4>4
        <5>2. y = rows[k - 2]
          BY <1>2, <2>1, <5>1
        <5> QED BY <1>5, <1>8, <5>1, <5>2
      <4> QED BY <1>3, <2>1, <2>2, <4>1, <4>2, <4>3, <4>4
    <3> QED BY <1>5, <1>7, <3>1, <3>2
  <2>3. CASE j = 2
    <3>1. x = sa
      BY <1>2, <2>1, <2>3
    <3>2. CASE k = n + 3
      BY <1>2, <1>5, <2>1, <3>1, <3>2
    <3>3. CASE k = n + 4
      BY <1>2, <1>5, <1>7, <2>1, <3>1, <3>3
    <3>4. CASE k > 2 /\ k < n + 3
      <4>1. k - 2 \in 1..n /\ (k - 2) + 2 = k
        BY <1>3, <3>4
      <4>2. y = rows[k - 2]
        BY <1>2, <2>1, <4>1
      <4> QED BY <1>5, <1>8, <3>1, <4>1, <4>2
    <3>5. k = n + 3 \/ k = n + 4 \/ (k > 2 /\ k < n + 3)
      BY ONLY <1>3, <2>1, <2>3
    <3> QED BY <3>2, <3>3, <3>4, <3>5
  <2>4. CASE j > 2 /\ j < n + 3
    <3>1. j - 2 \in 1..n /\ (j - 2) + 2 = j
      BY <1>3, <2>4
    <3>2. x = rows[j - 2] /\ x \in Range(rows)
      BY <1>2, <1>8, <2>1, <3>1
    <3>3. CASE k = n + 3
      BY <1>2, <1>5, <2>1, <3>2, <3>3
    <3>4. CASE k = n + 4
      BY <1>2, <1>5, <1>7, <2>1, <3>2, <3>4
    <3>5. CASE k > 2 /\ k < n + 3
      <4>1. k - 2 \in 1..n /\ (k - 2) + 2 = k /\ j - 2 < k - 2
        BY <1>3, <2>1, <3>5
      <4>2. y = rows[k - 2]
        BY <1>2, <2>1, <4>1
      <4>3. DomPrecedes(rows, x, y)
        BY <1>3, <3>1, <3>2, <4>1, <4>2 DEF DomPrecedes
      <4> QED BY <4>3
    <3> QED BY <1>3, <2>1, <2>4, <3>3, <3>4, <3>5
  <2>5. CASE j = n + 3
    <3>1. k = n + 4
      BY <1>3, <2>1, <2>5
    <3> QED BY <1>2, <1>5, <2>1, <2>5, <3>1
  <2> QED BY <1>3, <2>1, <2>2, <2>3, <2>4, <2>5
<1>10. p \in Seq(R) /\ tree \in Seq(R)
  BY <1>2
<1>11. Range(p) = Range(tree)
  BY <1>4
<1> HIDE DEF R
<1>12. p = tree
  BY ONLY <1>4, <1>9, <1>10, <1>11, DomSameOrder, IsInjective(tree)
<1> QED BY <1>12 DEF p

-----------------------------------------------------------------------------
(* The rows of a slot.                                                     *)

LEMMA DomRowsPlain ==
    ASSUME NEW kind, NEW gen \in Nat, NEW rows, DomIsRows(kind, gen, rows)
    PROVE  /\ DomPlain(rows, DomRowNodes(kind, gen))
           /\ DomForeign \notin Range(rows)
<1> DEFINE P == DomRowNodes(kind, gen)
<1>1. P \cap DomFrame = {} /\ DomForeign \notin P
  BY DomKeysAssumption DEF DomRowNodes, DomFrame, DomForeign
<1> HIDE DEF P
<1>2. rows \in Seq(P) /\ IsInjective(DomKeysOf(rows))
  BY DEF DomIsRows, P
<1>3. IsInjective(rows)
  BY <1>2 DEF IsInjective, DomKeysOf
<1>4. DomForeign \notin Range(rows)
  BY <1>1, <1>2 DEF Range
<1> QED BY <1>1, <1>2, <1>3, <1>4 DEF DomPlain, P

LEMMA DomNodesGrow ==
    ASSUME NEW kind, NEW gen \in Nat, NEW g \in Nat, gen <= g
    PROVE  /\ DomRowNodes(kind, gen) \subseteq DomRowNodes(kind, g)
           /\ DomNodes(kind, gen) \subseteq DomNodes(kind, g)
  BY DEF DomRowNodes, DomNodes

LEMMA DomRowsStay ==
    ASSUME NEW kind, NEW gen \in Nat, NEW g \in Nat, gen <= g, NEW rows,
           DomIsRows(kind, gen, rows)
    PROVE  DomIsRows(kind, g, rows)
  BY DomNodesGrow DEF DomIsRows

LEMMA DomNoRows ==
    ASSUME NEW kind, NEW gen
    PROVE  DomIsRows(kind, gen, <<>>) /\ Range(<<>>) = {}
  BY DEF DomIsRows, IsInjective, DomKeysOf, Range

\* A dynamic slot shows one child at most.
LEMMA DomOneChild ==
    ASSUME NEW gen \in Nat, NEW rows, DomIsRows("dynamic", gen, rows)
    PROVE  Len(rows) <= 1
<1> SUFFICES ASSUME Len(rows) > 1 PROVE FALSE
  BY DEF DomIsRows
<1>1. rows \in Seq({"view"} \X (1..(gen - 1))) /\ IsInjective(DomKeysOf(rows))
  BY DEF DomIsRows, DomRowNodes
<1>2. 1 \in DOMAIN rows /\ 2 \in DOMAIN rows
  BY <1>1
<1>3. rows[1] \in {"view"} \X (1..(gen - 1)) /\ rows[2] \in {"view"} \X (1..(gen - 1))
  BY <1>1, <1>2
<1>4. rows[1][1] = "view" /\ rows[2][1] = "view"
  BY <1>3
<1> QED BY <1>1, <1>2, <1>4 DEF IsInjective, DomKeysOf

LEMMA DomShortOrdered ==
    ASSUME NEW P, NEW rows \in Seq(P), Len(rows) <= 1, NEW tree
    PROVE  DomOrdered(tree, rows)
  BY DEF DomPrecedes, DomOrdered

LEMMA DomWithoutOrdered ==
    ASSUME NEW P, NEW tree \in Seq(P), NEW rows, DomOrdered(tree, rows), NEW S
    PROVE  DomOrdered(DomWithout(tree, S), rows)
  BY DomWithoutFacts DEF DomOrdered

LEMMA DomInsertOrdered ==
    ASSUME NEW P, NEW tree \in Seq(P), IsInjective(tree), NEW node \in P, NEW anchor,
           anchor \in Range(tree), anchor # node,
           NEW rows, DomOrdered(tree, rows), node \notin Range(rows)
    PROVE  DomOrdered(DomInsert(tree, node, anchor), rows)
  BY DomInsertFacts, DomPrecedesIn DEF DomOrdered

\* Rows that stand in order show the same from the document and from the slot.
LEMMA DomOnlyAgree ==
    ASSUME NEW P, NEW tree \in Seq(P), IsInjective(tree), NEW Q, NEW rows \in Seq(Q),
           IsInjective(rows), DomOrdered(tree, rows)
    PROVE  DomOnly(tree, Range(rows)) = DomOnly(rows, Range(tree))
<1> DEFINE a == DomOnly(rows, Range(tree))
           b == DomOnly(tree, Range(rows))
           R == P \cup Q
<1>1. a \in Seq(Q) /\ Range(a) = Range(rows) \cap Range(tree) /\ IsInjective(a)
  BY DomOnlyFacts
<1>2. \A x, y : DomPrecedes(a, x, y) =>
                  DomPrecedes(rows, x, y) /\ x \in Range(tree) /\ y \in Range(tree)
  BY DomOnlyFacts
<1>3. b \in Seq(P) /\ Range(b) = Range(tree) \cap Range(rows) /\ IsInjective(b)
  BY DomOnlyFacts
<1>4. \A x, y : DomPrecedes(tree, x, y) /\ x \in Range(rows) /\ y \in Range(rows) =>
                  DomPrecedes(b, x, y)
  BY DomOnlyFacts
<1> HIDE DEF a, b
<1>5. ASSUME NEW x, NEW y, DomPrecedes(a, x, y) PROVE DomPrecedes(b, x, y)
  BY <1>2, <1>5, DomPrecedesIn, <1>4 DEF DomOrdered
<1>6. a \in Seq(R) /\ b \in Seq(R)
  BY <1>1, <1>3
<1>7. Range(a) = Range(b)
  BY <1>1, <1>3
<1> HIDE DEF R
<1>8. a = b
  BY ONLY <1>1, <1>3, <1>5, <1>6, <1>7, DomSameOrder
<1> QED BY <1>8 DEF a, b

-----------------------------------------------------------------------------
(* The slot's layout and the root's.                                       *)

LEMMA DomSlotPlaces ==
    ASSUME NEW P, NEW rows \in Seq(P), NEW x \in P, NEW y \in P
    PROVE  LET q == <<x>> \o rows \o <<y>>
               n == Len(rows)
           IN  /\ q \in Seq(P) /\ Len(q) = n + 2 /\ q[1] = x /\ q[n + 2] = y
               /\ \A i \in 1..n : q[i + 1] = rows[i]
<1> DEFINE n == Len(rows)
           a == <<x>>
           b == Joined(a, rows)
           c == <<y>>
           q == Joined(b, c)
<1>1. a \in Seq(P) /\ Len(a) = 1 /\ a[1] = x /\ c \in Seq(P) /\ Len(c) = 1 /\ c[1] = y /\ n \in Nat
  OBVIOUS
<1>2. q = <<x>> \o rows \o <<y>>
  BY DEF Joined
<1> HIDE DEF a, c
<1>3. b \in Seq(P) /\ Len(b) = 1 + n
  BY <1>1, JoinedSeq, JoinedLen
<1>4. (\A i \in 1..1 : b[i] = a[i]) /\ \A i \in 1..n : b[1 + i] = rows[i]
  <2>1. (\A i \in 1..Len(a) : b[i] = a[i]) /\ \A i \in 1..Len(rows) : b[Len(a) + i] = rows[i]
    <3>1. a \in Seq(P) /\ rows \in Seq(P)
      BY ONLY <1>1, rows \in Seq(P)
    <3> QED BY ONLY <3>1, JoinedAt
  <2> QED BY ONLY <1>1, <2>1
<1> HIDE DEF b
<1>5. q \in Seq(P) /\ Len(q) = (1 + n) + 1
  <2>1. q \in Seq(P) /\ Len(q) = Len(b) + Len(c)
    BY <1>1, <1>3, JoinedSeq, JoinedLen
  <2> QED BY ONLY <1>1, <1>3, <2>1
<1>6. (\A i \in 1..(1 + n) : q[i] = b[i]) /\ \A i \in 1..1 : q[(1 + n) + i] = c[i]
  <2>1. (\A i \in 1..Len(b) : q[i] = b[i]) /\ \A i \in 1..Len(c) : q[Len(b) + i] = c[i]
    <3>1. b \in Seq(P) /\ c \in Seq(P)
      BY ONLY <1>1, <1>3
    <3> QED BY ONLY <3>1, JoinedAt
  <2> QED BY ONLY <1>1, <1>3, <2>1
<1> HIDE DEF q, n
<1>7. Len(q) = n + 2 /\ q[1] = x
  BY <1>1, <1>4, <1>5, <1>6
<1>8. \A i \in 1..n : q[i + 1] = rows[i]
  BY <1>1, <1>4, <1>6
<1>9. q[n + 2] = y
  BY <1>1, <1>6
<1> QED BY <1>2, <1>5, <1>7, <1>8, <1>9 DEF n

\* The page satisfies the layout check.
LEMMA DomPageLayout ==
    ASSUME NEW P, NEW rows \in Seq(P)
    PROVE  DomLayout(DomPage(rows), rows)
<1> DEFINE p == DomPage(rows)
           n == Len(rows)
           sa == <<"slot", 0>>
           sb == <<"slot", 1>>
           Q == P \cup DomFrame
           q == <<sa>> \o rows \o <<sb>>
           t == SubSeq(p, 2, n + 3)
<1>1. p \in Seq(Q) /\ Len(p) = n + 4 /\ p[2] = sa
      /\ (\A i \in 1..n : p[i + 2] = rows[i]) /\ p[n + 3] = sb
  BY DomPagePlaces
<1>2. sa \in Q /\ sb \in Q /\ rows \in Seq(Q) /\ n \in Nat
  BY DEF DomFrame
<1> HIDE DEF Q, sa, sb, p
<1>3. q \in Seq(Q) /\ Len(q) = n + 2 /\ q[1] = sa /\ q[n + 2] = sb
      /\ \A i \in 1..n : q[i + 1] = rows[i]
  BY ONLY <1>2, DomSlotPlaces
<1> HIDE DEF q, n
<1>4. t \in Seq(Q) /\ Len(t) = n + 2 /\ \A i \in 1..(n + 2) : t[i] = p[i + 1]
  BY <1>1, <1>2
<1> HIDE DEF t
<1>5. \A i \in 1..(n + 2) : t[i] = q[i]
  <2> TAKE i \in 1..(n + 2)
  <2>1. CASE i = 1
    BY <1>1, <1>2, <1>3, <1>4, <2>1
  <2>2. CASE i = n + 2
    <3>1. i + 1 = n + 3
      BY <1>2, <2>2
    <3> QED BY <1>1, <1>3, <1>4, <2>2, <3>1
  <2>3. CASE i > 1 /\ i < n + 2
    <3>1. i - 1 \in 1..n /\ (i - 1) + 2 = i + 1 /\ (i - 1) + 1 = i
      BY <1>2, <2>3
    <3>2. p[(i - 1) + 2] = rows[i - 1] /\ q[(i - 1) + 1] = rows[i - 1]
      BY <1>1, <1>3, <3>1
    <3> QED BY <1>4, <3>1, <3>2
  <2> QED BY <1>2, <2>1, <2>2, <2>3
<1>6. t = q
  BY <1>3, <1>4, <1>5
<1>7. 2 \in DOMAIN p /\ 2 + n + 1 <= Len(p) /\ 2 + n + 1 = n + 3
  BY <1>1, <1>2
<1>8. SubSeq(p, 2, 2 + n + 1) = q
  BY <1>6, <1>7 DEF t
<1>9. \E i \in DOMAIN p : i + n + 1 <= Len(p) /\ SubSeq(p, i, i + n + 1) = q
  BY <1>7, <1>8
<1> QED BY <1>9 DEF DomLayout, p, n, q, sa, sb

\* What the layout check accepts shows the rows in their order.
LEMMA DomLayoutOrdered ==
    ASSUME NEW P, NEW tree \in Seq(P), NEW Q, NEW rows \in Seq(Q), DomLayout(tree, rows)
    PROVE  DomOrdered(tree, rows)
<1> DEFINE n == Len(rows)
           sa == <<"slot", 0>>
           sb == <<"slot", 1>>
           R == Q \cup DomFrame
           q == <<sa>> \o rows \o <<sb>>
<1>1. PICK c \in DOMAIN tree : c + n + 1 <= Len(tree) /\ SubSeq(tree, c, c + n + 1) = q
  BY DEF DomLayout
<1>2. sa \in R /\ sb \in R /\ rows \in Seq(R) /\ n \in Nat
  BY DEF DomFrame
<1> HIDE DEF R, sa, sb
<1>3. q \in Seq(R) /\ \A i \in 1..n : q[i + 1] = rows[i]
  BY ONLY <1>2, DomSlotPlaces
<1> HIDE DEF q
<1>4. DOMAIN tree = 1..Len(tree) /\ Len(tree) \in Nat /\ DOMAIN rows = 1..n
  OBVIOUS
<1> HIDE DEF n
<1>5. \A i \in 1..n : c + i \in DOMAIN tree /\ tree[c + i] = rows[i]
  <2> TAKE i \in 1..n
  <2> DEFINE t == SubSeq(tree, c, c + n + 1)
             d == c + n + 1
  <2>1. c \in Int /\ d \in Int /\ c >= 1 /\ c <= d /\ d <= Len(tree) /\ i + 1 \in 1..(d - c + 1)
        /\ c + (i + 1) - 1 = c + i
    BY <1>1, <1>2, <1>4
  <2>2. SubSeq(tree, c, d)[i + 1] = tree[c + (i + 1) - 1]
    <3> HIDE DEF d
    <3> QED BY SMTT(60), <2>1
  <2>3. t[i + 1] = tree[c + i]
    BY <2>1, <2>2
  <2>4. t[i + 1] = rows[i]
    BY <1>1, <1>3
  <2>5. c + i \in 1..Len(tree)
    BY <1>1, <1>2, <1>4
  <2> QED BY <1>4, <2>3, <2>4, <2>5
<1> SUFFICES ASSUME NEW x, NEW y, DomPrecedes(rows, x, y) PROVE DomPrecedes(tree, x, y)
  BY DEF DomOrdered
<1>6. PICK i, j \in 1..n : i < j /\ rows[i] = x /\ rows[j] = y
  BY <1>4 DEF DomPrecedes
<1>7. c + i < c + j
  BY <1>1, <1>2, <1>4, <1>6
<1> QED BY <1>5, <1>6, <1>7 DEF DomPrecedes

\* The layout the root registers for new rows.
LEMMA DomTopologyPage ==
    ASSUME NEW P, NEW old, DomPlain(old, P), NEW Q, NEW rows, DomPlain(rows, Q)
    PROVE  DomTopology(DomPage(old), rows) = DomPage(rows)
<1> DEFINE o == DomPage(old)
           p == DomPage(rows)
           m == Len(old)
           n == Len(rows)
           sa == <<"slot", 0>>
           sb == <<"slot", 1>>
           R == P \cup Q \cup DomFrame
           At(x) == CHOOSE i \in DOMAIN o : o[i] = x
<1>1. old \in Seq(P) /\ rows \in Seq(Q)
  BY DEF DomPlain
<1>2. o \in Seq(P \cup DomFrame) /\ Len(o) = m + 4 /\ o[1] = <<"root", 0>> /\ o[2] = sa
      /\ o[m + 3] = sb /\ o[m + 4] = <<"root", 1>>
  BY <1>1, DomPagePlaces
<1>3. p \in Seq(Q \cup DomFrame) /\ Len(p) = n + 4 /\ p[1] = <<"root", 0>> /\ p[2] = sa
      /\ (\A i \in 1..n : p[i + 2] = rows[i]) /\ p[n + 3] = sb /\ p[n + 4] = <<"root", 1>>
  BY <1>1, DomPagePlaces
<1>4. IsInjective(o)
  BY DomPageFacts
<1>5. m \in Nat /\ n \in Nat
  BY <1>1
<1>6. o \in Seq(R) /\ p \in Seq(R) /\ rows \in Seq(R)
  BY <1>1, <1>2, <1>3
<1> HIDE DEF o, p, m, sa, sb, R
<1>7. DOMAIN o = 1..(m + 4)
  BY <1>2, <1>5
<1>8. 2 \in DOMAIN o /\ m + 3 \in DOMAIN o
  BY <1>5, <1>7
<1>9. At(sa) = 2 /\ At(sb) = m + 3
  <2>1. At(sa) \in DOMAIN o /\ o[At(sa)] = sa /\ At(sb) \in DOMAIN o /\ o[At(sb)] = sb
    BY SMTT(60), <1>2, <1>8
  <2> HIDE DEF At
  <2> QED BY <1>2, <1>4, <1>8, <2>1 DEF IsInjective
<1> DEFINE a == SubSeq(o, 1, 2)
           b == SubSeq(o, m + 3, m + 4)
           c == Joined(a, rows)
           t == Joined(c, b)
<1>10. DomTopology(o, rows) = t
  BY <1>2, <1>9 DEF DomTopology, sa, sb, Joined
<1>11. a \in Seq(R) /\ Len(a) = 2 /\ a[1] = o[1] /\ a[2] = o[2]
  BY <1>2, <1>5, <1>6
<1>12. b \in Seq(R) /\ Len(b) = 2 /\ b[1] = o[m + 3] /\ b[2] = o[m + 4]
  <2> DEFINE u == m + 3
             v == m + 4
  <2>1. u \in Int /\ v \in Int /\ u >= 1 /\ u <= v /\ v <= Len(o) /\ v - u + 1 = 2
        /\ u + 1 - 1 = u /\ u + 2 - 1 = v /\ 1 \in 1..2 /\ 2 \in 1..2
    BY <1>2, <1>5
  <2> HIDE DEF u, v
  <2>2. SubSeq(o, u, v) \in Seq(R) /\ Len(SubSeq(o, u, v)) = v - u + 1
        /\ \A i \in 1..(v - u + 1) : SubSeq(o, u, v)[i] = o[u + i - 1]
    BY <1>6, <2>1
  <2>3. SubSeq(o, u, v)[1] = o[u] /\ SubSeq(o, u, v)[2] = o[v]
    BY <2>1, <2>2
  <2>4. b = SubSeq(o, u, v)
    BY DEF u, v
  <2> HIDE DEF b
  <2> QED BY <2>1, <2>2, <2>3, <2>4 DEF u, v
<1> HIDE DEF a, b
<1>13. c \in Seq(R) /\ Len(c) = 2 + n /\ (\A i \in 1..2 : c[i] = a[i])
       /\ \A i \in 1..n : c[2 + i] = rows[i]
  <2>0. a \in Seq(R) /\ rows \in Seq(R)
    BY <1>6, <1>11
  <2>1. c \in Seq(R) /\ Len(c) = Len(a) + Len(rows)
    BY ONLY <2>0, JoinedSeq, JoinedLen
  <2>2. (\A i \in 1..Len(a) : c[i] = a[i]) /\ \A i \in 1..Len(rows) : c[Len(a) + i] = rows[i]
    BY ONLY <2>0, JoinedAt
  <2> HIDE DEF c
  <2> QED BY ONLY <1>11, <2>1, <2>2
<1> HIDE DEF c, n
<1>14. t \in Seq(R) /\ Len(t) = (2 + n) + 2 /\ (\A i \in 1..(2 + n) : t[i] = c[i])
       /\ \A i \in 1..2 : t[(2 + n) + i] = b[i]
  <2>0. c \in Seq(R) /\ b \in Seq(R)
    BY <1>12, <1>13
  <2>1. t \in Seq(R) /\ Len(t) = Len(c) + Len(b)
    BY ONLY <2>0, JoinedSeq, JoinedLen
  <2>2. (\A i \in 1..Len(c) : t[i] = c[i]) /\ \A i \in 1..Len(b) : t[Len(c) + i] = b[i]
    BY ONLY <2>0, JoinedAt
  <2> HIDE DEF t
  <2> QED BY ONLY <1>12, <1>13, <2>1, <2>2
<1> HIDE DEF t
<1>15. \A i \in 1..(n + 4) : t[i] = p[i]
  <2> TAKE i \in 1..(n + 4)
  <2>1. CASE i = 1 \/ i = 2
    <3>1. i \in 1..2 /\ i \in 1..(2 + n)
      BY <1>5, <2>1
    <3> QED BY <1>2, <1>3, <1>11, <1>13, <1>14, <2>1, <3>1
  <2>2. CASE i = n + 3
    <3>1. 1 \in 1..2 /\ (2 + n) + 1 = i
      BY <1>5, <2>2
    <3>2. t[(2 + n) + 1] = b[1]
      BY <1>14, <3>1
    <3> QED BY <1>2, <1>3, <1>12, <2>2, <3>1, <3>2
  <2>3. CASE i = n + 4
    BY <1>5, <2>3, <1>14, <1>2, <1>3, <1>12
  <2>4. CASE i > 2 /\ i < n + 3
    <3>1. i - 2 \in 1..n /\ (i - 2) + 2 = i /\ 2 + (i - 2) = i /\ i \in 1..(2 + n)
      BY <1>5, <2>4
    <3>2. c[2 + (i - 2)] = rows[i - 2] /\ p[(i - 2) + 2] = rows[i - 2]
      BY <1>3, <1>13, <3>1
    <3> QED BY <1>14, <3>1, <3>2
  <2>5. i = 1 \/ i = 2 \/ i = n + 3 \/ i = n + 4 \/ (i > 2 /\ i < n + 3)
    BY ONLY <1>5, i \in 1..(n + 4)
  <2> QED BY <2>1, <2>2, <2>3, <2>4, <2>5
<1>16. Len(t) = n + 4
  BY <1>5, <1>14
<1>17. t = p
  BY <1>3, <1>6, <1>14, <1>15, <1>16
<1> QED BY <1>10, <1>17 DEF o, p

-----------------------------------------------------------------------------
(* Moving the rows.                                                        *)

\* The rows that stay already stand in the new order; that there is a longest
\* such set is all that is used of it.
LEMMA DomKeepRises ==
    ASSUME NEW P, NEW rows \in Seq(P), NEW plan \in Seq(P)
    PROVE  LET K == DomKeep(plan, rows)
           IN  /\ K \subseteq DOMAIN plan
               /\ \A i \in K : plan[i] \in Range(rows)
               /\ \A i, j \in K : i < j => DomPrecedes(rows, plan[i], plan[j])
<1> DEFINE Old(x) == CHOOSE j \in DOMAIN rows : rows[j] = x
           kept == {i \in DOMAIN plan : plan[i] \in Range(rows)}
           rising == {S \in SUBSET kept : \A i, j \in S : i < j => Old(plan[i]) < Old(plan[j])}
           Longest(S) == \A T \in rising : Cardinality(T) <= Cardinality(S)
           K == CHOOSE S \in rising : Longest(S)
           n == Len(plan)
<1>1. DomKeep(plan, rows) = K
  BY DEF DomKeep
<1>2. kept \subseteq 1..n /\ n \in Nat
  OBVIOUS
<1>3. rising \subseteq SUBSET kept /\ {} \in rising
  OBVIOUS
<1> HIDE DEF rising, kept, n
<1>4. \A S \in rising : IsFiniteSet(S) /\ Cardinality(S) \in Nat
  <2>1. IsFiniteSet(1..n)
    BY <1>2, FS_Interval
  <2>2. \A S \in rising : S \subseteq 1..n
    BY <1>2, <1>3
  <2> QED BY <2>1, <2>2, FS_Subset, FS_CardinalityType
<1>5. \A S \in rising : Cardinality(S) <= n
  <2>1. IsFiniteSet(1..n) /\ Cardinality(1..n) = n
    BY <1>2, FS_Interval
  <2>2. \A S \in rising : S \subseteq 1..n
    BY <1>2, <1>3
  <2> SUFFICES ASSUME NEW S \in rising PROVE Cardinality(S) <= n
    OBVIOUS
  <2> DEFINE N == 1..n
  <2>3. IsFiniteSet(N) /\ Cardinality(N) = n /\ S \in SUBSET N
    BY <2>1, <2>2
  <2> HIDE DEF N
  <2>4. Cardinality(S) <= Cardinality(N)
    BY ONLY <2>3, FS_Subset
  <2> QED BY <2>3, <2>4
<1> DEFINE U == {n - Cardinality(S) : S \in rising}
<1>6. U \subseteq Nat /\ U # {}
  BY <1>2, <1>3, <1>4, <1>5
<1>7. PICK u \in U : \A v \in U : ~(v < u)
  <2> HIDE DEF U
  <2> QED BY <1>6, Least
<1>8. PICK S \in rising : u = n - Cardinality(S)
  BY <1>7
<1>9. Longest(S)
  <2> SUFFICES ASSUME NEW T \in rising PROVE Cardinality(T) <= Cardinality(S)
    OBVIOUS
  <2>1. ~(n - Cardinality(T) < n - Cardinality(S))
    BY <1>7, <1>8
  <2>2. Cardinality(T) \in Nat /\ Cardinality(S) \in Nat
    BY <1>4
  <2> QED BY <1>2, <2>1, <2>2
<1> HIDE DEF Longest
<1>10. K \in rising
  BY <1>8, <1>9
<1> HIDE DEF K
<1>11. K \subseteq kept /\ \A i, j \in K : i < j => Old(plan[i]) < Old(plan[j])
  BY <1>10 DEF rising
<1>12. K \subseteq DOMAIN plan /\ \A i \in K : plan[i] \in Range(rows)
  BY <1>11 DEF kept
<1>13. \A x \in Range(rows) : Old(x) \in DOMAIN rows /\ rows[Old(x)] = x
  BY DEF Range
<1> HIDE DEF Old
<1>14. \A i, j \in K : i < j => DomPrecedes(rows, plan[i], plan[j])
  BY <1>11, <1>12, <1>13 DEF DomPrecedes
<1> QED BY <1>1, <1>12, <1>14

LEMMA DomPlacedStart ==
    ASSUME NEW P, NEW rows, DomPlain(rows, P), NEW plan, DomPlain(plan, P)
    PROVE  DomPlaced(DomPage(rows), rows, plan, Len(plan))
<1> DEFINE p == DomPage(rows)
           at == Len(plan)
           K == DomKeep(plan, rows)
           placed == {i \in DOMAIN plan : i > at}
<1>1. rows \in Seq(P) /\ plan \in Seq(P)
  BY DEF DomPlain
<1>2. placed = {}
  BY <1>1
<1>3. \A i, j \in K : i < j => DomPrecedes(rows, plan[i], plan[j])
  BY <1>1, DomKeepRises
<1>4. Range(p) = DomFrame \cup Range(rows)
  BY DomPageFacts
<1>5. /\ DomPrecedes(p, <<"root", 0>>, <<"slot", 0>>)
      /\ DomPrecedes(p, <<"slot", 0>>, <<"slot", 1>>)
      /\ DomPrecedes(p, <<"slot", 1>>, <<"root", 1>>)
      /\ \A x \in Range(rows) : /\ DomPrecedes(p, <<"slot", 0>>, x)
                                /\ DomPrecedes(p, x, <<"slot", 1>>)
  BY DomPageOrder
<1>6. \A x, y : DomPrecedes(rows, x, y) => DomPrecedes(p, x, y)
  BY DomPageOrder
<1> HIDE DEF p, K, at, placed
<1> DEFINE done == placed \cup K
           shown == Range(rows) \cup {plan[i] : i \in placed}
<1>7. done = K /\ shown = Range(rows)
  BY <1>2
<1> HIDE DEF done, shown
<1>8. \A i, j \in done : i < j => DomPrecedes(p, plan[i], plan[j])
  BY <1>3, <1>6, <1>7
<1>9. DomPlaced(p, rows, plan, at)
  BY <1>4, <1>5, <1>7, <1>8 DEF DomPlaced, done, shown, placed, K
<1> QED BY <1>9 DEF p, at

\* One fact at a time of a list half way moved.
DomDone(plan, rows, at) == {i \in DOMAIN plan : i > at} \cup DomKeep(plan, rows)
DomShown(plan, rows, at) == Range(rows) \cup {plan[i] : i \in {j \in DOMAIN plan : j > at}}

LEMMA DomPlacedIs ==
    ASSUME NEW tree, NEW rows, NEW plan, NEW at
    PROVE  DomPlaced(tree, rows, plan, at) <=>
             /\ Range(tree) = DomFrame \cup DomShown(plan, rows, at)
             /\ DomPrecedes(tree, <<"root", 0>>, <<"slot", 0>>)
             /\ DomPrecedes(tree, <<"slot", 0>>, <<"slot", 1>>)
             /\ DomPrecedes(tree, <<"slot", 1>>, <<"root", 1>>)
             /\ \A x \in DomShown(plan, rows, at) : /\ DomPrecedes(tree, <<"slot", 0>>, x)
                                                   /\ DomPrecedes(tree, x, <<"slot", 1>>)
             /\ \A i, j \in DomDone(plan, rows, at) :
                  i < j => DomPrecedes(tree, plan[i], plan[j])
  BY DEF DomPlaced, DomDone, DomShown

LEMMA DomPlacedSkip ==
    ASSUME NEW P, NEW rows, DomPlain(rows, P), NEW plan, DomPlain(plan, P), NEW tree,
           NEW at \in 1..Len(plan), DomPlaced(tree, rows, plan, at), at \in DomKeep(plan, rows)
    PROVE  DomPlaced(tree, rows, plan, at - 1)
<1> DEFINE K == DomKeep(plan, rows)
           n == Len(plan)
<1>1. rows \in Seq(P) /\ plan \in Seq(P)
  BY DEF DomPlain
<1>2. plan[at] \in Range(rows)
  BY <1>1, DomKeepRises
<1>3. {i \in DOMAIN plan : i > at - 1} = {i \in DOMAIN plan : i > at} \cup {at}
  BY <1>1
<1>4. DomDone(plan, rows, at - 1) = DomDone(plan, rows, at)
  BY <1>3 DEF DomDone
<1>5. DomShown(plan, rows, at - 1) = DomShown(plan, rows, at)
  BY <1>3, <1>2 DEF DomShown
<1> QED BY <1>4, <1>5, DomPlacedIs

LEMMA DomPlacedMove ==
    ASSUME NEW P, NEW rows, DomPlain(rows, P), NEW plan, DomPlain(plan, P),
           NEW Q, NEW tree \in Seq(Q), IsInjective(tree), P \subseteq Q,
           NEW at \in 1..Len(plan), DomPlaced(tree, rows, plan, at),
           at \notin DomKeep(plan, rows)
    PROVE  LET anchor == IF at = Len(plan) THEN <<"slot", 1>> ELSE plan[at + 1]
           IN  /\ anchor \in Range(tree) /\ anchor # plan[at]
               /\ DomPlaced(DomInsert(tree, plan[at], anchor), rows, plan, at - 1)
<1> DEFINE n == Len(plan)
           anchor == IF at = n THEN <<"slot", 1>> ELSE plan[at + 1]
           row == plan[at]
           t == DomInsert(tree, row, anchor)
           done == DomDone(plan, rows, at)
           shown == DomShown(plan, rows, at)
           done1 == DomDone(plan, rows, at - 1)
           shown1 == DomShown(plan, rows, at - 1)
           ra == <<"root", 0>>
           sa == <<"slot", 0>>
           sb == <<"slot", 1>>
           rb == <<"root", 1>>
<1>1. rows \in Seq(P) /\ plan \in Seq(P) /\ IsInjective(plan) /\ P \cap DomFrame = {}
  BY DEF DomPlain
<1>2. n \in Nat /\ DOMAIN plan = 1..n /\ at \in 1..n
  BY <1>1
<1>3. Range(tree) = DomFrame \cup shown
      /\ DomPrecedes(tree, ra, sa) /\ DomPrecedes(tree, sa, sb) /\ DomPrecedes(tree, sb, rb)
      /\ (\A x \in shown : DomPrecedes(tree, sa, x) /\ DomPrecedes(tree, x, sb))
      /\ \A i, j \in done : i < j => DomPrecedes(tree, plan[i], plan[j])
  BY DomPlacedIs
<1>4. {i \in DOMAIN plan : i > at - 1} = {i \in DOMAIN plan : i > at} \cup {at}
  BY <1>2
<1>5. done1 = done \cup {at} /\ shown1 = shown \cup {row}
  BY <1>4 DEF DomDone, DomShown
<1>6. done \subseteq 1..n /\ at \notin done
  BY <1>1, DomKeepRises, <1>2 DEF DomDone
<1>7. \A i \in done : plan[i] \in shown
  BY <1>1, DomKeepRises DEF DomDone, DomShown
<1>8. \A i \in 1..n : i > at => i \in done
  BY <1>2 DEF DomDone
<1>9. row \in P /\ row \in Q
  BY <1>1, <1>2
<1>10. row # ra /\ row # sa /\ row # sb /\ row # rb
  BY <1>1, <1>9 DEF DomFrame
<1>11. \A i \in done : plan[i] # row
  BY <1>1, <1>2, <1>6 DEF IsInjective
<1>12. at # n => at + 1 \in done /\ at + 1 \in 1..n
  <2> HIDE DEF n, done
  <2>1. at # n => at + 1 \in 1..n /\ at + 1 > at
    BY ONLY <1>2
  <2> QED BY ONLY <1>8, <2>1
<1>13. anchor \in Range(tree) /\ anchor # row
       /\ DomPrecedes(tree, sa, anchor) /\ (anchor = sb \/ DomPrecedes(tree, anchor, sb))
  BY <1>3, <1>10, <1>12, <1>7, <1>11 DEF DomFrame
<1>14. \A i \in done : i < at => DomPrecedes(tree, plan[i], anchor)
  <2> SUFFICES ASSUME NEW i \in done, i < at PROVE DomPrecedes(tree, plan[i], anchor)
    OBVIOUS
  <2>1. CASE at = n
    BY <1>3, <1>7, <2>1
  <2>2. CASE at # n
    <3>1. at + 1 \in done /\ i < at + 1
      <4> HIDE DEF n, done
      <4>1. i < at + 1
        BY ONLY <1>2, <1>6, i \in done, i < at
      <4> QED BY ONLY <1>12, <2>2, <4>1
    <3>2. DomPrecedes(tree, plan[i], plan[at + 1])
      <4> HIDE DEF done
      <4> QED BY <1>3, <3>1
    <3> QED BY <2>2, <3>2
  <2> QED BY <2>1, <2>2
<1>15. \A j \in done : at < j => plan[j] = anchor \/ DomPrecedes(tree, anchor, plan[j])
  <2> SUFFICES ASSUME NEW j \in done, at < j
               PROVE  plan[j] = anchor \/ DomPrecedes(tree, anchor, plan[j])
    OBVIOUS
  <2>1. at # n /\ (j = at + 1 \/ at + 1 < j)
    <3> HIDE DEF n, done
    <3> QED BY ONLY <1>2, <1>6, j \in done, at < j
  <2>2. anchor = plan[at + 1] /\ at + 1 \in done
    BY <1>12, <2>1
  <2>3. at + 1 < j => DomPrecedes(tree, plan[at + 1], plan[j])
    <3> HIDE DEF done
    <3> QED BY <1>3, <2>2
  <2> QED BY <2>1, <2>2, <2>3
<1> HIDE DEF anchor, row, ra, sa, sb, rb
<1>16. Range(t) = Range(tree) \cup {row}
  BY ONLY <1>9, <1>13, tree \in Seq(Q), IsInjective(tree), DomInsertFacts
<1>17. \A x, y : x # row /\ y # row => (DomPrecedes(t, x, y) <=> DomPrecedes(tree, x, y))
  BY ONLY <1>9, <1>13, tree \in Seq(Q), IsInjective(tree), DomInsertFacts
<1>18. \A y : y # row /\ (y = anchor \/ DomPrecedes(tree, anchor, y)) => DomPrecedes(t, row, y)
  BY ONLY <1>9, <1>13, tree \in Seq(Q), IsInjective(tree), DomInsertFacts
<1>19. \A x : x # row /\ DomPrecedes(tree, x, anchor) => DomPrecedes(t, x, row)
  BY ONLY <1>9, <1>13, tree \in Seq(Q), IsInjective(tree), DomInsertFacts
<1> HIDE DEF t, done, shown, done1, shown1
<1>20. Range(t) = DomFrame \cup shown1
  BY <1>3, <1>5, <1>16
<1>21. DomPrecedes(t, ra, sa) /\ DomPrecedes(t, sa, sb) /\ DomPrecedes(t, sb, rb)
  BY <1>3, <1>10, <1>17
<1>22. \A x \in shown1 : DomPrecedes(t, sa, x) /\ DomPrecedes(t, x, sb)
  BY <1>10, <1>13, <1>18, <1>19, <1>3, <1>5, <1>17
<1>23. \A i, j \in done1 : i < j => DomPrecedes(t, plan[i], plan[j])
  <2> SUFFICES ASSUME NEW i \in done1, NEW j \in done1, i < j
               PROVE  DomPrecedes(t, plan[i], plan[j])
    OBVIOUS
  <2>1. CASE i = at
    BY <1>2, <2>1, <1>5, <1>11, <1>15, <1>18 DEF row
  <2>2. CASE j = at
    BY <1>2, <2>2, <1>5, <1>11, <1>14, <1>19 DEF row
  <2>3. CASE i # at /\ j # at
    <3>1. i \in done /\ j \in done
      BY <1>5, <2>3
    <3> QED BY <1>3, <1>11, <1>17, <3>1
  <2> QED BY <2>1, <2>2, <2>3
<1>24. DomPlaced(t, rows, plan, at - 1)
  BY <1>20, <1>21, <1>22, <1>23, DomPlacedIs DEF done1, shown1, ra, sa, sb, rb
<1> QED BY <1>13, <1>24 DEF t, anchor, row, n

\* All rows moved and the old ones taken away: the new page.
LEMMA DomPlacedEnd ==
    ASSUME NEW P, NEW rows, DomPlain(rows, P), NEW plan, DomPlain(plan, P),
           NEW Q, NEW tree \in Seq(Q), IsInjective(tree), DomPlaced(tree, rows, plan, 0)
    PROVE  DomWithout(tree, Range(rows) \ Range(plan)) = DomPage(plan)
<1> DEFINE S == Range(rows) \ Range(plan)
           r == DomWithout(tree, S)
           shown == DomShown(plan, rows, 0)
           done == DomDone(plan, rows, 0)
           ra == <<"root", 0>>
           sa == <<"slot", 0>>
           sb == <<"slot", 1>>
           rb == <<"root", 1>>
<1>1. rows \in Seq(P) /\ plan \in Seq(P) /\ IsInjective(plan) /\ P \cap DomFrame = {}
  BY DEF DomPlain
<1>2. {i \in DOMAIN plan : i > 0} = DOMAIN plan
  <2>1. \A i \in DOMAIN plan : i > 0
    BY ONLY <1>1
  <2> QED BY ONLY <2>1
<1>3. shown = Range(rows) \cup Range(plan)
  BY <1>2 DEF DomShown, Range
<1>4. DOMAIN plan \subseteq done
  BY <1>2 DEF DomDone
<1>5. Range(tree) = DomFrame \cup shown
      /\ DomPrecedes(tree, ra, sa) /\ DomPrecedes(tree, sa, sb) /\ DomPrecedes(tree, sb, rb)
      /\ (\A x \in shown : DomPrecedes(tree, sa, x) /\ DomPrecedes(tree, x, sb))
      /\ \A i, j \in done : i < j => DomPrecedes(tree, plan[i], plan[j])
  BY DomPlacedIs
<1>6. Range(rows) \subseteq P
  BY <1>1 DEF Range
<1>7. ra \notin S /\ sa \notin S /\ sb \notin S /\ rb \notin S /\ DomFrame \cap S = {}
  BY <1>1, <1>6 DEF DomFrame
<1> HIDE DEF S, ra, sa, sb, rb, shown, done
<1>8. r \in Seq(Q) /\ Range(r) = Range(tree) \ S /\ IsInjective(r)
  BY DomWithoutFacts
<1>9. \A x, y : DomPrecedes(r, x, y) <=> DomPrecedes(tree, x, y) /\ x \notin S /\ y \notin S
  BY DomWithoutFacts
<1> HIDE DEF r
<1>10. Range(plan) \cap S = {}
  BY DEF S
<1>11. Range(r) = DomFrame \cup Range(plan)
  BY <1>3, <1>5, <1>7, <1>8 DEF S
<1>12. DomPrecedes(r, ra, sa) /\ DomPrecedes(r, sa, sb) /\ DomPrecedes(r, sb, rb)
  BY <1>5, <1>7, <1>9
<1>13. \A x \in Range(plan) : DomPrecedes(r, sa, x) /\ DomPrecedes(r, x, sb)
  BY <1>3, <1>5, <1>7, <1>9, <1>10
<1>14. ASSUME NEW x, NEW y, DomPrecedes(plan, x, y) PROVE DomPrecedes(r, x, y)
  <2>1. PICK i, j \in DOMAIN plan : i < j /\ plan[i] = x /\ plan[j] = y
    BY <1>14 DEF DomPrecedes
  <2>2. DomPrecedes(tree, x, y)
    BY <1>4, <1>5, <2>1
  <2>3. x \in Range(plan) /\ y \in Range(plan)
    BY <1>14, DomPrecedesIn
  <2> QED BY <1>9, <1>10, <2>2, <2>3
<1>15. r = DomPage(plan)
  BY <1>12, <1>13, <1>8, <1>11, <1>14, DomPageIs DEF ra, sa, sb, rb
<1> QED BY <1>15 DEF r, S

-----------------------------------------------------------------------------
(* The plan of an update.                                                  *)

DomPlanOf(want, rows, gen) ==
    [i \in DOMAIN want |->
        LET held == {n \in Range(rows) : n[1] = want[i]}
        IN  IF held /= {} THEN CHOOSE n \in held : TRUE ELSE <<want[i], gen>>]

LEMMA DomPlanFacts ==
    ASSUME NEW gen \in Nat, gen >= 1, NEW rows, DomIsRows("keyed", gen, rows),
           NEW want \in DomCollections
    PROVE  LET plan == DomPlanOf(want, rows, gen)
           IN  /\ DomIsRows("keyed", gen + 1, plan) /\ DomKeysOf(plan) = want
               /\ DomContinues(rows, plan)
<1> DEFINE plan == DomPlanOf(want, rows, gen)
           G == 1..((gen + 1) - 1)
           H == 1..(gen - 1)
           Held(k) == {n \in Range(rows) : n[1] = k}
<1>1. PICK n \in 0..Cardinality(DomKeys) : want \in [1..n -> DomKeys] /\ IsInjective(want)
  BY DEF DomCollections
<1>2. n \in Nat
  <2>1. Cardinality(DomKeys) \in Nat
    BY DomKeysAssumption, FS_CardinalityType
  <2> QED BY <2>1
<1>3. rows \in Seq(DomKeys \X H) /\ IsInjective(DomKeysOf(rows))
  BY DEF DomIsRows, DomRowNodes
<1>4. gen \in G /\ H \subseteq G
  OBVIOUS
<1> HIDE DEF G, H
<1>5. \A x \in Range(rows) : x \in DomKeys \X G
  <2>1. \A i \in DOMAIN rows : rows[i] \in DomKeys \X H
    BY <1>3
  <2> QED BY <1>4, <2>1 DEF Range
<1>6. \A i \in 1..n : plan[i] \in DomKeys \X G /\ plan[i][1] = want[i]
      /\ (Held(want[i]) # {} => plan[i] \in Held(want[i]))
  <2> TAKE i \in 1..n
  <2>1. plan[i] = IF Held(want[i]) # {} THEN CHOOSE x \in Held(want[i]) : TRUE
                  ELSE <<want[i], gen>>
    BY <1>1 DEF DomPlanOf
  <2> HIDE DEF plan
  <2>2. CASE Held(want[i]) # {}
    <3>1. plan[i] \in Held(want[i])
      <4> HIDE DEF Held
      <4> QED BY <2>1, <2>2
    <3> QED BY <1>5, <3>1
  <2>3. CASE Held(want[i]) = {}
    BY <1>1, <2>1, <2>3, <1>4
  <2> QED BY <2>2, <2>3
<1>7. DOMAIN plan = 1..n /\ plan = [i \in 1..n |-> plan[i]]
  BY <1>1 DEF DomPlanOf
<1> HIDE DEF plan
<1>8. plan \in Seq(DomKeys \X G)
  BY <1>2, <1>6, <1>7
<1>9. DomKeysOf(plan) = want
  BY <1>6, <1>7, <1>1 DEF DomKeysOf
<1>10. DomIsRows("keyed", gen + 1, plan)
  BY <1>1, <1>8, <1>9 DEF DomIsRows, DomRowNodes, G
<1>11. DomContinues(rows, plan)
  <2> SUFFICES ASSUME NEW i \in DOMAIN rows, NEW j \in DOMAIN plan, rows[i][1] = plan[j][1]
               PROVE  rows[i] = plan[j]
    BY DEF DomContinues
  <2>1. j \in 1..n /\ plan[j][1] = want[j]
    BY <1>6, <1>7
  <2>2. rows[i] \in Range(rows) /\ rows[i][1] = want[j]
    BY <2>1 DEF Range
  <2>3. Held(want[j]) # {}
    BY <2>2
  <2>4. plan[j] \in Range(rows) /\ plan[j][1] = want[j]
    BY <1>6, <2>1, <2>3
  <2>5. PICK k \in DOMAIN rows : plan[j] = rows[k]
    BY <2>4 DEF Range
  <2>6. k = i
    BY <1>3, <2>2, <2>4, <2>5 DEF IsInjective, DomKeysOf
  <2> QED BY <2>5, <2>6
<1> QED BY <1>9, <1>10, <1>11 DEF plan

-----------------------------------------------------------------------------
(* How a transaction ends.                                                 *)

DomEnds == {"mounting", "live", "retiring"}

LEMMA DomDisposedFacts ==
    ASSUME NEW P, NEW tree \in Seq(P), IsInjective(tree)
    PROVE  LET t == DomDisposed(tree)
           IN  t \in Seq(P) /\ IsInjective(t) /\ Range(t) \subseteq {DomForeign}
<1> DEFINE S == DomFrame \cup {n \in Range(tree) : n /= DomForeign}
           t == DomWithout(tree, S)
<1>1. DomDisposed(tree) = t
  BY DEF DomDisposed
<1>2. t \in Seq(P) /\ IsInjective(t) /\ Range(t) = Range(tree) \ S
  <2> HIDE DEF S
  <2> QED BY DomWithoutFacts
<1>3. Range(tree) \ S \subseteq {DomForeign}
  OBVIOUS
<1> HIDE DEF t, S
<1> QED BY <1>1, <1>2, <1>3

\* What is left in the slot and the document when a run returns.
DomLeft(kind, gen, tree, slot) ==
    /\ tree \in Seq(DomNodes(kind, gen)) /\ IsInjective(tree)
    /\ DOMAIN slot = {"status", "rows"} /\ slot.status \in {"Ready", "Poisoned"}
    /\ DomIsRows(kind, gen, slot.rows)
    /\ Range(tree) \subseteq DomFrame \cup {DomForeign} \cup Range(slot.rows)
    /\ DomOrdered(tree, slot.rows)

LEMMA DomReturnKeeps ==
    ASSUME DomTypes, domRoot \in DomEnds, NEW tree, NEW owned, NEW slot, NEW result,
           DomLeft(domKind, domGen, tree, slot), DomReturn(tree, owned, slot, result),
           (/\ domTouched = 0 /\ slot.status = "Ready"
            /\ domRoot = "live" \/ (domRoot = "mounting" /\ result = "committed"))
             => tree = DomPage(slot.rows) /\ (domRoot = "live" => owned = DomPage(slot.rows)),
           (/\ ~domRun.disturbed /\ result # "callback"
            /\ domRoot = "live" \/ (domRoot = "mounting" /\ result = "committed"))
             => /\ slot.status = "Ready"
                /\ domKind = "keyed" => /\ DomKeysOf(slot.rows) = domRun.want
                                        /\ DomContinues(domRun.before, slot.rows)
    PROVE  DomInvariant'
<1> DEFINE gone == domRoot = "retiring" \/ (domRoot = "mounting" /\ result /= "committed")
<1>1. domRun' = [domRun EXCEPT !.pc = "idle",
                               !.disturbed = domRun.disturbed \/ result = "callback"]
  BY DEF DomReturn
<1>2. /\ DOMAIN domRun' = DOMAIN domRun /\ domRun'.pc = "idle" /\ domRun'.hard = domRun.hard
      /\ domRun'.want = domRun.want /\ domRun'.before = domRun.before
      /\ domRun'.disturbed = (domRun.disturbed \/ result = "callback")
  BY <1>1 DEF DomTypes
<1>3. /\ domKind' = domKind /\ domNested' = domNested /\ domAdopt' = domAdopt
      /\ domGen' = domGen /\ domTouched' = domTouched /\ domMixed' = domMixed
  BY DEF DomReturn
<1>4. /\ tree \in Seq(DomNodes(domKind, domGen)) /\ IsInjective(tree)
      /\ DOMAIN slot = {"status", "rows"} /\ slot.status \in {"Ready", "Poisoned"}
      /\ DomIsRows(domKind, domGen, slot.rows)
      /\ Range(tree) \subseteq DomFrame \cup {DomForeign} \cup Range(slot.rows)
      /\ DomOrdered(tree, slot.rows)
  BY DEF DomLeft
<1>5. /\ domKind \in {"keyed", "dynamic"} /\ domNested \in BOOLEAN /\ domAdopt \in BOOLEAN
      /\ domGen \in Nat /\ domGen >= 2 /\ domTouched \in Nat
      /\ domTouched = 0 => domMixed = {}
      /\ DOMAIN domRun = {"pc", "number", "want", "plan", "at", "hard", "old", "before",
                          "disturbed"}
      /\ domRun.hard \in BOOLEAN /\ domRun.disturbed \in BOOLEAN
  BY DEF DomTypes
<1>6. CASE gone
  <2>1. /\ domTree' = DomDisposed(tree) /\ domRoot' = "gone"
        /\ domSlot' = [slot EXCEPT !.rows = <<>>]
    BY <1>6 DEF DomReturn
  <2>2. DOMAIN domSlot' = {"status", "rows"} /\ domSlot'.status = slot.status
        /\ domSlot'.rows = <<>>
    BY <1>4, <2>1
  <2>3. domTree' \in Seq(DomNodes(domKind, domGen)) /\ IsInjective(domTree')
        /\ Range(domTree') \subseteq {DomForeign}
    BY <1>4, <2>1, DomDisposedFacts
  <2>4. DomIsRows(domKind, domGen, <<>>) /\ Range(<<>>) = {}
    BY DomNoRows
  <2>5. DomTypes'
    BY <1>2, <1>3, <1>4, <1>5, <2>1, <2>2, <2>3, <2>4 DEF DomTypes
  <2>6. DomPhases'
    BY <1>2 DEF DomPhases
  <2>7. DomOrdered(domTree', <<>>)
    BY DEF DomOrdered, DomPrecedes
  <2>8. DomResidue'
    BY <1>2, <2>1, <2>2, <2>3, <2>7 DEF DomResidue
  <2>9. DomUntouched'
    BY <2>1 DEF DomUntouched
  <2>10. DomProgress'
    BY <1>2, <2>1 DEF DomProgress
  <2> QED BY <2>5, <2>6, <2>8, <2>9, <2>10 DEF DomInvariant
<1>7. CASE ~gone
  <2>1. /\ domTree' = tree /\ domSlot' = slot /\ domRoot' = "live"
        /\ domOwned' = IF domRoot = "mounting" THEN tree ELSE owned
    BY <1>7 DEF DomReturn
  <2>2. domRoot = "live" \/ (domRoot = "mounting" /\ result = "committed")
    BY <1>7 DEF DomEnds
  <2>3. DomTypes'
    BY <1>2, <1>3, <1>4, <1>5, <2>1 DEF DomTypes
  <2>4. DomPhases'
    BY <1>2 DEF DomPhases
  <2>5. DomResidue'
    BY <1>2, <1>4, <2>1 DEF DomResidue
  <2>6. DomUntouched'
    BY <1>2, <1>3, <2>1, <2>2 DEF DomUntouched
  <2>7. DomProgress'
    BY <1>2, <1>3, <2>1, <2>2 DEF DomProgress
  <2> QED BY <2>3, <2>4, <2>5, <2>6, <2>7 DEF DomInvariant
<1> QED BY <1>6, <1>7

\* A run that fails.
LEMMA DomFailKeeps ==
    ASSUME DomTypes, domRoot \in DomEnds, NEW tree, NEW owned, NEW rows, NEW result,
           NEW hard \in BOOLEAN, NEW corrupted \in BOOLEAN,
           tree \in Seq(DomNodes(domKind, domGen)), IsInjective(tree),
           DomIsRows(domKind, domGen, rows),
           Range(tree) \subseteq
               DomFrame \cup {DomForeign} \cup Range(rows) \cup Range(domRun.plan),
           DomRetires(hard, corrupted) \/ DomOrdered(tree, rows),
           result # "committed",
           result = "callback" \/ domRun.disturbed,
           (/\ domTouched = 0 /\ domRoot = "live"
            /\ ~DomRetires(hard, corrupted) /\ ~(domKind = "dynamic" /\ hard))
             => /\ DomWithout(tree, Range(domRun.plan) \ Range(rows)) = DomPage(rows)
                /\ owned = DomPage(rows),
           DomFail(result, tree, owned, rows, hard, corrupted)
    PROVE  DomInvariant'
<1> DEFINE retires == DomRetires(hard, corrupted)
           staged == Range(domRun.plan) \ Range(rows)
           marks == {<<"slot", 0>>, <<"slot", 1>>}
           dropped == staged \cup (IF retires THEN Range(rows) \cup marks ELSE {})
           t == DomWithout(tree, dropped)
           o == IF retires THEN DomWithout(owned, dropped \cup Range(domSlot.rows)) ELSE owned
           s == [status |-> IF retires \/ (domKind = "dynamic" /\ hard)
                            THEN "Poisoned" ELSE "Ready",
                 rows |-> IF retires THEN <<>> ELSE rows]
<1>1. DomReturn(t, o, s, result)
  BY DEF DomFail, Range
<1>2. t \in Seq(DomNodes(domKind, domGen)) /\ IsInjective(t) /\ Range(t) = Range(tree) \ dropped
  <2> HIDE DEF dropped
  <2> QED BY DomWithoutFacts
<1>3. DOMAIN s = {"status", "rows"} /\ s.status \in {"Ready", "Poisoned"}
      /\ s.rows = IF retires THEN <<>> ELSE rows
  OBVIOUS
<1>4. s.status = "Ready" => ~retires /\ ~(domKind = "dynamic" /\ hard)
  OBVIOUS
<1>5. ~retires => o = owned /\ dropped = staged
  OBVIOUS
<1>6. retires \in BOOLEAN
  BY DEF DomRetires
<1>7. retires => Range(rows) \subseteq dropped
  OBVIOUS
<1>8. staged \subseteq dropped /\ Range(domRun.plan) \subseteq staged \cup Range(rows)
  OBVIOUS
<1>9. DomIsRows(domKind, domGen, <<>>) /\ Range(<<>>) = {}
  BY DomNoRows
<1>10. ~retires => DomOrdered(t, rows)
  <2> HIDE DEF dropped
  <2> QED BY DomWithoutOrdered
<1>11. DomOrdered(t, <<>>)
  BY DEF DomOrdered, DomPrecedes
<1> HIDE DEF s, o, staged, retires, dropped
<1>12. t = DomWithout(tree, dropped)
  OBVIOUS
<1> HIDE DEF t
<1>13. Range(t) \subseteq DomFrame \cup {DomForeign} \cup Range(s.rows)
  BY <1>2, <1>3, <1>7, <1>8, <1>9
<1>14. DomIsRows(domKind, domGen, s.rows) /\ DomOrdered(t, s.rows)
  BY <1>3, <1>9, <1>10, <1>11
<1>15. DomLeft(domKind, domGen, t, s)
  BY <1>2, <1>3, <1>13, <1>14 DEF DomLeft
<1>16. (/\ domTouched = 0 /\ s.status = "Ready"
        /\ domRoot = "live" \/ (domRoot = "mounting" /\ result = "committed"))
         => t = DomPage(s.rows) /\ (domRoot = "live" => o = DomPage(s.rows))
  BY <1>4, <1>3, <1>5, <1>12 DEF retires, staged
<1>17. (/\ ~domRun.disturbed /\ result # "callback"
        /\ domRoot = "live" \/ (domRoot = "mounting" /\ result = "committed"))
         => /\ s.status = "Ready"
            /\ domKind = "keyed" => /\ DomKeysOf(s.rows) = domRun.want
                                    /\ DomContinues(domRun.before, s.rows)
  OBVIOUS
<1> QED BY ONLY <1>1, <1>15, <1>16, <1>17, DomReturnKeeps, DomTypes, domRoot \in DomEnds

-----------------------------------------------------------------------------
(* Before the document is touched.                                         *)

\* An update of a mount nobody has tampered with, nor disposed of.
DomClean == domTouched = 0 /\ domRoot \in {"mounting", "live"}

\* An update fails with the old rows before anything was moved.
LEMMA DomFailOld ==
    ASSUME DomInvariant, domRun.pc \in {"collect", "build", "observe"}, NEW result,
           result = "callback" \/ (result = "checks" /\ ~DomClean),
           NEW corrupted \in BOOLEAN,
           DomFail(result, domTree, domOwned, domSlot.rows, FALSE, corrupted)
    PROVE  DomInvariant'
<1>1. DomTypes /\ domRoot \in DomEnds /\ domSlot.status = "Ready"
  BY DEF DomInvariant, DomPhases, DomEnds
<1>2. /\ domTree \in Seq(DomNodes(domKind, domGen)) /\ IsInjective(domTree)
      /\ DomIsRows(domKind, domGen, domSlot.rows)
      /\ domKind \in {"keyed", "dynamic"} /\ domGen \in Nat
  BY <1>1 DEF DomTypes
<1>3. /\ Range(domTree) \subseteq DomFrame \cup {DomForeign} \cup Range(domSlot.rows)
      /\ DomOrdered(domTree, domSlot.rows)
  BY DEF DomInvariant, DomResidue
<1>4. Range(domTree) \subseteq DomFrame \cup {DomForeign} \cup Range(domSlot.rows)
                                 \cup Range(domRun.plan)
  BY <1>3
<1>5. result = "callback" \/ domRun.disturbed
  BY <1>1 DEF DomInvariant, DomProgress, DomClean, DomTypes
<1>6. ASSUME domTouched = 0, domRoot = "live"
      PROVE  /\ DomWithout(domTree, Range(domRun.plan) \ Range(domSlot.rows))
                    = DomPage(domSlot.rows)
             /\ domOwned = DomPage(domSlot.rows)
  <2> DEFINE P == DomRowNodes(domKind, domGen)
             S == Range(domRun.plan) \ Range(domSlot.rows)
  <2>1. domTree = DomPage(domSlot.rows) /\ domOwned = DomPage(domSlot.rows)
    BY <1>1, <1>6 DEF DomInvariant, DomUntouched
  <2>2. DomPlain(domSlot.rows, P)
    BY <1>2, DomRowsPlain
  <2>3. Range(domTree) = DomFrame \cup Range(domSlot.rows)
    BY <2>1, <2>2, DomPageFacts
  <2>4. DomFrame \cap Range(domRun.plan) = {}
    <3>1. CASE domRun.pc \in {"collect", "build"}
      BY <3>1 DEF DomInvariant, DomPhases, Range
    <3>2. CASE domRun.pc = "observe"
      <4>1. DomIsRows(domKind, domGen, domRun.plan)
        BY <3>2 DEF DomInvariant, DomPhases
      <4>2. DomPlain(domRun.plan, P)
        BY <1>2, <4>1, DomRowsPlain
      <4> HIDE DEF P
      <4> QED BY <4>2 DEF DomPlain, Range
    <3> QED BY <3>1, <3>2
  <2>5. Range(domTree) \cap S = {}
    BY <2>3, <2>4
  <2> HIDE DEF S
  <2>6. DomWithout(domTree, S) = domTree
    BY <1>2, <2>5, DomWithoutNone
  <2> QED BY <2>1, <2>6 DEF S
<1>7. result # "committed"
  OBVIOUS
<1> QED BY <1>1, <1>2, <1>3, <1>4, <1>5, <1>6, <1>7, DomFailKeeps

\* The checks pass when nothing has happened.
LEMMA DomVerdictOk ==
    ASSUME DomInvariant, domRun.pc \in {"collect", "build"}, DomClean, NEW first \in BOOLEAN
    PROVE  DomVerdict(first) = "ok"
<1> DEFINE rows == domSlot.rows
           P == DomRowNodes(domKind, domGen)
<1>1. DomTypes /\ domSlot.status = "Ready"
  BY DEF DomInvariant, DomPhases
<1>2. domTree = DomPage(rows) /\ domOwned = DomPage(rows)
  BY <1>1 DEF DomInvariant, DomUntouched, DomClean
<1>3. DomPlain(rows, P)
  BY <1>1, DomRowsPlain DEF DomTypes
<1>4. Range(domTree) = DomFrame \cup Range(rows)
  BY <1>2, <1>3, DomPageFacts
<1>5. DomLayout(domTree, rows)
  BY <1>3, <1>2, DomPageLayout DEF DomPlain
<1>6. domMixed = {}
  BY <1>1 DEF DomTypes, DomClean
<1>7. domRoot # "retiring"
  BY DEF DomClean
<1>8. DomRootIntact(domTree, domOwned)
  BY <1>2 DEF DomRootIntact
<1>9. \A i \in DOMAIN rows : rows[i] \in Range(domTree)
  BY <1>4 DEF Range
<1> QED BY <1>5, <1>6, <1>7, <1>8, <1>9 DEF DomVerdict

-----------------------------------------------------------------------------
(* The steps before the document is touched.                               *)

LEMMA DomPageShown ==
    ASSUME NEW kind, NEW gen \in Nat, NEW rows, DomIsRows(kind, gen, rows)
    PROVE  /\ DomPage(rows) \in Seq(DomNodes(kind, gen)) /\ IsInjective(DomPage(rows))
           /\ Range(DomPage(rows)) = DomFrame \cup Range(rows)
           /\ DomOrdered(DomPage(rows), rows)
<1> DEFINE P == DomRowNodes(kind, gen)
           N == DomNodes(kind, gen)
           p == DomPage(rows)
<1>1. DomPlain(rows, P)
  BY DomRowsPlain
<1>2. P \cup DomFrame \subseteq N
  BY DEF DomNodes
<1> HIDE DEF P, N
<1>3. p \in Seq(P \cup DomFrame) /\ IsInjective(p) /\ Range(p) = DomFrame \cup Range(rows)
  BY <1>1, DomPageFacts
<1>4. \A x, y : DomPrecedes(rows, x, y) => DomPrecedes(p, x, y)
  BY <1>1, DomPageOrder
<1>5. DomOrdered(p, rows)
  BY <1>4 DEF DomOrdered
<1> HIDE DEF p
<1>6. p \in Seq(N)
  BY <1>2, <1>3
<1> QED BY <1>3, <1>5, <1>6 DEF p, N

LEMMA DomChildRows ==
    ASSUME NEW gen \in Nat, NEW g \in 1..(gen - 1)
    PROVE  DomIsRows("dynamic", gen, <<<<"view", g>>>>)
  BY DEF DomRowNodes, DomKeysOf, IsInjective, DomIsRows

LEMMA DomSeedRows ==
    ASSUME NEW s \in DomCollections
    PROVE  DomIsRows("keyed", 2, [i \in DOMAIN s |-> <<s[i], 1>>])
<1> DEFINE r == [i \in DOMAIN s |-> <<s[i], 1>>]
<1>1. PICK n \in 0..Cardinality(DomKeys) : s \in [1..n -> DomKeys] /\ IsInjective(s)
  BY DEF DomCollections
<1>2. n \in Nat
  <2>1. Cardinality(DomKeys) \in Nat
    BY DomKeysAssumption, FS_CardinalityType
  <2> QED BY <2>1
<1>3. \A i \in 1..n : r[i] \in DomRowNodes("keyed", 2) /\ r[i][1] = s[i]
  BY <1>1 DEF DomRowNodes
<1>4. r = [i \in 1..n |-> r[i]] /\ DOMAIN r = 1..n
  BY <1>1
<1> HIDE DEF r
<1>5. r \in Seq(DomRowNodes("keyed", 2))
  BY <1>2, <1>3, <1>4
<1>6. DomKeysOf(r) = s
  BY <1>4, <1>1, <1>3 DEF DomKeysOf
<1> QED BY <1>1, <1>5, <1>6 DEF DomIsRows, r

LEMMA DomStarts ==
    ASSUME DomInit
    PROVE  DomInvariant
<1>1. PICK rows \in DomSeeds(domKind, domAdopt) :
        domTree = DomPage(rows) /\ domSlot = [status |-> "Ready", rows |-> rows]
  BY DEF DomInit
<1>2. domKind \in {"keyed", "dynamic"} /\ domNested \in BOOLEAN /\ domAdopt \in BOOLEAN
      /\ domOwned = domTree /\ domRoot \in {"seed", "mounting"}
      /\ domGen = 2 /\ domTouched = 0 /\ domMixed = {}
  BY DEF DomInit
<1>3. DomIsRows(domKind, 2, rows)
  BY DomNoRows, DomChildRows, DomSeedRows, <1>2 DEF DomSeeds
<1>4. /\ domTree \in Seq(DomNodes(domKind, 2)) /\ IsInjective(domTree)
      /\ Range(domTree) = DomFrame \cup Range(rows) /\ DomOrdered(domTree, rows)
  BY <1>1, <1>3, DomPageShown
<1>5. /\ DOMAIN domRun = {"pc", "number", "want", "plan", "at", "hard", "old", "before",
                          "disturbed"}
      /\ domRun.pc = "idle" /\ domRun.hard = FALSE /\ domRun.disturbed = TRUE
  BY DEF DomInit, DomIdle
<1>6. DOMAIN domSlot = {"status", "rows"} /\ domSlot.status = "Ready" /\ domSlot.rows = rows
  BY <1>1
<1>7. DomTypes
  <2>1. domGen \in Nat /\ domGen >= 2 /\ domTouched \in Nat
    BY <1>2
  <2>2. domTree \in Seq(DomNodes(domKind, domGen)) /\ DomIsRows(domKind, domGen, domSlot.rows)
    BY <1>2, <1>3, <1>4, <1>6
  <2>3. domRoot \in {"seed", "mounting", "refused", "live", "retiring", "gone"}
    BY <1>2
  <2> QED BY <1>2, <1>4, <1>5, <1>6, <2>1, <2>2, <2>3 DEF DomTypes
<1>8. DomPhases
  BY <1>5 DEF DomPhases
<1>9. DomResidue
  BY <1>2, <1>4, <1>5, <1>6 DEF DomResidue
<1>10. DomUntouched
  BY <1>1, <1>2, <1>5, <1>6 DEF DomUntouched
<1>11. DomProgress
  BY <1>5 DEF DomProgress
<1> QED BY <1>7, <1>8, <1>9, <1>10, <1>11 DEF DomInvariant

LEMMA DomPreflightKeeps ==
    ASSUME DomInvariant, DomPreflight
    PROVE  DomInvariant'
<1>1. domRun.pc = "idle"
  BY DEF DomInvariant, DomPhases, DomPreflight
<1>2. DomTypes'
  BY DEF DomInvariant, DomTypes, DomPreflight
<1>3. DomPhases'
  BY <1>1 DEF DomPhases, DomPreflight
<1>4. DomResidue'
  BY DEF DomInvariant, DomResidue, DomPreflight
<1>5. DomUntouched'
  BY DEF DomInvariant, DomUntouched, DomPreflight
<1>6. DomProgress'
  BY <1>1 DEF DomProgress, DomPreflight
<1> QED BY <1>2, <1>3, <1>4, <1>5, <1>6 DEF DomInvariant

LEMMA DomBeginKeeps ==
    ASSUME DomInvariant, DomBegin
    PROVE  DomInvariant'
<1>1. /\ domKind' = domKind /\ domNested' = domNested /\ domAdopt' = domAdopt
      /\ domTree' = domTree /\ domOwned' = domOwned /\ domSlot' = domSlot
      /\ domRoot' = domRoot /\ domGen' = domGen /\ domTouched' = domTouched
      /\ domMixed' = domMixed
  BY DEF DomBegin
<1>2. /\ domRun.pc = "idle" /\ domRoot \in {"mounting", "live"} /\ domSlot.status = "Ready"
  BY DEF DomBegin
<1>3. domRun' = [pc |-> "collect", number |-> domRun.number + 1, want |-> <<>>,
                 plan |-> <<>>, at |-> 0, hard |-> FALSE, old |-> {},
                 before |-> domSlot.rows, disturbed |-> domTouched > 0]
  BY DEF DomBegin, DomIdle
<1>4. /\ DOMAIN domRun' = {"pc", "number", "want", "plan", "at", "hard", "old", "before",
                           "disturbed"}
      /\ domRun'.pc = "collect" /\ domRun'.hard = FALSE /\ domRun'.plan = <<>>
      /\ domRun'.before = domSlot.rows /\ domRun'.disturbed = (domTouched > 0)
  BY <1>3
<1>5. DomTypes'
  <2>1. (domTouched > 0) \in BOOLEAN
    OBVIOUS
  <2> QED BY <1>1, <1>4, <2>1 DEF DomInvariant, DomTypes
<1>6. DomPhases'
  BY <1>1, <1>2, <1>4 DEF DomPhases
<1>7. DomResidue'
  BY <1>1, <1>2, <1>4 DEF DomInvariant, DomResidue
<1>8. DomUntouched'
  BY <1>1, <1>2, <1>4 DEF DomInvariant, DomUntouched
<1>9. DomProgress'
  <2>1. ~(domTouched > 0) => domTouched = 0
    BY DEF DomInvariant, DomTypes
  <2> QED BY <1>1, <1>2, <1>4, <2>1 DEF DomProgress
<1> QED BY <1>5, <1>6, <1>7, <1>8, <1>9 DEF DomInvariant

LEMMA DomCallbackFailsKeeps ==
    ASSUME DomInvariant, DomCallbackFails
    PROVE  DomInvariant'
  BY DomFailOld DEF DomCallbackFails

LEMMA DomCheckFailsKeeps ==
    ASSUME DomInvariant, domRun.pc \in {"collect", "build"}, NEW first \in BOOLEAN,
           DomVerdict(first) # "ok",
           DomFail("checks", domTree, domOwned, domSlot.rows, FALSE,
                   DomVerdict(first) = "corrupted")
    PROVE  DomInvariant'
  BY DomVerdictOk, DomFailOld

LEMMA DomCollectKeysKeeps ==
    ASSUME DomInvariant, DomCollectKeys
    PROVE  DomInvariant'
<1>1. domRun.pc = "collect" /\ domKind = "keyed"
  BY DEF DomCollectKeys
<1>2. PICK want \in DomCollections :
         IF domRoot = "mounting" /\ domAdopt /\ want /= DomKeysOf(domSlot.rows)
         THEN DomFail("callback", domTree, domOwned, domSlot.rows, FALSE, FALSE)
         ELSE DomChecked(DomVerdict(FALSE),
                DomGoOn([domRun EXCEPT !.pc = "build", !.want = want]) /\ UNCHANGED domGen)
  BY DEF DomCollectKeys
<1>3. CASE domRoot = "mounting" /\ domAdopt /\ want /= DomKeysOf(domSlot.rows)
  BY <1>1, <1>2, <1>3, DomFailOld
<1>4. CASE ~(domRoot = "mounting" /\ domAdopt /\ want /= DomKeysOf(domSlot.rows))
           /\ DomVerdict(FALSE) # "ok"
  BY <1>1, <1>2, <1>4, DomCheckFailsKeeps DEF DomChecked
<1>5. CASE ~(domRoot = "mounting" /\ domAdopt /\ want /= DomKeysOf(domSlot.rows))
           /\ DomVerdict(FALSE) = "ok"
  <2>1. DomGoOn([domRun EXCEPT !.pc = "build", !.want = want]) /\ domGen' = domGen
    BY <1>2, <1>5 DEF DomChecked
  <2>2. /\ domKind' = domKind /\ domNested' = domNested /\ domAdopt' = domAdopt
        /\ domTree' = domTree /\ domOwned' = domOwned /\ domSlot' = domSlot
        /\ domRoot' = domRoot /\ domGen' = domGen /\ domTouched' = domTouched
        /\ domMixed' = domMixed
    BY <2>1 DEF DomGoOn
  <2>3. /\ DOMAIN domRun' = DOMAIN domRun /\ domRun'.pc = "build" /\ domRun'.want = want
        /\ domRun'.hard = domRun.hard /\ domRun'.plan = domRun.plan
        /\ domRun'.before = domRun.before /\ domRun'.disturbed = domRun.disturbed
    BY <2>1 DEF DomGoOn, DomInvariant, DomTypes
  <2>4. DomTypes'
    BY <2>2, <2>3 DEF DomInvariant, DomTypes
  <2>5. DomPhases'
    BY <1>1, <2>2, <2>3 DEF DomInvariant, DomPhases
  <2>6. DomResidue'
    BY <1>1, <2>2, <2>3 DEF DomInvariant, DomResidue
  <2>7. DomUntouched'
    BY <1>1, <2>2, <2>3 DEF DomInvariant, DomUntouched
  <2>8. DomProgress'
    BY <1>1, <2>2, <2>3 DEF DomInvariant, DomProgress
  <2> QED BY <2>4, <2>5, <2>6, <2>7, <2>8 DEF DomInvariant
<1> QED BY <1>3, <1>4, <1>5

LEMMA DomCallViewKeeps ==
    ASSUME DomInvariant, DomCallView
    PROVE  DomInvariant'
<1>1. domRun.pc = "collect" /\ domKind = "dynamic"
  BY DEF DomCallView
<1>2. CASE DomVerdict(FALSE) # "ok"
  BY <1>1, <1>2, DomCheckFailsKeeps DEF DomChecked, DomCallView
<1>3. CASE DomVerdict(FALSE) = "ok" /\ domRoot = "mounting" /\ domAdopt
  <2>1. DomReturn(domTree, domOwned, domSlot, "committed")
    BY <1>3 DEF DomCallView, DomChecked
  <2>2. DomTypes /\ domSlot.status = "Ready" /\ domRoot \in DomEnds
    BY <1>3, <1>1 DEF DomInvariant, DomPhases, DomEnds
  <2>3. DomLeft(domKind, domGen, domTree, domSlot)
    BY <1>1 DEF DomInvariant, DomTypes, DomResidue, DomLeft
  <2>4. domTouched = 0 => domTree = DomPage(domSlot.rows)
    BY <1>1, <1>3, <2>2 DEF DomInvariant, DomUntouched
  <2>5. domRoot # "live" /\ domKind # "keyed"
    BY <1>1, <1>3
  <2> QED BY <2>1, <2>2, <2>3, <2>4, <2>5, DomReturnKeeps
<1>4. CASE DomVerdict(FALSE) = "ok" /\ ~(domRoot = "mounting" /\ domAdopt)
  <2>1. DomGoOn([domRun EXCEPT !.pc = "build", !.want = <<"view">>]) /\ domGen' = domGen
    BY <1>4 DEF DomChecked, DomCallView
  <2>2. /\ domKind' = domKind /\ domNested' = domNested /\ domAdopt' = domAdopt
        /\ domTree' = domTree /\ domOwned' = domOwned /\ domSlot' = domSlot
        /\ domRoot' = domRoot /\ domGen' = domGen /\ domTouched' = domTouched
        /\ domMixed' = domMixed
    BY <2>1 DEF DomGoOn
  <2>3. /\ DOMAIN domRun' = DOMAIN domRun /\ domRun'.pc = "build"
        /\ domRun'.hard = domRun.hard /\ domRun'.plan = domRun.plan
        /\ domRun'.before = domRun.before /\ domRun'.disturbed = domRun.disturbed
    BY <2>1 DEF DomGoOn, DomInvariant, DomTypes
  <2>4. DomTypes'
    BY <2>2, <2>3 DEF DomInvariant, DomTypes
  <2>5. DomPhases'
    BY <1>1, <2>2, <2>3 DEF DomInvariant, DomPhases
  <2>6. DomResidue'
    BY <1>1, <2>2, <2>3 DEF DomInvariant, DomResidue
  <2>7. DomUntouched'
    BY <1>1, <2>2, <2>3 DEF DomInvariant, DomUntouched
  <2>8. DomProgress'
    BY <1>1, <2>2, <2>3 DEF DomInvariant, DomProgress
  <2> QED BY <2>4, <2>5, <2>6, <2>7, <2>8 DEF DomInvariant
<1> QED BY <1>2, <1>3, <1>4

LEMMA DomTreeGrows ==
    ASSUME NEW kind, NEW gen \in Nat, NEW tree \in Seq(DomNodes(kind, gen))
    PROVE  tree \in Seq(DomNodes(kind, gen + 1))
  BY DomNodesGrow

\* What the steps that build the new rows keep.
LEMMA DomStaged ==
    ASSUME DomInvariant, domRun.pc = "build", NEW plan,
           DomGoOn([domRun EXCEPT !.pc = "observe", !.plan = plan]), domGen' = domGen + 1,
           DomIsRows(domKind, domGen + 1, plan),
           domKind = "dynamic" => Len(plan) = 1 /\ plan[1] \notin Range(domSlot.rows),
           domKind = "keyed" => DomKeysOf(plan) = domRun.want /\ DomContinues(domSlot.rows, plan)
    PROVE  DomInvariant'
<1>1. /\ domKind' = domKind /\ domNested' = domNested /\ domAdopt' = domAdopt
      /\ domTree' = domTree /\ domOwned' = domOwned /\ domSlot' = domSlot
      /\ domRoot' = domRoot /\ domTouched' = domTouched /\ domMixed' = domMixed
      /\ domGen' = domGen + 1
  BY DEF DomGoOn
<1>2. /\ DOMAIN domRun' = DOMAIN domRun /\ domRun'.pc = "observe" /\ domRun'.want = domRun.want
      /\ domRun'.hard = domRun.hard /\ domRun'.plan = plan
      /\ domRun'.before = domRun.before /\ domRun'.disturbed = domRun.disturbed
  BY DEF DomGoOn, DomInvariant, DomTypes
<1>3. domGen \in Nat /\ domGen >= 2
  BY DEF DomInvariant, DomTypes
<1>4. DomTypes'
  BY <1>1, <1>3, DomTreeGrows, DomRowsStay, <1>2 DEF DomInvariant, DomTypes
<1>5. DomPhases'
  BY <1>1, <1>2 DEF DomInvariant, DomPhases
<1>6. DomResidue'
  BY <1>1, <1>2 DEF DomInvariant, DomResidue
<1>7. DomUntouched'
  BY <1>1, <1>2 DEF DomInvariant, DomUntouched
<1>8. DomProgress'
  BY <1>1, <1>2 DEF DomInvariant, DomProgress
<1> QED BY <1>4, <1>5, <1>6, <1>7, <1>8 DEF DomInvariant

LEMMA DomBuildRowsKeeps ==
    ASSUME DomInvariant, DomBuildRows
    PROVE  DomInvariant'
<1>1. domRun.pc = "build" /\ domKind = "keyed"
  BY DEF DomBuildRows
<1>2. CASE DomVerdict(TRUE) # "ok"
  BY <1>1, <1>2, DomCheckFailsKeeps DEF DomChecked, DomBuildRows
<1>3. CASE DomVerdict(TRUE) = "ok"
  <2> DEFINE plan == DomPlanOf(domRun.want, domSlot.rows, domGen)
  <2>1. plan = DomPlan
    BY DEF DomPlanOf, DomPlan
  <2>2. DomGoOn([domRun EXCEPT !.pc = "observe", !.plan = plan]) /\ domGen' = domGen + 1
    BY <1>3, <2>1 DEF DomBuildRows, DomChecked
  <2>3. domRun.want \in DomCollections /\ domGen \in Nat /\ domGen >= 1
        /\ DomIsRows("keyed", domGen, domSlot.rows)
    BY <1>1 DEF DomInvariant, DomPhases, DomTypes
  <2>4. DomIsRows("keyed", domGen + 1, plan) /\ DomKeysOf(plan) = domRun.want
        /\ DomContinues(domSlot.rows, plan)
    BY <2>3, DomPlanFacts
  <2> HIDE DEF plan
  <2> QED BY <1>1, <2>2, <2>4, DomStaged
<1> QED BY <1>2, <1>3

LEMMA DomStageChildKeeps ==
    ASSUME DomInvariant, DomStageChild
    PROVE  DomInvariant'
<1>1. domRun.pc = "build" /\ domKind = "dynamic"
  BY DEF DomStageChild
<1>2. CASE DomVerdict(FALSE) # "ok" /\ DomChildVerdict = DomVerdict(FALSE)
  BY <1>1, <1>2, DomCheckFailsKeeps DEF DomChecked, DomStageChild
<1>3. CASE ~({<<"slot", 0>>, <<"slot", 1>>} \subseteq Range(domTree))
  <2>1. ~DomClean
    <3>1. SUFFICES ASSUME DomClean PROVE FALSE
      OBVIOUS
    <3>2. DomTypes /\ domSlot.status = "Ready"
      BY <1>1 DEF DomInvariant, DomPhases
    <3>3. domTree = DomPage(domSlot.rows)
      BY <1>1, <3>1, <3>2 DEF DomInvariant, DomUntouched, DomClean
    <3>4. DomPlain(domSlot.rows, DomRowNodes(domKind, domGen))
      BY <3>2, DomRowsPlain DEF DomTypes
    <3>5. DomFrame \subseteq Range(domTree)
      BY <3>3, <3>4, DomPageFacts
    <3> QED BY <1>3, <3>5 DEF DomFrame
  <2>2. DomFail("checks", domTree, domOwned, domSlot.rows, FALSE, FALSE)
    BY <1>3 DEF DomChecked, DomStageChild, DomChildVerdict
  <2> QED BY <1>1, <2>1, <2>2, DomFailOld
<1>4. CASE DomVerdict(FALSE) = "ok" /\ DomChildVerdict = DomVerdict(FALSE)
  <2> DEFINE plan == <<<<"view", domGen>>>>
  <2>1. DomGoOn([domRun EXCEPT !.pc = "observe", !.plan = plan]) /\ domGen' = domGen + 1
    BY <1>4 DEF DomStageChild, DomChecked
  <2>2. domGen \in Nat /\ domGen >= 2 /\ DomIsRows("dynamic", domGen, domSlot.rows)
    BY <1>1 DEF DomInvariant, DomTypes
  <2>3. domGen \in 1..((domGen + 1) - 1) /\ domGen + 1 \in Nat
    BY ONLY <2>2
  <2>4. DomIsRows("dynamic", domGen + 1, plan)
    BY <2>3, DomChildRows
  <2>5. \A i \in DOMAIN domSlot.rows : domSlot.rows[i] # <<"view", domGen>>
    BY <2>2 DEF DomIsRows, DomRowNodes
  <2>6. Len(plan) = 1 /\ plan[1] = <<"view", domGen>>
    OBVIOUS
  <2>7. plan[1] \notin Range(domSlot.rows)
    BY <2>5, <2>6 DEF Range
  <2> HIDE DEF plan
  <2> QED BY <1>1, <2>1, <2>4, <2>6, <2>7, DomStaged
<1> QED BY <1>2, <1>3, <1>4 DEF DomChildVerdict

-----------------------------------------------------------------------------
(* The commit of a keyed list.                                             *)

LEMMA DomObservedKeeps ==
    ASSUME DomInvariant, DomObserved
    PROVE  DomInvariant'
<1>1. domRun.pc = "observe" /\ domKind = "keyed"
  BY DEF DomObserved
<1>2. CASE domRoot = "retiring"
  BY <1>2, <1>1, DomFailOld DEF DomClean, DomObserved
<1>3. CASE domRoot # "retiring"
  <2>1. DomGoOn([domRun EXCEPT !.pc = "move", !.at = Len(domRun.plan)]) /\ domGen' = domGen
    BY <1>3 DEF DomObserved
  <2>2. /\ domKind' = domKind /\ domNested' = domNested /\ domAdopt' = domAdopt
        /\ domTree' = domTree /\ domOwned' = domOwned /\ domSlot' = domSlot
        /\ domRoot' = domRoot /\ domGen' = domGen /\ domTouched' = domTouched
        /\ domMixed' = domMixed
    BY <2>1 DEF DomGoOn
  <2>3. /\ DOMAIN domRun' = DOMAIN domRun /\ domRun'.pc = "move" /\ domRun'.want = domRun.want
        /\ domRun'.hard = domRun.hard /\ domRun'.plan = domRun.plan
        /\ domRun'.at = Len(domRun.plan)
        /\ domRun'.before = domRun.before /\ domRun'.disturbed = domRun.disturbed
    BY <2>1 DEF DomGoOn, DomInvariant, DomTypes
  <2>4. DomIsRows(domKind, domGen, domRun.plan) /\ ~domRun.hard
    BY <1>1 DEF DomInvariant, DomPhases
  <2>5. DomTypes'
    BY <1>1, <2>2, <2>3 DEF DomInvariant, DomTypes
  <2>6. DomPhases'
    BY <2>4, <1>1, <2>2, <2>3 DEF DomIsRows, DomInvariant, DomPhases
  <2>7. DomResidue'
    BY <1>1, <2>2, <2>3, <2>4 DEF DomInvariant, DomResidue
  <2>8. DomUntouched'
    <3>1. domGen \in Nat /\ DomIsRows(domKind, domGen, domSlot.rows)
      BY DEF DomInvariant, DomTypes
    <3>2. DomPlaced(DomPage(domSlot.rows), domSlot.rows, domRun.plan, Len(domRun.plan))
      BY <2>4, <3>1, DomRowsPlain, DomPlacedStart
    <3> QED BY <1>1, <2>2, <2>3, <3>2 DEF DomInvariant, DomUntouched
  <2>9. DomProgress'
    BY <1>1, <2>2, <2>3 DEF DomInvariant, DomProgress
  <2> QED BY <2>5, <2>6, <2>7, <2>8, <2>9 DEF DomInvariant
<1> QED BY <1>2, <1>3

\* What is known while the rows are moved.
LEMMA DomMoving ==
    ASSUME DomInvariant, domRun.pc = "move"
    PROVE  /\ DomTypes /\ domRoot \in DomEnds /\ domKind = "keyed" /\ domSlot.status = "Ready"
           /\ domTree \in Seq(DomNodes(domKind, domGen)) /\ IsInjective(domTree)
           /\ DomIsRows(domKind, domGen, domSlot.rows) /\ domGen \in Nat
           /\ DomIsRows(domKind, domGen, domRun.plan)
           /\ DomPlain(domSlot.rows, DomRowNodes(domKind, domGen))
           /\ DomPlain(domRun.plan, DomRowNodes(domKind, domGen))
           /\ DomRowNodes(domKind, domGen) \subseteq DomNodes(domKind, domGen)
           /\ Len(domRun.plan) \in Nat /\ domRun.at \in 0..Len(domRun.plan)
           /\ domRun.hard \in BOOLEAN
           /\ Range(domTree) \subseteq
                DomFrame \cup {DomForeign} \cup Range(domSlot.rows) \cup Range(domRun.plan)
           /\ ~domRun.hard => DomOrdered(domTree, domSlot.rows)
           /\ DomClean => /\ DomPlaced(domTree, domSlot.rows, domRun.plan, domRun.at)
                          /\ domOwned = DomPage(domSlot.rows)
           /\ ~domRun.disturbed => DomClean
<1>1. /\ DomTypes /\ domKind = "keyed" /\ domGen \in Nat
      /\ DomIsRows(domKind, domGen, domSlot.rows)
      /\ domTree \in Seq(DomNodes(domKind, domGen)) /\ IsInjective(domTree)
      /\ domRun.hard \in BOOLEAN
  BY DEF DomInvariant, DomTypes
<1>2. /\ DomIsRows(domKind, domGen, domRun.plan) /\ domRun.at \in 0..Len(domRun.plan)
      /\ domRoot \in DomEnds /\ domSlot.status = "Ready"
  BY DEF DomInvariant, DomPhases, DomEnds
<1>3. /\ DomPlain(domSlot.rows, DomRowNodes(domKind, domGen))
      /\ DomPlain(domRun.plan, DomRowNodes(domKind, domGen))
  BY <1>1, <1>2, DomRowsPlain
<1>4. Len(domRun.plan) \in Nat
  BY <1>2 DEF DomIsRows
<1>5. DomRowNodes(domKind, domGen) \subseteq DomNodes(domKind, domGen)
  BY DEF DomNodes
<1>6. /\ Range(domTree) \subseteq
           DomFrame \cup {DomForeign} \cup Range(domSlot.rows) \cup Range(domRun.plan)
      /\ ~domRun.hard => DomOrdered(domTree, domSlot.rows)
  BY DEF DomInvariant, DomResidue
<1>7. DomClean => /\ DomPlaced(domTree, domSlot.rows, domRun.plan, domRun.at)
                  /\ domOwned = DomPage(domSlot.rows)
  BY <1>2 DEF DomInvariant, DomUntouched, DomClean
<1>8. ~domRun.disturbed => DomClean
  BY DEF DomInvariant, DomProgress, DomClean
<1> QED BY <1>1, <1>2, <1>3, <1>4, <1>5, <1>6, <1>7, <1>8

LEMMA DomMoveKeeps ==
    ASSUME DomInvariant, DomMove
    PROVE  DomInvariant'
<1> DEFINE rows == domSlot.rows
           plan == domRun.plan
           at == domRun.at
           P == DomRowNodes(domKind, domGen)
           Q == DomNodes(domKind, domGen)
           row == plan[at]
           anchor == IF at = Len(plan) THEN <<"slot", 1>> ELSE plan[at + 1]
<1>1. domRun.pc = "move" /\ at > 0
  BY DEF DomMove
<1>2. /\ DomTypes /\ domRoot \in DomEnds /\ domKind = "keyed" /\ domSlot.status = "Ready"
      /\ domTree \in Seq(Q) /\ IsInjective(domTree)
      /\ DomIsRows(domKind, domGen, rows) /\ DomIsRows(domKind, domGen, plan)
      /\ DomPlain(rows, P) /\ DomPlain(plan, P) /\ P \subseteq Q
      /\ Len(plan) \in Nat /\ at \in 0..Len(plan)
  BY <1>1, DomMoving
<1>3. /\ Range(domTree) \subseteq DomFrame \cup {DomForeign} \cup Range(rows) \cup Range(plan)
      /\ DomClean => DomPlaced(domTree, rows, plan, at) /\ domOwned = DomPage(rows)
      /\ ~domRun.disturbed => DomClean
  BY <1>1, DomMoving
<1>4. at \in 1..Len(plan) /\ at - 1 \in 0..Len(plan)
  <2> HIDE DEF at, plan
  <2> QED BY ONLY <1>1, <1>2
<1>5. plan \in Seq(P) /\ IsInjective(plan) /\ P \cap DomFrame = {}
  BY <1>2 DEF DomPlain
<1>6. CASE at \in DomKeep(plan, rows)
  <2>1. DomGoOn([domRun EXCEPT !.at = at - 1]) /\ domGen' = domGen
    BY <1>6 DEF DomMove
  <2>2. /\ domKind' = domKind /\ domNested' = domNested /\ domAdopt' = domAdopt
        /\ domTree' = domTree /\ domOwned' = domOwned /\ domSlot' = domSlot
        /\ domRoot' = domRoot /\ domGen' = domGen /\ domTouched' = domTouched
        /\ domMixed' = domMixed
    BY <2>1 DEF DomGoOn
  <2>3. /\ DOMAIN domRun' = DOMAIN domRun /\ domRun'.pc = "move" /\ domRun'.want = domRun.want
        /\ domRun'.hard = domRun.hard /\ domRun'.plan = plan
        /\ domRun'.at = at - 1
        /\ domRun'.before = domRun.before /\ domRun'.disturbed = domRun.disturbed
    BY <1>1, <2>1 DEF DomGoOn, DomInvariant, DomTypes
  <2>4. DomTypes'
    BY <1>1, <1>2, <2>2, <2>3 DEF DomTypes
  <2>5. DomPhases'
    BY <1>1, <1>2, <1>4, <2>2, <2>3 DEF DomPhases, DomEnds
  <2>6. DomResidue'
    BY <1>1, <2>2, <2>3 DEF DomInvariant, DomResidue
  <2>7. DomUntouched'
    <3>1. DomPlaced(domTree, rows, plan, at) => DomPlaced(domTree, rows, plan, at - 1)
      <4> HIDE DEF P, Q, rows, plan, at
      <4> QED BY ONLY <1>2, <1>4, <1>6, DomPlacedSkip
    <3> QED BY <1>1, <2>2, <2>3, <3>1 DEF DomInvariant, DomUntouched
  <2>8. DomProgress'
    BY <1>1, <2>2, <2>3 DEF DomInvariant, DomProgress
  <2> QED BY <2>4, <2>5, <2>6, <2>7, <2>8 DEF DomInvariant
<1>7. at \notin DomKeep(plan, rows) /\ DomPlaced(domTree, rows, plan, at) =>
        /\ anchor \in Range(domTree)
        /\ DomPlaced(DomInsert(domTree, row, anchor), rows, plan, at - 1)
  <2> HIDE DEF P, Q, rows, plan, at
  <2> QED BY ONLY <1>2, <1>4, DomPlacedMove
<1>8. CASE at \notin DomKeep(plan, rows) /\ anchor \notin Range(domTree)
  BY <1>8, <1>3, <1>7, <1>2, DomFailKeeps DEF DomMove, DomRetires
<1>9. CASE at \notin DomKeep(plan, rows) /\ anchor \in Range(domTree)
  <2>1. /\ domTree' = DomInsert(domTree, row, anchor)
        /\ domRun' = [domRun EXCEPT !.at = at - 1, !.hard = TRUE]
        /\ UNCHANGED <<domKind, domNested, domAdopt, domOwned, domSlot,
                       domRoot, domGen, domTouched, domMixed>>
    BY <1>9 DEF DomMove
  <2>2. /\ DOMAIN domRun' = DOMAIN domRun /\ domRun'.pc = "move" /\ domRun'.want = domRun.want
        /\ domRun'.hard = TRUE /\ domRun'.plan = plan /\ domRun'.at = at - 1
        /\ domRun'.before = domRun.before /\ domRun'.disturbed = domRun.disturbed
    BY <1>1, <2>1 DEF DomInvariant, DomTypes
  <2>3. row \in P /\ row \in Range(plan)
    BY <1>4, <1>5 DEF Range
  <2>4. anchor # row
    <3>1. CASE at = Len(plan)
      <4>1. anchor \in DomFrame
        BY <3>1 DEF DomFrame
      <4> QED BY <1>5, <2>3, <4>1
    <3>2. CASE at # Len(plan)
      BY <1>2, <1>4, <1>5, <3>2 DEF IsInjective
    <3> QED BY <3>1, <3>2
  <2>5. /\ domTree' \in Seq(Q) /\ IsInjective(domTree')
        /\ Range(domTree') = Range(domTree) \cup {row}
    BY <1>2, <1>9, <2>1, <2>3, <2>4, DomInsertFacts
  <2> HIDE DEF row, anchor
  <2>6. DomTypes'
    BY <1>1, <1>2, <2>1, <2>2, <2>5 DEF DomTypes
  <2>7. DomPhases'
    BY <1>1, <1>2, <1>4, <2>1, <2>2 DEF DomPhases, DomEnds
  <2>8. DomResidue'
    BY <1>3, <2>3, <2>5, <1>2, <2>1, <2>2 DEF DomEnds, DomResidue
  <2>9. DomUntouched'
    BY <1>7, <1>9, <2>1, <1>1, <2>2 DEF DomInvariant, DomUntouched
  <2>10. DomProgress'
    BY <1>1, <2>1, <2>2 DEF DomInvariant, DomProgress
  <2> QED BY <2>6, <2>7, <2>8, <2>9, <2>10 DEF DomInvariant
<1> QED BY <1>6, <1>8, <1>9

LEMMA DomSettleKeeps ==
    ASSUME DomInvariant, DomSettle
    PROVE  DomInvariant'
<1> DEFINE old == domSlot.rows
           rows == domRun.plan
           P == DomRowNodes(domKind, domGen)
           Q == DomNodes(domKind, domGen)
           retired == Range(old) \ Range(rows)
           tree == DomWithout(domTree, retired)
           hard == domRun.hard \/ retired /= {}
           owned == DomRegistered(rows)
<1>1. domRun.pc = "move" /\ domRun.at = 0
  BY DEF DomSettle
<1>2. /\ DomTypes /\ domRoot \in DomEnds /\ domKind = "keyed" /\ domSlot.status = "Ready"
      /\ domTree \in Seq(Q) /\ IsInjective(domTree)
      /\ DomIsRows(domKind, domGen, old) /\ DomIsRows(domKind, domGen, rows)
      /\ DomPlain(old, P) /\ DomPlain(rows, P) /\ domRun.hard \in BOOLEAN
  BY <1>1, DomMoving
<1>3. /\ Range(domTree) \subseteq DomFrame \cup {DomForeign} \cup Range(old) \cup Range(rows)
      /\ ~domRun.hard => DomOrdered(domTree, old)
      /\ DomClean => DomPlaced(domTree, old, rows, 0) /\ domOwned = DomPage(old)
      /\ ~domRun.disturbed => DomClean
  BY <1>1, DomMoving
<1>4. /\ tree \in Seq(Q) /\ IsInjective(tree) /\ Range(tree) = Range(domTree) \ retired
  <2> HIDE DEF retired, Q
  <2> QED BY ONLY <1>2, DomWithoutFacts
<1>5. hard \in BOOLEAN
  BY <1>2
<1>6. DomRetires(hard, FALSE) \/ DomOrdered(tree, old)
  <2>1. ~hard => DomOrdered(domTree, old)
    BY <1>3
  <2>2. DomOrdered(domTree, old) => DomOrdered(tree, old)
    <3> HIDE DEF retired, Q
    <3> QED BY ONLY <1>2, DomWithoutOrdered
  <2> QED BY <1>2, <2>1, <2>2 DEF DomRetires
<1>7. rows \in Seq(P)
  BY <1>2 DEF DomPlain
<1>8. ASSUME DomClean
      PROVE  /\ tree = DomPage(rows) /\ DomLayout(tree, rows) /\ DomRootIntact(tree, owned)
             /\ domRoot = "live" => owned = DomPage(rows)
             /\ DomTopology(DomPage(rows), rows) = DomPage(rows)
  <2>1. DomPlaced(domTree, old, rows, 0) /\ domOwned = DomPage(old)
    BY <1>3, <1>8
  <2>2. tree = DomPage(rows)
    <3> HIDE DEF P, Q, old, rows
    <3> QED BY ONLY <1>2, <2>1, DomPlacedEnd
  <2>3. DomLayout(DomPage(rows), rows)
    <3> HIDE DEF P, rows
    <3> QED BY ONLY <1>7, DomPageLayout
  <2>4. DomTopology(DomPage(old), rows) = DomPage(rows)
        /\ DomTopology(DomPage(rows), rows) = DomPage(rows)
    <3> HIDE DEF P, rows, old
    <3> QED BY ONLY <1>2, DomTopologyPage
  <2>5. domRoot # "mounting" => owned = DomPage(rows)
    BY <2>1, <2>4 DEF DomRegistered
  <2> HIDE DEF owned, tree
  <2> QED BY <2>2, <2>3, <2>4, <2>5 DEF DomRootIntact
<1>9. Range(tree) \subseteq DomFrame \cup {DomForeign} \cup Range(old) \cup Range(rows)
  BY <1>3, <1>4
<1>10. CASE domRoot = "retiring" \/ ~DomLayout(tree, rows)
  <2>1. DomFail("checks", tree, domOwned, old, hard, FALSE)
    BY <1>10 DEF DomSettle
  <2>2. ~DomClean
    BY <1>8, <1>10 DEF DomClean
  <2>3. domRun.disturbed /\ ~(domTouched = 0 /\ domRoot = "live")
    BY <1>3, <2>2 DEF DomClean
  <2> HIDE DEF tree, old, hard
  <2> QED BY <1>2, <1>4, <1>5, <1>6, <1>9, <2>1, <2>3, DomFailKeeps
<1>11. CASE ~(domRoot = "retiring" \/ ~DomLayout(tree, rows)) /\ ~DomRootIntact(tree, owned)
  <2>1. DomFail("checks", tree, owned, old, hard, FALSE)
    BY <1>11 DEF DomSettle
  <2>2. ~DomClean
    BY <1>8, <1>11 DEF DomClean
  <2>3. domRun.disturbed /\ ~(domTouched = 0 /\ domRoot = "live")
    BY <1>3, <2>2 DEF DomClean
  <2> HIDE DEF tree, old, hard, owned
  <2> QED BY <1>2, <1>4, <1>5, <1>6, <1>9, <2>1, <2>3, DomFailKeeps
<1>12. CASE domRoot # "retiring" /\ DomLayout(tree, rows) /\ DomRootIntact(tree, owned)
  <2>1. /\ domTree' = tree /\ domOwned' = owned
        /\ domSlot' = [domSlot EXCEPT !.rows = rows]
        /\ domRun' = [domRun EXCEPT !.pc = "retire", !.hard = hard, !.old = retired]
        /\ UNCHANGED <<domKind, domNested, domAdopt, domRoot, domGen,
                       domTouched, domMixed>>
    BY <1>12 DEF DomSettle
  <2> HIDE DEF tree, old, hard, owned, retired
  <2>2. /\ DOMAIN domRun' = DOMAIN domRun /\ domRun'.pc = "retire" /\ domRun'.want = domRun.want
        /\ domRun'.hard = hard /\ domRun'.plan = rows /\ domRun'.old = retired
        /\ domRun'.before = domRun.before /\ domRun'.disturbed = domRun.disturbed
    BY <2>1 DEF DomInvariant, DomTypes
  <2>3. DOMAIN domSlot' = {"status", "rows"} /\ domSlot'.status = "Ready"
        /\ domSlot'.rows = rows
    BY <1>2, <2>1 DEF DomTypes
  <2>4. DomTypes'
    BY <1>2, <1>4, <1>5, <2>1, <2>2, <2>3 DEF DomTypes
  <2>5. DomPhases'
    BY <1>2, <2>1, <2>2, <2>3 DEF DomPhases, DomEnds
  <2>6. DomResidue'
    <3>1. Range(tree) \subseteq DomFrame \cup {DomForeign} \cup Range(rows)
      BY <1>3, <1>4 DEF retired
    <3>2. DomOrdered(tree, rows)
      <4> HIDE DEF P, Q, rows
      <4> QED BY ONLY <1>4, <1>7, <1>12, DomLayoutOrdered
    <3>3. domRoot # "gone"
      BY <1>2 DEF DomEnds
    <3> QED BY <1>2, <2>1, <2>2, <2>3, <3>1, <3>2, <3>3 DEF DomResidue
  <2>7. DomUntouched'
    <3> SUFFICES ASSUME domTouched = 0, domRoot \in {"seed", "mounting", "live"}
                 PROVE  /\ DomWithout(tree, retired) = DomPage(rows)
                        /\ domRoot = "live" => /\ DomTopology(owned, rows) = DomPage(rows)
                                               /\ owned = DomPage(rows)
      BY <2>1, <2>2, <2>3 DEF DomUntouched
    <3>1. DomClean
      BY <1>2 DEF DomClean, DomEnds
    <3>2. Range(tree) \cap retired = {}
      BY <1>4
    <3>3. DomWithout(tree, retired) = tree
      <4> HIDE DEF Q
      <4> QED BY ONLY <1>4, <3>2, DomWithoutNone
    <3> QED BY <1>8, <3>1, <3>3
  <2>8. DomProgress'
    BY <1>1, <1>2, <2>1, <2>2, <2>3 DEF DomInvariant, DomProgress
  <2> QED BY <2>4, <2>5, <2>6, <2>7, <2>8 DEF DomInvariant
<1> QED BY <1>10, <1>11, <1>12

LEMMA DomRetireRowsKeeps ==
    ASSUME DomInvariant, DomRetireRows
    PROVE  DomInvariant'
<1> DEFINE rows == domSlot.rows
           Q == DomNodes(domKind, domGen)
           tree == DomWithout(domTree, domRun.old)
<1>1. domRun.pc = "retire" /\ domKind = "keyed"
  BY DEF DomRetireRows
<1>2. /\ DomTypes /\ domTree \in Seq(Q) /\ IsInjective(domTree) /\ domGen \in Nat
      /\ DomIsRows(domKind, domGen, rows) /\ domRun.hard \in BOOLEAN
      /\ DOMAIN domSlot = {"status", "rows"}
  BY DEF DomInvariant, DomTypes
<1>3. domRoot \in DomEnds /\ domSlot.status = "Ready" /\ domRun.plan = rows
  BY <1>1 DEF DomInvariant, DomPhases, DomEnds
<1>4. /\ Range(domTree) \subseteq DomFrame \cup {DomForeign} \cup Range(rows)
      /\ DomOrdered(domTree, rows)
  BY <1>1 DEF DomInvariant, DomResidue
<1>5. /\ tree \in Seq(Q) /\ IsInjective(tree) /\ Range(tree) = Range(domTree) \ domRun.old
  <2> HIDE DEF Q
  <2> QED BY ONLY <1>2, DomWithoutFacts
<1>6. DomOrdered(tree, rows)
  <2> HIDE DEF Q, rows
  <2> QED BY ONLY <1>2, <1>4, DomWithoutOrdered
<1>7. domTouched = 0 /\ domRoot \in {"mounting", "live"} =>
        tree = DomPage(rows) /\ (domRoot = "live" => domOwned = DomPage(rows))
  BY <1>1, <1>3 DEF DomInvariant, DomUntouched
<1>8. DomKeysOf(rows) = domRun.want /\ DomContinues(domRun.before, rows)
  BY <1>1, <1>3 DEF DomInvariant, DomProgress
<1>9. PICK terminal \in DomTerminals :
        IF terminal
        THEN DomFail("callback", tree, domOwned, rows, domRun.hard, FALSE)
        ELSE DomReturn(tree, domOwned, domSlot, "committed")
  BY DEF DomRetireRows
<1>10. Range(tree) \subseteq DomFrame \cup {DomForeign} \cup Range(rows)
  BY <1>4, <1>5
<1>11. CASE terminal
  <2>1. DomFail("callback", tree, domOwned, rows, domRun.hard, FALSE)
    BY <1>9, <1>11
  <2>2. Range(tree) \subseteq DomFrame \cup {DomForeign} \cup Range(rows) \cup Range(domRun.plan)
    BY <1>10
  <2>3. ASSUME domTouched = 0, domRoot = "live"
        PROVE  DomWithout(tree, Range(domRun.plan) \ Range(rows)) = DomPage(rows)
               /\ domOwned = DomPage(rows)
    BY <1>7, <2>3, <1>3, <1>5, DomWithoutNone
  <2> DEFINE h == domRun.hard
  <2>4. h \in BOOLEAN /\ DomFail("callback", tree, domOwned, rows, h, FALSE)
    BY <1>2, <2>1
  <2> HIDE DEF tree, rows, h
  <2> QED BY ONLY <1>2, <1>3, <1>5, <1>6, <2>2, <2>3, <2>4, DomFailKeeps
<1>12. CASE ~terminal
  <2>1. DomReturn(tree, domOwned, domSlot, "committed")
    BY <1>9, <1>12
  <2> HIDE DEF tree
  <2>2. DomLeft(domKind, domGen, tree, domSlot)
    BY <1>2, <1>3, <1>5, <1>6, <1>10 DEF DomLeft
  <2> QED BY <1>2, <1>3, <1>7, <1>8, <2>1, <2>2, DomReturnKeeps
<1> QED BY <1>11, <1>12

-----------------------------------------------------------------------------
(* The commit of a dynamic slot.                                           *)

LEMMA DomDynamicOrdered ==
    ASSUME NEW gen \in Nat, NEW rows, DomIsRows("dynamic", gen, rows), NEW tree
    PROVE  DomOrdered(tree, rows)
  BY DomOneChild, DomShortOrdered DEF DomIsRows

LEMMA DomAppended ==
    ASSUME NEW P, NEW rows, DomPlain(rows, P), NEW c \in P, c \notin Range(rows)
    PROVE  LET r == rows \o <<c>>
           IN  /\ DomPlain(r, P) /\ Range(r) = Range(rows) \cup {c}
               /\ \A x, y : DomPrecedes(r, x, y) =>
                              DomPrecedes(rows, x, y) \/ (x \in Range(rows) /\ y = c)
<1> DEFINE r == rows \o <<c>>
           n == Len(rows)
<1>1. rows \in Seq(P) /\ P \cap DomFrame = {} /\ IsInjective(rows)
  BY DEF DomPlain
<1>2. n \in Nat /\ DOMAIN rows = 1..n
  BY <1>1
<1>3. /\ r \in Seq(P) /\ Len(r) = n + 1 /\ r[n + 1] = c
      /\ \A i \in 1..n : r[i] = rows[i]
  BY <1>1
<1>4. DOMAIN r = 1..(n + 1)
  BY <1>2, <1>3
<1> HIDE DEF r, n
<1>5. \A i \in DOMAIN r : i = n + 1 \/ i \in 1..n
  BY ONLY <1>2, <1>4
<1>6. 1..n \subseteq DOMAIN r /\ n + 1 \in DOMAIN r
  BY ONLY <1>2, <1>4
<1>7. Range(r) = Range(rows) \cup {c}
  BY <1>2, <1>3, <1>5, <1>6 DEF Range
<1>8. \A i \in 1..n : rows[i] \in Range(rows)
  BY <1>2 DEF Range
<1>9. IsInjective(r)
  BY <1>1, <1>2, <1>3, <1>8, <1>5 DEF IsInjective
<1>10. ASSUME NEW x, NEW y, DomPrecedes(r, x, y)
       PROVE  DomPrecedes(rows, x, y) \/ (x \in Range(rows) /\ y = c)
  <2>1. PICK i \in DOMAIN r, j \in DOMAIN r : i < j /\ r[i] = x /\ r[j] = y
    BY <1>10 DEF DomPrecedes
  <2>2. i \in 1..n /\ (j = n + 1 \/ j \in 1..n)
    BY ONLY <1>2, <1>4, <2>1
  <2>3. x = rows[i] /\ x \in Range(rows)
    BY <1>3, <1>8, <2>1, <2>2
  <2>4. CASE j = n + 1
    BY <1>3, <2>1, <2>3, <2>4
  <2>5. CASE j \in 1..n
    <3>1. y = rows[j]
      BY <1>3, <2>1, <2>5
    <3> QED BY <1>2, <2>1, <2>2, <2>3, <2>5, <3>1 DEF DomPrecedes
  <2> QED BY <2>2, <2>4, <2>5
<1>11. DomPlain(r, P)
  BY <1>1, <1>3, <1>9 DEF DomPlain
<1> QED BY <1>7, <1>10, <1>11 DEF r

\* The new child stands behind the current one.
LEMMA DomInsertLast ==
    ASSUME NEW P, NEW rows, DomPlain(rows, P), NEW c \in P, c \notin Range(rows)
    PROVE  DomInsert(DomPage(rows), c, <<"slot", 1>>) = DomPage(rows \o <<c>>)
<1> DEFINE r == rows \o <<c>>
           p == DomPage(rows)
           N == P \cup DomFrame
           ra == <<"root", 0>>
           sa == <<"slot", 0>>
           sb == <<"slot", 1>>
           rb == <<"root", 1>>
           t == DomInsert(p, c, sb)
<1>1. /\ DomPlain(r, P) /\ Range(r) = Range(rows) \cup {c}
      /\ \A x, y : DomPrecedes(r, x, y) =>
                     DomPrecedes(rows, x, y) \/ (x \in Range(rows) /\ y = c)
  BY DomAppended
<1>2. p \in Seq(N) /\ IsInjective(p) /\ Range(p) = DomFrame \cup Range(rows)
  BY DomPageFacts
<1>3. DomPrecedes(p, ra, sa) /\ DomPrecedes(p, sa, sb) /\ DomPrecedes(p, sb, rb)
      /\ (\A x \in Range(rows) : DomPrecedes(p, sa, x) /\ DomPrecedes(p, x, sb))
      /\ \A x, y : DomPrecedes(rows, x, y) => DomPrecedes(p, x, y)
  BY DomPageOrder
<1>4. sb \in DomFrame /\ c \notin DomFrame
  BY DEF DomFrame, DomPlain
<1>5. c # ra /\ c # sa /\ c # sb /\ c # rb
  BY <1>4 DEF DomFrame
<1>6. c \in N /\ sb \in Range(p)
  BY <1>2, <1>4
<1> HIDE DEF r, p, N, ra, sa, sb, rb
<1>7. t \in Seq(N) /\ IsInjective(t) /\ Range(t) = Range(p) \cup {c}
  BY ONLY <1>2, <1>5, <1>6, DomInsertFacts
<1>8. \A x, y : x # c /\ y # c => (DomPrecedes(t, x, y) <=> DomPrecedes(p, x, y))
  BY ONLY <1>2, <1>5, <1>6, DomInsertFacts
<1>9. \A y : y # c /\ (y = sb \/ DomPrecedes(p, sb, y)) => DomPrecedes(t, c, y)
  BY ONLY <1>2, <1>5, <1>6, DomInsertFacts
<1>10. \A x : x # c /\ DomPrecedes(p, x, sb) => DomPrecedes(t, x, c)
  BY ONLY <1>2, <1>5, <1>6, DomInsertFacts
<1> HIDE DEF t
<1>11. DomPrecedes(t, ra, sa) /\ DomPrecedes(t, sa, sb) /\ DomPrecedes(t, sb, rb)
  BY <1>3, <1>5, <1>8
<1>12. ASSUME NEW x \in Range(r) PROVE DomPrecedes(t, sa, x) /\ DomPrecedes(t, x, sb)
  BY <1>3, <1>5, <1>9, <1>10, <1>1, <1>8
<1>13. ASSUME NEW x, NEW y, DomPrecedes(r, x, y) PROVE DomPrecedes(t, x, y)
  <2>1. CASE DomPrecedes(rows, x, y)
    BY <2>1, DomPrecedesIn, <1>3, <1>8
  <2>2. CASE x \in Range(rows) /\ y = c
    <3>1. x # c
      BY <2>2
    <3> QED BY <1>3, <1>10, <2>2, <3>1
  <2> QED BY <1>1, <1>13, <2>1, <2>2
<1>14. Range(t) = DomFrame \cup Range(r)
  BY <1>1, <1>2, <1>7
<1>15. t = DomPage(r)
  BY <1>11, <1>12, <1>1, <1>7, <1>13, <1>14, DomPageIs DEF ra, sa, sb, rb
<1> QED BY <1>15 DEF t, p, sb, r

\* The old child goes: the new one is left.
LEMMA DomDropOld ==
    ASSUME NEW P, NEW rows, DomPlain(rows, P), NEW c \in P, c \notin Range(rows)
    PROVE  DomWithout(DomPage(rows \o <<c>>), Range(rows)) = DomPage(<<c>>)
<1> DEFINE r == rows \o <<c>>
           p == DomPage(r)
           N == P \cup DomFrame
           S == Range(rows)
           one == <<c>>
           ra == <<"root", 0>>
           sa == <<"slot", 0>>
           sb == <<"slot", 1>>
           rb == <<"root", 1>>
           t == DomWithout(p, S)
<1>1. DomPlain(r, P) /\ Range(r) = S \cup {c}
  BY DomAppended
<1>2. p \in Seq(N) /\ IsInjective(p) /\ Range(p) = DomFrame \cup Range(r)
  BY <1>1, DomPageFacts
<1>3. DomPrecedes(p, ra, sa) /\ DomPrecedes(p, sa, sb) /\ DomPrecedes(p, sb, rb)
      /\ (\A x \in Range(r) : DomPrecedes(p, sa, x) /\ DomPrecedes(p, x, sb))
  BY <1>1, DomPageOrder
<1>4. DomFrame \cap S = {} /\ ra \in DomFrame /\ sa \in DomFrame /\ sb \in DomFrame
      /\ rb \in DomFrame
  BY DEF DomFrame, DomPlain, Range
<1>5. DomPlain(one, P) /\ Range(one) = {c} /\ \A x, y : ~DomPrecedes(one, x, y)
  BY DEF DomPlain, Range, IsInjective, DomPrecedes
<1> HIDE DEF r, p, N, S, one, ra, sa, sb, rb
<1>6. t \in Seq(N) /\ IsInjective(t) /\ Range(t) = Range(p) \ S
  BY ONLY <1>2, DomWithoutFacts
<1>7. \A x, y : DomPrecedes(t, x, y) <=> DomPrecedes(p, x, y) /\ x \notin S /\ y \notin S
  BY ONLY <1>2, DomWithoutFacts
<1>8. c \notin S
  BY DEF S
<1> HIDE DEF t
<1>9. Range(t) = DomFrame \cup Range(one)
  BY <1>1, <1>2, <1>4, <1>5, <1>6, <1>8
<1>10. DomPrecedes(t, ra, sa) /\ DomPrecedes(t, sa, sb) /\ DomPrecedes(t, sb, rb)
  BY <1>3, <1>4, <1>7
<1>11. \A x \in Range(one) : DomPrecedes(t, sa, x) /\ DomPrecedes(t, x, sb)
  BY <1>1, <1>3, <1>4, <1>5, <1>7, <1>8
<1>12. t = DomPage(one)
  BY <1>10, <1>11, <1>5, <1>6, <1>9, DomPageIs DEF ra, sa, sb, rb
<1> QED BY <1>12 DEF t, p, r, S, one

\* What is known of a dynamic slot whose new child is built.
LEMMA DomReplacing ==
    ASSUME DomInvariant, domRun.pc \in {"observe", "replace"}, domKind = "dynamic"
    PROVE  /\ DomTypes /\ domRoot \in DomEnds /\ domSlot.status = "Ready"
           /\ domTree \in Seq(DomNodes(domKind, domGen)) /\ IsInjective(domTree)
           /\ domGen \in Nat /\ DomIsRows(domKind, domGen, domSlot.rows)
           /\ DomIsRows(domKind, domGen, domRun.plan)
           /\ DomPlain(domSlot.rows, DomRowNodes(domKind, domGen))
           /\ domRun.plan[1] \in DomRowNodes(domKind, domGen)
           /\ domRun.plan[1] \notin Range(domSlot.rows)
           /\ domRun.plan = <<domRun.plan[1]>> /\ Range(domRun.plan) = {domRun.plan[1]}
           /\ \A tree : DomOrdered(tree, domSlot.rows) /\ DomOrdered(tree, domRun.plan)
           /\ DomClean => domOwned = DomPage(domSlot.rows)
           /\ ~domRun.disturbed => DomClean
<1> DEFINE rows == domSlot.rows
           plan == domRun.plan
           P == DomRowNodes(domKind, domGen)
<1>1. /\ DomTypes /\ domGen \in Nat /\ DomIsRows(domKind, domGen, rows)
      /\ domTree \in Seq(DomNodes(domKind, domGen)) /\ IsInjective(domTree)
  BY DEF DomInvariant, DomTypes
<1>2. /\ domRoot \in DomEnds /\ domSlot.status = "Ready" /\ DomIsRows(domKind, domGen, plan)
      /\ Len(plan) = 1 /\ plan[1] \notin Range(rows)
  BY DEF DomInvariant, DomPhases, DomEnds
<1>3. plan \in Seq(P)
  BY <1>2 DEF DomIsRows
<1>4. plan[1] \in P /\ plan = <<plan[1]>> /\ Range(plan) = {plan[1]}
  BY <1>2, <1>3 DEF Range
<1>5. DomPlain(rows, P)
  BY <1>1, DomRowsPlain
<1>6. \A tree : DomOrdered(tree, rows) /\ DomOrdered(tree, plan)
  BY <1>1, <1>2, DomDynamicOrdered
<1>7. DomClean => domOwned = DomPage(rows)
  BY <1>2 DEF DomInvariant, DomUntouched, DomClean
<1>8. ~domRun.disturbed => DomClean
  BY DEF DomInvariant, DomProgress, DomClean
<1> QED BY <1>1, <1>2, <1>4, <1>5, <1>6, <1>7, <1>8

LEMMA DomInsertChildKeeps ==
    ASSUME DomInvariant, DomInsertChild
    PROVE  DomInvariant'
<1> DEFINE rows == domSlot.rows
           plan == domRun.plan
           c == plan[1]
           P == DomRowNodes(domKind, domGen)
           Q == DomNodes(domKind, domGen)
           sb == <<"slot", 1>>
<1>1. domRun.pc = "observe" /\ domKind = "dynamic"
  BY DEF DomInsertChild
<1>2. /\ DomTypes /\ domRoot \in DomEnds /\ domSlot.status = "Ready"
      /\ domTree \in Seq(Q) /\ IsInjective(domTree)
      /\ domGen \in Nat /\ DomIsRows(domKind, domGen, rows) /\ DomIsRows(domKind, domGen, plan)
      /\ DomPlain(rows, P) /\ c \in P /\ c \notin Range(rows)
      /\ plan = <<c>> /\ Range(plan) = {c}
      /\ \A tree : DomOrdered(tree, rows)
  BY <1>1, DomReplacing
<1>3. /\ Range(domTree) \subseteq DomFrame \cup {DomForeign} \cup Range(rows)
      /\ DomClean => domTree = DomPage(rows)
      /\ Len(plan) = 1
  BY <1>1, <1>2 DEF DomInvariant, DomResidue, DomUntouched, DomClean, DomPhases
<1>4. sb \in DomFrame /\ c # sb /\ c \in Q
  BY <1>2 DEF DomFrame, DomPlain, DomNodes
<1>5. CASE domRoot = "retiring" \/ sb \notin Range(domTree)
  <2>1. DomFail("checks", domTree, domOwned, rows, FALSE, FALSE)
    BY <1>5 DEF DomInsertChild
  <2>2. ~DomClean
    BY <1>2, DomPageFacts, <1>3, <1>4, <1>5 DEF DomClean
  <2> QED BY <1>1, <2>1, <2>2, DomFailOld
<1>6. CASE domRoot # "retiring" /\ sb \in Range(domTree)
  <2>1. /\ domTree' = DomInsert(domTree, c, sb)
        /\ domRun' = [domRun EXCEPT !.pc = "replace"]
        /\ UNCHANGED <<domKind, domNested, domAdopt, domOwned, domSlot, domRoot,
                       domGen, domTouched, domMixed>>
    BY <1>6 DEF DomInsertChild
  <2>2. /\ DOMAIN domRun' = DOMAIN domRun /\ domRun'.pc = "replace"
        /\ domRun'.hard = domRun.hard /\ domRun'.plan = plan
        /\ domRun'.before = domRun.before /\ domRun'.disturbed = domRun.disturbed
    BY <2>1 DEF DomInvariant, DomTypes
  <2>3. /\ domTree' \in Seq(Q) /\ IsInjective(domTree')
        /\ Range(domTree') = Range(domTree) \cup {c}
    <3> HIDE DEF c, sb, Q
    <3> QED BY ONLY <1>2, <1>4, <1>6, <2>1, DomInsertFacts
  <2>4. DomClean => domTree' = DomPage(rows \o plan)
    <3>1. DomInsert(DomPage(rows), c, sb) = DomPage(rows \o <<c>>)
      <4> HIDE DEF c, rows, P
      <4> QED BY ONLY <1>2, DomInsertLast DEF sb
    <3> QED BY <1>2, <1>3, <2>1, <3>1
  <2> HIDE DEF c, sb
  <2>5. DomTypes'
    BY <1>1, <1>2, <2>1, <2>2, <2>3 DEF DomTypes
  <2>6. DomPhases'
    BY <1>1, <1>2, <1>3, <2>1, <2>2 DEF DomPhases, DomEnds, c
  <2>7. DomResidue'
    BY <1>2, <1>3, <2>3, <1>1, <2>1, <2>2 DEF DomEnds, DomResidue
  <2>8. DomUntouched'
    BY <2>1, <2>2, <1>2, <1>1, <2>4, DomReplacing DEF DomUntouched, DomClean, DomEnds
  <2>9. DomProgress'
    BY <1>1, <2>1, <2>2 DEF DomInvariant, DomProgress
  <2> QED BY <2>5, <2>6, <2>7, <2>8, <2>9 DEF DomInvariant
<1> QED BY <1>5, <1>6

LEMMA DomReplaceKeeps ==
    ASSUME DomInvariant, DomReplace
    PROVE  DomInvariant'
<1> DEFINE rows == domSlot.rows
           plan == domRun.plan
           c == plan[1]
           both == rows \o <<c>>
           P == DomRowNodes(domKind, domGen)
           Q == DomNodes(domKind, domGen)
           before == DomRegistered(both)
           bad == \/ domRoot = "retiring" \/ c \in domMixed
                  \/ ~DomLayout(domTree, both) \/ ~DomRootIntact(domTree, before)
<1>1. domRun.pc = "replace" /\ domKind = "dynamic"
  BY DEF DomReplace, DomInvariant, DomTypes
<1>2. /\ DomTypes /\ domRoot \in DomEnds /\ domSlot.status = "Ready"
      /\ domTree \in Seq(Q) /\ IsInjective(domTree)
      /\ domGen \in Nat /\ DomIsRows(domKind, domGen, rows) /\ DomIsRows(domKind, domGen, plan)
      /\ DomPlain(rows, P) /\ c \in P /\ c \notin Range(rows)
      /\ plan = <<c>> /\ Range(plan) = {c}
      /\ \A tree : DomOrdered(tree, rows) /\ DomOrdered(tree, plan)
      /\ DomClean => domOwned = DomPage(rows)
      /\ ~domRun.disturbed => DomClean
  BY <1>1, DomReplacing
<1>3. /\ Range(domTree) \subseteq DomFrame \cup {DomForeign} \cup Range(rows) \cup Range(plan)
      /\ DomClean => domTree = DomPage(both)
      /\ Len(plan) = 1
  BY <1>1, <1>2 DEF DomInvariant, DomResidue, DomUntouched, DomClean, DomPhases
<1>4. CASE bad
  <2>1. DomFail("checks", domTree, domOwned, rows, FALSE, FALSE)
    BY <1>4 DEF DomReplace
  <2>2. ~DomClean
    <3> SUFFICES ASSUME DomClean PROVE ~bad
      BY <1>4
    <3>1. domRoot # "retiring" /\ domMixed = {}
      BY <1>2 DEF DomClean, DomTypes
    <3>2. domTree = DomPage(both) /\ domOwned = DomPage(rows)
      BY <1>2, <1>3
    <3>3. DomPlain(both, P)
      <4> HIDE DEF c, rows, P
      <4> QED BY ONLY <1>2, DomAppended
    <3>4. both \in Seq(P)
      BY <3>3 DEF DomPlain
    <3> HIDE DEF both, rows, P, c
    <3>5. DomLayout(domTree, both)
      BY ONLY <3>2, <3>4, DomPageLayout
    <3>6. DomTopology(DomPage(rows), both) = DomPage(both)
      BY ONLY <1>2, <3>3, DomTopologyPage
    <3>7. DomRootIntact(domTree, before)
      BY <3>2, <3>6 DEF DomRootIntact, DomRegistered
    <3> QED BY <3>1, <3>5, <3>7
  <2>3. domRun.disturbed /\ ~(domTouched = 0 /\ domRoot = "live")
    BY <1>2, <2>2 DEF DomClean
  <2>4. DomOrdered(domTree, rows)
    BY <1>2
  <2> HIDE DEF rows
  <2> QED BY <1>2, <1>3, <2>1, <2>3, <2>4, DomFailKeeps
<1>5. CASE ~bad
  <2>1. /\ domSlot' = [domSlot EXCEPT !.rows = plan]
        /\ domRun' = [domRun EXCEPT !.pc = "retire", !.hard = TRUE, !.old = Range(rows)]
        /\ UNCHANGED <<domKind, domNested, domAdopt, domTree, domOwned,
                       domRoot, domGen, domTouched, domMixed>>
    BY <1>2, <1>5 DEF DomReplace
  <2>2. /\ DOMAIN domRun' = DOMAIN domRun /\ domRun'.pc = "retire"
        /\ domRun'.hard = TRUE /\ domRun'.plan = plan /\ domRun'.old = Range(rows)
        /\ domRun'.before = domRun.before /\ domRun'.disturbed = domRun.disturbed
    BY <2>1 DEF DomInvariant, DomTypes
  <2>3. DOMAIN domSlot' = {"status", "rows"} /\ domSlot'.status = "Ready"
        /\ domSlot'.rows = plan
    BY <1>2, <2>1 DEF DomTypes
  <2>4. DomTypes'
    BY <1>1, <1>2, <2>1, <2>2, <2>3 DEF DomTypes
  <2>5. DomPhases'
    BY <1>1, <1>2, <1>3, <2>1, <2>2, <2>3 DEF DomPhases, DomEnds
  <2>6. DomResidue'
    BY <1>2, <1>3, <1>1, <2>1, <2>2, <2>3 DEF DomEnds, DomResidue
  <2>7. DomUntouched'
    <3> SUFFICES ASSUME domTouched = 0, domRoot \in {"seed", "mounting", "live"}
                 PROVE  /\ DomWithout(domTree, Range(rows)) = DomPage(plan)
                        /\ DomTopology(domOwned, plan) = DomPage(plan)
      BY <1>1, <2>1, <2>2, <2>3 DEF DomUntouched
    <3>1. DomClean
      BY <1>2 DEF DomClean, DomEnds
    <3>2. domTree = DomPage(both) /\ domOwned = DomPage(rows)
      BY <1>2, <1>3, <3>1
    <3>3. DomWithout(DomPage(both), Range(rows)) = DomPage(<<c>>)
      <4> HIDE DEF c, rows, P
      <4> QED BY ONLY <1>2, DomDropOld DEF both
    <3>4. DomPlain(plan, P)
      BY <1>2, DomRowsPlain
    <3>5. DomTopology(DomPage(rows), plan) = DomPage(plan)
      <4> HIDE DEF plan, rows, P
      <4> QED BY ONLY <1>2, <3>4, DomTopologyPage
    <3> QED BY <1>2, <3>2, <3>3, <3>5
  <2>8. DomProgress'
    BY <1>1, <2>1, <2>2, <2>3 DEF DomInvariant, DomProgress
  <2> QED BY <2>4, <2>5, <2>6, <2>7, <2>8 DEF DomInvariant
<1> QED BY <1>4, <1>5

LEMMA DomRetireChildKeeps ==
    ASSUME DomInvariant, DomRetireChild
    PROVE  DomInvariant'
<1> DEFINE rows == domSlot.rows
           Q == DomNodes(domKind, domGen)
           P == DomRowNodes(domKind, domGen)
           tree == DomWithout(domTree, domRun.old)
           owned == DomRegistered(rows)
           whole == Range(rows) \cap domMixed = {} /\ DomLayout(tree, rows)
<1>1. domRun.pc = "retire" /\ domKind = "dynamic"
  BY DEF DomRetireChild
<1>2. /\ DomTypes /\ domTree \in Seq(Q) /\ IsInjective(domTree) /\ domGen \in Nat
      /\ DomIsRows(domKind, domGen, rows) /\ DOMAIN domSlot = {"status", "rows"}
  BY DEF DomInvariant, DomTypes
<1>3. domRoot \in DomEnds /\ domSlot.status = "Ready" /\ domRun.plan = rows
  BY <1>1 DEF DomInvariant, DomPhases, DomEnds
<1>4. Range(domTree) \subseteq DomFrame \cup {DomForeign} \cup Range(rows) \cup domRun.old
  BY <1>1 DEF DomInvariant, DomResidue
<1>5. /\ tree \in Seq(Q) /\ IsInjective(tree) /\ Range(tree) = Range(domTree) \ domRun.old
  <2> HIDE DEF Q
  <2> QED BY ONLY <1>2, DomWithoutFacts
<1>6. DomOrdered(tree, rows)
  BY <1>1, <1>2, DomDynamicOrdered
<1>7. Range(tree) \subseteq DomFrame \cup {DomForeign} \cup Range(rows)
  BY <1>4, <1>5
<1>8. ASSUME DomClean
      PROVE  /\ tree = DomPage(rows) /\ whole /\ DomRootIntact(tree, owned)
             /\ domRoot = "live" => owned = DomPage(rows)
  <2>1. /\ tree = DomPage(rows)
        /\ domRoot = "live" => DomTopology(domOwned, rows) = DomPage(rows)
    BY <1>1, <1>3, <1>8 DEF DomInvariant, DomUntouched, DomClean
  <2>2. domMixed = {}
    BY <1>2, <1>8 DEF DomTypes, DomClean
  <2>3. rows \in Seq(P)
    BY <1>2 DEF DomIsRows
  <2>4. DomLayout(DomPage(rows), rows)
    <3> HIDE DEF P, rows
    <3> QED BY ONLY <2>3, DomPageLayout
  <2>5. domRoot = "live" => owned = DomPage(rows)
    BY <2>1 DEF DomRegistered
  <2>6. domRoot \in {"mounting", "live"}
    BY <1>8 DEF DomClean
  <2> HIDE DEF tree, owned, rows
  <2> QED BY <2>1, <2>2, <2>4, <2>5, <2>6 DEF DomRootIntact
<1>9. ~domRun.disturbed => DomClean
  BY <1>1 DEF DomInvariant, DomProgress, DomClean
<1>10. PICK terminal \in DomTerminals :
         IF ~whole THEN DomFail("checks", tree, owned, rows, TRUE, TRUE)
         ELSE IF terminal THEN DomFail("callback", tree, owned, rows, TRUE, FALSE)
         ELSE IF domRoot = "retiring"
         THEN DomFail("checks", tree, domOwned, rows, TRUE, FALSE)
         ELSE IF ~DomRootIntact(tree, owned)
         THEN DomFail("checks", tree, owned, rows, TRUE, TRUE)
         ELSE DomReturn(tree, owned, domSlot, "committed")
  BY DEF DomRetireChild
<1>11. ASSUME NEW result, NEW o, NEW corrupted \in BOOLEAN,
              result = "callback" \/ (result = "checks" /\ ~DomClean),
              DomFail(result, tree, o, rows, TRUE, corrupted)
       PROVE  DomInvariant'
  <2>1. result = "callback" \/ domRun.disturbed
    BY <1>9, <1>11
  <2>2. Range(tree) \subseteq DomFrame \cup {DomForeign} \cup Range(rows) \cup Range(domRun.plan)
    BY <1>7
  <2>3. result # "committed"
    BY <1>11
  <2> HIDE DEF tree, rows
  <2> QED BY ZenonT(60), <1>1, <1>2, <1>3, <1>5, <1>6, <1>11, <2>1, <2>2, <2>3, DomFailKeeps
<1>12. CASE ~whole
  BY <1>8, <1>10, <1>11, <1>12
<1>13. CASE whole /\ terminal
  BY <1>10, <1>11, <1>13
<1>14. CASE whole /\ ~terminal /\ domRoot = "retiring"
  <2>1. ~DomClean
    BY <1>14 DEF DomClean
  <2> QED BY <1>10, <1>11, <1>14, <2>1
<1>15. CASE whole /\ ~terminal /\ domRoot # "retiring" /\ ~DomRootIntact(tree, owned)
  BY <1>8, <1>10, <1>11, <1>15
<1>16. CASE whole /\ ~terminal /\ domRoot # "retiring" /\ DomRootIntact(tree, owned)
  <2>1. DomReturn(tree, owned, domSlot, "committed")
    BY <1>10, <1>16
  <2>2. domTouched = 0 /\ domRoot \in {"mounting", "live"} =>
          tree = DomPage(rows) /\ (domRoot = "live" => owned = DomPage(rows))
    BY <1>8 DEF DomClean
  <2> HIDE DEF tree, owned
  <2>3. DomLeft(domKind, domGen, tree, domSlot)
    BY <1>2, <1>3, <1>5, <1>6, <1>7 DEF DomLeft
  <2> QED BY <1>1, <1>2, <1>3, <2>1, <2>2, <2>3, DomReturnKeeps
<1> QED BY <1>12, <1>13, <1>14, <1>15, <1>16

-----------------------------------------------------------------------------
(* The application and the page.                                           *)

LEMMA DomDisposeKeeps ==
    ASSUME DomInvariant, DomDispose
    PROVE  DomInvariant'
<1>1. /\ domKind' = domKind /\ domNested' = domNested /\ domAdopt' = domAdopt
      /\ domGen' = domGen /\ domTouched' = domTouched /\ domMixed' = domMixed
      /\ domRoot = "live"
  BY DEF DomDispose
<1>2. CASE domRun.pc = "idle"
  <2>1. /\ domRoot' = "gone" /\ domTree' = DomDisposed(domTree) /\ domRun' = domRun
        /\ domSlot' = [domSlot EXCEPT !.rows = <<>>]
    BY <1>2 DEF DomDispose
  <2>2. DOMAIN domSlot' = {"status", "rows"} /\ domSlot'.status = domSlot.status
        /\ domSlot'.rows = <<>>
    BY <2>1 DEF DomInvariant, DomTypes
  <2>3. domTree' \in Seq(DomNodes(domKind, domGen)) /\ IsInjective(domTree')
        /\ Range(domTree') \subseteq {DomForeign}
    BY <2>1, DomDisposedFacts DEF DomInvariant, DomTypes
  <2>4. DomIsRows(domKind, domGen, <<>>) /\ Range(<<>>) = {}
    BY DomNoRows
  <2>5. DomTypes'
    BY <1>1, <2>1, <2>2, <2>3, <2>4 DEF DomInvariant, DomTypes
  <2>6. DomPhases'
    BY <1>2, <2>1 DEF DomPhases
  <2>7. DomOrdered(domTree', <<>>)
    BY DEF DomOrdered, DomPrecedes
  <2>8. DomResidue'
    BY <1>2, <2>1, <2>2, <2>3, <2>7 DEF DomResidue
  <2>9. DomUntouched'
    BY <2>1 DEF DomUntouched
  <2>10. DomProgress'
    BY <1>2, <2>1 DEF DomProgress
  <2> QED BY <2>5, <2>6, <2>8, <2>9, <2>10 DEF DomInvariant
<1>3. CASE domRun.pc # "idle"
  <2>1. /\ domRoot' = "retiring" /\ domRun' = [domRun EXCEPT !.disturbed = TRUE]
        /\ domTree' = domTree /\ domOwned' = domOwned /\ domSlot' = domSlot
    BY <1>3 DEF DomDispose
  <2>2. /\ DOMAIN domRun' = DOMAIN domRun /\ domRun'.pc = domRun.pc /\ domRun'.at = domRun.at
        /\ domRun'.hard = domRun.hard /\ domRun'.plan = domRun.plan
        /\ domRun'.old = domRun.old /\ domRun'.want = domRun.want
        /\ domRun'.before = domRun.before /\ domRun'.disturbed = TRUE
    BY <2>1 DEF DomInvariant, DomTypes
  <2>3. DomTypes'
    BY <1>1, <2>1, <2>2 DEF DomInvariant, DomTypes
  <2>4. DomPhases'
    BY <1>1, <2>1, <2>2 DEF DomInvariant, DomPhases
  <2>5. DomResidue'
    BY <1>1, <2>1, <2>2 DEF DomInvariant, DomResidue
  <2>6. DomUntouched'
    BY <2>1 DEF DomUntouched
  <2>7. DomProgress'
    BY <1>1, <1>3, <2>1, <2>2 DEF DomInvariant, DomProgress
  <2> QED BY <2>3, <2>4, <2>5, <2>6, <2>7 DEF DomInvariant
<1> QED BY <1>2, <1>3

LEMMA DomTamperKeeps ==
    ASSUME DomInvariant, DomTamper
    PROVE  DomInvariant'
<1> DEFINE rows == domSlot.rows
           Q == DomNodes(domKind, domGen)
           sb == <<"slot", 1>>
<1>1. /\ domKind' = domKind /\ domNested' = domNested /\ domAdopt' = domAdopt
      /\ domOwned' = domOwned /\ domSlot' = domSlot /\ domRoot' = domRoot
      /\ domGen' = domGen /\ domTouched' = domTouched + 1
      /\ domRoot \in {"live", "retiring", "mounting"}
      /\ domRun' = [domRun EXCEPT !.disturbed = TRUE]
  BY DEF DomTamper
<1>2. /\ DOMAIN domRun' = DOMAIN domRun /\ domRun'.pc = domRun.pc /\ domRun'.at = domRun.at
      /\ domRun'.hard = domRun.hard /\ domRun'.plan = domRun.plan
      /\ domRun'.old = domRun.old /\ domRun'.want = domRun.want
      /\ domRun'.before = domRun.before /\ domRun'.disturbed = TRUE
  BY <1>1 DEF DomInvariant, DomTypes
<1>3. /\ domTree \in Seq(Q) /\ IsInjective(domTree) /\ domGen \in Nat /\ domTouched \in Nat
      /\ DomIsRows(domKind, domGen, rows)
  BY DEF DomInvariant, DomTypes
<1>4. domTouched' \in Nat /\ domTouched' # 0
  BY ONLY <1>1, <1>3
<1>5. /\ domTree' \in Seq(Q) /\ IsInjective(domTree')
      /\ Range(domTree') \subseteq Range(domTree) \cup {DomForeign}
      /\ DomOrdered(domTree, rows) => DomOrdered(domTree', rows)
  <2>1. CASE sb \in Range(domTree) /\ domTree' = DomInsert(domTree, DomForeign, sb)
    <3> DEFINE f == DomForeign
    <3>1. f \in Q /\ f # sb
      BY DEF DomNodes, DomForeign
    <3>2. f \notin Range(rows)
      BY <1>3, DomRowsPlain
    <3>3. domTree' = DomInsert(domTree, f, sb) /\ sb \in Range(domTree)
      BY <2>1
    <3> HIDE DEF f, sb, Q, rows
    <3>4. /\ domTree' \in Seq(Q) /\ IsInjective(domTree')
          /\ Range(domTree') = Range(domTree) \cup {f}
      BY ONLY <1>3, <3>1, <3>3, DomInsertFacts
    <3>5. DomOrdered(domTree, rows) => DomOrdered(domTree', rows)
      BY ONLY <1>3, <3>1, <3>2, <3>3, DomInsertOrdered
    <3> QED BY <3>4, <3>5 DEF f
  <2>2. CASE domTree' = domTree
    BY <1>3, <2>2
  <2>3. CASE \E n : domTree' = DomWithout(domTree, {n})
    BY <2>3, <1>3, DomWithoutFacts, DomWithoutOrdered
  <2>4. \/ sb \in Range(domTree) /\ domTree' = DomInsert(domTree, DomForeign, sb)
        \/ domTree' = domTree
        \/ \E n : domTree' = DomWithout(domTree, {n})
    BY DEF DomTamper
  <2> QED BY <2>1, <2>2, <2>3, <2>4
<1>6. DomTypes'
  BY <1>1, <1>2, <1>4, <1>5 DEF DomInvariant, DomTypes
<1>7. DomPhases'
  BY <1>1, <1>2 DEF DomInvariant, DomPhases
<1>8. DomResidue'
  <2> DEFINE staged == IF domRun.pc = "replace" \/ (domRun.pc = "move" /\ domRun.hard)
                       THEN Range(domRun.plan)
                       ELSE IF domRun.pc = "retire" /\ domKind = "dynamic" THEN domRun.old
                       ELSE {}
  <2>1. /\ Range(domTree) \subseteq DomFrame \cup {DomForeign} \cup Range(rows) \cup staged
        /\ ~(domRun.pc = "move" /\ domRun.hard) => DomOrdered(domTree, rows)
    BY DEF DomInvariant, DomResidue
  <2>2. Range(domTree') \subseteq DomFrame \cup {DomForeign} \cup Range(rows) \cup staged
    <3> HIDE DEF staged
    <3> QED BY <1>5, <2>1
  <2>3. ~(domRun.pc = "move" /\ domRun.hard) => DomOrdered(domTree', rows)
    BY <1>5, <2>1
  <2> QED BY <1>1, <1>2, <2>2, <2>3 DEF DomResidue
<1>9. DomUntouched'
  BY <1>4 DEF DomUntouched
<1>10. DomProgress'
  BY <1>1, <1>2 DEF DomInvariant, DomProgress
<1> QED BY <1>6, <1>7, <1>8, <1>9, <1>10 DEF DomInvariant

LEMMA DomStutterKeeps ==
    ASSUME DomInvariant, UNCHANGED domVars
    PROVE  DomInvariant'
<1>1. /\ domKind' = domKind /\ domNested' = domNested /\ domAdopt' = domAdopt
      /\ domTree' = domTree /\ domOwned' = domOwned /\ domSlot' = domSlot
      /\ domRoot' = domRoot /\ domRun' = domRun /\ domGen' = domGen
      /\ domTouched' = domTouched /\ domMixed' = domMixed
  BY DEF domVars
<1>2. DomTypes'
  BY <1>1 DEF DomInvariant, DomTypes
<1>3. DomPhases'
  BY <1>1 DEF DomInvariant, DomPhases
<1>4. DomResidue'
  BY <1>1 DEF DomInvariant, DomResidue
<1>5. DomUntouched'
  BY <1>1 DEF DomInvariant, DomUntouched
<1>6. DomProgress'
  BY <1>1 DEF DomInvariant, DomProgress
<1> QED BY <1>2, <1>3, <1>4, <1>5, <1>6 DEF DomInvariant

-----------------------------------------------------------------------------
(* The guarantees.                                                         *)

LEMMA DomInvariantGuarantees ==
    ASSUME DomInvariant
    PROVE  DomGuarantees
<1>1. /\ domTree \in Seq(DomNodes(domKind, domGen)) /\ IsInjective(domTree) /\ domGen \in Nat
      /\ DomIsRows(domKind, domGen, domSlot.rows)
  BY DEF DomInvariant, DomTypes
<1>2. DomPlain(domSlot.rows, DomRowNodes(domKind, domGen))
  BY <1>1, DomRowsPlain
<1>3. DomNoResidue
  BY <1>2, <1>1, DomOnlyAgree DEF DomNoResidue, DomInvariant, DomResidue, DomUntouched,
     DomPlain
<1>4. DomUpdatesCommit
  BY DEF DomInvariant, DomProgress, DomUpdatesCommit, DomContinues
<1> QED BY <1>3, <1>4 DEF DomGuarantees

\* An update of a mounted list or slot that fails has changed nothing or taken the
\* whole slot out, a disposed or failed mount leaves no node behind, and an update
\* that met no obstacle shows the collected keys, each in the row it had, whatever
\* the callbacks, a disposal in their midst or foreign code do to the document
\* (install_keyed_view_effect, install_dynamic_view_effect), for any set of keys.
THEOREM RowsAreWhole == DomSpec => []DomGuarantees
<1>1. DomInit => DomInvariant
  BY DomStarts
<1>2. DomInvariant /\ [DomNext]_domVars => DomInvariant'
  <2> SUFFICES ASSUME DomInvariant, [DomNext]_domVars PROVE DomInvariant'
    OBVIOUS
  <2>1. CASE DomPreflight \/ DomBegin \/ DomCallbackFails
    BY <2>1, DomPreflightKeeps, DomBeginKeeps, DomCallbackFailsKeeps
  <2>2. CASE DomCollectKeys \/ DomBuildRows \/ DomObserved
    BY <2>2, DomCollectKeysKeeps, DomBuildRowsKeeps, DomObservedKeeps
  <2>3. CASE DomMove \/ DomSettle \/ DomRetireRows
    BY <2>3, DomMoveKeeps, DomSettleKeeps, DomRetireRowsKeeps
  <2>4. CASE DomCallView \/ DomStageChild \/ DomInsertChild
    BY <2>4, DomCallViewKeeps, DomStageChildKeeps, DomInsertChildKeeps
  <2>5. CASE DomReplace \/ DomRetireChild
    BY <2>5, DomReplaceKeeps, DomRetireChildKeeps
  <2>6. CASE DomDispose \/ DomTamper
    BY <2>6, DomDisposeKeeps, DomTamperKeeps
  <2>7. CASE UNCHANGED domVars
    BY <2>7, DomStutterKeeps
  <2> QED BY <2>1, <2>2, <2>3, <2>4, <2>5, <2>6, <2>7 DEF DomNext
<1>3. DomInvariant => DomGuarantees
  BY DomInvariantGuarantees
<1> QED BY <1>1, <1>2, <1>3, PTL DEF DomSpec
=============================================================================
