----------------------- MODULE WorkerDuplicateProofs -----------------------
(***************************************************************************)
(* The bound on duplicate answers, proved for every number of requests,    *)
(* attempts and disturbances.                                              *)
(*                                                                         *)
(* The argument is an account.  What a request may still be answered       *)
(* without anything more going wrong is a delivery that is due and each    *)
(* coroutine that has not published yet; with the copies that are in the   *)
(* queue this is what the request needs.  Two steps make a new delivery    *)
(* due and are no disturbances themselves: the acknowledgement timeout,    *)
(* and the disconnection of a shutdown.  Each was paid for earlier, by the *)
(* disturbance that stranded a delivery and by the shutdown's beginning;   *)
(* until then it is a credit.                                              *)
(***************************************************************************)
EXTENDS WorkerProofs, FiniteSetTheorems

\* The coroutines of a request that have not published an answer yet.
Unanswered(m) ==
    {h \in handlers : h.msg = m /\ h.stage \in {"received", "pipeline", "publish"}}

Working(m) == Cardinality(Unanswered(m))

\* A delivery is due.
Due(m) == IF request[m] \in {"unsent", "ready"} THEN 1 ELSE 0

Need(m) == Copies(m) + Working(m) + Due(m)

StrandCredit == IF \E m \in Messages : Stranded(m) THEN 1 ELSE 0

StopCredit == IF process = "draining" THEN 1 ELSE 0

Account ==
    \A m \in Messages : Need(m) + StrandCredit + StopCredit <= 1 + disturbances

\* A request is unacknowledged only on an open connection, and a process that
\* is off or disconnected has none.
LinkInv == /\ link # "open" => Unacked = {}
           /\ process \in {"off", "closed"} => link = "none"

AccountInv == TypeInv /\ IsFiniteSet(handlers) /\ LinkInv /\ Account

-----------------------------------------------------------------------------
(* Lemmas about the account.                                               *)

\* What the account adds up are natural numbers.
LEMMA AccountNumbers ==
    ASSUME TypeOK, IsFiniteSet(handlers)
    PROVE  /\ \A m \in Messages : /\ Copies(m) \in Nat
                                  /\ Working(m) \in Nat
                                  /\ IsFiniteSet(Unanswered(m))
                                  /\ Due(m) \in 0 .. 1
           /\ StrandCredit \in 0 .. 1
           /\ StopCredit \in 0 .. 1
           /\ disturbances \in Nat
<1>1. ASSUME NEW m \in Messages PROVE Copies(m) \in Nat
  BY DEF TypeOK, Copies, Answer
<1>2. ASSUME NEW m \in Messages
      PROVE  Working(m) \in Nat /\ IsFiniteSet(Unanswered(m))
  <2>1. Unanswered(m) \in SUBSET handlers
    BY DEF Unanswered
  <2>2. IsFiniteSet(Unanswered(m))
    BY <2>1, FS_Subset
  <2>3. QED
    BY <2>2, FS_CardinalityType DEF Working
<1>3. QED
  BY <1>1, <1>2 DEF Due, StrandCredit, StopCredit, TypeOK

\* The same after a step.
LEMMA AccountNumbersNext ==
    ASSUME TypeOK', IsFiniteSet(handlers')
    PROVE  /\ \A m \in Messages : /\ Copies(m)' \in Nat
                                  /\ Working(m)' \in Nat
                                  /\ Due(m)' \in 0 .. 1
           /\ StrandCredit' \in 0 .. 1
           /\ StopCredit' \in 0 .. 1
           /\ disturbances' \in Nat
<1>1. ASSUME NEW m \in Messages PROVE Copies(m)' \in Nat
  BY DEF TypeOK, Copies, Answer
<1>2. ASSUME NEW m \in Messages PROVE Working(m)' \in Nat
  <2>1. Unanswered(m)' \in SUBSET handlers'
    BY DEF Unanswered
  <2>2. IsFiniteSet(Unanswered(m)')
    BY <2>1, FS_Subset
  <2>3. QED
    BY <2>2, FS_CardinalityType DEF Working
<1>3. ASSUME NEW m \in Messages PROVE Due(m)' \in 0 .. 1
  BY DEF Due
<1>4. StrandCredit' \in 0 .. 1
  BY DEF StrandCredit
<1>5. StopCredit' \in 0 .. 1
  BY DEF StopCredit
<1>6. disturbances' \in Nat
  BY DEF TypeOK
<1>7. QED
  BY <1>1, <1>2, <1>3, <1>4, <1>5, <1>6

\* Coroutines that end take nothing into account.
LEMMA FewerHandlers ==
    ASSUME IsFiniteSet(handlers), handlers' \subseteq handlers
    PROVE  /\ IsFiniteSet(handlers')
           /\ \A m \in Messages : Working(m)' <= Working(m)
<1>1. IsFiniteSet(handlers')
  BY FS_Subset
<1>2. ASSUME NEW m \in Messages
      PROVE  Working(m)' <= Working(m)
  <2>1. Unanswered(m)' \in SUBSET Unanswered(m) /\ Unanswered(m) \in SUBSET handlers
    BY DEF Unanswered
  <2>2. IsFiniteSet(Unanswered(m))
    BY <2>1, FS_Subset
  <2>3. QED
    BY <2>1, <2>2, FS_Subset DEF Working
<1>3. QED
  BY <1>1, <1>2

\* A delivery is stranded only where there is an unacknowledged request.
LEMMA NothingStranded ==
    ASSUME Unacked = {} PROVE StrandCredit = 0
BY DEF Unacked, StrandCredit, Stranded

\* The arithmetic of a requeue, over plain numbers: c copies, w coroutines, u a
\* delivery due, s and p the two credits, d the disturbances.
LEMMA RequeueArithmetic ==
    \A c, w, w1, d, d1 \in Nat : \A u, u1, s, p, p1 \in 0 .. 1 :
        /\ c + w + u + s + p <= 1 + d
        /\ w1 <= w
        /\ d + 1 + p1 <= d1 + s + p
        => c + w1 + u1 + 0 + p1 <= 1 + d1
OBVIOUS

\* Requeueing makes one delivery of a request due, and strands none: it is paid
\* for by a new disturbance, or by a credit.
LEMMA RequeueAccount ==
    ASSUME AccountInv, TypeInv', RequeueUnacked, handlers' \subseteq handlers,
           UNCHANGED answers,
           disturbances + 1 + StopCredit' <= disturbances' + StrandCredit + StopCredit
    PROVE  Account' /\ Unacked' = {} /\ IsFiniteSet(handlers')
<1>1. Unacked' = {}
  BY DEF RequeueUnacked, Unacked
<1>2. StrandCredit' = 0
  BY <1>1, NothingStranded DEF Unacked, StrandCredit, Stranded
<1>3. IsFiniteSet(handlers')
  BY FewerHandlers DEF AccountInv
<1>4. ASSUME NEW m \in Messages
      PROVE  Need(m)' + StrandCredit' + StopCredit' <= 1 + disturbances'
  <2>1. Working(m)' <= Working(m)
    BY FewerHandlers DEF AccountInv
  <2>2. Copies(m)' = Copies(m)
    BY DEF Copies
  <2>3. /\ Copies(m) \in Nat /\ Working(m) \in Nat /\ Due(m) \in 0 .. 1
        /\ StrandCredit \in 0 .. 1 /\ StopCredit \in 0 .. 1 /\ disturbances \in Nat
    BY AccountNumbers DEF AccountInv, TypeInv
  <2>4. /\ Copies(m)' \in Nat /\ Working(m)' \in Nat /\ Due(m)' \in 0 .. 1
        /\ StopCredit' \in 0 .. 1 /\ disturbances' \in Nat
    BY <1>3, AccountNumbersNext DEF TypeInv
  <2>5. Copies(m) + Working(m) + Due(m) + StrandCredit + StopCredit
          <= 1 + disturbances
    BY DEF AccountInv, Account, Need
  <2>6. disturbances + 1 + StopCredit' <= disturbances' + StrandCredit + StopCredit
    OBVIOUS
  <2>7. Copies(m) + Working(m)' + Due(m)' + 0 + StopCredit' <= 1 + disturbances'
    BY <2>1, <2>3, <2>4, <2>5, <2>6, RequeueArithmetic
  <2>8. QED
    BY <1>2, <2>2, <2>7 DEF Need
<1>5. QED
  BY <1>1, <1>3, <1>4 DEF Account

-----------------------------------------------------------------------------
(* Steps that move one coroutine or one delivery.                          *)

\* The arithmetic of a step: n is what the request needs, s and p the credits,
\* d the disturbances.
LEMMA StepArithmetic ==
    \A n, n1, d, d1 \in Nat : \A s, s1, p \in 0 .. 1 :
        /\ n + s + p <= 1 + d
        /\ n1 + s1 + d <= n + s + d1
        => n1 + s1 + p <= 1 + d1
OBVIOUS

\* A step keeps the account if a new disturbance pays for what it adds to the
\* need of each request and to the credit.
LEMMA PayAsYouGo ==
    ASSUME AccountInv, TypeInv', IsFiniteSet(handlers'), StopCredit' = StopCredit,
           \A m \in Messages : Need(m)' + StrandCredit' + disturbances
                                  <= Need(m) + StrandCredit + disturbances'
    PROVE  Account'
<1>1. StopCredit' = StopCredit
  OBVIOUS
<1>2. ASSUME NEW m \in Messages
      PROVE  Need(m)' + StrandCredit' + StopCredit' <= 1 + disturbances'
  <2>1. /\ Need(m) \in Nat /\ StrandCredit \in 0 .. 1 /\ StopCredit \in 0 .. 1
        /\ disturbances \in Nat
    BY AccountNumbers DEF AccountInv, TypeInv, Need
  <2>2. Need(m)' \in Nat /\ StrandCredit' \in 0 .. 1 /\ disturbances' \in Nat
    BY AccountNumbersNext DEF TypeInv, Need
  <2>3. Need(m) + StrandCredit + StopCredit <= 1 + disturbances
    BY DEF AccountInv, Account
  <2>4. Need(m)' + StrandCredit' + StopCredit <= 1 + disturbances'
    BY <2>1, <2>2, <2>3, StepArithmetic
  <2>5. QED
    BY <1>1, <2>4
<1>3. QED
  BY <1>2 DEF Account

\* The three ways to pay.
LEMMA PayArithmetic ==
    \A n, n1, d, d1 \in Nat : \A s, s1 \in 0 .. 1 :
        \/ n1 <= n /\ s1 <= s /\ d1 = d
        \/ n1 <= n /\ d1 = d + 1
        \/ n1 <= n + 1 /\ s1 <= s /\ d1 = d + 1
        => n1 + s1 + d <= n + s + d1
OBVIOUS

\* PayAsYouGo, case by case: nothing is added; or a delivery is stranded by a
\* disturbance; or a disturbance adds to the need of requests.
LEMMA Paid ==
    ASSUME AccountInv, TypeInv', IsFiniteSet(handlers'), StopCredit' = StopCredit,
           \/ /\ \A m \in Messages : Need(m)' <= Need(m)
              /\ StrandCredit' <= StrandCredit
              /\ disturbances' = disturbances
           \/ /\ \A m \in Messages : Need(m)' <= Need(m)
              /\ disturbances' = disturbances + 1
           \/ /\ \A m \in Messages : Need(m)' <= Need(m) + 1
              /\ StrandCredit' <= StrandCredit
              /\ disturbances' = disturbances + 1
    PROVE  Account'
<1>1. ASSUME NEW m \in Messages
      PROVE  Need(m)' + StrandCredit' + disturbances <= Need(m) + StrandCredit + disturbances'
  <2>1. Need(m) \in Nat /\ StrandCredit \in 0 .. 1 /\ disturbances \in Nat
    BY AccountNumbers DEF AccountInv, TypeInv, Need
  <2>2. Need(m)' \in Nat /\ StrandCredit' \in 0 .. 1 /\ disturbances' \in Nat
    BY AccountNumbersNext DEF TypeInv, Need
  <2>3. \/ Need(m)' <= Need(m) /\ StrandCredit' <= StrandCredit /\ disturbances' = disturbances
        \/ Need(m)' <= Need(m) /\ disturbances' = disturbances + 1
        \/ /\ Need(m)' <= Need(m) + 1
           /\ StrandCredit' <= StrandCredit
           /\ disturbances' = disturbances + 1
    BY Zenon
  <2>4. QED
    BY <2>1, <2>2, <2>3, PayArithmetic
<1>2. QED
  BY <1>1, PayAsYouGo

\* Arithmetic of the account: an account with one to spare is within its bound.
LEMMA LessIsNoMore == \A i, j \in Nat : i + 1 <= j => i <= j
OBVIOUS

\* Adding an element to a finite set.
LEMMA OneMore ==
    ASSUME NEW S, IsFiniteSet(S), NEW x
    PROVE  Cardinality(S \cup {x}) <= Cardinality(S) + 1
<1>1. Cardinality(S) \in Nat
  BY FS_CardinalityType
<1>2. Cardinality(S \cup {x}) = IF x \in S THEN Cardinality(S) ELSE Cardinality(S) + 1
  BY FS_AddElement
<1>3. QED
  BY <1>1, <1>2

\* Taking an element out of a finite set, or exchanging it.
LEMMA Exchange ==
    ASSUME NEW S, IsFiniteSet(S), NEW x \in S, NEW y
    PROVE  /\ Cardinality(S \ {x}) + 1 <= Cardinality(S)
           /\ Cardinality((S \ {x}) \cup {y}) <= Cardinality(S)
<1> DEFINE R == S \ {x}
<1>1. Cardinality(S) \in Nat
  BY FS_CardinalityType
<1>2. IsFiniteSet(R) /\ Cardinality(R) = Cardinality(S) - 1
  BY FS_RemoveElement
<1> HIDE DEF R
<1>3. Cardinality(R \cup {y}) = IF y \in R THEN Cardinality(R) ELSE Cardinality(R) + 1
  BY <1>2, FS_AddElement
<1>4. Cardinality(R) + 1 <= Cardinality(S) /\ Cardinality(R \cup {y}) <= Cardinality(S)
  BY <1>1, <1>2, <1>3
<1>5. QED
  BY <1>4 DEF R

\* A coroutine that advances to another stage stays the coroutine of its
\* delivery; its request needs less once it has published.
LEMMA AdvanceNeed ==
    ASSUME AccountInv, NEW h \in handlers, NEW g \in Handler, Advance(h, g),
           g.msg = h.msg, g.nth = h.nth, h.stage \in {"received", "pipeline", "publish"},
           UNCHANGED <<request, deliveries>>
    PROVE  /\ IsFiniteSet(handlers')
           /\ \A m \in Messages : Working(m)' <= Working(m)
           /\ g.stage \notin {"received", "pipeline", "publish"}
                 => Working(h.msg)' + 1 <= Working(h.msg)
           /\ StrandCredit' <= StrandCredit
<1>1. IsFiniteSet(handlers')
  BY FS_RemoveElement, FS_AddElement DEF Advance, AccountInv
<1>2. ASSUME NEW m \in Messages, m # h.msg PROVE Working(m)' <= Working(m)
  <2>1. Unanswered(m)' = Unanswered(m)
    BY <1>2 DEF Advance, Unanswered
  <2>2. Working(m) \in Nat
    BY AccountNumbers DEF AccountInv, TypeInv
  <2>3. QED
    BY <2>1, <2>2 DEF Working
<1> DEFINE S == Unanswered(h.msg)
<1>3. h.msg \in Messages /\ h \in S
  BY DEF AccountInv, TypeInv, TypeOK, Handler, Unanswered
<1>4. IsFiniteSet(S) /\ Cardinality(S) \in Nat
  BY <1>3, AccountNumbers DEF AccountInv, TypeInv, Working
<1>5. /\ Cardinality(S \ {h}) + 1 <= Cardinality(S)
      /\ Cardinality((S \ {h}) \cup {g}) <= Cardinality(S)
  BY <1>3, <1>4, Exchange
<1>6. ASSUME g.stage \in {"received", "pipeline", "publish"}
      PROVE  Working(h.msg)' <= Working(h.msg)
  <2>1. Unanswered(h.msg)' = (S \ {h}) \cup {g}
    BY <1>6 DEF Advance, Unanswered
  <2>2. QED
    BY <1>5, <2>1 DEF Working
<1>7. ASSUME g.stage \notin {"received", "pipeline", "publish"}
      PROVE  Working(h.msg)' + 1 <= Working(h.msg)
  <2>1. Unanswered(h.msg)' = S \ {h}
    BY <1>7 DEF Advance, Unanswered
  <2>2. QED
    BY <1>5, <2>1 DEF Working
<1>8. Working(h.msg)' <= Working(h.msg)
  <2>1. Working(h.msg)' \in Nat /\ Working(h.msg) \in Nat
    <3>1. Unanswered(h.msg)' \in SUBSET handlers'
      BY DEF Unanswered
    <3>2. QED
      BY <1>1, <1>4, <3>1, FS_Subset, FS_CardinalityType DEF Working
  <2>2. CASE Working(h.msg)' + 1 <= Working(h.msg)
    BY <2>1, <2>2, LessIsNoMore
  <2>3. QED
    BY <1>6, <1>7, <2>2
<1>9. StrandCredit' <= StrandCredit
  <2>1. \A m \in Messages : Stranded(m)' => Stranded(m)
    BY DEF Stranded, Holds, Advance
  <2>2. CASE \E m \in Messages : Stranded(m)'
    BY <2>1, <2>2 DEF StrandCredit
  <2>3. CASE ~ \E m \in Messages : Stranded(m)'
    BY <2>3 DEF StrandCredit
  <2>4. QED
    BY <2>2, <2>3
<1>10. QED
  BY <1>1, <1>2, <1>7, <1>8, <1>9

\* A coroutine that ends is no longer of use to its request.
LEMMA FinishNeed ==
    ASSUME AccountInv, NEW h \in handlers, Finish(h)
    PROVE  /\ IsFiniteSet(handlers')
           /\ \A m \in Messages : Working(m)' <= Working(m)
           /\ h.stage \in {"received", "pipeline", "publish"}
                 => Working(h.msg)' + 1 <= Working(h.msg)
<1>1. handlers' \subseteq handlers
  BY DEF Finish
<1>2. IsFiniteSet(handlers') /\ \A m \in Messages : Working(m)' <= Working(m)
  BY <1>1, FewerHandlers DEF AccountInv
<1>3. ASSUME h.stage \in {"received", "pipeline", "publish"}
      PROVE  Working(h.msg)' + 1 <= Working(h.msg)
  <2> DEFINE S == Unanswered(h.msg)
  <2>1. h.msg \in Messages /\ h \in S
    BY <1>3 DEF AccountInv, TypeInv, TypeOK, Handler, Unanswered
  <2>2. IsFiniteSet(S) /\ Cardinality(S) \in Nat
    BY <2>1, AccountNumbers DEF AccountInv, TypeInv, Working
  <2>3. Unanswered(h.msg)' = S \ {h}
    BY DEF Finish, Unanswered
  <2>4. Cardinality(S \ {h}) + 1 <= Cardinality(S)
    BY <2>1, <2>2, Exchange
  <2>5. QED
    BY <2>3, <2>4 DEF Working
<1>4. QED
  BY <1>2, <1>3

\* A coroutine whose delivery is void, or was just settled, strands nothing.
LEMMA FinishStrands ==
    ASSUME NEW h \in handlers, Finish(h), UNCHANGED deliveries,
           \A m \in Messages : request'[m] = "unacked" => request[m] = "unacked",
           Holds(h) => request'[h.msg] # "unacked"
    PROVE  StrandCredit' <= StrandCredit
<1>1. \A m \in Messages : Stranded(m)' => Stranded(m)
  BY DEF Stranded, Holds, Finish
<1>2. CASE \E m \in Messages : Stranded(m)'
  BY <1>1, <1>2 DEF StrandCredit
<1>3. CASE ~ \E m \in Messages : Stranded(m)'
  BY <1>3 DEF StrandCredit
<1>4. QED
  BY <1>2, <1>3

\* The arithmetic of a need: c copies, w coroutines, u a delivery due.
LEMMA NeedKept ==
    \A c, w, w1 \in Nat : \A u, u1 \in 0 .. 1 :
        w1 <= w /\ u1 <= u => c + w1 + u1 <= c + w + u
OBVIOUS

\* A coroutine that published has done so.
LEMMA NeedMet ==
    \A c, c1, w, w1 \in Nat : \A u, u1 \in 0 .. 1 :
        c1 <= c + 1 /\ w1 + 1 <= w /\ u1 <= u => c1 + w1 + u1 <= c + w + u
OBVIOUS

\* A disturbance may add one to the need.
LEMMA NeedGrows ==
    \A c, c1, w, w1 \in Nat : \A u, u1 \in 0 .. 1 :
        c1 <= c + 1 /\ w1 <= w /\ u1 <= u => c1 + w1 + u1 <= c + w + u + 1
OBVIOUS

\* A delivery that was due has become a coroutine.
LEMMA NeedDelivered ==
    \A c, w, w1 \in Nat : \A u, u1 \in 0 .. 1 :
        w1 <= w + 1 /\ u1 + 1 <= u => c + w1 + u1 <= c + w + u
OBVIOUS

\* What a step may do to the need of a request.
LEMMA NeedBound ==
    ASSUME AccountInv, TypeInv', IsFiniteSet(handlers'), NEW m \in Messages
    PROVE  /\ (Copies(m)' = Copies(m) /\ Working(m)' <= Working(m) /\ Due(m)' <= Due(m))
                 => Need(m)' <= Need(m)
           /\ (Copies(m)' <= Copies(m) + 1 /\ Working(m)' + 1 <= Working(m) /\ Due(m)' <= Due(m))
                 => Need(m)' <= Need(m)
           /\ (Copies(m)' <= Copies(m) + 1 /\ Working(m)' <= Working(m) /\ Due(m)' <= Due(m))
                 => Need(m)' <= Need(m) + 1
           /\ (Copies(m)' = Copies(m) /\ Working(m)' <= Working(m) + 1 /\ Due(m)' + 1 <= Due(m))
                 => Need(m)' <= Need(m)
<1>1. Copies(m) \in Nat /\ Working(m) \in Nat /\ Due(m) \in 0 .. 1
  BY AccountNumbers DEF AccountInv, TypeInv
<1>2. Copies(m)' \in Nat /\ Working(m)' \in Nat /\ Due(m)' \in 0 .. 1
  BY AccountNumbersNext DEF TypeInv
<1>3. /\ Need(m) = Copies(m) + Working(m) + Due(m)
      /\ Need(m)' = Copies(m)' + Working(m)' + Due(m)'
  BY DEF Need
<1>4. (Copies(m)' = Copies(m) /\ Working(m)' <= Working(m) /\ Due(m)' <= Due(m))
         => Need(m)' <= Need(m)
  <2>1. SUFFICES ASSUME Copies(m)' = Copies(m), Working(m)' <= Working(m), Due(m)' <= Due(m)
               PROVE  Need(m)' <= Need(m)
    OBVIOUS
  <2>2. Copies(m) + Working(m)' + Due(m)' <= Copies(m) + Working(m) + Due(m)
    BY <1>1, <1>2, <2>1, NeedKept
  <2>3. QED
    BY <1>3, <2>1, <2>2
<1>5. (Copies(m)' <= Copies(m) + 1 /\ Working(m)' + 1 <= Working(m) /\ Due(m)' <= Due(m))
         => Need(m)' <= Need(m)
  <2>1. SUFFICES ASSUME Copies(m)' <= Copies(m) + 1, Working(m)' + 1 <= Working(m), Due(m)' <= Due(m)
               PROVE  Need(m)' <= Need(m)
    OBVIOUS
  <2>2. Copies(m)' + Working(m)' + Due(m)' <= Copies(m) + Working(m) + Due(m)
    BY <1>1, <1>2, <2>1, NeedMet
  <2>3. QED
    BY <1>3, <2>1, <2>2
<1>6. (Copies(m)' <= Copies(m) + 1 /\ Working(m)' <= Working(m) /\ Due(m)' <= Due(m))
         => Need(m)' <= Need(m) + 1
  <2>1. SUFFICES ASSUME Copies(m)' <= Copies(m) + 1, Working(m)' <= Working(m), Due(m)' <= Due(m)
               PROVE  Need(m)' <= Need(m) + 1
    OBVIOUS
  <2>2. Copies(m)' + Working(m)' + Due(m)' <= Copies(m) + Working(m) + Due(m) + 1
    BY <1>1, <1>2, <2>1, NeedGrows
  <2>3. QED
    BY <1>3, <2>1, <2>2
<1>7. (Copies(m)' = Copies(m) /\ Working(m)' <= Working(m) + 1 /\ Due(m)' + 1 <= Due(m))
         => Need(m)' <= Need(m)
  <2>1. SUFFICES ASSUME Copies(m)' = Copies(m), Working(m)' <= Working(m) + 1, Due(m)' + 1 <= Due(m)
               PROVE  Need(m)' <= Need(m)
    OBVIOUS
  <2>2. Copies(m) + Working(m)' + Due(m)' <= Copies(m) + Working(m) + Due(m)
    BY <1>1, <1>2, <2>1, NeedDelivered
  <2>3. QED
    BY <1>3, <2>1, <2>2
<1>8. QED
  BY <1>4, <1>5, <1>6, <1>7

\* A coroutine's step leaves what is due as it is, or removes it.
LEMMA SameDue ==
    ASSUME UNCHANGED request PROVE \A m \in Messages : Due(m)' = Due(m) /\ Due(m)' <= Due(m)
BY DEF Due

\* The copies after an answer was enqueued.
LEMMA EnqueueCopies ==
    ASSUME AccountInv, NEW h \in handlers, h.stage = "publish", Enqueue(h)
    PROVE  \A m \in Messages : Copies(m)' <= Copies(m) + 1 /\ (m # h.msg => Copies(m)' = Copies(m))
<1>1. /\ Copies(h.msg)' <= Copies(h.msg) + 1
      /\ \A m \in Messages : m # h.msg => Copies(m)' = Copies(m)
  BY EnqueueType DEF AccountInv, TypeInv, AnswerChosen
<1>2. \A m \in Messages : Copies(m) \in Nat
  BY AccountNumbers DEF AccountInv, TypeInv
<1>3. \A m \in Messages : Copies(m) <= Copies(m) + 1
  BY <1>2
<1>4. ASSUME NEW m \in Messages, m # h.msg PROVE Copies(m)' <= Copies(m) + 1
  BY <1>1, <1>3, <1>4
<1>5. QED
  BY <1>1, <1>4

\* Steps of a coroutine that publish nothing and strand nothing.
LEMMA QuietStep ==
    ASSUME AccountInv, TypeInv', IsFiniteSet(handlers'), UNCHANGED <<answers, process>>,
           \A m \in Messages : Working(m)' <= Working(m) /\ Due(m)' <= Due(m)
    PROVE  /\ StrandCredit' <= StrandCredit /\ disturbances' = disturbances => Account'
           /\ disturbances' = disturbances + 1 => Account'
<1>1. \A m \in Messages : Need(m)' <= Need(m)
  BY NeedBound DEF Copies
<1>2. StopCredit' = StopCredit
  BY DEF StopCredit
<1>3. QED
  BY <1>1, <1>2, Paid

\* A failed attempt that does not end the coroutine leaves it its delivery.
LEMMA RetryHandler ==
    ASSUME NEW h \in Handler, AttemptFailed(h), ~Finish(h)
    PROVE  \E g \in Handler : Advance(h, g) /\ g.msg = h.msg /\ g.nth = h.nth
<1>1. h.attempt < MaxPublishAttempts - 1 /\ Advance(h, [h EXCEPT !.attempt = @ + 1])
  BY DEF AttemptFailed
<1>2. h.attempt + 1 \in 0 .. MaxPublishAttempts - 1
  BY <1>1, AttemptsAssumption DEF Handler
<1>3. [h EXCEPT !.attempt = @ + 1] \in Handler
  BY <1>2 DEF Handler
<1>4. [h EXCEPT !.attempt = @ + 1].msg = h.msg /\ [h EXCEPT !.attempt = @ + 1].nth = h.nth
  BY DEF Handler
<1>5. QED
  BY <1>1, <1>3, <1>4

\* A step of a coroutine keeps the account.
LEMMA HandlerAccount ==
    ASSUME AccountInv, NEW h \in handlers, HandlerStep(h)
    PROVE  AccountInv'
<1>0. TypeInv' /\ h \in Handler /\ h.msg \in Messages
  BY HandlerType DEF AccountInv, TypeInv, TypeOK, Handler
<1>a. UNCHANGED processVars
  BY DEF HandlerStep, Receive, Nack, PipelineReturns, PipelineRaises, PipelineRaisesBlank,
         PublishConfirmed, PublishUnconfirmed, PublishRaises, Ack, SettleRaises
<1>b. LinkInv'
  <2>1. \A m \in Messages : request'[m] = "unacked" => request[m] = "unacked"
    BY <1>0 DEF HandlerStep, Receive, Nack, PipelineReturns, PipelineRaises,
         PipelineRaisesBlank, PublishConfirmed, PublishUnconfirmed, PublishRaises, Ack,
         SettleRaises, brokerVars, AccountInv, TypeInv, TypeOK
  <2>2. QED
    BY <1>a, <2>1 DEF LinkInv, AccountInv, Unacked, processVars
<1>c. SUFFICES Account' /\ IsFiniteSet(handlers')
  BY <1>0, <1>b DEF AccountInv
<1>d. StopCredit' = StopCredit
  BY <1>a DEF processVars, StopCredit
<1>1. CASE Receive(h)
  <2>1. PICK g \in Handler : /\ Advance(h, g) /\ g.msg = h.msg /\ g.nth = h.nth
                             /\ h.stage = "received"
    <3>1. /\ [h EXCEPT !.stage = "nack"] \in Handler
          /\ [h EXCEPT !.stage = "pipeline"] \in Handler
      BY <1>0, StageUpdate
    <3>2. QED
      BY <1>0, <1>1, <3>1 DEF Receive, Handler
  <2>2. UNCHANGED <<request, deliveries, answers, process, disturbances>>
    BY <1>1 DEF Receive, brokerVars, processVars
  <2>3. /\ IsFiniteSet(handlers') /\ StrandCredit' <= StrandCredit
        /\ \A m \in Messages : Working(m)' <= Working(m)
    BY <2>1, <2>2, AdvanceNeed
  <2>4. QED
    BY <1>0, <2>2, <2>3, SameDue, QuietStep
<1>2. CASE PipelineReturns(h) \/ PipelineRaises(h)
  <2>1. PICK g \in Handler : /\ Advance(h, g) /\ g.msg = h.msg /\ g.nth = h.nth
                             /\ h.stage = "pipeline"
    <3>1. /\ [h EXCEPT !.stage = "publish", !.answer = "success"] \in Handler
          /\ [h EXCEPT !.stage = "publish", !.answer = "error"] \in Handler
      BY <1>0, AnswerUpdate DEF Answer
    <3>2. QED
      BY <1>0, <1>2, <3>1 DEF PipelineReturns, PipelineRaises, Handler
  <2>2. UNCHANGED <<request, deliveries, answers, process, disturbances>>
    BY <1>2 DEF PipelineReturns, PipelineRaises, brokerVars, processVars
  <2>3. /\ IsFiniteSet(handlers') /\ StrandCredit' <= StrandCredit
        /\ \A m \in Messages : Working(m)' <= Working(m)
    BY <2>1, <2>2, AdvanceNeed
  <2>4. QED
    BY <1>0, <2>2, <2>3, SameDue, QuietStep
<1>3. CASE Nack(h) \/ Ack(h) \/ SettleRaises(h)
  <2>1. Finish(h) /\ UNCHANGED <<deliveries, answers, process, disturbances>>
    BY <1>3 DEF Nack, Ack, SettleRaises, brokerVars, processVars
  <2>2. /\ \A m \in Messages : request'[m] = "unacked" => request[m] = "unacked"
        /\ Holds(h) => request'[h.msg] # "unacked"
        /\ \A m \in Messages : request'[m] = request[m] \/ request'[m] \in {"acked", "rejected"}
    BY <1>0, <1>3 DEF Nack, Ack, SettleRaises, brokerVars, AccountInv, TypeInv, TypeOK
  <2>3. StrandCredit' <= StrandCredit
    BY <2>1, <2>2, FinishStrands
  <2>4. \A m \in Messages : Due(m)' <= Due(m)
    BY <2>2 DEF Due
  <2>5. IsFiniteSet(handlers') /\ \A m \in Messages : Working(m)' <= Working(m)
    BY <2>1, FinishNeed
  <2>6. QED
    BY <1>0, <2>1, <2>3, <2>4, <2>5, QuietStep
<1>4. CASE PipelineRaisesBlank(h)
  <2>1. /\ Finish(h) /\ UNCHANGED <<request, answers, process>>
        /\ disturbances' = disturbances + 1
    BY <1>4 DEF PipelineRaisesBlank, Disturb, brokerVars, processVars
  <2>2. IsFiniteSet(handlers') /\ \A m \in Messages : Working(m)' <= Working(m)
    BY <2>1, FinishNeed
  <2>3. QED
    BY <1>0, <2>1, <2>2, SameDue, QuietStep
<1>5. CASE PublishConfirmed(h)
  <2>1. PICK g \in Handler : /\ Advance(h, g) /\ g.msg = h.msg /\ g.nth = h.nth
                             /\ g.stage = "ack" /\ h.stage = "publish"
    <3>1. [h EXCEPT !.stage = "ack"] \in Handler
      BY <1>0, StageUpdate
    <3>2. QED
      BY <1>0, <1>5, <3>1 DEF PublishConfirmed, Handler
  <2>2. Enqueue(h) /\ UNCHANGED <<request, deliveries, process, disturbances>>
    BY <1>5 DEF PublishConfirmed, processVars
  <2>3. /\ IsFiniteSet(handlers') /\ StrandCredit' <= StrandCredit
        /\ \A m \in Messages : Working(m)' <= Working(m)
        /\ Working(h.msg)' + 1 <= Working(h.msg)
    BY <2>1, <2>2, AdvanceNeed
  <2>4. \A m \in Messages : Copies(m)' <= Copies(m) + 1 /\ (m # h.msg => Copies(m)' = Copies(m))
    BY <2>1, <2>2, EnqueueCopies
  <2>5. ASSUME NEW m \in Messages PROVE Need(m)' <= Need(m)
    <3>1. Due(m)' <= Due(m)
      BY <2>2, SameDue
    <3>2. CASE m = h.msg
      BY <1>0, <2>3, <2>4, <3>1, <3>2, NeedBound
    <3>3. CASE m # h.msg
      BY <1>0, <2>3, <2>4, <3>1, <3>3, NeedBound
    <3>4. QED
      BY <3>2, <3>3
  <2>6. QED
    BY <1>0, <1>d, <2>3, <2>2, <2>5, Paid
<1>6. CASE PublishUnconfirmed(h)
  <2>1. /\ Enqueue(h) /\ AttemptFailed(h) /\ h.stage = "publish"
        /\ UNCHANGED <<request, deliveries, process>> /\ disturbances' = disturbances + 1
    BY <1>6 DEF PublishUnconfirmed, Disturb, processVars
  <2>2. \A m \in Messages : Copies(m)' <= Copies(m) + 1 /\ (m # h.msg => Copies(m)' = Copies(m))
    BY <2>1, EnqueueCopies
  <2>3. \A m \in Messages : Due(m)' <= Due(m)
    BY <2>1, SameDue
  <2>4. CASE Finish(h)
    <3>1. /\ IsFiniteSet(handlers') /\ \A m \in Messages : Working(m)' <= Working(m)
          /\ Working(h.msg)' + 1 <= Working(h.msg)
      BY <2>1, <2>4, FinishNeed
    <3>2. ASSUME NEW m \in Messages PROVE Need(m)' <= Need(m)
      <4>1. CASE m = h.msg
        BY <1>0, <2>2, <2>3, <3>1, <4>1, NeedBound
      <4>2. CASE m # h.msg
        BY <1>0, <2>2, <2>3, <3>1, <4>2, NeedBound
      <4>3. QED
        BY <4>1, <4>2
    <3>3. QED
      BY <1>0, <1>d, <2>1, <3>1, <3>2, Paid
  <2>5. CASE ~Finish(h)
    <3>1. PICK g \in Handler : Advance(h, g) /\ g.msg = h.msg /\ g.nth = h.nth
      BY <1>0, <2>1, <2>5, RetryHandler
    <3>2. /\ IsFiniteSet(handlers') /\ StrandCredit' <= StrandCredit
          /\ \A m \in Messages : Working(m)' <= Working(m)
      BY <2>1, <3>1, AdvanceNeed
    <3>3. ASSUME NEW m \in Messages PROVE Need(m)' <= Need(m) + 1
      BY <1>0, <2>2, <2>3, <3>2, NeedBound
    <3>4. QED
      BY <1>0, <1>d, <2>1, <3>2, <3>3, Paid
  <2>6. QED
    BY <2>4, <2>5
<1>7. CASE PublishRaises(h)
  <2>1. /\ AttemptFailed(h) /\ h.stage = "publish"
        /\ UNCHANGED <<request, deliveries, answers, process>>
        /\ IF link = "open" THEN disturbances' = disturbances + 1
                            ELSE disturbances' = disturbances
    BY <1>7 DEF PublishRaises, Disturb, brokerVars, processVars
  <2>2. IsFiniteSet(handlers') /\ \A m \in Messages : Working(m)' <= Working(m) /\ Due(m)' <= Due(m)
    <3>1. CASE Finish(h)
      BY <2>1, <3>1, FinishNeed, SameDue
    <3>2. CASE ~Finish(h)
      <4>1. PICK g \in Handler : Advance(h, g) /\ g.msg = h.msg /\ g.nth = h.nth
        BY <1>0, <2>1, <3>2, RetryHandler
      <4>2. QED
        BY <2>1, <4>1, AdvanceNeed, SameDue
    <3>3. QED
      BY <3>1, <3>2
  <2>3. CASE link = "open"
    BY <1>0, <2>1, <2>2, <2>3, QuietStep
  <2>4. CASE link # "open"
    <3>1. Unacked' = {} /\ Unacked = {}
      BY <2>1, <2>4 DEF AccountInv, LinkInv, Unacked
    <3>2. StrandCredit' <= StrandCredit
      BY <3>1 DEF StrandCredit, Stranded, Unacked
    <3>3. QED
      BY <1>0, <2>1, <2>2, <2>4, <3>2, QuietStep
  <2>5. QED
    BY <2>3, <2>4
<1>8. QED
  BY <1>1, <1>2, <1>3, <1>4, <1>5, <1>6, <1>7 DEF HandlerStep

-----------------------------------------------------------------------------
(* The steps of the broker and of the process, and the theorem.            *)

\* A delivery that was due is now a coroutine.
LEMMA DeliverAccount ==
    ASSUME AccountInv, NEW m \in Messages, Deliver(m)
    PROVE  AccountInv'
<1> DEFINE g == [msg |-> m, nth |-> deliveries[m] + 1, stage |-> "received",
                 answer |-> "none", attempt |-> 0]
<1>0. TypeInv'
  BY BrokerType DEF AccountInv
<1>1. /\ handlers' = handlers \cup {g} /\ link = "open" /\ request[m] = "ready"
      /\ UNCHANGED <<answers, process, consumer, link, disturbances>>
      /\ request' = [request EXCEPT ![m] = "unacked"]
      /\ deliveries' = [deliveries EXCEPT ![m] = @ + 1]
  BY DEF Deliver, processVars
<1>2. IsFiniteSet(handlers')
  BY <1>1, FS_AddElement DEF AccountInv
<1>3. LinkInv'
  BY <1>1 DEF AccountInv, LinkInv
<1>4. StrandCredit' <= StrandCredit
  <2>1. ASSUME NEW n \in Messages, n # m, Stranded(n)' PROVE Stranded(n)
    BY <1>1, <2>1 DEF Stranded, Holds, AccountInv, TypeInv, TypeOK, Handler
  <2>2. ~ Stranded(m)'
    <3>1. PICK h : h \in handlers' /\ h.msg = m /\ h.nth = deliveries[m] + 1
      <4>1. PICK h : h = g
        OBVIOUS
      <4>2. h \in handlers'
        BY <1>1, <4>1
      <4>3. h.msg = m /\ h.nth = deliveries[m] + 1
        BY <4>1
      <4>4. QED
        BY <4>2, <4>3
    <3>2. request'[m] = "unacked" /\ deliveries'[m] = deliveries[m] + 1
      BY <1>1 DEF AccountInv, TypeInv, TypeOK
    <3>3. Holds(h)'
      BY <3>1, <3>2 DEF Holds
    <3>4. QED
      BY <3>1, <3>3 DEF Stranded
  <2>3. CASE \E n \in Messages : Stranded(n)'
    BY <2>1, <2>2, <2>3 DEF StrandCredit
  <2>4. CASE ~ \E n \in Messages : Stranded(n)'
    BY <2>4 DEF StrandCredit
  <2>5. QED
    BY <2>3, <2>4
<1>5. ASSUME NEW n \in Messages, n # m PROVE Need(n)' <= Need(n)
  <2>1. Unanswered(n)' = Unanswered(n)
    BY <1>1, <1>5 DEF Unanswered
  <2>2. Working(n) \in Nat /\ Due(n) \in 0 .. 1
    BY AccountNumbers DEF AccountInv, TypeInv
  <2>3. Working(n)' <= Working(n)
    BY <2>1, <2>2 DEF Working
  <2>4. request'[n] = request[n]
    BY <1>1, <1>5 DEF AccountInv, TypeInv, TypeOK
  <2>5. Due(n)' <= Due(n)
    BY <2>4 DEF Due
  <2>6. Copies(n)' = Copies(n)
    BY <1>1 DEF Copies
  <2>7. QED
    BY <1>0, <1>2, <2>3, <2>5, <2>6, NeedBound
<1>6. Need(m)' <= Need(m)
  <2>1. Unanswered(m)' = Unanswered(m) \cup {g}
    BY <1>1 DEF Unanswered
  <2>2. IsFiniteSet(Unanswered(m)) /\ Cardinality(Unanswered(m)) \in Nat
    BY AccountNumbers DEF AccountInv, TypeInv, Working
  <2>3. Cardinality(Unanswered(m) \cup {g}) <= Cardinality(Unanswered(m)) + 1
    BY <2>2, OneMore
  <2>4. Working(m)' <= Working(m) + 1
    BY <2>1, <2>3 DEF Working
  <2>5. request'[m] = "unacked"
    BY <1>1 DEF AccountInv, TypeInv, TypeOK
  <2>6. Due(m)' = 0 /\ Due(m) = 1
    BY <1>1, <2>5 DEF Due
  <2>7. Due(m)' + 1 <= Due(m)
    BY <2>6
  <2>8. Copies(m)' = Copies(m)
    BY <1>1 DEF Copies
  <2>9. QED
    BY <1>0, <1>2, <2>4, <2>7, <2>8, NeedBound
<1>7. \A n \in Messages : Need(n)' <= Need(n)
  BY <1>5, <1>6
<1>8. StopCredit' = StopCredit
  BY <1>1 DEF StopCredit
<1>9. Account'
  BY <1>0, <1>1, <1>2, <1>4, <1>7, <1>8, Paid
<1>10. QED
  BY <1>0, <1>2, <1>3, <1>9 DEF AccountInv

\* The steps that move neither a coroutine nor an answer, and make nothing due.
LEMMA IdleAccount ==
    ASSUME AccountInv,
           \/ \E m \in Messages : Submit(m)
           \/ Reconnect \/ Boot \/ StartConsumer \/ StartConsumerRaises \/ UNCHANGED vars
    PROVE  AccountInv'
<1>0. TypeInv'
  BY BrokerType, LifespanType, StutterType DEF AccountInv
<1>1. /\ UNCHANGED <<handlers, deliveries, answers>>
      /\ disturbances' = disturbances \/ disturbances' = disturbances + 1
      /\ \A m \in Messages : \/ request'[m] = request[m]
                             \/ request[m] = "unsent" /\ request'[m] = "ready"
  BY DEF Submit, Reconnect, Boot, StartConsumer, StartConsumerRaises, Disturb, vars,
         brokerVars, processVars, AccountInv, TypeInv, TypeOK
<1>2. /\ process' = process \/ (process = "off" /\ process' = "running")
      /\ process' \in {"off", "closed"} => link' = link
      /\ link' # link => link' = "open"
  BY DEF Submit, Reconnect, Boot, StartConsumer, StartConsumerRaises, vars, processVars,
         AccountInv, LinkInv
<1>3. LinkInv'
  BY <1>1, <1>2 DEF AccountInv, LinkInv, Unacked
<1>4. IsFiniteSet(handlers')
  BY <1>1 DEF AccountInv
<1>5. \A m \in Messages : Working(m)' <= Working(m) /\ Due(m)' <= Due(m)
  <2>1. \A m \in Messages : Working(m) \in Nat /\ Due(m) \in 0 .. 1
    BY AccountNumbers DEF AccountInv, TypeInv
  <2>2. \A m \in Messages : Unanswered(m)' = Unanswered(m)
    BY <1>1 DEF Unanswered
  <2>3. \A m \in Messages : Working(m)' <= Working(m)
    BY <2>1, <2>2 DEF Working
  <2>4. \A m \in Messages : Due(m)' <= Due(m)
    BY <1>1 DEF Due
  <2>5. QED
    BY <2>3, <2>4
<1>6. \A m \in Messages : Need(m)' <= Need(m)
  BY <1>0, <1>1, <1>4, <1>5, NeedBound DEF Copies
<1>7. StrandCredit' <= StrandCredit
  <2>1. \A m \in Messages : Stranded(m)' => Stranded(m)
    BY <1>1 DEF Stranded, Holds
  <2>2. CASE \E m \in Messages : Stranded(m)'
    BY <2>1, <2>2 DEF StrandCredit
  <2>3. CASE ~ \E m \in Messages : Stranded(m)'
    BY <2>3 DEF StrandCredit
  <2>4. QED
    BY <2>2, <2>3
<1>8. StopCredit' = StopCredit
  BY <1>2 DEF StopCredit
<1>9. Account'
  BY <1>0, <1>1, <1>4, <1>6, <1>7, <1>8, Paid
<1>10. QED
  BY <1>0, <1>3, <1>4, <1>9 DEF AccountInv

\* The ways to pay for a requeue.
LEMMA RequeuePaid ==
    \A d, d1 \in Nat : \A s, p, p1 \in 0 .. 1 :
        \/ d1 = d + 1 /\ p1 <= p
        \/ d1 = d /\ p1 <= p /\ s = 1
        \/ d1 = d /\ p1 = 0 /\ p = 1
        => d + 1 + p1 <= d1 + s + p
OBVIOUS

\* A shutdown brings a credit with its disturbance.
LEMMA StopArithmetic ==
    \A n, d \in Nat : \A s \in 0 .. 1 : n + s + 0 <= 1 + d => n + s + 1 <= 1 + (d + 1)
OBVIOUS

\* The end of a channel, a shutdown and a crash.
LEMMA LifespanAccount ==
    ASSUME AccountInv,
           \/ ConnectionLost \/ AckTimeoutClose \/ AckTimeoutSlow
           \/ StopConsumer \/ Disconnect \/ Exit \/ Crash
    PROVE  AccountInv'
<1>0. TypeInv'
  BY BrokerType, LifespanType DEF AccountInv
<1>n. /\ StrandCredit \in 0 .. 1 /\ StopCredit \in 0 .. 1 /\ disturbances \in Nat
  BY AccountNumbers DEF AccountInv, TypeInv
<1>q. ASSUME RequeueUnacked, handlers' \subseteq handlers, UNCHANGED answers,
             process' \in {"off", "closed"} => link' = "none",
             \/ disturbances' = disturbances + 1 /\ StopCredit' <= StopCredit
             \/ disturbances' = disturbances /\ StopCredit' <= StopCredit /\ StrandCredit = 1
             \/ disturbances' = disturbances /\ StopCredit' = 0 /\ StopCredit = 1
      PROVE  AccountInv'
  <2>1. StopCredit' \in 0 .. 1 /\ disturbances' \in Nat
    BY <1>0 DEF TypeInv, TypeOK, StopCredit
  <2>2. disturbances + 1 + StopCredit' <= disturbances' + StrandCredit + StopCredit
    BY <1>n, <1>q, <2>1, RequeuePaid
  <2>3. Account' /\ Unacked' = {} /\ IsFiniteSet(handlers')
    BY <1>0, <1>q, <2>2, RequeueAccount
  <2>4. LinkInv'
    BY <1>q, <2>3 DEF LinkInv
  <2>5. QED
    BY <1>0, <2>3, <2>4 DEF AccountInv
<1>1. CASE ConnectionLost
  <2>1. /\ RequeueUnacked /\ handlers' \subseteq handlers /\ UNCHANGED <<answers, process>>
        /\ disturbances' = disturbances + 1 /\ link = "open"
    BY <1>1 DEF ConnectionLost, SomeHandlersCancelled, Disturb
  <2>2. StopCredit' <= StopCredit
    BY <2>1 DEF StopCredit
  <2>3. process' \notin {"off", "closed"}
    BY <2>1 DEF AccountInv, LinkInv
  <2>4. QED
    BY <1>q, <2>1, <2>2, <2>3
<1>2. CASE AckTimeoutClose
  <2>1. /\ RequeueUnacked /\ handlers' \subseteq handlers /\ UNCHANGED <<answers, process>>
        /\ disturbances' = disturbances /\ link = "open"
        /\ \E m \in Messages : Stranded(m)
    BY <1>2 DEF AckTimeoutClose, SomeHandlersCancelled, processVars
  <2>2. StopCredit' <= StopCredit
    BY <2>1 DEF StopCredit
  <2>3. StrandCredit = 1
    BY <2>1 DEF StrandCredit
  <2>4. process' \notin {"off", "closed"}
    BY <2>1 DEF AccountInv, LinkInv
  <2>5. QED
    BY <1>q, <2>1, <2>2, <2>3, <2>4
<1>3. CASE Disconnect
  <2>1. /\ RequeueUnacked /\ handlers' \subseteq handlers /\ UNCHANGED answers
        /\ disturbances' = disturbances /\ link' = "none"
        /\ process = "draining" /\ process' = "closed"
    BY <1>3 DEF Disconnect, SomeHandlersCancelled
  <2>2. StopCredit' = 0 /\ StopCredit = 1
    BY <2>1 DEF StopCredit
  <2>3. QED
    BY <1>q, <2>1, <2>2
<1>4. CASE Crash
  <2>1. /\ RequeueUnacked /\ handlers' \subseteq handlers /\ UNCHANGED answers
        /\ disturbances' = disturbances + 1 /\ link' = "none" /\ process' = "off"
    BY <1>4 DEF Crash, Disturb
  <2>2. StopCredit' = 0
    BY <2>1 DEF StopCredit
  <2>3. StopCredit' <= StopCredit
    BY <1>n, <2>2
  <2>4. QED
    BY <1>q, <2>1, <2>3
<1>5. CASE StopConsumer
  <2>1. /\ UNCHANGED <<request, deliveries, answers, handlers, link>>
        /\ process = "running" /\ process' = "draining"
        /\ disturbances' = disturbances + 1
    BY <1>5 DEF StopConsumer, Disturb, brokerVars
  <2>2. IsFiniteSet(handlers') /\ LinkInv'
    BY <2>1 DEF AccountInv, LinkInv, Unacked
  <2>3. StopCredit' = 1 /\ StopCredit = 0
    BY <2>1 DEF StopCredit
  <2>4. StrandCredit' = StrandCredit
    BY <2>1 DEF StrandCredit, Stranded, Holds
  <2>5. ASSUME NEW m \in Messages
        PROVE  Need(m)' + StrandCredit' + StopCredit' <= 1 + disturbances'
    <3>1. Need(m)' = Need(m)
      BY <2>1 DEF Need, Copies, Working, Unanswered, Due
    <3>2. Need(m) \in Nat
      BY AccountNumbers DEF AccountInv, TypeInv, Need
    <3>3. Need(m) + StrandCredit + 0 <= 1 + disturbances
      BY <2>3 DEF AccountInv, Account
    <3>4. Need(m) + StrandCredit + 1 <= 1 + (disturbances + 1)
      BY <1>n, <3>2, <3>3, StopArithmetic
    <3>5. QED
      BY <2>1, <2>3, <2>4, <3>1, <3>4
  <2>6. QED
    BY <1>0, <2>2, <2>5 DEF AccountInv, Account
<1>6. CASE Exit
  <2>1. /\ UNCHANGED <<request, deliveries, answers, link, disturbances>>
        /\ process = "closed" /\ process' = "off" /\ handlers' = {}
    BY <1>6 DEF Exit, brokerVars
  <2>2. link = "none" /\ Unacked = {} /\ Unacked' = {}
    BY <2>1 DEF AccountInv, LinkInv, Unacked
  <2>3. IsFiniteSet(handlers') /\ \A m \in Messages : Working(m)' <= Working(m)
    BY <2>1, FewerHandlers DEF AccountInv
  <2>4. \A m \in Messages : Need(m)' <= Need(m)
    BY <1>0, <2>1, <2>3, NeedBound, SameDue DEF Copies
  <2>5. StrandCredit' <= StrandCredit
    BY <2>2 DEF StrandCredit, Stranded, Unacked
  <2>6. StopCredit' = StopCredit
    BY <2>1 DEF StopCredit
  <2>7. Account'
    BY <1>0, <2>1, <2>3, <2>4, <2>5, <2>6, Paid
  <2>8. LinkInv'
    BY <2>1, <2>2 DEF LinkInv
  <2>9. QED
    BY <1>0, <2>3, <2>7, <2>8 DEF AccountInv
<1>7. CASE AckTimeoutSlow
  <2>1. /\ RequeueUnacked /\ handlers' \subseteq handlers /\ UNCHANGED <<answers, process>>
        /\ disturbances' = disturbances + 1 /\ link = "open"
    BY <1>7 DEF AckTimeoutSlow, SomeHandlersCancelled, Disturb, processVars
  <2>2. StopCredit' <= StopCredit
    BY <2>1 DEF StopCredit
  <2>3. process' \notin {"off", "closed"}
    BY <2>1 DEF AccountInv, LinkInv
  <2>4. QED
    BY <1>q, <2>1, <2>2, <2>3
<1>8. QED
  BY <1>1, <1>2, <1>3, <1>4, <1>5, <1>6, <1>7

\* What the account bounds.
LEMMA AccountBounds ==
    \A c, w, d \in Nat : \A u, s, p \in 0 .. 1 :
        c + w + u + s + p <= 1 + d => c <= 1 + d
OBVIOUS

\* The initial account: one delivery of each request is due, nothing else.
LEMMA InitialAccount == Init => AccountInv
<1> SUFFICES ASSUME Init PROVE AccountInv
  OBVIOUS
<1>1. TypeInv
  BY DEF Init, TypeInv, TypeOK, AnswerChosen, Places, ZeroMetrics, Handler
<1>2. handlers = {} /\ IsFiniteSet(handlers)
  BY FS_EmptySet DEF Init
<1>3. Unacked = {} /\ LinkInv
  BY DEF Init, Unacked, LinkInv
<1>4. StrandCredit = 0 /\ StopCredit = 0 /\ disturbances = 0
  BY <1>3, NothingStranded DEF Init, StopCredit
<1>5. ASSUME NEW m \in Messages PROVE Need(m) = 1
  <2>1. Unanswered(m) = {}
    BY <1>2 DEF Unanswered
  <2>2. Working(m) = 0
    BY <2>1, FS_EmptySet DEF Working
  <2>3. Copies(m) = 0 /\ Due(m) = 1
    BY DEF Init, Copies, Answer, Due
  <2>4. QED
    BY <2>2, <2>3 DEF Need
<1>6. Account
  BY <1>4, <1>5 DEF Account
<1>7. QED
  BY <1>1, <1>2, <1>3, <1>6 DEF AccountInv

\* The account is kept by every step.
LEMMA AccountStep == ASSUME AccountInv, [Next]_vars PROVE AccountInv'
<1>1. ASSUME NEW m \in Messages, Submit(m) PROVE AccountInv'
  BY <1>1, IdleAccount
<1>2. ASSUME NEW m \in Messages, Deliver(m) PROVE AccountInv'
  BY <1>2, DeliverAccount
<1>3. ASSUME NEW h \in handlers, HandlerStep(h) PROVE AccountInv'
  BY <1>3, HandlerAccount
<1>4. CASE Reconnect \/ Boot \/ StartConsumer \/ StartConsumerRaises \/ UNCHANGED vars
  BY <1>4, IdleAccount
<1>5. CASE \/ ConnectionLost \/ AckTimeoutClose \/ AckTimeoutSlow
           \/ StopConsumer \/ Disconnect \/ Exit \/ Crash
  BY <1>5, LifespanAccount
<1>6. QED
  BY <1>1, <1>2, <1>3, <1>4, <1>5 DEF Next

\* A request has at most one answer more than there were disturbances: every
\* duplicate has a cause of its own, however many requests are in flight and
\* however often each is redelivered (consumer.py, publisher.py).
THEOREM DuplicatesBounded == Spec => []DuplicatesHaveACause
<1>1. Init => AccountInv
  BY InitialAccount
<1>2. AccountInv /\ [Next]_vars => AccountInv'
  BY AccountStep
<1>3. AccountInv => DuplicatesHaveACause
  <2> SUFFICES ASSUME AccountInv, NEW m \in Messages PROVE Copies(m) <= 1 + disturbances
    BY DEF DuplicatesHaveACause
  <2>1. /\ Copies(m) \in Nat /\ Working(m) \in Nat /\ Due(m) \in 0 .. 1
        /\ StrandCredit \in 0 .. 1 /\ StopCredit \in 0 .. 1 /\ disturbances \in Nat
    BY AccountNumbers DEF AccountInv, TypeInv
  <2>2. Copies(m) + Working(m) + Due(m) + StrandCredit + StopCredit <= 1 + disturbances
    BY DEF AccountInv, Account, Need
  <2>3. QED
    BY <2>1, <2>2, AccountBounds
<1>4. QED
  BY <1>1, <1>2, <1>3, PTL DEF Spec

=============================================================================
