-------------------------- MODULE ConnectionProofs --------------------------
(***************************************************************************)
(* What is sent over a connection, and whose reply is its answer.          *)
(*                                                                         *)
(* In the event loop: replies are those of their queries, for every        *)
(* pipeline, every way to cut it up and every ranking; and the limiter     *)
(* before each request keeps to its bounds, for every bucket and clock.    *)
(*                                                                         *)
(* Over a blocking connection: answers belong to their commands until one  *)
(* fails, and to one command until a reply is torn; for every plan.        *)
(***************************************************************************)
EXTENDS EventClient, RateLimiter, ControlConnection, FiniteSetTheorems, SequenceTheorems, WellFoundedInduction, TLAPS

(* The least of a set is in it.                                              *)
LEMMA LeastIsIn ==
    ASSUME NEW S \in SUBSET Nat, S # {}
    PROVE  Min(S) \in S /\ \A n \in S : Min(S) <= n
<1> DEFINE Less == {p \in Nat \X Nat : p[1] < p[2]}
<1>1. IsWellFoundedOn({p \in Nat \X Nat : p[1] < p[2]}, Nat)
  BY NatLessThanWellFounded, Zenon DEF OpToRel
<1>2. PICK m \in S : \A n \in S : <<n, m>> \notin Less
  BY <1>1, WFMin
<1>3. ASSUME NEW n \in S PROVE m <= n
  <2>1. n \in Nat /\ m \in Nat
    OBVIOUS
  <2>2. <<n, m>> \notin Less
    BY <1>2
  <2>3. QED
    BY <2>1, <2>2
<1>4. QED
  BY <1>3 DEF Min

-----------------------------------------------------------------------------
(* Recall.                                                                   *)

(* A reply to its own query scores the neighbours it found, at the rank that *)
(* both lists reach.                                                         *)
LEMMA ScoreIsRecall ==
    ASSUME NEW q \in Queries
    PROVE  Score(q, q) = RecallAtRank(q)
<1> DEFINE hits == AnswerTo[q]
           truth == Truth[q]
           r == Rank(q)
           found == {i \in 1 .. r : \E j \in 1 .. r : hits[i] = truth[j]}
           both == {hits[i] : i \in 1 .. r} \cap {truth[i] : i \in 1 .. r}
<1>1. /\ K \in Nat \ {0} /\ hits \in Seq(Nat) /\ truth \in Seq(Nat) /\ IsInjective(hits)
      /\ Len(truth) \in Nat /\ Len(hits) \in Nat
  <2>1. K \in Nat \ {0} /\ hits \in Seq(Nat) /\ truth \in Seq(Nat)
    BY ClientAssumption
  <2>2. IsInjective(hits)
    BY ClientAssumption
  <2>3. QED
    BY <2>1, <2>2
<1>2. r \in Nat /\ r <= Len(hits)
  <2> DEFINE S == {K, Len(truth), Len(hits)}
  <2>1. S \in SUBSET Nat /\ S # {} /\ Len(hits) \in S
    BY <1>1
  <2>2. Min(S) \in S /\ Min(S) <= Len(hits)
    BY <2>1, LeastIsIn
  <2>3. r = Min(S)
    BY DEF Rank
  <2> HIDE DEF S, r
  <2>4. QED
    BY <2>1, <2>2, <2>3
<1>3. \A i \in 1 .. r : i \in DOMAIN hits
  <2>1. DOMAIN hits = 1 .. Len(hits)
    BY <1>1
  <2>2. r \in Nat /\ Len(hits) \in Nat /\ r <= Len(hits)
    BY <1>1, <1>2
  <2> HIDE DEF hits, r
  <2>3. QED
    BY <2>1, <2>2
<1> HIDE DEF r
<1>4. Cardinality(found) = Cardinality(both)
  <2> DEFINE f == [i \in found |-> hits[i]]
  <2>1. IsFiniteSet(found)
    <3>1. IsFiniteSet(1 .. r) /\ found \in SUBSET (1 .. r)
      BY <1>2, FS_Interval
    <3>2. QED
      BY <3>1, FS_Subset
  <2>2. f \in [found -> both]
    OBVIOUS
  <2>3. \A i, j \in found : f[i] = f[j] => i = j
    <3>1. SUFFICES ASSUME NEW i \in found, NEW j \in found, hits[i] = hits[j] PROVE i = j
      OBVIOUS
    <3>2. i \in DOMAIN hits /\ j \in DOMAIN hits
      <4>1. i \in 1 .. r /\ j \in 1 .. r
        OBVIOUS
      <4>2. QED
        BY <4>1, <1>3
    <3>3. \A a, b \in DOMAIN hits : hits[a] = hits[b] => a = b
      BY <1>1 DEF IsInjective
    <3>4. QED
      BY <3>1, <3>2, <3>3
  <2>4. \A h \in both : \E i \in found : f[i] = h
    <3>1. SUFFICES ASSUME NEW h \in both PROVE \E i \in found : f[i] = h
      OBVIOUS
    <3>2. PICK i \in 1 .. r : hits[i] = h
      OBVIOUS
    <3>3. PICK j \in 1 .. r : truth[j] = h
      OBVIOUS
    <3>4. i \in found /\ f[i] = h
      BY <3>2, <3>3
    <3>5. QED
      BY <3>4
  <2>5. f \in Bijection(found, both)
    BY <2>2, <2>3, <2>4 DEF Bijection, Injection, Surjection, IsInjective
  <2>6. QED
    BY <2>1, <2>5, FS_Bijection DEF ExistsBijection
<1>5. Score(q, q) = IF r = 0 THEN 0 ELSE (Unit * Cardinality(found)) \div r
  BY DEF Score, RecallOf, Rank, r
<1>6. RecallAtRank(q) = IF r = 0 THEN 0 ELSE (Unit * Cardinality(both)) \div r
  BY DEF RecallAtRank, r
<1>7. QED
  BY <1>4, <1>5, <1>6

(* A pipeline whose replies are its own is scored as it deserves.             *)
LEMMA OwnReplies ==
    ASSUME NEW q \in [1 .. Pipeline -> Queries]
    PROVE  /\ Len(Zip(q, q)) = Pipeline
           /\ ScoreSum(q, q) = Sum([i \in DOMAIN q |-> RecallAtRank(q[i])])
<1>1. Pipeline \in Nat /\ q \in Seq(Queries) /\ Len(q) = Pipeline /\ DOMAIN q = 1 .. Pipeline
  <2>1. Pipeline \in Nat /\ DOMAIN q = 1 .. Pipeline
    BY ClientAssumption
  <2>2. q \in Seq(Queries)
    BY <2>1
  <2>3. QED
    BY <2>1, <2>2
<1>2. Zip(q, q) = [i \in 1 .. Pipeline |-> <<q[i], q[i]>>]
  BY <1>1 DEF Zip
<1>3. Len(Zip(q, q)) = Pipeline /\ DOMAIN Zip(q, q) = 1 .. Pipeline
  BY <1>1, <1>2
<1>4. ASSUME NEW i \in 1 .. Pipeline
      PROVE  Score(Zip(q, q)[i][1], Zip(q, q)[i][2]) = RecallAtRank(q[i])
  BY <1>2, <1>4, ScoreIsRecall
<1>5. QED
  BY <1>1, <1>3, <1>4 DEF ScoreSum

-----------------------------------------------------------------------------
(* The pieces that arrive.                                                   *)

LEMMA GoodIs ==
    ASSUME NEW S, NEW p \in Seq(S)
    PROVE  /\ Good(p) \in 0 .. Len(p)
           /\ \A j \in 1 .. Good(p) : p[j] # Bad
           /\ Good(p) < Len(p) => p[Good(p) + 1] = Bad
<1> DEFINE I == {i \in 1 .. Len(p) : p[i] = Bad}
<1>1. Len(p) \in Nat /\ I \in SUBSET Nat /\ (Bad \in Range(p) <=> I # {})
  BY DEF Range
<1>2. CASE I = {}
  <2>1. Good(p) = Len(p)
    BY <1>1, <1>2 DEF Good
  <2>2. \A j \in 1 .. Len(p) : p[j] # Bad
    BY <1>2
  <2>3. QED
    BY <1>1, <2>1, <2>2
<1>3. CASE I # {}
  <2>1. Good(p) = Min(I) - 1
    BY <1>1, <1>3 DEF Good, SelectInSeq
  <2>2. PICK m \in I : m = Min(I) /\ \A i \in I : m <= i
    BY <1>1, <1>3, LeastIsIn
  <2>3. m \in 1 .. Len(p) /\ p[m] = Bad /\ Good(p) = m - 1
    BY <2>1, <2>2
  <2>4. ASSUME NEW j \in 1 .. m - 1 PROVE p[j] # Bad
    <3>1. j \in 1 .. Len(p) /\ ~(m <= j)
      BY <1>1, <2>3
    <3>2. QED
      BY <2>2, <3>1
  <2>5. QED
    BY <1>1, <2>3, <2>4
<1>4. QED
  BY <1>2, <1>3

LEMMA GoodWhen ==
    ASSUME NEW S, NEW p \in Seq(S), NEW n \in 0 .. Len(p),
           \A j \in 1 .. n : p[j] # Bad, n < Len(p) => p[n + 1] = Bad
    PROVE  Good(p) = n
<1>1. /\ Good(p) \in 0 .. Len(p) /\ Len(p) \in Nat
      /\ \A j \in 1 .. Good(p) : p[j] # Bad
      /\ Good(p) < Len(p) => p[Good(p) + 1] = Bad
  BY GoodIs
<1>2. CASE Good(p) < n
  BY <1>1, <1>2
<1>3. CASE n < Good(p)
  BY <1>1, <1>3
<1>4. QED
  BY <1>1, <1>2, <1>3

LEMMA GoodOfAppend ==
    ASSUME NEW S, NEW p \in Seq(S), NEW x \in S
    PROVE  Good(Append(p, x)) = IF Good(p) < Len(p) THEN Good(p)
                                ELSE IF x = Bad THEN Len(p) ELSE Len(p) + 1
<1> DEFINE q == Append(p, x)
           n == IF Good(p) < Len(p) THEN Good(p) ELSE IF x = Bad THEN Len(p) ELSE Len(p) + 1
<1>1. /\ q \in Seq(S) /\ Len(q) = Len(p) + 1 /\ Len(p) \in Nat
      /\ \A j \in 1 .. Len(p) : q[j] = p[j]
      /\ q[Len(p) + 1] = x
  OBVIOUS
<1>2. /\ Good(p) \in 0 .. Len(p)
      /\ \A j \in 1 .. Good(p) : p[j] # Bad
      /\ Good(p) < Len(p) => p[Good(p) + 1] = Bad
  BY GoodIs
<1> HIDE DEF q
<1>3. n \in 0 .. Len(q) /\ (n < Len(q) => q[n + 1] = Bad)
  BY <1>1, <1>2
<1>4. ASSUME NEW j \in 1 .. n PROVE q[j] # Bad
  <2>1. CASE j \in 1 .. Good(p)
    BY <1>1, <1>2, <2>1
  <2>2. CASE j \notin 1 .. Good(p)
    BY <1>1, <1>2, <2>2
  <2>3. QED
    BY <2>1, <2>2
<1>5. Good(q) = n
  <2>1. q \in Seq(S) /\ n \in 0 .. Len(q) /\ (n < Len(q) => q[n + 1] = Bad) /\ \A j \in 1 .. n : q[j] # Bad
    BY <1>1, <1>3, <1>4
  <2> HIDE DEF n
  <2>2. QED
    BY <2>1, GoodWhen
<1>6. QED
  BY <1>5 DEF q

(* Pieces and the commands they belong to.                                   *)
LEMMA Division ==
    ASSUME NEW n \in Nat
    PROVE  /\ n \div Pieces \in Nat /\ n % Pieces \in 0 .. Pieces - 1
           /\ n = Pieces * (n \div Pieces) + (n % Pieces)
<1>1. Pieces \in Nat \ {0}
  BY ClientAssumption
<1>2. n \div Pieces \in Nat
  BY <1>1
<1>3. n % Pieces \in 0 .. Pieces - 1
  BY <1>1
<1>4. n = Pieces * (n \div Pieces) + (n % Pieces)
  BY <1>1
<1>5. QED
  BY <1>2, <1>3, <1>4

LEMMA Order ==
    ASSUME NEW a \in Int, NEW b \in Int, a < b
    PROVE  Pieces * a + Pieces <= Pieces * b
<1>1. Pieces \in Nat \ {0}
  BY ClientAssumption
<1>2. b - a - 1 \in Nat
  OBVIOUS
<1>3. Pieces * (b - a - 1) >= 0
  BY <1>1, <1>2
<1>4. Pieces * (b - a - 1) = Pieces * b - Pieces * a - Pieces
  BY <1>1
<1>5. Pieces * a \in Int /\ Pieces * b \in Int
  BY <1>1
<1>6. QED
  BY <1>1, <1>3, <1>4, <1>5

(* A part of a pipeline.                                                     *)
LEMMA SomeCommands ==
    ASSUME NEW s \in [1 .. Pipeline -> Queries], NEW m \in 0 .. Pipeline, NEW n \in m .. Pipeline
    PROVE  /\ SubSeq(s, m + 1, n) \in Seq(Queries) /\ Len(SubSeq(s, m + 1, n)) = n - m
           /\ \A i \in 1 .. n - m : SubSeq(s, m + 1, n)[i] = s[m + i]
<1>1. Pipeline \in Nat
  BY ClientAssumption
<1>2. m \in Int /\ n \in Int /\ m + 1 \in Int /\ m <= n
  BY <1>1
<1>3. \A i \in m + 1 .. n : s[i] \in Queries
  BY <1>1
<1>4. /\ SubSeq(s, m + 1, n) \in Seq(Queries)
      /\ Len(SubSeq(s, m + 1, n)) = IF m + 1 <= n THEN n - (m + 1) + 1 ELSE 0
      /\ \A i \in 1 .. n - (m + 1) + 1 : SubSeq(s, m + 1, n)[i] = s[(m + 1) + i - 1]
  BY <1>2, <1>3, SubSeqProperties, Z3
<1>5. Len(SubSeq(s, m + 1, n)) = n - m
  BY <1>2, <1>4
<1>6. ASSUME NEW i \in 1 .. n - m PROVE SubSeq(s, m + 1, n)[i] = s[m + i]
  <2>1. i \in 1 .. n - (m + 1) + 1 /\ (m + 1) + i - 1 = m + i
    BY <1>2
  <2>2. QED
    BY <1>4, <2>1
<1>7. QED
  BY <1>4, <1>5, <1>6

LEMMA DivisionIsMonotone ==
    ASSUME NEW a \in Nat, NEW b \in Nat, a <= b
    PROVE  a \div Pieces <= b \div Pieces
<1> DEFINE m == a \div Pieces
           n == b \div Pieces
<1>1. Pieces \in Nat \ {0}
  BY ClientAssumption
<1>2. m \in Nat /\ a % Pieces \in 0 .. Pieces - 1 /\ a = Pieces * m + (a % Pieces)
  BY Division
<1>3. n \in Nat /\ b % Pieces \in 0 .. Pieces - 1 /\ b = Pieces * n + (b % Pieces)
  BY Division
<1> HIDE DEF m, n
<1>4. Pieces * m \in Nat /\ Pieces * n \in Nat
  BY <1>1, <1>2, <1>3
<1>5. ASSUME n < m PROVE Pieces * n + Pieces <= Pieces * m
  BY <1>2, <1>3, <1>5, Order
<1>6. ~(n < m)
  BY <1>1, <1>2, <1>3, <1>4, <1>5
<1>7. m <= n
  BY <1>2, <1>3, <1>6
<1>8. QED
  BY <1>7 DEF m, n

LEMMA SamePiece ==
    ASSUME NEW a \in Nat, NEW b \in Nat, NEW r \in 1 .. Pieces, NEW s \in 1 .. Pieces,
           Pieces * a + r = Pieces * b + s
    PROVE  a = b /\ r = s
<1>1. Pieces \in Nat \ {0}
  BY ClientAssumption
<1>2. Pieces * a \in Nat /\ Pieces * b \in Nat
  BY <1>1
<1>3. ~(a < b)
  BY <1>1, <1>2, Order
<1>4. ~(b < a)
  BY <1>1, <1>2, Order
<1>5. QED
  BY <1>1, <1>2, <1>3, <1>4

-----------------------------------------------------------------------------
(* A connection that is open and whose replies parse is in step.             *)

Sent == written \div Pieces     \* the commands that the socket took whole
Stream == readBuf \o socket     \* what has arrived and is not parsed

(* Every piece up to the first that does not parse is of the reply to the    *)
(* command in its place, the replies parsed before counted in.               *)
AsAsked ==
    \A i \in 1 .. Good(Stream), k \in 0 .. Pipeline, r \in 1 .. Pieces :
        i = Pieces * k + r =>
            Len(responses) + k < Pipeline /\ Stream[i] = writeBuf[Len(responses) + k + 1]

(* Nothing is missing: what has arrived ends where the server goes on.       *)
Complete ==
    IF Good(Stream) = Len(Stream)
    THEN Pieces * Len(responses) + Len(Stream) = Pieces * (Sent - Len(received)) + answered
    ELSE \E k \in 0 .. Pipeline : Good(Stream) = Pieces * k /\ Len(responses) + k < Pipeline

ServerHas ==
    /\ Len(received) <= Sent /\ (answered > 0 => received # <<>>)
    /\ \A i \in 1 .. Len(received) : received[i] = writeBuf[Sent - Len(received) + i]

UnderWay ==
    /\ asked = writeBuf
    /\ Len(responses) < Pipeline
    /\ \A i \in 1 .. Len(responses) : responses[i] = writeBuf[i]
    /\ ServerHas /\ Complete /\ AsAsked

InStep ==
    IF state = "Idle" THEN asked = <<>> /\ received = <<>> /\ socket = <<>> /\ answered = 0
    ELSE UnderWay

ClientTypes ==
    /\ state \in {"Idle", "Writing", "Reading"}
    /\ state # "Idle" => writeBuf \in [1 .. Pipeline -> Queries]
    /\ written \in 0 .. Size
    /\ readBuf \in Seq(Queries \cup {Bad}) /\ socket \in Seq(Queries \cup {Bad})
    /\ responses \in Seq(Queries) /\ received \in Seq(Queries)
    /\ answered \in 0 .. Pieces - 1
    /\ open \in BOOLEAN /\ garbled \in BOOLEAN

CInv == ClientTypes /\ (open /\ ~garbled => InStep) /\ RecallIsOfItsQueries

LEMMA Bounds ==
    ASSUME ClientTypes
    PROVE  /\ Pieces \in Nat \ {0} /\ Pipeline \in Nat \ {0} /\ Size = Pieces * Pipeline /\ Size \in Nat
           /\ Sent \in 0 .. Pipeline
           /\ Stream \in Seq(Queries \cup {Bad}) /\ Len(Stream) = Len(readBuf) + Len(socket)
           /\ Len(responses) \in Nat /\ Len(received) \in Nat /\ Len(Stream) \in Nat
           /\ Bad \notin Queries
<1>1. Pieces \in Nat \ {0} /\ Pipeline \in Nat \ {0} /\ Bad \notin Queries
  BY ClientAssumption DEF Bad
<1>2. Size = Pieces * Pipeline /\ Size \in Nat
  BY <1>1 DEF Size
<1>3. written \in Nat /\ written <= Pieces * Pipeline
  BY <1>2 DEF ClientTypes
<1>4. Sent \in Nat /\ Pieces * Sent <= written
  <2>1. /\ Sent \in Nat /\ written % Pieces \in 0 .. Pieces - 1
        /\ written = Pieces * Sent + (written % Pieces)
    BY <1>3, Division DEF Sent
  <2>2. Pieces * Sent \in Nat
    BY <1>1, <2>1
  <2>3. QED
    BY <1>1, <1>3, <2>1, <2>2
<1>5. Sent <= Pipeline
  <2>1. CASE Pipeline < Sent
    <3>1. Pieces * Pipeline + Pieces <= Pieces * Sent
      BY <1>1, <1>4, <2>1, Order
    <3>2. Pieces * Pipeline \in Nat /\ Pieces * Sent \in Nat
      BY <1>1, <1>4
    <3>3. QED
      BY <1>1, <1>3, <1>4, <3>1, <3>2
  <2>2. QED
    BY <1>1, <1>4, <2>1
<1>6. Stream \in Seq(Queries \cup {Bad}) /\ Len(Stream) = Len(readBuf) + Len(socket)
  BY DEF Stream, ClientTypes
<1>7. QED
  BY <1>1, <1>2, <1>4, <1>5, <1>6 DEF ClientTypes

LEMMA RecallKept ==
    ASSUME RecallIsOfItsQueries, UNCHANGED <<recorded, processed, recall, due>>, garbled => garbled'
    PROVE  RecallIsOfItsQueries'
BY DEF RecallIsOfItsQueries

LEMMA GoodOfNothing == Good(<<>>) = 0
<1>1. <<>> \in Seq({Bad}) /\ Len(<<>>) = 0
  OBVIOUS
<1>2. Good(<<>>) \in 0 .. Len(<<>>)
  BY <1>1, GoodIs
<1>3. QED
  BY <1>1, <1>2

LEMMA InitCInv ==
    ASSUME Init
    PROVE  CInv
<1>1. Pieces \in Nat \ {0} /\ Pipeline \in Nat \ {0}
  BY ClientAssumption
<1>2. Size \in Nat
  BY <1>1 DEF Size
<1>3. ClientTypes
  <2>1. <<>> \in Seq(Queries) /\ <<>> \in Seq(Queries \cup {Bad})
    OBVIOUS
  <2>2. 0 \in 0 .. Size /\ 0 \in 0 .. Pieces - 1
    BY <1>1, <1>2
  <2>3. QED
    BY <2>1, <2>2 DEF Init, ClientTypes
<1>4. QED
  BY <1>3 DEF Init, CInv, InStep, RecallIsOfItsQueries

LEMMA StartKeeps ==
    ASSUME CInv, Start
    PROVE  CInv'
<1>1. ClientTypes'
  BY Bounds DEF CInv, ClientTypes, Start, serverVars, Size
<1>2. RecallIsOfItsQueries'
  BY RecallKept DEF CInv, Start
<1>3. ASSUME open, ~garbled PROVE UnderWay'
  <2>1. asked = <<>> /\ received = <<>> /\ socket = <<>> /\ answered = 0
    BY <1>3 DEF CInv, InStep, Start
  <2>2. PICK q \in [1 .. Pipeline -> Queries] : writeBuf' = q /\ asked' = asked \o q
    BY DEF Start
  <2>3. q \in Seq(Queries)
    BY Bounds DEF CInv
  <2>4. asked' = q
    BY <2>1, <2>2, <2>3
  <2>5. Stream' = <<>> /\ responses' = <<>> /\ received' = <<>> /\ answered' = 0 /\ written' = 0
    BY <2>1 DEF Start, Stream, serverVars
  <2>6. Len(Stream') = 0 /\ Good(Stream') = 0
    BY <2>5, GoodOfNothing
  <2>7. Sent' = 0 /\ Len(responses') = 0 /\ Len(received') = 0
    BY <2>5, Bounds DEF Sent, CInv
  <2>8. ServerHas' /\ AsAsked'
    BY <2>5, <2>6, <2>7 DEF ServerHas, AsAsked
  <2>9. Complete'
    BY <2>5, <2>6, <2>7, Bounds DEF Complete, CInv
  <2>10. QED
    BY <2>2, <2>4, <2>5, <2>7, <2>8, <2>9, Bounds DEF UnderWay, CInv
<1>4. state' = "Writing" /\ open' = open /\ garbled' = garbled
  BY DEF Start, serverVars
<1>5. QED
  BY <1>1, <1>2, <1>3, <1>4 DEF CInv, InStep

LEMMA WriteKeeps ==
    ASSUME CInv, Write
    PROVE  CInv'
<1> DEFINE more == SubSeq(writeBuf, Sent + 1, Sent')
<1>1. /\ written' \in written .. Size
      /\ received' = received \o more
      /\ state' \in {"Reading", "Writing"}
  BY DEF Write, Sent
<1>2. /\ state = "Writing" /\ open /\ open' = open /\ garbled' = garbled
      /\ UNCHANGED <<writeBuf, asked, readBuf, responses, answered, socket, countVars>>
  BY DEF Write
<1>3. /\ written \in 0 .. Size /\ Size \in Nat /\ Pieces \in Nat \ {0} /\ Pipeline \in Nat
      /\ Size = Pieces * Pipeline /\ writeBuf \in [1 .. Pipeline -> Queries]
      /\ received \in Seq(Queries) /\ Len(received) \in Nat /\ Sent \in 0 .. Pipeline
  BY <1>2, Bounds DEF CInv, ClientTypes
<1>4. written' \in 0 .. Size /\ written' \in Nat /\ written <= written'
  BY <1>1, <1>3
<1>5. Sent' \in 0 .. Pipeline /\ Sent <= Sent'
  <2>1. written' \in Nat /\ written \in Nat /\ written <= written'
    BY <1>3, <1>4
  <2>2. Sent <= Sent'
    BY <2>1, DivisionIsMonotone DEF Sent
  <2>3. Sent' <= Size \div Pieces
    <3>1. written' <= Size /\ Size \in Nat
      BY <1>3, <1>4
    <3>2. QED
      BY <2>1, <3>1, DivisionIsMonotone DEF Sent
  <2>4. Size \div Pieces = Pipeline
    BY <1>3, Z3
  <2>5. Sent' \in Nat
    BY <2>1, Division DEF Sent
  <2>6. QED
    BY <1>3, <2>2, <2>3, <2>4, <2>5
<1>6. /\ more \in Seq(Queries) /\ Len(more) = Sent' - Sent
      /\ \A i \in 1 .. Sent' - Sent : more[i] = writeBuf[Sent + i]
  <2>1. Sent \in 0 .. Pipeline /\ Sent' \in Sent .. Pipeline
    BY <1>3, <1>5
  <2>2. QED
    BY <1>3, <2>1, SomeCommands
<1> HIDE DEF more
<1>7. /\ received' \in Seq(Queries) /\ Len(received') = Len(received) + (Sent' - Sent)
      /\ \A i \in 1 .. Len(received) : received'[i] = received[i]
      /\ \A i \in Len(received) + 1 .. Len(received') : received'[i] = more[i - Len(received)]
  BY <1>1, <1>3, <1>5, <1>6
<1>8. ClientTypes'
  BY <1>1, <1>2, <1>4, <1>7 DEF CInv, ClientTypes, Size
<1>9. RecallIsOfItsQueries'
  BY <1>2, RecallKept DEF CInv, countVars
<1>10. ASSUME ~garbled PROVE UnderWay'
  <2>1. UnderWay
    BY <1>2, <1>10 DEF CInv, InStep
  <2>2. Sent' - Len(received') = Sent - Len(received)
    BY <1>3, <1>5, <1>7
  <2>3. Stream' = Stream
    BY <1>2 DEF Stream
  <2>4. ServerHas'
    <3>1. Len(received') <= Sent'
      BY <1>3, <1>5, <1>7, <2>1 DEF UnderWay, ServerHas
    <3>2. answered > 0 => received' # <<>>
      <4>1. answered > 0 => Len(received) > 0
        BY <1>3, <2>1 DEF UnderWay, ServerHas
      <4>2. QED
        BY <1>3, <1>5, <1>7, <4>1
    <3>3. ASSUME NEW i \in 1 .. Len(received') PROVE received'[i] = writeBuf[Sent - Len(received) + i]
      <4>1. CASE i <= Len(received)
        BY <1>3, <1>7, <2>1, <4>1 DEF UnderWay, ServerHas
      <4>2. CASE Len(received) < i
        <5>1. i - Len(received) \in 1 .. Sent' - Sent
          BY <1>3, <1>5, <1>7, <4>2
        <5>2. received'[i] = writeBuf[Sent + (i - Len(received))]
          BY <1>3, <1>6, <1>7, <4>2, <5>1
        <5>3. QED
          BY <1>3, <5>2
      <4>3. QED
        BY <1>3, <1>7, <4>1, <4>2
    <3>4. QED
      BY <1>2, <2>2, <3>1, <3>2, <3>3 DEF ServerHas
  <2>5. Complete' /\ AsAsked'
    BY <1>2, <2>1, <2>2, <2>3 DEF UnderWay, Complete, AsAsked
  <2>6. QED
    BY <1>2, <2>1, <2>4, <2>5 DEF UnderWay
<1>11. QED
  BY <1>1, <1>2, <1>8, <1>9, <1>10 DEF CInv, InStep

(* What fails, or happens to a connection that is closed or out of step, is   *)
(* not scored.                                                               *)
LEMMA FailKeeps ==
    ASSUME CInv, WriteInVain \/ WriteFails \/ ReadFails
    PROVE  CInv'
<1>1. ~open /\ open' = open /\ garbled' = garbled /\ UNCHANGED <<recorded, processed, recall, due>>
  BY DEF WriteInVain, WriteFails, ReadFails, Fail, serverVars, countVars
<1>2. RecallIsOfItsQueries'
  BY <1>1, RecallKept DEF CInv
<1>3. Size \in 0 .. Size
  BY Bounds DEF CInv
<1>4. ClientTypes'
  BY <1>3 DEF CInv, ClientTypes, Size, WriteInVain, WriteFails, ReadFails, Fail, serverVars, bufferVars, countVars
<1>5. QED
  BY <1>1, <1>2, <1>4 DEF CInv

LEMMA OutOfStepKeeps ==
    ASSUME CInv, ReadOutOfStep
    PROVE  CInv'
<1>1. garbled /\ garbled' /\ state = "Reading"
  BY DEF ReadOutOfStep
<1>2. RecallIsOfItsQueries'
  BY <1>1 DEF RecallIsOfItsQueries
<1>3. /\ readBuf' = <<>> /\ socket' = <<>>
      /\ UNCHANGED <<writeBuf, written, received, answered, open, garbled>>
  BY DEF ReadOutOfStep
<1>4. state' \in {"Idle", state} /\ responses' \in Seq(Queries)
  <2>1. CASE \E replies \in [1 .. Pipeline -> Queries] : Count(replies, <<>>)
    <3>1. PICK replies \in [1 .. Pipeline -> Queries] : Count(replies, <<>>)
      BY <2>1
    <3>2. replies \in Seq(Queries)
      BY Bounds DEF CInv
    <3>3. QED
      BY <3>1, <3>2 DEF Count
  <2>2. CASE Fail /\ UNCHANGED <<asked, responses>>
    BY <2>2 DEF Fail, CInv, ClientTypes
  <2>3. CASE Wait(responses)
    BY <2>3 DEF Wait, CInv, ClientTypes
  <2>4. QED
    BY <2>1, <2>2, <2>3 DEF ReadOutOfStep
<1>5. ClientTypes'
  <2>1. <<>> \in Seq(Queries \cup {Bad})
    OBVIOUS
  <2>2. QED
    BY <1>1, <1>3, <1>4, <2>1 DEF CInv, ClientTypes, Size
<1>6. QED
  BY <1>1, <1>2, <1>5 DEF CInv

LEMMA CloseKeeps ==
    ASSUME CInv, Close
    PROVE  CInv'
<1>1. ~open' /\ garbled' = garbled /\ UNCHANGED <<recorded, processed, recall, due>>
  BY DEF Close, countVars
<1>2. RecallIsOfItsQueries'
  BY <1>1, RecallKept DEF CInv
<1>3. ClientTypes'
  <2>1. /\ <<>> \in Seq(Queries \cup {Bad}) /\ <<>> \in Seq(Queries)
        /\ 0 \in 0 .. Pieces - 1
    BY Bounds DEF CInv
  <2>2. QED
    BY <2>1 DEF CInv, ClientTypes, Size, Close, bufferVars
<1>4. QED
  BY <1>1, <1>2, <1>3 DEF CInv

(* What a server sends next is of the reply to the first command it has.     *)
LEMMA ArrivalKeeps ==
    ASSUME CInv, open, ~garbled, received # <<>>, NEW x \in Queries \cup {Bad},
           socket' = Append(socket, x),
           UNCHANGED <<writeBuf, asked, readBuf, responses, written, open, garbled>>
    PROVE  /\ UnderWay /\ received[1] = writeBuf[Sent - Len(received) + 1]
           /\ Sent' = Sent /\ Stream' = Append(Stream, x) /\ Len(Stream') = Len(Stream) + 1
           /\ Good(Stream') = IF Good(Stream) < Len(Stream) THEN Good(Stream)
                              ELSE IF x = Bad THEN Len(Stream) ELSE Len(Stream) + 1
           /\ Len(received) \in 1 .. Sent /\ Good(Stream) \in 0 .. Len(Stream)
           /\ \A i \in 1 .. Len(Stream) : Stream'[i] = Stream[i]
           /\ Stream'[Len(Stream) + 1] = x
<1>1. UnderWay
  BY DEF CInv, InStep
<1>2. /\ readBuf \in Seq(Queries \cup {Bad}) /\ socket \in Seq(Queries \cup {Bad})
      /\ Stream \in Seq(Queries \cup {Bad}) /\ Len(Stream) \in Nat /\ Sent \in Nat
      /\ received \in Seq(Queries)
  BY Bounds DEF CInv, ClientTypes
<1>3. Stream' = Append(Stream, x)
  BY <1>2 DEF Stream
<1>4. Len(received) \in 1 .. Sent
  BY <1>1, <1>2 DEF UnderWay, ServerHas
<1>5. received[1] = writeBuf[Sent - Len(received) + 1]
  BY <1>1, <1>4 DEF UnderWay, ServerHas
<1>6. Good(Append(Stream, x)) = IF Good(Stream) < Len(Stream) THEN Good(Stream)
                                ELSE IF x = Bad THEN Len(Stream) ELSE Len(Stream) + 1
  BY <1>2, GoodOfAppend
<1>7. Good(Stream) \in 0 .. Len(Stream)
  BY <1>2, GoodIs
<1>8. Sent' = Sent
  BY DEF Sent
<1> DEFINE s == Stream
<1>9. /\ Len(Append(s, x)) = Len(s) + 1 /\ Append(s, x)[Len(s) + 1] = x
      /\ \A i \in 1 .. Len(s) : Append(s, x)[i] = s[i]
  BY <1>2
<1>10. QED
  BY <1>1, <1>3, <1>4, <1>5, <1>6, <1>7, <1>8, <1>9

LEMMA ReplyKeeps ==
    ASSUME CInv, Reply
    PROVE  CInv'
<1>1. /\ open /\ received # <<>> /\ socket' = Append(socket, received[1])
      /\ answered' = (answered + 1) % Pieces
      /\ received' = IF answered' = 0 THEN Tail(received) ELSE received
      /\ UNCHANGED <<state, writeBuf, written, asked, readBuf, responses, open, garbled, countVars>>
  BY DEF Reply, bufferVars
<1>2. RecallIsOfItsQueries'
  BY <1>1, RecallKept DEF CInv, countVars
<1>3. /\ Pieces \in Nat \ {0} /\ answered \in 0 .. Pieces - 1 /\ answered \in Nat
      /\ received \in Seq(Queries) /\ Len(received) \in Nat /\ Len(received) > 0
      /\ Sent \in 0 .. Pipeline /\ Pipeline \in Nat /\ Bad \notin Queries
      /\ Len(responses) \in Nat /\ Len(Stream) \in Nat
  BY <1>1, Bounds DEF CInv, ClientTypes
<1>4. answered' = IF answered + 1 = Pieces THEN 0 ELSE answered + 1
  BY <1>1, <1>3, Z3
<1>5. /\ received[1] \in Queries /\ Tail(received) \in Seq(Queries)
      /\ Len(Tail(received)) = Len(received) - 1
      /\ \A i \in 1 .. Len(received) - 1 : Tail(received)[i] = received[i + 1]
  BY <1>3
<1>6. ClientTypes'
  <2>1. answered' \in 0 .. Pieces - 1
    BY <1>3, <1>4
  <2>2. socket' \in Seq(Queries \cup {Bad}) /\ received' \in Seq(Queries)
    BY <1>1, <1>5 DEF CInv, ClientTypes
  <2>3. QED
    BY <1>1, <2>1, <2>2 DEF CInv, ClientTypes, Size
<1>7. ASSUME ~garbled PROVE UnderWay' /\ state # "Idle"
  <2> DEFINE L == Len(received)
             n == Len(Stream)
             g == Good(Stream)
             b == Len(responses)
  <2>1. /\ UnderWay /\ received[1] = writeBuf[Sent - L + 1]
        /\ Sent' = Sent /\ Len(Stream') = n + 1
        /\ Good(Stream') = IF g < n THEN g ELSE n + 1
        /\ L \in 1 .. Sent /\ g \in 0 .. n
        /\ \A i \in 1 .. n : Stream'[i] = Stream[i]
        /\ Stream'[n + 1] = received[1]
    <3>1. received[1] \in Queries \cup {Bad} /\ received[1] # Bad
      BY <1>3, <1>5
    <3>2. QED
      BY <1>1, <1>7, <3>1, ArrivalKeeps
  <2>2. ServerHas'
    <3>1. CASE answered + 1 = Pieces
      <4>1. answered' = 0 /\ received' = Tail(received) /\ Len(received') = L - 1
        BY <1>1, <1>4, <1>5, <3>1
      <4>2. ASSUME NEW i \in 1 .. L - 1 PROVE received'[i] = writeBuf[Sent - (L - 1) + i]
        <5>1. i + 1 \in 1 .. L /\ Sent - L + (i + 1) = Sent - (L - 1) + i
          BY <1>3
        <5>2. received[i + 1] = writeBuf[Sent - L + (i + 1)]
          BY <2>1, <5>1 DEF UnderWay, ServerHas
        <5>3. QED
          BY <1>5, <4>1, <5>1, <5>2
      <4>3. Len(received') <= Sent' /\ ~(answered' > 0) /\ Sent' - Len(received') = Sent - (L - 1)
        <5>1. L \in Int /\ Sent \in Int /\ L <= Sent
          BY <1>3, <2>1
        <5>2. Sent' = Sent /\ Len(received') = L - 1 /\ answered' = 0
          BY <2>1, <4>1
        <5>3. L - 1 <= Sent /\ Sent - (L - 1) = Sent - (L - 1) /\ ~(0 > 0)
          BY <5>1
        <5>4. QED
          BY <5>2, <5>3
      <4>4. \A i \in 1 .. Len(received') : received'[i] = writeBuf'[Sent' - Len(received') + i]
        BY <1>1, <4>1, <4>2, <4>3
      <4>5. QED
        BY <4>3, <4>4 DEF ServerHas
    <3>2. CASE answered + 1 # Pieces
      <4>1. received' = received /\ Len(received') = L
        BY <1>1, <1>3, <1>4, <3>2
      <4>2. QED
        BY <1>1, <2>1, <4>1 DEF UnderWay, ServerHas
    <3>3. QED
      BY <3>1, <3>2
  <2>3. g = n => Pieces * b + n = Pieces * (Sent - L) + answered
    BY <2>1 DEF UnderWay, Complete
  <2>4. Complete'
    <3>1. CASE g < n
      <4>1. PICK k \in 0 .. Pipeline : g = Pieces * k /\ b + k < Pipeline
        BY <2>1, <3>1 DEF UnderWay, Complete
      <4>2. Good(Stream') = g /\ Len(Stream') = n + 1 /\ Good(Stream') # Len(Stream')
        BY <1>3, <2>1, <3>1
      <4>3. QED
        BY <1>1, <4>1, <4>2 DEF Complete
    <3>2. CASE g = n
      <4>1. Good(Stream') = Len(Stream')
        BY <2>1, <3>2
      <4>2. Pieces * b + (n + 1) = Pieces * (Sent - Len(received')) + answered'
        <5>1. CASE answered + 1 = Pieces
          <6>1. answered' = 0 /\ Len(received') = L - 1
            BY <1>1, <1>4, <1>5, <5>1
          <6>2. Pieces * (Sent - (L - 1)) = Pieces * (Sent - L) + Pieces
            BY <1>3
          <6>3. Pieces * b \in Nat /\ Pieces * (Sent - L) \in Int
            BY <1>3
          <6>4. QED
            BY <1>3, <2>3, <3>2, <5>1, <6>1, <6>2, <6>3
        <5>2. CASE answered + 1 # Pieces
          <6>1. answered' = answered + 1 /\ Len(received') = L
            BY <1>1, <1>3, <1>4, <5>2
          <6>2. Pieces * b \in Nat /\ Pieces * (Sent - L) \in Int
            BY <1>3
          <6>3. QED
            BY <1>3, <2>3, <3>2, <6>1, <6>2
        <5>3. QED
          BY <5>1, <5>2
      <4>3. QED
        BY <1>1, <2>1, <4>1, <4>2 DEF Complete
    <3>3. QED
      BY <2>1, <3>1, <3>2
  <2>5. ASSUME NEW i \in 1 .. Good(Stream'), NEW k \in 0 .. Pipeline, NEW r \in 1 .. Pieces, i = Pieces * k + r
        PROVE  b + k < Pipeline /\ Stream'[i] = writeBuf[b + k + 1]
    <3>1. CASE i <= g
      <4>1. i \in 1 .. g /\ i \in 1 .. n
        BY <1>3, <2>1, <3>1
      <4>2. QED
        BY <2>1, <2>5, <4>1 DEF UnderWay, AsAsked
    <3>2. CASE g < i
      <4>1. g = n /\ i = n + 1
        BY <1>3, <2>1, <3>2
      <4>2. b + k \in Nat /\ Sent - L \in Nat /\ answered + 1 \in 1 .. Pieces /\ Pieces * b \in Nat
            /\ Pieces * k \in Nat /\ Pieces * (Sent - L) \in Nat
        BY <1>3, <2>1
      <4>3. Pieces * (b + k) = Pieces * b + Pieces * k
        BY <1>3
      <4>4. Pieces * (b + k) + r = Pieces * (Sent - L) + (answered + 1)
        BY <1>3, <2>3, <2>5, <4>1, <4>2, <4>3
      <4>5. b + k = Sent - L
        BY <4>2, <4>4, SamePiece
      <4>6. QED
        BY <1>3, <2>1, <4>1, <4>5
    <3>3. QED
      BY <1>3, <2>1, <3>1, <3>2
  <2>6. AsAsked'
    BY <1>1, <2>5 DEF AsAsked
  <2>7. QED
    BY <1>1, <1>3, <1>7, <2>1, <2>2, <2>4, <2>6 DEF UnderWay, CInv, InStep
<1>8. QED
  BY <1>1, <1>2, <1>6, <1>7 DEF CInv, InStep

LEMMA ReplyGarbledKeeps ==
    ASSUME CInv, ReplyGarbled
    PROVE  CInv'
<1>1. /\ open /\ received # <<>> /\ answered = 0 /\ socket' = Append(socket, Bad)
      /\ received' = Tail(received)
      /\ UNCHANGED <<state, writeBuf, written, asked, readBuf, responses, answered, open, garbled, countVars>>
  BY DEF ReplyGarbled, bufferVars
<1>2. RecallIsOfItsQueries'
  BY <1>1, RecallKept DEF CInv, countVars
<1>3. /\ Pieces \in Nat \ {0}
      /\ received \in Seq(Queries) /\ Len(received) \in Nat /\ Len(received) > 0
      /\ Sent \in 0 .. Pipeline /\ Pipeline \in Nat /\ Len(responses) \in Nat /\ Len(Stream) \in Nat
  BY <1>1, Bounds DEF CInv, ClientTypes
<1>4. /\ Tail(received) \in Seq(Queries) /\ Len(Tail(received)) = Len(received) - 1
      /\ \A i \in 1 .. Len(received) - 1 : Tail(received)[i] = received[i + 1]
  BY <1>3
<1>5. ClientTypes'
  <2>1. socket' \in Seq(Queries \cup {Bad}) /\ received' \in Seq(Queries)
    BY <1>1, <1>4 DEF CInv, ClientTypes
  <2>2. QED
    BY <1>1, <2>1 DEF CInv, ClientTypes, Size
<1>6. ASSUME ~garbled PROVE UnderWay' /\ state # "Idle"
  <2> DEFINE L == Len(received)
             n == Len(Stream)
             g == Good(Stream)
             b == Len(responses)
  <2>1. /\ UnderWay /\ Sent' = Sent /\ Len(Stream') = n + 1
        /\ Good(Stream') = IF g < n THEN g ELSE n
        /\ L \in 1 .. Sent /\ g \in 0 .. n
        /\ \A i \in 1 .. n : Stream'[i] = Stream[i]
    BY <1>1, <1>6, ArrivalKeeps
  <2>2. ServerHas'
    <3>1. Len(received') = L - 1
      BY <1>1, <1>4
    <3>2. ASSUME NEW i \in 1 .. L - 1 PROVE received'[i] = writeBuf[Sent - (L - 1) + i]
      <4>1. i + 1 \in 1 .. L /\ Sent - L + (i + 1) = Sent - (L - 1) + i
        BY <1>3
      <4>2. received[i + 1] = writeBuf[Sent - L + (i + 1)]
        BY <2>1, <4>1 DEF UnderWay, ServerHas
      <4>3. QED
        BY <1>1, <1>4, <4>1, <4>2
    <3>3. QED
      BY <1>1, <1>3, <2>1, <3>1, <3>2 DEF ServerHas
  <2>3. \E k \in 0 .. Pipeline : Good(Stream') = Pieces * k /\ b + k < Pipeline
    <3>1. CASE g < n
      BY <2>1, <3>1 DEF UnderWay, Complete
    <3>2. CASE g = n
      <4>1. Pieces * b + n = Pieces * (Sent - L)
        BY <1>1, <1>3, <2>1, <3>2 DEF UnderWay, Complete
      <4>2. Pieces * (Sent - L - b) = Pieces * (Sent - L) - Pieces * b
        BY <1>3
      <4>3. Pieces * b \in Nat /\ Pieces * (Sent - L) \in Int
        BY <1>3
      <4>4. n = Pieces * (Sent - L - b)
        BY <1>3, <4>1, <4>2, <4>3
      <4>5. Sent - L - b >= 0
        <5>1. ASSUME Sent - L - b < 0 PROVE FALSE
          <6>1. Sent - L - b \in Int /\ Pieces * (Sent - L - b) + Pieces <= Pieces * 0
            BY <1>3, <5>1, Order
          <6>2. QED
            BY <1>3, <4>4, <6>1
        <5>2. QED
          BY <1>3, <5>1
      <4>6. Sent - L - b \in 0 .. Pipeline /\ b + (Sent - L - b) < Pipeline
        BY <1>3, <2>1, <4>5
      <4>7. QED
        BY <2>1, <3>2, <4>4, <4>6
    <3>3. QED
      BY <2>1, <3>1, <3>2
  <2>4. Complete'
    <3>1. Good(Stream') # Len(Stream')
      BY <1>3, <2>1
    <3>2. QED
      BY <1>1, <2>3, <3>1 DEF Complete
  <2>5. Good(Stream') = g
    BY <1>3, <2>1
  <2>6. AsAsked'
    <3>1. ASSUME NEW i \in 1 .. g, NEW k \in 0 .. Pipeline, NEW r \in 1 .. Pieces, i = Pieces * k + r
          PROVE  b + k < Pipeline /\ Stream'[i] = writeBuf[b + k + 1]
      <4>1. b + k < Pipeline /\ Stream[i] = writeBuf[b + k + 1]
        BY <2>1, <3>1 DEF AsAsked, UnderWay
      <4>2. i \in 1 .. n
        BY <1>3, <2>1
      <4>3. QED
        BY <2>1, <4>1, <4>2
    <3>2. QED
      BY <1>1, <2>5, <3>1 DEF AsAsked
  <2>7. QED
    BY <1>1, <1>3, <1>6, <2>1, <2>2, <2>4, <2>6 DEF UnderWay, CInv, InStep
<1>7. QED
  BY <1>1, <1>2, <1>5, <1>6 DEF CInv, InStep

-----------------------------------------------------------------------------
(* What a read makes of the pieces that have arrived.                        *)

Taken == Whole(Stream)
Rest == SubSeq(Stream, Taken * Pieces + 1, Len(Stream))
Replies == responses \o [i \in 1 .. Taken |-> Stream[i * Pieces]]
BadNext == Len(Replies) < Pipeline /\ Rest # <<>> /\ Rest[1] = Bad

LEMMA ReadIs ==
    ASSUME Read
    PROVE  /\ state = "Reading" /\ open /\ ~garbled /\ socket' = <<>>
           /\ readBuf' = (IF BadNext THEN Stream ELSE Rest)
           /\ garbled' = BadNext
           /\ IF Len(Replies) = Pipeline THEN Count(Replies, <<>>)
              ELSE IF BadNext THEN Fail /\ responses' = Replies /\ UNCHANGED asked
              ELSE Wait(Replies)
           /\ UNCHANGED <<writeBuf, written, received, answered, open>>
BY DEF Read, ReadAs, Stream, Taken, Rest, Replies, BadNext

(* As many replies are taken as are whole, and no more than are asked for.   *)
LEMMA TakenIs ==
    ASSUME ClientTypes, UnderWay
    PROVE  /\ Taken \in 0 .. Pipeline - Len(responses)
           /\ Good(Stream) \in 0 .. Len(Stream)
           /\ Pieces * Taken \in 0 .. Good(Stream)
           /\ Len(responses) + Taken < Pipeline => Good(Stream) < Pieces * Taken + Pieces
<1> DEFINE g == Good(Stream)
           m == g \div Pieces
           left == Pipeline - Len(responses)
<1>1. /\ Pieces \in Nat \ {0} /\ Pipeline \in Nat /\ Len(responses) \in Nat /\ Len(responses) < Pipeline
      /\ Stream \in Seq(Queries \cup {Bad}) /\ Len(Stream) \in Nat
  BY Bounds DEF UnderWay
<1>2. g \in 0 .. Len(Stream)
  BY <1>1, GoodIs
<1>3. /\ m \in Nat /\ g % Pieces \in 0 .. Pieces - 1
      /\ g = Pieces * m + (g % Pieces)
  <2>1. g \in Nat
    BY <1>1, <1>2
  <2> HIDE DEF g
  <2>2. QED
    BY <2>1, Division
<1>4. left \in Nat
  BY <1>1
<1>5. Taken = Min({m, left})
  BY DEF Taken, Whole
<1> HIDE DEF g, m, left
<1>6. /\ Taken \in {m, left} /\ Taken <= m /\ Taken <= left
  <2>1. {m, left} \in SUBSET Nat /\ {m, left} # {}
    BY <1>3, <1>4
  <2>2. QED
    BY <1>5, <2>1, LeastIsIn
<1>7. Taken \in Nat /\ Pieces * Taken \in Nat /\ Pieces * m \in Nat
  BY <1>1, <1>3, <1>4, <1>6
<1>8. Pieces * Taken <= Pieces * m
  <2>1. CASE Taken = m
    BY <1>7, <2>1
  <2>2. CASE Taken < m
    <3>1. Pieces * Taken + Pieces <= Pieces * m
      BY <1>3, <1>7, <2>2, Order
    <3>2. QED
      BY <1>1, <1>7, <3>1
  <2>3. QED
    BY <1>3, <1>6, <1>7, <2>1, <2>2
<1>9. Pieces * Taken \in 0 .. g
  BY <1>1, <1>2, <1>3, <1>7, <1>8
<1>10. Len(responses) + Taken < Pipeline => g < Pieces * Taken + Pieces
  <2>1. SUFFICES ASSUME Len(responses) + Taken < Pipeline PROVE g < Pieces * Taken + Pieces
    OBVIOUS
  <2>2. Taken # left
    BY <1>1, <1>7, <2>1 DEF left
  <2>3. Taken = m
    BY <1>6, <2>2
  <2>4. QED
    BY <1>1, <1>3, <1>7, <2>3
<1>11. QED
  BY <1>2, <1>4, <1>6, <1>7, <1>9, <1>10 DEF g, left

(* What is left after them.                                                  *)
LEMMA RestIs ==
    ASSUME ClientTypes, UnderWay
    PROVE  /\ Rest \in Seq(Queries \cup {Bad})
           /\ Len(Rest) = Len(Stream) - Pieces * Taken
           /\ \A i \in 1 .. Len(Stream) - Pieces * Taken : Rest[i] = Stream[Pieces * Taken + i]
<1> DEFINE n == Len(Stream)
           d == Taken * Pieces
<1>1. /\ Pieces \in Nat /\ Pipeline \in Nat /\ Len(responses) \in Nat
      /\ Stream \in Seq(Queries \cup {Bad}) /\ n \in Nat
  BY Bounds
<1>2. Taken \in Nat /\ Pieces * Taken \in 0 .. n
  BY <1>1, TakenIs
<1>3. d = Pieces * Taken /\ d \in 0 .. n
  BY <1>1, <1>2
<1> HIDE DEF n, d
<1>4. d + 1 \in Int /\ n \in Int
  BY <1>1, <1>3
<1>5. \A i \in d + 1 .. n : Stream[i] \in Queries \cup {Bad}
  BY <1>1, <1>3 DEF n
<1>6. /\ SubSeq(Stream, d + 1, n) \in Seq(Queries \cup {Bad})
      /\ Len(SubSeq(Stream, d + 1, n)) = IF d + 1 <= n THEN n - (d + 1) + 1 ELSE 0
      /\ \A i \in 1 .. n - (d + 1) + 1 : SubSeq(Stream, d + 1, n)[i] = Stream[(d + 1) + i - 1]
  BY <1>4, <1>5, SubSeqProperties, Z3
<1>7. Rest = SubSeq(Stream, d + 1, n)
  BY DEF Rest, d, n
<1>8. Len(Rest) = n - d
  BY <1>1, <1>3, <1>6, <1>7
<1>9. ASSUME NEW i \in 1 .. n - d PROVE Rest[i] = Stream[d + i]
  <2>1. i \in 1 .. n - (d + 1) + 1 /\ (d + 1) + i - 1 = d + i
    BY <1>1, <1>3
  <2>2. QED
    BY <1>6, <1>7, <2>1
<1>10. QED
  BY <1>3, <1>6, <1>7, <1>8, <1>9 DEF n

(* The replies taken are those to the next commands.                         *)
LEMMA RepliesAre ==
    ASSUME ClientTypes, UnderWay, state # "Idle"
    PROVE  /\ Replies \in Seq(Queries)
           /\ Len(Replies) = Len(responses) + Taken
           /\ \A i \in 1 .. Len(responses) + Taken : Replies[i] = writeBuf[i]
<1> DEFINE b == Len(responses)
           t == Taken
           new == [i \in 1 .. t |-> Stream[i * Pieces]]
<1>1. /\ Pieces \in Nat \ {0} /\ Pipeline \in Nat /\ b \in Nat /\ b < Pipeline
      /\ responses \in Seq(Queries) /\ writeBuf \in [1 .. Pipeline -> Queries]
  BY Bounds DEF ClientTypes, UnderWay
<1>2. t \in 0 .. Pipeline - b /\ t \in Nat /\ Pieces * t \in 0 .. Good(Stream) /\ Good(Stream) \in Nat
  BY <1>1, TakenIs
<1>3. ASSUME NEW i \in 1 .. t PROVE Stream[i * Pieces] = writeBuf[b + i] /\ b + i \in 1 .. Pipeline
  <2> DEFINE k == i - 1
  <2>1. i \in Int /\ k \in 0 .. Pipeline /\ Pieces * k \in Nat /\ Pieces \in 1 .. Pieces
    BY <1>1, <1>2
  <2>2. i * Pieces = Pieces * k + Pieces
    BY <1>1, <2>1
  <2>3. k < t
    BY <1>2
  <2>4. Pieces * k + Pieces <= Pieces * t
    BY <1>2, <2>1, <2>3, Order
  <2>5. i * Pieces \in 1 .. Good(Stream)
    BY <1>1, <1>2, <2>1, <2>2, <2>4
  <2>6. Stream[i * Pieces] = writeBuf[b + k + 1]
    BY <2>1, <2>2, <2>5 DEF UnderWay, AsAsked
  <2>7. b + k + 1 = b + i /\ b + i \in 1 .. Pipeline
    BY <1>1, <1>2, <2>1
  <2>8. QED
    BY <2>6, <2>7
<1>4. new \in Seq(Queries) /\ Len(new) = t
  <2>1. \A i \in 1 .. t : Stream[i * Pieces] \in Queries
    BY <1>1, <1>3
  <2>2. QED
    BY <1>2, <2>1
<1>5. \A i \in 1 .. t : new[i] = writeBuf[b + i]
  BY <1>3
<1> HIDE DEF new
<1>6. /\ responses \o new \in Seq(Queries) /\ Len(responses \o new) = b + t
      /\ \A i \in 1 .. b : (responses \o new)[i] = responses[i]
      /\ \A i \in b + 1 .. b + t : (responses \o new)[i] = new[i - b]
  BY <1>1, <1>2, <1>4, SMTT(30)
<1>7. Replies = responses \o new
  BY DEF Replies, new
<1>8. ASSUME NEW i \in 1 .. b + t PROVE Replies[i] = writeBuf[i]
  <2>1. CASE i <= b
    <3>1. i \in 1 .. b
      BY <1>1, <2>1
    <3>2. QED
      BY <1>6, <1>7, <3>1 DEF UnderWay
  <2>2. CASE b < i
    <3>1. i \in b + 1 .. b + t /\ i - b \in 1 .. t /\ b + (i - b) = i
      BY <1>1, <1>2, <2>2
    <3>2. Replies[i] = new[i - b] /\ new[i - b] = writeBuf[b + (i - b)]
      BY <1>5, <1>6, <1>7, <3>1
    <3>3. QED
      BY <3>1, <3>2
  <2>3. QED
    BY <1>1, <1>2, <2>1, <2>2
<1>9. QED
  BY <1>6, <1>7, <1>8

(* With the last reply nothing is left to come.                              *)
LEMMA LastReply ==
    ASSUME ClientTypes, UnderWay, Len(responses) + Taken = Pipeline
    PROVE  Rest = <<>> /\ received = <<>> /\ answered = 0
<1> DEFINE b == Len(responses)
           t == Taken
           n == Len(Stream)
           g == Good(Stream)
           L == Len(received)
<1>1. /\ Pieces \in Nat \ {0} /\ Pipeline \in Nat /\ b \in Nat /\ n \in Nat /\ L \in Nat
      /\ Sent \in 0 .. Pipeline /\ Sent \in Nat /\ answered \in 0 .. Pieces - 1 /\ received \in Seq(Queries)
  BY Bounds DEF ClientTypes
<1>2. t \in Nat /\ Pieces * t \in 0 .. g /\ g \in 0 .. n /\ b + t = Pipeline
  BY <1>1, TakenIs
<1>3. L <= Sent /\ (answered > 0 => received # <<>>)
  BY DEF UnderWay, ServerHas
<1>4. g = n
  <2>1. ASSUME NEW k \in 0 .. Pipeline, g = Pieces * k, b + k < Pipeline PROVE FALSE
    <3>1. k \in Int /\ t \in Int /\ k < t
      BY <1>1, <1>2, <2>1
    <3>2. Pieces * k + Pieces <= Pieces * t
      BY <3>1, Order
    <3>3. Pieces * k \in Int /\ Pieces * t \in Int
      BY <1>1, <3>1
    <3>4. QED
      BY <1>1, <1>2, <2>1, <3>2, <3>3
  <2>2. QED
    BY <2>1 DEF UnderWay, Complete
<1>5. Pieces * b + n = Pieces * (Sent - L) + answered
  BY <1>4 DEF UnderWay, Complete
<1> HIDE DEF b, t, n, g, L
<1>6. Pieces * Pipeline = Pieces * b + Pieces * t
  <2>1. Pieces * (b + t) = Pieces * b + Pieces * t
    BY <1>1, <1>2
  <2>2. QED
    BY <1>2, <2>1
<1>7. Sent - L \in Int /\ Pieces * b \in Int /\ Pieces * t \in Int /\ Pieces * (Sent - L) \in Int
  BY <1>1, <1>2
<1>8. ~(Sent - L < Pipeline)
  <2>1. ASSUME Sent - L < Pipeline PROVE FALSE
    <3>1. Pieces * (Sent - L) + Pieces <= Pieces * Pipeline
      BY <1>1, <1>7, <2>1, Order
    <3>2. QED
      BY <1>1, <1>2, <1>4, <1>5, <1>6, <1>7, <3>1
  <2>2. QED
    BY <2>1
<1>9. L = 0 /\ Sent = Pipeline
  BY <1>1, <1>8
<1>10. received = <<>> /\ answered = 0
  BY <1>1, <1>3, <1>9 DEF L
<1>11. Pieces * t = n
  <2>1. Pieces * (Sent - L) = Pieces * Pipeline
    BY <1>1, <1>9
  <2>2. QED
    BY <1>1, <1>5, <1>6, <1>7, <1>10, <2>1
<1>12. Rest \in Seq(Queries \cup {Bad}) /\ Len(Rest) = n - Pieces * t
  BY RestIs DEF n, t
<1>13. Rest = <<>>
  <2>1. Len(Rest) = 0
    BY <1>1, <1>11, <1>12
  <2>2. QED
    BY <1>12, <2>1
<1>14. QED
  BY <1>10, <1>13

(* What does not parse is next when all that did has been taken.             *)
LEMMA AllGood ==
    ASSUME ClientTypes, UnderWay, Len(responses) + Taken < Pipeline, ~(Rest # <<>> /\ Rest[1] = Bad)
    PROVE  /\ Good(Stream) = Len(Stream)
           /\ Len(Rest) < Pieces /\ \A i \in 1 .. Len(Rest) : Rest[i] # Bad
<1> DEFINE b == Len(responses)
           t == Taken
           n == Len(Stream)
           g == Good(Stream)
<1>1. /\ Pieces \in Nat \ {0} /\ Pipeline \in Nat /\ b \in Nat /\ n \in Nat
      /\ Stream \in Seq(Queries \cup {Bad})
  BY Bounds
<1>2. t \in Nat /\ Pieces * t \in 0 .. g /\ g \in 0 .. n /\ g < Pieces * t + Pieces
  BY <1>1, TakenIs
<1>3. /\ Rest \in Seq(Queries \cup {Bad}) /\ Len(Rest) = n - Pieces * t
      /\ \A i \in 1 .. n - Pieces * t : Rest[i] = Stream[Pieces * t + i]
  BY RestIs
<1>4. /\ \A j \in 1 .. g : Stream[j] # Bad
      /\ g < n => Stream[g + 1] = Bad
  BY <1>1, GoodIs
<1>5. g < n => \E k \in 0 .. Pipeline : g = Pieces * k
  <2>1. g < n => g # n
    BY <1>1, <1>2
  <2>2. QED
    BY <2>1 DEF UnderWay, Complete
<1> HIDE DEF b, t, n, g
<1>6. ~(g < n)
  <2>1. ASSUME g < n PROVE FALSE
    <3>1. PICK k \in 0 .. Pipeline : g = Pieces * k
      BY <1>5, <2>1
    <3>2. k = t
      <4>1. k \in Int /\ t \in Int /\ Pieces * k \in Int /\ Pieces * t \in Int
        BY <1>1, <1>2, <3>1
      <4>2. ~(t < k)
        <5>1. t < k => Pieces * t + Pieces <= Pieces * k
          BY <4>1, Order
        <5>2. QED
          BY <1>1, <1>2, <3>1, <4>1, <5>1
      <4>3. ~(k < t)
        <5>1. k < t => Pieces * k + Pieces <= Pieces * t
          BY <4>1, Order
        <5>2. QED
          BY <1>1, <1>2, <3>1, <4>1, <5>1
      <4>4. QED
        BY <4>1, <4>2, <4>3
    <3>3. 1 \in 1 .. n - Pieces * t /\ g = Pieces * t
      BY <1>1, <1>2, <2>1, <3>1, <3>2
    <3>4. Rest[1] = Stream[Pieces * t + 1]
      BY <1>3, <3>3
    <3>5. Rest[1] = Bad
      BY <1>4, <2>1, <3>3, <3>4
    <3>6. Rest # <<>>
      <4>1. Len(Rest) > 0
        BY <1>1, <1>2, <1>3, <3>3
      <4>2. QED
        BY <4>1
    <3>7. QED
      BY <3>5, <3>6
  <2>2. QED
    BY <2>1
<1>7. g = n
  BY <1>1, <1>2, <1>6
<1>8. Len(Rest) < Pieces
  BY <1>1, <1>2, <1>3, <1>7
<1>9. ASSUME NEW i \in 1 .. Len(Rest) PROVE Rest[i] # Bad
  <2>1. i \in 1 .. n - Pieces * t
    BY <1>3
  <2>2. Pieces * t + i \in 1 .. g
    BY <1>1, <1>2, <1>7, <2>1
  <2>3. QED
    BY <1>3, <1>4, <2>1, <2>2
<1>10. QED
  BY <1>7, <1>8, <1>9 DEF g, n

LEMMA ReadKeeps ==
    ASSUME CInv, Read
    PROVE  CInv'
<1>1. /\ state = "Reading" /\ open /\ ~garbled /\ socket' = <<>>
      /\ readBuf' = (IF BadNext THEN Stream ELSE Rest)
      /\ garbled' = BadNext
      /\ UNCHANGED <<writeBuf, written, received, answered, open>>
  BY ReadIs
<1>2. ClientTypes /\ UnderWay /\ RecallIsOfItsQueries
  BY <1>1 DEF CInv, InStep
<1>3. /\ Pieces \in Nat \ {0} /\ Pipeline \in Nat /\ Len(responses) \in Nat /\ Len(responses) < Pipeline
      /\ Stream \in Seq(Queries \cup {Bad}) /\ Len(Stream) \in Nat
      /\ writeBuf \in [1 .. Pipeline -> Queries] /\ asked = writeBuf
  BY <1>1, <1>2, Bounds DEF ClientTypes, UnderWay
<1>4. /\ Replies \in Seq(Queries) /\ Len(Replies) = Len(responses) + Taken
      /\ \A i \in 1 .. Len(responses) + Taken : Replies[i] = writeBuf[i]
  BY <1>1, <1>2, RepliesAre
<1>5. Taken \in 0 .. Pipeline - Len(responses) /\ Taken \in Nat /\ Pieces * Taken \in Nat
  BY <1>2, <1>3, TakenIs
<1>6. /\ Rest \in Seq(Queries \cup {Bad}) /\ Len(Rest) = Len(Stream) - Pieces * Taken
      /\ \A i \in 1 .. Len(Stream) - Pieces * Taken : Rest[i] = Stream[Pieces * Taken + i]
  BY <1>2, RestIs
<1>7. responses' = Replies /\ state' \in {"Idle", state}
  BY ReadIs DEF Count, Fail, Wait
<1>8. ClientTypes'
  <2>1. readBuf' \in Seq(Queries \cup {Bad}) /\ socket' \in Seq(Queries \cup {Bad})
    BY <1>1, <1>3, <1>6
  <2>2. garbled' \in BOOLEAN
    BY <1>1 DEF BadNext
  <2>3. QED
    BY <1>1, <1>2, <1>4, <1>7, <2>1, <2>2 DEF ClientTypes, Size
<1>9. CASE Len(Replies) = Pipeline
  <2>1. Count(Replies, <<>>)
    BY <1>9, ReadIs
  <2>2. Rest = <<>> /\ received = <<>> /\ answered = 0
    BY <1>2, <1>4, <1>9, LastReply
  <2>3. InStep'
    BY <1>1, <2>1, <2>2 DEF InStep, Count
  <2>4. Replies = writeBuf
    BY <1>3, <1>4, <1>9
  <2>5. /\ recorded' = recorded + Pipeline /\ processed' = processed + Pipeline
        /\ recall' = recall + Sum([i \in DOMAIN writeBuf |-> RecallAtRank(writeBuf[i])])
        /\ due' = due + Sum([i \in DOMAIN writeBuf |-> RecallAtRank(writeBuf[i])])
    <3>1. /\ Len(Zip(writeBuf, writeBuf)) = Pipeline
          /\ ScoreSum(writeBuf, writeBuf) = Sum([i \in DOMAIN writeBuf |-> RecallAtRank(writeBuf[i])])
      BY <1>3, OwnReplies
    <3>2. /\ recorded' = recorded + Len(Zip(writeBuf, writeBuf))
          /\ processed' = processed + Pipeline
          /\ recall' = recall + ScoreSum(writeBuf, writeBuf)
          /\ due' = due + Sum([i \in DOMAIN writeBuf |-> RecallAtRank(writeBuf[i])])
      BY <1>3, <1>9, <2>1, <2>4 DEF Count
    <3>3. QED
      BY <3>1, <3>2
  <2>6. recorded = processed /\ recall = due
    BY <1>1, <1>2 DEF RecallIsOfItsQueries
  <2>7. RecallIsOfItsQueries'
    <3>1. recorded' = processed'
      BY <2>5, <2>6
    <3>2. recall' = due'
      BY <2>5, <2>6
    <3>3. QED
      BY <3>1, <3>2 DEF RecallIsOfItsQueries
  <2>8. QED
    BY <1>8, <2>3, <2>7 DEF CInv
<1>10. CASE Len(Replies) # Pipeline /\ BadNext
  <2>1. garbled'
    BY <1>1, <1>10
  <2>2. QED
    BY <1>8, <2>1 DEF CInv, RecallIsOfItsQueries
<1>11. CASE Len(Replies) # Pipeline /\ ~BadNext
  <2>1. Wait(Replies)
    BY <1>11, ReadIs
  <2>2. Len(responses) + Taken < Pipeline /\ Len(Replies) < Pipeline
    BY <1>3, <1>4, <1>5, <1>11
  <2>3. /\ Good(Stream) = Len(Stream)
        /\ Len(Rest) < Pieces /\ \A i \in 1 .. Len(Rest) : Rest[i] # Bad
    BY <1>2, <1>11, <2>2, AllGood DEF BadNext
  <2>4. Stream' = Rest
    BY <1>1, <1>6, <1>11 DEF Stream
  <2>5. Good(Stream') = Len(Stream') /\ Good(Stream') = Len(Rest)
    <3>1. Len(Rest) \in 0 .. Len(Rest)
      BY <1>6
    <3>2. Good(Rest) = Len(Rest)
      BY <1>6, <2>3, <3>1, GoodWhen
    <3>3. QED
      BY <2>4, <3>2
  <2>6. Sent' = Sent
    BY <1>1 DEF Sent
  <2>7. ServerHas'
    BY <1>1, <1>2, <2>6 DEF UnderWay, ServerHas
  <2>8. Complete'
    <3>1. Pieces * Len(responses) + Len(Stream) = Pieces * (Sent - Len(received)) + answered
      BY <1>2, <2>3 DEF UnderWay, Complete
    <3>2. Len(responses') = Len(responses) + Taken /\ Len(Stream') = Len(Stream) - Pieces * Taken
      BY <1>4, <1>6, <1>7, <2>4
    <3>3. Pieces * (Len(responses) + Taken) = Pieces * Len(responses) + Pieces * Taken
      BY <1>3, <1>5
    <3>4. Pieces * Len(responses) \in Nat
      BY <1>3
    <3>5. Pieces * Len(responses') + Len(Stream') = Pieces * Len(responses) + Len(Stream)
      BY <1>3, <1>5, <3>2, <3>3, <3>4
    <3>6. QED
      BY <1>1, <2>5, <2>6, <3>1, <3>5 DEF Complete
  <2>9. AsAsked'
    <3>1. ASSUME NEW i \in 1 .. Len(Rest), NEW k \in 0 .. Pipeline, NEW r \in 1 .. Pieces, i = Pieces * k + r
          PROVE  Len(Replies) + k < Pipeline /\ Rest[i] = writeBuf[Len(Replies) + k + 1]
      <4>1. k = 0 /\ i = r
        <5>1. k > 0 => Pieces * k >= Pieces
          <6>1. k > 0 => Pieces * 0 + Pieces <= Pieces * k
            BY Order
          <6>2. QED
            BY <1>3, <6>1
        <5>2. i < Pieces /\ Pieces * k \in Nat
          BY <1>3, <1>6, <2>3
        <5>3. ~(k > 0)
          BY <1>3, <3>1, <5>1, <5>2
        <5>4. k = 0
          BY <1>3, <5>3
        <5>5. QED
          BY <1>3, <3>1, <5>4
      <4>2. Pieces * Taken + i \in 1 .. Good(Stream) /\ i \in 1 .. Len(Stream) - Pieces * Taken
        BY <1>3, <1>5, <1>6, <2>3
      <4>3. Taken \in 0 .. Pipeline
        BY <1>3, <1>5
      <4>4. Stream[Pieces * Taken + i] = writeBuf[Len(responses) + Taken + 1]
        BY <1>2, <3>1, <4>1, <4>2, <4>3 DEF UnderWay, AsAsked
      <4>5. Rest[i] = writeBuf[Len(Replies) + 1]
        BY <1>4, <1>6, <4>2, <4>4
      <4>6. QED
        BY <1>3, <1>4, <1>5, <2>2, <4>1, <4>5
    <3>2. QED
      BY <1>1, <1>7, <2>4, <2>5, <3>1 DEF AsAsked
  <2>10. UnderWay'
    BY <1>1, <1>3, <1>4, <1>7, <2>1, <2>2, <2>7, <2>8, <2>9 DEF UnderWay, Wait
  <2>11. RecallIsOfItsQueries'
    <3>1. UNCHANGED <<recorded, processed, recall, due>> /\ (garbled => garbled')
      BY <1>1, <2>1 DEF Wait, countVars
    <3>2. QED
      BY <1>2, <3>1, RecallKept
  <2>12. QED
    BY <1>1, <1>8, <2>1, <2>10, <2>11 DEF CInv, InStep, Wait
<1>12. QED
  BY <1>9, <1>10, <1>11

LEMMA StutterKeeps ==
    ASSUME CInv, UNCHANGED clientVars
    PROVE  CInv'
<1>1. /\ UNCHANGED <<state, writeBuf, written, asked, readBuf, responses>>
      /\ UNCHANGED <<received, answered, socket, open, garbled>>
      /\ UNCHANGED <<recorded, processed, recall, due>>
  BY DEF clientVars, bufferVars, serverVars, countVars
<1>2. ClientTypes'
  BY <1>1 DEF CInv, ClientTypes, Size
<1>3. RecallIsOfItsQueries'
  BY <1>1, RecallKept DEF CInv
<1>4. Stream' = Stream /\ Sent' = Sent
  BY <1>1 DEF Stream, Sent
<1>5. ServerHas => ServerHas'
  BY <1>1, <1>4 DEF ServerHas
<1>6. Complete => Complete'
  BY <1>1, <1>4 DEF Complete
<1>7. AsAsked => AsAsked'
  BY <1>1, <1>4 DEF AsAsked
<1>8. UnderWay => UnderWay'
  BY <1>1, <1>5, <1>6, <1>7 DEF UnderWay
<1>9. QED
  BY <1>1, <1>2, <1>3, <1>8 DEF CInv, InStep

(* What one thread of the event loop sends, receives and scores: every piece *)
(* that has arrived is of the reply to the command in its place.             *)
THEOREM PipelineInStep == Spec => []CInv
<1>1. Init => CInv
  BY InitCInv
<1>2. CInv /\ [Next]_clientVars => CInv'
  <2> SUFFICES ASSUME CInv, [Next]_clientVars PROVE CInv'
    OBVIOUS
  <2>1. CASE Start
    BY <2>1, StartKeeps
  <2>2. CASE Write
    BY <2>2, WriteKeeps
  <2>3. CASE WriteInVain \/ WriteFails \/ ReadFails
    BY <2>3, FailKeeps
  <2>4. CASE Read
    BY <2>4, ReadKeeps
  <2>5. CASE ReadOutOfStep
    BY <2>5, OutOfStepKeeps
  <2>6. CASE Reply
    BY <2>6, ReplyKeeps
  <2>7. CASE ReplyGarbled
    BY <2>7, ReplyGarbledKeeps
  <2>8. CASE Close
    BY <2>8, CloseKeeps
  <2>9. CASE UNCHANGED clientVars
    BY <2>9, StutterKeeps
  <2>10. QED
    BY <2>1, <2>2, <2>3, <2>4, <2>5, <2>6, <2>7, <2>8, <2>9 DEF Next
<1>3. QED
  BY <1>1, <1>2, PTL DEF Spec

(* As long as every reply parses, each command counted has its own reply      *)
(* scored against its own query, once, and the score is recall@K.            *)
THEOREM RecallOfItsQueries == Spec => []RecallIsOfItsQueries
<1>1. CInv => RecallIsOfItsQueries
  BY DEF CInv
<1>2. QED
  BY <1>1, PipelineInStep, PTL

-----------------------------------------------------------------------------
(* The limiter before each request.                                          *)

(* Tokens come from elapsed time only: those in the bucket and those taken   *)
(* were earned before the last update.                                       *)
TokensAreEarned == tokens + paid * Need <= last /\ last <= now

(* A sleep lasts exactly until the pipeline would be affordable, and what it *)
(* waited for is still in the bucket when the thread is back: sleeps and     *)
(* paid pipelines alternate.                                                 *)
SleepsAlternate ==
    /\ thread = "sleeping" => tokens + (wake - last) = Need
    /\ Need <= Burst =>
          /\ thread = "sleeping" => unpaid <= paid
          /\ thread = "ready" =>
                \/ unpaid <= paid
                \/ unpaid = paid + 1 /\ tokens + (now - last) >= Need

(* A sleep ends at a later instant than it began; at one instant the thread  *)
(* sends what the bucket held and at most one pipeline more.                 *)
BurstAccounting ==
    /\ thread = "sleeping" /\ wake <= now => burst = 0
    /\ thread = "sleeping" /\ wake > now => burst * Need + Refilled <= Burst + Need
    /\ thread = "ready" => burst * Need + Refilled <= Burst + Need

LimiterInv == LimiterTypeOK /\ TokensAreEarned /\ SleepsAlternate /\ BurstAccounting

-----------------------------------------------------------------------------

(* acquire() that takes tokens keeps the invariant. *)
LEMMA PaidStep == LimiterInv /\ AcquirePaid => LimiterInv'
<1> SUFFICES ASSUME LimiterInv, AcquirePaid PROVE LimiterInv'
    OBVIOUS
<1> USE LimiterAssumption
<1>1. LimiterTypeOK'
    BY DEF LimiterInv, LimiterTypeOK, TokensAreEarned, AcquirePaid, Refilled, Least
<1>2. (paid + 1) * Need = paid * Need + Need /\ (burst + 1) * Need = burst * Need + Need
    BY DEF LimiterInv, LimiterTypeOK
<1>3. TokensAreEarned'
    <2>1. paid * Need \in Nat
        BY DEF LimiterInv, LimiterTypeOK
    <2> QED
        BY <1>2, <2>1 DEF LimiterInv, LimiterTypeOK, TokensAreEarned, AcquirePaid, Refilled, Least
<1>4. SleepsAlternate'
    BY DEF LimiterInv, LimiterTypeOK, TokensAreEarned, SleepsAlternate, AcquirePaid, Refilled, Least
<1>5. BurstAccounting'
    <2>1. Refilled' = Refilled - Need
        BY DEF LimiterInv, LimiterTypeOK, TokensAreEarned, AcquirePaid, Refilled, Least
    <2>2. burst * Need + Refilled <= Burst + Need
        BY DEF LimiterInv, BurstAccounting, AcquirePaid
    <2>3. thread' = "ready" /\ (burst * Need)' = burst * Need + Need
        BY <1>2 DEF AcquirePaid
    <2>4. burst * Need \in Nat /\ Refilled \in Int
        BY DEF LimiterInv, LimiterTypeOK, Refilled, Least
    <2> QED
        BY <2>1, <2>2, <2>3, <2>4 DEF BurstAccounting
<1> QED
    BY <1>1, <1>3, <1>4, <1>5 DEF LimiterInv

(* acquire() that puts the thread to sleep keeps the invariant. *)
LEMMA WaitStep == LimiterInv /\ AcquireWaits => LimiterInv'
<1> SUFFICES ASSUME LimiterInv, AcquireWaits PROVE LimiterInv'
    OBVIOUS
<1> USE LimiterAssumption
<1>1. LimiterTypeOK'
    BY DEF LimiterInv, LimiterTypeOK, TokensAreEarned, AcquireWaits, Refilled, Least
<1>2. TokensAreEarned'
    <2>1. paid * Need \in Nat
        BY DEF LimiterInv, LimiterTypeOK
    <2> QED
        BY <2>1 DEF LimiterInv, LimiterTypeOK, TokensAreEarned, AcquireWaits, Refilled, Least
<1>3. SleepsAlternate'
    BY DEF LimiterInv, LimiterTypeOK, TokensAreEarned, SleepsAlternate, AcquireWaits, Refilled, Least
<1>4. BurstAccounting'
    <2>1. Refilled' = Refilled
        BY DEF LimiterInv, LimiterTypeOK, TokensAreEarned, AcquireWaits, Refilled, Least
    <2>2. burst * Need + Refilled <= Burst + Need
        BY DEF LimiterInv, BurstAccounting, AcquireWaits
    <2>3. thread' = "sleeping" /\ wake' > now' /\ (burst * Need)' = burst * Need
        BY DEF LimiterInv, LimiterTypeOK, AcquireWaits, Refilled, Least
    <2> QED
        BY <2>1, <2>2, <2>3 DEF BurstAccounting, LimiterInv, LimiterTypeOK, AcquireWaits
<1> QED
    BY <1>1, <1>2, <1>3, <1>4 DEF LimiterInv

(* Waking up, however late, keeps the invariant. *)
LEMMA WakeStep == LimiterInv /\ Wake => LimiterInv'
<1> SUFFICES ASSUME LimiterInv, Wake PROVE LimiterInv'
    OBVIOUS
<1> USE LimiterAssumption
<1>1. LimiterTypeOK'
    BY DEF LimiterInv, LimiterTypeOK, Wake
<1>2. TokensAreEarned'
    BY DEF LimiterInv, LimiterTypeOK, TokensAreEarned, Wake
<1>3. SleepsAlternate'
    BY DEF LimiterInv, LimiterTypeOK, TokensAreEarned, SleepsAlternate, Wake
<1>4. BurstAccounting'
    <2>1. burst = 0 /\ burst' = 1 /\ thread' = "ready"
        BY DEF LimiterInv, LimiterTypeOK, BurstAccounting, Wake
    <2>2. Refilled' = Refilled /\ Refilled \in Int /\ Refilled <= Burst
        BY DEF LimiterInv, LimiterTypeOK, Wake, Refilled, Least
    <2> QED
        BY <2>1, <2>2 DEF BurstAccounting
<1> QED
    BY <1>1, <1>2, <1>3, <1>4 DEF LimiterInv

(* The clock keeps the invariant. *)
LEMMA TickStep == LimiterInv /\ Tick => LimiterInv'
<1> SUFFICES ASSUME LimiterInv, Tick PROVE LimiterInv'
    OBVIOUS
<1> USE LimiterAssumption
<1>1. LimiterTypeOK'
    BY DEF LimiterInv, LimiterTypeOK, Tick
<1>2. TokensAreEarned'
    BY DEF LimiterInv, LimiterTypeOK, TokensAreEarned, Tick
<1>3. SleepsAlternate'
    BY DEF LimiterInv, LimiterTypeOK, TokensAreEarned, SleepsAlternate, Tick
<1>4. BurstAccounting'
    BY DEF LimiterInv, LimiterTypeOK, BurstAccounting, Tick, Refilled, Least
<1> QED
    BY <1>1, <1>2, <1>3, <1>4 DEF LimiterInv

(* The inductive invariant: each part needs the others, since what may be    *)
(* sent depends on what was taken, left in the bucket, and waited for.       *)
THEOREM LimiterInductive == LimiterSpec => []LimiterInv
<1>1. LimiterInit => LimiterInv
    BY LimiterAssumption DEF LimiterInit, LimiterInv, LimiterTypeOK, TokensAreEarned, SleepsAlternate,
                             BurstAccounting, Refilled, Least
<1>2. LimiterInv /\ [LimiterNext]_limiterVars => LimiterInv'
    <2> SUFFICES ASSUME LimiterInv, [LimiterNext]_limiterVars PROVE LimiterInv'
        OBVIOUS
    <2>1. CASE AcquirePaid
        BY <2>1, PaidStep
    <2>2. CASE AcquireWaits
        BY <2>2, WaitStep
    <2>3. CASE Wake
        BY <2>3, WakeStep
    <2>4. CASE Tick
        BY <2>4, TickStep
    <2>5. CASE UNCHANGED limiterVars
        BY <2>5 DEF LimiterInv, LimiterTypeOK, TokensAreEarned, SleepsAlternate, BurstAccounting,
                    Refilled, Least, limiterVars
    <2> QED
        BY <2>1, <2>2, <2>3, <2>4, <2>5 DEF LimiterNext, Acquire
<1> QED
    BY <1>1, <1>2, PTL DEF LimiterSpec

(* The bucket holds between nothing and one second's tokens. *)
THEOREM LimiterTypeCorrect == LimiterSpec => []LimiterTypeOK
<1>1. LimiterInv => LimiterTypeOK
    BY DEF LimiterInv
<1> QED
    BY <1>1, LimiterInductive, PTL

(* A thread sends at most twice its share of --rps, whenever it is resumed   *)
(* from its sleeps.                                                          *)
THEOREM TwiceTheRate == LimiterSpec => []AtMostTwiceTheRate
<1>1. LimiterInv => AtMostTwiceTheRate
    <2> SUFFICES ASSUME LimiterInv, Need <= Burst
                 PROVE (paid + unpaid) * Need <= 2 * now + Need
        BY DEF AtMostTwiceTheRate
    <2>1. unpaid <= paid + 1
        BY DEF LimiterInv, LimiterTypeOK, SleepsAlternate
    <2>2. (paid + unpaid) * Need <= (2 * paid + 1) * Need
        BY <2>1, LimiterAssumption DEF LimiterInv, LimiterTypeOK
    <2>3. (2 * paid + 1) * Need = 2 * (paid * Need) + Need
        BY LimiterAssumption DEF LimiterInv, LimiterTypeOK
    <2>4. paid * Need <= now /\ paid * Need \in Nat
        BY LimiterAssumption DEF LimiterInv, LimiterTypeOK, TokensAreEarned
    <2>5. (paid + unpaid) * Need \in Nat
        BY LimiterAssumption DEF LimiterInv, LimiterTypeOK
    <2> QED
        BY <2>2, <2>3, <2>4, <2>5, LimiterAssumption DEF LimiterInv, LimiterTypeOK
<1> QED
    BY <1>1, LimiterInductive, PTL

(* However long a thread was idle, it sends at once at most a full bucket    *)
(* and one pipeline.                                                         *)
THEOREM BurstBound == LimiterSpec => []BurstIsBounded
<1>1. LimiterInv => BurstIsBounded
    <2> SUFFICES ASSUME LimiterInv PROVE burst * Need <= Burst + Need
        BY DEF BurstIsBounded
    <2>1. Refilled \in Nat /\ burst * Need \in Nat
        BY LimiterAssumption DEF LimiterInv, LimiterTypeOK, TokensAreEarned, Refilled, Least
    <2>2. CASE thread = "sleeping" /\ wake <= now
        <3>1. burst * Need = 0
            BY <2>2, LimiterAssumption DEF LimiterInv, BurstAccounting
        <3> QED
            BY <3>1, LimiterAssumption
    <2>3. CASE ~(thread = "sleeping" /\ wake <= now)
        BY <2>1, <2>3, LimiterAssumption DEF LimiterInv, LimiterTypeOK, BurstAccounting
    <2> QED
        BY <2>2, <2>3
<1> QED
    BY <1>1, LimiterInductive, PTL

-----------------------------------------------------------------------------
(* Blocking connections.                                                     *)

(* What has been sent by the server and not yet been read.                   *)
Unread == wire \o coming

(* How many of these pieces the value being read still needs, when values    *)
(* are whole: an array is a line and a string, a string has two lines.       *)
Left == IF body > 0 THEN body ELSE IF parts = {} THEN 0 ELSE IF need = 2 THEN 4 ELSE 3

SameCommand(s, i, j) == \A l \in i .. j : s[l].command = s[i].command

(* Every header is followed by what it announces, and every line of a        *)
(* string, but the first b, follows a header.                                *)
WholeValues(s, b) ==
    \A i \in 1 .. Len(s) :
        /\ s[i].form # "rest"
        /\ s[i].form = "array" =>
              /\ s[i].count = 2 /\ i + 4 <= Len(s) /\ SameCommand(s, i, i + 4)
              /\ s[i + 1].form = "line" /\ s[i + 2].form = "bulk"
        /\ s[i].form = "bulk" =>
              /\ s[i].count = 2 /\ i + 2 <= Len(s) /\ SameCommand(s, i, i + 2)
              /\ s[i + 1].form = "body" /\ s[i + 2].form = "body"
        /\ s[i].form = "body" =>
              \/ i <= b
              \/ i > 1 /\ s[i - 1].form = "bulk"
              \/ i > 2 /\ s[i - 2].form = "bulk"

(* The decoder stands where the pieces are that it needs.                    *)
Cursor(s) ==
    /\ body # Loose
    /\ parts = {} => body = 0 /\ need \in {0, 1}
    /\ parts # {} => /\ Left <= Len(s)
                     /\ parts = {s[1].command} /\ SameCommand(s, 1, Left)
    /\ body > 0 => /\ body \in {1, 2} /\ need = 1 /\ parts # {}
                   /\ \A i \in 1 .. body : s[i].form = "body"
    /\ body = 0 /\ parts # {} => \/ need = 1 /\ s[1].form = "bulk"
                                 \/ need = 2 /\ s[1].form = "line" /\ s[2].form = "bulk"

Untorn == torn = {} => WholeValues(Unread, body) /\ Cursor(Unread)

(* The pieces are of the n commands that were executed; those of a login say *)
(* whether it succeeded.                                                     *)
Known(s, n, kinds, done) ==
    \A i \in 1 .. Len(s) :
        /\ s[i].command \in 1 .. n
        /\ s[i].form = "array" => s[i].count > 0
        /\ kinds[s[i].command] \in Logins =>
              /\ s[i].form \in {"line", "rest"}
              /\ s[i].ok => kinds[s[i].command] \in done

Width(x) == CASE x.form = "line" -> 1 [] x.form = "bulk" -> 3 [] OTHER -> 5

(* A reply begins at i, and the next one where it ends.                      *)
WholeReply(s, i) ==
    LET e == i + Width(s[i])
    IN  /\ s[i].form \in {"line", "bulk", "array"} /\ e <= Len(s) + 1
        /\ SameCommand(s, i, e - 1)
        /\ e <= Len(s) => s[e].command = s[i].command + 1

(* Behind the first l pieces, the replies of commands next to end.           *)
RepliesInTurn(s, l, next, end) ==
    /\ \A i \in l + 1 .. Len(s) :
          i = l + 1 \/ s[i - 1].command # s[i].command => WholeReply(s, i)
    /\ s # <<>> => s[Len(s)].command = end
    /\ IF l < Len(s) THEN s[l + 1].command = next ELSE end = next - 1

(* The command whose reply begins behind the value that is being read.       *)
Following == IF pc = "reading" /\ parts = {} THEN reading ELSE reading + 1

OneByOne == setup.tls => \A b \in 1 .. batch : BatchSize(b) = 1

InTurn ==
    failures = {} /\ OneByOne =>
        torn = {} /\ parts \subseteq {reading} /\ RepliesInTurn(Unread, Left, Following, served)

(* Commands are sent by the batch and read in turn.                          *)
BatchesInTurn ==
    /\ batch = 0 => sent = 0
    /\ batch > 0 => /\ BatchSize(batch) <= sent
                    /\ \A k \in sent - BatchSize(batch) + 1 .. sent : commands[k] = Plan[batch].kind
    /\ pc = "reading" => batch > 0 /\ sent - BatchSize(batch) < reading
    /\ pc # "reading" => need = 0 /\ body = 0 /\ parts = {}
    /\ pc = "ready" /\ failures = {} => reading = sent
    /\ \A f \in failures \cup torn : pc = "reading" => f < reading

(* Commands are written whole and at once unless a write fails.              *)
WrittenWhole == failures = {} => flushed = sent /\ lost = {}

(* A login that went through is in force, and nothing failed before.         *)
LoggedIn ==
    pc # "exited" =>
        /\ batch > 0 /\ Plan[batch].kind \in Logins => failures = {}
        /\ \A b \in 1 .. batch :
              Plan[b].kind \in Logins /\ (b < batch \/ pc = "ready") => Plan[b].kind \in session

ControlInv ==
    /\ ControlTypeOK /\ BatchesInTurn /\ Known(Unread, served, commands, session) /\ WrittenWhole
    /\ Untorn /\ InTurn /\ LoggedIn /\ AnswersBelong /\ PanicsAreOfLeftovers

LEMMA TailIs ==
    ASSUME NEW s \in Seq(ReplyPieces), s # <<>>
    PROVE  /\ Tail(s) \in Seq(ReplyPieces) /\ Len(s) \in Nat \ {0} /\ Len(Tail(s)) = Len(s) - 1
           /\ \A i \in 1 .. Len(Tail(s)) : Tail(s)[i] = s[i + 1]
OBVIOUS

LEMMA JoinIs ==
    ASSUME NEW s \in Seq(ReplyPieces), NEW r \in Seq(ReplyPieces)
    PROVE  /\ s \o r \in Seq(ReplyPieces) /\ Len(s) \in Nat /\ Len(r) \in Nat
           /\ Len(s \o r) = Len(s) + Len(r)
           /\ \A i \in 1 .. Len(s) : (s \o r)[i] = s[i]
           /\ \A i \in Len(s) + 1 .. Len(s \o r) : (s \o r)[i] = r[i - Len(s)]
           /\ \A i \in 1 .. Len(r) : (s \o r)[Len(s) + i] = r[i]
OBVIOUS

(* Delivering a piece leaves the stream as it is, and reading one takes its  *)
(* first.                                                                    *)
LEMMA StreamIs ==
    ASSUME NEW s \in Seq(ReplyPieces), NEW r \in Seq(ReplyPieces)
    PROVE  /\ r # <<>> => Append(s, Head(r)) \o Tail(r) = s \o r
           /\ s # <<>> => Tail(s) \o r = Tail(s \o r) /\ (s \o r)[1] = s[1] /\ s \o r # <<>>
           /\ <<>> \o r = r
<1>1. ASSUME r # <<>> PROVE Append(s, Head(r)) \o Tail(r) = s \o r
  <2> DEFINE t == Append(s, Head(r))
             u == Tail(r)
  <2>1. /\ t \in Seq(ReplyPieces) /\ u \in Seq(ReplyPieces) /\ Len(t) = Len(s) + 1 /\ Len(u) = Len(r) - 1
        /\ \A i \in 1 .. Len(s) : t[i] = s[i]
        /\ t[Len(s) + 1] = r[1]
        /\ \A i \in 1 .. Len(u) : u[i] = r[i + 1]
        /\ Len(r) \in Nat \ {0} /\ Len(s) \in Nat
    BY <1>1
  <2> HIDE DEF t, u
  <2>2. /\ t \o u \in Seq(ReplyPieces) /\ Len(t \o u) = Len(t) + Len(u)
        /\ \A i \in 1 .. Len(t) : (t \o u)[i] = t[i]
        /\ \A i \in 1 .. Len(u) : (t \o u)[Len(t) + i] = u[i]
    BY <2>1, JoinIs
  <2>5. /\ s \o r \in Seq(ReplyPieces) /\ Len(s \o r) = Len(s) + Len(r)
        /\ \A i \in 1 .. Len(s) : (s \o r)[i] = s[i]
        /\ \A i \in 1 .. Len(r) : (s \o r)[Len(s) + i] = r[i]
    BY JoinIs
  <2>6. Len(t \o u) = Len(s \o r)
    BY <2>1, <2>2, <2>5
  <2>3. \A i \in 1 .. Len(t \o u) : (t \o u)[i] = (s \o r)[i]
    <3> SUFFICES ASSUME NEW i \in 1 .. Len(t \o u) PROVE (t \o u)[i] = (s \o r)[i]
      OBVIOUS
    <3>1. CASE i <= Len(s)
      BY <2>1, <2>2, <2>5, <3>1
    <3>2. CASE i = Len(s) + 1
      <4>1. (t \o u)[i] = t[i] /\ 1 \in 1 .. Len(r)
        BY <2>1, <2>2, <3>2
      <4>2. (s \o r)[i] = r[1]
        BY <2>5, <3>2, <4>1
      <4>3. QED
        BY <4>1, <4>2, <2>1, <3>2
    <3>3. CASE i > Len(s) + 1
      <4> DEFINE j == i - Len(t)
      <4>1. j \in 1 .. Len(u) /\ j \in Nat /\ i = Len(t) + j /\ i = Len(s) + (j + 1) /\ j + 1 \in 1 .. Len(r)
        BY <2>1, <2>2, <3>3
      <4> HIDE DEF j
      <4>2. (t \o u)[i] = u[j] /\ u[j] = r[j + 1]
        BY <2>1, <2>2, <4>1
      <4>3. (s \o r)[i] = r[j + 1]
        BY <2>5, <4>1
      <4>4. QED
        BY <4>2, <4>3
    <3>4. QED
      BY <2>1, <2>2, <3>1, <3>2, <3>3
  <2>4. QED
    BY <2>2, <2>5, <2>6, <2>3, SeqEqual DEF t, u
<1>2. ASSUME s # <<>> PROVE Tail(s) \o r = Tail(s \o r) /\ (s \o r)[1] = s[1] /\ s \o r # <<>>
  <2>1. s \o r \in Seq(ReplyPieces) /\ Len(s \o r) = Len(s) + Len(r) /\ Len(s) \in Nat \ {0} /\ Len(r) \in Nat
    BY <1>2, JoinIs, TailIs
  <2>2. s \o r # <<>> /\ (s \o r)[1] = s[1]
    BY <2>1, JoinIs
  <2>3. Tail(s) \in Seq(ReplyPieces) /\ Tail(s \o r) \in Seq(ReplyPieces)
    BY <2>1, <2>2, <1>2, TailIs
  <2>4. /\ Len(Tail(s) \o r) = Len(s) - 1 + Len(r) /\ Len(Tail(s \o r)) = Len(s) - 1 + Len(r)
        /\ Tail(s) \o r \in Seq(ReplyPieces)
    BY <2>1, <2>2, <2>3, <1>2, TailIs, JoinIs
  <2>5. ASSUME NEW i \in 1 .. Len(s) - 1 + Len(r) PROVE (Tail(s) \o r)[i] = Tail(s \o r)[i]
    <3>1. Tail(s \o r)[i] = (s \o r)[i + 1]
      BY <2>1, <2>2, <2>4, TailIs
    <3>2. CASE i <= Len(s) - 1
      <4>1. (Tail(s) \o r)[i] = Tail(s)[i]
        BY <2>1, <2>3, <3>2, <1>2, TailIs, JoinIs
      <4>2. Tail(s)[i] = s[i + 1] /\ (s \o r)[i + 1] = s[i + 1]
        BY <2>1, <3>2, <1>2, TailIs, JoinIs
      <4>3. QED
        BY <3>1, <4>1, <4>2
    <3>3. CASE i > Len(s) - 1
      <4> DEFINE j == i - (Len(s) - 1)
      <4>1. j \in 1 .. Len(r) /\ i = Len(Tail(s)) + j /\ i + 1 = Len(s) + j
        BY <2>1, <3>3, <1>2, TailIs
      <4> HIDE DEF j
      <4>2. (Tail(s) \o r)[i] = r[j] /\ (s \o r)[i + 1] = r[j]
        BY <4>1, <2>3, JoinIs
      <4>3. QED
        BY <3>1, <4>2
    <3>4. QED
      BY <2>1, <3>2, <3>3
  <2>6. QED
    BY <2>2, <2>3, <2>4, <2>5, SeqEqual
<1>3. <<>> \o r = r
  OBVIOUS
<1>4. QED
  BY <1>1, <1>2, <1>3

(* What is behind the first piece, when that one does not begin a string, or *)
(* begins one, or is a line of one.                                          *)
LEMMA WholeTail ==
    ASSUME NEW s \in Seq(ReplyPieces), s # <<>>, NEW b \in 0 .. 2, NEW c \in 0 .. 2, WholeValues(s, b),
           \/ s[1].form \in {"line", "array"} /\ b = 0 /\ c = 0
           \/ s[1].form = "bulk" /\ b = 0 /\ c = 2
           \/ s[1].form = "body" /\ b > 0 /\ c = b - 1
    PROVE  WholeValues(Tail(s), c)
<1> DEFINE t == Tail(s)
<1>1. /\ t \in Seq(ReplyPieces) /\ Len(s) \in Nat \ {0} /\ Len(t) = Len(s) - 1
      /\ \A i \in 1 .. Len(t) : t[i] = s[i + 1]
  BY TailIs
<1> HIDE DEF t
<1>2. SUFFICES ASSUME NEW i \in 1 .. Len(t)
               PROVE  /\ t[i].form # "rest"
                      /\ t[i].form = "array" =>
                            /\ t[i].count = 2 /\ i + 4 <= Len(t) /\ SameCommand(t, i, i + 4)
                            /\ t[i + 1].form = "line" /\ t[i + 2].form = "bulk"
                      /\ t[i].form = "bulk" =>
                            /\ t[i].count = 2 /\ i + 2 <= Len(t) /\ SameCommand(t, i, i + 2)
                            /\ t[i + 1].form = "body" /\ t[i + 2].form = "body"
                      /\ t[i].form = "body" =>
                            \/ i <= c
                            \/ i > 1 /\ t[i - 1].form = "bulk"
                            \/ i > 2 /\ t[i - 2].form = "bulk"
  BY DEF WholeValues, t
<1> DEFINE j == i + 1
<1>3. j \in 1 .. Len(s) /\ j \in Nat /\ i \in Nat /\ t[i] = s[j]
  BY <1>1
<1>4. t[i].form # "rest"
  BY <1>3 DEF WholeValues
<1>5. ASSUME t[i].form = "array"
      PROVE  /\ t[i].count = 2 /\ i + 4 <= Len(t) /\ SameCommand(t, i, i + 4)
             /\ t[i + 1].form = "line" /\ t[i + 2].form = "bulk"
  <2>1. /\ s[j].count = 2 /\ j + 4 <= Len(s) /\ SameCommand(s, j, j + 4)
        /\ s[j + 1].form = "line" /\ s[j + 2].form = "bulk"
    BY <1>3, <1>5 DEF WholeValues
  <2>2. i + 4 <= Len(t) /\ t[i + 1] = s[j + 1] /\ t[i + 2] = s[j + 2]
    BY <2>1, <1>1, <1>3
  <2>3. SameCommand(t, i, i + 4)
    <3> SUFFICES ASSUME NEW l \in i .. i + 4 PROVE t[l].command = t[i].command
      BY DEF SameCommand
    <3>1. t[l] = s[l + 1] /\ l + 1 \in j .. j + 4
      BY <2>2, <1>1, <1>3
    <3>2. QED
      BY <2>1, <3>1, <1>3 DEF SameCommand
  <2>4. QED
    BY <2>1, <2>2, <2>3, <1>3
<1>6. ASSUME t[i].form = "bulk"
      PROVE  /\ t[i].count = 2 /\ i + 2 <= Len(t) /\ SameCommand(t, i, i + 2)
             /\ t[i + 1].form = "body" /\ t[i + 2].form = "body"
  <2>1. /\ s[j].count = 2 /\ j + 2 <= Len(s) /\ SameCommand(s, j, j + 2)
        /\ s[j + 1].form = "body" /\ s[j + 2].form = "body"
    BY <1>3, <1>6 DEF WholeValues
  <2>2. i + 2 <= Len(t) /\ t[i + 1] = s[j + 1] /\ t[i + 2] = s[j + 2]
    BY <2>1, <1>1, <1>3
  <2>3. SameCommand(t, i, i + 2)
    <3> SUFFICES ASSUME NEW l \in i .. i + 2 PROVE t[l].command = t[i].command
      BY DEF SameCommand
    <3>1. t[l] = s[l + 1] /\ l + 1 \in j .. j + 2
      BY <2>2, <1>1, <1>3
    <3>2. QED
      BY <2>1, <3>1, <1>3 DEF SameCommand
  <2>4. QED
    BY <2>1, <2>2, <2>3, <1>3
<1>7. ASSUME t[i].form = "body"
      PROVE  \/ i <= c
             \/ i > 1 /\ t[i - 1].form = "bulk"
             \/ i > 2 /\ t[i - 2].form = "bulk"
  <2>1. \/ j <= b
        \/ j > 1 /\ s[j - 1].form = "bulk"
        \/ j > 2 /\ s[j - 2].form = "bulk"
    BY <1>3, <1>7 DEF WholeValues
  <2>2. CASE j <= b
    BY <2>2, <1>3
  <2>3. CASE s[j - 1].form = "bulk"
    <3>1. CASE i = 1
      BY <3>1, <2>3, <1>3
    <3>2. CASE i > 1
      <4>1. t[i - 1] = s[j - 1]
        BY <3>2, <1>1, <1>3
      <4>2. QED
        BY <4>1, <3>2, <2>3
    <3>3. QED
      BY <3>1, <3>2, <1>3
  <2>4. CASE j > 2 /\ s[j - 2].form = "bulk"
    <3>1. CASE i = 2
      BY <3>1, <2>4, <1>3
    <3>2. CASE i > 2
      <4>1. t[i - 2] = s[j - 2]
        BY <3>2, <1>1, <1>3
      <4>2. QED
        BY <4>1, <3>2, <2>4
    <3>3. QED
      BY <3>1, <3>2, <2>4, <1>3
  <2>5. QED
    BY <2>1, <2>2, <2>3, <2>4
<1>8. QED
  BY <1>4, <1>5, <1>6, <1>7

(* Whole values behind whole values.                                         *)
LEMMA WholeJoin ==
    ASSUME NEW s \in Seq(ReplyPieces), NEW r \in Seq(ReplyPieces), NEW b \in 0 .. 2,
           WholeValues(s, b), WholeValues(r, 0)
    PROVE  WholeValues(s \o r, b)
<1> DEFINE t == s \o r
           n == Len(s)
<1>1. /\ t \in Seq(ReplyPieces) /\ n \in Nat /\ Len(r) \in Nat /\ Len(t) = n + Len(r)
      /\ \A i \in 1 .. n : t[i] = s[i]
      /\ \A i \in 1 .. Len(r) : t[n + i] = r[i]
  BY JoinIs
<1> HIDE DEF t
<1>2. SUFFICES ASSUME NEW i \in 1 .. Len(t)
               PROVE  /\ t[i].form # "rest"
                      /\ t[i].form = "array" =>
                            /\ t[i].count = 2 /\ i + 4 <= Len(t) /\ SameCommand(t, i, i + 4)
                            /\ t[i + 1].form = "line" /\ t[i + 2].form = "bulk"
                      /\ t[i].form = "bulk" =>
                            /\ t[i].count = 2 /\ i + 2 <= Len(t) /\ SameCommand(t, i, i + 2)
                            /\ t[i + 1].form = "body" /\ t[i + 2].form = "body"
                      /\ t[i].form = "body" =>
                            \/ i <= b
                            \/ i > 1 /\ t[i - 1].form = "bulk"
                            \/ i > 2 /\ t[i - 2].form = "bulk"
  BY DEF WholeValues, t
<1>3. CASE i <= n
  <2>1. i \in 1 .. n /\ i \in Nat /\ t[i] = s[i] /\ t[i].form # "rest"
    BY <1>1, <1>3 DEF WholeValues
  <2>2. ASSUME t[i].form = "array"
        PROVE  /\ t[i].count = 2 /\ i + 4 <= Len(t) /\ SameCommand(t, i, i + 4)
               /\ t[i + 1].form = "line" /\ t[i + 2].form = "bulk"
    <3>1. /\ s[i].count = 2 /\ i + 4 <= n /\ SameCommand(s, i, i + 4)
          /\ s[i + 1].form = "line" /\ s[i + 2].form = "bulk"
      BY <2>1, <2>2 DEF WholeValues
    <3>6. i .. i + 4 \subseteq 1 .. n /\ i + 1 \in 1 .. n /\ i + 2 \in 1 .. n
      BY <2>1, <3>1, <1>1
    <3>2. \A l \in i .. i + 4 : t[l] = s[l]
      BY <3>6, <1>1
    <3>3. t[i + 1] = s[i + 1] /\ t[i + 2] = s[i + 2]
      BY <3>6, <1>1
    <3>4. SameCommand(t, i, i + 4)
      BY <3>1, <3>2, <2>1 DEF SameCommand
    <3>5. QED
      BY <3>1, <3>3, <3>4, <2>1, <1>1
  <2>3. ASSUME t[i].form = "bulk"
        PROVE  /\ t[i].count = 2 /\ i + 2 <= Len(t) /\ SameCommand(t, i, i + 2)
               /\ t[i + 1].form = "body" /\ t[i + 2].form = "body"
    <3>1. /\ s[i].count = 2 /\ i + 2 <= n /\ SameCommand(s, i, i + 2)
          /\ s[i + 1].form = "body" /\ s[i + 2].form = "body"
      BY <2>1, <2>3 DEF WholeValues
    <3>6. i .. i + 2 \subseteq 1 .. n /\ i + 1 \in 1 .. n /\ i + 2 \in 1 .. n
      BY <2>1, <3>1, <1>1
    <3>2. \A l \in i .. i + 2 : t[l] = s[l]
      BY <3>6, <1>1
    <3>3. t[i + 1] = s[i + 1] /\ t[i + 2] = s[i + 2]
      BY <3>6, <1>1
    <3>4. SameCommand(t, i, i + 2)
      BY <3>1, <3>2, <2>1 DEF SameCommand
    <3>5. QED
      BY <3>1, <3>3, <3>4, <2>1, <1>1
  <2>4. ASSUME t[i].form = "body"
        PROVE  \/ i <= b
               \/ i > 1 /\ t[i - 1].form = "bulk"
               \/ i > 2 /\ t[i - 2].form = "bulk"
    <3>1. \/ i <= b
          \/ i > 1 /\ s[i - 1].form = "bulk"
          \/ i > 2 /\ s[i - 2].form = "bulk"
      BY <2>1, <2>4 DEF WholeValues
    <3>2. (i > 1 => i - 1 \in 1 .. n) /\ (i > 2 => i - 2 \in 1 .. n)
      BY <2>1, <1>1
    <3>4. (i > 1 => t[i - 1] = s[i - 1]) /\ (i > 2 => t[i - 2] = s[i - 2])
      BY <3>2, <1>1
    <3>3. QED
      BY <3>1, <3>4
  <2>5. QED
    BY <2>1, <2>2, <2>3, <2>4
<1>4. CASE i > n
  <2> DEFINE j == i - n
  <2>1. j \in 1 .. Len(r) /\ j \in Nat /\ i \in Nat /\ i = n + j /\ t[i] = r[j]
    BY <1>1, <1>4
  <2> HIDE DEF j
  <2>2. t[i].form # "rest"
    BY <2>1 DEF WholeValues
  <2>3. ASSUME t[i].form = "array"
        PROVE  /\ t[i].count = 2 /\ i + 4 <= Len(t) /\ SameCommand(t, i, i + 4)
               /\ t[i + 1].form = "line" /\ t[i + 2].form = "bulk"
    <3>1. /\ r[j].count = 2 /\ j + 4 <= Len(r) /\ SameCommand(r, j, j + 4)
          /\ r[j + 1].form = "line" /\ r[j + 2].form = "bulk"
      BY <2>1, <2>3 DEF WholeValues
    <3>6. n \in Nat /\ Len(r) \in Nat
      BY <1>1
    <3>9. i \in Nat /\ j \in Nat /\ i = n + j /\ j >= 1 /\ j + 4 <= Len(r)
      BY <3>1, <2>1
    <3>7. \A l \in i .. i + 4 : l - n \in j .. j + 4 /\ l - n \in 1 .. Len(r) /\ n + (l - n) = l
      BY <3>9, <3>6, SMTT(30)
    <3>2. \A l \in i .. i + 4 : t[l] = r[l - n] /\ l - n \in j .. j + 4
      BY <3>7, <1>1
    <3>8. i + 1 \in i .. i + 4 /\ i + 2 \in i .. i + 4 /\ i + 1 - n = j + 1 /\ i + 2 - n = j + 2
      BY <3>6, <2>1
    <3>3. t[i + 1] = r[j + 1] /\ t[i + 2] = r[j + 2]
      BY <3>2, <3>8
    <3>4. SameCommand(t, i, i + 4)
      BY <3>1, <3>2, <2>1 DEF SameCommand
    <3>5. QED
      BY <3>1, <3>3, <3>4, <2>1, <1>1
  <2>4. ASSUME t[i].form = "bulk"
        PROVE  /\ t[i].count = 2 /\ i + 2 <= Len(t) /\ SameCommand(t, i, i + 2)
               /\ t[i + 1].form = "body" /\ t[i + 2].form = "body"
    <3>1. /\ r[j].count = 2 /\ j + 2 <= Len(r) /\ SameCommand(r, j, j + 2)
          /\ r[j + 1].form = "body" /\ r[j + 2].form = "body"
      BY <2>1, <2>4 DEF WholeValues
    <3>6. n \in Nat /\ Len(r) \in Nat
      BY <1>1
    <3>9. i \in Nat /\ j \in Nat /\ i = n + j /\ j >= 1 /\ j + 2 <= Len(r)
      BY <3>1, <2>1
    <3>7. \A l \in i .. i + 2 : l - n \in j .. j + 2 /\ l - n \in 1 .. Len(r) /\ n + (l - n) = l
      BY <3>9, <3>6, SMTT(30)
    <3>2. \A l \in i .. i + 2 : t[l] = r[l - n] /\ l - n \in j .. j + 2
      BY <3>7, <1>1
    <3>8. i + 1 \in i .. i + 2 /\ i + 2 \in i .. i + 2 /\ i + 1 - n = j + 1 /\ i + 2 - n = j + 2
      BY <3>6, <2>1
    <3>3. t[i + 1] = r[j + 1] /\ t[i + 2] = r[j + 2]
      BY <3>2, <3>8
    <3>4. SameCommand(t, i, i + 2)
      BY <3>1, <3>2, <2>1 DEF SameCommand
    <3>5. QED
      BY <3>1, <3>3, <3>4, <2>1, <1>1
  <2>5. ASSUME t[i].form = "body"
        PROVE  \/ i > 1 /\ t[i - 1].form = "bulk"
               \/ i > 2 /\ t[i - 2].form = "bulk"
    <3>1. \/ j > 1 /\ r[j - 1].form = "bulk"
          \/ j > 2 /\ r[j - 2].form = "bulk"
      BY <2>1, <2>5 DEF WholeValues
    <3>2. /\ j > 1 => j - 1 \in 1 .. Len(r) /\ i - 1 = n + (j - 1)
          /\ j > 2 => j - 2 \in 1 .. Len(r) /\ i - 2 = n + (j - 2)
      <4>1. n \in Nat /\ Len(r) \in Nat
        BY <1>1
      <4>2. QED
        BY <4>1, <2>1, SMTT(30)
    <3>4. (j > 1 => t[i - 1] = r[j - 1]) /\ (j > 2 => t[i - 2] = r[j - 2])
      BY <3>2, <1>1
    <3>3. QED
      BY <3>1, <3>4, <2>1, <1>1
  <2>6. QED
    BY <2>2, <2>3, <2>4, <2>5
<1>5. QED
  BY <1>1, <1>3, <1>4

LEMMA TwoAndThree ==
    ASSUME NEW a \in ReplyPieces, NEW b \in ReplyPieces, NEW c \in ReplyPieces,
           NEW d \in ReplyPieces, NEW e \in ReplyPieces
    PROVE  <<a, b>> \o <<c, d, e>> = <<a, b, c, d, e>>
<1> DEFINE s == <<a, b>>
           t == <<c, d, e>>
           u == <<a, b, c, d, e>>
<1>1. s \in Seq(ReplyPieces) /\ t \in Seq(ReplyPieces) /\ u \in Seq(ReplyPieces)
  OBVIOUS
<1>2. /\ Len(s) = 2 /\ s[1] = a /\ s[2] = b
      /\ Len(t) = 3 /\ t[1] = c /\ t[2] = d /\ t[3] = e
      /\ Len(u) = 5 /\ u[1] = a /\ u[2] = b /\ u[3] = c /\ u[4] = d /\ u[5] = e
  OBVIOUS
<1> HIDE DEF s, t, u
<1>3. /\ s \o t \in Seq(ReplyPieces) /\ Len(s \o t) = 5
      /\ \A i \in 1 .. 2 : (s \o t)[i] = s[i]
      /\ \A i \in 3 .. 5 : (s \o t)[i] = t[i - 2]
  <2>1. /\ s \o t \in Seq(ReplyPieces) /\ Len(s \o t) = Len(s) + Len(t)
        /\ \A i \in 1 .. Len(s) : (s \o t)[i] = s[i]
        /\ \A i \in Len(s) + 1 .. Len(s \o t) : (s \o t)[i] = t[i - Len(s)]
    BY <1>1, JoinIs
  <2>2. QED
    BY <2>1, <1>2
<1>4. (s \o t)[1] = a /\ (s \o t)[2] = b /\ (s \o t)[3] = c /\ (s \o t)[4] = d /\ (s \o t)[5] = e
  BY <1>2, <1>3
<1>5. \A i \in 1 .. 5 : i = 1 \/ i = 2 \/ i = 3 \/ i = 4 \/ i = 5
  OBVIOUS
<1>6. \A i \in 1 .. 5 : (s \o t)[i] = u[i]
  BY <1>2, <1>4, <1>5
<1>7. s \o t = u
  BY <1>1, <1>2, <1>3, <1>6, SeqEqual
<1>8. QED
  BY <1>7 DEF s, t, u

LEMMA WidthIs ==
    ASSUME NEW x
    PROVE  /\ x.form = "line" => Width(x) = 1
           /\ x.form = "bulk" => Width(x) = 3
           /\ x.form = "array" => Width(x) = 5
BY DEF Width

(* The server's reply to command k is one reply, and that of a login a line.  *)
LEMMA ReplyIs ==
    ASSUME NEW k \in Nat, NEW r \in Shapes(k)
    PROVE  /\ r \in Seq(ReplyPieces) /\ Len(r) \in Nat \ {0} /\ Len(r) = Width(r[1])
           /\ r[1].form \in {"line", "bulk", "array"}
           /\ WholeValues(r, 0)
           /\ \A i \in 1 .. Len(r) : r[i].command = k /\ (r[i].form = "array" => r[i].count > 0)
           /\ commands[k] \in Logins => Len(r) = 1 /\ r[1].form = "line"
<1> DEFINE p(form, count) == [command |-> k, form |-> form, count |-> count, ok |-> TRUE]
           bulk == <<p("bulk", 2), p("body", 0), p("body", 0)>>
           array == <<p("array", 2), p("line", 0), p("bulk", 2), p("body", 0), p("body", 0)>>
<1>1. /\ r = bulk \/ r = array \/ \E b \in BOOLEAN : r = <<[command |-> k, form |-> "line", count |-> 0, ok |-> b]>>
      /\ commands[k] \in Logins => \E b \in BOOLEAN : r = <<[command |-> k, form |-> "line", count |-> 0, ok |-> b]>>
  <2> DEFINE line == {<<Line(k, TRUE)>>, <<Line(k, FALSE)>>}
             many == {<<Line(k, TRUE)>>, bulk, <<Piece(k, "array", 2, TRUE), Line(k, TRUE)>> \o bulk}
  <2>1. bulk = <<Piece(k, "bulk", 2, TRUE), Piece(k, "body", 0, TRUE), Piece(k, "body", 0, TRUE)>>
    BY DEF Piece
  <2>2. <<Piece(k, "array", 2, TRUE), Line(k, TRUE)>> \o bulk = array
    <3>1. /\ p("bulk", 2) \in ReplyPieces /\ p("body", 0) \in ReplyPieces
          /\ p("array", 2) \in ReplyPieces /\ p("line", 0) \in ReplyPieces
      BY DEF ReplyPieces, Forms
    <3>2. /\ Piece(k, "array", 2, TRUE) = p("array", 2) /\ Line(k, TRUE) = p("line", 0)
      BY DEF Piece, Line
    <3> HIDE DEF p
    <3>3. <<p("array", 2), p("line", 0)>> \o bulk = array
      BY <3>1, TwoAndThree
    <3>4. QED
      BY <3>2, <3>3
  <2> HIDE DEF bulk, array
  <2>3. \/ commands[k] \in {"AUTH", "SELECT", "PING"} /\ r \in line
        \/ commands[k] \notin {"AUTH", "SELECT", "PING"} /\ r \in {bulk, <<Line(k, FALSE)>>}
        \/ commands[k] \notin {"AUTH", "SELECT", "PING"} /\ r \in many
    <3>1. CASE commands[k] \in {"AUTH", "SELECT", "PING"}
      BY <3>1 DEF Shapes
    <3>2. CASE commands[k] = "INFO"
      BY <3>2, <2>1 DEF Shapes
    <3>3. CASE commands[k] \notin {"AUTH", "SELECT", "PING", "INFO"}
      BY <3>3, <2>1 DEF Shapes
    <3>4. QED
      BY <3>1, <3>2, <3>3
  <2>4. \A b \in BOOLEAN : Line(k, b) = [command |-> k, form |-> "line", count |-> 0, ok |-> b]
    BY DEF Line, Piece
  <2>5. /\ r = bulk \/ r = array \/ r = <<Line(k, TRUE)>> \/ r = <<Line(k, FALSE)>>
        /\ commands[k] \in Logins => r = <<Line(k, TRUE)>> \/ r = <<Line(k, FALSE)>>
    BY <2>2, <2>3 DEF Logins
  <2>6. QED
    BY <2>4, <2>5
<1>2. ASSUME NEW b \in BOOLEAN, r = <<[command |-> k, form |-> "line", count |-> 0, ok |-> b]>>
      PROVE  /\ r \in Seq(ReplyPieces) /\ Len(r) = 1 /\ r[1].form = "line"
             /\ WholeValues(r, 0) /\ r[1].command = k
  <2>1. [command |-> k, form |-> "line", count |-> 0, ok |-> b] \in ReplyPieces
    BY DEF ReplyPieces, Forms
  <2>2. r \in Seq(ReplyPieces) /\ Len(r) = 1 /\ r[1] = [command |-> k, form |-> "line", count |-> 0, ok |-> b]
    BY <1>2, <2>1
  <2>3. WholeValues(r, 0)
    BY <2>2 DEF WholeValues
  <2>4. QED
    BY <2>2, <2>3
<1>3. /\ p("bulk", 2) \in ReplyPieces /\ p("body", 0) \in ReplyPieces
      /\ p("array", 2) \in ReplyPieces /\ p("line", 0) \in ReplyPieces
  BY DEF ReplyPieces, Forms
<1>4. ASSUME r = bulk
      PROVE  /\ r \in Seq(ReplyPieces) /\ Len(r) = 3 /\ r[1].form = "bulk"
             /\ WholeValues(r, 0) /\ \A i \in 1 .. 3 : r[i].command = k /\ r[i].form # "array"
  <2>1. /\ r \in Seq(ReplyPieces) /\ Len(r) = 3 /\ r[1] = p("bulk", 2) /\ r[2] = p("body", 0) /\ r[3] = p("body", 0)
    BY <1>3, <1>4
  <2>2. \A i \in 1 .. 3 : r[i].command = k /\ r[i].form \in {"bulk", "body"} /\ (r[i].form = "bulk" <=> i = 1)
    BY <2>1
  <2>3. SameCommand(r, 1, 3)
    BY <2>2 DEF SameCommand
  <2>4. WholeValues(r, 0)
    <3> SUFFICES ASSUME NEW i \in 1 .. 3
                 PROVE  /\ r[i].form # "rest" /\ r[i].form # "array"
                        /\ r[i].form = "bulk" =>
                              /\ r[i].count = 2 /\ i + 2 <= 3 /\ SameCommand(r, i, i + 2)
                              /\ r[i + 1].form = "body" /\ r[i + 2].form = "body"
                        /\ r[i].form = "body" =>
                              \/ i > 1 /\ r[i - 1].form = "bulk"
                              \/ i > 2 /\ r[i - 2].form = "bulk"
      BY <2>1 DEF WholeValues
    <3>1. i = 1 \/ i = 2 \/ i = 3
      OBVIOUS
    <3>2. CASE i = 1
      BY <3>2, <2>1, <2>3
    <3>3. CASE i = 2
      BY <3>3, <2>1
    <3>4. CASE i = 3
      BY <3>4, <2>1
    <3>5. QED
      BY <3>1, <3>2, <3>3, <3>4
  <2>5. QED
    BY <2>1, <2>2, <2>4
<1>5. ASSUME r = array
      PROVE  /\ r \in Seq(ReplyPieces) /\ Len(r) = 5 /\ r[1].form = "array"
             /\ WholeValues(r, 0) /\ \A i \in 1 .. 5 : r[i].command = k /\ (r[i].form = "array" => r[i].count > 0)
  <2>1. /\ r \in Seq(ReplyPieces) /\ Len(r) = 5 /\ r[1] = p("array", 2) /\ r[2] = p("line", 0) /\ r[3] = p("bulk", 2)
        /\ r[4] = p("body", 0) /\ r[5] = p("body", 0)
    BY <1>3, <1>5
  <2>2. \A i \in 1 .. 5 : r[i].command = k /\ (r[i].form = "array" => r[i].count > 0)
    BY <2>1
  <2>3. SameCommand(r, 1, 5) /\ SameCommand(r, 3, 5)
    BY <2>2 DEF SameCommand
  <2>4. WholeValues(r, 0)
    <3> SUFFICES ASSUME NEW i \in 1 .. 5
                 PROVE  /\ r[i].form # "rest"
                        /\ r[i].form = "array" =>
                              /\ r[i].count = 2 /\ i + 4 <= 5 /\ SameCommand(r, i, i + 4)
                              /\ r[i + 1].form = "line" /\ r[i + 2].form = "bulk"
                        /\ r[i].form = "bulk" =>
                              /\ r[i].count = 2 /\ i + 2 <= 5 /\ SameCommand(r, i, i + 2)
                              /\ r[i + 1].form = "body" /\ r[i + 2].form = "body"
                        /\ r[i].form = "body" =>
                              \/ i > 1 /\ r[i - 1].form = "bulk"
                              \/ i > 2 /\ r[i - 2].form = "bulk"
      BY <2>1 DEF WholeValues
    <3>1. i = 1 \/ i = 2 \/ i = 3 \/ i = 4 \/ i = 5
      OBVIOUS
    <3>2. CASE i = 1
      BY <3>2, <2>1, <2>3
    <3>3. CASE i = 2
      BY <3>3, <2>1
    <3>4. CASE i = 3
      BY <3>4, <2>1, <2>3
    <3>5. CASE i = 4
      BY <3>5, <2>1
    <3>6. CASE i = 5
      BY <3>6, <2>1
    <3>7. QED
      BY <3>1, <3>2, <3>3, <3>4, <3>5, <3>6
  <2>5. QED
    BY <2>1, <2>2, <2>4
<1> HIDE DEF bulk, array
<1>6. CASE r = bulk
  <2>1. commands[k] \notin Logins
    <3> SUFFICES ASSUME NEW b \in BOOLEAN, r = <<[command |-> k, form |-> "line", count |-> 0, ok |-> b]>>
                 PROVE  FALSE
      BY <1>1
    <3>1. QED
      BY <1>2, <1>4, <1>6
  <2>2. /\ r \in Seq(ReplyPieces) /\ Len(r) = 3 /\ r[1].form = "bulk" /\ WholeValues(r, 0)
        /\ \A i \in 1 .. 3 : r[i].command = k /\ r[i].form # "array"
    BY <1>4, <1>6
  <2>3. \A i \in 1 .. Len(r) : r[i].command = k /\ (r[i].form = "array" => r[i].count > 0)
    BY <2>2
  <2>4. Width(r[1]) = 3
    BY <2>2, WidthIs
  <2>5. QED
    BY <2>1, <2>2, <2>3, <2>4
<1>7. CASE r = array
  <2>1. commands[k] \notin Logins
    <3> SUFFICES ASSUME NEW b \in BOOLEAN, r = <<[command |-> k, form |-> "line", count |-> 0, ok |-> b]>>
                 PROVE  FALSE
      BY <1>1
    <3>1. QED
      BY <1>2, <1>5, <1>7
  <2>2. /\ r \in Seq(ReplyPieces) /\ Len(r) = 5 /\ r[1].form = "array" /\ WholeValues(r, 0)
        /\ \A i \in 1 .. 5 : r[i].command = k /\ (r[i].form = "array" => r[i].count > 0)
    BY <1>5, <1>7
  <2>3. \A i \in 1 .. Len(r) : r[i].command = k /\ (r[i].form = "array" => r[i].count > 0)
    BY <2>2
  <2>4. Width(r[1]) = 5
    BY <2>2, WidthIs
  <2>5. QED
    BY <2>1, <2>2, <2>3, <2>4
<1>8. ASSUME NEW b \in BOOLEAN, r = <<[command |-> k, form |-> "line", count |-> 0, ok |-> b]>>
      PROVE  /\ r \in Seq(ReplyPieces) /\ Len(r) \in Nat \ {0} /\ Len(r) = Width(r[1])
             /\ r[1].form \in {"line", "bulk", "array"}
             /\ WholeValues(r, 0)
             /\ \A i \in 1 .. Len(r) : r[i].command = k /\ (r[i].form = "array" => r[i].count > 0)
             /\ commands[k] \in Logins => Len(r) = 1 /\ r[1].form = "line"
  <2>1. /\ r \in Seq(ReplyPieces) /\ Len(r) = 1 /\ r[1].form = "line"
        /\ WholeValues(r, 0) /\ r[1].command = k
    BY <1>2, <1>8
  <2>2. \A i \in 1 .. Len(r) : i = 1
    BY <2>1
  <2>3. QED
    BY <2>1, <2>2, WidthIs
<1>9. QED
  BY <1>1, <1>6, <1>7, <1>8

(* Pieces that are known remain so, whatever is left out of them.             *)
LEMMA KnownPart ==
    ASSUME NEW s, NEW t, NEW n, NEW kinds, NEW done, Known(s, n, kinds, done),
           \A i \in 1 .. Len(t) : \E j \in 1 .. Len(s) : t[i] = s[j]
    PROVE  Known(t, n, kinds, done)
BY DEF Known

LEMMA KnownTail ==
    ASSUME NEW s \in Seq(ReplyPieces), s # <<>>, NEW n, NEW kinds, NEW done, Known(s, n, kinds, done)
    PROVE  Known(Tail(s), n, kinds, done)
<1>1. ASSUME NEW i \in 1 .. Len(Tail(s)) PROVE \E j \in 1 .. Len(s) : Tail(s)[i] = s[j]
  <2>1. i + 1 \in 1 .. Len(s) /\ Tail(s)[i] = s[i + 1]
    BY TailIs
  <2>2. QED
    BY <2>1
<1>2. QED
  BY <1>1, KnownPart

LEMMA KnownJoin ==
    ASSUME NEW s \in Seq(ReplyPieces), NEW t \in Seq(ReplyPieces), NEW n, NEW kinds, NEW done
    PROVE  Known(s \o t, n, kinds, done) <=> Known(s, n, kinds, done) /\ Known(t, n, kinds, done)
<1>1. /\ Len(s) \in Nat /\ Len(t) \in Nat /\ Len(s \o t) = Len(s) + Len(t)
      /\ \A i \in 1 .. Len(s) : (s \o t)[i] = s[i]
      /\ \A i \in Len(s) + 1 .. Len(s \o t) : (s \o t)[i] = t[i - Len(s)]
      /\ \A i \in 1 .. Len(t) : (s \o t)[Len(s) + i] = t[i]
  BY JoinIs
<1> DEFINE u == s \o t
<1> HIDE DEF u
<1>2. \A i \in 1 .. Len(s) : i \in 1 .. Len(u) /\ s[i] = u[i]
  BY <1>1 DEF u
<1>3. \A i \in 1 .. Len(t) : Len(s) + i \in 1 .. Len(u) /\ t[i] = u[Len(s) + i]
  BY <1>1 DEF u
<1>4. \A i \in 1 .. Len(u) :
          \/ i \in 1 .. Len(s) /\ u[i] = s[i]
          \/ i - Len(s) \in 1 .. Len(t) /\ u[i] = t[i - Len(s)]
  <2> TAKE i \in 1 .. Len(u)
  <2>1. CASE i <= Len(s)
    BY <2>1, <1>1 DEF u
  <2>2. CASE ~(i <= Len(s))
    <3>1. i \in Len(s) + 1 .. Len(u) /\ i - Len(s) \in 1 .. Len(t)
      BY <2>2, <1>1 DEF u
    <3>2. QED
      BY <3>1, <1>1 DEF u
  <2>3. QED
    BY <2>1, <2>2
<1>5. Known(u, n, kinds, done) => Known(s, n, kinds, done)
  <2>1. \A i \in 1 .. Len(s) : \E j \in 1 .. Len(u) : s[i] = u[j]
    BY <1>2
  <2>2. QED
    BY <2>1, KnownPart
<1>6. Known(u, n, kinds, done) => Known(t, n, kinds, done)
  <2>1. \A i \in 1 .. Len(t) : \E j \in 1 .. Len(u) : t[i] = u[j]
    BY <1>3
  <2>2. QED
    BY <2>1, KnownPart
<1>7. Known(s, n, kinds, done) /\ Known(t, n, kinds, done) => Known(u, n, kinds, done)
  BY <1>4 DEF Known
<1>8. QED
  BY <1>5, <1>6, <1>7 DEF u

(* The first piece without its beginning.                                     *)
LEMMA CutIs ==
    ASSUME NEW s \in Seq(ReplyPieces), s # <<>>
    PROVE  /\ CutFirst(s) \in Seq(ReplyPieces) /\ CutFirst(s) # <<>>
           /\ \A n, kinds, done : Known(s, n, kinds, done) => Known(CutFirst(s), n, kinds, done)
<1>1. Len(s) \in Nat \ {0} /\ 1 \in 1 .. Len(s) /\ s[1] \in ReplyPieces
  <2>1. Len(s) \in Nat \ {0}
    BY TailIs
  <2>2. QED
    BY <2>1, ElementOfSeq
<1> DEFINE rest == [s[1] EXCEPT !.form = "rest"]
           t == CutFirst(s)
<1>2. rest \in ReplyPieces /\ rest.form = "rest" /\ rest.command = s[1].command /\ rest.ok = s[1].ok
  BY <1>1 DEF ReplyPieces, Forms
<1>3. t = [s EXCEPT ![1] = rest]
  BY DEF CutFirst
<1> HIDE DEF rest, t
<1>4. t \in Seq(ReplyPieces) /\ Len(t) = Len(s) /\ \A i \in 1 .. Len(s) : t[i] = IF i = 1 THEN rest ELSE s[i]
  BY <1>1, <1>2, <1>3
<1>5. t # <<>>
  BY <1>1, <1>4
<1>6. ASSUME NEW n, NEW kinds, NEW done, Known(s, n, kinds, done) PROVE Known(t, n, kinds, done)
  <2> SUFFICES ASSUME NEW i \in 1 .. Len(t)
               PROVE  /\ t[i].command \in 1 .. n
                      /\ t[i].form = "array" => t[i].count > 0
                      /\ kinds[t[i].command] \in Logins =>
                            /\ t[i].form \in {"line", "rest"}
                            /\ t[i].ok => kinds[t[i].command] \in done
    BY DEF Known
  <2>1. /\ s[i].command \in 1 .. n
        /\ s[i].form = "array" => s[i].count > 0
        /\ kinds[s[i].command] \in Logins =>
              /\ s[i].form \in {"line", "rest"}
              /\ s[i].ok => kinds[s[i].command] \in done
    BY <1>4, <1>6 DEF Known
  <2>2. CASE i = 1
    BY <2>1, <2>2, <1>2, <1>4
  <2>3. CASE i # 1
    BY <2>1, <2>3, <1>4
  <2>4. QED
    BY <2>2, <2>3
<1>7. QED
  BY <1>4, <1>5, <1>6 DEF t

(* What the server says of a command that did not arrive whole.               *)
LEMMA ReplyToPartIs ==
    ASSUME NEW k \in Nat, NEW r \in RepliesToPart(k)
    PROVE  /\ r \in Seq(ReplyPieces) /\ WholeValues(r, 0)
           /\ \A i \in 1 .. Len(r) : r[i].command = k /\ (r[i].form = "array" => r[i].count > 0)
           /\ commands[k] \in Logins => \A i \in 1 .. Len(r) : r[i].form = "line" /\ ~r[i].ok
<1>1. CASE r = <<>>
  <2>1. r \in Seq(ReplyPieces) /\ Len(r) = 0
    BY <1>1
  <2>2. QED
    BY <2>1 DEF WholeValues
<1>2. CASE r = <<Line(k, FALSE), Line(k, FALSE)>>
  <2> DEFINE x == Line(k, FALSE)
  <2>1. x \in ReplyPieces /\ x.form = "line" /\ x.command = k /\ ~x.ok
    BY DEF Line, Piece, ReplyPieces, Forms
  <2> HIDE DEF x
  <2>2. r = <<x, x>>
    BY <1>2 DEF x
  <2>3. r \in Seq(ReplyPieces) /\ Len(r) = 2 /\ \A i \in 1 .. 2 : r[i] = x
    BY <2>1, <2>2
  <2>4. QED
    BY <2>1, <2>3 DEF WholeValues
<1>3. CASE r \in Shapes(k) /\ (commands[k] \in Logins => ~r[1].ok)
  <2>1. /\ r \in Seq(ReplyPieces) /\ WholeValues(r, 0)
        /\ \A i \in 1 .. Len(r) : r[i].command = k /\ (r[i].form = "array" => r[i].count > 0)
        /\ commands[k] \in Logins => Len(r) = 1 /\ r[1].form = "line"
    BY <1>3, ReplyIs
  <2>2. commands[k] \in Logins => \A i \in 1 .. Len(r) : i = 1
    BY <2>1
  <2>3. QED
    BY <2>1, <2>2, <1>3
<1>4. QED
  BY <1>1, <1>2, <1>3 DEF RepliesToPart

(* Replies in turn: behind the first piece of the next reply, or of what is   *)
(* left of a value, and behind one more reply.                                *)
LEMMA TurnTail ==
    ASSUME NEW s \in Seq(ReplyPieces), s # <<>>, NEW l \in Nat, NEW m \in Nat, NEW next \in Nat, NEW end \in Nat,
           RepliesInTurn(s, l, next, end),
           NEW after \in Nat,
           \/ l > 0 /\ l <= Len(s) /\ m = l - 1 /\ after = next
           \/ l = 0 /\ m = Width(s[1]) - 1 /\ after = next + 1
    PROVE  RepliesInTurn(Tail(s), m, after, end) /\ m <= Len(Tail(s))
<1> DEFINE t == Tail(s)
           e == m + 2
<1>1. /\ t \in Seq(ReplyPieces) /\ Len(s) \in Nat \ {0} /\ Len(t) = Len(s) - 1
      /\ \A i \in 1 .. Len(t) : t[i] = s[i + 1]
  BY TailIs
<1> HIDE DEF t
<1>2. /\ e <= Len(s) + 1
      /\ e <= Len(s) => s[e].command = after
      /\ e = Len(s) + 1 => end = after - 1
      /\ e <= Len(s) => WholeReply(s, e)
  <2>1. CASE l > 0
    <3>1. e = l + 1 /\ after = next /\ l <= Len(s)
      BY <2>1
    <3>2. e <= Len(s) => WholeReply(s, e) /\ s[e].command = next
      BY <3>1, <1>1 DEF RepliesInTurn
    <3>3. e = Len(s) + 1 => end = next - 1
      BY <3>1, <1>1 DEF RepliesInTurn
    <3>4. QED
      BY <3>1, <3>2, <3>3
  <2>2. CASE l = 0
    <3>7. l + 1 = 1 /\ 1 \in l + 1 .. Len(s) /\ l < Len(s) /\ e = 1 + Width(s[1]) /\ after = next + 1
      <4>2. Width(s[1]) \in 1 .. 5
        BY DEF Width
      <4>3. QED
        BY <4>2, <2>2, <1>1
    <3>1. WholeReply(s, 1) /\ s[1].command = next /\ e = 1 + Width(s[1]) /\ after = next + 1 /\ s[Len(s)].command = end
      BY <3>7 DEF RepliesInTurn
    <3>2. e <= Len(s) + 1 /\ SameCommand(s, 1, e - 1) /\ (e <= Len(s) => s[e].command = s[1].command + 1)
      BY <3>1 DEF WholeReply
    <3>3. e <= Len(s) => s[e].command = after
      BY <3>1, <3>2
    <3>4. e = Len(s) + 1 => end = after - 1
      <4> SUFFICES ASSUME e = Len(s) + 1 PROVE end = after - 1
        OBVIOUS
      <4>1. Len(s) \in 1 .. e - 1
        BY <1>1
      <4>2. s[Len(s)].command = s[1].command
        BY <4>1, <3>2 DEF SameCommand
      <4>3. QED
        BY <4>2, <3>1
    <3>5. e <= Len(s) => WholeReply(s, e)
      <4> SUFFICES ASSUME e <= Len(s) PROVE WholeReply(s, e)
        OBVIOUS
      <4>1. e - 1 \in 1 .. e - 1 /\ e \in l + 1 .. Len(s)
        BY <2>2, <1>1
      <4>2. s[e - 1].command = s[1].command
        BY <4>1, <3>2 DEF SameCommand
      <4>3. s[e - 1].command # s[e].command
        BY <4>2, <3>1, <3>2
      <4>4. QED
        BY <4>1, <4>3 DEF RepliesInTurn
    <3>6. QED
      BY <3>2, <3>3, <3>4, <3>5
  <2>3. QED
    BY <2>1, <2>2
<1>3. ASSUME NEW i \in m + 1 .. Len(t), i = m + 1 \/ t[i - 1].command # t[i].command
      PROVE  WholeReply(t, i)
  <2> DEFINE j == i + 1
             f == j + Width(s[j])
  <2>1. j \in Nat /\ i \in Nat /\ i \in 1 .. Len(t) /\ j \in l + 1 .. Len(s) /\ t[i] = s[j]
    BY <1>1
  <2>2. WholeReply(s, j)
    <3>1. CASE i = m + 1
      BY <3>1, <1>2, <2>1
    <3>2. CASE i > m + 1
      <4>1. t[i - 1] = s[j - 1]
        BY <3>2, <2>1, <1>1
      <4>2. s[j - 1].command # s[j].command
        BY <4>1, <2>1, <1>3, <3>2
      <4>3. QED
        BY <4>2, <2>1 DEF RepliesInTurn
    <3>3. QED
      BY <3>1, <3>2, <2>1
  <2>3. /\ s[j].form \in {"line", "bulk", "array"} /\ f <= Len(s) + 1
        /\ SameCommand(s, j, f - 1)
        /\ f <= Len(s) => s[f].command = s[j].command + 1
    BY <2>2 DEF WholeReply
  <2>4. Width(s[j]) \in 1 .. 5
    BY DEF Width
  <2>5. i + Width(t[i]) = f - 1 /\ f - 1 <= Len(t) + 1 /\ f \in Nat
    <3>1. Len(t) = Len(s) - 1 /\ Len(s) \in Nat /\ Width(t[i]) = Width(s[j])
      BY <2>1, <1>1
    <3>2. QED
      BY <3>1, <2>1, <2>3, <2>4, SMTT(30)
  <2> HIDE DEF f
  <2>6. SameCommand(t, i, f - 1 - 1)
    <3> SUFFICES ASSUME NEW q \in i .. f - 1 - 1 PROVE t[q].command = t[i].command
      BY DEF SameCommand
    <3>1. q \in 1 .. Len(t) /\ q + 1 \in j .. f - 1
      BY <2>1, <2>5
    <3>2. QED
      BY <3>1, <2>1, <2>3, <1>1 DEF SameCommand
  <2>7. f - 1 <= Len(t) => t[f - 1].command = t[i].command + 1
    <3> SUFFICES ASSUME f - 1 <= Len(t) PROVE t[f - 1].command = t[i].command + 1
      OBVIOUS
    <3>4. f >= j + 1 /\ j >= 2
      BY <2>1, <2>4 DEF f
    <3>1. f - 1 \in 1 .. Len(t) /\ f <= Len(s)
      BY <3>4, <2>1, <2>5, <1>1
    <3>2. t[f - 1] = s[f]
      BY <3>1, <2>5, <1>1
    <3>3. QED
      BY <3>1, <3>2, <2>1, <2>3
  <2>8. QED
    BY <2>1, <2>3, <2>5, <2>6, <2>7 DEF WholeReply
<1>4. t # <<>> => t[Len(t)].command = end
  <2> SUFFICES ASSUME t # <<>> PROVE t[Len(t)].command = end
    OBVIOUS
  <2>1. Len(t) \in 1 .. Len(t)
    BY <1>1
  <2>2. t[Len(t)] = s[Len(s)]
    BY <2>1, <1>1
  <2>3. QED
    BY <2>2 DEF RepliesInTurn
<1>5. m <= Len(t) /\ (m < Len(t) => t[m + 1].command = after) /\ (m >= Len(t) => end = after - 1)
  BY <1>1, <1>2
<1>6. RepliesInTurn(t, m, after, end)
  BY <1>3, <1>4, <1>5, <1>1 DEF RepliesInTurn
<1>7. QED
  BY <1>5, <1>6 DEF t

LEMMA TurnJoin ==
    ASSUME NEW s \in Seq(ReplyPieces), NEW l \in Nat, l <= Len(s), NEW next \in Nat, NEW end \in Nat,
           RepliesInTurn(s, l, next, end), \A i \in 1 .. Len(s) : s[i].command <= end,
           NEW r \in Seq(ReplyPieces), Len(r) \in Nat \ {0}, Len(r) = Width(r[1]),
           r[1].form \in {"line", "bulk", "array"}, \A i \in 1 .. Len(r) : r[i].command = end + 1
    PROVE  RepliesInTurn(s \o r, l, next, end + 1) /\ l < Len(s \o r)
<1> DEFINE t == s \o r
           n == Len(s)
<1>1. /\ t \in Seq(ReplyPieces) /\ n \in Nat /\ Len(r) \in Nat \ {0} /\ Len(t) = n + Len(r)
      /\ \A i \in 1 .. n : t[i] = s[i]
      /\ \A i \in 1 .. Len(r) : t[n + i] = r[i]
      /\ \A i \in n + 1 .. Len(t) : t[i] = r[i - n]
  BY JoinIs
<1> HIDE DEF t
<1>2. t[n + 1] = r[1] /\ t[n + 1].command = end + 1 /\ n + 1 \in 1 .. Len(t)
  <2>1. 1 \in 1 .. Len(r) /\ n + 1 \in 1 .. Len(t)
    BY <1>1
  <2>2. t[n + 1] = r[1]
    BY <2>1, <1>1
  <2>3. QED
    BY <2>1, <2>2
<1>3. ASSUME NEW i \in l + 1 .. Len(t), i = l + 1 \/ t[i - 1].command # t[i].command
      PROVE  WholeReply(t, i)
  <2>1. i \in Nat /\ i \in 1 .. Len(t)
    BY <1>1
  <2>2. CASE i <= n
    <3> DEFINE e == i + Width(s[i])
    <3>1. i \in 1 .. n /\ t[i] = s[i] /\ i \in l + 1 .. n /\ (i > l + 1 => i - 1 \in 1 .. n)
      BY <2>1, <2>2, <1>1
    <3>2. i > l + 1 => t[i - 1] = s[i - 1]
      BY <3>1, <1>1
    <3>3. WholeReply(s, i)
      BY <3>1, <3>2, <1>3 DEF RepliesInTurn
    <3>4. /\ s[i].form \in {"line", "bulk", "array"} /\ e <= n + 1
          /\ SameCommand(s, i, e - 1)
          /\ e <= n => s[e].command = s[i].command + 1
      BY <3>3 DEF WholeReply
    <3>5. Width(s[i]) \in 1 .. 5
      BY DEF Width
    <3>6. e \in Nat /\ e >= i + 1
      BY <3>5, <2>1, SMTT(30)
    <3> HIDE DEF e
    <3>7. SameCommand(t, i, e - 1)
      <4> SUFFICES ASSUME NEW q \in i .. e - 1 PROVE t[q].command = t[i].command
        BY DEF SameCommand
      <4>1. q \in 1 .. n
        BY <3>1, <3>4, <3>6, <1>1
      <4>2. t[q] = s[q]
        BY <4>1, <1>1
      <4>3. QED
        BY <4>2, <3>1, <3>4 DEF SameCommand
    <3>8. t[e].command = t[i].command + 1
      <4>1. CASE e <= n
        <5>1. e \in 1 .. n
          BY <4>1, <3>6, <2>1
        <5>2. t[e] = s[e] /\ s[e].command = s[i].command + 1
          BY <4>1, <5>1, <3>4, <1>1
        <5>3. QED
          BY <5>2, <3>1
      <4>2. CASE e = n + 1
        <5>1. n \in i .. e - 1 /\ n \in 1 .. n /\ s # <<>>
          BY <4>2, <3>1, <1>1
        <5>2. s[n].command = end
          BY <5>1 DEF RepliesInTurn
        <5>3. s[i].command = end
          BY <5>1, <5>2, <3>4 DEF SameCommand
        <5>4. QED
          BY <4>2, <5>3, <3>1, <1>2
      <4>3. e <= n + 1 /\ e \in Nat /\ n \in Nat
        BY <3>4, <3>6, <1>1
      <4>4. e <= n \/ e = n + 1
        BY <4>3
      <4>5. QED
        BY <4>1, <4>2, <4>4
    <3>9. e <= Len(t) + 1
      BY <3>4, <3>6, <1>1
    <3>10. i + Width(t[i]) = e
      BY <3>1 DEF e
    <3>11. QED
      BY <3>1, <3>4, <3>7, <3>8, <3>9, <3>10 DEF WholeReply
  <2>3. CASE i > n
    <3>1. \A j \in n + 1 .. Len(t) : t[j].command = end + 1
      <4> SUFFICES ASSUME NEW j \in n + 1 .. Len(t) PROVE t[j].command = end + 1
        OBVIOUS
      <4>1. j - n \in 1 .. Len(r) /\ t[j] = r[j - n]
        BY <1>1
      <4>2. QED
        BY <4>1
    <3>2. i = n + 1
      <4> SUFFICES ASSUME i # n + 1 PROVE FALSE
        OBVIOUS
      <4>1. i \in n + 1 .. Len(t) /\ i - 1 \in n + 1 .. Len(t) /\ i # l + 1
        BY <2>1, <2>3, <1>1
      <4>2. QED
        BY <3>1, <4>1, <1>3
    <3>3. t[i] = r[1] /\ i + Width(t[i]) = Len(t) + 1
      BY <3>2, <1>1, <1>2
    <3>7. Len(t) + 1 - 1 = Len(t)
      BY <1>1
    <3>8. \A j \in i .. Len(t) : t[j].command = t[i].command
      BY <3>1, <3>2, <1>1
    <3>4. SameCommand(t, i, Len(t) + 1 - 1)
      BY <3>7, <3>8 DEF SameCommand
    <3>5. ~(i + Width(t[i]) <= Len(t))
      BY <3>3, <1>1
    <3>6. QED
      BY <3>3, <3>4, <3>5, <1>1 DEF WholeReply
  <2>4. QED
    BY <2>1, <2>2, <2>3, <1>1
<1>4. t[Len(t)].command = end + 1
  <2>1. Len(r) \in 1 .. Len(r) /\ Len(t) = n + Len(r)
    BY <1>1
  <2>2. t[Len(t)] = r[Len(r)]
    BY <2>1, <1>1
  <2>3. QED
    BY <2>1, <2>2
<1>5. l < Len(t) /\ t[l + 1].command = next
  <2>1. CASE l < n
    <3>1. l + 1 \in 1 .. n /\ s[l + 1].command = next
      BY <2>1, <1>1 DEF RepliesInTurn
    <3>2. QED
      BY <2>1, <3>1, <1>1
  <2>2. CASE l = n
    <3>1. end = next - 1
      BY <2>2, <1>1 DEF RepliesInTurn
    <3>2. QED
      BY <2>2, <3>1, <1>1, <1>2
  <2>3. QED
    BY <2>1, <2>2, <1>1
<1>6. QED
  BY <1>3, <1>4, <1>5 DEF RepliesInTurn, t

(* Nothing is left behind what has been commands for.                            *)
LEMMA TurnOver ==
    ASSUME NEW s \in Seq(ReplyPieces), NEW n, NEW kinds, NEW done, NEW next \in Nat, NEW end \in Nat,
           RepliesInTurn(s, 0, next, end), Known(s, end, kinds, done), end < next
    PROVE  s = <<>> /\ end = next - 1
<1>1. Len(s) \in Nat /\ (Len(s) = 0 <=> s = <<>>)
  OBVIOUS
<1>2. ASSUME Len(s) > 0 PROVE FALSE
  <2>1. 0 + 1 \in 1 .. Len(s) /\ 0 < Len(s)
    BY <1>1, <1>2
  <2>2. s[1].command = next /\ s[1].command \in 1 .. end
    BY <2>1 DEF RepliesInTurn, Known
  <2>3. QED
    BY <2>2
<1>3. QED
  BY <1>1, <1>2 DEF RepliesInTurn

LEMMA ControlInitInv == ControlInit => ControlInv
<1> SUFFICES ASSUME ControlInit PROVE ControlInv
  OBVIOUS
<1> USE DEF ControlInit
<1>1. sent = 0 /\ Unread = <<>> /\ Len(Unread) = 0 /\ Left = 0 /\ Following = 1
  BY DEF sent, Unread, Left, Following
<1>2. Len(Plan) \in Nat
  BY SetupsAssumption DEF Plan
<1>3. ControlTypeOK
  BY <1>1, <1>2 DEF ControlTypeOK
<1>4. BatchesInTurn
  BY <1>1 DEF BatchesInTurn
<1>5. Known(Unread, served, commands, session)
  BY <1>1 DEF Known
<1>6. Untorn
  BY <1>1 DEF Untorn, WholeValues, Cursor, Loose
<1>7. InTurn
  BY <1>1 DEF InTurn, RepliesInTurn
<1>8. LoggedIn
  BY DEF LoggedIn
<1>9. AnswersBelong
  BY <1>1 DEF AnswersBelong, InStepUntilFailure, AnswersAreWhole
<1>10. WrittenWhole /\ PanicsAreOfLeftovers
  BY <1>1 DEF WrittenWhole, PanicsAreOfLeftovers
<1>11. QED
  BY <1>3, <1>4, <1>5, <1>6, <1>7, <1>8, <1>9, <1>10 DEF ControlInv

(* The plan of a setup.                                                       *)
LEMMA PlanIs ==
    ASSUME ControlTypeOK
    PROVE  /\ Plan \in Seq([kind : Kinds, size : Nat \ {0}]) /\ Len(Plan) \in Nat
           /\ \A b \in 1 .. Len(Plan) : Plan[b].kind \in Kinds /\ BatchSize(b) \in Nat \ {0}
           /\ \A b \in 1 .. Len(Plan) : Plan[b].kind \in Logins =>
                  \A c \in 1 .. b : Plan[c].kind \in Logins /\ BatchSize(c) = 1
           /\ sent \in Nat
<1>1. setup \in Setups /\ commands \in Seq(Kinds)
  BY DEF ControlTypeOK
<1>2. Plan \in Seq([kind : Kinds, size : Nat \ {0}])
  BY <1>1, SetupsAssumption DEF Plan
<1>3. \A b \in 1 .. Len(Plan) : Plan[b] \in [kind : Kinds, size : Nat \ {0}]
  BY <1>2, ElementOfSeq
<1>4. \A b \in 1 .. Len(Plan) : Plan[b].kind \in Kinds /\ BatchSize(b) \in Nat \ {0}
  BY <1>3 DEF BatchSize
<1>5. \A b \in 1 .. Len(Plan) : Plan[b].kind \in Logins =>
          \A c \in 1 .. b : Plan[c].kind \in Logins /\ BatchSize(c) = 1
  <2>1. \A b \in 1 .. Len(setup.plan) : setup.plan[b].kind \in Logins =>
            \A c \in 1 .. b : setup.plan[c].kind \in Logins /\ setup.plan[c].size = 1
    BY <1>1, LoginsComeFirst
  <2>2. QED
    BY <2>1 DEF Plan, BatchSize
<1>6. QED
  BY <1>1, <1>2, <1>4, <1>5 DEF sent

LEMMA AfterIs ==
    ASSUME NEW b, NEW x
    PROVE  After(b, x) \in {"ready", "exited"}
BY DEF After

LEMMA NoLoose ==
    0 # Loose /\ 1 # Loose /\ 2 # Loose
BY DEF Loose

(* What is needed of the invariant about the pieces that have not been read.  *)
LEMMA StreamOf ==
    ASSUME ControlTypeOK
    PROVE  /\ Unread \in Seq(ReplyPieces) /\ coming \in Seq(ReplyPieces) /\ wire \in Seq(ReplyPieces)
           /\ wire # <<>> => /\ Unread # <<>> /\ Unread[1] = wire[1] /\ Tail(wire) \o coming = Tail(Unread)
                             /\ Tail(wire) \in Seq(ReplyPieces) /\ wire[1] \in ReplyPieces /\ 1 \in 1 .. Len(Unread)
           /\ wire = <<>> => Unread = coming
           /\ Len(Unread) \in Nat /\ (Unread = <<>> <=> Len(Unread) = 0)
<1>1. coming \in Seq(ReplyPieces) /\ wire \in Seq(ReplyPieces)
  BY DEF ControlTypeOK
<1>2. Unread \in Seq(ReplyPieces)
  BY <1>1, JoinIs DEF Unread
<1>3. Len(Unread) \in Nat /\ (Unread = <<>> <=> Len(Unread) = 0)
  BY <1>2
<1>4. ASSUME wire # <<>>
      PROVE  /\ Unread # <<>> /\ Unread[1] = wire[1] /\ Tail(wire) \o coming = Tail(Unread)
             /\ Tail(wire) \in Seq(ReplyPieces) /\ wire[1] \in ReplyPieces /\ 1 \in 1 .. Len(Unread)
  <2>1. Unread # <<>> /\ Unread[1] = wire[1] /\ Tail(wire) \o coming = Tail(Unread)
    BY <1>1, <1>4, StreamIs DEF Unread
  <2>2. Tail(wire) \in Seq(ReplyPieces) /\ Len(wire) \in Nat \ {0}
    BY <1>1, <1>4, TailIs
  <2>3. wire[1] \in ReplyPieces
    BY <1>1, <2>2, ElementOfSeq
  <2>4. QED
    BY <2>1, <2>2, <2>3, <1>3
<1>5. wire = <<>> => Unread = coming
  BY <1>1, StreamIs DEF Unread
<1>6. QED
  BY <1>1, <1>2, <1>3, <1>4, <1>5

(* A piece that is read goes on with a value, ends one, fails or panics.      *)
LEMMA PieceRead ==
    ASSUME ControlInv, ReadPiece
    PROVE  /\ pc = "reading" /\ wire # <<>> /\ UNCHANGED <<remoteVars, arriving>>
           /\ \/ \E rest \in {Tail(wire), CutFirst(wire)}, m \in Nat \ {0}, b \in Nat \cup {Loose} : GoOn(rest, m, b)
              \/ \E rest \in {Tail(wire), CutFirst(wire)}, ok \in BOOLEAN : EndValue(rest, ok, Made)
              \/ FailBatch /\ EndDecode(Tail(wire))
              \/ Panic
<1>1. pc = "reading" /\ wire # <<>> /\ UNCHANGED <<remoteVars, arriving>> /\ ControlTypeOK
  BY DEF ReadPiece, ControlInv
<1>2. need \in Nat /\ need > 0 /\ body \in Nat \cup {Loose}
  BY <1>1 DEF ControlTypeOK
<1>3. wire[1] = Unread[1] /\ wire[1] \in ReplyPieces /\ 1 \in 1 .. Len(Unread)
  BY <1>1, StreamOf
<1>4. wire[1].form \in Forms /\ wire[1].count \in Nat /\ wire[1].ok \in BOOLEAN
  BY <1>3 DEF ReplyPieces
<1>5. wire[1].form = "array" => wire[1].count > 0
  BY <1>3 DEF ControlInv, Known
<1> DEFINE Rests == {Tail(wire), CutFirst(wire)}
           Goal == \/ \E rest \in Rests, m \in Nat \ {0}, b \in Nat \cup {Loose} : GoOn(rest, m, b)
                   \/ \E rest \in Rests, ok \in BOOLEAN : EndValue(rest, ok, Made)
                   \/ FailBatch /\ EndDecode(Tail(wire))
                   \/ Panic
<1> SUFFICES Goal
  BY <1>1
<1>6. ASSUME NEW rest \in Rests, NEW ok \in BOOLEAN, ReadValue(rest, ok) PROVE Goal
  <2>1. CASE need = 1
    BY <2>1, <1>6 DEF ReadValue
  <2>2. CASE need # 1
    <3>1. GoOn(rest, need - 1, 0) /\ need - 1 \in Nat \ {0} /\ 0 \in Nat
      BY <2>2, <1>2, <1>6 DEF ReadValue
    <3>2. QED
      BY <3>1
  <2>3. QED
    BY <2>1, <2>2
<1>7. ASSUME NEW m \in Nat, m > 0, NEW b \in Nat \cup {Loose}, GoOn(Tail(wire), m, b) PROVE Goal
  BY <1>7
<1>8. CASE ReadBody
  <2>1. body > 0
    BY <1>8 DEF ReadBody
  <2>2. CASE body = 1
    <3>1. ReadValue(Tail(wire), TRUE)
      BY <1>8, <2>2 DEF ReadBody
    <3>2. QED
      BY <3>1, <1>6
  <2>3. CASE body # 1
    <3>1. GoOn(Tail(wire), need, body - 1)
      BY <1>8, <2>3 DEF ReadBody
    <3>2. body - 1 \in Nat
      BY <2>1, <1>2 DEF Loose
    <3>3. QED
      BY <3>1, <3>2, <1>2, <1>7
  <2>4. QED
    BY <2>2, <2>3
<1>9. CASE ReadStray
  <2>1. ASSUME NEW ok \in BOOLEAN, ReadValue(Tail(wire), ok) PROVE Goal
    BY <2>1, <1>6
  <2>2. CASE GoOn(Tail(wire), need, Loose)
    BY <2>2, <1>2, <1>7
  <2>3. ASSUME NEW count \in StrayCounts, GoOn(Tail(wire), need - 1 + count, 0) PROVE Goal
    <3>1. count \in Nat \ {0}
      BY CountsAssumption
    <3>2. need - 1 + count \in Nat /\ need - 1 + count > 0
      BY <3>1, <1>2
    <3>3. QED
      BY <3>2, <2>3, <1>7
  <2>4. CASE FailBatch /\ EndDecode(Tail(wire))
    BY <2>4
  <2>5. CASE Panic
    BY <2>5
  <2>6. QED
    BY <1>9, <2>1, <2>2, <2>3, <2>4, <2>5 DEF ReadStray
<1>10. CASE ReadLoose
  <2>1. CASE GoOn(Tail(wire), need, Loose)
    BY <2>1, <1>2, <1>7
  <2>2. CASE ReadValue(Tail(wire), TRUE)
    BY <2>2, <1>6
  <2>3. CASE ReadValue(CutFirst(wire), TRUE)
    BY <2>3, <1>6
  <2>4. QED
    BY <1>10, <2>1, <2>2, <2>3 DEF ReadLoose
<1>11. CASE wire[1].form = "line" /\ ReadValue(Tail(wire), wire[1].ok)
  BY <1>11, <1>4, <1>6
<1>12. CASE wire[1].form = "bulk" /\ GoOn(Tail(wire), need, wire[1].count)
  BY <1>12, <1>2, <1>4, <1>7
<1>13. CASE wire[1].form = "array" /\ GoOn(Tail(wire), need - 1 + wire[1].count, 0)
  <2>1. need - 1 + wire[1].count \in Nat /\ need - 1 + wire[1].count > 0
    BY <1>2, <1>4, <1>5, <1>13
  <2>2. QED
    BY <2>1, <1>13, <1>7
<1>14. \/ ReadBody \/ ReadLoose \/ ReadStray
       \/ wire[1].form = "line" /\ ReadValue(Tail(wire), wire[1].ok)
       \/ wire[1].form = "bulk" /\ GoOn(Tail(wire), need, wire[1].count)
       \/ wire[1].form = "array" /\ GoOn(Tail(wire), need - 1 + wire[1].count, 0)
  <2>1. CASE wire[1].form = "line"
    BY <2>1 DEF ReadPiece
  <2>2. CASE wire[1].form = "bulk"
    BY <2>2 DEF ReadPiece
  <2>3. CASE wire[1].form = "array"
    BY <2>3 DEF ReadPiece
  <2>4. CASE wire[1].form \in {"body", "rest"}
    BY <2>4 DEF ReadPiece
  <2>5. QED
    BY <2>1, <2>2, <2>3, <2>4, <1>4 DEF Forms
<1>15. QED
  BY <1>8, <1>9, <1>10, <1>11, <1>12, <1>13, <1>14

(* When values are whole, the decoder knows what it reads.                    *)
LEMMA WholeRead ==
    ASSUME ControlInv, ReadPiece, torn = {}
    PROVE  /\ WholeValues(Unread, body) /\ Cursor(Unread) /\ Made = {Unread[1].command}
           /\ \/ Unread[1].form = "array" /\ body = 0 /\ parts = {} /\ need = 1 /\ GoOn(Tail(wire), 2, 0)
              \/ Unread[1].form = "bulk" /\ body = 0 /\ need = 1 /\ GoOn(Tail(wire), 1, 2)
              \/ /\ Unread[1].form = "line" /\ body = 0 /\ parts = {} /\ need = 1
                 /\ EndValue(Tail(wire), Unread[1].ok, Made)
              \/ Unread[1].form = "line" /\ body = 0 /\ parts # {} /\ need = 2 /\ GoOn(Tail(wire), 1, 0)
              \/ Unread[1].form = "body" /\ body = 2 /\ parts # {} /\ need = 1 /\ GoOn(Tail(wire), 1, 1)
              \/ /\ Unread[1].form = "body" /\ body = 1 /\ parts # {} /\ need = 1
                 /\ EndValue(Tail(wire), TRUE, Made)
<1> DEFINE x == Unread[1]
<1>1. pc = "reading" /\ wire # <<>> /\ ControlTypeOK
  BY DEF ReadPiece, ControlInv
<1>2. need \in Nat /\ need > 0 /\ body \in Nat
  <2>1. need \in Nat /\ need > 0 /\ body \in Nat \cup {Loose}
    BY <1>1 DEF ControlTypeOK
  <2>2. body # Loose
    BY DEF ControlInv, Untorn, Cursor
  <2>3. QED
    BY <2>1, <2>2
<1>3. wire[1] = x /\ x \in ReplyPieces /\ 1 \in 1 .. Len(Unread)
  BY <1>1, StreamOf
<1>4. WholeValues(Unread, body) /\ Cursor(Unread)
  BY DEF ControlInv, Untorn
<1>5. x.form \in Forms /\ x.form # "rest" /\ (x.form = "array" => x.count = 2) /\ (x.form = "bulk" => x.count = 2)
  BY <1>3, <1>4 DEF WholeValues, ReplyPieces
<1>6. x.form = "body" => body > 0
  <2>1. x.form = "body" => 1 <= body \/ 1 > 1 \/ 1 > 2
    BY <1>3, <1>4 DEF WholeValues
  <2>2. QED
    BY <2>1, <1>2
<1>7. Made = {x.command}
  <2>1. parts = {} \/ parts = {x.command}
    BY <1>4 DEF Cursor
  <2>2. QED
    BY <2>1, <1>3 DEF Made
<1>8. CASE body > 0
  <2>1. body \in {1, 2} /\ need = 1 /\ parts # {} /\ x.form = "body"
    BY <1>4, <1>8 DEF Cursor
  <2>2. ReadBody
    <3>1. ReadBody \/ ReadLoose \/ body = 0
      BY DEF ReadPiece
    <3>2. body # Loose
      BY <1>4 DEF Cursor
    <3>3. ~ReadLoose
      BY <3>2 DEF ReadLoose
    <3>4. QED
      BY <3>1, <3>3, <1>8
  <2>3. CASE body = 2
    <3>1. GoOn(Tail(wire), need, body - 1)
      BY <2>2, <2>3 DEF ReadBody
    <3>2. GoOn(Tail(wire), 1, 1)
      BY <3>1, <2>1, <2>3
    <3>3. QED
      BY <3>2, <2>1, <2>3, <1>4, <1>7
  <2>4. CASE body = 1
    <3>1. EndValue(Tail(wire), TRUE, Made)
      BY <2>1, <2>2, <2>4 DEF ReadBody, ReadValue
    <3>2. QED
      BY <3>1, <2>1, <2>4, <1>4, <1>7
  <2>5. QED
    BY <2>1, <2>3, <2>4
<1>9. CASE body = 0
  <2>1. ~ReadBody /\ ~ReadLoose /\ x.form \in {"line", "bulk", "array"}
    BY <1>5, <1>6, <1>9 DEF ReadBody, ReadLoose, Loose, Forms
  <2>2. /\ parts = {} => need = 1
        /\ parts # {} => (need = 1 /\ x.form = "bulk") \/ (need = 2 /\ x.form = "line")
    BY <1>2, <1>4, <1>9 DEF Cursor
  <2>3. CASE x.form = "line"
    <3>1. ReadValue(Tail(wire), x.ok)
      BY <2>1, <2>3, <1>3 DEF ReadPiece
    <3>2. CASE parts = {}
      <4>1. EndValue(Tail(wire), x.ok, Made)
        BY <2>2, <3>1, <3>2 DEF ReadValue
      <4>2. QED
        BY <4>1, <2>2, <2>3, <3>2, <1>4, <1>7, <1>9
    <3>3. CASE parts # {}
      <4>1. need = 2
        BY <2>2, <2>3, <3>3
      <4>2. GoOn(Tail(wire), need - 1, 0)
        BY <3>1, <4>1 DEF ReadValue
      <4>3. GoOn(Tail(wire), 1, 0)
        BY <4>1, <4>2
      <4>4. QED
        BY <4>1, <4>3, <2>3, <3>3, <1>4, <1>7, <1>9
    <3>4. QED
      BY <3>2, <3>3
  <2>4. CASE x.form = "bulk"
    <3>1. GoOn(Tail(wire), need, wire[1].count)
      BY <2>1, <2>4, <1>3 DEF ReadPiece
    <3>2. need = 1 /\ wire[1].count = 2
      BY <2>2, <2>4, <1>3, <1>5
    <3>3. GoOn(Tail(wire), 1, 2)
      BY <3>1, <3>2
    <3>4. QED
      BY <3>2, <3>3, <2>4, <1>4, <1>7, <1>9
  <2>5. CASE x.form = "array"
    <3>1. GoOn(Tail(wire), need - 1 + wire[1].count, 0)
      BY <2>1, <2>5, <1>3 DEF ReadPiece
    <3>2. parts = {} /\ need = 1 /\ wire[1].count = 2
      BY <2>2, <2>5, <1>3, <1>5
    <3>3. GoOn(Tail(wire), 2, 0)
      BY <3>1, <3>2
    <3>4. QED
      BY <3>2, <3>3, <2>5, <1>4, <1>7, <1>9
  <2>6. QED
    BY <2>1, <2>3, <2>4, <2>5
<1>10. body > 0 \/ body = 0
  BY <1>2
<1>11. QED
  BY <1>8, <1>9, <1>10

(* Reading takes the first piece or a part of it, and at worst what else has  *)
(* arrived and a part of what comes.                                          *)
LEMMA ReadLeaves ==
    ASSUME ControlInv, ReadPiece
    PROVE  /\ UNCHANGED <<setup, batch, commands, flushed, remoteVars, arriving, sent, Plan>>
           /\ \A b : BatchSize(b)' = BatchSize(b)
           /\ failures \subseteq failures' /\ torn \subseteq torn' /\ torn' \subseteq torn \cup {reading}
           /\ wire' \in {Tail(wire), CutFirst(wire), <<>>}
           /\ coming' = coming \/ (coming # <<>> /\ coming' = CutFirst(coming))
<1>1. ASSUME NEW rest \in {Tail(wire), CutFirst(wire)}, EndDecode(rest)
      PROVE  /\ torn \subseteq torn' /\ torn' \subseteq torn \cup {reading}
             /\ wire' \in {Tail(wire), CutFirst(wire), <<>>}
             /\ coming' = coming \/ (coming # <<>> /\ coming' = CutFirst(coming))
  BY <1>1 DEF EndDecode
<1>2. UNCHANGED <<remoteVars, arriving>>
  BY PieceRead
<1> DEFINE Leaves == /\ UNCHANGED <<setup, batch, commands, flushed>>
                     /\ failures \subseteq failures' /\ torn \subseteq torn' /\ torn' \subseteq torn \cup {reading}
                     /\ wire' \in {Tail(wire), CutFirst(wire), <<>>}
                     /\ coming' = coming \/ (coming # <<>> /\ coming' = CutFirst(coming))
<1>3. Leaves
  <2>1. ASSUME NEW rest \in {Tail(wire), CutFirst(wire)}, NEW m, NEW b, GoOn(rest, m, b)
        PROVE  Leaves
    BY <2>1 DEF GoOn
  <2>2. ASSUME NEW rest \in {Tail(wire), CutFirst(wire)}, NEW ok, EndValue(rest, ok, Made)
        PROVE  Leaves
    BY <2>2, <1>1 DEF EndValue
  <2>3. CASE FailBatch /\ EndDecode(Tail(wire))
    BY <2>3, <1>1 DEF FailBatch
  <2>4. CASE Panic
    BY <2>4 DEF Panic
  <2>5. QED
    BY <2>1, <2>2, <2>3, <2>4, PieceRead
<1>4. QED
  BY <1>2, <1>3 DEF sent, Plan, BatchSize

(* As long as nothing is torn, it takes a piece.                              *)
LEMMA WholeLeaves ==
    ASSUME ControlInv, ReadPiece, torn' = {}
    PROVE  torn = {} /\ Unread' = Tail(Unread)
<1>1. torn = {} /\ wire # <<>> /\ ControlTypeOK
  BY ReadLeaves, PieceRead DEF ControlInv
<1>2. Tail(wire) \o coming = Tail(Unread) /\ Tail(wire) \in Seq(ReplyPieces)
  BY <1>1, StreamOf
<1>3. wire' = Tail(wire) /\ coming' = coming
  <2>1. ASSUME NEW m, NEW b, GoOn(Tail(wire), m, b) PROVE wire' = Tail(wire) /\ coming' = coming
    BY <2>1 DEF GoOn
  <2>2. ASSUME NEW ok, EndValue(Tail(wire), ok, Made) PROVE wire' = Tail(wire) /\ coming' = coming
    BY <2>2 DEF EndValue, EndDecode
  <2>3. QED
    BY <2>1, <2>2, <1>1, WholeRead
<1>4. QED
  BY <1>1, <1>2, <1>3 DEF Unread

LEMMA ReadKeepsType ==
    ASSUME ControlInv, ReadPiece
    PROVE  ControlTypeOK' /\ BatchesInTurn'
<1>1. ControlTypeOK /\ BatchesInTurn /\ pc = "reading" /\ wire # <<>>
  BY PieceRead DEF ControlInv
<1>2. /\ reading \in 1 .. sent /\ batch > 0 /\ batch \in 1 .. Len(Plan) /\ sent - BatchSize(batch) < reading
      /\ BatchSize(batch) \in Nat \ {0} /\ sent \in Nat /\ need \in Nat
  <2>1. batch \in 0 .. Len(Plan) /\ batch > 0 /\ Len(Plan) \in Nat
    BY <1>1, PlanIs DEF ControlTypeOK, BatchesInTurn
  <2>2. batch \in 1 .. Len(Plan)
    BY <2>1
  <2>3. BatchSize(batch) \in Nat \ {0} /\ sent \in Nat
    BY <1>1, <2>2, PlanIs
  <2>4. sent - BatchSize(batch) < reading /\ BatchSize(batch) <= sent /\ reading \in 0 .. sent /\ need \in Nat
    BY <1>1, <2>1 DEF BatchesInTurn, ControlTypeOK
  <2>5. QED
    BY <2>1, <2>2, <2>3, <2>4
<1>3. /\ wire' \in Seq(ReplyPieces) /\ coming' \in Seq(ReplyPieces) /\ Made \subseteq Nat
      /\ torn' \subseteq 1 .. sent /\ torn' \subseteq torn \cup {reading}
      /\ arriving' \in {"nothing", "part", "more"} /\ (arriving' # "nothing" => coming' # <<>>)
  <2>1. wire[1] \in ReplyPieces /\ coming \in Seq(ReplyPieces) /\ wire \in Seq(ReplyPieces)
    BY <1>1, StreamOf
  <2>2. wire[1].command \in Nat
    BY <2>1 DEF ReplyPieces
  <2>3. Made \subseteq Nat
    BY <2>2, <1>1 DEF Made, ControlTypeOK
  <2>4. torn' \subseteq torn \cup {reading} /\ torn \subseteq 1 .. sent
    BY <1>1, ReadLeaves DEF ControlTypeOK
  <2>5. torn' \subseteq 1 .. sent
    BY <2>4, <1>2
  <2>6. Tail(wire) \in Seq(ReplyPieces) /\ CutFirst(wire) \in Seq(ReplyPieces) /\ <<>> \in Seq(ReplyPieces)
    BY <2>1, <1>1, TailIs, CutIs
  <2>7. wire' \in Seq(ReplyPieces)
    BY <2>6, ReadLeaves
  <2>8. coming' \in Seq(ReplyPieces) /\ (coming # <<>> => coming' # <<>>)
    BY <2>1, CutIs, ReadLeaves
  <2>9. arriving' = arriving
    BY ReadLeaves
  <2>10. QED
    BY <2>3, <2>4, <2>5, <2>7, <2>8, <2>9, <1>1 DEF ControlTypeOK
<1>4. /\ setup' = setup /\ batch' = batch /\ commands' = commands /\ sent' = sent /\ Plan' = Plan
      /\ BatchSize(batch)' = BatchSize(batch) /\ flushed' = flushed
      /\ served' = served /\ lost' = lost /\ session' = session /\ connected' = connected
  BY ReadLeaves DEF remoteVars
<1>5. ASSUME NEW rest, NEW m \in Nat \ {0}, NEW b \in Nat \cup {Loose}, GoOn(rest, m, b)
      PROVE  ControlTypeOK' /\ BatchesInTurn'
  <2>1. /\ need' = m /\ body' = b /\ parts' = Made /\ pc' = pc /\ reading' = reading /\ answers' = answers
        /\ failures' = failures /\ torn' = torn
    BY <1>5 DEF GoOn
  <2>2. ControlTypeOK'
    BY <2>1, <1>1, <1>3, <1>4 DEF ControlTypeOK
  <2>3. BatchesInTurn'
    BY <2>1, <1>1, <1>4 DEF BatchesInTurn
  <2>4. QED
    BY <2>2, <2>3
<1>6. ASSUME NEW rest, NEW ok \in BOOLEAN, EndValue(rest, ok, Made)
      PROVE  ControlTypeOK' /\ BatchesInTurn'
  <2>1. /\ answers' = [answers EXCEPT ![reading] = Made] /\ body' = 0 /\ parts' = {} /\ failures' = failures
        /\ \/ reading < sent /\ reading' = reading + 1 /\ need' = 1 /\ pc' = pc
           \/ ~(reading < sent) /\ pc' = After(batch, ok) /\ need' = 0 /\ reading' = reading
    BY <1>6 DEF EndValue
  <2>2. answers' \in Seq(SUBSET Nat) /\ Len(answers') = sent
    <3>1. answers \in Seq(SUBSET Nat) /\ Len(answers) = sent
      BY <1>1 DEF ControlTypeOK
    <3>2. QED
      BY <3>1, <2>1, <1>2, <1>3
  <2>3. CASE reading < sent /\ reading' = reading + 1 /\ need' = 1 /\ pc' = pc
    <3>1. ControlTypeOK'
      BY <2>1, <2>2, <2>3, <1>1, <1>2, <1>3, <1>4 DEF ControlTypeOK
    <3>2. \A f \in failures' \cup torn' : f < reading'
      BY <2>1, <2>3, <1>1, <1>2, <1>3 DEF BatchesInTurn, ControlTypeOK
    <3>3. BatchesInTurn'
      BY <3>2, <2>1, <2>3, <1>1, <1>2, <1>4 DEF BatchesInTurn
    <3>4. QED
      BY <3>1, <3>3
  <2>4. CASE ~(reading < sent) /\ pc' = After(batch, ok) /\ need' = 0 /\ reading' = reading
    <3>1. pc' \in {"ready", "exited"} /\ reading = sent
      BY <2>4, <1>2, AfterIs
    <3>2. ControlTypeOK'
      BY <2>1, <2>2, <2>4, <3>1, <1>1, <1>2, <1>3, <1>4 DEF ControlTypeOK
    <3>3. BatchesInTurn'
      BY <2>1, <2>4, <3>1, <1>1, <1>2, <1>4 DEF BatchesInTurn
    <3>4. QED
      BY <3>2, <3>3
  <2>5. QED
    BY <2>1, <2>3, <2>4
<1>7. ASSUME FailBatch
      PROVE  ControlTypeOK' /\ BatchesInTurn'
  <2>1. /\ pc' \in {"ready", "exited"} /\ failures' = failures \cup {reading} /\ need' = 0 /\ body' = 0 /\ parts' = {}
        /\ reading' = reading /\ answers' = answers
    BY <1>7, AfterIs DEF FailBatch
  <2>2. ControlTypeOK'
    BY <2>1, <1>1, <1>2, <1>3, <1>4 DEF ControlTypeOK
  <2>3. BatchesInTurn'
    BY <2>1, <1>1, <1>2, <1>4 DEF BatchesInTurn
  <2>4. QED
    BY <2>2, <2>3
<1>8. ASSUME Panic
      PROVE  ControlTypeOK' /\ BatchesInTurn'
  <2>1. /\ pc' = "panicked" /\ need' = 0 /\ body' = 0 /\ parts' = {} /\ failures' = failures
        /\ reading' = reading /\ answers' = answers
    BY <1>8 DEF Panic
  <2>2. ControlTypeOK'
    BY <2>1, <1>1, <1>2, <1>3, <1>4 DEF ControlTypeOK
  <2>3. BatchesInTurn'
    BY <2>1, <1>1, <1>2, <1>4 DEF BatchesInTurn
  <2>4. QED
    BY <2>2, <2>3
<1>9. QED
  BY <1>5, <1>6, <1>7, <1>8, PieceRead

LEMMA ReadKeepsKnown ==
    ASSUME ControlInv, ReadPiece
    PROVE  Known(Unread, served, commands, session)' /\ WrittenWhole'
<1>1. Known(Unread, served, commands, session) /\ ControlTypeOK /\ WrittenWhole /\ wire # <<>>
  BY PieceRead DEF ControlInv
<1>2. /\ served' = served /\ session' = session /\ commands' = commands /\ lost' = lost /\ flushed' = flushed
      /\ sent' = sent /\ failures \subseteq failures'
  BY ReadLeaves DEF remoteVars
<1>3. coming \in Seq(ReplyPieces) /\ wire \in Seq(ReplyPieces) /\ coming' \in Seq(ReplyPieces) /\ wire' \in Seq(ReplyPieces)
  BY <1>1, ReadKeepsType DEF ControlTypeOK
<1> DEFINE KnownNow(s) == Known(s, served, commands, session)
<1>4. KnownNow(wire) /\ KnownNow(coming)
  BY <1>1, <1>3, KnownJoin DEF Unread
<1>5. KnownNow(Tail(wire)) /\ KnownNow(CutFirst(wire)) /\ (coming # <<>> => KnownNow(CutFirst(coming)))
  BY <1>1, <1>3, <1>4, KnownTail, CutIs
<1>6. KnownNow(<<>>)
  BY DEF Known
<1>7. KnownNow(wire') /\ KnownNow(coming')
  BY <1>4, <1>5, <1>6, ReadLeaves
<1>8. KnownNow(wire' \o coming')
  BY <1>3, <1>7, KnownJoin
<1>9. WrittenWhole'
  BY <1>1, <1>2 DEF WrittenWhole
<1>10. QED
  BY <1>2, <1>8, <1>9 DEF Unread

LEMMA ReadKeepsUntorn ==
    ASSUME ControlInv, ReadPiece
    PROVE  Untorn'
<1>1. SUFFICES ASSUME torn' = {} PROVE WholeValues(Unread', body') /\ Cursor(Unread)'
  BY DEF Untorn
<1>2. torn = {} /\ Unread' = Tail(Unread) /\ ControlTypeOK /\ pc = "reading" /\ wire # <<>>
  BY <1>1, WholeLeaves, PieceRead DEF ControlInv
<1> DEFINE s == Unread
           t == Tail(s)
<1>3. s \in Seq(ReplyPieces) /\ s # <<>> /\ Len(s) \in Nat \ {0} /\ 1 \in 1 .. Len(s) /\ s[1] \in ReplyPieces
  BY <1>2, StreamOf, TailIs
<1>4. /\ t \in Seq(ReplyPieces) /\ Len(t) = Len(s) - 1 /\ \A i \in 1 .. Len(t) : t[i] = s[i + 1]
  BY <1>3, TailIs
<1>5. WholeValues(s, body) /\ Cursor(s) /\ Made = {s[1].command}
  BY <1>2, WholeRead
<1>0. Unread' = t
  BY <1>2
<1>6. /\ s[1].form = "array" =>
            /\ s[1].count = 2 /\ 5 <= Len(s) /\ SameCommand(s, 1, 5)
            /\ s[2].form = "line" /\ s[3].form = "bulk"
      /\ s[1].form = "bulk" =>
            /\ s[1].count = 2 /\ 3 <= Len(s) /\ SameCommand(s, 1, 3)
            /\ s[2].form = "body" /\ s[3].form = "body"
  <2>1. /\ s[1].form = "array" =>
              /\ s[1].count = 2 /\ 1 + 4 <= Len(s) /\ SameCommand(s, 1, 1 + 4)
              /\ s[1 + 1].form = "line" /\ s[1 + 2].form = "bulk"
        /\ s[1].form = "bulk" =>
              /\ s[1].count = 2 /\ 1 + 2 <= Len(s) /\ SameCommand(s, 1, 1 + 2)
              /\ s[1 + 1].form = "body" /\ s[1 + 2].form = "body"
    BY <1>3, <1>5 DEF WholeValues
  <2>2. 1 + 4 = 5 /\ 1 + 1 = 2 /\ 1 + 2 = 3
    OBVIOUS
  <2>3. QED
    BY <2>1, <2>2
<1> HIDE DEF s, t
<1>7. ASSUME NEW n \in Nat, SameCommand(s, 1, n + 1), n < Len(s)
      PROVE  SameCommand(t, 1, n) /\ (n > 0 => t[1].command = s[1].command)
  <2>1. \A i \in 1 .. n : i \in 1 .. Len(t) /\ i + 1 \in 1 .. n + 1
    BY <1>3, <1>4, <1>7
  <2>2. \A i \in 1 .. n : t[i].command = s[1].command
    BY <2>1, <1>4, <1>7 DEF SameCommand
  <2>3. n > 0 => 1 \in 1 .. n
    OBVIOUS
  <2>4. QED
    BY <2>2, <2>3 DEF SameCommand
<1>8. CASE s[1].form = "array" /\ body = 0 /\ parts = {} /\ GoOn(Tail(wire), 2, 0)
  <2>1. need' = 2 /\ body' = 0 /\ parts' = {s[1].command} /\ Left' = 4
    <3>1. need' = 2 /\ body' = 0 /\ parts' = {s[1].command}
      BY <1>5, <1>8 DEF GoOn
    <3>2. QED
      BY <3>1 DEF Left
  <2>2. WholeValues(t, 0)
    BY <1>3, <1>5, <1>8, WholeTail DEF t
  <2>3. 4 + 1 = 5 /\ 4 < Len(s) /\ SameCommand(s, 1, 4 + 1) /\ 4 <= Len(t) /\ 1 \in 1 .. Len(t) /\ 2 \in 1 .. Len(t)
    BY <1>3, <1>4, <1>6, <1>8
  <2>4. SameCommand(t, 1, 4) /\ t[1].command = s[1].command
    BY <2>3, <1>7
  <2>5. t[1].form = "line" /\ t[2].form = "bulk"
    BY <2>3, <1>4, <1>6, <1>8
  <2>6. Cursor(Unread)'
    BY <2>1, <2>3, <2>4, <2>5, <1>0, NoLoose DEF Cursor
  <2>7. QED
    BY <2>1, <2>2, <2>6, <1>0
<1>9. CASE s[1].form = "bulk" /\ body = 0 /\ need = 1 /\ GoOn(Tail(wire), 1, 2)
  <2>1. need' = 1 /\ body' = 2 /\ parts' = {s[1].command} /\ Left' = 2
    <3>1. need' = 1 /\ body' = 2 /\ parts' = {s[1].command}
      BY <1>5, <1>9 DEF GoOn
    <3>2. QED
      BY <3>1 DEF Left
  <2>2. WholeValues(t, 2)
    BY <1>3, <1>5, <1>9, WholeTail DEF t
  <2>3. 2 + 1 = 3 /\ 2 < Len(s) /\ SameCommand(s, 1, 2 + 1) /\ 2 <= Len(t) /\ 1 \in 1 .. Len(t) /\ 2 \in 1 .. Len(t)
    BY <1>3, <1>4, <1>6, <1>9
  <2>4. SameCommand(t, 1, 2) /\ t[1].command = s[1].command
    BY <2>3, <1>7
  <2>5. \A i \in 1 .. 2 : t[i].form = "body"
    <3>1. t[1] = s[1 + 1] /\ t[2] = s[2 + 1] /\ 1 + 1 = 2 /\ 2 + 1 = 3
      BY <2>3, <1>4
    <3>2. t[1].form = "body" /\ t[2].form = "body"
      BY <3>1, <1>6, <1>9
    <3>3. \A i \in 1 .. 2 : i = 1 \/ i = 2
      OBVIOUS
    <3>4. QED
      BY <3>2, <3>3
  <2>6. Cursor(Unread)'
    BY <2>1, <2>3, <2>4, <2>5, <1>0, NoLoose, SMTT(30) DEF Cursor
  <2>7. QED
    BY <2>1, <2>2, <2>6, <1>0
<1>10. CASE s[1].form = "line" /\ body = 0 /\ parts = {} /\ need = 1 /\ EndValue(Tail(wire), s[1].ok, Made)
  <2>1. need' \in {0, 1} /\ body' = 0 /\ parts' = {}
    BY <1>10 DEF EndValue
  <2>2. WholeValues(t, 0)
    BY <1>3, <1>5, <1>10, WholeTail DEF t
  <2>3. Cursor(Unread)'
    BY <2>1, NoLoose DEF Cursor
  <2>4. QED
    BY <2>1, <2>2, <2>3, <1>0
<1>11. CASE s[1].form = "line" /\ body = 0 /\ parts # {} /\ need = 2 /\ GoOn(Tail(wire), 1, 0)
  <2>1. need' = 1 /\ body' = 0 /\ parts' = {s[1].command} /\ Left' = 3
    <3>1. need' = 1 /\ body' = 0 /\ parts' = {s[1].command}
      BY <1>5, <1>11 DEF GoOn
    <3>2. QED
      BY <3>1 DEF Left
  <2>2. WholeValues(t, 0)
    BY <1>3, <1>5, <1>11, WholeTail DEF t
  <2>3. s[2].form = "bulk" /\ Left = 4 /\ 4 <= Len(s) /\ SameCommand(s, 1, 4)
    BY <1>5, <1>11 DEF Cursor, Left
  <2>4. 3 + 1 = 4 /\ 3 < Len(s) /\ 3 <= Len(t) /\ 1 \in 1 .. Len(t)
    BY <2>3, <1>3, <1>4
  <2>5. SameCommand(t, 1, 3) /\ t[1].command = s[1].command
    BY <2>3, <2>4, <1>7
  <2>6. t[1] = s[1 + 1] /\ 1 + 1 = 2
    BY <2>4, <1>4
  <2>7. Cursor(Unread)'
    BY <2>1, <2>3, <2>4, <2>5, <2>6, <1>0, NoLoose DEF Cursor
  <2>8. QED
    BY <2>1, <2>2, <2>7, <1>0
<1>12. CASE s[1].form = "body" /\ body = 2 /\ parts # {} /\ need = 1 /\ GoOn(Tail(wire), 1, 1)
  <2>1. need' = 1 /\ body' = 1 /\ parts' = {s[1].command} /\ Left' = 1
    <3>1. need' = 1 /\ body' = 1 /\ parts' = {s[1].command}
      BY <1>5, <1>12 DEF GoOn
    <3>2. QED
      BY <3>1 DEF Left
  <2>2. WholeValues(t, 1)
    BY <1>3, <1>5, <1>12, WholeTail DEF t
  <2>3. s[2].form = "body" /\ Left = 2 /\ 2 <= Len(s) /\ SameCommand(s, 1, 2)
    BY <1>5, <1>12 DEF Cursor, Left
  <2>4. 1 + 1 = 2 /\ 1 < Len(s) /\ 1 <= Len(t) /\ 1 \in 1 .. Len(t)
    BY <2>3, <1>3, <1>4
  <2>5. SameCommand(t, 1, 1) /\ t[1].command = s[1].command
    BY <2>3, <2>4, <1>7
  <2>6. t[1] = s[1 + 1]
    BY <2>4, <1>4
  <2>7. \A i \in 1 .. 1 : t[i].form = "body"
    BY <2>3, <2>4, <2>6
  <2>8. Cursor(Unread)'
    BY <2>1, <2>4, <2>5, <2>7, <1>0, NoLoose DEF Cursor
  <2>9. QED
    BY <2>1, <2>2, <2>8, <1>0
<1>13. CASE s[1].form = "body" /\ body = 1 /\ parts # {} /\ need = 1 /\ EndValue(Tail(wire), TRUE, Made)
  <2>1. need' \in {0, 1} /\ body' = 0 /\ parts' = {}
    BY <1>13 DEF EndValue
  <2>2. WholeValues(t, 0)
    BY <1>3, <1>5, <1>13, WholeTail DEF t
  <2>3. Cursor(Unread)'
    BY <2>1, NoLoose DEF Cursor
  <2>4. QED
    BY <2>1, <2>2, <2>3, <1>0
<1>14. QED
  BY <1>2, <1>8, <1>9, <1>10, <1>11, <1>12, <1>13, WholeRead DEF s

(* In step, a piece that is read is of the command that is read.              *)
LEMMA InStepRead ==
    ASSUME ControlInv, ReadPiece, failures = {}, OneByOne
    PROVE  /\ torn = {} /\ Unread[1].command = reading /\ reading \in 1 .. sent
           /\ Unread \in Seq(ReplyPieces) /\ Unread # <<>> /\ Len(Unread) \in Nat \ {0}
           /\ Left \in Nat /\ Left <= Len(Unread) /\ served \in Nat /\ served <= sent
           /\ RepliesInTurn(Unread, Left, Following, served)
           /\ Following = IF parts = {} THEN reading ELSE reading + 1
<1>1. /\ torn = {} /\ parts \subseteq {reading} /\ RepliesInTurn(Unread, Left, Following, served)
      /\ ControlTypeOK /\ BatchesInTurn /\ pc = "reading"
  BY PieceRead DEF ControlInv, InTurn
<1>2. Cursor(Unread) /\ Unread \in Seq(ReplyPieces) /\ Unread # <<>> /\ Len(Unread) \in Nat \ {0}
  <2>1. wire # <<>>
    BY PieceRead
  <2>2. Unread \in Seq(ReplyPieces) /\ Unread # <<>> /\ Len(Unread) \in Nat /\ (Unread = <<>> <=> Len(Unread) = 0)
    BY <1>1, <2>1, StreamOf
  <2>3. QED
    BY <1>1, <2>2, WholeRead
<1>3. Left \in Nat /\ Left <= Len(Unread)
  <2>1. body \in Nat \cup {Loose}
    BY <1>1 DEF ControlTypeOK
  <2>2. Left \in Nat
    BY <2>1, <1>2 DEF Left, Cursor
  <2>3. CASE parts = {}
    <3>1. Left = 0
      BY <2>3, <1>2 DEF Cursor, Left
    <3>2. QED
      BY <3>1, <1>2
  <2>4. CASE parts # {}
    BY <2>2, <2>4, <1>2 DEF Cursor
  <2>5. QED
    BY <2>2, <2>3, <2>4
<1>4. Following = IF parts = {} THEN reading ELSE reading + 1
  BY <1>1 DEF Following
<1>5. Unread[1].command = reading
  <2>1. CASE parts = {}
    <3>1. Left = 0 /\ Left < Len(Unread) /\ Following = reading /\ Left + 1 = 1
      BY <2>1, <1>2, <1>4 DEF Cursor, Left
    <3>2. Unread[Left + 1].command = Following
      BY <3>1, <1>1 DEF RepliesInTurn
    <3>3. QED
      BY <3>1, <3>2
  <2>2. CASE parts # {}
    BY <2>2, <1>1, <1>2 DEF Cursor
  <2>3. QED
    BY <2>1, <2>2
<1>6. reading \in 1 .. sent /\ served \in Nat /\ served <= sent
  <2>1. 1 \in 1 .. Len(Unread) /\ reading \in 0 .. sent /\ served \in 0 .. sent /\ sent \in Nat
    BY <1>1, <1>2, PlanIs DEF ControlTypeOK
  <2>2. reading \in 1 .. served
    BY <2>1, <1>5 DEF ControlInv, Known
  <2>3. QED
    BY <2>1, <2>2
<1>7. QED
  BY <1>1, <1>2, <1>3, <1>4, <1>5, <1>6

LEMMA ReadKeepsInStep ==
    ASSUME ControlInv, ReadPiece
    PROVE  InTurn'
<1>1. /\ setup' = setup /\ batch' = batch /\ served' = served /\ ControlTypeOK /\ BatchesInTurn
      /\ pc = "reading" /\ wire # <<>> /\ failures \subseteq failures'
  BY PieceRead, ReadLeaves DEF remoteVars, ControlInv
<1>2. SUFFICES ASSUME failures' = {}, OneByOne'
               PROVE  torn' = {} /\ parts' \subseteq {reading'} /\ RepliesInTurn(Unread, Left, Following, served)'
  BY DEF InTurn
<1>3. failures = {} /\ OneByOne
  <2>1. \A b \in 1 .. batch : BatchSize(b)' = BatchSize(b)
    BY <1>1 DEF BatchSize, Plan
  <2>2. QED
    BY <2>1, <1>1, <1>2 DEF OneByOne
<1> DEFINE s == Unread
           t == Tail(Unread)
<1>4. /\ torn = {} /\ s[1].command = reading /\ reading \in 1 .. sent
      /\ s \in Seq(ReplyPieces) /\ s # <<>> /\ Len(s) \in Nat \ {0}
      /\ Left \in Nat /\ Left <= Len(s) /\ served \in Nat /\ served <= sent
      /\ RepliesInTurn(s, Left, Following, served)
      /\ Following = IF parts = {} THEN reading ELSE reading + 1
  BY <1>3, InStepRead
<1>5. Cursor(s) /\ Made = {reading} /\ Following \in Nat /\ reading \in Nat /\ reading + 1 \in Nat
  BY <1>4, WholeRead
<1>6. torn' = {} => Unread' = t
  BY WholeLeaves
<1>7. /\ t \in Seq(ReplyPieces) /\ coming \in Seq(ReplyPieces)
      /\ Tail(wire) \in Seq(ReplyPieces) /\ Tail(wire) \o coming = t
  <2>1. Tail(wire) \in Seq(ReplyPieces) /\ Tail(wire) \o coming = t /\ coming \in Seq(ReplyPieces)
    BY <1>1, StreamOf
  <2>2. t \in Seq(ReplyPieces)
    BY <1>4, TailIs
  <2>3. QED
    BY <2>1, <2>2
<1> HIDE DEF s, t
<1>8. ASSUME NEW m \in Nat, NEW b \in Nat, GoOn(Tail(wire), m, b), Left' \in Nat,
             \/ parts # {} /\ Left > 0 /\ Left' = Left - 1
             \/ parts = {} /\ Left = 0 /\ Left' = Width(s[1]) - 1
      PROVE  torn' = {} /\ parts' \subseteq {reading'} /\ RepliesInTurn(Unread, Left, Following, served)'
  <2>1. torn' = {} /\ parts' = {reading} /\ reading' = reading /\ Unread' = t /\ Following' = reading + 1
    BY <1>4, <1>5, <1>6, <1>8 DEF GoOn, Following
  <2>2. RepliesInTurn(t, Left', reading + 1, served)
    BY <1>4, <1>5, <1>8, TurnTail DEF s, t
  <2>3. QED
    BY <2>1, <2>2, <1>1
<1>9. ASSUME NEW ok \in BOOLEAN, EndValue(Tail(wire), ok, Made),
             \/ parts # {} /\ Left = 1
             \/ parts = {} /\ Left = 0 /\ Width(s[1]) = 1
      PROVE  torn' = {} /\ parts' \subseteq {reading'} /\ RepliesInTurn(Unread, Left, Following, served)'
  <2>1. RepliesInTurn(t, 0, reading + 1, served)
    BY <1>4, <1>5, <1>9, TurnTail, SMTT(30) DEF s, t
  <2>2. torn' = {}
    <3> SUFFICES ASSUME setup.tls, Tail(wire) # <<>> \/ coming # <<>> PROVE FALSE
      BY <1>4, <1>9 DEF EndValue, EndDecode
    <3>1. reading = sent
      <4>1. batch > 0 /\ sent - BatchSize(batch) < reading /\ batch \in 0 .. Len(Plan) /\ Len(Plan) \in Nat /\ sent \in Nat
        BY <1>1, PlanIs DEF BatchesInTurn, ControlTypeOK
      <4>2. BatchSize(batch) = 1
        BY <4>1, <1>3 DEF OneByOne
      <4>3. QED
        BY <4>1, <4>2, <1>4
    <3>2. served < reading + 1
      BY <3>1, <1>4
    <3>3. Known(t, served, commands, session)
      BY <1>4, KnownTail DEF ControlInv, s, t
    <3>4. t = <<>>
      BY <2>1, <3>2, <3>3, <1>4, <1>5, <1>7, TurnOver
    <3>5. Len(t) = Len(Tail(wire)) + Len(coming) /\ Len(Tail(wire)) \in Nat /\ Len(coming) \in Nat
      BY <1>7, JoinIs
    <3>6. Len(Tail(wire)) = 0 /\ Len(coming) = 0
      BY <3>4, <3>5
    <3>7. QED
      BY <3>6, <1>7, EmptySeq
  <2>3. /\ parts' = {} /\ body' = 0
        /\ \/ reading' = reading + 1 /\ pc' = pc
           \/ pc' = After(batch, ok) /\ reading' = reading
    BY <1>9 DEF EndValue
  <2>4. Left' = 0 /\ Following' = reading + 1
    <3>1. Left' = 0
      BY <2>3 DEF Left
    <3>2. Following' = reading + 1
      BY <2>3, <1>1, AfterIs DEF Following
    <3>3. QED
      BY <3>1, <3>2
  <2>5. QED
    BY <2>1, <2>2, <2>3, <2>4, <1>1, <1>6
<1>10. CASE s[1].form = "array" /\ body = 0 /\ parts = {} /\ need = 1 /\ GoOn(Tail(wire), 2, 0)
  <2>1. need' = 2 /\ body' = 0 /\ parts' # {}
    BY <1>5, <1>10 DEF GoOn
  <2>2. Left = 0 /\ Left' = 4 /\ Width(s[1]) = 5
    BY <2>1, <1>10, WidthIs DEF Left
  <2>3. QED
    BY <2>2, <1>8, <1>10
<1>11. CASE s[1].form = "bulk" /\ body = 0 /\ need = 1 /\ GoOn(Tail(wire), 1, 2)
  <2>1. need' = 1 /\ body' = 2 /\ parts' # {}
    BY <1>5, <1>11 DEF GoOn
  <2>2. Left' = 2 /\ Width(s[1]) = 3 /\ (parts = {} => Left = 0) /\ (parts # {} => Left = 3)
    BY <2>1, <1>11, WidthIs DEF Left
  <2>3. QED
    BY <2>2, <1>8, <1>11
<1>12. CASE s[1].form = "line" /\ body = 0 /\ parts = {} /\ need = 1 /\ EndValue(Tail(wire), s[1].ok, Made)
  <2>1. Left = 0 /\ Width(s[1]) = 1
    BY <1>12, WidthIs DEF Left
  <2>2. s[1].ok \in BOOLEAN
    <3>1. s[1] \in ReplyPieces
      BY <1>4, ElementOfSeq
    <3>2. QED
      BY <3>1 DEF ReplyPieces
  <2>3. QED
    BY <2>1, <2>2, <1>9, <1>12
<1>13. CASE s[1].form = "line" /\ body = 0 /\ parts # {} /\ need = 2 /\ GoOn(Tail(wire), 1, 0)
  <2>1. need' = 1 /\ body' = 0 /\ parts' # {}
    BY <1>5, <1>13 DEF GoOn
  <2>2. Left = 4 /\ Left' = 3
    BY <2>1, <1>13 DEF Left
  <2>3. QED
    BY <2>2, <1>8, <1>13
<1>14. CASE s[1].form = "body" /\ body = 2 /\ parts # {} /\ need = 1 /\ GoOn(Tail(wire), 1, 1)
  <2>1. need' = 1 /\ body' = 1 /\ parts' # {}
    BY <1>5, <1>14 DEF GoOn
  <2>2. Left = 2 /\ Left' = 1
    BY <2>1, <1>14 DEF Left
  <2>3. QED
    BY <2>2, <1>8, <1>14
<1>15. CASE s[1].form = "body" /\ body = 1 /\ parts # {} /\ need = 1 /\ EndValue(Tail(wire), TRUE, Made)
  <2>1. Left = 1
    BY <1>15 DEF Left
  <2>2. QED
    BY <2>1, <1>9, <1>15
<1>16. QED
  BY <1>4, <1>10, <1>11, <1>12, <1>13, <1>14, <1>15, WholeRead DEF s

LEMMA ReadKeepsAnswers ==
    ASSUME ControlInv, ReadPiece
    PROVE  AnswersBelong'
<1>1. /\ ControlTypeOK /\ BatchesInTurn /\ AnswersBelong /\ pc = "reading"
      /\ setup' = setup /\ sent' = sent /\ Plan' = Plan /\ failures \subseteq failures' /\ torn \subseteq torn'
      /\ \A b \in DOMAIN Plan : BatchSize(b)' = BatchSize(b)
  BY PieceRead, ReadLeaves DEF ControlInv
<1>2. answers \in Seq(SUBSET Nat) /\ Len(answers) = sent /\ sent \in Nat /\ reading \in Nat
  BY <1>1, PlanIs DEF ControlTypeOK
<1>3. ASSUME NEW k \in 1 .. sent
      PROVE  answers'[k] = answers[k] \/ (k = reading /\ answers'[k] = Made)
  <2>1. answers' = answers \/ answers' = [answers EXCEPT ![reading] = Made]
    BY PieceRead DEF GoOn, EndValue, FailBatch, Panic
  <2>2. QED
    BY <2>1, <1>2
<1>4. \A f \in failures \cup torn : f < reading
  BY <1>1 DEF BatchesInTurn
<1>5. InStepUntilFailure'
  <2> SUFFICES ASSUME NEW k \in 1 .. sent, answers'[k] # {},
                      setup.tls => \A b \in DOMAIN Plan : BatchSize(b) = 1
               PROVE  answers'[k] = {k} \/ \E j \in failures' : j < k
    BY <1>1 DEF InStepUntilFailure
  <2>1. CASE answers'[k] = answers[k]
    BY <2>1, <1>1 DEF AnswersBelong, InStepUntilFailure
  <2>2. CASE k = reading /\ answers'[k] = Made
    <3>1. CASE failures = {}
      <4>1. OneByOne
        <5>1. batch \in 0 .. Len(Plan) /\ Len(Plan) \in Nat /\ DOMAIN Plan = 1 .. Len(Plan)
          BY <1>1, PlanIs DEF ControlTypeOK
        <5>2. \A b \in 1 .. batch : b \in DOMAIN Plan
          BY <5>1
        <5>3. QED
          BY <5>2 DEF OneByOne
      <4>2. Made = {reading}
        BY <3>1, <4>1, InStepRead, WholeRead
      <4>3. QED
        BY <2>2, <4>2
    <3>2. CASE failures # {}
      BY <2>2, <3>2, <1>1, <1>4
    <3>3. QED
      BY <3>1, <3>2
  <2>3. QED
    BY <2>1, <2>2, <1>3
<1>6. AnswersAreWhole'
  <2> SUFFICES ASSUME NEW k \in 1 .. sent, \E i, j \in answers'[k] : i # j
               PROVE  \E f \in torn' : f < k
    BY <1>1 DEF AnswersAreWhole
  <2>1. CASE answers'[k] = answers[k]
    BY <2>1, <1>1 DEF AnswersBelong, AnswersAreWhole
  <2>2. CASE k = reading /\ answers'[k] = Made
    <3>1. torn # {}
      BY <2>2, WholeRead
    <3>2. QED
      BY <2>2, <3>1, <1>1, <1>4
  <2>3. QED
    BY <2>1, <2>2, <1>3
<1>7. QED
  BY <1>5, <1>6 DEF AnswersBelong

LEMMA ReadKeepsLoggedIn ==
    ASSUME ControlInv, ReadPiece
    PROVE  LoggedIn'
<1>1. /\ ControlTypeOK /\ BatchesInTurn /\ LoggedIn /\ pc = "reading" /\ session' = session
      /\ setup' = setup /\ batch' = batch /\ Plan' = Plan
  BY PieceRead, ReadLeaves DEF remoteVars, ControlInv
<1>2. SUFFICES ASSUME pc' # "exited"
               PROVE  /\ batch > 0 /\ Plan[batch].kind \in Logins => failures' = {}
                      /\ \A b \in 1 .. batch :
                            Plan[b].kind \in Logins /\ (b < batch \/ pc' = "ready") => Plan[b].kind \in session
  BY <1>1 DEF LoggedIn
<1>3. batch > 0 /\ batch \in 1 .. Len(Plan) /\ sent \in Nat
  <2>1. batch > 0 /\ batch \in 0 .. Len(Plan) /\ Len(Plan) \in Nat /\ sent \in Nat
    BY <1>1, PlanIs DEF BatchesInTurn, ControlTypeOK
  <2>2. QED
    BY <2>1
<1>4. CASE Plan[batch].kind \notin Logins
  BY <1>1, <1>3, <1>4 DEF LoggedIn
<1>5. CASE Plan[batch].kind \in Logins
  <2>1. MustSucceed(batch)
    BY <1>5 DEF MustSucceed, Logins
  <2>2. ~FailBatch
    BY <2>1, <1>2 DEF FailBatch, After
  <2>3. failures = {} /\ failures' = {}
    <3>1. failures = {}
      BY <1>1, <1>3, <1>5 DEF LoggedIn
    <3>2. failures' = failures
      BY <2>2, PieceRead DEF GoOn, EndValue, Panic
    <3>3. QED
      BY <3>1, <3>2
  <2>4. OneByOne
    BY <1>1, <1>3, <1>5, PlanIs DEF OneByOne
  <2>5. torn = {} /\ Unread[1].command = reading /\ reading \in 1 .. sent /\ Len(Unread) \in Nat \ {0}
    BY <2>3, <2>4, InStepRead
  <2>6. commands[reading] = Plan[batch].kind
    <3>1. BatchSize(batch) \in Nat \ {0} /\ sent - BatchSize(batch) < reading
      BY <1>1, <1>3, PlanIs DEF BatchesInTurn
    <3>2. reading \in sent - BatchSize(batch) + 1 .. sent
      BY <3>1, <2>5, <1>3
    <3>3. QED
      BY <3>2, <1>1, <1>3 DEF BatchesInTurn
  <2>7. Unread[1].form \in {"line", "rest"} /\ (Unread[1].ok => Plan[batch].kind \in session)
    <3>1. 1 \in 1 .. Len(Unread)
      BY <2>5
    <3>2. QED
      BY <3>1, <2>5, <2>6, <1>5 DEF ControlInv, Known
  <2>8. pc' = "ready" => Plan[batch].kind \in session
    <3> SUFFICES ASSUME pc' = "ready" PROVE Plan[batch].kind \in session
      OBVIOUS
    <3>1. \A rest, m, b : ~GoOn(rest, m, b)
      BY <1>1 DEF GoOn
    <3>2. EndValue(Tail(wire), Unread[1].ok, Made)
      BY <2>5, <2>7, <3>1, WholeRead
    <3>3. pc' = After(batch, Unread[1].ok)
      BY <3>2, <1>1 DEF EndValue
    <3>4. Unread[1].ok
      BY <2>1, <3>3 DEF After
    <3>5. QED
      BY <3>4, <2>7
  <2>9. ASSUME NEW b \in 1 .. batch, Plan[b].kind \in Logins, b < batch \/ pc' = "ready"
        PROVE  Plan[b].kind \in session
    <3>1. CASE b < batch
      BY <3>1, <2>9, <1>1 DEF LoggedIn
    <3>2. CASE b = batch /\ pc' = "ready"
      BY <3>2, <2>8
    <3>3. b < batch \/ b = batch
      BY <1>3
    <3>4. QED
      BY <3>1, <3>2, <3>3, <2>9
  <2>10. QED
    BY <2>3, <2>9
<1>6. QED
  BY <1>4, <1>5

(* What panics is a leftover.                                                 *)
LEMMA ReadKeepsPanics ==
    ASSUME ControlInv, ReadPiece
    PROVE  PanicsAreOfLeftovers'
<1>1. SUFFICES ASSUME pc' = "panicked" PROVE \E f \in torn' : f < reading'
  BY DEF PanicsAreOfLeftovers
<1>2. ASSUME NEW rest, NEW m, NEW b, GoOn(rest, m, b) PROVE FALSE
  BY <1>1, <1>2, PieceRead DEF GoOn
<1>3. ASSUME NEW rest, NEW ok, EndValue(rest, ok, Made) PROVE FALSE
  <2>1. pc' = pc \/ pc' = After(batch, ok)
    BY <1>3 DEF EndValue
  <2>2. QED
    BY <2>1, <1>1, AfterIs, PieceRead
<1>4. torn # {}
  BY <1>2, <1>3, WholeRead
<1>5. ~FailBatch
  BY <1>1, AfterIs DEF FailBatch
<1>6. torn' = torn /\ reading' = reading
  BY <1>2, <1>3, <1>5, PieceRead DEF Panic
<1>7. \A f \in torn : f < reading
  BY PieceRead DEF ControlInv, BatchesInTurn
<1>8. QED
  BY <1>4, <1>6, <1>7

LEMMA CursorIs ==
    ASSUME ControlTypeOK, Cursor(Unread)
    PROVE  Left \in Nat /\ Left <= Len(Unread) /\ body \in 0 .. 2 /\ Following \in Nat
<1>1. body \in Nat \cup {Loose} /\ reading \in Nat /\ Unread \in Seq(ReplyPieces) /\ Len(Unread) \in Nat
  BY StreamOf, PlanIs DEF ControlTypeOK
<1>2. body \in 0 .. 2
  BY <1>1 DEF Cursor
<1>3. Left \in Nat
  BY <1>2 DEF Left
<1>4. parts = {} => Left = 0
  BY DEF Cursor, Left
<1>5. parts # {} => Left <= Len(Unread)
  BY DEF Cursor
<1>6. Following \in Nat
  BY <1>1 DEF Following
<1>7. QED
  BY <1>1, <1>2, <1>3, <1>4, <1>5, <1>6

(* Whole pieces of a command that are added to what comes.                    *)
LEMMA RepliesKeep ==
    ASSUME ControlInv, served < flushed, served' = served + 1, UNCHANGED <<callerVars, wire, arriving>>,
           NEW r \in Seq(ReplyPieces), coming' = coming \o r, WholeValues(r, 0),
           \A i \in 1 .. Len(r) : r[i].command = served + 1 /\ (r[i].form = "array" => r[i].count > 0),
           commands[served + 1] \in Logins =>
               \A i \in 1 .. Len(r) : r[i].form = "line" /\ (r[i].ok => commands[served + 1] \in session'),
           session \subseteq session', session' \subseteq session \cup {commands[served + 1]}, connected' \in BOOLEAN,
           lost' \subseteq 1 .. sent, failures = {} => lost' = lost
    PROVE  /\ ControlTypeOK' /\ BatchesInTurn' /\ Known(Unread, served, commands, session)' /\ WrittenWhole'
           /\ Untorn' /\ LoggedIn' /\ AnswersBelong' /\ PanicsAreOfLeftovers'
           /\ Unread' = Unread \o r /\ (OneByOne' <=> OneByOne)
<1>1. /\ ControlTypeOK /\ BatchesInTurn /\ Known(Unread, served, commands, session) /\ LoggedIn /\ AnswersBelong
      /\ WrittenWhole /\ PanicsAreOfLeftovers
  BY DEF ControlInv
<1>3. /\ served \in Nat /\ sent \in Nat /\ served + 1 \in 1 .. sent /\ flushed \in Nat
      /\ commands \in Seq(Kinds) /\ commands[served + 1] \in Kinds
  <2>1. served \in 0 .. flushed /\ flushed \in 0 .. sent /\ sent \in Nat /\ commands \in Seq(Kinds)
    BY <1>1, PlanIs DEF ControlTypeOK
  <2>2. served + 1 \in 1 .. sent /\ served \in Nat /\ flushed \in Nat
    BY <2>1
  <2>3. commands[served + 1] \in Kinds
    BY <2>1, <2>2, ElementOfSeq DEF sent
  <2>4. QED
    BY <2>1, <2>2, <2>3
<1>4. Len(r) \in Nat
  OBVIOUS
<1> DEFINE s == Unread
           t == Unread \o r
<1>5. /\ Unread' = t /\ s \in Seq(ReplyPieces) /\ coming \in Seq(ReplyPieces)
      /\ wire \in Seq(ReplyPieces) /\ coming' \in Seq(ReplyPieces)
      /\ Len(s) \in Nat
  <2>1. s \in Seq(ReplyPieces) /\ coming \in Seq(ReplyPieces) /\ wire \in Seq(ReplyPieces) /\ Len(s) \in Nat
    BY <1>1, StreamOf
  <2>2. coming' \in Seq(ReplyPieces)
    BY <2>1, JoinIs
  <2>3. (wire \o coming) \o r = wire \o (coming \o r)
    BY <2>1, ConcatAssociative, SMTT(30)
  <2>4. QED
    BY <2>1, <2>2, <2>3 DEF Unread
<1>6. /\ Len(t) = Len(s) + Len(r) /\ t \in Seq(ReplyPieces)
      /\ \A i \in 1 .. Len(s) : t[i] = s[i]
      /\ \A i \in Len(s) + 1 .. Len(t) : t[i] = r[i - Len(s)]
  BY <1>5, JoinIs
<1> HIDE DEF s, t
<1>7. session \subseteq session' /\ session' \subseteq Kinds
  BY <1>1, <1>3 DEF ControlTypeOK
<1>8. /\ setup' = setup /\ pc' = pc /\ batch' = batch /\ commands' = commands /\ reading' = reading /\ need' = need
      /\ body' = body /\ parts' = parts /\ answers' = answers /\ failures' = failures /\ torn' = torn
      /\ Plan' = Plan /\ sent' = sent /\ wire' = wire /\ flushed' = flushed /\ arriving' = arriving
  BY DEF callerVars, Plan, sent
<1>9. ControlTypeOK'
  <2>1. served' \in 0 .. flushed'
    BY <1>3, <1>8
  <2>2. coming # <<>> => coming' # <<>>
    <3>1. coming # <<>> => Len(coming) \in Nat \ {0}
      BY <1>5, TailIs
    <3>2. Len(coming') = Len(coming) + Len(r)
      BY <1>5, JoinIs
    <3>3. coming # <<>> => Len(coming') # 0
      BY <3>1, <3>2, <1>4
    <3>4. QED
      BY <3>3
  <2>3. QED
    BY <2>1, <2>2, <1>1, <1>5, <1>7, <1>8 DEF ControlTypeOK
<1>10. BatchesInTurn'
  BY <1>1, <1>8 DEF BatchesInTurn, BatchSize
<1>11. Known(t, served + 1, commands, session')
  <2> SUFFICES ASSUME NEW i \in 1 .. Len(t)
               PROVE  /\ t[i].command \in 1 .. served + 1
                      /\ t[i].form = "array" => t[i].count > 0
                      /\ commands[t[i].command] \in Logins =>
                            /\ t[i].form \in {"line", "rest"}
                            /\ t[i].ok => commands[t[i].command] \in session'
    BY DEF Known
  <2>1. CASE i <= Len(s)
    <3>1. i \in 1 .. Len(s) /\ t[i] = s[i]
      BY <2>1, <1>5, <1>6
    <3>2. /\ s[i].command \in 1 .. served
          /\ s[i].form = "array" => s[i].count > 0
          /\ commands[s[i].command] \in Logins =>
                /\ s[i].form \in {"line", "rest"}
                /\ s[i].ok => commands[s[i].command] \in session
      BY <3>1, <1>1 DEF Known, s
    <3>3. s[i].command \in 1 .. served + 1
      BY <3>2, <1>3
    <3>4. QED
      BY <3>1, <3>2, <3>3, <1>7
  <2>2. CASE i > Len(s)
    <3>6. i \in Len(s) + 1 .. Len(t) /\ i - Len(s) \in 1 .. Len(r)
      <4>1. Len(s) \in Nat /\ Len(r) \in Nat /\ Len(t) = Len(s) + Len(r)
        BY <1>4, <1>5, <1>6
      <4>2. QED
        BY <4>1, <2>2
    <3>1. i - Len(s) \in 1 .. Len(r) /\ t[i] = r[i - Len(s)]
      BY <3>6, <1>6
    <3>2. t[i].command = served + 1 /\ (t[i].form = "array" => t[i].count > 0)
      BY <3>1
    <3>3. commands[served + 1] \in Logins =>
              t[i].form = "line" /\ (t[i].ok => commands[served + 1] \in session')
      BY <3>1
    <3>4. QED
      BY <3>2, <3>3, <1>3
  <2>3. QED
    BY <2>1, <2>2, <1>5, <1>6
<1>12. torn = {} => WholeValues(t, body) /\ Cursor(Unread)'
  <2> SUFFICES ASSUME torn = {} PROVE WholeValues(t, body) /\ Cursor(Unread)'
    OBVIOUS
  <2>1. WholeValues(s, body) /\ Cursor(s)
    BY DEF ControlInv, Untorn, s
  <2>2. Left \in Nat /\ Left <= Len(s) /\ body \in 0 .. 2
    BY <2>1, <1>1, CursorIs DEF s
  <2>3. WholeValues(t, body)
    BY <2>1, <2>2, <1>4, <1>5, WholeJoin DEF s, t
  <2>4. Left' = Left
    BY <1>8 DEF Left
  <2>5. \A i \in 1 .. Left : i \in 1 .. Len(s) /\ t[i] = s[i]
    BY <2>2, <1>5, <1>6
  <2>6. parts # {} => Left >= 1 /\ (body = 0 /\ need = 2 => Left >= 2) /\ (body > 0 => Left = body)
    BY <2>2 DEF Left
  <2>7. parts # {} => t[1] = s[1] /\ (body = 0 /\ need = 2 => t[2] = s[2]) /\ SameCommand(t, 1, Left)
    <3> SUFFICES ASSUME parts # {}
                 PROVE  t[1] = s[1] /\ (body = 0 /\ need = 2 => t[2] = s[2]) /\ SameCommand(t, 1, Left)
      OBVIOUS
    <3>1. t[1] = s[1] /\ (body = 0 /\ need = 2 => t[2] = s[2])
      BY <2>2, <2>5, <2>6
    <3>2. SameCommand(t, 1, Left)
      BY <3>1, <2>1, <2>5 DEF Cursor, SameCommand
    <3>3. QED
      BY <3>1, <3>2
  <2>8. body > 0 => \A i \in 1 .. body : t[i].form = "body"
    <3> SUFFICES ASSUME body > 0, NEW i \in 1 .. body PROVE t[i].form = "body"
      OBVIOUS
    <3>1. i \in 1 .. Left
      BY DEF Left
    <3>2. QED
      BY <3>1, <2>1, <2>5 DEF Cursor
  <2>9. Left <= Len(t)
    BY <2>2, <1>4, <1>5, <1>6
  <2>10. Cursor(Unread)'
    BY <2>1, <2>4, <2>7, <2>8, <2>9, <1>5, <1>8 DEF Cursor
  <2>11. QED
    BY <2>3, <2>10
<1>13. Untorn'
  BY <1>5, <1>8, <1>12 DEF Untorn
<1>14. LoggedIn'
  BY <1>1, <1>8 DEF LoggedIn
<1>15. AnswersBelong'
  BY <1>1, <1>8 DEF AnswersBelong, InStepUntilFailure, AnswersAreWhole, BatchSize
<1>16. WrittenWhole' /\ PanicsAreOfLeftovers'
  BY <1>1, <1>8 DEF WrittenWhole, PanicsAreOfLeftovers
<1>17. OneByOne' <=> OneByOne
  BY <1>8 DEF OneByOne, BatchSize
<1>18. QED
  BY <1>5, <1>8, <1>9, <1>10, <1>11, <1>13, <1>14, <1>15, <1>16, <1>17 DEF t, s

LEMMA ServeKeeps ==
    ASSUME ControlInv, Serve
    PROVE  ControlInv'
<1>1. /\ ControlTypeOK /\ Known(Unread, served, commands, session) /\ served < flushed /\ served' = served + 1
      /\ UNCHANGED <<callerVars, wire, arriving>> /\ lost' = lost /\ connected' = connected
  BY DEF ControlInv, Serve
<1>2. PICK r \in Shapes(served + 1) :
          /\ coming' = coming \o r
          /\ session' = IF r[1].ok THEN session \cup {commands[served + 1]} ELSE session
  BY DEF Serve
<1>3. served \in Nat /\ served + 1 \in Nat /\ lost \subseteq 1 .. sent /\ connected \in BOOLEAN
  BY <1>1 DEF ControlTypeOK
<1>4. /\ r \in Seq(ReplyPieces) /\ Len(r) \in Nat \ {0} /\ Len(r) = Width(r[1])
      /\ r[1].form \in {"line", "bulk", "array"} /\ WholeValues(r, 0)
      /\ \A i \in 1 .. Len(r) : r[i].command = served + 1 /\ (r[i].form = "array" => r[i].count > 0)
      /\ commands[served + 1] \in Logins => Len(r) = 1 /\ r[1].form = "line"
  BY <1>3, ReplyIs
<1>5. commands[served + 1] \in Logins =>
          \A i \in 1 .. Len(r) : r[i].form = "line" /\ (r[i].ok => commands[served + 1] \in session')
  <2>1. commands[served + 1] \in Logins => \A i \in 1 .. Len(r) : i = 1
    BY <1>4
  <2>2. QED
    BY <2>1, <1>2, <1>4
<1>6. session \subseteq session' /\ session' \subseteq session \cup {commands[served + 1]}
  BY <1>2
<1>7. /\ ControlTypeOK' /\ BatchesInTurn' /\ Known(Unread, served, commands, session)' /\ WrittenWhole'
      /\ Untorn' /\ LoggedIn' /\ AnswersBelong' /\ PanicsAreOfLeftovers'
      /\ Unread' = Unread \o r /\ (OneByOne' <=> OneByOne)
  BY <1>1, <1>2, <1>3, <1>4, <1>5, <1>6, RepliesKeep
<1> DEFINE s == Unread
           t == Unread \o r
<1>8. s \in Seq(ReplyPieces) /\ failures' = failures /\ torn' = torn /\ parts' = parts /\ reading' = reading
  BY <1>1, StreamOf DEF callerVars
<1>9. Left' = Left /\ Following' = Following
  BY <1>1 DEF callerVars, Left, Following
<1> HIDE DEF s, t
<1>10. InTurn'
  <2> SUFFICES ASSUME failures = {}, OneByOne
               PROVE  torn = {} /\ parts \subseteq {reading} /\ RepliesInTurn(t, Left', Following', served + 1)
    BY <1>1, <1>7, <1>8 DEF InTurn, t
  <2>1. torn = {} /\ parts \subseteq {reading} /\ RepliesInTurn(s, Left, Following, served)
    BY DEF ControlInv, InTurn, s
  <2>2. Left \in Nat /\ Left <= Len(s) /\ Following \in Nat
    BY <2>1, <1>1, CursorIs DEF ControlInv, Untorn, s
  <2>3. \A i \in 1 .. Len(s) : s[i].command <= served
    BY <1>1, <1>3 DEF Known, s
  <2>4. RepliesInTurn(t, Left, Following, served + 1)
    BY <2>1, <2>2, <2>3, <1>3, <1>4, <1>8, TurnJoin DEF t, s
  <2>5. QED
    BY <2>1, <2>4, <1>9
<1>11. QED
  BY <1>7, <1>10 DEF ControlInv

LEMMA ServeLostKeeps ==
    ASSUME ControlInv, ServeLost
    PROVE  ControlInv'
<1>1. /\ ControlTypeOK /\ WrittenWhole /\ served + 1 < flushed /\ served' = served + 1 /\ served + 1 \in lost
      /\ UNCHANGED <<callerVars, wire, arriving>> /\ session' = session /\ connected' \in BOOLEAN
      /\ lost' \in {lost, lost \cup {served + 2}}
  BY DEF ControlInv, ServeLost
<1>2. PICK r \in RepliesToPart(served + 1) : coming' = coming \o r
  BY DEF ServeLost
<1>3. /\ served \in Nat /\ served + 1 \in Nat /\ served < flushed /\ failures # {}
      /\ lost' \subseteq 1 .. sent
  <2>1. served \in 0 .. flushed /\ flushed \in 0 .. sent /\ lost \subseteq 1 .. sent /\ sent \in Nat
    BY <1>1, PlanIs DEF ControlTypeOK
  <2>2. served + 2 \in 1 .. sent
    BY <2>1, <1>1
  <2>3. failures # {}
    BY <1>1 DEF WrittenWhole
  <2>4. QED
    BY <2>1, <2>2, <2>3, <1>1
<1>4. /\ r \in Seq(ReplyPieces) /\ WholeValues(r, 0)
      /\ \A i \in 1 .. Len(r) : r[i].command = served + 1 /\ (r[i].form = "array" => r[i].count > 0)
      /\ commands[served + 1] \in Logins => \A i \in 1 .. Len(r) : r[i].form = "line" /\ ~r[i].ok
  BY <1>3, ReplyToPartIs
<1>5. /\ ControlTypeOK' /\ BatchesInTurn' /\ Known(Unread, served, commands, session)' /\ WrittenWhole'
      /\ Untorn' /\ LoggedIn' /\ AnswersBelong' /\ PanicsAreOfLeftovers'
  BY <1>1, <1>2, <1>3, <1>4, RepliesKeep
<1>6. InTurn'
  BY <1>1, <1>3 DEF InTurn, callerVars
<1>7. QED
  BY <1>5, <1>6 DEF ControlInv

(* Steps that leave the stream and what is known of it as they are.           *)
LEMMA StillKeeps ==
    ASSUME ControlInv, UNCHANGED <<callerVars, session, served, lost>>, Unread' = Unread, connected' \in BOOLEAN,
           coming' \in Seq(ReplyPieces), wire' \in Seq(ReplyPieces),
           arriving' \in {"nothing", "part", "more"}, arriving' # "nothing" => coming' # <<>>
    PROVE  ControlInv'
<1>1. /\ setup' = setup /\ pc' = pc /\ batch' = batch /\ commands' = commands /\ reading' = reading /\ need' = need
      /\ body' = body /\ parts' = parts /\ answers' = answers /\ failures' = failures /\ torn' = torn
      /\ Plan' = Plan /\ sent' = sent /\ session' = session /\ served' = served
      /\ flushed' = flushed /\ lost' = lost
  BY DEF callerVars, Plan, sent
<1>2. \A b : BatchSize(b)' = BatchSize(b)
  BY <1>1 DEF BatchSize
<1>3. Left' = Left /\ Following' = Following
  BY <1>1 DEF Left, Following
<1>4. ControlTypeOK'
  BY <1>1 DEF ControlTypeOK, ControlInv
<1>5. BatchesInTurn'
  BY <1>1, <1>2 DEF BatchesInTurn, ControlInv
<1>6. Known(Unread, served, commands, session)'
  BY <1>1 DEF ControlInv
<1>7. Untorn'
  BY <1>1, <1>3 DEF Untorn, Cursor, ControlInv
<1>8. InTurn'
  BY <1>1, <1>2, <1>3 DEF InTurn, OneByOne, ControlInv
<1>9. LoggedIn'
  BY <1>1 DEF LoggedIn, ControlInv
<1>10. AnswersBelong'
  BY <1>1, <1>2 DEF AnswersBelong, InStepUntilFailure, AnswersAreWhole, ControlInv
<1>11. WrittenWhole' /\ PanicsAreOfLeftovers'
  BY <1>1 DEF WrittenWhole, PanicsAreOfLeftovers, ControlInv
<1>12. QED
  BY <1>4, <1>5, <1>6, <1>7, <1>8, <1>9, <1>10, <1>11 DEF ControlInv

LEMMA DeliverKeeps ==
    ASSUME ControlInv, Deliver
    PROVE  ControlInv'
<1>1. /\ coming # <<>> /\ wire' = Append(wire, Head(coming)) /\ coming' = Tail(coming) /\ arriving' = "nothing"
      /\ UNCHANGED <<callerVars, remoteVars>> /\ ControlTypeOK
  BY DEF Deliver, ControlInv
<1>2. coming \in Seq(ReplyPieces) /\ wire \in Seq(ReplyPieces) /\ connected \in BOOLEAN
  BY <1>1 DEF ControlTypeOK
<1>3. Unread' = Unread
  BY <1>1, <1>2, StreamIs DEF Unread
<1>4. Head(coming) \in ReplyPieces /\ coming' \in Seq(ReplyPieces)
  BY <1>1, <1>2
<1>5. wire' \in Seq(ReplyPieces)
  BY <1>1, <1>2, <1>4
<1>6. UNCHANGED <<callerVars, session, served, lost>> /\ connected' \in BOOLEAN
  BY <1>1, <1>2 DEF remoteVars
<1>7. QED
  BY <1>1, <1>3, <1>4, <1>5, <1>6, StillKeeps

(* Steps that change nothing of the stream.                                   *)
LEMMA IdleKeeps ==
    ASSUME ControlInv, UNCHANGED <<callerVars, session, served, lost, coming, wire>>, connected' \in {connected, FALSE},
           arriving' \in {"nothing", "part", "more"}, arriving' # "nothing" => coming # <<>>
    PROVE  ControlInv'
<1>1. coming' \in Seq(ReplyPieces) /\ wire' \in Seq(ReplyPieces) /\ Unread' = Unread /\ connected' \in BOOLEAN
  BY DEF ControlInv, ControlTypeOK, Unread
<1>2. QED
  BY <1>1, StillKeeps

LEMMA QuietKeeps ==
    ASSUME ControlInv, Drip \/ Stall \/ HangUp \/ UNCHANGED controlVars
    PROVE  ControlInv'
<1>1. arriving \in {"nothing", "part", "more"} /\ (arriving # "nothing" => coming # <<>>)
  BY DEF ControlInv, ControlTypeOK
<1>2. CASE Drip
  BY <1>2, IdleKeeps DEF Drip, remoteVars
<1>3. CASE Stall
  BY <1>1, <1>3, IdleKeeps DEF Stall, remoteVars
<1>4. CASE HangUp
  BY <1>1, <1>4, IdleKeeps DEF HangUp
<1>5. CASE UNCHANGED controlVars
  BY <1>1, <1>5, IdleKeeps DEF controlVars, remoteVars
<1>6. QED
  BY <1>2, <1>3, <1>4, <1>5

(* What is encoded and, in part or whole, written.                            *)
LEMMA Encoded ==
    ASSUME ControlInv, Encode, failures \subseteq failures'
    PROVE  /\ pc = "ready" /\ batch \in Nat /\ batch + 1 \in 1 .. Len(Plan) /\ batch' = batch + 1
           /\ UNCHANGED <<setup, torn, Unread, session, served, connected, coming, wire, arriving, Plan>>
           /\ \A b : BatchSize(b)' = BatchSize(b)
           /\ BatchSize(batch + 1) \in Nat \ {0} /\ sent \in Nat /\ sent' = sent + BatchSize(batch + 1)
           /\ commands' \in Seq(Kinds) /\ \A k \in sent + 1 .. sent' : commands'[k] = Plan[batch + 1].kind
           /\ answers' \in Seq(SUBSET Nat) /\ Len(answers') = sent'
           /\ need = 0 /\ body = 0 /\ parts = {} /\ (failures = {} => reading = sent)
           /\ served \in Nat /\ flushed \in Nat /\ served <= flushed /\ flushed <= sent
           /\ failures \subseteq 1 .. sent /\ torn \subseteq 1 .. sent /\ lost \subseteq 1 .. sent
           /\ Known(Unread, served, commands, session)' /\ AnswersBelong'
           /\ Plan[batch + 1].kind \in Logins => failures = {}
           /\ \A b \in 1 .. batch : Plan[b].kind \in Logins => Plan[b].kind \in session
<1>1. /\ ControlTypeOK /\ BatchesInTurn /\ Known(Unread, served, commands, session) /\ LoggedIn /\ AnswersBelong
      /\ pc = "ready" /\ batch < Len(Plan)
  BY DEF ControlInv, Encode
<1> DEFINE n == BatchSize(batch + 1)
           kind == Plan[batch + 1].kind
           kinds == [i \in 1 .. n |-> kind]
           none == [i \in 1 .. n |-> {}]
<1>2. /\ batch \in Nat /\ batch + 1 \in 1 .. Len(Plan) /\ n \in Nat \ {0} /\ kind \in Kinds /\ sent \in Nat
      /\ commands \in Seq(Kinds) /\ answers \in Seq(SUBSET Nat) /\ Len(answers) = sent
  <2>1. batch \in 0 .. Len(Plan) /\ Len(Plan) \in Nat /\ sent \in Nat
    BY <1>1, PlanIs DEF ControlTypeOK
  <2>2. batch + 1 \in 1 .. Len(Plan) /\ batch \in Nat
    BY <2>1, <1>1
  <2>3. n \in Nat \ {0} /\ kind \in Kinds
    BY <1>1, <2>2, PlanIs
  <2>4. QED
    BY <2>1, <2>2, <2>3, <1>1 DEF ControlTypeOK
<1>3. /\ setup' = setup /\ batch' = batch + 1 /\ commands' = commands \o kinds
      /\ answers' = answers \o none /\ torn' = torn
      /\ Plan' = Plan /\ session' = session /\ served' = served /\ connected' = connected
      /\ coming' = coming /\ wire' = wire /\ arriving' = arriving /\ Unread' = Unread
  BY DEF Encode, Plan, Unread
<1>4. \A b : BatchSize(b)' = BatchSize(b)
  BY <1>3 DEF BatchSize
<1> HIDE DEF n, kind
<1>5. /\ commands' \in Seq(Kinds) /\ sent' = sent + n
      /\ \A k \in 1 .. sent : commands'[k] = commands[k]
      /\ \A k \in sent + 1 .. sent + n : commands'[k] = kind
  <2>1. kinds \in Seq(Kinds) /\ Len(kinds) = n /\ \A i \in 1 .. n : kinds[i] = kind
    BY <1>2
  <2> HIDE DEF kinds
  <2>2. sent = Len(commands)
    BY DEF sent
  <2>3. /\ commands' \in Seq(Kinds) /\ Len(commands') = sent + n
        /\ \A k \in 1 .. sent + n : commands'[k] = IF k <= sent THEN commands[k] ELSE kinds[k - sent]
    <3>1. /\ commands \o kinds \in Seq(Kinds) /\ Len(commands \o kinds) = Len(commands) + Len(kinds)
          /\ \A k \in 1 .. Len(commands) + Len(kinds) :
                (commands \o kinds)[k] = IF k <= Len(commands) THEN commands[k] ELSE kinds[k - Len(commands)]
      BY <2>1, <1>2, ConcatProperties
    <3>2. QED
      BY <3>1, <2>1, <2>2, <1>3
  <2>4. \A k \in 1 .. sent : commands'[k] = commands[k]
    BY <2>3, <1>2
  <2>5. ASSUME NEW k \in sent + 1 .. sent + n PROVE commands'[k] = kind
    <3>1. k \in 1 .. sent + n /\ ~(k <= sent) /\ k - sent \in 1 .. n
      BY <1>2
    <3>2. QED
      BY <3>1, <2>1, <2>3
  <2>6. QED
    BY <2>3, <2>4, <2>5 DEF sent
<1>6. /\ answers' \in Seq(SUBSET Nat) /\ Len(answers') = sent + n
      /\ \A k \in 1 .. sent : answers'[k] = answers[k]
      /\ \A k \in sent + 1 .. sent + n : answers'[k] = {}
  <2>1. none \in Seq(SUBSET Nat) /\ Len(none) = n /\ \A i \in 1 .. n : none[i] = {}
    BY <1>2
  <2> HIDE DEF none
  <2>3. /\ answers' \in Seq(SUBSET Nat) /\ Len(answers') = sent + n
        /\ \A k \in 1 .. sent + n : answers'[k] = IF k <= sent THEN answers[k] ELSE none[k - sent]
    <3>1. /\ answers \o none \in Seq(SUBSET Nat) /\ Len(answers \o none) = Len(answers) + Len(none)
          /\ \A k \in 1 .. Len(answers) + Len(none) :
                (answers \o none)[k] = IF k <= Len(answers) THEN answers[k] ELSE none[k - Len(answers)]
      BY <2>1, <1>2, ConcatProperties
    <3>2. QED
      BY <3>1, <2>1, <1>2, <1>3
  <2>4. \A k \in 1 .. sent : answers'[k] = answers[k]
    BY <2>3, <1>2
  <2>5. ASSUME NEW k \in sent + 1 .. sent + n PROVE answers'[k] = {}
    <3>1. k \in 1 .. sent + n /\ ~(k <= sent) /\ k - sent \in 1 .. n
      BY <1>2
    <3>2. QED
      BY <3>1, <2>1, <2>3
  <2>6. QED
    BY <2>3, <2>4, <2>5
<1> HIDE DEF kinds, none
<1>7. /\ served \in Nat /\ flushed \in Nat /\ served <= flushed /\ flushed <= sent
      /\ failures \subseteq 1 .. sent /\ torn \subseteq 1 .. sent /\ lost \subseteq 1 .. sent
      /\ need = 0 /\ body = 0 /\ parts = {} /\ (failures = {} => reading = sent)
  BY <1>1, <1>2 DEF ControlTypeOK, BatchesInTurn
<1>8. Known(Unread, served, commands, session)'
  <2> DEFINE s == Unread
  <2>1. ASSUME NEW i \in 1 .. Len(s)
        PROVE  /\ s[i].command \in 1 .. served
               /\ s[i].form = "array" => s[i].count > 0
               /\ commands'[s[i].command] \in Logins =>
                     /\ s[i].form \in {"line", "rest"}
                     /\ s[i].ok => commands'[s[i].command] \in session
    <3>1. /\ s[i].command \in 1 .. served
          /\ s[i].form = "array" => s[i].count > 0
          /\ commands[s[i].command] \in Logins =>
                /\ s[i].form \in {"line", "rest"}
                /\ s[i].ok => commands[s[i].command] \in session
      BY <1>1 DEF Known
    <3>2. s[i].command \in 1 .. sent
      BY <3>1, <1>2, <1>7
    <3>3. commands'[s[i].command] = commands[s[i].command]
      BY <3>2, <1>5
    <3>4. QED
      BY <3>1, <3>3
  <2>2. QED
    BY <2>1, <1>3 DEF Known
<1>9. AnswersBelong'
  <2>1. \A k \in 1 .. sent' : k \in 1 .. sent \/ answers'[k] = {}
    BY <1>2, <1>5, <1>6
  <2>2. \A k \in 1 .. sent : answers'[k] = answers[k]
    BY <1>6
  <2>3. InStepUntilFailure'
    BY <2>1, <2>2, <1>1, <1>3, <1>4 DEF AnswersBelong, InStepUntilFailure
  <2>4. AnswersAreWhole'
    BY <2>1, <2>2, <1>1, <1>3 DEF AnswersBelong, AnswersAreWhole
  <2>5. QED
    BY <2>3, <2>4 DEF AnswersBelong
<1>10. kind \in Logins => failures = {}
  <2> SUFFICES ASSUME kind \in Logins PROVE failures = {}
    OBVIOUS
  <2>1. CASE batch = 0
    BY <2>1, <1>1, <1>7 DEF BatchesInTurn
  <2>2. CASE batch > 0
    <3>1. batch \in 1 .. batch + 1
      BY <2>2, <1>2
    <3>2. Plan[batch].kind \in Logins
      BY <3>1, <1>1, <1>2, PlanIs DEF kind
    <3>3. QED
      BY <3>2, <2>2, <1>1 DEF LoggedIn
  <2>3. QED
    BY <2>1, <2>2, <1>2
<1>11. ASSUME NEW b \in 1 .. batch, Plan[b].kind \in Logins
       PROVE  Plan[b].kind \in session
  BY <1>1, <1>11 DEF LoggedIn
<1>12. QED
  BY <1>1, <1>2, <1>3, <1>4, <1>5, <1>6, <1>7, <1>8, <1>9, <1>10, <1>11 DEF n, kind

LEMMA SendKeeps ==
    ASSUME ControlInv, Send
    PROVE  ControlInv'
<1>1. /\ Encode /\ failures' = failures /\ lost' = lost /\ flushed' = sent + BatchSize(batch + 1)
      /\ reading' = sent + 1 /\ pc' = "reading" /\ need' = 1 /\ body' = 0 /\ parts' = {}
  BY DEF Send
<1> DEFINE n == BatchSize(batch + 1)
           kind == Plan[batch + 1].kind
<1>2. /\ pc = "ready" /\ batch \in Nat /\ batch + 1 \in 1 .. Len(Plan) /\ batch' = batch + 1
      /\ UNCHANGED <<setup, torn, Unread, session, served, connected, coming, wire, arriving, Plan>>
      /\ \A b : BatchSize(b)' = BatchSize(b)
      /\ n \in Nat \ {0} /\ sent \in Nat /\ sent' = sent + n
      /\ commands' \in Seq(Kinds) /\ \A k \in sent + 1 .. sent' : commands'[k] = kind
      /\ answers' \in Seq(SUBSET Nat) /\ Len(answers') = sent'
      /\ need = 0 /\ body = 0 /\ parts = {} /\ (failures = {} => reading = sent)
      /\ served \in Nat /\ flushed \in Nat /\ served <= flushed /\ flushed <= sent
      /\ failures \subseteq 1 .. sent /\ torn \subseteq 1 .. sent /\ lost \subseteq 1 .. sent
      /\ Known(Unread, served, commands, session)' /\ AnswersBelong'
      /\ kind \in Logins => failures = {}
      /\ \A b \in 1 .. batch : Plan[b].kind \in Logins => Plan[b].kind \in session
  BY <1>1, Encoded
<1> HIDE DEF n, kind
<1>3. ControlTypeOK /\ WrittenWhole
  BY DEF ControlInv
<1>4. ControlTypeOK'
  <2>1. /\ failures' \subseteq 1 .. sent' /\ torn' \subseteq 1 .. sent' /\ lost' \subseteq 1 .. sent'
        /\ flushed' \in 0 .. sent' /\ served' \in 0 .. flushed' /\ reading' \in 0 .. sent'
    BY <1>1, <1>2 DEF n
  <2>2. batch' \in 0 .. Len(Plan')
    BY <1>2
  <2>3. QED
    BY <2>1, <2>2, <1>1, <1>2, <1>3, SMTT(30) DEF ControlTypeOK
<1>5. BatchesInTurn'
  <2>1. BatchSize(batch)' = n /\ Plan'[batch'].kind = kind
    BY <1>2 DEF n, kind, BatchSize
  <2>2. n <= sent' /\ sent' - n = sent /\ batch' # 0 /\ batch' > 0 /\ sent' - BatchSize(batch)' < reading'
    BY <2>1, <1>1, <1>2
  <2>3. \A k \in sent' - BatchSize(batch)' + 1 .. sent' : commands'[k] = Plan'[batch'].kind
    BY <2>1, <2>2, <1>2
  <2>4. \A f \in failures' \cup torn' : f < reading'
    BY <1>1, <1>2
  <2>5. QED
    BY <2>1, <2>2, <2>3, <2>4, <1>1 DEF BatchesInTurn
<1>6. Untorn'
  <2>1. torn = {} => WholeValues(Unread, 0)
    BY <1>2 DEF ControlInv, Untorn
  <2>2. Cursor(Unread)'
    BY <1>1 DEF Cursor, Loose
  <2>3. QED
    BY <2>1, <2>2, <1>1, <1>2 DEF Untorn
<1>7. InTurn'
  <2> SUFFICES ASSUME failures = {}, OneByOne'
               PROVE  torn = {} /\ RepliesInTurn(Unread, Left', Following', served)
    BY <1>1, <1>2 DEF InTurn
  <2>1. OneByOne
    <3>1. \A b \in 1 .. batch : b \in 1 .. batch'
      BY <1>2
    <3>2. QED
      BY <3>1, <1>2 DEF OneByOne
  <2>2. torn = {} /\ RepliesInTurn(Unread, Left, Following, served)
    BY <2>1 DEF ControlInv, InTurn
  <2>3. Left = 0 /\ Left' = 0 /\ Following = sent + 1 /\ Following' = sent + 1
    BY <1>1, <1>2 DEF Left, Following
  <2>4. QED
    BY <2>2, <2>3
<1>8. LoggedIn'
  <2>1. \A b \in 1 .. batch + 1 : b < batch + 1 => b \in 1 .. batch
    BY <1>2
  <2>2. Plan'[batch'].kind = kind
    BY <1>2 DEF kind
  <2>3. QED
    BY <2>1, <2>2, <1>1, <1>2 DEF LoggedIn
<1>9. WrittenWhole' /\ PanicsAreOfLeftovers'
  BY <1>1, <1>2, <1>3 DEF WrittenWhole, PanicsAreOfLeftovers, n
<1>10. QED
  BY <1>2, <1>4, <1>5, <1>6, <1>7, <1>8, <1>9 DEF ControlInv

(* A batch that is not written whole.                                         *)
LEMMA FailSendKeeps ==
    ASSUME ControlInv, FailSend
    PROVE  ControlInv'
<1>1. /\ Encode /\ failures' = failures \cup {sent + 1} /\ pc' = After(batch + 1, FALSE)
      /\ reading' = reading /\ need' = need /\ body' = body /\ parts' = parts
  BY DEF FailSend
<1> DEFINE n == BatchSize(batch + 1)
           kind == Plan[batch + 1].kind
<1>2. /\ pc = "ready" /\ batch \in Nat /\ batch + 1 \in 1 .. Len(Plan) /\ batch' = batch + 1
      /\ UNCHANGED <<setup, torn, Unread, session, served, connected, coming, wire, arriving, Plan>>
      /\ \A b : BatchSize(b)' = BatchSize(b)
      /\ n \in Nat \ {0} /\ sent \in Nat /\ sent' = sent + n
      /\ commands' \in Seq(Kinds) /\ \A k \in sent + 1 .. sent' : commands'[k] = kind
      /\ answers' \in Seq(SUBSET Nat) /\ Len(answers') = sent'
      /\ need = 0 /\ body = 0 /\ parts = {} /\ (failures = {} => reading = sent)
      /\ served \in Nat /\ flushed \in Nat /\ served <= flushed /\ flushed <= sent
      /\ failures \subseteq 1 .. sent /\ torn \subseteq 1 .. sent /\ lost \subseteq 1 .. sent
      /\ Known(Unread, served, commands, session)' /\ AnswersBelong'
      /\ kind \in Logins => failures = {}
      /\ \A b \in 1 .. batch : Plan[b].kind \in Logins => Plan[b].kind \in session
  BY <1>1, Encoded
<1> HIDE DEF n, kind
<1>3. ControlTypeOK
  BY DEF ControlInv
<1>4. /\ flushed' \in flushed .. sent' /\ lost' \subseteq 1 .. sent'
  <2>1. PICK m \in flushed .. sent' - 1 :
             \E k \in m .. sent' : flushed' = m /\ lost' = lost \cup k + 1 .. sent'
    BY DEF FailSend
  <2>2. PICK k \in m .. sent' : flushed' = m /\ lost' = lost \cup k + 1 .. sent'
    BY <2>1
  <2>3. n \in Nat /\ sent \in Nat /\ flushed \in Nat /\ sent' = sent + n /\ lost \subseteq 1 .. sent
    BY <1>2
  <2>4. flushed' \in flushed .. sent'
    BY <2>2, <2>3
  <2>5. \A i \in lost' : i \in 1 .. sent'
    <3>1. \A i \in lost : i \in 1 .. sent'
      BY <2>3
    <3>2. \A i \in k + 1 .. sent' : i \in 1 .. sent'
      BY <2>3
    <3>3. QED
      BY <2>2, <3>1, <3>2
  <2>6. QED
    BY <2>4, <2>5
<1>5. pc' \in {"ready", "exited"}
  BY <1>1, AfterIs
<1>6. ControlTypeOK'
  <2>1. /\ n \in Nat \ {0} /\ sent \in Nat /\ sent' = sent + n
        /\ served \in Nat /\ flushed \in Nat /\ served <= flushed /\ flushed <= sent
        /\ served' = served /\ torn' = torn /\ reading' = reading /\ reading \in 0 .. sent
        /\ failures' = failures \cup {sent + 1}
        /\ failures \subseteq 1 .. sent /\ torn \subseteq 1 .. sent
    <3>1. served' = served /\ torn' = torn
      BY <1>2
    <3>2. QED
      BY <3>1, <1>1, <1>2, <1>3 DEF ControlTypeOK
  <2>2. torn' \subseteq 1 .. sent' /\ reading' \in 0 .. sent'
    BY <2>1
  <2>3. failures' \subseteq 1 .. sent'
    <3>1. sent + 1 \in 1 .. sent' /\ \A i \in failures : i \in 1 .. sent'
      BY <2>1
    <3>2. QED
      BY <3>1, <2>1
  <2>4. flushed' \in 0 .. sent' /\ served' \in 0 .. flushed'
    BY <2>1, <1>4
  <2>5. batch' \in 0 .. Len(Plan')
    BY <1>2
  <2>6. pc' \in {"ready", "reading", "exited", "panicked"} /\ need' \in Nat /\ (pc' = "reading" <=> need' > 0)
    <3>1. need' = 0
      BY <1>1, <1>2
    <3>2. QED
      BY <3>1, <1>5
  <2>7. UNCHANGED <<setup, session, connected, coming, wire, arriving, body, parts>>
    BY <1>1, <1>2
  <2>8. commands' \in Seq(Kinds) /\ answers' \in Seq(SUBSET Nat) /\ Len(answers') = sent'
    BY <1>2
  <2>9. /\ setup' \in Setups /\ body' \in Nat \cup {Loose} /\ parts' \subseteq Nat
        /\ session' \subseteq Kinds /\ connected' \in BOOLEAN
        /\ coming' \in Seq(ReplyPieces) /\ wire' \in Seq(ReplyPieces)
        /\ arriving' \in {"nothing", "part", "more"} /\ (arriving' # "nothing" => coming' # <<>>)
    BY <2>7, <1>3 DEF ControlTypeOK
  <2>10. QED
    BY <2>2, <2>3, <2>4, <2>5, <2>6, <2>8, <2>9, <1>4 DEF ControlTypeOK
<1>7. BatchesInTurn'
  <2>1. BatchSize(batch)' = n /\ Plan'[batch'].kind = kind
    BY <1>2 DEF n, kind, BatchSize
  <2>2. n <= sent' /\ sent' - n = sent /\ batch' # 0
    BY <1>2
  <2>3. \A k \in sent' - BatchSize(batch)' + 1 .. sent' : commands'[k] = Plan'[batch'].kind
    BY <2>1, <2>2, <1>2
  <2>4. QED
    BY <2>1, <2>2, <2>3, <1>1, <1>2, <1>5 DEF BatchesInTurn
<1>8. Untorn'
  <2>1. torn = {} => WholeValues(Unread, 0)
    BY <1>2 DEF ControlInv, Untorn
  <2>2. Cursor(Unread)'
    BY <1>1, <1>2 DEF Cursor, Loose
  <2>3. QED
    BY <2>1, <2>2, <1>1, <1>2 DEF Untorn
<1>9. InTurn' /\ WrittenWhole'
  BY <1>1 DEF InTurn, WrittenWhole
<1>10. LoggedIn'
  <2> SUFFICES ASSUME pc' # "exited"
               PROVE  /\ kind \notin Logins
                      /\ \A b \in 1 .. batch + 1 : Plan[b].kind \in Logins => Plan[b].kind \in session
    BY <1>2 DEF LoggedIn, kind
  <2>1. kind \notin Logins
    BY <1>1 DEF After, MustSucceed, Logins, kind
  <2>2. \A b \in 1 .. batch + 1 : b \in 1 .. batch \/ b = batch + 1
    BY <1>2
  <2>3. QED
    BY <2>1, <2>2, <1>2 DEF kind
<1>11. PanicsAreOfLeftovers'
  BY <1>5 DEF PanicsAreOfLeftovers
<1>12. QED
  BY <1>2, <1>6, <1>7, <1>8, <1>9, <1>10, <1>11 DEF ControlInv

(* A batch that fails.                                                        *)
LEMMA FailedBatch ==
    ASSUME ControlInv, pc = "reading", FailBatch, UNCHANGED remoteVars, wire' = wire,
           coming' \in Seq(ReplyPieces), torn' \in {torn, torn \cup {reading}},
           arriving' \in {"nothing", "part", "more"}, arriving' # "nothing" => coming' # <<>>
    PROVE  /\ ControlTypeOK' /\ BatchesInTurn' /\ InTurn' /\ LoggedIn' /\ AnswersBelong'
           /\ WrittenWhole' /\ PanicsAreOfLeftovers'
           /\ commands' = commands /\ served' = served /\ session' = session
           /\ need' = 0 /\ body' = 0 /\ parts' = {}
<1>1. /\ ControlTypeOK /\ BatchesInTurn /\ LoggedIn /\ AnswersBelong
      /\ setup' = setup /\ batch' = batch /\ commands' = commands /\ reading' = reading /\ answers' = answers
      /\ pc' = After(batch, FALSE) /\ pc' \in {"ready", "exited"} /\ failures' = failures \cup {reading}
      /\ need' = 0 /\ body' = 0 /\ parts' = {} /\ Plan' = Plan /\ sent' = sent
      /\ served' = served /\ session' = session /\ connected' = connected /\ lost' = lost /\ flushed' = flushed
  BY AfterIs DEF ControlInv, FailBatch, Plan, sent, remoteVars
<1>2. \A b : BatchSize(b)' = BatchSize(b)
  BY <1>1 DEF BatchSize
<1>3. reading \in 1 .. sent /\ batch \in 1 .. Len(Plan)
  <2>1. batch \in 0 .. Len(Plan) /\ batch > 0 /\ Len(Plan) \in Nat /\ sent \in Nat /\ reading \in 0 .. sent
    BY <1>1, PlanIs DEF ControlTypeOK, BatchesInTurn
  <2>2. batch \in 1 .. Len(Plan)
    BY <2>1
  <2>3. BatchSize(batch) <= sent /\ sent - BatchSize(batch) < reading /\ BatchSize(batch) \in Nat
    BY <1>1, <2>1, <2>2, PlanIs DEF BatchesInTurn
  <2>4. QED
    BY <2>1, <2>2, <2>3
<1>4. ControlTypeOK'
  <2>1. failures' \subseteq 1 .. sent /\ torn' \subseteq 1 .. sent
    BY <1>1, <1>3 DEF ControlTypeOK
  <2>2. pc' \in {"ready", "exited", "reading"} /\ pc' # "reading" /\ need' = 0 /\ ~(need' > 0) /\ need' \in Nat
    <3>1. pc' \in {"ready", "exited"} /\ need' = 0
      BY <1>1
    <3>2. QED
      BY <3>1
  <2>3. /\ wire' \in Seq(ReplyPieces) /\ coming' \in Seq(ReplyPieces) /\ connected' \in BOOLEAN
        /\ body' \in Nat /\ parts' \subseteq Nat
    BY <1>1 DEF ControlTypeOK
  <2>4. QED
    BY <2>1, <2>2, <2>3, <1>1 DEF ControlTypeOK
<1>5. BatchesInTurn'
  BY <1>1, <1>2 DEF BatchesInTurn
<1>6. InTurn'
  BY <1>1 DEF InTurn
<1>7. LoggedIn'
  <2> SUFFICES ASSUME After(batch, FALSE) # "exited"
               PROVE  /\ Plan[batch].kind \notin Logins
                      /\ \A b \in 1 .. batch : Plan[b].kind \in Logins => Plan[b].kind \in session
    BY <1>1 DEF LoggedIn
  <2>1. Plan[batch].kind \notin Logins
    BY DEF After, MustSucceed, Logins
  <2>2. ASSUME NEW b \in 1 .. batch, Plan[b].kind \in Logins PROVE Plan[b].kind \in session
    <3>1. b < batch
      BY <2>1, <2>2, <1>3
    <3>2. QED
      BY <2>2, <3>1, <1>1 DEF LoggedIn
  <2>3. QED
    BY <2>1, <2>2
<1>8. AnswersBelong'
  BY <1>1, <1>2 DEF AnswersBelong, InStepUntilFailure, AnswersAreWhole
<1>9. WrittenWhole' /\ PanicsAreOfLeftovers'
  BY <1>1 DEF WrittenWhole, PanicsAreOfLeftovers
<1>10. QED
  BY <1>1, <1>4, <1>5, <1>6, <1>7, <1>8, <1>9

LEMMA TimeoutKeeps ==
    ASSUME ControlInv, Timeout
    PROVE  ControlInv'
<1>1. /\ pc = "reading" /\ wire = <<>> /\ FailBatch /\ UNCHANGED remoteVars /\ wire' = wire
      /\ ControlTypeOK /\ Known(Unread, served, commands, session)
      /\ torn' = (IF body # 0 \/ arriving = "part" THEN torn \cup {reading} ELSE torn)
      /\ coming' = (IF arriving = "part" THEN CutFirst(coming) ELSE coming) /\ arriving' = "nothing"
  BY DEF Timeout, ControlInv
<1>2. coming \in Seq(ReplyPieces) /\ Unread = coming /\ (arriving = "part" => coming # <<>>)
  BY <1>1, StreamOf DEF ControlTypeOK
<1>3. coming' \in Seq(ReplyPieces) /\ (coming' = coming \/ (coming # <<>> /\ coming' = CutFirst(coming)))
  BY <1>1, <1>2, CutIs
<1>4. /\ ControlTypeOK' /\ BatchesInTurn' /\ InTurn' /\ LoggedIn' /\ AnswersBelong'
      /\ WrittenWhole' /\ PanicsAreOfLeftovers'
      /\ commands' = commands /\ served' = served /\ session' = session
      /\ need' = 0 /\ body' = 0 /\ parts' = {}
  BY <1>1, <1>3, FailedBatch
<1>5. Unread' = coming'
  BY <1>1, <1>3, StreamIs DEF Unread
<1>6. Known(coming', served, commands, session)
  BY <1>1, <1>2, <1>3, CutIs
<1>7. Untorn'
  <2>1. ASSUME torn' = {} PROVE WholeValues(Unread, 0) /\ Unread' = Unread
    <3>1. torn = {} /\ body = 0 /\ arriving # "part"
      BY <2>1, <1>1
    <3>2. QED
      BY <3>1, <1>1, <1>2, <1>5 DEF ControlInv, Untorn
  <2>2. Cursor(Unread)'
    BY <1>4 DEF Cursor, Loose
  <2>3. QED
    BY <2>1, <2>2, <1>4 DEF Untorn
<1>8. QED
  BY <1>4, <1>5, <1>6, <1>7 DEF ControlInv

LEMMA EndOfStreamKeeps ==
    ASSUME ControlInv, EndOfStream
    PROVE  ControlInv'
<1>1. /\ pc = "reading" /\ wire = <<>> /\ coming = <<>> /\ FailBatch /\ UNCHANGED remoteVars /\ wire' = wire
      /\ coming' = coming /\ torn' = torn /\ arriving' = arriving /\ ControlTypeOK
      /\ Known(Unread, served, commands, session)
  BY DEF EndOfStream, ControlInv
<1>2. coming \in Seq(ReplyPieces) /\ Unread = coming /\ Len(Unread) = 0
  BY <1>1, StreamOf
<1>3. /\ ControlTypeOK' /\ BatchesInTurn' /\ InTurn' /\ LoggedIn' /\ AnswersBelong'
      /\ WrittenWhole' /\ PanicsAreOfLeftovers'
      /\ commands' = commands /\ served' = served /\ session' = session
      /\ need' = 0 /\ body' = 0 /\ parts' = {}
  <2>1. arriving \in {"nothing", "part", "more"} /\ (arriving # "nothing" => coming # <<>>)
    BY <1>1 DEF ControlTypeOK
  <2>2. QED
    BY <2>1, <1>1, <1>2, FailedBatch
<1>4. Unread' = Unread
  BY <1>1 DEF Unread
<1>5. WholeValues(Unread, 0)
  BY <1>2 DEF WholeValues
<1>6. Cursor(Unread)'
  BY <1>3 DEF Cursor, Loose
<1>7. Untorn'
  BY <1>3, <1>4, <1>5, <1>6 DEF Untorn
<1>8. QED
  BY <1>1, <1>3, <1>4, <1>7 DEF ControlInv

(* Replies, in whatever state the connection is, are cut up as the invariant  *)
(* says: whole while nothing was torn, and in turn while nothing failed.      *)
THEOREM ControlInductive == ControlSpec => []ControlInv
<1>1. ControlInv /\ [ControlNext]_controlVars => ControlInv'
  <2> SUFFICES ASSUME ControlInv, [ControlNext]_controlVars PROVE ControlInv'
    OBVIOUS
  <2>1. CASE ReadPiece
    BY <2>1, ReadKeepsType, ReadKeepsKnown, ReadKeepsUntorn, ReadKeepsInStep, ReadKeepsLoggedIn, ReadKeepsAnswers,
       ReadKeepsPanics DEF ControlInv
  <2>2. QED
    BY <2>1, SendKeeps, FailSendKeeps, TimeoutKeeps, EndOfStreamKeeps, ServeKeeps, ServeLostKeeps, DeliverKeeps,
       QuietKeeps DEF ControlNext, Client, Remote
<1>2. QED
  BY <1>1, ControlInitInv, PTL DEF ControlSpec

(* The types of the connection, its users and the pieces of replies.          *)
THEOREM ControlTypeCorrect == ControlSpec => []ControlTypeOK
<1>1. ControlInv => ControlTypeOK
  BY DEF ControlInv
<1>2. QED
  BY <1>1, ControlInductive, PTL

(* Until a command fails, its answer is the reply to it; no answer is made of *)
(* two replies before one was cut within a line or a string; and a command    *)
(* panics only over what an earlier one left of its reply.                    *)
THEOREM NoHarmWithoutFailure == ControlSpec => []OnlyFailuresConfuse
<1>1. ControlInv => OnlyFailuresConfuse
  BY DEF ControlInv, OnlyFailuresConfuse
<1>2. QED
  BY <1>1, ControlInductive, PTL

(* Whoever is handed a connection has one that is logged in.                  *)
THEOREM LoggedInWhenHandedOut == ControlSpec => []HandedOutReady
<1>1. ControlInv => HandedOutReady
  BY DEF ControlInv, LoggedIn, HandedOutReady
<1>2. QED
  BY <1>1, ControlInductive, PTL

=============================================================================
