---------------------- MODULE EbicsTransaction_proofs ----------------------
(***************************************************************************)
(* That a transfer delivers all of the order data, whatever is lost,       *)
(* refused or set back on the way, and so keeps what SegmentTransfer       *)
(* promises.                                                               *)
(*                                                                         *)
(* The invariant says that what the receiver has is a prefix of the        *)
(* segments, up to where its side is: the bank's recovery point for an     *)
(* upload, the engine's cursor for a download; and that nobody says the    *)
(* end was reached unless it was.  The theorems suppose that the bank does *)
(* not refuse an order in the body of an answer whose header has a notice: *)
(* such a refusal decides nothing in the code, which goes on.              *)
(***************************************************************************)
EXTENDS EbicsTransaction, WellFoundedInduction, SequenceTheorems, TLAPS

-----------------------------------------------------------------------------
(* Facts about numbers, and about data cut into segments and put together. *)

\* A set of numbers has a least one.
LEMMA Least ==
    ASSUME NEW S \in SUBSET Nat, S # {}
    PROVE  \E n \in S : \A m \in S : n <= m
<1> DEFINE R == OpToRel(<, Nat)
<1>1. IsWellFoundedOn(R, Nat) BY NatLessThanWellFounded
<1>2. \A m, n \in Nat : m < n => <<m, n>> \in R BY DEF OpToRel
<1> HIDE DEF R
<1>3. PICK n \in S : \A m \in S : <<m, n>> \notin R BY <1>1, WFMin
<1>4. n \in Nat /\ \A m \in S : m \in Nat /\ ~ (m < n) BY <1>2, <1>3
<1> QED BY <1>4

\* What is true of the first and of the next of each is true of all.
LEMMA UpTo ==
    ASSUME NEW n \in Nat, NEW S, 1 \in S,
           \A i \in 1..n : i \in S /\ i < n => i + 1 \in S
    PROVE  1..n \subseteq S
<1> SUFFICES ASSUME NEW j \in 1..n, j \notin S PROVE FALSE OBVIOUS
<1> DEFINE Out == {i \in 1..n : i \notin S}
<1>1. Out \in SUBSET Nat /\ Out # {} OBVIOUS
<1> HIDE DEF Out
<1>2. PICK i \in Out : \A m \in Out : i <= m BY <1>1, Least
<1> USE DEF Out
<1>3. i # 1 /\ i - 1 \in 1..n /\ i - 1 \notin Out BY <1>2
<1> QED BY <1>2, <1>3

\* The least of two, as it is asked for.
LEMMA MinOfTwo ==
    ASSUME NEW a \in Int, NEW b \in Int
    PROVE  Min({a, b}) = IF a <= b THEN a ELSE b
BY DEF Min

\* How many rounds it takes to cut what is longer than nothing.
LEMMA Rounds ==
    ASSUME NEW n \in Nat \ {0}, NEW k, k = (n + SEGMENT_SIZE - 1) \div SEGMENT_SIZE
    PROVE  /\ k \in Nat \ {0} /\ n <= k * SEGMENT_SIZE
           /\ \A i \in 1..k : i < k => i * SEGMENT_SIZE < n
BY TransferAssumption

\* Order data is cut into one segment or more.
LEMMA SplitShape ==
    ASSUME NEW p \in Seq(Nat)
    PROVE  /\ Split(p) \in Seq(Seq(Nat)) /\ Len(Split(p)) \in Nat \ {0}
           /\ p # <<>> =>
                /\ Len(p) <= Len(Split(p)) * SEGMENT_SIZE
                /\ \A i \in 1..Len(Split(p)) :
                    /\ i < Len(Split(p)) => i * SEGMENT_SIZE < Len(p)
                    /\ Split(p)[i] = SubSeq(p, (i - 1) * SEGMENT_SIZE + 1,
                                            Min({i * SEGMENT_SIZE, Len(p)}))
<1> USE TransferAssumption
<1>1. CASE p = <<>>
  <2>1. Split(p) = <<(<<>>)>> BY <1>1 DEF Split
  <2>2. <<>> \in Seq(Nat) OBVIOUS
  <2>3. \A e \in Seq(Nat) : <<e>> \in Seq(Seq(Nat)) /\ Len(<<e>>) = 1 OBVIOUS
  <2>4. <<(<<>>)>> \in Seq(Seq(Nat)) /\ Len(<<(<<>>)>>) = 1 BY <2>2, <2>3
  <2>5. Split(p) \in Seq(Seq(Nat)) /\ Len(Split(p)) = 1 BY <2>1, <2>4
  <2>6. Len(Split(p)) \in Nat \ {0} BY <2>5
  <2> QED BY <1>1, <2>5, <2>6
<1>2. CASE p # <<>>
  <2> DEFINE k == (Len(p) + SEGMENT_SIZE - 1) \div SEGMENT_SIZE
             part(i) == SubSeq(p, (i - 1) * SEGMENT_SIZE + 1, Min({i * SEGMENT_SIZE, Len(p)}))
  <2>1. Split(p) = [i \in 1..k |-> part(i)] BY <1>2 DEF Split
  <2>2. Len(p) \in Nat \ {0} BY <1>2, EmptySeq
  <2>3. /\ k \in Nat \ {0} /\ Len(p) <= k * SEGMENT_SIZE
        /\ \A i \in 1..k : i < k => i * SEGMENT_SIZE < Len(p)
    BY <2>2, Rounds
  <2> HIDE DEF k
  <2>4. \A i \in 1..k : part(i) \in Seq(Nat)
    <3> SUFFICES ASSUME NEW i \in 1..k PROVE part(i) \in Seq(Nat) OBVIOUS
    <3>1. /\ i * SEGMENT_SIZE \in Nat /\ (i - 1) * SEGMENT_SIZE + 1 \in Nat \ {0}
      BY <2>3
    <3>2. Min({i * SEGMENT_SIZE, Len(p)}) \in 0..Len(p)
      <4>1. PICK a \in Nat, b \in Nat : a = i * SEGMENT_SIZE /\ b = Len(p) BY <3>1, <2>2
      <4>2. Min({a, b}) = IF a <= b THEN a ELSE b BY MinOfTwo
      <4> QED BY <4>1, <4>2
    <3>3. \A j \in 1..Len(p) : p[j] \in Nat BY ElementOfSeq
    <3> DEFINE from == (i - 1) * SEGMENT_SIZE + 1
               to == Min({i * SEGMENT_SIZE, Len(p)})
    <3>4. from \in Int /\ to \in Int /\ 1 <= from /\ to <= Len(p) BY <3>1, <3>2
    <3> HIDE DEF from, to
    <3>5. SubSeq(p, from, to) \in Seq(Nat)
      <4>1. \A j \in from..to : p[j] \in Nat BY <3>3, <3>4
      <4> QED BY <3>4, <4>1, SubSeqProperties
    <3> QED BY <3>5 DEF from, to
  <2> HIDE DEF part
  <2>5. Split(p) \in Seq(Seq(Nat)) /\ Len(Split(p)) = k
    BY <2>1, <2>3, <2>4, IsASeq
  <2>6. \A i \in 1..k : Split(p)[i] = part(i) BY <2>1
  <2> QED BY <2>3, <2>5, <2>6 DEF part
<1> QED BY <1>1, <1>2

\* Whatever solves the equation of flatten is what it computes.
LEMMA FlattenIs ==
    ASSUME NEW s, Len(s) \in Nat \ {0},
           NEW g, g = [i \in 1..Len(s) |-> IF i = 1 THEN s[i] ELSE g[i - 1] \o s[i]]
    PROVE  FlattenSeq(s) = g[Len(s)]
<1> DEFINE Is(h) == h = [i \in 1..Len(s) |-> IF i = 1 THEN s[i] ELSE h[i - 1] \o s[i]]
           f == CHOOSE h : Is(h)
           Same == {i \in 1..Len(s) : f[i] = g[i]}
<1>1. FlattenSeq(s) = f[Len(s)] BY DEF FlattenSeq
<1>2. Is(g) OBVIOUS
<1>3. Is(f)
  <2> HIDE DEF Is
  <2> QED BY <1>2
<1> HIDE DEF f
<1>4. 1 \in Same BY <1>2, <1>3
<1>5. \A i \in 1..Len(s) : i \in Same /\ i < Len(s) => i + 1 \in Same
  <2> SUFFICES ASSUME NEW i \in 1..Len(s), i \in Same, i < Len(s) PROVE i + 1 \in Same OBVIOUS
  <2>1. i + 1 \in 1..Len(s) /\ i + 1 # 1 /\ (i + 1) - 1 = i OBVIOUS
  <2>2. f[i + 1] = f[i] \o s[i + 1] BY <1>3, <2>1
  <2>3. g[i + 1] = g[i] \o s[i + 1] BY <1>2, <2>1
  <2> QED BY <2>1, <2>2, <2>3
<1> HIDE DEF Same
<1>6. 1..Len(s) \subseteq Same BY <1>4, <1>5, UpTo
<1>7. Len(s) \in 1..Len(s) OBVIOUS
<1>8. f[Len(s)] = g[Len(s)] BY <1>6, <1>7 DEF Same
<1> QED BY <1>1, <1>8

\* Cut and put together again, order data is what it was.
LEMMA FlattenSplit ==
    ASSUME NEW p \in Seq(Nat)
    PROVE  FlattenSeq(Split(p)) = p
<1> USE TransferAssumption
<1>1. CASE p = <<>>
  <2> DEFINE s == <<(<<>>)>>
             g == [i \in 1..1 |-> <<>>]
  <2>1. Split(p) = s /\ Len(s) = 1 BY <1>1 DEF Split
  <2>2. g = [i \in 1..Len(s) |-> IF i = 1 THEN s[i] ELSE g[i - 1] \o s[i]] OBVIOUS
  <2>3. g[1] = <<>> OBVIOUS
  <2> HIDE DEF s, g
  <2>4. Len(s) \in Nat \ {0} BY <2>1
  <2>5. FlattenSeq(s) = g[Len(s)] BY <2>4, <2>2, FlattenIs
  <2> QED BY <1>1, <2>1, <2>3, <2>5
<1>2. CASE p # <<>>
  <2> DEFINE s == Split(p)
             k == Len(s)
             upto(i) == IF i < k THEN i * SEGMENT_SIZE ELSE Len(p)
             front(i) == SubSeq(p, 1, upto(i))
             g == [i \in 1..k |-> front(i)]
  <2>1. k \in Nat \ {0} /\ Len(p) \in Nat \ {0} /\ Len(p) <= k * SEGMENT_SIZE
    BY <1>2, SplitShape, EmptySeq
  <2>2. \A i \in 1..k :
            /\ i < k => i * SEGMENT_SIZE < Len(p)
            /\ s[i] = SubSeq(p, (i - 1) * SEGMENT_SIZE + 1, Min({i * SEGMENT_SIZE, Len(p)}))
    BY <1>2, SplitShape
  <2> HIDE DEF s, k
  <2>0. \A i \in 1..k : i < k => i * SEGMENT_SIZE < Len(p) BY <2>2
  <2>3. \A i \in 1..k : upto(i) \in 1..Len(p) /\ Min({i * SEGMENT_SIZE, Len(p)}) = upto(i)
    <3> SUFFICES ASSUME NEW i \in 1..k
                 PROVE  upto(i) \in 1..Len(p) /\ Min({i * SEGMENT_SIZE, Len(p)}) = upto(i)
      OBVIOUS
    <3> DEFINE m == i * SEGMENT_SIZE
    <3>1. m \in Nat \ {0} /\ (i < k => m < Len(p)) /\ (i = k => Len(p) <= m)
      BY <2>1, <2>0
    <3>2. upto(i) = IF i < k THEN m ELSE Len(p) OBVIOUS
    <3> HIDE DEF m, upto
    <3>3. Min({m, Len(p)}) = IF m <= Len(p) THEN m ELSE Len(p) BY <3>1, <2>1, MinOfTwo
    <3>4. upto(i) \in 1..Len(p) /\ Min({m, Len(p)}) = upto(i) BY <3>1, <3>2, <3>3, <2>1
    <3> QED BY <3>4 DEF m
  <2>4. s[1] = front(1)
    <3>1. (1 - 1) * SEGMENT_SIZE + 1 = 1 /\ 1 \in 1..k BY <2>1
    <3> QED BY <3>1, <2>2, <2>3
  <2>5. \A i \in 2..k : front(i - 1) \o s[i] = front(i)
    <3> SUFFICES ASSUME NEW i \in 2..k PROVE front(i - 1) \o s[i] = front(i) OBVIOUS
    <3>1. /\ i - 1 \in 1..k /\ i \in 1..k /\ upto(i - 1) = (i - 1) * SEGMENT_SIZE
          /\ upto(i - 1) < Len(p)
      <4>1. i - 1 \in 1..k /\ i \in 1..k /\ i - 1 < k BY <2>1
      <4>2. (i - 1) * SEGMENT_SIZE < Len(p) BY <4>1, <2>2
      <4> QED BY <4>1, <4>2
    <3>2. upto(i - 1) \in 1..Len(p) /\ upto(i) \in 1..Len(p) BY <3>1, <2>3
    <3>3. upto(i - 1) <= upto(i)
      <4>1. CASE i < k
        <5>1. i * SEGMENT_SIZE = (i - 1) * SEGMENT_SIZE + SEGMENT_SIZE OBVIOUS
        <5>2. (i - 1) * SEGMENT_SIZE \in Nat BY <3>1
        <5> QED BY <4>1, <5>1, <5>2, <3>1
      <4>2. CASE i = k BY <4>2, <3>2
      <4> QED BY <4>1, <4>2, <2>1
    <3>4. s[i] = SubSeq(p, upto(i - 1) + 1, upto(i)) BY <3>1, <2>2, <2>3
    <3> HIDE DEF upto
    <3>5. SubSeq(p, 1, upto(i - 1)) \o SubSeq(p, upto(i - 1) + 1, upto(i)) = SubSeq(p, 1, upto(i))
      <4>1. /\ 1 \in 1..(Len(p) + 1) /\ upto(i - 1) \in (1 - 1)..Len(p)
            /\ upto(i) \in upto(i - 1)..Len(p)
        BY <3>2, <3>3, <2>1
      <4> QED BY <4>1, ConcatAdjacentSubSeq
    <3> QED BY <3>4, <3>5
  <2> HIDE DEF front
  <2>6. \A i \in 1..k : g[i] = IF i = 1 THEN s[i] ELSE g[i - 1] \o s[i]
    <3> SUFFICES ASSUME NEW i \in 1..k, i # 1 PROVE g[i] = g[i - 1] \o s[i] BY <2>4
    <3>1. i \in 2..k /\ i - 1 \in 1..k BY <2>1
    <3> QED BY <3>1, <2>5
  <2>7. g = [i \in 1..k |-> IF i = 1 THEN s[i] ELSE g[i - 1] \o s[i]]
    <3> DEFINE h == [i \in 1..k |-> IF i = 1 THEN s[i] ELSE g[i - 1] \o s[i]]
    <3>1. DOMAIN h = 1..k /\ h = [i \in 1..k |-> h[i]] OBVIOUS
    <3>2. \A i \in 1..k : h[i] = g[i] BY <2>6
    <3>3. g = [i \in 1..k |-> g[i]] OBVIOUS
    <3> HIDE DEF g, h
    <3>4. g = h BY <3>1, <3>2, <3>3
    <3> QED BY <3>4 DEF h
  <2>8. FlattenSeq(s) = g[k]
    <3> HIDE DEF g
    <3> QED BY <2>1, <2>7, FlattenIs DEF k
  <2>9. front(k) = p BY <2>1, SubSeqFull DEF front
  <2> QED BY <2>1, <2>8, <2>9 DEF s
<1> QED BY <1>1, <1>2

-----------------------------------------------------------------------------
(* The inductive invariant. *)

\* What the parts are made of.
Shape ==
    /\ payload \in Seq(Nat) /\ tx \in Engine /\ caller \in Caller /\ bank \in Bank
    /\ line = Quiet \/ line.to \in {"bank", "engine"}
    /\ line.to = "bank" => line.request \in Request
    /\ line.to = "engine" => line.answer \in Answer

\* How many segments there are, and the first n of them.
K == Len(Segments)
Prefix(n) == SubSeq(Segments, 1, n)

\* One thing is under way at a time: the loops wait exactly while the line is busy.
Pacing ==
    /\ caller.pc = "waiting" <=> line # Quiet
    /\ caller.pc = "ended" <=> caller.outcome # "none"
    /\ caller.pc = "opening" => tx.phase = "Initialisation"
    /\ caller.pc = "driving" => tx.phase # "Initialisation"
    /\ caller.pc = "waiting" => tx.phase # "Done"
    /\ tx.phase \in {"Transfer", "Receipt"} => tx.id
    /\ tx.phase = "Initialisation" => tx.cursor = 0 /\ tx.segments = <<>>
    /\ line.to = "bank" => line.request.kind = tx.phase
    /\ tx.phase = "Initialisation" /\ line.to # "engine" /\ caller.pc # "ended" =>
           bank.state = "new"
    /\ bank.state = "new" => bank.point = 0 /\ bank.got = <<>>

\* The word of a bank that says where to go on from.
Recoverable == Says("recoverable", "absent")

\* The bank has the segments up to its recovery point, and agrees to the last
\* one only when it has them all.  The engine may be behind or ahead of it.
Uploading ==
    /\ tx.phase # "Receipt" /\ tx.cursor <= K
    /\ caller.stored = NoData /\ ~caller.acknowledging
    /\ bank.point <= K /\ bank.got = Prefix(bank.point)
    /\ bank.state = "complete" => bank.point = K
    /\ tx.phase = "Done" => bank.state = "complete"
    /\ caller.outcome = "done" => tx.phase = "Done"
    /\ caller.pc = "waiting" /\ tx.phase = "Transfer" => tx.cursor < K
    /\ line.to = "bank" /\ tx.phase = "Transfer" =>
           /\ line.request.number = tx.cursor + 1
           /\ line.request.last <=> tx.cursor + 1 = K
           /\ line.request.data = Segments[tx.cursor + 1]
    /\ line.to = "engine" =>
           \/ line.answer.status \in Refused
           \/ /\ line.answer.status \in Agreed /\ line.answer.id
              /\ tx.phase = "Transfer" /\ tx.cursor + 1 = K => bank.state = "complete"
           \/ /\ line.answer.status = Recoverable /\ tx.phase = "Transfer"
              /\ line.answer.number <= K

\* The engine has the segments up to its cursor, and the bank is behind it or
\* one segment ahead; what is stored, and told to the bank, is all of them.
Downloading ==
    /\ tx.cursor <= K /\ tx.segments = Prefix(tx.cursor)
    /\ tx.phase = "Transfer" => tx.cursor < K
    /\ tx.phase = "Receipt" => tx.cursor = K
    /\ tx.phase = "Done" => caller.acknowledging \/ tx.cursor = 0
    /\ bank.point <= K
    /\ caller.pc # "ended" /\ line.to # "engine" => bank.point <= tx.cursor
    /\ caller.stored \in {NoData, payload}
    /\ caller.acknowledging => caller.stored = payload
    /\ caller.outcome = "done" => caller.stored = payload
    /\ bank.state = "complete" => payload = <<>> \/ caller.stored = payload
    /\ caller.pc = "waiting" /\ tx.phase = "Receipt" => caller.acknowledging
    /\ line.to = "bank" /\ tx.phase = "Transfer" =>
           line.request.number = tx.cursor + 1 /\ ~line.request.last
    /\ line.to = "engine" =>
           \/ line.answer.status \in Refused
           \/ /\ line.answer.status \in Agreed /\ line.answer.id
              /\ tx.phase # "Receipt" /\ tx.cursor < K /\ bank.point <= tx.cursor + 1
              /\ line.answer.number = tx.cursor + 1
              /\ line.answer.last <=> tx.cursor + 1 = K
              /\ line.answer.data = Segments[tx.cursor + 1]
           \/ /\ line.answer.status = Recoverable
              /\ tx.phase \in {"Transfer", "Receipt"}
              /\ line.answer.number < K /\ line.answer.number <= tx.cursor
              /\ bank.point <= line.answer.number
           \/ /\ "completed" \in Codes(line.answer.status)
              /\ line.answer.status \in {Says("completed", "absent"),
                     Says("success", "completed"), Says("completed", "success")}
              /\ tx.phase = "Initialisation" \/ tx.phase = "Receipt"
              /\ bank.point <= tx.cursor

\* The invariant of a transfer, whichever way it goes.
TransferInv ==
    /\ Shape /\ Pacing
    /\ tx.direction = "upload" => Uploading
    /\ tx.direction = "download" => Downloading

-----------------------------------------------------------------------------
(* Facts about segments and codes, for the steps to cite. *)

\* There is at least one segment, and together they are the order data.
LEMMA SegmentFacts ==
    ASSUME payload \in Seq(Nat)
    PROVE  /\ Segments \in Seq(Seq(Nat)) /\ K \in Nat \ {0}
           /\ \A i \in 1..K : Segments[i] \in Seq(Nat) /\ Segments[i] # NoData
           /\ Prefix(0) = <<>> /\ Prefix(K) = Segments
           /\ FlattenSeq(Segments) = payload
<1>1. Segments \in Seq(Seq(Nat)) /\ K \in Nat \ {0} BY SplitShape DEF Segments, K
<1>2. \A i \in 1..K : Segments[i] \in Seq(Nat) BY <1>1, ElementOfSeq DEF K
<1>3. Prefix(0) = <<>> BY <1>1, SubSeqEmpty DEF Prefix
<1>4. Prefix(K) = Segments BY <1>1, SubSeqFull DEF Prefix, K
<1>5. FlattenSeq(Segments) = payload BY FlattenSplit DEF Segments
<1> QED BY <1>1, <1>2, <1>3, <1>4, <1>5, TransferAssumption

\* Taking one more segment, and being set back, lead from prefix to prefix.
LEMMA PrefixFacts ==
    ASSUME payload \in Seq(Nat), NEW n \in Nat, n <= K
    PROVE  /\ Prefix(n) \in Seq(Seq(Nat)) /\ Len(Prefix(n)) = n
           /\ n < K => Append(Prefix(n), Segments[n + 1]) = Prefix(n + 1)
           /\ \A m \in Nat : m <= n =>
                /\ SubSeq(Prefix(n), 1, m) = Prefix(m)
                /\ SubSeq(Prefix(n), 1, Min({m, Len(Prefix(n))})) = Prefix(m)
<1>1. Segments \in Seq(Seq(Nat)) /\ K \in Nat \ {0} /\ K = Len(Segments)
  BY SegmentFacts DEF K
<1> HIDE DEF Segments, K
<1>2. Prefix(n) \in Seq(Seq(Nat)) /\ Len(Prefix(n)) = n
  <2>1. \A i \in 1..n : Segments[i] \in Seq(Nat) BY <1>1, ElementOfSeq
  <2> QED BY <1>1, <2>1, SubSeqProperties DEF Prefix
<1>3. ASSUME n < K PROVE Append(Prefix(n), Segments[n + 1]) = Prefix(n + 1)
  <2>1. n + 1 \in 1..Len(Segments) /\ 1 \in 1..Len(Segments) /\ n + 1 \in 1..(n + 1)
        /\ (n + 1) - 1 = n
    BY <1>1, <1>3
  <2>2. SubSeq(Segments, 1, n + 1) = SubSeq(Segments, 1, n) \o <<Segments[n + 1]>>
    BY <1>1, <2>1, SubSeqRecursiveSecond
  <2>3. Segments[n + 1] \in Seq(Nat) BY <1>1, <2>1, ElementOfSeq
  <2> QED BY <1>2, <2>2, <2>3, AppendIsConcat DEF Prefix
<1>4. ASSUME NEW m \in Nat, m <= n PROVE SubSeq(Prefix(n), 1, m) = Prefix(m)
  <2>1. CASE m = 0
    <3>1. SubSeq(Prefix(n), 1, 0) = <<>> BY SubSeqEmpty
    <3>2. Prefix(0) = <<>> BY SegmentFacts
    <3> QED BY <2>1, <3>1, <3>2
  <2>2. CASE m > 0
    <3>1. /\ 1 \in 1..Len(Segments) /\ n \in 1..Len(Segments)
          /\ 1 \in 1..(n - 1 + 1) /\ m \in 1..(n - 1 + 1) /\ 1 + m - 1 = m
      BY <1>1, <1>4, <2>2
    <3>2. SubSeq(SubSeq(Segments, 1, n), 1, m) = SubSeq(Segments, 1 + 1 - 1, 1 + m - 1)
      BY <1>1, <3>1, SubSeqOfSubSeq
    <3> QED BY <3>1, <3>2 DEF Prefix
  <2> QED BY <2>1, <2>2
<1>5. ASSUME NEW m \in Nat, m <= n PROVE Min({m, Len(Prefix(n))}) = m
  BY <1>2, <1>5, MinOfTwo
<1> QED BY <1>2, <1>3, <1>4, <1>5

\* What is kept of a sequence when the engine is set back.
LEMMA CutShort ==
    ASSUME NEW s \in Seq(Seq(Nat)), NEW n \in Nat
    PROVE  SubSeq(s, 1, Min({n, Len(s)})) \in Seq(Seq(Nat))
<1> DEFINE to == Min({n, Len(s)})
<1>0. Len(s) \in Int /\ n \in Int BY LenProperties
<1>1. Min({n, Len(s)}) = IF n <= Len(s) THEN n ELSE Len(s) BY <1>0, MinOfTwo
<1>1a. to \in Int /\ to <= Len(s) BY <1>0, <1>1
<1>2. \A i \in 1..Len(s) : s[i] \in Seq(Nat) BY ElementOfSeq
<1> HIDE DEF to
<1>3. SubSeq(s, 1, to) \in Seq(Seq(Nat)) BY <1>0, <1>1a, <1>2, SubSeqProperties
<1> QED BY <1>3 DEF to

\* What the engine makes of every word a bank says.
LEMMA Meaning ==
    /\ \A status \in Agreed :
        /\ status \in Status
        /\ ~NeedsRecovery(status) /\ ~Raises(status) /\ ~EndsTransaction(status)
    /\ Recoverable \in Status /\ NeedsRecovery(Recoverable)
    /\ \A status \in {Says("completed", "absent"), Says("success", "completed"),
                      Says("completed", "success")} :
        /\ status \in Status
        /\ ~NeedsRecovery(status) /\ ~Raises(status) /\ EndsTransaction(status)
BY DEF Agreed, Status, Dispositions, Says, NeedsRecovery, Raises, EndsTransaction, Codes,
       Decisive, Recoverable

\* A refusal is raised, and never taken for a recovery point.
LEMMA Refusing ==
    /\ Refused \subseteq Status
    /\ ~BesideNotices =>
        \A status \in Refused : Raises(status) /\ ~NeedsRecovery(status)
<1>1. Refused \subseteq Status BY DEF Refused, Status, Dispositions, Says
<1>2. ASSUME ~BesideNotices, NEW status \in Refused
      PROVE  Raises(status) /\ ~NeedsRecovery(status)
  <2>1. status \in {Says("retryable", "absent"), Says("terminal", "absent"),
                    Says("success", "terminal")}
    BY <1>2 DEF Refused
  <2> QED BY <2>1 DEF Says, NeedsRecovery, Raises, Codes, Decisive
<1> QED BY <1>1, <1>2

-----------------------------------------------------------------------------
(* Every step keeps the invariant. *)

\* A transfer that was not begun.
LEMMA TransferInvInit == Init => TransferInv
<1> SUFFICES ASSUME Init PROVE TransferInv OBVIOUS
<1>1. payload \in Seq(Nat)
  <2>1. PICK n \in 0..MaxLength : payload = [i \in 1..n |-> i] BY DEF Init
  <2> QED BY <2>1, TransferAssumption, IsASeq
<1>2. /\ tx \in Engine /\ tx.phase = "Initialisation" /\ tx.cursor = 0 /\ tx.segments = <<>>
      /\ tx.direction \in {"upload", "download"}
  BY DEF Init, Engine, Phases
<1>3. /\ caller \in Caller /\ caller.pc = "opening" /\ caller.outcome = "none"
      /\ caller.stored = NoData /\ ~caller.acknowledging
  BY DEF Init, Caller
<1>4. line = Quiet /\ line.to = "nobody" BY DEF Init, Quiet
<1>5. bank \in Bank /\ bank.state = "new" /\ bank.point = 0 /\ bank.got = <<>>
  BY DEF Init, Bank
<1>6. Shape BY <1>1, <1>2, <1>3, <1>4, <1>5 DEF Shape
<1>7. Pacing BY <1>2, <1>3, <1>4, <1>5 DEF Pacing
<1>8. Uploading /\ Downloading
  BY <1>1, <1>2, <1>3, <1>4, <1>5, SegmentFacts DEF Uploading, Downloading
<1> QED BY <1>6, <1>7, <1>8 DEF TransferInv

\* The order data stays what it is, and so do its segments.
LEMMA SegmentsStay ==
    ASSUME UNCHANGED payload
    PROVE  Segments' = Segments /\ K' = K /\ \A n : Prefix(n)' = Prefix(n)
BY DEF Segments, K, Prefix

\* A request goes out: what it asks is what the engine is at.
LEMMA RequestsKeep ==
    ASSUME TransferInv, Open \/ Ask PROVE TransferInv'
<1> USE DEF TransferInv
<1>1. UNCHANGED <<payload, tx, bank, setBacks>> BY DEF Open, Ask
<1>2. PICK request : line' = [to |-> "bank", request |-> request]
                     /\ request = IF caller.pc = "opening" THEN InitialRequest ELSE NextRequest
  BY DEF Open, Ask, Asks
<1>3. caller' = [caller EXCEPT !.pc = "waiting"] /\ caller.pc \in {"opening", "driving"}
  BY DEF Open, Ask
<1>4. /\ caller' \in Caller /\ caller'.pc = "waiting" /\ caller'.outcome = caller.outcome
      /\ caller'.stored = caller.stored /\ caller'.acknowledging = caller.acknowledging
  BY <1>3 DEF Shape, Caller
<1>5. line'.to = "bank" /\ line'.request = request /\ line' # Quiet BY <1>2 DEF Quiet
<1>6. /\ payload \in Seq(Nat) /\ tx \in Engine /\ tx.cursor \in Nat /\ bank.point \in Nat
  BY DEF Shape, Engine, Bank
<1>7. CASE caller.pc = "opening"
  <2>1. tx.phase = "Initialisation" /\ bank.state = "new" /\ request = InitialRequest
    BY <1>2, <1>7 DEF Pacing, Quiet
  <2>2. request \in Request /\ request.kind = "Initialisation"
    BY <2>1 DEF InitialRequest, Request, Phases
  <2>3. Shape' BY <1>1, <1>4, <1>5, <2>2 DEF Shape
  <2>4. Pacing' BY <1>1, <1>3, <1>4, <1>5, <2>1, <2>2 DEF Pacing
  <2>5. Uploading => Uploading'
    BY <1>1, <1>4, <1>5, <2>1, SegmentsStay DEF Uploading
  <2>6. Downloading => Downloading'
    BY <1>1, <1>3, <1>4, <1>5, <1>7, <2>1, SegmentsStay DEF Downloading, Pacing
  <2> QED BY <1>1, <2>3, <2>4, <2>5, <2>6
<1>8. CASE caller.pc = "driving"
  <2>1. Ask /\ request = NextRequest BY <1>2, <1>8 DEF Open
  <2>2. /\ tx.phase = "Transfer"
        /\ tx.direction = "upload" => tx.cursor < K
        /\ tx.direction \in {"upload", "download"}
    BY <1>6, <2>1 DEF Ask, MayAsk, K, Engine
  <2>3. tx.cursor + 1 \in 1..K /\ Segments[tx.cursor + 1] \in Seq(Nat)
    BY <1>6, <2>2, SegmentFacts DEF Downloading
  <2>4. /\ request.kind = "Transfer" /\ request.number = tx.cursor + 1
        /\ request.last = (tx.direction = "upload" /\ tx.cursor + 1 = K)
        /\ request.data = IF tx.direction = "upload" THEN Segments[tx.cursor + 1] ELSE NoData
        /\ request \in Request
    BY <2>1, <2>2, <2>3, <1>6 DEF NextRequest, TransferRequest, Request, Phases, K
  <2>5. Shape' BY <1>1, <1>4, <1>5, <2>4 DEF Shape
  <2>6. Pacing' BY <1>1, <1>3, <1>4, <1>5, <2>2, <2>4 DEF Pacing
  <2>8. tx.direction = "upload" /\ Uploading => Uploading'
    BY <1>1, <1>4, <1>5, <2>2, <2>4, SegmentsStay DEF Uploading
  <2>9. tx.direction = "download" /\ Downloading => Downloading'
    <3> SUFFICES ASSUME tx.direction = "download", Downloading PROVE Downloading' OBVIOUS
    <3>1. bank.point <= tx.cursor BY <1>8 DEF Downloading, Pacing, Quiet
    <3> QED BY <1>1, <1>4, <1>5, <2>2, <2>4, <3>1, SegmentsStay DEF Downloading
  <2> QED BY <1>1, <2>5, <2>6, <2>8, <2>9
<1> QED BY <1>3, <1>7, <1>8

\* What was collected to the end is the order data.
LEMMA KeepsAll ==
    ASSUME TransferInv, tx.direction = "download", tx.cursor = K
    PROVE  Keeps = payload /\ payload # NoData
<1>1. tx.segments = Segments /\ payload \in Seq(Nat)
  BY SegmentFacts DEF TransferInv, Downloading, Shape
<1> QED BY <1>1, SegmentFacts, TransferAssumption DEF Keeps

\* The loop stops: what it reports was reached before.
LEMMA EndingsKeep ==
    ASSUME TransferInv, UploadOver \/ DownloadOver \/ Lost PROVE TransferInv'
<1> USE DEF TransferInv
<1>1. UNCHANGED <<payload, tx, bank, setBacks>> BY DEF UploadOver, DownloadOver, Lost
<1>2. line' = Quiet /\ line'.to = "nobody"
  BY DEF UploadOver, DownloadOver, Lost, Quiet, Pacing
<1>3. PICK outcome \in {"done", "failed"} :
        /\ Ends(outcome)
        /\ outcome = "done" => \/ tx.direction = "upload" /\ tx.phase = "Done"
                               \/ caller.acknowledging
  BY DEF UploadOver, DownloadOver, Lost
<1>4. /\ caller' \in Caller /\ caller'.pc = "ended" /\ caller'.outcome = outcome
      /\ caller'.stored = caller.stored /\ caller'.acknowledging = caller.acknowledging
  BY <1>3 DEF Ends, Shape, Caller
<1>5. Shape' BY <1>1, <1>2, <1>4 DEF Shape
<1>6. Pacing' BY <1>1, <1>2, <1>3, <1>4 DEF Pacing
<1>7. tx.direction = "upload" /\ Uploading => Uploading'
  BY <1>1, <1>2, <1>3, <1>4, SegmentsStay DEF Uploading
<1>8. tx.direction = "download" /\ Downloading => Downloading'
  BY <1>1, <1>2, <1>3, <1>4, SegmentsStay DEF Downloading
<1> QED BY <1>1, <1>5, <1>6, <1>7, <1>8

\* What is stored is everything, and only then is the bank told.
LEMMA StoreKeeps ==
    ASSUME TransferInv, Store PROVE TransferInv'
<1> USE DEF TransferInv
<1>1. UNCHANGED <<payload, tx, bank, setBacks>> BY DEF Store
<1>2. /\ caller.pc = "driving" /\ ~caller.acknowledging /\ tx.phase # "Transfer"
      /\ tx.direction = "download" /\ Downloading /\ line = Quiet /\ line.to = "nobody"
  BY DEF Store, Pacing, Quiet
<1>3. /\ tx \in Engine /\ tx.cursor \in Nat /\ tx.phase \in {"Receipt", "Done"}
      /\ caller \in Caller /\ payload \in Seq(Nat) /\ K \in Nat \ {0}
  BY <1>2, SegmentFacts DEF Shape, Pacing, Engine, Phases
<1>4. bank.point <= tx.cursor BY <1>2 DEF Downloading
<1>5. CASE tx.phase = "Done"
  <2>1. tx.segments = <<>> BY <1>2, <1>3, <1>5, SegmentFacts DEF Downloading
  <2>2. Ends("empty") /\ line' = line BY <2>1 DEF Store
  <2>3. /\ caller' \in Caller /\ caller'.pc = "ended" /\ caller'.outcome = "empty"
        /\ caller'.stored = caller.stored /\ caller'.acknowledging = caller.acknowledging
    BY <1>3, <2>2 DEF Ends, Caller
  <2>4. Shape' BY <1>1, <2>2, <2>3 DEF Shape
  <2>5. Pacing' BY <1>1, <1>2, <2>2, <2>3 DEF Pacing
  <2>6. Downloading' BY <1>1, <1>2, <2>2, <2>3, SegmentsStay DEF Downloading
  <2> QED BY <1>1, <1>2, <2>4, <2>5, <2>6
<1>6. CASE tx.phase = "Receipt"
  <2>1. tx.cursor = K BY <1>2, <1>6 DEF Downloading
  <2>2. Keeps = payload /\ payload # NoData BY <1>2, <2>1, KeepsAll
  <2>3. tx.segments # <<>>
    <3>1. Len(Prefix(K)) = K BY <1>3, PrefixFacts
    <3> QED BY <1>2, <1>3, <2>1, <3>1 DEF Downloading
  <2>4. /\ caller' = [caller EXCEPT !.pc = "waiting", !.stored = Keeps,
                                    !.acknowledging = TRUE]
        /\ Asks(ReceiptRequest)
    BY <1>6, <2>3 DEF Store, NextRequest
  <2>5. /\ caller' \in Caller /\ caller'.pc = "waiting" /\ caller'.outcome = caller.outcome
        /\ caller'.stored = payload /\ caller'.acknowledging
    BY <1>3, <2>2, <2>4 DEF Caller
  <2>6. /\ line'.to = "bank" /\ line'.request = ReceiptRequest /\ line' # Quiet
        /\ ReceiptRequest \in Request /\ ReceiptRequest.kind = "Receipt"
    BY <2>4 DEF Asks, Quiet, ReceiptRequest, InitialRequest, Request, Phases
  <2>7. Shape' BY <1>1, <2>5, <2>6 DEF Shape
  <2>8. Pacing' BY <1>1, <1>2, <1>6, <2>5, <2>6 DEF Pacing
  <2>9. Downloading'
    BY <1>1, <1>2, <1>4, <1>6, <2>5, <2>6, SegmentsStay DEF Downloading
  <2> QED BY <1>1, <1>2, <2>7, <2>8, <2>9
<1> QED BY <1>3, <1>5, <1>6

\* The bank falls back.
LEMMA FallsBackKeeps ==
    ASSUME TransferInv, BankFallsBack PROVE TransferInv'
<1> USE DEF TransferInv
<1>1. UNCHANGED <<payload, tx, caller, line>> /\ bank.state = "open" BY DEF BankFallsBack
<1>2. PICK point \in 0..(bank.point - 1) :
        bank' = [bank EXCEPT !.point = point,
                    !.got = SubSeq(bank.got, 1, Min({point, Len(bank.got)}))]
  BY DEF BankFallsBack
<1>3. bank \in Bank /\ bank.point \in Nat /\ point \in Nat /\ point < bank.point
  BY <1>2 DEF Shape, Bank
<1>4. /\ bank' \in Bank /\ bank'.point = point /\ bank'.state = "open"
      /\ bank'.got = SubSeq(bank.got, 1, Min({point, Len(bank.got)}))
  <2>1. SubSeq(bank.got, 1, Min({point, Len(bank.got)})) \in Seq(Seq(Nat))
    BY <1>3, CutShort DEF Bank
  <2> QED BY <1>1, <1>2, <1>3, <2>1 DEF Bank
<1>5. Shape' BY <1>1, <1>4 DEF Shape
<1>6. Pacing' BY <1>1, <1>4 DEF Pacing
<1>7. tx.direction = "upload" /\ Uploading => Uploading'
  <2> SUFFICES ASSUME Uploading PROVE Uploading' OBVIOUS
  <2>1. K \in Nat /\ payload \in Seq(Nat) /\ bank.point <= K /\ bank.got = Prefix(bank.point)
    BY SegmentFacts DEF Uploading, Shape
  <2>2. bank'.got = Prefix(point) /\ point <= K
    <3>1. PICK n \in Nat : n = bank.point BY <1>3
    <3>2. n <= K /\ point <= n /\ point <= K BY <1>3, <2>1, <3>1
    <3>3. SubSeq(Prefix(n), 1, Min({point, Len(Prefix(n))})) = Prefix(point)
      BY <1>3, <2>1, <3>2, PrefixFacts
    <3> QED BY <1>4, <2>1, <3>1, <3>2, <3>3
  <2>3. tx.phase # "Done" /\ caller.outcome # "done" BY <1>1 DEF Uploading
  <2>4. bank'.state = bank.state BY <1>1, <1>4
  <2> QED BY <1>1, <1>4, <2>1, <2>2, <2>3, <2>4, SegmentsStay DEF Uploading
<1>8. tx.direction = "download" /\ Downloading => Downloading'
  <2> SUFFICES ASSUME Downloading PROVE Downloading' OBVIOUS
  <2>1. Segments' = Segments /\ K' = K /\ \A n : Prefix(n)' = Prefix(n)
    BY <1>1, SegmentsStay
  <2>2. K \in Nat BY SegmentFacts DEF Shape
  <2>3. \A n \in Int : bank.point <= n => bank'.point <= n
    <3>1. PICK m \in Nat : m = bank.point BY <1>3
    <3> QED BY <1>3, <1>4, <3>1
  <2>4. tx.cursor \in Int /\ tx.cursor + 1 \in Int BY DEF Shape, Engine
  <2>5. line.to = "engine" => line.answer.number \in Int BY DEF Shape, Answer
  <2>6. bank'.state = bank.state BY <1>1, <1>4
  <2>7. line' = line /\ tx' = tx /\ caller' = caller /\ payload' = payload BY <1>1
  <2> HIDE DEF Shape, TransferInv
  <2>8. bank'.point <= K BY <2>2, <2>3 DEF Downloading
  <2>9. caller.pc # "ended" /\ line.to # "engine" => bank'.point <= tx.cursor
    BY <2>3, <2>4 DEF Downloading
  <2> QED BY <2>1, <2>3, <2>4, <2>5, <2>6, <2>7, <2>8, <2>9 DEF Downloading
<1> QED BY <1>1, <1>5, <1>6, <1>7, <1>8

\* An answer is about the request under way, and the loop goes on waiting for it.
LEMMA AnswersShape ==
    ASSUME TransferInv, line.to = "bank", UNCHANGED <<payload, tx, caller>>, bank' \in Bank,
           bank'.state # "new",
           NEW status \in Status, NEW number \in Nat, NEW last \in BOOLEAN,
           NEW data \in {NoData} \cup Seq(Nat),
           Answers(status, number, last, data)
    PROVE  /\ line'.to = "engine" /\ line' # Quiet
           /\ line'.answer.status = status /\ line'.answer.number = number
           /\ line'.answer.last = last /\ line'.answer.data = data
           /\ bank.state # "new" \/ status \in Agreed => line'.answer.id
           /\ Shape' /\ Pacing'
<1> DEFINE id == bank.state # "new" \/ status \in Agreed
<1>1. line' = [to |-> "engine", answer |-> [status |-> status, id |-> id, number |-> number,
                                            last |-> last, data |-> data]]
  BY DEF Answers
<1>2. id \in BOOLEAN OBVIOUS
<1> HIDE DEF id
<1>3. line'.to = "engine" /\ line' # Quiet BY <1>1 DEF Quiet
<1>4. /\ line'.answer.status = status /\ line'.answer.number = number
      /\ line'.answer.last = last /\ line'.answer.data = data /\ line'.answer.id = id
  BY <1>1
<1>5. line'.answer \in Answer BY <1>1, <1>2 DEF Answer
<1>6. Shape' BY <1>3, <1>5 DEF TransferInv, Shape
<1>7. line # Quiet BY DEF Quiet
<1>8. Pacing' BY <1>3, <1>7 DEF TransferInv, Pacing
<1> QED BY <1>3, <1>4, <1>6, <1>8 DEF id

\* The bank refuses: nothing is taken from that answer.
LEMMA RefusesKeeps ==
    ASSUME TransferInv, BankRefuses PROVE TransferInv'
<1>1. UNCHANGED <<payload, tx, caller>> /\ line.to = "bank" BY DEF BankRefuses
<1>2. PICK status \in Refused : Answers(status, 0, FALSE, NoData) BY DEF BankRefuses
<1>3. /\ bank' \in Bank /\ bank'.state = "refused" /\ bank'.point = bank.point
      /\ bank'.got = bank.got
  BY DEF BankRefuses, TransferInv, Shape, Bank
<1>4. /\ Shape' /\ Pacing' /\ line'.to = "engine" /\ line'.answer.status = status
  <2>1. status \in Status BY Refusing
  <2> QED BY <1>1, <1>2, <1>3, <2>1, AnswersShape
<1>5. caller.pc = "waiting" /\ caller.outcome = "none" /\ tx.phase # "Done"
  BY <1>1 DEF TransferInv, Pacing, Quiet
<1>6. tx.direction = "upload" /\ Uploading => Uploading'
  BY <1>1, <1>3, <1>4, <1>5, SegmentsStay DEF Uploading
<1>7. tx.direction = "download" /\ Downloading => Downloading'
  BY <1>1, <1>3, <1>4, <1>5, SegmentsStay DEF Downloading
<1> QED BY <1>1, <1>4, <1>6, <1>7 DEF TransferInv

\* The bank opens a transaction, with the first segment of a download.
LEMMA OpensKeeps ==
    ASSUME TransferInv, BankOpens PROVE TransferInv'
<1>1. /\ UNCHANGED <<payload, tx, caller>> /\ line.to = "bank"
      /\ line.request.kind = "Initialisation"
  BY DEF BankOpens
<1>2. /\ caller.pc = "waiting" /\ caller.outcome = "none" /\ tx.phase = "Initialisation"
      /\ bank.state = "new" /\ bank.point = 0 /\ bank.got = <<>>
      /\ tx.cursor = 0 /\ tx.segments = <<>> /\ bank \in Bank /\ payload \in Seq(Nat)
  BY <1>1 DEF TransferInv, Pacing, Quiet, Shape
<1>3. K \in Nat \ {0} /\ Prefix(0) = <<>> /\ Segments[1] \in Seq(Nat) BY <1>2, SegmentFacts
<1>4. CASE tx.direction = "upload"
  <2>1. bank' \in Bank /\ bank'.state = "open" /\ bank'.point = 0 /\ bank'.got = <<>>
    BY <1>2, <1>4 DEF BankOpens, Bank
  <2>2. PICK status \in Status, last \in BOOLEAN :
            status \in Agreed /\ Answers(status, 0, last, NoData)
    BY <1>4, Meaning DEF BankOpens
  <2>4. /\ Shape' /\ Pacing' /\ line'.to = "engine" /\ line'.answer.status = status
        /\ line'.answer.id
    BY <1>1, <2>1, <2>2, AnswersShape
  <2>5. Uploading'
    BY <1>1, <1>2, <1>3, <1>4, <2>1, <2>2, <2>4, SegmentsStay DEF TransferInv, Uploading
  <2> QED BY <1>1, <1>4, <2>4, <2>5 DEF TransferInv
<1>5. CASE tx.direction # "upload" /\ payload = <<>>
  <2>1. bank' \in Bank /\ bank'.state = "complete" /\ bank'.point = 0 /\ bank'.got = <<>>
    BY <1>2, <1>5 DEF BankOpens, Bank
  <2>2. PICK status \in Status, last \in BOOLEAN :
            /\ status \in {Says("completed", "absent"), Says("success", "completed")}
            /\ Answers(status, 0, last, NoData)
    BY <1>5, Meaning DEF BankOpens
  <2>3. "completed" \in Codes(status) BY <2>2, Meaning DEF EndsTransaction
  <2>4. Shape' /\ Pacing' /\ line'.to = "engine" /\ line'.answer.status = status
    <3>1. Answers(status, 0, last, NoData) /\ 0 \in Nat BY <2>2
    <3>2. bank' \in Bank /\ bank'.state # "new" BY <2>1
    <3> QED BY <1>1, <3>1, <3>2, AnswersShape
  <2>5. Downloading => Downloading'
    BY <1>1, <1>2, <1>3, <1>5, <2>1, <2>2, <2>3, <2>4, SegmentsStay DEF Downloading
  <2> QED BY <1>1, <1>5, <2>4, <2>5 DEF TransferInv
<1>6. CASE tx.direction # "upload" /\ payload # <<>>
  <2>1. bank' \in Bank /\ bank'.state = "open" /\ bank'.point = 1 /\ bank'.got = <<>>
    <3>1. bank' = [bank EXCEPT !.state = "open", !.point = 1] BY <1>6 DEF BankOpens
    <3> QED BY <1>2, <3>1 DEF Bank
  <2>2. PICK status \in Status, last \in BOOLEAN, data \in Seq(Nat) :
            /\ status \in Agreed /\ Answers(status, 1, last, data)
            /\ last <=> K = 1
            /\ data = Segments[1]
    BY <1>3, <1>6, Meaning DEF BankOpens, K
  <2>4. /\ Shape' /\ Pacing' /\ line'.to = "engine" /\ line'.answer.status = status
        /\ line'.answer.id /\ line'.answer.number = 1 /\ line'.answer.last = last
        /\ line'.answer.data = data
    BY <1>1, <2>1, <2>2, AnswersShape
  <2>5. Downloading => Downloading'
    BY <1>1, <1>2, <1>3, <1>6, <2>1, <2>2, <2>4, SegmentsStay DEF Downloading
  <2> QED BY <1>1, <1>6, <2>4, <2>5 DEF TransferInv
<1> QED BY <1>4, <1>5, <1>6

\* A segment after the recovery point, or the word where that is.
LEMMA TransfersKeeps ==
    ASSUME TransferInv, BankTransfers PROVE TransferInv'
<1>1. /\ UNCHANGED <<payload, tx, caller>> /\ line.to = "bank" /\ bank.state = "open"
      /\ line.request.kind = "Transfer"
  BY DEF BankTransfers
<1>2. /\ caller.pc = "waiting" /\ caller.outcome = "none" /\ tx.phase = "Transfer"
      /\ bank \in Bank /\ bank.point \in Nat /\ payload \in Seq(Nat) /\ tx \in Engine
      /\ tx.cursor \in Nat /\ line.request \in Request
      /\ tx.direction \in {"upload", "download"}
  BY <1>1 DEF TransferInv, Pacing, Quiet, Shape, Bank, Engine
<1>3. K \in Nat \ {0} /\ \A i \in 1..K : Segments[i] \in Seq(Nat) BY <1>2, SegmentFacts
<1>4. tx.cursor < K /\ line.request.number = tx.cursor + 1 /\ bank.point <= K
  BY <1>1, <1>2 DEF TransferInv, Uploading, Downloading
<1>5. CASE line.request.number # bank.point + 1
  <2>1. PICK number \in Nat, last \in BOOLEAN :
          Answers(Recoverable, number, last, NoData) /\ number = bank.point
    BY <1>2, <1>5 DEF BankTransfers, Recoverable
  <2>2. UNCHANGED bank BY <1>5 DEF BankTransfers
  <2>3. /\ Shape' /\ Pacing' /\ line'.to = "engine" /\ line'.answer.status = Recoverable
        /\ line'.answer.number = bank.point
    <3>1. bank' \in Bank /\ bank'.state # "new" BY <1>1, <1>2, <2>2
    <3>2. Recoverable \in Status BY Meaning
    <3> QED BY <1>1, <2>1, <3>1, <3>2, AnswersShape
  <2>4. tx.direction = "upload" /\ Uploading => Uploading'
    BY <1>1, <1>2, <1>4, <2>2, <2>3, SegmentsStay DEF Uploading
  <2>5. tx.direction = "download" /\ Downloading => Downloading'
    <3> SUFFICES ASSUME tx.direction = "download", Downloading PROVE Downloading' OBVIOUS
    <3>1. bank.point <= tx.cursor BY <1>1, <1>2 DEF Downloading
    <3>2. bank.point < K BY <1>2, <1>3, <1>4, <3>1
    <3> QED BY <1>1, <1>2, <2>2, <2>3, <3>1, <3>2, SegmentsStay DEF Downloading
  <2> QED BY <1>1, <2>3, <2>4, <2>5 DEF TransferInv
<1>6. CASE line.request.number = bank.point + 1
  <2>1. bank.point = tx.cursor /\ tx.cursor + 1 \in 1..K BY <1>2, <1>3, <1>4, <1>6
  <2>2. PICK status \in Status, number \in Nat, last \in BOOLEAN, data \in {NoData} \cup Seq(Nat) :
          /\ status \in Agreed /\ Answers(status, number, last, data)
          /\ number = tx.cursor + 1
          /\ last <=> tx.cursor + 1 = K
          /\ tx.direction = "download" => data = Segments[tx.cursor + 1]
    <3>1. PICK status \in Agreed :
            Answers(status, line.request.number, line.request.number = Len(Segments),
                    IF tx.direction = "upload" THEN NoData ELSE Segments[line.request.number])
      BY <1>6 DEF BankTransfers
    <3> DEFINE last == line.request.number = Len(Segments)
               data == IF tx.direction = "upload" THEN NoData ELSE Segments[line.request.number]
    <3>2. last \in BOOLEAN /\ (last <=> tx.cursor + 1 = K) BY <1>4 DEF K
    <3>3. data \in {NoData} \cup Seq(Nat)
          /\ (tx.direction = "download" => data = Segments[tx.cursor + 1])
      BY <1>3, <1>4, <2>1
    <3>4. status \in Status /\ tx.cursor + 1 \in Nat BY <1>2, Meaning
    <3>5. Answers(status, tx.cursor + 1, last, data) BY <1>4, <3>1
    <3> HIDE DEF last, data
    <3> QED BY <3>1, <3>2, <3>3, <3>4, <3>5
  <2>3. /\ bank' = [bank EXCEPT
             !.point = line.request.number,
             !.got = IF tx.direction = "upload" THEN Append(bank.got, line.request.data)
                     ELSE bank.got,
             !.state = IF line.request.last THEN "complete" ELSE "open"]
    BY <1>6 DEF BankTransfers
  <2>4. /\ bank'.point = tx.cursor + 1
        /\ bank'.state = IF line.request.last THEN "complete" ELSE "open"
        /\ bank'.got = IF tx.direction = "upload" THEN Append(bank.got, line.request.data)
                       ELSE bank.got
    BY <1>2, <1>4, <2>3 DEF Bank
  <2>5. /\ tx.direction = "upload" => line.request.data \in Seq(Nat)
        /\ bank' \in Bank
    <3>1. tx.direction = "upload" => line.request.data \in Seq(Nat)
      BY <1>1, <1>2, <1>3, <2>1 DEF TransferInv, Uploading
    <3>2. bank'.got \in Seq(Seq(Nat)) BY <1>2, <2>4, <3>1 DEF Bank
    <3>3. /\ bank'.point \in Nat
          /\ bank'.state \in {"new", "open", "complete", "refused"}
      BY <1>2, <2>4
    <3>4. bank' = [state |-> bank'.state, point |-> bank'.point, got |-> bank'.got]
      BY <1>2, <2>3 DEF Bank
    <3> QED BY <3>1, <3>2, <3>3, <3>4 DEF Bank
  <2>6. /\ Shape' /\ Pacing' /\ line'.to = "engine" /\ line'.answer.status = status
        /\ line'.answer.id /\ line'.answer.number = number /\ line'.answer.last = last
        /\ line'.answer.data = data
    <3>1. bank'.state # "new" BY <2>4
    <3> QED BY <1>1, <2>2, <2>5, <3>1, AnswersShape
  <2>7. tx.direction = "upload" /\ Uploading => Uploading'
    <3> SUFFICES ASSUME tx.direction = "upload", Uploading PROVE Uploading' OBVIOUS
    <3>1. (line.request.last <=> tx.cursor + 1 = K) /\ line.request.data = Segments[tx.cursor + 1]
      BY <1>1, <1>2 DEF Uploading
    <3>2. bank'.got = Prefix(tx.cursor + 1)
      <4>1. PICK n \in Nat : n = tx.cursor BY <1>2
      <4>2. Append(Prefix(n), Segments[n + 1]) = Prefix(n + 1)
        <5>1. n < K /\ n <= K BY <1>2, <1>3, <1>4, <4>1
        <5> QED BY <1>2, <5>1, PrefixFacts
      <4> QED BY <2>1, <2>4, <3>1, <4>1, <4>2 DEF Uploading
    <3>3. tx.cursor + 1 <= K BY <2>1
    <3> QED BY <1>1, <1>2, <2>1, <2>2, <2>4, <2>6, <3>1, <3>2, <3>3, SegmentsStay DEF Uploading
  <2>8. tx.direction = "download" /\ Downloading => Downloading'
    <3> SUFFICES ASSUME tx.direction = "download", Downloading PROVE Downloading' OBVIOUS
    <3>1. ~line.request.last BY <1>1, <1>2 DEF Downloading
    <3>2. tx.cursor + 1 <= K BY <2>1
    <3> QED BY <1>1, <1>2, <1>4, <2>2, <2>4, <2>6, <3>1, <3>2, SegmentsStay DEF Downloading
  <2> QED BY <1>1, <2>6, <2>7, <2>8 DEF TransferInv
<1> QED BY <1>5, <1>6

\* The bank is told, or says where it has to go on from.
LEMMA TakesReceiptKeeps ==
    ASSUME TransferInv, BankTakesReceipt PROVE TransferInv'
<1>1. /\ UNCHANGED <<payload, tx, caller>> /\ line.to = "bank" /\ bank.state = "open"
      /\ line.request.kind = "Receipt"
  BY DEF BankTakesReceipt
<1>2. /\ caller.pc = "waiting" /\ caller.outcome = "none" /\ tx.phase = "Receipt"
      /\ bank \in Bank /\ bank.point \in Nat /\ payload \in Seq(Nat)
      /\ tx \in Engine /\ tx.cursor \in Nat /\ tx.direction \in {"upload", "download"}
  BY <1>1 DEF TransferInv, Pacing, Quiet, Shape, Bank, Engine
<1>3. /\ K \in Nat \ {0} /\ tx.direction = "download" /\ Downloading /\ tx.cursor = K
      /\ caller.acknowledging /\ caller.stored = payload /\ bank.point <= tx.cursor
  BY <1>1, <1>2, SegmentFacts DEF TransferInv, Uploading, Downloading
<1>4. CASE bank.point = K
  <2>1. PICK status \in Status, last \in BOOLEAN :
          Answers(status, 0, last, NoData) /\ status = Says("completed", "success")
    BY <1>4, Meaning DEF BankTakesReceipt, K
  <2>2. "completed" \in Codes(status) BY <2>1, Meaning DEF EndsTransaction
  <2>3. bank' \in Bank /\ bank'.state = "complete" /\ bank'.point = bank.point
    BY <1>2, <1>4 DEF BankTakesReceipt, Bank, K
  <2>4. Shape' /\ Pacing' /\ line'.to = "engine" /\ line'.answer.status = status
    <3>1. Answers(status, 0, last, NoData) /\ 0 \in Nat BY <2>1
    <3>2. bank' \in Bank /\ bank'.state # "new" BY <2>3
    <3> QED BY <1>1, <3>1, <3>2, AnswersShape
  <2>5. Downloading'
    BY <1>1, <1>2, <1>3, <2>1, <2>2, <2>3, <2>4, SegmentsStay DEF Downloading
  <2> QED BY <1>1, <1>3, <2>4, <2>5 DEF TransferInv
<1>5. CASE bank.point # K
  <2>1. PICK number \in Nat, last \in BOOLEAN :
          Answers(Recoverable, number, last, NoData) /\ number = bank.point
    BY <1>2, <1>5 DEF BankTakesReceipt, Recoverable, K
  <2>2. UNCHANGED bank BY <1>5 DEF BankTakesReceipt, K
  <2>3. /\ Shape' /\ Pacing' /\ line'.to = "engine" /\ line'.answer.status = Recoverable
        /\ line'.answer.number = bank.point
    <3>1. bank' \in Bank /\ bank'.state # "new" BY <1>1, <1>2, <2>2
    <3>2. Recoverable \in Status BY Meaning
    <3> QED BY <1>1, <2>1, <3>1, <3>2, AnswersShape
  <2>4. bank.point < K BY <1>2, <1>3, <1>5
  <2>5. Downloading'
    BY <1>1, <1>2, <1>3, <2>2, <2>3, <2>4, SegmentsStay DEF Downloading
  <2> QED BY <1>1, <1>3, <2>3, <2>5 DEF TransferInv
<1> QED BY <1>4, <1>5

\* The engine is fed: it resumes, fails, ends or advances.
LEMMA FeedKeeps ==
    ASSUME TransferInv, Feed, ~BesideNotices PROVE TransferInv'
<1> DEFINE answer == line.answer
           status == answer.status
           Fails == Ends("failed") /\ UNCHANGED tx
           GoesOn(t) == tx' = t /\ caller' = [caller EXCEPT !.pc = "driving"]
<1>1. /\ UNCHANGED <<payload, bank, setBacks>> /\ line.to = "engine"
      /\ line' = Quiet /\ line'.to = "nobody"
  BY DEF Feed, Quiet
<1>2. IF NeedsRecovery(status) /\ tx.id THEN GoesOn(ResumedAt(tx, answer.number))
      ELSE IF Raises(status) THEN Fails
      ELSE IF EndsTransaction(status)
      THEN GoesOn([tx EXCEPT !.id = answer.id \/ tx.id, !.phase = "Done"])
      ELSE IF tx.phase = "Initialisation" /\ ~answer.id THEN Fails
      ELSE IF ~Acceptable(answer) THEN Fails
      ELSE GoesOn(Advanced([tx EXCEPT !.id = TRUE], answer))
  BY DEF Feed
<1>3. /\ caller.pc = "waiting" /\ caller.outcome = "none" /\ tx.phase # "Done"
      /\ tx \in Engine /\ tx.cursor \in Nat /\ tx.segments \in Seq(Seq(Nat))
      /\ tx.phase \in Phases /\ tx.direction \in {"upload", "download"}
      /\ caller \in Caller /\ bank \in Bank /\ bank.point \in Nat /\ payload \in Seq(Nat)
      /\ answer \in Answer /\ answer.number \in Nat /\ answer.data \in {NoData} \cup Seq(Nat)
      /\ answer.id \in BOOLEAN /\ answer.last \in BOOLEAN
  BY <1>1 DEF TransferInv, Pacing, Shape, Quiet, Engine, Bank, Answer
<1>4. /\ K \in Nat \ {0} /\ \A i \in 1..K : Segments[i] \in Seq(Nat) /\ Segments[i] # NoData
  BY <1>3, SegmentFacts
<1>5. tx.cursor <= K BY <1>3 DEF TransferInv, Uploading, Downloading
<1> HIDE DEF answer, status, GoesOn, Fails
\* What was taken stays as it was when the attempt fails.
<1>6. ASSUME Fails PROVE TransferInv'
  <2>1. UNCHANGED tx /\ Ends("failed") BY <1>6 DEF Fails
  <2>2. /\ caller' \in Caller /\ caller'.pc = "ended" /\ caller'.outcome = "failed"
        /\ caller'.stored = caller.stored /\ caller'.acknowledging = caller.acknowledging
    BY <1>3, <2>1 DEF Ends, Caller
  <2>3. Shape' BY <1>1, <2>1, <2>2 DEF TransferInv, Shape
  <2>4. Pacing' BY <1>1, <2>1, <2>2 DEF TransferInv, Pacing
  <2>5. Uploading => Uploading' BY <1>1, <2>1, <2>2, SegmentsStay DEF Uploading
  <2>6. Downloading => Downloading' BY <1>1, <2>1, <2>2, SegmentsStay DEF Downloading
  <2> QED BY <2>1, <2>3, <2>4, <2>5, <2>6 DEF TransferInv
<1>7. ASSUME NEW t, GoesOn(t)
      PROVE  /\ tx' = t /\ caller' \in Caller /\ caller'.pc = "driving"
             /\ caller'.outcome = "none" /\ caller'.stored = caller.stored
             /\ caller'.acknowledging = caller.acknowledging
  BY <1>3, <1>7 DEF GoesOn, Caller
\* So much is the same wherever the engine goes on from.
<1>8. ASSUME NEW t \in Engine, GoesOn(t), t.phase # "Initialisation",
             t.phase \in {"Transfer", "Receipt"} => t.id
      PROVE  Shape' /\ Pacing'
  <2>1. bank.state = "new" => bank.point = 0 /\ bank.got = <<>> BY DEF TransferInv, Pacing
  <2>2. Shape' BY <1>1, <1>7, <1>8 DEF TransferInv, Shape
  <2>3. Pacing' BY <1>1, <1>7, <1>8, <2>1 DEF Pacing
  <2> QED BY <2>2, <2>3
<1>9. CASE tx.direction = "upload"
  <2>1. Uploading BY <1>9 DEF TransferInv
  <2>2. CASE status \in Refused
    BY <1>2, <1>6, <2>2, Refusing
  <2>3. CASE status = Recoverable /\ tx.phase = "Transfer" /\ answer.number <= K
    <3>1. tx.id BY <2>3 DEF TransferInv, Pacing
    <3> DEFINE t == ResumedAt(tx, answer.number)
    <3>2. GoesOn(t) BY <1>2, <2>3, <3>1, Meaning
    <3>3. /\ t \in Engine /\ t.phase = "Transfer" /\ t.cursor = answer.number
          /\ t.direction = "upload" /\ t.id
      <4>1. SubSeq(tx.segments, 1, Min({answer.number, Len(tx.segments)})) \in Seq(Seq(Nat))
        BY <1>3, CutShort
      <4> QED BY <1>3, <1>9, <3>1, <4>1 DEF ResumedAt, Engine, Phases
    <3> HIDE DEF t
    <3>4. Shape' /\ Pacing' BY <1>8, <3>2, <3>3
    <3>5. Uploading'
      BY <1>1, <1>7, <2>1, <2>3, <3>2, <3>3, SegmentsStay DEF Uploading
    <3> QED BY <1>7, <3>2, <3>3, <3>4, <3>5 DEF TransferInv
  <2>4. CASE /\ status \in Agreed /\ answer.id
             /\ tx.phase = "Transfer" /\ tx.cursor + 1 = K => bank.state = "complete"
    <3> DEFINE t == Advanced([tx EXCEPT !.id = TRUE], answer)
    <3>1. GoesOn(t)
      <4>1. Acceptable(answer) BY <1>9 DEF Acceptable
      <4> QED BY <1>2, <2>4, <4>1, Meaning
    <3>2. CASE tx.phase = "Initialisation"
      <4>1. /\ t \in Engine /\ t.phase = "Transfer" /\ t.cursor = tx.cursor
            /\ t.direction = "upload" /\ t.id
        BY <1>3, <1>9, <3>2 DEF Advanced, Engine, Phases
      <4> HIDE DEF t
      <4>2. Shape' /\ Pacing' BY <1>8, <3>1, <4>1
      <4>3. Uploading'
        BY <1>1, <1>7, <2>1, <3>1, <4>1, SegmentsStay DEF Uploading
      <4> QED BY <1>7, <3>1, <4>1, <4>2, <4>3 DEF TransferInv
    <3>3. CASE tx.phase = "Transfer"
      <4>1. tx.cursor < K BY <1>3, <2>1, <3>3 DEF Uploading
      <4>2. /\ t \in Engine /\ t.cursor = tx.cursor + 1
            /\ t.phase = IF tx.cursor + 1 >= K THEN "Done" ELSE "Transfer"
            /\ t.direction = "upload" /\ t.id
        <5> DEFINE u == [tx EXCEPT !.id = TRUE]
        <5>1. /\ u \in Engine /\ u.direction = "upload" /\ u.id /\ u.phase = "Transfer"
              /\ u.cursor = tx.cursor
          BY <1>3, <1>9, <3>3 DEF Engine
        <5> HIDE DEF u
        <5>2. t = [u EXCEPT !.cursor = u.cursor + 1,
                            !.phase = IF u.cursor + 1 >= K THEN "Done" ELSE "Transfer"]
          <6>1. t = Advanced(u, answer) BY DEF u
          <6> QED BY <5>1, <6>1 DEF Advanced, K
        <5> HIDE DEF t
        <5>3. /\ t.direction = u.direction /\ t.id = u.id /\ t.cursor = u.cursor + 1
              /\ t.phase = IF u.cursor + 1 >= K THEN "Done" ELSE "Transfer"
              /\ t.segments = u.segments
              /\ t = [direction |-> t.direction, phase |-> t.phase, id |-> t.id,
                      cursor |-> t.cursor, segments |-> t.segments]
          BY <5>1, <5>2 DEF Engine
        <5>4. /\ t.phase \in Phases /\ t.cursor \in Nat /\ t.segments \in Seq(Seq(Nat))
              /\ t.direction \in {"upload", "download"} /\ t.id \in BOOLEAN
          BY <1>3, <5>1, <5>3 DEF Phases, Engine
        <5>5. t \in Engine BY <5>3, <5>4 DEF Engine
        <5> QED BY <5>1, <5>3, <5>5
      <4> HIDE DEF t
      <4>3. Shape' /\ Pacing' BY <1>8, <3>1, <4>2
      <4>4. tx.cursor + 1 <= K /\ (t.phase = "Done" => bank.state = "complete")
        BY <1>3, <1>4, <2>4, <3>3, <4>1, <4>2
      <4>5. Uploading'
        BY <1>1, <1>7, <2>1, <3>1, <4>2, <4>4, SegmentsStay DEF Uploading
      <4> QED BY <1>7, <3>1, <4>2, <4>3, <4>5 DEF TransferInv
    <3> QED BY <1>3, <2>1, <3>2, <3>3 DEF Phases, Uploading
  <2> QED BY <1>1, <2>1, <2>2, <2>3, <2>4 DEF Uploading, answer, status
<1>10. CASE tx.direction = "download"
  <2>1. Downloading BY <1>10 DEF TransferInv
  <2>2. CASE status \in Refused
    BY <1>2, <1>6, <2>2, Refusing
  <2>3. CASE /\ status \in Agreed /\ answer.id
             /\ tx.phase # "Receipt" /\ tx.cursor < K /\ bank.point <= tx.cursor + 1
             /\ answer.number = tx.cursor + 1
             /\ answer.last <=> tx.cursor + 1 = K
             /\ answer.data = Segments[tx.cursor + 1]
    <3> DEFINE t == Advanced([tx EXCEPT !.id = TRUE], answer)
    <3>1. answer.data \in Seq(Nat) /\ answer.data # NoData
      <4>1. tx.cursor + 1 \in 1..K BY <1>3, <1>4, <2>3
      <4> QED BY <1>4, <2>3, <4>1
    <3>2. GoesOn(t)
      <4>1. Acceptable(answer) BY <2>3, <3>1 DEF Acceptable
      <4> QED BY <1>2, <2>3, <4>1, Meaning
    <3>3. /\ t \in Engine /\ t.cursor = tx.cursor + 1 /\ t.direction = "download" /\ t.id
          /\ t.segments = Append(tx.segments, answer.data)
          /\ t.phase = IF answer.last THEN "Receipt" ELSE "Transfer"
      <4>1. Append(tx.segments, answer.data) \in Seq(Seq(Nat)) BY <1>3, <3>1
      <4> DEFINE u == [tx EXCEPT !.id = TRUE]
      <4>2. /\ u \in Engine /\ u.direction = "download" /\ u.id /\ u.phase = tx.phase
            /\ u.cursor = tx.cursor /\ u.segments = tx.segments
        BY <1>3, <1>10 DEF Engine
      <4> HIDE DEF u
      <4>3. t = [u EXCEPT !.segments = Append(u.segments, answer.data), !.cursor = u.cursor + 1,
                          !.phase = IF answer.last THEN "Receipt" ELSE "Transfer"]
        <5>1. t = Advanced(u, answer) BY DEF u
        <5> QED BY <2>3, <4>2, <5>1 DEF Advanced
      <4> HIDE DEF t
      <4>4. /\ t.direction = u.direction /\ t.id = u.id /\ t.cursor = u.cursor + 1
            /\ t.segments = Append(u.segments, answer.data)
            /\ t.phase = IF answer.last THEN "Receipt" ELSE "Transfer"
            /\ t = [direction |-> t.direction, phase |-> t.phase, id |-> t.id,
                    cursor |-> t.cursor, segments |-> t.segments]
        BY <4>2, <4>3 DEF Engine
      <4>5. t.phase \in Phases /\ t.cursor \in Nat BY <1>3, <4>2, <4>4 DEF Phases
      <4> QED BY <1>3, <4>1, <4>2, <4>4, <4>5 DEF Engine
    <3> HIDE DEF t
    <3>4. Shape' /\ Pacing' BY <1>8, <3>2, <3>3
    <3>5. t.segments = Prefix(tx.cursor + 1)
      <4>1. PICK n \in Nat : n = tx.cursor BY <1>3
      <4>2. Append(Prefix(n), Segments[n + 1]) = Prefix(n + 1)
        <5>1. n < K /\ n <= K BY <1>3, <1>4, <2>3, <4>1
        <5> QED BY <1>3, <5>1, PrefixFacts
      <4> QED BY <2>1, <2>3, <3>3, <4>1, <4>2 DEF Downloading
    <3>6. tx.cursor + 1 <= K /\ (t.phase = "Transfer" => tx.cursor + 1 < K)
          /\ (t.phase = "Receipt" => tx.cursor + 1 = K)
      BY <1>3, <1>4, <2>3, <3>3
    <3>7. Downloading'
      BY <1>1, <1>7, <2>1, <2>3, <3>2, <3>3, <3>5, <3>6, SegmentsStay DEF Downloading
    <3> QED BY <1>7, <3>2, <3>3, <3>4, <3>7 DEF TransferInv
  <2>4. CASE /\ status = Recoverable /\ tx.phase \in {"Transfer", "Receipt"}
             /\ answer.number < K /\ answer.number <= tx.cursor /\ bank.point <= answer.number
    <3>1. tx.id BY <2>4 DEF TransferInv, Pacing
    <3> DEFINE t == ResumedAt(tx, answer.number)
    <3>2. GoesOn(t) BY <1>2, <2>4, <3>1, Meaning
    <3>3. /\ t \in Engine /\ t.phase = "Transfer" /\ t.cursor = answer.number
          /\ t.segments = SubSeq(tx.segments, 1, Min({answer.number, Len(tx.segments)}))
          /\ t.direction = "download" /\ t.id
      <4>1. SubSeq(tx.segments, 1, Min({answer.number, Len(tx.segments)})) \in Seq(Seq(Nat))
        BY <1>3, CutShort
      <4> QED BY <1>3, <1>10, <3>1, <4>1 DEF ResumedAt, Engine, Phases
    <3> HIDE DEF t
    <3>4. t.segments = Prefix(answer.number)
      <4>1. PICK n \in Nat, m \in Nat : n = tx.cursor /\ m = answer.number BY <1>3
      <4>2. SubSeq(Prefix(n), 1, Min({m, Len(Prefix(n))})) = Prefix(m)
        BY <1>3, <1>5, <2>4, <4>1, PrefixFacts
      <4> QED BY <2>1, <3>3, <4>1, <4>2 DEF Downloading
    <3>5. Shape' /\ Pacing' BY <1>8, <3>2, <3>3
    <3>6. answer.number <= K BY <1>3, <1>4, <2>4
    <3>7. Downloading'
      BY <1>1, <1>7, <2>1, <2>4, <3>2, <3>3, <3>4, <3>6, SegmentsStay DEF Downloading
    <3> QED BY <1>7, <3>2, <3>3, <3>5, <3>7 DEF TransferInv
  <2>5. CASE /\ status \in {Says("completed", "absent"), Says("success", "completed"),
                            Says("completed", "success")}
             /\ tx.phase = "Initialisation" \/ tx.phase = "Receipt"
             /\ bank.point <= tx.cursor
    <3> DEFINE t == [tx EXCEPT !.id = answer.id \/ tx.id, !.phase = "Done"]
    <3>1. GoesOn(t) BY <1>2, <2>5, Meaning
    <3>2. /\ t \in Engine /\ t.phase = "Done" /\ t.cursor = tx.cursor
          /\ t.segments = tx.segments /\ t.direction = "download"
      BY <1>3, <1>10 DEF Engine, Phases
    <3> HIDE DEF t
    <3>3. Shape' /\ Pacing' BY <1>8, <3>1, <3>2
    <3>4. tx.phase = "Initialisation" => tx.cursor = 0 BY DEF TransferInv, Pacing
    <3>5. Downloading'
      BY <1>1, <1>3, <1>7, <2>1, <2>5, <3>1, <3>2, <3>4, SegmentsStay DEF Downloading
    <3> QED BY <1>7, <3>1, <3>2, <3>3, <3>5 DEF TransferInv
  <2> QED BY <1>1, <2>1, <2>2, <2>3, <2>4, <2>5 DEF Downloading, answer, status
<1> QED BY <1>3, <1>9, <1>10

\* Whoever takes the step.
LEMMA TransferInvNext ==
    ASSUME ~BesideNotices, TransferInv, [Next]_vars PROVE TransferInv'
<1>1. CASE UNCHANGED vars
  BY <1>1, SegmentsStay
  DEF vars, TransferInv, Shape, Pacing, Uploading, Downloading
<1>2. CASE Drives
  BY <1>2, RequestsKeep, EndingsKeep, StoreKeeps, FeedKeeps DEF Drives
<1>3. CASE BankActs
  BY <1>3, RefusesKeeps, OpensKeeps, TransfersKeeps, TakesReceiptKeeps DEF BankActs
<1> QED BY <1>1, <1>2, <1>3, EndingsKeep, FallsBackKeeps DEF Next

\* Every behaviour keeps to the invariant: what each side has is what it says it
\* has, and nobody is told of an end that was not reached.
THEOREM TransferInvHolds ==
    ASSUME ~BesideNotices PROVE Spec => []TransferInv
BY TransferInvInit, TransferInvNext, PTL DEF Spec

-----------------------------------------------------------------------------
(* What follows from it. *)

\* What is reported as taken, or told to the bank as received, was taken: all of
\* the order data, through lost answers, refusals and recovery points the bank
\* falls back to, for order data and segments of any length.
THEOREM DoneIsDeliveredHolds ==
    ASSUME ~BesideNotices PROVE Spec => []DoneIsDelivered
<1>1. TransferInv => DoneIsDelivered
  <2> SUFFICES ASSUME TransferInv PROVE DoneIsDelivered OBVIOUS
  <2>1. /\ payload \in Seq(Nat) /\ tx.direction \in {"upload", "download"}
        /\ K \in Nat \ {0} /\ Prefix(K) = Segments /\ FlattenSeq(Segments) = payload
    BY SegmentFacts DEF TransferInv, Shape, Engine
  <2>2. ASSUME tx.direction = "upload", caller.outcome = "done"
        PROVE  bank.state = "complete" /\ FlattenSeq(bank.got) = payload
    BY <2>1, <2>2 DEF TransferInv, Uploading
  <2>3. tx.direction = "download" => Downloading BY DEF TransferInv
  <2> QED BY <2>1, <2>2, <2>3 DEF DoneIsDelivered, Downloading
<1> QED BY <1>1, TransferInvHolds, PTL

\* Once somebody acts on a transfer as complete, what the receiver has is all of it.
LEMMA OverHasAll == TransferInv /\ Over => Held = Segments
<1> SUFFICES ASSUME TransferInv, Over PROVE Held = Segments OBVIOUS
<1>1. /\ payload \in Seq(Nat) /\ tx.direction \in {"upload", "download"}
      /\ K \in Nat \ {0} /\ Prefix(K) = Segments /\ payload # NoData
  BY SegmentFacts, TransferAssumption DEF TransferInv, Shape, Engine
<1>2. CASE tx.direction = "upload"
  BY <1>1, <1>2 DEF TransferInv, Uploading, Over, Held
<1>3. CASE tx.direction = "download"
  <2>1. caller.stored = payload BY <1>3 DEF TransferInv, Downloading, Over
  <2> QED BY <1>1, <1>3, <2>1 DEF Held, Segments
<1> QED BY <1>1, <1>2, <1>3

\* The same after a step.
LEMMA OverWillHaveAll == (TransferInv /\ Over => Held = Segments)'
BY OverHasAll, PTL

\* Fed, the engine takes at most one more segment, and is at most set back to
\* where it is.
LEMMA FeedMoves ==
    ASSUME ~BesideNotices, TransferInv, Feed
    PROVE  /\ tx'.direction = tx.direction /\ caller'.stored = caller.stored
           /\ caller'.outcome # "done"
           /\ tx.direction = "download" => tx'.cursor <= tx.cursor + 1
<1>1. /\ line.to = "engine" /\ caller.outcome = "none" /\ caller \in Caller /\ tx \in Engine
      /\ tx.cursor \in Nat /\ line.answer \in Answer /\ line.answer.number \in Nat
  BY DEF Feed, TransferInv, Pacing, Shape, Quiet, Engine, Answer
<1> DEFINE number == line.answer.number
           GoesOn(t) == tx' = t /\ caller' = [caller EXCEPT !.pc = "driving"]
           done == [tx EXCEPT !.id = line.answer.id \/ tx.id, !.phase = "Done"]
           named == [tx EXCEPT !.id = TRUE]
<1>2. \/ Ends("failed") /\ UNCHANGED tx
      \/ NeedsRecovery(line.answer.status) /\ GoesOn(ResumedAt(tx, number))
      \/ GoesOn(done)
      \/ GoesOn(Advanced(named, line.answer))
  BY Zenon DEF Feed
<1>3. CASE Ends("failed") /\ UNCHANGED tx
  BY <1>1, <1>3 DEF Ends, Caller
<1>4. ASSUME NEW t, GoesOn(t), t.direction = tx.direction,
             tx.direction = "download" => t.cursor <= tx.cursor + 1
      PROVE  /\ tx'.direction = tx.direction /\ caller'.stored = caller.stored
             /\ caller'.outcome # "done"
             /\ tx.direction = "download" => tx'.cursor <= tx.cursor + 1
  BY <1>1, <1>4 DEF Caller
<1>5. CASE NeedsRecovery(line.answer.status) /\ GoesOn(ResumedAt(tx, number))
  <2>1. tx.direction = "download" => number <= tx.cursor
    BY <1>1, <1>5, Meaning, Refusing DEF TransferInv, Downloading
  <2> DEFINE t == ResumedAt(tx, number)
  <2>2. t.direction = tx.direction /\ t.cursor = number BY <1>1 DEF ResumedAt, Engine
  <2>3. GoesOn(t) BY <1>5
  <2> HIDE DEF t, GoesOn
  <2> QED BY <1>1, <1>4, <2>1, <2>2, <2>3
<1>6. CASE GoesOn(done)
  <2>1. done.direction = tx.direction /\ done.cursor = tx.cursor BY <1>1 DEF Engine
  <2> HIDE DEF done, GoesOn
  <2> QED BY <1>1, <1>4, <1>6, <2>1
<1>7. CASE GoesOn(Advanced(named, line.answer))
  <2>1. named \in Engine /\ named.direction = tx.direction /\ named.cursor = tx.cursor
    BY <1>1 DEF Engine
  <2> HIDE DEF named
  <2> DEFINE t == Advanced(named, line.answer)
  <2>2. t.direction = named.direction /\ t.cursor \in {named.cursor, named.cursor + 1}
    BY <2>1 DEF Advanced, Engine
  <2>3. GoesOn(t) BY <1>7
  <2> HIDE DEF t, GoesOn
  <2> QED BY <1>1, <1>4, <2>1, <2>2, <2>3
<1> HIDE DEF GoesOn, done, named, number
<1> QED BY <1>2, <1>3, <1>5, <1>6, <1>7

\* The bank takes at most one more segment of an upload, which is then not over.
LEMMA BankMoves ==
    ASSUME TransferInv, BankActs \/ BankFallsBack, tx.direction = "upload"
    PROVE  bank'.point <= bank.point + 1 /\ caller' = caller
<1>1. bank \in Bank /\ bank.point \in Nat BY DEF TransferInv, Shape, Bank
<1>2. CASE BankRefuses BY <1>1, <1>2 DEF BankRefuses, Bank
<1>3. CASE BankOpens BY <1>1, <1>3 DEF BankOpens, Bank
<1>4. CASE BankTransfers
  <2>1. CASE line.request.number # bank.point + 1
    BY <1>1, <1>4, <2>1 DEF BankTransfers
  <2>2. CASE line.request.number = bank.point + 1
    <3>1. bank' = [bank EXCEPT
                      !.point = line.request.number,
                      !.got = IF tx.direction = "upload" THEN Append(bank.got, line.request.data)
                              ELSE bank.got,
                      !.state = IF line.request.last THEN "complete" ELSE "open"]
      BY <1>4, <2>2, Zenon DEF BankTransfers
    <3>2. bank'.point = bank.point + 1 BY <1>1, <2>2, <3>1 DEF Bank
    <3>3. caller' = caller BY <1>4 DEF BankTransfers
    <3> QED BY <1>1, <3>2, <3>3
  <2> QED BY <2>1, <2>2
<1>5. CASE BankTakesReceipt
  <2>1. bank' = [bank EXCEPT !.state = "complete"] \/ bank' = bank
    BY <1>5 DEF BankTakesReceipt
  <2>2. bank'.point = bank.point BY <1>1, <2>1 DEF Bank
  <2> QED BY <1>1, <1>5, <2>2 DEF BankTakesReceipt
<1>6. CASE BankFallsBack
  <2>1. PICK point \in 0..(bank.point - 1) :
            bank' = [bank EXCEPT !.point = point,
                                 !.got = SubSeq(bank.got, 1, Min({point, Len(bank.got)}))]
    BY <1>6 DEF BankFallsBack
  <2>2. bank'.point = point BY <1>1, <2>1 DEF Bank
  <2>3. point <= bank.point + 1 BY <1>1, <2>1
  <2> QED BY <1>6, <2>2, <2>3 DEF BankFallsBack
<1> QED BY <1>2, <1>3, <1>4, <1>5, <1>6 DEF BankActs

\* A download that is stored is all there.
LEMMA StoreMoves ==
    ASSUME TransferInv, Store
    PROVE  \/ caller'.stored = caller.stored
           \/ tx.cursor = K /\ caller'.stored = payload /\ payload # NoData
<1>1. /\ ~caller.acknowledging /\ tx.phase # "Transfer" /\ caller.pc = "driving"
      /\ tx.direction = "download" /\ Downloading
  BY DEF Store, TransferInv
<1>2. /\ tx \in Engine /\ tx.phase \in {"Receipt", "Done"} /\ caller \in Caller
      /\ payload \in Seq(Nat)
  BY <1>1 DEF TransferInv, Shape, Pacing, Engine, Phases
<1>3. CASE tx.phase = "Done"
  <2>1. tx.segments = <<>> BY <1>1, <1>2, <1>3, SegmentFacts DEF Downloading
  <2> QED BY <1>2, <2>1 DEF Store, Ends, Caller
<1>4. CASE tx.phase = "Receipt"
  <2>1. tx.cursor = K BY <1>1, <1>4 DEF Downloading
  <2>2. Keeps = payload /\ payload # NoData BY <1>1, <2>1, KeepsAll
  <2> QED BY <1>2, <2>1, <2>2 DEF Store, Ends, Caller
<1> QED BY <1>2, <1>3, <1>4

\* A step of either direction is a step of the transfer it promises, or shows as none.
LEMMA TransferStep ==
    ASSUME ~BesideNotices, TransferInv, TransferInv', Next
    PROVE  [Transfer!Next]_(Transfer!vars)
<1>1. UNCHANGED payload
  BY DEF Next, Drives, BankActs, Open, Ask, UploadOver, Store, DownloadOver, Lost, Feed,
         BankRefuses, BankOpens, BankTransfers, BankTakesReceipt, BankFallsBack
<1>2. Segments' = Segments /\ K' = K /\ \A n : Prefix(n)' = Prefix(n) BY <1>1, SegmentsStay
<1>3. /\ payload \in Seq(Nat) /\ tx \in Engine /\ tx' \in Engine /\ caller \in Caller
      /\ bank \in Bank /\ K \in Nat \ {0} /\ Prefix(K) = Segments /\ K = Len(Segments)
      /\ tx.direction \in {"upload", "download"} /\ payload # NoData
      /\ tx.cursor \in Nat /\ tx'.cursor \in Nat /\ bank.point \in Nat /\ bank'.point \in Nat
  BY SegmentFacts, TransferAssumption DEF TransferInv, Shape, Engine, Bank, K
<1>4. Feed \/ UNCHANGED tx
  BY DEF Next, Drives, BankActs, Open, Ask, UploadOver, Store, DownloadOver, Lost,
         BankRefuses, BankOpens, BankTransfers, BankTakesReceipt, BankFallsBack
<1>5. tx'.direction = tx.direction BY <1>4, FeedMoves
<1>6. ASSUME NEW m \in Nat, NEW n \in Nat, m <= K, n <= K, n <= m + 1,
             ~Over, ~Over', Held = Prefix(m), Held' = Prefix(n)
      PROVE  [Transfer!Next]_(Transfer!vars)
  <2>1. Len(Prefix(m)) = m BY <1>3, <1>6, PrefixFacts
  <2>2. Over \in BOOLEAN /\ Over' \in BOOLEAN BY DEF Over
  <2>3. Over' = Over BY <1>6, <2>2
  <2>4. CASE n = m + 1
    <3>1. m < K BY <1>3, <1>6, <2>4
    <3>2. Append(Prefix(m), Segments[m + 1]) = Prefix(m + 1) BY <1>3, <1>6, <3>1, PrefixFacts
    <3>3. Held' = Append(Held, Segments[Len(Held) + 1]) BY <1>6, <2>1, <2>4, <3>2
    <3>4. Len(Held) < Len(Segments) BY <1>3, <1>6, <2>1, <3>1
    <3>5. Transfer!Take BY <1>2, <1>6, <2>3, <3>3, <3>4, Zenon DEF Transfer!Take
    <3> QED BY <3>5, Zenon DEF Transfer!Next
  <2>5. CASE n <= m
    <3>1. SubSeq(Prefix(m), 1, n) = Prefix(n) BY <1>3, <1>6, <2>5, PrefixFacts
    <3>2. n \in 0..Len(Held) /\ Held' = SubSeq(Held, 1, n) BY <1>6, <2>1, <2>5, <3>1
    <3>3. Transfer!SetBack BY <1>2, <1>6, <2>3, <3>2, Zenon DEF Transfer!SetBack
    <3> QED BY <3>3, Zenon DEF Transfer!Next
  <2> QED BY <1>6, <2>4, <2>5
<1>7. ASSUME Held = Segments, Held' = Segments, Over'
      PROVE  [Transfer!Next]_(Transfer!vars)
  <2>1. Over' \in BOOLEAN BY DEF Over
  <2>2. Over' = TRUE BY <1>7, <2>1
  <2>3. Transfer!Finish BY <1>2, <1>7, <2>2, Zenon DEF Transfer!Finish
  <2> QED BY <2>3, Zenon DEF Transfer!Next
<1>8. Over' => Held' = Segments BY <1>2, OverWillHaveAll
<1>9. CASE tx.direction = "upload"
  <2>1. /\ Held = Prefix(bank.point) /\ Held' = Prefix(bank'.point)
        /\ bank.point <= K /\ bank'.point <= K
    BY <1>2, <1>5, <1>9 DEF TransferInv, Uploading, Held
  <2>2. BankActs \/ BankFallsBack \/ UNCHANGED bank
    BY DEF Next, Drives, Open, Ask, UploadOver, Store, DownloadOver, Lost, Feed
  <2>3. bank'.point <= bank.point + 1 BY <1>3, <1>9, <2>2, BankMoves
  <2>4. CASE Over'
    <3>1. caller'.outcome = "done" BY <1>5, <1>9, <2>4 DEF Over
    <3>2. UNCHANGED bank \/ Over BY <1>9, <2>2, <3>1, BankMoves DEF Over
    <3>3. Held = Segments BY <1>8, <2>1, <2>4, <3>2, OverHasAll
    <3> QED BY <1>7, <1>8, <2>4, <3>3
  <2>5. CASE Over /\ ~Over'
    <3>1. /\ caller.outcome = "done" /\ caller.pc = "ended" /\ line = Quiet
          /\ line.to = "nobody" /\ bank.state = "complete" /\ caller' # caller
      BY <1>5, <1>9, <2>5 DEF Over, TransferInv, Pacing, Uploading, Quiet
    <3> QED
      BY <3>1 DEF Next, Drives, BankActs, Open, Ask, UploadOver, Store, DownloadOver, Lost, Feed,
         BankRefuses, BankOpens, BankTransfers, BankTakesReceipt, BankFallsBack
  <2>6. CASE ~Over /\ ~Over'
    <3>1. PICK m \in Nat, n \in Nat : m = bank.point /\ n = bank'.point BY <1>3
    <3> QED BY <1>6, <2>1, <2>3, <2>6, <3>1
  <2> QED BY <2>4, <2>5, <2>6
<1>10. CASE tx.direction = "download"
  <2>1. Downloading /\ Downloading' BY <1>5, <1>10 DEF TransferInv
  <2>2. Store \/ caller'.stored = caller.stored
    BY <1>3, FeedMoves DEF Next, Drives, BankActs, Open, Ask, UploadOver, DownloadOver, Lost,
         BankRefuses, BankOpens, BankTransfers, BankTakesReceipt, BankFallsBack, Ends, Caller
  <2>3. \/ caller'.stored = caller.stored
        \/ tx.cursor = K /\ caller'.stored # NoData
    BY <2>2, StoreMoves
  <2>4. CASE Over
    <3>1. Held = Segments BY <2>4, OverHasAll
    <3>2. Over' BY <1>5, <1>10, <2>3, <2>4 DEF Over
    <3> QED BY <1>7, <1>8, <3>1, <3>2
  <2>5. CASE ~Over /\ Over'
    <3>1. caller.stored = NoData /\ tx.cursor = K BY <1>5, <1>10, <2>3, <2>5 DEF Over
    <3>2. Held = Segments BY <1>3, <1>10, <2>1, <3>1 DEF Held, Downloading
    <3> QED BY <1>7, <1>8, <2>5, <3>2
  <2>6. CASE ~Over /\ ~Over'
    <3>1. caller.stored = NoData /\ caller'.stored = NoData BY <1>5, <1>10, <2>6 DEF Over
    <3>2. PICK m \in Nat, n \in Nat : m = tx.cursor /\ n = tx'.cursor BY <1>3
    <3>3. Held = Prefix(m) /\ Held' = Prefix(n) /\ m <= K /\ n <= K
      BY <1>2, <1>5, <1>10, <2>1, <3>1, <3>2 DEF Held, Downloading
    <3>4. n <= m + 1 BY <1>4, <1>10, <3>2, FeedMoves
    <3> QED BY <1>6, <2>6, <3>3, <3>4
  <2> QED BY <2>4, <2>5, <2>6
<1> QED BY <1>3, <1>9, <1>10

\* What changes nothing of the two sides changes nothing of the transfer.
LEMMA TransferStutter ==
    ASSUME UNCHANGED vars PROVE UNCHANGED Transfer!vars
BY DEF vars, Transfer!vars, Segments, Split, Held, Over

\* In the beginning nobody has anything.
LEMMA TransferStart ==
    ASSUME Init PROVE Transfer!Init
<1>1. /\ payload \in Seq(Nat) /\ caller.stored = NoData /\ caller.outcome = "none"
      /\ tx.segments = <<>> /\ bank.got = <<>>
  <2>1. TransferInv BY TransferInvInit
  <2> QED BY <2>1 DEF Init, TransferInv, Shape
<1>2. Segments \in Seq(Seq(Nat)) BY <1>1, SegmentFacts
<1>3. Held = <<>> BY <1>1 DEF Held
<1>4. Over \in BOOLEAN /\ ~Over BY <1>1 DEF Over
<1>5. Over = FALSE BY <1>4
<1> QED BY <1>2, <1>3, <1>5, Zenon DEF Transfer!Init

\* Either direction keeps what a transfer promises: the receiver takes the
\* segments one after the other, whatever is lost, refused or set back, and it
\* is over only with all of them.
THEOREM ImplementsTransferHolds ==
    ASSUME ~BesideNotices PROVE Spec => ImplementsTransfer
<1>1. Init => Transfer!Init BY TransferStart
<1>2. TransferInv /\ TransferInv' /\ [Next]_vars => [Transfer!Next]_(Transfer!vars)
  BY TransferStep, TransferStutter
<1> QED BY <1>1, <1>2, TransferInvHolds, PTL DEF Spec, ImplementsTransfer, Transfer!Spec
=============================================================================
