---------------------------- MODULE SessionProofs ----------------------------
(***************************************************************************)
(* Theorems about Session, for any number of commands, of segments of a    *)
(* listing and of unread lines: the types, and the safety part of the      *)
(* refinement of SessionService.                                           *)
(***************************************************************************)
EXTENDS Session, Integers, TLAPS, SequenceTheorems, WellFoundedInduction

(***************************************************************************)
(* The order in which commands and answers travel.  UpOrder: every line    *)
(* on its way to the server is a LIST of the client's own or a command     *)
(* entered later than those before it and than low, and not after high.    *)
(* DownOrder: answers are of commands from low to high, in order.          *)
(***************************************************************************)
UpOrder(q, low, high) ==
  \A i \in 1..Len(q) :
    /\ q[i].id = 0 => q[i].kind = "LIST"
    /\ q[i].id > 0 => q[i].id > low /\ q[i].id <= high
    /\ \A j \in 1..Len(q) :
         i < j /\ q[i].id > 0 /\ q[j].id > 0 => q[i].id < q[j].id

DownOrder(q, low, high) ==
  \A i \in 1..Len(q) :
    /\ q[i].id > 0 => q[i].id >= low /\ q[i].id <= high
    /\ \A j \in 1..Len(q) :
         i < j /\ q[i].id > 0 /\ q[j].id > 0 => q[i].id <= q[j].id

-----------------------------------------------------------------------------
(* Sequences.                                                              *)

(* What recv leaves behind.                                                *)
LEMMA Suffix ==
  ASSUME NEW S, NEW q \in Seq(S), NEW n \in 0..Len(q)
  PROVE  /\ SubSeq(q, n + 1, Len(q)) \in Seq(S)
         /\ Len(SubSeq(q, n + 1, Len(q))) = Len(q) - n
         /\ \A i \in 1..(Len(q) - n) : SubSeq(q, n + 1, Len(q))[i] = q[n + i]
<1> DEFINE m == Len(q)
           k == n + 1
<1>1. m \in Nat /\ k \in 1..(m + 1) /\ n = k - 1
  BY LenProperties
<1>2. \A i \in k..m : q[i] \in S
  BY <1>1, ElementOfSeq
<1> HIDE DEF m, k
<1>3. /\ SubSeq(q, k, m) \in Seq(S)
      /\ Len(SubSeq(q, k, m)) = IF k <= m THEN m - k + 1 ELSE 0
      /\ \A i \in 1..m - k + 1 : SubSeq(q, k, m)[i] = q[k + i - 1]
  BY <1>1, <1>2, SubSeqProperties
<1>4. /\ Len(SubSeq(q, k, m)) = m - n
      /\ \A i \in 1..(m - n) : SubSeq(q, k, m)[i] = q[n + i]
  BY <1>1, <1>3
<1>5. QED
  BY <1>3, <1>4 DEF m, k

(* What recv takes.                                                        *)
LEMMA Prefix ==
  ASSUME NEW S, NEW q \in Seq(S), NEW n \in 0..Len(q)
  PROVE  /\ SubSeq(q, 1, n) \in Seq(S)
         /\ Len(SubSeq(q, 1, n)) = n
         /\ \A i \in 1..n : SubSeq(q, 1, n)[i] = q[i]
<1>1. Len(q) \in Nat /\ \A i \in 1..n : q[i] \in S
  BY LenProperties, ElementOfSeq
<1>2. /\ SubSeq(q, 1, n) \in Seq(S)
      /\ Len(SubSeq(q, 1, n)) = IF 1 <= n THEN n - 1 + 1 ELSE 0
      /\ \A i \in 1..n - 1 + 1 : SubSeq(q, 1, n)[i] = q[1 + i - 1]
  BY <1>1, SubSeqProperties
<1>3. QED
  BY <1>1, <1>2

(* A set of positions that is not empty has a last one.                    *)
LEMMA LastPosition ==
  ASSUME NEW n \in Nat, NEW D \in SUBSET (1..n), D # {}
  PROVE  \E k \in D : \A j \in D : j <= k
<1> DEFINE R == OpToRel(<, Nat)
           T == {n - k : k \in D}
<1>1. IsWellFoundedOn(R, Nat)
  BY NatLessThanWellFounded
<1>2. T \subseteq Nat
  OBVIOUS
<1>3. T # {}
  <2>1. PICK k \in D : TRUE
    OBVIOUS
  <2>2. n - k \in T
    BY <2>1
  <2>3. QED
    BY <2>2
<1>4. PICK x \in T : \A y \in T : ~ (<<y, x>> \in R)
  <2> HIDE DEF T, R
  <2>1. QED
    BY <1>1, <1>2, <1>3, WFMin
<1>5. \A y \in T : ~ (y < x)
  BY <1>2, <1>4 DEF OpToRel
<1>6. PICK k \in D : x = n - k
  OBVIOUS
<1>7. \A j \in D : ~ (n - j < n - k)
  BY <1>5, <1>6
<1>8. QED
  BY <1>6, <1>7

LEMMA UpAppend ==
  ASSUME NEW q \in Seq(Line), NEW l \in Line, NEW low \in Nat, NEW high \in Nat,
         NEW max \in Nat, UpOrder(q, low, high), high <= max,
         \/ l = AutoList
         \/ l.id > high /\ l.id > low /\ l.id <= max
  PROVE  /\ Append(q, l) \in Seq(Line)
         /\ UpOrder(Append(q, l), low, max)
<1> DEFINE r == Append(q, l)
<1>1. /\ r \in Seq(Line) /\ Len(r) = Len(q) + 1 /\ Len(q) \in Nat
      /\ \A i \in 1..Len(q) : r[i] = q[i]
      /\ r[Len(q) + 1] = l
  BY AppendProperties, LenProperties
<1>2. /\ \A i \in 1..Len(q) : q[i].id \in Nat
      /\ l.id \in Nat
      /\ l.id = 0 => l.kind = "LIST"
      /\ l.id > 0 => l.id > high /\ l.id > low /\ l.id <= max
  <2>1. \A i \in 1..Len(q) : q[i] \in Line
    BY ElementOfSeq
  <2>2. QED
    BY <2>1 DEF Line, AutoList
<1> HIDE DEF r
<1>3. UpOrder(r, low, max)
  <2> SUFFICES ASSUME NEW i \in 1..Len(r)
               PROVE  /\ r[i].id = 0 => r[i].kind = "LIST"
                      /\ r[i].id > 0 => r[i].id > low /\ r[i].id <= max
                      /\ \A j \in 1..Len(r) :
                           i < j /\ r[i].id > 0 /\ r[j].id > 0 => r[i].id < r[j].id
    BY DEF UpOrder
  <2>1. CASE i = Len(q) + 1
    BY <1>1, <1>2, <2>1
  <2>2. CASE i \in 1..Len(q)
    <3>1. /\ q[i].id = 0 => q[i].kind = "LIST"
          /\ q[i].id > 0 => q[i].id > low /\ q[i].id <= high
          /\ \A j \in 1..Len(q) :
               i < j /\ q[i].id > 0 /\ q[j].id > 0 => q[i].id < q[j].id
      BY <2>2 DEF UpOrder
    <3>2. r[i] = q[i] /\ q[i].id \in Nat
      BY <1>1, <1>2, <2>2
    <3>3. ASSUME NEW j \in 1..Len(r), i < j, r[i].id > 0, r[j].id > 0
          PROVE  r[i].id < r[j].id
      <4>1. CASE j \in 1..Len(q)
        BY <1>1, <3>1, <3>2, <3>3, <4>1
      <4>2. CASE j = Len(q) + 1
        BY <1>1, <1>2, <3>1, <3>2, <3>3, <4>2
      <4>3. QED
        BY <1>1, <4>1, <4>2
    <3>4. QED
      BY <3>1, <3>2, <3>3
  <2>3. QED
    BY <1>1, <2>1, <2>2
<1>4. QED
  BY <1>1, <1>3 DEF r

(* The order is not disturbed when the bounds are relaxed.                 *)
LEMMA UpRelaxed ==
  ASSUME NEW q \in Seq(Line), NEW low \in Nat, NEW high \in Nat,
         UpOrder(q, low, high),
         NEW low2 \in Nat, NEW high2 \in Nat, low2 <= low, high <= high2
  PROVE  UpOrder(q, low2, high2)
<1> SUFFICES ASSUME NEW i \in 1..Len(q)
             PROVE  /\ q[i].id = 0 => q[i].kind = "LIST"
                    /\ q[i].id > 0 => q[i].id > low2 /\ q[i].id <= high2
                    /\ \A j \in 1..Len(q) :
                         i < j /\ q[i].id > 0 /\ q[j].id > 0 => q[i].id < q[j].id
  BY DEF UpOrder
<1>1. q[i].id \in Nat
  <2>1. q[i] \in Line
    BY ElementOfSeq
  <2>2. QED
    BY <2>1 DEF Line
<1>2. /\ q[i].id = 0 => q[i].kind = "LIST"
      /\ q[i].id > 0 => q[i].id > low /\ q[i].id <= high
      /\ \A j \in 1..Len(q) :
           i < j /\ q[i].id > 0 /\ q[j].id > 0 => q[i].id < q[j].id
  BY DEF UpOrder
<1>3. QED
  BY <1>1, <1>2

LEMMA UpTaken ==
  ASSUME NEW q \in Seq(Line), NEW low \in Nat, NEW high \in Nat,
         UpOrder(q, low, high), NEW n \in 1..Len(q)
  PROVE  LET r == SubSeq(q, n + 1, Len(q))
             l == Head(q)
         IN /\ r \in Seq(Line) /\ l \in Line
            /\ l.id = 0 => l.kind = "LIST" /\ UpOrder(r, low, high)
            /\ l.id > 0 => l.id > low /\ l.id <= high /\ UpOrder(r, l.id, high)
<1> DEFINE r == SubSeq(q, n + 1, Len(q))
<1>1. /\ r \in Seq(Line) /\ Len(r) = Len(q) - n
      /\ \A i \in 1..(Len(q) - n) : r[i] = q[n + i]
  BY Suffix
<1>2. /\ Len(q) \in Nat /\ 1 \in 1..Len(q) /\ Head(q) = q[1]
      /\ \A i \in 1..Len(q) : q[i] \in Line
  BY LenProperties, ElementOfSeq
<1>3. \A i \in 1..Len(q) : q[i].id \in Nat
  BY <1>2 DEF Line
<1> HIDE DEF r
<1>4. ASSUME NEW i \in 1..Len(r)
      PROVE  /\ n + i \in 1..Len(q) /\ n + i # 1 /\ r[i] = q[n + i]
             /\ 1 < n + i
  BY <1>1, <1>2
<1>5. /\ UpOrder(r, low, high)
      /\ q[1].id > 0 => UpOrder(r, q[1].id, high)
  <2> SUFFICES ASSUME NEW i \in 1..Len(r)
               PROVE  /\ r[i].id = 0 => r[i].kind = "LIST"
                      /\ r[i].id > 0 => r[i].id > low /\ r[i].id <= high
                      /\ q[1].id > 0 /\ r[i].id > 0 => r[i].id > q[1].id
                      /\ \A j \in 1..Len(r) :
                           i < j /\ r[i].id > 0 /\ r[j].id > 0 => r[i].id < r[j].id
    BY DEF UpOrder
  <2>1. /\ r[i].id = 0 => r[i].kind = "LIST"
        /\ r[i].id > 0 => r[i].id > low /\ r[i].id <= high
    BY <1>4 DEF UpOrder
  <2>2. q[1].id > 0 /\ r[i].id > 0 => r[i].id > q[1].id
    <3>1. q[1].id > 0 /\ q[n + i].id > 0 => q[1].id < q[n + i].id
      BY <1>2, <1>4 DEF UpOrder
    <3>2. q[1].id \in Nat /\ q[n + i].id \in Nat
      BY <1>2, <1>3, <1>4
    <3>3. QED
      BY <1>4, <3>1, <3>2
  <2>3. ASSUME NEW j \in 1..Len(r), i < j, r[i].id > 0, r[j].id > 0
        PROVE  r[i].id < r[j].id
    <3>1. n + i < n + j /\ n + j \in 1..Len(q) /\ r[j] = q[n + j]
      BY <1>1, <1>2, <1>4, <2>3
    <3>2. QED
      BY <1>4, <2>3, <3>1 DEF UpOrder
  <2>4. QED
    BY <2>1, <2>2, <2>3
<1>6. /\ q[1].id = 0 => q[1].kind = "LIST"
      /\ q[1].id > 0 => q[1].id > low /\ q[1].id <= high
  BY <1>2 DEF UpOrder
<1>7. QED
  BY <1>1, <1>2, <1>5, <1>6 DEF r

(* Raising the bound. *)
LEMMA DownRelaxed ==
  ASSUME NEW q \in Seq(Segment), NEW low \in Nat, NEW high \in Nat,
         DownOrder(q, low, high),
         NEW high2 \in Nat, high <= high2
  PROVE  DownOrder(q, low, high2)
<1> SUFFICES ASSUME NEW i \in 1..Len(q)
             PROVE  /\ q[i].id > 0 => q[i].id >= low /\ q[i].id <= high2
                    /\ \A j \in 1..Len(q) :
                         i < j /\ q[i].id > 0 /\ q[j].id > 0 => q[i].id <= q[j].id
  BY DEF DownOrder
<1>1. q[i].id \in Nat
  <2>1. q[i] \in Segment
    BY ElementOfSeq
  <2>2. QED
    BY <2>1 DEF Segment
<1>2. /\ q[i].id > 0 => q[i].id >= low /\ q[i].id <= high
      /\ \A j \in 1..Len(q) :
           i < j /\ q[i].id > 0 /\ q[j].id > 0 => q[i].id <= q[j].id
  BY DEF DownOrder
<1>3. QED
  BY <1>1, <1>2

(* What the server appends keeps the order of the answers. *)
LEMMA DownAppend ==
  ASSUME NEW q \in Seq(Segment), NEW s \in Seq(Segment), NEW k \in Nat,
         NEW low \in Nat, NEW high \in Nat, NEW max \in Nat,
         DownOrder(q, low, high), low <= high, high <= max,
         \A i \in 1..Len(s) : s[i].id = k,
         k = 0 \/ (k > high /\ k <= max)
  PROVE  /\ q \o s \in Seq(Segment)
         /\ DownOrder(q \o s, low, max)
<1> DEFINE r == q \o s
<1>1. /\ r \in Seq(Segment) /\ Len(r) = Len(q) + Len(s)
      /\ Len(q) \in Nat /\ Len(s) \in Nat
      /\ \A i \in 1..Len(q) + Len(s) :
           r[i] = IF i <= Len(q) THEN q[i] ELSE s[i - Len(q)]
  BY ConcatProperties, LenProperties
<1>2. \A i \in 1..Len(q) : q[i].id \in Nat
  <2>1. \A i \in 1..Len(q) : q[i] \in Segment
    BY ElementOfSeq
  <2>2. QED
    BY <2>1 DEF Segment
<1> HIDE DEF r
<1>3. \A i \in 1..Len(r) : i > Len(q) => r[i].id = k
  BY <1>1
<1>4. \A i \in 1..Len(q) : r[i] = q[i] /\ r[i].id <= high
  <2>1. \A i \in 1..Len(q) : r[i] = q[i]
    BY <1>1
  <2>2. \A i \in 1..Len(q) : q[i].id > 0 => q[i].id <= high
    BY DEF DownOrder
  <2>3. QED
    BY <1>2, <2>1, <2>2
<1>5. DownOrder(r, low, max)
  <2> SUFFICES ASSUME NEW i \in 1..Len(r)
               PROVE  /\ r[i].id > 0 => r[i].id >= low /\ r[i].id <= max
                      /\ \A j \in 1..Len(r) :
                           i < j /\ r[i].id > 0 /\ r[j].id > 0 => r[i].id <= r[j].id
    BY DEF DownOrder
  <2>1. CASE i \in 1..Len(q)
    <3>1. q[i].id > 0 => q[i].id >= low /\ q[i].id <= high
      BY <2>1 DEF DownOrder
    <3>2. ASSUME NEW j \in 1..Len(r), i < j, r[i].id > 0, r[j].id > 0
          PROVE  r[i].id <= r[j].id
      <4>1. CASE j \in 1..Len(q)
        <5>1. i < j /\ q[i].id > 0 /\ q[j].id > 0 => q[i].id <= q[j].id
          BY <2>1, <4>1 DEF DownOrder
        <5>2. QED
          BY <1>4, <2>1, <3>2, <4>1, <5>1
      <4>2. CASE j > Len(q)
        BY <1>2, <1>3, <1>4, <2>1, <3>2, <4>2
      <4>3. QED
        BY <1>1, <4>1, <4>2
    <3>3. r[i] = q[i] /\ q[i].id \in Nat
      BY <1>2, <1>4, <2>1
    <3>4. r[i].id > 0 => r[i].id >= low /\ r[i].id <= max
      BY <3>1, <3>3
    <3>5. QED
      BY <3>2, <3>4
  <2>2. CASE i > Len(q)
    <3>1. r[i].id = k /\ \A j \in 1..Len(r) : i < j => r[j].id = k
      BY <1>1, <1>3, <2>2
    <3>2. QED
      BY <3>1
  <2>3. QED
    BY <1>1, <2>1, <2>2
<1>6. QED
  BY <1>1, <1>5 DEF r

(* What recv takes of the answers, and what it leaves.                     *)
LEMMA DownTaken ==
  ASSUME NEW q \in Seq(Segment), NEW low \in Nat, NEW high \in Nat,
         DownOrder(q, low, high), low <= high, NEW n \in 1..Len(q)
  PROVE  LET h == LastCommand(SubSeq(q, 1, n), low)
             r == SubSeq(q, n + 1, Len(q))
         IN /\ SubSeq(q, 1, n) \in Seq(Segment)
            /\ r \in Seq(Segment)
            /\ h \in low..high
            /\ DownOrder(r, h, high)
<1> DEFINE p == SubSeq(q, 1, n)
           r == SubSeq(q, n + 1, Len(q))
           h == LastCommand(p, low)
           done == {k \in 1..Len(p) : p[k].part \in {0, Segments} /\ p[k].id > 0}
<1>1. Len(q) \in Nat /\ n \in 0..Len(q) /\ n \in Nat
  BY LenProperties
<1>2. /\ p \in Seq(Segment) /\ Len(p) = n
      /\ \A i \in 1..n : p[i] = q[i]
  BY <1>1, Prefix
<1>3. /\ r \in Seq(Segment) /\ Len(r) = Len(q) - n
      /\ \A i \in 1..(Len(q) - n) : r[i] = q[n + i]
  BY <1>1, Suffix
<1>4. \A i \in 1..Len(q) : q[i].id \in Nat
  <2>1. \A i \in 1..Len(q) : q[i] \in Segment
    BY ElementOfSeq
  <2>2. QED
    BY <2>1 DEF Segment
<1>5. \/ h = low
      \/ \E k \in 1..n : h = q[k].id /\ q[k].id > 0
  <2>1. CASE done = {}
    BY <2>1 DEF LastCommand
  <2>2. CASE done # {}
    <3> DEFINE c == CHOOSE k \in done : \A j \in done : j <= k
    <3>1. done \in SUBSET (1..n)
      BY <1>2
    <3>2. c \in done
      <4> HIDE DEF done
      <4>1. \E k \in done : \A j \in done : j <= k
        BY <1>1, <2>2, <3>1, LastPosition
      <4>2. QED
        BY <4>1
    <3>3. h = p[c].id
      BY <2>2 DEF LastCommand
    <3>4. c \in 1..n /\ p[c].id > 0
      BY <1>2, <3>2
    <3> HIDE DEF c, h, p
    <3>5. QED
      BY <1>2, <3>3, <3>4
  <2>3. QED
    BY <2>1, <2>2
<1> HIDE DEF p, r, h
<1>6. h \in low..high
  BY <1>1, <1>4, <1>5 DEF DownOrder
<1>7. DownOrder(r, h, high)
  <2> SUFFICES ASSUME NEW i \in 1..Len(r)
               PROVE  /\ r[i].id > 0 => r[i].id >= h /\ r[i].id <= high
                      /\ \A j \in 1..Len(r) :
                           i < j /\ r[i].id > 0 /\ r[j].id > 0 => r[i].id <= r[j].id
    BY DEF DownOrder
  <2>1. n + i \in 1..Len(q) /\ r[i] = q[n + i] /\ n + i > n
    BY <1>1, <1>3
  <2>2. r[i].id > 0 => r[i].id >= low /\ r[i].id <= high
    BY <2>1 DEF DownOrder
  <2>3. ASSUME NEW k \in 1..n, q[k].id > 0, r[i].id > 0
        PROVE  q[k].id <= r[i].id
    <3>1. k \in 1..Len(q) /\ k < n + i
      BY <1>1, <2>1
    <3>2. QED
      BY <2>1, <2>3, <3>1 DEF DownOrder
  <2>4. r[i].id > 0 => r[i].id >= h
    BY <1>5, <2>2, <2>3
  <2>5. ASSUME NEW j \in 1..Len(r), i < j, r[i].id > 0, r[j].id > 0
        PROVE  r[i].id <= r[j].id
    <3>1. n + i < n + j /\ n + j \in 1..Len(q) /\ r[j] = q[n + j]
      BY <1>1, <1>3, <2>5
    <3>2. QED
      BY <2>1, <2>5, <3>1 DEF DownOrder
  <2>6. QED
    BY <2>2, <2>4, <2>5
<1>8. QED
  BY <1>2, <1>3, <1>6, <1>7 DEF p, r, h

(* process_list_parse gives a list of a version that exists.               *)
LEMMA ParseType ==
  ASSUME NEW q \in Seq(Segment), shown \in View
  PROVE  Parse(q) \in View
<1>0. MaxCmds \in Nat /\ Segments \in Nat \ {0}
  BY ConstantsAssumption
<1>1. CASE /\ {q[i].part : i \in Rows(q)} = 1..Segments
           /\ \A i, j \in Rows(q) : i < j => q[i].part < q[j].part
  <2> DEFINE c == CHOOSE i \in Rows(q) : q[i].part = 1
  <2>1. \E i \in Rows(q) : q[i].part = 1
    <3>1. 1 \in {q[i].part : i \in Rows(q)}
      BY <1>0, <1>1
    <3>2. QED
      BY <3>1
  <2>2. c \in Rows(q)
    BY <2>1
  <2>3. Parse(q) = [whole |-> TRUE, epoch |-> q[c].epoch]
    BY <1>1 DEF Parse
  <2> HIDE DEF c
  <2>4. q[c] \in Segment
    BY <2>2, ElementOfSeq DEF Rows
  <2>5. QED
    BY <2>3, <2>4 DEF Segment, View
<1>2. CASE ~ (/\ {q[i].part : i \in Rows(q)} = 1..Segments
              /\ \A i, j \in Rows(q) : i < j => q[i].part < q[j].part)
  <2>1. Parse(q) = [shown EXCEPT !.whole = FALSE]
    BY <1>2 DEF Parse
  <2>2. QED
    BY <2>1 DEF View
<1>3. QED
  BY <1>1, <1>2

LEMMA AnswerType ==
  ASSUME NEW l \in Line, NEW e \in 0..MaxCmds
  PROVE  /\ Answer(l, e) \in Seq(Segment)
         /\ \A i \in 1..Len(Answer(l, e)) : Answer(l, e)[i].id = l.id
<1>0. Segments \in Nat \ {0} /\ l.id \in 0..MaxCmds
  BY ConstantsAssumption DEF Line
<1>1. CASE l.kind = "LIST"
  <2>1. Answer(l, e) = [k \in 1..Segments |-> [part |-> k, id |-> l.id, epoch |-> e]]
    BY <1>1 DEF Answer
  <2>2. \A k \in 1..Segments : [part |-> k, id |-> l.id, epoch |-> e] \in Segment
    BY <1>0 DEF Segment
  <2>3. QED
    BY <1>0, <2>1, <2>2
<1>2. CASE l.kind # "LIST"
  <2>1. Answer(l, e) = <<[part |-> 0, id |-> l.id, epoch |-> e]>>
    BY <1>2 DEF Answer
  <2>2. [part |-> 0, id |-> l.id, epoch |-> e] \in Segment
    BY <1>0 DEF Segment
  <2>3. QED
    BY <2>1, <2>2
<1>3. QED
  BY <1>1, <1>2

-----------------------------------------------------------------------------
(***************************************************************************)
(* The inductive invariant.  TypeOK bounds epoch by MaxCmds because every  *)
(* start and stop is a command of the user, and no command is executed     *)
(* twice: for that, what is on the way to the server must be later than    *)
(* what it has taken.  The answers are in order for the same reason.       *)
(***************************************************************************)
Taken == IF server = "serving" /\ request.id > 0 THEN request.id ELSE served

InOrder ==
  /\ epoch <= served /\ heard <= served /\ served <= cmds
  /\ server = "serving" /\ request.id > 0 =>
       served < request.id /\ request.id <= cmds
  /\ request.id = 0 => request.kind = "LIST"
  /\ UpOrder(up, Taken, cmds)
  /\ DownOrder(down, heard, served)

SessionInv == TypeOK /\ InOrder

LEMMA Numbers ==
  ASSUME TypeOK
  PROVE  /\ MaxCmds \in Nat /\ cmds \in Nat /\ served \in Nat /\ heard \in Nat
         /\ epoch \in Nat /\ request.id \in Nat /\ Taken \in Nat
         /\ cmds <= MaxCmds
BY ConstantsAssumption DEF TypeOK, Line, Taken

LEMMA InitiallyInv == Init => SessionInv
<1> SUFFICES ASSUME Init PROVE SessionInv
  OBVIOUS
<1>1. MaxCmds \in Nat /\ Segments \in Nat \ {0}
  BY ConstantsAssumption
<1>2. AutoList \in Line /\ AutoList.id = 0 /\ AutoList.kind = "LIST"
  BY <1>1 DEF AutoList, Line, Kind
<1>3. /\ up = <<AutoList>> /\ up \in Seq(Line) /\ Len(up) = 1 /\ up[1] = AutoList
      /\ down = << >> /\ down \in Seq(Segment) /\ Len(down) = 0
  BY <1>2 DEF Init
<1>4. TypeOK
  <2>1. asked \in Asked /\ shown \in View
    BY <1>1 DEF Init, NoCommand, Asked, View
  <2>2. /\ request \in Line
        /\ {cmds, epoch, served, heard} \subseteq 0..MaxCmds
    BY <1>1, <1>2 DEF Init
  <2>3. QED
    BY <1>3, <2>1, <2>2 DEF Init, TypeOK, Peer
<1>5. UpOrder(up, Taken, cmds) /\ DownOrder(down, heard, served)
  BY <1>2, <1>3 DEF UpOrder, DownOrder
<1>6. InOrder
  BY <1>2, <1>5 DEF Init, InOrder
<1>7. QED
  BY <1>4, <1>6 DEF SessionInv

LEMMA NoCommandType == NoCommand \in Asked
BY ConstantsAssumption DEF NoCommand, Asked

(* The client's steps that leave the lines and answers alone.              *)
LEMMA QuietKeeps ==
  ASSUME SessionInv, AwaitTimeout \/ AwaitLost \/ PollLost \/ PollInterrupted
                     \/ Shutdown \/ Interrupt \/ Killed \/ UNCHANGED vars
  PROVE  SessionInv'
<1>1. /\ UNCHANGED <<up, down, server, request, heir, epoch, served, cmds,
                     heard, shown, serverGone>>
      /\ asked' \in {asked, NoCommand}
  BY DEF AwaitTimeout, AwaitLost, PollLost, PollInterrupted, Shutdown,
         Interrupt, Killed, vars, serverVars, clientVars, net
<1>2. /\ client' \in {"loop", "await", "leaving", "closed", "killed"}
      /\ deferred' \in BOOLEAN
      /\ clientGone' \in Peer
  BY Zenon DEF SessionInv, TypeOK, AwaitTimeout, AwaitLost, PollLost,
               PollInterrupted, Shutdown, Interrupt, Killed, vars, serverVars,
               clientVars, net, Asked, Peer
<1>3. TypeOK'
  BY <1>1, <1>2, NoCommandType DEF SessionInv, TypeOK
<1>4. InOrder'
  BY <1>1 DEF SessionInv, InOrder, Taken, UpOrder, DownOrder
<1>5. QED
  BY <1>3, <1>4 DEF SessionInv

(* The client's steps that send a line.                                    *)
LEMMA SendKeeps ==
  ASSUME SessionInv, NEW l \in Line, NEW next \in {"loop", "await", "leaving"},
         ClientSend(l, next),
         UNCHANGED <<shown, heard, server, request, heir, epoch, served, down,
                     clientGone>>,
         asked' \in Asked, deferred' \in BOOLEAN,
         \/ l = AutoList /\ cmds' = cmds
         \/ l.id = cmds + 1 /\ cmds' = cmds + 1 /\ cmds < MaxCmds
  PROVE  SessionInv'
<1>1. TypeOK /\ InOrder
  BY DEF SessionInv
<1>2. /\ MaxCmds \in Nat /\ cmds \in Nat /\ served \in Nat /\ heard \in Nat
      /\ Taken \in Nat /\ request.id \in Nat
      /\ cmds <= MaxCmds /\ Taken <= cmds
  BY <1>1, Numbers DEF InOrder, Taken
<1>3. cmds' \in 0..MaxCmds /\ cmds' >= cmds
  BY <1>2
<1>4. Taken' = Taken
  BY DEF Taken
<1>5. up \in Seq(Line) /\ UpOrder(up, Taken, cmds)
  BY <1>1 DEF TypeOK, InOrder
<1>6. l = AutoList \/ (l.id > cmds /\ l.id > Taken /\ l.id <= cmds')
  BY <1>2
<1>7. /\ Append(up, l) \in Seq(Line)
      /\ UpOrder(Append(up, l), Taken, cmds')
  BY <1>2, <1>3, <1>5, <1>6, UpAppend
<1>8. up' \in Seq(Line) /\ UpOrder(up', Taken, cmds')
  <2>1. CASE up' = up
    <3>1. UpOrder(up, Taken, cmds')
      BY <1>2, <1>3, <1>5, UpRelaxed
    <3>2. QED
      BY <1>5, <2>1, <3>1
  <2>2. CASE up' = Append(up, l)
    BY <1>7, <2>2
  <2>3. QED
    BY <2>1, <2>2 DEF ClientSend
<1>9. client' \in {"loop", "await", "leaving", "closed", "killed"}
      /\ serverGone' \in Peer
  BY <1>1 DEF ClientSend, TypeOK, Peer
<1>10. TypeOK'
  BY <1>1, <1>3, <1>8, <1>9 DEF TypeOK
<1>11. InOrder'
  <2>1. /\ epoch' <= served' /\ heard' <= served' /\ served' <= cmds'
        /\ server' = "serving" /\ request'.id > 0 =>
             served' < request'.id /\ request'.id <= cmds'
        /\ request'.id = 0 => request'.kind = "LIST"
    BY <1>1, <1>2, <1>3 DEF InOrder
  <2>2. DownOrder(down', heard', served')
    BY <1>1 DEF InOrder
  <2>3. QED
    BY <1>4, <1>8, <2>1, <2>2 DEF InOrder
<1>12. QED
  BY <1>10, <1>11 DEF SessionInv

(* The client's steps that read answers.                                   *)
LEMMA ReceiveKeeps ==
  ASSUME SessionInv, NEW n \in 1..Len(down), Receive(n),
         shown' \in {shown, Parse(SubSeq(down, 1, n))},
         client' \in {"loop", "await"}, deferred' \in BOOLEAN,
         asked' \in {asked, NoCommand}, UNCHANGED <<cmds, serverVars>>
  PROVE  /\ SessionInv'
         /\ heard' \in heard..served
<1>1. TypeOK /\ InOrder
  BY DEF SessionInv
<1>2. /\ heard \in Nat /\ served \in Nat /\ heard <= served
      /\ down \in Seq(Segment) /\ DownOrder(down, heard, served)
      /\ MaxCmds \in Nat /\ served <= MaxCmds /\ served <= cmds /\ cmds \in Nat
  BY <1>1, Numbers DEF InOrder, TypeOK
<1>3. /\ SubSeq(down, 1, n) \in Seq(Segment)
      /\ down' \in Seq(Segment)
      /\ heard' \in heard..served
      /\ DownOrder(down', heard', served)
  BY <1>2, DownTaken DEF Receive
<1>4. shown' \in View
  BY <1>1, <1>3, ParseType DEF TypeOK
<1>5. heard' \in 0..MaxCmds
  BY <1>2, <1>3
<1>6. /\ UNCHANGED <<up, clientGone, serverGone, server, request, heir, epoch,
                     served, cmds>>
      /\ asked' \in Asked
  BY <1>1, NoCommandType DEF Receive, serverVars, TypeOK
<1>7. TypeOK'
  BY <1>1, <1>3, <1>4, <1>5, <1>6 DEF TypeOK
<1>8. InOrder'
  <2>1. heard' <= served'
    BY <1>2, <1>3, <1>6
  <2>2. UpOrder(up', Taken', cmds')
    BY <1>1, <1>6 DEF InOrder, Taken
  <2>3. DownOrder(down', heard', served')
    BY <1>3, <1>6
  <2>4. QED
    BY <1>1, <1>6, <2>1, <2>2, <2>3 DEF InOrder
<1>9. QED
  BY <1>3, <1>7, <1>8 DEF SessionInv

-----------------------------------------------------------------------------
(* The server's steps.                                                     *)

LEMMA RequestKeeps ==
  ASSUME SessionInv, ServerRecv
  PROVE  /\ SessionInv'
         /\ request' \in Line /\ request'.id \in Nat
         /\ request'.id > 0 => served < request'.id /\ request'.id <= cmds
<1>1. TypeOK /\ InOrder
  BY DEF SessionInv
<1>2. PICK n \in 1..Len(up) : up' = SubSeq(up, n + 1, Len(up))
  BY DEF ServerRecv
<1>3. /\ request' = Head(up) /\ server' = "serving" /\ server = "recv"
      /\ UNCHANGED <<client, asked, deferred, shown, cmds, heard, heir, epoch,
                     served, down, clientGone, serverGone>>
  BY DEF ServerRecv, clientVars
<1>4. /\ up \in Seq(Line) /\ served \in Nat /\ cmds \in Nat /\ Taken = served
      /\ UpOrder(up, served, cmds)
  BY <1>1, <1>3, Numbers DEF TypeOK, InOrder, Taken
<1>5. /\ up' \in Seq(Line) /\ request' \in Line
      /\ request'.id = 0 =>
           request'.kind = "LIST" /\ UpOrder(up', served, cmds)
      /\ request'.id > 0 =>
           /\ request'.id > served /\ request'.id <= cmds
           /\ UpOrder(up', request'.id, cmds)
  BY <1>2, <1>3, <1>4, UpTaken
<1>6. request'.id \in Nat
  BY <1>5 DEF Line
<1>7. TypeOK'
  BY <1>1, <1>3, <1>5 DEF TypeOK
<1>8. UpOrder(up', Taken', cmds')
  BY <1>3, <1>5, <1>6 DEF Taken
<1>9. DownOrder(down', heard', served')
  BY <1>1, <1>3 DEF InOrder
<1>10. InOrder'
  BY <1>1, <1>3, <1>5, <1>6, <1>8, <1>9 DEF InOrder
<1>11. QED
  BY <1>5, <1>6, <1>7, <1>10 DEF SessionInv

(* The thread or the process ends; a request that was being served is not. *)
LEMMA ServerEndsKeeps ==
  ASSUME SessionInv, ServerHangup \/ ServerCrash \/ HeirExit
  PROVE  SessionInv'
<1>1. TypeOK /\ InOrder
  BY DEF SessionInv
<1>2. /\ UNCHANGED <<client, asked, deferred, shown, cmds, heard, request,
                     epoch, served, up, down, clientGone>>
      /\ server' \in {server, "closed", "dead"}
  BY DEF ServerHangup, ServerCrash, HeirExit, clientVars
<1>3. heir' \in BOOLEAN /\ serverGone' \in Peer
  BY <1>1, Zenon DEF TypeOK, ServerHangup, ServerCrash, HeirExit, Peer
<1>4. /\ up \in Seq(Line) /\ served \in Nat /\ cmds \in Nat /\ Taken \in Nat
      /\ UpOrder(up, Taken, cmds) /\ served <= Taken
  BY <1>1, Numbers DEF TypeOK, InOrder, Taken
<1>5. TypeOK'
  BY <1>1, <1>2, <1>3 DEF TypeOK
<1>6. UpOrder(up', Taken', cmds')
  <2>1. UpOrder(up, served, cmds)
    BY <1>4, UpRelaxed
  <2>2. Taken' = Taken \/ Taken' = served
    BY <1>2 DEF Taken
  <2>3. QED
    BY <1>2, <1>4, <2>1, <2>2
<1>7. DownOrder(down', heard', served')
  BY <1>1, <1>2 DEF InOrder
<1>8. InOrder'
  BY <1>1, <1>2, <1>6, <1>7 DEF InOrder
<1>9. QED
  BY <1>5, <1>8 DEF SessionInv

LEMMA AutoListType == AutoList \in Line
BY ConstantsAssumption DEF AutoList, Line, Kind

(* A request is executed and answered.                                     *)
LEMMA ExecutedKeeps ==
  ASSUME SessionInv, server = "serving", Executed,
         UNCHANGED <<client, asked, deferred, shown, cmds, heard, up>>,
         request' = AutoList,
         epoch' = epoch \/ (epoch' = epoch + 1 /\ request.kind # "LIST"),
         heir' \in BOOLEAN, serverGone' \in Peer,
         NEW e \in {epoch, epoch'}, NEW next \in {"recv", "closed"},
         ServerSend(Answer(request, e), next)
  PROVE  SessionInv'
<1>1. TypeOK /\ InOrder
  BY DEF SessionInv
<1>2. /\ MaxCmds \in Nat /\ cmds \in Nat /\ served \in Nat /\ heard \in Nat
      /\ epoch \in Nat /\ request.id \in Nat /\ cmds <= MaxCmds
      /\ epoch <= served /\ heard <= served /\ served <= cmds
      /\ request.id > 0 => served < request.id /\ request.id <= cmds
      /\ request.id = 0 => request.kind = "LIST"
  BY <1>1, Numbers DEF InOrder
<1>3. /\ served' = IF request.id > 0 THEN request.id ELSE served
      /\ served' \in Nat /\ served <= served' /\ served' <= cmds
      /\ heard <= served' /\ epoch' \in Nat /\ epoch' <= served'
  BY <1>2 DEF Executed
<1>4. epoch' \in 0..MaxCmds /\ served' \in 0..MaxCmds /\ e \in 0..MaxCmds
  BY <1>2, <1>3
<1>5. request \in Line /\ down \in Seq(Segment) /\ DownOrder(down, heard, served)
  BY <1>1 DEF TypeOK, InOrder
<1>6. /\ Answer(request, e) \in Seq(Segment)
      /\ \A i \in 1..Len(Answer(request, e)) : Answer(request, e)[i].id = request.id
  BY <1>4, <1>5, AnswerType
<1>7. request.id = 0 \/ (request.id > served /\ request.id <= served')
  BY <1>2, <1>3
<1>8. /\ down \o Answer(request, e) \in Seq(Segment)
      /\ DownOrder(down \o Answer(request, e), heard, served')
  BY <1>2, <1>3, <1>5, <1>6, <1>7, DownAppend
<1>9. DownOrder(down, heard, served')
  BY <1>2, <1>3, <1>5, DownRelaxed
<1>10. /\ server' \in {"recv", "closed", "dead"}
       /\ clientGone' \in Peer
       /\ down' \in {down, down \o Answer(request, e)}
  BY <1>1 DEF ServerSend, TypeOK, Peer
<1>11. TypeOK'
  <2>1. down' \in Seq(Segment)
    BY <1>5, <1>8, <1>10
  <2>2. request' \in Line
    BY AutoListType
  <2>3. QED
    BY <1>1, <1>4, <1>10, <2>1, <2>2 DEF TypeOK
<1>12. InOrder'
  <2>1. Taken = served' /\ Taken' = served'
    BY <1>3, <1>10 DEF Taken
  <2>2. UpOrder(up', Taken', cmds')
    BY <1>1, <2>1 DEF InOrder
  <2>3. DownOrder(down', heard', served')
    BY <1>8, <1>9, <1>10
  <2>4. request'.id = 0 /\ request'.kind = "LIST"
    BY DEF AutoList
  <2>5. QED
    BY <1>2, <1>3, <1>10, <2>2, <2>3, <2>4 DEF InOrder
<1>13. QED
  BY <1>11, <1>12 DEF SessionInv

LEMMA ServeKeeps ==
  ASSUME SessionInv, Serve \/ ServeExit
  PROVE  SessionInv'
<1>1. TypeOK /\ epoch \in Nat
  BY Numbers DEF SessionInv
<1>2. /\ server = "serving" /\ Executed
      /\ UNCHANGED <<client, asked, deferred, shown, cmds, heard, up>>
      /\ request' = AutoList
  BY DEF Serve, ServeExit, clientVars
<1>3. CASE Serve
  <2>1. epoch' = epoch \/ (epoch' = epoch + 1 /\ request.kind # "LIST")
    BY <1>3 DEF Serve
  <2>2. heir' \in BOOLEAN
    BY <1>1, <1>3, Zenon DEF Serve, TypeOK
  <2>3. serverGone' \in Peer
    BY <1>1, <1>3 DEF Serve, TypeOK, Peer
  <2>4. ServerSend(Answer(request, epoch'), "recv")
    BY <1>3 DEF Serve
  <2>5. QED
    BY <1>2, <2>1, <2>2, <2>3, <2>4, ExecutedKeeps
<1>4. CASE ServeExit
  <2>1. epoch' = epoch /\ heir' = heir
    BY <1>4 DEF ServeExit
  <2>2. heir' \in BOOLEAN
    BY <1>1, <2>1, Zenon DEF TypeOK
  <2>3. serverGone' \in Peer
    BY <1>1, <1>4 DEF ServeExit, TypeOK, Peer
  <2>4. ServerSend(Answer(request, epoch), "closed")
    BY <1>4 DEF ServeExit
  <2>5. QED
    BY <1>2, <2>1, <2>2, <2>3, <2>4, ExecutedKeeps
<1>5. QED
  BY <1>3, <1>4

LEMMA UserKeeps ==
  ASSUME SessionInv,
         (\E kind \in Kind, arms, run \in BOOLEAN : Enter(kind, arms, run))
           \/ EnterExit
  PROVE  SessionInv'
<1>1. TypeOK /\ MaxCmds \in Nat /\ cmds \in Nat
  BY Numbers DEF SessionInv
<1>2. ASSUME NEW kind \in Kind, NEW arms \in BOOLEAN, NEW run \in BOOLEAN,
             Enter(kind, arms, run)
      PROVE  SessionInv'
  <2> DEFINE l == [kind |-> kind, id |-> cmds']
  <2>1. /\ cmds < MaxCmds /\ cmds' = cmds + 1
        /\ asked' = [id |-> cmds', arms |-> arms, run |-> run]
        /\ ClientSend(l, "await")
        /\ UNCHANGED <<deferred, shown, heard, server, request, heir, epoch,
                       served, down, clientGone>>
    BY <1>2 DEF Enter, serverVars
  <2>2. l \in Line /\ l.id = cmds + 1
    BY <1>1, <2>1 DEF Line
  <2>3. asked' \in Asked
    BY <1>1, <2>1 DEF Asked
  <2>4. deferred' \in BOOLEAN
    BY <1>1, <2>1, Zenon DEF TypeOK
  <2> HIDE DEF l
  <2>5. QED
    BY <2>1, <2>2, <2>3, <2>4, SendKeeps
<1>3. CASE EnterExit
  <2> DEFINE l == [kind |-> "EXIT", id |-> cmds']
  <2>1. /\ cmds < MaxCmds /\ cmds' = cmds + 1
        /\ ClientSend(l, "leaving")
        /\ UNCHANGED <<asked, deferred, shown, heard, server, request, heir,
                       epoch, served, down, clientGone>>
    BY <1>3 DEF EnterExit, serverVars
  <2>2. l \in Line /\ l.id = cmds + 1
    BY <1>1, <2>1 DEF Line, Kind
  <2>3. asked' \in Asked /\ deferred' \in BOOLEAN
    BY <1>1, <2>1, Zenon DEF TypeOK
  <2> HIDE DEF l
  <2>4. QED
    BY <2>1, <2>2, <2>3, SendKeeps
<1>4. QED
  BY <1>2, <1>3

LEMMA RefreshKeeps ==
  ASSUME SessionInv, RefreshDeferred \/ RefreshPeriodic
  PROVE  SessionInv'
<1>1. TypeOK
  BY DEF SessionInv
<1>2. /\ ClientSend(AutoList, "loop")
      /\ UNCHANGED <<asked, shown, cmds, heard, server, request, heir, epoch,
                     served, down, clientGone>>
  BY DEF RefreshDeferred, RefreshPeriodic, serverVars
<1>3. deferred' \in BOOLEAN /\ asked' \in Asked
  BY <1>1, <1>2, Zenon DEF TypeOK, RefreshDeferred, RefreshPeriodic
<1>4. QED
  BY <1>2, <1>3, AutoListType, SendKeeps

\* what the refinement needs to know of a step that reads answers
LEMMA AnswerKeeps ==
  ASSUME SessionInv, AwaitAnswer \/ Poll
  PROVE  SessionInv' /\ heard' \in heard..served
<1>1. TypeOK
  BY DEF SessionInv
<1>2. PICK n \in 1..Len(down) :
        Receive(n) /\ shown' \in {shown, Parse(SubSeq(down, 1, n))}
  BY DEF AwaitAnswer, Poll
<1>3. deferred' \in BOOLEAN
  BY <1>1, Zenon DEF TypeOK, AwaitAnswer, Poll, Asked
<1>4. /\ client' \in {"loop", "await"} /\ asked' \in {asked, NoCommand}
      /\ UNCHANGED <<cmds, serverVars>>
  BY DEF AwaitAnswer, Poll
<1>5. QED
  BY <1>2, <1>3, <1>4, ReceiveKeeps

LEMMA InvStep == SessionInv /\ [Next]_vars => SessionInv'
<1> SUFFICES ASSUME SessionInv, [Next]_vars PROVE SessionInv'
  OBVIOUS
<1>1. CASE Client
  BY <1>1, QuietKeeps, AnswerKeeps, RefreshKeeps DEF Client
<1>2. CASE Server
  BY <1>2, RequestKeeps, ServerEndsKeeps, ServeKeeps DEF Server
<1>3. CASE World
  BY <1>3, UserKeeps, QuietKeeps, ServerEndsKeeps DEF World
<1>4. CASE UNCHANGED vars
  BY <1>4, QuietKeeps
<1>5. QED
  BY <1>1, <1>2, <1>3, <1>4 DEF Next

LEMMA InvAlways == Spec => []SessionInv
BY InitiallyInv, InvStep, PTL DEF Spec

(* The variables of the session keep their types: the version of the       *)
(* process table stays below the bound because no command runs twice.      *)
THEOREM TypeCorrect == Spec => []TypeOK
BY InvAlways, PTL DEF SessionInv

-----------------------------------------------------------------------------
(***************************************************************************)
(* The refinement.                                                         *)
(***************************************************************************)
LEMMA ClientSimulated ==
  ASSUME SessionInv, Client
  PROVE  Service!Next \/ UNCHANGED Service!vars
<1> USE DEF Running, ServerGone
<1>1. CASE AwaitAnswer \/ Poll
  <2>1. /\ heard' \in heard..served
        /\ client \in {"await", "loop"} /\ client' = "loop"
        /\ UNCHANGED <<cmds, server, request, heir, epoch, served>>
    BY <1>1, AnswerKeeps DEF AwaitAnswer, Poll, serverVars
  <2>2. Service!Release
    BY <2>1 DEF Service!Release
  <2>3. QED
    BY <2>2 DEF Service!Next
<1>2. CASE AwaitTimeout
  <2>1. heard' \in heard..served
    BY <1>2, Numbers DEF AwaitTimeout, SessionInv, InOrder
  <2>2. Service!Release
    BY <1>2, <2>1 DEF AwaitTimeout, serverVars, net, Service!Release
  <2>3. QED
    BY <2>2 DEF Service!Next
<1>3. CASE AwaitLost \/ PollLost \/ PollInterrupted
  <2>1. Service!ClientEnds
    BY <1>3 DEF AwaitLost, PollLost, PollInterrupted, serverVars, net,
                Service!ClientEnds
  <2>2. QED
    BY <2>1 DEF Service!Next
<1>4. CASE RefreshDeferred \/ RefreshPeriodic
  <2>1. /\ client = "loop" /\ client' \in {"loop", "killed"}
        /\ UNCHANGED <<cmds, heard, server, request, heir, served>>
    BY <1>4 DEF RefreshDeferred, RefreshPeriodic, ClientSend, serverVars
  <2>2. CASE client' = "loop"
    BY <2>1, <2>2 DEF Service!vars
  <2>3. CASE client' = "killed"
    <3>1. Service!ClientEnds
      BY <2>1, <2>3 DEF Service!ClientEnds
    <3>2. QED
      BY <3>1 DEF Service!Next
  <2>4. QED
    BY <2>1, <2>2, <2>3
<1>5. CASE Shutdown \/ Killed
  BY <1>5 DEF Shutdown, Killed, serverVars, clientVars, Service!vars
<1>6. QED
  BY <1>1, <1>2, <1>3, <1>4, <1>5 DEF Client

LEMMA ServerSimulated ==
  ASSUME SessionInv, Server
  PROVE  Service!Next \/ UNCHANGED Service!vars
<1> USE DEF Running, ServerGone
<1>0. TypeOK /\ InOrder
  BY DEF SessionInv
<1>1. CASE ServerRecv
  <2>1. /\ server = "recv" /\ server' = "serving"
        /\ UNCHANGED <<client, cmds, heard, heir, served>>
    BY <1>1 DEF ServerRecv, clientVars
  <2>2. /\ request'.id \in Nat /\ served \in Nat /\ cmds \in Nat
        /\ request'.id > 0 => request'.id \in served + 1..cmds
    BY <1>0, <1>1, RequestKeeps, Numbers
  <2>3. CASE request'.id = 0
    BY <2>1, <2>3 DEF Service!vars
  <2>4. CASE request'.id > 0
    <3>1. Service!Take
      BY <2>1, <2>2, <2>4 DEF Service!Take
    <3>2. QED
      BY <3>1 DEF Service!Next
  <2>5. QED
    BY <2>2, <2>3, <2>4
<1>2. CASE ServerHangup
  <2>1. Service!ServerEnds
    BY <1>2 DEF ServerHangup, clientVars, Service!ServerEnds
  <2>2. QED
    BY <2>1 DEF Service!Next
<1>3. CASE Serve \/ ServeExit
  <2>1. /\ server = "serving" /\ server' \in {"recv", "closed", "dead"}
        /\ UNCHANGED <<client, cmds, heard>>
        /\ served' = IF request.id > 0 THEN request.id ELSE served
        /\ request.id \in Nat
    <3>1. clientGone \in {"open", "fin", "reset"} /\ request.id \in Nat
      BY <1>0, Numbers DEF TypeOK, Peer
    <3>2. CASE Serve
      BY <3>1, <3>2 DEF Serve, ServerSend, Executed, clientVars
    <3>3. CASE ServeExit
      BY <3>1, <3>3 DEF ServeExit, ServerSend, Executed, clientVars
    <3>4. QED
      BY <1>3, <3>2, <3>3
  <2>2. heir' \in BOOLEAN
    BY <1>3, ServeKeeps, Zenon DEF SessionInv, TypeOK
  <2>3. CASE request.id > 0
    <3>1. /\ ~ServerGone
          /\ (IF server = "serving" THEN request.id ELSE 0) # 0
          /\ served' = (IF server = "serving" THEN request.id ELSE 0)
          /\ (IF server = "serving" THEN request.id ELSE 0)' = 0
          /\ UNCHANGED <<cmds, heard,
                         IF client = "await" THEN "held" ELSE "free">>
      BY <2>1, <2>3
    <3>2. UNCHANGED Running /\ (~ServerGone)' \in BOOLEAN
      BY <2>1
    <3>3. (~ServerGone \/ heir)' \in {TRUE, (~ServerGone)'}
      <4>1. CASE heir' = TRUE
        BY <4>1
      <4>2. CASE heir' = FALSE
        BY <4>2
      <4>3. QED
        BY <2>2, <4>1, <4>2
    <3>4. Service!Execute
      BY <3>1, <3>2, <3>3 DEF Service!Execute
    <3>5. QED
      BY <3>4 DEF Service!Next
  <2>4. CASE request.id = 0 /\ server' = "recv"
    BY <2>1, <2>4 DEF Service!vars
  <2>5. CASE request.id = 0 /\ server' # "recv"
    <3>1. Service!ServerEnds
      BY <2>1, <2>2, <2>5 DEF Service!ServerEnds
    <3>2. QED
      BY <3>1 DEF Service!Next
  <2>6. QED
    BY <2>1, <2>3, <2>4, <2>5
<1>4. QED
  BY <1>1, <1>2, <1>3 DEF Server

LEMMA WorldSimulated ==
  ASSUME SessionInv, World
  PROVE  Service!Next \/ UNCHANGED Service!vars
<1> USE DEF Running, ServerGone
<1>0. TypeOK /\ cmds \in Nat
  BY Numbers DEF SessionInv
<1>1. ASSUME NEW kind \in Kind, NEW arms \in BOOLEAN, NEW run \in BOOLEAN,
             Enter(kind, arms, run)
      PROVE  Service!Next
  <2>1. /\ client = "loop" /\ client' \in {"await", "killed"}
        /\ cmds' = cmds + 1
        /\ UNCHANGED <<heard, server, request, heir, served>>
    BY <1>1 DEF Enter, ClientSend, serverVars
  <2>2. CASE client' = "await"
    <3>1. Service!Enter
      BY <2>1, <2>2 DEF Service!Enter
    <3>2. QED
      BY <3>1 DEF Service!Next
  <2>3. CASE client' = "killed"
    <3>1. Service!ClientEnds
      BY <2>1, <2>3 DEF Service!ClientEnds
    <3>2. QED
      BY <3>1 DEF Service!Next
  <2>4. QED
    BY <2>1, <2>2, <2>3
<1>2. CASE EnterExit \/ Interrupt
  <2>1. /\ client \in {"loop", "await"}
        /\ client' \in {"leaving", "killed", "closed"}
        /\ cmds' \in {cmds, cmds + 1}
        /\ UNCHANGED <<heard, server, request, heir, served>>
    BY <1>2 DEF EnterExit, Interrupt, ClientSend, serverVars
  <2>2. Service!ClientEnds
    BY <2>1 DEF Service!ClientEnds
  <2>3. QED
    BY <2>2 DEF Service!Next
<1>3. CASE ServerCrash
  <2>1. /\ server # "dead" /\ server' = "dead"
        /\ UNCHANGED <<client, cmds, heard, heir, served, request>>
    BY <1>3 DEF ServerCrash, clientVars
  <2>2. CASE server = "closed"
    BY <2>1, <2>2 DEF Service!vars
  <2>3. CASE server # "closed"
    <3>1. heir \in BOOLEAN
      BY <1>0, Zenon DEF TypeOK
    <3>2. Service!ServerEnds
      BY <2>1, <2>3, <3>1 DEF Service!ServerEnds
    <3>3. QED
      BY <3>2 DEF Service!Next
  <2>4. QED
    BY <2>2, <2>3
<1>4. CASE HeirExit
  <2>1. /\ heir = TRUE /\ heir' = FALSE
        /\ UNCHANGED <<client, cmds, heard, server, served, request>>
    BY <1>4, <1>0 DEF HeirExit, clientVars, TypeOK
  <2>2. CASE server \in {"closed", "dead"}
    <3>1. Service!LetGo
      BY <2>1, <2>2 DEF Service!LetGo
    <3>2. QED
      BY <3>1 DEF Service!Next
  <2>3. CASE server \notin {"closed", "dead"}
    BY <2>1, <2>3 DEF Service!vars
  <2>4. QED
    BY <2>2, <2>3
<1>5. QED
  BY <1>1, <1>2, <1>3, <1>4 DEF World

(* Client, server and connection implement SessionService: commands are    *)
(* executed at most once and in the order they were entered, and answers   *)
(* are read in that order, however requests and answers are merged, split, *)
(* lost or late and whichever side ends first.                             *)
THEOREM SafeRefinement == Spec => Service!SafeSpec
<1>1. Init => Service!Init
  BY DEF Init, Service!Init, Running, ServerGone
<1>2. SessionInv /\ [Next]_vars => [Service!Next]_(Service!vars)
  <2> SUFFICES ASSUME SessionInv, [Next]_vars
               PROVE  Service!Next \/ UNCHANGED Service!vars
    OBVIOUS
  <2>1. CASE UNCHANGED vars
    BY <2>1 DEF vars, Service!vars, Running, ServerGone
  <2>2. QED
    BY <2>1, ClientSimulated, ServerSimulated, WorldSimulated DEF Next
<1>3. QED
  BY <1>1, <1>2, InvAlways, PTL DEF Spec, Service!SafeSpec

-----------------------------------------------------------------------------
(***************************************************************************)
(* The panel's list.  The versions on the way to the client, behind the    *)
(* one it shows, never decrease: whatever recv merges, splits or delays,   *)
(* what it takes next is not older.                                        *)
(***************************************************************************)
EpochOrder(q, low, high) ==
  \A i \in 1..Len(q) :
    /\ low <= q[i].epoch /\ q[i].epoch <= high
    /\ \A j \in 1..Len(q) : i < j => q[i].epoch <= q[j].epoch

LEMMA EpochIsNat ==
  ASSUME NEW q \in Seq(Segment), NEW i \in 1..Len(q)
  PROVE  q[i].epoch \in Nat
<1>1. q[i] \in Segment
  BY ElementOfSeq
<1>2. QED
  BY <1>1, ConstantsAssumption DEF Segment

(* What the server appends is of the newest version.                       *)
LEMMA EpochAppend ==
  ASSUME NEW q \in Seq(Segment), NEW s \in Seq(Segment), NEW low \in Nat,
         NEW high \in Nat, NEW e \in Nat,
         EpochOrder(q, low, high), low <= high, high <= e,
         \A i \in 1..Len(s) : s[i].epoch = e
  PROVE  EpochOrder(q \o s, low, e)
<1> DEFINE r == q \o s
<1>1. /\ Len(r) = Len(q) + Len(s)
      /\ Len(q) \in Nat /\ Len(s) \in Nat
      /\ \A i \in 1..Len(q) + Len(s) :
           r[i] = IF i <= Len(q) THEN q[i] ELSE s[i - Len(q)]
  BY ConcatProperties, LenProperties
<1>2. \A i \in 1..Len(q) : q[i].epoch \in Nat
  BY EpochIsNat
<1> HIDE DEF r
<1>3. \A i \in 1..Len(r) : i > Len(q) => r[i].epoch = e
  BY <1>1
<1>4. ASSUME NEW i \in 1..Len(q)
      PROVE  /\ r[i] = q[i] /\ low <= r[i].epoch /\ r[i].epoch <= e
             /\ r[i].epoch \in Nat
  <2>1. r[i] = q[i]
    BY <1>1
  <2>2. low <= q[i].epoch /\ q[i].epoch <= high /\ q[i].epoch \in Nat
    BY <1>2 DEF EpochOrder
  <2>3. QED
    BY <2>1, <2>2
<1>5. SUFFICES ASSUME NEW i \in 1..Len(r)
               PROVE  /\ low <= r[i].epoch /\ r[i].epoch <= e
                      /\ \A j \in 1..Len(r) : i < j => r[i].epoch <= r[j].epoch
  BY DEF EpochOrder, r
<1>6. low <= r[i].epoch /\ r[i].epoch <= e /\ r[i].epoch \in Nat
  BY <1>1, <1>3, <1>4
<1>7. ASSUME NEW j \in 1..Len(r), i < j PROVE r[i].epoch <= r[j].epoch
  <2>1. CASE j > Len(q)
    BY <1>3, <1>6, <2>1
  <2>2. CASE j \in 1..Len(q)
    <3>1. i \in 1..Len(q)
      BY <1>1, <1>7, <2>2
    <3>2. q[i].epoch <= q[j].epoch
      BY <1>7, <2>2, <3>1 DEF EpochOrder
    <3>3. QED
      BY <1>4, <2>2, <3>1, <3>2
  <2>3. QED
    BY <1>1, <2>1, <2>2
<1>8. QED
  BY <1>6, <1>7

(* What recv leaves is not older than anything it takes.                   *)
LEMMA EpochTaken ==
  ASSUME NEW q \in Seq(Segment), NEW n \in 1..Len(q), NEW low \in Nat,
         NEW high \in Nat, EpochOrder(q, low, high)
  PROVE  LET r == SubSeq(q, n + 1, Len(q))
         IN /\ EpochOrder(r, 0, high) /\ EpochOrder(r, low, high)
            /\ \A k \in 1..n : EpochOrder(r, q[k].epoch, high)
<1> DEFINE r == SubSeq(q, n + 1, Len(q))
<1>1. Len(q) \in Nat /\ n \in 0..Len(q)
  BY LenProperties
<1>2. /\ Len(r) = Len(q) - n
      /\ \A i \in 1..(Len(q) - n) : r[i] = q[n + i]
  BY <1>1, Suffix
<1>3. \A i \in 1..Len(q) : q[i].epoch \in Nat
  BY EpochIsNat
<1> HIDE DEF r
<1>4. ASSUME NEW i \in 1..Len(r)
      PROVE  /\ n + i \in 1..Len(q) /\ r[i] = q[n + i] /\ r[i].epoch \in Nat
             /\ low <= r[i].epoch /\ r[i].epoch <= high
             /\ \A k \in 1..n : q[k].epoch <= r[i].epoch
  <2>1. n + i \in 1..Len(q) /\ r[i] = q[n + i]
    BY <1>1, <1>2
  <2>2. \A k \in 1..n : k \in 1..Len(q) /\ k < n + i
    BY <1>1, <2>1
  <2>3. QED
    BY <1>3, <2>1, <2>2 DEF EpochOrder
<1>5. ASSUME NEW i \in 1..Len(r), NEW j \in 1..Len(r), i < j
      PROVE  r[i].epoch <= r[j].epoch
  <2>1. n + i < n + j
    BY <1>1, <1>2, <1>5
  <2>2. q[n + i].epoch <= q[n + j].epoch
    BY <1>4, <2>1 DEF EpochOrder
  <2>3. QED
    BY <1>4, <2>2
<1>6. EpochOrder(r, 0, high) /\ EpochOrder(r, low, high)
  BY <1>4, <1>5 DEF EpochOrder
<1>7. \A k \in 1..n : EpochOrder(r, q[k].epoch, high)
  BY <1>4, <1>5 DEF EpochOrder
<1>8. QED
  BY <1>6, <1>7 DEF r

(* A whole list has the version of a segment it is made of.                *)
LEMMA ParseEpoch ==
  ASSUME NEW q, shown \in View, Parse(q).whole = TRUE
  PROVE  \E k \in 1..Len(q) : Parse(q).epoch = q[k].epoch
<1>1. {q[i].part : i \in Rows(q)} = 1..Segments
  BY DEF Parse, View
<1>2. \E i \in Rows(q) : q[i].part = 1
  <2>1. 1 \in {q[i].part : i \in Rows(q)}
    BY <1>1, ConstantsAssumption
  <2>2. QED
    BY <2>1
<1> DEFINE c == CHOOSE i \in Rows(q) : q[i].part = 1
<1>3. c \in Rows(q)
  BY <1>2
<1>4. Parse(q).epoch = q[c].epoch
  BY <1>1 DEF Parse, View
<1> HIDE DEF c
<1>5. QED
  BY <1>3, <1>4 DEF Rows

LEMMA AnswerEpoch ==
  ASSUME NEW l \in Line, NEW e \in 0..MaxCmds
  PROVE  \A i \in 1..Len(Answer(l, e)) : Answer(l, e)[i].epoch = e
<1>0. Segments \in Nat \ {0} /\ l.id \in 0..MaxCmds
  BY ConstantsAssumption DEF Line
<1>1. CASE l.kind = "LIST"
  <2>1. Answer(l, e) = [k \in 1..Segments |-> [part |-> k, id |-> l.id, epoch |-> e]]
    BY <1>1 DEF Answer
  <2>2. \A k \in 1..Segments : [part |-> k, id |-> l.id, epoch |-> e] \in Segment
    BY <1>0 DEF Segment
  <2>3. QED
    BY <1>0, <2>1, <2>2
<1>2. CASE l.kind # "LIST"
  BY <1>2 DEF Answer
<1>3. QED
  BY <1>1, <1>2

Bounded(low) == low <= epoch /\ EpochOrder(down, low, epoch)

EpochInv == Bounded(shown.epoch)

(* A new answer.                                                           *)
LEMMA ServeEpochs ==
  ASSUME SessionInv, NEW low \in Nat, Bounded(low), Serve \/ ServeExit
  PROVE  Bounded(low)' /\ shown' = shown
<1>1. /\ epoch \in Nat /\ request \in Line
      /\ down \in Seq(Segment) /\ epoch \in 0..MaxCmds
  BY ConstantsAssumption DEF SessionInv, TypeOK
<1>2. /\ epoch' \in {epoch, epoch + 1} /\ shown' = shown
      /\ \E next \in {"recv", "closed"} : ServerSend(Answer(request, epoch'), next)
  BY DEF Serve, ServeExit, clientVars
<1>3. epoch' \in Nat /\ epoch <= epoch'
  BY <1>1, <1>2
<1>4. epoch' \in 0..MaxCmds
  BY ServeKeeps DEF SessionInv, TypeOK
<1>5. /\ Answer(request, epoch') \in Seq(Segment)
      /\ \A i \in 1..Len(Answer(request, epoch')) :
           Answer(request, epoch')[i].epoch = epoch'
  BY <1>1, <1>4, AnswerType, AnswerEpoch
<1>6. EpochOrder(down \o Answer(request, epoch'), low, epoch')
  BY <1>1, <1>3, <1>5, EpochAppend DEF Bounded
<1>7. EpochOrder(down, low, epoch')
  <2>1. \A i \in 1..Len(down) : down[i].epoch \in Nat
    BY <1>1, EpochIsNat
  <2>2. QED
    BY <1>1, <1>3, <2>1 DEF Bounded, EpochOrder
<1>8. down' \in {down, down \o Answer(request, epoch')}
  <2>1. clientGone \in {"open", "fin", "reset"}
    BY DEF SessionInv, TypeOK, Peer
  <2>2. QED
    BY <1>2, <2>1 DEF ServerSend
<1>9. EpochOrder(down', low, epoch')
  BY <1>6, <1>7, <1>8
<1>10. low <= epoch'
  BY <1>1, <1>3 DEF Bounded
<1>11. QED
  BY <1>2, <1>9, <1>10 DEF Bounded

(* What a recv takes and what it leaves.                                   *)
LEMMA ReceiveEpochs ==
  ASSUME SessionInv, NEW low \in Nat, Bounded(low), AwaitAnswer \/ Poll
  PROVE  /\ Bounded(low)'
         /\ \/ shown'.epoch = shown.epoch
            \/ low <= shown'.epoch /\ Bounded(shown.epoch)'
<1>1. PICK n \in 1..Len(down) :
        Receive(n) /\ shown' \in {shown, Parse(SubSeq(down, 1, n))}
  BY DEF AwaitAnswer, Poll
<1>2. /\ down' = SubSeq(down, n + 1, Len(down)) /\ epoch' = epoch
      /\ down \in Seq(Segment)
  BY <1>1 DEF Receive, AwaitAnswer, Poll, serverVars, SessionInv, TypeOK
<1>3. /\ epoch \in Nat /\ low <= epoch
      /\ EpochOrder(down, low, epoch)
      /\ shown' \in View
  BY ConstantsAssumption, AnswerKeeps DEF SessionInv, Bounded, TypeOK
<1>4. /\ EpochOrder(down', low, epoch)
      /\ \A k \in 1..n : EpochOrder(down', down[k].epoch, epoch)
  BY <1>2, <1>3, EpochTaken
<1>5. Bounded(low)'
  BY <1>2, <1>3, <1>4 DEF Bounded
<1>6. ASSUME shown' = Parse(SubSeq(down, 1, n)), shown'.whole = TRUE
      PROVE  low <= shown'.epoch /\ Bounded(shown.epoch)'
  <2>1. /\ Len(SubSeq(down, 1, n)) = n
        /\ \A i \in 1..n : SubSeq(down, 1, n)[i] = down[i]
    <3>1. n \in 0..Len(down)
      BY <1>2, LenProperties
    <3>2. QED
      BY <1>2, <3>1, Prefix
  <2>2. PICK k \in 1..n : shown'.epoch = down[k].epoch
    BY <1>6, <2>1, ParseEpoch DEF SessionInv, TypeOK
  <2>3. k \in 1..Len(down)
    BY <1>2, LenProperties
  <2>4. low <= down[k].epoch /\ down[k].epoch <= epoch
    BY <1>3, <2>3 DEF EpochOrder
  <2>5. EpochOrder(down', shown'.epoch, epoch')
    BY <1>2, <1>4, <2>2
  <2>6. QED
    BY <1>2, <2>2, <2>4, <2>5 DEF Bounded
<1>7. CASE shown' = Parse(SubSeq(down, 1, n)) /\ shown'.whole = FALSE
  <2>1. shown' = [shown EXCEPT !.whole = FALSE]
    BY <1>7 DEF Parse
  <2>2. QED
    BY <1>5, <2>1 DEF SessionInv, TypeOK, View
<1>8. QED
  BY <1>1, <1>3, <1>5, <1>6, <1>7 DEF View

(* The other steps.                                                        *)
LEMMA EpochFrame ==
  ASSUME [Next]_vars, ~Serve, ~ServeExit, ~AwaitAnswer, ~Poll
  PROVE  UNCHANGED <<shown, down, epoch>>
BY DEF Next, Client, Server, World, AwaitTimeout, AwaitLost, PollLost,
       PollInterrupted, RefreshDeferred, RefreshPeriodic, Shutdown, Killed,
       ServerRecv, ServerHangup, Enter, EnterExit, Interrupt, ServerCrash,
       HeirExit, vars, clientVars, serverVars, net

LEMMA EpochStep ==
  ASSUME SessionInv, EpochInv, [Next]_vars
  PROVE  EpochInv' /\ shown.epoch <= shown'.epoch
<1>1. PICK low \in Nat : low = shown.epoch
  BY ConstantsAssumption DEF SessionInv, TypeOK, View
<1>2. Bounded(low)
  BY <1>1 DEF EpochInv
<1>3. CASE AwaitAnswer \/ Poll
  <2>1. /\ Bounded(low)'
        /\ \/ shown'.epoch = low
           \/ low <= shown'.epoch /\ Bounded(shown.epoch)'
    BY <1>1, <1>2, <1>3, ReceiveEpochs
  <2>2. QED
    BY <1>1, <2>1 DEF EpochInv
<1>4. CASE Serve \/ ServeExit
  <2>1. Bounded(low)' /\ shown' = shown
    BY <1>2, <1>4, ServeEpochs
  <2>2. QED
    BY <1>1, <2>1 DEF EpochInv
<1>5. CASE UNCHANGED <<shown, down, epoch>>
  BY <1>1, <1>5 DEF EpochInv, Bounded, EpochOrder
<1>6. QED
  BY <1>3, <1>4, <1>5, EpochFrame

(* However late an answer comes and for whatever it is taken, once the     *)
(* panel has shown the whole list of one version of the process table, it  *)
(* shows no older one.                                                     *)
THEOREM ListGoesForward == Spec => ListNeverGoesBack
<1>1. Init => EpochInv
  BY DEF Init, EpochInv, Bounded, EpochOrder
<1>2. SessionInv /\ EpochInv /\ [Next]_vars
        => EpochInv' /\ [shown.epoch <= shown'.epoch]_vars
  BY EpochStep
<1>3. QED
  BY <1>1, <1>2, InvAlways, PTL DEF Spec, ListNeverGoesBack

-----------------------------------------------------------------------------
(***************************************************************************)
(* How the two ends learn of each other's end.                             *)
(***************************************************************************)
(* The client's kernel is told of the server's end exactly when the thread *)
(* has closed its socket (or the process is gone) and every started        *)
(* process that inherited a copy has ended: while one lives the client     *)
(* cannot know, and once none does nothing is left to wait for.            *)
EndTold == serverGone # "open" <=> ServerGone /\ ~heir

THEOREM EndIsTold == Spec => []EndTold
<1>1. Init => EndTold
  BY DEF Init, EndTold, ServerGone
<1>2. SessionInv /\ EndTold /\ [Next]_vars => EndTold'
  <2> SUFFICES ASSUME SessionInv, EndTold, [Next]_vars PROVE EndTold'
    OBVIOUS
  <2> USE DEF EndTold, ServerGone
  <2>1. /\ heir \in BOOLEAN /\ server \in {"recv", "serving", "closed", "dead"}
        /\ clientGone \in {"open", "fin", "reset"}
        /\ serverGone \in {"open", "fin", "reset"}
    BY Zenon DEF SessionInv, TypeOK, Peer
  <2>2. CASE Serve \/ ServeExit
    <3>1. server = "serving" /\ serverGone = "open"
      BY <2>1, <2>2 DEF Serve, ServeExit
    <3>2. CASE ServeExit
      <4>1. server' \in {"closed", "dead"} /\ heir' = heir
        BY <2>1, <3>2 DEF ServeExit, ServerSend
      <4>2. serverGone' = IF heir THEN serverGone ELSE "fin"
        BY <3>2 DEF ServeExit
      <4>3. QED
        BY <2>1, <3>1, <4>1, <4>2
    <3>3. CASE Serve
      <4>1. server' \in {"recv", "dead"}
        BY <2>1, <3>3 DEF Serve, ServerSend
      <4>2. serverGone' = IF server' = "dead" /\ ~heir' THEN "fin" ELSE serverGone
        BY <3>3 DEF Serve
      <4>3. QED
        BY <3>1, <4>1, <4>2
    <3>4. QED
      BY <2>2, <3>2, <3>3
  <2>3. CASE ServerRecv \/ ServerHangup \/ ServerCrash \/ HeirExit
    BY <2>1, <2>3 DEF ServerRecv, ServerHangup, ServerCrash, HeirExit
  <2>4. ASSUME NEW line, NEW next, ClientSend(line, next), UNCHANGED serverVars
        PROVE  EndTold'
    BY <2>1, <2>4 DEF ClientSend, serverVars
  <2>5. ASSUME NEW kind \in Kind, NEW arms \in BOOLEAN, NEW run \in BOOLEAN,
               Enter(kind, arms, run)
        PROVE  EndTold'
    <3>1. ClientSend([kind |-> kind, id |-> cmds'], "await") /\ UNCHANGED serverVars
      BY <2>5 DEF Enter
    <3>2. QED
      BY <2>4, <3>1
  <2>6. CASE EnterExit
    <3>1. ClientSend([kind |-> "EXIT", id |-> cmds'], "leaving") /\ UNCHANGED serverVars
      BY <2>6 DEF EnterExit
    <3>2. QED
      BY <2>4, <3>1
  <2>7. CASE RefreshDeferred \/ RefreshPeriodic
    <3>1. ClientSend(AutoList, "loop") /\ UNCHANGED serverVars
      BY <2>7 DEF RefreshDeferred, RefreshPeriodic
    <3>2. QED
      BY <2>4, <3>1
  <2>8. CASE \/ AwaitAnswer \/ AwaitTimeout \/ AwaitLost
             \/ Poll \/ PollLost \/ PollInterrupted
             \/ Shutdown \/ Killed \/ Interrupt \/ UNCHANGED vars
    <3>1. UNCHANGED <<server, heir, serverGone>>
      BY <2>8 DEF AwaitAnswer, AwaitTimeout, AwaitLost, Poll, PollLost,
                  PollInterrupted, Receive, Shutdown, Killed, Interrupt, vars,
                  serverVars, net
    <3>2. QED
      BY <3>1
  <2>9. QED
    BY <2>2, <2>3, <2>5, <2>6, <2>7, <2>8 DEF Next, Client, Server, World
<1>3. QED
  BY <1>1, <1>2, InvAlways, PTL DEF Spec

(***************************************************************************)
(* Which clients can kill the server.                                      *)
(***************************************************************************)
(* Requests the server has not answered yet.                               *)
Unanswered == Len(up) + (IF server = "serving" THEN 1 ELSE 0)

(* A client that ends, in whatever way, leaves at most one behind.         *)
LeavesOne == [][Running /\ ~Running' => Unanswered' <= 1]_vars

(* The one answer to a client that has gone may be answered by its reset;  *)
(* then nothing is left to send.                                           *)
NothingToReset ==
  /\ ServerSurvives
  /\ ~Running => Unanswered <= 1
  /\ clientGone # "open" => ~Running
  /\ clientGone = "reset" => Unanswered = 0

LEMMA UnansweredIsNat == SessionInv => Len(up) \in Nat /\ Unanswered \in Nat
BY LenProperties DEF SessionInv, TypeOK, Unanswered

(* Steps of the client.                                                    *)
LEMMA ClientLeavesOne ==
  ASSUME SessionInv, NothingToReset, Running /\ ~Running' => Unanswered' <= 1,
         UNCHANGED <<server, clientGone>>, ~Running => UNCHANGED <<client, up>>,
         clientGone # "open" => UNCHANGED <<client, up>>
  PROVE  NothingToReset'
<1>1. ServerSurvives'
  BY DEF NothingToReset, ServerSurvives
<1>2. CASE UNCHANGED <<client, up>>
  BY <1>1, <1>2 DEF NothingToReset, Unanswered, Running
<1>3. CASE Running /\ clientGone = "open"
  BY <1>1, <1>3 DEF NothingToReset
<1>4. QED
  BY <1>2, <1>3

(* Steps of the server: each takes a line, or answers the one it took.     *)
LEMMA ServerLeavesOne ==
  ASSUME SessionInv, NothingToReset, Server
  PROVE  NothingToReset'
<1>1. /\ Len(up) \in Nat /\ UNCHANGED client
      /\ clientGone \in {"open", "fin", "reset"}
  <2>1. UNCHANGED client
    BY DEF Server, ServerRecv, ServerHangup, Serve, ServeExit, clientVars
  <2>2. QED
    BY <2>1, UnansweredIsNat DEF SessionInv, TypeOK, Peer
<1>2. UNCHANGED Running
  BY <1>1 DEF Running
<1>3. CASE ServerRecv
  <2>1. PICK n \in 1..Len(up) : up' = SubSeq(up, n + 1, Len(up))
    BY <1>3 DEF ServerRecv
  <2>2. Len(up') = Len(up) - n
    BY <2>1, Suffix DEF SessionInv, TypeOK
  <2>3. server = "recv" /\ server' = "serving" /\ UNCHANGED clientGone
    BY <1>3 DEF ServerRecv
  <2>4. Unanswered' <= Unanswered /\ Unanswered # 0
    BY <1>1, <2>1, <2>2, <2>3 DEF Unanswered
  <2>5. Unanswered \in Nat /\ Unanswered' \in Int
    BY <1>1, <2>1, <2>2 DEF Unanswered
  <2>6. QED
    BY <1>2, <2>3, <2>4, <2>5 DEF NothingToReset, ServerSurvives
<1>4. CASE ServerHangup
  BY <1>1, <1>2, <1>4 DEF ServerHangup, NothingToReset, ServerSurvives, Unanswered
<1>5. CASE Serve \/ ServeExit
  <2>1. server = "serving" /\ UNCHANGED up
    BY <1>5 DEF Serve, ServeExit
  <2>2. Unanswered = Len(up) + 1 /\ Unanswered # 0
    BY <1>1, <2>1 DEF Unanswered
  <2>3. clientGone \in {"open", "fin"}
    BY <1>1, <2>2 DEF NothingToReset
  <2>4. server' \in {"recv", "closed"}
    BY <1>5, <2>3 DEF Serve, ServeExit, ServerSend
  <2>5. Unanswered' = Len(up)
    BY <1>1, <2>1, <2>4 DEF Unanswered
  <2>6. CASE clientGone = "open"
    <3>1. clientGone' = "open"
      BY <1>5, <2>6 DEF Serve, ServeExit, ServerSend
    <3>2. QED
      BY <1>1, <1>2, <2>2, <2>4, <2>5, <3>1 DEF NothingToReset, ServerSurvives
  <2>7. CASE clientGone = "fin"
    <3>1. ~Running /\ Len(up) = 0
      BY <1>1, <2>2, <2>7 DEF NothingToReset
    <3>2. QED
      BY <1>2, <2>4, <2>5, <3>1 DEF NothingToReset, ServerSurvives
  <2>8. QED
    BY <2>3, <2>6, <2>7
<1>6. QED
  BY <1>3, <1>4, <1>5 DEF Server

(* A client that sends no second request before the first is answered, or  *)
(* at least leaves with no more than one unanswered, cannot kill the       *)
(* server: not by EXIT, Ctrl+C, its own SIGPIPE or a lost connection, with *)
(* whatever timers, timeouts and late answers before.  ServerSurvives,     *)
(* violated in general, then holds.                                        *)
THEOREM OneRequestIsSafe ==
  ASSUME Crash = FALSE
  PROVE  Spec /\ LeavesOne => []ServerSurvives
<1>1. Init => NothingToReset
  BY DEF Init, NothingToReset, ServerSurvives, Running
<1>2. ASSUME SessionInv, NothingToReset, [Next]_vars,
             [Running /\ ~Running' => Unanswered' <= 1]_vars
      PROVE  NothingToReset'
  <2>1. CASE UNCHANGED vars
    BY <1>2, <2>1
       DEF vars, NothingToReset, ServerSurvives, Running, Unanswered
  <2>2. CASE Server
    BY <1>2, <2>2, ServerLeavesOne
  <2>3. CASE ~UNCHANGED vars /\ (Client \/ World)
    <3>1. Running /\ ~Running' => Unanswered' <= 1
      BY <1>2, <2>3
    <3>2. CASE Shutdown \/ Killed
      <4>1. UNCHANGED <<server, up>> /\ ~Running /\ ~Running'
        BY <3>2 DEF Shutdown, Killed, clientVars, serverVars, Running
      <4>2. clientGone' = "fin"
        BY <3>2 DEF Shutdown, Killed
      <4>3. QED
        BY <1>2, <4>1, <4>2 DEF NothingToReset, ServerSurvives, Unanswered
    <3>3. CASE Interrupt
      <4>1. UNCHANGED <<server, up>> /\ Running /\ ~Running' /\ clientGone' = "fin"
        BY <3>3 DEF Interrupt, serverVars, Running
      <4>2. QED
        BY <1>2, <3>1, <4>1 DEF NothingToReset, ServerSurvives
    <3>4. CASE \/ AwaitAnswer \/ AwaitTimeout \/ AwaitLost
               \/ Poll \/ PollLost \/ PollInterrupted
               \/ RefreshDeferred \/ RefreshPeriodic \/ EnterExit
               \/ \E kind \in Kind, arms, run \in BOOLEAN : Enter(kind, arms, run)
      <4>1. Running /\ UNCHANGED <<server, clientGone>>
        BY <3>4 DEF AwaitAnswer, AwaitTimeout, AwaitLost, Poll, PollLost,
                    PollInterrupted, RefreshDeferred, RefreshPeriodic,
                    EnterExit, Enter, Receive, serverVars, net, Running
      <4>2. clientGone = "open"
        BY <1>2, <4>1 DEF NothingToReset
      <4>3. QED
        BY <1>2, <3>1, <4>1, <4>2, ClientLeavesOne
    <3>5. CASE ServerCrash \/ HeirExit
      <4>1. UNCHANGED <<client, up, server, clientGone>>
        BY <3>5 DEF ServerCrash, HeirExit, clientVars
      <4>2. QED
        BY <1>2, <4>1 DEF NothingToReset, ServerSurvives, Unanswered, Running
    <3>6. QED
      BY <2>3, <3>2, <3>3, <3>4, <3>5 DEF Client, World
  <2>4. QED
    BY <1>2, <2>1, <2>2, <2>3 DEF Next
<1>3. NothingToReset => ServerSurvives
  BY DEF NothingToReset
<1>4. QED
  BY <1>1, <1>2, <1>3, InvAlways, PTL DEF Spec, LeavesOne
=============================================================================
