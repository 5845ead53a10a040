---------------------------- MODULE RunnerSyncProofs ---------------------------
(***************************************************************************)
(* Proofs about RunnerSync, for any runners, page sizes, number of epochs, *)
(* failures and restarts: the types, that a list read page by page while   *)
(* it shifts lacks nobody who was there all the time, and that it is a     *)
(* listing as RunnerListing has it.                                        *)
(***************************************************************************)
EXTENDS RunnerSync, TLAPS, SequenceTheorems

-------------------------------------------------------------------------------
(* Sequences, and what is behind a position *)

After(s, b) == {s[k] : k \in {m \in DOMAIN s : m > b}}

Injective(s) == \A j, k \in DOMAIN s : s[j] = s[k] => j = k

(* The sequence with an element inserted, position by position. *)
LEMMA InsertAtPositions ==
  ASSUME NEW S, NEW s \in Seq(S), NEW e \in S, NEW k \in 1..(Len(s) + 1)
  PROVE  /\ InsertAt(s, k, e) \in Seq(S)
         /\ Len(InsertAt(s, k, e)) = Len(s) + 1
         /\ \A m \in 1..(Len(s) + 1) :
              InsertAt(s, k, e)[m] = IF m < k THEN s[m] ELSE IF m = k THEN e ELSE s[m - 1]
<1> DEFINE a == SubSeq(s, 1, k - 1)
           b == SubSeq(s, k, Len(s))
           c == a \o <<e>>
<1>1. Len(s) \in Nat /\ k \in Nat /\ k > 0 /\ \A i \in 1..Len(s) : s[i] \in S
  BY LenProperties, ElementOfSeq
<1>2. a \in Seq(S) /\ Len(a) = k - 1 /\ \A i \in 1..(k - 1) : a[i] = s[i]
  BY <1>1, SubSeqProperties
<1>3. b \in Seq(S) /\ Len(b) = Len(s) - k + 1 /\ \A i \in 1..(Len(s) - k + 1) : b[i] = s[k + i - 1]
  BY <1>1, SubSeqProperties
<1>4. <<e>> \in Seq(S) /\ Len(<<e>>) = 1 /\ <<e>>[1] = e
  OBVIOUS
<1> HIDE DEF a, b
<1>5. c \in Seq(S) /\ Len(c) = k /\ (\A i \in 1..(k - 1) : c[i] = s[i]) /\ c[k] = e
  BY <1>1, <1>2, <1>4, ConcatProperties
<1> HIDE DEF c
<1>6. /\ c \o b \in Seq(S) /\ Len(c \o b) = Len(s) + 1
      /\ \A i \in 1..(Len(s) + 1) : (c \o b)[i] = IF i <= k THEN c[i] ELSE b[i - k]
  <2>1. Len(c) + Len(b) = Len(s) + 1
    BY <1>1, <1>3, <1>5
  <2>2. /\ c \o b \in Seq(S) /\ Len(c \o b) = Len(c) + Len(b)
        /\ \A i \in 1..(Len(c) + Len(b)) :
             (c \o b)[i] = IF i <= Len(c) THEN c[i] ELSE b[i - Len(c)]
    BY <1>3, <1>5, ConcatProperties
  <2> QED
    BY <2>1, <2>2, <1>5
<1>7. ASSUME NEW m \in 1..(Len(s) + 1)
      PROVE  (c \o b)[m] = IF m < k THEN s[m] ELSE IF m = k THEN e ELSE s[m - 1]
  <2>1. CASE m <= k
    BY <2>1, <1>1, <1>5, <1>6
  <2>2. CASE m > k
    <3>1. m - k \in 1..(Len(s) - k + 1) /\ k + (m - k) - 1 = m - 1
      BY <2>2, <1>1
    <3> QED
      BY <2>2, <3>1, <1>1, <1>3, <1>6
  <2>3. m <= k \/ m > k
    BY <1>1
  <2> QED
    BY <2>1, <2>2, <2>3, Zenon
<1>8. InsertAt(s, k, e) = c \o b
  BY DEF InsertAt, a, b, c
<1> QED
  BY <1>6, <1>7, <1>8

(* The same for one position. *)
LEMMA InsertAtPosition ==
  ASSUME NEW S, NEW s \in Seq(S), NEW e \in S, NEW k \in 1..(Len(s) + 1),
         NEW m \in 1..(Len(s) + 1)
  PROVE  InsertAt(s, k, e)[m] = IF m < k THEN s[m] ELSE IF m = k THEN e ELSE s[m - 1]
  BY InsertAtPositions

(* The same with one removed. *)
LEMMA RemoveAtPositions ==
  ASSUME NEW S, NEW s \in Seq(S), NEW k \in 1..Len(s)
  PROVE  /\ RemoveAt(s, k) \in Seq(S)
         /\ Len(RemoveAt(s, k)) = Len(s) - 1
         /\ \A m \in 1..(Len(s) - 1) :
              RemoveAt(s, k)[m] = IF m < k THEN s[m] ELSE s[m + 1]
<1> DEFINE a == SubSeq(s, 1, k - 1)
           b == SubSeq(s, k + 1, Len(s))
<1>1. Len(s) \in Nat /\ k \in Nat /\ k > 0 /\ \A i \in 1..Len(s) : s[i] \in S
  BY LenProperties, ElementOfSeq
<1>2. a \in Seq(S) /\ Len(a) = k - 1 /\ \A i \in 1..(k - 1) : a[i] = s[i]
  BY <1>1, SubSeqProperties
<1>3. b \in Seq(S) /\ Len(b) = Len(s) - k /\ \A i \in 1..(Len(s) - k) : b[i] = s[k + 1 + i - 1]
  BY <1>1, SubSeqProperties
<1> HIDE DEF a, b
<1>4. /\ a \o b \in Seq(S) /\ Len(a \o b) = Len(s) - 1
      /\ \A i \in 1..(Len(s) - 1) : (a \o b)[i] = IF i <= k - 1 THEN a[i] ELSE b[i - (k - 1)]
  <2>1. Len(a) + Len(b) = Len(s) - 1
    BY <1>1, <1>2, <1>3
  <2>2. /\ a \o b \in Seq(S) /\ Len(a \o b) = Len(a) + Len(b)
        /\ \A i \in 1..(Len(a) + Len(b)) :
             (a \o b)[i] = IF i <= Len(a) THEN a[i] ELSE b[i - Len(a)]
    BY <1>2, <1>3, ConcatProperties
  <2> QED
    BY <2>1, <2>2, <1>2
<1>5. ASSUME NEW m \in 1..(Len(s) - 1)
      PROVE  (a \o b)[m] = IF m < k THEN s[m] ELSE s[m + 1]
  <2>1. CASE m < k
    BY <2>1, <1>1, <1>2, <1>4
  <2>2. CASE m >= k
    <3>1. m - (k - 1) \in 1..(Len(s) - k) /\ k + 1 + (m - (k - 1)) - 1 = m + 1
      BY <2>2, <1>1
    <3>2. (a \o b)[m] = b[m - (k - 1)]
      BY <2>2, <1>1, <1>4
    <3>3. b[m - (k - 1)] = s[k + 1 + (m - (k - 1)) - 1]
      BY <3>1, <1>3
    <3>4. ~ (m < k)
      BY <2>2, <1>1
    <3> QED
      BY <3>1, <3>2, <3>3, <3>4, Zenon
  <2>3. m < k \/ m >= k
    BY <1>1
  <2> QED
    BY <2>1, <2>2, <2>3, Zenon
<1>6. RemoveAt(s, k) = a \o b
  BY DEF RemoveAt, a, b
<1> QED
  BY <1>4, <1>5, <1>6

(* Who comes in before a position shifts one element behind it. *)
LEMMA InsertAtSets ==
  ASSUME NEW S, NEW s \in Seq(S), NEW e \in S, NEW k \in 1..(Len(s) + 1), NEW b \in Nat
  PROVE  /\ ToSet(InsertAt(s, k, e)) = ToSet(s) \cup {e}
         /\ k > b => After(InsertAt(s, k, e), b) = After(s, b) \cup {e}
         /\ k <= b /\ b <= Len(s) =>
              After(InsertAt(s, k, e), b) = After(s, b) \cup {s[b]} /\ s[b] \in ToSet(s)
         /\ k <= b /\ b > Len(s) => After(InsertAt(s, k, e), b) = After(s, b)
<1> DEFINE t == InsertAt(s, k, e)
           n == Len(s)
<1>1. n \in Nat /\ k \in Nat /\ DOMAIN s = 1..n
  BY LenProperties
<1>2. /\ DOMAIN t = 1..(n + 1)
      /\ \A m \in 1..(n + 1) : t[m] = IF m < k THEN s[m] ELSE IF m = k THEN e ELSE s[m - 1]
  <2>1. t \in Seq(S)
    BY InsertAtPositions
  <2>2. Len(t) = n + 1
    BY InsertAtPositions
  <2>3. \A m \in 1..(n + 1) : t[m] = IF m < k THEN s[m] ELSE IF m = k THEN e ELSE s[m - 1]
    <3> TAKE m \in 1..(n + 1)
    <3> QED
      BY InsertAtPosition
  <2> QED
    BY <2>1, <2>2, <2>3, LenProperties
<1>3. \A m \in 1..n : (m < k => t[m] = s[m]) /\ (m >= k => t[m + 1] = s[m])
  BY <1>1, <1>2
<1>4. t[k] = e
  BY <1>1, <1>2
<1> HIDE DEF t, n
<1>5. ToSet(t) = ToSet(s) \cup {e}
  <2>1. ASSUME NEW x \in ToSet(t) PROVE x \in ToSet(s) \cup {e}
    <3>1. PICK m \in 1..(n + 1) : x = t[m]
      BY <1>2 DEF ToSet
    <3> QED
      BY <3>1, <1>1, <1>2 DEF ToSet
  <2>2. ASSUME NEW x \in ToSet(s) \cup {e} PROVE x \in ToSet(t)
    <3>1. CASE x = e
      BY <3>1, <1>1, <1>2, <1>4 DEF ToSet
    <3>2. CASE x \in ToSet(s)
      <4>1. PICK m \in 1..n : x = s[m]
        BY <3>2, <1>1 DEF ToSet
      <4>2. PICK i \in 1..(n + 1) : x = t[i]
        BY <4>1, <1>1, <1>3
      <4> QED
        BY <4>2, <1>2 DEF ToSet
    <3> QED
      BY <3>1, <3>2
  <2> QED
    BY <2>1, <2>2
<1>6. ASSUME k > b PROVE After(t, b) = After(s, b) \cup {e}
  <2>1. ASSUME NEW x \in After(t, b) PROVE x \in After(s, b) \cup {e}
    <3>1. PICK m \in 1..(n + 1) : x = t[m] /\ m > b
      BY <1>2 DEF After
    <3>2. CASE m < k
      BY <3>1, <3>2, <1>1, <1>2 DEF After
    <3>3. CASE m = k
      BY <3>1, <3>3, <1>2
    <3>4. CASE m > k
      <4>1. m - 1 \in 1..n /\ m - 1 > b /\ x = s[m - 1]
        BY <3>1, <3>4, <1>1, <1>2, <1>6
      <4> QED
        BY <4>1, <1>1 DEF After
    <3>5. m < k \/ m = k \/ m > k
      BY <1>1
    <3> QED
      BY <3>2, <3>3, <3>4, <3>5
  <2>2. ASSUME NEW x \in After(s, b) \cup {e} PROVE x \in After(t, b)
    <3>1. CASE x = e
      <4>1. k \in DOMAIN t
        BY <1>1, <1>2
      <4> QED
        BY <3>1, <4>1, <1>4, <1>6, Zenon DEF After
    <3>2. CASE x \in After(s, b)
      <4>1. PICK m \in 1..n : x = s[m] /\ m > b
        BY <3>2, <1>1 DEF After
      <4>2. m < k \/ m >= k
        BY <4>1, <1>1
      <4>3. PICK i \in 1..(n + 1) : x = t[i] /\ i > b
        BY <4>1, <4>2, <1>1, <1>3
      <4> QED
        BY <4>3, <1>2 DEF After
    <3> QED
      BY <3>1, <3>2
  <2> QED
    BY <2>1, <2>2
<1>7. ASSUME k <= b PROVE After(t, b) = {s[m] : m \in {i \in 1..n : i >= b}}
  <2>1. ASSUME NEW x \in After(t, b) PROVE \E m \in 1..n : m >= b /\ x = s[m]
    <3>1. PICK m \in 1..(n + 1) : x = t[m] /\ m > b
      BY <1>2 DEF After
    <3>2. m - 1 \in 1..n /\ m - 1 >= b /\ x = s[m - 1]
      BY <3>1, <1>1, <1>2, <1>7
    <3> QED
      BY <3>2
  <2>2. ASSUME NEW m \in 1..n, m >= b PROVE s[m] \in After(t, b)
    <3>1. m + 1 \in 1..(n + 1) /\ m + 1 > b /\ t[m + 1] = s[m]
      BY <2>2, <1>1, <1>3, <1>7
    <3> QED
      BY <3>1, <1>2 DEF After
  <2> QED
    BY <2>1, <2>2
<1>8. ASSUME k <= b, b <= n PROVE After(t, b) = After(s, b) \cup {s[b]} /\ s[b] \in ToSet(s)
  <2>1. b \in 1..n
    BY <1>1, <1>8
  <2>2. {i \in 1..n : i >= b} = {i \in 1..n : i > b} \cup {b}
    BY <2>1, <1>1
  <2>3. After(t, b) = {s[m] : m \in {i \in 1..n : i > b}} \cup {s[b]}
    BY <2>2, <1>7, <1>8
  <2> QED
    BY <2>1, <2>3, <1>1 DEF After, ToSet
<1>9. ASSUME k <= b, b > n PROVE After(t, b) = After(s, b)
  BY <1>1, <1>7, <1>9 DEF After
<1> QED
  BY <1>5, <1>6, <1>8, <1>9 DEF t, n

(* Who leaves before a position takes one element out of sight. *)
LEMMA RemoveAtSets ==
  ASSUME NEW S, NEW s \in Seq(S), NEW k \in 1..Len(s), NEW b \in Nat, Injective(s)
  PROVE  /\ ToSet(RemoveAt(s, k)) = ToSet(s) \ {s[k]}
         /\ k > b => After(RemoveAt(s, k), b) = After(s, b) \ {s[k]}
         /\ k <= b => s[k] \notin After(s, b)
         /\ k <= b /\ b < Len(s) =>
              After(RemoveAt(s, k), b) = After(s, b) \ {s[b + 1]} /\ s[b + 1] \in After(s, b)
         /\ k <= b /\ b >= Len(s) => After(RemoveAt(s, k), b) = After(s, b)
<1> DEFINE t == RemoveAt(s, k)
           n == Len(s)
<1>1. n \in Nat /\ k \in Nat /\ DOMAIN s = 1..n
  BY LenProperties
<1>2. /\ DOMAIN t = 1..(n - 1)
      /\ \A m \in 1..(n - 1) : t[m] = IF m < k THEN s[m] ELSE s[m + 1]
  BY RemoveAtPositions, LenProperties
<1>3. \A m \in 1..n : (m < k => m \in 1..(n - 1) /\ t[m] = s[m])
                      /\ (m > k => m - 1 \in 1..(n - 1) /\ t[m - 1] = s[m])
  BY <1>1, <1>2
<1>4. \A i, j \in 1..n : s[i] = s[j] => i = j
  BY <1>1 DEF Injective
<1> HIDE DEF t, n
<1>5. ToSet(t) = ToSet(s) \ {s[k]}
  <2>1. ASSUME NEW x \in ToSet(t) PROVE x \in ToSet(s) \ {s[k]}
    <3>1. PICK m \in 1..(n - 1) : x = t[m]
      BY <1>2 DEF ToSet
    <3>2. PICK i \in 1..n : i # k /\ x = s[i]
      BY <3>1, <1>1, <1>2
    <3> QED
      BY <3>2, <1>1, <1>4 DEF ToSet, n
  <2>2. ASSUME NEW x \in ToSet(s) \ {s[k]} PROVE x \in ToSet(t)
    <3>1. PICK m \in 1..n : x = s[m] /\ m # k
      BY <1>1 DEF ToSet
    <3>2. PICK i \in 1..(n - 1) : x = t[i]
      BY <3>1, <1>1, <1>3
    <3> QED
      BY <3>2, <1>2 DEF ToSet
  <2> QED
    BY <2>1, <2>2
<1>6. ASSUME k > b PROVE After(t, b) = After(s, b) \ {s[k]}
  <2>1. ASSUME NEW x \in After(t, b) PROVE x \in After(s, b) \ {s[k]}
    <3>1. PICK m \in 1..(n - 1) : x = t[m] /\ m > b
      BY <1>2 DEF After
    <3>2. PICK i \in 1..n : i # k /\ x = s[i] /\ i > b
      BY <3>1, <1>1, <1>2
    <3> QED
      BY <3>2, <1>1, <1>4 DEF After, n
  <2>2. ASSUME NEW x \in After(s, b) \ {s[k]} PROVE x \in After(t, b)
    <3>1. PICK m \in 1..n : x = s[m] /\ m # k /\ m > b
      BY <1>1 DEF After
    <3>2. PICK i \in 1..(n - 1) : x = t[i] /\ i > b
      BY <3>1, <1>1, <1>3, <1>6
    <3> QED
      BY <3>2, <1>2 DEF After
  <2> QED
    BY <2>1, <2>2
<1>7. ASSUME k <= b PROVE After(t, b) = {s[m] : m \in {i \in 1..n : i > b + 1}}
  <2>1. ASSUME NEW x \in After(t, b) PROVE \E m \in 1..n : m > b + 1 /\ x = s[m]
    <3>1. PICK m \in 1..(n - 1) : x = t[m] /\ m > b
      BY <1>2 DEF After
    <3>2. m + 1 \in 1..n /\ m + 1 > b + 1 /\ x = s[m + 1]
      BY <3>1, <1>1, <1>2, <1>7
    <3> QED
      BY <3>2
  <2>2. ASSUME NEW m \in 1..n, m > b + 1 PROVE s[m] \in After(t, b)
    <3>1. m - 1 \in 1..(n - 1) /\ m - 1 > b /\ t[m - 1] = s[m]
      BY <2>2, <1>1, <1>3, <1>7
    <3> QED
      BY <3>1, <1>2 DEF After
  <2> QED
    BY <2>1, <2>2
<1>8. ASSUME k <= b PROVE s[k] \notin After(s, b)
  BY <1>1, <1>4, <1>8 DEF After, n
<1>9. ASSUME k <= b, b < n
      PROVE  After(t, b) = After(s, b) \ {s[b + 1]} /\ s[b + 1] \in After(s, b)
  <2>1. b + 1 \in 1..n
    BY <1>1, <1>9
  <2>2. \A m \in 1..n : m > b + 1 <=> m > b /\ s[m] # s[b + 1]
    BY <2>1, <1>1, <1>4
  <2>3. After(t, b) = {s[m] : m \in {i \in 1..n : i > b}} \ {s[b + 1]}
    BY <2>2, <1>7, <1>9
  <2>4. b + 1 > b
    OBVIOUS
  <2>5. After(s, b) = {s[m] : m \in {i \in 1..n : i > b}}
    BY <1>1 DEF After
  <2> QED
    BY <2>1, <2>3, <2>4, <2>5
<1>10. ASSUME k <= b, b >= n PROVE After(t, b) = After(s, b)
  BY <1>1, <1>7, <1>10 DEF After
<1> QED
  BY <1>5, <1>6, <1>8, <1>9, <1>10 DEF t, n

(* What is behind a later position, and behind none. *)
LEMMA AfterMore ==
  ASSUME NEW S, NEW s \in Seq(S), NEW b \in Nat, NEW n \in Nat, Injective(s)
  PROVE  /\ After(s, 0) = ToSet(s)
         /\ After(s, b) \subseteq ToSet(s)
         /\ After(s, b + n) =
              After(s, b) \ {s[k] : k \in {m \in DOMAIN s : m > b /\ m <= b + n}}
         /\ Len(s) <= b + n => After(s, b + n) = {}
<1>1. Len(s) \in Nat /\ DOMAIN s = 1..Len(s)
  BY LenProperties
<1> QED
  BY <1>1 DEF After, ToSet, Injective

-------------------------------------------------------------------------------
(* The inductive invariant *)

(* TypeOK, with what its records are. *)
Typed ==
  /\ TypeOK
  /\ work \in [epoch : 1..MaxEpoch, page : Nat, instances : Listings]
  /\ published \in [epoch : 0..MaxEpoch, instances : Listings]

(* GitHub lists a name once. *)
NamedOnce == \A j, k \in DOMAIN list : list[j].name = list[k].name => j = k

(* Who is there since the epoch began is on a page that was read, or has   *)
(* yet to be, as long as no runner of a page already read leaves.          *)
SteadyRead == ~ shifted => steady \subseteq work.instances \cup Behind

IInv == Typed /\ NamedOnce /\ SteadyRead

(* A set of runners of which no two have one name. *)
LEMMA ListingsDef ==
  ASSUME NEW R
  PROVE  R \in Listings <=>
           R \subseteq Instances /\ \A i, j \in R : i.name = j.name => i = j
BY DEF Listings

(* What is read in place of an older reading is a listing again. *)
LEMMA InsertedListing ==
  ASSUME NEW old \in Listings, NEW page \in Listings
  PROVE  Inserted(old, page) \in Listings
BY ListingsDef DEF Inserted

(* Where the next page begins. *)
LEMMA BeforeNat ==
  ASSUME Typed, work.page # 0
  PROVE  /\ BeforePage \in Nat /\ pageSize \in Nat
         /\ work.page = 1 => BeforePage = 0
<1>1. pageSize \in Nat /\ work.page \in Nat /\ work.page - 1 \in Nat
  BY PageAssumption DEF Typed, TypeOK
<1>2. \A x, y \in Nat : x * y \in Nat /\ 0 * y = 0
  OBVIOUS
<1> QED
  BY <1>1, <1>2 DEF BeforePage

LEMMA BehindAfter ==
  /\ work.page = 0 => Behind = {}
  /\ work.page # 0 => Behind = After(list, BeforePage)
BY DEF Behind, After

LEMMA ListFacts ==
  ASSUME Typed, NamedOnce
  PROVE  /\ list \in Seq(Instances) /\ Len(list) \in Nat /\ DOMAIN list = 1..Len(list)
         /\ Injective(list) /\ ToSet(list) \in Listings /\ Behind \subseteq ToSet(list)
<1>1. list \in Seq(Instances) /\ ToSet(list) \in Listings
  BY DEF Typed, TypeOK
<1>2. Len(list) \in Nat /\ DOMAIN list = 1..Len(list)
  BY <1>1, LenProperties
<1>3. Injective(list)
  BY DEF NamedOnce, Injective
<1>4. Behind \subseteq ToSet(list)
  BY DEF Behind, ToSet
<1> QED
  BY <1>1, <1>2, <1>3, <1>4

LEMMA AtMostOneSets ==
  ASSUME NEW R
  PROVE  /\ {} \in Listing!AtMostOne(R)
         /\ \A x \in R : {x} \in Listing!AtMostOne(R)
BY DEF Listing!AtMostOne

(* When a runner registers it, or who it moves behind the page read last,  *)
(* is read once more.                                                      *)
LEMMA RegisterEffect ==
  ASSUME Typed, NamedOnce, NEW n \in Names, Register(n)
  PROVE  LET i == Instance(n, lastId + 1)
         IN  /\ i \in Instances /\ i \notin ToSet(list)
             /\ list' \in Seq(Instances) /\ ToSet(list') = ToSet(list) \cup {i}
             /\ ToSet(list') \in Listings /\ NamedOnce'
             /\ lastId' \in 0..MaxId
             /\ \E mine \in SUBSET {i}, again \in Listing!AtMostOne(ToSet(list)) :
                  Behind' = Behind \cup mine \cup again
<1> DEFINE i == Instance(n, lastId + 1)
           n0 == Len(list)
<1>1. /\ lastId' = lastId + 1 /\ lastId' \in 1..MaxId
      /\ \A k \in DOMAIN list : list[k].name # n
      /\ pageSize' = pageSize /\ work' = work
  BY RunnerBounds DEF Register, Typed, TypeOK
<1>2. PICK k \in 1..(n0 + 1) : list' = InsertAt(list, k, i)
  BY <1>1 DEF Register
<1>3. i \in Instances /\ i.name = n
  BY <1>1 DEF Instances, Instance
<1>4. i \notin ToSet(list)
  BY <1>1, <1>3 DEF ToSet
<1>5. /\ list \in Seq(Instances) /\ n0 \in Nat /\ DOMAIN list = 1..n0
      /\ ToSet(list) \in Listings /\ Injective(list)
  BY ListFacts
<1> HIDE DEF i, n0
<1>6. list' \in Seq(Instances) /\ DOMAIN list' = 1..(n0 + 1)
  BY <1>2, <1>3, <1>5, InsertAtPositions, LenProperties DEF n0
<1>7. \A m \in 1..(n0 + 1) :
        list'[m] = IF m < k THEN list[m] ELSE IF m = k THEN i ELSE list[m - 1]
  <2> TAKE m \in 1..(n0 + 1)
  <2>1. /\ list \in Seq(Instances) /\ i \in Instances
        /\ k \in 1..(Len(list) + 1) /\ m \in 1..(Len(list) + 1)
    BY <1>2, <1>3, <1>5 DEF n0
  <2>2. InsertAt(list, k, i)[m] = IF m < k THEN list[m] ELSE IF m = k THEN i ELSE list[m - 1]
    BY <2>1, InsertAtPosition
  <2> QED
    BY <2>2, <1>2
<1>8. ToSet(list') = ToSet(list) \cup {i}
  BY <1>2, <1>3, <1>5, InsertAtSets DEF n0
<1>9. ToSet(list') \in Listings
  <2>1. \A j \in ToSet(list) : j.name # i.name
    BY <1>1, <1>3 DEF ToSet
  <2> QED
    BY <2>1, <1>3, <1>5, <1>8, ListingsDef
<1>10. NamedOnce'
  <2>1. ASSUME NEW j \in 1..(n0 + 1), NEW m \in 1..(n0 + 1), list'[j].name = list'[m].name
        PROVE  j = m
    <3>1. \A x \in 1..(n0 + 1) :
            \/ x = k /\ list'[x] = i
            \/ x < k /\ x \in 1..n0 /\ list'[x] = list[x]
            \/ x > k /\ x - 1 \in 1..n0 /\ list'[x] = list[x - 1]
      BY <1>5, <1>7
    <3>2. \A x, y \in 1..n0 : list[x].name # n /\ (list[x].name = list[y].name => x = y)
      BY <1>1, <1>5 DEF NamedOnce
    <3>3. CASE j = k \/ m = k
      BY <3>1, <3>2, <3>3, <2>1, <1>3
    <3>4. CASE j < k /\ m < k
      BY <3>1, <3>2, <3>4, <2>1
    <3>5. CASE j > k /\ m > k
      BY <3>1, <3>2, <3>5, <2>1
    <3>6. CASE j < k /\ m > k
      <4>1. j = m - 1
        BY <3>1, <3>2, <3>6, <2>1
      <4> QED
        BY <4>1, <3>6
    <3>7. CASE j > k /\ m < k
      <4>1. j - 1 = m
        BY <3>1, <3>2, <3>7, <2>1
      <4> QED
        BY <4>1, <3>7
    <3> QED
      BY <3>3, <3>4, <3>5, <3>6, <3>7, <1>5
  <2> QED
    BY <2>1, <1>6 DEF NamedOnce
<1>11. \E mine \in SUBSET {i}, again \in Listing!AtMostOne(ToSet(list)) :
         Behind' = Behind \cup mine \cup again
  <2>1. CASE work.page = 0
    <3>1. Behind = {} /\ Behind' = {}
      BY <2>1, <1>1 DEF Behind
    <3> QED
      BY <3>1, AtMostOneSets
  <2>2. CASE work.page # 0
    <3> DEFINE b == BeforePage
    <3>1. b \in Nat /\ Behind = After(list, b)
      BY <2>2, BeforeNat, BehindAfter
    <3>2. Behind' = After(list', b)
      BY <2>2, <1>1 DEF Behind, After, BeforePage
    <3> HIDE DEF b
    <3>3. CASE k > b
      <4>1. Behind' = Behind \cup {i}
        BY <3>1, <3>2, <3>3, <1>2, <1>3, <1>5, InsertAtSets DEF n0
      <4> QED
        BY <4>1, AtMostOneSets
    <3>4. CASE k <= b /\ b <= n0
      <4>1. Behind' = Behind \cup {list[b]} /\ list[b] \in ToSet(list)
        BY <3>1, <3>2, <3>4, <1>2, <1>3, <1>5, InsertAtSets DEF n0
      <4>2. {} \in SUBSET {i} /\ {list[b]} \in Listing!AtMostOne(ToSet(list))
        BY <4>1, AtMostOneSets
      <4>3. Behind' = Behind \cup {} \cup {list[b]}
        BY <4>1
      <4> QED
        BY <4>2, <4>3, Zenon
    <3>5. CASE k <= b /\ b > n0
      <4>1. Behind' = Behind
        BY <3>1, <3>2, <3>5, <1>2, <1>3, <1>5, InsertAtSets DEF n0
      <4>2. {} \in SUBSET {i} /\ {} \in Listing!AtMostOne(ToSet(list))
        BY AtMostOneSets
      <4>3. Behind' = Behind \cup {} \cup {}
        BY <4>1
      <4> QED
        BY <4>2, <4>3, Zenon
    <3>6. k > b \/ (k <= b /\ b <= n0) \/ (k <= b /\ b > n0)
      BY <3>1, <1>5
    <3> QED
      BY <3>3, <3>4, <3>5, <3>6, Zenon
  <2> QED
    BY <2>1, <2>2
<1>12. lastId' \in 0..MaxId
  BY <1>1
<1> QED
  BY <1>3, <1>4, <1>6, <1>8, <1>9, <1>10, <1>11, <1>12, Zenon DEF i

(* When a runner leaves, the one that moves up into the page read last is  *)
(* passed over, and nobody if it was yet to be read.                       *)
LEMMA LeaveEffect ==
  ASSUME Typed, NamedOnce, NEW k \in DOMAIN list, Leave(k)
  PROVE  /\ list[k] \in Instances /\ list[k] \in ToSet(list)
         /\ list' \in Seq(Instances) /\ ToSet(list') = ToSet(list) \ {list[k]}
         /\ ToSet(list') \in Listings /\ NamedOnce'
         /\ \E skipped \in Listing!AtMostOne(Behind \ {list[k]}) :
              /\ Behind' = Behind \ ({list[k]} \cup skipped)
              /\ skipped = {} \/ (work.page # 0 /\ k <= BeforePage)
<1> DEFINE n0 == Len(list)
<1>1. pageSize' = pageSize /\ work' = work /\ list' = RemoveAt(list, k)
  BY DEF Leave
<1>2. /\ list \in Seq(Instances) /\ n0 \in Nat /\ DOMAIN list = 1..n0 /\ k \in 1..n0
      /\ ToSet(list) \in Listings /\ Injective(list)
  BY ListFacts
<1> HIDE DEF n0
<1>3. list[k] \in Instances /\ list[k] \in ToSet(list)
  BY <1>2, ElementOfSeq DEF ToSet, n0
<1>4. list' \in Seq(Instances) /\ DOMAIN list' = 1..(n0 - 1)
  BY <1>1, <1>2, RemoveAtPositions, LenProperties DEF n0
<1>5. \A m \in 1..(n0 - 1) : list'[m] = IF m < k THEN list[m] ELSE list[m + 1]
  <2> TAKE m \in 1..(n0 - 1)
  <2> QED
    BY <1>1, <1>2, RemoveAtPositions DEF n0
<1>6. ToSet(list') = ToSet(list) \ {list[k]}
  BY <1>1, <1>2, RemoveAtSets DEF n0
<1>7. ToSet(list') \in Listings
  BY <1>2, <1>6, ListingsDef
<1>8. NamedOnce'
  <2>1. ASSUME NEW j \in 1..(n0 - 1), NEW m \in 1..(n0 - 1), list'[j].name = list'[m].name
        PROVE  j = m
    <3>1. \A x \in 1..(n0 - 1) :
            \/ x < k /\ x \in 1..n0 /\ list'[x] = list[x]
            \/ x >= k /\ x + 1 \in 1..n0 /\ list'[x] = list[x + 1]
      BY <1>2, <1>5
    <3>2. \A x, y \in 1..n0 : list[x].name = list[y].name => x = y
      BY <1>2 DEF NamedOnce
    <3>3. CASE j < k /\ m < k
      BY <3>1, <3>2, <3>3, <2>1, <1>2
    <3>4. CASE j >= k /\ m >= k
      BY <3>1, <3>2, <3>4, <2>1, <1>2
    <3>5. CASE j < k /\ m >= k
      <4>1. j = m + 1
        BY <3>1, <3>2, <3>5, <2>1, <1>2
      <4> QED
        BY <4>1, <3>5, <1>2
    <3>6. CASE j >= k /\ m < k
      <4>1. j + 1 = m
        BY <3>1, <3>2, <3>6, <2>1, <1>2
      <4> QED
        BY <4>1, <3>6, <1>2
    <3> QED
      BY <3>3, <3>4, <3>5, <3>6, <1>2
  <2> QED
    BY <2>1, <1>4 DEF NamedOnce
<1>9. \E skipped \in Listing!AtMostOne(Behind \ {list[k]}) :
        /\ Behind' = Behind \ ({list[k]} \cup skipped)
        /\ skipped = {} \/ (work.page # 0 /\ k <= BeforePage)
  <2>1. {} \in Listing!AtMostOne(Behind \ {list[k]})
    BY AtMostOneSets
  <2>2. CASE work.page = 0
    <3>1. Behind = {} /\ Behind' = {}
      BY <2>2, <1>1 DEF Behind
    <3>2. Behind' = Behind \ ({list[k]} \cup {})
      BY <3>1
    <3> QED
      BY <3>2, <2>1, Zenon
  <2>3. CASE work.page # 0
    <3> DEFINE b == BeforePage
    <3>1. b \in Nat /\ Behind = After(list, b)
      BY <2>3, BeforeNat, BehindAfter
    <3>2. Behind' = After(list', b)
      BY <2>3, <1>1 DEF Behind, After, BeforePage
    <3> HIDE DEF b
    <3>3. CASE k > b
      <4>1. Behind' = Behind \ {list[k]}
        BY <3>1, <3>2, <3>3, <1>1, <1>2, RemoveAtSets DEF n0
      <4>2. Behind' = Behind \ ({list[k]} \cup {})
        BY <4>1
      <4> QED
        BY <4>2, <2>1, Zenon
    <3>4. CASE k <= b /\ b < n0
      <4>1. /\ Behind' = Behind \ {list[b + 1]} /\ list[b + 1] \in Behind
            /\ list[k] \notin Behind
        BY <3>1, <3>2, <3>4, <1>1, <1>2, RemoveAtSets DEF n0
      <4>2. {list[b + 1]} \in Listing!AtMostOne(Behind \ {list[k]})
        BY <4>1, AtMostOneSets
      <4>3. Behind' = Behind \ ({list[k]} \cup {list[b + 1]})
        BY <4>1
      <4> QED
        BY <4>2, <4>3, <2>3, <3>4, Zenon DEF b
    <3>5. CASE k <= b /\ b >= n0
      <4>1. Behind' = Behind /\ list[k] \notin Behind
        BY <3>1, <3>2, <3>5, <1>1, <1>2, RemoveAtSets DEF n0
      <4>2. Behind' = Behind \ ({list[k]} \cup {})
        BY <4>1
      <4> QED
        BY <4>2, <2>1, Zenon
    <3>6. k > b \/ (k <= b /\ b < n0) \/ (k <= b /\ b >= n0)
      BY <3>1, <1>2
    <3> QED
      BY <3>3, <3>4, <3>5, <3>6, Zenon
  <2> QED
    BY <2>2, <2>3
<1> QED
  BY <1>3, <1>4, <1>6, <1>7, <1>8, <1>9, Zenon

(* A page that is fetched was behind and is so no more. *)
LEMMA FetchEffect ==
  ASSUME Typed, NamedOnce, Fetch
  PROVE  /\ Page \subseteq Behind /\ Page \in Listings
         /\ work' \in [epoch : 1..MaxEpoch, page : Nat, instances : Listings]
         /\ work'.instances = Inserted(work.instances, Page)
         /\ Behind' = Behind \ Page
<1> DEFINE b == BeforePage
<1>1. /\ work.page # 0 /\ UNCHANGED <<pageSize, list>>
      /\ work' = [work EXCEPT !.instances = Inserted(work.instances, Page), !.page = NextPage]
  BY DEF Fetch
<1>2. /\ b \in Nat /\ pageSize \in Nat /\ work.page \in Nat
      /\ Behind = After(list, b)
      /\ work \in [epoch : 1..MaxEpoch, page : Nat, instances : Listings]
  BY <1>1, BeforeNat, BehindAfter DEF Typed
<1>3. /\ list \in Seq(Instances) /\ Len(list) \in Nat /\ Injective(list)
      /\ ToSet(list) \in Listings /\ Behind \subseteq ToSet(list)
  BY ListFacts
<1>4. Page = {list[k] : k \in {m \in DOMAIN list : m > b /\ m <= b + pageSize}}
  BY DEF Page
<1>5. Page \subseteq Behind
  BY <1>2, <1>4 DEF After
<1>6. Page \in Listings
  BY <1>3, <1>5, ListingsDef
<1>7. Inserted(work.instances, Page) \in Listings
  BY <1>2, <1>6, InsertedListing
<1>8. NextPage \in Nat
  BY <1>2 DEF NextPage
<1>9. /\ work' \in [epoch : 1..MaxEpoch, page : Nat, instances : Listings]
      /\ work'.instances = Inserted(work.instances, Page) /\ work'.page = NextPage
  BY <1>1, <1>2, <1>7, <1>8
<1>10. Behind' = Behind \ Page
  <2>1. After(list, b + pageSize) = Behind \ Page
    BY <1>2, <1>3, <1>4, AfterMore
  <2>2. CASE Len(list) > b + pageSize
    <3>1. work'.page = work.page + 1 /\ work'.page # 0
      BY <1>2, <1>9, <2>2 DEF NextPage
    <3>2. BeforePage' = work.page * pageSize
      BY <3>1, <1>1, <1>2 DEF BeforePage
    <3>3. work.page * pageSize = b + pageSize
      <4>1. \A x \in Nat, y \in Nat : (x - 1) * y + y = x * y
        OBVIOUS
      <4> QED
        BY <4>1, <1>2 DEF BeforePage
    <3> QED
      BY <3>1, <3>2, <3>3, <2>1, <1>2, <1>1 DEF Behind, After
  <2>3. CASE ~ (Len(list) > b + pageSize)
    <3>1. Behind' = {}
      BY <1>9, <2>3 DEF NextPage, Behind
    <3>2. Behind \ Page = {}
      <4>1. Len(list) <= b + pageSize
        BY <2>3, <1>2, <1>3
      <4> QED
        BY <4>1, <2>1, <1>2, <1>3, AfterMore
    <3> QED
      BY <3>1, <3>2
  <2> QED
    BY <2>2, <2>3
<1> QED
  BY <1>5, <1>6, <1>9, <1>10

(* What an epoch begins with is all behind. *)
LEMMA BeginEffect ==
  ASSUME Typed, NEW epoch \in 1..MaxEpoch, BeginEpoch(epoch), UNCHANGED <<pageSize, list>>
  PROVE  /\ work' \in [epoch : 1..MaxEpoch, page : Nat, instances : Listings]
         /\ work'.instances = {} /\ Behind' = ToSet(list)
         /\ steady' = ToSet(list) /\ shifted' = FALSE
<1>1. {} \in Listings
  BY ListingsDef
<1>2. /\ work' = [epoch |-> epoch, page |-> 1, instances |-> {}]
      /\ steady' = ToSet(list)
  BY DEF BeginEpoch, reset
<1>3. shifted' = FALSE
  BY Zenon DEF BeginEpoch
<1>4. /\ work' \in [epoch : 1..MaxEpoch, page : Nat, instances : Listings]
      /\ work'.page = 1 /\ work'.instances = {}
  BY <1>1, <1>2
<1>5. pageSize \in Nat /\ list \in Seq(Instances)
  BY PageAssumption DEF Typed, TypeOK
<1>6. BeforePage' = 0
  <2>1. BeforePage' = (1 - 1) * pageSize
    BY <1>4 DEF BeforePage
  <2> QED
    BY <2>1, <1>5
<1>7. Behind' = ToSet(list)
  <2>1. DOMAIN list \subseteq Nat \ {0}
    BY <1>5, LenProperties
  <2> QED
    BY <2>1, <1>4, <1>6 DEF Behind, ToSet
<1> QED
  BY <1>2, <1>3, <1>4, <1>7, Zenon

LEMMA InitIInv == Init => IInv
<1> SUFFICES ASSUME Init PROVE IInv
  OBVIOUS
<1>1. {} \in Listings /\ ToSet(<<>>) = {} /\ <<>> \in Seq(Instances) /\ DOMAIN <<>> = {}
  BY ListingsDef, EmptySeq DEF ToSet
<1>2. shifted \in BOOLEAN
  BY Zenon DEF Init
<1>3. Typed
  <2>1. /\ 1 \in 1..MaxEpoch /\ 0 \in 0..MaxEpoch /\ 0 \in 0..MaxId
        /\ 0 \in 0..MaxFaults /\ 0 \in 0..MaxRestarts
    BY RunnerBounds
  <2>2. work \in [epoch : 1..MaxEpoch, page : Nat, instances : Listings]
    BY <2>1, <1>1 DEF Init
  <2>3. published \in [epoch : 0..MaxEpoch, instances : Listings]
    BY <2>1, <1>1 DEF Init, NewState
  <2>4. spent \in [faults : 0..MaxFaults, restarts : 0..MaxRestarts]
    BY <2>1 DEF Init
  <2>5. /\ pageSize \in PageSizes /\ list \in Seq(Instances) /\ ToSet(list) \in Listings
        /\ lastId \in 0..MaxId /\ steady \subseteq ToSet(list)
    BY <2>1, <1>1 DEF Init
  <2> QED
    BY <1>2, <2>2, <2>3, <2>4, <2>5 DEF Typed, TypeOK
<1>4. NamedOnce /\ SteadyRead
  BY <1>1 DEF Init, NamedOnce, SteadyRead
<1> QED
  BY <1>3, <1>4 DEF IInv

LEMMA StepIInv == IInv /\ [Next]_vars => IInv'
<1> SUFFICES ASSUME IInv, [Next]_vars PROVE IInv'
  OBVIOUS
<1>1. Typed /\ NamedOnce /\ SteadyRead
  BY DEF IInv
<1>2. ASSUME NEW n \in Names, Register(n) PROVE IInv'
  <2> DEFINE i == Instance(n, lastId + 1)
  <2>1. /\ list' \in Seq(Instances) /\ ToSet(list') = ToSet(list) \cup {i}
        /\ ToSet(list') \in Listings /\ NamedOnce' /\ lastId' \in 0..MaxId
        /\ Behind \subseteq Behind'
    BY <1>1, <1>2, RegisterEffect
  <2> HIDE DEF i
  <2>2. UNCHANGED <<pageSize, work, published, steady, shifted, spent>>
    BY <1>2 DEF Register
  <2>3. Typed'
    BY <2>1, <2>2, <1>1 DEF Typed, TypeOK
  <2>4. SteadyRead'
    BY <2>1, <2>2, <1>1 DEF SteadyRead
  <2> QED
    BY <2>1, <2>3, <2>4 DEF IInv
<1>3. ASSUME NEW k \in DOMAIN list, Leave(k) PROVE IInv'
  <2>1. /\ list[k] \in ToSet(list)
        /\ list' \in Seq(Instances) /\ ToSet(list') = ToSet(list) \ {list[k]}
        /\ ToSet(list') \in Listings /\ NamedOnce'
    BY <1>1, <1>3, LeaveEffect
  <2>2. UNCHANGED <<pageSize, lastId, work, published, spent>>
    BY <1>3 DEF Leave
  <2>3. /\ steady' = steady \ {list[k]}
        /\ shifted' = (shifted \/ (work.page # 0 /\ k <= BeforePage))
    BY <1>3, Zenon DEF Leave
  <2>4. shifted' \in BOOLEAN
    BY <2>3, Zenon
  <2>5. Typed'
    BY <2>1, <2>2, <2>3, <2>4, <1>1 DEF Typed, TypeOK
  <2>6. PICK skipped \in Listing!AtMostOne(Behind \ {list[k]}) :
          /\ Behind' = Behind \ ({list[k]} \cup skipped)
          /\ skipped = {} \/ (work.page # 0 /\ k <= BeforePage)
    BY <1>1, <1>3, LeaveEffect
  <2>7. SteadyRead'
    BY <2>2, <2>3, <2>6, <1>1 DEF SteadyRead
  <2> QED
    BY <2>1, <2>5, <2>7 DEF IInv
<1>4. CASE Fetch
  <2>1. /\ Page \subseteq Behind /\ Page \in Listings
        /\ work' \in [epoch : 1..MaxEpoch, page : Nat, instances : Listings]
        /\ work'.instances = Inserted(work.instances, Page)
        /\ Behind' = Behind \ Page
    BY <1>1, <1>4, FetchEffect
  <2>2. UNCHANGED <<pageSize, list, lastId, published, steady, shifted, spent>>
    BY <1>4 DEF Fetch
  <2>3. Typed' /\ NamedOnce'
    BY <2>1, <2>2, <1>1 DEF Typed, TypeOK, NamedOnce
  <2>4. SteadyRead'
    <3>1. Behind \subseteq ToSet(list) /\ steady \subseteq ToSet(list)
      BY <1>1, ListFacts DEF Typed, TypeOK
    <3>2. \A x, y \in ToSet(list) : x.name = y.name => x = y
      BY <1>1, ListFacts, ListingsDef
    <3>3. steady \cap (work.instances \cup Page) \subseteq work'.instances
      BY <2>1, <3>1, <3>2 DEF Inserted
    <3> QED
      BY <2>1, <2>2, <3>3, <1>1 DEF SteadyRead
  <2> QED
    BY <2>3, <2>4 DEF IInv
<1>5. CASE FetchFails
  <2>1. UNCHANGED <<pageSize, list, lastId, work, published, steady, shifted>>
    BY <1>5 DEF FetchFails
  <2>2. spent' \in [faults : 0..MaxFaults, restarts : 0..MaxRestarts]
    <3>1. spent \in [faults : 0..MaxFaults, restarts : 0..MaxRestarts]
      BY <1>1 DEF Typed, TypeOK
    <3> QED
      BY <1>5, <3>1, RunnerBounds DEF FetchFails
  <2> QED
    BY <2>1, <2>2, <1>1 DEF IInv, Typed, TypeOK, NamedOnce, SteadyRead, Behind, BeforePage
<1>6. CASE Publish
  <2>1. NextEpoch(work.epoch) \in 1..MaxEpoch
    BY <1>1, RunnerBounds DEF NextEpoch, Typed, TypeOK
  <2>2. UNCHANGED <<pageSize, list, lastId, spent>>
    BY <1>6 DEF Publish
  <2>3. /\ work' \in [epoch : 1..MaxEpoch, page : Nat, instances : Listings]
        /\ Behind' = ToSet(list) /\ steady' = ToSet(list) /\ shifted' = FALSE
    BY <2>1, <2>2, <1>1, <1>6, BeginEffect DEF Publish
  <2>4. published' \in [epoch : 0..MaxEpoch, instances : Listings]
    BY <1>1, <1>6 DEF Publish, Typed
  <2>5. shifted' \in BOOLEAN
    BY <2>3, Zenon
  <2>6. Typed'
    BY <2>2, <2>3, <2>4, <2>5, <1>1 DEF Typed, TypeOK
  <2> QED
    BY <2>2, <2>3, <2>6, <1>1 DEF IInv, NamedOnce, SteadyRead
<1>7. CASE Restart
  <2>1. 1 \in 1..MaxEpoch /\ {} \in Listings
    BY RunnerBounds, ListingsDef
  <2>2. UNCHANGED <<pageSize, list, lastId>>
    BY <1>7 DEF Restart
  <2>3. /\ work' \in [epoch : 1..MaxEpoch, page : Nat, instances : Listings]
        /\ Behind' = ToSet(list) /\ steady' = ToSet(list) /\ shifted' = FALSE
    BY <2>1, <2>2, <1>1, <1>7, BeginEffect DEF Restart
  <2>4. published' \in [epoch : 0..MaxEpoch, instances : Listings]
    BY <2>1, <1>7, RunnerBounds DEF Restart, NewState
  <2>5. spent' \in [faults : 0..MaxFaults, restarts : 0..MaxRestarts]
    <3>1. spent \in [faults : 0..MaxFaults, restarts : 0..MaxRestarts]
      BY <1>1 DEF Typed, TypeOK
    <3> QED
      BY <1>7, <3>1, RunnerBounds DEF Restart
  <2>6. shifted' \in BOOLEAN
    BY <2>3, Zenon
  <2>7. Typed'
    BY <2>2, <2>3, <2>4, <2>5, <2>6, <1>1 DEF Typed, TypeOK
  <2> QED
    BY <2>2, <2>3, <2>7, <1>1 DEF IInv, NamedOnce, SteadyRead
<1>8. CASE UNCHANGED vars
  BY <1>8, <1>1 DEF vars, IInv, Typed, TypeOK, NamedOnce, SteadyRead, Behind, BeforePage
<1> QED
  BY <1>2, <1>3, <1>4, <1>5, <1>6, <1>7, <1>8 DEF Next, GitHubStep

(* The synchronizer and GitHub's list keep their types; a name is listed   *)
(* once, at GitHub and in what is published (synchronizer.go:19-44).       *)
THEOREM RunnerTypes == Spec => []TypeOK
<1>1. IInv => TypeOK
  BY DEF IInv, Typed
<1> QED
  BY InitIInv, StepIInv, <1>1, PTL DEF Spec

-------------------------------------------------------------------------------
(* The list that is published *)

LEMMA StepWhole ==
  IInv /\ [Next]_vars =>
    [published'.epoch \notin {0, published.epoch} =>
       shifted \/ steady \subseteq published'.instances]_vars
<1> SUFFICES ASSUME IInv, [Next]_vars, published'.epoch \notin {0, published.epoch}
             PROVE  shifted \/ steady \subseteq published'.instances
  OBVIOUS
<1>1. CASE Publish
  <2>1. Behind = {} /\ published'.instances = work.instances
    BY <1>1 DEF Publish, Behind
  <2> QED
    BY <2>1 DEF IInv, SteadyRead
<1>2. CASE Restart
  BY <1>2 DEF Restart, NewState
<1>3. CASE GitHubStep \/ Fetch \/ FetchFails \/ UNCHANGED vars
  BY <1>3 DEF GitHubStep, Register, Leave, Fetch, FetchFails, vars
<1> QED
  BY <1>1, <1>2, <1>3 DEF Next

(* A published list lacks nobody who was registered from the beginning of  *)
(* its epoch to the end, unless a runner of a page already read has left   *)
(* (synchronizer.go:80-122).                                               *)
THEOREM WholeListCorrect == Spec => WholeList
BY InitIInv, StepIInv, StepWhole, PTL DEF Spec, WholeList

-------------------------------------------------------------------------------
(* RunnerSync implements RunnerListing *)

LEMMA StepRefines == IInv /\ [Next]_vars => [Listing!Next]_(Listing!listingVars)
<1> SUFFICES ASSUME IInv, [Next]_vars PROVE [Listing!Next]_(Listing!listingVars)
  OBVIOUS
<1>1. Typed /\ NamedOnce
  BY DEF IInv
<1>2. ASSUME NEW n \in Names, Register(n) PROVE Listing!Next
  <2> DEFINE i == Instance(n, lastId + 1)
  <2>1. /\ i \in Instances /\ i \notin ToSet(list) /\ ToSet(list') = ToSet(list) \cup {i}
        /\ \E mine \in SUBSET {i}, again \in Listing!AtMostOne(ToSet(list)) :
             Behind' = Behind \cup mine \cup again
    BY <1>1, <1>2, RegisterEffect
  <2>2. UNCHANGED <<work, published>>
    BY <1>2 DEF Register
  <2> HIDE DEF i
  <2>3. Listing!Register(i)
    BY <2>1, <2>2 DEF Listing!Register
  <2> QED
    BY <2>1, <2>3 DEF Listing!Next
<1>3. ASSUME NEW k \in DOMAIN list, Leave(k) PROVE Listing!Next
  <2>1. /\ list[k] \in Instances /\ list[k] \in ToSet(list)
        /\ ToSet(list') = ToSet(list) \ {list[k]}
        /\ \E skipped \in Listing!AtMostOne(Behind \ {list[k]}) :
             Behind' = Behind \ ({list[k]} \cup skipped)
    BY <1>1, <1>3, LeaveEffect
  <2>2. UNCHANGED <<work, published>>
    BY <1>3 DEF Leave
  <2>3. Listing!Leave(list[k])
    BY <2>1, <2>2 DEF Listing!Leave
  <2> QED
    BY <2>1, <2>3 DEF Listing!Next
<1>4. CASE Fetch
  <2>1. /\ Page \subseteq Behind /\ Behind' = Behind \ Page
        /\ work'.instances = Inserted(work.instances, Page)
    BY <1>1, <1>4, FetchEffect
  <2>2. UNCHANGED <<list, published>>
    BY <1>4 DEF Fetch
  <2>3. Inserted(work.instances, Page) = Listing!Put(work.instances, Page)
    BY DEF Inserted, Listing!Put
  <2>4. Listing!Read
    BY <2>1, <2>2, <2>3 DEF Listing!Read
  <2> QED
    BY <2>4 DEF Listing!Next
<1>5. CASE FetchFails \/ UNCHANGED vars
  BY <1>5 DEF FetchFails, vars, Listing!listingVars, Behind, BeforePage
<1>6. CASE Publish
  <2>1. NextEpoch(work.epoch) \in 1..MaxEpoch
    BY <1>1, RunnerBounds DEF NextEpoch, Typed, TypeOK
  <2>2. UNCHANGED <<pageSize, list>>
    BY <1>6 DEF Publish
  <2>3. work'.instances = {} /\ Behind' = ToSet(list)
    BY <2>1, <2>2, <1>1, <1>6, BeginEffect DEF Publish
  <2>4. Behind = {} /\ published'.instances = work.instances
    BY <1>6 DEF Publish, Behind
  <2> QED
    BY <2>2, <2>3, <2>4 DEF Listing!Next, Listing!Finish
<1>7. CASE Restart
  <2>1. 1 \in 1..MaxEpoch
    BY RunnerBounds
  <2>2. UNCHANGED <<pageSize, list>>
    BY <1>7 DEF Restart
  <2>3. work'.instances = {} /\ Behind' = ToSet(list)
    BY <2>1, <2>2, <1>1, <1>7, BeginEffect DEF Restart
  <2>4. published'.instances = {}
    BY <1>7 DEF Restart, NewState
  <2> QED
    BY <2>2, <2>3, <2>4 DEF Listing!Next, Listing!StartAgain
<1> QED
  BY <1>2, <1>3, <1>4, <1>5, <1>6, <1>7 DEF Next, GitHubStep

(* Whatever pages the list is read in, nothing is published that was not   *)
(* at GitHub during its epoch, and each runner that leaves makes it pass   *)
(* over one other at the most (synchronizer.go:46-122).                    *)
THEOREM SyncRefinesListing == Spec => Refinement
<1>1. Init => Listing!Init
  <2>1. ToSet(<<>>) = {} /\ DOMAIN <<>> = {}
    BY EmptySeq DEF ToSet
  <2> QED
    BY <2>1 DEF Init, Behind, NewState, Listing!Init
<1> QED
  BY InitIInv, StepIInv, StepRefines, <1>1, PTL DEF Spec, Refinement, Listing!Spec
===============================================================================
