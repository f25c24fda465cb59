----------------------------- MODULE FormatsProofs -----------------------------
(***************************************************************************)
(* Proofs about module AddressFormats, for any octets, ports and size of   *)
(* sun_path.                                                               *)
(***************************************************************************)
EXTENDS AddressFormats, SeqLemmas, WellFoundedInduction

-----------------------------------------------------------------------------
(* Arithmetic.                                                             *)

LEMMA QuotientIs ==
  ASSUME NEW a1 \in Int, NEW n \in Nat \ {0}, NEW q \in Int, NEW r \in 0..(n - 1), a1 = n * q + r
  PROVE  a1 \div n = q /\ a1 % n = r
  OBVIOUS

LEMMA LeastExists ==
  ASSUME NEW S \in SUBSET Nat, S # {}
  PROVE  \E k \in S : \A j \in S : k <= j
<1> DEFINE R == OpToRel(<, Nat)
<1>1. IsWellFoundedOn(R, Nat)
  BY NatLessThanWellFounded
<1>2. \A x, y \in Nat : x < y => <<x, y>> \in R
  BY DEF OpToRel
<1> HIDE DEF R
<1>3. PICK k \in S : \A j \in S : <<j, k>> \notin R
  BY <1>1, WFMin
<1>4. \A j \in S : ~(j < k)
  BY <1>2, <1>3
<1>5. \A j \in S : k <= j
  BY <1>4
<1> QED
  BY <1>5

-----------------------------------------------------------------------------
(* The order of std::array and std::vector.                                *)

(* The sequences agree in n places, and then the first is smaller or ends. *)
Below(s, t, n) ==
  /\ n \in 0..Len(s) /\ n < Len(t)
  /\ \A i \in 1..n : s[i] = t[i]
  /\ n < Len(s) => s[n + 1] < t[n + 1]

LEMMA BeginningsEqual ==
  ASSUME NEW s \in Seq(Int), NEW t \in Seq(Int), NEW n \in Nat, n <= Len(s), n <= Len(t)
  PROVE  SubSeq(s, 1, n) = SubSeq(t, 1, n) <=> \A i \in 1..n : s[i] = t[i]
<1> DEFINE x == SubSeq(s, 1, n)
           y == SubSeq(t, 1, n)
<1>1. /\ Len(s) \in Nat /\ Len(t) \in Nat /\ n - 1 + 1 = n /\ 1 \in Int /\ n \in Int
      /\ \A i \in 1..n : s[i] \in Int /\ t[i] \in Int /\ 1 + i - 1 = i
      /\ (IF 1 <= n THEN n - 1 + 1 ELSE 0) = n
  <2>1. /\ Len(s) \in Nat /\ DOMAIN s = 1..Len(s) /\ \A i \in DOMAIN s : s[i] \in Int
        /\ Len(t) \in Nat /\ DOMAIN t = 1..Len(t) /\ \A i \in DOMAIN t : t[i] \in Int
    BY SeqPlaces
  <2>2. \A i \in 1..n : i \in 1..Len(s) /\ i \in 1..Len(t)
    BY <2>1
  <2>3. \A i \in 1..n : s[i] \in Int /\ t[i] \in Int
    BY <2>1, <2>2
  <2> QED
    BY <2>1, <2>3
<1>2. /\ x \in Seq(Int) /\ Len(x) = (IF 1 <= n THEN n - 1 + 1 ELSE 0)
      /\ \A i \in 1..(n - 1 + 1) : x[i] = s[1 + i - 1]
  BY <1>1, SubSeqProperties
<1>3. /\ y \in Seq(Int) /\ Len(y) = (IF 1 <= n THEN n - 1 + 1 ELSE 0)
      /\ \A i \in 1..(n - 1 + 1) : y[i] = t[1 + i - 1]
  BY <1>1, SubSeqProperties
<1> HIDE DEF x, y
<1>4. /\ Len(x) = n /\ Len(y) = n /\ \A i \in 1..n : x[i] = s[i] /\ y[i] = t[i]
  BY <1>1, <1>2, <1>3
<1>5. (\A i \in 1..n : s[i] = t[i]) => x = y
  <2>1. (\A i \in 1..n : s[i] = t[i]) => \A i \in 1..Len(x) : x[i] = y[i]
    BY <1>4
  <2> QED
    BY <1>2, <1>3, <1>4, <2>1, SeqEqual
<1>6. x = y => \A i \in 1..n : s[i] = t[i]
  BY <1>4
<1> QED
  BY <1>5, <1>6 DEF x, y

LEMMA SeqLessIs ==
  ASSUME NEW s \in Seq(Int), NEW t \in Seq(Int)
  PROVE  SeqLess(s, t) <=> \E n : Below(s, t, n)
<1>1. Len(s) \in Nat /\ Len(t) \in Nat
  BY SeqPlaces
<1>2. ASSUME NEW n \in 0..Len(s), n < Len(t)
      PROVE  SubSeq(s, 1, n) = SubSeq(t, 1, n) <=> \A i \in 1..n : s[i] = t[i]
  <2>1. n \in Nat /\ n <= Len(s) /\ n <= Len(t)
    BY <1>1, <1>2
  <2> QED
    BY <2>1, BeginningsEqual
<1>3. ASSUME SeqLess(s, t)
      PROVE  \E n : Below(s, t, n)
  BY <1>2, <1>3 DEF SeqLess, Below
<1>4. ASSUME NEW n, Below(s, t, n)
      PROVE  SeqLess(s, t)
  BY <1>2, <1>4 DEF SeqLess, Below
<1> QED
  BY <1>3, <1>4

LEMMA SeqLessTotal ==
  ASSUME NEW s \in Seq(Int), NEW t \in Seq(Int)
  PROVE  s = t \/ SeqLess(s, t) \/ SeqLess(t, s)
<1> DEFINE m == Len(s)
           n == Len(t)
           D == {i \in 1..m : i <= n /\ s[i] # t[i]}
<1>1. /\ m \in Nat /\ n \in Nat
      /\ \A i \in 1..m : s[i] \in Int
      /\ \A i \in 1..n : t[i] \in Int
  BY SeqPlaces
<1>2. CASE D = {}
  <2>1. \A i \in 1..m : i <= n => s[i] = t[i]
    BY <1>2
  <2> HIDE DEF m, n, D
  <2>2. CASE m = n
    <3>1. \A i \in 1..m : s[i] = t[i]
      BY <1>1, <2>1, <2>2
    <3> QED
      BY <2>2, <3>1, SeqEqual DEF m, n
  <2>3. CASE m < n
    <3>1. m \in 0..m /\ m < n /\ ~(m < m) /\ \A i \in 1..m : s[i] = t[i]
      BY <1>1, <2>1, <2>3
    <3> QED
      BY <3>1, SeqLessIs DEF Below, m, n
  <2>4. CASE n < m
    <3>1. n \in 0..n /\ n < m /\ ~(n < n) /\ \A i \in 1..n : t[i] = s[i]
      BY <1>1, <2>1, <2>4
    <3> QED
      BY <3>1, SeqLessIs DEF Below, m, n
  <2> QED
    BY <1>1, <2>2, <2>3, <2>4
<1>3. CASE D # {}
  <2>1. D \in SUBSET Nat
    BY <1>1
  <2>2. PICK k \in D : \A j \in D : k <= j
    BY <1>3, <2>1, LeastExists
  <2>3. k \in 1..m /\ k <= n /\ s[k] # t[k] /\ \A i \in 1..m : i <= n /\ i < k => s[i] = t[i]
    <3>1. k \in 1..m /\ k <= n /\ s[k] # t[k]
      OBVIOUS
    <3>2. ASSUME NEW i \in 1..m, i <= n, i < k
          PROVE  s[i] = t[i]
      <4>1. ~(k <= i)
        BY <3>1, <3>2, <1>1
      <4> QED
        BY <2>2, <3>2, <4>1
    <3> QED
      BY <3>1, <3>2
  <2> HIDE DEF m, n, D
  <2>4. /\ k - 1 \in 0..m /\ k - 1 \in 0..n /\ k - 1 < n /\ k - 1 < m /\ k - 1 + 1 = k
        /\ \A i \in 1..(k - 1) : s[i] = t[i]
    BY <1>1, <2>3
  <2>5. s[k] < t[k] \/ t[k] < s[k]
    <3>1. s[k] \in Int /\ t[k] \in Int
      BY <1>1, <2>3
    <3> QED
      BY <2>3, <3>1
  <2>6. CASE s[k] < t[k]
    <3>1. Below(s, t, k - 1)
      BY <2>4, <2>6 DEF Below, m, n
    <3> QED
      BY <3>1, SeqLessIs
  <2>7. CASE t[k] < s[k]
    <3>1. Below(t, s, k - 1)
      BY <2>4, <2>7 DEF Below, m, n
    <3> QED
      BY <3>1, SeqLessIs
  <2> QED
    BY <2>5, <2>6, <2>7
<1> QED
  BY <1>2, <1>3

LEMMA SeqLessIrreflexive ==
  ASSUME NEW s \in Seq(Int)
  PROVE  ~SeqLess(s, s)
<1> SUFFICES ASSUME NEW n, Below(s, s, n)
             PROVE  FALSE
  BY SeqLessIs
<1>1. Len(s) \in Nat /\ DOMAIN s = 1..Len(s) /\ \A i \in DOMAIN s : s[i] \in Int
  BY SeqPlaces
<1>2. n \in 0..Len(s) /\ n < Len(s) /\ s[n + 1] < s[n + 1]
  BY DEF Below
<1>3. s[n + 1] \in Int
  BY <1>1, <1>2
<1> QED
  BY <1>2, <1>3

LEMMA SeqLessTransitive ==
  ASSUME NEW s \in Seq(Int), NEW t \in Seq(Int), NEW u \in Seq(Int), SeqLess(s, t), SeqLess(t, u)
  PROVE  SeqLess(s, u)
<1> DEFINE l == Len(s)
           m == Len(t)
           n == Len(u)
<1>1. /\ l \in Nat /\ m \in Nat /\ n \in Nat
      /\ \A i \in 1..l : s[i] \in Int
      /\ \A i \in 1..m : t[i] \in Int
      /\ \A i \in 1..n : u[i] \in Int
  BY SeqPlaces
<1>2. PICK j : Below(s, t, j)
  BY SeqLessIs
<1>3. PICK k : Below(t, u, k)
  BY SeqLessIs
<1>4. /\ j \in 0..l /\ j < m /\ (\A i \in 1..j : s[i] = t[i]) /\ (j < l => s[j + 1] < t[j + 1])
      /\ k \in 0..m /\ k < n /\ (\A i \in 1..k : t[i] = u[i]) /\ (k < m => t[k + 1] < u[k + 1])
  BY <1>2, <1>3 DEF Below
<1>5. ASSUME NEW h \in Nat, h <= l, h < n, \A i \in 1..h : s[i] = u[i], h < l => s[h + 1] < u[h + 1]
      PROVE  SeqLess(s, u)
  <2>1. h \in 0..l
    BY <1>1, <1>5
  <2>2. Below(s, u, h)
    BY <1>5, <2>1 DEF Below
  <2> QED
    BY <2>2, SeqLessIs
<1> HIDE DEF l, m, n
<1>6. CASE j < k
  <2>1. j \in Nat /\ j <= l /\ j < n /\ j + 1 \in 1..k /\ \A i \in 1..j : i \in 1..k
    BY <1>1, <1>4, <1>6
  <2>2. \A i \in 1..j : s[i] = u[i]
    BY <1>4, <2>1
  <2>3. j < l => s[j + 1] < u[j + 1]
    BY <1>4, <2>1
  <2> QED
    BY <1>5, <2>1, <2>2, <2>3
<1>7. CASE j = k
  <2>1. j \in Nat /\ j <= l /\ j < n
    BY <1>1, <1>4, <1>7
  <2>2. \A i \in 1..j : s[i] = u[i]
    BY <1>4, <1>7
  <2>3. ASSUME j < l
        PROVE  s[j + 1] < u[j + 1]
    <3>1. j + 1 \in 1..l /\ j + 1 \in 1..m /\ j + 1 \in 1..n
      BY <1>1, <1>4, <1>7, <2>3
    <3>2. s[j + 1] < t[j + 1] /\ t[j + 1] < u[j + 1]
      BY <1>4, <1>7, <2>3
    <3>3. s[j + 1] \in Int /\ t[j + 1] \in Int /\ u[j + 1] \in Int
      BY <1>1, <3>1
    <3> QED
      BY <3>2, <3>3
  <2> QED
    BY <1>5, <2>1, <2>2, <2>3
<1>8. CASE k < j
  <2>1. k \in Nat /\ k <= l /\ k < n /\ k < m /\ k + 1 \in 1..j /\ \A i \in 1..k : i \in 1..j
    BY <1>1, <1>4, <1>8
  <2>2. \A i \in 1..k : s[i] = u[i]
    BY <1>4, <2>1
  <2>3. s[k + 1] < u[k + 1]
    BY <1>4, <2>1
  <2> QED
    BY <1>5, <2>1, <2>2, <2>3
<1>9. j < k \/ j = k \/ k < j
  BY <1>1, <1>4
<1> QED
  BY <1>6, <1>7, <1>8, <1>9

-----------------------------------------------------------------------------
(* Network order.                                                          *)

LEMMA ModBelow ==
  ASSUME NEW n \in Nat, NEW m \in Nat \ {0}
  PROVE  n % m \in 0..(m - 1)
  OBVIOUS

LEMMA ModSame ==
  ASSUME NEW m \in Nat \ {0}, NEW n \in 0..(m - 1)
  PROVE  n % m = n
<1>1. n \in Int /\ 0 \in Int /\ n = m * 0 + n
  OBVIOUS
<1> QED
  BY <1>1, QuotientIs

(* The modulus is kept as a name: with the number in its place, intervals  *)
(* up to it are enumerated by the provers.                                 *)
LEMMA ModulusIs == PortModulus = 256 * 256
  BY SMT DEF PortModulus

LEMMA ModulusType == PortModulus \in Nat \ {0} /\ 80 \in 0..(PortModulus - 1) /\ 0 \in 0..(PortModulus - 1)
<1> DEFINE m == PortModulus
<1>1. m \in Nat /\ 80 < m
  BY ModulusIs, SMT
<1> HIDE DEF m
<1>2. m \in Nat \ {0} /\ 80 \in 0..(m - 1) /\ 0 \in 0..(m - 1)
  BY <1>1
<1> QED
  BY <1>2 DEF m

LEMMA PortThere ==
  ASSUME NEW n \in 0..(PortModulus - 1)
  PROVE  ntohs(htons(n)) = n
<1> DEFINE q == n \div 256
           r == n % 256
<1>1. n \in Nat
  BY ModulusType
<1>2. q \in Int /\ r \in Int /\ n = 256 * q + r
  BY <1>1
<1> HIDE DEF q, r
<1>3. q * 256 + r = n
  BY <1>1, <1>2
<1>4. htons(n) = <<q, r>>
  BY DEF htons, q, r
<1> QED
  BY <1>3, <1>4 DEF ntohs

LEMMA PairThere ==
  ASSUME NEW x \in 0..255, NEW y \in 0..255
  PROVE  /\ x * 256 + y \in 0..(PortModulus - 1)
         /\ htons(x * 256 + y) = <<x, y>>
<1> DEFINE v == x * 256 + y
           m == PortModulus
<1>1. /\ x \in Int /\ y \in 0..(256 - 1) /\ 256 \in Nat \ {0}
      /\ 0 <= x /\ x <= 255 /\ 0 <= y /\ y <= 255
  OBVIOUS
<1>2. v \in Nat /\ v = 256 * x + y /\ v < 256 * 256
  BY <1>1, SMT
<1> HIDE DEF v
<1>3. v \div 256 = x /\ v % 256 = y
  BY <1>1, <1>2, QuotientIs
<1>4. v < m /\ m \in Nat
  BY <1>2, ModulusIs, ModulusType
<1> HIDE DEF m
<1>5. v \in 0..(m - 1)
  <2>1. v \in Nat
    BY <1>2
  <2> QED
    BY <1>4, <2>1
<1>6. htons(v) = <<x, y>>
  BY <1>3 DEF htons
<1> QED
  BY <1>5, <1>6 DEF v, m

LEMMA TwoJoined ==
  ASSUME NEW S, NEW w \in S, NEW x \in S, NEW y \in S, NEW z \in S
  PROVE  <<w, x>> \o <<y, z>> = <<w, x, y, z>>
<1> DEFINE s == <<w, x>>
           t == <<y, z>>
           u == <<w, x, y, z>>
<1>1. /\ s \in Seq(S) /\ Len(s) = 2 /\ s[1] = w /\ s[2] = x
      /\ t \in Seq(S) /\ Len(t) = 2 /\ t[1] = y /\ t[2] = z
  OBVIOUS
<1>2. u \in Seq(S) /\ Len(u) = 4 /\ u[1] = w /\ u[2] = x /\ u[3] = y /\ u[4] = z
  OBVIOUS
<1> HIDE DEF s, t, u
<1>3. /\ s \o t \in Seq(S) /\ Len(s \o t) = 4
      /\ \A i \in 1..4 : (s \o t)[i] = IF i <= 2 THEN s[i] ELSE t[i - 2]
  <2>1. /\ s \o t \in Seq(S) /\ Len(s \o t) = Len(s) + Len(t)
        /\ \A i \in 1..(Len(s) + Len(t)) :
             (s \o t)[i] = IF i <= Len(s) THEN s[i] ELSE t[i - Len(s)]
    BY <1>1, ConcatProperties
  <2> QED
    BY <1>1, <2>1
<1>4. \A i \in 1..4 : (s \o t)[i] = u[i]
  <2>1. (s \o t)[1] = w /\ (s \o t)[2] = x /\ (s \o t)[3] = y /\ (s \o t)[4] = z
    <3>1. /\ (s \o t)[1] = s[1] /\ (s \o t)[2] = s[2]
          /\ (s \o t)[3] = t[3 - 2] /\ (s \o t)[4] = t[4 - 2]
      BY <1>3
    <3>2. 3 - 2 = 1 /\ 4 - 2 = 2
      OBVIOUS
    <3> QED
      BY <1>1, <3>1, <3>2
  <2>2. \A i \in 1..4 : i = 1 \/ i = 2 \/ i = 3 \/ i = 4
    OBVIOUS
  <2> QED
    BY <1>2, <2>1, <2>2
<1> QED
  BY <1>2, <1>3, <1>4, SeqEqual DEF s, t, u

(* One octet, and the octets an address can have. *)
Octet == 0..255
OctetsOf(d) == Wire \cup {IF d = IPv4 THEN Named4 ELSE Named6}

LEMMA OctetsType ==
  ASSUME NEW d, NEW o \in OctetsOf(d)
  PROVE  \E w, x, y, z \in Octet : o = <<w, x, y, z>>
<1>0. 0 \in Octet /\ 1 \in Octet /\ 2 \in Octet /\ 10 \in Octet
  BY DEF Octet
<1>1. CASE o \in Wire
  <2>1. PICK x, y \in Octets : o = <<x, 0, 0, y>>
    BY <1>1 DEF Wire
  <2>2. x \in Octet /\ y \in Octet
    BY FormatAssumption DEF Octet
  <2> QED
    BY <1>0, <2>1, <2>2
<1>2. CASE o = Named4
  <2>1. o = <<10, 0, 0, 1>>
    BY <1>2 DEF Named4
  <2> QED
    BY <1>0, <2>1
<1>3. CASE o = Named6
  <2>1. o = <<0, 1, 0, 2>>
    BY <1>3 DEF Named6
  <2> QED
    BY <1>0, <2>1
<1> QED
  BY <1>1, <1>2, <1>3 DEF OctetsOf

LEMMA GroupsAre ==
  ASSUME NEW w \in Octet, NEW x \in Octet, NEW y \in Octet, NEW z \in Octet
  PROVE  Groups(<<w, x, y, z>>) = <<w * 256 + x, y * 256 + z>>
<1> DEFINE o == <<w, x, y, z>>
<1>1. o[1] = w /\ o[2] = x /\ o[3] = y /\ o[4] = z
  OBVIOUS
<1> HIDE DEF o
<1>2. SubSeq(o, 1, 2)[1] = w /\ SubSeq(o, 1, 2)[2] = x
  <2>1. \A i \in 1..2 : o[i] \in Octet
    BY <1>1
  <2>2. \A i \in 1..(2 - 1 + 1) : SubSeq(o, 1, 2)[i] = o[1 + i - 1]
    BY <2>1, SubSeqProperties
  <2>3. 1 \in 1..(2 - 1 + 1) /\ 2 \in 1..(2 - 1 + 1) /\ 1 + 1 - 1 = 1 /\ 1 + 2 - 1 = 2
    OBVIOUS
  <2> QED
    BY <1>1, <2>2, <2>3
<1>3. SubSeq(o, 3, 4)[1] = y /\ SubSeq(o, 3, 4)[2] = z
  <2>1. \A i \in 3..4 : o[i] \in Octet
    BY <1>1
  <2>2. \A i \in 1..(4 - 3 + 1) : SubSeq(o, 3, 4)[i] = o[3 + i - 1]
    BY <2>1, SubSeqProperties
  <2>3. 1 \in 1..(4 - 3 + 1) /\ 2 \in 1..(4 - 3 + 1) /\ 3 + 1 - 1 = 3 /\ 3 + 2 - 1 = 4
    OBVIOUS
  <2> QED
    BY <1>1, <2>2, <2>3
<1> QED
  BY <1>2, <1>3 DEF Groups, ntohs, o

(* swapEndian twice. *)
LEMMA OctetsThere ==
  ASSUME NEW d, NEW o \in OctetsOf(d)
  PROVE  Octetted(Groups(o)) = o /\ Groups(o) \in Seq(0..(PortModulus - 1))
<1>1. PICK w, x, y, z \in Octet : o = <<w, x, y, z>>
  BY OctetsType
<1> DEFINE g == w * 256 + x
           h == y * 256 + z
           Group == 0..(PortModulus - 1)
<1>2. /\ g \in Group /\ h \in Group
      /\ htons(g) = <<w, x>> /\ htons(h) = <<y, z>>
  <2>1. w \in 0..255 /\ x \in 0..255 /\ y \in 0..255 /\ z \in 0..255
    BY DEF Octet
  <2>2. g \in Group /\ htons(g) = <<w, x>>
    BY <2>1, PairThere
  <2>3. h \in Group /\ htons(h) = <<y, z>>
    BY <2>1, PairThere
  <2> QED
    BY <2>2, <2>3
<1>3. Groups(o) = <<g, h>>
  BY <1>1, GroupsAre
<1> HIDE DEF g, h, Group
<1>4. Groups(o) \in Seq(Group)
  BY <1>2, <1>3
<1>5. <<w, x>> \o <<y, z>> = <<w, x, y, z>>
  BY TwoJoined
<1>6. Octetted(Groups(o)) = htons(g) \o htons(h)
  <2>1. Groups(o)[1] = g /\ Groups(o)[2] = h
    BY <1>3
  <2> QED
    BY <2>1 DEF Octetted
<1> QED
  BY <1>1, <1>2, <1>4, <1>5, <1>6 DEF Group

-----------------------------------------------------------------------------
(* IPv4 and IPv6 addresses.                                                *)

Domains == {IPv4, IPv6}
Scopes(d) == IF d = IPv4 THEN {0} ELSE {0, 1}

(* The names that an address keeps: what it was constructed from, or what  *)
(* inet_ntop made of it.                                                   *)
NamedHosts == Hosts \cup {Numeric(IPv4, Named4, 0), Numeric(IPv6, Named6, 0)}
Ports == {NoPort} \cup Nat
Names == [scheme : {NoScheme, "http"}, host : NamedHosts, bracketed : BOOLEAN, port : Ports]

LEMMA DomainsDiffer ==
  /\ unix # IPv4 /\ unix # IPv6 /\ IPv4 # IPv6 /\ NoDomain \notin {unix, IPv4, IPv6}
  /\ {unix, IPv4, IPv6, NoDomain} \subseteq Nat /\ NoPort \notin Nat
  BY DEF unix, IPv4, IPv6, NoDomain, NoPort

LEMMA TextIs ==
  ASSUME NEW s, NEW h, NEW br, NEW p
  PROVE  /\ Text(s, h, br, p).scheme = s /\ Text(s, h, br, p).host = h
         /\ Text(s, h, br, p).bracketed = br /\ Text(s, h, br, p).port = p
  BY DEF Text

LEMMA TextType ==
  ASSUME NEW s \in {NoScheme, "http"}, NEW h \in NamedHosts, NEW br \in BOOLEAN, NEW p \in Ports
  PROVE  Text(s, h, br, p) \in Names
  BY DEF Text, Names

LEMMA TextsAreNames ==
  ASSUME NEW t \in Texts
  PROVE  t \in Names
<1>1. WrittenPorts \subseteq Ports /\ NoPort \in Ports /\ Hosts \subseteq NamedHosts
  BY FormatAssumption DEF Ports, NamedHosts
<1> DEFINE Others == {h \in Hosts : h.kind # IPv6}
           Sixes == {h \in Hosts : h.kind = IPv6}
           Plain == {Text(s, h, FALSE, p) : s \in {NoScheme, "http"}, h \in Others,
                                            p \in WrittenPorts \cup {NoPort}}
           Bare == {Text(NoScheme, h, FALSE, NoPort) : h \in Sixes}
           Bracketed == {Text(NoScheme, h, TRUE, p) : h \in Sixes, p \in WrittenPorts}
<1>2. Others \subseteq NamedHosts /\ Sixes \subseteq NamedHosts
  BY <1>1
<1>3. Texts = Plain \cup Bare \cup Bracketed
  BY DEF Texts
<1> HIDE DEF Others, Sixes
<1>4. ASSUME t \in Plain
      PROVE  t \in Names
  <2>1. PICK s \in {NoScheme, "http"}, h \in Others, p \in WrittenPorts \cup {NoPort} : t = Text(s, h, FALSE, p)
    BY <1>4, SMT DEF Text
  <2> QED
    BY <1>1, <1>2, <2>1 DEF Text, Names
<1>5. ASSUME t \in Bare
      PROVE  t \in Names
  <2>1. PICK h \in Sixes : t = Text(NoScheme, h, FALSE, NoPort)
    BY <1>5, SMT DEF Text
  <2> QED
    BY <1>1, <1>2, <2>1 DEF Text, Names
<1>6. ASSUME t \in Bracketed
      PROVE  t \in Names
  <2>1. PICK h \in Sixes, p \in WrittenPorts : t = Text(NoScheme, h, TRUE, p)
    BY <1>6, SMT DEF Text
  <2> QED
    BY <1>1, <1>2, <2>1 DEF Text, Names
<1> HIDE DEF Plain, Bare, Bracketed
<1> QED
  BY <1>3, <1>4, <1>5, <1>6

LEMMA HostIs ==
  ASSUME NEW d \in Domains, NEW t \in Names, Accepts(d, t)
  PROVE  ResolvedOctets(d, t.host) \in OctetsOf(d) /\ t.host.scope \in Scopes(d)
<1> DEFINE h == t.host
<1>1. h \in NamedHosts
  BY DEF Names
<1>2. h.kind \in {d, NoDomain}
  BY DomainsDiffer DEF Accepts, IPv4Accepts, IPv6Accepts, Resolves, Domains
<1> HIDE DEF h
<1>3. CASE h = HostName
  <2>1. h.scope = 0
    BY <1>3 DEF HostName
  <2> QED
    BY <1>3, <2>1 DEF ResolvedOctets, OctetsOf, Scopes, h
<1>4. ASSUME NEW k \in Domains, NEW o, NEW s, h = Numeric(k, o, s),
             o \in OctetsOf(k), s \in Scopes(k)
      PROVE  ResolvedOctets(d, h) \in OctetsOf(d) /\ h.scope \in Scopes(d)
  <2>1. h.kind = k /\ h.octets = o /\ h.scope = s
    BY <1>4 DEF Numeric
  <2>2. k = d
    BY <1>2, <2>1, DomainsDiffer DEF Domains
  <2>3. HostName.kind = NoDomain
    BY DEF HostName
  <2>4. h # HostName
    BY <2>1, <2>3, DomainsDiffer DEF Domains
  <2> QED
    BY <1>4, <2>1, <2>2, <2>4 DEF ResolvedOctets
<1>5. CASE \E w \in Wire : h = Numeric(IPv4, w, 0)
  <2>1. PICK w \in Wire : h = Numeric(IPv4, w, 0)
    BY <1>5
  <2>2. IPv4 \in Domains /\ w \in OctetsOf(IPv4) /\ 0 \in Scopes(IPv4)
    BY DEF Domains, OctetsOf, Scopes
  <2> QED
    BY <1>4, <2>1, <2>2 DEF h
<1>6. CASE \E w \in Wire, s \in {0, 1} : h = Numeric(IPv6, w, s)
  <2>1. PICK w \in Wire, s \in {0, 1} : h = Numeric(IPv6, w, s)
    BY <1>6
  <2>2. IPv6 \in Domains /\ w \in OctetsOf(IPv6) /\ s \in Scopes(IPv6)
    BY DomainsDiffer DEF Domains, OctetsOf, Scopes
  <2> QED
    BY <1>4, <2>1, <2>2 DEF h
<1>7. CASE h \in {Numeric(IPv4, Named4, 0), Numeric(IPv6, Named6, 0)}
  <2>1. /\ IPv4 \in Domains /\ Named4 \in OctetsOf(IPv4) /\ 0 \in Scopes(IPv4)
        /\ IPv6 \in Domains /\ Named6 \in OctetsOf(IPv6) /\ 0 \in Scopes(IPv6)
    BY DomainsDiffer DEF Domains, OctetsOf, Scopes
  <2> QED
    BY <1>4, <1>7, <2>1 DEF h
<1> QED
  BY <1>1, <1>3, <1>5, <1>6, <1>7 DEF NamedHosts, Hosts, h

LEMMA PortType ==
  ASSUME NEW t \in Names
  PROVE  ParsedPort(t) \in 0..(PortModulus - 1)
<1> DEFINE P == 0..(PortModulus - 1)
<1>1. t.port \in Ports
  BY DEF Names
<1>2. t.port \in Nat => t.port % PortModulus \in P
  BY ModBelow, ModulusType
<1>3. 0 \in P /\ 80 \in P
  BY ModulusType
<1> HIDE DEF P
<1>4. (IF t.port = NoPort THEN 0 ELSE t.port % PortModulus) \in P
  BY <1>1, <1>2, <1>3 DEF Ports
<1> QED
  BY <1>3, <1>4 DEF ParsedPort, ServicePort, P

(* A port that is written and fits is the port. *)
LEMMA PortWritten ==
  ASSUME NEW t, t.port \in 1..(PortModulus - 1)
  PROVE  ParsedPort(t) = t.port
<1>1. t.port % PortModulus = t.port /\ t.port # 0 /\ t.port # NoPort
  <2>1. t.port \in 0..(PortModulus - 1) /\ t.port # 0 /\ t.port \in Nat
    BY ModulusType
  <2> QED
    BY <2>1, ModSame, ModulusType, DomainsDiffer
<1> QED
  BY <1>1 DEF ParsedPort

-----------------------------------------------------------------------------
(* IPv4 and IPv6 addresses and their C structures.                         *)

StructOf(d, octets, port, s) ==
  [family |-> d, addr |-> octets, port |-> htons(port), scope |-> s]

LEMMA InetIs ==
  ASSUME NEW d, NEW o, NEW p, NEW s, NEW t
  PROVE  /\ InetAddress(d, o, p, s, t).dom = d /\ InetAddress(d, o, p, s, t).has = TRUE
         /\ InetAddress(d, o, p, s, t).port = p /\ InetAddress(d, o, p, s, t).scope = s
         /\ InetAddress(d, o, p, s, t).name = t
         /\ InetAddress(d, o, p, s, t).addr = IF d = IPv6 THEN Groups(o) ELSE o
  BY DEF InetAddress

(* The conversion to a C structure, and the one back. *)
LEMMA InetToStruct ==
  ASSUME NEW d \in Domains, NEW o \in OctetsOf(d), NEW p, NEW s \in Scopes(d), NEW t
  PROVE  ToStruct(InetAddress(d, o, p, s, t)) = StructOf(d, o, p, s)
<1> DEFINE x == InetAddress(d, o, p, s, t)
<1>1. /\ x.dom = d /\ x.port = p /\ x.scope = s
      /\ x.addr = IF d = IPv6 THEN Groups(o) ELSE o
  BY DEF InetAddress
<1>2. Octetted(Groups(o)) = o
  BY OctetsThere
<1> HIDE DEF x
<1>3. CASE d = IPv4
  <2>1. ToStruct(x) = IPv4Struct(x)
    BY <1>1, <1>3, DomainsDiffer DEF ToStruct
  <2>2. x.addr = o /\ s = 0
    BY <1>1, <1>3, DomainsDiffer DEF Scopes
  <2> QED
    BY <1>1, <1>3, <2>1, <2>2 DEF IPv4Struct, StructOf, x
<1>4. CASE d = IPv6
  <2>1. ToStruct(x) = IPv6Struct(x)
    BY <1>1, <1>4, DomainsDiffer DEF ToStruct
  <2> QED
    BY <1>1, <1>2, <1>4, <2>1 DEF IPv6Struct, StructOf, x
<1> QED
  BY <1>3, <1>4 DEF Domains

LEMMA InetFromStruct ==
  ASSUME NEW d \in Domains, NEW o \in OctetsOf(d), NEW p \in 0..(PortModulus - 1), NEW s \in Scopes(d)
  PROVE  \E t \in Names :
           /\ FromStruct(StructOf(d, o, p, s)) = InetAddress(d, o, p, s, t) /\ Accepts(d, t)
           /\ ResolvedOctets(d, t.host) = o /\ ParsedPort(t) = p
<1> DEFINE c == StructOf(d, o, p, s)
           h == Numeric(d, o, 0)
           br == (d = IPv6)
           t == Text(NoScheme, h, br, p)
<1>1. c.family = d /\ c.addr = o /\ c.port = htons(p) /\ c.scope = s
  BY DEF StructOf
<1>2. ntohs(c.port) = p
  BY <1>1, PortThere
<1> HIDE DEF c
<1>3. NameOf(c) = t
  BY <1>1, <1>2 DEF NameOf
<1>4. h.kind = d /\ h.octets = o /\ h # HostName
  <2>1. h.kind = d /\ h.octets = o
    BY DEF Numeric
  <2>2. HostName.kind = NoDomain
    BY DEF HostName
  <2> QED
    BY <2>1, <2>2, DomainsDiffer DEF Domains
<1>5. h \in NamedHosts
  <2>1. CASE d = IPv4
    BY <2>1 DEF OctetsOf, NamedHosts, Hosts
  <2>2. CASE d = IPv6
    BY <2>2, DomainsDiffer DEF OctetsOf, NamedHosts, Hosts
  <2> QED
    BY <2>1, <2>2 DEF Domains
<1> HIDE DEF h
<1>6. t.scheme = NoScheme /\ t.host = h /\ t.bracketed = br /\ t.port = p
  BY DEF Text
<1>7. p \in Nat
  BY ModulusType
<1>8. t \in Names
  <2>1. p \in Ports
    BY <1>7 DEF Ports
  <2> QED
    BY <1>5, <2>1, TextType
<1> HIDE DEF t, br
<1>9. ParsedPort(t) = p
  <2>1. p % PortModulus = p /\ p # NoPort
    BY <1>7, ModSame, ModulusType, DomainsDiffer
  <2> QED
    BY <1>6, <2>1 DEF ParsedPort, ServicePort, NoScheme
<1>10. ResolvedOctets(d, t.host) = o
  BY <1>4, <1>6 DEF ResolvedOctets
<1>11. Accepts(d, t)
  <2>1. t.host.kind = d /\ (t.bracketed <=> d = IPv6)
    BY <1>4, <1>6 DEF br
  <2> QED
    BY <2>1, DomainsDiffer DEF Accepts, IPv4Accepts, IPv6Accepts, Resolves, Domains
<1>12. FromStruct(c) = InetAddress(d, o, p, s, t)
  <2>1. CASE d = IPv4
    <3>1. FromStruct(c) = IPv4FromStruct(c) /\ s = 0
      BY <1>1, <2>1, DomainsDiffer DEF FromStruct, Scopes
    <3> QED
      BY <1>1, <1>2, <1>3, <2>1, <3>1 DEF IPv4FromStruct
  <2>2. CASE d = IPv6
    <3>1. FromStruct(c) = IPv6FromStruct(c)
      BY <1>1, <2>2, DomainsDiffer DEF FromStruct
    <3> QED
      BY <1>1, <1>2, <1>3, <2>2, <3>1 DEF IPv6FromStruct
  <2> QED
    BY <2>1, <2>2 DEF Domains
<1> QED
  BY <1>8, <1>9, <1>10, <1>11, <1>12 DEF c

-----------------------------------------------------------------------------
(* Paths and their C structures.                                           *)

(* What is left of a sequence that begins like another, of its length.     *)
LEMMA BeginningIs ==
  ASSUME NEW s \in Seq(Int), NEW t \in Seq(Int), Len(t) <= Len(s),
         \A i \in 1..Len(t) : s[i] = t[i]
  PROVE  SubSeq(s, 1, Len(t)) = t
<1> DEFINE n == Len(t)
           x == SubSeq(s, 1, n)
<1>1. n \in Nat /\ Len(s) \in Nat
  BY SeqPlaces
<1>2. SubSeq(s, 1, n) = SubSeq(t, 1, n)
  BY <1>1, BeginningsEqual
<1>3. SubSeq(t, 1, n) = t
  <2> DEFINE y == SubSeq(t, 1, n)
  <2>1. n \in 0..n
    BY <1>1
  <2>2. y \in Seq(Int) /\ Len(y) = n /\ \A i \in 1..n : y[i] = t[i]
    <3>1. \A i \in 1..n : t[i] \in Int
      BY SeqPlaces
    <3>2. /\ y \in Seq(Int) /\ Len(y) = (IF 1 <= n THEN n - 1 + 1 ELSE 0)
          /\ \A i \in 1..(n - 1 + 1) : y[i] = t[1 + i - 1]
      BY <1>1, <3>1, SubSeqProperties
    <3> HIDE DEF n, y
    <3>3. (IF 1 <= n THEN n - 1 + 1 ELSE 0) = n /\ \A i \in 1..n : i \in 1..(n - 1 + 1) /\ 1 + i - 1 = i
      BY <1>1
    <3> QED
      BY <3>2, <3>3
  <2> HIDE DEF y
  <2>3. y = t
    BY <2>2, SeqEqual
  <2> QED
    BY <2>3 DEF y
<1> QED
  BY <1>2, <1>3

LEMMA PathIs ==
  ASSUME NEW p
  PROVE  p \in Paths <=> p \in Seq(Octets) /\ Len(p) <= PathSize
<1> USE FormatAssumption
<1>1. ASSUME p \in Paths
      PROVE  p \in Seq(Octets) /\ Len(p) <= PathSize
  <2>1. PICK n \in 0..PathSize : p \in [1..n -> Octets]
    BY <1>1 DEF Paths
  <2>2. n \in Nat
    BY <2>1
  <2>3. p \in Seq(Octets)
    BY <2>1, <2>2, SeqOfFunction
  <2> QED
    BY <1>1, <2>3 DEF Paths
<1>2. ASSUME p \in Seq(Octets), Len(p) <= PathSize
      PROVE  p \in Paths
  <2> DEFINE n == Len(p)
  <2>1. n \in Nat /\ p \in [1..n -> Octets]
    BY <1>2, LenProperties
  <2> HIDE DEF n
  <2>2. n \in 0..PathSize
    BY <1>2, <2>1 DEF n
  <2> QED
    BY <1>2, <2>1, <2>2 DEF Paths
<1> QED
  BY <1>1, <1>2

LEMMA PathType ==
  ASSUME NEW p \in Paths
  PROVE  /\ p \in Seq(Octets) /\ p \in Seq(Int) /\ Len(p) \in Nat /\ Len(p) <= PathSize
         /\ DOMAIN p = 1..Len(p) /\ (p = <<>> <=> Len(p) = 0)
         /\ \A i \in 1..Len(p) : p[i] \in Octets /\ p[i] \in Int
<1>1. p \in Seq(Octets) /\ Len(p) <= PathSize
  BY PathIs
<1>2. Octets \subseteq Int /\ PathSize \in Nat
  BY FormatAssumption
<1>3. /\ Len(p) \in Nat /\ DOMAIN p = 1..Len(p) /\ (p = <<>> <=> Len(p) = 0)
      /\ \A i \in DOMAIN p : p[i] \in Octets
  BY <1>1, SeqPlaces
<1>4. p \in [1..Len(p) -> Int]
  <2>1. p \in [1..Len(p) -> Octets]
    BY <1>1, LenProperties
  <2> QED
    BY <1>2, <2>1
<1>5. p \in Seq(Int)
  BY <1>3, <1>4, SeqOfFunction
<1> QED
  BY <1>1, <1>2, <1>3, <1>5

(* The conversion to a C structure and back: unnamed, abstract, pathname.  *)
LEMMA PathThere ==
  ASSUME NEW p \in Paths
  PROVE  PathOf(UnixStruct(p)) = p
<1> DEFINE n == Len(p)
           z == SizeOf(p)
           q == [i \in 1..PathSize |-> IF i > z - PathOffset THEN Garbage
                                       ELSE IF i = n + 1 THEN 0 ELSE p[i]]
           c == UnixStruct(p)
<1>1. /\ p \in Seq(Int) /\ n \in Nat /\ n <= PathSize /\ (p = <<>> <=> n = 0)
      /\ \A i \in 1..n : p[i] \in Int
      /\ PathSize \in Nat
  BY PathType, FormatAssumption
<1>2. c.len = z /\ c.path = q
  BY DEF UnixStruct, Terminator
<1>3. z = IF n = 0 THEN 2 ELSE IF p[1] = 0 THEN n + 2 ELSE n + 3
  BY <1>1 DEF SizeOf, FamilySize, PathOffset
<1> HIDE DEF n, z, c
<1>4. q \in [1..PathSize -> Int]
  <2>1. \A i \in 1..PathSize : ~(i > z - 2) /\ i # n + 1 => i \in 1..n
    BY <1>1, <1>3
  <2>2. \A i \in 1..PathSize : q[i] \in Int
    BY <1>1, <2>1 DEF Garbage, PathOffset
  <2> QED
    BY <2>2
<1>5. q \in Seq(Int) /\ Len(q) = PathSize
  BY <1>1, <1>4, SeqOfFunction
<1>6. \A i \in 1..n : q[i] = p[i]
  <2>1. ASSUME NEW i \in 1..n
        PROVE  i \in 1..PathSize /\ ~(i > z - 2) /\ i # n + 1
    BY <1>1, <1>3
  <2> QED
    BY <2>1 DEF PathOffset
<1> HIDE DEF q
<1>7. SubSeq(q, 1, n) = p
  BY <1>1, <1>5, <1>6, BeginningIs DEF n
<1>8. CASE n = 0
  <2>1. ~(z > 3) /\ ~(z > 2)
    BY <1>3, <1>8
  <2> QED
    BY <1>1, <1>2, <1>8, <2>1 DEF PathOf, PathOffset, FamilySize, c
<1>9. CASE n # 0 /\ p[1] = 0
  <2>1. z = n + 2 /\ z > 2 /\ z - 2 = n /\ 1 \in 1..n
    BY <1>1, <1>3, <1>9
  <2>2. q[1] = 0
    BY <1>6, <1>9, <2>1
  <2>3. ~(c.len > PathOffset + 1 /\ c.path[1] # 0) /\ c.len > FamilySize /\ c.len - FamilySize = n
    BY <1>2, <2>1, <2>2 DEF FamilySize
  <2>4. PathOf(c) = SubSeq(c.path, 1, c.len - FamilySize)
    BY <2>3 DEF PathOf
  <2> QED
    BY <1>2, <1>7, <2>3, <2>4 DEF c
<1>10. CASE n # 0 /\ p[1] # 0
  <2>1. z = n + 3 /\ z > 2 + 1 /\ z - 2 - 1 = n /\ 1 \in 1..n
    BY <1>1, <1>3, <1>10
  <2>2. q[1] # 0
    BY <1>6, <1>10, <2>1
  <2>3. c.len > PathOffset + 1 /\ c.path[1] # 0 /\ c.len - PathOffset - 1 = n
    BY <1>2, <2>1, <2>2 DEF PathOffset
  <2>4. PathOf(c) = SubSeq(c.path, 1, c.len - PathOffset - 1)
    BY <2>3 DEF PathOf
  <2> QED
    BY <1>2, <1>7, <2>3, <2>4 DEF c
<1> QED
  BY <1>8, <1>9, <1>10

(* What the kernel leaves of a path is a path, and stays what it is.       *)
LEMMA CutIs ==
  ASSUME NEW p \in Paths
  PROVE  /\ CutAtZero(p) \in Paths /\ CutAtZero(CutAtZero(p)) = CutAtZero(p)
         /\ Len(CutAtZero(p)) <= Len(p)
<1> DEFINE Z(s) == {i \in 1..Len(s) : s[i] = 0}
<1>1. /\ p \in Seq(Octets) /\ Len(p) \in Nat /\ Len(p) <= PathSize /\ PathSize \in Nat
      /\ \A i \in 1..Len(p) : p[i] \in Octets
  BY PathType, FormatAssumption
<1>2. CASE Z(p) = {} \/ p[1] = 0
  <2>1. CutAtZero(p) = p
    BY <1>2 DEF CutAtZero
  <2> QED
    BY <1>1, <2>1
<1>3. CASE ~(Z(p) = {} \/ p[1] = 0)
  <2> DEFINE k == CHOOSE i \in Z(p) : \A j \in Z(p) : i <= j
             q == SubSeq(p, 1, k - 1)
  <2>1. Z(p) \in SUBSET Nat /\ Z(p) # {}
    BY <1>1, <1>3
  <2>2. k \in Z(p) /\ \A j \in Z(p) : k <= j
    BY <2>1, LeastExists
  <2>3. CutAtZero(p) = q
    BY <1>3 DEF CutAtZero
  <2> HIDE DEF k
  <2>4. k \in 1..Len(p) /\ k # 1 /\ p[k] = 0
    BY <1>3, <2>2
  <2>5. k - 1 \in 0..Len(p) /\ k - 1 >= 1
    BY <1>1, <2>4
  <2>6. q \in Seq(Octets) /\ Len(q) = k - 1
    BY <1>1, <2>5, SeqSplit
  <2>7. \A i \in 1..(k - 1) : q[i] = p[i]
    <3>1. \A i \in 1..(k - 1) : p[i] \in Octets
      BY <1>1, <2>5
    <3>2. \A i \in 1..(k - 1 - 1 + 1) : q[i] = p[1 + i - 1]
      BY <2>5, <3>1, SubSeqProperties
    <3>3. \A i \in 1..(k - 1) : i \in 1..(k - 1 - 1 + 1) /\ 1 + i - 1 = i
      BY <2>5
    <3> QED
      BY <3>2, <3>3
  <2> HIDE DEF q
  <2>8. q \in Paths
    <3>1. Len(q) <= PathSize
      BY <1>1, <2>5, <2>6
    <3> QED
      BY <2>6, <3>1, PathIs
  <2>9. {i \in 1..Len(q) : q[i] = 0} = {}
    <3>1. ASSUME NEW i \in 1..Len(q), q[i] = 0
          PROVE  FALSE
      <4>1. i \in 1..(k - 1) /\ i \in 1..Len(p) /\ ~(k <= i)
        BY <1>1, <2>4, <2>6, <3>1
      <4>2. i \in Z(p)
        BY <2>7, <3>1, <4>1
      <4> QED
        BY <2>2, <4>1, <4>2
    <3> QED
      BY <3>1
  <2>10. CutAtZero(q) = q
    BY <2>9 DEF CutAtZero
  <2>11. Len(q) <= Len(p)
    BY <1>1, <2>5, <2>6
  <2> QED
    BY <2>3, <2>8, <2>10, <2>11
<1> QED
  BY <1>2, <1>3

-----------------------------------------------------------------------------
(* The invariant: what the address that was constructed and what became of *)
(* it have in common.                                                      *)

PortNumbers == 0..(PortModulus - 1)
Ways == {"copy", "bind", "name", "move"}

(* The name t means octets o and port p. *)
Means(t, d, o, p) ==
  t \in Names /\ Accepts(d, t) /\ ResolvedOctets(d, t.host) = o /\ ParsedPort(t) = p

(* The scope of an address is lost with its name, octets and port are not. *)
InetsAgree ==
  \E d \in Domains : \E o \in OctetsOf(d), p \in PortNumbers, s \in Scopes(d), r \in Scopes(d) :
    \E t, u \in Names :
      /\ Means(t, d, o, p) /\ a = InetAddress(d, o, p, s, t)
      /\ Means(u, d, o, p) /\ b = InetAddress(d, o, p, r, u)
      /\ "name" \notin via => r = s

(* A path changes only in the kernel, and there once. *)
PathsAgree ==
  \E p, q \in Paths :
    /\ a = unixAddress(p) /\ b = unixAddress(q)
    /\ q = p \/ ("bind" \in via /\ q = CutAtZero(p))

(* Before the construction, or after a move. *)
Constructed(x) ==
  \/ \E p \in Paths : x = unixAddress(p)
  \/ \E d \in Domains : \E o \in OctetsOf(d), p \in PortNumbers, s \in Scopes(d), t \in Names :
       Means(t, d, o, p) /\ x = InetAddress(d, o, p, s, t)

Tags == {unix, IPv4, IPv6, NoDomain}

BlankOrMoved ==
  (a = Blank \/ Constructed(a)) /\ \E d \in Tags : b = NoPointee(d)

FormatsInv == via \subseteq Ways /\ (InetsAgree \/ PathsAgree \/ BlankOrMoved)

LEMMA NoPointeeIs ==
  ASSUME NEW d
  PROVE  NoPointee(d).dom = d /\ NoPointee(d).has = FALSE /\ Blank.has = FALSE
  BY DEF NoPointee, Blank

LEMMA UnixIs ==
  ASSUME NEW p
  PROVE  /\ unixAddress(p).dom = unix /\ unixAddress(p).has = TRUE /\ unixAddress(p).path = p
         /\ UnixStruct(p).family = unix
  BY DEF unixAddress, UnixStruct

LEMMA InetFields ==
  ASSUME NEW x, NEW d, NEW o, NEW p, NEW s, NEW t, x = InetAddress(d, o, p, s, t)
  PROVE  /\ x.dom = d /\ x.has = TRUE /\ x.port = p /\ x.scope = s /\ x.name = t
         /\ x.addr = IF d = IPv6 THEN Groups(o) ELSE o
  BY DEF InetAddress

LEMMA UnixThere ==
  ASSUME NEW p \in Paths
  PROVE  FromStruct(UnixStruct(p)) = unixAddress(p) /\ ToStruct(unixAddress(p)) = UnixStruct(p)
<1>1. FromStruct(UnixStruct(p)) = unixAddress(PathOf(UnixStruct(p)))
  <2> DEFINE c == UnixStruct(p)
  <2>1. c.family = unix
    BY UnixIs
  <2> HIDE DEF c
  <2>2. FromStruct(c) = unixAddress(PathOf(c))
    BY <2>1, DomainsDiffer DEF FromStruct
  <2> QED
    BY <2>2 DEF c
<1>2. ToStruct(unixAddress(p)) = UnixStruct(p)
  <2> DEFINE x == unixAddress(p)
  <2>1. x.dom = unix /\ x.path = p
    BY UnixIs
  <2> HIDE DEF x
  <2>2. ToStruct(x) = UnixStruct(p)
    BY <2>1, DomainsDiffer DEF ToStruct
  <2> QED
    BY <2>2 DEF x
<1> QED
  BY <1>1, <1>2, PathThere

(* What a text with a meaning becomes. *)
LEMMA FromTextIs ==
  ASSUME NEW d \in Domains, NEW t \in Names, Accepts(d, t)
  PROVE  \E o \in OctetsOf(d), p \in PortNumbers, s \in Scopes(d) :
           Means(t, d, o, p) /\ FromText(d, t) = InetAddress(d, o, p, s, t)
<1>1. ResolvedOctets(d, t.host) \in OctetsOf(d) /\ t.host.scope \in Scopes(d)
  BY HostIs
<1>2. ParsedPort(t) \in PortNumbers
  BY PortType DEF PortNumbers
<1> QED
  BY <1>1, <1>2 DEF FromText, Means

LEMMA ConstructStep ==
  ASSUME FormatsInv, NEW x, Constructed(x), Construct(x)
  PROVE  FormatsInv'
<1>1. a' = x /\ b' = x /\ via' = {}
  BY DEF Construct
<1>2. CASE \E p \in Paths : x = unixAddress(p)
  BY <1>1, <1>2 DEF FormatsInv, PathsAgree
<1>3. CASE \E d \in Domains : \E o \in OctetsOf(d), p \in PortNumbers, s \in Scopes(d), t \in Names :
             Means(t, d, o, p) /\ x = InetAddress(d, o, p, s, t)
  BY <1>1, <1>3 DEF FormatsInv, InetsAgree
<1> QED
  BY <1>2, <1>3 DEF Constructed

LEMMA StructsMean ==
  ASSUME NEW c \in Structs
  PROVE  Constructed(FromStruct(c))
<1> DEFINE Internet(d, w, p, s) ==
             [family |-> d, addr |-> w, port |-> htons(p), scope |-> IF d = IPv6 THEN s ELSE 0]
<1>1. CASE c \in {UnixStruct(p) : p \in Paths}
  BY <1>1, UnixThere DEF Constructed
<1>2. CASE c \in {Internet(d, w, p, s) : d \in {IPv4, IPv6}, w \in Wire, p \in {0, 80}, s \in {0, 1}}
  <2>1. PICK d \in {IPv4, IPv6}, w \in Wire, p \in {0, 80}, s \in {0, 1} : c = Internet(d, w, p, s)
    BY <1>2, SMT
  <2>2. PICK r \in Scopes(d) : c = StructOf(d, w, p, r)
    BY <2>1, DomainsDiffer DEF StructOf, Scopes
  <2>3. d \in Domains /\ w \in OctetsOf(d) /\ p \in PortNumbers
    BY <2>1, ModulusType DEF Domains, OctetsOf, PortNumbers
  <2>4. PICK t \in Names : /\ FromStruct(c) = InetAddress(d, w, p, r, t)
                           /\ Accepts(d, t) /\ ResolvedOctets(d, t.host) = w /\ ParsedPort(t) = p
    BY <2>2, <2>3, InetFromStruct DEF PortNumbers
  <2> QED
    BY <2>3, <2>4 DEF Constructed, Means
<1> QED
  BY <1>1, <1>2 DEF Structs

LEMMA CopyStep ==
  ASSUME FormatsInv, Copy
  PROVE  FormatsInv'
<1>1. via' = via \cup {"copy"} /\ a' = a /\ ("name" \notin via' <=> "name" \notin via)
      /\ ("bind" \in via' <=> "bind" \in via)
      /\ b' = IF b.has THEN FromStruct(ToStruct(b)) ELSE NoPointee(b.dom)
  BY DEF Copy, Becomes
<1>2. via' \subseteq Ways
  BY <1>1 DEF FormatsInv, Ways
<1>3. CASE InetsAgree
  <2>0. PICK d \in Domains : \E o \in OctetsOf(d), p \in PortNumbers, s \in Scopes(d), r \in Scopes(d) :
          \E t, u \in Names :
            /\ Means(t, d, o, p) /\ a = InetAddress(d, o, p, s, t)
            /\ Means(u, d, o, p) /\ b = InetAddress(d, o, p, r, u)
            /\ "name" \notin via => r = s
    BY <1>3 DEF InetsAgree
  <2>1. PICK o \in OctetsOf(d), p \in PortNumbers, s \in Scopes(d), r \in Scopes(d),
             t \in Names, u \in Names :
          /\ Means(t, d, o, p) /\ a = InetAddress(d, o, p, s, t)
          /\ Means(u, d, o, p) /\ b = InetAddress(d, o, p, r, u)
          /\ "name" \notin via => r = s
    BY <2>0
  <2>2. b' = FromStruct(StructOf(d, o, p, r))
    <3>1. b.has = TRUE
      BY <2>1, InetFields
    <3>2. ToStruct(b) = StructOf(d, o, p, r)
      BY <2>1, InetToStruct
    <3> QED
      BY <1>1, <3>1, <3>2
  <2>3. PICK v \in Names : /\ b' = InetAddress(d, o, p, r, v)
                           /\ Accepts(d, v) /\ ResolvedOctets(d, v.host) = o /\ ParsedPort(v) = p
    BY <2>2, InetFromStruct DEF PortNumbers
  <2>4. Means(v, d, o, p)
    BY <2>3 DEF Means
  <2>5. InetsAgree'
    BY <1>1, <2>1, <2>3, <2>4 DEF InetsAgree
  <2> QED
    BY <1>2, <2>5 DEF FormatsInv
<1>4. CASE PathsAgree
  <2>1. PICK p \in Paths, q \in Paths :
          a = unixAddress(p) /\ b = unixAddress(q) /\ (q = p \/ ("bind" \in via /\ q = CutAtZero(p)))
    BY <1>4 DEF PathsAgree
  <2>2. b' = unixAddress(q)
    BY <1>1, <2>1, UnixIs, UnixThere
  <2>3. PathsAgree'
    BY <1>1, <2>1, <2>2 DEF PathsAgree
  <2> QED
    BY <1>2, <2>3 DEF FormatsInv
<1>5. CASE BlankOrMoved
  <2>1. PICK d \in Tags : b = NoPointee(d)
    BY <1>5 DEF BlankOrMoved
  <2>2. b' = NoPointee(d)
    BY <1>1, <2>1, NoPointeeIs
  <2>3. BlankOrMoved'
    BY <1>1, <1>5, <2>2 DEF BlankOrMoved, Constructed
  <2> QED
    BY <1>2, <2>3 DEF FormatsInv
<1> QED
  BY <1>3, <1>4, <1>5 DEF FormatsInv

(* b is of the kind the invariant says. *)
LEMMA KindIs ==
  ASSUME FormatsInv, b.has
  PROVE  (b.dom = unix /\ PathsAgree) \/ (b.dom \in Domains /\ InetsAgree)
<1>1. CASE InetsAgree
  <2>1. PICK d \in Domains : \E o, p, s, t : b = InetAddress(d, o, p, s, t)
    BY <1>1 DEF InetsAgree
  <2>2. b.dom = d
    BY <2>1 DEF InetAddress
  <2> QED
    BY <1>1, <2>2
<1>2. CASE PathsAgree
  <2>1. PICK q \in Paths : b = unixAddress(q)
    BY <1>2 DEF PathsAgree
  <2> QED
    BY <1>2, <2>1, UnixIs
<1>3. CASE BlankOrMoved
  <2>1. PICK d \in Tags : b = NoPointee(d)
    BY <1>3 DEF BlankOrMoved
  <2> QED
    BY <2>1, NoPointeeIs
<1> QED
  BY <1>1, <1>2, <1>3 DEF FormatsInv

LEMMA BindStep ==
  ASSUME FormatsInv, Bind
  PROVE  FormatsInv'
<1>1. /\ b.has /\ b.dom = unix /\ via' = via \cup {"bind"} /\ a' = a
      /\ b' = FromStruct(UnixStruct(CutAtZero(b.path)))
  BY DEF Bind, Becomes
<1>2. PathsAgree
  BY <1>1, KindIs, DomainsDiffer DEF Domains
<1>3. PICK p \in Paths, q \in Paths :
        a = unixAddress(p) /\ b = unixAddress(q) /\ (q = p \/ ("bind" \in via /\ q = CutAtZero(p)))
  BY <1>2 DEF PathsAgree
<1>4. b.path = q
  BY <1>3, UnixIs
<1>5. CutAtZero(q) \in Paths /\ CutAtZero(q) = CutAtZero(p)
  BY <1>3, CutIs
<1>6. b' = unixAddress(CutAtZero(p))
  BY <1>1, <1>4, <1>5, UnixThere
<1>7. PathsAgree'
  <2>1. "bind" \in via' /\ CutAtZero(p) \in Paths
    BY <1>1, <1>5
  <2> QED
    BY <1>1, <1>3, <1>6, <2>1 DEF PathsAgree
<1>8. via' \subseteq Ways
  BY <1>1 DEF FormatsInv, Ways
<1> QED
  BY <1>7, <1>8 DEF FormatsInv

LEMMA RenameStep ==
  ASSUME FormatsInv, Rename
  PROVE  FormatsInv'
<1>1. b.has /\ via' = via \cup {"name"} /\ a' = a
  BY DEF Rename, Becomes
<1>2. via' \subseteq Ways /\ "name" \in via' /\ ("bind" \in via' <=> "bind" \in via)
  BY <1>1 DEF FormatsInv, Ways
<1>3. CASE b.dom = unix
  <2>1. b' = unixAddress(b.path)
    BY <1>3 DEF Rename, Becomes
  <2>2. PathsAgree
    BY <1>1, <1>3, KindIs, DomainsDiffer DEF Domains
  <2>3. PICK p \in Paths, q \in Paths :
          a = unixAddress(p) /\ b = unixAddress(q) /\ (q = p \/ ("bind" \in via /\ q = CutAtZero(p)))
    BY <2>2 DEF PathsAgree
  <2>4. b' = unixAddress(q)
    BY <2>1, <2>3, UnixIs
  <2>5. PathsAgree'
    BY <1>1, <1>2, <2>3, <2>4 DEF PathsAgree
  <2> QED
    BY <1>2, <2>5 DEF FormatsInv
<1>4. CASE b.dom # unix
  <2>1. InetsAgree
    BY <1>1, <1>4, KindIs
  <2>2. PICK d \in Domains : \E o \in OctetsOf(d), p \in PortNumbers, s \in Scopes(d), r \in Scopes(d) :
          \E t, u \in Names :
            /\ Means(t, d, o, p) /\ a = InetAddress(d, o, p, s, t)
            /\ Means(u, d, o, p) /\ b = InetAddress(d, o, p, r, u)
    BY <2>1 DEF InetsAgree
  <2>3. PICK o \in OctetsOf(d), p \in PortNumbers, s \in Scopes(d), r \in Scopes(d),
             t \in Names, u \in Names :
          /\ Means(t, d, o, p) /\ a = InetAddress(d, o, p, s, t)
          /\ Means(u, d, o, p) /\ b = InetAddress(d, o, p, r, u)
    BY <2>2
  <2>4. b.dom = d /\ b.name = u
    BY <2>3 DEF InetAddress
  <2>5. Accepts(d, u) /\ b' = FromText(d, u)
    BY <1>4, <2>4 DEF Rename, Becomes
  <2>6. PICK o1 \in OctetsOf(d), p1 \in PortNumbers, s1 \in Scopes(d) :
          Means(u, d, o1, p1) /\ FromText(d, u) = InetAddress(d, o1, p1, s1, u)
    BY <2>5, FromTextIs
  <2>7. o1 = o /\ p1 = p
    BY <2>3, <2>6 DEF Means
  <2>8. b' = InetAddress(d, o, p, s1, u)
    BY <2>5, <2>6, <2>7
  <2>9. InetsAgree'
    BY <1>1, <1>2, <2>3, <2>8 DEF InetsAgree
  <2> QED
    BY <1>2, <2>9 DEF FormatsInv
<1> QED
  BY <1>3, <1>4

LEMMA MoveStep ==
  ASSUME FormatsInv, MoveAway
  PROVE  FormatsInv'
<1>1. b.has /\ via' = via \cup {"move"} /\ a' = a /\ b' = NoPointee(b.dom)
  BY DEF MoveAway, Becomes
<1>2. b.dom \in Tags
  BY <1>1, KindIs DEF Tags, Domains
<1>3. Constructed(a)
  <2>1. CASE InetsAgree
    BY <2>1 DEF InetsAgree, Constructed
  <2>2. CASE PathsAgree
    BY <2>2 DEF PathsAgree, Constructed
  <2> QED
    BY <1>1, <2>1, <2>2, KindIs
<1>4. BlankOrMoved'
  BY <1>1, <1>2, <1>3 DEF BlankOrMoved, Constructed
<1>5. via' \subseteq Ways
  BY <1>1 DEF FormatsInv, Ways
<1> QED
  BY <1>4, <1>5 DEF FormatsInv

LEMMA FormatsInit == Init => FormatsInv
<1> SUFFICES ASSUME Init PROVE FormatsInv
  OBVIOUS
<1>1. NoDomain \in Tags
  BY DEF Tags
<1> QED
  BY <1>1 DEF Init, FormatsInv, BlankOrMoved, Blank

LEMMA FormatsStep == FormatsInv /\ [Next]_vars => FormatsInv'
<1> SUFFICES ASSUME FormatsInv, [Next]_vars PROVE FormatsInv'
  OBVIOUS
<1>1. CASE UNCHANGED vars
  BY <1>1 DEF vars, FormatsInv, InetsAgree, PathsAgree, BlankOrMoved, Constructed
<1>2. ASSUME NEW t \in Texts, NEW d \in {IPv4, IPv6}, ConstructFromText(t, d)
      PROVE  FormatsInv'
  <2>1. d \in Domains /\ Accepts(d, t) /\ Construct(FromText(d, t))
    BY <1>2 DEF ConstructFromText, Domains
  <2>2. t \in Names
    BY TextsAreNames
  <2>3. Constructed(FromText(d, t))
    BY <2>1, <2>2, FromTextIs DEF Constructed
  <2> QED
    BY <2>1, <2>3, ConstructStep
<1>3. ASSUME NEW t \in Texts, ConstructGuessing(t)
      PROVE  FormatsInv'
  <2>1. Guess(t) \in {IPv4, IPv6} /\ ConstructFromText(t, Guess(t))
    BY <1>3 DEF ConstructGuessing, Guess
  <2> QED
    BY <1>2, <2>1
<1>4. ASSUME NEW p \in TextPaths, ConstructFromPath(p)
      PROVE  FormatsInv'
  <2>1. Constructed(unixAddress(p)) /\ Construct(unixAddress(p))
    BY <1>4 DEF Constructed, ConstructFromPath, TextPaths
  <2> QED
    BY <2>1, ConstructStep
<1>5. ASSUME NEW c \in Structs, ConstructFromStruct(c)
      PROVE  FormatsInv'
  <2>1. Constructed(FromStruct(c)) /\ Construct(FromStruct(c))
    BY <1>5, StructsMean DEF ConstructFromStruct
  <2> QED
    BY <2>1, ConstructStep
<1> QED
  BY <1>1, <1>2, <1>3, <1>4, <1>5, CopyStep, BindStep, RenameStep, MoveStep DEF Next

(* The address that was constructed and what copies, names, moves and the  *)
(* kernel made of it agree (addrs.cpp, all conversions).                   *)
THEOREM FormatsInvariant == Spec => []FormatsInv
  BY FormatsInit, FormatsStep, PTL DEF Spec

-----------------------------------------------------------------------------
(* The properties.                                                         *)

(* Names, port and octets of an address are what its class can hold.       *)
LEMMA ConstructedType ==
  ASSUME NEW x, Constructed(x)
  PROVE  x \in Addresses
<1>1. CASE \E p \in Paths : x = unixAddress(p)
  BY <1>1 DEF Addresses
<1>2. CASE \E d \in Domains : \E o \in OctetsOf(d), p \in PortNumbers, s \in Scopes(d), t \in Names :
             Means(t, d, o, p) /\ x = InetAddress(d, o, p, s, t)
  <2>1. PICK d \in Domains : \E o \in OctetsOf(d), p \in PortNumbers, s \in Scopes(d), t \in Names :
             x = InetAddress(d, o, p, s, t)
    BY <1>2
  <2>2. PICK o \in OctetsOf(d), p \in PortNumbers, s \in Scopes(d), t \in Names :
             x = InetAddress(d, o, p, s, t)
    BY <2>1
  <2> DEFINE ad == IF d = IPv6 THEN Groups(o) ELSE o
  <2>3. ad \in Seq(PortNumbers)
    <3>1. Groups(o) \in Seq(PortNumbers)
      BY OctetsThere DEF PortNumbers
    <3>2. o \in Seq(PortNumbers)
      <4>1. PICK k, l, m, n \in Octet : o = <<k, l, m, n>>
        BY OctetsType
      <4>2. \A i \in Octet : i \in PortNumbers
        <5> DEFINE M == PortModulus
        <5>1. M \in Nat /\ 255 < M
          BY ModulusIs, SMT
        <5> HIDE DEF M
        <5>2. \A i \in 0..255 : i \in 0..(M - 1)
          BY <5>1
        <5> QED
          BY <5>2 DEF M, Octet, PortNumbers
      <4>3. k \in PortNumbers /\ l \in PortNumbers /\ m \in PortNumbers /\ n \in PortNumbers
        BY <4>2
      <4> QED
        BY <4>1, <4>3
    <3> QED
      BY <3>1, <3>2
  <2>4. x = [dom |-> d, has |-> TRUE, addr |-> ad, port |-> p, scope |-> s, name |-> t]
    BY <2>2 DEF InetAddress
  <2> HIDE DEF ad
  <2>5. s \in {0, 1}
    BY DEF Scopes
  <2>6. Inets = [dom : Domains, has : {TRUE}, addr : Seq(PortNumbers), port : PortNumbers,
                 scope : {0, 1}, name : Names]
    BY DEF Inets, Domains, PortNumbers, Names, NamedHosts, Ports
  <2>7. x \in Inets
    BY <2>3, <2>4, <2>5, <2>6
  <2> QED
    BY <2>7 DEF Addresses
<1> QED
  BY <1>1, <1>2 DEF Constructed

LEMMA BothConstructed ==
  ASSUME FormatsInv
  PROVE  /\ a = Blank \/ Constructed(a)
         /\ (\E d \in Tags : b = NoPointee(d)) \/ Constructed(b)
<1>1. CASE InetsAgree
  BY <1>1 DEF InetsAgree, Constructed
<1>2. CASE PathsAgree
  BY <1>2 DEF PathsAgree, Constructed
<1>3. CASE BlankOrMoved
  BY <1>3 DEF BlankOrMoved
<1> QED
  BY <1>1, <1>2, <1>3 DEF FormatsInv

(* TypeOK, for any octets, ports and size of sun_path.                     *)
THEOREM FormatsTypes == Spec => []TypeOK
<1>1. ASSUME FormatsInv
      PROVE  TypeOK
  <2>1. Blank \in Addresses /\ \A d \in Tags : NoPointee(d) \in Addresses
    BY DEF Blank, Addresses, Tags
  <2>2. a \in Addresses /\ b \in Addresses
    BY <1>1, <2>1, BothConstructed, ConstructedType
  <2> QED
    BY <1>1, <2>2 DEF TypeOK, FormatsInv, Ways
<1> QED
  BY <1>1, FormatsInvariant, PTL

(* The same octets, with the names t and u and the scopes s and r. *)
Agree(d, o, p, s, r, t, u) ==
  /\ Means(t, d, o, p) /\ a = InetAddress(d, o, p, s, t)
  /\ a.dom = d /\ a.has = TRUE /\ a.port = p /\ a.name = t
  /\ b = InetAddress(d, o, p, r, u)
  /\ b.dom = d /\ b.has = TRUE /\ b.port = p /\ b.addr = a.addr
  /\ "name" \notin via => r = s

LEMMA InetsAre ==
  ASSUME InetsAgree
  PROVE  \E d \in Domains : \E o \in OctetsOf(d), p \in PortNumbers, s \in Scopes(d), r \in Scopes(d) :
           \E t, u \in Names : Agree(d, o, p, s, r, t, u)
<1>1. PICK d \in Domains : \E o \in OctetsOf(d), p \in PortNumbers, s \in Scopes(d), r \in Scopes(d) :
        \E t, u \in Names :
          /\ Means(t, d, o, p) /\ a = InetAddress(d, o, p, s, t)
          /\ Means(u, d, o, p) /\ b = InetAddress(d, o, p, r, u)
          /\ "name" \notin via => r = s
  BY DEF InetsAgree
<1>2. PICK o \in OctetsOf(d), p \in PortNumbers, s \in Scopes(d), r \in Scopes(d),
           t \in Names, u \in Names :
        /\ Means(t, d, o, p) /\ a = InetAddress(d, o, p, s, t)
        /\ Means(u, d, o, p) /\ b = InetAddress(d, o, p, r, u)
        /\ "name" \notin via => r = s
  BY <1>1
<1>3. /\ a.dom = d /\ a.has = TRUE /\ a.port = p /\ a.name = t
      /\ b.dom = d /\ b.has = TRUE /\ b.port = p /\ b.addr = a.addr
  BY <1>2 DEF InetAddress
<1>4. Agree(d, o, p, s, r, t, u)
  BY <1>2, <1>3 DEF Agree
<1> QED
  BY <1>4

LEMMA PathsAre ==
  ASSUME PathsAgree
  PROVE  \E p, q \in Paths :
           /\ a = unixAddress(p) /\ a.dom = unix /\ a.has = TRUE /\ a.path = p
           /\ b = unixAddress(q) /\ b.dom = unix /\ b.has = TRUE /\ b.path = q
           /\ ("bind" \in via => ~InnerZero(a)) => q = p
           /\ Len(q) <= Len(p)
<1>1. PICK p \in Paths, q \in Paths :
        a = unixAddress(p) /\ b = unixAddress(q) /\ (q = p \/ ("bind" \in via /\ q = CutAtZero(p)))
  BY DEF PathsAgree
<1>2. /\ a.dom = unix /\ a.has = TRUE /\ a.path = p
      /\ b.dom = unix /\ b.has = TRUE /\ b.path = q
  BY <1>1 DEF unixAddress
<1>3. ("bind" \in via => ~InnerZero(a)) => q = p
  BY <1>1, <1>2 DEF InnerZero
<1>4. Len(q) <= Len(p)
  BY <1>1, CutIs, PathType
<1> QED
  BY <1>1, <1>2, <1>3, <1>4

(* CopiesKeepStruct: however often an address is copied, and bound and     *)
(* read back, its C structure stays the same, length and port and scope    *)
(* included, also of a path that fills sun_path (address(const address&),  *)
(* operator sockaddr_storage, assign).                                     *)
THEOREM StructsAreKept == Spec => []CopiesKeepStruct
<1>1. ASSUME FormatsInv, b.has, "name" \notin via, "bind" \in via => ~InnerZero(a)
      PROVE  ToStruct(b) = ToStruct(a)
  <2>1. CASE PathsAgree
    <3>1. PICK p \in Paths, q \in Paths : a = unixAddress(p) /\ b = unixAddress(q) /\ q = p
      BY <1>1, <2>1, PathsAre
    <3> QED
      BY <3>1
  <2>2. CASE InetsAgree
    <3>1. PICK d \in Domains : \E o \in OctetsOf(d), p \in PortNumbers, s \in Scopes(d), r \in Scopes(d) :
            \E t, u \in Names : Agree(d, o, p, s, r, t, u)
      BY <2>2, InetsAre
    <3>2. PICK o \in OctetsOf(d), p \in PortNumbers, s \in Scopes(d), r \in Scopes(d), t \in Names, u \in Names :
            Agree(d, o, p, s, r, t, u)
      BY <3>1
    <3>3. a = InetAddress(d, o, p, s, t) /\ b = InetAddress(d, o, p, s, u)
      BY <1>1, <3>2 DEF Agree
    <3>4. ToStruct(a) = StructOf(d, o, p, s)
      BY <3>3, InetToStruct
    <3>5. ToStruct(b) = StructOf(d, o, p, s)
      BY <3>3, InetToStruct
    <3> QED
      BY <3>4, <3>5
  <2> QED
    BY <1>1, <2>1, <2>2, KindIs
<1>2. FormatsInv => CopiesKeepStruct
  BY <1>1 DEF CopiesKeepStruct
<1> QED
  BY <1>2, FormatsInvariant, PTL

(* TerminatorInside: an address that leaves room for a zero in sun_path    *)
(* leaves it after any sequence of copies, binds and names                 *)
(* (unixAddress(const sockaddr_un&, socklen_t), operator sockaddr_storage).*)
THEOREM TerminatorStaysInside == Spec => []TerminatorInside
<1>1. ASSUME FormatsInv, b.has, b.dom = unix, a.path \in TextPaths
      PROVE  Terminator(b.path) \in 1..PathSize
  <2>1. PathsAgree
    BY <1>1, KindIs, DomainsDiffer DEF Domains
  <2>2. PICK p \in Paths, q \in Paths : a.path = p /\ b.path = q /\ Len(q) <= Len(p)
    BY <2>1, PathsAre
  <2>3. Len(p) + 1 <= PathSize
    BY <1>1, <2>2 DEF TextPaths
  <2>4. Len(p) \in Nat /\ Len(q) \in Nat /\ PathSize \in Nat
    BY <2>2, PathType, FormatAssumption
  <2> QED
    BY <2>2, <2>3, <2>4 DEF Terminator
<1>2. FormatsInv => TerminatorInside
  BY <1>1 DEF TerminatorInside
<1> QED
  BY <1>2, FormatsInvariant, PTL

(* NamesRebuild: names, copies and the kernel give an address that is the  *)
(* same by operator== (name(), address(string, domain)).                   *)
THEOREM NamesAreKept == Spec => []NamesRebuild
<1>1. ASSUME FormatsInv, b.has, "bind" \in via => ~InnerZero(a)
      PROVE  Equal(a, b)
  <2>1. CASE PathsAgree
    <3>1. a.dom = unix /\ a.has = TRUE /\ b.dom = unix /\ b.has = TRUE /\ a.path = b.path
      BY <1>1, <2>1, PathsAre
    <3> QED
      BY <3>1 DEF Equal, PointeeEqual
  <2>2. CASE InetsAgree
    <3>1. PICK d \in Domains : \E o \in OctetsOf(d), p \in PortNumbers, s \in Scopes(d), r \in Scopes(d) :
            \E t, u \in Names : Agree(d, o, p, s, r, t, u)
      BY <2>2, InetsAre
    <3>2. PICK o \in OctetsOf(d), p \in PortNumbers, s \in Scopes(d), r \in Scopes(d), t \in Names, u \in Names :
            Agree(d, o, p, s, r, t, u)
      BY <3>1
    <3>3. /\ a.dom = b.dom /\ a.dom # unix /\ a.has = TRUE /\ b.has = TRUE
          /\ a.addr = b.addr /\ a.port = b.port
      BY <3>2, DomainsDiffer DEF Agree, Domains
    <3> QED
      BY <3>3 DEF Equal, PointeeEqual
  <2> QED
    BY <1>1, <2>1, <2>2, KindIs
<1>2. FormatsInv => NamesRebuild
  BY <1>1 DEF NamesRebuild
<1> QED
  BY <1>2, FormatsInvariant, PTL

(* PortAsWritten: a port that is written and fits 16 bits is the port of   *)
(* the address and of everything made of it (IPv4Address(const             *)
(* std::string&), operator sockaddr_storage, assign).                      *)
THEOREM PortIsWritten == Spec => []PortAsWritten
<1>1. ASSUME FormatsInv, b.has, a.dom # unix, a.name.port \in 1..(PortModulus - 1)
      PROVE  b.port = a.name.port
  <2>1. InetsAgree
    <3>1. PathsAgree => a.dom = unix
      BY PathsAre
    <3> QED
      BY <1>1, <3>1, KindIs
  <2>2. PICK d \in Domains : \E o \in OctetsOf(d), p \in PortNumbers, s \in Scopes(d), r \in Scopes(d) :
          \E t, u \in Names : Agree(d, o, p, s, r, t, u)
    BY <2>1, InetsAre
  <2>3. PICK o \in OctetsOf(d), p \in PortNumbers, s \in Scopes(d), r \in Scopes(d), t \in Names, u \in Names :
          Agree(d, o, p, s, r, t, u)
    BY <2>2
  <2>4. Means(t, d, o, p) /\ a.name = t /\ b.port = p
    BY <2>3 DEF Agree
  <2>5. ParsedPort(t) = t.port
    BY <1>1, <2>4, PortWritten
  <2> QED
    BY <2>4, <2>5 DEF Means
<1>2. FormatsInv => PortAsWritten
  BY <1>1 DEF PortAsWritten
<1> QED
  BY <1>2, FormatsInvariant, PTL

-----------------------------------------------------------------------------
(* The order of addresses.                                                 *)

(* What can be compared. *)
Comparable(x) ==
  /\ x.dom \in Nat /\ x.has \in BOOLEAN
  /\ x.has => IF x.dom = unix THEN x.path \in Seq(Int)
              ELSE x.addr \in Seq(Int) /\ x.port \in Int

LEMMA PointeesOrdered ==
  ASSUME NEW x, NEW y, NEW z, Comparable(x), Comparable(y), Comparable(z),
         x.dom = y.dom, y.dom = z.dom, x.has, y.has, z.has
  PROVE  /\ PointeeLess(x, y) \/ PointeeEqual(x, y) \/ PointeeLess(y, x)
         /\ PointeeEqual(x, y) => ~PointeeLess(x, y) /\ ~PointeeLess(y, x)
         /\ ~(PointeeLess(x, y) /\ PointeeLess(y, x))
         /\ PointeeLess(x, y) /\ PointeeLess(y, z) => PointeeLess(x, z)
<1>1. \A s, t \in Seq(Int) :
        /\ s = t \/ SeqLess(s, t) \/ SeqLess(t, s)
        /\ ~SeqLess(s, s)
        /\ ~(SeqLess(s, t) /\ SeqLess(t, s))
  BY SeqLessTotal, SeqLessIrreflexive, SeqLessTransitive
<1>2. \A s, t, u \in Seq(Int) : SeqLess(s, t) /\ SeqLess(t, u) => SeqLess(s, u)
  BY SeqLessTransitive
<1>3. CASE x.dom = unix
  <2>1. x.path \in Seq(Int) /\ y.path \in Seq(Int) /\ z.path \in Seq(Int)
    BY <1>3 DEF Comparable
  <2> QED
    BY <1>1, <1>2, <1>3, <2>1 DEF PointeeLess, PointeeEqual
<1>4. CASE x.dom # unix
  <2>1. /\ x.addr \in Seq(Int) /\ y.addr \in Seq(Int) /\ z.addr \in Seq(Int)
        /\ x.port \in Int /\ y.port \in Int /\ z.port \in Int
    BY <1>4 DEF Comparable
  <2>2. /\ PointeeLess(x, y) \/ PointeeEqual(x, y) \/ PointeeLess(y, x)
        /\ PointeeEqual(x, y) => ~PointeeLess(x, y) /\ ~PointeeLess(y, x)
        /\ ~(PointeeLess(x, y) /\ PointeeLess(y, x))
    BY <1>1, <1>4, <2>1 DEF PointeeLess, PointeeEqual
  <2>3. PointeeLess(x, y) /\ PointeeLess(y, z) => PointeeLess(x, z)
    BY <1>1, <1>2, <1>4, <2>1 DEF PointeeLess
  <2> QED
    BY <2>2, <2>3
<1> QED
  BY <1>3, <1>4

LEMMA AddressesOrdered ==
  ASSUME NEW x, NEW y, NEW z, Comparable(x), Comparable(y), Comparable(z)
  PROVE  /\ Less(x, y) \/ Equal(x, y) \/ Less(y, x)
         /\ Equal(x, y) => ~Less(x, y) /\ ~Less(y, x)
         /\ ~(Less(x, y) /\ Less(y, x))
         /\ Less(x, y) /\ Less(y, z) => Less(x, z)
<1>1. /\ x.dom \in Nat /\ y.dom \in Nat /\ z.dom \in Nat
      /\ x.has \in BOOLEAN /\ y.has \in BOOLEAN /\ z.has \in BOOLEAN
  BY DEF Comparable
<1>2. CASE x.dom # y.dom
  <2>1. Less(x, y) \/ Less(y, x)
    BY <1>1, <1>2 DEF Less
  <2>2. ~Equal(x, y) /\ ~(Less(x, y) /\ Less(y, x))
    BY <1>1, <1>2 DEF Less, Equal
  <2>3. Less(x, y) /\ Less(y, z) => Less(x, z)
    BY <1>1, <1>2 DEF Less
  <2> QED
    BY <2>1, <2>2, <2>3
<1>3. CASE x.dom = y.dom
  <2>1. Less(x, y) \/ Equal(x, y) \/ Less(y, x)
    BY <1>1, <1>3, PointeesOrdered DEF Less, Equal
  <2>2. Equal(x, y) => ~Less(x, y) /\ ~Less(y, x)
    BY <1>1, <1>3, PointeesOrdered DEF Less, Equal
  <2>3. ~(Less(x, y) /\ Less(y, x))
    BY <1>1, <1>3, PointeesOrdered DEF Less
  <2>4. CASE y.dom # z.dom
    <3>1. Less(x, y) /\ Less(y, z) => Less(x, z)
      BY <1>1, <1>3, <2>4 DEF Less
    <3> QED
      BY <2>1, <2>2, <2>3, <3>1
  <2>5. CASE y.dom = z.dom
    <3>1. Less(x, y) /\ Less(y, z) => Less(x, z)
      BY <1>1, <1>3, <2>5, PointeesOrdered DEF Less
    <3> QED
      BY <2>1, <2>2, <2>3, <3>1
  <2> QED
    BY <2>1, <2>2, <2>3, <2>4, <2>5
<1> QED
  BY <1>2, <1>3

LEMMA AddressesComparable ==
  ASSUME NEW x \in Addresses
  PROVE  Comparable(x)
<1>1. CASE x \in Inets
  <2>1. /\ x.dom \in {IPv4, IPv6} /\ x.has \in {TRUE}
        /\ x.addr \in Seq(PortNumbers) /\ x.port \in PortNumbers
    BY <1>1 DEF Inets, PortNumbers
  <2>2. PortNumbers \subseteq Int
    BY ModulusType DEF PortNumbers
  <2>3. x.addr \in Seq(Int)
    <3>1. Len(x.addr) \in Nat /\ x.addr \in [1..Len(x.addr) -> PortNumbers]
      BY <2>1, LenProperties
    <3>2. x.addr \in [1..Len(x.addr) -> Int]
      BY <2>2, <3>1
    <3> QED
      BY <3>1, <3>2, SeqOfFunction
  <2> QED
    BY <2>1, <2>2, <2>3, DomainsDiffer DEF Comparable
<1>2. CASE \E p \in Paths : x = unixAddress(p)
  <2>1. PICK p \in Paths : x = unixAddress(p)
    BY <1>2
  <2>2. x.dom = unix /\ x.has = TRUE /\ x.path = p
    BY <2>1 DEF unixAddress
  <2>3. p \in Seq(Int)
    BY PathType
  <2> QED
    BY <2>2, <2>3, DomainsDiffer DEF Comparable
<1>3. CASE \E d \in Tags : x = NoPointee(d)
  <2>1. x.dom \in Tags /\ x.has = FALSE
    BY <1>3 DEF NoPointee
  <2> QED
    BY <2>1, DomainsDiffer DEF Comparable, Tags
<1> QED
  BY <1>1, <1>2, <1>3 DEF Addresses, Tags

LEMMA SamplesComparable ==
  ASSUME NEW x \in Samples
  PROVE  Comparable(x)
<1> DEFINE Inet(d, w, p) == [family |-> d, addr |-> w, port |-> htons(p), scope |-> 0]
           Pointless == {Blank} \cup {NoPointee(d) : d \in {unix, IPv4, IPv6}}
           Files == {unixAddress(p) : p \in {q \in Paths : Len(q) <= 2}}
           Nets == {FromStruct(Inet(d, w, p)) : d \in {IPv4, IPv6}, w \in Wire, p \in {0, 80}}
<1>1. Samples = Pointless \cup Files \cup Nets
  BY DEF Samples
<1>2. ASSUME x \in Pointless
      PROVE  x \in Addresses
  BY <1>2 DEF Blank, Addresses
<1>3. ASSUME x \in Files
      PROVE  x \in Addresses
  BY <1>3 DEF Addresses
<1>4. ASSUME x \in Nets
      PROVE  x \in Addresses
  <2>1. PICK d \in {IPv4, IPv6}, w \in Wire, p \in {0, 80} : x = FromStruct(Inet(d, w, p))
    BY <1>4, SMT
  <2>2. d \in Domains /\ w \in OctetsOf(d) /\ p \in PortNumbers /\ 0 \in Scopes(d)
    BY <2>1, ModulusType DEF Domains, OctetsOf, PortNumbers, Scopes
  <2>3. x = FromStruct(StructOf(d, w, p, 0))
    BY <2>1 DEF StructOf
  <2>4. PICK t \in Names : /\ x = InetAddress(d, w, p, 0, t)
                           /\ Accepts(d, t) /\ ResolvedOctets(d, t.host) = w /\ ParsedPort(t) = p
    BY <2>2, <2>3, InetFromStruct DEF PortNumbers
  <2>5. Constructed(x)
    BY <2>2, <2>4 DEF Constructed, Means
  <2> QED
    BY <2>5, ConstructedType
<1> HIDE DEF Pointless, Files, Nets
<1> QED
  BY <1>1, <1>2, <1>3, <1>4, AddressesComparable

(* Of three truth values, some are true and some are not. *)
LEMMA BothValues ==
  ASSUME NEW p \in BOOLEAN, NEW q \in BOOLEAN, NEW r \in BOOLEAN, p \/ q \/ r, ~p \/ ~q
  PROVE  {p, q, r} = BOOLEAN
<1>1. p = TRUE \/ q = TRUE \/ r = TRUE
  OBVIOUS
<1>2. p = FALSE \/ q = FALSE
  OBVIOUS
<1>3. BOOLEAN = {TRUE, FALSE}
  OBVIOUS
<1> QED
  BY <1>1, <1>2, <1>3

LEMMA ComparisonsAreTruths ==
  ASSUME NEW x, NEW y, Comparable(x), Comparable(y)
  PROVE  Less(x, y) \in BOOLEAN /\ Equal(x, y) \in BOOLEAN
<1>1. \A s, t : SeqLess(s, t) \in BOOLEAN
  BY Zenon DEF SeqLess
<1>2. PointeeLess(x, y) \in BOOLEAN
  <2>1. CASE x.dom = unix
    BY <1>1, <2>1 DEF PointeeLess
  <2>2. CASE x.dom # unix /\ x.addr # y.addr
    BY <1>1, <2>2 DEF PointeeLess
  <2>3. CASE x.dom # unix /\ x.addr = y.addr
    BY <2>3 DEF PointeeLess
  <2> QED
    BY <2>1, <2>2, <2>3
<1>3. Less(x, y) \in BOOLEAN
  <2>1. CASE x.dom # y.dom
    BY <2>1 DEF Less
  <2>2. CASE x.dom = y.dom /\ x.has /\ y.has
    BY <1>2, <2>2 DEF Less
  <2>3. CASE x.dom = y.dom /\ ~(x.has /\ y.has)
    BY <2>3 DEF Less
  <2> QED
    BY <2>1, <2>2, <2>3
<1>4. Equal(x, y) \in BOOLEAN
  BY DEF Equal
<1> QED
  BY <1>3, <1>4

(* OrderIsTotal: <, == and > of addresses exclude each other, one of them  *)
(* holds, and < is transitive (address::operator<, operator==).            *)
THEOREM OrderTotal == Spec => []OrderIsTotal
<1>1. ASSUME FormatsInv
      PROVE  Comparable(b)
  <2>1. \A d \in Tags : NoPointee(d) \in Addresses
    BY DEF Addresses, Tags
  <2>2. b \in Addresses
    BY <1>1, <2>1, BothConstructed, ConstructedType
  <2> QED
    BY <2>2, AddressesComparable
<1>2. ASSUME Comparable(b), NEW x \in Samples
      PROVE  {Less(b, x), Equal(b, x), Less(x, b)} = BOOLEAN
  <2>1. Comparable(x)
    BY SamplesComparable
  <2>2. Less(b, x) \/ Equal(b, x) \/ Less(x, b)
    BY <1>2, <2>1, AddressesOrdered
  <2>3. ~Less(b, x) \/ ~Equal(b, x)
    BY <1>2, <2>1, AddressesOrdered
  <2>4. Less(b, x) \in BOOLEAN /\ Equal(b, x) \in BOOLEAN /\ Less(x, b) \in BOOLEAN
    BY <1>2, <2>1, ComparisonsAreTruths
  <2> QED
    BY <2>2, <2>3, <2>4, BothValues
<1>3. ASSUME Comparable(b), NEW x \in Samples
      PROVE  /\ ~(Less(b, x) /\ Less(x, b))
             /\ Equal(b, x) => ~Less(b, x) /\ ~Less(x, b)
             /\ Less(b, x) => \A y \in Samples : Less(x, y) => Less(b, y)
  BY <1>3, SamplesComparable, AddressesOrdered
<1>4. FormatsInv => OrderIsTotal
  BY <1>1, <1>2, <1>3 DEF OrderIsTotal
<1> QED
  BY <1>4, FormatsInvariant, PTL

=============================================================================
