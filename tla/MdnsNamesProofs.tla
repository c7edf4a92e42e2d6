--------------------------- MODULE MdnsNamesProofs ---------------------------
(***************************************************************************)
(* What the mDNS responder writes: names, lengths and the bounds of the    *)
(* buffer.                                                                 *)
(***************************************************************************)
EXTENDS MdnsResponderProperties, LeastNumber

----------------------------------------------------------------------------
(* Names.                                                                  *)

\* The labels a record is given: the others only follow them.
StartsName(l) ==
    \/ l = Host
    \/ \E s : l = Service(s)
    \/ \E k : l = InstanceAt(k)
    \/ \E x, s : l = Sub(x, s)

nextLabel(l) ==
    CASE l = Host            -> LOCAL_NAME
      [] l = LOCAL_NAME      -> ROOT
      [] l[1] = "service"    -> Protocol(l[2])
      [] l[1] = "protocol"   -> LOCAL_NAME
      [] l[1] = "instance"   -> Service(ServiceAt(l[2]))
      [] l[1] = "sub"        -> SubMark(l[2], l[3])
      [] l[1] = "_sub"       -> Service(l[3])

(* A name: labels linked by nextLabel, none twice, the root at the end.    *)
Linked(name) ==
    /\ name \in Seq(ToSet(name)) /\ Len(name) >= 1
    /\ name[Len(name)] = ROOT
    /\ \A k \in 1..Len(name) : NameSize[name[k][1]] \in Nat
    /\ \A k \in 1..(Len(name) - 1) :
          name[k] # ROOT /\ name[k + 1] = nextLabel(name[k])
    /\ \A k, n \in 1..Len(name) : name[k] = name[n] => k = n
    /\ \A k \in 1..Len(name) : name[k][1] # "pointer"

\* The names that start with a label of each kind.
LEMMA ChainOfHost == Chain(Host) = <<Host, LOCAL_NAME, ROOT>>
BY DEF Chain, Host

LEMMA ChainOfService ==
    ASSUME NEW s
    PROVE  Chain(Service(s)) = <<Service(s), Protocol(s), LOCAL_NAME, ROOT>>
BY DEF Chain, Service, Host

LEMMA ChainOfInstance ==
    ASSUME NEW k
    PROVE  Chain(InstanceAt(k)) =
              <<InstanceAt(k), Service(ServiceAt(k)), Protocol(ServiceAt(k)),
                LOCAL_NAME, ROOT>>
BY DEF Chain, InstanceAt, Host

LEMMA ChainOfSub ==
    ASSUME NEW x, NEW s
    PROVE  Chain(Sub(x, s)) =
              <<Sub(x, s), SubMark(x, s), Service(s), Protocol(s), LOCAL_NAME, ROOT>>
BY DEF Chain, Sub, Host

\* A label that a record can be given starts such a name.
LEMMA ChainLinked ==
    ASSUME NEW l, StartsName(l)
    PROVE  Linked(Chain(l)) /\ Chain(l)[1] = l
<1> USE DEF Host, LOCAL_NAME, ROOT, Service, Protocol, InstanceAt, Sub, SubMark
<1>1. ASSUME l = Host
      PROVE  Linked(Chain(l)) /\ Chain(l)[1] = l
  <2> DEFINE c == <<Host, LOCAL_NAME, ROOT>>
  <2>1. Chain(l) = c
    BY <1>1, ChainOfHost
  <2>2. /\ Len(c) = 3 /\ c[1] = Host /\ c[2] = LOCAL_NAME /\ c[3] = ROOT
    OBVIOUS
  <2>3. c \in Seq(ToSet(c))
    BY DEF ToSet
  <2> HIDE DEF c
  <2>4. \A k \in 1..Len(c) : NameSize[c[k][1]] \in Nat /\ c[k][1] # "pointer"
    BY <2>2, SizeAssumption
  <2>5. \A k \in 1..(Len(c) - 1) : c[k] # ROOT /\ c[k + 1] = nextLabel(c[k])
    BY <2>2 DEF nextLabel
  <2>6. \A k, m \in 1..Len(c) : c[k] = c[m] => k = m
    BY <2>2
  <2>7. Linked(c)
    BY <2>2, <2>3, <2>4, <2>5, <2>6 DEF Linked
  <2>8. QED  BY <1>1, <2>1, <2>2, <2>7
<1>2. ASSUME NEW s, l = Service(s)
      PROVE  Linked(Chain(l)) /\ Chain(l)[1] = l
  <2> DEFINE c == <<Service(s), Protocol(s), LOCAL_NAME, ROOT>>
  <2>1. Chain(l) = c
    BY <1>2, ChainOfService
  <2>2. /\ Len(c) = 4 /\ c[1] = Service(s) /\ c[2] = Protocol(s)
        /\ c[3] = LOCAL_NAME /\ c[4] = ROOT
    OBVIOUS
  <2>3. c \in Seq(ToSet(c))
    BY DEF ToSet
  <2> HIDE DEF c
  <2>4. \A k \in 1..Len(c) : NameSize[c[k][1]] \in Nat /\ c[k][1] # "pointer"
    BY <2>2, SizeAssumption
  <2>5. \A k \in 1..(Len(c) - 1) : c[k] # ROOT /\ c[k + 1] = nextLabel(c[k])
    BY <2>2 DEF nextLabel
  <2>6. \A k, m \in 1..Len(c) : c[k] = c[m] => k = m
    BY <2>2
  <2>7. Linked(c)
    BY <2>2, <2>3, <2>4, <2>5, <2>6 DEF Linked
  <2>8. QED  BY <1>2, <2>1, <2>2, <2>7
<1>3. ASSUME NEW k, l = InstanceAt(k)
      PROVE  Linked(Chain(l)) /\ Chain(l)[1] = l
  <2> DEFINE c == <<InstanceAt(k), Service(ServiceAt(k)), Protocol(ServiceAt(k)),
                    LOCAL_NAME, ROOT>>
  <2>1. Chain(l) = c
    BY <1>3, ChainOfInstance
  <2>2. /\ Len(c) = 5 /\ c[1] = InstanceAt(k) /\ c[2] = Service(ServiceAt(k))
        /\ c[3] = Protocol(ServiceAt(k)) /\ c[4] = LOCAL_NAME /\ c[5] = ROOT
    OBVIOUS
  <2>3. c \in Seq(ToSet(c))
    BY DEF ToSet
  <2> HIDE DEF c
  <2>4. \A n \in 1..Len(c) : NameSize[c[n][1]] \in Nat /\ c[n][1] # "pointer"
    BY <2>2, SizeAssumption
  <2>5. \A n \in 1..(Len(c) - 1) : c[n] # ROOT /\ c[n + 1] = nextLabel(c[n])
    BY <2>2 DEF nextLabel
  <2>6. \A n, m \in 1..Len(c) : c[n] = c[m] => n = m
    BY <2>2
  <2>7. Linked(c)
    BY <2>2, <2>3, <2>4, <2>5, <2>6 DEF Linked
  <2>8. QED  BY <1>3, <2>1, <2>2, <2>7
<1>4. ASSUME NEW x, NEW s, l = Sub(x, s)
      PROVE  Linked(Chain(l)) /\ Chain(l)[1] = l
  <2> DEFINE c == <<Sub(x, s), SubMark(x, s), Service(s), Protocol(s), LOCAL_NAME, ROOT>>
  <2>1. Chain(l) = c
    BY <1>4, ChainOfSub
  <2>2. /\ Len(c) = 6 /\ c[1] = Sub(x, s) /\ c[2] = SubMark(x, s) /\ c[3] = Service(s)
        /\ c[4] = Protocol(s) /\ c[5] = LOCAL_NAME /\ c[6] = ROOT
    OBVIOUS
  <2>3. c \in Seq(ToSet(c))
    BY DEF ToSet
  <2> HIDE DEF c
  <2>4. \A k \in 1..Len(c) : NameSize[c[k][1]] \in Nat /\ c[k][1] # "pointer"
    BY <2>2, SizeAssumption
  <2>5. \A k \in 1..(Len(c) - 1) : c[k] # ROOT /\ c[k + 1] = nextLabel(c[k])
    BY <2>2 DEF nextLabel
  <2>6. \A k, m \in 1..Len(c) : c[k] = c[m] => k = m
    BY <2>2
  <2>7. Linked(c)
    BY <2>2, <2>3, <2>4, <2>5, <2>6 DEF Linked
  <2>8. QED  BY <1>4, <2>1, <2>2, <2>7
<1>5. QED  BY <1>1, <1>2, <1>3, <1>4 DEF StartsName

----------------------------------------------------------------------------
(* The size of a name.                                                     *)

\* The recursive sum that SizeTo is made of has a solution.
LEMMA SumExists ==
    ASSUME NEW N \in Nat, NEW d \in [1..N -> Nat]
    PROVE  \E f \in [0..N -> Nat] :
              f[0] = 0 /\ \A k \in 1..N : f[k] = f[k - 1] + d[k]
<1> DEFINE Sums(n, f) == f[0] = 0 /\ \A k \in 1..n : f[k] = f[k - 1] + d[k]
           Possible(n) == \E f \in [0..n -> Nat] : Sums(n, f)
           T == {n \in 0..N : ~ Possible(n)}
<1>1. SUFFICES ASSUME T # {} PROVE FALSE
  <2>1. T = {} => Possible(N)
    <3> HIDE DEF Possible
    <3>1. QED  OBVIOUS
  <2>2. QED  BY <2>1
<1>2. T \subseteq Nat
  OBVIOUS
<1>3. \E m \in T : \A n \in T : m <= n
  <2> HIDE DEF T
  <2>1. QED  BY <1>1, <1>2, LeastElement
<1>4. PICK m \in T : \A n \in T : m <= n
  BY <1>3
<1>5. CASE m = 0
  <2> DEFINE f == [k \in 0..0 |-> 0]
  <2>1. f \in [0..0 -> Nat] /\ Sums(0, f)
    OBVIOUS
  <2>2. QED  BY <2>1, <1>4, <1>5
<1>6. CASE m # 0
  <2>1. m \in 1..N /\ m - 1 \in 0..N /\ m - 1 \notin T
    <3> HIDE DEF Possible
    <3>1. QED  BY <1>4, <1>6
  <2>2. PICK g \in [0..(m - 1) -> Nat] : Sums(m - 1, g)
    BY <2>1
  <2> DEFINE f == [k \in 0..m |-> IF k = m THEN g[m - 1] + d[m] ELSE g[k]]
  <2>3. f \in [0..m -> Nat]
    BY <2>1
  <2>4. f[0] = 0
    BY <2>1, <2>2
  <2>5. ASSUME NEW k \in 1..m
        PROVE  f[k] = f[k - 1] + d[k]
    <3>1. CASE k = m
      BY <3>1, <2>1
    <3>2. CASE k # m
      <4>1. k \in 1..(m - 1) /\ k - 1 \in 0..m /\ k - 1 # m
        BY <3>2, <2>1
      <4>2. g[k] = g[k - 1] + d[k]
        BY <4>1, <2>2
      <4>3. QED  BY <4>1, <4>2, <3>2
    <3>3. QED  BY <3>1, <3>2
  <2>6. Sums(m, f)
    BY <2>4, <2>5
  <2>7. QED
    <3> HIDE DEF f, Sums
    <3>1. QED  BY <2>3, <2>6, <1>4
<1>7. QED  BY <1>5, <1>6

(* What the recursion of SizeTo computes.                                  *)
LEMMA SizeSums ==
    ASSUME NEW name, NEW S, name \in Seq(S),
           \A k \in 1..Len(name) : NameSize[name[k][1]] \in Nat
    PROVE  /\ \A n \in 0..Len(name) : SizeTo(name, n) \in Nat
           /\ SizeTo(name, 0) = 0
           /\ \A n \in 1..Len(name) :
                 SizeTo(name, n) = SizeTo(name, n - 1) + NameSize[name[n][1]] + 1
<1> DEFINE N == Len(name)
           d == [k \in 1..N |-> NameSize[name[k][1]] + 1]
<1>1. N \in Nat /\ d \in [1..N -> Nat]
  OBVIOUS
<1>2. PICK f \in [0..N -> Nat] : f[0] = 0 /\ \A k \in 1..N : f[k] = f[k - 1] + d[k]
  <2> HIDE DEF N, d
  <2>1. QED  BY <1>1, SumExists
<1> DEFINE Body(g) == [k \in 0..N |->
                          IF k = 0 THEN 0 ELSE g[k - 1] + NameSize[name[k][1]] + 1]
           size == CHOOSE g : g = Body(g)
<1>3. f = Body(f)
  <2>1. \A k \in 0..N : f[k] = IF k = 0 THEN 0 ELSE f[k - 1] + NameSize[name[k][1]] + 1
    <3>1. ASSUME NEW k \in 1..N
          PROVE  f[k] = f[k - 1] + NameSize[name[k][1]] + 1
      <4>1. f[k] = f[k - 1] + d[k] /\ d[k] = NameSize[name[k][1]] + 1
        BY <1>2
      <4>2. f[k - 1] \in Nat /\ NameSize[name[k][1]] \in Nat
        BY <1>1, <1>2
      <4>3. QED  BY <4>1, <4>2
    <3>2. QED  BY <3>1, <1>2
  <2>2. QED  BY <2>1
<1>4. size = Body(size)
  BY <1>3
<1>5. \A n : SizeTo(name, n) = size[n]
  BY DEF SizeTo
<1> HIDE DEF size
<1>6. \A n \in 0..N : size[n] = IF n = 0 THEN 0 ELSE size[n - 1] + NameSize[name[n][1]] + 1
  BY <1>4
<1>7. \A n \in 1..N : size[n] = size[n - 1] + NameSize[name[n][1]] + 1
  BY <1>6
<1>8. \A n \in 0..N : size[n] \in Nat
  <2> DEFINE T == {n \in 0..N : size[n] \notin Nat}
  <2>1. SUFFICES ASSUME T # {} PROVE FALSE
    OBVIOUS
  <2>2. T \subseteq Nat
    BY <1>1
  <2>3. \E m \in T : \A n \in T : m <= n
    <3> HIDE DEF T
    <3>1. QED  BY <2>1, <2>2, LeastElement
  <2>4. PICK m \in T : \A n \in T : m <= n
    BY <2>3
  <2>5. m # 0
    BY <1>6, <2>4
  <2>6. m \in 1..N /\ m - 1 \in 0..N /\ m - 1 \notin T
    BY <1>1, <2>4, <2>5
  <2>7. size[m - 1] \in Nat /\ NameSize[name[m][1]] \in Nat
    BY <2>6
  <2>8. size[m] \in Nat
    BY <1>7, <2>6, <2>7
  <2>9. QED  BY <2>4, <2>8
<1>9. SizeTo(name, 0) = 0
  BY <1>1, <1>5, <1>6
<1>10. \A n \in 0..N : SizeTo(name, n) \in Nat
  BY <1>5, <1>8
<1>11. \A n \in 1..N :
          SizeTo(name, n) = SizeTo(name, n - 1) + NameSize[name[n][1]] + 1
  BY <1>5, <1>7
<1>12. QED  BY <1>9, <1>10, <1>11

(* The bytes of labels before others are fewer.                            *)
LEMMA SizeGrows ==
    ASSUME NEW name, NEW S, name \in Seq(S),
           \A k \in 1..Len(name) : NameSize[name[k][1]] \in Nat,
           NEW m \in 0..Len(name), NEW n \in 0..Len(name), m < n
    PROVE  SizeTo(name, m) + NameSize[name[m + 1][1]] + 1 <= SizeTo(name, n)
<1> DEFINE b == SizeTo(name, m) + NameSize[name[m + 1][1]] + 1
           T == {k \in (m + 1)..Len(name) : ~ (b <= SizeTo(name, k))}
<1>1. /\ \A k \in 0..Len(name) : SizeTo(name, k) \in Nat
      /\ \A k \in 1..Len(name) :
            SizeTo(name, k) = SizeTo(name, k - 1) + NameSize[name[k][1]] + 1
  BY SizeSums
<1>2. m \in Nat /\ n \in Nat /\ m + 1 \in 1..Len(name) /\ n \in (m + 1)..Len(name)
  OBVIOUS
<1>3. NameSize[name[m + 1][1]] \in Nat /\ b \in Nat /\ SizeTo(name, m + 1) = b
  BY <1>1, <1>2
<1> HIDE DEF b
<1>4. SUFFICES ASSUME T # {} PROVE FALSE
  BY <1>2 DEF b
<1>5. T \subseteq Nat
  BY <1>2
<1>6. \E k \in T : \A j \in T : k <= j
  <2> HIDE DEF T
  <2>1. QED  BY <1>4, <1>5, LeastElement
<1>7. PICK k \in T : \A j \in T : k <= j
  BY <1>6
<1>8. k # m + 1
  BY <1>3, <1>7
<1>9. k \in 1..Len(name) /\ k - 1 \in (m + 1)..Len(name) /\ k - 1 \notin T
  BY <1>2, <1>7, <1>8
<1>10. b <= SizeTo(name, k - 1)
  BY <1>9
<1>11. NameSize[name[k][1]] \in Nat /\ SizeTo(name, k - 1) \in Nat
  BY <1>1, <1>2, <1>9
<1>12. b <= SizeTo(name, k)
  <2>1. SizeTo(name, k) = SizeTo(name, k - 1) + NameSize[name[k][1]] + 1
    BY <1>1, <1>9
  <2>2. b \in Nat
    BY <1>3
  <2>3. QED  BY <1>10, <1>11, <2>1, <2>2
<1>13. QED  BY <1>7, <1>12

----------------------------------------------------------------------------
(* Writing a name.                                                         *)

\* Min of the community modules is a minimum of natural numbers.
LEMMA LeastOf ==
    ASSUME NEW T, T \subseteq Nat, T # {}
    PROVE  Min(T) \in T /\ \A n \in T : Min(T) <= n
<1>1. \E m \in T : \A n \in T : m <= n
  BY LeastElement
<1>2. QED  BY <1>1 DEF Min

(* The labels that are written: those before the first one with an offset. *)
LEMMA NewPrefix ==
    ASSUME NEW name, NEW offsets, Linked(name)
    PROVE  LET new == NewLabels(name, offsets) IN
           /\ new \in Seq(ToSet(name)) /\ Len(new) \in 0..Len(name)
           /\ \A k \in 1..Len(new) : new[k] = name[k] /\ name[k] \notin DOMAIN offsets
           /\ Len(new) < Len(name) => name[Len(new) + 1] \in DOMAIN offsets
           /\ new = name <=> Len(new) = Len(name)
<1> DEFINE done == {k \in DOMAIN name : name[k] \in DOMAIN offsets}
           new  == NewLabels(name, offsets)
           Sound(n) == /\ n \in Seq(ToSet(name)) /\ Len(n) \in 0..Len(name)
                       /\ \A k \in 1..Len(n) : n[k] = name[k] /\ name[k] \notin DOMAIN offsets
                       /\ Len(n) < Len(name) => name[Len(n) + 1] \in DOMAIN offsets
                       /\ n = name <=> Len(n) = Len(name)
<1>1. /\ name \in Seq(ToSet(name)) /\ Len(name) \in Nat
      /\ DOMAIN name = 1..Len(name)
  BY DEF Linked
<1>2. CASE done = {}
  <2>1. new = name
    BY <1>2 DEF NewLabels
  <2>2. \A k \in 1..Len(name) : name[k] \notin DOMAIN offsets
    BY <1>1, <1>2
  <2>3. Sound(name)
    BY <1>1, <2>2
  <2>4. QED  BY <2>1, <2>3
<1>3. CASE done # {}
  <2> DEFINE n == Min(done)
  <2>1. done \subseteq Nat
    BY <1>1
  <2>2. n \in done /\ \A k \in done : n <= k
    <3> HIDE DEF done
    <3>1. QED  BY <1>3, <2>1, LeastOf
  <2>3. new = SubSeq(name, 1, n - 1)
    BY <1>3 DEF NewLabels
  <2> HIDE DEF n, new
  <2>4. n \in 1..Len(name) /\ name[n] \in DOMAIN offsets
    BY <1>1, <2>2
  <2>5. \A k \in 1..(n - 1) : name[k] \notin DOMAIN offsets
    <3>1. ASSUME NEW k \in 1..(n - 1), name[k] \in DOMAIN offsets
          PROVE  FALSE
      <4>1. k \in done /\ k < n
        BY <1>1, <2>4, <3>1
      <4>2. QED  BY <2>2, <4>1, <2>4
    <3>2. QED  BY <3>1
  <2>6. /\ new \in Seq(ToSet(name)) /\ Len(new) = n - 1
        /\ \A k \in 1..(n - 1) : new[k] = name[k]
    BY <1>1, <2>3, <2>4
  <2>7. Len(new) < Len(name) /\ new # name
    BY <1>1, <2>4, <2>6
  <2>8. Sound(new)
    BY <1>1, <2>4, <2>5, <2>6, <2>7
  <2>9. QED  BY <2>8 DEF new
<1>4. QED  BY <1>2, <1>3

(* The names in a record's data are short enough for a uint8_t.            *)
LEMMA WriteSizeExact ==
    ASSUME NEW l, NEW offsets, l = Host \/ \E k : l = InstanceAt(k)
    PROVE  LET new == NewLabels(Chain(l), offsets) IN
           WriteSize(l, offsets) = SizeOf(new) + IF new = Chain(l) THEN 0 ELSE 2
<1> DEFINE name == Chain(l)
           new  == NewLabels(name, offsets)
<1>1. Linked(name)
  BY ChainLinked DEF StartsName
<1>2. /\ new \in Seq(ToSet(name)) /\ Len(new) \in 0..Len(name)
      /\ \A k \in 1..Len(new) : new[k] = name[k]
  <2> HIDE DEF name
  <2>1. QED  BY <1>1, NewPrefix
<1> DEFINE d(k) == NameSize[name[k][1]]
           Small == /\ Len(name) \in 1..5
                    /\ \A k \in 1..Len(name) :
                          d(k) \in 0..62 /\ (k \in {4, 5} => d(k) \in 0..5)
<1>3. ASSUME l = Host
      PROVE  Small
  <2>1. Len(name) = 3 /\ d(1) \in 0..62 /\ d(2) = 5 /\ d(3) = 0
    BY <1>3, ChainOfHost, SizeAssumption DEF Host, LOCAL_NAME, ROOT, MAX_TEXT
  <2> HIDE DEF name, d
  <2>2. QED  BY <2>1
<1>4. ASSUME NEW k, l = InstanceAt(k)
      PROVE  Small
  <2>1. /\ Len(name) = 5 /\ d(1) \in 0..62 /\ d(2) \in 0..62 /\ d(3) \in 0..62
        /\ d(4) = 5 /\ d(5) = 0
    BY <1>4, ChainOfInstance, SizeAssumption
         DEF LOCAL_NAME, ROOT, Service, Protocol, InstanceAt, MAX_TEXT
  <2> HIDE DEF name, d
  <2>2. QED  BY <2>1
<1>5. Small
  <2> HIDE DEF Small
  <2>1. QED  BY <1>3, <1>4
<1> DEFINE z(n) == SizeTo(new, n)
           m == Len(new)
<1>6. m \in 0..5 /\ m \in 0..Len(name) /\ \A n \in 1..m : NameSize[new[n][1]] = d(n)
  <2>1. m \in 0..Len(name) /\ Len(name) \in 1..5
    BY <1>2, <1>5
  <2>2. \A n \in 1..m : NameSize[new[n][1]] = d(n)
    <3> HIDE DEF name, new, m
    <3>1. QED  BY <1>2 DEF m
  <2> HIDE DEF m, name
  <2>3. QED  BY <2>1, <2>2
<1>7. \A n \in 1..m : d(n) \in 0..62 /\ (n \in {4, 5} => d(n) \in 0..5)
  <2>1. m \in Nat /\ Len(name) \in Nat /\ m <= Len(name)
    BY <1>5, <1>6
  <2> HIDE DEF d, m, name, new
  <2>2. \A n \in 1..m : n \in 1..Len(name)
    BY <2>1
  <2>3. QED  BY <1>5, <2>2
<1>8. z(0) = 0 /\ \A n \in 1..m : z(n) = z(n - 1) + d(n) + 1
  <2>1. \A n \in 1..m : NameSize[new[n][1]] \in Nat
    <3> HIDE DEF m, name, new
    <3>1. \A n \in 1..m : d(n) \in Nat
      <4> HIDE DEF d
      <4>1. QED  BY <1>7
    <3>2. QED  BY <1>6, <3>1
  <2>2. z(0) = 0 /\ \A n \in 1..m : z(n) = z(n - 1) + NameSize[new[n][1]] + 1
    <3> HIDE DEF name, new
    <3>1. QED  BY <1>2, <2>1, SizeSums
  <2> HIDE DEF m, name, new, z, d
  <2>3. QED  BY <1>6, <2>2
<1>9. z(m) \in 0..253
  <2> HIDE DEF z, d, m, name
  <2>1. z(0) = 0 /\ m \in 0..5
    BY <1>6, <1>8
  <2>2. m >= 1 => z(1) \in 0..63
    BY <1>7, <1>8, <2>1
  <2>3. m >= 2 => z(2) \in 0..126
    BY <1>7, <1>8, <2>1, <2>2
  <2>4. m >= 3 => z(3) \in 0..189
    BY <1>7, <1>8, <2>1, <2>3, SMTT(30)
  <2>5. m >= 4 => z(4) \in 0..195
    BY <1>7, <1>8, <2>1, <2>4
  <2>6. m >= 5 => z(5) \in 0..201
    BY <1>7, <1>8, <2>1, <2>5
  <2>7. m \in {0, 1, 2, 3, 4, 5}
    BY <2>1
  <2>8. QED  BY <2>1, <2>2, <2>3, <2>4, <2>5, <2>6, <2>7
<1>10. WriteSize(l, offsets) = (SizeOf(new) + IF new = name THEN 0 ELSE 2) % 256
  BY DEF WriteSize
<1>11. SizeOf(new) \in 0..253
  BY <1>9 DEF SizeOf
<1>12. \A n \in 0..253 : n % 256 = n /\ (n + 2) % 256 = n + 2
  OBVIOUS
<1>13. WriteSize(l, offsets) = SizeOf(new) + IF new = name THEN 0 ELSE 2
  <2> HIDE DEF new, name
  <2>1. QED  BY <1>10, <1>11, <1>12
<1>14. QED  BY <1>13

\* What is written is within the buffer.
Within(w) ==
    /\ w.at \in 0..BUFFER_SIZE
    /\ \A l \in DOMAIN w.offsets : w.offsets[l] \in 0..BUFFER_SIZE
    /\ DOMAIN w.image \subseteq 0..BUFFER_SIZE

\* An offset stays where the buffer ends.
LEMMA CappedIs ==
    ASSUME NEW n \in Nat
    PROVE  /\ Capped(n) = IF n <= BUFFER_SIZE THEN n ELSE BUFFER_SIZE
           /\ Capped(n) \in 0..BUFFER_SIZE
<1>1. BUFFER_SIZE \in Nat
  BY SizeAssumption
<1> DEFINE m == Min({n, BUFFER_SIZE})
<1>2. m \in {n, BUFFER_SIZE} /\ \A k \in {n, BUFFER_SIZE} : m <= k
  BY <1>1, LeastOf
<1> HIDE DEF m
<1>3. /\ m = IF n <= BUFFER_SIZE THEN n ELSE BUFFER_SIZE
      /\ m \in 0..BUFFER_SIZE
  BY <1>1, <1>2
<1>4. QED  BY <1>3 DEF Capped, m

\* What is written of a name, with its sizes.
LEMMA NewOf ==
    ASSUME NEW l, StartsName(l), NEW offsets
    PROVE  LET name == Chain(l)
               new  == NewLabels(name, offsets)
           IN  /\ new \in Seq(ToSet(name)) /\ DOMAIN new = 1..Len(new)
               /\ Len(name) \in Nat \ {0} /\ Len(new) \in 0..Len(name)
               /\ \A k \in 1..Len(new) :
                     /\ new[k] = name[k] /\ name[k] \notin DOMAIN offsets
                     /\ NameSize[new[k][1]] \in Nat
               /\ \A j, k \in 1..Len(new) : new[j] = new[k] => j = k
               /\ Len(new) < Len(name) => name[Len(new) + 1] \in DOMAIN offsets
               /\ new = name <=> Len(new) = Len(name)
               /\ \A n \in 0..Len(new) : SizeTo(new, n) \in Nat
               /\ SizeTo(new, 0) = 0
               /\ \A n \in 1..Len(new) :
                     SizeTo(new, n) = SizeTo(new, n - 1) + NameSize[new[n][1]] + 1
<1> DEFINE name == Chain(l)
           new  == NewLabels(name, offsets)
<1>1. Linked(name)
  BY ChainLinked
<1> HIDE DEF name
<1>2. /\ new \in Seq(ToSet(name)) /\ Len(new) \in 0..Len(name)
      /\ \A k \in 1..Len(new) : new[k] = name[k] /\ name[k] \notin DOMAIN offsets
      /\ Len(new) < Len(name) => name[Len(new) + 1] \in DOMAIN offsets
      /\ new = name <=> Len(new) = Len(name)
  BY <1>1, NewPrefix
<1> HIDE DEF new
<1>3. Len(name) \in Nat \ {0} /\ DOMAIN new = 1..Len(new) /\ Len(new) \in Nat
  BY <1>1, <1>2 DEF Linked
<1>4. \A k \in 1..Len(new) : k \in 1..Len(name)
  BY <1>2, <1>3
<1>5. \A k \in 1..Len(new) : NameSize[new[k][1]] \in Nat
  BY <1>1, <1>2, <1>4 DEF Linked
<1>6. \A j, k \in 1..Len(new) : new[j] = new[k] => j = k
  BY <1>1, <1>2, <1>4 DEF Linked
<1>7. /\ \A n \in 0..Len(new) : SizeTo(new, n) \in Nat
      /\ SizeTo(new, 0) = 0
      /\ \A n \in 1..Len(new) :
            SizeTo(new, n) = SizeTo(new, n - 1) + NameSize[new[n][1]] + 1
  BY <1>2, <1>5, SizeSums
<1>8. QED  BY <1>2, <1>3, <1>5, <1>6, <1>7 DEF name, new

(* A name that is written, whether or not the buffer ends in it.           *)
LEMMA WriteNameWithin ==
    ASSUME NEW l, StartsName(l), NEW w, Within(w)
    PROVE  LET v == WriteName(l, w) IN
           /\ Within(v) /\ w.at <= v.at
           /\ DOMAIN w.offsets \subseteq DOMAIN v.offsets
           /\ DOMAIN v.offsets \subseteq DOMAIN w.offsets \cup ToSet(Chain(l))
           /\ l \in DOMAIN v.offsets
<1> DEFINE name  == Chain(l)
           new   == NewLabels(name, w.offsets)
           at(k) == Capped(w.at + SizeTo(new, k - 1))
           end   == at(Len(new) + 1)
           places == {at(k) : k \in DOMAIN new}
           jumps  == IF new = name THEN {} ELSE {end}
           v      == WriteName(l, w)
<1>1. v.at = IF new = name THEN end ELSE Capped(end + 2)
  BY DEF WriteName
<1>2. /\ DOMAIN v.offsets = DOMAIN w.offsets \cup ToSet(new)
      /\ \A l2 \in DOMAIN v.offsets :
            v.offsets[l2] = IF l2 \in ToSet(new)
                            THEN at(CHOOSE k \in DOMAIN new : new[k] = l2)
                            ELSE w.offsets[l2]
  BY DEF WriteName
<1>3. DOMAIN v.image = DOMAIN w.image \cup places \cup jumps
  BY DEF WriteName
<1>4. name[1] = l
  BY ChainLinked
<1>5. /\ new \in Seq(ToSet(name)) /\ DOMAIN new = 1..Len(new)
      /\ Len(name) \in Nat \ {0} /\ Len(new) \in 0..Len(name)
      /\ \A k \in 1..Len(new) : new[k] = name[k]
      /\ Len(new) < Len(name) => name[Len(new) + 1] \in DOMAIN w.offsets
  BY NewOf
<1>6. w.at \in 0..BUFFER_SIZE /\ BUFFER_SIZE \in Nat
  BY SizeAssumption DEF Within
<1>7. /\ Len(new) \in Nat /\ DOMAIN new = 1..Len(new)
      /\ Len(name) \in Nat /\ Len(name) >= 1
  <2> HIDE DEF name, new
  <2>1. QED  BY <1>5
<1>9. \A n \in 0..Len(new) : SizeTo(new, n) \in Nat
  BY NewOf
<1>10. \A k \in 1..(Len(new) + 1) :
          at(k) \in 0..BUFFER_SIZE /\ w.at <= at(k)
  <2> SUFFICES ASSUME NEW k \in 1..(Len(new) + 1)
               PROVE  at(k) \in 0..BUFFER_SIZE /\ w.at <= at(k)
    OBVIOUS
  <2> DEFINE n == SizeTo(new, k - 1)
  <2> HIDE DEF new, n
  <2>1. k - 1 \in 0..Len(new)
    BY <1>7
  <2>2. n \in Nat
    BY <1>9, <2>1 DEF n
  <2>3. w.at + n \in Nat /\ w.at <= w.at + n
    BY <1>6, <2>2
  <2>4. Capped(w.at + n) \in 0..BUFFER_SIZE /\ w.at <= Capped(w.at + n)
    BY <1>6, <2>3, CappedIs
  <2>5. QED  BY <2>4 DEF n
<1>11. end \in 0..BUFFER_SIZE /\ w.at <= end
  <2> HIDE DEF at, new
  <2>1. Len(new) + 1 \in 1..(Len(new) + 1)
    BY <1>7
  <2>2. QED  BY <1>10, <2>1
<1> HIDE DEF at, end, new, name, v
<1>12. v.at \in 0..BUFFER_SIZE /\ w.at <= v.at
  <2>1. end + 2 \in Nat /\ end <= end + 2
    BY <1>6, <1>11
  <2>2. Capped(end + 2) \in 0..BUFFER_SIZE /\ end <= Capped(end + 2)
    BY <1>6, <1>11, <2>1, CappedIs
  <2>3. QED  BY <1>1, <1>6, <1>11, <2>2
<1>13. \A k \in DOMAIN new : at(k) \in 0..BUFFER_SIZE
  <2>1. \A k \in DOMAIN new : k \in 1..(Len(new) + 1)
    BY <1>7
  <2>2. QED  BY <1>10, <2>1
<1>14. \A l2 \in DOMAIN v.offsets : v.offsets[l2] \in 0..BUFFER_SIZE
  <2> SUFFICES ASSUME NEW l2 \in DOMAIN v.offsets
               PROVE  v.offsets[l2] \in 0..BUFFER_SIZE
    OBVIOUS
  <2>1. CASE l2 \in ToSet(new)
    <3> DEFINE k == CHOOSE k \in DOMAIN new : new[k] = l2
    <3>1. k \in DOMAIN new
      BY <2>1 DEF ToSet
    <3>2. v.offsets[l2] = at(k)
      BY <1>2, <2>1
    <3> HIDE DEF k
    <3>3. QED  BY <1>13, <3>1, <3>2
  <2>2. CASE l2 \notin ToSet(new)
    <3>1. l2 \in DOMAIN w.offsets /\ v.offsets[l2] = w.offsets[l2]
      BY <1>2, <2>2
    <3>2. QED  BY <3>1 DEF Within
  <2>3. QED  BY <2>1, <2>2
<1>15. DOMAIN v.image \subseteq 0..BUFFER_SIZE
  BY <1>3, <1>11, <1>13 DEF Within
<1>16. ToSet(new) \subseteq ToSet(name)
  BY <1>5 DEF ToSet
<1>17. l \in DOMAIN v.offsets
  <2>1. CASE Len(new) = 0
    <3>1. name[1] \in DOMAIN w.offsets
      BY <2>1, <1>5, <1>7
    <3>2. QED  BY <3>1, <1>2, <1>4
  <2>2. CASE Len(new) # 0
    <3>1. 1 \in 1..Len(new)
      BY <2>2, <1>7
    <3>2. new[1] = l /\ new[1] \in ToSet(new)
      BY <3>1, <1>4, <1>5, <1>7 DEF ToSet
    <3>3. QED  BY <3>2, <1>2
  <2>3. QED  BY <2>1, <2>2
<1>18. QED  BY <1>2, <1>12, <1>14, <1>15, <1>16, <1>17 DEF Within, v, name

\* Bytes that are not names.
LEMMA SkipWithin ==
    ASSUME NEW w, NEW n \in Nat, Within(w)
    PROVE  LET v == Skip(w, n) IN
           /\ Within(v) /\ w.at <= v.at
           /\ v.offsets = w.offsets /\ v.image = w.image
           /\ v.at < BUFFER_SIZE => v.at = w.at + n
<1>1. w.at \in 0..BUFFER_SIZE /\ BUFFER_SIZE \in Nat
  BY SizeAssumption DEF Within
<1>2. /\ Capped(w.at + n) \in 0..BUFFER_SIZE /\ w.at <= Capped(w.at + n)
      /\ Capped(w.at + n) < BUFFER_SIZE => Capped(w.at + n) = w.at + n
  BY <1>1, CappedIs
<1>3. QED  BY <1>1, <1>2 DEF Skip, Within

\* Where a name is written that does not reach the end of the buffer.
Exact(l, w) ==
    LET v     == WriteName(l, w)
        name  == Chain(l)
        new   == NewLabels(name, w.offsets)
        at(k) == w.at + SizeTo(new, k - 1)
    IN  /\ v.at = w.at + SizeOf(new) + IF new = name THEN 0 ELSE 2
        /\ \A k \in 1..Len(new) :
              /\ v.offsets[name[k]] = at(k)
              /\ at(k) \in DOMAIN v.image /\ v.image[at(k)] = name[k]
        /\ Len(new) < Len(name) =>
              /\ at(Len(new) + 1) \in DOMAIN v.image
              /\ v.image[at(Len(new) + 1)] =
                    <<"pointer", w.offsets[name[Len(new) + 1]]>>
        /\ DOMAIN v.offsets = DOMAIN w.offsets \cup ToSet(new)
        /\ \A l2 \in DOMAIN w.offsets : v.offsets[l2] = w.offsets[l2]
        /\ \A a \in DOMAIN w.image :
              a < w.at => a \in DOMAIN v.image /\ v.image[a] = w.image[a]
        /\ \A a \in DOMAIN v.image : a \in DOMAIN w.image \/ a < v.at

\* A name that ends before the buffer does is where Exact says.
LEMMA WriteNameExact ==
    ASSUME NEW l, StartsName(l), NEW w, Within(w), WriteName(l, w).at < BUFFER_SIZE
    PROVE  Exact(l, w)
<1> DEFINE name   == Chain(l)
           new    == NewLabels(name, w.offsets)
           size(k) == SizeTo(new, k)
           cap(k) == Capped(w.at + size(k - 1))
           at(k)  == w.at + size(k - 1)
           n      == Len(new)
           places == {cap(k) : k \in DOMAIN new}
           jumps  == IF new = name THEN {} ELSE {cap(n + 1)}
           v      == WriteName(l, w)
<1>1. v.at = IF new = name THEN cap(n + 1) ELSE Capped(cap(n + 1) + 2)
  BY DEF WriteName
<1>2. /\ DOMAIN v.offsets = DOMAIN w.offsets \cup ToSet(new)
      /\ \A l2 \in DOMAIN v.offsets :
            v.offsets[l2] = IF l2 \in ToSet(new)
                            THEN cap(CHOOSE k \in DOMAIN new : new[k] = l2)
                            ELSE w.offsets[l2]
  BY DEF WriteName
<1>3. /\ DOMAIN v.image = DOMAIN w.image \cup places \cup jumps
      /\ \A a \in DOMAIN v.image :
            v.image[a] = IF a \in places THEN new[CHOOSE k \in DOMAIN new : cap(k) = a]
                         ELSE IF a \in jumps THEN <<"pointer", w.offsets[name[n + 1]]>>
                         ELSE w.image[a]
  BY DEF WriteName
<1>4. /\ new \in Seq(ToSet(name)) /\ DOMAIN new = 1..n
      /\ Len(name) \in Nat \ {0} /\ n \in 0..Len(name)
      /\ \A k \in 1..n : /\ new[k] = name[k] /\ name[k] \notin DOMAIN w.offsets
                         /\ NameSize[new[k][1]] \in Nat
      /\ \A j, k \in 1..n : new[j] = new[k] => j = k
      /\ new = name <=> n = Len(name)
      /\ \A k \in 0..n : size(k) \in Nat
  BY NewOf
<1>5. \A j, k \in 0..n : j < k => size(j) < size(k)
  <2> SUFFICES ASSUME NEW j \in 0..n, NEW k \in 0..n, j < k
               PROVE  size(j) < size(k)
    OBVIOUS
  <2>1. size(j) + NameSize[new[j + 1][1]] + 1 <= size(k)
    <3> HIDE DEF new
    <3>1. QED  BY <1>4, SizeGrows
  <2>2. NameSize[new[j + 1][1]] \in Nat
    <3>1. j + 1 \in 1..n
      <4> HIDE DEF new, n
      <4>1. QED  BY <1>4
    <3>2. QED  BY <1>4, <3>1
  <2> DEFINE z == NameSize[new[j + 1][1]]
  <2> HIDE DEF size, z
  <2>3. size(j) \in Nat /\ size(k) \in Nat
    BY <1>4
  <2>4. QED  BY <2>1, <2>2, <2>3 DEF z
<1>6. /\ w.at \in 0..BUFFER_SIZE /\ BUFFER_SIZE \in Nat
      /\ \A k \in Nat : /\ Capped(k) = IF k <= BUFFER_SIZE THEN k ELSE BUFFER_SIZE
                        /\ Capped(k) \in 0..BUFFER_SIZE
  BY SizeAssumption, CappedIs DEF Within
<1>7. size(n) = SizeOf(new)
  BY DEF SizeOf
<1> HIDE DEF v, new, name, size, n
<1>8. n \in Nat /\ n + 1 \in 1..(n + 1) /\ n \in 0..n
  BY <1>4
<1>9. \A k \in 1..(n + 1) : k - 1 \in 0..n /\ size(k - 1) \in Nat /\ at(k) \in Nat
  BY <1>4, <1>6, <1>8, SMTT(30)
<1>9a. at(n + 1) = w.at + size(n)
  <2>1. \A x : x = n => w.at + size(x) = w.at + size(n)
    OBVIOUS
  <2>2. (n + 1) - 1 = n
    BY <1>8
  <2>3. w.at + size((n + 1) - 1) = w.at + size(n)
    BY <2>1, <2>2
  <2>4. at(n + 1) = w.at + size((n + 1) - 1)
    OBVIOUS
  <2> HIDE DEF at
  <2>5. QED  BY <2>3, <2>4
<1>10. /\ cap(n + 1) = at(n + 1) /\ at(n + 1) < BUFFER_SIZE
       /\ v.at = at(n + 1) + IF new = name THEN 0 ELSE 2
  <2>1. v.at < BUFFER_SIZE
    BY DEF v
  <2>2. at(n + 1) \in Nat /\ cap(n + 1) \in 0..BUFFER_SIZE
    BY <1>6, <1>8, <1>9
  <2> DEFINE x == at(n + 1)
             c == cap(n + 1)
  <2>3. c = IF x <= BUFFER_SIZE THEN x ELSE BUFFER_SIZE
    BY <1>6, <2>2
  <2>4. c + 2 \in Nat
    BY <1>6, <2>2
  <2>5. Capped(c + 2) = IF c + 2 <= BUFFER_SIZE THEN c + 2 ELSE BUFFER_SIZE
    BY <1>6, <2>4
  <2>6. v.at = IF new = name THEN c ELSE Capped(c + 2)
    BY <1>1
  <2> HIDE DEF x, c
  <2>7. c = x /\ x < BUFFER_SIZE /\ v.at = x + IF new = name THEN 0 ELSE 2
    <3>1. x \in Nat /\ c \in 0..BUFFER_SIZE
      BY <2>2 DEF x, c
    <3>2. CASE new = name
      BY <2>1, <2>3, <2>6, <3>1, <3>2, <1>6
    <3>3. CASE new # name
      BY <2>1, <2>3, <2>5, <2>6, <3>1, <3>3, <1>6
    <3>4. QED  BY <3>2, <3>3
  <2>8. QED  BY <2>7 DEF x, c
<1>11. \A k \in 1..n : at(k) < at(n + 1)
  <2> SUFFICES ASSUME NEW k \in 1..n PROVE at(k) < at(n + 1)
    OBVIOUS
  <2>1. k - 1 \in 0..n /\ k - 1 < n
    BY <1>8
  <2>2. size(k - 1) < size(n) /\ size(k - 1) \in Nat /\ size(n) \in Nat
    BY <1>4, <1>5, <1>8, <2>1
  <2>3. w.at + size(k - 1) < w.at + size(n)
    BY <1>6, <2>2
  <2> HIDE DEF at
  <2>4. at(k) = w.at + size(k - 1)
    BY DEF at
  <2>5. QED  BY <1>9a, <2>3, <2>4
<1>12. \A k \in 1..(n + 1) : cap(k) = at(k) /\ at(k) \in Nat
  <2> SUFFICES ASSUME NEW k \in 1..n PROVE cap(k) = at(k) /\ at(k) \in Nat
    <3>1. \A k \in 1..(n + 1) : k \in 1..n \/ k = n + 1
      BY <1>8
    <3>2. QED  BY <1>9, <1>10, <3>1
  <2>1. at(k) \in Nat /\ at(n + 1) \in Nat
    BY <1>8, <1>9
  <2>2. at(k) <= BUFFER_SIZE
    <3> HIDE DEF at
    <3>1. QED  BY <1>6, <1>10, <1>11, <2>1
  <2>3. QED  BY <1>6, <2>1, <2>2
<1>13. \A j, k \in 1..(n + 1) : cap(j) = cap(k) => j = k
  <2> SUFFICES ASSUME NEW j \in 1..(n + 1), NEW k \in 1..(n + 1), j < k
               PROVE  cap(j) # cap(k)
    <3>1. \A j, k \in 1..(n + 1) : j = k \/ j < k \/ k < j
      BY <1>8
    <3>2. QED  BY <3>1
  <2>1. j - 1 \in 0..n /\ k - 1 \in 0..n /\ j - 1 < k - 1
    BY <1>8
  <2>2. size(j - 1) < size(k - 1) /\ size(j - 1) \in Nat /\ size(k - 1) \in Nat
    BY <1>4, <1>5, <2>1
  <2>3. at(j) # at(k)
    BY <1>6, <2>2
  <2>4. QED  BY <1>12, <2>3
<1> HIDE DEF cap, at
<1>14. ASSUME NEW k \in 1..n
       PROVE  /\ v.offsets[name[k]] = at(k)
              /\ at(k) \in DOMAIN v.image /\ v.image[at(k)] = name[k]
  <2>0. k \in DOMAIN new /\ k \in 1..(n + 1) /\ new[k] = name[k]
    BY <1>4, <1>8
  <2>1. name[k] \in ToSet(new)
    BY <2>0 DEF ToSet
  <2> DEFINE j == CHOOSE j \in DOMAIN new : new[j] = name[k]
             m == CHOOSE m \in DOMAIN new : cap(m) = cap(k)
  <2>2. j \in DOMAIN new /\ new[j] = new[k]
    BY <2>0
  <2>3. m \in DOMAIN new /\ cap(m) = cap(k)
    BY <2>0
  <2>4. v.offsets[name[k]] = cap(j)
    BY <1>2, <2>1
  <2>5. cap(k) \in places /\ v.image[cap(k)] = new[m]
    BY <1>3, <2>0
  <2> HIDE DEF j, m
  <2>6. j = k
    BY <1>4, <2>2
  <2>7. m = k
    <3>1. m \in 1..(n + 1)
      BY <1>4, <1>8, <2>3
    <3>2. QED  BY <1>13, <2>0, <2>3, <3>1
  <2>8. QED  BY <1>3, <1>12, <2>0, <2>4, <2>5, <2>6, <2>7
<1>15. ASSUME n < Len(name)
       PROVE  /\ at(n + 1) \in DOMAIN v.image
              /\ v.image[at(n + 1)] = <<"pointer", w.offsets[name[n + 1]]>>
  <2>1. n # Len(name)
    <3> HIDE DEF n
    <3>1. QED  BY <1>4, <1>15
  <2>2. cap(n + 1) \in jumps
    BY <2>1, <1>4
  <2>3. cap(n + 1) \notin places
    <3>1. \A k \in DOMAIN new : k \in 1..(n + 1) /\ k # n + 1
      BY <1>4, <1>8
    <3>2. QED  BY <1>8, <1>13, <3>1
  <2>4. QED  BY <1>3, <1>8, <1>12, <2>2, <2>3
<1>16. ASSUME NEW l2 \in DOMAIN w.offsets
       PROVE  v.offsets[l2] = w.offsets[l2]
  <2>1. l2 \notin ToSet(new)
    BY <1>4 DEF ToSet
  <2>2. QED  BY <1>2, <2>1
<1>17. \A a \in places \cup jumps : w.at <= a
  <2>1. \A k \in 1..(n + 1) : w.at <= at(k)
    BY <1>6, <1>9 DEF at
  <2>2. \A k \in DOMAIN new : k \in 1..(n + 1)
    BY <1>4, <1>8
  <2>3. QED  BY <1>8, <1>12, <2>1, <2>2
<1>18. ASSUME NEW a \in DOMAIN w.image, a < w.at
       PROVE  a \in DOMAIN v.image /\ v.image[a] = w.image[a]
  <2>1. a \in 0..BUFFER_SIZE
    BY DEF Within
  <2>2. a \notin places \cup jumps
    <3> HIDE DEF places, jumps
    <3>1. QED  BY <1>6, <1>17, <1>18, <2>1
  <2>3. QED  BY <1>3, <2>2
<1>19. ASSUME NEW a \in DOMAIN v.image, a \notin DOMAIN w.image
       PROVE  a < v.at
  <2>1. v.at \in Nat /\ at(n + 1) \in Nat /\ at(n + 1) <= v.at
    BY <1>8, <1>9, <1>10 DEF at
  <2>2. CASE a \in places
    <3>1. PICK k \in 1..n : a = at(k)
      <4>1. \A k \in DOMAIN new : k \in 1..n /\ k \in 1..(n + 1)
        BY <1>4, <1>8
      <4>2. QED  BY <1>12, <2>2, <4>1
    <3>2. a < at(n + 1) /\ a \in Nat
      <4>1. k \in 1..(n + 1)
        BY <1>8
      <4>2. QED  BY <1>11, <1>12, <3>1, <4>1
    <3>3. QED  BY <2>1, <3>2
  <2>3. CASE a \notin places
    <3>1. a \in jumps
      BY <1>3, <1>19, <2>3
    <3>2. new # name /\ a = at(n + 1)
      BY <1>10, <3>1
    <3>3. v.at = at(n + 1) + 2
      BY <1>10, <3>2
    <3>4. QED  BY <2>1, <3>2, <3>3
  <2>4. QED  BY <2>2, <2>3
<1>20. v.at = w.at + SizeOf(new) + IF new = name THEN 0 ELSE 2
  BY <1>7, <1>9a, <1>10
<1>21. QED
  BY <1>2, <1>14, <1>15, <1>16, <1>18, <1>19, <1>20
    DEF Exact, at, size, n, v, name, new

----------------------------------------------------------------------------
(* Reading what was written.                                               *)

\* At a there is label l, or a pointer to it.
Starts(a, l, w) ==
    /\ l \in DOMAIN w.offsets /\ a \in DOMAIN w.image
    /\ a = w.offsets[l] \/ w.image[a] = <<"pointer", w.offsets[l]>>

(* A label is where its offset says, and the rest of its name follows.     *)
Readable(w) ==
    /\ \A a \in DOMAIN w.image : a < w.at
    /\ \A l \in DOMAIN w.offsets :
          /\ l[1] # "pointer"
          /\ w.offsets[l] \in DOMAIN w.image /\ w.image[w.offsets[l]] = l
          /\ l # ROOT => Starts(w.offsets[l] + NameSize[l[1]] + 1, nextLabel(l), w)

\* What was readable stays so, and the new name can be read.
LEMMA WriteNameReadable ==
    ASSUME NEW l, StartsName(l), NEW w, Within(w), Readable(w),
           WriteName(l, w).at < BUFFER_SIZE
    PROVE  LET v == WriteName(l, w) IN
           /\ Readable(v) /\ Starts(w.at, l, v)
           /\ \A a, m : Starts(a, m, w) => Starts(a, m, v)
<1> DEFINE v     == WriteName(l, w)
           name  == Chain(l)
           new   == NewLabels(name, w.offsets)
           n     == Len(new)
           size(k) == SizeTo(new, k)
           at(k) == w.at + size(k - 1)
<1>0. Exact(l, w)
  BY WriteNameExact
<1>1. /\ \A k \in 1..n : /\ v.offsets[name[k]] = at(k)
                         /\ at(k) \in DOMAIN v.image /\ v.image[at(k)] = name[k]
      /\ n < Len(name) => /\ at(n + 1) \in DOMAIN v.image
                          /\ v.image[at(n + 1)] = <<"pointer", w.offsets[name[n + 1]]>>
      /\ DOMAIN v.offsets = DOMAIN w.offsets \cup ToSet(new)
      /\ \A l2 \in DOMAIN w.offsets : v.offsets[l2] = w.offsets[l2]
      /\ \A a \in DOMAIN w.image :
            a < w.at => a \in DOMAIN v.image /\ v.image[a] = w.image[a]
      /\ \A a \in DOMAIN v.image : a \in DOMAIN w.image \/ a < v.at
  BY <1>0 DEF Exact
<1>2. /\ DOMAIN new = 1..n /\ Len(name) \in Nat \ {0} /\ n \in 0..Len(name)
      /\ \A k \in 1..n : new[k] = name[k] /\ NameSize[new[k][1]] \in Nat
      /\ n < Len(name) => name[n + 1] \in DOMAIN w.offsets
      /\ \A k \in 0..n : size(k) \in Nat
      /\ size(0) = 0
      /\ \A k \in 1..n : size(k) = size(k - 1) + NameSize[new[k][1]] + 1
  BY NewOf
<1>3. Linked(name) /\ name[1] = l
  BY ChainLinked
<1>4. /\ Within(v) /\ w.at <= v.at /\ w.at \in Nat /\ v.at \in Nat
      /\ DOMAIN w.image \subseteq Nat
  BY WriteNameWithin, SizeAssumption DEF Within
<1> HIDE DEF v, new, name, n, size
<1>5. n \in Nat /\ Len(name) \in Nat /\ n <= Len(name) /\ 1 <= Len(name)
  BY <1>2
<1>6. ASSUME NEW a, NEW m, Starts(a, m, w)
      PROVE  Starts(a, m, v)
  <2>1. m \in DOMAIN v.offsets /\ v.offsets[m] = w.offsets[m]
    BY <1>1, <1>6 DEF Starts
  <2>2. a \in DOMAIN v.image /\ v.image[a] = w.image[a]
    BY <1>1, <1>6 DEF Starts, Readable
  <2>3. QED  BY <1>6, <2>1, <2>2 DEF Starts
<1>7. \A k \in 1..n : at(k) + NameSize[name[k][1]] + 1 = at(k + 1)
  <2> SUFFICES ASSUME NEW k \in 1..n
               PROVE  at(k) + NameSize[name[k][1]] + 1 = at(k + 1)
    OBVIOUS
  <2>1. k \in 0..n /\ k - 1 \in 0..n
    BY <1>5
  <2> DEFINE d == NameSize[name[k][1]]
  <2>2. /\ size(k) = size(k - 1) + d + 1 /\ d \in Nat
        /\ size(k) \in Nat /\ size(k - 1) \in Nat
    BY <1>2, <2>1
  <2> HIDE DEF d
  <2>3. \A x : x = k => w.at + size(x) = w.at + size(k)
    OBVIOUS
  <2>4. (k + 1) - 1 = k
    OBVIOUS
  <2>5. at(k + 1) = w.at + size(k)
    BY <2>3, <2>4
  <2>6. w.at + size(k - 1) + d + 1 = w.at + size(k)
    BY <1>4, <2>2
  <2>7. QED  BY <2>5, <2>6 DEF d
<1>8. at(1) = w.at
  <2>1. \A x : x = 0 => w.at + size(x) = w.at + 0
    BY <1>2
  <2>2. 1 - 1 = 0
    OBVIOUS
  <2>3. at(1) = w.at + 0
    BY <2>1, <2>2
  <2>4. QED  BY <1>4, <2>3
<1> HIDE DEF at
<1>9. \A k \in 1..n : name[k] \in DOMAIN v.offsets
  <2>1. \A k \in 1..n : name[k] \in ToSet(new)
    BY <1>2 DEF ToSet
  <2>2. QED  BY <1>1, <2>1

(* What starts at each place of the name.                                  *)
<1>10. ASSUME NEW k \in 1..(n + 1), k <= Len(name)
       PROVE  Starts(at(k), name[k], v)
  <2>1. CASE k = n + 1
    <3>1. n < Len(name)
      BY <1>5, <1>10, <2>1
    <3>2. name[k] \in DOMAIN w.offsets
      BY <1>2, <2>1, <3>1
    <3>3. at(k) \in DOMAIN v.image /\ v.image[at(k)] = <<"pointer", w.offsets[name[k]]>>
      BY <1>1, <2>1, <3>1
    <3>4. name[k] \in DOMAIN v.offsets /\ v.offsets[name[k]] = w.offsets[name[k]]
      BY <1>1, <3>2
    <3>5. QED  BY <3>3, <3>4 DEF Starts
  <2>2. CASE k # n + 1
    <3>1. k \in 1..n
      BY <1>5, <2>2
    <3>2. QED  BY <1>1, <1>9, <3>1 DEF Starts
  <2>3. QED  BY <2>1, <2>2
<1>11. Starts(w.at, l, v)
  <2>1. 1 \in 1..(n + 1) /\ 1 <= Len(name)
    BY <1>5
  <2>2. Starts(at(1), name[1], v)
    BY <1>10, <2>1
  <2>3. QED  BY <1>3, <1>8, <2>2
<1>12. \A a \in DOMAIN v.image : a < v.at
  <2> SUFFICES ASSUME NEW a \in DOMAIN v.image, a \in DOMAIN w.image
               PROVE  a < v.at
    BY <1>1
  <2>1. a < w.at /\ a \in Nat
    BY <1>4 DEF Readable
  <2>2. QED  BY <1>4, <2>1
<1>13. ASSUME NEW m \in DOMAIN v.offsets
       PROVE  /\ m[1] # "pointer"
              /\ v.offsets[m] \in DOMAIN v.image /\ v.image[v.offsets[m]] = m
              /\ m # ROOT => Starts(v.offsets[m] + NameSize[m[1]] + 1, nextLabel(m), v)
  <2>1. CASE m \in DOMAIN w.offsets
    <3>1. v.offsets[m] = w.offsets[m]
      BY <1>1, <2>1
    <3>2. /\ m[1] # "pointer"
          /\ w.offsets[m] \in DOMAIN w.image /\ w.image[w.offsets[m]] = m
          /\ m # ROOT => Starts(w.offsets[m] + NameSize[m[1]] + 1, nextLabel(m), w)
      BY <2>1 DEF Readable
    <3>3. w.offsets[m] < w.at
      BY <3>2 DEF Readable
    <3>4. w.offsets[m] \in DOMAIN v.image /\ v.image[w.offsets[m]] = m
      BY <1>1, <3>2, <3>3
    <3>5. m # ROOT => Starts(w.offsets[m] + NameSize[m[1]] + 1, nextLabel(m), v)
      BY <1>6, <3>2
    <3>6. QED  BY <3>1, <3>2, <3>4, <3>5
  <2>2. CASE m \notin DOMAIN w.offsets
    <3>1. m \in ToSet(new)
      BY <1>1, <2>2
    <3>2. PICK k \in 1..n : m = name[k]
      BY <1>2, <3>1 DEF ToSet
    <3>3. /\ v.offsets[m] = at(k) /\ at(k) \in DOMAIN v.image
          /\ v.image[at(k)] = m
      BY <1>1, <3>2
    <3>4. k \in 1..Len(name) /\ k + 1 \in 1..(n + 1)
      BY <1>5
    <3>5. m[1] # "pointer"
      BY <1>3, <3>2, <3>4 DEF Linked
    <3>6. ASSUME m # ROOT
          PROVE  Starts(at(k) + NameSize[m[1]] + 1, nextLabel(m), v)
      <4>1. k # Len(name)
        BY <1>3, <3>2, <3>6 DEF Linked
      <4>2. k \in 1..(Len(name) - 1) /\ k + 1 <= Len(name)
        BY <1>5, <3>4, <4>1
      <4>3. nextLabel(m) = name[k + 1]
        BY <1>3, <3>2, <4>2 DEF Linked
      <4>4. Starts(at(k + 1), name[k + 1], v)
        BY <1>10, <3>4, <4>2
      <4>5. QED  BY <1>7, <3>2, <4>3, <4>4
    <3>7. QED  BY <3>3, <3>5, <3>6
  <2>3. QED  BY <2>1, <2>2
<1>14. Readable(v)
  BY <1>12, <1>13 DEF Readable
<1>15. QED  BY <1>6, <1>11, <1>14 DEF v

\* Bytes that are not names leave what was readable.
LEMMA SkipReadable ==
    ASSUME NEW w, NEW n \in Nat, Within(w), Readable(w)
    PROVE  LET v == Skip(w, n) IN
           /\ Readable(v)
           /\ \A a, m : Starts(a, m, w) => Starts(a, m, v)
<1> DEFINE v == Skip(w, n)
<1>1. /\ Within(v) /\ w.at <= v.at /\ v.offsets = w.offsets /\ v.image = w.image
  BY SkipWithin
<1>2. w.at \in Nat /\ v.at \in Nat /\ DOMAIN w.image \subseteq Nat
  BY <1>1, SizeAssumption DEF Within
<1> HIDE DEF v
<1>3. \A a, m : Starts(a, m, w) <=> Starts(a, m, v)
  BY <1>1 DEF Starts
<1>4. \A a \in DOMAIN v.image : a < v.at
  <2> SUFFICES ASSUME NEW a \in DOMAIN w.image PROVE a < v.at
    BY <1>1
  <2>1. a < w.at /\ a \in Nat
    BY <1>2 DEF Readable
  <2>2. QED  BY <1>1, <1>2, <2>1
<1>5. Readable(v)
  BY <1>1, <1>3, <1>4 DEF Readable
<1>6. QED  BY <1>3, <1>5 DEF v

(* A reader who starts at a name finds the labels that Chain links.        *)
LEMMA ReadsChain ==
    ASSUME NEW l, StartsName(l), NEW w, Within(w), Readable(w), w.image = image,
           NEW a, Starts(a, l, w)
    PROVE  Reads(a, Chain(l))
<1> DEFINE name == Chain(l)
           f    == [k \in DOMAIN name |-> w.offsets[name[k]]]
           From(k, g) == IF k = 1 THEN a ELSE g[k - 1] + NameSize[name[k - 1][1]] + 1
           Body(g) == [k \in DOMAIN name |-> Jump(From(k, g))]
           place == CHOOSE g : g = Body(g)
<1>1. Linked(name) /\ name[1] = l
  BY ChainLinked
<1> HIDE DEF name
<1>2. Len(name) \in Nat /\ DOMAIN name = 1..Len(name)
  BY <1>1 DEF Linked
<1>3. \A b, m : Starts(b, m, w) => Jump(b) = w.offsets[m]
  <2> SUFFICES ASSUME NEW b, NEW m, Starts(b, m, w)
               PROVE  Jump(b) = w.offsets[m]
    OBVIOUS
  <2>1. b \in DOMAIN image
    BY DEF Starts
  <2>2. CASE b = w.offsets[m]
    <3>1. image[b] = m /\ m[1] # "pointer"
      BY <2>2 DEF Starts, Readable
    <3>2. QED  BY <2>2, <3>1 DEF Jump
  <2>3. CASE image[b] = <<"pointer", w.offsets[m]>>
    BY <2>1, <2>3 DEF Jump
  <2>4. QED  BY <2>2, <2>3 DEF Starts
<1>4. \A k \in 1..Len(name) : name[k] \in DOMAIN w.offsets
  <2> DEFINE T == {k \in 1..Len(name) : name[k] \notin DOMAIN w.offsets}
  <2>1. SUFFICES ASSUME T # {} PROVE FALSE
    OBVIOUS
  <2>2. T \subseteq Nat
    BY <1>2
  <2>3. \E m \in T : \A k \in T : m <= k
    <3> HIDE DEF T
    <3>1. QED  BY <2>1, <2>2, LeastElement
  <2>4. PICK m \in T : \A k \in T : m <= k
    BY <2>3
  <2>5. m # 1
    BY <1>1, <2>4 DEF Starts
  <2>6. m - 1 \in 1..(Len(name) - 1) /\ m - 1 \in 1..Len(name) /\ m - 1 < m
    BY <1>2, <2>4, <2>5
  <2>7. name[m - 1] \in DOMAIN w.offsets
    <3>1. m - 1 \in Nat /\ m \in Nat
      BY <2>4, <2>6
    <3>2. QED  BY <2>4, <2>6, <3>1
  <2>8. name[m - 1] # ROOT /\ name[(m - 1) + 1] = nextLabel(name[m - 1])
    BY <1>1, <2>6 DEF Linked
  <2>9. nextLabel(name[m - 1]) \in DOMAIN w.offsets
    BY <2>7, <2>8 DEF Readable, Starts
  <2>10. (m - 1) + 1 = m
    BY <2>4
  <2>11. QED  BY <2>4, <2>8, <2>9, <2>10
<1>5. \A k \in 1..Len(name) : Jump(From(k, f)) = w.offsets[name[k]]
  <2> SUFFICES ASSUME NEW k \in 1..Len(name)
               PROVE  Jump(From(k, f)) = w.offsets[name[k]]
    OBVIOUS
  <2>1. CASE k = 1
    BY <1>1, <1>3, <2>1
  <2>2. CASE k # 1
    <3>1. k - 1 \in 1..(Len(name) - 1) /\ k - 1 \in 1..Len(name)
      BY <1>2, <2>2
    <3>2. name[k - 1] # ROOT /\ name[(k - 1) + 1] = nextLabel(name[k - 1])
      BY <1>1, <3>1 DEF Linked
    <3>3. (k - 1) + 1 = k
      OBVIOUS
    <3>4. name[k] = nextLabel(name[k - 1])
      BY <3>2, <3>3
    <3>5. name[k - 1] \in DOMAIN w.offsets /\ f[k - 1] = w.offsets[name[k - 1]]
      BY <1>2, <1>4, <3>1
    <3>6. Starts(f[k - 1] + NameSize[name[k - 1][1]] + 1, name[k], w)
      BY <3>2, <3>4, <3>5 DEF Readable
    <3>7. From(k, f) = f[k - 1] + NameSize[name[k - 1][1]] + 1
      BY <2>2
    <3>8. QED  BY <1>3, <3>6, <3>7
  <2>3. QED  BY <2>1, <2>2
<1>6. f = Body(f)
  <2> HIDE DEF From
  <2>1. QED  BY <1>2, <1>5
<1>7. place = Body(place)
  BY <1>6
<1>8. Reads(a, name) <=> \A k \in DOMAIN name :
                            place[k] \in DOMAIN image /\ image[place[k]] = name[k]
  BY DEF Reads
<1> HIDE DEF place
<1>9. \A k \in 1..Len(name) : place[k] = Jump(From(k, place))
  <2> HIDE DEF From
  <2>1. QED  BY <1>2, <1>7
<1>10. \A k \in 1..Len(name) : place[k] = w.offsets[name[k]]
  <2> DEFINE T == {k \in 1..Len(name) : place[k] # w.offsets[name[k]]}
  <2>1. SUFFICES ASSUME T # {} PROVE FALSE
    OBVIOUS
  <2>2. T \subseteq Nat
    BY <1>2
  <2>3. \E m \in T : \A k \in T : m <= k
    <3> HIDE DEF T
    <3>1. QED  BY <2>1, <2>2, LeastElement
  <2>4. PICK m \in T : \A k \in T : m <= k
    BY <2>3
  <2>5. m \in 1..Len(name) /\ Jump(From(m, f)) = w.offsets[name[m]]
    BY <1>5, <2>4
  <2>6. CASE m = 1
    <3>1. From(m, place) = From(m, f)
      BY <2>6
    <3>2. QED  BY <1>9, <2>4, <2>5, <3>1
  <2>7. CASE m # 1
    <3>1. m - 1 \in 1..Len(name) /\ m - 1 < m /\ m - 1 \in Nat /\ m \in Nat
      BY <1>2, <2>5, <2>7
    <3>2. place[m - 1] = w.offsets[name[m - 1]]
      BY <2>4, <3>1
    <3>3. f[m - 1] = w.offsets[name[m - 1]]
      BY <1>2, <3>1
    <3>4. From(m, place) = From(m, f)
      BY <2>7, <3>2, <3>3
    <3>5. QED  BY <1>9, <2>4, <2>5, <3>4
  <2>8. QED  BY <2>6, <2>7
<1>11. \A k \in 1..Len(name) : /\ w.offsets[name[k]] \in DOMAIN image
                               /\ image[w.offsets[name[k]]] = name[k]
  BY <1>4 DEF Readable
<1>12. QED  BY <1>2, <1>8, <1>10, <1>11 DEF name

----------------------------------------------------------------------------
(* Writing a record.                                                       *)

IsRecord(r) ==
    \/ r \in {HostA, HostNSEC}
    \/ \E k : r \in {PTR(k), SRV(k), TXT(k), NSEC(k)}
    \/ \E k, x : r = SubPTR(k, x)

\* Every record is given a label that starts a name.
LEMMA OwnerStartsName ==
    ASSUME NEW r, IsRecord(r)
    PROVE  StartsName(Owner(r))
BY DEF IsRecord, Owner, StartsName, HostA, HostNSEC, PTR, SRV, TXT, NSEC, SubPTR

LEMMA OthersStartName == StartsName(Host) /\ \A k : StartsName(InstanceAt(k))
BY DEF StartsName

\* A record's data are so many bytes, or a name in between.
LEMMA DataOf ==
    ASSUME NEW r, IsRecord(r), NEW w
    PROVE  \/ r[1] \in {"A", "TXT"} /\ Type(r) = r[1]
              /\ \E n \in Nat : WriteData(r, w) = Skip(w, n) /\ DataLength(r, w) = n
           \/ r = HostNSEC /\ Type(r) = "NSEC" /\ Owner(r) = Host
              /\ WriteData(r, w) = Skip(WriteName(Host, w), 3)
              /\ DataLength(r, w) = 5
           \/ r[1] = "NSEC" /\ Type(r) = "NSEC" /\ Owner(r) = InstanceAt(r[2])
              /\ WriteData(r, w) = Skip(WriteName(InstanceAt(r[2]), w), 7)
              /\ DataLength(r, w) = 9
           \/ r[1] = "SRV" /\ Type(r) = "SRV"
              /\ WriteData(r, w) = WriteName(Host, Skip(w, 6))
              /\ DataLength(r, w) = 6 + WriteSize(Host, w.offsets)
           \/ r[1] \in {"PTR", "subPTR"} /\ Type(r) = "PTR"
              /\ WriteData(r, w) = WriteName(InstanceAt(r[2]), w)
              /\ DataLength(r, w) = WriteSize(InstanceAt(r[2]), w.offsets)
<1> USE DEF HostA, HostNSEC, PTR, SRV, TXT, NSEC, SubPTR, Type, WriteData, DataLength, Owner
<1>1. CASE r = HostA
  BY <1>1
<1>2. CASE r = HostNSEC
  BY <1>2
<1>3. ASSUME NEW k, r = PTR(k)
      PROVE  /\ r[1] = "PTR" /\ Type(r) = "PTR"
             /\ WriteData(r, w) = WriteName(InstanceAt(r[2]), w)
             /\ DataLength(r, w) = WriteSize(InstanceAt(r[2]), w.offsets)
  BY <1>3
<1>4. ASSUME NEW k, r = SRV(k)
      PROVE  /\ r[1] = "SRV" /\ Type(r) = "SRV"
             /\ WriteData(r, w) = WriteName(Host, Skip(w, 6))
             /\ DataLength(r, w) = 6 + WriteSize(Host, w.offsets)
  BY <1>4
<1>5. ASSUME NEW k, r = TXT(k)
      PROVE  /\ r[1] = "TXT" /\ Type(r) = "TXT"
             /\ WriteData(r, w) = Skip(w, TxtSize) /\ DataLength(r, w) = TxtSize
  BY <1>5
<1>6. ASSUME NEW k, r = NSEC(k)
      PROVE  /\ r[1] = "NSEC" /\ Type(r) = "NSEC" /\ Owner(r) = InstanceAt(r[2])
             /\ WriteData(r, w) = Skip(WriteName(InstanceAt(r[2]), w), 7)
             /\ DataLength(r, w) = 9
  BY <1>6
<1>7. ASSUME NEW k, NEW x, r = SubPTR(k, x)
      PROVE  /\ r[1] = "subPTR" /\ Type(r) = "PTR"
             /\ WriteData(r, w) = WriteName(InstanceAt(r[2]), w)
             /\ DataLength(r, w) = WriteSize(InstanceAt(r[2]), w.offsets)
  BY <1>7
<1>8. TxtSize \in Nat
  BY SizeAssumption
<1>9. QED
  BY <1>1, <1>2, <1>3, <1>4, <1>5, <1>6, <1>7, <1>8 DEF IsRecord

\* getWriteSize says what write does.
LEMMA NameLength ==
    ASSUME NEW l, l = Host \/ \E k : l = InstanceAt(k), NEW w, Within(w),
           WriteName(l, w).at < BUFFER_SIZE
    PROVE  /\ WriteSize(l, w.offsets) \in Nat
           /\ WriteName(l, w).at = w.at + WriteSize(l, w.offsets)
<1> DEFINE name == Chain(l)
           new  == NewLabels(name, w.offsets)
<1>1. StartsName(l)
  BY DEF StartsName
<1>2. Exact(l, w)
  BY <1>1, WriteNameExact
<1>3. WriteName(l, w).at = w.at + SizeOf(new) + IF new = name THEN 0 ELSE 2
  BY <1>2 DEF Exact
<1>4. SizeOf(new) \in Nat
  <2>1. Len(new) \in 0..Len(new) /\ \A n \in 0..Len(new) : SizeTo(new, n) \in Nat
    <3>1. /\ \A n \in 0..Len(new) : SizeTo(new, n) \in Nat
          /\ Len(name) \in Nat \ {0} /\ Len(new) \in 0..Len(name)
      BY <1>1, NewOf
    <3> HIDE DEF new, name
    <3>2. QED  BY <3>1
  <2>2. QED  BY <2>1 DEF SizeOf
<1>5. WriteSize(l, w.offsets) = SizeOf(new) + IF new = name THEN 0 ELSE 2
  BY WriteSizeExact
<1>6. w.at \in Nat
  BY SizeAssumption DEF Within
<1> HIDE DEF new, name
<1>7. QED  BY <1>3, <1>4, <1>5, <1>6

(* A name that was written before is a pointer.                            *)
LEMMA NameAgain ==
    ASSUME NEW l, StartsName(l), NEW w, Within(w), l \in DOMAIN w.offsets,
           WriteName(l, w).at < BUFFER_SIZE
    PROVE  WriteName(l, w).at = w.at + 2
<1> DEFINE name == Chain(l)
           new  == NewLabels(name, w.offsets)
<1>1. Exact(l, w)
  BY WriteNameExact
<1>2. WriteName(l, w).at = w.at + SizeOf(new) + IF new = name THEN 0 ELSE 2
  BY <1>1 DEF Exact
<1>3. /\ Len(name) \in Nat \ {0} /\ Len(new) \in 0..Len(name)
      /\ \A k \in 1..Len(new) : name[k] \notin DOMAIN w.offsets
      /\ new = name <=> Len(new) = Len(name)
      /\ SizeTo(new, 0) = 0
  BY NewOf
<1>4. name[1] = l
  BY ChainLinked
<1> HIDE DEF new, name
<1>5. Len(new) = 0
  <2>1. Len(new) # 0 => 1 \in 1..Len(new)
    BY <1>3
  <2>2. QED  BY <1>3, <1>4, <2>1
<1>6. SizeOf(new) = 0 /\ new # name
  BY <1>3, <1>5 DEF SizeOf
<1>7. w.at \in Nat
  BY SizeAssumption DEF Within
<1>8. QED  BY <1>2, <1>6, <1>7

\* The labels in a record's data.
DataLabels(r) ==
    ToSet(Chain(Host)) \cup
        IF r \in {HostA, HostNSEC} THEN {} ELSE ToSet(Chain(InstanceAt(r[2])))

\* From w on a record's data, or a whole record, are written up to v.
Wrote(w, v, new) ==
    /\ Within(v) /\ w.at <= v.at
    /\ DOMAIN w.offsets \subseteq DOMAIN v.offsets
    /\ DOMAIN v.offsets \subseteq DOMAIN w.offsets \cup new

\* What was readable still is.
Kept(w, v) == Readable(v) /\ \A a, m : Starts(a, m, w) => Starts(a, m, v)

\* Where the names in a record's data start, the data being at a.
DataReads(r, a, v) ==
    /\ Type(r) = "PTR" => Starts(a, InstanceAt(r[2]), v)
    /\ Type(r) = "SRV" => Starts(a + 6, Host, v)
    /\ Type(r) = "NSEC" => Starts(a, Owner(r), v)

\* A record's data stay in the buffer, with offsets for its labels only.
LEMMA WriteDataWithin ==
    ASSUME NEW r, IsRecord(r), NEW w, Within(w)
    PROVE  Wrote(w, WriteData(r, w), DataLabels(r))
<1> DEFINE v == WriteData(r, w)
<1>1. w.at \in Nat /\ \A u : Within(u) => u.at \in Nat
  BY SizeAssumption DEF Within
<1>2. \A n \in Nat : \A u : Within(u) => Wrote(u, Skip(u, n), {})
  BY SkipWithin DEF Wrote
<1>3. \A l, u : StartsName(l) /\ Within(u) => Wrote(u, WriteName(l, u), ToSet(Chain(l)))
  BY WriteNameWithin DEF Wrote
<1>4. \A u1, u2, u3, S : Within(u1) /\ Wrote(u1, u2, {}) /\ Wrote(u2, u3, S) => Wrote(u1, u3, S)
  BY <1>1 DEF Wrote
<1>5. \A u1, u2, u3, S : Within(u1) /\ Wrote(u1, u2, S) /\ Wrote(u2, u3, {}) => Wrote(u1, u3, S)
  BY <1>1 DEF Wrote
<1>6. \A S : Wrote(w, v, S) /\ S \subseteq DataLabels(r) => Wrote(w, v, DataLabels(r))
  BY DEF Wrote
<1>7. \A u1, u2, S : Wrote(u1, u2, S) => Within(u2)
  BY DEF Wrote
<1>8. r[1] \in {"NSEC", "PTR", "subPTR"} =>
         ToSet(Chain(InstanceAt(r[2]))) \subseteq DataLabels(r)
  BY DEF DataLabels, HostA, HostNSEC
<1>9. ToSet(Chain(Host)) \subseteq DataLabels(r)
  BY DEF DataLabels
<1> HIDE DEF v
<1>10. ASSUME \E n \in Nat : v = Skip(w, n)
       PROVE  Wrote(w, v, DataLabels(r))
  BY <1>2, <1>6, <1>10
<1>11. ASSUME v = Skip(WriteName(Host, w), 3)
       PROVE  Wrote(w, v, DataLabels(r))
  <2>1. Wrote(w, WriteName(Host, w), ToSet(Chain(Host)))
    BY <1>3, OthersStartName
  <2>2. Wrote(WriteName(Host, w), v, {})
    BY <1>2, <1>7, <1>11, <2>1
  <2>3. QED  BY <1>5, <1>6, <1>9, <2>1, <2>2
<1>12. ASSUME r[1] = "NSEC" /\ v = Skip(WriteName(InstanceAt(r[2]), w), 7)
       PROVE  Wrote(w, v, DataLabels(r))
  <2>1. Wrote(w, WriteName(InstanceAt(r[2]), w), ToSet(Chain(InstanceAt(r[2]))))
    BY <1>3, OthersStartName
  <2>2. Wrote(WriteName(InstanceAt(r[2]), w), v, {})
    BY <1>2, <1>7, <1>12, <2>1
  <2>3. QED  BY <1>5, <1>6, <1>8, <1>12, <2>1, <2>2
<1>13. ASSUME v = WriteName(Host, Skip(w, 6))
       PROVE  Wrote(w, v, DataLabels(r))
  <2>1. Wrote(w, Skip(w, 6), {})
    BY <1>2
  <2>2. Wrote(Skip(w, 6), v, ToSet(Chain(Host)))
    BY <1>3, <1>7, <1>13, <2>1, OthersStartName
  <2>3. QED  BY <1>4, <1>6, <1>9, <2>1, <2>2
<1>14. ASSUME r[1] \in {"PTR", "subPTR"} /\ v = WriteName(InstanceAt(r[2]), w)
       PROVE  Wrote(w, v, DataLabels(r))
  <2>1. Wrote(w, v, ToSet(Chain(InstanceAt(r[2]))))
    BY <1>3, <1>14, OthersStartName
  <2>2. QED  BY <1>6, <1>8, <1>14, <2>1
<1>15. Wrote(w, v, DataLabels(r))
  BY <1>10, <1>11, <1>12, <1>13, <1>14, DataOf DEF v
<1>16. QED  BY <1>15 DEF v

\* The length that is declared is that of the data.
LEMMA WriteDataLength ==
    ASSUME NEW r, IsRecord(r), NEW w, Within(w), Owner(r) \in DOMAIN w.offsets,
           WriteData(r, w).at < BUFFER_SIZE
    PROVE  DataLength(r, w) = WriteData(r, w).at - w.at
<1> DEFINE v == WriteData(r, w)
           n == DataLength(r, w)
<1>1. /\ BUFFER_SIZE \in Nat
      /\ \A u : Within(u) => u.at \in Nat
  BY SizeAssumption DEF Within
<1>2. \A k \in Nat : \A u : Within(u) =>
         /\ Within(Skip(u, k)) /\ u.at <= Skip(u, k).at /\ Skip(u, k).offsets = u.offsets
         /\ Skip(u, k).at < BUFFER_SIZE => Skip(u, k).at = u.at + k
  BY SkipWithin
<1>3. \A l : StartsName(l) => Within(WriteName(l, w)) /\ w.at <= WriteName(l, w).at
  BY WriteNameWithin
<1>4. \A l : StartsName(l) /\ l \in DOMAIN w.offsets /\ WriteName(l, w).at < BUFFER_SIZE
                => WriteName(l, w).at = w.at + 2
  BY NameAgain
<1>5. v.at < BUFFER_SIZE
  OBVIOUS
<1>6. StartsName(Host) /\ StartsName(InstanceAt(r[2]))
  BY OthersStartName
<1>7. w.at \in Nat
  BY <1>1
<1> HIDE DEF v, n
<1>8. ASSUME NEW k \in Nat, v = Skip(w, k), n = k
      PROVE  n = v.at - w.at
  BY <1>2, <1>5, <1>7, <1>8
<1>9. ASSUME NEW l, NEW k \in Nat, StartsName(l), l \in DOMAIN w.offsets,
             v = Skip(WriteName(l, w), k), n = k + 2
      PROVE  n = v.at - w.at
  <2> DEFINE u == WriteName(l, w)
  <2>1. Within(u) /\ u.at \in Nat
    BY <1>1, <1>3, <1>9
  <2>2. u.at <= v.at /\ v.at = u.at + k
    BY <1>2, <1>5, <1>9, <2>1
  <2>3. u.at < BUFFER_SIZE
    <3> HIDE DEF u
    <3>1. QED  BY <1>1, <1>5, <2>1, <2>2
  <2>4. u.at = w.at + 2
    BY <1>4, <1>9, <2>3
  <2> HIDE DEF u
  <2>5. QED  BY <1>7, <1>9, <2>2, <2>4
<1>10. ASSUME NEW l, NEW u, l = Host \/ \E k : l = InstanceAt(k), Within(u), u.offsets = w.offsets,
              v = WriteName(l, u), NEW k \in Nat, u.at = w.at + k,
              n = k + WriteSize(l, w.offsets)
       PROVE  n = v.at - w.at
  <2>1. WriteSize(l, u.offsets) \in Nat /\ v.at = u.at + WriteSize(l, u.offsets)
    BY <1>5, <1>10, NameLength
  <2>2. QED  BY <1>7, <1>10, <2>1
<1>11. ASSUME r[1] = "SRV" /\ v = WriteName(Host, Skip(w, 6)) /\ n = 6 + WriteSize(Host, w.offsets)
       PROVE  n = v.at - w.at
  <2> DEFINE u == Skip(w, 6)
  <2>1. Within(u) /\ u.offsets = w.offsets /\ (u.at < BUFFER_SIZE => u.at = w.at + 6)
    BY <1>2
  <2>2. u.at <= v.at
    BY <1>6, <1>11, <2>1, WriteNameWithin
  <2>3. u.at \in Nat /\ v.at \in Nat
    <3>1. Within(v)
      BY <1>6, <1>11, <2>1, WriteNameWithin
    <3>2. QED  BY <1>1, <2>1, <3>1
  <2> HIDE DEF u
  <2>4. u.at = w.at + 6
    BY <1>1, <1>5, <2>1, <2>2, <2>3
  <2>5. QED  BY <1>10, <1>11, <2>1, <2>4 DEF u
<1>12. ASSUME v = WriteName(InstanceAt(r[2]), w) /\ n = WriteSize(InstanceAt(r[2]), w.offsets)
       PROVE  n = v.at - w.at
  <2>1. WriteSize(InstanceAt(r[2]), w.offsets) \in Nat
        /\ v.at = w.at + WriteSize(InstanceAt(r[2]), w.offsets)
    BY <1>5, <1>12, NameLength
  <2>2. QED  BY <1>7, <1>12, <2>1
<1>13. n = v.at - w.at
  BY <1>6, <1>8, <1>9, <1>11, <1>12, DataOf DEF v, n
<1>14. QED  BY <1>13 DEF v, n

\* The names in the data can be read.
LEMMA WriteDataReadable ==
    ASSUME NEW r, IsRecord(r), NEW w, Within(w), Readable(w),
           WriteData(r, w).at < BUFFER_SIZE
    PROVE  Kept(w, WriteData(r, w)) /\ DataReads(r, w.at, WriteData(r, w))
<1> DEFINE v == WriteData(r, w)
           Good(u) == Kept(w, u) /\ DataReads(r, w.at, u)
<1>1. BUFFER_SIZE \in Nat /\ \A u : Within(u) => u.at \in Nat
  BY SizeAssumption DEF Within
<1>2. \A n \in Nat : \A u : Within(u) =>
         /\ Within(Skip(u, n)) /\ u.at <= Skip(u, n).at
         /\ Skip(u, n).at < BUFFER_SIZE => Skip(u, n).at = u.at + n
  BY SkipWithin
<1>3. \A n \in Nat : \A u : Within(u) /\ Readable(u) => Kept(u, Skip(u, n))
  BY SkipReadable DEF Kept
<1>4. \A l, u : StartsName(l) /\ Within(u) => Within(WriteName(l, u)) /\ u.at <= WriteName(l, u).at
  BY WriteNameWithin
<1>5. \A l, u : StartsName(l) /\ Within(u) /\ Readable(u) /\ WriteName(l, u).at < BUFFER_SIZE =>
         Kept(u, WriteName(l, u)) /\ Starts(u.at, l, WriteName(l, u))
  BY WriteNameReadable DEF Kept
<1>6. \A u1, u2, u3 : Kept(u1, u2) /\ Kept(u2, u3) => Kept(u1, u3)
  BY DEF Kept
<1>7. \A u1, u2 : Kept(u1, u2) => Readable(u2) /\ \A a, m : Starts(a, m, u1) => Starts(a, m, u2)
  BY DEF Kept
<1>8. StartsName(Host) /\ \A k : StartsName(InstanceAt(k))
  BY OthersStartName
<1>9. v.at < BUFFER_SIZE
  OBVIOUS
<1> HIDE DEF v
<1>10. ASSUME NEW n \in Nat, v = Skip(w, n), Type(r) \in {"A", "TXT"}
       PROVE  Good(v)
  BY <1>3, <1>10 DEF DataReads
<1>11. ASSUME NEW l, StartsName(l), NEW n \in Nat, v = Skip(WriteName(l, w), n),
              Type(r) = "NSEC", Owner(r) = l
       PROVE  Good(v)
  <2> DEFINE u == WriteName(l, w)
  <2>1. Within(u)
    BY <1>4, <1>11
  <2> HIDE DEF u
  <2>2. u.at \in Nat /\ Within(v) /\ v.at \in Nat /\ u.at <= v.at
    BY <1>1, <1>2, <1>11, <2>1 DEF u
  <2>3. u.at < BUFFER_SIZE
    BY <1>1, <1>9, <2>2
  <2>4. Kept(w, u) /\ Starts(w.at, l, u)
    BY <1>5, <1>11, <2>3 DEF u
  <2>5. Kept(u, v)
    BY <1>3, <1>7, <1>11, <2>1, <2>4 DEF u
  <2>6. Kept(w, v) /\ Starts(w.at, l, v)
    BY <1>6, <1>7, <2>4, <2>5
  <2>7. QED  BY <1>11, <2>6 DEF DataReads
<1>12. ASSUME Type(r) = "SRV", v = WriteName(Host, Skip(w, 6))
       PROVE  Good(v)
  <2> DEFINE u == Skip(w, 6)
  <2>1. Within(u) /\ Kept(w, u) /\ Readable(u) /\ (u.at < BUFFER_SIZE => u.at = w.at + 6)
    BY <1>2, <1>3, <1>7
  <2> HIDE DEF u
  <2>2. u.at \in Nat /\ Within(v) /\ v.at \in Nat /\ u.at <= v.at
    BY <1>1, <1>4, <1>8, <1>12, <2>1 DEF u
  <2>3. u.at = w.at + 6
    BY <1>1, <1>9, <2>1, <2>2
  <2>4. Kept(u, v) /\ Starts(u.at, Host, v)
    BY <1>5, <1>8, <1>9, <1>12, <2>1 DEF u
  <2>5. Kept(w, v)
    BY <1>6, <2>1, <2>4
  <2>6. QED  BY <1>12, <2>3, <2>4, <2>5 DEF DataReads
<1>13. ASSUME Type(r) = "PTR", v = WriteName(InstanceAt(r[2]), w)
       PROVE  Good(v)
  <2>1. Kept(w, v) /\ Starts(w.at, InstanceAt(r[2]), v)
    BY <1>5, <1>8, <1>9, <1>13
  <2>2. QED  BY <1>13, <2>1 DEF DataReads
<1>14. Good(v)
  BY <1>8, <1>10, <1>11, <1>12, <1>13, DataOf DEF v
<1>15. QED  BY <1>14 DEF v

(* A whole record: its name, 10 bytes, its data.                           *)
LEMMA RecordWritten ==
    ASSUME NEW r, IsRecord(r), NEW w, Within(w)
    PROVE  LET data == Skip(WriteName(Owner(r), w), 10)
               end  == WriteData(r, data)
           IN  /\ Wrote(w, end, ToSet(Chain(Owner(r))) \cup DataLabels(r))
               /\ end.at < BUFFER_SIZE => DataLength(r, data) = end.at - data.at
               /\ end.at < BUFFER_SIZE /\ Readable(w) =>
                     /\ Kept(w, end) /\ Starts(w.at, Owner(r), end)
                     /\ DataReads(r, data.at, end)
<1> DEFINE l    == Owner(r)
           u    == WriteName(l, w)
           data == Skip(u, 10)
           end  == WriteData(r, data)
<1>1. BUFFER_SIZE \in Nat /\ \A x : Within(x) => x.at \in Nat
  BY SizeAssumption DEF Within
<1>2. StartsName(l)
  BY OwnerStartsName
<1>3. /\ Within(u) /\ w.at <= u.at
      /\ DOMAIN w.offsets \subseteq DOMAIN u.offsets
      /\ DOMAIN u.offsets \subseteq DOMAIN w.offsets \cup ToSet(Chain(l))
      /\ l \in DOMAIN u.offsets
  BY <1>2, WriteNameWithin
<1>4. /\ Within(data) /\ u.at <= data.at /\ data.offsets = u.offsets
  BY <1>3, SkipWithin
<1>5. Wrote(data, end, DataLabels(r))
  BY <1>4, WriteDataWithin
<1>6. end.at < BUFFER_SIZE => DataLength(r, data) = end.at - data.at
  BY <1>3, <1>4, WriteDataLength
<1>7. Readable(w) /\ u.at < BUFFER_SIZE => Kept(w, u) /\ Starts(w.at, l, u)
  BY <1>2, WriteNameReadable DEF Kept
<1>8. Readable(u) => Kept(u, data)
  BY <1>3, SkipReadable DEF Kept
<1>9. Readable(data) /\ end.at < BUFFER_SIZE => Kept(data, end) /\ DataReads(r, data.at, end)
  BY <1>4, WriteDataReadable
<1> HIDE DEF u, data, end, l
<1>10. Wrote(w, end, ToSet(Chain(l)) \cup DataLabels(r))
  <2>1. w.at <= end.at
    BY <1>1, <1>3, <1>4, <1>5 DEF Wrote
  <2>2. QED  BY <1>3, <1>4, <1>5, <2>1 DEF Wrote
<1>11. u.at <= end.at /\ u.at \in Nat /\ end.at \in Nat
  BY <1>1, <1>3, <1>4, <1>5 DEF Wrote
<1>12. ASSUME end.at < BUFFER_SIZE, Readable(w)
       PROVE  Kept(w, end) /\ Starts(w.at, l, end) /\ DataReads(r, data.at, end)
  <2>1. Kept(w, u) /\ Starts(w.at, l, u)
    BY <1>1, <1>7, <1>11, <1>12
  <2>2. Kept(u, data)
    BY <1>8, <2>1 DEF Kept
  <2>3. Kept(data, end) /\ DataReads(r, data.at, end)
    BY <1>9, <1>12, <2>2 DEF Kept
  <2>4. QED  BY <2>1, <2>2, <2>3 DEF Kept
<1>13. QED  BY <1>6, <1>10, <1>12 DEF u, data, end, l
=============================================================================
