--------------------------- MODULE DumaAddr_proofs --------------------------
(***************************************************************************)
(* Facts about the address arithmetic of _duma_allocate(), for every page   *)
(* size, request and block.                                                 *)
(***************************************************************************)
EXTENDS DumaAddr, TLAPS

(* Division by a positive number.                                           *)
LEMMA DivFacts ==
  ASSUME NEW x \in Int, NEW a \in Nat \ {0}
  PROVE  /\ x \div a \in Int
         /\ (x \div a) * a <= x
         /\ x < (x \div a) * a + a
  OBVIOUS

(* The quotient is at least every number whose product does not exceed x.   *)
LEMMA DivGreatest ==
  ASSUME NEW x \in Int, NEW a \in Nat \ {0}, NEW q \in Int, q * a <= x
  PROVE  q <= x \div a
<1> DEFINE d == x \div a
<1>1. d \in Int /\ x < d * a + a
  BY DivFacts
<1> HIDE DEF d
<1>2. SUFFICES ASSUME d < q PROVE FALSE
  BY <1>1 DEF d
<1>3. q - d >= 1 /\ q - d \in Int
  BY <1>1, <1>2
<1>4. (q - d) * a >= a
  BY <1>3, <1>1
<1>5. (q - d) * a = q * a - d * a
  BY <1>1
<1> QED BY <1>1, <1>4, <1>5

(* The quotient is below every number whose product exceeds x.              *)
LEMMA DivLess ==
  ASSUME NEW x \in Int, NEW a \in Nat \ {0}, NEW q \in Int, x < q * a
  PROVE  x \div a < q
<1> DEFINE d == x \div a
<1>1. d \in Int /\ d * a <= x
  BY DivFacts
<1> HIDE DEF d
<1>2. SUFFICES ASSUME q <= d PROVE FALSE
  BY <1>1 DEF d
<1>3. q * a <= d * a
  BY <1>1, <1>2
<1> QED BY <1>1, <1>3

(* A divisor and its quotient.                                              *)
LEMMA DivExact ==
  ASSUME NEW x \in Nat \ {0}, NEW a \in Nat \ {0}, x % a = 0
  PROVE  /\ x \div a \in Nat \ {0}
         /\ x = (x \div a) * a
<1>1. x = (x \div a) * a /\ x \div a \in Int
  OBVIOUS
<1>2. 0 * a < x
  OBVIOUS
<1> QED BY <1>1, <1>2, DivFacts

(* The whole pages that hold a buffer of size bytes.                        *)
LEMMA PagesForFacts ==
  ASSUME NEW size \in Nat \ {0}
  PROVE  /\ PagesFor(size) \in Nat \ {0}
         /\ size <= PagesFor(size) * PageSize
<1> DEFINE k == (size + PageSize - 1) \div PageSize
<1>1. PageSize \in Nat \ {0}
  BY AddrAssumption
<1>2. k \in Int /\ size + PageSize - 1 < k * PageSize + PageSize
  BY <1>1, DivFacts
<1>3. 1 <= k
  BY <1>1, DivGreatest
<1> HIDE DEF k
<1>4. k \in Nat \ {0} /\ size <= k * PageSize
  BY <1>1, <1>2, <1>3
<1> QED BY <1>4 DEF k, PagesFor, PageOf

(* Rounding down to a multiple of a.                                        *)
LEMMA RoundDownFacts ==
  ASSUME NEW x \in Int, NEW a \in Nat \ {0}
  PROVE  /\ RoundDown(x, a) \in Int
         /\ RoundDown(x, a) <= x
         /\ x < RoundDown(x, a) + a
         /\ \A q \in Int : q * a <= x => q * a <= RoundDown(x, a)
<1> DEFINE d == x \div a
<1>1. d \in Int /\ d * a <= x /\ x < d * a + a
  BY DivFacts
<1>2. ASSUME NEW q \in Int, q * a <= x
      PROVE  q <= d
  BY <1>2, DivGreatest
<1> HIDE DEF d
<1>3. ASSUME NEW q \in Int, q * a <= x
      PROVE  q * a <= d * a
  BY <1>1, <1>2, <1>3
<1>4. RoundDown(x, a) = d * a
  BY DEF RoundDown, d
<1> QED BY <1>1, <1>3, <1>4

(* The page of an address between two page boundaries.                      *)
LEMMA PageBounds ==
  ASSUME NEW addr \in Int, NEW lo \in Int, NEW hi \in Int,
         lo * PageSize <= addr, addr < hi * PageSize
  PROVE  PageOf(addr) \in Int /\ lo <= PageOf(addr) /\ PageOf(addr) < hi
<1>1. PageSize \in Nat \ {0}
  BY AddrAssumption
<1> QED BY <1>1, DivFacts, DivGreatest, DivLess DEF PageOf

(* The two ways an alignment relates to the page size, and the pages of a   *)
(* block of k pages for the buffer in each.                                 *)
LEMMA BlockSize ==
  ASSUME NEW r, ValidRequest(r), r.userSize # 0
  PROVE  LET k == PagesFor(r.userSize)
             a == r.alignment
         IN  /\ k \in Nat \ {0} /\ r.userSize <= k * PageSize
             /\ \/ /\ a <= PageSize
                   /\ InternalPages(r) = k + 1
                   /\ \E m \in Nat \ {0} : PageSize = m * a
                \/ \E m \in Nat \ {0} : /\ a = m * PageSize
                                        /\ InternalPages(r) = k + m
<1> DEFINE k == PagesFor(r.userSize)
           a == r.alignment
<1>1. /\ r.userSize \in Nat \ {0} /\ a \in Nat \ {0}
      /\ PageSize \in Nat \ {0}
      /\ PageSize % a = 0 \/ a % PageSize = 0
  BY AddrAssumption DEF ValidRequest, ValidAlign
<1>2. k \in Nat \ {0} /\ r.userSize <= k * PageSize
  BY <1>1, PagesForFacts
<1>3. CASE a <= PageSize
  <2>1. InternalPages(r) = k + 1
    BY <1>1, <1>2, <1>3 DEF InternalPages
  <2>2. CASE PageSize % a = 0
    BY <1>1, <1>2, <1>3, <2>1, <2>2, DivExact
  <2>3. CASE a % PageSize = 0
    <3>1. a = (a \div PageSize) * PageSize /\ a \div PageSize \in Nat \ {0}
      BY <1>1, <2>3, DivExact
    <3>2. a = PageSize
      BY <1>1, <1>3, <3>1
    <3>3. PageSize = 1 * a
      BY <1>1, <3>2
    <3> QED BY <1>2, <1>3, <2>1, <3>3
  <2> QED BY <1>1, <2>2, <2>3
<1>4. CASE a > PageSize
  <2>1. a % PageSize = 0
    <3>1. CASE PageSize % a = 0
      <4>1. PageSize = (PageSize \div a) * a /\ PageSize \div a \in Nat \ {0}
        BY <1>1, <3>1, DivExact
      <4> DEFINE q == PageSize \div a
      <4>2. q \in Nat \ {0} /\ PageSize = q * a
        BY <4>1
      <4> HIDE DEF q
      <4>3. q * a >= a
        BY <1>1, <4>2
      <4> QED BY <1>1, <1>4, <4>2, <4>3
    <3> QED BY <1>1, <3>1
  <2> DEFINE m == a \div PageSize
  <2>2. m \in Nat \ {0} /\ a = m * PageSize
    BY <1>1, <2>1, DivExact
  <2>3. InternalPages(r) = k + 1 + (m - 1)
    BY <1>1, <1>4 DEF InternalPages, PageOf
  <2> HIDE DEF m
  <2>4. InternalPages(r) = k + m
    BY <1>2, <2>2, <2>3
  <2>5. \E i \in Nat \ {0} : a = i * PageSize /\ InternalPages(r) = k + i
    BY <2>2, <2>4, Zenon
  <2> QED BY <1>2, <2>5, Zenon
<1>5. a <= PageSize \/ a > PageSize
  BY <1>1
<1> QED BY <1>3, <1>4, <1>5, Zenon

(* Products of the sums the geometry of a block is made of.                 *)
LEMMA Distribute ==
  ASSUME NEW x \in Int, NEW y \in Int, NEW z \in Int
  PROVE  /\ x * z \in Int /\ y * z \in Int
         /\ (x + y) * z = x * z + y * z
         /\ (x - y) * z = x * z - y * z
         /\ x * (y * z) = (x * y) * z
         /\ z >= 0 /\ x <= y => x * z <= y * z
  OBVIOUS

(* Between page base and page base + m - 1 starts a multiple of m pages.    *)
LEMMA MultipleWithin ==
  ASSUME NEW base \in Nat, NEW m \in Nat \ {0}
  PROVE  \E q \in Int : base <= q * m /\ q * m <= base + m - 1
<1> DEFINE q == (base + m - 1) \div m
<1>1. q \in Int /\ q * m <= base + m - 1 /\ base + m - 1 < q * m + m
  BY DivFacts
<1> HIDE DEF q
<1>2. base <= q * m
  BY <1>1
<1> QED BY <1>1, <1>2

(* Some multiple of the alignment lies between the start of page base and   *)
(* the start of page last: an alignment that divides the page size, and one *)
(* that is a multiple of it.                                                *)
LEMMA AlignedSmall ==
  ASSUME NEW base \in Nat, NEW a \in Nat, NEW m \in Nat, NEW P \in Nat, P = m * a
  PROVE  \E q \in Int : base * P = q * a
<1>1. base * P = (base * m) * a
  BY Distribute
<1>2. base * m \in Int
  OBVIOUS
<1> QED BY <1>1, <1>2, Zenon

LEMMA AlignedLarge ==
  ASSUME NEW base \in Nat, NEW a \in Nat, NEW m \in Nat \ {0}, NEW P \in Nat,
         a = m * P
  PROVE  \E q \in Int : base * P <= q * a /\ q * a <= (base + m - 1) * P
<1>1. PICK q \in Int : base <= q * m /\ q * m <= base + m - 1
  BY MultipleWithin
<1>2. q * a = (q * m) * P
  BY Distribute
<1>3. ASSUME NEW t \in Int, base <= t, t <= base + m - 1
      PROVE  base * P <= t * P /\ t * P <= (base + m - 1) * P
  BY <1>3, Distribute
<1>4. q * m \in Int
  OBVIOUS
<1>5. base * P <= q * a /\ q * a <= (base + m - 1) * P
  BY <1>1, <1>2, <1>3, <1>4, Zenon
<1> QED BY <1>5, Zenon

(* Rounding the start of a buffer that ends before page e down.             *)
LEMMA RoundedStart ==
  ASSUME NEW P \in Nat, NEW a \in Nat \ {0}, NEW u \in Nat, u > 0,
         NEW k \in Nat, NEW e \in Int, NEW base \in Nat, NEW q \in Int,
         u <= k * P, base * P <= q * a, q * a <= (e - k) * P
  PROVE  /\ RoundDown(e * P - u, a) \in Nat
         /\ base * P <= RoundDown(e * P - u, a)
         /\ RoundDown(e * P - u, a) < e * P
<1> DEFINE x == e * P - u
           user == RoundDown(x, a)
<1>1. (e - k) * P = e * P - k * P /\ e * P \in Int /\ k * P \in Int
  BY Distribute
<1>2. base * P \in Nat /\ q * a \in Int
  OBVIOUS
<1>3. x \in Int /\ q * a <= x /\ x < e * P
  BY <1>1, <1>2
<1> HIDE DEF x
<1>4. user \in Int /\ user <= x /\ q * a <= user
  BY <1>3, RoundDownFacts
<1> HIDE DEF user
<1>5. user \in Nat /\ base * P <= user /\ user < e * P
  BY <1>1, <1>2, <1>3, <1>4
<1> QED BY <1>5 DEF user, x

(* Rounding up to a multiple of a.                                          *)
LEMMA RoundUpFacts ==
  ASSUME NEW y \in Nat, NEW a \in Nat \ {0}
  PROVE  RoundUp(y, a) \in Nat /\ y <= RoundUp(y, a) /\ RoundUp(y, a) < y + a
<1> DEFINE x == y + a - 1
           u == RoundDown(x, a)
<1>1. x \in Int /\ x - a + 1 = y
  OBVIOUS
<1> HIDE DEF x
<1>2. u \in Int /\ u <= x /\ x < u + a
  BY <1>1, RoundDownFacts
<1> HIDE DEF u
<1>3. u \in Nat /\ y <= u /\ u < y + a
  BY <1>1, <1>2
<1> QED BY <1>3 DEF u, x, RoundUp

(* What the code knows of a request with a buffer.                          *)
LEMMA RequestNumbers ==
  ASSUME NEW r, ValidRequest(r), r.userSize # 0
  PROVE  /\ r.userSize \in Nat /\ r.userSize > 0
         /\ r.alignment \in Nat /\ r.alignment > 0
         /\ PageSize \in Nat /\ PageSize > 1
         /\ PagesFor(r.userSize) \in Nat /\ PagesFor(r.userSize) > 0
         /\ InternalPages(r) \in Nat
         /\ InternalPages(r) > PagesFor(r.userSize)
<1>1. /\ r.userSize \in Nat /\ r.userSize > 0
      /\ r.alignment \in Nat /\ r.alignment > 0
      /\ PageSize \in Nat /\ PageSize > 1
  BY AddrAssumption DEF ValidRequest, ValidAlign
<1>2. PagesFor(r.userSize) \in Nat /\ PagesFor(r.userSize) > 0
  BY <1>1, PagesForFacts
<1>3. PageOf(r.alignment) \in Int
  BY <1>1, DivFacts DEF PageOf
<1>4. r.alignment > PageSize => PageOf(r.alignment) >= 1
  BY <1>1, DivGreatest DEF PageOf
<1> QED BY <1>1, <1>2, <1>3, <1>4 DEF InternalPages

(* A buffer with its dead page above: it is within its block.               *)
LEMMA AboveGeometry ==
  ASSUME NEW r, ValidRequest(r), r.userSize # 0, ~ r.protectBelow,
         NEW base \in Nat
  PROVE  /\ UserAddr(r, base) \in Nat
         /\ base <= PageOf(UserAddr(r, base))
         /\ PageOf(UserAddr(r, base)) < base + InternalPages(r) - 1
<1> DEFINE k == PagesFor(r.userSize)
           a == r.alignment
           n == InternalPages(r)
           u == r.userSize
           e == base + n - 1
           user == RoundDown(e * PageSize - u, a)
<1>1. /\ u \in Nat /\ u > 0 /\ a \in Nat \ {0} /\ PageSize \in Nat
      /\ k \in Nat /\ n \in Nat
  BY RequestNumbers
<1>2. /\ u <= k * PageSize
      /\ \/ n = k + 1 /\ \E m \in Nat \ {0} : PageSize = m * a
         \/ \E m \in Nat \ {0} : a = m * PageSize /\ n = k + m
  BY BlockSize, Zenon
<1>3. UserAddr(r, base) = user
  BY DEF UserAddr
<1> HIDE DEF k, a, n, u
<1>4. \E q \in Int : base * PageSize <= q * a /\ q * a <= (e - k) * PageSize
  <2>1. ASSUME NEW m \in Nat \ {0}, n = k + 1, PageSize = m * a
        PROVE  \E q \in Int : base * PageSize <= q * a /\ q * a <= (e - k) * PageSize
    <3>1. PICK q \in Int : base * PageSize = q * a
      BY <1>1, <2>1, AlignedSmall
    <3>2. e - k = base
      BY <1>1, <2>1
    <3>3. base * PageSize \in Int
      BY <1>1
    <3> HIDE DEF e
    <3>4. base * PageSize <= q * a /\ q * a <= (e - k) * PageSize
      BY <3>1, <3>2, <3>3
    <3> QED BY <3>4, Zenon
  <2>2. ASSUME NEW m \in Nat \ {0}, a = m * PageSize, n = k + m
        PROVE  \E q \in Int : base * PageSize <= q * a /\ q * a <= (e - k) * PageSize
    <3>1. e - k = base + m - 1
      BY <1>1, <2>2
    <3>2. \E q \in Int : base * PageSize <= q * a /\ q * a <= (base + m - 1) * PageSize
      BY <1>1, <2>2, AlignedLarge
    <3> QED BY <3>1, <3>2, Zenon
  <2> QED BY <1>2, <2>1, <2>2, Zenon
<1>5. e \in Int
  BY <1>1
<1> HIDE DEF e
<1>6. user \in Nat /\ base * PageSize <= user /\ user < e * PageSize
  <2>1. PICK q \in Int : base * PageSize <= q * a /\ q * a <= (e - k) * PageSize
    BY <1>4
  <2> QED BY <1>1, <1>2, <1>5, <2>1, RoundedStart
<1> HIDE DEF user
<1>7. user \in Int /\ base \in Int
  BY <1>6
<1>8. base <= PageOf(user) /\ PageOf(user) < e
  BY <1>5, <1>6, <1>7, PageBounds, Zenon
<1> QED BY <1>3, <1>6, <1>8 DEF e, n

(* A buffer with its dead page below: it starts after the first page of its *)
(* block and before the end of the block.                                   *)
LEMMA BelowGeometry ==
  ASSUME NEW r, ValidRequest(r), r.userSize # 0, r.protectBelow,
         NEW base \in Nat
  PROVE  /\ UserAddr(r, base) \in Nat
         /\ base + 1 <= PageOf(UserAddr(r, base))
         /\ PageOf(UserAddr(r, base)) < base + InternalPages(r)
<1> DEFINE k == PagesFor(r.userSize)
           a == r.alignment
           n == InternalPages(r)
           y == (base + 1) * PageSize
           user == RoundUp(y, a)
<1>1. /\ a \in Nat \ {0} /\ PageSize \in Nat /\ k \in Nat /\ k > 0 /\ n \in Nat
  BY RequestNumbers
<1>2. \/ a <= PageSize /\ n = k + 1
      \/ \E m \in Nat \ {0} : a = m * PageSize /\ n = k + m
  BY BlockSize, Zenon
<1>3. UserAddr(r, base) = user
  BY DEF UserAddr
<1> HIDE DEF k, a, n
<1>4. y \in Nat
  BY <1>1
<1>5. user \in Nat /\ y <= user /\ user < y + a
  <2> HIDE DEF y
  <2> QED BY <1>1, <1>4, RoundUpFacts
<1>6. y + a <= (base + n) * PageSize
  <2>1. CASE a <= PageSize /\ n = k + 1
    <3>1. (base + 2) * PageSize = y + PageSize
      BY <1>1
    <3>2. base + 2 <= base + n
      BY <1>1, <2>1
    <3>3. (base + 2) * PageSize <= (base + n) * PageSize
      BY <1>1, <3>2, Distribute
    <3>4. (base + n) * PageSize \in Int
      BY <1>1
    <3> HIDE DEF y
    <3> QED BY <1>1, <1>4, <2>1, <3>1, <3>3, <3>4
  <2>2. ASSUME NEW m \in Nat \ {0}, a = m * PageSize, n = k + m
        PROVE  y + a <= (base + n) * PageSize
    <3>1. (base + 1 + m) * PageSize = y + m * PageSize
      BY <1>1, Distribute
    <3>2. base + 1 + m <= base + n
      BY <1>1, <2>2
    <3>3. (base + 1 + m) * PageSize <= (base + n) * PageSize
      BY <1>1, <3>2, Distribute
    <3> QED BY <2>2, <3>1, <3>3, Zenon
  <2> QED BY <1>2, <2>1, <2>2, Zenon
<1>7. (base + n) * PageSize \in Int
  BY <1>1
<1>8. user < (base + n) * PageSize
  <2> HIDE DEF y, user
  <2> QED BY <1>1, <1>4, <1>5, <1>6, <1>7
<1>9. (base + 1) * PageSize <= user
  BY <1>5
<1> HIDE DEF user
<1>10. user \in Int /\ base + 1 \in Int /\ base + n \in Int
  BY <1>1, <1>5
<1>11. base + 1 <= PageOf(user) /\ PageOf(user) < base + n
  BY <1>8, <1>9, <1>10, PageBounds, Zenon
<1> QED BY <1>3, <1>5, <1>11 DEF n

(* With the dead page below, the buffer starts on a page boundary, and right *)
(* behind the first page unless the alignment is above the page size.       *)
LEMMA BelowAligned ==
  ASSUME NEW r, ValidRequest(r), r.userSize # 0, r.protectBelow,
         NEW base \in Nat
  PROVE  /\ UserAddr(r, base) = PageOf(UserAddr(r, base)) * PageSize
         /\ r.alignment <= PageSize => UserAddr(r, base) = (base + 1) * PageSize
<1> DEFINE a == r.alignment
           y == (base + 1) * PageSize
           d == (y + a - 1) \div a
           user == d * a
<1>1. /\ a \in Nat \ {0} /\ PageSize \in Nat \ {0} /\ y \in Nat
      /\ base + 1 \in Int
  BY RequestNumbers
<1>2. UserAddr(r, base) = user /\ user = RoundUp(y, a)
  BY DEF UserAddr, RoundUp, RoundDown
<1>3. d \in Int
  BY <1>1, DivFacts
<1>4. user \in Int /\ y <= user /\ user < y + a
  <2> HIDE DEF y, d, user
  <2> QED BY <1>1, <1>2, RoundUpFacts
<1>5. ASSUME NEW q \in Int, user = q * PageSize
      PROVE  user = PageOf(user) * PageSize
  <2> HIDE DEF user
  <2>1. (q + 1) * PageSize = q * PageSize + PageSize
    BY <1>1
  <2>2. user < (q + 1) * PageSize
    BY <1>1, <1>4, <1>5, <2>1
  <2>3. q <= PageOf(user) /\ PageOf(user) < q + 1 /\ PageOf(user) \in Int
    BY <1>4, <1>5, <2>2, PageBounds
  <2>4. PageOf(user) = q
    BY <2>3
  <2> QED BY <1>5, <2>4
<1>6. (\E m \in Nat \ {0} : PageSize = m * a)
        \/ (\E m \in Nat \ {0} : a = m * PageSize)
  BY BlockSize, Zenon
<1>7. ASSUME NEW m \in Nat \ {0}, PageSize = m * a
      PROVE  user = y
  <2> DEFINE k == (base + 1) * m
  <2>1. y = k * a /\ k \in Int
    <3>1. (base + 1) * (m * a) = k * a
      BY <1>1, Distribute
    <3>2. k \in Int
      BY <1>1
    <3> QED BY <1>7, <3>1, <3>2, Zenon
  <2> HIDE DEF k
  <2>2. (d - k) * a = user - y /\ (k - d) * a = y - user
    BY <1>1, <1>3, <2>1, Distribute
  <2> HIDE DEF d, y, user
  <2>3. CASE d >= k + 1
    <3>1. 1 <= d - k /\ d - k \in Int
      BY <1>3, <2>1, <2>3
    <3>2. 1 * a <= (d - k) * a
      BY <1>1, <3>1, Distribute
    <3> QED BY <1>1, <1>4, <2>2, <3>2
  <2>4. CASE d <= k - 1
    <3>1. 1 <= k - d /\ k - d \in Int
      BY <1>3, <2>1, <2>4
    <3>2. 1 * a <= (k - d) * a
      BY <1>1, <3>1, Distribute
    <3> QED BY <1>1, <1>4, <2>2, <3>2
  <2>5. CASE d = k
    BY <2>1, <2>5 DEF user
  <2> QED BY <1>3, <2>1, <2>3, <2>4, <2>5
<1>8. user = PageOf(user) * PageSize
  <2>1. ASSUME NEW m \in Nat \ {0}, PageSize = m * a
        PROVE  user = PageOf(user) * PageSize
    <3>1. user = y
      BY <1>7, <2>1
    <3> QED BY <1>1, <1>5, <3>1, Zenon
  <2>2. ASSUME NEW m \in Nat \ {0}, a = m * PageSize
        PROVE  user = PageOf(user) * PageSize
    <3>1. user = (d * m) * PageSize /\ d * m \in Int
      BY <1>1, <1>3, <2>2, Distribute
    <3> QED BY <1>5, <3>1, Zenon
  <2> QED BY <1>6, <2>1, <2>2, Zenon
<1>9. ASSUME a <= PageSize
      PROVE  user = y
  <2>1. ASSUME NEW m \in Nat \ {0}, a = m * PageSize
        PROVE  \E n \in Nat \ {0} : PageSize = n * a
    <3>1. m = 1
      <4>1. m # 1 => 2 * PageSize <= m * PageSize
        BY <1>1, <2>1, Distribute
      <4> QED BY <1>1, <1>9, <2>1, <4>1
    <3>2. PageSize = 1 * a
      BY <1>1, <2>1, <3>1
    <3> QED BY <3>2
  <2>2. PICK n \in Nat \ {0} : PageSize = n * a
    BY <1>6, <2>1, Zenon
  <2> QED BY <1>7, <2>2
<1> QED BY <1>2, <1>8, <1>9 DEF a, y

(* With the dead page above, it starts where the page of the last byte of   *)
(* the buffer ends, and it is a page of the block.                          *)
LEMMA AboveProtection ==
  ASSUME NEW r, ValidRequest(r), r.userSize # 0, ~ r.protectBelow,
         NEW base \in Nat
  PROVE  LET user == UserAddr(r, base)
             prot == ProtPage(r, base)
         IN  /\ prot \in Nat /\ prot <= base + InternalPages(r) - 1
             /\ user + r.userSize <= prot * PageSize
             /\ prot = PageOf(user + r.userSize - 1) + 1
<1> DEFINE a == r.alignment
           n == InternalPages(r)
           u == r.userSize
           e == base + n - 1
           user == RoundDown(e * PageSize - u, a)
           prot == PagesFor(user + u)
           last == user + u - 1
<1>1. /\ u \in Nat /\ u > 0 /\ a \in Nat \ {0} /\ PageSize \in Nat \ {0}
      /\ n \in Nat /\ n > 0
  BY RequestNumbers
<1>2. UserAddr(r, base) = user /\ ProtPage(r, base) = prot
  BY DEF UserAddr, ProtPage
<1>3. user \in Nat
  BY <1>2, AboveGeometry
<1>4. user <= e * PageSize - u /\ e * PageSize \in Int /\ e \in Nat
  <2>1. e \in Nat
    BY <1>1
  <2> HIDE DEF e, u
  <2>2. e * PageSize \in Int /\ e * PageSize - u \in Int
    BY <1>1, <2>1
  <2> DEFINE x == e * PageSize - u
  <2> HIDE DEF x
  <2>3. RoundDown(x, a) <= x
    BY <1>1, <2>2, RoundDownFacts DEF x
  <2> QED BY <2>1, <2>2, <2>3 DEF x
<1> HIDE DEF user, e, n, u
<1>5. prot \in Nat \ {0} /\ user + u <= prot * PageSize
  BY <1>1, <1>3, PagesForFacts
<1>6. (e + 1) * PageSize = e * PageSize + PageSize
  BY <1>1, <1>4
<1>7. prot < e + 1
  <2>1. user + u + PageSize - 1 < (e + 1) * PageSize
    BY <1>1, <1>3, <1>4, <1>6
  <2>2. user + u + PageSize - 1 \in Int /\ e + 1 \in Int
    BY <1>1, <1>3, <1>4
  <2> QED BY <1>1, <2>1, <2>2, DivLess DEF PagesFor, PageOf
<1>8. prot - 1 <= PageOf(last) /\ PageOf(last) < prot /\ PageOf(last) \in Int
  <2>1. (prot - 1) * PageSize = prot * PageSize - PageSize /\ prot * PageSize \in Int
    BY <1>1, <1>5
  <2>2. prot * PageSize <= user + u + PageSize - 1
    <3>1. user + u + PageSize - 1 \in Int
      BY <1>1, <1>3
    <3> QED BY <1>1, <3>1, DivFacts DEF PagesFor, PageOf
  <2> HIDE DEF prot
  <2>3. /\ (prot - 1) * PageSize <= last /\ last < prot * PageSize
        /\ last \in Int /\ prot - 1 \in Int /\ prot \in Int
    BY <1>1, <1>3, <1>5, <2>1, <2>2
  <2> QED BY <2>3, PageBounds
<1> HIDE DEF prot, last
<1>9. prot = PageOf(last) + 1
  BY <1>5, <1>8
<1>10. prot <= base + n - 1
  BY <1>4, <1>5, <1>7 DEF e
<1> QED BY <1>2, <1>5, <1>9, <1>10 DEF last, u, n

(* Every block _duma_allocate() lays out has at least one page, the user's  *)
(* address is in it, and its dead page is a page of the address space.      *)
LEMMA BlockGeometry ==
  ASSUME NEW r, ValidRequest(r), NEW base \in Nat
  PROVE  /\ InternalPages(r) \in Nat /\ InternalPages(r) > 0
         /\ UserAddr(r, base) \in Nat
         /\ PageOf(UserAddr(r, base)) \in base .. base + InternalPages(r) - 1
         /\ ProtPage(r, base) \in Nat
<1>1. PageSize \in Nat \ {0, 1}
  BY AddrAssumption
<1>2. CASE r.userSize = 0
  <2> DEFINE h == PageSize \div 2
  <2>1. h \in Int /\ h * 2 <= PageSize /\ PageSize < h * 2 + 2
    BY <1>1, DivFacts
  <2>2. InternalPages(r) = 1 /\ ProtPage(r, base) = base
    BY <1>2 DEF InternalPages, ProtPage
  <2>3. UserAddr(r, base) = base * PageSize + h
    BY <1>2 DEF UserAddr
  <2> HIDE DEF h
  <2>4. h \in Nat /\ h < PageSize
    BY <1>1, <2>1
  <2>5. (base + 1) * PageSize = base * PageSize + PageSize /\ base * PageSize \in Nat
    BY <1>1
  <2> DEFINE user == base * PageSize + h
  <2>6. user \in Nat /\ base * PageSize <= user /\ user < (base + 1) * PageSize
    BY <1>1, <2>4, <2>5
  <2> HIDE DEF user
  <2>7. PageOf(user) \in Int /\ base <= PageOf(user) /\ PageOf(user) < base + 1
    BY <2>6, PageBounds
  <2>8. PageOf(UserAddr(r, base)) = base /\ UserAddr(r, base) \in Nat
    BY <2>3, <2>6, <2>7 DEF user
  <2> QED BY <2>2, <2>8
<1>3. CASE r.userSize # 0
  <2>1. InternalPages(r) \in Nat /\ InternalPages(r) > 0 /\ r.userSize \in Nat
    BY <1>3, RequestNumbers
  <2>2. CASE r.protectBelow
    <3>1. /\ UserAddr(r, base) \in Nat
          /\ base + 1 <= PageOf(UserAddr(r, base))
          /\ PageOf(UserAddr(r, base)) < base + InternalPages(r)
      BY <1>3, <2>2, BelowGeometry
    <3>2. PageOf(UserAddr(r, base)) \in Int
      BY <1>1, <3>1, DivFacts DEF PageOf
    <3>3. ProtPage(r, base) = PageOf(UserAddr(r, base)) - 1
      BY <1>3, <2>2 DEF ProtPage
    <3> QED BY <2>1, <3>1, <3>2, <3>3
  <2>3. CASE ~ r.protectBelow
    <3>1. /\ UserAddr(r, base) \in Nat
          /\ base <= PageOf(UserAddr(r, base))
          /\ PageOf(UserAddr(r, base)) < base + InternalPages(r) - 1
      BY <1>3, <2>3, AboveGeometry
    <3>2. PageOf(UserAddr(r, base)) \in Int
      BY <1>1, <3>1, DivFacts DEF PageOf
    <3>3. ProtPage(r, base) = PagesFor(UserAddr(r, base) + r.userSize)
      BY <1>3, <2>3 DEF ProtPage
    <3>4. UserAddr(r, base) + r.userSize \in Nat \ {0}
      BY <1>3, <2>1, <3>1
    <3>5. ProtPage(r, base) \in Nat
      BY <3>3, <3>4, PagesForFacts
    <3> QED BY <2>1, <3>1, <3>2, <3>5
  <2> QED BY <2>2, <2>3
<1> QED BY <1>2, <1>3

(* Pages of addresses: of a page's first byte, and in the addresses' order. *)
LEMMA PageOfStart ==
  ASSUME NEW p \in Int
  PROVE  PageOf(p * PageSize) = p
<1> DEFINE x == p * PageSize
<1>1. PageSize \in Nat \ {0}
  BY AddrAssumption
<1>2. x \in Int /\ (p + 1) * PageSize = x + PageSize
  BY <1>1
<1>3. p + 1 \in Int /\ p * PageSize <= x /\ x < (p + 1) * PageSize
  BY <1>1, <1>2
<1>4. PageOf(x) \in Int /\ p <= PageOf(x) /\ PageOf(x) < p + 1
  BY <1>2, <1>3, PageBounds, Zenon
<1> HIDE DEF x
<1>5. PageOf(x) = p
  BY <1>4
<1> QED BY <1>5 DEF x

LEMMA PageMonotone ==
  ASSUME NEW x \in Int, NEW y \in Int, x <= y
  PROVE  PageOf(x) \in Int /\ PageOf(y) \in Int /\ PageOf(x) <= PageOf(y)
<1> DEFINE k == PageOf(x)
<1>1. PageSize \in Nat \ {0}
  BY AddrAssumption
<1>2. k \in Int /\ k * PageSize <= x /\ PageOf(y) \in Int
  BY <1>1, DivFacts DEF PageOf
<1> HIDE DEF k
<1>3. k * PageSize <= y
  BY <1>1, <1>2
<1>4. k <= PageOf(y)
  BY <1>1, <1>2, <1>3, DivGreatest DEF PageOf
<1> QED BY <1>2, <1>4 DEF k

(* The dead pages are pages of the block.                                   *)
LEMMA DeadWithin ==
  ASSUME NEW r, ValidRequest(r), NEW base \in Nat
  PROVE  DeadPages(r, base) \subseteq base .. base + InternalPages(r) - 1
<1> DEFINE n == InternalPages(r)
           user == UserAddr(r, base)
           prot == ProtPage(r, base)
<1>1. /\ n \in Nat /\ user \in Nat /\ prot \in Nat
      /\ PageOf(user) \in base .. base + n - 1
  BY BlockGeometry
<1>2. r.userSize \in Nat
  BY DEF ValidRequest
<1>3. CASE r.userSize = 0
  BY <1>1, <1>3 DEF DeadPages, ProtPage
<1>4. CASE r.userSize # 0 /\ r.protectBelow
  <2>1. DeadPages(r, base) = base .. PageOf(user) - 1
    BY <1>4 DEF DeadPages
  <2> HIDE DEF n, user
  <2> QED BY <1>1, <2>1 DEF n
<1>5. CASE r.userSize # 0 /\ ~ r.protectBelow
  <2>1. prot = PageOf(user + r.userSize - 1) + 1
    BY <1>5, AboveProtection
  <2>2. DeadPages(r, base) = prot .. base + n - 1
    BY <1>5 DEF DeadPages
  <2> HIDE DEF n, user, prot
  <2>3. user \in Int /\ user + r.userSize - 1 \in Int
        /\ user <= user + r.userSize - 1
    BY <1>1, <1>2, <1>5
  <2>4. /\ PageOf(user) \in Int /\ PageOf(user + r.userSize - 1) \in Int
        /\ PageOf(user) <= PageOf(user + r.userSize - 1)
    BY <2>3, PageMonotone
  <2> QED BY <1>1, <2>1, <2>2, <2>4 DEF n
<1> QED BY <1>3, <1>4, <1>5

(* Where the buffer, its live pages and the dead page next to it are. With  *)
(* protectBelow this needs an alignment within the page size.               *)
LEMMA BufferPages ==
  ASSUME NEW r, ValidRequest(r), r.userSize # 0, NEW base \in Nat,
         r.protectBelow => r.alignment <= PageSize
  PROVE  LET user == UserAddr(r, base)
             last == PageOf(user + r.userSize - 1)
             prot == ProtPage(r, base)
             live == LivePages(r, base)
             dead == DeadPages(r, base)
             block == base .. base + InternalPages(r) - 1
         IN  /\ prot \in block /\ prot \in dead
             /\ PageOf(user) .. last \subseteq live
             /\ live \subseteq block
             /\ \A p \in live : p \notin dead
             /\ prot = PageOf(user) - 1 \/ prot = last + 1
<1> DEFINE n == InternalPages(r)
           user == UserAddr(r, base)
           last == PageOf(user + r.userSize - 1)
           prot == ProtPage(r, base)
<1>1. /\ n \in Nat /\ user \in Nat /\ prot \in Nat /\ r.userSize \in Nat
      /\ PageOf(user) \in base .. base + n - 1
  BY BlockGeometry DEF ValidRequest
<1>2. PageOf(user) \in Int /\ last \in Int /\ PageOf(user) <= last
  <2> HIDE DEF user
  <2>1. user \in Int /\ user + r.userSize - 1 \in Int
        /\ user <= user + r.userSize - 1
    BY <1>1
  <2> QED BY <2>1, PageMonotone
<1>3. CASE ~ r.protectBelow
  <2>1. prot = last + 1 /\ prot <= base + n - 1
    BY <1>3, AboveProtection
  <2>2. LivePages(r, base) = base .. prot - 1
        /\ DeadPages(r, base) = prot .. base + n - 1
    BY <1>3 DEF LivePages, DeadPages
  <2> HIDE DEF n, user, last, prot
  <2>3. prot \in base .. base + n - 1
    BY <1>1, <1>2, <2>1
  <2>4. PageOf(user) .. last \subseteq base .. prot - 1
    BY <1>1, <1>2, <2>1
  <2> QED BY <1>1, <1>2, <2>1, <2>2, <2>3, <2>4 DEF n, user, last, prot
<1>4. CASE r.protectBelow
  <2>1. user = (base + 1) * PageSize /\ r.alignment <= PageSize
    BY <1>4, BelowAligned
  <2>2. PageOf(user) = base + 1
    <3>1. base + 1 \in Int
      OBVIOUS
    <3> QED BY <2>1, <3>1, PageOfStart
  <2>3. prot = base
    BY <1>4, <2>2 DEF ProtPage
  <2>4. /\ LivePages(r, base) = PageOf(user) .. PageOf(user) + n - (PageOf(user) - prot) - 1
        /\ DeadPages(r, base) = base .. PageOf(user) - 1
    BY <1>4 DEF LivePages, DeadPages
  <2>5. last <= base + n - 1
    <3> DEFINE k == PagesFor(r.userSize)
    <3>1. k \in Nat \ {0} /\ r.userSize <= k * PageSize
      BY BlockSize
    <3>2. k + 1 <= n
      <4>1. \/ n = k + 1
            \/ \E m \in Nat \ {0} : n = k + m
        BY BlockSize
      <4> HIDE DEF n, k
      <4> QED BY <3>1, <4>1
    <3> HIDE DEF n, k, last, user
    <3>3. PageSize \in Nat \ {0}
      BY AddrAssumption
    <3>4. (base + 1 + k) * PageSize = (base + 1) * PageSize + k * PageSize
      BY <3>1, <3>3
    <3>5. user + r.userSize - 1 < (base + 1 + k) * PageSize
      BY <1>1, <2>1, <3>1, <3>3, <3>4
    <3>6. /\ user + r.userSize - 1 \in Int /\ base + 1 + k \in Int
      BY <1>1, <3>1
    <3>7. last < base + 1 + k
      BY <3>3, <3>5, <3>6, DivLess DEF last, PageOf
    <3> QED BY <1>1, <1>2, <3>1, <3>2, <3>7
  <2> HIDE DEF n, user, last, prot
  <2>6. PageOf(user) + n - (PageOf(user) - prot) - 1 = base + n - 1
    BY <1>1, <2>2, <2>3
  <2> QED BY <1>1, <1>2, <2>2, <2>3, <2>4, <2>5, <2>6 DEF n, user, last, prot
<1> QED BY <1>3, <1>4

(* A multiple of the alignment leaves no remainder.                         *)
LEMMA MultipleMod ==
  ASSUME NEW q \in Int, NEW a \in Nat \ {0}
  PROVE  (q * a) % a = 0
<1> DEFINE x == q * a
           d == x \div a
           m == x % a
<1>1. x \in Int
  OBVIOUS
<1> HIDE DEF x
<1>2. d \in Int /\ m \in 0 .. a - 1 /\ x = d * a + m
  BY <1>1
<1> HIDE DEF d, m
<1>3. (q - d) * a = m
  BY <1>2 DEF x
<1>4. \A k \in Int : (k >= 1 => k * a >= a) /\ (k <= -1 => k * a < 0)
  OBVIOUS
<1>5. q - d \in Int /\ ~ (q - d >= 1) /\ ~ (q - d <= -1)
  BY <1>2, <1>3, <1>4
<1>6. m = 0
  BY <1>2, <1>3, <1>5
<1> QED BY <1>6 DEF m, x

(* The address given to the user is a multiple of the alignment.            *)
LEMMA AddrAligned ==
  ASSUME NEW r, ValidRequest(r), r.userSize # 0, NEW base \in Nat
  PROVE  UserAddr(r, base) % r.alignment = 0
<1> DEFINE a == r.alignment
<1>1. /\ r.userSize \in Nat /\ a \in Nat \ {0} /\ PageSize \in Nat
      /\ InternalPages(r) \in Int
  BY RequestNumbers
<1>2. \A x \in Int : RoundDown(x, a) % a = 0
  <2>1. \A x \in Int : x \div a \in Int
    BY <1>1
  <2> HIDE DEF a
  <2> QED BY <1>1, <2>1, MultipleMod DEF RoundDown
<1>3. /\ (base + 1) * PageSize + a - 1 \in Int
      /\ (base + InternalPages(r) - 1) * PageSize - r.userSize \in Int
  BY <1>1
<1> QED BY <1>2, <1>3 DEF UserAddr, RoundUp

=============================================================================
