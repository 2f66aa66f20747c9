-------------------------- MODULE StorefrontProofs --------------------------
(***************************************************************************)
(* Proofs about the checkout and the tabs that use it, for any number of   *)
(* customers, tabs and products, any scenarios and any number of failures: *)
(* the ledgers agree however the requests interleave, and a tab that is    *)
(* alone shows what it is charged.                                         *)
(***************************************************************************)
EXTENDS Storefront, FiniteSetTheorems, WellFoundedInduction, TLAPS

-----------------------------------------------------------------------------
(* Sums over finite sets.  SumFunctionOnSet is a recursive function over   *)
(* the subsets of the set; Step says that h is that function, and Iter is  *)
(* it.  Inductions over subsets look at a smallest counterexample.         *)

Pick(s) == CHOOSE x \in s : TRUE
Step(f, S, h) == h = [s \in SUBSET S |-> IF s = {} THEN 0 ELSE f[Pick(s)] + h[s \ {Pick(s)}]]
Iter(f, S) == CHOOSE h : Step(f, S, h)

LEMMA SumUnfold == ASSUME NEW f, NEW S PROVE SumFunctionOnSet(f, S) = Iter(f, S)[S]
  BY Zenon DEF SumFunctionOnSet, FoldFunctionOnSet, MapThenFoldSet, Iter, Step, Pick

(* A set of subsets of a finite set has a smallest element.                *)
LEMMA SmallestSubset ==
    ASSUME NEW S, IsFiniteSet(S), NEW B, B \subseteq SUBSET S, B # {}
    PROVE  \E s \in B : \A r \in B : r \subseteq s => r = s
<1>1. B \subseteq FiniteSubsetsOf(S)
  BY FS_Subset DEF FiniteSubsetsOf
<1>2. PICK s \in B : \A r \in B : ~(<<r, s>> \in StrictSubsetOrdering(S))
  <2>1. IsWellFoundedOn(StrictSubsetOrdering(S), FiniteSubsetsOf(S))
    BY FS_StrictSubsetOrderingWellFounded
  <2>2. QED
    BY <1>1, <2>1, WFMin
<1>3. \A r \in B : r \subseteq s => r = s
  BY <1>2 DEF StrictSubsetOrdering
<1> QED
  BY <1>3

LEMMA PickIn == ASSUME NEW s, s # {} PROVE Pick(s) \in s
  BY DEF Pick

(* The recursion has at most one solution, whatever set it is for.         *)
LEMMA StepUnique ==
    ASSUME NEW f, NEW S, IsFiniteSet(S), NEW T, T \subseteq S, NEW h, NEW k, Step(f, S, h), Step(f, T, k)
    PROVE  \A s \in SUBSET T : h[s] = k[s]
<1> DEFINE B == {s \in SUBSET T : h[s] # k[s]}
<1> SUFFICES ASSUME B # {} PROVE FALSE
  OBVIOUS
<1>1. PICK s \in B : \A r \in B : r \subseteq s => r = s
  <2>1. B \subseteq SUBSET S
    OBVIOUS
  <2> HIDE DEF B
  <2> QED
    BY <2>1, SmallestSubset
<1>2. s # {}
  BY DEF Step
<1>3. Pick(s) \in s
  BY <1>2, PickIn
<1>4. s \ {Pick(s)} \notin B /\ s \ {Pick(s)} \in SUBSET T
  BY <1>1, <1>3
<1>5. h[s] = f[Pick(s)] + h[s \ {Pick(s)}] /\ k[s] = f[Pick(s)] + k[s \ {Pick(s)}]
  BY <1>2 DEF Step
<1> QED
  BY <1>4, <1>5

(* And it has one.                                                         *)
LEMMA StepExists ==
    ASSUME NEW f, NEW S, IsFiniteSet(S)
    PROVE  \E h : Step(f, S, h)
<1> DEFINE B == {s \in SUBSET S : ~\E h : Step(f, s, h)}
<1> SUFFICES ASSUME B # {} PROVE FALSE
  OBVIOUS
<1>1. PICK T \in B : \A r \in B : r \subseteq T => r = T
  <2>1. B \subseteq SUBSET S
    OBVIOUS
  <2> HIDE DEF B
  <2> QED
    BY <2>1, SmallestSubset
<1>2. \A s \in SUBSET T : s # T => Step(f, s, Iter(f, s))
  <2> SUFFICES ASSUME NEW s \in SUBSET T, s # T PROVE Step(f, s, Iter(f, s))
    OBVIOUS
  <2>1. \E h : Step(f, s, h)
    BY <1>1
  <2> QED
    BY <2>1, Zenon DEF Iter
<1>3. \A s \in SUBSET T : IsFiniteSet(s)
  BY FS_Subset
<1> DEFINE V(s) == IF s = {} THEN 0 ELSE f[Pick(s)] + Iter(f, s \ {Pick(s)})[s \ {Pick(s)}]
           G == [s \in SUBSET T |-> V(s)]
<1>4. \A s \in SUBSET T : s # T => Iter(f, s)[s] = V(s)
  <2> SUFFICES ASSUME NEW s \in SUBSET T, s # T PROVE Iter(f, s)[s] = V(s)
    OBVIOUS
  <2>1. Step(f, s, Iter(f, s))
    BY <1>2
  <2>2. CASE s = {}
    BY <2>1, <2>2 DEF Step
  <2>3. CASE s # {}
    <3>1. Pick(s) \in s
      BY <2>3, PickIn
    <3> DEFINE r == s \ {Pick(s)}
    <3>2. r \in SUBSET T /\ r # T /\ r \subseteq s
      BY <3>1
    <3>3. Step(f, r, Iter(f, r))
      BY <1>2, <3>2
    <3>4. Iter(f, s)[r] = Iter(f, r)[r]
      BY <2>1, <3>2, <3>3, <1>3, StepUnique
    <3>5. Iter(f, s)[s] = f[Pick(s)] + Iter(f, s)[r]
      BY <2>1, <2>3 DEF Step
    <3> QED
      BY <3>4, <3>5, <2>3
  <2> QED
    BY <2>2, <2>3
<1>5. Step(f, T, G)
  <2> SUFFICES ASSUME NEW s \in SUBSET T
               PROVE  V(s) = IF s = {} THEN 0 ELSE f[Pick(s)] + G[s \ {Pick(s)}]
    BY DEF Step
  <2>1. CASE s = {}
    BY <2>1
  <2>2. CASE s # {}
    <3>1. Pick(s) \in s
      BY <2>2, PickIn
    <3> DEFINE r == s \ {Pick(s)}
    <3>2. r \in SUBSET T /\ r # T
      BY <3>1
    <3>3. G[r] = Iter(f, r)[r]
      BY <3>2, <1>4
    <3> QED
      BY <3>3, <2>2
  <2> QED
    BY <2>1, <2>2
<1> QED
  BY <1>1, <1>5

(* What a sum is.                                                          *)
LEMMA SumStep ==
    ASSUME NEW f, NEW S, IsFiniteSet(S)
    PROVE  SumFunctionOnSet(f, S) =
               IF S = {} THEN 0 ELSE f[Pick(S)] + SumFunctionOnSet(f, S \ {Pick(S)})
<1>1. \A T : IsFiniteSet(T) => Step(f, T, Iter(f, T))
  <2> SUFFICES ASSUME NEW T, IsFiniteSet(T) PROVE Step(f, T, Iter(f, T))
    OBVIOUS
  <2>1. \E h : Step(f, T, h)
    BY StepExists
  <2> QED
    BY <2>1, Zenon DEF Iter
<1>2. CASE S = {}
  BY <1>1, <1>2, SumUnfold DEF Step
<1>3. CASE S # {}
  <2> DEFINE R == S \ {Pick(S)}
  <2>1. Pick(S) \in S
    BY <1>3, PickIn
  <2>2. R \subseteq S /\ IsFiniteSet(R)
    BY FS_Subset
  <2>3. Iter(f, S)[R] = Iter(f, R)[R]
    <3>1. Step(f, S, Iter(f, S)) /\ Step(f, R, Iter(f, R))
      BY <1>1, <2>2
    <3> HIDE DEF R
    <3> QED
      BY <3>1, <2>2, StepUnique
  <2>4. Iter(f, S)[S] = f[Pick(S)] + Iter(f, S)[R]
    BY <1>1, <1>3 DEF Step
  <2>5. SumFunctionOnSet(f, S) = Iter(f, S)[S] /\ SumFunctionOnSet(f, R) = Iter(f, R)[R]
    BY SumUnfold
  <2> QED
    BY <2>3, <2>4, <2>5, <1>3
<1> QED
  BY <1>2, <1>3

LEMMA SumEmpty == ASSUME NEW f PROVE SumFunctionOnSet(f, {}) = 0
  BY FS_EmptySet, SumStep

(* A sum of integers is one.                                               *)
LEMMA SumInt ==
    ASSUME NEW f, NEW S, IsFiniteSet(S), \A x \in S : f[x] \in Int
    PROVE  SumFunctionOnSet(f, S) \in Int
<1> DEFINE B == {s \in SUBSET S : SumFunctionOnSet(f, s) \notin Int}
<1> SUFFICES ASSUME B # {} PROVE FALSE
  OBVIOUS
<1>1. PICK s \in B : \A r \in B : r \subseteq s => r = s
  <2>1. B \subseteq SUBSET S
    OBVIOUS
  <2> HIDE DEF B
  <2> QED
    BY <2>1, SmallestSubset
<1>2. IsFiniteSet(s)
  BY FS_Subset
<1>3. s # {}
  BY SumEmpty
<1>4. Pick(s) \in s /\ s \ {Pick(s)} \in SUBSET S /\ s \ {Pick(s)} \notin B
  BY <1>1, <1>3, PickIn
<1>5. SumFunctionOnSet(f, s) = f[Pick(s)] + SumFunctionOnSet(f, s \ {Pick(s)})
  BY <1>2, <1>3, SumStep
<1> QED
  BY <1>4, <1>5

(* So is a sum of natural numbers.                                         *)
LEMMA SumNat ==
    ASSUME NEW f, NEW S, IsFiniteSet(S), \A x \in S : f[x] \in Nat
    PROVE  SumFunctionOnSet(f, S) \in Nat
<1> DEFINE B == {s \in SUBSET S : SumFunctionOnSet(f, s) \notin Nat}
<1> SUFFICES ASSUME B # {} PROVE FALSE
  OBVIOUS
<1>1. PICK s \in B : \A r \in B : r \subseteq s => r = s
  <2>1. B \subseteq SUBSET S
    OBVIOUS
  <2> HIDE DEF B
  <2> QED
    BY <2>1, SmallestSubset
<1>2. IsFiniteSet(s)
  BY FS_Subset
<1>3. s # {}
  BY SumEmpty
<1>4. Pick(s) \in s /\ s \ {Pick(s)} \in SUBSET S /\ s \ {Pick(s)} \notin B
  BY <1>1, <1>3, PickIn
<1>5. SumFunctionOnSet(f, s) = f[Pick(s)] + SumFunctionOnSet(f, s \ {Pick(s)})
  BY <1>2, <1>3, SumStep
<1> QED
  BY <1>4, <1>5

(* A sum of zeros is zero.                                                 *)
LEMMA SumZero ==
    ASSUME NEW f, NEW S, IsFiniteSet(S), \A x \in S : f[x] = 0
    PROVE  SumFunctionOnSet(f, S) = 0
<1> DEFINE B == {s \in SUBSET S : SumFunctionOnSet(f, s) # 0}
<1> SUFFICES ASSUME B # {} PROVE FALSE
  OBVIOUS
<1>1. PICK s \in B : \A r \in B : r \subseteq s => r = s
  <2>1. B \subseteq SUBSET S
    OBVIOUS
  <2> HIDE DEF B
  <2> QED
    BY <2>1, SmallestSubset
<1>2. IsFiniteSet(s)
  BY FS_Subset
<1>3. s # {}
  BY SumEmpty
<1>4. Pick(s) \in s /\ s \ {Pick(s)} \in SUBSET S /\ s \ {Pick(s)} \notin B
  BY <1>1, <1>3, PickIn
<1>5. SumFunctionOnSet(f, s) = f[Pick(s)] + SumFunctionOnSet(f, s \ {Pick(s)})
  BY <1>2, <1>3, SumStep
<1> QED
  BY <1>4, <1>5

(* Any element may be taken out of a sum, not only the one that is chosen. *)
LEMMA SumTakeOut ==
    ASSUME NEW f, NEW S, IsFiniteSet(S), \A x \in S : f[x] \in Int, NEW y \in S
    PROVE  SumFunctionOnSet(f, S) = f[y] + SumFunctionOnSet(f, S \ {y})
<1> DEFINE B == {s \in SUBSET S : \E x \in s : SumFunctionOnSet(f, s) # f[x] + SumFunctionOnSet(f, s \ {x})}
<1> SUFFICES ASSUME B # {} PROVE FALSE
  OBVIOUS
<1>1. PICK s \in B : \A r \in B : r \subseteq s => r = s
  <2>1. B \subseteq SUBSET S
    OBVIOUS
  <2> HIDE DEF B
  <2> QED
    BY <2>1, SmallestSubset
<1>2. PICK x \in s : SumFunctionOnSet(f, s) # f[x] + SumFunctionOnSet(f, s \ {x})
  OBVIOUS
<1> DEFINE c == Pick(s)
           rest == s \ {x, c}
<1>3. c \in s
  BY PickIn
<1>4. \A r \in SUBSET s : IsFiniteSet(r) /\ SumFunctionOnSet(f, r) \in Int
  <2> SUFFICES ASSUME NEW r \in SUBSET s PROVE IsFiniteSet(r) /\ SumFunctionOnSet(f, r) \in Int
    OBVIOUS
  <2>1. IsFiniteSet(r)
    BY FS_Subset
  <2> QED
    BY <2>1, SumInt
<1>5. SumFunctionOnSet(f, s) = f[c] + SumFunctionOnSet(f, s \ {c})
  BY <1>4, SumStep
<1>6. c # x
  BY <1>2, <1>5
<1>7. SumFunctionOnSet(f, s \ {c}) = f[x] + SumFunctionOnSet(f, rest)
  <2>1. s \ {c} \in SUBSET S /\ s \ {c} # s /\ x \in s \ {c} /\ (s \ {c}) \ {x} = rest
    BY <1>3, <1>6
  <2>2. s \ {c} \notin B
    BY <2>1, <1>1
  <2> QED
    BY <2>1, <2>2
<1>8. SumFunctionOnSet(f, s \ {x}) = f[c] + SumFunctionOnSet(f, rest)
  <2>1. s \ {x} \in SUBSET S /\ s \ {x} # s /\ c \in s \ {x} /\ (s \ {x}) \ {c} = rest
    BY <1>3, <1>6
  <2>2. s \ {x} \notin B
    BY <2>1, <1>1
  <2> QED
    BY <2>1, <2>2
<1>9. f[c] \in Int /\ f[x] \in Int /\ SumFunctionOnSet(f, rest) \in Int
  BY <1>3, <1>4
<1> QED
  BY <1>2, <1>5, <1>7, <1>8, <1>9

(* A sum depends on the values of the elements only.                       *)
LEMMA SumSame ==
    ASSUME NEW f, NEW g, NEW S, IsFiniteSet(S), \A x \in S : f[x] = g[x]
    PROVE  SumFunctionOnSet(f, S) = SumFunctionOnSet(g, S)
<1> DEFINE B == {s \in SUBSET S : SumFunctionOnSet(f, s) # SumFunctionOnSet(g, s)}
<1> SUFFICES ASSUME B # {} PROVE FALSE
  OBVIOUS
<1>1. PICK s \in B : \A r \in B : r \subseteq s => r = s
  <2>1. B \subseteq SUBSET S
    OBVIOUS
  <2> HIDE DEF B
  <2> QED
    BY <2>1, SmallestSubset
<1>2. IsFiniteSet(s)
  BY FS_Subset
<1>3. s # {}
  BY SumEmpty
<1>4. Pick(s) \in s /\ s \ {Pick(s)} \in SUBSET S /\ s \ {Pick(s)} \notin B
  BY <1>1, <1>3, PickIn
<1>5. /\ SumFunctionOnSet(f, s) = f[Pick(s)] + SumFunctionOnSet(f, s \ {Pick(s)})
      /\ SumFunctionOnSet(g, s) = g[Pick(s)] + SumFunctionOnSet(g, s \ {Pick(s)})
  BY <1>2, <1>3, SumStep
<1> QED
  BY <1>4, <1>5

(* The value of one element changes.                                       *)
LEMMA SumChange ==
    ASSUME NEW f, NEW g, NEW S, IsFiniteSet(S), NEW y \in S,
           \A x \in S : f[x] \in Int /\ g[x] \in Int,
           \A x \in S \ {y} : f[x] = g[x]
    PROVE  SumFunctionOnSet(g, S) = SumFunctionOnSet(f, S) + g[y] - f[y]
<1>1. IsFiniteSet(S \ {y})
  BY FS_Subset
<1>2. SumFunctionOnSet(f, S \ {y}) = SumFunctionOnSet(g, S \ {y})
  BY <1>1, SumSame
<1>3. SumFunctionOnSet(f, S \ {y}) \in Int
  BY <1>1, SumInt
<1>4. /\ SumFunctionOnSet(f, S) = f[y] + SumFunctionOnSet(f, S \ {y})
      /\ SumFunctionOnSet(g, S) = g[y] + SumFunctionOnSet(g, S \ {y})
  BY SumTakeOut
<1> QED
  BY <1>2, <1>3, <1>4

-----------------------------------------------------------------------------
(* The values of the variables.                                            *)

Status == {"pending", "ok", "error"}
Pays == {"none", "wallet", "card"}
Ticks == UNION {[D -> BOOLEAN] : D \in SUBSET Nat}
Money == Nat \cup {Unset}
OrderRecords == [user : Users \cup {"other"}, total : Int, its : [Products -> Nat],
                 pay : Pays, bonus : Nat, delivered : BOOLEAN]
Views == [total : Money, balance : Int, its : [Products -> Nat], shown : Int, listed : BOOLEAN, delivered : Ticks]
Sessions == [itemTotal : Money, address : BOOLEAN, method : BOOLEAN, pay : Pays, discount : 0..100,
             campaign : BOOLEAN, walletTotal : Money]
Screens == Pages \cup {"closed", "address", "delivery", "payWallet", "payDeluxe", "completion", "accounting"}

ItemRequests ==
    [op : {"addItem", "putItem"}, pc : {"check", "save", "find", "put", "answered"}, status : Status,
     p : Products, q : 0..MaxQty, deluxe : BOOLEAN]
DelRequests == [op : {"delItem"}, pc : {"del", "answered"}, status : Status, p : Products]
CouponRequests ==
    [op : {"coupon"}, pc : {"find", "update", "answered"}, status : Status, c : {"month1", "bad"}, discount : 0..100]
TopUpRequests ==
    [op : {"topup"}, pc : {"card", "increment", "answered"}, status : Status, amount : Nat, card : BOOLEAN]
UpgradeRequests ==
    [op : {"upgrade"}, pc : {"user", "wallet", "card", "decrement", "role", "answered"}, status : Status,
     mode : {"wallet", "card"}, card : BOOLEAN, seen : Int]
RecordRequests == [op : {"card", "address"}, pc : {"write", "answered"}, status : Status, keep : BOOLEAN]
CheckoutRequests ==
    [op : {"checkout"}, status : Status,
     pc : {"find", "quantity", "take", "wallet", "charge", "bonus", "insert", "destroy", "answered"},
     deluxe : BOOLEAN, campaign : BOOLEAN, method : BOOLEAN, address : BOOLEAN, pay : Pays,
     its : [Products -> Nat], prices : [Products -> Nat], points : Nat, c : {"none", "month1"},
     todo : SUBSET Products, p : Products \cup {"none"}, q : Int, total : Int, seen : Int, view : Views,
     promised : 0..100, settled : BOOLEAN]
ToggleRequests == [op : {"toggle"}, pc : {"update", "answered"}, status : Status, i : Nat, saw : BOOLEAN]
NoRequest == [op |-> "none", pc |-> "idle"]
Requests ==
    {NoRequest} \cup ItemRequests \cup DelRequests \cup CouponRequests \cup TopUpRequests \cup UpgradeRequests
      \cup RecordRequests \cup CheckoutRequests \cup ToggleRequests

ServerTypes ==
    /\ price \in [Products -> Nat] /\ stock \in [Products -> Int]
    /\ items \in [Users -> [Products -> 0..MaxQty]]
    /\ coupon \in [Users -> {"none", "month1"}] /\ wallet \in [Users -> Int]
    /\ role \in [Users -> {"customer", "deluxe"}]
    /\ cards \in [Users -> BOOLEAN] /\ addresses \in [Users -> BOOLEAN]
    /\ orders \in Seq(OrderRecords) /\ month \in {1, 2} /\ clears \in SUBSET Users
    /\ taken \in [Products -> Nat] /\ booked \in [Users -> Int] /\ lost \in [Users -> Int]
    /\ spent \in [Users -> BOOLEAN]
TabTypes ==
    /\ tok \in [Users -> {"customer", "deluxe"}] /\ doubt \in [Users -> BOOLEAN]
    /\ pg \in [Tabs -> Screens] /\ ss \in [Tabs -> Sessions] /\ view \in [Tabs -> Views]
    /\ clicks \in [Tabs -> Nat]
RequestTypes == rq \in [Tabs -> Requests]
Types == ServerTypes /\ TabTypes /\ RequestTypes

-----------------------------------------------------------------------------
(* Requests.                                                               *)

(* The operation of a request says which fields it has.                    *)
LEMMA RequestKinds ==
    ASSUME NEW r \in Requests
    PROVE  /\ r.pc = "idle" <=> r = NoRequest
           /\ r.op = "none" <=> r = NoRequest
           /\ r.op \in {"addItem", "putItem"} => r \in ItemRequests
           /\ r.op = "delItem" => r \in DelRequests
           /\ r.op = "coupon" => r \in CouponRequests
           /\ r.op = "topup" => r \in TopUpRequests
           /\ r.op = "upgrade" => r \in UpgradeRequests
           /\ r.op \in {"card", "address"} => r \in RecordRequests
           /\ r.op = "checkout" => r \in CheckoutRequests
           /\ r.op = "toggle" => r \in ToggleRequests
  BY DEF Requests, NoRequest, ItemRequests, DelRequests, CouponRequests, TopUpRequests, UpgradeRequests, RecordRequests,
         CheckoutRequests, ToggleRequests

-----------------------------------------------------------------------------
(* Prices.                                                                 *)

(* A product of natural numbers is one, and grows with its factors.        *)
LEMMA TimesNat == ASSUME NEW a \in Nat, NEW b \in Nat PROVE a * b \in Nat
  OBVIOUS

LEMMA SumFunctionNat ==
    ASSUME NEW f \in [Products -> Nat]
    PROVE  SumFunction(f) \in Nat
<1>1. DOMAIN f = Products /\ IsFiniteSet(Products) /\ \A x \in Products : f[x] \in Nat
  BY CheckoutAssumption DEF CheckoutAssumption
<1> QED
  BY <1>1, SumNat DEF SumFunction

LEMMA ItemPriceNat ==
    ASSUME NEW pr \in [Products -> Nat], NEW p \in Products, NEW d \in BOOLEAN
    PROVE  ItemPrice(pr, p, d) \in Nat
  BY CheckoutAssumption DEF CheckoutAssumption, ItemPrice

LEMMA TotalsNat ==
    ASSUME NEW pr \in [Products -> Nat], NEW its \in [Products -> Nat], NEW d \in BOOLEAN
    PROVE  ItemTotal(pr, its, d) \in Nat /\ Points(pr, its, d) \in Nat
<1>1. [p \in Products |-> ItemPrice(pr, p, d) * its[p]] \in [Products -> Nat]
  <2>1. \A p \in Products : ItemPrice(pr, p, d) * its[p] \in Nat
    BY ItemPriceNat, TimesNat
  <2> QED
    BY <2>1
<1>2. [p \in Products |-> 100 * ((ItemPrice(pr, p, d) + 500) \div 1000) * its[p]] \in [Products -> Nat]
  <2>1. \A p \in Products : 100 * ((ItemPrice(pr, p, d) + 500) \div 1000) * its[p] \in Nat
    <3> SUFFICES ASSUME NEW p \in Products PROVE 100 * ((ItemPrice(pr, p, d) + 500) \div 1000) * its[p] \in Nat
      OBVIOUS
    <3> DEFINE i == ItemPrice(pr, p, d)
               q == 100 * ((i + 500) \div 1000)
    <3>1. i \in Nat
      BY ItemPriceNat
    <3> HIDE DEF i
    <3>2. q \in Nat
      BY <3>1
    <3> HIDE DEF q
    <3>3. q * its[p] \in Nat
      BY <3>2, TimesNat
    <3> QED
      BY <3>3 DEF q, i
  <2> QED
    BY <2>1
<1> QED
  BY <1>1, <1>2, SumFunctionNat DEF ItemTotal, Points

LEMMA DiscountBound ==
    ASSUME NEW n \in Nat, NEW d \in 0..100
    PROVE  DiscountAmount(n, d) \in Nat /\ DiscountAmount(n, d) <= n
<1>1. n * d \in Nat /\ n * d <= n * 100
  <2>1. n * d \in Nat /\ n * (100 - d) \in Nat
    BY TimesNat
  <2>2. n * 100 = n * d + n * (100 - d)
    OBVIOUS
  <2> QED
    BY <2>1, <2>2
<1> DEFINE m == n * d
<1>2. m \in Nat /\ m <= 100 * n
  BY <1>1
<1> HIDE DEF m
<1>3. (m + 50) \div 100 \in Nat /\ (m + 50) \div 100 <= n
  BY <1>2
<1> QED
  BY <1>3 DEF m, DiscountAmount

LEMMA Grants ==
    ASSUME NEW c, NEW now, NEW campaign \in BOOLEAN
    PROVE  /\ discountFromCoupon(c, now) \in 0..100
           /\ discountFromCoupon(c, now) > 0 => c = "month1"
           /\ calculateApplicableDiscount(c, now, campaign) \in 0..100
           /\ calculateApplicableDiscount("none", now, campaign) = IF campaign THEN CampaignDiscount ELSE 0
           /\ calculateApplicableDiscount(c, now, FALSE) = discountFromCoupon(c, now)
<1>1. CouponDiscount \in 0..100 /\ CampaignDiscount \in 0..100
  BY CheckoutAssumption DEF CheckoutAssumption
<1>2. discountFromCoupon(c, now) \in 0..100 /\ (discountFromCoupon(c, now) > 0 => c = "month1")
  BY <1>1 DEF discountFromCoupon
<1>3. discountFromCoupon("none", now) = 0
  BY DEF discountFromCoupon
<1> QED
  BY <1>1, <1>2, <1>3 DEF calculateApplicableDiscount

LEMMA DeliveryNat ==
    ASSUME NEW method \in BOOLEAN, NEW deluxe \in BOOLEAN
    PROVE  deliveryAmount(method, deluxe) \in Nat
  BY CheckoutAssumption DEF CheckoutAssumption, deliveryAmount

-----------------------------------------------------------------------------
(* What a handler does to a request.                                       *)

Answering(r, st) == [[r EXCEPT !.pc = "answered"] EXCEPT !.status = st]
Going(r, l) == [r EXCEPT !.pc = l]

LEMMA AnswerStep ==
    ASSUME NEW t \in Tabs, RequestTypes, NEW st, Answer(t, st)
    PROVE  rq' = [rq EXCEPT ![t] = Answering(rq[t], st)]
  BY DEF Answer, Answering, RequestTypes

LEMMA GotoStep ==
    ASSUME NEW t \in Tabs, NEW l, Goto(t, l)
    PROVE  rq' = [rq EXCEPT ![t] = Going(rq[t], l)]
  BY DEF Goto, Going

LEMMA AnsweringKeeps ==
    ASSUME NEW r \in Requests, r.op # "none", NEW st \in Status
    PROVE  /\ Answering(r, st) \in Requests /\ Answering(r, st).op = r.op
           /\ Answering(r, st).pc = "answered" /\ Answering(r, st).status = st
<1> DEFINE Kept(K) == /\ Answering(r, st) \in K /\ Answering(r, st).op = r.op
                      /\ Answering(r, st).pc = "answered" /\ Answering(r, st).status = st
<1>1. CASE r \in ItemRequests
  <2>1. Kept(ItemRequests)
    BY <1>1 DEF Answering, ItemRequests
  <2> QED
    BY <2>1 DEF Requests
<1>2. CASE r \in DelRequests
  <2>1. Kept(DelRequests)
    BY <1>2 DEF Answering, DelRequests
  <2> QED
    BY <2>1 DEF Requests
<1>3. CASE r \in CouponRequests
  <2>1. Kept(CouponRequests)
    BY <1>3 DEF Answering, CouponRequests
  <2> QED
    BY <2>1 DEF Requests
<1>4. CASE r \in TopUpRequests
  <2>1. Kept(TopUpRequests)
    BY <1>4 DEF Answering, TopUpRequests
  <2> QED
    BY <2>1 DEF Requests
<1>5. CASE r \in UpgradeRequests
  <2>1. Kept(UpgradeRequests)
    BY <1>5 DEF Answering, UpgradeRequests
  <2> QED
    BY <2>1 DEF Requests
<1>6. CASE r \in RecordRequests
  <2>1. Kept(RecordRequests)
    BY <1>6 DEF Answering, RecordRequests
  <2> QED
    BY <2>1 DEF Requests
<1>7. CASE r \in CheckoutRequests
  <2>1. Kept(CheckoutRequests)
    BY <1>7 DEF Answering, CheckoutRequests
  <2> QED
    BY <2>1 DEF Requests
<1>8. CASE r \in ToggleRequests
  <2>1. Kept(ToggleRequests)
    BY <1>8 DEF Answering, ToggleRequests
  <2> QED
    BY <2>1 DEF Requests
<1> QED
  BY <1>1, <1>2, <1>3, <1>4, <1>5, <1>6, <1>7, <1>8 DEF Requests, NoRequest

(* What an order is placed with stays, and so does its price once it is    *)
(* computed.                                                               *)
SameOrder(n, r) ==
    /\ n.deluxe = r.deluxe /\ n.campaign = r.campaign /\ n.method = r.method /\ n.pay = r.pay
    /\ n.view = r.view /\ n.promised = r.promised /\ n.settled = r.settled
SamePrice(n, r) ==
    n.its = r.its /\ n.prices = r.prices /\ n.c = r.c /\ n.total = r.total /\ n.points = r.points /\ n.seen = r.seen

LEMMA GoingItem ==
    ASSUME NEW r \in ItemRequests, NEW l \in {"check", "save", "find", "put"}
    PROVE  /\ Going(r, l) \in ItemRequests /\ Going(r, l) \in Requests
           /\ Going(r, l).op = r.op /\ Going(r, l).pc = l
  BY DEF Going, Requests, ItemRequests

LEMMA GoingTopUp ==
    ASSUME NEW r \in TopUpRequests, NEW l \in {"card", "increment"}
    PROVE  /\ Going(r, l) \in TopUpRequests /\ Going(r, l) \in Requests
           /\ Going(r, l).op = r.op /\ Going(r, l).pc = l
  BY DEF Going, Requests, TopUpRequests

LEMMA GoingUpgrade ==
    ASSUME NEW r \in UpgradeRequests, NEW l \in {"user", "wallet", "card", "decrement", "role"}
    PROVE  /\ Going(r, l) \in UpgradeRequests /\ Going(r, l) \in Requests
           /\ Going(r, l).op = r.op /\ Going(r, l).pc = l
  BY DEF Going, Requests, UpgradeRequests

LEMMA GoingCheckout ==
    ASSUME NEW r \in CheckoutRequests, NEW l \in {"find", "quantity", "take", "wallet", "charge", "bonus", "insert", "destroy"}
    PROVE  /\ Going(r, l) \in CheckoutRequests /\ Going(r, l) \in Requests
           /\ Going(r, l).op = r.op /\ Going(r, l).pc = l
           /\ SameOrder(Going(r, l), r) /\ SamePrice(Going(r, l), r)
  BY DEF Going, Requests, CheckoutRequests, SameOrder, SamePrice

LEMMA AnsweringCheckout ==
    ASSUME NEW r \in CheckoutRequests, NEW st \in Status
    PROVE  SameOrder(Answering(r, st), r) /\ SamePrice(Answering(r, st), r)
  BY DEF Answering, CheckoutRequests, SameOrder, SamePrice

LEMMA AnsweringCoupon ==
    ASSUME NEW r \in CouponRequests, NEW st \in Status
    PROVE  Answering(r, st).c = r.c /\ Answering(r, st).discount = r.discount
  BY DEF Answering, CouponRequests

(* placeOrderFind *)
Finding(r, its, prices, c, todo) ==
    [[[[[r EXCEPT !.pc = "quantity"] EXCEPT !.its = its] EXCEPT !.prices = prices] EXCEPT !.c = c] EXCEPT !.todo = todo]

LEMMA FindStep ==
    ASSUME NEW t \in Tabs, RequestTypes, placeOrderFind(t)
    PROVE  rq' = [rq EXCEPT ![t] = Finding(rq[t], items[U(t)], price, coupon[U(t)], {p \in Products : items[U(t)][p] > 0})]
  BY DEF placeOrderFind, Finding, RequestTypes

LEMMA FindingKeeps ==
    ASSUME NEW r \in CheckoutRequests, NEW its \in [Products -> Nat], NEW prices \in [Products -> Nat],
           NEW c \in {"none", "month1"}, NEW todo \in SUBSET Products
    PROVE  LET n == Finding(r, its, prices, c, todo)
           IN  /\ n \in CheckoutRequests /\ n.pc = "quantity" /\ n.c = c /\ n.prices = prices /\ n.its = its
               /\ SameOrder(n, r)
  BY DEF Finding, CheckoutRequests, SameOrder

(* placeOrderReadQuantity and placeOrderUpdateQuantity *)
Reading(r, p, q) == [[[r EXCEPT !.pc = "take"] EXCEPT !.p = p] EXCEPT !.q = q]
Taking(r) == [[r EXCEPT !.pc = "quantity"] EXCEPT !.todo = @ \ {r.p}]

LEMMA ReadStep ==
    ASSUME NEW t \in Tabs, RequestTypes, placeOrderReadQuantity(t)
    PROVE  \E p \in rq[t].todo : rq' = [rq EXCEPT ![t] = Reading(rq[t], p, stock[p])]
  BY DEF placeOrderReadQuantity, Reading, RequestTypes

LEMMA TakeStep ==
    ASSUME NEW t \in Tabs, RequestTypes, placeOrderUpdateQuantity(t)
    PROVE  rq' = [rq EXCEPT ![t] = Taking(rq[t])]
  BY DEF placeOrderUpdateQuantity, Taking, RequestTypes

LEMMA ReadingKeeps ==
    ASSUME NEW r \in CheckoutRequests, NEW p \in Products, NEW q \in Int
    PROVE  LET n == Reading(r, p, q)
           IN  n \in CheckoutRequests /\ n.pc = "take" /\ n.p = p /\ n.q = q /\ SameOrder(n, r) /\ SamePrice(n, r)
  BY DEF Reading, CheckoutRequests, SameOrder, SamePrice

LEMMA TakingKeeps ==
    ASSUME NEW r \in CheckoutRequests
    PROVE  LET n == Taking(r)
           IN  n \in CheckoutRequests /\ n.pc = "quantity" /\ SameOrder(n, r) /\ SamePrice(n, r)
  BY DEF Taking, CheckoutRequests, SameOrder, SamePrice

(* placeOrderTotal, placeOrderFindWallet and upgradeFindWallet *)
Pricing(r, l, points, total) == [[[r EXCEPT !.pc = l] EXCEPT !.points = points] EXCEPT !.total = total]
Seeing(r, l, seen) == [[r EXCEPT !.pc = l] EXCEPT !.seen = seen]

Gross(r) == ItemTotal(r.prices, r.its, r.deluxe)
Total(r, discount) == Gross(r) - DiscountAmount(Gross(r), discount) + deliveryAmount(r.method, r.deluxe)

LEMMA TotalStep ==
    ASSUME NEW t \in Tabs, RequestTypes, placeOrderTotal(t)
    PROVE  rq' = [rq EXCEPT ![t] = Pricing(rq[t], IF rq[t].pay = "wallet" THEN "wallet" ELSE "bonus",
                                           Points(rq[t].prices, rq[t].its, rq[t].deluxe),
                                           Total(rq[t], calculateApplicableDiscount(rq[t].c, month, rq[t].campaign)))]
  BY DEF placeOrderTotal, Pricing, RequestTypes, Total, Gross

LEMMA PricingKeeps ==
    ASSUME NEW r \in CheckoutRequests, NEW l \in {"wallet", "bonus"}, NEW points \in Nat, NEW total \in Int
    PROVE  LET n == Pricing(r, l, points, total)
           IN  /\ n \in CheckoutRequests /\ n.pc = l /\ n.points = points /\ n.total = total /\ SameOrder(n, r)
               /\ n.its = r.its /\ n.prices = r.prices /\ n.c = r.c
  BY DEF Pricing, CheckoutRequests, SameOrder

LEMMA SeeStep ==
    ASSUME NEW t \in Tabs, RequestTypes, NEW l, NEW n, rq' = [rq EXCEPT ![t].pc = l, ![t].seen = n]
    PROVE  rq' = [rq EXCEPT ![t] = Seeing(rq[t], l, n)]
  BY DEF Seeing, RequestTypes

LEMMA SeeingKeeps ==
    ASSUME NEW seen \in Int
    PROVE  /\ \A r \in CheckoutRequests :
                  /\ Seeing(r, "charge", seen) \in CheckoutRequests /\ Seeing(r, "charge", seen).pc = "charge"
                  /\ Seeing(r, "charge", seen).seen = seen /\ Seeing(r, "charge", seen).total = r.total
                  /\ Seeing(r, "charge", seen).its = r.its /\ Seeing(r, "charge", seen).c = r.c
                  /\ Seeing(r, "charge", seen).prices = r.prices /\ SameOrder(Seeing(r, "charge", seen), r)
           /\ \A r \in UpgradeRequests :
                  /\ Seeing(r, "decrement", seen) \in UpgradeRequests /\ Seeing(r, "decrement", seen).pc = "decrement"
                  /\ Seeing(r, "decrement", seen).seen = seen
<1>1. ASSUME NEW r \in CheckoutRequests
      PROVE  /\ Seeing(r, "charge", seen) \in CheckoutRequests /\ Seeing(r, "charge", seen).pc = "charge"
             /\ Seeing(r, "charge", seen).seen = seen /\ Seeing(r, "charge", seen).total = r.total
             /\ Seeing(r, "charge", seen).its = r.its /\ Seeing(r, "charge", seen).c = r.c
             /\ Seeing(r, "charge", seen).prices = r.prices /\ SameOrder(Seeing(r, "charge", seen), r)
  BY <1>1 DEF Seeing, CheckoutRequests, SameOrder
<1>2. ASSUME NEW r \in UpgradeRequests
      PROVE  /\ Seeing(r, "decrement", seen) \in UpgradeRequests /\ Seeing(r, "decrement", seen).pc = "decrement"
             /\ Seeing(r, "decrement", seen).seen = seen
  BY <1>2 DEF Seeing, UpgradeRequests
<1> QED
  BY <1>1, <1>2

(* applyCouponFind *)
Worth(r, d) == [[r EXCEPT !.pc = "update"] EXCEPT !.discount = d]

LEMMA CouponFindStep ==
    ASSUME NEW t \in Tabs, RequestTypes, applyCouponFind(t)
    PROVE  rq' = [rq EXCEPT ![t] = Worth(rq[t], discountFromCoupon(rq[t].c, month))]
  BY DEF applyCouponFind, Worth, RequestTypes

LEMMA WorthKeeps ==
    ASSUME NEW r \in CouponRequests, NEW d \in 0..100
    PROVE  LET n == Worth(r, d) IN n \in CouponRequests /\ n.pc = "update" /\ n.c = r.c /\ n.discount = d
  BY DEF Worth, CouponRequests

-----------------------------------------------------------------------------
(* The inductive invariant of the ledgers.                                 *)

(* What a handler has read or checked before the step it is at.  A         *)
(* quantity that was read is too high by now at most.                      *)
Fits(r, tk) ==
    /\ r.op = "coupon" /\ r.discount > 0 => r.c = "month1"
    /\ r.op = "checkout" /\ r.pc = "take" => r.p \in Products /\ r.q >= Stock0[r.p] - tk[r.p]
    /\ r.op = "checkout" /\ r.pc \in {"wallet", "charge"} => r.pay = "wallet"
    /\ r.op = "checkout" /\ r.pc = "charge" => r.seen >= r.total
    /\ r.op = "upgrade" /\ r.pc = "decrement" => r.seen >= MembershipCost

RequestsFit == \A t \in Tabs : Fits(rq[t], taken)

(* A coupon that was used is cleared, or will be.                          *)
SpentFits == \A u \in Users : spent[u] => u \in clears \/ coupon[u] = "none"

LedgerInv == Types /\ RequestsFit /\ StockNotUnderstated /\ SpentFits

(* The request of a tab goes on.                                           *)
Served(t, n) ==
    /\ n \in Requests /\ rq' = [rq EXCEPT ![t] = n]
    /\ n.op = rq[t].op /\ n.pc # "idle" /\ Fits(n, taken')

LEMMA UserOfTab == ASSUME NEW t \in Tabs PROVE U(t) \in Users
  BY CheckoutAssumption DEF CheckoutAssumption, U

(* A request that is answered.                                             *)
LEMMA AnswerServed ==
    ASSUME Types, NEW t \in Tabs, rq[t].op # "none", RequestsFit, NEW st \in Status, Answer(t, st)
    PROVE  Served(t, Answering(rq[t], st))
<1> DEFINE n == Answering(rq[t], st)
<1>1. rq[t] \in Requests
  BY DEF Types, RequestTypes
<1>2. n \in Requests /\ n.op = rq[t].op /\ n.pc = "answered"
  BY <1>1, AnsweringKeeps
<1>3. rq' = [rq EXCEPT ![t] = n]
  BY AnswerStep DEF Types
<1>4. n.op = "coupon" => n.c = rq[t].c /\ n.discount = rq[t].discount
  BY <1>1, <1>2, RequestKinds, AnsweringCoupon
<1>5. Fits(n, taken')
  <2> HIDE DEF n
  <2> QED
    BY <1>2, <1>4 DEF Fits, RequestsFit
<1> QED
  BY <1>2, <1>3, <1>5 DEF Served

(* What a request has moved in the wallet before its order is stored.      *)
PendingOf(r) ==
    IF r.op # "checkout" \/ r.pc \notin {"bonus", "insert"} THEN 0
    ELSE (IF r.pc = "insert" THEN r.points ELSE 0) - (IF r.pay = "wallet" THEN r.total ELSE 0)

(* A step of a handler that only goes on with its request, or answers it.  *)
Reads(t) == 
    \/ quantityCheckBeforeBasketItemAddition(t) \/ quantityCheckBeforeBasketItemUpdate(t) \/ quantityCheckOfUpdate(t)
    \/ applyCouponFind(t) \/ addWalletBalanceCard(t) \/ upgradeFindUser(t) \/ upgradeFindWallet(t) \/ upgradeFindCard(t)
    \/ placeOrderFind(t) \/ placeOrderReadQuantity(t) \/ placeOrderQuantityError(t) \/ placeOrderTotal(t)
    \/ placeOrderFindWallet(t)

LEMMA ReadsFrame ==
    ASSUME NEW t \in Tabs, Reads(t)
    PROVE  UNCHANGED <<db, month, clears, hist>> /\ rq[t].op # "none" /\ rq[t].pc \notin {"idle", "answered"}
  BY DEF Reads, quantityCheckBeforeBasketItemAddition, quantityCheckBeforeBasketItemUpdate, quantityCheckOfUpdate,
         applyCouponFind, addWalletBalanceCard, upgradeFindUser, upgradeFindWallet, upgradeFindCard,
         placeOrderFind, placeOrderReadQuantity, placeOrderQuantityError, placeOrderTotal, placeOrderFindWallet, At

LEMMA ReadsServed ==
    ASSUME LedgerInv, NEW t \in Tabs, Reads(t)
    PROVE  \E n : Served(t, n) /\ PendingOf(n) = 0
<1> DEFINE r == rq[t]
<1>1. r \in Requests /\ RequestTypes /\ Fits(r, taken) /\ r.op # "none"
  BY ReadsFrame DEF LedgerInv, Types, RequestTypes, RequestsFit
<1>2. U(t) \in Users /\ taken' = taken
  BY UserOfTab, ReadsFrame DEF hist
<1>3. ASSUME NEW st \in Status, Answer(t, st) PROVE \E n : Served(t, n) /\ PendingOf(n) = 0
  <2>1. Served(t, Answering(r, st))
    BY <1>1, <1>3, AnswerServed DEF LedgerInv
  <2>2. Answering(r, st).pc = "answered"
    BY <1>1, <1>3, AnsweringKeeps
  <2> QED
    BY <2>1, <2>2 DEF PendingOf
<1>4. CASE quantityCheckBeforeBasketItemAddition(t) \/ quantityCheckBeforeBasketItemUpdate(t) \/ quantityCheckOfUpdate(t)
  <2>1. r \in ItemRequests
    BY <1>1, <1>4, RequestKinds DEF quantityCheckBeforeBasketItemAddition, quantityCheckBeforeBasketItemUpdate,
       quantityCheckOfUpdate, At
  <2>2. CASE \E l \in {"save", "check", "put"} : Goto(t, l)
    <3>1. PICK l \in {"save", "check", "put"} : Goto(t, l)
      BY <2>2
    <3>2. Going(r, l) \in Requests /\ Going(r, l).op = r.op /\ Going(r, l).pc = l
      BY <2>1, <3>1, GoingItem
    <3>3. r.op \in {"addItem", "putItem"}
      BY <2>1 DEF ItemRequests
    <3>4. Served(t, Going(r, l)) /\ PendingOf(Going(r, l)) = 0
      BY <3>1, <3>2, <3>3, GotoStep DEF Served, Fits, PendingOf
    <3> QED
      BY <3>4
  <2>3. CASE Answer(t, "error")
    BY <2>3, <1>3 DEF Status
  <2> QED
    BY <1>4, <2>2, <2>3 DEF quantityCheckBeforeBasketItemAddition, quantityCheckBeforeBasketItemUpdate,
       quantityCheckOfUpdate
<1>5. CASE applyCouponFind(t)
  <2> DEFINE d == discountFromCoupon(r.c, month)
             n == Worth(r, d)
  <2>1. r \in CouponRequests /\ d \in 0..100 /\ (d > 0 => r.c = "month1")
    BY <1>1, <1>5, RequestKinds, Grants DEF applyCouponFind, At
  <2>2. n \in CouponRequests /\ n.pc = "update" /\ n.c = r.c /\ n.discount = d
    BY <2>1, WorthKeeps
  <2>3. rq' = [rq EXCEPT ![t] = n]
    BY <1>1, <1>5, CouponFindStep
  <2>4. n \in Requests /\ n.op = "coupon" /\ r.op = "coupon"
    BY <2>1, <2>2 DEF Requests, CouponRequests
  <2>5. Served(t, n) /\ PendingOf(n) = 0
    <3> HIDE DEF n, d
    <3> QED
      BY <2>1, <2>2, <2>3, <2>4 DEF Served, Fits, PendingOf
  <2> QED
    BY <2>5
<1>6. CASE addWalletBalanceCard(t)
  <2>1. r \in TopUpRequests /\ r.op = "topup"
    BY <1>1, <1>6, RequestKinds DEF addWalletBalanceCard, At
  <2>2. CASE Goto(t, "increment")
    <3>1. Going(r, "increment") \in Requests /\ Going(r, "increment").op = r.op /\ Going(r, "increment").pc = "increment"
      BY <2>1, GoingTopUp
    <3>2. Served(t, Going(r, "increment")) /\ PendingOf(Going(r, "increment")) = 0
      BY <2>1, <2>2, <3>1, GotoStep DEF Served, Fits, PendingOf
    <3> QED
      BY <3>2
  <2> QED
    BY <1>6, <2>2, <1>3 DEF addWalletBalanceCard, Status
<1>7. CASE upgradeFindUser(t) \/ upgradeFindCard(t)
  <2>1. r \in UpgradeRequests /\ r.op = "upgrade"
    BY <1>1, <1>7, RequestKinds DEF upgradeFindUser, upgradeFindCard, At
  <2>2. CASE \E l \in {"wallet", "card", "role"} : Goto(t, l)
    <3>1. PICK l \in {"wallet", "card", "role"} : Goto(t, l)
      BY <2>2
    <3>2. Going(r, l) \in Requests /\ Going(r, l).op = r.op /\ Going(r, l).pc = l
      BY <2>1, <3>1, GoingUpgrade
    <3>3. Served(t, Going(r, l)) /\ PendingOf(Going(r, l)) = 0
      BY <2>1, <3>1, <3>2, GotoStep DEF Served, Fits, PendingOf
    <3> QED
      BY <3>3
  <2>3. r.mode \in {"wallet", "card"}
    BY <2>1 DEF UpgradeRequests
  <2> QED
    BY <1>7, <2>2, <2>3, <1>3 DEF upgradeFindUser, upgradeFindCard, Status
<1>8. CASE upgradeFindWallet(t)
  <2>1. r \in UpgradeRequests /\ r.op = "upgrade"
    BY <1>1, <1>8, RequestKinds DEF upgradeFindWallet, At
  <2>2. wallet[U(t)] \in Int
    BY <1>2 DEF LedgerInv, Types, ServerTypes
  <2>3. CASE Answer(t, "error")
    BY <2>3, <1>3 DEF Status
  <2>4. CASE ~(wallet[U(t)] < MembershipCost)
    <3> DEFINE n == Seeing(r, "decrement", wallet[U(t)])
    <3>1. rq' = [rq EXCEPT ![t] = n]
      BY <1>1, <1>8, <2>4, SeeStep DEF upgradeFindWallet
    <3>2. n \in UpgradeRequests /\ n.pc = "decrement" /\ n.seen = wallet[U(t)]
      BY <2>1, <2>2, SeeingKeeps
    <3>3. n \in Requests /\ n.op = "upgrade"
      BY <3>2 DEF Requests, UpgradeRequests
    <3>4. Served(t, n) /\ PendingOf(n) = 0
      <4> HIDE DEF n
      <4> QED
        BY <2>1, <2>2, <2>4, <3>1, <3>2, <3>3 DEF Served, Fits, PendingOf, MembershipCost
    <3> QED
      BY <3>4
  <2> QED
    BY <1>8, <2>3, <2>4 DEF upgradeFindWallet
<1>9. CASE placeOrderQuantityError(t)
  BY <1>9, <1>3 DEF placeOrderQuantityError, DbError, Status
<1>10. CASE placeOrderFind(t)
  <2> DEFINE its == items[U(t)]
             todo == {p \in Products : items[U(t)][p] > 0}
             n == Finding(r, its, price, coupon[U(t)], todo)
  <2>1. r \in CheckoutRequests /\ r.op = "checkout"
    BY <1>1, <1>10, RequestKinds DEF placeOrderFind, At
  <2>2. its \in [Products -> Nat] /\ price \in [Products -> Nat] /\ coupon[U(t)] \in {"none", "month1"} /\ todo \in SUBSET Products
    <3>1. its \in [Products -> 0..MaxQty] /\ MaxQty \in Nat
      BY <1>2, StorefrontAssumption DEF LedgerInv, Types, ServerTypes, StorefrontAssumption
    <3> QED
      BY <1>2, <3>1 DEF LedgerInv, Types, ServerTypes
  <2>3. n \in CheckoutRequests /\ n.pc = "quantity"
    <3> HIDE DEF its, todo
    <3> QED
      BY <2>1, <2>2, FindingKeeps
  <2>4. rq' = [rq EXCEPT ![t] = n]
    BY <1>1, <1>10, FindStep
  <2>5. n \in Requests /\ n.op = "checkout"
    BY <2>3 DEF Requests, CheckoutRequests
  <2>6. Served(t, n) /\ PendingOf(n) = 0
    <3> HIDE DEF n
    <3> QED
      BY <2>1, <2>3, <2>4, <2>5 DEF Served, Fits, PendingOf
  <2> QED
    BY <2>6
<1>11. CASE placeOrderReadQuantity(t)
  <2>1. r \in CheckoutRequests /\ r.op = "checkout"
    BY <1>1, <1>11, RequestKinds DEF placeOrderReadQuantity, At
  <2>2. PICK p \in r.todo : rq' = [rq EXCEPT ![t] = Reading(r, p, stock[p])]
    BY <1>1, <1>11, ReadStep
  <2> DEFINE n == Reading(r, p, stock[p])
  <2>3. p \in Products /\ stock[p] \in Int /\ stock[p] >= Stock0[p] - taken[p]
    BY <2>1 DEF CheckoutRequests, LedgerInv, Types, ServerTypes, StockNotUnderstated
  <2>4. n \in CheckoutRequests /\ n.pc = "take" /\ n.p = p /\ n.q = stock[p]
    BY <2>1, <2>3, ReadingKeeps
  <2>5. n \in Requests /\ n.op = "checkout"
    BY <2>4 DEF Requests, CheckoutRequests
  <2>6. Served(t, n) /\ PendingOf(n) = 0
    <3>1. rq' = [rq EXCEPT ![t] = n]
      BY <2>2
    <3> HIDE DEF n
    <3> QED
      BY <1>2, <2>1, <2>3, <2>4, <2>5, <3>1 DEF Served, Fits, PendingOf
  <2> QED
    BY <2>6
<1>12. CASE placeOrderTotal(t)
  <2> DEFINE l == IF r.pay = "wallet" THEN "wallet" ELSE "bonus"
             points == Points(r.prices, r.its, r.deluxe)
             d == calculateApplicableDiscount(r.c, month, r.campaign)
             total == Total(r, d)
             n == Pricing(r, l, points, total)
  <2>1. r \in CheckoutRequests /\ r.op = "checkout"
    BY <1>1, <1>12, RequestKinds DEF placeOrderTotal, At
  <2>2. rq' = [rq EXCEPT ![t] = n]
    BY <1>1, <1>12, TotalStep
  <2>3. r.prices \in [Products -> Nat] /\ r.its \in [Products -> Nat] /\ r.deluxe \in BOOLEAN /\ r.campaign \in BOOLEAN
        /\ r.method \in BOOLEAN
    BY <2>1 DEF CheckoutRequests
  <2>4. points \in Nat /\ total \in Int
    <3>1. Gross(r) \in Nat /\ points \in Nat
      BY <2>3, TotalsNat DEF Gross
    <3>2. d \in 0..100
      BY <2>3, Grants
    <3>3. DiscountAmount(Gross(r), d) \in Nat
      BY <3>1, <3>2, DiscountBound
    <3>4. deliveryAmount(r.method, r.deluxe) \in Nat
      BY <2>3, DeliveryNat
    <3> QED
      BY <3>1, <3>3, <3>4 DEF Total
  <2>5. l \in {"wallet", "bonus"}
    OBVIOUS
  <2>6. n \in CheckoutRequests /\ n.pc = l /\ n.pay = r.pay
    <3> HIDE DEF l, points, total
    <3> QED
      BY <2>1, <2>4, <2>5, PricingKeeps DEF SameOrder
  <2>7. n \in Requests /\ n.op = "checkout"
    BY <2>6 DEF Requests, CheckoutRequests
  <2>8. Served(t, n) /\ PendingOf(n) = 0
    <3> HIDE DEF n
    <3> QED
      BY <2>1, <2>2, <2>6, <2>7 DEF Served, Fits, PendingOf
  <2> QED
    BY <2>8
<1>13. CASE placeOrderFindWallet(t)
  <2>1. r \in CheckoutRequests /\ r.op = "checkout" /\ r.pc = "wallet"
    BY <1>1, <1>13, RequestKinds DEF placeOrderFindWallet, At
  <2>2. wallet[U(t)] \in Int
    BY <1>2 DEF LedgerInv, Types, ServerTypes
  <2>3. CASE Answer(t, "error")
    BY <2>3, <1>3 DEF Status
  <2>4. CASE wallet[U(t)] >= r.total
    <3> DEFINE n == Seeing(r, "charge", wallet[U(t)])
    <3>1. rq' = [rq EXCEPT ![t] = n]
      BY <1>1, <1>13, <2>4, SeeStep DEF placeOrderFindWallet
    <3>2. n \in CheckoutRequests /\ n.pc = "charge" /\ n.seen = wallet[U(t)] /\ n.total = r.total /\ n.pay = r.pay
      BY <2>1, <2>2, SeeingKeeps DEF SameOrder
    <3>3. n \in Requests /\ n.op = "checkout"
      BY <3>2 DEF Requests, CheckoutRequests
    <3>4. Served(t, n) /\ PendingOf(n) = 0
      <4> HIDE DEF n
      <4> QED
        BY <1>1, <2>1, <2>4, <3>1, <3>2, <3>3 DEF Served, Fits, PendingOf
    <3> QED
      BY <3>4
  <2> QED
    BY <1>13, <2>3, <2>4 DEF placeOrderFindWallet
<1> QED
  BY <1>4, <1>5, <1>6, <1>7, <1>8, <1>9, <1>10, <1>11, <1>12, <1>13 DEF Reads

(* The ledgers after a step of a handler.                                  *)
LEMMA ServedInv ==
    ASSUME LedgerInv, NEW t \in Tabs, NEW n, Served(t, n), ServerTypes', UNCHANGED cvars,
           \A p \in Products : taken'[p] >= taken[p], StockNotUnderstated', SpentFits'
    PROVE  LedgerInv'
<1>1. TabTypes'
  BY DEF LedgerInv, Types, TabTypes, cvars
<1>2. RequestTypes'
  BY DEF LedgerInv, Types, RequestTypes, Served
<1>3. RequestsFit'
  <2> SUFFICES ASSUME NEW s \in Tabs PROVE Fits(rq'[s], taken')
    BY DEF RequestsFit
  <2>1. CASE s = t
    BY <2>1 DEF Served, LedgerInv, Types, RequestTypes
  <2>2. CASE s # t
    <3> DEFINE r == rq[s]
    <3>1. rq'[s] = r
      BY <2>2 DEF Served, LedgerInv, Types, RequestTypes
    <3>2. Fits(r, taken) /\ r \in Requests
      BY DEF LedgerInv, RequestsFit, Types, RequestTypes
    <3>3. r.op = "checkout" => r.q \in Int
      BY <3>2, RequestKinds DEF CheckoutRequests
    <3>4. \A p \in Products : taken[p] \in Nat /\ taken'[p] \in Nat /\ Stock0[p] \in Nat
      BY CheckoutAssumption DEF LedgerInv, Types, ServerTypes, CheckoutAssumption
    <3>5. Fits(r, taken')
      <4> HIDE DEF r
      <4> QED
        BY <3>2, <3>3, <3>4 DEF Fits
    <3> QED
      BY <3>1, <3>5
  <2> QED
    BY <2>1, <2>2
<1> QED
  BY <1>1, <1>2, <1>3 DEF LedgerInv, Types

(* Handlers that only read.                                                *)
LEMMA ReadsInv ==
    ASSUME LedgerInv, NEW t \in Tabs, Reads(t), UNCHANGED cvars
    PROVE  LedgerInv'
<1>1. PICK n : Served(t, n)
  BY ReadsServed
<1>2. UNCHANGED <<db, month, clears, hist>>
  BY ReadsFrame
<1>3. ServerTypes'
  BY <1>2 DEF LedgerInv, Types, ServerTypes, db, hist
<1>4. StockNotUnderstated' /\ SpentFits'
  BY <1>2 DEF LedgerInv, StockNotUnderstated, SpentFits, db, hist
<1>5. \A p \in Products : taken'[p] >= taken[p]
  BY <1>2 DEF LedgerInv, Types, ServerTypes, hist
<1> QED
  BY <1>1, <1>3, <1>4, <1>5, ServedInv

(* Handlers that write into a basket.                                      *)
WritesItem(t) == addBasketItem(t) \/ putBasketItem(t) \/ delBasketItem(t) \/ placeOrderDestroy(t)

LEMMA WritesItemFrame ==
    ASSUME NEW t \in Tabs, WritesItem(t)
    PROVE  /\ UNCHANGED <<price, stock, coupon, wallet, role, cards, addresses, orders, month, clears, events, hist>>
           /\ rq[t].op \in {"addItem", "putItem", "delItem", "checkout"} /\ rq[t].pc \notin {"idle", "answered"}
           /\ rq[t].op = "checkout" => rq[t].pc = "destroy" /\ Answer(t, "ok")
           /\ \E st \in Status : Answer(t, st)
  BY DEF WritesItem, addBasketItem, putBasketItem, delBasketItem, placeOrderDestroy, At, Status

LEMMA WritesItemInv ==
    ASSUME LedgerInv, NEW t \in Tabs, WritesItem(t), UNCHANGED cvars
    PROVE  LedgerInv'
<1>0. U(t) \in Users /\ rq[t] \in Requests
  BY UserOfTab DEF LedgerInv, Types, RequestTypes
<1>1. PICK st \in Status : Answer(t, st)
  BY WritesItemFrame
<1>2. Served(t, Answering(rq[t], st))
  BY <1>1, AnswerServed, WritesItemFrame DEF LedgerInv
<1>3. items' \in [Users -> [Products -> 0..MaxQty]]
  <2>1. items \in [Users -> [Products -> 0..MaxQty]] /\ MaxQty \in Nat
    BY StorefrontAssumption DEF LedgerInv, Types, ServerTypes, StorefrontAssumption
  <2>2. CASE addBasketItem(t) \/ putBasketItem(t)
    <3>1. rq[t].p \in Products /\ rq[t].q \in 0..MaxQty
      BY <1>0, <2>2, RequestKinds DEF addBasketItem, putBasketItem, At, ItemRequests
    <3> QED
      BY <1>0, <2>1, <2>2, <3>1 DEF addBasketItem, putBasketItem
  <2>3. CASE delBasketItem(t)
    <3>1. rq[t].p \in Products
      BY <1>0, <2>3, RequestKinds DEF delBasketItem, At, DelRequests
    <3> QED
      BY <1>0, <2>1, <2>3, <3>1 DEF delBasketItem
  <2>4. CASE placeOrderDestroy(t)
    BY <1>0, <2>1, <2>4 DEF placeOrderDestroy, NoItems
  <2> QED
    BY <2>2, <2>3, <2>4 DEF WritesItem
<1>4. ServerTypes'
  BY <1>3, WritesItemFrame DEF LedgerInv, Types, ServerTypes, hist
<1>5. StockNotUnderstated' /\ SpentFits' /\ \A p \in Products : taken'[p] >= taken[p]
  BY WritesItemFrame DEF LedgerInv, Types, ServerTypes, StockNotUnderstated, SpentFits, hist
<1> QED
  BY <1>2, <1>4, <1>5, ServedInv

(* Handlers that write the coupon, the role, a card or an address.         *)
WritesUser(t) == applyCouponUpdate(t) \/ upgradeRole(t) \/ writeCard(t) \/ writeAddress(t)

LEMMA WritesUserFrame ==
    ASSUME NEW t \in Tabs, WritesUser(t)
    PROVE  /\ UNCHANGED <<price, stock, items, wallet, orders, month, clears, events, taken, booked, lost>>
           /\ rq[t].op \in {"coupon", "upgrade", "card", "address"} /\ rq[t].pc \notin {"idle", "answered"}
           /\ rq[t].op # "coupon" => UNCHANGED <<coupon, spent>>
           /\ \E st \in Status : Answer(t, st)
  BY DEF WritesUser, applyCouponUpdate, upgradeRole, writeCard, writeAddress, At, Status, hist

LEMMA WritesUserInv ==
    ASSUME LedgerInv, NEW t \in Tabs, WritesUser(t), UNCHANGED cvars
    PROVE  LedgerInv'
<1>0. U(t) \in Users /\ rq[t] \in Requests /\ Fits(rq[t], taken)
  BY UserOfTab DEF LedgerInv, Types, RequestTypes, RequestsFit
<1>1. PICK st \in Status : Answer(t, st)
  BY WritesUserFrame
<1>2. Served(t, Answering(rq[t], st))
  BY <1>1, AnswerServed, WritesUserFrame DEF LedgerInv
<1> USE DEF LedgerInv, Types, ServerTypes
<1>3. CASE applyCouponUpdate(t)
  <2>1. coupon' \in [Users -> {"none", "month1"}] /\ spent' \in [Users -> BOOLEAN]
    BY <1>0, <1>3 DEF applyCouponUpdate, At, Fits
  <2>2. ServerTypes'
    BY <1>3, <2>1 DEF applyCouponUpdate
  <2>3. SpentFits'
    BY <1>0, <1>3 DEF applyCouponUpdate, SpentFits
  <2>4. StockNotUnderstated' /\ \A p \in Products : taken'[p] >= taken[p]
    BY <1>3 DEF applyCouponUpdate, StockNotUnderstated
  <2> QED
    BY <1>2, <2>2, <2>3, <2>4, ServedInv
<1>4. CASE upgradeRole(t) \/ writeCard(t) \/ writeAddress(t)
  <2>1. UNCHANGED <<coupon, spent>>
    BY <1>4 DEF upgradeRole, writeCard, writeAddress, hist
  <2>2. role' \in [Users -> {"customer", "deluxe"}]
    BY <1>0, <1>4 DEF upgradeRole, writeCard, writeAddress
  <2>3. rq[t].op \in {"card", "address"} => rq[t].keep \in BOOLEAN
    BY <1>0, RequestKinds DEF RecordRequests
  <2>4. cards' \in [Users -> BOOLEAN] /\ addresses' \in [Users -> BOOLEAN]
    BY <1>0, <1>4, <2>3 DEF upgradeRole, writeCard, writeAddress, At
  <2>5. ServerTypes'
    BY <2>1, <2>2, <2>4, WritesUserFrame
  <2>6. SpentFits' /\ StockNotUnderstated' /\ \A p \in Products : taken'[p] >= taken[p]
    BY <2>1, WritesUserFrame DEF SpentFits, StockNotUnderstated
  <2> QED
    BY <1>2, <2>5, <2>6, ServedInv
<1> QED
  BY <1>3, <1>4 DEF WritesUser

(* Handlers that move money.                                               *)
MovesMoney(t) ==
    \/ addWalletBalance(t) \/ upgradeDecrement(t)
    \/ placeOrderDecrement(t) \/ placeOrderIncrement(t) \/ placeOrderIncrementError(t)

LEMMA MovesMoneyFrame ==
    ASSUME NEW t \in Tabs, MovesMoney(t)
    PROVE  /\ UNCHANGED <<price, stock, items, coupon, role, cards, addresses, orders, month, clears, taken, spent>>
           /\ rq[t].op \in {"topup", "upgrade", "checkout"} /\ rq[t].pc \notin {"idle", "answered"}
  BY DEF MovesMoney, addWalletBalance, upgradeDecrement, placeOrderDecrement, placeOrderIncrement,
         placeOrderIncrementError, At, hist, db

(* How the request goes on.                                                *)
LEMMA MovesMoneyServed ==
    ASSUME LedgerInv, NEW t \in Tabs, MovesMoney(t)
    PROVE  /\ addWalletBalance(t) => Served(t, Answering(rq[t], "ok"))
           /\ upgradeDecrement(t) => Served(t, Going(rq[t], "role"))
           /\ placeOrderDecrement(t) => Served(t, Going(rq[t], "bonus"))
           /\ placeOrderIncrement(t) => Served(t, Going(rq[t], "insert"))
           /\ placeOrderIncrementError(t) => Served(t, Answering(rq[t], "error"))
<1> DEFINE r == rq[t]
<1>1. r \in Requests /\ r.op # "none"
  BY MovesMoneyFrame DEF LedgerInv, Types, RequestTypes
<1>2. ASSUME addWalletBalance(t) PROVE Served(t, Answering(r, "ok"))
  BY <1>1, <1>2, AnswerServed DEF addWalletBalance, LedgerInv, Status
<1>3. ASSUME placeOrderIncrementError(t) PROVE Served(t, Answering(r, "error"))
  BY <1>1, <1>3, AnswerServed DEF placeOrderIncrementError, DbError, LedgerInv, Status
<1>4. ASSUME upgradeDecrement(t) PROVE Served(t, Going(r, "role"))
  <2> DEFINE n == Going(r, "role")
  <2>1. r \in UpgradeRequests /\ r.op = "upgrade"
    BY <1>1, <1>4, RequestKinds DEF upgradeDecrement, At
  <2>2. n \in Requests /\ n.op = "upgrade" /\ n.pc = "role"
    BY <2>1, GoingUpgrade
  <2>3. rq' = [rq EXCEPT ![t] = n]
    BY <1>4, GotoStep DEF upgradeDecrement
  <2> HIDE DEF n
  <2> QED
    BY <2>1, <2>2, <2>3 DEF Served, Fits, n
<1>5. ASSUME NEW l \in {"bonus", "insert"}, placeOrderDecrement(t) \/ placeOrderIncrement(t), Goto(t, l)
      PROVE  Served(t, Going(r, l))
  <2> DEFINE n == Going(r, l)
  <2>1. r \in CheckoutRequests /\ r.op = "checkout"
    BY <1>1, <1>5, RequestKinds DEF placeOrderDecrement, placeOrderIncrement, At
  <2>2. n \in Requests /\ n.op = "checkout" /\ n.pc = l
    BY <2>1, GoingCheckout
  <2>3. rq' = [rq EXCEPT ![t] = n]
    BY <1>5, GotoStep
  <2> HIDE DEF n
  <2> QED
    BY <2>1, <2>2, <2>3 DEF Served, Fits, n
<1> QED
  BY <1>2, <1>3, <1>4, <1>5 DEF placeOrderDecrement, placeOrderIncrement

LEMMA MovesMoneyInv ==
    ASSUME LedgerInv, NEW t \in Tabs, MovesMoney(t), UNCHANGED cvars
    PROVE  LedgerInv'
<1>0. U(t) \in Users /\ rq[t] \in Requests
  BY UserOfTab DEF LedgerInv, Types, RequestTypes
<1>1. \E n : Served(t, n)
  BY MovesMoneyServed DEF MovesMoney
<1>2. /\ rq[t].op = "topup" => rq[t].amount \in Nat
      /\ rq[t].op = "checkout" => rq[t].total \in Int /\ rq[t].points \in Nat
  BY <1>0, RequestKinds DEF TopUpRequests, CheckoutRequests
<1>3. wallet' \in [Users -> Int] /\ booked' \in [Users -> Int] /\ lost' \in [Users -> Int]
  <2> USE DEF LedgerInv, Types, ServerTypes, At, MembershipCost
  <2>1. CASE addWalletBalance(t)
    BY <1>0, <1>2, <2>1 DEF addWalletBalance
  <2>2. CASE upgradeDecrement(t)
    BY <1>0, <1>2, <2>2 DEF upgradeDecrement
  <2>3. CASE placeOrderDecrement(t)
    BY <1>0, <1>2, <2>3 DEF placeOrderDecrement, hist
  <2>4. CASE placeOrderIncrement(t)
    BY <1>0, <1>2, <2>4 DEF placeOrderIncrement, hist
  <2>5. CASE placeOrderIncrementError(t)
    BY <1>0, <1>2, <2>5 DEF placeOrderIncrementError, db
  <2> QED
    BY <2>1, <2>2, <2>3, <2>4, <2>5 DEF MovesMoney
<1>4. ServerTypes'
  BY <1>3, MovesMoneyFrame DEF LedgerInv, Types, ServerTypes
<1>5. StockNotUnderstated' /\ SpentFits' /\ \A p \in Products : taken'[p] >= taken[p]
  BY MovesMoneyFrame DEF LedgerInv, Types, ServerTypes, StockNotUnderstated, SpentFits
<1> QED
  BY <1>1, <1>4, <1>5, ServedInv

(* An item is taken out of the stock: the quantity that was read may be    *)
(* too high by now, never too low.                                         *)
LEMMA TakesInv ==
    ASSUME LedgerInv, NEW t \in Tabs, placeOrderUpdateQuantity(t), UNCHANGED cvars
    PROVE  LedgerInv' /\ Served(t, Taking(rq[t]))
<1> DEFINE r == rq[t]
           n == Taking(r)
           p == r.p
<1>1. r \in Requests /\ Fits(r, taken) /\ r.op = "checkout" /\ r.pc = "take"
  BY DEF LedgerInv, Types, RequestTypes, RequestsFit, placeOrderUpdateQuantity, At
<1>2. r \in CheckoutRequests /\ p \in Products /\ r.q >= Stock0[p] - taken[p]
  BY <1>1, RequestKinds DEF Fits
<1>3. r.q \in Int /\ r.its \in [Products -> Nat] /\ r.its[p] \in Nat
  BY <1>2 DEF CheckoutRequests
<1>4. stock' = [stock EXCEPT ![p] = r.q - r.its[p]] /\ taken' = [taken EXCEPT ![p] = @ + r.its[p]]
      /\ UNCHANGED <<price, items, coupon, wallet, role, cards, addresses, orders, month, clears, booked, lost, spent>>
  BY DEF placeOrderUpdateQuantity
<1>5. n \in CheckoutRequests /\ n.pc = "quantity"
  BY <1>2, TakingKeeps
<1>6. n \in Requests /\ n.op = "checkout"
  BY <1>5 DEF Requests, CheckoutRequests
<1>7. rq' = [rq EXCEPT ![t] = n]
  BY TakeStep DEF LedgerInv, Types
<1>8. stock \in [Products -> Int] /\ taken \in [Products -> Nat] /\ Stock0 \in [Products -> Nat]
  BY CheckoutAssumption DEF CheckoutAssumption, LedgerInv, Types, ServerTypes
<1>9. Served(t, n)
  <2> HIDE DEF n
  <2> QED
    BY <1>1, <1>5, <1>6, <1>7 DEF Served, Fits
<1> HIDE DEF r, n, p
<1>10. stock' \in [Products -> Int] /\ taken' \in [Products -> Nat]
  BY <1>2, <1>3, <1>4, <1>8
<1>11. \A x \in Products : taken'[x] >= taken[x]
  BY <1>2, <1>3, <1>4, <1>8
<1>12. StockNotUnderstated'
  <2> SUFFICES ASSUME NEW x \in Products PROVE stock'[x] >= Stock0[x] - taken'[x]
    BY DEF StockNotUnderstated
  <2>1. CASE x = p
    BY <1>2, <1>3, <1>4, <1>8, <2>1
  <2>2. CASE x # p
    BY <1>4, <1>8, <2>2 DEF LedgerInv, StockNotUnderstated
  <2> QED
    BY <2>1, <2>2
<1>13. ServerTypes'
  BY <1>4, <1>10 DEF LedgerInv, Types, ServerTypes
<1>14. SpentFits'
  BY <1>4 DEF LedgerInv, SpentFits
<1>15. LedgerInv'
  BY <1>9, <1>11, <1>12, <1>13, <1>14, ServedInv
<1> QED
  BY <1>9, <1>15 DEF n, r

(* An order is stored, and the clearing of its coupon begins.              *)
LEMMA InsertsInv ==
    ASSUME LedgerInv, NEW t \in Tabs, placeOrderInsert(t), UNCHANGED cvars
    PROVE  /\ LedgerInv' /\ Served(t, Going(rq[t], "destroy")) /\ Order(t) \in OrderRecords
           /\ rq[t] \in CheckoutRequests
<1> DEFINE r == rq[t]
           n == Going(r, "destroy")
<1>0. U(t) \in Users
  BY UserOfTab
<1>1. r \in Requests /\ r.op = "checkout" /\ r.pc = "insert"
  BY DEF LedgerInv, Types, RequestTypes, placeOrderInsert, At
<1>2. r \in CheckoutRequests
  BY <1>1, RequestKinds
<1>3. n \in Requests /\ n.op = "checkout" /\ n.pc = "destroy"
  BY <1>2, <1>1, GoingCheckout
<1>4. rq' = [rq EXCEPT ![t] = n]
  BY GotoStep DEF placeOrderInsert
<1>5. Served(t, n)
  <2> HIDE DEF n
  <2> QED
    BY <1>1, <1>3, <1>4 DEF Served, Fits
<1>6. Order(t) \in OrderRecords
  BY <1>0, <1>2 DEF Order, OrderRecords, CheckoutRequests
<1>7. orders' \in Seq(OrderRecords)
  BY <1>6 DEF placeOrderInsert, LedgerInv, Types, ServerTypes
<1>8. spent' \in [Users -> BOOLEAN] /\ clears' \in SUBSET Users
  BY <1>0 DEF placeOrderInsert, LedgerInv, Types, ServerTypes
<1>9. ServerTypes'
  BY <1>7, <1>8 DEF placeOrderInsert, LedgerInv, Types, ServerTypes
<1>10. SpentFits'
  BY <1>0 DEF placeOrderInsert, LedgerInv, SpentFits, Types, ServerTypes
<1>11. StockNotUnderstated' /\ \A p \in Products : taken'[p] >= taken[p]
  BY DEF placeOrderInsert, LedgerInv, StockNotUnderstated, Types, ServerTypes
<1> QED
  BY <1>2, <1>5, <1>6, <1>9, <1>10, <1>11, ServedInv

(* The delivery status changes nothing else of an order.                   *)
LEMMA TogglesInv ==
    ASSUME LedgerInv, NEW t \in Tabs, toggleDeliveryStatus(t), UNCHANGED cvars
    PROVE  /\ LedgerInv' /\ Served(t, Answering(rq[t], "ok"))
           /\ Len(orders') = Len(orders) /\ DOMAIN orders' = DOMAIN orders
           /\ \A i \in DOMAIN orders : /\ orders'[i].user = orders[i].user /\ orders'[i].pay = orders[i].pay
                                       /\ orders'[i].bonus = orders[i].bonus /\ orders'[i].total = orders[i].total
<1> DEFINE r == rq[t]
<1>1. r \in Requests /\ r.op = "toggle"
  BY DEF LedgerInv, Types, RequestTypes, toggleDeliveryStatus, At
<1>2. r.i \in Nat /\ r.saw \in BOOLEAN
  BY <1>1, RequestKinds DEF ToggleRequests
<1>3. Served(t, Answering(r, "ok"))
  BY <1>1, AnswerServed DEF toggleDeliveryStatus, LedgerInv, Status
<1>4. orders \in Seq(OrderRecords) /\ orders' = [orders EXCEPT ![r.i].delivered = ~r.saw]
  BY DEF toggleDeliveryStatus, LedgerInv, Types, ServerTypes
<1> HIDE DEF r
<1>5. DOMAIN orders' = DOMAIN orders /\ Len(orders') = Len(orders)
  BY <1>4
<1>6. \A i \in DOMAIN orders : /\ orders'[i] \in OrderRecords
                               /\ orders'[i].user = orders[i].user /\ orders'[i].pay = orders[i].pay
                               /\ orders'[i].bonus = orders[i].bonus /\ orders'[i].total = orders[i].total
  <2> SUFFICES ASSUME NEW i \in DOMAIN orders
               PROVE  /\ orders'[i] \in OrderRecords
                      /\ orders'[i].user = orders[i].user /\ orders'[i].pay = orders[i].pay
                      /\ orders'[i].bonus = orders[i].bonus /\ orders'[i].total = orders[i].total
    OBVIOUS
  <2>1. orders[i] \in OrderRecords
    BY <1>4
  <2>2. CASE i # r.i
    BY <1>4, <2>1, <2>2
  <2>3. CASE i = r.i
    <3>1. orders'[i] = [orders[i] EXCEPT !.delivered = ~r.saw]
      BY <1>4, <2>3
    <3> QED
      BY <1>2, <2>1, <3>1 DEF OrderRecords
  <2> QED
    BY <2>2, <2>3
<1>7. orders' \in Seq(OrderRecords)
  <2>1. Len(orders) \in Nat /\ DOMAIN orders = 1..Len(orders)
    BY <1>4
  <2>2. orders' = [i \in DOMAIN orders |-> orders'[i]]
    BY <1>4
  <2>3. orders' \in [1..Len(orders) -> OrderRecords]
    BY <1>6, <2>1, <2>2
  <2> QED
    BY <2>1, <2>3
<1>8. ServerTypes'
  BY <1>7 DEF toggleDeliveryStatus, LedgerInv, Types, ServerTypes, hist
<1>9. StockNotUnderstated' /\ SpentFits' /\ \A p \in Products : taken'[p] >= taken[p]
  BY DEF toggleDeliveryStatus, LedgerInv, StockNotUnderstated, SpentFits, Types, ServerTypes, hist
<1> QED
  BY <1>3, <1>5, <1>6, <1>8, <1>9, ServedInv DEF r

-----------------------------------------------------------------------------
(* Pages.                                                                  *)

LEMMA EmptyViewType == EmptyView \in Views
<1>1. <<>> \in Ticks
  <2>1. <<>> \in [{} -> BOOLEAN]
    OBVIOUS
  <2> QED
    BY <2>1 DEF Ticks
<1>2. NoItems \in [Products -> Nat]
  BY DEF NoItems
<1> QED
  BY <1>1, <1>2 DEF EmptyView, Views, Money

(* What a page shows is of the kinds it has room for.                      *)
LEMMA LoadedType ==
    ASSUME ServerTypes, NEW t \in Tabs, NEW page \in Screens, NEW s \in Sessions
    PROVE  Loaded(t, page, s) \in Views
<1>0. U(t) \in Users /\ isDeluxe(t) \in BOOLEAN /\ MaxQty \in Nat
  BY UserOfTab, StorefrontAssumption DEF isDeluxe, StorefrontAssumption
<1>1. EmptyView \in Views
  BY EmptyViewType
<1>2. items[U(t)] \in [Products -> Nat] /\ price \in [Products -> Nat]
  <2>1. items[U(t)] \in [Products -> 0..MaxQty]
    BY <1>0 DEF ServerTypes
  <2> QED
    BY <1>0, <2>1 DEF ServerTypes
<1>3. CASE page = "basket"
  BY <1>1, <1>2, <1>3 DEF Loaded, loadBasket, retrieveBasket, Views
<1>4. CASE page = "address"
  <2>1. addresses[U(t)] \in BOOLEAN
    BY <1>0 DEF ServerTypes
  <2> QED
    BY <1>1, <1>4, <2>1 DEF Loaded, loadAddresses, getAddress, Views
<1>5. CASE page = "delivery"
  <2> DEFINE x == deliveryAmount(TRUE, isDeluxe(t))
  <2>1. x \in Nat
    BY <1>0, DeliveryNat
  <2>2. Loaded(t, page, s) = [EmptyView EXCEPT !.shown = x]
    BY <1>5 DEF Loaded, loadDeliveryMethods
  <2> HIDE DEF x
  <2> QED
    BY <1>1, <2>1, <2>2 DEF Views
<1>6. CASE page \in {"payShop", "payWallet", "payDeluxe"}
  <2>1. initTotal(t, page, s) \in Money
    <3>0. s.itemTotal \in Money /\ s.walletTotal \in Money /\ s.discount \in 0..100
      BY DEF Sessions
    <3>1. CASE page = "payWallet"
      BY <3>0, <3>1 DEF initTotal
    <3>2. CASE page = "payDeluxe"
      BY <1>0, <3>2 DEF initTotal, deluxeMembershipStatus, MembershipCost, Money
    <3>3. CASE page = "payShop"
      <4>1. CASE ~s.method \/ s.itemTotal = Unset
        BY <3>3, <4>1 DEF initTotal, Money, NaN, Unset
      <4>2. CASE s.method /\ s.itemTotal # Unset
        <5>1. s.itemTotal \in Nat
          BY <3>0, <4>2 DEF Money
        <5>2. DiscountAmount(s.itemTotal, s.discount) \in Nat /\ DiscountAmount(s.itemTotal, s.discount) <= s.itemTotal
          BY <3>0, <5>1, DiscountBound
        <5>3. deliveryAmount(TRUE, isDeluxe(t)) \in Nat
          BY <1>0, DeliveryNat
        <5>4. initTotal(t, page, s) = s.itemTotal + deliveryAmount(TRUE, isDeluxe(t)) - DiscountAmount(s.itemTotal, s.discount)
          BY <3>3, <4>2 DEF initTotal, promotionalDiscount
        <5> DEFINE x == s.itemTotal
                   y == DiscountAmount(s.itemTotal, s.discount)
                   z == deliveryAmount(TRUE, isDeluxe(t))
        <5>5. x \in Nat /\ y \in Nat /\ z \in Nat /\ y <= x /\ initTotal(t, page, s) = x + z - y
          BY <5>1, <5>2, <5>3, <5>4
        <5> HIDE DEF x, y, z
        <5>6. x + z - y \in Nat
          BY <5>5
        <5> QED
          BY <5>5, <5>6 DEF Money
      <4> QED
        BY <4>1, <4>2
    <3> QED
      BY <1>6, <3>1, <3>2, <3>3
  <2>2. wallet[U(t)] \in Int /\ cards[U(t)] \in BOOLEAN
    BY <1>0 DEF ServerTypes
  <2> DEFINE x == initTotal(t, page, s)
  <2>3. loadPayment(t, page, s) \in Views
    <3>1. x \in Money
      BY <2>1
    <3>2. loadPayment(t, page, s) = [EmptyView EXCEPT !.total = x, !.balance = wallet[U(t)], !.listed = cards[U(t)]]
      BY DEF loadPayment, getWalletBalance, getPaymentMethods
    <3> HIDE DEF x
    <3> QED
      BY <1>1, <2>2, <3>1, <3>2 DEF Views
  <2> QED
    BY <1>6, <2>3 DEF Loaded
<1>7. CASE page = "wallet"
  <2>1. wallet[U(t)] \in Int
    BY <1>0 DEF ServerTypes
  <2> QED
    BY <1>1, <1>7, <2>1 DEF Loaded, loadWallet, getWalletBalance, Views
<1>8. CASE page = "summary"
  <2> DEFINE it == ItemTotal(price, items[U(t)], isDeluxe(t))
             x == summaryTotal(t, s)
  <2>1. it \in Nat
    BY <1>0, <1>2, TotalsNat
  <2>2. x = it + deliveryAmount(s.method, isDeluxe(t)) - DiscountAmount(it, s.discount)
    BY DEF summaryTotal, retrieveBasket, promotionalDiscount
  <2>3. deliveryAmount(s.method, isDeluxe(t)) \in Nat /\ s.discount \in 0..100
    BY <1>0, DeliveryNat DEF Sessions
  <2>4. DiscountAmount(it, s.discount) \in Nat
    BY <2>1, <2>3, DiscountBound
  <2>5. x \in Int
    <3> HIDE DEF it, x
    <3> QED
      BY <2>1, <2>2, <2>3, <2>4
  <2>6. loadSummary(t, s) = [EmptyView EXCEPT !.its = items[U(t)], !.shown = x]
    BY DEF loadSummary, retrieveBasket
  <2> HIDE DEF x
  <2>7. loadSummary(t, s) \in Views
    BY <1>1, <1>2, <2>5, <2>6 DEF Views
  <2> QED
    BY <1>8, <2>7 DEF Loaded
<1>9. CASE page = "accounting" \/ page = "history"
  <2>1. orders \in Seq(OrderRecords) /\ Len(orders) \in Nat /\ \A i \in 1..Len(orders) : orders[i].delivered \in BOOLEAN
    <3>1. orders \in Seq(OrderRecords) /\ Len(orders) \in Nat /\ \A i \in 1..Len(orders) : orders[i] \in OrderRecords
      BY DEF ServerTypes
    <3> QED
      BY <3>1 DEF OrderRecords
  <2>2. [i \in 1..Len(orders) |-> orders[i].delivered] \in Ticks
    <3>1. [i \in 1..Len(orders) |-> orders[i].delivered] \in [1..Len(orders) -> BOOLEAN] /\ 1..Len(orders) \in SUBSET Nat
      BY <2>1
    <3> QED
      BY <3>1 DEF Ticks
  <2>3. [i \in orderHistory(t) |-> orders[i].delivered] \in Ticks
    <3> DEFINE D == orderHistory(t)
    <3>1. D \in SUBSET (1..Len(orders))
      BY DEF orderHistory
    <3> HIDE DEF D
    <3>2. [i \in D |-> orders[i].delivered] \in [D -> BOOLEAN] /\ D \in SUBSET Nat
      BY <2>1, <3>1
    <3>3. [i \in D |-> orders[i].delivered] \in Ticks
      BY <3>2 DEF Ticks
    <3> QED
      BY <3>3 DEF D
  <2>4. \A d \in Ticks : [EmptyView EXCEPT !.delivered = d] \in Views
    BY <1>1 DEF Views
  <2> QED
    BY <1>9, <2>2, <2>3, <2>4 DEF Loaded, loadOrders, allOrders, loadOrderHistory
<1>10. CASE page \notin {"basket", "address", "delivery", "payShop", "payWallet", "payDeluxe", "wallet", "summary",
                         "accounting", "history"}
  BY <1>1, <1>10 DEF Loaded
<1> QED
  BY <1>3, <1>4, <1>5, <1>6, <1>7, <1>8, <1>9, <1>10

(* What a tab keeps of its session when it shows a page.                   *)
SameChoice(n, s) ==
    n.discount = s.discount /\ n.campaign = s.campaign /\ n.method = s.method /\ n.pay = s.pay

LEMMA ShowType ==
    ASSUME ServerTypes, TabTypes, NEW t \in Tabs, NEW page \in Screens, NEW s \in Sessions, Show(t, page, s)
    PROVE  /\ pg' \in [Tabs -> Screens] /\ ss' \in [Tabs -> Sessions] /\ view' \in [Tabs -> Views]
           /\ pg'[t] = page /\ SameChoice(ss'[t], s) /\ ss'[t] = Stored(t, page, s)
           /\ view'[t] = Loaded(t, page, Stored(t, page, s))
           /\ \A x \in Tabs \ {t} : pg'[x] = pg[x] /\ ss'[x] = ss[x] /\ view'[x] = view[x]
<1> DEFINE n == Stored(t, page, s)
<1>1. n \in Sessions /\ SameChoice(n, s)
  <2>1. CASE page # "basket"
    BY <2>1 DEF Stored, SameChoice
  <2>2. CASE page = "basket"
    <3> DEFINE x == ItemTotal(price, retrieveBasket(t), isDeluxe(t))
    <3>1. x \in Nat
      <4>1. U(t) \in Users /\ MaxQty \in Nat /\ isDeluxe(t) \in BOOLEAN
        BY UserOfTab, StorefrontAssumption DEF StorefrontAssumption, isDeluxe
      <4>2. items[U(t)] \in [Products -> 0..MaxQty] /\ price \in [Products -> Nat]
        BY <4>1 DEF ServerTypes
      <4>3. items[U(t)] \in [Products -> Nat]
        BY <4>1, <4>2
      <4> QED
        BY <4>1, <4>2, <4>3, TotalsNat DEF retrieveBasket
    <3>2. n = [s EXCEPT !.itemTotal = x]
      BY <2>2 DEF Stored
    <3> HIDE DEF x, n
    <3> QED
      BY <3>1, <3>2 DEF Sessions, Money, SameChoice
  <2> QED
    BY <2>1, <2>2
<1>2. Loaded(t, page, n) \in Views
  <2> HIDE DEF n
  <2> QED
    BY <1>1, LoadedType
<1> QED
  BY <1>1, <1>2 DEF Show, TabTypes

Frame == UNCHANGED <<db, month, clears, hist>>

(* A page sends a request.                                                 *)
Sent(t, n) ==
    /\ rq[t].pc = "idle" /\ rq' = [rq EXCEPT ![t] = n]
    /\ n \in Requests /\ Fits(n, taken)
    /\ n.pc \in {"check", "find", "del", "card", "user", "write", "update"} /\ (n.op = "checkout" => n.pc = "find")

Sends(t) ==
    \/ \E p \in Products : addToBasket(t, p) \/ delete(t, p) \/ \E d \in {-1, 1} : addToQuantity(t, p, d)
    \/ \E c \in {"month1", "bad"} : applyCoupon(t, c)
    \/ \E m \in {"wallet", "card"} : choosePaymentDeluxe(t, m)
    \/ choosePaymentWallet(t)
    \/ saveAddress(t) \/ deleteAddress(t) \/ saveCard(t) \/ deleteCard(t)
    \/ placeOrder(t)
    \/ \E i \in 1..Len(orders) : changeDeliveryStatus(t, i)

LEMMA SendsFrame ==
    ASSUME Types, NEW t \in Tabs, Sends(t)
    PROVE  /\ Frame /\ UNCHANGED <<tok, pg, view>>
           /\ clicks[t] > 0 /\ clicks' = [clicks EXCEPT ![t] = @ - 1]
           /\ ss' = ss \/ ss' = [ss EXCEPT ![t].itemTotal = Unset] \/ ss' = [ss EXCEPT ![t].campaign = FALSE]
           /\ doubt' = doubt \/ doubt' = [doubt EXCEPT ![U(t)] = @ \/ ss[t].campaign \/ U(t) \in clears]
  BY DEF Sends, addToBasket, delete, addToQuantity, applyCoupon, choosePaymentDeluxe, choosePaymentWallet,
         saveAddress, deleteAddress, saveCard, deleteCard, placeOrder, changeDeliveryStatus, Frame, Click

LEMMA SendsTabTypes ==
    ASSUME Types, NEW t \in Tabs, Sends(t)
    PROVE  TabTypes'
<1>1. U(t) \in Users /\ ss[t] \in Sessions /\ clicks[t] \in Nat
  BY UserOfTab DEF Types, TabTypes
<1>2. clicks' \in [Tabs -> Nat]
  BY <1>1, SendsFrame DEF Types, TabTypes
<1>3. ss' \in [Tabs -> Sessions]
  <2>1. [ss[t] EXCEPT !.itemTotal = Unset] \in Sessions /\ [ss[t] EXCEPT !.campaign = FALSE] \in Sessions
    BY <1>1 DEF Sessions, Money
  <2>2. \/ ss' = ss \/ ss' = [ss EXCEPT ![t] = [ss[t] EXCEPT !.itemTotal = Unset]]
        \/ ss' = [ss EXCEPT ![t] = [ss[t] EXCEPT !.campaign = FALSE]]
    BY SendsFrame
  <2>3. ss \in [Tabs -> Sessions]
    BY DEF Types, TabTypes
  <2>4. ASSUME NEW x \in Sessions PROVE [ss EXCEPT ![t] = x] \in [Tabs -> Sessions]
    BY <2>3
  <2> QED
    BY <2>1, <2>2, <2>3, <2>4
<1>4. doubt' \in [Users -> BOOLEAN]
  <2>1. (ss[t].campaign \/ U(t) \in clears) \in BOOLEAN
    OBVIOUS
  <2> QED
    BY <1>1, <2>1, SendsFrame DEF Types, TabTypes
<1> QED
  BY <1>2, <1>3, <1>4, SendsFrame DEF Types, TabTypes

LEMMA SendsSent ==
    ASSUME Types, NEW t \in Tabs, Sends(t)
    PROVE  \E n : Sent(t, n)
<1>0. /\ U(t) \in Users /\ isDeluxe(t) \in BOOLEAN /\ MaxQty \in Nat
      /\ \A p \in Products : items[U(t)][p] \in 0..MaxQty
      /\ ss[t] \in Sessions /\ view[t] \in Views /\ price \in [Products -> Nat]
  <2>1. U(t) \in Users /\ isDeluxe(t) \in BOOLEAN /\ MaxQty \in Nat
    BY UserOfTab, StorefrontAssumption DEF isDeluxe, StorefrontAssumption
  <2> QED
    BY <2>1 DEF Types, ServerTypes, TabTypes
<1>1. ASSUME NEW n \in Requests, Send(t, n), Fits(n, taken), (n.op = "checkout" => n.pc = "find"),
             n.pc \in {"check", "find", "del", "card", "user", "write", "update"}
      PROVE  \E m : Sent(t, m)
  BY <1>1 DEF Send, Sent
<1>2. CASE \E p \in Products : addToBasket(t, p) \/ \E d \in {-1, 1} : addToQuantity(t, p, d)
  <2>1. PICK p \in Products : addToBasket(t, p) \/ \E d \in {-1, 1} : addToQuantity(t, p, d)
    BY <1>2
  <2>2. PICK n : /\ Send(t, n) /\ n.op \in {"addItem", "putItem"} /\ n.pc \in {"check", "find"}
                 /\ n \in ItemRequests
    <3> DEFINE q == items[U(t)][p]
    <3>1. ASSUME NEW o \in {"addItem", "putItem"}, NEW l \in {"check", "find"}, NEW x \in 0..MaxQty,
                 Send(t, [op |-> o, pc |-> l, status |-> "pending", p |-> p, q |-> x, deluxe |-> isDeluxe(t)])
          PROVE  \E n : /\ Send(t, n) /\ n.op \in {"addItem", "putItem"} /\ n.pc \in {"check", "find"}
                        /\ n \in ItemRequests
      <4> DEFINE n == [op |-> o, pc |-> l, status |-> "pending", p |-> p, q |-> x, deluxe |-> isDeluxe(t)]
      <4>1. n \in ItemRequests /\ n.op = o /\ n.pc = l
        BY <1>0, <3>1 DEF ItemRequests, Status
      <4> QED
        BY <3>1, <4>1
    <3>2. CASE addToBasket(t, p)
      <4>1. q < MaxQty /\ q \in 0..MaxQty
        BY <1>0, <3>2 DEF addToBasket
      <4>2. CASE q = 0
        <5>1. 1 \in 0..MaxQty /\ Send(t, [op |-> "addItem", pc |-> "check", status |-> "pending", p |-> p, q |-> 1, deluxe |-> isDeluxe(t)])
          BY <1>0, <3>2, <4>1, <4>2 DEF addToBasket, BasketService
        <5> QED
          BY <5>1, <3>1
      <4>3. CASE q # 0
        <5>1. q + 1 \in 0..MaxQty /\ Send(t, [op |-> "putItem", pc |-> "find", status |-> "pending", p |-> p, q |-> q + 1, deluxe |-> isDeluxe(t)])
          BY <1>0, <3>2, <4>1, <4>3 DEF addToBasket, BasketService
        <5> QED
          BY <5>1, <3>1
      <4> QED
        BY <4>2, <4>3
    <3>3. ASSUME NEW d \in {-1, 1}, addToQuantity(t, p, d) 
          PROVE  \E n : /\ Send(t, n) /\ n.op \in {"addItem", "putItem"} /\ n.pc \in {"check", "find"}
                        /\ n \in ItemRequests
      <4> DEFINE x == IF q + d < 1 THEN 1 ELSE q + d
      <4>1. q > 0 /\ q + d <= MaxQty /\ q \in 0..MaxQty
        BY <1>0, <3>3 DEF addToQuantity
      <4>2. x \in 0..MaxQty
        BY <1>0, <3>3, <4>1
      <4>3. Send(t, [op |-> "putItem", pc |-> "find", status |-> "pending", p |-> p, q |-> x, deluxe |-> isDeluxe(t)])
        BY <3>3 DEF addToQuantity, BasketService
      <4> HIDE DEF x
      <4> QED
        BY <4>2, <4>3, <3>1
    <3> QED
      BY <2>1, <3>2, <3>3
  <2>3. n \in Requests /\ Fits(n, taken)
    BY <2>2 DEF Requests, Fits
  <2> QED
    BY <2>2, <2>3, <1>1
<1>3. CASE \E p \in Products : delete(t, p)
  <2>1. PICK p \in Products : delete(t, p)
    BY <1>3
  <2> DEFINE n == [op |-> "delItem", pc |-> "del", status |-> "pending", p |-> p]
  <2>2. n \in DelRequests /\ Fits(n, taken) /\ Send(t, n)
    BY <2>1 DEF DelRequests, Fits, delete, BasketService, Status
  <2>3. n \in Requests /\ n.op = "delItem" /\ n.pc = "del"
    BY <2>2 DEF Requests
  <2> HIDE DEF n
  <2> QED
    BY <2>2, <2>3, <1>1
<1>4. CASE \E c \in {"month1", "bad"} : applyCoupon(t, c)
  <2>1. PICK c \in {"month1", "bad"} : applyCoupon(t, c)
    BY <1>4
  <2> DEFINE n == [op |-> "coupon", pc |-> "find", status |-> "pending", c |-> c, discount |-> 0]
  <2>2. n \in CouponRequests /\ Fits(n, taken) /\ Send(t, n)
    BY <2>1 DEF CouponRequests, Fits, applyCoupon, BasketService, Status
  <2>3. n \in Requests /\ n.op = "coupon" /\ n.pc = "find"
    BY <2>2 DEF Requests
  <2> HIDE DEF n
  <2> QED
    BY <2>2, <2>3, <1>1
<1>5. CASE \E m \in {"wallet", "card"} : choosePaymentDeluxe(t, m)
  <2>1. PICK m \in {"wallet", "card"} : choosePaymentDeluxe(t, m)
    BY <1>5
  <2> DEFINE n == [op |-> "upgrade", pc |-> "user", status |-> "pending", mode |-> m, card |-> m = "card", seen |-> 0]
  <2>2. n \in UpgradeRequests /\ Fits(n, taken) /\ Send(t, n)
    BY <2>1 DEF UpgradeRequests, Fits, choosePaymentDeluxe, UserService, Status
  <2>3. n \in Requests /\ n.op = "upgrade" /\ n.pc = "user"
    BY <2>2 DEF Requests
  <2> HIDE DEF n
  <2> QED
    BY <2>2, <2>3, <1>1
<1>6. CASE choosePaymentWallet(t)
  <2> DEFINE n == [op |-> "topup", pc |-> "card", status |-> "pending", amount |-> view[t].total, card |-> TRUE]
  <2>1. view[t].total \in Nat
    BY <1>0, <1>6 DEF choosePaymentWallet, Views, Money, NaN, Unset
  <2>2. n \in TopUpRequests /\ Fits(n, taken) /\ Send(t, n)
    BY <1>6, <2>1 DEF TopUpRequests, Fits, choosePaymentWallet, WalletService, Status
  <2>3. n \in Requests /\ n.op = "topup" /\ n.pc = "card"
    BY <2>2 DEF Requests
  <2> HIDE DEF n
  <2> QED
    BY <2>2, <2>3, <1>1
<1>7. CASE saveAddress(t) \/ deleteAddress(t) \/ saveCard(t) \/ deleteCard(t)
  <2>1. PICK n : /\ n \in RecordRequests /\ n.op \in {"card", "address"} /\ n.pc = "write" /\ Send(t, n)
    <3>1. ASSUME NEW o \in {"card", "address"}, NEW b \in BOOLEAN,
                 Send(t, [op |-> o, pc |-> "write", status |-> "pending", keep |-> b])
          PROVE  \E n : /\ n \in RecordRequests /\ n.op \in {"card", "address"} /\ n.pc = "write" /\ Send(t, n)
      <4> DEFINE n == [op |-> o, pc |-> "write", status |-> "pending", keep |-> b]
      <4>1. n \in RecordRequests /\ n.op = o /\ n.pc = "write"
        BY DEF RecordRequests, Status
      <4> QED
        BY <3>1, <4>1
    <3>2. PICK o \in {"card", "address"}, b \in BOOLEAN : Send(t, [op |-> o, pc |-> "write", status |-> "pending", keep |-> b])
      BY <1>7 DEF saveAddress, deleteAddress, saveCard, deleteCard, AddressService, PaymentService
    <3> QED
      BY <3>1, <3>2
  <2>2. n \in Requests /\ Fits(n, taken)
    BY <2>1 DEF Requests, Fits
  <2> QED
    BY <2>1, <2>2, <1>1
<1>8. CASE placeOrder(t)
  <2> DEFINE n == [op |-> "checkout", pc |-> "find", status |-> "pending",
                   deluxe |-> isDeluxe(t), campaign |-> ss[t].campaign,
                   method |-> ss[t].method, address |-> ss[t].address, pay |-> ss[t].pay,
                   its |-> NoItems, prices |-> price, points |-> 0, c |-> "none", todo |-> {}, p |-> "none", q |-> 0,
                   total |-> 0, seen |-> 0, view |-> view[t], promised |-> ss[t].discount,
                   settled |-> U(t) \notin clears]
  <2>1. Send(t, n)
    BY <1>8 DEF placeOrder, BasketService
  <2>2. NoItems \in [Products -> Nat]
    BY DEF NoItems
  <2>3. n \in CheckoutRequests
    BY <1>0, <2>2 DEF CheckoutRequests, Status, Sessions
  <2>4. n \in Requests /\ n.op = "checkout" /\ n.pc = "find"
    BY <2>3 DEF Requests
  <2> HIDE DEF n
  <2>5. Fits(n, taken)
    BY <2>4 DEF Fits
  <2> QED
    BY <2>1, <2>4, <2>5, <1>1
<1>9. CASE \E i \in 1..Len(orders) : changeDeliveryStatus(t, i)
  <2>1. PICK i \in 1..Len(orders) : changeDeliveryStatus(t, i)
    BY <1>9
  <2> DEFINE n == [op |-> "toggle", pc |-> "update", status |-> "pending", i |-> i, saw |-> view[t].delivered[i]]
  <2>2. view[t].delivered[i] \in BOOLEAN /\ i \in Nat
    <3>1. view[t].delivered \in Ticks /\ i \in DOMAIN view[t].delivered
      BY <1>0, <2>1 DEF Views, changeDeliveryStatus
    <3> QED
      BY <3>1 DEF Ticks
  <2>3. n \in ToggleRequests /\ Fits(n, taken) /\ Send(t, n)
    BY <2>1, <2>2 DEF ToggleRequests, Fits, changeDeliveryStatus, OrderHistoryService, Status
  <2>4. n \in Requests /\ n.op = "toggle" /\ n.pc = "update"
    BY <2>3 DEF Requests
  <2> HIDE DEF n
  <2> QED
    BY <2>3, <2>4, <1>1
<1> QED
  BY <1>2, <1>3, <1>4, <1>5, <1>6, <1>7, <1>8, <1>9 DEF Sends

(* A page leads to another one.                                            *)
Shows(t) ==
    \/ \E page \in Pages : Visit(t, page)
    \/ checkout(t) \/ chooseAddress(t) \/ chooseDeliveryMethod(t)
    \/ \E b \in BOOLEAN : applyCampaign(t, b)
    \/ \E m \in {"wallet", "card"} : choosePaymentShop(t, m)
    \/ continue(t) \/ upgradeToDeluxe(t)

SameCoupon(n, s) == n.discount = s.discount /\ n.campaign = s.campaign

LEMMA ShowsStep ==
    ASSUME Types, NEW t \in Tabs, Shows(t)
    PROVE  /\ UNCHANGED <<svars, tok>> /\ Click(t)
           /\ \E page \in Screens \ {"closed"}, s \in Sessions :
                 /\ Show(t, page, s)
                 /\ (SameCoupon(s, ss[t]) /\ doubt' = doubt) \/ \E b \in BOOLEAN : applyCampaign(t, b)
<1>1. ss[t] \in Sessions /\ ss[t].discount \in 0..100
  BY DEF Types, TabTypes, Sessions
<1>2. ASSUME NEW page \in Screens \ {"closed"}, NEW s \in Sessions, Show(t, page, s), SameCoupon(s, ss[t]), doubt' = doubt
      PROVE  \E x \in Screens \ {"closed"}, y \in Sessions :
                 /\ Show(t, x, y)
                 /\ (SameCoupon(y, ss[t]) /\ doubt' = doubt) \/ \E b \in BOOLEAN : applyCampaign(t, b)
  BY <1>2
<1>3. CASE (\E page \in Pages : Visit(t, page)) \/ checkout(t) \/ upgradeToDeluxe(t)
  <2>1. PICK page \in Pages \cup {"address", "payDeluxe"} : Show(t, page, ss[t])
    BY <1>3 DEF Visit, checkout, upgradeToDeluxe
  <2>2. page \in Screens \ {"closed"} /\ SameCoupon(ss[t], ss[t])
    BY DEF Screens, Pages, SameCoupon
  <2>3. UNCHANGED <<svars, tok, doubt>> /\ Click(t)
    BY <1>3 DEF Visit, checkout, upgradeToDeluxe
  <2> QED
    BY <1>1, <1>2, <2>1, <2>2, <2>3
<1>4. CASE chooseAddress(t)
  <2> DEFINE s == [ss[t] EXCEPT !.address = TRUE]
  <2>1. s \in Sessions /\ SameCoupon(s, ss[t])
    BY <1>1 DEF Sessions, SameCoupon
  <2>2. Show(t, "delivery", s) /\ UNCHANGED <<svars, tok, doubt>> /\ Click(t)
    BY <1>4 DEF chooseAddress
  <2> HIDE DEF s
  <2> QED
    BY <2>1, <2>2, <1>2 DEF Screens
<1>5. CASE chooseDeliveryMethod(t)
  <2> DEFINE s == [ss[t] EXCEPT !.method = TRUE]
  <2>1. s \in Sessions /\ SameCoupon(s, ss[t])
    BY <1>1 DEF Sessions, SameCoupon
  <2>2. Show(t, "payShop", s) /\ UNCHANGED <<svars, tok, doubt>> /\ Click(t)
    BY <1>5 DEF chooseDeliveryMethod
  <2> HIDE DEF s
  <2> QED
    BY <2>1, <2>2, <1>2 DEF Screens, Pages
<1>6. CASE \E m \in {"wallet", "card"} : choosePaymentShop(t, m)
  <2>0. PICK m \in {"wallet", "card"} : choosePaymentShop(t, m)
    BY <1>6
  <2> DEFINE s == [ss[t] EXCEPT !.itemTotal = Unset, !.pay = m]
  <2>1. s \in Sessions /\ SameCoupon(s, ss[t])
    BY <1>1 DEF Sessions, SameCoupon, Pays, Money
  <2>2. Show(t, "summary", s) /\ UNCHANGED <<svars, tok, doubt>> /\ Click(t)
    BY <2>0 DEF choosePaymentShop
  <2> HIDE DEF s
  <2> QED
    BY <2>1, <2>2, <1>2 DEF Screens, Pages
<1>7. CASE continue(t)
  <2> DEFINE s == [ss[t] EXCEPT !.walletTotal = TopUp]
  <2>1. s \in Sessions /\ SameCoupon(s, ss[t])
    BY <1>1, StorefrontAssumption DEF Sessions, SameCoupon, Money, StorefrontAssumption
  <2>2. Show(t, "payWallet", s) /\ UNCHANGED <<svars, tok, doubt>> /\ Click(t)
    BY <1>7 DEF continue
  <2> HIDE DEF s
  <2> QED
    BY <2>1, <2>2, <1>2 DEF Screens
<1>8. CASE \E b \in BOOLEAN : applyCampaign(t, b)
  <2>0. PICK b \in BOOLEAN : applyCampaign(t, b)
    BY <1>8
  <2> DEFINE d == IF b THEN CampaignDiscount ELSE ss[t].discount
             s == [ss[t] EXCEPT !.campaign = b, !.discount = d]
  <2>1. d \in 0..100
    BY <1>1, CheckoutAssumption DEF CheckoutAssumption
  <2>2. s \in Sessions
    <3> HIDE DEF d
    <3> QED
      BY <1>1, <2>1 DEF Sessions
  <2>3. Show(t, "payShop", s) /\ UNCHANGED <<svars, tok>> /\ Click(t)
    BY <2>0 DEF applyCampaign
  <2> HIDE DEF s
  <2> QED
    BY <2>0, <2>2, <2>3 DEF Screens, Pages
<1> QED
  BY <1>3, <1>4, <1>5, <1>6, <1>7, <1>8 DEF Shows

LEMMA ShowsTabTypes ==
    ASSUME Types, NEW t \in Tabs, Shows(t)
    PROVE  TabTypes'
<1>1. PICK page \in Screens \ {"closed"}, s \in Sessions :
         /\ Show(t, page, s)
         /\ (SameCoupon(s, ss[t]) /\ doubt' = doubt) \/ \E b \in BOOLEAN : applyCampaign(t, b)
  BY ShowsStep
<1>2. pg' \in [Tabs -> Screens] /\ ss' \in [Tabs -> Sessions] /\ view' \in [Tabs -> Views]
  BY <1>1, ShowType DEF Types
<1>3. clicks' \in [Tabs -> Nat] /\ tok' = tok
  BY ShowsStep DEF Types, TabTypes, Click
<1>4. doubt' \in [Users -> BOOLEAN]
  <2>1. U(t) \in Users /\ doubt \in [Users -> BOOLEAN]
    BY UserOfTab DEF Types, TabTypes
  <2>2. CASE doubt' = doubt
    BY <2>1, <2>2
  <2>3. CASE \E b \in BOOLEAN : applyCampaign(t, b)
    BY <2>1, <2>3 DEF applyCampaign
  <2> QED
    BY <1>1, <2>2, <2>3
<1> QED
  BY <1>2, <1>3, <1>4 DEF Types, TabTypes

(* An answer is handled.                                                   *)
LEMMA AnswersStep ==
    ASSUME Types, NEW t \in Tabs, OnAnswer(t)
    PROVE  /\ Frame /\ clicks' = clicks
           /\ rq[t].pc = "answered" /\ rq' = [rq EXCEPT ![t] = NoRequest]
  BY DEF OnAnswer, onItemChanged, onCoupon, onTopUp, onUpgrade, onOrder, onRecord, onToggle, Receive, NoRequest, Frame,
         cvars

(* The page after an answer, and what is in the session of its tab.        *)
LEMMA AnswersShow ==
    ASSUME Types, NEW t \in Tabs, OnAnswer(t), ~onCoupon(t)
    PROVE  \/ UNCHANGED <<pg, ss, view>>
           \/ \E page \in Screens \ {"closed", "summary"}, s \in Sessions :
                 /\ Show(t, page, s)
                 /\ SameCoupon(s, ss[t]) \/ (onOrder(t) /\ rq[t].status = "ok" /\ SameCoupon(s, EmptySession))
<1>1. ss[t] \in Sessions
  BY DEF Types, TabTypes
<1>2. CASE onItemChanged(t) \/ onToggle(t)
  <2>1. UNCHANGED <<pg, ss, view>> \/ \E page \in {"basket", "accounting"} : Show(t, page, ss[t])
    BY <1>2 DEF onItemChanged, onToggle
  <2> QED
    BY <1>1, <2>1 DEF Screens, Pages, SameCoupon
<1>3. CASE onTopUp(t)
  <2> DEFINE s == [ss[t] EXCEPT !.walletTotal = Unset]
  <2>1. s \in Sessions /\ SameCoupon(s, ss[t])
    BY <1>1 DEF Sessions, SameCoupon, Money
  <2>2. UNCHANGED <<pg, ss, view>> \/ Show(t, "wallet", s)
    BY <1>3 DEF onTopUp
  <2> HIDE DEF s
  <2> QED
    BY <2>1, <2>2 DEF Screens, Pages
<1>4. CASE onUpgrade(t)
  <2>1. UNCHANGED <<pg, ss, view>> \/ Show(t, "deluxe", ss[t])
    BY <1>4 DEF onUpgrade
  <2> QED
    BY <1>1, <2>1 DEF Screens, Pages, SameCoupon
<1>5. CASE onOrder(t)
  <2> DEFINE s == [EmptySession EXCEPT !.itemTotal = ss[t].itemTotal, !.walletTotal = ss[t].walletTotal]
  <2>1. s \in Sessions /\ SameCoupon(s, EmptySession)
    <3>1. EmptySession \in Sessions
      BY DEF EmptySession, Sessions, Money, Pays
    <3> QED
      BY <1>1, <3>1 DEF Sessions, SameCoupon
  <2>2. UNCHANGED <<pg, ss, view>> \/ (Show(t, "completion", s) /\ rq[t].status = "ok")
    BY <1>5 DEF onOrder
  <2>3. "completion" \in Screens \ {"closed", "summary"}
    BY DEF Screens
  <2> HIDE DEF s
  <2> QED
    BY <1>5, <2>1, <2>2, <2>3
<1>6. CASE onRecord(t)
  BY <1>6 DEF onRecord, cvars
<1> QED
  BY <1>2, <1>3, <1>4, <1>5, <1>6 DEF OnAnswer

LEMMA AnswersTabTypes ==
    ASSUME Types, NEW t \in Tabs, OnAnswer(t)
    PROVE  TabTypes'
<1>0. U(t) \in Users /\ ss[t] \in Sessions /\ rq[t] \in Requests /\ view[t] \in Views
  BY UserOfTab DEF Types, TabTypes, RequestTypes
<1>1. tok' \in [Users -> {"customer", "deluxe"}] /\ doubt' \in [Users -> BOOLEAN]
  <2>1. tok' = tok \/ tok' = [tok EXCEPT ![U(t)] = "deluxe"]
    BY DEF OnAnswer, onItemChanged, onCoupon, onTopUp, onUpgrade, onOrder, onRecord, onToggle, cvars
  <2>2. doubt' = doubt \/ \E b \in BOOLEAN : doubt' = [doubt EXCEPT ![U(t)] = b]
    <3>1. doubt[U(t)] \in BOOLEAN
      BY <1>0 DEF Types, TabTypes
    <3>2. CASE onCoupon(t)
      <4> DEFINE b == doubt[U(t)] \/ pg[t] # "payShop" \/ (rq[t].status # "ok" /\ ss[t].discount > 0)
      <4>1. b \in BOOLEAN /\ doubt' = [doubt EXCEPT ![U(t)] = b]
        BY <3>2 DEF onCoupon
      <4> QED
        BY <4>1
    <3>3. CASE onOrder(t)
      <4> DEFINE b == doubt[U(t)] \/ ss[t].discount # rq[t].promised
      <4>1. b \in BOOLEAN /\ doubt' = [doubt EXCEPT ![U(t)] = b]
        BY <3>3 DEF onOrder
      <4> QED
        BY <4>1
    <3> QED
      BY <3>2, <3>3 DEF OnAnswer, onItemChanged, onTopUp, onUpgrade, onRecord, onToggle, cvars
  <2> QED
    BY <1>0, <2>1, <2>2 DEF Types, TabTypes
<1>2. pg' \in [Tabs -> Screens] /\ ss' \in [Tabs -> Sessions] /\ view' \in [Tabs -> Views]
  <2>1. CASE onCoupon(t)
    <3>1. rq[t] \in CouponRequests
      BY <1>0, <2>1, RequestKinds DEF onCoupon, Receive
    <3>2. CASE UNCHANGED <<ss, view>>
      BY <2>1, <3>2 DEF onCoupon, Types, TabTypes
    <3>3. CASE rq[t].status = "ok"
      <4> DEFINE s == [ss[t] EXCEPT !.discount = rq[t].discount]
                 x == initTotal(t, "payShop", s)
                 v == [view[t] EXCEPT !.total = IF pg[t] = "payShop" THEN x ELSE @]
      <4>1. s \in Sessions
        BY <1>0, <3>1 DEF Sessions, CouponRequests
      <4>2. ss' = [ss EXCEPT ![t] = s]
        BY <2>1, <3>3 DEF onCoupon
      <4>3. ss'[t] = s
        BY <4>2 DEF Types, TabTypes
      <4>4. view' = [view EXCEPT ![t] = v]
        BY <2>1, <3>3, <4>3 DEF onCoupon
      <4> HIDE DEF s
      <4>5. x \in Money
        <5>1. Loaded(t, "payShop", s) \in Views
          BY <4>1, LoadedType DEF Types, Screens, Pages
        <5>2. Loaded(t, "payShop", s).total = x
          BY DEF Loaded, loadPayment, EmptyView
        <5> QED
          BY <5>1, <5>2 DEF Views
      <4> HIDE DEF x
      <4>6. v \in Views
        BY <1>0, <4>5 DEF Views
      <4> HIDE DEF v
      <4> QED
        BY <2>1, <4>1, <4>2, <4>4, <4>6 DEF onCoupon, Types, TabTypes
    <3> QED
      BY <2>1, <3>2, <3>3 DEF onCoupon
  <2>2. CASE ~onCoupon(t)
    <3>1. CASE UNCHANGED <<pg, ss, view>>
      BY <3>1 DEF Types, TabTypes
    <3>2. CASE \E page \in Screens, s \in Sessions : Show(t, page, s)
      BY <3>2, ShowType DEF Types
    <3> QED
      BY <2>2, <3>1, <3>2, AnswersShow
  <2> QED
    BY <2>1, <2>2
<1> QED
  BY <1>1, <1>2, AnswersStep DEF Types, TabTypes

-----------------------------------------------------------------------------
(* The ledgers hold: every step keeps the invariant.                       *)

LEMMA ServeCases ==
    ASSUME NEW t \in Tabs, Serve(t)
    PROVE  \/ Reads(t) \/ WritesItem(t) \/ WritesUser(t) \/ MovesMoney(t)
           \/ placeOrderUpdateQuantity(t) \/ placeOrderInsert(t) \/ toggleDeliveryStatus(t)
  BY DEF Serve, Reads, WritesItem, WritesUser, MovesMoney

LEMMA UserActCases ==
    ASSUME NEW t \in Tabs, UserAct(t)
    PROVE  Sends(t) \/ Shows(t)
  BY DEF UserAct, Sends, Shows

(* What a step of a tab does to its request.                               *)
LEMMA TabStep ==
    ASSUME Types, NEW t \in Tabs, OnAnswer(t) \/ UserAct(t)
    PROVE  /\ Frame /\ TabTypes'
           /\ \/ rq' = rq
              \/ \E n : Sent(t, n)
              \/ rq[t].pc = "answered" /\ rq' = [rq EXCEPT ![t] = NoRequest]
<1>1. CASE OnAnswer(t)
  BY <1>1, AnswersStep, AnswersTabTypes
<1>2. CASE Sends(t)
  BY <1>2, SendsFrame, SendsTabTypes, SendsSent
<1>3. CASE Shows(t)
  <2>1. UNCHANGED svars
    BY <1>3, ShowsStep
  <2> QED
    BY <1>3, <2>1, ShowsTabTypes DEF svars, Frame
<1> QED
  BY <1>1, <1>2, <1>3, UserActCases

LEMMA TabStepInv ==
    ASSUME LedgerInv, NEW t \in Tabs, OnAnswer(t) \/ UserAct(t)
    PROVE  LedgerInv'
<1>0. Types
  BY DEF LedgerInv
<1>1. Frame /\ TabTypes'
  BY <1>0, TabStep
<1>2. ServerTypes' /\ StockNotUnderstated' /\ SpentFits' /\ taken' = taken
  <2> USE <1>1 DEF LedgerInv, Frame, db, hist
  <2>1. ServerTypes'
    BY <1>0 DEF Types, ServerTypes
  <2>2. StockNotUnderstated' /\ SpentFits' /\ taken' = taken
    BY DEF StockNotUnderstated, SpentFits
  <2> QED
    BY <2>1, <2>2
<1>3. ASSUME NEW n \in Requests, Fits(n, taken), rq' = [rq EXCEPT ![t] = n]
      PROVE  RequestTypes' /\ RequestsFit'
  <2>1. RequestTypes'
    BY <1>0, <1>3 DEF Types, RequestTypes
  <2>2. \A s \in Tabs : rq'[s] = n \/ rq'[s] = rq[s]
    BY <1>0, <1>3 DEF Types, RequestTypes
  <2>3. \A s \in Tabs : Fits(rq[s], taken)
    BY DEF LedgerInv, RequestsFit
  <2>4. \A s \in Tabs : Fits(rq'[s], taken)
    <3> SUFFICES ASSUME NEW s \in Tabs PROVE Fits(rq'[s], taken)
      OBVIOUS
    <3>1. CASE rq'[s] = n
      BY <1>3, <3>1
    <3>2. CASE rq'[s] = rq[s]
      BY <2>3, <3>2
    <3> QED
      BY <2>2, <3>1, <3>2
  <2> QED
    BY <1>2, <2>1, <2>4 DEF RequestsFit
<1>4. RequestTypes' /\ RequestsFit'
  <2>1. CASE rq' = rq
    BY <1>0, <1>2, <2>1 DEF Types, RequestTypes, LedgerInv, RequestsFit
  <2>2. CASE \E n : Sent(t, n)
    BY <2>2, <1>3 DEF Sent
  <2>3. CASE rq' = [rq EXCEPT ![t] = NoRequest]
    <3>1. NoRequest \in Requests /\ Fits(NoRequest, taken)
      BY DEF Requests, NoRequest, Fits
    <3> QED
      BY <1>3, <2>3, <3>1
  <2> QED
    BY <1>0, <2>1, <2>2, <2>3, TabStep
<1> QED
  BY <1>1, <1>2, <1>4 DEF LedgerInv, Types

LEMMA BackgroundInv ==
    ASSUME LedgerInv, Background
    PROVE  LedgerInv'
<1> USE DEF LedgerInv, Types
<1>1. CASE \E u \in Users : clearCoupon(u) /\ UNCHANGED cvars
  <2>1. PICK u \in Users : clearCoupon(u) /\ UNCHANGED cvars
    BY <1>1
  <2>2. ServerTypes'
    BY <2>1 DEF ServerTypes, clearCoupon, hist
  <2>3. TabTypes' /\ RequestTypes'
    BY <2>1 DEF TabTypes, RequestTypes, clearCoupon, cvars
  <2>4. RequestsFit' /\ StockNotUnderstated'
    BY <2>1 DEF RequestsFit, StockNotUnderstated, clearCoupon, hist
  <2>5. SpentFits'
    BY <2>1 DEF SpentFits, clearCoupon, hist, ServerTypes
  <2> QED
    BY <2>2, <2>3, <2>4, <2>5
<1>2. CASE NextMonth /\ doubt' = [u \in Users |-> TRUE] /\ UNCHANGED <<tok, pg, ss, view, clicks>>
  <2>1. ServerTypes' /\ TabTypes' /\ RequestTypes'
    BY <1>2 DEF ServerTypes, TabTypes, RequestTypes, NextMonth, db, hist
  <2>2. RequestsFit' /\ StockNotUnderstated' /\ SpentFits'
    BY <1>2 DEF RequestsFit, StockNotUnderstated, SpentFits, NextMonth, db, hist
  <2> QED
    BY <2>1, <2>2
<1>3. CASE \E p \in Products : modifyPrice(p)
  <2>1. PICK p \in Products : modifyPrice(p)
    BY <1>3
  <2>2. ServerTypes'
    BY <2>1, StorefrontAssumption DEF ServerTypes, modifyPrice, hist, StorefrontAssumption
  <2>3. TabTypes' /\ RequestTypes'
    BY <2>1 DEF TabTypes, RequestTypes, modifyPrice, cvars
  <2>4. RequestsFit' /\ StockNotUnderstated' /\ SpentFits'
    BY <2>1 DEF RequestsFit, StockNotUnderstated, SpentFits, modifyPrice, hist
  <2> QED
    BY <2>2, <2>3, <2>4
<1> QED
  BY <1>1, <1>2, <1>3 DEF Background

LEMMA NextLedgerInv ==
    ASSUME LedgerInv, [Next]_vars
    PROVE  LedgerInv'
<1>1. ASSUME NEW t \in Tabs, Serve(t), UNCHANGED cvars PROVE LedgerInv'
  BY <1>1, ServeCases, ReadsInv, WritesItemInv, WritesUserInv, MovesMoneyInv, TakesInv, InsertsInv, TogglesInv
<1>2. CASE UNCHANGED vars
  <2> USE <1>2 DEF vars, svars, cvars, db, hist, LedgerInv, Types
  <2>1. ServerTypes' /\ TabTypes' /\ RequestTypes'
    BY DEF ServerTypes, TabTypes, RequestTypes
  <2>2. RequestsFit' /\ StockNotUnderstated' /\ SpentFits'
    BY DEF RequestsFit, StockNotUnderstated, SpentFits
  <2> QED
    BY <2>1, <2>2
<1> QED
  BY <1>1, <1>2, TabStepInv, BackgroundInv DEF Next

LEMMA InitServerTypes ==
    ASSUME InitStorefront
    PROVE  ServerTypes /\ RequestTypes
<1> USE CheckoutAssumption, StorefrontAssumption DEF CheckoutAssumption, StorefrontAssumption, InitStorefront, InitCheckout
<1>1. RequestTypes
  BY DEF RequestTypes, Requests, NoRequest
<1>2. items \in [Users -> [Products -> 0..MaxQty]]
  <2>1. Basket0 \in [Products -> 0..MaxQty]
    OBVIOUS
  <2> QED
    BY <2>1
<1>3. orders \in Seq(OrderRecords)
  BY DEF OrderRecords, Pays
<1>4. price \in [Products -> Nat] /\ stock \in [Products -> Int] /\ wallet \in [Users -> Int]
  OBVIOUS
<1> QED
  BY <1>1, <1>2, <1>3, <1>4 DEF ServerTypes

LEMMA InitTabTypes ==
    ASSUME InitStorefront
    PROVE  TabTypes
<1>1. PICK sc \in Scenarios : pg = [t \in Tabs |-> sc[t].page] /\ clicks = [t \in Tabs |-> sc[t].clicks]
  BY DEF InitStorefront
<1>2. \A t \in Tabs : sc[t].page \in {"basket", "payShop", "summary", "accounting", "closed"} /\ sc[t].clicks \in Nat
  BY StorefrontAssumption DEF StorefrontAssumption
<1>3. pg \in [Tabs -> Screens] /\ clicks \in [Tabs -> Nat]
  BY <1>1, <1>2 DEF Screens, Pages
<1>4. \A page : StartSession(page) \in Sessions
  <2> TAKE page
  <2> DEFINE i == IF page \in {"basket", "payShop"} THEN ItemTotal(Price, Basket0, FALSE) ELSE Unset
             b == page \in {"payShop", "summary"}
             y == IF page = "summary" THEN "wallet" ELSE "none"
  <2>1. i \in Money
    <3>1. ItemTotal(Price, Basket0, FALSE) \in Nat
      BY CheckoutAssumption, TotalsNat DEF CheckoutAssumption
    <3> QED
      BY <3>1 DEF Money
  <2>2. StartSession(page) = [EmptySession EXCEPT !.itemTotal = i, !.address = b, !.method = b, !.pay = y]
    BY DEF StartSession
  <2>3. EmptySession \in Sessions /\ b \in BOOLEAN /\ y \in Pays
    BY DEF EmptySession, Sessions, Money, Pays
  <2> HIDE DEF i, b, y
  <2> QED
    BY <2>1, <2>2, <2>3 DEF Sessions
<1>5. ss \in [Tabs -> Sessions]
  BY <1>4 DEF InitStorefront
<1>6. view \in [Tabs -> Views]
  <2>1. \A t \in Tabs : Loaded(t, pg[t], ss[t]) \in Views
    <3> TAKE t \in Tabs
    <3>1. pg[t] \in Screens /\ ss[t] \in Sessions
      BY <1>3, <1>5
    <3> QED
      BY <3>1, InitServerTypes, LoadedType
  <2> QED
    BY <2>1 DEF InitStorefront
<1>7. tok \in [Users -> {"customer", "deluxe"}] /\ doubt \in [Users -> BOOLEAN]
  BY DEF InitStorefront
<1> QED
  BY <1>3, <1>5, <1>6, <1>7 DEF TabTypes

LEMMA InitLedgerInv ==
    ASSUME InitStorefront
    PROVE  LedgerInv
<1>1. RequestsFit
  BY DEF InitStorefront, InitCheckout, RequestsFit, Fits
<1>2. StockNotUnderstated /\ SpentFits
  BY CheckoutAssumption DEF CheckoutAssumption, InitStorefront, InitCheckout, StockNotUnderstated, SpentFits
<1> QED
  BY <1>1, <1>2, InitServerTypes, InitTabTypes DEF LedgerInv, Types

LEMMA LedgerInvHolds == Spec => []LedgerInv
<1>1. InitStorefront => LedgerInv
  BY InitLedgerInv
<1>2. LedgerInv /\ [Next]_vars => LedgerInv'
  BY NextLedgerInv
<1> QED
  BY <1>1, <1>2, PTL DEF Spec

-----------------------------------------------------------------------------
(* The books: a wallet, the orders and the requests under way.             *)

TabsOf(u) == {t \in Tabs : U(t) = u}
PendingSum(u) == SumFunctionOnSet([t \in Tabs |-> PendingOf(rq[t])], TabsOf(u))
OrderSum(u) == SumFunctionOnSet([i \in DOMAIN orders |-> Booking(orders[i])], NewOrders(u))
Books(u) == wallet[u] = Wallet0[u] + booked[u] - lost[u] + OrderSum(u) + PendingSum(u)
BooksInv == Len(orders) >= Len(Orders0) /\ \A u \in Users : Books(u)

LEMMA BooksInvBalances == BooksInv => BooksBalance
<1>1. \A t \in Tabs : Pending(t) = PendingOf(rq[t])
  BY DEF Pending, PendingOf
<1>2. [t \in Tabs |-> Pending(t)] = [t \in Tabs |-> PendingOf(rq[t])]
  BY <1>1
<1> QED
  BY <1>2 DEF BooksInv, Books, BooksBalance, PendingSum, OrderSum, TabsOf

LEMMA PendingInt ==
    ASSUME NEW r \in Requests
    PROVE  PendingOf(r) \in Int
<1>1. r.op = "checkout" => r.points \in Nat /\ r.total \in Int
  BY RequestKinds DEF CheckoutRequests
<1> QED
  BY <1>1 DEF PendingOf

LEMMA TabsOfFinite ==
    ASSUME NEW u
    PROVE  IsFiniteSet(TabsOf(u))
<1>1. IsFiniteSet(Tabs)
  BY CheckoutAssumption DEF CheckoutAssumption
<1> QED
  BY <1>1, FS_Subset DEF TabsOf

LEMMA PendingSumInt ==
    ASSUME RequestTypes, NEW u
    PROVE  PendingSum(u) \in Int
<1> DEFINE f == [t \in Tabs |-> PendingOf(rq[t])]
<1>1. \A x \in TabsOf(u) : f[x] \in Int
  BY PendingInt DEF RequestTypes, TabsOf
<1> HIDE DEF f
<1>2. SumFunctionOnSet(f, TabsOf(u)) \in Int
  BY <1>1, TabsOfFinite, SumInt
<1> QED
  BY <1>2 DEF PendingSum, f

(* One request goes on: the sum of its user moves with it.                 *)
LEMMA PendingMoves ==
    ASSUME RequestTypes, NEW t \in Tabs, NEW n \in Requests, rq' = [rq EXCEPT ![t] = n]
    PROVE  /\ PendingSum(U(t))' = PendingSum(U(t)) + PendingOf(n) - PendingOf(rq[t])
           /\ \A u \in Users \ {U(t)} : PendingSum(u)' = PendingSum(u)
<1> DEFINE f == [x \in Tabs |-> PendingOf(rq[x])]
           g == [x \in Tabs |-> PendingOf(rq'[x])]
           T == TabsOf(U(t))
<1>1. \A x \in Tabs : f[x] \in Int /\ g[x] \in Int
  BY PendingInt DEF RequestTypes
<1>2. \A x \in Tabs \ {t} : f[x] = g[x]
  BY DEF RequestTypes
<1>3. g[t] = PendingOf(n) /\ f[t] = PendingOf(rq[t])
  BY DEF RequestTypes
<1>4. t \in T /\ T \subseteq Tabs /\ IsFiniteSet(T)
  BY TabsOfFinite DEF TabsOf
<1>5. \A u : PendingSum(u) = SumFunctionOnSet(f, TabsOf(u)) /\ PendingSum(u)' = SumFunctionOnSet(g, TabsOf(u))
  BY DEF PendingSum, TabsOf, U
<1> HIDE DEF f, g, T
<1>6. SumFunctionOnSet(g, T) = SumFunctionOnSet(f, T) + g[t] - f[t]
  BY <1>1, <1>2, <1>4, SumChange
<1>7. ASSUME NEW u \in Users \ {U(t)} PROVE SumFunctionOnSet(f, TabsOf(u)) = SumFunctionOnSet(g, TabsOf(u))
  <2>1. \A x \in TabsOf(u) : f[x] = g[x]
    BY <1>2, <1>7 DEF TabsOf
  <2> QED
    BY <2>1, TabsOfFinite, SumSame
<1> QED
  BY <1>3, <1>5, <1>6, <1>7 DEF T

(* The same orders, up to their delivery status.                           *)
SameBookings ==
    /\ Len(orders') = Len(orders) /\ DOMAIN orders' = DOMAIN orders
    /\ \A i \in DOMAIN orders : /\ orders'[i].user = orders[i].user /\ orders'[i].pay = orders[i].pay
                                /\ orders'[i].bonus = orders[i].bonus /\ orders'[i].total = orders[i].total

LEMMA NewOrdersFinite ==
    ASSUME ServerTypes, NEW u
    PROVE  IsFiniteSet(NewOrders(u)) /\ NewOrders(u) \subseteq DOMAIN orders
<1>1. Len(orders) \in Nat /\ Len(Orders0) \in Nat /\ DOMAIN orders = 1..Len(orders)
  BY CheckoutAssumption DEF ServerTypes, CheckoutAssumption
<1>2. IsFiniteSet((Len(Orders0) + 1)..Len(orders))
  BY <1>1, FS_Interval
<1>3. NewOrders(u) \subseteq (Len(Orders0) + 1)..Len(orders)
  BY DEF NewOrders
<1> QED
  BY <1>1, <1>2, <1>3, FS_Subset

LEMMA BookingInt ==
    ASSUME NEW o \in OrderRecords
    PROVE  Booking(o) \in Int
  BY DEF OrderRecords, Booking

LEMMA OrderSumInt ==
    ASSUME ServerTypes, NEW u
    PROVE  OrderSum(u) \in Int
<1> DEFINE f == [i \in DOMAIN orders |-> Booking(orders[i])]
<1>1. \A i \in NewOrders(u) : f[i] \in Int
  <2>1. \A i \in DOMAIN orders : orders[i] \in OrderRecords
    BY DEF ServerTypes
  <2> QED
    BY <2>1, NewOrdersFinite, BookingInt
<1> HIDE DEF f
<1>2. SumFunctionOnSet(f, NewOrders(u)) \in Int
  BY <1>1, NewOrdersFinite, SumInt
<1> QED
  BY <1>2 DEF OrderSum, f

LEMMA OrderSumSame ==
    ASSUME ServerTypes, SameBookings, NEW u
    PROVE  OrderSum(u)' = OrderSum(u)
<1> DEFINE f == [i \in DOMAIN orders |-> Booking(orders[i])]
           g == [i \in DOMAIN orders' |-> Booking(orders'[i])]
           N == NewOrders(u)
<1>1. NewOrders(u)' = N
  <2>1. Len(orders') = Len(orders) /\ Len(Orders0) \in Nat /\ DOMAIN orders = 1..Len(orders) /\ Len(orders) \in Nat
    BY CheckoutAssumption DEF SameBookings, CheckoutAssumption, ServerTypes
  <2>2. \A i \in (Len(Orders0) + 1)..Len(orders) : i \in DOMAIN orders
    BY <2>1
  <2> QED
    BY <2>1, <2>2 DEF NewOrders, SameBookings
<1>2. \A i \in N : f[i] = g[i]
  BY NewOrdersFinite DEF SameBookings, Booking
<1>3. IsFiniteSet(N)
  BY NewOrdersFinite
<1>4. OrderSum(u) = SumFunctionOnSet(f, N) /\ OrderSum(u)' = SumFunctionOnSet(g, N)
  BY <1>1 DEF OrderSum
<1> HIDE DEF f, g, N
<1>5. SumFunctionOnSet(f, N) = SumFunctionOnSet(g, N)
  BY <1>2, <1>3, SumSame
<1> QED
  BY <1>4, <1>5

LEMMA OrderSumInsert ==
    ASSUME ServerTypes, Len(orders) >= Len(Orders0), NEW o \in OrderRecords, orders' = Append(orders, o)
    PROVE  /\ Len(orders') >= Len(Orders0)
           /\ OrderSum(o.user)' = OrderSum(o.user) + Booking(o)
           /\ \A u \in Users \ {o.user} : OrderSum(u)' = OrderSum(u)
<1> DEFINE f == [i \in DOMAIN orders |-> Booking(orders[i])]
           g == [i \in DOMAIN orders' |-> Booking(orders'[i])]
           k == Len(orders) + 1
<1>1. /\ Len(orders) \in Nat /\ Len(Orders0) \in Nat /\ Len(orders') = k
      /\ DOMAIN orders = 1..Len(orders) /\ DOMAIN orders' = 1..k
      /\ orders'[k] = o /\ \A i \in DOMAIN orders : orders'[i] = orders[i] /\ orders[i] \in OrderRecords
  BY CheckoutAssumption DEF ServerTypes, CheckoutAssumption
<1>2. /\ \A i \in DOMAIN orders : f[i] = g[i] /\ g[i] \in Int
      /\ g[k] = Booking(o) /\ g[k] \in Int
  BY <1>1, BookingInt
<1>3. \A u : OrderSum(u) = SumFunctionOnSet(f, NewOrders(u)) /\ OrderSum(u)' = SumFunctionOnSet(g, NewOrders(u)')
  BY DEF OrderSum
<1>4. \A u : NewOrders(u) \subseteq DOMAIN orders /\ IsFiniteSet(NewOrders(u)) /\ k \notin NewOrders(u)
  BY <1>1, NewOrdersFinite
<1>5. \A u : NewOrders(u)' = NewOrders(u) \cup (IF o.user = u THEN {k} ELSE {})
  BY <1>1 DEF NewOrders
<1> HIDE DEF f, g, k
<1>6. \A u : SumFunctionOnSet(f, NewOrders(u)) = SumFunctionOnSet(g, NewOrders(u))
  <2> TAKE u
  <2>1. \A i \in NewOrders(u) : f[i] = g[i]
    BY <1>2, <1>4
  <2> QED
    BY <1>4, <2>1, SumSame
<1>7. OrderSum(o.user)' = OrderSum(o.user) + Booking(o)
  <2> DEFINE N == NewOrders(o.user) \cup {k}
  <2>1. NewOrders(o.user)' = N
    BY <1>5
  <2>2. IsFiniteSet(N) /\ k \in N /\ N \ {k} = NewOrders(o.user) /\ \A x \in N : g[x] \in Int
    <3>1. IsFiniteSet(N)
      BY <1>4, FS_AddElement
    <3> QED
      BY <1>2, <1>4, <3>1
  <2> HIDE DEF N
  <2>3. SumFunctionOnSet(g, N) = g[k] + SumFunctionOnSet(g, N \ {k})
    BY <2>2, SumTakeOut
  <2>4. OrderSum(o.user) \in Int /\ Booking(o) \in Int
    BY OrderSumInt, BookingInt
  <2>5. SumFunctionOnSet(g, N) = Booking(o) + OrderSum(o.user)
    BY <1>2, <1>3, <1>6, <2>2, <2>3
  <2>6. OrderSum(o.user)' = SumFunctionOnSet(g, N)
    BY <1>3, <2>1
  <2> QED
    BY <2>4, <2>5, <2>6
<1>8. ASSUME NEW u \in Users \ {o.user} PROVE OrderSum(u)' = OrderSum(u)
  <2>1. NewOrders(u)' = NewOrders(u)
    BY <1>5, <1>8
  <2> QED
    BY <1>3, <1>6, <2>1
<1> QED
  BY <1>1, <1>7, <1>8 DEF k

(* A request goes on, and what it moves is in the books of its user.       *)
LEMMA BooksMove ==
    ASSUME LedgerInv, BooksInv, ServerTypes', NEW t \in Tabs, NEW n \in Requests, rq' = [rq EXCEPT ![t] = n], SameBookings,
           \A u \in Users \ {U(t)} : wallet'[u] = wallet[u] /\ booked'[u] = booked[u] /\ lost'[u] = lost[u],
           wallet'[U(t)] - wallet[U(t)] = (booked'[U(t)] - booked[U(t)]) - (lost'[U(t)] - lost[U(t)])
                                            + PendingOf(n) - PendingOf(rq[t])
    PROVE  BooksInv'
<1>1. RequestTypes /\ ServerTypes /\ rq[t] \in Requests
  BY DEF LedgerInv, Types, RequestTypes
<1>2. /\ PendingSum(U(t))' = PendingSum(U(t)) + PendingOf(n) - PendingOf(rq[t])
      /\ \A u \in Users \ {U(t)} : PendingSum(u)' = PendingSum(u)
  BY <1>1, PendingMoves
<1>3. \A u \in Users : OrderSum(u)' = OrderSum(u)
  BY <1>1, OrderSumSame
<1>4. Len(orders') >= Len(Orders0)
  BY DEF BooksInv, SameBookings
<1>5. \A u \in Users : Books(u)'
  <2> SUFFICES ASSUME NEW u \in Users PROVE Books(u)'
    OBVIOUS
  <2>1. /\ wallet[u] \in Int /\ wallet'[u] \in Int /\ booked[u] \in Int /\ booked'[u] \in Int /\ lost[u] \in Int /\ lost'[u] \in Int
        /\ Wallet0[u] \in Int
    BY <1>1, CheckoutAssumption DEF ServerTypes, CheckoutAssumption
  <2>2. OrderSum(u) \in Int /\ PendingSum(u) \in Int /\ PendingOf(n) \in Int /\ PendingOf(rq[t]) \in Int
    BY <1>1, OrderSumInt, PendingSumInt, PendingInt
  <2>3. wallet[u] = Wallet0[u] + booked[u] - lost[u] + OrderSum(u) + PendingSum(u)
    BY DEF BooksInv, Books
  <2>4. CASE u = U(t)
    <3>1. PendingSum(u)' = PendingSum(u) + PendingOf(n) - PendingOf(rq[t]) /\ OrderSum(u)' = OrderSum(u)
      BY <1>2, <1>3, <2>4
    <3>2. wallet'[u] - wallet[u] = (booked'[u] - booked[u]) - (lost'[u] - lost[u]) + PendingOf(n) - PendingOf(rq[t])
      BY <2>4
    <3>3. wallet'[u] = Wallet0[u] + booked'[u] - lost'[u] + OrderSum(u)' + PendingSum(u)'
      <4> DEFINE w == wallet[u]
                 w1 == wallet'[u]
                 b == booked[u]
                 b1 == booked'[u]
                 l == lost[u]
                 l1 == lost'[u]
                 o == OrderSum(u)
                 p == PendingSum(u)
                 x == PendingOf(n)
                 y == PendingOf(rq[t])
      <4>1. /\ w \in Int /\ w1 \in Int /\ b \in Int /\ b1 \in Int /\ l \in Int /\ l1 \in Int /\ Wallet0[u] \in Int
            /\ o \in Int /\ p \in Int /\ x \in Int /\ y \in Int
            /\ w = Wallet0[u] + b - l + o + p /\ w1 - w = (b1 - b) - (l1 - l) + x - y
        BY <2>1, <2>2, <2>3, <3>2
      <4>2. PendingSum(u)' = p + x - y /\ OrderSum(u)' = o
        BY <3>1
      <4> HIDE DEF w, w1, b, b1, l, l1, o, p, x, y
      <4>3. w1 = Wallet0[u] + b1 - l1 + o + (p + x - y)
        BY <4>1
      <4> QED
        BY <4>2, <4>3 DEF w1, b1, l1
    <3> QED
      BY <3>3 DEF Books
  <2>5. CASE u # U(t)
    <3>1. PendingSum(u)' = PendingSum(u) /\ OrderSum(u)' = OrderSum(u)
      BY <1>2, <1>3, <2>5
    <3>2. wallet'[u] = wallet[u] /\ booked'[u] = booked[u] /\ lost'[u] = lost[u]
      BY <2>5
    <3> QED
      BY <2>3, <3>1, <3>2 DEF Books
  <2> QED
    BY <2>4, <2>5
<1> QED
  BY <1>4, <1>5 DEF BooksInv

(* Steps that move no money, of a request that has moved none or goes on   *)
(* to where it has moved none.                                             *)
LEMMA BooksIdle ==
    ASSUME LedgerInv, BooksInv, ServerTypes', NEW t \in Tabs, NEW n \in Requests, rq' = [rq EXCEPT ![t] = n], SameBookings,
           UNCHANGED <<wallet, booked, lost>>, PendingOf(n) = PendingOf(rq[t])
    PROVE  BooksInv'
<1>1. U(t) \in Users /\ rq[t] \in Requests
  BY UserOfTab DEF LedgerInv, Types, RequestTypes
<1>2. wallet[U(t)] \in Int /\ booked[U(t)] \in Int /\ lost[U(t)] \in Int /\ PendingOf(n) \in Int
  BY <1>1, PendingInt DEF LedgerInv, Types, ServerTypes
<1>3. wallet'[U(t)] - wallet[U(t)] = (booked'[U(t)] - booked[U(t)]) - (lost'[U(t)] - lost[U(t)])
                                            + PendingOf(n) - PendingOf(rq[t])
  BY <1>2
<1> QED
  BY <1>3, BooksMove

LEMMA BooksStill ==
    ASSUME LedgerInv, BooksInv, UNCHANGED <<wallet, booked, lost, orders, rq>>
    PROVE  BooksInv'
<1>1. ServerTypes /\ SameBookings
  BY DEF LedgerInv, Types, SameBookings
<1>2. \A u : OrderSum(u)' = OrderSum(u)
  BY <1>1, OrderSumSame
<1>3. \A u : PendingSum(u)' = PendingSum(u)
  BY DEF PendingSum, TabsOf, U
<1> QED
  BY <1>2, <1>3 DEF BooksInv, Books

LEMMA SameOrders == ASSUME ServerTypes, orders' = orders PROVE SameBookings
  BY DEF SameBookings

LEMMA BooksServe ==
    ASSUME LedgerInv, LedgerInv', BooksInv, NEW t \in Tabs, Serve(t), UNCHANGED cvars
    PROVE  BooksInv'
<1> DEFINE r == rq[t]
<1>0. /\ r \in Requests /\ U(t) \in Users /\ ServerTypes /\ ServerTypes' /\ RequestTypes /\ Types
      /\ wallet \in [Users -> Int] /\ booked \in [Users -> Int] /\ lost \in [Users -> Int] /\ Fits(r, taken)
  BY UserOfTab DEF LedgerInv, Types, RequestTypes, ServerTypes, RequestsFit
<1>1. CASE Reads(t)
  <2>1. PICK n : Served(t, n) /\ PendingOf(n) = 0
    BY <1>1, ReadsServed
  <2>2. UNCHANGED <<wallet, booked, lost, orders>>
    BY <1>1, ReadsFrame DEF db, hist
  <2>3. PendingOf(r) = 0
    BY <1>1 DEF PendingOf, Reads, At, quantityCheckBeforeBasketItemAddition, quantityCheckBeforeBasketItemUpdate,
         quantityCheckOfUpdate, applyCouponFind, addWalletBalanceCard, upgradeFindUser, upgradeFindWallet, upgradeFindCard,
         placeOrderFind, placeOrderReadQuantity, placeOrderQuantityError, placeOrderTotal, placeOrderFindWallet
  <2> QED
    BY <1>0, <2>1, <2>2, <2>3, SameOrders, BooksIdle DEF Served
<1>2. CASE WritesItem(t)
  <2>1. PICK st \in Status : Answer(t, st)
    BY <1>2, WritesItemFrame
  <2>2. UNCHANGED <<wallet, booked, lost, orders>> /\ r.op # "none" /\ (r.op = "checkout" => r.pc = "destroy")
    BY <1>2, WritesItemFrame DEF hist
  <2>3. Served(t, Answering(r, st)) /\ Answering(r, st).pc = "answered"
    BY <1>0, <2>1, <2>2, AnswerServed, AnsweringKeeps DEF LedgerInv
  <2>4. PendingOf(r) = 0 /\ PendingOf(Answering(r, st)) = 0
    BY <2>2, <2>3 DEF PendingOf
  <2> QED
    BY <1>0, <2>2, <2>3, <2>4, SameOrders, BooksIdle DEF Served
<1>3. CASE WritesUser(t)
  <2>1. PICK st \in Status : Answer(t, st)
    BY <1>3, WritesUserFrame
  <2>2. UNCHANGED <<wallet, booked, lost, orders>> /\ r.op \notin {"none", "checkout"}
    BY <1>3, WritesUserFrame
  <2>3. Served(t, Answering(r, st)) /\ Answering(r, st).pc = "answered"
    BY <1>0, <2>1, <2>2, AnswerServed, AnsweringKeeps DEF LedgerInv
  <2>4. PendingOf(r) = 0 /\ PendingOf(Answering(r, st)) = 0
    BY <2>2, <2>3 DEF PendingOf
  <2> QED
    BY <1>0, <2>2, <2>3, <2>4, SameOrders, BooksIdle DEF Served
<1>4. CASE MovesMoney(t)
  <2>0. SameBookings
    BY <1>0, <1>4, MovesMoneyFrame, SameOrders
  <2> DEFINE w == wallet[U(t)]
             b == booked[U(t)]
             l == lost[U(t)]
             w1 == wallet'[U(t)]
             b1 == booked'[U(t)]
             l1 == lost'[U(t)]
  <2>ints. w \in Int /\ b \in Int /\ l \in Int
    BY <1>0
  <2>others. \A u \in Users \ {U(t)} : wallet'[u] = wallet[u] /\ booked'[u] = booked[u] /\ lost'[u] = lost[u]
    BY <1>0, <1>4 DEF MovesMoney, addWalletBalance, upgradeDecrement, placeOrderDecrement, placeOrderIncrement,
       placeOrderIncrementError, hist, db
  <2>1. ASSUME NEW n, Served(t, n), w1 - w = (b1 - b) - (l1 - l) + PendingOf(n) - PendingOf(r)
        PROVE  BooksInv'
    <3>1. n \in Requests /\ rq' = [rq EXCEPT ![t] = n]
      BY <2>1 DEF Served
    <3> QED
      BY <1>0, <2>0, <2>1, <2>others, <3>1, BooksMove
  <2>2. CASE addWalletBalance(t)
    <3> DEFINE x == r.amount
    <3>1. x \in Nat /\ r.op = "topup"
      BY <1>0, <2>2, RequestKinds DEF addWalletBalance, At, TopUpRequests
    <3>2. Served(t, Answering(r, "ok")) /\ Answering(r, "ok").pc = "answered"
      BY <1>0, <1>4, <2>2, <3>1, MovesMoneyServed, AnsweringKeeps DEF Status
    <3>3. PendingOf(r) = 0 /\ PendingOf(Answering(r, "ok")) = 0
      BY <3>1, <3>2 DEF PendingOf
    <3>4. w1 = w + x /\ b1 = b + x /\ l1 = l
      BY <1>0, <2>2 DEF addWalletBalance
    <3> HIDE DEF w, b, l, w1, b1, l1, x
    <3>5. w1 - w = (b1 - b) - (l1 - l) + 0 - 0
      BY <2>ints, <3>1, <3>4
    <3> QED
      BY <2>1, <3>2, <3>3, <3>5
  <2>3. CASE upgradeDecrement(t)
    <3>1. r \in UpgradeRequests /\ r.op = "upgrade"
      BY <1>0, <2>3, RequestKinds DEF upgradeDecrement, At
    <3>2. Served(t, Going(r, "role")) /\ Going(r, "role").pc = "role"
      BY <1>4, <2>3, <3>1, MovesMoneyServed, GoingUpgrade
    <3>3. PendingOf(r) = 0 /\ PendingOf(Going(r, "role")) = 0
      BY <3>1, <3>2 DEF PendingOf
    <3>4. w1 = w - MembershipCost /\ b1 = b - MembershipCost /\ l1 = l
      BY <1>0, <2>3 DEF upgradeDecrement
    <3> HIDE DEF w, b, l, w1, b1, l1
    <3>5. w1 - w = (b1 - b) - (l1 - l) + 0 - 0
      BY <2>ints, <3>4 DEF MembershipCost
    <3> QED
      BY <2>1, <3>2, <3>3, <3>5
  <2>4. CASE placeOrderDecrement(t)
    <3> DEFINE n == Going(r, "bonus")
               x == r.total
    <3>1. r \in CheckoutRequests /\ r.op = "checkout" /\ r.pc = "charge" /\ r.pay = "wallet" /\ x \in Int
      BY <1>0, <2>4, RequestKinds DEF placeOrderDecrement, At, Fits, CheckoutRequests
    <3>2. Served(t, n) /\ n.pc = "bonus" /\ n.op = "checkout" /\ n.pay = r.pay /\ n.total = x
      <4>1. n.pc = "bonus" /\ n.op = "checkout" /\ n.pay = r.pay /\ n.total = x
        BY <3>1, GoingCheckout DEF SameOrder, SamePrice
      <4> QED
        BY <1>4, <2>4, <4>1, MovesMoneyServed
    <3> HIDE DEF n
    <3>3. PendingOf(r) = 0 /\ PendingOf(n) = 0 - x
      BY <3>1, <3>2 DEF PendingOf
    <3>4. w1 = w - x /\ b1 = b /\ l1 = l
      BY <1>0, <2>4 DEF placeOrderDecrement, hist
    <3> HIDE DEF w, b, l, w1, b1, l1, x
    <3>5. w1 - w = (b1 - b) - (l1 - l) + (0 - x) - 0
      BY <2>ints, <3>1, <3>4
    <3> QED
      BY <2>1, <3>2, <3>3, <3>5
  <2>5. CASE placeOrderIncrement(t)
    <3> DEFINE n == Going(r, "insert")
               x == r.points
               y == IF r.pay = "wallet" THEN r.total ELSE 0
    <3>1. r \in CheckoutRequests /\ r.op = "checkout" /\ r.pc = "bonus" /\ r.total \in Int /\ x \in Nat
      BY <1>0, <2>5, RequestKinds DEF placeOrderIncrement, At, CheckoutRequests
    <3>2. Served(t, n) /\ n.pc = "insert" /\ n.op = "checkout" /\ n.pay = r.pay /\ n.total = r.total /\ n.points = x
      <4>1. n.pc = "insert" /\ n.op = "checkout" /\ n.pay = r.pay /\ n.total = r.total /\ n.points = x
        BY <3>1, GoingCheckout DEF SameOrder, SamePrice
      <4> QED
        BY <1>4, <2>5, <4>1, MovesMoneyServed
    <3> HIDE DEF n
    <3>3. PendingOf(r) = 0 - y /\ PendingOf(n) = x - y /\ y \in Int
      BY <3>1, <3>2 DEF PendingOf
    <3>4. w1 = w + x /\ b1 = b /\ l1 = l
      BY <1>0, <2>5 DEF placeOrderIncrement, hist
    <3> HIDE DEF w, b, l, w1, b1, l1, x, y
    <3>5. w1 - w = (b1 - b) - (l1 - l) + (x - y) - (0 - y)
      BY <2>ints, <3>1, <3>3, <3>4
    <3> QED
      BY <2>1, <3>2, <3>3, <3>5
  <2>6. CASE placeOrderIncrementError(t)
    <3> DEFINE n == Answering(r, "error")
               y == IF r.pay = "wallet" THEN r.total ELSE 0
    <3>1. r \in CheckoutRequests /\ r.op = "checkout" /\ r.pc = "bonus" /\ r.total \in Int
      BY <1>0, <2>6, RequestKinds DEF placeOrderIncrementError, At, CheckoutRequests
    <3>2. Served(t, n) /\ n.pc = "answered"
      BY <1>0, <1>4, <2>6, <3>1, MovesMoneyServed, AnsweringKeeps DEF Status
    <3> HIDE DEF n
    <3>3. PendingOf(r) = 0 - y /\ PendingOf(n) = 0 /\ y \in Int
      BY <3>1, <3>2 DEF PendingOf
    <3>4. w1 = w /\ b1 = b /\ l1 = l + y
      BY <1>0, <2>6 DEF placeOrderIncrementError, db
    <3> HIDE DEF w, b, l, w1, b1, l1, y
    <3>5. w1 - w = (b1 - b) - (l1 - l) + 0 - (0 - y)
      BY <2>ints, <3>3, <3>4
    <3> QED
      BY <2>1, <3>2, <3>3, <3>5
  <2> QED
    BY <1>4, <2>2, <2>3, <2>4, <2>5, <2>6 DEF MovesMoney
<1>5. CASE placeOrderUpdateQuantity(t)
  <2>1. r \in CheckoutRequests /\ r.pc = "take"
    BY <1>0, <1>5, RequestKinds DEF placeOrderUpdateQuantity, At
  <2>2. Served(t, Taking(r)) /\ Taking(r).pc = "quantity"
    BY <1>5, <2>1, TakesInv, TakingKeeps
  <2>3. PendingOf(r) = 0 /\ PendingOf(Taking(r)) = 0
    BY <2>1, <2>2 DEF PendingOf
  <2>4. UNCHANGED <<wallet, booked, lost, orders>>
    BY <1>5 DEF placeOrderUpdateQuantity
  <2> QED
    BY <1>0, <2>2, <2>3, <2>4, SameOrders, BooksIdle DEF Served
<1>6. CASE toggleDeliveryStatus(t)
  <2>1. r.op = "toggle"
    BY <1>6 DEF toggleDeliveryStatus, At
  <2>2. Served(t, Answering(r, "ok")) /\ SameBookings
    BY <1>6, TogglesInv DEF SameBookings
  <2>3. Answering(r, "ok").pc = "answered"
    BY <1>0, <2>1, AnsweringKeeps DEF Status
  <2>4. PendingOf(r) = 0 /\ PendingOf(Answering(r, "ok")) = 0
    BY <2>1, <2>3 DEF PendingOf
  <2>5. UNCHANGED <<wallet, booked, lost>>
    BY <1>6 DEF toggleDeliveryStatus, hist
  <2> QED
    BY <1>0, <2>2, <2>4, <2>5, BooksIdle DEF Served
<1>7. CASE placeOrderInsert(t)
  <2> DEFINE n == Going(r, "destroy")
             o == Order(t)
  <2>1. r \in CheckoutRequests /\ r.op = "checkout" /\ r.pc = "insert" /\ Served(t, n) /\ o \in OrderRecords
    BY <1>7, InsertsInv DEF placeOrderInsert, At
  <2>2. n.pc = "destroy" /\ n \in Requests /\ rq' = [rq EXCEPT ![t] = n]
    BY <2>1, GoingCheckout DEF Served
  <2>3. o.user = U(t) /\ Booking(o) = PendingOf(r) /\ PendingOf(n) = 0
    BY <2>1, <2>2 DEF Order, Booking, PendingOf
  <2>4. orders' = Append(orders, o) /\ UNCHANGED <<wallet, booked, lost>>
    BY <1>7 DEF placeOrderInsert
  <2> HIDE DEF n, o
  <2>5. /\ PendingSum(U(t))' = PendingSum(U(t)) + PendingOf(n) - PendingOf(r)
        /\ \A u \in Users \ {U(t)} : PendingSum(u)' = PendingSum(u)
    BY <1>0, <2>2, PendingMoves
  <2>6. /\ Len(orders') >= Len(Orders0)
        /\ OrderSum(U(t))' = OrderSum(U(t)) + Booking(o)
        /\ \A u \in Users \ {U(t)} : OrderSum(u)' = OrderSum(u)
    BY <1>0, <2>1, <2>3, <2>4, OrderSumInsert DEF BooksInv
  <2>7. \A u \in Users : PendingSum(u) \in Int /\ OrderSum(u) \in Int /\ PendingOf(r) \in Int
    BY <1>0, PendingSumInt, OrderSumInt, PendingInt
  <2>8. OrderSum(U(t))' + PendingSum(U(t))' = OrderSum(U(t)) + PendingSum(U(t))
    <3> DEFINE a == OrderSum(U(t))
               b == PendingSum(U(t))
               c == PendingOf(r)
    <3>1. OrderSum(U(t))' = a + c /\ PendingSum(U(t))' = b + 0 - c /\ a \in Int /\ b \in Int /\ c \in Int
      BY <1>0, <2>3, <2>5, <2>6, <2>7
    <3> HIDE DEF a, b, c
    <3>2. (a + c) + (b + 0 - c) = a + b
      BY <3>1
    <3> QED
      BY <3>1, <3>2 DEF a, b
  <2>9. ASSUME NEW u \in Users PROVE Books(u)'
    <3>1. Books(u)
      BY DEF BooksInv
    <3>2. CASE u # U(t)
      BY <2>4, <2>5, <2>6, <3>1, <3>2 DEF Books
    <3>3. CASE u = U(t)
      <4> DEFINE a == OrderSum(u)
                 b == PendingSum(u)
                 a1 == OrderSum(u)'
                 b1 == PendingSum(u)'
                 x == Wallet0[u] + booked[u] - lost[u]
      <4>1. a \in Int /\ b \in Int /\ a1 \in Int /\ b1 \in Int /\ a1 + b1 = a + b /\ x \in Int
        <5>1. a \in Int /\ b \in Int /\ x \in Int
          <6>1. Wallet0[u] \in Int /\ booked[u] \in Int /\ lost[u] \in Int
            BY <1>0, CheckoutAssumption DEF CheckoutAssumption
          <6>2. x \in Int
            BY <6>1
          <6> QED
            BY <2>7, <6>2
        <5>2. a1 + b1 = a + b
          BY <2>8, <3>3
        <5>3. a1 = a + PendingOf(r) /\ b1 = b + 0 - PendingOf(r) /\ PendingOf(r) \in Int
          BY <1>0, <2>3, <2>5, <2>6, <2>7, <3>3
        <5>4. a1 \in Int /\ b1 \in Int
          <6> HIDE DEF a, b, a1, b1
          <6> QED
            BY <5>1, <5>3
        <5> QED
          BY <5>1, <5>2, <5>4
      <4>2. wallet[u] = x + a + b
        BY <3>1 DEF Books
      <4> HIDE DEF a, b, a1, b1, x
      <4>3. wallet[u] = x + a1 + b1
        BY <4>1, <4>2
      <4> QED
        BY <2>4, <4>3 DEF Books, a1, b1, x
    <3> QED
      BY <3>2, <3>3
  <2> QED
    BY <2>6, <2>9 DEF BooksInv
<1> QED
  BY <1>1, <1>2, <1>3, <1>4, <1>5, <1>6, <1>7, ServeCases

LEMMA BooksTabStep ==
    ASSUME LedgerInv, LedgerInv', BooksInv, NEW t \in Tabs, OnAnswer(t) \/ UserAct(t)
    PROVE  BooksInv'
<1>1. Types /\ ServerTypes /\ ServerTypes' /\ RequestTypes /\ Frame
  BY TabStep DEF LedgerInv, Types
<1>2. UNCHANGED <<wallet, booked, lost, orders>>
  BY <1>1 DEF Frame, db, hist
<1>3. CASE rq' = rq
  BY <1>2, <1>3, BooksStill
<1>4. ASSUME NEW n \in Requests, rq' = [rq EXCEPT ![t] = n], PendingOf(n) = 0, rq[t].pc \in {"idle", "answered"}
      PROVE  BooksInv'
  <2>1. PendingOf(rq[t]) = 0
    BY <1>4 DEF PendingOf
  <2> QED
    BY <1>1, <1>2, <1>4, <2>1, SameOrders, BooksIdle
<1>5. CASE \E n : Sent(t, n)
  <2>1. PICK n : Sent(t, n)
    BY <1>5
  <2>2. PendingOf(n) = 0
    BY <2>1 DEF Sent, PendingOf
  <2> QED
    BY <1>4, <2>1, <2>2 DEF Sent
<1>6. CASE rq[t].pc = "answered" /\ rq' = [rq EXCEPT ![t] = NoRequest]
  <2>1. NoRequest \in Requests /\ PendingOf(NoRequest) = 0
    BY DEF Requests, NoRequest, PendingOf
  <2> QED
    BY <1>4, <1>6, <2>1
<1> QED
  BY <1>1, <1>3, <1>5, <1>6, TabStep

LEMMA NextBooksInv ==
    ASSUME LedgerInv, BooksInv, [Next]_vars
    PROVE  BooksInv'
<1>0. LedgerInv'
  BY NextLedgerInv
<1>1. CASE \E t \in Tabs : Serve(t) /\ UNCHANGED cvars
  BY <1>0, <1>1, BooksServe
<1>2. CASE \E t \in Tabs : OnAnswer(t) \/ UserAct(t)
  BY <1>0, <1>2, BooksTabStep
<1>3. CASE Background
  <2>1. UNCHANGED <<wallet, booked, lost, orders, rq>>
    BY <1>3 DEF Background, clearCoupon, NextMonth, modifyPrice, db, hist
  <2> QED
    BY <2>1, BooksStill
<1>4. CASE UNCHANGED vars
  <2>1. UNCHANGED <<wallet, booked, lost, orders, rq>>
    BY <1>4 DEF vars, svars, db, hist
  <2> QED
    BY <2>1, BooksStill
<1> QED
  BY <1>1, <1>2, <1>3, <1>4 DEF Next

LEMMA InitBooksInv ==
    ASSUME InitStorefront
    PROVE  BooksInv
<1>0. /\ Len(Orders0) \in Nat /\ orders = Orders0 /\ wallet = Wallet0 /\ Wallet0 \in [Users -> Nat]
      /\ booked = [u \in Users |-> 0] /\ lost = [u \in Users |-> 0]
      /\ \A t \in Tabs : rq[t] = NoRequest
  BY CheckoutAssumption DEF CheckoutAssumption, InitStorefront, InitCheckout, NoRequest
<1>1. ASSUME NEW u \in Users PROVE Books(u)
  <2>1. OrderSum(u) = 0
    <3>1. NewOrders(u) = {}
      BY <1>0 DEF NewOrders
    <3> QED
      BY <3>1, SumEmpty DEF OrderSum
  <2>2. PendingSum(u) = 0
    <3> DEFINE f == [t \in Tabs |-> PendingOf(rq[t])]
    <3>1. \A t \in TabsOf(u) : f[t] = 0
      BY <1>0 DEF TabsOf, PendingOf, NoRequest
    <3> HIDE DEF f
    <3>2. SumFunctionOnSet(f, TabsOf(u)) = 0
      BY <3>1, TabsOfFinite, SumZero
    <3> QED
      BY <3>2 DEF PendingSum, f
  <2>3. wallet[u] = Wallet0[u] /\ Wallet0[u] \in Nat /\ booked[u] = 0 /\ lost[u] = 0
    BY <1>0
  <2> QED
    BY <2>1, <2>2, <2>3 DEF Books
<1> QED
  BY <1>0, <1>1 DEF BooksInv

(* The tables of TypeOK are those of Types.                                *)
LEMMA TypesAreOK == Types => TypeOK
<1> SUFFICES ASSUME Types PROVE TypeOK
  OBVIOUS
<1>1. MaxQty \in Nat
  BY StorefrontAssumption DEF StorefrontAssumption
<1>2. /\ price \in ProductTable /\ stock \in QuantityTable /\ coupon \in BasketTable /\ wallet \in WalletTable
      /\ role \in [Users -> {"customer", "deluxe"}] /\ tok \in [Users -> {"customer", "deluxe"}]
      /\ cards \in CardTable /\ addresses \in AddressTable /\ clears \subseteq Users
  BY DEF Types, ServerTypes, TabTypes, ProductTable, QuantityTable, BasketTable, WalletTable, CardTable, AddressTable
<1>3. items \in BasketItemTable /\ \A u \in Users, p \in Products : items[u][p] <= MaxQty
  <2>1. items \in [Users -> [Products -> 0..MaxQty]]
    BY DEF Types, ServerTypes
  <2>2. \A u \in Users, p \in Products : items[u][p] <= MaxQty
    BY <1>1, <2>1
  <2>3. \A u \in Users : items[u] \in [Products -> Nat]
    BY <1>1, <2>1
  <2> QED
    BY <2>1, <2>2, <2>3 DEF BasketItemTable
<1>4. ASSUME NEW t \in Tabs
      PROVE  /\ rq[t].pc \in {"idle", "answered", "check", "save", "find", "put", "del", "update", "card",
                              "increment", "user", "wallet", "decrement", "role", "write", "quantity",
                              "take", "charge", "bonus", "insert", "destroy"}
             /\ ss[t].itemTotal >= Unset /\ ss[t].walletTotal >= Unset
             /\ view[t].total >= NaN
  <2>1. rq[t] \in Requests /\ ss[t] \in Sessions /\ view[t] \in Views
    BY DEF Types, RequestTypes, TabTypes
  <2>2. rq[t].pc \in {"idle", "answered", "check", "save", "find", "put", "del", "update", "card",
                      "increment", "user", "wallet", "decrement", "role", "write", "quantity",
                      "take", "charge", "bonus", "insert", "destroy"}
    BY <2>1 DEF Requests, NoRequest, ItemRequests, DelRequests, CouponRequests, TopUpRequests, UpgradeRequests,
       RecordRequests, CheckoutRequests, ToggleRequests
  <2>3. ss[t].itemTotal \in Money /\ ss[t].walletTotal \in Money /\ view[t].total \in Money
    BY <2>1 DEF Sessions, Views
  <2> QED
    BY <2>2, <2>3 DEF Money, Unset, NaN
<1> QED
  BY <1>2, <1>3, <1>4 DEF TypeOK

(* LedgersHold, for any number of customers, tabs and products: however    *)
(* the steps of placeOrder, addWalletBalance and upgradeToDeluxe           *)
(* interleave, every cent of a wallet is in the orders, in a request under *)
(* way, or in the ledger of top-ups and failures, and the stock on record  *)
(* is never smaller than what the orders have left of it.                  *)
THEOREM LedgersHoldTheorem == Spec => []LedgersHold
<1>1. InitStorefront => LedgerInv /\ BooksInv
  BY InitLedgerInv, InitBooksInv
<1>2. LedgerInv /\ BooksInv /\ [Next]_vars => LedgerInv' /\ BooksInv'
  BY NextLedgerInv, NextBooksInv
<1>3. LedgerInv /\ BooksInv => LedgersHold
  BY TypesAreOK, BooksInvBalances DEF LedgerInv, LedgersHold
<1> QED
  BY <1>1, <1>2, <1>3, PTL DEF Spec

(* SpentCouponGone: the finish handler does not wait for the coupon to be  *)
(* cleared, but when everything has come to rest, a coupon that an order   *)
(* has used is out of the basket, unless it was applied again.             *)
THEOREM SpentCouponGoneTheorem == Spec => []SpentCouponGone
<1>1. LedgerInv => SpentCouponGone
  BY DEF LedgerInv, SpentFits, SpentCouponGone, Quiet
<1> QED
  BY <1>1, LedgerInvHolds, PTL

-----------------------------------------------------------------------------
(* Overdrafts.                                                             *)

Overdrawn(u) == wallet[u] >= 0 /\ wallet'[u] < 0
Raced(u) ==
    \E t \in Tabs : /\ U(t) = u /\ rq[t].pc \in {"charge", "decrement"} /\ rq'[t].pc # rq[t].pc
                    /\ rq[t].seen # wallet[u]

LEMMA OverdraftStep ==
    ASSUME LedgerInv, [Next]_vars, NEW u \in Users, Overdrawn(u)
    PROVE  Raced(u)
<1>0. wallet \in [Users -> Int] /\ Types
  BY DEF LedgerInv, Types, ServerTypes
<1>1. wallet' # wallet
  BY <1>0 DEF Overdrawn
<1>2. PICK t \in Tabs : MovesMoney(t)
  <2>1. CASE \E t \in Tabs : OnAnswer(t) \/ UserAct(t)
    BY <1>0, <1>1, <2>1, TabStep DEF Frame, db
  <2>2. CASE Background \/ UNCHANGED vars
    BY <1>1, <2>2 DEF Background, clearCoupon, NextMonth, modifyPrice, vars, svars, db
  <2>3. ASSUME NEW t \in Tabs, Serve(t), UNCHANGED cvars PROVE MovesMoney(t)
    <3>1. ~Reads(t) /\ ~WritesItem(t) /\ ~WritesUser(t)
      BY <1>1, ReadsFrame, WritesItemFrame, WritesUserFrame DEF db
    <3>2. ~placeOrderUpdateQuantity(t) /\ ~placeOrderInsert(t) /\ ~toggleDeliveryStatus(t)
      BY <1>1 DEF placeOrderUpdateQuantity, placeOrderInsert, toggleDeliveryStatus
    <3> QED
      BY <2>3, <3>1, <3>2, ServeCases
  <2> QED
    BY <2>1, <2>2, <2>3 DEF Next
<1> DEFINE r == rq[t]
<1>3. r \in Requests /\ U(t) \in Users /\ Fits(r, taken) /\ RequestTypes
  BY UserOfTab DEF LedgerInv, Types, RequestTypes, RequestsFit
<1>4. CASE addWalletBalance(t)
  <2>1. r.amount \in Nat
    BY <1>3, <1>4, RequestKinds DEF addWalletBalance, At, TopUpRequests
  <2>2. wallet' = [wallet EXCEPT ![U(t)] = @ + r.amount]
    BY <1>4 DEF addWalletBalance
  <2> QED
    BY <1>0, <1>3, <2>1, <2>2 DEF Overdrawn
<1>5. CASE placeOrderIncrement(t)
  <2>1. r.points \in Nat
    BY <1>3, <1>5, RequestKinds DEF placeOrderIncrement, At, CheckoutRequests
  <2>2. wallet' = [wallet EXCEPT ![U(t)] = @ + r.points]
    BY <1>5 DEF placeOrderIncrement
  <2> QED
    BY <1>0, <1>3, <2>1, <2>2 DEF Overdrawn
<1>6. CASE placeOrderIncrementError(t)
  BY <1>1, <1>6 DEF placeOrderIncrementError, db
<1>7. CASE upgradeDecrement(t)
  <2>1. r.op = "upgrade" /\ r.pc = "decrement" /\ wallet' = [wallet EXCEPT ![U(t)] = @ - MembershipCost]
    BY <1>7 DEF upgradeDecrement, At
  <2>2. r \in UpgradeRequests /\ r.seen >= MembershipCost
    BY <1>3, <2>1, RequestKinds DEF Fits
  <2>3. rq'[t].pc = "role"
    BY <1>3, <1>7, <2>2, GotoStep, GoingUpgrade DEF upgradeDecrement, RequestTypes
  <2>4. U(t) = u
    BY <1>0, <1>3, <2>1 DEF Overdrawn
  <2>5. r.seen # wallet[u]
    <3>1. wallet'[u] = wallet[u] - MembershipCost /\ wallet[u] \in Int
      BY <1>0, <2>1, <2>4
    <3> HIDE DEF r
    <3> QED
      BY <2>2, <3>1 DEF Overdrawn, MembershipCost
  <2> QED
    BY <2>1, <2>3, <2>4, <2>5 DEF Raced
<1>8. CASE placeOrderDecrement(t)
  <2>1. r.op = "checkout" /\ r.pc = "charge" /\ wallet' = [wallet EXCEPT ![U(t)] = @ - r.total]
    BY <1>8 DEF placeOrderDecrement, At
  <2>2. r \in CheckoutRequests /\ r.seen >= r.total /\ r.total \in Int /\ r.seen \in Int
    BY <1>3, <2>1, RequestKinds DEF Fits, CheckoutRequests
  <2>3. rq'[t].pc = "bonus"
    BY <1>3, <1>8, <2>2, GotoStep, GoingCheckout DEF placeOrderDecrement, RequestTypes
  <2>4. U(t) = u
    BY <1>0, <1>3, <2>1 DEF Overdrawn
  <2>5. r.seen # wallet[u]
    <3>1. wallet'[u] = wallet[u] - r.total /\ wallet[u] \in Int
      BY <1>0, <2>1, <2>4
    <3> HIDE DEF r
    <3> QED
      BY <2>2, <3>1 DEF Overdrawn
  <2> QED
    BY <2>1, <2>3, <2>4, <2>5 DEF Raced
<1> QED
  BY <1>2, <1>4, <1>5, <1>6, <1>7, <1>8 DEF MovesMoney

(* OverdraftNeedsRace: placeOrder and upgradeToDeluxe check the balance in *)
(* one step and charge it in another.  A wallet becomes overdrawn only in  *)
(* a charge whose check has seen another balance.                          *)
THEOREM OverdraftNeedsRaceTheorem == Spec => OverdraftNeedsRace
<1> DEFINE A == \A u \in Users : wallet[u] >= 0 /\ wallet'[u] < 0 =>
                   \E t \in Tabs : /\ U(t) = u /\ rq[t].pc \in {"charge", "decrement"} /\ rq'[t].pc # rq[t].pc
                                   /\ rq[t].seen # wallet[u]
<1>1. LedgerInv /\ [Next]_vars => [A]_vars
  BY OverdraftStep DEF Overdrawn, Raced
<1> QED
  BY <1>1, LedgerInvHolds, PTL DEF Spec, OverdraftNeedsRace

-----------------------------------------------------------------------------
(* What a lone tab shows: the inductive invariant.                         *)

(* The coupon an order would find: the clearing that an earlier order has  *)
(* started counts as done.                                                 *)
Eff(u) == IF u \in clears THEN "none" ELSE coupon[u]

(* The order is stored, and its answer has not come.                       *)
Ordered(t) == rq[t].op = "checkout" /\ (rq[t].pc = "destroy" \/ (rq[t].pc = "answered" /\ rq[t].status = "ok"))

(* The session promises what an order would be granted.                    *)
Promised(t) == ss[t].discount = calculateApplicableDiscount(Eff(U(t)), month, ss[t].campaign)

(* A coupon that is being applied is the only one around, and its answer   *)
(* will say what the basket has.                                           *)
CouponFits(t) ==
    rq[t].op = "coupon" =>
        /\ U(t) \notin clears /\ ~ss[t].campaign
        /\ rq[t].pc # "find" => rq[t].discount = discountFromCoupon(rq[t].c, month)
        /\ rq[t].pc = "answered" => IF rq[t].status = "ok" THEN coupon[U(t)] = rq[t].c ELSE coupon[U(t)] = "none"

(* An order that has read a basket without a coupon, or that is stored,    *)
(* leaves no coupon for the next one.                                      *)
OrderedFits(t) ==
    rq[t].op = "checkout" =>
        /\ rq[t].pc # "find" /\ rq[t].c = "none" => Eff(U(t)) = "none"
        /\ Ordered(t) => Eff(U(t)) = "none"

(* The total of an order summary with these items, at the first prices.    *)
SummaryOf(its, deluxe, method, discount) ==
    LET it == ItemTotal(Price, its, deluxe)
    IN  it + deliveryAmount(method, deluxe) - DiscountAmount(it, discount)

ShownFits(t) ==
    pg[t] = "summary" =>
        view[t].shown = SummaryOf(view[t].its, isDeluxe(t), ss[t].method, ss[t].discount)

(* An order at each of its places: it was sent with what its summary had   *)
(* shown, it finds the discount that was promised, and charges the total.  *)
OrderFits(t) ==
    rq[t].op = "checkout" =>
        /\ rq[t].prices = Price
        /\ rq[t].view.shown = SummaryOf(rq[t].view.its, rq[t].deluxe, rq[t].method, rq[t].promised)
        /\ rq[t].pc = "find" => rq[t].promised = ss[t].discount /\ rq[t].campaign = ss[t].campaign
        /\ rq[t].settled /\ rq[t].pc = "find" => U(t) \notin clears
        /\ rq[t].settled /\ rq[t].pc \in {"quantity", "take"} =>
              rq[t].promised = calculateApplicableDiscount(rq[t].c, month, rq[t].campaign)
        /\ rq[t].settled /\ rq[t].pc \in {"wallet", "charge", "bonus", "insert", "destroy"} /\ rq[t].its = rq[t].view.its =>
              rq[t].total = rq[t].view.shown

(* All of it, for a tab in use whose user is not in doubt.                 *)
Agrees(t) ==
    ~doubt[U(t)] /\ InUse(t) =>
        /\ rq[t].op # "coupon" /\ ~Ordered(t) => Promised(t)
        /\ CouponFits(t) /\ OrderedFits(t)
        /\ price = Price => ShownFits(t) /\ OrderFits(t)

(* The shop: prices change once, only the first month is without doubt, a  *)
(* tab with a request is open, and two tabs of a user raise doubts.        *)
PricesFit == \A p \in Products : price[p] \in {Price[p], NewPrice}
FirstMonth == \A u \in Users : ~doubt[u] => month = 1
OpenTabs == \A t \in Tabs : rq[t].pc # "idle" => pg[t] # "closed"
LoneTabs == \A t, s \in Tabs : t # s /\ U(t) = U(s) /\ InUse(t) /\ InUse(s) => doubt[U(t)]

TabInv == PricesFit /\ FirstMonth /\ OpenTabs /\ LoneTabs /\ \A t \in Tabs : Agrees(t)

(* Nobody but the user of a tab sees what the tab and its requests do, up  *)
(* to the stock, the orders and the prices.                                *)
Others(s) ==
    /\ month' = month /\ price' = price
    /\ \A u \in Users \ {U(s)} : /\ coupon'[u] = coupon[u] /\ (u \in clears' <=> u \in clears)
                                 /\ doubt'[u] = doubt[u] /\ tok'[u] = tok[u]
    /\ \A t \in Tabs \ {s} : /\ rq'[t] = rq[t] /\ ss'[t] = ss[t] /\ pg'[t] = pg[t] /\ view'[t] = view[t]
                             /\ clicks'[t] = clicks[t]

(* What an answer or a click may add to the doubts.                        *)
Doubts(s) == \E b \in BOOLEAN : doubt' = [doubt EXCEPT ![U(s)] = @ \/ b]

LEMMA ServeOthers ==
    ASSUME LedgerInv, NEW s \in Tabs, Serve(s), UNCHANGED cvars
    PROVE  Others(s) /\ \E n : Served(s, n)
<1>0. U(s) \in Users /\ Types /\ RequestTypes /\ coupon \in [Users -> {"none", "month1"}] /\ clears \in SUBSET Users
  BY UserOfTab DEF LedgerInv, Types, ServerTypes
<1>1. ASSUME NEW n, Served(s, n), month' = month, price' = price,
             \A u \in Users \ {U(s)} : coupon'[u] = coupon[u] /\ (u \in clears' <=> u \in clears)
      PROVE  Others(s) /\ \E x : Served(s, x)
  <2>1. \A t \in Tabs \ {s} : rq'[t] = rq[t]
    BY <1>0, <1>1 DEF Served, RequestTypes
  <2> QED
    BY <1>1, <2>1 DEF Others, cvars
<1>2. CASE Reads(s)
  BY <1>1, <1>2, ReadsServed, ReadsFrame DEF db
<1>3. CASE WritesItem(s)
  <2>1. PICK st \in Status : Answer(s, st)
    BY <1>3, WritesItemFrame
  <2>2. Served(s, Answering(rq[s], st))
    BY <1>0, <1>3, <2>1, AnswerServed, WritesItemFrame DEF LedgerInv
  <2> QED
    BY <1>1, <1>3, <2>2, WritesItemFrame
<1>4. CASE WritesUser(s)
  <2>1. PICK st \in Status : Answer(s, st)
    BY <1>4, WritesUserFrame
  <2>2. Served(s, Answering(rq[s], st))
    BY <1>0, <1>4, <2>1, AnswerServed, WritesUserFrame DEF LedgerInv
  <2>3. \A u \in Users \ {U(s)} : coupon'[u] = coupon[u]
    BY <1>0, <1>4 DEF WritesUser, applyCouponUpdate, upgradeRole, writeCard, writeAddress
  <2> QED
    BY <1>1, <1>4, <2>2, <2>3, WritesUserFrame
<1>5. CASE MovesMoney(s)
  <2>1. PICK n : Served(s, n)
    BY <1>5, MovesMoneyServed DEF MovesMoney
  <2> QED
    BY <1>1, <1>5, <2>1, MovesMoneyFrame
<1>6. CASE placeOrderUpdateQuantity(s)
  BY <1>1, <1>6, TakesInv DEF placeOrderUpdateQuantity
<1>7. CASE placeOrderInsert(s)
  <2>1. Served(s, Going(rq[s], "destroy"))
    BY <1>7, InsertsInv
  <2>2. month' = month /\ price' = price /\ \A u \in Users \ {U(s)} : coupon'[u] = coupon[u] /\ (u \in clears' <=> u \in clears)
    BY <1>7 DEF placeOrderInsert
  <2> QED
    BY <1>1, <2>1, <2>2
<1>8. CASE toggleDeliveryStatus(s)
  BY <1>1, <1>8, TogglesInv DEF toggleDeliveryStatus
<1> QED
  BY <1>2, <1>3, <1>4, <1>5, <1>6, <1>7, <1>8, ServeCases

LEMMA TabOthers ==
    ASSUME Types, NEW s \in Tabs, OnAnswer(s) \/ UserAct(s)
    PROVE  Others(s) /\ Doubts(s)
<1>0. /\ U(s) \in Users /\ RequestTypes /\ TabTypes /\ ServerTypes /\ doubt \in [Users -> BOOLEAN] /\ tok \in [Users -> {"customer", "deluxe"}]
      /\ doubt = [doubt EXCEPT ![U(s)] = @ \/ FALSE]
  BY UserOfTab DEF Types, TabTypes
<1>1. \A t \in Tabs \ {s} : rq'[t] = rq[t]
  <2>1. rq' = rq \/ \E n : rq' = [rq EXCEPT ![s] = n]
    BY TabStep DEF Sent
  <2> QED
    BY <1>0, <2>1 DEF RequestTypes
<1>2. month' = month /\ price' = price /\ clears' = clears /\ coupon' = coupon
  BY TabStep DEF Frame, db
<1>3. /\ Doubts(s) /\ (tok' = tok \/ tok' = [tok EXCEPT ![U(s)] = "deluxe"])
      /\ \A t \in Tabs \ {s} : ss'[t] = ss[t] /\ pg'[t] = pg[t] /\ view'[t] = view[t] /\ clicks'[t] = clicks[t]
  <2>1. CASE Sends(s)
    <3>1. \A t \in Tabs \ {s} : ss'[t] = ss[t] /\ clicks'[t] = clicks[t]
      BY <1>0, <2>1, SendsFrame DEF TabTypes
    <3>2. Doubts(s)
      <4>1. (ss[s].campaign \/ U(s) \in clears) \in BOOLEAN
        OBVIOUS
      <4> QED
        BY <1>0, <2>1, <4>1, SendsFrame DEF Doubts
    <3> QED
      BY <2>1, <3>1, <3>2, SendsFrame
  <2>2. CASE Shows(s)
    <3>1. PICK page \in Screens \ {"closed"}, x \in Sessions :
             /\ Show(s, page, x)
             /\ (SameCoupon(x, ss[s]) /\ doubt' = doubt) \/ \E b \in BOOLEAN : applyCampaign(s, b)
      BY <2>2, ShowsStep
    <3>2. \A t \in Tabs \ {s} : ss'[t] = ss[t] /\ pg'[t] = pg[t] /\ view'[t] = view[t]
      BY <1>0, <3>1, ShowType
    <3>3. tok' = tok /\ \A t \in Tabs \ {s} : clicks'[t] = clicks[t]
      BY <1>0, <2>2, ShowsStep DEF Click, TabTypes
    <3>4. Doubts(s)
      <4>1. CASE doubt' = doubt
        BY <1>0, <4>1 DEF Doubts
      <4>2. CASE \E b \in BOOLEAN : applyCampaign(s, b)
        <5>1. PICK b \in BOOLEAN : applyCampaign(s, b)
          BY <4>2
        <5> DEFINE d == coupon[U(s)] # "none" \/ rq[s].pc # "idle" \/ (~b /\ ss[s].campaign)
        <5>2. d \in BOOLEAN /\ doubt' = [doubt EXCEPT ![U(s)] = @ \/ d]
          BY <1>0, <5>1 DEF applyCampaign
        <5> QED
          BY <5>2 DEF Doubts
      <4> QED
        BY <3>1, <4>1, <4>2
    <3> QED
      BY <3>2, <3>3, <3>4
  <2>3. CASE OnAnswer(s)
    <3>1. clicks' = clicks
      BY <2>3, AnswersStep
    <3>2. \A t \in Tabs \ {s} : ss'[t] = ss[t] /\ pg'[t] = pg[t] /\ view'[t] = view[t]
      <4>1. CASE onCoupon(s)
        BY <1>0, <4>1 DEF onCoupon, TabTypes
      <4>2. CASE ~onCoupon(s)
        <5>1. CASE UNCHANGED <<pg, ss, view>>
          BY <5>1
        <5>2. CASE \E page \in Screens, x \in Sessions : Show(s, page, x)
          BY <1>0, <5>2, ShowType
        <5> QED
          BY <2>3, <4>2, <5>1, <5>2, AnswersShow
      <4> QED
        BY <4>1, <4>2
    <3>3. tok' = tok \/ tok' = [tok EXCEPT ![U(s)] = "deluxe"]
      BY <2>3 DEF OnAnswer, onItemChanged, onCoupon, onTopUp, onUpgrade, onOrder, onRecord, onToggle, cvars
    <3>4. Doubts(s)
      <4>1. CASE doubt' = doubt
        BY <1>0, <4>1 DEF Doubts
      <4>2. CASE onCoupon(s)
        <5> DEFINE b == pg[s] # "payShop" \/ (rq[s].status # "ok" /\ ss[s].discount > 0)
        <5>1. b \in BOOLEAN /\ doubt' = [doubt EXCEPT ![U(s)] = @ \/ b]
          BY <1>0, <4>2 DEF onCoupon
        <5> QED
          BY <5>1 DEF Doubts
      <4>3. CASE onOrder(s)
        <5> DEFINE b == ss[s].discount # rq[s].promised
        <5>1. b \in BOOLEAN /\ doubt' = [doubt EXCEPT ![U(s)] = @ \/ b]
          BY <4>3 DEF onOrder
        <5> QED
          BY <5>1 DEF Doubts
      <4> QED
        BY <2>3, <4>1, <4>2, <4>3 DEF OnAnswer, onItemChanged, onTopUp, onUpgrade, onRecord, onToggle, cvars
    <3> QED
      BY <3>1, <3>2, <3>3, <3>4
  <2> QED
    BY <2>1, <2>2, <2>3, UserActCases
<1>4. \A u \in Users \ {U(s)} : doubt'[u] = doubt[u] /\ tok'[u] = tok[u]
  BY <1>0, <1>3 DEF Doubts
<1> QED
  BY <1>1, <1>2, <1>3, <1>4 DEF Others

(* Doubts stay, and a tab that is not in use is never used.                *)
LEMMA DoubtsStay ==
    ASSUME Types, OpenTabs, [Next]_vars
    PROVE  /\ \A u \in Users : doubt[u] => doubt'[u]
           /\ \A t \in Tabs : InUse(t)' => InUse(t)
<1>0. doubt \in [Users -> BOOLEAN] /\ clicks \in [Tabs -> Nat] /\ Types
  BY DEF Types, TabTypes
<1>1. CASE UNCHANGED cvars
  BY <1>1 DEF cvars, InUse
<1>2. CASE doubt' = [u \in Users |-> TRUE] /\ UNCHANGED <<tok, pg, ss, view, clicks>>
  BY <1>2 DEF InUse
<1>3. ASSUME NEW s \in Tabs, OnAnswer(s) \/ UserAct(s)
      PROVE  /\ \A u \in Users : doubt[u] => doubt'[u]
             /\ \A t \in Tabs : InUse(t)' => InUse(t)
  <2>1. Others(s) /\ Doubts(s)
    BY <1>3, TabOthers
  <2>2. U(s) \in Users
    BY UserOfTab
  <2>3. \A u \in Users : doubt[u] => doubt'[u]
    BY <1>0, <2>1, <2>2 DEF Doubts
  <2>4. InUse(s)
    <3>1. CASE OnAnswer(s)
      BY <3>1, AnswersStep DEF OpenTabs, InUse
    <3>2. CASE UserAct(s)
      BY <3>2, UserActCases, SendsFrame, ShowsStep DEF InUse, Click
    <3> QED
      BY <1>3, <3>1, <3>2
  <2>5. \A t \in Tabs \ {s} : InUse(t)' => InUse(t)
    BY <2>1 DEF Others, InUse
  <2> QED
    BY <2>3, <2>4, <2>5
<1>4. CASE Background
  BY <1>1, <1>2, <1>4 DEF Background, modifyPrice
<1>5. CASE \E t \in Tabs : Serve(t) /\ UNCHANGED cvars
  BY <1>1, <1>5
<1>6. CASE UNCHANGED vars
  BY <1>1, <1>6 DEF vars
<1> QED
  BY <1>3, <1>4, <1>5, <1>6 DEF Next

LEMMA ServeBusy ==
    ASSUME NEW s \in Tabs, Serve(s)
    PROVE  rq[s].pc \notin {"idle", "answered"}
<1>1. CASE Reads(s) \/ WritesItem(s) \/ WritesUser(s) \/ MovesMoney(s)
  BY <1>1, ReadsFrame, WritesItemFrame, WritesUserFrame, MovesMoneyFrame
<1>2. CASE placeOrderUpdateQuantity(s) \/ placeOrderInsert(s) \/ toggleDeliveryStatus(s)
  BY <1>2 DEF placeOrderUpdateQuantity, placeOrderInsert, toggleDeliveryStatus, At
<1> QED
  BY <1>1, <1>2, ServeCases

LEMMA SendsOpen ==
    ASSUME NEW s \in Tabs, Sends(s)
    PROVE  pg[s] \notin {"closed", "completion"}
  BY DEF Sends, addToBasket, delete, addToQuantity, applyCoupon, choosePaymentDeluxe, choosePaymentWallet,
         saveAddress, deleteAddress, saveCard, deleteCard, placeOrder, changeDeliveryStatus

(* The parts of the invariant that are about the shop as a whole.          *)
ShopInv == PricesFit /\ FirstMonth /\ OpenTabs /\ LoneTabs

LEMMA NextShopInv ==
    ASSUME LedgerInv, ShopInv, [Next]_vars
    PROVE  ShopInv'
<1>0. /\ Types /\ RequestTypes /\ ServerTypes /\ TabTypes /\ price \in [Products -> Nat] /\ pg \in [Tabs -> Screens]
      /\ rq \in [Tabs -> Requests] /\ doubt \in [Users -> BOOLEAN]
  BY DEF LedgerInv, Types, ServerTypes, TabTypes, RequestTypes
<1>1. /\ \A u \in Users : doubt[u] => doubt'[u]
      /\ \A t \in Tabs : InUse(t)' => InUse(t)
  BY <1>0, DoubtsStay DEF ShopInv
<1>2. LoneTabs'
  BY <1>1, UserOfTab DEF ShopInv, LoneTabs, U
<1>3. CASE UNCHANGED <<price, month, rq, pg>>
  BY <1>1, <1>2, <1>3 DEF ShopInv, PricesFit, FirstMonth, OpenTabs
<1>4. ASSUME NEW s \in Tabs, Serve(s), UNCHANGED cvars PROVE ShopInv'
  <2>1. Others(s)
    BY <1>4, ServeOthers
  <2>2. OpenTabs'
    BY <1>4, <2>1, ServeBusy DEF ShopInv, OpenTabs, Others, cvars
  <2> QED
    BY <1>1, <1>2, <2>1, <2>2 DEF ShopInv, PricesFit, FirstMonth, Others
<1>5. ASSUME NEW s \in Tabs, OnAnswer(s) \/ UserAct(s) PROVE ShopInv'
  <2>1. Others(s)
    BY <1>0, <1>5, TabOthers
  <2>2. rq'[s].pc # "idle" => pg'[s] # "closed"
    <3>1. CASE OnAnswer(s)
      BY <1>0, <3>1, AnswersStep DEF NoRequest
    <3>2. CASE Sends(s)
      BY <1>0, <3>2, SendsOpen, SendsFrame
    <3>3. CASE Shows(s)
      BY <1>0, <3>3, ShowsStep, ShowType
    <3> QED
      BY <1>5, <3>1, <3>2, <3>3, UserActCases
  <2>3. OpenTabs'
    BY <2>1, <2>2 DEF ShopInv, OpenTabs, Others
  <2> QED
    BY <1>1, <1>2, <2>1, <2>3 DEF ShopInv, PricesFit, FirstMonth, Others
<1>6. CASE Background
  <2>1. CASE \E u \in Users : clearCoupon(u) /\ UNCHANGED cvars
    BY <1>3, <2>1 DEF clearCoupon, cvars
  <2>2. CASE NextMonth /\ doubt' = [u \in Users |-> TRUE] /\ UNCHANGED <<tok, pg, ss, view, clicks>>
    BY <1>2, <2>2 DEF ShopInv, PricesFit, FirstMonth, OpenTabs, NextMonth, db
  <2>3. CASE \E p \in Products : modifyPrice(p)
    BY <1>0, <1>2, <2>3 DEF ShopInv, PricesFit, FirstMonth, OpenTabs, modifyPrice, cvars
  <2> QED
    BY <1>6, <2>1, <2>2, <2>3 DEF Background
<1>7. CASE UNCHANGED vars
  BY <1>3, <1>7 DEF vars, svars, cvars, db
<1> QED
  BY <1>4, <1>5, <1>6, <1>7 DEF Next

-----------------------------------------------------------------------------
(* A tab agrees with the server after a step of somebody else.             *)

LEMMA AgreesFrame ==
    ASSUME NEW t \in Tabs, Agrees(t), month' = month, price' = price \/ price' # Price,
           coupon'[U(t)] = coupon[U(t)], U(t) \in clears' <=> U(t) \in clears,
           doubt'[U(t)] = doubt[U(t)], tok'[U(t)] = tok[U(t)],
           rq'[t] = rq[t], ss'[t] = ss[t], pg'[t] = pg[t], view'[t] = view[t], clicks'[t] = clicks[t]
    PROVE  Agrees(t)'
<1>1. InUse(t)' <=> InUse(t)
  BY DEF InUse
<1>2. Eff(U(t))' = Eff(U(t))
  BY DEF Eff, U
<1>3. Promised(t)' <=> Promised(t)
  BY <1>2 DEF Promised, U
<1>4. Ordered(t)' <=> Ordered(t)
  BY DEF Ordered
<1>5. CouponFits(t)' <=> CouponFits(t)
  BY DEF CouponFits, U
<1>6. OrderedFits(t)' <=> OrderedFits(t)
  BY <1>2, <1>4 DEF OrderedFits, U
<1>7. ShownFits(t)' <=> ShownFits(t)
  BY DEF ShownFits, isDeluxe, U
<1>8. OrderFits(t)' <=> OrderFits(t)
  BY DEF OrderFits, U
<1> QED
  BY <1>1, <1>3, <1>4, <1>5, <1>6, <1>7, <1>8 DEF Agrees, U

LEMMA AgreesOthers ==
    ASSUME Types, ShopInv, [Next]_vars, NEW s \in Tabs, InUse(s), Others(s), NEW t \in Tabs \ {s}, Agrees(t)
    PROVE  Agrees(t)'
<1>0. U(t) \in Users
  BY UserOfTab
<1>1. CASE U(t) # U(s)
  BY <1>0, <1>1, AgreesFrame DEF Others
<1>2. CASE U(t) = U(s)
  <2>1. InUse(t)' => doubt'[U(t)]
    BY <1>0, <1>2, DoubtsStay DEF ShopInv, LoneTabs
  <2> QED
    BY <2>1 DEF Agrees, U
<1> QED
  BY <1>1, <1>2

-----------------------------------------------------------------------------
(* A tab agrees with the server after a step of its own request.           *)

Coupons == UNCHANGED <<price, coupon, clears, month>>

(* A request that has nothing to do with coupons.                          *)
LEMMA AgreesPlain ==
    ASSUME Types, NEW t \in Tabs, Agrees(t), InUse(t), Coupons, UNCHANGED cvars,
           rq[t].op \notin {"coupon", "checkout"}, rq'[t].op \notin {"coupon", "checkout"}
    PROVE  Agrees(t)'
<1> SUFFICES ASSUME ~doubt[U(t)] PROVE Agrees(t)'
  BY DEF Agrees, cvars, U
<1>1. Promised(t) /\ (price = Price => ShownFits(t))
  BY DEF Agrees, Ordered
<1>2. Promised(t)'
  BY <1>1 DEF Promised, Eff, Coupons, cvars, U
<1>3. price' = Price => ShownFits(t)'
  BY <1>1 DEF ShownFits, Coupons, cvars, isDeluxe, U
<1>4. CouponFits(t)' /\ OrderedFits(t)' /\ OrderFits(t)'
  BY DEF CouponFits, OrderedFits, OrderFits
<1> QED
  BY <1>2, <1>3, <1>4 DEF Agrees

(* An order goes on after its basket was read.                             *)
Further(n, r) ==
    /\ SameOrder(n, r) /\ n.c = r.c /\ n.prices = r.prices /\ n.its = r.its
    /\ r.pc # "find" /\ n.pc # "find"
    /\ n.pc \in {"quantity", "take"} => r.pc \in {"quantity", "take"}
    /\ n.pc \in {"wallet", "charge", "bonus", "insert"} => r.pc \in {"wallet", "charge", "bonus", "insert"} /\ n.total = r.total
    /\ n.pc # "destroy"
    /\ IF n.pc = "answered" /\ n.status = "ok" THEN r.pc = "destroy" ELSE r.pc \notin {"destroy", "answered"}

LEMMA AgreesFurther ==
    ASSUME Types, NEW t \in Tabs, Agrees(t), InUse(t), Coupons, UNCHANGED cvars,
           rq[t].op = "checkout", rq'[t].op = "checkout", Further(rq'[t], rq[t])
    PROVE  Agrees(t)'
<1> DEFINE r == rq[t]
           n == rq'[t]
<1> SUFFICES ASSUME ~doubt[U(t)] PROVE Agrees(t)'
  BY DEF Agrees, cvars, U
<1>0. Eff(U(t))' = Eff(U(t))
  BY DEF Eff, Coupons, U
<1>1. Ordered(t)' <=> Ordered(t)
  BY DEF Ordered, Further
<1>2. (~Ordered(t) => Promised(t)) /\ OrderedFits(t) /\ (price = Price => ShownFits(t) /\ OrderFits(t))
  BY DEF Agrees
<1>3. ~Ordered(t)' => Promised(t)'
  BY <1>0, <1>1, <1>2 DEF Promised, Coupons, cvars, U
<1>4. price' = Price => ShownFits(t)'
  BY <1>2 DEF ShownFits, Coupons, cvars, isDeluxe, U
<1>5. CouponFits(t)'
  BY DEF CouponFits
<1>6. OrderedFits(t)'
  BY <1>0, <1>1, <1>2 DEF OrderedFits, Further, U
<1>7. ASSUME price' = Price PROVE OrderFits(t)'
  <2>1. OrderFits(t)
    BY <1>2, <1>7 DEF Coupons
  <2>2. /\ n.prices = Price /\ n.view.shown = SummaryOf(n.view.its, n.deluxe, n.method, n.promised)
    BY <2>1 DEF OrderFits, Further, SameOrder
  <2>3. n.settled /\ n.pc \in {"quantity", "take"} => n.promised = calculateApplicableDiscount(n.c, month', n.campaign)
    BY <2>1 DEF OrderFits, Further, SameOrder, Coupons
  <2>4. n.settled /\ n.pc \in {"wallet", "charge", "bonus", "insert", "destroy"} /\ n.its = n.view.its => n.total = n.view.shown
    BY <2>1 DEF OrderFits, Further, SameOrder
  <2>5. n.pc # "find"
    BY DEF Further
  <2> QED
    BY <2>2, <2>3, <2>4, <2>5 DEF OrderFits
<1> QED
  BY <1>3, <1>4, <1>5, <1>6, <1>7 DEF Agrees

(* applyCoupon on the server.                                              *)
LEMMA AgreesCoupon ==
    ASSUME LedgerInv, NEW t \in Tabs, Agrees(t), InUse(t), applyCouponFind(t) \/ applyCouponUpdate(t), UNCHANGED cvars
    PROVE  Agrees(t)'
<1> DEFINE r == rq[t]
           n == rq'[t]
<1> SUFFICES ASSUME ~doubt[U(t)] PROVE Agrees(t)'
  BY DEF Agrees, cvars, U
<1>0. r \in CouponRequests /\ r.op = "coupon" /\ RequestTypes /\ U(t) \in Users /\ coupon \in [Users -> {"none", "month1"}]
  BY RequestKinds, UserOfTab DEF LedgerInv, Types, RequestTypes, ServerTypes, applyCouponFind, applyCouponUpdate, At
<1>1. CouponFits(t) /\ (price = Price => ShownFits(t))
  BY DEF Agrees
<1>2. UNCHANGED <<price, clears, month>>
  BY DEF applyCouponFind, applyCouponUpdate, db
<1>3. n.op = "coupon" /\ CouponFits(t)'
  <2>1. CASE applyCouponFind(t)
    <3> DEFINE d == discountFromCoupon(r.c, month)
    <3>1. d \in 0..100
      BY Grants
    <3>2. n = Worth(r, d)
      BY <1>0, <2>1, CouponFindStep DEF RequestTypes
    <3>3. n \in CouponRequests /\ n.pc = "update" /\ n.c = r.c /\ n.discount = d
      BY <1>0, <3>1, <3>2, WorthKeeps
    <3> QED
      BY <1>0, <1>1, <1>2, <3>3 DEF CouponFits, CouponRequests, cvars, U
  <2>2. CASE applyCouponUpdate(t)
    <3> DEFINE st == IF r.discount > 0 THEN "ok" ELSE "error"
    <3>1. n = Answering(r, st) /\ st \in Status
      BY <1>0, <2>2, AnswerStep DEF applyCouponUpdate, RequestTypes, Status
    <3>2. n.op = "coupon" /\ n.pc = "answered" /\ n.status = st /\ n.c = r.c /\ n.discount = r.discount
      BY <1>0, <3>1, AnsweringKeeps, AnsweringCoupon DEF RequestTypes
    <3>3. coupon'[U(t)] = IF r.discount > 0 THEN r.c ELSE "none"
      BY <1>0, <2>2 DEF applyCouponUpdate
    <3>4. r.discount = discountFromCoupon(r.c, month)
      BY <1>0, <1>1, <2>2 DEF CouponFits, applyCouponUpdate, At
    <3> QED
      BY <1>0, <1>1, <1>2, <3>2, <3>3, <3>4 DEF CouponFits, cvars, U
  <2> QED
    BY <2>1, <2>2
<1>4. price' = Price => ShownFits(t)'
  BY <1>1, <1>2 DEF ShownFits, cvars, isDeluxe, U
<1>5. OrderedFits(t)' /\ OrderFits(t)'
  BY <1>3 DEF OrderedFits, OrderFits
<1> QED
  BY <1>3, <1>4, <1>5 DEF Agrees

(* placeOrderFind: the basket and its coupon are read.                     *)
LEMMA AgreesFind ==
    ASSUME LedgerInv, NEW t \in Tabs, Agrees(t), InUse(t), placeOrderFind(t), UNCHANGED cvars
    PROVE  Agrees(t)'
<1> DEFINE r == rq[t]
           n == rq'[t]
           its == items[U(t)]
           todo == {p \in Products : items[U(t)][p] > 0}
<1> SUFFICES ASSUME ~doubt[U(t)] PROVE Agrees(t)'
  BY DEF Agrees, cvars, U
<1>0. /\ r \in CheckoutRequests /\ r.op = "checkout" /\ r.pc = "find" /\ RequestTypes /\ U(t) \in Users
      /\ coupon[U(t)] \in {"none", "month1"} /\ price \in [Products -> Nat]
  BY RequestKinds, UserOfTab DEF LedgerInv, Types, RequestTypes, ServerTypes, placeOrderFind, At
<1>1. its \in [Products -> Nat] /\ todo \in SUBSET Products
  <2>1. its \in [Products -> 0..MaxQty] /\ MaxQty \in Nat
    BY <1>0, StorefrontAssumption DEF LedgerInv, Types, ServerTypes, StorefrontAssumption
  <2> QED
    BY <2>1
<1>2. n = Finding(r, its, price, coupon[U(t)], todo)
  BY <1>0, FindStep DEF RequestTypes
<1>3. n \in CheckoutRequests /\ n.pc = "quantity" /\ n.c = coupon[U(t)] /\ n.prices = price /\ SameOrder(n, r)
  <2> HIDE DEF its, todo
  <2> QED
    BY <1>0, <1>1, <1>2, FindingKeeps
<1> HIDE DEF its, todo
<1>4. n.op = "checkout" /\ Coupons
  BY <1>3 DEF CheckoutRequests, placeOrderFind, Coupons, db
<1>5. Promised(t) /\ (price = Price => ShownFits(t) /\ OrderFits(t))
  BY <1>0 DEF Agrees, Ordered
<1>6. Promised(t)' /\ CouponFits(t)' /\ OrderedFits(t)'
  <2>1. Promised(t)'
    BY <1>4, <1>5 DEF Promised, Eff, Coupons, cvars, U
  <2>2. CouponFits(t)' /\ OrderedFits(t)'
    BY <1>3, <1>4 DEF CouponFits, OrderedFits, Ordered, Eff, Coupons, U
  <2> QED
    BY <2>1, <2>2
<1>7. ASSUME price' = Price PROVE ShownFits(t)' /\ OrderFits(t)'
  <2>1. price = Price /\ ShownFits(t) /\ OrderFits(t)
    BY <1>4, <1>5, <1>7 DEF Coupons
  <2>2. ShownFits(t)'
    BY <1>4, <2>1 DEF ShownFits, Coupons, cvars, isDeluxe, U
  <2>3. n.prices = Price /\ n.view.shown = SummaryOf(n.view.its, n.deluxe, n.method, n.promised)
    BY <1>0, <1>3, <2>1 DEF OrderFits, SameOrder
  <2>4. n.settled => n.promised = calculateApplicableDiscount(n.c, month', n.campaign)
    <3>1. n.settled => U(t) \notin clears /\ n.promised = ss[t].discount /\ n.campaign = ss[t].campaign
      BY <1>0, <1>3, <2>1 DEF OrderFits, SameOrder
    <3> QED
      BY <1>3, <1>4, <1>5, <3>1 DEF Promised, Eff, Coupons
  <2> QED
    BY <1>3, <2>2, <2>3, <2>4 DEF OrderFits
<1> QED
  BY <1>6, <1>7 DEF Agrees

(* placeOrderTotal: what the summary has shown is what is charged.         *)
LEMMA AgreesTotal ==
    ASSUME LedgerInv, NEW t \in Tabs, Agrees(t), InUse(t), placeOrderTotal(t), UNCHANGED cvars
    PROVE  Agrees(t)'
<1> DEFINE r == rq[t]
           n == rq'[t]
           l == IF r.pay = "wallet" THEN "wallet" ELSE "bonus"
           points == Points(r.prices, r.its, r.deluxe)
           d == calculateApplicableDiscount(r.c, month, r.campaign)
           total == Total(r, d)
<1> SUFFICES ASSUME ~doubt[U(t)] PROVE Agrees(t)'
  BY DEF Agrees, cvars, U
<1>0. r \in CheckoutRequests /\ r.op = "checkout" /\ r.pc = "quantity" /\ RequestTypes
  BY RequestKinds DEF LedgerInv, Types, RequestTypes, placeOrderTotal, At
<1>1. r.prices \in [Products -> Nat] /\ r.its \in [Products -> Nat] /\ r.deluxe \in BOOLEAN /\ r.campaign \in BOOLEAN
      /\ r.method \in BOOLEAN
  BY <1>0 DEF CheckoutRequests
<1>2. Gross(r) \in Nat /\ points \in Nat /\ d \in 0..100
  BY <1>1, TotalsNat, Grants DEF Gross
<1>3. DiscountAmount(Gross(r), d) \in Nat /\ deliveryAmount(r.method, r.deluxe) \in Nat
  BY <1>1, <1>2, DiscountBound, DeliveryNat
<1>4. total \in Int /\ total = Gross(r) + deliveryAmount(r.method, r.deluxe) - DiscountAmount(Gross(r), d)
  <2> DEFINE x == Gross(r)
             y == deliveryAmount(r.method, r.deluxe)
             z == DiscountAmount(Gross(r), d)
  <2>1. x \in Nat /\ y \in Nat /\ z \in Nat /\ total = x - z + y
    BY <1>2, <1>3 DEF Total
  <2> HIDE DEF x, y, z, total
  <2>2. total \in Int /\ total = x + y - z
    BY <2>1
  <2> QED
    BY <2>2 DEF x, y, z
<1>5. n = Pricing(r, l, points, total) /\ l \in {"wallet", "bonus"}
  BY <1>0, TotalStep DEF RequestTypes
<1> HIDE DEF l, points, total, d
<1>6. /\ n \in CheckoutRequests /\ n.pc = l /\ n.total = total /\ SameOrder(n, r)
      /\ n.its = r.its /\ n.prices = r.prices /\ n.c = r.c
  <2> HIDE DEF r, n
  <2> DEFINE x == Pricing(r, l, points, total)
  <2>1. /\ x \in CheckoutRequests /\ x.pc = l /\ x.total = total /\ SameOrder(x, r)
        /\ x.its = r.its /\ x.prices = r.prices /\ x.c = r.c
    <3>1. r \in CheckoutRequests /\ l \in {"wallet", "bonus"} /\ points \in Nat /\ total \in Int
      BY <1>0, <1>2, <1>4, <1>5
    <3> QED
      BY <3>1, PricingKeeps
  <2>2. n = x
    BY <1>5
  <2> HIDE DEF x
  <2> QED
    BY <2>1, <2>2
<1>7. n.op = "checkout" /\ Coupons
  BY <1>6 DEF CheckoutRequests, placeOrderTotal, Coupons, db
<1>8. Promised(t) /\ OrderedFits(t) /\ (price = Price => ShownFits(t) /\ OrderFits(t))
  BY <1>0 DEF Agrees, Ordered
<1>9. Promised(t)' /\ CouponFits(t)' /\ OrderedFits(t)'
  <2>1. Promised(t)'
    BY <1>7, <1>8 DEF Promised, Eff, Coupons, cvars, U
  <2>2. CouponFits(t)'
    BY <1>7 DEF CouponFits
  <2>3. OrderedFits(t)'
    BY <1>0, <1>5, <1>6, <1>7, <1>8 DEF OrderedFits, Ordered, Eff, Coupons, U
  <2> QED
    BY <2>1, <2>2, <2>3
<1>10. ASSUME price' = Price PROVE ShownFits(t)' /\ OrderFits(t)'
  <2>1. price = Price /\ ShownFits(t) /\ OrderFits(t)
    BY <1>7, <1>8, <1>10 DEF Coupons
  <2>2. ShownFits(t)'
    BY <1>7, <2>1 DEF ShownFits, Coupons, cvars, isDeluxe, U
  <2>3. n.prices = Price /\ n.view.shown = SummaryOf(n.view.its, n.deluxe, n.method, n.promised)
    BY <1>0, <1>6, <2>1 DEF OrderFits, SameOrder
  <2>4. ASSUME n.settled, n.its = n.view.its PROVE n.total = n.view.shown
    <3>1. r.settled /\ r.promised = d /\ n.promised = d /\ n.deluxe = r.deluxe /\ n.method = r.method
      BY <1>0, <1>6, <2>1, <2>4 DEF OrderFits, SameOrder, d
    <3>2. Gross(r) = ItemTotal(Price, n.view.its, n.deluxe)
      BY <1>6, <2>3, <2>4, <3>1 DEF Gross
    <3> QED
      BY <1>4, <1>6, <2>3, <3>1, <3>2 DEF SummaryOf
  <2> QED
    BY <1>5, <1>6, <2>2, <2>3, <2>4 DEF OrderFits
<1> QED
  BY <1>9, <1>10 DEF Agrees

(* placeOrderInsert: the clearing of the coupon begins.                    *)
LEMMA AgreesInsert ==
    ASSUME LedgerInv, NEW t \in Tabs, Agrees(t), InUse(t), placeOrderInsert(t), UNCHANGED cvars
    PROVE  Agrees(t)'
<1> DEFINE r == rq[t]
           n == rq'[t]
<1> SUFFICES ASSUME ~doubt[U(t)] PROVE Agrees(t)'
  BY DEF Agrees, cvars, U
<1>0. r \in CheckoutRequests /\ r.op = "checkout" /\ r.pc = "insert" /\ RequestTypes
  BY RequestKinds DEF LedgerInv, Types, RequestTypes, placeOrderInsert, At
<1>1. n = Going(r, "destroy")
  BY <1>0, GotoStep DEF placeOrderInsert, RequestTypes
<1>2. n.op = "checkout" /\ n.pc = "destroy" /\ SameOrder(n, r) /\ SamePrice(n, r)
  BY <1>0, <1>1, GoingCheckout
<1>3. /\ UNCHANGED <<price, coupon, month>>
      /\ IF r.c = "none" THEN clears' = clears ELSE clears' = clears \cup {U(t)}
  BY DEF placeOrderInsert
<1>4. OrderedFits(t) /\ (price = Price => ShownFits(t) /\ OrderFits(t))
  BY DEF Agrees
<1>5. Ordered(t)' /\ CouponFits(t)'
  BY <1>2 DEF Ordered, CouponFits
<1>6. OrderedFits(t)'
  <2>1. Eff(U(t))' = "none"
    <3>1. CASE r.c = "none"
      BY <1>0, <1>3, <1>4, <3>1 DEF OrderedFits, Eff, U
    <3>2. CASE r.c # "none"
      BY <1>3, <3>2 DEF Eff, U
    <3> QED
      BY <3>1, <3>2
  <2> QED
    BY <2>1 DEF OrderedFits, U
<1>7. ASSUME price' = Price PROVE ShownFits(t)' /\ OrderFits(t)'
  <2>1. price = Price /\ ShownFits(t) /\ OrderFits(t)
    BY <1>3, <1>4, <1>7
  <2>2. ShownFits(t)'
    BY <2>1 DEF ShownFits, cvars, isDeluxe, U
  <2>3. OrderFits(t)'
    BY <1>0, <1>2, <2>1 DEF OrderFits, SameOrder, SamePrice, U
  <2> QED
    BY <2>2, <2>3
<1> QED
  BY <1>5, <1>6, <1>7 DEF Agrees

(* The rest of placeOrder.                                                 *)
Continues(t) ==
    \/ placeOrderReadQuantity(t) \/ placeOrderUpdateQuantity(t) \/ placeOrderQuantityError(t) \/ placeOrderFindWallet(t)
    \/ placeOrderDecrement(t) \/ placeOrderIncrement(t) \/ placeOrderIncrementError(t) \/ placeOrderDestroy(t)

LEMMA ContinuesFurther ==
    ASSUME LedgerInv, NEW t \in Tabs, Continues(t), UNCHANGED cvars
    PROVE  rq[t].op = "checkout" /\ rq'[t].op = "checkout" /\ Further(rq'[t], rq[t]) /\ Coupons
<1> DEFINE r == rq[t]
           n == rq'[t]
<1> USE DEF At
<1>0. r \in CheckoutRequests /\ r \in Requests /\ r.op = "checkout" /\ RequestTypes /\ U(t) \in Users
  BY RequestKinds, UserOfTab DEF LedgerInv, Types, RequestTypes, Continues, placeOrderReadQuantity,
     placeOrderUpdateQuantity, placeOrderQuantityError, placeOrderFindWallet, placeOrderDecrement, placeOrderIncrement,
     placeOrderIncrementError, placeOrderDestroy
<1>1. Coupons
  BY DEF Continues, placeOrderReadQuantity, placeOrderUpdateQuantity, placeOrderQuantityError, placeOrderFindWallet,
     placeOrderDecrement, placeOrderIncrement, placeOrderIncrementError, placeOrderDestroy, Coupons, db
<1>2. ASSUME NEW st \in Status, Answer(t, st), IF st = "ok" THEN r.pc = "destroy" ELSE r.pc \in {"take", "wallet", "bonus"}
      PROVE  n.op = "checkout" /\ Further(n, r)
  <2>1. n = Answering(r, st)
    BY <1>0, <1>2, AnswerStep DEF RequestTypes
  <2>2. n.op = "checkout" /\ n.pc = "answered" /\ n.status = st /\ SameOrder(n, r) /\ SamePrice(n, r)
    BY <1>0, <2>1, AnsweringKeeps, AnsweringCheckout
  <2> HIDE DEF n
  <2> QED
    BY <1>2, <2>2 DEF Further, SamePrice
<1>3. ASSUME NEW x \in CheckoutRequests, n = x, SameOrder(x, r), x.c = r.c, x.prices = r.prices, x.its = r.its,
             \/ x.pc \in {"quantity", "take"} /\ r.pc \in {"quantity", "take"}
             \/ x.pc \in {"charge", "bonus", "insert"} /\ r.pc \in {"wallet", "charge", "bonus"} /\ x.total = r.total
      PROVE  n.op = "checkout" /\ Further(n, r)
  <2>1. x.op = "checkout"
    BY DEF CheckoutRequests
  <2> HIDE DEF n
  <2> QED
    BY <1>3, <2>1 DEF Further
<1>4. CASE placeOrderReadQuantity(t)
  <2>1. PICK p \in r.todo : rq' = [rq EXCEPT ![t] = Reading(r, p, stock[p])]
    BY <1>0, <1>4, ReadStep
  <2> DEFINE x == Reading(r, p, stock[p])
  <2>2. p \in Products /\ stock[p] \in Int
    BY <1>0 DEF CheckoutRequests, LedgerInv, Types, ServerTypes
  <2>3. x \in CheckoutRequests /\ x.pc = "take" /\ SameOrder(x, r) /\ SamePrice(x, r)
    BY <1>0, <2>2, ReadingKeeps
  <2>4. n = x /\ r.pc = "quantity"
    BY <1>0, <1>4, <2>1 DEF RequestTypes, placeOrderReadQuantity
  <2> HIDE DEF x
  <2> QED
    BY <1>1, <1>0, <1>3, <2>3, <2>4 DEF SamePrice
<1>5. CASE placeOrderUpdateQuantity(t)
  <2> DEFINE x == Taking(r)
  <2>1. x \in CheckoutRequests /\ x.pc = "quantity" /\ SameOrder(x, r) /\ SamePrice(x, r)
    BY <1>0, TakingKeeps
  <2>2. n = x /\ r.pc = "take"
    BY <1>0, <1>5, TakeStep DEF RequestTypes, placeOrderUpdateQuantity
  <2> HIDE DEF x
  <2> QED
    BY <1>1, <1>0, <1>3, <2>1, <2>2 DEF SamePrice
<1>6. CASE placeOrderQuantityError(t) \/ placeOrderIncrementError(t)
  <2>1. Answer(t, "error") /\ r.pc \in {"take", "bonus"}
    BY <1>6 DEF placeOrderQuantityError, placeOrderIncrementError, DbError
  <2> QED
    BY <1>0, <1>1, <1>2, <2>1 DEF Status
<1>7. CASE placeOrderFindWallet(t)
  <2>1. r.pc = "wallet" /\ wallet[U(t)] \in Int
    BY <1>0, <1>7 DEF placeOrderFindWallet, LedgerInv, Types, ServerTypes
  <2>2. CASE Answer(t, "error")
    BY <1>0, <1>1, <1>2, <2>1, <2>2 DEF Status
  <2>3. CASE wallet[U(t)] >= r.total
    <3> DEFINE x == Seeing(r, "charge", wallet[U(t)])
    <3>1. n = x
      BY <1>0, <1>7, <2>3, SeeStep DEF placeOrderFindWallet, RequestTypes
    <3>2. /\ x \in CheckoutRequests /\ x.pc = "charge" /\ x.total = r.total /\ x.its = r.its /\ x.c = r.c
          /\ x.prices = r.prices /\ SameOrder(x, r)
      BY <1>0, <2>1, SeeingKeeps
    <3> HIDE DEF x
    <3> QED
      BY <1>0, <1>1, <1>3, <2>1, <3>1, <3>2
  <2> QED
    BY <1>7, <2>2, <2>3 DEF placeOrderFindWallet
<1>8. CASE placeOrderDecrement(t) \/ placeOrderIncrement(t)
  <2>1. PICK l \in {"bonus", "insert"} : Goto(t, l)
    BY <1>8 DEF placeOrderDecrement, placeOrderIncrement
  <2> DEFINE x == Going(r, l)
  <2>2. n = x /\ r.pc \in {"charge", "bonus"}
    BY <1>0, <1>8, <2>1, GotoStep DEF RequestTypes, placeOrderDecrement, placeOrderIncrement
  <2>3. x \in CheckoutRequests /\ x.pc = l /\ SameOrder(x, r) /\ SamePrice(x, r)
    BY <1>0, GoingCheckout
  <2> HIDE DEF x
  <2> QED
    BY <1>0, <1>1, <1>3, <2>2, <2>3 DEF SamePrice
<1>9. CASE placeOrderDestroy(t)
  <2>1. Answer(t, "ok") /\ r.pc = "destroy"
    BY <1>9 DEF placeOrderDestroy
  <2> QED
    BY <1>0, <1>1, <1>2, <2>1 DEF Status
<1> QED
  BY <1>4, <1>5, <1>6, <1>7, <1>8, <1>9 DEF Continues

LEMMA ServeAgrees ==
    ASSUME LedgerInv, ShopInv, NEW t \in Tabs, Agrees(t), Serve(t), UNCHANGED cvars
    PROVE  InUse(t) /\ Agrees(t)'
<1>0. Types /\ RequestTypes
  BY DEF LedgerInv, Types
<1>1. InUse(t)
  BY ServeBusy DEF ShopInv, OpenTabs, InUse
<1>2. CASE rq[t].op = "coupon"
  <2>1. applyCouponFind(t) \/ applyCouponUpdate(t)
    BY <1>2 DEF Serve, At, quantityCheckBeforeBasketItemAddition, addBasketItem, quantityCheckBeforeBasketItemUpdate,
       quantityCheckOfUpdate, putBasketItem, delBasketItem, addWalletBalanceCard, addWalletBalance, upgradeFindUser,
       upgradeFindWallet, upgradeDecrement, upgradeFindCard, upgradeRole, writeCard, writeAddress, placeOrderFind,
       placeOrderReadQuantity, placeOrderUpdateQuantity, placeOrderQuantityError, placeOrderTotal, placeOrderFindWallet,
       placeOrderDecrement, placeOrderIncrement, placeOrderIncrementError, placeOrderInsert, placeOrderDestroy,
       toggleDeliveryStatus
  <2> QED
    BY <1>1, <2>1, AgreesCoupon
<1>3. CASE rq[t].op = "checkout"
  <2>1. placeOrderFind(t) \/ placeOrderTotal(t) \/ placeOrderInsert(t) \/ Continues(t)
    BY <1>3 DEF Serve, At, quantityCheckBeforeBasketItemAddition, addBasketItem, quantityCheckBeforeBasketItemUpdate,
       quantityCheckOfUpdate, putBasketItem, delBasketItem, applyCouponFind, applyCouponUpdate, addWalletBalanceCard,
       addWalletBalance, upgradeFindUser, upgradeFindWallet, upgradeDecrement, upgradeFindCard, upgradeRole, writeCard,
       writeAddress, toggleDeliveryStatus, Continues
  <2>2. CASE Continues(t)
    BY <1>0, <1>1, <2>2, ContinuesFurther, AgreesFurther
  <2> QED
    BY <1>1, <2>1, <2>2, AgreesFind, AgreesTotal, AgreesInsert
<1>4. CASE rq[t].op \notin {"coupon", "checkout"}
  <2>1. rq'[t].op = rq[t].op
    BY <1>0, ServeOthers DEF Served, RequestTypes
  <2>2. Coupons
    <3>1. CASE Reads(t)
      BY <3>1, ReadsFrame DEF Coupons, db
    <3>2. CASE WritesItem(t) \/ WritesUser(t) \/ MovesMoney(t)
      BY <1>4, <3>2, WritesItemFrame, WritesUserFrame, MovesMoneyFrame DEF Coupons
    <3>3. CASE toggleDeliveryStatus(t)
      BY <3>3 DEF toggleDeliveryStatus, Coupons
    <3>4. CASE placeOrderUpdateQuantity(t) \/ placeOrderInsert(t)
      BY <1>4, <3>4 DEF placeOrderUpdateQuantity, placeOrderInsert, At
    <3> QED
      BY <3>1, <3>2, <3>3, <3>4, ServeCases
  <2> QED
    BY <1>0, <1>1, <1>4, <2>1, <2>2, AgreesPlain
<1> QED
  BY <1>2, <1>3, <1>4

-----------------------------------------------------------------------------
(* A tab agrees with the server after an answer or a click.                *)

LEMMA AgreesRested ==
    ASSUME NEW t \in Tabs, rq'[t].op \notin {"coupon", "checkout"}, Promised(t)', price' = Price => ShownFits(t)'
    PROVE  Agrees(t)'
  BY DEF Agrees, CouponFits, OrderedFits, OrderFits

LEMMA TabDoubt ==
    ASSUME Types, NEW t \in Tabs, OnAnswer(t) \/ UserAct(t), ~doubt'[U(t)]
    PROVE  ~doubt[U(t)]
<1>1. Doubts(t) /\ U(t) \in Users /\ doubt \in [Users -> BOOLEAN]
  BY TabOthers, UserOfTab DEF Types, TabTypes
<1> QED
  BY <1>1 DEF Doubts

(* The requests that are about neither a coupon nor an order.              *)
LEMMA SendsOther ==
    ASSUME Types, NEW t \in Tabs, Sends(t), ~placeOrder(t), \A c \in {"month1", "bad"} : ~applyCoupon(t, c)
    PROVE  rq'[t].op \notin {"coupon", "checkout"} /\ (ss' = ss \/ ss' = [ss EXCEPT ![t].itemTotal = Unset])
<1>0. RequestTypes /\ rq \in [Tabs -> Requests]
  BY DEF Types, RequestTypes
<1>1. ASSUME NEW n, Send(t, n), n.op \notin {"coupon", "checkout"} PROVE rq'[t].op \notin {"coupon", "checkout"}
  BY <1>0, <1>1 DEF Send
<1>2. CASE \E p \in Products : addToBasket(t, p) \/ delete(t, p) \/ \E d \in {-1, 1} : addToQuantity(t, p, d)
  BY <1>1, <1>2 DEF addToBasket, delete, addToQuantity
<1>3. CASE \E m \in {"wallet", "card"} : choosePaymentDeluxe(t, m)
  BY <1>1, <1>3 DEF choosePaymentDeluxe
<1>4. CASE choosePaymentWallet(t)
  BY <1>1, <1>4 DEF choosePaymentWallet
<1>5. CASE saveAddress(t) \/ deleteAddress(t) \/ saveCard(t) \/ deleteCard(t)
  BY <1>1, <1>5 DEF saveAddress, deleteAddress, saveCard, deleteCard
<1>6. CASE \E i \in 1..Len(orders) : changeDeliveryStatus(t, i)
  BY <1>1, <1>6 DEF changeDeliveryStatus
<1> QED
  BY <1>2, <1>3, <1>4, <1>5, <1>6 DEF Sends

LEMMA AgreesSends ==
    ASSUME LedgerInv, NEW t \in Tabs, Agrees(t), InUse(t), UserAct(t), Sends(t)
    PROVE  Agrees(t)'
<1> DEFINE n == rq'[t]
<1> SUFFICES ASSUME ~doubt'[U(t)] PROVE Agrees(t)'
  BY DEF Agrees, U
<1>0. Types /\ RequestTypes /\ rq \in [Tabs -> Requests] /\ ss \in [Tabs -> Sessions] /\ U(t) \in Users /\ ~doubt[U(t)]
      /\ doubt \in [Users -> BOOLEAN]
  BY TabDoubt, UserOfTab DEF LedgerInv, Types, TabTypes, RequestTypes
<1>1. UNCHANGED <<price, month, coupon, clears, tok, pg, view>>
  BY <1>0, SendsFrame DEF Frame, db
<1>2. rq[t] = NoRequest
  BY <1>0, SendsSent, RequestKinds DEF Sent
<1>3. Promised(t) /\ (price = Price => ShownFits(t))
  BY <1>0, <1>2 DEF Agrees, Ordered, NoRequest
<1>4. CASE \E c \in {"month1", "bad"} : applyCoupon(t, c)
  <2>1. PICK c \in {"month1", "bad"} : applyCoupon(t, c)
    BY <1>4
  <2>2. n.op = "coupon" /\ n.pc = "find"
    BY <1>0, <2>1 DEF applyCoupon, Send, BasketService
  <2>3. U(t) \notin clears /\ ~ss[t].campaign
    BY <1>0, <2>1 DEF applyCoupon
  <2>4. /\ ss'[t].campaign = FALSE /\ ss'[t].discount = ss[t].discount /\ ss'[t].method = ss[t].method
    BY <1>0, <2>1 DEF applyCoupon, Sessions
  <2>5. CouponFits(t)' /\ OrderedFits(t)' /\ OrderFits(t)'
    BY <1>1, <2>2, <2>3, <2>4 DEF CouponFits, OrderedFits, OrderFits, U
  <2>6. price' = Price => ShownFits(t)'
    BY <1>1, <1>3, <2>4 DEF ShownFits, isDeluxe, U
  <2> QED
    BY <2>2, <2>5, <2>6 DEF Agrees
<1>5. CASE placeOrder(t)
  <2> DEFINE x == [op |-> "checkout", pc |-> "find", status |-> "pending",
                   deluxe |-> isDeluxe(t), campaign |-> ss[t].campaign,
                   method |-> ss[t].method, address |-> ss[t].address, pay |-> ss[t].pay,
                   its |-> NoItems, prices |-> price, points |-> 0, c |-> "none", todo |-> {}, p |-> "none", q |-> 0,
                   total |-> 0, seen |-> 0, view |-> view[t], promised |-> ss[t].discount,
                   settled |-> U(t) \notin clears]
  <2>1. n = x
    BY <1>0, <1>5 DEF placeOrder, BasketService, Send
  <2>2. /\ x.op = "checkout" /\ x.pc = "find" /\ x.deluxe = isDeluxe(t) /\ x.campaign = ss[t].campaign
        /\ x.method = ss[t].method /\ x.prices = price /\ x.view = view[t] /\ x.promised = ss[t].discount
        /\ x.settled = (U(t) \notin clears)
    OBVIOUS
  <2>3. /\ n.op = "checkout" /\ n.pc = "find" /\ n.deluxe = isDeluxe(t) /\ n.campaign = ss[t].campaign
        /\ n.method = ss[t].method /\ n.prices = price /\ n.view = view[t] /\ n.promised = ss[t].discount
        /\ n.settled = (U(t) \notin clears)
    <3> HIDE DEF x
    <3> QED
      BY <2>1, <2>2
  <2>4. ss' = ss /\ pg[t] = "summary"
    BY <1>5 DEF placeOrder
  <2>5. Promised(t)'
    BY <1>1, <1>3, <2>4 DEF Promised, Eff, U
  <2>6. CouponFits(t)' /\ OrderedFits(t)'
    BY <2>3 DEF CouponFits, OrderedFits, Ordered
  <2>7. ASSUME price' = Price PROVE ShownFits(t)' /\ OrderFits(t)'
    <3>1. price = Price /\ ShownFits(t)
      BY <1>1, <1>3, <2>7
    <3>2. ShownFits(t)'
      BY <1>1, <2>4, <3>1 DEF ShownFits, isDeluxe, U
    <3>3. view[t].shown = SummaryOf(view[t].its, isDeluxe(t), ss[t].method, ss[t].discount)
      BY <2>4, <3>1 DEF ShownFits
    <3>4. n.prices = Price /\ n.view.shown = SummaryOf(n.view.its, n.deluxe, n.method, n.promised)
      BY <2>3, <3>1, <3>3
    <3>5. n.promised = ss'[t].discount /\ n.campaign = ss'[t].campaign /\ (n.settled => U(t) \notin clears')
      BY <1>1, <2>3, <2>4
    <3>6. OrderFits(t)'
      BY <2>3, <3>4, <3>5 DEF OrderFits, U
    <3> QED
      BY <3>2, <3>6
  <2> QED
    BY <2>5, <2>6, <2>7 DEF Agrees
<1>6. CASE ~placeOrder(t) /\ \A c \in {"month1", "bad"} : ~applyCoupon(t, c)
  <2>1. n.op \notin {"coupon", "checkout"} /\ (ss' = ss \/ ss' = [ss EXCEPT ![t].itemTotal = Unset])
    BY <1>0, <1>6, SendsOther
  <2>2. ss'[t].discount = ss[t].discount /\ ss'[t].campaign = ss[t].campaign /\ ss'[t].method = ss[t].method
    BY <1>0, <2>1 DEF Sessions
  <2>3. Promised(t)'
    BY <1>1, <1>3, <2>2 DEF Promised, Eff, U
  <2>4. price' = Price => ShownFits(t)'
    BY <1>1, <1>3, <2>2 DEF ShownFits, isDeluxe, U
  <2> QED
    BY <2>1, <2>3, <2>4, AgreesRested
<1> QED
  BY <1>4, <1>5, <1>6

(* The order summary shows the total of what it lists.                     *)
LEMMA SummaryShown ==
    ASSUME NEW t \in Tabs, NEW s, price = Price
    PROVE  LET v == Loaded(t, "summary", Stored(t, "summary", s))
           IN  v.shown = SummaryOf(v.its, isDeluxe(t), s.method, s.discount)
<1> DEFINE x == summaryTotal(t, s)
           b == retrieveBasket(t)
           v == [EmptyView EXCEPT !.its = b, !.shown = x]
<1>1. Loaded(t, "summary", Stored(t, "summary", s)) = v
  BY DEF Loaded, loadSummary, Stored
<1>2. x = SummaryOf(b, isDeluxe(t), s.method, s.discount)
  BY DEF summaryTotal, SummaryOf, promotionalDiscount
<1> HIDE DEF x, b
<1>3. v.its = b /\ v.shown = x
  BY DEF EmptyView
<1> HIDE DEF v
<1> QED
  BY <1>1, <1>2, <1>3

(* A page is shown, and the coupon and the campaign stay in the session.   *)
LEMMA AgreesShow ==
    ASSUME Types, NEW t \in Tabs, NEW page \in Screens, NEW s \in Sessions, Show(t, page, s), price = Price,
           page = "summary" => tok' = tok
    PROVE  ShownFits(t)'
<1>1. pg'[t] = page /\ SameChoice(ss'[t], s) /\ view'[t] = Loaded(t, page, Stored(t, page, s))
  BY ShowType DEF Types
<1>2. CASE page = "summary"
  <2>1. view'[t].shown = SummaryOf(view'[t].its, isDeluxe(t), s.method, s.discount)
    BY <1>1, <1>2, SummaryShown
  <2>2. isDeluxe(t)' = isDeluxe(t)
    BY <1>2 DEF isDeluxe, U
  <2> QED
    BY <1>1, <2>1, <2>2 DEF ShownFits, SameChoice
<1>3. CASE page # "summary"
  BY <1>1, <1>3 DEF ShownFits
<1> QED
  BY <1>2, <1>3

LEMMA AgreesShows ==
    ASSUME LedgerInv, NEW t \in Tabs, Agrees(t), InUse(t), UserAct(t), Shows(t)
    PROVE  Agrees(t)'
<1> SUFFICES ASSUME ~doubt'[U(t)] PROVE Agrees(t)'
  BY DEF Agrees, U
<1>0. /\ Types /\ ServerTypes /\ TabTypes /\ rq \in [Tabs -> Requests] /\ ss \in [Tabs -> Sessions] /\ U(t) \in Users
      /\ ~doubt[U(t)] /\ doubt \in [Users -> BOOLEAN]
  BY TabDoubt, UserOfTab DEF LedgerInv, Types, TabTypes, RequestTypes
<1>1. UNCHANGED <<rq, price, month, coupon, clears, tok>>
  BY <1>0, ShowsStep DEF svars, db
<1>2. PICK page \in Screens \ {"closed"}, s \in Sessions :
         /\ Show(t, page, s)
         /\ (SameCoupon(s, ss[t]) /\ doubt' = doubt) \/ \E b \in BOOLEAN : applyCampaign(t, b)
  BY <1>0, ShowsStep
<1>3. price' = Price => ShownFits(t)'
  BY <1>0, <1>1, <1>2, AgreesShow
<1>4. pg'[t] = page /\ SameChoice(ss'[t], s)
  BY <1>0, <1>2, ShowType
<1>5. CASE SameCoupon(s, ss[t])
  <2>1. ss'[t].discount = ss[t].discount /\ ss'[t].campaign = ss[t].campaign
    BY <1>4, <1>5 DEF SameChoice, SameCoupon
  <2>2. Eff(U(t))' = Eff(U(t)) /\ (Ordered(t)' <=> Ordered(t))
    BY <1>1 DEF Eff, Ordered, U
  <2>3. Promised(t)' <=> Promised(t)
    BY <1>1, <2>1, <2>2 DEF Promised, U
  <2>4. CouponFits(t)' <=> CouponFits(t)
    BY <1>1, <2>1 DEF CouponFits, U
  <2>5. OrderedFits(t)' <=> OrderedFits(t)
    BY <1>1, <2>2 DEF OrderedFits, U
  <2>6. OrderFits(t)' <=> OrderFits(t)
    BY <1>1, <2>1 DEF OrderFits, U
  <2> QED
    BY <1>0, <1>1, <1>3, <2>2, <2>3, <2>4, <2>5, <2>6 DEF Agrees
<1>6. CASE \E b \in BOOLEAN : applyCampaign(t, b)
  <2>1. PICK b \in BOOLEAN : applyCampaign(t, b)
    BY <1>6
  <2> DEFINE d == IF b THEN CampaignDiscount ELSE ss[t].discount
             x == [ss[t] EXCEPT !.campaign = b, !.discount = d]
  <2>2. coupon[U(t)] = "none" /\ rq[t].pc = "idle" /\ (b \/ ~ss[t].campaign)
    BY <1>0, <2>1 DEF applyCampaign
  <2>3. rq[t] = NoRequest /\ rq'[t].op \notin {"coupon", "checkout"} /\ ~Ordered(t)
    BY <1>0, <1>1, <2>2, RequestKinds DEF NoRequest, Ordered
  <2>4. Eff(U(t)) = "none" /\ Eff(U(t))' = "none" /\ Promised(t)
    BY <1>0, <1>1, <2>2, <2>3 DEF Eff, U, Agrees
  <2>5. Show(t, "payShop", x)
    BY <2>1 DEF applyCampaign
  <2>6. x.discount = d /\ x.campaign = b /\ x \in Sessions /\ "payShop" \in Screens
    <3>1. d \in 0..100 /\ ss[t] \in Sessions
      BY <1>0, CheckoutAssumption DEF CheckoutAssumption, Sessions
    <3> HIDE DEF d
    <3> QED
      BY <3>1 DEF Sessions, Screens, Pages
  <2>7. ss'[t].discount = d /\ ss'[t].campaign = b
    <3> HIDE DEF x
    <3> QED
      BY <1>0, <2>5, <2>6, ShowType DEF SameChoice
  <2>8. d = IF b THEN CampaignDiscount ELSE 0
    <3>1. ss[t].campaign \in BOOLEAN
      BY <1>0 DEF Sessions
    <3> QED
      BY <2>2, <2>4, <3>1, Grants DEF Promised
  <2>9. Promised(t)'
    <3> HIDE DEF d
    <3> QED
      BY <2>4, <2>7, <2>8, Grants DEF Promised, U
  <2> QED
    BY <1>3, <2>3, <2>9, AgreesRested
<1> QED
  BY <1>2, <1>5, <1>6

LEMMA AgreesAnswer ==
    ASSUME LedgerInv, NEW t \in Tabs, Agrees(t), InUse(t), OnAnswer(t)
    PROVE  Agrees(t)'
<1> DEFINE r == rq[t]
<1> SUFFICES ASSUME ~doubt'[U(t)] PROVE Agrees(t)'
  BY DEF Agrees, U
<1>0. /\ Types /\ ServerTypes /\ TabTypes /\ rq \in [Tabs -> Requests] /\ ss \in [Tabs -> Sessions] /\ U(t) \in Users
      /\ ~doubt[U(t)] /\ doubt \in [Users -> BOOLEAN] /\ ss[t].campaign \in BOOLEAN /\ ss[t].discount \in 0..100
  BY TabDoubt, UserOfTab DEF LedgerInv, Types, TabTypes, RequestTypes, Sessions
<1>1. UNCHANGED <<price, month, coupon, clears>> /\ r.pc = "answered" /\ rq'[t].op \notin {"coupon", "checkout"}
  BY <1>0, AnswersStep DEF Frame, db, NoRequest
<1>2. Eff(U(t))' = Eff(U(t))
  BY <1>1 DEF Eff, U
<1>3. CASE onCoupon(t)
  <2>1. r.op = "coupon" /\ pg[t] = "payShop" /\ pg' = pg /\ (r.status = "ok" \/ ss[t].discount = 0)
    <3> DEFINE b == pg[t] # "payShop" \/ (r.status # "ok" /\ ss[t].discount > 0)
    <3>1. r.op = "coupon" /\ pg' = pg /\ doubt' = [doubt EXCEPT ![U(t)] = @ \/ b]
      BY <1>3 DEF onCoupon, Receive
    <3>2. ~b
      <4> HIDE DEF b
      <4> QED
        BY <1>0, <3>1
    <3> QED
      BY <1>0, <3>1, <3>2
  <2>2. /\ U(t) \notin clears /\ ~ss[t].campaign /\ r.discount = discountFromCoupon(r.c, month)
        /\ IF r.status = "ok" THEN coupon[U(t)] = r.c ELSE coupon[U(t)] = "none"
    BY <1>0, <1>1, <2>1 DEF Agrees, CouponFits
  <2>3. ss'[t].campaign = ss[t].campaign /\ ss'[t].discount = IF r.status = "ok" THEN r.discount ELSE ss[t].discount
    BY <1>0, <1>3 DEF onCoupon, Sessions
  <2>4. Eff(U(t)) = coupon[U(t)]
    BY <2>2 DEF Eff
  <2>5. ss'[t].discount = calculateApplicableDiscount(coupon[U(t)], month, FALSE) /\ ss'[t].campaign = FALSE
    <3>1. ss'[t].campaign = FALSE
      BY <1>0, <2>2, <2>3
    <3>2. CASE r.status = "ok"
      BY <2>2, <2>3, <3>1, <3>2, Grants
    <3>3. CASE r.status # "ok"
      BY <2>1, <2>2, <2>3, <3>1, <3>3, Grants
    <3> QED
      BY <3>2, <3>3, <3>1
  <2>6. Promised(t)'
    BY <1>1, <1>2, <2>4, <2>5 DEF Promised, U
  <2>7. ShownFits(t)'
    BY <2>1 DEF ShownFits
  <2> QED
    BY <1>1, <2>6, <2>7, AgreesRested
<1>4. CASE onOrder(t) /\ r.status = "ok"
  <2> DEFINE x == [EmptySession EXCEPT !.itemTotal = ss[t].itemTotal, !.walletTotal = ss[t].walletTotal]
  <2>1. Ordered(t) /\ r.op = "checkout"
    BY <1>1, <1>4 DEF onOrder, Receive, Ordered
  <2>2. Eff(U(t)) = "none"
    BY <1>0, <2>1 DEF Agrees, OrderedFits
  <2>3. Show(t, "completion", x)
    BY <1>4 DEF onOrder
  <2>4. x.discount = 0 /\ x.campaign = FALSE
    BY DEF EmptySession
  <2> HIDE DEF x
  <2>5. ss'[t] = x /\ pg'[t] = "completion"
    BY <1>0, <2>3 DEF Show, Stored, TabTypes
  <2>6. Promised(t)'
    BY <1>1, <1>2, <2>2, <2>4, <2>5, Grants DEF Promised, U
  <2>7. ShownFits(t)'
    BY <2>5 DEF ShownFits
  <2> QED
    BY <1>1, <2>6, <2>7, AgreesRested
<1>5. CASE ~onCoupon(t) /\ ~(onOrder(t) /\ r.status = "ok")
  <2>1. r.op # "coupon" /\ ~Ordered(t)
    BY <1>5 DEF OnAnswer, onItemChanged, onTopUp, onUpgrade, onOrder, onRecord, onToggle, Receive, Ordered
  <2>2. Promised(t) /\ (price = Price => ShownFits(t))
    BY <1>0, <2>1 DEF Agrees
  <2>3. tok' = tok \/ pg'[t] = "deluxe"
    BY <1>0, <1>5 DEF OnAnswer, onItemChanged, onTopUp, onUpgrade, onOrder, onRecord, onToggle, Show, TabTypes, cvars
  <2>4. CASE UNCHANGED <<pg, ss, view>>
    <3>1. Promised(t)'
      BY <1>1, <1>2, <2>2, <2>4 DEF Promised, U
    <3>2. price' = Price => ShownFits(t)'
      BY <1>1, <2>2, <2>3, <2>4 DEF ShownFits, isDeluxe, U
    <3> QED
      BY <1>1, <3>1, <3>2, AgreesRested
  <2>5. CASE \E page \in Screens \ {"closed", "summary"}, s \in Sessions : Show(t, page, s) /\ SameCoupon(s, ss[t])
    <3>1. PICK page \in Screens \ {"closed", "summary"}, s \in Sessions : Show(t, page, s) /\ SameCoupon(s, ss[t])
      BY <2>5
    <3>2. pg'[t] = page /\ SameChoice(ss'[t], s)
      BY <1>0, <3>1, ShowType
    <3>3. Promised(t)'
      BY <1>1, <1>2, <2>2, <3>1, <3>2 DEF Promised, SameChoice, SameCoupon, U
    <3>4. ShownFits(t)'
      BY <3>2 DEF ShownFits
    <3> QED
      BY <1>1, <3>3, <3>4, AgreesRested
  <2> QED
    BY <1>0, <1>5, <2>4, <2>5, AnswersShow
<1> QED
  BY <1>3, <1>4, <1>5

(* The coupon of an order that was stored before is cleared.               *)
LEMMA AgreesClear ==
    ASSUME LedgerInv, NEW u \in Users, clearCoupon(u), UNCHANGED cvars, NEW t \in Tabs, Agrees(t)
    PROVE  Agrees(t)'
<1>0. coupon \in [Users -> {"none", "month1"}] /\ U(t) \in Users
  BY UserOfTab DEF LedgerInv, Types, ServerTypes
<1>1. /\ u \in clears /\ clears' = clears \ {u} /\ coupon' = [coupon EXCEPT ![u] = "none"]
      /\ UNCHANGED <<price, month, rq>>
  BY DEF clearCoupon
<1>2. CASE U(t) # u
  BY <1>0, <1>1, <1>2, AgreesFrame DEF cvars
<1>3. CASE U(t) = u
  <2>1. Eff(U(t)) = "none" /\ Eff(U(t))' = "none" /\ U(t) \notin clears'
    BY <1>0, <1>1, <1>3 DEF Eff, U
  <2>2. (Promised(t)' <=> Promised(t)) /\ (Ordered(t)' <=> Ordered(t))
    BY <1>1, <2>1 DEF Promised, Ordered, cvars, U
  <2>3. OrderedFits(t)' /\ (rq[t].op # "coupon" => CouponFits(t)')
    BY <1>1, <2>1 DEF OrderedFits, CouponFits, U
  <2>4. CouponFits(t) => rq[t].op # "coupon"
    BY <1>1, <1>3 DEF CouponFits
  <2>5. ShownFits(t)' <=> ShownFits(t)
    BY DEF ShownFits, isDeluxe, cvars, U
  <2>6. OrderFits(t) => OrderFits(t)'
    BY <1>1, <2>1 DEF OrderFits, cvars, U
  <2>7. (InUse(t)' <=> InUse(t)) /\ doubt' = doubt
    BY DEF InUse, cvars
  <2> QED
    BY <1>1, <2>2, <2>3, <2>4, <2>5, <2>6, <2>7 DEF Agrees, U
<1> QED
  BY <1>2, <1>3

LEMMA BackgroundAgrees ==
    ASSUME LedgerInv, ShopInv, Background, NEW t \in Tabs, Agrees(t)
    PROVE  Agrees(t)'
<1>0. price \in [Products -> Nat] /\ U(t) \in Users
  BY UserOfTab DEF LedgerInv, Types, ServerTypes
<1>1. CASE \E u \in Users : clearCoupon(u) /\ UNCHANGED cvars
  BY <1>1, AgreesClear
<1>2. CASE NextMonth /\ doubt' = [u \in Users |-> TRUE] /\ UNCHANGED <<tok, pg, ss, view, clicks>>
  BY <1>0, <1>2 DEF Agrees, U
<1>3. CASE \E p \in Products : modifyPrice(p)
  <2>1. PICK p \in Products : modifyPrice(p)
    BY <1>3
  <2>2. price'[p] = NewPrice /\ Price[p] # NewPrice
    BY <1>0, <2>1 DEF modifyPrice, ShopInv, PricesFit
  <2>3. price' # Price
    BY <2>2
  <2> QED
    BY <2>1, <2>3, AgreesFrame DEF modifyPrice, cvars
<1> QED
  BY <1>1, <1>2, <1>3 DEF Background

LEMMA NextAgrees ==
    ASSUME LedgerInv, ShopInv, [Next]_vars, \A t \in Tabs : Agrees(t)
    PROVE  (\A t \in Tabs : Agrees(t))'
<1>0. Types
  BY DEF LedgerInv
<1>1. ASSUME NEW s \in Tabs, Serve(s), UNCHANGED cvars PROVE \A t \in Tabs : Agrees(t)'
  <2>1. InUse(s) /\ Agrees(s)' /\ Others(s)
    BY <1>1, ServeAgrees, ServeOthers
  <2>2. \A t \in Tabs \ {s} : Agrees(t)'
    BY <1>0, <2>1, AgreesOthers
  <2> QED
    BY <2>1, <2>2
<1>2. ASSUME NEW s \in Tabs, OnAnswer(s) \/ UserAct(s) PROVE \A t \in Tabs : Agrees(t)'
  <2>1. InUse(s)
    <3>1. CASE OnAnswer(s)
      BY <1>0, <3>1, AnswersStep DEF ShopInv, OpenTabs, InUse
    <3>2. CASE UserAct(s)
      BY <1>0, <3>2, UserActCases, SendsFrame, ShowsStep DEF InUse, Click
    <3> QED
      BY <1>2, <3>1, <3>2
  <2>2. Agrees(s)'
    <3>1. CASE OnAnswer(s)
      BY <2>1, <3>1, AgreesAnswer
    <3>2. CASE UserAct(s)
      BY <2>1, <3>2, UserActCases, AgreesSends, AgreesShows
    <3> QED
      BY <1>2, <3>1, <3>2
  <2>3. Others(s)
    BY <1>0, <1>2, TabOthers
  <2>4. \A t \in Tabs \ {s} : Agrees(t)'
    BY <1>0, <2>1, <2>3, AgreesOthers
  <2> QED
    BY <2>2, <2>4
<1>3. CASE Background
  BY <1>3, BackgroundAgrees
<1>4. CASE UNCHANGED vars
  <2>1. UNCHANGED <<price, month, coupon, clears, doubt, tok, rq, ss, pg, view, clicks>>
    BY <1>4 DEF vars, svars, cvars, db
  <2> QED
    BY <2>1, AgreesFrame
<1> QED
  BY <1>1, <1>2, <1>3, <1>4 DEF Next

LEMMA InitTabInv ==
    ASSUME InitStorefront
    PROVE  TabInv
<1>0. /\ price = Price /\ month = 1 /\ clears = {} /\ coupon = [u \in Users |-> "none"]
      /\ \A t \in Tabs : rq[t] = NoRequest /\ ss[t] = StartSession(pg[t]) /\ view[t] = Loaded(t, pg[t], ss[t])
  BY DEF InitStorefront, InitCheckout, NoRequest
<1>1. PricesFit /\ FirstMonth /\ OpenTabs
  BY <1>0 DEF PricesFit, FirstMonth, OpenTabs, NoRequest
<1>2. LoneTabs
  BY UserOfTab DEF InitStorefront, LoneTabs
<1>3. ASSUME NEW t \in Tabs PROVE Agrees(t)
  <2>0. rq[t].op = "none" /\ U(t) \in Users
    BY <1>0, UserOfTab DEF NoRequest
  <2>1. ss[t].discount = 0 /\ ss[t].campaign = FALSE
    BY <1>0 DEF StartSession, EmptySession
  <2>2. Promised(t)
    BY <1>0, <2>0, <2>1, Grants DEF Promised, Eff
  <2>3. ShownFits(t)
    <3> SUFFICES ASSUME pg[t] = "summary"
                 PROVE  view[t].shown = SummaryOf(view[t].its, isDeluxe(t), ss[t].method, ss[t].discount)
      BY DEF ShownFits
    <3>1. view[t] = Loaded(t, "summary", Stored(t, "summary", ss[t]))
      BY <1>0 DEF Stored
    <3> QED
      BY <1>0, <3>1, SummaryShown
  <2> QED
    BY <2>0, <2>2, <2>3 DEF Agrees, CouponFits, OrderedFits, OrderFits
<1> QED
  BY <1>1, <1>2, <1>3 DEF TabInv

LEMMA TabInvAgrees ==
    ASSUME LedgerInv, TabInv
    PROVE  TabsAgree
<1>1. SpentCouponGone
  BY DEF LedgerInv, SpentFits, SpentCouponGone, Quiet
<1>2. PromisedDiscount
  <2> SUFFICES ASSUME NEW t \in Tabs, pg[t] # "closed", ~doubt[U(t)], rq[t].pc = "idle", U(t) \notin clears
               PROVE  ss[t].discount = calculateApplicableDiscount(coupon[U(t)], month, ss[t].campaign)
    BY DEF PromisedDiscount
  <2>1. rq[t] = NoRequest
    BY RequestKinds DEF LedgerInv, Types, RequestTypes
  <2>2. Promised(t)
    BY <2>1 DEF TabInv, Agrees, InUse, Ordered, NoRequest
  <2> QED
    BY <2>2 DEF Promised, Eff
<1>3. SummaryIsCharged
  <2> SUFFICES ASSUME NEW t \in Tabs, rq[t].op = "checkout",
                      rq[t].pc \in {"wallet", "charge", "bonus", "insert", "destroy"},
                      ~doubt[U(t)], rq[t].settled, rq[t].its = rq[t].view.its, price = Price
               PROVE  rq[t].total = rq[t].view.shown
    BY DEF SummaryIsCharged
  <2>1. InUse(t)
    BY DEF TabInv, OpenTabs, InUse
  <2>2. OrderFits(t)
    BY <2>1 DEF TabInv, Agrees
  <2> QED
    BY <2>2 DEF OrderFits
<1> QED
  BY <1>1, <1>2, <1>3 DEF TabsAgree

(* TabsAgree: what the payment page and the order summary of a lone tab    *)
(* promise is what placeOrder grants and charges, however the requests,    *)
(* the clearing of coupons and the accounting department interleave, and   *)
(* an order leaves no coupon behind for the next one.                      *)
THEOREM TabsAgreeTheorem == Spec => []TabsAgree
<1>1. InitStorefront => LedgerInv /\ TabInv
  BY InitLedgerInv, InitTabInv
<1>2. LedgerInv /\ TabInv /\ [Next]_vars => LedgerInv' /\ TabInv'
  BY NextLedgerInv, NextShopInv, NextAgrees DEF TabInv, ShopInv
<1>3. LedgerInv /\ TabInv => TabsAgree
  BY TabInvAgrees
<1> QED
  BY <1>1, <1>2, <1>3, PTL DEF Spec
=============================================================================
