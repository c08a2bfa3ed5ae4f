----------------------------- MODULE MoneyProofs -----------------------------
(***************************************************************************)
(* Proofs about the money of RideNow: the sums over the ledger, the entry  *)
(* groups it is made of, the settlement it implements, the holds at the    *)
(* gateway, and what the views of Earnings tell a driver and a rider.      *)
(***************************************************************************)
EXTENDS Earnings, RideNowProofs, FiniteSetTheorems, WellFoundedInduction

-----------------------------------------------------------------------------
(***************************************************************************)
(* The sum over a set of postings.                                         *)
(***************************************************************************)

\* The fold, written as the function it chooses.
Pick(s) == CHOOSE e \in s : TRUE
IsSum(g, S) ==
  g = [s \in SUBSET S |-> IF s = {} THEN 0 ELSE Signed(Pick(s)) + g[s \ {Pick(s)}]]
Total(S) == (CHOOSE g : IsSum(g, S))[S]

\* Net is the fold of the community modules, which the provers see as a choice.
LEMMA NetIsTotal == \A S : Net(S) = Total(S)
BY DEF Net, Total, IsSum, Pick, MapThenFoldSet

\* Sets of subsets of a finite set have a smallest member: the induction below.
LEMMA SmallestSubset ==
  ASSUME NEW S, IsFiniteSet(S), NEW T, T \subseteq SUBSET S, T # {}
  PROVE  \E x \in T : \A y \in T : y \subseteq x => y = x
<1>1. T \subseteq FiniteSubsetsOf(S)
  BY FS_Subset DEF FiniteSubsetsOf
<1>2. PICK x \in T : \A y \in T : <<y, x>> \notin StrictSubsetOrdering(S)
  BY <1>1, WFMin, FS_StrictSubsetOrderingWellFounded
<1>3. ASSUME NEW y \in T, y \subseteq x, y # x PROVE FALSE
  BY <1>2, <1>3 DEF StrictSubsetOrdering
<1> QED
  BY <1>3

\* Two such functions agree on every finite set they are both defined on.
LEMMA SumIsUnique ==
  ASSUME NEW S, IsFiniteSet(S), NEW U, NEW V, S \subseteq U, S \subseteq V,
         NEW g, NEW h, IsSum(g, U), IsSum(h, V)
  PROVE  g[S] = h[S]
<1> DEFINE T == {s \in SUBSET S : g[s] # h[s]}
<1>1. SUFFICES ASSUME T # {} PROVE FALSE
  BY <1>1
<1>2. PICK x \in T : \A y \in T : y \subseteq x => y = x
  <2>1. T \subseteq SUBSET S
    OBVIOUS
  <2> HIDE DEF T
  <2> QED
    BY <1>1, <2>1, SmallestSubset
<1>3. x # {}
  BY <1>2 DEF IsSum
<1> DEFINE p == Pick(x)
<1>4. p \in x
  BY <1>3 DEF Pick
<1>5. /\ g[x] = Signed(p) + g[x \ {p}]
      /\ h[x] = Signed(p) + h[x \ {p}]
  BY <1>2, <1>3 DEF IsSum
<1>6. x \ {p} \in SUBSET S /\ x \ {p} \subseteq x /\ x \ {p} # x
  BY <1>2, <1>4
<1>7. g[x \ {p}] = h[x \ {p}]
  BY <1>2, <1>6
<1> QED
  BY <1>2, <1>5, <1>7

\* There is one for every finite set.
LEMMA SumExists ==
  ASSUME NEW S, IsFiniteSet(S)
  PROVE  \E g : IsSum(g, S)
<1> DEFINE T == {s \in SUBSET S : ~ \E g : IsSum(g, s)}
<1>1. SUFFICES ASSUME T # {} PROVE FALSE
  BY <1>1
<1>2. PICK x \in T : \A y \in T : y \subseteq x => y = x
  <2>1. T \subseteq SUBSET S
    OBVIOUS
  <2> HIDE DEF T
  <2> QED
    BY <1>1, <2>1, SmallestSubset
<1> DEFINE h == [s \in SUBSET x |->
                   IF s = {} THEN 0 ELSE Signed(Pick(s)) + Total(s \ {Pick(s)})]
<1>3. ASSUME NEW w \in SUBSET x, w # x PROVE h[w] = Total(w)
  <2>1. w \in SUBSET S /\ IsFiniteSet(w) /\ w \notin T
    BY <1>2, <1>3, FS_Subset
  <2> DEFINE g == CHOOSE f : IsSum(f, w)
             p == Pick(w)
  <2>2. IsSum(g, w) /\ Total(w) = g[w]
    BY <2>1 DEF Total
  <2>3. CASE w = {}
    BY <2>2, <2>3 DEF IsSum
  <2>4. CASE w # {}
    <3>1. p \in w /\ w \ {p} \in SUBSET x /\ w \ {p} # x
      BY <2>4 DEF Pick
    <3>2. w \ {p} \in SUBSET S /\ IsFiniteSet(w \ {p}) /\ w \ {p} \notin T
      BY <1>2, <3>1, <2>1, FS_Subset
    <3> DEFINE k == CHOOSE f : IsSum(f, w \ {p})
    <3>3. IsSum(k, w \ {p}) /\ Total(w \ {p}) = k[w \ {p}]
      BY <3>2 DEF Total
    <3> HIDE DEF g, k, p
    <3>4. g[w \ {p}] = k[w \ {p}]
      BY <2>2, <3>2, <3>3, SumIsUnique
    <3>5. g[w] = Signed(p) + g[w \ {p}]
      BY <2>2, <2>4 DEF IsSum, p
    <3>6. h[w] = Signed(p) + Total(w \ {p})
      BY <2>4 DEF p
    <3> QED
      BY <2>2, <3>3, <3>4, <3>5, <3>6
  <2> QED
    BY <2>3, <2>4
<1>4. IsSum(h, x)
  <2>1. ASSUME NEW s \in SUBSET x, s # {} PROVE Total(s \ {Pick(s)}) = h[s \ {Pick(s)}]
    <3>1. Pick(s) \in s
      BY <2>1 DEF Pick
    <3> QED
      BY <1>3, <3>1
  <2> QED
    BY <2>1 DEF IsSum
<1> QED
  BY <1>2, <1>4

\* The recursion, with the element the fold happens to choose ...
LEMMA TotalUnfolds ==
  ASSUME NEW S, IsFiniteSet(S)
  PROVE  Total(S) = IF S = {} THEN 0 ELSE Signed(Pick(S)) + Total(S \ {Pick(S)})
<1> DEFINE g == CHOOSE f : IsSum(f, S)
           p == Pick(S)
           k == CHOOSE f : IsSum(f, S \ {p})
<1>1. IsSum(g, S) /\ Total(S) = g[S]
  BY SumExists DEF Total
<1>2. IsFiniteSet(S \ {p})
  BY FS_Subset
<1>3. IsSum(k, S \ {p}) /\ Total(S \ {p}) = k[S \ {p}]
  BY <1>2, SumExists DEF Total
<1> HIDE DEF g, k
<1>4. g[S \ {p}] = k[S \ {p}]
  BY <1>1, <1>2, <1>3, SumIsUnique
<1>5. g[S] = IF S = {} THEN 0 ELSE Signed(p) + g[S \ {p}]
  BY <1>1 DEF IsSum
<1> QED
  BY <1>1, <1>3, <1>4, <1>5

\* ... which adds up integers to an integer ...
LEMMA TotalIsInt ==
  ASSUME NEW S, IsFiniteSet(S), \A e \in S : Signed(e) \in Int
  PROVE  Total(S) \in Int
<1> DEFINE T == {s \in SUBSET S : Total(s) \notin Int}
<1>1. SUFFICES ASSUME T # {} PROVE FALSE
  BY <1>1
<1>2. PICK x \in T : \A y \in T : y \subseteq x => y = x
  <2>1. T \subseteq SUBSET S
    OBVIOUS
  <2> HIDE DEF T
  <2> QED
    BY <1>1, <2>1, SmallestSubset
<1>3. IsFiniteSet(x) /\ x \in SUBSET S
  BY <1>2, FS_Subset
<1>4. x # {}
  BY <1>2, <1>3, TotalUnfolds
<1>5. Pick(x) \in x
  BY <1>4 DEF Pick
<1>6. Total(x \ {Pick(x)}) \in Int
  BY <1>2, <1>5
<1>7. Total(x) = Signed(Pick(x)) + Total(x \ {Pick(x)})
  BY <1>3, <1>4, TotalUnfolds
<1>8. Signed(Pick(x)) \in Int
  BY <1>3, <1>5
<1>9. Total(x) \notin Int
  BY <1>2
<1> HIDE DEF T
<1> QED
  BY <1>6, <1>7, <1>8, <1>9

\* ... and gives the same with any other element first.
LEMMA TotalRemove ==
  ASSUME NEW S, IsFiniteSet(S), \A e \in S : Signed(e) \in Int, NEW d \in S
  PROVE  Total(S) = Signed(d) + Total(S \ {d})
<1> DEFINE T == {s \in SUBSET S : \E e \in s : Total(s) # Signed(e) + Total(s \ {e})}
<1>1. SUFFICES ASSUME T # {} PROVE FALSE
  BY <1>1
<1>2. PICK x \in T : \A y \in T : y \subseteq x => y = x
  <2>1. T \subseteq SUBSET S
    OBVIOUS
  <2> HIDE DEF T
  <2> QED
    BY <1>1, <2>1, SmallestSubset
<1>3. PICK e \in x : Total(x) # Signed(e) + Total(x \ {e})
  BY <1>2
<1> DEFINE p == Pick(x)
<1>4. x \in SUBSET S /\ p \in x
  BY <1>2, <1>3 DEF Pick
<1>5. IsFiniteSet(x) /\ IsFiniteSet(x \ {e}) /\ IsFiniteSet(x \ {p}) /\ IsFiniteSet((x \ {e}) \ {p})
  BY <1>4, FS_Subset
<1>6. Total(x) = Signed(p) + Total(x \ {p})
  BY <1>4, <1>5, TotalUnfolds
<1>7. e # p
  BY <1>3, <1>6
<1>8. x \ {p} \notin T /\ x \ {e} \notin T
  BY <1>2, <1>3, <1>4
<1>9. Total(x \ {p}) = Signed(e) + Total((x \ {p}) \ {e})
  BY <1>4, <1>7, <1>8
<1>10. Total(x \ {e}) = Signed(p) + Total((x \ {e}) \ {p})
  BY <1>4, <1>7, <1>8
<1>11. (x \ {p}) \ {e} = (x \ {e}) \ {p}
  OBVIOUS
<1>12. Signed(e) \in Int /\ Signed(p) \in Int /\ Total((x \ {e}) \ {p}) \in Int
  BY <1>4, <1>5, TotalIsInt
<1>13. Total(x) = Signed(p) + (Signed(e) + Total((x \ {e}) \ {p}))
  BY <1>6, <1>9, <1>11
<1>14. Total(x) # Signed(e) + (Signed(p) + Total((x \ {e}) \ {p}))
  BY <1>3, <1>10
<1> HIDE DEF p
<1> QED
  BY ONLY <1>12, <1>13, <1>14

\* What the rest of the proofs use: nothing adds up to nothing, and a posting
\* adds its own amount.
LEMMA NetEmpty == Net({}) = 0
BY NetIsTotal, TotalUnfolds, FS_EmptySet

LEMMA NetInt ==
  ASSUME NEW S, IsFiniteSet(S), \A e \in S : Signed(e) \in Int
  PROVE  Net(S) \in Int
BY NetIsTotal, TotalIsInt

LEMMA NetAdd ==
  ASSUME NEW S, IsFiniteSet(S), \A e \in S : Signed(e) \in Int,
         NEW d, d \notin S, Signed(d) \in Int
  PROVE  Net(S \cup {d}) = Signed(d) + Net(S)
<1>1. IsFiniteSet(S \cup {d}) /\ (S \cup {d}) \ {d} = S
  BY FS_AddElement
<1> QED
  BY <1>1, TotalRemove, NetIsTotal

-----------------------------------------------------------------------------
(***************************************************************************)
(* Every entry group balances, so whole groups do.                         *)
(***************************************************************************)
Balanced(S) ==
  /\ IsFiniteSet(S)
  /\ \A e \in S : Signed(e) \in Int
  /\ Net(S) = 0

LEMMA SignedPosting ==
  ASSUME NEW g, NEW r, NEW k, NEW a, NEW n
  PROVE  /\ Signed(Posting(g, r, k, a, "debit", n)) = n
         /\ Signed(Posting(g, r, k, a, "credit", n)) = -n
BY DEF Posting, Signed

\* The two sides of an entry cancel out.
LEMMA AddPair ==
  ASSUME NEW S, Balanced(S), NEW d, NEW e, d \notin S, e \notin S, d # e,
         Signed(d) \in Int, Signed(e) = -Signed(d)
  PROVE  Balanced(S \cup {d, e})
<1> USE DEF Balanced
<1>1. /\ IsFiniteSet(S \cup {d}) /\ Signed(e) \in Int
      /\ Net(S \cup {d}) = Signed(d) + Net(S)
  BY FS_AddElement, NetAdd
<1>2. /\ IsFiniteSet((S \cup {d}) \cup {e})
      /\ Net((S \cup {d}) \cup {e}) = Signed(e) + Net(S \cup {d})
  BY <1>1, FS_AddElement, NetAdd
<1>3. (S \cup {d}) \cup {e} = S \cup {d, e}
  OBVIOUS
<1>4. /\ IsFiniteSet(S \cup {d, e})
      /\ Net(S \cup {d, e}) = -Signed(d) + (Signed(d) + 0)
  BY <1>1, <1>2, <1>3
<1>5. Net(S \cup {d, e}) = 0
  BY <1>4
<1>6. \A x \in S \cup {d, e} : Signed(x) \in Int
  BY <1>1
<1> QED
  BY <1>4, <1>5, <1>6

LEMMA AddZero ==
  ASSUME NEW S, Balanced(S), NEW d, d \notin S, Signed(d) = 0
  PROVE  Balanced(S \cup {d})
BY FS_AddElement, NetAdd DEF Balanced

LEMMA AddHeld ==
  ASSUME NEW S, Balanced(S), NEW g, NEW r, \A e \in S : e.kind # "authorization"
  PROVE  Balanced(S \cup AuthorizationPostings(g, r, Fare))
<1> DEFINE d == Posting(g, r, "authorization", RiderReceivable, "debit", Fare)
           e == Posting(g, r, "authorization", AuthorizationHold, "credit", Fare)
<1>1. d \notin S /\ e \notin S /\ d # e
  BY DEF Posting
<1>2. Signed(d) \in Int /\ Signed(e) = -Signed(d)
  BY FareAssumption, SignedPosting
<1> HIDE DEF d, e
<1>3. Balanced(S \cup {d, e})
  BY <1>1, <1>2, AddPair
<1> QED
  BY <1>3 DEF AuthorizationPostings, d, e

LEMMA AddVoid ==
  ASSUME NEW S, Balanced(S), NEW g, NEW r, \A e \in S : e.kind # "void"
  PROVE  Balanced(S \cup VoidPostings(g, r, Fare))
<1> DEFINE d == Posting(g, r, "void", AuthorizationHold, "debit", Fare)
           e == Posting(g, r, "void", RiderReceivable, "credit", Fare)
<1>1. d \notin S /\ e \notin S /\ d # e
  BY DEF Posting
<1>2. Signed(d) \in Int /\ Signed(e) = -Signed(d)
  BY FareAssumption, SignedPosting
<1> HIDE DEF d, e
<1>3. Balanced(S \cup {d, e})
  BY <1>1, <1>2, AddPair
<1> QED
  BY <1>3 DEF VoidPostings, d, e

LEMMA AddCapture ==
  ASSUME NEW S, Balanced(S), NEW g, NEW r, NEW d,
         \A e \in S : e.kind \notin {"hold_release", "capture",
                                    "driver_earnings", "platform_commission"}
  PROVE  Balanced(S \cup CapturePostings(g, r, d, Fare))
<1> DEFINE a == Posting(g, r, "hold_release", AuthorizationHold, "debit", Fare)
           b == Posting(g, r, "hold_release", RiderReceivable, "credit", Fare)
           c == Posting(g, r, "capture", Cash, "debit", Fare)
           e == Posting(g, r, "driver_earnings", DriverEarnings(d), "credit", Fare)
           z == Posting(g, r, "platform_commission", PlatformCommission, "credit", 0)
<1>1. /\ \A x \in {a, b, c, e, z} : x \notin S
      /\ a # b /\ c \notin {a, b} /\ e \notin {a, b, c} /\ z \notin {a, b, c, e}
  BY DEF Posting
<1>2. /\ Signed(a) \in Int /\ Signed(b) = -Signed(a)
      /\ Signed(c) \in Int /\ Signed(e) = -Signed(c) /\ Signed(z) = 0
  BY FareAssumption, SignedPosting
<1> HIDE DEF a, b, c, e, z
<1>3. Balanced(S \cup {a, b})
  BY <1>1, <1>2, AddPair
<1>4. Balanced((S \cup {a, b}) \cup {c, e})
  BY <1>1, <1>2, <1>3, AddPair
<1>5. Balanced(((S \cup {a, b}) \cup {c, e}) \cup {z})
  BY <1>1, <1>2, <1>4, AddZero
<1>6. ((S \cup {a, b}) \cup {c, e}) \cup {z} = S \cup {a, b, c, e, z}
  OBVIOUS
<1> QED
  BY <1>5, <1>6 DEF CapturePostings, a, b, c, e, z

-----------------------------------------------------------------------------
(***************************************************************************)
(* Posting an entry group: all of it when its keys are free, none of it    *)
(* when they are taken.                                                    *)
(***************************************************************************)
SameKey(p, e) == e.ride = p.ride /\ e.kind = p.kind /\ e.account = p.account

LEMMA PostFree ==
  ASSUME NEW E, NEW P, \A p \in P : ~ \E e \in E : SameKey(p, e)
  PROVE  Post(E, P) = E \cup P
BY DEF Post, FreshPostings, SameKey

LEMMA PostTaken ==
  ASSUME NEW E, NEW P, \A p \in P : \E e \in E : SameKey(p, e)
  PROVE  Post(E, P) = E
BY DEF Post, FreshPostings, SameKey

\* A group is about one ride: it meets the entries of that ride only.
LEMMA PostOfRide ==
  ASSUME NEW E, NEW P, NEW r, \A p \in P : p.ride = r
  PROVE  OfRide(Post(E, P), r) = Post(OfRide(E, r), P)
BY DEF Post, FreshPostings, OfRide

LEMMA PostElsewhere ==
  ASSUME NEW E, NEW P, NEW r, \A p \in P : p.ride = r, NEW s, s # r
  PROVE  OfRide(Post(E, P), s) = OfRide(E, s)
BY DEF Post, FreshPostings, OfRide

AuthorizationGroups(r) == {AuthorizationPostings(g, r, Fare) : g \in Calls} \cup {{}}
CaptureGroups(r, d) == {CapturePostings(g, r, d, Fare) : g \in Calls} \cup {{}}
VoidGroups(r) == {VoidPostings(g, r, Fare) : g \in Calls} \cup {{}}

LEMMA GroupKinds ==
  ASSUME NEW r, NEW d
  PROVE  /\ \A h \in AuthorizationGroups(r) : \A e \in h :
              e.ride = r /\ e.kind = "authorization"
         /\ \A x \in CaptureGroups(r, d) : \A e \in x :
              e.ride = r /\ e.kind \in {"hold_release", "capture",
                                     "driver_earnings", "platform_commission"}
         /\ \A v \in VoidGroups(r) : \A e \in v : e.ride = r /\ e.kind = "void"
BY DEF AuthorizationGroups, CaptureGroups, VoidGroups, AuthorizationPostings,
   CapturePostings, VoidPostings, Posting

LEMMA PostCapture ==
  ASSUME NEW r, NEW d, NEW h \in AuthorizationGroups(r), NEW x \in CaptureGroups(r, d),
         NEW v \in VoidGroups(r), NEW g \in Calls
  PROVE  Post(h \cup x \cup v, CapturePostings(g, r, d, Fare)) =
           h \cup (IF x = {} THEN CapturePostings(g, r, d, Fare) ELSE x) \cup v
<1> DEFINE P == CapturePostings(g, r, d, Fare)
<1>1. P \in CaptureGroups(r, d)
  BY DEF CaptureGroups
<1>2. \A p \in P : p.kind \in {"hold_release", "capture",
                              "driver_earnings", "platform_commission"}
  BY <1>1, GroupKinds
<1>3. CASE x = {}
  <2>1. \A p \in P : ~ \E e \in h \cup x \cup v : SameKey(p, e)
    BY <1>2, <1>3, GroupKinds DEF SameKey
  <2> HIDE DEF P
  <2>2. Post(h \cup x \cup v, P) = (h \cup x \cup v) \cup P
    BY <2>1, PostFree
  <2>3. (h \cup x \cup v) \cup P = h \cup P \cup v
    BY <1>3
  <2> QED
    BY <1>3, <2>2, <2>3 DEF P
<1>4. CASE x # {}
  <2>1. PICK f \in Calls : x = CapturePostings(f, r, d, Fare)
    BY <1>4 DEF CaptureGroups
  <2>2. \A p \in P : \E e \in x : SameKey(p, e)
    BY <2>1 DEF CapturePostings, Posting, SameKey
  <2>3. \A p \in P : \E e \in h \cup x \cup v : SameKey(p, e)
    BY <2>2
  <2> HIDE DEF P
  <2>4. Post(h \cup x \cup v, P) = h \cup x \cup v
    BY <2>3, PostTaken
  <2> QED
    BY <1>4, <2>4 DEF P
<1> QED
  BY <1>3, <1>4

LEMMA PostVoid ==
  ASSUME NEW r, NEW d, NEW h \in AuthorizationGroups(r), NEW x \in CaptureGroups(r, d),
         NEW v \in VoidGroups(r), NEW g \in Calls
  PROVE  Post(h \cup x \cup v, VoidPostings(g, r, Fare)) =
           h \cup x \cup (IF v = {} THEN VoidPostings(g, r, Fare) ELSE v)
<1> DEFINE P == VoidPostings(g, r, Fare)
<1>1. P \in VoidGroups(r)
  BY DEF VoidGroups
<1>2. \A p \in P : p.kind = "void"
  BY <1>1, GroupKinds
<1>3. CASE v = {}
  <2>1. \A p \in P : ~ \E e \in h \cup x \cup v : SameKey(p, e)
    BY <1>2, <1>3, GroupKinds DEF SameKey
  <2> HIDE DEF P
  <2>2. Post(h \cup x \cup v, P) = (h \cup x \cup v) \cup P
    BY <2>1, PostFree
  <2>3. (h \cup x \cup v) \cup P = h \cup x \cup P
    BY <1>3
  <2> QED
    BY <1>3, <2>2, <2>3 DEF P
<1>4. CASE v # {}
  <2>1. PICK f \in Calls : v = VoidPostings(f, r, Fare)
    BY <1>4 DEF VoidGroups
  <2>2. \A p \in P : \E e \in v : SameKey(p, e)
    BY <2>1 DEF VoidPostings, Posting, SameKey
  <2>3. \A p \in P : \E e \in h \cup x \cup v : SameKey(p, e)
    BY <2>2
  <2> HIDE DEF P
  <2>4. Post(h \cup x \cup v, P) = h \cup x \cup v
    BY <2>3, PostTaken
  <2> QED
    BY <1>4, <2>4 DEF P
<1> QED
  BY <1>3, <1>4

\* The books of a ride as their three groups.
LEMMA BooksAreGroups ==
  ASSUME NEW r, BooksOK(r)
  PROVE  \E h \in AuthorizationGroups(r), x \in CaptureGroups(r, rides[r].driver),
            v \in VoidGroups(r) :
           /\ OfRide(ledger, r) = h \cup x \cup v
           /\ Present(r) => h # {}
           /\ x # {} => rides[r].driver # None
BY DEF BooksOK, AuthorizationGroups, CaptureGroups, VoidGroups

LEMMA GroupsBalance ==
  ASSUME NEW r, NEW d, NEW h \in AuthorizationGroups(r), NEW x \in CaptureGroups(r, d),
         NEW v \in VoidGroups(r)
  PROVE  Balanced(h \cup x \cup v)
<1>1. Balanced({})
  BY NetEmpty, FS_EmptySet DEF Balanced
<1>2. Balanced(h)
  <2>1. CASE h = {}
    BY <1>1, <2>1
  <2>2. CASE h # {}
    <3>1. PICK g \in Calls : h = AuthorizationPostings(g, r, Fare)
      BY <2>2 DEF AuthorizationGroups
    <3>2. Balanced({} \cup AuthorizationPostings(g, r, Fare))
      BY <1>1, AddHeld
    <3> QED
      BY <3>1, <3>2
  <2> QED
    BY <2>1, <2>2
<1>3. Balanced(h \cup x)
  <2>1. CASE x = {}
    BY <1>2, <2>1
  <2>2. CASE x # {}
    <3>1. PICK g \in Calls : x = CapturePostings(g, r, d, Fare)
      BY <2>2 DEF CaptureGroups
    <3>2. Balanced(h \cup CapturePostings(g, r, d, Fare))
      BY <1>2, GroupKinds, AddCapture
    <3> QED
      BY <3>1, <3>2
  <2> QED
    BY <2>1, <2>2
<1>4. CASE v = {}
  BY <1>3, <1>4
<1>5. CASE v # {}
  <2>1. PICK g \in Calls : v = VoidPostings(g, r, Fare)
    BY <1>5 DEF VoidGroups
  <2>2. \A e \in h \cup x : e.kind # "void"
    BY GroupKinds
  <2>3. Balanced((h \cup x) \cup VoidPostings(g, r, Fare))
    BY <1>3, <2>2, AddVoid
  <2> QED
    BY <2>1, <2>3
<1> QED
  BY <1>4, <1>5

-----------------------------------------------------------------------------
(***************************************************************************)
(* LedgerInv is inductive, given IInv.                                     *)
(***************************************************************************)
LEMMA InitLedgerInv == Init => LedgerInv
<1> SUFFICES ASSUME Init PROVE LedgerInv
  OBVIOUS
<1> USE DEF Init, StoreInit, GatewayInit
<1>1. \A r \in Rides : BooksOK(r)
  <2> SUFFICES ASSUME NEW r \in Rides PROVE BooksOK(r)
    OBVIOUS
  <2>1. OfRide(ledger, r) = {} \cup {} \cup {} /\ ~Present(r)
    BY DEF OfRide, NoRow, Present
  <2> QED
    BY <2>1 DEF BooksOK
<1> QED
  BY <1>1, FS_EmptySet DEF LedgerInv, Idle

LEMMA GroupsAreFinite ==
  ASSUME NEW g \in Calls, NEW r, NEW d
  PROVE  /\ IsFiniteSet(AuthorizationPostings(g, r, Fare))
         /\ IsFiniteSet(CapturePostings(g, r, d, Fare))
         /\ IsFiniteSet(VoidPostings(g, r, Fare))
<1>1. /\ AuthorizationPostings(g, r, Fare) \in AuthorizationGroups(r)
      /\ CapturePostings(g, r, d, Fare) \in CaptureGroups(r, d)
      /\ VoidPostings(g, r, Fare) \in VoidGroups(r)
  BY DEF AuthorizationGroups, CaptureGroups, VoidGroups
<1>2. /\ {} \in AuthorizationGroups(r) /\ {} \in CaptureGroups(r, d) /\ {} \in VoidGroups(r)
  BY DEF AuthorizationGroups, CaptureGroups, VoidGroups
<1>3. IsFiniteSet(AuthorizationPostings(g, r, Fare) \cup {} \cup {})
  BY <1>1, <1>2, GroupsBalance DEF Balanced
<1>4. IsFiniteSet({} \cup CapturePostings(g, r, d, Fare) \cup {})
  BY <1>1, <1>2, GroupsBalance DEF Balanced
<1>5. IsFiniteSet({} \cup {} \cup VoidPostings(g, r, Fare))
  BY <1>1, <1>2, GroupsBalance DEF Balanced
<1> QED
  BY <1>3, <1>4, <1>5

LEMMA LedgerStaysFinite ==
  ASSUME IInv, IsFiniteSet(ledger), [Next]_vars
  PROVE  IsFiniteSet(ledger')
<1>1. ASSUME NEW P, IsFiniteSet(P) PROVE IsFiniteSet(Post(ledger, P))
  <2>1. IsFiniteSet(FreshPostings(ledger, P))
    BY <1>1, FS_Subset DEF FreshPostings
  <2> QED
    BY <2>1, FS_Union DEF Post
<1>2. CASE UNCHANGED <<rides, payments, ledger>>
  BY <1>2
<1>3. ASSUME NEW c \in Calls, RowWrite(c) PROVE IsFiniteSet(ledger')
  BY <1>1, <1>3, GroupsAreFinite DEF RowWrite, PersistAuthorization, Claim, StartRide, SetTries,
     PersistCapture, PersistVoid
<1> QED
  BY <1>2, <1>3, WritesAreGuarded

\* A completing handler has the driver of its ride: it read them from a row that
\* had one, and such a row keeps its driver.
LEMMA CompletingDriver ==
  ASSUME IInv, [Next]_vars, NEW c \in Calls,
         req[c].at \in {"payment", "capture", "persistCapture"}
           => req[c].driver = rides[req[c].ride].driver,
         req'[c].at \in {"payment", "capture", "persistCapture"}
  PROVE  req'[c].driver = rides'[req'[c].ride].driver
<1>0. req \in [Calls -> Requests] /\ req[c] \in Requests
  BY DEF IInv, TypeOK
<1>1. CASE req'[c] = req[c]
  <2>1. /\ req[c].ride \in Rides /\ Present(req[c].ride) /\ req[c].driver \in Drivers
        /\ req[c].driver = rides[req[c].ride].driver
    BY <1>1 DEF IInv, CallRefs, CallMoney, Confirming, At
  <2> QED
    BY <1>1, <2>1, NoneAssumption, RowKeeps
<1>2. CASE req'[c] = Idle
  BY <1>2 DEF Idle
<1>3. CASE Arrive(c)
  <2>1. PICK r \in Rides : Complete(c, r)
    BY <1>0, <1>3 DEF Arrive, Confirm, Accept, StartTrip, Cancel, AssignTo,
       AssignGreedy, Ping, Go, Idle
  <2> QED
    BY <1>0, <2>1 DEF Complete, Go, Idle, storeVars
<1>4. CASE CompletePayment(c)
  <2>1. /\ At(c, "payment") /\ UNCHANGED rides
        /\ req'[c] = Idle \/ req'[c] = [req[c] EXCEPT !.at = "capture"]
    BY <1>0, <1>4 DEF CompletePayment, Goto, Finish, Go, storeVars
  <2> QED
    BY <1>0, <2>1, <1>2 DEF At, Requests
<1>5. CASE CompleteCapture(c)
  <2>1. /\ At(c, "capture") /\ UNCHANGED rides
        /\ req'[c] = Idle \/ req'[c] = [req[c] EXCEPT !.at = "persistCapture"]
    BY <1>0, <1>5 DEF CompleteCapture, Goto, Finish, Go, storeVars
  <2> QED
    BY <1>0, <2>1, <1>2 DEF At, Requests
<1>6. CASE ConfirmAuthorize(c) \/ CancelVoid(c)
  BY <1>0, <1>2, <1>6 DEF ConfirmAuthorize, CancelVoid, Goto, Finish, Go, Requests
<1>7. CASE \/ AcceptOffer(c) \/ Rank(c) \/ TryClaim(c) \/ LockDriver(c)
           \/ AssignDriver(c) \/ PingSeq(c)
  BY <1>2, <1>7, GoesOnAside
<1> QED
  BY <1>1, <1>2, <1>3, <1>4, <1>5, <1>6, <1>7, WhoMoves DEF GoesOn

\* Three groups that make up the books after a step.
LEMMA GroupsAreBooks ==
  ASSUME NEW r, NEW h \in AuthorizationGroups(r), NEW x \in CaptureGroups(r, rides'[r].driver),
         NEW v \in VoidGroups(r), OfRide(ledger', r) = h \cup x \cup v,
         Present(r)' => h # {}, x # {} => rides'[r].driver # None
  PROVE  BooksOK(r)'
BY DEF BooksOK, AuthorizationGroups, CaptureGroups, VoidGroups

\* The books of a ride nobody writes stay as they are.
LEMMA BooksStay ==
  ASSUME NEW r, BooksOK(r), OfRide(ledger', r) = OfRide(ledger, r), rides'[r] = rides[r]
  PROVE  BooksOK(r)'
<1>1. PICK h \in AuthorizationGroups(r), x \in CaptureGroups(r, rides[r].driver),
           v \in VoidGroups(r) :
        /\ OfRide(ledger, r) = h \cup x \cup v
        /\ Present(r) => h # {}
        /\ x # {} => rides[r].driver # None
  BY BooksAreGroups
<1>2. x \in CaptureGroups(r, rides'[r].driver)
  BY <1>1
<1> QED
  BY <1>1, <1>2, GroupsAreBooks DEF Present

LEMMA BooksStep ==
  ASSUME IInv, LedgerInv, NEW c \in Calls, NEW r \in Rides, r = req[c].ride, RowWrite(c),
         [Next]_vars
  PROVE  BooksOK(r)'
<1>0. rides \in [Rides -> RideRows]
  BY DEF IInv, TypeOK
<1>1. PICK h \in AuthorizationGroups(r), x \in CaptureGroups(r, rides[r].driver),
           v \in VoidGroups(r) :
        /\ OfRide(ledger, r) = h \cup x \cup v
        /\ Present(r) => h # {}
        /\ x # {} => rides[r].driver # None
  BY BooksAreGroups DEF LedgerInv
<1>2. CASE ~Present(r) /\ PersistAuthorization(r, req[c].quote, req[c].intent, c)
  <2> DEFINE P == AuthorizationPostings(c, r, Fare)
  <2>1. OfRide(ledger, r) = {}
    BY <1>2 DEF OfRide, IInv, EntryOK
  <2>2. P \in AuthorizationGroups(r) /\ P # {} /\ \A p \in P : p.ride = r
    BY DEF AuthorizationGroups, AuthorizationPostings, Posting
  <2>3. ledger' = Post(ledger, P)
    BY <1>2 DEF PersistAuthorization
  <2> HIDE DEF P
  <2>4. OfRide(ledger', r) = Post(OfRide(ledger, r), P)
    BY <2>2, <2>3, PostOfRide
  <2>5. Post({}, P) = {} \cup P
    BY PostFree
  <2>6. OfRide(ledger', r) = P \cup {} \cup {}
    BY <2>1, <2>4, <2>5
  <2>7. {} \in CaptureGroups(r, rides'[r].driver) /\ {} \in VoidGroups(r)
    BY DEF CaptureGroups, VoidGroups
  <2> QED
    BY <2>2, <2>6, <2>7, GroupsAreBooks
<1>3. CASE Present(r) /\ ((\E d \in Drivers : Claim(r, d)) \/ StartRide(r)
                           \/ \E n \in Nat : SetTries(r, n))
  <2>1. UNCHANGED ledger
    BY <1>3 DEF Claim, StartRide, SetTries
  <2>2. CASE x = {}
    <3>1. {} \in CaptureGroups(r, rides'[r].driver)
      BY DEF CaptureGroups
    <3>2. OfRide(ledger', r) = h \cup {} \cup v /\ h # {}
      BY <1>1, <1>3, <2>1, <2>2
    <3> QED
      BY <1>1, <3>1, <3>2, GroupsAreBooks
  <2>3. CASE x # {}
    <3>1. rides'[r].driver = rides[r].driver /\ rides[r].driver # None
      BY <1>1, <1>3, <2>3, RowKeeps
    <3>2. OfRide(ledger', r) = h \cup x \cup v /\ h # {}
      BY <1>1, <1>3, <2>1
    <3>3. x \in CaptureGroups(r, rides'[r].driver)
      BY <1>1, <3>1
    <3> QED
      BY <1>1, <3>1, <3>2, <3>3, GroupsAreBooks
  <2> QED
    BY <2>2, <2>3
<1>4. CASE Present(r) /\ At(c, "persistCapture") /\ PersistCapture(r, req[c].driver, c)
  <2> DEFINE d == rides[r].driver
             P == CapturePostings(c, r, d, Fare)
             y == IF x = {} THEN P ELSE x
  <2>1. req[c].driver = d /\ d \in Drivers
    BY <1>4 DEF At, LedgerInv, IInv, CallMoney
  <2>2. ledger' = Post(ledger, P) /\ \A p \in P : p.ride = r
    BY <1>4, <2>1 DEF PersistCapture, CapturePostings, Posting
  <2>3. OfRide(ledger', r) = Post(h \cup x \cup v, P)
    <3> HIDE DEF P, d
    <3>1. OfRide(ledger', r) = Post(OfRide(ledger, r), P)
      BY <2>2, PostOfRide
    <3> QED
      BY <1>1, <3>1
  <2>4. OfRide(ledger', r) = h \cup y \cup v
    <3>1. x \in CaptureGroups(r, d)
      BY <1>1
    <3> HIDE DEF d
    <3>2. Post(h \cup x \cup v, P) = h \cup y \cup v
      BY <1>1, <3>1, PostCapture
    <3> QED
      BY <2>3, <3>2
  <2>5. y \in CaptureGroups(r, d)
    BY <1>1 DEF CaptureGroups
  <2>6. rides'[r].driver = d /\ d # None
    BY <1>4, <2>1, NoneAssumption, RowKeeps
  <2>7. h # {}
    BY <1>1, <1>4
  <2> HIDE DEF y, d
  <2> QED
    BY <1>1, <2>4, <2>5, <2>6, <2>7, GroupsAreBooks
<1>5. CASE Present(r) /\ At(c, "persistVoid") /\ PersistVoid(r, c)
  <2> DEFINE P == VoidPostings(c, r, Fare)
             w == IF v = {} THEN P ELSE v
  <2>1. ledger' = Post(ledger, P) /\ \A p \in P : p.ride = r
    BY <1>5 DEF PersistVoid, VoidPostings, Posting
  <2>2. OfRide(ledger', r) = Post(h \cup x \cup v, P)
    <3> HIDE DEF P
    <3>1. OfRide(ledger', r) = Post(OfRide(ledger, r), P)
      BY <2>1, PostOfRide
    <3> QED
      BY <1>1, <3>1
  <2>3. OfRide(ledger', r) = h \cup x \cup w
    BY <1>1, <2>2, PostVoid
  <2>4. w \in VoidGroups(r)
    BY <1>1 DEF VoidGroups
  <2>5. rides'[r].driver = rides[r].driver
    BY <1>0, <1>5 DEF PersistVoid, RideRows
  <2>6. h # {} /\ x \in CaptureGroups(r, rides'[r].driver)
    BY <1>1, <1>5, <2>5
  <2> HIDE DEF w
  <2> QED
    BY <1>1, <2>3, <2>4, <2>5, <2>6, GroupsAreBooks
<1> QED
  BY <1>2, <1>3, <1>4, <1>5 DEF RowWrite

\* A write is about the ride of its handler.
LEMMA WritesElsewhere ==
  ASSUME IInv, NEW c \in Calls, req[c].ride \in Rides, RowWrite(c),
         NEW s \in Rides, s # req[c].ride
  PROVE  /\ rides'[s] = rides[s] /\ payments'[s] = payments[s]
         /\ OfRide(ledger', s) = OfRide(ledger, s)
         /\ \A k : Posted(ledger', s, k) <=> Posted(ledger, s, k)
<1> DEFINE r == req[c].ride
<1>1. rides'[s] = rides[s] /\ payments'[s] = payments[s]
  BY DEF IInv, TypeOK, RowWrite, PersistAuthorization, Claim, StartRide, SetTries,
     PersistCapture, PersistVoid
<1>2. \/ UNCHANGED ledger
      \/ \E P : ledger' = Post(ledger, P) /\ \A p \in P : p.ride = r
  <2>1. /\ \A p \in AuthorizationPostings(c, r, Fare) : p.ride = r
        /\ \A p \in CapturePostings(c, r, req[c].driver, Fare) : p.ride = r
        /\ \A p \in VoidPostings(c, r, Fare) : p.ride = r
    BY DEF AuthorizationPostings, CapturePostings, VoidPostings, Posting
  <2> QED
    BY <2>1 DEF RowWrite, PersistAuthorization, Claim, StartRide, SetTries,
       PersistCapture, PersistVoid
<1>3. OfRide(ledger', s) = OfRide(ledger, s)
  <2>1. ASSUME NEW P, \A p \in P : p.ride = r
        PROVE  OfRide(Post(ledger, P), s) = OfRide(ledger, s)
    BY <2>1 DEF Post, FreshPostings, OfRide
  <2> QED
    BY <1>2, <2>1
<1> QED
  BY <1>1, <1>3 DEF OfRide, Posted

LEMMA LedgerStep == IInv /\ LedgerInv /\ [Next]_vars => LedgerInv'
<1> SUFFICES ASSUME IInv, LedgerInv, [Next]_vars PROVE LedgerInv'
  OBVIOUS
<1>1. IsFiniteSet(ledger')
  BY LedgerStaysFinite DEF LedgerInv
<1>2. ASSUME NEW c \in Calls, req'[c].at \in {"payment", "capture", "persistCapture"}
      PROVE  req'[c].driver = rides'[req'[c].ride].driver
  BY <1>2, CompletingDriver DEF LedgerInv
<1>3. ASSUME NEW s \in Rides
      PROVE  /\ BooksOK(s)'
             /\ payments'[s] = "captured" => Posted(ledger', s, "capture")
             /\ payments'[s] = "voided" => Posted(ledger', s, "void")
  <2>0. /\ BooksOK(s)
        /\ payments[s] = "captured" => Posted(ledger, s, "capture")
        /\ payments[s] = "voided" => Posted(ledger, s, "void")
    BY DEF LedgerInv, Captured, Voided
  <2>1. CASE UNCHANGED <<rides, payments, ledger>>
    BY <2>0, <2>1, BooksStay
  <2>2. ASSUME NEW c \in Calls, req[c].ride \in Rides, RowWrite(c), s # req[c].ride
        PROVE  /\ BooksOK(s)'
               /\ payments'[s] = "captured" => Posted(ledger', s, "capture")
               /\ payments'[s] = "voided" => Posted(ledger', s, "void")
    <3>1. /\ rides'[s] = rides[s] /\ payments'[s] = payments[s]
          /\ OfRide(ledger', s) = OfRide(ledger, s)
          /\ \A k : Posted(ledger', s, k) <=> Posted(ledger, s, k)
      BY <2>2, WritesElsewhere
    <3> QED
      BY <2>0, <3>1, BooksStay
  <2>3. ASSUME NEW c \in Calls, req[c].ride \in Rides, RowWrite(c), s = req[c].ride
        PROVE  /\ BooksOK(s)'
               /\ payments'[s] = "captured" => Posted(ledger', s, "capture")
               /\ payments'[s] = "voided" => Posted(ledger', s, "void")
    <3>0. payments \in [Rides -> PaymentStatuses]
      BY DEF IInv, TypeOK
    <3>1. BooksOK(s)'
      BY <2>3, BooksStep
    <3>2. CASE PersistAuthorization(s, req[c].quote, req[c].intent, c)
      BY <3>0, <3>1, <3>2 DEF PersistAuthorization
    <3>3. CASE (\E d \in Drivers : Claim(s, d)) \/ StartRide(s) \/ \E n \in Nat : SetTries(s, n)
      BY <2>0, <3>1, <3>3 DEF Claim, StartRide, SetTries
    <3>4. CASE PersistCapture(s, req[c].driver, c)
      <4>1. PICK p \in CapturePostings(c, s, req[c].driver, Fare) :
              p.ride = s /\ p.kind = "capture"
        BY DEF CapturePostings, Posting
      <4>2. Posted(ledger', s, "capture")
        BY <3>4, <4>1, PostedIsThere DEF PersistCapture
      <4> QED
        BY <3>0, <3>1, <3>4, <4>2 DEF PersistCapture
    <3>5. CASE PersistVoid(s, c)
      <4>1. PICK p \in VoidPostings(c, s, Fare) : p.ride = s /\ p.kind = "void"
        BY DEF VoidPostings, Posting
      <4>2. Posted(ledger', s, "void")
        BY <3>5, <4>1, PostedIsThere DEF PersistVoid
      <4> QED
        BY <3>0, <3>1, <3>5, <4>2 DEF PersistVoid
    <3> QED
      BY <2>3, <3>2, <3>3, <3>4, <3>5 DEF RowWrite
  <2> QED
    BY <2>1, <2>2, <2>3, WritesAreGuarded
<1> QED
  BY <1>1, <1>2, <1>3 DEF LedgerInv, Captured, Voided

\* However retries, races and deaths interleave, the books of a ride are whole
\* entry groups, each there at most once.
THEOREM LedgerInvariance == Spec => []LedgerInv
BY InitLedgerInv, LedgerStep, Invariance, PTL DEF Spec

\* The ledger of every ride balances.
THEOREM LedgerBalances == Spec => []LedgerBalanced
<1>1. LedgerInv => LedgerBalanced
  <2> SUFFICES ASSUME LedgerInv, NEW r \in Rides PROVE Net(OfRide(ledger, r)) = 0
    BY DEF LedgerBalanced, IsBalanced
  <2>1. PICK h \in AuthorizationGroups(r), x \in CaptureGroups(r, rides[r].driver),
             v \in VoidGroups(r) : OfRide(ledger, r) = h \cup x \cup v
    BY BooksAreGroups DEF LedgerInv
  <2> QED
    BY <2>1, GroupsBalance DEF Balanced
<1> QED
  BY <1>1, LedgerInvariance, PTL

-----------------------------------------------------------------------------
(***************************************************************************)
(* What the ledger credits a driver.                                       *)
(***************************************************************************)
LEMMA EarningsAccounts ==
  ASSUME NEW d, NEW k
  PROVE  /\ DriverEarnings(d) \notin {Cash, RiderReceivable, AuthorizationHold,
                                     PlatformCommission}
         /\ DriverEarnings(d) = DriverEarnings(k) => d = k
BY DEF DriverEarnings, Cash, RiderReceivable, AuthorizationHold, PlatformCommission

\* Of a ride's groups only the capture credits a driver, and one posting does.
LEMMA CreditOfGroups ==
  ASSUME NEW r, NEW k, NEW h \in AuthorizationGroups(r), NEW x \in CaptureGroups(r, k),
         NEW v \in VoidGroups(r), NEW d
  PROVE  {e \in h \cup x \cup v : e.account = DriverEarnings(d)} =
           IF d = k THEN {e \in x : e.kind = "driver_earnings"} ELSE {}
<1>1. \A e \in h \cup v : e.account # DriverEarnings(d)
  BY EarningsAccounts DEF AuthorizationGroups, VoidGroups, AuthorizationPostings,
     VoidPostings, Posting
<1>2. \A e \in x : e.account = DriverEarnings(d) <=> d = k /\ e.kind = "driver_earnings"
  BY EarningsAccounts DEF CaptureGroups, CapturePostings, Posting
<1> QED
  BY <1>1, <1>2

LEMMA EarningOfCapture ==
  ASSUME NEW r, NEW k, NEW g
  PROVE  {e \in CapturePostings(g, r, k, Fare) : e.kind = "driver_earnings"} =
           {Posting(g, r, "driver_earnings", DriverEarnings(k), "credit", Fare)}
BY DEF CapturePostings, Posting

LEMMA GroupsTakeHome ==
  ASSUME NEW r, NEW k, NEW h \in AuthorizationGroups(r), NEW x \in CaptureGroups(r, k),
         NEW v \in VoidGroups(r), NEW d
  PROVE  DriverTakeHome(h \cup x \cup v, d) = IF x # {} /\ d = k THEN Fare ELSE 0
<1> DEFINE E == {e \in h \cup x \cup v : e.account = DriverEarnings(d)}
<1>1. DriverTakeHome(h \cup x \cup v, d) = -Net(E)
  BY DEF DriverTakeHome
<1>2. E = IF d = k THEN {e \in x : e.kind = "driver_earnings"} ELSE {}
  BY CreditOfGroups
<1> HIDE DEF E
<1>3. CASE x = {} \/ d # k
  <2>1. E = {}
    BY <1>2, <1>3
  <2> QED
    BY <1>1, <1>3, <2>1, NetEmpty
<1>4. CASE x # {} /\ d = k
  <2>1. PICK g \in Calls : x = CapturePostings(g, r, k, Fare)
    BY <1>4 DEF CaptureGroups
  <2> DEFINE p == Posting(g, r, "driver_earnings", DriverEarnings(k), "credit", Fare)
  <2>2. E = {} \cup {p}
    BY <1>2, <1>4, <2>1, EarningOfCapture
  <2>3. Signed(p) = -Fare
    BY SignedPosting
  <2> HIDE DEF p
  <2>4. Net(E) = -Fare + 0
    BY <2>2, <2>3, FareAssumption, FS_EmptySet, NetAdd, NetEmpty
  <2> QED
    BY <1>1, <1>4, <2>4, FareAssumption
<1> QED
  BY <1>3, <1>4

\* The whole fare goes to the driver of the ride when it is captured, and
\* nothing to anyone otherwise.
THEOREM TakeHome == Spec => []TakeHomeExact
<1>1. LedgerInv => TakeHomeExact
  <2> SUFFICES ASSUME LedgerInv, NEW r \in Rides, NEW d \in Drivers
               PROVE  DriverTakeHome(OfRide(ledger, r), d) =
                        IF Captured(r) /\ rides[r].driver = d THEN Fare ELSE 0
    BY DEF TakeHomeExact
  <2>1. PICK h \in AuthorizationGroups(r), x \in CaptureGroups(r, rides[r].driver),
             v \in VoidGroups(r) : OfRide(ledger, r) = h \cup x \cup v
    BY BooksAreGroups DEF LedgerInv
  <2>2. Captured(r) <=> \E e \in h \cup x \cup v : e.kind = "capture"
    BY <2>1 DEF Captured, Posted, OfRide
  <2>3. Captured(r) <=> x # {}
    <3>1. ASSUME x # {}
          PROVE  \E e \in x : e.kind = "capture"
      <4> DEFINE k == rides[r].driver
      <4>1. PICK g \in Calls : x = CapturePostings(g, r, k, Fare)
        BY <3>1 DEF CaptureGroups
      <4> HIDE DEF k
      <4>2. Posting(g, r, "capture", Cash, "debit", Fare) \in x
        BY <4>1 DEF CapturePostings
      <4> QED
        BY <4>2 DEF Posting
    <3>2. \A e \in h \cup v : e.kind # "capture"
      BY GroupKinds
    <3> QED
      BY <2>2, <3>1, <3>2
  <2> QED
    BY <2>1, <2>3, GroupsTakeHome
<1> QED
  BY <1>1, LedgerInvariance, PTL

LEMMA RidesOfAreFinite ==
  ASSUME NEW E, IsFiniteSet(E)
  PROVE  IsFiniteSet({e.ride : e \in E})
<1> DEFINE f == [e \in E |-> e.ride]
<1>1. f \in Surjection(E, {e.ride : e \in E})
  BY DEF Surjection
<1> QED
  BY <1>1, FS_Surjection

\* Credits of one fare each, one per ride, add up to that many fares.
LEMMA CreditsCount ==
  ASSUME NEW E, IsFiniteSet(E), \A e \in E : Signed(e) = -Fare,
         \A e, f \in E : e.ride = f.ride => e = f
  PROVE  -Net(E) = Fare * Cardinality({e.ride : e \in E})
<1> DEFINE RidesIn(s) == {e.ride : e \in s}
           T == {s \in SUBSET E : Net(s) # -(Fare * Cardinality(RidesIn(s)))}
<1>0. ASSUME NEW s \in SUBSET E
      PROVE  /\ IsFiniteSet(s) /\ IsFiniteSet(RidesIn(s))
             /\ Net(s) \in Int /\ Cardinality(RidesIn(s)) \in Nat
  <2>1. IsFiniteSet(s)
    BY FS_Subset
  <2>2. IsFiniteSet(RidesIn(s))
    BY <2>1, RidesOfAreFinite
  <2>3. \A e \in s : Signed(e) \in Int
    BY FareAssumption
  <2> QED
    BY <2>1, <2>2, <2>3, NetInt, FS_CardinalityType
<1>1. SUFFICES ASSUME T # {} PROVE FALSE
  <2> DEFINE n == Cardinality(RidesIn(E))
  <2>1. T = {} => Net(E) = -(Fare * n)
    OBVIOUS
  <2>2. n \in Nat /\ Fare \in Nat
    BY <1>0, FareAssumption
  <2> HIDE DEF T, n
  <2>3. T = {} => -Net(E) = Fare * n
    BY <2>1, <2>2
  <2> QED
    BY <1>1, <2>3 DEF n
<1>2. PICK x \in T : \A y \in T : y \subseteq x => y = x
  <2>1. T \subseteq SUBSET E
    OBVIOUS
  <2> HIDE DEF T
  <2> QED
    BY <1>1, <2>1, SmallestSubset
<1>3. x # {}
  <2>1. RidesIn({}) = {} /\ Cardinality({}) = 0
    BY FS_EmptySet
  <2>2. -(Fare * 0) = 0
    BY FareAssumption
  <2>3. Net({}) = -(Fare * Cardinality(RidesIn({})))
    BY <2>1, <2>2, NetEmpty
  <2> QED
    BY <1>2, <2>3
<1>4. PICK e \in x : TRUE
  BY <1>3
<1> DEFINE s == x \ {e}
<1>5. s \in SUBSET E /\ s \notin T /\ e \notin s /\ x = s \cup {e} /\ e \in E
  BY <1>2, <1>4
<1>6. Net(s) = -(Fare * Cardinality(RidesIn(s)))
  BY <1>5
<1>7. RidesIn(x) = RidesIn(s) \cup {e.ride} /\ e.ride \notin RidesIn(s)
  BY <1>5
<1>8. /\ IsFiniteSet(s) /\ IsFiniteSet(RidesIn(s))
      /\ \A f \in s : Signed(f) \in Int
      /\ Signed(e) = -Fare /\ Signed(e) \in Int
  <2>1. Fare \in Nat
    BY FareAssumption
  <2> HIDE DEF RidesIn, T, s
  <2> QED
    BY <1>0, <1>5, <2>1
<1> DEFINE n == Cardinality(RidesIn(s))
<1>9. n \in Nat /\ Fare \in Int
  BY <1>8, FS_CardinalityType, FareAssumption
<1>10. Net(x) # -(Fare * Cardinality(RidesIn(x)))
  BY <1>2
<1> HIDE DEF RidesIn, T, s
<1>11. Cardinality(RidesIn(x)) = n + 1
  BY <1>7, <1>8, FS_AddElement DEF n
<1>12. Net(x) = -Fare + -(Fare * n)
  BY <1>5, <1>6, <1>8, NetAdd DEF n
<1> HIDE DEF n
<1>13. -(Fare * (n + 1)) = -Fare + -(Fare * n)
  BY ONLY <1>9
<1> QED
  BY <1>10, <1>11, <1>12, <1>13

\* The driver's summary adds up over all their trips.
THEOREM SummaryAdds == Spec => []SummaryAddsUp
<1>1. IInv /\ LedgerInv => SummaryAddsUp
  <2> SUFFICES ASSUME IInv, LedgerInv, NEW d \in Drivers
               PROVE  DriverTakeHome(ledger, d) = Fare * TripsCredited(ledger, d)
    BY DEF SummaryAddsUp
  <2> DEFINE E == {e \in ledger : e.account = DriverEarnings(d)}
  <2>1. ASSUME NEW r \in Rides
        PROVE  /\ \A e \in E : e.ride = r => e.kind = "driver_earnings" /\ Signed(e) = -Fare
               /\ \A e, f \in E : e.ride = r /\ f.ride = r => e = f
    <3>1. PICK h \in AuthorizationGroups(r), x \in CaptureGroups(r, rides[r].driver),
               v \in VoidGroups(r) : OfRide(ledger, r) = h \cup x \cup v
      BY BooksAreGroups DEF LedgerInv
    <3> DEFINE k == rides[r].driver
               D == {e \in h \cup x \cup v : e.account = DriverEarnings(d)}
    <3>2. \A e \in E : e.ride = r => e \in D
      BY <3>1 DEF OfRide
    <3>3. CASE x = {} \/ d # k
      BY <3>2, <3>3, CreditOfGroups
    <3>4. CASE x # {} /\ d = k
      <4>1. PICK g \in Calls : x = CapturePostings(g, r, k, Fare)
        BY <3>4 DEF CaptureGroups
      <4> DEFINE p == Posting(g, r, "driver_earnings", DriverEarnings(k), "credit", Fare)
      <4>2. D = {p}
        BY <3>4, <4>1, CreditOfGroups, EarningOfCapture
      <4>3. p.kind = "driver_earnings"
        BY DEF Posting
      <4>4. Signed(p) = -Fare
        BY SignedPosting
      <4> QED
        BY <3>2, <4>2, <4>3, <4>4
    <3> QED
      BY <3>3, <3>4
  <2>2. \A e \in E : e.ride \in Rides
    BY DEF IInv, TypeOK, Postings
  <2>3. IsFiniteSet(E)
    BY FS_Subset DEF LedgerInv
  <2>4. E = {e \in ledger : e.kind = "driver_earnings" /\ e.account = DriverEarnings(d)}
    BY <2>1, <2>2
  <2>5. -Net(E) = Fare * Cardinality({e.ride : e \in E})
    <3>1. \A e \in E : Signed(e) = -Fare
      BY <2>1, <2>2
    <3>2. \A e, f \in E : e.ride = f.ride => e = f
      BY <2>1, <2>2
    <3> HIDE DEF E
    <3> QED
      BY <2>3, <3>1, <3>2, CreditsCount
  <2> QED
    BY <2>4, <2>5 DEF DriverTakeHome, TripsCredited
<1> QED
  BY <1>1, Invariance, LedgerInvariance, PTL
-----------------------------------------------------------------------------
(***************************************************************************)
(* With Stripe, what the ledger tells of a hold is a settlement.           *)
(***************************************************************************)

\* The hold of a ride that is there is on the books.
LEMMA PresentIsHeld ==
  ASSUME NEW r \in Rides, BooksOK(r), Present(r)
  PROVE  Held(r)
<1>1. PICK h \in AuthorizationGroups(r), x \in CaptureGroups(r, rides[r].driver),
           v \in VoidGroups(r) : OfRide(ledger, r) = h \cup x \cup v /\ h # {}
  BY BooksAreGroups
<1>2. \A e \in h : e \in OfRide(ledger, r) /\ e.ride = r /\ e.kind = "authorization"
  BY <1>1, GroupKinds
<1> QED
  BY <1>1, <1>2 DEF Held, Posted, OfRide

\* The hold of the ride a handler writes is placed, captured or voided, or
\* stays as it is.
LEMMA HoldMoves ==
  ASSUME IInv, LedgerInv, Gateway = "stripe", NEW c \in Calls, NEW r \in Rides,
         r = req[c].ride, RowWrite(c)
  PROVE  \/ HoldOf(r)' = HoldOf(r)
         \/ HoldOf(r) = "none" /\ HoldOf(r)' = "held"
         \/ HoldOf(r) = "held" /\ HoldOf(r)' \in {"captured", "voided"}
<1> DEFINE In(k) == Posted(ledger, r, k)
           After(k) == Posted(ledger', r, k)
<1>0. /\ HoldOf(r) = CASE In("capture") /\ In("void") -> "both"
                       [] In("capture") /\ ~In("void") -> "captured"
                       [] In("void") /\ ~In("capture") -> "voided"
                       [] OTHER -> IF In("authorization") THEN "held" ELSE "none"
      /\ HoldOf(r)' = CASE After("capture") /\ After("void") -> "both"
                        [] After("capture") /\ ~After("void") -> "captured"
                        [] After("void") /\ ~After("capture") -> "voided"
                        [] OTHER -> IF After("authorization") THEN "held" ELSE "none"
  BY DEF HoldOf, Held, Captured, Voided
<1>1. Present(r) => In("authorization")
  BY PresentIsHeld DEF LedgerInv, Held
<1>2. /\ In("capture") => intents[rides[r].intent] = "captured"
      /\ In("void") => intents[rides[r].intent] = "voided"
  BY DEF IInv, EntryOK, Posted
<1>3. CASE ~Present(r) /\ PersistAuthorization(r, req[c].quote, req[c].intent, c)
  <2> DEFINE P == AuthorizationPostings(c, r, Fare)
  <2>1. ledger' = Post(ledger, P)
    BY <1>3 DEF PersistAuthorization
  <2>2. /\ \A p \in P : p.ride = r /\ p.kind = "authorization"
        /\ \E p \in P : p.ride = r /\ p.kind = "authorization"
    BY DEF AuthorizationPostings, Posting
  <2>3. ~In("capture") /\ ~In("void") /\ ~In("authorization")
    BY <1>3 DEF IInv, EntryOK, Posted
  <2> HIDE DEF P
  <2>4. After("authorization")
    BY <2>1, <2>2, PostedIsThere
  <2>5. ~After("capture") /\ ~After("void")
    BY <2>1, <2>2, <2>3, NotPostedElsewhere
  <2> HIDE DEF In, After
  <2> QED
    BY <1>0, <2>3, <2>4, <2>5
<1>4. CASE (\E d \in Drivers : Claim(r, d)) \/ StartRide(r) \/ \E n \in Nat : SetTries(r, n)
  <2>1. UNCHANGED ledger
    BY <1>4 DEF Claim, StartRide, SetTries
  <2> QED
    BY <2>1, <1>0
<1>5. CASE Present(r) /\ At(c, "persistCapture") /\ PersistCapture(r, req[c].driver, c)
  <2> DEFINE P == CapturePostings(c, r, req[c].driver, Fare)
  <2>1. ledger' = Post(ledger, P)
    BY <1>5 DEF PersistCapture
  <2>2. /\ \A p \in P : p.kind \notin {"void", "authorization"}
        /\ \E p \in P : p.ride = r /\ p.kind = "capture"
    BY DEF CapturePostings, Posting
  <2>3. ~In("void") /\ In("authorization")
    BY <1>1, <1>2, <1>5 DEF IInv, CallMoney, At
  <2> HIDE DEF P
  <2>4. After("capture")
    BY <2>1, <2>2, PostedIsThere
  <2>5. ~After("void") /\ After("authorization")
    BY <2>1, <2>2, <2>3, NotPostedElsewhere
  <2> HIDE DEF In, After
  <2> QED
    BY <1>0, <2>3, <2>4, <2>5
<1>6. CASE Present(r) /\ At(c, "persistVoid") /\ PersistVoid(r, c)
  <2> DEFINE P == VoidPostings(c, r, Fare)
  <2>1. ledger' = Post(ledger, P)
    BY <1>6 DEF PersistVoid
  <2>2. /\ \A p \in P : p.kind \notin {"capture", "authorization"}
        /\ \E p \in P : p.ride = r /\ p.kind = "void"
    BY DEF VoidPostings, Posting
  <2>3. ~In("capture") /\ In("authorization")
    BY <1>1, <1>2, <1>6 DEF IInv, CallMoney, At
  <2> HIDE DEF P
  <2>4. After("void")
    BY <2>1, <2>2, PostedIsThere
  <2>5. ~After("capture") /\ After("authorization")
    BY <2>1, <2>2, <2>3, NotPostedElsewhere
  <2> HIDE DEF In, After
  <2> QED
    BY <1>0, <2>3, <2>4, <2>5
<1> QED
  BY <1>3, <1>4, <1>5, <1>6 DEF RowWrite

Holds == [r \in Rides |-> HoldOf(r)]

LEMMA SettlementInit == Init => Settles!Init
<1> SUFFICES ASSUME Init PROVE Holds = [r \in Rides |-> "none"]
  BY DEF Settles!Init, Holds
<1>1. \A r \in Rides : HoldOf(r) = "none"
  BY DEF Init, StoreInit, HoldOf, Held, Captured, Voided, Posted
<1> QED
  BY <1>1 DEF Holds

LEMMA SettlementStep ==
  ASSUME Gateway = "stripe"
  PROVE  IInv /\ LedgerInv /\ [Next]_vars => [Settles!Next]_Holds
<1> SUFFICES ASSUME IInv, LedgerInv, [Next]_vars
             PROVE  Settles!Next \/ UNCHANGED Holds
  OBVIOUS
<1>1. CASE UNCHANGED <<rides, payments, ledger>>
  BY <1>1 DEF Holds, HoldOf, Held, Captured, Voided
<1>2. ASSUME NEW c \in Calls, req[c].ride \in Rides, RowWrite(c)
      PROVE  Settles!Next \/ UNCHANGED Holds
  <2>1. PICK r \in Rides : r = req[c].ride
    BY <1>2
  <2>2. \A s \in Rides : s # r => HoldOf(s)' = HoldOf(s)
    <3> SUFFICES ASSUME NEW s \in Rides, s # r PROVE HoldOf(s)' = HoldOf(s)
      OBVIOUS
    <3>1. \A k : Posted(ledger', s, k) <=> Posted(ledger, s, k)
      BY <1>2, <2>1, WritesElsewhere
    <3> QED
      BY <3>1 DEF HoldOf, Held, Captured, Voided
  <2>3. Holds' = [Holds EXCEPT ![r] = HoldOf(r)'] /\ Holds[r] = HoldOf(r)
    BY <2>2 DEF Holds
  <2>4. CASE HoldOf(r)' = HoldOf(r)
    BY <2>2, <2>4 DEF Holds
  <2>5. CASE HoldOf(r) = "none" /\ HoldOf(r)' = "held"
    <3>1. Settles!Place(r)
      BY <2>3, <2>5 DEF Settles!Place, Holds
    <3> QED
      BY <3>1 DEF Settles!Next
  <2>6. CASE HoldOf(r) = "held" /\ HoldOf(r)' \in {"captured", "voided"}
    <3>1. Settles!Capture(r) \/ Settles!Void(r)
      BY <2>3, <2>6 DEF Settles!Capture, Settles!Void, Holds
    <3> QED
      BY <3>1 DEF Settles!Next
  <2> QED
    BY <1>2, <2>1, <2>4, <2>5, <2>6, HoldMoves
<1> QED
  BY <1>1, <1>2, WritesAreGuarded

\* With Stripe the hold of every ride is placed once and then captured or
\* voided, once and for all, however complete, cancel and deaths interleave.
THEOREM SettlementImplemented ==
  ASSUME Gateway = "stripe"
  PROVE  Spec => ImplementsSettlement
<1>1. Init => Settles!Init
  BY SettlementInit
<1>2. IInv /\ LedgerInv /\ [Next]_vars => [Settles!Next]_Holds
  BY SettlementStep
<1> QED
  BY <1>1, <1>2, Invariance, LedgerInvariance, PTL
  DEF Spec, ImplementsSettlement, Settles!Spec, Holds

-----------------------------------------------------------------------------
(***************************************************************************)
(* With Stripe, and unless a handler dies, no hold is forgotten.           *)
(***************************************************************************)
LEMMA HoldInit == Init => HoldInv
BY DEF Init, StoreInit, GatewayInit, NoRow, Idle, HoldInv, Present, At

\* A handler about to insert its ride does, unless it dies.
LEMMA ConfirmMoves ==
  ASSUME IInv, ~Faults, [Next]_vars, NEW c \in Calls, At(c, "persistAuthorization")
  PROVE  req'[c] = req[c] \/ ConfirmPersist(c)
<1>1. CASE \/ \E q \in Quotes : CreateQuote(q)
           \/ \E d \in Drivers : ReportLocation(d)
           \/ Expire
           \/ UNCHANGED vars
  BY <1>1 DEF CreateQuote, ReportLocation, Expire, vars
<1>2. ASSUME NEW b \in Calls, Arrive(b) \/ Step(b) \/ GatewayRefuses(b) \/ Abort(b)
      PROVE  req'[c] = req[c] \/ ConfirmPersist(c)
  <2>1. CASE b # c
    BY <1>2, <2>1, OthersStand
  <2>2. CASE b = c
    <3>1. ~Arrive(c) /\ ~GatewayRefuses(c) /\ ~Abort(c)
      BY DEF At, Arrive, Confirm, Accept, StartTrip, Complete, Cancel, AssignTo,
         AssignGreedy, Ping, GatewayRefuses, Abort
    <3>2. ~DispatchStep(c) /\ ~GpsStep(c)
      BY DEF At, DispatchStep, Rank, TryClaim, LockDriver, AssignDriver, Escalate,
         GpsStep, PingSeq, PingInsert
    <3>3. ~DeadlockAbort(c)
      BY DEF At, DeadlockAbort, Deadlocked, WaitsFor
    <3>4. RideStep(c) => ConfirmPersist(c)
      BY <3>3 DEF At, RideStep, ConfirmAuthorize, AcceptOffer, AcceptCommit, StartTripWrite,
         WrongOtpWrite, CompletePayment, CompleteCapture, CompletePersist, CancelVoid,
         CancelPersist
    <3> QED
      BY <1>2, <2>2, <3>1, <3>2, <3>4 DEF Step
  <2> QED
    BY <2>1, <2>2
<1> QED
  BY <1>1, <1>2 DEF Next

\* A key that was used leads to the same intent for good.
LEMMA KeyStays ==
  ASSUME IInv, [Next]_vars, NEW q \in Quotes, keyed[q] # None
  PROVE  keyed'[q] = keyed[q]
<1>0. keyed \in [Quotes -> Rides \cup {None}]
  BY DEF IInv, TypeOK
<1>1. ASSUME NEW c \in Calls, ConfirmAuthorize(c) PROVE keyed'[q] = keyed[q]
  BY <1>0, <1>1 DEF ConfirmAuthorize, Authorize, AuthorizeResult
<1>2. ASSUME NEW c \in Calls, CompleteCapture(c) \/ CancelVoid(c) PROVE UNCHANGED keyed
  BY <1>2 DEF CompleteCapture, CancelVoid, Capture, Void, gatewayVars
<1> QED
  BY <1>1, <1>2, GatewayMoves DEF gatewayVars

\* An intent becomes authorized by the authorize that creates it.
LEMMA FreshlyAuthorized ==
  ASSUME IInv, [Next]_vars, NEW i \in Rides, intents'[i] = "authorized",
         intents[i] # "authorized"
  PROVE  \E c \in Calls : /\ ConfirmAuthorize(c) /\ i = req[c].ride
                          /\ AuthorizeResult(req[c].quote, req[c].ride) = i
<1>0. intents \in [Rides -> IntentStatuses]
  BY DEF IInv, TypeOK
<1>1. ASSUME NEW c \in Calls, CompleteCapture(c) PROVE FALSE
  BY <1>0, <1>1 DEF CompleteCapture, Capture, gatewayVars
<1>2. ASSUME NEW c \in Calls, CancelVoid(c) PROVE FALSE
  BY <1>0, <1>2 DEF CancelVoid, Void, gatewayVars
<1>3. PICK c \in Calls : ConfirmAuthorize(c)
  BY <1>1, <1>2, GatewayMoves DEF gatewayVars
<1>4. i = req[c].ride /\ AuthorizeResult(req[c].quote, req[c].ride) = i
  BY <1>0, <1>3 DEF ConfirmAuthorize, Authorize
<1> QED
  BY <1>3, <1>4

\* The payment of a ride whose hold is open.
LEMMA HeldPaymentStep ==
  ASSUME IInv, HoldInv, Gateway = "stripe", [Next]_vars, NEW r \in Rides, Present(r)'
  PROVE  /\ rides'[r].quote \in Quotes /\ keyed'[rides'[r].quote] = rides'[r].intent
         /\ intents'[rides'[r].intent] = "authorized" => payments'[r] = "authorized"
<1>0. /\ rides \in [Rides -> RideRows] /\ payments \in [Rides -> PaymentStatuses]
      /\ keyed \in [Quotes -> Rides \cup {None}]
  BY DEF IInv, TypeOK
<1>1. CASE ~Present(r)
  <2>1. PICK c \in Calls : /\ UNCHANGED gatewayVars /\ req[c].ride \in Rides
                           /\ RowWrite(c)
    BY <1>1, WritesAreGuarded DEF Present
  <2>2. r = req[c].ride
    BY <1>1, <2>1, WritesElsewhere DEF Present
  <2>3. At(c, "persistAuthorization") /\ PersistAuthorization(r, req[c].quote, req[c].intent, c)
    BY <1>1, <2>1, <2>2 DEF RowWrite
  <2>4. req[c].quote \in Quotes /\ keyed[req[c].quote] = req[c].intent
    BY <2>3 DEF IInv, CallRefs, Confirming, At, HoldInv
  <2>5. /\ rides'[r] = OfferedRow(req[c].quote, req[c].intent)
        /\ payments'[r] = "authorized"
    BY <1>0, <2>3 DEF PersistAuthorization
  <2>6. rides'[r].quote = req[c].quote /\ rides'[r].intent = req[c].intent
    BY <2>5 DEF OfferedRow, NoRow
  <2> QED
    BY <2>1, <2>4, <2>5, <2>6 DEF gatewayVars
<1>2. CASE Present(r)
  <2> DEFINE q == rides[r].quote
             i == rides[r].intent
  <2>1. /\ rides'[r].quote = q /\ rides'[r].intent = i
        /\ i \in Rides /\ intents[i] # "none"
    BY <1>2, RowKeeps DEF IInv, RowOK
  <2>2. q \in Quotes /\ keyed[q] = i /\ (intents[i] = "authorized" => payments[r] = "authorized")
    BY <1>2 DEF HoldInv
  <2> HIDE DEF q, i
  <2>3. keyed'[q] = i
    BY <2>1, <2>2, NoneAssumption, KeyStays
  <2>4. ASSUME intents'[i] = "authorized" PROVE payments'[r] = "authorized"
    <3>1. intents[i] = "authorized"
      <4> SUFFICES ASSUME intents[i] # "authorized" PROVE FALSE
        OBVIOUS
      <4>1. PICK c \in Calls : ConfirmAuthorize(c) /\ i = req[c].ride
        BY <2>1, <2>4, FreshlyAuthorized
      <4> QED
        BY <2>1, <4>1 DEF ConfirmAuthorize, IInv, CallMoney
    <3>2. CASE UNCHANGED payments
      BY <2>2, <3>1, <3>2
    <3>3. ASSUME NEW c \in Calls, req[c].ride \in Rides, RowWrite(c)
          PROVE  payments'[r] = "authorized"
      <4>1. CASE r # req[c].ride
        BY <2>2, <3>1, <3>3, <4>1, WritesElsewhere
      <4>2. CASE r = req[c].ride
        <5>1. ~At(c, "persistCapture") /\ ~At(c, "persistVoid")
          BY <3>1, <4>2 DEF IInv, CallMoney, At, i
        <5>2. UNCHANGED payments
          BY <1>2, <3>3, <4>2, <5>1 DEF RowWrite, Claim, StartRide, SetTries
        <5> QED
          BY <2>2, <3>1, <5>2
      <4> QED
        BY <4>1, <4>2
    <3> QED
      BY <3>2, <3>3, WritesAreGuarded
  <2> QED
    BY <2>1, <2>2, <2>3, <2>4
<1> QED
  BY <1>1, <1>2

LEMMA HoldStep ==
  ASSUME Gateway = "stripe", ~Faults
  PROVE  IInv /\ HoldInv /\ [Next]_vars => HoldInv'
<1> SUFFICES ASSUME IInv, HoldInv, [Next]_vars PROVE HoldInv'
  OBVIOUS
<1>0. req \in [Calls -> Requests] /\ keyed \in [Quotes -> Rides \cup {None}]
  BY DEF IInv, TypeOK
<1>1. ASSUME NEW c \in Calls, At(c, "persistAuthorization")'
      PROVE  keyed'[req'[c].quote] = req'[c].intent
  <2>1. CASE req'[c] = req[c]
    <3>1. /\ At(c, "persistAuthorization") /\ req[c].quote \in Quotes
          /\ req[c].intent \in Rides /\ keyed[req[c].quote] = req[c].intent
      BY <1>1, <2>1 DEF At, IInv, CallRefs, CallMoney, Confirming, HoldInv
    <3> QED
      BY <2>1, <3>1, NoneAssumption, KeyStays
  <2>2. CASE ConfirmAuthorize(c)
    <3> DEFINE i == AuthorizeResult(req[c].quote, req[c].ride)
    <3>1. req[c].quote \in Quotes
      BY <2>2 DEF ConfirmAuthorize, IInv, CallRefs, Confirming, At
    <3>2. req'[c].quote = req[c].quote /\ req'[c].intent = i
      BY <1>0, <2>2 DEF ConfirmAuthorize, Go, Requests
    <3>3. keyed' = [keyed EXCEPT ![req[c].quote] = i]
      BY <2>2 DEF ConfirmAuthorize, Authorize
    <3> HIDE DEF i
    <3> QED
      BY <1>0, <3>1, <3>2, <3>3
  <2>3. ~(req'[c] = Idle) /\ ~Arrive(c)
    BY <1>1, ArrivesAt DEF At, Idle
  <2>4. ~(CompletePayment(c) \/ CompleteCapture(c) \/ CancelVoid(c))
    BY <1>0, <1>1, <2>3 DEF At, CompletePayment, CompleteCapture, CancelVoid, Goto, Finish,
       Go, Requests
  <2>5. ~(\/ AcceptOffer(c) \/ Rank(c) \/ TryClaim(c) \/ LockDriver(c)
          \/ AssignDriver(c) \/ PingSeq(c))
    BY <1>1, <2>3, GoesOnAside DEF At
  <2> QED
    BY <2>1, <2>2, <2>3, <2>4, <2>5, WhoMoves DEF GoesOn
<1>2. ASSUME NEW i \in Rides, intents'[i] = "authorized"
      PROVE  \/ \E r \in Rides : Present(r)' /\ rides'[r].intent = i
             \/ \E c \in Calls : At(c, "persistAuthorization")' /\ req'[c].intent = i
  <2>1. CASE intents[i] # "authorized"
    <3>1. PICK c \in Calls : /\ ConfirmAuthorize(c)
                             /\ AuthorizeResult(req[c].quote, req[c].ride) = i
      BY <1>2, <2>1, FreshlyAuthorized
    <3>2. req'[c].at = "persistAuthorization" /\ req'[c].intent = i
      BY <1>0, <3>1 DEF ConfirmAuthorize, Go, Requests
    <3> QED
      BY <3>2 DEF At
  <2>2. ASSUME NEW r \in Rides, Present(r), rides[r].intent = i
        PROVE  Present(r)' /\ rides'[r].intent = i
    BY <2>2, RowKeeps
  <2>3. ASSUME NEW c \in Calls, At(c, "persistAuthorization"), req[c].intent = i
        PROVE  \/ \E r \in Rides : Present(r)' /\ rides'[r].intent = i
               \/ req'[c] = req[c]
    <3> DEFINE q == req[c].quote
    <3>1. req[c].ride \in Rides /\ q \in Quotes /\ keyed[q] = i
      BY <2>3 DEF IInv, CallRefs, Confirming, At, HoldInv
    <3>2. CASE UniqueViolation(q, i)
      <4>1. PICK r \in Rides : Present(r) /\ (rides[r].quote = q \/ rides[r].intent = i)
        BY <3>2 DEF UniqueViolation
      <4>2. rides[r].intent = i
        BY <3>1, <4>1 DEF HoldInv
      <4> QED
        BY <4>1, <4>2, <2>2
    <3>3. CASE ~UniqueViolation(q, i) /\ ConfirmPersist(c)
      <4>1. PICK r \in Rides : r = req[c].ride
        BY <3>1
      <4>2. PersistAuthorization(r, q, i, c)
        BY <2>3, <3>3, <4>1 DEF ConfirmPersist
      <4>3. rides'[r] = OfferedRow(q, i)
        BY <4>2 DEF PersistAuthorization, IInv, TypeOK
      <4>4. rides'[r].status = "offered" /\ rides'[r].intent = i
        BY <4>3 DEF OfferedRow, NoRow
      <4> QED
        BY <4>4 DEF Present
    <3> QED
      BY <2>3, <3>2, <3>3, ConfirmMoves
  <2> QED
    BY <2>1, <2>2, <2>3 DEF HoldInv, At
<1> QED
  BY <1>1, <1>2, HeldPaymentStep DEF HoldInv

\* The inductive invariant of the holds: the key of a quote, its one intent and
\* the rides that share it stay together from the gateway to the store.
THEOREM HoldInvariance ==
  ASSUME Gateway = "stripe", ~Faults
  PROVE  Spec => []HoldInv
<1>1. IInv /\ HoldInv /\ [Next]_vars => HoldInv'
  BY HoldStep
<1> QED
  BY <1>1, HoldInit, Invariance, PTL DEF Spec

\* With Stripe, and unless a handler dies, every open hold on a rider's card
\* belongs to a ride that can still be settled or to a confirm at work on it,
\* however many confirms of a quote overlap: the key of the quote gives them
\* all the same intent.
THEOREM NoHoldForgotten ==
  ASSUME Gateway = "stripe", ~Faults
  PROVE  Spec => []NoOrphanHold
<1>1. HoldInv => NoOrphanHold
  BY DEF HoldInv, NoOrphanHold
<1> QED
  BY <1>1, HoldInvariance, PTL

-----------------------------------------------------------------------------
(***************************************************************************)
(* What a reader is told, while the ride flow goes on between its reads.   *)
(***************************************************************************)
LEMMA BooksGrow ==
  ASSUME IInv, [Next]_vars
  PROVE  ledger \subseteq ledger'
<1>1. ASSUME NEW c \in Calls, RowWrite(c)
      PROVE  UNCHANGED ledger \/ \E P : ledger' = Post(ledger, P)
  BY <1>1 DEF RowWrite, PersistAuthorization, Claim, StartRide, SetTries,
     PersistCapture, PersistVoid
<1>2. UNCHANGED ledger \/ \E P : ledger' = Post(ledger, P)
  BY <1>1, WritesAreGuarded
<1> QED
  BY <1>2 DEF Post

\* With Stripe a payment that is settled stays as it is.
LEMMA SettledPaymentStays ==
  ASSUME IInv, LedgerInv, Gateway = "stripe", [Next]_vars, NEW r \in Rides, Present(r),
         payments[r] \in {"captured", "voided"}
  PROVE  payments'[r] = payments[r]
<1>0. payments \in [Rides -> PaymentStatuses]
  BY DEF IInv, TypeOK
<1>1. /\ payments[r] = "captured" => intents[rides[r].intent] = "captured"
      /\ payments[r] = "voided" => intents[rides[r].intent] = "voided"
  BY DEF LedgerInv, Captured, Voided, Posted, IInv, EntryOK
<1>2. ASSUME NEW c \in Calls, req[c].ride \in Rides, RowWrite(c)
      PROVE  payments'[r] = payments[r]
  <2>1. CASE r # req[c].ride
    BY <1>2, <2>1, WritesElsewhere
  <2>2. CASE r = req[c].ride
    <3>1. /\ At(c, "persistCapture") => intents[rides[r].intent] = "captured"
          /\ At(c, "persistVoid") => intents[rides[r].intent] = "voided"
      BY <2>2 DEF IInv, CallMoney, At
    <3> QED
      BY <1>0, <1>1, <1>2, <2>2, <3>1 DEF RowWrite, Claim, StartRide, SetTries,
         PersistCapture, PersistVoid
  <2> QED
    BY <2>1, <2>2
<1> QED
  BY <1>2, WritesAreGuarded

\* Behind the back of a reader the ride flow goes on.
LEMMA ViewStays ==
  ASSUME IInv, LedgerInv, ViewInv, [Next]_vars, UNCHANGED view
  PROVE  ViewInv'
<1> DEFINE r == view.ride
<1>1. CASE view.at = "ride"
  BY <1>1 DEF ViewInv, Answered, FlagsAgree
<1>2. CASE view.at # "ride"
  <2>1. r \in Rides /\ Present(r) /\ view.driver \in Drivers \cup {None}
    BY <1>2 DEF ViewInv, Views
  <2>2. Present(r)' /\ (rides[r].driver # None => rides'[r].driver = rides[r].driver)
    BY <2>1, RowKeeps
  <2>3. Captured(r) => Posted(ledger', r, "capture")
    BY BooksGrow DEF Captured, Posted
  <2>4. Gateway = "stripe" /\ payments[r] \in {"captured", "voided"}
          => payments'[r] = payments[r]
    BY <2>1, SettledPaymentStays
  <2> QED
    BY <1>2, <2>1, <2>2, <2>3, <2>4 DEF ViewInv, Answered, FlagsAgree, Captured, Present
<1> QED
  BY <1>1, <1>2

\* The first read: the row of the ride.
LEMMA ReadRideStep ==
  ASSUME IInv, LedgerInv, Gateway = "stripe" => MoneyAgrees,
         NEW kind \in ViewKinds, NEW r \in Rides, ReadRide(kind, r)
  PROVE  ViewInv'
<1> DEFINE v == [NoView EXCEPT !.kind = kind, !.ride = r,
                               !.driver = rides[r].driver, !.status = rides[r].status,
                               !.charged = Fare]
<1>0. rides[r].driver \in Drivers \cup {None} /\ rides[r].status \in RideStatuses
  BY DEF IInv, TypeOK, RideRows
<1>1. /\ v \in Views /\ v.kind = kind /\ v.ride = r /\ v.driver = rides[r].driver
      /\ v.status = rides[r].status /\ v.paid = FALSE /\ v.charged = Fare
  <2>1. NoView \in Views /\ NoView.paid = FALSE
    BY DEF NoView, Views, ViewKinds, RideStatuses
  <2> HIDE DEF NoView
  <2> QED
    BY <1>0, <2>1 DEF Views
<1>2. view' = [v EXCEPT !.at = NextRead(kind, "ride")] /\ UNCHANGED vars /\ Present(r)
  BY <1>1 DEF ReadRide, Read
<1>3. NextRead(kind, "ride") = IF kind = "earnings" THEN "ledger" ELSE "payment"
  BY DEF NextRead, ViewKinds
<1> HIDE DEF v
<1>4. /\ view' \in Views
      /\ view'.at = NextRead(kind, "ride") /\ view'.kind = kind /\ view'.ride = r
      /\ view'.driver = rides[r].driver /\ view'.status = rides[r].status /\ view'.paid = FALSE
      /\ view'.charged = Fare
  BY <1>1, <1>2, <1>3 DEF Views
<1>5. Gateway = "stripe" =>
        /\ rides[r].status = "completed" => payments[r] = "captured" /\ rides[r].driver # None
        /\ rides[r].status = "cancelled" => payments[r] = "voided"
  <2>1. Captured(r) => rides[r].driver # None
    <3>1. PICK h \in AuthorizationGroups(r), x \in CaptureGroups(r, rides[r].driver),
               w \in VoidGroups(r) :
            OfRide(ledger, r) = h \cup x \cup w /\ (x # {} => rides[r].driver # None)
      BY BooksAreGroups DEF LedgerInv
    <3>2. \A e \in h \cup w : e.kind # "capture"
      BY GroupKinds
    <3> QED
      BY <3>1, <3>2 DEF Captured, Posted, OfRide
  <2> QED
    BY <2>1 DEF MoneyAgrees
<1>6. Present(r) /\ UNCHANGED <<rides, payments, ledger>>
  BY <1>2 DEF vars, storeVars
<1> QED
  BY <1>3, <1>4, <1>5, <1>6 DEF ViewInv, Answered, FlagsAgree, Captured, Present

\* The read of the payment: captured means captured on the books.
LEMMA ReadPaymentStep ==
  ASSUME IInv, LedgerInv, ViewInv, ReadPayment
  PROVE  ViewInv'
<1> DEFINE r == view.ride
           v == [view EXCEPT !.paid = payments[r] = "captured"]
<1>1. view \in Views /\ view.at = "payment" /\ r \in Rides /\ Present(r)
  BY DEF ReadPayment, Read, ViewInv
<1>2. /\ v \in Views /\ v.kind = view.kind /\ v.ride = r /\ v.driver = view.driver
      /\ v.status = view.status /\ v.paid = (payments[r] = "captured") /\ v.kept = view.kept
      /\ v.charged = view.charged
  BY <1>1 DEF Views
<1>3. view' = [v EXCEPT !.at = NextRead(v.kind, "payment")] /\ UNCHANGED vars
  BY DEF ReadPayment, Read
<1>4. NextRead(view.kind, "payment") = IF view.kind = "takeHome" THEN "ledger" ELSE "done"
  BY DEF NextRead
<1> HIDE DEF v
<1>5. /\ view' \in Views
      /\ view'.at = (IF view.kind = "takeHome" THEN "ledger" ELSE "done")
      /\ view'.kind = view.kind /\ view'.ride = r /\ view'.driver = view.driver
      /\ view'.status = view.status /\ view'.paid = (payments[r] = "captured")
      /\ view'.charged = view.charged
  BY <1>2, <1>3, <1>4 DEF Views
<1>6. payments[r] = "captured" => Captured(r)
  BY <1>1 DEF LedgerInv
<1>7. view.kind # "earnings"
  BY <1>1 DEF ViewInv
<1>8. UNCHANGED <<rides, payments, ledger>>
  BY <1>3 DEF vars, storeVars
<1> QED
  BY <1>1, <1>5, <1>6, <1>7, <1>8 DEF ViewInv, Answered, FlagsAgree, Captured, Present

\* The read of the ledger: what it credits the driver that was read.
LEMMA ReadLedgerStep ==
  ASSUME IInv, LedgerInv, TakeHomeExact, ViewInv, ReadLedger
  PROVE  ViewInv'
<1> DEFINE r == view.ride
           d == view.driver
           n == IF d = None THEN 0 ELSE DriverTakeHome(OfRide(ledger, r), d)
           v == [view EXCEPT !.kept = n]
<1>1. view \in Views /\ view.at = "ledger" /\ r \in Rides /\ Present(r)
  BY DEF ReadLedger, Read, ViewInv
<1>2. d \in Drivers \cup {None} /\ (d # None => rides[r].driver = d)
  BY <1>1 DEF Views, ViewInv
<1>3. n = IF d # None /\ Captured(r) THEN Fare ELSE 0
  BY <1>1, <1>2 DEF TakeHomeExact
<1>4. n \in Int
  BY <1>3, FareAssumption
<1>5. view' = [v EXCEPT !.at = NextRead(v.kind, "ledger")] /\ UNCHANGED vars
  BY DEF ReadLedger, Read
<1> HIDE DEF n
<1>6. /\ v \in Views /\ v.kind = view.kind /\ v.ride = r /\ v.driver = d
      /\ v.status = view.status /\ v.paid = view.paid /\ v.kept = n
      /\ v.charged = view.charged
  BY <1>1, <1>4 DEF Views
<1>7. NextRead(view.kind, "ledger") = "done"
  BY DEF NextRead
<1> HIDE DEF v
<1>8. /\ view' \in Views /\ view'.at = "done"
      /\ view'.kind = view.kind /\ view'.ride = r /\ view'.driver = d
      /\ view'.status = view.status /\ view'.paid = view.paid /\ view'.kept = n
      /\ view'.charged = view.charged
  BY <1>5, <1>6, <1>7 DEF Views
<1>9. (payments[r] = "captured" => Captured(r)) /\ view.kind # "receipt"
  BY <1>1 DEF LedgerInv, ViewInv
<1> QED
  BY <1>1, <1>2, <1>3, <1>5, <1>8, <1>9
     DEF ViewInv, Answered, FlagsAgree, Captured, Present, vars, storeVars

LEMMA ViewStep ==
  IInv /\ LedgerInv /\ TakeHomeExact /\ (Gateway = "stripe" => MoneyAgrees)
    /\ ViewInv /\ [ViewNext]_viewVars => ViewInv'
<1> SUFFICES ASSUME IInv, LedgerInv, TakeHomeExact, Gateway = "stripe" => MoneyAgrees,
                    ViewInv, [ViewNext]_viewVars
             PROVE  ViewInv'
  OBVIOUS
<1>1. CASE [Next]_vars /\ UNCHANGED view
  BY <1>1, ViewStays
<1>2. CASE Answer
  <2>1. view' = NoView
    BY <1>2 DEF Answer
  <2>2. NoView \in Views /\ NoView.at = "ride" /\ NoView.driver = None /\ ~NoView.paid
    BY DEF NoView, Views, ViewKinds, RideStatuses
  <2> QED
    BY <2>1, <2>2 DEF ViewInv, Answered, FlagsAgree
<1> QED
  BY <1>1, <1>2, ReadRideStep, ReadPaymentStep, ReadLedgerStep DEF ViewNext, viewVars

\* The views of a reader exist beside the ride flow, which goes on as if nobody
\* looked.
LEMMA ReadersChangeNothing == ViewSpec => Spec
<1>1. ViewInit => Init
  BY DEF ViewInit
<1>2. [ViewNext]_viewVars => [Next]_vars
  BY DEF ViewNext, viewVars, ReadRide, ReadPayment, ReadLedger, Answer, Read
<1> QED
  BY <1>1, <1>2, PTL DEF ViewSpec, Spec

\* The inductive invariant of a reader: what a view has read of a ride, of its
\* payment and of its ledger stays true while the ride goes on.
THEOREM ViewInvariance == ViewSpec => []ViewInv
<1>1. ViewInit => ViewInv
  <2>1. NoView \in Views /\ NoView.at = "ride" /\ NoView.driver = None /\ ~NoView.paid
    BY DEF NoView, Views, ViewKinds, RideStatuses
  <2> QED
    BY <2>1 DEF ViewInit, ViewInv, Answered, FlagsAgree
<1> QED
  BY <1>1, ViewStep, ReadersChangeNothing, Invariance, LedgerInvariance, TakeHome,
     MoneyConsistent, PTL
  DEF ViewSpec

\* A driver who opens the take-home view of their trip is told the whole fare,
\* at whatever moment of the three reads the capture falls: the payment is read
\* before the ledger, and the capture is booked with the payment.
THEOREM DriverIsToldTheFare == ViewSpec => []YouKeepIsFare
<1>1. ViewInv => YouKeepIsFare
  BY DEF ViewInv, YouKeepIsFare, YouKeep, Answered
<1> QED
  BY <1>1, ViewInvariance, PTL

\* With Stripe, whatever happens between the reads of a view: a completed trip's
\* receipt says captured and charges what the books credit its driver, its
\* earnings are the fare, and no cancelled trip's receipt says captured.  (The
\* amount on a cancelled trip's receipt is the fare: this does not exclude it.)
THEOREM ViewsAreConsistent == ViewSpec => [](Gateway = "stripe" => ViewsAgree)
<1>1. IInv /\ TakeHomeExact /\ ViewInv => (Gateway = "stripe" => ViewsAgree)
  <2> SUFFICES ASSUME IInv, TakeHomeExact, ViewInv, Gateway = "stripe" PROVE ViewsAgree
    OBVIOUS
  <2>1. FlagsAgree
    BY DEF ViewInv
  <2>2. ASSUME Answered("receipt"), view.status = "completed"
        PROVE  view.charged = DriverTakeHome(OfRide(ledger, view.ride), rides[view.ride].driver)
    <3>1. /\ view.ride \in Rides /\ view.paid /\ view.charged = Fare
          /\ Captured(view.ride) /\ view.driver \in Drivers
          /\ rides[view.ride].driver = view.driver
      BY <2>1, <2>2 DEF ViewInv, FlagsAgree, Answered, Views
    <3> QED
      BY <3>1 DEF TakeHomeExact
  <2> QED
    BY <2>1, <2>2 DEF ViewsAgree
<1> QED
  BY <1>1, ViewInvariance, ReadersChangeNothing, Invariance, TakeHome, PTL
=============================================================================
