-------------------------- MODULE ProviderUsage_proofs --------------------------
(***************************************************************************)
(* What holds of the provider calls of a Project for any number of calls,  *)
(* amounts, limits and disturbances.  What is said of sums is proved by    *)
(* looking at a smallest set of which it does not hold.                    *)
(***************************************************************************)
EXTENDS ProviderUsage, FiniteSetTheorems, WellFoundedInduction, TLAPS

-----------------------------------------------------------------------------
(* Sums over finite sets.                                                  *)

\* A set of subsets of a finite set has a least one: induction over finite sets.
LEMMA FiniteMinimum ==
    ASSUME NEW S, IsFiniteSet(S), NEW B \in SUBSET (SUBSET S), B # {}
    PROVE  \E m \in B : \A t \in SUBSET m : t # m => t \notin B
<1>1. IsWellFoundedOn(StrictSubsetOrdering(S), FiniteSubsetsOf(S))
  BY FS_StrictSubsetOrderingWellFounded
<1>2. B \subseteq FiniteSubsetsOf(S)
  BY FS_Subset DEF FiniteSubsetsOf
<1>3. PICK m \in B : \A t \in B : <<t, m>> \notin StrictSubsetOrdering(S)
  BY <1>1, <1>2, WFMin
<1> QED
  BY <1>3 DEF StrictSubsetOrdering

\* The sums of F over a set are summed up one element after the other.
Pick(s) == CHOOSE x \in s : TRUE
SumStep(g, F, s) == IF s = {} THEN 0 ELSE F[Pick(s)] + g[s \ {Pick(s)}]
IsSum(g, F, S) == g = [s \in SUBSET S |-> SumStep(g, F, s)]

\* What is left when one element is taken out.
LEMMA PickOne == \A s : s # {} => Pick(s) \in s /\ s \ {Pick(s)} \subseteq s /\ s \ {Pick(s)} # s
BY DEF Pick

\* Sums of two functions that agree are the same.
LEMMA SumUnique ==
    ASSUME NEW S, IsFiniteSet(S), NEW R, NEW T, S \subseteq R, S \subseteq T,
           NEW F, NEW G, \A c \in S : F[c] = G[c],
           NEW g, NEW h, IsSum(g, F, R), IsSum(h, G, T)
    PROVE  g[S] = h[S]
<1> DEFINE B == {s \in SUBSET S : g[s] # h[s]}
<1>1. SUFFICES ASSUME B # {} PROVE FALSE
  OBVIOUS
<1>2. PICK m \in B : \A t \in SUBSET m : t # m => t \notin B
  <2>1. B \in SUBSET (SUBSET S)
    OBVIOUS
  <2> HIDE DEF B
  <2> QED
    BY <1>1, <2>1, FiniteMinimum
<1>3. g[m] = SumStep(g, F, m) /\ h[m] = SumStep(h, G, m)
  BY DEF IsSum
<1>4. m # {}
  BY <1>2, <1>3 DEF SumStep
<1>5. Pick(m) \in S /\ g[m \ {Pick(m)}] = h[m \ {Pick(m)}]
  BY <1>2, <1>4, PickOne
<1> QED
  BY <1>2, <1>3, <1>4, <1>5 DEF SumStep

\* A set of numbers has a least one.
LEMMA LeastNumber ==
    ASSUME NEW B \in SUBSET Nat, B # {}
    PROVE  \E m \in B : \A n \in B : m <= n
<1>1. PICK m \in B : \A n \in B : <<n, m>> \notin OpToRel(<, Nat)
  BY NatLessThanWellFounded, WFMin
<1>2. \A n \in B : ~(n < m)
  BY <1>1 DEF OpToRel
<1> QED
  BY <1>2

\* What is taken from a finite set.
LEMMA PickSmaller ==
    ASSUME NEW S, IsFiniteSet(S), NEW s \in SUBSET S
    PROVE  /\ Cardinality(s) \in Nat
           /\ s = {} <=> Cardinality(s) = 0
           /\ s # {} => Cardinality(s \ {Pick(s)}) = Cardinality(s) - 1
<1>1. IsFiniteSet(s)
  BY FS_Subset
<1> QED
  BY <1>1, PickOne, FS_CardinalityType, FS_EmptySet, FS_RemoveElement

\* The sums up to a finite set exist: there are those of sets up to any size.
LEMMA SumExists ==
    ASSUME NEW S, IsFiniteSet(S), NEW F
    PROVE  \E g : IsSum(g, F, S)
<1> DEFINE SumsTo(g, n) == \A s \in SUBSET S : Cardinality(s) <= n => g[s] = SumStep(g, F, s)
           B == {n \in Nat : ~\E g : SumsTo(g, n)}
<1>1. \E g : SumsTo(g, 0)
  <2> DEFINE g == [s \in SUBSET S |-> 0]
  <2>1. ASSUME NEW s \in SUBSET S, Cardinality(s) <= 0 PROVE g[s] = SumStep(g, F, s)
    <3>1. Cardinality(s) \in Nat /\ (Cardinality(s) = 0 => s = {})
      BY PickSmaller
    <3>2. s = {}
      BY <2>1, <3>1
    <3> QED
      BY <3>2 DEF SumStep
  <2> QED
    BY <2>1
<1>2. ASSUME NEW n \in Nat, NEW g, SumsTo(g, n)
      PROVE  \E h : SumsTo(h, n + 1)
  <2> DEFINE h == [s \in SUBSET S |-> IF Cardinality(s) <= n THEN g[s] ELSE SumStep(g, F, s)]
  <2>1. ASSUME NEW s \in SUBSET S, Cardinality(s) <= n + 1 PROVE h[s] = SumStep(h, F, s)
    <3>1. h[s] = SumStep(g, F, s)
      BY <1>2
    <3>2. s # {} => h[s \ {Pick(s)}] = g[s \ {Pick(s)}]
      BY <2>1, PickSmaller
    <3> QED
      BY <3>1, <3>2 DEF SumStep
  <2> QED
    BY <2>1
<1>3. B = {}
  <2>1. SUFFICES ASSUME B # {} PROVE FALSE
    OBVIOUS
  <2>2. PICK m \in B : \A n \in B : m <= n
    <3>1. B \in SUBSET Nat
      OBVIOUS
    <3> HIDE DEF B
    <3> QED
      BY <2>1, <3>1, LeastNumber
  <2>3. m \in Nat /\ (m = 0 \/ m - 1 \in Nat)
    OBVIOUS
  <2>4. CASE m = 0
    BY <1>1, <2>4
  <2>5. CASE m - 1 \in Nat
    <3>1. m - 1 \notin B
      BY <2>2, <2>3
    <3>2. \E g : SumsTo(g, m - 1)
      BY <2>5, <3>1
    <3>3. \E g : SumsTo(g, (m - 1) + 1)
      BY <1>2, <2>5, <3>2
    <3> QED
      BY <2>3, <3>3
  <2> QED
    BY <2>3, <2>4, <2>5
<1>4. Cardinality(S) \in Nat /\ \A s \in SUBSET S : Cardinality(s) <= Cardinality(S)
  BY FS_Subset, FS_CardinalityType
<1>5. PICK g : SumsTo(g, Cardinality(S))
  BY <1>3, <1>4
<1> DEFINE h == [s \in SUBSET S |-> g[s]]
<1>6. \A s \in SUBSET S : h[s] = SumStep(h, F, s)
  BY <1>4, <1>5 DEF SumStep
<1>7. IsSum(h, F, S)
  BY <1>6 DEF IsSum
<1> QED
  BY <1>7


\* The sum of F over S.
Total(F, S) == (CHOOSE g : IsSum(g, F, S))[S]

\* It is what every such function says.
LEMMA TotalIs ==
    ASSUME NEW S, IsFiniteSet(S), NEW F, NEW G, \A c \in S : F[c] = G[c],
           NEW R, S \subseteq R, NEW g, IsSum(g, G, R)
    PROVE  Total(F, S) = g[S]
<1>1. PICK h : h = CHOOSE f : IsSum(f, F, S)
  OBVIOUS
<1>2. IsSum(h, F, S)
  BY <1>1, SumExists
<1>3. h[S] = g[S]
  BY <1>2, SumUnique
<1> QED
  BY <1>1, <1>3 DEF Total

\* Functions that agree have the same sum.
LEMMA TotalSame ==
    ASSUME NEW S, IsFiniteSet(S), NEW F, NEW G, \A c \in S : F[c] = G[c]
    PROVE  Total(F, S) = Total(G, S)
<1>1. PICK g : IsSum(g, G, S)
  BY SumExists
<1>2. Total(F, S) = g[S]
  BY <1>1, TotalIs
<1>3. Total(G, S) = g[S]
  BY <1>1, TotalIs
<1> QED
  BY <1>2, <1>3

\* How a sum is made up.
LEMMA TotalStep ==
    ASSUME NEW S, IsFiniteSet(S), NEW F
    PROVE  /\ S = {} => Total(F, S) = 0
           /\ S # {} => Total(F, S) = F[Pick(S)] + Total(F, S \ {Pick(S)})
<1>1. PICK g : IsSum(g, F, S)
  BY SumExists
<1>2. Total(F, S) = g[S]
  BY <1>1, TotalIs
<1>0. g[S] = SumStep(g, F, S)
  BY <1>1 DEF IsSum
<1>3. Total(F, S \ {Pick(S)}) = g[S \ {Pick(S)}]
  <2>1. IsFiniteSet(S \ {Pick(S)}) /\ S \ {Pick(S)} \subseteq S
    BY FS_RemoveElement
  <2> QED
    BY <1>1, <2>1, TotalIs
<1> QED
  BY <1>0, <1>2, <1>3 DEF SumStep

\* A sum of natural numbers is one.
LEMMA TotalType ==
    ASSUME NEW S, IsFiniteSet(S), NEW F, \A c \in S : F[c] \in Nat
    PROVE  Total(F, S) \in Nat
<1> DEFINE B == {s \in SUBSET S : Total(F, s) \notin Nat}
<1>1. SUFFICES ASSUME B # {} PROVE FALSE
  OBVIOUS
<1>2. PICK m \in B : \A t \in SUBSET m : t # m => t \notin B
  <2>1. B \in SUBSET (SUBSET S)
    OBVIOUS
  <2> HIDE DEF B
  <2> QED
    BY <1>1, <2>1, FiniteMinimum
<1>3. IsFiniteSet(m)
  BY FS_Subset
<1>4. m # {}
  <2>1. Total(F, {}) = 0
    BY FS_EmptySet, TotalStep
  <2>2. Total(F, m) \notin Nat
    BY <1>2
  <2> QED
    BY <2>1, <2>2
<1>5. Pick(m) \in S /\ Total(F, m \ {Pick(m)}) \in Nat
  BY <1>2, <1>4, PickOne
<1>6. Total(F, m) = F[Pick(m)] + Total(F, m \ {Pick(m)})
  BY <1>3, <1>4, TotalStep
<1> QED
  BY <1>2, <1>5, <1>6

\* Whichever element is taken out first, the sum is the same.
LEMMA TotalWithout ==
    ASSUME NEW S, IsFiniteSet(S), NEW F, \A c \in S : F[c] \in Nat, NEW y \in S
    PROVE  Total(F, S) = F[y] + Total(F, S \ {y})
<1> DEFINE B == {s \in SUBSET S : \E x \in s : Total(F, s) # F[x] + Total(F, s \ {x})}
<1>1. SUFFICES ASSUME B # {} PROVE FALSE
  OBVIOUS
<1>2. PICK m \in B : \A t \in SUBSET m : t # m => t \notin B
  <2>1. B \in SUBSET (SUBSET S)
    OBVIOUS
  <2> HIDE DEF B
  <2> QED
    BY <1>1, <2>1, FiniteMinimum
<1>3. PICK x \in m : Total(F, m) # F[x] + Total(F, m \ {x})
  OBVIOUS
<1> DEFINE z == Pick(m)
<1>4. IsFiniteSet(m) /\ m # {} /\ z \in m /\ m \subseteq S
  BY FS_Subset, PickOne
<1>5. Total(F, m) = F[z] + Total(F, m \ {z}) /\ x # z
  BY <1>3, <1>4, TotalStep
<1> HIDE DEF z
<1>6. m \ {z} \notin B /\ m \ {x} \notin B
  BY <1>2, <1>4
<1>7. /\ Total(F, m \ {z}) = F[x] + Total(F, (m \ {z}) \ {x})
      /\ Total(F, m \ {x}) = F[z] + Total(F, (m \ {x}) \ {z})
  BY <1>4, <1>5, <1>6
<1>8. (m \ {z}) \ {x} = (m \ {x}) \ {z}
  OBVIOUS
<1>9. Total(F, (m \ {z}) \ {x}) \in Nat
  <2>1. IsFiniteSet((m \ {z}) \ {x})
    BY <1>4, FS_Subset
  <2> QED
    BY <1>4, <2>1, TotalType
<1>10. F[x] \in Nat /\ F[z] \in Nat
  BY <1>4
<1> QED
  BY <1>3, <1>5, <1>7, <1>8, <1>9, <1>10

\* A sum is that of a part and of the rest.
LEMMA TotalParts ==
    ASSUME NEW S, IsFiniteSet(S), NEW F, \A c \in S : F[c] \in Nat, NEW U \in SUBSET S
    PROVE  Total(F, S) = Total(F, U) + Total(F, S \ U)
<1> DEFINE B == {s \in SUBSET S : Total(F, S) # Total(F, s) + Total(F, S \ s)}
<1>1. SUFFICES ASSUME B # {} PROVE FALSE
  OBVIOUS
<1>2. PICK m \in B : \A t \in SUBSET m : t # m => t \notin B
  <2>1. B \in SUBSET (SUBSET S)
    OBVIOUS
  <2> HIDE DEF B
  <2> QED
    BY <1>1, <2>1, FiniteMinimum
<1>3. Total(F, S) # Total(F, m) + Total(F, S \ m) /\ m \subseteq S
  OBVIOUS
<1>4. Total(F, {}) = 0 /\ Total(F, S) \in Nat /\ S \ {} = S
  BY FS_EmptySet, TotalStep, TotalType
<1>5. m # {}
  BY <1>3, <1>4
<1>6. PICK x \in m : x \in S
  BY <1>3, <1>5
<1> DEFINE rest == m \ {x}
<1>7. Total(F, S) = Total(F, rest) + Total(F, S \ rest)
  <2>1. rest \in SUBSET m /\ rest # m /\ rest \in SUBSET S
    BY <1>3
  <2> QED
    BY <1>2, <2>1
<1>8. Total(F, m) = F[x] + Total(F, rest)
  BY <1>3, FS_Subset, TotalWithout
<1>9. Total(F, S \ rest) = F[x] + Total(F, S \ m)
  <2>1. IsFiniteSet(S \ rest) /\ x \in S \ rest /\ (S \ rest) \ {x} = S \ m
    BY <1>3, <1>6, FS_Subset
  <2> HIDE DEF rest
  <2> QED
    BY <2>1, TotalWithout
<1>10. F[x] \in Nat /\ Total(F, rest) \in Nat /\ Total(F, S \ m) \in Nat
  <2>1. IsFiniteSet(rest) /\ IsFiniteSet(S \ m) /\ rest \subseteq S
    BY <1>3, FS_Subset
  <2> QED
    BY <1>6, <2>1, TotalType
<1> QED
  BY <1>3, <1>7, <1>8, <1>9, <1>10

\* The sum over one element.
LEMMA TotalOne ==
    ASSUME NEW x, NEW F, F[x] \in Nat
    PROVE  Total(F, {x}) = F[x]
<1>1. IsFiniteSet({x}) /\ IsFiniteSet({}) /\ {x} \ {x} = {}
  BY FS_Singleton, FS_EmptySet
<1>2. Total(F, {}) = 0
  BY <1>1, TotalStep
<1>3. Total(F, {x}) = F[x] + Total(F, {x} \ {x})
  BY <1>1, TotalWithout
<1> QED
  BY <1>1, <1>2, <1>3

\* TokensOf is such a sum, before a step and after it.
LEMMA TokensTotal ==
    ASSUME NEW S, IsFiniteSet(S), NEW F
    PROVE  /\ (\A c \in S : F[c] = Tokens(settlement[c])) => TokensOf(S) = Total(F, S)
           /\ (\A c \in S : F[c] = Tokens(settlement'[c])) => TokensOf(S)' = Total(F, S)
<1>1. PICK g : IsSum(g, F, S)
  BY SumExists
<1>2. \A s \in SUBSET S : s = {} \/ Pick(s) \in S
  BY PickOne
<1>3. ASSUME \A c \in S : F[c] = Tokens(settlement[c]) PROVE TokensOf(S) = Total(F, S)
  <2> DEFINE Is(h) == h = [s \in SUBSET S |->
               IF s = {} THEN 0
               ELSE Tokens(settlement[CHOOSE x \in s : TRUE]) + h[s \ {CHOOSE x \in s : TRUE}]]
  <2>1. TokensOf(S) = (CHOOSE h : Is(h))[S]
    BY DEF TokensOf, MapThenSumSet, MapThenFoldSet
  <2>2. ASSUME NEW h PROVE Is(h) <=> IsSum(h, F, S)
    BY <1>2, <1>3 DEF IsSum, SumStep, Pick
  <2>3. PICK h : h = CHOOSE f : Is(f)
    OBVIOUS
  <2> HIDE DEF Is
  <2>4. IsSum(h, F, S)
    BY <1>1, <2>2, <2>3
  <2> QED
    BY <2>1, <2>3, <2>4, TotalIs
<1>4. ASSUME \A c \in S : F[c] = Tokens(settlement'[c]) PROVE TokensOf(S)' = Total(F, S)
  <2> DEFINE Is(h) == h = [s \in SUBSET S |->
               IF s = {} THEN 0
               ELSE Tokens(settlement'[CHOOSE x \in s : TRUE]) + h[s \ {CHOOSE x \in s : TRUE}]]
  <2>1. TokensOf(S)' = (CHOOSE h : Is(h))[S]
    BY DEF TokensOf, MapThenSumSet, MapThenFoldSet
  <2>2. ASSUME NEW h PROVE Is(h) <=> IsSum(h, F, S)
    BY <1>2, <1>4 DEF IsSum, SumStep, Pick
  <2>3. PICK h : h = CHOOSE f : Is(f)
    OBVIOUS
  <2> HIDE DEF Is
  <2>4. IsSum(h, F, S)
    BY <1>1, <2>2, <2>3
  <2> QED
    BY <2>1, <2>3, <2>4, TotalIs
<1> QED
  BY <1>3, <1>4

-----------------------------------------------------------------------------
(* The invariant.                                                          *)

\* The type invariant but for the tokens, which are sums.
Typed ==
    /\ settlement \in [Calls -> Settlements] /\ call \in [Calls -> CallStates]
    /\ usage = [requests |-> usage.requests, tokens |-> usage.tokens] /\ usage.requests \in Nat
    /\ project \in {"active", "deleting", "deleted"}

\* A call that goes to the provider, or went, has its reservation, and one that
\* has not been dispatched was not sent; of an ended call nothing is remembered.
OnItsWay ==
    /\ project # "deleted" =>
         \A c \in Calls : call[c].pc = "call" =>
           Status(c) \in {"dispatched", "delivered", "settled", "unknown"}
    /\ \A c \in Calls : call[c].pc \in {"start", "dispatch", "end"} => ~call[c].sent

\* The inductive invariant.
ProviderInv == Typed /\ OnItsWay /\ SentIsCharged /\ DeletionWaits /\ WithinLimits

\* The rows that count in the window.
InWindow == {c \in Calls : Charged(c) /\ settlement[c].recent}

\* Before the first call nothing is charged or sent.
LEMMA ProviderInvInit == ASSUME ProviderInit PROVE ProviderInv
<1>1. Typed
  BY ProviderConstants
     DEF ProviderInit, Typed, Settlements, SettlementRows, NoSettlement, Statuses, CallStates, CallPcs,
         NoUsage, Unmeasured
<1>2. OnItsWay /\ SentIsCharged /\ DeletionWaits
  BY DEF ProviderInit, OnItsWay, SentIsCharged, DeletionWaits, Status, NoSettlement
<1>3. WithinLimits
  <2>1. InWindow = {}
    BY DEF ProviderInit, InWindow, NoSettlement
  <2> QED
    BY <2>1, FS_EmptySet, ProviderConstants DEF WithinLimits, WindowUse, InWindow, ProviderInit, NoUsage
<1> QED
  BY <1>1, <1>2, <1>3 DEF ProviderInv

\* A window that only loses rows stays within its limit.
LEMMA WindowShrinks ==
    ASSUME WindowUse <= WindowLimit,
           InWindow' \subseteq InWindow
    PROVE  WindowUse' <= WindowLimit
<1>1. IsFiniteSet(InWindow)
  BY FS_Subset, ProviderConstants DEF InWindow
<1>2. /\ Cardinality(InWindow) \in Nat /\ Cardinality(InWindow') \in Nat
      /\ Cardinality(InWindow') <= Cardinality(InWindow)
  BY <1>1, FS_Subset, FS_CardinalityType
<1> QED
  BY <1>2, ProviderConstants DEF WindowUse, InWindow

\* A refund leaves no more than there was, and no less than zero.
LEMMA Refund == \A n, m \in Nat : AtLeastZero(n - m) \in Nat /\ AtLeastZero(n - m) <= n
BY DEF AtLeastZero

\* What the steps of one call leave alone.
LEMMA MarkOne ==
    ASSUME Typed, NEW c \in Calls, NEW status \in Statuses,
           Mark(c, status), settlement[c].measured = Unmeasured
    PROVE  /\ settlement' \in [Calls -> Settlements]
           /\ settlement'[c] = [settlement[c] EXCEPT !.status = status]
           /\ Status(c)' = status /\ settlement'[c].recent = settlement[c].recent
           /\ \A d \in Calls : d # c => settlement'[d] = settlement[d]
BY DEF Typed, Mark, Settlements, SettlementRows, Status

\* The same for the locals of the call.
LEMMA CallOne ==
    ASSUME Typed, NEW c \in Calls, NEW pc \in CallPcs, CallTo(c, pc)
    PROVE  /\ call' \in [Calls -> CallStates] /\ call'[c].pc = pc
           /\ call'[c].sent => call[c].sent /\ pc # "end"
           /\ \A d \in Calls : d # c => call'[d] = call[d]
BY DEF Typed, CallTo, CallStates, CallPcs, Ended

\* A step that marks one row and moves one call, and adds no row.
LEMMA OneRow ==
    ASSUME ProviderInv, NEW c \in Calls, NEW pc \in CallPcs \ {"start", "dispatch"}, CallTo(c, pc),
           settlement' \in [Calls -> Settlements],
           \A d \in Calls : d # c => settlement'[d] = settlement[d],
           \/ settlement'[c] = settlement[c]
           \/ /\ Status(c) \in {"reserved", "dispatched", "delivered", "unknown"}
              /\ settlement'[c].recent = settlement[c].recent
              /\ \/ Status(c)' = "failed" /\ Status(c) = "reserved"
                 \/ Status(c)' \in {"delivered", "unknown", "settled"}
                 \/ Status(c)' = "dispatched" /\ Status(c) = "reserved",
           pc = "call" => Status(c)' = "dispatched",
           usage' = [requests |-> usage'.requests, tokens |-> usage'.tokens],
           usage'.requests \in Nat, usage'.requests <= usage.requests,
           UNCHANGED project
    PROVE  ProviderInv'
<1>1. /\ call' \in [Calls -> CallStates] /\ call'[c].pc = pc
      /\ call'[c].sent => call[c].sent /\ pc # "end"
      /\ \A d \in Calls : d # c => call'[d] = call[d]
  BY CallOne DEF ProviderInv
<1>2. Typed'
  BY <1>1 DEF ProviderInv, Typed
<1>3. OnItsWay'
  BY <1>1 DEF ProviderInv, OnItsWay, Status
<1>4. SentIsCharged'
  BY <1>1 DEF ProviderInv, SentIsCharged, Status
<1>5. DeletionWaits'
  BY DEF ProviderInv, DeletionWaits, Status
<1>6. InWindow' \subseteq InWindow
  BY DEF InWindow, Charged, Status
<1>7. WithinLimits'
  BY <1>6, WindowShrinks, ProviderConstants DEF ProviderInv, Typed, WithinLimits
<1> QED
  BY <1>2, <1>3, <1>4, <1>5, <1>7 DEF ProviderInv

-----------------------------------------------------------------------------
(* The steps.                                                                *)

\* reserveProjectProviderSettlement adds a row within the limits.
LEMMA Reserving ==
    ASSUME ProviderInv, NEW c \in Calls, NEW t \in Amounts, Reserve(c, t) PROVE ProviderInv'
<1>1. CASE /\ CanReserve(t) /\ CallAt(c, "start") /\ CallTo(c, "dispatch")
           /\ settlement' = [settlement EXCEPT
               ![c] = [NoSettlement EXCEPT !.status = "reserved", !.reserved = t, !.recent = TRUE]]
           /\ usage' = [requests |-> usage.requests + 1, tokens |-> usage.tokens + t]
           /\ UNCHANGED project
  <2>1. /\ call' \in [Calls -> CallStates] /\ call'[c].pc = "dispatch" /\ ~call'[c].sent
        /\ \A d \in Calls : d # c => call'[d] = call[d]
    BY <1>1, CallOne DEF ProviderInv, CallPcs, OnItsWay, CallAt
  <2>2. /\ settlement' \in [Calls -> Settlements] /\ settlement'[c].status = "reserved"
        /\ \A d \in Calls : d # c => settlement'[d] = settlement[d]
    BY <1>1 DEF ProviderInv, Typed, Settlements, SettlementRows, NoSettlement, Statuses
  <2>3. project = "active"
    BY <1>1 DEF CanReserve
  <2>4. Typed' /\ OnItsWay' /\ SentIsCharged' /\ DeletionWaits'
    BY <1>1, <2>1, <2>2, <2>3 DEF ProviderInv, Typed, OnItsWay, SentIsCharged, DeletionWaits, Status
  <2>5. WindowUse' <= WindowLimit
    <3>1. IsFiniteSet(InWindow)
      BY FS_Subset, ProviderConstants DEF InWindow
    <3>2. InWindow' \subseteq InWindow \cup {c}
      BY <2>2 DEF InWindow, Charged, Status
    <3>3. IsFiniteSet(InWindow \cup {c}) /\ Cardinality(InWindow \cup {c}) <= Cardinality(InWindow) + 1
      <4>1. /\ IsFiniteSet(InWindow \cup {c}) /\ Cardinality(InWindow) \in Nat
            /\ \/ Cardinality(InWindow \cup {c}) = Cardinality(InWindow)
               \/ Cardinality(InWindow \cup {c}) = Cardinality(InWindow) + 1
        BY <3>1, FS_AddElement, FS_CardinalityType, Zenon
      <4> QED
        BY <4>1
    <3>4. /\ Cardinality(InWindow') <= Cardinality(InWindow \cup {c})
          /\ Cardinality(InWindow') \in Nat /\ Cardinality(InWindow \cup {c}) \in Nat
      BY <3>2, <3>3, FS_Subset, FS_CardinalityType
    <3>5. Cardinality(InWindow) + 1 <= WindowLimit /\ Cardinality(InWindow) \in Nat
      BY <1>1, <3>1, FS_CardinalityType DEF CanReserve, WindowUse, InWindow
    <3>6. Cardinality(InWindow') <= WindowLimit
      BY <3>3, <3>4, <3>5, ProviderConstants
    <3> QED
      BY <3>6 DEF WindowUse, InWindow
  <2>6. usage'.requests <= RequestLimit
    BY <1>1 DEF CanReserve
  <2> QED
    BY <2>4, <2>5, <2>6 DEF ProviderInv, WithinLimits
<1>2. CASE CallTo(c, "end") /\ UNCHANGED <<settlement, usage, project>>
  BY <1>2, OneRow DEF ProviderInv, Typed, CallPcs
<1> QED
  BY <1>1, <1>2 DEF Reserve

\* The other steps of a call.
LEMMA Calling ==
    ASSUME ProviderInv, NEW c \in Calls,
           \/ Dispatch(c) \/ Fail(c) \/ Send(c) \/ Answer(c) \/ Deliver(c) \/ Settle(c)
           \/ MarkUnknown(c) \/ DispatchLost(c)
    PROVE  ProviderInv'
<1>1. ASSUME NEW pc \in CallPcs \ {"start", "dispatch", "call"}, CallTo(c, pc),
             UNCHANGED <<settlement, usage, project>>
      PROVE  ProviderInv'
  BY <1>1, OneRow DEF ProviderInv, Typed
<1>2. ASSUME NEW pc \in CallPcs \ {"start", "dispatch"}, CallTo(c, pc),
             NEW status \in {"dispatched", "delivered", "unknown"}, Mark(c, status),
             Status(c) \in {"reserved", "dispatched", "delivered", "unknown"},
             status = "dispatched" => Status(c) = "reserved",
             pc = "call" => status = "dispatched",
             UNCHANGED <<usage, project>>
      PROVE  ProviderInv'
  <2>1. settlement[c].measured = Unmeasured
    BY <1>2 DEF ProviderInv, Typed, Settlements, Status
  <2>2. /\ settlement' \in [Calls -> Settlements]
        /\ Status(c)' = status /\ settlement'[c].recent = settlement[c].recent
        /\ \A d \in Calls : d # c => settlement'[d] = settlement[d]
    BY <1>2, <2>1, MarkOne DEF ProviderInv, Statuses
  <2> QED
    BY <1>2, <2>2, OneRow DEF ProviderInv, Typed
<1>3. CASE Dispatch(c) \/ DispatchLost(c)
  BY <1>1, <1>2, <1>3 DEF Dispatch, DispatchLost, CallPcs
<1>4. CASE Fail(c)
  <2>1. CASE /\ Status(c) = "reserved" /\ Mark(c, "failed") /\ CallTo(c, "end") /\ UNCHANGED project
             /\ usage' = [requests |-> AtLeastZero(usage.requests - 1),
                          tokens |-> AtLeastZero(usage.tokens - settlement[c].reserved)]
    <3>1. settlement[c].measured = Unmeasured
      BY <2>1 DEF ProviderInv, Typed, Settlements, Status
    <3>2. /\ settlement' \in [Calls -> Settlements]
          /\ Status(c)' = "failed" /\ settlement'[c].recent = settlement[c].recent
          /\ \A d \in Calls : d # c => settlement'[d] = settlement[d]
      BY <2>1, <3>1, MarkOne DEF ProviderInv, Statuses
    <3>3. usage'.requests \in Nat /\ usage'.requests <= usage.requests
      BY <2>1, Refund DEF ProviderInv, Typed
    <3> QED
      BY <2>1, <3>2, <3>3, OneRow DEF CallPcs
  <2> QED
    BY <1>1, <1>2, <1>4, <2>1 DEF Fail, CallPcs
<1>5. CASE Send(c) \/ Answer(c)
  <2>1. CASE CallTo(c, "unknown") /\ UNCHANGED <<settlement, usage, project>>
    BY <1>1, <2>1 DEF CallPcs
  <2>2. CASE ~CallTo(c, "unknown")
    <3>1. /\ call' \in [Calls -> CallStates] /\ call'[c].pc \in {"answer", "deliver"}
          /\ call'[c].sent => call[c].sent \/ call[c].pc = "call"
          /\ \A d \in Calls : d # c => call'[d] = call[d]
          /\ UNCHANGED <<settlement, usage, project>>
      BY <1>5, <2>2 DEF Send, Answer, CallAt, ProviderInv, Typed, CallStates, CallPcs
    <3>2. Typed' /\ OnItsWay' /\ SentIsCharged' /\ DeletionWaits' /\ WithinLimits'
      BY <3>1 DEF ProviderInv, Typed, OnItsWay, SentIsCharged, DeletionWaits, WithinLimits, WindowUse,
                  Charged, Status
    <3> QED
      BY <3>2 DEF ProviderInv
  <2> QED
    BY <1>5, <2>1, <2>2 DEF Send, Answer
<1>6. CASE Deliver(c) \/ MarkUnknown(c)
  BY <1>1, <1>2, <1>6 DEF Deliver, MarkUnknown, CallPcs
<1>7. CASE Settle(c)
  <2>1. CASE ~(Status(c) \in {"dispatched", "delivered", "unknown"})
    BY <1>1, <1>7, <2>1 DEF Settle, Status, CallPcs
  <2>2. CASE Status(c) \in {"dispatched", "delivered", "unknown"}
    <3>1. /\ settlement' = [settlement EXCEPT ![c].status = "settled",
                                              ![c].measured = call[c].measured]
          /\ usage' = [usage EXCEPT !.tokens = AtLeastZero(@ + (call[c].measured - settlement[c].reserved))]
          /\ UNCHANGED project
      BY <1>7, <2>2 DEF Settle, Status
    <3>2. PICK pc \in {"end", "unknown"} : CallTo(c, pc)
      BY <1>7, <2>2 DEF Settle, Status
    <3>3. /\ settlement' \in [Calls -> Settlements]
          /\ Status(c)' = "settled" /\ settlement'[c].recent = settlement[c].recent
          /\ \A d \in Calls : d # c => settlement'[d] = settlement[d]
      <4>1. settlement[c] \in Settlements /\ call[c].measured \in Amounts \cup {Unmeasured}
        BY DEF ProviderInv, Typed, CallStates
      <4> DEFINE r == [settlement[c] EXCEPT !.status = "settled", !.measured = call[c].measured]
      <4>2. r \in Settlements /\ r.status = "settled" /\ r.recent = settlement[c].recent
        BY <4>1 DEF Settlements, SettlementRows, Statuses
      <4>3. settlement \in [Calls -> Settlements] /\ settlement' = [settlement EXCEPT ![c] = r]
        BY <3>1 DEF ProviderInv, Typed
      <4> HIDE DEF r
      <4> QED
        BY <4>2, <4>3 DEF Status
    <3>4. /\ usage' = [requests |-> usage'.requests, tokens |-> usage'.tokens]
          /\ usage'.requests = usage.requests
      BY <3>1 DEF ProviderInv, Typed
    <3> QED
      BY <2>2, <3>1, <3>2, <3>3, <3>4, OneRow DEF ProviderInv, Typed, CallPcs
  <2> QED
    BY <2>1, <2>2
<1> QED
  BY <1>3, <1>4, <1>5, <1>6, <1>7

\* The passing of time, the maintenance of the rows, and crashes.
LEMMA Maintaining ==
    ASSUME ProviderInv,
           \/ Expire \/ ProviderCrash
           \/ \E c \in Calls : Overdue(c) \/ LeaveWindow(c) \/ Prune(c)
    PROVE  ProviderInv'
<1>1. ASSUME NEW c \in Calls, Overdue(c) \/ LeaveWindow(c) PROVE ProviderInv'
  <2>1. /\ settlement' \in [Calls -> Settlements]
        /\ \A d \in Calls : /\ settlement'[d].status = settlement[d].status
                            /\ settlement'[d].recent => settlement[d].recent
        /\ UNCHANGED <<usage, call, project>>
    <3>1. PICK r : /\ settlement' = [settlement EXCEPT ![c] = r]
                   /\ \/ r = [settlement[c] EXCEPT !.overdue = TRUE]
                      \/ r = [settlement[c] EXCEPT !.recent = FALSE]
                   /\ UNCHANGED <<usage, call, project>>
      BY <1>1 DEF Overdue, LeaveWindow
    <3>2. settlement \in [Calls -> Settlements]
      BY DEF ProviderInv, Typed
    <3>3. /\ r \in Settlements /\ r.status = settlement[c].status
          /\ r.recent => settlement[c].recent
      BY <3>1, <3>2 DEF Settlements, SettlementRows
    <3> QED
      BY <3>1, <3>2, <3>3
  <2>2. Typed' /\ OnItsWay' /\ SentIsCharged' /\ DeletionWaits'
    BY <2>1 DEF ProviderInv, Typed, OnItsWay, SentIsCharged, DeletionWaits, Status
  <2>3. InWindow' \subseteq InWindow
    BY <2>1 DEF InWindow, Charged, Status
  <2> QED
    BY <2>1, <2>2, <2>3, WindowShrinks DEF ProviderInv, WithinLimits
<1>2. ASSUME NEW c \in Calls, Prune(c) PROVE ProviderInv'
  <2>1. /\ settlement' \in [Calls -> Settlements]
        /\ settlement'[c] = NoSettlement /\ call[c].pc = "end"
        /\ \A d \in Calls : d # c => settlement'[d] = settlement[d]
        /\ UNCHANGED <<usage, call, project>>
    BY <1>2 DEF Prune, CallAt, ProviderInv, Typed, Settlements, SettlementRows, NoSettlement, Statuses
  <2>2. ~call[c].sent
    BY <2>1 DEF ProviderInv, OnItsWay
  <2>3. Typed' /\ OnItsWay' /\ SentIsCharged' /\ DeletionWaits'
    BY <2>1, <2>2
       DEF ProviderInv, Typed, OnItsWay, SentIsCharged, DeletionWaits, Status, NoSettlement
  <2>4. InWindow' \subseteq InWindow
    BY <2>1 DEF InWindow, Charged, Status, NoSettlement
  <2> QED
    BY <2>1, <2>3, <2>4, WindowShrinks DEF ProviderInv, WithinLimits
<1>3. CASE ProviderCrash
  <2>1. /\ call' \in [Calls -> CallStates] /\ UNCHANGED <<settlement, usage, project>>
        /\ \A c \in Calls : call'[c] = call[c] \/ call'[c] = Ended
    BY <1>3 DEF ProviderCrash, ProviderInv, Typed, CallStates, CallPcs, Ended
  <2> QED
    BY <2>1 DEF ProviderInv, Typed, OnItsWay, SentIsCharged, DeletionWaits, WithinLimits, WindowUse,
                Charged, Status, Ended
<1>4. CASE Expire
  <2> DEFINE due == {c \in LiveReservations : settlement[c].overdue}
             unsent == {c \in due : Status(c) = "reserved"}
  <2>1. /\ settlement' = [c \in Calls |->
             IF c \in due
             THEN [settlement[c] EXCEPT !.status = IF c \in unsent THEN "failed" ELSE "unknown"]
             ELSE settlement[c]]
        /\ usage' = [requests |-> AtLeastZero(usage.requests - Cardinality(unsent)),
                     tokens |-> AtLeastZero(usage.tokens - TokensOf(unsent))]
        /\ UNCHANGED <<call, project>>
    BY <1>4 DEF Expire
  <2>2. \A c \in Calls :
          /\ settlement'[c] \in Settlements
          /\ settlement'[c].recent = settlement[c].recent
          /\ \/ Status(c)' = Status(c)
             \/ Status(c)' = "failed" /\ Status(c) = "reserved"
             \/ Status(c)' = "unknown" /\ Status(c) \in {"dispatched", "delivered"}
    <3> SUFFICES ASSUME NEW c \in Calls
                 PROVE  /\ settlement'[c] \in Settlements
                        /\ settlement'[c].recent = settlement[c].recent
                        /\ \/ Status(c)' = Status(c)
                           \/ Status(c)' = "failed" /\ Status(c) = "reserved"
                           \/ Status(c)' = "unknown" /\ Status(c) \in {"dispatched", "delivered"}
      OBVIOUS
    <3>1. settlement[c] \in Settlements
      BY DEF ProviderInv, Typed
    <3>2. settlement'[c] = IF c \in due
                           THEN [settlement[c] EXCEPT !.status = IF c \in unsent THEN "failed" ELSE "unknown"]
                           ELSE settlement[c]
      BY <2>1
    <3>3. CASE c \notin due
      BY <3>1, <3>2, <3>3 DEF Status
    <3>4. CASE c \in due
      <4>1. /\ settlement[c].status \in {"reserved", "dispatched", "delivered"}
            /\ c \in unsent <=> settlement[c].status = "reserved"
        BY <3>4 DEF LiveReservations, Status
      <4> HIDE DEF due, unsent
      <4> QED
        BY <3>1, <3>2, <3>4, <4>1 DEF Status, Settlements, SettlementRows, Statuses
    <3> QED
      BY <3>3, <3>4
  <2>3. IsFiniteSet(unsent)
    BY FS_Subset, ProviderConstants DEF LiveReservations
  <2>4. usage'.requests \in Nat /\ usage'.requests <= usage.requests
    BY <2>1, <2>3, FS_CardinalityType, Refund DEF ProviderInv, Typed
  <2>5. Typed'
    BY <2>1, <2>2, <2>4 DEF ProviderInv, Typed
  <2>6. OnItsWay' /\ SentIsCharged' /\ DeletionWaits'
    <3>1. UNCHANGED <<call, project>>
      BY <2>1
    <3> QED
      BY <3>1, <2>2 DEF ProviderInv, OnItsWay, SentIsCharged, DeletionWaits
  <2>7. InWindow' \subseteq InWindow
    BY <2>2 DEF InWindow, Charged
  <2>8. WithinLimits'
    BY <2>4, <2>7, WindowShrinks, ProviderConstants DEF ProviderInv, Typed, WithinLimits
  <2> QED
    BY <2>5, <2>6, <2>8 DEF ProviderInv
<1> QED
  BY <1>1, <1>2, <1>3, <1>4

\* The deletion of the Project.
LEMMA Deleting ==
    ASSUME ProviderInv, BeginDeletion \/ EraseProject \/ FinalizeProject PROVE ProviderInv'
<1>1. CASE UNCHANGED <<settlement, usage, call>>
  <2>1. /\ project' \in {"active", "deleting", "deleted"}
        /\ project = "deleted" => project' = "deleted"
        /\ project' # "active" => project # "active" \/ LiveReservations = {}
    BY DEF BeginDeletion, EraseProject, FinalizeProject, ProviderInv, Typed
  <2> QED
    BY <1>1, <2>1
       DEF ProviderInv, Typed, OnItsWay, SentIsCharged, DeletionWaits, WithinLimits, WindowUse, Charged,
           Status, LiveReservations
<1>2. CASE ~UNCHANGED <<settlement, usage, call>>
  <2>1. /\ project' = "deleted" /\ settlement' = [c \in Calls |-> NoSettlement]
        /\ usage' = NoUsage /\ UNCHANGED call
    BY <1>2 DEF BeginDeletion, EraseProject, FinalizeProject
  <2>2. Typed'
    BY <2>1 DEF ProviderInv, Typed, Settlements, SettlementRows, NoSettlement, NoUsage, Statuses
  <2>3. OnItsWay' /\ SentIsCharged' /\ DeletionWaits'
    BY <2>1 DEF ProviderInv, OnItsWay, SentIsCharged, DeletionWaits, Status, NoSettlement
  <2>4. InWindow' \subseteq InWindow
    BY <2>1 DEF InWindow, Charged, Status, NoSettlement
  <2>5. WithinLimits'
    BY <2>1, <2>4, WindowShrinks, ProviderConstants DEF ProviderInv, WithinLimits, NoUsage
  <2> QED
    BY <2>2, <2>3, <2>5 DEF ProviderInv
<1> QED
  BY <1>1, <1>2

\* Every step keeps the invariant.
LEMMA ProviderInvStep == ASSUME ProviderInv, [ProviderNext]_providerVars PROVE ProviderInv'
<1>1. CASE UNCHANGED providerVars
  BY <1>1 DEF providerVars, ProviderInv, Typed, OnItsWay, SentIsCharged, DeletionWaits, WithinLimits,
              WindowUse, Charged, Status
<1>2. CASE ProviderNext
  BY <1>2, Reserving, Calling, Maintaining, Deleting DEF ProviderNext, SettledCall
<1> QED
  BY <1>1, <1>2

\* So it holds always.
LEMMA ProviderInvariant == ProviderSpec => []ProviderInv
BY ProviderInvInit, ProviderInvStep, PTL DEF ProviderSpec

-----------------------------------------------------------------------------
(* The theorems.                                                             *)

\* What went to a provider is charged, whatever expiries, late answers, crashes
\* and deletions of the Project come between.
THEOREM SentCharged == ProviderSpec => []SentIsCharged
BY ProviderInvariant, PTL DEF ProviderInv

\* The deletion of a Project begins with no request in the books, and none comes.
THEOREM DeletionWaited == ProviderSpec => []DeletionWaits
BY ProviderInvariant, PTL DEF ProviderInv

\* The limits of Project and window hold for any number of calls.
THEOREM LimitsKept == ProviderSpec => []WithinLimits
BY ProviderInvariant, PTL DEF ProviderInv

-----------------------------------------------------------------------------
(* What the Project is charged.                                            *)

RowTokens == [c \in Calls |-> Tokens(settlement[c])]

\* A call that has not begun has no row, what is settled was measured, and what
\* rows deleted for their age were charged are numbers.
Measured ==
    /\ \A c \in Calls : call[c].pc = "start" => Status(c) = "absent"
    /\ \A c \in Calls : call[c].pc = "settle" => call[c].measured \in Amounts
    /\ pruned \in [requests: Nat, tokens: Nat]

\* What the type invariant says beyond this.
Bounded == files \in BOOLEAN /\ deletion \in {"idle", "erase", "finalize"}
           /\ providerFaults \in 0..MaxProviderFaults

\* The inductive invariant: the usage is a sum of numbers.
SumInv == ProviderInv /\ Measured /\ Bounded /\ UsageIsSum

\* The rows are finitely many, and each is charged a number of tokens.
LEMMA RowsCharged ==
    ASSUME Typed
    PROVE  /\ IsFiniteSet(ChargedCalls) /\ Cardinality(ChargedCalls) \in Nat
           /\ RowTokens \in [Calls -> Nat]
           /\ \A c \in Calls : RowTokens[c] = Tokens(settlement[c])
<1>1. IsFiniteSet(ChargedCalls) /\ Cardinality(ChargedCalls) \in Nat
  BY FS_Subset, FS_CardinalityType, ProviderConstants DEF ChargedCalls
<1>2. \A c \in Calls : Tokens(settlement[c]) \in Nat
  BY ProviderConstants DEF Typed, Settlements, SettlementRows, Tokens
<1> QED
  BY <1>1, <1>2 DEF RowTokens

\* The tokens of a set of calls are a sum.
LEMMA TokensAreTotal ==
    ASSUME NEW S \in SUBSET Calls PROVE TokensOf(S) = Total(RowTokens, S)
<1>1. IsFiniteSet(S)
  BY FS_Subset, ProviderConstants
<1>2. PICK F : F = RowTokens
  OBVIOUS
<1>3. \A c \in S : F[c] = Tokens(settlement[c])
  BY <1>2 DEF RowTokens
<1> QED
  BY <1>1, <1>2, <1>3, TokensTotal

\* After a step they are a sum too.
LEMMA ChargedAfter ==
    ASSUME NEW Q, Q = ChargedCalls', NEW G, \A c \in Q : G[c] = Tokens(settlement'[c])
    PROVE  /\ Cardinality(ChargedCalls)' = Cardinality(Q)
           /\ TokensOf(ChargedCalls)' = Total(G, Q)
<1>1. IsFiniteSet(Q)
  BY FS_Subset, ProviderConstants DEF ChargedCalls
<1>2. TokensOf(Q)' = Total(G, Q)
  BY <1>1, TokensTotal
<1>3. TokensOf(ChargedCalls)' = TokensOf(Q)'
  BY DEF TokensOf, MapThenSumSet, MapThenFoldSet
<1> QED
  BY <1>2, <1>3

\* What one row adds to a sum.
Share(counts, n) == IF counts THEN n ELSE 0

\* What one element adds.
LEMMA ShareOf ==
    ASSUME NEW P \in SUBSET Calls, NEW F \in [Calls -> Nat], NEW c \in Calls
    PROVE  /\ Cardinality(P) = Cardinality(P \ {c}) + Share(c \in P, 1)
           /\ Total(F, P) = Total(F, P \ {c}) + Share(c \in P, F[c])
           /\ Cardinality(P \ {c}) \in Nat /\ Total(F, P \ {c}) \in Nat
<1>1. IsFiniteSet(P) /\ IsFiniteSet(P \ {c})
  BY FS_Subset, ProviderConstants
<1>2. /\ Cardinality(P) \in Nat /\ Cardinality(P \ {c}) \in Nat
      /\ Total(F, P) \in Nat /\ Total(F, P \ {c}) \in Nat
  BY <1>1, FS_CardinalityType, TotalType
<1>3. CASE c \in P
  <2>1. Cardinality(P \ {c}) = Cardinality(P) - 1
    BY <1>1, <1>3, FS_RemoveElement
  <2>2. Total(F, P) = F[c] + Total(F, P \ {c})
    BY <1>1, <1>3, TotalWithout
  <2> QED
    BY <1>2, <1>3, <2>1, <2>2 DEF Share
<1>4. CASE c \notin P
  <2>1. P \ {c} = P
    BY <1>4
  <2> QED
    BY <1>2, <1>4, <2>1 DEF Share
<1> QED
  BY <1>3, <1>4

\* A step that changes the row of one call: the others count what they did.
LEMMA OneShare ==
    ASSUME Typed, Typed', NEW c \in Calls, \A d \in Calls : d # c => settlement'[d] = settlement[d]
    PROVE  \E n, t \in Nat :
             /\ Cardinality(ChargedCalls) = n + Share(Charged(c), 1)
             /\ TokensOf(ChargedCalls) = t + Share(Charged(c), Tokens(settlement[c]))
             /\ Cardinality(ChargedCalls)' = n + Share(Charged(c)', 1)
             /\ TokensOf(ChargedCalls)' = t + Share(Charged(c)', Tokens(settlement'[c]))
<1>1. PICK P, Q \in SUBSET Calls : P = ChargedCalls /\ Q = ChargedCalls'
  BY DEF ChargedCalls
<1>2. PICK F, G \in [Calls -> Nat] :
        \A d \in Calls : F[d] = Tokens(settlement[d]) /\ G[d] = Tokens(settlement'[d])
  <2>1. RowTokens \in [Calls -> Nat] /\ \A d \in Calls : RowTokens[d] = Tokens(settlement[d])
    BY RowsCharged
  <2>2. \A d \in Calls : Tokens(settlement'[d]) \in Nat
    BY ProviderConstants DEF Typed, Settlements, SettlementRows, Tokens
  <2> DEFINE g == [d \in Calls |-> Tokens(settlement'[d])]
  <2>3. g \in [Calls -> Nat] /\ \A d \in Calls : g[d] = Tokens(settlement'[d])
    BY <2>2
  <2> QED
    BY <2>1, <2>3
<1>3. P \ {c} = Q \ {c}
  BY <1>1 DEF ChargedCalls, Charged, Status
<1>4. (c \in P) = Charged(c) /\ (c \in Q) = Charged(c)'
  BY <1>1 DEF ChargedCalls, Charged, Status
<1>5. /\ Cardinality(P) = Cardinality(P \ {c}) + Share(Charged(c), 1)
      /\ Total(F, P) = Total(F, P \ {c}) + Share(Charged(c), Tokens(settlement[c]))
      /\ Cardinality(P \ {c}) \in Nat /\ Total(F, P \ {c}) \in Nat
  BY <1>2, <1>4, ShareOf
<1>6. /\ Cardinality(Q) = Cardinality(Q \ {c}) + Share(Charged(c)', 1)
      /\ Total(G, Q) = Total(G, Q \ {c}) + Share(Charged(c)', Tokens(settlement'[c]))
  BY <1>2, <1>4, ShareOf
<1>7. Total(F, P \ {c}) = Total(G, P \ {c})
  <2>1. IsFiniteSet(P \ {c})
    BY FS_Subset, ProviderConstants
  <2>2. \A d \in P \ {c} : F[d] = G[d]
    BY <1>2
  <2> QED
    BY <2>1, <2>2, TotalSame
<1>8. TokensOf(P) = Total(F, P)
  <2>1. IsFiniteSet(P)
    BY FS_Subset, ProviderConstants
  <2> QED
    BY <1>2, <2>1, TokensTotal
<1>9. TokensOf(ChargedCalls) = Total(F, P) /\ Cardinality(ChargedCalls) = Cardinality(P)
  BY <1>1, <1>8
<1>10. Cardinality(ChargedCalls)' = Cardinality(Q) /\ TokensOf(ChargedCalls)' = Total(G, Q)
  BY <1>1, <1>2, ChargedAfter
<1> QED
  BY <1>3, <1>5, <1>6, <1>7, <1>9, <1>10

\* A step that changes no charge.
LEMMA SameShare ==
    ASSUME Typed, Typed', UsageIsSum, UNCHANGED <<usage, pruned>>, NEW c \in Calls,
           \A d \in Calls : d # c => settlement'[d] = settlement[d],
           Charged(c)' = Charged(c),
           Charged(c) => Tokens(settlement'[c]) = Tokens(settlement[c])
    PROVE  UsageIsSum'
<1>1. PICK n, t \in Nat :
             /\ Cardinality(ChargedCalls) = n + Share(Charged(c), 1)
             /\ TokensOf(ChargedCalls) = t + Share(Charged(c), Tokens(settlement[c]))
             /\ Cardinality(ChargedCalls)' = n + Share(Charged(c)', 1)
             /\ TokensOf(ChargedCalls)' = t + Share(Charged(c)', Tokens(settlement'[c]))
  BY OneShare
<1>2. /\ Cardinality(ChargedCalls)' = Cardinality(ChargedCalls)
      /\ TokensOf(ChargedCalls)' = TokensOf(ChargedCalls)
  BY <1>1 DEF Share
<1> QED
  BY <1>2 DEF UsageIsSum

\* A step that leaves the rows alone.
LEMMA SameRows == ASSUME UsageIsSum, UNCHANGED <<settlement, usage, pruned>> PROVE UsageIsSum'
<1>1. ChargedCalls' = ChargedCalls
  BY DEF ChargedCalls, Charged, Status
<1>2. TokensOf(ChargedCalls)' = TokensOf(ChargedCalls)
  BY <1>1 DEF TokensOf, MapThenSumSet, MapThenFoldSet
<1> QED
  BY <1>1, <1>2 DEF UsageIsSum

\* What rows and calls there are.
LEMMA RowFacts ==
    ASSUME Typed, NEW c \in Calls
    PROVE  /\ settlement[c].status \in Statuses /\ Tokens(settlement[c]) \in Nat
           /\ settlement[c].reserved \in Nat
           /\ settlement[c].status # "settled" => Tokens(settlement[c]) = settlement[c].reserved
           /\ Charged(c) <=> settlement[c].status \in Statuses \ {"absent", "failed"}
BY ProviderConstants DEF Typed, Settlements, SettlementRows, Tokens, Charged, Status

\* A reservation is charged.
LEMMA SumReserving ==
    ASSUME SumInv, ProviderInv', NEW c \in Calls, NEW t \in Amounts, Reserve(c, t)
    PROVE  UsageIsSum'
<1>1. CASE UNCHANGED <<settlement, usage, pruned>>
  BY <1>1, SameRows DEF SumInv
<1>2. CASE /\ CallAt(c, "start")
           /\ settlement' = [settlement EXCEPT
               ![c] = [NoSettlement EXCEPT !.status = "reserved", !.reserved = t, !.recent = TRUE]]
           /\ usage' = [requests |-> usage.requests + 1, tokens |-> usage.tokens + t]
           /\ UNCHANGED pruned
  <2>1. /\ Typed /\ Typed' /\ UsageIsSum /\ Status(c) = "absent" /\ t \in Nat
        /\ pruned.requests \in Nat /\ pruned.tokens \in Nat
    BY <1>2, ProviderConstants DEF SumInv, ProviderInv, Measured, CallAt
  <2>2. /\ \A d \in Calls : d # c => settlement'[d] = settlement[d]
        /\ Tokens(settlement'[c]) = t /\ settlement'[c].status = "reserved"
    BY <1>2, <2>1 DEF Typed, NoSettlement, Tokens
  <2>3. ~Charged(c) /\ Charged(c)'
    BY <2>1, <2>2 DEF Charged, Status
  <2>4. PICK n, k \in Nat :
             /\ Cardinality(ChargedCalls) = n + Share(Charged(c), 1)
             /\ TokensOf(ChargedCalls) = k + Share(Charged(c), Tokens(settlement[c]))
             /\ Cardinality(ChargedCalls)' = n + Share(Charged(c)', 1)
             /\ TokensOf(ChargedCalls)' = k + Share(Charged(c)', Tokens(settlement'[c]))
    BY <2>1, <2>2, OneShare
  <2>5. /\ Cardinality(ChargedCalls) = n /\ TokensOf(ChargedCalls) = k
        /\ Cardinality(ChargedCalls)' = n + 1 /\ TokensOf(ChargedCalls)' = k + t
    BY <2>2, <2>3, <2>4 DEF Share
  <2>6. usage.requests = n + pruned.requests /\ usage.tokens = k + pruned.tokens
    BY <2>1, <2>5 DEF UsageIsSum
  <2>7. usage' = [requests |-> n + 1 + pruned.requests, tokens |-> k + t + pruned.tokens]
    BY <1>2, <2>1, <2>6
  <2> QED
    BY <1>2, <2>5, <2>7 DEF UsageIsSum
<1> QED
  BY <1>1, <1>2 DEF Reserve

\* The other steps of a call: a refund takes back what was reserved, and what was
\* measured takes the place of what was reserved.
LEMMA SumCalling ==
    ASSUME SumInv, ProviderInv', NEW c \in Calls,
           \/ Dispatch(c) \/ Fail(c) \/ Send(c) \/ Answer(c) \/ Deliver(c) \/ Settle(c)
           \/ MarkUnknown(c) \/ DispatchLost(c)
    PROVE  UsageIsSum'
<1>1. /\ Typed /\ Typed' /\ UsageIsSum
      /\ pruned.requests \in Nat /\ pruned.tokens \in Nat
  BY DEF SumInv, ProviderInv, Measured
<1>2. ASSUME NEW status \in {"dispatched", "delivered", "unknown"}, Mark(c, status),
             Status(c) \in {"reserved", "dispatched", "delivered", "unknown"},
             UNCHANGED <<usage, pruned>>
      PROVE  UsageIsSum'
  <2>1. settlement'[c] = [settlement[c] EXCEPT !.status = status] /\ settlement[c] \in SettlementRows
    BY <1>1, <1>2 DEF Mark, Typed, Settlements
  <2>2. \A d \in Calls : d # c => settlement'[d] = settlement[d]
    BY <1>1, <1>2 DEF Mark, Typed
  <2>3. Charged(c)' = Charged(c) /\ Tokens(settlement'[c]) = Tokens(settlement[c])
    BY <1>2, <2>1 DEF Charged, Status, SettlementRows, Tokens
  <2> QED
    BY <1>1, <1>2, <2>2, <2>3, SameShare
<1>3. ASSUME UNCHANGED <<settlement, usage, pruned>> PROVE UsageIsSum'
  BY <1>1, <1>3, SameRows
<1>4. CASE /\ CallAt(c, "fail") /\ Status(c) = "reserved" /\ Mark(c, "failed") /\ UNCHANGED pruned
           /\ usage' = [requests |-> AtLeastZero(usage.requests - 1),
                        tokens |-> AtLeastZero(usage.tokens - settlement[c].reserved)]
  <2>1. /\ settlement'[c].status = "failed"
        /\ \A d \in Calls : d # c => settlement'[d] = settlement[d]
    BY <1>1, <1>4 DEF Mark, Typed, Settlements, SettlementRows
  <2>2. Charged(c) /\ ~Charged(c)'
    BY <1>4, <2>1 DEF Charged, Status
  <2>3. Tokens(settlement[c]) = settlement[c].reserved /\ settlement[c].reserved \in Nat
    BY <1>1, <1>4, RowFacts DEF Status
  <2>4. PICK n, k \in Nat :
             /\ Cardinality(ChargedCalls) = n + Share(Charged(c), 1)
             /\ TokensOf(ChargedCalls) = k + Share(Charged(c), Tokens(settlement[c]))
             /\ Cardinality(ChargedCalls)' = n + Share(Charged(c)', 1)
             /\ TokensOf(ChargedCalls)' = k + Share(Charged(c)', Tokens(settlement'[c]))
    BY <1>1, <2>1, OneShare
  <2>5. /\ Cardinality(ChargedCalls) = n + 1
        /\ TokensOf(ChargedCalls) = k + settlement[c].reserved
        /\ Cardinality(ChargedCalls)' = n /\ TokensOf(ChargedCalls)' = k
    BY <2>2, <2>3, <2>4 DEF Share
  <2>6. /\ usage.requests = n + 1 + pruned.requests
        /\ usage.tokens = k + settlement[c].reserved + pruned.tokens
    BY <1>1, <2>5 DEF UsageIsSum
  <2>7. /\ AtLeastZero(usage.requests - 1) = n + pruned.requests
        /\ AtLeastZero(usage.tokens - settlement[c].reserved) = k + pruned.tokens
    BY <1>1, <2>3, <2>6 DEF AtLeastZero
  <2> QED
    BY <1>4, <2>5, <2>7 DEF UsageIsSum
<1>5. CASE /\ CallAt(c, "settle") /\ UNCHANGED pruned
           /\ settlement[c].status \in {"dispatched", "delivered", "unknown"}
           /\ settlement' = [settlement EXCEPT ![c].status = "settled", ![c].measured = call[c].measured]
           /\ usage' = [usage EXCEPT
                !.tokens = AtLeastZero(@ + (call[c].measured - settlement[c].reserved))]
  <2>1. call[c].measured \in Amounts /\ call[c].measured \in Nat
    BY <1>5, ProviderConstants DEF SumInv, Measured, CallAt
  <2>2. /\ settlement'[c].status = "settled" /\ settlement'[c].measured = call[c].measured
        /\ \A d \in Calls : d # c => settlement'[d] = settlement[d]
    BY <1>1, <1>5 DEF Typed, Settlements, SettlementRows
  <2>3. Charged(c) /\ Charged(c)'
    BY <1>5, <2>2 DEF Charged, Status
  <2>4. /\ Tokens(settlement[c]) = settlement[c].reserved /\ settlement[c].reserved \in Nat
        /\ Tokens(settlement'[c]) = call[c].measured
    <3>1. Tokens(settlement'[c]) = call[c].measured
      BY <2>1, <2>2 DEF Tokens, Unmeasured
    <3> QED
      BY <1>1, <1>5, <3>1, RowFacts
  <2>5. PICK n, k \in Nat :
             /\ Cardinality(ChargedCalls) = n + Share(Charged(c), 1)
             /\ TokensOf(ChargedCalls) = k + Share(Charged(c), Tokens(settlement[c]))
             /\ Cardinality(ChargedCalls)' = n + Share(Charged(c)', 1)
             /\ TokensOf(ChargedCalls)' = k + Share(Charged(c)', Tokens(settlement'[c]))
    BY <1>1, <2>2, OneShare
  <2>6. /\ Cardinality(ChargedCalls) = n + 1 /\ Cardinality(ChargedCalls)' = n + 1
        /\ TokensOf(ChargedCalls) = k + settlement[c].reserved
        /\ TokensOf(ChargedCalls)' = k + call[c].measured
    BY <2>3, <2>4, <2>5 DEF Share
  <2>7. /\ usage.requests = n + 1 + pruned.requests
        /\ usage.tokens = k + settlement[c].reserved + pruned.tokens
    BY <1>1, <2>6 DEF UsageIsSum
  <2>8. AtLeastZero(usage.tokens + (call[c].measured - settlement[c].reserved))
          = k + call[c].measured + pruned.tokens
    BY <1>1, <2>1, <2>4, <2>7 DEF AtLeastZero
  <2>9. usage' = [requests |-> usage.requests,
                  tokens |-> AtLeastZero(usage.tokens + (call[c].measured - settlement[c].reserved))]
    BY <1>1, <1>5 DEF Typed
  <2> QED
    BY <1>5, <2>6, <2>7, <2>8, <2>9 DEF UsageIsSum
<1>6. CASE Dispatch(c) \/ DispatchLost(c) \/ Deliver(c) \/ MarkUnknown(c)
  BY <1>2, <1>3, <1>6 DEF Dispatch, DispatchLost, Deliver, MarkUnknown
<1>7. CASE Fail(c)
  BY <1>2, <1>3, <1>4, <1>7 DEF Fail
<1>8. CASE Send(c) \/ Answer(c)
  BY <1>3, <1>8 DEF Send, Answer
<1>9. CASE Settle(c)
  BY <1>3, <1>5, <1>9 DEF Settle
<1> QED
  BY <1>6, <1>7, <1>8, <1>9

\* Expiry refunds what was reserved by the calls that were certainly not sent.
LEMMA SumExpiring == ASSUME SumInv, ProviderInv', Expire PROVE UsageIsSum'
<1> DEFINE due == {c \in LiveReservations : settlement[c].overdue}
           unsent == {c \in due : Status(c) = "reserved"}
<1>1. /\ Typed /\ Typed' /\ UsageIsSum
      /\ pruned.requests \in Nat /\ pruned.tokens \in Nat
  BY DEF SumInv, ProviderInv, Measured
<1>2. /\ settlement' = [c \in Calls |->
             IF c \in due
             THEN [settlement[c] EXCEPT !.status = IF c \in unsent THEN "failed" ELSE "unknown"]
             ELSE settlement[c]]
      /\ usage' = [requests |-> AtLeastZero(usage.requests - Cardinality(unsent)),
                   tokens |-> AtLeastZero(usage.tokens - TokensOf(unsent))]
      /\ UNCHANGED pruned
  BY DEF Expire
<1>3. PICK P, Q, U \in SUBSET Calls : P = ChargedCalls /\ Q = ChargedCalls' /\ U = unsent
  BY DEF ChargedCalls, LiveReservations
<1>4. \A c \in Calls : /\ Tokens(settlement'[c]) = Tokens(settlement[c])
                       /\ c \in U => Charged(c) /\ ~Charged(c)'
                       /\ c \notin U => Charged(c)' = Charged(c)
  <2> SUFFICES ASSUME NEW c \in Calls
               PROVE  /\ Tokens(settlement'[c]) = Tokens(settlement[c])
                      /\ c \in U => Charged(c) /\ ~Charged(c)'
                      /\ c \notin U => Charged(c)' = Charged(c)
    OBVIOUS
  <2>1. settlement[c] \in SettlementRows
    BY <1>1 DEF Typed, Settlements
  <2>2. settlement'[c] = IF c \in due
                         THEN [settlement[c] EXCEPT !.status = IF c \in U THEN "failed" ELSE "unknown"]
                         ELSE settlement[c]
    BY <1>2, <1>3
  <2>3. /\ c \in due => settlement[c].status \in {"reserved", "dispatched", "delivered"}
        /\ c \in U <=> c \in due /\ settlement[c].status = "reserved"
    BY <1>3 DEF LiveReservations, Status
  <2> HIDE DEF due, unsent
  <2>4. CASE c \notin due
    BY <2>2, <2>3, <2>4 DEF Charged, Status
  <2>5. CASE c \in due
    <3>1. settlement'[c] = [settlement[c] EXCEPT !.status = IF c \in U THEN "failed" ELSE "unknown"]
      BY <2>2, <2>5
    <3>2. /\ settlement'[c].status = IF c \in U THEN "failed" ELSE "unknown"
          /\ settlement'[c].measured = settlement[c].measured
          /\ settlement'[c].reserved = settlement[c].reserved
      BY <2>1, <3>1 DEF SettlementRows
    <3> QED
      BY <2>3, <2>5, <3>2 DEF Charged, Status, Tokens
  <2> QED
    BY <2>4, <2>5
<1> HIDE DEF due, unsent
<1>5. U \in SUBSET P /\ Q = P \ U
  BY <1>3, <1>4 DEF ChargedCalls
<1>6. PICK F \in [Calls -> Nat] :
        \A c \in Calls : F[c] = Tokens(settlement[c]) /\ F[c] = Tokens(settlement'[c])
  BY <1>1, <1>4, RowsCharged
<1>7. IsFiniteSet(P) /\ IsFiniteSet(Q) /\ IsFiniteSet(U)
  BY FS_Subset, ProviderConstants
<1>8. /\ Cardinality(Q) = Cardinality(P) - Cardinality(U)
      /\ Cardinality(P) \in Nat /\ Cardinality(Q) \in Nat /\ Cardinality(U) \in Nat
  <2>1. P \cap U = U
    BY <1>5
  <2>2. Cardinality(P \ U) = Cardinality(P) - Cardinality(P \cap U)
    BY <1>7, FS_Difference
  <2> QED
    BY <1>5, <1>7, <2>1, <2>2, FS_CardinalityType
<1>9. Total(F, P) = Total(F, U) + Total(F, Q)
  BY <1>5, <1>7, TotalParts
<1>10. Total(F, P) \in Nat /\ Total(F, Q) \in Nat /\ Total(F, U) \in Nat
  BY <1>7, TotalType
<1>11. TokensOf(P) = Total(F, P) /\ TokensOf(U) = Total(F, U)
  BY <1>6, <1>7, TokensTotal
<1>12. /\ usage.requests = Cardinality(P) + pruned.requests
       /\ usage.tokens = Total(F, P) + pruned.tokens
  BY <1>1, <1>3, <1>11 DEF UsageIsSum
<1>13. /\ AtLeastZero(usage.requests - Cardinality(U)) = Cardinality(Q) + pruned.requests
       /\ AtLeastZero(usage.tokens - Total(F, U)) = Total(F, Q) + pruned.tokens
  BY <1>1, <1>8, <1>9, <1>10, <1>12 DEF AtLeastZero
<1>14. Cardinality(ChargedCalls)' = Cardinality(Q) /\ TokensOf(ChargedCalls)' = Total(F, Q)
  BY <1>3, <1>6, ChargedAfter
<1>15. usage' = [requests |-> Cardinality(Q) + pruned.requests, tokens |-> Total(F, Q) + pruned.tokens]
  BY <1>2, <1>3, <1>11, <1>13
<1> QED
  BY <1>2, <1>14, <1>15 DEF UsageIsSum

\* A row deleted for its age is remembered.
LEMMA SumPruning == ASSUME SumInv, ProviderInv', NEW c \in Calls, Prune(c) PROVE UsageIsSum'
<1>1. /\ Typed /\ Typed' /\ UsageIsSum
      /\ pruned.requests \in Nat /\ pruned.tokens \in Nat
  BY DEF SumInv, ProviderInv, Measured
<1>2. /\ settlement' = [settlement EXCEPT ![c] = NoSettlement] /\ UNCHANGED usage
      /\ pruned' = IF Charged(c)
                   THEN [requests |-> pruned.requests + 1,
                         tokens |-> pruned.tokens + Tokens(settlement[c])]
                   ELSE pruned
  BY DEF Prune
<1>3. ~Charged(c)' /\ \A d \in Calls : d # c => settlement'[d] = settlement[d]
  BY <1>1, <1>2 DEF Typed, Charged, Status, NoSettlement
<1>4. Tokens(settlement[c]) \in Nat
  BY <1>1, RowFacts
<1>5. PICK n, k \in Nat :
             /\ Cardinality(ChargedCalls) = n + Share(Charged(c), 1)
             /\ TokensOf(ChargedCalls) = k + Share(Charged(c), Tokens(settlement[c]))
             /\ Cardinality(ChargedCalls)' = n + Share(Charged(c)', 1)
             /\ TokensOf(ChargedCalls)' = k + Share(Charged(c)', Tokens(settlement'[c]))
  BY <1>1, <1>3, OneShare
<1>6. Cardinality(ChargedCalls)' = n /\ TokensOf(ChargedCalls)' = k
  BY <1>3, <1>5 DEF Share
<1>7. CASE Charged(c)
  <2>1. /\ Cardinality(ChargedCalls) = n + 1
        /\ TokensOf(ChargedCalls) = k + Tokens(settlement[c])
    BY <1>5, <1>7 DEF Share
  <2>2. usage = [requests |-> n + 1 + pruned.requests,
                 tokens |-> k + Tokens(settlement[c]) + pruned.tokens]
    BY <1>1, <2>1 DEF UsageIsSum
  <2>3. /\ n + 1 + pruned.requests = n + pruned'.requests
        /\ k + Tokens(settlement[c]) + pruned.tokens = k + pruned'.tokens
    <3>1. pruned' = [requests |-> pruned.requests + 1,
                     tokens |-> pruned.tokens + Tokens(settlement[c])]
      BY <1>2, <1>7, Zenon
    <3>2. PICK a, b, m \in Nat : a = pruned.requests /\ b = pruned.tokens /\ m = Tokens(settlement[c])
      BY <1>1, <1>4
    <3>3. pruned'.requests = a + 1 /\ pruned'.tokens = b + m
      BY <3>1, <3>2
    <3>4. n + 1 + a = n + (a + 1) /\ k + m + b = k + (b + m)
      OBVIOUS
    <3> QED
      BY <3>2, <3>3, <3>4
  <2> QED
    BY <1>2, <1>6, <2>2, <2>3 DEF UsageIsSum
<1>8. CASE ~Charged(c)
  <2>1. Cardinality(ChargedCalls) = n /\ TokensOf(ChargedCalls) = k
    BY <1>5, <1>8 DEF Share
  <2> QED
    BY <1>1, <1>2, <1>6, <1>8, <2>1 DEF UsageIsSum
<1> QED
  BY <1>7, <1>8

\* Time, crashes and the deletion of the Project change no charge, but for all of them.
LEMMA SumResting ==
    ASSUME SumInv, ProviderInv',
           \/ ProviderCrash \/ BeginDeletion \/ EraseProject \/ FinalizeProject
           \/ \E c \in Calls : Overdue(c) \/ LeaveWindow(c)
    PROVE  UsageIsSum'
<1>1. Typed /\ Typed' /\ UsageIsSum
  BY DEF SumInv, ProviderInv
<1>2. CASE UNCHANGED <<settlement, usage, pruned>>
  BY <1>1, <1>2, SameRows
<1>3. ASSUME NEW c \in Calls, Overdue(c) \/ LeaveWindow(c) PROVE UsageIsSum'
  <2>1. PICK r : /\ settlement' = [settlement EXCEPT ![c] = r]
                 /\ \/ r = [settlement[c] EXCEPT !.overdue = TRUE]
                    \/ r = [settlement[c] EXCEPT !.recent = FALSE]
                 /\ UNCHANGED <<usage, pruned>>
    BY <1>3 DEF Overdue, LeaveWindow
  <2>2. /\ settlement'[c] = r /\ settlement[c] \in SettlementRows
        /\ \A d \in Calls : d # c => settlement'[d] = settlement[d]
    BY <1>1, <2>1 DEF Typed, Settlements
  <2>3. Charged(c)' = Charged(c) /\ Tokens(settlement'[c]) = Tokens(settlement[c])
    BY <2>1, <2>2 DEF Charged, Status, SettlementRows, Tokens
  <2> QED
    BY <1>1, <2>1, <2>2, <2>3, SameShare
<1>4. CASE /\ settlement' = [c \in Calls |-> NoSettlement]
           /\ usage' = NoUsage /\ pruned' = NoUsage
  <2>1. ChargedCalls' = {}
    BY <1>4 DEF ChargedCalls, Charged, Status, NoSettlement
  <2>2. PICK Q : Q = ChargedCalls' /\ Q = {}
    BY <2>1
  <2>3. /\ Cardinality(ChargedCalls)' = Cardinality(Q)
        /\ TokensOf(ChargedCalls)' = Total(<<>>, Q)
    BY <2>2, ChargedAfter
  <2>4. Cardinality(Q) = 0 /\ Total(<<>>, Q) = 0
    BY <2>2, FS_EmptySet, TotalStep
  <2> QED
    BY <1>4, <2>3, <2>4 DEF UsageIsSum, NoUsage
<1>5. \/ UNCHANGED <<settlement, usage, pruned>>
      \/ \E c \in Calls : Overdue(c) \/ LeaveWindow(c)
      \/ /\ settlement' = [c \in Calls |-> NoSettlement]
         /\ usage' = NoUsage /\ pruned' = NoUsage
  BY DEF ProviderCrash, BeginDeletion, EraseProject, FinalizeProject
<1> QED
  BY <1>2, <1>3, <1>4, <1>5

\* The deletion of the Project and the store's faults are what they can be.
LEMMA BoundedStep == ASSUME Bounded, ProviderNext PROVE Bounded'
<1>1. files' \in BOOLEAN /\ deletion' \in {"idle", "erase", "finalize"}
  BY DEF Bounded, ProviderNext, SettledCall, Reserve, Dispatch, Fail, Send, Answer, Deliver, Settle,
         MarkUnknown, DispatchLost, Overdue, LeaveWindow, Prune, Expire, ProviderCrash, BeginDeletion,
         EraseProject, FinalizeProject
<1>2. UNCHANGED providerFaults \/ DisturbProvider
  BY DEF Bounded, ProviderNext, SettledCall, Reserve, Dispatch, Fail, Send, Answer, Deliver, Settle,
         MarkUnknown, DispatchLost, Overdue, LeaveWindow, Prune, Expire, ProviderCrash, BeginDeletion,
         EraseProject, FinalizeProject
<1>3. providerFaults' \in 0..MaxProviderFaults
  BY <1>2, ProviderConstants DEF Bounded, DisturbProvider
<1> QED
  BY <1>1, <1>3 DEF Bounded

\* A step of one call, which leaves the rows of the others alone.
LEMMA MeasuredCalling ==
    ASSUME Typed, Measured, NEW c \in Calls, NEW pc \in CallPcs \ {"start"}, CallTo(c, pc),
           pc = "settle" => call[c].measured \in Amounts,
           \A d \in Calls : d # c => settlement'[d] = settlement[d],
           UNCHANGED pruned
    PROVE  Measured'
<1>1. /\ call'[c].pc = pc /\ (pc # "end" => call'[c].measured = call[c].measured)
      /\ \A d \in Calls : d # c => call'[d] = call[d]
  BY DEF Typed, CallTo, CallStates, CallPcs, Ended
<1> QED
  BY <1>1 DEF Measured, Status

\* A call has its row before it goes on, and settles what it was answered.
LEMMA MeasuredStep ==
    ASSUME SumInv, ProviderNext PROVE Measured'
<1>1. Typed /\ Measured
  BY DEF SumInv, ProviderInv
<1>2. ASSUME NEW c \in Calls, NEW pc \in CallPcs \ {"start"}, CallTo(c, pc),
             pc = "settle" => call[c].measured \in Amounts,
             \/ UNCHANGED settlement
             \/ \E r : settlement' = [settlement EXCEPT ![c] = r],
             UNCHANGED pruned
      PROVE  Measured'
  <2>1. \A d \in Calls : d # c => settlement'[d] = settlement[d]
    BY <1>1, <1>2 DEF Typed
  <2> QED
    BY <1>1, <1>2, <2>1, MeasuredCalling
<1>3. ASSUME NEW c \in Calls,
             \/ \E t \in Amounts : Reserve(c, t)
             \/ Dispatch(c) \/ Fail(c) \/ Deliver(c) \/ Settle(c) \/ MarkUnknown(c) \/ DispatchLost(c)
      PROVE  Measured'
  <2>1. \E pc \in CallPcs \ {"start"} :
          /\ CallTo(c, pc)
          /\ pc = "settle" => call[c].measured # Unmeasured
    <3>1. \/ \E pc \in {"dispatch", "call", "fail", "end", "unknown"} : CallTo(c, pc)
          \/ call[c].measured # Unmeasured /\ CallTo(c, "settle")
      <4>1. CASE Deliver(c)
        <5>1. CASE call[c].measured = Unmeasured
          BY <4>1, <5>1 DEF Deliver
        <5>2. CASE call[c].measured # Unmeasured
          BY <4>1, <5>2 DEF Deliver
        <5> QED
          BY <5>1, <5>2
      <4>2. CASE Settle(c)
        <5>1. CASE settlement[c].status = "settled"
          BY <4>2, <5>1 DEF Settle
        <5>2. CASE settlement[c].status # "settled"
          BY <4>2, <5>2 DEF Settle
        <5> QED
          BY <5>1, <5>2
      <4> QED
        BY <1>3, <4>1, <4>2 DEF Reserve, Dispatch, Fail, MarkUnknown, DispatchLost
    <3> QED
      BY <3>1 DEF CallPcs
  <2>2. /\ UNCHANGED pruned
        /\ \/ UNCHANGED settlement
           \/ \E r : settlement' = [settlement EXCEPT ![c] = r]
    <3>1. UNCHANGED pruned
      BY <1>3 DEF Reserve, Dispatch, Fail, Deliver, Settle, MarkUnknown, DispatchLost
    <3>2. \/ UNCHANGED settlement
          \/ \E status : Mark(c, status)
          \/ \E r : settlement' = [settlement EXCEPT ![c] = r]
      BY <1>3 DEF Reserve, Dispatch, Fail, Deliver, Settle, MarkUnknown, DispatchLost
    <3> QED
      BY <3>1, <3>2 DEF Mark
  <2>3. call[c].measured \in Amounts \cup {Unmeasured}
    BY <1>1 DEF Typed, CallStates
  <2> QED
    BY <1>2, <2>1, <2>2, <2>3
<1>4. ASSUME NEW c \in Calls, Send(c) \/ Answer(c) PROVE Measured'
  <2>1. CASE CallTo(c, "unknown") /\ UNCHANGED <<settlement, pruned>>
    BY <1>2, <2>1 DEF CallPcs
  <2>2. CASE /\ UNCHANGED <<settlement, pruned>>
             /\ call'[c].pc \in {"answer", "deliver"}
             /\ \A d \in Calls : d # c => call'[d] = call[d]
    BY <1>1, <2>2 DEF Measured, Status
  <2>3. \/ CallTo(c, "unknown") /\ UNCHANGED <<settlement, pruned>>
        \/ /\ UNCHANGED <<settlement, pruned>>
           /\ call'[c].pc \in {"answer", "deliver"}
           /\ \A d \in Calls : d # c => call'[d] = call[d]
    BY <1>1, <1>4 DEF Send, Answer, Typed, CallStates
  <2> QED
    BY <2>1, <2>2, <2>3
<1>5. ASSUME NEW c \in Calls, Overdue(c) \/ LeaveWindow(c) PROVE Measured'
  <2>1. /\ \A d \in Calls : settlement'[d].status = settlement[d].status
        /\ UNCHANGED <<call, pruned>>
    BY <1>1, <1>5 DEF Overdue, LeaveWindow, Typed, Settlements, SettlementRows
  <2> QED
    BY <1>1, <2>1 DEF Measured, Status
<1>6. ASSUME NEW c \in Calls, Prune(c) PROVE Measured'
  <2>1. Tokens(settlement[c]) \in Nat
    BY <1>1, <1>6, RowFacts
  <2>2. pruned' \in [requests: Nat, tokens: Nat]
    BY <1>1, <1>6, <2>1 DEF Measured, Prune
  <2>3. /\ settlement' = [settlement EXCEPT ![c] = NoSettlement] /\ UNCHANGED call
    BY <1>6 DEF Prune
  <2>4. \A d \in Calls : settlement'[d] \in {settlement[d], NoSettlement}
    BY <1>1, <2>3 DEF Typed
  <2> QED
    BY <1>1, <2>2, <2>3, <2>4 DEF Measured, Status, NoSettlement
<1>7. CASE Expire
  <2>1. UNCHANGED <<call, pruned>>
    BY <1>7 DEF Expire
  <2>2. \A c \in Calls : Status(c) = "absent" => settlement'[c] = settlement[c]
    BY <1>7 DEF Expire, LiveReservations
  <2> QED
    BY <1>1, <2>1, <2>2 DEF Measured, Status
<1>8. CASE ProviderCrash
  <2>1. UNCHANGED <<settlement, pruned>> /\ \A c \in Calls : call'[c] \in {call[c], Ended}
    BY <1>8 DEF ProviderCrash
  <2> QED
    BY <1>1, <2>1 DEF Measured, Status, Ended
<1>9. CASE BeginDeletion \/ EraseProject
  BY <1>1, <1>9 DEF BeginDeletion, EraseProject, Measured, Status
<1>10. CASE FinalizeProject
  <2>1. UNCHANGED call
    BY <1>10 DEF FinalizeProject
  <2>2. \/ UNCHANGED <<settlement, pruned>>
        \/ settlement' = [c \in Calls |-> NoSettlement] /\ pruned' = NoUsage
    BY <1>10 DEF FinalizeProject
  <2> QED
    BY <1>1, <2>1, <2>2 DEF Measured, Status, NoSettlement, NoUsage
<1> QED
  BY <1>3, <1>4, <1>5, <1>6, <1>7, <1>8, <1>9, <1>10 DEF ProviderNext, SettledCall

\* Before the first call nothing is charged.
LEMMA SumInvInit == ASSUME ProviderInit PROVE SumInv
<1>1. ProviderInv
  BY ProviderInvInit
<1>2. Measured /\ Bounded
  BY ProviderConstants DEF ProviderInit, Measured, Bounded, Status, NoSettlement, NoUsage
<1>3. UsageIsSum
  <2>1. ChargedCalls = {}
    BY DEF ProviderInit, ChargedCalls, Charged, Status, NoSettlement
  <2>2. TokensOf(ChargedCalls) = 0 /\ Cardinality(ChargedCalls) = 0
    BY <2>1, TokensAreTotal, FS_EmptySet, TotalStep
  <2> QED
    BY <2>2 DEF ProviderInit, UsageIsSum, NoUsage
<1> QED
  BY <1>1, <1>2, <1>3 DEF SumInv

\* Every step keeps it.
LEMMA SumInvStep == ASSUME SumInv, [ProviderNext]_providerVars PROVE SumInv'
<1>1. ProviderInv'
  BY ProviderInvStep DEF SumInv
<1>2. CASE UNCHANGED providerVars
  <2>1. UsageIsSum'
    BY <1>2, SameRows DEF SumInv, providerVars
  <2>2. Measured' /\ Bounded'
    BY <1>2 DEF SumInv, providerVars, Measured, Bounded, Status
  <2> QED
    BY <1>1, <2>1, <2>2 DEF SumInv
<1>3. CASE ProviderNext
  <2>1. UsageIsSum'
    BY <1>1, <1>3, SumReserving, SumCalling, SumExpiring, SumPruning, SumResting
       DEF ProviderNext, SettledCall
  <2>2. Measured' /\ Bounded'
    BY <1>3, MeasuredStep, BoundedStep DEF SumInv
  <2> QED
    BY <1>1, <2>1, <2>2 DEF SumInv
<1> QED
  BY <1>2, <1>3

\* So it holds always.
LEMMA SumInvariant == ProviderSpec => []SumInv
BY SumInvInit, SumInvStep, PTL DEF ProviderSpec

\* The Project is charged what its rows and those deleted for their age say, in
\* whatever order reservations, expiries, late answers, failures and crashes come.
THEOREM UsageSummed == ProviderSpec => []UsageIsSum
BY SumInvariant, PTL DEF SumInv

\* The rows, the calls and the usage have their types: no refund makes the usage negative.
THEOREM ProviderTyped == ProviderSpec => []ProviderTypeOK
<1>1. ASSUME SumInv PROVE ProviderTypeOK
  <2>1. Typed /\ UsageIsSum /\ Measured /\ Bounded
    BY <1>1 DEF SumInv, ProviderInv
  <2>2. PICK F \in [Calls -> Nat] : F = RowTokens
    BY <2>1, RowsCharged
  <2>3. IsFiniteSet(ChargedCalls) /\ Cardinality(ChargedCalls) \in Nat /\ ChargedCalls \in SUBSET Calls
    BY <2>1, RowsCharged DEF ChargedCalls
  <2>4. Total(F, ChargedCalls) \in Nat
    BY <2>2, <2>3, TotalType
  <2>5. TokensOf(ChargedCalls) \in Nat
    BY <2>2, <2>3, <2>4, TokensAreTotal
  <2>6. usage \in [requests: Nat, tokens: Nat]
    BY <2>1, <2>3, <2>5 DEF UsageIsSum, Measured
  <2> QED
    BY <2>1, <2>6 DEF Typed, Measured, Bounded, ProviderTypeOK
<1> QED
  BY <1>1, SumInvariant, PTL
=============================================================================
